SPECIFICATION FairSpec
CONSTANTS
  Depth = 2
  Tops = {"rpcSeal", "rootSeal"}
  Entries = {"createSecret", "Seal", "handleGet", "importSpec"}
  MaxCalls = 2
INVARIANTS NoUseAfterDestroy NothingLeftBehind ServedIsReadOnly
PROPERTIES EventuallyDestroyed
CHECK_DEADLOCK FALSE
