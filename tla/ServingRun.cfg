\* One request at a time against two calls of the admin API.
SPECIFICATION FairSpec
CONSTANTS
    root = root
    mid = mid
    leaf = leaf
    t1 = t1
    t2 = t2
    NoKey = NoKey
    Key = {root, mid, leaf}
    ParentOf <- ChainParent
    TenantOf <- OneTenant
    Bound <- BoundKeys
    RootName = "root"
    Segment <- Agents
    Configs <- MCConfigs
    Asks <- MCAsks
    Slot = {r1}
    Calls <- MCCalls
    MaxCalls = 2
INVARIANTS
    ServedWasUsable
    UsableIsServed
    NodesAreAdmitted
    DrainedBeforeExit
PROPERTY
    ShutdownEnds
CHECK_DEADLOCK FALSE
