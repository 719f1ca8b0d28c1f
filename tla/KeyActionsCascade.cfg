SPECIFICATION Spec
CONSTANTS
  root = root
  mid = mid
  leaf = leaf
  NoKey = NoKey
  Key = {root, mid, leaf}
  ParentOf <- ChainParent
  Remote = {leaf}
  Announced = {root, mid, leaf}
  Linked = {root}
  GroupId = {g1, g2}
  Handled = {"announce-key", "activate-key", "suspend-key", "deactivate-key"}
  Calls = {"announce-key", "activate-key", "suspend-key", "deactivate-key"}
SYMMETRY Symmetric
INVARIANTS MaterialChain
PROPERTIES LegalLifecycle ClaimIsExclusive ActivatesUnderActiveParent LeavesFirst
CHECK_DEADLOCK FALSE
