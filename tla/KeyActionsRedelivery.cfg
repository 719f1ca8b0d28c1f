SPECIFICATION Spec
CONSTANTS
  root = root
  mid = mid
  leaf = leaf
  NoKey = NoKey
  Key = {root, leaf}
  ParentOf <- PairParent
  Remote = {leaf}
  Announced = {root}
  Linked = {root}
  GroupId = {g1, g2}
  Handled = {"announce-key", "activate-key"}
  Calls = {"announce-key", "activate-key"}
SYMMETRY Symmetric
INVARIANTS AgentKeepsUp
CHECK_DEADLOCK FALSE
