SPECIFICATION Spec
CONSTANTS
  root = root
  mid = mid
  leaf = leaf
  NoKey = NoKey
  Key = {root, leaf}
  ParentOf <- PairParent
  Remote = {leaf}
  Announced = {root, leaf}
  Linked = {root}
  GroupId = {g1, g2, g3}
  Handled = {"announce-key", "activate-key", "suspend-key", "deactivate-key"}
  Calls = {"activate-key", "suspend-key", "deactivate-key"}
SYMMETRY Symmetric
INVARIANTS BackedInv CompletedIsBacked
PROPERTIES ImplementsLedger
CHECK_DEADLOCK FALSE
