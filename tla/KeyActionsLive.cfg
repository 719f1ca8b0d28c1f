SPECIFICATION FairSpec
CONSTANTS
  root = root
  mid = mid
  leaf = leaf
  NoKey = NoKey
  Key = {root, mid, leaf}
  ParentOf <- ChainParent
  Remote = {mid}
  Announced = {root, mid}
  Linked = {root}
  GroupId = {g1, g2}
  Handled = {"announce-key", "activate-key", "suspend-key", "deactivate-key"}
  Calls = {"announce-key", "activate-key"}
PROPERTIES Settles
CHECK_DEADLOCK FALSE
