CONSTANTS
  Proxy = {p1}
  Bad = bad
  NoPool = nopool
  Other = {unset}
  Unset = unset
  Handler = {h1}
  Inode = {i1, i2, i3}
  NoInode = noinode
  Torn = torn
SPECIFICATION Spec
INVARIANTS DisabledIsDirect
