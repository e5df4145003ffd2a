CONSTANTS
  Proxy = {p1}
  Bad = bad
  NoPool = nopool
  Other = {unset}
  Unset = unset
  Handler = {h1, h2}
  Inode = {i1, i2, i3}
  NoInode = noinode
  Torn = torn
SPECIFICATION Spec
INVARIANTS LoneChangeSettles WholeUnlessOverlapped
SYMMETRY Symmetry
