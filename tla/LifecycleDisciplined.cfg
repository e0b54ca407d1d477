CONSTANTS
  PreAlloc = 1
  MaxAlloc = 2
  Sessions = {s1, s2}
  Feeders = {f1}
  Media = {"video"}
  App = App
  T1 = T1
  T2 = T2
  NoOne = NoOne
  NULL = NULL
  MaxInt = 1
  BlockSize = 2
  SizeModulus = 8
  CallLens <- MCCallLens
  DatagramLens = {3}
  MaxPackets = 3
  Disciplined = TRUE
  Ports = {TRUE}
  MaxAdds = 3
SPECIFICATION Spec
INVARIANTS
  NoBlockLost
  NoDanglingPush
  NodeFits
  Deletable
  BlockExclusive
SYMMETRY Symmetric
PROPERTIES
  ImplementsRecorder
