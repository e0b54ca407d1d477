CONSTANTS
  PreAlloc = 1
  MaxAlloc = 2
  Sessions = {s1, s2}
  Feeders = {f1}
  Media = {"video"}
  App = App
  T1 = T1
  T2 = T2
  NoOne = NoOne
  NULL = NULL
  MaxInt = 2
  BlockSize = 2
  SizeModulus = 8
  CallLens = {2}
  DatagramLens = {}
  MaxPackets = 2
  Disciplined = FALSE
  Ports = {FALSE}
  MaxAdds = 2
SPECIFICATION Spec
INVARIANTS
  RecordedIsOwn
SYMMETRY Symmetric
