CONSTANTS
  PreAlloc = 0
  MaxAlloc = 1
  Sessions = {s1, s2}
  Feeders = {f1}
  Media = {"video"}
  App = App
  T1 = T1
  T2 = T2
  NoOne = NoOne
  NULL = NULL
  MaxInt = 1
  BlockSize = 2
  SizeModulus = 8
  CallLens = {2}
  DatagramLens = {1}
  MaxPackets = 2
  Disciplined = FALSE
  Ports = {TRUE, FALSE}
  MaxAdds = 2
SPECIFICATION FairSpec
PROPERTIES
  CallsReturn
  PacketsSettle
INVARIANTS
  TypeOK
  LocksHeld
  CaptureSideSafe
  BlockExclusive
