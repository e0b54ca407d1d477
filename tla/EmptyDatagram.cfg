CONSTANTS
  PreAlloc = 1
  MaxAlloc = 2
  Sessions = {s1}
  Feeders = {}
  Media = {"video"}
  App = App
  T1 = T1
  T2 = T2
  NoOne = NoOne
  NULL = NULL
  MaxInt = 2
  BlockSize = 2
  SizeModulus = 8
  CallLens = {}
  DatagramLens = {0, 1}
  MaxPackets = 2
  Disciplined = TRUE
  Ports = {TRUE}
  MaxAdds = 1
SPECIFICATION FairSpec
PROPERTIES
  PacketsSettle
