CONSTANTS
  s1 = s1
  s2 = s2
  Sessions <- MCTwo
  Sockets <- MCSocketsOfTwo
  Failing <- MCFailing
  NoSocket = NoSocket
  T1 = T1
  App = App
  NoOne = NoOne
  Feeders = {f1}
  MaxPending = 1
SPECIFICATION FairSpec
INVARIANTS
  TypeOK
  NoUseAfterDelete
  NothingLeft
PROPERTIES
  CallsReturn
  EachServed
