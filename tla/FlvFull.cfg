CONSTANTS
  Files = {"a"}
  Own = {0, 1, 2}
  HeadLen = 2
  SizeLen = 1
  DataLens = {1, 2}
  MaxTags = 3
  MaxRoom = 5
SPECIFICATION Spec
INVARIANTS ReadsBack NoDescriptorLost
