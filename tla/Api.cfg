CONSTANTS
  Adders = {a1}
  Feeders = {f1, f2}
  NULL = NULL
  MaxAdds = 4
  MaxFeeds = 4
SPECIFICATION Spec
INVARIANTS
  EachReachable
CHECK_DEADLOCK FALSE
