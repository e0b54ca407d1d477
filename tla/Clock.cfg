CONSTANTS
  Half = 32
  Ticks = 3
  Gap = 2
  Least = 2
  Starts <- MCStarts
  Steps <- MCSteps
  MaxPos = 31
  LateAtStart = FALSE
  ZeroBase = FALSE
SPECIFICATION Spec
INVARIANTS
  Tracks
  NoLeap
CHECK_DEADLOCK FALSE
