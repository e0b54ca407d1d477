CONSTANTS
  OtherTypes = {6}
  OpenMayFail = FALSE
  Senders <- MCPlainSender
SPECIFICATION Spec
INVARIANTS
  HeaderComplete
CHECK_DEADLOCK FALSE
