CONSTANTS
  OtherTypes = {6}
  OpenMayFail = TRUE
  Senders <- MCSenders
SPECIFICATION Spec
INVARIANTS
  FramesInOrder
  HeaderUnbroken
  DumpTypeOK
  FileWellFormed
  Resynchronises
  MarkerFlushes
  OneWriter
  ProgramStreamVerbatim
CHECK_DEADLOCK FALSE
