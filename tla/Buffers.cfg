CONSTANTS
  MaxUnit = 5
  MaxSlices = 2
  MaxSps = 2
  MaxMissedStarts = 1
  MaxMissedMarkers = 1
  JoinsInside = FALSE
SPECIFICATION Spec
INVARIANTS TypeOK NalFits FrameFits 
