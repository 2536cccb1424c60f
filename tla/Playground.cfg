SPECIFICATION FairSpec
CONSTANTS
  MaxEdits = 2
  MaxRequests = 4
  MaxCalls = 2
  Blank = Blank
INVARIANT StopLeavesBlank
PROPERTIES RendersWhatIsWanted 
CHECK_DEADLOCK FALSE
