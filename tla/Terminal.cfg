SPECIFICATION FairSpec
CONSTANTS
  MaxSessions = 2
  MaxOutput = 1
  MaxPending = 1
  MaxInput = 1
  MaxBoxes = 2
INVARIANTS TypeOK OneShell ExitReportedOnce
PROPERTIES StopEnds 
