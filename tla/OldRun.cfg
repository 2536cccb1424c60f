SPECIFICATION Spec
CONSTANTS
  MaxEdits = 1
  MaxRequests = 3
  MaxCalls = 2
  Blank = Blank
PROPERTY ResetForgets
CHECK_DEADLOCK FALSE
