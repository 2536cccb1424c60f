SPECIFICATION Spec
CONSTANTS
  None = None
  f1 = f1
  f2 = f2
  f3 = f3
  q1 = q1
  q2 = q2
  q3 = q3
  Docset <- One
  File = {f1, f2}
  Request = {q1, q2, q3}
  Catalog <- One
  Tarix <- One
  Feeds <- One
  BadUrl <- Nobody
  Restarts = FALSE
  MaxTarixIndexRetries = 1
SYMMETRY Symmetry
PROPERTIES
  OnlyIntactArchivesLoad
\* Quitting, or a crash, ends the program.
CHECK_DEADLOCK FALSE
