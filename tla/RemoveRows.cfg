SPECIFICATION Spec
CONSTANTS
  None = None
  f1 = f1
  f2 = f2
  f3 = f3
  q1 = q1
  q2 = q2
  q3 = q3
  Docset <- Two
  File = {f1, f2}
  Request = {q1, q2}
  Catalog <- Two
  Tarix <- Nobody
  Feeds <- Nobody
  BadUrl <- Nobody
  Restarts = FALSE
  MaxTarixIndexRetries = 1
SYMMETRY Symmetry
PROPERTIES
  RemovedIsConfirmed
\* Quitting, or a crash, ends the program.
CHECK_DEADLOCK FALSE
