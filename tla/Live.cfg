SPECIFICATION FairSpec
CONSTANTS
  None = None
  f1 = f1
  f2 = f2
  f3 = f3
  q1 = q1
  q2 = q2
  q3 = q3
  Docset <- Two
  File = {f1, f2}
  Request = {q1}
  Catalog <- Two
  Tarix <- Nobody
  Feeds <- Nobody
  BadUrl <- One
  Restarts = TRUE
  MaxTarixIndexRetries = 1
INVARIANT
  LoadedHasDirectory
PROPERTIES
  ExtractionReported
