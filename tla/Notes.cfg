SPECIFICATION FairSpec
CONSTANTS
  None = None
  Start = Start
  NoPage = NoPage
  Word = {w1}
  Docset = {d1}
  Path = {i1}
INVARIANTS
  NoCrossover
  UnsavedIsPending
  EditorShowsStored
PROPERTIES
  EditsAreKept
  
  EditsGetSaved
