SPECIFICATION FairSpec
CONSTANTS
  Process = {c1, c2, c3}
  BackingFile = FALSE
  Nobody = Nobody
INVARIANTS OnePrimary LoneStartSucceeds  
PROPERTIES StartsEnd
