SPECIFICATION FairSpec
CONSTANTS
  d1 = d1 d2 = d2 d3 = d3 d4 = d4 p1 = p1 p2 = p2 p3 = p3 s1 = s1 s2 = s2
  Docset = {d1, d2, d3, d4}
  Prefix = {p1, p2, p3}
  PrefixOf <- PrefixOfDocset
  Archived = {d1, d3}
  Storage = {s1, s2}
  Found <- FoundIn
  MaxPosted = 2
  None = None
INVARIANTS   StaleRowsGo RowsFollow RemovalFindsRow AskedIsLoaded
PROPERTIES ReloadsEnd
