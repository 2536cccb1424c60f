SPECIFICATION FairSpec
CONSTANTS
  None = None
  Empty = Empty
  t1 = t1
  t2 = t2
  d1 = d1
  qa = qa
  qb = qb
  s1 = s1
  Tab = {t1, t2}
  Docset = {d1}
  Query = {qa, qb}
  Storage = {s1}
  Found <- OneFound
  Match <- OneMatch
  MaxPosted = 1
  MaxEvents = 1
INVARIANTS
  CancelledOrComplete
  AnswersLastQuery
  
  ShownSidebarExists
PROPERTIES
  LastQueryAnswered
\* The program ends when a deleted docset is read.
CHECK_DEADLOCK FALSE
