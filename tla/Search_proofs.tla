--------------------------- MODULE Search_proofs ---------------------------
(***************************************************************************)
(* Theorems about Search for every set of tabs, docsets and queries and    *)
(* for every bound on the queues.                                          *)
(***************************************************************************)
EXTENDS Search, TLAPS

-----------------------------------------------------------------------------
(* Queues.                                                                 *)

LEMMA AppendPosted ==
  ASSUME posted \in Seq(Job), NEW e \in Job, posted' = Append(posted, e)
  PROVE  posted' \in Seq(Job)
  OBVIOUS

LEMMA AppendEvents ==
  ASSUME events \in Seq(Event), NEW e \in Event, events' = Append(events, e)
  PROVE  events' \in Seq(Event)
  OBVIOUS

LEMMA TakeJob ==
  ASSUME posted \in Seq(Job), posted # <<>>
  PROVE  Head(posted) \in Job /\ Tail(posted) \in Seq(Job)
  OBVIOUS

LEMMA TakeEvent ==
  ASSUME events \in Seq(Event), events # <<>>
  PROVE  Head(events) \in Event /\ Tail(events) \in Seq(Event)
  OBVIOUS

-----------------------------------------------------------------------------
(* Types.                                                                  *)

GuiType ==
  /\ tabs \subseteq Tab /\ sidebars \subseteq Tab
  /\ current \in Tab /\ shown \in Tab
  /\ text \in [Tab -> Query \cup {Empty}]
  /\ results \in [Tab -> Answer]
  /\ timer \in [Tab -> Result \cup {None}]
  /\ events \in Seq(Event)
  /\ alive \in BOOLEAN
  /\ asked \in Tab \cup {None}

RegistryType ==
  /\ registered \subseteq Docset
  /\ storage \in Storage \cup {None}
  /\ cancel \in BOOLEAN
  /\ posted \in Seq(Job)
  /\ job \in QueryJob \cup ReloadJob \cup {None}

LEMMA TypeParts == TypeOK <=> GuiType /\ RegistryType
  BY DEF TypeOK, GuiType, RegistryType

LEMMA InitType == Init => TypeOK
<1> SUFFICES ASSUME Init PROVE TypeOK
  OBVIOUS
<1>1. \E p \in Storage : posted = << [kind |-> "reload", path |-> p] >>
  BY DEF Init
<1>2. posted \in Seq(Job)
  <2>1. PICK p \in Storage : posted = << [kind |-> "reload", path |-> p] >>
    BY <1>1
  <2>2. [kind |-> "reload", path |-> p] \in Job
    BY DEF Job
  <2> DEFINE e == [kind |-> "reload", path |-> p]
  <2>3. e \in Job
    BY <2>2
  <2>4. posted = <<e>>
    BY <2>1
  <2> HIDE DEF e
  <2> QED BY <2>3, <2>4
<1>3. NoResults \in Answer
  BY DEF NoResults, Answer
<1>4. events \in Seq(Event)
  BY DEF Init
<1>5. /\ text \in [Tab -> Query \cup {Empty}]
      /\ results \in [Tab -> Answer]
      /\ timer \in [Tab -> Result \cup {None}]
  BY <1>3 DEF Init
<1> QED BY <1>2, <1>4, <1>5 DEF Init, TypeOK

LEMMA RowsType ==
  ASSUME TypeOK, NEW r \in Rows(shown)
  PROVE  r \in Result
  BY DEF TypeOK, Rows, Result, Answer

LEMMA SearchType ==
  ASSUME TypeOK, NEW q \in Query \cup {Empty}, Search(q)
  PROVE  posted' \in Seq(Job) /\ cancel' \in BOOLEAN
  BY DEF TypeOK, Search, Job

LEMMA ForgetType ==
  ASSUME TypeOK, NEW d \in Docset, NEW ts, Forget(d, ts)
  PROVE  results' \in [Tab -> Answer] /\ timer' \in [Tab -> Result \cup {None}]
<1>1. \A t \in Tab : [results[t] EXCEPT !.names = @ \ {d}] \in Answer
  BY DEF TypeOK, Answer
<1> QED BY <1>1 DEF TypeOK, Forget

LEMMA DeletedType ==
  ASSUME TypeOK, NEW d \in Docset, Deleted(d)
  PROVE  job' \in QueryJob \cup ReloadJob \cup {None}
<1>1. CASE QueryRuns /\ d \in job.todo
  <2>1. job \in QueryJob
    BY <1>1, SearchAssumption DEF TypeOK, QueryRuns, ReloadJob
  <2> QED BY <1>1, <2>1 DEF Deleted, QueryJob
<1>2. CASE ~ (QueryRuns /\ d \in job.todo)
  BY <1>2 DEF TypeOK, Deleted
<1> QED BY <1>1, <1>2

LEMMA UserType ==
  ASSUME TypeOK, UserActs
  PROVE  TypeOK'
<1>1. ASSUME NEW q \in Query \cup {Empty}, Type(q) PROVE TypeOK'
  <2>1. NoResults \in Answer
    BY DEF NoResults, Answer
  <2> QED BY <1>1, <2>1, SearchType DEF TypeOK, Type
<1>2. ASSUME NEW q \in Query, SearchInCurrentTab(q) PROVE TypeOK'
  BY <1>2, SearchType DEF TypeOK, SearchInCurrentTab
<1>3. ASSUME NEW r \in Result, Select(r) \/ NavigateToIndex(r) PROVE TypeOK'
  BY <1>3 DEF TypeOK, Select, NavigateToIndex, registryVars
<1>4. ASSUME NEW t \in Tab, NEW box \in Query \cup {Empty},
             NEW rows \in Answer, NEW activate \in BOOLEAN,
             AddTab(t, box, rows, activate),
             timer' \in [Tab -> Result \cup {None}]
      PROVE  TypeOK'
  <2>1. [kind |-> "viewChanged"] \in Event
    BY DEF Event
  <2>2. events' \in Seq(Event) /\ current' \in Tab
    <3>1. CASE activate
      BY <1>4, <2>1, <3>1, AppendEvents DEF AddTab, PostViewChanged, TypeOK
    <3>2. CASE ~ activate
      BY <1>4, <3>2 DEF AddTab, TypeOK
    <3> QED BY <3>1, <3>2
  <2> QED BY <1>4, <2>2 DEF TypeOK, AddTab, registryVars
<1>5. \A t \in Tab : ClonedRows(t) \in Answer /\ text[t] \in Query \cup {Empty}
  BY DEF TypeOK, ClonedRows, NoResults, Answer
<1>6. ASSUME NEW t \in Tab, CreateTab(t) PROVE TypeOK'
  <2>1. NoResults \in Answer
    BY DEF NoResults, Answer
  <2> QED BY <1>4, <1>6, <2>1 DEF CreateTab, TypeOK
<1>7. ASSUME NEW t \in Tab, NEW u \in Tab, DuplicateTab(t, u) PROVE TypeOK'
  BY <1>4, <1>5, <1>7 DEF DuplicateTab, TypeOK
<1>8. ASSUME NEW t \in Tab, NEW r \in Result, NEW a \in BOOLEAN,
             OpenInNewTab(t, r, a)
      PROVE  TypeOK'
  <2>1. timer' \in [Tab -> Result \cup {None}]
    BY <1>8 DEF OpenInNewTab, TypeOK
  <2>2. current \in Tab
    BY DEF TypeOK
  <2> QED BY <1>4, <1>5, <1>8, <2>1, <2>2 DEF OpenInNewTab
<1>9. ASSUME NEW t \in Tab, SwitchTab(t) PROVE TypeOK'
  <2>1. [kind |-> "viewChanged"] \in Event
    BY DEF Event
  <2> QED BY <1>9, <2>1 DEF SwitchTab, PostViewChanged, TypeOK, registryVars
<1>10. ASSUME NEW t \in Tab, NEW u \in Tab, CloseTab(t, u) PROVE TypeOK'
  <2>1. [kind |-> "viewChanged"] \in Event
        /\ [kind |-> "deleteTab", tab |-> t] \in Event
    BY DEF Event
  <2>2. events' \in Seq(Event)
    <3> DEFINE deleting == Append(events, [kind |-> "deleteTab", tab |-> t])
    <3>1. deleting \in Seq(Event)
      BY <2>1 DEF TypeOK
    <3>2. Append(deleting, [kind |-> "viewChanged"]) \in Seq(Event)
      BY <2>1, <3>1
    <3> QED BY <1>10, <3>1, <3>2 DEF CloseTab, PostViewChanged
  <2> QED BY <1>10, <2>2 DEF CloseTab, TypeOK, registryVars
<1>11. ASSUME NEW d \in Docset, UnloadDocset(d) \/ LoadDocset(d)
       PROVE  TypeOK'
  <2>1. results' \in [Tab -> Answer] /\ timer' \in [Tab -> Result \cup {None}]
        /\ job' \in QueryJob \cup ReloadJob \cup {None}
    BY <1>11, ForgetType, DeletedType DEF UnloadDocset, LoadDocset, TypeOK
  <2> QED BY <1>11, <2>1 DEF UnloadDocset, LoadDocset, TypeOK
<1>12. ASSUME NEW p \in Storage, SetStoragePath(p) PROVE TypeOK'
  <2>1. [kind |-> "reload", path |-> p] \in Job
    BY DEF Job
  <2> QED BY <1>12, <2>1 DEF SetStoragePath, TypeOK, guiVars
<1> QED BY <1>1, <1>2, <1>3, <1>6, <1>7, <1>8, <1>9, <1>10, <1>11, <1>12
        DEF UserActs

LEMMA RegistryType_ ==
  ASSUME TypeOK, RegistryWorks
  PROVE  TypeOK'
<1>1. CASE BeginReload
  <2>1. Head(posted) \in Job /\ Tail(posted) \in Seq(Job)
    BY <1>1, TakeJob DEF BeginReload, TypeOK
  <2>2. Head(posted).path \in Storage
    BY <1>1, <2>1 DEF BeginReload, Job
  <2>3. job' \in ReloadJob
    BY <1>1, <2>2, SearchAssumption DEF BeginReload, ReloadJob, TypeOK
  <2> QED BY <1>1, <2>1, <2>3 DEF BeginReload, TypeOK, guiVars
<1>2. ASSUME ReloadRuns PROVE job \in ReloadJob
  BY <1>2 DEF ReloadRuns, TypeOK, QueryJob
<1>3. ASSUME QueryRuns PROVE job \in QueryJob
  BY <1>3 DEF QueryRuns, TypeOK, ReloadJob
<1>4. CASE EndReload
  BY <1>2, <1>4 DEF EndReload, TypeOK, guiVars, ReloadJob
<1>5. CASE BeginQuery
  <2>1. Head(posted) \in Job /\ Tail(posted) \in Seq(Job)
    BY <1>5, TakeJob DEF BeginQuery, TypeOK
  <2>2. Head(posted).of \in Query
    BY <1>5, <2>1 DEF BeginQuery, Job
  <2>3. job' \in QueryJob
    BY <1>5, <2>2 DEF BeginQuery, QueryJob, TypeOK
  <2> QED BY <1>5, <2>1, <2>3 DEF BeginQuery, TypeOK, guiVars
<1>6. CASE EndQuery
  <2>1. [kind |-> "results", to |-> sidebars,
         answer |-> [of |-> job.of, names |-> job.found]] \in Event
    BY <1>3, <1>6 DEF EndQuery, Event, QueryJob, TypeOK
  <2> QED BY <1>6, <2>1 DEF EndQuery, TypeOK, guiVars
<1>7. CASE SearchDeletedDocset
  BY <1>7 DEF SearchDeletedDocset, TypeOK, guiVars, registryVars
<1>8. ASSUME NEW d \in Docset, ReloadUnloads(d) \/ ReloadLoads(d)
      PROVE  TypeOK'
  <2>1. [kind |-> "unload", to |-> sidebars, name |-> d] \in Event
    BY DEF Event, TypeOK
  <2>2. job' \in ReloadJob
    BY <1>2, <1>8 DEF ReloadUnloads, ReloadLoads, ReloadJob
  <2>3. events' \in Seq(Event)
    <3> DEFINE e == [kind |-> "unload", to |-> sidebars, name |-> d]
    <3>1. events' = events \/ events' = Append(events, e)
      BY <1>8 DEF ReloadUnloads, ReloadLoads, PostUnload
    <3>2. e \in Event
      BY <2>1
    <3> HIDE DEF e
    <3>3. events \in Seq(Event)
      BY DEF TypeOK
    <3>4. Append(events, e) \in Seq(Event)
      BY <3>2, <3>3
    <3> QED BY <3>1, <3>3, <3>4
  <2> QED BY <1>8, <2>2, <2>3 DEF ReloadUnloads, ReloadLoads, TypeOK, guiVars
<1>9. ASSUME NEW d \in Docset, SearchDocset(d) PROVE TypeOK'
  <2>1. job' \in QueryJob
    BY <1>3, <1>9 DEF SearchDocset, QueryJob
  <2> QED BY <1>9, <2>1 DEF SearchDocset, TypeOK, guiVars
<1> QED BY <1>1, <1>4, <1>5, <1>6, <1>7, <1>8, <1>9 DEF RegistryWorks

LEMMA EventType ==
  ASSUME TypeOK, GuiHandlesEvent \/ TimerFires
  PROVE  TypeOK'
<1> USE DEF registryVars, guiVars
<1>0. ASSUME NEW k, NextIs(k)
      PROVE  Head(events) \in Event /\ Tail(events) \in Seq(Event)
  BY <1>0, TakeEvent DEF NextIs, TypeOK
<1>1. CASE SearchCompleted
  <2>1. Head(events).answer \in [of : Query, names : SUBSET Docset]
        /\ Tail(events) \in Seq(Event)
    BY <1>0, <1>1 DEF SearchCompleted, NextIs, Event
  <2> DEFINE answer == Head(events).answer
  <2>2. CASE shown \notin Head(events).to
    BY <1>1, <2>1, <2>2 DEF SearchCompleted, TypeOK
  <2>3. CASE shown \in Head(events).to
    <3>1. results' \in [Tab -> Answer]
      BY <1>1, <2>1, <2>3 DEF SearchCompleted, Answer, TypeOK
    <3>2. \A d \in answer.names : [of |-> answer.of, name |-> d] \in Result
      BY <2>1 DEF Result
    <3>3. timer' \in [Tab -> Result \cup {None}]
      <4>1. CASE answer.names = {}
        BY <1>1, <2>3, <4>1 DEF SearchCompleted, TypeOK
      <4>2. CASE answer.names # {}
        BY <1>1, <2>3, <3>2, <4>2 DEF SearchCompleted, TypeOK
      <4> QED BY <4>1, <4>2
    <3> QED BY <1>1, <2>1, <3>1, <3>3 DEF SearchCompleted, TypeOK
  <2> QED BY <2>2, <2>3
<1>2. CASE DocsetAboutToBeUnloaded
  <2>1. Head(events).name \in Docset /\ Tail(events) \in Seq(Event)
    BY <1>0, <1>2 DEF DocsetAboutToBeUnloaded, NextIs, Event
  <2>2. results' \in [Tab -> Answer] /\ timer' \in [Tab -> Result \cup {None}]
    BY <1>2, <2>1, ForgetType DEF DocsetAboutToBeUnloaded
  <2> QED BY <1>2, <2>1, <2>2 DEF DocsetAboutToBeUnloaded, TypeOK
<1>3. CASE ViewChanged
  BY <1>0, <1>3 DEF ViewChanged, TypeOK
<1>4. CASE DeleteTab
  <2>1. Head(events).tab \in Tab /\ Tail(events) \in Seq(Event)
    BY <1>0, <1>4 DEF DeleteTab, NextIs, Event
  <2>2. [kind |-> "deleteSidebar", tab |-> Head(events).tab] \in Event
    BY <2>1 DEF Event
  <2> QED BY <1>4, <2>1, <2>2 DEF DeleteTab, TypeOK
<1>5. CASE DeleteSidebar
  <2>1. Tail(events) \in Seq(Event)
    BY <1>0, <1>5 DEF DeleteSidebar
  <2>2. NoResults \in Answer
    BY DEF NoResults, Answer
  <2> QED BY <1>5, <2>1, <2>2 DEF DeleteSidebar, TypeOK
<1>6. CASE TimerFires
  BY <1>6 DEF TimerFires, DelayedNavigation, TypeOK
<1> QED BY <1>1, <1>2, <1>3, <1>4, <1>5, <1>6 DEF GuiHandlesEvent

LEMMA NextType == TypeOK /\ [Next]_vars => TypeOK'
<1> SUFFICES ASSUME TypeOK, [Next]_vars PROVE TypeOK'
  OBVIOUS
<1>1. CASE UNCHANGED vars
  BY <1>1 DEF TypeOK, vars, guiVars, registryVars
<1> QED BY <1>1, UserType, RegistryType_, EventType DEF Next

\* Every variable has its type.
THEOREM TypeCorrect == Spec => []TypeOK
<1> QED BY InitType, NextType, PTL DEF Spec

-----------------------------------------------------------------------------
(* The sidebar in the dock.                                                *)

IsDeletion(e) == e.kind \in {"deleteTab", "deleteSidebar"}
IsViewChange(e) == e.kind = "viewChanged"

\* A closed tab is deleted once, and before its sidebar goes the dock has been
\* told to show the current tab's.
SidebarInv ==
  /\ tabs \subseteq sidebars /\ current \in tabs /\ shown \in sidebars
  /\ \A i \in DOMAIN events :
       IsDeletion(events[i]) => events[i].tab \in sidebars \ tabs
  /\ \A i, j \in DOMAIN events :
       /\ IsDeletion(events[i]) /\ IsDeletion(events[j])
       /\ events[i].tab = events[j].tab
       => i = j
  /\ shown # current => \E i \in DOMAIN events : IsViewChange(events[i])
  /\ \A i \in DOMAIN events :
       events[i].kind = "deleteSidebar" /\ events[i].tab = shown =>
         \E j \in DOMAIN events : j < i /\ IsViewChange(events[j])

LEMMA SidebarInit == Init => SidebarInv
  BY DEF Init, SidebarInv

\* An event that deletes nothing is posted.
LEMMA SidebarPost ==
  ASSUME TypeOK, SidebarInv, NEW e \in Event, ~ IsDeletion(e),
         events' = Append(events, e),
         tabs' \subseteq sidebars', current' \in tabs', shown' = shown,
         sidebars \subseteq sidebars', tabs' \cap sidebars \subseteq tabs,
         current' # current => IsViewChange(e)
  PROVE  SidebarInv'
<1>1. events \in Seq(Event)
  BY DEF TypeOK
<1>2. /\ DOMAIN events = 1 .. Len(events) /\ Len(events) \in Nat
      /\ DOMAIN events' = 1 .. Len(events) + 1
      /\ \A i \in DOMAIN events : events'[i] = events[i]
      /\ events'[Len(events) + 1] = e
  BY <1>1
<1>3. \A i \in DOMAIN events' : IsDeletion(events'[i]) =>
        i \in DOMAIN events /\ events'[i] = events[i]
  BY <1>2
<1>4. \A i \in DOMAIN events' : IsDeletion(events'[i]) =>
        events'[i].tab \in sidebars' \ tabs'
  BY <1>3 DEF SidebarInv
<1>5. \A i, j \in DOMAIN events' :
        /\ IsDeletion(events'[i]) /\ IsDeletion(events'[j])
        /\ events'[i].tab = events'[j].tab
        => i = j
  BY <1>3 DEF SidebarInv
<1>6. shown' # current' => \E i \in DOMAIN events' : IsViewChange(events'[i])
  <2>1. CASE current' = current
    BY <1>2, <2>1 DEF SidebarInv
  <2>2. CASE current' # current
    BY <1>2, <2>2
  <2> QED BY <2>1, <2>2
<1>7. ASSUME NEW i \in DOMAIN events', events'[i].kind = "deleteSidebar",
             events'[i].tab = shown
      PROVE  \E j \in DOMAIN events' : j < i /\ IsViewChange(events'[j])
  <2>1. i \in DOMAIN events /\ events'[i] = events[i]
    BY <1>3, <1>7 DEF IsDeletion
  <2> QED BY <1>2, <1>7, <2>1 DEF SidebarInv
<1> QED BY <1>4, <1>5, <1>6, <1>7 DEF SidebarInv

\* The next event, which is no deletion, is taken.
LEMMA SidebarTake ==
  ASSUME TypeOK, SidebarInv, events # <<>>, events' = Tail(events),
         ~ IsDeletion(Head(events)),
         UNCHANGED <<tabs, sidebars, current>>,
         IF IsViewChange(Head(events)) THEN shown' = current
                                       ELSE shown' = shown
  PROVE  SidebarInv'
<1>1. events \in Seq(Event)
  BY DEF TypeOK
<1>2. /\ DOMAIN events = 1 .. Len(events) /\ Len(events) \in Nat
      /\ DOMAIN events' = 1 .. Len(events) - 1
      /\ \A i \in DOMAIN events' : events'[i] = events[i + 1]
      /\ Head(events) = events[1]
  BY <1>1
<1>3. \A i \in DOMAIN events' : i + 1 \in DOMAIN events
  BY <1>2
<1>4. \A i \in DOMAIN events' : IsDeletion(events'[i]) =>
        events'[i].tab \in sidebars' \ tabs'
  BY <1>2, <1>3 DEF SidebarInv
<1>5. \A i, j \in DOMAIN events' :
        /\ IsDeletion(events'[i]) /\ IsDeletion(events'[j])
        /\ events'[i].tab = events'[j].tab
        => i = j
  BY <1>2, <1>3 DEF SidebarInv
<1>6. ASSUME NEW j \in DOMAIN events, j # 1
      PROVE  j - 1 \in DOMAIN events' /\ events'[j - 1] = events[j]
  BY <1>2, <1>6
<1>7. CASE IsViewChange(Head(events))
  <2>1. \A i \in DOMAIN events' : IsDeletion(events'[i]) =>
          events'[i].tab # shown'
    BY <1>4, <1>7 DEF SidebarInv
  <2> QED BY <1>4, <1>5, <1>7, <2>1 DEF SidebarInv, IsDeletion
<1>8. CASE ~ IsViewChange(Head(events))
  <2>1. shown' # current' =>
          \E i \in DOMAIN events' : IsViewChange(events'[i])
    BY <1>2, <1>6, <1>8 DEF SidebarInv
  <2>2. ASSUME NEW i \in DOMAIN events', events'[i].kind = "deleteSidebar",
               events'[i].tab = shown
        PROVE  \E j \in DOMAIN events' : j < i /\ IsViewChange(events'[j])
    <3>1. PICK j \in DOMAIN events : j < i + 1 /\ IsViewChange(events[j])
      BY <1>2, <1>3, <2>2 DEF SidebarInv
    <3>2. j # 1
      BY <1>2, <1>8, <3>1
    <3>3. j - 1 \in DOMAIN events' /\ events'[j - 1] = events[j]
      BY <1>6, <3>2
    <3>4. j - 1 < i
      BY <1>2, <3>1
    <3> QED BY <3>1, <3>3, <3>4
  <2> QED BY <1>4, <1>5, <1>8, <2>1, <2>2 DEF SidebarInv
<1> QED BY <1>7, <1>8

LEMMA SidebarClose ==
  ASSUME TypeOK, SidebarInv, NEW t \in Tab, NEW next \in Tab, CloseTab(t, next)
  PROVE  SidebarInv'
<1> DEFINE d == [kind |-> "deleteTab", tab |-> t]
           v == [kind |-> "viewChanged"]
           n == Len(events)
<1>1. events \in Seq(Event) /\ n \in Nat /\ DOMAIN events = 1 .. n
  BY DEF TypeOK
<1>2. /\ \A i \in DOMAIN events : events'[i] = events[i]
      /\ events'[n + 1] = d
      /\ IF t = current THEN DOMAIN events' = 1 .. n + 2 /\ events'[n + 2] = v
                        ELSE DOMAIN events' = 1 .. n + 1
  <2> DEFINE s == Append(events, d)
             Any == Event \cup {d, v}
  <2>1. events \in Seq(Any) /\ d \in Any /\ v \in Any
    BY <1>1
  <2>2. events' = IF t = current THEN Append(s, v) ELSE s
    BY DEF CloseTab, PostViewChanged
  <2> HIDE DEF d, v, n, Any
  <2>3. /\ s \in Seq(Any) /\ Len(s) = n + 1 /\ DOMAIN s = 1 .. n + 1
        /\ s[n + 1] = d /\ \A i \in DOMAIN events : s[i] = events[i]
    BY <1>1, <2>1 DEF n
  <2> HIDE DEF s
  <2>4. CASE t = current
    <3>1. events' = Append(s, v)
      BY <2>2, <2>4
    <3>2. /\ DOMAIN events' = 1 .. n + 2 /\ events'[n + 2] = v
          /\ \A i \in 1 .. n + 1 : events'[i] = s[i]
      BY <1>1, <2>1, <2>3, <3>1
    <3> QED BY <1>1, <2>3, <2>4, <3>2
  <2>5. CASE t # current
    BY <2>2, <2>3, <2>5
  <2> QED BY <2>4, <2>5
<1>3. tabs' \subseteq sidebars' /\ current' \in tabs' /\ shown' \in sidebars'
  BY DEF CloseTab, SidebarInv
<1>4. t \notin tabs' /\ t \in sidebars'
  BY DEF CloseTab, SidebarInv
<1>5. ASSUME NEW i \in DOMAIN events', IsDeletion(events'[i])
      PROVE  \/ i \in DOMAIN events /\ events'[i] = events[i]
                /\ events[i].tab \in sidebars \ tabs
             \/ i = n + 1 /\ events'[i].tab = t
  <2>1. i # n + 2
    BY <1>1, <1>2, <1>5 DEF IsDeletion
  <2>2. i \in DOMAIN events \/ i = n + 1
    BY <1>1, <1>2, <2>1
  <2>3. CASE i \in DOMAIN events
    BY <1>2, <1>5, <2>3 DEF SidebarInv
  <2>4. CASE i = n + 1
    BY <1>2, <2>4
  <2> QED BY <2>2, <2>3, <2>4
<1>6. sidebars \ tabs \subseteq sidebars' \ tabs' /\ t \in tabs
  BY DEF CloseTab, SidebarInv
<1>7. \A i \in DOMAIN events' : IsDeletion(events'[i]) =>
        events'[i].tab \in sidebars' \ tabs'
  BY <1>4, <1>5, <1>6
<1>8. \A i, j \in DOMAIN events' :
        /\ IsDeletion(events'[i]) /\ IsDeletion(events'[j])
        /\ events'[i].tab = events'[j].tab
        => i = j
  BY <1>5, <1>6 DEF SidebarInv
<1>9. shown' # current' => \E i \in DOMAIN events' : IsViewChange(events'[i])
  <2>1. CASE t = current
    BY <1>1, <1>2, <2>1 DEF IsViewChange
  <2>2. CASE t # current
    <3>1. current' = current /\ shown' = shown
      BY <2>2 DEF CloseTab, SidebarInv
    <3> QED BY <1>1, <1>2, <2>2, <3>1 DEF SidebarInv
  <2> QED BY <2>1, <2>2
<1>10. ASSUME NEW i \in DOMAIN events', events'[i].kind = "deleteSidebar",
              events'[i].tab = shown'
       PROVE  \E j \in DOMAIN events' : j < i /\ IsViewChange(events'[j])
  <2>1. i \in DOMAIN events /\ events'[i] = events[i]
    BY <1>1, <1>2, <1>10
  <2>2. shown' = shown
    BY DEF CloseTab
  <2> QED BY <1>1, <1>2, <1>10, <2>1, <2>2 DEF SidebarInv
<1> QED BY <1>3, <1>7, <1>8, <1>9, <1>10 DEF SidebarInv

LEMMA SidebarDeleteTab ==
  ASSUME TypeOK, SidebarInv, DeleteTab
  PROVE  SidebarInv'
<1> DEFINE t == Head(events).tab
           e == [kind |-> "deleteSidebar", tab |-> t]
           n == Len(events)
<1>1. events \in Seq(Event) /\ n \in Nat \ {0} /\ DOMAIN events = 1 .. n
  BY DEF TypeOK, DeleteTab, NextIs
<1>2. /\ DOMAIN events' = 1 .. n
      /\ \A i \in 1 .. n - 1 : events'[i] = events[i + 1]
      /\ events'[n] = e
      /\ Head(events) = events[1]
  BY <1>1 DEF DeleteTab
<1>3. IsDeletion(events[1]) /\ events[1].kind = "deleteTab" /\ t = events[1].tab
  BY <1>2 DEF DeleteTab, NextIs, IsDeletion
<1>4. \A i \in DOMAIN events' : IsDeletion(events'[i]) =>
        \E k \in DOMAIN events : /\ IsDeletion(events[k])
                                 /\ events[k].tab = events'[i].tab
                                 /\ k = (IF i = n THEN 1 ELSE i + 1)
  BY <1>1, <1>2, <1>3
<1>5. \A i \in DOMAIN events' : IsDeletion(events'[i]) =>
        events'[i].tab \in sidebars \ tabs
  BY <1>4 DEF SidebarInv
<1>6. \A i, j \in DOMAIN events' :
        /\ IsDeletion(events'[i]) /\ IsDeletion(events'[j])
        /\ events'[i].tab = events'[j].tab
        => i = j
  <2> TAKE i, j \in DOMAIN events'
  <2> HAVE /\ IsDeletion(events'[i]) /\ IsDeletion(events'[j])
           /\ events'[i].tab = events'[j].tab
  <2>1. (IF i = n THEN 1 ELSE i + 1) = (IF j = n THEN 1 ELSE j + 1)
    BY <1>4 DEF SidebarInv
  <2> QED BY <1>1, <1>2, <2>1
<1>7. ASSUME NEW j \in DOMAIN events, IsViewChange(events[j])
      PROVE  j - 1 \in 1 .. n - 1 /\ IsViewChange(events'[j - 1])
  <2>1. j # 1
    BY <1>3, <1>7 DEF IsViewChange
  <2> QED BY <1>1, <1>2, <1>7, <2>1
<1>8. UNCHANGED <<tabs, sidebars, current, shown>>
  BY DEF DeleteTab, guiVars
<1>9. shown # current => \E i \in DOMAIN events' : IsViewChange(events'[i])
  BY <1>1, <1>2, <1>7 DEF SidebarInv
<1>10. ASSUME NEW i \in DOMAIN events', events'[i].kind = "deleteSidebar",
              events'[i].tab = shown
       PROVE  \E j \in DOMAIN events' : j < i /\ IsViewChange(events'[j])
  <2>1. CASE i = n
    <3>1. shown \notin tabs
      BY <1>5, <1>10 DEF IsDeletion
    <3>2. PICK j \in DOMAIN events : IsViewChange(events[j])
      BY <3>1 DEF SidebarInv
    <3> QED BY <1>1, <1>2, <1>7, <2>1, <3>2
  <2>2. CASE i # n
    <3>1. i + 1 \in DOMAIN events /\ events'[i] = events[i + 1]
      BY <1>1, <1>2, <2>2
    <3>2. PICK j \in DOMAIN events : j < i + 1 /\ IsViewChange(events[j])
      BY <1>10, <3>1 DEF SidebarInv
    <3> QED BY <1>1, <1>2, <1>7, <3>2
  <2> QED BY <2>1, <2>2
<1> QED BY <1>5, <1>6, <1>8, <1>9, <1>10 DEF SidebarInv

LEMMA SidebarDeleteSidebar ==
  ASSUME TypeOK, SidebarInv, DeleteSidebar
  PROVE  SidebarInv'
<1> DEFINE t == Head(events).tab
           n == Len(events)
<1>1. events \in Seq(Event) /\ n \in Nat \ {0} /\ DOMAIN events = 1 .. n
  BY DEF TypeOK, DeleteSidebar, NextIs
<1>2. /\ DOMAIN events' = 1 .. n - 1
      /\ \A i \in 1 .. n - 1 : events'[i] = events[i + 1]
      /\ Head(events) = events[1]
  BY <1>1 DEF DeleteSidebar
<1>3. IsDeletion(events[1]) /\ events[1].kind = "deleteSidebar"
      /\ t = events[1].tab
  BY <1>2 DEF DeleteSidebar, NextIs, IsDeletion
<1>4. t # shown
  BY <1>1, <1>3 DEF SidebarInv
<1>5. /\ UNCHANGED <<tabs, current, shown>>
      /\ sidebars' = sidebars \ {t}
  BY DEF DeleteSidebar
<1>6. t \notin tabs
  BY <1>1, <1>3 DEF SidebarInv
<1>7. \A i \in DOMAIN events' :
        i + 1 \in DOMAIN events /\ events'[i] = events[i + 1]
  BY <1>1, <1>2
<1>8. \A i \in DOMAIN events' : IsDeletion(events'[i]) =>
        events'[i].tab \in sidebars' \ tabs'
  <2> TAKE i \in DOMAIN events'
  <2> HAVE IsDeletion(events'[i])
  <2>1. events[i + 1].tab # t
    BY <1>1, <1>2, <1>3, <1>7 DEF SidebarInv
  <2> QED BY <1>5, <1>7, <2>1 DEF SidebarInv
<1>9. \A i, j \in DOMAIN events' :
        /\ IsDeletion(events'[i]) /\ IsDeletion(events'[j])
        /\ events'[i].tab = events'[j].tab
        => i = j
  BY <1>1, <1>2, <1>7 DEF SidebarInv
<1>10. ASSUME NEW j \in DOMAIN events, IsViewChange(events[j])
       PROVE  j - 1 \in DOMAIN events' /\ IsViewChange(events'[j - 1])
  <2>1. j # 1
    BY <1>3, <1>10 DEF IsViewChange
  <2> QED BY <1>1, <1>2, <1>10, <2>1
<1>11. shown # current => \E i \in DOMAIN events' : IsViewChange(events'[i])
  BY <1>10 DEF SidebarInv
<1>12. ASSUME NEW i \in DOMAIN events', events'[i].kind = "deleteSidebar",
              events'[i].tab = shown
       PROVE  \E j \in DOMAIN events' : j < i /\ IsViewChange(events'[j])
  <2>1. PICK j \in DOMAIN events : j < i + 1 /\ IsViewChange(events[j])
    BY <1>7, <1>12 DEF SidebarInv
  <2> QED BY <1>1, <1>2, <1>10, <2>1
<1> QED BY <1>4, <1>5, <1>6, <1>8, <1>9, <1>11, <1>12 DEF SidebarInv

LEMMA SidebarNext == TypeOK /\ SidebarInv /\ [Next]_vars => SidebarInv'
<1> SUFFICES ASSUME TypeOK, SidebarInv, [Next]_vars PROVE SidebarInv'
  OBVIOUS
<1>1. CASE UNCHANGED <<tabs, sidebars, current, shown, events>>
  BY <1>1 DEF SidebarInv
<1>2. ASSUME NEW t \in Tab, NEW box, NEW rows, NEW activate \in BOOLEAN,
             AddTab(t, box, rows, activate)
      PROVE  SidebarInv'
  <2>1. [kind |-> "viewChanged"] \in Event
        /\ ~ IsDeletion([kind |-> "viewChanged"])
        /\ IsViewChange([kind |-> "viewChanged"])
    BY DEF Event, IsDeletion, IsViewChange
  <2>2. CASE activate
    BY <1>2, <2>1, <2>2, SidebarPost DEF AddTab, PostViewChanged, SidebarInv
  <2>3. CASE ~ activate
    BY <1>2, <2>3 DEF AddTab, SidebarInv
  <2> QED BY <2>2, <2>3
<1>3. CASE UserActs
  <2>1. ASSUME NEW t \in Tab, SwitchTab(t) PROVE SidebarInv'
    <3>1. [kind |-> "viewChanged"] \in Event
          /\ ~ IsDeletion([kind |-> "viewChanged"])
          /\ IsViewChange([kind |-> "viewChanged"])
      BY DEF Event, IsDeletion, IsViewChange
    <3> QED BY <2>1, <3>1, SidebarPost
            DEF SwitchTab, PostViewChanged, SidebarInv
  <2>2. ASSUME NEW q \in Query \cup {Empty},
               Type(q) \/ (q \in Query /\ SearchInCurrentTab(q))
        PROVE  SidebarInv'
    BY <1>1, <2>2 DEF Type, SearchInCurrentTab
  <2>3. ASSUME NEW r \in Result, Select(r) \/ NavigateToIndex(r)
        PROVE  SidebarInv'
    BY <1>1, <2>3 DEF Select, NavigateToIndex
  <2>4. ASSUME NEW t \in Tab, NEW u \in Tab,
               \/ CreateTab(t) \/ DuplicateTab(t, u) \/ CloseTab(t, u)
        PROVE  SidebarInv'
    BY <1>2, <2>4, SidebarClose DEF CreateTab, DuplicateTab
  <2>5. ASSUME NEW t \in Tab, NEW r \in Result, NEW a \in BOOLEAN,
               OpenInNewTab(t, r, a)
        PROVE  SidebarInv'
    BY <1>2, <2>5 DEF OpenInNewTab
  <2>6. ASSUME NEW d \in Docset, UnloadDocset(d) \/ LoadDocset(d)
        PROVE  SidebarInv'
    BY <1>1, <2>6 DEF UnloadDocset, LoadDocset
  <2>7. ASSUME NEW p \in Storage, SetStoragePath(p) PROVE SidebarInv'
    BY <1>1, <2>7 DEF SetStoragePath, guiVars
  <2> QED BY <1>3, <2>1, <2>2, <2>3, <2>4, <2>5, <2>6, <2>7 DEF UserActs
<1>4. ASSUME NEW e \in Event, ~ IsDeletion(e), events' = Append(events, e),
             UNCHANGED guiVars
      PROVE  SidebarInv'
  BY <1>4, SidebarPost DEF guiVars, SidebarInv
<1>5. CASE RegistryWorks
  <2>1. CASE BeginReload \/ EndReload \/ BeginQuery \/ SearchDeletedDocset
    BY <1>1, <2>1 DEF BeginReload, EndReload, BeginQuery, SearchDeletedDocset,
                      guiVars
  <2>2. ASSUME NEW d \in Docset,
               SearchDocset(d) \/ ReloadUnloads(d) \/ ReloadLoads(d)
        PROVE  SidebarInv'
    <3> DEFINE e == [kind |-> "unload", to |-> sidebars, name |-> d]
    <3>1. e \in Event /\ ~ IsDeletion(e)
      BY DEF Event, IsDeletion, TypeOK
    <3>2. UNCHANGED guiVars /\ (events' = events \/ events' = Append(events, e))
      BY <2>2 DEF SearchDocset, ReloadUnloads, ReloadLoads, PostUnload
    <3> HIDE DEF e
    <3> QED BY <1>1, <1>4, <3>1, <3>2 DEF guiVars
  <2>3. CASE EndQuery
    <3> DEFINE e == [kind |-> "results", to |-> sidebars,
                     answer |-> [of |-> job.of, names |-> job.found]]
    <3>1. e \in Event /\ ~ IsDeletion(e)
      <4>1. job \in QueryJob
        BY <2>3 DEF EndQuery, QueryRuns, TypeOK, ReloadJob
      <4> QED BY <4>1 DEF Event, IsDeletion, QueryJob, TypeOK
    <3>2. UNCHANGED guiVars /\ (events' = events \/ events' = Append(events, e))
      BY <2>3 DEF EndQuery
    <3> HIDE DEF e
    <3> QED BY <1>1, <1>4, <3>1, <3>2 DEF guiVars
  <2> QED BY <1>5, <2>1, <2>2, <2>3 DEF RegistryWorks
<1>6. CASE GuiHandlesEvent
  <2>1. CASE SearchCompleted \/ DocsetAboutToBeUnloaded \/ ViewChanged
    BY <2>1, SidebarTake DEF SearchCompleted, DocsetAboutToBeUnloaded,
       ViewChanged, NextIs, IsDeletion, IsViewChange
  <2> QED BY <1>6, <2>1, SidebarDeleteTab, SidebarDeleteSidebar
          DEF GuiHandlesEvent
<1>7. CASE TimerFires
  BY <1>1, <1>7 DEF TimerFires, DelayedNavigation
<1> QED BY <1>1, <1>3, <1>5, <1>6, <1>7 DEF Next, vars, guiVars

\* The dock never shows a deleted sidebar: a tab's deletion is deferred twice,
\* and the dock changes its view in between.
THEOREM DockShowsLivingSidebar == Spec => []ShownSidebarExists
<1>1. SidebarInv => ShownSidebarExists
  BY DEF SidebarInv, ShownSidebarExists
<1> QED BY <1>1, SidebarInit, SidebarNext, TypeCorrect, PTL DEF Spec

-----------------------------------------------------------------------------
(***************************************************************************)
(* Which answer reaches the user: no query's results are cut short, the    *)
(* last query is answered last, and the delayed navigation names a row     *)
(* that is there.                                                          *)
(***************************************************************************)

-----------------------------------------------------------------------------
(* A query that is not cancelled is complete.                              *)

\* The docsets a query has yet to read are some it was begun with, and not
\* among the deleted ones.
CompleteInv ==
  /\ CancelledOrComplete
  /\ QueryRuns => job.todo \subseteq job.enabled /\ job.todo \cap job.gone = {}

LEMMA CompleteInit == Init => CompleteInv
  BY DEF Init, CompleteInv, CancelledOrComplete, QueryRuns

LEMMA CompleteKept ==
  ASSUME CompleteInv, job' = job, cancel' = cancel \/ cancel'
  PROVE  CompleteInv'
  BY DEF CompleteInv, CancelledOrComplete, QueryRuns

LEMMA CompleteDeleted ==
  ASSUME TypeOK, CompleteInv, NEW d \in Docset, Deleted(d), cancel' = cancel
  PROVE  CompleteInv'
<1>1. CASE ~ (QueryRuns /\ d \in job.todo)
  BY <1>1, CompleteKept DEF Deleted
<1>2. CASE QueryRuns /\ d \in job.todo
  <2>1. job \in QueryJob
    BY <1>2 DEF TypeOK, QueryRuns, ReloadJob
  <2>2. job' = [job EXCEPT !.todo = @ \ {d}, !.gone = @ \cup {d}]
    BY <1>2 DEF Deleted
  <2>3. /\ job'.of = job.of /\ job'.found = job.found
        /\ job'.enabled = job.enabled
        /\ job'.todo = job.todo \ {d} /\ job'.gone = job.gone \cup {d}
    BY <2>1, <2>2 DEF QueryJob
  <2>4. job'.todo \cup job'.gone = job.todo \cup job.gone
    BY <1>2, <2>3
  <2> QED BY <1>2, <2>3, <2>4 DEF CompleteInv, CancelledOrComplete
<1> QED BY <1>1, <1>2

LEMMA CompleteNext == TypeOK /\ CompleteInv /\ [Next]_vars => CompleteInv'
<1> SUFFICES ASSUME TypeOK, CompleteInv, [Next]_vars PROVE CompleteInv'
  OBVIOUS
<1>1. CASE UNCHANGED <<job, cancel>>
  BY <1>1, CompleteKept
<1>2. ASSUME NEW t, NEW box, NEW rows, NEW a, AddTab(t, box, rows, a)
      PROVE  UNCHANGED <<job, cancel>>
  BY <1>2 DEF AddTab, registryVars
<1>3. CASE UserActs
  <2>1. ASSUME NEW q \in Query \cup {Empty},
               Type(q) \/ (q \in Query /\ SearchInCurrentTab(q))
        PROVE  CompleteInv'
    BY <2>1, CompleteKept DEF Type, SearchInCurrentTab, Search
  <2>2. ASSUME NEW r \in Result, Select(r) \/ NavigateToIndex(r)
        PROVE  CompleteInv'
    BY <1>1, <2>2 DEF Select, NavigateToIndex, registryVars
  <2>3. ASSUME NEW t \in Tab, NEW u \in Tab,
               \/ CreateTab(t) \/ SwitchTab(t)
               \/ DuplicateTab(t, u) \/ CloseTab(t, u)
        PROVE  CompleteInv'
    BY <1>1, <1>2, <2>3 DEF CreateTab, SwitchTab, DuplicateTab, CloseTab,
       registryVars
  <2>4. ASSUME NEW t \in Tab, NEW r \in Result, NEW a \in BOOLEAN,
               OpenInNewTab(t, r, a)
        PROVE  CompleteInv'
    BY <1>1, <1>2, <2>4 DEF OpenInNewTab
  <2>5. ASSUME NEW d \in Docset, UnloadDocset(d) \/ LoadDocset(d)
        PROVE  CompleteInv'
    BY <1>1, <2>5, CompleteDeleted DEF UnloadDocset, LoadDocset
  <2>6. ASSUME NEW p \in Storage, SetStoragePath(p) PROVE CompleteInv'
    BY <1>1, <2>6 DEF SetStoragePath
  <2> QED BY <1>3, <2>1, <2>2, <2>3, <2>4, <2>5, <2>6 DEF UserActs
<1>4. CASE RegistryWorks
  <2>1. CASE BeginReload \/ EndReload \/ EndQuery
    BY <2>1 DEF BeginReload, EndReload, EndQuery, CompleteInv,
       CancelledOrComplete, QueryRuns
  <2>2. CASE BeginQuery
    <3>1. /\ job'.enabled = registered /\ job'.todo = registered
          /\ job'.gone = {} /\ job'.found = {}
      BY <2>2 DEF BeginQuery
    <3> QED BY <3>1 DEF CompleteInv, CancelledOrComplete
  <2>3. ASSUME NEW d \in Docset, ReloadUnloads(d) \/ ReloadLoads(d)
        PROVE  CompleteInv'
    <3>1. job \in ReloadJob
      BY <2>3 DEF ReloadUnloads, ReloadLoads, ReloadRuns, TypeOK, QueryJob
    <3>2. job'.kind = "reload"
      BY <2>3, <3>1 DEF ReloadUnloads, ReloadLoads, ReloadJob
    <3> QED BY <3>2 DEF CompleteInv, CancelledOrComplete, QueryRuns
  <2>4. ASSUME NEW d \in Docset, SearchDocset(d) PROVE CompleteInv'
    <3>1. job \in QueryJob
      BY <2>4 DEF SearchDocset, QueryRuns, TypeOK, ReloadJob
    <3>2. /\ job'.of = job.of /\ job'.enabled = job.enabled
          /\ job'.gone = job.gone /\ job'.todo = job.todo \ {d}
          /\ ~ cancel => job'.found = job.found \cup ({d} \cap Match[job.of])
          /\ cancel' = cancel
      BY <2>4, <3>1 DEF SearchDocset, QueryJob
    <3>3. d \in job.enabled /\ d \notin job.gone /\ QueryRuns
      BY <2>4 DEF SearchDocset, CompleteInv
    <3>4. job.enabled \ (job'.todo \cup job'.gone)
            = (job.enabled \ (job.todo \cup job.gone)) \cup {d}
      BY <3>2, <3>3
    <3>5. ~ cancel => job'.found
                        = Match[job.of] \cap (job.enabled \ (job'.todo \cup job'.gone))
      BY <3>2, <3>3, <3>4 DEF CompleteInv, CancelledOrComplete
    <3> QED BY <3>2, <3>3, <3>5 DEF CompleteInv, CancelledOrComplete
  <2>5. CASE SearchDeletedDocset
    BY <1>1, <2>5 DEF SearchDeletedDocset, registryVars
  <2> QED BY <1>4, <2>1, <2>2, <2>3, <2>4, <2>5 DEF RegistryWorks
<1>5. CASE GuiHandlesEvent
  BY <1>1, <1>5 DEF GuiHandlesEvent, SearchCompleted, DocsetAboutToBeUnloaded,
     ViewChanged, DeleteTab, DeleteSidebar, registryVars
<1>6. CASE TimerFires
  BY <1>1, <1>6 DEF TimerFires, DelayedNavigation, registryVars
<1> QED BY <1>1, <1>3, <1>4, <1>5, <1>6 DEF Next, vars, registryVars

\* Whatever sets and resets the flag, an answer handed out has all the results
\* of the docsets the query was begun with.
THEOREM NeverCutShort == Spec => []CancelledOrComplete
<1>1. CompleteInv => CancelledOrComplete
  BY DEF CompleteInv
<1> QED BY <1>1, CompleteInit, CompleteNext, TypeCorrect, PTL DEF Spec

-----------------------------------------------------------------------------
(* The delayed navigation.                                                 *)

TimerInv == /\ TimerTargetsShownResult
            /\ \A t \in Tab \ sidebars : timer[t] = None

LEMMA TimerInit == Init => TimerInv
  BY DEF Init, TimerInv, TimerTargetsShownResult

LEMMA TimerKept ==
  ASSUME TimerInv, UNCHANGED <<sidebars, results, timer>>
  PROVE  TimerInv'
  BY DEF TimerInv, TimerTargetsShownResult

\* Sidebar t gets a new model or timer.
LEMMA TimerChanges ==
  ASSUME TypeOK, TimerInv, NEW t \in Tab, NEW rows, NEW r,
         sidebars' = sidebars,
         results' = [results EXCEPT ![t] = rows],
         timer' = [timer EXCEPT ![t] = r],
         t \notin sidebars => r = None,
         r # None /\ r.of # Empty => r.of = rows.of /\ r.name \in rows.names
  PROVE  TimerInv'
<1>1. \A u \in Tab \ {t} : results'[u] = results[u] /\ timer'[u] = timer[u]
  BY DEF TypeOK
<1>2. results'[t] = rows /\ timer'[t] = r
  BY DEF TypeOK
<1> QED BY <1>1, <1>2 DEF TypeOK, TimerInv, TimerTargetsShownResult

LEMMA TimerForget ==
  ASSUME TypeOK, TimerInv, NEW d, NEW ts, Forget(d, ts), sidebars' = sidebars
  PROVE  TimerInv'
  BY DEF TypeOK, TimerInv, TimerTargetsShownResult, Forget

LEMMA TimerAddTab ==
  ASSUME TypeOK, SidebarInv, TimerInv, NEW t \in Tab, NEW box, NEW rows, NEW a,
         AddTab(t, box, rows, a), timer' = timer \/ timer' = [timer EXCEPT ![shown] = None]
  PROVE  TimerInv'
<1>1. /\ sidebars' = sidebars \cup {t} /\ t \notin sidebars
      /\ \A u \in Tab \ {t} : results'[u] = results[u]
  BY DEF AddTab, TypeOK
<1>2. \A u \in Tab : timer'[u] = timer[u] \/ timer'[u] = None
  BY DEF TypeOK
<1>3. timer'[t] = None
  BY <1>1, <1>2 DEF TimerInv
<1> QED BY <1>1, <1>2, <1>3 DEF TimerInv, TimerTargetsShownResult, TypeOK

LEMMA TimerNext ==
  TypeOK /\ SidebarInv /\ TimerInv /\ [Next]_vars => TimerInv'
<1> SUFFICES ASSUME TypeOK, SidebarInv, TimerInv, [Next]_vars PROVE TimerInv'
  OBVIOUS
<1>1. CASE UNCHANGED <<sidebars, results, timer>>
  BY <1>1, TimerKept
<1>2. shown \in Tab /\ shown \in sidebars
  BY DEF TypeOK, SidebarInv
<1>3. \A t \in Tab : /\ results = [results EXCEPT ![t] = results[t]]
                     /\ timer = [timer EXCEPT ![t] = timer[t]]
  BY DEF TypeOK
<1>4. CASE UserActs
  <2>1. ASSUME NEW q \in Query \cup {Empty}, Type(q) PROVE TimerInv'
    <3>1. CASE q = Empty
      BY <1>2, <2>1, <3>1, TimerChanges DEF Type
    <3>2. CASE q # Empty
      BY <1>1, <2>1, <3>2 DEF Type
    <3> QED BY <3>1, <3>2
  <2>2. ASSUME NEW q \in Query, SearchInCurrentTab(q) PROVE TimerInv'
    BY <1>1, <2>2 DEF SearchInCurrentTab
  <2>3. ASSUME NEW r \in Result, Select(r) PROVE TimerInv'
    <3>1. r.of # Empty => r.of = results[shown].of
                          /\ r.name \in results[shown].names
      BY <2>3 DEF Select, Rows
    <3>2. results' = [results EXCEPT ![shown] = results[shown]]
      BY <1>2, <1>3, <2>3 DEF Select
    <3>3. timer' = [timer EXCEPT ![shown] = r] /\ sidebars' = sidebars
      BY <2>3 DEF Select
    <3> QED BY <1>2, <3>1, <3>2, <3>3, TimerChanges
  <2>4. ASSUME NEW r \in Result, NavigateToIndex(r) PROVE TimerInv'
    <3>1. results' = [results EXCEPT ![shown] = results[shown]]
      BY <1>2, <1>3, <2>4 DEF NavigateToIndex
    <3> QED BY <1>2, <2>4, <3>1, TimerChanges DEF NavigateToIndex
  <2>5. ASSUME NEW t \in Tab, SwitchTab(t) PROVE TimerInv'
    BY <1>1, <2>5 DEF SwitchTab
  <2>6. ASSUME NEW t \in Tab, NEW u \in Tab, CreateTab(t) \/ DuplicateTab(u, t)
        PROVE  TimerInv'
    BY <2>6, TimerAddTab DEF CreateTab, DuplicateTab
  <2>7. ASSUME NEW t \in Tab, NEW r \in Result, NEW a \in BOOLEAN,
               OpenInNewTab(t, r, a)
        PROVE  TimerInv'
    BY <2>7, TimerAddTab DEF OpenInNewTab
  <2>8. ASSUME NEW t \in Tab, NEW u \in Tab, CloseTab(t, u) PROVE TimerInv'
    BY <2>8 DEF CloseTab, TimerInv, TimerTargetsShownResult
  <2>9. ASSUME NEW d \in Docset, UnloadDocset(d) \/ LoadDocset(d)
        PROVE  TimerInv'
    BY <1>1, <2>9, TimerForget DEF UnloadDocset, LoadDocset
  <2>10. ASSUME NEW p \in Storage, SetStoragePath(p) PROVE TimerInv'
    BY <1>1, <2>10 DEF SetStoragePath, guiVars
  <2> QED BY <1>4, <2>1, <2>2, <2>3, <2>4, <2>5, <2>6, <2>7, <2>8, <2>9, <2>10
          DEF UserActs
<1>5. CASE RegistryWorks
  BY <1>1, <1>5 DEF RegistryWorks, BeginReload, EndReload, BeginQuery, EndQuery,
     SearchDeletedDocset, ReloadUnloads, ReloadLoads, SearchDocset, guiVars
<1>6. ASSUME SearchCompleted, shown \in Head(events).to PROVE TimerInv'
  <2> DEFINE answer == Head(events).answer
  <2>1. PICK r : /\ timer' = [timer EXCEPT ![shown] = r]
                 /\ r # None => r.of = answer.of /\ r.name \in answer.names
    <3>1. CASE answer.names = {}
      BY <1>6, <3>1 DEF SearchCompleted
    <3>2. CASE answer.names # {}
      <4>1. PICK d \in answer.names :
              timer' = [timer EXCEPT ![shown] = [of |-> answer.of, name |-> d]]
        BY <1>6, <3>2 DEF SearchCompleted
      <4> DEFINE r == [of |-> answer.of, name |-> d]
      <4>2. r.of = answer.of /\ r.name \in answer.names
        OBVIOUS
      <4>3. timer' = [timer EXCEPT ![shown] = r]
        BY <4>1
      <4> HIDE DEF r
      <4> QED BY <4>2, <4>3
    <3> QED BY <3>1, <3>2
  <2>2. results' = [results EXCEPT ![shown] = answer] /\ sidebars' = sidebars
    BY <1>6 DEF SearchCompleted
  <2> HIDE DEF answer
  <2> QED BY <1>2, <2>1, <2>2, TimerChanges
<1>7. CASE DocsetAboutToBeUnloaded
  BY <1>7, TimerForget DEF DocsetAboutToBeUnloaded
<1>8. CASE ViewChanged \/ DeleteTab
  BY <1>1, <1>8 DEF ViewChanged, DeleteTab, guiVars
<1>9. CASE DeleteSidebar
  <2> DEFINE t == Head(events).tab
  <2>1. /\ sidebars' = sidebars \ {t}
        /\ \A u \in Tab \ {t} : results'[u] = results[u] /\ timer'[u] = timer[u]
        /\ t \in Tab => timer'[t] = None
    BY <1>9 DEF DeleteSidebar, TypeOK
  <2> QED BY <2>1 DEF TimerInv, TimerTargetsShownResult, TypeOK
<1>10. ASSUME NEW t \in Tab, DelayedNavigation(t) PROVE TimerInv'
  <2>1. results' = [results EXCEPT ![t] = results[t]]
    BY <1>3, <1>10 DEF DelayedNavigation
  <2> QED BY <1>10, <2>1, TimerChanges DEF DelayedNavigation
<1>11. CASE SearchCompleted /\ shown \notin Head(events).to
  BY <1>1, <1>11 DEF SearchCompleted
<1> QED BY <1>1, <1>4, <1>5, <1>6, <1>7, <1>8, <1>9, <1>10, <1>11
        DEF Next, GuiHandlesEvent, TimerFires, vars, guiVars

\* The row a delayed navigation will open is there when it does.
THEOREM TimerNamesItsRow == Spec => []TimerTargetsShownResult
<1>1. TimerInv => TimerTargetsShownResult
  BY DEF TimerInv
<1> QED BY <1>1, TimerInit, TimerNext, SidebarInit, SidebarNext, TypeCorrect,
           PTL DEF Spec

-----------------------------------------------------------------------------
(* The last query is answered last.                                        *)

Queries == {p \in Job : p.kind = "query"}
Answers == {e \in Event : e.kind = "results"}
QueriesOf(q) == {p \in Queries : p.of = q}
AnswersTo(t, q) == {e \in Answers : t \in e.to /\ e.answer.of = q}

\* No element of s is in Q, and the last one that is, is in R.
NoneIn(s, Q) == \A i \in DOMAIN s : s[i] \notin Q
LastIn(s, Q, R) == \E i \in DOMAIN s :
  s[i] \in R /\ \A j \in DOMAIN s : j > i => s[j] \notin Q

NonePosted == NoneIn(posted, Queries)
LastPosted(q) == LastIn(posted, Queries, QueriesOf(q))
NoneDelivered == NoneIn(events, Answers)
LastDelivered(t, q) == LastIn(events, Answers, AnswersTo(t, q))

\* Where the answer to q is: before, in or behind the registry's thread, or
\* in sidebar t.
ComingTo(t, q) ==
  \/ LastPosted(q)
  \/ NonePosted /\ QueryRuns /\ ~ cancel /\ job.of = q
  \/ NonePosted /\ ~ QueryRuns /\ LastDelivered(t, q)
  \/ NonePosted /\ ~ QueryRuns /\ NoneDelivered /\ results[t].of = q

AnswerInv ==
  asked # None => /\ asked = shown
                  /\ text[asked] # Empty => ComingTo(asked, text[asked])

LEMMA AnswerInit == Init => AnswerInv
  BY DEF Init, AnswerInv

LEMMA AnswerShown == AnswerInv => AnswersLastQuery
  BY DEF AnswerInv, AnswersLastQuery, ComingTo, Answered, LastPosted,
     LastDelivered, LastIn, Queries, QueriesOf, Answers, AnswersTo

LEMMA NoneOrLast ==
  ASSUME NEW S, NEW s \in Seq(S), NEW Q, NEW R, R \subseteq Q,
         NoneIn(s, Q), LastIn(s, Q, R)
  PROVE  FALSE
  BY DEF NoneIn, LastIn

\* An element is put behind the last one of Q, or becomes it.
LEMMA AppendKeeps ==
  ASSUME NEW S, NEW s \in Seq(S), NEW Q, NEW R, NEW e \in S
  PROVE  /\ e \notin Q /\ NoneIn(s, Q) => NoneIn(Append(s, e), Q)
         /\ e \notin Q /\ LastIn(s, Q, R) => LastIn(Append(s, e), Q, R)
         /\ e \in R => LastIn(Append(s, e), Q, R)
<1> DEFINE r == Append(s, e)
<1>1. /\ DOMAIN r = 1 .. Len(s) + 1 /\ r[Len(s) + 1] = e
      /\ DOMAIN s = 1 .. Len(s) /\ Len(s) \in Nat
      /\ \A i \in DOMAIN s : r[i] = s[i]
  OBVIOUS
<1> HIDE DEF r
<1>2. \A i \in DOMAIN r : i \in DOMAIN s \/ i = Len(s) + 1
  BY <1>1
<1>3. ASSUME e \notin Q, NoneIn(s, Q) PROVE NoneIn(r, Q)
  BY <1>1, <1>2, <1>3 DEF NoneIn
<1>4. ASSUME e \notin Q, LastIn(s, Q, R) PROVE LastIn(r, Q, R)
  <2>1. PICK i \in DOMAIN s :
          s[i] \in R /\ \A j \in DOMAIN s : j > i => s[j] \notin Q
    BY <1>4 DEF LastIn
  <2>2. i \in DOMAIN r /\ r[i] \in R
    BY <1>1, <2>1
  <2>3. \A j \in DOMAIN r : j > i => r[j] \notin Q
    BY <1>1, <1>2, <1>4, <2>1
  <2> QED BY <2>2, <2>3 DEF LastIn
<1>5. ASSUME e \in R PROVE LastIn(r, Q, R)
  <2>1. Len(s) + 1 \in DOMAIN r /\ r[Len(s) + 1] \in R
    BY <1>1, <1>5
  <2>2. \A j \in DOMAIN r : ~ (j > Len(s) + 1)
    BY <1>1
  <2> QED BY <2>1, <2>2 DEF LastIn
<1> QED BY <1>3, <1>4, <1>5 DEF r

\* The first element is taken.  If it was the last one of Q none is left.
LEMMA TailKeeps ==
  ASSUME NEW S, NEW s \in Seq(S), NEW Q, NEW R, s # <<>>
  PROVE  /\ NoneIn(s, Q) => Head(s) \notin Q /\ NoneIn(Tail(s), Q)
         /\ LastIn(s, Q, R) =>
              \/ LastIn(Tail(s), Q, R)
              \/ Head(s) \in R /\ NoneIn(Tail(s), Q)
<1> DEFINE r == Tail(s)
<1>1. /\ DOMAIN r = 1 .. Len(s) - 1
      /\ DOMAIN s = 1 .. Len(s) /\ Len(s) \in Nat \ {0}
      /\ \A i \in 1 .. Len(s) - 1 : r[i] = s[i + 1]
      /\ Head(s) = s[1]
  OBVIOUS
<1> HIDE DEF r
<1>2. \A i \in DOMAIN r : i + 1 \in DOMAIN s /\ r[i] = s[i + 1]
  BY <1>1
<1>3. ASSUME NoneIn(s, Q) PROVE Head(s) \notin Q /\ NoneIn(r, Q)
  BY <1>1, <1>2, <1>3 DEF NoneIn
<1>4. ASSUME LastIn(s, Q, R)
      PROVE  LastIn(r, Q, R) \/ (Head(s) \in R /\ NoneIn(r, Q))
  <2>1. PICK i \in DOMAIN s :
          s[i] \in R /\ \A j \in DOMAIN s : j > i => s[j] \notin Q
    BY <1>4 DEF LastIn
  <2>2. \A j \in DOMAIN r : j + 1 > i => r[j] \notin Q
    BY <1>2, <2>1
  <2>3. CASE i = 1
    <3>1. \A j \in DOMAIN r : j + 1 > i
      BY <1>1, <2>3
    <3> QED BY <1>1, <2>1, <2>2, <2>3, <3>1 DEF NoneIn
  <2>4. CASE i # 1
    <3>1. i - 1 \in DOMAIN r /\ (i - 1) + 1 = i
      BY <1>1, <2>4
    <3>2. r[i - 1] \in R
      BY <1>2, <2>1, <3>1
    <3>3. \A j \in DOMAIN r : j > i - 1 => r[j] \notin Q
      BY <1>1, <2>2
    <3> QED BY <3>1, <3>2, <3>3 DEF LastIn
  <2> QED BY <2>3, <2>4
<1> QED BY <1>3, <1>4 DEF r

\* Jobs and events that are no queries and no answers come and go.
LEMMA PostedKept ==
  ASSUME TypeOK,
         \/ posted' = posted
         \/ \E e \in Job \ Queries : posted' = Append(posted, e)
         \/ /\ posted # <<>> /\ Head(posted) \notin Queries
            /\ posted' = Tail(posted)
  PROVE  /\ NonePosted => NonePosted'
         /\ \A q : LastPosted(q) => LastPosted(q)'
<1> USE DEF NonePosted, LastPosted
<1>1. posted \in Seq(Job) /\ \A q : QueriesOf(q) \subseteq Queries
  BY DEF TypeOK, QueriesOf
<1>2. CASE posted' = posted
  BY <1>2
<1>3. ASSUME NEW e \in Job \ Queries, posted' = Append(posted, e)
      PROVE  /\ NonePosted => NonePosted'
             /\ \A q : LastPosted(q) => LastPosted(q)'
  BY <1>1, <1>3, AppendKeeps
<1>4. CASE /\ posted # <<>> /\ Head(posted) \notin Queries
           /\ posted' = Tail(posted)
  BY <1>1, <1>4, TailKeeps
<1> QED BY <1>2, <1>3, <1>4

LEMMA EventsKept ==
  ASSUME TypeOK,
         \/ events' = events
         \/ \E e \in Event \ Answers : events' = Append(events, e)
         \/ /\ events # <<>> /\ Head(events) \notin Answers
            /\ events' = Tail(events)
  PROVE  /\ NoneDelivered => NoneDelivered'
         /\ \A x, q : LastDelivered(x, q) => LastDelivered(x, q)'
<1> USE DEF NoneDelivered, LastDelivered
<1>1. events \in Seq(Event) /\ \A x, q : AnswersTo(x, q) \subseteq Answers
  BY DEF TypeOK, AnswersTo
<1>2. CASE events' = events
  BY <1>2
<1>3. ASSUME NEW e \in Event \ Answers, events' = Append(events, e)
      PROVE  /\ NoneDelivered => NoneDelivered'
             /\ \A x, q : LastDelivered(x, q) => LastDelivered(x, q)'
  BY <1>1, <1>3, AppendKeeps
<1>4. CASE /\ events # <<>> /\ Head(events) \notin Answers
           /\ events' = Tail(events)
  BY <1>1, <1>4, TailKeeps
<1> QED BY <1>2, <1>3, <1>4

\* A step that neither types, begins or ends a query, nor delivers an answer.
LEMMA AnswerKept ==
  ASSUME TypeOK, AnswerInv,
         asked' = asked, asked # None => shown' = shown,
         asked # None => /\ text'[asked] = text[asked]
                         /\ results'[asked].of = results[asked].of,
         NonePosted => NonePosted', \A q : LastPosted(q) => LastPosted(q)',
         NoneDelivered => NoneDelivered',
         \A x, q : LastDelivered(x, q) => LastDelivered(x, q)',
         QueryRuns' <=> QueryRuns, QueryRuns => job'.of = job.of,
         cancel' = cancel
  PROVE  AnswerInv'
  BY DEF AnswerInv, ComingTo

\* A step that leaves both queues alone too.
LEMMA AnswerSame ==
  ASSUME TypeOK, AnswerInv, UNCHANGED <<posted, job, cancel, asked>>,
         asked # None => shown' = shown,
         asked # None => /\ text'[asked] = text[asked]
                         /\ results'[asked].of = results[asked].of,
         \/ events' = events
         \/ \E e \in Event \ Answers : events' = Append(events, e)
         \/ /\ events # <<>> /\ Head(events) \notin Answers
            /\ events' = Tail(events)
  PROVE  AnswerInv'
<1>1. QueryRuns' <=> QueryRuns
  BY DEF QueryRuns
<1> QED BY <1>1, AnswerKept, PostedKept, EventsKept

LEMMA AnswerSearch ==
  ASSUME TypeOK, NEW q \in Query, Search(q)
  PROVE  LastPosted(q)'
<1> DEFINE e == [kind |-> "query", of |-> q]
<1>1. e \in Job /\ e \in QueriesOf(q)
  BY DEF Job, QueriesOf, Queries
<1>2. posted' = Append(posted, e)
  BY SearchAssumption DEF Search
<1>3. posted \in Seq(Job)
  BY DEF TypeOK
<1> HIDE DEF e
<1> QED BY <1>1, <1>2, <1>3, AppendKeeps DEF LastPosted

LEMMA ForgetKeepsQuery ==
  ASSUME TypeOK, NEW d, NEW ts, Forget(d, ts)
  PROVE  \A t \in Tab : results'[t].of = results[t].of
<1> SUFFICES ASSUME NEW t \in Tab PROVE results'[t].of = results[t].of
  OBVIOUS
<1>1. results[t] \in Answer
  BY DEF TypeOK
<1>2. results'[t] = [results[t] EXCEPT !.names = @ \ {d}]
      \/ results'[t] = results[t]
  BY DEF Forget
<1> QED BY <1>1, <1>2 DEF Answer

LEMMA AnswerUser ==
  ASSUME TypeOK, SidebarInv, AnswerInv, UserActs
  PROVE  AnswerInv'
<1>1. asked # None => asked \in Tab /\ asked = shown /\ shown \in sidebars
  BY DEF TypeOK, AnswerInv, SidebarInv
<1>2. ASSUME NEW q \in Query \cup {Empty}, Type(q) PROVE AnswerInv'
  <2>1. asked' = shown /\ shown' = shown /\ text'[shown] = q
    BY <1>2 DEF Type, TypeOK
  <2>2. q # Empty => LastPosted(q)'
    BY <1>2, AnswerSearch DEF Type
  <2> QED BY <2>1, <2>2 DEF AnswerInv, ComingTo
<1>3. ASSUME NEW q \in Query, SearchInCurrentTab(q) PROVE AnswerInv'
  <2>1. shown' = shown /\ text'[current] = q
        /\ asked' = IF current = shown THEN current ELSE None
    BY <1>3 DEF SearchInCurrentTab, TypeOK
  <2>2. LastPosted(q)'
    BY <1>3, AnswerSearch DEF SearchInCurrentTab
  <2> QED BY <2>1, <2>2 DEF AnswerInv, ComingTo
<1>4. ASSUME NEW r \in Result, Select(r) \/ NavigateToIndex(r)
      PROVE  AnswerInv'
  BY <1>4, AnswerSame DEF Select, NavigateToIndex, registryVars
<1>5. [kind |-> "viewChanged"] \in Event \ Answers
      /\ \A t \in Tab : [kind |-> "deleteTab", tab |-> t] \in Event \ Answers
  BY DEF Event, Answers
<1>6. ASSUME NEW t \in Tab, NEW box, NEW rows, NEW a \in BOOLEAN,
             AddTab(t, box, rows, a)
      PROVE  AnswerInv'
  <2>1. t # asked
    BY <1>1, <1>6, SearchAssumption DEF AddTab
  <2>2. asked # None => text'[asked] = text[asked]
                        /\ results'[asked] = results[asked]
    BY <1>1, <1>6, <2>1 DEF AddTab, TypeOK
  <2>3. events' = events \/ \E e \in Event \ Answers : events' = Append(events, e)
    BY <1>5, <1>6 DEF AddTab, PostViewChanged
  <2>4. UNCHANGED <<shown, posted, job, cancel, asked>>
    BY <1>6 DEF AddTab, registryVars
  <2> QED BY <2>2, <2>3, <2>4, AnswerSame
<1>7. ASSUME NEW t \in Tab, NEW u \in Tab, CreateTab(t) \/ DuplicateTab(u, t)
      PROVE  AnswerInv'
  BY <1>6, <1>7 DEF CreateTab, DuplicateTab
<1>8. ASSUME NEW t \in Tab, NEW r \in Result, NEW a \in BOOLEAN,
             OpenInNewTab(t, r, a)
      PROVE  AnswerInv'
  BY <1>6, <1>8 DEF OpenInNewTab
<1>9. ASSUME NEW t \in Tab, SwitchTab(t) PROVE AnswerInv'
  BY <1>5, <1>9, AnswerSame DEF SwitchTab, PostViewChanged, registryVars
<1>10. ASSUME NEW t \in Tab, NEW u \in Tab, CloseTab(t, u) PROVE AnswerInv'
  <2> DEFINE d == [kind |-> "deleteTab", tab |-> t]
             v == [kind |-> "viewChanged"]
  <2>1. events \in Seq(Event) /\ d \in Event \ Answers /\ v \in Event \ Answers
    BY <1>5 DEF TypeOK
  <2>2. events' = Append(events, d) \/ events' = Append(Append(events, d), v)
    BY <1>10 DEF CloseTab, PostViewChanged
  <2> HIDE DEF d, v
  <2> DEFINE s == Append(events, d)
  <2>3. /\ s \in Seq(Event)
        /\ NoneDelivered => NoneIn(s, Answers)
        /\ \A x, q : LastDelivered(x, q) => LastIn(s, Answers, AnswersTo(x, q))
    BY <2>1, AppendKeeps DEF NoneDelivered, LastDelivered
  <2> HIDE DEF s
  <2>4. /\ NoneDelivered => NoneDelivered'
        /\ \A x, q : LastDelivered(x, q) => LastDelivered(x, q)'
    <3>1. CASE events' = s
      BY <2>3, <3>1 DEF NoneDelivered, LastDelivered
    <3>2. CASE events' = Append(s, v)
      BY <2>1, <2>3, <3>2, AppendKeeps DEF NoneDelivered, LastDelivered
    <3> QED BY <2>2, <3>1, <3>2 DEF s
  <2>5. /\ NonePosted => NonePosted'
        /\ \A q : LastPosted(q) => LastPosted(q)'
        /\ QueryRuns' <=> QueryRuns
    BY <1>10 DEF CloseTab, registryVars, NonePosted, LastPosted, QueryRuns
  <2>6. /\ text' = text /\ results' = results /\ shown' = shown
        /\ job' = job /\ cancel' = cancel /\ asked' = asked
    BY <1>10 DEF CloseTab, registryVars
  <2> QED BY <2>4, <2>5, <2>6, AnswerKept
<1>11. ASSUME NEW d \in Docset, UnloadDocset(d) \/ LoadDocset(d)
       PROVE  AnswerInv'
  <2>1. asked # None => results'[asked].of = results[asked].of
    <3>1. Forget(d, sidebars) \/ results' = results
      BY <1>11 DEF UnloadDocset, LoadDocset
    <3> QED BY <1>1, <3>1, ForgetKeepsQuery
  <2>2. QueryRuns => job'.of = job.of
    BY <1>11 DEF UnloadDocset, LoadDocset, Deleted, QueryRuns, TypeOK,
       QueryJob, ReloadJob
  <2>3. QueryRuns' <=> QueryRuns
    <3>1. CASE job' = job
      BY <3>1 DEF QueryRuns
    <3>2. CASE job' # job
      <4>1. QueryRuns /\ job \in QueryJob
            /\ job' = [job EXCEPT !.todo = @ \ {d}, !.gone = @ \cup {d}]
        BY <1>11, <3>2 DEF UnloadDocset, LoadDocset, Deleted, QueryRuns,
           TypeOK, ReloadJob
      <4>2. job' \in QueryJob
        BY <4>1 DEF QueryJob
      <4>3. job' # None /\ job'.kind = "query"
        BY <4>2, JobAssumption DEF QueryJob
      <4> QED BY <4>1, <4>3 DEF QueryRuns
    <3> QED BY <3>1, <3>2
  <2>4. UNCHANGED <<text, shown, posted, cancel, events, asked>>
    BY <1>11 DEF UnloadDocset, LoadDocset
  <2>5. /\ NonePosted => NonePosted'
        /\ \A q : LastPosted(q) => LastPosted(q)'
        /\ NoneDelivered => NoneDelivered'
        /\ \A x, q : LastDelivered(x, q) => LastDelivered(x, q)'
    BY <2>4 DEF NonePosted, LastPosted, NoneDelivered, LastDelivered
  <2> QED BY <2>1, <2>2, <2>3, <2>4, <2>5, AnswerKept
<1>12. ASSUME NEW p \in Storage, SetStoragePath(p) PROVE AnswerInv'
  <2>1. [kind |-> "reload", path |-> p] \in Job \ Queries
    BY DEF Job, Queries
  <2>2. /\ NonePosted => NonePosted'
        /\ \A q : LastPosted(q) => LastPosted(q)'
    BY <1>12, <2>1, PostedKept DEF SetStoragePath
  <2>3. UNCHANGED <<text, shown, results, job, cancel, events, asked>>
    BY <1>12 DEF SetStoragePath, guiVars
  <2>4. QueryRuns' <=> QueryRuns
    BY <2>3 DEF QueryRuns
  <2>5. /\ NoneDelivered => NoneDelivered'
        /\ \A x, q : LastDelivered(x, q) => LastDelivered(x, q)'
    BY <2>3 DEF NoneDelivered, LastDelivered
  <2> QED BY <2>2, <2>3, <2>4, <2>5, AnswerKept
<1> QED BY <1>2, <1>3, <1>4, <1>7, <1>8, <1>9, <1>10, <1>11, <1>12 DEF UserActs

LEMMA JobRuns ==
  ASSUME TypeOK
  PROVE  /\ QueryRuns => job \in QueryJob
         /\ ReloadRuns => job \in ReloadJob /\ ~ QueryRuns
  BY DEF TypeOK, QueryRuns, ReloadRuns, QueryJob, ReloadJob

LEMMA AnswerReload ==
  ASSUME TypeOK, AnswerInv,
         \/ BeginReload \/ EndReload
         \/ \E d \in Docset : ReloadUnloads(d) \/ ReloadLoads(d)
  PROVE  AnswerInv'
<1>1. UNCHANGED <<text, results, shown, cancel, asked>>
  BY DEF BeginReload, EndReload, ReloadUnloads, ReloadLoads, guiVars
<1>2. ~ QueryRuns
  BY JobRuns DEF BeginReload, EndReload, ReloadUnloads, ReloadLoads, QueryRuns
<1>3. job' = None \/ job'.kind = "reload"
  <2>1. ASSUME NEW d \in Docset, ReloadUnloads(d) \/ ReloadLoads(d)
        PROVE  job'.kind = "reload"
    BY <2>1, JobRuns DEF ReloadUnloads, ReloadLoads, ReloadJob
  <2> QED BY <2>1 DEF BeginReload, EndReload
<1>4. ~ QueryRuns'
  BY <1>3 DEF QueryRuns
<1>5. /\ NonePosted => NonePosted'
      /\ \A q : LastPosted(q) => LastPosted(q)'
  <2>1. CASE posted' = posted
    BY <2>1, PostedKept
  <2>2. CASE BeginReload
    BY <2>2, PostedKept DEF BeginReload, Queries
  <2> QED BY <2>1, <2>2 DEF EndReload, ReloadUnloads, ReloadLoads
<1>6. /\ NoneDelivered => NoneDelivered'
      /\ \A x, q : LastDelivered(x, q) => LastDelivered(x, q)'
  <2>1. \A d \in Docset :
          [kind |-> "unload", to |-> sidebars, name |-> d] \in Event \ Answers
    BY DEF Event, Answers, TypeOK
  <2>2. events' = events \/ \E e \in Event \ Answers : events' = Append(events, e)
    BY <2>1 DEF BeginReload, EndReload, ReloadUnloads, ReloadLoads, PostUnload
  <2> QED BY <2>2, EventsKept
<1> QED BY <1>1, <1>2, <1>4, <1>5, <1>6, AnswerKept

\* The query begun is the last one posted, or leaves that one posted.
LEMMA AnswerBegin ==
  ASSUME TypeOK, AnswerInv, BeginQuery
  PROVE  AnswerInv'
<1>1. posted \in Seq(Job) /\ posted # <<>> /\ posted' = Tail(posted)
  BY DEF TypeOK, BeginQuery
<1>2. Head(posted) \in Queries
  BY <1>1, TakeJob DEF BeginQuery, Queries
<1>3. ~ NonePosted
  BY <1>1, <1>2, TailKeeps DEF NonePosted
<1>4. UNCHANGED <<text, shown, asked>>
  BY DEF BeginQuery, guiVars
<1>5. ASSUME NEW q, LastPosted(q)
      PROVE  \/ LastPosted(q)'
             \/ NonePosted' /\ Head(posted) \in QueriesOf(q)
  BY <1>1, <1>5, TailKeeps DEF LastPosted, NonePosted
<1>6. job'.kind = "query" /\ job'.of = Head(posted).of /\ ~ cancel'
      /\ job' \in QueryJob
  <2>1. Head(posted).of \in Query
    BY <1>2 DEF Queries, Job
  <2> QED BY <2>1 DEF BeginQuery, QueryJob, TypeOK
<1>7. QueryRuns'
  BY <1>6, JobAssumption DEF QueryRuns
<1>8. ASSUME NEW t, NEW q, LastPosted(q) PROVE ComingTo(t, q)'
  BY <1>5, <1>6, <1>7, <1>8 DEF ComingTo, QueriesOf
<1>9. ASSUME asked # None, text[asked] # Empty PROVE LastPosted(text[asked])
  <2>1. QueryRuns => FALSE
    BY DEF BeginQuery, QueryRuns
  <2> QED BY <1>3, <1>9 DEF AnswerInv, ComingTo
<1> QED BY <1>4, <1>8, <1>9 DEF AnswerInv

\* A query that was not cancelled is the last one and hands out its answer.
LEMMA AnswerEnd ==
  ASSUME TypeOK, SidebarInv, AnswerInv, EndQuery
  PROVE  AnswerInv'
<1> DEFINE e == [kind |-> "results", to |-> sidebars,
                 answer |-> [of |-> job.of, names |-> job.found]]
<1>1. QueryRuns /\ job \in QueryJob /\ ~ QueryRuns'
  BY JobRuns DEF EndQuery, QueryRuns
<1>2. events \in Seq(Event) /\ e \in Event /\ e \in AnswersTo(shown, job.of)
  BY <1>1 DEF TypeOK, QueryJob, Event, AnswersTo, Answers, SidebarInv
<1>3. ~ cancel => events' = Append(events, e)
  BY DEF EndQuery
<1> HIDE DEF e
<1>4. ASSUME NEW t, NEW q, ~ cancel, t = shown, job.of = q
      PROVE  LastDelivered(t, q)'
  <2>1. e \in AnswersTo(t, q)
    BY <1>2, <1>4
  <2>2. LastIn(Append(events, e), Answers, AnswersTo(t, q))
    BY <1>2, <2>1, AppendKeeps
  <2> QED BY <1>3, <1>4, <2>2 DEF LastDelivered
<1>5. UNCHANGED <<text, shown, results, posted, asked>>
  BY DEF EndQuery, guiVars
<1>6. /\ NonePosted => NonePosted'
      /\ \A q : LastPosted(q) => LastPosted(q)'
  BY <1>5 DEF NonePosted, LastPosted
<1>7. ASSUME NEW t, NEW q, t = shown, ComingTo(t, q) PROVE ComingTo(t, q)'
  BY <1>1, <1>4, <1>6, <1>7 DEF ComingTo
<1> QED BY <1>5, <1>7 DEF AnswerInv

LEMMA AnswerRegistry ==
  ASSUME TypeOK, SidebarInv, AnswerInv, RegistryWorks
  PROVE  AnswerInv'
<1>1. CASE SearchDeletedDocset
  BY <1>1, AnswerSame DEF SearchDeletedDocset, guiVars, registryVars
<1>2. ASSUME NEW d \in Docset, SearchDocset(d) PROVE AnswerInv'
  <2>1. QueryRuns /\ job \in QueryJob
    BY <1>2, JobRuns DEF SearchDocset
  <2>2. job' \in QueryJob /\ job'.of = job.of
    BY <1>2, <2>1 DEF SearchDocset, QueryJob
  <2>3. QueryRuns'
    BY <2>2, JobAssumption DEF QueryRuns, QueryJob
  <2>4. UNCHANGED <<text, shown, results, posted, events, cancel, asked>>
    BY <1>2 DEF SearchDocset, guiVars
  <2>5. /\ NonePosted' <=> NonePosted
        /\ NoneDelivered' <=> NoneDelivered
        /\ \A q : LastPosted(q) => LastPosted(q)'
        /\ \A x, q : LastDelivered(x, q) => LastDelivered(x, q)'
    BY <2>4 DEF NonePosted, NoneDelivered, LastPosted, LastDelivered
  <2> QED BY <2>1, <2>2, <2>3, <2>4, <2>5, AnswerKept
<1> QED BY <1>1, <1>2, AnswerReload, AnswerBegin, AnswerEnd DEF RegistryWorks

LEMMA AnswerEvents ==
  ASSUME TypeOK, SidebarInv, AnswerInv, GuiHandlesEvent
  PROVE  AnswerInv'
<1>1. asked # None => asked \in Tab /\ asked = shown /\ shown \in sidebars
  BY DEF TypeOK, AnswerInv, SidebarInv
<1>2. events \in Seq(Event) /\ shown \in Tab
  BY DEF TypeOK
<1>3. CASE SearchCompleted
  <2> DEFINE answer == Head(events).answer
  <2>1. events # <<>> /\ Head(events) \in Answers /\ events' = Tail(events)
    BY <1>2, <1>3, TakeEvent DEF SearchCompleted, NextIs, Answers
  <2>2. ~ NoneDelivered
    BY <1>2, <2>1, TailKeeps DEF NoneDelivered
  <2>3. ASSUME NEW t, NEW q, LastDelivered(t, q)
        PROVE  \/ LastDelivered(t, q)'
               \/ NoneDelivered' /\ answer.of = q /\ t \in Head(events).to
    BY <1>2, <2>1, <2>3, TailKeeps DEF LastDelivered, NoneDelivered, AnswersTo
  <2>4. shown \in Head(events).to => results'[shown] = answer
    BY <1>3 DEF SearchCompleted, TypeOK
  <2>5. UNCHANGED <<text, shown, asked, posted, job, cancel>>
    BY <1>3 DEF SearchCompleted, registryVars
  <2>6. /\ NonePosted' <=> NonePosted
        /\ \A q : LastPosted(q) => LastPosted(q)'
        /\ QueryRuns' <=> QueryRuns
    BY <2>5 DEF NonePosted, LastPosted, QueryRuns
  <2> HIDE DEF answer
  <2>7. ASSUME NEW q, ComingTo(shown, q) PROVE ComingTo(shown, q)'
    BY <2>2, <2>3, <2>4, <2>5, <2>6, <2>7 DEF ComingTo
  <2> QED BY <2>5, <2>7 DEF AnswerInv
<1>4. CASE DocsetAboutToBeUnloaded
  <2>1. \A t \in Tab : results'[t].of = results[t].of
    BY <1>4, ForgetKeepsQuery DEF DocsetAboutToBeUnloaded
  <2>2. events # <<>> /\ Head(events) \notin Answers /\ events' = Tail(events)
    BY <1>4 DEF DocsetAboutToBeUnloaded, NextIs, Answers
  <2>3. UNCHANGED <<posted, job, cancel, asked, shown, text>>
    BY <1>4 DEF DocsetAboutToBeUnloaded, registryVars
  <2> QED BY <1>1, <2>1, <2>2, <2>3, AnswerSame
<1>5. CASE ViewChanged
  <2>1. CASE asked' = None
    BY <2>1 DEF AnswerInv
  <2>2. CASE asked' # None
    <3>1. asked' = asked /\ shown' = shown
      BY <1>5, <2>2 DEF ViewChanged
    <3>2. UNCHANGED <<posted, job, cancel, text, results>>
      BY <1>5 DEF ViewChanged, registryVars
    <3>3. events # <<>> /\ Head(events) \notin Answers /\ events' = Tail(events)
      BY <1>5 DEF ViewChanged, NextIs, Answers
    <3> QED BY <3>1, <3>2, <3>3, AnswerSame
  <2> QED BY <2>1, <2>2
<1>6. CASE DeleteTab
  <2> DEFINE e == [kind |-> "deleteSidebar", tab |-> Head(events).tab]
             s == Tail(events)
  <2>1. events # <<>> /\ Head(events) \notin Answers /\ events' = Append(s, e)
    BY <1>6 DEF DeleteTab, NextIs, Answers
  <2>2. s \in Seq(Event) /\ e \in Event \ Answers
    BY <1>2, <1>6, <2>1, TakeEvent DEF DeleteTab, NextIs, Event, Answers
  <2>3. /\ NoneDelivered => NoneIn(s, Answers)
        /\ \A x, q : LastDelivered(x, q) => LastIn(s, Answers, AnswersTo(x, q))
    BY <1>2, <2>1, TailKeeps DEF NoneDelivered, LastDelivered, AnswersTo
  <2> HIDE DEF e, s
  <2>4. /\ NoneDelivered => NoneDelivered'
        /\ \A x, q : LastDelivered(x, q) => LastDelivered(x, q)'
    BY <2>1, <2>2, <2>3, AppendKeeps DEF NoneDelivered, LastDelivered
  <2>5. UNCHANGED <<posted, job, cancel, asked, shown, text, results>>
    BY <1>6 DEF DeleteTab, guiVars, registryVars
  <2>6. /\ NonePosted' <=> NonePosted
        /\ \A q : LastPosted(q) => LastPosted(q)'
        /\ QueryRuns' <=> QueryRuns
    BY <2>5 DEF NonePosted, LastPosted, QueryRuns
  <2> QED BY <2>4, <2>5, <2>6, AnswerKept
<1>7. CASE DeleteSidebar
  <2>1. events # <<>> /\ Head(events) \notin Answers /\ events' = Tail(events)
    BY <1>7 DEF DeleteSidebar, NextIs, Answers
  <2>2. shown \in sidebars' /\ sidebars' = sidebars \ {Head(events).tab}
    BY <1>7, SidebarDeleteSidebar DEF SidebarInv, DeleteSidebar
  <2>3. asked # None => text'[asked] = text[asked]
                        /\ results'[asked] = results[asked]
    BY <1>1, <1>7, <2>2 DEF DeleteSidebar, TypeOK
  <2>4. UNCHANGED <<posted, job, cancel, asked, shown>>
    BY <1>7 DEF DeleteSidebar, registryVars
  <2> QED BY <2>1, <2>3, <2>4, AnswerSame
<1> QED BY <1>3, <1>4, <1>5, <1>6, <1>7 DEF GuiHandlesEvent

LEMMA AnswerNext ==
  TypeOK /\ SidebarInv /\ AnswerInv /\ [Next]_vars => AnswerInv'
<1> SUFFICES ASSUME TypeOK, SidebarInv, AnswerInv, [Next]_vars PROVE AnswerInv'
  OBVIOUS
<1>1. CASE UNCHANGED vars
  BY <1>1, AnswerSame DEF vars, guiVars, registryVars
<1>2. CASE TimerFires
  BY <1>2, AnswerSame DEF TimerFires, DelayedNavigation, registryVars
<1> QED BY <1>1, <1>2, AnswerUser, AnswerRegistry, AnswerEvents DEF Next

\* Whatever is cancelled, reloaded, switched or closed on the way, and for any
\* number of queries under way: when all is answered the user sees the answer
\* to what was typed last.
THEOREM LastQueryWins == Spec => []AnswersLastQuery
<1> QED BY AnswerInit, AnswerNext, AnswerShown, SidebarInit, SidebarNext,
           TypeCorrect, PTL DEF Spec
=============================================================================
