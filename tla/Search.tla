------------------------------- MODULE Search -------------------------------
(***************************************************************************)
(* Searching the installed docsets: the registry's thread runs queries,    *)
(* every tab has a search sidebar, and the dock shows one of them.         *)
(*                                                                         *)
(* Two threads.  The GUI thread posts queries and changes of the docset    *)
(* storage to the registry's thread (`posted`); that thread works on one   *)
(* `job` at a time and answers through the GUI's event queue (`events`),   *)
(* which also carries the deferred steps of closing and switching tabs.    *)
(* The dialogs load and unload docsets straight from the GUI thread, even  *)
(* while a query reads them: what then happens is undefined, and the model *)
(* lets the program crash.                                                 *)
(*                                                                         *)
(* A result is the query that found it with the docset it belongs to.  The *)
(* main window stays visible.                                              *)
(***************************************************************************)
EXTENDS Naturals, Sequences

CONSTANTS
  Tab,         \* tabs, open or not
  Docset,      \* names of docsets
  Query,       \* what can be typed, other than nothing
  Storage,     \* docset directories
  Found,       \* the docsets found in each of them
  Match,       \* the docsets each query has results in
  Empty,       \* the empty search box
  None,
  MaxPosted,   \* most jobs posted to the registry's thread at a time
  MaxEvents    \* most events before the user does something more

ASSUME SearchAssumption ==
  /\ Found \in [Storage -> SUBSET Docset]
  /\ Match \in [Query -> SUBSET Docset]
  /\ Empty \notin Query
  /\ None \notin Tab \cup Docset \cup Query \cup Storage \cup {Empty}

VARIABLES
  tabs,        \* tabs in the tab bar
  sidebars,    \* sidebars that are not deleted yet; each belongs to one tab
  current,     \* the current tab of the tab bar
  shown,       \* the sidebar in the dock
  text,        \* what is in each search box
  results,     \* each sidebar's search model
  timer,       \* the result each delayed navigation waits to open
  registered,  \* the registry's docsets
  storage,     \* the directory they were loaded from
  cancel,      \* the registry's flag m_cancelSearch
  posted,      \* jobs the registry's thread has not begun
  job,         \* the job it works on
  events,      \* events the GUI thread has not handled
  alive,       \* no undefined behaviour yet
  asked        \* the tab that searched last, if it is shown ever since

guiVars == <<tabs, sidebars, current, shown, text, results, timer>>
registryVars == <<registered, storage, cancel, posted, job>>
vars == <<guiVars, registryVars, events, alive, asked>>

-----------------------------------------------------------------------------

Answer == [of : Query \cup {Empty}, names : SUBSET Docset]
Result == [of : Query \cup {Empty}, name : Docset]
NoResults == [of |-> Empty, names |-> {}]

Job == [kind : {"query"}, of : Query] \cup [kind : {"reload"}, path : Storage]
QueryJob == [kind : {"query"}, of : Query, enabled : SUBSET Docset,
             todo : SUBSET Docset, gone : SUBSET Docset, found : SUBSET Docset]
ReloadJob == [kind : {"reload"}, path : Storage,
              unload : SUBSET Docset, load : SUBSET Docset]
ASSUME JobAssumption == None \notin QueryJob

\* Signals of the registry's thread go to the sidebars there are when they are
\* emitted.
Event == [kind : {"results"}, to : SUBSET Tab,
          answer : [of : Query, names : SUBSET Docset]]
         \cup [kind : {"unload"}, to : SUBSET Tab, name : Docset]
         \cup [kind : {"deleteTab", "deleteSidebar"}, tab : Tab]
         \cup [kind : {"viewChanged"}]

TypeOK ==
  /\ tabs \subseteq Tab /\ sidebars \subseteq Tab
  /\ current \in Tab /\ shown \in Tab
  /\ text \in [Tab -> Query \cup {Empty}]
  /\ results \in [Tab -> Answer]
  /\ timer \in [Tab -> Result \cup {None}]
  /\ registered \subseteq Docset
  /\ storage \in Storage \cup {None}
  /\ cancel \in BOOLEAN
  /\ posted \in Seq(Job)
  /\ job \in QueryJob \cup ReloadJob \cup {None}
  /\ events \in Seq(Event)
  /\ alive \in BOOLEAN
  /\ asked \in Tab \cup {None}

QueryRuns == job # None /\ job.kind = "query"
ReloadRuns == job # None /\ job.kind = "reload"

\* The application has set the docset directory and opened its first tab.
Init ==
  /\ \E t \in Tab : /\ tabs = {t} /\ sidebars = {t}
                    /\ current = t /\ shown = t
  /\ text = [t \in Tab |-> Empty]
  /\ results = [t \in Tab |-> NoResults]
  /\ timer = [t \in Tab |-> None]
  /\ registered = {} /\ storage = None
  /\ cancel = FALSE
  /\ \E p \in Storage : posted = << [kind |-> "reload", path |-> p] >>
  /\ job = None
  /\ events = <<>>
  /\ alive = TRUE
  /\ asked = None

-----------------------------------------------------------------------------
(* The search box.                                                         *)

\* Mutant of Search: an empty query cancels nothing.
SearchCancelsForNext(q) ==
  /\ cancel' = (q # Empty)
  /\ posted' = IF q = Empty THEN posted
               ELSE Append(posted, [kind |-> "query", of |-> q])

\* DocsetRegistry::search
Search(q) ==
  /\ cancel' = TRUE
  /\ posted' = IF q = Empty THEN posted
               ELSE Append(posted, [kind |-> "query", of |-> q])

\* The user edits the box of the sidebar in the dock.  Emptying it hands out
\* an empty answer at once, and only what is visible takes it.
Type(q) ==
  /\ q # text[shown]
  /\ q = Empty \/ Len(posted) < MaxPosted
  /\ text' = [text EXCEPT ![shown] = q]
  /\ Search(q)
  /\ results' = IF q = Empty THEN [results EXCEPT ![shown] = NoResults]
                ELSE results
  /\ timer' = IF q = Empty THEN [timer EXCEPT ![shown] = None] ELSE timer
  /\ asked' = shown
  /\ UNCHANGED <<tabs, sidebars, current, shown,
                 registered, storage, job, events, alive>>

\* A query from the command line goes to the current tab.
SearchInCurrentTab(q) ==
  /\ q # text[current]
  /\ q = Empty \/ Len(posted) < MaxPosted
  /\ text' = [text EXCEPT ![current] = q]
  /\ Search(q)
  /\ asked' = IF current = shown THEN current ELSE None
  /\ UNCHANGED <<tabs, sidebars, current, shown, results, timer,
                 registered, storage, job, events, alive>>

\* The rows the tree of sidebar t offers: all docsets or the results.
Rows(t) == IF text[t] = Empty
           THEN [of : {Empty}, name : registered]
           ELSE [of : {results[t].of}, name : results[t].names]

\* Moving the selection starts the delayed navigation.
Select(r) ==
  /\ r \in Rows(shown)
  /\ timer' = [timer EXCEPT ![shown] = r]
  /\ UNCHANGED <<tabs, sidebars, current, shown, text, results,
                 registryVars, events, alive, asked>>

\* A click, and the end of the delay, open the page.
NavigateToIndex(r) ==
  /\ r \in Rows(shown)
  /\ timer' = [timer EXCEPT ![shown] = None]
  /\ UNCHANGED <<tabs, sidebars, current, shown, text, results,
                 registryVars, events, alive, asked>>

DelayedNavigation(t) ==
  /\ t \in sidebars
  /\ timer[t] # None
  /\ timer' = [timer EXCEPT ![t] = None]
  /\ UNCHANGED <<tabs, sidebars, current, shown, text, results,
                 registryVars, events, alive, asked>>

-----------------------------------------------------------------------------
(* Tabs.                                                                   *)

PostViewChanged(before) ==
  events' = Append(before, [kind |-> "viewChanged"])

\* Signals to a deleted sidebar are dropped: nothing new has its name while
\* they wait.
Unaddressed(t) == \A i \in DOMAIN events :
  events[i].kind \in {"results", "unload"} => t \notin events[i].to

\* addTab with a tab whose sidebar is new or a clone of another one
AddTab(t, box, rows, activate) ==
  /\ t \notin sidebars /\ Unaddressed(t)
  /\ tabs' = tabs \cup {t}
  /\ sidebars' = sidebars \cup {t}
  /\ text' = [text EXCEPT ![t] = box]
  /\ results' = [results EXCEPT ![t] = rows]
  /\ IF activate THEN current' = t /\ PostViewChanged(events)
                 ELSE UNCHANGED <<current, events>>
  /\ UNCHANGED <<shown, registryVars, alive, asked>>

CreateTab(t) == AddTab(t, Empty, NoResults, TRUE) /\ UNCHANGED timer

\* A clone takes over the text and its rows, not the timer.  A sidebar
\* cloned with an empty box starts with an empty search model.
ClonedRows(t) == IF text[t] = Empty THEN NoResults ELSE results[t]

DuplicateTab(from, t) ==
  /\ from \in tabs
  /\ AddTab(t, text[from], ClonedRows(from), TRUE)
  /\ UNCHANGED timer

\* Ctrl+click on a row
OpenInNewTab(t, r, activate) ==
  /\ r \in Rows(shown)
  /\ AddTab(t, text[current], ClonedRows(current), activate)
  /\ timer' = [timer EXCEPT ![shown] = None]

SwitchTab(t) ==
  /\ t \in tabs \ {current}
  /\ current' = t
  /\ PostViewChanged(events)
  /\ UNCHANGED <<tabs, sidebars, shown, text, results, timer,
                 registryVars, alive, asked>>

\* The tab is deleted by a later event, and its sidebar by one after that.
\* Without a tab left a new one is created.
CloseTab(t, next) ==
  /\ t \in tabs
  /\ tabs' = (tabs \ {t}) \cup (IF tabs = {t} THEN {next} ELSE {})
  /\ IF tabs = {t} THEN next \notin sidebars /\ Unaddressed(next)
     ELSE next \in tabs \ {t} /\ (t # current => next = current)
  /\ sidebars' = sidebars \cup {next}
  /\ current' = next
  /\ LET deleting == Append(events, [kind |-> "deleteTab", tab |-> t])
     IN IF t = current THEN PostViewChanged(deleting) ELSE events' = deleting
  /\ UNCHANGED <<shown, text, results, timer, registryVars, alive, asked>>

-----------------------------------------------------------------------------
(* Docsets.                                                                *)

\* Mutant of Forget: the delayed navigation goes on.
ForgetKeepingTimer(d, hearers) ==
  /\ results' = [t \in Tab |-> IF t \in hearers
                               THEN [results[t] EXCEPT !.names = @ \ {d}]
                               ELSE results[t]]
  /\ UNCHANGED timer

\* docsetAboutToBeUnloaded in the sidebars that hear it
Forget(d, hearers) ==
  /\ results' = [t \in Tab |-> IF t \in hearers
                               THEN [results[t] EXCEPT !.names = @ \ {d}]
                               ELSE results[t]]
  /\ timer' = [t \in Tab |-> IF t \in hearers THEN None ELSE timer[t]]

\* A query that has yet to read d will find it deleted.
Deleted(d) == job' = IF QueryRuns /\ d \in job.todo
                     THEN [job EXCEPT !.todo = @ \ {d}, !.gone = @ \cup {d}]
                     ELSE job

\* The library dialog removes a docset, and installs or updates one.
UnloadDocset(d) ==
  /\ d \in registered
  /\ Forget(d, sidebars)
  /\ registered' = registered \ {d}
  /\ Deleted(d)
  /\ UNCHANGED <<tabs, sidebars, current, shown, text, storage, cancel,
                 posted, events, alive, asked>>

LoadDocset(d) ==
  /\ registered' = registered \cup {d}
  /\ IF d \in registered THEN Forget(d, sidebars) /\ Deleted(d)
                         ELSE UNCHANGED <<results, timer, job>>
  /\ UNCHANGED <<tabs, sidebars, current, shown, text, storage, cancel,
                 posted, events, alive, asked>>

\* The preferences name another directory than the one loaded last.
SetStoragePath(p) ==
  /\ p # storage
  /\ Len(posted) < MaxPosted
  /\ posted' = Append(posted, [kind |-> "reload", path |-> p])
  /\ UNCHANGED <<guiVars, registered, storage, cancel, job, events, alive,
                 asked>>

-----------------------------------------------------------------------------
(* The registry's thread.                                                  *)

BeginReload ==
  /\ job = None /\ posted # <<>> /\ Head(posted).kind = "reload"
  /\ job' = [kind |-> "reload", path |-> Head(posted).path,
             unload |-> registered, load |-> Found[Head(posted).path]]
  /\ posted' = Tail(posted)
  /\ UNCHANGED <<guiVars, registered, storage, cancel, events, alive, asked>>

PostUnload(d) ==
  Append(events, [kind |-> "unload", to |-> sidebars, name |-> d])

ReloadUnloads(d) ==
  /\ ReloadRuns /\ d \in job.unload
  /\ job' = [job EXCEPT !.unload = @ \ {d}]
  /\ registered' = registered \ {d}
  /\ events' = PostUnload(d)
  /\ UNCHANGED <<guiVars, storage, cancel, posted, alive, asked>>

\* A docset the dialog has loaded meanwhile is unloaded first.
ReloadLoads(d) ==
  /\ ReloadRuns /\ job.unload = {} /\ d \in job.load
  /\ job' = [job EXCEPT !.load = @ \ {d}]
  /\ registered' = registered \cup {d}
  /\ events' = IF d \in registered
               THEN PostUnload(d) ELSE events
  /\ UNCHANGED <<guiVars, storage, cancel, posted, alive, asked>>

EndReload ==
  /\ ReloadRuns /\ job.unload = {} /\ job.load = {}
  /\ job' = None
  /\ storage' = job.path
  /\ UNCHANGED <<guiVars, registered, cancel, posted, events, alive, asked>>

\* Mutant of BeginQuery: the flag set by the query itself is not reset.
BeginQueryCancelled ==
  /\ job = None /\ posted # <<>> /\ Head(posted).kind = "query"
  /\ job' = [kind |-> "query", of |-> Head(posted).of, enabled |-> registered,
             todo |-> registered, gone |-> {}, found |-> {}]
  /\ posted' = Tail(posted)
  /\ UNCHANGED <<guiVars, registered, storage, cancel, events, alive, asked>>

\* DocsetRegistry::runQuery: the docsets of the query are read in parallel,
\* each until it sees the flag.
BeginQuery ==
  /\ job = None /\ posted # <<>> /\ Head(posted).kind = "query"
  /\ cancel' = FALSE
  /\ job' = [kind |-> "query", of |-> Head(posted).of, enabled |-> registered,
             todo |-> registered, gone |-> {}, found |-> {}]
  /\ posted' = Tail(posted)
  /\ UNCHANGED <<guiVars, registered, storage, events, alive, asked>>

SearchDocset(d) ==
  /\ QueryRuns /\ d \in job.todo
  /\ job' = [job EXCEPT !.todo = @ \ {d},
                        !.found = IF cancel THEN @
                                  ELSE @ \cup ({d} \cap Match[job.of])]
  /\ UNCHANGED <<guiVars, registered, storage, cancel, posted, events, alive,
                 asked>>

\* A deleted docset is read.
SearchDeletedDocset ==
  /\ QueryRuns /\ job.gone # {}
  /\ alive' = FALSE
  /\ UNCHANGED <<guiVars, registryVars, events, asked>>

EndQuery ==
  /\ QueryRuns /\ job.todo = {} /\ job.gone = {}
  /\ events' = IF cancel THEN events
               ELSE Append(events, [kind |-> "results", to |-> sidebars,
                        answer |-> [of |-> job.of, names |-> job.found]])
  /\ job' = None
  /\ UNCHANGED <<guiVars, registered, storage, cancel, posted, alive, asked>>

-----------------------------------------------------------------------------
(* The GUI thread's events.                                                *)

NextIs(kind) == events # <<>> /\ Head(events).kind = kind

\* searchCompleted: only the sidebar in the dock takes the answer.  It
\* selects the first row, which starts the delayed navigation.
SearchCompleted ==
  /\ NextIs("results")
  /\ LET answer == Head(events).answer IN
     IF shown \notin Head(events).to THEN UNCHANGED <<results, timer>>
     ELSE /\ results' = [results EXCEPT ![shown] = answer]
          /\ IF answer.names = {} THEN timer' = [timer EXCEPT ![shown] = None]
             ELSE \E d \in answer.names : timer' =
                    [timer EXCEPT ![shown] = [of |-> answer.of, name |-> d]]
  /\ events' = Tail(events)
  /\ UNCHANGED <<tabs, sidebars, current, shown, text, registryVars,
                 alive, asked>>

DocsetAboutToBeUnloaded ==
  /\ NextIs("unload")
  /\ Forget(Head(events).name, Head(events).to \cap sidebars)
  /\ events' = Tail(events)
  /\ UNCHANGED <<tabs, sidebars, current, shown, text, registryVars, alive,
                 asked>>

ViewChanged ==
  /\ NextIs("viewChanged")
  /\ shown' = current
  /\ asked' = IF current = shown THEN asked ELSE None
  /\ events' = Tail(events)
  /\ UNCHANGED <<tabs, sidebars, current, text, results, timer,
                 registryVars, alive>>

\* Mutant of DeleteTab: the sidebar is deleted with its tab.
DeleteTabAndSidebar ==
  /\ NextIs("deleteTab")
  /\ sidebars' = sidebars \ {Head(events).tab}
  /\ events' = Tail(events)
  /\ UNCHANGED <<tabs, current, shown, text, results, timer, registryVars,
                 alive, asked>>

DeleteTab ==
  /\ NextIs("deleteTab")
  /\ events' = Append(Tail(events),
                      [kind |-> "deleteSidebar", tab |-> Head(events).tab])
  /\ UNCHANGED <<guiVars, registryVars, alive, asked>>

DeleteSidebar ==
  /\ NextIs("deleteSidebar")
  /\ LET t == Head(events).tab IN
     /\ sidebars' = sidebars \ {t}
     /\ text' = [text EXCEPT ![t] = Empty]
     /\ results' = [results EXCEPT ![t] = NoResults]
     /\ timer' = [timer EXCEPT ![t] = None]
  /\ events' = Tail(events)
  /\ UNCHANGED <<tabs, current, shown, registryVars, alive, asked>>

-----------------------------------------------------------------------------

UserActs ==
  /\ alive /\ Len(events) < MaxEvents
  /\ \/ \E q \in Query \cup {Empty} : Type(q)
     \/ \E q \in Query : SearchInCurrentTab(q)
     \/ \E r \in Result : Select(r) \/ NavigateToIndex(r)
     \/ \E t \in Tab : CreateTab(t) \/ SwitchTab(t)
     \/ \E t, u \in Tab : DuplicateTab(t, u) \/ CloseTab(t, u)
     \/ \E t \in Tab, r \in Result, activate \in BOOLEAN :
          OpenInNewTab(t, r, activate)
     \/ \E d \in Docset : UnloadDocset(d) \/ LoadDocset(d)
     \/ \E p \in Storage : SetStoragePath(p)

RegistryWorks ==
  /\ alive
  /\ \/ BeginReload \/ EndReload \/ BeginQuery \/ EndQuery
     \/ SearchDeletedDocset
     \/ \E d \in Docset : ReloadUnloads(d) \/ ReloadLoads(d) \/ SearchDocset(d)

GuiHandlesEvent ==
  /\ alive
  /\ \/ SearchCompleted \/ DocsetAboutToBeUnloaded
     \/ ViewChanged \/ DeleteTab \/ DeleteSidebar

TimerFires == alive /\ \E t \in Tab : DelayedNavigation(t)

Next == UserActs \/ RegistryWorks \/ GuiHandlesEvent \/ TimerFires

Spec == Init /\ [][Next]_vars

\* Both event loops run on; nothing is assumed of the user or the timers.
FairSpec == Spec /\ WF_vars(RegistryWorks) /\ WF_vars(GuiHandlesEvent)

-----------------------------------------------------------------------------
(* Properties.                                                             *)

\* Nobody answers a query any more.
Answered ==
  /\ \A i \in DOMAIN posted : posted[i].kind # "query"
  /\ ~ QueryRuns
  /\ \A i \in DOMAIN events : events[i].kind # "results"

\* A query is cancelled from the GUI thread by a flag the registry's thread
\* resets.  Unless it is set the query has all the results of the docsets it
\* has read: no answer is ever cut short and handed out all the same.
CancelledOrComplete ==
  QueryRuns /\ ~ cancel =>
    job.found = Match[job.of] \cap (job.enabled \ (job.todo \cup job.gone))

\* When all queries are answered, the sidebar that searched last and stayed
\* in the dock shows the answer to what is in its box, whatever was cancelled,
\* reloaded or answered late on the way.
AnswersLastQuery ==
  asked # None /\ Answered /\ text[asked] # Empty =>
    results[asked].of = text[asked]

\* The timer keeps an index, not a result: the row it names is still there,
\* with the result it had when the navigation was delayed.
TimerTargetsShownResult ==
  \A t \in sidebars :
    timer[t] # None /\ timer[t].of # Empty =>
      /\ timer[t].of = results[t].of
      /\ timer[t].name \in results[t].names

\* Closing a tab deletes its sidebar, which the dock does not own, only when
\* the dock shows another one.
ShownSidebarExists == shown \in sidebars /\ current \in tabs

\* Whoever stops typing gets the answer in the end.
LastQueryAnswered ==
  \A t \in Tab, q \in Query :
    <>[](alive /\ asked = t /\ text[t] = q) => <>[](results[t].of = q)
=============================================================================
