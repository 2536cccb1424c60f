--------------------------- MODULE DocsetRegistry ---------------------------
(* Where docsets live while the program runs: the registry's map, the rows   *)
(* of the list model, and the mounts of the HTTP server.  The registry and   *)
(* the list model belong to the registry's thread, which reloads the docset   *)
(* directory; the library dialog loads and unloads docsets from the GUI       *)
(* thread, whose signals reach the rows through the thread's event queue; the *)
(* server answers requests from threads of its own.                          *)
EXTENDS Naturals, Sequences, FiniteSets, SequencesExt

CONSTANTS
  Docset, Prefix, PrefixOf,   \* names, what sanitizePrefix makes of them
  Archived,                   \* docsets in a tarix archive
  Storage, Found,             \* directories, the docsets in each
  MaxPosted,                  \* bound on what waits when the GUI acts
  None

ASSUME RegistryAssumption ==
  /\ PrefixOf \in [Docset -> Prefix]
  /\ Archived \subseteq Docset
  /\ Found \in [Storage -> SUBSET Docset]
  /\ MaxPosted \in Nat \ {0}
  /\ None \notin Docset \cup Storage

VARIABLES
  registered,   \* m_docsets
  rows,         \* m_docsetItems: no row, a row of the object in m_docsets, or of a deleted one
  providers,    \* m_contentProviders
  baseDirs,     \* httplib's mount points, in order, by docset
  mountPoints,  \* m_mountPoints
  serving,      \* the docset a request is reading from, under the read lock
  asked,        \* docsetPath of the settings
  storage,      \* m_storagePath
  ignored,      \* history: a path was asked for that was loaded, before another was
  overlapped,   \* history: the dialog was used while a reload was waiting or under way
  posted,       \* the event queue of m_thread
  job,          \* the reload it works on
  status        \* of the program

mounts == <<providers, baseDirs, mountPoints>>
paths == <<asked, storage, ignored>>
vars == <<registered, rows, mounts, serving, paths, overlapped, posted, job, status>>

Event == [kind : {"reload"}, path : Storage] \cup [kind : {"loaded", "unloading"}, name : Docset]
Reload == [path : Storage, unload : SUBSET Docset, load : SUBSET Docset]
ASSUME ReloadAssumption == \A r \in Reload : r # None

TypeOK ==
  /\ registered \subseteq Docset
  /\ rows \in [Docset -> {"none", "live", "stale"}]
  /\ providers \in [Prefix -> Docset \cup {None}]
  /\ baseDirs \in Seq(Docset)
  /\ mountPoints \in [Prefix -> Docset \cup {None}]
  /\ serving \in Docset \cup {None}
  /\ asked \in Storage \cup {None} /\ storage \in Storage \cup {None}
  /\ ignored \in BOOLEAN /\ overlapped \in BOOLEAN
  /\ posted \in Seq(Event)
  /\ job = None \/ job \in Reload
  /\ status \in {"running", "quitting", "gone", "crashed"}

Waiting(kind) == {i \in DOMAIN posted : posted[i].kind = kind}
Loading == job # None \/ Waiting("reload") # {}

Init ==
  /\ registered = {}
  /\ rows = [d \in Docset |-> "none"]
  /\ providers = [p \in Prefix |-> None]
  /\ baseDirs = <<>>
  /\ mountPoints = [p \in Prefix |-> None]
  /\ serving = None
  /\ asked = None /\ storage = None /\ ignored = FALSE /\ overlapped = FALSE
  /\ posted = <<>>
  /\ job = None
  /\ status = "running"

-----------------------------------------------------------------------------
(* Mounts, as the state a call leaves behind.                              *)

NoMounts == [providers |-> providers, baseDirs |-> baseDirs, mountPoints |-> mountPoints]
MountsAre(m) ==
  /\ providers' = m.providers /\ baseDirs' = m.baseDirs /\ mountPoints' = m.mountPoints

SamePrefix(d) == {i \in DOMAIN baseDirs : PrefixOf[baseDirs[i]] = PrefixOf[d]}
FirstOf(S) == CHOOSE i \in S : \A j \in S : i <= j

\* Mutant of Unmounted: the directory of a docset is left.
ForgetsDirectories(d) ==
  [NoMounts EXCEPT !.providers[PrefixOf[d]] = None, !.mountPoints[PrefixOf[d]] = None]

\* unmount takes the provider of the prefix, or else its first directory.
Unmounted(d) ==
  IF providers[PrefixOf[d]] # None
  THEN [NoMounts EXCEPT !.providers[PrefixOf[d]] = None]
  ELSE [NoMounts EXCEPT
          !.baseDirs = IF SamePrefix(d) = {} THEN @ ELSE RemoveAt(@, FirstOf(SamePrefix(d))),
          !.mountPoints[PrefixOf[d]] = None]

\* mount after m; an archive is refused if its prefix has a provider.
Refused(d, m) == d \in Archived /\ m.providers[PrefixOf[d]] # None
Mounted(d, m) ==
  IF d \in Archived
  THEN [m EXCEPT !.providers[PrefixOf[d]] = d]
  ELSE [m EXCEPT !.baseDirs = Append(@, d), !.mountPoints[PrefixOf[d]] = d]

\* The write lock waits for a request being read (mutant: it does not).
NoLock == TRUE
WriteLock == serving = None

-----------------------------------------------------------------------------
(* Loading and unloading one docset, whoever does it.                       *)

\* Unmountable is a directory that is not there; an archive is refused by its prefix.
Outcome == {"invalid", "unmountable", "valid"}

Left(d) == IF d \in registered THEN Unmounted(d) ELSE NoMounts
Registers(d, outcome) ==
  /\ outcome = "valid"
  /\ ~Refused(d, Left(d))

\* The signals of registerDocset: a docset of that name is unloaded first.
Emitted(d, outcome) ==
  IF outcome = "invalid" THEN <<>>
  ELSE (IF d \in registered THEN <<[kind |-> "unloading", name |-> d]>> ELSE <<>>)
       \o (IF Registers(d, outcome) THEN <<[kind |-> "loaded", name |-> d]>> ELSE <<>>)

RegisterDocset(d, outcome) ==
  IF outcome = "invalid" THEN UNCHANGED <<registered, mounts>>
  ELSE /\ WriteLock
       /\ registered' = IF Registers(d, outcome) THEN registered \cup {d} ELSE registered \ {d}
       /\ MountsAre(IF Registers(d, outcome) THEN Mounted(d, Left(d)) ELSE Left(d))

UnloadDocset(d) ==
  /\ WriteLock
  /\ registered' = registered \ {d}
  /\ MountsAre(Unmounted(d))

\* Mutant: the row of a docset that is unloaded stays.
RowKept(d, kind) == IF kind = "loaded" /\ rows[d] = "none" THEN "live" ELSE rows[d]
\* What addDocset and removeDocset make of a row.
RowAfter(d, kind) ==
  IF kind = "unloading" THEN "none" ELSE IF rows[d] = "none" THEN "live" ELSE rows[d]

-----------------------------------------------------------------------------
(* The GUI thread.  What it emits is queued for the rows.                   *)

Post(events) == Len(posted) < MaxPosted /\ posted' = posted \o events
DialogActs == status = "running" /\ overlapped' = (overlapped \/ Loading)

\* The rows of a docset the GUI thread deletes outlive it.
Orphaned(d) == [rows EXCEPT ![d] = IF @ = "live" THEN "stale" ELSE @]

\* Mutant of SetStoragePath: nothing is posted while a reload runs.
SetStoragePathWhenIdle(p) ==
  /\ status = "running"
  /\ asked' = p
  /\ IF p = storage \/ Loading
     THEN /\ ignored' = (p = storage /\ Loading) /\ UNCHANGED posted
     ELSE /\ ignored' = FALSE
          /\ Post(<<[kind |-> "reload", path |-> p]>>)
  /\ UNCHANGED <<registered, rows, mounts, serving, storage, job, overlapped, status>>

\* applySettings, on every save of the settings: compared with the path loaded last.
SetStoragePath(p) ==
  /\ status = "running"
  /\ asked' = p
  /\ IF p = storage
     THEN /\ ignored' = Loading /\ UNCHANGED posted
     ELSE /\ ignored' = FALSE
          /\ Post(<<[kind |-> "reload", path |-> p]>>)
  /\ UNCHANGED <<registered, rows, mounts, serving, storage, job, overlapped, status>>

\* The dialog loads what it has extracted.
DialogLoads(d, outcome) ==
  /\ DialogActs
  /\ RegisterDocset(d, outcome)
  /\ Post(Emitted(d, outcome))
  /\ rows' = IF outcome # "invalid" /\ d \in registered THEN Orphaned(d) ELSE rows
  /\ UNCHANGED <<serving, paths, job, status>>

\* Mutant: the rows are not told.
DialogUnloadsQuietly(d) ==
  /\ DialogActs /\ d \in registered
  /\ UnloadDocset(d)
  /\ Post(<<>>)
  /\ rows' = Orphaned(d)
  /\ UNCHANGED <<serving, paths, job, status>>

\* The dialog removes a docset, or is about to replace it.
DialogUnloads(d) ==
  /\ DialogActs /\ d \in registered
  /\ UnloadDocset(d)
  /\ Post(<<[kind |-> "unloading", name |-> d]>>)
  /\ rows' = Orphaned(d)
  /\ UNCHANGED <<serving, paths, job, status>>

Quit ==
  /\ status = "running"
  /\ status' = "quitting"
  /\ UNCHANGED <<registered, rows, mounts, serving, paths, posted, job, overlapped>>

\* Once the thread has stopped, docset after docset is unmounted and all are deleted.
Destroy ==
  /\ status = "quitting" /\ job = None /\ WriteLock
  /\ status' = "gone"
  /\ registered' = {}
  /\ providers' = [p \in Prefix |-> IF \E d \in registered : PrefixOf[d] = p THEN None ELSE providers[p]]
  /\ UNCHANGED <<baseDirs, mountPoints, rows, serving, paths, posted, job, overlapped>>

-----------------------------------------------------------------------------
(* The registry's thread.                                                   *)

\* Mutant: the reload overtakes what was posted before it.
StartReloadFirst ==
  /\ status = "running" /\ job = None /\ Waiting("reload") # {}
  /\ LET i == FirstOf(Waiting("reload"))
     IN /\ job' = [path |-> posted[i].path, unload |-> registered, load |-> Found[posted[i].path]]
        /\ posted' = RemoveAt(posted, i)
  /\ UNCHANGED <<registered, rows, mounts, serving, paths, overlapped, status>>
\* Whatever is registered when the reload starts is unloaded.
StartReload ==
  /\ status = "running" /\ job = None /\ posted # <<>> /\ Head(posted).kind = "reload"
  /\ job' = [path |-> Head(posted).path, unload |-> registered, load |-> Found[Head(posted).path]]
  /\ posted' = Tail(posted)
  /\ UNCHANGED <<registered, rows, mounts, serving, paths, overlapped, status>>

UnloadNext(d) ==
  /\ job # None /\ d \in job.unload
  /\ UnloadDocset(d)
  /\ rows' = [rows EXCEPT ![d] = "none"]
  /\ job' = [job EXCEPT !.unload = @ \ {d}]
  /\ UNCHANGED <<serving, paths, posted, overlapped, status>>

RowNow(d, outcome) ==
  IF d \in registered /\ outcome # "invalid" THEN IF Registers(d, outcome) THEN "live" ELSE "none"
  ELSE IF Registers(d, outcome) THEN RowAfter(d, "loaded") ELSE rows[d]

\* Mutant: a docset that is there already is not unloaded but waited for.
LoadWhenGone(d, outcome) ==
  /\ job # None /\ job.unload = {} /\ d \in job.load \ registered
  /\ RegisterDocset(d, outcome)
  /\ rows' = [rows EXCEPT ![d] = RowNow(d, outcome)]
  /\ job' = [job EXCEPT !.load = @ \ {d}]
  /\ UNCHANGED <<serving, paths, posted, overlapped, status>>
LoadNext(d, outcome) ==
  /\ job # None /\ job.unload = {} /\ d \in job.load
  /\ RegisterDocset(d, outcome)
  /\ rows' = [rows EXCEPT ![d] = RowNow(d, outcome)]
  /\ job' = [job EXCEPT !.load = @ \ {d}]
  /\ UNCHANGED <<serving, paths, posted, overlapped, status>>

FinishReload ==
  /\ job # None /\ job.unload = {} /\ job.load = {}
  /\ storage' = job.path
  /\ job' = None
  /\ UNCHANGED <<registered, rows, mounts, serving, asked, ignored, posted, overlapped, status>>

\* A queued signal reaches the rows; addDocset reads the docset of that name.
Deliver ==
  /\ status = "running" /\ job = None /\ posted # <<>> /\ Head(posted).kind # "reload"
  /\ LET e == Head(posted)
         added == e.kind = "loaded" /\ rows[e.name] = "none"
     IN  IF added /\ e.name \notin registered
         THEN status' = "crashed" /\ UNCHANGED rows
         ELSE rows' = [rows EXCEPT ![e.name] = RowAfter(e.name, e.kind)] /\ UNCHANGED status
  /\ posted' = Tail(posted)
  /\ UNCHANGED <<registered, mounts, serving, paths, job, overlapped>>

-----------------------------------------------------------------------------
(* A thread of the server reads a page of an archive.                       *)

BeginServe(p) ==
  /\ status \in {"running", "quitting"}
  /\ serving = None /\ providers[p] # None
  /\ serving' = providers[p]
  /\ UNCHANGED <<registered, rows, mounts, paths, posted, job, overlapped, status>>

EndServe ==
  /\ serving # None
  /\ serving' = None
  /\ UNCHANGED <<registered, rows, mounts, paths, posted, job, overlapped, status>>

Ended == status \in {"gone", "crashed"} /\ UNCHANGED vars

Thread ==
  \/ StartReload \/ FinishReload \/ Deliver
  \/ \E d \in Docset : UnloadNext(d) \/ \E o \in Outcome : LoadNext(d, o)

Next ==
  \/ \E p \in Storage : SetStoragePath(p)
  \/ \E d \in Docset : DialogUnloads(d) \/ \E o \in Outcome : DialogLoads(d, o)
  \/ Quit \/ Destroy
  \/ Thread
  \/ \E p \in Prefix : BeginServe(p)
  \/ EndServe
  \/ Ended

Spec == Init /\ [][Next]_vars
\* QReadWriteLock lets no reader in before a waiting writer.
FairSpec == Spec /\ SF_vars(Thread) /\ WF_vars(EndServe)

-----------------------------------------------------------------------------
(* Properties.                                                              *)

\* The docset a server thread reads from, and every docset a request could
\* reach through its content provider, is registered and so not deleted.
ProvidersLive ==
  /\ serving # None => serving \in registered
  /\ \A p \in Prefix : providers[p] # None => providers[p] \in registered

\* A docset that shares its prefix with no other is registered exactly if it is
\* mounted, and then once, where error handler, route and httplib look for it.
Unshared(d) == \A e \in Docset \ {d} : PrefixOf[e] # PrefixOf[d]
MountsAgree ==
  status # "gone" =>
  \A d \in Docset : Unshared(d) =>
    LET directory == d \in registered /\ d \notin Archived
    IN  /\ providers[PrefixOf[d]] = d <=> d \in registered \cap Archived
        /\ mountPoints[PrefixOf[d]] = d <=> directory
        /\ Cardinality({i \in DOMAIN baseDirs : baseDirs[i] = d}) = IF directory THEN 1 ELSE 0

\* A row that still points at a deleted docset is about to be removed.
StaleRowsGo ==
  \A d \in Docset : rows[d] = "stale" =>
    \E i \in Waiting("unloading") : posted[i].name = d

\* With nothing under way, the rows are those of the registered docsets, if the
\* dialog was never used during a reload.
Quiet == status = "running" /\ posted = <<>> /\ job = None
RowsFollow ==
  Quiet /\ ~overlapped => \A d \in Docset : rows[d] = IF d \in registered THEN "live" ELSE "none"

\* removeDocset finds the row it is to remove, if the dialog was never used during
\* a reload; that it is used then is an answer to the question at listmodel.cpp:247.
RemovalFindsRow ==
  ~overlapped =>
  /\ status = "running" /\ posted # <<>> /\ Head(posted).kind = "unloading" =>
       rows[Head(posted).name] # "none"
  /\ job # None => \A d \in job.unload : rows[d] # "none"

\* With nothing under way, the directory asked for last is the one loaded,
\* unless it was asked for again while another was about to be loaded.
AskedIsLoaded == Quiet => asked = storage \/ ignored

\* A reload that has started ends, whatever fails to load or is being read.
ReloadsEnd == (job # None) ~> (job = None)
====
