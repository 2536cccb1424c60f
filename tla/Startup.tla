------------------------------ MODULE Startup ------------------------------
(* Starts of the program: each process finds out through a segment of shared *)
(* memory whether it is the primary one, hands its query to the primary if    *)
(* not, and otherwise reads the session file, which it writes again when it    *)
(* ends.  A process may crash at any step.                                   *)
(* External: the segment outlives the processes that crash; the last process  *)
(* that detaches from it removes it; process ids are not used again.          *)
EXTENDS Naturals, FiniteSets

CONSTANTS
  Process,
  BackingFile,   \* has the segment a file in the directory for temporary files?
  Nobody

ASSUME StartupAssumption == BackingFile \in BOOLEAN /\ Nobody \notin Process

VARIABLES
  pc,          \* what each process does next
  exists, attached, primaryPid,   \* the segment, who is attached, SharedData
  listening,   \* the process whose local server has the name
  session,     \* windows, of each process: the user's, or the defaults
  file,        \* session.toml
  legacy,      \* the 'state' keys of the old settings
  saved,       \* history: a session has been saved at an exit
  torn,        \* history: a crash while the file was written, or a save that failed
  alone        \* history: no other process was alive since this one started

segment == <<exists, attached, primaryPid>>
store == <<session, file, legacy, saved, torn>>
vars == <<pc, segment, listening, store, alone>>

Starting == {"attach", "probe", "reclaim", "attachAgain", "createAgain", "secondary"}
Primary == {"created", "named", "load", "migrate", "write", "forget", "running",
            "save", "rewrite", "exit"}
Over == {"off", "ended", "failed", "crashed"}

TypeOK ==
  /\ pc \in [Process -> Starting \cup Primary \cup Over]
  /\ exists \in BOOLEAN /\ attached \subseteq Process
  /\ primaryPid \in Process \cup {Nobody}
  /\ listening \in Process \cup {Nobody}
  /\ session \in [Process -> {"user", "default"}]
  /\ file \in {"none", "partial", "user", "default"}
  /\ {legacy, saved, torn} \subseteq BOOLEAN
  /\ alone \in [Process -> BOOLEAN]

Alive == {p \in Process : pc[p] \notin Over}

\* The user comes from an old version, whose window state is in the settings.
Init ==
  /\ pc = [p \in Process |-> "off"]
  /\ exists = FALSE /\ attached = {} /\ primaryPid = Nobody
  /\ listening = Nobody
  /\ session = [p \in Process |-> "default"]
  /\ file = "none" /\ legacy = TRUE /\ saved = FALSE /\ torn = FALSE
  /\ alone = [p \in Process |-> FALSE]

-----------------------------------------------------------------------------
(* QSharedMemory.                                                          *)

Goes(p, next) == pc' = [pc EXCEPT ![p] = next]

Creates(p) ==
  /\ ~exists
  /\ exists' = TRUE /\ attached' = {p} /\ primaryPid' = Nobody
Attaches(p) ==
  /\ exists
  /\ attached' = attached \cup {p}
  /\ UNCHANGED <<exists, primaryPid>>
Detaches(p) ==
  /\ attached' = attached \ {p}
  /\ exists' = (exists /\ attached' # {})
  /\ UNCHANGED primaryPid

CreatesOr(p, otherwise) ==
  \/ Creates(p) /\ Goes(p, "created")
  \/ exists /\ Goes(p, otherwise) /\ UNCHANGED segment
AttachesOr(p, next, otherwise) ==
  \/ Attaches(p) /\ Goes(p, next)
  \/ ~exists /\ Goes(p, otherwise) /\ UNCHANGED segment

-----------------------------------------------------------------------------
(* ApplicationSingleton.                                                   *)

Start(p) ==
  /\ pc[p] = "off"
  /\ CreatesOr(p, "attach")
  /\ alone' = [q \in Process |-> IF q = p THEN Alive = {} ELSE alone[q] /\ q \notin Alive]
  /\ UNCHANGED <<listening, store>>

Attach(p) ==
  /\ pc[p] = "attach"
  /\ AttachesOr(p, "probe", "attachAgain")
  /\ UNCHANGED <<listening, store, alone>>

\* Mutant of Probe: where there is a segment, there is a primary.
ProbeTrusting(p) ==
  /\ pc[p] = "probe"
  /\ Goes(p, "secondary")
  /\ UNCHANGED <<segment, listening, store, alone>>

\* The primary is looked for by its process id; a new one has not written it yet.
Probe(p) ==
  /\ pc[p] = "probe"
  /\ IF primaryPid \in Alive
     THEN Goes(p, "secondary") /\ UNCHANGED segment
     ELSE Goes(p, "reclaim") /\ Detaches(p)
  /\ UNCHANGED <<listening, store, alone>>

\* Mutant of Reclaim: the segment is taken from under whoever else is attached.
ReclaimByForce(p) ==
  /\ pc[p] = "reclaim"
  /\ exists' = TRUE /\ attached' = {p} /\ primaryPid' = Nobody
  /\ Goes(p, "created")
  /\ UNCHANGED <<listening, store, alone>>

\* Mutant: it goes back to the first attempt.
ReclaimAgain(p) ==
  /\ pc[p] = "reclaim"
  /\ CreatesOr(p, "attach")
  /\ UNCHANGED <<listening, store, alone>>

\* A backing file is removed, whoever uses it; then the segment is created anew.
Reclaim(p) ==
  /\ pc[p] = "reclaim"
  /\ IF BackingFile
     THEN exists' = TRUE /\ attached' = {p} /\ primaryPid' = Nobody /\ Goes(p, "created")
     ELSE CreatesOr(p, "attachAgain")
  /\ UNCHANGED <<listening, store, alone>>

AttachAgain(p) ==
  /\ pc[p] = "attachAgain"
  /\ AttachesOr(p, "secondary", "createAgain")
  /\ UNCHANGED <<listening, store, alone>>

CreateAgain(p) ==
  /\ pc[p] = "createAgain"
  /\ CreatesOr(p, "failed")
  /\ UNCHANGED <<listening, store, alone>>

\* setupPrimary.
WritePid(p) ==
  /\ pc[p] = "created"
  /\ primaryPid' = p
  /\ Goes(p, "named")
  /\ UNCHANGED <<exists, attached, listening, store, alone>>
Listen(p) ==
  /\ pc[p] = "named"
  /\ listening' = p
  /\ Goes(p, "load")
  /\ UNCHANGED <<segment, store, alone>>

\* sendMessage, or its failure; then the process is over.
Send(p) ==
  /\ pc[p] = "secondary"
  /\ Goes(p, IF listening # Nobody THEN "ended" ELSE "failed")
  /\ Detaches(p)
  /\ UNCHANGED <<listening, store, alone>>

-----------------------------------------------------------------------------
(* Session.                                                                *)

\* Mutant of Load: the old settings are not read.
LoadFileOnly(p) ==
  /\ pc[p] = "load"
  /\ session' = [session EXCEPT ![p] = IF file = "user" THEN "user" ELSE "default"]
  /\ Goes(p, "running")
  /\ UNCHANGED <<segment, listening, file, legacy, saved, torn, alone>>

\* load: a file that cannot be parsed means the defaults.
Load(p) ==
  /\ pc[p] = "load"
  /\ \/ /\ file # "none"
        /\ session' = [session EXCEPT ![p] = IF file = "user" THEN "user" ELSE "default"]
        /\ Goes(p, "running")
     \/ /\ file = "none" /\ legacy
        /\ session' = [session EXCEPT ![p] = "user"]
        /\ Goes(p, "migrate")
     \/ /\ file = "none" /\ ~legacy
        /\ Goes(p, "running") /\ UNCHANGED session
  /\ UNCHANGED <<segment, listening, file, legacy, saved, torn, alone>>

\* saveToFile truncates the file, writes it, and removes it if that fails.
Truncate(p) ==
  /\ pc[p] \in {"migrate", "save"}
  /\ \/ file' = "partial" /\ Goes(p, IF pc[p] = "migrate" THEN "write" ELSE "rewrite")
     \/ UNCHANGED file /\ Goes(p, IF pc[p] = "migrate" THEN "running" ELSE "exit")
  /\ saved' = (saved \/ pc[p] = "save")
  /\ UNCHANGED <<segment, listening, session, legacy, torn, alone>>

\* Mutant: the keys go whether the file was written or not.
WriteOrNot(p, ok) ==
  /\ pc[p] \in {"write", "rewrite"}
  /\ file' = IF ok THEN session[p] ELSE "none"
  /\ torn' = (torn \/ (~ok /\ pc[p] = "rewrite"))
  /\ Goes(p, IF pc[p] = "rewrite" THEN "exit" ELSE "forget")
  /\ UNCHANGED <<segment, listening, session, legacy, saved, alone>>

Write(p, ok) ==
  /\ pc[p] \in {"write", "rewrite"}
  /\ file' = IF ok THEN session[p] ELSE "none"
  /\ torn' = (torn \/ (~ok /\ pc[p] = "rewrite"))
  /\ Goes(p, IF pc[p] = "rewrite" THEN "exit" ELSE IF ok THEN "forget" ELSE "running")
  /\ UNCHANGED <<segment, listening, session, legacy, saved, alone>>

\* Migration is complete: the legacy keys go.
Forget(p) ==
  /\ pc[p] = "forget"
  /\ legacy' = FALSE
  /\ Goes(p, "running")
  /\ UNCHANGED <<segment, listening, session, file, saved, torn, alone>>

-----------------------------------------------------------------------------
(* The end of a process.                                                   *)

Quit(p) ==
  /\ pc[p] = "running"
  /\ Goes(p, "save")
  /\ UNCHANGED <<segment, listening, store, alone>>

Exit(p) ==
  /\ pc[p] = "exit"
  /\ Goes(p, "ended")
  /\ Detaches(p)
  /\ listening' = IF listening = p THEN Nobody ELSE listening
  /\ UNCHANGED <<store, alone>>

\* The system detaches a process that crashes, and keeps the segment.
Crash(p) ==
  /\ p \in Alive
  /\ Goes(p, "crashed")
  /\ attached' = attached \ {p}
  /\ listening' = IF listening = p THEN Nobody ELSE listening
  /\ torn' = (torn \/ pc[p] \in {"write", "rewrite"})
  /\ UNCHANGED <<exists, primaryPid, session, file, legacy, saved, alone>>

Step(p) ==
  \/ Start(p) \/ Attach(p) \/ Probe(p) \/ Reclaim(p) \/ AttachAgain(p) \/ CreateAgain(p)
  \/ WritePid(p) \/ Listen(p) \/ Send(p)
  \/ Load(p) \/ Truncate(p) \/ Forget(p) \/ \E ok \in BOOLEAN : Write(p, ok)
  \/ Quit(p) \/ Exit(p)

AllOver == Alive = {} /\ UNCHANGED vars
Next == (\E p \in Process : Step(p) \/ Crash(p)) \/ AllOver

Spec == Init /\ [][Next]_vars
\* A process that does not crash gets on with its start.
FairSpec == Spec /\ \A p \in Process : WF_vars(Step(p) /\ ~Quit(p))

-----------------------------------------------------------------------------
(* Properties.                                                             *)

\* At most one living process takes itself for the primary one, however starts,
\* crashes and exits interleave, so one process reads and writes the session.
OnePrimary == Cardinality({p \in Process : pc[p] \in Primary}) <= 1

\* A process that starts by itself becomes the primary, whatever crashed before:
\* it neither fails nor sends its query to nobody.
LoneStartSucceeds == \A p \in Process : alone[p] => pc[p] \notin {"failed", "secondary"}

\* The legacy keys go only once the file holds what they held.
MigrationKeeps == ~legacy /\ ~saved => file = "user"

\* The user's windows are replaced by the defaults only after a crash in the
\* middle of the file or a write that failed.
SessionKept == file = "default" => torn

\* A start ends in a running program, in a delivered query or in an error.
StartsEnd ==
  \A p \in Process : pc[p] \in Starting \cup {"created", "named", "load"} ~>
    pc[p] \in {"running", "ended", "failed", "crashed"}
====
