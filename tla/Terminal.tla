------------------------------ MODULE Terminal ------------------------------
(* The developer terminal: the panel that asks before it starts or replaces  *)
(* a session, the pseudo-terminal backend that signals and collects shells,   *)
(* and the bridge that batches their output for the web frontend.  Everything *)
(* runs in the GUI thread, but its message boxes run event loops of their own *)
(* in which windows are shown, timers fire and shells exit.                   *)
(* A shell never has the process id of one before it, and waitpid never fails *)
(* on a shell that has not been collected.                                    *)
EXTENDS Naturals, Sequences, FiniteSets

CONSTANTS
  MaxSessions,   \* shells started in a run of the program
  MaxOutput,     \* chunks a shell writes
  MaxPending,    \* MaxPendingBytes, in chunks
  MaxInput,      \* input waiting at once
  MaxBoxes       \* message boxes open at once

ASSUME TerminalAssumption ==
  /\ {MaxSessions, MaxOutput, MaxPending, MaxInput, MaxBoxes} \subseteq Nat \ {0}

Session == 1 .. MaxSessions

VARIABLES
  phase,          \* each shell: unborn, running, exited (a zombie) or collected
  signalled,      \* the signals each shell was sent
  written,        \* chunks each shell has written
  unread,         \* of those, the ones in its terminal's buffer
  pid,            \* m_pid, 0 for none; m_masterFd and the notifiers go with it
  timers,         \* the single shots of terminate
  pendingWrites,  \* m_pendingWrites, each piece with the session it was typed for
  reported,       \* how often the exit of each shell was reported
  pendingOutput,  \* chunks in m_pendingOutput
  flushScheduled, ready,        \* of the bridge
  autoStart, attempted, acknowledged,  \* m_autoStartPending, m_sessionAttempted
  startPosted,    \* the single shot of showEvent
  boxes,          \* message boxes, the last one on top
  status, stopEnabled,          \* what the panel shows
  closed          \* the backend has been destroyed

shells == <<phase, signalled, written, unread>>
bridge == <<pendingOutput, flushScheduled, ready>>
asking == <<autoStart, attempted, acknowledged, startPosted, boxes>>
shown == <<status, stopEnabled>>
\* What starting a session changes, but for boxes, and what it leaves alone.
session == <<phase, signalled, pid, timers, pendingWrites, reported, autoStart, attempted, shown>>
rest == <<written, unread, pendingOutput, closed>>
vars == <<shells, pid, timers, pendingWrites, reported, bridge, asking, shown, closed>>

Box == {"acknowledgePending", "acknowledgeNew", "replace"}
Timer == [signal : {"TERM", "KILL"}, pid : Session]

TypeOK ==
  /\ phase \in [Session -> {"unborn", "running", "exited", "collected"}]
  /\ signalled \in [Session -> SUBSET {"HUP", "TERM", "KILL"}]
  /\ written \in [Session -> 0 .. MaxOutput]
  /\ unread \in [Session -> 0 .. MaxOutput]
  /\ pid \in Session \cup {0}
  /\ timers \subseteq Timer
  /\ pendingWrites \in Seq(Session) /\ Len(pendingWrites) <= MaxInput
  /\ reported \in [Session -> Nat]
  /\ pendingOutput \in 0 .. MaxPending
  /\ {flushScheduled, ready, autoStart, attempted, acknowledged, startPosted} \subseteq BOOLEAN
  /\ boxes \in Seq(Box) /\ Len(boxes) <= MaxBoxes
  /\ status \in {"Not started", "Running", "Exited", "Error", "Failed"}
  /\ stopEnabled \in BOOLEAN
  /\ closed \in BOOLEAN

\* The user may have acknowledged the warning in an earlier run.
Init ==
  /\ phase = [s \in Session |-> "unborn"]
  /\ signalled = [s \in Session |-> {}]
  /\ written = [s \in Session |-> 0] /\ unread = [s \in Session |-> 0]
  /\ pid = 0
  /\ timers = {}
  /\ pendingWrites = <<>>
  /\ reported = [s \in Session |-> 0]
  /\ pendingOutput = 0 /\ flushScheduled = FALSE /\ ready = FALSE
  /\ autoStart = FALSE /\ attempted = FALSE /\ acknowledged \in BOOLEAN
  /\ startPosted = FALSE
  /\ boxes = <<>>
  /\ status = "Not started" /\ stopEnabled = FALSE
  /\ closed = FALSE

-----------------------------------------------------------------------------
(* The shells.  A shell may ignore HUP and TERM, and may exit at any time.   *)

ShellWrites(s) ==
  /\ phase[s] = "running" /\ written[s] < MaxOutput
  /\ written' = [written EXCEPT ![s] = @ + 1]
  /\ unread' = [unread EXCEPT ![s] = @ + 1]
  /\ UNCHANGED <<phase, signalled, pid, timers, pendingWrites, reported, bridge, asking, shown, closed>>

ShellExits(s) ==
  /\ phase[s] = "running"
  /\ phase' = [phase EXCEPT ![s] = "exited"]
  /\ UNCHANGED <<signalled, written, unread, pid, timers, pendingWrites, reported, bridge,
                 asking, shown, closed>>

-----------------------------------------------------------------------------
(* The backend.                                                            *)

\* cleanup closes the terminal, with what is unread, and forgets what is unsent.
Cleanup == pid' = 0 /\ pendingWrites' = <<>>

Signals(s, signal) == signalled' = [signalled EXCEPT ![s] = @ \cup {signal}]
Escalation(s) == {[signal |-> "TERM", pid |-> s], [signal |-> "KILL", pid |-> s]}

\* Mutant of Terminate: no KILL follows.
TerminateGently ==
  /\ Signals(pid, "HUP")
  /\ timers' = timers \cup {[signal |-> "TERM", pid |-> pid]}
\* terminate: HUP now, TERM and KILL from timers.
Terminate ==
  /\ Signals(pid, "HUP")
  /\ timers' = timers \cup Escalation(pid)

\* A timer signals only the process it was set for.
TimerFires(t) ==
  /\ t \in timers
  /\ t.signal = "KILL" /\ pid = t.pid => "TERM" \in signalled[pid]
  /\ timers' = timers \ {t}
  /\ IF pid = t.pid THEN Signals(pid, t.signal) ELSE UNCHANGED signalled
  /\ UNCHANGED <<phase, written, unread, pid, pendingWrites, reported, bridge, asking, shown, closed>>

ScheduleFlush(output) == flushScheduled' = (flushScheduled \/ (ready /\ output > 0))

\* Mutant: what waits for the frontend is not bounded.
ReadUncapped ==
  /\ pid # 0 /\ unread[pid] > 0
  /\ unread' = [unread EXCEPT ![pid] = 0]
  /\ pendingOutput' = pendingOutput + unread[pid]
  /\ ScheduleFlush(1)
  /\ UNCHANGED <<phase, signalled, written, pid, timers, pendingWrites, reported, ready,
                 asking, shown, closed>>
\* readAvailable reads all there is; enqueueOutput keeps the newest of it.
ReadAvailable ==
  /\ pid # 0 /\ unread[pid] > 0
  /\ unread' = [unread EXCEPT ![pid] = 0]
  /\ pendingOutput' = IF pendingOutput + unread[pid] > MaxPending THEN MaxPending
                      ELSE pendingOutput + unread[pid]
  /\ ScheduleFlush(1)
  /\ UNCHANGED <<phase, signalled, written, pid, timers, pendingWrites, reported, ready,
                 asking, shown, closed>>

\* write and flushWrites: all of it is sent, or it must wait, or it fails.
Flushed(input, outcome) ==
  /\ pendingWrites' = IF outcome = "blocked" THEN input ELSE <<>>
  /\ status' = IF outcome = "failed" THEN "Error" ELSE status

Write(outcome) ==
  /\ pid # 0 /\ ready
  /\ Len(pendingWrites) < MaxInput
  /\ Flushed(Append(pendingWrites, pid), outcome)
  /\ UNCHANGED <<shells, pid, timers, reported, bridge, asking, stopEnabled, closed>>

FlushWrites(outcome) ==
  /\ pid # 0 /\ pendingWrites # <<>>
  /\ Flushed(pendingWrites, outcome)
  /\ UNCHANGED <<shells, pid, timers, reported, bridge, asking, stopEnabled, closed>>

\* resize can fail too.
ResizeFails ==
  /\ pid # 0
  /\ status' = "Error"
  /\ UNCHANGED <<shells, pid, timers, pendingWrites, reported, bridge, asking, stopEnabled, closed>>

\* reapChild, every 20 ms: what the shell wrote last may still be unread.
ReapChild ==
  /\ pid # 0 /\ phase[pid] = "exited"
  /\ phase' = [phase EXCEPT ![pid] = "collected"]
  /\ reported' = [reported EXCEPT ![pid] = @ + 1]
  /\ status' = "Exited" /\ stopEnabled' = FALSE
  /\ Cleanup
  /\ UNCHANGED <<signalled, written, unread, timers, bridge, asking, closed>>

\* The destructor waits for the shell, with signal after signal, and tells nobody.
Destroy ==
  /\ ~closed /\ boxes = <<>>
  /\ closed' = TRUE
  /\ phase' = IF pid = 0 THEN phase ELSE [phase EXCEPT ![pid] = "collected"]
  /\ timers' = {}
  /\ Cleanup
  /\ UNCHANGED <<signalled, written, unread, reported, bridge, asking, shown>>

-----------------------------------------------------------------------------
(* Starting a session.                                                     *)

Born == {s \in Session : phase[s] # "unborn"}
Fresh == Cardinality(Born) + 1

\* The shell or the directory is not there; no pseudo-terminal; or all is well.
Outcome == {"invalid", "noTerminal", "started"}

\* Mutants of Replaced: the exit of the old shell is not reported; the old shell
\* is left to the timers.
ReplacedQuietly(outcome) ==
  /\ phase' = [s \in Session |->
                 IF s = pid THEN "collected"
                 ELSE IF outcome = "started" /\ s = Fresh THEN "running" ELSE phase[s]]
  /\ UNCHANGED reported
ReplacedLater(outcome) ==
  /\ phase' = IF outcome = "started" THEN [phase EXCEPT ![Fresh] = "running"] ELSE phase
  /\ UNCHANGED reported

\* start waits for the running shell, then forks.
Replaced(outcome) ==
  /\ phase' = [s \in Session |->
                 IF s = pid THEN "collected"
                 ELSE IF outcome = "started" /\ s = Fresh THEN "running" ELSE phase[s]]
  /\ reported' = IF pid = 0 THEN reported ELSE [reported EXCEPT ![pid] = @ + 1]

\* The end of startSession, after its questions.
StartsSession(outcome) ==
  /\ Fresh \in Session
  /\ autoStart' = FALSE /\ attempted' = TRUE
  /\ IF pid = 0 THEN UNCHANGED <<signalled, timers>> ELSE Terminate
  /\ IF outcome = "invalid"
     THEN /\ status' = "Failed"
          /\ UNCHANGED <<phase, pid, pendingWrites, reported, stopEnabled>>
     ELSE /\ Replaced(outcome)
          /\ pid' = IF outcome = "started" THEN Fresh ELSE 0
          /\ pendingWrites' = <<>>
          /\ status' = IF outcome = "started" THEN "Running" ELSE "Failed"
          /\ stopEnabled' = (outcome = "started")

Asks(stack, box) ==
  /\ Len(stack) < MaxBoxes
  /\ boxes' = Append(stack, box)
  /\ UNCHANGED session

\* startSession(true) once the warning has been acknowledged.
ConfirmsReplacement(stack, outcome) ==
  IF pid # 0 THEN Asks(stack, "replace")
  ELSE StartsSession(outcome) /\ boxes' = stack

\* startPendingSession.
StartsPending(isReady, outcome) ==
  IF ~autoStart \/ ~isReady \/ pid # 0 THEN UNCHANGED <<session, boxes>>
  ELSE IF acknowledged THEN StartsSession(outcome) /\ UNCHANGED boxes
  ELSE Asks(boxes, "acknowledgePending")

-----------------------------------------------------------------------------
(* The panel.                                                              *)

\* showEvent, if sessions start when the terminal is opened.
Show ==
  /\ ~closed
  /\ pid = 0 /\ ~attempted
  /\ autoStart' = TRUE /\ startPosted' = TRUE
  /\ UNCHANGED <<shells, pid, timers, pendingWrites, reported, bridge, attempted, acknowledged,
                 boxes, shown, closed>>

StartPendingSession(outcome) ==
  /\ ~closed /\ startPosted
  /\ startPosted' = FALSE
  /\ StartsPending(ready, outcome)
  /\ UNCHANGED <<rest, acknowledged, flushScheduled, ready>>

\* Mutant: what came before the frontend waits for more to come.
FrontendReadyForMore(outcome) ==
  /\ ~closed /\ ~ready
  /\ ready' = TRUE
  /\ StartsPending(TRUE, outcome)
  /\ UNCHANGED <<rest, acknowledged, startPosted, flushScheduled>>

\* frontendReady: the view's handler starts the session, then output is flushed.
FrontendReady(outcome) ==
  /\ ~closed /\ ~ready
  /\ ready' = TRUE
  /\ StartsPending(TRUE, outcome)
  /\ flushScheduled' = (flushScheduled \/ pendingOutput > 0)
  /\ UNCHANGED <<rest, acknowledged, startPosted>>

\* The buttons; a message box keeps the user from them.
NewSession(outcome) ==
  /\ ~closed /\ boxes = <<>>
  /\ IF acknowledged THEN ConfirmsReplacement(boxes, outcome) ELSE Asks(boxes, "acknowledgeNew")
  /\ UNCHANGED <<rest, acknowledged, startPosted, flushScheduled, ready>>

Stop ==
  /\ boxes = <<>> /\ stopEnabled /\ pid # 0
  /\ Terminate
  /\ UNCHANGED <<phase, written, unread, pid, pendingWrites, reported, bridge, asking, shown, closed>>

\* The box on top is answered; the code that opened it goes on.
AnswerBox(yes, outcome) ==
  /\ boxes # <<>>
  /\ LET box == boxes[Len(boxes)]
         stack == SubSeq(boxes, 1, Len(boxes) - 1)
     IN  /\ acknowledged' = (acknowledged \/ (yes /\ box # "replace"))
         /\ \/ /\ yes /\ box = "acknowledgeNew"
               /\ ConfirmsReplacement(stack, outcome)
            \/ /\ yes /\ box # "acknowledgeNew"
               /\ StartsSession(outcome) /\ boxes' = stack
            \/ /\ ~yes /\ boxes' = stack
               /\ autoStart' = (autoStart /\ box # "acknowledgePending")
               /\ UNCHANGED <<phase, signalled, pid, timers, pendingWrites, reported, attempted, shown>>
  /\ UNCHANGED <<rest, startPosted, flushScheduled, ready>>

FlushOutput ==
  /\ flushScheduled
  /\ flushScheduled' = FALSE
  /\ pendingOutput' = IF ready THEN 0 ELSE pendingOutput
  /\ UNCHANGED <<shells, pid, timers, pendingWrites, reported, ready, asking, shown, closed>>

Closed == closed /\ UNCHANGED vars

Shells == \E s \in Session : ShellWrites(s) \/ ShellExits(s)
Backend ==
  \/ \E t \in timers : TimerFires(t)
  \/ \E o \in {"sent", "blocked", "failed"} : Write(o) \/ FlushWrites(o)
  \/ ReadAvailable \/ ResizeFails \/ ReapChild \/ Destroy
Panel ==
  \/ Show \/ Stop \/ FlushOutput
  \/ \E o \in Outcome :
       \/ StartPendingSession(o) \/ FrontendReady(o) \/ NewSession(o)
       \/ \E yes \in BOOLEAN : AnswerBox(yes, o)

Next == Shells \/ Backend \/ Panel \/ Closed

Spec == Init /\ [][Next]_vars

\* Timers fire, the notifier and the reaper run, and KILL cannot be ignored.
DiesOfKill == \E s \in Session : "KILL" \in signalled[s] /\ ShellExits(s)
FairSpec ==
  /\ Spec
  /\ (\A t \in Timer : WF_vars(TimerFires(t))) /\ WF_vars(ReapChild) /\ WF_vars(FlushOutput)
  /\ WF_vars(DiesOfKill)

-----------------------------------------------------------------------------
(* Properties.                                                             *)

\* At most one shell runs or waits to be collected, the one of m_pid, which the
\* panel offers to stop and all waiting input was typed for: no shell is lost by a
\* replacement, none outlives the backend, and none gets what was meant for another.
OneShell ==
  /\ \A s \in Session : phase[s] \in {"running", "exited"} <=> pid = s
  /\ ~closed => (stopEnabled <=> pid # 0)
  /\ \A i \in DOMAIN pendingWrites : pendingWrites[i] = pid

\* The exit of a shell is reported once, when it is collected, except to nobody
\* by the destructor.
ExitReportedOnce ==
  /\ \A s \in Session : reported[s] = 1 => phase[s] = "collected"
  /\ \A s \in Session : reported[s] <= 1
  /\ ~closed => \A s \in Session : phase[s] = "collected" => reported[s] = 1

\* Once asked to stop, a shell is collected even if it ignores the first signals.
Stopping(s) == pid = s /\ "HUP" \in signalled[s]
StopEnds == \A s \in Session : Stopping(s) ~> pid # s

\* What a shell wrote reaches the frontend once that is ready.
OutputShown == (ready /\ pendingOutput > 0) ~> (pendingOutput = 0)
=============================================================================
