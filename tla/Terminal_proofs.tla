--------------------------- MODULE Terminal_proofs ---------------------------
(* One shell, and one report of its exit, for any number of sessions, chunks *)
(* and boxes.                                                                *)
EXTENDS Terminal, SequenceTheorems, FiniteSetTheorems, TLAPS

\* Sessions are numbered in the order they are started.
InOrder == Born = 1 .. Cardinality(Born)

\* Nothing is left of a destroyed backend.
Shut == closed => pid = 0 /\ boxes = <<>>

\* The type invariant, in parts.
ShellsOK ==
  /\ phase \in [Session -> {"unborn", "running", "exited", "collected"}]
  /\ signalled \in [Session -> SUBSET {"HUP", "TERM", "KILL"}]
  /\ written \in [Session -> 0 .. MaxOutput]
  /\ unread \in [Session -> 0 .. MaxOutput]
  /\ pid \in Session \cup {0}
  /\ timers \subseteq Timer
  /\ reported \in [Session -> Nat]
InputOK  == pendingWrites \in Seq(Session) /\ Len(pendingWrites) <= MaxInput
BridgeOK == pendingOutput \in 0 .. MaxPending /\ flushScheduled \in BOOLEAN /\ ready \in BOOLEAN
AskingOK ==
  /\ autoStart \in BOOLEAN /\ attempted \in BOOLEAN /\ acknowledged \in BOOLEAN /\ startPosted \in BOOLEAN
  /\ boxes \in Seq(Box) /\ Len(boxes) <= MaxBoxes
ShownOK ==
  /\ status \in {"Not started", "Running", "Exited", "Error", "Failed"}
  /\ stopEnabled \in BOOLEAN
  /\ closed \in BOOLEAN

Inv ==
  /\ ShellsOK /\ InputOK /\ BridgeOK /\ AskingOK /\ ShownOK
  /\ \A s \in Session : unread[s] <= written[s]
  /\ Shut
  /\ InOrder
  /\ OneShell
  /\ ExitReportedOnce

-----------------------------------------------------------------------------
(* The next session is a new one.                                            *)

LEMMA SessionNat == Session \subseteq Nat /\ 0 \notin Session /\ MaxSessions \in Nat
  BY TerminalAssumption DEF Session

LEMMA FreshUnborn ==
  ASSUME ShellsOK, InOrder
  PROVE  /\ Fresh \in Nat /\ Fresh \notin Born
         /\ Born \cup {Fresh} = 1 .. Fresh
         /\ IsFiniteSet(Born)
<1>1. IsFiniteSet(Born)
  <2>1. IsFiniteSet(Session) /\ Born \subseteq Session
    BY SessionNat, FS_Interval DEF Session, Born
  <2> QED BY <2>1, FS_Subset
<1>2. Cardinality(Born) \in Nat
  BY <1>1, FS_CardinalityType
<1> QED BY <1>1, <1>2 DEF InOrder, Fresh

\* A start adds the next session, or none.
LEMMA StillInOrder ==
  ASSUME ShellsOK, InOrder, Born' = Born \/ Born' = Born \cup {Fresh}
  PROVE  InOrder'
<1>1. CASE Born' = Born
  BY <1>1 DEF InOrder
<1>2. CASE Born' = Born \cup {Fresh}
  <2>1. Born' = 1 .. Fresh /\ Fresh \in Nat
    BY <1>2, FreshUnborn
  <2>2. Cardinality(Born') = Fresh
    BY <2>1, FS_Interval
  <2> QED BY <2>1, <2>2 DEF InOrder
<1> QED BY <1>1, <1>2

LEMMA SamePhases ==
  ASSUME InOrder, UNCHANGED phase
  PROVE  InOrder'
  BY DEF InOrder, Born

-----------------------------------------------------------------------------
(* Each step.                                                                *)

LEMMA InitInv == Init => Inv
<1> SUFFICES ASSUME Init PROVE Inv
  OBVIOUS
<1> USE SessionNat
<1>1. ShellsOK
  <2>1. 0 \in 0 .. MaxOutput
    BY TerminalAssumption
  <2> QED BY <2>1 DEF Init, ShellsOK
<1>2. InputOK /\ BridgeOK /\ AskingOK /\ ShownOK
  <2>1. /\ 0 <= MaxInput /\ 0 <= MaxBoxes /\ 0 \in 0 .. MaxPending
    BY TerminalAssumption
  <2>2. /\ pendingWrites \in Seq(Session) /\ Len(pendingWrites) = 0
        /\ boxes \in Seq(Box) /\ Len(boxes) = 0
    BY EmptySeq DEF Init
  <2> QED BY <2>1, <2>2 DEF Init, InputOK, BridgeOK, AskingOK, ShownOK
<1>3. InOrder
  <2>1. Born = {}
    BY DEF Init, Born
  <2> QED BY <2>1, FS_EmptySet DEF InOrder
<1>4. pid = 0 /\ boxes = <<>> /\ ~closed /\ ~stopEnabled /\ pendingWrites = <<>>
  BY DEF Init
<1>5. \A s \in Session : /\ phase[s] = "unborn" /\ reported[s] = 0
                         /\ unread[s] = 0 /\ written[s] = 0
  BY DEF Init
<1>6. OneShell
  BY <1>4, <1>5, EmptySeq DEF OneShell
<1>7. ExitReportedOnce /\ Shut /\ \A s \in Session : unread[s] <= written[s]
  BY <1>4, <1>5 DEF ExitReportedOnce, Shut
<1> QED BY <1>1, <1>2, <1>3, <1>6, <1>7 DEF Inv

\* A step that leaves the shells, m_pid and the panel's button as they are.
LEMMA SameShell ==
  ASSUME Inv, UNCHANGED <<phase, pid, stopEnabled, reported, closed>>,
         closed => boxes' = <<>>,
         \A i \in DOMAIN pendingWrites' : pendingWrites'[i] = pid
  PROVE  Shut' /\ InOrder' /\ OneShell' /\ ExitReportedOnce'
<1>1. Shut'
  BY DEF Inv, Shut
<1>2. InOrder'
  BY SamePhases DEF Inv
<1>3. OneShell' /\ ExitReportedOnce'
  BY DEF Inv, OneShell, ExitReportedOnce
<1> QED BY <1>1, <1>2, <1>3

LEMMA ShellsInv == ASSUME Inv, Shells PROVE Inv'
<1> PICK s \in Session : ShellWrites(s) \/ ShellExits(s)
  BY DEF Shells
<1>1. InputOK' /\ BridgeOK' /\ AskingOK' /\ ShownOK'
  <2>1. UNCHANGED <<pendingWrites, pendingOutput, flushScheduled, ready, autoStart, attempted,
                    acknowledged, startPosted, boxes, status, stopEnabled, closed>>
    BY DEF ShellWrites, ShellExits, bridge, asking, shown
  <2>2. InputOK /\ BridgeOK /\ AskingOK /\ ShownOK
    BY DEF Inv
  <2>3. InputOK' /\ BridgeOK'
    BY <2>1, <2>2 DEF InputOK, BridgeOK
  <2>4. AskingOK' /\ ShownOK'
    BY <2>1, <2>2 DEF AskingOK, ShownOK
  <2> QED BY <2>3, <2>4
<1>2. CASE ShellWrites(s)
  <2>1. /\ written[s] \in Nat /\ unread[s] \in Nat /\ unread[s] <= written[s] /\ written[s] < MaxOutput
        /\ MaxOutput \in Nat
    BY <1>2, TerminalAssumption DEF Inv, ShellsOK, ShellWrites
  <2>2. written[s] + 1 \in 0 .. MaxOutput /\ unread[s] + 1 \in 0 .. MaxOutput /\ unread[s] + 1 <= written[s] + 1
    BY <2>1
  <2>3. ShellsOK' /\ \A t \in Session : unread'[t] <= written'[t]
    BY <1>2, <2>2 DEF Inv, ShellsOK, ShellWrites
  <2>4. Shut' /\ InOrder' /\ OneShell' /\ ExitReportedOnce'
    BY <1>2, SameShell DEF ShellWrites, asking, shown, Inv, Shut, OneShell
  <2> QED BY <1>1, <2>3, <2>4 DEF Inv
<1>3. CASE ShellExits(s)
  <2>1. ShellsOK' /\ (\A t \in Session : unread'[t] <= written'[t]) /\ Shut'
    BY <1>3 DEF Inv, ShellsOK, Shut, ShellExits, asking
  <2>2. Born' = Born
    BY <1>3 DEF ShellExits, Born, Inv, ShellsOK
  <2>3. OneShell' /\ ExitReportedOnce'
    BY <1>3 DEF ShellExits, Inv, ShellsOK, OneShell, ExitReportedOnce, shown
  <2> QED BY <1>1, <2>1, <2>2, <2>3, StillInOrder DEF Inv
<1> QED BY <1>2, <1>3

\* Asking the shell to end.
LEMMA TerminateType ==
  ASSUME ShellsOK, pid # 0, Terminate
  PROVE  /\ signalled' \in [Session -> SUBSET {"HUP", "TERM", "KILL"}]
         /\ timers' \subseteq Timer
<1>1. pid \in Session
  BY DEF ShellsOK
<1>2. Escalation(pid) \subseteq Timer
  BY <1>1 DEF Escalation, Timer
<1> QED BY <1>1, <1>2 DEF Terminate, Signals, ShellsOK

\* What is sent, or waits to be, was typed for the shell of m_pid.
LEMMA FlushedInput ==
  ASSUME NEW input \in Seq(Session), Len(input) <= MaxInput, NEW o \in {"sent", "blocked", "failed"},
         \A i \in DOMAIN input : input[i] = pid, Flushed(input, o), ShownOK, UNCHANGED <<stopEnabled, closed>>
  PROVE  InputOK' /\ ShownOK' /\ \A i \in DOMAIN pendingWrites' : pendingWrites'[i] = pid
<1>1. 0 <= MaxInput
  BY TerminalAssumption
<1>2. CASE pendingWrites' = input
  BY <1>2 DEF InputOK, ShownOK, Flushed
<1>3. CASE pendingWrites' = <<>>
  <2>1. <<>> \in Seq(Session) /\ Len(<<>>) = 0 /\ DOMAIN <<>> = {}
    BY EmptySeq
  <2> QED BY <1>1, <1>3, <2>1 DEF InputOK, ShownOK, Flushed
<1> QED BY <1>2, <1>3 DEF Flushed

\* Collecting the shell of m_pid.
LEMMA Collected ==
  ASSUME Inv, pid # 0, phase' = [phase EXCEPT ![pid] = "collected"], Cleanup
  PROVE  /\ pid \in Session /\ phase[pid] \in {"running", "exited"} /\ reported[pid] = 0
         /\ \A s \in Session : phase'[s] \notin {"running", "exited"}
         /\ InputOK' /\ InOrder' /\ pendingWrites' = <<>>
         /\ phase' \in [Session -> {"unborn", "running", "exited", "collected"}]
<1>1. pid \in Session /\ phase[pid] \in {"running", "exited"}
  BY DEF Inv, ShellsOK, OneShell
<1>2. reported[pid] \in Nat /\ reported[pid] <= 1 /\ reported[pid] # 1
  BY <1>1 DEF Inv, ShellsOK, ExitReportedOnce
<1>3. \A s \in Session : phase'[s] \notin {"running", "exited"}
  BY <1>1 DEF Inv, ShellsOK, OneShell
<1>4. Born' = Born
  BY <1>1 DEF Inv, ShellsOK, Born
<1>5. 0 <= MaxInput /\ <<>> \in Seq(Session) /\ Len(<<>>) = 0
  BY TerminalAssumption, EmptySeq
<1>6. pendingWrites' = <<>> /\ InputOK'
  BY <1>5 DEF Cleanup, InputOK
<1>7. InOrder' /\ phase' \in [Session -> {"unborn", "running", "exited", "collected"}]
  BY <1>1, <1>4, StillInOrder DEF Inv, ShellsOK
<1> QED BY <1>1, <1>2, <1>3, <1>6, <1>7

LEMMA BackendInv == ASSUME Inv, Backend PROVE Inv'
<1>1. ASSUME NEW t \in timers, TimerFires(t) PROVE Inv'
  <2>1. t \in Timer
    BY DEF Inv, ShellsOK
  <2>2. ShellsOK'
    <3>1. timers' \subseteq Timer
      BY <1>1 DEF TimerFires, Inv, ShellsOK
    <3>2. signalled' \in [Session -> SUBSET {"HUP", "TERM", "KILL"}]
      <4>1. t.signal \in {"HUP", "TERM", "KILL"} /\ t.pid \in Session
        BY <2>1 DEF Timer
      <4> QED BY <1>1, <4>1 DEF TimerFires, Signals, Inv, ShellsOK
    <3> QED BY <1>1, <3>1, <3>2 DEF TimerFires, Inv, ShellsOK
  <2>3. InputOK' /\ BridgeOK' /\ AskingOK' /\ ShownOK' /\ \A s \in Session : unread'[s] <= written'[s]
    <3>1. InputOK' /\ BridgeOK' /\ \A s \in Session : unread'[s] <= written'[s]
      BY <1>1 DEF TimerFires, Inv, InputOK, BridgeOK, bridge
    <3>2. AskingOK' /\ ShownOK'
      BY <1>1 DEF TimerFires, Inv, AskingOK, ShownOK, asking, shown
    <3> QED BY <3>1, <3>2
  <2>4. Shut' /\ InOrder' /\ OneShell' /\ ExitReportedOnce'
    BY <1>1, SameShell DEF TimerFires, asking, shown, Inv, Shut, OneShell
  <2> QED BY <2>2, <2>3, <2>4 DEF Inv
<1>2. ASSUME NEW o \in {"sent", "blocked", "failed"}, Write(o) \/ FlushWrites(o) PROVE Inv'
  <2>1. PICK input \in Seq(Session) : /\ Flushed(input, o) /\ Len(input) <= MaxInput
                                      /\ \A i \in DOMAIN input : input[i] = pid
    <3>1. CASE Write(o)
      <4> DEFINE input == Append(pendingWrites, pid)
      <4>1. /\ pendingWrites \in Seq(Session) /\ pid \in Session /\ Len(pendingWrites) < MaxInput
            /\ MaxInput \in Nat /\ \A i \in DOMAIN pendingWrites : pendingWrites[i] = pid
        BY <3>1, TerminalAssumption DEF Write, Inv, InputOK, ShellsOK, OneShell
      <4>2. /\ input \in Seq(Session) /\ Len(input) = Len(pendingWrites) + 1
            /\ \A i \in 1 .. Len(pendingWrites) : input[i] = pendingWrites[i]
            /\ input[Len(pendingWrites) + 1] = pid
        BY <4>1, AppendProperties
      <4>3. Len(pendingWrites) \in Nat /\ DOMAIN pendingWrites = 1 .. Len(pendingWrites)
            /\ DOMAIN input = 1 .. Len(input)
        BY <4>1, <4>2, LenProperties
      <4>4. Len(input) <= MaxInput /\ \A i \in DOMAIN input : input[i] = pid
        <5> HIDE DEF input
        <5> QED BY <4>1, <4>2, <4>3
      <4>5. Flushed(input, o)
        BY <3>1 DEF Write
      <4> HIDE DEF input
      <4> QED BY <4>2, <4>4, <4>5
    <3>2. CASE FlushWrites(o)
      BY <3>2 DEF FlushWrites, Inv, InputOK, OneShell
    <3> QED BY <1>2, <3>1, <3>2
  <2>2. /\ UNCHANGED <<phase, signalled, written, unread, pid, timers, reported, bridge, asking, stopEnabled, closed>>
    BY <1>2 DEF Write, FlushWrites, shells
  <2>3. InputOK' /\ ShownOK' /\ \A i \in DOMAIN pendingWrites' : pendingWrites'[i] = pid
    BY <2>1, <2>2, FlushedInput DEF Inv
  <2>4. ShellsOK' /\ BridgeOK' /\ AskingOK' /\ \A s \in Session : unread'[s] <= written'[s]
    BY <2>2 DEF Inv, ShellsOK, BridgeOK, AskingOK, bridge, asking
  <2>5. Shut' /\ InOrder' /\ OneShell' /\ ExitReportedOnce'
    BY <2>2, <2>3, SameShell DEF asking, Inv, Shut
  <2> QED BY <2>3, <2>4, <2>5 DEF Inv
<1>3. CASE ReadAvailable
  <2>1. pid \in Session /\ unread[pid] \in Nat /\ pendingOutput \in Nat /\ pendingOutput <= MaxPending
        /\ MaxPending \in Nat /\ 0 \in 0 .. MaxOutput
    BY <1>3, TerminalAssumption DEF ReadAvailable, Inv, ShellsOK, BridgeOK
  <2>2. pendingOutput' \in 0 .. MaxPending
    BY <1>3, <2>1 DEF ReadAvailable
  <2>3. BridgeOK'
    BY <1>3, <2>2 DEF ReadAvailable, ScheduleFlush, Inv, BridgeOK
  <2>4. ShellsOK' /\ \A s \in Session : unread'[s] <= written'[s]
    BY <1>3, <2>1 DEF ReadAvailable, Inv, ShellsOK
  <2>5. InputOK' /\ AskingOK' /\ ShownOK'
    BY <1>3 DEF ReadAvailable, Inv, InputOK, AskingOK, ShownOK, asking, shown
  <2>6. Shut' /\ InOrder' /\ OneShell' /\ ExitReportedOnce'
    BY <1>3, SameShell DEF ReadAvailable, asking, shown, Inv, Shut, OneShell
  <2> QED BY <2>3, <2>4, <2>5, <2>6 DEF Inv
<1>4. CASE ResizeFails
  <2>1. ShellsOK' /\ InputOK' /\ BridgeOK' /\ AskingOK' /\ ShownOK' /\ \A s \in Session : unread'[s] <= written'[s]
    <3>1. ShellsOK' /\ \A s \in Session : unread'[s] <= written'[s]
      BY <1>4 DEF ResizeFails, Inv, ShellsOK, shells
    <3>2. InputOK' /\ BridgeOK'
      BY <1>4 DEF ResizeFails, Inv, InputOK, BridgeOK, bridge
    <3>3. AskingOK' /\ ShownOK'
      BY <1>4 DEF ResizeFails, Inv, AskingOK, ShownOK, asking
    <3> QED BY <3>1, <3>2, <3>3
  <2>2. Shut' /\ InOrder' /\ OneShell' /\ ExitReportedOnce'
    BY <1>4, SameShell DEF ResizeFails, shells, asking, Inv, Shut, OneShell
  <2> QED BY <2>1, <2>2 DEF Inv
<1>5. CASE ReapChild
  <2>1. /\ pid \in Session /\ reported[pid] = 0 /\ InputOK' /\ InOrder' /\ pendingWrites' = <<>>
        /\ \A s \in Session : phase'[s] \notin {"running", "exited"}
        /\ phase' \in [Session -> {"unborn", "running", "exited", "collected"}]
    BY <1>5, Collected DEF ReapChild
  <2>2. BridgeOK' /\ AskingOK' /\ ShownOK' /\ \A s \in Session : unread'[s] <= written'[s]
    BY <1>5 DEF ReapChild, Inv, BridgeOK, AskingOK, ShownOK, bridge, asking
  <2>3. ShellsOK'
    BY <1>5, <2>1 DEF ReapChild, Cleanup, Inv, ShellsOK
  <2>4. Shut'
    BY <1>5 DEF ReapChild, Cleanup, asking, Inv, Shut
  <2>5. OneShell'
    BY <1>5, <2>1, SessionNat, EmptySeq DEF ReapChild, Cleanup, OneShell
  <2>6. ExitReportedOnce'
    BY <1>5, <2>1 DEF ReapChild, Inv, ShellsOK, ExitReportedOnce
  <2> QED BY <2>1, <2>2, <2>3, <2>4, <2>5, <2>6 DEF Inv
<1>6. CASE Destroy
  <2>1. BridgeOK' /\ AskingOK' /\ ShownOK' /\ (\A s \in Session : unread'[s] <= written'[s]) /\ Shut'
    BY <1>6 DEF Destroy, Cleanup, Inv, BridgeOK, AskingOK, ShownOK, Shut, bridge, asking, shown
  <2>2. CASE pid = 0
    <3>1. InputOK' /\ DOMAIN pendingWrites' = {}
      BY <1>6, TerminalAssumption, EmptySeq DEF Destroy, Cleanup, InputOK
    <3>2. ShellsOK' /\ UNCHANGED phase
      BY <1>6, <2>2 DEF Destroy, Cleanup, Inv, ShellsOK
    <3>3. OneShell' /\ ExitReportedOnce'
      BY <1>6, <2>2, <3>1, <3>2 DEF Destroy, Cleanup, Inv, OneShell, ExitReportedOnce
    <3> QED BY <2>1, <3>1, <3>2, <3>3, SamePhases DEF Inv
  <2>3. CASE pid # 0
    <3>1. /\ pid \in Session /\ reported[pid] = 0 /\ InputOK' /\ InOrder' /\ pendingWrites' = <<>>
          /\ \A s \in Session : phase'[s] \notin {"running", "exited"}
          /\ phase' \in [Session -> {"unborn", "running", "exited", "collected"}]
      BY <1>6, <2>3, Collected DEF Destroy
    <3>2. ShellsOK'
      BY <1>6, <3>1 DEF Destroy, Cleanup, Inv, ShellsOK
    <3>3. OneShell'
      BY <1>6, <3>1, SessionNat, EmptySeq DEF Destroy, Cleanup, OneShell
    <3>4. ExitReportedOnce'
      BY <1>6, <2>3, <3>1 DEF Destroy, Inv, ShellsOK, ExitReportedOnce
    <3> QED BY <2>1, <3>1, <3>2, <3>3, <3>4 DEF Inv
  <2> QED BY <2>2, <2>3
<1> QED BY <1>1, <1>2, <1>3, <1>4, <1>5, <1>6 DEF Backend

-----------------------------------------------------------------------------
(* Starting a session.                                                       *)

\* What the panel, the bridge and the boxes may become along the way.
AsksSoundly ==
  /\ UNCHANGED rest
  /\ acknowledged' \in BOOLEAN /\ startPosted' \in BOOLEAN
  /\ flushScheduled' \in BOOLEAN /\ ready' \in BOOLEAN
  /\ boxes' \in Seq(Box) /\ Len(boxes') <= MaxBoxes

LEMMA SessionKept ==
  ASSUME Inv, ~closed, AsksSoundly, UNCHANGED <<phase, signalled, pid, timers, pendingWrites, reported, shown>>,
         autoStart' \in BOOLEAN, attempted' \in BOOLEAN
  PROVE  Inv'
<1>1. ShellsOK' /\ InputOK' /\ BridgeOK' /\ AskingOK' /\ ShownOK' /\ \A s \in Session : unread'[s] <= written'[s]
  <2>1. ShellsOK' /\ \A s \in Session : unread'[s] <= written'[s]
    BY DEF Inv, ShellsOK, AsksSoundly, rest
  <2>2. InputOK' /\ BridgeOK'
    BY DEF Inv, InputOK, BridgeOK, AsksSoundly, rest
  <2>3. AskingOK' /\ ShownOK'
    BY DEF Inv, AskingOK, ShownOK, AsksSoundly, rest, shown
  <2> QED BY <2>1, <2>2, <2>3
<1>2. \A i \in DOMAIN pendingWrites' : pendingWrites'[i] = pid
  BY DEF Inv, OneShell
<1>3. UNCHANGED <<stopEnabled, closed>>
  BY DEF shown, AsksSoundly, rest
<1>4. Shut' /\ InOrder' /\ OneShell' /\ ExitReportedOnce'
  BY <1>2, <1>3, SameShell
<1> QED BY <1>1, <1>4 DEF Inv

LEMMA StartsSessionInv ==
  ASSUME Inv, ~closed, AsksSoundly, NEW o \in Outcome, StartsSession(o)
  PROVE  Inv'
<1>1. Fresh \in Session /\ phase[Fresh] = "unborn" /\ Fresh # pid
  <2>1. Fresh \in Session /\ Fresh \notin Born
    BY FreshUnborn DEF StartsSession, Inv
  <2> QED BY <2>1 DEF Born, Inv, OneShell
<1>2. signalled' \in [Session -> SUBSET {"HUP", "TERM", "KILL"}] /\ timers' \subseteq Timer
  BY TerminateType DEF StartsSession, Inv, ShellsOK
<1>3. BridgeOK' /\ AskingOK' /\ \A s \in Session : unread'[s] <= written'[s]
  BY DEF StartsSession, Inv, BridgeOK, AskingOK, AsksSoundly, rest
<1>4. CASE o = "invalid"
  <2>1. UNCHANGED <<phase, pid, pendingWrites, reported, stopEnabled, closed, written, unread>> /\ status' = "Failed"
    BY <1>4 DEF StartsSession, AsksSoundly, rest
  <2>2. ShellsOK' /\ InputOK' /\ ShownOK'
    BY <1>2, <2>1 DEF Inv, ShellsOK, InputOK, ShownOK
  <2>3. Shut' /\ InOrder' /\ OneShell' /\ ExitReportedOnce'
    BY <2>1, SameShell DEF Inv, OneShell
  <2> QED BY <1>3, <2>2, <2>3 DEF Inv
<1>5. CASE o # "invalid"
  <2>1. /\ \A s \in Session : phase'[s] = IF s = pid THEN "collected"
                                          ELSE IF o = "started" /\ s = Fresh THEN "running" ELSE phase[s]
        /\ phase' \in [Session -> {"unborn", "running", "exited", "collected"}]
    BY <1>5 DEF StartsSession, Replaced, Inv, ShellsOK
  <2>2. /\ pid' = IF o = "started" THEN Fresh ELSE 0
        /\ pendingWrites' = <<>>
        /\ reported' = IF pid = 0 THEN reported ELSE [reported EXCEPT ![pid] = @ + 1]
        /\ status' = IF o = "started" THEN "Running" ELSE "Failed"
        /\ stopEnabled' = (o = "started") /\ UNCHANGED <<closed, written, unread>>
    BY <1>5 DEF StartsSession, Replaced, AsksSoundly, rest
  <2>3. /\ reported \in [Session -> Nat] /\ pid \in Session \cup {0} /\ 0 \notin Session
        /\ \A s \in Session : /\ phase[s] \in {"running", "exited"} <=> pid = s
                              /\ reported[s] <= 1
                              /\ reported[s] = 1 <=> phase[s] = "collected"
    BY SessionNat DEF Inv, ShellsOK, OneShell, ExitReportedOnce
  <2>4. ShellsOK'
    <3>1. reported' \in [Session -> Nat] /\ pid' \in Session \cup {0}
      BY <1>1, <2>2, <2>3
    <3> QED BY <1>2, <2>1, <2>2, <3>1 DEF Inv, ShellsOK
  <2>5. InputOK' /\ DOMAIN pendingWrites' = {}
    BY <2>2, TerminalAssumption, EmptySeq DEF InputOK
  <2>6. ShownOK'
    <3>1. stopEnabled' \in BOOLEAN
      BY <2>2
    <3> QED BY <2>2, <3>1 DEF ShownOK, Inv
  <2>7. Shut'
    BY <2>2 DEF Shut
  <2>8. InOrder'
    <3>1. Born' = Born \/ Born' = Born \cup {Fresh}
      <4>1. CASE o = "started"
        <5>1. Born' = Born \cup {Fresh}
          BY <1>1, <2>1, <2>3, <4>1 DEF Born
        <5> QED BY <5>1
      <4>2. CASE o # "started"
        <5>1. Born' = Born
          BY <2>1, <2>3, <4>2 DEF Born
        <5> QED BY <5>1
      <4> QED BY <4>1, <4>2
    <3> QED BY <3>1, StillInOrder DEF Inv
  <2>9. OneShell'
    <3>1. \A s \in Session : phase'[s] \in {"running", "exited"} <=> pid' = s
      BY <1>1, <2>1, <2>2, <2>3
    <3>2. stopEnabled' <=> pid' # 0
      <4>1. CASE o = "started"
        BY <1>1, <2>2, <2>3, <4>1
      <4>2. CASE o # "started"
        BY <2>2, <4>2
      <4> QED BY <4>1, <4>2
    <3> QED BY <2>5, <3>1, <3>2 DEF OneShell
  <2>10. \A s \in Session : reported'[s] <= 1 /\ (reported'[s] = 1 <=> phase'[s] = "collected")
    <3> SUFFICES ASSUME NEW s \in Session
                 PROVE  reported'[s] <= 1 /\ (reported'[s] = 1 <=> phase'[s] = "collected")
      OBVIOUS
    <3>1. CASE s = pid
      <4>1. reported[s] = 0 /\ reported'[s] = reported[s] + 1 /\ phase'[s] = "collected"
        BY <2>1, <2>2, <2>3, <3>1
      <4> QED BY <4>1
    <3>2. CASE s # pid
      <4>1. reported'[s] = reported[s] /\ (phase'[s] = phase[s] \/ (s = Fresh /\ phase'[s] = "running"))
        BY <2>1, <2>2, <2>3, <3>2
      <4> QED BY <1>1, <2>3, <4>1
    <3> QED BY <3>1, <3>2
  <2>11. ExitReportedOnce'
    BY <2>10 DEF ExitReportedOnce
  <2> QED BY <1>3, <2>4, <2>5, <2>6, <2>7, <2>8, <2>9, <2>11 DEF Inv
<1> QED BY <1>4, <1>5

-----------------------------------------------------------------------------
(* The panel.                                                                *)

LEMMA StackType ==
  ASSUME AskingOK, boxes # <<>>
  PROVE  /\ SubSeq(boxes, 1, Len(boxes) - 1) \in Seq(Box)
         /\ Len(SubSeq(boxes, 1, Len(boxes) - 1)) <= MaxBoxes
<1> DEFINE m == Len(boxes) - 1
<1>1. boxes \in Seq(Box) /\ Len(boxes) \in Nat /\ Len(boxes) # 0 /\ Len(boxes) <= MaxBoxes /\ MaxBoxes \in Nat
  BY EmptySeq, LenProperties, TerminalAssumption DEF AskingOK
<1>2. m \in Nat /\ m <= Len(boxes) /\ m <= MaxBoxes
  BY <1>1
<1>3. \A i \in 1 .. m : boxes[i] \in Box
  BY <1>1, <1>2, ElementOfSeq
<1>4. SubSeq(boxes, 1, m) \in Seq(Box) /\ Len(SubSeq(boxes, 1, m)) = m
  <2> HIDE DEF m
  <2> QED BY <1>1, <1>2, <1>3, SubSeqProperties
<1> QED BY <1>2, <1>4

\* A question is put over the ones there are.
LEMMA AsksInv ==
  ASSUME Inv, ~closed, NEW stack \in Seq(Box), NEW box \in Box, Asks(stack, box), UNCHANGED rest,
         acknowledged' \in BOOLEAN, startPosted' \in BOOLEAN, flushScheduled' \in BOOLEAN, ready' \in BOOLEAN
  PROVE  Inv'
<1>1. boxes' \in Seq(Box) /\ Len(boxes') <= MaxBoxes
  <2>1. Len(stack) \in Nat /\ Len(boxes') = Len(stack) + 1 /\ boxes' \in Seq(Box) /\ MaxBoxes \in Nat
    BY AppendProperties, LenProperties, TerminalAssumption DEF Asks
  <2> QED BY <2>1 DEF Asks
<1>2. AsksSoundly
  BY <1>1 DEF AsksSoundly
<1>3. /\ UNCHANGED <<phase, signalled, pid, timers, pendingWrites, reported, shown>>
      /\ autoStart' \in BOOLEAN /\ attempted' \in BOOLEAN
  BY DEF Asks, session, Inv, AskingOK
<1> QED BY <1>2, <1>3, SessionKept

LEMMA ReplacementInv ==
  ASSUME Inv, ~closed, NEW stack \in Seq(Box), Len(stack) <= MaxBoxes, NEW o \in Outcome,
         ConfirmsReplacement(stack, o), UNCHANGED rest,
         acknowledged' \in BOOLEAN, startPosted' \in BOOLEAN, flushScheduled' \in BOOLEAN, ready' \in BOOLEAN
  PROVE  Inv'
<1>1. CASE pid # 0
  <2>1. Asks(stack, "replace") /\ "replace" \in Box
    BY <1>1 DEF ConfirmsReplacement, Box
  <2> QED BY <2>1, AsksInv
<1>2. CASE pid = 0
  BY <1>2, StartsSessionInv DEF ConfirmsReplacement, AsksSoundly
<1> QED BY <1>1, <1>2

LEMMA PendingInv ==
  ASSUME Inv, ~closed, NEW isReady, NEW o \in Outcome, StartsPending(isReady, o), UNCHANGED rest,
         acknowledged' \in BOOLEAN, startPosted' \in BOOLEAN, flushScheduled' \in BOOLEAN, ready' \in BOOLEAN
  PROVE  Inv'
<1>1. boxes \in Seq(Box) /\ Len(boxes) <= MaxBoxes /\ "acknowledgePending" \in Box
  BY DEF Inv, AskingOK, Box
<1>2. CASE UNCHANGED <<session, boxes>>
  BY <1>1, <1>2, SessionKept DEF session, AsksSoundly, Inv, AskingOK
<1>3. CASE StartsSession(o) /\ UNCHANGED boxes
  BY <1>1, <1>3, StartsSessionInv DEF AsksSoundly
<1>4. CASE Asks(boxes, "acknowledgePending")
  BY <1>1, <1>4, AsksInv
<1> QED BY <1>2, <1>3, <1>4 DEF StartsPending

LEMMA PanelInv == ASSUME Inv, Panel PROVE Inv'
<1>0. /\ boxes \in Seq(Box) /\ Len(boxes) <= MaxBoxes
      /\ acknowledged \in BOOLEAN /\ startPosted \in BOOLEAN /\ flushScheduled \in BOOLEAN /\ ready \in BOOLEAN
      /\ autoStart \in BOOLEAN /\ attempted \in BOOLEAN
  BY DEF Inv, AskingOK, BridgeOK
<1>1. CASE Show
  <2>1. AsksSoundly
    BY <1>0, <1>1 DEF Show, AsksSoundly, rest, shells, bridge
  <2> QED BY <1>0, <1>1, <2>1, SessionKept DEF Show, shells
<1>2. CASE Stop
  <2>1. signalled' \in [Session -> SUBSET {"HUP", "TERM", "KILL"}] /\ timers' \subseteq Timer
    BY <1>2, TerminateType DEF Stop, Inv
  <2>2. ShellsOK' /\ \A s \in Session : unread'[s] <= written'[s]
    BY <1>2, <2>1 DEF Stop, Inv, ShellsOK
  <2>3. InputOK' /\ BridgeOK'
    BY <1>2 DEF Stop, Inv, InputOK, BridgeOK, bridge
  <2>4. AskingOK' /\ ShownOK'
    BY <1>2 DEF Stop, Inv, AskingOK, ShownOK, asking, shown
  <2>5. Shut' /\ InOrder' /\ OneShell' /\ ExitReportedOnce'
    BY <1>2, SameShell DEF Stop, asking, shown, Inv, Shut, OneShell
  <2> QED BY <2>2, <2>3, <2>4, <2>5 DEF Inv
<1>3. CASE FlushOutput
  <2>1. pendingOutput' \in 0 .. MaxPending
    BY <1>3, TerminalAssumption DEF FlushOutput, Inv, BridgeOK
  <2>2. ShellsOK' /\ \A s \in Session : unread'[s] <= written'[s]
    BY <1>3 DEF FlushOutput, Inv, ShellsOK, shells
  <2>3. InputOK' /\ BridgeOK'
    BY <1>3, <2>1 DEF FlushOutput, Inv, InputOK, BridgeOK
  <2>4. AskingOK' /\ ShownOK'
    BY <1>3 DEF FlushOutput, Inv, AskingOK, ShownOK, asking, shown
  <2>5. Shut' /\ InOrder' /\ OneShell' /\ ExitReportedOnce'
    BY <1>3, SameShell DEF FlushOutput, shells, asking, shown, Inv, Shut, OneShell
  <2> QED BY <2>2, <2>3, <2>4, <2>5 DEF Inv
<1>4. ASSUME NEW o \in Outcome, StartPendingSession(o) PROVE Inv'
  BY <1>0, <1>4, PendingInv DEF StartPendingSession
<1>5. ASSUME NEW o \in Outcome, FrontendReady(o) PROVE Inv'
  <2>1. ready' \in BOOLEAN /\ flushScheduled' \in BOOLEAN
    BY <1>0, <1>5 DEF FrontendReady
  <2> QED BY <1>0, <1>5, <2>1, PendingInv DEF FrontendReady
<1>6. ASSUME NEW o \in Outcome, NewSession(o) PROVE Inv'
  <2>1. CASE acknowledged
    BY <1>0, <1>6, <2>1, ReplacementInv DEF NewSession
  <2>2. CASE ~acknowledged
    <3>1. Asks(boxes, "acknowledgeNew") /\ "acknowledgeNew" \in Box
      BY <1>6, <2>2 DEF NewSession, Box
    <3> QED BY <1>0, <1>6, <3>1, AsksInv DEF NewSession
  <2> QED BY <2>1, <2>2
<1>7. ASSUME NEW o \in Outcome, NEW yes \in BOOLEAN, AnswerBox(yes, o) PROVE Inv'
  <2> DEFINE box == boxes[Len(boxes)]
             stack == SubSeq(boxes, 1, Len(boxes) - 1)
  <2>1. ~closed /\ UNCHANGED <<rest, startPosted, flushScheduled, ready>> /\ acknowledged' \in BOOLEAN
    BY <1>0, <1>7 DEF AnswerBox, Inv, Shut
  <2>2. stack \in Seq(Box) /\ Len(stack) <= MaxBoxes
    BY <1>7, StackType DEF AnswerBox, Inv
  <2>3. \/ ConfirmsReplacement(stack, o)
        \/ StartsSession(o) /\ boxes' = stack
        \/ /\ boxes' = stack /\ autoStart' = (autoStart /\ box # "acknowledgePending")
           /\ UNCHANGED <<phase, signalled, pid, timers, pendingWrites, reported, attempted, shown>>
    BY <1>7 DEF AnswerBox
  <2> HIDE DEF box, stack
  <2>4. CASE ConfirmsReplacement(stack, o)
    BY <1>0, <2>1, <2>2, <2>4, ReplacementInv
  <2>5. CASE boxes' = stack
    <3>1. AsksSoundly
      BY <1>0, <2>1, <2>2, <2>5 DEF AsksSoundly
    <3>2. CASE StartsSession(o)
      BY <2>1, <3>1, <3>2, StartsSessionInv
    <3>3. CASE /\ autoStart' = (autoStart /\ box # "acknowledgePending")
               /\ UNCHANGED <<phase, signalled, pid, timers, pendingWrites, reported, attempted, shown>>
      <4>1. autoStart' \in BOOLEAN /\ attempted' \in BOOLEAN
        BY <1>0, <3>3
      <4> QED BY <2>1, <3>1, <3>3, <4>1, SessionKept
    <3> QED BY <2>3, <2>4, <2>5, <3>2, <3>3
  <2> QED BY <2>3, <2>4, <2>5
<1> QED BY <1>1, <1>2, <1>3, <1>4, <1>5, <1>6, <1>7 DEF Panel

LEMMA Invariance == Spec => []Inv
<1>1. Inv /\ [Next]_vars => Inv'
  <2> SUFFICES ASSUME Inv, [Next]_vars PROVE Inv'
    OBVIOUS
  <2>1. CASE UNCHANGED vars
    <3>1. ShellsOK' /\ \A s \in Session : unread'[s] <= written'[s]
      BY <2>1 DEF vars, shells, Inv, ShellsOK
    <3>2. InputOK' /\ BridgeOK'
      BY <2>1 DEF vars, bridge, Inv, InputOK, BridgeOK
    <3>3. AskingOK' /\ ShownOK'
      BY <2>1 DEF vars, asking, shown, Inv, AskingOK, ShownOK
    <3>4. Shut' /\ InOrder' /\ OneShell' /\ ExitReportedOnce'
      BY <2>1, SameShell DEF vars, shells, asking, shown, Inv, Shut, OneShell
    <3> QED BY <3>1, <3>2, <3>3, <3>4 DEF Inv
  <2> QED BY <2>1, ShellsInv, BackendInv, PanelInv DEF Next, Closed
<1> QED BY <1>1, InitInv, PTL DEF Spec

\* For any number of sessions, chunks of output, pieces of input and boxes: the
\* variables keep their types, what waits for the frontend keeps MaxPendingBytes,
\* and no shell has more unread than it wrote.
THEOREM TypeCorrect == Spec => []TypeOK
<1>1. Inv => TypeOK
  BY DEF Inv, ShellsOK, InputOK, BridgeOK, AskingOK, ShownOK, TypeOK
<1> QED BY <1>1, Invariance, PTL

\* For any number of sessions, through replacements asked for in nested boxes, failed
\* starts, exits between two looks of the reaper and the destructor: the only shell
\* that runs or waits to be collected is the one of m_pid, the panel offers to stop it
\* exactly while there is one, and the input that waits was typed for it
\* (PosixPtyBackend::start, stopAndWait, reapChild, DeveloperTerminalPanel::startSession).
THEOREM OnlyOneShell == Spec => []OneShell
<1>1. Inv => OneShell
  BY DEF Inv
<1> QED BY <1>1, Invariance, PTL

\* For any number of sessions: the exit of a shell is reported when it is collected,
\* by the reaper or by the start of the next one, and never twice; only the
\* destructor collects one without a report (PosixPtyBackend::finish, stopAndWait).
THEOREM EveryExitReportedOnce == Spec => []ExitReportedOnce
<1>1. Inv => ExitReportedOnce
  BY DEF Inv
<1> QED BY <1>1, Invariance, PTL
=============================================================================
