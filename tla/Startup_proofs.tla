---------------------------- MODULE Startup_proofs ----------------------------
(* For any number of processes, crashing anywhere: at most one is primary, a   *)
(* process that starts by itself becomes it, and neither the migration nor the *)
(* next start loses the user's session.                                        *)
EXTENDS Startup, FiniteSetTheorems, TLAPS

(* Type correctness.                                                           *)

LEMMA TypeInit == Init => TypeOK
  BY StartupAssumption DEF Init, TypeOK, Over

LEMMA TypeNext == TypeOK /\ [Next]_vars => TypeOK'
<1> SUFFICES ASSUME TypeOK, [Next]_vars PROVE TypeOK'
  OBVIOUS
<1> USE StartupAssumption DEF TypeOK, Starting, Primary, Over, Goes
<1>1. ASSUME NEW p \in Process, Start(p) PROVE TypeOK'
  BY <1>1 DEF Start, CreatesOr, Creates, segment, store
<1>2. ASSUME NEW p \in Process, Attach(p) PROVE TypeOK'
  BY <1>2 DEF Attach, AttachesOr, Attaches, segment, store
<1>3. ASSUME NEW p \in Process, Probe(p) PROVE TypeOK'
  BY <1>3 DEF Probe, Detaches, segment, store
<1>4. ASSUME NEW p \in Process, Reclaim(p) PROVE TypeOK'
  BY <1>4 DEF Reclaim, CreatesOr, Creates, segment, store
<1>5. ASSUME NEW p \in Process, AttachAgain(p) PROVE TypeOK'
  BY <1>5 DEF AttachAgain, AttachesOr, Attaches, segment, store
<1>6. ASSUME NEW p \in Process, CreateAgain(p) PROVE TypeOK'
  BY <1>6 DEF CreateAgain, CreatesOr, Creates, segment, store
<1>7. ASSUME NEW p \in Process, WritePid(p) \/ Listen(p) PROVE TypeOK'
  BY <1>7 DEF WritePid, Listen, segment, store
<1>8. ASSUME NEW p \in Process, Send(p) PROVE TypeOK'
  BY <1>8 DEF Send, Detaches, store
<1>9. ASSUME NEW p \in Process, Load(p) PROVE TypeOK'
  BY <1>9 DEF Load, segment
<1>10. ASSUME NEW p \in Process, Truncate(p) PROVE TypeOK'
  BY <1>10 DEF Truncate, segment
<1>11. ASSUME NEW p \in Process, NEW ok \in BOOLEAN, Write(p, ok) PROVE TypeOK'
  BY <1>11 DEF Write, segment
<1>12. ASSUME NEW p \in Process, Forget(p) \/ Quit(p) PROVE TypeOK'
  BY <1>12 DEF Forget, Quit, segment, store
<1>13. ASSUME NEW p \in Process, Exit(p) PROVE TypeOK'
  BY <1>13 DEF Exit, Detaches, store
<1>14. ASSUME NEW p \in Process, Crash(p) PROVE TypeOK'
  BY <1>14 DEF Crash, Alive
<1>15. CASE UNCHANGED vars
  BY <1>15 DEF vars, segment, store
<1> QED
  BY <1>1, <1>2, <1>3, <1>4, <1>5, <1>6, <1>7, <1>8, <1>9, <1>10, <1>11, <1>12, <1>13,
     <1>14, <1>15 DEF Next, Step, AllOver

\* The state of the starts keeps its type, for any set of processes.
THEOREM TypeCorrect == Spec => []TypeOK
  BY TypeInit, TypeNext, PTL DEF Spec

-----------------------------------------------------------------------------
(* One primary.  A primary is attached to the segment from the moment it has   *)
(* created it, so that nobody creates another while it lives.                  *)

PrimaryHolds == \A p \in Process : pc[p] \in Primary => exists /\ p \in attached
PrimaryIsOne == \A p, q \in Process : pc[p] \in Primary /\ pc[q] \in Primary => p = q
Holding == TypeOK /\ PrimaryHolds /\ PrimaryIsOne

LEMMA HoldingNext ==
  ASSUME BackingFile = FALSE
  PROVE  Holding /\ [Next]_vars => Holding'
<1> SUFFICES ASSUME Holding, [Next]_vars PROVE PrimaryHolds' /\ PrimaryIsOne'
  BY TypeNext DEF Holding
<1> USE BackingFile = FALSE DEF Holding, TypeOK, PrimaryHolds, PrimaryIsOne, Starting, Primary, Over, Goes
<1>1. ASSUME NEW p \in Process, Start(p) \/ Reclaim(p) \/ CreateAgain(p)
      PROVE  PrimaryHolds' /\ PrimaryIsOne'
  BY <1>1 DEF Start, Reclaim, CreateAgain, CreatesOr, Creates, segment, store
<1>2. ASSUME NEW p \in Process, Attach(p) \/ AttachAgain(p) \/ Probe(p)
      PROVE  PrimaryHolds' /\ PrimaryIsOne'
  BY <1>2 DEF Attach, AttachAgain, AttachesOr, Attaches, Probe, Detaches, segment, store
<1>3. ASSUME NEW p \in Process, WritePid(p) \/ Listen(p) \/ Send(p)
      PROVE  PrimaryHolds' /\ PrimaryIsOne'
  BY <1>3 DEF WritePid, Listen, Send, Detaches, segment, store
<1>4. ASSUME NEW p \in Process, Load(p) \/ Truncate(p) \/ Forget(p) \/ Quit(p)
      PROVE  PrimaryHolds' /\ PrimaryIsOne'
  BY <1>4 DEF Load, Truncate, Forget, Quit, segment, store
<1>5. ASSUME NEW p \in Process, NEW ok \in BOOLEAN, Write(p, ok)
      PROVE  PrimaryHolds' /\ PrimaryIsOne'
  BY <1>5 DEF Write, segment
<1>6. ASSUME NEW p \in Process, Exit(p) \/ Crash(p)
      PROVE  PrimaryHolds' /\ PrimaryIsOne'
  BY <1>6 DEF Exit, Crash, Detaches, Alive, segment, store
<1>7. CASE UNCHANGED vars
  BY <1>7 DEF vars, segment, store
<1> QED
  BY <1>1, <1>2, <1>3, <1>4, <1>5, <1>6, <1>7 DEF Next, Step, AllOver

LEMMA HoldingInit == Init => Holding
  BY TypeInit DEF Init, Holding, PrimaryHolds, PrimaryIsOne, Primary

LEMMA OneMeansOne == PrimaryIsOne => OnePrimary
<1> SUFFICES ASSUME PrimaryIsOne PROVE Cardinality({p \in Process : pc[p] \in Primary}) <= 1
  BY DEF OnePrimary
<1> DEFINE S == {p \in Process : pc[p] \in Primary}
<1>1. ASSUME S = {} PROVE Cardinality(S) = 0
  BY <1>1, FS_EmptySet
<1>2. ASSUME S # {} PROVE Cardinality(S) = 1
  <2>1. PICK p \in Process : S = {p}
    BY <1>2 DEF PrimaryIsOne
  <2> HIDE DEF S
  <2> QED
    BY <2>1, FS_Singleton
<1> HIDE DEF S
<1>3. Cardinality(S) <= 1
  BY <1>1, <1>2
<1> QED
  BY <1>3 DEF S

\* At most one living process takes itself for the primary one, for any number of
\* processes and crashes, where the segment has no backing file that a starting
\* process could remove (applicationsingleton.cpp:93).
THEOREM AtMostOnePrimary == ASSUME BackingFile = FALSE PROVE Spec => []OnePrimary
<1>1. Spec => []Holding
  BY HoldingInit, HoldingNext, PTL DEF Spec
<1>2. Holding => OnePrimary
  BY OneMeansOne DEF Holding
<1> QED
  BY <1>1, <1>2, PTL

-----------------------------------------------------------------------------
(* The session.  Only the primary writes the file, so what a step of it finds  *)
(* is what its last step left.                                                 *)

Migrating == \A p \in Process :
  /\ pc[p] \in {"migrate", "write", "forget"} => legacy /\ session[p] = "user"
  /\ pc[p] = "forget" => file = "user"
  /\ pc[p] = "rewrite" => saved

DefaultIsTorn == \A p \in Process :
  pc[p] \in {"running", "save", "rewrite", "exit"} /\ session[p] = "default" => torn
PartialIsTorn ==
  file = "partial" => torn \/ \E p \in Process : pc[p] \in {"write", "rewrite"}
NoneIsTorn == file = "none" /\ ~legacy => torn
Keeping ==
  /\ Holding
  /\ Migrating /\ MigrationKeeps
  /\ DefaultIsTorn /\ PartialIsTorn /\ NoneIsTorn /\ SessionKept

LEMMA KeepingInit == Init => Keeping
  BY HoldingInit DEF Init, Keeping, Migrating, MigrationKeeps, DefaultIsTorn, PartialIsTorn,
     NoneIsTorn, SessionKept

LEMMA KeepingNext ==
  ASSUME BackingFile = FALSE
  PROVE  Keeping /\ [Next]_vars => Keeping'
<1> DEFINE Kept == Migrating /\ MigrationKeeps /\ DefaultIsTorn /\ PartialIsTorn
                     /\ NoneIsTorn /\ SessionKept
<1> SUFFICES ASSUME Keeping, [Next]_vars PROVE Kept'
  BY HoldingNext DEF Keeping
<1>0. Holding'
  BY HoldingNext DEF Keeping
<1> USE <1>0, BackingFile = FALSE DEF Keeping, Holding, TypeOK, PrimaryIsOne, Starting, Primary, Over, Goes,
      Migrating, MigrationKeeps, DefaultIsTorn, PartialIsTorn, NoneIsTorn, SessionKept
<1>1. ASSUME NEW p \in Process, Start(p) \/ Reclaim(p) \/ CreateAgain(p) PROVE Kept'
  BY <1>1 DEF Start, Reclaim, CreateAgain, CreatesOr, store
<1>2. ASSUME NEW p \in Process, Attach(p) \/ AttachAgain(p) \/ Probe(p) PROVE Kept'
  BY <1>2 DEF Attach, AttachAgain, AttachesOr, Probe, store
<1>3. ASSUME NEW p \in Process, WritePid(p) \/ Listen(p) \/ Send(p) PROVE Kept'
  BY <1>3 DEF WritePid, Listen, Send, store
<1>4. ASSUME NEW p \in Process, Load(p) PROVE Kept'
  BY <1>4 DEF Load
<1>5. ASSUME NEW p \in Process, Truncate(p) PROVE Kept'
  <2>1. session' = session /\ legacy' = legacy /\ torn' = torn /\ (saved => saved')
    BY <1>5 DEF Truncate
  <2>2. CASE pc[p] = "migrate"
    <3>1. CASE file' = "partial" /\ pc' = [pc EXCEPT ![p] = "write"]
      <4>1. Migrating' /\ MigrationKeeps'
        BY <2>1, <2>2, <3>1
      <4>2. DefaultIsTorn' /\ PartialIsTorn' /\ NoneIsTorn' /\ SessionKept'
        BY <2>1, <2>2, <3>1
      <4> QED
        BY <4>1, <4>2
    <3>2. CASE file' = file /\ pc' = [pc EXCEPT ![p] = "running"]
      <4>1. Migrating' /\ MigrationKeeps'
        BY <1>5, <2>1, <2>2, <3>2 DEF Truncate
      <4>2. DefaultIsTorn' /\ PartialIsTorn' /\ NoneIsTorn' /\ SessionKept'
        BY <2>1, <2>2, <3>2
      <4> QED
        BY <4>1, <4>2
    <3> QED
      BY <1>5, <2>2, <3>1, <3>2 DEF Truncate
  <2>3. CASE pc[p] = "save"
    <3>1. CASE file' = "partial" /\ pc' = [pc EXCEPT ![p] = "rewrite"]
      <4>1. Migrating' /\ MigrationKeeps'
        BY <1>5, <2>1, <2>3, <3>1 DEF Truncate
      <4>2. DefaultIsTorn' /\ PartialIsTorn' /\ NoneIsTorn' /\ SessionKept'
        BY <2>1, <2>3, <3>1
      <4> QED
        BY <4>1, <4>2
    <3>2. CASE file' = file /\ pc' = [pc EXCEPT ![p] = "exit"]
      <4>1. Migrating' /\ MigrationKeeps'
        BY <1>5, <2>1, <2>3, <3>2 DEF Truncate
      <4>2. DefaultIsTorn' /\ PartialIsTorn' /\ NoneIsTorn' /\ SessionKept'
        BY <2>1, <2>3, <3>2
      <4> QED
        BY <4>1, <4>2
    <3> QED
      BY <1>5, <2>3, <3>1, <3>2 DEF Truncate
  <2> QED
    BY <1>5, <2>2, <2>3 DEF Truncate
<1>6. ASSUME NEW p \in Process, NEW ok \in BOOLEAN, Write(p, ok) PROVE Kept'
  BY <1>6 DEF Write
<1>7. ASSUME NEW p \in Process, Forget(p) PROVE Kept'
  BY <1>7 DEF Forget
<1>8. ASSUME NEW p \in Process, Quit(p) \/ Exit(p) PROVE Kept'
  BY <1>8 DEF Quit, Exit, store
<1>9. ASSUME NEW p \in Process, Crash(p) PROVE Kept'
  BY <1>9 DEF Crash, Alive
<1>10. CASE UNCHANGED vars
  BY <1>10 DEF vars, store
<1> QED
  BY <1>1, <1>2, <1>3, <1>4, <1>5, <1>6, <1>7, <1>8, <1>9, <1>10 DEF Next, Step, AllOver

LEMMA KeepingAlways == ASSUME BackingFile = FALSE PROVE Spec => []Keeping
  BY KeepingInit, KeepingNext, PTL DEF Spec

\* Wherever a migration stops, by a crash or a failed write, the legacy keys are there
\* until the file holds what they held.
THEOREM MigrationLosesNothing == ASSUME BackingFile = FALSE PROVE Spec => []MigrationKeeps
<1>1. Keeping => MigrationKeeps
  BY DEF Keeping
<1> QED
  BY <1>1, KeepingAlways, PTL

\* The file never holds the defaults instead of the user's windows, unless a crash
\* or a failed write met the file itself.
THEOREM SessionSurvives == ASSUME BackingFile = FALSE PROVE Spec => []SessionKept
<1>1. Keeping => SessionKept
  BY DEF Keeping
<1> QED
  BY <1>1, KeepingAlways, PTL

-----------------------------------------------------------------------------
(* A start with nobody else alive.                                             *)

AttachedLive == \A p \in attached :
  p \in Alive /\ pc[p] \notin {"attach", "reclaim", "attachAgain", "createAgain"}
SignedLater == \A p \in Process : primaryPid = p => pc[p] \notin Starting \cup {"off"}
LonelyNext == \A p \in Process : alone[p] /\ p \in Alive =>
  /\ Alive = {p}
  /\ pc[p] \in {"reclaim", "attachAgain", "createAgain"} => ~exists
Lonely == TypeOK /\ AttachedLive /\ SignedLater /\ LonelyNext /\ LoneStartSucceeds

LEMMA LonelyInit == Init => Lonely
  BY TypeInit, StartupAssumption DEF Init, Lonely, AttachedLive, SignedLater, LonelyNext, LoneStartSucceeds, Alive, Over

LEMMA LonelyNextStep == Lonely /\ [Next]_vars => Lonely'
<1> DEFINE Kept == AttachedLive /\ SignedLater /\ LonelyNext /\ LoneStartSucceeds
<1> SUFFICES ASSUME Lonely, [Next]_vars PROVE Kept'
  BY TypeNext DEF Lonely
<1> USE StartupAssumption DEF Lonely, TypeOK, AttachedLive, SignedLater, LonelyNext, LoneStartSucceeds, Alive,
      Starting, Primary, Over, Goes
<1>1. ASSUME NEW p \in Process, Start(p) PROVE Kept'
  <2>1. AttachedLive'
    BY <1>1 DEF Start, CreatesOr, Creates, segment
  <2>2. SignedLater'
    BY <1>1 DEF Start, CreatesOr, Creates, segment
  <2>3. LonelyNext'
    <3> SUFFICES ASSUME NEW q \in Process, alone'[q], q \in Alive'
                 PROVE  Alive' = {q} /\ (pc'[q] \in {"reclaim", "attachAgain", "createAgain"} => ~exists')
      OBVIOUS
    <3>1. pc' = [pc EXCEPT ![p] = pc'[p]] /\ pc'[p] \in {"created", "attach"}
      BY <1>1 DEF Start, CreatesOr
    <3>2. q = p /\ Alive = {}
      <4>1. alone'[q] = IF q = p THEN Alive = {} ELSE alone[q] /\ q \notin Alive
        BY <1>1 DEF Start
      <4>2. q # p => q \in Alive
        BY <3>1
      <4> QED
        BY <4>1, <4>2
    <3> QED
      BY <3>1, <3>2
  <2>4. LoneStartSucceeds'
    BY <1>1 DEF Start, CreatesOr, Creates, segment
  <2> QED
    BY <2>1, <2>2, <2>3, <2>4
<1>2. ASSUME NEW p \in Process, Attach(p) PROVE Kept'
  <2>1. AttachedLive'
    BY <1>2 DEF Attach, AttachesOr, Attaches, segment
  <2>2. SignedLater'
    BY <1>2 DEF Attach, AttachesOr, Attaches, segment
  <2>3. LonelyNext'
    BY <1>2 DEF Attach, AttachesOr, Attaches, segment
  <2>4. LoneStartSucceeds'
    BY <1>2 DEF Attach, AttachesOr, Attaches, segment
  <2> QED
    BY <2>1, <2>2, <2>3, <2>4
<1>3. ASSUME NEW p \in Process, Probe(p) PROVE Kept'
  <2>1. AttachedLive'
    BY <1>3 DEF Probe, Detaches, segment
  <2>2. SignedLater'
    BY <1>3 DEF Probe, Detaches, segment
  <2>3. LonelyNext'
    <3> SUFFICES ASSUME NEW q \in Process, alone[q], q \in Alive'
                 PROVE  Alive' = {q} /\ (pc'[q] \in {"reclaim", "attachAgain", "createAgain"} => ~exists')
      BY <1>3 DEF Probe
    <3>1. pc' = [pc EXCEPT ![p] = pc'[p]] /\ pc'[p] \in {"secondary", "reclaim"}
      BY <1>3 DEF Probe
    <3>2. Alive' = Alive /\ q = p /\ Alive = {p}
      BY <1>3, <3>1 DEF Probe
    <3>3. ASSUME pc'[p] = "reclaim" PROVE ~exists'
      <4>1. Detaches(p)
        BY <1>3, <3>3 DEF Probe
      <4>2. attached' = {}
        BY <4>1, <3>2 DEF Detaches
      <4> QED
        BY <4>1, <4>2 DEF Detaches
    <3> QED
      BY <3>1, <3>2, <3>3
  <2>4. LoneStartSucceeds'
    BY <1>3 DEF Probe, Detaches, segment
  <2> QED
    BY <2>1, <2>2, <2>3, <2>4
<1>4. ASSUME NEW p \in Process, Reclaim(p) PROVE Kept'
  BY <1>4 DEF Reclaim, CreatesOr, Creates, segment
<1>5. ASSUME NEW p \in Process, AttachAgain(p) PROVE Kept'
  BY <1>5 DEF AttachAgain, AttachesOr, Attaches, segment
<1>6. ASSUME NEW p \in Process, CreateAgain(p) PROVE Kept'
  <2>1. AttachedLive'
    BY <1>6 DEF CreateAgain, CreatesOr, Creates, segment
  <2>2. SignedLater'
    BY <1>6 DEF CreateAgain, CreatesOr, Creates, segment
  <2>3. LonelyNext'
    <3> SUFFICES ASSUME NEW q \in Process, alone[q], q \in Alive'
                 PROVE  Alive' = {q} /\ (pc'[q] \in {"reclaim", "attachAgain", "createAgain"} => ~exists')
      BY <1>6 DEF CreateAgain
    <3>1. pc' = [pc EXCEPT ![p] = pc'[p]] /\ pc'[p] \in {"created", "failed"}
      BY <1>6 DEF CreateAgain, CreatesOr
    <3>2. q = p /\ Alive = {p}
      BY <1>6, <3>1 DEF CreateAgain
    <3> QED
      BY <3>1, <3>2
  <2>4. LoneStartSucceeds'
    BY <1>6 DEF CreateAgain, CreatesOr, Creates, segment
  <2> QED
    BY <2>1, <2>2, <2>3, <2>4
<1>7. ASSUME NEW p \in Process, WritePid(p) \/ Listen(p) PROVE Kept'
  BY <1>7 DEF WritePid, Listen, segment
<1>8. ASSUME NEW p \in Process, Send(p) \/ Exit(p) PROVE Kept'
  BY <1>8 DEF Send, Exit, Detaches
<1>9. ASSUME NEW p \in Process, Load(p) \/ Truncate(p) \/ Forget(p) \/ Quit(p) PROVE Kept'
  BY <1>9 DEF Load, Truncate, Forget, Quit, segment
<1>10. ASSUME NEW p \in Process, NEW ok \in BOOLEAN, Write(p, ok) PROVE Kept'
  BY <1>10 DEF Write, segment
<1>11. ASSUME NEW p \in Process, Crash(p) PROVE Kept'
  BY <1>11 DEF Crash
<1>12. CASE UNCHANGED vars
  BY <1>12 DEF vars, segment
<1> QED
  BY <1>1, <1>2, <1>3, <1>4, <1>5, <1>6, <1>7, <1>8, <1>9, <1>10, <1>11, <1>12 DEF Next, Step, AllOver

\* A process that starts with nobody else alive becomes the primary, however many
\* processes have crashed and left their segment.
THEOREM LoneStart == Spec => []LoneStartSucceeds
<1>1. Lonely => LoneStartSucceeds
  BY DEF Lonely
<1> QED
  BY <1>1, LonelyInit, LonelyNextStep, PTL DEF Spec
=============================================================================
