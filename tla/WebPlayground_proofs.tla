------------------------ MODULE WebPlayground_proofs ------------------------
(* For any number of edits, requests and calls under way: the preview renders *)
(* only for a run that nothing has superseded, and is blank after a stop.      *)
EXTENDS WebPlayground, TLAPS

(* Type correctness.                                                          *)

LEMMA CallType ==
  /\ \A c \in Command, g \in 1 .. MaxRequests : [command |-> c, generation |-> g] \in Call
  /\ [command |-> "replace"] \in Call
  /\ \A c \in Call : c.command # "replace" =>
       c.command \in Command /\ c.generation \in 1 .. MaxRequests
  BY DEF Call, Command

LEMMA Bounds == MaxEdits \in Nat \ {0} /\ MaxRequests \in Nat \ {0}
  BY WebPlaygroundAssumption

\* All of TypeOK but the flags, which are Booleans in every step.
Types ==
  /\ text \in Documents /\ edits \in Documents
  /\ calls \in Seq(Call) /\ results \in Seq(Result)
  /\ generation \in 0 .. MaxRequests
  /\ box \in {"none", "reset", "notice"}
  /\ script = Blank \/ script \in Documents
  /\ page = Blank \/ page \in Documents
  /\ rendered = Blank \/ rendered \in Documents
  /\ wanted \in Command \cup {"none", "stop", "hide"}

LEMMA TypeParts == TypeOK <=> Types /\ Flags
  BY DEF TypeOK, Types

LEMMA TypeInit == Init => TypeOK
<1>1. Init => Types
  BY Bounds DEF Init, Types, Documents, starterDocuments, Command
<1>2. Init => Flags
  BY DEF Init, Flags
<1> QED
  BY <1>1, <1>2, TypeParts

LEMMA FlagsNext == Flags /\ [Next]_vars => Flags'
<1> SUFFICES ASSUME Flags, [Next]_vars PROVE Flags'
  OBVIOUS
<1> USE DEF Flags
<1>1. CASE User
  <2>1. CASE Edit \/ Stop \/ Hide \/ Show \/ ToggleAutoRun
    BY <2>1 DEF Edit, Stop, StopPage, LoadShell, Hide, Show, ToggleAutoRun, editor, preview, panel
  <2>2. CASE ClickRun \/ \E c \in Command : Request(c)
    BY <2>2 DEF ClickRun, Run, Request, preview
  <2>3. ASSUME NEW yes \in BOOLEAN, Answer(yes) PROVE Flags'
    BY <2>3 DEF Answer, Replaces, Clear, LoadShell, preview
  <2> QED
    BY <1>1, <2>1, <2>2, <2>3 DEF User
<1>2. CASE Engine
  BY <1>2 DEF Engine, PageLoads, LoadFinished, editor, panel
<1>3. CASE Events
  BY <1>3 DEF Events, Evaluate, ContentChanged, AutoRun, Run, Callback, Render, Replaces, Clear,
     LoadShell, preview, panel
<1>4. CASE UNCHANGED vars
  BY <1>4 DEF vars, editor, preview, panel
<1> QED
  BY <1>1, <1>2, <1>3, <1>4 DEF Next

LEMMA AsksType ==
  ASSUME Types, NEW command \in Command, Asks(command)
  PROVE  /\ calls' = Append(calls, [command |-> command, generation |-> generation + 1])
         /\ calls' \in Seq(Call)
         /\ generation' = generation + 1 /\ generation' \in 1 .. MaxRequests
         /\ wanted' = command
<1>1. generation' = generation + 1 /\ generation' \in 1 .. MaxRequests
  BY Bounds DEF Asks, Types
<1>2. [command |-> command, generation |-> generation + 1] \in Call
  BY <1>1, CallType
<1> QED
  BY <1>1, <1>2 DEF Asks, Types

LEMMA ReplacesType ==
  ASSUME Types, Replaces
  PROVE  /\ calls' = Append(calls, [command |-> "replace"]) /\ calls' \in Seq(Call)
         /\ script' = Blank /\ rendered' = Blank /\ loading' = TRUE
         /\ loaded' = loaded /\ page' = page
  BY CallType DEF Replaces, Clear, LoadShell, Types

LEMMA ResultType ==
  ASSUME Types, results # <<>>
  PROVE  /\ Head(results) \in Result /\ Tail(results) \in Seq(Result)
         /\ Head(results).documents \in Documents
<1>1. results \in Seq(Result)
  BY DEF Types
<1>2. Head(results) \in Result /\ Tail(results) \in Seq(Result)
  BY <1>1
<1> QED
  BY <1>2 DEF Result

LEMMA TypesNext == Types /\ [Next]_vars => Types'
<1> SUFFICES ASSUME Types, [Next]_vars PROVE Types'
  OBVIOUS
<1> USE Bounds
<1>1. CASE Edit
  BY <1>1 DEF Edit, Types, Documents, preview, panel
<1>2. CASE ClickRun \/ AutoRun
  <2>1. Run
    BY <1>2 DEF ClickRun, AutoRun
  <2>2. Asks("run") /\ "run" \in Command
    BY <2>1 DEF Run, Command
  <2> QED
    BY <2>1, <2>2, AsksType DEF Run, Types, Command, preview
<1>3. ASSUME NEW c \in Command, Request(c) PROVE Types'
  BY <1>3, AsksType DEF Request, Types, Command, preview
<1>4. CASE Stop
  BY <1>4 DEF Stop, StopPage, LoadShell, Types, Command, editor
<1>5. CASE ToggleAutoRun \/ Show
  BY <1>5 DEF ToggleAutoRun, Show, Types, editor, preview
<1>6. CASE Hide
  BY <1>6 DEF Hide, Types, Command, editor, preview
<1>7. ASSUME NEW yes \in BOOLEAN, Answer(yes) PROVE Types'
  <2>1. CASE Replaces
    BY <1>7, <2>1, ReplacesType DEF Answer, Types
  <2>2. CASE UNCHANGED <<calls, preview>>
    BY <1>7, <2>2 DEF Answer, Types, preview
  <2> QED
    BY <1>7, <2>1, <2>2 DEF Answer
<1>8. CASE PageLoads \/ \E ok \in BOOLEAN : LoadFinished(ok)
  BY <1>8 DEF PageLoads, LoadFinished, Types, editor, panel
<1>9. CASE Evaluate
  <2>1. calls' \in Seq(Call) /\ Head(calls) \in Call
    BY <1>9 DEF Evaluate, Types
  <2>2. CASE Head(calls).command = "replace"
    BY <1>9, <2>1, <2>2 DEF Evaluate, Types, preview, panel, Documents, starterDocuments
  <2>3. CASE Head(calls).command # "replace"
    <3> DEFINE r == [command |-> Head(calls).command, generation |-> Head(calls).generation,
                     documents |-> text]
    <3>1. r \in Result
      BY <2>1, <2>3, CallType DEF Result, Types
    <3>2. results' = Append(results, r)
      BY <1>9, <2>3 DEF Evaluate
    <3> HIDE DEF r
    <3>3. results' \in Seq(Result)
      BY <3>1, <3>2 DEF Types
    <3> QED
      BY <1>9, <2>1, <2>3, <3>3 DEF Evaluate, Types, preview, panel
  <2> QED
    BY <2>2, <2>3
<1>10. CASE ContentChanged
  BY <1>10 DEF ContentChanged, Types, preview
<1>11. CASE Callback
  <2>1. results # <<>> /\ results' = Tail(results)
        /\ UNCHANGED <<text, edits, changed, generation, autoRun, autoRunTimer, visible, wanted>>
    BY <1>11 DEF Callback
  <2>2. CASE UNCHANGED <<calls, preview>> /\ box' \in {box, "reset", "notice"}
    BY <2>1, <2>2, ResultType DEF Types, preview
  <2>3. CASE Render(Head(results).documents) /\ UNCHANGED <<calls, box>>
    BY <2>1, <2>3, ResultType DEF Types, Render, LoadShell
  <2>4. CASE Replaces /\ UNCHANGED box
    BY <2>1, <2>4, ResultType, ReplacesType DEF Types
  <2> QED
    BY <1>11, <2>2, <2>3, <2>4 DEF Callback
<1>12. CASE UNCHANGED vars
  BY <1>12 DEF vars, editor, preview, panel, Types
<1>13. User => Types'
  BY <1>1, <1>2, <1>3, <1>4, <1>5, <1>6, <1>7 DEF User
<1>14. Engine \/ Events => Types'
  BY <1>2, <1>8, <1>9, <1>10, <1>11 DEF Engine, Events
<1> QED
  BY <1>12, <1>13, <1>14 DEF Next

LEMMA TypeNext == TypeOK /\ [Next]_vars => TypeOK'
<1> SUFFICES ASSUME TypeOK, [Next]_vars PROVE TypeOK'
  OBVIOUS
<1>1. Types' /\ Flags'
  BY TypesNext, FlagsNext, TypeParts
<1> QED
  BY <1>1, Zenon DEF TypeOK, Types

\* The state of the playground keeps its type.
THEOREM TypeCorrect == Spec => []TypeOK
  BY TypeInit, TypeNext, PTL DEF Spec

-----------------------------------------------------------------------------
(* What comes back from the editor for the current generation was asked for by *)
(* the last command, since every command and every stop makes a new one.       *)

Answers ==
  /\ \A i \in DOMAIN calls : calls[i].command # "replace" =>
       /\ calls[i].generation <= generation
       /\ calls[i].generation = generation => calls[i].command = wanted
  /\ \A i \in DOMAIN results :
       /\ results[i].generation <= generation
       /\ results[i].generation = generation => results[i].command = wanted

\* A stopped preview has no script to run when its page has loaded.
Stopped == wanted = "stop" => script = Blank /\ (~loading => page = Blank)
Inv == Types /\ Answers /\ Stopped

LEMMA InvInit == Init => Inv
<1>1. Init => Types
  BY TypeInit, TypeParts
<1>2. Init => Answers
  BY DEF Init, Answers
<1>3. Init => Stopped
  BY DEF Init, Stopped
<1> QED
  BY <1>1, <1>2, <1>3 DEF Inv

LEMMA UnderWay ==
  ASSUME Types
  PROVE  /\ generation \in Nat /\ calls \in Seq(Call) /\ results \in Seq(Result)
         /\ \A i \in DOMAIN calls : calls[i].command # "replace" => calls[i].generation \in Nat
         /\ \A i \in DOMAIN results : results[i].generation \in Nat
<1>1. generation \in Nat /\ calls \in Seq(Call) /\ results \in Seq(Result)
  BY DEF Types
<1>2. \A r \in Result : r.generation \in Nat
  BY DEF Result
<1>3. \A i \in DOMAIN results : results[i] \in Result
  BY <1>1
<1>4. \A i \in DOMAIN calls : calls[i] \in Call
  BY <1>1
<1> QED
  BY <1>1, <1>2, <1>3, <1>4, CallType

\* A new generation leaves all that is under way behind.
LEMMA Superseding ==
  ASSUME Types, Answers, generation' = generation + 1, UNCHANGED <<calls, results>>
  PROVE  Answers'
  BY UnderWay DEF Answers

LEMMA AsksAnswers ==
  ASSUME Types, Answers, NEW command \in Command, Asks(command), UNCHANGED results
  PROVE  Answers'
<1> DEFINE c == [command |-> command, generation |-> generation + 1]
<1>1. calls' = Append(calls, c) /\ generation' = generation + 1 /\ wanted' = command
  BY AsksType
<1>2. c.command = command /\ c.generation = generation + 1
  OBVIOUS
<1> HIDE DEF c
<1>3. generation \in Nat /\ calls \in Seq(Call) /\ results \in Seq(Result)
  BY UnderWay
<1>4. \A i \in DOMAIN calls' : (i \in DOMAIN calls /\ calls'[i] = calls[i]) \/ calls'[i] = c
  BY <1>1, <1>3
<1>5. \A i \in DOMAIN calls : calls[i].command # "replace" => calls[i].generation \in Nat
  BY UnderWay
<1>6. \A i \in DOMAIN results : results[i].generation \in Nat
  BY UnderWay
<1>7. \A i \in DOMAIN calls' : calls'[i].command # "replace" =>
        /\ calls'[i].generation <= generation'
        /\ calls'[i].generation = generation' => calls'[i].command = wanted'
  BY <1>1, <1>2, <1>3, <1>4, <1>5 DEF Answers
<1>8. \A i \in DOMAIN results' :
        /\ results'[i].generation <= generation'
        /\ results'[i].generation = generation' => results'[i].command = wanted'
  BY <1>1, <1>3, <1>6 DEF Answers
<1> QED
  BY <1>7, <1>8 DEF Answers

LEMMA ReplacesAnswers ==
  ASSUME Types, Answers, Replaces \/ UNCHANGED calls, UNCHANGED <<generation, wanted>>,
         results' = results \/ (results # <<>> /\ results' = Tail(results))
  PROVE  Answers'
<1>1. \A i \in DOMAIN calls' :
        (i \in DOMAIN calls /\ calls'[i] = calls[i]) \/ calls'[i].command = "replace"
  <2>1. CASE UNCHANGED calls
    BY <2>1
  <2>2. CASE Replaces
    <3> DEFINE c == [command |-> "replace"]
    <3>1. calls' = Append(calls, c) /\ calls \in Seq(Call) /\ c.command = "replace"
      BY <2>2, ReplacesType DEF Types
    <3> HIDE DEF c
    <3> QED
      BY <3>1
  <2> QED
    BY <2>1, <2>2
<1>2. \A i \in DOMAIN results' : \E j \in DOMAIN results : results'[i] = results[j]
  BY DEF Types
<1> QED
  BY <1>1, <1>2 DEF Answers

LEMMA EvaluateAnswers ==
  ASSUME Types, Answers, Evaluate
  PROVE  Answers'
<1>1. /\ calls # <<>> /\ calls' = Tail(calls) /\ calls \in Seq(Call) /\ results \in Seq(Result)
      /\ UNCHANGED <<generation, wanted>>
  BY DEF Evaluate, Types, panel
<1>2. \A i \in DOMAIN calls' : \E j \in DOMAIN calls : calls'[i] = calls[j]
  BY <1>1
<1>3. Head(calls) = calls[1] /\ 1 \in DOMAIN calls
  BY <1>1
<1>4. CASE Head(calls).command = "replace"
  <2>1. results' = results
    BY <1>4 DEF Evaluate
  <2> QED
    BY <1>1, <1>2, <2>1 DEF Answers
<1>5. CASE Head(calls).command # "replace"
  <2> DEFINE r == [command |-> Head(calls).command, generation |-> Head(calls).generation,
                   documents |-> text]
  <2>1. results' = Append(results, r)
    BY <1>5 DEF Evaluate
  <2>2. r.command = calls[1].command /\ r.generation = calls[1].generation
    BY <1>3
  <2> HIDE DEF r
  <2>3. \A i \in DOMAIN results' : (i \in DOMAIN results /\ results'[i] = results[i]) \/ results'[i] = r
    BY <1>1, <2>1
  <2> QED
    BY <1>1, <1>2, <1>3, <1>5, <2>2, <2>3 DEF Answers
<1> QED
  BY <1>4, <1>5

LEMMA InvNext == Inv /\ [Next]_vars => Inv'
<1> SUFFICES ASSUME Inv, [Next]_vars PROVE Answers' /\ Stopped'
  BY TypesNext DEF Inv
<1>0. Types /\ Answers /\ Stopped
  BY DEF Inv
<1>1. CASE Edit \/ ToggleAutoRun \/ Show \/ ContentChanged
  BY <1>0, <1>1 DEF Edit, ToggleAutoRun, Show, ContentChanged, Answers, Stopped, editor, preview, panel
<1>2. CASE ClickRun \/ AutoRun
  <2>1. Asks("run") /\ "run" \in Command /\ UNCHANGED <<results, preview>>
    BY <1>2 DEF ClickRun, AutoRun, Run, Command
  <2>2. wanted' = "run"
    BY <2>1 DEF Asks
  <2> QED
    BY <1>0, <2>1, <2>2, AsksAnswers DEF Stopped
<1>3. ASSUME NEW c \in Command, Request(c) PROVE Answers' /\ Stopped'
  <2>1. Asks(c) /\ UNCHANGED <<results, preview>>
    BY <1>3 DEF Request
  <2>2. wanted' # "stop"
    BY <2>1 DEF Asks, Command
  <2> QED
    BY <1>0, <2>1, <2>2, AsksAnswers DEF Stopped
<1>4. CASE Stop
  <2>1. Answers'
    BY <1>0, <1>4, Superseding DEF Stop, editor
  <2>2. Stopped'
    BY <1>4 DEF Stop, StopPage, LoadShell, Stopped
  <2> QED
    BY <2>1, <2>2
<1>5. CASE Hide
  <2>1. Answers'
    BY <1>0, <1>5, Superseding DEF Hide, editor
  <2>2. Stopped'
    BY <1>5 DEF Hide, Stopped
  <2> QED
    BY <2>1, <2>2
<1>6. ASSUME NEW yes \in BOOLEAN, Answer(yes) PROVE Answers' /\ Stopped'
  <2>1. UNCHANGED <<results, generation, wanted>> /\ (Replaces \/ UNCHANGED <<calls, preview>>)
    BY <1>6 DEF Answer
  <2>2. Answers'
    BY <1>0, <2>1, ReplacesAnswers
  <2>3. Stopped'
    BY <1>0, <2>1, ReplacesType DEF Stopped, preview
  <2> QED
    BY <2>2, <2>3
<1>7. CASE PageLoads \/ \E ok \in BOOLEAN : LoadFinished(ok)
  BY <1>0, <1>7 DEF PageLoads, LoadFinished, Answers, Stopped, editor, panel
<1>8. CASE Evaluate
  <2>1. Stopped'
    BY <1>0, <1>8 DEF Evaluate, Stopped, preview, panel
  <2> QED
    BY <1>0, <1>8, <2>1, EvaluateAnswers
<1>9. CASE Callback
  <2>1. results # <<>> /\ results' = Tail(results) /\ UNCHANGED <<generation, wanted>>
    BY <1>9 DEF Callback
  <2>2. \/ UNCHANGED <<calls, preview>> \/ Replaces
        \/ /\ Head(results).generation = generation /\ Head(results).command = "run"
           /\ UNCHANGED calls
    BY <1>9 DEF Callback
  <2>3. Answers'
    BY <1>0, <2>1, <2>2, ReplacesAnswers
  <2>4. Head(results).generation = generation => Head(results).command = wanted
    <3>1. 1 \in DOMAIN results /\ Head(results) = results[1]
      BY <1>0, <2>1 DEF Types
    <3> QED
      BY <1>0, <3>1 DEF Answers
  <2>5. Stopped'
    BY <1>0, <2>1, <2>2, <2>4, ReplacesType DEF Stopped, preview
  <2> QED
    BY <2>3, <2>5
<1>10. CASE UNCHANGED vars
  BY <1>0, <1>10 DEF vars, editor, preview, panel, Answers, Stopped
<1>11. User => Answers' /\ Stopped'
  BY <1>1, <1>2, <1>3, <1>4, <1>5, <1>6 DEF User
<1>12. Engine \/ Events => Answers' /\ Stopped'
  BY <1>1, <1>2, <1>7, <1>8, <1>9 DEF Engine, Events
<1> QED
  BY <1>10, <1>11, <1>12 DEF Next

LEMMA InvAlways == Spec => []Inv
  BY InvInit, InvNext, PTL DEF Spec

\* After a stop the preview is blank as soon as its page is there, whatever the editor
\* still answers and whichever loads are under way.
THEOREM StopIsBlank == Spec => []StopLeavesBlank
<1>1. Inv => StopLeavesBlank
  BY DEF Inv, Stopped, StopLeavesBlank
<1> QED
  BY <1>1, InvAlways, PTL

LEMMA OnlyRunsRender == Inv /\ [Next]_vars => (Renders => wanted = "run")
<1> SUFFICES ASSUME Inv, [Next]_vars, Renders PROVE wanted = "run"
  OBVIOUS
<1>1. script' # Blank /\ <<script', rendered'>> # <<script, rendered>>
  BY DEF Renders
<1>2. Callback
  <2>1. ~UNCHANGED vars /\ ~UNCHANGED preview
    BY <1>1 DEF vars, preview
  <2>2. ~User
    <3>1. ~Stop
      BY <1>1 DEF Stop, StopPage
    <3>2. ~Replaces
      BY <1>1 DEF Replaces, Clear
    <3> QED
      BY <2>1, <3>1, <3>2 DEF User, Edit, ClickRun, Run, ToggleAutoRun, Hide, Show, Request, Answer
  <2>3. ~Engine
    BY <1>1 DEF Engine, PageLoads, LoadFinished
  <2> QED
    BY <2>1, <2>2, <2>3 DEF Next, Events, Evaluate, ContentChanged, AutoRun, Run
<1>3. results # <<>> /\ Head(results).generation = generation /\ Head(results).command = "run"
  BY <1>1, <1>2 DEF Callback, Replaces, Clear, preview
<1>4. 1 \in DOMAIN results /\ Head(results) = results[1]
  BY <1>3 DEF Inv, Types
<1> QED
  BY <1>3, <1>4 DEF Inv, Answers

\* Whatever runs, commands, stops and answers interleave, documents are rendered only
\* while a run is what was asked for last.
THEOREM RendersOnlyTheLastRun == Spec => RendersWhatIsWanted
<1>1. Inv /\ [Next]_vars => [Renders => wanted = "run"]_vars
  BY OnlyRunsRender
<1> QED
  BY <1>1, InvAlways, PTL DEF Spec, RendersWhatIsWanted
=============================================================================
