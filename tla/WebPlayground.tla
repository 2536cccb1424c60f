--------------------------- MODULE WebPlayground ---------------------------
(* The web playground: the panel asks the editor page, in another process,   *)
(* for its documents and does with the answer what was asked for last; the    *)
(* preview shows them by loading an empty page and running a script when it    *)
(* has loaded.  Documents are abstracted to the number of the edit that made   *)
(* them, 0 for the starter documents.                                        *)
EXTENDS Naturals, Sequences

CONSTANTS
  MaxEdits, MaxRequests,   \* bounds on edits, and on generations
  MaxCalls,                \* calls under way to and from the editor
  Blank                    \* a preview that shows no documents

ASSUME WebPlaygroundAssumption ==
  {MaxEdits, MaxRequests, MaxCalls} \subseteq Nat \ {0} /\ Blank \notin 0 .. MaxEdits

Documents == 0 .. MaxEdits
starterDocuments == 0

VARIABLES
  text, edits,      \* the documents in the editor, the edits so far
  calls,            \* runJavaScript calls the editor has not evaluated
  results,          \* its answers
  changed,          \* its message contentChanged
  generation,       \* m_runGeneration
  autoRun, autoRunTimer, visible,
  box,              \* a message box is open, to confirm a reset or to tell something
  script,           \* m_pendingRenderScript
  loading, loaded,  \* a load of the shell has begun; its page is there, not finished
  page,             \* the documents that run in the preview
  rendered,         \* history: those given to render last, if not cleared since
  wanted            \* history: the last command

editor == <<text, edits, calls, results, changed>>
preview == <<script, loading, loaded, page, rendered>>
panel == <<generation, autoRun, autoRunTimer, visible, box, wanted>>
vars == <<editor, preview, panel>>

Command == {"run", "reset", "write"}
Call == [command : Command, generation : 1 .. MaxRequests] \cup [command : {"replace"}]
Result == [command : Command, generation : 1 .. MaxRequests, documents : Documents]
Shown == Documents \cup {Blank}

Flags ==
  /\ changed \in BOOLEAN /\ autoRun \in BOOLEAN /\ autoRunTimer \in BOOLEAN
  /\ visible \in BOOLEAN /\ loading \in BOOLEAN /\ loaded \in BOOLEAN

TypeOK ==
  /\ text \in Documents /\ edits \in Documents
  /\ calls \in Seq(Call) /\ results \in Seq(Result)
  /\ generation \in 0 .. MaxRequests
  /\ Flags
  /\ box \in {"none", "reset", "notice"}
  /\ script = Blank \/ script \in Documents
  /\ page = Blank \/ page \in Documents
  /\ rendered = Blank \/ rendered \in Documents
  /\ wanted \in Command \cup {"none", "stop", "hide"}

\* The panel has just been shown: the preview loads its shell.
Init ==
  /\ text = starterDocuments /\ edits = 0 /\ calls = <<>> /\ results = <<>> /\ changed = FALSE
  /\ generation = 0
  /\ autoRun = FALSE /\ autoRunTimer = FALSE /\ visible = TRUE
  /\ box = "none"
  /\ script = Blank /\ loading = TRUE /\ loaded = FALSE /\ page = Blank /\ rendered = Blank
  /\ wanted = "none"

-----------------------------------------------------------------------------
(* The preview.                                                            *)

\* A load that had not begun to show its page is given up for the new one.
LoadShell == loading' = TRUE

Render(documents) ==
  /\ script' = documents /\ rendered' = documents
  /\ LoadShell /\ UNCHANGED <<loaded, page>>

Clear ==
  /\ script' = Blank /\ rendered' = Blank
  /\ LoadShell /\ UNCHANGED <<loaded, page>>

\* Mutant of StopPage: the script waits on.
StopLoading == loaded' = FALSE /\ LoadShell /\ UNCHANGED <<script, page, rendered>>
StopPage ==
  /\ script' = Blank /\ rendered' = Blank
  /\ loaded' = FALSE /\ LoadShell
  /\ UNCHANGED page

\* The web engine: the new page replaces the old; then it has loaded, or failed.
PageLoads ==
  /\ loading
  /\ loading' = FALSE /\ loaded' = TRUE
  /\ page' = Blank
  /\ UNCHANGED <<editor, panel, script, rendered>>

LoadFinished(ok) ==
  /\ loaded
  /\ loaded' = FALSE
  /\ IF ok /\ script # Blank
     THEN page' = script /\ script' = Blank
     ELSE UNCHANGED <<page, script>>
  /\ UNCHANGED <<editor, panel, loading, rendered>>

-----------------------------------------------------------------------------
(* The editor page.                                                        *)

Edit ==
  /\ visible /\ box = "none"
  /\ edits < MaxEdits
  /\ edits' = edits + 1 /\ text' = edits + 1
  /\ changed' = TRUE
  /\ UNCHANGED <<calls, results, preview, panel>>

Evaluate ==
  /\ calls # <<>>
  /\ calls' = Tail(calls)
  /\ LET call == Head(calls)
     IN  IF call.command = "replace"
         THEN text' = starterDocuments /\ changed' = TRUE /\ UNCHANGED results
         ELSE /\ results' = Append(results, [command |-> call.command, generation |-> call.generation,
                                             documents |-> text])
              /\ UNCHANGED <<text, changed>>
  /\ UNCHANGED <<edits, preview, panel>>

\* Mutant: the timer of an earlier change is not started again, nor a first one.
ContentChangedUnseen ==
  /\ changed /\ changed' = FALSE
  /\ UNCHANGED <<text, edits, calls, results, preview, panel>>

ContentChanged ==
  /\ changed /\ changed' = FALSE
  /\ autoRunTimer' = (autoRunTimer \/ (autoRun /\ visible))
  /\ UNCHANGED <<text, edits, calls, results, preview, generation, autoRun, visible, box, wanted>>

-----------------------------------------------------------------------------
(* The panel.                                                              *)

\* A new generation, and a request that carries it.
Asks(command) ==
  /\ Len(calls) < MaxCalls /\ generation < MaxRequests
  /\ generation' = generation + 1
  /\ calls' = Append(calls, [command |-> command, generation |-> generation'])
  /\ wanted' = command

Run ==
  /\ visible /\ Asks("run")
  /\ autoRunTimer' = FALSE
  /\ UNCHANGED <<text, edits, results, changed, preview, autoRun, visible, box>>

ClickRun == box = "none" /\ Run
AutoRun == autoRunTimer /\ Run

\* Reset; Open in Browser and Export Project, which write the documents.
Request(command) ==
  /\ box = "none" /\ visible /\ command # "run"
  /\ Asks(command)
  /\ UNCHANGED <<text, edits, results, changed, preview, autoRun, autoRunTimer, visible, box>>

\* Mutant of Stop: a run that was asked for goes on.
StopPreviewOnly ==
  /\ box = "none" /\ visible
  /\ autoRunTimer' = FALSE /\ UNCHANGED generation
  /\ wanted' = "stop"
  /\ StopPage
  /\ UNCHANGED <<editor, autoRun, visible, box>>
Stop ==
  /\ box = "none" /\ visible /\ generation < MaxRequests
  /\ autoRunTimer' = FALSE /\ generation' = generation + 1
  /\ wanted' = "stop"
  /\ StopPage
  /\ UNCHANGED <<editor, autoRun, visible, box>>

ToggleAutoRun ==
  /\ box = "none" /\ visible
  /\ autoRun' = ~autoRun /\ autoRunTimer' = ~autoRun
  /\ UNCHANGED <<editor, preview, generation, visible, box, wanted>>

\* hideEvent: the dock is closed, or the window minimized even under a box.
Hide ==
  /\ visible /\ generation < MaxRequests
  /\ visible' = FALSE
  /\ autoRunTimer' = FALSE /\ generation' = generation + 1
  /\ wanted' = "hide"
  /\ UNCHANGED <<editor, preview, autoRun, box>>

Show ==
  /\ ~visible /\ visible' = TRUE
  /\ UNCHANGED <<editor, preview, generation, autoRun, autoRunTimer, box, wanted>>

Replaces ==
  /\ calls' = Append(calls, [command |-> "replace"])
  /\ Clear

\* The callback of a request; it asks before it discards a draft.
Callback ==
  /\ results # <<>> /\ results' = Tail(results)
  /\ LET result == Head(results)
     IN  \/ /\ result.generation # generation
            /\ UNCHANGED <<calls, preview, box>>
         \/ /\ result.generation = generation /\ result.command = "run"
            /\ IF visible THEN Render(result.documents) ELSE UNCHANGED preview
            /\ UNCHANGED <<calls, box>>
         \/ /\ result.generation = generation /\ result.command = "reset"
            /\ IF result.documents = starterDocuments
               THEN Replaces /\ UNCHANGED box
               ELSE box' = "reset" /\ UNCHANGED <<calls, preview>>
         \/ /\ result.generation = generation /\ result.command = "write"
            /\ box' = "notice" /\ UNCHANGED <<calls, preview>>
  /\ UNCHANGED <<text, edits, changed, generation, autoRun, autoRunTimer, visible, wanted>>

\* The box is answered; a confirmed reset goes on, whatever was asked for since.
Answer(yes) ==
  /\ box # "none" /\ box' = "none"
  /\ IF yes /\ box = "reset" THEN Replaces ELSE UNCHANGED <<calls, preview>>
  /\ UNCHANGED <<text, edits, results, changed, generation, autoRun, autoRunTimer, visible, wanted>>

Engine == PageLoads \/ \E ok \in BOOLEAN : LoadFinished(ok)
User ==
  \/ Edit \/ ClickRun \/ Stop \/ ToggleAutoRun \/ Hide \/ Show
  \/ \E c \in Command : Request(c)
  \/ \E yes \in BOOLEAN : Answer(yes)
Events == Evaluate \/ ContentChanged \/ AutoRun \/ Callback
Next == User \/ Engine \/ Events

Spec == Init /\ [][Next]_vars
\* The event loop delivers timers, messages and results; the web engine loads.
FairSpec ==
  /\ Spec
  /\ WF_vars(Evaluate) /\ WF_vars(ContentChanged) /\ WF_vars(AutoRun) /\ WF_vars(Callback)
  /\ WF_vars(PageLoads) /\ WF_vars(\E ok \in BOOLEAN : LoadFinished(ok))

-----------------------------------------------------------------------------
(* Properties.                                                             *)

Renders == script' # Blank /\ <<script', rendered'>> # <<script, rendered>>

\* Documents are rendered only while a run is the last thing that was asked for:
\* nothing runs after a stop, a newer command or the closing of the dock.
RendersWhatIsWanted == [][Renders => wanted = "run"]_vars

\* After a stop the preview is blank as soon as its page is there, and stays so.
StopLeavesBlank == wanted = "stop" /\ ~loading => page = Blank

\* With automatic runs, and no other command after them, what the user typed last
\* is what was rendered last.
AutoRunCatchesUp ==
  <>[](autoRun /\ visible /\ wanted = "run" /\ generation < MaxRequests) => <>[](rendered = text)

\* A reset retains no old execution state
\* (docs/superpowers/specs/2026-07-13-web-playground-design.md:34): once it was
\* confirmed, the documents it discarded are not rendered.
ResetForgets ==
  [][Renders => ~(script' # starterDocuments /\ text = starterDocuments)]_vars
=============================================================================
