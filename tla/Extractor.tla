------------------------------ MODULE Extractor ------------------------------
(****************************************************************************)
(* The archive extractor (src/src/libs/core/extractor.cpp): an object that  *)
(* lives on a thread of its own.  Callers post jobs to it (a queued         *)
(* invocation, so the jobs form a FIFO queue), it works on one job at a     *)
(* time, and every job ends with exactly one signal, `completed' or         *)
(* `error', queued for delivery on the GUI thread.                          *)
(*                                                                          *)
(* Archives are abstracted to how the bytes in the file came to be there:   *)
(*   none    - no such file          part    - a prefix of one transfer     *)
(*   whole   - one transfer, closed  mixed   - bytes of several transfers   *)
(*   corrupt - mixed, and closed                                            *)
(*   moved   - closed, and then moved into a docset by a tarix job          *)
(* Only a closed file is handed to the extractor, and no more is written to *)
(* it; only a whole one can be extracted.                                   *)
(* A docset directory is `full' when the archive was read to its end: an    *)
(* entry whose file cannot be opened for writing is skipped by the code.    *)
(****************************************************************************)
EXTENDS Naturals, Sequences, FiniteSets

CONSTANTS Docset,  \* docset names
          File,    \* temporary archive files (bounds how many exist at once)
          None     \* the null value

ASSUME NoneAssumption == None \notin Docset /\ None \notin File

Closed   == {"whole", "corrupt", "moved"}
Missing  == {"none", "moved"}
Contents == {"none", "part", "mixed"} \cup Closed
Trees    == {"absent", "partial", "full"}

VARIABLES file,     \* contents of the temporary archives
          disk,     \* what <name>.docset holds in the docset directory
          queue,    \* jobs posted and not started
          running,  \* the job the thread works on, or None
          signals   \* outcomes emitted and not delivered

extractorVars == <<file, disk, queue, running, signals>>

\* tarix: serve the documents from the archive instead of extracting them;
\* body: the archive as it was when the thread opened it.
Job     == [file : File, docset : Docset, tarix : BOOLEAN]
Running == [file : File, docset : Docset, tarix : BOOLEAN, body : Contents]
Outcome == [file : File, ok : BOOLEAN]

ASSUME RunningAssumption == None \notin Running

ExtractorInit(installed) ==
  /\ file = [f \in File |-> "none"]
  /\ disk = [d \in Docset |-> IF d \in installed THEN "full" ELSE "absent"]
  /\ queue = <<>>
  /\ running = None
  /\ signals = <<>>

\* Files some job or signal still refers to.
JobFiles ==
  {queue[i].file : i \in DOMAIN queue}
    \cup {signals[i].file : i \in DOMAIN signals}
    \cup (IF running = None THEN {} ELSE {running.file})

Post(f, d, tarix) ==
  queue' = Append(queue, [file |-> f, docset |-> d, tarix |-> tarix])

\* `heard' says whether any object is connected to the extractor's signals.
Emit(f, ok, heard) ==
  signals' = IF heard THEN Append(signals, [file |-> f, ok |-> ok]) ELSE signals

\* The head job's archive is gone: opening it fails.  A tarix job has created
\* the docset directory by then, for the index it later removes.
OpenFails(heard) ==
  /\ running = None
  /\ queue # <<>>
  /\ LET j == Head(queue) IN
       /\ file[j.file] \in Missing
       /\ queue' = Tail(queue)
       /\ Emit(j.file, FALSE, heard)
       /\ disk' = IF j.tarix /\ disk[j.docset] = "absent"
                    THEN [disk EXCEPT ![j.docset] = "partial"] ELSE disk
  /\ UNCHANGED <<file, running>>

\* The thread opens the archive and starts writing into the docset directory.
\* A tarix index that cannot be read back turns the job into a full extraction.
Begin ==
  /\ running = None
  /\ queue # <<>>
  /\ LET j == Head(queue) IN
       /\ file[j.file] \notin Missing
       /\ queue' = Tail(queue)
       /\ disk' = [disk EXCEPT ![j.docset] = "partial"]
       /\ \E usable \in IF j.tarix /\ file[j.file] = "whole"
                          THEN BOOLEAN ELSE {FALSE} :
            running' = [file |-> j.file, docset |-> j.docset,
                        tarix |-> usable, body |-> file[j.file]]
  /\ UNCHANGED <<file, signals>>

\* Mutant of Succeed: a read error ends the loop like the end of the archive.
SucceedOnReadError(heard) ==
  /\ running # None
  /\ disk' = [disk EXCEPT ![running.docset] = "full"]
  /\ Emit(running.file, TRUE, heard)
  /\ running' = None
  /\ UNCHANGED <<file, queue>>

\* The last entry is written; a tarix job then moves (or, across file systems,
\* copies) the archive itself into the docset.  A directory renamed away under
\* the thread is recreated with only the entries that were still to come.
Succeed(heard) ==
  /\ running # None
  /\ running.body = "whole"
  /\ running.tarix => file[running.file] \notin Missing
  /\ disk' = [disk EXCEPT ![running.docset] =
                IF @ = "absent" THEN "partial" ELSE "full"]
  /\ \E moved \in IF running.tarix THEN BOOLEAN ELSE {FALSE} :
       file' = IF moved THEN [file EXCEPT ![running.file] = "moved"] ELSE file
  /\ Emit(running.file, TRUE, heard)
  /\ running' = None
  /\ UNCHANGED queue

\* Mutants of Fail: after a failed write extractEntries reports success, or returns
\* without a signal.
FailAsSuccess(heard) ==
  /\ running # None
  /\ disk' = [disk EXCEPT ![running.docset] = "partial"]
  /\ Emit(running.file, TRUE, heard)
  /\ running' = None
  /\ UNCHANGED <<file, queue>>

FailSilently(heard) ==
  /\ running # None
  /\ disk' = [disk EXCEPT ![running.docset] = "partial"]
  /\ running' = None
  /\ UNCHANGED <<file, queue, signals>>

\* A damaged archive, a failed write, or an archive that cannot be moved.  What
\* has been extracted stays where it is.
Fail(heard) ==
  /\ running # None
  /\ disk' = [disk EXCEPT ![running.docset] = "partial"]
  /\ Emit(running.file, FALSE, heard)
  /\ running' = None
  /\ UNCHANGED <<file, queue>>
=============================================================================
