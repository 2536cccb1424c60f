---------------------------- MODULE InstallPromise ----------------------------
(****************************************************************************)
(* What installing docsets promises, whatever the network, the extractor    *)
(* and the user do: each docset goes through one installation at a time,    *)
(* first fetching its archive, then extracting it; it is usable only when   *)
(* an extraction that started while it was not usable has come to its end.  *)
(****************************************************************************)
CONSTANT Docset

VARIABLES stage,     \* where the installation of each docset is
          installed  \* the docsets that can be used

Init ==
  /\ stage = [d \in Docset |-> "idle"]
  /\ installed \in SUBSET Docset

\* The installation of d goes from one stage to another.
Moves(d, from, to) ==
  /\ stage[d] = from
  /\ stage' = [stage EXCEPT ![d] = to]

Fetch(d) == UNCHANGED installed /\ Moves(d, "idle", "fetching")

\* A new version is extracted only once the old one is out of use.
Extract(d) == installed' = installed \ {d} /\ Moves(d, "fetching", "extracting")

Finish(d) ==
  /\ d \notin installed
  /\ installed' = installed \cup {d}
  /\ Moves(d, "extracting", "idle")

\* An extraction that failed leaves the docset unusable.
Fail(d) ==
  /\ d \notin installed
  /\ UNCHANGED installed
  /\ Moves(d, "extracting", "idle")

\* Only what has not been handed to the extractor can be given up.  An update that
\* is given up because its archive cannot be stored loses the old version.
GiveUp(D) ==
  /\ installed' \in {installed, installed \ D}
  /\ \A d \in D : stage[d] = "fetching"
  /\ stage' = [d \in Docset |-> IF d \in D THEN "idle" ELSE stage[d]]

Remove(D) ==
  /\ installed' = installed \ D
  /\ UNCHANGED stage

\* The dialog is gone, perhaps with the process.
Forget ==
  /\ installed' \in {installed, {}}
  /\ stage' = [d \in Docset |-> "idle"]

Next ==
  \/ \E d \in Docset : Fetch(d) \/ Extract(d) \/ Finish(d) \/ Fail(d)
  \/ \E D \in SUBSET Docset : GiveUp(D) \/ Remove(D)
  \/ Forget

Spec == Init /\ [][Next]_<<stage, installed>>
=============================================================================
