--------------------- MODULE DocsetsDialogPipeline_proofs ---------------------
(****************************************************************************)
(* The way of a docset through the Docset Library dialog: from its download *)
(* through the extractor's queue into the registry, for every set of        *)
(* docsets, archives and network replies.                                   *)
(****************************************************************************)
EXTENDS DocsetsDialog_proofs

(* What is loaded has a directory.                                           *)


LEMMA DirectoryNext == IInv /\ LoadedHasDirectory /\ [Next]_vars => LoadedHasDirectory'
<1> SUFFICES ASSUME IInv, LoadedHasDirectory, [Next]_vars PROVE LoadedHasDirectory'
  OBVIOUS
<1> USE DEF LoadedHasDirectory
<1>1. disk \in [Docset -> Trees] /\ loaded \subseteq Docset
  BY DEF IInv, ExtractorOK, RegistryOK
<1>2. CASE User
  <2>1. CASE Quit
    BY <2>1 DEF Quit, ProcessEnds
  <2>2. CASE Start
    BY <2>2 DEF Start, extractorVars
  <2>3. CASE ~Quit /\ ~Start
    BY <1>2, <2>3 DEF User, OpenDialog, CloseDialog, DownloadAvailable, UpdateInstalled, AddDashFeed,
        Refresh, CancelDownloads, AskRemove, extractorVars, registryVars
  <2> QED BY <2>1, <2>2, <2>3
<1>3. ASSUME NEW N, NEW below, RemoveDocsets(N, below) PROVE LoadedHasDirectory'
  <2> DEFINE Gone(D) == disk' = [d \in Docset |-> IF d \in D THEN "absent" ELSE disk[d]]
  <2>1. CASE Gone(N \cap loaded) /\ loaded' = loaded \ (N \cap loaded)
    BY <1>1, <2>1
  <2>2. ASSUME NEW d, NEW D, Gone(D), loaded' = loaded \ (D \cup {d}) PROVE LoadedHasDirectory'
    BY <1>1, <2>2
  <2> QED BY <1>3, <2>1, <2>2 DEF RemoveDocsets
<1>4. CASE Answer
  <2>1. CASE ConfirmRemove
    BY <1>3, <2>1 DEF ConfirmRemove, ProcessEnds
  <2>2. CASE DismissNotRemoved
    BY <1>3, <2>2 DEF DismissNotRemoved, registryVars
  <2>3. CASE ~ConfirmRemove /\ ~DismissNotRemoved
    BY <1>4, <2>3 DEF Answer, AnswerDownloadFailed, AnswerIndexFailed, AnswerBadCatalog, DismissNotice,
        DismissExtractFailed, DeclineRemove, extractorVars, registryVars
  <2> QED BY <2>1, <2>2, <2>3
<1>5. CASE Network
  <2> SUFFICES ASSUME NEW q \in Request,
                      \/ DownloadProgress(q) \/ DownloadFails(q) \/ CatalogArrives(q)
                      \/ FeedArrives(q) \/ DocsetArrives(q) \/ IndexArrives(q)
               PROVE  LoadedHasDirectory'
    BY <1>5 DEF Network
  <2>1. CASE DocsetArrives(q)
    <3>1. CASE UNCHANGED <<disk, registryVars>>
      BY <3>1 DEF registryVars
    <3>2. ASSUME NEW d, loaded' = loaded \ {d},
                 disk' = [disk EXCEPT ![d] = "absent"] \/ UNCHANGED extractorVars
          PROVE  LoadedHasDirectory'
      BY <1>1, <3>2 DEF extractorVars
    <3> QED BY <2>1, <3>1, <3>2 DEF DocsetArrives
  <2>2. CASE ~DocsetArrives(q)
    BY <2>2 DEF DownloadProgress, DownloadFails, CatalogArrives, FeedArrives, IndexArrives,
        extractorVars, registryVars
  <2> QED BY <2>1, <2>2
<1>6. CASE ExtractorThread
  <2>1. UNCHANGED loaded
    BY <1>6 DEF ExtractorThread, registryVars
  <2>2. \A d \in Docset : disk[d] # "absent" => disk'[d] # "absent"
    BY <1>1, <1>6 DEF ExtractorThread, OpenFails, Begin, Succeed, Fail
  <2> QED BY <1>1, <2>1, <2>2
<1>7. CASE Signal
  <2>1. CASE ExtractionCompleted
    <3>1. PICK L : /\ \A d \in Named(Head(signals).file) : disk[d] = "absent" => d \notin L
                   /\ L \subseteq Named(Head(signals).file)
                   /\ loaded' = loaded \cup L
      BY <2>1 DEF ExtractionCompleted
    <3>2. UNCHANGED disk
      BY <2>1 DEF ExtractionCompleted
    <3> QED BY <3>1, <3>2
  <2>2. CASE ExtractionError
    BY <2>2 DEF ExtractionError, registryVars
  <2> QED BY <1>7, <2>1, <2>2 DEF Signal
<1>8. CASE UNCHANGED vars
  BY <1>8 DEF vars, extractorVars, registryVars
<1> QED BY <1>2, <1>4, <1>5, <1>6, <1>7, <1>8 DEF Next

\* For all docsets, with crashes and restarts, removals that fail halfway and
\* extractions that leave half a directory: what is registered has a directory.
THEOREM WhatIsLoadedHasADirectory == Spec => []LoadedHasDirectory
<1>1. Init => LoadedHasDirectory
  BY DEF Init, ExtractorInit, LoadedHasDirectory
<1> QED BY <1>1, DirectoryNext, Invariance, PTL DEF Spec

------------------------------------------------------------------------------
(* Archives.  No two docsets hold the same one, and one that is held has     *)
(* been written to; a new one is not one the extractor or its signals still  *)
(* name; a closed one keeps its contents until the docset that holds it lets *)
(* it go, and while it is named by them no other is written in its place.    *)

Distinct ==
  /\ \A d, e \in Docset : tmp[d] = tmp[e] /\ tmp[d] # None => d = e
  /\ \A d \in Docset : tmp[d] # None => file[tmp[d]] # "none"

ArchiveStep ==
  /\ \A d \in Docset :
       \/ tmp'[d] \in {tmp[d], None}
       \/ tmp[d] = None /\ tmp'[d] \in File /\ tmp'[d] \notin JobFiles
  /\ \A f \in File : file[f] \in Closed =>
       \/ file'[f] = file[f]
       \/ file'[f] = "none" /\ \A d \in Docset : tmp'[d] # f
  /\ \A f \in JobFiles : file[f] \in Closed \cup {"none"} => file'[f] \in {file[f], "none"}

LEMMA SameArchives ==
  ASSUME Distinct, UNCHANGED <<file, tmp>>
  PROVE  ArchiveStep /\ Distinct'
<1>1. Distinct'
  BY DEF Distinct
<1>2. \A d \in Docset : tmp'[d] \in {tmp[d], None}
  OBVIOUS
<1>3. \A f : file'[f] = file[f]
  OBVIOUS
<1> QED BY <1>1, <1>2, <1>3 DEF ArchiveStep

LEMMA JobFilesType == IInv => JobFiles \subseteq File
<1> SUFFICES ASSUME IInv PROVE JobFiles \subseteq File
  OBVIOUS
<1>1. /\ \A i \in DOMAIN queue : queue[i] \in Job
      /\ \A i \in DOMAIN signals : signals[i] \in Outcome
  BY ElementOfSeq, LenProperties DEF IInv, ExtractorOK
<1> QED BY <1>1, RunningType DEF JobFiles, Job, Outcome, IInv

LEMMA DropTmpArchives ==
  ASSUME IInv, Distinct, NEW D \in SUBSET Docset, DropTmp(D)
  PROVE  ArchiveStep /\ Distinct'
<1>1. /\ tmp' = [d \in Docset |-> IF d \in D THEN None ELSE tmp[d]]
      /\ file' = [f \in File |-> IF \E d \in D : tmp[d] = f THEN "none" ELSE file[f]]
  BY DEF DropTmp
<1>2. \A d \in Docset : \/ tmp'[d] = None
                        \/ tmp'[d] = tmp[d] /\ d \notin D
  BY <1>1
<1>4. ASSUME NEW f \in File
      PROVE  \/ file'[f] = file[f]
             \/ file'[f] = "none" /\ \A d \in Docset : tmp'[d] # f
  <2>1. CASE \E d \in D : tmp[d] = f
    <3>1. PICK e \in D : tmp[e] = f
      BY <2>1
    <3>2. f # None
      BY NoneAssumption
    <3>3. \A d \in Docset : tmp[d] = f => d \in D
      BY <3>1, <3>2 DEF Distinct
    <3> QED BY <1>1, <1>2, <2>1, <3>2, <3>3
  <2>2. CASE ~ \E d \in D : tmp[d] = f
    BY <1>1, <2>2
  <2> QED BY <2>1, <2>2
<1>5. \A d \in Docset : tmp'[d] \in {tmp[d], None}
  BY <1>2
<1>6. Distinct'
  <2>1. \A d \in Docset : tmp'[d] # None => tmp'[d] \in File
    BY <1>5 DEF IInv, DialogOK
  <2>2. \A d \in Docset : tmp'[d] # None => file'[tmp'[d]] = file[tmp[d]]
    BY <1>2, <1>4, <2>1
  <2> QED BY <1>2, <2>2 DEF Distinct
<1> QED BY <1>4, <1>5, <1>6, JobFilesType DEF ArchiveStep

\* What is written is written to the archive the docset holds, or to a new one.
LEMMA WriteArchives ==
  ASSUME IInv, Distinct, NEW d \in Docset, NEW f \in TmpFor(d), NEW c,
         file[f] \in Closed => c = file[f], c # "none",
         tmp' = [tmp EXCEPT ![d] = f], file' = [file EXCEPT ![f] = c]
  PROVE  ArchiveStep /\ Distinct'
<1>1. f \in File /\ tmp \in [Docset -> File \cup {None}] /\ file \in [File -> Contents]
  BY TmpForType DEF IInv, DialogOK, ExtractorOK
<1>2. \/ tmp[d] = f
      \/ tmp[d] = None /\ f \notin JobFiles /\ file[f] = "none" /\ \A e \in Docset : tmp[e] # f
  BY DEF TmpFor, FilesInUse
<1>3. tmp'[d] = f /\ \A e \in Docset \ {d} : tmp'[e] = tmp[e]
  BY <1>1
<1>4. Distinct'
  <2>1. \A e, g \in Docset : tmp'[e] = tmp'[g] /\ tmp'[e] # None => e = g
    BY <1>2, <1>3 DEF Distinct
  <2>2. ASSUME NEW e \in Docset, tmp'[e] # None PROVE file'[tmp'[e]] # "none"
    <3>1. CASE tmp'[e] = f
      BY <1>1, <3>1
    <3>2. CASE tmp'[e] # f
      BY <1>1, <1>3, <2>2, <3>2 DEF Distinct
    <3> QED BY <3>1, <3>2
  <2> QED BY <2>1, <2>2 DEF Distinct
<1>5. \A g \in File : file[g] \in Closed => file'[g] = file[g]
  BY <1>1
<1>6. \A e \in Docset : \/ tmp'[e] \in {tmp[e], None}
                        \/ tmp[e] = None /\ tmp'[e] \in File /\ tmp'[e] \notin JobFiles
  BY <1>1, <1>2, <1>3
<1>7. ASSUME NEW g \in JobFiles, file[g] \in Closed \cup {"none"}
      PROVE  file'[g] = file[g]
  <2>1. CASE g = f
    <3>1. tmp[d] = f
      BY <1>2, <2>1
    <3>2. file[f] # "none"
      BY <1>1, <3>1, NoneAssumption DEF Distinct
    <3> QED BY <1>1, <1>7, <2>1, <3>2
  <2>2. CASE g # f
    BY <1>1, <1>7, <2>2, JobFilesType
  <2> QED BY <2>1, <2>2
<1> QED BY <1>4, <1>5, <1>6, <1>7 DEF ArchiveStep

LEMMA SealedKeeps ==
  ASSUME NEW r, NEW f
  PROVE  /\ file[f] \in Closed => Appended(r, f) = file[f] /\ Sealed(r, f) = file[f]
         /\ Sealed(r, f) = "whole" => file[f] \in {"whole", "none", "part"}
         /\ file[f] \in Contents => Sealed(r, f) \in Closed
         /\ Appended(r, f) # "none" /\ Sealed(r, f) # "none"
  BY DEF Appended, Sealed, Closed, Contents

LEMMA StoreArchives ==
  ASSUME IInv, Distinct, NEW r \in Reply, r.docset \in Docset, NEW rs, NEW below,
         StoreArchive(r, rs, below)
  PROVE  ArchiveStep /\ Distinct'
<1>1. CASE UNCHANGED <<file, tmp>>
  BY <1>1, SameArchives
<1>2. ASSUME NEW f \in TmpFor(r.docset), tmp' = [tmp EXCEPT ![r.docset] = f],
             file' = [file EXCEPT ![f] = Sealed(r, f)]
      PROVE  ArchiveStep /\ Distinct'
  BY <1>2, SealedKeeps, WriteArchives
<1> QED BY <1>1, <1>2 DEF StoreArchive

LEMMA AllArchivesGo ==
  ASSUME IInv, Distinct, DialogGone
  PROVE  ArchiveStep /\ Distinct'
  BY DropTmpArchives DEF DialogGone

LEMMA ArchivesNext ==
  ASSUME IInv, Distinct, User \/ Answer \/ Network \/ Signal
  PROVE  ArchiveStep /\ Distinct'
<1>1. CASE User
  <2>1. CASE CancelDownloads
    <3>1. PICK D \in SUBSET Docset : DropTmp(D)
      <4> DEFINE Live == {replies[q] : q \in Request} \ {None}
                 D == {r.docset : r \in {l \in Live : l.type \in {"Docset", "TarixIndex"}}}
      <4>1. DropTmp(D)
        BY <2>1 DEF CancelDownloads
      <4>2. Live \subseteq Reply
        BY DEF IInv, DialogOK
      <4>3. D \subseteq Docset
        BY <4>2, ReplyFields
      <4> QED BY <4>1, <4>3
    <3> QED BY <3>1, DropTmpArchives
  <2>2. CASE Quit \/ CloseDialog
    BY <2>2, AllArchivesGo DEF Quit, ProcessEnds, CloseDialog
  <2>3. CASE ~CancelDownloads /\ ~Quit /\ ~CloseDialog
    <3>1. UNCHANGED <<file, tmp>>
      BY <1>1, <2>3 DEF User, OpenDialog, Start, DownloadAvailable, UpdateInstalled, AddDashFeed,
          Refresh, AskRemove, extractorVars, dialogVars
    <3> QED BY <3>1, SameArchives
  <2> QED BY <2>1, <2>2, <2>3
<1>2. ASSUME NEW N, NEW below, RemoveDocsets(N, below) PROVE ArchiveStep /\ Distinct'
  BY <1>2, SameArchives DEF RemoveDocsets
<1>3. CASE Answer
  <2>1. CASE ConfirmRemove
    BY <1>2, <2>1, AllArchivesGo DEF ConfirmRemove, ProcessEnds
  <2>2. CASE DismissNotRemoved
    <3>1. CASE Head(boxes).reply = None
      BY <1>2, <2>2, <3>1 DEF DismissNotRemoved
    <3>2. CASE Head(boxes).reply # None
      <4>1. Head(boxes) \in Box /\ Head(boxes).kind = "notRemoved"
        BY <2>2, TopType DEF DismissNotRemoved, Top, IInv
      <4>2. Head(boxes).reply \in Reply /\ Head(boxes).reply.docset \in Docset
        BY <3>2, <4>1 DEF Box, Reply
      <4> QED BY <2>2, <3>2, <4>2, StoreArchives DEF DismissNotRemoved
    <3> QED BY <3>1, <3>2
  <2>3. CASE AnswerIndexFailed
    <3>1. PICK d \in Head(boxes).about : UNCHANGED <<file, tmp>> \/ DropTmp({d})
      BY <2>3 DEF AnswerIndexFailed
    <3>2. d \in Docset
      BY <2>3, <3>1, TopType DEF AnswerIndexFailed, Top, IInv, Box
    <3> QED BY <3>1, <3>2, SameArchives, DropTmpArchives
  <2>4. CASE DismissExtractFailed
    <3>1. Head(boxes).about \in SUBSET Docset
      BY <2>4, TopType DEF DismissExtractFailed, Top, IInv, Box
    <3> QED BY <2>4, <3>1, DropTmpArchives DEF DismissExtractFailed
  <2>5. CASE AnswerDownloadFailed \/ AnswerBadCatalog \/ DismissNotice \/ DeclineRemove
    BY <2>5, SameArchives DEF AnswerDownloadFailed, AnswerBadCatalog, DismissNotice, DeclineRemove,
        extractorVars
  <2> QED BY <1>3, <2>1, <2>2, <2>3, <2>4, <2>5 DEF Answer
<1>4. CASE Network
  <2> SUFFICES ASSUME NEW q \in Request,
                      \/ DownloadProgress(q) \/ DownloadFails(q) \/ CatalogArrives(q)
                      \/ FeedArrives(q) \/ DocsetArrives(q) \/ IndexArrives(q)
               PROVE  ArchiveStep /\ Distinct'
    BY <1>4 DEF Network
  <2>1. ASSUME NEW type, Arriving(q, type), type # "DocsetList"
        PROVE  replies[q] \in Reply /\ replies[q].docset \in Docset
    BY <2>1 DEF Arriving, IInv, DialogOK, Reply
  <2>2. CASE DownloadProgress(q)
    <3>1. PICK f \in TmpFor(replies[q].docset) :
                 /\ tmp' = [tmp EXCEPT ![replies[q].docset] = f]
                 /\ file' = [file EXCEPT ![f] = Appended(replies[q], f)]
      BY <2>2 DEF DownloadProgress
    <3>2. replies[q].docset \in Docset
      BY <2>1, <2>2 DEF DownloadProgress
    <3> DEFINE c == Appended(replies[q], f)
    <3>3. (file[f] \in Closed => c = file[f]) /\ c # "none"
      BY SealedKeeps
    <3> HIDE DEF c
    <3> QED BY <3>1, <3>2, <3>3, WriteArchives DEF c
  <2>3. CASE DocsetArrives(q)
    <3>1. replies[q] \in Reply /\ replies[q].docset \in Docset
      BY <2>1, <2>3 DEF DocsetArrives
    <3>2. UNCHANGED <<file, tmp>> \/ StoreArchive(replies[q], Without(q), boxes)
      BY <2>3 DEF DocsetArrives, extractorVars
    <3> QED BY <3>1, <3>2, SameArchives, StoreArchives
  <2>4. CASE DownloadFails(q) \/ CatalogArrives(q) \/ FeedArrives(q) \/ IndexArrives(q)
    BY <2>4, SameArchives DEF DownloadFails, CatalogArrives, FeedArrives, IndexArrives, extractorVars
  <2> QED BY <2>2, <2>3, <2>4
<1>5. CASE Signal
  <2>1. CASE ExtractionCompleted
    <3>1. DropTmp(Named(Head(signals).file)) /\ Named(Head(signals).file) \in SUBSET Docset
      BY <2>1 DEF ExtractionCompleted, Named
    <3> QED BY <3>1, DropTmpArchives
  <2>2. CASE ExtractionError
    BY <2>2, SameArchives DEF ExtractionError
  <2> QED BY <1>5, <2>1, <2>2 DEF Signal
<1> QED BY <1>1, <1>3, <1>4, <1>5

\* The extractor leaves the archives to the dialog, but for one it moves away.
LEMMA ExtractorArchives ==
  ASSUME ExtractorThread
  PROVE  /\ UNCHANGED <<tmp, loaded, replies, boxes, ui>>
         /\ \/ UNCHANGED file
            \/ /\ running # None /\ running.tarix /\ running' = None
               /\ file' = [file EXCEPT ![running.file] = "moved"]
<1>1. UNCHANGED <<tmp, loaded, replies, boxes, ui>>
  BY DEF ExtractorThread, dialogVars, registryVars
<1>2. CASE Succeed(Heard)
  BY <1>1, <1>2 DEF Succeed
<1>3. CASE OpenFails(Heard) \/ Begin \/ Fail(Heard)
  BY <1>1, <1>3 DEF OpenFails, Begin, Fail
<1> QED BY <1>2, <1>3 DEF ExtractorThread

LEMMA DistinctInvariance == Spec => []Distinct
<1>1. Init => Distinct
  BY DEF Init, Distinct
<1>2. IInv /\ Distinct /\ [Next]_vars => Distinct'
  <2> SUFFICES ASSUME IInv, Distinct, [Next]_vars PROVE Distinct'
    OBVIOUS
  <2>1. CASE UNCHANGED vars
    BY <2>1 DEF vars, extractorVars, dialogVars, Distinct
  <2>2. CASE ExtractorThread
    <3>1. tmp' = tmp /\ file \in [File -> Contents]
      BY <2>2, ExtractorArchives DEF IInv, ExtractorOK
    <3>2. \A f \in File : file'[f] \in {file[f], "moved"}
      BY <2>2, <3>1, ExtractorArchives
    <3>3. \A d \in Docset : tmp[d] # None => tmp[d] \in File
      BY DEF IInv, DialogOK
    <3> QED BY <3>1, <3>2, <3>3 DEF Distinct
  <2> QED BY <2>1, <2>2, ArchivesNext DEF Next
<1> QED BY <1>1, <1>2, Invariance, PTL DEF Spec

------------------------------------------------------------------------------
(* Counting: how many elements of a sequence, or slots of a function, are in *)
(* a set, and how pushing, popping, appending and assigning change that.     *)

Hits(f, A)  == {i \in DOMAIN f : f[i] \in A}
Count(f, A) == Cardinality(Hits(f, A))
Bit(p)      == IF p THEN 1 ELSE 0

LEMMA CountType ==
  ASSUME NEW S, NEW s \in Seq(S), NEW A
  PROVE  IsFiniteSet(Hits(s, A)) /\ Count(s, A) \in Nat
<1>1. DOMAIN s = 1..Len(s) /\ Len(s) \in Nat
  BY LenProperties
<1>2. IsFiniteSet(1..Len(s))
  BY <1>1, FS_Interval
<1>3. IsFiniteSet(Hits(s, A))
  BY <1>1, <1>2, FS_Subset DEF Hits
<1> QED BY <1>3, FS_CardinalityType DEF Count

LEMMA CountNone ==
  ASSUME NEW f, NEW A, \A i \in DOMAIN f : f[i] \notin A
  PROVE  Hits(f, A) = {} /\ Count(f, A) = 0
<1>1. Hits(f, A) = {}
  BY DEF Hits
<1> QED BY <1>1, FS_EmptySet DEF Count

LEMMA CountZero ==
  ASSUME NEW f, NEW A, IsFiniteSet(Hits(f, A)), Count(f, A) = 0
  PROVE  \A i \in DOMAIN f : f[i] \notin A
<1>1. Hits(f, A) = {}
  BY FS_EmptySet DEF Count
<1> QED BY <1>1 DEF Hits

LEMMA CountSome ==
  ASSUME NEW f, NEW A, IsFiniteSet(Hits(f, A)), NEW i \in DOMAIN f, f[i] \in A
  PROVE  Count(f, A) \in Nat /\ Count(f, A) >= 1
<1>1. Hits(f, A) # {}
  BY DEF Hits
<1>2. Count(f, A) \in Nat /\ Count(f, A) # 0
  BY <1>1, FS_EmptySet, FS_CardinalityType DEF Count
<1> QED BY <1>2

LEMMA CountTwo ==
  ASSUME NEW f, NEW A, IsFiniteSet(Hits(f, A)),
         NEW i \in DOMAIN f, f[i] \in A, NEW j \in DOMAIN f, f[j] \in A, Count(f, A) <= 1
  PROVE  i = j
<1>1. Count(f, A) = 1
  BY CountSome
<1>2. PICK x : Hits(f, A) = {x}
  BY <1>1, FS_Singleton DEF Count
<1> QED BY <1>2 DEF Hits

LEMMA CountPush ==
  ASSUME NEW S, NEW s \in Seq(S), NEW b \in S, NEW A
  PROVE  Count(<<b>> \o s, A) = Count(s, A) + Bit(b \in A)
<1> DEFINE t == <<b>> \o s
           Later == Hits(t, A) \ {1}
           up == [i \in Hits(s, A) |-> i + 1]
<1>1. <<b>> \in Seq(S) /\ Len(<<b>>) = 1 /\ <<b>>[1] = b
  OBVIOUS
<1>2. /\ t \in Seq(S)
      /\ Len(t) = 1 + Len(s)
      /\ \A i \in 1 .. 1 + Len(s) : t[i] = IF i <= 1 THEN <<b>>[i] ELSE s[i - 1]
  BY <1>1, ConcatProperties
<1>3. DOMAIN t = 1 .. 1 + Len(s) /\ DOMAIN s = 1 .. Len(s) /\ Len(s) \in Nat
  BY <1>2, LenProperties
<1>4. t[1] = b
  BY <1>1, <1>2, <1>3
<1>5. \A i \in 1 .. Len(s) : i + 1 \in DOMAIN t /\ t[i + 1] = s[i]
  BY <1>2, <1>3
<1>6. IsFiniteSet(Hits(s, A)) /\ IsFiniteSet(Hits(t, A)) /\ Count(s, A) \in Nat /\ Count(t, A) \in Nat
  BY <1>2, CountType
<1> HIDE DEF t
<1>7. up \in Bijection(Hits(s, A), Later)
  <2>1. \A i \in Hits(s, A) : i \in Nat /\ i >= 1 /\ up[i] = i + 1 /\ up[i] \in Later
    BY <1>3, <1>5 DEF Hits
  <2>2. \A j \in Later : j - 1 \in Hits(s, A) /\ up[j - 1] = j
    <3> TAKE j \in Later
    <3>1. j \in 2 .. 1 + Len(s) /\ t[j] \in A
      BY <1>3 DEF Hits
    <3>2. j - 1 \in 1 .. Len(s)
      BY <1>3, <3>1
    <3>3. s[j - 1] = t[j]
      BY <1>5, <3>1, <3>2
    <3>4. j - 1 \in Hits(s, A)
      BY <1>3, <3>1, <3>2, <3>3 DEF Hits
    <3> QED BY <3>1, <3>4
  <2>3. up \in [Hits(s, A) -> Later]
    BY <2>1
  <2>4. \A i, j \in Hits(s, A) : up[i] = up[j] => i = j
    BY <2>1
  <2> HIDE DEF up, Later
  <2> QED BY <2>2, <2>3, <2>4 DEF Bijection, Injection, Surjection, IsInjective
<1>8. Cardinality(Later) = Count(s, A)
  BY <1>6, <1>7, FS_Bijection DEF ExistsBijection, Count
<1>9. Cardinality(Later) = IF 1 \in Hits(t, A) THEN Count(t, A) - 1 ELSE Count(t, A)
  BY <1>6, FS_RemoveElement DEF Count
<1>10. 1 \in Hits(t, A) <=> b \in A
  BY <1>3, <1>4 DEF Hits
<1> QED BY <1>6, <1>8, <1>9, <1>10 DEF Bit, t

LEMMA CountTail ==
  ASSUME NEW S, NEW s \in Seq(S), s # <<>>, NEW A
  PROVE  Count(s, A) = Count(Tail(s), A) + Bit(Head(s) \in A)
<1>1. Head(s) \in S /\ Tail(s) \in Seq(S) /\ s = <<Head(s)>> \o Tail(s)
  BY HeadTailProperties
<1>2. Count(<<Head(s)>> \o Tail(s), A) = Count(Tail(s), A) + Bit(Head(s) \in A)
  BY <1>1, CountPush
<1> QED BY <1>1, <1>2

LEMMA CountAppend ==
  ASSUME NEW S, NEW s \in Seq(S), NEW b \in S, NEW A
  PROVE  Count(Append(s, b), A) = Count(s, A) + Bit(b \in A)
<1> DEFINE t == Append(s, b)
           n == Len(s) + 1
<1>1. /\ DOMAIN s = 1 .. Len(s) /\ Len(s) \in Nat /\ DOMAIN t = 1 .. n
      /\ \A i \in 1 .. Len(s) : t[i] = s[i]
      /\ t[n] = b
  BY AppendProperties, LenProperties
<1>2. n \notin Hits(s, A) /\ n \in DOMAIN t /\ DOMAIN t = DOMAIN s \cup {n}
  BY <1>1 DEF Hits
<1> HIDE DEF t, n
<1>3. IsFiniteSet(Hits(s, A)) /\ Count(s, A) \in Nat
  BY CountType
<1>4. CASE b \in A
  <2>1. Hits(t, A) = Hits(s, A) \cup {n}
    BY <1>1, <1>2, <1>4 DEF Hits
  <2> QED BY <1>2, <1>3, <1>4, <2>1, FS_AddElement DEF Count, Bit, t
<1>5. CASE b \notin A
  <2>1. Hits(t, A) = Hits(s, A)
    <3>1. \A i \in DOMAIN t : t[i] \in A => i \in DOMAIN s
      BY <1>1, <1>2, <1>5
    <3>2. \A i \in DOMAIN s : i \in DOMAIN t /\ t[i] = s[i]
      BY <1>1, <1>2
    <3> QED BY <3>1, <3>2 DEF Hits
  <2> QED BY <1>3, <1>5, <2>1 DEF Count, Bit, t
<1> QED BY <1>4, <1>5

\* Assigning to one slot of a function.
LEMMA CountSlot ==
  ASSUME NEW f, NEW g, NEW q \in DOMAIN f, DOMAIN g = DOMAIN f,
         \A p \in DOMAIN f : p # q => g[p] = f[p], NEW A, IsFiniteSet(Hits(f, A))
  PROVE  /\ IsFiniteSet(Hits(g, A))
         /\ (f[q] \in A <=> g[q] \in A) => Count(g, A) = Count(f, A)
         /\ f[q] \notin A /\ g[q] \in A => Count(g, A) = Count(f, A) + 1
         /\ f[q] \in A /\ g[q] \notin A => Count(g, A) = Count(f, A) - 1
<1> DEFINE Others == Hits(f, A) \ {q}
<1>1. /\ IsFiniteSet(Others)
      /\ Cardinality(Others) = IF q \in Hits(f, A) THEN Count(f, A) - 1 ELSE Count(f, A)
      /\ q \notin Others
  BY FS_RemoveElement DEF Count
<1>2. /\ IsFiniteSet(Others \cup {q})
      /\ Cardinality(Others \cup {q}) = Cardinality(Others) + 1
      /\ Cardinality(Others) \in Nat /\ Count(f, A) \in Nat
  BY <1>1, FS_AddElement, FS_CardinalityType DEF Count
<1>3. q \in Hits(f, A) <=> f[q] \in A
  BY DEF Hits
<1>4. Hits(g, A) = IF g[q] \in A THEN Others \cup {q} ELSE Others
  BY DEF Hits
<1> QED BY <1>1, <1>2, <1>3, <1>4 DEF Count

LEMMA CountAssign ==
  ASSUME NEW rs, NEW T, rs \in [Request -> T], NEW q \in Request, NEW v,
         NEW A, IsFiniteSet(Hits(rs, A))
  PROVE  /\ IsFiniteSet(Hits([rs EXCEPT ![q] = v], A))
         /\ Count([rs EXCEPT ![q] = v], A) = Count(rs, A) + Bit(v \in A) - Bit(rs[q] \in A)
<1> DEFINE g == [rs EXCEPT ![q] = v]
<1>1. /\ q \in DOMAIN rs /\ DOMAIN g = DOMAIN rs /\ g[q] = v
      /\ \A p \in DOMAIN rs : p # q => g[p] = rs[p]
  OBVIOUS
<1> HIDE DEF g
<1>2. IsFiniteSet(Hits(g, A)) /\ Count(rs, A) \in Nat /\ Count(g, A) \in Nat
  <2>1. IsFiniteSet(Hits(g, A))
    BY <1>1, CountSlot
  <2> QED BY <2>1, FS_CardinalityType DEF Count
<1>3. CASE rs[q] \in A <=> v \in A
  <2>1. Count(g, A) = Count(rs, A)
    BY <1>1, <1>3, CountSlot
  <2> QED BY <1>2, <1>3, <2>1 DEF Bit, g
<1>4. CASE rs[q] \in A /\ v \notin A
  <2>1. Count(g, A) = Count(rs, A) - 1
    BY <1>1, <1>4, CountSlot
  <2> QED BY <1>2, <1>4, <2>1 DEF Bit, g
<1>5. CASE rs[q] \notin A /\ v \in A
  <2>1. Count(g, A) = Count(rs, A) + 1
    BY <1>1, <1>5, CountSlot
  <2> QED BY <1>2, <1>5, <2>1 DEF Bit, g
<1> QED BY <1>3, <1>4, <1>5

------------------------------------------------------------------------------
(* Without feeds: which replies and boxes there are.                         *)

TidyReply == {r \in Reply : r.type # "DashFeed"}

TidyBox ==
  {b \in Box :
     /\ b.kind \notin {"downloadFailed", "notRemoved"} => b.reply = None
     /\ b.kind = "downloadFailed" => b.reply.type \in {"Docset", "DocsetList"}
     /\ b.kind = "indexFailed" => \E d \in Docset : b.about = {d}
     /\ b.kind = "extractFailed" => \A d, e \in b.about : d = e}

TidySlots(rs) ==
  rs \in [Request -> TidyReply \cup {None}] /\ IsFiniteSet(Hits(rs, Reply))

Tidy == TidySlots(replies) /\ boxes \in Seq(TidyBox)

LEMMA SlotTidy ==
  ASSUME NEW rs, TidySlots(rs), NEW q \in Request, NEW v \in TidyReply \cup {None}
  PROVE  TidySlots([rs EXCEPT ![q] = v])
<1>1. rs \in [Request -> TidyReply \cup {None}] /\ IsFiniteSet(Hits(rs, Reply))
  BY DEF TidySlots
<1>2. IsFiniteSet(Hits([rs EXCEPT ![q] = v], Reply))
  BY <1>1, CountAssign
<1> QED BY <1>1, <1>2 DEF TidySlots

LEMMA DownloadTidy ==
  ASSUME NEW rs, TidySlots(rs), NEW r \in TidyReply, Download(rs, r)
  PROVE  TidySlots(replies')
<1>1. PICK q \in Request : replies' = [rs EXCEPT ![q] = r]
  BY DEF Download, Free
<1> QED BY <1>1, SlotTidy

LEMMA WithoutTidy ==
  ASSUME Tidy, NEW q \in Request
  PROVE  TidySlots(Without(q))
  BY SlotTidy DEF Tidy, Without

LEMMA NothingTidy == TidySlots([q \in Request |-> None])
<1> DEFINE rs == [q \in Request |-> None]
<1>1. Hits(rs, Reply) = {}
  BY ReplyAssumption, CountNone
<1>2. rs \in [Request -> TidyReply \cup {None}]
  OBVIOUS
<1> QED BY <1>1, <1>2, FS_EmptySet DEF TidySlots

LEMMA ShowTidy ==
  ASSUME NEW b \in TidyBox, NEW below \in Seq(TidyBox), Show(b, below)
  PROVE  boxes' \in Seq(TidyBox)
<1>1. <<b>> \in Seq(TidyBox)
  OBVIOUS
<1> QED BY <1>1, ConcatProperties DEF Show

LEMMA NewReplyTidy ==
  /\ \A d \in Docset, row \in {"own", "none", "unset"} :
       /\ NewReply("Docset", d, row) \in TidyReply
       /\ NewReply("TarixIndex", d, row) \in TidyReply
  /\ NewReply("DocsetList", None, "unset") \in TidyReply
<1>1. /\ \A d \in Docset, row \in {"own", "none", "unset"} :
           NewReply("Docset", d, row) \in Reply /\ NewReply("TarixIndex", d, row) \in Reply
      /\ NewReply("DocsetList", None, "unset") \in Reply
  BY NewReplyType
<1> QED BY <1>1 DEF TidyReply, NewReply

LEMMA NewBoxTidy ==
  /\ \A kind \in {"badCatalog", "notice", "notRemoved"}, D \in SUBSET Docset :
       Ask(kind, D) \in TidyBox
  /\ \A d \in Docset : Ask("indexFailed", {d}) \in TidyBox
  /\ \A D \in SUBSET Docset : (\A d, e \in D : d = e) => Ask("extractFailed", D) \in TidyBox
  /\ \A r \in Reply : r.type = "Docset" => AskFor("notRemoved", r) \in TidyBox
  /\ \A r \in Reply : r.type \in {"Docset", "DocsetList"} => AskFor("downloadFailed", r) \in TidyBox
<1>1. \A kind \in {"badCatalog", "notice", "notRemoved", "indexFailed", "extractFailed"},
         D \in SUBSET Docset : Ask(kind, D) \in Box
  BY AskType
<1>2. \A r \in Reply : /\ AskFor("downloadFailed", r) \in Box
                       /\ r.type = "Docset" => AskFor("notRemoved", r) \in Box
  BY AskForType, ReplyAssumption
<1>3. /\ \A kind, D : /\ Ask(kind, D).kind = kind
                      /\ Ask(kind, D).about = D
                      /\ Ask(kind, D).reply = None
      /\ \A kind, r : AskFor(kind, r).kind = kind /\ AskFor(kind, r).reply = r
  BY DEF Ask, AskFor
<1>4. \A d \in Docset : {d} \in SUBSET Docset
  OBVIOUS
<1> QED BY <1>1, <1>2, <1>3, <1>4 DEF TidyBox

LEMMA TopTidy ==
  ASSUME Tidy, boxes # <<>>
  PROVE  Head(boxes) \in TidyBox /\ Below \in Seq(TidyBox)
  BY HeadTailProperties DEF Tidy, Below

LEMMA DownloadDashDocsetTidy ==
  ASSUME Tidy, NEW d \in Docset, NEW pr, DownloadDashDocset(d, pr)
  PROVE  TidySlots(replies')
<1> DEFINE row == IF d \in available THEN "own" ELSE "none"
<1>1. CASE Download(replies, NewReply("Docset", d, row))
  BY <1>1, NewReplyTidy, DownloadTidy DEF Tidy
<1>2. CASE UNCHANGED replies
  BY <1>2 DEF Tidy
<1> QED BY <1>1, <1>2 DEF DownloadDashDocset

LEMMA UserTidy == ASSUME Feeds = {}, IInv, Idle, Tidy, User PROVE Tidy'
<1> USE NothingTidy, NewReplyTidy
<1>1. CASE OpenDialog
  <2>1. PICK q : \/ replies' = [[p \in Request |-> None] EXCEPT ![q] = NewReply("DocsetList", None, "unset")]
                    /\ q \in Request
                 \/ replies' = [p \in Request |-> None]
    <3> DEFINE Checked == loaded \cap Feeds
    <3>1. Checked = {}
      OBVIOUS
    <3>2. PICK fresh \in BOOLEAN, slot \in [{None} -> Request] :
            replies' = [q \in Request |-> IF ~fresh /\ slot[None] = q
                                            THEN NewReply("DocsetList", None, "unset") ELSE None]
      BY <1>1, <3>1 DEF OpenDialog
    <3> QED BY <3>2
  <2>2. TidySlots(replies')
    BY <2>1, SlotTidy
  <2>3. UNCHANGED boxes
    BY <1>1 DEF OpenDialog
  <2> QED BY <2>2, <2>3 DEF Tidy
<1>2. CASE CloseDialog \/ Quit
  <2>1. DialogGone
    BY <1>2 DEF CloseDialog, Quit, ProcessEnds
  <2> QED BY <2>1 DEF DialogGone, Tidy
<1>3. CASE Start
  BY <1>3 DEF Start, dialogVars, Tidy
<1>4. ASSUME NEW d \in Docset, DownloadAvailable(d) \/ UpdateInstalled(d) PROVE Tidy'
  BY <1>4, DownloadDashDocsetTidy DEF DownloadAvailable, UpdateInstalled, Tidy
<1>5. ASSUME NEW d \in Docset, AddDashFeed(d) PROVE Tidy'
  BY <1>5 DEF AddDashFeed
<1>6. CASE Refresh
  BY <1>6, DownloadTidy DEF Refresh, Tidy
<1>7. CASE CancelDownloads
  BY <1>7 DEF CancelDownloads, Tidy
<1>8. ASSUME NEW S \in SUBSET loaded, AskRemove(S) PROVE Tidy'
  <2> DEFINE b == [Ask("confirmRemove", S) EXCEPT !.rows = {RowOf(d) : d \in S}]
  <2>1. /\ b \in [kind : {"confirmRemove"}, about : SUBSET Docset, rows : SUBSET Nat, reply : {None}]
    <3>1. S \in SUBSET Docset
      BY DEF IInv, RegistryOK
    <3>2. {RowOf(d) : d \in S} \in SUBSET Nat
      BY <3>1, RowOfType DEF IInv
    <3> QED BY <3>1, <3>2 DEF Ask
  <2>2. b \in TidyBox
    BY <2>1 DEF TidyBox, Box
  <2> QED BY <1>8, <2>2, ShowTidy DEF AskRemove, Tidy
<1> QED BY <1>1, <1>2, <1>3, <1>4, <1>5, <1>6, <1>7, <1>8 DEF User

LEMMA StoreArchiveTidy ==
  ASSUME NEW r \in Reply, r.docset \in Docset, NEW rs, TidySlots(rs),
         NEW below \in Seq(TidyBox), StoreArchive(r, rs, below)
  PROVE  Tidy'
<1>1. CASE Show(Ask("notice", {}), below) /\ replies' = rs
  BY <1>1, NewBoxTidy, ShowTidy DEF Tidy
<1>2. CASE /\ boxes' = below
           /\ replies' = rs \/ Download(rs, NewReply("TarixIndex", r.docset, "own"))
  BY <1>2, NewReplyTidy, DownloadTidy DEF Tidy
<1> QED BY <1>1, <1>2 DEF StoreArchive

LEMMA RemoveDocsetsTidy ==
  ASSUME IInv, Tidy, NEW N, NEW below \in Seq(TidyBox), RemoveDocsets(N, below)
  PROVE  Tidy'
<1>1. UNCHANGED replies
  BY DEF RemoveDocsets
<1>2. boxes' = below \/ \E D \in SUBSET Docset : Show(Ask("notRemoved", D), below)
  <2>1. loaded \subseteq Docset
    BY DEF IInv, RegistryOK
  <2>2. ASSUME NEW d, NEW D, Show(Ask("notRemoved", (N \cap loaded) \ (D \cup {d})), below)
        PROVE  \E E \in SUBSET Docset : Show(Ask("notRemoved", E), below)
    <3>1. (N \cap loaded) \ (D \cup {d}) \in SUBSET Docset
      BY <2>1
    <3> QED BY <2>2, <3>1
  <2> QED BY <2>2 DEF RemoveDocsets
<1> QED BY <1>1, <1>2, NewBoxTidy, ShowTidy DEF Tidy

LEMMA AnswerTidy == ASSUME IInv, Tidy, Answer PROVE Tidy'
<1> USE NewReplyTidy
<1>1. CASE AnswerDownloadFailed
  <2> DEFINE r == Head(boxes).reply
  <2>1. Head(boxes) \in TidyBox /\ Below \in Seq(TidyBox) /\ Head(boxes).kind = "downloadFailed"
    BY <1>1, TopTidy DEF AnswerDownloadFailed, Top
  <2>2. r \in Reply /\ r.type \in {"Docset", "DocsetList"}
    BY <2>1 DEF TidyBox, Box
  <2>3. [r EXCEPT !.into = None] \in TidyReply
    BY <2>2 DEF TidyReply, Reply
  <2> QED BY <1>1, <2>1, <2>3, DownloadTidy DEF AnswerDownloadFailed, Tidy
<1>2. CASE AnswerIndexFailed
  <2>1. PICK d \in Head(boxes).about :
          \/ Download(replies, NewReply("TarixIndex", d, IF d \in available THEN "own" ELSE "none"))
          \/ UNCHANGED replies
    BY <1>2 DEF AnswerIndexFailed
  <2>2. d \in Docset
    BY <1>2, <2>1, TopBoxType DEF AnswerIndexFailed
  <2>3. boxes' \in Seq(TidyBox)
    BY <1>2, TopTidy DEF AnswerIndexFailed, Top
  <2> QED BY <2>1, <2>2, <2>3, DownloadTidy DEF Tidy
<1>3. CASE AnswerBadCatalog
  BY <1>3, TopTidy, DownloadTidy DEF AnswerBadCatalog, Top, Tidy
<1>4. CASE DismissNotice \/ DismissExtractFailed \/ DeclineRemove
  BY <1>4, TopTidy DEF DismissNotice, DismissExtractFailed, DeclineRemove, Top, Tidy
<1>5. CASE DismissNotRemoved
  <2> DEFINE b == Head(boxes)
  <2>1. Below \in Seq(TidyBox)
    BY <1>5, TopTidy DEF DismissNotRemoved, Top
  <2>2. CASE b.reply = None
    BY <1>5, <2>1, <2>2, RemoveDocsetsTidy DEF DismissNotRemoved
  <2>3. CASE b.reply # None
    <3>1. b.reply \in Reply /\ b.reply.docset \in Docset
      BY <1>5, <2>3, TopBoxType, ReplyFields DEF DismissNotRemoved
    <3>2. StoreArchive(b.reply, replies, Below)
      BY <1>5, <2>3 DEF DismissNotRemoved
    <3> QED BY <2>1, <3>1, <3>2, StoreArchiveTidy DEF Tidy
  <2> QED BY <2>2, <2>3
<1>6. CASE ConfirmRemove
  <2>1. Below \in Seq(TidyBox)
    BY <1>6, TopTidy DEF ConfirmRemove, Top
  <2>2. CASE ProcessEnds
    BY <2>2, NothingTidy DEF ProcessEnds, DialogGone, Tidy
  <2> QED BY <1>6, <2>1, <2>2, RemoveDocsetsTidy DEF ConfirmRemove
<1> QED BY <1>1, <1>2, <1>3, <1>4, <1>5, <1>6 DEF Answer

LEMMA NetworkTidy == ASSUME IInv, Tidy, Network PROVE Tidy'
<1> PICK q \in Request : \/ DownloadProgress(q) \/ DownloadFails(q) \/ CatalogArrives(q)
                         \/ FeedArrives(q) \/ DocsetArrives(q) \/ IndexArrives(q)
  BY DEF Network
<1> DEFINE r == replies[q]
<1>1. TidySlots(Without(q)) /\ TidySlots(replies) /\ boxes \in Seq(TidyBox)
  BY WithoutTidy DEF Tidy
<1>2. r \in TidyReply /\ r \in Reply /\ r # None /\ (r.type # "DocsetList" => r.docset \in Docset)
  <2>1. r # None
    BY DEF DownloadProgress, DownloadFails, CatalogArrives, FeedArrives, DocsetArrives,
           IndexArrives, Arriving
  <2> QED BY <1>1, <2>1, ReplyFields DEF TidySlots, TidyReply
<1>3. CASE DownloadProgress(q)
  <2>1. PICK f \in TmpFor(r.docset) : replies' = [replies EXCEPT ![q].into = f]
    BY <1>3 DEF DownloadProgress
  <2>2. f \in File
    BY <1>2, <1>3, TmpForType DEF DownloadProgress, Arriving, IInv
  <2>3. [r EXCEPT !.into = f] \in TidyReply
    BY <1>2, <2>2, ReplyInto DEF TidyReply, Reply
  <2>4. replies' = [replies EXCEPT ![q] = [r EXCEPT !.into = f]]
    BY <2>1
  <2>5. TidySlots(replies')
    BY <1>1, <2>3, <2>4, SlotTidy
  <2> QED BY <1>1, <1>3, <2>5 DEF DownloadProgress, Tidy
<1>4. CASE DownloadFails(q)
  <2> DEFINE row == IF r.docset \in available THEN "own" ELSE "none"
             again == [NewReply("TarixIndex", r.docset, row) EXCEPT !.attempt = r.attempt + 1]
  <2>1. CASE r.type = "TarixIndex" /\ r.attempt < MaxTarixIndexRetries
    <3>1. NewReply("TarixIndex", r.docset, row) \in TidyReply
      <4>1. r.docset \in Docset /\ row \in {"own", "none", "unset"}
        BY <1>2, <2>1
      <4> QED BY <4>1, NewReplyTidy
    <3>2. r.attempt + 1 \in 0..MaxTarixIndexRetries
      BY <1>2, <2>1, ReplyFields, LimitAssumption
    <3>3. again \in TidyReply
      BY <3>1, <3>2 DEF TidyReply, Reply
    <3>4. Download(Without(q), again) /\ UNCHANGED boxes
      BY <1>2, <1>4, <2>1, ReplyFields, LimitAssumption DEF DownloadFails
    <3> QED BY <1>1, <3>3, <3>4, DownloadTidy DEF Tidy
  <2>2. CASE r.type = "TarixIndex" /\ r.attempt = MaxTarixIndexRetries
    <3>1. Show(Ask("indexFailed", {r.docset}), boxes) /\ replies' = Without(q)
      BY <1>4, <2>2, LimitAssumption DEF DownloadFails
    <3> QED BY <1>1, <1>2, <2>2, <3>1, NewBoxTidy, ShowTidy DEF Tidy
  <2>3. CASE r.type # "TarixIndex"
    <3>1. Show(AskFor("downloadFailed", r), boxes) /\ replies' = Without(q)
      BY <1>4, <2>3 DEF DownloadFails
    <3>2. r.type \in {"Docset", "DocsetList"}
      BY <1>2, <2>3 DEF TidyReply, Reply
    <3> QED BY <1>1, <1>2, <3>1, <3>2, NewBoxTidy, ShowTidy DEF Tidy
  <2> QED BY <1>4, <2>1, <2>2, <2>3 DEF DownloadFails
<1>5. CASE CatalogArrives(q)
  BY <1>1, <1>5, NewBoxTidy, ShowTidy DEF CatalogArrives, Tidy
<1>6. ~FeedArrives(q)
  BY <1>2 DEF FeedArrives, Arriving, TidyReply
<1>7. CASE DocsetArrives(q)
  <2>1. r.type = "Docset"
    BY <1>7 DEF DocsetArrives, Arriving
  <2>2. CASE StoreArchive(r, Without(q), boxes)
    BY <1>1, <1>2, <2>1, <2>2, StoreArchiveTidy
  <2>3. CASE Show(AskFor("notRemoved", r), boxes) /\ replies' = Without(q)
    BY <1>1, <1>2, <2>1, <2>3, NewBoxTidy, ShowTidy DEF Tidy
  <2> QED BY <1>7, <2>2, <2>3 DEF DocsetArrives
<1>8. CASE IndexArrives(q)
  BY <1>1, <1>8 DEF IndexArrives, Tidy
<1> QED BY <1>3, <1>4, <1>5, <1>6, <1>7, <1>8

LEMMA SignalTidy == ASSUME IInv, Distinct, Tidy, Signal PROVE Tidy'
<1>1. CASE ExtractionCompleted
  BY <1>1 DEF ExtractionCompleted, Tidy
<1>2. CASE ExtractionError
  <2> DEFINE f == Head(signals).file
  <2>1. f \in File
    BY <1>2, HeadTailProperties DEF ExtractionError, Delivered, IInv, ExtractorOK, Outcome
  <2>2. f # None
    BY <2>1, NoneAssumption
  <2>3. Named(f) \in SUBSET Docset /\ \A d, e \in Named(f) : d = e
    BY <2>2 DEF Named, Distinct
  <2>4. Ask("extractFailed", Named(f)) \in TidyBox
    BY <2>3, NewBoxTidy
  <2> QED BY <1>2, <2>4, ShowTidy DEF ExtractionError, Tidy
<1> QED BY <1>1, <1>2 DEF Signal

LEMMA TidyInvariance == ASSUME Feeds = {} PROVE Spec => []Tidy
<1>1. Init => Tidy
  BY NothingTidy DEF Init, Tidy
<1>2. IInv /\ Idle /\ Distinct /\ Tidy /\ [Next]_vars => Tidy'
  <2> SUFFICES ASSUME IInv, Idle, Distinct, Tidy, [Next]_vars PROVE Tidy'
    OBVIOUS
  <2>1. CASE UNCHANGED <<replies, boxes>>
    BY <2>1 DEF Tidy
  <2>2. CASE ExtractorThread \/ UNCHANGED vars
    BY <2>1, <2>2 DEF ExtractorThread, vars, dialogVars
  <2> QED BY <2>2, UserTidy, AnswerTidy, NetworkTidy, SignalTidy DEF Next
<1> QED BY <1>1, <1>2, Invariance, IdleInvariance, DistinctInvariance, PTL DEF Spec

------------------------------------------------------------------------------
(* The work on a docset, counted.                                            *)

TransferOf(d) == {r \in Reply : r.type \in {"Docset", "TarixIndex"} /\ r.docset = d}
FetchBoxOf(d) ==
  {b \in Box : \/ b.kind = "indexFailed" /\ d \in b.about
               \/ b.reply # None /\ b.reply.type = "Docset" /\ b.reply.docset = d}
ErrorBoxOf(d) == {b \in Box : b.kind = "extractFailed" /\ d \in b.about}
JobOf(f)      == {j \in Job : j.file = f}
OutcomeOf(f)  == {s \in Outcome : s.file = f}

R(d)    == Count(replies, TransferOf(d))
B(d)    == Count(boxes, FetchBoxOf(d))
X(d)    == Count(boxes, ErrorBoxOf(d))
Jobs(d) == Count(queue, JobOf(tmp[d])) + Count(signals, OutcomeOf(tmp[d]))
             + Bit(running # None /\ running.file = tmp[d])
Fet(d)  == R(d) + B(d)
Ext(d)  == Jobs(d) + X(d)

LEMMA SlotsCount ==
  ASSUME NEW rs, TidySlots(rs), NEW d
  PROVE  IsFiniteSet(Hits(rs, TransferOf(d))) /\ Count(rs, TransferOf(d)) \in Nat
<1>1. IsFiniteSet(Hits(rs, Reply)) /\ Hits(rs, TransferOf(d)) \subseteq Hits(rs, Reply)
  BY DEF TidySlots, Hits, TransferOf
<1>2. IsFiniteSet(Hits(rs, TransferOf(d)))
  BY <1>1, FS_Subset
<1> QED BY <1>2, FS_CardinalityType DEF Count

LEMMA WorkNat ==
  ASSUME IInv, Tidy, NEW d
  PROVE  /\ R(d) \in Nat /\ B(d) \in Nat /\ X(d) \in Nat /\ Jobs(d) \in Nat
         /\ Fet(d) \in Nat /\ Ext(d) \in Nat
<1>1. R(d) \in Nat /\ B(d) \in Nat /\ X(d) \in Nat
  BY SlotsCount, CountType DEF Tidy, IInv, DialogOK, R, B, X
<1>2. Count(queue, JobOf(tmp[d])) \in Nat /\ Count(signals, OutcomeOf(tmp[d])) \in Nat
  BY CountType DEF IInv, ExtractorOK
<1>3. Jobs(d) \in Nat
  BY <1>2 DEF Jobs, Bit
<1> QED BY <1>1, <1>3 DEF Fet, Ext

LEMMA WorkNatNext ==
  ASSUME IInv', Tidy', NEW d
  PROVE  /\ R(d)' \in Nat /\ B(d)' \in Nat /\ X(d)' \in Nat /\ Jobs(d)' \in Nat
         /\ Fet(d)' \in Nat /\ Ext(d)' \in Nat
<1>1. R(d)' \in Nat /\ B(d)' \in Nat /\ X(d)' \in Nat
  BY SlotsCount, CountType DEF Tidy, IInv, DialogOK, R, B, X
<1>2. Count(queue', JobOf(tmp'[d])) \in Nat /\ Count(signals', OutcomeOf(tmp'[d])) \in Nat
  BY CountType DEF IInv, ExtractorOK
<1>3. Jobs(d)' \in Nat
  BY <1>2 DEF Jobs, Bit
<1> QED BY <1>1, <1>3 DEF Fet, Ext

\* The counts are those OnePipeline speaks of.
LEMMA WorkSets ==
  ASSUME IInv, NEW d \in Docset
  PROVE  /\ Transfers(d) = Hits(replies, TransferOf(d))
         /\ FetchBoxes(d) = Hits(boxes, FetchBoxOf(d))
         /\ ErrorBoxes(d) = Hits(boxes, ErrorBoxOf(d))
         /\ InQueue(d) = Hits(queue, JobOf(tmp[d]))
         /\ InSignals(d) = Hits(signals, OutcomeOf(tmp[d]))
<1>1. Transfers(d) = Hits(replies, TransferOf(d))
  BY ReplyAssumption DEF Transfers, Hits, TransferOf, IInv, DialogOK
<1>2. /\ \A i \in DOMAIN boxes : boxes[i] \in Box
      /\ \A i \in DOMAIN queue : queue[i] \in Job
      /\ \A i \in DOMAIN signals : signals[i] \in Outcome
  BY ElementOfSeq, LenProperties DEF IInv, DialogOK, ExtractorOK
<1>3. FetchBoxes(d) = Hits(boxes, FetchBoxOf(d))
  BY <1>2 DEF FetchBoxes, Hits, FetchBoxOf
<1>4. ErrorBoxes(d) = Hits(boxes, ErrorBoxOf(d))
  BY <1>2 DEF ErrorBoxes, Hits, ErrorBoxOf
<1>5. InQueue(d) = Hits(queue, JobOf(tmp[d]))
  BY <1>2 DEF InQueue, Hits, JobOf
<1>6. InSignals(d) = Hits(signals, OutcomeOf(tmp[d]))
  BY <1>2 DEF InSignals, Hits, OutcomeOf
<1> QED BY <1>1, <1>3, <1>4, <1>5, <1>6

LEMMA WorkCounts ==
  ASSUME IInv, NEW d \in Docset
  PROVE  Fetching(d) = Fet(d) /\ Extracting(d) = Ext(d)
<1>7. Count(queue, JobOf(tmp[d])) \in Nat /\ Count(signals, OutcomeOf(tmp[d])) \in Nat /\ X(d) \in Nat
  BY CountType DEF IInv, ExtractorOK, DialogOK, X
<1>8. Fetching(d) = Fet(d)
  BY WorkSets DEF Fetching, Fet, R, B, Count
<1>9. Extracting(d) = Ext(d)
  <2> DEFINE running1 == IF IsRunning(d) THEN 1 ELSE 0
  <2>1. Extracting(d) = Count(queue, JobOf(tmp[d])) + Count(signals, OutcomeOf(tmp[d])) + X(d) + running1
    BY WorkSets DEF Extracting, X, Count
  <2>2. Ext(d) = Count(queue, JobOf(tmp[d])) + Count(signals, OutcomeOf(tmp[d])) + running1 + X(d)
    BY DEF Ext, Jobs, Bit, IsRunning
  <2>3. running1 \in Nat
    OBVIOUS
  <2> HIDE DEF running1
  <2> QED BY <1>7, <2>1, <2>2, <2>3
<1> QED BY <1>8, <1>9

\* What replies and boxes count for.
LEMMA CountsFor ==
  ASSUME NEW d
  PROVE  /\ None \notin TransferOf(d)
         /\ \A r \in Reply : r \in TransferOf(d) <=> r.type \in {"Docset", "TarixIndex"} /\ r.docset = d
         /\ \A b \in Box : b \in FetchBoxOf(d) <=>
              \/ b.kind = "indexFailed" /\ d \in b.about
              \/ b.reply # None /\ b.reply.type = "Docset" /\ b.reply.docset = d
         /\ \A b \in Box : b \in ErrorBoxOf(d) <=> b.kind = "extractFailed" /\ d \in b.about
  BY ReplyAssumption DEF TransferOf, FetchBoxOf, ErrorBoxOf

LEMMA DownloadCounts ==
  ASSUME NEW rs, TidySlots(rs), NEW r \in TidyReply, Download(rs, r), NEW d
  PROVE  R(d)' = Count(rs, TransferOf(d)) + Bit(r \in TransferOf(d))
<1>1. PICK q \in Request : replies' = [rs EXCEPT ![q] = r] /\ rs[q] = None
  BY DEF Download, Free
<1>2. rs \in [Request -> TidyReply \cup {None}] /\ IsFiniteSet(Hits(rs, TransferOf(d)))
  BY SlotsCount DEF TidySlots
<1>3. None \notin TransferOf(d)
  BY CountsFor
<1>4. Count([rs EXCEPT ![q] = r], TransferOf(d))
        = Count(rs, TransferOf(d)) + Bit(r \in TransferOf(d)) - Bit(rs[q] \in TransferOf(d))
  BY <1>2, CountAssign
<1>5. Count(rs, TransferOf(d)) \in Nat
  BY SlotsCount
<1> QED BY <1>1, <1>3, <1>4, <1>5 DEF R, Bit

LEMMA WithoutCounts ==
  ASSUME Tidy, NEW q \in Request, NEW d
  PROVE  Count(Without(q), TransferOf(d)) = R(d) - Bit(replies[q] \in TransferOf(d))
<1>1. replies \in [Request -> TidyReply \cup {None}] /\ IsFiniteSet(Hits(replies, TransferOf(d)))
  BY SlotsCount DEF TidySlots, Tidy
<1>2. None \notin TransferOf(d)
  BY CountsFor
<1>3. Count(Without(q), TransferOf(d))
        = R(d) + Bit(None \in TransferOf(d)) - Bit(replies[q] \in TransferOf(d))
  BY <1>1, CountAssign DEF Without, R
<1>4. R(d) \in Nat
  BY SlotsCount DEF Tidy, R
<1> QED BY <1>2, <1>3, <1>4 DEF Bit

LEMMA ShowCounts ==
  ASSUME NEW b \in Box, NEW below \in Seq(Box), Show(b, below), NEW d
  PROVE  /\ B(d)' = Count(below, FetchBoxOf(d)) + Bit(b \in FetchBoxOf(d))
         /\ X(d)' = Count(below, ErrorBoxOf(d)) + Bit(b \in ErrorBoxOf(d))
  BY CountPush DEF Show, B, X

LEMMA BelowCounts ==
  ASSUME IInv, boxes # <<>>, NEW d
  PROVE  /\ B(d) = Count(Below, FetchBoxOf(d)) + Bit(Head(boxes) \in FetchBoxOf(d))
         /\ X(d) = Count(Below, ErrorBoxOf(d)) + Bit(Head(boxes) \in ErrorBoxOf(d))
         /\ Count(Below, FetchBoxOf(d)) \in Nat /\ Count(Below, ErrorBoxOf(d)) \in Nat
  BY CountTail, CountType, TopType DEF IInv, DialogOK, B, X, Below

LEMMA NoBoxCounts ==
  ASSUME NEW d
  PROVE  /\ boxes = <<>> => B(d) = 0 /\ X(d) = 0
         /\ boxes' = <<>> => B(d)' = 0 /\ X(d)' = 0
  BY CountNone DEF B, X

LEMMA NoReplyCounts ==
  ASSUME NEW d
  PROVE  (\A q \in Request : replies'[q] \notin TransferOf(d)) /\ DOMAIN replies' = Request => R(d)' = 0
  BY CountNone DEF R

\* No job or signal names an archive outside JobFiles.
LEMMA NoJobs ==
  ASSUME IInv, NEW f, f \notin JobFiles
  PROVE  /\ Count(queue, JobOf(f)) = 0 /\ Count(signals, OutcomeOf(f)) = 0
         /\ ~(running # None /\ running.file = f)
<1>1. \A i \in DOMAIN queue : queue[i] \notin JobOf(f)
  BY DEF JobFiles, JobOf
<1>2. \A i \in DOMAIN signals : signals[i] \notin OutcomeOf(f)
  BY DEF JobFiles, OutcomeOf
<1> QED BY <1>1, <1>2, CountNone DEF JobFiles

\* A docset has no job without an archive, and its archive's jobs stay its jobs.
LEMMA JobsKept ==
  ASSUME IInv, ArchiveStep, UNCHANGED <<queue, signals, running>>, NEW d \in Docset
  PROVE  /\ Jobs(d)' = IF tmp'[d] = None THEN 0 ELSE Jobs(d)
         /\ tmp[d] = None => Jobs(d) = 0
<1>1. None \notin JobFiles
  BY JobFilesType, NoneAssumption
<1>2. ASSUME NEW f, f \notin JobFiles
      PROVE  Count(queue, JobOf(f)) + Count(signals, OutcomeOf(f)) + Bit(running # None /\ running.file = f) = 0
  BY <1>2, NoJobs DEF Bit
<1>3. tmp[d] \notin JobFiles => Jobs(d) = 0
  BY <1>2 DEF Jobs
<1>4. tmp'[d] \notin JobFiles => Jobs(d)' = 0
  BY <1>2 DEF Jobs
<1>5. tmp'[d] = tmp[d] => Jobs(d)' = Jobs(d)
  BY DEF Jobs
<1>6. \/ tmp'[d] \in {tmp[d], None}
      \/ tmp[d] = None /\ tmp'[d] \notin JobFiles
  BY DEF ArchiveStep
<1> QED BY <1>1, <1>3, <1>4, <1>5, <1>6

LEMMA JobsPosted ==
  ASSUME IInv, ArchiveStep, Distinct', NEW d \in Docset, NEW f \in File, tmp'[d] = f,
         NEW tarix \in BOOLEAN, Post(f, d, tarix), UNCHANGED <<signals, running>>,
         NEW e \in Docset
  PROVE  Jobs(e)' = (IF tmp'[e] = None THEN 0 ELSE Jobs(e)) + Bit(e = d)
<1> DEFINE j == [file |-> f, docset |-> d, tarix |-> tarix]
           Before(g) == Count(queue, JobOf(g)) + Count(signals, OutcomeOf(g))
                          + Bit(running # None /\ running.file = g)
<1>1. None \notin JobFiles
  BY JobFilesType, NoneAssumption
<1>2. ASSUME NEW g, g \notin JobFiles PROVE Before(g) = 0
  BY <1>2, NoJobs DEF Bit
<1>3. Before(tmp'[e]) = IF tmp'[e] = None THEN 0 ELSE Jobs(e)
  <2>1. Before(tmp[e]) = Jobs(e)
    BY DEF Jobs
  <2>2. \/ tmp'[e] \in {tmp[e], None}
        \/ tmp[e] = None /\ tmp'[e] \notin JobFiles
    BY DEF ArchiveStep
  <2> HIDE DEF Before
  <2> QED BY <1>1, <1>2, <2>1, <2>2
<1>4. j \in Job /\ queue \in Seq(Job) /\ queue' = Append(queue, j)
  BY DEF Job, Post, IInv, ExtractorOK
<1>5. Count(queue', JobOf(tmp'[e])) = Count(queue, JobOf(tmp'[e])) + Bit(j \in JobOf(tmp'[e]))
  BY <1>4, CountAppend
<1>6. j \in JobOf(tmp'[e]) <=> e = d
  <2>1. j \in JobOf(tmp'[e]) <=> tmp'[e] = f
    BY <1>4 DEF JobOf
  <2>2. tmp'[e] = f => e = d
    BY NoneAssumption DEF Distinct
  <2> QED BY <2>1, <2>2
<1>7. Count(queue, JobOf(tmp'[e])) \in Nat /\ Count(signals, OutcomeOf(tmp'[e])) \in Nat
  BY CountType DEF IInv, ExtractorOK
<1> QED BY <1>3, <1>5, <1>6, <1>7 DEF Jobs, Bit

------------------------------------------------------------------------------
(* What each step does to the work on a docset.                              *)

\* What holds without feeds, before the work is counted.
Sound == IInv /\ Idle /\ Distinct /\ Tidy

\* A step between such states.
Handled == Sound /\ Sound' /\ ArchiveStep

LEMMA SoundInvariance == ASSUME Feeds = {} PROVE Spec => []Sound
  BY Invariance, IdleInvariance, DistinctInvariance, TidyInvariance, PTL DEF Sound

\* The work stays what it was; an archive may be begun for it.
Kept(d) ==
  /\ Fet(d)' = Fet(d) /\ Ext(d)' = Ext(d)
  /\ Fet(d) = 0 => tmp'[d] = tmp[d]
  /\ tmp[d] # None => tmp'[d] # None
\* A download is begun where there was no work.
Begun(d)  == /\ tmp[d] = None /\ tmp'[d] = None
             /\ Fet(d) = 0 /\ Ext(d) = 0 /\ Fet(d)' = 1 /\ Ext(d)' = 0
\* A download is given up.
Lost(d)   == Fet(d)' < Fet(d) /\ Ext(d)' <= Ext(d) /\ tmp'[d] \in {tmp[d], None}
\* A download turns into an extraction.
Posted(d) == /\ Fet(d)' = Fet(d) - 1 /\ Ext(d)' = Ext(d) + 1 /\ X(d)' = X(d)
             /\ tmp'[d] # None
\* An extraction is over and the dialog knows.
Ended(d)  == Fet(d)' = Fet(d) /\ Ext(d)' < Ext(d) /\ tmp'[d] = None
\* The dialog is gone.
Gone(d)   == Fet(d)' = 0 /\ Ext(d)' = 0 /\ tmp'[d] = None

LEMMA JobsStay ==
  ASSUME Handled, UNCHANGED <<queue, signals, running>>, NEW d \in Docset
  PROVE  /\ tmp'[d] # None \/ tmp[d] = None => Jobs(d)' = Jobs(d)
         /\ tmp'[d] = None => Jobs(d)' = 0
         /\ tmp[d] = None => Jobs(d) = 0
  BY JobsKept DEF Handled, Sound

\* A step that moves neither jobs nor archives.
LEMMA SameWorkKept ==
  ASSUME Handled, UNCHANGED <<queue, signals, running>>, NEW d \in Docset,
         tmp'[d] = tmp[d], Fet(d)' = Fet(d), X(d)' = X(d)
  PROVE  Kept(d)
<1>1. Jobs(d)' = Jobs(d)
  BY JobsStay
<1> QED BY <1>1 DEF Kept, Ext

LEMMA SameAllKept ==
  ASSUME Handled, UNCHANGED <<queue, signals, running, tmp, replies, boxes>>, NEW d \in Docset
  PROVE  Kept(d)
<1>1. Fet(d)' = Fet(d) /\ X(d)' = X(d)
  BY DEF Fet, R, B, X
<1> QED BY <1>1, SameWorkKept

\* Without an archive there is no job.
LEMMA NoArchiveNoJobs ==
  ASSUME Sound', NEW d \in Docset, tmp'[d] = None
  PROVE  Jobs(d)' = 0
<1>1. None \notin JobFiles'
  <2>1. /\ \A i \in DOMAIN queue' : queue'[i] \in Job
        /\ \A i \in DOMAIN signals' : signals'[i] \in Outcome
        /\ running' \in Running \cup {None}
    BY ElementOfSeq, LenProperties DEF Sound, IInv, ExtractorOK
  <2> QED BY <2>1, NoneAssumption DEF JobFiles, Job, Outcome, Running
<1>2. \A i \in DOMAIN queue' : queue'[i] \notin JobOf(None)
  BY <1>1 DEF JobFiles, JobOf
<1>3. \A i \in DOMAIN signals' : signals'[i] \notin OutcomeOf(None)
  BY <1>1 DEF JobFiles, OutcomeOf
<1>4. ~(running' # None /\ running'.file = None)
  BY <1>1 DEF JobFiles
<1>5. Count(queue', JobOf(None)) = 0 /\ Count(signals', OutcomeOf(None)) = 0
  BY <1>2, <1>3, CountNone
<1> QED BY <1>4, <1>5 DEF Jobs, Bit

LEMMA AllGone ==
  ASSUME Handled, DialogGone, NEW d \in Docset
  PROVE  Gone(d)
<1>1. tmp'[d] = None
  BY DEF DialogGone, DropTmp
<1>2. R(d)' = 0 /\ B(d)' = 0 /\ X(d)' = 0
  BY NoReplyCounts, NoBoxCounts, CountsFor DEF DialogGone
<1>3. Jobs(d)' = 0
  BY <1>1, NoArchiveNoJobs DEF Handled
<1> QED BY <1>1, <1>2, <1>3 DEF Gone, Fet, Ext

LEMMA NewReplyCounts ==
  ASSUME NEW d \in Docset
  PROVE  /\ NewReply("DocsetList", None, "unset") \notin TransferOf(d)
         /\ \A e \in Docset, row \in {"own", "none", "unset"} :
              /\ NewReply("Docset", e, row) \in TransferOf(d) <=> e = d
              /\ NewReply("TarixIndex", e, row) \in TransferOf(d) <=> e = d
<1>1. /\ \A e \in Docset, row \in {"own", "none", "unset"} :
           NewReply("Docset", e, row) \in Reply /\ NewReply("TarixIndex", e, row) \in Reply
      /\ NewReply("DocsetList", None, "unset") \in Reply
  BY NewReplyType
<1> QED BY <1>1, CountsFor DEF NewReply

LEMMA NewBoxCounts ==
  ASSUME NEW d \in Docset
  PROVE  /\ \A kind \in {"badCatalog", "notice", "notRemoved"}, D \in SUBSET Docset :
              Ask(kind, D) \in Box /\ Ask(kind, D) \notin FetchBoxOf(d) /\ Ask(kind, D) \notin ErrorBoxOf(d)
         /\ \A e \in Docset : /\ Ask("indexFailed", {e}) \in Box
                              /\ Ask("indexFailed", {e}) \in FetchBoxOf(d) <=> e = d
                              /\ Ask("indexFailed", {e}) \notin ErrorBoxOf(d)
         /\ \A D \in SUBSET Docset : /\ Ask("extractFailed", D) \in Box
                                     /\ Ask("extractFailed", D) \notin FetchBoxOf(d)
                                     /\ Ask("extractFailed", D) \in ErrorBoxOf(d) <=> d \in D
         /\ \A kind \in {"downloadFailed", "notRemoved"}, r \in Reply :
              (kind = "notRemoved" => r.type = "Docset") =>
                /\ AskFor(kind, r) \in Box
                /\ AskFor(kind, r) \in FetchBoxOf(d) <=> r.type = "Docset" /\ r.docset = d
                /\ AskFor(kind, r) \notin ErrorBoxOf(d)
<1>1. \A kind \in {"badCatalog", "notice", "notRemoved", "indexFailed", "extractFailed"},
         D \in SUBSET Docset : Ask(kind, D) \in Box
  BY AskType
<1>2. \A kind \in {"downloadFailed", "notRemoved"}, r \in Reply :
        (kind = "notRemoved" => r.type = "Docset") => AskFor(kind, r) \in Box
  BY AskForType, ReplyAssumption
<1>3. /\ \A kind, D : Ask(kind, D).kind = kind /\ Ask(kind, D).about = D /\ Ask(kind, D).reply = None
      /\ \A kind, r : AskFor(kind, r).kind = kind /\ AskFor(kind, r).about = {} /\ AskFor(kind, r).reply = r
  BY DEF Ask, AskFor
<1>4. \A e \in Docset : {e} \in SUBSET Docset
  OBVIOUS
<1>5. \A r \in Reply : r # None
  BY ReplyAssumption
<1> QED BY <1>1, <1>2, <1>3, <1>4, <1>5, CountsFor

LEMMA DownloadDashDocsetWork ==
  ASSUME Handled, NoBox, UNCHANGED <<extractorVars, boxes, tmp>>,
         NEW e \in Docset, NEW pr, DownloadDashDocset(e, pr),
         tmp[e] = None => \A q \in Request : replies[q] = None \/ ~(replies[q].type = "TarixIndex" /\ replies[q].docset = e),
         NEW d \in Docset
  PROVE  Kept(d) \/ (d = e /\ Begun(d))
<1> DEFINE row == IF e \in available THEN "own" ELSE "none"
<1>1. CASE UNCHANGED replies
  BY <1>1, SameAllKept DEF extractorVars
<1>2. CASE /\ tmp[e] = None
           /\ \A q \in Request : ~(replies[q] # None /\ replies[q].type = "Docset" /\ replies[q].docset = e)
           /\ Download(replies, NewReply("Docset", e, row))
  <2>1. NewReply("Docset", e, row) \in TidyReply /\ (NewReply("Docset", e, row) \in TransferOf(d) <=> e = d)
    <3>1. row \in {"own", "none", "unset"}
      OBVIOUS
    <3> QED BY <3>1, NewReplyTidy, NewReplyCounts
  <2>2. R(d)' = R(d) + Bit(NewReply("Docset", e, row) \in TransferOf(d))
    BY <1>2, <2>1, DownloadCounts DEF Handled, Sound, Tidy, R
  <2>3. B(d)' = B(d) /\ X(d)' = X(d) /\ B(d) = 0 /\ X(d) = 0
    BY NoBoxCounts DEF NoBox, B, X
  <2>4. R(d) \in Nat /\ Jobs(d) \in Nat
    BY WorkNat DEF Handled, Sound
  <2>5. CASE d # e
    <3>1. Fet(d)' = Fet(d)
      BY <2>1, <2>2, <2>3, <2>4, <2>5 DEF Fet, Bit
    <3> QED BY <2>3, <3>1, SameWorkKept DEF extractorVars
  <2>6. CASE d = e
    <3>1. R(d) = 0
      <4>1. \A q \in DOMAIN replies : replies[q] \notin TransferOf(d)
        BY <1>2, <2>6, CountsFor, ReplyAssumption DEF Handled, Sound, IInv, DialogOK, TransferOf
      <4> QED BY <4>1, CountNone DEF R
    <3>2. R(d)' = 1
      BY <2>1, <2>2, <2>6, <3>1 DEF Bit
    <3>3. Jobs(d) = 0 /\ Jobs(d)' = 0
      BY <1>2, <2>6, JobsStay DEF extractorVars
    <3> QED BY <1>2, <2>3, <2>6, <3>1, <3>2, <3>3 DEF Begun, Fet, Ext
  <2> QED BY <2>5, <2>6
<1> QED BY <1>1, <1>2 DEF DownloadDashDocset

LEMMA PostWork ==
  ASSUME Handled, NEW e \in Docset, NEW tarix \in BOOLEAN, tmp'[e] # None, Post(tmp'[e], e, tarix),
         UNCHANGED <<signals, running>>, \A c \in Docset : tmp'[c] # tmp[c] => c = e,
         NEW d \in Docset, X(d)' = X(d), Fet(d)' = IF d = e THEN Fet(d) - 1 ELSE Fet(d)
  PROVE  IF d = e THEN Posted(d) ELSE Kept(d)
<1>1. tmp'[e] \in File
  BY DEF Handled, Sound, IInv, DialogOK
<1>2. Jobs(d)' = (IF tmp'[d] = None THEN 0 ELSE Jobs(d)) + Bit(d = e)
  BY <1>1, JobsPosted DEF Handled, Sound
<1>3. tmp[d] = None => Jobs(d) = 0
  <2>1. None \notin JobFiles
    BY JobFilesType, NoneAssumption DEF Handled, Sound
  <2> QED BY <2>1, NoJobs DEF Jobs, Bit, Handled, Sound
<1>4. Jobs(d) \in Nat /\ X(d) \in Nat /\ Fet(d) \in Nat
  BY WorkNat DEF Handled, Sound
<1>5. tmp[d] # None => tmp'[d] # None
  BY DEF ArchiveStep, Handled
<1>6. CASE d = e
  <2>1. Jobs(d)' = Jobs(d) + 1
    BY <1>2, <1>4, <1>6 DEF Bit
  <2> QED BY <1>4, <1>6, <2>1 DEF Posted, Ext
<1>7. CASE d # e
  <2>1. Jobs(d)' = Jobs(d)
    BY <1>2, <1>3, <1>4, <1>7 DEF Bit
  <2> QED BY <1>4, <1>7, <2>1 DEF Kept, Ext
<1> QED BY <1>6, <1>7

\* `rs' and `below' hold what there was, but for the reply or the box of r.
LEMMA StoreArchiveWork ==
  ASSUME Handled, NEW r \in Reply, r.docset \in Docset, NEW rs, TidySlots(rs), NEW below \in Seq(Box),
         StoreArchive(r, rs, below), NEW d \in Docset,
         Count(rs, TransferOf(d)) + Count(below, FetchBoxOf(d)) =
           IF d = r.docset THEN Fet(d) - 1 ELSE Fet(d),
         Count(below, ErrorBoxOf(d)) = X(d)
  PROVE  Kept(d) \/ (d = r.docset /\ (Lost(d) \/ Posted(d)))
<1> DEFINE e == r.docset
<1>1. /\ Count(rs, TransferOf(d)) \in Nat /\ Count(below, FetchBoxOf(d)) \in Nat
      /\ Fet(d) \in Nat /\ X(d) \in Nat /\ Jobs(d) \in Nat
  BY SlotsCount, CountType, WorkNat DEF Handled, Sound
<1>2. UNCHANGED <<signals, running>>
  BY DEF StoreArchive
<1>3. CASE /\ tmp[e] = None
           /\ Show(Ask("notice", {}), below)
           /\ replies' = rs
           /\ UNCHANGED <<queue, tmp>>
  <2>1. B(d)' = Count(below, FetchBoxOf(d)) /\ X(d)' = X(d)
    <3>1. /\ Ask("notice", {}) \in Box
          /\ Ask("notice", {}) \notin FetchBoxOf(d) /\ Ask("notice", {}) \notin ErrorBoxOf(d)
      BY NewBoxCounts
    <3> QED BY <1>1, <1>3, <3>1, ShowCounts DEF Bit
  <2>2. R(d)' = Count(rs, TransferOf(d))
    BY <1>3 DEF R
  <2>3. CASE d # e
    BY <1>2, <1>3, <2>1, <2>2, <2>3, SameWorkKept DEF Fet
  <2>4. CASE d = e
    <3>1. Jobs(d)' = Jobs(d)
      BY <1>2, <1>3, JobsStay
    <3>2. Fet(d)' = Fet(d) - 1
      BY <2>1, <2>2, <2>4 DEF Fet
    <3> QED BY <1>1, <1>3, <2>1, <2>4, <3>1, <3>2 DEF Lost, Ext
  <2> QED BY <2>3, <2>4
<1>4. ASSUME NEW f \in TmpFor(e), tmp' = [tmp EXCEPT ![e] = f], boxes' = below,
             \/ Download(rs, NewReply("TarixIndex", e, "own")) /\ UNCHANGED queue
             \/ Post(f, e, FALSE) /\ replies' = rs
      PROVE  Kept(d) \/ (d = e /\ (Lost(d) \/ Posted(d)))
  <2>1. f \in File /\ f # None
    BY <1>4, TmpForType, NoneAssumption DEF Handled, Sound, IInv
  <2>2. tmp'[e] = f /\ \A c \in Docset : c # e => tmp'[c] = tmp[c]
    BY <1>4 DEF Handled, Sound, IInv, DialogOK
  <2>3. B(d)' = Count(below, FetchBoxOf(d)) /\ X(d)' = X(d)
    BY <1>4 DEF B, X
  <2>4. CASE Download(rs, NewReply("TarixIndex", e, "own")) /\ UNCHANGED queue
    <3>1. NewReply("TarixIndex", e, "own") \in TidyReply /\ (NewReply("TarixIndex", e, "own") \in TransferOf(d) <=> e = d)
      BY NewReplyTidy, NewReplyCounts
    <3>2. R(d)' = Count(rs, TransferOf(d)) + Bit(NewReply("TarixIndex", e, "own") \in TransferOf(d))
      BY <2>4, <3>1, DownloadCounts
    <3>3. Fet(d)' = Fet(d)
      BY <1>1, <2>3, <3>1, <3>2 DEF Fet, Bit
    <3>4. Jobs(d)' = Jobs(d)
      BY <1>2, <2>1, <2>2, <2>4, JobsStay
    <3>5. Fet(d) = 0 => d # e
      BY <1>1
    <3> QED BY <2>1, <2>2, <2>3, <3>3, <3>4, <3>5 DEF Kept, Ext
  <2>5. CASE Post(f, e, FALSE) /\ replies' = rs
    <3>1. Fet(d)' = IF d = e THEN Fet(d) - 1 ELSE Fet(d)
      BY <2>3, <2>5 DEF Fet, R
    <3> QED BY <1>2, <2>1, <2>2, <2>3, <2>5, <3>1, PostWork
  <2> QED BY <1>4, <2>4, <2>5
<1> QED BY <1>3, <1>4 DEF StoreArchive

\* Whether a docset's index is being fetched, or asked about; and whether a box
\* holds up the installation of its new version.
IndexOf(d)    == {r \in Reply : r.type = "TarixIndex" /\ r.docset = d}
IndexBoxOf(d) == {b \in Box : b.kind = "indexFailed" /\ d \in b.about}
HeldBoxOf(d)  == {b \in Box : b.kind = "notRemoved" /\ b.reply # None /\ b.reply.docset = d}
Has(s, A)     == \E i \in DOMAIN s : s[i] \in A
IndexWork(d)  == Has(replies, IndexOf(d)) \/ Has(boxes, IndexBoxOf(d))
HeldWork(d)   == Has(boxes, HeldBoxOf(d))

LEMMA DownloadsWork ==
  ASSUME Handled, NEW e \in Docset, DownloadAvailable(e) \/ UpdateInstalled(e),
         NEW d \in Docset, IndexWork(d) => tmp[d] # None
  PROVE  Kept(d) \/ (d = e /\ Begun(d))
<1>1. PICK pr : /\ NoBox /\ UNCHANGED <<extractorVars, boxes, tmp>>
                /\ DownloadDashDocset(e, pr)
  BY DEF DownloadAvailable, UpdateInstalled, Usable
<1>2. CASE d = e
  <2>1. tmp[e] = None => \A q \in Request : replies[q] = None \/ ~(replies[q].type = "TarixIndex" /\ replies[q].docset = e)
    BY <1>2 DEF IndexWork, Has, IndexOf, Handled, Sound, IInv, DialogOK
  <2> QED BY <1>1, <2>1, DownloadDashDocsetWork
<1>3. CASE d # e
  <2>1. B(d)' = B(d) /\ X(d)' = X(d) /\ R(d) \in Nat
    BY <1>1, WorkNat DEF B, X, Handled, Sound
  <2>2. \/ UNCHANGED replies
        \/ \E row \in {"own", "none", "unset"} : Download(replies, NewReply("Docset", e, row))
    BY <1>1 DEF DownloadDashDocset
  <2>3. ASSUME NEW row \in {"own", "none", "unset"}, Download(replies, NewReply("Docset", e, row))
        PROVE  R(d)' = R(d)
    <3>1. NewReply("Docset", e, row) \in TidyReply /\ NewReply("Docset", e, row) \notin TransferOf(d)
      BY <1>3, NewReplyTidy, NewReplyCounts
    <3>2. R(d)' = R(d) + Bit(NewReply("Docset", e, row) \in TransferOf(d))
      BY <2>3, <3>1, DownloadCounts DEF Handled, Sound, Tidy, R
    <3> QED BY <2>1, <3>1, <3>2 DEF Bit
  <2>4. R(d)' = R(d)
    BY <2>2, <2>3 DEF R
  <2> QED BY <1>1, <2>1, <2>4, SameWorkKept DEF Fet, extractorVars
<1> QED BY <1>2, <1>3

LEMMA CancelWork ==
  ASSUME Handled, CancelDownloads, NEW d \in Docset
  PROVE  Kept(d) \/ Lost(d)
<1> DEFINE Live == {replies[q] : q \in Request} \ {None}
           D == {r.docset : r \in {l \in Live : l.type \in {"Docset", "TarixIndex"}}}
<1>1. DropTmp(D) /\ UNCHANGED <<queue, running, signals, boxes>> /\ boxes = <<>>
  BY DEF CancelDownloads, Usable, NoBox
<1>2. R(d)' = 0
  BY CountNone, CountsFor DEF CancelDownloads, R
<1>3. B(d) = 0 /\ B(d)' = 0 /\ X(d) = 0 /\ X(d)' = 0
  BY <1>1, NoBoxCounts
<1>4. R(d) \in Nat /\ Jobs(d) \in Nat
  BY WorkNat DEF Handled, Sound
<1>5. tmp'[d] = IF d \in D THEN None ELSE tmp[d]
  BY <1>1 DEF DropTmp
<1>6. R(d) # 0 <=> d \in D
  <2>1. R(d) # 0 <=> \E q \in Request : replies[q] \in TransferOf(d)
    <3>1. replies \in [Request -> Reply \cup {None}] /\ IsFiniteSet(Hits(replies, TransferOf(d)))
      BY SlotsCount DEF Handled, Sound, IInv, DialogOK, Tidy
    <3> QED BY <3>1, CountNone, CountZero DEF R
  <2>2. \A q \in Request : replies[q] \in TransferOf(d) <=>
          replies[q] # None /\ replies[q].type \in {"Docset", "TarixIndex"} /\ replies[q].docset = d
    BY CountsFor, ReplyAssumption DEF Handled, Sound, IInv, DialogOK
  <2>3. d \in D <=> \E q \in Request : replies[q] # None /\ replies[q].type \in {"Docset", "TarixIndex"}
                                         /\ replies[q].docset = d
    OBVIOUS
  <2> QED BY <2>1, <2>2, <2>3
<1>7. CASE R(d) = 0
  <2>1. tmp'[d] = tmp[d] /\ Fet(d)' = Fet(d)
    BY <1>2, <1>3, <1>5, <1>6, <1>7 DEF Fet
  <2> QED BY <1>1, <1>3, <2>1, SameWorkKept
<1>8. CASE R(d) # 0
  <2>1. tmp'[d] = None /\ Fet(d)' < Fet(d)
    BY <1>2, <1>3, <1>4, <1>5, <1>6, <1>8 DEF Fet
  <2>2. Jobs(d)' = 0
    BY <1>1, <2>1, JobsStay
  <2> QED BY <1>3, <1>4, <2>1, <2>2 DEF Lost, Ext
<1> QED BY <1>7, <1>8

\* What the user does without asking for a download, giving one up or leaving.
Looks == OpenDialog \/ Start \/ Refresh \/ (\E d \in Docset : AddDashFeed(d))
           \/ (\E S \in SUBSET loaded : AskRemove(S))

LEMMA LooksWork ==
  ASSUME Feeds = {}, Handled, Looks, NEW d \in Docset
  PROVE  Kept(d)
<1>1. CASE OpenDialog
  <2>1. Quiet(replies, tmp) /\ boxes = <<>>
    BY <1>1 DEF OpenDialog, Handled, Sound, Idle
  <2>2. UNCHANGED <<queue, signals, running, tmp, boxes>>
    BY <1>1 DEF OpenDialog, extractorVars
  <2>3. R(d) = 0
    BY <2>1, CountNone, CountsFor DEF R, Quiet, Handled, Sound, IInv, DialogOK
  <2>4. R(d)' = 0
    <3> DEFINE Checked == loaded \cap Feeds
    <3>1. Checked = {}
      OBVIOUS
    <3>2. PICK fresh \in BOOLEAN, slot \in [{None} -> Request] :
            replies' = [q \in Request |-> IF ~fresh /\ slot[None] = q
                                            THEN NewReply("DocsetList", None, "unset") ELSE None]
      BY <1>1, <3>1 DEF OpenDialog
    <3>3. \A q \in DOMAIN replies' : replies'[q] \in {None, NewReply("DocsetList", None, "unset")}
      BY <3>2
    <3> QED BY <3>3, CountNone, CountsFor, NewReplyCounts DEF R
  <2>5. B(d)' = B(d) /\ X(d)' = X(d)
    BY <2>2 DEF B, X
  <2> QED BY <2>2, <2>3, <2>4, <2>5, SameWorkKept DEF Fet
<1>3. CASE Start
  BY <1>3, SameAllKept DEF Start, extractorVars, dialogVars
<1>5. ASSUME NEW e \in Docset, AddDashFeed(e) PROVE Kept(d)
  BY <1>5 DEF AddDashFeed
<1>6. CASE Refresh
  <2>1. R(d) \in Nat
    BY WorkNat DEF Handled, Sound
  <2>2. R(d)' = R(d) + Bit(NewReply("DocsetList", None, "unset") \in TransferOf(d))
    BY <1>6, NewReplyTidy, DownloadCounts DEF Refresh, Handled, Sound, Tidy, R
  <2>3. R(d)' = R(d)
    BY <2>1, <2>2, NewReplyCounts DEF Bit
  <2>4. B(d)' = B(d) /\ X(d)' = X(d)
    BY <1>6 DEF Refresh, B, X
  <2> QED BY <1>6, <2>3, <2>4, SameWorkKept DEF Refresh, Fet, extractorVars
<1>8. ASSUME NEW S \in SUBSET loaded, AskRemove(S) PROVE Kept(d)
  <2> DEFINE b == [Ask("confirmRemove", S) EXCEPT !.rows = {RowOf(c) : c \in S}]
  <2>1. b \in Box /\ b.kind = "confirmRemove" /\ b.reply = None
    <3>1. S \in SUBSET Docset
      BY DEF Handled, Sound, IInv, RegistryOK
    <3>2. {RowOf(c) : c \in S} \in SUBSET Nat
      BY <3>1, RowOfType DEF Handled, Sound, IInv
    <3> QED BY <3>1, <3>2 DEF Ask, Box
  <2>2. boxes \in Seq(Box) /\ Show(b, boxes)
    BY <1>8 DEF AskRemove, Handled, Sound, IInv, DialogOK
  <2> HIDE DEF b
  <2>3. b \notin FetchBoxOf(d) /\ b \notin ErrorBoxOf(d)
    BY <2>1, CountsFor
  <2>4. B(d) \in Nat /\ X(d) \in Nat
    BY WorkNat DEF Handled, Sound
  <2>5. B(d)' = B(d) + Bit(b \in FetchBoxOf(d)) /\ X(d)' = X(d) + Bit(b \in ErrorBoxOf(d))
    BY <2>1, <2>2, ShowCounts DEF B, X
  <2>6. B(d)' = B(d) /\ X(d)' = X(d) /\ R(d)' = R(d)
    BY <1>8, <2>3, <2>4, <2>5 DEF AskRemove, Bit, R
  <2> QED BY <1>8, <2>6, SameWorkKept DEF AskRemove, Fet, extractorVars
<1> QED BY <1>1, <1>3, <1>5, <1>6, <1>8 DEF Looks

LEMMA UserWork ==
  ASSUME Feeds = {}, Handled, User, NEW d \in Docset, IndexWork(d) => tmp[d] # None
  PROVE  Kept(d) \/ Begun(d) \/ Lost(d) \/ Gone(d)
<1>1. CASE Looks
  BY <1>1, LooksWork
<1>2. CASE CloseDialog \/ Quit
  BY <1>2, AllGone DEF CloseDialog, Quit, ProcessEnds
<1>3. ASSUME NEW e \in Docset, DownloadAvailable(e) \/ UpdateInstalled(e)
      PROVE  Kept(d) \/ Begun(d)
  BY <1>3, DownloadsWork
<1>4. CASE CancelDownloads
  BY <1>4, CancelWork
<1> QED BY <1>1, <1>2, <1>3, <1>4 DEF User, Looks

LEMMA HeadJobCounts ==
  ASSUME IInv, queue # <<>>, NEW f
  PROVE  /\ Count(queue, JobOf(f)) = Count(Tail(queue), JobOf(f)) + Bit(Head(queue).file = f)
         /\ Count(Tail(queue), JobOf(f)) \in Nat
<1>1. Head(queue) \in Job /\ Tail(queue) \in Seq(Job) /\ queue \in Seq(Job)
  BY HeadTailProperties DEF IInv, ExtractorOK
<1>2. Head(queue) \in JobOf(f) <=> Head(queue).file = f
  BY <1>1 DEF JobOf
<1>3. Count(queue, JobOf(f)) = Count(Tail(queue), JobOf(f)) + Bit(Head(queue) \in JobOf(f))
  BY <1>1, CountTail
<1>4. Count(Tail(queue), JobOf(f)) \in Nat
  BY <1>1, CountType
<1> QED BY <1>2, <1>3, <1>4 DEF Bit

LEMMA EmitCounts ==
  ASSUME IInv, NEW g \in File, NEW ok \in BOOLEAN, Emit(g, ok, TRUE), NEW f
  PROVE  Count(signals', OutcomeOf(f)) = Count(signals, OutcomeOf(f)) + Bit(g = f)
<1> DEFINE o == [file |-> g, ok |-> ok]
<1>1. signals \in Seq(Outcome) /\ o \in Outcome /\ signals' = Append(signals, o)
  BY DEF Emit, IInv, ExtractorOK, Outcome
<1>2. o \in OutcomeOf(f) <=> g = f
  BY <1>1 DEF OutcomeOf
<1>3. Count(signals', OutcomeOf(f)) = Count(signals, OutcomeOf(f)) + Bit(o \in OutcomeOf(f))
  BY <1>1, CountAppend
<1> QED BY <1>2, <1>3 DEF Bit

LEMMA ExtractorWork ==
  ASSUME Sound, Sound', ExtractorThread, NEW d \in Docset
  PROVE  Kept(d)
<1>1. UNCHANGED <<replies, boxes, tmp>>
  BY DEF ExtractorThread, dialogVars
<1>2. Fet(d)' = Fet(d) /\ X(d)' = X(d)
  BY <1>1 DEF Fet, R, B, X
<1> SUFFICES Jobs(d)' = Jobs(d)
  BY <1>1, <1>2 DEF Kept, Ext
<1>3. CASE tmp[d] = None
  <2>1. None \notin JobFiles
    BY JobFilesType, NoneAssumption DEF Handled, Sound
  <2>2. Jobs(d) = 0
    BY <1>3, <2>1, NoJobs DEF Jobs, Bit, Handled, Sound
  <2> QED BY <1>1, <1>3, <2>2, NoArchiveNoJobs DEF Handled
<1>4. CASE tmp[d] # None
  <2> DEFINE f == tmp[d]
  <2>1. Heard = TRUE
    BY <1>4 DEF Heard, Handled, Sound, Idle, Quiet
  <2>2. Count(queue, JobOf(f)) \in Nat /\ Count(signals, OutcomeOf(f)) \in Nat
    BY CountType DEF Handled, Sound, IInv, ExtractorOK
  <2>3. CASE OpenFails(Heard)
    <3>1. /\ queue # <<>> /\ queue' = Tail(queue) /\ running = None /\ running' = None
          /\ Emit(Head(queue).file, FALSE, TRUE)
      BY <2>1, <2>3 DEF OpenFails
    <3>2. Head(queue).file \in File
      BY <3>1, HeadTailProperties DEF Handled, Sound, IInv, ExtractorOK, Job
    <3>3. Count(signals', OutcomeOf(f)) = Count(signals, OutcomeOf(f)) + Bit(Head(queue).file = f)
      BY <3>1, <3>2, EmitCounts DEF Handled, Sound
    <3>4. /\ Count(queue, JobOf(f)) = Count(queue', JobOf(f)) + Bit(Head(queue).file = f)
          /\ Count(queue', JobOf(f)) \in Nat
      BY <3>1, HeadJobCounts DEF Handled, Sound
    <3> QED BY <1>1, <2>2, <3>1, <3>3, <3>4 DEF Jobs, Bit
  <2>4. CASE Begin
    <3>1. /\ queue # <<>> /\ queue' = Tail(queue) /\ UNCHANGED signals /\ running = None
          /\ running' # None /\ running'.file = Head(queue).file
      <4>1. PICK usable \in BOOLEAN : running' = [file |-> Head(queue).file, docset |-> Head(queue).docset,
                                      tarix |-> usable, body |-> file[Head(queue).file]]
        BY <2>4 DEF Begin
      <4>2. running' \in Running \cup {None} /\ Head(queue) \in Job
        BY <2>4, HeadTailProperties DEF Begin, Handled, Sound, IInv, ExtractorOK
      <4>3. file[Head(queue).file] \in Contents /\ usable \in BOOLEAN
        BY <2>4, <4>1, <4>2 DEF Begin, Handled, Sound, IInv, ExtractorOK, Job
      <4>4. running' \in Running
        BY <4>1, <4>2, <4>3 DEF Running, Job
      <4> QED BY <2>4, <4>1, <4>4, RunningAssumption DEF Begin
    <3>2. /\ Count(queue, JobOf(f)) = Count(queue', JobOf(f)) + Bit(Head(queue).file = f)
          /\ Count(queue', JobOf(f)) \in Nat
      BY <3>1, HeadJobCounts DEF Handled, Sound
    <3> QED BY <1>1, <2>2, <3>1, <3>2 DEF Jobs, Bit
  <2>5. CASE Succeed(Heard) \/ Fail(Heard)
    <3>1. PICK ok \in BOOLEAN : /\ running # None /\ running' = None /\ UNCHANGED queue
                                /\ Emit(running.file, ok, TRUE)
      BY <2>1, <2>5 DEF Succeed, Fail
    <3>2. running.file \in File
      BY <3>1, RunningType DEF Handled, Sound, IInv
    <3>3. Count(signals', OutcomeOf(f)) = Count(signals, OutcomeOf(f)) + Bit(running.file = f)
      BY <3>1, <3>2, EmitCounts DEF Handled, Sound
    <3> QED BY <1>1, <2>2, <3>1, <3>3 DEF Jobs, Bit
  <2> QED BY <2>3, <2>4, <2>5 DEF ExtractorThread
<1> QED BY <1>3, <1>4

LEMMA HeadSignalCounts ==
  ASSUME IInv, signals # <<>>, NEW f
  PROVE  /\ Count(signals, OutcomeOf(f)) = Count(Tail(signals), OutcomeOf(f)) + Bit(Head(signals).file = f)
         /\ Count(Tail(signals), OutcomeOf(f)) \in Nat
<1>1. Head(signals) \in Outcome /\ Tail(signals) \in Seq(Outcome) /\ signals \in Seq(Outcome)
  BY HeadTailProperties DEF IInv, ExtractorOK
<1>2. Head(signals) \in OutcomeOf(f) <=> Head(signals).file = f
  BY <1>1 DEF OutcomeOf
<1>3. Count(signals, OutcomeOf(f)) = Count(Tail(signals), OutcomeOf(f)) + Bit(Head(signals) \in OutcomeOf(f))
  BY <1>1, CountTail
<1>4. Count(Tail(signals), OutcomeOf(f)) \in Nat
  BY <1>1, CountType
<1> QED BY <1>2, <1>3, <1>4 DEF Bit

LEMMA CompletedWork ==
  ASSUME Handled, ExtractionCompleted, NEW d \in Docset
  PROVE  IF d \in Named(Head(signals).file) THEN Ended(d) ELSE Kept(d)
<1> DEFINE f == Head(signals).file
<1>1. /\ signals # <<>> /\ signals' = Tail(signals) /\ DropTmp(Named(f))
      /\ UNCHANGED <<queue, running, replies, boxes>>
  BY DEF ExtractionCompleted, Delivered
<1>2. /\ Count(signals, OutcomeOf(tmp[d])) = Count(signals', OutcomeOf(tmp[d])) + Bit(f = tmp[d])
      /\ Count(signals', OutcomeOf(tmp[d])) \in Nat /\ Count(queue, JobOf(tmp[d])) \in Nat
  BY <1>1, HeadSignalCounts, CountType DEF Handled, Sound, IInv, ExtractorOK
<1>3. Fet(d)' = Fet(d) /\ X(d)' = X(d) /\ X(d) \in Nat
  BY <1>1, WorkNat DEF Fet, R, B, X, Handled, Sound
<1>4. tmp'[d] = IF d \in Named(f) THEN None ELSE tmp[d]
  BY <1>1 DEF DropTmp
<1>5. CASE d \in Named(f)
  <2>1. Jobs(d)' = 0
    BY <1>4, <1>5, NoArchiveNoJobs DEF Handled
  <2>2. Jobs(d) \in Nat /\ Jobs(d) >= 1
    BY <1>2, <1>5 DEF Named, Jobs, Bit
  <2> QED BY <1>3, <1>4, <1>5, <2>1, <2>2 DEF Ended, Ext
<1>6. CASE d \notin Named(f)
  <2>1. Jobs(d)' = Jobs(d)
    BY <1>1, <1>2, <1>4, <1>6 DEF Named, Jobs, Bit
  <2> QED BY <1>3, <1>4, <1>6, <2>1 DEF Kept, Ext
<1> QED BY <1>5, <1>6

LEMMA ErrorWork ==
  ASSUME Handled, ExtractionError, NEW d \in Docset
  PROVE  Kept(d)
<1> DEFINE f == Head(signals).file
           b == Ask("extractFailed", Named(f))
<1>1. /\ signals # <<>> /\ signals' = Tail(signals) /\ Show(b, boxes)
      /\ UNCHANGED <<queue, running, replies, tmp>>
  BY DEF ExtractionError, Delivered
<1>2. /\ Count(signals, OutcomeOf(tmp[d])) = Count(signals', OutcomeOf(tmp[d])) + Bit(f = tmp[d])
      /\ Count(signals', OutcomeOf(tmp[d])) \in Nat /\ Count(queue, JobOf(tmp[d])) \in Nat
  BY <1>1, HeadSignalCounts, CountType DEF Handled, Sound, IInv, ExtractorOK
<1>3. b \in Box /\ b \notin FetchBoxOf(d) /\ (b \in ErrorBoxOf(d) <=> f = tmp[d])
  BY NewBoxCounts DEF Named
<1>4. boxes \in Seq(Box) /\ B(d) \in Nat /\ X(d) \in Nat
  BY WorkNat DEF Handled, Sound, IInv, DialogOK
<1> HIDE DEF b
<1>5. B(d)' = B(d) + Bit(b \in FetchBoxOf(d)) /\ X(d)' = X(d) + Bit(b \in ErrorBoxOf(d))
  BY <1>1, <1>3, <1>4, ShowCounts DEF B, X
<1>6. Jobs(d) = Jobs(d)' + Bit(f = tmp[d]) /\ Jobs(d)' \in Nat
  BY <1>1, <1>2 DEF Jobs, Bit
<1>7. Ext(d)' = Ext(d)
  BY <1>3, <1>4, <1>5, <1>6 DEF Ext, Bit
<1>8. Fet(d)' = Fet(d)
  <2>1. R(d)' = R(d)
    BY <1>1 DEF R
  <2> QED BY <1>3, <1>4, <1>5, <2>1 DEF Fet, Bit
<1> QED BY <1>1, <1>7, <1>8 DEF Kept

\* Handling a reply.
Handles(q) == \/ DownloadProgress(q) \/ DownloadFails(q) \/ CatalogArrives(q)
              \/ FeedArrives(q) \/ DocsetArrives(q) \/ IndexArrives(q)

LEMMA NetworkWork ==
  ASSUME Handled, NEW q \in Request, Handles(q), NEW d \in Docset
  PROVE  Kept(d) \/ (d = replies[q].docset /\ (Lost(d) \/ Posted(d)))
<1> USE DEF Handles
<1> DEFINE r == replies[q]
           Left == Count(Without(q), TransferOf(d))
<1>1. r \in TidyReply /\ r \in Reply /\ r # None /\ (r.type # "DocsetList" => r.docset \in Docset)
  <2>1. r # None
    BY DEF DownloadProgress, DownloadFails, CatalogArrives, FeedArrives, DocsetArrives,
           IndexArrives, Arriving
  <2> QED BY <2>1, ReplyFields DEF Handled, Sound, Tidy, TidySlots, TidyReply
<1>2. /\ TidySlots(Without(q)) /\ TidySlots(replies) /\ boxes \in Seq(Box)
      /\ R(d) \in Nat /\ B(d) \in Nat /\ X(d) \in Nat /\ Jobs(d) \in Nat
  BY WithoutTidy, WorkNat DEF Handled, Sound, Tidy, IInv, DialogOK
<1>3. Left \in Nat /\ Left = R(d) - Bit(r \in TransferOf(d))
  BY <1>2, SlotsCount, WithoutCounts DEF Handled, Sound
<1>4. r \in TransferOf(d) <=> r.type \in {"Docset", "TarixIndex"} /\ r.docset = d
  BY <1>1, CountsFor
<1>5. CASE DownloadProgress(q)
  <2>1. PICK f \in TmpFor(r.docset) : /\ tmp' = [tmp EXCEPT ![r.docset] = f]
                                      /\ replies' = [replies EXCEPT ![q].into = f]
    BY <1>5 DEF DownloadProgress
  <2>2. r.type = "Docset" /\ r.docset \in Docset
    BY <1>1, <1>5 DEF DownloadProgress, Arriving
  <2>3. f \in File /\ f # None
    BY <2>1, <2>2, TmpForType, NoneAssumption DEF Handled, Sound, IInv
  <2>4. /\ tmp'[r.docset] = f /\ \A c \in Docset : c # r.docset => tmp'[c] = tmp[c]
    BY <2>1 DEF Handled, Sound, IInv, DialogOK
  <2>5. R(d)' = R(d)
    <3> DEFINE v == [r EXCEPT !.into = f]
    <3>1. v \in Reply /\ v.type = r.type /\ v.docset = r.docset
      BY <1>1, <2>3, ReplyInto DEF Reply
    <3>2. replies' = [replies EXCEPT ![q] = v]
      BY <2>1
    <3> HIDE DEF v
    <3>3. v \in TransferOf(d) <=> r \in TransferOf(d)
      BY <1>4, <2>2, <3>1, CountsFor
    <3>4. replies \in [Request -> Reply \cup {None}] /\ IsFiniteSet(Hits(replies, TransferOf(d)))
      BY <1>2, SlotsCount DEF Handled, Sound, IInv, DialogOK
    <3>5. Count([replies EXCEPT ![q] = v], TransferOf(d))
            = Count(replies, TransferOf(d)) + Bit(v \in TransferOf(d)) - Bit(r \in TransferOf(d))
      BY <3>4, CountAssign
    <3> QED BY <1>2, <3>2, <3>3, <3>5 DEF R, Bit
  <2>6. B(d)' = B(d) /\ X(d)' = X(d) /\ UNCHANGED <<queue, signals, running>>
    BY <1>5 DEF DownloadProgress, B, X
  <2>7. Jobs(d)' = Jobs(d)
    BY <2>3, <2>4, <2>6, JobsStay
  <2>8. d = r.docset => Fet(d) # 0
    <3>1. d = r.docset => Left = R(d) - 1
      BY <1>3, <1>4, <2>2 DEF Bit
    <3> QED BY <1>2, <1>3, <3>1 DEF Fet
  <2> QED BY <2>3, <2>4, <2>5, <2>6, <2>7, <2>8 DEF Kept, Fet, Ext
<1>6. CASE DownloadFails(q)
  <2> DEFINE row == IF r.docset \in available THEN "own" ELSE "none"
             again == [NewReply("TarixIndex", r.docset, row) EXCEPT !.attempt = r.attempt + 1]
  <2>1. UNCHANGED <<queue, signals, running, tmp>>
    BY <1>6 DEF DownloadFails, extractorVars
  <2>2. CASE r.type = "TarixIndex" /\ r.attempt < MaxTarixIndexRetries
    <3>1. r.docset \in Docset /\ row \in {"own", "none", "unset"}
      BY <1>1, <2>2
    <3>2. r.attempt + 1 \in 0..MaxTarixIndexRetries
      BY <1>1, <2>2, ReplyFields, LimitAssumption
    <3>3. NewReply("TarixIndex", r.docset, row) \in Reply
      BY <3>1, NewReplyType
    <3>4. again \in TidyReply /\ again \in Reply /\ again.type = "TarixIndex" /\ again.docset = r.docset
      BY <3>2, <3>3 DEF TidyReply, Reply, NewReply
    <3>5. Download(Without(q), again) /\ UNCHANGED boxes
      BY <1>1, <1>6, <2>2, ReplyFields, LimitAssumption DEF DownloadFails
    <3> HIDE DEF again
    <3>6. again \in TransferOf(d) <=> r \in TransferOf(d)
      BY <1>4, <2>2, <3>4, CountsFor
    <3>7. R(d)' = Left + Bit(again \in TransferOf(d))
      BY <1>2, <3>4, <3>5, DownloadCounts
    <3>8. R(d)' = R(d)
      BY <1>2, <1>3, <3>6, <3>7 DEF Bit
    <3> QED BY <2>1, <3>5, <3>8, SameWorkKept DEF Fet, B, X
  <2>3. CASE r.type = "TarixIndex" /\ r.attempt = MaxTarixIndexRetries
    <3> DEFINE b == Ask("indexFailed", {r.docset})
    <3>1. Show(b, boxes) /\ replies' = Without(q)
      BY <1>6, <2>3, LimitAssumption DEF DownloadFails
    <3>2. b \in Box /\ (b \in FetchBoxOf(d) <=> r \in TransferOf(d)) /\ b \notin ErrorBoxOf(d)
      BY <1>1, <1>4, <2>3, NewBoxCounts
    <3> HIDE DEF b
    <3>3. B(d)' = B(d) + Bit(b \in FetchBoxOf(d)) /\ X(d)' = X(d) + Bit(b \in ErrorBoxOf(d))
      BY <1>2, <3>1, <3>2, ShowCounts DEF B, X
    <3>4. X(d)' = X(d) /\ Fet(d)' = Fet(d)
      BY <1>2, <1>3, <3>1, <3>2, <3>3 DEF Fet, R, Bit
    <3> QED BY <2>1, <3>4, SameWorkKept
  <2>4. CASE r.type # "TarixIndex"
    <3> DEFINE b == AskFor("downloadFailed", r)
    <3>1. Show(b, boxes) /\ replies' = Without(q)
      BY <1>6, <2>4 DEF DownloadFails
    <3>2. b \in Box /\ (b \in FetchBoxOf(d) <=> r \in TransferOf(d)) /\ b \notin ErrorBoxOf(d)
      BY <1>1, <1>4, <2>4, NewBoxCounts DEF TidyReply, Reply
    <3> HIDE DEF b
    <3>3. B(d)' = B(d) + Bit(b \in FetchBoxOf(d)) /\ X(d)' = X(d) + Bit(b \in ErrorBoxOf(d))
      BY <1>2, <3>1, <3>2, ShowCounts DEF B, X
    <3>4. X(d)' = X(d) /\ Fet(d)' = Fet(d)
      BY <1>2, <1>3, <3>1, <3>2, <3>3 DEF Fet, R, Bit
    <3> QED BY <2>1, <3>4, SameWorkKept
  <2> QED BY <1>6, <2>2, <2>3, <2>4 DEF DownloadFails
<1>7. CASE CatalogArrives(q)
  <2>1. /\ replies' = Without(q) /\ UNCHANGED <<queue, signals, running, tmp>>
        /\ UNCHANGED boxes \/ Show(Ask("notice", {}), boxes) \/ Show(Ask("badCatalog", {}), boxes)
    BY <1>7 DEF CatalogArrives, extractorVars
  <2>2. R(d)' = R(d)
    <3>1. r \notin TransferOf(d)
      BY <1>4, <1>7 DEF CatalogArrives, Arriving
    <3> QED BY <1>2, <1>3, <2>1, <3>1 DEF R, Bit
  <2>3. ASSUME NEW kind \in {"notice", "badCatalog"}, Show(Ask(kind, {}), boxes)
        PROVE  B(d)' = B(d) /\ X(d)' = X(d)
    <3>1. /\ Ask(kind, {}) \in Box
          /\ Ask(kind, {}) \notin FetchBoxOf(d) /\ Ask(kind, {}) \notin ErrorBoxOf(d)
      BY NewBoxCounts
    <3>2. /\ B(d)' = B(d) + Bit(Ask(kind, {}) \in FetchBoxOf(d))
          /\ X(d)' = X(d) + Bit(Ask(kind, {}) \in ErrorBoxOf(d))
      BY <1>2, <2>3, <3>1, ShowCounts DEF B, X
    <3> QED BY <1>2, <3>1, <3>2 DEF Bit
  <2>4. B(d)' = B(d) /\ X(d)' = X(d)
    <3>1. CASE UNCHANGED boxes
      BY <3>1 DEF B, X
    <3> QED BY <2>1, <2>3, <3>1
  <2> QED BY <2>1, <2>2, <2>4, SameWorkKept DEF Fet
<1>8. ~FeedArrives(q)
  BY <1>1 DEF FeedArrives, Arriving, TidyReply
<1>9. CASE DocsetArrives(q)
  <2>1. r.type = "Docset" /\ r.docset \in Docset /\ (r \in TransferOf(d) <=> d = r.docset)
    BY <1>1, <1>4, <1>9 DEF DocsetArrives, Arriving
  <2>2. CASE StoreArchive(r, Without(q), boxes)
    <3>1. /\ Left + Count(boxes, FetchBoxOf(d)) = IF d = r.docset THEN Fet(d) - 1 ELSE Fet(d)
          /\ Count(boxes, ErrorBoxOf(d)) = X(d)
      BY <1>2, <1>3, <2>1 DEF Fet, B, X, Bit
    <3> QED BY <1>1, <1>2, <2>1, <2>2, <3>1, StoreArchiveWork
  <2>3. CASE /\ Show(AskFor("notRemoved", r), boxes)
             /\ replies' = Without(q)
             /\ UNCHANGED <<extractorVars, tmp>>
    <3> DEFINE b == AskFor("notRemoved", r)
    <3>1. Show(b, boxes) /\ replies' = Without(q)
      BY <2>3
    <3>2. b \in Box /\ (b \in FetchBoxOf(d) <=> r \in TransferOf(d)) /\ b \notin ErrorBoxOf(d)
      BY <1>1, <2>1, NewBoxCounts
    <3> HIDE DEF b
    <3>3. B(d)' = B(d) + Bit(b \in FetchBoxOf(d)) /\ X(d)' = X(d) + Bit(b \in ErrorBoxOf(d))
      BY <1>2, <3>1, <3>2, ShowCounts DEF B, X
    <3>4. X(d)' = X(d) /\ Fet(d)' = Fet(d)
      BY <1>2, <1>3, <3>1, <3>2, <3>3 DEF Fet, R, Bit
    <3> QED BY <2>3, <3>4, SameWorkKept DEF extractorVars
  <2> QED BY <1>9, <2>2, <2>3 DEF DocsetArrives
<1>10. CASE IndexArrives(q)
  <2> DEFINE e == r.docset
  <2>1. /\ e \in Docset /\ (r \in TransferOf(d) <=> d = e)
        /\ replies' = Without(q) /\ UNCHANGED <<running, signals, tmp, boxes>>
    BY <1>1, <1>4, <1>10 DEF IndexArrives, Arriving
  <2>2. X(d)' = X(d) /\ Fet(d)' = IF d = e THEN Fet(d) - 1 ELSE Fet(d)
    BY <1>2, <1>3, <2>1 DEF X, Fet, R, B, Bit
  <2>3. CASE tmp[e] = None
    <3>1. UNCHANGED queue
      BY <1>10, <2>3 DEF IndexArrives
    <3>2. Jobs(d)' = Jobs(d)
      BY <2>1, <3>1, JobsStay
    <3>3. Fet(d) \in Nat
      BY <1>2 DEF Fet
    <3> QED BY <1>2, <2>1, <2>2, <3>1, <3>2, <3>3, SameWorkKept DEF Lost, Ext
  <2>4. CASE tmp[e] # None
    <3>1. PICK usable \in BOOLEAN : Post(tmp[e], e, usable)
      BY <1>10, <2>4 DEF IndexArrives
    <3> QED BY <2>1, <2>2, <2>4, <3>1, PostWork
  <2> QED BY <2>3, <2>4
<1> QED BY <1>5, <1>6, <1>7, <1>8, <1>9, <1>10

\* What answering the top box takes off the counts.
LEMMA PopCounts ==
  ASSUME IInv, boxes # <<>>, boxes' = Below, NEW d
  PROVE  /\ B(d)' = B(d) - Bit(Head(boxes) \in FetchBoxOf(d))
         /\ X(d)' = X(d) - Bit(Head(boxes) \in ErrorBoxOf(d))
<1>1. /\ B(d) = Count(Below, FetchBoxOf(d)) + Bit(Head(boxes) \in FetchBoxOf(d))
      /\ X(d) = Count(Below, ErrorBoxOf(d)) + Bit(Head(boxes) \in ErrorBoxOf(d))
      /\ Count(Below, FetchBoxOf(d)) \in Nat /\ Count(Below, ErrorBoxOf(d)) \in Nat
  BY BelowCounts
<1>2. B(d)' = Count(Below, FetchBoxOf(d)) /\ X(d)' = Count(Below, ErrorBoxOf(d))
  BY DEF B, X
<1> QED BY <1>1, <1>2 DEF Bit

\* A box that counts for no work, answered with no work begun.
LEMMA PopKept ==
  ASSUME Handled, boxes # <<>>, UNCHANGED <<queue, signals, running, tmp>>, NEW d \in Docset,
         R(d)' = R(d), Head(boxes) \notin FetchBoxOf(d), Head(boxes) \notin ErrorBoxOf(d),
         \/ boxes' = Below
         \/ \E b \in Box : Show(b, Below) /\ b \notin FetchBoxOf(d) /\ b \notin ErrorBoxOf(d)
  PROVE  Kept(d)
<1>1. /\ B(d) = Count(Below, FetchBoxOf(d)) + Bit(Head(boxes) \in FetchBoxOf(d))
      /\ X(d) = Count(Below, ErrorBoxOf(d)) + Bit(Head(boxes) \in ErrorBoxOf(d))
      /\ Count(Below, FetchBoxOf(d)) \in Nat /\ Count(Below, ErrorBoxOf(d)) \in Nat
  BY BelowCounts DEF Handled, Sound
<1>2. B(d)' = B(d) /\ X(d)' = X(d)
  <2>1. CASE boxes' = Below
    <3>1. /\ B(d)' = B(d) - Bit(Head(boxes) \in FetchBoxOf(d))
          /\ X(d)' = X(d) - Bit(Head(boxes) \in ErrorBoxOf(d))
      BY <2>1, PopCounts DEF Handled, Sound
    <3> QED BY <1>1, <3>1 DEF Bit
  <2>2. ASSUME NEW b \in Box, Show(b, Below), b \notin FetchBoxOf(d), b \notin ErrorBoxOf(d)
        PROVE  B(d)' = B(d) /\ X(d)' = X(d)
    <3>1. Below \in Seq(Box)
      BY TopType DEF Handled, Sound, IInv
    <3>2. /\ B(d)' = Count(Below, FetchBoxOf(d)) + Bit(b \in FetchBoxOf(d))
          /\ X(d)' = Count(Below, ErrorBoxOf(d)) + Bit(b \in ErrorBoxOf(d))
      BY <2>2, <3>1, ShowCounts
    <3> QED BY <1>1, <2>2, <3>2 DEF Bit
  <2> QED BY <2>1, <2>2
<1> QED BY <1>2, SameWorkKept DEF Fet

LEMMA RemoveDocsetsWork ==
  ASSUME Handled, boxes # <<>>, Head(boxes).kind \in {"confirmRemove", "notRemoved"},
         Head(boxes).reply = None, NEW N, RemoveDocsets(N, Below), NEW d \in Docset
  PROVE  Kept(d)
<1>1. Head(boxes) \in Box /\ Head(boxes) \notin FetchBoxOf(d) /\ Head(boxes) \notin ErrorBoxOf(d)
  BY TopType DEF Handled, Sound, IInv, FetchBoxOf, ErrorBoxOf
<1>2. UNCHANGED <<queue, signals, running, tmp>> /\ R(d)' = R(d)
  BY DEF RemoveDocsets, R
<1>3. \/ boxes' = Below
      \/ \E D \in SUBSET Docset : Show(Ask("notRemoved", D), Below)
  <2> DEFINE M == N \cap loaded
  <2>1. M \subseteq Docset
    BY DEF Handled, Sound, IInv, RegistryOK
  <2>2. \/ boxes' = Below
        \/ \E e \in M : \E D \in SUBSET (M \ {e}) : Show(Ask("notRemoved", M \ (D \cup {e})), Below)
    BY DEF RemoveDocsets
  <2> QED BY <2>1, <2>2
<1>4. \A D \in SUBSET Docset : LET b == Ask("notRemoved", D)
                               IN b \in Box /\ b \notin FetchBoxOf(d) /\ b \notin ErrorBoxOf(d)
  BY NewBoxCounts
<1> QED BY <1>1, <1>2, <1>3, <1>4, PopKept

LEMMA AnswerDownloadFailedWork ==
  ASSUME Handled, AnswerDownloadFailed, NEW d \in Docset
  PROVE  Kept(d) \/ (d = Head(boxes).reply.docset /\ Lost(d))
<1> DEFINE top == Head(boxes)
           r == Head(boxes).reply
           again == [r EXCEPT !.into = None]
<1>1. /\ boxes # <<>> /\ top \in TidyBox /\ top \in Box /\ top.kind = "downloadFailed" /\ r # None
      /\ r \in Reply /\ r.type \in {"Docset", "DocsetList"} /\ top \notin ErrorBoxOf(d)
      /\ (top \in FetchBoxOf(d) <=> r.type = "Docset" /\ r.docset = d)
  <2>1. boxes # <<>> /\ top.kind = "downloadFailed"
    BY DEF AnswerDownloadFailed, Top
  <2> QED BY <2>1, TopTidy DEF Handled, Sound, TidyBox, Box, FetchBoxOf, ErrorBoxOf
<1>2. /\ again \in TidyReply /\ again \in Reply
      /\ again \in TransferOf(d) <=> r.type = "Docset" /\ r.docset = d
  BY <1>1, NoneAssumption DEF Reply, TidyReply, TransferOf
<1>3. UNCHANGED <<queue, signals, running, tmp>> /\ boxes' = Below
  BY DEF AnswerDownloadFailed, extractorVars
<1>4. Download(replies, again) \/ UNCHANGED replies
  BY DEF AnswerDownloadFailed
<1>5. /\ B(d)' = B(d) - Bit(top \in FetchBoxOf(d))
      /\ X(d)' = X(d) - Bit(top \in ErrorBoxOf(d))
  BY <1>1, <1>3, PopCounts DEF Handled, Sound
<1>6. R(d) \in Nat /\ B(d) \in Nat /\ B(d)' \in Nat /\ X(d) \in Nat /\ Jobs(d) \in Nat
  BY WorkNat, WorkNatNext DEF Handled, Sound
<1>7. X(d)' = X(d)
  BY <1>1, <1>5, <1>6 DEF Bit
<1> HIDE DEF again, top
<1>8. CASE Download(replies, again)
  <2>1. R(d)' = R(d) + Bit(again \in TransferOf(d))
    BY <1>2, <1>8, DownloadCounts DEF Handled, Sound, Tidy, R
  <2>2. Fet(d)' = Fet(d)
    BY <1>1, <1>2, <1>5, <1>6, <2>1 DEF Fet, Bit
  <2> QED BY <1>3, <1>7, <2>2, SameWorkKept
<1>9. CASE UNCHANGED replies
  <2>1. R(d)' = R(d)
    BY <1>9 DEF R
  <2>2. CASE top \in FetchBoxOf(d)
    <3>1. Fet(d)' < Fet(d)
      BY <1>5, <1>6, <2>1, <2>2 DEF Fet, Bit
    <3>2. Jobs(d)' = Jobs(d)
      BY <1>3, JobsStay
    <3> QED BY <1>1, <1>3, <1>6, <1>7, <2>2, <3>1, <3>2 DEF Lost, Ext, top
  <2>3. CASE top \notin FetchBoxOf(d)
    <3>1. Fet(d)' = Fet(d)
      BY <1>5, <1>6, <2>1, <2>3 DEF Fet, Bit
    <3> QED BY <1>3, <1>7, <3>1, SameWorkKept
  <2> QED BY <2>2, <2>3
<1> QED BY <1>4, <1>8, <1>9

LEMMA AnswerIndexFailedWork ==
  ASSUME Handled, AnswerIndexFailed, NEW d \in Docset
  PROVE  Kept(d) \/ (Head(boxes).about = {d} /\ (Lost(d) \/ Posted(d)))
<1> DEFINE top == Head(boxes)
           row(e) == IF e \in available THEN "own" ELSE "none"
<1>1. /\ boxes # <<>> /\ top \in TidyBox /\ top \in Box /\ top.kind = "indexFailed" /\ top.reply = None
      /\ top \notin ErrorBoxOf(d) /\ (top \in FetchBoxOf(d) <=> d \in top.about)
      /\ \E c \in Docset : top.about = {c}
  <2>1. boxes # <<>> /\ top.kind = "indexFailed"
    BY DEF AnswerIndexFailed, Top
  <2> QED BY <2>1, TopTidy DEF Handled, Sound, TidyBox, Box, FetchBoxOf, ErrorBoxOf
<1>2. PICK e \in Docset : top.about = {e}
  BY <1>1
<1>3. /\ \/ Download(replies, NewReply("TarixIndex", e, row(e))) /\ UNCHANGED <<file, queue, tmp>>
         \/ /\ IF tmp[e] = None THEN UNCHANGED queue ELSE Post(tmp[e], e, FALSE)
            /\ UNCHANGED <<file, tmp, replies>>
         \/ DropTmp({e}) /\ UNCHANGED <<queue, replies>>
      /\ boxes' = Below /\ UNCHANGED <<running, signals>>
  BY <1>2 DEF AnswerIndexFailed
<1>4. /\ B(d)' = B(d) - Bit(top \in FetchBoxOf(d))
      /\ X(d)' = X(d) - Bit(top \in ErrorBoxOf(d))
  BY <1>1, <1>3, PopCounts DEF Handled, Sound
<1>5. /\ R(d) \in Nat /\ B(d) \in Nat /\ B(d)' \in Nat /\ X(d) \in Nat /\ Jobs(d) \in Nat
      /\ tmp \in [Docset -> File \cup {None}]
  BY WorkNat, WorkNatNext DEF Handled, Sound, IInv, DialogOK
<1>6. X(d)' = X(d) /\ B(d)' = IF d = e THEN B(d) - 1 ELSE B(d)
  BY <1>1, <1>2, <1>4, <1>5 DEF Bit
<1> SUFFICES Kept(d) \/ (d = e /\ (Lost(d) \/ Posted(d)))
  BY <1>2 DEF top
<1> HIDE DEF top
<1>7. CASE Download(replies, NewReply("TarixIndex", e, row(e))) /\ UNCHANGED <<file, queue, tmp>>
  <2> DEFINE v == NewReply("TarixIndex", e, row(e))
  <2>1. v \in TidyReply /\ (v \in TransferOf(d) <=> d = e) /\ Download(replies, v)
    BY <1>7, NewReplyTidy, NewReplyCounts
  <2> HIDE DEF v
  <2>2. R(d)' = R(d) + Bit(v \in TransferOf(d))
    BY <2>1, DownloadCounts DEF Handled, Sound, Tidy, R
  <2>3. Fet(d)' = Fet(d)
    BY <1>5, <1>6, <2>1, <2>2 DEF Fet, Bit
  <2> QED BY <1>3, <1>6, <1>7, <2>3, SameWorkKept
<1>8. CASE UNCHANGED replies
  <2>1. R(d)' = R(d)
    BY <1>8 DEF R
  <2>2. Fet(d)' = IF d = e THEN Fet(d) - 1 ELSE Fet(d)
    BY <1>5, <1>6, <2>1 DEF Fet
  <2>3. CASE UNCHANGED <<queue, tmp>>
    <3>1. Jobs(d)' = Jobs(d)
      BY <1>3, <2>3, JobsStay
    <3> QED BY <1>3, <1>5, <1>6, <2>2, <2>3, <3>1, SameWorkKept DEF Lost, Ext, Fet
  <2>4. CASE tmp[e] # None /\ Post(tmp[e], e, FALSE) /\ UNCHANGED tmp
    <3>1. tmp'[e] # None /\ Post(tmp'[e], e, FALSE) /\ \A c \in Docset : tmp'[c] # tmp[c] => c = e
      BY <2>4
    <3> QED BY <1>3, <1>6, <2>2, <3>1, PostWork
  <2>5. CASE DropTmp({e}) /\ UNCHANGED queue
    <3>1. tmp' = [c \in Docset |-> IF c \in {e} THEN None ELSE tmp[c]]
      BY <2>5 DEF DropTmp
    <3>2. tmp'[e] = None /\ (d # e => tmp'[d] = tmp[d])
      BY <3>1
    <3>3. d = e => Jobs(d)' = 0
      BY <1>3, <2>5, <3>2, JobsStay
    <3> QED BY <1>3, <1>5, <1>6, <2>2, <2>5, <3>2, <3>3, SameWorkKept DEF Lost, Ext, Fet
  <2> QED BY <1>3, <1>7, <2>3, <2>4, <2>5
<1> QED BY <1>3, <1>7, <1>8

LEMMA DismissExtractFailedWork ==
  ASSUME Handled, DismissExtractFailed, NEW d \in Docset
  PROVE  IF d \in Head(boxes).about THEN Ended(d) ELSE Kept(d)
<1> DEFINE top == Head(boxes)
<1>1. /\ boxes # <<>> /\ top \in Box /\ top.about \subseteq Docset
      /\ top \notin FetchBoxOf(d) /\ (top \in ErrorBoxOf(d) <=> d \in top.about)
  <2>1. boxes # <<>> /\ top.kind = "extractFailed"
    BY DEF DismissExtractFailed, Top
  <2> QED BY <2>1, TopTidy DEF Handled, Sound, TidyBox, Box, FetchBoxOf, ErrorBoxOf
<1>2. boxes' = Below /\ DropTmp(top.about) /\ UNCHANGED <<queue, running, signals, replies>>
  BY DEF DismissExtractFailed
<1>3. /\ B(d)' = B(d) - Bit(top \in FetchBoxOf(d))
      /\ X(d)' = X(d) - Bit(top \in ErrorBoxOf(d))
  BY <1>1, <1>2, PopCounts DEF Handled, Sound
<1>4. R(d) \in Nat /\ B(d) \in Nat /\ X(d) \in Nat /\ Jobs(d) \in Nat
  BY WorkNat DEF Handled, Sound
<1>5. tmp' = [c \in Docset |-> IF c \in top.about THEN None ELSE tmp[c]]
  BY <1>2 DEF DropTmp
<1>6. tmp'[d] = IF d \in top.about THEN None ELSE tmp[d]
  BY <1>5
<1> HIDE DEF top
<1>7. Fet(d)' = Fet(d) /\ X(d)' = IF d \in top.about THEN X(d) - 1 ELSE X(d)
  <2>1. R(d)' = R(d)
    BY <1>2 DEF R
  <2> QED BY <1>1, <1>3, <1>4, <2>1 DEF Fet, Bit
<1>8. CASE d \in top.about
  <2>1. Jobs(d)' = 0
    BY <1>2, <1>6, <1>8, JobsStay
  <2> QED BY <1>4, <1>6, <1>7, <1>8, <2>1 DEF Ended, Ext, top
<1>9. CASE d \notin top.about
  BY <1>2, <1>6, <1>7, <1>9, SameWorkKept DEF top
<1> QED BY <1>8, <1>9 DEF top

LEMMA DismissNotRemovedWork ==
  ASSUME Handled, DismissNotRemoved, NEW d \in Docset
  PROVE  Kept(d) \/ (Head(boxes).reply # None /\ d = Head(boxes).reply.docset /\ (Lost(d) \/ Posted(d)))
<1> DEFINE top == Head(boxes)
<1>0. boxes # <<>> => top \in Box
  BY TopTidy DEF Handled, Sound, TidyBox
<1>1. boxes # <<>> /\ top.kind = "notRemoved"
  BY DEF DismissNotRemoved, Top
<1>2. CASE top.reply = None
  BY <1>1, <1>2, RemoveDocsetsWork DEF DismissNotRemoved
<1>3. CASE top.reply # None
  <2> DEFINE r == top.reply
  <2>1. r \in Reply /\ r.type = "Docset" /\ r.docset \in Docset
    BY <1>0, <1>1, <1>3, ReplyFields DEF Box
  <2>2. StoreArchive(r, replies, Below)
    BY <1>3 DEF DismissNotRemoved
  <2>3. top \notin ErrorBoxOf(d) /\ (top \in FetchBoxOf(d) <=> d = r.docset)
    BY <1>0, <1>1, <1>3, <2>1, CountsFor
  <2>4. /\ B(d) = Count(Below, FetchBoxOf(d)) + Bit(top \in FetchBoxOf(d))
        /\ X(d) = Count(Below, ErrorBoxOf(d)) + Bit(top \in ErrorBoxOf(d))
        /\ Count(Below, FetchBoxOf(d)) \in Nat /\ Count(Below, ErrorBoxOf(d)) \in Nat
    BY <1>1, BelowCounts DEF Handled, Sound
  <2>5. R(d) \in Nat /\ Below \in Seq(Box) /\ TidySlots(replies)
    BY <1>1, WorkNat, TopType DEF Handled, Sound, IInv, Tidy
  <2> HIDE DEF r, top
  <2>6. /\ Count(replies, TransferOf(d)) + Count(Below, FetchBoxOf(d)) =
             IF d = r.docset THEN Fet(d) - 1 ELSE Fet(d)
        /\ Count(Below, ErrorBoxOf(d)) = X(d)
    BY <2>3, <2>4, <2>5 DEF Fet, R, Bit
  <2>7. Kept(d) \/ (d = r.docset /\ (Lost(d) \/ Posted(d)))
    BY <2>1, <2>2, <2>5, <2>6, StoreArchiveWork
  <2> QED BY <1>3, <2>7 DEF r, top
<1> QED BY <1>2, <1>3

LEMMA DismissWork ==
  ASSUME Handled, AnswerBadCatalog \/ DismissNotice \/ DeclineRemove, NEW d \in Docset
  PROVE  Kept(d)
<1> DEFINE top == Head(boxes)
<1>1. boxes # <<>> => /\ top \in TidyBox /\ top \in Box
                      /\ top.kind \in {"badCatalog", "notice", "confirmRemove"} =>
                           top.reply = None /\ top \notin FetchBoxOf(d) /\ top \notin ErrorBoxOf(d)
  BY TopTidy DEF Handled, Sound, TidyBox, Box, FetchBoxOf, ErrorBoxOf
<1>2. CASE AnswerBadCatalog
  <2> DEFINE v == NewReply("DocsetList", None, "unset")
  <2>1. boxes # <<>> /\ top.kind = "badCatalog" /\ boxes' = Below /\ UNCHANGED <<queue, signals, running, tmp>>
    BY <1>2 DEF AnswerBadCatalog, Top, extractorVars
  <2>2. R(d)' = R(d)
    <3>1. CASE Download(replies, v)
      <4>1. v \in TidyReply /\ v \notin TransferOf(d)
        BY NewReplyTidy, NewReplyCounts
      <4> HIDE DEF v
      <4>2. R(d)' = R(d) + Bit(v \in TransferOf(d))
        BY <3>1, <4>1, DownloadCounts DEF Handled, Sound, Tidy, R
      <4>3. R(d) \in Nat
        BY WorkNat DEF Handled, Sound
      <4> QED BY <4>1, <4>2, <4>3 DEF Bit
    <3>2. CASE UNCHANGED replies
      BY <3>2 DEF R
    <3> QED BY <1>2, <3>1, <3>2 DEF AnswerBadCatalog
  <2> QED BY <1>1, <2>1, <2>2, PopKept
<1>3. CASE DismissNotice \/ DeclineRemove
  <2>1. /\ boxes # <<>> /\ top.kind \in {"notice", "confirmRemove"} /\ boxes' = Below
        /\ UNCHANGED <<queue, signals, running, tmp>> /\ R(d)' = R(d)
    BY <1>3 DEF DismissNotice, DeclineRemove, Top, extractorVars, R
  <2> QED BY <1>1, <2>1, PopKept
<1> QED BY <1>2, <1>3

LEMMA AnswerWork ==
  ASSUME Handled, Answer, NEW d \in Docset
  PROVE  Kept(d) \/ Lost(d) \/ Posted(d) \/ Ended(d) \/ Gone(d)
<1> DEFINE top == Head(boxes)
<1>1. boxes # <<>> => top \in Box /\ (top.kind = "confirmRemove" => top.reply = None)
  BY TopTidy DEF Handled, Sound, TidyBox
<1>4. CASE ConfirmRemove
  <2>1. boxes # <<>> /\ top.kind = "confirmRemove"
    BY <1>4 DEF ConfirmRemove, Top
  <2>2. ProcessEnds \/ RemoveDocsets(DocsetsIn(top.rows), Below)
    BY <1>4 DEF ConfirmRemove
  <2>3. ProcessEnds => Gone(d)
    BY AllGone DEF ProcessEnds
  <2> QED BY <1>1, <2>1, <2>2, <2>3, RemoveDocsetsWork
<1>5. CASE DismissNotRemoved
  BY <1>5, DismissNotRemovedWork
<1> QED BY <1>4, <1>5, DismissWork, AnswerDownloadFailedWork, AnswerIndexFailedWork,
           DismissExtractFailedWork DEF Answer

------------------------------------------------------------------------------
(* One download, question or extraction at a time.                           *)

LEMMA HasPush ==
  ASSUME NEW b \in Box, NEW below \in Seq(Box), Show(b, below), NEW A, Has(boxes', A)
  PROVE  b \in A \/ Has(below, A)
<1> DEFINE s == <<b>> \o below
<1>1. <<b>> \in Seq(Box) /\ Len(<<b>>) = 1 /\ <<b>>[1] = b
  OBVIOUS
<1>2. /\ s \in Seq(Box) /\ Len(s) = 1 + Len(below) /\ Len(below) \in Nat
      /\ \A i \in 1 .. Len(s) : s[i] = IF i <= 1 THEN <<b>>[i] ELSE below[i - 1]
  BY <1>1, ConcatProperties, LenProperties
<1>3. DOMAIN s = 1 .. Len(s) /\ DOMAIN below = 1 .. Len(below)
  BY <1>2, LenProperties
<1> HIDE DEF s
<1>4. boxes' = s
  BY DEF Show, s
<1>5. PICK i \in 1 .. Len(s) : s[i] \in A
  BY <1>3, <1>4 DEF Has
<1>6. CASE i = 1
  BY <1>1, <1>2, <1>5, <1>6
<1>7. CASE i # 1
  <2>1. i - 1 \in 1 .. Len(below) /\ s[i] = below[i - 1]
    BY <1>2, <1>5, <1>7
  <2> QED BY <1>3, <1>5, <2>1 DEF Has
<1> QED BY <1>6, <1>7

LEMMA HasTail ==
  ASSUME NEW S, NEW s \in Seq(S), s # <<>>, NEW A, Has(Tail(s), A)
  PROVE  Has(s, A)
<1>1. PICK i \in DOMAIN Tail(s) : Tail(s)[i] \in A
  BY DEF Has
<1>2. /\ DOMAIN Tail(s) = 1 .. Len(Tail(s)) /\ DOMAIN s = 1 .. Len(s) /\ Len(s) \in Nat
      /\ Len(Tail(s)) = Len(s) - 1
  BY HeadTailProperties, LenProperties
<1>3. Tail(s)[i] = s[i + 1] /\ i + 1 \in 1 .. Len(s)
  BY <1>1, <1>2, HeadTailProperties
<1> QED BY <1>1, <1>2, <1>3 DEF Has

LEMMA HasSlot ==
  ASSUME NEW T, NEW rs \in [Request -> T], NEW q \in Request, NEW v, NEW A, Has([rs EXCEPT ![q] = v], A)
  PROVE  v \in A \/ Has(rs, A)
  BY DEF Has

\* Which replies and boxes are about an index, or hold an installation up.
LEMMA OriginFor ==
  ASSUME NEW d \in Docset
  PROVE  /\ None \notin IndexOf(d)
         /\ \A r \in Reply : r \in IndexOf(d) <=> r.type = "TarixIndex" /\ r.docset = d
         /\ \A b \in Box : b \in IndexBoxOf(d) <=> b.kind = "indexFailed" /\ d \in b.about
         /\ \A b \in Box : b \in HeldBoxOf(d) <=>
              b.kind = "notRemoved" /\ b.reply # None /\ b.reply.docset = d
  BY ReplyAssumption DEF IndexOf, IndexBoxOf, HeldBoxOf

\* A request, a box, or an answered one leave the other work where it was.
LEMMA DownloadOrigin ==
  ASSUME NEW T, NEW rs \in [Request -> T], NEW r \in Reply, Download(rs, r),
         NEW d \in Docset, Has(replies', IndexOf(d))
  PROVE  (r.type = "TarixIndex" /\ r.docset = d) \/ Has(rs, IndexOf(d))
<1>1. PICK q \in Request : replies' = [rs EXCEPT ![q] = r]
  BY DEF Download, Free
<1>2. r \in IndexOf(d) \/ Has(rs, IndexOf(d))
  BY <1>1, HasSlot
<1> QED BY <1>2 DEF IndexOf

LEMMA ShowOrigin ==
  ASSUME NEW b \in Box, NEW below \in Seq(Box), Show(b, below), NEW d \in Docset
  PROVE  /\ Has(boxes', IndexBoxOf(d)) =>
              (b.kind = "indexFailed" /\ d \in b.about) \/ Has(below, IndexBoxOf(d))
         /\ Has(boxes', HeldBoxOf(d)) =>
              (b.kind = "notRemoved" /\ b.reply # None /\ b.reply.docset = d) \/ Has(below, HeldBoxOf(d))
<1>1. \A A : Has(boxes', A) => b \in A \/ Has(below, A)
  BY HasPush
<1> QED BY <1>1 DEF IndexBoxOf, HeldBoxOf

\* A reply or a box about the index counts as work of its docset.
LEMMA OriginCounts ==
  ASSUME NEW rs, TidySlots(rs), NEW bs \in Seq(Box), NEW d \in Docset
  PROVE  /\ Has(rs, IndexOf(d)) => Count(rs, TransferOf(d)) >= 1
         /\ Has(bs, IndexBoxOf(d)) \/ Has(bs, HeldBoxOf(d)) => Count(bs, FetchBoxOf(d)) >= 1
         /\ Count(rs, TransferOf(d)) \in Nat /\ Count(bs, FetchBoxOf(d)) \in Nat
<1>1. /\ IsFiniteSet(Hits(rs, TransferOf(d))) /\ IsFiniteSet(Hits(bs, FetchBoxOf(d)))
      /\ Count(rs, TransferOf(d)) \in Nat /\ Count(bs, FetchBoxOf(d)) \in Nat
  BY SlotsCount, CountType
<1>2. IndexOf(d) \subseteq TransferOf(d) /\ IndexBoxOf(d) \subseteq FetchBoxOf(d)
  BY DEF IndexOf, TransferOf, IndexBoxOf, FetchBoxOf
<1>3. HeldBoxOf(d) \subseteq FetchBoxOf(d)
  BY DEF HeldBoxOf, FetchBoxOf, Box
<1>4. Has(rs, IndexOf(d)) => Count(rs, TransferOf(d)) >= 1
  BY <1>1, <1>2, CountSome DEF Has
<1>5. Has(bs, IndexBoxOf(d)) => Count(bs, FetchBoxOf(d)) >= 1
  BY <1>1, <1>2, CountSome DEF Has
<1>6. Has(bs, HeldBoxOf(d)) => Count(bs, FetchBoxOf(d)) >= 1
  BY <1>1, <1>3, CountSome DEF Has
<1> QED BY <1>1, <1>4, <1>5, <1>6

LEMMA IndexIsWork ==
  ASSUME Sound, NEW d \in Docset
  PROVE  IndexWork(d) \/ HeldWork(d) => Fet(d) >= 1
<1>1. TidySlots(replies) /\ boxes \in Seq(Box)
  BY DEF Sound, Tidy, IInv, DialogOK
<1> QED BY <1>1, OriginCounts DEF IndexWork, HeldWork, Fet, R, B

LEMMA IndexIsWorkNext ==
  ASSUME Sound', NEW d \in Docset
  PROVE  IndexWork(d)' \/ HeldWork(d)' => Fet(d)' >= 1
<1>1. TidySlots(replies') /\ boxes' \in Seq(Box)
  BY DEF Sound, Tidy, IInv, DialogOK, TidySlots
<1> QED BY <1>1, OriginCounts DEF IndexWork, HeldWork, Fet, R, B

\* An index is fetched, or asked about, only for a docset that has its archive and
\* is not in the registry; what a box holds up is for a docset that is not, either.
Origin(d) ==
  /\ IndexWork(d) => tmp[d] # None /\ d \notin loaded
  /\ HeldWork(d) => d \notin loaded

NewOrigin(d) ==
  /\ IndexWork(d)' => IndexWork(d) \/ (tmp'[d] # None /\ d \notin loaded')
  /\ HeldWork(d)' => HeldWork(d) \/ d \notin loaded'

LEMMA SameOrigin ==
  ASSUME UNCHANGED <<replies, boxes>>, NEW d
  PROVE  NewOrigin(d)
  BY DEF NewOrigin, IndexWork, HeldWork

LEMMA FewerOrigin ==
  ASSUME NEW d, UNCHANGED boxes, Has(replies', IndexOf(d)) => Has(replies, IndexOf(d))
  PROVE  NewOrigin(d)
  BY DEF NewOrigin, IndexWork, HeldWork

LEMMA NothingOrigin ==
  ASSUME NEW d, \A q \in DOMAIN replies' : replies'[q] \notin IndexOf(d), boxes' = <<>>
  PROVE  NewOrigin(d)
  BY DEF NewOrigin, IndexWork, HeldWork, Has

LEMMA UserOrigin ==
  ASSUME Feeds = {}, Sound, User, NEW d \in Docset
  PROVE  NewOrigin(d)
<1> USE DEF Sound, IInv
<1>1. CASE OpenDialog
  <2>1. boxes' = <<>>
    BY <1>1 DEF OpenDialog, Idle
  <2>2. PICK fresh \in BOOLEAN, slot \in [{None} -> Request] :
          replies' = [q \in Request |-> IF ~fresh /\ slot[None] = q
                                          THEN NewReply("DocsetList", None, "unset") ELSE None]
    <3> DEFINE Checked == loaded \cap Feeds
    <3>1. Checked = {}
      OBVIOUS
    <3> QED BY <1>1, <3>1 DEF OpenDialog
  <2>3. \A q \in DOMAIN replies' : replies'[q] \in {None, NewReply("DocsetList", None, "unset")}
    BY <2>2
  <2>4. NewReply("DocsetList", None, "unset") \notin IndexOf(d) /\ None \notin IndexOf(d)
    BY OriginFor DEF IndexOf, NewReply
  <2> QED BY <2>1, <2>3, <2>4, NothingOrigin
<1>2. CASE CloseDialog \/ Quit
  <2>1. DialogGone
    BY <1>2 DEF CloseDialog, Quit, ProcessEnds
  <2>2. replies' = [q \in Request |-> None] /\ boxes' = <<>>
    BY <2>1 DEF DialogGone
  <2> QED BY <2>2, OriginFor, NothingOrigin
<1>3. CASE Start
  BY <1>3, SameOrigin DEF Start, dialogVars
<1>4. ASSUME NEW e \in Docset, DownloadAvailable(e) \/ UpdateInstalled(e)
      PROVE  NewOrigin(d)
  <2>1. PICK pr : UNCHANGED boxes /\ DownloadDashDocset(e, pr)
    BY <1>4 DEF DownloadAvailable, UpdateInstalled
  <2>2. UNCHANGED replies \/ \E row \in {"own", "none", "unset"} : Download(replies, NewReply("Docset", e, row))
    BY <2>1 DEF DownloadDashDocset
  <2>3. ASSUME NEW row \in {"own", "none", "unset"}, Download(replies, NewReply("Docset", e, row))
        PROVE  NewOrigin(d)
    <3>1. NewReply("Docset", e, row) \in Reply /\ NewReply("Docset", e, row).type = "Docset"
      BY NewReplyType DEF NewReply
    <3> QED BY <2>1, <2>3, <3>1, DownloadOrigin DEF NewOrigin, IndexWork, HeldWork, DialogOK
  <2> QED BY <2>1, <2>2, <2>3, SameOrigin
<1>5. ASSUME NEW e \in Docset, AddDashFeed(e) PROVE NewOrigin(d)
  BY <1>5 DEF AddDashFeed
<1>6. CASE Refresh
  <2>1. NewReply("DocsetList", None, "unset") \in Reply /\ NewReply("DocsetList", None, "unset").type = "DocsetList"
    BY NewReplyType DEF NewReply
  <2>2. Download(replies, NewReply("DocsetList", None, "unset")) /\ UNCHANGED boxes
    BY <1>6 DEF Refresh
  <2> QED BY <2>1, <2>2, DownloadOrigin DEF NewOrigin, IndexWork, HeldWork, DialogOK
<1>7. CASE CancelDownloads
  <2>1. boxes' = <<>> /\ replies' = [q \in Request |-> None]
    BY <1>7 DEF CancelDownloads, Usable, NoBox
  <2> QED BY <2>1, OriginFor, NothingOrigin
<1>8. ASSUME NEW S \in SUBSET loaded, AskRemove(S) PROVE NewOrigin(d)
  <2> DEFINE b == [Ask("confirmRemove", S) EXCEPT !.rows = {RowOf(c) : c \in S}]
  <2>1. b \in Box /\ b.kind = "confirmRemove"
    <3>1. S \in SUBSET Docset
      BY DEF RegistryOK
    <3>2. {RowOf(c) : c \in S} \in SUBSET Nat
      BY <3>1, RowOfType
    <3> QED BY <3>1, <3>2 DEF Ask, Box
  <2>2. boxes \in Seq(Box) /\ Show(b, boxes) /\ UNCHANGED replies
    BY <1>8 DEF AskRemove, DialogOK
  <2> HIDE DEF b
  <2> QED BY <2>1, <2>2, ShowOrigin DEF NewOrigin, IndexWork, HeldWork
<1> QED BY <1>1, <1>2, <1>3, <1>4, <1>5, <1>6, <1>7, <1>8 DEF User

\* `rs' and `below' are what the handler leaves of the replies and the boxes.
LEMMA StoreArchiveOrigin ==
  ASSUME Sound, NEW r \in Reply, r.docset \in Docset, r.docset \notin loaded',
         NEW rs \in [Request -> Reply \cup {None}], NEW below \in Seq(Box),
         StoreArchive(r, rs, below), NEW d \in Docset,
         Has(rs, IndexOf(d)) => Has(replies, IndexOf(d)),
         Has(below, IndexBoxOf(d)) => Has(boxes, IndexBoxOf(d)),
         Has(below, HeldBoxOf(d)) => Has(boxes, HeldBoxOf(d))
  PROVE  NewOrigin(d)
<1> DEFINE e == r.docset
<1>1. CASE Show(Ask("notice", {}), below) /\ replies' = rs
  <2>1. Ask("notice", {}) \in Box /\ Ask("notice", {}).kind = "notice"
    BY AskType DEF Ask
  <2> QED BY <1>1, <2>1, ShowOrigin DEF NewOrigin, IndexWork, HeldWork
<1>2. ASSUME NEW f \in TmpFor(e), tmp' = [tmp EXCEPT ![e] = f], boxes' = below,
             replies' = rs \/ Download(rs, NewReply("TarixIndex", e, "own"))
      PROVE  NewOrigin(d)
  <2>1. tmp'[e] # None
    BY <1>2, TmpForType, NoneAssumption DEF Sound, IInv, DialogOK
  <2>2. Download(rs, NewReply("TarixIndex", e, "own")) =>
          (Has(replies', IndexOf(d)) => d = e \/ Has(rs, IndexOf(d)))
    <3>1. NewReply("TarixIndex", e, "own") \in Reply /\ NewReply("TarixIndex", e, "own").docset = e
      BY NewReplyType DEF NewReply
    <3> QED BY <3>1, DownloadOrigin
  <2> QED BY <1>2, <2>1, <2>2 DEF NewOrigin, IndexWork, HeldWork
<1> QED BY <1>1, <1>2 DEF StoreArchive

LEMMA WithoutOrigin ==
  ASSUME Sound, NEW q \in Request, NEW d \in Docset, Has(Without(q), IndexOf(d))
  PROVE  Has(replies, IndexOf(d))
<1>1. None \in IndexOf(d) \/ Has(replies, IndexOf(d))
  BY HasSlot DEF Without, Sound, IInv, DialogOK
<1> QED BY <1>1, OriginFor

LEMMA BelowOrigin ==
  ASSUME Sound, boxes # <<>>, NEW A, Has(Below, A)
  PROVE  Has(boxes, A)
<1>1. boxes \in Seq(Box) /\ Has(Tail(boxes), A)
  BY DEF Sound, IInv, DialogOK, Below
<1> QED BY <1>1, HasTail

\* A box about nothing, pushed on what was there or on what was below the top.
LEMMA PushOrigin ==
  ASSUME Sound, NEW d \in Docset, Has(replies', IndexOf(d)) => Has(replies, IndexOf(d)),
         \/ boxes' \in {boxes, Below} /\ (boxes' = Below => boxes # <<>>)
         \/ \E b \in Box : /\ b.kind # "indexFailed" /\ ~(b.kind = "notRemoved" /\ b.reply # None)
                           /\ Show(b, boxes) \/ (Show(b, Below) /\ boxes # <<>>)
  PROVE  NewOrigin(d)
<1>1. CASE boxes' \in {boxes, Below} /\ (boxes' = Below => boxes # <<>>)
  BY <1>1, BelowOrigin DEF NewOrigin, IndexWork, HeldWork
<1>2. ASSUME NEW b \in Box, b.kind # "indexFailed", ~(b.kind = "notRemoved" /\ b.reply # None),
             NEW below, below = boxes \/ (below = Below /\ boxes # <<>>), Show(b, below)
      PROVE  NewOrigin(d)
  <2>1. below \in Seq(Box)
    BY <1>2, TopType DEF Sound, IInv, DialogOK
  <2>2. \A A : Has(below, A) => Has(boxes, A)
    BY <1>2, BelowOrigin
  <2> QED BY <1>2, <2>1, <2>2, ShowOrigin DEF NewOrigin, IndexWork, HeldWork
<1> QED BY <1>1, <1>2

LEMMA RemoveDocsetsOrigin ==
  ASSUME Sound, boxes # <<>>, NEW N, RemoveDocsets(N, Below), NEW d \in Docset
  PROVE  NewOrigin(d)
<1> DEFINE M == N \cap loaded
<1>1. M \subseteq Docset /\ UNCHANGED replies
  BY DEF Sound, IInv, RegistryOK, RemoveDocsets
<1>2. \/ boxes' = Below
      \/ \E e \in M : \E D \in SUBSET (M \ {e}) : Show(Ask("notRemoved", M \ (D \cup {e})), Below)
  BY DEF RemoveDocsets
<1>3. \A D \in SUBSET Docset : Ask("notRemoved", D) \in Box
  BY AskType
<1>4. \A D : Ask("notRemoved", D).kind = "notRemoved" /\ Ask("notRemoved", D).reply = None
  BY DEF Ask
<1> QED BY <1>1, <1>2, <1>3, <1>4, PushOrigin

LEMMA AnswerOrigin ==
  ASSUME Sound, Answer, NEW d \in Docset, \A e \in Docset : Origin(e)
  PROVE  NewOrigin(d)
<1> DEFINE top == Head(boxes)
<1>1. ui = "open" /\ boxes # <<>>
  BY DEF Answer, AnswerDownloadFailed, AnswerIndexFailed, AnswerBadCatalog, DismissNotice,
         DismissExtractFailed, DismissNotRemoved, ConfirmRemove, DeclineRemove, Top
<1>2. top \in TidyBox /\ top \in Box /\ Has(boxes, {top})
  <2>1. top \in TidyBox
    BY <1>1, TopTidy DEF Sound
  <2>2. 1 \in DOMAIN boxes /\ boxes[1] = top
    BY <1>1, HeadTailProperties, LenProperties, EmptySeq DEF Sound, IInv, DialogOK
  <2> QED BY <2>1, <2>2 DEF TidyBox, Has
<1>3. CASE AnswerDownloadFailed
  <2> DEFINE r == [top.reply EXCEPT !.into = None]
  <2>1. /\ boxes' = Below
        /\ UNCHANGED replies \/ Download(replies, r)
        /\ top.kind = "downloadFailed"
    BY <1>3 DEF AnswerDownloadFailed, Top
  <2>2. r \in Reply /\ r.type \in {"Docset", "DocsetList"}
    BY <1>2, <2>1, NoneAssumption DEF TidyBox, Box, Reply
  <2> HIDE DEF r
  <2>3. Has(replies', IndexOf(d)) => Has(replies, IndexOf(d))
    BY <2>1, <2>2, DownloadOrigin DEF Sound, IInv, DialogOK
  <2> QED BY <1>1, <2>1, <2>3, PushOrigin
<1>4. CASE AnswerIndexFailed
  <2>1. PICK e \in Docset : e \in top.about /\ top.kind = "indexFailed" /\ boxes' = Below
                            /\ \/ UNCHANGED replies
                               \/ \E row \in {"own", "none", "unset"} :
                                    Download(replies, NewReply("TarixIndex", e, row)) /\ UNCHANGED <<tmp, loaded>>
    <3>1. top.about \subseteq Docset
      BY <1>2 DEF Box
    <3> QED BY <1>4, <3>1 DEF AnswerIndexFailed, Top, registryVars
  <2>2. CASE UNCHANGED replies
    BY <1>1, <2>1, <2>2, PushOrigin
  <2>3. ASSUME NEW row \in {"own", "none", "unset"}, Download(replies, NewReply("TarixIndex", e, row)),
               UNCHANGED <<tmp, loaded>>
        PROVE  NewOrigin(d)
    <3>1. IndexWork(e)
      BY <1>2, <2>1, OriginFor DEF IndexWork, Has
    <3>2. tmp'[e] # None /\ e \notin loaded'
      BY <2>3, <3>1 DEF Origin
    <3>3. NewReply("TarixIndex", e, row) \in Reply /\ NewReply("TarixIndex", e, row).docset = e
      BY NewReplyType DEF NewReply
    <3>4. Has(replies', IndexOf(d)) => d = e \/ Has(replies, IndexOf(d))
      BY <2>3, <3>3, DownloadOrigin DEF Sound, IInv, DialogOK
    <3>5. \A A : Has(boxes', A) => Has(boxes, A)
      BY <1>1, <2>1, BelowOrigin
    <3> QED BY <3>2, <3>4, <3>5 DEF NewOrigin, IndexWork, HeldWork
  <2> QED BY <2>1, <2>2, <2>3
<1>5. CASE AnswerBadCatalog
  <2> DEFINE r == NewReply("DocsetList", None, "unset")
  <2>1. boxes' = Below /\ (UNCHANGED replies \/ Download(replies, r))
    BY <1>5 DEF AnswerBadCatalog
  <2>2. r \in Reply /\ r.type = "DocsetList"
    BY NewReplyType DEF NewReply
  <2> HIDE DEF r
  <2>3. Has(replies', IndexOf(d)) => Has(replies, IndexOf(d))
    BY <2>1, <2>2, DownloadOrigin DEF Sound, IInv, DialogOK
  <2> QED BY <1>1, <2>1, <2>3, PushOrigin
<1>6. CASE DismissNotice \/ DismissExtractFailed \/ DeclineRemove
  BY <1>1, <1>6, PushOrigin DEF DismissNotice, DismissExtractFailed, DeclineRemove
<1>7. CASE ConfirmRemove
  <2>1. CASE ProcessEnds
    <3>1. replies' = [q \in Request |-> None] /\ boxes' = <<>>
      BY <2>1 DEF ProcessEnds, DialogGone
    <3> QED BY <3>1, OriginFor, NothingOrigin
  <2> QED BY <1>1, <1>7, <2>1, RemoveDocsetsOrigin DEF ConfirmRemove
<1>8. CASE DismissNotRemoved
  <2>1. CASE top.reply = None
    BY <1>1, <1>8, <2>1, RemoveDocsetsOrigin DEF DismissNotRemoved
  <2>2. CASE top.reply # None
    <3> DEFINE r == top.reply
    <3>1. r \in Reply /\ r.docset \in Docset /\ top.kind = "notRemoved"
      BY <1>2, <1>8, <2>2, ReplyFields DEF Box, DismissNotRemoved, Top
    <3>2. StoreArchive(r, replies, Below) /\ UNCHANGED loaded
      BY <1>8, <2>2 DEF DismissNotRemoved, registryVars
    <3>3. HeldWork(r.docset)
      BY <1>2, <2>2, <3>1, OriginFor DEF HeldWork, Has
    <3>4. r.docset \notin loaded'
      BY <3>1, <3>2, <3>3 DEF Origin
    <3>5. Below \in Seq(Box) /\ replies \in [Request -> Reply \cup {None}]
      BY <1>1, TopType DEF Sound, IInv, DialogOK
    <3>6. \A A : Has(Below, A) => Has(boxes, A)
      BY <1>1, BelowOrigin
    <3> HIDE DEF r
    <3> QED BY <3>1, <3>2, <3>4, <3>5, <3>6, StoreArchiveOrigin
  <2> QED BY <2>1, <2>2
<1> QED BY <1>3, <1>4, <1>5, <1>6, <1>7, <1>8 DEF Answer

LEMMA NetworkOrigin ==
  ASSUME Sound, LoadedHasDirectory, Network, NEW d \in Docset, \A e \in Docset : Origin(e)
  PROVE  NewOrigin(d)
<1> PICK q \in Request : \/ DownloadProgress(q) \/ DownloadFails(q) \/ CatalogArrives(q)
                         \/ FeedArrives(q) \/ DocsetArrives(q) \/ IndexArrives(q)
  BY DEF Network
<1> DEFINE r == replies[q]
<1>1. r \in TidyReply /\ r \in Reply /\ r # None /\ (r.type # "DocsetList" => r.docset \in Docset)
  <2>1. r # None
    BY DEF DownloadProgress, DownloadFails, CatalogArrives, FeedArrives, DocsetArrives,
           IndexArrives, Arriving
  <2> QED BY <2>1, ReplyFields DEF Sound, Tidy, TidySlots, TidyReply
<1>2. /\ replies \in [Request -> Reply \cup {None}] /\ Without(q) \in [Request -> Reply \cup {None}]
      /\ boxes \in Seq(Box)
      /\ Has(Without(q), IndexOf(d)) => Has(replies, IndexOf(d))
  BY WithoutType, WithoutOrigin DEF Sound, IInv, DialogOK
<1>3. r.type = "TarixIndex" => IndexWork(r.docset) /\ tmp[r.docset] # None /\ r.docset \notin loaded
  <2>1. r.type = "TarixIndex" => Has(replies, IndexOf(r.docset))
    BY <1>1, <1>2, OriginFor DEF Has
  <2> QED BY <1>1, <2>1 DEF IndexWork, Origin
<1>4. CASE DownloadProgress(q)
  <2>1. PICK f \in TmpFor(r.docset) : /\ replies' = [replies EXCEPT ![q].into = f]
                                      /\ r.type = "Docset" /\ UNCHANGED boxes
    BY <1>4 DEF DownloadProgress, Arriving
  <2>2. f \in File /\ f # None
    BY <1>1, <2>1, TmpForType, NoneAssumption DEF Sound, IInv
  <2> DEFINE v == [r EXCEPT !.into = f]
  <2>3. v \in Reply /\ v.type = "Docset"
    BY <1>1, <2>1, <2>2, ReplyInto DEF Reply
  <2>4. replies' = [replies EXCEPT ![q] = v]
    BY <2>1
  <2> HIDE DEF v
  <2>5. v \in IndexOf(d) \/ (Has(replies', IndexOf(d)) => Has(replies, IndexOf(d)))
    BY <1>2, <2>4, HasSlot
  <2>6. v \notin IndexOf(d)
    BY <2>3, OriginFor
  <2> QED BY <2>1, <2>5, <2>6, FewerOrigin
<1>5. CASE DownloadFails(q)
  <2>1. CASE r.type = "TarixIndex" /\ r.attempt < MaxTarixIndexRetries
    <3> DEFINE row == IF r.docset \in available THEN "own" ELSE "none"
               again == [NewReply("TarixIndex", r.docset, row) EXCEPT !.attempt = r.attempt + 1]
    <3>1. again \in Reply /\ again.docset = r.docset
      <4>1. row \in {"own", "none", "unset"} /\ r.attempt + 1 \in 0..MaxTarixIndexRetries
        BY <1>1, <2>1, ReplyFields, LimitAssumption
      <4>2. NewReply("TarixIndex", r.docset, row) \in Reply
        BY <1>1, <2>1, <4>1, NewReplyType
      <4> QED BY <4>1, <4>2 DEF NewReply, Reply
    <3>2. Download(Without(q), again) /\ UNCHANGED <<boxes, tmp, loaded>>
      BY <1>1, <1>5, <2>1, ReplyFields, LimitAssumption DEF DownloadFails, registryVars
    <3> HIDE DEF again
    <3>3. Has(replies', IndexOf(d)) => d = r.docset \/ Has(replies, IndexOf(d))
      BY <1>2, <3>1, <3>2, DownloadOrigin
    <3> QED BY <1>3, <2>1, <3>2, <3>3 DEF NewOrigin, IndexWork, HeldWork
  <2>2. CASE r.type = "TarixIndex" /\ r.attempt = MaxTarixIndexRetries
    <3> DEFINE b == Ask("indexFailed", {r.docset})
    <3>1. Show(b, boxes) /\ replies' = Without(q) /\ UNCHANGED <<tmp, loaded>>
      BY <1>5, <2>2, LimitAssumption DEF DownloadFails, registryVars
    <3>2. b \in Box /\ b.kind = "indexFailed" /\ b.about = {r.docset}
      BY <1>1, <2>2, AskType DEF Ask
    <3> HIDE DEF b
    <3>3. /\ Has(boxes', IndexBoxOf(d)) => d = r.docset \/ Has(boxes, IndexBoxOf(d))
          /\ Has(boxes', HeldBoxOf(d)) => Has(boxes, HeldBoxOf(d))
      BY <1>2, <3>1, <3>2, ShowOrigin
    <3> QED BY <1>2, <1>3, <2>2, <3>1, <3>3 DEF NewOrigin, IndexWork, HeldWork
  <2>3. CASE r.type # "TarixIndex"
    <3> DEFINE b == AskFor("downloadFailed", r)
    <3>1. Show(b, boxes) /\ replies' = Without(q)
      BY <1>5, <2>3 DEF DownloadFails
    <3>2. b \in Box /\ b.kind = "downloadFailed"
      BY <1>1, AskForType DEF AskFor
    <3> HIDE DEF b
    <3> QED BY <1>2, <3>1, <3>2, PushOrigin
  <2> QED BY <1>5, <2>1, <2>2, <2>3 DEF DownloadFails
<1>6. CASE CatalogArrives(q)
  <2>1. /\ replies' = Without(q)
        /\ \/ UNCHANGED boxes
           \/ \E kind \in {"notice", "badCatalog"} : Show(Ask(kind, {}), boxes)
    BY <1>6 DEF CatalogArrives
  <2>2. \A kind \in {"notice", "badCatalog"} : Ask(kind, {}) \in Box /\ Ask(kind, {}).kind = kind
    BY AskType DEF Ask
  <2>3. ASSUME NEW kind \in {"notice", "badCatalog"}, Show(Ask(kind, {}), boxes)
        PROVE  NewOrigin(d)
    BY <1>2, <2>1, <2>2, <2>3, PushOrigin
  <2> QED BY <1>2, <2>1, <2>3, FewerOrigin
<1>7. CASE FeedArrives(q)
  BY <1>1, <1>7 DEF FeedArrives, Arriving, TidyReply
<1>8. CASE DocsetArrives(q)
  <2> DEFINE e == r.docset
  <2>1. e \in Docset /\ r.type = "Docset"
    BY <1>1, <1>8 DEF DocsetArrives, Arriving
  <2>2. CASE StoreArchive(r, Without(q), boxes)
    <3>1. e \notin loaded'
      BY <1>8 DEF DocsetArrives, registryVars, LoadedHasDirectory
    <3> HIDE DEF r
    <3> QED BY <1>1, <1>2, <2>1, <2>2, <3>1, StoreArchiveOrigin
  <2>3. CASE Show(AskFor("notRemoved", r), boxes) /\ replies' = Without(q) /\ loaded' = loaded \ {e}
    <3> DEFINE b == AskFor("notRemoved", r)
    <3>1. b \in Box /\ b.kind = "notRemoved" /\ b.reply = r
      BY <1>1, <2>1, AskForType DEF AskFor
    <3>2. Show(b, boxes)
      BY <2>3
    <3> HIDE DEF b
    <3>3. /\ Has(boxes', IndexBoxOf(d)) => Has(boxes, IndexBoxOf(d))
          /\ Has(boxes', HeldBoxOf(d)) => d = e \/ Has(boxes, HeldBoxOf(d))
      BY <1>2, <3>1, <3>2, ShowOrigin
    <3> QED BY <1>2, <2>3, <3>3 DEF NewOrigin, IndexWork, HeldWork
  <2> QED BY <1>8, <2>2, <2>3 DEF DocsetArrives
<1>9. CASE IndexArrives(q)
  BY <1>2, <1>9, FewerOrigin DEF IndexArrives
<1> QED BY <1>4, <1>5, <1>6, <1>7, <1>8, <1>9

LEMMA SignalOrigin ==
  ASSUME Sound, Signal, NEW d \in Docset
  PROVE  NewOrigin(d)
<1>1. CASE ExtractionCompleted
  BY <1>1, SameOrigin DEF ExtractionCompleted
<1>2. CASE ExtractionError
  <2> DEFINE b == Ask("extractFailed", Named(Head(signals).file))
  <2>1. b \in Box /\ b.kind = "extractFailed"
    BY AskType DEF Ask, Named
  <2>2. Show(b, boxes) /\ UNCHANGED replies
    BY <1>2 DEF ExtractionError
  <2> HIDE DEF b
  <2> QED BY <2>1, <2>2, PushOrigin
<1> QED BY <1>1, <1>2 DEF Signal

\* A docset comes into the registry when the process starts or its extraction ends.
LEMMA LoadedGrows ==
  ASSUME User \/ Answer \/ Network \/ ExtractorThread \/ Signal, NEW d, d \in loaded' \ loaded
  PROVE  Start \/ (ExtractionCompleted /\ d \in Named(Head(signals).file))
<1>1. CASE User
  BY <1>1 DEF User, OpenDialog, CloseDialog, Quit, ProcessEnds, DownloadAvailable,
              UpdateInstalled, AddDashFeed, Refresh, CancelDownloads, AskRemove, registryVars
<1>2. CASE Answer
  BY <1>2 DEF Answer, AnswerDownloadFailed, AnswerIndexFailed, AnswerBadCatalog, DismissNotice,
              DismissExtractFailed, DismissNotRemoved, ConfirmRemove, DeclineRemove, RemoveDocsets,
              ProcessEnds, registryVars
<1>3. CASE Network
  BY <1>3 DEF Network, DownloadProgress, DownloadFails, CatalogArrives, FeedArrives, DocsetArrives,
              IndexArrives, registryVars
<1>4. CASE ExtractorThread
  BY <1>4 DEF ExtractorThread, registryVars
<1>5. CASE Signal
  BY <1>5 DEF Signal, ExtractionCompleted, ExtractionError, registryVars
<1> QED BY <1>1, <1>2, <1>3, <1>4, <1>5

One(d)    == Fet(d) + Ext(d) <= 1
Effect(d) == Kept(d) \/ Begun(d) \/ Lost(d) \/ Posted(d) \/ Ended(d) \/ Gone(d)

\* What OnePipeline rests on: an index that is fetched, or asked about, is the only
\* work on its docset and has an archive, so that downloadDashDocset sees it.
Single == \A d \in Docset : Origin(d) /\ One(d)

LEMMA StepArchives ==
  ASSUME Sound, Sound', User \/ Answer \/ Network \/ Signal
  PROVE  Handled
  BY ArchivesNext DEF Handled, Sound

LEMMA StepWork ==
  ASSUME Feeds = {}, Sound, Sound', Single, User \/ Answer \/ Network \/ ExtractorThread \/ Signal,
         NEW d \in Docset
  PROVE  Effect(d)
<1>1. CASE User
  <2>1. IndexWork(d) => tmp[d] # None
    BY DEF Single, Origin
  <2> QED BY <1>1, <2>1, StepArchives, UserWork DEF Effect
<1>2. CASE Answer
  BY <1>2, StepArchives, AnswerWork DEF Effect
<1>3. CASE Network
  <2>1. PICK q \in Request : Handles(q)
    BY <1>3 DEF Network, Handles
  <2> QED BY <1>3, <2>1, StepArchives, NetworkWork DEF Effect
<1>4. CASE ExtractorThread
  BY <1>4, ExtractorWork DEF Effect
<1>5. CASE Signal
  <2>1. Handled
    BY <1>5, StepArchives
  <2> QED BY <1>5, <2>1, CompletedWork, ErrorWork DEF Effect, Signal
<1> QED BY <1>1, <1>2, <1>3, <1>4, <1>5

LEMMA StepOrigin ==
  ASSUME Feeds = {}, Sound, LoadedHasDirectory, Single,
         User \/ Answer \/ Network \/ ExtractorThread \/ Signal, NEW d \in Docset
  PROVE  NewOrigin(d)
<1>1. ExtractorThread => NewOrigin(d)
  BY SameOrigin DEF ExtractorThread, dialogVars
<1> QED BY <1>1, UserOrigin, AnswerOrigin, NetworkOrigin, SignalOrigin DEF Single

\* What is loaded has no download: it comes from an extraction, or from the start.
LEMMA LoadsAlone ==
  ASSUME Sound, Sound', Single, User \/ Answer \/ Network \/ ExtractorThread \/ Signal,
         NEW d \in Docset, d \in loaded' \ loaded
  PROVE  ~IndexWork(d) /\ ~HeldWork(d)
<1>1. CASE Start
  <2>1. Quiet(replies, tmp) /\ boxes = <<>> /\ replies \in [Request -> Reply \cup {None}]
    BY <1>1 DEF Start, Sound, Idle, IInv, DialogOK
  <2>2. \A A : ~Has(<<>>, A)
    BY DEF Has
  <2>3. ~Has(replies, IndexOf(d))
    BY <2>1, OriginFor DEF Has, Quiet
  <2> QED BY <2>1, <2>2, <2>3 DEF IndexWork, HeldWork
<1>2. CASE ExtractionCompleted /\ d \in Named(Head(signals).file)
  <2>1. Ended(d)
    BY <1>2, StepArchives, CompletedWork DEF Signal
  <2>2. Fet(d) \in Nat /\ Ext(d) \in Nat /\ Ext(d)' \in Nat
    BY WorkNat, WorkNatNext DEF Sound
  <2>3. Fet(d) + Ext(d) <= 1
    BY DEF Single, One
  <2>4. Fet(d) = 0
    BY <2>1, <2>2, <2>3 DEF Ended
  <2> QED BY <2>2, <2>4, IndexIsWork
<1> QED BY <1>1, <1>2, LoadedGrows

LEMMA SingleNext ==
  ASSUME Feeds = {}, Sound, Sound', LoadedHasDirectory, Single,
         User \/ Answer \/ Network \/ ExtractorThread \/ Signal
  PROVE  Single'
<1> SUFFICES ASSUME NEW d \in Docset PROVE Origin(d)' /\ One(d)'
  BY DEF Single
<1>1. /\ Fet(d) \in Nat /\ Ext(d) \in Nat /\ Fet(d)' \in Nat /\ Ext(d)' \in Nat
  BY WorkNat, WorkNatNext DEF Sound
<1>2. Origin(d) /\ Fet(d) + Ext(d) <= 1
  BY DEF Single, One
<1>3. Effect(d)
  BY StepWork
<1>4. Fet(d)' + Ext(d)' <= 1
  BY <1>1, <1>2, <1>3 DEF Effect, Kept, Begun, Lost, Posted, Ended, Gone
<1>5. /\ IndexWork(d) => Fet(d) >= 1
      /\ HeldWork(d) => Fet(d) >= 1
  BY IndexIsWork
<1>6. IndexWork(d)' => Fet(d)' >= 1
  BY IndexIsWorkNext
<1>7. NewOrigin(d)
  BY StepOrigin
<1>8. IndexWork(d)' /\ IndexWork(d) => tmp'[d] # None
  BY <1>1, <1>2, <1>3, <1>5, <1>6 DEF Effect, Kept, Begun, Lost, Posted, Ended, Gone, Origin
<1>9. IndexWork(d) \/ HeldWork(d) => d \notin loaded'
  BY <1>2, LoadsAlone DEF Origin
<1> QED BY <1>4, <1>7, <1>8, <1>9 DEF One, Origin, NewOrigin

LEMMA SingleInit == Init => Single
<1> SUFFICES ASSUME Init, NEW d \in Docset PROVE Origin(d) /\ One(d)
  BY DEF Single
<1>1. /\ boxes = <<>> /\ queue = <<>> /\ signals = <<>> /\ running = None
      /\ replies = [q \in Request |-> None]
  BY DEF Init, ExtractorInit
<1>2. \A A : ~Has(<<>>, A) /\ Count(<<>>, A) = 0
  BY CountNone DEF Has
<1>3. R(d) = 0 /\ ~Has(replies, IndexOf(d))
  BY <1>1, CountNone, CountsFor, OriginFor DEF R, Has
<1>4. Fet(d) = 0 /\ Ext(d) = 0
  BY <1>1, <1>2, <1>3 DEF Fet, Ext, B, X, Jobs, Bit
<1> QED BY <1>1, <1>2, <1>3, <1>4 DEF Origin, One, IndexWork, HeldWork

LEMMA SingleInvariance == ASSUME Feeds = {} PROVE Spec => []Single
<1>1. Sound /\ Sound' /\ LoadedHasDirectory /\ Single /\ [Next]_vars => Single'
  <2> SUFFICES ASSUME Sound, Sound', LoadedHasDirectory, Single, [Next]_vars PROVE Single'
    OBVIOUS
  <2>1. CASE UNCHANGED vars
    BY <2>1 DEF vars, extractorVars, registryVars, dialogVars, Single, Origin, One, IndexWork, HeldWork,
                Fet, Ext, R, B, X, Jobs
  <2> QED BY <2>1, SingleNext DEF Next
<1> QED BY <1>1, SingleInit, SoundInvariance, WhatIsLoadedHasADirectory, PTL DEF Spec

\* For all docsets, archives and replies, in a program whose docsets come from the
\* catalog: no docset is ever under more than one download, retry, question or
\* extraction, whatever order replies, signals and nested message boxes come in
\* (downloadDashDocset, storeDownloadedDocset and the message boxes they show).
THEOREM OneAtATime == ASSUME Feeds = {} PROVE Spec => []OnePipeline
<1>1. Sound /\ Single => OnePipeline
  <2> SUFFICES ASSUME Sound, Single, NEW d \in Docset PROVE Fetching(d) + Extracting(d) <= 1
    BY DEF OnePipeline
  <2>1. Fetching(d) = Fet(d) /\ Extracting(d) = Ext(d)
    BY WorkCounts DEF Sound
  <2> QED BY <2>1 DEF Single, One
<1> QED BY <1>1, SoundInvariance, SingleInvariance, PTL

------------------------------------------------------------------------------
(* Nothing is extracted into a loaded docset's directory.                    *)

\* The jobs for a docset, and one for the archive it holds being put at the end.
JobFor(d) == {j \in Job : j.docset = d}
Posts(e)  == /\ tmp'[e] \in File /\ e \notin loaded' /\ UNCHANGED <<signals, running>> /\ ui' # "dead"
             /\ \E tarix \in BOOLEAN : Post(tmp'[e], e, tarix)

\* What a step other than the extractor's does to the jobs.
Waiting == UNCHANGED <<queue, running>> /\ (ui' = "dead" => ui = "dead")
             /\ (signals' = signals \/ signals' = <<>> \/ (signals # <<>> /\ signals' = Tail(signals)))
Emptied == queue' = <<>> /\ running' = None /\ signals' = <<>>

LEMMA UserQueue ==
  ASSUME User
  PROVE  Waiting \/ Emptied
<1>1. CASE CloseDialog \/ Quit
  BY <1>1 DEF CloseDialog, Quit, ProcessEnds, DialogGone, Waiting, Emptied
<1>2. CASE ~(CloseDialog \/ Quit)
  <2>1. UNCHANGED <<queue, running, signals>> /\ ui' # "dead"
    BY <1>2 DEF User, OpenDialog, Start, DownloadAvailable, UpdateInstalled, AddDashFeed,
                Refresh, CancelDownloads, AskRemove, Usable, extractorVars
  <2> QED BY <2>1 DEF Waiting
<1> QED BY <1>1, <1>2

LEMMA StoreArchiveQueue ==
  ASSUME Sound, NEW r \in Reply, r.docset \in Docset, r.docset \notin loaded', ui # "dead",
         NEW rs, NEW below, StoreArchive(r, rs, below)
  PROVE  Waiting \/ Posts(r.docset)
<1> DEFINE e == r.docset
<1>1. UNCHANGED <<running, signals, ui>>
  BY DEF StoreArchive
<1>2. CASE UNCHANGED queue
  BY <1>1, <1>2 DEF Waiting
<1>3. ASSUME NEW f \in TmpFor(e), tmp' = [tmp EXCEPT ![e] = f], Post(f, e, FALSE)
      PROVE  Posts(e)
  <2>1. tmp'[e] = f /\ f \in File
    BY <1>3, TmpForType DEF Sound, IInv, DialogOK
  <2> QED BY <1>1, <1>3, <2>1 DEF Posts
<1> QED BY <1>2, <1>3 DEF StoreArchive

LEMMA AnswerQueue ==
  ASSUME Sound, Single, Answer
  PROVE  Waiting \/ Emptied \/ \E e \in Docset : Posts(e)
<1> DEFINE top == Head(boxes)
<1>1. ui = "open" /\ boxes # <<>>
  BY DEF Answer, AnswerDownloadFailed, AnswerIndexFailed, AnswerBadCatalog, DismissNotice,
         DismissExtractFailed, DismissNotRemoved, ConfirmRemove, DeclineRemove, Top
<1>2. top \in TidyBox /\ top \in Box /\ Has(boxes, {top})
  <2>1. top \in TidyBox
    BY <1>1, TopTidy DEF Sound
  <2>2. 1 \in DOMAIN boxes /\ boxes[1] = top
    BY <1>1, HeadTailProperties, LenProperties, EmptySeq DEF Sound, IInv, DialogOK
  <2> QED BY <2>1, <2>2 DEF TidyBox, Has
<1>3. CASE AnswerDownloadFailed \/ AnswerBadCatalog \/ DismissNotice \/ DismissExtractFailed \/ DeclineRemove
  BY <1>1, <1>3 DEF AnswerDownloadFailed, AnswerBadCatalog, DismissNotice, DismissExtractFailed,
                    DeclineRemove, Waiting, extractorVars
<1>4. ASSUME NEW N, RemoveDocsets(N, Below) PROVE Waiting
  BY <1>1, <1>4 DEF RemoveDocsets, Waiting
<1>5. CASE ConfirmRemove
  <2>1. ProcessEnds => Emptied
    BY DEF ProcessEnds, DialogGone, Emptied
  <2> QED BY <1>4, <1>5, <2>1 DEF ConfirmRemove
<1>6. CASE AnswerIndexFailed
  <2>1. PICK e \in Docset : /\ e \in top.about /\ top.kind = "indexFailed"
                            /\ UNCHANGED <<running, signals, ui, loaded>>
                            /\ \/ UNCHANGED queue
                               \/ tmp[e] # None /\ UNCHANGED tmp /\ Post(tmp[e], e, FALSE)
    <3>1. top.about \subseteq Docset
      BY <1>2 DEF Box
    <3> QED BY <1>6, <3>1 DEF AnswerIndexFailed, Top, registryVars
  <2>2. IndexWork(e)
    BY <1>2, <2>1, OriginFor DEF IndexWork, Has
  <2>3. e \notin loaded
    BY <2>2 DEF Single, Origin
  <2>4. tmp[e] \in File \cup {None}
    BY DEF Sound, IInv, DialogOK
  <2>5. Waiting \/ Posts(e)
    BY <1>1, <2>1, <2>3, <2>4 DEF Waiting, Posts
  <2> QED BY <2>5
<1>7. CASE DismissNotRemoved
  <2>1. CASE top.reply = None
    BY <1>4, <1>7, <2>1 DEF DismissNotRemoved
  <2>2. CASE top.reply # None
    <3> DEFINE r == top.reply
    <3>1. r \in Reply /\ r.docset \in Docset /\ top.kind = "notRemoved"
      BY <1>2, <1>7, <2>2, ReplyFields DEF Box, DismissNotRemoved, Top
    <3>2. StoreArchive(r, replies, Below) /\ UNCHANGED loaded
      BY <1>7, <2>2 DEF DismissNotRemoved, registryVars
    <3>3. HeldWork(r.docset)
      BY <1>2, <2>2, <3>1, OriginFor DEF HeldWork, Has
    <3>4. r.docset \notin loaded'
      BY <3>1, <3>2, <3>3 DEF Single, Origin
    <3> HIDE DEF r
    <3> QED BY <1>1, <3>1, <3>2, <3>4, StoreArchiveQueue
  <2> QED BY <2>1, <2>2
<1> QED BY <1>3, <1>5, <1>6, <1>7 DEF Answer

LEMMA NetworkQueue ==
  ASSUME Sound, LoadedHasDirectory, Single, Network
  PROVE  Waiting \/ \E e \in Docset : Posts(e)
<1> PICK q \in Request : \/ DownloadProgress(q) \/ DownloadFails(q) \/ CatalogArrives(q)
                         \/ FeedArrives(q) \/ DocsetArrives(q) \/ IndexArrives(q)
  BY DEF Network
<1> DEFINE r == replies[q]
<1>1. r \in Reply /\ r # None /\ (r.type # "DocsetList" => r.docset \in Docset) /\ ui = "open"
  <2>1. r # None /\ ui = "open"
    BY DEF DownloadProgress, DownloadFails, CatalogArrives, FeedArrives, DocsetArrives,
           IndexArrives, Arriving
  <2> QED BY <2>1, ReplyFields DEF Sound, IInv, DialogOK
<1>2. CASE DownloadProgress(q) \/ DownloadFails(q) \/ CatalogArrives(q) \/ FeedArrives(q)
  BY <1>1, <1>2 DEF DownloadProgress, DownloadFails, CatalogArrives, FeedArrives, Waiting, extractorVars
<1>3. CASE DocsetArrives(q)
  <2>1. r.docset \in Docset
    BY <1>1, <1>3 DEF DocsetArrives, Arriving
  <2>2. CASE StoreArchive(r, Without(q), boxes)
    <3>1. r.docset \notin loaded'
      BY <1>3, <2>1 DEF DocsetArrives, registryVars, LoadedHasDirectory
    <3> HIDE DEF r
    <3> QED BY <1>1, <2>1, <2>2, <3>1, StoreArchiveQueue
  <2>3. CASE UNCHANGED <<extractorVars, ui>>
    BY <2>3 DEF Waiting, extractorVars
  <2> QED BY <1>3, <2>2, <2>3 DEF DocsetArrives
<1>4. CASE IndexArrives(q)
  <2> DEFINE e == r.docset
  <2>1. e \in Docset /\ r.type = "TarixIndex"
    BY <1>1, <1>4 DEF IndexArrives, Arriving
  <2>2. Has(replies, IndexOf(e))
    BY <1>1, <2>1, OriginFor DEF Has, Sound, IInv, DialogOK
  <2>3. e \notin loaded /\ tmp[e] \in File
    BY <2>1, <2>2 DEF IndexWork, Single, Origin, Sound, IInv, DialogOK
  <2>4. UNCHANGED <<running, signals, ui, loaded, tmp>> /\ \E usable \in BOOLEAN : Post(tmp[e], e, usable)
    BY <1>4, <2>3, NoneAssumption DEF IndexArrives, registryVars
  <2> QED BY <1>1, <2>1, <2>3, <2>4 DEF Posts
<1> QED BY <1>2, <1>3, <1>4

LEMMA QueueStep ==
  ASSUME Sound, LoadedHasDirectory, Single, User \/ Answer \/ Network \/ Signal
  PROVE  Waiting \/ Emptied \/ \E e \in Docset : Posts(e)
<1>1. Signal => Waiting
  BY DEF Signal, ExtractionCompleted, ExtractionError, Delivered, Waiting
<1> QED BY <1>1, UserQueue, AnswerQueue, NetworkQueue

\* The jobs for a docset are worked off in the order of its archives: the one it
\* holds comes last, and its outcome after all others.
NotQueued(d) == \A j \in DOMAIN queue : queue[j].docset # d
Line(d) ==
  /\ \A k \in DOMAIN queue : queue[k].file = tmp[d] =>
       queue[k].docset = d /\ \A j \in DOMAIN queue : queue[j].docset = d => j <= k
  /\ running # None /\ running.file = tmp[d] => running.docset = d /\ NotQueued(d)
  /\ Has(signals, OutcomeOf(tmp[d])) => NotQueued(d) /\ ~(running # None /\ running.docset = d)

\* Without a process nothing is extracted.
Dead == ui = "dead" => queue = <<>> /\ running = None

Orderly == Dead /\ NoExtractionIntoLoaded /\ \A d \in Docset : Line(d)

\* An archive outside JobFiles has nothing of the extractor's.
LEMMA NoLine ==
  ASSUME IInv, NEW f, f \notin JobFiles
  PROVE  /\ \A k \in DOMAIN queue : queue[k].file # f
         /\ ~(running # None /\ running.file = f) /\ ~Has(signals, OutcomeOf(f))
  BY DEF JobFiles, Has, OutcomeOf

LEMMA WaitingLine ==
  ASSUME Handled, Waiting, NEW d \in Docset, Line(d)
  PROVE  Line(d)'
<1>1. CASE tmp'[d] = tmp[d]
  <2>1. Has(signals', OutcomeOf(tmp[d])) => Has(signals, OutcomeOf(tmp[d]))
    <3>1. signals \in Seq(Outcome) /\ \A A : ~Has(<<>>, A)
      BY DEF Handled, Sound, IInv, ExtractorOK, Has
    <3> QED BY <3>1, HasTail DEF Waiting
  <2> QED BY <1>1, <2>1 DEF Line, NotQueued, Waiting
<1>2. CASE tmp'[d] # tmp[d]
  <2>1. tmp'[d] \notin JobFiles
    BY <1>2, JobFilesType, NoneAssumption DEF Handled, Sound, ArchiveStep
  <2>2. /\ \A k \in DOMAIN queue : queue[k].file # tmp'[d]
        /\ ~(running # None /\ running.file = tmp'[d]) /\ ~Has(signals, OutcomeOf(tmp'[d]))
    BY <2>1, NoLine DEF Handled, Sound
  <2>3. Has(signals', OutcomeOf(tmp'[d])) => Has(signals, OutcomeOf(tmp'[d]))
    <3>1. signals \in Seq(Outcome) /\ \A A : ~Has(<<>>, A)
      BY DEF Handled, Sound, IInv, ExtractorOK, Has
    <3> QED BY <3>1, HasTail DEF Waiting
  <2> QED BY <2>2, <2>3 DEF Line, Waiting
<1> QED BY <1>1, <1>2

\* A docset's new job is the only one of its archive.
LEMMA PostedAlone ==
  ASSUME Handled, Single', NEW e \in Docset, Posts(e)
  PROVE  tmp'[e] \notin JobFiles
<1> DEFINE f == tmp'[e]
<1>1. PICK tarix \in BOOLEAN : Post(f, e, tarix)
  BY DEF Posts
<1>2. f \in File /\ f # None /\ UNCHANGED <<signals, running>>
  BY NoneAssumption DEF Posts
<1>3. CASE tmp[e] # f
  BY <1>2, <1>3 DEF Handled, ArchiveStep
<1>4. CASE tmp[e] = f
  <2>1. Jobs(e)' = Jobs(e) + 1
    <3>1. Jobs(e)' = (IF tmp'[e] = None THEN 0 ELSE Jobs(e)) + Bit(e = e)
      BY <1>1, <1>2, JobsPosted DEF Handled, Sound
    <3> QED BY <1>2, <3>1 DEF Bit
  <2>2. Jobs(e) \in Nat /\ X(e)' \in Nat /\ Fet(e)' \in Nat
    BY WorkNat, WorkNatNext DEF Handled, Sound
  <2>3. Fet(e)' + Ext(e)' <= 1
    BY DEF Single, One
  <2>4. Jobs(e) = 0
    BY <2>1, <2>2, <2>3 DEF Ext
  <2>5. /\ Count(queue, JobOf(f)) \in Nat /\ Count(signals, OutcomeOf(f)) \in Nat
        /\ IsFiniteSet(Hits(queue, JobOf(f))) /\ IsFiniteSet(Hits(signals, OutcomeOf(f)))
    BY CountType DEF Handled, Sound, IInv, ExtractorOK
  <2>6. /\ Count(queue, JobOf(f)) = 0 /\ Count(signals, OutcomeOf(f)) = 0
        /\ ~(running # None /\ running.file = f)
    BY <1>4, <2>4, <2>5 DEF Jobs, Bit
  <2>7. /\ \A i \in DOMAIN queue : queue[i] \notin JobOf(f)
        /\ \A i \in DOMAIN signals : signals[i] \notin OutcomeOf(f)
    BY <2>5, <2>6, CountZero
  <2>8. /\ \A i \in DOMAIN queue : queue[i] \in Job
        /\ \A i \in DOMAIN signals : signals[i] \in Outcome
    BY LenProperties, ElementOfSeq DEF Handled, Sound, IInv, ExtractorOK
  <2> QED BY <2>6, <2>7, <2>8 DEF JobFiles, JobOf, OutcomeOf
<1> QED BY <1>3, <1>4

LEMMA PostedLine ==
  ASSUME Handled, Single', NEW e \in Docset, Posts(e), NEW d \in Docset, Line(d)
  PROVE  Line(d)'
<1> DEFINE f == tmp'[e]
           n == Len(queue) + 1
<1>1. PICK tarix \in BOOLEAN : Post(f, e, tarix)
  BY DEF Posts
<1>2. f \in File /\ f # None /\ UNCHANGED <<signals, running>>
  BY NoneAssumption DEF Posts
<1>3. queue \in Seq(Job) /\ Len(queue) \in Nat /\ DOMAIN queue = 1 .. Len(queue)
  BY LenProperties DEF Handled, Sound, IInv, ExtractorOK
<1>4. /\ DOMAIN queue' = 1 .. n /\ queue'[n].file = f /\ queue'[n].docset = e
      /\ \A k \in 1 .. Len(queue) : queue'[k] = queue[k]
  <2>1. [file |-> f, docset |-> e, tarix |-> tarix] \in Job
    BY <1>2 DEF Job
  <2>2. queue' = Append(queue, [file |-> f, docset |-> e, tarix |-> tarix])
    BY <1>1 DEF Post
  <2> QED BY <1>3, <2>1, <2>2, AppendProperties, LenProperties
<1>5. f \notin JobFiles
  BY PostedAlone
<1>6. CASE d = e
  <2>1. /\ \A k \in DOMAIN queue : queue[k].file # f
        /\ ~(running # None /\ running.file = f) /\ ~Has(signals, OutcomeOf(f))
    BY <1>5, NoLine DEF Handled, Sound
  <2>2. \A k \in DOMAIN queue' : queue'[k].file = f => k = n
    BY <1>3, <1>4, <2>1
  <2> QED BY <1>2, <1>3, <1>4, <1>6, <2>1, <2>2 DEF Line
<1>7. CASE d # e
  <2>1. tmp'[d] = tmp[d] \/ tmp'[d] \notin JobFiles
    BY JobFilesType, NoneAssumption DEF Handled, Sound, ArchiveStep
  <2>2. tmp'[d] # f
    BY <1>2, <1>7 DEF Handled, Sound, Distinct
  <2>3. CASE tmp'[d] \notin JobFiles
    <3>1. /\ \A k \in DOMAIN queue : queue[k].file # tmp'[d]
          /\ ~(running # None /\ running.file = tmp'[d]) /\ ~Has(signals, OutcomeOf(tmp'[d]))
      BY <2>3, NoLine DEF Handled, Sound
    <3>2. \A k \in DOMAIN queue' : queue'[k].file # tmp'[d]
      BY <1>3, <1>4, <2>2, <3>1
    <3> QED BY <1>2, <3>1, <3>2 DEF Line
  <2>4. CASE tmp'[d] = tmp[d]
    <3>1. \A j \in DOMAIN queue' : queue'[j].docset = d => j \in DOMAIN queue /\ queue[j].docset = d
      BY <1>3, <1>4, <1>7
    <3>2. NotQueued(d) => NotQueued(d)'
      BY <3>1 DEF NotQueued
    <3>3. \A k \in DOMAIN queue' : queue'[k].file = tmp'[d] =>
            queue'[k].docset = d /\ \A j \in DOMAIN queue' : queue'[j].docset = d => j <= k
      <4> SUFFICES ASSUME NEW k \in DOMAIN queue', queue'[k].file = tmp'[d]
                   PROVE  queue'[k].docset = d /\ \A j \in DOMAIN queue' : queue'[j].docset = d => j <= k
        OBVIOUS
      <4>1. k \in DOMAIN queue /\ queue'[k] = queue[k]
        BY <1>3, <1>4, <2>2
      <4> QED BY <2>4, <3>1, <4>1 DEF Line
    <3> QED BY <1>2, <2>4, <3>2, <3>3 DEF Line
  <2> QED BY <2>1, <2>3, <2>4
<1> QED BY <1>6, <1>7

LEMMA EmitHas ==
  ASSUME IInv, NEW g \in File, NEW ok \in BOOLEAN, NEW heard, Emit(g, ok, heard), NEW f,
         Has(signals', OutcomeOf(f))
  PROVE  g = f \/ Has(signals, OutcomeOf(f))
<1> DEFINE s == [file |-> g, ok |-> ok]
<1>1. signals \in Seq(Outcome) /\ s \in Outcome
  BY DEF IInv, ExtractorOK, Outcome
<1>2. CASE signals' = signals
  BY <1>2
<1>3. CASE signals' = Append(signals, s)
  <2>1. /\ DOMAIN signals' = 1 .. Len(signals) + 1 /\ DOMAIN signals = 1 .. Len(signals) /\ Len(signals) \in Nat
        /\ signals'[Len(signals) + 1] = s /\ \A i \in 1 .. Len(signals) : signals'[i] = signals[i]
    BY <1>1, <1>3, AppendProperties, LenProperties
  <2>2. PICK i \in DOMAIN signals' : signals'[i] \in OutcomeOf(f)
    BY DEF Has
  <2>3. CASE i = Len(signals) + 1
    BY <2>1, <2>2, <2>3 DEF OutcomeOf
  <2>4. CASE i # Len(signals) + 1
    <3>1. i \in DOMAIN signals /\ signals'[i] = signals[i]
      BY <2>1, <2>2, <2>4
    <3> QED BY <2>2, <3>1 DEF Has
  <2> QED BY <2>3, <2>4
<1> QED BY <1>2, <1>3 DEF Emit

LEMMA HeadJob ==
  ASSUME IInv, queue # <<>>, queue' = Tail(queue)
  PROVE  /\ 1 \in DOMAIN queue /\ queue[1] = Head(queue) /\ Head(queue) \in Job
         /\ \A k \in DOMAIN queue' : k \in Nat /\ k + 1 \in DOMAIN queue /\ queue'[k] = queue[k + 1] /\ k >= 1
  BY HeadTailProperties, LenProperties, EmptySeq DEF IInv, ExtractorOK

\* Taking the head job off keeps the line.
LEMMA TailQueue ==
  ASSUME IInv, queue # <<>>, queue' = Tail(queue), UNCHANGED tmp, NEW d \in Docset, Line(d)
  PROVE  /\ \A k \in DOMAIN queue' : queue'[k].file = tmp'[d] =>
              queue'[k].docset = d /\ \A j \in DOMAIN queue' : queue'[j].docset = d => j <= k
         /\ NotQueued(d) => NotQueued(d)' /\ Head(queue).docset # d
         /\ Head(queue).file = tmp[d] => Head(queue).docset = d /\ NotQueued(d)'
<1>1. /\ 1 \in DOMAIN queue /\ queue[1] = Head(queue)
      /\ \A k \in DOMAIN queue' : k \in Nat /\ k + 1 \in DOMAIN queue /\ queue'[k] = queue[k + 1] /\ k >= 1
  BY HeadJob
<1>2. ASSUME NEW k \in DOMAIN queue', queue'[k].file = tmp'[d]
      PROVE  queue'[k].docset = d /\ \A j \in DOMAIN queue' : queue'[j].docset = d => j <= k
  <2>1. queue[k + 1].docset = d /\ \A j \in DOMAIN queue : queue[j].docset = d => j <= k + 1
    BY <1>1, <1>2 DEF Line
  <2> QED BY <1>1, <2>1
<1>3. NotQueued(d) => NotQueued(d)' /\ Head(queue).docset # d
  BY <1>1 DEF NotQueued
<1>4. ASSUME Head(queue).file = tmp[d]
      PROVE  Head(queue).docset = d /\ NotQueued(d)'
  <2>1. queue[1].docset = d /\ \A j \in DOMAIN queue : queue[j].docset = d => j <= 1
    BY <1>1, <1>4 DEF Line
  <2>2. \A j \in DOMAIN queue' : queue'[j].docset # d
    <3> SUFFICES ASSUME NEW j \in DOMAIN queue', queue'[j].docset = d PROVE FALSE
      OBVIOUS
    <3>1. j + 1 <= 1
      BY <1>1, <2>1
    <3> QED BY <1>1, <3>1
  <2> QED BY <1>1, <2>1, <2>2 DEF NotQueued
<1> QED BY <1>2, <1>3, <1>4

\* What the thread works on after it has begun the head job.
LEMMA BeginJob ==
  ASSUME IInv, Begin
  PROVE  /\ queue # <<>> /\ queue' = Tail(queue) /\ UNCHANGED <<file, signals>> /\ running = None
         /\ running' # None /\ running'.file = Head(queue).file /\ running'.docset = Head(queue).docset
         /\ running'.docset \in Docset /\ disk' = [disk EXCEPT ![running'.docset] = "partial"]
<1>1. PICK usable \in BOOLEAN : running' = [file |-> Head(queue).file, docset |-> Head(queue).docset,
                                            tarix |-> usable, body |-> file[Head(queue).file]]
  BY DEF Begin
<1>2. Head(queue) \in Job /\ file \in [File -> Contents]
  BY HeadTailProperties DEF Begin, IInv, ExtractorOK
<1>3. file[Head(queue).file] \in Contents /\ usable \in BOOLEAN
  BY <1>1, <1>2 DEF Job
<1>4. running' \in Running /\ Head(queue).docset \in Docset
  BY <1>1, <1>2, <1>3 DEF Running, Job
<1> QED BY <1>1, <1>4, RunningAssumption DEF Begin

LEMMA ExtractorLine ==
  ASSUME IInv, ExtractorThread, NEW d \in Docset, Line(d)
  PROVE  Line(d)'
<1>1. UNCHANGED tmp
  BY DEF ExtractorThread, dialogVars
<1>2. CASE OpenFails(Heard)
  <2>1. /\ queue # <<>> /\ queue' = Tail(queue) /\ running' = None
        /\ Emit(Head(queue).file, FALSE, Heard)
    BY <1>2 DEF OpenFails
  <2>2. Head(queue).file \in File
    BY <2>1, HeadJob DEF Job
  <2>3. Has(signals', OutcomeOf(tmp[d])) => Head(queue).file = tmp[d] \/ Has(signals, OutcomeOf(tmp[d]))
    BY <2>1, <2>2, EmitHas
  <2> QED BY <1>1, <2>1, <2>3, TailQueue DEF Line
<1>3. CASE Begin
  <2>1. /\ queue # <<>> /\ queue' = Tail(queue) /\ UNCHANGED signals
        /\ running' # None /\ running'.file = Head(queue).file /\ running'.docset = Head(queue).docset
    BY <1>3, BeginJob
  <2> QED BY <1>1, <2>1, TailQueue DEF Line
<1>4. CASE Succeed(Heard) \/ Fail(Heard)
  <2>1. PICK ok \in BOOLEAN : /\ running # None /\ running' = None /\ UNCHANGED queue
                              /\ Emit(running.file, ok, Heard)
    BY <1>4 DEF Succeed, Fail
  <2>2. Has(signals', OutcomeOf(tmp[d])) => running.file = tmp[d] \/ Has(signals, OutcomeOf(tmp[d]))
    BY <2>1, EmitHas, RunningType DEF IInv
  <2>3. NotQueued(d) => NotQueued(d)'
    BY <2>1 DEF NotQueued
  <2> QED BY <1>1, <2>1, <2>2, <2>3 DEF Line
<1> QED BY <1>2, <1>3, <1>4 DEF ExtractorThread

LEMMA OrderlyNext ==
  ASSUME Sound, Sound', LoadedHasDirectory, Single, Single', Orderly,
         User \/ Answer \/ Network \/ ExtractorThread \/ Signal
  PROVE  Orderly'
<1>1. Dead /\ NoExtractionIntoLoaded /\ \A d \in Docset : Line(d)
  BY DEF Orderly
<1>2. \A d \in loaded' \ loaded : NotQueued(d) /\ ~(running # None /\ running.docset = d)
  <2> SUFFICES ASSUME NEW d \in loaded' \ loaded
               PROVE  NotQueued(d) /\ ~(running # None /\ running.docset = d)
    OBVIOUS
  <2>1. CASE Start
    BY <1>1, <2>1 DEF Start, Dead, NotQueued
  <2>2. CASE ExtractionCompleted /\ d \in Named(Head(signals).file)
    <3>1. d \in Docset /\ Head(signals).file = tmp[d] /\ signals # <<>>
      BY <2>2 DEF ExtractionCompleted, Named, Delivered
    <3>2. 1 \in DOMAIN signals /\ signals[1] = Head(signals) /\ Head(signals) \in Outcome
      BY <3>1, HeadTailProperties, LenProperties, EmptySeq DEF Sound, IInv, ExtractorOK
    <3>3. Has(signals, OutcomeOf(tmp[d]))
      BY <3>1, <3>2 DEF Has, OutcomeOf
    <3> QED BY <1>1, <3>1, <3>3 DEF Line
  <2> QED BY <2>1, <2>2, LoadedGrows
<1>3. CASE ExtractorThread
  <2>1. \A d \in Docset : Line(d)'
    BY <1>1, <1>3, ExtractorLine DEF Sound
  <2>2. UNCHANGED <<loaded, ui>>
    BY <1>3 DEF ExtractorThread, registryVars
  <2>3. CASE OpenFails(Heard) \/ Begin
    <3>1. /\ queue # <<>> /\ queue' = Tail(queue)
          /\ running' = None \/ running'.docset = Head(queue).docset
      BY <2>3, BeginJob DEF OpenFails, Sound
    <3>2. Head(queue).docset \notin loaded /\ \A i \in DOMAIN queue' : queue'[i].docset \notin loaded
      BY <1>1, <3>1, HeadJob DEF NoExtractionIntoLoaded, Sound
    <3> QED BY <1>1, <2>1, <2>2, <3>1, <3>2 DEF Orderly, Dead, NoExtractionIntoLoaded
  <2>4. CASE Succeed(Heard) \/ Fail(Heard)
    <3>1. running # None /\ running' = None /\ UNCHANGED queue
      BY <2>4 DEF Succeed, Fail
    <3> QED BY <1>1, <2>1, <2>2, <3>1 DEF Orderly, Dead, NoExtractionIntoLoaded
  <2> QED BY <1>3, <2>3, <2>4 DEF ExtractorThread
<1>4. CASE User \/ Answer \/ Network \/ Signal
  <2>1. Handled
    BY <1>4, StepArchives
  <2>2. CASE Waiting
    <3>1. \A d \in Docset : Line(d)'
      BY <1>1, <2>1, <2>2, WaitingLine
    <3>2. Dead' /\ NoExtractionIntoLoaded'
      BY <1>1, <1>2, <2>2 DEF Waiting, Dead, NoExtractionIntoLoaded, NotQueued
    <3> QED BY <3>1, <3>2 DEF Orderly
  <2>3. CASE Emptied
    <3>1. \A A : ~Has(<<>>, A)
      BY DEF Has
    <3> QED BY <2>3, <3>1 DEF Emptied, Orderly, Dead, NoExtractionIntoLoaded, Line, NotQueued
  <2>4. ASSUME NEW e \in Docset, Posts(e) PROVE Orderly'
    <3>1. \A d \in Docset : Line(d)'
      BY <1>1, <2>1, <2>4, PostedLine
    <3>2. PICK tarix \in BOOLEAN : Post(tmp'[e], e, tarix)
      BY <2>4 DEF Posts
    <3>3. \A i \in DOMAIN queue' : queue'[i].docset \notin loaded'
      <4> DEFINE j == [file |-> tmp'[e], docset |-> e, tarix |-> tarix]
      <4>1. j \in Job /\ queue \in Seq(Job) /\ queue' = Append(queue, j)
        BY <2>4, <3>2 DEF Posts, Post, Job, Sound, IInv, ExtractorOK
      <4>2. /\ DOMAIN queue' = 1 .. Len(queue) + 1 /\ DOMAIN queue = 1 .. Len(queue) /\ Len(queue) \in Nat
            /\ queue'[Len(queue) + 1] = j /\ \A i \in 1 .. Len(queue) : queue'[i] = queue[i]
        BY <4>1, AppendProperties, LenProperties
      <4>3. j.docset \notin loaded'
        BY <2>4 DEF Posts
      <4>4. \A i \in DOMAIN queue : queue[i].docset \notin loaded'
        BY <1>1, <1>2 DEF NoExtractionIntoLoaded, NotQueued
      <4> HIDE DEF j
      <4> QED BY <4>2, <4>3, <4>4
    <3>4. running' # None => running'.docset \notin loaded'
      BY <1>1, <1>2, <2>4 DEF Posts, NoExtractionIntoLoaded
    <3>5. ui' # "dead"
      BY <2>4 DEF Posts
    <3> QED BY <3>1, <3>3, <3>4, <3>5 DEF Orderly, Dead, NoExtractionIntoLoaded
  <2> QED BY <1>4, <2>2, <2>3, <2>4, QueueStep
<1> QED BY <1>3, <1>4

LEMMA OrderlyInvariance == ASSUME Feeds = {} PROVE Spec => []Orderly
<1>1. Init => Orderly
  <2> SUFFICES ASSUME Init PROVE Orderly
    OBVIOUS
  <2>1. ui = "closed" /\ queue = <<>> /\ signals = <<>> /\ running = None /\ \A A : ~Has(<<>>, A)
    BY DEF Init, ExtractorInit, Has
  <2> QED BY <2>1 DEF Orderly, Dead, NoExtractionIntoLoaded, Line, NotQueued
<1>2. Sound /\ Sound' /\ LoadedHasDirectory /\ Single /\ Single' /\ Orderly /\ [Next]_vars => Orderly'
  <2> SUFFICES ASSUME Sound, Sound', LoadedHasDirectory, Single, Single', Orderly, [Next]_vars
               PROVE  Orderly'
    OBVIOUS
  <2>1. CASE UNCHANGED vars
    BY <2>1 DEF vars, extractorVars, registryVars, dialogVars, Orderly, Dead, NoExtractionIntoLoaded,
                Line, NotQueued
  <2> QED BY <2>1, OrderlyNext DEF Next
<1> QED BY <1>1, <1>2, SoundInvariance, SingleInvariance, WhatIsLoadedHasADirectory, PTL DEF Spec

\* For all docsets, archives and replies, in a program whose docsets come from the
\* catalog, with crashes and restarts: the extractor's thread works on, and is sent,
\* no docset that is in the registry, also when jobs of a closed dialog are still
\* waiting (storeDownloadedDocset unloads before it posts; extractionCompleted loads
\* only what was posted last).
THEOREM NothingLoadedIsExtracted == ASSUME Feeds = {} PROVE Spec => []NoExtractionIntoLoaded
<1>1. Orderly => NoExtractionIntoLoaded
  BY DEF Orderly
<1> QED BY <1>1, OrderlyInvariance, PTL

------------------------------------------------------------------------------
(* Within one run of the program, what is loaded is complete.                *)

GoodOf(f) == {s \in Outcome : s.file = f /\ s.ok}

\* A docset whose extraction has ended is not loaded yet; if it ended well its
\* directory is complete, and the directory being written is not.
Ready(d) ==
  /\ Has(signals, OutcomeOf(tmp[d])) => d \notin loaded
  /\ Has(signals, GoodOf(tmp[d])) => disk[d] = "full"

Complete ==
  /\ running # None => disk[running.docset] = "partial"
  /\ LoadedIsComplete
  /\ \A d \in Docset : Ready(d)

LEMMA GoodIsOutcome ==
  ASSUME NEW s, NEW f, Has(s, GoodOf(f))
  PROVE  Has(s, OutcomeOf(f))
  BY DEF Has, GoodOf, OutcomeOf

\* The dialog takes a directory away only from a docset it unloads.
DiskStep ==
  \A d \in Docset : disk'[d] = disk[d] \/ (d \in loaded /\ d \notin loaded')

LEMMA RemoveDocsetsDisk ==
  ASSUME IInv, NEW N, NEW below, RemoveDocsets(N, below)
  PROVE  DiskStep
<1> DEFINE M == N \cap loaded
<1>1. PICK D \in SUBSET M : /\ disk' = [d \in Docset |-> IF d \in D THEN "absent" ELSE disk[d]]
                            /\ \A d \in D : d \notin loaded'
  <2>1. \/ /\ disk' = [d \in Docset |-> IF d \in M THEN "absent" ELSE disk[d]]
           /\ loaded' = loaded \ M
        \/ \E d \in M : \E D \in SUBSET (M \ {d}) :
             /\ disk' = [c \in Docset |-> IF c \in D THEN "absent" ELSE disk[c]]
             /\ loaded' = loaded \ (D \cup {d})
    BY DEF RemoveDocsets
  <2> QED BY <2>1
<1> QED BY <1>1 DEF DiskStep

LEMMA HandlerDisk ==
  ASSUME IInv, User \/ Answer \/ Network \/ Signal
  PROVE  DiskStep \/ (loaded' = {} /\ signals' = <<>> /\ running' = None)
<1>1. ProcessEnds => loaded' = {} /\ signals' = <<>> /\ running' = None
  BY DEF ProcessEnds, DialogGone
<1>2. UNCHANGED disk => DiskStep
  BY DEF DiskStep
<1>3. CASE User
  <2>1. UNCHANGED disk \/ ProcessEnds
    BY <1>3 DEF User, OpenDialog, CloseDialog, Quit, Start, DownloadAvailable, UpdateInstalled,
                AddDashFeed, Refresh, CancelDownloads, AskRemove, extractorVars
  <2> QED BY <1>1, <1>2, <2>1
<1>4. CASE Answer
  <2>1. UNCHANGED disk \/ ProcessEnds \/ \E N, below : RemoveDocsets(N, below)
    BY <1>4 DEF Answer, AnswerDownloadFailed, AnswerIndexFailed, AnswerBadCatalog, DismissNotice,
                DismissExtractFailed, DismissNotRemoved, ConfirmRemove, DeclineRemove, extractorVars
  <2> QED BY <1>1, <1>2, <2>1, RemoveDocsetsDisk
<1>5. CASE Network
  <2> PICK q \in Request : \/ DownloadProgress(q) \/ DownloadFails(q) \/ CatalogArrives(q)
                           \/ FeedArrives(q) \/ DocsetArrives(q) \/ IndexArrives(q)
    BY <1>5 DEF Network
  <2>1. CASE DocsetArrives(q)
    BY <2>1 DEF DocsetArrives, DiskStep, IInv, ExtractorOK, extractorVars
  <2>2. CASE ~DocsetArrives(q)
    BY <1>2, <2>2 DEF DownloadProgress, DownloadFails, CatalogArrives, FeedArrives, IndexArrives,
                      extractorVars
  <2> QED BY <2>1, <2>2
<1>6. CASE Signal
  BY <1>2, <1>6 DEF Signal, ExtractionCompleted, ExtractionError
<1> QED BY <1>3, <1>4, <1>5, <1>6

\* A handler makes no docset the owner of a signal it did not own.
LEMMA HandlerSignals ==
  ASSUME Sound, Sound', LoadedHasDirectory, Single, User \/ Answer \/ Network \/ Signal, NEW d \in Docset
  PROVE  \/ ~Has(signals', OutcomeOf(tmp'[d]))
         \/ tmp'[d] = tmp[d] /\ \A A : Has(signals', A) => Has(signals, A)
<1>1. Handled
  BY StepArchives
<1>2. \A A : Has(signals', A) => Has(signals, A)
  <2>1. signals \in Seq(Outcome) /\ \A A : ~Has(<<>>, A)
    BY DEF Sound, IInv, ExtractorOK, Has
  <2>2. signals' = signals \/ signals' = <<>> \/ (signals # <<>> /\ signals' = Tail(signals))
    BY QueueStep DEF Waiting, Emptied, Posts
  <2> QED BY <2>1, <2>2, HasTail
<1>3. tmp'[d] # tmp[d] => ~Has(signals, OutcomeOf(tmp'[d]))
  <2>1. tmp'[d] # tmp[d] => tmp'[d] \notin JobFiles
    BY <1>1, JobFilesType, NoneAssumption DEF Handled, Sound, ArchiveStep
  <2> QED BY <2>1, NoLine DEF Sound
<1> QED BY <1>2, <1>3

LEMMA HandlerReady ==
  ASSUME Sound, Sound', LoadedHasDirectory, Single, User \/ Answer \/ Network \/ Signal,
         DiskStep, Complete, NEW d \in Docset
  PROVE  Ready(d)'
<1> SUFFICES ASSUME Has(signals', OutcomeOf(tmp'[d]))
             PROVE  d \notin loaded' /\ (Has(signals', GoodOf(tmp'[d])) => disk'[d] = "full")
  BY GoodIsOutcome DEF Ready
<1>1. tmp'[d] = tmp[d] /\ \A A : Has(signals', A) => Has(signals, A)
  BY HandlerSignals
<1>2. d \notin loaded /\ (Has(signals', GoodOf(tmp[d])) => disk[d] = "full")
  BY <1>1 DEF Complete, Ready
<1>3. d \notin loaded'
  <2> SUFFICES ASSUME d \in loaded' PROVE FALSE
    OBVIOUS
  <2>1. CASE Start
    <3>1. tmp[d] = None
      BY <2>1 DEF Start, Sound, Idle, Quiet
    <3> QED BY <1>1, <3>1, JobFilesType, NoLine, NoneAssumption DEF Sound
  <2>2. CASE ExtractionCompleted /\ d \in Named(Head(signals).file)
    <3>1. tmp'[d] = None
      BY <2>2 DEF ExtractionCompleted, DropTmp
    <3>2. None \notin JobFiles
      BY JobFilesType, NoneAssumption DEF Sound
    <3> QED BY <1>1, <3>1, <3>2, NoLine DEF Sound
  <2> QED BY <1>2, <2>1, <2>2, LoadedGrows
<1> QED BY <1>1, <1>2, <1>3 DEF DiskStep

LEMMA EmitGood ==
  ASSUME IInv, NEW g \in File, NEW ok \in BOOLEAN, NEW heard, Emit(g, ok, heard), NEW f,
         Has(signals', GoodOf(f))
  PROVE  (g = f /\ ok) \/ Has(signals, GoodOf(f))
<1> DEFINE s == [file |-> g, ok |-> ok]
<1>1. signals \in Seq(Outcome) /\ s \in Outcome
  BY DEF IInv, ExtractorOK, Outcome
<1>2. CASE signals' = signals
  BY <1>2
<1>3. CASE signals' = Append(signals, s)
  <2>1. /\ DOMAIN signals' = 1 .. Len(signals) + 1 /\ DOMAIN signals = 1 .. Len(signals) /\ Len(signals) \in Nat
        /\ signals'[Len(signals) + 1] = s /\ \A i \in 1 .. Len(signals) : signals'[i] = signals[i]
    BY <1>1, <1>3, AppendProperties, LenProperties
  <2>2. PICK i \in DOMAIN signals' : signals'[i] \in GoodOf(f)
    BY DEF Has
  <2>3. CASE i = Len(signals) + 1
    BY <2>1, <2>2, <2>3 DEF GoodOf
  <2>4. CASE i # Len(signals) + 1
    <3>1. i \in DOMAIN signals /\ signals'[i] = signals[i]
      BY <2>1, <2>2, <2>4
    <3> QED BY <2>2, <3>1 DEF Has
  <2> QED BY <2>3, <2>4
<1> QED BY <1>2, <1>3 DEF Emit

LEMMA ExtractorComplete ==
  ASSUME Sound, Orderly, Complete, ExtractorThread
  PROVE  Complete'
<1>1. UNCHANGED <<tmp, loaded>> /\ disk \in [Docset -> Trees] /\ loaded \subseteq Docset
  BY DEF ExtractorThread, dialogVars, registryVars, Sound, IInv, ExtractorOK, RegistryOK
<1>2. CASE OpenFails(Heard)
  <2> DEFINE j == Head(queue)
  <2>1. /\ queue # <<>> /\ queue' = Tail(queue) /\ running' = None
        /\ Emit(j.file, FALSE, Heard)
        /\ disk' = disk \/ (disk[j.docset] = "absent" /\ disk' = [disk EXCEPT ![j.docset] = "partial"])
    BY <1>2 DEF OpenFails
  <2>2. j \in Job /\ j.file \in File /\ j.docset \in Docset /\ 1 \in DOMAIN queue /\ queue[1] = j
    BY <2>1, HeadJob DEF Job, Sound
  <2>3. \A d \in Docset : disk[d] = "full" => disk'[d] = "full"
    BY <1>1, <2>1, <2>2
  <2>4. ASSUME NEW d \in Docset PROVE Ready(d)'
    <3>1. Has(signals', OutcomeOf(tmp[d])) => j.file = tmp[d] \/ Has(signals, OutcomeOf(tmp[d]))
      BY <2>1, <2>2, EmitHas DEF Sound
    <3>2. Has(signals', GoodOf(tmp[d])) => Has(signals, GoodOf(tmp[d]))
      BY <2>1, <2>2, EmitGood DEF Sound
    <3>3. j.file = tmp[d] => d \notin loaded
      BY <2>2 DEF Orderly, Line, NoExtractionIntoLoaded
    <3> QED BY <1>1, <2>3, <3>1, <3>2, <3>3 DEF Complete, Ready
  <2> QED BY <1>1, <2>1, <2>3, <2>4 DEF Complete, LoadedIsComplete
<1>3. CASE Begin
  <2> DEFINE e == running'.docset
  <2>1. /\ queue # <<>> /\ queue' = Tail(queue) /\ UNCHANGED signals
        /\ running' # None /\ e = Head(queue).docset /\ e \in Docset
        /\ disk' = [disk EXCEPT ![e] = "partial"]
    BY <1>3, BeginJob DEF Sound
  <2>2. 1 \in DOMAIN queue /\ queue[1].docset = e
    BY <2>1, HeadJob DEF Sound
  <2>3. e \notin loaded /\ disk'[e] = "partial" /\ \A d \in Docset : d # e => disk'[d] = disk[d]
    BY <1>1, <2>1, <2>2 DEF Orderly, NoExtractionIntoLoaded
  <2>4. ASSUME NEW d \in Docset PROVE Ready(d)'
    <3>1. Has(signals, GoodOf(tmp[d])) => d # e
      BY <2>2, GoodIsOutcome DEF Orderly, Line, NotQueued
    <3> QED BY <1>1, <2>1, <2>3, <3>1 DEF Complete, Ready
  <2> QED BY <1>1, <2>1, <2>3, <2>4 DEF Complete, LoadedIsComplete
<1>4. CASE Succeed(Heard) \/ Fail(Heard)
  <2> DEFINE e == running.docset
  <2>1. PICK ok \in BOOLEAN : /\ running # None /\ running' = None
                              /\ Emit(running.file, ok, Heard)
                              /\ \/ ok /\ disk' = [disk EXCEPT ![e] = IF @ = "absent" THEN "partial" ELSE "full"]
                                 \/ ~ok /\ disk' = [disk EXCEPT ![e] = "partial"]
    BY <1>4 DEF Succeed, Fail
  <2>2. running.file \in File /\ e \in Docset /\ disk[e] = "partial" /\ e \notin loaded
    BY <2>1, RunningType DEF Sound, IInv, Complete, Orderly, NoExtractionIntoLoaded
  <2>3. (ok => disk'[e] = "full") /\ \A d \in Docset : d # e => disk'[d] = disk[d]
    BY <1>1, <2>1, <2>2
  <2>4. ASSUME NEW d \in Docset PROVE Ready(d)'
    <3>1. Has(signals', OutcomeOf(tmp[d])) => running.file = tmp[d] \/ Has(signals, OutcomeOf(tmp[d]))
      BY <2>1, <2>2, EmitHas DEF Sound
    <3>2. Has(signals', GoodOf(tmp[d])) => (running.file = tmp[d] /\ ok) \/ Has(signals, GoodOf(tmp[d]))
      BY <2>1, <2>2, EmitGood DEF Sound
    <3>3. running.file = tmp[d] => e = d
      BY <2>1 DEF Orderly, Line
    <3>4. Has(signals, GoodOf(tmp[d])) => e # d
      BY <2>1, GoodIsOutcome DEF Orderly, Line
    <3> QED BY <1>1, <2>2, <2>3, <3>1, <3>2, <3>3, <3>4 DEF Complete, Ready
  <2> QED BY <1>1, <2>1, <2>2, <2>3, <2>4 DEF Complete, LoadedIsComplete
<1> QED BY <1>2, <1>3, <1>4 DEF ExtractorThread

LEMMA CompleteNext ==
  ASSUME ~Restarts, Sound, Sound', LoadedHasDirectory, Single, Orderly, Orderly', Complete,
         User \/ Answer \/ Network \/ ExtractorThread \/ Signal
  PROVE  Complete'
<1>1. CASE ExtractorThread
  BY <1>1, ExtractorComplete
<1>2. CASE User \/ Answer \/ Network \/ Signal
  <2>1. CASE loaded' = {} /\ signals' = <<>> /\ running' = None
    <3>1. \A A : ~Has(<<>>, A)
      BY DEF Has
    <3> QED BY <2>1, <3>1 DEF Complete, LoadedIsComplete, Ready
  <2>2. CASE DiskStep
    <3>1. \A d \in Docset : Ready(d)'
      BY <1>2, <2>2, HandlerReady
    <3>2. running' # None => disk'[running'.docset] = "partial"
      <4>1. running' # None => running' = running
        BY <1>2, QueueStep DEF Waiting, Emptied, Posts
      <4>2. running' # None => running.docset \in Docset /\ running.docset \notin loaded
        BY <4>1, RunningType DEF Sound, IInv, Orderly, NoExtractionIntoLoaded
      <4> QED BY <2>2, <4>1, <4>2 DEF DiskStep, Complete
    <3>3. ASSUME NEW d \in loaded' PROVE disk'[d] = "full"
      <4>1. d \in Docset
        BY DEF Sound, IInv, RegistryOK
      <4>2. CASE d \in loaded
        BY <2>2, <4>1, <4>2 DEF DiskStep, Complete, LoadedIsComplete
      <4>3. CASE d \notin loaded
        <5>1. ExtractionCompleted /\ d \in Named(Head(signals).file)
          BY <1>2, <4>3, LoadedGrows DEF Start
        <5>2. /\ Head(signals).file = tmp[d] /\ Head(signals).ok /\ signals # <<>> /\ UNCHANGED disk
          BY <5>1 DEF ExtractionCompleted, Named, Delivered
        <5>3. 1 \in DOMAIN signals /\ signals[1] = Head(signals) /\ Head(signals) \in Outcome
          BY <5>2, HeadTailProperties, LenProperties, EmptySeq DEF Sound, IInv, ExtractorOK
        <5>4. Has(signals, GoodOf(tmp[d]))
          BY <5>2, <5>3 DEF Has, GoodOf
        <5> QED BY <4>1, <5>2, <5>4 DEF Complete, Ready
      <4> QED BY <4>2, <4>3
    <3> QED BY <3>1, <3>2, <3>3 DEF Complete, LoadedIsComplete
  <2> QED BY <1>2, <2>1, <2>2, HandlerDisk DEF Sound
<1> QED BY <1>1, <1>2

LEMMA CompleteInvariance == ASSUME Feeds = {}, ~Restarts PROVE Spec => []Complete
<1>1. Init => Complete
  <2> SUFFICES ASSUME Init PROVE Complete
    OBVIOUS
  <2>1. signals = <<>> /\ running = None /\ \A A : ~Has(<<>>, A)
    BY DEF Init, ExtractorInit, Has
  <2>2. loaded \subseteq Docset /\ disk = [d \in Docset |-> IF d \in loaded THEN "full" ELSE "absent"]
    BY DEF Init, ExtractorInit
  <2> QED BY <2>1, <2>2 DEF Complete, LoadedIsComplete, Ready
<1>2. Sound /\ Sound' /\ LoadedHasDirectory /\ Single /\ Orderly /\ Orderly' /\ Complete /\ [Next]_vars => Complete'
  <2> SUFFICES ASSUME Sound, Sound', LoadedHasDirectory, Single, Orderly, Orderly', Complete, [Next]_vars
               PROVE  Complete'
    OBVIOUS
  <2>1. CASE UNCHANGED vars
    BY <2>1 DEF vars, extractorVars, registryVars, dialogVars, Complete, LoadedIsComplete, Ready
  <2> QED BY <2>1, CompleteNext DEF Next
<1> QED BY <1>1, <1>2, SoundInvariance, SingleInvariance, OrderlyInvariance,
           WhatIsLoadedHasADirectory, PTL DEF Spec

\* For all docsets, archives and replies, in one run of a program whose docsets come
\* from the catalog: every docset in the registry was extracted to its end; no failed
\* or interrupted extraction, and no late signal of an earlier archive, loads one
\* (extractionCompleted, removeDocset, extractor.cpp).
THEOREM WhatIsLoadedIsComplete == ASSUME Feeds = {}, ~Restarts PROVE Spec => []LoadedIsComplete
<1>1. Complete => LoadedIsComplete
  BY DEF Complete
<1> QED BY <1>1, CompleteInvariance, PTL

------------------------------------------------------------------------------
(* Only intact archives are loaded.  This holds with feeds as well, where a  *)
(* docset can be downloaded twice and an archive can be posted while it is   *)
(* still written to.                                                         *)

\* What an archive that could be extracted is from then on.
Sane == {"whole", "moved", "none"}

\* An archive read as one complete download, and one reported as extracted, is
\* still that one, unless it was moved into the docset or deleted.
Intact ==
  /\ \A f \in File : Has(signals, GoodOf(f)) => file[f] \in Sane
  /\ running # None /\ running.body = "whole" => file[running.file] \in Sane

\* What a step other than the extractor's does to its job and its signals.
Heeds ==
  /\ running' \in {running, None}
  /\ signals' = signals \/ signals' = <<>> \/ (signals # <<>> /\ signals' = Tail(signals))

LEMMA HandlerHeeds ==
  ASSUME User \/ Answer \/ Network \/ Signal
  PROVE  Heeds
<1>1. CASE User
  BY <1>1, UserQueue DEF Waiting, Emptied, Heeds
<1>2. CASE Answer
  <2>1. CASE ConfirmRemove
    BY <2>1 DEF ConfirmRemove, RemoveDocsets, ProcessEnds, DialogGone, Heeds
  <2>2. CASE ~ConfirmRemove
    <3>1. UNCHANGED <<running, signals>>
      BY <1>2, <2>2 DEF Answer, AnswerDownloadFailed, AnswerIndexFailed, AnswerBadCatalog,
          DismissNotice, DismissExtractFailed, DismissNotRemoved, DeclineRemove, RemoveDocsets,
          StoreArchive, extractorVars
    <3> QED BY <3>1 DEF Heeds
  <2> QED BY <2>1, <2>2
<1>3. CASE Network
  <2>1. UNCHANGED <<running, signals>>
    BY <1>3 DEF Network, DownloadProgress, DownloadFails, CatalogArrives, FeedArrives, DocsetArrives,
        IndexArrives, StoreArchive, RemoveDocsets, extractorVars
  <2> QED BY <2>1 DEF Heeds
<1>4. CASE Signal
  BY <1>4 DEF Signal, ExtractionCompleted, ExtractionError, Delivered, Heeds
<1> QED BY <1>1, <1>2, <1>3, <1>4

LEMMA ReportedIsJob ==
  ASSUME NEW f, Has(signals, GoodOf(f))
  PROVE  f \in JobFiles
  BY DEF Has, GoodOf, JobFiles

\* The dialog writes to no archive that is being extracted from a complete download.
LEMMA HandlerIntact ==
  ASSUME IInv, ArchiveStep, Heeds, Intact
  PROVE  Intact'
<1>1. ASSUME NEW f \in JobFiles, file[f] \in Sane
      PROVE  file'[f] \in Sane
  BY <1>1 DEF ArchiveStep, Sane, Closed
<1>2. ASSUME NEW f \in File, Has(signals', GoodOf(f))
      PROVE  file'[f] \in Sane
  <2>1. signals \in Seq(Outcome) /\ ~Has(<<>>, GoodOf(f))
    BY DEF IInv, ExtractorOK, Has
  <2>2. Has(signals, GoodOf(f))
    BY <1>2, <2>1, HasTail DEF Heeds
  <2> QED BY <1>1, <2>2, ReportedIsJob DEF Intact
<1>3. ASSUME running' # None, running'.body = "whole"
      PROVE  file'[running'.file] \in Sane
  <2>1. running' = running /\ running.file \in JobFiles
    BY <1>3 DEF Heeds, JobFiles
  <2> QED BY <1>1, <1>3, <2>1 DEF Intact
<1> QED BY <1>2, <1>3 DEF Intact

LEMMA ExtractorIntact ==
  ASSUME IInv, ExtractorThread, Intact
  PROVE  Intact'
<1>1. file \in [File -> Contents] /\ queue \in Seq(Job)
  BY DEF IInv, ExtractorOK
<1>2. ASSUME NEW f \in File, file[f] \in Sane
      PROVE  file'[f] \in Sane
  BY <1>1, <1>2, ExtractorArchives DEF Sane
<1>3. CASE Begin
  <2>1. file' = file /\ signals' = signals /\ running'.body = file[running'.file]
    BY <1>3 DEF Begin
  <2> QED BY <1>2, <2>1 DEF Intact, Sane
<1>4. CASE OpenFails(Heard)
  <2>1. queue # <<>> /\ Emit(Head(queue).file, FALSE, Heard) /\ UNCHANGED <<file, running>>
    BY <1>4 DEF OpenFails
  <2>2. Head(queue) \in Job
    BY <1>1, <2>1, HeadTailProperties
  <2>3. \A f : Has(signals', GoodOf(f)) => Has(signals, GoodOf(f))
    <3>1. Head(queue).file \in File
      BY <2>2 DEF Job
    <3> QED BY <2>1, <3>1, EmitGood
  <2> QED BY <2>1, <2>3 DEF Intact
<1>5. CASE Fail(Heard)
  <2>1. running # None /\ Emit(running.file, FALSE, Heard) /\ file' = file /\ running' = None
    BY <1>5 DEF Fail
  <2>2. running.file \in File
    BY <2>1, RunningType DEF IInv
  <2>3. \A f : Has(signals', GoodOf(f)) => Has(signals, GoodOf(f))
    BY <2>1, <2>2, EmitGood
  <2> QED BY <2>1, <2>3 DEF Intact
<1>6. CASE Succeed(Heard)
  <2>1. /\ running # None /\ running.body = "whole"
        /\ Emit(running.file, TRUE, Heard) /\ running' = None
    BY <1>6 DEF Succeed
  <2>2. running.file \in File
    BY <2>1, RunningType DEF IInv
  <2>3. \A f : Has(signals', GoodOf(f)) => f = running.file \/ Has(signals, GoodOf(f))
    BY <2>1, <2>2, EmitGood
  <2> QED BY <1>2, <2>1, <2>3 DEF Intact
<1> QED BY <1>3, <1>4, <1>5, <1>6 DEF ExtractorThread

LEMMA IntactInvariance == Spec => []Intact
<1>1. Init => Intact
  BY DEF Init, ExtractorInit, Intact, Has
<1>2. IInv /\ Distinct /\ Intact /\ [Next]_vars => Intact'
  <2> SUFFICES ASSUME IInv, Distinct, Intact, [Next]_vars PROVE Intact'
    OBVIOUS
  <2>1. CASE UNCHANGED vars
    BY <2>1 DEF vars, extractorVars, Intact, Has
  <2>2. CASE ExtractorThread
    BY <2>2, ExtractorIntact
  <2>3. CASE User \/ Answer \/ Network \/ Signal
    BY <2>3, ArchivesNext, HandlerHeeds, HandlerIntact
  <2> QED BY <2>1, <2>2, <2>3 DEF Next
<1> QED BY <1>1, <1>2, Invariance, DistinctInvariance, PTL DEF Spec

\* For all docsets, feeds, indexes, archives and replies: a docset that the
\* extractor's completed signal puts into the registry has an archive that is one
\* complete download, whatever retries and second downloads have written meanwhile
\* (docsetsdialog.cpp:405-422, :504-509); a tarix job may have moved it away.
THEOREM OnlyIntactIsLoaded == Spec => OnlyIntactArchivesLoad
<1> DEFINE Loads == \A d \in loaded' \ loaded :
                      ui = "open" => tmp[d] # None /\ file[tmp[d]] \in {"whole", "moved"}
<1>1. IInv /\ Distinct /\ Intact /\ [Next]_vars => Loads
  <2> SUFFICES ASSUME IInv, Distinct, Intact, [Next]_vars, NEW d \in loaded' \ loaded, ui = "open"
               PROVE  tmp[d] # None /\ file[tmp[d]] \in {"whole", "moved"}
    OBVIOUS
  <2>1. Next /\ ~Start
    BY DEF vars, registryVars, Start
  <2>2. ExtractionCompleted /\ d \in Named(Head(signals).file)
    BY <2>1, LoadedGrows DEF Next
  <2>3. signals \in Seq(Outcome) /\ signals # <<>> /\ Head(signals).ok
    BY <2>2 DEF ExtractionCompleted, Delivered, IInv, ExtractorOK
  <2>4. Head(signals) \in Outcome /\ 1 \in DOMAIN signals /\ Head(signals) = signals[1]
    BY <2>3, HeadTailProperties, LenProperties
  <2>5. d \in Docset /\ tmp[d] = Head(signals).file /\ tmp[d] \in File
    BY <2>2, <2>4 DEF Named, Outcome
  <2>6. Has(signals, GoodOf(tmp[d]))
    BY <2>3, <2>4, <2>5 DEF Has, GoodOf
  <2>7. file[tmp[d]] \in Sane
    BY <2>5, <2>6 DEF Intact
  <2>8. tmp[d] # None /\ file[tmp[d]] # "none"
    BY <2>5, NoneAssumption DEF Distinct
  <2> QED BY <2>7, <2>8 DEF Sane
<1> QED BY <1>1, Invariance, DistinctInvariance, IntactInvariance, PTL DEF Spec, OnlyIntactArchivesLoad

------------------------------------------------------------------------------
(* The dialog implements the promise.                                        *)

\* The stage of a docset, told by the counts.
StageOf(d) ==
  IF Ext(d) # 0 THEN "extracting" ELSE IF tmp[d] # None \/ Fet(d) # 0 THEN "fetching" ELSE "idle"

Staged == \A d \in Docset : Stage(d) = StageOf(d)

LEMMA CountEmpty ==
  ASSUME NEW f, NEW A, IsFiniteSet(Hits(f, A))
  PROVE  Hits(f, A) = {} <=> Count(f, A) = 0
  BY FS_EmptySet DEF Count

LEMMA SoundStaged == Sound => Staged
<1> SUFFICES ASSUME Sound, NEW d \in Docset PROVE Stage(d) = StageOf(d)
  BY DEF Staged
<1> DEFINE f == tmp[d]
<1>1. IInv /\ Tidy
  BY DEF Sound
<1>2. /\ Transfers(d) = {} <=> R(d) = 0
      /\ FetchBoxes(d) = {} <=> B(d) = 0
      /\ ErrorBoxes(d) = {} <=> X(d) = 0
  BY <1>1, WorkSets, SlotsCount, CountType, CountEmpty DEF R, B, X, Tidy, IInv, DialogOK
<1>3. /\ InQueue(d) = {} <=> Count(queue, JobOf(f)) = 0
      /\ InSignals(d) = {} <=> Count(signals, OutcomeOf(f)) = 0
  BY <1>1, WorkSets, CountType, CountEmpty DEF IInv, ExtractorOK
<1>4. R(d) \in Nat /\ B(d) \in Nat /\ X(d) \in Nat
  BY <1>1, WorkNat
<1>5. Count(queue, JobOf(f)) \in Nat /\ Count(signals, OutcomeOf(f)) \in Nat
  BY <1>1, CountType DEF IInv, ExtractorOK
<1>6. Fet(d) # 0 <=> Transfers(d) # {} \/ FetchBoxes(d) # {}
  BY <1>2, <1>4 DEF Fet
<1>7. Ext(d) # 0 <=> IsRunning(d) \/ InQueue(d) # {} \/ InSignals(d) # {} \/ ErrorBoxes(d) # {}
  BY <1>2, <1>3, <1>4, <1>5 DEF Ext, Jobs, Bit, IsRunning
<1>8. CASE Ext(d) # 0
  BY <1>7, <1>8 DEF Stage, StageOf
<1>9. CASE Ext(d) = 0
  BY <1>6, <1>7, <1>9 DEF Stage, StageOf
<1> QED BY <1>8, <1>9

\* What is under extraction is not loaded.
Working == \A d \in Docset : Ext(d) # 0 => d \notin loaded

\* ... because its job, its running extraction or its signal is one for it.
LEMMA JobsOut ==
  ASSUME Sound', Orderly', Complete', NEW d \in Docset, Jobs(d)' # 0
  PROVE  d \notin loaded'
<1>1. queue' \in Seq(Job) /\ signals' \in Seq(Outcome)
  BY DEF Sound, IInv, ExtractorOK
<1>2. /\ IsFiniteSet(Hits(queue', JobOf(tmp'[d]))) /\ Count(queue', JobOf(tmp'[d])) \in Nat
      /\ IsFiniteSet(Hits(signals', OutcomeOf(tmp'[d]))) /\ Count(signals', OutcomeOf(tmp'[d])) \in Nat
  BY <1>1, CountType
<1>3. CASE Count(queue', JobOf(tmp'[d])) # 0
  <2>1. PICK i \in DOMAIN queue' : queue'[i].file = tmp'[d]
    BY <1>3, CountNone DEF JobOf
  <2> QED BY <2>1 DEF Orderly, Line, NoExtractionIntoLoaded
<1>4. CASE Count(signals', OutcomeOf(tmp'[d])) # 0
  <2>1. Has(signals', OutcomeOf(tmp'[d]))
    BY <1>4, CountNone DEF Has
  <2> QED BY <2>1 DEF Complete, Ready
<1>5. CASE running' # None /\ running'.file = tmp'[d]
  BY <1>5 DEF Orderly, Line, NoExtractionIntoLoaded
<1> QED BY <1>2, <1>3, <1>4, <1>5 DEF Jobs, Bit

\* A docset comes into the registry, in one run, when its extraction ends.
LEMMA LoadsEnded ==
  ASSUME ~Restarts, Sound, Sound', User \/ Answer \/ Network \/ ExtractorThread \/ Signal,
         NEW d \in Docset, d \in loaded' \ loaded
  PROVE  Ended(d)
<1>1. ExtractionCompleted /\ d \in Named(Head(signals).file)
  BY LoadedGrows DEF Start
<1> QED BY <1>1, StepArchives, CompletedWork DEF Signal

LEMMA WorkingNext ==
  ASSUME Feeds = {}, ~Restarts, Sound, Sound', Single, Orderly', Complete', Working,
         User \/ Answer \/ Network \/ ExtractorThread \/ Signal
  PROVE  Working'
<1> SUFFICES ASSUME NEW d \in Docset, Ext(d)' # 0, d \in loaded' PROVE FALSE
  BY DEF Working
<1>1. /\ Fet(d) \in Nat /\ Ext(d) \in Nat /\ Fet(d)' \in Nat /\ Ext(d)' \in Nat
      /\ X(d) \in Nat /\ Jobs(d) \in Nat /\ X(d)' \in Nat /\ Jobs(d)' \in Nat
  BY WorkNat, WorkNatNext DEF Sound
<1>2. Fet(d) + Ext(d) <= 1
  BY DEF Single, One
<1>3. d \in loaded /\ Ext(d) = 0
  <2>1. Ended(d) => Ext(d)' = 0
    BY <1>1, <1>2 DEF Ended
  <2> QED BY <2>1, LoadsEnded DEF Working
<1>4. Posted(d)
  BY <1>1, <1>2, <1>3, StepWork DEF Effect, Kept, Begun, Lost, Ended, Gone
<1>5. Jobs(d)' # 0
  <2>1. Ext(d)' = 1 /\ X(d)' = X(d) /\ Ext(d) = Jobs(d) + X(d)
    BY <1>3, <1>4 DEF Posted, Ext
  <2>2. X(d) = 0 /\ Ext(d)' = Jobs(d)' + X(d)'
    BY <1>1, <1>3, <2>1 DEF Ext
  <2> QED BY <1>1, <2>1, <2>2
<1> QED BY <1>3, <1>5, JobsOut

LEMMA WorkingInvariance == ASSUME Feeds = {}, ~Restarts PROVE Spec => []Working
<1>1. Init => Working
  <2> SUFFICES ASSUME Init, NEW d \in Docset PROVE Ext(d) = 0
    BY DEF Working
  <2>1. boxes = <<>> /\ queue = <<>> /\ signals = <<>> /\ running = None
    BY DEF Init, ExtractorInit
  <2>2. \A A : Count(<<>>, A) = 0
    BY CountNone
  <2> QED BY <2>1, <2>2 DEF Ext, X, Jobs, Bit
<1>2. Sound /\ Sound' /\ Single /\ Orderly' /\ Complete' /\ Working /\ [Next]_vars => Working'
  <2> SUFFICES ASSUME Sound, Sound', Single, Orderly', Complete', Working, [Next]_vars PROVE Working'
    OBVIOUS
  <2>1. CASE UNCHANGED vars
    BY <2>1 DEF vars, extractorVars, registryVars, dialogVars, Working, Ext, X, Jobs
  <2> QED BY <2>1, WorkingNext DEF Next
<1> QED BY <1>1, <1>2, SoundInvariance, SingleInvariance, OrderlyInvariance, CompleteInvariance, PTL
       DEF Spec

\* What a step does to the stages, and what the promise calls it.
Marks(d) == StageOf(d)' = StageOf(d)
Moved(d, from, to) == StageOf(d) = from /\ StageOf(d)' = to

LEMMA EffectStages ==
  ASSUME Sound, Sound', Single, NEW d \in Docset
  PROVE  /\ Kept(d) => Marks(d)
         /\ Begun(d) => Moved(d, "idle", "fetching")
         /\ Lost(d) => Moved(d, "fetching", "fetching") \/ Moved(d, "fetching", "idle")
         /\ Posted(d) => Moved(d, "fetching", "extracting") /\ Ext(d)' # 0
         /\ Ended(d) => Moved(d, "extracting", "idle") /\ Ext(d) # 0
         /\ Gone(d) => StageOf(d)' = "idle"
<1>1. /\ Fet(d) \in Nat /\ Ext(d) \in Nat /\ Fet(d)' \in Nat /\ Ext(d)' \in Nat
  BY WorkNat, WorkNatNext DEF Sound
<1>2. Fet(d) + Ext(d) <= 1
  BY DEF Single, One
<1>3. Kept(d) => Marks(d)
  BY <1>1 DEF Kept, Marks, StageOf
<1>4. Begun(d) => Moved(d, "idle", "fetching")
  BY DEF Begun, Moved, StageOf
<1>5. ASSUME Lost(d) PROVE Moved(d, "fetching", "fetching") \/ Moved(d, "fetching", "idle")
  <2>1. Fet(d) = 1 /\ Ext(d) = 0 /\ Ext(d)' = 0
    BY <1>1, <1>2, <1>5 DEF Lost
  <2> QED BY <2>1 DEF Moved, StageOf
<1>6. ASSUME Posted(d) PROVE Moved(d, "fetching", "extracting") /\ Ext(d)' # 0
  <2>1. Fet(d) = 1 /\ Ext(d) = 0 /\ Ext(d)' = 1
    BY <1>1, <1>2, <1>6 DEF Posted
  <2> QED BY <2>1 DEF Moved, StageOf
<1>7. ASSUME Ended(d) PROVE Moved(d, "extracting", "idle") /\ Ext(d) # 0
  <2>1. Fet(d)' = 0 /\ Ext(d) = 1 /\ Ext(d)' = 0 /\ tmp'[d] = None
    BY <1>1, <1>2, <1>7 DEF Ended
  <2> QED BY <2>1 DEF Moved, StageOf
<1>8. Gone(d) => StageOf(d)' = "idle"
  BY DEF Gone, StageOf
<1> QED BY <1>3, <1>4, <1>5, <1>6, <1>7, <1>8

Stages == [d \in Docset |-> Stage(d)]

LEMMA StagesAre ==
  ASSUME Staged, Staged'
  PROVE  /\ Stages = [d \in Docset |-> StageOf(d)]
         /\ Stages' = [d \in Docset |-> StageOf(d)']
  BY DEF Staged, Stages

\* A docset moves on, and no other does.
LEMMA OneMoves ==
  ASSUME Staged, Staged', NEW e \in Docset, NEW from, NEW to, Moved(e, from, to),
         \A d \in Docset \ {e} : Marks(d)
  PROVE  Promise!Moves(e, from, to)
<1>1. Stages[e] = from /\ Stages' = [Stages EXCEPT ![e] = to]
  BY StagesAre DEF Moved, Marks
<1> QED BY <1>1 DEF Promise!Moves, Stages

LEMMA IsRemove ==
  ASSUME Staged, Staged', IInv, \A d \in Docset : Marks(d), loaded' \subseteq loaded
  PROVE  Promise!Next
<1>1. Stages' = Stages
  BY StagesAre DEF Marks
<1>2. loaded \ loaded' \in SUBSET Docset /\ loaded' = loaded \ (loaded \ loaded')
  BY DEF IInv, RegistryOK
<1> QED BY <1>1, <1>2 DEF Promise!Next, Promise!Remove, Stages

LEMMA IsGiveUp ==
  ASSUME Staged, Staged', NEW D \in SUBSET Docset, \A d \in D : Moved(d, "fetching", "idle"),
         \A d \in Docset \ D : Marks(d), loaded' \in {loaded, loaded \ D}
  PROVE  Promise!Next
<1>1. /\ \A d \in D : Stages[d] = "fetching"
      /\ Stages' = [d \in Docset |-> IF d \in D THEN "idle" ELSE Stages[d]]
  BY StagesAre DEF Moved, Marks
<1> QED BY <1>1 DEF Promise!Next, Promise!GiveUp, Stages

LEMMA IsForget ==
  ASSUME Staged, Staged', \A d \in Docset : StageOf(d)' = "idle", loaded' \in {loaded, {}}
  PROVE  Promise!Next
<1>1. Stages' = [d \in Docset |-> "idle"]
  BY StagesAre
<1> QED BY <1>1 DEF Promise!Next, Promise!Forget, Stages

\* The handlers of one docset's downloads.
LEMMA IsDownloading ==
  ASSUME Sound, Sound', Staged, Staged', Single, Working', NEW e,
         \A d \in Docset : Kept(d) \/ (d = e /\ (Lost(d) \/ Posted(d))),
         loaded' \in {loaded, loaded \ {e}}
  PROVE  Promise!Next
<1>1. IInv
  BY DEF Sound
<1>2. \A d \in Docset \ {e} : Marks(d)
  BY EffectStages
<1>3. CASE \A d \in Docset : Marks(d)
  BY <1>1, <1>3, IsRemove
<1>4. CASE e \in Docset /\ Moved(e, "fetching", "idle")
  BY <1>1, <1>2, <1>4, IsGiveUp
<1>5. CASE e \in Docset /\ Moved(e, "fetching", "extracting") /\ Ext(e)' # 0
  <2>1. loaded' = loaded \ {e}
    BY <1>5 DEF Working
  <2>2. Promise!Moves(e, "fetching", "extracting")
    BY <1>1, <1>2, <1>5, OneMoves
  <2> QED BY <1>5, <2>1, <2>2 DEF Promise!Next, Promise!Extract
<1>6. ASSUME NEW d \in Docset, ~Marks(d)
      PROVE  d = e /\ (Moved(e, "fetching", "idle") \/ (Moved(e, "fetching", "extracting") /\ Ext(e)' # 0))
  BY <1>6, EffectStages DEF Marks, Moved
<1> QED BY <1>3, <1>4, <1>5, <1>6

LEMMA UserPromised ==
  ASSUME Feeds = {}, ~Restarts, Handled, Staged, Staged', Single, Working', User
  PROVE  Promise!Next
<1>1. Sound /\ Sound' /\ IInv
  BY DEF Handled, Sound
<1>2. CASE Looks
  <2>1. loaded' = loaded
    BY <1>2 DEF Looks, OpenDialog, Start, Refresh, AddDashFeed, AskRemove, registryVars
  <2>2. \A d \in Docset : Marks(d)
    BY <1>1, <1>2, LooksWork, EffectStages
  <2> QED BY <1>1, <2>1, <2>2, IsRemove
<1>3. CASE CloseDialog \/ Quit
  <2>1. DialogGone /\ loaded' \in {loaded, {}}
    BY <1>3 DEF CloseDialog, Quit, ProcessEnds, registryVars
  <2>2. \A d \in Docset : StageOf(d)' = "idle"
    BY <1>1, <2>1, AllGone, EffectStages
  <2> QED BY <2>1, <2>2, IsForget
<1>4. ASSUME NEW e \in Docset, DownloadAvailable(e) \/ UpdateInstalled(e)
      PROVE  Promise!Next
  <2>1. loaded' = loaded
    BY <1>4 DEF DownloadAvailable, UpdateInstalled, registryVars
  <2>2. \A d \in Docset : Marks(d) \/ (d = e /\ Moved(d, "idle", "fetching"))
    <3>1. \A d \in Docset : Kept(d) \/ (d = e /\ Begun(d))
      BY <1>4, DownloadsWork DEF Single, Origin
    <3> QED BY <1>1, <3>1, EffectStages
  <2>3. CASE \A d \in Docset : Marks(d)
    BY <1>1, <2>1, <2>3, IsRemove
  <2>4. CASE Moved(e, "idle", "fetching") /\ \A d \in Docset \ {e} : Marks(d)
    <3>1. Promise!Moves(e, "idle", "fetching")
      BY <2>4, OneMoves
    <3> QED BY <2>1, <3>1 DEF Promise!Next, Promise!Fetch
  <2> QED BY <2>2, <2>3, <2>4
<1>5. CASE CancelDownloads
  <2> DEFINE D == {d \in Docset : ~Marks(d)}
  <2>1. loaded' = loaded
    BY <1>5 DEF CancelDownloads, registryVars
  <2>2. \A d \in Docset : Marks(d) \/ Moved(d, "fetching", "idle")
    <3>1. \A d \in Docset : Kept(d) \/ Lost(d)
      BY <1>5, CancelWork
    <3> QED BY <1>1, <3>1, EffectStages DEF Marks, Moved
  <2>3. D \in SUBSET Docset /\ (\A d \in D : Moved(d, "fetching", "idle")) /\ \A d \in Docset \ D : Marks(d)
    BY <2>2
  <2> HIDE DEF D
  <2> QED BY <2>1, <2>3, IsGiveUp
<1> QED BY <1>2, <1>3, <1>4, <1>5 DEF User, Looks

LEMMA NetworkPromised ==
  ASSUME Handled, Staged, Staged', Single, Working', Network
  PROVE  Promise!Next
<1>1. PICK q \in Request : Handles(q)
  BY DEF Network, Handles
<1> DEFINE e == replies[q].docset
<1>2. \A d \in Docset : Kept(d) \/ (d = e /\ (Lost(d) \/ Posted(d)))
  BY <1>1, NetworkWork
<1>3. loaded' \in {loaded, loaded \ {e}}
  BY <1>1 DEF Handles, DownloadProgress, DownloadFails, CatalogArrives, FeedArrives, DocsetArrives,
              IndexArrives, registryVars
<1> HIDE DEF e
<1> QED BY <1>2, <1>3, IsDownloading DEF Handled

LEMMA RemovalPromised ==
  ASSUME Handled, Staged, Staged', Single, boxes # <<>>,
         Head(boxes).kind \in {"confirmRemove", "notRemoved"}, Head(boxes).reply = None,
         NEW N, RemoveDocsets(N, Below)
  PROVE  Promise!Next
<1>1. \A d \in Docset : Marks(d)
  BY RemoveDocsetsWork, EffectStages DEF Handled
<1>2. loaded' \subseteq loaded
  BY DEF RemoveDocsets
<1> QED BY <1>1, <1>2, IsRemove DEF Handled, Sound

LEMMA AnswerPromised ==
  ASSUME Handled, Staged, Staged', Single, Working, Working', Answer
  PROVE  Promise!Next
<1>1. Sound /\ Sound' /\ IInv /\ Tidy
  BY DEF Handled, Sound
<1>2. CASE AnswerBadCatalog \/ DismissNotice \/ DeclineRemove
  <2>1. \A d \in Docset : Marks(d)
    BY <1>1, <1>2, DismissWork, EffectStages
  <2>2. loaded' = loaded
    BY <1>2 DEF AnswerBadCatalog, DismissNotice, DeclineRemove, registryVars
  <2> QED BY <1>1, <2>1, <2>2, IsRemove
<1>3. CASE AnswerDownloadFailed
  <2> DEFINE e == Head(boxes).reply.docset
  <2>1. \A d \in Docset : Kept(d) \/ (d = e /\ Lost(d))
    BY <1>3, AnswerDownloadFailedWork
  <2>2. loaded' = loaded
    BY <1>3 DEF AnswerDownloadFailed, registryVars
  <2> HIDE DEF e
  <2> QED BY <1>1, <2>1, <2>2, IsDownloading
<1>4. CASE AnswerIndexFailed
  <2>1. loaded' = loaded
    BY <1>4 DEF AnswerIndexFailed, registryVars
  <2>2. PICK e : \A d \in Docset : Kept(d) \/ (d = e /\ (Lost(d) \/ Posted(d)))
    <3>1. \A d \in Docset : Kept(d) \/ (Head(boxes).about = {d} /\ (Lost(d) \/ Posted(d)))
      BY <1>4, AnswerIndexFailedWork
    <3>2. \A d, e : Head(boxes).about = {d} /\ Head(boxes).about = {e} => d = e
      OBVIOUS
    <3> QED BY <3>1, <3>2
  <2> QED BY <1>1, <2>1, <2>2, IsDownloading
<1>5. CASE DismissExtractFailed
  <2> DEFINE D == Head(boxes).about
  <2>1. \A d \in Docset : IF d \in D THEN Ended(d) ELSE Kept(d)
    BY <1>5, DismissExtractFailedWork
  <2>2. D \in SUBSET Docset /\ \A d, e \in D : d = e
    BY <1>1, <1>5, TopTidy DEF DismissExtractFailed, Top, TidyBox, Box
  <2>3. loaded' = loaded
    BY <1>5 DEF DismissExtractFailed, registryVars
  <2> HIDE DEF D
  <2>4. CASE D = {}
    <3>1. \A d \in Docset : Marks(d)
      BY <1>1, <2>1, <2>4, EffectStages
    <3> QED BY <1>1, <2>3, <3>1, IsRemove
  <2>5. ASSUME NEW e \in D PROVE Promise!Next
    <3>1. e \in Docset /\ Ended(e) /\ \A d \in Docset \ {e} : Kept(d)
      BY <2>1, <2>2, <2>5
    <3>2. /\ Moved(e, "extracting", "idle") /\ Ext(e) # 0
          /\ \A d \in Docset \ {e} : Marks(d)
      BY <1>1, <3>1, EffectStages
    <3>3. Promise!Moves(e, "extracting", "idle") /\ e \notin loaded
      BY <3>1, <3>2, OneMoves DEF Working
    <3> QED BY <2>3, <3>1, <3>3 DEF Promise!Next, Promise!Fail
  <2> QED BY <2>4, <2>5
<1>6. CASE DismissNotRemoved
  <2>1. boxes # <<>> /\ Head(boxes).kind = "notRemoved"
    BY <1>6 DEF DismissNotRemoved, Top
  <2>2. CASE Head(boxes).reply = None
    BY <1>6, <2>1, <2>2, RemovalPromised DEF DismissNotRemoved
  <2>3. CASE Head(boxes).reply # None
    <3> DEFINE e == Head(boxes).reply.docset
    <3>1. \A d \in Docset : Kept(d) \/ (d = e /\ (Lost(d) \/ Posted(d)))
      BY <1>6, DismissNotRemovedWork
    <3>2. loaded' = loaded
      BY <1>6, <2>3 DEF DismissNotRemoved, registryVars
    <3> HIDE DEF e
    <3> QED BY <1>1, <3>1, <3>2, IsDownloading
  <2> QED BY <2>2, <2>3
<1>7. CASE ConfirmRemove
  <2>1. CASE ProcessEnds
    <3>1. DialogGone /\ loaded' = {}
      BY <2>1 DEF ProcessEnds
    <3>2. \A d \in Docset : StageOf(d)' = "idle"
      BY <1>1, <3>1, AllGone, EffectStages
    <3> QED BY <3>1, <3>2, IsForget
  <2>2. CASE ~ProcessEnds
    <3>1. boxes # <<>> /\ Head(boxes).kind = "confirmRemove" /\ Head(boxes).reply = None
      BY <1>1, <1>7, TopTidy DEF ConfirmRemove, Top, TidyBox
    <3> QED BY <1>7, <2>2, <3>1, RemovalPromised DEF ConfirmRemove
  <2> QED BY <2>1, <2>2
<1> QED BY <1>2, <1>3, <1>4, <1>5, <1>6, <1>7 DEF Answer

LEMMA ThreadPromised ==
  ASSUME Sound, Sound', Staged, Staged', Single, ExtractorThread
  PROVE  Promise!Next
<1>1. \A d \in Docset : Marks(d)
  BY ExtractorWork, EffectStages
<1>2. loaded' = loaded
  BY DEF ExtractorThread, registryVars
<1> QED BY <1>1, <1>2, IsRemove DEF Sound

LEMMA SignalPromised ==
  ASSUME Handled, Staged, Staged', Single, Complete, Working, Signal
  PROVE  Promise!Next
<1>1. Sound /\ Sound' /\ IInv
  BY DEF Handled, Sound
<1>2. CASE ExtractionError
  <2>1. \A d \in Docset : Marks(d)
    BY <1>1, <1>2, ErrorWork, EffectStages
  <2>2. loaded' = loaded
    BY <1>2 DEF ExtractionError, registryVars
  <2> QED BY <1>1, <2>1, <2>2, IsRemove
<1>3. CASE ExtractionCompleted
  <2> DEFINE s == Head(signals)
             D == Named(s.file)
  <2>1. \A d \in Docset : IF d \in D THEN Ended(d) ELSE Kept(d)
    BY <1>3, CompletedWork
  <2>2. 1 \in DOMAIN signals /\ signals[1] = s /\ s \in Outcome /\ s.file \in File /\ s.ok
    <3>1. signals \in Seq(Outcome) /\ signals # <<>> /\ Head(signals).ok
      BY <1>1, <1>3 DEF ExtractionCompleted, Delivered, IInv, ExtractorOK
    <3>2. 1 \in DOMAIN signals /\ signals[1] = Head(signals) /\ Head(signals) \in Outcome
      BY <3>1, HeadTailProperties, LenProperties, EmptySeq
    <3> QED BY <3>1, <3>2 DEF Outcome
  <2>3. D \in SUBSET Docset /\ \A d, e \in D : d = e
    BY <1>1, <2>2, NoneAssumption DEF Named, Sound, Distinct
  <2>4. PICK L \in SUBSET D : loaded' = loaded \cup L /\ \A d \in D : disk[d] = "full" => d \in L
    BY <1>3 DEF ExtractionCompleted
  <2>5. ASSUME NEW d \in D PROVE disk[d] = "full"
    <3>1. tmp[d] = s.file /\ d \in Docset
      BY DEF Named
    <3>2. Has(signals, GoodOf(tmp[d]))
      BY <2>2, <3>1 DEF Has, GoodOf
    <3> QED BY <3>1, <3>2 DEF Complete, Ready
  <2> HIDE DEF D, s
  <2>6. CASE D = {}
    <3>1. \A d \in Docset : Marks(d)
      BY <1>1, <2>1, <2>6, EffectStages
    <3> QED BY <1>1, <2>4, <2>6, <3>1, IsRemove
  <2>7. ASSUME NEW e \in D PROVE Promise!Next
    <3>1. e \in Docset /\ Ended(e) /\ \A d \in Docset \ {e} : Kept(d)
      BY <2>1, <2>3, <2>7
    <3>2. /\ Moved(e, "extracting", "idle") /\ Ext(e) # 0
          /\ \A d \in Docset \ {e} : Marks(d)
      BY <1>1, <3>1, EffectStages
    <3>3. Promise!Moves(e, "extracting", "idle") /\ e \notin loaded
      BY <3>1, <3>2, OneMoves DEF Working
    <3>4. loaded' = loaded \cup {e}
      BY <2>3, <2>4, <2>5, <2>7
    <3> QED BY <3>1, <3>3, <3>4 DEF Promise!Next, Promise!Finish
  <2> QED BY <2>6, <2>7
<1> QED BY <1>2, <1>3 DEF Signal

\* For all docsets, archives and replies, in one run of a program whose docsets come
\* from the catalog: whatever replies, signals, answers and closings of the dialog
\* come in whatever order, each docset goes through one installation at a time -
\* fetched, then extracted while it is not usable, then usable - and every handler
\* is a step of InstallPromise.
THEOREM TheDialogKeepsItsPromise == ASSUME Feeds = {}, ~Restarts PROVE Spec => KeepsPromise
<1>1. Init /\ Staged => Promise!Init
  <2> SUFFICES ASSUME Init, Staged PROVE Promise!Init
    OBVIOUS
  <2>1. /\ boxes = <<>> /\ queue = <<>> /\ signals = <<>> /\ running = None
        /\ replies = [q \in Request |-> None] /\ tmp = [d \in Docset |-> None]
        /\ loaded \in SUBSET Docset
    BY DEF Init, ExtractorInit
  <2>2. \A A : Count(<<>>, A) = 0
    BY CountNone
  <2>3. ASSUME NEW d \in Docset PROVE Stage(d) = "idle"
    <3>1. R(d) = 0
      BY <2>1, CountNone, CountsFor DEF R
    <3>2. Fet(d) = 0 /\ Ext(d) = 0
      BY <2>1, <2>2, <3>1 DEF Fet, Ext, B, X, Jobs, Bit
    <3> QED BY <2>1, <3>2 DEF Staged, StageOf
  <2> QED BY <2>1, <2>3 DEF Promise!Init
<1>2. /\ Sound /\ Sound' /\ Staged /\ Staged' /\ Single /\ Complete /\ Working /\ Working'
      /\ [Next]_vars
      => [Promise!Next]_<<[d \in Docset |-> Stage(d)], loaded>>
  <2> SUFFICES ASSUME Sound, Sound', Staged, Staged', Single, Complete, Working, Working', [Next]_vars
               PROVE  [Promise!Next]_<<Stages, loaded>>
    BY DEF Stages
  <2>1. CASE UNCHANGED vars
    BY <2>1 DEF vars, extractorVars, registryVars, dialogVars, Stages, Stage, IsRunning, InQueue,
                InSignals, ErrorBoxes, Transfers, FetchBoxes
  <2>2. CASE ExtractorThread
    BY <2>2, ThreadPromised
  <2>3. CASE User \/ Answer \/ Network \/ Signal
    <3>1. Handled
      BY <2>3, StepArchives
    <3> QED BY <2>3, <3>1, UserPromised, AnswerPromised, NetworkPromised, SignalPromised
  <2> QED BY <2>1, <2>2, <2>3 DEF Next
<1>3. Sound => Staged
  BY SoundStaged
<1> QED BY <1>1, <1>2, <1>3, SoundInvariance, SingleInvariance, CompleteInvariance, WorkingInvariance,
           PTL DEF Spec, KeepsPromise, Promise!Spec
=============================================================================
