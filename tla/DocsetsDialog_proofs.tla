------------------------ MODULE DocsetsDialog_proofs ------------------------
(****************************************************************************)
(* What holds of the Docset Library dialog for every set of docsets,        *)
(* archives and network replies.                                            *)
(****************************************************************************)
EXTENDS DocsetsDialog, SequenceTheorems, FiniteSetTheorems, TLAPS

\* The parts of TypeOK the extractor and the dialog work on.
ExtractorOK ==
  /\ file \in [File -> Contents]
  /\ disk \in [Docset -> Trees]
  /\ queue \in Seq(Job)
  /\ running \in Running \cup {None}
  /\ signals \in Seq(Outcome)

RegistryOK ==
  /\ ui \in {"dead", "closed", "open"}
  /\ loaded \in SUBSET Docset
  /\ updatable \in SUBSET loaded
  /\ ui = "dead" => updatable = {}

DialogOK ==
  /\ replies \in [Request -> Reply \cup {None}]
  /\ boxes \in Seq(Box)
  /\ tmp \in [Docset -> File \cup {None}]
  /\ available \in SUBSET Docset
  /\ userFeeds \in SUBSET Docset
  /\ progress \in SUBSET Docset
  /\ controls \in BOOLEAN

\* TypeOK is not inductive by itself: that the registry a process starts with has
\* no known update rests on there being none while no process runs.
IInv == ExtractorOK /\ RegistryOK /\ DialogOK

LEMMA IInvImpliesTypeOK == IInv => TypeOK
  BY DEF IInv, ExtractorOK, RegistryOK, DialogOK, TypeOK

------------------------------------------------------------------------------
(* What the helpers build *)

LEMMA NewReplyType ==
  ASSUME NEW type \in {"DocsetList", "DashFeed", "Docset", "TarixIndex"},
         NEW d \in Docset \cup {None}, type # "DocsetList" => d \in Docset,
         NEW row \in {"own", "none", "unset"}
  PROVE  NewReply(type, d, row) \in Reply
  BY LimitAssumption DEF NewReply, Reply

LEMMA AskType ==
  ASSUME NEW kind \in {"indexFailed", "badCatalog", "notice", "notRemoved",
                       "extractFailed", "confirmRemove"},
         NEW about \in SUBSET Docset
  PROVE  Ask(kind, about) \in Box
  BY DEF Ask, Box

LEMMA AskForType ==
  ASSUME NEW kind \in {"downloadFailed", "notRemoved"}, NEW r \in Reply,
         kind = "notRemoved" => r.type = "Docset", r # None
  PROVE  AskFor(kind, r) \in Box
  BY DEF AskFor, Box

LEMMA ShowType ==
  ASSUME NEW b \in Box, NEW below \in Seq(Box), Show(b, below)
  PROVE  boxes' \in Seq(Box)
<1>1. <<b>> \in Seq(Box)
  OBVIOUS
<1> QED BY <1>1, ConcatProperties DEF Show

LEMMA UpdateStatusType ==
  ASSUME controls \in BOOLEAN, NEW rs, NEW ts, UpdateStatus(rs, ts)
  PROVE  controls' \in BOOLEAN
  BY DEF UpdateStatus

LEMMA DownloadType ==
  ASSUME NEW rs \in [Request -> Reply \cup {None}], NEW r \in Reply, Download(rs, r)
  PROVE  /\ replies' \in [Request -> Reply \cup {None}]
         /\ controls' \in BOOLEAN
  BY DEF Download, Free

LEMMA WithoutType ==
  ASSUME DialogOK, NEW q \in Request
  PROVE  Without(q) \in [Request -> Reply \cup {None}]
  BY DEF Without, DialogOK

LEMMA DropTmpType ==
  ASSUME ExtractorOK, DialogOK, NEW D \in SUBSET Docset, DropTmp(D)
  PROVE  /\ file' \in [File -> Contents]
         /\ tmp' \in [Docset -> File \cup {None}]
  BY DEF DropTmp, DialogOK, ExtractorOK, Contents

LEMMA TmpForType ==
  ASSUME DialogOK, NEW d \in Docset, NEW f \in TmpFor(d)
  PROVE  f \in File
  BY DEF TmpFor, DialogOK

LEMMA AppendedType ==
  ASSUME ExtractorOK, NEW f \in File, NEW r
  PROVE  Appended(r, f) \in Contents /\ Sealed(r, f) \in Contents
  BY DEF Appended, Sealed, ExtractorOK, Contents, Closed

LEMMA PostType ==
  ASSUME ExtractorOK, NEW f \in File, NEW d \in Docset, NEW tarix \in BOOLEAN,
         Post(f, d, tarix)
  PROVE  queue' \in Seq(Job)
  BY DEF Post, ExtractorOK, Job

LEMMA EmitType ==
  ASSUME ExtractorOK, NEW f \in File, NEW ok \in BOOLEAN, NEW heard \in BOOLEAN,
         Emit(f, ok, heard)
  PROVE  signals' \in Seq(Outcome)
<1>1. [file |-> f, ok |-> ok] \in Outcome
  BY DEF Outcome
<1>2. CASE heard
  BY <1>1, <1>2 DEF Emit, ExtractorOK
<1>3. CASE ~heard
  BY <1>3 DEF Emit, ExtractorOK
<1> QED BY <1>2, <1>3

LEMMA RowOfType ==
  ASSUME RegistryOK, NEW d \in Docset
  PROVE  RowOf(d) \in Nat
<1>1. {e \in loaded : e < d} \subseteq Docset
  BY DEF RegistryOK
<1>2. IsFiniteSet({e \in loaded : e < d})
  BY <1>1, DocsetAssumption, FS_Subset
<1> QED BY <1>2, FS_CardinalityType DEF RowOf

LEMMA ReplyFields ==
  ASSUME NEW r \in Reply
  PROVE  /\ r.type \in {"DocsetList", "DashFeed", "Docset", "TarixIndex"}
         /\ r.docset \in Docset \cup {None}
         /\ r.type # "DocsetList" => r.docset \in Docset
         /\ r.attempt \in 0..MaxTarixIndexRetries
  BY DEF Reply

LEMMA ReplyInto ==
  ASSUME NEW r \in Reply, NEW f \in File \cup {None}
  PROVE  [r EXCEPT !.into = f] \in Reply
  BY DEF Reply

LEMMA TopType ==
  ASSUME DialogOK, boxes # <<>>
  PROVE  /\ Head(boxes) \in Box
         /\ Below \in Seq(Box)
  BY HeadTailProperties DEF DialogOK, Below

------------------------------------------------------------------------------
(* The extractor thread *)

LEMMA OpenFailsOK ==
  ASSUME ExtractorOK, NEW heard \in BOOLEAN, OpenFails(heard)
  PROVE  ExtractorOK'
<1> DEFINE j == Head(queue)
<1>1. j \in Job /\ Tail(queue) \in Seq(Job)
  BY HeadTailProperties DEF OpenFails, ExtractorOK
<1>2. j.file \in File /\ j.docset \in Docset
  BY <1>1 DEF Job
<1>3. queue' \in Seq(Job)
  BY <1>1 DEF OpenFails
<1>4. signals' \in Seq(Outcome)
  BY <1>2, EmitType DEF OpenFails
<1>5. disk' \in [Docset -> Trees]
  BY <1>2 DEF OpenFails, ExtractorOK, Trees
<1> QED BY <1>3, <1>4, <1>5 DEF OpenFails, ExtractorOK

LEMMA BeginOK ==
  ASSUME ExtractorOK, Begin
  PROVE  ExtractorOK'
<1> DEFINE j == Head(queue)
<1>1. j \in Job /\ Tail(queue) \in Seq(Job)
  BY HeadTailProperties DEF Begin, ExtractorOK
<1>2. j.file \in File /\ j.docset \in Docset /\ file[j.file] \in Contents
  BY <1>1 DEF Job, ExtractorOK
<1>3. queue' \in Seq(Job)
  BY <1>1 DEF Begin
<1>4. disk' \in [Docset -> Trees]
  BY <1>2 DEF Begin, ExtractorOK, Trees
<1>5. running' \in Running
  <2>1. PICK usable \in BOOLEAN :
          running' = [file |-> j.file, docset |-> j.docset,
                      tarix |-> usable, body |-> file[j.file]]
    BY DEF Begin
  <2> QED BY <1>2, <2>1 DEF Running
<1>6. UNCHANGED <<file, signals>>
  BY DEF Begin
<1> QED BY <1>3, <1>4, <1>5, <1>6 DEF ExtractorOK

LEMMA RunningType ==
  ASSUME ExtractorOK, running # None
  PROVE  running.file \in File /\ running.docset \in Docset
  BY DEF ExtractorOK, Running

LEMMA SucceedOK ==
  ASSUME ExtractorOK, NEW heard \in BOOLEAN, Succeed(heard)
  PROVE  ExtractorOK'
<1>1. running.file \in File /\ running.docset \in Docset
  BY RunningType DEF Succeed
<1>2. signals' \in Seq(Outcome)
  BY <1>1, EmitType DEF Succeed
<1>3. disk' \in [Docset -> Trees]
  BY <1>1 DEF Succeed, ExtractorOK, Trees
<1>4. file' \in [File -> Contents]
  BY <1>1 DEF Succeed, ExtractorOK, Contents, Closed
<1> QED BY <1>2, <1>3, <1>4 DEF Succeed, ExtractorOK

LEMMA FailOK ==
  ASSUME ExtractorOK, NEW heard \in BOOLEAN, Fail(heard)
  PROVE  ExtractorOK'
<1>1. running.file \in File /\ running.docset \in Docset
  BY RunningType DEF Fail
<1>2. signals' \in Seq(Outcome)
  BY <1>1, EmitType DEF Fail
<1>3. disk' \in [Docset -> Trees]
  BY <1>1 DEF Fail, ExtractorOK, Trees
<1> QED BY <1>2, <1>3 DEF Fail, ExtractorOK

LEMMA ExtractorFrame == ExtractorOK /\ UNCHANGED extractorVars => ExtractorOK'
  BY DEF ExtractorOK, extractorVars

LEMMA RegistryFrame == RegistryOK /\ UNCHANGED <<ui, registryVars>> => RegistryOK'
  BY DEF RegistryOK, registryVars

LEMMA DialogFrame == DialogOK /\ UNCHANGED dialogVars => DialogOK'
  BY DEF DialogOK, dialogVars

LEMMA ExtractorThreadStep == IInv /\ ExtractorThread => IInv'
<1> SUFFICES ASSUME IInv, ExtractorThread PROVE IInv'
  OBVIOUS
<1>1. Heard \in BOOLEAN
  BY DEF Heard
<1>2. ExtractorOK'
  BY <1>1, OpenFailsOK, BeginOK, SucceedOK, FailOK DEF ExtractorThread, IInv
<1> QED BY <1>2, RegistryFrame, DialogFrame DEF ExtractorThread, IInv

------------------------------------------------------------------------------
(* Starting, ending and opening *)

LEMMA InitOK == Init => IInv
<1> SUFFICES ASSUME Init PROVE IInv
  OBVIOUS
<1>1. ExtractorOK
  BY DEF Init, ExtractorInit, ExtractorOK, Contents, Trees
<1>2. RegistryOK
  BY DEF Init, RegistryOK
<1>3. DialogOK
  BY DEF Init, DialogOK
<1> QED BY <1>1, <1>2, <1>3 DEF IInv

LEMMA DialogGoneOK ==
  ASSUME IInv, DialogGone
  PROVE  /\ DialogOK'
         /\ file' \in [File -> Contents]
         /\ signals' \in Seq(Outcome)
<1>1. /\ file' \in [File -> Contents]
      /\ tmp' \in [Docset -> File \cup {None}]
  BY DropTmpType DEF DialogGone, IInv
<1> QED BY <1>1 DEF DialogGone, DialogOK

LEMMA ProcessEndsStep == IInv /\ ProcessEnds => IInv'
<1> SUFFICES ASSUME IInv, ProcessEnds PROVE IInv'
  OBVIOUS
<1>1. /\ DialogOK'
      /\ file' \in [File -> Contents]
      /\ signals' \in Seq(Outcome)
  BY DialogGoneOK DEF ProcessEnds
<1>2. disk' \in [Docset -> Trees]
  BY DEF ProcessEnds, IInv, ExtractorOK, Trees
<1>3. ExtractorOK'
  BY <1>1, <1>2 DEF ProcessEnds, ExtractorOK
<1>4. RegistryOK'
  BY DEF ProcessEnds, RegistryOK
<1> QED BY <1>1, <1>3, <1>4 DEF IInv

LEMMA StartStep == IInv /\ Start => IInv'
<1> SUFFICES ASSUME IInv, Start PROVE IInv'
  OBVIOUS
<1>1. RegistryOK'
  BY DEF Start, IInv, RegistryOK
<1> QED BY <1>1, ExtractorFrame, DialogFrame DEF Start, IInv

LEMMA ReplyCheck ==
  ASSUME NEW r \in Reply
  PROVE  [r EXCEPT !.check = TRUE] \in Reply
  BY DEF Reply

LEMMA CheckType ==
  ASSUME NEW d \in Docset
  PROVE  [NewReply("DashFeed", d, "unset") EXCEPT !.check = TRUE] \in Reply
  BY NewReplyType, ReplyCheck

LEMMA OpenDialogStep == IInv /\ OpenDialog => IInv'
<1> SUFFICES ASSUME IInv, OpenDialog PROVE IInv'
  OBVIOUS
<1> DEFINE Checked == loaded \cap Feeds
           Check(d) == [NewReply("DashFeed", d, "unset") EXCEPT !.check = TRUE]
<1>1. PICK fresh \in BOOLEAN, slot \in [Checked \cup {None} -> Request] :
        /\ replies' = [q \in Request |->
             IF \E d \in Checked : slot[d] = q
               THEN Check(CHOOSE d \in Checked : slot[d] = q)
             ELSE IF ~fresh /\ slot[None] = q
               THEN NewReply("DocsetList", None, "unset")
             ELSE None]
        /\ available' = IF fresh THEN Catalog ELSE {}
        /\ updatable' \in IF fresh
             THEN {updatable \cup S : S \in SUBSET (loaded \cap Catalog)}
             ELSE {updatable}
        /\ controls' = (fresh /\ Checked = {})
  BY DEF OpenDialog
<1>2. replies' \in [Request -> Reply \cup {None}]
  <2> HIDE DEF Checked, Check
  <2>1. ASSUME NEW q \in Request PROVE replies'[q] \in Reply \cup {None}
    <3>1. CASE \E d \in Checked : slot[d] = q
      <4> DEFINE c == CHOOSE d \in Checked : slot[d] = q
      <4>1. c \in Checked
        BY <3>1
      <4>2. c \in Docset
        BY <4>1 DEF Checked, IInv, RegistryOK
      <4>3. Check(c) \in Reply
        BY <4>2, CheckType DEF Check
      <4> QED BY <1>1, <3>1, <4>3
    <3>2. CASE ~ \E d \in Checked : slot[d] = q
      <4>1. NewReply("DocsetList", None, "unset") \in Reply
        BY NewReplyType
      <4> QED BY <1>1, <3>2, <4>1
    <3> QED BY <3>1, <3>2
  <2> QED BY <1>1, <2>1
<1>3. available' \in SUBSET Docset
  BY <1>1, OfferAssumption
<1>4. controls' \in BOOLEAN
  BY <1>1
<1>5. updatable' \in SUBSET loaded
  BY <1>1 DEF IInv, RegistryOK
<1>6. DialogOK'
  BY <1>2, <1>3, <1>4 DEF OpenDialog, IInv, DialogOK
<1>7. RegistryOK'
  BY <1>5 DEF OpenDialog, IInv, RegistryOK
<1> QED BY <1>6, <1>7, ExtractorFrame DEF OpenDialog, IInv

LEMMA CloseDialogStep == IInv /\ CloseDialog => IInv'
<1> SUFFICES ASSUME IInv, CloseDialog PROVE IInv'
  OBVIOUS
<1>1. /\ DialogOK'
      /\ file' \in [File -> Contents]
      /\ signals' \in Seq(Outcome)
  BY DialogGoneOK DEF CloseDialog
<1>2. ExtractorOK'
  BY <1>1 DEF CloseDialog, IInv, ExtractorOK
<1>3. RegistryOK'
  BY DEF CloseDialog, IInv, RegistryOK, registryVars
<1> QED BY <1>1, <1>2, <1>3 DEF IInv

------------------------------------------------------------------------------
(* What the user does in the dialog *)

LEMMA DownloadDashDocsetType ==
  ASSUME DialogOK, NEW d \in Docset, NEW pr \in SUBSET Docset, DownloadDashDocset(d, pr)
  PROVE  /\ replies' \in [Request -> Reply \cup {None}]
         /\ progress' \in SUBSET Docset
         /\ controls' \in BOOLEAN
<1> DEFINE row == IF d \in available THEN "own" ELSE "none"
<1>1. NewReply("Docset", d, row) \in Reply
  BY NewReplyType
<1>2. CASE Download(replies, NewReply("Docset", d, row)) /\ progress' = pr
  BY <1>1, <1>2, DownloadType DEF DialogOK
<1>3. CASE progress' \in {pr, pr \ {d}} /\ UNCHANGED <<replies, controls>>
  BY <1>3 DEF DialogOK
<1> QED BY <1>2, <1>3 DEF DownloadDashDocset

LEMMA DownloadAvailableStep == ASSUME IInv, NEW d \in Docset, DownloadAvailable(d) PROVE IInv'
<1>1. /\ replies' \in [Request -> Reply \cup {None}]
      /\ progress' \in SUBSET Docset
      /\ controls' \in BOOLEAN
  BY DownloadDashDocsetType DEF DownloadAvailable, IInv, DialogOK
<1>2. DialogOK'
  BY <1>1 DEF DownloadAvailable, IInv, DialogOK
<1> QED BY <1>2, ExtractorFrame, RegistryFrame DEF DownloadAvailable, IInv

LEMMA UpdateInstalledStep == ASSUME IInv, NEW d \in Docset, UpdateInstalled(d) PROVE IInv'
<1>1. /\ replies' \in [Request -> Reply \cup {None}]
      /\ progress' \in SUBSET Docset
      /\ controls' \in BOOLEAN
  BY DownloadDashDocsetType DEF UpdateInstalled, IInv, DialogOK
<1>2. DialogOK'
  BY <1>1 DEF UpdateInstalled, IInv, DialogOK
<1> QED BY <1>2, ExtractorFrame, RegistryFrame DEF UpdateInstalled, IInv

LEMMA AddDashFeedStep == ASSUME IInv, NEW d \in Docset, AddDashFeed(d) PROVE IInv'
<1>1. NewReply("DashFeed", d, "unset") \in Reply
  BY NewReplyType
<1>2. /\ replies' \in [Request -> Reply \cup {None}]
      /\ controls' \in BOOLEAN
  BY <1>1, DownloadType DEF AddDashFeed, IInv, DialogOK
<1>3. DialogOK'
  BY <1>2 DEF AddDashFeed, IInv, DialogOK
<1> QED BY <1>3, ExtractorFrame, RegistryFrame DEF AddDashFeed, IInv

LEMMA RefreshStep == ASSUME IInv, Refresh PROVE IInv'
<1>1. NewReply("DocsetList", None, "unset") \in Reply
  BY NewReplyType
<1>2. /\ replies' \in [Request -> Reply \cup {None}]
      /\ controls' \in BOOLEAN
  BY <1>1, DownloadType DEF Refresh, IInv, DialogOK
<1>3. DialogOK'
  BY <1>2 DEF Refresh, IInv, DialogOK
<1> QED BY <1>3, ExtractorFrame, RegistryFrame DEF Refresh, IInv

LEMMA CancelDownloadsStep == ASSUME IInv, CancelDownloads PROVE IInv'
<1> DEFINE Live == {replies[q] : q \in Request} \ {None}
           Gone == {r.docset : r \in {l \in Live : l.type \in {"Docset", "TarixIndex"}}}
<1>1. Gone \in SUBSET Docset
  <2>1. Live \subseteq Reply
    BY DEF IInv, DialogOK
  <2> QED BY <2>1, ReplyFields
<1>2. DropTmp(Gone)
  BY DEF CancelDownloads
<1>3. /\ file' \in [File -> Contents]
      /\ tmp' \in [Docset -> File \cup {None}]
  BY <1>1, <1>2, DropTmpType DEF IInv
<1>4. controls' \in BOOLEAN
  BY UpdateStatusType DEF CancelDownloads, IInv, DialogOK
<1>5. progress' \in SUBSET Docset
  BY DEF CancelDownloads, IInv, DialogOK
<1>6. DialogOK'
  BY <1>3, <1>4, <1>5 DEF CancelDownloads, IInv, DialogOK
<1>7. ExtractorOK'
  BY <1>3 DEF CancelDownloads, IInv, ExtractorOK
<1> QED BY <1>6, <1>7, RegistryFrame DEF CancelDownloads, IInv

LEMMA AskRemoveStep == ASSUME IInv, NEW S \in SUBSET loaded, AskRemove(S) PROVE IInv'
<1> DEFINE Rows == {RowOf(d) : d \in S}
<1>1. S \in SUBSET Docset
  BY DEF IInv, RegistryOK
<1>2. Rows \in SUBSET Nat
  BY <1>1, RowOfType DEF IInv
<1>3. [Ask("confirmRemove", S) EXCEPT !.rows = Rows] \in Box
  BY <1>1, <1>2 DEF Ask, Box
<1>4. boxes' \in Seq(Box)
  BY <1>3, ShowType DEF AskRemove, IInv, DialogOK
<1>5. DialogOK'
  BY <1>4 DEF AskRemove, IInv, DialogOK
<1> QED BY <1>5, ExtractorFrame, RegistryFrame DEF AskRemove, IInv

------------------------------------------------------------------------------
(* Network replies *)

LEMMA ArrivingType ==
  ASSUME DialogOK, NEW q \in Request, replies[q] # None
  PROVE  replies[q] \in Reply
  BY DEF DialogOK

LEMMA DownloadProgressStep == ASSUME IInv, NEW q \in Request, DownloadProgress(q) PROVE IInv'
<1> DEFINE r == replies[q]
           d == r.docset
<1>1. r \in Reply /\ d \in Docset
  BY ArrivingType, ReplyFields DEF DownloadProgress, Arriving, IInv
<1>2. PICK f \in TmpFor(d) :
        /\ tmp' = [tmp EXCEPT ![d] = f]
        /\ file' = [file EXCEPT ![f] = Appended(r, f)]
        /\ replies' = [replies EXCEPT ![q].into = f]
  BY DEF DownloadProgress
<1>3. f \in File /\ Appended(r, f) \in Contents
  BY <1>1, <1>2, TmpForType, AppendedType DEF IInv
<1>4. file' \in [File -> Contents]
  BY <1>2, <1>3 DEF IInv, ExtractorOK
<1>5. tmp' \in [Docset -> File \cup {None}]
  BY <1>2, <1>3 DEF IInv, DialogOK
<1>6. replies' \in [Request -> Reply \cup {None}]
  <2>1. [r EXCEPT !.into = f] \in Reply
    BY <1>1, <1>3, ReplyInto
  <2>2. replies' = [replies EXCEPT ![q] = [r EXCEPT !.into = f]]
    BY <1>2
  <2> QED BY <2>1, <2>2 DEF IInv, DialogOK
<1>7. DialogOK'
  BY <1>5, <1>6 DEF DownloadProgress, IInv, DialogOK
<1>8. ExtractorOK'
  BY <1>4 DEF DownloadProgress, IInv, ExtractorOK
<1> QED BY <1>7, <1>8, RegistryFrame DEF DownloadProgress, IInv

LEMMA NextAttempt ==
  ASSUME NEW r \in Reply, NEW n \in 0..MaxTarixIndexRetries
  PROVE  [r EXCEPT !.attempt = n] \in Reply
  BY DEF Reply

LEMMA DownloadFailsStep == ASSUME IInv, NEW q \in Request, DownloadFails(q) PROVE IInv'
<1> DEFINE r == replies[q]
           row == IF r.docset \in available THEN "own" ELSE "none"
           again == [NewReply("TarixIndex", r.docset, row) EXCEPT !.attempt = r.attempt + 1]
<1>1. r \in Reply
  BY ArrivingType DEF DownloadFails, IInv
<1>2. Without(q) \in [Request -> Reply \cup {None}]
  BY WithoutType DEF IInv
<1>3. boxes' \in Seq(Box) /\ replies' \in [Request -> Reply \cup {None}] /\ controls' \in BOOLEAN
  <2>1. CASE /\ r.type = "TarixIndex" /\ r.attempt < MaxTarixIndexRetries
             /\ Download(Without(q), again)
             /\ UNCHANGED boxes
    <3>1. NewReply("TarixIndex", r.docset, row) \in Reply
      BY <1>1, <2>1, ReplyFields, NewReplyType
    <3>2. r.attempt + 1 \in 0..MaxTarixIndexRetries
      BY <1>1, <2>1, ReplyFields, LimitAssumption
    <3>3. again \in Reply
      BY <3>1, <3>2, NextAttempt
    <3> QED BY <1>2, <2>1, <3>3, DownloadType DEF IInv, DialogOK
  <2>2. CASE /\ r.type = "TarixIndex"
             /\ Show(Ask("indexFailed", {r.docset}), boxes)
             /\ replies' = Without(q)
             /\ UNCHANGED controls
    <3>1. {r.docset} \in SUBSET Docset
      BY <1>1, <2>2, ReplyFields
    <3>2. Ask("indexFailed", {r.docset}) \in Box
      BY <3>1, AskType
    <3> QED BY <1>2, <2>2, <3>2, ShowType DEF IInv, DialogOK
  <2>3. CASE /\ Show(AskFor("downloadFailed", r), boxes)
             /\ replies' = Without(q)
             /\ UNCHANGED controls
    <3>1. AskFor("downloadFailed", r) \in Box
      BY <1>1, AskForType DEF DownloadFails
    <3> QED BY <1>2, <2>3, <3>1, ShowType DEF IInv, DialogOK
  <2> QED BY <2>1, <2>2, <2>3 DEF DownloadFails
<1>4. DialogOK'
  BY <1>3 DEF DownloadFails, IInv, DialogOK
<1> QED BY <1>4, ExtractorFrame, RegistryFrame DEF DownloadFails, IInv

LEMMA CatalogArrivesStep == ASSUME IInv, NEW q \in Request, CatalogArrives(q) PROVE IInv'
<1>1. replies' \in [Request -> Reply \cup {None}]
  BY WithoutType DEF CatalogArrives, IInv
<1>2. Ask("notice", {}) \in Box /\ Ask("badCatalog", {}) \in Box
  BY AskType
<1>3. boxes' \in Seq(Box)
  BY <1>2, ShowType DEF CatalogArrives, IInv, DialogOK
<1>4. controls' \in BOOLEAN
  BY UpdateStatusType DEF CatalogArrives, IInv, DialogOK
<1>5. available' \in SUBSET Docset /\ progress' \in SUBSET Docset
  BY OfferAssumption DEF CatalogArrives, IInv, DialogOK
<1>6. updatable' \in SUBSET loaded
  BY DEF CatalogArrives, IInv, RegistryOK
<1>7. DialogOK'
  BY <1>1, <1>3, <1>4, <1>5 DEF CatalogArrives, IInv, DialogOK
<1>8. RegistryOK'
  BY <1>6 DEF CatalogArrives, Arriving, IInv, RegistryOK
<1> QED BY <1>7, <1>8, ExtractorFrame DEF CatalogArrives, IInv

LEMMA FeedArrivesStep == ASSUME IInv, NEW q \in Request, FeedArrives(q) PROVE IInv'
<1> DEFINE d == replies[q].docset
<1>1. d \in Docset
  BY ArrivingType, ReplyFields DEF FeedArrives, Arriving, IInv
<1>2. Without(q) \in [Request -> Reply \cup {None}]
  BY WithoutType DEF IInv
<1>3. NewReply("Docset", d, "unset") \in Reply
  BY <1>1, NewReplyType
<1>4. replies' \in [Request -> Reply \cup {None}] /\ controls' \in BOOLEAN
  BY <1>2, <1>3, DownloadType, UpdateStatusType DEF FeedArrives, IInv, DialogOK
<1>5. Ask("notice", {}) \in Box
  BY AskType
<1>6. boxes' \in Seq(Box)
  BY <1>5, ShowType DEF FeedArrives, IInv, DialogOK
<1>7. userFeeds' \in SUBSET Docset
  BY <1>1 DEF FeedArrives, IInv, DialogOK
<1>8. updatable' \in SUBSET loaded
  BY <1>1 DEF FeedArrives, IInv, RegistryOK
<1>9. DialogOK'
  BY <1>4, <1>6, <1>7 DEF FeedArrives, IInv, DialogOK
<1>10. RegistryOK'
  BY <1>8 DEF FeedArrives, Arriving, IInv, RegistryOK
<1> QED BY <1>9, <1>10, ExtractorFrame DEF FeedArrives, IInv

\* StoreArchive leaves the directory and the registry to its caller.
LEMMA StoreArchiveType ==
  ASSUME IInv, NEW r \in Reply, r.docset \in Docset,
         NEW rs \in [Request -> Reply \cup {None}], NEW below \in Seq(Box),
         StoreArchive(r, rs, below)
  PROVE  /\ DialogOK'
         /\ file' \in [File -> Contents]
         /\ queue' \in Seq(Job)
         /\ UNCHANGED <<running, signals, ui>>
<1> DEFINE d == r.docset
<1>1. CASE /\ Show(Ask("notice", {}), below)
           /\ progress' = progress \ {d}
           /\ replies' = rs
           /\ UNCHANGED <<file, queue, tmp, controls>>
  <2>1. boxes' \in Seq(Box)
    BY <1>1, AskType, ShowType
  <2> QED BY <1>1, <2>1 DEF StoreArchive, IInv, DialogOK, ExtractorOK
<1>2. ASSUME NEW f \in TmpFor(d),
             /\ tmp' = [tmp EXCEPT ![d] = f]
             /\ file' = [file EXCEPT ![f] = Sealed(r, f)]
             /\ boxes' = below
             /\ \/ /\ d \in Tarix \cap available
                   /\ Download(rs, NewReply("TarixIndex", d, "own"))
                   /\ UNCHANGED queue
                \/ /\ d \notin Tarix \cap available
                   /\ Post(f, d, FALSE)
                   /\ replies' = rs
                   /\ UpdateStatus(rs, tmp')
             /\ UNCHANGED progress
      PROVE  /\ DialogOK'
             /\ file' \in [File -> Contents]
             /\ queue' \in Seq(Job)
  <2>1. f \in File /\ Sealed(r, f) \in Contents
    BY <1>2, TmpForType, AppendedType DEF IInv
  <2>2. file' \in [File -> Contents] /\ tmp' \in [Docset -> File \cup {None}]
    BY <1>2, <2>1 DEF IInv, ExtractorOK, DialogOK
  <2>3. NewReply("TarixIndex", d, "own") \in Reply
    BY NewReplyType
  <2>4. replies' \in [Request -> Reply \cup {None}] /\ controls' \in BOOLEAN
    BY <1>2, <2>3, DownloadType, UpdateStatusType DEF IInv, DialogOK
  <2>5. queue' \in Seq(Job)
    BY <1>2, <2>1, PostType DEF IInv, ExtractorOK
  <2> QED BY <1>2, <2>2, <2>4, <2>5 DEF StoreArchive, IInv, DialogOK
<1> QED BY <1>1, <1>2 DEF StoreArchive

LEMMA DocsetArrivesStep == ASSUME IInv, NEW q \in Request, DocsetArrives(q) PROVE IInv'
<1> DEFINE r == replies[q]
           d == r.docset
<1>1. r \in Reply /\ d \in Docset /\ r.type = "Docset" /\ r # None
  BY ArrivingType, ReplyFields DEF DocsetArrives, Arriving, IInv
<1>2. Without(q) \in [Request -> Reply \cup {None}] /\ boxes \in Seq(Box)
  BY WithoutType DEF IInv, DialogOK
<1>3. disk' \in [Docset -> Trees]
  BY DEF DocsetArrives, IInv, ExtractorOK, extractorVars, Trees
<1>4. CASE StoreArchive(r, Without(q), boxes)
  <2>1. DialogOK' /\ ExtractorOK' /\ UNCHANGED ui
    BY <1>1, <1>2, <1>3, <1>4, StoreArchiveType DEF IInv, ExtractorOK
  <2>2. RegistryOK'
    BY <2>1 DEF DocsetArrives, Arriving, IInv, RegistryOK, registryVars
  <2> QED BY <2>1, <2>2 DEF IInv
<1>5. CASE /\ loaded' = loaded \ {d} /\ updatable' = updatable \ {d}
           /\ Show(AskFor("notRemoved", r), boxes)
           /\ replies' = Without(q)
           /\ UNCHANGED <<extractorVars, ui, tmp, available, userFeeds, progress, controls>>
  <2>1. AskFor("notRemoved", r) \in Box
    BY <1>1, AskForType
  <2>2. boxes' \in Seq(Box)
    BY <1>2, <1>5, <2>1, ShowType
  <2>3. DialogOK'
    BY <1>2, <1>5, <2>2 DEF IInv, DialogOK
  <2>4. RegistryOK'
    BY <1>5 DEF DocsetArrives, Arriving, IInv, RegistryOK
  <2> QED BY <1>5, <2>3, <2>4, ExtractorFrame DEF IInv
<1> QED BY <1>4, <1>5 DEF DocsetArrives

LEMMA IndexArrivesStep == ASSUME IInv, NEW q \in Request, IndexArrives(q) PROVE IInv'
<1> DEFINE d == replies[q].docset
<1>1. d \in Docset
  BY ArrivingType, ReplyFields DEF IndexArrives, Arriving, IInv
<1>2. queue' \in Seq(Job)
  <2>1. CASE tmp[d] = None
    BY <2>1 DEF IndexArrives, IInv, ExtractorOK
  <2>2. CASE tmp[d] # None
    <3>1. PICK usable \in BOOLEAN : Post(tmp[d], d, usable)
      BY <2>2 DEF IndexArrives
    <3>2. tmp[d] \in File
      BY <1>1, <2>2 DEF IInv, DialogOK
    <3> QED BY <1>1, <3>1, <3>2, PostType DEF IInv
  <2> QED BY <2>1, <2>2
<1>3. replies' \in [Request -> Reply \cup {None}]
  BY WithoutType DEF IndexArrives, IInv
<1>4. controls' \in BOOLEAN
  BY UpdateStatusType DEF IndexArrives, IInv, DialogOK
<1>5. DialogOK'
  BY <1>3, <1>4 DEF IndexArrives, IInv, DialogOK
<1>6. ExtractorOK'
  BY <1>2 DEF IndexArrives, IInv, ExtractorOK
<1> QED BY <1>5, <1>6, RegistryFrame DEF IndexArrives, IInv

------------------------------------------------------------------------------
(* Extractor signals *)

LEMMA SignalType ==
  ASSUME ExtractorOK, signals # <<>>
  PROVE  Tail(signals) \in Seq(Outcome)
  BY HeadTailProperties DEF ExtractorOK

LEMMA ExtractionCompletedStep == ASSUME IInv, ExtractionCompleted PROVE IInv'
<1> DEFINE D == Named(Head(signals).file)
<1>1. D \in SUBSET Docset
  BY DEF Named
<1>2. DropTmp(D)
  BY DEF ExtractionCompleted
<1>3. /\ file' \in [File -> Contents]
      /\ tmp' \in [Docset -> File \cup {None}]
  BY <1>1, <1>2, DropTmpType DEF IInv
<1>4. signals' \in Seq(Outcome)
  BY SignalType DEF ExtractionCompleted, Delivered, IInv
<1>5. controls' \in BOOLEAN
  BY UpdateStatusType DEF ExtractionCompleted, IInv, DialogOK
<1>6. progress' \in SUBSET Docset
  BY DEF ExtractionCompleted, IInv, DialogOK
<1>7. PICK L \in SUBSET D : loaded' = loaded \cup L /\ updatable' = updatable \ L
  BY DEF ExtractionCompleted
<1>8. RegistryOK'
  BY <1>1, <1>7 DEF ExtractionCompleted, Delivered, IInv, RegistryOK
<1>9. DialogOK'
  BY <1>3, <1>5, <1>6 DEF ExtractionCompleted, IInv, DialogOK
<1>10. ExtractorOK'
  BY <1>3, <1>4 DEF ExtractionCompleted, IInv, ExtractorOK
<1> QED BY <1>8, <1>9, <1>10 DEF IInv

LEMMA ExtractionErrorStep == ASSUME IInv, ExtractionError PROVE IInv'
<1> DEFINE D == Named(Head(signals).file)
<1>1. D \in SUBSET Docset
  BY DEF Named
<1>2. Ask("extractFailed", D) \in Box
  BY <1>1, AskType
<1>3. boxes' \in Seq(Box)
  BY <1>2, ShowType DEF ExtractionError, IInv, DialogOK
<1>4. signals' \in Seq(Outcome)
  BY SignalType DEF ExtractionError, Delivered, IInv
<1>5. DialogOK'
  BY <1>3 DEF ExtractionError, IInv, DialogOK
<1>6. ExtractorOK'
  BY <1>4 DEF ExtractionError, IInv, ExtractorOK
<1> QED BY <1>5, <1>6, RegistryFrame DEF ExtractionError, IInv

------------------------------------------------------------------------------
(* Answers to the top message box *)

LEMMA TopBoxType ==
  ASSUME IInv, NEW kind, Top(kind)
  PROVE  /\ Head(boxes) \in Box
         /\ Head(boxes).kind = kind
         /\ Head(boxes).about \in SUBSET Docset
         /\ Head(boxes).reply \in Reply \cup {None}
         /\ kind = "downloadFailed" => Head(boxes).reply # None
         /\ kind = "notRemoved" =>
              Head(boxes).reply = None \/ Head(boxes).reply.type = "Docset"
         /\ Below \in Seq(Box)
<1>1. Head(boxes) \in Box /\ Below \in Seq(Box)
  BY TopType DEF Top, IInv
<1> QED BY <1>1 DEF Box, Top

LEMMA AnswerDownloadFailedStep == ASSUME IInv, AnswerDownloadFailed PROVE IInv'
<1> DEFINE r == Head(boxes).reply
<1>1. r \in Reply /\ Below \in Seq(Box)
  BY TopBoxType DEF AnswerDownloadFailed
<1>2. [r EXCEPT !.into = None] \in Reply
  BY <1>1, ReplyInto
<1>3. DialogOK'
  <2>1. /\ replies' \in [Request -> Reply \cup {None}]
        /\ progress' \in SUBSET Docset
        /\ controls' \in BOOLEAN
    <3>1. CASE Download(replies, [r EXCEPT !.into = None]) /\ UNCHANGED progress
      BY <1>2, <3>1, DownloadType DEF IInv, DialogOK
    <3>2. CASE /\ progress' = IF r.row = "own" THEN progress \ {r.docset} ELSE progress
               /\ UNCHANGED replies
               /\ UpdateStatus(replies, tmp)
      BY <3>2, UpdateStatusType DEF IInv, DialogOK
    <3> QED BY <3>1, <3>2 DEF AnswerDownloadFailed
  <2> QED BY <1>1, <2>1 DEF AnswerDownloadFailed, IInv, DialogOK
<1> QED BY <1>3, ExtractorFrame, RegistryFrame DEF AnswerDownloadFailed, IInv

LEMMA AnswerIndexFailedStep == ASSUME IInv, AnswerIndexFailed PROVE IInv'
<1>1. PICK d \in Head(boxes).about :
        \/ /\ Download(replies, NewReply("TarixIndex", d,
                                  IF d \in available THEN "own" ELSE "none"))
           /\ UNCHANGED <<file, queue, tmp, progress>>
        \/ /\ IF tmp[d] = None THEN UNCHANGED queue ELSE Post(tmp[d], d, FALSE)
           /\ UNCHANGED <<file, tmp, replies, progress>>
           /\ UpdateStatus(replies, tmp')
        \/ /\ DropTmp({d})
           /\ progress' = progress \ {d}
           /\ UNCHANGED <<queue, replies>>
           /\ UpdateStatus(replies, tmp')
  BY DEF AnswerIndexFailed
<1>2. d \in Docset /\ Below \in Seq(Box)
  BY TopBoxType DEF AnswerIndexFailed
<1>3. NewReply("TarixIndex", d, IF d \in available THEN "own" ELSE "none") \in Reply
  BY <1>2, NewReplyType
<1>4. /\ replies' \in [Request -> Reply \cup {None}]
      /\ controls' \in BOOLEAN
  BY <1>1, <1>3, DownloadType, UpdateStatusType DEF IInv, DialogOK
<1>5. /\ file' \in [File -> Contents]
      /\ tmp' \in [Docset -> File \cup {None}]
  <2>1. CASE UNCHANGED <<file, tmp>>
    BY <2>1 DEF IInv, DialogOK, ExtractorOK
  <2>2. CASE DropTmp({d})
    BY <1>2, <2>2, DropTmpType DEF IInv
  <2> QED BY <1>1, <2>1, <2>2
<1>6. queue' \in Seq(Job)
  <2>1. CASE UNCHANGED queue
    BY <2>1 DEF IInv, ExtractorOK
  <2>2. CASE tmp[d] # None /\ Post(tmp[d], d, FALSE)
    <3>1. tmp[d] \in File
      BY <1>2, <2>2 DEF IInv, DialogOK
    <3> QED BY <1>2, <2>2, <3>1, PostType DEF IInv
  <2> QED BY <1>1, <2>1, <2>2
<1>7. progress' \in SUBSET Docset
  BY <1>1 DEF IInv, DialogOK
<1>8. DialogOK'
  BY <1>2, <1>4, <1>5, <1>7 DEF AnswerIndexFailed, IInv, DialogOK
<1>9. ExtractorOK'
  BY <1>5, <1>6 DEF AnswerIndexFailed, IInv, ExtractorOK
<1> QED BY <1>8, <1>9, RegistryFrame DEF AnswerIndexFailed, IInv

LEMMA AnswerBadCatalogStep == ASSUME IInv, AnswerBadCatalog PROVE IInv'
<1>1. Below \in Seq(Box)
  BY TopBoxType DEF AnswerBadCatalog
<1>2. NewReply("DocsetList", None, "unset") \in Reply
  BY NewReplyType
<1>3. /\ replies' \in [Request -> Reply \cup {None}]
      /\ controls' \in BOOLEAN
  BY <1>2, DownloadType, UpdateStatusType DEF AnswerBadCatalog, IInv, DialogOK
<1>4. DialogOK'
  BY <1>1, <1>3 DEF AnswerBadCatalog, IInv, DialogOK
<1> QED BY <1>4, ExtractorFrame, RegistryFrame DEF AnswerBadCatalog, IInv

LEMMA DismissNoticeStep == ASSUME IInv, DismissNotice PROVE IInv'
<1>1. Below \in Seq(Box)
  BY TopBoxType DEF DismissNotice
<1>2. controls' \in BOOLEAN
  BY UpdateStatusType DEF DismissNotice, IInv, DialogOK
<1>3. DialogOK'
  BY <1>1, <1>2 DEF DismissNotice, IInv, DialogOK
<1> QED BY <1>3, ExtractorFrame, RegistryFrame DEF DismissNotice, IInv

LEMMA DismissExtractFailedStep == ASSUME IInv, DismissExtractFailed PROVE IInv'
<1>1. Below \in Seq(Box) /\ Head(boxes).about \in SUBSET Docset
  BY TopBoxType DEF DismissExtractFailed
<1>2. /\ file' \in [File -> Contents]
      /\ tmp' \in [Docset -> File \cup {None}]
  BY <1>1, DropTmpType DEF DismissExtractFailed, IInv
<1>3. DialogOK'
  BY <1>1, <1>2 DEF DismissExtractFailed, IInv, DialogOK
<1>4. ExtractorOK'
  BY <1>2 DEF DismissExtractFailed, IInv, ExtractorOK
<1> QED BY <1>3, <1>4, RegistryFrame DEF DismissExtractFailed, IInv

LEMMA RemoveDocsetsStep ==
  ASSUME IInv, NEW N, NEW below \in Seq(Box), RemoveDocsets(N, below)
  PROVE  IInv'
<1> DEFINE M == N \cap loaded
<1>1. M \in SUBSET Docset
  BY DEF IInv, RegistryOK
<1>2. disk' \in [Docset -> Trees]
  BY DEF RemoveDocsets, IInv, ExtractorOK, Trees
<1>3. loaded' \in SUBSET Docset /\ updatable' \in SUBSET loaded' /\ updatable' \subseteq updatable
  BY DEF RemoveDocsets, IInv, RegistryOK
<1>4. boxes' \in Seq(Box)
  <2>1. CASE boxes' = below
    BY <2>1
  <2>2. ASSUME NEW D \in SUBSET M, Show(Ask("notRemoved", M \ D), below)
        PROVE  boxes' \in Seq(Box)
    <3>1. Ask("notRemoved", M \ D) \in Box
      BY <1>1, AskType
    <3> QED BY <2>2, <3>1, ShowType
  <2>3. ASSUME NEW d \in M, NEW D \in SUBSET (M \ {d}),
               Show(Ask("notRemoved", M \ (D \cup {d})), below)
        PROVE  boxes' \in Seq(Box)
    <3>1. D \cup {d} \in SUBSET M
      OBVIOUS
    <3> QED BY <2>2, <2>3, <3>1
  <2> QED BY <2>1, <2>3 DEF RemoveDocsets
<1>5. ExtractorOK'
  BY <1>2 DEF RemoveDocsets, IInv, ExtractorOK
<1>6. RegistryOK'
  BY <1>3 DEF RemoveDocsets, IInv, RegistryOK
<1>7. DialogOK'
  BY <1>4 DEF RemoveDocsets, IInv, DialogOK
<1> QED BY <1>5, <1>6, <1>7 DEF IInv

LEMMA DismissNotRemovedStep == ASSUME IInv, DismissNotRemoved PROVE IInv'
<1> DEFINE b == Head(boxes)
<1>1. /\ Below \in Seq(Box)
      /\ b.reply \in Reply \cup {None}
      /\ b.reply = None \/ b.reply.type = "Docset"
  BY TopBoxType DEF DismissNotRemoved
<1>2. CASE b.reply = None
  BY <1>1, <1>2, RemoveDocsetsStep DEF DismissNotRemoved
<1>3. CASE b.reply # None
  <2>1. b.reply \in Reply /\ b.reply.docset \in Docset
    BY <1>1, <1>3, ReplyFields
  <2>2. replies \in [Request -> Reply \cup {None}]
    BY DEF IInv, DialogOK
  <2>3. StoreArchive(b.reply, replies, Below) /\ UNCHANGED <<disk, registryVars>>
    BY <1>3 DEF DismissNotRemoved
  <2>4. /\ DialogOK'
        /\ file' \in [File -> Contents]
        /\ queue' \in Seq(Job)
        /\ UNCHANGED <<running, signals, ui>>
    BY <1>1, <2>1, <2>2, <2>3, StoreArchiveType
  <2>5. ExtractorOK'
    BY <2>3, <2>4 DEF IInv, ExtractorOK
  <2> QED BY <2>3, <2>4, <2>5, RegistryFrame DEF IInv
<1> QED BY <1>2, <1>3

LEMMA ConfirmRemoveStep == ASSUME IInv, ConfirmRemove PROVE IInv'
<1>1. Below \in Seq(Box)
  BY TopBoxType DEF ConfirmRemove
<1> QED BY <1>1, ProcessEndsStep, RemoveDocsetsStep DEF ConfirmRemove

LEMMA DeclineRemoveStep == ASSUME IInv, DeclineRemove PROVE IInv'
<1>1. Below \in Seq(Box)
  BY TopBoxType DEF DeclineRemove
<1>2. DialogOK'
  BY <1>1 DEF DeclineRemove, IInv, DialogOK
<1> QED BY <1>2, ExtractorFrame, RegistryFrame DEF DeclineRemove, IInv

------------------------------------------------------------------------------
(* The type invariant *)

LEMMA NextOK == IInv /\ [Next]_vars => IInv'
<1> SUFFICES ASSUME IInv, [Next]_vars PROVE IInv'
  OBVIOUS
<1>1. CASE User
  <2>1. CASE Quit
    BY <2>1, ProcessEndsStep DEF Quit
  <2>2. ASSUME NEW S \in SUBSET loaded, AskRemove(S) PROVE IInv'
    BY <2>2, AskRemoveStep
  <2>3. ASSUME NEW d \in Docset, DownloadAvailable(d) \/ UpdateInstalled(d) \/ AddDashFeed(d)
        PROVE  IInv'
    BY <2>3, DownloadAvailableStep, UpdateInstalledStep, AddDashFeedStep
  <2> QED BY <1>1, <2>1, <2>2, <2>3, OpenDialogStep, CloseDialogStep, StartStep,
             RefreshStep, CancelDownloadsStep DEF User
<1>2. CASE Answer
  BY <1>2, AnswerDownloadFailedStep, AnswerIndexFailedStep, AnswerBadCatalogStep,
     DismissNoticeStep, DismissExtractFailedStep, DismissNotRemovedStep,
     ConfirmRemoveStep, DeclineRemoveStep DEF Answer
<1>3. CASE Network
  BY <1>3, DownloadProgressStep, DownloadFailsStep, CatalogArrivesStep,
     FeedArrivesStep, DocsetArrivesStep, IndexArrivesStep DEF Network
<1>4. CASE ExtractorThread
  BY <1>4, ExtractorThreadStep
<1>5. CASE Signal
  BY <1>5, ExtractionCompletedStep, ExtractionErrorStep DEF Signal
<1>6. CASE UNCHANGED vars
  BY <1>6, ExtractorFrame, RegistryFrame, DialogFrame DEF vars, IInv
<1> QED BY <1>1, <1>2, <1>3, <1>4, <1>5, <1>6 DEF Next

LEMMA Invariance == Spec => []IInv
  BY InitOK, NextOK, PTL DEF Spec

\* For all docsets, archives and replies: every variable keeps its type, a
\* known update belongs to a docset in the registry (unloadDocset drops both), and
\* every message box that waits for a reply has the reply it goes on with.
THEOREM TypeCorrect == Spec => []TypeOK
  BY Invariance, IInvImpliesTypeOK, PTL

-----------------------------------------------------------------------------
(****************************************************************************)
(* When the Docset Library dialog offers Close and its controls, and when   *)
(* it offers Cancel only: for every set of docsets, archives and replies.   *)
(****************************************************************************)

\* A dialog that is not open holds nothing: its replies, archives and message
\* boxes went with it.  What an opened dialog shows rests on that.
Idle == ui # "open" => Quiet(replies, tmp) /\ boxes = <<>>

LEMMA IdleInit == Init => Idle
  BY DEF Init, Idle, Quiet

LEMMA GoneIsIdle ==
  ASSUME DialogGone
  PROVE  Quiet(replies', tmp') /\ boxes' = <<>> /\ controls' = TRUE
  BY DEF DialogGone, DropTmp, Quiet

\* A handler that does not end the dialog leaves it open.
LEMMA IdleNext == IInv /\ Idle /\ [Next]_vars => Idle'
<1> SUFFICES ASSUME IInv, Idle, [Next]_vars PROVE Idle'
  OBVIOUS
<1>1. CASE ProcessEnds \/ CloseDialog
  BY <1>1, GoneIsIdle DEF ProcessEnds, CloseDialog, Idle
<1>2. CASE Start
  BY <1>2 DEF Start, Idle, Quiet, dialogVars
<1>3. CASE OpenDialog
  BY <1>3 DEF OpenDialog, Idle
<1>4. CASE UNCHANGED <<ui, dialogVars>>
  BY <1>4 DEF Idle, Quiet, dialogVars
<1>5. ASSUME NEW r, NEW rs, NEW below, StoreArchive(r, rs, below)
      PROVE  UNCHANGED ui
  BY <1>5 DEF StoreArchive
<1>6. ASSUME NEW N, NEW below, RemoveDocsets(N, below)
      PROVE  UNCHANGED ui
  BY <1>6 DEF RemoveDocsets
<1>7. CASE ui' = "open"
  BY <1>7 DEF Idle
<1>8. CASE User
  <2>1. CASE Quit
    BY <1>1, <2>1 DEF Quit
  <2>2. ASSUME NEW d \in Docset, DownloadAvailable(d) \/ UpdateInstalled(d) \/ AddDashFeed(d)
        PROVE  Idle'
    BY <1>7, <2>2 DEF DownloadAvailable, UpdateInstalled, AddDashFeed, Usable
  <2>3. CASE Refresh \/ CancelDownloads
    BY <1>7, <2>3 DEF Refresh, CancelDownloads, Usable, registryVars
  <2>4. ASSUME NEW S \in SUBSET loaded, AskRemove(S)
        PROVE  Idle'
    BY <1>7, <2>4 DEF AskRemove, Usable
  <2> QED BY <1>1, <1>2, <1>3, <1>8, <2>1, <2>2, <2>3, <2>4 DEF User
<1>9. CASE Answer
  <2>1. CASE \/ AnswerDownloadFailed \/ AnswerIndexFailed \/ AnswerBadCatalog
             \/ DismissNotice \/ DismissExtractFailed \/ DeclineRemove
    BY <1>7, <2>1 DEF AnswerDownloadFailed, AnswerIndexFailed, AnswerBadCatalog,
       DismissNotice, DismissExtractFailed, DeclineRemove, Top
  <2>2. CASE DismissNotRemoved
    BY <1>5, <1>6, <1>7, <2>2 DEF DismissNotRemoved, Top
  <2>3. CASE ConfirmRemove
    BY <1>1, <1>6, <1>7, <2>3 DEF ConfirmRemove, Top
  <2> QED BY <1>9, <2>1, <2>2, <2>3 DEF Answer
<1>10. CASE Network
  <2>1. PICK q \in Request :
          \/ DownloadProgress(q) \/ DownloadFails(q) \/ CatalogArrives(q)
          \/ FeedArrives(q) \/ DocsetArrives(q) \/ IndexArrives(q)
    BY <1>10 DEF Network
  <2>2. CASE DownloadProgress(q) \/ DownloadFails(q) \/ CatalogArrives(q)
             \/ FeedArrives(q) \/ IndexArrives(q)
    BY <1>7, <2>2 DEF DownloadProgress, DownloadFails, CatalogArrives, FeedArrives,
       IndexArrives, Arriving
  <2>3. CASE DocsetArrives(q)
    BY <1>5, <1>7, <2>3 DEF DocsetArrives, Arriving
  <2> QED BY <2>1, <2>2, <2>3
<1>11. CASE ExtractorThread
  BY <1>4, <1>11 DEF ExtractorThread
<1>12. CASE Signal
  BY <1>7, <1>12 DEF Signal, ExtractionCompleted, ExtractionError, Delivered
<1>13. CASE UNCHANGED vars
  BY <1>4, <1>13 DEF vars
<1> QED BY <1>8, <1>9, <1>10, <1>11, <1>12, <1>13 DEF Next

LEMMA IdleInvariance == Spec => []Idle
  BY Invariance, IdleInit, IdleNext, PTL DEF Spec

------------------------------------------------------------------------------
(* Close is offered only when nothing is in flight *)

CloseStep == Unlocked(controls', replies', tmp') =>
               Unlocked(controls, replies, tmp) \/ DismissNotRemoved

\* A step that keeps quiet what was quiet, and gives the controls back only when
\* it leaves the dialog quiet, is such a step; so is one that takes them away.
QuietStep == /\ Quiet(replies, tmp) => Quiet(replies', tmp')
             /\ controls' => controls \/ Quiet(replies', tmp')

LEMMA QuietStepSuffices == QuietStep \/ controls' = FALSE => CloseStep
  BY DEF QuietStep, CloseStep, Unlocked

LEMMA DownloadLocks ==
  ASSUME NEW rs, NEW r, Download(rs, r)
  PROVE  controls' = FALSE
  BY DEF Download

LEMMA UpdateStatusUnlocks ==
  ASSUME NEW rs, NEW ts, UpdateStatus(rs, ts)
  PROVE  controls' => controls \/ Quiet(rs, ts)
  BY DEF UpdateStatus

LEMMA WithoutIsQuiet ==
  ASSUME IInv, NEW q \in Request, Quiet(replies, tmp)
  PROVE  Quiet(Without(q), tmp)
  BY DEF IInv, DialogOK, Without, Quiet

LEMMA DropTmpIsQuiet ==
  ASSUME NEW D, DropTmp(D), NEW rs, Quiet(rs, tmp)
  PROVE  Quiet(rs, tmp')
  BY DEF DropTmp, Quiet

\* A reply in flight, or one that is being handled, is work.
LEMMA ReplyIsWork ==
  ASSUME NEW q \in Request, replies[q] # None
  PROVE  ~Quiet(replies, tmp)
  BY DEF Quiet

LEMMA SameWork ==
  ASSUME UNCHANGED <<replies, tmp, controls>>
  PROVE  QuietStep
  BY DEF QuietStep, Quiet

LEMMA DownloadDashDocsetStep ==
  ASSUME NEW d, NEW pr, DownloadDashDocset(d, pr), UNCHANGED tmp
  PROVE  CloseStep
<1>1. CASE \E row : Download(replies, NewReply("Docset", d, row))
  BY <1>1, DownloadLocks, QuietStepSuffices
<1>2. CASE UNCHANGED <<replies, controls>>
  BY <1>2, SameWork, QuietStepSuffices
<1> QED BY <1>1, <1>2 DEF DownloadDashDocset

LEMMA UserCloseStep == IInv /\ Idle /\ User => CloseStep
<1> SUFFICES ASSUME IInv, Idle, User PROVE CloseStep
  OBVIOUS
<1>1. CASE OpenDialog
  <2>1. Quiet(replies, tmp) /\ UNCHANGED tmp
    BY <1>1 DEF OpenDialog, Idle
  <2>2. controls' => \A q \in Request : replies'[q] = None
    BY <1>1 DEF OpenDialog
  <2> QED BY <2>1, <2>2 DEF CloseStep, Unlocked, Quiet
<1>2. CASE CloseDialog \/ Quit
  BY <1>2, GoneIsIdle DEF CloseDialog, Quit, ProcessEnds, CloseStep, Unlocked
<1>3. CASE Start
  BY <1>3, SameWork, QuietStepSuffices DEF Start, dialogVars
<1>4. ASSUME NEW d \in Docset, DownloadAvailable(d) \/ UpdateInstalled(d)
      PROVE  CloseStep
  BY <1>4, DownloadDashDocsetStep DEF DownloadAvailable, UpdateInstalled
<1>5. ASSUME NEW d \in Docset, AddDashFeed(d)
      PROVE  CloseStep
  BY <1>5, DownloadLocks, QuietStepSuffices DEF AddDashFeed
<1>6. CASE Refresh
  BY <1>6, DownloadLocks, QuietStepSuffices DEF Refresh
<1>7. CASE CancelDownloads
  <2> DEFINE nothing == [q \in Request |-> None]
  <2>1. replies' = nothing /\ UpdateStatus(nothing, tmp')
    BY <1>7 DEF CancelDownloads
  <2>2. Quiet(replies, tmp) => Quiet(nothing, tmp')
    BY <1>7 DEF CancelDownloads, DropTmp, Quiet
  <2>3. controls' => controls \/ Quiet(nothing, tmp')
    BY <2>1, UpdateStatusUnlocks
  <2> QED BY <2>1, <2>2, <2>3, QuietStepSuffices DEF QuietStep
<1>8. ASSUME NEW S \in SUBSET loaded, AskRemove(S)
      PROVE  CloseStep
  BY <1>8, SameWork, QuietStepSuffices DEF AskRemove
<1> QED BY <1>1, <1>2, <1>3, <1>4, <1>5, <1>6, <1>7, <1>8 DEF User

LEMMA AnswerCloseStep == IInv /\ Answer => CloseStep
<1> SUFFICES ASSUME IInv, Answer PROVE CloseStep
  OBVIOUS
<1>1. CASE AnswerDownloadFailed
  <2>1. CASE \E r : Download(replies, r)
    BY <2>1, DownloadLocks, QuietStepSuffices
  <2>2. CASE UNCHANGED replies /\ UpdateStatus(replies, tmp)
    BY <1>1, <2>2, UpdateStatusUnlocks, QuietStepSuffices DEF AnswerDownloadFailed, QuietStep
  <2> QED BY <1>1, <2>1, <2>2 DEF AnswerDownloadFailed
<1>2. CASE AnswerIndexFailed
  <2>1. CASE \E r : Download(replies, r)
    BY <2>1, DownloadLocks, QuietStepSuffices
  <2>2. CASE UNCHANGED <<tmp, replies>> /\ UpdateStatus(replies, tmp')
    BY <2>2, UpdateStatusUnlocks, QuietStepSuffices DEF QuietStep
  <2>3. CASE (\E d : DropTmp({d})) /\ UNCHANGED replies /\ UpdateStatus(replies, tmp')
    <3>1. Quiet(replies, tmp) => Quiet(replies, tmp')
      BY <2>3, DropTmpIsQuiet
    <3> QED BY <2>3, <3>1, UpdateStatusUnlocks, QuietStepSuffices DEF QuietStep
  <2> QED BY <1>2, <2>1, <2>2, <2>3 DEF AnswerIndexFailed
<1>3. CASE AnswerBadCatalog
  <2>1. CASE \E r : Download(replies, r)
    BY <2>1, DownloadLocks, QuietStepSuffices
  <2>2. CASE UNCHANGED replies /\ UpdateStatus(replies, tmp)
    BY <1>3, <2>2, UpdateStatusUnlocks, QuietStepSuffices DEF AnswerBadCatalog, QuietStep
  <2> QED BY <1>3, <2>1, <2>2 DEF AnswerBadCatalog
<1>4. CASE DismissNotice
  BY <1>4, UpdateStatusUnlocks, QuietStepSuffices DEF DismissNotice, QuietStep
<1>5. CASE DismissExtractFailed
  <2>1. DropTmp(Head(boxes).about) /\ UNCHANGED <<replies, controls>>
    BY <1>5 DEF DismissExtractFailed
  <2>2. Quiet(replies, tmp) => Quiet(replies, tmp')
    BY <2>1, DropTmpIsQuiet
  <2> QED BY <2>1, <2>2, QuietStepSuffices DEF QuietStep
<1>6. CASE DismissNotRemoved
  BY <1>6 DEF CloseStep
<1>7. CASE ConfirmRemove
  <2>1. CASE ProcessEnds
    BY <2>1, GoneIsIdle DEF ProcessEnds, CloseStep, Unlocked
  <2>2. CASE \E N, below : RemoveDocsets(N, below)
    BY <2>2, SameWork, QuietStepSuffices DEF RemoveDocsets
  <2> QED BY <1>7, <2>1, <2>2 DEF ConfirmRemove
<1>8. CASE DeclineRemove
  BY <1>8, SameWork, QuietStepSuffices DEF DeclineRemove
<1> QED BY <1>1, <1>2, <1>3, <1>4, <1>5, <1>6, <1>7, <1>8 DEF Answer

\* While a docset's archive is being stored its reply has left the list, but it
\* was there when the step began.
LEMMA StoreArchiveCloseStep ==
  ASSUME NEW r, NEW rs, NEW below, StoreArchive(r, rs, below), ~Quiet(replies, tmp)
  PROVE  CloseStep
<1>1. CASE \E new : Download(rs, new)
  BY <1>1, DownloadLocks, QuietStepSuffices
<1>2. CASE UNCHANGED controls
  BY <1>2 DEF CloseStep, Unlocked
<1>3. CASE replies' = rs /\ UpdateStatus(rs, tmp')
  BY <1>3, UpdateStatusUnlocks, QuietStepSuffices DEF QuietStep
<1> QED BY <1>1, <1>2, <1>3 DEF StoreArchive

LEMMA NetworkCloseStep == IInv /\ Network => CloseStep
<1> SUFFICES ASSUME IInv, NEW q \in Request,
                    \/ DownloadProgress(q) \/ DownloadFails(q) \/ CatalogArrives(q)
                    \/ FeedArrives(q) \/ DocsetArrives(q) \/ IndexArrives(q)
             PROVE  CloseStep
  BY DEF Network
<1>1. replies[q] # None
  BY DEF DownloadProgress, DownloadFails, CatalogArrives, FeedArrives, DocsetArrives,
         IndexArrives, Arriving
<1>2. ~Quiet(replies, tmp)
  BY <1>1, ReplyIsWork
<1>3. CASE \E r : Download(Without(q), r)
  BY <1>3, DownloadLocks, QuietStepSuffices
<1>4. CASE UNCHANGED controls
  BY <1>2, <1>4 DEF CloseStep, Unlocked
<1>5. CASE replies' = Without(q) /\ UNCHANGED tmp /\ UpdateStatus(Without(q), tmp)
  BY <1>2, <1>5, UpdateStatusUnlocks, QuietStepSuffices DEF QuietStep
<1>6. CASE DocsetArrives(q)
  BY <1>2, <1>4, <1>6, StoreArchiveCloseStep DEF DocsetArrives
<1>7. CASE DownloadProgress(q) \/ DownloadFails(q)
  BY <1>3, <1>4, <1>7 DEF DownloadProgress, DownloadFails
<1>8. CASE CatalogArrives(q) \/ FeedArrives(q) \/ IndexArrives(q)
  BY <1>3, <1>4, <1>5, <1>8 DEF CatalogArrives, FeedArrives, IndexArrives
<1> QED BY <1>6, <1>7, <1>8

LEMMA SignalCloseStep == Signal => CloseStep
<1>1. ASSUME ExtractionCompleted PROVE CloseStep
  <2>1. UNCHANGED replies /\ UpdateStatus(replies, tmp')
    BY <1>1 DEF ExtractionCompleted
  <2>2. Quiet(replies, tmp) => Quiet(replies, tmp')
    BY <1>1, DropTmpIsQuiet DEF ExtractionCompleted
  <2> QED BY <2>1, <2>2, UpdateStatusUnlocks, QuietStepSuffices DEF QuietStep
<1>2. ASSUME ExtractionError PROVE CloseStep
  BY <1>2, SameWork, QuietStepSuffices DEF ExtractionError
<1> QED BY <1>1, <1>2 DEF Signal

LEMMA CloseNext == IInv /\ Idle /\ [Next]_vars => [CloseStep]_vars
<1>1. ExtractorThread => CloseStep
  BY SameWork, QuietStepSuffices DEF ExtractorThread, dialogVars
<1> QED BY <1>1, UserCloseStep, AnswerCloseStep, NetworkCloseStep, SignalCloseStep DEF Next

\* For all docsets, archives and replies: whatever replies, signals and message
\* boxes come in between, the dialog does not begin to offer Close and its controls
\* (enableControls) while a reply is in flight or an archive is held, except when
\* an installation resumes after the box about a directory that stayed.
THEOREM ClosesOnlyWhenQuiet == Spec => CloseOnlyWhenQuiet
  BY Invariance, IdleInvariance, CloseNext, PTL DEF Spec, CloseOnlyWhenQuiet, CloseStep

------------------------------------------------------------------------------
(* The controls come back *)

SettledStep == ~Settled /\ Settled' => controls' \/ DismissExtractFailed

\* No box on the stack will update the status when it is answered.
Calm(bs) == \A i \in DOMAIN bs : ~StatusPending(bs[i])

LEMMA CalmPush ==
  ASSUME NEW b \in Box, NEW below \in Seq(Box)
  PROVE  Calm(<<b>> \o below) <=> ~StatusPending(b) /\ Calm(below)
<1> DEFINE s == <<b>> \o below
<1>1. <<b>> \in Seq(Box) /\ Len(<<b>>) = 1
  OBVIOUS
<1>2. /\ s \in Seq(Box)
      /\ Len(s) = 1 + Len(below)
      /\ \A i \in 1 .. 1 + Len(below) : s[i] = IF i <= 1 THEN <<b>>[i] ELSE below[i - 1]
  BY <1>1, ConcatProperties
<1>3. DOMAIN s = 1 .. 1 + Len(below) /\ DOMAIN below = 1 .. Len(below) /\ Len(below) \in Nat
  BY <1>2, LenProperties
<1>4. s[1] = b
  BY <1>2, <1>3
<1>5. \A i \in 1 .. Len(below) : i + 1 \in DOMAIN s /\ s[i + 1] = below[i]
  BY <1>2, <1>3
<1>6. \A i \in DOMAIN s : i = 1 \/ (i - 1 \in DOMAIN below /\ s[i] = below[i - 1])
  BY <1>2, <1>3
<1>7. 1 \in DOMAIN s
  BY <1>3
<1> HIDE DEF s
<1>8. Calm(s) => ~StatusPending(b) /\ Calm(below)
  BY <1>3, <1>4, <1>5, <1>7 DEF Calm
<1>9. ~StatusPending(b) /\ Calm(below) => Calm(s)
  BY <1>4, <1>6 DEF Calm
<1> QED BY <1>8, <1>9 DEF s

LEMMA CalmPop ==
  ASSUME NEW s \in Seq(Box), s # <<>>
  PROVE  Calm(s) <=> ~StatusPending(Head(s)) /\ Calm(Tail(s))
<1>1. Head(s) \in Box /\ Tail(s) \in Seq(Box) /\ s = <<Head(s)>> \o Tail(s)
  BY HeadTailProperties
<1> QED BY <1>1, CalmPush

LEMMA SettledDef == Settled <=> Quiet(replies, tmp) /\ Calm(boxes)
  BY DEF Settled, Calm

LEMMA SettledDefPrime == Settled' <=> Quiet(replies', tmp') /\ Calm(boxes')
  BY DEF Settled, Calm, Quiet, StatusPending

LEMMA StatusSettles ==
  ASSUME UpdateStatus(replies', tmp')
  PROVE  SettledStep
  BY SettledDefPrime DEF UpdateStatus, SettledStep

LEMMA DownloadUnsettles ==
  ASSUME NEW rs \in [Request -> Reply \cup {None}], NEW r \in Reply, Download(rs, r)
  PROVE  ~Quiet(replies', tmp') /\ SettledStep
<1>1. PICK q \in Request : replies' = [rs EXCEPT ![q] = r]
  BY DEF Download, Free
<1>2. replies'[q] # None
  BY <1>1, ReplyAssumption
<1>3. ~Quiet(replies', tmp')
  BY <1>2 DEF Quiet
<1> QED BY <1>3, SettledDefPrime DEF SettledStep

LEMMA PendingUnsettles ==
  ASSUME NEW b \in Box, NEW below \in Seq(Box), Show(b, below), StatusPending(b)
  PROVE  SettledStep
  BY CalmPush, SettledDefPrime DEF Show, SettledStep

\* With the same work left, a step that pushes a box, or answers one that does not
\* update the status, settles nothing.
LEMMA SameSettled ==
  ASSUME UNCHANGED <<replies, tmp>>, Calm(boxes') => Calm(boxes)
  PROVE  SettledStep
<1>1. Settled' => Settled
  BY SettledDef, SettledDefPrime DEF Quiet
<1> QED BY <1>1 DEF SettledStep

LEMMA BoxKinds ==
  /\ Ask("notice", {}) \in Box /\ StatusPending(Ask("notice", {}))
  /\ Ask("badCatalog", {}) \in Box /\ StatusPending(Ask("badCatalog", {}))
  /\ \A D \in SUBSET Docset : /\ Ask("indexFailed", D) \in Box
                              /\ StatusPending(Ask("indexFailed", D))
  /\ \A r \in Reply : r.type = "Docset" => /\ AskFor("notRemoved", r) \in Box
                                           /\ StatusPending(AskFor("notRemoved", r))
  /\ \A r \in Reply : /\ AskFor("downloadFailed", r) \in Box
                      /\ StatusPending(AskFor("downloadFailed", r))
<1>1. \A D \in SUBSET Docset : /\ Ask("notice", D) \in Box
                               /\ Ask("badCatalog", D) \in Box
                               /\ Ask("indexFailed", D) \in Box
  BY AskType
<1>2. \A r \in Reply : /\ r # None
                       /\ AskFor("downloadFailed", r) \in Box
                       /\ r.type = "Docset" => AskFor("notRemoved", r) \in Box
  BY AskForType, ReplyAssumption
<1> QED BY <1>1, <1>2 DEF StatusPending, Ask, AskFor

LEMMA UserSettledStep == IInv /\ Idle /\ User => SettledStep
<1> SUFFICES ASSUME IInv, Idle, User PROVE SettledStep
  OBVIOUS
<1>1. CASE OpenDialog
  <2>1. Settled
    BY <1>1, SettledDef DEF OpenDialog, Idle, Calm
  <2> QED BY <2>1 DEF SettledStep
<1>2. CASE CloseDialog \/ Quit
  BY <1>2, GoneIsIdle DEF CloseDialog, Quit, ProcessEnds, SettledStep
<1>3. CASE Start
  BY <1>3, SameSettled DEF Start, dialogVars
<1>4. replies \in [Request -> Reply \cup {None}]
  BY DEF IInv, DialogOK
<1>5. ASSUME NEW d \in Docset, DownloadAvailable(d) \/ UpdateInstalled(d)
      PROVE  SettledStep
  <2>1. UNCHANGED <<tmp, boxes>> /\ \E pr : DownloadDashDocset(d, pr)
    BY <1>5 DEF DownloadAvailable, UpdateInstalled
  <2>2. CASE UNCHANGED replies
    BY <2>1, <2>2, SameSettled
  <2>3. CASE Download(replies, NewReply("Docset", d,
                                 IF d \in available THEN "own" ELSE "none"))
    <3>1. NewReply("Docset", d, IF d \in available THEN "own" ELSE "none") \in Reply
      BY NewReplyType
    <3> QED BY <1>4, <2>3, <3>1, DownloadUnsettles
  <2> QED BY <2>1, <2>2, <2>3 DEF DownloadDashDocset
<1>6. ASSUME NEW d \in Docset, AddDashFeed(d)
      PROVE  SettledStep
  <2>1. NewReply("DashFeed", d, "unset") \in Reply
    BY NewReplyType
  <2> QED BY <1>4, <1>6, <2>1, DownloadUnsettles DEF AddDashFeed
<1>7. CASE Refresh
  <2>1. NewReply("DocsetList", None, "unset") \in Reply
    BY NewReplyType
  <2> QED BY <1>4, <1>7, <2>1, DownloadUnsettles DEF Refresh
<1>8. CASE CancelDownloads
  <2>1. UpdateStatus(replies', tmp')
    BY <1>8 DEF CancelDownloads
  <2> QED BY <2>1, StatusSettles
<1>9. ASSUME NEW S \in SUBSET loaded, AskRemove(S)
      PROVE  SettledStep
  <2> DEFINE b == [Ask("confirmRemove", S) EXCEPT !.rows = {RowOf(d) : d \in S}]
  <2>1. UNCHANGED <<replies, tmp>> /\ boxes' = <<b>> \o boxes
    BY <1>9 DEF AskRemove, Show
  <2>2. {RowOf(d) : d \in S} \in SUBSET Nat /\ S \in SUBSET Docset
    BY RowOfType DEF IInv, RegistryOK
  <2>3. b \in Box /\ boxes \in Seq(Box)
    BY <2>2 DEF Ask, Box, IInv, DialogOK
  <2> HIDE DEF b
  <2> QED BY <2>1, <2>3, CalmPush, SameSettled
<1> QED BY <1>1, <1>2, <1>3, <1>5, <1>6, <1>7, <1>8, <1>9 DEF User

\* Answering a box that updates no status, perhaps with another box in its place.
LEMMA PopSettled ==
  ASSUME IInv, boxes # <<>>, ~StatusPending(Head(boxes)), UNCHANGED <<replies, tmp>>,
         boxes' = Below \/ (\E b \in Box : boxes' = <<b>> \o Below)
  PROVE  SettledStep
<1>1. Below \in Seq(Box) /\ boxes \in Seq(Box)
  BY TopType DEF IInv, DialogOK
<1>2. Calm(boxes) <=> Calm(Below)
  BY <1>1, CalmPop DEF Below
<1>3. Calm(boxes') => Calm(Below)
  BY <1>1, CalmPush
<1> QED BY <1>2, <1>3, SameSettled

LEMMA RemoveDocsetsSettled ==
  ASSUME IInv, boxes # <<>>, ~StatusPending(Head(boxes)), NEW N, RemoveDocsets(N, Below)
  PROVE  SettledStep
<1> DEFINE M == N \cap loaded
<1>1. UNCHANGED <<replies, tmp>>
  BY DEF RemoveDocsets
<1>2. ASSUME NEW D \in SUBSET Docset, Show(Ask("notRemoved", D), Below)
      PROVE  \E b \in Box : boxes' = <<b>> \o Below
  BY <1>2, AskType DEF Show
<1>3. \A D : M \ D \in SUBSET Docset
  BY DEF IInv, RegistryOK
<1>4. boxes' = Below \/ \E b \in Box : boxes' = <<b>> \o Below
  BY <1>2, <1>3 DEF RemoveDocsets
<1> QED BY <1>1, <1>4, PopSettled

LEMMA StoreArchiveSettled ==
  ASSUME NEW r \in Reply, r.docset \in Docset,
         NEW rs \in [Request -> Reply \cup {None}], NEW below \in Seq(Box),
         StoreArchive(r, rs, below)
  PROVE  SettledStep
<1> DEFINE d == r.docset
<1>1. NewReply("TarixIndex", d, "own") \in Reply
  BY NewReplyType
<1>2. CASE Show(Ask("notice", {}), below)
  BY <1>2, BoxKinds, PendingUnsettles
<1>3. CASE Download(rs, NewReply("TarixIndex", d, "own"))
  BY <1>1, <1>3, DownloadUnsettles
<1>4. CASE replies' = rs /\ UpdateStatus(rs, tmp')
  BY <1>4, StatusSettles
<1> QED BY <1>2, <1>3, <1>4 DEF StoreArchive

LEMMA AnswerSettledStep == IInv /\ Answer => SettledStep
<1> SUFFICES ASSUME IInv, Answer PROVE SettledStep
  OBVIOUS
<1>1. replies \in [Request -> Reply \cup {None}]
  BY DEF IInv, DialogOK
<1>2. CASE AnswerDownloadFailed
  <2> DEFINE r == Head(boxes).reply
  <2>1. r \in Reply
    BY <1>2, TopBoxType DEF AnswerDownloadFailed
  <2>2. [r EXCEPT !.into = None] \in Reply
    BY <2>1, ReplyInto
  <2>3. CASE Download(replies, [r EXCEPT !.into = None])
    BY <1>1, <2>2, <2>3, DownloadUnsettles
  <2>4. CASE UNCHANGED replies /\ UpdateStatus(replies, tmp)
    BY <1>2, <2>4, StatusSettles DEF AnswerDownloadFailed
  <2> QED BY <1>2, <2>3, <2>4 DEF AnswerDownloadFailed
<1>3. CASE AnswerIndexFailed
  <2>1. \A d \in Head(boxes).about :
          NewReply("TarixIndex", d, IF d \in available THEN "own" ELSE "none") \in Reply
    BY <1>3, TopBoxType, NewReplyType DEF AnswerIndexFailed
  <2>2. ASSUME NEW d \in Head(boxes).about,
               Download(replies, NewReply("TarixIndex", d,
                                   IF d \in available THEN "own" ELSE "none"))
        PROVE  SettledStep
    BY <1>1, <2>1, <2>2, DownloadUnsettles
  <2>3. CASE UNCHANGED replies /\ UpdateStatus(replies, tmp')
    BY <2>3, StatusSettles
  <2> QED BY <1>3, <2>2, <2>3 DEF AnswerIndexFailed
<1>4. CASE AnswerBadCatalog
  <2>1. NewReply("DocsetList", None, "unset") \in Reply
    BY NewReplyType
  <2>2. CASE Download(replies, NewReply("DocsetList", None, "unset"))
    BY <1>1, <2>1, <2>2, DownloadUnsettles
  <2>3. CASE UNCHANGED replies /\ UpdateStatus(replies, tmp)
    BY <1>4, <2>3, StatusSettles DEF AnswerBadCatalog
  <2> QED BY <1>4, <2>2, <2>3 DEF AnswerBadCatalog
<1>5. CASE DismissNotice
  BY <1>5, StatusSettles DEF DismissNotice
<1>6. CASE DismissExtractFailed
  BY <1>6 DEF SettledStep
<1>7. CASE DismissNotRemoved
  <2> DEFINE b == Head(boxes)
  <2>1. /\ Below \in Seq(Box) /\ boxes # <<>> /\ b.kind = "notRemoved"
        /\ b.reply \in Reply \cup {None}
        /\ b.reply = None \/ b.reply.type = "Docset"
    BY <1>7, TopBoxType DEF DismissNotRemoved, Top
  <2>2. CASE b.reply = None
    <3>1. ~StatusPending(b)
      BY <2>1, <2>2 DEF StatusPending
    <3> QED BY <1>7, <2>1, <2>2, <3>1, RemoveDocsetsSettled DEF DismissNotRemoved
  <2>3. CASE b.reply # None
    <3>1. b.reply \in Reply /\ b.reply.docset \in Docset
      BY <2>1, <2>3, ReplyFields
    <3> QED BY <1>1, <1>7, <2>1, <2>3, <3>1, StoreArchiveSettled DEF DismissNotRemoved
  <2> QED BY <2>2, <2>3
<1>8. CASE ConfirmRemove
  <2>1. boxes # <<>> /\ ~StatusPending(Head(boxes))
    BY <1>8 DEF ConfirmRemove, Top, StatusPending
  <2>2. CASE ProcessEnds
    BY <2>2, GoneIsIdle DEF ProcessEnds, SettledStep
  <2>3. CASE \E N : RemoveDocsets(N, Below)
    BY <2>1, <2>3, RemoveDocsetsSettled
  <2> QED BY <1>8, <2>2, <2>3 DEF ConfirmRemove
<1>9. CASE DeclineRemove
  <2>1. boxes # <<>> /\ ~StatusPending(Head(boxes))
    BY <1>9 DEF DeclineRemove, Top, StatusPending
  <2> QED BY <1>9, <2>1, PopSettled DEF DeclineRemove
<1> QED BY <1>2, <1>3, <1>4, <1>5, <1>6, <1>7, <1>8, <1>9 DEF Answer

LEMMA NetworkSettledStep == IInv /\ Network => SettledStep
<1> SUFFICES ASSUME IInv, NEW q \in Request,
                    \/ DownloadProgress(q) \/ DownloadFails(q) \/ CatalogArrives(q)
                    \/ FeedArrives(q) \/ DocsetArrives(q) \/ IndexArrives(q)
             PROVE  SettledStep
  BY DEF Network
<1> DEFINE r == replies[q]
           d == r.docset
<1>1. r # None
  BY DEF DownloadProgress, DownloadFails, CatalogArrives, FeedArrives, DocsetArrives,
         IndexArrives, Arriving
<1>2. r \in Reply /\ (r.type # "DocsetList" => d \in Docset)
  BY <1>1, ArrivingType, ReplyFields DEF IInv
<1>3. Without(q) \in [Request -> Reply \cup {None}] /\ boxes \in Seq(Box)
  BY WithoutType DEF IInv, DialogOK
<1>4. CASE replies' = Without(q) /\ UNCHANGED tmp /\ UpdateStatus(Without(q), tmp)
  BY <1>4, StatusSettles
<1>5. ASSUME NEW b \in Box, StatusPending(b), Show(b, boxes)
      PROVE  SettledStep
  BY <1>3, <1>5, PendingUnsettles
<1>6. CASE DownloadProgress(q)
  <2>1. PICK f \in File : replies' = [replies EXCEPT ![q] = [r EXCEPT !.into = f]]
    BY <1>2, <1>6, TmpForType DEF DownloadProgress, Arriving, IInv
  <2>2. [r EXCEPT !.into = f] \in Reply
    BY <1>2, ReplyInto
  <2>3. replies'[q] # None
    BY <2>1, <2>2, ReplyAssumption DEF IInv, DialogOK
  <2> QED BY <2>3, SettledDefPrime DEF Quiet, SettledStep
<1>7. CASE DownloadFails(q)
  <2> DEFINE row == IF d \in available THEN "own" ELSE "none"
             again == [NewReply("TarixIndex", d, row) EXCEPT !.attempt = r.attempt + 1]
  <2>1. CASE /\ r.type = "TarixIndex" /\ r.attempt < MaxTarixIndexRetries
             /\ Download(Without(q), again)
    <3>1. NewReply("TarixIndex", d, row) \in Reply
      BY <1>2, <2>1, NewReplyType
    <3>2. r.attempt + 1 \in 0..MaxTarixIndexRetries
      BY <1>2, <2>1, ReplyFields, LimitAssumption
    <3>3. again \in Reply
      BY <3>1, <3>2, NextAttempt
    <3> QED BY <1>3, <2>1, <3>3, DownloadUnsettles
  <2>2. CASE r.type = "TarixIndex" /\ Show(Ask("indexFailed", {d}), boxes)
    <3>1. {d} \in SUBSET Docset
      BY <1>2, <2>2
    <3> QED BY <1>5, <2>2, <3>1, BoxKinds
  <2>3. CASE Show(AskFor("downloadFailed", r), boxes)
    BY <1>2, <1>5, <2>3, BoxKinds
  <2> QED BY <1>7, <2>1, <2>2, <2>3 DEF DownloadFails
<1>8. CASE CatalogArrives(q)
  BY <1>4, <1>5, <1>8, BoxKinds DEF CatalogArrives
<1>9. CASE FeedArrives(q)
  <2>1. d \in Docset
    BY <1>2, <1>9 DEF FeedArrives, Arriving
  <2>2. NewReply("Docset", d, "unset") \in Reply
    BY <2>1, NewReplyType
  <2>3. CASE Download(Without(q), NewReply("Docset", d, "unset"))
    BY <1>3, <2>2, <2>3, DownloadUnsettles
  <2> QED BY <1>4, <1>5, <1>9, <2>3, BoxKinds DEF FeedArrives
<1>10. CASE DocsetArrives(q)
  <2>1. d \in Docset /\ r.type = "Docset"
    BY <1>2, <1>10 DEF DocsetArrives, Arriving
  <2>2. CASE StoreArchive(r, Without(q), boxes)
    BY <1>2, <1>3, <2>1, <2>2, StoreArchiveSettled
  <2>3. CASE Show(AskFor("notRemoved", r), boxes)
    BY <1>2, <1>5, <2>1, <2>3, BoxKinds
  <2> QED BY <1>10, <2>2, <2>3 DEF DocsetArrives
<1>11. CASE IndexArrives(q)
  BY <1>4, <1>11 DEF IndexArrives
<1> QED BY <1>6, <1>7, <1>8, <1>9, <1>10, <1>11

LEMMA SignalSettledStep == IInv /\ Signal => SettledStep
<1> SUFFICES ASSUME IInv, Signal PROVE SettledStep
  OBVIOUS
<1>1. CASE ExtractionCompleted
  <2>1. UpdateStatus(replies', tmp')
    BY <1>1 DEF ExtractionCompleted
  <2> QED BY <2>1, StatusSettles
<1>2. CASE ExtractionError
  <2> DEFINE b == Ask("extractFailed", Named(Head(signals).file))
  <2>1. UNCHANGED <<replies, tmp>> /\ boxes' = <<b>> \o boxes
    BY <1>2 DEF ExtractionError, Show
  <2>2. b \in Box /\ boxes \in Seq(Box)
    BY AskType DEF Named, IInv, DialogOK
  <2> HIDE DEF b
  <2> QED BY <2>1, <2>2, CalmPush, SameSettled
<1> QED BY <1>1, <1>2 DEF Signal

LEMMA SettledNext == IInv /\ Idle /\ [Next]_vars => [SettledStep]_vars
<1>1. ExtractorThread => SettledStep
  BY SameSettled DEF ExtractorThread, dialogVars
<1> QED BY <1>1, UserSettledStep, AnswerSettledStep, NetworkSettledStep, SignalSettledStep DEF Next

\* For all docsets, archives and replies: the step that ends the last piece of work
\* gives the controls back, unless it is the end of a failed extraction.
THEOREM UnlocksWhenSettled == Spec => UnlockedWhenSettled
  BY Invariance, IdleInvariance, SettledNext, PTL DEF Spec, UnlockedWhenSettled, SettledStep
=============================================================================
