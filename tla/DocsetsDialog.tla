---------------------------- MODULE DocsetsDialog ----------------------------
(****************************************************************************)
(* Installing, updating and removing docsets: the Docset Library dialog     *)
(* (src/src/libs/ui/docsetsdialog.cpp) with its network replies, the        *)
(* extractor thread, the docset registry and the docset directory.          *)
(*                                                                          *)
(* The dialog runs on the GUI thread, so one handler is one action, except  *)
(* where it shows a modal message box: QMessageBox::exec runs a nested      *)
(* event loop in which other replies and extractor signals are handled, but *)
(* no input reaches the dialog.  A handler with a box is therefore split at *)
(* the box, which waits on the stack `boxes'; only the top one can be       *)
(* answered.                                                                *)
(****************************************************************************)
EXTENDS Extractor

CONSTANTS Request,     \* slots for network replies (bounds those in flight)
          Catalog,     \* docsets the catalog lists
          Tarix,       \* catalog docsets published with a tarix index
          Feeds,       \* docsets that have a feed of their own
          BadUrl,      \* docsets whose metadata has no usable URL
          Restarts,    \* whether the run goes on after the process has ended
          MaxTarixIndexRetries

\* Docset names are numbers: the list of installed docsets is sorted by name.
ASSUME DocsetAssumption == Docset \subseteq Nat /\ IsFiniteSet(Docset) /\ None \notin Nat
ASSUME OfferAssumption  == /\ Catalog \subseteq Docset
                           /\ Tarix \subseteq Docset
                           /\ Feeds \subseteq Docset
                           /\ BadUrl \subseteq Docset
ASSUME LimitAssumption  == /\ MaxTarixIndexRetries \in Nat
                           /\ None \notin Request
                           /\ Restarts \in BOOLEAN

VARIABLES ui,         \* "dead" (no process), "closed" or "open" (the dialog)
          loaded,     \* docsets in the registry
          updatable,  \* ... whose update is known
          replies,    \* m_replies: the replies in flight
          boxes,      \* the stack of message boxes, top first
          tmp,        \* m_tmpFiles: the archive of each docset, or None
          available,  \* m_availableDocsets
          userFeeds,  \* m_userFeeds
          progress,   \* items of the available list that show progress
          controls    \* Close shown and controls enabled, or Cancel shown

registryVars == <<loaded, updatable>>
dialogVars   == <<replies, boxes, tmp, available, userFeeds, progress, controls>>
vars         == <<extractorVars, ui, registryVars, dialogVars>>

\* row: the reply's list item - "own" the docset's, "none" row -1, "unset" no
\* such property, which reads as row 0.  into: the archive the reply has written
\* to.  check is history: the reply is an update check of an installed docset.
Reply ==
  {r \in [type    : {"DocsetList", "DashFeed", "Docset", "TarixIndex"},
          docset  : Docset \cup {None},
          attempt : 0..MaxTarixIndexRetries,
          row     : {"own", "none", "unset"},
          into    : File \cup {None},
          check   : BOOLEAN] :
     r.type # "DocsetList" => r.docset \in Docset}

ASSUME ReplyAssumption == None \notin Reply

\* about: the docsets the box speaks of; rows: the rows selected for removal;
\* reply: the reply whose handling waits for the box.
Box ==
  {b \in [kind  : {"downloadFailed", "indexFailed", "badCatalog", "notice",
                   "notRemoved", "extractFailed", "confirmRemove"},
          about : SUBSET Docset,
          rows  : SUBSET Nat,
          reply : Reply \cup {None}] :
     /\ b.kind = "downloadFailed" => b.reply # None
     /\ b.kind = "notRemoved" => b.reply = None \/ b.reply.type = "Docset"}

NewReply(type, d, row) ==
  [type |-> type, docset |-> d, attempt |-> 0, row |-> row,
   into |-> None, check |-> FALSE]

Ask(kind, about)  == [kind |-> kind, about |-> about, rows |-> {}, reply |-> None]
AskFor(kind, r)   == [kind |-> kind, about |-> {}, rows |-> {}, reply |-> r]

------------------------------------------------------------------------------
(* Helpers *)

Free(rs)       == {q \in Request : rs[q] = None}
Without(q)     == [replies EXCEPT ![q] = None]
Show(b, below) == boxes' = <<b>> \o below
NoBox          == boxes = <<>>

\* enableControls and disableControls: with nothing in flight the controls come
\* back; download() takes them away.
Quiet(rs, ts) == (\A q \in Request : rs[q] = None) /\ (\A d \in Docset : ts[d] = None)
\* Mutants of UpdateStatus: it forgets the archives; it looks before the reply or
\* the archive is taken off.
UpdateStatusForReplies(rs, ts) == controls' = (controls \/ \A q \in Request : rs[q] = None)
UpdateStatusTooEarly(rs, ts)   == controls' = (controls \/ Quiet(replies, tmp))

UpdateStatus(rs, ts) == controls' = (controls \/ Quiet(rs, ts))

Download(rs, r) ==
  /\ \E q \in Free(rs) : replies' = [rs EXCEPT ![q] = r]
  /\ controls' = FALSE

\* docsetTemporaryFile: the docset's archive, or a new one.  A name still in use
\* somewhere is not given out again.
FilesInUse ==
  JobFiles \cup {tmp[d] : d \in Docset}
    \cup {replies[q].into : q \in {p \in Request : replies[p] # None}}
    \cup {boxes[i].reply.into : i \in {j \in DOMAIN boxes : boxes[j].reply # None}}

TmpFor(d) ==
  IF tmp[d] # None THEN {tmp[d]}
  ELSE {f \in File : file[f] = "none" /\ f \notin FilesInUse}

\* Appending a reply's bytes; writing to a closed file fails and is ignored.
Appended(r, f) ==
  CASE file[f] \in Closed                      -> file[f]
    [] file[f] = "none" /\ r.into = None       -> "part"
    [] file[f] = "part" /\ r.into = f          -> "part"
    [] OTHER                                   -> "mixed"

\* ... and closing it after the last byte.
Sealed(r, f) ==
  CASE Appended(r, f) = "part"  -> "whole"
    [] Appended(r, f) = "mixed" -> "corrupt"
    [] OTHER                    -> Appended(r, f)

\* Deleting the temporary files of some docsets.
DropTmp(D) ==
  /\ tmp'  = [d \in Docset |-> IF d \in D THEN None ELSE tmp[d]]
  /\ file' = [f \in File |-> IF \E d \in D : tmp[d] = f THEN "none" ELSE file[f]]

\* The list item a reply points at, as a set of docsets.
ItemOf(r) ==
  CASE r.row = "own"   -> {r.docset}
    [] r.row = "unset" -> {d \in available : \A e \in available : d <= e}
    [] OTHER           -> {}

\* The installed list: a docset's row, and the docset in a row (ListModel).
RowOf(d)     == Cardinality({e \in loaded : e < d})
DocsetsIn(R) == {d \in loaded : RowOf(d) \in R}
------------------------------------------------------------------------------
(* Starting, ending and opening *)

Init ==
  /\ ui = "closed"
  /\ loaded \in SUBSET Docset
  /\ ExtractorInit(loaded)
  /\ updatable = {}
  /\ replies = [q \in Request |-> None]
  /\ boxes = <<>>
  /\ tmp = [d \in Docset |-> None]
  /\ available = {} /\ userFeeds = {} /\ progress = {}
  /\ controls = TRUE

DialogGone ==
  /\ replies' = [q \in Request |-> None]
  /\ boxes' = <<>>
  /\ DropTmp(Docset)
  /\ available' = {} /\ userFeeds' = {} /\ progress' = {}
  /\ controls' = TRUE
  /\ signals' = <<>>

\* The process ends, by quitting (the running job is waited for, the posted ones
\* are dropped) or by a crash.
ProcessEnds ==
  /\ ui' = "dead"
  /\ loaded' = {} /\ updatable' = {}
  /\ DialogGone
  /\ queue' = <<>>
  /\ running' = None
  /\ IF running # None /\ running.body = "whole"
       THEN \E t \in {"partial", "full"} : disk' = [disk EXCEPT ![running.docset] = t]
       ELSE UNCHANGED disk

Quit == ui # "dead" /\ ProcessEnds

\* addDocsetsFromFolder takes every directory whose index database is in place,
\* which those left behind by an unfinished extraction may be.
Start ==
  /\ Restarts
  /\ ui = "dead"
  /\ ui' = "closed"
  /\ \E P \in SUBSET {d \in Docset : disk[d] = "partial"} :
       loaded' = P \cup {d \in Docset : disk[d] = "full"}
  /\ UNCHANGED <<extractorVars, updatable, dialogVars>>

\* loadDocsetList: an update check for every docset installed from a feed, and
\* the catalog, from its cache or by a request.
OpenDialog ==
  /\ ui = "closed"
  /\ ui' = "open"
  /\ LET Checked == loaded \cap Feeds
         Check(d) == [NewReply("DashFeed", d, "unset") EXCEPT !.check = TRUE]
     IN \E fresh \in BOOLEAN, slot \in [Checked \cup {None} -> Request] :
          /\ \A d, e \in DOMAIN slot : d # e => slot[d] # slot[e]
          /\ replies' = [q \in Request |->
               IF \E d \in Checked : slot[d] = q
                 THEN Check(CHOOSE d \in Checked : slot[d] = q)
               ELSE IF ~fresh /\ slot[None] = q
                 THEN NewReply("DocsetList", None, "unset")
               ELSE None]
          /\ available' = IF fresh THEN Catalog ELSE {}
          /\ updatable' \in IF fresh
               THEN {updatable \cup S : S \in SUBSET (loaded \cap Catalog)}
               ELSE {updatable}
          /\ controls' = (fresh /\ Checked = {})
  /\ UNCHANGED <<extractorVars, loaded, boxes, tmp, userFeeds, progress>>

\* Escape or the window's close button: nothing asks whether work is in flight.
\* The replies run on without a receiver, the temporary files go.
CloseDialog ==
  /\ ui = "open"
  /\ NoBox
  /\ ui' = "closed"
  /\ DialogGone
  /\ UNCHANGED <<disk, queue, running, registryVars>>

------------------------------------------------------------------------------
(* What the user does in the dialog *)

Usable == ui = "open" /\ NoBox

\* Mutant of DownloadDashDocset: only the replies are looked at, not m_tmpFiles.
DownloadUnlessDownloading(d, pr) ==
  /\ progress' = pr
  /\ IF /\ d \in available \cup userFeeds
        /\ \A q \in Request : replies[q] # None =>
             ~(replies[q].type = "Docset" /\ replies[q].docset = d)
       THEN Download(replies, NewReply("Docset", d, "none"))
       ELSE UNCHANGED <<replies, controls>>

\* downloadDashDocset, for a caller that leaves the progress items as `pr'.
DownloadDashDocset(d, pr) ==
  LET known == d \in available \cup userFeeds
      busy  == \/ tmp[d] # None
               \/ \E q \in Request : /\ replies[q] # None
                                     /\ replies[q].type = "Docset"
                                     /\ replies[q].docset = d
      row   == IF d \in available THEN "own" ELSE "none"
  IN \/ /\ known /\ ~busy /\ d \notin BadUrl
        /\ Download(replies, NewReply("Docset", d, row))
        /\ progress' = pr
     \/ /\ known /\ ~busy /\ d \in BadUrl
        /\ progress' = pr \ {d}
        /\ UNCHANGED <<replies, controls>>
     \/ /\ ~known \/ busy
        /\ progress' = pr
        /\ UNCHANGED <<replies, controls>>

\* An item of the available list is activated, or is one of the selected ones
\* the Download button walks over.
DownloadAvailable(d) ==
  /\ Usable
  /\ d \in available \ loaded
  /\ d \notin progress
  /\ DownloadDashDocset(d, progress \cup {d})
  /\ UNCHANGED <<extractorVars, ui, registryVars, boxes, tmp, available, userFeeds>>

\* The same for an installed docset with an update; selecting it enables the
\* Update button also while downloads run.
UpdateInstalled(d) ==
  /\ Usable
  /\ d \in loaded \cap updatable
  /\ DownloadDashDocset(d, progress)
  /\ UNCHANGED <<extractorVars, ui, registryVars, boxes, tmp, available, userFeeds>>

AddDashFeed(d) ==
  /\ Usable
  /\ controls
  /\ d \in Feeds
  /\ Download(replies, NewReply("DashFeed", d, "unset"))
  /\ UNCHANGED <<extractorVars, ui, registryVars, boxes, tmp, available, userFeeds,
                 progress>>

Refresh ==
  /\ Usable
  /\ controls
  /\ Download(replies, NewReply("DocsetList", None, "unset"))
  /\ UNCHANGED <<extractorVars, ui, registryVars, boxes, tmp, available, userFeeds,
                 progress>>

\* cancelDownloads: aborting a reply runs its handler at once, which takes it off
\* the list.
CancelDownloads ==
  /\ Usable
  /\ ~controls
  /\ LET Live == {replies[q] : q \in Request} \ {None}
     IN /\ DropTmp({r.docset : r \in {l \in Live : l.type \in {"Docset", "TarixIndex"}}})
        /\ progress' = progress \ UNION {ItemOf(r) : r \in Live}
  /\ replies' = [q \in Request |-> None]
  /\ UpdateStatus([q \in Request |-> None], tmp')
  /\ UNCHANGED <<disk, queue, running, signals, ui, registryVars, boxes, available,
                 userFeeds>>

\* removeSelectedDocsets up to the question: it keeps row numbers.
AskRemove(S) ==
  /\ Usable
  /\ S # {}
  /\ Show([Ask("confirmRemove", S) EXCEPT !.rows = {RowOf(d) : d \in S}], boxes)
  /\ UNCHANGED <<extractorVars, ui, registryVars, replies, tmp, available, userFeeds,
                 progress, controls>>
------------------------------------------------------------------------------
(* Network replies (downloadProgress, downloadCompleted) *)

Arriving(q, type) == ui = "open" /\ replies[q] # None /\ replies[q].type = type

\* Enough bytes have come in: they move from the reply to the archive.
DownloadProgress(q) ==
  /\ Arriving(q, "Docset")
  /\ LET r == replies[q] IN
       \E f \in TmpFor(r.docset) :
         /\ tmp' = [tmp EXCEPT ![r.docset] = f]
         /\ file' = [file EXCEPT ![f] = Appended(r, f)]
         /\ replies' = [replies EXCEPT ![q].into = f]
  /\ UNCHANGED <<disk, queue, running, signals, ui, registryVars, boxes, available,
                 userFeeds, progress, controls>>

\* The reply failed.  A tarix index is asked for again a few times before the
\* user is; anything else is put to the user at once.
DownloadFails(q) ==
  /\ ui = "open" /\ replies[q] # None
  /\ LET r == replies[q] IN
     \/ /\ r.type = "TarixIndex" /\ r.attempt < MaxTarixIndexRetries
        /\ LET row == IF r.docset \in available THEN "own" ELSE "none"
           IN Download(Without(q), [NewReply("TarixIndex", r.docset, row)
                                      EXCEPT !.attempt = r.attempt + 1])
        /\ UNCHANGED boxes
     \/ /\ r.type = "TarixIndex" /\ r.attempt = MaxTarixIndexRetries
        /\ Show(Ask("indexFailed", {r.docset}), boxes)
        /\ replies' = Without(q)
        /\ UNCHANGED controls
     \/ /\ r.type # "TarixIndex"
        /\ Show(AskFor("downloadFailed", r), boxes)
        /\ replies' = Without(q)
        /\ UNCHANGED controls
  /\ UNCHANGED <<extractorVars, ui, registryVars, tmp, available, userFeeds, progress>>

\* processDocsetListReply and processDocsetList: the list is emptied and filled
\* again, without its progress bars; updates are looked for; or the reply is no
\* catalog; or it is one that cannot be cached, which the user is told.
CatalogArrives(q) ==
  /\ Arriving(q, "DocsetList")
  /\ replies' = Without(q)
  /\ \/ /\ available' = Catalog
        /\ progress' = {}
        /\ \E S \in SUBSET (loaded \cap Catalog) : updatable' = updatable \cup S
        /\ \/ UNCHANGED boxes /\ UpdateStatus(Without(q), tmp)
           \/ Show(Ask("notice", {}), boxes) /\ UNCHANGED controls
     \/ /\ Show(Ask("badCatalog", {}), boxes)
        /\ UNCHANGED <<available, progress, updatable, controls>>
  /\ UNCHANGED <<extractorVars, ui, loaded, tmp, userFeeds>>

\* A feed of a docset that is not installed starts its download.
FeedArrives(q) ==
  /\ Arriving(q, "DashFeed")
  /\ LET d == replies[q].docset IN
     \/ /\ Show(Ask("notice", {}), boxes)
        /\ replies' = Without(q)
        /\ UNCHANGED <<updatable, userFeeds, controls>>
     \/ /\ userFeeds' = userFeeds \cup {d}
        /\ d \notin loaded
        /\ Download(Without(q), NewReply("Docset", d, "unset"))
        /\ UNCHANGED <<updatable, boxes>>
     \/ /\ userFeeds' = userFeeds \cup {d}
        /\ d \in loaded
        /\ \E newer \in BOOLEAN :
             updatable' = IF newer THEN updatable \cup {d} ELSE updatable
        /\ replies' = Without(q)
        /\ UpdateStatus(Without(q), tmp)
        /\ UNCHANGED boxes
  /\ UNCHANGED <<extractorVars, ui, loaded, tmp, available, progress>>

\* The rest of an archive goes to its file and the docset is installed, or its
\* tarix index is asked for first.  `rs' and `below' are the replies and boxes
\* the handler leaves.
StoreArchive(r, rs, below) ==
  LET d == r.docset IN
  /\ \/ /\ tmp[d] = None  \* no temporary file could be created
        /\ Show(Ask("notice", {}), below)
        /\ progress' = progress \ {d}
        /\ replies' = rs
        /\ UNCHANGED <<file, queue, tmp, controls>>
     \/ \E f \in TmpFor(d) :
          /\ tmp' = [tmp EXCEPT ![d] = f]
          /\ file' = [file EXCEPT ![f] = Sealed(r, f)]
          /\ boxes' = below
          /\ \/ /\ d \in Tarix \cap available
                /\ Download(rs, NewReply("TarixIndex", d, "own"))
                /\ UNCHANGED queue
             \/ /\ d \notin Tarix \cap available
                /\ Post(f, d, FALSE)
                /\ replies' = rs
                /\ UpdateStatus(rs, tmp')
          /\ UNCHANGED progress
  /\ UNCHANGED <<running, signals, ui, available, userFeeds>>

\* Mutant of DocsetArrives: the new version is extracted over the old one.
DocsetArrivesOverOld(q) ==
  /\ Arriving(q, "Docset")
  /\ StoreArchive(replies[q], Without(q), boxes)
  /\ UNCHANGED <<disk, registryVars>>

\* An installed docset is removed before its new version is stored.  Its
\* directory may fail to be renamed, which the user is told first.
DocsetArrives(q) ==
  /\ Arriving(q, "Docset")
  /\ LET r == replies[q]
         d == r.docset
         replaced == disk[d] # "absent" /\ d \in loaded
     IN \/ /\ ~replaced
           /\ StoreArchive(r, Without(q), boxes)
           /\ UNCHANGED <<disk, registryVars>>
        \/ /\ replaced
           /\ loaded' = loaded \ {d} /\ updatable' = updatable \ {d}
           /\ \/ /\ disk' = [disk EXCEPT ![d] = "absent"]
                 /\ StoreArchive(r, Without(q), boxes)
              \/ /\ Show(AskFor("notRemoved", r), boxes)
                 /\ replies' = Without(q)
                 /\ UNCHANGED <<extractorVars, ui, tmp, available, userFeeds,
                                progress, controls>>

\* Without its archive the installation has been cancelled.  A reply that is no
\* gzip file, or that cannot be stored, falls back to a full extraction.
IndexArrives(q) ==
  /\ Arriving(q, "TarixIndex")
  /\ replies' = Without(q)
  /\ LET d == replies[q].docset IN
       IF tmp[d] = None THEN UNCHANGED queue
       ELSE \E usable \in BOOLEAN : Post(tmp[d], d, usable)
  /\ UpdateStatus(Without(q), tmp)
  /\ UNCHANGED <<file, disk, running, signals, ui, registryVars, boxes, tmp, available,
                 userFeeds, progress>>

------------------------------------------------------------------------------
(* Extractor signals *)

\* Mutant of Named: the first archive, as if one extraction ran at a time.
FirstNamed(f) == {d \in Docset : tmp[d] # None /\ \A e \in Docset : tmp[e] # None => d <= e}

\* docsetNameForTmpFilePath, as a set: empty when no archive has the name.
Named(f) == {d \in Docset : tmp[d] = f}

Delivered == ui = "open" /\ signals # <<>>

\* The docset is loaded - if what is on disk is one - and its archive deleted.
ExtractionCompleted ==
  /\ Delivered
  /\ LET D == Named(Head(signals).file) IN
       /\ \E L \in SUBSET D :
            /\ \A d \in D : /\ disk[d] = "full" => d \in L
                            /\ disk[d] = "absent" => d \notin L
            /\ loaded' = loaded \cup L
            /\ updatable' = updatable \ L
       /\ progress' = progress \ D
       /\ DropTmp(D)
  /\ Head(signals).ok
  /\ signals' = Tail(signals)
  /\ UpdateStatus(replies, tmp')
  /\ UNCHANGED <<disk, queue, running, ui, replies, boxes, available, userFeeds>>

ExtractionError ==
  /\ Delivered
  /\ ~Head(signals).ok
  /\ Show(Ask("extractFailed", Named(Head(signals).file)), boxes)
  /\ signals' = Tail(signals)
  /\ UNCHANGED <<file, disk, queue, running, ui, registryVars, replies, tmp, available,
                 userFeeds, progress, controls>>
------------------------------------------------------------------------------
(* Answers to the top message box *)

Top(kind) == ui = "open" /\ boxes # <<>> /\ Head(boxes).kind = kind
Below     == Tail(boxes)

\* Retry sends the request again, with its properties; what the failed reply
\* wrote stays in the archive.  Cancel only hides the item's progress.
AnswerDownloadFailed ==
  /\ Top("downloadFailed")
  /\ LET r == Head(boxes).reply IN
     \/ /\ Download(replies, [r EXCEPT !.into = None])
        /\ UNCHANGED progress
     \/ /\ progress' = IF r.row = "own" THEN progress \ {r.docset} ELSE progress
        /\ UNCHANGED replies
        /\ UpdateStatus(replies, tmp)
  /\ boxes' = Below
  /\ UNCHANGED <<extractorVars, ui, registryVars, tmp, available, userFeeds>>

AnswerIndexFailed ==
  /\ Top("indexFailed")
  /\ \E d \in Head(boxes).about :
     \/ /\ Download(replies, NewReply("TarixIndex", d,
                               IF d \in available THEN "own" ELSE "none"))
        /\ UNCHANGED <<file, queue, tmp, progress>>
     \/ /\ IF tmp[d] = None THEN UNCHANGED queue ELSE Post(tmp[d], d, FALSE)
        /\ UNCHANGED <<file, tmp, replies, progress>>
        /\ UpdateStatus(replies, tmp')
     \/ /\ DropTmp({d})
        /\ progress' = progress \ {d}
        /\ UNCHANGED <<queue, replies>>
        /\ UpdateStatus(replies, tmp')
  /\ boxes' = Below
  /\ UNCHANGED <<disk, running, signals, ui, registryVars, available, userFeeds>>

AnswerBadCatalog ==
  /\ Top("badCatalog")
  /\ \/ Download(replies, NewReply("DocsetList", None, "unset"))
     \/ UNCHANGED replies /\ UpdateStatus(replies, tmp)
  /\ boxes' = Below
  /\ UNCHANGED <<extractorVars, ui, registryVars, tmp, available, userFeeds, progress>>

DismissNotice ==
  /\ Top("notice")
  /\ boxes' = Below
  /\ UNCHANGED <<extractorVars, ui, registryVars, replies, tmp, available, userFeeds,
                 progress>>
  /\ UpdateStatus(replies, tmp)

\* The item's progress and the archive go; the status is not updated.
DismissExtractFailed ==
  /\ Top("extractFailed")
  /\ boxes' = Below
  /\ progress' = progress \ Head(boxes).about
  /\ DropTmp(Head(boxes).about)
  /\ UNCHANGED <<disk, queue, running, signals, ui, registryVars, replies, available,
                 userFeeds, controls>>

\* Mutant of RemoveDocsets: the registry keeps the docset.
RemoveFromDiskOnly(N, below) ==
  /\ disk' = [d \in Docset |-> IF d \in N THEN "absent" ELSE disk[d]]
  /\ boxes' = below
  /\ UNCHANGED <<file, queue, running, signals, ui, registryVars, replies, tmp,
                 available, userFeeds, progress, controls>>

\* removeDocset for the names in N that are installed, in turn, up to the first
\* whose directory cannot be renamed; that one is unloaded all the same.
RemoveDocsets(N, below) ==
  LET M == N \cap loaded
      Gone(D) == disk' = [d \in Docset |-> IF d \in D THEN "absent" ELSE disk[d]]
  IN /\ \/ /\ Gone(M)
           /\ loaded' = loaded \ M
           /\ updatable' = updatable \ M
           /\ boxes' = below
        \/ \E d \in M : \E D \in SUBSET (M \ {d}) :
             /\ Gone(D)
             /\ loaded' = loaded \ (D \cup {d})
             /\ updatable' = updatable \ (D \cup {d})
             /\ Show(Ask("notRemoved", M \ (D \cup {d})), below)
     /\ UNCHANGED <<file, queue, running, signals, ui, replies, tmp, available,
                    userFeeds, progress, controls>>

\* The handler goes on: with storing the new version, or with the other removals.
DismissNotRemoved ==
  /\ Top("notRemoved")
  /\ LET b == Head(boxes) IN
       IF b.reply = None
         THEN RemoveDocsets(b.about, Below)
         ELSE StoreArchive(b.reply, replies, Below) /\ UNCHANGED <<disk, registryVars>>

\* Yes: only now are the rows turned into names.  A row past the end of the list
\* makes std::vector::at throw, which ends the process.
ConfirmRemove ==
  /\ Top("confirmRemove")
  /\ LET rows == Head(boxes).rows IN
       IF \E i \in rows : i >= Cardinality(loaded)
         THEN ProcessEnds
         ELSE RemoveDocsets(DocsetsIn(rows), Below)

DeclineRemove ==
  /\ Top("confirmRemove")
  /\ boxes' = Below
  /\ UNCHANGED <<extractorVars, ui, registryVars, replies, tmp, available, userFeeds,
                 progress, controls>>

------------------------------------------------------------------------------

User ==
  \/ OpenDialog \/ CloseDialog \/ Quit \/ Start
  \/ \E d \in Docset : DownloadAvailable(d) \/ UpdateInstalled(d) \/ AddDashFeed(d)
  \/ Refresh \/ CancelDownloads
  \/ \E S \in SUBSET loaded : AskRemove(S)

Answer ==
  \/ AnswerDownloadFailed \/ AnswerIndexFailed \/ AnswerBadCatalog
  \/ DismissNotice \/ DismissExtractFailed \/ DismissNotRemoved
  \/ ConfirmRemove \/ DeclineRemove

Network ==
  \E q \in Request : \/ DownloadProgress(q) \/ DownloadFails(q) \/ CatalogArrives(q)
                     \/ FeedArrives(q) \/ DocsetArrives(q) \/ IndexArrives(q)

Heard == ui = "open"

ExtractorThread ==
  /\ OpenFails(Heard) \/ Begin \/ Succeed(Heard) \/ Fail(Heard)
  /\ UNCHANGED <<ui, registryVars, dialogVars>>

Signal == ExtractionCompleted \/ ExtractionError

Next == User \/ Answer \/ Network \/ ExtractorThread \/ Signal

Spec == Init /\ [][Next]_vars

TypeOK ==
  /\ file \in [File -> Contents]
  /\ disk \in [Docset -> Trees]
  /\ queue \in Seq(Job)
  /\ running \in Running \cup {None}
  /\ signals \in Seq(Outcome)
  /\ ui \in {"dead", "closed", "open"}
  /\ loaded \in SUBSET Docset
  /\ updatable \in SUBSET loaded
  /\ replies \in [Request -> Reply \cup {None}]
  /\ boxes \in Seq(Box)
  /\ tmp \in [Docset -> File \cup {None}]
  /\ available \in SUBSET Docset
  /\ userFeeds \in SUBSET Docset
  /\ progress \in SUBSET Docset
  /\ controls \in BOOLEAN
------------------------------------------------------------------------------
(* Where the installation of a docset is *)

\* Its archive or its index is being downloaded.
Transfers(d) ==
  {q \in Request : /\ replies[q] # None
                   /\ replies[q].type \in {"Docset", "TarixIndex"}
                   /\ replies[q].docset = d}

\* A message box holds its download up.
FetchBoxes(d) ==
  {i \in DOMAIN boxes :
     \/ boxes[i].kind = "indexFailed" /\ d \in boxes[i].about
     \/ /\ boxes[i].reply # None
        /\ boxes[i].reply.type = "Docset"
        /\ boxes[i].reply.docset = d}

\* Its extraction is waiting, running, or has ended without the dialog knowing,
\* or is known to have failed.
InQueue(d)    == {i \in DOMAIN queue : queue[i].file = tmp[d]}
InSignals(d)  == {i \in DOMAIN signals : signals[i].file = tmp[d]}
IsRunning(d)  == running # None /\ running.file = tmp[d]
ErrorBoxes(d) ==
  {i \in DOMAIN boxes : boxes[i].kind = "extractFailed" /\ d \in boxes[i].about}

Fetching(d)   == Cardinality(Transfers(d)) + Cardinality(FetchBoxes(d))
Extracting(d) == Cardinality(InQueue(d)) + Cardinality(InSignals(d))
                   + Cardinality(ErrorBoxes(d)) + (IF IsRunning(d) THEN 1 ELSE 0)

Stage(d) ==
  IF IsRunning(d) \/ InQueue(d) # {} \/ InSignals(d) # {} \/ ErrorBoxes(d) # {}
    THEN "extracting"
  ELSE IF tmp[d] # None \/ Transfers(d) # {} \/ FetchBoxes(d) # {}
    THEN "fetching"
  ELSE "idle"

Promise == INSTANCE InstallPromise
             WITH stage <- [d \in Docset |-> Stage(d)], installed <- loaded

------------------------------------------------------------------------------
(* Properties *)

\* Without feeds, the guards of downloadDashDocset are enough to keep every docset
\* to one download, retry, question or extraction at a time, whatever order
\* replies, signals and nested message boxes come in.
OnePipeline == \A d \in Docset : Fetching(d) + Extracting(d) <= 1

\* The extractor never writes into the directory of a docset that is in use: an
\* update unloads the docset when its archive arrives, and nothing loads it again
\* while a job for it, also one left by a closed dialog, waits or runs.
NoExtractionIntoLoaded ==
  /\ running # None => running.docset \notin loaded
  /\ \A i \in DOMAIN queue : queue[i].docset \notin loaded

\* In one run of the program, what is in the registry is completely on disk: no
\* failed or interrupted extraction is ever loaded.
LoadedIsComplete == \A d \in loaded : disk[d] = "full"

\* The dialog offers Close, and its controls, only when no reply is in flight and
\* no archive is held (enableControls), also across nested message boxes - except
\* that an installation which resumes after the box about a directory that could
\* not be removed may find that another handler has given them back meanwhile.
Unlocked(c, rs, ts) == c /\ ~Quiet(rs, ts)

CloseOnlyWhenQuiet ==
  [][Unlocked(controls', replies', tmp') =>
       Unlocked(controls, replies, tmp) \/ DismissNotRemoved]_vars

\* When the last piece of work ends and no handler is left that will still update
\* the status, the controls come back - except after a failed extraction, whose
\* handler does not update the status and leaves the dialog with Cancel only.
StatusPending(b) ==
  \/ b.kind \in {"downloadFailed", "indexFailed", "badCatalog", "notice"}
  \/ b.kind = "notRemoved" /\ b.reply # None

Settled == Quiet(replies, tmp) /\ \A i \in DOMAIN boxes : ~StatusPending(boxes[i])

UnlockedWhenSettled ==
  [][~Settled /\ Settled' => controls' \/ DismissExtractFailed]_vars

\* A docset enters the registry through the dialog only from an archive that is one
\* complete download: not one that a retry or a second download has added to.
OnlyIntactArchivesLoad ==
  [][\A d \in loaded' \ loaded :
       ui = "open" => tmp[d] # None /\ file[tmp[d]] \in {"whole", "moved"}]_vars

\* What is in the registry has a directory, whatever is removed, replaced, left
\* partly extracted or found at the next start.
LoadedHasDirectory == \A d \in loaded : disk[d] # "absent"

\* Both event loops keep running: the extractor thread works its jobs off and the
\* GUI thread, also inside a message box, delivers what it emits.
FairSpec == Spec /\ WF_vars(ExtractorThread) /\ WF_vars(Signal)

\* Every job of an archive the dialog holds ends up known to the dialog: the archive
\* is let go, or the user is told that it could not be extracted.
ExtractionReported ==
  \A d \in Docset :
    (tmp[d] # None /\ (InQueue(d) # {} \/ IsRunning(d)))
      ~> (tmp[d] = None \/ ErrorBoxes(d) # {})

\* The dialog implements the abstract promise.
KeepsPromise == Promise!Spec

\* docsetsdialog.cpp:215 gathers the names of the docsets to remove "first, because
\* model indicies become invalid when docsets are removed": those removed are those
\* the user was asked about.
RemovedIsConfirmed ==
  [][ConfirmRemove /\ ui' = "open" => loaded \ loaded' \subseteq Head(boxes).about]_vars
=============================================================================
