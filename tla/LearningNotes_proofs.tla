------------------------ MODULE LearningNotes_proofs ------------------------
(* For any docsets, pages and words: what is put in for a page stays in that   *)
(* page's note, and an edit that is not saved is about to be, or is reported.  *)
EXTENDS LearningNotes, SequenceTheorems, TLAPS

\* The parts of the state that hold texts, each with what keeps them apart.
Kept(s) ==
  /\ s \in [NotePage -> Text \cup {None}]
  /\ \A p \in NotePage : Content(s, p) \subseteq For(p)
Panel ==
  /\ page \in Shown /\ text \in Text /\ text \subseteq For(page)
  /\ dirty => page # NoPage /\ (autosave \/ failed)
Dialog ==
  /\ \E S \in SUBSET NotePage : rows \in [S -> Text]
  /\ \A p \in DOMAIN rows : rows[p] \subseteq For(p)
  /\ current \in DOMAIN rows \cup {None}
  /\ edit \in Text /\ edit \subseteq For(current)
\* A question about the editor is asked while the dialog is not open.
Modal ==
  /\ open => ~dirty
  /\ box = None \/ box \in Box
  /\ box # None /\ box.kind = "clear" => ~open

LEMMA Names ==
  /\ NoPage \notin NotePage /\ NoPage \in Shown /\ None \notin Shown
  /\ Start \in NotePage /\ Page \subseteq NotePage /\ NotePage \subseteq Shown
  /\ None \notin NotePage /\ \A t \in Text : t # None
  /\ {} \in Text
  BY NotesAssumption DEF NotePage, Shown, Text

LEMMA ForType == \A p \in NotePage : For(p) \in Text
  BY DEF For, Text, Fragment

LEMMA ContentType ==
  ASSUME NEW s, Kept(s), NEW p \in NotePage
  PROVE  Content(s, p) \in Text /\ Content(s, p) \subseteq For(p)
         /\ (s[p] # None => s[p] = Content(s, p))
  BY Names DEF Kept, Content

-----------------------------------------------------------------------------
(* What the helpers leave behind.                                             *)

LEMMA WrittenKept ==
  ASSUME Kept(stored), Panel
  PROVE  Kept(Written)
<1>1. CASE page = NoPage
  <2>1. Written = stored
    BY <1>1, Names DEF Written, Kept
  <2> QED
    BY <2>1
<1>2. CASE page # NoPage
  <2>1. page \in NotePage
    BY <1>2 DEF Panel, Shown
  <2>2. Written \in [NotePage -> Text \cup {None}]
    BY <2>1 DEF Written, Kept, Panel
  <2>3. \A p \in NotePage : Content(Written, p) \subseteq For(p)
    BY <2>1, Names DEF Written, Kept, Panel, Content
  <2> QED
    BY <2>2, <2>3 DEF Kept
<1> QED
  BY <1>1, <1>2

LEMMA OutcomeKept ==
  ASSUME Kept(stored), Panel, NEW explicit \in BOOLEAN, NEW o \in Outcome(explicit)
  PROVE  Kept(o.stored)
<1>1. o.stored \in {stored, Written}
  BY DEF Outcome
<1> QED
  BY <1>1, WrittenKept

LEMMA FlushOutcomeKept ==
  ASSUME Kept(stored), Panel, NEW o \in FlushOutcome
  PROVE  Kept(o.stored)
<1>1. CASE dirty
  BY <1>1, OutcomeKept DEF FlushOutcome
<1>2. CASE ~dirty
  BY <1>2 DEF FlushOutcome
<1> QED
  BY <1>1, <1>2

LEMMA LoadPanel ==
  ASSUME NEW table, Kept(table), NEW p \in Shown, Load(p, table)
  PROVE  Panel' /\ ~dirty'
<1>1. page' = p /\ ~dirty'
  BY DEF Load
<1>2. text' \in Text /\ text' \subseteq For(p)
  <2>1. text' = {} \/ (p # NoPage /\ text' = Content(table, p))
    BY DEF Load
  <2> QED
    BY <2>1, ContentType, Names DEF Shown
<1> QED
  BY <1>1, <1>2 DEF Panel

LEMMA SetPagePanel ==
  ASSUME Kept(stored), Panel, NEW p \in Shown, SetPage(p)
  PROVE  Kept(stored)' /\ Panel' /\ (dirty' => dirty)
<1>1. CASE p = page /\ p # NoPage
  BY <1>1 DEF SetPage, panel, Kept, Content, Panel
<1>2. CASE ~(p = page /\ p # NoPage)
  <2>1. PICK o \in FlushOutcome :
          /\ stored' = o.stored
          /\ IF o.saved THEN Load(p, o.stored)
             ELSE autosave' = FALSE /\ failed' = TRUE /\ UNCHANGED <<page, known, text, dirty>>
    BY <1>2 DEF SetPage
  <2>2. Kept(o.stored)
    BY FlushOutcomeKept
  <2>3. Kept(stored)'
    BY <2>1, <2>2 DEF Kept, Content
  <2>4. CASE o.saved
    BY <2>1, <2>2, <2>3, <2>4, LoadPanel
  <2>5. CASE ~o.saved
    BY <2>1, <2>3, <2>5 DEF Panel
  <2> QED
    BY <2>4, <2>5
<1> QED
  BY <1>1, <1>2

LEMMA SavePanel ==
  ASSUME Kept(stored), Panel, NEW explicit \in BOOLEAN, Save(explicit), UNCHANGED <<page, text>>
  PROVE  Kept(stored)' /\ Panel' /\ (dirty' => dirty)
<1>1. PICK o \in Outcome(explicit) : AfterSave(o, explicit)
  BY DEF Save
<1>2. Kept(o.stored) /\ stored' = o.stored
  BY <1>1, OutcomeKept DEF AfterSave
<1>3. Kept(stored)'
  BY <1>2 DEF Kept, Content
<1>4. dirty' => dirty /\ failed'
  BY <1>1 DEF AfterSave
<1> QED
  BY <1>3, <1>4 DEF Panel

LEMMA FlushPanel ==
  ASSUME Kept(stored), Panel, Flush, UNCHANGED <<page, text>>
  PROVE  Kept(stored)' /\ Panel' /\ (dirty' => dirty)
<1>1. CASE dirty
  BY <1>1, SavePanel DEF Flush
<1>2. CASE ~dirty
  BY <1>2 DEF Flush, Kept, Content, Panel
<1> QED
  BY <1>1, <1>2

LEMMA RefreshDialog ==
  ASSUME NEW table, Kept(table), Refresh(table)
  PROVE  Dialog'
<1>1. PICK S \in SUBSET {p \in NotePage : table[p] # None} :
        /\ rows' = [p \in S |-> table[p]]
        /\ current' \in S \/ (S = {} /\ current' = None)
        /\ edit' = IF current' = None THEN {} ELSE rows'[current']
  BY DEF Refresh
<1>2. \A p \in S : table[p] \in Text /\ table[p] \subseteq For(p)
  BY ContentType
<1>3. rows' \in [S -> Text] /\ DOMAIN rows' = S
  BY <1>1, <1>2
<1>4. \A p \in S : rows'[p] \subseteq For(p)
  BY <1>1, <1>2
<1>5. edit' \in Text /\ edit' \subseteq For(current')
  BY <1>1, <1>3, <1>4, Names
<1> QED
  BY <1>1, <1>3, <1>4, <1>5 DEF Dialog

LEMMA CloseDialogDialog == CloseDialog => Dialog' /\ ~open'
<1> SUFFICES ASSUME CloseDialog PROVE Dialog' /\ ~open'
  OBVIOUS
<1>1. rows' = [p \in {} |-> {}] /\ current' = None /\ edit' = {} /\ ~open'
  BY DEF CloseDialog, NoRows
<1>2. rows' \in [{} -> Text] /\ DOMAIN rows' = {}
  BY <1>1
<1> QED
  BY <1>1, <1>2, Names DEF Dialog

-----------------------------------------------------------------------------
(* The steps.                                                                 *)

Shape == shown \in Shown /\ loading \in Shown \cup {None} /\ last \in Page \cup {None}
Inv == Shape /\ Kept(stored) /\ Panel /\ Dialog /\ Modal

LEMMA InvInit == Init => Inv
<1> SUFFICES ASSUME Init PROVE Inv
  OBVIOUS
<1>1. Shape
  BY Names DEF Init, Shape
<1>2. Kept(stored)
  BY Names DEF Init, Kept, Content
<1>3. Panel
  BY Names DEF Init, Panel
<1>4. Dialog
  <2>1. rows = [p \in {} |-> {}] /\ current = None /\ edit = {}
    BY DEF Init, NoRows
  <2>2. rows \in [{} -> Text] /\ DOMAIN rows = {}
    BY <2>1
  <2> QED
    BY <2>1, <2>2, Names DEF Dialog
<1>5. Modal
  BY DEF Init, Modal
<1> QED
  BY <1>1, <1>2, <1>3, <1>4, <1>5 DEF Inv

\* The URLs that are opened stand for something the window can show.
LEMMA PageAtShown == \A url : PageAt(url) \in Shown
<1> SUFFICES ASSUME NEW url PROVE PageAt(url) \in Shown
  OBVIOUS
<1>1. CASE Len(url) < 2 \/ url[1] \notin Docset
  BY <1>1, Names DEF PageAt
<1>2. CASE ~(Len(url) < 2 \/ url[1] \notin Docset)
  <2>1. CASE url[2] \in Path
    BY <1>2, <2>1 DEF PageAt, Shown, NotePage, Page
  <2>2. CASE url[2] \notin Path
    BY <1>2, <2>2, Names DEF PageAt
  <2> QED
    BY <2>1, <2>2
<1> QED
  BY <1>1, <1>2

LEMMA DialogKept == ASSUME Dialog, UNCHANGED <<rows, current, edit>> PROVE Dialog'
  BY DEF Dialog
LEMMA StoredKept == ASSUME Kept(stored), UNCHANGED stored PROVE Kept(stored)'
  BY DEF Kept, Content
LEMMA PanelKept == ASSUME Panel, UNCHANGED <<page, text, dirty, autosave, failed>> PROVE Panel'
  BY DEF Panel

\* Steps that set the page: the dialog and the questions stay as they are.
LEMMA SetPageKeeps ==
  ASSUME Inv, NEW p \in Shown, SetPage(p), Shape', UNCHANGED <<dialog, box>>
  PROVE  Inv'
<1>1. Kept(stored)' /\ Panel' /\ (dirty' => dirty)
  BY SetPagePanel DEF Inv
<1>2. Dialog'
  BY DialogKept DEF Inv, dialog
<1> QED
  BY <1>1, <1>2 DEF Inv, Modal, dialog

\* Steps that save what the panel holds.
LEMMA FlushKeeps ==
  ASSUME Inv, Flush \/ \E explicit \in BOOLEAN : Save(explicit), UNCHANGED <<page, text>>,
         Shape', UNCHANGED <<dialog, box>>
  PROVE  Inv'
<1>1. Kept(stored)' /\ Panel' /\ (dirty' => dirty)
  BY FlushPanel, SavePanel DEF Inv
<1>2. Dialog'
  BY DialogKept DEF Inv, dialog
<1> QED
  BY <1>1, <1>2 DEF Inv, Modal, dialog

LEMMA WindowKeeps ==
  ASSUME Inv,
         \/ \E p \in Shown : Follow(p) \/ SwitchTab(p) \/ CloseTab(p)
         \/ UrlChanged \/ TitleChanged \/ RestoreLastDocumentation
  PROVE  Inv'
<1>1. ASSUME NEW p \in Shown, Follow(p) PROVE Inv'
  <2>1. Shape' /\ UNCHANGED <<panel, stored, dialog, box>>
    BY <1>1 DEF Follow, Inv, Shape
  <2> QED
    BY <2>1, DialogKept, StoredKept, PanelKept DEF Inv, Modal, panel, dialog
<1>2. ASSUME NEW p \in Shown, SwitchTab(p) PROVE Inv'
  <2>1. Shape' /\ SetPage(p) /\ UNCHANGED <<dialog, box>>
    BY <1>2 DEF SwitchTab, SyncLearningNotes, Inv, Shape
  <2> QED
    BY <2>1, SetPageKeeps
<1>3. ASSUME NEW p \in Shown, CloseTab(p) PROVE Inv'
  <2>1. Shape' /\ UNCHANGED <<dialog, box>>
    BY <1>3 DEF CloseTab, Inv, Shape
  <2>2. SetPage(p) \/ (Flush /\ UNCHANGED <<page, text>>)
    BY <1>3 DEF CloseTab
  <2> QED
    BY <2>1, <2>2, SetPageKeeps, FlushKeeps
<1>4. CASE UrlChanged
  <2>1. loading \in Shown
    BY <1>4 DEF UrlChanged, Inv, Shape
  <2>2. Shape' /\ SetPage(loading) /\ UNCHANGED <<dialog, box>>
    BY <1>4, <2>1 DEF UrlChanged, SyncLearningNotes, Inv, Shape
  <2> QED
    BY <2>1, <2>2, SetPageKeeps
<1>5. CASE TitleChanged
  <2>1. shown \in Shown
    BY DEF Inv, Shape
  <2>2. Shape' /\ SetPage(shown) /\ UNCHANGED <<dialog, box>>
    BY <1>5, <2>1 DEF TitleChanged, SyncLearningNotes, Inv, Shape
  <2> QED
    BY <2>1, <2>2, SetPageKeeps
<1>6. CASE RestoreLastDocumentation
  <2>1. Shape' /\ UNCHANGED <<panel, stored, dialog, box>>
    BY <1>6, PageAtShown DEF RestoreLastDocumentation, Inv, Shape
  <2> QED
    BY <2>1, DialogKept, StoredKept, PanelKept DEF Inv, Modal, panel, dialog
<1> QED
  BY <1>1, <1>2, <1>3, <1>4, <1>5, <1>6

\* Steps that change the editor of a page, within what belongs to the page.
LEMMA EditedKeeps ==
  ASSUME Inv, page # NoPage, ~open, NEW t \in Text, t \subseteq For(page), Edited(t),
         UNCHANGED <<window, page, stored, dialog>>, box' = box \/ box' = None
  PROVE  Inv'
<1>1. Shape'
  BY DEF Inv, Shape, window
<1>2. Kept(stored)' /\ Dialog'
  BY StoredKept, DialogKept DEF Inv, dialog
<1>3. Panel'
  BY DEF Inv, Panel, Edited
<1>4. Modal'
  BY DEF Inv, Modal, dialog
<1> QED
  BY <1>1, <1>2, <1>3, <1>4 DEF Inv

\* Steps that change none of the texts.
LEMMA StillKeeps ==
  ASSUME Inv, UNCHANGED <<window, panel, stored, open, rows, current, edit>>, Modal'
  PROVE  Inv'
<1>1. Shape'
  BY DEF Inv, Shape, window
<1> QED
  BY <1>1, StoredKept, PanelKept, DialogKept DEF Inv, panel

LEMMA EditorKeeps ==
  ASSUME Inv, Type \/ AddSelection \/ AutoSave \/ SaveNote \/ StartNote
              \/ AskClear \/ ConfirmClear \/ Export
  PROVE  Inv'
<1> USE DEF Inv
<1>1. CASE Type
  <2>1. page \in NotePage /\ page # NoPage /\ ~open
    BY <1>1 DEF Type, PanelInput, Panel, Shown
  <2>2. PICK t \in SUBSET (text \cup For(page)) : Edited(t)
    BY <1>1 DEF Type
  <2>3. t \in Text /\ t \subseteq For(page)
    BY <2>1, <2>2, ForType DEF Panel, Text
  <2> QED
    BY <1>1, <2>1, <2>2, <2>3, EditedKeeps DEF Type
<1>2. CASE AddSelection
  <2>1. page \in NotePage /\ page # NoPage /\ ~open
    BY <1>2 DEF AddSelection, PanelInput, Panel, Shown
  <2>2. PICK w \in Word : Edited(text \cup {<<page, w>>})
    BY <1>2 DEF AddSelection
  <2>3. text \cup {<<page, w>>} \in Text /\ text \cup {<<page, w>>} \subseteq For(page)
    BY <2>1, <2>2 DEF Panel, Text, Fragment, For
  <2> QED
    BY <1>2, <2>1, <2>2, <2>3, EditedKeeps DEF AddSelection
<1>3. CASE AutoSave \/ SaveNote
  <2>1. Save(FALSE) \/ Save(TRUE)
    BY <1>3 DEF AutoSave, SaveNote
  <2>2. Shape' /\ UNCHANGED <<page, text, dialog, box>>
    BY <1>3 DEF AutoSave, SaveNote, Shape, window
  <2> QED
    BY <2>1, <2>2, FlushKeeps
<1>4. CASE StartNote
  <2>1. Shape' /\ SetPage(Start) /\ UNCHANGED <<dialog, box>>
    BY <1>4 DEF StartNote, Shape, window
  <2> QED
    BY <2>1, SetPageKeeps, Names
<1>5. CASE AskClear
  <2>1. ~open /\ box' = [kind |-> "clear", about |-> page] /\ page \in NotePage
    <3>1. page # NoPage
      <4>1. SUFFICES ASSUME page = NoPage PROVE FALSE
        OBVIOUS
      <4>2. text # {} /\ text \subseteq {NoPage} \X Word /\ text \in SUBSET (NotePage \X Word)
        BY <1>5, <4>1 DEF AskClear, Panel, For, Text, Fragment
      <4>3. PICK x \in text : TRUE
        BY <4>2
      <4> QED
        BY <4>2, <4>3, Names
    <3> QED
      BY <1>5, <3>1 DEF AskClear, PanelInput, Panel, Shown
  <2>2. Modal'
    BY <1>5, <2>1 DEF AskClear, Modal, Box, dialog, panel
  <2> QED
    BY <1>5, <2>2, StillKeeps DEF AskClear, dialog
<1>6. CASE ConfirmClear
  <2>1. ~open /\ box' = None
    BY <1>6 DEF ConfirmClear, Modal
  <2>2. CASE page = NoPage
    <3>1. Modal'
      BY <1>6, <2>1, <2>2 DEF ConfirmClear, Modal, dialog, panel
    <3> QED
      BY <1>6, <2>2, <3>1, StillKeeps DEF ConfirmClear, dialog
  <2>3. CASE page # NoPage
    BY <1>6, <2>1, <2>3, EditedKeeps, Names DEF ConfirmClear
  <2> QED
    BY <2>2, <2>3
<1>7. CASE Export
  <2>1. Flush /\ Shape' /\ UNCHANGED <<page, text, dialog, box>>
    BY <1>7 DEF Export, Shape, window
  <2> QED
    BY <2>1, FlushKeeps
<1> QED
  BY <1>1, <1>2, <1>3, <1>4, <1>5, <1>6, <1>7

-----------------------------------------------------------------------------
(* The dialog's steps, and those of the process.                              *)

\* Steps of the dialog that leave the panel alone.
LEMMA ListKeeps ==
  ASSUME Inv, UNCHANGED <<window, panel, open>>, Kept(stored)', Dialog', Modal'
  PROVE  Inv'
  BY PanelKept DEF Inv, Shape, window, panel

LEMMA RowsKeep ==
  ASSUME Inv, SearchNotes \/ SearchTimeout \/ ChooseDocset \/ EditNote
              \/ \E p \in NotePage : ChooseNote(p)
  PROVE  Inv'
<1> USE DEF Inv
<1>1. CASE SearchNotes
  <2>1. Modal'
    BY <1>1 DEF SearchNotes, DialogInput, Modal, panel
  <2> QED
    BY <1>1, <2>1, StillKeeps DEF SearchNotes
<1>2. CASE SearchTimeout
  <2>1. Dialog'
    BY <1>2, RefreshDialog DEF SearchTimeout
  <2>2. Modal'
    <3>1. CASE box = None
      BY <1>2, <3>1 DEF SearchTimeout, Modal, panel
    <3>2. CASE box # None
      <4>1. open /\ box \in Box /\ box.kind # "clear" /\ box' = [box EXCEPT !.fresh = FALSE]
        BY <1>2, <3>2 DEF SearchTimeout, Modal
      <4>2. box \in [kind : {"delete"}, about : NotePage, fresh : BOOLEAN]
        BY <4>1 DEF Box
      <4>3. box' \in Box /\ box'.kind = "delete"
        BY <4>1, <4>2 DEF Box
      <4> QED
        BY <1>2, <4>3 DEF SearchTimeout, Modal, panel
    <3> QED
      BY <3>1, <3>2
  <2> QED
    BY <1>2, <2>1, <2>2, ListKeeps, StoredKept DEF SearchTimeout
<1>3. CASE ChooseDocset
  <2>1. Dialog' /\ Modal'
    BY <1>3, RefreshDialog DEF ChooseDocset, DialogInput, Modal, panel
  <2> QED
    BY <1>3, <2>1, ListKeeps, StoredKept DEF ChooseDocset
<1>4. CASE EditNote
  <2>1. current \in NotePage
    BY <1>4 DEF EditNote, Dialog
  <2>2. edit' \in Text /\ edit' \subseteq For(current)
    BY <1>4, <2>1, ForType DEF EditNote, Dialog, Text
  <2>3. Dialog'
    BY <1>4, <2>2 DEF EditNote, Dialog
  <2>4. Modal'
    BY <1>4 DEF EditNote, DialogInput, Modal, panel
  <2> QED
    BY <1>4, <2>3, <2>4, ListKeeps, StoredKept DEF EditNote
<1>5. ASSUME NEW p \in NotePage, ChooseNote(p) PROVE Inv'
  <2>1. Dialog'
    BY <1>5 DEF ChooseNote, Dialog
  <2>2. Modal'
    BY <1>5 DEF ChooseNote, DialogInput, Modal, panel
  <2> QED
    BY <1>5, <2>1, <2>2, ListKeeps, StoredKept DEF ChooseNote
<1> QED
  BY <1>1, <1>2, <1>3, <1>4, <1>5

\* A table with one page's note replaced by what is that page's, or dropped.
LEMMA ReplacedKept ==
  ASSUME Kept(stored), NEW p \in NotePage, NEW t \in Text \cup {None},
         t # None => t \subseteq For(p)
  PROVE  Kept([stored EXCEPT ![p] = t])
<1> DEFINE table == [stored EXCEPT ![p] = t]
<1>1. table \in [NotePage -> Text \cup {None}]
  BY DEF Kept
<1>2. \A q \in NotePage : Content(table, q) \subseteq For(q)
  BY DEF Kept, Content
<1> QED
  BY <1>1, <1>2 DEF Kept

LEMMA StoringKeeps ==
  ASSUME Inv, SaveCurrent \/ AskDelete \/ ConfirmDelete \/ DismissBox
  PROVE  Inv'
<1> USE DEF Inv
<1>1. CASE SaveCurrent
  <2> DEFINE table == [stored EXCEPT ![current] = edit]
  <2>1. current \in NotePage /\ current \in DOMAIN rows
    BY <1>1 DEF SaveCurrent, Dialog
  <2>2. Kept(table)
    BY <2>1, ReplacedKept DEF Dialog
  <2>3. Kept(stored)'
    <3>1. stored' \in {stored, table}
      BY <1>1 DEF SaveCurrent
    <3> QED
      BY <2>2, <3>1 DEF Kept, Content
  <2>4. Dialog'
    <3>1. CASE stored' = table /\ Refresh(table)
      BY <2>2, <3>1, RefreshDialog
    <3>2. CASE rows' = [rows EXCEPT ![current] = edit] /\ UNCHANGED <<current, edit>>
      <4>1. PICK S \in SUBSET NotePage : rows \in [S -> Text]
        BY DEF Dialog
      <4>2. rows' \in [S -> Text]
        BY <3>2, <4>1 DEF Dialog
      <4>3. \A p \in DOMAIN rows' : rows'[p] \subseteq For(p)
        BY <2>1, <3>2, <4>1 DEF Dialog
      <4> QED
        BY <3>2, <4>1, <4>2, <4>3 DEF Dialog
    <3> QED
      BY <1>1, <3>1, <3>2 DEF SaveCurrent
  <2>5. Modal'
    BY <1>1 DEF SaveCurrent, DialogInput, Modal, panel
  <2> QED
    BY <1>1, <2>3, <2>4, <2>5, ListKeeps DEF SaveCurrent
<1>2. CASE AskDelete
  <2>1. current \in NotePage
    BY <1>2 DEF AskDelete, Dialog
  <2>2. Modal'
    BY <1>2, <2>1 DEF AskDelete, Modal, Box, dialog, panel
  <2> QED
    BY <1>2, <2>2, StillKeeps DEF AskDelete, dialog
<1>3. CASE ConfirmDelete
  <2>1. box \in [kind : {"delete"}, about : NotePage, fresh : BOOLEAN]
    BY <1>3 DEF ConfirmDelete, Modal, Box
  <2>2. Modal'
    BY <1>3 DEF ConfirmDelete, Modal, panel
  <2>3. CASE UNCHANGED <<stored, rows, current, edit>>
    BY <1>3, <2>2, <2>3, StillKeeps DEF ConfirmDelete
  <2>4. CASE \E p \in IF box.fresh THEN {box.about} ELSE NotePage :
               LET table == [stored EXCEPT ![p] = None]
               IN stored' = table /\ Refresh(table)
    <3>1. PICK p \in NotePage : /\ stored' = [stored EXCEPT ![p] = None]
                                /\ Refresh([stored EXCEPT ![p] = None])
      BY <2>1, <2>4
    <3>2. Kept([stored EXCEPT ![p] = None])
      BY ReplacedKept
    <3>3. Kept(stored)' /\ Dialog'
      BY <3>1, <3>2, RefreshDialog DEF Kept, Content
    <3> QED
      BY <1>3, <2>2, <3>3, ListKeeps DEF ConfirmDelete
  <2> QED
    BY <1>3, <2>3, <2>4 DEF ConfirmDelete
<1>4. CASE DismissBox
  <2>1. Modal'
    BY <1>4 DEF DismissBox, Modal, dialog, panel
  <2> QED
    BY <1>4, <2>1, StillKeeps DEF DismissBox, dialog
<1> QED
  BY <1>1, <1>2, <1>3, <1>4

\* Under the dialog nothing is unsaved, so what follows it is a load.
LEMMA ReloadPanel ==
  ASSUME Inv, open, NEW p \in Shown, Reload(p)
  PROVE  Panel' /\ ~dirty'
<1>1. Load(p, stored)
  BY DEF Reload, Inv, Modal
<1> QED
  BY <1>1, LoadPanel DEF Inv

LEMMA ShowingKeeps ==
  ASSUME Inv, ShowAllNotes \/ HideAllNotes \/ OpenDocumentation
  PROVE  Inv'
<1> USE DEF Inv
<1>1. CASE ShowAllNotes
  <2>1. PICK o \in FlushOutcome :
          /\ IF dirty THEN AfterSave(o, FALSE) ELSE UNCHANGED <<stored, dirty, known, failed>>
          /\ autosave' = FALSE
          /\ open' = o.saved
          /\ IF o.saved
             THEN searching' = FALSE /\ Refresh(o.stored)
             ELSE UNCHANGED <<rows, current, edit, searching>>
    BY <1>1 DEF ShowAllNotes
  <2>2. Kept(o.stored) /\ stored' = o.stored
    <3>1. Kept(o.stored)
      BY FlushOutcomeKept
    <3>2. CASE dirty
      BY <2>1, <3>1, <3>2 DEF AfterSave
    <3>3. CASE ~dirty
      <4>1. o = [saved |-> TRUE, stored |-> stored]
        BY <3>3 DEF FlushOutcome
      <4>2. stored' = stored
        BY <2>1, <3>3
      <4> QED
        BY <3>1, <4>1, <4>2
    <3> QED
      BY <3>2, <3>3
  <2>3. Kept(stored)'
    BY <2>2 DEF Kept, Content
  <2>4. dirty' => dirty /\ failed' /\ ~o.saved
    BY <2>1 DEF AfterSave
  <2>5. Panel'
    BY <1>1, <2>4 DEF ShowAllNotes, Panel
  <2>6. Dialog'
    <3>1. CASE o.saved
      BY <2>1, <2>2, <3>1, RefreshDialog
    <3>2. CASE ~o.saved
      BY <2>1, <3>2, DialogKept
    <3> QED
      BY <3>1, <3>2
  <2>7. Modal'
    BY <1>1, <2>1, <2>4 DEF ShowAllNotes, PanelInput, Modal
  <2> QED
    BY <1>1, <2>3, <2>5, <2>6, <2>7 DEF ShowAllNotes, Shape, window
<1>2. CASE HideAllNotes
  <2>1. open /\ page \in Shown /\ Reload(page) /\ CloseDialog
    BY <1>2 DEF HideAllNotes, DialogInput, Panel
  <2>2. Panel' /\ Dialog' /\ ~open'
    BY <2>1, ReloadPanel, CloseDialogDialog
  <2>3. Modal'
    BY <1>2, <2>2 DEF HideAllNotes, DialogInput, Modal
  <2> QED
    BY <1>2, <2>2, <2>3, StoredKept DEF HideAllNotes, Shape, window
<1>3. CASE OpenDocumentation
  <2>1. open /\ CloseDialog /\ (Reload(Start) \/ Reload(page)) /\ page \in Shown
    BY <1>3 DEF OpenDocumentation, DialogInput, Panel
  <2>2. Panel' /\ Dialog' /\ ~open'
    BY <2>1, ReloadPanel, CloseDialogDialog, Names
  <2>3. Modal'
    BY <1>3, <2>2 DEF OpenDocumentation, DialogInput, Modal
  <2>4. Shape'
    BY <1>3, PageAtShown, Names DEF OpenDocumentation, Shape, window
  <2> QED
    BY <1>3, <2>2, <2>3, <2>4, StoredKept DEF OpenDocumentation
<1> QED
  BY <1>1, <1>2, <1>3

LEMMA ProcessKeeps ==
  ASSUME Inv, Launch \/ Quit \/ Crash
  PROVE  Inv'
<1> USE DEF Inv
<1>1. CASE Launch
  <2>1. Panel' /\ ~dirty'
    BY <1>1, LoadPanel, Names DEF Launch
  <2>2. Dialog' /\ Kept(stored)' /\ Shape'
    BY <1>1, DialogKept, StoredKept DEF Launch, dialog, Shape, window
  <2>3. Modal'
    BY <1>1, <2>1 DEF Launch, Modal, dialog
  <2> QED
    BY <2>1, <2>2, <2>3
<1>2. CASE Quit \/ Crash
  <2>1. Gone /\ last' = last
    BY <1>2 DEF Quit, Crash
  <2>2. Dialog' /\ ~open'
    BY <2>1, CloseDialogDialog DEF Gone
  <2>3. Panel' /\ Shape'
    BY <2>1, Names DEF Gone, Panel, Shape
  <2>4. Modal'
    BY <2>1, <2>2 DEF Gone, Modal
  <2>5. Kept(stored)'
    <3>1. CASE Quit
      <4>1. PICK o \in FlushOutcome : stored' = o.stored
        BY <3>1 DEF Quit
      <4> QED
        BY <4>1, FlushOutcomeKept DEF Kept, Content
    <3>2. CASE Crash
      BY <3>2, StoredKept DEF Crash
    <3> QED
      BY <1>2, <3>1, <3>2
  <2> QED
    BY <2>2, <2>3, <2>4, <2>5
<1> QED
  BY <1>1, <1>2

LEMMA InvNext == Inv /\ [Next]_vars => Inv'
<1> SUFFICES ASSUME Inv, [Next]_vars PROVE Inv'
  OBVIOUS
<1>1. CASE UNCHANGED vars
  <2>1. UNCHANGED <<window, panel, stored, dialog, box>>
    BY <1>1 DEF vars
  <2>2. Modal'
    BY <2>1 DEF Inv, Modal, panel, dialog
  <2> QED
    BY <2>1, <2>2, StillKeeps DEF dialog
<1>2. CASE Next
  BY <1>2, WindowKeeps, EditorKeeps, RowsKeep, StoringKeeps, ShowingKeeps, ProcessKeeps DEF Next
<1> QED
  BY <1>1, <1>2

\* What was put in for a page is only ever in that page's note, in the editor that
\* names it, or in its row of the dialog (learningnotespanel.cpp:566-624,
\* allnotesdialog.cpp:114-189).
THEOREM NothingCrossesOver == Spec => []NoCrossover
<1>1. Inv => NoCrossover
  BY DEF Inv, Kept, Panel, Dialog, NoCrossover
<1> QED
  BY <1>1, InvInit, InvNext, PTL DEF Spec

\* An unsaved edit has a page to be saved under, and its save is still to come or
\* reported as failed; under the all-notes dialog, which reloads the panel, there is
\* none (learningnotespanel.cpp:363-389, :566-707).
THEOREM EditsAwaitSaving == Spec => []UnsavedIsPending
<1>1. Inv => UnsavedIsPending
  BY DEF Inv, Panel, Modal, UnsavedIsPending
<1> QED
  BY <1>1, InvInit, InvNext, PTL DEF Spec

\* The flags stay Boolean: what decides them is a comparison or a flush's result.
LEMMA OutcomeSaved ==
  /\ \A explicit \in BOOLEAN : \A o \in Outcome(explicit) : o.saved \in BOOLEAN
  /\ \A o \in FlushOutcome : o.saved \in BOOLEAN
<1>1. \A explicit \in BOOLEAN : \A o \in Outcome(explicit) : o.saved \in BOOLEAN
  <2> SUFFICES ASSUME NEW explicit \in BOOLEAN, NEW o \in Outcome(explicit)
               PROVE  o.saved \in BOOLEAN
    OBVIOUS
  <2>1. \/ o = [saved |-> TRUE, stored |-> stored]
        \/ o = [saved |-> TRUE, stored |-> Written]
        \/ \E s \in {stored, Written} : o = [saved |-> FALSE, stored |-> s]
    BY DEF Outcome
  <2>2. CASE \E s \in {stored, Written} : o = [saved |-> FALSE, stored |-> s]
    <3>1. PICK s : o = [saved |-> FALSE, stored |-> s]
      BY <2>2
    <3> QED
      BY <3>1
  <2>3. CASE \E s : o = [saved |-> TRUE, stored |-> s]
    <3>1. PICK s : o = [saved |-> TRUE, stored |-> s]
      BY <2>3
    <3> QED
      BY <3>1
  <2> QED
    BY <2>1, <2>2, <2>3, Zenon
<1>2. \A o \in FlushOutcome : o.saved \in BOOLEAN
  <2> SUFFICES ASSUME NEW o \in FlushOutcome PROVE o.saved \in BOOLEAN
    OBVIOUS
  <2>1. CASE dirty
    BY <1>1, <2>1 DEF FlushOutcome
  <2>2. CASE ~dirty
    <3>1. o = [saved |-> TRUE, stored |-> stored]
      BY <2>2 DEF FlushOutcome
    <3> QED
      BY <3>1
  <2> QED
    BY <2>1, <2>2
<1> QED
  BY <1>1, <1>2

LEMMA SaveFlags ==
  ASSUME Flags, NEW explicit \in BOOLEAN, Save(explicit)
  PROVE  dirty' \in BOOLEAN /\ known' \in BOOLEAN /\ failed' \in BOOLEAN
  BY DEF Flags, Save, AfterSave

LEMMA FlushFlags ==
  ASSUME Flags, Flush
  PROVE  /\ dirty' \in BOOLEAN /\ known' \in BOOLEAN /\ failed' \in BOOLEAN
         /\ autosave' \in BOOLEAN
  BY SaveFlags DEF Flags, Flush

LEMMA LoadFlags ==
  ASSUME NEW p, NEW table, Load(p, table)
  PROVE  /\ dirty' \in BOOLEAN /\ known' \in BOOLEAN /\ failed' \in BOOLEAN
         /\ autosave' \in BOOLEAN
  BY DEF Load

LEMMA SetPageFlags ==
  ASSUME Flags, NEW p, SetPage(p)
  PROVE  /\ dirty' \in BOOLEAN /\ known' \in BOOLEAN /\ failed' \in BOOLEAN
         /\ autosave' \in BOOLEAN
<1>1. CASE p = page /\ p # NoPage
  BY <1>1 DEF SetPage, Flags, panel
<1>2. CASE ~(p = page /\ p # NoPage)
  BY <1>2, LoadFlags DEF SetPage, Flags
<1> QED
  BY <1>1, <1>2

LEMMA FlagsInit == Init => Flags
  BY DEF Init, Flags

LEMMA FlagsNext == Flags /\ [Next]_vars => Flags'
<1> SUFFICES ASSUME Flags, [Next]_vars PROVE Flags'
  OBVIOUS
<1> USE DEF Flags, window, panel, dialog
<1>1. CASE UNCHANGED vars
  BY <1>1 DEF vars
<1>2. ASSUME NEW p \in Shown, Follow(p) \/ SwitchTab(p) \/ CloseTab(p) PROVE Flags'
  <2>1. CASE Follow(p)
    BY <2>1 DEF Follow
  <2>2. CASE SwitchTab(p)
    <3>1. SetPage(p) /\ UNCHANGED <<running, restored, open, searching>>
      BY <2>2 DEF SwitchTab, SyncLearningNotes
    <3> QED
      BY <3>1, SetPageFlags
  <2>3. CASE CloseTab(p)
    <3>1. (SetPage(p) \/ Flush) /\ UNCHANGED <<running, restored, open, searching>>
      BY <2>3 DEF CloseTab
    <3> QED
      BY <3>1, SetPageFlags, FlushFlags
  <2> QED
    BY <1>2, <2>1, <2>2, <2>3
<1>3. CASE UrlChanged \/ TitleChanged
  <2>1. /\ SetPage(loading) \/ SetPage(shown)
        /\ UNCHANGED <<running, restored, open, searching>>
    BY <1>3 DEF UrlChanged, TitleChanged, SyncLearningNotes
  <2> QED
    BY <2>1, SetPageFlags
<1>4. CASE RestoreLastDocumentation
  BY <1>4 DEF RestoreLastDocumentation
<1>5. CASE Type \/ AddSelection
  BY <1>5 DEF Type, AddSelection, Edited
<1>6. CASE AutoSave \/ SaveNote
  BY <1>6, SaveFlags DEF AutoSave, SaveNote
<1>7. CASE StartNote
  BY <1>7, SetPageFlags DEF StartNote
<1>8. CASE AskClear \/ ConfirmClear \/ DismissBox \/ AskDelete
  BY <1>8 DEF AskClear, ConfirmClear, DismissBox, AskDelete, Edited
<1>9. CASE Export
  BY <1>9, FlushFlags DEF Export
<1>10. CASE ShowAllNotes
  <2>1. PICK o \in FlushOutcome :
          /\ IF dirty THEN AfterSave(o, FALSE) ELSE UNCHANGED <<stored, dirty, known, failed>>
          /\ autosave' = FALSE
          /\ open' = o.saved
          /\ searching' \in {FALSE, searching}
    BY <1>10 DEF ShowAllNotes
  <2>2. o.saved \in BOOLEAN
    BY OutcomeSaved
  <2> QED
    BY <1>10, <2>1, <2>2 DEF ShowAllNotes, AfterSave
<1>11. CASE HideAllNotes \/ OpenDocumentation
  <2>1. CASE HideAllNotes
    BY <2>1, LoadFlags DEF HideAllNotes, Reload, CloseDialog
  <2>2. CASE OpenDocumentation
    BY <2>2, LoadFlags DEF OpenDocumentation, Reload, CloseDialog
  <2> QED
    BY <1>11, <2>1, <2>2
<1>12. CASE SearchNotes \/ SearchTimeout \/ ChooseDocset \/ EditNote
            \/ \E p \in NotePage : ChooseNote(p)
  BY <1>12 DEF SearchNotes, SearchTimeout, ChooseDocset, EditNote, ChooseNote
<1>13. CASE SaveCurrent \/ ConfirmDelete
  BY <1>13 DEF SaveCurrent, ConfirmDelete
<1>14. CASE Launch
  BY <1>14, LoadFlags DEF Launch
<1>15. CASE Quit \/ Crash
  BY <1>15 DEF Quit, Crash, Gone, CloseDialog
<1> QED
  BY <1>1, <1>2, <1>3, <1>4, <1>5, <1>6, <1>7, <1>8, <1>9, <1>10, <1>11, <1>12,
     <1>13, <1>14, <1>15 DEF Next

\* Every variable keeps its type.
THEOREM TypeCorrect == Spec => []TypeOK
<1>1. Inv /\ Flags => TypeOK
  BY DEF Inv, Shape, Kept, Panel, Dialog, Modal, TypeOK
<1> QED
  BY <1>1, InvInit, InvNext, FlagsInit, FlagsNext, PTL DEF Spec

-----------------------------------------------------------------------------
(* What the editor shows.  A page that is known, or has no row, is shown as it  *)
(* is stored, unless it was edited, a failure is reported or the dialog, which  *)
(* writes behind the panel, is open; and only under the dialog is a question    *)
(* asked whose answer erases a row.                                            *)

Shows ==
  ~dirty /\ ~failed /\ ~open /\ page # NoPage /\ (known \/ stored[page] = None)
    => text = Content(stored, page)
Asked == box # None /\ box.kind = "delete" => open
\* A process that is gone has nothing unsaved.
Idle == ~running => ~dirty
Shared == Shows /\ Asked /\ Idle

LEMMA LoadShows ==
  ASSUME NEW table, NEW p, Load(p, table), stored' = table
  PROVE  Shows'
  BY DEF Load, Shows, Content

LEMMA WrittenContent ==
  ASSUME Kept(stored), Panel, page # NoPage
  PROVE  Content(Written, page) = text
<1>1. page \in NotePage /\ text # None
  BY Names DEF Panel, Shown
<1> QED
  BY <1>1 DEF Written, Content, Kept

\* What a save that succeeds has written is what the editor shows.
LEMMA SaveShows ==
  ASSUME Kept(stored), Panel, NEW explicit \in BOOLEAN, NEW o \in Outcome(explicit),
         AfterSave(o, explicit), UNCHANGED <<page, text>>
  PROVE  Shows'
<1> SUFFICES ASSUME ~failed', page # NoPage, known' \/ stored'[page] = None
             PROVE  text = Content(stored', page)
  BY DEF Shows, Content
<1>1. o.saved /\ stored' = o.stored
  BY OutcomeSaved DEF AfterSave
<1>2. CASE IsDraft(explicit)
  <2>1. o = [saved |-> TRUE, stored |-> stored] /\ text = {} /\ ~known
    BY <1>2 DEF Outcome, IsDraft
  <2>2. stored' = stored /\ ~known'
    BY <1>1, <1>2, <2>1 DEF AfterSave
  <2> QED
    BY <2>1, <2>2 DEF Content
<1>3. CASE ~IsDraft(explicit)
  <2>1. o.stored = Written
    BY <1>1, <1>3 DEF Outcome
  <2> QED
    BY <1>1, <2>1, WrittenContent
<1> QED
  BY <1>2, <1>3

LEMMA FlushShows ==
  ASSUME Kept(stored), Panel, Shows, Flush, UNCHANGED <<page, text, open>>
  PROVE  Shows'
<1>1. CASE dirty
  BY <1>1, SaveShows DEF Flush, Save
<1>2. CASE ~dirty
  BY <1>2 DEF Flush, Shows, Content
<1> QED
  BY <1>1, <1>2

LEMMA SetPageShows ==
  ASSUME Shows, NEW p, SetPage(p), UNCHANGED open
  PROVE  Shows'
<1>1. CASE p = page /\ p # NoPage
  BY <1>1 DEF SetPage, panel, Shows, Content
<1>2. CASE ~(p = page /\ p # NoPage)
  <2>1. PICK o \in FlushOutcome :
          /\ stored' = o.stored
          /\ IF o.saved THEN Load(p, o.stored) ELSE failed' = TRUE
    BY <1>2 DEF SetPage
  <2>2. CASE o.saved
    BY <2>1, <2>2, LoadShows
  <2>3. CASE ~o.saved
    BY <2>1, <2>3 DEF Shows
  <2> QED
    BY <2>2, <2>3
<1> QED
  BY <1>1, <1>2

LEMMA ShowsStays ==
  ASSUME Shows, UNCHANGED <<page, known, text, dirty, failed, stored, open>>
  PROVE  Shows'
  BY DEF Shows, Content
LEMMA AskedStays == ASSUME Asked, UNCHANGED <<open, box>> PROVE Asked'
  BY DEF Asked

LEMMA WindowShares ==
  ASSUME Inv, Shared,
         \/ \E p \in Shown : Follow(p) \/ SwitchTab(p) \/ CloseTab(p)
         \/ UrlChanged \/ TitleChanged \/ RestoreLastDocumentation
  PROVE  Shared'
<1>1. running' = running /\ running /\ UNCHANGED <<open, box>>
  BY DEF Follow, SwitchTab, CloseTab, UrlChanged, TitleChanged, RestoreLastDocumentation,
         PanelInput, dialog
<1>2. \/ UNCHANGED <<page, known, text, dirty, failed, stored>>
      \/ \E p : SetPage(p)
      \/ Flush /\ UNCHANGED <<page, text>>
  <2>1. ASSUME NEW p \in Shown, Follow(p)
        PROVE  UNCHANGED <<page, known, text, dirty, failed, stored>>
    BY <2>1 DEF Follow, panel
  <2>2. ASSUME NEW p \in Shown, SwitchTab(p) PROVE SetPage(p)
    BY <2>2 DEF SwitchTab, SyncLearningNotes
  <2>3. ASSUME NEW p \in Shown, CloseTab(p) PROVE SetPage(p) \/ (Flush /\ UNCHANGED <<page, text>>)
    BY <2>3 DEF CloseTab
  <2>4. CASE UrlChanged \/ TitleChanged
    BY <2>4 DEF UrlChanged, TitleChanged, SyncLearningNotes
  <2>5. CASE RestoreLastDocumentation
    BY <2>5 DEF RestoreLastDocumentation, panel
  <2> QED
    BY <2>1, <2>2, <2>3, <2>4, <2>5
<1>3. Shows'
  BY <1>1, <1>2, ShowsStays, SetPageShows, FlushShows DEF Shared, Inv
<1> QED
  BY <1>1, <1>3, AskedStays DEF Shared, Idle

LEMMA EditorShares ==
  ASSUME Inv, Shared,
         Type \/ AddSelection \/ AutoSave \/ SaveNote \/ StartNote \/ AskClear \/ ConfirmClear \/ Export
  PROVE  Shared'
<1>1. running' = running /\ running /\ UNCHANGED open
  BY DEF Type, AddSelection, AutoSave, SaveNote, StartNote, AskClear, ConfirmClear, Export,
         PanelInput, dialog
<1>2. Asked'
  <2>1. CASE AskClear \/ ConfirmClear
    <3>1. box' = None \/ box' = [kind |-> "clear", about |-> page]
      BY <2>1 DEF AskClear, ConfirmClear
    <3> QED
      BY <3>1 DEF Asked
  <2>2. CASE box' = box
    BY <1>1, <2>2, AskedStays DEF Shared
  <2> QED
    BY <2>1, <2>2 DEF Type, AddSelection, AutoSave, SaveNote, StartNote, Export
<1>3. Shows'
  <2>1. CASE Type \/ AddSelection
    <3>1. dirty'
      BY <2>1 DEF Type, AddSelection, Edited
    <3> QED
      BY <3>1 DEF Shows
  <2>2. CASE AutoSave \/ SaveNote
    <3>1. PICK explicit \in BOOLEAN : Save(explicit) /\ UNCHANGED <<page, text>>
      BY <2>2 DEF AutoSave, SaveNote
    <3> QED
      BY <3>1, SaveShows DEF Save, Inv
  <2>3. CASE StartNote
    BY <1>1, <2>3, SetPageShows DEF StartNote, Shared
  <2>4. CASE AskClear
    BY <2>4, ShowsStays DEF AskClear, Shared, panel, dialog
  <2>5. CASE ConfirmClear
    <3>1. CASE page = NoPage
      BY <1>1, <2>5, <3>1, ShowsStays DEF ConfirmClear, Shared, panel
    <3>2. CASE page # NoPage
      <4>1. dirty'
        BY <2>5, <3>2 DEF ConfirmClear, Edited
      <4> QED
        BY <4>1 DEF Shows
    <3> QED
      BY <3>1, <3>2
  <2>6. CASE Export
    BY <1>1, <2>6, FlushShows DEF Export, Shared, Inv
  <2> QED
    BY <2>1, <2>2, <2>3, <2>4, <2>5, <2>6
<1> QED
  BY <1>1, <1>2, <1>3 DEF Shared, Idle

\* The steps of the dialog, under which the editor may be out of date.
LEMMA DialogShares ==
  ASSUME Inv, Shared,
         \/ SearchNotes \/ SearchTimeout \/ ChooseDocset \/ EditNote
         \/ \E p \in NotePage : ChooseNote(p)
         \/ SaveCurrent \/ AskDelete \/ ConfirmDelete \/ DismissBox
  PROVE  Shared'
<1>1. running' = running /\ running
  BY DEF SearchNotes, SearchTimeout, ChooseDocset, EditNote, ChooseNote, SaveCurrent, AskDelete,
         ConfirmDelete, DismissBox, DialogInput
<1>2. CASE DismissBox
  BY <1>1, <1>2, ShowsStays DEF DismissBox, Shared, Asked, Idle, panel, dialog
<1>3. CASE ~DismissBox
  <2>1. open /\ open' = open
    BY <1>3 DEF SearchNotes, SearchTimeout, ChooseDocset, EditNote, ChooseNote, SaveCurrent, AskDelete,
         ConfirmDelete, DialogInput, dialog, Shared, Asked
  <2> QED
    BY <1>1, <2>1 DEF Shared, Shows, Asked, Idle
<1> QED
  BY <1>2, <1>3

LEMMA ShowingShares ==
  ASSUME Inv, Shared, ShowAllNotes \/ HideAllNotes \/ OpenDocumentation
  PROVE  Shared'
<1>1. CASE ShowAllNotes
  <2>1. PICK o \in FlushOutcome :
          /\ IF dirty THEN AfterSave(o, FALSE) ELSE UNCHANGED <<stored, dirty, known, failed>>
          /\ open' = o.saved
    BY <1>1 DEF ShowAllNotes
  <2>2. o.saved \in BOOLEAN
    BY OutcomeSaved
  <2>3. open' \/ failed'
    <3>1. CASE dirty
      BY <2>1, <2>2, <3>1 DEF AfterSave
    <3>2. CASE ~dirty
      <4>1. o = [saved |-> TRUE, stored |-> stored]
        BY <3>2 DEF FlushOutcome
      <4> QED
        BY <2>1, <4>1
    <3> QED
      BY <3>1, <3>2
  <2>4. box = None /\ box' = None /\ running /\ running' = running
    BY <1>1 DEF ShowAllNotes, PanelInput
  <2> QED
    BY <2>3, <2>4 DEF Shared, Shows, Asked, Idle
<1>2. CASE HideAllNotes \/ OpenDocumentation
  <2>1. /\ open /\ box = None /\ box' = None /\ running /\ running' = running
        /\ (\E p : Reload(p)) /\ stored' = stored
    BY <1>2 DEF HideAllNotes, OpenDocumentation, DialogInput
  <2>2. PICK p : Load(p, stored)
    BY <2>1 DEF Reload, Inv, Modal
  <2> QED
    BY <2>1, <2>2, LoadShows DEF Shared, Asked, Idle
<1> QED
  BY <1>1, <1>2

LEMMA ProcessShares ==
  ASSUME Inv, Shared, Launch \/ Quit \/ Crash
  PROVE  Shared'
<1>1. CASE Launch
  <2>1. Load(Start, stored) /\ stored' = stored /\ running' /\ UNCHANGED <<open, box>>
    BY <1>1 DEF Launch, dialog
  <2> QED
    BY <2>1, LoadShows, AskedStays DEF Shared, Idle
<1>2. CASE Quit \/ Crash
  <2>1. Gone
    BY <1>2 DEF Quit, Crash
  <2> QED
    BY <2>1, Names DEF Gone, Shared, Shows, Asked, Idle, Content
<1> QED
  BY <1>1, <1>2

LEMMA SharedInit == Init => Shared
  BY Names DEF Init, Shared, Shows, Asked, Idle, Content

LEMMA SharedNext == Inv /\ Shared /\ [Next]_vars => Shared'
<1> SUFFICES ASSUME Inv, Shared, [Next]_vars PROVE Shared'
  OBVIOUS
<1>1. CASE UNCHANGED vars
  BY <1>1, ShowsStays, AskedStays DEF vars, panel, dialog, Shared, Idle
<1>2. CASE Next
  BY <1>2, WindowShares, EditorShares, DialogShares, ShowingShares, ProcessShares DEF Next
<1> QED
  BY <1>1, <1>2

LEMMA SharedAlways == Spec => [](Inv /\ Shared)
  BY InvInit, InvNext, SharedInit, SharedNext, PTL DEF Spec

\* When nothing is unsaved and no failure is reported, the editor shows the note
\* that is stored for its page, whatever the dialog has written or erased in between
\* (learningnotespanel.cpp:566-707).
THEOREM EditorIsTheStoredNote == Spec => []EditorShowsStored
<1>1. Shared => EditorShowsStored
  BY DEF Shared, Shows, EditorShowsStored, Unread
<1> QED
  BY <1>1, SharedAlways, PTL

-----------------------------------------------------------------------------
(* What a step does to an unsaved edit.                                       *)

Lost == dirty /\ (text' # text \/ page' # page)
IsKept == Content(stored', page) = text \/ (Unread /\ text = {})

\* A save that succeeds has the edit in the store, or had nothing to put there.
LEMMA SavedIsKept ==
  ASSUME Kept(stored), Panel, dirty, NEW o \in FlushOutcome, o.saved, stored' = o.stored
  PROVE  IsKept
<1>1. o \in Outcome(FALSE) /\ page # NoPage
  BY DEF FlushOutcome, Panel
<1>2. CASE IsDraft(FALSE)
  <2>1. o = [saved |-> TRUE, stored |-> stored] /\ text = {} /\ ~known
    BY <1>1, <1>2 DEF Outcome, IsDraft
  <2> QED
    BY <1>1, <2>1 DEF IsKept, Unread, Content
<1>3. CASE ~IsDraft(FALSE)
  <2>1. o.stored = Written
    BY <1>1, <1>3 DEF Outcome
  <2> QED
    BY <1>1, <2>1, WrittenContent DEF IsKept
<1> QED
  BY <1>2, <1>3

LEMMA SetPageIsKept ==
  ASSUME Kept(stored), Panel, NEW p, SetPage(p), Lost
  PROVE  IsKept
<1>1. ~(p = page /\ p # NoPage)
  BY DEF SetPage, panel, Lost
<1>2. PICK o \in FlushOutcome :
        /\ stored' = o.stored
        /\ IF o.saved THEN Load(p, o.stored) ELSE UNCHANGED <<page, text>>
  BY <1>1 DEF SetPage
<1>3. o.saved
  BY <1>2 DEF Lost
<1> QED
  BY <1>2, <1>3, SavedIsKept DEF Lost

LEMMA StepKeepsEdits ==
  ASSUME Inv, Shared, Next, Lost
  PROVE  IsKept \/ Type \/ AddSelection \/ ConfirmClear \/ ~running'
<1>1. dirty /\ running /\ ~open
  BY DEF Lost, Inv, Modal, Shared, Idle
<1>2. ASSUME NEW p \in Shown, Follow(p) \/ SwitchTab(p) \/ CloseTab(p) PROVE IsKept
  <2>1. ~Follow(p)
    BY DEF Follow, panel, Lost
  <2>2. CASE SwitchTab(p)
    BY <2>2, SetPageIsKept DEF SwitchTab, SyncLearningNotes, Inv
  <2>3. CASE CloseTab(p)
    <3>1. SetPage(p) \/ UNCHANGED <<page, text>>
      BY <2>3 DEF CloseTab
    <3> QED
      BY <3>1, SetPageIsKept DEF Inv, Lost
  <2> QED
    BY <1>2, <2>1, <2>2, <2>3
<1>3. CASE UrlChanged \/ TitleChanged
  BY <1>3, SetPageIsKept DEF UrlChanged, TitleChanged, SyncLearningNotes, Inv
<1>4. CASE StartNote
  BY <1>4, SetPageIsKept DEF StartNote, Inv
<1>5. ~ (RestoreLastDocumentation \/ AutoSave \/ SaveNote \/ AskClear \/ Export \/ ShowAllNotes)
  BY DEF RestoreLastDocumentation, AutoSave, SaveNote, AskClear, Export, ShowAllNotes, panel, Lost
<1>6. ~ (HideAllNotes \/ SearchNotes \/ SearchTimeout \/ ChooseDocset \/ EditNote
         \/ SaveCurrent \/ AskDelete \/ ConfirmDelete \/ DismissBox \/ OpenDocumentation \/ Launch)
  BY <1>1 DEF HideAllNotes, SearchNotes, SearchTimeout, ChooseDocset, EditNote, SaveCurrent,
     AskDelete, ConfirmDelete, DismissBox, OpenDocumentation, Launch, DialogInput, panel, Lost
<1>7. ~ \E p \in NotePage : ChooseNote(p)
  BY <1>1 DEF ChooseNote, DialogInput
<1>8. CASE Quit \/ Crash
  BY <1>8 DEF Quit, Crash, Gone
<1> QED
  BY <1>2, <1>3, <1>4, <1>5, <1>6, <1>7, <1>8 DEF Next

\* An unsaved edit leaves the editor only into the store, unless the user changes it
\* himself or the process ends: however saves fail, and whatever page, dialog or
\* timer comes in between (learningnotespanel.cpp:363-624).
THEOREM EditsStay == Spec => EditsAreKept
<1>1. Inv /\ Shared /\ [Next]_vars =>
        [dirty /\ (text' # text \/ page' # page) =>
           \/ Content(stored', page) = text
           \/ Unread /\ text = {}
           \/ Type \/ AddSelection \/ ConfirmClear \/ ~running']_vars
  BY StepKeepsEdits DEF Lost, IsKept
<1> QED
  BY <1>1, SharedAlways, PTL DEF Spec, EditsAreKept

-----------------------------------------------------------------------------
(* The page that is restored.                                                 *)

LEMMA Pair ==
  ASSUME NEW a, NEW b
  PROVE  Append(<<a>>, b) = <<a, b>> /\ SubSeq(<<a, b>>, 1, 1) = <<a>> /\ Len(<<a, b>>) - 1 = 1
<1> DEFINE S == {a, b}
<1>1. /\ <<a>> \in Seq(S) /\ Len(<<a>>) = 1 /\ <<a>>[1] = a
      /\ <<a, b>> \in Seq(S) /\ Len(<<a, b>>) = 2 /\ <<a, b>>[1] = a /\ <<a, b>>[2] = b
      /\ a \in S /\ b \in S
  OBVIOUS
<1> HIDE DEF S
<1>2. Append(<<a>>, b) = <<a, b>>
  <2>1. \A s \in Seq(S) : \A e \in S :
          /\ Append(s, e) \in Seq(S) /\ Len(Append(s, e)) = Len(s) + 1
          /\ \A i \in 1 .. Len(s) : Append(s, e)[i] = s[i]
          /\ Append(s, e)[Len(s) + 1] = e
    OBVIOUS
  <2> DEFINE t == Append(<<a>>, b)
  <2>2. t \in Seq(S) /\ Len(t) = 2 /\ t[1] = a /\ t[2] = b
    BY <1>1, <2>1
  <2> HIDE DEF t
  <2>3. \A i \in 1 .. 2 : i = 1 \/ i = 2
    OBVIOUS
  <2>4. t = <<a, b>>
    BY <1>1, <2>2, <2>3, SeqEqual
  <2> QED
    BY <2>4 DEF t
<1>3. SubSeq(<<a, b>>, 1, 1) = <<a>>
  <2> DEFINE t == SubSeq(<<a, b>>, 1, 1)
  <2>1. \A i \in 1 .. 1 : <<a, b>>[i] \in S
    BY <1>1
  <2>2. t \in Seq(S) /\ Len(t) = 1 /\ t[1] = a
    BY <1>1, <2>1, SubSeqProperties
  <2> HIDE DEF t
  <2>3. \A i \in 1 .. 1 : i = 1
    OBVIOUS
  <2>4. t = <<a>>
    BY <1>1, <2>2, <2>3, SeqEqual
  <2> QED
    BY <2>4 DEF t
<1> QED
  BY <1>1, <1>2, <1>3

\* A docset's address made a directory, and a path resolved in it, is the page.
LEMMA AddressOfPage ==
  ASSUME NEW d \in Docset, NEW i \in Path
  PROVE  PageAt(Resolved(DirectoryUrl(BaseUrl(d)), i)) = [docset |-> d, path |-> i]
<1>1. DirectoryUrl(BaseUrl(d)) = <<d, "">>
  <2>1. Len(<<d>>) = 1 /\ <<d>>[1] = d /\ d # ""
    BY NameAssumption
  <2>2. Append(<<d>>, "") = <<d, "">>
    BY Pair
  <2> QED
    BY <2>1, <2>2 DEF DirectoryUrl, BaseUrl
<1>2. Resolved(<<d, "">>, i) = <<d, i>>
  <2>1. Len(<<d, "">>) - 1 = 1 /\ SubSeq(<<d, "">>, 1, 1) = <<d>> /\ Append(<<d>>, i) = <<d, i>>
    BY Pair
  <2> QED
    BY <2>1 DEF Resolved
<1>3. PageAt(<<d, i>>) = [docset |-> d, path |-> i]
  BY DEF PageAt
<1> QED
  BY <1>1, <1>2, <1>3

\* After a restart the page that was shown last is opened, or none: never another
\* page, for any docset that has a name (mainwindow.cpp:427-474).
THEOREM LastPageComesBack == Spec => RestoresLastPage
<1>1. ASSUME Inv, RestoreLastDocumentation PROVE loading' \in {last, loading}
  <2>1. CASE UNCHANGED loading
    BY <2>1
  <2>2. CASE last # None /\ loading' = PageAt(Resolved(DirectoryUrl(BaseUrl(last.docset)), last.path))
    <3>1. last \in Page
      BY <1>1, <2>2 DEF Inv, Shape
    <3>2. PICK d \in Docset, i \in Path : last = [docset |-> d, path |-> i]
      BY <3>1 DEF Page
    <3>3. last.docset = d /\ last.path = i
      BY <3>2
    <3> QED
      BY <2>2, <3>2, <3>3, AddressOfPage
  <2> QED
    BY <1>1, <2>1, <2>2 DEF RestoreLastDocumentation
<1>2. Inv => [RestoreLastDocumentation => loading' \in {last, loading}]_vars
  BY <1>1
<1> QED
  BY <1>2, InvInit, InvNext, PTL DEF Spec, RestoresLastPage
=============================================================================
