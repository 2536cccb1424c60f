--------------------------- MODULE LearningNotes ---------------------------
(* Learning notes: the panel beside the documentation, which follows the    *)
(* page of the current tab and saves by a timer; the all-notes dialog; the   *)
(* SQLite store both write to.  A modal dialog or question runs a nested     *)
(* event loop: no input reaches the window behind it, but page changes and   *)
(* timers do.                                                                *)
EXTENDS Naturals, Sequences, FiniteSets

CONSTANTS
  Docset, Path,
  Word,           \* what can be put into a note
  Start,          \* the scratchpad, and what the start page and other sites stand for
  NoPage,         \* a docset's address that names no document
  None

\* A page is known by its docset and the path inside it.
Page == {[docset |-> d, path |-> i] : d \in Docset, i \in Path}
NotePage == Page \cup {Start}
Shown == NotePage \cup {NoPage}

\* A text is told by the words in it and the page each was put in for.
Fragment == NotePage \X Word
For(p) == {p} \X Word
Text == SUBSET Fragment

ASSUME NotesAssumption ==
  /\ Start \notin Page /\ NoPage \notin NotePage
  /\ None \notin Shown /\ \A t \in Text : t # None
\* An empty name is taken for no docset when a page is restored.
ASSUME NameAssumption == "" \notin Docset

VARIABLES
  running,        \* the process exists
  shown,          \* what the URL of the current tab stands for
  loading,        \* the page the current tab is loading, or None
  last,           \* lastDocumentationDocsetId and -PagePath in the settings
  restored,       \* m_lastDocumentationRestoreAttempted
  page, known,    \* m_note.page; m_note.id # 0
  text,           \* the editor
  dirty, autosave, failed,  \* m_dirty, m_autoSaveTimer, the status "Save failed"
  stored,         \* the notes table
  open,           \* the all-notes dialog is shown
  rows,           \* m_notes of the dialog, its list: page -> content
  current, edit,  \* current row and the dialog's editor
  searching,      \* m_searchTimer
  box             \* the question that is shown, or None

window == <<shown, loading, last, restored>>
panel == <<page, known, text, dirty, autosave, failed>>
dialog == <<open, rows, current, edit, searching>>
vars == <<running, window, panel, stored, dialog, box>>

Box == [kind : {"clear"}, about : NotePage]
       \cup [kind : {"delete"}, about : NotePage, fresh : BOOLEAN]
ASSUME BoxAssumption == \A b \in Box : b # None

Flags ==
  /\ running \in BOOLEAN /\ restored \in BOOLEAN /\ known \in BOOLEAN
  /\ dirty \in BOOLEAN /\ autosave \in BOOLEAN /\ failed \in BOOLEAN
  /\ open \in BOOLEAN /\ searching \in BOOLEAN

TypeOK ==
  /\ Flags
  /\ shown \in Shown /\ loading \in Shown \cup {None}
  /\ last \in Page \cup {None}
  /\ page \in Shown /\ text \in Text
  /\ stored \in [NotePage -> Text \cup {None}]
  /\ \E S \in SUBSET NotePage : rows \in [S -> Text]
  /\ current \in DOMAIN rows \cup {None}
  /\ edit \in Text
  /\ box = None \/ box \in Box

Content(s, p) == IF s[p] = None THEN {} ELSE s[p]

\* Input reaches the panel only when nothing modal is above it.
PanelInput == running /\ ~open /\ box = None
DialogInput == running /\ open /\ box = None

-----------------------------------------------------------------------------
(* URLs, as the segments after the host.                                   *)

\* The address a docset is mounted at has no trailing slash.
BaseUrl(d) == <<d>>
\* Mutant: the address is taken as it is.
UrlAsGiven(url) == url
DirectoryUrl(url) == IF url[Len(url)] = "" THEN url ELSE Append(url, "")
UrlOf(p) == <<p.docset, p.path>>

\* QUrl::resolved replaces what follows the last slash.
Resolved(base, path) == Append(SubSeq(base, 1, Len(base) - 1), path)

\* docsetForUrl and LearningNotePage::fromUrl.
PageAt(url) ==
  IF Len(url) < 2 \/ url[1] \notin Docset
  THEN Start
  ELSE IF url[2] \in Path THEN [docset |-> url[1], path |-> url[2]] ELSE NoPage

-----------------------------------------------------------------------------
(* Saving and loading.                                                     *)

\* What save can end in.  A new, empty draft is not inserted; else the row is
\* written and read again, and either can fail.
IsDraft(explicit) == ~explicit /\ ~known /\ text = {}
Written == [stored EXCEPT ![page] = text]
Outcome(explicit) ==
  IF IsDraft(explicit)
  THEN {[saved |-> TRUE, stored |-> stored]}
  ELSE {[saved |-> TRUE, stored |-> Written]}
       \cup {[saved |-> FALSE, stored |-> s] : s \in {stored, Written}}

\* Mutant: the status says nothing.
AfterSaveUntold(o, explicit) ==
  /\ stored' = o.stored
  /\ dirty' = (dirty /\ ~o.saved)
  /\ known' = (known \/ (o.saved /\ ~IsDraft(explicit)))
  /\ failed' = FALSE

AfterSave(o, explicit) ==
  /\ stored' = o.stored
  /\ dirty' = (dirty /\ ~o.saved)
  /\ known' = (known \/ (o.saved /\ ~IsDraft(explicit)))
  /\ failed' = ~o.saved

Save(explicit) == \E o \in Outcome(explicit) : AfterSave(o, explicit)

FlushOutcome == IF dirty THEN Outcome(FALSE) ELSE {[saved |-> TRUE, stored |-> stored]}

Flush ==
  /\ autosave' = FALSE
  /\ IF dirty THEN Save(FALSE) ELSE UNCHANGED <<stored, dirty, known, failed>>

\* Mutant of Load: the editor is filled without being emptied first.
LoadOver(p, table) ==
  /\ page' = p
  /\ dirty' = FALSE /\ autosave' = FALSE
  /\ known' = (p # NoPage /\ table[p] # None)
  /\ text' = IF p # NoPage /\ table[p] # None THEN table[p] ELSE text
  /\ failed' = FALSE

\* The editor is emptied and filled with the note of p, if it can be read.
Load(p, table) ==
  /\ page' = p
  /\ dirty' = FALSE /\ autosave' = FALSE
  /\ \E readable \in BOOLEAN :
       /\ known' = (p # NoPage /\ readable /\ table[p] # None)
       /\ text' = IF p # NoPage /\ readable THEN Content(table, p) ELSE {}
       /\ failed' = (p # NoPage /\ ~readable)

\* Mutants of SetPage: the page is set before the flush; the result of the flush
\* is not looked at.
SetPageFirst(p) ==
  IF p = page /\ p # NoPage
  THEN UNCHANGED <<panel, stored>>
  ELSE LET table == IF dirty /\ p # NoPage THEN [stored EXCEPT ![p] = text] ELSE stored
       IN stored' = table /\ Load(p, table)
SetPageAnyway(p) ==
  IF p = page /\ p # NoPage
  THEN UNCHANGED <<panel, stored>>
  ELSE \E o \in FlushOutcome : stored' = o.stored /\ Load(p, o.stored)

\* A note that cannot be saved keeps its page in the panel.
SetPage(p) ==
  IF p = page /\ p # NoPage
  THEN UNCHANGED <<panel, stored>>
  ELSE \E o \in FlushOutcome :
         /\ stored' = o.stored
         /\ IF o.saved
            THEN Load(p, o.stored)
            ELSE autosave' = FALSE /\ failed' = TRUE /\ UNCHANGED <<page, known, text, dirty>>

-----------------------------------------------------------------------------
(* The window and its current tab.                                         *)

\* syncLearningNotes: the panel is told the page; what it answers is ignored.
SyncLearningNotes(p) ==
  /\ SetPage(p)
  /\ last' = IF p \in Page THEN p ELSE last

\* The user follows a link or opens a search result.
Follow(p) ==
  /\ PanelInput /\ loading = None
  /\ loading' = p
  /\ UNCHANGED <<running, shown, last, restored, panel, stored, dialog, box>>

\* The load commits, whatever is modal by then.
UrlChanged ==
  /\ running /\ loading # None
  /\ shown' = loading /\ loading' = None
  /\ SyncLearningNotes(loading)
  /\ UNCHANGED <<running, restored, dialog, box>>

TitleChanged ==
  /\ running
  /\ SyncLearningNotes(shown)
  /\ UNCHANGED <<running, shown, loading, restored, dialog, box>>

SwitchTab(p) ==
  /\ PanelInput /\ loading = None
  /\ shown' = p
  /\ SyncLearningNotes(p)
  /\ UNCHANGED <<running, loading, restored, dialog, box>>

\* closeTab flushes, then the next tab's page is set, which flushes what is left.
CloseTab(p) ==
  /\ PanelInput /\ loading = None
  /\ shown' = p
  /\ last' = IF p \in Page THEN p ELSE last
  /\ IF p = page /\ p # NoPage THEN Flush /\ UNCHANGED <<page, text>> ELSE SetPage(p)
  /\ UNCHANGED <<running, loading, restored, dialog, box>>

\* restoreLastDocumentation, once the docsets are loaded.
RestoreLastDocumentation ==
  /\ running /\ ~restored
  /\ restored' = TRUE
  /\ \/ last = None /\ UNCHANGED <<loading, last>>
     \/ last # None /\ last' = None /\ UNCHANGED loading  \* no longer there
     \/ /\ last # None /\ UNCHANGED last
        /\ loading' = PageAt(Resolved(DirectoryUrl(BaseUrl(last.docset)), last.path))
  /\ UNCHANGED <<running, shown, panel, stored, dialog, box>>

-----------------------------------------------------------------------------
(* The panel.                                                              *)

\* Mutant: the timer is not started.
EditedUntimed(t) ==
  /\ text' = t
  /\ dirty' = TRUE /\ failed' = FALSE /\ UNCHANGED autosave
\* textChanged, with a page in the panel.
Edited(t) ==
  /\ text' = t
  /\ dirty' = TRUE /\ autosave' = TRUE /\ failed' = FALSE

Type ==
  /\ PanelInput /\ page # NoPage
  /\ \E t \in SUBSET (text \cup For(page)) : t # text /\ Edited(t)
  /\ UNCHANGED <<running, window, page, known, stored, dialog, box>>

\* appendSelection, of what is selected in the current tab.
AddSelection ==
  /\ PanelInput /\ page \notin {NoPage, Start}
  /\ \E w \in Word : Edited(text \cup {<<page, w>>})
  /\ UNCHANGED <<running, window, page, known, stored, dialog, box>>

AutoSave ==
  /\ running /\ autosave
  /\ autosave' = FALSE
  /\ Save(FALSE)
  /\ UNCHANGED <<running, window, page, text, dialog, box>>

SaveNote ==
  /\ PanelInput /\ page # NoPage
  /\ Save(TRUE)
  /\ UNCHANGED <<running, window, page, text, autosave, dialog, box>>

StartNote ==
  /\ PanelInput
  /\ SetPage(Start)
  /\ UNCHANGED <<running, window, dialog, box>>

AskClear ==
  /\ PanelInput /\ text # {}
  /\ box' = [kind |-> "clear", about |-> page]
  /\ UNCHANGED <<running, window, panel, stored, dialog>>

\* The editor is cleared, whatever it holds now.
ConfirmClear ==
  /\ running /\ box # None /\ box.kind = "clear"
  /\ box' = None
  /\ IF page = NoPage THEN UNCHANGED panel ELSE Edited({}) /\ UNCHANGED <<page, known>>
  /\ UNCHANGED <<running, window, stored, dialog>>

\* exportNote, exportAllNotes and backupDatabase write files from what a flush left.
Export ==
  /\ PanelInput
  /\ Flush
  /\ UNCHANGED <<running, window, page, text, dialog, box>>

-----------------------------------------------------------------------------
(* The all-notes dialog.                                                   *)

NoRows == [p \in {} |-> {}]

\* refresh: the notes the search finds, or none if it fails; the row stays on its
\* note, or else goes to the newest, and the editor shows it.
Refresh(table) ==
  /\ \E S \in SUBSET {p \in NotePage : table[p] # None} :
       /\ rows' = [p \in S |-> table[p]]
       /\ \/ current \in S /\ current' = current
          \/ current \notin S /\ S # {} /\ current' \in S
          \/ S = {} /\ current' = None
       /\ edit' = IF current' = None THEN {} ELSE rows'[current']

CloseDialog ==
  /\ open' = FALSE /\ rows' = NoRows /\ current' = None /\ edit' = {}
  /\ searching' = FALSE

\* showAllNotes, up to exec.
ShowAllNotes ==
  /\ PanelInput
  /\ \E o \in FlushOutcome :
       /\ IF dirty THEN AfterSave(o, FALSE) ELSE UNCHANGED <<stored, dirty, known, failed>>
       /\ autosave' = FALSE
       /\ open' = o.saved
       /\ IF o.saved
          THEN searching' = FALSE /\ Refresh(o.stored)
          ELSE UNCHANGED <<rows, current, edit, searching>>
  /\ UNCHANGED <<running, window, page, text, box>>

\* showAllNotes, after exec: m_note is dropped, then its page set again.  An edit
\* not saved by then could not be: it has lost its page.
Reload(p) ==
  IF dirty
  THEN /\ page' = NoPage /\ known' = FALSE /\ autosave' = FALSE
       /\ UNCHANGED <<text, dirty, failed>>
  ELSE Load(p, stored)

HideAllNotes ==
  /\ DialogInput
  /\ CloseDialog
  /\ Reload(page)
  /\ UNCHANGED <<running, window, stored, box>>

SearchNotes ==
  /\ DialogInput
  /\ searching' = TRUE
  /\ UNCHANGED <<running, window, panel, stored, open, rows, current, edit, box>>

\* The search timer, which also fires under the question, and frees the rows the
\* question's handler points into.
SearchTimeout ==
  /\ running /\ open /\ searching
  /\ searching' = FALSE
  /\ Refresh(stored)
  /\ box' = IF box = None THEN None ELSE [box EXCEPT !.fresh = FALSE]
  /\ UNCHANGED <<running, window, panel, stored, open>>

ChooseDocset ==
  /\ DialogInput
  /\ Refresh(stored)
  /\ UNCHANGED <<running, window, panel, stored, open, searching, box>>

ChooseNote(p) ==
  /\ DialogInput /\ p \in DOMAIN rows /\ p # current
  /\ current' = p /\ edit' = rows[p]
  /\ UNCHANGED <<running, window, panel, stored, open, rows, searching, box>>

EditNote ==
  /\ DialogInput /\ current # None
  /\ edit' \in SUBSET (edit \cup For(current))
  /\ UNCHANGED <<running, window, panel, stored, open, rows, current, searching, box>>

SaveCurrent ==
  /\ DialogInput /\ current # None
  /\ LET table == [stored EXCEPT ![current] = edit]
     IN \/ stored' = table /\ Refresh(table)
        \/ /\ stored' \in {stored, table}
           /\ rows' = [rows EXCEPT ![current] = edit]
           /\ UNCHANGED <<current, edit>>
  /\ UNCHANGED <<running, window, panel, open, searching, box>>

AskDelete ==
  /\ DialogInput /\ current # None
  /\ box' = [kind |-> "delete", about |-> current, fresh |-> TRUE]
  /\ UNCHANGED <<running, window, panel, stored, dialog>>

\* remove(note->id): of the note asked about, or, once its rows are freed, of
\* whatever the memory holds.
ConfirmDelete ==
  /\ running /\ box # None /\ box.kind = "delete"
  /\ box' = None
  /\ \/ UNCHANGED <<stored, rows, current, edit>>
     \/ \E p \in IF box.fresh THEN {box.about} ELSE NotePage :
          LET table == [stored EXCEPT ![p] = None]
          IN stored' = table /\ Refresh(table)
  /\ UNCHANGED <<running, window, panel, open, searching>>

DismissBox ==
  /\ running /\ box # None
  /\ box' = None
  /\ UNCHANGED <<running, window, panel, stored, dialog>>

\* openDocumentationRequested, then accept: a tab is created, which shows nothing
\* until its page has loaded.
OpenDocumentation ==
  /\ DialogInput /\ current # None
  /\ CloseDialog
  /\ \/ current = Start /\ Reload(Start) /\ UNCHANGED window
     \/ /\ current # Start
        /\ shown' = Start
        /\ loading' = PageAt(Resolved(BaseUrl(current.docset), current.path))
        /\ Reload(Start)
        /\ UNCHANGED <<last, restored>>
     \/ current # Start /\ Reload(page) /\ UNCHANGED window   \* no such docset
  /\ UNCHANGED <<running, stored, box>>

-----------------------------------------------------------------------------
(* The process.                                                            *)

Gone ==
  /\ running' = FALSE
  /\ shown' = Start /\ loading' = None /\ restored' = FALSE
  /\ page' = Start /\ known' = FALSE /\ text' = {}
  /\ dirty' = FALSE /\ autosave' = FALSE /\ failed' = FALSE
  /\ CloseDialog
  /\ box' = None

Init ==
  /\ running = FALSE
  /\ shown = Start /\ loading = None /\ last = None /\ restored = FALSE
  /\ page = Start /\ known = FALSE /\ text = {}
  /\ dirty = FALSE /\ autosave = FALSE /\ failed = FALSE
  /\ stored = [p \in NotePage |-> None]
  /\ open = FALSE /\ rows = NoRows /\ current = None /\ edit = {}
  /\ searching = FALSE
  /\ box = None

\* The panel starts on the Start Note, the first tab on the start page.
Launch ==
  /\ ~running
  /\ running' = TRUE
  /\ Load(Start, stored)
  /\ UNCHANGED <<window, stored, dialog, box>>

\* ~MainWindow flushes; nobody can be told that it failed.
Quit ==
  /\ PanelInput
  /\ \E o \in FlushOutcome : stored' = o.stored
  /\ Gone
  /\ UNCHANGED last

Crash ==
  /\ running
  /\ Gone
  /\ UNCHANGED <<stored, last>>

Next ==
  \/ \E p \in Shown : Follow(p) \/ SwitchTab(p) \/ CloseTab(p)
  \/ UrlChanged \/ TitleChanged \/ RestoreLastDocumentation
  \/ Type \/ AddSelection \/ AutoSave \/ SaveNote \/ StartNote
  \/ AskClear \/ ConfirmClear \/ Export
  \/ ShowAllNotes \/ HideAllNotes \/ SearchNotes \/ SearchTimeout
  \/ ChooseDocset \/ \E p \in NotePage : ChooseNote(p)
  \/ EditNote \/ SaveCurrent \/ AskDelete \/ ConfirmDelete \/ DismissBox
  \/ OpenDocumentation
  \/ Launch \/ Quit \/ Crash

Spec == Init /\ [][Next]_vars

\* A single-shot timer fires once the user pauses.
FairSpec == Spec /\ WF_vars(AutoSave)

-----------------------------------------------------------------------------
(* Properties.                                                             *)

\* What was put in for a page is only ever in that page's note, in the editor that
\* names it, or in its row of the dialog: saves that fail, pages that change under
\* a dialog and the dialog's own saves never carry it over.
NoCrossover ==
  /\ \A p \in NotePage : Content(stored, p) \subseteq For(p)
  /\ text \subseteq For(page)
  /\ \A p \in DOMAIN rows : rows[p] \subseteq For(p)
  /\ edit \subseteq For(current)

\* An unsaved edit has a page to be saved under, and its save is still to come or
\* reported as failed; under the dialog, which reloads the panel, there is none.
UnsavedIsPending ==
  dirty => page # NoPage /\ ~open /\ (autosave \/ failed)

\* A row the panel does not know of: it could not be read when the page was set, or
\* not read again after it was written.  An emptied editor is then a new draft, and
\* the row stays as it is.
Unread == page # NoPage /\ ~known /\ stored[page] # None

\* When nothing is unsaved and nothing failed, the editor shows the stored note.
EditorShowsStored ==
  running /\ ~dirty /\ ~failed /\ ~open /\ page # NoPage /\ ~Unread
    => text = Content(stored, page)

\* An unsaved edit leaves the editor only into the store, unless the user changes
\* it himself, the process dies, or it quits while the store refuses the note.
EditsAreKept ==
  [][dirty /\ (text' # text \/ page' # page) =>
       \/ Content(stored', page) = text
       \/ Unread /\ text = {}
       \/ Type \/ AddSelection \/ ConfirmClear \/ ~running']_vars

\* A page of the documentation comes back after a restart as the one left, if its
\* docset still has it.
RestoresLastPage ==
  [][RestoreLastDocumentation => loading' \in {last, loading}]_vars

\* An edit is saved in the end, or its failure shown, if the user pauses.
EditsGetSaved == dirty ~> ~dirty \/ failed

\* A note is erased only after a question about it
\* (docs/superpowers/specs/2026-07-13-learning-notes-mvp-design.md:35).
ErasesOnlyAsked ==
  [][(ConfirmClear => page = box.about \/ text = {})
     /\ (ConfirmDelete => \A p \in NotePage : stored'[p] # stored[p] => p = box.about)]_vars
=============================================================================
