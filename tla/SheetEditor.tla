---------------------------- MODULE SheetEditor ----------------------------
(***************************************************************************)
(* The spreadsheet of the unit page (profile script in src/src/web.rs).     *)
(* Each document has a draft in memory; the grid on screen is a second copy  *)
(* of the open one, which a save reads back.  Saves are started by the end   *)
(* of an edit, a timer five seconds after the last change, an interval of    *)
(* ten minutes and Ctrl+S; one runs at a time, and what its answer updates   *)
(* is the document that is open by then.  Meanwhile the answers of the       *)
(* synchronisation replace the drafts that hold no change.                   *)
(*                                                                          *)
(* A text is the set of the edits it has seen, with the document it is of.  *)
(* In the column of the unit's activities only the first row's cell is on    *)
(* screen: what stands in the others is left out when the grid is built,     *)
(* and the next save reads the draft back without it.                       *)
(* An answer of the offline queue counts as the server's: OfflineQueue       *)
(* models what happens to an action after it.                               *)
(***************************************************************************)
EXTENDS Naturals

CONSTANTS
    Docs,           \* the documents of the page
    NoDoc,          \* activeDocId and defaultDocId when empty
    Default,        \* data-default-doc-id: the document that the page opens with, or NoDoc
    MaxEdits        \* bound: changes, the other users' included

ASSUME SheetAssumption ==
    /\ NoDoc \notin Docs /\ Default \in Docs \union {NoDoc}
    /\ MaxEdits \in Nat

Edits == 1 .. MaxEdits
Texts == [of : Docs, edits : SUBSET Edits]
NoText == [of |-> NoDoc, edits |-> {}]
NoSave == [doc |-> NoDoc, text |-> NoText, at |-> "none"]
NoSync == [d \in Docs |-> NoText]

VARIABLES
    server,         \* the text that the server has of each document
    docs,           \* preview_text of each record of the page
    drafts,         \* the draft of each document, or NoText
    dirty,
    openTabs,       \* in no order
    activeDocId,
    shown,          \* what the cells of the grid hold
    editMode,
    autoSaveTimer,  \* whether it is set
    hidden,         \* unsaved edits that stand, or stood, in cells that the grid leaves out
    save,           \* saveInFlight: the request, and how far it is
    sync,           \* the documents in the answer of the synchronisation on its way, or NoSync
    edits,          \* changes made so far
    unsaved,        \* history: changes made in each document, not yet on the server nor
                    \* given up when a refusal was taken for a success
    formats         \* history: those that only changed a cell on screen

pageVars == <<docs, drafts, dirty, openTabs, activeDocId, shown, editMode, autoSaveTimer>>
history == <<edits, unsaved, formats>>
vars == <<server, pageVars, hidden, save, sync, history>>

TypeOK ==
    /\ server \in [Docs -> Texts] /\ docs \in [Docs -> Texts]
    /\ drafts \in [Docs -> Texts \union {NoText}] /\ dirty \in [Docs -> BOOLEAN]
    /\ activeDocId \in Docs \union {NoDoc} /\ openTabs \subseteq Docs
    /\ shown \in Texts \union {NoText} /\ editMode \in BOOLEAN /\ autoSaveTimer \in BOOLEAN
    /\ save = NoSave \/ save \in [doc : Docs, text : Texts, at : {"sent", "stored"}]
    /\ sync = NoSync \/ sync \in [Docs -> Texts]
    /\ edits \in 0 .. MaxEdits /\ unsaved \in [Docs -> SUBSET Edits]
    /\ formats \subseteq Edits /\ hidden \subseteq Edits

-----------------------------------------------------------------------------
(* renderGrid: the grid of a document is built from its draft, which is made  *)
(* from its record when there is none.  A cell that was hidden once may be in *)
(* sight again, so that any part of them may be left out; edits that the      *)
(* server has already are not followed there.                                *)
Grids(text, out) == {[text EXCEPT !.edits = @ \ gone] : gone \in SUBSET out}

Rendered(d, records, kept) == [kept EXCEPT ![d] = IF @ = NoText THEN records[d] ELSE @]

RenderGrid(d, records, kept) ==
    IF d = NoDoc THEN drafts' = kept /\ UNCHANGED shown
    ELSE drafts' = Rendered(d, records, kept) /\ shown' \in Grids(drafts'[d], hidden)

\* The page as the server renders it, with the default document open.
DraftsOf(texts) == [d \in Docs |-> IF d = Default THEN texts[d] ELSE NoText]
Opened(texts) == IF Default = NoDoc THEN NoText ELSE texts[Default]
FirstTabs == {Default} \ {NoDoc}
Clean == [d \in Docs |-> FALSE]
Nothing == [d \in Docs |-> {}]

Init ==
    /\ server = [d \in Docs |-> [of |-> d, edits |-> {}]]
    /\ docs = server /\ drafts = DraftsOf(server) /\ shown = Opened(server) /\ dirty = Clean
    /\ hidden = {}
    /\ activeDocId = Default /\ openTabs = FirstTabs
    /\ editMode = FALSE /\ autoSaveTimer = FALSE /\ save = NoSave /\ sync = NoSync
    /\ edits = 0 /\ unsaved = Nothing /\ formats = {}

Loaded(texts) ==
    /\ docs' = texts /\ drafts' = DraftsOf(texts) /\ shown' = Opened(texts) /\ dirty' = Clean
    /\ hidden' = {}
    /\ activeDocId' = Default /\ openTabs' = FirstTabs
    /\ editMode' = FALSE /\ autoSaveTimer' = FALSE /\ save' = NoSave /\ sync' = NoSync
    /\ unsaved' = Nothing /\ formats' = {}

-----------------------------------------------------------------------------
(* Tabs.  A click outside the grid first ends the edit (EndEdit); the keys    *)
(* open and close tabs without that.                                         *)
Show(d) ==
    /\ activeDocId' = d
    /\ RenderGrid(d, docs, drafts)
    /\ UNCHANGED <<server, docs, dirty, editMode, autoSaveTimer, hidden, save, sync, history>>

\* Faulty variant: the grid is not built again, as if it followed the tab.
ShowTabOnly(d) ==
    /\ openTabs' = openTabs \union {d}
    /\ activeDocId' = d /\ drafts' = Rendered(d, docs, drafts)
    /\ UNCHANGED <<server, docs, dirty, shown, editMode, autoSaveTimer, hidden, save, sync,
                   history>>

\* openDocument, from a tab, the picker or a link.
OpenDocument(d) ==
    /\ openTabs' = openTabs \union {d}
    /\ Show(d)

\* The last tab closed makes room for the default document, when there is one; when the
\* open one is closed, another comes to the front.
CloseTab(d) ==
    LET left == openTabs \ {d}
        tabs == IF left = {} THEN FirstTabs ELSE left
    IN  /\ d \in openTabs
        /\ openTabs' = tabs
        /\ \E front \in IF tabs = {} THEN {NoDoc} ELSE tabs :
               /\ activeDocId \in tabs => front = activeDocId
               /\ Show(front)

-----------------------------------------------------------------------------
(* Changes, each of one document, in edit mode.  One that sorts the rows, puts *)
(* a row above the others or names a column may move texts to hidden cells.   *)
With(text, k) == [text EXCEPT !.edits = @ \union {k}]

Change(k) ==
    /\ editMode /\ activeDocId # NoDoc
    /\ edits < MaxEdits /\ k = edits + 1
    /\ edits' = k
    /\ unsaved' = [unsaved EXCEPT ![activeDocId] = @ \union {k}]
    /\ UNCHANGED <<server, docs, openTabs, activeDocId, editMode, save, sync>>

Hides ==
    \E out \in SUBSET (drafts[activeDocId].edits \cap unsaved[activeDocId]) :
        hidden' = hidden \union out

\* markSheetChanged and scheduleAutoSave.
Marked == dirty' = [dirty EXCEPT ![activeDocId] = TRUE] /\ autoSaveTimer' = TRUE

\* The input handler: the cell's text goes to the draft.
Type(k) ==
    /\ Change(k) /\ Marked /\ UNCHANGED formats
    /\ shown' = With(shown, k)
    /\ drafts' = [drafts EXCEPT ![activeDocId] = With(@, k)] /\ Hides

\* Rows and columns added and deleted, sorting: the draft changes, the grid is built again.
ChangeRows(k) ==
    /\ Change(k) /\ Marked /\ UNCHANGED formats
    /\ drafts' = [drafts EXCEPT ![activeDocId] = With(@, k)] /\ Hides
    /\ shown' \in Grids(drafts'[activeDocId], hidden')

\* Clear, cut and paste: the cell on screen changes, the draft is read back from the grid.
ChangeCell(k) ==
    /\ Change(k) /\ Marked /\ UNCHANGED formats
    /\ shown' = With(shown, k)
    /\ drafts' = [drafts EXCEPT ![activeDocId] = shown'] /\ Hides

\* The number formats: only the cell on screen changes.
FormatNumber(k) ==
    /\ Change(k) /\ formats' = formats \union {k}
    /\ shown' = With(shown, k)
    /\ UNCHANGED <<drafts, dirty, autoSaveTimer, hidden>>

-----------------------------------------------------------------------------
(* saveActiveDocument, of the grid or of what EndEdit shows.  While a save is *)
(* in flight it only reads the grid back.                                    *)
SaveActiveDocument(grid) ==
    IF activeDocId = NoDoc THEN UNCHANGED <<drafts, dirty, save>>
    ELSE /\ drafts' = [drafts EXCEPT ![activeDocId] = grid]
         /\ dirty' = [dirty EXCEPT ![activeDocId] = TRUE]
         /\ save' = IF save # NoSave THEN save
                    ELSE [doc |-> activeDocId, text |-> grid, at |-> "sent"]

\* setDocumentEditMode(true), from the toggle.
StartEdit ==
    /\ ~editMode /\ activeDocId # NoDoc
    /\ editMode' = TRUE
    /\ RenderGrid(activeDocId, docs, drafts)
    /\ UNCHANGED <<server, docs, dirty, openTabs, activeDocId, autoSaveTimer, hidden, save,
                   sync, history>>

\* setDocumentEditMode(false, { save }), from the toggle or a click elsewhere: the grid is
\* built from the draft, then read back and saved.
EndEdit ==
    /\ editMode /\ editMode' = FALSE
    /\ shown' \in IF activeDocId = NoDoc THEN {shown} ELSE Grids(drafts[activeDocId], hidden)
    /\ SaveActiveDocument(shown')
    /\ UNCHANGED <<server, docs, openTabs, activeDocId, autoSaveTimer, hidden, sync, history>>

Unsaved == editMode /\ activeDocId # NoDoc /\ dirty[activeDocId]

\* The timer of scheduleAutoSave.
AutoSave ==
    /\ autoSaveTimer /\ autoSaveTimer' = FALSE
    /\ IF Unsaved THEN SaveActiveDocument(shown) ELSE UNCHANGED <<drafts, dirty, save>>
    /\ UNCHANGED <<server, docs, openTabs, activeDocId, shown, editMode, hidden, sync, history>>

\* Faulty variant: no save by the interval, as if the timer made it superfluous.
IntervalOff == FALSE /\ UNCHANGED vars

\* The interval of ten minutes.
IntervalSave ==
    /\ Unsaved /\ save = NoSave
    /\ SaveActiveDocument(shown)
    /\ UNCHANGED <<server, docs, openTabs, activeDocId, shown, editMode, autoSaveTimer,
                   hidden, sync, history>>

\* Ctrl+S: requestSubmit returns nothing, so that the form is submitted a second time, by
\* the browser, and the page that answers, stored or not, replaces this one and what it had
\* not saved.
SaveAndLeave ==
    /\ editMode /\ activeDocId # NoDoc
    /\ server' \in {server, [server EXCEPT ![activeDocId] = shown]}
    /\ Loaded(server')
    /\ UNCHANGED edits

-----------------------------------------------------------------------------
(* The request is stored, refused, or fails; then its answer updates the       *)
(* document that is open.                                                    *)
Store ==
    /\ save.at = "sent"
    /\ save' = [save EXCEPT !.at = "stored"]
    /\ server' = [server EXCEPT ![save.doc] = save.text]
    /\ unsaved' = [unsaved EXCEPT ![save.doc] = @ \ save.text.edits]
    /\ formats' = formats \ save.text.edits /\ hidden' = hidden \ save.text.edits
    /\ UNCHANGED <<pageVars, sync, edits>>

\* A request that fails, or that the server stores in memory and cannot write, changes
\* nothing here; a silent one is not even reported.
NotSaved ==
    /\ save # NoSave /\ save' = NoSave
    /\ UNCHANGED <<server, pageVars, hidden, sync, history>>

\* The answer of a request that was stored, or refused: when the session has ended, the
\* token is an older login's, the right is lost or the document is gone, the handler answers
\* with a redirect as after a save, fetch follows it, and the page takes it for a success.
\* What a refused request held is given up when this makes its draft clean.
Answered ==
    /\ save # NoSave /\ save' = NoSave
    /\ unsaved' = IF save.at = "sent" /\ activeDocId # NoDoc /\ ~dirty'[activeDocId]
                  THEN [unsaved EXCEPT ![save.doc] = @ \ save.text.edits] ELSE unsaved
    /\ UNCHANGED <<server, drafts, openTabs, activeDocId, shown, editMode, autoSaveTimer,
                   hidden, sync, edits, formats>>

\* Faulty variant: the answer makes the open document clean, whatever was typed since.
SavedIsClean ==
    /\ activeDocId # NoDoc
    /\ dirty' = [dirty EXCEPT ![activeDocId] = FALSE]
    /\ docs' = [docs EXCEPT ![activeDocId] = save.text]
    /\ Answered

Saved ==
    /\ IF activeDocId = NoDoc THEN UNCHANGED <<dirty, docs>>
       ELSE /\ dirty' = [dirty EXCEPT ![activeDocId] = drafts[activeDocId] # save.text]
            /\ docs' = [docs EXCEPT ![activeDocId] = save.text]
    /\ Answered

-----------------------------------------------------------------------------
(* The synchronisation: runSync asks, and applyDocuments takes the answer.    *)
SyncAnswers ==
    /\ sync = NoSync /\ sync' = server
    /\ UNCHANGED <<server, pageVars, hidden, save, history>>

ApplyDocuments ==
    LET kept == [d \in Docs |-> IF dirty[d] THEN drafts[d] ELSE NoText]
        rerender == activeDocId # NoDoc /\ ~dirty[activeDocId]
    IN  /\ sync # NoSync /\ sync' = NoSync
        /\ docs' = sync
        /\ IF rerender THEN RenderGrid(activeDocId, sync, kept)
           ELSE drafts' = kept /\ UNCHANGED shown
        /\ UNCHANGED <<server, dirty, openTabs, activeDocId, editMode, autoSaveTimer,
                       hidden, save, history>>

\* Another user saves a document.
OthersSave(d, k) ==
    /\ edits < MaxEdits /\ k = edits + 1 /\ edits' = k
    /\ server' = [server EXCEPT ![d] = With(@, k)]
    /\ UNCHANGED <<pageVars, hidden, save, sync, unsaved, formats>>

-----------------------------------------------------------------------------
Edit(k) == Type(k) \/ ChangeRows(k) \/ ChangeCell(k) \/ FormatNumber(k)
Tab(d) == OpenDocument(d) \/ CloseTab(d)
Answer == Store \/ Saved \/ NotSaved

Next ==
    \/ \E d \in Docs : Tab(d)
    \/ \E k \in Edits : Edit(k) \/ \E d \in Docs : OthersSave(d, k)
    \/ StartEdit \/ EndEdit \/ AutoSave \/ IntervalSave \/ SaveAndLeave
    \/ Answer
    \/ SyncAnswers \/ ApplyDocuments

Spec == Init /\ [][Next]_vars

\* The browser runs its interval, and every request of a save is answered in the end.
FairSpec == Spec /\ WF_vars(IntervalSave) /\ WF_vars(Answer)

-----------------------------------------------------------------------------
(* The grid, one request and the fields that the answer updates are shared by *)
(* all the documents of the page.  Still no document ever gets the text of   *)
(* another: not its draft, not what a save sends for it, not the server.     *)
TextsStayApart ==
    /\ \A d \in Docs : server[d].of = d /\ drafts[d].of \in {d, NoDoc}
    /\ save.text.of = save.doc
    /\ activeDocId # NoDoc => shown.of = activeDocId /\ drafts[activeDocId] # NoText

(* What the user typed is not lost while the page is open, whatever tabs are  *)
(* opened, whichever saves fail and whatever the synchronisation brings: it  *)
(* is in the draft, in the request on its way, or it has reached the server. *)
(* There are three ways out, and these alone: it was never more than a       *)
(* format, it came to stand in a cell that is not shown, or it was sent,     *)
(* refused, and the page took the refusal for a success.                    *)
Astray == formats \union hidden

TypedIsKept ==
    \A d \in Docs : unsaved[d] \ Astray \subseteq
        drafts[d].edits \union (IF save.doc = d THEN save.text.edits ELSE {})

(* While a document is edited, a change in it does not wait for ever: either  *)
(* it is sent, also when it was typed while a save was in flight and the      *)
(* timer came for nothing, or the save before was refused, or the user ends   *)
(* the edit, turns to another document, leaves, or hides the cell.           *)
Waiting(k) ==
    /\ editMode /\ activeDocId # NoDoc
    /\ k \in unsaved[activeDocId] \ Astray /\ k \notin save.text.edits

ChangesAreSent == \A k \in Edits : []<>~Waiting(k)
=============================================================================
