----------------------------- MODULE PagesProofs -----------------------------
(***************************************************************************)
(* Proofs about what the pages show.  SheetEditor, for any set of           *)
(* documents and number of edits: texts stay with their documents, and      *)
(* what was typed stays in the draft.  TableMerge, for any tables: a merged  *)
(* table has every entry once, and every line of what was done.  TreeLayout, *)
(* for trees of any size: the synchronisation sends a user the rows of the   *)
(* very units whose pages are open to the user, and what is drawn is clear.  *)
(* SheetText, for tables of any size: what one side writes, the other reads. *)
(***************************************************************************)
EXTENDS SheetEditor, TableMerge, TreeLayout, SheetText, FiniteSetTheorems, SequenceTheorems,
        WellFoundedInduction, TLAPS

(* SheetEditor.                                                             *)
\* An edit has reached only texts of its document, as long as it is not on the server; and
\* no text has seen an edit that is still to come.
Fits(text) ==
    /\ text.edits \subseteq 1 .. edits
    /\ \A d \in Docs : d # text.of => text.edits \cap unsaved[d] = {}

TextsFit ==
    /\ \A d \in Docs : Fits(server[d]) /\ Fits(docs[d]) /\ Fits(drafts[d]) /\ Fits(sync[d])
    /\ Fits(shown) /\ Fits(save.text)
    /\ \A d \in Docs : unsaved[d] \subseteq 1 .. edits

\* The answer of a save may give the record of the open document the text of another one.
\* That does no harm because the open document has a draft, which lasts until a
\* synchronisation brings the record again.
RecordsApart ==
    /\ \A d \in Docs : drafts[d] = NoText => docs[d].of = d
    /\ sync # NoSync => \A d \in Docs : sync[d].of = d

\* The drafts alone keep what was typed: those that a synchronisation may drop hold
\* nothing unsaved, and the grid, which a save reads back, is behind its draft only in
\* what it does not show.
DraftsKeep ==
    /\ \A d \in Docs : unsaved[d] \ Astray \subseteq drafts[d].edits
    /\ \A d \in Docs : ~dirty[d] => unsaved[d] \subseteq Astray
    /\ activeDocId # NoDoc =>
           (drafts[activeDocId].edits \cap unsaved[activeDocId]) \ hidden \subseteq shown.edits

StoredIsSaved == save.at = "stored" => unsaved[save.doc] \cap save.text.edits = {}

SheetInv == TypeOK /\ TextsStayApart /\ RecordsApart /\ TextsFit /\ DraftsKeep /\ StoredIsSaved

-----------------------------------------------------------------------------
(* Lemmas about texts.                                                       *)

\* A text keeps fitting when the only new edit is one that it has not seen.
LEMMA FitsOn ==
    ASSUME NEW text, Fits(text), edits \in Nat, edits' \in Nat, edits <= edits',
           \A d \in Docs : unsaved'[d] \subseteq unsaved[d] \union {edits + 1}
    PROVE  /\ text.edits \subseteq 1 .. edits'
           /\ \A d \in Docs : d # text.of => text.edits \cap unsaved'[d] = {}
<1>1. text.edits \subseteq 1 .. edits'
  BY DEF Fits
<1>2. ASSUME NEW d \in Docs, d # text.of PROVE text.edits \cap unsaved'[d] = {}
  <2>1. text.edits \cap unsaved[d] = {}
    BY <1>2 DEF Fits
  <2>2. edits + 1 \notin text.edits
    BY DEF Fits
  <2> QED BY <2>1, <2>2
<1> QED BY <1>1, <1>2

\* A new edit joins a text of the document it was made in.
LEMMA FitsWith ==
    ASSUME NEW text \in Texts, Fits(text), NEW k, k = edits + 1, edits \in Nat, edits' = k,
           \A d \in Docs : unsaved[d] \subseteq 1 .. edits,
           \A d \in Docs : d # text.of => unsaved'[d] = unsaved[d]
    PROVE  /\ With(text, k).edits \subseteq 1 .. edits'
           /\ \A d \in Docs : d # text.of => With(text, k).edits \cap unsaved'[d] = {}
<1>1. With(text, k).edits = text.edits \union {k}
  BY DEF With, Texts
<1>2. k \in 1 .. edits' /\ text.edits \subseteq 1 .. edits'
  BY DEF Fits
<1>3. ASSUME NEW d \in Docs, d # text.of
      PROVE  With(text, k).edits \cap unsaved'[d] = {}
  <2>1. text.edits \cap unsaved[d] = {}
    BY <1>3 DEF Fits
  <2>2. k \notin unsaved[d]
    OBVIOUS
  <2> QED BY <1>1, <1>3, <2>1, <2>2
<1> QED BY <1>1, <1>2, <1>3

LEMMA WithType ==
    ASSUME NEW text \in Texts, NEW k \in Edits
    PROVE  With(text, k) \in Texts /\ With(text, k).of = text.of
           /\ With(text, k).edits = text.edits \union {k}
BY DEF With, Texts

LEMMA NoTextIsNone == NoText \notin Texts /\ NoText.of = NoDoc /\ NoText.edits = {}
BY SheetAssumption DEF NoText, Texts

\* A grid shows a part of the text that it is built from: all but what is hidden.
LEMMA GridsShow ==
    ASSUME NEW text \in Texts, NEW out, NEW grid \in Grids(text, out)
    PROVE  /\ grid \in Texts /\ grid.of = text.of
           /\ grid.edits \subseteq text.edits /\ text.edits \ out \subseteq grid.edits
<1>1. PICK gone \in SUBSET out : grid = [text EXCEPT !.edits = @ \ gone]
  BY DEF Grids
<1>2. grid.of = text.of /\ grid.edits = text.edits \ gone
  BY <1>1 DEF Texts
<1>3. grid \in Texts
  BY <1>1 DEF Texts
<1> QED BY <1>1, <1>2, <1>3

\* Nothing that a step of another part leaves alone stops fitting.
LEMMA TextsFitOn ==
    ASSUME TextsFit, UNCHANGED <<server, docs, drafts, sync, shown, save, edits, unsaved>>
    PROVE  TextsFit'
BY DEF TextsFit, Fits

-----------------------------------------------------------------------------
(* The steps.                                                                *)

LEMMA InitHolds == Init => SheetInv
<1> SUFFICES ASSUME Init PROVE SheetInv
  OBVIOUS
<1> USE SheetAssumption, NoTextIsNone
<1>1. \A d \in Docs : server[d] = [of |-> d, edits |-> {}] /\ server[d] \in Texts
  BY DEF Init, Texts
<1>2. \A d \in Docs : server[d].of = d /\ server[d].edits = {} /\ server[d] # NoText
  <2>1. \A d \in Docs : [of |-> d, edits |-> {}].of = d /\ [of |-> d, edits |-> {}].edits = {}
    OBVIOUS
  <2>2. \A d \in Docs : server[d] = [of |-> d, edits |-> {}]
    BY <1>1
  <2> QED BY <1>1, <2>1, <2>2
<1>3. drafts = [d \in Docs |-> IF d = Default THEN server[d] ELSE NoText]
  BY DEF Init, DraftsOf
<1>4. shown = IF Default = NoDoc THEN NoText ELSE server[Default]
  BY DEF Init, Opened
<1>5. save = NoSave /\ NoSave.doc = NoDoc /\ NoSave.text = NoText /\ NoSave.at = "none"
  BY DEF Init, NoSave
<1>6. docs = server /\ sync = NoSync /\ activeDocId = Default /\ dirty = Clean
  BY DEF Init
<1>7. edits = 0 /\ Astray = {} /\ hidden = {} /\ \A d \in Docs : unsaved[d] = {}
  BY DEF Init, Nothing, Astray
<1>8. TypeOK
  <2>1. server \in [Docs -> Texts] /\ docs \in [Docs -> Texts]
    BY <1>1, <1>6 DEF Init
  <2>2. drafts \in [Docs -> Texts \union {NoText}] /\ shown \in Texts \union {NoText}
    BY <1>1, <1>3, <1>4
  <2>3. dirty \in [Docs -> BOOLEAN] /\ openTabs \subseteq Docs
    BY DEF Init, Clean, FirstTabs
  <2>4. activeDocId \in Docs \union {NoDoc} /\ editMode \in BOOLEAN /\ autoSaveTimer \in BOOLEAN
    BY DEF Init
  <2>5. /\ edits \in 0 .. MaxEdits /\ unsaved \in [Docs -> SUBSET Edits]
        /\ formats \subseteq Edits /\ hidden \subseteq Edits
    BY DEF Init, Nothing
  <2> QED BY <2>1, <2>2, <2>3, <2>4, <2>5, <1>5, <1>6 DEF TypeOK
<1>9. TextsStayApart
  BY <1>2, <1>3, <1>4, <1>5, <1>6 DEF TextsStayApart
<1>10. RecordsApart
  BY <1>2, <1>6 DEF RecordsApart
<1>11. TextsFit
  BY <1>2, <1>3, <1>4, <1>5, <1>6, <1>7 DEF TextsFit, Fits, NoSync
<1>12. DraftsKeep /\ StoredIsSaved
  BY <1>3, <1>4, <1>5, <1>6, <1>7 DEF DraftsKeep, StoredIsSaved
<1> QED BY <1>8, <1>9, <1>10, <1>11, <1>12 DEF SheetInv

\* A document comes to the front, with its draft or, when it has none, its record.
LEMMA ShowHolds ==
    ASSUME SheetInv, NEW d \in Docs \union {NoDoc}, Show(d), openTabs' \subseteq Docs
    PROVE  SheetInv'
<1> USE SheetAssumption, NoTextIsNone
<1>1. TypeOK /\ TextsStayApart /\ RecordsApart /\ TextsFit /\ DraftsKeep /\ StoredIsSaved
  BY DEF SheetInv
<1>2. /\ UNCHANGED <<server, docs, dirty, editMode, autoSaveTimer, save, sync>>
      /\ UNCHANGED <<edits, unsaved, formats, hidden, Astray>> /\ activeDocId' = d
  BY DEF Show, history, Astray
<1>3. CASE d = NoDoc
  <2>1. drafts' = drafts /\ shown' = shown
    BY <1>3 DEF Show, RenderGrid
  <2>2. TypeOK'
    BY <1>1, <1>2, <2>1 DEF TypeOK
  <2>3. TextsStayApart' /\ RecordsApart' /\ StoredIsSaved'
    BY <1>1, <1>2, <1>3, <2>1 DEF TextsStayApart, RecordsApart, StoredIsSaved
  <2>4. TextsFit' /\ DraftsKeep'
    BY <1>1, <1>2, <1>3, <2>1, TextsFitOn DEF DraftsKeep
  <2> QED BY <2>2, <2>3, <2>4 DEF SheetInv
<1>4. CASE d \in Docs
  <2>1. /\ drafts' = [drafts EXCEPT ![d] = IF @ = NoText THEN docs[d] ELSE @]
        /\ shown' \in Grids(drafts'[d], hidden)
    BY <1>4 DEF Show, RenderGrid, Rendered
  <2>2. \A e \in Docs : drafts'[e] = IF e = d /\ drafts[e] = NoText THEN docs[e] ELSE drafts[e]
    BY <1>1, <2>1 DEF TypeOK
  <2>3. \A e \in Docs : drafts[e] \in Texts \union {NoText} /\ docs[e] \in Texts
    BY <1>1 DEF TypeOK
  <2>4. \A e \in Docs : drafts[e] # NoText => drafts[e].of = e
    BY <1>1, <2>3 DEF TextsStayApart, Texts
  <2>5. \A e \in Docs : drafts[e] = NoText => docs[e].of = e
    BY <1>1 DEF RecordsApart
  <2>6. drafts'[d] \in Texts /\ drafts'[d].of = d /\ drafts'[d] # NoText
    BY <1>4, <2>2, <2>3, <2>4, <2>5
  <2> DEFINE text == drafts'[d]
  <2> HIDE DEF text
  <2>12. /\ shown' \in Texts /\ shown'.of = d
         /\ shown'.edits \subseteq text.edits /\ text.edits \ hidden \subseteq shown'.edits
    <3>1. text \in Texts /\ text.of = d /\ shown' \in Grids(text, hidden)
      BY <2>1, <2>6 DEF text
    <3> QED BY <3>1, GridsShow
  <2>7. TypeOK'
    <3>1. drafts' \in [Docs -> Texts \union {NoText}]
      BY <1>1, <2>1, <2>3 DEF TypeOK
    <3> QED BY <1>1, <1>2, <1>4, <2>12, <3>1 DEF TypeOK
  <2>8. TextsStayApart'
    <3>1. \A e \in Docs : drafts'[e].of \in {e, NoDoc}
      BY <2>2, <2>4, <2>5
    <3> QED BY <1>1, <1>2, <2>12, <2>6, <3>1 DEF TextsStayApart
  <2>9. RecordsApart' /\ StoredIsSaved'
    BY <1>1, <1>2, <2>2 DEF RecordsApart, StoredIsSaved
  <2>10. TextsFit'
    <3>1. \A e \in Docs : Fits(drafts'[e])
      BY <1>1, <2>2 DEF TextsFit
    <3>2. Fits(text)
      BY <1>4, <3>1 DEF text
    <3>3. text.of = d
      BY <2>6 DEF text
    <3>4. Fits(shown)'
      BY <1>2, <2>12, <3>2, <3>3 DEF Fits
    <3>5. \A e \in Docs : Fits(drafts[e])'
      BY <1>2, <3>1 DEF Fits
    <3> QED BY <1>1, <1>2, <3>4, <3>5 DEF TextsFit, Fits
  <2>11. DraftsKeep'
    <3>1. \A e \in Docs : drafts[e].edits \subseteq drafts'[e].edits
      BY <2>2
    <3>2. drafts'[d].edits \ hidden \subseteq shown'.edits
      BY <2>12 DEF text
    <3> QED BY <1>1, <1>2, <3>1, <3>2 DEF DraftsKeep
  <2> QED BY <2>7, <2>8, <2>9, <2>10, <2>11 DEF SheetInv
<1> QED BY <1>3, <1>4

LEMMA TabHolds == ASSUME SheetInv, NEW d \in Docs, Tab(d) PROVE SheetInv'
<1>1. TypeOK
  BY DEF SheetInv
<1>2. CASE OpenDocument(d)
  <2>1. openTabs' \subseteq Docs
    BY <1>1, <1>2 DEF OpenDocument, TypeOK
  <2> QED BY <1>2, <2>1, ShowHolds DEF OpenDocument
<1>3. CASE CloseTab(d)
  <2> DEFINE left == openTabs \ {d}
             tabs == IF left = {} THEN FirstTabs ELSE left
             fronts == IF tabs = {} THEN {NoDoc} ELSE tabs
  <2>1. openTabs' = tabs /\ \E front \in fronts : Show(front)
    BY <1>3 DEF CloseTab
  <2>2. tabs \subseteq Docs /\ fronts \subseteq Docs \union {NoDoc}
    BY <1>1, SheetAssumption DEF TypeOK, FirstTabs
  <2>3. PICK front \in fronts : Show(front)
    BY <2>1
  <2> HIDE DEF fronts, tabs
  <2> QED BY <2>1, <2>2, <2>3, ShowHolds
<1> QED BY <1>2, <1>3 DEF Tab

\* A change in the open document: what is unsaved and not hidden stays in its draft, the
\* grid shows it, and the edit goes to the draft, or to the grid alone when it is a number
\* format.
LEMMA ChangeHolds ==
    ASSUME SheetInv, NEW k \in Edits, Change(k), shown' \in Texts, NEW draft \in Texts,
           drafts' = [drafts EXCEPT ![activeDocId] = draft],
           draft.of = activeDocId, shown'.of = activeDocId,
           (drafts[activeDocId].edits \cap unsaved[activeDocId]) \ hidden \subseteq draft.edits,
           (draft.edits \cap unsaved'[activeDocId]) \ hidden' \subseteq shown'.edits,
           draft.edits \subseteq drafts[activeDocId].edits \union shown.edits \union {k},
           shown'.edits \subseteq drafts[activeDocId].edits \union shown.edits \union {k},
           hidden \subseteq hidden', hidden' \subseteq Edits,
           autoSaveTimer' \in BOOLEAN,
           \/ /\ k \in draft.edits /\ formats' = formats
              /\ dirty' = [dirty EXCEPT ![activeDocId] = TRUE]
           \/ formats' = formats \union {k} /\ dirty' = dirty
    PROVE  SheetInv'
<1> USE SheetAssumption, NoTextIsNone
<1> DEFINE a == activeDocId
<1>1. TypeOK /\ TextsStayApart /\ RecordsApart /\ TextsFit /\ DraftsKeep /\ StoredIsSaved
  BY DEF SheetInv
<1>2. /\ a \in Docs /\ k = edits + 1 /\ edits' = k /\ edits \in Nat /\ k <= MaxEdits
      /\ unsaved' = [unsaved EXCEPT ![a] = @ \union {k}]
      /\ UNCHANGED <<server, docs, openTabs, activeDocId, editMode, save, sync>>
  BY <1>1 DEF Change, TypeOK, Edits
<1>3. \A d \in Docs : unsaved'[d] = IF d = a THEN unsaved[d] \union {k} ELSE unsaved[d]
  BY <1>1, <1>2 DEF TypeOK
<1>4. \A d \in Docs : drafts'[d] = IF d = a THEN draft ELSE drafts[d]
  BY <1>1 DEF TypeOK
<1>5. \A d \in Docs : unsaved[d] \subseteq 1 .. edits
  BY <1>1 DEF TextsFit
<1>6. TypeOK'
  <2>1. drafts' \in [Docs -> Texts \union {NoText}] /\ unsaved' \in [Docs -> SUBSET Edits]
    BY <1>1, <1>2 DEF TypeOK
  <2>2. dirty' \in [Docs -> BOOLEAN] /\ formats' \subseteq Edits
    <3>1. dirty \in [Docs -> BOOLEAN] /\ formats \subseteq Edits
      BY <1>1 DEF TypeOK
    <3> QED BY <3>1
  <2>3. edits' \in 0 .. MaxEdits
    BY <1>2
  <2> QED BY <1>1, <1>2, <2>1, <2>2, <2>3 DEF TypeOK
<1>7. TextsStayApart' /\ RecordsApart'
  BY <1>1, <1>2, <1>4 DEF TextsStayApart, RecordsApart
<1>8. TextsFit'
  <2>1. edits' \in Nat /\ edits <= edits'
        /\ \A d \in Docs : unsaved'[d] \subseteq unsaved[d] \union {edits + 1}
    BY <1>2, <1>3
  <2>2. \A d \in Docs : Fits(server[d])' /\ Fits(docs[d])' /\ Fits(sync[d])'
    BY <1>1, <1>2, <2>1, FitsOn DEF TextsFit, Fits
  <2>3. Fits(save.text)'
    BY <1>1, <1>2, <2>1, FitsOn DEF TextsFit, Fits
  <2>4. ASSUME NEW seen, seen \subseteq drafts[a].edits \union shown.edits \union {k}
        PROVE  seen \subseteq 1 .. k /\ \A d \in Docs : d # a => seen \cap unsaved'[d] = {}
    <3>1. shown.edits \subseteq 1 .. edits /\ shown.of = a
      BY <1>1, <1>2 DEF TextsFit, Fits, TextsStayApart
    <3>2. drafts[a].edits \subseteq 1 .. edits /\ drafts[a].of \in {a, NoDoc}
      BY <1>1, <1>2 DEF TextsFit, Fits, TextsStayApart
    <3>3. ASSUME NEW d \in Docs, d # a PROVE seen \cap unsaved'[d] = {}
      <4>1. shown.edits \cap unsaved[d] = {}
        BY <1>1, <3>1, <3>3 DEF TextsFit, Fits
      <4>2. drafts[a].edits \cap unsaved[d] = {}
        BY <1>1, <1>2, <3>2, <3>3 DEF TextsFit, Fits
      <4>3. k \notin unsaved[d]
        BY <1>2, <1>5
      <4> QED BY <1>3, <2>4, <3>3, <4>1, <4>2, <4>3
    <3> QED BY <1>2, <2>4, <3>1, <3>2, <3>3
  <2>5. Fits(shown)'
    <3>1. shown'.edits \subseteq 1 .. k /\ \A d \in Docs : d # a => shown'.edits \cap unsaved'[d] = {}
      BY <2>4
    <3> QED BY <1>2, <3>1 DEF Fits
  <2>6. \A d \in Docs : Fits(drafts[d])'
    <3>1. ASSUME NEW d \in Docs, d # a PROVE Fits(drafts[d])'
      BY <1>1, <1>2, <1>4, <2>1, <3>1, FitsOn DEF TextsFit, Fits
    <3>2. Fits(drafts[a])'
      <4>1. draft.edits \subseteq 1 .. k /\ \A d \in Docs : d # a => draft.edits \cap unsaved'[d] = {}
        BY <2>4
      <4> QED BY <1>2, <1>4, <4>1 DEF Fits
    <3> QED BY <1>2, <3>1, <3>2
  <2>7. \A d \in Docs : unsaved'[d] \subseteq 1 .. edits'
    BY <1>2, <1>3, <1>5
  <2> QED BY <2>2, <2>3, <2>5, <2>6, <2>7 DEF TextsFit
<1>9. DraftsKeep'
  <2>1. ASSUME NEW d \in Docs PROVE unsaved'[d] \ Astray' \subseteq drafts'[d].edits
    <3>1. unsaved[d] \ Astray \subseteq drafts[d].edits
      BY <1>1 DEF DraftsKeep
    <3>2. Astray \subseteq Astray' /\ hidden \subseteq Astray /\ (k \in draft.edits \/ k \in Astray')
      BY DEF Astray
    <3>3. CASE d = a
      <4>1. unsaved'[d] = unsaved[d] \union {k} /\ drafts'[d] = draft
        BY <1>3, <1>4, <3>3
      <4> QED BY <3>1, <3>2, <3>3, <4>1
    <3>4. CASE d # a
      BY <1>3, <1>4, <3>1, <3>2, <3>4
    <3> QED BY <3>3, <3>4
  <2>2. ASSUME NEW d \in Docs, ~dirty'[d] PROVE unsaved'[d] \subseteq Astray'
    <3>1. ~dirty[d] /\ (d = a => formats' = formats \union {k})
      BY <1>1, <1>2, <2>2 DEF TypeOK
    <3>2. unsaved[d] \subseteq Astray
      BY <1>1, <3>1 DEF DraftsKeep
    <3>3. Astray \subseteq Astray' /\ (d = a => k \in Astray')
      BY <3>1 DEF Astray
    <3> QED BY <1>3, <3>2, <3>3
  <2> QED BY <1>2, <1>4, <2>1, <2>2 DEF DraftsKeep
<1>10. StoredIsSaved'
  <2>1. k \notin save.text.edits
    BY <1>1, <1>2 DEF TextsFit, Fits
  <2>2. save.at = "stored" => save.doc \in Docs
    BY <1>1 DEF TypeOK, NoSave
  <2> QED BY <1>1, <1>2, <1>3, <2>1, <2>2 DEF StoredIsSaved
<1> QED BY <1>6, <1>7, <1>8, <1>9, <1>10 DEF SheetInv

LEMMA EditHolds == ASSUME SheetInv, NEW k \in Edits, Edit(k) PROVE SheetInv'
<1> USE SheetAssumption, NoTextIsNone
<1> DEFINE a == activeDocId
<1>1. TypeOK /\ TextsStayApart /\ DraftsKeep
  BY DEF SheetInv
<1>2. Change(k) /\ a \in Docs
  BY <1>1 DEF Edit, Type, ChangeRows, ChangeCell, FormatNumber, Change, TypeOK
<1>3. drafts[a] \in Texts /\ drafts[a].of = a
  BY <1>1, <1>2 DEF TypeOK, TextsStayApart, Texts
<1>4. /\ shown \in Texts /\ shown.of = a
      /\ (drafts[a].edits \cap unsaved[a]) \ hidden \subseteq shown.edits
  BY <1>1, <1>2 DEF TypeOK, TextsStayApart, DraftsKeep
<1>5. /\ With(drafts[a], k) \in Texts /\ With(drafts[a], k).of = a
      /\ With(drafts[a], k).edits = drafts[a].edits \union {k}
  BY <1>3, WithType
<1>6. /\ With(shown, k) \in Texts /\ With(shown, k).of = a
      /\ With(shown, k).edits = shown.edits \union {k}
  BY <1>4, WithType
<1>12. unsaved'[a] = unsaved[a] \union {k}
  BY <1>1, <1>2 DEF Change, TypeOK
<1>13. hidden \subseteq Edits /\ unsaved[a] \subseteq Edits
  BY <1>1, <1>2 DEF TypeOK
<1>14. Hides => hidden \subseteq hidden' /\ hidden' \subseteq Edits
  BY <1>13 DEF Hides
<1> HIDE DEF a
<1>7. Marked => autoSaveTimer' \in BOOLEAN /\ dirty' = [dirty EXCEPT ![activeDocId] = TRUE]
  BY DEF Marked
<1>8. CASE Type(k)
  <2>1. /\ formats' = formats /\ Marked /\ shown' = With(shown, k) /\ Hides
        /\ drafts' = [drafts EXCEPT ![activeDocId] = With(drafts[a], k)]
    BY <1>8 DEF Type, a
  <2> DEFINE draft == With(drafts[a], k)
  <2>2. /\ (drafts[a].edits \cap unsaved[a]) \ hidden \subseteq draft.edits
        /\ (draft.edits \cap unsaved'[a]) \ hidden' \subseteq shown'.edits
        /\ draft.edits \subseteq drafts[a].edits \union shown.edits \union {k}
        /\ shown'.edits \subseteq drafts[a].edits \union shown.edits \union {k}
    BY <1>4, <1>5, <1>6, <1>12, <1>14, <2>1
  <2> HIDE DEF draft
  <2>3. draft \in Texts /\ draft.of = a /\ k \in draft.edits /\ shown' \in Texts /\ shown'.of = a
        /\ drafts' = [drafts EXCEPT ![activeDocId] = draft]
    BY <1>5, <1>6, <2>1 DEF draft
  <2> QED BY <1>2, <1>7, <1>14, <2>1, <2>2, <2>3, ChangeHolds DEF a
<1>9. CASE ChangeRows(k)
  <2>1. /\ formats' = formats /\ Marked /\ Hides
        /\ drafts' = [drafts EXCEPT ![activeDocId] = With(drafts[a], k)]
        /\ shown' \in Grids(drafts'[activeDocId], hidden')
    BY <1>9 DEF ChangeRows, a
  <2> DEFINE draft == With(drafts[a], k)
  <2>2. drafts'[activeDocId] = draft
    BY <1>1, <1>2, <2>1 DEF TypeOK, a
  <2>3. /\ draft \in Texts /\ draft.of = a /\ draft.edits = drafts[a].edits \union {k}
        /\ drafts' = [drafts EXCEPT ![activeDocId] = draft]
    BY <1>5, <2>1
  <2> HIDE DEF draft
  <2>4. shown' \in Grids(draft, hidden')
    BY <2>1, <2>2
  <2>5. /\ shown' \in Texts /\ shown'.of = a
        /\ shown'.edits \subseteq draft.edits /\ draft.edits \ hidden' \subseteq shown'.edits
    BY <2>3, <2>4, GridsShow
  <2>6. /\ (drafts[a].edits \cap unsaved[a]) \ hidden \subseteq draft.edits
        /\ (draft.edits \cap unsaved'[a]) \ hidden' \subseteq shown'.edits
        /\ draft.edits \subseteq drafts[a].edits \union shown.edits \union {k}
        /\ shown'.edits \subseteq drafts[a].edits \union shown.edits \union {k}
    BY <2>3, <2>5
  <2>7. k \in draft.edits
    BY <2>3
  <2> QED BY <1>2, <1>7, <1>14, <2>1, <2>3, <2>5, <2>6, <2>7, ChangeHolds DEF a
<1>10. CASE ChangeCell(k)
  <2>1. /\ formats' = formats /\ Marked /\ Hides /\ shown' = With(shown, k)
        /\ drafts' = [drafts EXCEPT ![activeDocId] = shown']
    BY <1>10 DEF ChangeCell
  <2>2. shown' \in Texts /\ shown'.of = a /\ shown'.edits = shown.edits \union {k}
    BY <1>6, <2>1
  <2>3. (drafts[a].edits \cap unsaved[a]) \ hidden \subseteq shown'.edits
    BY <1>4, <2>2
  <2>4. /\ shown'.edits \subseteq drafts[a].edits \union shown.edits \union {k}
        /\ (shown'.edits \cap unsaved'[a]) \ hidden' \subseteq shown'.edits
        /\ k \in shown'.edits
    BY <2>2
  <2> QED BY <1>2, <1>7, <1>14, <2>1, <2>2, <2>3, <2>4, ChangeHolds DEF a
<1>11. CASE FormatNumber(k)
  <2>1. /\ formats' = formats \union {k} /\ shown' = With(shown, k)
        /\ UNCHANGED <<drafts, dirty, autoSaveTimer, hidden>>
    BY <1>11 DEF FormatNumber
  <2>2. drafts' = [drafts EXCEPT ![activeDocId] = drafts[a]] /\ autoSaveTimer' \in BOOLEAN
    BY <1>1, <1>2, <2>1 DEF TypeOK, a
  <2>3. shown' \in Texts /\ shown'.of = a /\ shown'.edits = shown.edits \union {k}
    BY <1>6, <2>1
  <2>4. /\ (drafts[a].edits \cap unsaved[a]) \ hidden \subseteq drafts[a].edits
        /\ (drafts[a].edits \cap unsaved'[a]) \ hidden' \subseteq shown'.edits
        /\ drafts[a].edits \subseteq drafts[a].edits \union shown.edits \union {k}
        /\ shown'.edits \subseteq drafts[a].edits \union shown.edits \union {k}
    BY <1>4, <1>12, <2>1, <2>3
  <2>5. hidden \subseteq hidden' /\ hidden' \subseteq Edits /\ dirty' = dirty
    BY <1>13, <2>1
  <2> QED BY <1>2, <1>3, <2>1, <2>2, <2>3, <2>4, <2>5, ChangeHolds DEF a
<1> QED BY <1>8, <1>9, <1>10, <1>11 DEF Edit

\* The grid is read back into the draft of the open document; what it shows is behind the
\* draft only in what is hidden.  A save that starts here holds the same text.
LEMMA ReadBackHolds ==
    ASSUME SheetInv, activeDocId \in Docs, NEW grid \in Texts, SaveActiveDocument(grid),
           grid.of = activeDocId, Fits(grid),
           (drafts[activeDocId].edits \cap unsaved[activeDocId]) \ hidden \subseteq grid.edits,
           shown' = grid, editMode' \in BOOLEAN, autoSaveTimer' \in BOOLEAN,
           UNCHANGED <<server, docs, openTabs, activeDocId, sync, edits, unsaved, formats, hidden>>
    PROVE  SheetInv'
<1> USE SheetAssumption, NoTextIsNone
<1>1. TypeOK /\ TextsStayApart /\ RecordsApart /\ TextsFit /\ DraftsKeep /\ StoredIsSaved
  BY DEF SheetInv
<1>2. /\ drafts' = [drafts EXCEPT ![activeDocId] = grid]
      /\ dirty' = [dirty EXCEPT ![activeDocId] = TRUE]
      /\ save' = IF save # NoSave THEN save
                 ELSE [doc |-> activeDocId, text |-> grid, at |-> "sent"]
  BY DEF SaveActiveDocument
<1>3. \A d \in Docs : drafts'[d] = IF d = activeDocId THEN grid ELSE drafts[d]
  BY <1>1, <1>2 DEF TypeOK
<1>4. save' = save \/ (save'.doc = activeDocId /\ save'.text = grid /\ save'.at = "sent")
  BY <1>2
<1>5. TypeOK'
  <2>1. drafts' \in [Docs -> Texts \union {NoText}] /\ dirty' \in [Docs -> BOOLEAN]
    BY <1>1, <1>2 DEF TypeOK
  <2>2. save' = NoSave \/ save' \in [doc : Docs, text : Texts, at : {"sent", "stored"}]
    BY <1>1, <1>2 DEF TypeOK
  <2> QED BY <1>1, <2>1, <2>2 DEF TypeOK
<1>6. TextsStayApart' /\ RecordsApart'
  BY <1>1, <1>3, <1>4 DEF TextsStayApart, RecordsApart
<1>7. TextsFit'
  <2>1. Fits(grid)' /\ Fits(save.text)'
    BY <1>1, <1>4 DEF TextsFit, Fits
  <2>2. \A d \in Docs : Fits(drafts[d])'
    BY <1>1, <1>3 DEF TextsFit, Fits
  <2>3. Fits(shown)'
    BY <2>1 DEF Fits
  <2> QED BY <1>1, <2>1, <2>2, <2>3 DEF TextsFit, Fits
<1>8. DraftsKeep'
  <2>1. \A d \in Docs : unsaved[d] \ Astray \subseteq drafts'[d].edits
    BY <1>1, <1>3 DEF DraftsKeep, Astray
  <2>2. \A d \in Docs : ~dirty'[d] => ~dirty[d]
    BY <1>1, <1>2 DEF TypeOK
  <2>3. Astray' = Astray
    BY DEF Astray
  <2> QED BY <1>1, <1>3, <2>1, <2>2, <2>3 DEF DraftsKeep
<1>9. StoredIsSaved'
  BY <1>1, <1>4 DEF StoredIsSaved
<1> QED BY <1>5, <1>6, <1>7, <1>8, <1>9 DEF SheetInv

\* The draft of the open document, and the grid.
LEMMA OpenTexts ==
    ASSUME SheetInv, activeDocId \in Docs
    PROVE  /\ drafts[activeDocId] \in Texts /\ drafts[activeDocId].of = activeDocId
           /\ shown \in Texts /\ shown.of = activeDocId
           /\ (drafts[activeDocId].edits \cap unsaved[activeDocId]) \ hidden \subseteq shown.edits
           /\ Fits(drafts[activeDocId]) /\ Fits(shown)
<1> USE SheetAssumption, NoTextIsNone
<1>1. TypeOK /\ TextsStayApart /\ TextsFit /\ DraftsKeep
  BY DEF SheetInv
<1>2. drafts[activeDocId] \in Texts /\ drafts[activeDocId].of = activeDocId
  BY <1>1 DEF TypeOK, TextsStayApart, Texts
<1>3. shown \in Texts /\ shown.of = activeDocId
  BY <1>1 DEF TypeOK, TextsStayApart
<1> QED BY <1>1, <1>2, <1>3 DEF DraftsKeep, TextsFit

\* A step that changes no text, no mark and no request.
LEMMA FlagsHold ==
    ASSUME SheetInv, editMode' \in BOOLEAN, autoSaveTimer' \in BOOLEAN, openTabs' \subseteq Docs,
           UNCHANGED <<server, docs, drafts, dirty, activeDocId, shown, save, sync>>,
           UNCHANGED <<edits, unsaved, formats, hidden>>
    PROVE  SheetInv'
<1>1. TypeOK /\ TextsStayApart /\ RecordsApart /\ TextsFit /\ DraftsKeep /\ StoredIsSaved
  BY DEF SheetInv
<1>2. TypeOK'
  BY <1>1 DEF TypeOK
<1>3. TextsStayApart' /\ RecordsApart' /\ StoredIsSaved'
  BY <1>1 DEF TextsStayApart, RecordsApart, StoredIsSaved
<1>4. TextsFit' /\ DraftsKeep'
  BY <1>1, TextsFitOn DEF DraftsKeep, Astray
<1> QED BY <1>2, <1>3, <1>4 DEF SheetInv

\* Edit mode and the saves that it, the timer and the interval start.
LEMMA SaveHolds ==
    ASSUME SheetInv, StartEdit \/ EndEdit \/ AutoSave \/ IntervalSave
    PROVE  SheetInv'
<1> USE SheetAssumption, NoTextIsNone
<1>1. TypeOK
  BY DEF SheetInv
<1>2. editMode \in BOOLEAN /\ autoSaveTimer \in BOOLEAN /\ openTabs \subseteq Docs
  BY <1>1 DEF TypeOK
<1>3. activeDocId # NoDoc => activeDocId \in Docs
  BY <1>1 DEF TypeOK
<1>4. CASE StartEdit
  <2>1. /\ activeDocId \in Docs /\ editMode' = TRUE
        /\ UNCHANGED <<server, docs, dirty, openTabs, activeDocId, autoSaveTimer, save, sync>>
        /\ UNCHANGED <<edits, unsaved, formats, hidden, Astray>>
    BY <1>3, <1>4 DEF StartEdit, history, Astray
  <2>2. drafts' = [drafts EXCEPT ![activeDocId] = drafts[activeDocId]]
        /\ shown' \in Grids(drafts'[activeDocId], hidden)
    BY <1>4, <2>1, OpenTexts DEF StartEdit, RenderGrid, Rendered
  <2>9. drafts' = drafts /\ shown' \in Grids(drafts[activeDocId], hidden)
    BY <1>1, <2>1, <2>2 DEF TypeOK
  <2> DEFINE draft == drafts[activeDocId]
  <2>10. draft \in Texts /\ draft.of = activeDocId /\ Fits(draft)
    BY <2>1, OpenTexts
  <2> HIDE DEF draft
  <2>11. shown' \in Grids(draft, hidden)
    BY <2>9 DEF draft
  <2>3. /\ drafts' = drafts /\ shown' \in Texts /\ shown'.of = activeDocId
        /\ shown'.edits \subseteq draft.edits /\ draft.edits \ hidden \subseteq shown'.edits
    BY <2>9, <2>10, <2>11, GridsShow
  <2>4. TypeOK /\ TextsStayApart /\ RecordsApart /\ TextsFit /\ DraftsKeep /\ StoredIsSaved
    BY DEF SheetInv
  <2>5. TypeOK'
    BY <1>2, <2>1, <2>3, <2>4 DEF TypeOK
  <2>6. TextsStayApart' /\ RecordsApart' /\ StoredIsSaved'
    BY <2>1, <2>3, <2>4 DEF TextsStayApart, RecordsApart, StoredIsSaved
  <2>7. TextsFit'
    <3>1. Fits(shown)'
      BY <2>1, <2>3, <2>10 DEF Fits
    <3> QED BY <2>1, <2>3, <2>4, <3>1 DEF TextsFit, Fits
  <2>8. DraftsKeep'
    BY <2>1, <2>3, <2>4 DEF DraftsKeep, draft
  <2> QED BY <2>5, <2>6, <2>7, <2>8 DEF SheetInv
<1>5. CASE EndEdit
  <2>1. /\ editMode' = FALSE /\ SaveActiveDocument(shown')
        /\ shown' \in IF activeDocId = NoDoc THEN {shown} ELSE Grids(drafts[activeDocId], hidden)
        /\ UNCHANGED <<server, docs, openTabs, activeDocId, autoSaveTimer, sync>>
        /\ UNCHANGED <<edits, unsaved, formats, hidden>>
    BY <1>5 DEF EndEdit, history
  <2>2. CASE activeDocId = NoDoc
    <3>1. UNCHANGED <<drafts, dirty, save>> /\ shown' = shown
      BY <2>1, <2>2 DEF SaveActiveDocument
    <3> QED BY <1>2, <2>1, <3>1, FlagsHold
  <2>3. CASE activeDocId \in Docs
    <3> DEFINE draft == drafts[activeDocId]
               grid == shown'
    <3>1. draft \in Texts /\ draft.of = activeDocId /\ Fits(draft) /\ grid \in Grids(draft, hidden)
      BY <2>1, <2>3, SheetAssumption, OpenTexts
    <3> HIDE DEF draft
    <3>2. /\ grid \in Texts /\ grid.of = activeDocId
          /\ grid.edits \subseteq draft.edits /\ draft.edits \ hidden \subseteq grid.edits
      BY <3>1, GridsShow
    <3>3. Fits(grid)
      BY <3>1, <3>2 DEF Fits
    <3>4. (drafts[activeDocId].edits \cap unsaved[activeDocId]) \ hidden \subseteq grid.edits
      BY <3>2 DEF draft
    <3>5. SaveActiveDocument(grid) /\ shown' = grid
      BY <2>1
    <3> HIDE DEF grid
    <3> QED BY <1>2, <2>1, <2>3, <3>2, <3>3, <3>4, <3>5, ReadBackHolds
  <2> QED BY <1>3, <2>2, <2>3
<1>6. CASE AutoSave
  <2>1. /\ autoSaveTimer' = FALSE
        /\ IF Unsaved THEN SaveActiveDocument(shown) ELSE UNCHANGED <<drafts, dirty, save>>
        /\ UNCHANGED <<server, docs, openTabs, activeDocId, shown, editMode, sync>>
        /\ UNCHANGED <<edits, unsaved, formats, hidden>>
    BY <1>6 DEF AutoSave, history
  <2>2. CASE Unsaved
    <3>1. activeDocId \in Docs
      BY <1>3, <2>2 DEF Unsaved
    <3> QED BY <1>2, <2>1, <2>2, <3>1, OpenTexts, ReadBackHolds
  <2>3. CASE ~Unsaved
    BY <1>2, <2>1, <2>3, FlagsHold
  <2> QED BY <2>2, <2>3
<1>7. CASE IntervalSave
  <2>1. /\ activeDocId \in Docs /\ SaveActiveDocument(shown)
        /\ UNCHANGED <<server, docs, openTabs, activeDocId, shown, editMode, sync>>
        /\ UNCHANGED <<autoSaveTimer, edits, unsaved, formats, hidden>>
    BY <1>3, <1>7 DEF IntervalSave, Unsaved, history
  <2> QED BY <1>2, <2>1, OpenTexts, ReadBackHolds
<1> QED BY <1>4, <1>5, <1>6, <1>7

\* Ctrl+S: the page that replaces this one shows what the server has.
LEMMA LeaveHolds == ASSUME SheetInv, SaveAndLeave PROVE SheetInv'
<1> USE SheetAssumption, NoTextIsNone
<1>1. TypeOK /\ TextsStayApart /\ TextsFit
  BY DEF SheetInv
<1>2. /\ activeDocId \in Docs /\ edits' = edits
      /\ server' \in {server, [server EXCEPT ![activeDocId] = shown]} /\ Loaded(server')
  BY <1>1 DEF SaveAndLeave, TypeOK
<1>3. \A d \in Docs : server'[d] \in Texts /\ server'[d].of = d /\ server'[d].edits \subseteq 1 .. edits
  BY <1>1, <1>2, OpenTexts DEF TypeOK, TextsStayApart, TextsFit, Fits
<1>4. server' \in [Docs -> Texts] /\ \A d \in Docs : server'[d] # NoText
  BY <1>1, <1>2, <1>3 DEF TypeOK
<1>5. /\ docs' = server' /\ activeDocId' = Default /\ save' = NoSave /\ sync' = NoSync
      /\ formats' = {} /\ hidden' = {} /\ unsaved' = Nothing /\ \A d \in Docs : unsaved'[d] = {}
  BY <1>2 DEF Loaded, Nothing
<1>6. drafts' = [d \in Docs |-> IF d = Default THEN server'[d] ELSE NoText]
  BY <1>2 DEF Loaded, DraftsOf
<1>7. shown' = IF Default = NoDoc THEN NoText ELSE server'[Default]
  BY <1>2 DEF Loaded, Opened
<1>8. NoSave.doc = NoDoc /\ NoSave.text = NoText /\ NoSave.at = "none"
  BY DEF NoSave
<1>9. TypeOK'
  <2>1. drafts' \in [Docs -> Texts \union {NoText}] /\ shown' \in Texts \union {NoText}
    BY <1>3, <1>6, <1>7
  <2>2. /\ dirty' \in [Docs -> BOOLEAN] /\ openTabs' \subseteq Docs
        /\ editMode' \in BOOLEAN /\ autoSaveTimer' \in BOOLEAN
    BY <1>2 DEF Loaded, Clean, FirstTabs
  <2>3. edits' \in 0 .. MaxEdits /\ formats' = {} /\ hidden' = {} /\ unsaved' \in [Docs -> SUBSET Edits]
    BY <1>1, <1>2, <1>5 DEF TypeOK, Nothing
  <2> QED BY <1>4, <1>5, <2>1, <2>2, <2>3 DEF TypeOK
<1>10. TextsStayApart' /\ RecordsApart'
  BY <1>3, <1>4, <1>5, <1>6, <1>7, <1>8 DEF TextsStayApart, RecordsApart
<1>11. TextsFit'
  <2>1. \A d \in Docs : sync'[d].edits = {}
    BY <1>5 DEF NoSync
  <2> QED BY <1>2, <1>3, <1>5, <1>6, <1>7, <1>8, <2>1 DEF TextsFit, Fits
<1>12. DraftsKeep' /\ StoredIsSaved'
  BY <1>5, <1>6, <1>7, <1>8 DEF DraftsKeep, StoredIsSaved
<1> QED BY <1>9, <1>10, <1>11, <1>12 DEF SheetInv

\* The request reaches the server: only edits of its document become stored ones.
LEMMA StoreHolds == ASSUME SheetInv, Store PROVE SheetInv'
<1> USE SheetAssumption, NoTextIsNone
<1>1. TypeOK /\ TextsStayApart /\ RecordsApart /\ TextsFit /\ DraftsKeep
  BY DEF SheetInv
<1> DEFINE at == save.doc
           text == save.text
<1>2. /\ save \in [doc : Docs, text : Texts, at : {"sent", "stored"}]
      /\ at \in Docs /\ text \in Texts /\ text.of = at
  BY <1>1 DEF Store, TypeOK, NoSave, TextsStayApart
<1>3. /\ save' = [save EXCEPT !.at = "stored"]
      /\ server' = [server EXCEPT ![at] = text]
      /\ unsaved' = [unsaved EXCEPT ![at] = @ \ text.edits] /\ formats' = formats \ text.edits
      /\ hidden' = hidden \ text.edits
      /\ UNCHANGED <<docs, drafts, dirty, openTabs, activeDocId, shown, editMode, autoSaveTimer>>
      /\ UNCHANGED <<sync, edits>>
  BY DEF Store, pageVars
<1>4. save'.doc = at /\ save'.text = text
      /\ save' \in [doc : Docs, text : Texts, at : {"sent", "stored"}]
  BY <1>2, <1>3
<1>5. \A d \in Docs : unsaved'[d] = IF d = at THEN unsaved[d] \ text.edits ELSE unsaved[d]
  BY <1>1, <1>3 DEF TypeOK
<1>6. \A d \in Docs : server'[d] = IF d = at THEN text ELSE server[d]
  BY <1>1, <1>3 DEF TypeOK
<1>7. \A d \in Docs : d # at => text.edits \cap unsaved[d] = {}
  BY <1>1, <1>2 DEF TextsFit, Fits
<1> HIDE DEF at, text
<1>8. TypeOK'
  <2>1. server' \in [Docs -> Texts] /\ unsaved' \in [Docs -> SUBSET Edits]
    BY <1>1, <1>2, <1>3 DEF TypeOK
  <2>2. formats' \subseteq Edits /\ hidden' \subseteq Edits
    BY <1>1, <1>3 DEF TypeOK
  <2> QED BY <1>1, <1>3, <1>4, <2>1, <2>2 DEF TypeOK
<1>9. TextsStayApart' /\ RecordsApart'
  BY <1>1, <1>2, <1>3, <1>4, <1>6 DEF TextsStayApart, RecordsApart
<1>10. TextsFit'
  <2>1. \A d \in Docs : unsaved'[d] \subseteq unsaved[d]
    BY <1>5
  <2>2. \A d \in Docs : Fits(docs[d])' /\ Fits(drafts[d])' /\ Fits(sync[d])'
    BY <1>1, <1>3, <2>1 DEF TextsFit, Fits
  <2>3. Fits(shown)'
    BY <1>1, <1>3, <2>1 DEF TextsFit, Fits
  <2>4. Fits(save.text)'
    BY <1>1, <1>3, <1>4, <2>1 DEF TextsFit, Fits, text
  <2>5. \A d \in Docs : Fits(server[d])'
    <3>1. ASSUME NEW d \in Docs, d # at PROVE Fits(server[d])'
      BY <1>1, <1>3, <1>6, <2>1, <3>1 DEF TextsFit, Fits
    <3>2. Fits(server[at])'
      BY <1>2, <1>3, <1>4, <1>6, <2>4 DEF Fits, at
    <3> QED BY <1>2, <1>3, <3>1, <3>2, <1>6, <2>4, <1>4 DEF Fits
  <2> QED BY <1>1, <1>3, <2>1, <2>2, <2>3, <2>4, <2>5 DEF TextsFit
<1>11. DraftsKeep'
  <2>1. Astray' = Astray \ text.edits
    BY <1>3 DEF Astray
  <2>4. \A d \in Docs : unsaved'[d] \ Astray' \subseteq unsaved[d] \ Astray
    BY <1>5, <1>7, <2>1
  <2>2. ASSUME NEW d \in Docs, ~dirty'[d] PROVE unsaved'[d] \subseteq Astray'
    BY <1>1, <1>3, <2>2, <2>4 DEF DraftsKeep
  <2>3. \A d \in Docs : unsaved'[d] \ Astray' \subseteq drafts'[d].edits
    BY <1>1, <1>3, <2>4 DEF DraftsKeep
  <2>5. ASSUME activeDocId # NoDoc
        PROVE  (drafts[activeDocId].edits \cap unsaved'[activeDocId]) \ hidden' \subseteq shown.edits
    <3>1. activeDocId \in Docs
      BY <1>1, <2>5 DEF TypeOK
    <3>2. unsaved'[activeDocId] \ hidden' \subseteq unsaved[activeDocId] \ hidden
      BY <1>3, <1>5, <1>7, <3>1
    <3> QED BY <1>1, <2>5, <3>2 DEF DraftsKeep
  <2> QED BY <1>3, <2>2, <2>3, <2>5 DEF DraftsKeep
<1>12. StoredIsSaved'
  BY <1>2, <1>4, <1>5 DEF StoredIsSaved
<1> QED BY <1>8, <1>9, <1>10, <1>11, <1>12 DEF SheetInv

\* The request fails.
LEMMA NotSavedHolds == ASSUME SheetInv, NotSaved PROVE SheetInv'
<1> USE SheetAssumption, NoTextIsNone
<1>1. TypeOK /\ TextsStayApart /\ RecordsApart /\ TextsFit /\ DraftsKeep
  BY DEF SheetInv
<1>2. /\ save' = NoSave /\ NoSave.doc = NoDoc /\ NoSave.text = NoText /\ NoSave.at = "none"
      /\ UNCHANGED <<server, docs, drafts, dirty, openTabs, activeDocId, shown, editMode>>
      /\ UNCHANGED <<autoSaveTimer, sync, edits, unsaved, formats, hidden, Astray>>
  BY DEF NotSaved, NoSave, pageVars, history, Astray
<1>3. TypeOK'
  BY <1>1, <1>2 DEF TypeOK
<1>4. TextsStayApart' /\ RecordsApart' /\ StoredIsSaved'
  BY <1>1, <1>2 DEF TextsStayApart, RecordsApart, StoredIsSaved
<1>5. TextsFit'
  BY <1>1, <1>2 DEF TextsFit, Fits
<1>6. DraftsKeep'
  BY <1>1, <1>2 DEF DraftsKeep
<1> QED BY <1>3, <1>4, <1>5, <1>6 DEF SheetInv

\* The answer: the open document becomes clean only when its draft is the text that was
\* sent, and then nothing of it is unsaved, or what is left of it is given up.
LEMMA SavedHolds == ASSUME SheetInv, Saved PROVE SheetInv'
<1> USE SheetAssumption, NoTextIsNone
<1>1. TypeOK /\ TextsStayApart /\ RecordsApart /\ TextsFit /\ DraftsKeep /\ StoredIsSaved
  BY DEF SheetInv
<1>2. /\ save' = NoSave /\ NoSave.doc = NoDoc /\ NoSave.text = NoText /\ NoSave.at = "none"
      /\ UNCHANGED <<server, drafts, openTabs, activeDocId, shown, editMode, autoSaveTimer>>
      /\ UNCHANGED <<sync, edits, formats, hidden, Astray>>
  BY DEF Saved, Answered, NoSave, Astray
<1>3. /\ save \in [doc : Docs, text : Texts, at : {"sent", "stored"}]
      /\ save.doc \in Docs /\ save.text \in Texts /\ save.text.of = save.doc
      /\ save.at # "sent" => unsaved[save.doc] \cap save.text.edits = {}
  BY <1>1 DEF Saved, Answered, TypeOK, NoSave, TextsStayApart, StoredIsSaved
<1> DEFINE gone == save.at = "sent" /\ activeDocId # NoDoc /\ ~dirty'[activeDocId]
<1>6. unsaved' = IF gone THEN [unsaved EXCEPT ![save.doc] = @ \ save.text.edits] ELSE unsaved
  BY DEF Saved, Answered
<1>7. \A d \in Docs : unsaved'[d] = IF gone /\ d = save.doc THEN unsaved[d] \ save.text.edits
                                   ELSE unsaved[d]
  BY <1>1, <1>3, <1>6 DEF TypeOK
<1>8. unsaved' \in [Docs -> SUBSET Edits] /\ \A d \in Docs : unsaved'[d] \subseteq unsaved[d]
  <2>1. unsaved' \in [Docs -> SUBSET Edits]
    BY <1>1, <1>3, <1>6 DEF TypeOK
  <2> QED BY <1>7, <2>1
<1>4. CASE activeDocId = NoDoc
  <2>1. UNCHANGED <<dirty, docs>> /\ unsaved' = unsaved
    BY <1>4, <1>6 DEF Saved
  <2>2. TypeOK'
    BY <1>1, <1>2, <2>1 DEF TypeOK
  <2>3. TextsStayApart' /\ RecordsApart' /\ StoredIsSaved'
    BY <1>1, <1>2, <2>1 DEF TextsStayApart, RecordsApart, StoredIsSaved
  <2>4. TextsFit' /\ DraftsKeep'
    BY <1>1, <1>2, <2>1 DEF TextsFit, Fits, DraftsKeep
  <2> QED BY <2>2, <2>3, <2>4 DEF SheetInv
<1>5. CASE activeDocId \in Docs
  <2> DEFINE a == activeDocId
  <2>1. /\ dirty' = [dirty EXCEPT ![a] = drafts[a] # save.text]
        /\ docs' = [docs EXCEPT ![a] = save.text]
    BY <1>5 DEF Saved
  <2>2. \A d \in Docs : docs'[d] = IF d = a THEN save.text ELSE docs[d]
    BY <1>1, <2>1 DEF TypeOK
  <2>3. \A d \in Docs : ~dirty'[d] => (IF d = a THEN drafts[d] = save.text ELSE ~dirty[d])
    BY <1>1, <2>1 DEF TypeOK
  <2>4. TypeOK'
    <3>1. docs' \in [Docs -> Texts] /\ dirty' \in [Docs -> BOOLEAN]
      BY <1>1, <1>3, <2>1 DEF TypeOK
    <3> QED BY <1>1, <1>2, <1>8, <3>1 DEF TypeOK
  <2>5. TextsStayApart' /\ StoredIsSaved'
    BY <1>1, <1>2 DEF TextsStayApart, StoredIsSaved
  <2>6. RecordsApart'
    BY <1>1, <1>2, <1>5, <2>2 DEF RecordsApart, TextsStayApart
  <2>7. TextsFit'
    <3>1. \A d \in Docs : Fits(docs[d])'
      BY <1>1, <1>2, <1>8, <2>2 DEF TextsFit, Fits
    <3> QED BY <1>1, <1>2, <1>8, <3>1 DEF TextsFit, Fits
  <2>8. DraftsKeep'
    <3>1. ASSUME NEW d \in Docs, ~dirty'[d] PROVE unsaved'[d] \subseteq Astray
      <4>1. CASE d # a
        <5>1. unsaved[d] \subseteq Astray
          BY <1>1, <2>3, <3>1, <4>1 DEF DraftsKeep
        <5> QED BY <1>8, <5>1
      <4>2. CASE d = a
        <5>1. drafts[d] = save.text /\ save.doc = d
          BY <1>1, <1>3, <1>5, <2>3, <3>1, <4>2 DEF TextsStayApart
        <5>2. unsaved[d] \ Astray \subseteq save.text.edits
          BY <1>1, <5>1 DEF DraftsKeep
        <5>3. save.at = "sent" => gone
          BY <1>5, <3>1, <4>2
        <5>4. unsaved'[d] \cap save.text.edits = {}
          BY <1>3, <1>7, <5>1, <5>3
        <5> QED BY <1>8, <5>2, <5>4
      <4> QED BY <4>1, <4>2
    <3>2. \A d \in Docs : unsaved'[d] \ Astray \subseteq drafts[d].edits
      BY <1>1, <1>8 DEF DraftsKeep
    <3>3. (drafts[a].edits \cap unsaved'[a]) \ hidden \subseteq shown.edits
      BY <1>1, <1>5, <1>8 DEF DraftsKeep
    <3> QED BY <1>2, <3>1, <3>2, <3>3 DEF DraftsKeep
  <2> QED BY <2>4, <2>5, <2>6, <2>7, <2>8 DEF SheetInv
<1> QED BY <1>1, <1>4, <1>5 DEF TypeOK

\* An answer of the synchronisation is prepared.
LEMMA SyncAnswersHolds == ASSUME SheetInv, SyncAnswers PROVE SheetInv'
<1> USE SheetAssumption, NoTextIsNone
<1>1. TypeOK /\ TextsStayApart /\ RecordsApart /\ TextsFit /\ DraftsKeep /\ StoredIsSaved
  BY DEF SheetInv
<1>2. /\ sync' = server
      /\ UNCHANGED <<server, docs, drafts, dirty, openTabs, activeDocId, shown, editMode>>
      /\ UNCHANGED <<autoSaveTimer, save, edits, unsaved, formats, hidden, Astray>>
  BY DEF SyncAnswers, pageVars, history, Astray
<1>3. TypeOK'
  BY <1>1, <1>2 DEF TypeOK
<1>4. TextsStayApart' /\ RecordsApart' /\ StoredIsSaved'
  BY <1>1, <1>2 DEF TextsStayApart, RecordsApart, StoredIsSaved
<1>5. TextsFit'
  BY <1>1, <1>2 DEF TextsFit, Fits
<1>6. DraftsKeep'
  BY <1>1, <1>2 DEF DraftsKeep
<1> QED BY <1>3, <1>4, <1>5, <1>6 DEF SheetInv

\* The answer is applied: only drafts of clean documents are replaced.
LEMMA ApplyHolds == ASSUME SheetInv, ApplyDocuments PROVE SheetInv'
<1> USE SheetAssumption, NoTextIsNone
<1> DEFINE a == activeDocId
           front == a \in Docs /\ ~dirty[a]
<1>1. TypeOK /\ TextsStayApart /\ RecordsApart /\ TextsFit /\ DraftsKeep /\ StoredIsSaved
  BY DEF SheetInv
<1>2. /\ sync # NoSync /\ sync' = NoSync /\ docs' = sync
      /\ UNCHANGED <<server, dirty, openTabs, activeDocId, editMode, autoSaveTimer, save>>
      /\ UNCHANGED <<edits, unsaved, formats, hidden, Astray>>
  BY DEF ApplyDocuments, history, Astray
<1>3. sync \in [Docs -> Texts] /\ \A d \in Docs : sync[d].of = d /\ sync[d] # NoText
  BY <1>1, <1>2 DEF TypeOK, RecordsApart
<1>4. /\ \A d \in Docs : drafts'[d] = IF dirty[d] THEN drafts[d]
                                     ELSE IF front /\ d = a THEN sync[d] ELSE NoText
      /\ drafts' \in [Docs -> Texts \union {NoText}]
      /\ front => /\ shown' \in Texts /\ shown'.of = a
                  /\ shown'.edits \subseteq sync[a].edits /\ sync[a].edits \ hidden \subseteq shown'.edits
      /\ ~front => shown' = shown
  <2> DEFINE kept == [d \in Docs |-> IF dirty[d] THEN drafts[d] ELSE NoText]
  <2>1. kept \in [Docs -> Texts \union {NoText}]
    BY <1>1 DEF TypeOK
  <2>2. CASE front
    <3>1. /\ drafts' = [kept EXCEPT ![a] = IF @ = NoText THEN sync[a] ELSE @]
          /\ shown' \in Grids(drafts'[a], hidden)
      BY <2>2 DEF ApplyDocuments, RenderGrid, Rendered
    <3>2. kept[a] = NoText
      BY <2>2
    <3>3. drafts' = [kept EXCEPT ![a] = sync[a]]
      BY <2>2, <3>1, <3>2
    <3>4. drafts'[a] = sync[a] /\ \A d \in Docs : d # a => drafts'[d] = kept[d]
      BY <2>1, <2>2, <3>3
    <3>5. drafts' \in [Docs -> Texts \union {NoText}]
      BY <1>3, <2>1, <2>2, <3>3
    <3> DEFINE text == sync[a]
    <3>6. text \in Texts /\ text.of = a /\ shown' \in Grids(text, hidden)
      BY <1>3, <2>2, <3>1, <3>4
    <3> HIDE DEF text
    <3>7. /\ shown' \in Texts /\ shown'.of = a
          /\ shown'.edits \subseteq text.edits /\ text.edits \ hidden \subseteq shown'.edits
      BY <3>6, GridsShow
    <3> QED BY <2>2, <3>4, <3>5, <3>7 DEF text
  <2>3. CASE ~front
    <3>1. drafts' = kept /\ shown' = shown
      BY <1>1, <2>3 DEF ApplyDocuments, TypeOK
    <3> QED BY <2>1, <2>3, <3>1
  <2> QED BY <2>2, <2>3
<1>5. a \in Docs => /\ shown'.of = a /\ drafts'[a] # NoText
                    /\ (drafts'[a].edits \cap unsaved[a]) \ hidden \subseteq shown'.edits
  <2>1. CASE front
    <3>1. drafts'[a] = sync[a]
      BY <1>4, <2>1
    <3> QED BY <1>3, <1>4, <2>1, <3>1
  <2>2. CASE a \in Docs /\ dirty[a]
    <3>1. drafts'[a] = drafts[a] /\ shown' = shown
      BY <1>4, <2>2
    <3> QED BY <1>1, <2>2, <3>1 DEF TextsStayApart, DraftsKeep
  <2> QED BY <1>1, <2>1, <2>2 DEF TypeOK
<1>6. a # NoDoc => a \in Docs
  BY <1>1 DEF TypeOK
<1>7. TypeOK'
  <2>1. shown' \in Texts \union {NoText}
    BY <1>1, <1>4 DEF TypeOK
  <2> QED BY <1>1, <1>2, <1>3, <1>4, <2>1 DEF TypeOK
<1>8. TextsStayApart'
  <2>1. \A d \in Docs : drafts'[d].of \in {d, NoDoc}
    BY <1>1, <1>3, <1>4 DEF TextsStayApart
  <2> QED BY <1>1, <1>2, <1>5, <1>6, <2>1 DEF TextsStayApart
<1>9. RecordsApart' /\ StoredIsSaved'
  BY <1>1, <1>2, <1>3 DEF RecordsApart, StoredIsSaved
<1>10. TextsFit'
  <2>1. \A d \in Docs : Fits(drafts[d])' /\ Fits(docs[d])'
    <3>1. Fits(NoText)'
      BY DEF Fits
    <3> QED BY <1>1, <1>2, <1>4, <3>1 DEF TextsFit, Fits
  <2>2. Fits(shown)'
    <3>1. CASE front
      BY <1>1, <1>2, <1>3, <1>4, <3>1 DEF TextsFit, Fits
    <3>2. CASE ~front
      BY <1>1, <1>2, <1>4, <3>2 DEF TextsFit, Fits
    <3> QED BY <3>1, <3>2
  <2>3. \A d \in Docs : Fits(sync[d])'
    BY <1>2 DEF Fits, NoSync
  <2> QED BY <1>1, <1>2, <2>1, <2>2, <2>3 DEF TextsFit, Fits
<1>11. DraftsKeep'
  <2>1. \A d \in Docs : unsaved[d] \ Astray \subseteq drafts'[d].edits
    BY <1>1, <1>4 DEF DraftsKeep
  <2> QED BY <1>1, <1>2, <1>5, <1>6, <2>1 DEF DraftsKeep
<1> QED BY <1>7, <1>8, <1>9, <1>10, <1>11 DEF SheetInv

\* Another user's change reaches the server.
LEMMA OthersHold ==
    ASSUME SheetInv, NEW d \in Docs, NEW k \in Edits, OthersSave(d, k)
    PROVE  SheetInv'
<1> USE SheetAssumption, NoTextIsNone
<1>1. TypeOK /\ TextsStayApart /\ RecordsApart /\ TextsFit /\ DraftsKeep /\ StoredIsSaved
  BY DEF SheetInv
<1>2. /\ k = edits + 1 /\ edits' = k /\ edits \in Nat /\ k <= MaxEdits
      /\ server' = [server EXCEPT ![d] = With(server[d], k)]
      /\ UNCHANGED <<docs, drafts, dirty, openTabs, activeDocId, shown, editMode>>
      /\ UNCHANGED <<autoSaveTimer, save, sync, unsaved, formats, hidden, Astray>>
  BY <1>1 DEF OthersSave, TypeOK, Edits, pageVars, Astray
<1>3. With(server[d], k) \in Texts /\ With(server[d], k).of = server[d].of
  BY <1>1, WithType DEF TypeOK
<1>4. \A e \in Docs : server'[e] = IF e = d THEN With(server[d], k) ELSE server[e]
  BY <1>1, <1>2 DEF TypeOK
<1>5. TypeOK'
  <2>1. server' \in [Docs -> Texts] /\ edits' \in 0 .. MaxEdits
    BY <1>1, <1>2, <1>3 DEF TypeOK
  <2> QED BY <1>1, <1>2, <2>1 DEF TypeOK
<1>6. TextsStayApart' /\ RecordsApart' /\ StoredIsSaved'
  BY <1>1, <1>2, <1>3, <1>4 DEF TextsStayApart, RecordsApart, StoredIsSaved
<1>7. TextsFit'
  <2>1. \A e \in Docs : unsaved[e] \subseteq 1 .. edits /\ unsaved'[e] = unsaved[e]
    BY <1>1, <1>2 DEF TextsFit
  <2>2. \A e \in Docs : unsaved'[e] \subseteq unsaved[e] \union {edits + 1}
    BY <2>1
  <2>3. \A e \in Docs : Fits(docs[e])' /\ Fits(drafts[e])' /\ Fits(sync[e])'
    BY <1>1, <1>2, <2>2, FitsOn DEF TextsFit, Fits
  <2>4. Fits(shown)' /\ Fits(save.text)'
    BY <1>1, <1>2, <2>2, FitsOn DEF TextsFit, Fits
  <2>5. \A e \in Docs : Fits(server[e])'
    <3>1. ASSUME NEW e \in Docs, e # d PROVE Fits(server[e])'
      BY <1>1, <1>2, <1>4, <2>2, <3>1, FitsOn DEF TextsFit, Fits
    <3>2. /\ With(server[d], k).edits \subseteq 1 .. edits'
          /\ \A e \in Docs : e # server[d].of => With(server[d], k).edits \cap unsaved'[e] = {}
      <4>1. server[d] \in Texts /\ Fits(server[d])
        BY <1>1 DEF TypeOK, TextsFit
      <4> QED BY <1>2, <2>1, <4>1, FitsWith
    <3>3. Fits(server[d])'
      BY <1>3, <1>4, <3>2 DEF Fits
    <3> QED BY <3>1, <3>3
  <2>6. \A e \in Docs : unsaved'[e] \subseteq 1 .. edits'
    BY <1>2, <2>1
  <2> QED BY <2>3, <2>4, <2>5, <2>6 DEF TextsFit
<1>8. DraftsKeep'
  BY <1>1, <1>2 DEF DraftsKeep
<1> QED BY <1>5, <1>6, <1>7, <1>8 DEF SheetInv

-----------------------------------------------------------------------------
(* Theorems.                                                                 *)

\* Every step of the page, of the server and of the other users keeps the invariant.
THEOREM SheetInvHolds == Spec => []SheetInv
<1>1. Init => SheetInv
  BY InitHolds
<1>2. SheetInv /\ [Next]_vars => SheetInv'
  <2> SUFFICES ASSUME SheetInv, [Next]_vars PROVE SheetInv'
    OBVIOUS
  <2>1. ASSUME NEW d \in Docs, Tab(d) PROVE SheetInv'
    BY <2>1, TabHolds
  <2>2. ASSUME NEW k \in Edits, Edit(k) PROVE SheetInv'
    BY <2>2, EditHolds
  <2>3. ASSUME NEW d \in Docs, NEW k \in Edits, OthersSave(d, k) PROVE SheetInv'
    BY <2>3, OthersHold
  <2>4. CASE StartEdit \/ EndEdit \/ AutoSave \/ IntervalSave
    BY <2>4, SaveHolds
  <2>5. CASE SaveAndLeave
    BY <2>5, LeaveHolds
  <2>6. CASE Answer
    BY <2>6, StoreHolds, SavedHolds, NotSavedHolds DEF Answer
  <2>7. CASE SyncAnswers \/ ApplyDocuments
    BY <2>7, SyncAnswersHolds, ApplyHolds
  <2>8. CASE UNCHANGED vars
    <3>1. TypeOK
      BY DEF SheetInv
    <3> QED BY <2>8, <3>1, FlagsHold DEF vars, pageVars, history, TypeOK
  <2> QED BY <2>1, <2>2, <2>3, <2>4, <2>5, <2>6, <2>7, <2>8 DEF Next
<1> QED BY <1>1, <1>2, PTL DEF Spec

\* No document of the page ever gets the text of another: the request of a save, the field
\* its answer updates and the grid are shared, and a draft, a request or the server's text
\* is still of the one document it was typed in.
THEOREM TextsAreApart == Spec => []TextsStayApart
<1>1. SheetInv => TextsStayApart
  BY DEF SheetInv
<1> QED BY <1>1, SheetInvHolds, PTL

\* What the user typed stays in the draft until the server has it, whatever tabs are opened,
\* whichever saves fail and whatever answers come late.  What leaves the draft before that
\* was hidden, was only a format, or was in a request whose refusal passed for a success.
THEOREM TypedStays == Spec => []TypedIsKept
<1>1. SheetInv => TypedIsKept
  BY DEF SheetInv, DraftsKeep, TypedIsKept
<1> QED BY <1>1, SheetInvHolds, PTL

-----------------------------------------------------------------------------
(* TableMerge.                                                              *)

-----------------------------------------------------------------------------
(* Induction: a set of numbers with zero and with the successor of each of    *)
(* its members is Nat; likewise a set of sequences, with Append.             *)

LEMMA LeastOne ==
    ASSUME NEW T \in SUBSET Nat, T # {}
    PROVE  \E x \in T : \A y \in T : x <= y
<1> DEFINE R == {p \in Nat \X Nat : p[1] < p[2]}
<1>1. IsWellFoundedOn(R, Nat)
  BY NatLessThanWellFounded DEF OpToRel
<1>2. \E x \in T : \A y \in T : <<y, x>> \notin R
  <2> HIDE DEF R
  <2> QED BY <1>1, WFMin
<1>3. \A x, y \in T : <<y, x>> \notin R => x <= y
  OBVIOUS
<1> QED BY <1>2, <1>3

LEMMA AllNumbers ==
    ASSUME NEW T \in SUBSET Nat, 0 \in T, \A n \in T : n + 1 \in T
    PROVE  T = Nat
<1> SUFFICES ASSUME Nat \ T # {} PROVE FALSE
  OBVIOUS
<1>1. PICK x \in Nat \ T : \A y \in Nat \ T : x <= y
  <2>1. Nat \ T \in SUBSET Nat
    OBVIOUS
  <2> QED BY <2>1, LeastOne
<1>2. x # 0 /\ x - 1 \in Nat
  OBVIOUS
<1>3. x - 1 \in T
  BY <1>1, <1>2
<1>4. (x - 1) + 1 \in T
  BY <1>3
<1> QED BY <1>4

LEMMA AllSequences ==
    ASSUME NEW S, NEW T \in SUBSET Seq(S), <<>> \in T,
           \A s \in T : \A e \in S : Append(s, e) \in T
    PROVE  \A s \in Seq(S) : s \in T
<1> DEFINE H == {n \in Nat : \A s \in Seq(S) : Len(s) = n => s \in T}
<1>1. 0 \in H
  BY EmptySeq
<1>2. ASSUME NEW n \in H PROVE n + 1 \in H
  <2> SUFFICES ASSUME NEW s \in Seq(S), Len(s) = n + 1 PROVE s \in T
    BY n \in Nat
  <2>1. s # <<>>
    BY n \in Nat
  <2>2. PICK f \in Seq(S) : \E e \in S : s = Append(f, e)
    BY <2>1, SequenceEmptyOrAppend
  <2>3. PICK e \in S : s = Append(f, e)
    BY <2>2
  <2>4. Len(f) = n
    <3>1. Len(s) = Len(f) + 1 /\ Len(f) \in Nat
      BY <2>3, AppendProperties
    <3> QED BY <3>1, n \in Nat
  <2>5. f \in T
    BY <2>4
  <2> QED BY <2>3, <2>5
<1>3. H = Nat
  <2>1. H \in SUBSET Nat
    OBVIOUS
  <2> HIDE DEF H
  <2> QED BY <1>1, <1>2, <2>1, AllNumbers
<1> SUFFICES ASSUME NEW s \in Seq(S) PROVE s \in T
  OBVIOUS
<1>4. Len(s) \in Nat
  OBVIOUS
<1>5. Len(s) \in H
  BY <1>3, <1>4
<1> QED BY <1>5

-----------------------------------------------------------------------------
(* FlattenSeq.                                                               *)

\* The recursive function of FlattenSeq, for n sequences.
Flattens(f, ss, n) ==
    f = [i \in 1 .. n |-> IF i = 1 THEN ss[i] ELSE f[i - 1] \o ss[i]]

Agrees(s, t, n) == \A i \in 1 .. n : s[i] = t[i]

LEMMA FlattensOne ==
    ASSUME NEW S, NEW ss \in Seq(Seq(S)), NEW n \in Nat, n <= Len(ss)
    PROVE  \E f \in [1 .. n -> Seq(S)] : Flattens(f, ss, n)
<1> DEFINE H == {k \in Nat : k <= Len(ss) => \E f \in [1 .. k -> Seq(S)] : Flattens(f, ss, k)}
<1>1. 0 \in H
  <2>1. [i \in 1 .. 0 |-> <<>>] \in [1 .. 0 -> Seq(S)]
    OBVIOUS
  <2>2. Flattens([i \in 1 .. 0 |-> <<>>], ss, 0)
    BY DEF Flattens
  <2> QED BY <2>1, <2>2
<1>2. ASSUME NEW k \in H PROVE k + 1 \in H
  <2> SUFFICES ASSUME k + 1 <= Len(ss)
               PROVE  \E f \in [1 .. k + 1 -> Seq(S)] : Flattens(f, ss, k + 1)
    BY k \in Nat
  <2>0. k \in Nat /\ k <= Len(ss) /\ ss[k + 1] \in Seq(S)
    BY k \in Nat
  <2>1. PICK f \in [1 .. k -> Seq(S)] : Flattens(f, ss, k)
    BY <2>0
  <2> DEFINE g == [i \in 1 .. k + 1 |->
                       IF i = k + 1 THEN IF k = 0 THEN ss[1] ELSE f[k] \o ss[k + 1] ELSE f[i]]
  <2>2. \A i \in 1 .. k : f[i] = IF i = 1 THEN ss[i] ELSE f[i - 1] \o ss[i]
    <3>1. f = [i \in 1 .. k |-> IF i = 1 THEN ss[i] ELSE f[i - 1] \o ss[i]]
      BY <2>1 DEF Flattens
    <3> QED BY <3>1, Zenon
  <2>3. ASSUME NEW i \in 1 .. k + 1 PROVE g[i] \in Seq(S)
    <3>1. CASE i = k + 1
      <4>1. CASE k = 0
        BY <2>0, <3>1, <4>1
      <4>2. CASE k # 0
        <5>1. f[k] \in Seq(S)
          BY <2>0, <4>2
        <5>2. f[k] \o ss[k + 1] \in Seq(S)
          BY <2>0, <5>1, ConcatProperties
        <5> QED BY <3>1, <4>2, <5>2
      <4> QED BY <4>1, <4>2
    <3>2. CASE i # k + 1
      BY <2>0, <3>2
    <3> QED BY <3>1, <3>2
  <2>4. ASSUME NEW i \in 1 .. k + 1
        PROVE  g[i] = IF i = 1 THEN ss[i] ELSE g[i - 1] \o ss[i]
    <3>1. CASE i = k + 1 /\ k = 0
      BY <3>1
    <3>2. CASE i = k + 1 /\ k # 0
      <4>1. i # 1 /\ i - 1 = k /\ k \in 1 .. k + 1 /\ k # k + 1
        BY <2>0, <3>2
      <4>2. g[i] = f[k] \o ss[k + 1] /\ g[k] = f[k]
        BY <3>2, <4>1
      <4> QED BY <3>2, <4>1, <4>2
    <3>3. CASE i # k + 1
      <4>1. i \in 1 .. k /\ (i # 1 => i - 1 \in 1 .. k /\ i - 1 # k + 1)
        BY <2>0, <3>3
      <4>2. g[i] = f[i] /\ (i # 1 => g[i - 1] = f[i - 1])
        BY <3>3, <4>1
      <4> QED BY <2>2, <4>1, <4>2
    <3> QED BY <3>1, <3>2, <3>3
  <2>5. g \in [1 .. k + 1 -> Seq(S)]
    BY <2>3
  <2>6. g = [i \in 1 .. k + 1 |-> IF i = 1 THEN ss[i] ELSE g[i - 1] \o ss[i]]
    <3>1. g = [i \in 1 .. k + 1 |-> g[i]]
      OBVIOUS
    <3> HIDE DEF g
    <3> QED BY <2>4, <3>1, Zenon
  <2> HIDE DEF g
  <2> QED BY <2>5, <2>6 DEF Flattens
<1>3. H = Nat
  <2>1. H \in SUBSET Nat
    OBVIOUS
  <2> HIDE DEF H
  <2> QED BY <1>1, <1>2, <2>1, AllNumbers
<1> QED BY <1>3

\* Two such functions agree where both are defined.
LEMMA FlattensAgree ==
    ASSUME NEW ss, NEW n \in Nat, NEW m \in Nat, NEW tt,
           NEW f, NEW g, Flattens(f, ss, n), Flattens(g, tt, m),
           n <= m, Agrees(ss, tt, n)
    PROVE  Agrees(f, g, n)
<1> DEFINE H == {k \in Nat : k \in 1 .. n => f[k] = g[k]}
<1>0. /\ \A i \in 1 .. n : f[i] = IF i = 1 THEN ss[i] ELSE f[i - 1] \o ss[i]
      /\ \A i \in 1 .. m : g[i] = IF i = 1 THEN tt[i] ELSE g[i - 1] \o tt[i]
  <2>1. f = [i \in 1 .. n |-> IF i = 1 THEN ss[i] ELSE f[i - 1] \o ss[i]]
    BY DEF Flattens
  <2>2. g = [i \in 1 .. m |-> IF i = 1 THEN tt[i] ELSE g[i - 1] \o tt[i]]
    BY DEF Flattens
  <2>3. \A i \in 1 .. n : f[i] = IF i = 1 THEN ss[i] ELSE f[i - 1] \o ss[i]
    BY <2>1, Zenon
  <2>4. \A i \in 1 .. m : g[i] = IF i = 1 THEN tt[i] ELSE g[i - 1] \o tt[i]
    BY <2>2, Zenon
  <2> QED BY <2>3, <2>4
<1>1. 0 \in H
  OBVIOUS
<1>2. ASSUME NEW k \in H PROVE k + 1 \in H
  <2> SUFFICES ASSUME k + 1 \in 1 .. n PROVE f[k + 1] = g[k + 1]
    BY k \in Nat
  <2>0. k \in Nat /\ k + 1 \in 1 .. m /\ (k + 1 # 1 => k \in 1 .. n /\ (k + 1) - 1 = k)
    BY k \in Nat
  <2>1. f[k + 1] = IF k + 1 = 1 THEN ss[k + 1] ELSE f[(k + 1) - 1] \o ss[k + 1]
    BY <1>0
  <2>2. g[k + 1] = IF k + 1 = 1 THEN tt[k + 1] ELSE g[(k + 1) - 1] \o tt[k + 1]
    BY <1>0, <2>0
  <2>3. k + 1 # 1 => f[k] = g[k]
    BY <2>0
  <2>4. ss[k + 1] = tt[k + 1]
    BY DEF Agrees
  <2>5. CASE k + 1 = 1
    BY <2>1, <2>2, <2>4, <2>5
  <2>6. CASE k + 1 # 1
    BY <2>0, <2>1, <2>2, <2>3, <2>4, <2>6
  <2> QED BY <2>5, <2>6
<1>3. H = Nat
  <2>1. H \in SUBSET Nat
    OBVIOUS
  <2> HIDE DEF H
  <2> QED BY <1>1, <1>2, <2>1, AllNumbers
<1> QED BY <1>3 DEF Agrees

LEMMA FlattenIs ==
    ASSUME NEW S, NEW ss \in Seq(Seq(S)), ss # <<>>
    PROVE  \E f \in [1 .. Len(ss) -> Seq(S)] :
               Flattens(f, ss, Len(ss)) /\ FlattenSeq(ss) = f[Len(ss)]
<1> DEFINE N == Len(ss)
           Fits1(f) == f = [i \in 1 .. N |-> IF i = 1 THEN ss[i] ELSE f[i - 1] \o ss[i]]
           c == CHOOSE f : Fits1(f)
<1>0. N \in Nat /\ N # 0
  OBVIOUS
<1>1. FlattenSeq(ss) = c[N]
  BY <1>0 DEF FlattenSeq
<1>2. PICK f \in [1 .. N -> Seq(S)] : Flattens(f, ss, N)
  <2>1. N <= Len(ss)
    BY <1>0
  <2> QED BY <1>0, <2>1, FlattensOne
<1>3. Fits1(f)
  BY <1>2 DEF Flattens
<1>4. Fits1(c)
  <2> HIDE DEF Fits1
  <2> QED BY <1>3, Zenon
<1>5. Flattens(c, ss, N)
  BY <1>4 DEF Flattens
<1> HIDE DEF c
<1>6. Agrees(f, c, N)
  <2>1. N \in Nat /\ N <= N /\ Agrees(ss, ss, N)
    BY DEF Agrees
  <2> HIDE DEF N
  <2> QED BY <2>1, <1>2, <1>5, FlattensAgree
<1>7. f[N] = c[N]
  BY <1>0, <1>6 DEF Agrees
<1> QED BY <1>1, <1>2, <1>7

LEMMA FlattenNone == FlattenSeq(<<>>) = <<>>
BY DEF FlattenSeq

LEMMA FlattenType ==
    ASSUME NEW S, NEW ss \in Seq(Seq(S))
    PROVE  FlattenSeq(ss) \in Seq(S)
<1>1. CASE ss = <<>>
  BY <1>1, FlattenNone, EmptySeq
<1>2. CASE ss # <<>>
  <2>1. PICK f \in [1 .. Len(ss) -> Seq(S)] : FlattenSeq(ss) = f[Len(ss)]
    BY <1>2, FlattenIs
  <2>2. Len(ss) \in 1 .. Len(ss)
    BY <1>2
  <2> QED BY <2>1, <2>2
<1> QED BY <1>1, <1>2

LEMMA FlattenAppend ==
    ASSUME NEW S, NEW ss \in Seq(Seq(S)), NEW s \in Seq(S)
    PROVE  FlattenSeq(Append(ss, s)) = FlattenSeq(ss) \o s
<1> DEFINE tt == Append(ss, s)
           n == Len(ss)
<1>0. /\ tt \in Seq(Seq(S)) /\ tt # <<>> /\ Len(tt) = n + 1 /\ n \in Nat
      /\ tt[n + 1] = s /\ \A i \in 1 .. n : tt[i] = ss[i]
  <2>1. /\ tt \in Seq(Seq(S)) /\ tt # <<>> /\ Len(tt) = n + 1 /\ n \in Nat
        /\ tt[n + 1] = s
    BY AppendProperties
  <2>2. \A i \in 1 .. n : tt[i] = ss[i]
    BY AppendProperties
  <2> QED BY <2>1, <2>2
<1> HIDE DEF tt
<1>1. PICK g \in [1 .. n + 1 -> Seq(S)] : Flattens(g, tt, n + 1) /\ FlattenSeq(tt) = g[n + 1]
  BY <1>0, FlattenIs
<1>2. g[n + 1] = IF n + 1 = 1 THEN tt[n + 1] ELSE g[(n + 1) - 1] \o tt[n + 1]
  <2>1. g = [i \in 1 .. n + 1 |-> IF i = 1 THEN tt[i] ELSE g[i - 1] \o tt[i]]
    BY <1>1 DEF Flattens
  <2>2. n + 1 \in 1 .. n + 1
    BY <1>0
  <2> QED BY <2>1, <2>2, Zenon
<1>3. CASE ss = <<>>
  <2>1. g[n + 1] = s
    BY <1>0, <1>2, <1>3
  <2>2. <<>> \o s = s
    BY ConcatEmptySeq
  <2> QED BY <1>1, <1>3, <2>1, <2>2, FlattenNone DEF tt
<1>4. CASE ss # <<>>
  <2>1. PICK f \in [1 .. n -> Seq(S)] : Flattens(f, ss, n) /\ FlattenSeq(ss) = f[n]
    BY <1>4, FlattenIs
  <2>2. n \in 1 .. n /\ n + 1 # 1 /\ (n + 1) - 1 = n
    BY <1>0, <1>4
  <2>3. Agrees(f, g, n)
    <3> DEFINE m == n + 1
    <3>1. n \in Nat /\ n <= m /\ m \in Nat /\ Flattens(g, tt, m)
      BY <1>0, <1>1
    <3>2. Agrees(ss, tt, n)
      BY <1>0 DEF Agrees
    <3>3. Flattens(f, ss, n)
      BY <2>1
    <3> HIDE DEF n, m
    <3> QED BY <3>1, <3>2, <3>3, FlattensAgree
  <2>4. f[n] = g[n]
    BY <2>2, <2>3 DEF Agrees
  <2>5. g[n + 1] = g[n] \o s
    BY <1>0, <1>2, <2>2
  <2> QED BY <1>1, <2>1, <2>4, <2>5 DEF tt
<1> QED BY <1>3, <1>4

LEMMA NothingOfNothing == \A s \in Seq({}) : s = <<>>
<1> TAKE s \in Seq({})
<1>1. Len(s) \in Nat /\ (Len(s) # 0 => s[1] \in {})
  OBVIOUS
<1>2. Len(s) = 0
  BY <1>1
<1> QED BY <1>2

LEMMA AppendToConcat ==
    ASSUME NEW S, NEW s \in Seq(S), NEW t \in Seq(S), NEW e \in S
    PROVE  s \o Append(t, e) = Append(s \o t, e)
<1>1. <<e>> \in Seq(S) /\ s \o t \in Seq(S)
  BY ConcatProperties
<1>2. Append(t, e) = t \o <<e>> /\ Append(s \o t, e) = (s \o t) \o <<e>>
  BY <1>1, AppendIsConcat
<1> DEFINE x == <<e>>
<1>3. x \in Seq(S)
  BY <1>1
<1> HIDE DEF x
<1>4. (s \o t) \o x = s \o (t \o x)
  BY <1>3, ConcatAssociative
<1> QED BY <1>2, <1>4 DEF x

LEMMA FlattenConcat ==
    ASSUME NEW S, NEW ss \in Seq(Seq(S)), NEW tt \in Seq(Seq(S))
    PROVE  FlattenSeq(ss \o tt) = FlattenSeq(ss) \o FlattenSeq(tt)
<1> DEFINE Q == Seq(S)
           T == {t \in Seq(Q) : FlattenSeq(ss \o t) = FlattenSeq(ss) \o FlattenSeq(t)}
<1>1. <<>> \in T
  <2>1. ss \o <<>> = ss /\ <<>> \in Seq(Q)
    BY ConcatEmptySeq, EmptySeq
  <2>2. FlattenSeq(ss) \o <<>> = FlattenSeq(ss)
    BY FlattenType, ConcatEmptySeq
  <2> QED BY <2>1, <2>2, FlattenNone
<1>2. ASSUME NEW t \in T, NEW e \in Q PROVE Append(t, e) \in T
  <2>1. t \in Seq(Q) /\ Append(t, e) \in Seq(Q) /\ ss \o t \in Seq(Q)
    BY AppendProperties, ConcatProperties
  <2>2. ss \o Append(t, e) = Append(ss \o t, e)
    <3>1. ss \in Seq(Q)
      OBVIOUS
    <3> HIDE DEF Q, T
    <3> QED BY <2>1, <3>1, AppendToConcat
  <2>3. FlattenSeq(Append(ss \o t, e)) = FlattenSeq(ss \o t) \o e
    BY <2>1, FlattenAppend
  <2>4. FlattenSeq(Append(t, e)) = FlattenSeq(t) \o e
    BY <2>1, FlattenAppend
  <2>5. FlattenSeq(ss) \o (FlattenSeq(t) \o e) = (FlattenSeq(ss) \o FlattenSeq(t)) \o e
    <3> DEFINE x == FlattenSeq(ss)
               y == FlattenSeq(t)
    <3>1. x \in Seq(S) /\ y \in Seq(S) /\ e \in Seq(S)
      BY <2>1, FlattenType
    <3> HIDE DEF x, y, T, Q
    <3>2. (x \o y) \o e = x \o (y \o e)
      BY <3>1, ConcatAssociative, SMTT(30)
    <3> QED BY <3>2 DEF x, y
  <2> QED BY <2>1, <2>2, <2>3, <2>4, <2>5
<1>3. T \in SUBSET Seq(Q)
  OBVIOUS
<1>4. tt \in T
  <2>1. tt \in Seq(Q)
    OBVIOUS
  <2> HIDE DEF T, Q
  <2> QED BY <1>1, <1>2, <1>3, <2>1, AllSequences
<1> QED BY <1>4

\* A function of each element.
Mapped(s, f) == [i \in DOMAIN s |-> f[s[i]]]

Maps(t, s, f) == Len(t) = Len(s) /\ \A i \in 1 .. Len(s) : t[i] = f[s[i]]

LEMMA MappedFacts ==
    ASSUME NEW A, NEW B, NEW f \in [A -> B], NEW s \in Seq(A)
    PROVE  Mapped(s, f) \in Seq(B) /\ Maps(Mapped(s, f), s, f)
<1>1. DOMAIN s = 1 .. Len(s) /\ Len(s) \in Nat /\ \A i \in 1 .. Len(s) : s[i] \in A
  OBVIOUS
<1>2. Mapped(s, f) = [i \in 1 .. Len(s) |-> f[s[i]]]
  BY <1>1 DEF Mapped
<1> QED BY <1>1, <1>2, IsASeq DEF Maps

LEMMA MappedAppend ==
    ASSUME NEW A, NEW B, NEW f \in [A -> B], NEW s \in Seq(A), NEW e \in A
    PROVE  Mapped(Append(s, e), f) = Append(Mapped(s, f), f[e])
<1> DEFINE m == Mapped(s, f)
           t == Append(s, e)
           n == Len(s)
<1>1. /\ m \in Seq(B) /\ Len(m) = n /\ \A i \in 1 .. n : m[i] = f[s[i]]
      /\ f[e] \in B
  <2>1. Mapped(s, f) \in Seq(B) /\ Maps(Mapped(s, f), s, f)
    BY MappedFacts
  <2> QED BY <2>1 DEF Maps
<1>2. /\ t \in Seq(A) /\ Len(t) = n + 1 /\ n \in Nat /\ t[n + 1] = e
      /\ \A i \in 1 .. n : t[i] = s[i]
  BY AppendProperties
<1>3. /\ Mapped(t, f) \in Seq(B) /\ Len(Mapped(t, f)) = n + 1
      /\ \A i \in 1 .. n + 1 : Mapped(t, f)[i] = f[t[i]]
  <2> HIDE DEF t, n
  <2>1. /\ Mapped(t, f) \in Seq(B) /\ Len(Mapped(t, f)) = Len(t)
        /\ \A i \in 1 .. Len(t) : Mapped(t, f)[i] = f[t[i]]
    <3>1. Mapped(t, f) \in Seq(B) /\ Maps(Mapped(t, f), t, f)
      BY <1>2, MappedFacts
    <3> QED BY <3>1 DEF Maps
  <2> QED BY <1>2, <2>1
<1> HIDE DEF m, t
<1>4. /\ Append(m, f[e]) \in Seq(B) /\ Len(Append(m, f[e])) = n + 1
      /\ Append(m, f[e])[n + 1] = f[e] /\ \A i \in 1 .. n : Append(m, f[e])[i] = m[i]
  BY <1>1, AppendProperties
<1> HIDE DEF n
<1>5. \A i \in 1 .. n + 1 : Mapped(t, f)[i] = Append(m, f[e])[i]
  <2> TAKE i \in 1 .. n + 1
  <2>1. CASE i = n + 1
    BY <1>2, <1>3, <1>4, <2>1
  <2>2. CASE i # n + 1
    <3>1. i \in 1 .. n
      BY <1>2, <2>2
    <3> QED BY <1>1, <1>2, <1>3, <1>4, <3>1
  <2> QED BY <2>1, <2>2
<1>6. Mapped(t, f) = Append(m, f[e])
  BY <1>3, <1>4, <1>5, SeqEqual
<1> QED BY <1>6 DEF m, t

\* A sequence for each element, one after the other.
FlatMap(s, f) == FlattenSeq(Mapped(s, f))

LEMMA FlatMapNone ==
    ASSUME NEW f
    PROVE  FlatMap(<<>>, f) = <<>>
<1>1. Mapped(<<>>, f) = <<>>
  BY DEF Mapped
<1> QED BY <1>1, FlattenNone DEF FlatMap

LEMMA FlatMapType ==
    ASSUME NEW A, NEW B, NEW f \in [A -> Seq(B)], NEW s \in Seq(A)
    PROVE  FlatMap(s, f) \in Seq(B)
<1>1. Mapped(s, f) \in Seq(Seq(B))
  BY MappedFacts
<1> QED BY <1>1, FlattenType DEF FlatMap

LEMMA FlatMapAppend ==
    ASSUME NEW A, NEW B, NEW f \in [A -> Seq(B)], NEW s \in Seq(A), NEW e \in A
    PROVE  FlatMap(Append(s, e), f) = FlatMap(s, f) \o f[e]
<1>1. Mapped(s, f) \in Seq(Seq(B)) /\ f[e] \in Seq(B)
  BY MappedFacts
<1>2. Mapped(Append(s, e), f) = Append(Mapped(s, f), f[e])
  BY MappedAppend
<1> QED BY <1>1, <1>2, FlattenAppend DEF FlatMap

LEMMA FlatMapConcat ==
    ASSUME NEW A, NEW B, NEW f \in [A -> Seq(B)], NEW s \in Seq(A), NEW t \in Seq(A)
    PROVE  FlatMap(s \o t, f) = FlatMap(s, f) \o FlatMap(t, f)
<1> DEFINE T == {u \in Seq(A) : FlatMap(s \o u, f) = FlatMap(s, f) \o FlatMap(u, f)}
<1>1. <<>> \in T
  <2>1. s \o <<>> = s /\ <<>> \in Seq(A)
    BY ConcatEmptySeq, EmptySeq
  <2>2. FlatMap(s, f) \o <<>> = FlatMap(s, f)
    BY FlatMapType, ConcatEmptySeq
  <2> QED BY <2>1, <2>2, FlatMapNone
<1>2. ASSUME NEW u \in T, NEW e \in A PROVE Append(u, e) \in T
  <2>1. u \in Seq(A) /\ Append(u, e) \in Seq(A) /\ s \o u \in Seq(A)
    BY AppendProperties, ConcatProperties
  <2>2. s \o Append(u, e) = Append(s \o u, e)
    BY <2>1, AppendToConcat, SMTT(30)
  <2>3. FlatMap(Append(s \o u, e), f) = FlatMap(s \o u, f) \o f[e]
    BY <2>1, FlatMapAppend
  <2>4. FlatMap(Append(u, e), f) = FlatMap(u, f) \o f[e]
    BY <2>1, FlatMapAppend
  <2>5. FlatMap(s, f) \o (FlatMap(u, f) \o f[e]) = (FlatMap(s, f) \o FlatMap(u, f)) \o f[e]
    <3> DEFINE x == FlatMap(s, f)
               y == FlatMap(u, f)
               z == f[e]
    <3>1. x \in Seq(B) /\ y \in Seq(B) /\ z \in Seq(B)
      BY <2>1, FlatMapType
    <3> HIDE DEF x, y, z, T
    <3>2. (x \o y) \o z = x \o (y \o z)
      BY <3>1, ConcatAssociative, SMTT(30)
    <3> QED BY <3>2 DEF x, y, z
  <2> QED BY <2>1, <2>2, <2>3, <2>4, <2>5
<1>3. T \in SUBSET Seq(A)
  OBVIOUS
<1>4. t \in T
  <2> HIDE DEF T
  <2> QED BY <1>1, <1>2, <1>3, AllSequences
<1> QED BY <1>4

\* What goes through \o also goes through FlattenSeq.
Through(g, A, B) ==
    /\ g \in [Seq(A) -> Seq(B)] /\ g[<<>>] = <<>>
    /\ \A s, t \in Seq(A) : g[s \o t] = g[s] \o g[t]

LEMMA FlattenThrough ==
    ASSUME NEW A, NEW B, NEW g, Through(g, A, B), NEW ss \in Seq(Seq(A))
    PROVE  g[FlattenSeq(ss)] = FlatMap(ss, g)
<1> DEFINE Q == Seq(A)
           T == {s \in Seq(Q) : g[FlattenSeq(s)] = FlatMap(s, g)}
<1>0. g \in [Q -> Seq(B)]
  BY DEF Through
<1>1. <<>> \in T
  BY EmptySeq, FlattenNone, FlatMapNone DEF Through
<1>2. ASSUME NEW s \in T, NEW e \in Q PROVE Append(s, e) \in T
  <2>1. s \in Seq(Q) /\ Append(s, e) \in Seq(Q)
    BY AppendProperties
  <2>2. FlattenSeq(Append(s, e)) = FlattenSeq(s) \o e /\ FlattenSeq(s) \in Q
    BY <2>1, FlattenAppend, FlattenType
  <2>3. g[FlattenSeq(s) \o e] = g[FlattenSeq(s)] \o g[e]
    BY <2>2 DEF Through
  <2>4. FlatMap(Append(s, e), g) = FlatMap(s, g) \o g[e]
    <3> HIDE DEF Q
    <3> QED BY <1>0, <2>1, FlatMapAppend
  <2> QED BY <2>1, <2>2, <2>3, <2>4
<1>3. T \in SUBSET Seq(Q)
  OBVIOUS
<1>4. ss \in T
  <2>1. ss \in Seq(Q)
    OBVIOUS
  <2> HIDE DEF T, Q
  <2> QED BY <1>1, <1>2, <1>3, <2>1, AllSequences
<1> QED BY <1>4

Composes(h, g, f, A) == \A a \in A : h[a] = g[f[a]]

LEMMA MappedTwice ==
    ASSUME NEW A, NEW f, NEW g, NEW h, Composes(h, g, f, A), NEW s \in Seq(A)
    PROVE  Mapped(Mapped(s, f), g) = Mapped(s, h)
<1> DEFINE m == Mapped(s, f)
<1>1. DOMAIN m = DOMAIN s /\ \A i \in DOMAIN s : m[i] = f[s[i]] /\ s[i] \in A
  BY DEF Mapped
<1>2. \A i \in DOMAIN s : g[m[i]] = h[s[i]]
  BY <1>1 DEF Composes
<1> HIDE DEF m
<1>3. Mapped(m, g) = Mapped(s, h)
  BY <1>1, <1>2 DEF Mapped
<1> QED BY <1>3 DEF m

\* A part of a sequence joined on its right.
LEMMA MappedConcat ==
    ASSUME NEW A, NEW B, NEW f \in [A -> B], NEW s \in Seq(A), NEW t \in Seq(A)
    PROVE  Mapped(s \o t, f) = Mapped(s, f) \o Mapped(t, f)
<1> DEFINE x == Mapped(s \o t, f)
           u == Mapped(s, f)
           v == Mapped(t, f)
           y == u \o v
<1>1. s \o t \in Seq(A) /\ Len(s \o t) = Len(s) + Len(t) /\ Len(s) \in Nat /\ Len(t) \in Nat
  BY ConcatProperties
<1>2. x \in Seq(B) /\ Maps(x, s \o t, f)
  BY <1>1, MappedFacts
<1>3. u \in Seq(B) /\ Maps(u, s, f) /\ v \in Seq(B) /\ Maps(v, t, f)
  BY MappedFacts
<1> HIDE DEF x, u, v
<1>4. y \in Seq(B) /\ Len(y) = Len(s) + Len(t)
  <2>1. y \in Seq(B) /\ Len(y) = Len(u) + Len(v)
    BY <1>3, ConcatProperties
  <2> QED BY <1>3, <2>1 DEF Maps
<1>5. \A i \in 1 .. Len(s) + Len(t) : x[i] = y[i]
  <2> TAKE i \in 1 .. Len(s) + Len(t)
  <2>1. x[i] = f[(s \o t)[i]]
    BY <1>1, <1>2 DEF Maps
  <2>2. CASE i <= Len(s)
    <3>1. i \in 1 .. Len(s) /\ i \in 1 .. Len(u)
      BY <1>1, <1>3, <2>2 DEF Maps
    <3>2. (s \o t)[i] = s[i]
      BY <3>1
    <3>3. y[i] = u[i]
      BY <1>3, <3>1
    <3>4. u[i] = f[s[i]]
      BY <1>3, <3>1 DEF Maps
    <3> QED BY <2>1, <3>2, <3>3, <3>4
  <2>3. CASE ~(i <= Len(s))
    <3> DEFINE k == i - Len(s)
    <3>1. k \in 1 .. Len(t) /\ i = Len(s) + k /\ Len(u) = Len(s) /\ Len(v) = Len(t)
      BY <1>1, <1>3, <2>3 DEF Maps
    <3>2. (s \o t)[i] = t[k]
      BY <1>1, <2>3
    <3>3. y[i] = v[k]
      BY <1>1, <1>3, <2>3, <3>1
    <3>4. v[k] = f[t[k]]
      BY <1>3, <3>1 DEF Maps
    <3> QED BY <2>1, <3>2, <3>3, <3>4
  <2> QED BY <2>2, <2>3
<1> HIDE DEF y
<1>6. x = y
  <2>1. Len(x) = Len(s) + Len(t)
    BY <1>1, <1>2 DEF Maps
  <2> QED BY <1>2, <1>4, <1>5, <2>1, SeqEqual
<1> QED BY <1>6 DEF x, u, v, y

\* Nothing comes of empty sequences alone.
LEMMA FlattenEmpty ==
    ASSUME NEW S, NEW ss \in Seq(Seq(S)), FlattenSeq(ss) = <<>>
    PROVE  \A i \in 1 .. Len(ss) : ss[i] = <<>>
<1> DEFINE Q == Seq(S)
           T == {s \in Seq(Q) : FlattenSeq(s) = <<>> => \A i \in 1 .. Len(s) : s[i] = <<>>}
<1>1. <<>> \in T
  BY EmptySeq
<1>2. ASSUME NEW s \in T, NEW e \in Q PROVE Append(s, e) \in T
  <2>1. s \in Seq(Q) /\ Append(s, e) \in Seq(Q)
    BY AppendProperties
  <2> SUFFICES ASSUME FlattenSeq(Append(s, e)) = <<>>
               PROVE  \A i \in 1 .. Len(Append(s, e)) : Append(s, e)[i] = <<>>
    BY <2>1
  <2>2. FlattenSeq(s) \in Seq(S) /\ FlattenSeq(s) \o e = <<>>
    BY <2>1, FlattenAppend, FlattenType
  <2>3. FlattenSeq(s) = <<>> /\ e = <<>>
    BY <2>2, ConcatEqualIffEmpty
  <2>4. \A i \in 1 .. Len(s) : s[i] = <<>>
    BY <2>3
  <2>5. /\ Len(Append(s, e)) = Len(s) + 1 /\ Append(s, e)[Len(s) + 1] = e /\ Len(s) \in Nat
        /\ \A i \in 1 .. Len(s) : Append(s, e)[i] = s[i]
    <3> HIDE DEF T, Q
    <3> QED BY <2>1, AppendProperties
  <2> HIDE DEF T
  <2> QED BY <2>3, <2>4, <2>5
<1>3. T \in SUBSET Seq(Q)
  OBVIOUS
<1>4. ss \in T
  <2>1. ss \in Seq(Q)
    OBVIOUS
  <2> HIDE DEF T, Q
  <2> QED BY <1>1, <1>2, <1>3, <2>1, AllSequences
<1> QED BY <1>4

-----------------------------------------------------------------------------
(* Parts of sequences: Kept.                                                 *)

\* The places of elements of V are kept.
Pick(S, V) == [e \in S |-> IF e \in V THEN <<e>> ELSE <<>>]

LEMMA PickType ==
    ASSUME NEW S, NEW V
    PROVE  Pick(S, V) \in [S -> Seq(S)] /\ Pick(S, V) \in [S -> Seq(S \cap V)]
<1>1. ASSUME NEW e \in S
      PROVE (IF e \in V THEN <<e>> ELSE <<>>) \in Seq(S) /\ (IF e \in V THEN <<e>> ELSE <<>>) \in Seq(S \cap V)
  <2>1. CASE e \in V
    <3>1. <<e>> \in Seq(S) /\ <<e>> \in Seq(S \cap V)
      BY <2>1
    <3> QED BY <2>1, <3>1
  <2>2. CASE e \notin V
    BY <2>2, EmptySeq
  <2> QED BY <2>1, <2>2
<1> QED BY <1>1 DEF Pick

LEMMA KeptIsPicked ==
    ASSUME NEW S, NEW s \in Seq(S), NEW V, NEW I,
           \A i \in 1 .. Len(s) : i \in I <=> s[i] \in V
    PROVE  Kept(s, I) = FlatMap(s, Pick(S, V))
<1>1. DOMAIN s = 1 .. Len(s) /\ \A i \in 1 .. Len(s) : s[i] \in S
  OBVIOUS
<1>2. ASSUME NEW i \in DOMAIN s
      PROVE  (IF i \in I THEN <<s[i]>> ELSE <<>>) = Pick(S, V)[s[i]]
  <2>1. s[i] \in S /\ (i \in I <=> s[i] \in V)
    BY <1>1
  <2> QED BY <2>1 DEF Pick
<1>3. [i \in DOMAIN s |-> IF i \in I THEN <<s[i]>> ELSE <<>>] = Mapped(s, Pick(S, V))
  BY <1>2 DEF Mapped
<1> QED BY <1>3 DEF Kept, FlatMap

LEMMA PickedType ==
    ASSUME NEW S, NEW V, NEW s \in Seq(S)
    PROVE  FlatMap(s, Pick(S, V)) \in Seq(S \cap V)
<1> DEFINE p == Pick(S, V)
           W == S \cap V
<1>1. p \in [S -> Seq(W)]
  BY PickType
<1> HIDE DEF p, W
<1>2. FlatMap(s, p) \in Seq(W)
  BY <1>1, FlatMapType
<1> QED BY <1>2 DEF p, W

LEMMA PickedAll ==
    ASSUME NEW S, NEW V, V \subseteq S, NEW s \in Seq(V)
    PROVE  FlatMap(s, Pick(S, V)) = s
<1> DEFINE p == Pick(S, V)
           T == {t \in Seq(V) : FlatMap(t, p) = t}
<1>0. p \in [S -> Seq(S)]
  BY PickType
<1>1. <<>> \in T
  BY EmptySeq, FlatMapNone
<1>2. ASSUME NEW t \in T, NEW e \in V PROVE Append(t, e) \in T
  <2>1. t \in Seq(V) /\ t \in Seq(S) /\ e \in S /\ Append(t, e) \in Seq(V)
    BY AppendProperties, SeqMonotonic
  <2>2. p[e] = <<e>>
    BY <2>1 DEF Pick
  <2>3. FlatMap(Append(t, e), p) = FlatMap(t, p) \o p[e]
    <3> HIDE DEF p, T
    <3> QED BY <1>0, <2>1, FlatMapAppend
  <2>4. Append(t, e) = t \o <<e>>
    BY <2>1, AppendIsConcat
  <2> QED BY <2>1, <2>2, <2>3, <2>4
<1>3. T \in SUBSET Seq(V)
  OBVIOUS
<1>4. s \in T
  <2> HIDE DEF T
  <2> QED BY <1>1, <1>2, <1>3, AllSequences
<1> QED BY <1>4

LEMMA PickedNone ==
    ASSUME NEW S, NEW V, NEW s \in Seq(S \ V)
    PROVE  FlatMap(s, Pick(S, V)) = <<>>
<1> DEFINE p == Pick(S, V)
           W == S \ V
           T == {t \in Seq(W) : FlatMap(t, p) = <<>>}
<1>0. p \in [S -> Seq(S)]
  BY PickType
<1>1. <<>> \in T
  BY EmptySeq, FlatMapNone
<1>2. ASSUME NEW t \in T, NEW e \in W PROVE Append(t, e) \in T
  <2>1. t \in Seq(W) /\ t \in Seq(S) /\ e \in S /\ Append(t, e) \in Seq(W)
    BY AppendProperties, SeqMonotonic
  <2>2. p[e] = <<>>
    BY <2>1 DEF Pick
  <2>3. FlatMap(Append(t, e), p) = FlatMap(t, p) \o p[e]
    <3>1. t \in Seq(S) /\ e \in S
      BY <2>1
    <3> HIDE DEF p, T, W
    <3> QED BY <1>0, <3>1, FlatMapAppend
  <2>4. <<>> \o <<>> = <<>>
    BY ConcatEmptySeq, EmptySeq
  <2> QED BY <2>1, <2>2, <2>3, <2>4
<1>3. T \in SUBSET Seq(W)
  OBVIOUS
<1>4. s \in T
  <2>1. s \in Seq(W)
    OBVIOUS
  <2> HIDE DEF T, W
  <2> QED BY <1>1, <1>2, <1>3, <2>1, AllSequences
<1> QED BY <1>4

\* What is kept comes from the places, and something does when there is a place.
LEMMA KeptFrom ==
    ASSUME NEW S, NEW s \in Seq(S), NEW I
    PROVE  /\ Kept(s, I) \in Seq({s[i] : i \in I \cap (1 .. Len(s))})
           /\ Kept(s, I) = <<>> => I \cap (1 .. Len(s)) = {}
<1> DEFINE W == {s[i] : i \in I \cap (1 .. Len(s))}
           ss == [i \in DOMAIN s |-> IF i \in I THEN <<s[i]>> ELSE <<>>]
<1>1. DOMAIN s = 1 .. Len(s) /\ Len(s) \in Nat
  OBVIOUS
<1>2. ASSUME NEW i \in 1 .. Len(s) PROVE ss[i] \in Seq(W) /\ (i \in I => ss[i] # <<>>)
  <2>1. CASE i \in I
    <3>1. s[i] \in W
      BY <2>1
    <3>2. <<s[i]>> \in Seq(W) /\ <<s[i]>> # <<>>
      <4> DEFINE e == s[i]
      <4> HIDE DEF e, W
      <4>1. <<e>> \in Seq(W) /\ <<e>> # <<>>
        BY <3>1 DEF e
      <4> QED BY <4>1 DEF e
    <3>3. ss[i] = <<s[i]>>
      BY <1>1, <2>1
    <3> QED BY <3>2, <3>3
  <2>2. CASE i \notin I
    BY <1>1, <2>2, EmptySeq
  <2> QED BY <2>1, <2>2
<1>3. ss \in Seq(Seq(W)) /\ Len(ss) = Len(s)
  <2>1. ss \in [1 .. Len(s) -> Seq(W)]
    <3>1. ss = [i \in 1 .. Len(s) |-> ss[i]]
      BY <1>1
    <3> HIDE DEF ss, W
    <3> QED BY <1>2, <3>1
  <2> HIDE DEF ss, W
  <2> QED BY <1>1, <2>1
<1>4. Kept(s, I) = FlattenSeq(ss)
  BY DEF Kept
<1> HIDE DEF ss, W
<1>5. Kept(s, I) \in Seq(W)
  BY <1>3, <1>4, FlattenType
<1>6. Kept(s, I) = <<>> => I \cap (1 .. Len(s)) = {}
  <2> SUFFICES ASSUME Kept(s, I) = <<>>, NEW i \in 1 .. Len(s), i \in I PROVE FALSE
    OBVIOUS
  <2>1. \A k \in 1 .. Len(ss) : ss[k] = <<>>
    BY <1>3, <1>4, FlattenEmpty
  <2> QED BY <1>2, <1>3, <2>1
<1> QED BY <1>5, <1>6 DEF W

-----------------------------------------------------------------------------
(* Each line once: Distinct.                                                 *)

Firsts(s) == {i \in 1 .. Len(s) : \A k \in 1 .. i - 1 : s[k] # s[i]}

LEMMA KeptAppend ==
    ASSUME NEW S, NEW s \in Seq(S), NEW e \in S, NEW I, NEW J,
           \A i \in 1 .. Len(s) : i \in I <=> i \in J
    PROVE  Kept(Append(s, e), I) =
               IF Len(s) + 1 \in I THEN Append(Kept(s, J), e) ELSE Kept(s, J)
<1> DEFINE t == Append(s, e)
           n == Len(s)
           x == IF n + 1 \in I THEN <<e>> ELSE <<>>
           ss == [i \in DOMAIN s |-> IF i \in J THEN <<s[i]>> ELSE <<>>]
           tt == [i \in DOMAIN t |-> IF i \in I THEN <<t[i]>> ELSE <<>>]
<1>1. /\ t \in Seq(S) /\ Len(t) = n + 1 /\ n \in Nat /\ t[n + 1] = e
      /\ \A i \in 1 .. n : t[i] = s[i]
  BY AppendProperties
<1>2. DOMAIN s = 1 .. n /\ \A i \in 1 .. n : s[i] \in S
  OBVIOUS
<1>3. DOMAIN t = 1 .. n + 1
  <2> HIDE DEF t, n
  <2> QED BY <1>1
<1>4. x \in Seq(S)
  <2>1. <<e>> \in Seq(S) /\ <<>> \in Seq(S)
    BY EmptySeq
  <2> QED BY <2>1
<1>5. ss \in Seq(Seq(S)) /\ Len(ss) = n
  <2>1. \A i \in 1 .. n : (IF i \in J THEN <<s[i]>> ELSE <<>>) \in Seq(S)
    <3> TAKE i \in 1 .. n
    <3>1. CASE i \in J
      <4> DEFINE a == s[i]
      <4>1. a \in S
        BY <1>2
      <4> HIDE DEF a
      <4>2. <<a>> \in Seq(S)
        BY <4>1
      <4> QED BY <3>1, <4>2 DEF a
    <3>2. CASE i \notin J
      BY <3>2, EmptySeq
    <3> QED BY <3>1, <3>2
  <2>2. ss = [i \in 1 .. n |-> IF i \in J THEN <<s[i]>> ELSE <<>>]
    BY <1>2
  <2>3. ss \in [1 .. n -> Seq(S)]
    BY <2>1, <2>2
  <2> HIDE DEF ss, n
  <2> QED BY <1>1, <2>3
<1>6. /\ \A i \in 1 .. n : tt[i] = ss[i]
      /\ tt[n + 1] = x /\ DOMAIN tt = 1 .. n + 1
  <2> HIDE DEF t
  <2> QED BY <1>1, <1>2, <1>3
<1>7. tt = Append(ss, x)
  <2>1. /\ Append(ss, x) \in Seq(Seq(S)) /\ Len(Append(ss, x)) = n + 1
        /\ Append(ss, x)[n + 1] = x /\ \A i \in 1 .. n : Append(ss, x)[i] = ss[i]
    <3> DEFINE Q == Seq(S)
    <3> HIDE DEF ss, x, n, Q
    <3>1. ss \in Seq(Q) /\ x \in Q
      BY <1>4, <1>5 DEF Q
    <3>2. /\ Append(ss, x) \in Seq(Q) /\ Len(Append(ss, x)) = n + 1
          /\ Append(ss, x)[n + 1] = x /\ \A i \in 1 .. n : Append(ss, x)[i] = ss[i]
      BY <1>5, <3>1, AppendProperties
    <3> QED BY <3>2 DEF Q
  <2>2. \A i \in 1 .. n + 1 : tt[i] = Append(ss, x)[i]
    <3> TAKE i \in 1 .. n + 1
    <3>1. i = n + 1 \/ i \in 1 .. n
      BY <1>1
    <3> HIDE DEF ss, tt, x, n
    <3> QED BY <1>6, <2>1, <3>1
  <2>3. tt = [i \in 1 .. n + 1 |-> tt[i]]
    BY <1>3
  <2>4. Append(ss, x) = [i \in 1 .. n + 1 |-> Append(ss, x)[i]]
    <3> DEFINE u == Append(ss, x)
    <3> HIDE DEF u, n
    <3> QED BY <2>1 DEF u
  <2> HIDE DEF tt, ss, x, n
  <2> QED BY <2>2, <2>3, <2>4, Zenon
<1>8. Kept(t, I) = FlattenSeq(tt) /\ Kept(s, J) = FlattenSeq(ss)
  BY DEF Kept
<1> HIDE DEF ss, tt
<1>9. FlattenSeq(tt) = FlattenSeq(ss) \o x /\ FlattenSeq(ss) \in Seq(S)
  <2> HIDE DEF x
  <2> QED BY <1>4, <1>5, <1>7, FlattenAppend, FlattenType
<1>10. CASE n + 1 \in I
  <2>1. x = <<e>>
    BY <1>10
  <2>2. Append(FlattenSeq(ss), e) = FlattenSeq(ss) \o <<e>>
    BY <1>9, AppendIsConcat
  <2> QED BY <1>8, <1>9, <1>10, <2>1, <2>2
<1>11. CASE n + 1 \notin I
  <2>1. x = <<>>
    BY <1>11
  <2>2. FlattenSeq(ss) \o <<>> = FlattenSeq(ss)
    BY <1>9, ConcatEmptySeq
  <2> QED BY <1>8, <1>9, <1>11, <2>1, <2>2
<1> QED BY <1>10, <1>11

LEMMA DistinctIs ==
    ASSUME NEW S, NEW s \in Seq(S)
    PROVE  Distinct(s) = Kept(s, Firsts(s))
<1>1. DOMAIN s = 1 .. Len(s)
  OBVIOUS
<1>2. {i \in DOMAIN s : \A k \in 1 .. i - 1 : s[k] # s[i]} = Firsts(s)
  BY <1>1 DEF Firsts
<1> QED BY <1>2 DEF Distinct

\* The lines that occur.
LinesIn(s) == {s[i] : i \in 1 .. Len(s)}

LEMMA DistinctType ==
    ASSUME NEW S, NEW s \in Seq(S)
    PROVE  Distinct(s) \in Seq(S)
<1>1. Distinct(s) = Kept(s, Firsts(s))
  BY DistinctIs
<1>2. Kept(s, Firsts(s)) \in Seq({s[i] : i \in Firsts(s) \cap (1 .. Len(s))})
  BY KeptFrom
<1>3. {s[i] : i \in Firsts(s) \cap (1 .. Len(s))} \subseteq S
  OBVIOUS
<1> QED BY <1>1, <1>2, <1>3, SeqMonotonic

LEMMA DistinctAppend ==
    ASSUME NEW S, NEW s \in Seq(S), NEW e \in S
    PROVE  Distinct(Append(s, e)) = IF e \in LinesIn(s) THEN Distinct(s) ELSE Append(Distinct(s), e)
<1> DEFINE t == Append(s, e)
           n == Len(s)
<1>1. /\ t \in Seq(S) /\ Len(t) = n + 1 /\ n \in Nat /\ t[n + 1] = e
      /\ \A i \in 1 .. n : t[i] = s[i]
  BY AppendProperties
<1>2. Distinct(t) = Kept(t, Firsts(t)) /\ Distinct(s) = Kept(s, Firsts(s))
  <2> HIDE DEF t
  <2> QED BY <1>1, DistinctIs
<1>3. \A i \in 1 .. n : i \in Firsts(t) <=> i \in Firsts(s)
  <2> TAKE i \in 1 .. n
  <2>1. i \in 1 .. n + 1 /\ \A k \in 1 .. i - 1 : k \in 1 .. n
    BY <1>1
  <2>2. \A k \in 1 .. i - 1 : t[k] = s[k]
    BY <1>1, <2>1
  <2>3. i \in Firsts(t) <=> \A k \in 1 .. i - 1 : t[k] # t[i]
    <3> HIDE DEF t, n
    <3> QED BY <1>1, <2>1 DEF Firsts
  <2>4. i \in Firsts(s) <=> \A k \in 1 .. i - 1 : s[k] # s[i]
    BY DEF Firsts
  <2> HIDE DEF t, n
  <2> QED BY <1>1, <2>2, <2>3, <2>4
<1>4. n + 1 \in Firsts(t) <=> e \notin LinesIn(s)
  <2>1. n + 1 \in Firsts(t) <=> \A k \in 1 .. (n + 1) - 1 : t[k] # t[n + 1]
    <3> HIDE DEF t, n
    <3> QED BY <1>1 DEF Firsts
  <2>2. (n + 1) - 1 = n
    BY <1>1
  <2>3. n + 1 \in Firsts(t) <=> \A k \in 1 .. n : s[k] # e
    <3> HIDE DEF t, n
    <3> QED BY <1>1, <2>1, <2>2
  <2> QED BY <2>3 DEF LinesIn
<1>5. Kept(t, Firsts(t)) = IF n + 1 \in Firsts(t) THEN Append(Kept(s, Firsts(s)), e)
                           ELSE Kept(s, Firsts(s))
  <2> DEFINE I == Firsts(t)
             J == Firsts(s)
  <2>1. \A i \in 1 .. Len(s) : i \in I <=> i \in J
    BY <1>3
  <2> HIDE DEF I, J
  <2>2. Kept(Append(s, e), I) = IF Len(s) + 1 \in I THEN Append(Kept(s, J), e) ELSE Kept(s, J)
    BY <2>1, KeptAppend
  <2> QED BY <2>2 DEF I, J
<1> HIDE DEF t, n
<1>6. Distinct(t) = IF e \in LinesIn(s) THEN Distinct(s) ELSE Append(Distinct(s), e)
  BY <1>2, <1>4, <1>5
<1> QED BY <1>6 DEF t

LEMMA LinesAppend ==
    ASSUME NEW S, NEW s \in Seq(S), NEW e \in S
    PROVE  LinesIn(Append(s, e)) = LinesIn(s) \union {e}
<1> DEFINE t == Append(s, e)
           n == Len(s)
<1>1. /\ t \in Seq(S) /\ Len(t) = n + 1 /\ n \in Nat /\ t[n + 1] = e
      /\ \A i \in 1 .. n : t[i] = s[i]
  BY AppendProperties
<1>2. LinesIn(t) \subseteq LinesIn(s) \union {e}
  <2> SUFFICES ASSUME NEW i \in 1 .. n + 1 PROVE t[i] \in LinesIn(s) \union {e}
    <3> HIDE DEF t
    <3> QED BY <1>1 DEF LinesIn
  <2>1. i = n + 1 \/ i \in 1 .. n
    BY <1>1
  <2> QED BY <1>1, <2>1 DEF LinesIn
<1>3. ASSUME NEW i \in 1 .. n PROVE s[i] \in LinesIn(t)
  <2>1. i \in 1 .. n + 1 /\ t[i] = s[i]
    BY <1>1
  <2> HIDE DEF t, n
  <2> QED BY <1>1, <2>1 DEF LinesIn
<1>4. e \in LinesIn(t)
  <2>1. n + 1 \in 1 .. n + 1
    BY <1>1
  <2> HIDE DEF t, n
  <2> QED BY <1>1, <2>1 DEF LinesIn
<1>5. LinesIn(s) \subseteq LinesIn(t)
  BY <1>3 DEF LinesIn
<1> HIDE DEF t, n
<1>6. LinesIn(t) = LinesIn(s) \union {e}
  BY <1>2, <1>4, <1>5
<1> QED BY <1>6 DEF t

LEMMA NoLines == LinesIn(<<>>) = {} /\ Distinct(<<>>) = <<>>
<1>1. LinesIn(<<>>) = {}
  BY DEF LinesIn
<1>2. [i \in DOMAIN <<>> |-> IF i \in Firsts(<<>>) THEN << <<>>[i] >> ELSE <<>>] = <<>>
  OBVIOUS
<1>3. Distinct(<<>>) = Kept(<<>>, Firsts(<<>>))
  <2>1. <<>> \in Seq({})
    BY EmptySeq
  <2> QED BY <2>1, DistinctIs
<1> QED BY <1>1, <1>2, <1>3, FlattenNone DEF Kept

LEMMA DistinctLines ==
    ASSUME NEW S, NEW s \in Seq(S)
    PROVE  LinesIn(Distinct(s)) = LinesIn(s) /\ Distinct(Distinct(s)) = Distinct(s)
<1> DEFINE T == {t \in Seq(S) : LinesIn(Distinct(t)) = LinesIn(t) /\ Distinct(Distinct(t)) = Distinct(t)}
<1>1. <<>> \in T
  BY EmptySeq, NoLines
<1>2. ASSUME NEW t \in T, NEW e \in S PROVE Append(t, e) \in T
  <2> DEFINE d == Distinct(t)
  <2>1. t \in Seq(S) /\ Append(t, e) \in Seq(S) /\ LinesIn(d) = LinesIn(t) /\ Distinct(d) = d /\ d \in Seq(S)
    BY AppendProperties, DistinctType
  <2>2. Distinct(Append(t, e)) = IF e \in LinesIn(t) THEN d ELSE Append(d, e)
    BY <2>1, DistinctAppend
  <2>3. LinesIn(Append(t, e)) = LinesIn(t) \union {e}
    BY <2>1, LinesAppend
  <2> HIDE DEF d, T
  <2>4. CASE e \in LinesIn(t)
    <3>1. LinesIn(Distinct(Append(t, e))) = LinesIn(Append(t, e))
      BY <2>1, <2>2, <2>3, <2>4
    <3>2. Distinct(Distinct(Append(t, e))) = Distinct(Append(t, e))
      BY <2>1, <2>2, <2>4
    <3> QED BY <2>1, <3>1, <3>2 DEF T
  <2>5. CASE e \notin LinesIn(t)
    <3>1. Distinct(Append(d, e)) = IF e \in LinesIn(d) THEN Distinct(d) ELSE Append(Distinct(d), e)
      BY <2>1, DistinctAppend
    <3>2. Distinct(Append(d, e)) = Append(d, e)
      BY <2>1, <2>5, <3>1
    <3>3. LinesIn(Append(d, e)) = LinesIn(d) \union {e}
      BY <2>1, LinesAppend
    <3>4. Distinct(Append(t, e)) = Append(d, e)
      BY <2>2, <2>5
    <3>5. LinesIn(Distinct(Append(t, e))) = LinesIn(Append(t, e))
      BY <2>1, <2>3, <3>3, <3>4
    <3>6. Distinct(Distinct(Append(t, e))) = Distinct(Append(t, e))
      BY <3>2, <3>4
    <3> QED BY <2>1, <3>5, <3>6 DEF T
  <2> QED BY <2>4, <2>5
<1>3. T \in SUBSET Seq(S)
  OBVIOUS
<1>4. s \in T
  <2> HIDE DEF T
  <2> QED BY <1>1, <1>2, <1>3, AllSequences
<1> QED BY <1>4

\* Lines that were met before may be left out early.
LEMMA DistinctEarly ==
    ASSUME NEW S, NEW s \in Seq(S), NEW u \in Seq(S)
    PROVE  Distinct(Distinct(s) \o u) = Distinct(s \o u)
<1> DEFINE d == Distinct(s)
           T == {t \in Seq(S) : /\ Distinct(d \o t) = Distinct(s \o t)
                                /\ LinesIn(d \o t) = LinesIn(s \o t)}
<1>0. d \in Seq(S) /\ LinesIn(d) = LinesIn(s) /\ Distinct(d) = d
  BY DistinctType, DistinctLines
<1>1. <<>> \in T
  <2>1. d \o <<>> = d /\ s \o <<>> = s
    <3> HIDE DEF d
    <3> QED BY <1>0, ConcatEmptySeq
  <2> QED BY <1>0, <2>1, EmptySeq
<1> HIDE DEF d
<1>2. ASSUME NEW t \in T, NEW e \in S PROVE Append(t, e) \in T
  <2> DEFINE a == d \o t
             b == s \o t
  <2>1. /\ t \in Seq(S) /\ Append(t, e) \in Seq(S) /\ a \in Seq(S) /\ b \in Seq(S)
        /\ Distinct(a) = Distinct(b) /\ LinesIn(a) = LinesIn(b)
    BY <1>0, AppendProperties, ConcatProperties
  <2>2. d \o Append(t, e) = Append(a, e) /\ s \o Append(t, e) = Append(b, e)
    <3> HIDE DEF T
    <3> QED BY <1>0, <2>1, AppendToConcat, SMTT(30)
  <2> HIDE DEF a, b
  <2>3. /\ Distinct(Append(a, e)) = IF e \in LinesIn(a) THEN Distinct(a) ELSE Append(Distinct(a), e)
        /\ Distinct(Append(b, e)) = IF e \in LinesIn(b) THEN Distinct(b) ELSE Append(Distinct(b), e)
    BY <2>1, DistinctAppend
  <2>4. LinesIn(Append(a, e)) = LinesIn(a) \union {e} /\ LinesIn(Append(b, e)) = LinesIn(b) \union {e}
    BY <2>1, LinesAppend
  <2>5. Distinct(Append(a, e)) = Distinct(Append(b, e)) /\ LinesIn(Append(a, e)) = LinesIn(Append(b, e))
    BY <2>1, <2>3, <2>4
  <2> QED BY <2>1, <2>2, <2>5
<1>3. T \in SUBSET Seq(S)
  OBVIOUS
<1>4. u \in T
  <2> HIDE DEF T
  <2> QED BY <1>1, <1>2, <1>3, AllSequences
<1> QED BY <1>4 DEF d

-----------------------------------------------------------------------------
(* Places in a strict order of a finite set.                                 *)

\* The relation R is a strict total order of S.
StrictOrder(R, S) ==
    /\ \A i \in S : <<i, i>> \notin R
    /\ \A i, j \in S : i # j => <<i, j>> \in R \/ <<j, i>> \in R
    /\ \A i, j, k \in S : <<i, j>> \in R /\ <<j, k>> \in R => <<i, k>> \in R

Preceding(R, S, i) == {j \in S : <<j, i>> \in R}

LEMMA PrecedingGrows ==
    ASSUME NEW S, IsFiniteSet(S), NEW R, StrictOrder(R, S),
           NEW i \in S, NEW j \in S, <<i, j>> \in R
    PROVE  Cardinality(Preceding(R, S, i)) < Cardinality(Preceding(R, S, j))
<1> DEFINE A == Preceding(R, S, i)
           B == Preceding(R, S, j)
<1>1. A \subseteq B /\ i \in B /\ i \notin A /\ B \subseteq S
  BY DEF Preceding, StrictOrder
<1> HIDE DEF A, B
<1>2. IsFiniteSet(B) /\ A \in SUBSET B
  BY <1>1, FS_Subset
<1>3. IsFiniteSet(A) /\ Cardinality(A) <= Cardinality(B) /\ (Cardinality(B) = Cardinality(A) => B = A)
  BY <1>2, FS_Subset
<1>4. Cardinality(A) \in Nat /\ Cardinality(B) \in Nat
  BY <1>2, <1>3, FS_CardinalityType
<1>5. Cardinality(A) < Cardinality(B)
  BY <1>1, <1>3, <1>4
<1> QED BY <1>5 DEF A, B

\* Each number below that of the elements counts what is below exactly one of them.
Ranked(R, S) ==
    /\ Cardinality(S) \in Nat
    /\ \A i \in S : Cardinality(Preceding(R, S, i)) \in 0 .. Cardinality(S) - 1
    /\ \A i, j \in S : Cardinality(Preceding(R, S, i)) = Cardinality(Preceding(R, S, j)) => i = j
    /\ \A n \in 1 .. Cardinality(S) : \E i \in S : Cardinality(Preceding(R, S, i)) = n - 1

LEMMA PlacesFacts ==
    ASSUME NEW S, IsFiniteSet(S), NEW R, StrictOrder(R, S)
    PROVE  Ranked(R, S)
<1> DEFINE C == Cardinality(S)
           f == [i \in S |-> Cardinality(Preceding(R, S, i)) + 1]
           T == 1 .. C
<1>1. C \in Nat /\ IsFiniteSet(T) /\ Cardinality(T) = C
  <2>1. C \in Nat
    BY FS_CardinalityType
  <2> HIDE DEF C
  <2>2. 1 \in Int /\ C \in Int
    BY <2>1
  <2>3. IsFiniteSet(T) /\ Cardinality(T) = IF 1 > C THEN 0 ELSE C - 1 + 1
    BY <2>2, FS_Interval
  <2> QED BY <2>1, <2>3
<1>2. ASSUME NEW i \in S PROVE Cardinality(Preceding(R, S, i)) \in 0 .. C - 1
  <2> DEFINE B == Preceding(R, S, i)
  <2>1. B \in SUBSET S /\ i \notin B
    BY DEF Preceding, StrictOrder
  <2> HIDE DEF B
  <2>2. IsFiniteSet(B) /\ Cardinality(B) <= C /\ Cardinality(B) # C
    BY <2>1, FS_Subset
  <2>3. Cardinality(B) \in Nat
    BY <2>2, FS_CardinalityType
  <2>4. Cardinality(B) \in 0 .. C - 1
    BY <1>1, <2>2, <2>3
  <2> QED BY <2>4 DEF B
<1>3. ASSUME NEW i \in S, NEW j \in S,
             Cardinality(Preceding(R, S, i)) = Cardinality(Preceding(R, S, j))
      PROVE  i = j
  <2> SUFFICES ASSUME i # j PROVE FALSE
    OBVIOUS
  <2>1. <<i, j>> \in R \/ <<j, i>> \in R
    BY DEF StrictOrder
  <2>2. \/ Cardinality(Preceding(R, S, i)) < Cardinality(Preceding(R, S, j))
        \/ Cardinality(Preceding(R, S, j)) < Cardinality(Preceding(R, S, i))
    BY <2>1, PrecedingGrows
  <2> QED BY <1>2, <1>3, <2>2
<1>4. f \in Injection(S, T)
  <2>1. f \in [S -> T]
    BY <1>1, <1>2
  <2>2. \A i, j \in S : f[i] = f[j] => i = j
    BY <1>2, <1>3
  <2> HIDE DEF f, T
  <2> QED BY <2>1, <2>2 DEF Injection, IsInjective
<1>5. f \in Surjection(S, T)
  <2> HIDE DEF f, T
  <2> QED BY <1>1, <1>4, FS_Injection
<1>6. \A n \in T : \E i \in S : f[i] = n
  <2> HIDE DEF f, T
  <2> QED BY <1>5 DEF Surjection
<1>7. ASSUME NEW n \in 1 .. C PROVE \E i \in S : Cardinality(Preceding(R, S, i)) = n - 1
  <2>1. PICK i \in S : f[i] = n
    BY <1>6
  <2>2. Cardinality(Preceding(R, S, i)) + 1 = n /\ Cardinality(Preceding(R, S, i)) \in Nat
    BY <1>2, <2>1
  <2> QED BY <2>2
<1> QED BY <1>1, <1>2, <1>3, <1>7 DEF Ranked

\* The places of body in their order by keys.
InOrderBy(p, n, keys) ==
    /\ p \in [1 .. n -> 1 .. n] /\ \A k \in 1 .. n : \E i \in 1 .. n : p[i] = k
    /\ \A i \in 2 .. n : keys[p[i - 1]] <= keys[p[i]]

Sorts(s, body, keys) ==
    \E p : InOrderBy(p, Len(body), keys) /\ s = [i \in 1 .. Len(body) |-> body[p[i]]]

LEMMA SortedByIs ==
    ASSUME NEW S, NEW body \in Seq(S), NEW keys, \A i \in 1 .. Len(body) : keys[i] \in Nat
    PROVE  Sorts(SortedBy(body, keys), body, keys)
<1> DEFINE n == Len(body)
           D == 1 .. n
           before(k) == {i \in D : keys[i] < keys[k] \/ (keys[i] = keys[k] /\ i < k)}
           R == {q \in D \X D : keys[q[1]] < keys[q[2]] \/ (keys[q[1]] = keys[q[2]] /\ q[1] < q[2])}
           p == [i \in D |-> CHOOSE k \in D : Cardinality(before(k)) = i - 1]
<1>1. n \in Nat /\ DOMAIN body = D
  OBVIOUS
<1>2. SortedBy(body, keys) = [i \in D |-> body[p[i]]]
  <2>1. SortedBy(body, keys) = [i \in D |-> body[CHOOSE k \in D : Cardinality(before(k)) = i - 1]]
    BY <1>1 DEF SortedBy
  <2>2. \A i \in D : body[CHOOSE k \in D : Cardinality(before(k)) = i - 1] = body[p[i]]
    OBVIOUS
  <2> HIDE DEF before, D, p
  <2> QED BY <2>1, <2>2, Zenon
<1>3. IsFiniteSet(D) /\ Cardinality(D) = n
  <2>1. 1 \in Int /\ n \in Int
    BY <1>1
  <2> HIDE DEF n
  <2>2. IsFiniteSet(D) /\ Cardinality(D) = IF 1 > n THEN 0 ELSE n - 1 + 1
    BY <2>1, FS_Interval
  <2> QED BY <1>1, <2>2
<1>4. StrictOrder(R, D)
  <2>1. \A i, k \in D : <<i, k>> \in R <=> keys[i] < keys[k] \/ (keys[i] = keys[k] /\ i < k)
    OBVIOUS
  <2>2. \A i \in D : keys[i] \in Nat /\ i \in Nat
    BY <1>1
  <2> HIDE DEF R, D
  <2>3. \A i \in D : <<i, i>> \notin R
    BY <2>1, <2>2
  <2>4. \A i, j \in D : i # j => <<i, j>> \in R \/ <<j, i>> \in R
    BY <2>1, <2>2
  <2>5. \A i, j, k \in D : <<i, j>> \in R /\ <<j, k>> \in R => <<i, k>> \in R
    BY <2>1, <2>2
  <2> QED BY <2>3, <2>4, <2>5 DEF StrictOrder
<1>5. \A k \in D : before(k) = Preceding(R, D, k)
  BY DEF Preceding
<1>6. \A i, k \in D : <<i, k>> \in R \/ keys[k] <= keys[i]
  OBVIOUS
<1> HIDE DEF R, before
<1>7. Ranked(R, D)
  <2> HIDE DEF D
  <2> QED BY <1>3, <1>4, PlacesFacts
<1>8. /\ \A i \in D : Cardinality(before(i)) \in 0 .. n - 1
      /\ \A i, k \in D : Cardinality(before(i)) = Cardinality(before(k)) => i = k
      /\ \A i \in D : \E k \in D : Cardinality(before(k)) = i - 1
  <2>1. /\ \A i \in D : Cardinality(Preceding(R, D, i)) \in 0 .. n - 1
        /\ \A i, k \in D : Cardinality(Preceding(R, D, i)) = Cardinality(Preceding(R, D, k)) => i = k
        /\ \A i \in 1 .. n : \E k \in D : Cardinality(Preceding(R, D, k)) = i - 1
    <3> HIDE DEF D
    <3> QED BY <1>3, <1>7 DEF Ranked
  <2> QED BY <1>5, <2>1
<1>9. \A i \in D : p[i] \in D /\ Cardinality(before(p[i])) = i - 1
  BY <1>8
<1>10. p \in [D -> D]
  BY <1>9
<1> HIDE DEF p
<1>11. \A k \in D : \E i \in D : p[i] = k
  <2> TAKE k \in D
  <2>1. Cardinality(before(k)) + 1 \in D /\ (Cardinality(before(k)) + 1) - 1 = Cardinality(before(k))
    <3> DEFINE c == Cardinality(before(k))
    <3>1. c \in 0 .. n - 1
      BY <1>8
    <3>3. n \in Nat
      BY <1>1
    <3> HIDE DEF c, n
    <3>2. c + 1 \in 1 .. n /\ (c + 1) - 1 = c
      BY <3>1, <3>3
    <3> QED BY <3>2 DEF c
  <2>2. p[Cardinality(before(k)) + 1] = k
    <3> DEFINE j == Cardinality(before(k)) + 1
    <3>1. p[j] \in D /\ Cardinality(before(p[j])) = Cardinality(before(k))
      BY <1>9, <2>1
    <3> HIDE DEF j, D
    <3>2. p[j] = k
      BY <1>8, <3>1
    <3> QED BY <3>2 DEF j
  <2> QED BY <2>1, <2>2
<1>12. \A i \in 2 .. n : keys[p[i - 1]] <= keys[p[i]]
  <2> TAKE i \in 2 .. n
  <2>1. i \in D /\ i - 1 \in D /\ i - 1 \in Nat /\ i \in Nat
    BY <1>1
  <2> DEFINE a == p[i - 1]
             b == p[i]
  <2>2. a \in D /\ b \in D /\ Cardinality(before(a)) = (i - 1) - 1 /\ Cardinality(before(b)) = i - 1
    BY <1>9, <2>1
  <2> HIDE DEF a, b
  <2>3. <<b, a>> \notin R
    <3> SUFFICES ASSUME <<b, a>> \in R PROVE FALSE
      OBVIOUS
    <3>1. Cardinality(Preceding(R, D, b)) < Cardinality(Preceding(R, D, a))
      <4> HIDE DEF D
      <4> QED BY <1>3, <1>4, <2>2, PrecedingGrows
    <3>2. i - 1 < (i - 1) - 1
      BY <1>5, <2>2, <3>1
    <3> QED BY <2>1, <3>2
  <2>4. keys[a] <= keys[b]
    BY <1>6, <2>2, <2>3
  <2> QED BY <2>4 DEF a, b
<1>13. InOrderBy(p, n, keys)
  BY <1>10, <1>11, <1>12 DEF InOrderBy
<1> QED BY <1>2, <1>13 DEF Sorts
LEMMA FrontLast ==
    ASSUME NEW S, NEW s \in Seq(S), s # <<>>
    PROVE  Front(s) \in Seq(S) /\ Last(s) \in S /\ s = Append(Front(s), Last(s))
<1>1. PICK f \in Seq(S) : \E e \in S : s = Append(f, e)
  BY SequenceEmptyOrAppend
<1>2. PICK e \in S : s = Append(f, e)
  BY <1>1
<1> DEFINE n == Len(f)
<1>3. Len(s) = n + 1 /\ n \in Nat /\ s[n + 1] = e /\ \A i \in 1 .. n : s[i] = f[i]
  BY <1>2, AppendProperties
<1>4. Last(s) = e
  BY <1>3 DEF Last
<1>5. Front(s) = SubSeq(s, 1, n)
  BY <1>3 DEF Front
<1>6. \A i \in 1 .. n : s[i] \in S
  BY <1>3
<1>7. 1 \in Int /\ n \in Int /\ n - 1 + 1 = n /\ (1 <= n \/ n = 0)
  BY <1>3
<1> HIDE DEF n
<1>8. /\ SubSeq(s, 1, n) \in Seq(S) /\ Len(SubSeq(s, 1, n)) = (IF 1 <= n THEN n - 1 + 1 ELSE 0)
      /\ \A i \in 1 .. n - 1 + 1 : SubSeq(s, 1, n)[i] = s[1 + i - 1]
  BY <1>6, <1>7, SubSeqProperties
<1> DEFINE x == SubSeq(s, 1, n)
<1>9. x \in Seq(S) /\ Len(x) = n /\ \A i \in 1 .. n : x[i] = s[1 + i - 1] /\ 1 + i - 1 = i
  <2>1. \A i \in 1 .. n : 1 + i - 1 = i
    BY <1>7
  <2> QED BY <1>7, <1>8, <2>1
<1> HIDE DEF x
<1>10. x = f
  <2>1. \A i \in 1 .. n : x[i] = f[i]
    BY <1>3, <1>9
  <2> QED BY <1>9, <2>1, SeqEqual DEF n
<1> QED BY <1>2, <1>4, <1>5, <1>10 DEF x

-----------------------------------------------------------------------------
(* The tree: whose rows a user gets.                                         *)

\* Parents have smaller numbers than their sub-units; above the root there is nobody.
TreeInv ==
    /\ Len(parent) \in Nat /\ Units = 1 .. Len(parent) /\ 1 \in Units
    /\ key \in Seq(Nat) /\ Len(key) = Len(parent)
    /\ \A u \in Units : parent[u] = Nobody \/ parent[u] \in 1 .. u - 1

\* What is above a unit, if f is right about its parent.
AboveOf(f, u) == IF parent[u] = Nobody THEN {} ELSE {parent[u]} \union f[parent[u]]

\* f is right about the units below n.
AboveTo(f, n) == \A u \in Units : u < n => f[u] = AboveOf(f, u)

\* A function that is right about all units, by the least number for which there is none.
LEMMA AboveExists ==
    ASSUME TreeInv, NEW n \in Nat
    PROVE  \E f : DOMAIN f = Units /\ AboveTo(f, n)
<1> DEFINE Bad == {m \in Nat : ~\E f : DOMAIN f = Units /\ AboveTo(f, m)}
<1>1. SUFFICES ASSUME Bad # {} PROVE FALSE
  OBVIOUS
<1>2. PICK b \in Bad : \A m \in Bad : b <= m
  <2>1. Bad \in SUBSET Nat
    OBVIOUS
  <2> HIDE DEF Bad
  <2> QED BY <1>1, <2>1, LeastOne
<1>3. b \in Nat /\ ~\E f : DOMAIN f = Units /\ AboveTo(f, b)
  OBVIOUS
<1>4. \A u \in Units : u \in Nat \ {0} /\ (parent[u] # Nobody => parent[u] \in Units /\ parent[u] < u)
  BY DEF TreeInv
<1>5. CASE b = 0
  <2> DEFINE f == [u \in Units |-> {}]
  <2>1. DOMAIN f = Units
    OBVIOUS
  <2> HIDE DEF f
  <2>2. AboveTo(f, b)
    BY <1>4, <1>5 DEF AboveTo
  <2> QED BY <1>3, <2>1, <2>2
<1>6. CASE b # 0
  <2>1. b - 1 \in Nat /\ b - 1 < b
    BY <1>3, <1>6
  <2>2. b - 1 \notin Bad
    BY <1>2, <1>3, <2>1
  <2>3. PICK f : DOMAIN f = Units /\ AboveTo(f, b - 1)
    BY <2>1, <2>2
  <2> HIDE DEF Bad
  <2> DEFINE g == [u \in Units |-> IF u = b - 1 THEN AboveOf(f, u) ELSE f[u]]
  <2>4. \A u \in Units : u # b - 1 => g[u] = f[u]
    OBVIOUS
  <2>5. \A u \in Units : u = b - 1 => g[u] = AboveOf(f, u)
    OBVIOUS
  <2>6. DOMAIN g = Units
    OBVIOUS
  <2> HIDE DEF g
  <2>7. ASSUME NEW u \in Units, u < b PROVE g[u] = AboveOf(g, u)
    <3>1. parent[u] # Nobody => parent[u] \in Units /\ parent[u] # b - 1
      BY <1>3, <1>4, <2>7
    <3>2. AboveOf(g, u) = AboveOf(f, u)
      BY <2>4, <3>1 DEF AboveOf
    <3>3. CASE u = b - 1
      BY <2>5, <3>2, <3>3
    <3>4. CASE u # b - 1
      <4>1. u < b - 1
        BY <1>3, <1>4, <2>7, <3>4
      <4> QED BY <2>3, <2>4, <3>2, <3>4, <4>1 DEF AboveTo
    <3> QED BY <3>3, <3>4
  <2>8. AboveTo(g, b)
    BY <2>7 DEF AboveTo
  <2> QED BY <1>3, <2>6, <2>8
<1> QED BY <1>5, <1>6

\* The ancestors of a unit are its parent and the parent's ancestors; the highest has none.
LEMMA AncestorsAre ==
    ASSUME TreeInv, NEW u \in Units
    PROVE  /\ parent[u] # Nobody => /\ parent[u] \in Units
                                   /\ AncestorIds(u) = {parent[u]} \union AncestorIds(parent[u])
           /\ parent[u] = Nobody => AncestorIds(u) = {}
<1> DEFINE Body(f) ==
              [v \in Units |-> IF parent[v] = Nobody THEN {} ELSE {parent[v]} \union f[parent[v]]]
           of == CHOOSE f : f = Body(f)
<1>1. \A v : AncestorIds(v) = of[v]
  BY DEF AncestorIds
<1>2. \A f : f = Body(f) => \A v \in Units : f[v] = AboveOf(f, v)
  BY DEF AboveOf
<1>3. \E f : f = Body(f)
  <2>1. Len(parent) + 1 \in Nat /\ \A v \in Units : v < Len(parent) + 1
    BY DEF TreeInv
  <2>2. PICK f : DOMAIN f = Units /\ AboveTo(f, Len(parent) + 1)
    BY <2>1, AboveExists
  <2>3. \A v \in Units : f[v] = AboveOf(f, v)
    BY <2>1, <2>2 DEF AboveTo
  <2> DEFINE g == [v \in Units |-> f[v]]
  <2>4. \A v \in Units : parent[v] # Nobody => parent[v] \in Units
    BY DEF TreeInv
  <2>5. \A v \in Units : AboveOf(f, v) = AboveOf(g, v)
    BY <2>4 DEF AboveOf
  <2>6. Body(g) = [v \in Units |-> AboveOf(g, v)]
    BY DEF AboveOf
  <2>7. g = [v \in Units |-> AboveOf(g, v)]
    BY <2>3, <2>5
  <2> QED BY <2>6, <2>7
<1> HIDE DEF Body
<1>4. of = Body(of)
  BY <1>3
<1> HIDE DEF of
<1>5. of[u] = IF parent[u] = Nobody THEN {} ELSE {parent[u]} \union of[parent[u]]
  BY <1>2, <1>4 DEF AboveOf
<1>6. parent[u] # Nobody => parent[u] \in Units
  BY DEF TreeInv
<1>7. AncestorIds(u) = of[u] /\ AncestorIds(parent[u]) = of[parent[u]]
  BY <1>1
<1> QED BY <1>5, <1>6, <1>7

\* What the tree draws is the user's unit and lies below it.
LEMMA DrawnIsBelow ==
    ASSUME TreeInv, NEW user \in Units, NEW target \in Units, target \in GraphOrganizations(user)
    PROVE  target \in DescendantIds(user)
<1>1. user # Nobody
  BY DEF TreeInv, Nobody
<1> DEFINE drawn(unit) ==
               {u \in Children(unit) : Cardinality({v \in Children(unit) : Before(v, u)}) < ChildLimit}
           graph == {user} \union drawn(user) \union UNION {drawn(u) : u \in drawn(user)}
<1>2. GraphOrganizations(user) = graph
  BY <1>1 DEF GraphOrganizations
<1>3. \A unit : drawn(unit) \subseteq Children(unit)
  OBVIOUS
<1> HIDE DEF drawn
<1>4. \/ target = user \/ target \in Children(user)
      \/ \E u \in Children(user) : target \in Children(u)
  BY <1>2, <1>3
<1>5. ASSUME NEW unit \in Units, NEW u \in Children(unit)
      PROVE  u \in Units /\ unit \in AncestorIds(u) /\ AncestorIds(unit) \subseteq AncestorIds(u)
  <2>1. u \in Units /\ parent[u] = unit /\ unit # Nobody
    BY DEF Children, TreeInv, Nobody
  <2> QED BY <2>1, AncestorsAre
<1>6. CASE target = user
  BY <1>6 DEF DescendantIds
<1>7. CASE target \in Children(user)
  BY <1>5, <1>7 DEF DescendantIds
<1>8. ASSUME NEW u \in Children(user), target \in Children(u) PROVE target \in DescendantIds(user)
  <2>1. u \in Units /\ user \in AncestorIds(u)
    BY <1>5
  <2>2. AncestorIds(u) \subseteq AncestorIds(target)
    BY <1>5, <1>8, <2>1
  <2> QED BY <2>1, <2>2 DEF DescendantIds
<1> QED BY <1>4, <1>6, <1>7, <1>8

LEMMA TreeHangsTogether == TreeSpec => []TreeInv
<1>1. TreeInit => TreeInv
  <2> SUFFICES ASSUME TreeInit PROVE TreeInv
    OBVIOUS
  <2>1. PICK k \in Nat : key = <<k>>
    BY KeysAreNumbers DEF TreeInit
  <2>2. key \in Seq(Nat) /\ Len(key) = 1
    BY <2>1
  <2>3. Len(parent) = 1 /\ DOMAIN parent = 1 .. 1 /\ parent[1] = Nobody
    BY DEF TreeInit
  <2> QED BY <2>2, <2>3 DEF TreeInv, Units
<1>2. TreeInv /\ [TreeStep]_treeVars => TreeInv'
  <2> SUFFICES ASSUME TreeInv, [TreeStep]_treeVars PROVE TreeInv'
    OBVIOUS
  <2>1. ASSUME NEW p, NEW k \in Keys, AddUnit(p, k) PROVE TreeInv'
    <3> DEFINE n == Len(parent)
    <3>1. /\ n \in Nat /\ DOMAIN parent = 1 .. n /\ p \in 1 .. n
          /\ parent' = Append(parent, p)
      BY <2>1 DEF AddUnit, TreeInv, Units
    <3>2. /\ Len(parent') = n + 1 /\ DOMAIN parent' = 1 .. n + 1
          /\ \A u \in 1 .. n : parent'[u] = parent[u]
          /\ parent'[n + 1] = p
      BY <3>1
    <3>4. key' \in Seq(Nat) /\ Len(key') = n + 1
      <4>1. key \in Seq(Nat) /\ Len(key) = n /\ k \in Nat /\ key' = Append(key, k)
        BY <2>1, KeysAreNumbers DEF AddUnit, TreeInv
      <4> HIDE DEF n
      <4> QED BY <4>1, AppendProperties
    <3> HIDE DEF n
    <3>3. \A u \in 1 .. n + 1 : parent'[u] = Nobody \/ parent'[u] \in 1 .. u - 1
      <4> SUFFICES ASSUME NEW u \in 1 .. n + 1
                   PROVE  parent'[u] = Nobody \/ parent'[u] \in 1 .. u - 1
        OBVIOUS
      <4>1. CASE u = n + 1
        BY <3>1, <3>2, <4>1
      <4>2. CASE u \in 1 .. n
        BY <3>1, <3>2, <4>2 DEF TreeInv, Units
      <4> QED BY <3>1, <4>1, <4>2
    <3> QED BY <3>1, <3>2, <3>3, <3>4 DEF TreeInv, Units
  <2>2. CASE UNCHANGED treeVars
    BY <2>2 DEF treeVars, TreeInv, Units
  <2> QED BY <2>1, <2>2 DEF TreeStep
<1> QED BY <1>1, <1>2, PTL DEF TreeSpec

\* In a tree of any size, a unit's page, its documents, its tab in the reports and its rows in
\* the synchronisation are open to the same users, and what the tree draws, the user may open.
THEOREM AccessAlwaysAgrees == TreeSpec => []AccessAgrees
<1>1. TreeInv => AccessAgrees
  <2> SUFFICES ASSUME TreeInv, NEW user \in Units \union {Nobody}, NEW target \in Units
               PROVE  /\ ProfileAccess(user, target) # "none" <=> DocumentViewPolicy(user, target)
                      /\ DocumentViewPolicy(user, target) <=> target \in TreeVisibleIds(user)
                      /\ target \in GraphOrganizations(user) => ProfileAccess(user, target) = "full"
    BY DEF AccessAgrees
  <2>1. \A u \in Units : u \in DescendantIds(u)
    BY DEF DescendantIds
  <2>2. ProfileAccess(user, target) # "none" <=> DocumentViewPolicy(user, target)
    BY <2>1 DEF ProfileAccess, DocumentViewPolicy
  <2>3. DocumentViewPolicy(user, target) <=> target \in TreeVisibleIds(user)
    BY <2>1 DEF DocumentViewPolicy, TreeVisibleIds
  <2>4. ASSUME target \in GraphOrganizations(user) PROVE ProfileAccess(user, target) = "full"
    BY <2>4, DrawnIsBelow DEF ProfileAccess
  <2> QED BY <2>2, <2>3, <2>4
<1> QED BY <1>1, TreeHangsTogether, PTL

-----------------------------------------------------------------------------
(* TreeLayout: what is drawn.                                              *)

LEMMA LenIs ==
    ASSUME NEW s, NEW n \in Nat, DOMAIN s = 1 .. n
    PROVE  Len(s) = n
OBVIOUS

\* s has each element of S, once.
Lists(s, S) ==
    /\ s \in Seq(S) /\ \A u \in S : \E i \in 1 .. Len(s) : s[i] = u
    /\ \A i, j \in 1 .. Len(s) : s[i] = s[j] => i = j

\* Some of the units in their order: each once.
LEMMA InOrderIs ==
    ASSUME TreeInv, NEW S \in SUBSET Units
    PROVE  Lists(InOrder(S), S)
<1> DEFINE R == {p \in S \X S : Before(p[1], p[2])}
           c == Cardinality(S)
           s == InOrder(S)
<1>1. IsFiniteSet(S)
  <2>1. IsFiniteSet(1 .. Len(parent))
    BY FS_Interval DEF TreeInv
  <2> QED BY <2>1, FS_Subset DEF TreeInv
<1>2. \A u, v \in S : <<u, v>> \in R <=> Before(u, v)
  OBVIOUS
<1>3. \A u \in S : u \in Nat /\ key[u] \in Nat
  <2> SUFFICES ASSUME NEW u \in S PROVE u \in Nat /\ key[u] \in Nat
    OBVIOUS
  <2>1. u \in 1 .. Len(key) /\ Len(key) \in Nat
    BY DEF TreeInv
  <2> QED BY <2>1 DEF TreeInv
<1>4. StrictOrder(R, S)
  <2> HIDE DEF R
  <2>1. \A u \in S : <<u, u>> \notin R
    BY <1>2, <1>3 DEF Before
  <2>2. \A u, v \in S : u # v => <<u, v>> \in R \/ <<v, u>> \in R
    BY <1>2, <1>3 DEF Before
  <2>3. ASSUME NEW u \in S, NEW v \in S, NEW w \in S, <<u, v>> \in R, <<v, w>> \in R
        PROVE  <<u, w>> \in R
    <3>1. Before(u, v) /\ Before(v, w)
      BY <1>2, <2>3
    <3>2. Before(u, w)
      BY <1>3, <3>1 DEF Before
    <3> QED BY <1>2, <3>2
  <2> QED BY <2>1, <2>2, <2>3 DEF StrictOrder
<1>5. Ranked(R, S)
  <2> HIDE DEF R
  <2> QED BY <1>1, <1>4, PlacesFacts
<1> DEFINE below(u) == {v \in S : Before(v, u)}
<1>6. \A u \in S : Preceding(R, S, u) = below(u)
  <2> HIDE DEF R
  <2> QED BY <1>2 DEF Preceding
<1>7. /\ c \in Nat /\ \A u \in S : Cardinality(below(u)) \in 0 .. c - 1
      /\ \A u, v \in S : Cardinality(below(u)) = Cardinality(below(v)) => u = v
      /\ \A n \in 1 .. c : \E u \in S : Cardinality(below(u)) = n - 1
  <2> HIDE DEF R, below
  <2> QED BY <1>5, <1>6 DEF Ranked
<1>8. s = [n \in 1 .. c |-> CHOOSE u \in S : Cardinality(below(u)) = n - 1]
  BY DEF InOrder
<1> HIDE DEF R, c, s, below
<1>9. \A n \in 1 .. c : s[n] \in S /\ Cardinality(below(s[n])) = n - 1
  BY <1>7, <1>8
<1>10. s \in Seq(S) /\ Len(s) = c
  <2>1. s \in [1 .. c -> S]
    BY <1>8, <1>9
  <2> QED BY <1>7, <2>1
<1>11. ASSUME NEW u \in S PROVE \E i \in 1 .. c : s[i] = u
  <2> DEFINE n == Cardinality(below(u)) + 1
  <2>1. n \in 1 .. c /\ n - 1 = Cardinality(below(u))
    <3> DEFINE m == Cardinality(below(u))
    <3>1. m \in 0 .. c - 1
      BY <1>7
    <3> HIDE DEF m
    <3>2. m + 1 \in 1 .. c /\ (m + 1) - 1 = m
      BY <1>7, <3>1
    <3> QED BY <3>2 DEF m
  <2>2. s[n] \in S /\ Cardinality(below(s[n])) = Cardinality(below(u))
    BY <1>9, <2>1
  <2> HIDE DEF n
  <2>3. s[n] = u
    BY <1>7, <2>2
  <2> QED BY <2>1, <2>3
<1>12. ASSUME NEW i \in 1 .. c, NEW j \in 1 .. c, s[i] = s[j] PROVE i = j
  <2>1. i - 1 = j - 1
    BY <1>9, <1>12
  <2> QED BY <1>7, <2>1
<1>13. Lists(s, S)
  BY <1>10, <1>11, <1>12 DEF Lists
<1> QED BY <1>13 DEF s

\* A list of one.
LEMMA ListsOne ==
    ASSUME NEW r, NEW s, Lists(s, {r})
    PROVE  s = <<r>>
<1>1. s \in Seq({r}) /\ Len(s) \in Nat
  BY DEF Lists
<1>2. \A i \in 1 .. Len(s) : s[i] = r
  BY <1>1
<1>3. \E i \in 1 .. Len(s) : s[i] = r
  BY DEF Lists
<1>4. \A i, j \in 1 .. Len(s) : i = j
  BY <1>2 DEF Lists
<1>5. Len(s) = 1
  <2>1. 1 \in 1 .. Len(s) /\ Len(s) \in 1 .. Len(s)
    BY <1>1, <1>3
  <2> QED BY <1>4, <2>1
<1> QED BY <1>1, <1>2, <1>5

LEMMA ListsNothing ==
    ASSUME NEW s, Lists(s, {})
    PROVE  s = <<>>
BY NothingOfNothing DEF Lists

LEMMA ListsConcat ==
    ASSUME NEW S, NEW T, NEW s, NEW t, Lists(s, S), Lists(t, T), S \cap T = {}
    PROVE  Lists(s \o t, S \union T)
<1> DEFINE m == Len(s)
           n == Len(t)
           u == s \o t
<1>1. /\ m \in Nat /\ n \in Nat
      /\ (\A i \in 1 .. m : s[i] \in S) /\ (\A i \in 1 .. n : t[i] \in T)
      /\ s \in Seq(S \union T) /\ t \in Seq(S \union T)
  <2>1. s \in Seq(S) /\ t \in Seq(T)
    BY DEF Lists
  <2>2. s \in Seq(S \union T) /\ t \in Seq(S \union T)
    BY <2>1, SeqMonotonic
  <2> QED BY <2>1, <2>2
<1>2. /\ u \in Seq(S \union T) /\ Len(u) = m + n
      /\ (\A i \in 1 .. m : u[i] = s[i]) /\ (\A i \in 1 .. n : u[m + i] = t[i])
  BY <1>1
<1>3. /\ \A x \in S : \E i \in 1 .. m : s[i] = x
      /\ \A x \in T : \E i \in 1 .. n : t[i] = x
      /\ \A i, j \in 1 .. m : s[i] = s[j] => i = j
      /\ \A i, j \in 1 .. n : t[i] = t[j] => i = j
  BY DEF Lists
<1> HIDE DEF m, n, u
<1>4. \A i \in 1 .. m + n : i \in 1 .. m \/ (i - m \in 1 .. n /\ m + (i - m) = i)
  BY <1>1
<1>5. ASSUME NEW x \in S \union T PROVE \E i \in 1 .. m + n : u[i] = x
  <2>1. CASE x \in S
    <3>1. PICK i \in 1 .. m : s[i] = x
      BY <1>3, <2>1
    <3> QED BY <1>1, <1>2, <3>1
  <2>2. CASE x \in T
    <3>1. PICK i \in 1 .. n : t[i] = x
      BY <1>3, <2>2
    <3>2. m + i \in 1 .. m + n /\ u[m + i] = x
      BY <1>1, <1>2, <3>1
    <3> QED BY <3>2
  <2> QED BY <2>1, <2>2
<1>6. \A i \in 1 .. m : u[i] \in S /\ u[i] \notin T
  BY <1>1, <1>2
<1>7. \A i \in 1 .. n : u[m + i] \in T /\ u[m + i] \notin S
  BY <1>1, <1>2
<1>8. ASSUME NEW i \in 1 .. m + n, NEW j \in 1 .. m + n, u[i] = u[j] PROVE i = j
  <2>1. CASE i \in 1 .. m /\ j \in 1 .. m
    BY <1>2, <1>3, <1>8, <2>1
  <2>2. CASE i - m \in 1 .. n /\ j - m \in 1 .. n /\ m + (i - m) = i /\ m + (j - m) = j
    <3>1. t[i - m] = t[j - m]
      BY <1>2, <1>8, <2>2
    <3>2. i - m = j - m
      BY <1>3, <2>2, <3>1
    <3> QED BY <2>2, <3>2
  <2>3. CASE i \in 1 .. m /\ j - m \in 1 .. n /\ m + (j - m) = j
    BY <1>6, <1>7, <1>8, <2>3
  <2>4. CASE j \in 1 .. m /\ i - m \in 1 .. n /\ m + (i - m) = i
    BY <1>6, <1>7, <1>8, <2>4
  <2> QED BY <1>4, <2>1, <2>2, <2>3, <2>4
<1>9. Lists(u, S \union T)
  BY <1>2, <1>5, <1>8 DEF Lists
<1> QED BY <1>9 DEF u

NoTwice(s) == \A i, j \in 1 .. Len(s) : s[i] = s[j] => i = j

\* The seen sub-units of a level, and the order they should have.
Under(row, seen) == {u \in seen : \E i \in 1 .. Len(row) : parent[u] = row[i]}
Follows(next, row) ==
    \A p, q \in 1 .. Len(next), i, j \in 1 .. Len(row) :
        parent[next[p]] = row[i] /\ parent[next[q]] = row[j] /\ i < j => p < q
Continues(next, row, seen) == Lists(next, Under(row, seen)) /\ Follows(next, row)

SortedUnder(seen) == [u \in seen |-> SortedChildren(u, seen)]

LEMMA SortedUnderIs ==
    ASSUME TreeInv, NEW seen \in SUBSET Units
    PROVE  /\ SortedUnder(seen) \in [seen -> Seq(seen)]
           /\ \A u \in seen : Lists(SortedUnder(seen)[u], Children(u) \cap seen)
<1>1. ASSUME NEW u \in seen
      PROVE  Lists(SortedChildren(u, seen), Children(u) \cap seen) /\ SortedChildren(u, seen) \in Seq(seen)
  <2> DEFINE C == Children(u) \cap seen
  <2>1. C \in SUBSET Units
    OBVIOUS
  <2>2. C \subseteq seen
    OBVIOUS
  <2> HIDE DEF C
  <2>3. Lists(InOrder(C), C)
    BY <2>1, InOrderIs
  <2>4. InOrder(C) \in Seq(seen)
    BY <2>2, <2>3, SeqMonotonic DEF Lists
  <2> QED BY <2>3, <2>4 DEF SortedChildren, C
<1> QED BY <1>1 DEF SortedUnder

LEMMA NextLevelMaps ==
    ASSUME TreeInv, NEW seen \in SUBSET Units, NEW row \in Seq(seen)
    PROVE  NextLevel(row, seen) = FlatMap(row, SortedUnder(seen))
<1>1. \A i \in DOMAIN row : row[i] \in seen
  OBVIOUS
<1>2. Mapped(row, SortedUnder(seen)) = [i \in DOMAIN row |-> SortedChildren(row[i], seen)]
  BY <1>1 DEF Mapped, SortedUnder
<1> QED BY <1>2 DEF NextLevel, FlatMap

LEMMA NextLevelGrows ==
    ASSUME TreeInv, NEW seen \in SUBSET Units, NEW row \in Seq(seen), NEW e \in seen,
           NoTwice(Append(row, e)), NEW a, Continues(a, row, seen),
           NEW c, Lists(c, Children(e) \cap seen)
    PROVE  Continues(a \o c, Append(row, e), seen)
<1> DEFINE m == Len(row)
           more == Append(row, e)
           A == Under(row, seen)
           C == Children(e) \cap seen
           b == a \o c
<1>1. /\ m \in Nat /\ Len(more) = m + 1 /\ more[m + 1] = e
      /\ \A i \in 1 .. m : more[i] = row[i]
  OBVIOUS
<1>2. \A i \in 1 .. m : row[i] # e
  <2> SUFFICES ASSUME NEW i \in 1 .. m, row[i] = e PROVE FALSE
    OBVIOUS
  <2>1. i \in 1 .. Len(more) /\ m + 1 \in 1 .. Len(more) /\ more[i] = more[m + 1]
    BY <1>1
  <2> HIDE DEF more, m
  <2>2. i = m + 1
    BY <2>1 DEF NoTwice, more
  <2> QED BY <1>1, <2>2
<1>3. A \cap C = {}
  BY <1>2 DEF Under, Children
<1>4. Under(more, seen) = A \union C
  <2>1. ASSUME NEW u \in seen
        PROVE  (\E i \in 1 .. Len(more) : parent[u] = more[i]) <=>
                   (\E i \in 1 .. m : parent[u] = row[i]) \/ parent[u] = e
    <3> HIDE DEF more, m
    <3> QED BY <1>1
  <2>2. C \subseteq seen /\ \A u \in seen : u \in C <=> parent[u] = e
    BY DEF Children
  <2> HIDE DEF more, C
  <2> QED BY <2>1, <2>2 DEF Under
<1>5. Lists(a, A) /\ Lists(c, C) /\ Follows(a, row)
  BY DEF Continues
<1>6. Lists(b, A \union C)
  <2> HIDE DEF A, C
  <2> QED BY <1>3, <1>5, ListsConcat
<1>7. /\ Len(a) \in Nat /\ Len(c) \in Nat /\ Len(b) = Len(a) + Len(c)
      /\ \A p \in 1 .. Len(a) : b[p] = a[p] /\ b[p] \in A
      /\ \A p \in 1 .. Len(c) : b[Len(a) + p] \in C
  <2>1. a \in Seq(A) /\ c \in Seq(C)
    BY <1>5 DEF Lists
  <2> HIDE DEF A, C
  <2>2. /\ \A p \in 1 .. Len(a) : a[p] \in A
        /\ \A p \in 1 .. Len(c) : c[p] \in C
        /\ Len(a) \in Nat /\ Len(c) \in Nat
    BY <2>1
  <2>3. /\ Len(b) = Len(a) + Len(c)
        /\ \A p \in 1 .. Len(a) : b[p] = a[p]
        /\ \A p \in 1 .. Len(c) : b[Len(a) + p] = c[p]
    <3>1. a \in Seq(A \union C) /\ c \in Seq(A \union C)
      BY <2>1, SeqMonotonic
    <3> QED BY <3>1
  <2> HIDE DEF b
  <2> QED BY <2>2, <2>3
<1>8. /\ \A u \in C : parent[u] = e
      /\ \A u \in A : parent[u] # e
  BY <1>2 DEF Children, Under
<1> HIDE DEF A, C, b, m, more
<1>9. Follows(b, more)
  <2> SUFFICES ASSUME NEW p \in 1 .. Len(b), NEW q \in 1 .. Len(b),
                      NEW i \in 1 .. Len(more), NEW j \in 1 .. Len(more),
                      parent[b[p]] = more[i], parent[b[q]] = more[j], i < j
               PROVE  p < q
    BY DEF Follows
  <2>1. i \in 1 .. m /\ more[i] = row[i] /\ row[i] # e
    BY <1>1, <1>2
  <2>2. ASSUME NEW k \in 1 .. Len(b), k \notin 1 .. Len(a)
        PROVE  parent[b[k]] = e /\ k > Len(a)
    <3>1. k - Len(a) \in 1 .. Len(c) /\ Len(a) + (k - Len(a)) = k /\ k > Len(a)
      BY <1>7, <2>2
    <3>2. b[k] \in C
      BY <1>7, <3>1
    <3> QED BY <1>8, <3>1, <3>2
  <2>3. p \in 1 .. Len(a)
    BY <2>1, <2>2
  <2>4. CASE q \notin 1 .. Len(a)
    <3>1. q > Len(a)
      BY <2>2, <2>4
    <3> QED BY <1>7, <2>3, <3>1
  <2>5. CASE q \in 1 .. Len(a)
    <3>1. parent[b[q]] # e
      BY <1>7, <1>8, <2>5
    <3>2. j \in 1 .. m /\ more[j] = row[j]
      BY <1>1, <3>1
    <3>3. parent[a[p]] = row[i] /\ parent[a[q]] = row[j]
      BY <1>7, <2>1, <2>3, <2>5, <3>2
    <3> QED BY <1>5, <2>1, <2>3, <2>5, <3>2, <3>3 DEF Follows, m
  <2> QED BY <2>4, <2>5
<1>10. Continues(b, more, seen)
  BY <1>4, <1>6, <1>9 DEF Continues
<1> QED BY <1>10 DEF b, more

\* The next level has each sub-unit once, in the order of their parents.
LEMMA NextLevelIs ==
    ASSUME TreeInv, NEW seen \in SUBSET Units, NEW row \in Seq(seen), NoTwice(row)
    PROVE  Continues(NextLevel(row, seen), row, seen)
<1> DEFINE f == SortedUnder(seen)
           T == {s \in Seq(seen) : NoTwice(s) => Continues(FlatMap(s, f), s, seen)}
<1>1. f \in [seen -> Seq(seen)] /\ \A u \in seen : Lists(f[u], Children(u) \cap seen)
  BY SortedUnderIs
<1> HIDE DEF f
<1>2. <<>> \in T
  <2>1. FlatMap(<<>>, f) = <<>> /\ <<>> \in Seq(seen) /\ Len(<<>>) = 0
    BY FlatMapNone, EmptySeq
  <2>2. Under(<<>>, seen) = {}
    BY <2>1 DEF Under
  <2>3. Lists(<<>>, {})
    BY DEF Lists
  <2>4. Follows(<<>>, <<>>)
    BY DEF Follows
  <2> QED BY <2>1, <2>2, <2>3, <2>4 DEF Continues
<1>3. ASSUME NEW s \in T, NEW e \in seen PROVE Append(s, e) \in T
  <2>1. s \in Seq(seen) /\ Append(s, e) \in Seq(seen)
    BY AppendProperties
  <2> SUFFICES ASSUME NoTwice(Append(s, e)) PROVE Continues(FlatMap(Append(s, e), f), Append(s, e), seen)
    BY <2>1
  <2>2. NoTwice(s)
    <3>1. /\ Len(s) \in Nat /\ Len(Append(s, e)) = Len(s) + 1
          /\ \A i \in 1 .. Len(s) : Append(s, e)[i] = s[i]
      BY <2>1, AppendProperties
    <3> DEFINE t == Append(s, e)
    <3>2. \A i, j \in 1 .. Len(s) + 1 : t[i] = t[j] => i = j
      BY <3>1 DEF NoTwice
    <3> HIDE DEF t
    <3>3. \A i \in 1 .. Len(s) : i \in 1 .. Len(s) + 1 /\ t[i] = s[i]
      BY <3>1 DEF t
    <3> QED BY <3>2, <3>3 DEF NoTwice
  <2>3. Continues(FlatMap(s, f), s, seen)
    BY <2>2
  <2>4. FlatMap(Append(s, e), f) = FlatMap(s, f) \o f[e]
    BY <1>1, <2>1, FlatMapAppend
  <2>5. Lists(f[e], Children(e) \cap seen)
    BY <1>1
  <2> HIDE DEF T
  <2> DEFINE a == FlatMap(s, f)
             c == f[e]
  <2> HIDE DEF a, c
  <2>6. Continues(a \o c, Append(s, e), seen)
    BY <2>1, <2>3, <2>5, NextLevelGrows DEF a, c
  <2> QED BY <2>4, <2>6 DEF a, c
<1> HIDE DEF T
<1>4. T \in SUBSET Seq(seen)
  BY DEF T
<1>5. row \in T
  BY <1>2, <1>3, <1>4, AllSequences
<1>6. Continues(FlatMap(row, f), row, seen)
  BY <1>5 DEF T
<1>7. NextLevel(row, seen) = FlatMap(row, f)
  BY NextLevelMaps DEF f
<1> QED BY <1>6, <1>7

\* level holds the levels that build_tree_layout makes, as many as there may be.
Layered(level, seen, n) ==
    level = [k \in 1 .. n |-> IF k = 1 THEN InOrder({u \in seen : parent[u] \notin seen})
                              ELSE NextLevel(level[k - 1], seen)]

LEMMA LevelsExist ==
    ASSUME NEW seen, NEW n \in Nat
    PROVE  \E level : Layered(level, seen, n)
<1> DEFINE T == {m \in Nat : \E level : Layered(level, seen, m)}
           roots == InOrder({u \in seen : parent[u] \notin seen})
<1>1. 0 \in T
  <2> DEFINE none == [k \in 1 .. 0 |-> IF k = 1 THEN roots ELSE NextLevel(<<>>, seen)]
  <2>1. none = [k \in 1 .. 0 |-> IF k = 1 THEN roots ELSE NextLevel(none[k - 1], seen)]
    OBVIOUS
  <2> QED BY <2>1 DEF Layered
<1>2. ASSUME NEW m \in T PROVE m + 1 \in T
  <2>1. m \in Nat
    OBVIOUS
  <2>2. PICK level : Layered(level, seen, m)
    OBVIOUS
  <2> DEFINE more == [k \in 1 .. m + 1 |->
                         IF k = 1 THEN roots
                         ELSE IF k = m + 1 THEN NextLevel(level[m], seen) ELSE level[k]]
  <2> HIDE DEF roots
  <2>3. \A k \in 1 .. m : level[k] = IF k = 1 THEN roots ELSE NextLevel(level[k - 1], seen)
    BY <2>2 DEF Layered, roots
  <2>4. \A k \in 1 .. m : more[k] = level[k]
    BY <2>1, <2>3
  <2>5. ASSUME NEW k \in 1 .. m + 1
        PROVE  more[k] = IF k = 1 THEN roots ELSE NextLevel(more[k - 1], seen)
    <3>1. CASE k = 1
      BY <3>1
    <3>2. CASE k # 1 /\ k = m + 1
      <4>1. k - 1 = m /\ m \in 1 .. m
        BY <2>1, <3>2
      <4> QED BY <2>4, <3>2, <4>1
    <3>3. CASE k # 1 /\ k # m + 1
      <4>1. k \in 1 .. m /\ k - 1 \in 1 .. m
        BY <2>1, <3>3
      <4> HIDE DEF more
      <4> QED BY <2>3, <2>4, <3>3, <4>1
    <3> QED BY <3>1, <3>2, <3>3
  <2>6. more = [k \in 1 .. m + 1 |-> more[k]]
    OBVIOUS
  <2> HIDE DEF more
  <2>7. Layered(more, seen, m + 1)
    <3>1. more = [k \in 1 .. m + 1 |-> IF k = 1 THEN roots ELSE NextLevel(more[k - 1], seen)]
      BY <2>5, <2>6
    <3> QED BY <3>1 DEF Layered, roots
  <2> QED BY <2>1, <2>7
<1> HIDE DEF T
<1>3. T \in SUBSET Nat
  BY DEF T
<1>4. n \in T
  BY <1>1, <1>2, <1>3, AllNumbers
<1> QED BY <1>4 DEF T

\* Some units with all that is between them and the highest, r.
Hangs(seen, r) ==
    /\ seen \subseteq Units /\ r \in seen /\ parent[r] \notin seen
    /\ \A u \in seen : u # r => parent[u] \in seen

Stacked(level, seen, r, n) ==
    /\ level[1] = <<r>>
    /\ \A k \in 1 .. n : level[k] \in Seq(seen) /\ NoTwice(level[k])
    /\ \A k \in 2 .. n : Continues(level[k], level[k - 1], seen)

LEMMA LevelsStack ==
    ASSUME TreeInv, NEW seen, NEW r, Hangs(seen, r), NEW n \in Nat \ {0},
           NEW level, Layered(level, seen, n)
    PROVE  Stacked(level, seen, r, n)
<1>1. seen \in SUBSET Units /\ r \in seen
  BY DEF Hangs
<1>2. level[1] = <<r>>
  <2>1. {u \in seen : parent[u] \notin seen} = {r} /\ {r} \in SUBSET Units
    BY DEF Hangs
  <2>2. InOrder({r}) = <<r>>
    BY <2>1, InOrderIs, ListsOne
  <2> QED BY <2>1, <2>2 DEF Layered
<1>3. \A k \in 2 .. n : level[k] = NextLevel(level[k - 1], seen)
  <2>1. \A k \in 2 .. n : k \in 1 .. n /\ k # 1
    OBVIOUS
  <2> QED BY <2>1 DEF Layered
<1> DEFINE OK(k) == level[k] \in Seq(seen) /\ NoTwice(level[k])
           T == {k \in Nat : k \in 1 .. n => OK(k)}
<1>4. \A k \in 2 .. n : OK(k - 1) => Continues(level[k], level[k - 1], seen)
  BY <1>1, <1>3, NextLevelIs
<1>5. 0 \in T
  OBVIOUS
<1>6. ASSUME NEW k \in T PROVE k + 1 \in T
  <2>1. CASE k = 0
    <3>1. <<r>> \in Seq(seen) /\ NoTwice(<<r>>)
      BY <1>1 DEF NoTwice
    <3>2. OK(1) /\ k + 1 = 1
      BY <1>2, <2>1, <3>1
    <3> HIDE DEF OK
    <3> QED BY <3>2
  <2>2. CASE k # 0 /\ k + 1 \in 1 .. n
    <3>1. k + 1 \in 2 .. n /\ (k + 1) - 1 = k /\ k \in 1 .. n
      BY <2>2
    <3>2. Continues(level[k + 1], level[k], seen)
      BY <1>4, <3>1
    <3> DEFINE s == level[k + 1]
               U == Under(level[k], seen)
    <3>3. Lists(s, U) /\ U \subseteq seen
      BY <3>2 DEF Continues, Under
    <3> HIDE DEF U, s
    <3>4. s \in Seq(seen) /\ NoTwice(s)
      BY <3>3, SeqMonotonic DEF Lists, NoTwice
    <3>5. k + 1 \in Nat
      OBVIOUS
    <3> QED BY <3>4, <3>5 DEF s
  <2> QED BY <2>1, <2>2
<1> HIDE DEF T, OK
<1>7. T \in SUBSET Nat
  BY DEF T
<1>8. T = Nat
  BY <1>5, <1>6, <1>7, AllNumbers
<1>9. \A k \in 1 .. n : OK(k)
  BY <1>8 DEF T
<1>10. \A k \in 2 .. n : k - 1 \in 1 .. n
  OBVIOUS
<1> QED BY <1>2, <1>4, <1>9, <1>10 DEF Stacked, OK

\* Where a unit stands: on one level, which is that below its parent's.
In(u, s) == \E i \in 1 .. Len(s) : s[i] = u

Descends(level, seen, r, n) ==
    /\ \A u : In(u, level[1]) <=> u = r
    /\ \A k \in 1 .. n : \A u : In(u, level[k]) => u \in seen
    /\ \A k \in 2 .. n : \A u \in seen : In(u, level[k]) <=> In(parent[u], level[k - 1])

LEMMA LevelsDescend ==
    ASSUME NEW seen, NEW r, NEW n \in Nat \ {0}, NEW level, Stacked(level, seen, r, n)
    PROVE  Descends(level, seen, r, n)
<1>1. \A u : In(u, level[1]) <=> u = r
  <2>1. level[1] = <<r>>
    BY DEF Stacked
  <2>2. Len(<<r>>) = 1 /\ <<r>>[1] = r
    OBVIOUS
  <2> QED BY <2>1, <2>2 DEF In
<1>2. ASSUME NEW k \in 1 .. n, NEW u, In(u, level[k]) PROVE u \in seen
  <2>1. level[k] \in Seq(seen)
    BY DEF Stacked
  <2> QED BY <1>2, <2>1 DEF In
<1>3. ASSUME NEW k \in 2 .. n, NEW u \in seen
      PROVE  In(u, level[k]) <=> In(parent[u], level[k - 1])
  <2>1. Lists(level[k], Under(level[k - 1], seen))
    BY DEF Stacked, Continues
  <2> DEFINE s == level[k]
             t == level[k - 1]
  <2>2. u \in Under(t, seen) <=> In(parent[u], t)
    BY DEF Under, In
  <2> HIDE DEF s, t
  <2>3. s \in Seq(Under(t, seen)) /\ \A x \in Under(t, seen) : In(x, s)
    BY <2>1 DEF Lists, In, s, t
  <2>4. In(u, s) => u \in Under(t, seen)
    BY <2>3 DEF In
  <2> QED BY <2>2, <2>3, <2>4 DEF s, t
<1> QED BY <1>1, <1>2, <1>3 DEF Descends

\* A unit stands no higher than its number says, and on one level only; each has a level.
Leveled(level, seen, n) ==
    /\ \A k \in 1 .. n : \A u \in seen : In(u, level[k]) => k <= u
    /\ \A u \in seen : \E k \in 1 .. n : In(u, level[k])
    /\ \A u \in seen, j, k \in 1 .. n : In(u, level[j]) /\ In(u, level[k]) => j = k

LEMMA EachHasItsLevel ==
    ASSUME TreeInv, NEW seen, NEW r, Hangs(seen, r), NEW n, n = Len(parent) + 1,
           NEW level, Descends(level, seen, r, n)
    PROVE  Leveled(level, seen, n)
<1>1. n \in Nat \ {0} /\ seen \in SUBSET Nat
      /\ \A u \in seen : u \in 1 .. n - 1
  BY DEF TreeInv, Hangs
<1>2. \A u \in seen : u # r => parent[u] \in seen /\ parent[u] < u
  <2> SUFFICES ASSUME NEW u \in seen, u # r PROVE parent[u] \in seen /\ parent[u] < u
    OBVIOUS
  <2>1. parent[u] \in seen
    BY DEF Hangs
  <2>2. parent[u] \in 1 .. n - 1
    BY <1>1, <2>1
  <2>3. parent[u] \in Nat /\ parent[u] # Nobody
    BY <1>1, <2>2 DEF Nobody
  <2>4. parent[u] \in 1 .. u - 1
    BY <1>1, <2>3 DEF TreeInv, Hangs
  <2> QED BY <1>1, <2>1, <2>3, <2>4
<1>3. /\ \A u : In(u, level[1]) <=> u = r
      /\ \A k \in 1 .. n : \A u : In(u, level[k]) => u \in seen
      /\ \A k \in 2 .. n : \A u \in seen : In(u, level[k]) <=> In(parent[u], level[k - 1])
      /\ r \in seen /\ parent[r] \notin seen
  BY DEF Descends, Hangs
<1>4. \A k \in 2 .. n : ~In(r, level[k])
  <2> SUFFICES ASSUME NEW k \in 2 .. n, In(r, level[k]) PROVE FALSE
    OBVIOUS
  <2>1. k - 1 \in 1 .. n
    BY <1>1
  <2> QED BY <1>3, <2>1
<1>5. ASSUME NEW k \in 1 .. n, NEW u \in seen, In(u, level[k]) PROVE k <= u
  <2> DEFINE T == {m \in Nat : m \in 1 .. n => \A v \in seen : In(v, level[m]) => m <= v}
  <2>1. 0 \in T
    OBVIOUS
  <2>2. ASSUME NEW m \in T PROVE m + 1 \in T
    <3> SUFFICES ASSUME m + 1 \in 1 .. n, NEW v \in seen, In(v, level[m + 1]) PROVE m + 1 <= v
      OBVIOUS
    <3>1. CASE m = 0
      BY <1>1, <3>1
    <3>2. CASE m # 0
      <4>1. m + 1 \in 2 .. n /\ (m + 1) - 1 = m /\ m \in 1 .. n /\ m \in Nat
        BY <1>1, <3>2
      <4>2. v # r
        BY <1>4, <4>1
      <4>3. In(parent[v], level[m]) /\ parent[v] \in seen /\ parent[v] < v
        BY <1>2, <1>3, <4>1, <4>2
      <4>4. m <= parent[v]
        BY <4>1, <4>3
      <4>5. v \in Nat /\ parent[v] \in Nat
        BY <1>1, <4>3
      <4> QED BY <4>1, <4>3, <4>4, <4>5
    <3> QED BY <3>1, <3>2
  <2> HIDE DEF T
  <2>3. T \in SUBSET Nat
    BY DEF T
  <2>4. T = Nat
    BY <2>1, <2>2, <2>3, AllNumbers
  <2>5. k \in T
    BY <1>1, <2>4
  <2> QED BY <1>5, <2>5 DEF T
<1>6. ASSUME NEW u \in seen PROVE \E k \in 1 .. n : In(u, level[k])
  <2> DEFINE T == {v \in seen : ~ \E k \in 1 .. n : In(v, level[k])}
  <2> SUFFICES ASSUME T # {} PROVE FALSE
    OBVIOUS
  <2>1. T \in SUBSET Nat
    BY <1>1
  <2> HIDE DEF T
  <2>2. PICK v \in T : \A x \in T : v <= x
    BY <2>1, LeastOne
  <2>3. v \in seen /\ ~ \E k \in 1 .. n : In(v, level[k])
    BY <2>2 DEF T
  <2>4. v # r
    BY <1>1, <1>3, <2>3
  <2>5. parent[v] \in seen /\ parent[v] < v /\ parent[v] \in Nat /\ v \in Nat
    BY <1>1, <1>2, <2>3, <2>4
  <2>6. parent[v] \notin T
    BY <2>2, <2>5
  <2>7. PICK k \in 1 .. n : In(parent[v], level[k])
    BY <2>5, <2>6 DEF T
  <2>8. k <= parent[v] /\ v <= n - 1
    BY <1>1, <1>5, <2>3, <2>5, <2>7
  <2>9. k + 1 \in 2 .. n /\ (k + 1) - 1 = k /\ k + 1 \in 1 .. n
    BY <1>1, <2>5, <2>8
  <2>10. In(v, level[k + 1])
    BY <1>3, <2>3, <2>7, <2>9
  <2> QED BY <2>3, <2>9, <2>10
<1>7. ASSUME NEW u \in seen, NEW j \in 1 .. n, NEW k \in 1 .. n, In(u, level[j]), In(u, level[k])
      PROVE  j = k
  <2> DEFINE T == {v \in seen : \E a, b \in 1 .. n : In(v, level[a]) /\ In(v, level[b]) /\ a # b}
  <2> SUFFICES ASSUME T # {} PROVE FALSE
    BY <1>7
  <2>1. T \in SUBSET Nat
    BY <1>1
  <2> HIDE DEF T
  <2>2. PICK v \in T : \A x \in T : v <= x
    BY <2>1, LeastOne
  <2>3. v \in seen
    BY <2>2 DEF T
  <2>4. PICK a \in 1 .. n, b \in 1 .. n : In(v, level[a]) /\ In(v, level[b]) /\ a # b
    BY <2>2 DEF T
  <2>5. v # r
    <3> SUFFICES ASSUME v = r PROVE FALSE
      OBVIOUS
    <3>1. a \in 2 .. n \/ b \in 2 .. n
      BY <1>1, <2>4
    <3> QED BY <1>4, <2>4, <3>1
  <2>6. a # 1 /\ b # 1
    BY <1>3, <2>4, <2>5
  <2>7. a \in 2 .. n /\ b \in 2 .. n /\ a - 1 \in 1 .. n /\ b - 1 \in 1 .. n /\ a - 1 # b - 1
    BY <1>1, <2>4, <2>6
  <2>8. parent[v] \in seen /\ parent[v] < v /\ parent[v] \in Nat /\ v \in Nat
    BY <1>1, <1>2, <2>3, <2>5
  <2>9. In(parent[v], level[a - 1]) /\ In(parent[v], level[b - 1])
    BY <1>3, <2>3, <2>4, <2>7
  <2>10. parent[v] \in T
    BY <2>7, <2>8, <2>9 DEF T
  <2> QED BY <2>2, <2>8, <2>10
<1> QED BY <1>5, <1>6, <1>7 DEF Leveled

\* The rows of a drawing.
Rows(rows, seen, r, h) ==
    /\ h \in Nat \ {0} /\ rows = [k \in 1 .. h |-> rows[k]]
    /\ Stacked(rows, seen, r, h) /\ \A k \in 1 .. h : Len(rows[k]) \in Nat \ {0}
    /\ Descends(rows, seen, r, h) /\ Leveled(rows, seen, h)

LEMMA LevelsAreRows ==
    ASSUME TreeInv, NEW seen, NEW r, Hangs(seen, r)
    PROVE  \E h : Rows(Levels(seen), seen, r, h)
<1> DEFINE n == Len(parent) + 1
           level == CHOOSE f : f = [k \in 1 .. n |->
                                       IF k = 1 THEN InOrder({u \in seen : parent[u] \notin seen})
                                       ELSE NextLevel(f[k - 1], seen)]
           height == CHOOSE h \in 0 .. Len(parent) :
                         level[h + 1] = <<>> /\ \A k \in 1 .. h : level[k] # <<>>
           rows == [k \in 1 .. height |-> level[k]]
<1>1. Levels(seen) = rows
  BY DEF Levels
<1>2. n \in Nat \ {0} /\ Len(parent) \in Nat /\ n - 1 = Len(parent)
  BY DEF TreeInv
<1>3. Layered(level, seen, n)
  <2> HIDE DEF n
  <2>1. \E f : Layered(f, seen, n)
    BY <1>2, LevelsExist
  <2>2. \E f : f = [k \in 1 .. n |->
                       IF k = 1 THEN InOrder({u \in seen : parent[u] \notin seen})
                       ELSE NextLevel(f[k - 1], seen)]
    BY <2>1 DEF Layered
  <2>3. level = [k \in 1 .. n |->
                       IF k = 1 THEN InOrder({u \in seen : parent[u] \notin seen})
                       ELSE NextLevel(level[k - 1], seen)]
    BY <2>2
  <2> HIDE DEF level
  <2> QED BY <2>3 DEF Layered
<1> HIDE DEF level
<1>4. Stacked(level, seen, r, n)
  <2> HIDE DEF n
  <2> QED BY <1>2, <1>3, LevelsStack
<1>5. Descends(level, seen, r, n) /\ Leveled(level, seen, n)
  <2>1. Descends(level, seen, r, n)
    <3> HIDE DEF n
    <3> QED BY <1>2, <1>4, LevelsDescend
  <2>2. Leveled(level, seen, n)
    BY <2>1, EachHasItsLevel
  <2> QED BY <2>1, <2>2
<1>6. \A u \in seen : u \in Nat /\ u < n
  BY DEF Hangs, TreeInv
<1> HIDE DEF n
<1>7. \A k \in 1 .. n : /\ level[k] \in Seq(seen) /\ Len(level[k]) \in Nat
                        /\ (level[k] # <<>> => \E u \in seen : In(u, level[k]))
                        /\ (level[k] = <<>> => \A u : ~In(u, level[k]))
  <2> SUFFICES ASSUME NEW k \in 1 .. n
               PROVE  /\ level[k] \in Seq(seen) /\ Len(level[k]) \in Nat
                      /\ (level[k] # <<>> => \E u \in seen : In(u, level[k]))
                      /\ (level[k] = <<>> => \A u : ~In(u, level[k]))
    OBVIOUS
  <2> DEFINE s == level[k]
  <2>1. s \in Seq(seen) /\ Len(s) \in Nat
    BY <1>4 DEF Stacked
  <2> HIDE DEF s
  <2>2. s # <<>> => \E u \in seen : In(u, s)
    <3> SUFFICES ASSUME s # <<>> PROVE \E u \in seen : In(u, s)
      OBVIOUS
    <3>1. 1 \in 1 .. Len(s) /\ s[1] \in seen
      BY <2>1
    <3> QED BY <3>1 DEF In
  <2>3. s = <<>> => \A u : ~In(u, s)
    BY DEF In
  <2> QED BY <2>1, <2>2, <2>3 DEF s
<1>8. level[n] = <<>>
  <2> SUFFICES ASSUME level[n] # <<>> PROVE FALSE
    OBVIOUS
  <2>1. n \in 1 .. n
    BY <1>2
  <2>2. PICK u \in seen : In(u, level[n])
    BY <1>7, <2>1
  <2>3. n <= u
    BY <1>5, <2>1, <2>2 DEF Leveled
  <2> QED BY <1>2, <1>6, <2>3
<1>9. height \in 0 .. Len(parent) /\ level[height + 1] = <<>> /\ \A k \in 1 .. height : level[k] # <<>>
  <2> DEFINE T == {h \in Nat : h + 1 \in 1 .. n /\ level[h + 1] = <<>>}
  <2>1. n - 1 \in T
    BY <1>2, <1>8
  <2>2. T \in SUBSET Nat
    OBVIOUS
  <2> HIDE DEF T
  <2>3. PICK h \in T : \A x \in T : h <= x
    BY <2>1, <2>2, LeastOne
  <2>4. h \in Nat /\ h + 1 \in 1 .. n /\ level[h + 1] = <<>> /\ h \in 0 .. Len(parent)
    BY <1>2, <2>3 DEF T
  <2>5. ASSUME NEW k \in 1 .. h, level[k] = <<>> PROVE FALSE
    <3>1. k - 1 \in Nat /\ (k - 1) + 1 = k /\ k \in 1 .. n
      BY <1>2, <2>4
    <3>2. k - 1 \in T
      BY <2>5, <3>1 DEF T
    <3>3. h <= k - 1
      BY <2>3, <3>2
    <3> QED BY <2>4, <3>3
  <2> QED BY <2>4, <2>5
<1> HIDE DEF height
<1>10. height \in Nat \ {0} /\ height + 1 \in 1 .. n
  <2>1. level[1] = <<r>>
    BY <1>4 DEF Stacked
  <2>2. level[1] # <<>>
    BY <2>1
  <2>3. height # 0
    BY <1>9, <2>2
  <2> QED BY <1>2, <1>9, <2>3
<1>11. \A k \in 1 .. n : k > height => level[k] = <<>>
  <2> DEFINE T == {k \in Nat : k \in 1 .. n /\ k > height => level[k] = <<>>}
  <2>1. 0 \in T
    OBVIOUS
  <2>2. ASSUME NEW k \in T PROVE k + 1 \in T
    <3> SUFFICES ASSUME k + 1 \in 1 .. n, k + 1 > height PROVE level[k + 1] = <<>>
      OBVIOUS
    <3>0. k \in Nat
      OBVIOUS
    <3>1. CASE k = height
      BY <1>9, <3>1
    <3>2. CASE k # height
      <4>1. k > height /\ k \in 1 .. n /\ k + 1 \in 2 .. n /\ (k + 1) - 1 = k
        BY <1>2, <1>10, <3>0, <3>2
      <4>2. level[k] = <<>>
        BY <4>1
      <4> SUFFICES ASSUME level[k + 1] # <<>> PROVE FALSE
        OBVIOUS
      <4>3. PICK u \in seen : In(u, level[k + 1])
        BY <1>7, <4>1
      <4>4. In(parent[u], level[k])
        BY <1>5, <4>1, <4>3 DEF Descends
      <4> QED BY <1>7, <4>1, <4>2, <4>4
    <3> QED BY <3>1, <3>2
  <2> HIDE DEF T
  <2>3. T \in SUBSET Nat
    BY DEF T
  <2>4. T = Nat
    BY <2>1, <2>2, <2>3, AllNumbers
  <2>5. 1 .. n \subseteq T
    BY <2>4
  <2> QED BY <2>5 DEF T
<1>12. \A k \in 1 .. height : k \in 1 .. n /\ rows[k] = level[k]
  BY <1>2, <1>10
<1>13. rows = [k \in 1 .. height |-> rows[k]]
  OBVIOUS
<1> HIDE DEF rows
<1>14. \A k \in 2 .. height : k \in 2 .. n /\ k \in 1 .. height /\ k - 1 \in 1 .. height
  BY <1>2, <1>10
<1>15. Stacked(rows, seen, r, height)
  <2>1. rows[1] = <<r>>
    BY <1>4, <1>10, <1>12 DEF Stacked
  <2>2. \A k \in 1 .. height : rows[k] \in Seq(seen) /\ NoTwice(rows[k])
    BY <1>4, <1>12 DEF Stacked
  <2>3. \A k \in 2 .. height : Continues(rows[k], rows[k - 1], seen)
    BY <1>4, <1>12, <1>14 DEF Stacked
  <2> QED BY <2>1, <2>2, <2>3 DEF Stacked
<1>16. \A k \in 1 .. height : Len(rows[k]) \in Nat \ {0}
  <2> SUFFICES ASSUME NEW k \in 1 .. height PROVE Len(level[k]) \in Nat \ {0}
    BY <1>12
  <2> DEFINE s == level[k]
  <2>1. s \in Seq(seen) /\ s # <<>>
    BY <1>7, <1>9, <1>12
  <2> HIDE DEF s
  <2>2. Len(s) \in Nat \ {0}
    BY <2>1
  <2> QED BY <2>2 DEF s
<1>17. Descends(rows, seen, r, height)
  <2>1. \A u : In(u, rows[1]) <=> u = r
    BY <1>5, <1>10, <1>12 DEF Descends
  <2>2. \A k \in 1 .. height : \A u : In(u, rows[k]) => u \in seen
    BY <1>5, <1>12 DEF Descends
  <2>3. \A k \in 2 .. height : \A u \in seen : In(u, rows[k]) <=> In(parent[u], rows[k - 1])
    BY <1>5, <1>12, <1>14 DEF Descends
  <2> QED BY <2>1, <2>2, <2>3 DEF Descends
<1>18. Leveled(rows, seen, height)
  <2>1. \A k \in 1 .. height : \A u \in seen : In(u, rows[k]) => k <= u
    BY <1>5, <1>12 DEF Leveled
  <2>2. ASSUME NEW u \in seen PROVE \E k \in 1 .. height : In(u, rows[k])
    <3>1. PICK k \in 1 .. n : In(u, level[k])
      BY <1>5 DEF Leveled
    <3>2. ~(k > height)
      BY <1>7, <1>11, <3>1
    <3>3. k \in 1 .. height
      BY <1>2, <1>10, <3>2
    <3> QED BY <1>12, <3>1, <3>3
  <2>3. \A u \in seen, j, k \in 1 .. height : In(u, rows[j]) /\ In(u, rows[k]) => j = k
    BY <1>5, <1>12 DEF Leveled
  <2> QED BY <2>1, <2>2, <2>3 DEF Leveled
<1>19. Rows(rows, seen, r, height)
  BY <1>10, <1>13, <1>15, <1>16, <1>17, <1>18 DEF Rows
<1> QED BY <1>1, <1>19

LEMMA Sizes ==
    ASSUME NEW tier
    PROVE  /\ NodeBoxSize(tier)[1] \in 78 .. 220 /\ NodeBoxSize(tier)[2] \in 34 .. 86
BY DEF NodeBoxSize

LEMMA LowerSizes ==
    ASSUME NEW tier, tier # 0
    PROVE  NodeBoxSize(tier)[1] \in 78 .. 158
BY DEF NodeBoxSize

\* Below the top the tier is not 0.
LEMMA AncestorsBelow ==
    ASSUME TreeInv
    PROVE  \A u \in Units : AncestorIds(u) \subseteq 1 .. u - 1
<1> DEFINE T == {u \in Units : ~(AncestorIds(u) \subseteq 1 .. u - 1)}
<1> SUFFICES ASSUME T # {} PROVE FALSE
  OBVIOUS
<1>1. T \in SUBSET Nat /\ T \subseteq Units
  BY DEF TreeInv
<1> HIDE DEF T
<1>2. PICK u \in T : \A x \in T : u <= x
  BY <1>1, LeastOne
<1>3. u \in Units /\ u \in Nat /\ ~(AncestorIds(u) \subseteq 1 .. u - 1)
  BY <1>1, <1>2 DEF T
<1>4. CASE parent[u] = Nobody
  BY <1>3, <1>4, AncestorsAre
<1>5. CASE parent[u] # Nobody
  <2>1. parent[u] \in Units /\ AncestorIds(u) = {parent[u]} \union AncestorIds(parent[u])
    BY <1>3, <1>5, AncestorsAre
  <2>2. parent[u] \in 1 .. u - 1
    BY <1>3, <1>5 DEF TreeInv
  <2>3. parent[u] \notin T
    BY <1>2, <1>3, <2>2
  <2>4. AncestorIds(parent[u]) \subseteq 1 .. parent[u] - 1
    BY <2>1, <2>3 DEF T
  <2>5. 1 .. parent[u] - 1 \subseteq 1 .. u - 1
    BY <1>3, <2>2
  <2> QED BY <1>3, <2>1, <2>2, <2>4, <2>5
<1> QED BY <1>4, <1>5

LEMMA LowerTier ==
    ASSUME TreeInv, NEW u \in Units, parent[u] # Nobody
    PROVE  Tier(u) # 0
<1>1. parent[u] \in AncestorIds(u)
  BY AncestorsAre
<1>2. IsFiniteSet(AncestorIds(u))
  <2>1. u - 1 \in Int /\ AncestorIds(u) \subseteq 1 .. u - 1
    BY AncestorsBelow DEF TreeInv
  <2>2. IsFiniteSet(1 .. u - 1)
    BY <2>1, FS_Interval
  <2> QED BY <2>1, <2>2, FS_Subset
<1>3. Cardinality(AncestorIds(u)) # 0
  BY <1>1, <1>2, FS_EmptySet
<1> QED BY <1>3 DEF Tier

LEMMA WidestIs ==
    ASSUME NEW rows, NEW seen, NEW r, NEW h, Rows(rows, seen, r, h)
    PROVE  Widest(rows) \in Nat \ {0} /\ \A k \in 1 .. h : Len(rows[k]) <= Widest(rows)
<1>1. /\ h \in Nat \ {0} /\ DOMAIN rows = 1 .. h
      /\ \A k \in 1 .. h : Len(rows[k]) \in Nat \ {0}
  <2>1. h \in Nat \ {0} /\ rows = [k \in 1 .. h |-> rows[k]]
        /\ \A k \in 1 .. h : Len(rows[k]) \in Nat \ {0}
    BY DEF Rows
  <2>2. DOMAIN [k \in 1 .. h |-> rows[k]] = 1 .. h
    OBVIOUS
  <2> QED BY <2>1, <2>2
<1> DEFINE lens == {Len(rows[i]) : i \in DOMAIN rows}
           T == {m \in Nat : m \in 1 .. h => \E a \in 1 .. m : \A k \in 1 .. m : Len(rows[k]) <= Len(rows[a])}
<1>2. 0 \in T
  OBVIOUS
<1>3. ASSUME NEW m \in T PROVE m + 1 \in T
  <2>0. m \in Nat
    OBVIOUS
  <2> SUFFICES ASSUME m + 1 \in 1 .. h
               PROVE  \E a \in 1 .. m + 1 : \A k \in 1 .. m + 1 : Len(rows[k]) <= Len(rows[a])
    OBVIOUS
  <2>1. \A k \in 1 .. m + 1 : k = m + 1 \/ k \in 1 .. m
    BY <2>0
  <2>2. m + 1 \in 1 .. m + 1 /\ \A k \in 1 .. m + 1 : Len(rows[k]) \in Nat
    BY <1>1, <2>0
  <2>3. CASE m = 0
    <3>1. \A k \in 1 .. m + 1 : k = m + 1
      BY <2>1, <2>3
    <3>2. \A k \in 1 .. m + 1 : Len(rows[k]) <= Len(rows[m + 1])
      <4> TAKE k \in 1 .. m + 1
      <4>1. k = m + 1 /\ Len(rows[m + 1]) \in Nat
        BY <2>2, <3>1
      <4> QED BY <4>1
    <3> QED BY <2>2, <3>2
  <2>4. CASE m # 0
    <3>1. m \in 1 .. h
      BY <1>1, <2>0, <2>4
    <3>2. PICK a \in 1 .. m : \A k \in 1 .. m : Len(rows[k]) <= Len(rows[a])
      BY <3>1
    <3>3. a \in 1 .. m + 1
      BY <2>0
    <3>4. CASE Len(rows[m + 1]) <= Len(rows[a])
      BY <2>1, <3>2, <3>3, <3>4
    <3>5. CASE ~(Len(rows[m + 1]) <= Len(rows[a]))
      <4>1. \A k \in 1 .. m + 1 : Len(rows[k]) <= Len(rows[m + 1])
        <5> TAKE k \in 1 .. m + 1
        <5>1. Len(rows[k]) \in Nat /\ Len(rows[m + 1]) \in Nat /\ Len(rows[a]) \in Nat
          BY <2>2, <3>3
        <5>2. Len(rows[k]) <= Len(rows[a]) \/ k = m + 1
          BY <2>1, <3>2
        <5> QED BY <3>5, <5>1, <5>2
      <4> QED BY <2>2, <4>1
    <3> QED BY <3>4, <3>5
  <2> QED BY <2>3, <2>4
<1> HIDE DEF T
<1>4. T \in SUBSET Nat
  BY DEF T
<1>5. T = Nat
  BY <1>2, <1>3, <1>4, AllNumbers
<1>6. PICK a \in 1 .. h : \A k \in 1 .. h : Len(rows[k]) <= Len(rows[a])
  <2>1. h \in T /\ h \in 1 .. h
    BY <1>1, <1>5
  <2> QED BY <2>1 DEF T
<1>7. Len(rows[a]) \in lens /\ \A i \in DOMAIN rows : Len(rows[i]) <= Len(rows[a])
  BY <1>1, <1>6
<1>8. Widest(rows) \in lens /\ \A i \in DOMAIN rows : Len(rows[i]) <= Widest(rows)
  BY <1>7 DEF Widest
<1> QED BY <1>1, <1>8

\* The node of the i-th unit of the k-th row.
AtX(rows, k, i) ==
    (ViewboxWidth(rows) \div 2) - ((Len(rows[k]) - 1) * HorizontalGap) \div 2 + (i - 1) * HorizontalGap
AtY(k) == MarginY + (k - 1) * VerticalGap
Node(rows, k, i) == [org |-> rows[k][i], x |-> AtX(rows, k, i), y |-> AtY(k)]

LEMMA NodesFit ==
    ASSUME NEW rows, NEW seen, NEW r, NEW h, Rows(rows, seen, r, h),
           NEW k \in 1 .. h, NEW i \in 1 .. Len(rows[k])
    PROVE  /\ AtX(rows, k, i) \in Int /\ AtX(rows, k, i) >= 150
           /\ AtX(rows, k, i) + 150 <= ViewboxWidth(rows) /\ ViewboxWidth(rows) \in Int
           /\ AtY(k) \in Nat /\ AtY(k) <= ViewboxHeight(rows)
           /\ \A j \in 1 .. Len(rows[k]) : AtX(rows, k, j) = AtX(rows, k, i) + 172 * (j - i)
<1> DEFINE w == Widest(rows)
           l == Len(rows[k])
           V == ViewboxWidth(rows)
<1>1. w \in Nat \ {0} /\ l \in Nat \ {0} /\ l <= w /\ h \in Nat \ {0}
  BY WidestIs DEF Rows
<1>2. V \in Int /\ V >= (w - 1) * 172 + 300
  <2> HIDE DEF w
  <2> QED BY <1>1 DEF ViewboxWidth, AtLeast, HorizontalGap, MarginX, w
<1>3. Len(rows) = h
  <2>1. rows = [n \in 1 .. h |-> rows[n]]
    BY DEF Rows
  <2>2. DOMAIN rows = 1 .. h
    BY <2>1
  <2> QED BY <1>1, <2>2, LenIs
<1>4. AtY(k) \in Nat /\ AtY(k) <= ViewboxHeight(rows)
  BY <1>1, <1>3 DEF AtY, ViewboxHeight, AtLeast, MarginY, VerticalGap
<1> HIDE DEF w, l, V
<1> DEFINE c == V \div 2
           m == ((l - 1) * 172) \div 2
<1>5. m = (l - 1) * 86 /\ m \in Int
  BY <1>1
<1>6. c \in Int /\ 2 * c <= V /\ V <= 2 * c + 1
  BY <1>2
<1>7. AtX(rows, k, i) = c - m + (i - 1) * 172
      /\ \A j \in 1 .. l : AtX(rows, k, j) = c - m + (j - 1) * 172
  BY DEF AtX, HorizontalGap, V, l
<1> HIDE DEF c, m
<1>8. i \in 1 .. l
  BY DEF l
<1>9. /\ c - m + (i - 1) * 172 \in Int
      /\ c - m + (i - 1) * 172 >= 150 /\ c - m + (i - 1) * 172 + 150 <= V
  BY <1>1, <1>2, <1>5, <1>6, <1>8
<1>10. \A j \in 1 .. l : c - m + (j - 1) * 172 = c - m + (i - 1) * 172 + 172 * (j - i)
  BY <1>1, <1>5, <1>6, <1>8
<1> QED BY <1>2, <1>4, <1>7, <1>9, <1>10 DEF V, l

LEMMA NodesSpaced ==
    ASSUME NEW rows, NEW seen, NEW r, NEW h, Rows(rows, seen, r, h),
           NEW k \in 1 .. h, NEW i \in 1 .. Len(rows[k]), NEW j \in 1 .. Len(rows[k])
    PROVE  AtX(rows, k, i) \in Int /\ AtX(rows, k, j) = AtX(rows, k, i) + 172 * (j - i)
BY NodesFit

LEMMA NodesAre ==
    ASSUME NEW rows, NEW seen, NEW r, NEW h, Rows(rows, seen, r, h)
    PROVE  /\ \A o \in Nodes(rows) : \E k \in 1 .. h : \E i \in 1 .. Len(rows[k]) : o = Node(rows, k, i)
           /\ \A k \in 1 .. h : \A i \in 1 .. Len(rows[k]) : Node(rows, k, i) \in Nodes(rows)
<1>1. DOMAIN rows = 1 .. h
  <2>1. rows = [n \in 1 .. h |-> rows[n]]
    BY DEF Rows
  <2> QED BY <2>1
<1>2. \A k \in 1 .. h : DOMAIN rows[k] = 1 .. Len(rows[k])
  <2> TAKE k \in 1 .. h
  <2>1. rows[k] \in Seq(seen)
    BY DEF Rows, Stacked
  <2> QED BY <2>1
<1>3. Nodes(rows) = UNION {{Node(rows, k, i) : i \in DOMAIN rows[k]} : k \in DOMAIN rows}
  BY DEF Nodes, Node, AtX, AtY
<1>4. Nodes(rows) = UNION {{Node(rows, k, i) : i \in 1 .. Len(rows[k])} : k \in 1 .. h}
  BY <1>1, <1>2, <1>3
<1>5. ASSUME NEW o \in Nodes(rows)
      PROVE  \E k \in 1 .. h : \E i \in 1 .. Len(rows[k]) : o = Node(rows, k, i)
  BY <1>4
<1>6. ASSUME NEW k \in 1 .. h, NEW i \in 1 .. Len(rows[k]) PROVE Node(rows, k, i) \in Nodes(rows)
  BY <1>4
<1> QED BY <1>5, <1>6

\* Each unit that is shown has one node.
LEMMA OneNodeEach ==
    ASSUME TreeInv, NEW seen, NEW r, NEW rows, NEW h, Rows(rows, seen, r, h)
    PROVE  /\ \A o \in Nodes(rows) : o.org \in seen
           /\ \A o, p \in Nodes(rows) : o.org = p.org => o = p
           /\ \A u \in seen : \E o \in Nodes(rows) : o.org = u
<1> DEFINE At(o, k, i) == k \in 1 .. h /\ i \in 1 .. Len(rows[k]) /\ o = Node(rows, k, i)
<1>1. \A o \in Nodes(rows) : \E k, i : At(o, k, i)
  BY NodesAre
<1>2. \A o, k, i : At(o, k, i) => o.org = rows[k][i] /\ In(o.org, rows[k]) /\ k \in 1 .. h /\ i \in 1 .. Len(rows[k])
  BY DEF Node, In
<1>3. \A k \in 1 .. h : \A i \in 1 .. Len(rows[k]) : Node(rows, k, i) \in Nodes(rows) /\ Node(rows, k, i).org = rows[k][i]
  <2>1. \A k \in 1 .. h : \A i \in 1 .. Len(rows[k]) : Node(rows, k, i) \in Nodes(rows)
    BY NodesAre
  <2>2. \A k, i : Node(rows, k, i).org = rows[k][i]
    BY DEF Node
  <2> QED BY <2>1, <2>2
<1>4. ASSUME NEW o \in Nodes(rows) PROVE o.org \in seen
  <2>1. PICK k, i : At(o, k, i)
    BY <1>1
  <2>2. In(o.org, rows[k]) /\ k \in 1 .. h
    BY <1>2, <2>1
  <2> QED BY <2>2 DEF Rows, Descends
<1>5. ASSUME NEW o \in Nodes(rows), NEW p \in Nodes(rows), o.org = p.org PROVE o = p
  <2>1. PICK k, i : At(o, k, i)
    BY <1>1
  <2>2. PICK l, j : At(p, l, j)
    BY <1>1
  <2>3. /\ In(o.org, rows[k]) /\ k \in 1 .. h /\ i \in 1 .. Len(rows[k]) /\ o.org = rows[k][i]
        /\ In(o.org, rows[l]) /\ l \in 1 .. h /\ j \in 1 .. Len(rows[l]) /\ o.org = rows[l][j]
    BY <1>2, <1>5, <2>1, <2>2
  <2>4. k = l
    BY <1>4, <2>3 DEF Rows, Leveled
  <2>5. NoTwice(rows[k])
    BY <2>3 DEF Rows, Stacked
  <2>6. i = j
    BY <2>3, <2>4, <2>5 DEF NoTwice
  <2> QED BY <2>1, <2>2, <2>4, <2>6
<1>6. ASSUME NEW u \in seen PROVE \E o \in Nodes(rows) : o.org = u
  <2>1. PICK k \in 1 .. h : In(u, rows[k])
    BY DEF Rows, Leveled
  <2>2. PICK i \in 1 .. Len(rows[k]) : rows[k][i] = u
    BY <2>1 DEF In
  <2> QED BY <1>3, <2>2
<1> QED BY <1>4, <1>5, <1>6

\* As many as there are names.
LEMMA SameNumber ==
    ASSUME NEW S, IsFiniteSet(S), NEW T, NEW f \in [T -> S],
           \A x, y \in T : f[x] = f[y] => x = y, \A u \in S : \E x \in T : f[x] = u
    PROVE  IsFiniteSet(T) /\ Cardinality(T) = Cardinality(S)
<1>1. f \in Injection(T, S)
  BY DEF Injection, IsInjective
<1>2. f \in Surjection(T, S)
  BY DEF Surjection
<1> QED BY <1>1, <1>2, FS_Injection

LEMMA NodesCount ==
    ASSUME TreeInv, NEW seen, NEW r, Hangs(seen, r), NEW rows, NEW h, Rows(rows, seen, r, h)
    PROVE  /\ IsFiniteSet(seen) /\ Cardinality(seen) \in Nat
           /\ Cardinality(Nodes(rows)) = Cardinality(seen) /\ {n.org : n \in Nodes(rows)} = seen
           /\ Cardinality(Edges(Nodes(rows))) + 1 = Cardinality(seen)
<1> DEFINE N == Nodes(rows)
           E == Edges(N)
           f == [o \in N |-> o.org]
           g == [e \in E |-> e.to.org]
<1>1. IsFiniteSet(seen) /\ Cardinality(seen) \in Nat
  <2>1. IsFiniteSet(1 .. Len(parent)) /\ seen \subseteq 1 .. Len(parent)
    BY FS_Interval DEF TreeInv, Hangs
  <2> QED BY <2>1, FS_Subset, FS_CardinalityType
<1>2. /\ \A o \in N : o.org \in seen
      /\ \A o, p \in N : o.org = p.org => o = p
      /\ \A u \in seen : \E o \in N : o.org = u
  BY OneNodeEach
<1> HIDE DEF N
<1>3. Cardinality(N) = Cardinality(seen)
  <2>1. f \in [N -> seen]
    BY <1>2
  <2>2. \A x, y \in N : f[x] = f[y] => x = y
    BY <1>2
  <2>3. \A u \in seen : \E x \in N : f[x] = u
    BY <1>2
  <2> HIDE DEF f
  <2> QED BY <1>1, <2>1, <2>2, <2>3, SameNumber
<1>4. {n.org : n \in N} = seen
  BY <1>2
<1>5. \A e \in E : e.from \in N /\ e.to \in N /\ parent[e.to.org] = e.from.org
                   /\ e = [from |-> e.from, to |-> e.to]
  BY DEF Edges
<1>6. \A o, p \in N : parent[p.org] = o.org => [from |-> o, to |-> p] \in E
  BY DEF Edges
<1>7. r \in seen /\ parent[r] \notin seen /\ \A u \in seen : u # r => parent[u] \in seen
  BY DEF Hangs
<1> HIDE DEF E
<1>8. Cardinality(E) = Cardinality(seen \ {r})
  <2>1. g \in [E -> seen \ {r}]
    <3>1. \A e \in E : e.to.org \in seen /\ e.to.org # r
      BY <1>2, <1>5, <1>7
    <3> QED BY <3>1
  <2>2. \A x, y \in E : g[x] = g[y] => x = y
    <3> SUFFICES ASSUME NEW x \in E, NEW y \in E, x.to.org = y.to.org PROVE x = y
      OBVIOUS
    <3>1. x.to = y.to
      BY <1>2, <1>5
    <3>2. x.from = y.from
      BY <1>2, <1>5, <3>1
    <3> QED BY <1>5, <3>1, <3>2
  <2>3. ASSUME NEW u \in seen \ {r} PROVE \E x \in E : g[x] = u
    <3>1. PICK p \in N : p.org = u
      BY <1>2
    <3>2. PICK o \in N : o.org = parent[u]
      BY <1>2, <1>7
    <3>3. [from |-> o, to |-> p] \in E
      BY <1>6, <3>1, <3>2
    <3>4. g[[from |-> o, to |-> p]] = u
      BY <3>1, <3>3
    <3> QED BY <3>3, <3>4
  <2>4. IsFiniteSet(seen \ {r})
    BY <1>1, FS_RemoveElement
  <2> HIDE DEF g
  <2> QED BY <2>1, <2>2, <2>3, <2>4, SameNumber
<1>9. Cardinality(seen \ {r}) = Cardinality(seen) - 1
  BY <1>1, <1>7, FS_RemoveElement
<1> QED BY <1>1, <1>3, <1>4, <1>8, <1>9 DEF N, E

\* The drawing of some units: what DrawingIsClear says of it.
Apart(a, b, n) == 2 * (AtLeast(a, b) - (IF a < b THEN a ELSE b)) >= n
BoxOf(o) == NodeBoxSize(Tier(o.org))

LEMMA BoxesFit ==
    ASSUME NEW seen, NEW r, NEW rows, NEW h, Rows(rows, seen, r, h), NEW o \in Nodes(rows)
    PROVE  /\ 2 * o.x >= BoxOf(o)[1] /\ 2 * (o.x + BoxOf(o)[1]) <= 2 * ViewboxWidth(rows) + BoxOf(o)[1]
           /\ o.y <= ViewboxHeight(rows)
<1>1. PICK k \in 1 .. h : \E i \in 1 .. Len(rows[k]) : o = Node(rows, k, i)
  BY NodesAre
<1>2. PICK i \in 1 .. Len(rows[k]) : o = Node(rows, k, i)
  BY <1>1
<1> DEFINE b == BoxOf(o)[1]
           V == ViewboxWidth(rows)
<1>3. b \in 78 .. 220
  BY Sizes DEF BoxOf
<1>4. o.x = AtX(rows, k, i) /\ o.y = AtY(k)
  BY <1>2 DEF Node
<1>5. /\ o.x \in Int /\ o.x >= 150 /\ o.x + 150 <= V /\ V \in Int
      /\ o.y <= ViewboxHeight(rows)
  BY <1>4, NodesFit
<1> HIDE DEF b, V
<1>6. 2 * o.x >= b /\ 2 * (o.x + b) <= 2 * V + b
  BY <1>3, <1>5
<1> QED BY <1>5, <1>6 DEF b, V

LEMMA BoxesApart ==
    ASSUME TreeInv, NEW seen, NEW r, Hangs(seen, r), NEW rows, NEW h, Rows(rows, seen, r, h),
           NEW o \in Nodes(rows), NEW p \in Nodes(rows), o # p
    PROVE  \/ Apart(o.x, p.x, BoxOf(o)[1] + BoxOf(p)[1])
           \/ Apart(o.y, p.y, BoxOf(o)[2] + BoxOf(p)[2])
<1>1. PICK k \in 1 .. h : \E i \in 1 .. Len(rows[k]) : o = Node(rows, k, i)
  BY NodesAre
<1>2. PICK i \in 1 .. Len(rows[k]) : o = Node(rows, k, i)
  BY <1>1
<1>3. PICK l \in 1 .. h : \E j \in 1 .. Len(rows[l]) : p = Node(rows, l, j)
  BY NodesAre
<1>4. PICK j \in 1 .. Len(rows[l]) : p = Node(rows, l, j)
  BY <1>3
<1>5. o.x = AtX(rows, k, i) /\ o.y = AtY(k) /\ p.x = AtX(rows, l, j) /\ p.y = AtY(l)
      /\ o.org = rows[k][i] /\ p.org = rows[l][j]
  BY <1>2, <1>4 DEF Node
<1>6. k \in Nat /\ l \in Nat /\ i \in Nat /\ j \in Nat
  BY DEF Rows
<1>7. CASE k # l
  <2> DEFINE a == BoxOf(o)[2]
             b == BoxOf(p)[2]
  <2>1. a \in 34 .. 86 /\ b \in 34 .. 86
    BY Sizes DEF BoxOf
  <2>2. o.y = 130 + (k - 1) * 158 /\ p.y = 130 + (l - 1) * 158
    BY <1>5 DEF AtY, MarginY, VerticalGap
  <2> HIDE DEF a, b
  <2>3. Apart(o.y, p.y, a + b)
    BY <1>6, <1>7, <2>1, <2>2 DEF Apart, AtLeast
  <2> QED BY <2>3 DEF a, b
<1>8. CASE k = l
  <2>1. i # j
    BY <1>2, <1>4, <1>8
  <2>2. k # 1
    <3> SUFFICES ASSUME k = 1 PROVE FALSE
      OBVIOUS
    <3>1. rows[k] = <<r>>
      BY DEF Rows, Stacked
    <3>2. Len(rows[k]) = 1
      BY <3>1
    <3>3. i \in 1 .. 1 /\ j \in 1 .. 1
      BY <1>8, <3>2
    <3> QED BY <2>1, <3>3
  <2>3. k \in 2 .. h
    BY <1>6, <2>2
  <2>4. ASSUME NEW n \in 1 .. Len(rows[k]) PROVE Tier(rows[k][n]) # 0
    <3>1. In(rows[k][n], rows[k]) /\ rows[k][n] \in seen
      BY DEF Rows, Descends, In
    <3>2. rows[k][n] # r
      <4> SUFFICES ASSUME rows[k][n] = r PROVE FALSE
        OBVIOUS
      <4>1. In(r, rows[1]) /\ 1 \in 1 .. h
        <5>1. h \in Nat \ {0} /\ Descends(rows, seen, r, h)
          BY DEF Rows
        <5> QED BY <5>1 DEF Descends
      <4>2. k = 1
        BY <3>1, <4>1 DEF Rows, Leveled
      <4> QED BY <2>2, <4>2
    <3>3. parent[rows[k][n]] \in seen /\ rows[k][n] \in Units
      BY <3>1, <3>2 DEF Hangs
    <3>4. parent[rows[k][n]] # Nobody
      BY <3>3 DEF Hangs, TreeInv, Nobody
    <3> QED BY <3>3, <3>4, LowerTier
  <2> DEFINE a == BoxOf(o)[1]
             b == BoxOf(p)[1]
  <2>5. Tier(o.org) # 0 /\ Tier(p.org) # 0
    BY <1>5, <1>8, <2>4
  <2>6. a \in 78 .. 158 /\ b \in 78 .. 158
    BY <2>5, LowerSizes DEF BoxOf
  <2>7. o.x \in Int /\ p.x = o.x + 172 * (j - i)
    BY <1>5, <1>8, NodesSpaced
  <2> HIDE DEF a, b
  <2>8. Apart(o.x, p.x, a + b)
    BY <1>6, <2>1, <2>6, <2>7 DEF Apart, AtLeast
  <2> QED BY <2>8 DEF a, b
<1> QED BY <1>7, <1>8

\* A line goes down one row, and lines of a row do not cross.
Goes(e, rows, h, k, i, j) ==
    /\ k \in 2 .. h /\ i \in 1 .. Len(rows[k]) /\ j \in 1 .. Len(rows[k - 1])
    /\ e.to = Node(rows, k, i) /\ e.from = Node(rows, k - 1, j)
    /\ parent[rows[k][i]] = rows[k - 1][j]

LEMMA EdgeRows ==
    ASSUME TreeInv, NEW seen, NEW r, Hangs(seen, r), NEW rows, NEW h, Rows(rows, seen, r, h),
           NEW e \in Edges(Nodes(rows))
    PROVE  \E k, i, j : Goes(e, rows, h, k, i, j)
<1>1. e.from \in Nodes(rows) /\ e.to \in Nodes(rows) /\ parent[e.to.org] = e.from.org
  BY DEF Edges
<1>2. PICK k \in 1 .. h : \E i \in 1 .. Len(rows[k]) : e.to = Node(rows, k, i)
  BY <1>1, NodesAre
<1>3. PICK i \in 1 .. Len(rows[k]) : e.to = Node(rows, k, i)
  BY <1>2
<1>4. PICK l \in 1 .. h : \E j \in 1 .. Len(rows[l]) : e.from = Node(rows, l, j)
  BY <1>1, NodesAre
<1>5. PICK j \in 1 .. Len(rows[l]) : e.from = Node(rows, l, j)
  BY <1>4
<1>6. e.to.org = rows[k][i] /\ e.from.org = rows[l][j]
  BY <1>3, <1>5 DEF Node
<1>7. In(rows[k][i], rows[k]) /\ In(rows[l][j], rows[l])
  BY DEF In
<1>8. rows[k][i] \in seen /\ rows[l][j] \in seen /\ parent[rows[k][i]] = rows[l][j]
  BY <1>1, <1>6, <1>7 DEF Rows, Descends
<1>9. k # 1
  <2> SUFFICES ASSUME k = 1 PROVE FALSE
    OBVIOUS
  <2>1. rows[k][i] = r
    BY <1>7 DEF Rows, Descends
  <2> QED BY <1>8, <2>1 DEF Hangs
<1>10. k \in 2 .. h /\ k - 1 \in 1 .. h
  <2>1. h \in Nat
    BY DEF Rows
  <2> QED BY <1>9, <2>1
<1>11. In(rows[l][j], rows[k - 1])
  BY <1>7, <1>8, <1>10 DEF Rows, Descends
<1>12. l = k - 1
  BY <1>7, <1>8, <1>10, <1>11 DEF Rows, Leveled
<1> QED BY <1>3, <1>5, <1>8, <1>10, <1>12 DEF Goes

LEMMA EdgePlace ==
    ASSUME NEW rows, NEW h \in Nat, NEW e, NEW k, NEW i, NEW j, Goes(e, rows, h, k, i, j)
    PROVE  /\ k \in Nat /\ i \in Nat /\ j \in Nat
           /\ e.to.y = 130 + (k - 1) * 158 /\ e.from.y = 130 + (k - 2) * 158
           /\ e.to.x = AtX(rows, k, i) /\ e.from.x = AtX(rows, k - 1, j)
<1>1. k \in Nat /\ i \in Nat /\ j \in Nat
  BY DEF Goes
<1>2. e.to.y = AtY(k) /\ e.from.y = AtY(k - 1) /\ e.to.x = AtX(rows, k, i) /\ e.from.x = AtX(rows, k - 1, j)
  BY DEF Goes, Node
<1>3. AtY(k) = 130 + (k - 1) * 158 /\ AtY(k - 1) = 130 + (k - 2) * 158
  BY <1>1 DEF AtY, MarginY, VerticalGap
<1> QED BY <1>1, <1>2, <1>3

LEMMA EdgesClear ==
    ASSUME TreeInv, NEW seen, NEW r, Hangs(seen, r), NEW rows, NEW h, Rows(rows, seen, r, h)
    PROVE  /\ \A e \in Edges(Nodes(rows)) : e.to.y = e.from.y + VerticalGap
           /\ \A e, f \in Edges(Nodes(rows)) :
                  e.to.y = f.to.y /\ e.from.x < f.from.x => e.to.x < f.to.x
<1> DEFINE E == Edges(Nodes(rows))
<1>1. \A e \in E : \E k, i, j : Goes(e, rows, h, k, i, j)
  BY EdgeRows
<1>2. h \in Nat
  BY DEF Rows
<1> HIDE DEF E
<1>3. ASSUME NEW e \in E PROVE e.to.y = e.from.y + VerticalGap
  <2>1. PICK k, i, j : Goes(e, rows, h, k, i, j)
    BY <1>1
  <2>2. k \in Nat /\ e.to.y = 130 + (k - 1) * 158 /\ e.from.y = 130 + (k - 2) * 158
    BY <1>2, <2>1, EdgePlace
  <2> QED BY <2>2 DEF VerticalGap
<1>4. ASSUME NEW e \in E, NEW f \in E, e.to.y = f.to.y, e.from.x < f.from.x
      PROVE  e.to.x < f.to.x
  <2>1. PICK k, i, j : Goes(e, rows, h, k, i, j)
    BY <1>1
  <2>2. PICK l, p, q : Goes(f, rows, h, l, p, q)
    BY <1>1
  <2>3. /\ k \in Nat /\ i \in Nat /\ j \in Nat /\ e.to.y = 130 + (k - 1) * 158
        /\ e.to.x = AtX(rows, k, i) /\ e.from.x = AtX(rows, k - 1, j)
    BY <1>2, <2>1, EdgePlace
  <2>4. /\ l \in Nat /\ p \in Nat /\ q \in Nat /\ f.to.y = 130 + (l - 1) * 158
        /\ f.to.x = AtX(rows, l, p) /\ f.from.x = AtX(rows, l - 1, q)
    BY <1>2, <2>2, EdgePlace
  <2>5. l = k
    <3>1. 130 + (k - 1) * 158 = 130 + (l - 1) * 158
      BY <1>4, <2>3, <2>4
    <3> QED BY <2>3, <2>4, <3>1
  <2>6. /\ k \in 2 .. h /\ k \in 1 .. h /\ k - 1 \in 1 .. h
        /\ i \in 1 .. Len(rows[k]) /\ j \in 1 .. Len(rows[k - 1])
        /\ p \in 1 .. Len(rows[k]) /\ q \in 1 .. Len(rows[k - 1])
        /\ parent[rows[k][i]] = rows[k - 1][j] /\ parent[rows[k][p]] = rows[k - 1][q]
    BY <1>2, <2>1, <2>2, <2>5 DEF Goes
  <2>7. AtX(rows, k - 1, q) = AtX(rows, k - 1, j) + 172 * (q - j) /\ AtX(rows, k - 1, j) \in Int
    <3>1. k - 1 \in 1 .. h /\ j \in 1 .. Len(rows[k - 1]) /\ q \in 1 .. Len(rows[k - 1])
      BY <2>6
    <3> QED BY <3>1, NodesSpaced
  <2>8. AtX(rows, k, p) = AtX(rows, k, i) + 172 * (p - i) /\ AtX(rows, k, i) \in Int
    <3>1. k \in 1 .. h /\ i \in 1 .. Len(rows[k]) /\ p \in 1 .. Len(rows[k])
      BY <2>6
    <3> QED BY <3>1, NodesSpaced
  <2>9. j < q
    <3>1. AtX(rows, k - 1, j) < AtX(rows, k - 1, q)
      BY <1>4, <2>3, <2>4, <2>5
    <3> QED BY <2>3, <2>4, <2>7, <3>1
  <2>10. Follows(rows[k], rows[k - 1])
    BY <2>6 DEF Rows, Stacked, Continues
  <2>11. i < p
    BY <2>6, <2>9, <2>10 DEF Follows
  <2>12. AtX(rows, k, i) < AtX(rows, k, p)
    BY <2>3, <2>4, <2>8, <2>11
  <2> QED BY <2>3, <2>4, <2>5, <2>12
<1> QED BY <1>3, <1>4 DEF E

\* What the dashboard draws for a user hangs below one unit.
LEMMA GraphHangs ==
    ASSUME TreeInv, NEW user \in Units \union {Nobody}
    PROVE  \E r : Hangs(GraphOrganizations(user), r)
<1> DEFINE r == IF user = Nobody THEN 1 ELSE user
           drawn(unit) == {u \in Children(unit) :
                              Cardinality({v \in Children(unit) : Before(v, u)}) < ChildLimit}
           graph == {r} \union drawn(r) \union UNION {drawn(u) : u \in drawn(r)}
<1>1. GraphOrganizations(user) = graph
  BY DEF GraphOrganizations
<1>2. r \in Units
  BY DEF TreeInv
<1>3. \A unit : drawn(unit) \subseteq Children(unit)
  OBVIOUS
<1>4. \A unit \in Units : \A u \in drawn(unit) : u \in Units /\ parent[u] = unit /\ unit < u
  <2> SUFFICES ASSUME NEW unit \in Units, NEW u \in drawn(unit)
               PROVE  u \in Units /\ parent[u] = unit /\ unit < u
    OBVIOUS
  <2>1. u \in Units /\ parent[u] = unit /\ unit # Nobody
    BY DEF Children, TreeInv, Nobody
  <2>2. unit \in 1 .. u - 1 /\ u \in Nat
    BY <2>1 DEF TreeInv
  <2> QED BY <2>1, <2>2
<1>5. \A u \in Units : u \in Nat
  BY DEF TreeInv
<1> HIDE DEF drawn, r
<1>6. \A u \in graph : u \in Units /\ r <= u /\ (u # r => parent[u] \in graph)
  <2> SUFFICES ASSUME NEW u \in graph
               PROVE  u \in Units /\ r <= u /\ (u # r => parent[u] \in graph)
    OBVIOUS
  <2>1. CASE u = r
    BY <1>2, <1>5, <2>1
  <2>2. CASE u \in drawn(r)
    <3>1. u \in Units /\ parent[u] = r /\ r < u
      BY <1>2, <1>4, <2>2
    <3> QED BY <1>2, <1>5, <3>1
  <2>3. ASSUME NEW v \in drawn(r), u \in drawn(v)
        PROVE  u \in Units /\ r <= u /\ (u # r => parent[u] \in graph)
    <3>1. v \in Units /\ r < v
      BY <1>2, <1>4
    <3>2. u \in Units /\ parent[u] = v /\ v < u
      BY <1>4, <2>3, <3>1
    <3>3. r <= u
      BY <1>2, <1>5, <3>1, <3>2
    <3> QED BY <3>2, <3>3
  <2> QED BY <2>1, <2>2, <2>3
<1>7. parent[r] \notin graph
  <2>1. parent[r] = Nobody \/ parent[r] \in 1 .. r - 1
    BY <1>2 DEF TreeInv
  <2>2. parent[r] \in Nat /\ parent[r] < r
    BY <1>2, <1>5, <2>1 DEF TreeInv, Nobody
  <2> QED BY <1>2, <1>5, <1>6, <2>2
<1>8. r \in graph
  OBVIOUS
<1> HIDE DEF graph
<1>9. Hangs(graph, r)
  BY <1>6, <1>7, <1>8 DEF Hangs
<1> QED BY <1>1, <1>9

\* In a tree of any size, for every user and any limit of drawn sub-units: each unit that is
\* drawn has one box inside the picture, a row below its parent's and joined to it; boxes do not
\* overlap, and lines do not cross.
THEOREM DrawingStaysClear == TreeSpec => []DrawingIsClear
<1>1. TreeInv => DrawingIsClear
  <2> SUFFICES ASSUME TreeInv, NEW user \in Units \union {Nobody}
               PROVE  LET seen == GraphOrganizations(user)
                          rows == Levels(seen)
                          nodes == Nodes(rows)
                          edges == Edges(nodes)
                      IN  /\ Cardinality(nodes) = Cardinality(seen) /\ {n.org : n \in nodes} = seen
                          /\ Cardinality(edges) + 1 = Cardinality(seen)
                          /\ \A e \in edges : e.to.y = e.from.y + VerticalGap
                          /\ \A n \in nodes :
                                 /\ 2 * n.x >= BoxOf(n)[1]
                                 /\ 2 * (n.x + BoxOf(n)[1]) <= 2 * ViewboxWidth(rows) + BoxOf(n)[1]
                                 /\ n.y <= ViewboxHeight(rows)
                          /\ \A n, o \in nodes : n # o =>
                                 \/ Apart(n.x, o.x, BoxOf(n)[1] + BoxOf(o)[1])
                                 \/ Apart(n.y, o.y, BoxOf(n)[2] + BoxOf(o)[2])
                          /\ \A e, f \in edges : e.to.y = f.to.y /\ e.from.x < f.from.x => e.to.x < f.to.x
    BY DEF DrawingIsClear, BoxOf, Apart
  <2> DEFINE seen == GraphOrganizations(user)
             rows == Levels(seen)
             nodes == Nodes(rows)
             edges == Edges(nodes)
  <2>1. PICK r : Hangs(seen, r)
    BY GraphHangs
  <2> HIDE DEF seen
  <2>2. PICK h : Rows(rows, seen, r, h)
    BY <2>1, LevelsAreRows
  <2> HIDE DEF rows
  <2>3. /\ Cardinality(nodes) = Cardinality(seen) /\ {n.org : n \in nodes} = seen
        /\ Cardinality(edges) + 1 = Cardinality(seen)
    BY <2>1, <2>2, NodesCount
  <2>4. /\ \A e \in edges : e.to.y = e.from.y + VerticalGap
        /\ \A e, f \in edges : e.to.y = f.to.y /\ e.from.x < f.from.x => e.to.x < f.to.x
    BY <2>1, <2>2, EdgesClear
  <2>5. \A n \in nodes : /\ 2 * n.x >= BoxOf(n)[1]
                         /\ 2 * (n.x + BoxOf(n)[1]) <= 2 * ViewboxWidth(rows) + BoxOf(n)[1]
                         /\ n.y <= ViewboxHeight(rows)
    BY <2>2, BoxesFit
  <2>6. \A n, o \in nodes : n # o => \/ Apart(n.x, o.x, BoxOf(n)[1] + BoxOf(o)[1])
                                    \/ Apart(n.y, o.y, BoxOf(n)[2] + BoxOf(o)[2])
    BY <2>1, <2>2, BoxesApart
  <2> HIDE DEF nodes, edges
  <2> QED BY <2>3, <2>4, <2>5, <2>6 DEF seen, rows, nodes, edges
<1> QED BY <1>1, TreeHangsTogether, PTL

-----------------------------------------------------------------------------
(* SheetText: the functions that read character by character.                *)

LEMMA EndsOfAppend ==
    ASSUME NEW S, NEW s \in Seq(S), NEW e \in S
    PROVE  Front(Append(s, e)) = s /\ Last(Append(s, e)) = e
<1> DEFINE t == Append(s, e)
<1>1. t \in Seq(S) /\ t # <<>>
  BY AppendProperties
<1>2. Front(t) \in Seq(S) /\ Last(t) \in S /\ t = Append(Front(t), Last(t))
  <2> HIDE DEF t
  <2> QED BY <1>1, FrontLast
<1> DEFINE f == Front(t)
           l == Last(t)
<1>3. f \in Seq(S) /\ l \in S /\ Append(s, e) = Append(f, l)
  BY <1>2
<1> HIDE DEF f, l
<1>4. s = f /\ e = l
  BY <1>3, AppendInjective
<1> QED BY <1>4 DEF f, l

\* Split after each of the first n characters.
Splits(f, s, sep, n) ==
    f = [i \in 0 .. n |-> IF i = 0 THEN << <<>> >> ELSE Cut(f[i - 1], s[i], sep)]

LEMMA SplitsExist ==
    ASSUME NEW s, NEW sep, NEW n \in Nat
    PROVE  \E f : Splits(f, s, sep, n)
<1> DEFINE H == {k \in Nat : \E f : Splits(f, s, sep, k)}
<1>1. 0 \in H
  <2>1. Splits([i \in 0 .. 0 |-> << <<>> >>], s, sep, 0)
    BY DEF Splits
  <2> QED BY <2>1
<1>2. ASSUME NEW k \in H PROVE k + 1 \in H
  <2>1. PICK f : Splits(f, s, sep, k)
    BY <1>2
  <2> DEFINE g == [i \in 0 .. k + 1 |-> IF i = k + 1 THEN Cut(f[k], s[k + 1], sep) ELSE f[i]]
  <2>2. k \in Nat /\ k + 1 \in Nat
    BY <1>2
  <2>3. f = [i \in 0 .. k |-> IF i = 0 THEN << <<>> >> ELSE Cut(f[i - 1], s[i], sep)]
    BY <2>1 DEF Splits
  <2>4. ASSUME NEW i \in 0 .. k + 1
        PROVE  g[i] = IF i = 0 THEN << <<>> >> ELSE Cut(g[i - 1], s[i], sep)
    <3>1. CASE i = k + 1
      <4>1. i # 0 /\ i - 1 = k /\ i - 1 \in 0 .. k + 1 /\ i - 1 # k + 1
        BY <2>2, <3>1
      <4>2. g[i] = Cut(f[k], s[k + 1], sep) /\ g[i - 1] = f[i - 1]
        BY <3>1, <4>1
      <4> QED BY <3>1, <4>1, <4>2
    <3>2. CASE i # k + 1
      <4>1. i \in 0 .. k /\ g[i] = f[i]
        BY <2>2, <3>2
      <4>2. f[i] = IF i = 0 THEN << <<>> >> ELSE Cut(f[i - 1], s[i], sep)
        BY <2>3, <4>1, Zenon
      <4>3. i # 0 => g[i - 1] = f[i - 1]
        BY <2>2, <4>1
      <4> QED BY <4>1, <4>2, <4>3
    <3> QED BY <3>1, <3>2
  <2>5. Splits(g, s, sep, k + 1)
    <3>1. g = [i \in 0 .. k + 1 |-> g[i]]
      OBVIOUS
    <3> HIDE DEF g
    <3> QED BY <2>4, <3>1 DEF Splits
  <2> QED BY <2>2, <2>5
<1>3. H \in SUBSET Nat
  OBVIOUS
<1>4. H = Nat
  <2> HIDE DEF H
  <2> QED BY <1>1, <1>2, <1>3, AllNumbers
<1>5. n \in H
  BY <1>4
<1> QED BY <1>5

LEMMA SplitsAgree ==
    ASSUME NEW s, NEW t, NEW sep, NEW n \in Nat, NEW m \in Nat, n <= m, Agrees(s, t, n),
           NEW f, NEW g, Splits(f, s, sep, n), Splits(g, t, sep, m)
    PROVE  f[n] = g[n]
<1> DEFINE H == {k \in Nat : k <= n => f[k] = g[k]}
<1>0. /\ \A i \in 0 .. n : f[i] = IF i = 0 THEN << <<>> >> ELSE Cut(f[i - 1], s[i], sep)
      /\ \A i \in 0 .. m : g[i] = IF i = 0 THEN << <<>> >> ELSE Cut(g[i - 1], t[i], sep)
  <2>1. /\ f = [i \in 0 .. n |-> IF i = 0 THEN << <<>> >> ELSE Cut(f[i - 1], s[i], sep)]
        /\ g = [i \in 0 .. m |-> IF i = 0 THEN << <<>> >> ELSE Cut(g[i - 1], t[i], sep)]
    BY DEF Splits
  <2>2. \A i \in 0 .. n : f[i] = IF i = 0 THEN << <<>> >> ELSE Cut(f[i - 1], s[i], sep)
    BY <2>1, Zenon
  <2>3. \A i \in 0 .. m : g[i] = IF i = 0 THEN << <<>> >> ELSE Cut(g[i - 1], t[i], sep)
    BY <2>1, Zenon
  <2> QED BY <2>2, <2>3
<1>1. 0 \in H
  BY <1>0
<1>2. ASSUME NEW k \in H PROVE k + 1 \in H
  <2> SUFFICES ASSUME k + 1 <= n PROVE f[k + 1] = g[k + 1]
    BY <1>2
  <2>1. k \in Nat /\ f[k] = g[k] /\ k + 1 \in 0 .. n /\ k + 1 \in 0 .. m /\ k + 1 # 0
        /\ (k + 1) - 1 = k /\ k + 1 \in 1 .. n
    BY <1>2
  <2>2. f[k + 1] = Cut(f[(k + 1) - 1], s[k + 1], sep) /\ g[k + 1] = Cut(g[(k + 1) - 1], t[k + 1], sep)
    BY <1>0, <2>1
  <2>3. s[k + 1] = t[k + 1]
    BY <2>1 DEF Agrees
  <2> QED BY <2>1, <2>2, <2>3
<1>3. H \in SUBSET Nat
  OBVIOUS
<1>4. H = Nat
  <2> HIDE DEF H
  <2> QED BY <1>1, <1>2, <1>3, AllNumbers
<1>5. n \in H
  BY <1>4
<1> QED BY <1>5

LEMMA SplitIs ==
    ASSUME NEW s, NEW sep, Len(s) \in Nat
    PROVE  \E f : Splits(f, s, sep, Len(s)) /\ Split(s, sep) = f[Len(s)]
<1> DEFINE N == Len(s)
           Body(f) == f = [i \in 0 .. N |-> IF i = 0 THEN << <<>> >> ELSE Cut(f[i - 1], s[i], sep)]
           c == CHOOSE f : Body(f)
<1>1. Split(s, sep) = c[N]
  BY DEF Split
<1>2. \E f : Splits(f, s, sep, N)
  BY SplitsExist
<1>3. \E f : Body(f)
  BY <1>2 DEF Splits
<1>4. Body(c)
  <2> HIDE DEF Body
  <2> QED BY <1>3, Zenon
<1>5. Splits(c, s, sep, N)
  BY <1>4 DEF Splits
<1> QED BY <1>1, <1>5

LEMMA SplitNone == ASSUME NEW sep PROVE Split(<<>>, sep) = << <<>> >>
<1>1. Len(<<>>) = 0 /\ Len(<<>>) \in Nat
  OBVIOUS
<1>2. PICK f : Splits(f, <<>>, sep, 0) /\ Split(<<>>, sep) = f[0]
  BY <1>1, SplitIs
<1>3. f = [i \in 0 .. 0 |-> IF i = 0 THEN << <<>> >> ELSE Cut(f[i - 1], <<>>[i], sep)]
  BY <1>2 DEF Splits
<1>4. f[0] = << <<>> >>
  BY <1>3
<1> QED BY <1>2, <1>4

LEMMA SplitAppend ==
    ASSUME NEW S, NEW s \in Seq(S), NEW e \in S, NEW sep
    PROVE  Split(Append(s, e), sep) = Cut(Split(s, sep), e, sep)
<1> DEFINE t == Append(s, e)
           n == Len(s)
           m == n + 1
<1>1. t \in Seq(S) /\ Len(t) = m /\ n \in Nat /\ m \in Nat /\ n <= m /\ t[m] = e
  BY AppendProperties
<1>2. Agrees(s, t, n)
  BY AppendProperties DEF Agrees
<1>3. PICK f : Splits(f, s, sep, n) /\ Split(s, sep) = f[n]
  BY <1>1, SplitIs
<1>4. PICK g : Splits(g, t, sep, m) /\ Split(t, sep) = g[m]
  <2>1. Len(t) \in Nat
    BY <1>1
  <2> HIDE DEF t, m
  <2> QED BY <1>1, <2>1, SplitIs
<1>5. f[n] = g[n]
  <2> HIDE DEF t, n, m
  <2> QED BY <1>1, <1>2, <1>3, <1>4, SplitsAgree
<1>6. g[m] = Cut(g[m - 1], t[m], sep)
  <2>1. g = [i \in 0 .. m |-> IF i = 0 THEN << <<>> >> ELSE Cut(g[i - 1], t[i], sep)]
    BY <1>4 DEF Splits
  <2>2. m \in 0 .. m /\ m # 0
    BY <1>1
  <2>3. g[m] = IF m = 0 THEN << <<>> >> ELSE Cut(g[m - 1], t[m], sep)
    <3> HIDE DEF m, t
    <3> QED BY <2>1, <2>2, Zenon
  <2> QED BY <2>2, <2>3
<1>7. m - 1 = n
  BY <1>1
<1> QED BY <1>1, <1>3, <1>4, <1>5, <1>6, <1>7

Unread == [out |-> <<>>, open |-> FALSE]

\* What was read after each of the first n characters.
Reads(f, s, n) ==
    f = [i \in 0 .. n |-> IF i = 0 THEN Unread ELSE Read(f[i - 1], s[i])]

LEMMA ReadsExist ==
    ASSUME NEW s, NEW n \in Nat
    PROVE  \E f : Reads(f, s, n)
<1> DEFINE H == {k \in Nat : \E f : Reads(f, s, k)}
<1>1. 0 \in H
  <2>1. Reads([i \in 0 .. 0 |-> Unread], s, 0)
    BY DEF Reads
  <2> QED BY <2>1
<1>2. ASSUME NEW k \in H PROVE k + 1 \in H
  <2>1. PICK f : Reads(f, s, k)
    BY <1>2
  <2> DEFINE g == [i \in 0 .. k + 1 |-> IF i = k + 1 THEN Read(f[k], s[k + 1]) ELSE f[i]]
  <2>2. k \in Nat /\ k + 1 \in Nat
    BY <1>2
  <2>3. f = [i \in 0 .. k |-> IF i = 0 THEN Unread ELSE Read(f[i - 1], s[i])]
    BY <2>1 DEF Reads
  <2>4. ASSUME NEW i \in 0 .. k + 1
        PROVE  g[i] = IF i = 0 THEN Unread ELSE Read(g[i - 1], s[i])
    <3>1. CASE i = k + 1
      <4>1. i # 0 /\ i - 1 = k /\ i - 1 \in 0 .. k + 1 /\ i - 1 # k + 1
        BY <2>2, <3>1
      <4>2. g[i] = Read(f[k], s[k + 1]) /\ g[i - 1] = f[i - 1]
        BY <3>1, <4>1
      <4> QED BY <3>1, <4>1, <4>2
    <3>2. CASE i # k + 1
      <4>1. i \in 0 .. k /\ g[i] = f[i]
        BY <2>2, <3>2
      <4>2. f[i] = IF i = 0 THEN Unread ELSE Read(f[i - 1], s[i])
        BY <2>3, <4>1, Zenon
      <4>3. i # 0 => g[i - 1] = f[i - 1]
        BY <2>2, <4>1
      <4> QED BY <4>1, <4>2, <4>3
    <3> QED BY <3>1, <3>2
  <2>5. Reads(g, s, k + 1)
    <3>1. g = [i \in 0 .. k + 1 |-> g[i]]
      OBVIOUS
    <3> HIDE DEF g
    <3> QED BY <2>4, <3>1 DEF Reads
  <2> QED BY <2>2, <2>5
<1>3. H \in SUBSET Nat
  OBVIOUS
<1>4. H = Nat
  <2> HIDE DEF H
  <2> QED BY <1>1, <1>2, <1>3, AllNumbers
<1>5. n \in H
  BY <1>4
<1> QED BY <1>5

LEMMA ReadsAgree ==
    ASSUME NEW s, NEW t, NEW n \in Nat, NEW m \in Nat, n <= m, Agrees(s, t, n),
           NEW f, NEW g, Reads(f, s, n), Reads(g, t, m)
    PROVE  f[n] = g[n]
<1> DEFINE H == {k \in Nat : k <= n => f[k] = g[k]}
<1>0. /\ \A i \in 0 .. n : f[i] = IF i = 0 THEN Unread ELSE Read(f[i - 1], s[i])
      /\ \A i \in 0 .. m : g[i] = IF i = 0 THEN Unread ELSE Read(g[i - 1], t[i])
  <2>1. /\ f = [i \in 0 .. n |-> IF i = 0 THEN Unread ELSE Read(f[i - 1], s[i])]
        /\ g = [i \in 0 .. m |-> IF i = 0 THEN Unread ELSE Read(g[i - 1], t[i])]
    BY DEF Reads
  <2>2. \A i \in 0 .. n : f[i] = IF i = 0 THEN Unread ELSE Read(f[i - 1], s[i])
    BY <2>1, Zenon
  <2>3. \A i \in 0 .. m : g[i] = IF i = 0 THEN Unread ELSE Read(g[i - 1], t[i])
    BY <2>1, Zenon
  <2> QED BY <2>2, <2>3
<1>1. 0 \in H
  BY <1>0
<1>2. ASSUME NEW k \in H PROVE k + 1 \in H
  <2> SUFFICES ASSUME k + 1 <= n PROVE f[k + 1] = g[k + 1]
    BY <1>2
  <2>1. k \in Nat /\ f[k] = g[k] /\ k + 1 \in 0 .. n /\ k + 1 \in 0 .. m /\ k + 1 # 0
        /\ (k + 1) - 1 = k /\ k + 1 \in 1 .. n
    BY <1>2
  <2>2. f[k + 1] = Read(f[(k + 1) - 1], s[k + 1]) /\ g[k + 1] = Read(g[(k + 1) - 1], t[k + 1])
    BY <1>0, <2>1
  <2>3. s[k + 1] = t[k + 1]
    BY <2>1 DEF Agrees
  <2> QED BY <2>1, <2>2, <2>3
<1>3. H \in SUBSET Nat
  OBVIOUS
<1>4. H = Nat
  <2> HIDE DEF H
  <2> QED BY <1>1, <1>2, <1>3, AllNumbers
<1>5. n \in H
  BY <1>4
<1> QED BY <1>5

LEMMA ReadIs ==
    ASSUME NEW s, Len(s) \in Nat
    PROVE  \E f : Reads(f, s, Len(s)) /\ ReadAll(s) = f[Len(s)]
<1> DEFINE N == Len(s)
           Body(f) == f = [i \in 0 .. N |-> IF i = 0 THEN Unread ELSE Read(f[i - 1], s[i])]
           c == CHOOSE f : Body(f)
<1>1. ReadAll(s) = c[N]
  BY DEF ReadAll, Unread
<1>2. \E f : Reads(f, s, N)
  BY ReadsExist
<1>3. \E f : Body(f)
  BY <1>2 DEF Reads
<1>4. Body(c)
  <2> HIDE DEF Body
  <2> QED BY <1>3, Zenon
<1>5. Reads(c, s, N)
  BY <1>4 DEF Reads
<1> QED BY <1>1, <1>5

LEMMA ReadNone == ReadAll(<<>>) = Unread
<1>1. Len(<<>>) = 0 /\ Len(<<>>) \in Nat
  OBVIOUS
<1>2. PICK f : Reads(f, <<>>, 0) /\ ReadAll(<<>>) = f[0]
  BY <1>1, ReadIs
<1>3. f = [i \in 0 .. 0 |-> IF i = 0 THEN Unread ELSE Read(f[i - 1], <<>>[i])]
  BY <1>2 DEF Reads
<1>4. f[0] = Unread
  BY <1>3
<1> QED BY <1>2, <1>4

LEMMA ReadAppend ==
    ASSUME NEW S, NEW s \in Seq(S), NEW e \in S
    PROVE  ReadAll(Append(s, e)) = Read(ReadAll(s), e)
<1> DEFINE t == Append(s, e)
           n == Len(s)
           m == n + 1
<1>1. t \in Seq(S) /\ Len(t) = m /\ n \in Nat /\ m \in Nat /\ n <= m /\ t[m] = e
  BY AppendProperties
<1>2. Agrees(s, t, n)
  BY AppendProperties DEF Agrees
<1>3. PICK f : Reads(f, s, n) /\ ReadAll(s) = f[n]
  BY <1>1, ReadIs
<1>4. PICK g : Reads(g, t, m) /\ ReadAll(t) = g[m]
  <2>1. Len(t) \in Nat
    BY <1>1
  <2> HIDE DEF t, m
  <2> QED BY <1>1, <2>1, ReadIs
<1>5. f[n] = g[n]
  <2> HIDE DEF t, n, m
  <2> QED BY <1>1, <1>2, <1>3, <1>4, ReadsAgree
<1>6. g[m] = Read(g[m - 1], t[m])
  <2>1. g = [i \in 0 .. m |-> IF i = 0 THEN Unread ELSE Read(g[i - 1], t[i])]
    BY <1>4 DEF Reads
  <2>2. m \in 0 .. m /\ m # 0
    BY <1>1
  <2>3. g[m] = IF m = 0 THEN Unread ELSE Read(g[m - 1], t[m])
    <3> HIDE DEF m, t
    <3> QED BY <2>1, <2>2, Zenon
  <2> QED BY <2>2, <2>3
<1>7. m - 1 = n
  BY <1>1
<1> QED BY <1>1, <1>3, <1>4, <1>5, <1>6, <1>7

-----------------------------------------------------------------------------
(* SheetText: line ends and escapes.                                         *)

\* What becomes of e behind s.
LinePiece(s, e) ==
    IF e = CR THEN <<NL>> ELSE IF e = NL /\ s # <<>> /\ Last(s) = CR THEN <<>> ELSE <<e>>
LinePieces(s) ==
    [i \in DOMAIN s |->
        IF s[i] = CR THEN <<NL>> ELSE IF s[i] = NL /\ i > 1 /\ s[i - 1] = CR THEN <<>> ELSE <<s[i]>>]

LEMMA LinePiecesAre ==
    ASSUME NEW S, NEW s \in Seq(S)
    PROVE  LinePieces(s) \in Seq(Seq((S \ {CR}) \union {NL})) /\ Len(LinePieces(s)) = Len(s)
<1> DEFINE Q == Seq((S \ {CR}) \union {NL})
<1>1. DOMAIN s = 1 .. Len(s) /\ Len(s) \in Nat /\ \A i \in 1 .. Len(s) : s[i] \in S
  OBVIOUS
<1>2. ASSUME NEW i \in 1 .. Len(s)
      PROVE  (IF s[i] = CR THEN <<NL>> ELSE IF s[i] = NL /\ i > 1 /\ s[i - 1] = CR THEN <<>> ELSE <<s[i]>>) \in Q
  <2>1. <<NL>> \in Q /\ <<>> \in Q
    BY EmptySeq
  <2>2. s[i] # CR => <<s[i]>> \in Q
    BY <1>1
  <2> HIDE DEF Q
  <2> QED BY <2>1, <2>2
<1>3. LinePieces(s) = [i \in 1 .. Len(s) |->
          IF s[i] = CR THEN <<NL>> ELSE IF s[i] = NL /\ i > 1 /\ s[i - 1] = CR THEN <<>> ELSE <<s[i]>>]
  BY <1>1 DEF LinePieces
<1> HIDE DEF Q
<1>4. LinePieces(s) \in [1 .. Len(s) -> Q]
  BY <1>2, <1>3
<1>5. LinePieces(s) \in Seq(Q) /\ Len(LinePieces(s)) = Len(s)
  BY <1>1, <1>4
<1> QED BY <1>5 DEF Q

LEMMA NewlinesType ==
    ASSUME NEW S, NEW s \in Seq(S)
    PROVE  Newlines(s) \in Seq((S \ {CR}) \union {NL})
<1> DEFINE V == (S \ {CR}) \union {NL}
<1>1. LinePieces(s) \in Seq(Seq(V))
  BY LinePiecesAre
<1>2. FlattenSeq(LinePieces(s)) \in Seq(V)
  <2> HIDE DEF V
  <2> QED BY <1>1, FlattenType
<1> QED BY <1>2 DEF Newlines, LinePieces

LEMMA NewlinesNone == Newlines(<<>>) = <<>>
<1>1. LinePieces(<<>>) = <<>>
  BY DEF LinePieces
<1> QED BY <1>1, FlattenNone DEF Newlines, LinePieces

LEMMA NewlinesAppend ==
    ASSUME NEW S, NEW s \in Seq(S), NEW e \in S
    PROVE  Newlines(Append(s, e)) = Newlines(s) \o LinePiece(s, e)
<1> DEFINE V == (S \ {CR}) \union {NL}
           Q == Seq(V)
           t == Append(s, e)
           n == Len(s)
           x == LinePieces(s)
           y == LinePieces(t)
           p == LinePiece(s, e)
<1>1. /\ t \in Seq(S) /\ Len(t) = n + 1 /\ n \in Nat /\ t[n + 1] = e /\ DOMAIN t = 1 .. n + 1
      /\ \A i \in 1 .. n : t[i] = s[i]
  BY AppendProperties
<1>2. x \in Seq(Q) /\ Len(x) = n
  BY LinePiecesAre
<1>3. y \in Seq(Q) /\ Len(y) = n + 1
  <2>1. LinePieces(t) \in Seq(Seq((S \ {CR}) \union {NL})) /\ Len(LinePieces(t)) = Len(t)
    <3> HIDE DEF t
    <3> QED BY <1>1, LinePiecesAre
  <2> QED BY <1>1, <2>1
<1>4. \A i \in 1 .. n : y[i] = x[i]
  <2> TAKE i \in 1 .. n
  <2>1. i \in DOMAIN s /\ i \in DOMAIN t /\ t[i] = s[i] /\ (i > 1 => t[i - 1] = s[i - 1])
    <3>1. i > 1 => i - 1 \in 1 .. n
      BY <1>1
    <3>2. i \in DOMAIN s /\ i \in DOMAIN t
      BY <1>1
    <3> QED BY <1>1, <3>1, <3>2
  <2> HIDE DEF t, n
  <2> QED BY <2>1 DEF LinePieces
<1>5. y[n + 1] = p
  <2>1. n + 1 \in DOMAIN t /\ t[n + 1] = e /\ (n + 1 > 1 <=> s # <<>>) /\ (n + 1) - 1 = n
        /\ (n + 1 > 1 => t[n] = s[n])
    <3>1. n # 0 => n \in 1 .. n
      BY <1>1
    <3>2. n = 0 <=> s = <<>>
      BY <1>1, EmptySeq
    <3> QED BY <1>1, <3>1, <3>2
  <2>2. y[n + 1] = IF t[n + 1] = CR THEN <<NL>>
                   ELSE IF t[n + 1] = NL /\ n + 1 > 1 /\ t[(n + 1) - 1] = CR THEN <<>> ELSE <<t[n + 1]>>
    BY <2>1 DEF LinePieces
  <2> HIDE DEF t, y
  <2> QED BY <2>1, <2>2 DEF LinePiece, Last
<1>6. p \in Q
  <2>1. <<NL>> \in Q /\ <<>> \in Q
    BY EmptySeq
  <2>2. e # CR => <<e>> \in Q
    OBVIOUS
  <2> HIDE DEF Q
  <2> QED BY <2>1, <2>2 DEF LinePiece
<1> HIDE DEF x, y, p, Q
<1>7. y = Append(x, p)
  <2>1. /\ Append(x, p) \in Seq(Q) /\ Len(Append(x, p)) = n + 1 /\ Append(x, p)[n + 1] = p
        /\ \A i \in 1 .. n : Append(x, p)[i] = x[i]
    BY <1>2, <1>6, AppendProperties
  <2>2. \A i \in 1 .. n + 1 : y[i] = Append(x, p)[i]
    <3> TAKE i \in 1 .. n + 1
    <3>1. i = n + 1 \/ i \in 1 .. n
      BY <1>1
    <3> QED BY <1>4, <1>5, <2>1, <3>1
  <2> HIDE DEF n
  <2> QED BY <1>3, <2>1, <2>2, SeqEqual
<1>8. FlattenSeq(Append(x, p)) = FlattenSeq(x) \o p
  BY <1>2, <1>6, FlattenAppend DEF Q
<1>9. Newlines(t) = FlattenSeq(y) /\ Newlines(s) = FlattenSeq(x)
  BY DEF Newlines, LinePieces, x, y
<1> QED BY <1>7, <1>8, <1>9 DEF p

\* Text without returns stays.
LEMMA NewlinesSame ==
    ASSUME NEW S, CR \notin S, NEW s \in Seq(S)
    PROVE  Newlines(s) = s
<1> DEFINE T == {t \in Seq(S) : Newlines(t) = t}
<1>1. <<>> \in T
  BY EmptySeq, NewlinesNone
<1>2. ASSUME NEW t \in T, NEW e \in S PROVE Append(t, e) \in T
  <2>1. t \in Seq(S) /\ Newlines(t) = t /\ Append(t, e) \in Seq(S)
    BY AppendProperties
  <2>2. Newlines(Append(t, e)) = Newlines(t) \o LinePiece(t, e)
    BY <2>1, NewlinesAppend
  <2>3. t # <<>> => Last(t) \in S
    BY <2>1, FrontLast
  <2>4. LinePiece(t, e) = <<e>>
    BY <2>3 DEF LinePiece
  <2>5. Append(t, e) = t \o <<e>>
    BY <2>1, AppendIsConcat
  <2> QED BY <2>1, <2>2, <2>4, <2>5
<1>3. T \in SUBSET Seq(S)
  OBVIOUS
<1>4. s \in T
  <2> HIDE DEF T
  <2> QED BY <1>1, <1>2, <1>3, AllSequences
<1> QED BY <1>4

\* The escapes as functions; what is written holds no breaks.
Doubles == [c \in Chars |-> Doubled(c)]
Breaks == [c \in Chars |-> Broken(c)]
Escapes == [c \in Chars |-> IF c = BS THEN Doubled(c) ELSE Broken(c)]
Tidy == Chars \ {CR}
Marks == Chars \union {"t"}
Plain == Marks \ {TAB, NL, CR}

LEMMA CharsAre ==
    /\ NL \in Chars /\ TAB \in Chars /\ BS \in Chars /\ SPACE \in Chars
    /\ COMMA \in Chars /\ SEMICOLON \in Chars
    /\ {BS, "n", "t"} \subseteq Marks \ {NL, TAB, CR, SPACE, COMMA, SEMICOLON}
    /\ SPACE \notin {NL, TAB, CR, BS} /\ COMMA \notin {NL, TAB, CR, BS}
    /\ SEMICOLON \notin {NL, TAB, CR, BS}
BY DEF Chars, Marks, NL, TAB, CR, BS, SPACE, COMMA, SEMICOLON

LEMMA EscapesType ==
    /\ Doubles \in [Chars -> Seq(Chars)] /\ Breaks \in [Chars -> Seq(Marks)]
    /\ Escapes \in [Chars -> Seq(Marks)]
<1>1. ASSUME NEW c \in Chars
      PROVE  Doubled(c) \in Seq(Chars) /\ Doubled(c) \in Seq(Marks) /\ Broken(c) \in Seq(Marks)
  <2>1. BS \in Chars /\ BS \in Marks /\ "n" \in Marks /\ "t" \in Marks /\ c \in Marks
    BY CharsAre DEF Marks
  <2> QED BY <2>1 DEF Doubled, Broken
<1> QED BY <1>1 DEF Doubles, Breaks, Escapes

LEMMA EscapesPlain == \A c \in Tidy : Escapes[c] \in Seq(Plain)
<1> TAKE c \in Tidy
<1>1. c \in Chars /\ BS \in Plain /\ "n" \in Plain /\ "t" \in Plain /\ (c # NL /\ c # TAB => c \in Plain)
  BY CharsAre DEF Tidy, Plain, Marks
<1>2. Doubled(c) \in Seq(Plain) \/ c # BS
  BY <1>1 DEF Doubled
<1>3. Broken(c) \in Seq(Plain)
  BY <1>1 DEF Broken
<1> QED BY <1>1, <1>2, <1>3 DEF Escapes

\* A function of only those elements that occur.
LEMMA FlatMapInto ==
    ASSUME NEW A, NEW B, NEW f, \A a \in A : f[a] \in Seq(B), NEW s \in Seq(A)
    PROVE  FlatMap(s, f) \in Seq(B)
<1> DEFINE g == [a \in A |-> f[a]]
<1>1. g \in [A -> Seq(B)]
  OBVIOUS
<1>2. \A i \in DOMAIN s : s[i] \in A
  OBVIOUS
<1>3. Mapped(s, g) = Mapped(s, f)
  BY <1>2 DEF Mapped
<1>4. FlatMap(s, g) \in Seq(B)
  <2> HIDE DEF g
  <2> QED BY <1>1, FlatMapType
<1> QED BY <1>3, <1>4 DEF FlatMap

LEMMA TidyIs == (Chars \ {CR}) \union {NL} = Tidy /\ Tidy \subseteq Chars /\ CR \notin Tidy
<1>1. NL \in Chars /\ NL # CR
  BY CharsAre DEF NL, CR
<1> QED BY <1>1 DEF Tidy

LEMMA CellIsTidy ==
    ASSUME NEW cell \in Seq(Chars)
    PROVE  Newlines(cell) \in Seq(Tidy) /\ Newlines(cell) \in Seq(Chars)
<1>1. Newlines(cell) \in Seq((Chars \ {CR}) \union {NL})
  BY NewlinesType
<1>2. Newlines(cell) \in Seq(Tidy)
  BY <1>1, TidyIs
<1> QED BY <1>2, TidyIs, SeqMonotonic

LEMMA PreviewCellIs ==
    ASSUME NEW cell \in Seq(Chars)
    PROVE  EscapePreviewCell(cell) = FlatMap(Newlines(cell), Escapes)
<1> DEFINE t == Newlines(cell)
<1>1. t \in Seq(Chars)
  BY CellIsTidy
<1> HIDE DEF t
<1>2. \A i \in DOMAIN t : t[i] \in Chars
  BY <1>1
<1>3. [i \in DOMAIN t |-> IF t[i] = BS THEN Doubled(t[i]) ELSE Broken(t[i])] = Mapped(t, Escapes)
  BY <1>2 DEF Mapped, Escapes
<1> QED BY <1>3 DEF EscapePreviewCell, FlatMap, t

\* The line ends and the backslashes do not meet.
Mirrors(s, d) == (s = <<>> <=> d = <<>>) /\ (s # <<>> => Last(s) = Last(d))

LEMMA LinePieceSame ==
    ASSUME NEW s, NEW d, Mirrors(s, d), NEW e
    PROVE  LinePiece(d, e) = LinePiece(s, e)
BY DEF Mirrors, LinePiece

LEMMA OneMapped ==
    ASSUME NEW A, NEW B, NEW f \in [A -> Seq(B)], NEW e \in A
    PROVE  FlatMap(<<e>>, f) = f[e]
<1>1. <<>> \in Seq(A) /\ Append(<<>>, e) = <<e>> /\ f[e] \in Seq(B)
  BY EmptySeq
<1>2. FlatMap(Append(<<>>, e), f) = FlatMap(<<>>, f) \o f[e]
  BY <1>1, FlatMapAppend
<1>3. <<>> \o f[e] = f[e]
  BY <1>1, ConcatEmptySeq
<1> QED BY <1>1, <1>2, <1>3, FlatMapNone

LEMMA TwoOf ==
    ASSUME NEW S, NEW e \in S
    PROVE  <<e>> \in Seq(S) /\ <<e, e>> = Append(<<e>>, e)
OBVIOUS

LEMMA AppendTwice ==
    ASSUME NEW S, NEW s \in Seq(S), NEW e \in S
    PROVE  s \o <<e, e>> = Append(Append(s, e), e) /\ s \o <<e>> = Append(s, e)
<1>1. <<e>> \in Seq(S) /\ <<e, e>> = Append(<<e>>, e)
  BY TwoOf
<1>2. s \o Append(<<e>>, e) = Append(s \o <<e>>, e)
  BY <1>1, AppendToConcat, SMTT(30)
<1>3. s \o <<e>> = Append(s, e)
  BY AppendIsConcat
<1> QED BY <1>1, <1>2, <1>3

\* The three functions, over one more character and over two texts.
LEMMA OneMore ==
    ASSUME NEW t \in Seq(Chars), NEW e \in Chars
    PROVE  /\ FlatMap(Append(t, e), Doubles) = FlatMap(t, Doubles) \o Doubles[e]
           /\ FlatMap(Append(t, e), Breaks) = FlatMap(t, Breaks) \o Breaks[e]
           /\ FlatMap(Append(t, e), Escapes) = FlatMap(t, Escapes) \o Escapes[e]
           /\ FlatMap(t, Doubles) \in Seq(Chars) /\ FlatMap(t, Escapes) \in Seq(Marks)
<1>1. Doubles \in [Chars -> Seq(Chars)] /\ Breaks \in [Chars -> Seq(Marks)]
      /\ Escapes \in [Chars -> Seq(Marks)]
  BY EscapesType
<1>2. /\ FlatMap(Append(t, e), Doubles) = FlatMap(t, Doubles) \o Doubles[e]
      /\ FlatMap(t, Doubles) \in Seq(Chars)
  BY <1>1, FlatMapAppend, FlatMapType
<1>3. FlatMap(Append(t, e), Breaks) = FlatMap(t, Breaks) \o Breaks[e]
  BY <1>1, FlatMapAppend
<1>4. /\ FlatMap(Append(t, e), Escapes) = FlatMap(t, Escapes) \o Escapes[e]
      /\ FlatMap(t, Escapes) \in Seq(Marks)
  BY <1>1, FlatMapAppend, FlatMapType
<1> QED BY <1>2, <1>3, <1>4

LEMMA OneCharacter ==
    ASSUME NEW e \in Chars
    PROVE  FlatMap(<<e>>, Doubles) = Doubles[e] /\ FlatMap(<<e>>, Breaks) = Breaks[e]
<1>1. Doubles \in [Chars -> Seq(Chars)] /\ Breaks \in [Chars -> Seq(Marks)]
  BY EscapesType
<1>2. FlatMap(<<e>>, Doubles) = Doubles[e]
  BY <1>1, OneMapped
<1>3. FlatMap(<<e>>, Breaks) = Breaks[e]
  BY <1>1, OneMapped
<1> QED BY <1>2, <1>3

LEMMA TwoTexts ==
    ASSUME NEW s \in Seq(Chars), NEW t \in Seq(Chars)
    PROVE  /\ FlatMap(s \o t, Doubles) = FlatMap(s, Doubles) \o FlatMap(t, Doubles)
           /\ FlatMap(s \o t, Breaks) = FlatMap(s, Breaks) \o FlatMap(t, Breaks)
           /\ FlatMap(s \o t, Escapes) = FlatMap(s, Escapes) \o FlatMap(t, Escapes)
<1>1. FlatMap(s \o t, Doubles) = FlatMap(s, Doubles) \o FlatMap(t, Doubles)
  <2>1. Doubles \in [Chars -> Seq(Chars)]
    BY EscapesType
  <2> QED BY <2>1, FlatMapConcat
<1>2. FlatMap(s \o t, Breaks) = FlatMap(s, Breaks) \o FlatMap(t, Breaks)
  <2>1. Breaks \in [Chars -> Seq(Marks)]
    BY EscapesType
  <2> QED BY <2>1, FlatMapConcat
<1>3. FlatMap(s \o t, Escapes) = FlatMap(s, Escapes) \o FlatMap(t, Escapes)
  <2>1. Escapes \in [Chars -> Seq(Marks)]
    BY EscapesType
  <2> QED BY <2>1, FlatMapConcat
<1> QED BY <1>1, <1>2, <1>3

LEMMA DoublesKeepLineEnds ==
    ASSUME NEW s \in Seq(Chars)
    PROVE  Newlines(FlatMap(s, Doubles)) = FlatMap(Newlines(s), Doubles)
<1> DEFINE D(t) == FlatMap(t, Doubles)
           T == {t \in Seq(Chars) : Newlines(D(t)) = D(Newlines(t)) /\ Mirrors(t, D(t))}
<1>1. <<>> \in T
  BY EmptySeq, FlatMapNone, NewlinesNone DEF Mirrors
<1>2. ASSUME NEW t \in T, NEW e \in Chars PROVE Append(t, e) \in T
  <2> DEFINE d == D(t)
             u == Append(t, e)
             p == LinePiece(t, e)
             n == Newlines(t)
  <2>1. t \in Seq(Chars) /\ Newlines(d) = D(n) /\ Mirrors(t, d)
    BY <1>2
  <2>2. u \in Seq(Chars) /\ u # <<>> /\ Last(u) = e
    BY <2>1, AppendProperties, EndsOfAppend
  <2>3. d \in Seq(Chars) /\ n \in Seq(Chars)
    BY <2>1, OneMore, CellIsTidy
  <2>4. D(u) = d \o Doubles[e] /\ Newlines(u) = n \o p
    <3>1. FlatMap(u, Doubles) = FlatMap(t, Doubles) \o Doubles[e]
      BY <2>1, OneMore
    <3>2. Newlines(u) = n \o p
      BY <2>1, NewlinesAppend
    <3> QED BY <3>1, <3>2
  <2>5. D(n) \in Seq(Chars)
    BY <2>3, OneMore
  <2>6. CASE e # BS
    <3>1. Doubles[e] = <<e>> /\ D(u) = Append(d, e)
      BY <2>3, <2>4, <2>6, AppendTwice DEF Doubles, Doubled
    <3>2. Newlines(D(u)) = D(n) \o p
      <4>1. Newlines(Append(d, e)) = Newlines(d) \o LinePiece(d, e)
        BY <2>3, NewlinesAppend
      <4>2. LinePiece(d, e) = p
        BY <2>1, LinePieceSame
      <4> QED BY <2>1, <3>1, <4>1, <4>2
    <3>3. p \in Seq(Chars) /\ D(p) = p
      <4>1. <<>> \in Seq(Chars) /\ <<NL>> \in Seq(Chars) /\ <<e>> \in Seq(Chars) /\ NL \in Chars
        <5>1. \A c \in Chars : <<c>> \in Seq(Chars)
          BY TwoOf
        <5>2. NL \in Chars
          BY CharsAre
        <5> QED BY <5>1, <5>2, EmptySeq
      <4>2. D(<<NL>>) = Doubles[NL] /\ D(<<e>>) = Doubles[e] /\ D(<<>>) = <<>>
        BY <4>1, OneCharacter, FlatMapNone
      <4>3. Doubles[NL] = <<NL>>
        BY <4>1 DEF Doubles, Doubled, NL, BS
      <4> QED BY <3>1, <4>1, <4>2, <4>3 DEF LinePiece
    <3>4. D(n \o p) = D(n) \o D(p)
      <4> HIDE DEF n, p
      <4> QED BY <2>3, <3>3, TwoTexts
    <3>5. Mirrors(u, D(u))
      <4>1. Append(d, e) # <<>> /\ Last(Append(d, e)) = e
        BY <2>3, AppendProperties, EndsOfAppend
      <4> QED BY <2>2, <3>1, <4>1 DEF Mirrors
    <3> QED BY <2>2, <2>4, <3>2, <3>3, <3>4, <3>5
  <2>7. CASE e = BS
    <3>1. Doubles[e] = <<e, e>> /\ D(u) = Append(Append(d, e), e) /\ Append(d, e) \in Seq(Chars)
      BY <2>3, <2>4, <2>7, AppendTwice, AppendProperties DEF Doubles, Doubled
    <3>2. LinePiece(d, e) = <<e>> /\ LinePiece(Append(d, e), e) = <<e>> /\ p = <<e>>
      BY <2>7 DEF LinePiece, BS, NL, CR
    <3>3. Newlines(D(u)) = (D(n) \o <<e>>) \o <<e>>
      <4>1. Newlines(Append(d, e)) = Newlines(d) \o LinePiece(d, e)
        BY <2>3, NewlinesAppend
      <4>2. Newlines(Append(Append(d, e), e)) = Newlines(Append(d, e)) \o LinePiece(Append(d, e), e)
        BY <3>1, NewlinesAppend
      <4> QED BY <2>1, <3>1, <3>2, <4>1, <4>2
    <3>4. (D(n) \o <<e>>) \o <<e>> = D(n) \o <<e, e>>
      <4>1. D(n) \o <<e>> = Append(D(n), e) /\ Append(D(n), e) \in Seq(Chars)
            /\ D(n) \o <<e, e>> = Append(Append(D(n), e), e)
        BY <2>5, AppendTwice, AppendProperties
      <4>2. Append(D(n), e) \o <<e>> = Append(Append(D(n), e), e)
        BY <4>1, AppendTwice
      <4> QED BY <4>1, <4>2
    <3>5. D(Newlines(u)) = D(n) \o <<e, e>>
      <4>1. n \o p = Append(n, e)
        BY <2>3, <3>2, AppendTwice
      <4>2. D(Append(n, e)) = D(n) \o Doubles[e]
        BY <2>3, OneMore
      <4> QED BY <2>4, <3>1, <4>1, <4>2
    <3>6. Mirrors(u, D(u))
      <4>1. Append(Append(d, e), e) # <<>> /\ Last(Append(Append(d, e), e)) = e
        <5> DEFINE x == Append(d, e)
        <5>1. x \in Seq(Chars)
          BY <3>1
        <5> HIDE DEF x, d, T
        <5>2. Append(x, e) # <<>> /\ Last(Append(x, e)) = e
          BY <5>1, AppendProperties, EndsOfAppend
        <5> QED BY <5>2 DEF x
      <4> QED BY <2>2, <3>1, <4>1 DEF Mirrors
    <3> QED BY <2>2, <3>3, <3>4, <3>5, <3>6
  <2> QED BY <2>6, <2>7
<1>3. T \in SUBSET Seq(Chars)
  OBVIOUS
<1>4. s \in T
  <2> HIDE DEF T
  <2> QED BY <1>1, <1>2, <1>3, AllSequences
<1> QED BY <1>4

LEMMA EscapeOf ==
    ASSUME NEW e \in Chars
    PROVE  /\ Doubles[e] = Doubled(e) /\ Breaks[e] = Broken(e)
           /\ Escapes[e] = IF e = BS THEN Doubled(e) ELSE Broken(e)
BY DEF Doubles, Breaks, Escapes

LEMMA EscapedInTwoSteps ==
    ASSUME NEW s \in Seq(Chars)
    PROVE  FlatMap(FlatMap(s, Doubles), Breaks) = FlatMap(s, Escapes)
<1> DEFINE T == {t \in Seq(Chars) : FlatMap(FlatMap(t, Doubles), Breaks) = FlatMap(t, Escapes)}
<1>1. <<>> \in T
  BY EmptySeq, FlatMapNone
<1>2. ASSUME NEW t \in T, NEW e \in Chars PROVE Append(t, e) \in T
  <2> DEFINE d == FlatMap(t, Doubles)
  <2>1. t \in Seq(Chars) /\ Append(t, e) \in Seq(Chars) /\ FlatMap(d, Breaks) = FlatMap(t, Escapes)
    BY <1>2, AppendProperties
  <2>2. FlatMap(Append(t, e), Doubles) = d \o Doubles[e]
        /\ FlatMap(Append(t, e), Escapes) = FlatMap(t, Escapes) \o Escapes[e]
    BY <2>1, OneMore
  <2>3. d \in Seq(Chars) /\ Doubles[e] \in Seq(Chars)
    BY <2>1, OneMore, EscapesType
  <2>4. FlatMap(d \o Doubles[e], Breaks) = FlatMap(d, Breaks) \o FlatMap(Doubles[e], Breaks)
    <3> DEFINE x == Doubles[e]
    <3>1. x \in Seq(Chars) /\ d \in Seq(Chars)
      BY <2>3
    <3> HIDE DEF d, T, x
    <3>2. FlatMap(d \o x, Breaks) = FlatMap(d, Breaks) \o FlatMap(x, Breaks)
      BY <3>1, TwoTexts
    <3> QED BY <3>2 DEF x
  <2>5. FlatMap(Doubles[e], Breaks) = Escapes[e]
    <3>1. CASE e = BS
      <4> HIDE DEF T, d
      <4>0. <<e>> \in Seq(Chars) /\ <<e, e>> = Append(<<e>>, e)
        BY TwoOf
      <4>1. Doubles[e] = <<e, e>> /\ Escapes[e] = <<e, e>>
        <5>1. Doubled(e) = <<e, e>>
          BY <3>1 DEF Doubled
        <5> QED BY <3>1, <5>1, EscapeOf
      <4>2. Breaks[e] = <<e>>
        BY <3>1, EscapeOf DEF Broken, BS, NL, TAB
      <4>3. FlatMap(<<e>>, Breaks) = <<e>>
        BY <4>2, OneCharacter
      <4>4. FlatMap(Append(<<e>>, e), Breaks) = FlatMap(<<e>>, Breaks) \o Breaks[e]
        BY <4>0, OneMore
      <4>5. <<e>> \o <<e>> = <<e, e>>
        BY <4>0, AppendIsConcat
      <4> QED BY <4>0, <4>1, <4>2, <4>3, <4>4, <4>5
    <3>2. CASE e # BS
      <4>1. Doubles[e] = <<e>> /\ Escapes[e] = Breaks[e]
        BY <3>2, EscapeOf DEF Doubled
      <4>2. FlatMap(<<e>>, Breaks) = Breaks[e]
        BY OneCharacter
      <4> QED BY <4>1, <4>2
    <3> QED BY <3>1, <3>2
  <2> QED BY <2>1, <2>2, <2>4, <2>5
<1>3. T \in SUBSET Seq(Chars)
  OBVIOUS
<1>4. s \in T
  <2> HIDE DEF T
  <2> QED BY <1>1, <1>2, <1>3, AllSequences
<1> QED BY <1>4

\* Both writers write a cell alike.
LEMMA SheetCellIs ==
    ASSUME NEW cell \in Seq(Chars)
    PROVE  EscapeSheetCell(cell) = FlatMap(Newlines(cell), Escapes)
<1> DEFINE d == FlatMap(cell, Doubles)
           t == Newlines(d)
<1>1. d \in Seq(Chars)
  BY FlatMapType, EscapesType
<1>2. t \in Seq(Chars)
  <2> HIDE DEF d
  <2> QED BY <1>1, CellIsTidy
<1>3. [i \in DOMAIN cell |-> Doubled(cell[i])] = Mapped(cell, Doubles)
  <2>1. \A i \in DOMAIN cell : cell[i] \in Chars
    OBVIOUS
  <2> QED BY <2>1 DEF Mapped, Doubles
<1>4. FlattenSeq([i \in DOMAIN cell |-> Doubled(cell[i])]) = d
  BY <1>3 DEF FlatMap
<1>5. EscapeSheetCell(cell) = FlattenSeq([i \in DOMAIN t |-> Broken(t[i])])
  <2> HIDE DEF d
  <2> QED BY <1>4 DEF EscapeSheetCell
<1>6. t = FlatMap(Newlines(cell), Doubles)
  BY DoublesKeepLineEnds
<1> HIDE DEF t, d
<1>7. [i \in DOMAIN t |-> Broken(t[i])] = Mapped(t, Breaks)
  <2>1. \A i \in DOMAIN t : t[i] \in Chars
    BY <1>2
  <2> QED BY <2>1 DEF Mapped, Breaks
<1>8. EscapeSheetCell(cell) = FlatMap(t, Breaks)
  BY <1>5, <1>7 DEF FlatMap
<1>9. Newlines(cell) \in Seq(Chars)
  BY CellIsTidy
<1> QED BY <1>6, <1>8, <1>9, EscapedInTwoSteps

\* What was escaped is read back.
Done(t) == [out |-> t, open |-> FALSE]
HalfRead(t) == [out |-> t, open |-> TRUE]

LEMMA ReadOn ==
    ASSUME NEW S, NEW t \in Seq(S), NEW c
    PROVE  /\ c # BS => Read(Done(t), c) = Done(Append(t, c))
           /\ Read(Done(t), BS) = HalfRead(t)
           /\ c \in Markers => Read(HalfRead(t), c) = Done(t \o <<Decoded(c)>>)
<1>1. c # BS => Read(Done(t), c) = Done(Append(t, c))
  BY DEF Read, Done
<1>2. Read(Done(t), BS) = HalfRead(t)
  BY DEF Read, Done, HalfRead
<1>3. c \in Markers => Read(HalfRead(t), c) = Done(t \o <<Decoded(c)>>)
  BY DEF Read, Done, HalfRead
<1> QED BY <1>1, <1>2, <1>3

LEMMA DecodedIs ==
    /\ Decoded(BS) = BS /\ Decoded("n") = NL /\ Decoded("t") = TAB
    /\ {BS, "n", "t"} \subseteq Markers
<1>1. BS # "n" /\ BS # "t" /\ BS # "r"
  BY DEF BS
<1> QED BY <1>1 DEF Decoded, Markers

LEMMA EscapedIsRead ==
    ASSUME NEW s \in Seq(Chars)
    PROVE  ReadAll(FlatMap(s, Escapes)) = Done(s)
<1> DEFINE T == {t \in Seq(Chars) : ReadAll(FlatMap(t, Escapes)) = Done(t)}
<1>1. <<>> \in T
  BY EmptySeq, FlatMapNone, ReadNone DEF Unread, Done
<1>2. ASSUME NEW t \in T, NEW e \in Chars PROVE Append(t, e) \in T
  <2> DEFINE w == FlatMap(t, Escapes)
  <2>1. t \in Seq(Chars) /\ Append(t, e) \in Seq(Chars) /\ ReadAll(w) = Done(t)
        /\ Append(t, e) = t \o <<e>>
    BY <1>2, AppendProperties, AppendIsConcat
  <2>2. w \in Seq(Marks) /\ FlatMap(Append(t, e), Escapes) = w \o Escapes[e] /\ e \in Marks
    BY <2>1, OneMore DEF Marks
  <2> HIDE DEF w, T
  <2>3. ASSUME Escapes[e] = <<e>>, e # BS PROVE ReadAll(w \o Escapes[e]) = Done(Append(t, e))
    <3>1. w \o <<e>> = Append(w, e)
      BY <2>2, AppendIsConcat
    <3>2. ReadAll(Append(w, e)) = Read(Done(t), e)
      BY <2>1, <2>2, ReadAppend
    <3> QED BY <2>1, <2>3, <3>1, <3>2, ReadOn
  <2>4. ASSUME NEW m \in {BS, "n", "t"}, Escapes[e] = <<BS, m>>, Decoded(m) = e
        PROVE  ReadAll(w \o Escapes[e]) = Done(Append(t, e))
    <3>1. BS \in Marks /\ m \in Marks /\ m \in Markers
      BY CharsAre, DecodedIs
    <3>2. w \o <<BS, m>> = Append(Append(w, BS), m) /\ Append(w, BS) \in Seq(Marks)
      <4>1. <<BS>> \in Seq(Marks) /\ <<BS, m>> = Append(<<BS>>, m)
        BY <3>1
      <4>2. w \o Append(<<BS>>, m) = Append(w \o <<BS>>, m)
        BY <2>2, <3>1, <4>1, AppendToConcat
      <4>3. w \o <<BS>> = Append(w, BS) /\ Append(w, BS) \in Seq(Marks)
        BY <2>2, <3>1, AppendIsConcat, AppendProperties
      <4> QED BY <4>1, <4>2, <4>3
    <3>3. ReadAll(Append(w, BS)) = Read(Done(t), BS)
      BY <2>1, <2>2, <3>1, ReadAppend
    <3>4. ReadAll(Append(Append(w, BS), m)) = Read(ReadAll(Append(w, BS)), m)
      BY <3>1, <3>2, ReadAppend
    <3>5. Read(Done(t), BS) = HalfRead(t) /\ Read(HalfRead(t), m) = Done(t \o <<Decoded(m)>>)
      BY <2>1, <3>1, ReadOn
    <3> QED BY <2>1, <2>4, <3>2, <3>3, <3>4, <3>5
  <2>5. \/ Escapes[e] = <<e>> /\ e # BS
        \/ Escapes[e] = <<BS, BS>> /\ e = BS
        \/ Escapes[e] = <<BS, "n">> /\ e = NL
        \/ Escapes[e] = <<BS, "t">> /\ e = TAB
    BY EscapeOf DEF Doubled, Broken
  <2>6. ReadAll(w \o Escapes[e]) = Done(Append(t, e))
    BY <2>3, <2>4, <2>5, DecodedIs
  <2> QED BY <2>1, <2>2, <2>6 DEF T
<1>3. T \in SUBSET Seq(Chars)
  OBVIOUS
<1>4. s \in T
  <2> HIDE DEF T
  <2> QED BY <1>1, <1>2, <1>3, AllSequences
<1> QED BY <1>4

LEMMA EscapedComesBack ==
    ASSUME NEW s \in Seq(Chars)
    PROVE  /\ UnescapePreviewCell(FlatMap(s, Escapes)) = s
           /\ UnescapeSheetCell(FlatMap(s, Escapes)) = s
BY EscapedIsRead DEF UnescapePreviewCell, UnescapeSheetCell, Done

-----------------------------------------------------------------------------
(* SheetText: what was joined is split again.                                *)

LEMMA SplitType ==
    ASSUME NEW S, NEW s \in Seq(S), NEW sep
    PROVE  Split(s, sep) \in Seq(Seq(S)) /\ Split(s, sep) # <<>>
<1> DEFINE Q == Seq(S)
           T == {t \in Seq(S) : Split(t, sep) \in Seq(Q) /\ Split(t, sep) # <<>>}
<1>1. <<>> \in T
  <2>1. <<>> \in Seq(S)
    BY EmptySeq
  <2>2. << <<>> >> \in Seq(Q) /\ << <<>> >> # <<>>
    BY <2>1
  <2> QED BY <2>1, <2>2, SplitNone
<1>2. ASSUME NEW t \in T, NEW e \in S PROVE Append(t, e) \in T
  <2> DEFINE w == Split(t, sep)
  <2>1. t \in Seq(S) /\ Append(t, e) \in Seq(S) /\ w \in Seq(Q) /\ w # <<>>
    BY <1>2, AppendProperties
  <2>2. Split(Append(t, e), sep) = Cut(w, e, sep)
    BY <2>1, SplitAppend
  <2> HIDE DEF w, Q, T
  <2>3. Front(w) \in Seq(Q) /\ Last(w) \in Q
    BY <2>1, FrontLast
  <2>4. Append(Last(w), e) \in Q /\ <<>> \in Q
    BY <2>3, AppendProperties, EmptySeq DEF Q
  <2> DEFINE l == Append(Last(w), e)
             none == <<>>
  <2>5. l \in Q /\ none \in Q
    BY <2>4
  <2> HIDE DEF l, none
  <2>6. Append(w, none) \in Seq(Q) /\ Append(w, none) # <<>>
    BY <2>1, <2>5, AppendProperties
  <2>7. Append(Front(w), l) \in Seq(Q) /\ Append(Front(w), l) # <<>>
    BY <2>3, <2>5, AppendProperties
  <2>8. Cut(w, e, sep) \in Seq(Q) /\ Cut(w, e, sep) # <<>>
    BY <2>6, <2>7 DEF Cut, l, none
  <2> QED BY <2>1, <2>2, <2>8 DEF T, w
<1>3. T \in SUBSET Seq(S)
  OBVIOUS
<1>4. s \in T
  <2> HIDE DEF T
  <2> QED BY <1>1, <1>2, <1>3, AllSequences
<1> QED BY <1>4

LEMMA HoldsNot ==
    ASSUME NEW S, NEW p \in Seq(S), NEW c
    PROVE  ~Holds(p, c) <=> p \in Seq(S \ {c})
<1> DEFINE V == S \ {c}
           n == Len(p)
<1>1. p \in [1 .. n -> S] /\ n \in Nat /\ DOMAIN p = 1 .. n
  OBVIOUS
<1>2. ASSUME ~Holds(p, c) PROVE p \in Seq(V)
  <2>1. p \in [1 .. n -> V]
    BY <1>1, <1>2 DEF Holds
  <2> HIDE DEF V, n
  <2> QED BY <1>1, <2>1
<1>3. ASSUME p \in Seq(V) PROVE ~Holds(p, c)
  <2>1. \A i \in 1 .. n : p[i] \in V
    BY <1>3
  <2> QED BY <1>1, <2>1 DEF Holds
<1> QED BY <1>2, <1>3

LEMMA HoldsNone ==
    ASSUME NEW V, NEW p \in Seq(V), NEW c, c \notin V
    PROVE  ~Holds(p, c)
<1>1. \A i \in DOMAIN p : p[i] \in V
  OBVIOUS
<1> QED BY <1>1 DEF Holds

\* The last piece goes on.
Extended(w, p) == Append(Front(w), Last(w) \o p)

LEMMA SplitConcat ==
    ASSUME NEW S, NEW s \in Seq(S), NEW p \in Seq(S), NEW sep, ~Holds(p, sep)
    PROVE  Split(s \o p, sep) = Extended(Split(s, sep), p)
<1> DEFINE V == S \ {sep}
           Q == Seq(S)
           w == Split(s, sep)
           f == Front(w)
           l == Last(w)
           T == {t \in Seq(V) : Split(s \o t, sep) = Append(f, l \o t)}
<1>0. f \in Seq(Q) /\ l \in Seq(S) /\ w = Append(f, l)
  <2>1. w \in Seq(Q) /\ w # <<>>
    BY SplitType
  <2> HIDE DEF w, Q
  <2>2. Front(w) \in Seq(Q) /\ Last(w) \in Q /\ w = Append(Front(w), Last(w))
    BY <2>1, FrontLast
  <2> QED BY <2>2 DEF Q
<1> HIDE DEF w, f, l
<1>1. <<>> \in T
  <2>1. s \o <<>> = s /\ l \o <<>> = l /\ <<>> \in Seq(V)
    BY <1>0, ConcatEmptySeq, EmptySeq
  <2> QED BY <1>0, <2>1 DEF w
<1>2. ASSUME NEW t \in T, NEW e \in V PROVE Append(t, e) \in T
  <2>1. t \in Seq(V) /\ e \in V /\ Append(t, e) \in Seq(V) /\ Split(s \o t, sep) = Append(f, l \o t)
    BY <1>2, AppendProperties
  <2> HIDE DEF T
  <2>2. t \in Seq(S) /\ e \in S /\ e # sep
    BY <2>1, SeqMonotonic
  <2>3. s \o Append(t, e) = Append(s \o t, e) /\ l \o Append(t, e) = Append(l \o t, e)
    <3>1. l \in Seq(S) /\ t \in Seq(S) /\ e \in S
      BY <1>0, <2>2
    <3> HIDE DEF V, Q
    <3>2. s \o Append(t, e) = Append(s \o t, e)
      BY <3>1, AppendToConcat
    <3>3. l \o Append(t, e) = Append(l \o t, e)
      BY <3>1, AppendToConcat
    <3> QED BY <3>2, <3>3
  <2>4. s \o t \in Seq(S) /\ l \o t \in Seq(S)
    BY <1>0, <2>2, ConcatProperties
  <2>5. Split(Append(s \o t, e), sep) = Cut(Split(s \o t, sep), e, sep)
    BY <2>2, <2>4, SplitAppend
  <2>6. Front(Append(f, l \o t)) = f /\ Last(Append(f, l \o t)) = l \o t
    <3> DEFINE k == l \o t
    <3>1. f \in Seq(Q) /\ k \in Q
      BY <1>0, <2>4
    <3> HIDE DEF k, Q
    <3>2. Front(Append(f, k)) = f /\ Last(Append(f, k)) = k
      BY <3>1, EndsOfAppend
    <3> QED BY <3>2 DEF k
  <2>7. Cut(Append(f, l \o t), e, sep) = Append(f, Append(l \o t, e))
    BY <2>2, <2>6 DEF Cut
  <2> QED BY <2>1, <2>3, <2>5, <2>7 DEF T
<1>3. T \in SUBSET Seq(V)
  OBVIOUS
<1>4. p \in T
  <2>1. p \in Seq(V)
    BY HoldsNot
  <2> HIDE DEF T, V
  <2> QED BY <1>1, <1>2, <1>3, <2>1, AllSequences
<1> QED BY <1>4 DEF Extended, f, l, w

LEMMA SplitNothing ==
    ASSUME NEW V, NEW p \in Seq(V), NEW sep, ~Holds(p, sep)
    PROVE  Split(p, sep) = <<p>>
<1>1. <<>> \in Seq(V)
  BY EmptySeq
<1>2. Split(<<>> \o p, sep) = Extended(Split(<<>>, sep), p)
  BY <1>1, SplitConcat
<1>3. <<>> \o p = p
  BY <1>1, ConcatEmptySeq
<1>4. << <<>> >> = Append(<<>>, <<>>) /\ <<p>> = Append(<<>>, p)
  OBVIOUS
<1>5. Front(<< <<>> >>) = <<>> /\ Last(<< <<>> >>) = <<>>
  <2>1. <<>> \in Seq(Seq(V)) /\ <<>> \in Seq(V)
    BY EmptySeq
  <2>2. Front(Append(<<>>, <<>>)) = <<>> /\ Last(Append(<<>>, <<>>)) = <<>>
    BY <2>1, EndsOfAppend
  <2> QED BY <1>4, <2>2
<1> QED BY <1>2, <1>3, <1>4, <1>5, SplitNone DEF Extended

JoinPieces(parts, sep) ==
    [i \in DOMAIN parts |-> IF i = 1 THEN parts[1] ELSE <<sep>> \o parts[i]]

LEMMA JoinPiecesAre ==
    ASSUME NEW S, NEW sep \in S, NEW parts \in Seq(Seq(S))
    PROVE  JoinPieces(parts, sep) \in Seq(Seq(S)) /\ Len(JoinPieces(parts, sep)) = Len(parts)
<1> DEFINE Q == Seq(S)
<1>1. DOMAIN parts = 1 .. Len(parts) /\ Len(parts) \in Nat /\ \A i \in 1 .. Len(parts) : parts[i] \in Q
  OBVIOUS
<1>2. ASSUME NEW i \in 1 .. Len(parts)
      PROVE  (IF i = 1 THEN parts[1] ELSE <<sep>> \o parts[i]) \in Q
  <2>1. <<sep>> \in Seq(S) /\ parts[i] \in Seq(S)
    BY <1>1
  <2>2. <<sep>> \o parts[i] \in Seq(S)
    BY <2>1, ConcatProperties
  <2> QED BY <2>1, <2>2
<1> HIDE DEF Q
<1>3. JoinPieces(parts, sep) = [i \in 1 .. Len(parts) |-> IF i = 1 THEN parts[1] ELSE <<sep>> \o parts[i]]
  BY <1>1 DEF JoinPieces
<1>4. JoinPieces(parts, sep) \in [1 .. Len(parts) -> Q]
  BY <1>2, <1>3
<1>5. JoinPieces(parts, sep) \in Seq(Q) /\ Len(JoinPieces(parts, sep)) = Len(parts)
  <2> DEFINE x == JoinPieces(parts, sep)
             n == Len(parts)
  <2>1. x \in [1 .. n -> Q] /\ n \in Nat
    BY <1>1, <1>4
  <2> HIDE DEF x, n
  <2>2. x \in Seq(Q) /\ Len(x) = n
    BY <2>1
  <2> QED BY <2>2 DEF x, n
<1> QED BY <1>5 DEF Q

LEMMA JoinType ==
    ASSUME NEW S, NEW sep \in S, NEW parts \in Seq(Seq(S))
    PROVE  Join(parts, sep) \in Seq(S)
<1>1. JoinPieces(parts, sep) \in Seq(Seq(S))
  BY JoinPiecesAre
<1>2. FlattenSeq(JoinPieces(parts, sep)) \in Seq(S)
  BY <1>1, FlattenType
<1> QED BY <1>2 DEF Join, JoinPieces

LEMMA JoinAppend ==
    ASSUME NEW S, NEW sep \in S, NEW parts \in Seq(Seq(S)), NEW p \in Seq(S)
    PROVE  Join(Append(parts, p), sep) =
               IF parts = <<>> THEN p ELSE Append(Join(parts, sep), sep) \o p
<1> DEFINE Q == Seq(S)
           t == Append(parts, p)
           n == Len(parts)
           x == JoinPieces(parts, sep)
           y == JoinPieces(t, sep)
           q == IF parts = <<>> THEN p ELSE <<sep>> \o p
<1>1. /\ t \in Seq(Q) /\ Len(t) = n + 1 /\ n \in Nat /\ t[n + 1] = p /\ DOMAIN t = 1 .. n + 1
      /\ DOMAIN parts = 1 .. n /\ \A i \in 1 .. n : t[i] = parts[i]
  BY AppendProperties
<1>2. x \in Seq(Q) /\ Len(x) = n
  BY JoinPiecesAre
<1>3. y \in Seq(Q) /\ Len(y) = n + 1
  <2>1. JoinPieces(t, sep) \in Seq(Seq(S)) /\ Len(JoinPieces(t, sep)) = Len(t)
    <3> HIDE DEF t
    <3> QED BY <1>1, JoinPiecesAre
  <2> QED BY <1>1, <2>1
<1>4. \A i \in 1 .. n : y[i] = x[i]
  <2> TAKE i \in 1 .. n
  <2>1. i \in DOMAIN parts /\ i \in DOMAIN t /\ t[i] = parts[i] /\ (i = 1 => t[1] = parts[1])
    BY <1>1
  <2> HIDE DEF t, n
  <2> QED BY <2>1 DEF JoinPieces
<1>5. y[n + 1] = q
  <2>1. n + 1 \in DOMAIN t /\ (n + 1 = 1 <=> parts = <<>>) /\ (n + 1 = 1 => t[1] = p)
    <3>1. n = 0 <=> parts = <<>>
      BY <1>1, EmptySeq
    <3> QED BY <1>1, <3>1
  <2>2. y[n + 1] = IF n + 1 = 1 THEN t[1] ELSE <<sep>> \o t[n + 1]
    BY <2>1 DEF JoinPieces
  <2> HIDE DEF t, y
  <2> QED BY <1>1, <2>1, <2>2
<1>6. q \in Q
  <2>1. <<sep>> \in Seq(S)
    OBVIOUS
  <2>2. <<sep>> \o p \in Seq(S)
    BY <2>1, ConcatProperties
  <2> QED BY <2>2
<1>7. y = Append(x, q)
  <2> HIDE DEF x, y, q, Q, t
  <2>1. /\ Append(x, q) \in Seq(Q) /\ Len(Append(x, q)) = n + 1 /\ Append(x, q)[n + 1] = q
        /\ \A i \in 1 .. n : Append(x, q)[i] = x[i]
    BY <1>2, <1>6, AppendProperties
  <2>2. \A i \in 1 .. n + 1 : y[i] = Append(x, q)[i]
    <3> TAKE i \in 1 .. n + 1
    <3>1. i = n + 1 \/ i \in 1 .. n
      BY <1>1
    <3> QED BY <1>4, <1>5, <2>1, <3>1
  <2> HIDE DEF n
  <2> QED BY <1>3, <2>1, <2>2, SeqEqual
<1>8. FlattenSeq(Append(x, q)) = FlattenSeq(x) \o q
  <2> HIDE DEF x, q
  <2> QED BY <1>2, <1>6, FlattenAppend
<1>9. Join(t, sep) = FlattenSeq(y) /\ Join(parts, sep) = FlattenSeq(x)
  BY DEF Join, JoinPieces
<1>10. CASE parts = <<>>
  <2>1. x = <<>>
    BY <1>10 DEF JoinPieces
  <2>2. <<>> \o p = p
    BY ConcatEmptySeq
  <2>3. q = p
    BY <1>10
  <2> HIDE DEF x, y, t, q
  <2> QED BY <1>7, <1>8, <1>9, <1>10, <2>1, <2>2, <2>3, FlattenNone DEF t
<1>11. CASE parts # <<>>
  <2> DEFINE j == FlattenSeq(x)
  <2>1. j \in Seq(S) /\ <<sep>> \in Seq(S)
    BY <1>2, FlattenType
  <2> HIDE DEF j
  <2>2. j \o (<<sep>> \o p) = (j \o <<sep>>) \o p
    BY <2>1, ConcatAssociative
  <2>3. j \o <<sep>> = Append(j, sep)
    BY <2>1, AppendIsConcat
  <2>4. q = <<sep>> \o p
    BY <1>11
  <2> HIDE DEF x, y, t, q
  <2> QED BY <1>7, <1>8, <1>9, <1>11, <2>2, <2>3, <2>4 DEF j, t
<1> QED BY <1>10, <1>11

LEMMA SplitOfJoined ==
    ASSUME NEW V, NEW sep, sep \notin V, NEW parts \in Seq(Seq(V)), parts # <<>>
    PROVE  Split(Join(parts, sep), sep) = parts
<1> DEFINE S == V \union {sep}
           P == Seq(V)
           Q == Seq(S)
           T == {t \in Seq(P) : t # <<>> => Split(Join(t, sep), sep) = t}
<1>1. <<>> \in T
  BY EmptySeq
<1>2. ASSUME NEW t \in T, NEW p \in P PROVE Append(t, p) \in T
  <2>1. t \in Seq(P) /\ p \in Seq(V) /\ Append(t, p) \in Seq(P)
    BY <1>2, AppendProperties
  <2>2. P \subseteq Q /\ p \in Seq(S)
    BY SeqMonotonic
  <2>3. t \in Seq(Q)
    <3> HIDE DEF P, Q, T, S
    <3> QED BY <2>1, <2>2, SeqMonotonic
  <2>4. Join(Append(t, p), sep) = IF t = <<>> THEN p ELSE Append(Join(t, sep), sep) \o p
    <3>1. sep \in S
      OBVIOUS
    <3> HIDE DEF S, T, P
    <3> QED BY <2>2, <2>3, <3>1, JoinAppend
  <2>5. CASE t = <<>>
    <3>1. Split(p, sep) = <<p>>
      BY <2>1, SplitNothing, HoldsNone
    <3>2. Append(t, p) = <<p>>
      BY <2>5
    <3> QED BY <2>1, <2>4, <2>5, <3>1, <3>2
  <2>6. CASE t # <<>>
    <3> DEFINE j == Join(t, sep)
    <3>1. j \in Seq(S) /\ Append(j, sep) \in Seq(S) /\ Split(j, sep) = t
      <4>1. sep \in S /\ Split(j, sep) = t
        BY <1>2, <2>6
      <4> HIDE DEF S, T, P
      <4>2. Join(t, sep) \in Seq(S)
        BY <2>3, <4>1, JoinType
      <4> HIDE DEF j
      <4> QED BY <4>1, <4>2, AppendProperties DEF j
    <3> HIDE DEF j, T
    <3>2. Split(Append(j, sep), sep) = Append(t, <<>>)
      <4>1. Split(Append(j, sep), sep) = Cut(Split(j, sep), sep, sep)
        <5>1. sep \in S
          OBVIOUS
        <5> HIDE DEF S
        <5> QED BY <3>1, <5>1, SplitAppend
      <4> QED BY <3>1, <4>1 DEF Cut
    <3>3. Split(Append(j, sep) \o p, sep) = Extended(Append(t, <<>>), p)
      <4>1. Split(Append(j, sep) \o p, sep) = Extended(Split(Append(j, sep), sep), p)
        <5> DEFINE k == Append(j, sep)
        <5>1. k \in Seq(S) /\ p \in Seq(S) /\ ~Holds(p, sep)
          BY <2>1, <2>2, <3>1, HoldsNone
        <5> HIDE DEF k, S
        <5>2. Split(k \o p, sep) = Extended(Split(k, sep), p)
          BY <5>1, SplitConcat
        <5> QED BY <5>2 DEF k
      <4> QED BY <3>2, <4>1
    <3>4. Extended(Append(t, <<>>), p) = Append(t, p)
      <4>1. <<>> \in Q
        BY EmptySeq
      <4>2. Front(Append(t, <<>>)) = t /\ Last(Append(t, <<>>)) = <<>>
        <5> HIDE DEF Q
        <5> QED BY <2>3, <4>1, EndsOfAppend
      <4>3. <<>> \o p = p
        BY <2>2, ConcatEmptySeq
      <4> QED BY <4>2, <4>3 DEF Extended
    <3> QED BY <2>1, <2>4, <2>6, <3>3, <3>4 DEF T, j
  <2> QED BY <2>5, <2>6
<1>3. T \in SUBSET Seq(P)
  OBVIOUS
<1>4. parts \in T
  <2> HIDE DEF T, P
  <2>1. parts \in Seq(P)
    BY DEF P
  <2> QED BY <1>1, <1>2, <1>3, <2>1, AllSequences
<1> QED BY <1>4

-----------------------------------------------------------------------------
(* SheetText: trimmed cells.                                                 *)

Tight(u) == u # <<>> => u[1] # SPACE /\ u[Len(u)] # SPACE
Trimmed(t, a, u, b) ==
    /\ a \in Seq({SPACE}) /\ b \in Seq({SPACE}) /\ t = (a \o u) \o b
    /\ Tight(u) /\ (u = <<>> => b = <<>>)

LEMMA TrimIs ==
    ASSUME NEW S, SPACE \in S, NEW t, NEW a, NEW u \in Seq(S), NEW b, Trimmed(t, a, u, b)
    PROVE  Trim(t) = u
<1> DEFINE m == Len(a)
           n == Len(u)
           o == Len(b)
           kept == {i \in DOMAIN t : t[i] # SPACE}
<1>1. a \in Seq(S) /\ b \in Seq(S) /\ m \in Nat /\ n \in Nat /\ o \in Nat
      /\ (\A i \in 1 .. m : a[i] = SPACE) /\ (\A i \in 1 .. o : b[i] = SPACE)
  <2>1. a \in Seq({SPACE}) /\ b \in Seq({SPACE})
    BY DEF Trimmed
  <2>2. a \in Seq(S) /\ b \in Seq(S)
    BY <2>1, SeqMonotonic
  <2> QED BY <2>1, <2>2
<1>2. /\ a \o u \in Seq(S) /\ Len(a \o u) = m + n
      /\ \A i \in 1 .. m + n : (a \o u)[i] = IF i <= m THEN a[i] ELSE u[i - m]
  <2>1. a \in Seq(S) /\ u \in Seq(S)
    BY <1>1
  <2> QED BY <2>1, ConcatProperties
<1> DEFINE v == a \o u
<1>3. /\ t \in Seq(S) /\ Len(t) = (m + n) + o
      /\ \A i \in 1 .. (m + n) + o : t[i] = IF i <= m + n THEN v[i] ELSE b[i - (m + n)]
  <2>1. t = v \o b
    BY DEF Trimmed
  <2>2. v \in Seq(S) /\ b \in Seq(S) /\ Len(v) = m + n
    BY <1>1, <1>2
  <2> HIDE DEF v, m, n
  <2>3. /\ v \o b \in Seq(S) /\ Len(v \o b) = Len(v) + Len(b)
        /\ \A i \in 1 .. Len(v) + Len(b) : (v \o b)[i] = IF i <= Len(v) THEN v[i] ELSE b[i - Len(v)]
    BY <2>2, ConcatProperties
  <2> QED BY <2>1, <2>2, <2>3
<1>4. \A i \in 1 .. n : m + i \in 1 .. (m + n) + o /\ t[m + i] = u[i]
  <2> TAKE i \in 1 .. n
  <2>1. m + i \in 1 .. (m + n) + o /\ m + i \in 1 .. m + n /\ m + i <= m + n /\ ~(m + i <= m) /\ (m + i) - m = i
    BY <1>1
  <2> HIDE DEF v, m, n, o
  <2> QED BY <1>2, <1>3, <2>1 DEF v
<1>5. \A i \in 1 .. (m + n) + o : t[i] # SPACE => i \in m + 1 .. m + n
  <2> SUFFICES ASSUME NEW i \in 1 .. (m + n) + o, i \notin m + 1 .. m + n PROVE t[i] = SPACE
    OBVIOUS
  <2>1. CASE i <= m
    <3>1. i \in 1 .. m /\ i \in 1 .. m + n /\ i <= m + n
      BY <1>1, <2>1
    <3> HIDE DEF v, m, n, o
    <3> QED BY <1>1, <1>2, <1>3, <2>1, <3>1 DEF v
  <2>2. CASE ~(i <= m)
    <3>1. ~(i <= m + n) /\ i - (m + n) \in 1 .. o
      BY <1>1, <2>2
    <3> HIDE DEF v, m, n, o
    <3> QED BY <1>1, <1>3, <3>1
  <2> QED BY <2>1, <2>2
<1>6. DOMAIN t = 1 .. (m + n) + o
  BY <1>3
<1>7. Trim(t) = IF kept = {} THEN <<>>
                ELSE SubSeq(t, CHOOSE i \in kept : \A k \in kept : i <= k,
                               CHOOSE i \in kept : \A k \in kept : i >= k)
  BY DEF Trim
<1>8. CASE u = <<>>
  <2>1. kept = {}
    <3>1. n = 0
      BY <1>8
    <3>2. m + 1 .. m + n = {}
      BY <1>1, <3>1
    <3> HIDE DEF v, m, n, o
    <3> QED BY <1>5, <1>6, <3>2
  <2> HIDE DEF kept
  <2> QED BY <1>7, <1>8, <2>1
<1>9. CASE u # <<>>
  <2>1. n \in 1 .. n /\ 1 \in 1 .. n
    BY <1>1, <1>9, EmptySeq
  <2>2. u[1] # SPACE /\ u[n] # SPACE
    BY <1>9 DEF Trimmed, Tight
  <2>3. m + 1 \in kept /\ m + n \in kept /\ kept \subseteq m + 1 .. m + n
    <3> HIDE DEF v, m, n, o
    <3> QED BY <1>4, <1>5, <1>6, <2>1, <2>2
  <2> HIDE DEF v, m, n, o, kept
  <2>4. \A i \in kept : (\A k \in kept : i <= k) => i = m + 1
    <3> SUFFICES ASSUME NEW i \in kept, \A k \in kept : i <= k PROVE i = m + 1
      OBVIOUS
    <3>1. i <= m + 1 /\ i \in m + 1 .. m + n
      BY <2>3
    <3> QED BY <1>1, <3>1
  <2>5. \A k \in kept : m + 1 <= k /\ m + n >= k
    BY <1>1, <2>3
  <2>6. \A i \in kept : (\A k \in kept : i >= k) => i = m + n
    <3> SUFFICES ASSUME NEW i \in kept, \A k \in kept : i >= k PROVE i = m + n
      OBVIOUS
    <3>1. i >= m + n /\ i \in m + 1 .. m + n
      BY <2>3
    <3> QED BY <1>1, <3>1
  <2>7. (CHOOSE i \in kept : \A k \in kept : i <= k) = m + 1
    BY <2>3, <2>4, <2>5
  <2>8. (CHOOSE i \in kept : \A k \in kept : i >= k) = m + n
    BY <2>3, <2>5, <2>6
  <2>9. Trim(t) = SubSeq(t, m + 1, m + n)
    BY <1>7, <2>3, <2>7, <2>8
  <2> DEFINE from == m + 1
             to == m + n
             x == SubSeq(t, from, to)
  <2>10. from \in Int /\ to \in Int /\ from <= to /\ to - from + 1 = n
    BY <1>1, <2>1
  <2>11. \A i \in from .. to : t[i] \in S
    <3> TAKE i \in from .. to
    <3>1. i \in 1 .. (m + n) + o
      BY <1>1
    <3> QED BY <1>3, <3>1
  <2>12. \A i \in 1 .. n : from + i - 1 = m + i
    BY <1>1
  <2> HIDE DEF from, to
  <2>13. x \in Seq(S) /\ Len(x) = n /\ \A i \in 1 .. n : x[i] = t[from + i - 1]
    <3>1. /\ SubSeq(t, from, to) \in Seq(S)
          /\ Len(SubSeq(t, from, to)) = (IF from <= to THEN to - from + 1 ELSE 0)
          /\ \A i \in 1 .. to - from + 1 : SubSeq(t, from, to)[i] = t[from + i - 1]
      BY <2>10, <2>11, SubSeqProperties
    <3> QED BY <2>10, <3>1
  <2> HIDE DEF x
  <2>14. \A i \in 1 .. n : x[i] = u[i]
    BY <1>4, <2>12, <2>13
  <2>15. x = u
    BY <2>13, <2>14, SeqEqual DEF n
  <2> QED BY <2>9, <2>15 DEF x, from, to
<1> QED BY <1>8, <1>9

LEMMA TrimExists ==
    ASSUME NEW S, SPACE \in S, NEW s \in Seq(S)
    PROVE  \E a \in Seq({SPACE}), u \in Seq(S), b \in Seq({SPACE}) : Trimmed(s, a, u, b)
<1> DEFINE P == Seq({SPACE})
           T == {t \in Seq(S) : \E a \in P, u \in Seq(S), b \in P : Trimmed(t, a, u, b)}
<1>1. <<>> \in T
  <2>1. <<>> \in P /\ <<>> \in Seq(S) /\ (<<>> \o <<>>) \o <<>> = <<>>
    BY EmptySeq, ConcatEmptySeq
  <2>2. Trimmed(<<>>, <<>>, <<>>, <<>>)
    BY <2>1 DEF Trimmed, Tight
  <2> QED BY <2>1, <2>2
<1>2. ASSUME NEW t \in T, NEW e \in S PROVE Append(t, e) \in T
  <2>1. PICK a \in P, u \in Seq(S), b \in P : Trimmed(t, a, u, b)
    BY <1>2
  <2> DEFINE w == Append(t, e)
  <2>2. t \in Seq(S) /\ w \in Seq(S) /\ t = (a \o u) \o b /\ Tight(u) /\ (u = <<>> => b = <<>>)
    BY <1>2, <2>1, AppendProperties DEF Trimmed
  <2> HIDE DEF T
  <2>3. SUFFICES \E x \in P, y \in Seq(S), z \in P : Trimmed(w, x, y, z)
    BY <2>2 DEF T
  <2>4. a \in Seq(S) /\ b \in Seq(S) /\ <<>> \in P /\ <<>> \in Seq(S) /\ a \o u \in Seq(S)
    <3>1. a \in Seq(S) /\ b \in Seq(S)
      BY SeqMonotonic
    <3> QED BY <3>1, ConcatProperties, EmptySeq
  <2>5. CASE e = SPACE
    <3>1. Append(a, e) \in P /\ Append(b, e) \in P
      BY <2>5, AppendProperties
    <3>2. CASE u = <<>>
      <4>1. a \o u = a /\ t = a
        BY <2>2, <2>4, <3>2, ConcatEmptySeq
      <4>2. Append(a, e) \o <<>> = Append(a, e)
        BY <3>1, ConcatEmptySeq
      <4>3. Trimmed(w, Append(a, e), <<>>, <<>>)
        BY <2>4, <3>1, <4>1, <4>2 DEF Trimmed, Tight
      <4> QED BY <2>4, <3>1, <4>3
    <3>3. CASE u # <<>>
      <4>1. (a \o u) \o Append(b, e) = w
        <5> DEFINE v == a \o u
        <5>1. v \in Seq(S) /\ b \in Seq(S)
          BY <2>4
        <5> HIDE DEF v, w
        <5>2. v \o Append(b, e) = Append(v \o b, e)
          BY <5>1, AppendToConcat
        <5> QED BY <2>2, <5>2 DEF v, w
      <4>2. Trimmed(w, a, u, Append(b, e))
        BY <2>2, <3>1, <3>3, <4>1 DEF Trimmed
      <4> QED BY <3>1, <4>2
    <3> QED BY <3>2, <3>3
  <2>6. CASE e # SPACE
    <3>1. CASE u = <<>>
      <4>1. a \o u = a /\ t = a
        BY <2>2, <2>4, <3>1, ConcatEmptySeq
      <4>2. Append(a, e) = a \o <<e>> /\ <<e>> \in Seq(S) /\ a \o <<e>> \in Seq(S)
        BY <2>4, AppendIsConcat, ConcatProperties
      <4>3. (a \o <<e>>) \o <<>> = a \o <<e>>
        BY <4>2, ConcatEmptySeq
      <4>4. <<e>> # <<>> /\ <<e>>[1] = e /\ Len(<<e>>) = 1
        OBVIOUS
      <4>5. Tight(<<e>>)
        BY <2>6, <4>4 DEF Tight
      <4>6. Trimmed(w, a, <<e>>, <<>>)
        BY <2>4, <4>1, <4>2, <4>3, <4>4, <4>5 DEF Trimmed
      <4> QED BY <2>4, <4>2, <4>6
    <3>2. CASE u # <<>>
      <4> DEFINE v == u \o b
                 y == Append(v, e)
      <4>1. v \in Seq(S) /\ Len(v) = Len(u) + Len(b) /\ Len(b) \in Nat /\ Len(u) \in Nat \ {0}
            /\ v[1] = u[1]
        <5>1. Len(b) \in Nat /\ Len(u) \in Nat \ {0}
          BY <3>2, EmptySeq
        <5>2. /\ v \in Seq(S) /\ Len(v) = Len(u) + Len(b)
              /\ \A i \in 1 .. Len(u) + Len(b) : v[i] = IF i <= Len(u) THEN u[i] ELSE b[i - Len(u)]
          BY <2>4, ConcatProperties
        <5>3. 1 \in 1 .. Len(u) + Len(b) /\ 1 <= Len(u)
          BY <5>1
        <5> HIDE DEF v
        <5> QED BY <5>1, <5>2, <5>3
      <4> HIDE DEF v
      <4>2. y \in Seq(S) /\ y # <<>> /\ Len(y) = Len(v) + 1 /\ y[Len(v) + 1] = e /\ y[1] = v[1]
        <5>1. /\ y \in Seq(S) /\ y # <<>> /\ Len(y) = Len(v) + 1
              /\ (\A i \in 1 .. Len(v) : y[i] = v[i]) /\ y[Len(v) + 1] = e
          <6>1. v \in Seq(S)
            BY <4>1
          <6>2. /\ Append(v, e) \in Seq(S) /\ Append(v, e) # <<>> /\ Len(Append(v, e)) = Len(v) + 1
                /\ Append(v, e)[Len(v) + 1] = e
            BY <6>1, AppendProperties
          <6>3. \A i \in 1 .. Len(v) : Append(v, e)[i] = v[i]
            BY <6>1, AppendProperties
          <6> QED BY <6>2, <6>3
        <5>2. 1 \in 1 .. Len(v)
          BY <4>1
        <5> HIDE DEF y
        <5> QED BY <5>1, <5>2
      <4>3. Tight(y)
        BY <2>2, <2>6, <3>2, <4>1, <4>2 DEF Tight
      <4>4. (a \o y) \o <<>> = w
        <5>1. a \o Append(v, e) = Append(a \o v, e)
          <6>1. a \in Seq(S) /\ v \in Seq(S) /\ e \in S
            BY <2>4, <4>1
          <6> HIDE DEF y, w, T, P
          <6> QED BY <6>1, AppendToConcat
        <5>2. a \o v = t
          <6>1. (a \o u) \o b = a \o (u \o b)
            <7>1. a \in Seq(S) /\ u \in Seq(S) /\ b \in Seq(S)
              BY <2>4
            <7> HIDE DEF y, w, T, P
            <7> QED BY <7>1, ConcatAssociative, SMTT(30)
          <6> QED BY <2>2, <6>1 DEF v
        <5>3. w \o <<>> = w
          BY <2>2, ConcatEmptySeq
        <5> QED BY <5>1, <5>2, <5>3
      <4>5. Trimmed(w, a, y, <<>>)
        BY <2>4, <4>2, <4>3, <4>4 DEF Trimmed
      <4> QED BY <2>4, <4>2, <4>5
    <3> QED BY <3>1, <3>2
  <2> QED BY <2>5, <2>6
<1>3. T \in SUBSET Seq(S)
  OBVIOUS
<1>4. s \in T
  <2> HIDE DEF T
  <2> QED BY <1>1, <1>2, <1>3, AllSequences
<1> QED BY <1>4

\* An escaped cell begins and ends with a space when the cell does.
Bordered(u, v) ==
    /\ u = <<>> <=> v = <<>>
    /\ u # <<>> => (u[1] = SPACE <=> v[1] = SPACE) /\ (Last(u) = SPACE <=> Last(v) = SPACE)

LEMMA EscapeBorders ==
    ASSUME NEW e \in Chars
    PROVE  /\ Escapes[e] \in Seq(Marks) /\ Escapes[e] # <<>>
           /\ Escapes[e][1] = SPACE <=> e = SPACE
           /\ Last(Escapes[e]) = SPACE <=> e = SPACE
<1>1. /\ Escapes[e] = <<e>> \/ (e # SPACE /\ \E m \in {BS, "n", "t"} : Escapes[e] = <<BS, m>>)
  <2>1. CASE e = BS
    BY <2>1, EscapeOf, CharsAre DEF Doubled
  <2>2. CASE e # BS
    BY <2>2, EscapeOf, CharsAre DEF Broken
  <2> QED BY <2>1, <2>2
<1>2. CASE Escapes[e] = <<e>>
  <2>1. <<e>>[1] = e /\ Last(<<e>>) = e /\ <<e>> # <<>>
    BY DEF Last
  <2> QED BY <1>2, <2>1, EscapesType
<1>3. ASSUME e # SPACE, NEW m \in {BS, "n", "t"}, Escapes[e] = <<BS, m>>
      PROVE  Escapes[e] # <<>> /\ Escapes[e][1] # SPACE /\ Last(Escapes[e]) # SPACE
  <2>1. <<BS, m>>[1] = BS /\ Last(<<BS, m>>) = m /\ <<BS, m>> # <<>>
    BY DEF Last
  <2>2. BS # SPACE /\ m # SPACE
    BY CharsAre
  <2> QED BY <1>3, <2>1, <2>2
<1> QED BY <1>1, <1>2, <1>3, EscapesType

LEMMA ConcatBorders ==
    ASSUME NEW S, NEW s \in Seq(S), NEW t \in Seq(S), t # <<>>
    PROVE  /\ s \o t # <<>> /\ Last(s \o t) = Last(t)
           /\ s # <<>> => (s \o t)[1] = s[1]
           /\ s = <<>> => s \o t = t
<1> DEFINE m == Len(s)
           n == Len(t)
           v == s \o t
<1>1. /\ v \in Seq(S) /\ Len(v) = m + n /\ \A i \in 1 .. m + n : v[i] = IF i <= m THEN s[i] ELSE t[i - m]
  BY ConcatProperties
<1>2. m \in Nat /\ n \in Nat /\ n # 0 /\ (s # <<>> => m # 0)
  BY EmptySeq
<1>3. s = <<>> => v = t
  BY ConcatEmptySeq
<1> HIDE DEF v, m, n
<1>4. v[m + n] = t[n]
  <2>1. m + n \in 1 .. m + n /\ ~(m + n <= m) /\ (m + n) - m = n
    BY <1>2
  <2> QED BY <1>1, <2>1
<1>5. s # <<>> => v[1] = s[1]
  <2>1. s # <<>> => 1 \in 1 .. m + n /\ 1 <= m
    BY <1>2
  <2> QED BY <1>1, <2>1
<1>6. v # <<>>
  <2>1. m + n # 0
    BY <1>2
  <2> QED BY <1>1, <2>1, EmptySeq
<1> QED BY <1>1, <1>3, <1>4, <1>5, <1>6 DEF Last, v, n

LEMMA EscapedBorders ==
    ASSUME NEW s \in Seq(Chars)
    PROVE  Bordered(s, FlatMap(s, Escapes))
<1> DEFINE T == {t \in Seq(Chars) : Bordered(t, FlatMap(t, Escapes))}
<1>1. <<>> \in T
  BY EmptySeq, FlatMapNone DEF Bordered
<1>2. ASSUME NEW t \in T, NEW e \in Chars PROVE Append(t, e) \in T
  <2> DEFINE u == Append(t, e)
             w == FlatMap(t, Escapes)
             x == Escapes[e]
  <2>1. t \in Seq(Chars) /\ u \in Seq(Chars) /\ u = t \o <<e>> /\ <<e>> \in Seq(Chars) /\ <<e>> # <<>>
        /\ <<e>>[1] = e
    BY <1>2, AppendProperties, AppendIsConcat
  <2>2. w \in Seq(Marks) /\ FlatMap(u, Escapes) = w \o x
    BY <2>1, OneMore
  <2>3. x \in Seq(Marks) /\ x # <<>> /\ (x[1] = SPACE <=> e = SPACE) /\ (Last(x) = SPACE <=> e = SPACE)
    BY EscapeBorders
  <2>4. Bordered(t, w)
    BY <1>2
  <2>5. Last(u) = e
    BY <2>1, EndsOfAppend
  <2> HIDE DEF T, u, w, x
  <2>6. /\ w \o x # <<>> /\ Last(w \o x) = Last(x) /\ (w # <<>> => (w \o x)[1] = w[1])
        /\ (w = <<>> => w \o x = x)
    BY <2>2, <2>3, ConcatBorders
  <2>7. /\ u # <<>> /\ (t # <<>> => u[1] = t[1]) /\ (t = <<>> => u = <<e>>)
    BY <2>1, ConcatBorders
  <2>8. Bordered(u, w \o x)
    BY <2>1, <2>3, <2>4, <2>5, <2>6, <2>7 DEF Bordered
  <2> QED BY <2>1, <2>2, <2>8 DEF T, u
<1>3. T \in SUBSET Seq(Chars)
  OBVIOUS
<1>4. s \in T
  <2> HIDE DEF T
  <2> QED BY <1>1, <1>2, <1>3, AllSequences
<1> QED BY <1>4

\* To trim and to escape may change places.
LEMMA TrimEscapes ==
    ASSUME NEW s \in Seq(Chars)
    PROVE  Trim(s) \in Seq(Chars) /\ Trim(FlatMap(s, Escapes)) = FlatMap(Trim(s), Escapes)
<1>1. SPACE \in Chars /\ SPACE \in Marks
  BY CharsAre DEF Marks
<1>2. PICK a \in Seq({SPACE}), u \in Seq(Chars), b \in Seq({SPACE}) : Trimmed(s, a, u, b)
  BY <1>1, TrimExists
<1>3. Trim(s) = u
  BY <1>1, <1>2, TrimIs
<1> DEFINE E(t) == FlatMap(t, Escapes)
<1>4. E(a) \in Seq({SPACE}) /\ E(b) \in Seq({SPACE})
  <2>1. \A c \in {SPACE} : Escapes[c] \in Seq({SPACE})
    <3>1. Escapes[SPACE] = <<SPACE>>
      BY <1>1, EscapeOf, CharsAre DEF Broken
    <3>2. <<SPACE>> \in Seq({SPACE})
      OBVIOUS
    <3> QED BY <3>1, <3>2
  <2> QED BY <2>1, FlatMapInto
<1>5. a \in Seq(Chars) /\ b \in Seq(Chars) /\ a \o u \in Seq(Chars)
  <2>1. a \in Seq(Chars) /\ b \in Seq(Chars)
    BY <1>1, SeqMonotonic
  <2> QED BY <2>1, ConcatProperties
<1>6. E(s) = (E(a) \o E(u)) \o E(b)
  <2> DEFINE v == a \o u
  <2>1. v \in Seq(Chars) /\ s = v \o b
    BY <1>2, <1>5 DEF Trimmed
  <2>2. FlatMap(a \o u, Escapes) = FlatMap(a, Escapes) \o FlatMap(u, Escapes)
    BY <1>5, <2>1, TwoTexts
  <2> HIDE DEF v
  <2>3. FlatMap(v \o b, Escapes) = FlatMap(v, Escapes) \o FlatMap(b, Escapes)
    BY <1>5, <2>1, TwoTexts
  <2> QED BY <2>1, <2>2, <2>3 DEF v
<1>7. E(u) \in Seq(Marks)
  BY FlatMapType, EscapesType
<1>8. Tight(E(u)) /\ (E(u) = <<>> => E(b) = <<>>)
  <2>1. Bordered(u, E(u)) /\ Tight(u) /\ (u = <<>> => b = <<>>)
    BY <1>2, EscapedBorders DEF Trimmed
  <2>2. E(<<>>) = <<>>
    BY FlatMapNone
  <2> HIDE DEF E
  <2> QED BY <2>1, <2>2 DEF Bordered, Tight, Last
<1>9. Trimmed(E(s), E(a), E(u), E(b))
  <2> HIDE DEF E
  <2> QED BY <1>4, <1>6, <1>8 DEF Trimmed
<1>10. Trim(E(s)) = E(u)
  <2> HIDE DEF E
  <2> QED BY <1>1, <1>7, <1>9, TrimIs
<1> QED BY <1>3, <1>10

-----------------------------------------------------------------------------
(* SheetText: tables of w columns.                                           *)

Grid(rows, w, S) ==
    /\ rows \in Seq(Seq(S)) /\ rows # <<>> /\ w \in Nat \ {0}
    /\ \A i \in 1 .. Len(rows) : Len(rows[i]) = w

\* A function of every cell.
EachCell(rows, f) == [i \in DOMAIN rows |-> Mapped(rows[i], f)]

LEMMA GridFacts ==
    ASSUME NEW S, NEW w, NEW rows, Grid(rows, w, S)
    PROVE  /\ DOMAIN rows = 1 .. Len(rows) /\ Len(rows) \in Nat \ {0} /\ w \in Nat \ {0}
           /\ \A i \in 1 .. Len(rows) :
                  /\ rows[i] \in Seq(S) /\ Len(rows[i]) = w /\ rows[i] # <<>> /\ DOMAIN rows[i] = 1 .. w
                  /\ \A j \in 1 .. w : rows[i][j] \in S
<1>1. rows \in Seq(Seq(S)) /\ rows # <<>> /\ w \in Nat \ {0} /\ \A i \in 1 .. Len(rows) : Len(rows[i]) = w
  BY DEF Grid
<1>2. DOMAIN rows = 1 .. Len(rows) /\ Len(rows) \in Nat \ {0}
  BY <1>1, EmptySeq
<1>3. ASSUME NEW i \in 1 .. Len(rows)
      PROVE  /\ rows[i] \in Seq(S) /\ Len(rows[i]) = w /\ rows[i] # <<>> /\ DOMAIN rows[i] = 1 .. w
             /\ \A j \in 1 .. w : rows[i][j] \in S
  <2> DEFINE r == rows[i]
  <2>1. r \in Seq(S) /\ Len(r) = w
    BY <1>1
  <2> HIDE DEF r
  <2>2. r # <<>> /\ DOMAIN r = 1 .. w /\ \A j \in 1 .. w : r[j] \in S
    BY <1>1, <2>1
  <2> QED BY <2>1, <2>2 DEF r
<1> QED BY <1>1, <1>2, <1>3

CellsOf(x, rows, w, f) ==
    /\ Len(x) = Len(rows)
    /\ \A i \in 1 .. Len(rows), j \in 1 .. w : x[i][j] = f[rows[i][j]]

LEMMA EachCellIs ==
    ASSUME NEW S, NEW B, NEW f \in [S -> B], NEW w, NEW rows, Grid(rows, w, S)
    PROVE  Grid(EachCell(rows, f), w, B) /\ CellsOf(EachCell(rows, f), rows, w, f)
<1> DEFINE n == Len(rows)
           x == EachCell(rows, f)
           Q == Seq(B)
<1>1. /\ DOMAIN rows = 1 .. n /\ n \in Nat \ {0} /\ w \in Nat \ {0}
      /\ \A i \in 1 .. n : rows[i] \in Seq(S) /\ Len(rows[i]) = w
  BY GridFacts
<1>2. x = [i \in 1 .. n |-> Mapped(rows[i], f)]
  BY <1>1 DEF EachCell
<1>3. ASSUME NEW i \in 1 .. n
      PROVE  Mapped(rows[i], f) \in Q /\ Maps(Mapped(rows[i], f), rows[i], f)
  <2> DEFINE r == rows[i]
  <2>1. r \in Seq(S)
    BY <1>1
  <2> HIDE DEF r
  <2>2. Mapped(r, f) \in Seq(B) /\ Maps(Mapped(r, f), r, f)
    BY <2>1, MappedFacts
  <2> QED BY <2>2 DEF r
<1> HIDE DEF n, x, Q
<1>4. x \in [1 .. n -> Q]
  BY <1>2, <1>3
<1>5. x \in Seq(Q) /\ Len(x) = n
  <2>1. n \in Nat
    BY <1>1
  <2> QED BY <1>4, <2>1
<1>6. \A i \in 1 .. n : x[i] = Mapped(rows[i], f)
  BY <1>2
<1>7. \A i \in 1 .. n : Len(x[i]) = w /\ \A j \in 1 .. w : x[i][j] = f[rows[i][j]]
  BY <1>1, <1>3, <1>6 DEF Maps
<1>8. x # <<>>
  BY <1>1, <1>5, EmptySeq
<1> QED BY <1>1, <1>5, <1>7, <1>8 DEF Grid, CellsOf, x, n, Q

LEMMA EachCellMaps ==
    ASSUME NEW S, NEW f, NEW w, NEW rows, Grid(rows, w, S)
    PROVE  EachCell(rows, f) = [i \in DOMAIN rows |-> [j \in DOMAIN rows[i] |-> f[rows[i][j]]]]
BY DEF EachCell, Mapped

\* The cells as both sides keep them, as they are written, and as the server shows them.
Cells == Seq(Chars)
Ends == [c \in Cells |-> Newlines(c)]
Written == [c \in Seq(Tidy) |-> FlatMap(c, Escapes)]
AsShown == [c \in Seq(Tidy) |-> Trim(c)]

LEMMA CellMaps ==
    /\ Ends \in [Cells -> Seq(Tidy)] /\ Written \in [Seq(Tidy) -> Seq(Plain)]
    /\ AsShown \in [Seq(Tidy) -> Cells]
<1>1. Ends \in [Cells -> Seq(Tidy)]
  BY CellIsTidy DEF Ends, Cells
<1>2. ASSUME NEW c \in Seq(Tidy) PROVE FlatMap(c, Escapes) \in Seq(Plain) /\ Trim(c) \in Cells
  <2>1. c \in Seq(Chars)
    BY TidyIs, SeqMonotonic
  <2>2. Trim(c) \in Seq(Chars)
    BY <2>1, TrimEscapes
  <2>3. FlatMap(c, Escapes) \in Seq(Plain)
    BY EscapesPlain, FlatMapInto
  <2> QED BY <2>2, <2>3 DEF Cells
<1>3. Written \in [Seq(Tidy) -> Seq(Plain)] /\ AsShown \in [Seq(Tidy) -> Cells]
  BY <1>2 DEF Written, AsShown
<1> QED BY <1>1, <1>3

\* What is written is read back, and what is trimmed is what was to be shown.
LEMMA WrittenComesBack ==
    ASSUME NEW c \in Seq(Tidy)
    PROVE  /\ UnescapeSheetCell(Written[c]) = c
           /\ UnescapePreviewCell(Trim(Written[c])) = AsShown[c]
<1>1. c \in Seq(Chars) /\ Written[c] = FlatMap(c, Escapes) /\ AsShown[c] = Trim(c)
  BY TidyIs, SeqMonotonic DEF Written, AsShown
<1>2. UnescapeSheetCell(FlatMap(c, Escapes)) = c
  BY <1>1, EscapedComesBack
<1>3. Trim(c) \in Seq(Chars) /\ Trim(FlatMap(c, Escapes)) = FlatMap(Trim(c), Escapes)
  BY <1>1, TrimEscapes
<1>4. UnescapePreviewCell(FlatMap(Trim(c), Escapes)) = Trim(c)
  <2> DEFINE u == Trim(c)
  <2>1. u \in Seq(Chars)
    BY <1>3
  <2> HIDE DEF u
  <2>2. UnescapePreviewCell(FlatMap(u, Escapes)) = u
    BY <2>1, EscapedComesBack
  <2> QED BY <2>2 DEF u
<1> QED BY <1>1, <1>2, <1>3, <1>4

\* The text of written rows, and its lines.
LinesOfText(rows) == [i \in DOMAIN rows |-> Join(rows[i], TAB)]
TextOf(rows) == Join(LinesOfText(rows), NL)
Inline == Plain \union {TAB}

LEMMA LinesOfTextAre ==
    ASSUME NEW w, NEW rows, Grid(rows, w, Seq(Plain))
    PROVE  /\ LinesOfText(rows) \in Seq(Seq(Inline)) /\ Len(LinesOfText(rows)) = Len(rows)
           /\ \A i \in 1 .. Len(rows) : LinesOfText(rows)[i] = Join(rows[i], TAB)
           /\ \A i \in 1 .. Len(rows) : Split(Join(rows[i], TAB), TAB) = rows[i]
<1> DEFINE n == Len(rows)
           x == LinesOfText(rows)
           Q == Seq(Inline)
<1>1. /\ DOMAIN rows = 1 .. n /\ n \in Nat \ {0}
      /\ \A i \in 1 .. n : rows[i] \in Seq(Seq(Plain)) /\ rows[i] # <<>>
  BY GridFacts
<1>2. ASSUME NEW i \in 1 .. n
      PROVE  Join(rows[i], TAB) \in Q /\ Split(Join(rows[i], TAB), TAB) = rows[i]
  <2> DEFINE r == rows[i]
  <2>1. r \in Seq(Seq(Plain)) /\ r # <<>>
    BY <1>1
  <2> HIDE DEF r
  <2>2. TAB \in Inline /\ TAB \notin Plain /\ Plain \subseteq Inline
    BY DEF Inline, Plain
  <2>3. Seq(Plain) \subseteq Seq(Inline)
    BY <2>2, SeqMonotonic
  <2>4. r \in Seq(Seq(Inline))
    BY <2>1, <2>3, SeqMonotonic
  <2>5. Join(r, TAB) \in Seq(Inline)
    BY <2>2, <2>4, JoinType
  <2>6. Split(Join(r, TAB), TAB) = r
    BY <2>1, <2>2, SplitOfJoined
  <2> QED BY <2>5, <2>6 DEF r
<1>3. x = [i \in 1 .. n |-> Join(rows[i], TAB)]
  BY <1>1 DEF LinesOfText
<1> HIDE DEF n, x, Q
<1>4. x \in [1 .. n -> Q]
  BY <1>2, <1>3
<1>5. x \in Seq(Q) /\ Len(x) = n
  <2>1. n \in Nat
    BY <1>1
  <2> QED BY <1>4, <2>1
<1>6. \A i \in 1 .. n : x[i] = Join(rows[i], TAB)
  BY <1>3
<1> QED BY <1>2, <1>5, <1>6 DEF x, n, Q

\* The text has no returns, and its lines are found again.
LEMMA TextOfIs ==
    ASSUME NEW w, NEW rows, Grid(rows, w, Seq(Plain))
    PROVE  /\ Newlines(TextOf(rows)) = TextOf(rows)
           /\ Split(TextOf(rows), NL) = LinesOfText(rows)
           /\ TextOf(rows) \in Seq(Inline \union {NL})
<1> DEFINE x == LinesOfText(rows)
           S == Inline \union {NL}
<1>1. x \in Seq(Seq(Inline)) /\ x # <<>>
  <2>1. Len(x) = Len(rows) /\ Len(rows) # 0
    BY LinesOfTextAre, GridFacts
  <2>2. x # <<>>
    BY <2>1, EmptySeq
  <2> QED BY <2>2, LinesOfTextAre
<1>2. NL \in S /\ NL \notin Inline /\ CR \notin S
  BY DEF Inline, Plain, NL, TAB, CR
<1>3. x \in Seq(Seq(S))
  <2>1. Seq(Inline) \subseteq Seq(S)
    BY SeqMonotonic
  <2> HIDE DEF x, S
  <2> QED BY <1>1, <2>1, SeqMonotonic
<1> HIDE DEF x, S
<1>4. Join(x, NL) \in Seq(S)
  BY <1>2, <1>3, JoinType
<1>5. Split(Join(x, NL), NL) = x
  BY <1>1, <1>2, SplitOfJoined
<1>6. Newlines(Join(x, NL)) = Join(x, NL)
  BY <1>2, <1>4, NewlinesSame
<1> QED BY <1>4, <1>5, <1>6 DEF TextOf, x, S

-----------------------------------------------------------------------------
(* SheetText: the separator is guessed, and the rows are found again.        *)

SplitsTo(text, sep, rows) ==
    /\ Newlines(text) = text /\ Len(Split(text, NL)) = Len(rows)
    /\ \A i \in 1 .. Len(rows) : Split(Split(text, NL)[i], sep) = rows[i]

LEMMA SplitsAtTabs ==
    ASSUME NEW w, NEW rows, Grid(rows, w, Seq(Plain))
    PROVE  SplitsTo(TextOf(rows), TAB, rows)
BY LinesOfTextAre, TextOfIs DEF SplitsTo

\* Several columns: there is a tab.
LEMMA TabIsFound ==
    ASSUME NEW w, NEW rows, Grid(rows, w, Seq(Plain)), w # 1
    PROVE  Holds(TextOf(rows), TAB)
<1> DEFINE t == TextOf(rows)
           S == Inline \union {NL}
           V == S \ {TAB}
           x == LinesOfText(rows)
           r == rows[1]
<1>1. t \in Seq(S) /\ Split(t, NL) = x /\ 1 \in 1 .. Len(rows) /\ Len(r) # 1
      /\ x[1] = Join(r, TAB) /\ Split(Join(r, TAB), TAB) = r /\ Len(x) = Len(rows)
  <2>1. Len(rows) \in Nat \ {0} /\ \A i \in 1 .. Len(rows) : Len(rows[i]) = w
    BY GridFacts
  <2>2. 1 \in 1 .. Len(rows)
    BY <2>1
  <2>3. Len(r) # 1
    BY <2>1, <2>2
  <2> QED BY <2>2, <2>3, LinesOfTextAre, TextOfIs
<1> HIDE DEF t, S, V, x, r
<1> SUFFICES ASSUME ~Holds(t, TAB) PROVE FALSE
  BY DEF t
<1>2. t \in Seq(V)
  BY <1>1, HoldsNot DEF V
<1>3. Split(t, NL) \in Seq(Seq(V))
  BY <1>2, SplitType
<1>4. x[1] \in Seq(V)
  BY <1>1, <1>3
<1>5. ~Holds(x[1], TAB)
  <2>1. TAB \notin V
    BY DEF V
  <2> DEFINE y == x[1]
  <2>2. y \in Seq(V)
    BY <1>4
  <2> HIDE DEF y
  <2>3. ~Holds(y, TAB)
    BY <2>1, <2>2, HoldsNone
  <2> QED BY <2>3 DEF y
<1>6. Split(x[1], TAB) = <<x[1]>>
  <2> DEFINE y == x[1]
  <2>1. y \in Seq(V) /\ ~Holds(y, TAB)
    BY <1>4, <1>5
  <2> HIDE DEF y
  <2>2. Split(y, TAB) = <<y>>
    BY <2>1, SplitNothing
  <2> QED BY <2>2 DEF y
<1>7. Len(<<x[1]>>) = 1
  OBVIOUS
<1> QED BY <1>1, <1>6, <1>7

\* One column without the other separators: there is none of them.
Bare == Plain \ {COMMA, SEMICOLON}

LEMMA OneColumn ==
    ASSUME NEW rows, Grid(rows, 1, Seq(Bare)), NEW sep \in {TAB, COMMA, SEMICOLON}
    PROVE  SplitsTo(TextOf(rows), sep, rows) /\ ~Holds(TextOf(rows), sep)
<1> DEFINE x == LinesOfText(rows)
           n == Len(rows)
           S == Bare \union {NL}
<1>1. sep \notin S /\ sep \notin Bare /\ NL \in S /\ Bare \subseteq Plain /\ Bare \subseteq S
  <2>1. sep # NL
    BY CharsAre DEF TAB, NL
  <2> QED BY <2>1 DEF Bare, Plain
<1>2. Grid(rows, 1, Seq(Plain))
  <2>1. Seq(Bare) \subseteq Seq(Plain)
    BY <1>1, SeqMonotonic
  <2>2. Seq(Seq(Bare)) \subseteq Seq(Seq(Plain))
    BY <2>1, SeqMonotonic
  <2>3. Seq(Seq(Seq(Bare))) \subseteq Seq(Seq(Seq(Plain)))
    BY <2>2, SeqMonotonic
  <2> QED BY <2>3 DEF Grid
<1>3. /\ Newlines(TextOf(rows)) = TextOf(rows) /\ Split(TextOf(rows), NL) = x
      /\ x \in Seq(Seq(Inline)) /\ Len(x) = n /\ \A i \in 1 .. n : x[i] = Join(rows[i], TAB)
  BY <1>2, TextOfIs, LinesOfTextAre
<1>4. ASSUME NEW i \in 1 .. n
      PROVE  x[i] \in Seq(Bare) /\ Split(x[i], sep) = rows[i]
  <2> DEFINE r == rows[i]
             p == r[1]
  <2>1. r \in Seq(Seq(Bare)) /\ Len(r) = 1 /\ p \in Seq(Bare)
    <3>1. /\ rows[i] \in Seq(Seq(Bare)) /\ Len(rows[i]) = 1
          /\ \A j \in 1 .. 1 : rows[i][j] \in Seq(Bare)
      <4> DEFINE w == 1
      <4>1. Grid(rows, w, Seq(Bare)) /\ w \in Nat
        OBVIOUS
      <4> HIDE DEF w
      <4>2. \A k \in 1 .. Len(rows) :
                /\ rows[k] \in Seq(Seq(Bare)) /\ Len(rows[k]) = w
                /\ \A j \in 1 .. w : rows[k][j] \in Seq(Bare)
        BY <4>1, GridFacts
      <4> QED BY <4>2 DEF w
    <3> QED BY <3>1
  <2>2. x[i] = Join(r, TAB)
    BY <1>3
  <2> HIDE DEF r
  <2>3. r = <<p>> /\ <<p>> = Append(<<>>, p)
    BY <2>1
  <2> HIDE DEF p
  <2>4. Join(<<p>>, TAB) = p
    <3> DEFINE V == Bare \union {TAB}
    <3>1. TAB \in V /\ <<>> \in Seq(Seq(V)) /\ p \in Seq(V)
      BY <2>1, EmptySeq, SeqMonotonic
    <3> HIDE DEF V
    <3>2. Join(Append(<<>>, p), TAB) = IF <<>> = <<>> THEN p ELSE Append(Join(<<>>, TAB), TAB) \o p
      BY <3>1, JoinAppend
    <3> QED BY <2>3, <3>2
  <2>5. Split(p, sep) = <<p>>
    BY <1>1, <2>1, HoldsNone, SplitNothing
  <2> QED BY <2>1, <2>2, <2>3, <2>4, <2>5 DEF r
<1> HIDE DEF x, n, S
<1>5. SplitsTo(TextOf(rows), sep, rows)
  BY <1>3, <1>4 DEF SplitsTo, n
<1>6. x \in Seq(Seq(S))
  <2>1. Seq(Bare) \subseteq Seq(S)
    BY <1>1, SeqMonotonic
  <2>2. x \in [1 .. n -> Seq(Inline)] /\ n \in Nat
    BY <1>3, GridFacts DEF n
  <2>3. x \in [1 .. n -> Seq(S)]
    BY <1>4, <2>1, <2>2
  <2> DEFINE Q == Seq(S)
  <2> HIDE DEF Q
  <2>4. x \in Seq(Q)
    BY <2>2, <2>3 DEF Q
  <2> QED BY <2>4 DEF Q
<1>7. TextOf(rows) \in Seq(S)
  <2>1. Join(x, NL) \in Seq(S)
    BY <1>1, <1>6, JoinType
  <2> QED BY <2>1 DEF TextOf, x
<1>8. ~Holds(TextOf(rows), sep)
  BY <1>1, <1>7, HoldsNone
<1> QED BY <1>5, <1>8

\* Both sides guess a separator that gives the rows.
LEMMA SeparatorsFit ==
    ASSUME NEW w, NEW rows, Grid(rows, w, Seq(Plain)),
           w = 1 => Grid(rows, 1, Seq(Bare))
    PROVE  /\ SplitsTo(TextOf(rows), SheetDelimiter(TextOf(rows)), rows)
           /\ SplitsTo(TextOf(rows), PreviewDelimiter(TextOf(rows)), rows)
<1> DEFINE t == TextOf(rows)
<1>1. CASE w # 1
  <2>1. SheetDelimiter(t) = TAB /\ PreviewDelimiter(t) = TAB
    BY <1>1, TabIsFound DEF SheetDelimiter, PreviewDelimiter
  <2> QED BY <2>1, SplitsAtTabs
<1>2. CASE w = 1
  <2>1. \A sep \in {TAB, COMMA, SEMICOLON} : SplitsTo(t, sep, rows) /\ ~Holds(t, sep)
    BY <1>2, OneColumn
  <2> HIDE DEF t
  <2>2. SheetDelimiter(t) = TAB /\ PreviewDelimiter(t) = COMMA
    BY <2>1 DEF SheetDelimiter, PreviewDelimiter
  <2> QED BY <2>1, <2>2 DEF t
<1> QED BY <1>1, <1>2

\* The browser.
LEMMA BrowserReads ==
    ASSUME NEW w, NEW cells, Grid(cells, w, Seq(Tidy)), NEW text,
           SplitsTo(text, SheetDelimiter(text), EachCell(cells, Written)),
           Len(Split(text, NL)) \in Nat, DOMAIN Split(text, NL) = 1 .. Len(Split(text, NL))
    PROVE  ParseSheet(text) = cells
<1> DEFINE rows == EachCell(cells, Written)
           lines == Split(text, NL)
           sep == SheetDelimiter(text)
           n == Len(cells)
           found == [i \in DOMAIN lines |-> Split(lines[i], sep)]
           filled == [i \in DOMAIN found |-> [j \in 1 .. Width(found) |->
                         IF j \in DOMAIN found[i] THEN found[i][j] ELSE <<>>]]
<1>1. /\ DOMAIN cells = 1 .. n /\ n \in Nat \ {0} /\ w \in Nat \ {0}
      /\ \A i \in 1 .. n : DOMAIN cells[i] = 1 .. w
      /\ \A i \in 1 .. n, j \in 1 .. w : cells[i][j] \in Seq(Tidy)
  BY GridFacts
<1>2. /\ Len(rows) = n /\ Grid(rows, w, Seq(Plain))
      /\ \A i \in 1 .. n, j \in 1 .. w : rows[i][j] = Written[cells[i][j]]
  <2>1. Written \in [Seq(Tidy) -> Seq(Plain)]
    BY CellMaps
  <2>2. Grid(rows, w, Seq(Plain)) /\ CellsOf(rows, cells, w, Written)
    BY <2>1, EachCellIs
  <2> QED BY <2>2 DEF CellsOf
<1>3. \A i \in 1 .. n : DOMAIN rows[i] = 1 .. w /\ Len(rows[i]) = w
  BY <1>2, GridFacts
<1>4. Newlines(text) = text /\ DOMAIN lines = 1 .. n /\ \A i \in 1 .. n : Split(lines[i], sep) = rows[i]
  BY <1>2 DEF SplitsTo
<1>5. ParseSheet(text) = MapCells(filled, UnescapeSheetCell)
  <2> HIDE DEF rows
  <2> QED BY <1>4 DEF ParseSheet
<1> HIDE DEF rows, lines, sep, n
<1>6. DOMAIN found = 1 .. n /\ \A i \in 1 .. n : found[i] = rows[i]
  BY <1>4
<1> HIDE DEF found
<1>7. Width(found) = w
  <2>1. {Len(found[i]) : i \in DOMAIN found} = {w}
    <3>1. 1 \in 1 .. n
      BY <1>1
    <3> QED BY <1>3, <1>6, <3>1
  <2>2. \A i \in DOMAIN found : Len(found[i]) <= w
    BY <1>1, <1>3, <1>6
  <2> QED BY <2>1, <2>2 DEF Width
<1>8. DOMAIN filled = 1 .. n
  BY <1>6
<1>9. \A i \in 1 .. n : DOMAIN filled[i] = 1 .. w /\ \A j \in 1 .. w : filled[i][j] = rows[i][j]
  BY <1>3, <1>6, <1>7
<1> HIDE DEF filled
<1>10. MapCells(filled, UnescapeSheetCell) =
           [i \in 1 .. n |-> [j \in 1 .. w |-> UnescapeSheetCell(rows[i][j])]]
  BY <1>8, <1>9 DEF MapCells
<1>11. \A i \in 1 .. n, j \in 1 .. w : UnescapeSheetCell(rows[i][j]) = cells[i][j]
  BY <1>1, <1>2, WrittenComesBack
<1>12. \A i \in 1 .. n : [j \in 1 .. w |-> UnescapeSheetCell(rows[i][j])] = cells[i]
  <2> TAKE i \in 1 .. n
  <2> DEFINE r == cells[i]
  <2>1. cells[i] \in Seq(Seq(Tidy)) /\ Len(cells[i]) = w
    BY GridFacts DEF n
  <2>2. r = [j \in 1 .. w |-> r[j]]
    BY <2>1
  <2> QED BY <1>11, <2>2
<1>13. cells = [i \in 1 .. n |-> cells[i]]
  <2>1. cells \in Seq(Seq(Seq(Tidy)))
    BY DEF Grid
  <2> QED BY <2>1 DEF n
<1> QED BY <1>5, <1>10, <1>12, <1>13

-----------------------------------------------------------------------------
(* SheetText: the server, which leaves out blank rows.                       *)

LEMMA NotBlankIs ==
    ASSUME NEW S, NEW rows \in Seq(S)
    PROVE  NotBlank(rows) = FlatMap(rows, Pick(S, {r \in S : ~IsBlank(r)}))
<1> DEFINE V == {r \in S : ~IsBlank(r)}
<1>1. \A i \in DOMAIN rows : rows[i] \in S
  OBVIOUS
<1>2. \A i \in DOMAIN rows :
          (IF IsBlank(rows[i]) THEN <<>> ELSE << rows[i] >>) = Pick(S, V)[rows[i]]
  BY <1>1 DEF Pick
<1>3. [i \in DOMAIN rows |-> IF IsBlank(rows[i]) THEN <<>> ELSE << rows[i] >>] = Mapped(rows, Pick(S, V))
  <2> HIDE DEF V
  <2> QED BY <1>2 DEF Mapped
<1> QED BY <1>3 DEF NotBlank, FlatMap

LEMMA BlankLeftOut ==
    ASSUME NEW S, NEW rows \in Seq(S), NEW r \in S, IsBlank(r)
    PROVE  NotBlank(Append(rows, r)) = NotBlank(rows)
<1> DEFINE p == Pick(S, {x \in S : ~IsBlank(x)})
<1>1. p \in [S -> Seq(S)]
  BY PickType
<1>2. p[r] = <<>>
  BY DEF Pick
<1>3. NotBlank(rows) = FlatMap(rows, p) /\ Append(rows, r) \in Seq(S)
  BY NotBlankIs, AppendProperties
<1>4. NotBlank(Append(rows, r)) = FlatMap(Append(rows, r), p)
  BY <1>3, NotBlankIs
<1> HIDE DEF p
<1>5. FlatMap(Append(rows, r), p) = FlatMap(rows, p) \o p[r] /\ FlatMap(rows, p) \in Seq(S)
  BY <1>1, FlatMapAppend, FlatMapType
<1>6. FlatMap(rows, p) \o <<>> = FlatMap(rows, p)
  BY <1>5, ConcatEmptySeq
<1> QED BY <1>2, <1>3, <1>4, <1>5, <1>6

LEMMA NoLineIsBlank == ASSUME NEW sep PROVE IsBlank(PreviewCells(Split(<<>>, sep)))
<1>1. Split(<<>>, sep) = << <<>> >>
  BY SplitNone
<1>2. Trim(<<>>) = <<>>
  BY DEF Trim
<1>3. UnescapePreviewCell(<<>>) = <<>>
  BY ReadNone DEF UnescapePreviewCell, Unread
<1>4. \A j \in DOMAIN << <<>> >> : << <<>> >>[j] = <<>>
  OBVIOUS
<1> QED BY <1>1, <1>2, <1>3, <1>4 DEF PreviewCells, IsBlank

LEMMA GridIs ==
    ASSUME NEW S, NEW w, NEW rows, Grid(rows, w, S)
    PROVE  rows = [i \in 1 .. Len(rows) |-> [j \in 1 .. w |-> rows[i][j]]]
<1> DEFINE n == Len(rows)
<1>1. rows \in Seq(Seq(S)) /\ \A i \in 1 .. n : rows[i] \in Seq(S) /\ Len(rows[i]) = w
  BY GridFacts DEF Grid
<1>2. rows = [i \in 1 .. n |-> rows[i]]
  BY <1>1
<1>3. ASSUME NEW i \in 1 .. n PROVE rows[i] = [j \in 1 .. w |-> rows[i][j]]
  <2> DEFINE r == rows[i]
  <2>1. r \in Seq(S) /\ Len(r) = w
    BY <1>1
  <2> HIDE DEF r
  <2>2. r = [j \in 1 .. w |-> r[j]]
    BY <2>1
  <2> QED BY <2>2 DEF r
<1> HIDE DEF n
<1> QED BY <1>2, <1>3 DEF n

LEMMA ServerReads ==
    ASSUME NEW w, NEW cells, Grid(cells, w, Seq(Tidy)), NEW text, NEW S,
           SplitsTo(text, PreviewDelimiter(text), EachCell(cells, Written)),
           Split(text, NL) \in Seq(Seq(S))
    PROVE  ParsePreviewRows(text) = NotBlank(EachCell(cells, AsShown))
<1> DEFINE rows == EachCell(cells, Written)
           kept == EachCell(cells, AsShown)
           all == Split(text, NL)
           sep == PreviewDelimiter(text)
           n == Len(cells)
           Q == Seq(Cells)
           row(line) == PreviewCells(Split(line, sep))
<1>1. Grid(rows, w, Seq(Plain)) /\ CellsOf(rows, cells, w, Written)
  <2>1. Written \in [Seq(Tidy) -> Seq(Plain)]
    BY CellMaps
  <2> QED BY <2>1, EachCellIs
<1>2. Grid(kept, w, Cells) /\ CellsOf(kept, cells, w, AsShown)
  <2>1. AsShown \in [Seq(Tidy) -> Cells]
    BY CellMaps
  <2> QED BY <2>1, EachCellIs
<1>3. n \in Nat \ {0} /\ \A i \in 1 .. n, j \in 1 .. w : cells[i][j] \in Seq(Tidy)
  BY GridFacts
<1>4. Len(rows) = n /\ Len(kept) = n
  BY <1>1, <1>2 DEF CellsOf
<1>5. Newlines(text) = text /\ all \in Seq(Seq(S)) /\ Len(all) = n
      /\ \A i \in 1 .. n : Split(all[i], sep) = rows[i]
  <2> HIDE DEF rows, sep, n
  <2> QED BY <1>4 DEF SplitsTo, rows, sep
<1>6. kept \in Seq(Q) /\ \A i \in 1 .. n : kept[i] \in Q
  BY <1>2, <1>4 DEF Grid
<1>7. ParsePreviewRows(text) = NotBlank([i \in DOMAIN Lines(text) |-> row(Lines(text)[i])])
  <2> HIDE DEF rows
  <2> QED BY <1>5 DEF ParsePreviewRows
<1>8. \A i \in 1 .. n : row(all[i]) = kept[i]
  <2> TAKE i \in 1 .. n
  <2>1. row(all[i]) = PreviewCells(rows[i])
    BY <1>5
  <2>2. DOMAIN rows[i] = 1 .. w /\ \A j \in 1 .. w : rows[i][j] = Written[cells[i][j]]
    <3>1. DOMAIN rows[i] = 1 .. w
      BY <1>1, <1>4, GridFacts
    <3> QED BY <1>1, <3>1 DEF CellsOf
  <2>3. kept[i] = [j \in 1 .. w |-> kept[i][j]]
    <3>1. kept = [k \in 1 .. Len(kept) |-> [j \in 1 .. w |-> kept[k][j]]]
      BY <1>2, GridIs
    <3> HIDE DEF kept, n
    <3> QED BY <1>4, <3>1
  <2>4. \A j \in 1 .. w : kept[i][j] = UnescapePreviewCell(Trim(rows[i][j]))
    <3> TAKE j \in 1 .. w
    <3>1. kept[i][j] = AsShown[cells[i][j]] /\ rows[i][j] = Written[cells[i][j]] /\ cells[i][j] \in Seq(Tidy)
      BY <1>2, <1>3, <2>2 DEF CellsOf
    <3> DEFINE c == cells[i][j]
    <3>2. c \in Seq(Tidy)
      BY <3>1
    <3> HIDE DEF c
    <3>3. UnescapePreviewCell(Trim(Written[c])) = AsShown[c]
      BY <3>2, WrittenComesBack
    <3> QED BY <3>1, <3>3 DEF c
  <2> HIDE DEF rows, kept, n
  <2> QED BY <2>1, <2>2, <2>3, <2>4 DEF PreviewCells
<1> HIDE DEF rows, kept, all, sep, n, row, Q
<1>9. DOMAIN all = 1 .. n /\ all # <<>>
  BY <1>3, <1>5, EmptySeq
<1>10. Lines(text) = IF Last(all) = <<>> THEN Front(all) ELSE all
  BY DEF Lines, all
<1>11. CASE Last(all) # <<>>
  <2>1. [i \in DOMAIN all |-> row(all[i])] = [i \in 1 .. n |-> kept[i]]
    BY <1>8, <1>9
  <2>2. kept = [i \in 1 .. n |-> kept[i]]
    BY <1>4, <1>6
  <2> QED BY <1>7, <1>10, <1>11, <2>1, <2>2 DEF kept
<1>12. CASE Last(all) = <<>>
  <2> DEFINE f == Front(all)
             m == Len(f)
             x == [i \in DOMAIN f |-> row(f[i])]
  <2>1. f \in Seq(Seq(S)) /\ all = Append(f, <<>>)
    BY <1>5, <1>9, <1>12, FrontLast
  <2>2. <<>> \in Seq(S)
    BY EmptySeq
  <2>3. m \in Nat /\ n = m + 1 /\ DOMAIN f = 1 .. m
    <3> HIDE DEF f
    <3>1. Len(Append(f, <<>>)) = Len(f) + 1 /\ Len(f) \in Nat /\ DOMAIN f = 1 .. Len(f)
      BY <2>1, <2>2, AppendProperties
    <3> QED BY <1>5, <2>1, <3>1
  <2>4. all[n] = <<>> /\ \A i \in 1 .. m : all[i] = f[i]
    <3> HIDE DEF f
    <3>1. Append(f, <<>>)[Len(f) + 1] = <<>> /\ \A i \in 1 .. Len(f) : Append(f, <<>>)[i] = f[i]
      BY <2>1, <2>2, AppendProperties
    <3> QED BY <2>1, <2>3, <3>1
  <2> HIDE DEF f, m
  <2>5. x = [i \in 1 .. m |-> row(f[i])]
    BY <2>3
  <2>6. \A i \in 1 .. m : i \in 1 .. n /\ row(f[i]) = kept[i]
    BY <1>8, <2>3, <2>4
  <2>7. x \in [1 .. m -> Q] /\ \A i \in 1 .. m : x[i] = kept[i]
    BY <1>6, <2>5, <2>6
  <2> HIDE DEF x
  <2>8. x \in Seq(Q) /\ Len(x) = m
    BY <2>3, <2>7
  <2>9. n \in 1 .. n /\ kept[n] \in Q /\ kept[n] = row(<<>>)
    BY <1>3, <1>6, <1>8, <2>4
  <2> DEFINE r == kept[n]
  <2>10. IsBlank(r)
    BY <2>9, NoLineIsBlank DEF row
  <2>11. r \in Q
    BY <2>9
  <2> HIDE DEF r
  <2>12. kept = Append(x, r)
    <3>1. /\ Append(x, r) \in Seq(Q) /\ Len(Append(x, r)) = m + 1 /\ Append(x, r)[m + 1] = r
          /\ \A i \in 1 .. m : Append(x, r)[i] = x[i]
      BY <2>8, <2>11, AppendProperties
    <3>2. \A i \in 1 .. n : kept[i] = Append(x, r)[i]
      <4> TAKE i \in 1 .. n
      <4>1. i = m + 1 \/ i \in 1 .. m
        BY <2>3
      <4> QED BY <2>3, <2>7, <3>1, <4>1 DEF r
    <3> QED BY <1>4, <1>6, <2>3, <3>1, <3>2, SeqEqual
  <2>13. NotBlank(Append(x, r)) = NotBlank(x)
    BY <2>8, <2>10, <2>11, BlankLeftOut
  <2> QED BY <1>7, <1>10, <1>12, <2>12, <2>13 DEF x, f, kept
<1> QED BY <1>11, <1>12

-----------------------------------------------------------------------------
(* SheetText: the table of the page.                                         *)

LEMMA BareCell ==
    ASSUME NEW c \in Cells, ~Holds(c, COMMA), ~Holds(c, SEMICOLON)
    PROVE  Written[Newlines(c)] \in Seq(Bare)
<1> DEFINE A == Chars \ {COMMA}
           B == A \ {SEMICOLON}
           D == (B \ {CR}) \union {NL}
<1>1. c \in Seq(Chars) /\ Newlines(c) \in Seq(Tidy)
  BY CellIsTidy DEF Cells
<1>2. c \in Seq(A)
  BY <1>1, HoldsNot
<1> HIDE DEF A
<1>3. c \in Seq(B)
  BY <1>2, HoldsNot
<1> HIDE DEF B
<1>4. Newlines(c) \in Seq(D)
  BY <1>3, NewlinesType
<1>5. \A a \in D : Escapes[a] \in Seq(Bare)
  <2> TAKE a \in D
  <2>1. a \in Chars /\ a \notin {COMMA, SEMICOLON, CR}
    BY CharsAre DEF A, B, D, NL, CR
  <2>2. Escapes[a] = IF a = BS THEN <<BS, BS>> ELSE
            IF a = NL THEN <<BS, "n">> ELSE IF a = TAB THEN <<BS, "t">> ELSE <<a>>
    BY <2>1, EscapeOf DEF Doubled, Broken
  <2>3. {BS, "n", "t"} \subseteq Bare
    BY CharsAre DEF Bare, Plain
  <2>4. CASE a \in {BS, NL, TAB}
    BY <2>2, <2>3, <2>4
  <2>5. CASE a \notin {BS, NL, TAB}
    <3>1. a \in Bare
      BY <2>1, <2>5 DEF Bare, Plain, Marks
    <3> QED BY <2>2, <2>5, <3>1
  <2> QED BY <2>4, <2>5
<1> HIDE DEF D
<1>6. FlatMap(Newlines(c), Escapes) \in Seq(Bare)
  BY <1>4, <1>5, FlatMapInto
<1> QED BY <1>1, <1>6 DEF Written

\* Rows are written the same by both sides.
LEMMA SerializedAre ==
    ASSUME NEW w, NEW rows, Grid(rows, w, Cells)
    PROVE  /\ SerializeRows(rows) = TextOf(EachCell(EachCell(rows, Ends), Written))
           /\ SerializePreviewRows(rows) = TextOf(EachCell(EachCell(rows, Ends), Written))
<1> DEFINE n == Len(rows)
           ended == EachCell(rows, Ends)
           out == EachCell(ended, Written)
<1>1. /\ DOMAIN rows = 1 .. n
      /\ \A i \in 1 .. n : DOMAIN rows[i] = 1 .. w /\ \A j \in 1 .. w : rows[i][j] \in Cells
  BY GridFacts
<1>2. Grid(ended, w, Seq(Tidy)) /\ CellsOf(ended, rows, w, Ends)
  <2>1. Ends \in [Cells -> Seq(Tidy)]
    BY CellMaps
  <2> QED BY <2>1, EachCellIs
<1>3. Grid(out, w, Seq(Plain)) /\ CellsOf(out, ended, w, Written)
  <2>1. Written \in [Seq(Tidy) -> Seq(Plain)]
    BY CellMaps
  <2> HIDE DEF ended
  <2> QED BY <1>2, <2>1, EachCellIs
<1>4. out = [i \in 1 .. n |-> [j \in 1 .. w |-> out[i][j]]]
  <2>1. Len(out) = n
    BY <1>2, <1>3 DEF CellsOf
  <2> HIDE DEF out, n
  <2> QED BY <1>3, <2>1, GridIs
<1> HIDE DEF n, ended, out
<1>5. ASSUME NEW i \in 1 .. n, NEW j \in 1 .. w
      PROVE  /\ EscapeSheetCell(rows[i][j]) = out[i][j]
             /\ EscapePreviewCell(rows[i][j]) = out[i][j]
  <2> DEFINE c == rows[i][j]
  <2>1. c \in Seq(Chars)
    BY <1>1 DEF Cells
  <2>2. out[i][j] = Written[Ends[c]]
    <3>1. ended[i][j] = Ends[rows[i][j]] /\ out[i][j] = Written[ended[i][j]]
      BY <1>2, <1>3 DEF CellsOf, n
    <3> QED BY <3>1
  <2> HIDE DEF c
  <2>3. Ends[c] = Newlines(c) /\ Newlines(c) \in Seq(Tidy)
    BY <2>1, CellIsTidy DEF Ends, Cells
  <2>4. Written[Newlines(c)] = FlatMap(Newlines(c), Escapes)
    BY <2>3 DEF Written
  <2>5. EscapeSheetCell(c) = FlatMap(Newlines(c), Escapes)
    BY <2>1, SheetCellIs
  <2>6. EscapePreviewCell(c) = FlatMap(Newlines(c), Escapes)
    BY <2>1, PreviewCellIs
  <2> QED BY <2>2, <2>3, <2>4, <2>5, <2>6 DEF c
<1>6. MapCells(rows, EscapeSheetCell) = out /\ MapCells(rows, EscapePreviewCell) = out
  <2>1. MapCells(rows, EscapeSheetCell) = [i \in 1 .. n |-> [j \in 1 .. w |-> EscapeSheetCell(rows[i][j])]]
    BY <1>1 DEF MapCells
  <2>2. MapCells(rows, EscapePreviewCell) = [i \in 1 .. n |-> [j \in 1 .. w |-> EscapePreviewCell(rows[i][j])]]
    BY <1>1 DEF MapCells
  <2> QED BY <1>4, <1>5, <2>1, <2>2
<1>7. DOMAIN rows = DOMAIN out
  BY <1>1, <1>4
<1>8. SerializeRows(rows) = TextOf(out) /\ SerializePreviewRows(rows) = TextOf(out)
  BY <1>6, <1>7 DEF SerializeRows, SerializePreviewRows, TextOf, LinesOfText
<1> QED BY <1>8 DEF out, ended

\* What the two sides are to keep.
LEMMA KeptAre ==
    ASSUME NEW w, NEW rows, Grid(rows, w, Cells)
    PROVE  /\ MapCells(rows, Newlines) = EachCell(rows, Ends)
           /\ MapCells(MapCells(rows, Newlines), Trim) = EachCell(EachCell(rows, Ends), AsShown)
<1> DEFINE n == Len(rows)
           ended == EachCell(rows, Ends)
<1>1. /\ DOMAIN rows = 1 .. n
      /\ \A i \in 1 .. n : DOMAIN rows[i] = 1 .. w /\ \A j \in 1 .. w : rows[i][j] \in Cells
  BY GridFacts
<1>2. Grid(ended, w, Seq(Tidy))
  <2>1. Ends \in [Cells -> Seq(Tidy)]
    BY CellMaps
  <2> QED BY <2>1, EachCellIs
<1>3. ended = [i \in DOMAIN rows |-> [j \in DOMAIN rows[i] |-> Ends[rows[i][j]]]]
  BY EachCellMaps
<1>4. \A i \in 1 .. n, j \in 1 .. w : Ends[rows[i][j]] = Newlines(rows[i][j])
  BY <1>1 DEF Ends
<1>5. MapCells(rows, Newlines) = ended
  <2> HIDE DEF n, ended
  <2> QED BY <1>1, <1>3, <1>4 DEF MapCells
<1> HIDE DEF ended
<1>6. MapCells(ended, Trim) = EachCell(ended, AsShown)
  <2>1. /\ DOMAIN ended = 1 .. Len(ended)
        /\ \A i \in 1 .. Len(ended) : DOMAIN ended[i] = 1 .. w /\ \A j \in 1 .. w : ended[i][j] \in Seq(Tidy)
    BY <1>2, GridFacts
  <2>2. EachCell(ended, AsShown) = [i \in DOMAIN ended |-> [j \in DOMAIN ended[i] |-> AsShown[ended[i][j]]]]
    BY <1>2, EachCellMaps
  <2>3. \A i \in 1 .. Len(ended), j \in 1 .. w : AsShown[ended[i][j]] = Trim(ended[i][j])
    BY <2>1 DEF AsShown
  <2>4. EachCell(ended, AsShown) = [i \in 1 .. Len(ended) |-> [j \in 1 .. w |-> AsShown[ended[i][j]]]]
    BY <2>1, <2>2
  <2>5. MapCells(ended, Trim) = [i \in 1 .. Len(ended) |-> [j \in 1 .. w |-> Trim(ended[i][j])]]
    BY <2>1 DEF MapCells
  <2> QED BY <2>3, <2>4, <2>5
<1> QED BY <1>5, <1>6 DEF ended

\* In one column without the other separators, they are not written either.
LEMMA BareColumn ==
    ASSUME NEW rows, Grid(rows, 1, Cells),
           \A i \in DOMAIN rows : \A c \in {COMMA, SEMICOLON} : ~Holds(rows[i][1], c)
    PROVE  Grid(EachCell(EachCell(rows, Ends), Written), 1, Seq(Bare))
<1> DEFINE w == 1
           n == Len(rows)
           ended == EachCell(rows, Ends)
           out == EachCell(ended, Written)
<1>1. Grid(rows, w, Cells) /\ w \in Nat
  OBVIOUS
<1> HIDE DEF w
<1>2. Grid(ended, w, Seq(Tidy)) /\ CellsOf(ended, rows, w, Ends)
  <2>1. Ends \in [Cells -> Seq(Tidy)]
    BY CellMaps
  <2> QED BY <1>1, <2>1, EachCellIs
<1>3. Grid(out, w, Seq(Plain)) /\ CellsOf(out, ended, w, Written)
  <2>1. Written \in [Seq(Tidy) -> Seq(Plain)]
    BY CellMaps
  <2> HIDE DEF ended
  <2> QED BY <1>2, <2>1, EachCellIs
<1>4. /\ DOMAIN rows = 1 .. n /\ n \in Nat
      /\ \A i \in 1 .. n : \A j \in 1 .. w : rows[i][j] \in Cells
  BY <1>1, GridFacts
<1>5. Len(ended) = n /\ Len(out) = n
  BY <1>2, <1>3 DEF CellsOf
<1>6. /\ out \in Seq(Seq(Seq(Plain)))
      /\ \A i \in 1 .. n : out[i] \in Seq(Seq(Plain)) /\ Len(out[i]) = 1
  BY <1>3, <1>5, GridFacts DEF Grid, w
<1> HIDE DEF ended, out, n
<1>7. ASSUME NEW i \in 1 .. n
      PROVE  out[i] \in Seq(Seq(Bare))
  <2> DEFINE c == rows[i][1]
             r == out[i]
             Q == Seq(Bare)
  <2>1. c \in Cells /\ ~Holds(c, COMMA) /\ ~Holds(c, SEMICOLON)
    BY <1>4 DEF w
  <2>2. r[1] = Written[Ends[c]]
    <3>1. ended[i][1] = Ends[rows[i][1]]
      BY <1>2 DEF CellsOf, w, n
    <3>2. out[i][1] = Written[ended[i][1]]
      BY <1>3, <1>5 DEF CellsOf, w
    <3> QED BY <3>1, <3>2
  <2>3. r \in Seq(Seq(Plain)) /\ Len(r) = 1
    BY <1>6
  <2> HIDE DEF c, r
  <2>4. Ends[c] = Newlines(c)
    BY <2>1 DEF Ends
  <2>5. r[1] \in Q
    BY <2>1, <2>2, <2>4, BareCell
  <2> HIDE DEF Q
  <2>6. r \in Seq(Q)
    <3> DEFINE P == Seq(Plain)
    <3>1. r \in Seq(P) /\ Len(r) = 1
      BY <2>3
    <3> HIDE DEF P
    <3>2. r = [j \in 1 .. 1 |-> r[j]]
      BY <3>1
    <3>3. r \in [1 .. w -> Q]
      BY <2>5, <3>2 DEF w
    <3> QED BY <1>1, <3>3
  <2> QED BY <2>6 DEF r, Q
<1>8. out \in Seq(Seq(Seq(Bare)))
  <2> DEFINE Q == Seq(Seq(Bare))
  <2>1. \A i \in 1 .. n : out[i] \in Q
    BY <1>7
  <2>2. DOMAIN out = 1 .. n /\ out = [i \in 1 .. n |-> out[i]]
    BY <1>5, <1>6
  <2> HIDE DEF Q
  <2>3. out \in Seq(Q)
    BY <1>4, <2>1, <2>2
  <2> QED BY <2>3 DEF Q
<1>9. Grid(out, 1, Seq(Bare))
  <2>1. out # <<>> /\ \A i \in 1 .. Len(out) : Len(out[i]) = 1
    BY <1>3, <1>5, <1>6 DEF Grid
  <2> QED BY <1>8, <2>1 DEF Grid
<1> QED BY <1>9 DEF out, ended

\* A table is read back as it was, from the text either side writes.
LEMMA TableComesBack ==
    ASSUME NEW w, NEW rows, Grid(rows, w, Cells),
           w # 1 \/ \A i \in DOMAIN rows : \A c \in {COMMA, SEMICOLON} : ~Holds(rows[i][1], c),
           NEW text \in {SerializeRows(rows), SerializePreviewRows(rows)}
    PROVE  /\ ParseSheet(text) = MapCells(rows, Newlines)
           /\ ParsePreviewRows(text) = NotBlank(MapCells(MapCells(rows, Newlines), Trim))
<1> DEFINE ended == EachCell(rows, Ends)
           out == EachCell(ended, Written)
<1>1. Grid(ended, w, Seq(Tidy))
  <2>1. Ends \in [Cells -> Seq(Tidy)]
    BY CellMaps
  <2> QED BY <2>1, EachCellIs
<1>2. Grid(out, w, Seq(Plain))
  <2>1. Written \in [Seq(Tidy) -> Seq(Plain)]
    BY CellMaps
  <2> HIDE DEF ended
  <2> QED BY <1>1, <2>1, EachCellIs
<1>3. w = 1 => Grid(out, 1, Seq(Bare))
  BY BareColumn
<1>4. text = TextOf(out)
  BY SerializedAre
<1>5. /\ MapCells(rows, Newlines) = ended
      /\ MapCells(MapCells(rows, Newlines), Trim) = EachCell(ended, AsShown)
  BY KeptAre
<1> HIDE DEF ended
<1>6. SplitsTo(text, SheetDelimiter(text), out) /\ SplitsTo(text, PreviewDelimiter(text), out)
  <2> HIDE DEF out
  <2> QED BY <1>2, <1>3, <1>4, SeparatorsFit
<1>7. Split(text, NL) \in Seq(Seq(Inline))
  <2> HIDE DEF out
  <2> QED BY <1>2, <1>4, TextOfIs, LinesOfTextAre
<1>8. Len(Split(text, NL)) \in Nat /\ DOMAIN Split(text, NL) = 1 .. Len(Split(text, NL))
  <2> DEFINE s == Split(text, NL)
             Q == Seq(Inline)
  <2>1. s \in Seq(Q)
    BY <1>7
  <2> HIDE DEF s, Q
  <2>2. Len(s) \in Nat /\ DOMAIN s = 1 .. Len(s)
    BY <2>1
  <2> QED BY <2>2 DEF s
<1>9. ParseSheet(text) = ended
  BY <1>1, <1>6, <1>8, BrowserReads
<1>10. ParsePreviewRows(text) = NotBlank(EachCell(ended, AsShown))
  BY <1>1, <1>6, <1>7, ServerReads
<1> QED BY <1>5, <1>9, <1>10

(* The rows of a table have one length, whatever was typed and added.         *)
TextInv == Grid(sheet, Columns, Cells)

LEMMA GridWidth ==
    ASSUME NEW S, NEW w, NEW rows, Grid(rows, w, S)
    PROVE  Grid(rows, Len(rows[1]), S)
<1>1. 1 \in 1 .. Len(rows)
  BY GridFacts
<1> QED BY <1>1 DEF Grid

LEMMA TextStarts == TextInit => TextInv
<1> SUFFICES ASSUME TextInit PROVE TextInv
  OBVIOUS
<1> DEFINE c == <<>>
           r == <<c>>
           rows == <<r>>
           w == 1
<1>1. c \in Cells
  BY EmptySeq DEF Cells
<1> HIDE DEF c
<1>2. r \in Seq(Cells) /\ Len(r) = 1
  BY <1>1
<1> HIDE DEF r
<1>3. rows \in Seq(Seq(Cells)) /\ Len(rows) = 1 /\ rows[1] = r
  BY <1>2
<1>4. sheet = rows
  BY DEF TextInit, c, r
<1> HIDE DEF rows
<1>5. Grid(rows, w, Cells)
  <2>1. rows # <<>>
    BY <1>3, EmptySeq
  <2>2. \A i \in 1 .. Len(rows) : Len(rows[i]) = w
    BY <1>2, <1>3
  <2> QED BY <1>3, <2>1, <2>2 DEF Grid
<1> HIDE DEF w
<1>6. Grid(rows, Len(rows[1]), Cells)
  BY <1>5, GridWidth
<1> QED BY <1>4, <1>6 DEF TextInv, Columns

LEMMA TextStepKeeps == TextInv /\ [TextStep]_textVars => TextInv'
<1> SUFFICES ASSUME TextInv, [TextStep]_textVars PROVE TextInv'
  OBVIOUS
<1> DEFINE w == Columns
           n == Len(sheet)
<1>1. Grid(sheet, w, Cells)
  BY DEF TextInv
<1> HIDE DEF w
<1>2. /\ DOMAIN sheet = 1 .. n /\ n \in Nat \ {0} /\ w \in Nat \ {0}
      /\ \A k \in 1 .. n : sheet[k] \in Seq(Cells) /\ Len(sheet[k]) = w
  BY <1>1, GridFacts
<1>3. sheet \in Seq(Seq(Cells))
  BY <1>1 DEF Grid
<1> HIDE DEF n
<1>4. ASSUME NEW v, Grid(sheet', v, Cells) PROVE TextInv'
  <2> DEFINE rows == sheet'
  <2>1. Grid(rows, v, Cells)
    BY <1>4
  <2> HIDE DEF rows
  <2>2. Grid(rows, Len(rows[1]), Cells)
    BY <2>1, GridWidth
  <2> QED BY <2>2 DEF TextInv, Columns, rows
<1>5. ASSUME NEW i, NEW j, NEW c \in Chars, TypeChar(i, j, c) PROVE TextInv'
  <2> DEFINE r == sheet[i]
             p == [r EXCEPT ![j] = Append(r[j], c)]
             next == [sheet EXCEPT ![i] = p]
  <2>1. i \in 1 .. n /\ j \in 1 .. w /\ sheet' = next
    BY <1>2, <1>5 DEF TypeChar, w
  <2>2. r \in Seq(Cells) /\ Len(r) = w
    BY <1>2, <2>1
  <2> HIDE DEF r
  <2>3. p \in Seq(Cells) /\ Len(p) = w
    <3>1. r[j] \in Seq(Chars)
      BY <2>1, <2>2 DEF Cells
    <3>2. Append(r[j], c) \in Cells
      BY <3>1 DEF Cells
    <3> QED BY <1>2, <2>1, <2>2, <3>2, ExceptSeq
  <2> HIDE DEF p
  <2>4. next \in Seq(Seq(Cells)) /\ Len(next) = n /\ \A k \in 1 .. n : Len(next[k]) = w
    <3> DEFINE Q == Seq(Cells)
    <3>1. sheet \in Seq(Q) /\ p \in Q
      BY <1>3, <2>3
    <3> HIDE DEF Q
    <3>2. next \in Seq(Q) /\ Len(next) = n
      BY <1>2, <2>1, <3>1, ExceptSeq DEF n
    <3>3. \A k \in 1 .. n : next[k] = IF k = i THEN p ELSE sheet[k]
      BY <1>2
    <3>4. \A k \in 1 .. n : Len(next[k]) = w
      BY <1>2, <2>3, <3>3
    <3> QED BY <3>2, <3>4 DEF Q
  <2> HIDE DEF next
  <2>5. next # <<>>
    BY <1>2, <2>4, EmptySeq
  <2>6. Grid(next, w, Cells)
    BY <1>2, <2>4, <2>5 DEF Grid
  <2> QED BY <1>4, <2>1, <2>6
<1>6. CASE AddSheetRow
  <2> DEFINE p == [j \in 1 .. w |-> <<>>]
             next == Append(sheet, p)
  <2>1. sheet' = next
    BY <1>6 DEF AddSheetRow, w
  <2>2. p \in Seq(Cells) /\ Len(p) = w
    <3>1. <<>> \in Cells
      BY EmptySeq DEF Cells
    <3>2. p \in [1 .. w -> Cells]
      BY <3>1
    <3> QED BY <1>2, <3>2
  <2> HIDE DEF p
  <2>3. /\ next \in Seq(Seq(Cells)) /\ Len(next) = n + 1 /\ next[n + 1] = p
        /\ \A k \in 1 .. n : next[k] = sheet[k]
    BY <1>3, <2>2, AppendProperties DEF n
  <2> HIDE DEF next
  <2>4. \A k \in 1 .. Len(next) : Len(next[k]) = w
    <3> TAKE k \in 1 .. Len(next)
    <3>1. k = n + 1 \/ k \in 1 .. n
      BY <1>2, <2>3
    <3> QED BY <1>2, <2>2, <2>3, <3>1
  <2>5. next # <<>>
    BY <1>2, <2>3, EmptySeq
  <2>6. Grid(next, w, Cells)
    BY <1>2, <2>3, <2>4, <2>5 DEF Grid
  <2> QED BY <1>4, <2>1, <2>6
<1>7. CASE AddColumn
  <2> DEFINE v == w + 1
             next == [i \in 1 .. n |-> Append(sheet[i], <<>>)]
             Q == Seq(Cells)
  <2>1. sheet' = next
    BY <1>2, <1>7 DEF AddColumn
  <2>2. \A i \in 1 .. n : Append(sheet[i], <<>>) \in Q /\ Len(Append(sheet[i], <<>>)) = v
    <3> TAKE i \in 1 .. n
    <3> DEFINE r == sheet[i]
               c == <<>>
    <3>1. r \in Seq(Cells) /\ Len(r) = w /\ c \in Cells
      BY <1>2, EmptySeq DEF Cells
    <3> HIDE DEF r, c
    <3>2. Append(r, c) \in Q /\ Len(Append(r, c)) = v
      BY <3>1, AppendProperties
    <3> QED BY <3>2 DEF r, c
  <2> HIDE DEF Q
  <2>3. next \in [1 .. n -> Q] /\ \A i \in 1 .. n : Len(next[i]) = v
    BY <2>2
  <2> HIDE DEF next
  <2>4. next \in Seq(Q) /\ Len(next) = n
    BY <1>2, <2>3
  <2>5. next # <<>> /\ v \in Nat \ {0}
    BY <1>2, <2>4, EmptySeq
  <2>6. Grid(next, v, Cells)
    BY <2>3, <2>4, <2>5 DEF Grid, Q
  <2> HIDE DEF v
  <2> QED BY <1>4, <2>1, <2>6
<1>8. CASE UNCHANGED textVars
  <2>1. sheet' = sheet
    BY <1>8 DEF textVars
  <2> QED BY <1>1, <1>4, <2>1
<1> QED BY <1>5, <1>6, <1>7, <1>8 DEF TextStep

LEMMA TextInvSurvives == TextInv => TextSurvives
<1> SUFFICES ASSUME TextInv PROVE TextSurvives
  OBVIOUS
<1> DEFINE w == Columns
           kept == NotBlank(MapCells(MapCells(sheet, Newlines), Trim))
<1>1. Grid(sheet, w, Cells)
  BY DEF TextInv
<1>2. w \in Nat \ {0}
  BY <1>1, GridFacts
<1>3. ASSUME Columns > 1 \/ \A i \in DOMAIN sheet : \A c \in {COMMA, SEMICOLON} : ~Holds(sheet[i][1], c),
             NEW text \in {SerializeRows(sheet), SerializePreviewRows(sheet)}
      PROVE  ParseSheet(text) = MapCells(sheet, Newlines) /\ ParsePreviewRows(text) = kept
  <2>1. w # 1 \/ \A i \in DOMAIN sheet : \A c \in {COMMA, SEMICOLON} : ~Holds(sheet[i][1], c)
    <3> HIDE DEF kept
    <3> QED BY <1>2, <1>3
  <2> HIDE DEF w
  <2> QED BY <1>1, <1>3, <2>1, TableComesBack
<1> QED BY <1>3 DEF TextSurvives

(* Whatever is typed into a table of any size, and however many rows and     *)
(* columns it gets: the text that the browser writes (serializeRows) and the *)
(* one that the server writes (serialize_preview_rows) give back every cell  *)
(* to the browser, and the trimmed cells of the rows that are not blank to   *)
(* the server.  Tables of one column with a comma or a semicolon in it are   *)
(* left out, as in the property.                                             *)
THEOREM TextAlwaysSurvives == TextSpec => []TextSurvives
<1>1. TextSpec => []TextInv
  BY TextStarts, TextStepKeeps, PTL DEF TextSpec
<1> QED BY <1>1, TextInvSurvives, PTL
=============================================================================
