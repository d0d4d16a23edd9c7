-------------------------------- MODULE Views --------------------------------
(***************************************************************************)
(* What the pages compute from the data: the text of a table (SheetText),   *)
(* tables merged on their way up (TableMerge), and the tree with what each   *)
(* user sees of it (TreeLayout).  The three share no state, so that a        *)
(* behaviour edits one of them, in every way that a sequence of edits can.   *)
(***************************************************************************)
EXTENDS SheetText, TableMerge, TreeLayout

VARIABLE edited     \* the part that the behaviour edits

vars == <<edited, textVars, tableVars, treeVars>>

Init ==
    /\ edited \in {"text", "tables", "tree"}
    /\ TextInit /\ TableInit /\ TreeInit

EditText == edited = "text" /\ TextStep /\ UNCHANGED <<tableVars, treeVars>>
EditTables == edited = "tables" /\ TableStep /\ UNCHANGED <<textVars, treeVars>>
EditTree == edited = "tree" /\ TreeStep /\ UNCHANGED <<textVars, tableVars>>

Next == (EditText \/ EditTables \/ EditTree) /\ UNCHANGED edited

Spec == Init /\ [][Next]_vars
=============================================================================
