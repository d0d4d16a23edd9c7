---------------------------- MODULE MCSheetEditor ----------------------------
(* A small instance of SheetEditor for TLC: two documents.                   *)
EXTENDS SheetEditor

CONSTANTS d1, d2
=============================================================================
