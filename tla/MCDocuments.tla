---------------------------- MODULE MCDocuments ----------------------------
(* The root f, the unit e1 below it and the leaves c1, c2 below that; c2 is created later. *)
EXTENDS DocumentsProps

MCParent == <<0, 1, 2, 2>>
=============================================================================
