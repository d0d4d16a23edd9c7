----------------------------- MODULE MCStorage -----------------------------
(* Small instances of Storage for TLC. *)
EXTENDS StorageProps, TLC

CONSTANTS u1, u2

\* u1 changes every table, as delete_tree_node does; u2 one of them.
MCTouchesNarrow == u1 :> {1, 2} @@ u2 :> {2}
=============================================================================
