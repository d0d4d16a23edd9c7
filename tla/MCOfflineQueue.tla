--------------------------- MODULE MCOfflineQueue ---------------------------
(* Small instances of OfflineQueue for TLC. *)
EXTENDS OfflineQueue, TLC

CONSTANTS t1, t2

MCTabs == Permutations({t1, t2})

\* The form that is refused for good leaves the queue as one that is applied does; and for
\* what is kept and applied, an action that is faulty for good takes the steps of a trouble.
MCLive == {q \in Request : q.kind = "form" => q.fate = "fine"}
MCSafe == {q \in MCLive : q.fate # "faulty"}
=============================================================================
