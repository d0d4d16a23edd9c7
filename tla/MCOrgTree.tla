----------------------------- MODULE MCOrgTree -----------------------------
(* Small instances of OrgTree for TLC. *)
EXTENDS OrgTreeProps, TLC

CONSTANTS s1, s2

MCSlots == Permutations({s1, s2})

MCNode(parent, tier) == [parent |-> parent, tier |-> tier, sample |-> FALSE]

\* A root, a unit below it, and a c unit below that.
MCForest == <<MCNode(0, 0), MCNode(1, 1), [parent |-> 2, tier |-> 2, sample |-> TRUE]>>
=============================================================================
