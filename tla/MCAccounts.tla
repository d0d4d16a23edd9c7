----------------------------- MODULE MCAccounts -----------------------------
(* A small instance of Accounts for TLC: unit f above e1, which may be       *)
(* deleted and created anew.                                               *)
EXTENDS Accounts, TLC

CONSTANTS s1, s2

MCUnits == {"f", "e1"}
MCAbove == [u \in MCUnits |-> IF u = "f" THEN {} ELSE {"f"}]
MCCode == [u \in MCUnits |-> IF u = "f" THEN "0" ELSE "1"]
MCLabel == [u \in MCUnits |-> IF u = "e1" THEN "e1" ELSE "x"]
MCTrim == [text \in Password |-> IF text = " p" THEN "p" ELSE text]
MCSlots == Permutations({s1, s2})
=============================================================================
