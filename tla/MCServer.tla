------------------------------ MODULE MCServer ------------------------------
(* A small instance of Server for TLC: two accounts whose names differ only in their case.   *)
EXTENDS Server, TLC

CONSTANTS s1, s2

MCNames == {"Admin", "admin"}
MCKeyOf == [n \in MCNames |-> "admin"]
MCSlots == Permutations({s1, s2})

\* The parts meet only in a start and a kill: a behaviour has requests of one part, and has
\* them on a server whose key files were there and stay whole.
OnePartAtATime ==
    LET plainKeys == env /\ ~hurt /\ torn = {} /\ faults = 0 /\ fresh = 4 /\ "latic_public" \notin DOMAIN disk
        logins == \/ opened + updates > 0 \/ deleted # {}
                  \/ slot # AccessStart.slot \/ attempts # AccessStart.attempts
        layout == saved > 0
        codec == table # "orgs" \/ Len(known) > 1
    IN  /\ logins \/ layout \/ codec => plainKeys
        /\ ~(logins /\ layout) /\ ~(logins /\ codec) /\ ~(layout /\ codec)
=============================================================================
