------------------------------- MODULE Server -------------------------------
(***************************************************************************)
(* The life of the server process (run in src/src/web.rs): a start reads    *)
(* and migrates the keys and loads the tables, whatever build wrote them;    *)
(* then requests are handled, until a kill takes what is only in memory:     *)
(* the keys, the sessions, the waits, the network settings and, of the       *)
(* layouts, what the file does not hold.                                     *)
(***************************************************************************)
EXTENDS KeyFiles, Codec, Access, LayoutFile

vars == <<keyVars, codecVars, accessVars, layoutVars>>

Init == KeyInit /\ CodecInit /\ AccessInit /\ LayoutInit

Starting ==
    /\ \/ KeyStep /\ UNCHANGED codecVars
       \/ LoadTables /\ LoadRows
    /\ UNCHANGED <<accessVars, layoutVars>>

\* The listening server.
Serving ==
    /\ Up
    /\ UNCHANGED keyVars
    /\ \/ AddRow /\ UNCHANGED <<accessVars, layoutVars>>
       \/ AccessStep /\ UNCHANGED <<codecVars, layoutVars>>
       \/ LayoutStep /\ UNCHANGED <<codecVars, accessVars>>

Kill ==
    /\ KillProcess /\ AccessLost /\ LayoutsReloaded
    /\ rows' = <<>> /\ UNCHANGED <<table, file, known>>

Next == Starting \/ Serving \/ Kill

Spec == Init /\ [][Next]_vars

TypeOK == KeyTypeOK /\ AccessTypeOK /\ LayoutTypeOK
=============================================================================
