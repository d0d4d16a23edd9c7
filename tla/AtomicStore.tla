---------------------------- MODULE AtomicStore ----------------------------
(***************************************************************************)
(* What the persistence layer promises its callers: memory changes by      *)
(* applying updates, a commit moves the stored content to what memory      *)
(* holds in one step, and a restart finds exactly the stored content --    *)
(* as long as the store is intact.  The store may stop being intact only   *)
(* while the process runs; a commit makes it intact again.  While it is    *)
(* not intact a restart may find anything.                                 *)
(***************************************************************************)
EXTENDS Naturals

CONSTANTS NumTables, Updates, Touches

VARIABLES running, memory, content, intact

storeVars == <<running, memory, content, intact>>

StoreSnapshot == [1 .. NumTables -> SUBSET Updates]
NoRows == [t \in 1 .. NumTables |-> {}]

With(m, u) == [t \in 1 .. NumTables |->
                IF t \in Touches[u] THEN m[t] \union {u} ELSE m[t]]

Init ==
    /\ running = FALSE
    /\ memory = NoRows
    /\ content = NoRows
    /\ intact = TRUE

\* The process starts on what is stored, or on anything when that was exposed.
Boot ==
    /\ ~running
    /\ running' = TRUE
    /\ intact' = TRUE
    /\ content' \in StoreSnapshot
    /\ intact => content' = content
    /\ memory' = content'

\* One update reaches memory.
Apply(u) ==
    /\ running
    /\ memory' = With(memory, u)
    /\ UNCHANGED <<running, content, intact>>

\* One update reaches memory while a flush of an older snapshot is running.
ApplyExposed(u) ==
    /\ running
    /\ memory' = With(memory, u)
    /\ intact' = FALSE
    /\ content' = NoRows
    /\ UNCHANGED running

\* The stored content becomes what memory holds.
Commit ==
    /\ running
    /\ content' = memory
    /\ intact' = TRUE
    /\ UNCHANGED <<running, memory>>

\* The only copy starts to be overwritten in place.
Expose ==
    /\ running
    /\ intact' = FALSE
    /\ content' = NoRows
    /\ UNCHANGED <<running, memory>>

\* The process dies: memory is gone, the disk stays.
Die ==
    /\ running
    /\ running' = FALSE
    /\ memory' = NoRows
    /\ UNCHANGED <<content, intact>>

Next ==
    \/ Boot
    \/ \E u \in Updates : Apply(u) \/ ApplyExposed(u)
    \/ Commit
    \/ Expose
    \/ Die

Spec == Init /\ [][Next]_storeVars
=============================================================================
