----------------------------- MODULE DeltaSync -----------------------------
(***************************************************************************)
(* The delta synchronisation of src/src/web.rs: sync_bootstrap sends the   *)
(* rows that the user sees and that changed after the client's             *)
(* latest_update_at; runSync in the browser merges them, by id, into a     *)
(* cache in localStorage that all tabs share.                              *)
(*                                                                         *)
(* A row is an organization, member, activity or document in the user's    *)
(* branch.  Every handler stamps the rows it changes with a new updated_at *)
(* under the write lock, so a version of a row is known by its stamp.  The *)
(* clock is taken to move on between two handlers.  0 stands for a row     *)
(* that is not there, and for the empty latest_update_at.                  *)
(***************************************************************************)
EXTENDS Naturals

CONSTANTS
    Row,            \* the rows of the tables
    Tabs,           \* browser tabs with a session of the user
    MaxTime,        \* bound: handlers that stamp rows
    MaxRestarts,    \* bound: restarts of the server
    MaxFailures     \* bound: syncs that fail, caches that are dropped

ASSUME BoundsAssumption ==
    MaxTime \in Nat /\ MaxRestarts \in Nat /\ MaxFailures \in Nat

None == 0
Time == 0 .. MaxTime

VARIABLES
    clock,      \* the stamp of the last change
    table,      \* AppData: the stamp of each row
    saved,      \* what a restart would load
    cache,      \* localStorage: latest_update_at and the rows with their stamps
    sync,       \* each tab: the sync in flight, the cache it read and the reply
    lost,       \* history: rows a restart set back that were not changed since
    restarts, failures

vars == <<clock, table, saved, cache, sync, lost, restarts, failures>>
server == <<clock, table, saved, lost, restarts>>

Rows == [Row -> Time]
Cache == [latest : Time, rows : Rows]
NoRows == [r \in Row |-> None]
EmptyCache == [latest |-> None, rows |-> NoRows]
NoSync == [pc |-> "idle", base |-> EmptyCache, reply |-> EmptyCache]

TypeOK ==
    /\ clock \in Time
    /\ table \in Rows /\ saved \in Rows
    /\ cache \in Cache
    /\ sync \in [Tabs -> [pc : {"idle", "asked", "answered"}, base : Cache, reply : Cache]]
    /\ lost \in SUBSET Row
    /\ restarts \in 0 .. MaxRestarts /\ failures \in 0 .. MaxFailures

Init ==
    /\ clock = 0
    /\ table = NoRows
    /\ saved = NoRows
    /\ cache = EmptyCache
    /\ sync = [t \in Tabs |-> NoSync]
    /\ lost = {}
    /\ restarts = 0
    /\ failures = 0

----------------------------------------------------------------------------
(* The server. *)

\* The change is stored, or the save failed, or a flush of older data undid it.
Persist == saved' \in {table', saved}

\* Faulty variant: the stamp is taken before the write lock.
ChangeStampedEarly(S) ==
    /\ clock < MaxTime
    /\ clock' = clock + 1
    /\ \E stamp \in 1 .. clock + 1 :
        table' = [r \in Row |-> IF r \in S THEN stamp ELSE table[r]]
    /\ lost' = lost \ S
    /\ Persist
    /\ UNCHANGED <<cache, sync, restarts, failures>>

\* A handler creates or changes rows.
Change(S) ==
    /\ clock < MaxTime
    /\ clock' = clock + 1
    /\ table' = [r \in Row |-> IF r \in S THEN clock + 1 ELSE table[r]]
    /\ lost' = lost \ S
    /\ Persist
    /\ UNCHANGED <<cache, sync, restarts, failures>>

\* A handler deletes rows.
Delete(S) ==
    /\ \A r \in S : table[r] # None
    /\ table' = [r \in Row |-> IF r \in S THEN None ELSE table[r]]
    /\ Persist
    /\ UNCHANGED <<clock, cache, sync, lost, restarts, failures>>

Restart ==
    /\ restarts < MaxRestarts
    /\ restarts' = restarts + 1
    /\ table' = saved
    /\ lost' = lost \union {r \in Row : saved[r] # table[r]}
    /\ UNCHANGED <<clock, saved, cache, sync, failures>>

\* build_visible_sync_snapshot: without a since, every row.
After(since) == [r \in Row |-> IF table[r] > since THEN table[r] ELSE None]

\* latest_snapshot_timestamp
IsLatest(m, rows) ==
    /\ \A r \in Row : rows[r] <= m
    /\ m # None => \E r \in Row : rows[r] = m

----------------------------------------------------------------------------
(* runSync, started by boot and every POLL_MS, one at a time in a tab. *)

Ask(t) ==
    /\ sync[t].pc = "idle"
    /\ sync' = [sync EXCEPT ![t] = [NoSync EXCEPT !.pc = "asked", !.base = cache]]
    /\ UNCHANGED <<server, cache, failures>>

Answer(t) ==
    /\ sync[t].pc = "asked"
    /\ \E m \in Time :
        LET delta == After(sync[t].base.latest) IN
        /\ IsLatest(m, delta)
        /\ sync' = [sync EXCEPT ![t] = [pc |-> "answered", base |-> sync[t].base,
                                        reply |-> [latest |-> m, rows |-> delta]]]
    /\ UNCHANGED <<server, cache, failures>>

\* Faulty variant of Merged: what the cache has wins.
MergedOldFirst(base, reply) ==
    [latest |-> IF reply.latest = None THEN base.latest ELSE reply.latest,
     rows |-> [r \in Row |-> IF base.rows[r] = None THEN reply.rows[r] ELSE base.rows[r]]]

\* mergeSnapshot and latest_update_at; a full sync replaces the cache.
Merged(base, reply) ==
    IF base.latest = None THEN reply
    ELSE [latest |-> IF reply.latest = None THEN base.latest ELSE reply.latest,
          rows |-> [r \in Row |->
                        IF reply.rows[r] = None THEN base.rows[r] ELSE reply.rows[r]]]

Store(t) ==
    /\ sync[t].pc = "answered"
    /\ cache' = Merged(sync[t].base, sync[t].reply)
    /\ sync' = [sync EXCEPT ![t] = NoSync]
    /\ UNCHANGED <<server, failures>>

\* The fetch fails, the session is gone, or the page is left.
Fail(t) ==
    /\ failures < MaxFailures
    /\ failures' = failures + 1
    /\ sync[t].pc # "idle"
    /\ sync' = [sync EXCEPT ![t] = NoSync]
    /\ UNCHANGED <<server, cache>>

\* After a login with another password the cache cannot be decrypted and is removed.
Forget ==
    /\ failures < MaxFailures
    /\ failures' = failures + 1
    /\ cache' = EmptyCache
    /\ UNCHANGED <<server, sync>>

Next ==
    \/ \E S \in SUBSET Row \ {{}} : Change(S) \/ Delete(S)
    \/ Restart
    \/ \E t \in Tabs : Ask(t) \/ Answer(t) \/ Store(t) \/ Fail(t)
    \/ Forget

Spec == Init /\ [][Next]_vars

\* The page polls every 15 seconds, the server answers and the browser encrypts.
Fairness == \A t \in Tabs : WF_vars(Ask(t)) /\ WF_vars(Answer(t)) /\ WF_vars(Store(t))

FairSpec == Spec /\ Fairness

----------------------------------------------------------------------------

Current(c) ==
    \A r \in Row : table[r] # None /\ table[r] <= c.latest /\ r \notin lost
                        => c.rows[r] = table[r]

\* The cache may ask for what is newer than its latest_update_at only: of every row
\* still there and no newer than that it has the current version, whatever tabs wrote
\* over each other, unless a restart took that row back to an older version.
CacheIsCurrent == Current(cache)

\* Deleting and changing end some day; then the cache comes to have every row the
\* server has, through failing syncs and tabs that overlap.
CacheCatchesUp ==
    <>[](\A r \in Row : table[r] # None /\ r \notin lost => cache.rows[r] = table[r])

Inv ==
    /\ TypeOK
    /\ \A r \in Row : table[r] <= clock /\ saved[r] <= clock
    /\ cache.latest <= clock
    /\ CacheIsCurrent
    /\ \A t \in Tabs :
        /\ sync[t].pc # "idle" => sync[t].base.latest <= clock /\ Current(sync[t].base)
        /\ sync[t].pc = "answered" =>
            /\ sync[t].reply.latest <= clock
            /\ Current(Merged(sync[t].base, sync[t].reply))
=============================================================================
