-------------------------- MODULE DeltaSyncProofs --------------------------
(***************************************************************************)
(* For any rows, tabs and bounds: the cache never lacks a change that it   *)
(* will not ask for again.  The invariant extends the claim about the      *)
(* cache to the caches that syncs in flight have read, and to what they    *)
(* will store once they are answered.                                      *)
(***************************************************************************)
EXTENDS DeltaSync, TLAPS

\* The server's clock is ahead of every row and of every cache; with Inv's other
\* parts named, the proofs below speak of one at a time.
Clocked ==
    /\ \A r \in Row : table[r] <= clock /\ saved[r] <= clock
    /\ cache.latest <= clock

BasesCurrent ==
    \A t \in Tabs : sync[t].pc # "idle" =>
        sync[t].base.latest <= clock /\ Current(sync[t].base)

RepliesCurrent ==
    \A t \in Tabs : sync[t].pc = "answered" =>
        /\ sync[t].reply.latest <= clock
        /\ Current(Merged(sync[t].base, sync[t].reply))

\* Inv is the conjunction of the parts.
LEMMA InvParts ==
    Inv <=> TypeOK /\ Clocked /\ CacheIsCurrent /\ BasesCurrent /\ RepliesCurrent
BY DEF Inv, Clocked, BasesCurrent, RepliesCurrent

\* The empty cache and the record of an idle tab have their types.
LEMMA EmptyTyped == EmptyCache \in Cache /\ NoRows \in Rows
BY BoundsAssumption DEF EmptyCache, NoRows, Cache, Rows, Time, None

\* Merging keeps the type.
LEMMA MergedTyped ==
    ASSUME NEW base \in Cache, NEW reply \in Cache
    PROVE  Merged(base, reply) \in Cache
<1>1. CASE base.latest = None
    BY <1>1 DEF Merged
<1>2. CASE base.latest # None
    <2> DEFINE l == IF reply.latest = None THEN base.latest ELSE reply.latest
               q == [r \in Row |-> IF reply.rows[r] = None THEN base.rows[r] ELSE reply.rows[r]]
    <2>1. l \in Time
        BY DEF Cache
    <2>2. q \in Rows
        BY DEF Cache, Rows
    <2>3. Merged(base, reply) = [latest |-> l, rows |-> q]
        BY <1>2 DEF Merged
    <2> QED
        BY <2>1, <2>2, <2>3 DEF Cache
<1> QED
    BY <1>1, <1>2

\* The heart of the protocol: what a current cache lacks is newer than its
\* latest_update_at, so a reply to it completes it.
LEMMA ReplyCompletes ==
    ASSUME TypeOK, NEW base \in Cache, NEW m \in Time, Current(base),
           IsLatest(m, After(base.latest))
    PROVE  Current(Merged(base, [latest |-> m, rows |-> After(base.latest)]))
<1> DEFINE reply == [latest |-> m, rows |-> After(base.latest)]
<1> SUFFICES ASSUME NEW r \in Row, table[r] # None, r \notin lost
             PROVE  Merged(base, reply).rows[r] = table[r]
    BY DEF Current
<1>1. table[r] \in Nat /\ base.latest \in Nat
    BY DEF TypeOK, Rows, Cache, Time
<1>2. reply.rows[r] = IF table[r] > base.latest THEN table[r] ELSE None
    BY DEF After
<1>3. CASE base.latest = None
    BY <1>1, <1>2, <1>3 DEF Merged, None
<1>4. CASE base.latest # None
    <2>1. Merged(base, reply).rows[r] =
              IF reply.rows[r] = None THEN base.rows[r] ELSE reply.rows[r]
        BY <1>4 DEF Merged
    <2>2. CASE table[r] > base.latest
        BY <1>1, <1>2, <2>1, <2>2 DEF None
    <2>3. CASE ~(table[r] > base.latest)
        <3>1. table[r] <= base.latest
            BY <1>1, <2>3
        <3>2. base.rows[r] = table[r]
            BY <3>1 DEF Current
        <3> QED
            BY <1>2, <2>1, <2>3, <3>2
    <2> QED
        BY <2>2, <2>3
<1> QED
    BY <1>3, <1>4

\* A reply's stamps are those of rows.
LEMMA ReplyClocked ==
    ASSUME TypeOK, Clocked, NEW since \in Time, NEW m \in Time, IsLatest(m, After(since))
    PROVE  m <= clock
<1>1. CASE m = None
    BY <1>1 DEF None, TypeOK, Time
<1>2. CASE m # None
    <2>1. PICK r \in Row : After(since)[r] = m
        BY <1>2 DEF IsLatest
    <2>2. m = table[r]
        BY <1>2, <2>1 DEF After
    <2> QED
        BY <2>2 DEF Clocked
<1> QED
    BY <1>1, <1>2

\* The latest_update_at of a merge is one of the two.
LEMMA MergedLatest ==
    ASSUME NEW base \in Cache, NEW reply \in Cache, base.latest <= clock, reply.latest <= clock
    PROVE  Merged(base, reply).latest <= clock
BY DEF Merged

----------------------------------------------------------------------------

\* A cache c, read before a step, is current after it.
CurrentNext(c) ==
    \A r \in Row : table'[r] # None /\ table'[r] <= c.latest /\ r \notin lost'
                        => c.rows[r] = table'[r]

\* A change stamps rows with what no cache has reached, so no cache was to have them.
LEMMA ChangeKeepsCurrent ==
    ASSUME TypeOK, NEW S \in SUBSET Row, Change(S), NEW c \in Cache,
           c.latest <= clock, Current(c)
    PROVE  CurrentNext(c)
<1> SUFFICES ASSUME NEW r \in Row, table'[r] # None, table'[r] <= c.latest, r \notin lost'
             PROVE  c.rows[r] = table'[r]
    BY DEF CurrentNext
<1>1. table'[r] = IF r \in S THEN clock + 1 ELSE table[r]
    BY DEF Change
<1>2. clock \in Nat /\ c.latest \in Nat
    BY DEF TypeOK, Time, Cache
<1>3. r \notin S
    BY <1>1, <1>2
<1>4. r \notin lost
    BY <1>3 DEF Change
<1> QED
    BY <1>1, <1>3, <1>4 DEF Current

\* A deletion asks nothing of a cache.
LEMMA DeleteKeepsCurrent ==
    ASSUME NEW S \in SUBSET Row, Delete(S), NEW c, Current(c)
    PROVE  CurrentNext(c)
BY DEF Delete, Current, CurrentNext

\* A restart asks nothing of a cache for the rows it set back.
LEMMA RestartKeepsCurrent ==
    ASSUME Restart, NEW c, Current(c)
    PROVE  CurrentNext(c)
BY DEF Restart, Current, CurrentNext

\* What the server does leaves every current cache current.
LEMMA ServerKeepsCurrent ==
    ASSUME TypeOK, NEW c \in Cache, c.latest <= clock, Current(c),
           (\E S \in SUBSET Row \ {{}} : Change(S) \/ Delete(S)) \/ Restart
    PROVE  CurrentNext(c)
BY ChangeKeepsCurrent, DeleteKeepsCurrent, RestartKeepsCurrent

\* The clock only moves on, and stays ahead of the rows, in what the server does.
LEMMA ServerClock ==
    ASSUME TypeOK, Clocked,
           (\E S \in SUBSET Row \ {{}} : Change(S) \/ Delete(S)) \/ Restart
    PROVE  clock <= clock' /\ clock' \in Nat /\ \A r \in Row : table'[r] <= clock' /\ saved'[r] <= clock'
<1>1. clock \in Nat /\ \A r \in Row : table[r] \in Nat /\ saved[r] \in Nat
    BY DEF TypeOK, Rows, Time
<1>2. ASSUME NEW S \in SUBSET Row, Change(S)
      PROVE  clock <= clock' /\ clock' \in Nat /\ \A r \in Row : table'[r] <= clock' /\ saved'[r] <= clock'
    <2>1. clock' = clock + 1 /\ \A r \in Row : table'[r] <= clock'
        BY <1>1, <1>2 DEF Change, Clocked
    <2>2. \A r \in Row : saved[r] <= clock'
        BY <1>1, <2>1 DEF Clocked
    <2> QED
        BY <1>1, <1>2, <2>1, <2>2 DEF Change, Persist
<1>3. ASSUME NEW S \in SUBSET Row, Delete(S)
      PROVE  clock <= clock' /\ clock' \in Nat /\ \A r \in Row : table'[r] <= clock' /\ saved'[r] <= clock'
    <2>1. clock' = clock /\ \A r \in Row : table'[r] <= clock'
        BY <1>1, <1>3 DEF Delete, Clocked, None
    <2> QED
        BY <1>1, <1>3, <2>1 DEF Delete, Persist, Clocked
<1>4. CASE Restart
    BY <1>1, <1>4 DEF Restart, Clocked
<1> QED
    BY <1>2, <1>3, <1>4

\* Every step keeps every variable in its type.
LEMMA TypeStep == TypeOK /\ [Next]_vars => TypeOK'
<1> SUFFICES ASSUME TypeOK, [Next]_vars PROVE TypeOK'
    OBVIOUS
<1> USE BoundsAssumption
<1>1. ASSUME NEW S \in SUBSET Row, Change(S) PROVE TypeOK'
    <2>1. clock' \in Time
        BY <1>1 DEF Change, TypeOK, Time
    <2>2. table' \in Rows
        BY <1>1, <2>1 DEF Change, TypeOK, Rows
    <2> QED
        BY <1>1, <2>1, <2>2 DEF Change, Persist, TypeOK
<1>2. ASSUME NEW S \in SUBSET Row, Delete(S) PROVE TypeOK'
    <2>1. table' \in Rows
        BY <1>2 DEF Delete, TypeOK, Rows, Time, None
    <2> QED
        BY <1>2, <2>1 DEF Delete, Persist, TypeOK
<1>3. CASE Restart
    BY <1>3 DEF Restart, TypeOK
<1>4. ASSUME NEW t \in Tabs, Ask(t) PROVE TypeOK'
    BY <1>4, EmptyTyped DEF Ask, TypeOK, NoSync, server
<1>5. ASSUME NEW t \in Tabs, Answer(t) PROVE TypeOK'
    <2>1. PICK m \in Time :
            sync' = [sync EXCEPT ![t] = [pc |-> "answered", base |-> sync[t].base,
                        reply |-> [latest |-> m, rows |-> After(sync[t].base.latest)]]]
        BY <1>5 DEF Answer
    <2>2. After(sync[t].base.latest) \in Rows
        BY DEF After, TypeOK, Rows, Time, None
    <2>3. [latest |-> m, rows |-> After(sync[t].base.latest)] \in Cache
        BY <2>2 DEF Cache
    <2> QED
        BY <1>5, <2>1, <2>3 DEF Answer, TypeOK, server
<1>6. ASSUME NEW t \in Tabs, Store(t) PROVE TypeOK'
    <2>1. Merged(sync[t].base, sync[t].reply) \in Cache
        BY MergedTyped DEF TypeOK
    <2> QED
        BY <1>6, <2>1, EmptyTyped DEF Store, TypeOK, NoSync, server
<1>7. ASSUME NEW t \in Tabs, Fail(t) PROVE TypeOK'
    BY <1>7, EmptyTyped DEF Fail, TypeOK, NoSync, server
<1>8. CASE Forget
    BY <1>8, EmptyTyped DEF Forget, TypeOK, server
<1>9. CASE UNCHANGED vars
    BY <1>9 DEF vars, TypeOK
<1> QED
    BY <1>1, <1>2, <1>3, <1>4, <1>5, <1>6, <1>7, <1>8, <1>9 DEF Next

\* Every step keeps the invariant.
LEMMA InvStep == Inv /\ [Next]_vars => Inv'
<1> SUFFICES ASSUME Inv, [Next]_vars PROVE Inv'
    OBVIOUS
<1>0. TypeOK /\ Clocked /\ CacheIsCurrent /\ BasesCurrent /\ RepliesCurrent
    BY InvParts
<1> SUFFICES Clocked' /\ CacheIsCurrent' /\ BasesCurrent' /\ RepliesCurrent'
    BY <1>0, TypeStep DEF Inv, Clocked, BasesCurrent, RepliesCurrent
<1>t. /\ clock \in Nat /\ cache \in Cache /\ cache.latest \in Nat
      /\ \A t \in Tabs : /\ sync[t].base \in Cache /\ sync[t].reply \in Cache
                         /\ sync[t].base.latest \in Nat /\ sync[t].reply.latest \in Nat
                         /\ Merged(sync[t].base, sync[t].reply) \in Cache
    BY <1>0, MergedTyped DEF TypeOK, Cache, Time
<1>1. CASE (\E S \in SUBSET Row \ {{}} : Change(S) \/ Delete(S)) \/ Restart
    <2>1. UNCHANGED <<cache, sync>>
        BY <1>1 DEF Change, Delete, Restart
    <2>2. clock <= clock' /\ clock' \in Nat /\ \A r \in Row : table'[r] <= clock' /\ saved'[r] <= clock'
        BY <1>0, <1>1, ServerClock
    <2>3. \A c \in Cache : c.latest <= clock /\ Current(c) => CurrentNext(c)
        BY <1>0, <1>1, ServerKeepsCurrent
    <2>4. Clocked'
        BY <1>0, <1>t, <2>1, <2>2 DEF Clocked
    <2>5. CacheIsCurrent'
        <3>1. CurrentNext(cache)
            BY <1>0, <1>t, <2>3 DEF CacheIsCurrent, Clocked
        <3> QED
            BY <2>1, <3>1 DEF CacheIsCurrent, Current, CurrentNext
    <2>6. BasesCurrent'
        <3> SUFFICES ASSUME NEW t \in Tabs, sync[t].pc # "idle"
                     PROVE  sync[t].base.latest <= clock' /\ CurrentNext(sync[t].base)
            BY <2>1 DEF BasesCurrent, Current, CurrentNext
        <3>1. sync[t].base.latest <= clock /\ Current(sync[t].base)
            BY <1>0 DEF BasesCurrent
        <3> QED
            BY <1>t, <2>2, <2>3, <3>1
    <2>7. RepliesCurrent'
        <3> SUFFICES ASSUME NEW t \in Tabs, sync[t].pc = "answered"
                     PROVE  /\ sync[t].reply.latest <= clock'
                            /\ CurrentNext(Merged(sync[t].base, sync[t].reply))
            BY <2>1 DEF RepliesCurrent, Current, CurrentNext, Merged
        <3>1. /\ sync[t].reply.latest <= clock
              /\ Current(Merged(sync[t].base, sync[t].reply))
              /\ sync[t].base.latest <= clock
            BY <1>0 DEF RepliesCurrent, BasesCurrent
        <3>2. Merged(sync[t].base, sync[t].reply).latest <= clock
            BY <1>t, <3>1, MergedLatest
        <3>3. sync[t].reply.latest <= clock'
            BY <1>t, <2>2, <3>1
        <3>4. CurrentNext(Merged(sync[t].base, sync[t].reply))
            BY <1>t, <2>3, <3>1, <3>2
        <3> QED
            BY <3>3, <3>4
    <2> QED
        BY <2>4, <2>5, <2>6, <2>7
<1>2. ASSUME NEW t \in Tabs, Ask(t)
      PROVE  Clocked' /\ CacheIsCurrent' /\ BasesCurrent' /\ RepliesCurrent'
    <2>1. UNCHANGED <<server, cache>>
        BY <1>2 DEF Ask
    <2>2. Clocked' /\ CacheIsCurrent'
        BY <1>0, <2>1 DEF Clocked, CacheIsCurrent, Current, server
    <2>3. /\ \A u \in Tabs \ {t} : sync'[u] = sync[u]
          /\ sync'[t].pc = "asked" /\ sync'[t].base = cache
        BY <1>0, <1>2 DEF Ask, TypeOK, NoSync
    <2>4. BasesCurrent'
        BY <1>0, <2>1, <2>3 DEF BasesCurrent, Clocked, CacheIsCurrent, Current, server
    <2>5. RepliesCurrent'
        <3> SUFFICES ASSUME NEW u \in Tabs, sync'[u].pc = "answered"
                     PROVE  /\ sync'[u].reply.latest <= clock
                            /\ Current(Merged(sync'[u].base, sync'[u].reply))
            BY <2>1 DEF RepliesCurrent, Current, server, Merged
        <3>1. u # t
            BY <2>3
        <3> QED
            BY <1>0, <2>3, <3>1 DEF RepliesCurrent
    <2> QED
        BY <2>2, <2>4, <2>5
<1>3. ASSUME NEW t \in Tabs, Answer(t)
      PROVE  Clocked' /\ CacheIsCurrent' /\ BasesCurrent' /\ RepliesCurrent'
    <2>1. UNCHANGED <<server, cache>>
        BY <1>3 DEF Answer
    <2>2. Clocked' /\ CacheIsCurrent'
        BY <1>0, <2>1 DEF Clocked, CacheIsCurrent, Current, server
    <2> DEFINE base == sync[t].base
    <2>3. PICK m \in Time :
            /\ IsLatest(m, After(base.latest))
            /\ sync' = [sync EXCEPT ![t] = [pc |-> "answered", base |-> base,
                            reply |-> [latest |-> m, rows |-> After(base.latest)]]]
        BY <1>3 DEF Answer
    <2>4. sync[t].pc = "asked" /\ base.latest <= clock /\ Current(base)
        BY <1>0, <1>3 DEF Answer, BasesCurrent
    <2>5. /\ \A u \in Tabs \ {t} : sync'[u] = sync[u]
          /\ sync'[t].base = base
          /\ sync'[t].reply = [latest |-> m, rows |-> After(base.latest)]
        BY <1>0, <2>3 DEF TypeOK
    <2>6. BasesCurrent'
        BY <1>0, <2>1, <2>4, <2>5 DEF BasesCurrent, Current, server
    <2>7. base \in Cache /\ base.latest \in Time
        BY <1>t DEF Cache
    <2>8. m <= clock
        BY <1>0, <2>3, <2>7, ReplyClocked
    <2>9. Current(Merged(base, [latest |-> m, rows |-> After(base.latest)]))
        BY <1>0, <2>3, <2>4, <2>7, ReplyCompletes
    <2>10. RepliesCurrent'
        <3> SUFFICES ASSUME NEW u \in Tabs, sync'[u].pc = "answered"
                     PROVE  /\ sync'[u].reply.latest <= clock
                            /\ Current(Merged(sync'[u].base, sync'[u].reply))
            BY <2>1 DEF RepliesCurrent, Current, server, Merged
        <3>1. CASE u = t
            BY <2>5, <2>8, <2>9, <3>1
        <3>2. CASE u # t
            BY <1>0, <2>5, <3>2 DEF RepliesCurrent
        <3> QED
            BY <3>1, <3>2
    <2> QED
        BY <2>2, <2>6, <2>10
<1>4. ASSUME NEW t \in Tabs, NEW c \in Cache, c.latest <= clock, Current(c),
             UNCHANGED server, cache' = c,
             sync' = sync \/ sync' = [sync EXCEPT ![t] = NoSync]
      PROVE  Clocked' /\ CacheIsCurrent' /\ BasesCurrent' /\ RepliesCurrent'
    <2>1. Clocked' /\ CacheIsCurrent'
        BY <1>0, <1>4 DEF Clocked, CacheIsCurrent, Current, server
    <2>2. \A u \in Tabs : sync'[u].pc # "idle" => sync'[u] = sync[u]
        BY <1>0, <1>4 DEF TypeOK, NoSync
    <2>3. BasesCurrent'
        BY <1>0, <1>4, <2>2 DEF BasesCurrent, Current, server
    <2>4. RepliesCurrent'
        <3> SUFFICES ASSUME NEW u \in Tabs, sync'[u].pc = "answered"
                     PROVE  /\ sync'[u].reply.latest <= clock
                            /\ Current(Merged(sync'[u].base, sync'[u].reply))
            BY <1>4 DEF RepliesCurrent, Current, server, Merged
        <3> QED
            BY <1>0, <2>2 DEF RepliesCurrent
    <2> QED
        BY <2>1, <2>3, <2>4
<1>c. cache.latest <= clock /\ Current(cache)
    BY <1>0 DEF Clocked, CacheIsCurrent
<1>5. ASSUME NEW t \in Tabs, Store(t)
      PROVE  Clocked' /\ CacheIsCurrent' /\ BasesCurrent' /\ RepliesCurrent'
    <2>1. /\ sync[t].reply.latest <= clock /\ sync[t].base.latest <= clock
          /\ Current(Merged(sync[t].base, sync[t].reply))
        BY <1>0, <1>5 DEF Store, RepliesCurrent, BasesCurrent
    <2>2. Merged(sync[t].base, sync[t].reply).latest <= clock
        BY <1>t, <2>1, MergedLatest
    <2> QED
        BY <1>4, <1>5, <1>t, <2>1, <2>2 DEF Store
<1>6. ASSUME NEW t \in Tabs, Fail(t)
      PROVE  Clocked' /\ CacheIsCurrent' /\ BasesCurrent' /\ RepliesCurrent'
    BY <1>4, <1>6, <1>t, <1>c DEF Fail
<1>7. CASE Forget
    <2>1. EmptyCache.latest <= clock /\ Current(EmptyCache)
        BY <1>0, <1>t DEF EmptyCache, Current, None, TypeOK, Rows, Time
    <2>2. Clocked' /\ CacheIsCurrent'
        BY <1>0, <1>7, <2>1 DEF Forget, Clocked, CacheIsCurrent, Current, server
    <2>3. BasesCurrent'
        BY <1>0, <1>7 DEF Forget, BasesCurrent, Current, server
    <2>4. RepliesCurrent'
        BY <1>0, <1>7 DEF Forget, RepliesCurrent, Current, server, Merged
    <2> QED
        BY <2>2, <2>3, <2>4
<1>8. CASE UNCHANGED vars
    <2>1. UNCHANGED <<server, cache, sync>>
        BY <1>8 DEF vars, server
    <2>2. Clocked' /\ CacheIsCurrent' /\ BasesCurrent'
        BY <1>0, <2>1 DEF Clocked, CacheIsCurrent, BasesCurrent, Current, server
    <2>3. RepliesCurrent'
        BY <1>0, <2>1 DEF RepliesCurrent, Current, server, Merged
    <2> QED
        BY <2>2, <2>3
<1> QED
    BY <1>1, <1>2, <1>3, <1>5, <1>6, <1>7, <1>8 DEF Next

\* Every reachable state has the invariant.
THEOREM CacheInvHolds == Spec => []Inv
<1>1. Init => Inv
    <2> SUFFICES ASSUME Init PROVE Inv
        OBVIOUS
    <2>1. TypeOK
        BY EmptyTyped, BoundsAssumption DEF Init, TypeOK, NoSync, Time
    <2>2. Clocked /\ CacheIsCurrent
        BY DEF Init, Clocked, CacheIsCurrent, Current, EmptyCache, NoRows, None
    <2>3. BasesCurrent /\ RepliesCurrent
        BY DEF Init, BasesCurrent, RepliesCurrent, NoSync
    <2> QED
        BY <2>1, <2>2, <2>3, InvParts
<1> QED
    BY <1>1, InvStep, PTL DEF Spec

\* The browser's cache is current for every number of rows, tabs and changes.
THEOREM CacheStaysCurrent == Spec => []CacheIsCurrent
<1>1. Inv => CacheIsCurrent
    BY DEF Inv
<1> QED
    BY <1>1, CacheInvHolds, PTL

\* Every variable keeps its type.
THEOREM SyncTypes == Spec => []TypeOK
<1>1. Inv => TypeOK
    BY DEF Inv
<1> QED
    BY <1>1, CacheInvHolds, PTL
=============================================================================
