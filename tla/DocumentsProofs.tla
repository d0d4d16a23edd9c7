--------------------------- MODULE DocumentsProofs ---------------------------
(* Proofs about Documents, for every tree of units and any number of          *)
(* documents, requests, failures and restarts.                                *)
EXTENDS DocumentsProps, FiniteSetTheorems, WellFoundedInduction, TLAPS

-----------------------------------------------------------------------------
(* Least and greatest numbers.                                               *)

LEMMA Least ==
    ASSUME NEW T \in SUBSET Nat, T # {}
    PROVE  \E x \in T : \A y \in T : x <= y
<1> DEFINE R == {p \in Nat \X Nat : p[1] < p[2]}
<1>1. IsWellFoundedOn(R, Nat)
  BY NatLessThanWellFounded DEF OpToRel
<1>2. \E x \in T : \A y \in T : <<y, x>> \notin R
  <2> HIDE DEF R
  <2> QED BY <1>1, WFMin
<1>3. \A x, y \in T : <<y, x>> \notin R => x <= y
  OBVIOUS
<1> QED BY <1>2, <1>3

\* Numbers below a bound have a greatest one.
LEMMA MaxFacts ==
    ASSUME NEW S \in SUBSET Nat, NEW b \in Nat, \A k \in S : k <= b
    PROVE  /\ MaxOf(S) \in Nat /\ MaxOf(S) <= b
           /\ MaxOf(S) \in S \union {0} /\ \A k \in S : k <= MaxOf(S)
<1> DEFINE T == {n \in Nat : \A k \in S : k <= n}
<1>1. PICK m \in T : \A n \in T : m <= n
  <2>1. T \in SUBSET Nat /\ b \in T
    OBVIOUS
  <2> HIDE DEF T
  <2> QED BY <2>1, Least
<1>2. m \in S \union {0}
  <2> SUFFICES ASSUME m \notin S, m # 0 PROVE FALSE
    OBVIOUS
  <2>1. m - 1 \in Nat /\ \A k \in S : k <= m - 1
    OBVIOUS
  <2>2. m <= m - 1
    BY <1>1, <2>1
  <2> QED BY <2>2
<1>3. MaxOf(S) \in S \union {0} /\ \A k \in S : k <= MaxOf(S)
  <2>1. m \in S \union {0} /\ \A k \in S : k <= m
    BY <1>2
  <2> QED BY <2>1 DEF MaxOf
<1>4. \A x \in S \union {0} : x \in Nat /\ x <= b
  OBVIOUS
<1> QED BY <1>3, <1>4

-----------------------------------------------------------------------------
(* Places in a strict order of a finite set.                                 *)

\* The relation R is a strict total order of S.
StrictOrder(R, S) ==
    /\ \A i \in S : <<i, i>> \notin R
    /\ \A i, j \in S : i # j => <<i, j>> \in R \/ <<j, i>> \in R
    /\ \A i, j, k \in S : <<i, j>> \in R /\ <<j, k>> \in R => <<i, k>> \in R

Below(R, S, i) == {j \in S : <<j, i>> \in R}

LEMMA BelowGrows ==
    ASSUME NEW S, IsFiniteSet(S), NEW R, StrictOrder(R, S),
           NEW i \in S, NEW j \in S, <<i, j>> \in R
    PROVE  Cardinality(Below(R, S, i)) < Cardinality(Below(R, S, j))
<1> DEFINE A == Below(R, S, i)
           B == Below(R, S, j)
<1>1. A \subseteq B /\ i \in B /\ i \notin A /\ B \subseteq S
  BY DEF Below, StrictOrder
<1> HIDE DEF A, B
<1>2. IsFiniteSet(B) /\ A \in SUBSET B
  BY <1>1, FS_Subset
<1>3. IsFiniteSet(A) /\ Cardinality(A) <= Cardinality(B) /\ (Cardinality(B) = Cardinality(A) => B = A)
  BY <1>2, FS_Subset
<1>4. Cardinality(A) \in Nat /\ Cardinality(B) \in Nat
  BY <1>2, <1>3, FS_CardinalityType
<1>5. Cardinality(A) < Cardinality(B)
  BY <1>1, <1>3, <1>4
<1> QED BY <1>5 DEF A, B

\* Each number below that of the elements counts what is below exactly one of them.
Ranked(R, S) ==
    /\ Cardinality(S) \in Nat
    /\ \A i \in S : Cardinality(Below(R, S, i)) \in 0 .. Cardinality(S) - 1
    /\ \A i, j \in S : Cardinality(Below(R, S, i)) = Cardinality(Below(R, S, j)) => i = j
    /\ \A n \in 1 .. Cardinality(S) : \E i \in S : Cardinality(Below(R, S, i)) = n - 1

LEMMA PlacesFacts ==
    ASSUME NEW S, IsFiniteSet(S), NEW R, StrictOrder(R, S)
    PROVE  Ranked(R, S)
<1> DEFINE C == Cardinality(S)
           f == [i \in S |-> Cardinality(Below(R, S, i)) + 1]
           T == 1 .. C
<1>1. C \in Nat /\ IsFiniteSet(T) /\ Cardinality(T) = C
  <2>1. C \in Nat
    BY FS_CardinalityType
  <2> HIDE DEF C
  <2>2. 1 \in Int /\ C \in Int
    BY <2>1
  <2>3. IsFiniteSet(T) /\ Cardinality(T) = IF 1 > C THEN 0 ELSE C - 1 + 1
    BY <2>2, FS_Interval
  <2> QED BY <2>1, <2>3
<1>2. ASSUME NEW i \in S PROVE Cardinality(Below(R, S, i)) \in 0 .. C - 1
  <2> DEFINE B == Below(R, S, i)
  <2>1. B \in SUBSET S /\ i \notin B
    BY DEF Below, StrictOrder
  <2> HIDE DEF B
  <2>2. IsFiniteSet(B) /\ Cardinality(B) <= C /\ Cardinality(B) # C
    BY <2>1, FS_Subset
  <2>3. Cardinality(B) \in Nat
    BY <2>2, FS_CardinalityType
  <2>4. Cardinality(B) \in 0 .. C - 1
    BY <1>1, <2>2, <2>3
  <2> QED BY <2>4 DEF B
<1>3. ASSUME NEW i \in S, NEW j \in S,
             Cardinality(Below(R, S, i)) = Cardinality(Below(R, S, j))
      PROVE  i = j
  <2> SUFFICES ASSUME i # j PROVE FALSE
    OBVIOUS
  <2>1. <<i, j>> \in R \/ <<j, i>> \in R
    BY DEF StrictOrder
  <2>2. \/ Cardinality(Below(R, S, i)) < Cardinality(Below(R, S, j))
        \/ Cardinality(Below(R, S, j)) < Cardinality(Below(R, S, i))
    BY <2>1, BelowGrows
  <2> QED BY <1>2, <1>3, <2>2
<1>4. f \in Injection(S, T)
  <2>1. f \in [S -> T]
    BY <1>1, <1>2
  <2>2. \A i, j \in S : f[i] = f[j] => i = j
    BY <1>2, <1>3
  <2> HIDE DEF f, T
  <2> QED BY <2>1, <2>2 DEF Injection, IsInjective
<1>5. f \in Surjection(S, T)
  <2> HIDE DEF f, T
  <2> QED BY <1>1, <1>4, FS_Injection
<1>6. \A n \in T : \E i \in S : f[i] = n
  <2> HIDE DEF f, T
  <2> QED BY <1>5 DEF Surjection
<1>7. ASSUME NEW n \in 1 .. C PROVE \E i \in S : Cardinality(Below(R, S, i)) = n - 1
  <2>1. PICK i \in S : f[i] = n
    BY <1>6
  <2>2. Cardinality(Below(R, S, i)) + 1 = n /\ Cardinality(Below(R, S, i)) \in Nat
    BY <1>2, <2>1
  <2> QED BY <2>2
<1> QED BY <1>1, <1>2, <1>3, <1>7 DEF Ranked

\* The order of documents by their upload.
ByTime(d, S) == {p \in S \X S : Earlier(d, p[1], p[2])}

LEMMA ByTimeOrder ==
    ASSUME NEW d, NEW S \in SUBSET Nat, \A i \in S : d[i].up \in Nat
    PROVE  StrictOrder(ByTime(d, S), S)
<1>1. \A i, j \in S : <<i, j>> \in ByTime(d, S) <=> Earlier(d, i, j)
  BY DEF ByTime
<1>2. ASSUME NEW i \in S PROVE ~Earlier(d, i, i)
  <2>1. i \in Nat /\ d[i].up \in Nat
    OBVIOUS
  <2> QED BY <2>1 DEF Earlier
<1>3. \A i, j \in S : i # j => Earlier(d, i, j) \/ Earlier(d, j, i)
  BY DEF Earlier
<1>4. \A i, j, k \in S : Earlier(d, i, j) /\ Earlier(d, j, k) => Earlier(d, i, k)
  BY DEF Earlier
<1> QED BY <1>1, <1>2, <1>3, <1>4 DEF StrictOrder

LEMMA OrderFacts ==
    ASSUME NEW d, NEW S \in SUBSET Nat, IsFiniteSet(S), \A i \in S : d[i].up \in Nat
    PROVE  /\ Cardinality(S) \in Nat /\ InOrder(d, S) \in Seq(S)
           /\ Len(InOrder(d, S)) = Cardinality(S)
           /\ \A n \in 1 .. Cardinality(S) : InOrder(d, S)[n] \in S /\ Place(d, S, InOrder(d, S)[n]) = n
           /\ \A i \in S : Place(d, S, i) \in 1 .. Cardinality(S) /\ InOrder(d, S)[Place(d, S, i)] = i
<1> DEFINE C == Cardinality(S)
           R == ByTime(d, S)
           q == InOrder(d, S)
<1>1. \A i \in S : Place(d, S, i) = Cardinality(Below(R, S, i)) + 1
  <2> SUFFICES ASSUME NEW i \in S PROVE {j \in S : Earlier(d, j, i)} = Below(R, S, i)
    BY DEF Place
  <2> QED BY DEF Below, ByTime
<1>2. /\ C \in Nat
      /\ \A i \in S : Cardinality(Below(R, S, i)) \in 0 .. C - 1
      /\ \A i, j \in S : Cardinality(Below(R, S, i)) = Cardinality(Below(R, S, j)) => i = j
      /\ \A n \in 1 .. C : \E i \in S : Cardinality(Below(R, S, i)) = n - 1
  <2>1. StrictOrder(R, S)
    BY ByTimeOrder
  <2> HIDE DEF R
  <2>2. Ranked(R, S)
    BY <2>1, PlacesFacts
  <2> QED BY <2>2 DEF Ranked
<1> HIDE DEF R
<1>3. /\ \A i \in S : Place(d, S, i) \in 1 .. C
      /\ \A i, j \in S : Place(d, S, i) = Place(d, S, j) => i = j
      /\ \A n \in 1 .. C : \E i \in S : Place(d, S, i) = n
  <2>1. \A i \in S : Place(d, S, i) \in 1 .. C
    BY <1>1, <1>2
  <2>2. ASSUME NEW i \in S, NEW j \in S, Place(d, S, i) = Place(d, S, j) PROVE i = j
    BY <1>1, <1>2, <2>2
  <2>3. ASSUME NEW n \in 1 .. C PROVE \E i \in S : Place(d, S, i) = n
    <3>1. PICK i \in S : Cardinality(Below(R, S, i)) = n - 1
      BY <1>2
    <3>2. Place(d, S, i) = n
      BY <1>1, <1>2, <3>1
    <3> QED BY <3>2
  <2> QED BY <2>1, <2>2, <2>3
<1>4. q = [n \in 1 .. C |-> CHOOSE i \in S : Place(d, S, i) = n]
  BY DEF InOrder
<1>5. \A n \in 1 .. C : q[n] \in S /\ Place(d, S, q[n]) = n
  BY <1>3, <1>4
<1>6. q \in [1 .. C -> S]
  BY <1>4, <1>5
<1> HIDE DEF q, C
<1>7. q \in Seq(S) /\ Len(q) = C
  BY <1>2, <1>6
<1>8. \A i \in S : q[Place(d, S, i)] = i
  BY <1>3, <1>5
<1> QED BY <1>2, <1>3, <1>5, <1>7, <1>8 DEF q, C

-----------------------------------------------------------------------------
(* The invariant.                                                            *)

PendOK(p) ==
    /\ p \in [Slots -> [stage : {"free", "upload", "edit"}, unit : Unit \union {NoUnit},
                        doc : Nat, name : Name]]
    /\ \A s \in Slots : p[s].stage # "free" => p[s].unit \in Unit /\ p[s].name # Legacy

\* Rows with ids up to b that were uploaded and changed until c.
Rows(d, b, c) == DOMAIN d \subseteq 1 .. b /\ \A i \in DOMAIN d : d[i] \in Row /\ d[i].up <= c /\ d[i].upd <= c

\* The rows of d open their files, S excepted.
Open(d, f, S) == \A i \in DOMAIN d \ S : Opens(d, f, i)

\* The documents R have rows, which a start does not remove.
Standing(d, R) == R \subseteq DOMAIN d \ Old(d)

Types ==
    /\ units \subseteq Unit /\ fresh \subseteq Unit /\ saved.units \subseteq Unit
    /\ saved = [units |-> saved.units, docs |-> saved.docs]
    /\ PendOK(pend) /\ born \in Nat /\ clock \in Nat /\ restarts \in Nat
    /\ Rows(docs, born, clock) /\ Rows(saved.docs, born, clock)

\* What was saved opens too, if no start removes it and no later step changed its file.
DocInv ==
    /\ Types
    /\ Open(docs, files, broken)
    /\ Open(saved.docs, files, Old(saved.docs) \union broken \union unsaved)
    /\ Standing(docs, receipts) /\ Standing(saved.docs, receipts)

Stamped(d) ==
    \A i \in DOMAIN d : (i \in DOMAIN docs /\ d[i] = docs[i]) \/ d[i].upd > clock

\* A handler may end with the data and files of o: it has kept what the invariant is
\* about, and stamped what it changed.
Good(o) ==
    /\ o.units \subseteq Unit /\ PendOK(o.pend)
    /\ o.born \in Nat /\ o.clock \in Nat /\ born <= o.born /\ clock <= o.clock
    /\ Rows(o.docs, o.born, o.clock)
    /\ Open(o.docs, o.files, o.broken)
    /\ Open(saved.docs, o.files, Old(saved.docs) \union o.broken \union unsaved \union o.touched)
    /\ Standing(o.docs, (receipts \ o.lost) \union o.gained)
    /\ Stamped(o.docs)

LEMMA Names ==
    /\ Main \in Name /\ List \in Name /\ Plain \in Name /\ Legacy \in Name
    /\ Main # Legacy /\ List # Legacy /\ Plain # Legacy
    /\ \A n \in Nat : Shared(n) \in Name /\ Shared(n) # Legacy
    /\ \A n \in Nat : Shared(n) \notin OwnNames
BY DEF Main, List, Plain, Legacy, Name, OwnNames, Shared

LEMMA NewRowFacts ==
    ASSUME NEW u \in Unit, NEW name \in Name, NEW text \in SUBSET Nat, NEW key \in Nat, NEW t \in Nat
    PROVE  /\ NewRow(u, name, text, key, t) \in Row
           /\ NewRow(u, name, text, key, t).org = u /\ NewRow(u, name, text, key, t).name = name
           /\ NewRow(u, name, text, key, t).text = text /\ NewRow(u, name, text, key, t).key = key
           /\ NewRow(u, name, text, key, t).up = t /\ NewRow(u, name, text, key, t).upd = t
BY DEF NewRow, Row

LEMMA RowsOn ==
    ASSUME NEW d, NEW b \in Nat, NEW c \in Nat, Rows(d, b, c), NEW m \in Nat, NEW n \in Nat,
           b <= m, c <= n
    PROVE  Rows(d, m, n)
<1>1. \A i \in DOMAIN d : i \in 1 .. m
  BY DEF Rows
<1>2. ASSUME NEW i \in DOMAIN d PROVE d[i] \in Row /\ d[i].up <= n /\ d[i].upd <= n
  <2>1. /\ d[i] \in Row /\ d[i].up <= c /\ d[i].up \in Nat
        /\ d[i].upd <= c /\ d[i].upd \in Nat
    BY DEF Rows, Row
  <2> QED BY <2>1
<1> QED BY <1>1, <1>2 DEF Rows

-----------------------------------------------------------------------------
(* A start.                                                                  *)

\* The units that lack a document, in the order in which they get one.
LEMMA SampleFacts ==
    ASSUME NEW us \in SUBSET Unit, NEW d
    PROVE  /\ Cardinality(Lacking(us, d)) \in Nat
           /\ \A n \in 1 .. Cardinality(Lacking(us, d)) : SampleUnit(us, d, n) \in Lacking(us, d)
<1> DEFINE S == Lacking(us, d)
           R == {p \in S \X S : p[1] < p[2]}
<1>1. S \subseteq Unit /\ Unit \subseteq Nat /\ IsFiniteSet(S)
  <2>1. S \in SUBSET Unit
    BY DEF Lacking
  <2> QED BY <2>1, TreeAssumption, FS_Subset
<1>2. StrictOrder(R, S)
  <2>1. \A u \in S : u \in Nat
    BY <1>1
  <2> HIDE DEF S
  <2>2. \A u, v \in S : <<u, v>> \in R <=> u < v
    OBVIOUS
  <2> HIDE DEF R
  <2> QED BY <2>1, <2>2 DEF StrictOrder
<1>3. ASSUME NEW u \in S PROVE Below(R, S, u) = {v \in S : v < u}
  BY DEF Below
<1> HIDE DEF R
<1>4. Ranked(R, S)
  <2> HIDE DEF S
  <2> QED BY <1>1, <1>2, PlacesFacts
<1>5. ASSUME NEW n \in 1 .. Cardinality(S) PROVE SampleUnit(us, d, n) \in S
  <2>1. PICK u \in S : Cardinality(Below(R, S, u)) = n - 1
    BY <1>4 DEF Ranked
  <2>2. Cardinality({v \in S : v < u}) = n - 1
    BY <1>3, <2>1
  <2>3. SampleUnit(us, d, n) = CHOOSE x \in S : Cardinality({v \in S : v < x}) = n - 1
    BY DEF SampleUnit
  <2> HIDE DEF S
  <2> QED BY <2>2, <2>3
<1> QED BY <1>4, <1>5 DEF Ranked

\* The documents that a start adds to d, with ids from b on.
Added(us, d, b) == b + 1 .. b + Cardinality(Lacking(us, Without(d, Old(d))))

StartedWell(us, d, b, t) ==
    LET e == Started(us, d, b, t)
        A == Added(us, d, b)
        C == Cardinality(A)
    IN /\ C \in Nat /\ DOMAIN e = (DOMAIN d \ Old(d)) \union A /\ A \intersect DOMAIN d = {}
       /\ DOMAIN e \ DOMAIN d = A
       /\ \A i \in DOMAIN d \ Old(d) : e[i] = d[i]
       /\ Rows(e, b + C, t + C)
       /\ \A i \in A : e[i].name = Main

LEMMA StartedFacts ==
    ASSUME NEW us \in SUBSET Unit, NEW d, NEW b \in Nat, NEW t \in Nat, Rows(d, b, t)
    PROVE  StartedWell(us, d, b, t)
<1> DEFINE kept == Without(d, Old(d))
           L == Lacking(us, kept)
           N == Cardinality(L)
           A == Added(us, d, b)
           new == {b + n : n \in 1 .. N}
           e == Started(us, d, b, t)
           C == Cardinality(A)
<1>1. N \in Nat /\ \A n \in 1 .. N : SampleUnit(us, kept, n) \in L
  BY SampleFacts
<1>2. L \subseteq Unit
  BY DEF Lacking
<1>3. DOMAIN kept = DOMAIN d \ Old(d) /\ \A i \in DOMAIN kept : kept[i] = d[i]
  BY DEF Without
<1>4. e = [i \in DOMAIN kept \union new |->
             IF i \in DOMAIN kept THEN kept[i]
             ELSE NewRow(SampleUnit(us, kept, i - b), Main, {t + (i - b)}, t + (i - b), t + (i - b))]
  BY DEF Started
<1>5. A = b + 1 .. b + N
  BY DEF Added
<1> HIDE DEF kept, L, N, A, e
<1>6. new = A /\ C = N
  <2>1. new = b + 1 .. b + N
    <3>1. ASSUME NEW i \in b + 1 .. b + N PROVE i \in new
      <4>1. i - b \in 1 .. N /\ b + (i - b) = i
        BY <1>1
      <4> QED BY <4>1
    <3>2. ASSUME NEW n \in 1 .. N PROVE b + n \in b + 1 .. b + N
      BY <1>1
    <3> QED BY <3>1, <3>2
  <2>2. C = IF b + 1 > b + N THEN 0 ELSE (b + N) - (b + 1) + 1
    <3>1. b + 1 \in Int /\ b + N \in Int
      BY <1>1
    <3> QED BY <1>5, <3>1, FS_Interval
  <2> QED BY <1>1, <1>5, <2>1, <2>2
<1> HIDE DEF new, C
<1>7. /\ DOMAIN e = (DOMAIN d \ Old(d)) \union A
      /\ \A i \in DOMAIN d \ Old(d) : e[i] = d[i]
  BY <1>3, <1>4, <1>6
<1>8. \A i \in DOMAIN d : i \in 1 .. b /\ d[i] \in Row /\ d[i].up <= t /\ d[i].up \in Nat
                           /\ d[i].upd <= t /\ d[i].upd \in Nat
  BY DEF Rows, Row
<1>9. A \intersect DOMAIN d = {}
  BY <1>5, <1>8
<1>10. ASSUME NEW i \in A
       PROVE  i \in 1 .. b + N /\ e[i] \in Row /\ e[i].up <= t + N /\ e[i].upd <= t + N /\ e[i].name = Main
  <2> DEFINE u == SampleUnit(us, kept, i - b)
             x == t + (i - b)
  <2>1. i \in 1 .. b + N /\ i - b \in 1 .. N /\ x \in Nat /\ x <= t + N
    BY <1>1, <1>5
  <2>2. u \in Unit
    BY <1>1, <1>2, <2>1
  <2>3. e[i] = NewRow(u, Main, {x}, x, x)
    BY <1>3, <1>4, <1>6, <1>9
  <2> HIDE DEF u, x
  <2>4. e[i] \in Row /\ e[i].up = x /\ e[i].upd = x /\ e[i].name = Main
    BY <2>1, <2>2, <2>3, NewRowFacts, Names
  <2> QED BY <2>1, <2>4
<1>11. Rows(e, b + N, t + N)
  <2>1. ASSUME NEW i \in DOMAIN d \ Old(d)
        PROVE  i \in 1 .. b + N /\ e[i] \in Row /\ e[i].up <= t + N /\ e[i].upd <= t + N
    BY <1>1, <1>7, <1>8
  <2> QED BY <1>7, <1>10, <2>1 DEF Rows
<1>12. DOMAIN e \ DOMAIN d = A
  BY <1>7, <1>9
<1>13. /\ C \in Nat /\ \A i \in A : e[i].name = Main
       /\ Rows(e, b + C, t + C)
  BY <1>1, <1>6, <1>10, <1>11
<1> QED BY <1>7, <1>9, <1>12, <1>13 DEF StartedWell, e, A, C

\* What a start makes of the saved data and the files f; X are the documents that may not open.
LEMMA StartKeeps ==
    ASSUME Types, NEW f, NEW b \in Nat, NEW t \in Nat, born <= b, clock <= t, Start(f, b, t),
           NEW X, Open(saved.docs, f, Old(saved.docs) \union X),
           NEW R, Standing(saved.docs, R)
    PROVE  /\ born' \in Nat /\ clock' \in Nat /\ saved'.units = saved.units
           /\ saved' = [units |-> saved'.units, docs |-> saved'.docs]
           /\ Rows(docs', born', clock') /\ Rows(saved'.docs, born', clock')
           /\ Open(docs', files', X) /\ Open(saved'.docs, files', Old(saved'.docs) \union X)
           /\ Standing(docs', R) /\ Standing(saved'.docs, R)
<1> DEFINE d == saved.docs
           us == saved.units
           e == Started(us, d, b, t)
           A == Added(us, d, b)
           C == Cardinality(A)
           g == [i \in (DOMAIN f \ Old(d)) \union A |-> IF i \in A THEN e[i].key ELSE f[i]]
<1>1. us \in SUBSET Unit /\ Rows(d, b, t)
  BY RowsOn DEF Types
<1>2. /\ C \in Nat /\ DOMAIN e = (DOMAIN d \ Old(d)) \union A /\ A \intersect DOMAIN d = {}
      /\ DOMAIN e \ DOMAIN d = A
      /\ \A i \in DOMAIN d \ Old(d) : e[i] = d[i]
      /\ Rows(e, b + C, t + C)
      /\ \A i \in A : e[i].name = Main
  <2>1. StartedWell(us, d, b, t)
    <3> HIDE DEF d, us
    <3> QED BY <1>1, StartedFacts
  <2> QED BY <2>1 DEF StartedWell
<1>3. /\ docs' = e /\ files' = g
      /\ born' = b + C /\ clock' = t + C
      /\ saved' = [saved EXCEPT !.docs = IF Cardinality(DOMAIN e) # Cardinality(DOMAIN @) THEN e ELSE @]
  BY <1>2 DEF Start
<1>4. /\ saved'.units = us /\ saved' = [units |-> saved'.units, docs |-> saved'.docs]
      /\ saved'.docs = e \/ saved'.docs = d
  BY <1>3 DEF Types
<1> HIDE DEF e, A, C
<1>5. Rows(d, b + C, t + C)
  <2> HIDE DEF d
  <2>1. b + C \in Nat /\ t + C \in Nat /\ b <= b + C /\ t <= t + C
    BY <1>2
  <2> QED BY <1>1, <2>1, RowsOn
<1>6. Open(e, g, X)
  <2> SUFFICES ASSUME NEW i \in DOMAIN e \ X PROVE Opens(e, g, i)
    BY DEF Open
  <2>1. CASE i \in A
    BY <2>1 DEF Opens
  <2>2. CASE i \notin A
    <3>1. i \in DOMAIN d \ (Old(d) \union X) /\ e[i] = d[i]
      BY <1>2, <2>2
    <3>2. Opens(d, f, i)
      BY <3>1 DEF Open
    <3> QED BY <2>2, <3>1, <3>2 DEF Opens
  <2> QED BY <2>1, <2>2
<1>7. Open(d, g, Old(d) \union X)
  <2> SUFFICES ASSUME NEW i \in DOMAIN d \ (Old(d) \union X) PROVE Opens(d, g, i)
    BY DEF Open
  <2>1. i \notin A /\ Opens(d, f, i)
    BY <1>2 DEF Open
  <2> QED BY <2>1 DEF Opens
<1>8. Standing(e, R)
  <2> SUFFICES ASSUME NEW i \in R PROVE i \in DOMAIN e \ Old(e)
    BY DEF Standing
  <2>1. i \in DOMAIN d /\ i \notin Old(d)
    BY DEF Standing
  <2>2. i \in DOMAIN e /\ e[i] = d[i] /\ d[i].name # Legacy
    BY <1>2, <2>1 DEF Old
  <2> QED BY <2>2 DEF Old
<1>9. Open(e, g, Old(e) \union X)
  BY <1>6 DEF Open
<1> HIDE DEF d, g
<1>10. Open(saved'.docs, g, Old(saved'.docs) \union X)
  BY <1>4, <1>7, <1>9
<1>11. Standing(saved'.docs, R) /\ Rows(saved'.docs, b + C, t + C)
  <2>1. Standing(d, R)
    BY DEF d
  <2> QED BY <1>2, <1>4, <1>5, <1>8, <2>1
<1>12. born' \in Nat /\ clock' \in Nat
  BY <1>2, <1>3
<1> QED BY <1>2, <1>3, <1>4, <1>6, <1>8, <1>10, <1>11, <1>12 DEF us

-----------------------------------------------------------------------------
(* The ends of a handler.                                                    *)

LEMMA FreePend == PendOK([s \in Slots |-> Free])
BY Names DEF PendOK, Free

LEMMA KilledKeeps ==
    ASSUME DocInv, NEW o, Good(o), Killed(o), fresh' \subseteq Unit
    PROVE  DocInv'
<1> DEFINE X == o.broken \union unsaved \union o.touched
           R == receipts \ o.lost
<1>1. Open(saved.docs, o.files, Old(saved.docs) \union X)
  <2>1. Old(saved.docs) \union X = Old(saved.docs) \union o.broken \union unsaved \union o.touched
    OBVIOUS
  <2> QED BY <2>1 DEF Good
<1>2. Standing(saved.docs, R)
  BY DEF DocInv, Standing
<1>3. Start(o.files, o.born, o.clock) /\ broken' = X /\ receipts' = R
  BY DEF Killed
<1>4. /\ unsaved' = {} /\ units' = saved.units /\ pend' = [s \in Slots |-> Free]
      /\ restarts' = restarts + 1
  BY <1>3 DEF Start
<1> HIDE DEF X, R
<1>5. /\ born' \in Nat /\ clock' \in Nat /\ saved'.units = saved.units
      /\ saved' = [units |-> saved'.units, docs |-> saved'.docs]
      /\ Rows(docs', born', clock') /\ Rows(saved'.docs, born', clock')
      /\ Open(docs', files', X) /\ Open(saved'.docs, files', Old(saved'.docs) \union X)
      /\ Standing(docs', R) /\ Standing(saved'.docs, R)
  <2> DEFINE f == o.files
             b == o.born
             t == o.clock
  <2>1. Types /\ b \in Nat /\ t \in Nat /\ born <= b /\ clock <= t
    BY DEF DocInv, Good
  <2>2. Start(f, b, t) /\ Open(saved.docs, f, Old(saved.docs) \union X)
    BY <1>1, <1>3
  <2> HIDE DEF f, b, t
  <2> QED BY <1>2, <2>1, <2>2, StartKeeps
<1>6. PendOK(pend')
  BY <1>4, FreePend
<1>7. /\ restarts' \in Nat /\ saved'.units \subseteq Unit /\ units' \subseteq Unit
  BY <1>4, <1>5 DEF DocInv, Types
<1>8. Types'
  BY <1>5, <1>6, <1>7 DEF Types, PendOK, Rows, Row
<1>9. Open(saved'.docs, files', Old(saved'.docs) \union broken' \union unsaved')
  <2>1. Old(saved'.docs) \union broken' \union unsaved' = Old(saved'.docs) \union X
    BY <1>3, <1>4
  <2> QED BY <1>5, <2>1
<1> QED BY <1>3, <1>5, <1>8, <1>9 DEF DocInv, Open, Opens, Standing, Old

LEMMA AnsweredKeeps ==
    ASSUME DocInv, NEW o, Good(o), Answered(o), fresh' \subseteq Unit
    PROVE  DocInv' /\ docs' = o.docs
<1>1. /\ units' = o.units /\ docs' = o.docs /\ pend' = o.pend /\ born' = o.born
      /\ restarts' = restarts /\ files' = o.files /\ clock' = o.clock /\ broken' = o.broken
      /\ unsaved' = {} /\ receipts' = (receipts \ o.lost) \union o.gained
      /\ saved' = [units |-> o.units, docs |-> o.docs]
  BY DEF Answered, InMemory
<1>2. /\ saved'.units = o.units /\ saved'.docs = o.docs
      /\ saved' = [units |-> saved'.units, docs |-> saved'.docs]
  BY <1>1
<1>3. Types'
  BY <1>1, <1>2 DEF DocInv, Good, Types, PendOK, Rows, Row
<1>4. Open(o.docs, o.files, Old(o.docs) \union o.broken \union {})
  BY DEF Good, Open
<1>5. /\ Open(o.docs, o.files, o.broken)
      /\ Standing(o.docs, (receipts \ o.lost) \union o.gained)
  BY DEF Good
<1> QED BY <1>1, <1>2, <1>3, <1>4, <1>5 DEF DocInv, Open, Opens, Standing, Old

\* Without an answer the data and files of o are kept, those of B excepted.
LEMMA RefusedKeeps ==
    ASSUME DocInv, NEW o, Good(o), Refused(o), fresh' \subseteq Unit,
           clock' \in Nat, o.clock <= clock', o.broken \subseteq broken',
           \A i \in DOMAIN o.files : i \notin broken' => i \in DOMAIN files' /\ files'[i] = o.files[i]
    PROVE  DocInv' /\ docs' = o.docs
<1>1. /\ units' = o.units /\ docs' = o.docs /\ pend' = o.pend /\ born' = o.born
      /\ restarts' = restarts /\ saved' = saved
      /\ unsaved' = unsaved \union o.touched /\ receipts' = receipts \ o.lost
  BY DEF Refused, InMemory
<1>2. Rows(docs', born', clock') /\ Rows(saved.docs, born', clock')
  <2>1. /\ o.born \in Nat /\ o.clock \in Nat /\ born \in Nat /\ clock \in Nat
        /\ born <= o.born /\ clock <= o.clock /\ clock <= clock'
        /\ Rows(o.docs, o.born, o.clock) /\ Rows(saved.docs, born, clock)
    BY DEF DocInv, Types, Good
  <2> DEFINE d == o.docs
             e == saved.docs
             b == o.born
             c == o.clock
             t == clock'
  <2>2. /\ Rows(d, b, c) /\ Rows(e, born, clock) /\ b \in Nat /\ c \in Nat /\ t \in Nat
        /\ born <= b /\ clock <= t /\ c <= t /\ b <= b /\ born \in Nat /\ clock \in Nat
    BY <2>1
  <2> HIDE DEF d, e, b, c, t
  <2>3. Rows(d, b, t) /\ Rows(e, b, t)
    BY <2>2, RowsOn
  <2> QED BY <1>1, <2>3 DEF d, e, b, t
<1>3. Types'
  BY <1>1, <1>2 DEF DocInv, Good, Types, PendOK, Rows, Row
<1>4. ASSUME NEW d, NEW S, Open(d, o.files, S), broken' \subseteq S \union broken'
      PROVE  Open(d, files', S \union broken')
  BY <1>4 DEF Open, Opens
<1>5. Open(docs', files', broken')
  <2>1. Open(o.docs, files', o.broken \union broken')
    BY <1>4 DEF Good
  <2>2. o.broken \union broken' = broken'
    OBVIOUS
  <2> QED BY <1>1, <2>1, <2>2
<1>6. Open(saved'.docs, files', Old(saved'.docs) \union broken' \union unsaved')
  <2> DEFINE S == Old(saved.docs) \union o.broken \union unsaved \union o.touched
  <2>1. Open(saved.docs, files', S \union broken')
    BY <1>4 DEF Good
  <2>2. S \union broken' = Old(saved.docs) \union broken' \union unsaved'
    BY <1>1
  <2> QED BY <1>1, <2>1, <2>2
<1>7. Standing(docs', receipts') /\ Standing(saved'.docs, receipts')
  BY <1>1 DEF Good, DocInv, Standing
<1>8. DocInv'
  BY <1>3, <1>5, <1>6, <1>7 DEF DocInv, Open, Opens, Standing, Old
<1> QED BY <1>1, <1>8

LEMMA EndKeeps ==
    ASSUME DocInv, NEW o, Good(o), fresh' \subseteq Unit,
           Complete(o) \/ \E i : WriteFails(o, i)
    PROVE  DocInv' /\ (restarts' = restarts => Stamped(docs'))
<1>1. CASE Killed(o)
  <2>1. restarts' = restarts + 1 /\ restarts \in Nat
    BY <1>1 DEF Killed, Start, DocInv, Types
  <2> QED BY <1>1, <2>1, KilledKeeps
<1>2. CASE Answered(o)
  BY <1>2, AnsweredKeeps DEF Good
<1>3. CASE PersistFails(o)
  <2>1. files' = o.files /\ clock' = o.clock /\ broken' = o.broken /\ Refused(o)
    BY <1>3 DEF PersistFails
  <2>2. o.clock \in Nat /\ o.clock <= o.clock
    BY DEF Good
  <2> QED BY <2>1, <2>2, RefusedKeeps DEF Good
<1>4. ASSUME NEW i, WriteFails(o, i)
      PROVE  DocInv' /\ (restarts' = restarts => Stamped(docs'))
  <2>1. /\ files' = Put(o.files, i, o.clock + 1) /\ clock' = o.clock + 1
        /\ broken' = o.broken \union {i} /\ Refused(o)
    BY <1>4 DEF WriteFails
  <2>2. clock' \in Nat /\ o.clock <= clock'
    BY <2>1 DEF Good
  <2>3. \A j \in DOMAIN o.files : j \notin broken' => j \in DOMAIN files' /\ files'[j] = o.files[j]
    BY <2>1 DEF Put
  <2> QED BY <2>1, <2>2, <2>3, RefusedKeeps DEF Good
<1> QED BY <1>1, <1>2, <1>3, <1>4 DEF Complete

-----------------------------------------------------------------------------
(* The kinds of changes that handlers make.                                  *)

LEMMA FreedPend == ASSUME PendOK(pend), NEW s PROVE PendOK([pend EXCEPT ![s] = Free])
BY Names DEF PendOK, Free

\* The documents S go, with their files.
LEMMA RemovedGood ==
    ASSUME DocInv, NEW q, NEW S, q.units \subseteq Unit, PendOK(q.pend),
           q.born = born, q.clock = clock,
           DOMAIN q.docs = DOMAIN docs \ S, \A i \in DOMAIN docs \ S : q.docs[i] = docs[i],
           \A i \in DOMAIN files \ S : i \in DOMAIN q.files /\ q.files[i] = files[i],
           q.broken = broken, q.touched = S, q.lost = S, q.gained = {}
    PROVE  Good(q)
<1>1. /\ Types /\ Open(docs, files, broken)
      /\ Open(saved.docs, files, Old(saved.docs) \union broken \union unsaved)
      /\ Standing(docs, receipts)
  BY DEF DocInv
<1>2. q.born \in Nat /\ q.clock \in Nat /\ born <= q.born /\ clock <= q.clock
  BY <1>1 DEF Types
<1>3. Rows(q.docs, q.born, q.clock)
  BY <1>1 DEF Types, Rows
<1>4. Open(q.docs, q.files, q.broken)
  BY <1>1 DEF Open, Opens
<1>5. Open(saved.docs, q.files, Old(saved.docs) \union q.broken \union unsaved \union q.touched)
  BY <1>1 DEF Open, Opens
<1>6. Standing(q.docs, (receipts \ q.lost) \union q.gained)
  BY <1>1 DEF Standing, Old
<1>7. Stamped(q.docs)
  BY DEF Stamped
<1> QED BY <1>2, <1>3, <1>4, <1>5, <1>6, <1>7 DEF Good

\* A row that changes gets a stamp and keeps its key, and its name unless its receipt ends.
Restamped(old, new) ==
    /\ new \in Row /\ new.key = old.key /\ new.up <= clock + 1 /\ new.upd = clock + 1

LEMMA ChangedGood ==
    ASSUME DocInv, NEW q, q.units = units, PendOK(q.pend), q.born = born, q.clock = clock + 1,
           DOMAIN q.docs = DOMAIN docs,
           \A i \in DOMAIN docs : q.docs[i] = docs[i] \/ Restamped(docs[i], q.docs[i]),
           \A i \in DOMAIN docs : q.docs[i].name = docs[i].name \/ q.docs[i].name # Legacy \/ i \in q.lost,
           q.files = files, q.broken = broken, q.touched = {}, q.gained = {}
    PROVE  Good(q)
<1>1. /\ Types /\ Open(docs, files, broken)
      /\ Open(saved.docs, files, Old(saved.docs) \union broken \union unsaved)
      /\ Standing(docs, receipts)
  BY DEF DocInv
<1>2. /\ q.born \in Nat /\ q.clock \in Nat /\ born <= q.born /\ clock <= q.clock
      /\ q.units \subseteq Unit
  BY <1>1 DEF Types
<1>3. Rows(q.docs, q.born, q.clock)
  <2>1. \A i \in DOMAIN docs : i \in 1 .. born /\ docs[i] \in Row /\ docs[i].up <= clock /\ docs[i].up \in Nat
         /\ docs[i].upd <= clock /\ docs[i].upd \in Nat
    BY <1>1 DEF Types, Rows, Row
  <2>2. ASSUME NEW i \in DOMAIN docs PROVE q.docs[i] \in Row /\ q.docs[i].up <= clock + 1 /\ q.docs[i].upd <= clock + 1
    BY <1>1, <2>1 DEF Restamped, Types
  <2> QED BY <2>1, <2>2 DEF Rows
<1>4. Open(q.docs, q.files, q.broken)
  BY <1>1 DEF Open, Opens, Restamped
<1>5. Open(saved.docs, q.files, Old(saved.docs) \union q.broken \union unsaved \union q.touched)
  BY <1>1 DEF Open, Opens
<1>6. Standing(q.docs, (receipts \ q.lost) \union q.gained)
  BY <1>1 DEF Standing, Old
<1>7. Stamped(q.docs)
  <2>1. clock + 1 > clock
    BY <1>1 DEF Types
  <2> QED BY <2>1 DEF Stamped, Restamped
<1> QED BY <1>2, <1>3, <1>4, <1>5, <1>6, <1>7 DEF Good

\* Document j gets the row r, and a file that r opens or that is known to be broken.
LEMMA WroteGood ==
    ASSUME DocInv, NEW q, NEW j \in 1 .. born + 1, NEW r \in Row, NEW x,
           q.units = units, PendOK(q.pend), q.clock = clock + 1,
           q.born = (IF j > born THEN j ELSE born),
           DOMAIN q.docs = DOMAIN docs \union {j}, q.docs[j] = r,
           \A i \in DOMAIN docs : i # j => q.docs[i] = docs[i],
           j \in DOMAIN q.files, q.files[j] = x,
           \A i \in DOMAIN files : i # j => i \in DOMAIN q.files /\ q.files[i] = files[i],
           \A i \in broken : i # j => i \in q.broken,
           x = r.key \/ j \in q.broken, q.touched = {j}, q.lost = {}, q.gained = {j},
           r.up <= clock + 1, r.upd = clock + 1, r.name # Legacy
    PROVE  Good(q)
<1>1. /\ Types /\ Open(docs, files, broken)
      /\ Open(saved.docs, files, Old(saved.docs) \union broken \union unsaved)
      /\ Standing(docs, receipts)
  BY DEF DocInv
<1>2. /\ q.born \in Nat /\ q.clock \in Nat /\ born <= q.born /\ clock <= q.clock
      /\ q.units \subseteq Unit /\ j <= q.born /\ 1 <= j /\ born \in Nat /\ clock \in Nat
  BY <1>1 DEF Types
<1>3. Rows(q.docs, q.born, q.clock)
  <2>1. \A i \in DOMAIN docs : i \in 1 .. born /\ docs[i] \in Row /\ docs[i].up <= clock /\ docs[i].up \in Nat
         /\ docs[i].upd <= clock /\ docs[i].upd \in Nat
    BY <1>1 DEF Types, Rows, Row
  <2>2. ASSUME NEW i \in DOMAIN q.docs
        PROVE  i \in 1 .. q.born /\ q.docs[i] \in Row /\ q.docs[i].up <= q.clock /\ q.docs[i].upd <= q.clock
    <3>1. CASE i = j
      BY <1>2, <3>1
    <3>2. CASE i # j
      <4>1. i \in DOMAIN docs /\ q.docs[i] = docs[i]
        BY <3>2
      <4> QED BY <1>2, <2>1, <4>1
    <3> QED BY <3>1, <3>2
  <2> QED BY <2>2 DEF Rows
<1>4. Open(q.docs, q.files, q.broken)
  BY <1>1 DEF Open, Opens
<1>5. Open(saved.docs, q.files, Old(saved.docs) \union q.broken \union unsaved \union q.touched)
  BY <1>1 DEF Open, Opens
<1>6. Standing(q.docs, (receipts \ q.lost) \union q.gained)
  BY <1>1 DEF Standing, Old
<1>7. Stamped(q.docs)
  BY <1>2 DEF Stamped
<1> QED BY <1>2, <1>3, <1>4, <1>5, <1>6, <1>7 DEF Good

-----------------------------------------------------------------------------
(* The handlers.                                                             *)

LEMMA SameFields ==
    /\ Same.units = units /\ Same.docs = docs /\ Same.files = files /\ Same.pend = pend
    /\ Same.born = born /\ Same.clock = clock /\ Same.broken = broken /\ Same.touched = {}
    /\ Same.gained = {} /\ Same.lost = {} /\ Same.said = Nothing
BY DEF Same

LEMMA SameGood ==
    ASSUME DocInv
    PROVE  Good(Same)
<1> DEFINE q == Same
<1>1. /\ q.units \subseteq Unit /\ PendOK(q.pend) /\ q.born = born /\ q.clock = clock
      /\ q.docs = docs /\ q.files = files /\ q.broken = broken /\ q.touched = {}
      /\ q.lost = {} /\ q.gained = {}
  BY SameFields DEF DocInv, Types
<1> HIDE DEF q
<1>2. Good(q)
  BY <1>1, RemovedGood
<1> QED BY <1>2 DEF q

\* What a handler's end does with fresh.
LEMMA FreshStays ==
    ASSUME DocInv, UNCHANGED fresh
    PROVE  fresh' \subseteq Unit
BY DEF DocInv, Types

Kept == DocInv' /\ (restarts' = restarts => Stamped(docs'))

\* A persist that fails is one of the ends of a handler.
LEMMA FailsComplete == ASSUME NEW o, PersistFails(o) PROVE Complete(o)
BY DEF Complete

LEMMA UploadKeeps ==
    ASSUME DocInv, NEW s \in Slots, Upload(s)
    PROVE  Kept
<1> DEFINE p == pend[s]
           same == {i \in Of(docs, p.unit) : docs[i].name = p.name}
           j == IF same = {} THEN born + 1 ELSE CHOOSE i \in same : \A k \in same : i <= k
           free == [Same EXCEPT !.pend[s] = Free]
           r == NewRow(p.unit, p.name, {Now}, Now, Now)
           q == [Stored(free, j, r) EXCEPT !.gained = {j}, !.said = Said("stored", p.unit, j)]
<1>1. /\ p.stage = "upload" /\ UNCHANGED fresh
      /\ Complete(q) \/ Complete(free) \/ WriteFails(free, j)
  BY FailsComplete DEF Upload
<1>2. p.unit \in Unit /\ p.name \in Name /\ p.name # Legacy /\ Now \in Nat /\ Now = clock + 1
  BY <1>1 DEF DocInv, Types, PendOK, Now
<1>3. /\ r \in Row /\ r.up = Now /\ r.upd = Now /\ r.name # Legacy
  <2> DEFINE t == Now
  <2>1. t \in Nat /\ {t} \in SUBSET Nat
    BY <1>2
  <2> HIDE DEF t, p
  <2> QED BY <1>2, <2>1, NewRowFacts DEF t
<1>4. j \in 1 .. born + 1
  <2>1. born \in Nat /\ DOMAIN docs \subseteq 1 .. born
    BY DEF DocInv, Types, Rows
  <2>2. CASE same # {}
    <3>1. same \in SUBSET Nat /\ same \subseteq 1 .. born
      BY <2>1 DEF Of
    <3> HIDE DEF same
    <3>2. \E i \in same : \A k \in same : i <= k
      BY <2>2, <3>1, Least
    <3>3. j \in same
      BY <2>2, <3>2
    <3> HIDE DEF j
    <3> QED BY <2>1, <3>1, <3>3
  <2> QED BY <2>1, <2>2
<1> HIDE DEF j, r, p
<1>5. /\ free.units = units /\ free.docs = docs /\ free.files = files
      /\ free.pend = [pend EXCEPT ![s] = Free] /\ free.born = born /\ free.clock = clock
      /\ free.broken = broken /\ free.touched = {} /\ free.lost = {} /\ free.gained = {}
  BY DEF Same
<1>6. Good(free)
  <2>1. PendOK(free.pend) /\ free.units \subseteq Unit
    BY <1>5, FreedPend DEF DocInv, Types
  <2> HIDE DEF free
  <2> QED BY <1>5, <2>1, RemovedGood
<1>7. /\ q.units = units /\ q.pend = free.pend /\ q.clock = clock + 1
      /\ q.born = (IF j > born THEN j ELSE born)
      /\ q.docs = Put(docs, j, r) /\ q.files = Put(files, j, r.key) /\ q.broken = broken \ {j}
      /\ q.touched = {j} /\ q.lost = {} /\ q.gained = {j}
  BY DEF Same, Stored
<1>8. Good(q)
  <2> HIDE DEF q, free
  <2>1. PendOK(q.pend)
    <3>1. PendOK(pend) /\ q.pend = [pend EXCEPT ![s] = Free]
      BY <1>5, <1>7 DEF DocInv, Types
    <3> QED BY <3>1, FreedPend
  <2>2. /\ DOMAIN q.docs = DOMAIN docs \union {j} /\ q.docs[j] = r
        /\ \A i \in DOMAIN docs : i # j => q.docs[i] = docs[i]
        /\ j \in DOMAIN q.files /\ q.files[j] = r.key
        /\ \A i \in DOMAIN files : i # j => i \in DOMAIN q.files /\ q.files[i] = files[i]
    BY <1>7 DEF Put
  <2>3. clock + 1 > clock /\ r.up <= clock + 1 /\ r.upd = clock + 1
    BY <1>2, <1>3 DEF DocInv, Types
  <2> QED BY <1>3, <1>4, <1>7, <2>1, <2>2, <2>3, WroteGood
<1> HIDE DEF q, free
<1> QED BY <1>1, <1>6, <1>8, EndKeeps, FreshStays DEF Kept

LEMMA EditComputedKeeps ==
    ASSUME DocInv, NEW s \in Slots, EditComputed(s)
    PROVE  Kept
<1> DEFINE p == pend[s]
           j == born + 1
           r == NewRow(p.unit, p.name, {Now}, Now, Now)
           free == [Same EXCEPT !.pend[s] = Free]
           q == [Stored(free, j, r) EXCEPT !.gained = {j}, !.said = Said("stored", p.unit, j)]
<1>1. p.stage = "edit" /\ UNCHANGED fresh /\ (Complete(q) \/ Complete(free))
  BY FailsComplete DEF EditComputed
<1>2. /\ p.unit \in Unit /\ p.name \in Name /\ p.name # Legacy /\ Now \in Nat /\ Now = clock + 1
      /\ born \in Nat
  BY <1>1 DEF DocInv, Types, PendOK, Now
<1>3. /\ r \in Row /\ r.up = Now /\ r.upd = Now /\ r.name # Legacy
  <2> DEFINE t == Now
  <2>1. t \in Nat /\ {t} \in SUBSET Nat
    BY <1>2
  <2> HIDE DEF t, p
  <2> QED BY <1>2, <2>1, NewRowFacts DEF t
<1>4. j \in 1 .. born + 1
  BY <1>2
<1> HIDE DEF j, r, p
<1>5. /\ q.units = units /\ q.pend = [pend EXCEPT ![s] = Free] /\ q.clock = clock + 1
      /\ q.born = (IF j > born THEN j ELSE born)
      /\ q.docs = Put(docs, j, r) /\ q.files = Put(files, j, r.key) /\ q.broken = broken \ {j}
      /\ q.touched = {j} /\ q.lost = {} /\ q.gained = {j}
  BY DEF Same, Stored
<1>6. Good(q)
  <2>1. PendOK(q.pend)
    BY <1>5, FreedPend DEF DocInv, Types
  <2> HIDE DEF q
  <2>2. /\ DOMAIN q.docs = DOMAIN docs \union {j} /\ q.docs[j] = r
        /\ \A i \in DOMAIN docs : i # j => q.docs[i] = docs[i]
        /\ j \in DOMAIN q.files /\ q.files[j] = r.key
        /\ \A i \in DOMAIN files : i # j => i \in DOMAIN q.files /\ q.files[i] = files[i]
    BY <1>5 DEF Put
  <2>3. clock + 1 > clock /\ r.up <= clock + 1 /\ r.upd = clock + 1
    BY <1>2, <1>3 DEF DocInv, Types
  <2> QED BY <1>3, <1>4, <1>5, <2>1, <2>2, <2>3, WroteGood
<1>7. Good(free)
  <2>1. /\ free.units = units /\ free.docs = docs /\ free.files = files
        /\ free.pend = [pend EXCEPT ![s] = Free] /\ free.born = born /\ free.clock = clock
        /\ free.broken = broken /\ free.touched = {} /\ free.lost = {} /\ free.gained = {}
    BY DEF Same
  <2>2. PendOK(free.pend) /\ free.units \subseteq Unit
    BY <2>1, FreedPend DEF DocInv, Types
  <2> HIDE DEF free
  <2> QED BY <2>1, <2>2, RemovedGood
<1> HIDE DEF q, free
<1> QED BY <1>1, <1>6, <1>7, EndKeeps, FreshStays DEF Kept

Revised(o, text, name, t) == [o EXCEPT !.text = text, !.name = name, !.upd = t]

LEMMA RevisedFacts ==
    ASSUME NEW o \in Row, NEW text \in SUBSET Nat, NEW name \in Name, NEW t \in Nat
    PROVE  /\ Revised(o, text, name, t) \in Row
           /\ Revised(o, text, name, t).key = o.key /\ Revised(o, text, name, t).up = o.up
           /\ Revised(o, text, name, t).name = name /\ Revised(o, text, name, t).upd = t
<1> DEFINE a == [o EXCEPT !.text = text]
           b == [a EXCEPT !.name = name]
           c == [b EXCEPT !.upd = t]
<1>1. a \in Row /\ a.key = o.key /\ a.up = o.up
  BY DEF Row
<1> HIDE DEF a
<1>2. b \in Row /\ b.key = a.key /\ b.up = a.up /\ b.name = name
  BY <1>1 DEF Row
<1> HIDE DEF b
<1>3. c \in Row /\ c.key = b.key /\ c.up = b.up /\ c.name = b.name /\ c.upd = t
  BY <1>2 DEF Row
<1>4. Revised(o, text, name, t) = c
  BY DEF Revised, a, b
<1> HIDE DEF c
<1> QED BY <1>1, <1>2, <1>3, <1>4

\* A change of row i alone that gives it a stamp.
LEMMA OneChanged ==
    ASSUME DocInv, NEW i \in DOMAIN docs, NEW text \in SUBSET Nat, NEW name \in Name
    PROVE  /\ Restamped(docs[i], Revised(docs[i], text, name, Now))
           /\ Revised(docs[i], text, name, Now).name = name
<1>1. docs[i] \in Row /\ docs[i].up <= clock /\ clock \in Nat /\ Now = clock + 1
  BY DEF DocInv, Types, Rows, Now
<1>2. Now \in Nat /\ docs[i].up \in Nat
  BY <1>1 DEF Row
<1> DEFINE o == docs[i]
           t == Now
           r == Revised(o, text, name, t)
<1>3. r \in Row /\ r.key = o.key /\ r.up = o.up /\ r.upd = t /\ r.name = name
  <2>1. o \in Row /\ t \in Nat
    BY <1>1, <1>2
  <2> HIDE DEF o, t
  <2> QED BY <2>1, RevisedFacts
<1> HIDE DEF r
<1>4. Restamped(o, r)
  BY <1>1, <1>2, <1>3 DEF Restamped
<1> QED BY <1>3, <1>4 DEF r

LEMMA EditRowKeeps ==
    ASSUME DocInv, NEW s \in Slots, EditRow(s)
    PROVE  Kept
<1> DEFINE p == pend[s]
           i == p.doc
           q == [Same EXCEPT !.pend[s] = Free, !.clock = Now,
                     !.docs[i].text = {Now}, !.docs[i].upd = Now,
                     !.said = Said("stored", p.unit, i)]
           r == Revised(docs[i], {Now}, docs[i].name, Now)
<1>1. i \in DOMAIN docs /\ UNCHANGED fresh /\ Complete(q)
  BY DEF EditRow
<1>2. Now \in Nat /\ Now = clock + 1 /\ docs[i] \in Row /\ docs[i].name \in Name
  BY <1>1 DEF DocInv, Types, Rows, Row, Now
<1>3. /\ q.units = units /\ q.pend = [pend EXCEPT ![s] = Free] /\ q.clock = clock + 1
      /\ q.born = born /\ q.files = files /\ q.broken = broken
      /\ q.touched = {} /\ q.lost = {} /\ q.gained = {}
  BY <1>2 DEF Same
<1>4. q.docs = [[docs EXCEPT ![i].text = {Now}] EXCEPT ![i].upd = Now]
  BY DEF Same
<1>5. [[docs[i] EXCEPT !.text = {Now}] EXCEPT !.upd = Now] = r
  BY <1>2 DEF Row, Revised
<1> HIDE DEF i, q
<1>6. /\ DOMAIN q.docs = DOMAIN docs /\ q.docs[i] = r
      /\ \A k \in DOMAIN docs : k # i => q.docs[k] = docs[k]
  <2> HIDE DEF r
  <2> QED BY <1>1, <1>4, <1>5
<1>7. Restamped(docs[i], r) /\ r.name = docs[i].name
  <2> DEFINE t == {Now}
             m == docs[i].name
  <2>1. t \in SUBSET Nat /\ m \in Name
    BY <1>2
  <2> HIDE DEF t, m
  <2>2. Restamped(docs[i], Revised(docs[i], t, m, Now)) /\ Revised(docs[i], t, m, Now).name = m
    BY <1>1, <2>1, OneChanged
  <2> QED BY <2>2 DEF m, t
<1> HIDE DEF r
<1>8. Good(q)
  <2>1. PendOK(q.pend)
    BY <1>3, FreedPend DEF DocInv, Types
  <2>2. \A k \in DOMAIN docs : q.docs[k] = docs[k] \/ Restamped(docs[k], q.docs[k])
    BY <1>6, <1>7
  <2>3. \A k \in DOMAIN docs : q.docs[k].name = docs[k].name
    BY <1>6, <1>7
  <2> QED BY <1>3, <1>6, <2>1, <2>2, <2>3, ChangedGood
<1> QED BY <1>1, <1>8, EndKeeps, FreshStays DEF Kept

LEMMA RenameKeeps ==
    ASSUME DocInv, NEW user, NEW u, NEW i \in DOMAIN docs, NEW name \in Name,
           Rename(user, u, i, name)
    PROVE  Kept
<1> DEFINE q == [Same EXCEPT !.clock = Now, !.docs[i].name = name, !.docs[i].upd = Now,
                    !.lost = IF name = Legacy THEN {i} ELSE {}]
           r == Revised(docs[i], docs[i].text, name, Now)
<1>1. UNCHANGED fresh /\ Complete(q)
  BY DEF Rename
<1>2. Now \in Nat /\ Now = clock + 1 /\ docs[i] \in Row /\ docs[i].text \in SUBSET Nat
  BY DEF DocInv, Types, Rows, Row, Now
<1>3. /\ q.units = units /\ q.pend = pend /\ q.clock = clock + 1
      /\ q.born = born /\ q.files = files /\ q.broken = broken
      /\ q.touched = {} /\ q.lost = (IF name = Legacy THEN {i} ELSE {}) /\ q.gained = {}
  BY <1>2 DEF Same
<1>4. q.docs = [[docs EXCEPT ![i].name = name] EXCEPT ![i].upd = Now]
  BY DEF Same
<1>5. [[docs[i] EXCEPT !.name = name] EXCEPT !.upd = Now] = r
  BY <1>2 DEF Row, Revised
<1> HIDE DEF q
<1>6. /\ DOMAIN q.docs = DOMAIN docs /\ q.docs[i] = r
      /\ \A k \in DOMAIN docs : k # i => q.docs[k] = docs[k]
  <2> HIDE DEF r
  <2> QED BY <1>4, <1>5
<1>7. Restamped(docs[i], r) /\ r.name = name
  <2> DEFINE t == docs[i].text
  <2>1. t \in SUBSET Nat
    BY <1>2
  <2> HIDE DEF t
  <2>2. Restamped(docs[i], Revised(docs[i], t, name, Now)) /\ Revised(docs[i], t, name, Now).name = name
    BY <2>1, OneChanged
  <2> QED BY <2>2 DEF t
<1> HIDE DEF r
<1>8. Good(q)
  <2>1. PendOK(q.pend)
    BY <1>3 DEF DocInv, Types
  <2>2. \A k \in DOMAIN docs : q.docs[k] = docs[k] \/ Restamped(docs[k], q.docs[k])
    BY <1>6, <1>7
  <2>3. \A k \in DOMAIN docs :
            q.docs[k].name = docs[k].name \/ q.docs[k].name # Legacy \/ k \in q.lost
    BY <1>3, <1>6, <1>7
  <2> QED BY <1>3, <1>6, <2>1, <2>2, <2>3, ChangedGood
<1> QED BY <1>1, <1>8, EndKeeps, FreshStays DEF Kept

LEMMA DeleteKeeps ==
    ASSUME DocInv, NEW user, NEW u, NEW i, Delete(user, u, i)
    PROVE  Kept
<1> DEFINE q == [Same EXCEPT !.docs = Without(@, {i}), !.files = Without(@, {i}),
                    !.touched = {i}, !.lost = {i}]
<1>1. UNCHANGED fresh /\ Complete(q)
  BY DEF Delete
<1>2. /\ q.units = units /\ q.pend = pend /\ q.clock = clock /\ q.born = born
      /\ q.docs = Without(docs, {i}) /\ q.files = Without(files, {i}) /\ q.broken = broken
      /\ q.touched = {i} /\ q.lost = {i} /\ q.gained = {}
  BY DEF Same
<1> HIDE DEF q
<1>3. Good(q)
  <2>1. q.units \subseteq Unit /\ PendOK(q.pend)
    BY <1>2 DEF DocInv, Types
  <2>2. /\ DOMAIN q.docs = DOMAIN docs \ {i} /\ \A k \in DOMAIN docs \ {i} : q.docs[k] = docs[k]
        /\ \A k \in DOMAIN files \ {i} : k \in DOMAIN q.files /\ q.files[k] = files[k]
    BY <1>2 DEF Without
  <2> QED BY <1>2, <2>1, <2>2, RemovedGood
<1> QED BY <1>1, <1>3, EndKeeps, FreshStays DEF Kept

\* What is above a unit: Above satisfies its equation, for a parent has a smaller number.
AboveOf(us, f, u) ==
    IF Parent[u] = NoUnit THEN {}
    ELSE {Parent[u]} \union (IF Parent[u] \in us THEN f[Parent[u]] ELSE {})

\* f is right on the units below n.
AboveTo(us, f, n) == \A u \in Unit : u < n => f[u] = AboveOf(us, f, u)

LEMMA AboveExists ==
    ASSUME NEW us, NEW n \in Nat
    PROVE  \E f : DOMAIN f = Unit /\ AboveTo(us, f, n)
<1> DEFINE Bad == {m \in Nat : ~\E f : DOMAIN f = Unit /\ AboveTo(us, f, m)}
<1>1. SUFFICES ASSUME Bad # {} PROVE FALSE
  OBVIOUS
<1>2. PICK b \in Bad : \A m \in Bad : b <= m
  <2>1. Bad \in SUBSET Nat
    OBVIOUS
  <2> HIDE DEF Bad
  <2> QED BY <1>1, <2>1, Least
<1>3. b \in Nat /\ ~\E f : DOMAIN f = Unit /\ AboveTo(us, f, b)
  OBVIOUS
<1>4. Unit \subseteq Nat \ {0} /\ \A u \in Unit : Parent[u] \in Unit \union {NoUnit} /\ Parent[u] < u
  BY TreeAssumption
<1>5. CASE b = 0
  <2> DEFINE f == [u \in Unit |-> {}]
  <2>1. DOMAIN f = Unit
    OBVIOUS
  <2> HIDE DEF f
  <2>2. AboveTo(us, f, b)
    BY <1>4, <1>5 DEF AboveTo
  <2> QED BY <1>3, <2>1, <2>2
<1>6. CASE b # 0
  <2>1. b - 1 \in Nat /\ b - 1 < b
    BY <1>3, <1>6
  <2>2. b - 1 \notin Bad
    BY <1>2, <1>3, <2>1
  <2>3. PICK f : DOMAIN f = Unit /\ AboveTo(us, f, b - 1)
    BY <2>1, <2>2
  <2> HIDE DEF Bad
  <2> DEFINE g == [u \in Unit |-> IF u = b - 1 THEN AboveOf(us, f, u) ELSE f[u]]
  <2>4. \A u \in Unit : u # b - 1 => g[u] = f[u]
    OBVIOUS
  <2>5. \A u \in Unit : u = b - 1 => g[u] = AboveOf(us, f, u)
    OBVIOUS
  <2>6. DOMAIN g = Unit
    OBVIOUS
  <2> HIDE DEF g
  <2>7. ASSUME NEW u \in Unit, u < b PROVE g[u] = AboveOf(us, g, u)
    <3>1. Parent[u] # NoUnit => Parent[u] \in Unit /\ Parent[u] # b - 1
      BY <1>3, <1>4, <2>7
    <3>2. AboveOf(us, g, u) = AboveOf(us, f, u)
      BY <2>4, <3>1 DEF AboveOf
    <3>3. CASE u = b - 1
      BY <2>5, <3>2, <3>3
    <3>4. CASE u # b - 1
      <4>1. u < b - 1
        BY <1>3, <1>4, <2>7, <3>4
      <4> QED BY <2>3, <2>4, <3>2, <3>4, <4>1 DEF AboveTo
    <3> QED BY <3>3, <3>4
  <2>8. AboveTo(us, g, b)
    BY <2>7 DEF AboveTo
  <2> QED BY <1>3, <2>6, <2>8
<1> QED BY <1>5, <1>6

\* A finite set of numbers has a bound.
LEMMA Bounded ==
    ASSUME NEW S \in SUBSET Nat, IsFiniteSet(S)
    PROVE  \E b \in Nat : \A k \in S : k <= b
<1> DEFINE R == {p \in S \X S : p[1] < p[2]}
           c == Cardinality(S)
<1>1. \A i, j \in S : <<i, j>> \in R <=> i < j
  OBVIOUS
<1>2. StrictOrder(R, S)
  <2> HIDE DEF R
  <2> QED BY <1>1 DEF StrictOrder
<1> HIDE DEF R
<1>3. Ranked(R, S)
  BY <1>2, PlacesFacts
<1>4. c \in Nat
  BY FS_CardinalityType
<1>5. CASE S = {}
  BY <1>5
<1>6. CASE S # {}
  <2>1. c # 0
    BY <1>6, FS_EmptySet
  <2>2. c \in 1 .. c
    BY <1>4, <2>1
  <2>3. PICK m \in S : Cardinality(Below(R, S, m)) = c - 1
    BY <1>3, <2>2 DEF Ranked
  <2>4. ASSUME NEW k \in S PROVE k <= m
    <3> SUFFICES ASSUME m < k PROVE FALSE
      OBVIOUS
    <3>1. Cardinality(Below(R, S, m)) < Cardinality(Below(R, S, k))
      BY <1>1, <1>2, BelowGrows
    <3>2. Cardinality(Below(R, S, k)) \in 0 .. c - 1
      BY <1>3 DEF Ranked
    <3> QED BY <1>4, <2>3, <3>1, <3>2
  <2> QED BY <2>4
<1> QED BY <1>5, <1>6

LEMMA AboveIs ==
    ASSUME NEW us, NEW u \in Unit
    PROVE  Above(us)[u] = AboveOf(us, Above(us), u)
<1> DEFINE Body(f) ==
              [v \in Unit |->
                  IF Parent[v] = NoUnit THEN {}
                  ELSE {Parent[v]} \union (IF Parent[v] \in us THEN f[Parent[v]] ELSE {})]
<1>1. Above(us) = CHOOSE f : f = Body(f)
  BY DEF Above
<1>2. \A f : f = Body(f) => \A v \in Unit : f[v] = AboveOf(us, f, v)
  BY DEF AboveOf
<1>3. \E f : f = Body(f)
  <2>1. Unit \subseteq Nat /\ IsFiniteSet(Unit)
    BY TreeAssumption
  <2>2. PICK b \in Nat : \A v \in Unit : v <= b
    BY <2>1, Bounded
  <2>3. PICK f : DOMAIN f = Unit /\ AboveTo(us, f, b + 1)
    <3>1. b + 1 \in Nat
      OBVIOUS
    <3> QED BY <3>1, AboveExists
  <2>4. \A v \in Unit : f[v] = AboveOf(us, f, v)
    <3>1. \A v \in Unit : v < b + 1
      BY <2>1, <2>2
    <3> QED BY <2>3, <3>1 DEF AboveTo
  <2> DEFINE g == [v \in Unit |-> f[v]]
  <2>5. g = Body(g)
    <3>1. \A v \in Unit : Parent[v] # NoUnit => Parent[v] \in Unit
      BY TreeAssumption
    <3>2. \A v \in Unit : AboveOf(us, f, v) = AboveOf(us, g, v)
      BY <3>1 DEF AboveOf
    <3>3. Body(g) = [v \in Unit |-> AboveOf(us, g, v)]
      BY DEF AboveOf
    <3>4. g = [v \in Unit |-> AboveOf(us, g, v)]
      BY <2>4, <3>2
    <3> QED BY <3>3, <3>4
  <2> QED BY <2>5
<1> HIDE DEF Body
<1>4. Above(us) = Body(Above(us))
  BY <1>1, <1>3
<1> QED BY <1>2, <1>4

LEMMA DeleteUnitKeeps ==
    ASSUME DocInv, NEW user, NEW u \in Unit, DeleteUnit(user, u)
    PROVE  Kept
<1> DEFINE gone == Branch(units, u)
           S == {i \in DOMAIN docs : docs[i].org \in gone}
           q == [Same EXCEPT !.units = @ \ gone, !.docs = Without(@, S),
                       !.files = Without(@, S), !.touched = S, !.lost = S]
<1>1. UNCHANGED fresh /\ Complete(q)
  BY DEF DeleteUnit
<1> HIDE DEF gone, S
<1>2. /\ q.units = units \ gone /\ q.pend = pend /\ q.clock = clock /\ q.born = born
      /\ q.docs = Without(docs, S) /\ q.files = Without(files, S) /\ q.broken = broken
      /\ q.touched = S /\ q.lost = S /\ q.gained = {}
  BY DEF Same
<1> HIDE DEF q
<1>3. Good(q)
  <2>1. q.units \subseteq Unit /\ PendOK(q.pend)
    BY <1>2 DEF DocInv, Types
  <2>2. /\ DOMAIN q.docs = DOMAIN docs \ S /\ \A k \in DOMAIN docs \ S : q.docs[k] = docs[k]
        /\ \A k \in DOMAIN files \ S : k \in DOMAIN q.files /\ q.files[k] = files[k]
    BY <1>2 DEF Without
  <2> QED BY <1>2, <2>1, <2>2, RemovedGood
<1> QED BY <1>1, <1>3, EndKeeps, FreshStays DEF Kept

LEMMA CreateUnitKeeps ==
    ASSUME DocInv, NEW user, NEW u, CreateUnit(user, u)
    PROVE  Kept
<1> DEFINE q == [Same EXCEPT !.units = @ \union {u}]
<1>1. fresh' = fresh \ {u} /\ u \in fresh /\ Complete(q)
  BY DEF CreateUnit
<1>2. /\ q.units = units \union {u} /\ q.pend = pend /\ q.clock = clock /\ q.born = born
      /\ q.docs = docs /\ q.files = files /\ q.broken = broken
      /\ q.touched = {} /\ q.lost = {} /\ q.gained = {}
  BY DEF Same
<1> HIDE DEF q
<1>3. Good(q)
  <2>1. q.units \subseteq Unit /\ PendOK(q.pend)
    BY <1>1, <1>2 DEF DocInv, Types
  <2> QED BY <1>2, <2>1, RemovedGood
<1>4. fresh' \subseteq Unit
  BY <1>1 DEF DocInv, Types
<1> QED BY <1>1, <1>3, <1>4, EndKeeps DEF Kept

LEMMA MenuSaveKeeps ==
    ASSUME DocInv, NEW user, NEW u, NEW i, MenuSave(user, u, i)
    PROVE  Kept
<1>1. UNCHANGED fresh /\ Complete(Same)
  BY DEF MenuSave
<1> DEFINE q == Same
<1>2. Good(q) /\ Complete(q)
  BY <1>1, SameGood
<1> HIDE DEF q
<1> QED BY <1>1, <1>2, EndKeeps, FreshStays DEF Kept

LEMMA RestartKeeps ==
    ASSUME DocInv, Restart
    PROVE  Kept
<1>1. UNCHANGED fresh /\ Complete(Same)
  BY DEF Restart, Complete
<1> DEFINE q == Same
<1>2. Good(q) /\ Complete(q)
  BY <1>1, SameGood
<1> HIDE DEF q
<1> QED BY <1>1, <1>2, EndKeeps, FreshStays DEF Kept

\* A step that changes only the pending requests.
LEMMA PendKeeps ==
    ASSUME DocInv, PendOK(pend'), UNCHANGED <<units, fresh, docs, files, saved, born, clock,
                                              broken, unsaved, receipts, restarts>>
    PROVE  Kept
<1>1. Types'
  BY DEF DocInv, Types, Rows, Row, PendOK
<1>2. DocInv'
  BY <1>1 DEF DocInv, Open, Opens, Standing, Old
<1>3. Stamped(docs')
  BY DEF Stamped
<1> QED BY <1>2, <1>3 DEF Kept

LEMMA EnterUploadKeeps ==
    ASSUME DocInv, NEW s \in Slots, NEW user, NEW u \in Unit, EnterUpload(s, user, u)
    PROVE  Kept
<1>1. PendOK(pend')
  BY Names DEF EnterUpload, DocInv, Types, PendOK
<1> QED BY <1>1, PendKeeps DEF EnterUpload

LEMMA DocsFinite ==
    ASSUME DocInv
    PROVE  DOMAIN docs \in SUBSET Nat /\ IsFiniteSet(DOMAIN docs) /\ Cardinality(DOMAIN docs) \in Nat
<1>1. DOMAIN docs \subseteq 1 .. born /\ born \in Nat
  BY DEF DocInv, Types, Rows
<1>2. IsFiniteSet(1 .. born)
  <2>1. 1 \in Int /\ born \in Int
    BY <1>1
  <2> QED BY <2>1, FS_Interval
<1> QED BY <1>1, <1>2, FS_Subset, FS_CardinalityType

LEMMA EnterEditKeeps ==
    ASSUME DocInv, NEW s \in Slots, NEW user, NEW u \in Unit, NEW i \in DOMAIN docs \union {0},
           NEW n \in 0 .. MaxSlot, EnterEdit(s, user, u, i, n)
    PROVE  Kept
<1>1. n \in Nat /\ i \in Nat
  BY DocsFinite, BoundsAssumption
<1> DEFINE name == IF n = 0 THEN Plain ELSE Shared(n)
<1>2. name \in Name /\ name # Legacy
  BY <1>1, Names
<1> HIDE DEF name
<1>3. /\ pend' = [pend EXCEPT ![s] = [stage |-> "edit", unit |-> u, doc |-> i, name |-> name]]
      /\ UNCHANGED <<units, fresh, docs, files, saved, born, clock, broken, unsaved,
                     receipts, restarts>>
  BY DEF EnterEdit, name
<1>4. PendOK(pend')
  BY <1>1, <1>2, <1>3 DEF DocInv, Types, PendOK
<1> QED BY <1>3, <1>4, PendKeeps

LEMMA EditGoneKeeps ==
    ASSUME DocInv, NEW s \in Slots, EditGone(s)
    PROVE  Kept
<1>1. PendOK(pend')
  BY FreedPend DEF EditGone, DocInv, Types
<1> QED BY <1>1, PendKeeps DEF EditGone

LEMMA InitInv == Init => DocInv
<1> SUFFICES ASSUME Init PROVE DocInv
  OBVIOUS
<1> DEFINE us == Unit \ Later
           none == <<>>
           d == Started(us, none, 0, 0)
<1>1. /\ units = us /\ fresh = Later /\ docs = d /\ saved = [units |-> us, docs |-> d]
      /\ files = [i \in DOMAIN d |-> d[i].key] /\ pend = [s \in Slots |-> Free]
      /\ born = Cardinality(DOMAIN d) /\ clock = Cardinality(DOMAIN d)
      /\ broken = {} /\ unsaved = {} /\ receipts = {} /\ restarts = 0
  BY DEF Init
<1>2. us \in SUBSET Unit /\ Later \subseteq Unit
  BY TreeAssumption
<1> DEFINE A == Added(us, none, 0)
<1>3. DOMAIN none = {} /\ Old(none) = {}
  BY DEF Old
<1>4. Rows(none, 0, 0)
  BY <1>3 DEF Rows
<1>5. /\ Cardinality(A) \in Nat /\ DOMAIN d = A
      /\ Rows(d, 0 + Cardinality(A), 0 + Cardinality(A))
  <2>1. StartedWell(us, none, 0, 0)
    <3> HIDE DEF us, none
    <3> QED BY <1>2, <1>4, StartedFacts
  <2> QED BY <1>3, <2>1 DEF StartedWell
<1> HIDE DEF d, A, us
<1>6. Rows(docs, born, clock) /\ Rows(saved.docs, born, clock) /\ born \in Nat /\ clock \in Nat
  BY <1>1, <1>5
<1>7. Types
  BY <1>1, <1>2, <1>6, FreePend DEF Types
<1>8. Open(docs, files, {}) /\ Open(saved.docs, files, Old(saved.docs))
  BY <1>1 DEF Open, Opens
<1>9. Standing(docs, {}) /\ Standing(saved.docs, {})
  BY DEF Standing
<1> QED BY <1>1, <1>7, <1>8, <1>9 DEF DocInv

-----------------------------------------------------------------------------
(* A shared document goes up, or changes places.                             *)

\* The row that push_profile_document_up leaves above.
LEMMA PushedFacts ==
    ASSUME DocInv, NEW i \in DOMAIN docs, NEW j \in DOMAIN docs, NEW text \in SUBSET Nat
    PROVE  /\ Pushed(i, j, text) \in Row /\ Pushed(i, j, text).key = docs[i].key
           /\ Pushed(i, j, text).name = docs[i].name /\ Pushed(i, j, text).upd = Now
           /\ Pushed(i, j, text).up = docs[j].up
<1>1. docs[i] \in Row /\ docs[j] \in Row /\ Now \in Nat
  BY DEF DocInv, Types, Rows, Now
<1>2. docs[i].key \in Nat /\ docs[i].name \in Name
  BY <1>1 DEF Row
<1> DEFINE t == Now
           r == Revised(docs[j], text, docs[i].name, t)
           p == [r EXCEPT !.key = docs[i].key]
<1>3. r \in Row /\ r.up = docs[j].up /\ r.name = docs[i].name /\ r.upd = t
  <2> DEFINE o == docs[j]
             m == docs[i].name
  <2>1. o \in Row /\ m \in Name /\ t \in Nat
    BY <1>1, <1>2
  <2> HIDE DEF o, m, t
  <2>2. Revised(o, text, m, t) \in Row /\ Revised(o, text, m, t).up = o.up
        /\ Revised(o, text, m, t).name = m /\ Revised(o, text, m, t).upd = t
    BY <2>1, RevisedFacts
  <2> QED BY <2>2 DEF o, m
<1> HIDE DEF r, t
<1>4. p \in Row /\ p.key = docs[i].key /\ p.up = r.up /\ p.name = r.name /\ p.upd = r.upd
  BY <1>2, <1>3 DEF Row
<1>5. Pushed(i, j, text) = p
  <2>1. r = [[[docs[j] EXCEPT !.text = text] EXCEPT !.name = docs[i].name] EXCEPT !.upd = t]
    BY DEF r, Revised
  <2> QED BY <1>1, <2>1 DEF Pushed, Row, t
<1> QED BY <1>3, <1>4, <1>5 DEF t

LEMMA PushUpKeeps ==
    ASSUME DocInv, NEW user, NEW u, NEW i, NEW text \in SUBSET Nat, PushUp(user, u, i, text)
    PROVE  Kept
<1> DEFINE twins == Namesakes(i)
           j == IF twins = {} THEN born + 1 ELSE CHOOSE k \in twins : \A l \in twins : k <= l
           r == IF twins = {} THEN NewRow(Parent[u], docs[i].name, text, docs[i].key, Now)
                ELSE Pushed(i, j, text)
           q == [Stored(Same, j, r) EXCEPT
                    !.files[j] = files[i],
                    !.broken = IF i \in broken THEN @ \union {j} ELSE @,
                    !.gained = {j}]
<1>1. /\ OnMenu(user, u, i) /\ u \in units /\ Parent[u] # NoUnit
      /\ IsShared(docs[i]) /\ i \in DOMAIN files /\ UNCHANGED fresh
      /\ Complete(q) \/ Complete(Same) \/ WriteFails(Same, j)
  BY FailsComplete DEF PushUp
<1>2. /\ i \in DOMAIN docs /\ docs[i] \in Row /\ docs[i].name # Legacy
      /\ Now \in Nat /\ Now = clock + 1 /\ born \in Nat /\ clock \in Nat
      /\ DOMAIN docs \subseteq 1 .. born
      /\ \A k \in DOMAIN docs : docs[k].up \in Nat /\ docs[k].up <= clock
  BY <1>1 DEF OnMenu, Of, IsShared, OwnNames, DocInv, Types, Rows, Row, Now
<1>3. Parent[u] \in Unit /\ docs[i].name \in Name /\ docs[i].key \in Nat
  BY <1>1, <1>2, TreeAssumption DEF DocInv, Types, Row
<1>4. twins = {} => j = born + 1
  OBVIOUS
<1>5. twins # {} => j \in DOMAIN docs
  <2> SUFFICES ASSUME twins # {} PROVE j \in DOMAIN docs
    OBVIOUS
  <2>1. twins \subseteq DOMAIN docs /\ twins \in SUBSET Nat
    BY <1>2 DEF Namesakes, Of
  <2> HIDE DEF twins
  <2>2. \E k \in twins : \A l \in twins : k <= l
    BY <2>1, Least
  <2>3. j \in twins
    BY <2>2
  <2> HIDE DEF j
  <2> QED BY <2>1, <2>3
<1> HIDE DEF twins, j
<1>6. j \in 1 .. born + 1
  BY <1>2, <1>4, <1>5
<1>7. r \in Row /\ r.key = docs[i].key /\ r.name # Legacy /\ r.up <= clock + 1 /\ r.upd = clock + 1
  <2>1. CASE twins = {}
    <3> DEFINE t == Now
               o == Parent[u]
               m == docs[i].name
               x == docs[i].key
               n == NewRow(o, m, text, x, t)
    <3>1. o \in Unit /\ m \in Name /\ x \in Nat /\ t \in Nat
      BY <1>2, <1>3
    <3>2. n \in Row /\ n.name = m /\ n.key = x /\ n.up = t /\ n.upd = t
      <4> HIDE DEF o, m, x, t
      <4> QED BY <3>1, NewRowFacts
    <3>3. r = n
      BY <2>1
    <3> HIDE DEF n, r
    <3> QED BY <1>2, <3>2, <3>3
  <2>2. CASE twins # {}
    <3> DEFINE n == Pushed(i, j, text)
    <3>1. /\ n \in Row /\ n.key = docs[i].key /\ n.name = docs[i].name /\ n.upd = Now
          /\ n.up = docs[j].up
      BY <1>2, <1>5, <2>2, PushedFacts
    <3>2. docs[j].up \in Nat /\ docs[j].up <= clock /\ clock \in Nat
      BY <1>2, <1>5, <2>2
    <3>3. r = n
      BY <2>2
    <3> HIDE DEF n, r
    <3> QED BY <1>2, <3>1, <3>2, <3>3
  <2> QED BY <2>1, <2>2
<1> HIDE DEF r
<1>8. /\ q.units = units /\ q.pend = pend /\ q.clock = clock + 1
      /\ q.born = (IF j > born THEN j ELSE born)
      /\ q.docs = Put(docs, j, r) /\ q.files = [Put(files, j, r.key) EXCEPT ![j] = files[i]]
      /\ q.broken = (IF i \in broken THEN (broken \ {j}) \union {j} ELSE broken \ {j})
      /\ q.touched = {j} /\ q.lost = {} /\ q.gained = {j}
  BY DEF Same, Stored
<1>9. Good(q)
  <2> HIDE DEF q
  <2>1. PendOK(q.pend)
    BY <1>8 DEF DocInv, Types
  <2>2. /\ DOMAIN q.docs = DOMAIN docs \union {j} /\ q.docs[j] = r
        /\ \A k \in DOMAIN docs : k # j => q.docs[k] = docs[k]
        /\ j \in DOMAIN q.files /\ q.files[j] = files[i]
        /\ \A k \in DOMAIN files : k # j => k \in DOMAIN q.files /\ q.files[k] = files[k]
    BY <1>8 DEF Put
  <2>3. files[i] = r.key \/ j \in q.broken
    BY <1>2, <1>7, <1>8 DEF DocInv, Open, Opens
  <2>4. \A k \in broken : k # j => k \in q.broken
    BY <1>8
  <2> QED BY <1>6, <1>7, <1>8, <2>1, <2>2, <2>3, <2>4, WroteGood
<1> HIDE DEF q
<1> DEFINE p == Same
<1>10. Good(p) /\ (Complete(q) \/ Complete(p) \/ WriteFails(p, j))
  BY <1>1, SameGood
<1> HIDE DEF p
<1> QED BY <1>1, <1>9, <1>10, EndKeeps, FreshStays DEF Kept

\* A row that took the place of another.
Moved(o, up, t) == [o EXCEPT !.up = up, !.upd = t]

MovedAs(o, up, t, r) ==
    r \in Row /\ r.key = o.key /\ r.name = o.name /\ r.up = up /\ r.upd = t

LEMMA MovedFacts ==
    ASSUME NEW o \in Row, NEW up \in Nat, NEW t \in Nat
    PROVE  MovedAs(o, up, t, Moved(o, up, t))
<1> DEFINE a == [o EXCEPT !.up = up]
           b == [a EXCEPT !.upd = t]
<1>1. a \in Row /\ a.key = o.key /\ a.name = o.name /\ a.up = up
  BY DEF Row
<1> HIDE DEF a
<1>2. b \in Row /\ b.key = a.key /\ b.name = a.name /\ b.up = a.up /\ b.upd = t
  BY <1>1 DEF Row
<1>3. Moved(o, up, t) = b
  BY DEF Moved, a
<1> HIDE DEF b
<1> QED BY <1>1, <1>2, <1>3 DEF MovedAs

LEMMA MoveKeeps ==
    ASSUME DocInv, NEW user, NEW u, NEW n \in 1 .. Len(InOrder(docs, Of(docs, u))) - 1,
           Move(user, u, n)
    PROVE  Kept
<1> DEFINE S == Of(docs, u)
           order == InOrder(docs, S)
           i == order[n]
           j == order[n + 1]
           q == [Same EXCEPT !.clock = Now, !.docs = Swap(u, n)]
<1>1. UNCHANGED fresh /\ Complete(q)
  BY DEF Move
<1>2. /\ Now \in Nat /\ Now = clock + 1 /\ clock \in Nat
      /\ \A k \in DOMAIN docs : docs[k] \in Row /\ docs[k].up \in Nat /\ docs[k].up <= clock
  BY DEF DocInv, Types, Rows, Row, Now
<1>3. i \in S /\ j \in S /\ i # j
  <2>1. S \in SUBSET Nat /\ IsFiniteSet(S) /\ \A k \in S : docs[k].up \in Nat
    <3>1. S \in SUBSET DOMAIN docs
      BY DEF Of
    <3> HIDE DEF S
    <3> QED BY <1>2, <3>1, DocsFinite, FS_Subset
  <2> HIDE DEF S
  <2>2. /\ Cardinality(S) \in Nat /\ Len(order) = Cardinality(S)
        /\ \A m \in 1 .. Cardinality(S) : order[m] \in S /\ Place(docs, S, order[m]) = m
    BY <2>1, OrderFacts
  <2>3. n \in 1 .. Cardinality(S) /\ n + 1 \in 1 .. Cardinality(S) /\ n # n + 1
    BY <2>2 DEF S
  <2>4. Place(docs, S, i) = n /\ Place(docs, S, j) = n + 1 /\ i \in S /\ j \in S
    BY <2>2, <2>3
  <2> QED BY <2>3, <2>4
<1>4. i \in DOMAIN docs /\ j \in DOMAIN docs
  BY <1>3 DEF Of
<1>5. Swap(u, n) = [docs EXCEPT ![i].up = docs[j].up, ![j].up = docs[i].up,
                                ![i].upd = Now, ![j].upd = Now]
  BY DEF Swap
<1>6. /\ q.units = units /\ q.pend = pend /\ q.clock = clock + 1 /\ q.born = born
      /\ q.docs = Swap(u, n) /\ q.files = files /\ q.broken = broken
      /\ q.touched = {} /\ q.lost = {} /\ q.gained = {}
  BY <1>2 DEF Same
<1> HIDE DEF i, j, q, S, order
<1>7. /\ DOMAIN q.docs = DOMAIN docs
      /\ q.docs[i] = Moved(docs[i], docs[j].up, Now) /\ q.docs[j] = Moved(docs[j], docs[i].up, Now)
      /\ \A k \in DOMAIN docs : k # i /\ k # j => q.docs[k] = docs[k]
  <2> DEFINE ui == docs[j].up
             uj == docs[i].up
             t == Now
             b1 == [docs EXCEPT ![i].up = ui]
             b2 == [b1 EXCEPT ![j].up = uj]
             b3 == [b2 EXCEPT ![i].upd = t]
             b4 == [b3 EXCEPT ![j].upd = t]
             a(o, up) == [o EXCEPT !.up = up]
             s(o) == [o EXCEPT !.upd = t]
  <2>1. q.docs = b4
    BY <1>5, <1>6
  <2>2. /\ DOMAIN b1 = DOMAIN docs /\ b1[i] = a(docs[i], ui) /\ b1[j] = docs[j]
        /\ \A k \in DOMAIN docs : k # i => b1[k] = docs[k]
    <3> HIDE DEF ui
    <3> QED BY <1>3, <1>4
  <2> HIDE DEF b1
  <2>3. /\ DOMAIN b2 = DOMAIN docs /\ b2[i] = b1[i] /\ b2[j] = a(b1[j], uj)
        /\ \A k \in DOMAIN docs : k # j => b2[k] = b1[k]
    <3> HIDE DEF uj
    <3> QED BY <1>3, <1>4, <2>2
  <2> HIDE DEF b2
  <2>4. /\ DOMAIN b3 = DOMAIN docs /\ b3[i] = s(b2[i]) /\ b3[j] = b2[j]
        /\ \A k \in DOMAIN docs : k # i => b3[k] = b2[k]
    <3> HIDE DEF t
    <3> QED BY <1>3, <1>4, <2>3
  <2> HIDE DEF b3
  <2>5. /\ DOMAIN b4 = DOMAIN docs /\ b4[i] = b3[i] /\ b4[j] = s(b3[j])
        /\ \A k \in DOMAIN docs : k # j => b4[k] = b3[k]
    <3> HIDE DEF t
    <3> QED BY <1>3, <1>4, <2>4
  <2> HIDE DEF b4
  <2>6. Moved(docs[i], ui, t) = s(a(docs[i], ui)) /\ Moved(docs[j], uj, t) = s(a(docs[j], uj))
    BY Zenon DEF Moved
  <2> HIDE DEF a, s
  <2>7. b4[i] = s(a(docs[i], ui)) /\ b4[j] = s(a(docs[j], uj))
    BY <2>2, <2>3, <2>4, <2>5
  <2>8. \A k \in DOMAIN docs : k # i /\ k # j => b4[k] = docs[k]
    BY <2>2, <2>3, <2>4, <2>5
  <2> QED BY <2>1, <2>5, <2>6, <2>7, <2>8
<1>8. ASSUME NEW k \in DOMAIN docs, NEW l \in DOMAIN docs, q.docs[k] = Moved(docs[k], docs[l].up, Now)
      PROVE  Restamped(docs[k], q.docs[k]) /\ q.docs[k].name = docs[k].name
  <2> DEFINE o == docs[k]
             up == docs[l].up
             t == Now
             r == Moved(o, up, t)
  <2>1. o \in Row /\ up \in Nat /\ t \in Nat /\ up <= clock
    BY <1>2
  <2>2. r \in Row /\ r.key = o.key /\ r.name = o.name /\ r.up = up /\ r.upd = t
    <3>1. o \in Row /\ up \in Nat /\ t \in Nat
      BY <2>1
    <3> HIDE DEF o, up, t
    <3>2. MovedAs(o, up, t, r)
      BY <3>1, MovedFacts
    <3> HIDE DEF r
    <3> QED BY <3>2 DEF MovedAs
  <2>3. q.docs[k] = r
    BY <1>8
  <2> HIDE DEF r
  <2> QED BY <1>2, <2>1, <2>2, <2>3 DEF Restamped
<1>9. Good(q)
  <2>1. PendOK(q.pend)
    BY <1>6 DEF DocInv, Types
  <2>2. \A k \in DOMAIN docs : q.docs[k] = docs[k] \/ Restamped(docs[k], q.docs[k])
    BY <1>4, <1>7, <1>8
  <2>3. \A k \in DOMAIN docs : q.docs[k].name = docs[k].name
    BY <1>4, <1>7, <1>8
  <2> QED BY <1>6, <1>7, <2>1, <2>2, <2>3, ChangedGood
<1> QED BY <1>1, <1>9, EndKeeps, FreshStays DEF Kept

-----------------------------------------------------------------------------
(* A synchronisation of the shared documents.                                *)

\* The documents of a unit are in order, whichever of them one takes.
LEMMA OrderOf ==
    ASSUME DocInv, NEW S \in SUBSET DOMAIN docs
    PROVE  /\ Cardinality(S) \in Nat /\ Cardinality(S) <= Cardinality(DOMAIN docs)
           /\ Len(InOrder(docs, S)) = Cardinality(S)
           /\ \A n \in 1 .. Cardinality(S) : InOrder(docs, S)[n] \in S
<1>1. \A k \in DOMAIN docs : docs[k].up \in Nat
  BY DEF DocInv, Types, Rows, Row
<1>2. S \in SUBSET Nat /\ IsFiniteSet(S) /\ Cardinality(S) <= Cardinality(DOMAIN docs)
  BY DocsFinite, FS_Subset
<1> QED BY <1>1, <1>2, OrderFacts

SharedIds(d, u) == {i \in Of(d, u) : IsShared(d[i])}

\* The target of the n-th slot: the shared document at that place, or the next new one.
LEMMA TargetFacts ==
    ASSUME DocInv, NEW u, NEW n \in Nat \ {0}
    PROVE  /\ SharedIds(docs, u) \in SUBSET DOMAIN docs /\ IsFiniteSet(SharedIds(docs, u))
           /\ Len(SharedOf(docs, u)) \in Nat /\ Len(SharedOf(docs, u)) = Cardinality(SharedIds(docs, u))
           /\ n <= Len(SharedOf(docs, u)) =>
                 /\ Target(u, n) \in SharedIds(docs, u) /\ docs[Target(u, n)].name # Legacy
                 /\ Place(docs, SharedIds(docs, u), Target(u, n)) = n
           /\ ~(n <= Len(SharedOf(docs, u))) =>
                 Target(u, n) = born + (n - Len(SharedOf(docs, u)))
<1> DEFINE S == SharedIds(docs, u)
<1>1. S \in SUBSET DOMAIN docs /\ \A i \in S : docs[i].name # Legacy
  BY DEF SharedIds, Of, IsShared, OwnNames
<1>2. SharedOf(docs, u) = InOrder(docs, S)
  BY DEF SharedOf, SharedIds
<1> HIDE DEF S
<1>3. /\ IsFiniteSet(S) /\ Cardinality(S) \in Nat /\ Len(InOrder(docs, S)) = Cardinality(S)
      /\ \A m \in 1 .. Cardinality(S) :
            InOrder(docs, S)[m] \in S /\ Place(docs, S, InOrder(docs, S)[m]) = m
  <2>1. S \in SUBSET Nat /\ IsFiniteSet(S)
    BY <1>1, DocsFinite, FS_Subset
  <2>2. \A k \in S : docs[k].up \in Nat
    BY <1>1 DEF DocInv, Types, Rows, Row
  <2> QED BY <2>1, <2>2, OrderFacts
<1>4. CASE n <= Len(SharedOf(docs, u))
  <2>1. Target(u, n) = InOrder(docs, S)[n]
    BY <1>2, <1>4 DEF Target
  <2>2. n \in 1 .. Cardinality(S)
    BY <1>2, <1>3, <1>4
  <2> QED BY <1>1, <1>2, <1>3, <1>4, <2>1, <2>2 DEF S
<1>5. CASE ~(n <= Len(SharedOf(docs, u)))
  BY <1>1, <1>2, <1>3, <1>5 DEF Target, S
<1> QED BY <1>4, <1>5

\* A merged table lists entries.
LEMMA MergedTextFacts ==
    ASSUME DocInv, NEW u, NEW n \in Nat \ {0}
    PROVE  MergedText(u, n) \in SUBSET Nat
<1> DEFINE below == ChildDocuments(u)
<1>1. ASSUME NEW v \in DOMAIN below, n <= Len(below[v])
      PROVE  docs[below[v][n]].text \in SUBSET Nat
  <2> DEFINE S == Of(docs, v)
  <2>1. below[v] = InOrder(docs, S)
    BY DEF ChildDocuments
  <2>2. S \in SUBSET DOMAIN docs
    BY DEF Of
  <2> HIDE DEF S, below
  <2>3. InOrder(docs, S)[n] \in S
    BY <1>1, <2>1, <2>2, OrderOf
  <2>4. below[v][n] \in DOMAIN docs
    BY <2>1, <2>2, <2>3
  <2> QED BY <2>4 DEF DocInv, Types, Rows, Row
<1> HIDE DEF below
<1>2. MergedText(u, n)
        = UNION {docs[below[v][n]].text : v \in {x \in DOMAIN below : n <= Len(below[x])}}
  BY DEF MergedText, below
<1> QED BY <1>1, <1>2

LEMMA SlotsFinite ==
    ASSUME DocInv, NEW u
    PROVE  Longest(ChildDocuments(u)) \in Nat
<1> DEFINE below == ChildDocuments(u)
           b == Cardinality(DOMAIN docs)
           S == {Len(below[v]) : v \in DOMAIN below}
<1>1. ASSUME NEW v \in DOMAIN below PROVE Len(below[v]) \in Nat /\ Len(below[v]) <= b
  <2> DEFINE T == Of(docs, v)
  <2>1. below[v] = InOrder(docs, T)
    BY DEF ChildDocuments
  <2>2. T \in SUBSET DOMAIN docs
    BY DEF Of
  <2> HIDE DEF T, below
  <2> QED BY <2>1, <2>2, OrderOf
<1>2. b \in Nat
  BY DocsFinite
<1> HIDE DEF below, b
<1>3. S \in SUBSET Nat /\ \A k \in S : k <= b
  BY <1>1
<1> HIDE DEF S
<1>4. MaxOf(S) \in Nat
  BY <1>2, <1>3, MaxFacts
<1> QED BY <1>4 DEF Longest, S, below

\* The row of a document that a slot wrote at time t.
SlotRow(o, text, t) == [o EXCEPT !.text = text, !.key = t, !.upd = t]

LEMMA SlotRowFacts ==
    ASSUME NEW o \in Row, NEW text \in SUBSET Nat, NEW t \in Nat
    PROVE  /\ SlotRow(o, text, t) \in Row /\ SlotRow(o, text, t).name = o.name
           /\ SlotRow(o, text, t).up = o.up /\ SlotRow(o, text, t).upd = t
           /\ SlotRow(o, text, t).key = t /\ SlotRow(o, text, t).org = o.org
           /\ SlotRow(o, text, t).text = text
<1> DEFINE a == [o EXCEPT !.text = text]
           b == [a EXCEPT !.key = t]
           c == [b EXCEPT !.upd = t]
<1>1. a \in Row /\ a.name = o.name /\ a.up = o.up /\ a.org = o.org /\ a.text = text
  BY DEF Row
<1> HIDE DEF a
<1>2. b \in Row /\ b.name = a.name /\ b.up = a.up /\ b.key = t /\ b.org = a.org /\ b.text = a.text
  BY <1>1 DEF Row
<1> HIDE DEF b
<1>3. /\ c \in Row /\ c.name = b.name /\ c.up = b.up /\ c.key = b.key /\ c.upd = t
      /\ c.org = b.org /\ c.text = b.text
  BY <1>2 DEF Row
<1>4. SlotRow(o, text, t) = c
  BY DEF SlotRow, a, b
<1> HIDE DEF c
<1> QED BY <1>1, <1>2, <1>3, <1>4

\* What the first n slots wrote: each target a row and a file with the key of its time.
Wrote(u, n, d, f, T) ==
    /\ DOMAIN d = DOMAIN docs \union T /\ \A i \in DOMAIN docs \ T : d[i] = docs[i]
    /\ \A i \in T : i \in DOMAIN f /\ f[i] = d[i].key
    /\ \A i \in DOMAIN files \ T : i \in DOMAIN f /\ f[i] = files[i]
    /\ \A i \in T : \E k \in 1 .. n :
          /\ i = Target(u, k)
          /\ d[i] = IF i \in DOMAIN docs THEN SlotRow(docs[i], MergedText(u, k), clock + k)
                    ELSE NewRow(u, Shared(k), MergedText(u, k), clock + k, clock + k)

\* The state after the first n slots are written, field by field.
SyncedAs(u, n, q, T) ==
    LET had == Len(SharedOf(docs, u)) IN
    /\ q.units = units /\ q.pend = pend /\ q.clock = clock + n
    /\ q.born = (IF n <= had THEN born ELSE born + (n - had))
    /\ q.broken = broken \ T /\ q.touched = T /\ q.lost = {} /\ q.gained = {}
    /\ Wrote(u, n, q.docs, q.files, T)

LEMMA SyncedFacts ==
    ASSUME NEW u, NEW n \in Nat
    PROVE  SyncedAs(u, n, Synced(u, n), {Target(u, k) : k \in 1 .. n})
<1> DEFINE q == Synced(u, n)
           T == {Target(u, k) : k \in 1 .. n}
           had == Len(SharedOf(docs, u))
           slot(i) == CHOOSE k \in 1 .. n : Target(u, k) = i
           row(i) == IF i \in DOMAIN docs
                     THEN SlotRow(docs[i], MergedText(u, slot(i)), clock + slot(i))
                     ELSE NewRow(u, Shared(slot(i)), MergedText(u, slot(i)),
                                 clock + slot(i), clock + slot(i))
           d == [i \in DOMAIN docs \union T |-> IF i \in T THEN row(i) ELSE docs[i]]
           f == [i \in DOMAIN files \union T |-> IF i \in T THEN d[i].key ELSE files[i]]
<1>1. q = [Same EXCEPT !.docs = d, !.files = f, !.broken = @ \ T, !.touched = T,
                       !.born = IF n <= had THEN @ ELSE @ + (n - had), !.clock = @ + n]
  BY DEF Synced, SlotRow
<1> HIDE DEF d, f, T, had, q
<1>2. /\ q.units = units /\ q.pend = pend /\ q.clock = clock + n
      /\ q.born = (IF n <= had THEN born ELSE born + (n - had))
      /\ q.broken = broken \ T /\ q.touched = T /\ q.lost = {} /\ q.gained = {}
      /\ q.docs = d /\ q.files = f
  BY <1>1 DEF Same
<1>3. \A i \in T : slot(i) \in 1 .. n /\ Target(u, slot(i)) = i
  BY DEF T
<1> HIDE DEF slot
<1>4. DOMAIN d = DOMAIN docs \union T /\ \A i \in DOMAIN docs \ T : d[i] = docs[i]
  BY DEF d
<1>5. /\ \A i \in T : i \in DOMAIN f /\ f[i] = d[i].key
      /\ \A i \in DOMAIN files \ T : i \in DOMAIN f /\ f[i] = files[i]
  BY DEF f
<1>6. \A i \in T : d[i] = row(i)
  BY DEF d
<1>7. ASSUME NEW i \in T
      PROVE  \E k \in 1 .. n :
                /\ i = Target(u, k)
                /\ d[i] = IF i \in DOMAIN docs THEN SlotRow(docs[i], MergedText(u, k), clock + k)
                          ELSE NewRow(u, Shared(k), MergedText(u, k), clock + k, clock + k)
  BY <1>3, <1>6
<1>8. Wrote(u, n, d, f, T)
  BY <1>4, <1>5, <1>7 DEF Wrote
<1>9. q = Synced(u, n) /\ T = {Target(u, k) : k \in 1 .. n}
  BY DEF q, T
<1>10. SyncedAs(u, n, q, T)
  <2>1. q.touched = T /\ q.lost = {} /\ q.gained = {} /\ q.broken = broken \ T
    BY <1>2
  <2>2. Wrote(u, n, q.docs, q.files, T)
    BY <1>2, <1>8
  <2> QED BY <1>2, <2>1, <2>2 DEF SyncedAs, had
<1> QED BY <1>9, <1>10

\* What a synchronisation wrote is good at every slot, whether it answers or not.
LEMMA SyncedGood ==
    ASSUME DocInv, NEW u \in Unit, NEW n \in Nat, NEW o, NEW T,
           T = {Target(u, k) : k \in 1 .. n},
           o.units = units, o.pend = pend, o.clock = clock + n,
           o.born = (IF n <= Len(SharedOf(docs, u)) THEN born
                     ELSE born + (n - Len(SharedOf(docs, u)))),
           o.broken = broken \ T, o.touched = T, o.lost = {}, o.gained \subseteq T,
           Wrote(u, n, o.docs, o.files, T)
    PROVE  Good(o)
<1> DEFINE had == Len(SharedOf(docs, u))
<1>1. /\ Types /\ Open(docs, files, broken)
      /\ Open(saved.docs, files, Old(saved.docs) \union broken \union unsaved)
      /\ Standing(docs, receipts)
  BY DEF DocInv
<1>2. /\ born \in Nat /\ clock \in Nat /\ PendOK(pend) /\ units \subseteq Unit
      /\ \A i \in DOMAIN docs : i \in 1 .. born /\ docs[i] \in Row /\ docs[i].up \in Nat
                                /\ docs[i].up <= clock
                                /\ docs[i].upd \in Nat /\ docs[i].upd <= clock
  BY <1>1 DEF Types, Rows, Row
<1>3. had \in Nat
  <2>1. 1 \in Nat \ {0}
    OBVIOUS
  <2> QED BY <2>1, TargetFacts
<1>4. ASSUME NEW k \in 1 .. n
      PROVE  /\ k \in Nat \ {0}
             /\ k <= had => Target(u, k) \in DOMAIN docs /\ docs[Target(u, k)].name # Legacy
             /\ ~(k <= had) => Target(u, k) = born + (k - had)
  <2>1. k \in Nat \ {0}
    OBVIOUS
  <2> QED BY <2>1, TargetFacts
<1> HIDE DEF had
<1>5. o.born \in Nat /\ o.clock \in Nat /\ born <= o.born /\ clock <= o.clock
  BY <1>2, <1>3 DEF had
<1>6. ASSUME NEW i \in T
      PROVE  /\ i \in 1 .. o.born /\ o.docs[i] \in Row /\ o.docs[i].up <= o.clock
             /\ o.docs[i].upd > clock /\ o.docs[i].upd <= o.clock /\ o.docs[i].name # Legacy
  <2>1. PICK k \in 1 .. n :
           /\ i = Target(u, k)
           /\ o.docs[i] = IF i \in DOMAIN docs THEN SlotRow(docs[i], MergedText(u, k), clock + k)
                          ELSE NewRow(u, Shared(k), MergedText(u, k), clock + k, clock + k)
    BY DEF Wrote
  <2> DEFINE t == clock + k
             x == MergedText(u, k)
  <2>2. t \in Nat /\ t > clock /\ t <= o.clock /\ k \in Nat
    BY <1>2
  <2>3. x \in SUBSET Nat
    BY <1>4, MergedTextFacts
  <2>4. o.docs[i] = IF i \in DOMAIN docs THEN SlotRow(docs[i], x, t) ELSE NewRow(u, Shared(k), x, t, t)
    BY <2>1
  <2> HIDE DEF t, x
  <2>5. CASE k <= had
    <3>1. i \in DOMAIN docs /\ docs[i].name # Legacy
      BY <1>4, <2>1, <2>5
    <3> DEFINE p == docs[i]
               r == SlotRow(p, x, t)
    <3>2. p \in Row /\ p.up \in Nat /\ p.up <= clock /\ i \in 1 .. o.born
      BY <1>2, <1>5, <3>1
    <3>3. r \in Row
      BY <2>2, <2>3, <3>2, SlotRowFacts
    <3>4. r.name = p.name
      BY <2>2, <2>3, <3>2, SlotRowFacts
    <3>5. r.up = p.up /\ r.upd = t
      BY <2>2, <2>3, <3>2, SlotRowFacts
    <3>6. o.docs[i] = r
      BY <2>4, <3>1
    <3> HIDE DEF r
    <3>7. r.up <= o.clock
      BY <1>2, <1>5, <3>2, <3>5
    <3> QED BY <2>2, <3>1, <3>2, <3>3, <3>4, <3>5, <3>6, <3>7
  <2>6. CASE ~(k <= had)
    <3>1. i = born + (k - had)
      BY <1>4, <2>1, <2>6
    <3>2. i \notin DOMAIN docs /\ i \in 1 .. o.born
      <4>1. i > born /\ i \in Nat /\ o.born = born + (n - had) /\ i <= o.born
        BY <1>2, <1>3, <2>6, <3>1 DEF had
      <4> QED BY <1>2, <4>1
    <3> DEFINE m == Shared(k)
               r == NewRow(u, m, x, t, t)
    <3>3. m \in Name /\ m # Legacy
      BY <2>2, Names
    <3>4. r \in Row /\ r.name = m /\ r.up = t /\ r.upd = t
      <4> HIDE DEF m
      <4>1. m \in Name /\ x \in SUBSET Nat /\ t \in Nat
        BY <2>2, <2>3, <3>3
      <4>2. r \in Row
        BY <4>1, NewRowFacts
      <4>3. r.name = m
        BY <4>1, NewRowFacts
      <4>4. r.up = t
        BY <4>1, NewRowFacts
      <4>5. r.upd = t
        BY <4>1, NewRowFacts
      <4> QED BY <4>2, <4>3, <4>4, <4>5
    <3>5. o.docs[i] = r
      BY <2>4, <3>2
    <3> HIDE DEF r, m
    <3> QED BY <2>2, <3>2, <3>3, <3>4, <3>5
  <2> QED BY <2>5, <2>6
<1>7. Rows(o.docs, o.born, o.clock)
  <2>1. ASSUME NEW i \in DOMAIN docs, i \notin T
        PROVE  /\ i \in 1 .. o.born /\ o.docs[i] \in Row /\ o.docs[i].up <= o.clock
               /\ o.docs[i].upd <= o.clock
    <3>1. o.docs[i] = docs[i]
      BY <2>1 DEF Wrote
    <3> QED BY <1>2, <1>5, <3>1
  <2>2. DOMAIN o.docs = DOMAIN docs \union T
    BY DEF Wrote
  <2> QED BY <1>6, <2>1, <2>2 DEF Rows
<1>8. Open(o.docs, o.files, o.broken)
  BY <1>1 DEF Open, Opens, Wrote
<1>9. Open(saved.docs, o.files, Old(saved.docs) \union o.broken \union unsaved \union o.touched)
  BY <1>1 DEF Open, Opens, Wrote
<1>10. Standing(o.docs, (receipts \ o.lost) \union o.gained)
  <2> SUFFICES ASSUME NEW i \in receipts \union T PROVE i \in DOMAIN o.docs /\ o.docs[i].name # Legacy
    BY DEF Standing, Old
  <2>1. CASE i \in T
    BY <1>6, <2>1 DEF Wrote
  <2>2. CASE i \notin T
    <3>1. i \in DOMAIN docs /\ docs[i].name # Legacy
      BY <1>1, <2>2 DEF Standing, Old
    <3> QED BY <2>2, <3>1 DEF Wrote
  <2> QED BY <2>1, <2>2
<1>11. Stamped(o.docs)
  <2> SUFFICES ASSUME NEW i \in DOMAIN o.docs
               PROVE  (i \in DOMAIN docs /\ o.docs[i] = docs[i]) \/ o.docs[i].upd > clock
    BY DEF Stamped
  <2>1. i \in T \/ (i \in DOMAIN docs \ T)
    BY DEF Wrote
  <2> QED BY <1>6, <2>1 DEF Wrote
<1> QED BY <1>2, <1>5, <1>7, <1>8, <1>9, <1>10, <1>11 DEF Good

LEMMA SlotsGood ==
    ASSUME DocInv, NEW u \in Unit, NEW n \in Nat
    PROVE  Good(Synced(u, n))
<1> DEFINE q == Synced(u, n)
           T == {Target(u, k) : k \in 1 .. n}
<1>1. /\ q.units = units /\ q.pend = pend /\ q.clock = clock + n
      /\ q.born = (IF n <= Len(SharedOf(docs, u)) THEN born
                   ELSE born + (n - Len(SharedOf(docs, u))))
      /\ q.broken = broken \ T /\ q.touched = T /\ q.lost = {} /\ q.gained = {}
      /\ Wrote(u, n, q.docs, q.files, T)
  <2>1. SyncedAs(u, n, q, T)
    BY SyncedFacts
  <2> HIDE DEF q, T
  <2> QED BY <2>1 DEF SyncedAs
<1> HIDE DEF q
<1>2. q.gained \subseteq T
  BY <1>1
<1>3. Good(q)
  BY <1>1, <1>2, SyncedGood
<1> QED BY <1>3 DEF q

LEMMA SyncSharedKeeps ==
    ASSUME DocInv, NEW user, NEW u \in Unit, SyncShared(user, u)
    PROVE  Kept
<1> DEFINE slots == Longest(ChildDocuments(u))
           all == Synced(u, slots)
           q == [all EXCEPT !.gained = all.touched, !.said = Said("synced", u, 0)]
           T == {Target(u, k) : k \in 1 .. slots}
<1>1. /\ UNCHANGED fresh
      /\ \/ Complete(q)
         \/ \E n \in 1 .. slots : \/ WriteFails(Synced(u, n - 1), Target(u, n))
                                 \/ Complete(Synced(u, n - 1)) \/ Killed(Synced(u, n))
  BY FailsComplete DEF SyncShared
<1>2. slots \in Nat
  BY SlotsFinite
<1> HIDE DEF slots
<1>3. CASE Complete(q)
  <2>1. /\ all.units = units /\ all.pend = pend /\ all.clock = clock + slots
        /\ all.born = (IF slots <= Len(SharedOf(docs, u)) THEN born
                       ELSE born + (slots - Len(SharedOf(docs, u))))
        /\ all.broken = broken \ T /\ all.touched = T /\ all.lost = {}
        /\ Wrote(u, slots, all.docs, all.files, T)
    <3>1. SyncedAs(u, slots, all, T)
      BY <1>2, SyncedFacts
    <3> HIDE DEF all, T
    <3> QED BY <3>1 DEF SyncedAs
  <2>2. "gained" \in DOMAIN all
    BY DEF Synced, Same
  <2> HIDE DEF all
  <2>3. /\ q.units = units /\ q.pend = pend /\ q.clock = clock + slots
        /\ q.born = (IF slots <= Len(SharedOf(docs, u)) THEN born
                     ELSE born + (slots - Len(SharedOf(docs, u))))
        /\ q.broken = broken \ T /\ q.touched = T /\ q.lost = {} /\ q.gained = T
        /\ Wrote(u, slots, q.docs, q.files, T)
    BY <2>1, <2>2
  <2> HIDE DEF q
  <2>4. Good(q)
    BY <1>2, <2>3, SyncedGood
  <2> QED BY <1>1, <1>3, <2>4, EndKeeps, FreshStays DEF Kept
<1>4. ASSUME NEW n \in 1 .. slots,
             WriteFails(Synced(u, n - 1), Target(u, n)) \/ Complete(Synced(u, n - 1))
      PROVE  Kept
  <2> DEFINE o == Synced(u, n - 1)
  <2>1. n - 1 \in Nat
    BY <1>2
  <2>2. Good(o) /\ (WriteFails(o, Target(u, n)) \/ Complete(o))
    BY <1>4, <2>1, SlotsGood
  <2> HIDE DEF o
  <2> QED BY <1>1, <2>2, EndKeeps, FreshStays DEF Kept
<1>5. ASSUME NEW n \in 1 .. slots, Killed(Synced(u, n)) PROVE Kept
  <2> DEFINE o == Synced(u, n)
  <2>1. n \in Nat
    BY <1>2
  <2>2. Good(o) /\ Complete(o)
    BY <1>5, <2>1, SlotsGood DEF Complete
  <2> HIDE DEF o
  <2> QED BY <1>1, <2>2, EndKeeps, FreshStays DEF Kept
<1> QED BY <1>1, <1>3, <1>4, <1>5

-----------------------------------------------------------------------------
(* The theorems.                                                             *)

LEMMA MenuKeeps ==
    ASSUME DocInv, NEW user, NEW u \in Unit, Menu(user, u)
    PROVE  Kept
<1>1. ASSUME NEW i \in Of(docs, u),
             Delete(user, u, i) \/ MenuSave(user, u, i)
      PROVE  Kept
  BY <1>1, DeleteKeeps, MenuSaveKeeps
<1>2. ASSUME NEW i \in Of(docs, u), NEW name \in OwnNames \union {Shared(n) : n \in 1 .. MaxSlot},
             Rename(user, u, i, name)
      PROVE  Kept
  <2>1. name \in Name
    BY Names DEF OwnNames
  <2> QED BY <1>2, <2>1, RenameKeeps DEF Of
<1>3. ASSUME NEW i \in Of(docs, u), NEW text \in {docs[i].text, {Now}}, PushUp(user, u, i, text)
      PROVE  Kept
  <2>1. docs[i].text \in SUBSET Nat /\ Now \in Nat
    BY DEF Of, DocInv, Types, Rows, Row, Now
  <2>2. text \in SUBSET Nat
    BY <2>1
  <2> QED BY <1>3, <2>2, PushUpKeeps
<1>4. ASSUME NEW n \in 1 .. Len(InOrder(docs, Of(docs, u))) - 1, Move(user, u, n)
      PROVE  Kept
  BY <1>4, MoveKeeps
<1> QED BY <1>1, <1>2, <1>3, <1>4 DEF Menu

\* Every step keeps the invariant, and stamps the rows it changes unless it is a restart.
LEMMA StepKeeps ==
    ASSUME DocInv, Next
    PROVE  Kept
<1>1. ASSUME NEW user \in Users, NEW u \in Unit, NEW s \in Slots, EnterUpload(s, user, u)
      PROVE  Kept
  BY <1>1, EnterUploadKeeps
<1>2. ASSUME NEW user \in Users, NEW u \in Unit, NEW s \in Slots, NEW i \in DOMAIN docs \union {0},
             NEW n \in 0 .. MaxSlot, EnterEdit(s, user, u, i, n)
      PROVE  Kept
  BY <1>2, EnterEditKeeps
<1>3. ASSUME NEW user \in Users, NEW u \in Unit, Menu(user, u) PROVE Kept
  BY <1>3, MenuKeeps
<1>4. ASSUME NEW user \in Users, NEW u \in Unit,
             SyncShared(user, u) \/ CreateUnit(user, u) \/ DeleteUnit(user, u)
      PROVE  Kept
  BY <1>4, SyncSharedKeeps, CreateUnitKeeps, DeleteUnitKeeps
<1>5. ASSUME NEW s \in Slots, Upload(s) \/ EditRow(s) \/ EditComputed(s) \/ EditGone(s)
      PROVE  Kept
  BY <1>5, UploadKeeps, EditRowKeeps, EditComputedKeeps, EditGoneKeeps
<1>6. CASE Restart
  BY <1>6, RestartKeeps
<1> QED BY <1>1, <1>2, <1>3, <1>4, <1>5, <1>6 DEF Next

LEMMA StutterKeeps ==
    ASSUME DocInv, UNCHANGED vars
    PROVE  DocInv'
BY DEF vars, DocInv, Types, PendOK, Rows, Row, Open, Opens, Standing, Old

THEOREM DocumentsInvariant == Spec => []DocInv
<1>1. DocInv /\ [Next]_vars => DocInv'
  BY StepKeeps, StutterKeeps DEF Kept
<1> QED BY InitInv, <1>1, PTL DEF Spec

\* A document opens unless a failed write, or a restart between its file and its row, broke
\* it (web.rs:3143, 3150), for every tree and any number of documents, requests and faults.
THEOREM RowsAlwaysOpen == Spec => []RowsOpen
<1>1. DocInv => RowsOpen
  BY DEF DocInv, Open, RowsOpen
<1> QED BY <1>1, DocumentsInvariant, PTL

\* No handler changes a row without a later updated_at (web.rs:7406 compares it).
THEOREM ChangesAreStamped == Spec => EveryChangeIsStamped
<1>1. DocInv /\ [Next]_vars =>
         [restarts' = restarts =>
            \A i \in DOMAIN docs' :
                (IF i \in DOMAIN docs THEN docs'[i] = docs[i] ELSE FALSE)
                \/ docs'[i].upd > clock]_vars
  <2> SUFFICES ASSUME DocInv, Next, restarts' = restarts, NEW i \in DOMAIN docs'
               PROVE  \/ IF i \in DOMAIN docs THEN docs'[i] = docs[i] ELSE FALSE
                      \/ docs'[i].upd > clock
    OBVIOUS
  <2>1. Stamped(docs')
    BY StepKeeps DEF Kept
  <2> QED BY <2>1 DEF Stamped
<1> QED BY <1>1, DocumentsInvariant, PTL DEF Spec, EveryChangeIsStamped

\* What was answered as stored has a row, in memory and in what a start loads, and is not
\* among the documents that a start deletes (web.rs:948).
THEOREM StoredAlwaysStays == Spec => []StoredStays
<1>1. DocInv => StoredStays
  BY DEF DocInv, Standing, StoredStays
<1> QED BY <1>1, DocumentsInvariant, PTL

-----------------------------------------------------------------------------
(* A synchronisation, once it is answered.                                   *)

LEMMA TargetsDiffer ==
    ASSUME DocInv, NEW u, NEW k \in Nat \ {0}, NEW l \in Nat \ {0}, Target(u, k) = Target(u, l)
    PROVE  k = l
<1> DEFINE had == Len(SharedOf(docs, u))
           S == SharedIds(docs, u)
<1>1. /\ S \in SUBSET DOMAIN docs /\ had \in Nat
      /\ k <= had => Target(u, k) \in S /\ Place(docs, S, Target(u, k)) = k
      /\ ~(k <= had) => Target(u, k) = born + (k - had)
      /\ l <= had => Target(u, l) \in S /\ Place(docs, S, Target(u, l)) = l
      /\ ~(l <= had) => Target(u, l) = born + (l - had)
  BY TargetFacts
<1>2. born \in Nat /\ \A i \in DOMAIN docs : i \in Nat /\ i <= born
  BY DEF DocInv, Types, Rows
<1> HIDE DEF had, S
<1> QED BY <1>1, <1>2

\* The data d and files f that N slots left, with the targets T.
After(u, N, d, f, T) ==
    /\ T = {Target(u, k) : k \in 1 .. N}
    /\ Wrote(u, N, d, f, T)

\* The row that the k-th slot left.
SlotLeft(u, k, r) ==
    /\ r \in Row /\ r.org = u /\ r.text = MergedText(u, k) /\ IsShared(r)
    /\ k <= Len(SharedOf(docs, u)) => r.up = docs[Target(u, k)].up
    /\ ~(k <= Len(SharedOf(docs, u))) => r.up = clock + k

LEMMA EachSlotLeft ==
    ASSUME DocInv, NEW u \in Unit, NEW N \in Nat, NEW d, NEW f, NEW T, After(u, N, d, f, T),
           NEW k \in 1 .. N
    PROVE  SlotLeft(u, k, d[Target(u, k)])
<1> DEFINE i == Target(u, k)
           had == Len(SharedOf(docs, u))
           x == MergedText(u, k)
           t == clock + k
<1>1. /\ d[i] = IF i \in DOMAIN docs THEN SlotRow(docs[i], x, t) ELSE NewRow(u, Shared(k), x, t, t)
  <2>1. i \in T
    BY DEF After
  <2>2. PICK l \in 1 .. N :
           /\ i = Target(u, l)
           /\ d[i] = IF i \in DOMAIN docs THEN SlotRow(docs[i], MergedText(u, l), clock + l)
                     ELSE NewRow(u, Shared(l), MergedText(u, l), clock + l, clock + l)
    BY <2>1 DEF After, Wrote
  <2>3. k \in Nat \ {0} /\ l \in Nat \ {0}
    OBVIOUS
  <2>4. k = l
    BY <2>2, <2>3, TargetsDiffer
  <2> QED BY <2>2, <2>4
<1>2. k \in Nat \ {0} /\ x \in SUBSET Nat
  <2>1. k \in Nat \ {0}
    OBVIOUS
  <2> QED BY <2>1, MergedTextFacts
<1>3. /\ had \in Nat
      /\ k <= had => i \in SharedIds(docs, u)
      /\ ~(k <= had) => i = born + (k - had)
  BY <1>2, TargetFacts
<1>4. /\ t \in Nat /\ born \in Nat
      /\ \A j \in DOMAIN docs : docs[j] \in Row /\ j <= born /\ j \in Nat
  BY DEF DocInv, Types, Rows
<1> HIDE DEF i, had, x, t
<1>5. CASE k <= had
  <2> DEFINE p == docs[i]
             r == SlotRow(p, x, t)
  <2>1. i \in DOMAIN docs /\ p.org = u /\ IsShared(p)
    BY <1>3, <1>5 DEF SharedIds, Of
  <2>2. p \in Row
    BY <1>4, <2>1
  <2>3. r \in Row /\ r.org = p.org
    BY <1>2, <1>4, <2>2, SlotRowFacts
  <2>4. r.up = p.up
    BY <1>2, <1>4, <2>2, SlotRowFacts
  <2>5. r.text = x
    BY <1>2, <1>4, <2>2, SlotRowFacts
  <2>6. r.name = p.name
    BY <1>2, <1>4, <2>2, SlotRowFacts
  <2>7. d[i] = r
    BY <1>1, <2>1
  <2> HIDE DEF r
  <2>8. IsShared(r)
    BY <2>1, <2>6 DEF IsShared
  <2> QED BY <1>5, <2>1, <2>3, <2>4, <2>5, <2>7, <2>8 DEF SlotLeft, i, had, x
<1>6. CASE ~(k <= had)
  <2> DEFINE m == Shared(k)
             r == NewRow(u, m, x, t, t)
  <2>1. i \notin DOMAIN docs
    BY <1>2, <1>3, <1>4, <1>6
  <2>2. m \in Name /\ m \notin OwnNames
    BY <1>2, Names
  <2>3. d[i] = r
    BY <1>1, <2>1
  <2> HIDE DEF m
  <2>4. r \in Row /\ r.org = u
    BY <1>2, <1>4, <2>2, NewRowFacts
  <2>5. r.up = t
    BY <1>2, <1>4, <2>2, NewRowFacts
  <2>6. r.text = x
    BY <1>2, <1>4, <2>2, NewRowFacts
  <2>7. r.name = m
    BY <1>2, <1>4, <2>2, NewRowFacts
  <2> HIDE DEF r
  <2>8. IsShared(r)
    BY <2>2, <2>7 DEF IsShared
  <2> QED BY <1>6, <2>3, <2>4, <2>5, <2>6, <2>8 DEF SlotLeft, i, had, x, t
<1> QED BY <1>5, <1>6

\* What the slots left elsewhere, and that their targets are shared documents of the unit.
Elsewhere(u, d, T) ==
    /\ \A i \in T : i \in DOMAIN d /\ d[i].org = u /\ IsShared(d[i])
    /\ \A i \in DOMAIN docs \ T : d[i] = docs[i]
    /\ \A i \in T \intersect DOMAIN docs : i \in SharedIds(docs, u)
    /\ DOMAIN d = DOMAIN docs \union T

LEMMA ElsewhereSame ==
    ASSUME DocInv, NEW u \in Unit, NEW N \in Nat, NEW d, NEW f, NEW T, After(u, N, d, f, T)
    PROVE  Elsewhere(u, d, T)
<1>1. DOMAIN d = DOMAIN docs \union T /\ \A i \in DOMAIN docs \ T : d[i] = docs[i]
  BY DEF After, Wrote
<1>2. ASSUME NEW i \in T
      PROVE  d[i].org = u /\ IsShared(d[i]) /\ (i \in DOMAIN docs => i \in SharedIds(docs, u))
  <2>1. PICK k \in 1 .. N : i = Target(u, k)
    BY DEF After
  <2>2. SlotLeft(u, k, d[i])
    BY <2>1, EachSlotLeft
  <2>3. k \in Nat \ {0}
    OBVIOUS
  <2>4. /\ Len(SharedOf(docs, u)) \in Nat
        /\ k <= Len(SharedOf(docs, u)) => i \in SharedIds(docs, u)
        /\ ~(k <= Len(SharedOf(docs, u))) => i = born + (k - Len(SharedOf(docs, u)))
    BY <2>1, <2>3, TargetFacts
  <2>5. born \in Nat /\ (i \in DOMAIN docs => i \in Nat /\ i <= born)
    BY DEF DocInv, Types, Rows
  <2> QED BY <2>2, <2>3, <2>4, <2>5 DEF SlotLeft
<1> QED BY <1>1, <1>2 DEF Elsewhere

\* Documents that the slots did not touch keep their order.
LEMMA OrderStays ==
    ASSUME NEW d, NEW e, NEW S, \A i \in S : d[i] = e[i]
    PROVE  InOrder(d, S) = InOrder(e, S)
<1>1. \A i, j \in S : Earlier(d, i, j) <=> Earlier(e, i, j)
  BY DEF Earlier
<1>2. \A i \in S : Place(d, S, i) = Place(e, S, i)
  <2> SUFFICES ASSUME NEW i \in S
               PROVE  {j \in S : Earlier(d, j, i)} = {j \in S : Earlier(e, j, i)}
    BY DEF Place
  <2> QED BY <1>1
<1>3. ASSUME NEW n
      PROVE  (CHOOSE i \in S : Place(d, S, i) = n) = (CHOOSE i \in S : Place(e, S, i) = n)
  <2>1. \A i : (i \in S /\ Place(d, S, i) = n) <=> (i \in S /\ Place(e, S, i) = n)
    BY <1>2
  <2> QED BY <2>1
<1> QED BY <1>3 DEF InOrder

LEMMA SharedAfter ==
    ASSUME DocInv, NEW u \in Unit, NEW N \in Nat, NEW d, NEW f, NEW T, After(u, N, d, f, T)
    PROVE  SharedIds(d, u) = SharedIds(docs, u) \union T
<1>1. Elsewhere(u, d, T)
  BY ElsewhereSame
<1> QED BY <1>1 DEF Elsewhere, SharedIds, Of

\* The upload times of the shared documents, N slots later: those that were there keep
\* theirs, the new ones follow.
Ups(u, N, d, T) ==
    LET had == Len(SharedOf(docs, u))
        S == SharedIds(docs, u)
    IN /\ \A j \in S : d[j].up = docs[j].up /\ j \in Nat /\ j <= born
                       /\ docs[j].up \in Nat /\ docs[j].up <= clock
       /\ \A j \in T \ S : \E l \in 1 .. N : l > had /\ j = born + (l - had) /\ d[j].up = clock + l
       /\ \A l \in 1 .. N : l > had => /\ born + (l - had) \in T \ S
                                       /\ d[born + (l - had)].up = clock + l

LEMMA UpsAfter ==
    ASSUME DocInv, NEW u \in Unit, NEW N \in Nat, NEW d, NEW f, NEW T, After(u, N, d, f, T)
    PROVE  Ups(u, N, d, T)
<1> DEFINE had == Len(SharedOf(docs, u))
           S == SharedIds(docs, u)
<1>1. /\ born \in Nat /\ clock \in Nat
      /\ \A j \in DOMAIN docs : j \in Nat /\ j <= born /\ docs[j].up \in Nat /\ docs[j].up <= clock
  BY DEF DocInv, Types, Rows, Row
<1>2. had \in Nat /\ S \in SUBSET DOMAIN docs
  <2>1. 1 \in Nat \ {0}
    OBVIOUS
  <2> QED BY <2>1, TargetFacts
<1>3. ASSUME NEW l \in 1 .. N
      PROVE  /\ Target(u, l) \in T
             /\ l <= had => Target(u, l) \in S /\ d[Target(u, l)].up = docs[Target(u, l)].up
             /\ ~(l <= had) => /\ Target(u, l) = born + (l - had)
                               /\ d[Target(u, l)].up = clock + l
  <2>1. l \in Nat \ {0} /\ Target(u, l) \in T
    BY DEF After
  <2>2. SlotLeft(u, l, d[Target(u, l)])
    BY EachSlotLeft
  <2>3. /\ l <= had => Target(u, l) \in S
        /\ ~(l <= had) => Target(u, l) = born + (l - had)
    BY <2>1, TargetFacts
  <2> QED BY <2>1, <2>2, <2>3 DEF SlotLeft
<1>4. \A j \in T : \E l \in 1 .. N : j = Target(u, l)
  BY DEF After
<1>5. \A j \in DOMAIN docs \ T : d[j] = docs[j]
  <2>1. Elsewhere(u, d, T)
    BY ElsewhereSame
  <2> QED BY <2>1 DEF Elsewhere
<1> HIDE DEF had, S
<1>6. ASSUME NEW j \in S PROVE d[j].up = docs[j].up
  <2>1. CASE j \in T
    <3>1. PICK l \in 1 .. N : j = Target(u, l)
      BY <1>4, <2>1
    <3>2. j <= born /\ j \in Nat
      BY <1>1, <1>2
    <3>3. l <= had
      BY <1>1, <1>2, <1>3, <3>1, <3>2
    <3> QED BY <1>3, <3>1, <3>3
  <2>2. CASE j \notin T
    BY <1>2, <1>5, <2>2
  <2> QED BY <2>1, <2>2
<1>7. ASSUME NEW j \in T \ S
      PROVE  \E l \in 1 .. N : l > had /\ j = born + (l - had) /\ d[j].up = clock + l
  <2>1. PICK l \in 1 .. N : j = Target(u, l)
    BY <1>4
  <2>2. ~(l <= had)
    BY <1>3, <2>1
  <2> QED BY <1>2, <1>3, <2>1, <2>2
<1>8. ASSUME NEW l \in 1 .. N, l > had
      PROVE  born + (l - had) \in T \ S /\ d[born + (l - had)].up = clock + l
  <2>1. ~(l <= had)
    BY <1>2, <1>8
  <2>2. born + (l - had) \notin DOMAIN docs
    <3>1. born + (l - had) > born
      BY <1>1, <1>2, <1>8
    <3> QED BY <1>1, <3>1
  <2> QED BY <1>2, <1>3, <2>1, <2>2
<1>9. \A j \in S : j \in Nat /\ j <= born /\ docs[j].up \in Nat /\ docs[j].up <= clock
  BY <1>1, <1>2
<1> QED BY <1>6, <1>7, <1>8, <1>9 DEF Ups, had, S

\* The k-th slot wrote the k-th shared document of the unit.
LEMMA PlaceAfter ==
    ASSUME DocInv, NEW u \in Unit, NEW N \in Nat, NEW d, NEW f, NEW T, After(u, N, d, f, T),
           NEW k \in 1 .. N
    PROVE  Place(d, SharedIds(d, u), Target(u, k)) = k
<1> DEFINE had == Len(SharedOf(docs, u))
           S == SharedIds(docs, u)
           t == Target(u, k)
           before == {j \in S \union T : Earlier(d, j, t)}
<1>1. /\ k \in Nat \ {0} /\ S \in SUBSET DOMAIN docs /\ IsFiniteSet(S) /\ had \in Nat
      /\ had = Cardinality(S)
      /\ k <= had => t \in S /\ Place(docs, S, t) = k
      /\ ~(k <= had) => t = born + (k - had)
  <2>1. k \in Nat \ {0}
    OBVIOUS
  <2> QED BY <2>1, TargetFacts
<1>2. born \in Nat /\ clock \in Nat
  BY DEF DocInv, Types
<1>3. /\ \A j \in S : d[j].up = docs[j].up /\ j \in Nat /\ j <= born
                      /\ docs[j].up \in Nat /\ docs[j].up <= clock
      /\ \A j \in T \ S : \E l \in 1 .. N : l > had /\ j = born + (l - had) /\ d[j].up = clock + l
      /\ \A l \in 1 .. N : l > had => /\ born + (l - had) \in T \ S
                                      /\ d[born + (l - had)].up = clock + l
  <2>1. Ups(u, N, d, T)
    BY UpsAfter
  <2> QED BY <2>1 DEF Ups
<1>4. Place(d, SharedIds(d, u), t) = Cardinality(before) + 1
  BY SharedAfter DEF Place
<1> HIDE DEF had, S, t
<1>5. CASE k <= had
  <2>1. before = {j \in S : Earlier(docs, j, t)}
    <3>1. ASSUME NEW j \in S PROVE Earlier(d, j, t) <=> Earlier(docs, j, t)
      BY <1>1, <1>3, <1>5 DEF Earlier
    <3>2. ASSUME NEW j \in T \ S PROVE ~Earlier(d, j, t)
      <4>1. PICK l \in 1 .. N : l > had /\ j = born + (l - had) /\ d[j].up = clock + l
        BY <1>3
      <4>2. d[t].up <= clock /\ d[t].up \in Nat
        BY <1>1, <1>3, <1>5
      <4>3. l > 0 /\ l \in Nat
        OBVIOUS
      <4> QED BY <1>2, <4>1, <4>2, <4>3 DEF Earlier
    <3> QED BY <3>1, <3>2
  <2> QED BY <1>1, <1>4, <1>5, <2>1 DEF Place, t
<1>6. CASE ~(k <= had)
  <2> DEFINE a == born + 1
             b == born + (k - had) - 1
             I == a .. b
  <2>1. t = born + (k - had) /\ d[t].up = clock + k /\ k > had
    BY <1>1, <1>3, <1>6
  <2>2. before = S \union I
    <3>1. ASSUME NEW j \in S PROVE Earlier(d, j, t)
      BY <1>1, <1>2, <1>3, <2>1 DEF Earlier
    <3>2. ASSUME NEW j \in T \ S, Earlier(d, j, t) PROVE j \in I
      <4>1. PICK l \in 1 .. N : l > had /\ j = born + (l - had) /\ d[j].up = clock + l
        BY <1>3
      <4>2. l \in Nat /\ k \in Nat
        BY <1>1
      <4>3. l < k
        <5>1. l <= k
          BY <1>2, <2>1, <3>2, <4>1, <4>2 DEF Earlier
        <5>2. l # k
          <6> SUFFICES ASSUME l = k PROVE FALSE
            OBVIOUS
          <6>1. j = t /\ j \in Nat /\ d[j].up \in Nat
            BY <1>1, <1>2, <2>1, <4>1, <4>2
          <6> QED BY <3>2, <6>1 DEF Earlier
        <5> QED BY <4>2, <5>1, <5>2
      <4> QED BY <1>1, <1>2, <4>1, <4>2, <4>3
    <3>3. ASSUME NEW j \in I PROVE j \in T /\ Earlier(d, j, t)
      <4> DEFINE l == j - born + had
      <4>1. l \in 1 .. N /\ l > had /\ j = born + (l - had) /\ l < k
        BY <1>1, <1>2, <2>1
      <4> HIDE DEF l
      <4>2. j \in T \ S /\ d[j].up = clock + l
        BY <1>3, <4>1
      <4>3. l \in Nat /\ k \in Nat
        BY <1>1, <4>1
      <4> QED BY <1>2, <2>1, <4>1, <4>2, <4>3 DEF Earlier
    <3> HIDE DEF I
    <3> QED BY <3>1, <3>2, <3>3
  <2>3. IsFiniteSet(I) /\ Cardinality(I) = k - had - 1
    <3>1. a \in Int /\ b \in Int /\ b - a + 1 = k - had - 1 /\ (a > b => k - had - 1 = 0)
      BY <1>1, <1>2, <2>1
    <3> HIDE DEF a, b
    <3> QED BY <3>1, FS_Interval
  <2>4. S \intersect I = {}
    BY <1>2, <1>3
  <2> HIDE DEF I
  <2>5. Cardinality(before) = had + (k - had - 1)
    <3>1. Cardinality(S \union I) = Cardinality(S) + Cardinality(I) - Cardinality(S \intersect I)
      BY <1>1, <2>3, FS_Union
    <3>2. Cardinality(S \intersect I) = 0
      BY <2>4, FS_EmptySet
    <3> DEFINE x == Cardinality(S)
               y == Cardinality(I)
               z == Cardinality(S \intersect I)
    <3>3. x = had /\ y = k - had - 1 /\ z = 0 /\ Cardinality(before) = x + y - z
      BY <1>1, <2>2, <2>3, <3>1, <3>2
    <3> HIDE DEF x, y, z, before
    <3> QED BY <1>1, <3>3
  <2> HIDE DEF before
  <2> QED BY <1>1, <1>4, <2>5 DEF t
<1> QED BY <1>5, <1>6

\* The children of the unit are as before, and so is what their documents merge to.
LEMMA ChildrenAfter ==
    ASSUME DocInv, NEW u \in Unit, NEW N \in Nat, NEW f, NEW T, After(u, N, docs', f, T),
           UNCHANGED units
    PROVE  /\ ChildDocuments(u)' = ChildDocuments(u)
           /\ \A n \in Nat \ {0} : MergedText(u, n)' = MergedText(u, n)
<1> DEFINE below == ChildDocuments(u)
           d == docs'
<1>1. Elsewhere(u, d, T)
  BY ElsewhereSame
<1>2. ASSUME NEW v \in Children(units, u)
      PROVE  /\ Of(d, v) = Of(docs, v) /\ Of(docs, v) \subseteq DOMAIN docs \ T
             /\ InOrder(d, Of(d, v)) = InOrder(docs, Of(docs, v))
  <2>1. v # u
    <3>1. v \in Unit /\ Parent[v] = u
      BY DEF Children, DocInv, Types
    <3>2. Parent[v] < v /\ v \in Nat
      BY <3>1, TreeAssumption
    <3> QED BY <3>1, <3>2
  <2>2. Of(d, v) = Of(docs, v) /\ Of(docs, v) \subseteq DOMAIN docs \ T
    BY <1>1, <2>1 DEF Elsewhere, SharedIds, Of
  <2> DEFINE S == Of(docs, v)
  <2>3. \A i \in S : d[i] = docs[i]
    BY <1>1, <2>2 DEF Elsewhere
  <2> HIDE DEF S, d
  <2>4. InOrder(d, S) = InOrder(docs, S)
    BY <2>3, OrderStays
  <2> QED BY <2>2, <2>4 DEF S
<1>3. ChildDocuments(u)' = below
  <2>1. ChildDocuments(u)' = [v \in Children(units, u) |-> InOrder(d, Of(d, v))]
    BY DEF ChildDocuments, Children
  <2>2. below = [v \in Children(units, u) |-> InOrder(docs, Of(docs, v))]
    BY DEF ChildDocuments
  <2> HIDE DEF below, d
  <2> QED BY <1>2, <2>1, <2>2
<1>4. ASSUME NEW n \in Nat \ {0} PROVE MergedText(u, n)' = MergedText(u, n)
  <2> DEFINE D == {x \in DOMAIN below : n <= Len(below[x])}
  <2>1. ASSUME NEW v \in D PROVE d[below[v][n]] = docs[below[v][n]]
    <3> DEFINE S == Of(docs, v)
    <3>1. v \in Children(units, u) /\ below[v] = InOrder(docs, S) /\ n <= Len(below[v])
      BY DEF ChildDocuments
    <3>2. S \in SUBSET DOMAIN docs /\ S \subseteq DOMAIN docs \ T
      BY <1>2, <3>1
    <3> HIDE DEF S, below
    <3>3. InOrder(docs, S)[n] \in S
      BY <3>1, <3>2, OrderOf
    <3> QED BY <1>1, <3>1, <3>2, <3>3 DEF Elsewhere
  <2>2. MergedText(u, n) = UNION {docs[below[v][n]].text : v \in D}
    BY DEF MergedText
  <2>3. MergedText(u, n)' = UNION {d[below[v][n]].text : v \in D}
    BY <1>3 DEF MergedText
  <2> HIDE DEF below, d, D
  <2>4. {docs[below[v][n]].text : v \in D} = {d[below[v][n]].text : v \in D}
    BY <2>1
  <2> QED BY <2>2, <2>3, <2>4
<1> QED BY <1>3, <1>4

LEMMA CurrentAfter ==
    ASSUME DocInv, NEW u \in Unit, NEW T,
           After(u, Longest(ChildDocuments(u)), docs', files', T), UNCHANGED units,
           NEW n \in 1 .. Longest(ChildDocuments(u))'
    PROVE  /\ n <= Len(SharedOf(docs', u))
           /\ docs'[SharedOf(docs', u)[n]].text = MergedText(u, n)'
           /\ Opens(docs', files', SharedOf(docs', u)[n])
<1> DEFINE N == Longest(ChildDocuments(u))
           d == docs'
           f == files'
           S == SharedIds(d, u)
           i == Target(u, n)
<1>1. N \in Nat
  BY SlotsFinite
<1>2. After(u, N, d, f, T)
  OBVIOUS
<1>3. n \in 1 .. N
  <2>1. ChildDocuments(u)' = ChildDocuments(u)
    BY <1>1, ChildrenAfter
  <2> QED BY <2>1 DEF Longest
<1>4. MergedText(u, n)' = MergedText(u, n)
  <2>1. n \in Nat \ {0}
    BY <1>1, <1>3
  <2> QED BY <1>1, <2>1, ChildrenAfter
<1> HIDE DEF N, d, f
<1>5. Place(d, S, i) = n /\ SlotLeft(u, n, d[i])
  BY <1>1, <1>2, <1>3, PlaceAfter, EachSlotLeft
<1>6. i \in T /\ Opens(d, f, i)
  BY <1>2, <1>3 DEF After, Wrote, Opens
<1>7. i \in S
  BY <1>1, <1>2, <1>6, SharedAfter
<1>8. SharedOf(d, u) = InOrder(d, S)
  BY DEF SharedOf, SharedIds
<1>9. S \in SUBSET Nat /\ IsFiniteSet(S) /\ \A j \in S : d[j].up \in Nat
  <2>1. SharedIds(docs, u) \in SUBSET DOMAIN docs /\ IsFiniteSet(SharedIds(docs, u))
    <3>1. 1 \in Nat \ {0}
      OBVIOUS
    <3> QED BY <3>1, TargetFacts
  <2>2. S = SharedIds(docs, u) \union T
    BY <1>1, <1>2, SharedAfter
  <2>3. born \in Nat /\ clock \in Nat /\ DOMAIN docs \in SUBSET Nat
    BY DocsFinite DEF DocInv, Types
  <2>4. Ups(u, N, d, T)
    BY <1>1, <1>2, UpsAfter
  <2> DEFINE had == Len(SharedOf(docs, u))
  <2>5. had \in Nat
    <3>1. 1 \in Nat \ {0}
      OBVIOUS
    <3> QED BY <3>1, TargetFacts
  <2>6. ASSUME NEW j \in T \ SharedIds(docs, u)
        PROVE  j \in Nat /\ d[j].up \in Nat /\ j <= born + N
    <3>1. PICK l \in 1 .. N : l > had /\ j = born + (l - had) /\ d[j].up = clock + l
      BY <2>4 DEF Ups
    <3> HIDE DEF had
    <3> QED BY <1>1, <2>3, <2>5, <3>1
  <2>7. \A j \in SharedIds(docs, u) : j \in Nat /\ d[j].up \in Nat /\ j <= born + N
    <3>1. \A j \in SharedIds(docs, u) : j \in Nat /\ j <= born /\ d[j].up = docs[j].up /\ docs[j].up \in Nat
      BY <2>4 DEF Ups
    <3> QED BY <1>1, <2>3, <3>1
  <2> HIDE DEF had, S
  <2>8. \A j \in S : j \in Nat /\ d[j].up \in Nat /\ j <= born + N
    BY <2>2, <2>6, <2>7
  <2>9. S \in SUBSET (0 .. born + N)
    BY <1>1, <2>3, <2>8
  <2>10. IsFiniteSet(0 .. born + N)
    <3> DEFINE b == born + N
    <3>1. 0 \in Int /\ b \in Int
      BY <1>1, <2>3
    <3> HIDE DEF b
    <3>2. IsFiniteSet(0 .. b)
      BY <3>1, FS_Interval
    <3> QED BY <3>2 DEF b
  <2> QED BY <2>8, <2>9, <2>10, FS_Subset
<1> HIDE DEF S, i
<1>10. n <= Len(SharedOf(d, u)) /\ SharedOf(d, u)[n] = i
  <2>1. /\ Len(InOrder(d, S)) = Cardinality(S) /\ Cardinality(S) \in Nat
        /\ \A j \in S : Place(d, S, j) \in 1 .. Cardinality(S) /\ InOrder(d, S)[Place(d, S, j)] = j
    BY <1>9, OrderFacts
  <2> QED BY <1>5, <1>7, <1>8, <2>1
<1>11. d[i].text = MergedText(u, n)
  BY <1>5 DEF SlotLeft
<1> QED BY <1>4, <1>6, <1>10, <1>11 DEF d, f

\* What a handler says is what its answer says, or nothing.
LEMMA EndSays ==
    ASSUME NEW o, Complete(o) \/ \E i : WriteFails(o, i)
    PROVE  (Answered(o) /\ said' = o.said) \/ said' = Nothing
BY DEF Complete, Answered, PersistFails, WriteFails, Refused, Killed, Start

Stores == \E s : Upload(s) \/ EditRow(s) \/ EditComputed(s)

\* Only an upload, an edit or a synchronisation says anything.
LEMMA OthersSayNothing ==
    ASSUME Next
    PROVE  said' = Nothing \/ Stores \/ \E user \in Users, u \in Unit : SyncShared(user, u)
<1>1. Same.said = Nothing
  BY DEF Same
<1>2. ASSUME NEW s, NEW user, NEW u, EnterUpload(s, user, u) PROVE said' = Nothing
  BY <1>2 DEF EnterUpload
<1>3. ASSUME NEW s, NEW user, NEW u, NEW i, NEW n, EnterEdit(s, user, u, i, n) PROVE said' = Nothing
  BY <1>3 DEF EnterEdit
<1>4. ASSUME NEW s, EditGone(s) PROVE said' = Nothing
  BY <1>4 DEF EditGone
<1>5. ASSUME NEW user, NEW u, CreateUnit(user, u) PROVE said' = Nothing
  <2> DEFINE q == [Same EXCEPT !.units = @ \union {u}]
  <2>1. Complete(q) /\ q.said = Nothing
    BY <1>5 DEF CreateUnit, Same
  <2> HIDE DEF q
  <2> QED BY EndSays, <2>1
<1>6. ASSUME NEW user, NEW u, DeleteUnit(user, u) PROVE said' = Nothing
  <2> DEFINE gone == Branch(units, u)
             lost == {i \in DOMAIN docs : docs[i].org \in gone}
             q == [Same EXCEPT !.units = @ \ gone, !.docs = Without(@, lost),
                       !.files = Without(@, lost), !.touched = lost, !.lost = lost]
  <2>1. Complete(q)
    BY <1>6 DEF DeleteUnit
  <2> HIDE DEF gone, lost
  <2>2. q.said = Nothing
    BY DEF Same
  <2> HIDE DEF q
  <2> QED BY EndSays, <2>1, <2>2
<1>7. ASSUME NEW user, NEW u, Menu(user, u) PROVE said' = Nothing
  <2>1. ASSUME NEW i, Delete(user, u, i) PROVE said' = Nothing
    <3> DEFINE q == [Same EXCEPT !.docs = Without(@, {i}), !.files = Without(@, {i}),
                        !.touched = {i}, !.lost = {i}]
    <3>1. Complete(q) /\ q.said = Nothing
      BY <2>1 DEF Delete, Same
    <3> HIDE DEF q
    <3> QED BY EndSays, <3>1
  <2>2. ASSUME NEW i, MenuSave(user, u, i) PROVE said' = Nothing
    <3> DEFINE q == Same
    <3>1. Complete(q) /\ q.said = Nothing
      BY <1>1, <2>2 DEF MenuSave
    <3> HIDE DEF q
    <3> QED BY EndSays, <3>1
  <2>3. ASSUME NEW i, NEW name, Rename(user, u, i, name) PROVE said' = Nothing
    <3> DEFINE q == [Same EXCEPT !.clock = Now, !.docs[i].name = name, !.docs[i].upd = Now,
                        !.lost = IF name = Legacy THEN {i} ELSE {}]
    <3>1. Complete(q)
      BY <2>3 DEF Rename
    <3>2. q.said = Nothing
      BY DEF Same
    <3> HIDE DEF q
    <3> QED BY EndSays, <3>1, <3>2
  <2>4. ASSUME NEW i, NEW text, PushUp(user, u, i, text) PROVE said' = Nothing
    <3> DEFINE twins == Namesakes(i)
               j == IF twins = {} THEN born + 1 ELSE CHOOSE k \in twins : \A l \in twins : k <= l
               r == IF twins = {} THEN NewRow(Parent[u], docs[i].name, text, docs[i].key, Now)
                    ELSE Pushed(i, j, text)
               q == [Stored(Same, j, r) EXCEPT
                        !.files[j] = files[i],
                        !.broken = IF i \in broken THEN @ \union {j} ELSE @,
                        !.gained = {j}]
    <3>1. Complete(q) \/ Complete(Same) \/ WriteFails(Same, j)
      BY <2>4, FailsComplete DEF PushUp
    <3> HIDE DEF j, r
    <3>2. q.said = Nothing
      BY DEF Same, Stored
    <3> HIDE DEF q
    <3> QED BY EndSays, <1>1, <3>1, <3>2
  <2>5. ASSUME NEW n, Move(user, u, n) PROVE said' = Nothing
    <3> DEFINE q == [Same EXCEPT !.clock = Now, !.docs = Swap(u, n)]
    <3>1. Complete(q)
      BY <2>5 DEF Move
    <3>2. q.said = Nothing
      BY DEF Same
    <3> HIDE DEF q
    <3> QED BY EndSays, <3>1, <3>2
  <2> QED BY <1>7, <2>1, <2>2, <2>3, <2>4, <2>5 DEF Menu
<1>8. Restart => said' = Nothing
  BY DEF Restart, Killed, Start
<1> QED BY <1>2, <1>3, <1>4, <1>5, <1>6, <1>7, <1>8 DEF Next, Stores

\* A synchronisation that stops at its n-th slot, by an error or a kill.
FailsInSync(u, n) ==
    \/ WriteFails(Synced(u, n - 1), Target(u, n))
    \/ PersistFails(Synced(u, n - 1))
    \/ Killed(Synced(u, n))

LEMMA SyncFailsSilently == ASSUME NEW u, NEW n, FailsInSync(u, n) PROVE said' = Nothing
BY DEF FailsInSync, WriteFails, PersistFails, Refused, Killed, Start

\* Only an answered synchronisation says so.
LEMMA OnlySyncSays ==
    ASSUME Next, said'.what = "synced"
    PROVE  \E u \in Unit :
              LET all == Synced(u, Longest(ChildDocuments(u)))
              IN Answered([all EXCEPT !.gained = all.touched, !.said = Said("synced", u, 0)])
<1>1. /\ Nothing.what # "synced"
      /\ \A u, i : Said("stored", u, i).what # "synced"
  BY DEF Nothing, Said
<1>2. ASSUME NEW s, EditRow(s) PROVE FALSE
  <2> DEFINE p == pend[s]
             q == [Same EXCEPT !.pend[s] = Free, !.clock = Now,
                       !.docs[p.doc].text = {Now}, !.docs[p.doc].upd = Now,
                       !.said = Said("stored", p.unit, p.doc)]
  <2>1. Complete(q)
    BY <1>2 DEF EditRow
  <2>2. q.said = Said("stored", p.unit, p.doc)
    BY DEF Same
  <2> HIDE DEF q
  <2> QED BY EndSays, <1>1, <2>1, <2>2
<1>3. ASSUME NEW s, EditComputed(s) PROVE FALSE
  <2> DEFINE p == pend[s]
             i == born + 1
             free == [Same EXCEPT !.pend[s] = Free]
             q == [Stored(free, i, NewRow(p.unit, p.name, {Now}, Now, Now)) EXCEPT
                      !.gained = {i}, !.said = Said("stored", p.unit, i)]
  <2>1. Complete(q) \/ Complete(free)
    BY <1>3, FailsComplete DEF EditComputed
  <2>2. q.said = Said("stored", p.unit, i) /\ free.said = Nothing
    BY DEF Same, Stored
  <2> HIDE DEF q, free
  <2> QED BY EndSays, <1>1, <2>1, <2>2
<1>4. ASSUME NEW s, Upload(s) PROVE FALSE
  <2> DEFINE p == pend[s]
             same == {i \in Of(docs, p.unit) : docs[i].name = p.name}
             i == IF same = {} THEN born + 1 ELSE CHOOSE j \in same : \A k \in same : j <= k
             free == [Same EXCEPT !.pend[s] = Free]
             q == [Stored(free, i, NewRow(p.unit, p.name, {Now}, Now, Now)) EXCEPT
                      !.gained = {i}, !.said = Said("stored", p.unit, i)]
  <2>1. Complete(q) \/ Complete(free) \/ WriteFails(free, i)
    BY <1>4, FailsComplete DEF Upload
  <2> HIDE DEF i
  <2>2. q.said = Said("stored", p.unit, i) /\ free.said = Nothing
    BY DEF Same, Stored
  <2> HIDE DEF q, free
  <2> QED BY EndSays, <1>1, <2>1, <2>2
<1>5. ASSUME NEW user, NEW u \in Unit, SyncShared(user, u)
       PROVE  LET all == Synced(u, Longest(ChildDocuments(u)))
              IN Answered([all EXCEPT !.gained = all.touched, !.said = Said("synced", u, 0)])
  <2> DEFINE slots == Longest(ChildDocuments(u))
             all == Synced(u, slots)
             q == [all EXCEPT !.gained = all.touched, !.said = Said("synced", u, 0)]
  <2>1. Complete(q) \/ \E n : FailsInSync(u, n)
    BY <1>5 DEF SyncShared, FailsInSync
  <2> HIDE DEF slots, all, q
  <2>2. ASSUME NEW n, FailsInSync(u, n) PROVE FALSE
    BY <1>1, <2>2, SyncFailsSilently
  <2>3. Answered(q)
    BY EndSays, <1>1, <2>1, <2>2
  <2> QED BY <2>3 DEF q, all, slots
<1>6. ~(said' = Nothing)
  BY <1>1
<1> QED BY <1>2, <1>3, <1>4, <1>5, <1>6, OthersSayNothing DEF Stores

\* A synchronisation that was answered left the n-th documents of the children merged in
\* the n-th shared document of the unit (web.rs:2122): for any number of children and of
\* shared documents, in whatever order the rows and the times are.
THEOREM SyncedAlwaysCurrent == Spec => []SyncedIsCurrent
<1>1. Init => SyncedIsCurrent
  BY DEF Init, SyncedIsCurrent, Nothing, Said
<1>2. ASSUME DocInv, Next PROVE SyncedIsCurrent'
  <2> SUFFICES ASSUME said'.what = "synced" PROVE SyncedIsCurrent'
    BY DEF SyncedIsCurrent
  <2>1. PICK u \in Unit :
           LET all == Synced(u, Longest(ChildDocuments(u)))
           IN Answered([all EXCEPT !.gained = all.touched, !.said = Said("synced", u, 0)])
    BY <1>2, OnlySyncSays
  <2> DEFINE N == Longest(ChildDocuments(u))
             all == Synced(u, N)
             q == [all EXCEPT !.gained = all.touched, !.said = Said("synced", u, 0)]
             T == {Target(u, k) : k \in 1 .. N}
  <2>2. N \in Nat
    BY <1>2, SlotsFinite
  <2> HIDE DEF N
  <2>3. /\ all.units = units /\ Wrote(u, N, all.docs, all.files, T)
    <3>1. SyncedAs(u, N, all, T)
      BY <2>2, SyncedFacts
    <3> HIDE DEF all, T
    <3> QED BY <3>1 DEF SyncedAs
  <2>4. Answered(q)
    BY <2>1 DEF N
  <2>5. "said" \in DOMAIN all
    BY DEF Synced, Same
  <2> HIDE DEF all
  <2>6. q.units = all.units /\ q.docs = all.docs /\ q.files = all.files /\ q.said = Said("synced", u, 0)
    BY <2>5
  <2> HIDE DEF q
  <2>7. units' = units /\ docs' = all.docs /\ files' = all.files /\ said' = Said("synced", u, 0)
    BY <2>3, <2>4, <2>6 DEF Answered, InMemory
  <2>8. said'.unit = u
    BY <2>7 DEF Said
  <2>9. After(u, Longest(ChildDocuments(u)), docs', files', T)
    BY <2>3, <2>7 DEF After, N
  <2> HIDE DEF T
  <2>10. \A n \in 1 .. Longest(ChildDocuments(u))' :
            /\ n <= Len(SharedOf(docs', u))
            /\ docs'[SharedOf(docs', u)[n]].text = MergedText(u, n)'
            /\ Opens(docs', files', SharedOf(docs', u)[n])
    BY <1>2, <2>7, <2>9, CurrentAfter
  <2> QED BY <2>8, <2>10 DEF SyncedIsCurrent
<1>3. ASSUME SyncedIsCurrent, UNCHANGED vars PROVE SyncedIsCurrent'
  <2>1. units' = units /\ docs' = docs /\ files' = files /\ said' = said
    BY <1>3 DEF vars
  <2> DEFINE u == said.unit
             Current(n) == /\ n <= Len(SharedOf(docs, u))
                           /\ docs[SharedOf(docs, u)[n]].text = MergedText(u, n)
                           /\ Opens(docs, files, SharedOf(docs, u)[n])
  <2>2. ChildDocuments(u)' = ChildDocuments(u)
    BY <2>1 DEF ChildDocuments, Children
  <2>3. \A n : MergedText(u, n)' = MergedText(u, n)
    BY <2>1, <2>2 DEF MergedText
  <2>4. \A n : Current(n)' <=> Current(n)
    BY <2>1, <2>3
  <2>5. SyncedIsCurrent <=>
           (said.what = "synced" => \A n \in 1 .. Longest(ChildDocuments(u)) : Current(n))
    BY DEF SyncedIsCurrent
  <2>6. SyncedIsCurrent' <=>
           (said'.what = "synced" => \A n \in 1 .. Longest(ChildDocuments(u)') : Current(n)')
    BY DEF SyncedIsCurrent
  <2> HIDE DEF Current, u
  <2> QED BY <1>3, <2>1, <2>2, <2>4, <2>5, <2>6
<1> QED BY <1>1, <1>2, <1>3, DocumentsInvariant, PTL DEF Spec

-----------------------------------------------------------------------------
(* The tables that the units show.                                           *)

LeafTexts(d, u) ==
    LET leaf == LeafDocuments(d, u) IN [n \in 1 .. Len(leaf) |-> d[leaf[n]].text]

Beneath(us, f, u) == [v \in Children(us, u) |-> f[v]]

TableOf(us, d, f, u) ==
    IF Children(us, u) = {} THEN LeafTexts(d, u)
    ELSE [n \in 1 .. Longest(Beneath(us, f, u)) |-> Merged(Beneath(us, f, u), n)]

\* f is right on the n numbers up to b.
TablesFrom(us, d, f, b, n) == \A u \in Unit : u + n > b => f[u] = TableOf(us, d, f, u)

\* A unit has a greater number than the one above it, so that there are tables that satisfy
\* the equation of effective_shared_documents.
LEMMA TablesExist ==
    ASSUME NEW us \in SUBSET Unit, NEW d, NEW b \in Nat, \A u \in Unit : u <= b, NEW n \in Nat
    PROVE  \E f : DOMAIN f = Unit /\ TablesFrom(us, d, f, b, n)
<1> DEFINE Bad == {m \in Nat : ~\E f : DOMAIN f = Unit /\ TablesFrom(us, d, f, b, m)}
<1>1. SUFFICES ASSUME Bad # {} PROVE FALSE
  OBVIOUS
<1>2. PICK m \in Bad : \A k \in Bad : m <= k
  <2>1. Bad \in SUBSET Nat
    OBVIOUS
  <2> HIDE DEF Bad
  <2> QED BY <1>1, <2>1, Least
<1>3. m \in Nat /\ ~\E f : DOMAIN f = Unit /\ TablesFrom(us, d, f, b, m)
  OBVIOUS
<1>4. Unit \subseteq Nat /\ \A u \in Unit : Parent[u] < u
  BY TreeAssumption
<1>5. CASE m = 0
  <2> DEFINE f == [u \in Unit |-> {}]
  <2>1. DOMAIN f = Unit
    OBVIOUS
  <2> HIDE DEF f
  <2>2. TablesFrom(us, d, f, b, m)
    BY <1>4, <1>5 DEF TablesFrom
  <2> QED BY <1>3, <2>1, <2>2
<1>6. CASE m # 0
  <2>1. m - 1 \in Nat /\ m - 1 < m
    BY <1>3, <1>6
  <2>2. m - 1 \notin Bad
    BY <1>2, <1>3, <2>1
  <2>3. PICK f : DOMAIN f = Unit /\ TablesFrom(us, d, f, b, m - 1)
    BY <2>1, <2>2
  <2> HIDE DEF Bad
  <2> DEFINE g == [u \in Unit |-> IF u + (m - 1) = b THEN TableOf(us, d, f, u) ELSE f[u]]
  <2>4. \A u \in Unit : u + (m - 1) # b => g[u] = f[u]
    OBVIOUS
  <2>5. \A u \in Unit : u + (m - 1) = b => g[u] = TableOf(us, d, f, u)
    OBVIOUS
  <2>6. DOMAIN g = Unit
    OBVIOUS
  <2> HIDE DEF g
  <2>7. ASSUME NEW u \in Unit, u + m > b PROVE g[u] = TableOf(us, d, g, u)
    <3>1. ASSUME NEW v \in Children(us, u) PROVE g[v] = f[v]
      <4>1. v \in Unit /\ u < v
        BY <1>4 DEF Children
      <4>2. v + (m - 1) # b
        BY <1>3, <1>4, <2>7, <4>1
      <4> QED BY <2>4, <4>1, <4>2
    <3>2. Beneath(us, g, u) = Beneath(us, f, u)
      BY <3>1 DEF Beneath
    <3>3. TableOf(us, d, g, u) = TableOf(us, d, f, u)
      BY <3>2 DEF TableOf
    <3>4. CASE u + (m - 1) = b
      BY <2>5, <3>3, <3>4
    <3>5. CASE u + (m - 1) # b
      <4>1. u + (m - 1) > b
        BY <1>3, <1>4, <2>7, <3>5
      <4> QED BY <2>3, <2>4, <3>3, <3>5, <4>1 DEF TablesFrom
    <3> QED BY <3>4, <3>5
  <2>8. TablesFrom(us, d, g, b, m)
    BY <2>7 DEF TablesFrom
  <2> QED BY <1>3, <2>6, <2>8
<1> QED BY <1>5, <1>6

LEMMA TablesAre ==
    ASSUME NEW us \in SUBSET Unit, NEW d, NEW u \in Unit
    PROVE  Tables(us, d)[u] = TableOf(us, d, Tables(us, d), u)
<1> DEFINE Body(f) ==
              [v \in Unit |->
                  LET below == [w \in Children(us, v) |-> f[w]]
                      leaf == LeafDocuments(d, v)
                  IN IF DOMAIN below = {}
                     THEN [n \in 1 .. Len(leaf) |-> d[leaf[n]].text]
                     ELSE [n \in 1 .. Longest(below) |-> Merged(below, n)]]
           T == CHOOSE f : f = Body(f)
<1>1. Tables(us, d) = T
  BY DEF Tables
<1>2. \A f : Body(f) = [v \in Unit |-> TableOf(us, d, f, v)]
  <2> SUFFICES ASSUME NEW f PROVE Body(f) = [v \in Unit |-> TableOf(us, d, f, v)]
    OBVIOUS
  <2>1. \A v : DOMAIN Beneath(us, f, v) = Children(us, v)
    BY DEF Beneath
  <2>2. Body(f) = [v \in Unit |->
                      IF DOMAIN Beneath(us, f, v) = {} THEN LeafTexts(d, v)
                      ELSE [n \in 1 .. Longest(Beneath(us, f, v)) |-> Merged(Beneath(us, f, v), n)]]
    BY DEF Beneath, LeafTexts
  <2> HIDE DEF Body
  <2> QED BY <2>1, <2>2 DEF TableOf
<1> HIDE DEF Body
<1>3. \E f : f = Body(f)
  <2>1. Unit \subseteq Nat /\ IsFiniteSet(Unit)
    BY TreeAssumption
  <2>2. PICK b \in Nat : \A v \in Unit : v <= b
    BY <2>1, Bounded
  <2>3. PICK f : DOMAIN f = Unit /\ TablesFrom(us, d, f, b, b + 1)
    <3>1. b + 1 \in Nat
      OBVIOUS
    <3> QED BY <2>2, <3>1, TablesExist
  <2>4. \A v \in Unit : f[v] = TableOf(us, d, f, v)
    <3>1. \A v \in Unit : v + (b + 1) > b
      BY <2>1, <2>2
    <3> QED BY <2>3, <3>1 DEF TablesFrom
  <2> DEFINE g == [v \in Unit |-> f[v]]
  <2>5. \A v \in Unit : g[v] = f[v]
    OBVIOUS
  <2>6. \A v \in Unit : TableOf(us, d, f, v) = TableOf(us, d, g, v)
    <3> HIDE DEF g
    <3>1. \A v, w : w \in Children(us, v) => w \in Unit
      BY DEF Children
    <3>2. \A v : Beneath(us, f, v) = Beneath(us, g, v)
      BY <2>5, <3>1 DEF Beneath
    <3> SUFFICES ASSUME NEW v \in Unit PROVE TableOf(us, d, f, v) = TableOf(us, d, g, v)
      OBVIOUS
    <3>3. Beneath(us, f, v) = Beneath(us, g, v)
      BY <3>2
    <3> QED BY <3>3 DEF TableOf
  <2>7. g = [v \in Unit |-> TableOf(us, d, f, v)]
    BY <2>4
  <2>8. [v \in Unit |-> TableOf(us, d, f, v)] = [v \in Unit |-> TableOf(us, d, g, v)]
    BY <2>6
  <2> HIDE DEF g
  <2>9. g = Body(g)
    BY <1>2, <2>7, <2>8
  <2> QED BY <2>9
<1>4. T = Body(T)
  BY <1>3
<1> HIDE DEF T
<1>5. T = [v \in Unit |-> TableOf(us, d, T, v)]
  BY <1>2, <1>4
<1>6. T[u] = TableOf(us, d, T, u)
  BY <1>5
<1> QED BY <1>1, <1>6

\* A table is a sequence of texts.
Texts == Seq(SUBSET Nat)

LEMMA LongestFacts ==
    ASSUME NEW D, IsFiniteSet(D), NEW f, DOMAIN f = D, \A v \in D : f[v] \in Texts
    PROVE  Longest(f) \in Nat /\ \A v \in D : Len(f[v]) \in Nat /\ Len(f[v]) <= Longest(f)
<1> DEFINE g == [v \in D |-> Len(f[v])]
           S == {Len(f[v]) : v \in D}
<1>1. \A v \in D : Len(f[v]) \in Nat
  BY DEF Texts
<1>2. g \in Surjection(D, S)
  BY DEF Surjection
<1>3. S \in SUBSET Nat /\ \A v \in D : Len(f[v]) \in S
  BY <1>1
<1>4. Longest(f) = MaxOf(S)
  BY DEF Longest
<1> HIDE DEF g, S
<1>5. IsFiniteSet(S)
  BY <1>2, FS_Surjection
<1>6. PICK b \in Nat : \A k \in S : k <= b
  BY <1>3, <1>5, Bounded
<1>7. MaxOf(S) \in Nat /\ \A k \in S : k <= MaxOf(S)
  BY <1>3, <1>6, MaxFacts
<1> QED BY <1>1, <1>3, <1>4, <1>7

LEMMA MergedFacts ==
    ASSUME NEW f, \A v \in DOMAIN f : f[v] \in Texts, NEW n \in Nat \ {0}
    PROVE  Merged(f, n) \in SUBSET Nat
<1> SUFFICES ASSUME NEW v \in DOMAIN f, n <= Len(f[v]) PROVE f[v][n] \in SUBSET Nat
  BY DEF Merged
<1> DEFINE q == f[v]
<1>1. q \in Texts /\ n <= Len(q)
  OBVIOUS
<1> HIDE DEF q
<1>2. q[n] \in SUBSET Nat
  BY <1>1 DEF Texts
<1> QED BY <1>2 DEF q

\* The list of S that was changed last.
LEMMA LatestFacts ==
    ASSUME NEW d, NEW b \in Nat, NEW c \in Nat, Rows(d, b, c), NEW S \in SUBSET DOMAIN d, S # {}
    PROVE  Latest(d, S) \in S /\ \A j \in S : d[j].upd <= d[Latest(d, S)].upd
<1> DEFINE V == {c - d[j].upd : j \in S}
<1>1. \A j \in S : d[j].upd \in Nat /\ d[j].upd <= c
  BY DEF Rows, Row
<1>2. V \in SUBSET Nat /\ V # {}
  BY <1>1
<1>3. PICK x \in V : \A y \in V : x <= y
  <2> HIDE DEF V
  <2> QED BY <1>2, Least
<1>4. PICK i \in S : x = c - d[i].upd
  OBVIOUS
<1>5. ASSUME NEW j \in S PROVE d[j].upd <= d[i].upd
  <2>1. c - d[i].upd <= c - d[j].upd
    BY <1>3, <1>4
  <2> QED BY <1>1, <2>1
<1>6. \E k \in S : \A j \in S : d[j].upd <= d[k].upd
  BY <1>5
<1> QED BY <1>6 DEF Latest

LEMMA LeafFacts ==
    ASSUME NEW d, NEW b \in Nat, NEW c \in Nat, Rows(d, b, c), NEW u
    PROVE  LeafTexts(d, u) \in Texts
<1> DEFINE leaf == LeafDocuments(d, u)
           S == {i \in Of(d, u) : IsShared(d[i])}
           lists == LocalLists(d, u)
<1>1. lists \in SUBSET DOMAIN d /\ S \in SUBSET DOMAIN d
  BY DEF LocalLists, Of
<1>2. leaf = IF lists # {} THEN <<Latest(d, lists)>> ELSE InOrder(d, S)
  BY DEF LeafDocuments, SharedOf
<1>3. DOMAIN d \subseteq 1 .. b /\ \A i \in DOMAIN d : d[i].text \in SUBSET Nat /\ d[i].up \in Nat
  BY DEF Rows, Row
<1>4. LeafTexts(d, u) = [n \in 1 .. Len(leaf) |-> d[leaf[n]].text]
  BY DEF LeafTexts
<1>5. leaf \in Seq(DOMAIN d)
  <2> HIDE DEF leaf, lists, S
  <2>1. CASE lists # {}
    <3>1. Latest(d, lists) \in DOMAIN d
      BY <1>1, <2>1, LatestFacts
    <3> QED BY <1>2, <2>1, <3>1
  <2>2. CASE lists = {}
    <3>1. IsFiniteSet(1 .. b)
      <4>1. 1 \in Int /\ b \in Int
        OBVIOUS
      <4> QED BY <4>1, FS_Interval
    <3>2. S \in SUBSET Nat /\ S \in SUBSET (1 .. b)
      BY <1>1, <1>3
    <3>3. IsFiniteSet(S)
      BY <3>1, <3>2, FS_Subset
    <3>4. InOrder(d, S) \in Seq(S)
      BY <1>1, <1>3, <3>2, <3>3, OrderFacts
    <3>5. leaf \in Seq(S)
      BY <1>2, <2>2, <3>4
    <3> QED BY <1>1, <3>5
  <2> QED BY <2>1, <2>2
<1> HIDE DEF leaf
<1>6. Len(leaf) \in Nat /\ \A n \in 1 .. Len(leaf) : leaf[n] \in DOMAIN d
  BY <1>5
<1> QED BY <1>3, <1>4, <1>6 DEF Texts

\* A unit whose children have texts has texts: so has every unit, from the leaves upwards.
LEMMA TableFacts ==
    ASSUME NEW us \in SUBSET Unit, NEW d, NEW b \in Nat, NEW c \in Nat, Rows(d, b, c),
           NEW u \in Unit
    PROVE  Tables(us, d)[u] \in Texts
<1> DEFINE T == Tables(us, d)
<1>1. Unit \subseteq Nat /\ IsFiniteSet(Unit) /\ \A v \in Unit : Parent[v] < v
  BY TreeAssumption
<1>2. PICK top \in Nat : \A v \in Unit : v <= top
  BY <1>1, Bounded
<1> DEFINE Bad == {m \in Nat : \E v \in Unit : v + m = top /\ T[v] \notin Texts}
<1>3. SUFFICES ASSUME Bad # {} PROVE FALSE
  <2>1. top - u \in Nat /\ u + (top - u) = top
    BY <1>1, <1>2
  <2> HIDE DEF T
  <2>2. T[u] \in Texts
    BY <1>3, <2>1
  <2> QED BY <2>2 DEF T
<1>4. PICK m \in Bad : \A k \in Bad : m <= k
  <2>1. Bad \in SUBSET Nat
    OBVIOUS
  <2> HIDE DEF Bad
  <2> QED BY <1>3, <2>1, Least
<1>5. PICK v \in Unit : v + m = top /\ T[v] \notin Texts
  OBVIOUS
<1>6. T[v] = TableOf(us, d, T, v)
  BY TablesAre
<1> HIDE DEF T
<1>7. ASSUME NEW w \in Children(us, v) PROVE T[w] \in Texts
  <2>1. w \in Unit /\ v < w /\ w <= top
    BY <1>1, <1>2 DEF Children
  <2>2. top - w \in Nat /\ w + (top - w) = top /\ top - w < m
    BY <1>1, <1>2, <1>5, <2>1
  <2>3. top - w \notin Bad
    BY <1>1, <1>4, <2>2
  <2> QED BY <2>1, <2>2, <2>3
<1> HIDE DEF Bad
<1>8. CASE Children(us, v) = {}
  <2>1. T[v] = LeafTexts(d, v)
    BY <1>6, <1>8 DEF TableOf
  <2> QED BY <1>5, <2>1, LeafFacts
<1>9. CASE Children(us, v) # {}
  <2> DEFINE f == Beneath(us, T, v)
             N == Longest(f)
             D == Children(us, v)
  <2>1. DOMAIN f = D /\ \A w \in D : f[w] \in Texts
    BY <1>7 DEF Beneath
  <2>2. IsFiniteSet(D)
    <3>1. D \in SUBSET Unit
      BY DEF Children
    <3> QED BY <1>1, <3>1, FS_Subset
  <2>3. T[v] = [n \in 1 .. N |-> Merged(f, n)]
    BY <1>6, <1>9 DEF TableOf
  <2> HIDE DEF f, D
  <2>4. N \in Nat
    BY <2>1, <2>2, LongestFacts
  <2>5. \A n \in 1 .. N : Merged(f, n) \in SUBSET Nat
    <3>1. \A n \in 1 .. N : n \in Nat \ {0}
      BY <2>4
    <3> QED BY <2>1, <3>1, MergedFacts
  <2> HIDE DEF N
  <2>6. T[v] \in Texts
    BY <2>3, <2>4, <2>5 DEF Texts
  <2> QED BY <1>5, <2>6
<1> QED BY <1>8, <1>9

\* What the first table of a unit lists is in the first table of the unit above it.
LEMMA TextGoesUp ==
    ASSUME NEW us \in SUBSET Unit, NEW d, NEW b \in Nat, NEW c \in Nat, Rows(d, b, c),
           NEW v \in us, NEW text, Parent[v] # NoUnit,
           Tables(us, d)[v] # <<>>, text \subseteq Tables(us, d)[v][1]
    PROVE  /\ Tables(us, d)[Parent[v]] # <<>>
           /\ text \subseteq Tables(us, d)[Parent[v]][1]
<1> DEFINE T == Tables(us, d)
           p == Parent[v]
           f == Beneath(us, T, p)
           D == Children(us, p)
           N == Longest(f)
<1>1. p \in Unit /\ v \in D /\ D \in SUBSET Unit
  BY TreeAssumption DEF Children
<1>2. \A w \in Unit : T[w] \in Texts
  BY TableFacts
<1>3. T[p] = TableOf(us, d, T, p)
  BY <1>1, TablesAre
<1>4. T[v] # <<>> /\ text \subseteq T[v][1]
  OBVIOUS
<1> HIDE DEF T
<1>5. IsFiniteSet(D)
  BY <1>1, TreeAssumption, FS_Subset
<1>6. DOMAIN f = D /\ f[v] = T[v] /\ \A w \in D : f[w] \in Texts
  BY <1>1, <1>2 DEF Beneath
<1>7. T[p] = [n \in 1 .. N |-> Merged(f, n)]
  BY <1>1, <1>3 DEF TableOf
<1> HIDE DEF f, D
<1>8. N \in Nat /\ Len(f[v]) \in Nat /\ Len(f[v]) <= N
  BY <1>1, <1>5, <1>6, LongestFacts
<1> DEFINE q == f[v]
<1>9. 1 <= Len(q)
  <2>1. q \in Texts /\ q # <<>>
    BY <1>1, <1>4, <1>6
  <2> HIDE DEF q
  <2> QED BY <2>1 DEF Texts
<1>10. 1 \in 1 .. N
  BY <1>8, <1>9
<1>11. text \subseteq Merged(f, 1)
  <2>1. q[1] \subseteq Merged(f, 1)
    BY <1>1, <1>6, <1>9 DEF Merged
  <2> QED BY <1>4, <1>6, <2>1
<1> HIDE DEF N
<1>12. T[p] # <<>> /\ T[p][1] = Merged(f, 1)
  <2>1. DOMAIN T[p] = 1 .. N /\ T[p][1] = Merged(f, 1)
    BY <1>7, <1>10
  <2>2. DOMAIN <<>> = {}
    OBVIOUS
  <2> DEFINE t == T[p]
  <2>3. DOMAIN t = 1 .. N /\ 1 \in 1 .. N
    BY <1>10, <2>1
  <2> HIDE DEF t
  <2>4. t # <<>>
    BY <2>2, <2>3
  <2> QED BY <2>1, <2>4 DEF t
<1> QED BY <1>11, <1>12 DEF T, p

\* So it is in the first table of every unit above.
LEMMA TextReachesTop ==
    ASSUME NEW us \in SUBSET Unit, NEW d, NEW b \in Nat, NEW c \in Nat, Rows(d, b, c),
           NEW u \in us, NEW text, Tables(us, d)[u] # <<>>, text \subseteq Tables(us, d)[u][1]
    PROVE  \A a \in Above(us)[u] : Tables(us, d)[a] # <<>> /\ text \subseteq Tables(us, d)[a][1]
<1> DEFINE T == Tables(us, d)
           Holds(w) == T[w] # <<>> /\ text \subseteq T[w][1]
           Bad == {w \in us : Holds(w) /\ \E a \in Above(us)[w] : ~Holds(a)}
<1>1. SUFFICES ASSUME Bad # {} PROVE FALSE
  OBVIOUS
<1>2. us \subseteq Nat /\ \A w \in us : w \in Unit /\ Parent[w] < w
  BY TreeAssumption
<1>3. PICK w \in Bad : \A k \in Bad : w <= k
  <2>1. Bad \in SUBSET Nat
    BY <1>2
  <2> HIDE DEF Bad
  <2> QED BY <1>1, <2>1, Least
<1>4. PICK a \in Above(us)[w] : ~Holds(a)
  OBVIOUS
<1>5. w \in us /\ Holds(w)
  OBVIOUS
<1>6. Above(us)[w] = AboveOf(us, Above(us), w)
  BY <1>2, <1>5, AboveIs
<1>7. /\ Parent[w] # NoUnit
      /\ a = Parent[w] \/ (Parent[w] \in us /\ a \in Above(us)[Parent[w]])
  BY <1>4, <1>6 DEF AboveOf
<1>9. Holds(Parent[w])
  BY <1>5, <1>7, TextGoesUp
<1>10. Parent[w] \in us => Parent[w] \notin Bad
  <2> SUFFICES ASSUME Parent[w] \in us PROVE Parent[w] \notin Bad
    OBVIOUS
  <2>1. Parent[w] \in Nat /\ w \in Nat /\ Parent[w] < w
    BY <1>2, <1>5
  <2> HIDE DEF Bad
  <2> QED BY <1>3, <2>1
<1> HIDE DEF Holds
<1> QED BY <1>4, <1>7, <1>9, <1>10

-----------------------------------------------------------------------------
(* A stored list is in the tables above.                                     *)

\* What the last step answered as stored has the last change of all rows.
LastStored ==
    said.what = "stored" =>
        /\ said.doc \in DOMAIN docs
        /\ \A j \in DOMAIN docs : j # said.doc => docs[j].upd < docs[said.doc].upd

\* i is the document that the step wrote, alone and at the present time.
OneWritten(d, i) ==
    /\ i \in DOMAIN d /\ d[i].upd = clock + 1
    /\ \A j \in DOMAIN d : j # i => j \in DOMAIN docs /\ d[j] = docs[j]

LEMMA WrittenLast ==
    ASSUME DocInv, NEW i, OneWritten(docs', i), said'.doc = i
    PROVE  LastStored'
<1>1. clock \in Nat /\ \A j \in DOMAIN docs : docs[j].upd \in Nat /\ docs[j].upd <= clock
  BY DEF DocInv, Types, Rows, Row
<1>2. ASSUME NEW j \in DOMAIN docs', j # i PROVE docs'[j].upd < docs'[i].upd
  <2>1. docs'[j].upd \in Nat /\ docs'[j].upd <= clock /\ docs'[i].upd = clock + 1
    BY <1>1, <1>2 DEF OneWritten
  <2> QED BY <1>1, <2>1
<1> QED BY <1>2 DEF LastStored, OneWritten

LEMMA StoredUpload ==
    ASSUME NEW s, Upload(s), said'.what = "stored"
    PROVE  OneWritten(docs', said'.doc)
<1> DEFINE p == pend[s]
           same == {i \in Of(docs, p.unit) : docs[i].name = p.name}
           j == IF same = {} THEN born + 1 ELSE CHOOSE i \in same : \A k \in same : i <= k
           free == [Same EXCEPT !.pend[s] = Free]
           r == NewRow(p.unit, p.name, {Now}, Now, Now)
           q == [Stored(free, j, r) EXCEPT !.gained = {j}, !.said = Said("stored", p.unit, j)]
<1>1. Complete(q) \/ PersistFails(free) \/ WriteFails(free, j)
  BY DEF Upload
<1>2. r.upd = clock + 1
  BY DEF NewRow, Now
<1> HIDE DEF j, r, p
<1>3. q.docs = Put(docs, j, r) /\ q.said = Said("stored", p.unit, j)
  BY DEF Same, Stored
<1> HIDE DEF q, free
<1>4. Answered(q)
  BY <1>1 DEF Complete, PersistFails, WriteFails, Refused, Killed, Start, Nothing, Said
<1>5. docs' = Put(docs, j, r) /\ said'.doc = j
  BY <1>3, <1>4 DEF Answered, InMemory, Said
<1> QED BY <1>2, <1>5 DEF OneWritten, Put

LEMMA StoredComputed ==
    ASSUME NEW s, EditComputed(s), said'.what = "stored"
    PROVE  OneWritten(docs', said'.doc)
<1> DEFINE p == pend[s]
           j == born + 1
           r == NewRow(p.unit, p.name, {Now}, Now, Now)
           free == [Same EXCEPT !.pend[s] = Free]
           q == [Stored(free, j, r) EXCEPT !.gained = {j}, !.said = Said("stored", p.unit, j)]
<1>1. Complete(q) \/ PersistFails(free)
  BY DEF EditComputed
<1>2. r.upd = clock + 1
  BY DEF NewRow, Now
<1> HIDE DEF j, r, p
<1>3. q.docs = Put(docs, j, r) /\ q.said = Said("stored", p.unit, j)
  BY DEF Same, Stored
<1> HIDE DEF q, free
<1>4. Answered(q)
  BY <1>1 DEF Complete, PersistFails, Refused, Killed, Start, Nothing, Said
<1>5. docs' = Put(docs, j, r) /\ said'.doc = j
  BY <1>3, <1>4 DEF Answered, InMemory, Said
<1> QED BY <1>2, <1>5 DEF OneWritten, Put

LEMMA StoredRow ==
    ASSUME DocInv, NEW s, EditRow(s), said'.what = "stored"
    PROVE  OneWritten(docs', said'.doc)
<1> DEFINE p == pend[s]
           i == p.doc
           q == [Same EXCEPT !.pend[s] = Free, !.clock = Now,
                     !.docs[i].text = {Now}, !.docs[i].upd = Now,
                     !.said = Said("stored", p.unit, i)]
           r == [docs[i] EXCEPT !.text = {Now}]
           n == [r EXCEPT !.upd = Now]
<1>1. i \in DOMAIN docs /\ Complete(q)
  BY DEF EditRow
<1>2. Now = clock + 1
  BY DEF Now
<1>3. docs[i] \in Row
  BY <1>1 DEF DocInv, Types, Rows
<1>4. n.upd = Now
  <2>1. "upd" \in DOMAIN r
    BY <1>3 DEF Row
  <2> HIDE DEF r
  <2> QED BY <2>1
<1>5. q.docs = [[docs EXCEPT ![i].text = {Now}] EXCEPT ![i].upd = Now]
      /\ q.said = Said("stored", p.unit, i)
  BY DEF Same
<1> HIDE DEF i, p, q
<1>6. [[docs EXCEPT ![i].text = {Now}] EXCEPT ![i].upd = Now] = [docs EXCEPT ![i] = n]
  <2>1. [docs EXCEPT ![i].text = {Now}] = [docs EXCEPT ![i] = r]
    OBVIOUS
  <2> HIDE DEF r
  <2> QED BY <1>1, <2>1
<1> HIDE DEF n
<1>7. Answered(q)
  BY <1>1 DEF Complete, PersistFails, Refused, Killed, Start, Nothing, Said
<1>8. docs' = [docs EXCEPT ![i] = n] /\ said'.doc = i
  BY <1>5, <1>6, <1>7 DEF Answered, InMemory, Said
<1> QED BY <1>1, <1>2, <1>4, <1>8 DEF OneWritten

LEMMA StoredKeeps ==
    ASSUME DocInv, Next, LastStored
    PROVE  LastStored'
<1> SUFFICES ASSUME said'.what = "stored" PROVE LastStored'
  BY DEF LastStored
<1>1. ASSUME NEW user, NEW u, SyncShared(user, u) PROVE FALSE
  <2> DEFINE slots == Longest(ChildDocuments(u))
             all == Synced(u, slots)
             q == [all EXCEPT !.gained = all.touched, !.said = Said("synced", u, 0)]
  <2>1. Complete(q) \/ \E n : FailsInSync(u, n)
    BY <1>1 DEF SyncShared, FailsInSync
  <2>2. q.said = Said("synced", u, 0)
    BY DEF Synced, Same
  <2> HIDE DEF slots, all, q
  <2>3. said' = Said("synced", u, 0) \/ said' = Nothing
    BY <2>1, <2>2, SyncFailsSilently, EndSays
  <2> QED BY <2>3 DEF Nothing, Said
<1>2. ~(said' = Nothing)
  BY DEF Nothing, Said
<1>3. PICK s : Upload(s) \/ EditRow(s) \/ EditComputed(s)
  BY <1>1, <1>2, OthersSayNothing DEF Stores
<1>4. OneWritten(docs', said'.doc)
  BY <1>3, StoredUpload, StoredComputed, StoredRow
<1> QED BY <1>4, WrittenLast

\* The list of a leaf that was changed last is its only table.
LEMMA LastIsShown ==
    ASSUME NEW us \in SUBSET Unit, NEW d, NEW b \in Nat, NEW c \in Nat, Rows(d, b, c),
           NEW i \in DOMAIN d, \A j \in DOMAIN d : j # i => d[j].upd < d[i].upd,
           d[i].name \in {Main, List}, Children(us, d[i].org) = {}
    PROVE  /\ Tables(us, d)[d[i].org] # <<>>
           /\ d[i].text \subseteq Tables(us, d)[d[i].org][1]
<1> DEFINE u == d[i].org
           lists == LocalLists(d, u)
           T == Tables(us, d)
<1>1. \A j \in DOMAIN d : d[j].org \in Unit /\ d[j].upd \in Nat
  BY DEF Rows, Row
<1>2. i \in lists /\ lists \in SUBSET DOMAIN d
  BY DEF LocalLists, Of
<1>3. T[u] = LeafTexts(d, u)
  <2>1. u \in Unit /\ Children(us, u) = {}
    BY <1>1
  <2> HIDE DEF u
  <2>2. T[u] = TableOf(us, d, T, u)
    BY <2>1, TablesAre
  <2> QED BY <2>1, <2>2 DEF TableOf
<1>4. LeafDocuments(d, u) = <<Latest(d, lists)>>
  BY <1>2 DEF LeafDocuments
<1> HIDE DEF lists, T, u
<1>5. Latest(d, lists) = i
  <2>1. Latest(d, lists) \in lists /\ d[i].upd <= d[Latest(d, lists)].upd
    BY <1>2, LatestFacts
  <2> QED BY <1>1, <1>2, <2>1
<1>6. T[u] = [n \in 1 .. 1 |-> d[<<i>>[n]].text]
  BY <1>3, <1>4, <1>5 DEF LeafTexts
<1>7. T[u] \in Texts
  BY <1>1, TableFacts DEF T, u
<1>8. 1 \in 1 .. 1 /\ DOMAIN T[u] = 1 .. 1 /\ T[u][1] = d[i].text
  BY <1>6
<1> DEFINE t == T[u]
<1>9. t # <<>> /\ t[1] = d[i].text
  <2>1. DOMAIN <<>> = {}
    OBVIOUS
  <2>2. 1 \in DOMAIN t /\ t[1] = d[i].text
    BY <1>8
  <2> HIDE DEF t
  <2> QED BY <2>1, <2>2
<1> QED BY <1>9 DEF T, u

LEMMA LastReachesUp ==
    ASSUME DocInv, LastStored
    PROVE  ListsReachUp
<1> SUFFICES ASSUME said.what = "stored", said.unit \in units, CanUpload(said.unit),
                    docs[said.doc].name \in {Main, List}, docs[said.doc].org = said.unit,
                    NEW a \in Ancestors(units, said.unit)
             PROVE  /\ Tables(units, docs)[a] # <<>>
                    /\ docs[said.doc].text \subseteq Tables(units, docs)[a][1]
  BY DEF ListsReachUp
<1> DEFINE u == said.unit
           i == said.doc
<1>1. /\ units \in SUBSET Unit /\ Rows(docs, born, clock)
      /\ born \in Nat /\ clock \in Nat
  BY DEF DocInv, Types
<1>2. i \in DOMAIN docs /\ \A j \in DOMAIN docs : j # i => docs[j].upd < docs[i].upd
  BY DEF LastStored
<1>3. Children(units, docs[i].org) = {}
  BY DEF CanUpload
<1>4. Tables(units, docs)[u] # <<>> /\ docs[i].text \subseteq Tables(units, docs)[u][1]
  <2> HIDE DEF i
  <2>1. docs[i].name \in {Main, List} /\ docs[i].org = u
    BY DEF i
  <2> HIDE DEF u
  <2> QED BY <1>1, <1>2, <1>3, <2>1, LastIsShown
<1>5. u \in units /\ a \in Above(units)[u]
  BY DEF Ancestors
<1> HIDE DEF i, u
<1>6. \A x \in Above(units)[u] : Tables(units, docs)[x] # <<>> /\ docs[i].text \subseteq Tables(units, docs)[x][1]
  BY <1>1, <1>4, <1>5, TextReachesTop
<1> QED BY <1>5, <1>6 DEF i

\* A list that a leaf has just stored is in the first computed table of every unit above it
\* (web.rs:2165): for every tree, whatever else the leaf and its neighbours hold.
THEOREM ListsAlwaysReachUp == Spec => []ListsReachUp
<1>1. Init => LastStored
  BY DEF Init, LastStored, Nothing, Said
<1>2. DocInv /\ LastStored /\ Next => LastStored'
  BY StoredKeeps
<1>3. LastStored /\ UNCHANGED vars => LastStored'
  BY DEF LastStored, vars
<1>4. DocInv /\ LastStored => ListsReachUp
  BY LastReachesUp
<1> QED BY <1>1, <1>2, <1>3, <1>4, DocumentsInvariant, PTL DEF Spec
=============================================================================
