---------------------------- MODULE AccountsProofs ----------------------------
(* Proofs about logins, for any number of units, accounts, requests, failing   *)
(* saves and restarts: the login that was told last works, and names differ.    *)
(*                                                                             *)
(* A start goes over the accounts one after the other, by a recursive function. *)
(* That such a function exists, and what it does to each account, follows from  *)
(* the least number at which it would not.                                      *)
EXTENDS Accounts, FiniteSetTheorems, WellFoundedInduction, TLAPS

\* A set of numbers that is not empty has a least one.
LEMMA LeastNumber ==
    ASSUME NEW T \in SUBSET Nat, T # {}
    PROVE  \E x \in T : \A y \in T : x <= y
<1> DEFINE R == {p \in Nat \X Nat : p[1] < p[2]}
<1>1. IsWellFoundedOn(R, Nat)
  BY NatLessThanWellFounded DEF OpToRel
<1>2. \E x \in T : \A y \in T : <<y, x>> \notin R
  <2> HIDE DEF R
  <2> QED BY <1>1, WFMin
<1>3. \A x, y \in T : <<y, x>> \notin R => x <= y
  OBVIOUS
<1> QED BY <1>2, <1>3

LEMMA LeastFacts == ASSUME NEW T \in SUBSET Nat, T # {} PROVE Least(T) \in T
BY LeastNumber DEF Least

LEMMA DataFields ==
    \A units, labels, users : /\ Data(units, labels, users).units = units
                              /\ Data(units, labels, users).labels = labels
                              /\ Data(units, labels, users).users = users
BY DEF Data

\* What the units are called is among labels.
Known(d, labels) == /\ d.units \subseteq Unit /\ d.labels \in [Unit -> Name]
                    /\ \A u \in d.units : <<u, d.labels[u]>> \in labels

-----------------------------------------------------------------------------
(* What a start does to an account.                                          *)

\* v is what a start makes of the account u: it stays, or had a name that starts take.
Kin(u, v) ==
    /\ v \in User /\ v.role = u.role /\ v.unit = u.unit
    /\ v = u \/ Rewritten(called, u, u.name)

AllKin(users, after) ==
    /\ DOMAIN after = DOMAIN users
    /\ \A i \in DOMAIN users : Kin(users[i], after[i])

\* Names differ, and no administrator has one that no start leaves.
Apart(users) == \A i, j \in DOMAIN users : i # j => users[i].name # users[j].name
Steady(users) == \A i \in DOMAIN users : ~Reserved(users[i], users[i].name)

LEMMA RewrittenSame ==
    ASSUME NEW u, NEW v, v.role = u.role, v.unit = u.unit
    PROVE  \A n : Rewritten(called, v, n) <=> Rewritten(called, u, n)
BY DEF Rewritten, Reserved

LEMMA KinChain ==
    ASSUME NEW u, NEW v, NEW w, Kin(u, v), Kin(v, w)
    PROVE  Kin(u, w)
<1>1. v.role = u.role /\ v.unit = u.unit
  BY DEF Kin
<1>2. \A n : Rewritten(called, v, n) <=> Rewritten(called, u, n)
  BY <1>1, RewrittenSame
<1> QED BY <1>1, <1>2 DEF Kin

LEMMA NamedFacts ==
    ASSUME NEW u \in User, NEW n \in Name
    PROVE  LET v == [u EXCEPT !.name = n]
           IN  v \in User /\ v.name = n /\ v.role = u.role /\ v.unit = u.unit /\ v.pw = u.pw
BY DEF User

LEMMA NamesAreNames ==
    /\ Bootstrap \in Name /\ Legacy \in Name /\ Blank \in Name
    /\ BootstrapPassword \in Password /\ Name \subseteq Password /\ OtherPasswords \subseteq Password
    /\ OtherNames \subseteq Name /\ \A u \in Unit : Code[u] \in Name
BY DEF Name, Password

Ids(users) == DOMAIN users \subseteq Nat /\ \A i \in DOMAIN users : users[i] \in User

\* The first administrator named admin gets the bootstrap login.
LEMMA BootstrapKin ==
    ASSUME NEW users, Ids(users)
    PROVE  AllKin(users, EnsureBootstrapAdmin(users))
<1> DEFINE S == Admins(users, Legacy)
           k == Least(S)
           after == EnsureBootstrapAdmin(users)
<1>1. \A i \in DOMAIN users : users[i] \in User
  BY DEF Ids
<1>2. CASE S = {}
  BY <1>1, <1>2 DEF EnsureBootstrapAdmin, AllKin, Kin
<1>3. CASE S # {}
  <2>1. S \subseteq DOMAIN users /\ S \in SUBSET Nat
    BY DEF Admins, Ids
  <2>2. k \in S
    <3> HIDE DEF S
    <3> QED BY <1>3, <2>1, LeastFacts
  <2>3. k \in DOMAIN users /\ users[k].role = "root_admin" /\ users[k].name = Legacy
    BY <2>2 DEF Admins
  <2> DEFINE v == [[users[k] EXCEPT !.name = Bootstrap] EXCEPT !.pw = BootstrapPassword]
  <2>4. after = [users EXCEPT ![k] = v]
    BY <1>3, <2>3 DEF EnsureBootstrapAdmin
  <2>5. v \in User /\ v.role = users[k].role /\ v.unit = users[k].unit
    <3> DEFINE o == users[k]
               n == [o EXCEPT !.name = Bootstrap]
    <3>1. o \in User
      BY <1>1, <2>3
    <3> HIDE DEF o
    <3>2. n \in User /\ n.role = o.role /\ n.unit = o.unit
      BY <3>1, NamesAreNames, NamedFacts
    <3> HIDE DEF n
    <3>3. [n EXCEPT !.pw = BootstrapPassword] \in User
          /\ [n EXCEPT !.pw = BootstrapPassword].role = n.role
          /\ [n EXCEPT !.pw = BootstrapPassword].unit = n.unit
      BY <3>2, NamesAreNames DEF User
    <3> QED BY <3>2, <3>3 DEF n, o
  <2>6. Rewritten(called, users[k], users[k].name)
    BY <2>3 DEF Rewritten, Reserved
  <2>7. Kin(users[k], v)
    BY <2>5, <2>6 DEF Kin
  <2> HIDE DEF v, k, after
  <2>8. \A i \in DOMAIN users : after[i] = IF i = k THEN v ELSE users[i]
    BY <2>3, <2>4
  <2>9. DOMAIN after = DOMAIN users
    BY <2>4
  <2>10. \A i \in DOMAIN users : Kin(users[i], after[i])
    BY <1>1, <2>7, <2>8 DEF Kin
  <2> QED BY <2>9, <2>10 DEF AllKin, after
<1> QED BY <1>2, <1>3

LEMMA BootstrapSteady == ASSUME NEW users, Steady(users) PROVE EnsureBootstrapAdmin(users) = users
BY DEF Steady, Reserved, Admins, EnsureBootstrapAdmin

\* One account gets a name that starts give, or nothing happens.
OneRenamed(st, i, one, n) == one = Renamed(st, i, n) /\ Rewritten(called, st.users[i], st.users[i].name)

\* A unit's account gets the number if nobody else has it.
OneNumbered(st, i, one) ==
    LET unit == st.users[i].unit
    IN  /\ unit \in Unit /\ OneRenamed(st, i, one, Code[unit])
        /\ Code[unit] \in DOMAIN st.owner => st.owner[Code[unit]] = i

LEMMA NormalizeOneIs ==
    ASSUME NEW d, Known(d, called), NEW st, NEW i \in DOMAIN st.users, st.users[i] \in User
    PROVE  LET one == NormalizeOne(d, st, i)
           IN  \/ OneRenamed(st, i, one, Legacy) /\ Reserved(st.users[i], st.users[i].name)
               \/ OneNumbered(st, i, one)
               \/ one = st
<1> DEFINE u == st.users[i]
           one == NormalizeOne(d, st, i)
<1>1. CASE u.role = "root_admin" /\ u.unit = NoUnit
  <2>1. CASE u.name \in {Blank, Zero}
    <3>1. one = Renamed(st, i, Legacy)
      BY <1>1, <2>1 DEF NormalizeOne
    <3>2. Reserved(u, u.name)
      BY <1>1, <2>1 DEF Reserved
    <3> QED BY <3>1, <3>2 DEF OneRenamed, Rewritten
  <2>2. CASE u.name \notin {Blank, Zero}
    <3>1. one = st
      BY <1>1, <2>2 DEF NormalizeOne
    <3> QED BY <3>1
  <2> QED BY <2>1, <2>2
<1>2. CASE ~(u.role = "root_admin" /\ u.unit = NoUnit)
  <2> DEFINE free == u.unit \in d.units
                     /\ (Code[u.unit] \in DOMAIN st.owner => st.owner[Code[u.unit]] = i)
             takes == u.unit # NoUnit /\ free /\ u.name \in {Blank, d.labels[u.unit]}
  <2>1. CASE takes
    <3>1. one = Renamed(st, i, Code[u.unit])
      BY <1>2, <2>1 DEF NormalizeOne
    <3>2. <<u.unit, d.labels[u.unit]>> \in called /\ u.unit \in Unit
      BY <2>1 DEF Known
    <3>3. Rewritten(called, u, u.name)
      BY <2>1, <3>2 DEF Rewritten
    <3> QED BY <2>1, <3>1, <3>2, <3>3 DEF OneNumbered, OneRenamed
  <2>2. CASE ~takes
    <3>1. one = st
      BY <1>2, <2>2 DEF NormalizeOne
    <3> QED BY <3>1
  <2> QED BY <2>1, <2>2
<1> QED BY <1>1, <1>2

\* What a renaming does.
NamedAnew(st, one, i, n) ==
    /\ DOMAIN one.users = DOMAIN st.users
    /\ \A j \in DOMAIN st.users \ {i} : one.users[j] = st.users[j]
    /\ one.users[i] \in User /\ one.users[i].name = n
    /\ one.users[i].role = st.users[i].role /\ one.users[i].unit = st.users[i].unit

LEMMA RenamedUsers ==
    ASSUME NEW st, NEW i \in DOMAIN st.users, st.users[i] \in User, NEW n \in Name
    PROVE  NamedAnew(st, Renamed(st, i, n), i, n)
<1> DEFINE v == [st.users[i] EXCEPT !.name = n]
<1>1. v \in User /\ v.role = st.users[i].role /\ v.unit = st.users[i].unit /\ v.name = n
  BY NamedFacts
<1>2. Renamed(st, i, n).users = [st.users EXCEPT ![i] = v]
  BY DEF Renamed
<1> HIDE DEF v
<1>3. [st.users EXCEPT ![i] = v][i] = v
  OBVIOUS
<1> QED BY <1>1, <1>2, <1>3 DEF NamedAnew

\* One account: only it changes, and only its name.
LEMMA NormalizeOneKin ==
    ASSUME NEW d, Known(d, called), NEW st, NEW i \in DOMAIN st.users, st.users[i] \in User
    PROVE  /\ DOMAIN NormalizeOne(d, st, i).users = DOMAIN st.users
           /\ \A j \in DOMAIN st.users \ {i} : NormalizeOne(d, st, i).users[j] = st.users[j]
           /\ Kin(st.users[i], NormalizeOne(d, st, i).users[i])
<1> DEFINE one == NormalizeOne(d, st, i)
<1>1. \/ OneRenamed(st, i, one, Legacy)
      \/ OneNumbered(st, i, one)
      \/ one = st
  BY NormalizeOneIs
<1> HIDE DEF one
<1>2. ASSUME NEW n \in Name, OneRenamed(st, i, one, n)
      PROVE  /\ DOMAIN one.users = DOMAIN st.users
             /\ \A j \in DOMAIN st.users \ {i} : one.users[j] = st.users[j]
             /\ Kin(st.users[i], one.users[i])
  <2>1. NamedAnew(st, one, i, n)
    BY <1>2, RenamedUsers DEF OneRenamed
  <2> QED BY <1>2, <2>1 DEF NamedAnew, OneRenamed, Kin
<1>3. (\E n \in Name : OneRenamed(st, i, one, n)) \/ one = st
  BY <1>1, NamesAreNames DEF OneNumbered
<1>4. CASE one = st
  BY <1>4 DEF one, Kin
<1> QED BY <1>2, <1>3, <1>4 DEF one

\* The map of owners is right about every account, so that no name has two.
Exact(st) == \A i \in DOMAIN st.users : /\ st.users[i].name \in DOMAIN st.owner
                                        /\ st.owner[st.users[i].name] = i

LEMMA ExactIsApart == ASSUME NEW st, Exact(st) PROVE Apart(st.users)
BY DEF Exact, Apart

LEMMA OwnersExact ==
    ASSUME NEW users, Ids(users), Apart(users)
    PROVE  Exact([users |-> users, owner |-> Owners(users)])
<1> DEFINE names == {users[i].name : i \in DOMAIN users}
<1>1. ASSUME NEW i \in DOMAIN users
      PROVE  Owners(users)[users[i].name] = i /\ users[i].name \in DOMAIN Owners(users)
  <2> DEFINE n == users[i].name
             Last(k) == users[k].name = n /\ \A j \in DOMAIN users : users[j].name = n => j <= k
  <2>1. n \in names
    OBVIOUS
  <2>2. Owners(users)[n] = CHOOSE k \in DOMAIN users : Last(k)
    BY <2>1 DEF Owners
  <2>3. \A j \in DOMAIN users : users[j].name = n => j = i
    BY DEF Apart
  <2>4. Last(i)
    BY <2>3 DEF Ids
  <2>5. \A k \in DOMAIN users : Last(k) => k = i
    BY <2>3
  <2>6. n \in DOMAIN Owners(users)
    BY <2>1 DEF Owners
  <2> HIDE DEF Last
  <2> QED BY <2>2, <2>4, <2>5, <2>6
<1> QED BY <1>1 DEF Exact

\* A number that nobody else has keeps the names apart.
LEMMA RenamedExact ==
    ASSUME NEW st, Exact(st), NEW i \in DOMAIN st.users, st.users[i] \in User, NEW n \in Name,
           n \in DOMAIN st.owner => st.owner[n] = i
    PROVE  Exact(Renamed(st, i, n))
<1> DEFINE one == Renamed(st, i, n)
           old == st.users[i].name
           rest == [m \in DOMAIN st.owner \ {old} |-> st.owner[m]]
<1>1. /\ DOMAIN one.users = DOMAIN st.users
      /\ \A j \in DOMAIN st.users \ {i} : one.users[j] = st.users[j]
      /\ one.users[i].name = n
  BY RenamedUsers DEF NamedAnew
<1>2. one.owner = Put(rest, n, i)
  BY DEF Renamed
<1>3. /\ DOMAIN one.owner = (DOMAIN st.owner \ {old}) \union {n}
      /\ one.owner[n] = i
      /\ \A m \in DOMAIN st.owner \ {old} : m # n => one.owner[m] = st.owner[m]
  BY <1>2 DEF Put
<1> HIDE DEF one, rest
<1>4. ASSUME NEW j \in DOMAIN st.users, j # i
      PROVE  /\ one.users[j].name \in DOMAIN one.owner
             /\ one.owner[one.users[j].name] = j
  <2>1. one.users[j].name = st.users[j].name
    BY <1>1, <1>4
  <2>2. st.users[j].name \in DOMAIN st.owner /\ st.owner[st.users[j].name] = j
    BY DEF Exact
  <2>3. st.users[j].name # old
    BY <1>4, <2>2 DEF Exact
  <2>4. st.users[j].name # n
    BY <1>4, <2>2
  <2> QED BY <1>3, <2>1, <2>2, <2>3, <2>4
<1>5. one.users[i].name \in DOMAIN one.owner /\ one.owner[one.users[i].name] = i
  BY <1>1, <1>3
<1>6. Exact(one)
  BY <1>1, <1>4, <1>5 DEF Exact
<1> QED BY <1>6 DEF one

Fair(st) == Exact(st) /\ Steady(st.users)

LEMMA NormalizeOneFair ==
    ASSUME NEW d, Known(d, called), NEW st, NEW i \in DOMAIN st.users, st.users[i] \in User, Fair(st)
    PROVE  Fair(NormalizeOne(d, st, i))
<1> DEFINE one == NormalizeOne(d, st, i)
           u == st.users[i]
<1>1. ~Reserved(u, u.name)
  BY DEF Fair, Steady
<1>2. OneNumbered(st, i, one) \/ one = st
  BY <1>1, NormalizeOneIs
<1> HIDE DEF one
<1>3. CASE OneNumbered(st, i, one)
  <2> DEFINE n == Code[u.unit]
  <2>1. u.unit \in Unit /\ n \in Name /\ one = Renamed(st, i, n)
        /\ (n \in DOMAIN st.owner => st.owner[n] = i)
    BY <1>3, NamesAreNames DEF OneNumbered, OneRenamed
  <2>2. n \notin {Blank, Legacy} /\ u.unit # NoUnit
    BY <2>1, NamesAssumption, TreeAssumption
  <2> HIDE DEF n
  <2>3. Exact(one)
    BY <2>1, RenamedExact DEF Fair
  <2>4. /\ DOMAIN one.users = DOMAIN st.users
        /\ \A j \in DOMAIN st.users \ {i} : one.users[j] = st.users[j]
        /\ one.users[i].name = n /\ one.users[i].unit = u.unit
    <3>1. NamedAnew(st, one, i, n)
      BY <2>1, RenamedUsers
    <3> QED BY <3>1 DEF NamedAnew
  <2>5. ~Reserved(one.users[i], one.users[i].name)
    BY <2>2, <2>4 DEF Reserved
  <2>6. Steady(one.users)
    BY <2>4, <2>5 DEF Fair, Steady
  <2> QED BY <2>3, <2>6 DEF Fair, one
<1>4. CASE one = st
  BY <1>4 DEF one
<1> QED BY <1>2, <1>3, <1>4

-----------------------------------------------------------------------------
(* The accounts one after the other.                                         *)

First(users) == [users |-> users, owner |-> Owners(users)]

StepAt(d, users, st, n) == IF n \in DOMAIN users THEN NormalizeOne(d, st, n) ELSE st

IsRun(d, users, m, f) ==
    f = [n \in 0 .. m |-> IF n = 0 THEN First(users) ELSE StepAt(d, users, f[n - 1], n)]

\* The recursive function exists, up to any number.
LEMMA RunExists ==
    ASSUME NEW d, NEW users, NEW m \in Nat
    PROVE  \E f : IsRun(d, users, m, f)
<1> DEFINE Bad == {n \in Nat : ~\E f : IsRun(d, users, n, f)}
<1>1. SUFFICES ASSUME Bad # {} PROVE FALSE
  OBVIOUS
<1>2. PICK b \in Bad : \A n \in Bad : b <= n
  <2>1. Bad \in SUBSET Nat
    OBVIOUS
  <2> HIDE DEF Bad
  <2> QED BY <1>1, <2>1, LeastNumber
<1>3. b \in Nat /\ ~\E f : IsRun(d, users, b, f)
  OBVIOUS
<1>4. CASE b = 0
  <2> DEFINE f == [n \in 0 .. 0 |-> First(users)]
  <2>1. f = [n \in 0 .. 0 |-> IF n = 0 THEN First(users) ELSE StepAt(d, users, f[n - 1], n)]
    <3>1. \A n \in 0 .. 0 : n = 0
      OBVIOUS
    <3> QED BY <3>1
  <2> HIDE DEF f
  <2>2. IsRun(d, users, 0, f)
    BY <2>1 DEF IsRun
  <2> QED BY <1>3, <1>4, <2>2
<1>5. CASE b # 0
  <2>1. b - 1 \in Nat /\ b - 1 < b
    BY <1>3, <1>5
  <2>2. b - 1 \notin Bad
    BY <1>2, <1>3, <2>1
  <2>3. PICK f : IsRun(d, users, b - 1, f)
    BY <2>1, <2>2
  <2> HIDE DEF Bad
  <2> DEFINE last == StepAt(d, users, f[b - 1], b)
             g == [n \in 0 .. b |-> IF n = b THEN last ELSE f[n]]
  <2>4. \A n \in 0 .. b : n < b => g[n] = f[n]
    BY <1>3
  <2>5. ASSUME NEW n \in 0 .. b
        PROVE  g[n] = IF n = 0 THEN First(users) ELSE StepAt(d, users, g[n - 1], n)
    <3>1. CASE n = b
      <4>1. n # 0 /\ n - 1 \in 0 .. b /\ n - 1 < b /\ g[n] = last
        BY <1>3, <1>5, <3>1
      <4>2. g[n - 1] = f[b - 1]
        BY <2>4, <3>1, <4>1
      <4> HIDE DEF g
      <4> QED BY <3>1, <4>1, <4>2
    <3>2. CASE n # b
      <4>1. n \in 0 .. b - 1 /\ g[n] = f[n]
        BY <1>3, <3>2
      <4>2. f[n] = IF n = 0 THEN First(users) ELSE StepAt(d, users, f[n - 1], n)
        BY <2>3, <4>1 DEF IsRun
      <4>3. n # 0 => n - 1 \in 0 .. b /\ n - 1 < b /\ g[n - 1] = f[n - 1]
        BY <1>3, <2>4, <4>1
      <4> HIDE DEF g
      <4> QED BY <4>1, <4>2, <4>3
    <3> QED BY <3>1, <3>2
  <2>6. g = [n \in 0 .. b |-> g[n]]
    OBVIOUS
  <2> HIDE DEF g
  <2>7. [n \in 0 .. b |-> g[n]] =
        [n \in 0 .. b |-> IF n = 0 THEN First(users) ELSE StepAt(d, users, g[n - 1], n)]
    BY <2>5
  <2>8. IsRun(d, users, b, g)
    BY <2>6, <2>7 DEF IsRun
  <2> QED BY <1>3, <2>8
<1> QED BY <1>4, <1>5

\* So that what a start computes is such a run.
LEMMA NormalizeIsRun ==
    ASSUME NEW d, NEW users
    PROVE  \E f : IsRun(d, users, MaxAccounts, f) /\ Normalize(d, users) = f[MaxAccounts].users
<1> DEFINE Body(f) ==
              [n \in 0 .. MaxAccounts |->
                  IF n = 0 THEN [users |-> users, owner |-> Owners(users)]
                  ELSE IF n \in DOMAIN users THEN NormalizeOne(d, f[n - 1], n)
                  ELSE f[n - 1]]
           after == CHOOSE f : f = Body(f)
<1>1. Normalize(d, users) = after[MaxAccounts].users
  BY DEF Normalize
<1>2. \A f : IsRun(d, users, MaxAccounts, f) <=> f = Body(f)
  BY DEF IsRun, StepAt, First
<1>3. \E f : IsRun(d, users, MaxAccounts, f)
  BY RunExists, BoundsAssumption
<1> HIDE DEF Body
<1>4. after = Body(after)
  BY <1>2, <1>3
<1> QED BY <1>1, <1>2, <1>4

\* What the run has made of the accounts up to n: those are kin, the others as they were,
\* and the names are as far apart as they were.
RunSoFar(users, n, st) ==
    /\ AllKin(users, st.users)
    /\ \A i \in DOMAIN users : i > n => st.users[i] = users[i]
    /\ Apart(users) /\ Steady(users) => Fair(st)

LEMMA StepKin ==
    ASSUME NEW d, Known(d, called), NEW users, Ids(users), NEW n \in Nat \ {0}, NEW st,
           RunSoFar(users, n - 1, st)
    PROVE  RunSoFar(users, n, StepAt(d, users, st, n))
<1>1. /\ DOMAIN st.users = DOMAIN users /\ \A i \in DOMAIN users : Kin(users[i], st.users[i])
      /\ \A i \in DOMAIN users : i \in Nat
      /\ \A i \in DOMAIN users : i > n - 1 => st.users[i] = users[i]
      /\ (Apart(users) /\ Steady(users) => Fair(st))
  BY DEF RunSoFar, AllKin, Ids
<1>2. CASE n \notin DOMAIN users
  BY <1>1, <1>2 DEF StepAt, RunSoFar, AllKin
<1>3. CASE n \in DOMAIN users
  <2> DEFINE one == NormalizeOne(d, st, n)
  <2>1. StepAt(d, users, st, n) = one
    BY <1>3 DEF StepAt
  <2>2. n \in DOMAIN st.users /\ st.users[n] = users[n] /\ st.users[n] \in User
    BY <1>1, <1>3 DEF Ids
  <2>3. /\ DOMAIN one.users = DOMAIN st.users
        /\ \A j \in DOMAIN st.users \ {n} : one.users[j] = st.users[j]
        /\ Kin(st.users[n], one.users[n])
    BY <2>2, NormalizeOneKin
  <2>6. Fair(st) => Fair(one)
    BY <2>2, NormalizeOneFair
  <2> HIDE DEF one
  <2>4. \A i \in DOMAIN users : i > n => one.users[i] = users[i]
    BY <1>1, <2>3
  <2>5. \A i \in DOMAIN users : Kin(users[i], one.users[i])
    BY <1>1, <2>2, <2>3
  <2> QED BY <1>1, <2>1, <2>3, <2>4, <2>5, <2>6 DEF RunSoFar, AllKin
<1> QED BY <1>2, <1>3

LEMMA RunKin ==
    ASSUME NEW d, Known(d, called), NEW users, Ids(users), NEW m \in Nat, NEW f,
           IsRun(d, users, m, f)
    PROVE  \A n \in 0 .. m : RunSoFar(users, n, f[n])
<1> DEFINE Bad == {n \in 0 .. m : ~RunSoFar(users, n, f[n])}
<1>1. SUFFICES ASSUME Bad # {} PROVE FALSE
  OBVIOUS
<1>2. PICK b \in Bad : \A n \in Bad : b <= n
  <2>1. Bad \in SUBSET Nat
    OBVIOUS
  <2> HIDE DEF Bad
  <2> QED BY <1>1, <2>1, LeastNumber
<1>3. b \in 0 .. m /\ b \in Nat /\ ~RunSoFar(users, b, f[b])
  OBVIOUS
<1>4. f[b] = IF b = 0 THEN First(users) ELSE StepAt(d, users, f[b - 1], b)
  BY <1>3 DEF IsRun
<1>5. CASE b = 0
  <2>1. f[b].users = users
    BY <1>4, <1>5 DEF First
  <2>2. AllKin(users, users)
    BY DEF AllKin, Kin, Ids
  <2>3. Apart(users) => Exact(f[b])
    BY <1>4, <1>5, OwnersExact DEF First
  <2> QED BY <1>3, <2>1, <2>2, <2>3 DEF RunSoFar, Fair
<1>6. CASE b # 0
  <2>1. b - 1 \in 0 .. m /\ ~(b <= b - 1) /\ b \in Nat \ {0}
    BY <1>3, <1>6
  <2>2. RunSoFar(users, b - 1, f[b - 1])
    BY <1>2, <2>1
  <2>3. f[b] = StepAt(d, users, f[b - 1], b)
    BY <1>4, <1>6
  <2> QED BY <1>3, <2>1, <2>2, <2>3, StepKin
<1> QED BY <1>5, <1>6

\* What a start makes of all accounts.
LEMMA StartupKin ==
    ASSUME NEW d, Known(d, called), Ids(d.users)
    PROVE  /\ Startup(d).units = d.units /\ Startup(d).labels = d.labels
           /\ AllKin(d.users, Startup(d).users)
           /\ Apart(d.users) /\ Steady(d.users) => Apart(Startup(d).users) /\ Steady(Startup(d).users)
<1> DEFINE first == EnsureBootstrapAdmin(d.users)
           last == Normalize(d, first)
<1>1. AllKin(d.users, first) /\ (Steady(d.users) => first = d.users)
  BY BootstrapKin, BootstrapSteady
<1>2. Startup(d).units = d.units /\ Startup(d).labels = d.labels /\ Startup(d).users = last
  BY DataFields DEF Startup
<1>3. Ids(first)
  BY <1>1 DEF Ids, AllKin, Kin
<1> HIDE DEF first
<1>4. PICK f : IsRun(d, first, MaxAccounts, f) /\ last = f[MaxAccounts].users
  BY NormalizeIsRun
<1> HIDE DEF last
<1>5. RunSoFar(first, MaxAccounts, f[MaxAccounts])
  <2>1. MaxAccounts \in 0 .. MaxAccounts /\ MaxAccounts \in Nat
    BY BoundsAssumption
  <2> QED BY <1>3, <1>4, <2>1, RunKin
<1>6. AllKin(first, last)
  BY <1>4, <1>5 DEF RunSoFar
<1>7. AllKin(d.users, last)
  BY <1>1, <1>6, KinChain DEF AllKin
<1>8. Apart(d.users) /\ Steady(d.users) => Apart(last) /\ Steady(last)
  BY <1>1, <1>4, <1>5, ExactIsApart DEF RunSoFar, Fair
<1> QED BY <1>2, <1>7, <1>8

-----------------------------------------------------------------------------
(* The invariant.                                                            *)

\* What was told need not work: it was typed with blanks, or is a name that starts take.
Void(labels, user, l) == ~Plain(l) \/ Rewritten(labels, user, l[1])

\* The login of an account was told, or what was told need not work.
Works(users, heard, labels) ==
    \A i \in DOMAIN users :
        \/ Login(users[i]) \in heard[i]
        \/ \E l \in heard[i] : Void(labels, users[i], l)

Sound(d) == /\ Known(d, called) /\ UsersOK(d.users)
            /\ Works(d.users, told, called)
            /\ ~odd => Apart(d.users) /\ Steady(d.users)

AccInv == /\ TypeOK /\ DOMAIN pend = Slots
          /\ Sound(data) /\ Sound(saved)

\* More may have been called so; then as much is void, and as much is known.
LEMMA MoreLabels ==
    ASSUME NEW labels, NEW more, labels \subseteq more
    PROVE  /\ \A d : Known(d, labels) => Known(d, more)
           /\ \A users, heard : Works(users, heard, labels) => Works(users, heard, more)
<1>1. \A user, name : Rewritten(labels, user, name) => Rewritten(more, user, name)
  BY DEF Rewritten
<1>2. \A user, l : Void(labels, user, l) => Void(more, user, l)
  BY <1>1 DEF Void
<1> QED BY <1>2 DEF Known, Works

LEMMA WorksMeaning ==
    AccInv => ToldLoginWorks /\ NamesDistinct
BY DEF AccInv, Sound, Works, Void, Apart, ToldLoginWorks, NamesDistinct

LEMMA IdsOfUsers == ASSUME NEW users, made \in Nat, UsersOK(users) PROVE Ids(users)
BY DEF UsersOK, Ids

\* A start keeps what the accounts were told, and their names if none is one it takes.
LEMMA StartupSound ==
    ASSUME NEW d, made \in Nat, Sound(d)
    PROVE  Sound(Startup(d))
<1> DEFINE e == Startup(d)
<1>1. /\ Known(d, called) /\ UsersOK(d.users) /\ Works(d.users, told, called)
      /\ (~odd => Apart(d.users) /\ Steady(d.users))
  BY DEF Sound
<1>2. /\ e.units = d.units /\ e.labels = d.labels /\ AllKin(d.users, e.users)
      /\ (Apart(d.users) /\ Steady(d.users) => Apart(e.users) /\ Steady(e.users))
  BY <1>1, IdsOfUsers, StartupKin
<1> HIDE DEF e
<1>3. /\ DOMAIN e.users = DOMAIN d.users
      /\ \A i \in DOMAIN d.users : Kin(d.users[i], e.users[i])
  BY <1>2 DEF AllKin
<1>4. UsersOK(e.users)
  BY <1>1, <1>3 DEF UsersOK, Kin
<1>5. ASSUME NEW i \in DOMAIN d.users
      PROVE  \/ Login(e.users[i]) \in told[i]
             \/ \E l \in told[i] : Void(called, e.users[i], l)
  <2> DEFINE u == d.users[i]
             v == e.users[i]
  <2>1. v.role = u.role /\ v.unit = u.unit /\ (v = u \/ Rewritten(called, u, u.name))
    BY <1>3 DEF Kin
  <2>2. Login(u) \in told[i] \/ \E l \in told[i] : Void(called, u, l)
    BY <1>1 DEF Works
  <2> HIDE DEF u, v
  <2>3. \A n : Rewritten(called, v, n) <=> Rewritten(called, u, n)
    BY <2>1, RewrittenSame
  <2>4. Login(u)[1] = u.name
    BY DEF Login
  <2>5. \A l : Void(called, v, l) <=> Void(called, u, l)
    BY <2>3 DEF Void
  <2>6. Rewritten(called, u, u.name) => Void(called, v, Login(u))
    BY <2>4, <2>5 DEF Void
  <2>7. Login(v) \in told[i] \/ \E l \in told[i] : Void(called, v, l)
    BY <2>1, <2>2, <2>5, <2>6
  <2> QED BY <2>7 DEF v
<1>6. Works(e.users, told, called)
  BY <1>3, <1>5 DEF Works
<1>7. Known(e, called)
  BY <1>1, <1>2 DEF Known
<1>8. Sound(e)
  BY <1>1, <1>2, <1>4, <1>6, <1>7 DEF Sound
<1> QED BY <1>8 DEF e

LEMMA RestartHolds == ASSUME AccInv, Restart PROVE AccInv'
<1> DEFINE e == Startup(saved)
<1>1. /\ data' = e /\ saved' = e /\ pend' = [s \in Slots |-> Idle]
      /\ made' = made /\ told' = told /\ called' = called /\ odd' = odd
      /\ requests' = requests /\ failures' = failures /\ restarts' = restarts + 1 /\ restarts < MaxRestarts
  BY DEF Restart
<1>2. made \in Nat /\ Sound(saved)
  BY BoundsAssumption DEF AccInv, TypeOK, Id
<1>3. Sound(e)
  BY <1>2, StartupSound
<1> HIDE DEF e
<1>4. Sound(data)' /\ Sound(saved)'
  BY <1>1, <1>3 DEF Sound, UsersOK
<1>5. TypeOK'
  <2>1. \A s \in Slots : pend'[s] = Idle
    BY <1>1
  <2>2. UnitsOK(e) /\ UsersOK(e.users)
    BY <1>3 DEF Sound, Known, UnitsOK
  <2>3. restarts' \in 0 .. MaxRestarts
    BY <1>1, BoundsAssumption DEF AccInv, TypeOK
  <2> QED BY <1>1, <2>1, <2>2, <2>3 DEF AccInv, TypeOK, UsersOK
<1> QED BY <1>1, <1>4, <1>5 DEF AccInv

\* What a request leaves is right, in memory; and so it is on disk, written or not.
LEMMA PersistHolds ==
    ASSUME AccInv, NEW s \in Slots, NEW d, Persist(d), pend' = [pend EXCEPT ![s] = Idle],
           requests' = requests, restarts' = restarts, odd' \in BOOLEAN, odd => odd',
           made' \in Id, made <= made', called' \subseteq Unit \X Name,
           DOMAIN told' = 1 .. made', \A j \in 1 .. made' : told'[j] \subseteq Name \X Password,
           Known(d, called'), DOMAIN d.users \subseteq 1 .. made',
           \A j \in DOMAIN d.users : d.users[j] \in User, Works(d.users, told', called'),
           ~odd' => Apart(d.users) /\ Steady(d.users),
           called \subseteq called',
           saved' = saved /\ saved' # d => \A j \in 1 .. made : told[j] \subseteq told'[j]
    PROVE  AccInv'
<1>1. data' = d /\ (saved' = d \/ saved' = saved) /\ failures' \in 0 .. MaxFailures
  BY BoundsAssumption DEF Persist, AccInv, TypeOK
<1>2. Sound(data)'
  BY <1>1 DEF Sound, UsersOK
<1>3. ASSUME saved' = d PROVE Sound(saved)'
  BY <1>3 DEF Sound, UsersOK
<1>4. ASSUME saved' = saved, saved' # d PROVE Sound(saved)'
  <2>1. /\ Known(saved, called) /\ UsersOK(saved.users) /\ Works(saved.users, told, called)
        /\ (~odd' => Apart(saved.users) /\ Steady(saved.users)) /\ made \in Nat
    BY BoundsAssumption DEF AccInv, Sound, TypeOK, Id
  <2>2. made' \in Nat /\ 1 .. made \subseteq 1 .. made'
    BY <2>1, BoundsAssumption DEF Id
  <2>3. Known(saved, called') /\ Works(saved.users, told, called')
    BY <2>1, MoreLabels
  <2>4. \A j \in DOMAIN saved.users : told[j] \subseteq told'[j]
    BY <1>4, <2>1 DEF UsersOK
  <2>5. Works(saved.users, told', called')
    BY <2>3, <2>4 DEF Works
  <2>6. DOMAIN saved.users \subseteq 1 .. made' /\ \A j \in DOMAIN saved.users : saved.users[j] \in User
    BY <2>1, <2>2 DEF UsersOK
  <2> QED BY <1>4, <2>1, <2>3, <2>5, <2>6 DEF Sound, UsersOK
<1>5. Sound(saved)'
  BY <1>1, <1>3, <1>4
<1>6. /\ DOMAIN pend' = Slots
      /\ \A t \in Slots : pend'[t] # Idle => pend'[t].id \in 1 .. made' /\ pend'[t].user \in User
  <2>1. DOMAIN pend' = Slots /\ \A t \in Slots : pend'[t] = IF t = s THEN Idle ELSE pend[t]
    BY DEF AccInv
  <2>2. made \in Nat /\ made' \in Nat
    BY BoundsAssumption DEF AccInv, TypeOK, Id
  <2>3. \A t \in Slots : pend[t] # Idle => pend[t].id \in 1 .. made' /\ pend[t].user \in User
    BY <2>2 DEF AccInv, TypeOK
  <2> QED BY <2>1, <2>3
<1>7. requests' \in 0 .. MaxRequests /\ restarts' \in 0 .. MaxRestarts
  BY DEF AccInv, TypeOK
<1>8. UnitsOK(data)' /\ UnitsOK(saved)' /\ UsersOK(data.users)' /\ UsersOK(saved.users)'
  BY <1>2, <1>5 DEF Sound, Known, UnitsOK
<1>9. TypeOK'
  BY <1>1, <1>6, <1>7, <1>8 DEF TypeOK
<1> QED BY <1>2, <1>5, <1>6, <1>9 DEF AccInv

\* One account is stored, by whatever request: it was told its login, or one typed with blanks;
\* the others stay.
StoresOne(d, i, user, login) ==
    /\ user \in User /\ login \in Name \X Password /\ (login = Login(user) \/ ~Plain(login))
    /\ made' \in Id /\ i \in 1 .. made' /\ (made' = made \/ (made' = made + 1 /\ i = made'))
    /\ called' \subseteq Unit \X Name /\ called \subseteq called' /\ Known(d, called')
    /\ i \in DOMAIN d.users /\ d.users[i] = user
    /\ \A j \in DOMAIN d.users \ {i} : j \in DOMAIN data.users /\ d.users[j] = data.users[j]
    /\ ~odd => \A j \in DOMAIN data.users \ {i} : data.users[j].name # user.name

LEMMA StoreHolds ==
    ASSUME AccInv, NEW s \in Slots, NEW d, NEW i, NEW user, NEW login, Store(s, d, i, user, login),
           StoresOne(d, i, user, login)
    PROVE  AccInv'
<1>1. /\ odd' = (odd \/ Reserved(user, user.name)) /\ requests' = requests /\ Persist(d)
      /\ restarts' = restarts /\ pend' = [pend EXCEPT ![s] = Idle] /\ odd \in BOOLEAN
  BY DEF Store, Finish, AccInv, TypeOK
<1>2. /\ made \in Nat /\ made' \in Nat /\ made <= made' /\ i \in 1 .. made' /\ made' \in Id
      /\ DOMAIN told = 1 .. made /\ DOMAIN told \union {i} = 1 .. made'
  BY BoundsAssumption DEF AccInv, TypeOK, StoresOne, Id
<1>3. /\ UsersOK(data.users) /\ Works(data.users, told, called)
      /\ (~odd => Apart(data.users) /\ Steady(data.users))
  BY DEF AccInv, Sound
<1>4. /\ DOMAIN d.users \subseteq 1 .. made' /\ \A j \in DOMAIN d.users : d.users[j] \in User
  BY <1>2, <1>3 DEF UsersOK, StoresOne
<1>5. ASSUME ~odd' PROVE Apart(d.users) /\ Steady(d.users)
  <2>1. ~odd /\ ~Reserved(user, user.name)
    BY <1>1, <1>5
  <2>2. \A j \in DOMAIN d.users \ {i} : d.users[j] = data.users[j] /\ j \in DOMAIN data.users
                                        /\ d.users[j].name # user.name
    BY <2>1 DEF StoresOne
  <2>3. d.users[i] = user
    BY DEF StoresOne
  <2>4. Steady(d.users)
    BY <1>3, <2>1, <2>2, <2>3 DEF Steady
  <2>5. Apart(d.users)
    BY <1>3, <2>1, <2>2, <2>3 DEF Apart
  <2> QED BY <2>4, <2>5
<1> DEFINE before == IF failures' # failures /\ i \in DOMAIN told THEN told[i] ELSE {}
           L == {login} \union before
<1>6. told' = Put(told, i, L)
  BY DEF Store
<1>7. L \subseteq Name \X Password /\ login \in L
  BY DEF StoresOne, AccInv, TypeOK
<1>8. saved' = saved /\ saved' # d => (i \in DOMAIN told => told[i] \subseteq L)
  <2>1. saved' = saved /\ saved' # d => failures' = failures + 1
    BY <1>1 DEF Persist
  <2>2. failures + 1 # failures
    BY DEF AccInv, TypeOK
  <2> QED BY <2>1, <2>2
<1> HIDE DEF L, before
<1>9. /\ DOMAIN told' = 1 .. made' /\ told'[i] = L
      /\ \A j \in 1 .. made' : j # i => j \in 1 .. made /\ told'[j] = told[j]
  BY <1>2, <1>6 DEF Put
<1>10. Works(data.users, told, called')
  BY <1>3, MoreLabels DEF StoresOne
<1>11. Works(d.users, told', called')
  <2> SUFFICES ASSUME NEW j \in DOMAIN d.users
               PROVE  \/ Login(d.users[j]) \in told'[j]
                      \/ \E l \in told'[j] : Void(called', d.users[j], l)
    BY DEF Works
  <2>1. CASE j = i
    <3>1. d.users[j] = user /\ told'[j] = L /\ (login = Login(user) \/ Void(called', user, login))
      BY <1>9, <2>1 DEF StoresOne, Void
    <3> QED BY <1>7, <3>1
  <2>2. CASE j # i
    <3>1. j \in DOMAIN data.users /\ d.users[j] = data.users[j] /\ told'[j] = told[j]
      BY <1>4, <1>9, <2>2 DEF StoresOne
    <3> QED BY <1>10, <3>1 DEF Works
  <2> QED BY <2>1, <2>2
<1>12. \A j \in 1 .. made' : told'[j] \subseteq Name \X Password
  BY <1>7, <1>9 DEF AccInv, TypeOK
<1>13. saved' = saved /\ saved' # d => \A j \in 1 .. made : told[j] \subseteq told'[j]
  <2>1. \A j \in 1 .. made : j \in 1 .. made' /\ j \in DOMAIN told
    BY <1>2
  <2> QED BY <1>8, <1>9, <2>1
<1>14. called' \subseteq Unit \X Name /\ called \subseteq called' /\ Known(d, called')
  BY DEF StoresOne
<1>15. odd' \in BOOLEAN /\ (odd => odd')
  BY <1>1 DEF Reserved
<1>16. DOMAIN told' = 1 .. made'
  BY <1>9
<1> QED BY <1>1, <1>2, <1>4, <1>5, <1>11, <1>12, <1>13, <1>14, <1>15, <1>16, PersistHolds

LEMMA SetUserHolds ==
    ASSUME AccInv, NEW s \in Slots, NEW i \in DOMAIN data.users, NEW user \in User,
           NEW login \in Name \X Password, SetUser(s, i, user, login),
           login = Login(user) \/ ~Plain(login),
           user.name = data.users[i].name \/ ~Taken(user.name, i)
    PROVE  AccInv'
<1> DEFINE d == Data(data.units, data.labels, [data.users EXCEPT ![i] = user])
<1>1. Store(s, d, i, user, login) /\ made' = made /\ called' = called
  BY DEF SetUser
<1>2. /\ d.units = data.units /\ d.labels = data.labels
      /\ d.users = [data.users EXCEPT ![i] = user]
  BY DataFields
<1> HIDE DEF d
<1>3. /\ made \in Id /\ made \in Nat /\ i \in 1 .. made /\ Known(data, called)
      /\ (~odd => Apart(data.users)) /\ called \subseteq Unit \X Name
  BY BoundsAssumption DEF AccInv, TypeOK, UsersOK, Sound, Id
<1>4. ASSUME ~odd, NEW j \in DOMAIN data.users \ {i} PROVE data.users[j].name # user.name
  BY <1>3, <1>4 DEF Apart, Taken
<1>5. d.users[i] = user /\ \A j \in DOMAIN d.users \ {i} : j \in DOMAIN data.users /\ d.users[j] = data.users[j]
  BY <1>2
<1>6. i \in DOMAIN d.users /\ made' \in Id /\ i \in 1 .. made'
  BY <1>1, <1>2, <1>3
<1>7. Known(d, called')
  BY <1>1, <1>2, <1>3 DEF Known
<1>8. StoresOne(d, i, user, login)
  BY <1>1, <1>3, <1>4, <1>5, <1>6, <1>7 DEF StoresOne
<1> QED BY <1>1, <1>8, StoreHolds

LEMMA PushHolds ==
    ASSUME AccInv, NEW s \in Slots, NEW units, NEW labels, NEW user \in User,
           Push(s, units, labels, user), ~Taken(user.name, 0),
           called' \subseteq Unit \X Name, called \subseteq called',
           units \subseteq Unit, labels \in [Unit -> Name],
           \A u \in units : <<u, labels[u]>> \in called'
    PROVE  AccInv'
<1> DEFINE i == made'
           d == Data(units, labels, Put(data.users, i, user))
<1>1. Store(s, d, i, user, Login(user)) /\ made < MaxAccounts /\ i = made + 1
  BY DEF Push
<1>2. /\ d.units = units /\ d.labels = labels
      /\ DOMAIN d.users = DOMAIN data.users \union {i} /\ d.users[i] = user
      /\ \A j \in DOMAIN data.users \ {i} : d.users[j] = data.users[j]
  BY DataFields DEF Put
<1>3. made \in Id /\ made \in Nat /\ DOMAIN data.users \subseteq 1 .. made
  BY BoundsAssumption DEF AccInv, TypeOK, UsersOK, Id
<1> HIDE DEF d
<1>4. i \in Id /\ i \in 1 .. i
  BY <1>1, <1>3, BoundsAssumption DEF Id
<1>5. \A j \in DOMAIN data.users : j # 0
  BY <1>3
<1>6. \A j \in DOMAIN data.users \ {i} : data.users[j].name # user.name
  BY <1>5 DEF Taken
<1>7. Known(d, called')
  BY <1>2 DEF Known
<1>8. Login(user) \in Name \X Password
  BY DEF Login, User
<1>9. StoresOne(d, i, user, Login(user))
  BY <1>1, <1>2, <1>4, <1>6, <1>7, <1>8 DEF StoresOne
<1> QED BY <1>1, <1>9, StoreHolds

\* Nothing but the requests in flight changes.
LEMMA InFlightHolds ==
    ASSUME AccInv, NEW s \in Slots, NEW p, pend' = [pend EXCEPT ![s] = p],
           p = Idle \/ (p.id \in 1 .. made /\ p.user \in User),
           UNCHANGED <<data, saved, made, told, called, odd, failures, restarts>>,
           requests' \in 0 .. MaxRequests
    PROVE  AccInv'
<1>1. DOMAIN pend' = Slots /\ \A t \in Slots : pend'[t] = IF t = s THEN p ELSE pend[t]
  BY DEF AccInv
<1>2. \A t \in Slots : pend'[t] # Idle => pend'[t].id \in 1 .. made /\ pend'[t].user \in User
  BY <1>1 DEF AccInv, TypeOK
<1>3. TypeOK'
  BY <1>2 DEF AccInv, TypeOK, UnitsOK, UsersOK
<1>4. Sound(data)' /\ Sound(saved)'
  BY DEF AccInv, Sound, UsersOK
<1> QED BY <1>1, <1>3, <1>4 DEF AccInv

LEMMA EnterHolds == ASSUME AccInv, NEW s \in Slots, NEW i, Enter(s, i) PROVE AccInv'
<1> DEFINE p == [stage |-> "entered", id |-> i, user |-> data.users[i]]
<1>1. i \in 1 .. made /\ data.users[i] \in User
  BY DEF Enter, AccInv, TypeOK, UsersOK
<1>2. pend' = [pend EXCEPT ![s] = p] /\ p.id = i /\ p.user = data.users[i]
  BY DEF Enter
<1>3. requests' \in 0 .. MaxRequests
  BY BoundsAssumption DEF Enter, AccInv, TypeOK
<1>4. UNCHANGED <<data, saved, made, told, called, odd, failures, restarts>>
  BY DEF Enter
<1> HIDE DEF p
<1> QED BY <1>1, <1>2, <1>3, <1>4, InFlightHolds

LEMMA RefuseHolds == ASSUME AccInv, NEW s \in Slots, Refuse(s) PROVE AccInv'
<1>1. pend' = [pend EXCEPT ![s] = Idle] /\ requests' = requests
      /\ UNCHANGED <<data, saved, made, told, called, odd, failures, restarts>>
  BY DEF Refuse, Finish
<1>2. requests' \in 0 .. MaxRequests
  BY <1>1 DEF AccInv, TypeOK
<1> QED BY <1>1, <1>2, InFlightHolds

\* What requests make of an account.
WithPassword(o, pw) == [o EXCEPT !.pw = pw, !.plain = pw]
WithLogin(o, name, pw) == [o EXCEPT !.name = name, !.pw = pw]

LEMMA WithFacts ==
    ASSUME NEW o \in User, NEW name \in Name, NEW pw \in Password
    PROVE  /\ WithPassword(o, pw) \in User /\ WithPassword(o, pw).name = o.name
           /\ WithPassword(o, pw).pw = pw
           /\ WithLogin(o, name, pw) \in User /\ WithLogin(o, name, pw).name = name
           /\ WithLogin(o, name, pw).pw = pw
<1> DEFINE a == [o EXCEPT !.pw = pw]
           b == [a EXCEPT !.plain = pw]
           c == [o EXCEPT !.name = name]
           d == [c EXCEPT !.pw = pw]
<1>1. WithPassword(o, pw) = b /\ WithLogin(o, name, pw) = d
  BY DEF WithPassword, WithLogin
<1>2. a \in User /\ a.name = o.name /\ a.pw = pw
  BY DEF User
<1>3. c \in User /\ c.name = name
  BY NamedFacts
<1> HIDE DEF a, c
<1>4. b \in User /\ b.name = a.name /\ b.pw = a.pw
  BY <1>2 DEF User
<1>5. d \in User /\ d.name = c.name /\ d.pw = pw
  BY <1>3 DEF User
<1> HIDE DEF b, d
<1> QED BY <1>1, <1>2, <1>3, <1>4, <1>5

\* What is typed and what is stored differ in blanks only.
LEMMA TypedLogin ==
    ASSUME NEW name \in Name, NEW pw \in Password, NEW user,
           user.name = Trim[name], user.pw = Trim[pw] \/ user.pw = pw
    PROVE  /\ Trim[name] \in Name /\ Trim[pw] \in Password
           /\ <<name, pw>> = Login(user) \/ ~Plain(<<name, pw>>)
<1>1. Trim[name] \in Name /\ Trim[pw] \in Password
  BY TrimAssumption
<1>2. ASSUME Plain(<<name, pw>>) PROVE <<name, pw>> = Login(user)
  <2>1. Trim[name] = name /\ Trim[pw] = pw
    BY <1>2 DEF Plain
  <2> QED BY <2>1 DEF Login
<1> QED BY <1>1, <1>2

\* A clone may be stale; what is stored is the account as it is, but for the field.
LEMMA UpdatePasswordHolds ==
    ASSUME AccInv, NEW s \in Slots, NEW typed \in OtherPasswords, UpdatePassword(s, typed)
    PROVE  AccInv'
<1> DEFINE i == pend[s].id
           o == data.users[i]
           pw == Trim[typed]
           v == WithPassword(o, pw)
           login == <<v.name, typed>>
<1>1. i \in DOMAIN data.users /\ SetUser(s, i, v, login)
  BY Zenon DEF UpdatePassword, WithPassword
<1>2. typed \in Password /\ pw \in Password /\ o \in User
  BY <1>1, NamesAreNames, TrimAssumption DEF AccInv, TypeOK, UsersOK
<1>3. o.name \in Name
  BY <1>2 DEF User
<1>4. v \in User /\ v.name = o.name /\ v.pw = pw
  BY <1>2, <1>3, WithFacts
<1> HIDE DEF v, i, o
<1>5. login \in Name \X Password
  BY <1>2, <1>3, <1>4
<1>6. login = Login(v) \/ ~Plain(login)
  <2>1. CASE Trim[typed] = typed
    BY <1>4, <2>1 DEF Login
  <2>2. CASE Trim[typed] # typed
    BY <2>2 DEF Plain
  <2> QED BY <2>1, <2>2
<1> HIDE DEF login, pw
<1>7. v.name = data.users[i].name
  BY <1>4 DEF o
<1> QED BY <1>1, <1>4, <1>5, <1>6, <1>7, SetUserHolds

LEMMA UpdateUsernameHolds ==
    ASSUME AccInv, NEW s \in Slots, NEW typed \in Name, UpdateUsername(s, typed)
    PROVE  AccInv'
<1> DEFINE i == pend[s].id
           name == Trim[typed]
           v == [data.users[i] EXCEPT !.name = name]
           login == <<typed, v.pw>>
<1>1. i \in DOMAIN data.users /\ SetUser(s, i, v, login) /\ ~Taken(name, i)
  BY DEF UpdateUsername
<1>2. data.users[i] \in User /\ name \in Name
  BY <1>1, TrimAssumption DEF AccInv, TypeOK, UsersOK
<1>3. v \in User /\ v.name = name
  BY <1>2, NamedFacts
<1> HIDE DEF v, i
<1>4. v.pw \in Password
  BY <1>3 DEF User
<1>5. login \in Name \X Password
  BY <1>4
<1>6. login = Login(v) \/ ~Plain(login)
  BY <1>3, <1>4, TypedLogin
<1> HIDE DEF login, name
<1> QED BY <1>1, <1>3, <1>5, <1>6, SetUserHolds

LEMMA UpdateTreeCredentialsHolds ==
    ASSUME AccInv, NEW s \in Slots, NEW u \in Unit, NEW name \in Name, NEW pw \in OtherPasswords,
           UpdateTreeCredentials(s, u, name, pw)
    PROVE  AccInv'
<1> DEFINE accounts == {j \in DOMAIN data.users : data.users[j].unit = u}
           i == Least(accounts)
           v == WithLogin(data.users[i], Trim[name], Trim[pw])
           login == <<name, pw>>
<1>1. accounts # {} /\ SetUser(s, i, v, login) /\ ~Taken(Trim[name], i)
  BY Zenon DEF UpdateTreeCredentials, WithLogin
<1>2. accounts \in SUBSET Nat /\ accounts \subseteq DOMAIN data.users
  BY DEF AccInv, TypeOK, UsersOK
<1> HIDE DEF accounts
<1>3. i \in DOMAIN data.users
  BY <1>1, <1>2, LeastFacts
<1>4. pw \in Password /\ Trim[name] \in Name /\ Trim[pw] \in Password /\ data.users[i] \in User
  BY <1>3, NamesAreNames, TrimAssumption DEF AccInv, TypeOK, UsersOK
<1>5. v \in User /\ v.name = Trim[name] /\ v.pw = Trim[pw]
  BY <1>4, WithFacts
<1> HIDE DEF v, i
<1>6. login = Login(v) \/ ~Plain(login)
  BY <1>4, <1>5, TypedLogin
<1>7. login \in Name \X Password
  BY <1>4
<1> HIDE DEF login
<1> QED BY <1>1, <1>3, <1>5, <1>6, <1>7, SetUserHolds

LEMMA CreateUserHolds ==
    ASSUME AccInv, NEW s \in Slots, NEW name \in Name, NEW pw \in OtherPasswords, NEW role \in Role,
           NEW unit \in Unit \union {NoUnit}, CreateUser(s, name, pw, role, unit)
    PROVE  AccInv'
<1> DEFINE v == [name |-> name, pw |-> pw, plain |-> pw, role |-> role, unit |-> unit]
<1>1. Push(s, data.units, data.labels, v) /\ ~Taken(name, 0) /\ called' = called
  BY DEF CreateUser
<1>2. v \in User /\ v.name = name
  BY NamesAreNames DEF User
<1>3. Known(data, called) /\ called \subseteq Unit \X Name
  BY DEF AccInv, TypeOK, Sound
<1> HIDE DEF v
<1>4. /\ called' \subseteq Unit \X Name /\ called \subseteq called'
      /\ data.units \subseteq Unit /\ data.labels \in [Unit -> Name]
      /\ \A u \in data.units : <<u, data.labels[u]>> \in called'
  BY <1>1, <1>3 DEF Known
<1> QED BY <1>1, <1>2, <1>4, PushHolds

\* A unit that is called label from now on.
LEMMA Relabelled ==
    ASSUME AccInv, NEW u \in Unit, NEW label \in Labels, called' = called \union {<<u, label>>}
    PROVE  LET labels == [data.labels EXCEPT ![u] = label]
           IN  /\ called' \subseteq Unit \X Name /\ called \subseteq called'
               /\ labels \in [Unit -> Name]
               /\ \A w \in data.units \union {u} : w \in Unit /\ <<w, labels[w]>> \in called'
<1>1. Known(data, called) /\ called \subseteq Unit \X Name /\ label \in Name
  BY DEF AccInv, TypeOK, Sound, Name
<1> QED BY <1>1 DEF Known

LEMMA CreateTreeNodeHolds ==
    ASSUME AccInv, NEW s \in Slots, NEW u \in Unit, NEW name \in OtherNames, NEW label \in Labels,
           CreateTreeNode(s, u, name, label)
    PROVE  AccInv'
<1> DEFINE v == [name |-> name, pw |-> name, plain |-> name, role |-> "org_manager", unit |-> u]
           units == data.units \union {u}
           labels == [data.labels EXCEPT ![u] = label]
<1>1. Push(s, units, labels, v) /\ ~Taken(name, 0) /\ called' = called \union {<<u, label>>}
  BY DEF CreateTreeNode
<1>2. v \in User /\ v.name = name
  <2>1. name \in Name /\ name \in Password /\ "org_manager" \in Role
    BY NamesAreNames DEF Role
  <2> QED BY <2>1 DEF User
<1>3. /\ called' \subseteq Unit \X Name /\ called \subseteq called'
      /\ labels \in [Unit -> Name]
      /\ \A w \in units : w \in Unit /\ <<w, labels[w]>> \in called'
  BY <1>1, Relabelled
<1> HIDE DEF v, units, labels
<1> QED BY <1>1, <1>2, <1>3, PushHolds

\* The accounts stay when a unit is renamed; what they were told may be void from then on.
LEMMA RenameTreeNodeHolds ==
    ASSUME AccInv, NEW s \in Slots, NEW u \in Unit, NEW label \in Labels, RenameTreeNode(s, u, label)
    PROVE  AccInv'
<1> DEFINE labels == [data.labels EXCEPT ![u] = label]
           d == Data(data.units, labels, data.users)
<1>1. /\ pend' = [pend EXCEPT ![s] = Idle] /\ requests' = requests /\ restarts' = restarts
      /\ Persist(d) /\ called' = called \union {<<u, label>>}
      /\ made' = made /\ told' = told /\ odd' = odd
  BY DEF RenameTreeNode, Finish
<1>2. d.units = data.units /\ d.labels = labels /\ d.users = data.users
  BY DataFields
<1>3. /\ called' \subseteq Unit \X Name /\ called \subseteq called'
      /\ labels \in [Unit -> Name]
      /\ \A w \in data.units \union {u} : w \in Unit /\ <<w, labels[w]>> \in called'
  BY <1>1, Relabelled
<1> HIDE DEF d, labels
<1>4. Known(d, called')
  BY <1>2, <1>3 DEF Known
<1>5. /\ made \in Id /\ made <= made /\ DOMAIN told = 1 .. made /\ odd \in BOOLEAN
      /\ \A j \in 1 .. made : told[j] \subseteq Name \X Password
  BY BoundsAssumption DEF AccInv, TypeOK, Id
<1>6. /\ UsersOK(data.users) /\ Works(data.users, told, called)
      /\ (~odd => Apart(data.users) /\ Steady(data.users))
  BY DEF AccInv, Sound
<1>7. Works(d.users, told, called')
  BY <1>2, <1>3, <1>6, MoreLabels
<1>8. DOMAIN d.users \subseteq 1 .. made /\ \A j \in DOMAIN d.users : d.users[j] \in User
  BY <1>2, <1>6 DEF UsersOK
<1>9. ~odd => Apart(d.users) /\ Steady(d.users)
  BY <1>2, <1>6
<1> QED BY <1>1, <1>3, <1>4, <1>5, <1>7, <1>8, <1>9, PersistHolds

\* The accounts that are left are as they were.
LEMMA DeleteTreeNodeHolds ==
    ASSUME AccInv, NEW s \in Slots, NEW u \in Unit, DeleteTreeNode(s, u)
    PROVE  AccInv'
<1> DEFINE gone == Branch(data.units, u)
           left == {j \in DOMAIN data.users : data.users[j].unit \notin gone}
           d == Data(data.units \ gone, data.labels, [i \in left |-> data.users[i]])
<1>1. /\ pend' = [pend EXCEPT ![s] = Idle] /\ requests' = requests /\ restarts' = restarts
      /\ Persist(d) /\ made' = made /\ told' = told /\ called' = called /\ odd' = odd
  BY DEF DeleteTreeNode, Finish
<1>2. /\ d.units = data.units \ gone /\ d.labels = data.labels
      /\ d.users = [i \in left |-> data.users[i]]
  BY DataFields
<1>3. left \subseteq DOMAIN data.users
  OBVIOUS
<1> HIDE DEF d, left, gone
<1>4. /\ DOMAIN d.users \subseteq DOMAIN data.users
      /\ \A i \in DOMAIN d.users : d.users[i] = data.users[i]
  BY <1>2, <1>3
<1>5. /\ Known(data, called) /\ UsersOK(data.users) /\ Works(data.users, told, called)
      /\ (~odd => Apart(data.users) /\ Steady(data.users))
  BY DEF AccInv, Sound
<1>6. Known(d, called)
  BY <1>2, <1>5 DEF Known
<1>7. Works(d.users, told, called)
  BY <1>4, <1>5 DEF Works
<1>8. DOMAIN d.users \subseteq 1 .. made /\ \A j \in DOMAIN d.users : d.users[j] \in User
  BY <1>4, <1>5 DEF UsersOK
<1>9. ~odd => Apart(d.users) /\ Steady(d.users)
  BY <1>4, <1>5 DEF Apart, Steady
<1>10. /\ made \in Id /\ made <= made /\ DOMAIN told = 1 .. made /\ odd \in BOOLEAN
       /\ \A j \in 1 .. made : told[j] \subseteq Name \X Password /\ called \subseteq Unit \X Name
       /\ called \subseteq Unit \X Name /\ called \subseteq called
  BY BoundsAssumption DEF AccInv, TypeOK, Id
<1> QED BY <1>1, <1>6, <1>7, <1>8, <1>9, <1>10, PersistHolds

LEMMA StepHolds == ASSUME AccInv, [Next]_vars PROVE AccInv'
<1>1. CASE UNCHANGED vars
  <2>1. TypeOK' /\ Sound(data)' /\ Sound(saved)' /\ DOMAIN pend' = Slots
    BY <1>1 DEF vars, AccInv, TypeOK, UnitsOK, UsersOK, Sound
  <2> QED BY <2>1 DEF AccInv
<1>2. CASE Restart
  BY <1>2, RestartHolds
<1>3. ASSUME NEW s \in Slots, Request(s) PROVE AccInv'
  <2>1. ASSUME NEW i \in Id, Enter(s, i) PROVE AccInv'
    BY <2>1, EnterHolds
  <2>2. CASE Refuse(s)
    BY <2>2, RefuseHolds
  <2>3. ASSUME NEW pw \in OtherPasswords, UpdatePassword(s, pw) PROVE AccInv'
    BY <2>3, UpdatePasswordHolds
  <2>4. ASSUME NEW name \in Name, UpdateUsername(s, name) PROVE AccInv'
    BY <2>4, UpdateUsernameHolds
  <2>5. ASSUME NEW u \in Unit, NEW name \in Name, NEW pw \in OtherPasswords,
               UpdateTreeCredentials(s, u, name, pw)
        PROVE  AccInv'
    BY <2>5, UpdateTreeCredentialsHolds
  <2>6. ASSUME NEW name \in Name, NEW pw \in OtherPasswords, NEW role \in Role,
               NEW unit \in Unit \union {NoUnit}, CreateUser(s, name, pw, role, unit)
        PROVE  AccInv'
    BY <2>6, CreateUserHolds
  <2>7. ASSUME NEW u \in Unit, NEW name \in OtherNames, NEW label \in Labels,
               CreateTreeNode(s, u, name, label)
        PROVE  AccInv'
    BY <2>7, CreateTreeNodeHolds
  <2>8. ASSUME NEW u \in Unit, DeleteTreeNode(s, u) PROVE AccInv'
    BY <2>8, DeleteTreeNodeHolds
  <2>9. ASSUME NEW u \in Unit, NEW label \in Labels, RenameTreeNode(s, u, label) PROVE AccInv'
    BY <2>9, RenameTreeNodeHolds
  <2> QED BY <1>3, <2>1, <2>2, <2>3, <2>4, <2>5, <2>6, <2>7, <2>8, <2>9 DEF Request
<1> QED BY <1>1, <1>2, <1>3 DEF Next

-----------------------------------------------------------------------------
(* The first start.                                                          *)

\* The units are numbered from two on, without gaps.
LEMMA NumberedFrom2 ==
    ASSUME NEW N, N = Cardinality(SeedUnits), NEW number \in [SeedUnits -> 2 .. N + 1],
           \A u, v \in SeedUnits : u # v => number[u] # number[v]
    PROVE  N \in Nat /\ \A i \in 2 .. N + 1 : \E u \in SeedUnits : number[u] = i
<1>1. N \in Nat
  BY BoundsAssumption, FS_CardinalityType
<1>2. IsFiniteSet(2 .. N + 1) /\ Cardinality(2 .. N + 1) = N
  <2>1. 2 \in Int /\ N + 1 \in Int
    BY <1>1
  <2>2. IsFiniteSet(2 .. N + 1)
        /\ Cardinality(2 .. N + 1) = IF 2 > N + 1 THEN 0 ELSE (N + 1) - 2 + 1
    BY <2>1, FS_Interval
  <2> QED BY <1>1, <2>2
<1>3. number \in Injection(SeedUnits, 2 .. N + 1)
  BY DEF Injection, IsInjective
<1>4. number \in Surjection(SeedUnits, 2 .. N + 1)
  BY <1>2, <1>3, FS_Injection
<1> QED BY <1>1, <1>4 DEF Surjection

LEMMA InitHolds == Init => AccInv
<1> SUFFICES ASSUME Init PROVE AccInv
  OBVIOUS
<1> DEFINE N == Cardinality(SeedUnits)
           admin == [name |-> Bootstrap, pw |-> BootstrapPassword, plain |-> BootstrapPassword,
                     role |-> "root_admin", unit |-> NoUnit]
           manager(u) == [name |-> Code[u], pw |-> Code[u], plain |-> Code[u],
                          role |-> "org_manager", unit |-> u]
<1>1. PICK number \in [SeedUnits -> 2 .. N + 1] :
         /\ \A u, v \in SeedUnits : u # v => number[u] # number[v]
         /\ LET unitOf(i) == CHOOSE u \in SeedUnits : number[u] = i
                users == [i \in 1 .. N + 1 |-> IF i = 1 THEN admin ELSE manager(unitOf(i))]
            IN /\ data = Data(SeedUnits, [u \in Unit |-> Label[u]], users)
               /\ told = [i \in DOMAIN users |-> {Login(users[i])}]
  BY Zenon DEF Init
<1> DEFINE unitOf(i) == CHOOSE u \in SeedUnits : number[u] = i
           users == [i \in 1 .. N + 1 |-> IF i = 1 THEN admin ELSE manager(unitOf(i))]
<1>2. /\ data.units = SeedUnits /\ data.labels = [u \in Unit |-> Label[u]] /\ data.users = users
      /\ saved = data /\ called = {<<u, Label[u]>> : u \in SeedUnits}
      /\ told = [i \in DOMAIN users |-> {Login(users[i])}] /\ made = N + 1
      /\ pend = [s \in Slots |-> Idle] /\ odd = FALSE /\ requests = 0 /\ failures = 0 /\ restarts = 0
  <2>1. /\ data = Data(SeedUnits, [u \in Unit |-> Label[u]], users) /\ told = [i \in DOMAIN users |-> {Login(users[i])}]
    BY <1>1, Zenon
  <2> HIDE DEF users
  <2>2. data.units = SeedUnits /\ data.labels = [u \in Unit |-> Label[u]] /\ data.users = users
    BY <2>1, DataFields
  <2>3. /\ saved = data /\ made = N + 1 /\ pend = [s \in Slots |-> Idle]
        /\ odd = FALSE /\ requests = 0 /\ failures = 0 /\ restarts = 0
        /\ called = {<<u, Label[u]>> : u \in SeedUnits}
    BY DEF Init
  <2> QED BY <2>1, <2>2, <2>3
<1>3. N \in Nat /\ N < MaxAccounts /\ \A i \in 2 .. N + 1 : \E u \in SeedUnits : number[u] = i
  BY <1>1, NumberedFrom2, BoundsAssumption
<1>4. \A i \in 2 .. N + 1 : unitOf(i) \in SeedUnits /\ number[unitOf(i)] = i
  BY <1>3
<1> HIDE DEF unitOf, N
<1>5. /\ DOMAIN users = 1 .. N + 1 /\ users[1] = admin
      /\ \A i \in 2 .. N + 1 : users[i] = manager(unitOf(i))
  BY <1>3
<1>6. /\ admin \in User /\ admin.name = Bootstrap /\ ~Reserved(admin, admin.name)
  <2>1. admin \in User
    BY NamesAreNames DEF User, Role
  <2> QED BY <2>1, NamesAssumption DEF Reserved
<1>7. ASSUME NEW u \in SeedUnits
      PROVE  manager(u) \in User /\ manager(u).name = Code[u]
             /\ ~Reserved(manager(u), manager(u).name) /\ Code[u] # Bootstrap
  <2>1. u \in Unit /\ Code[u] \in Name /\ Code[u] \in Password
    BY TreeAssumption, NamesAreNames
  <2>2. manager(u) \in User
    BY <2>1 DEF User, Role
  <2>3. Code[u] # Bootstrap
    BY NamesAssumption
  <2> QED BY <2>2, <2>3 DEF Reserved
<1>8. \A u, v \in SeedUnits : u # v => Code[u] # Code[v]
  BY NamesAssumption
<1> HIDE DEF users, admin, manager
<1>9. \A i \in 1 .. N + 1 : i = 1 \/ i \in 2 .. N + 1
  BY <1>3
<1>10. \A i \in 1 .. N + 1 : users[i] \in User /\ ~Reserved(users[i], users[i].name)
  BY <1>4, <1>5, <1>6, <1>7, <1>9
<1>11. Apart(users)
  <2> SUFFICES ASSUME NEW i \in 1 .. N + 1, NEW j \in 1 .. N + 1, i # j
               PROVE  users[i].name # users[j].name
    BY <1>5 DEF Apart
  <2>1. \A k \in 2 .. N + 1 : users[k].name = Code[unitOf(k)] /\ Code[unitOf(k)] # Bootstrap
    BY <1>4, <1>5, <1>7
  <2>2. users[1].name = Bootstrap
    BY <1>5, <1>6
  <2>3. CASE i \in 2 .. N + 1 /\ j \in 2 .. N + 1
    <3>1. unitOf(i) # unitOf(j)
      BY <1>4, <2>3
    <3> QED BY <1>4, <1>8, <2>1, <2>3, <3>1
  <2> QED BY <1>9, <2>1, <2>2, <2>3
<1>12. Steady(users)
  BY <1>5, <1>10 DEF Steady
<1>13. Works(users, told, called) /\ \A i \in 1 .. N + 1 : told[i] \subseteq Name \X Password
  <2>1. \A i \in 1 .. N + 1 : told[i] = {Login(users[i])}
    BY <1>2, <1>5
  <2>2. \A i \in 1 .. N + 1 : Login(users[i]) \in Name \X Password
    BY <1>10 DEF Login, User
  <2> QED BY <1>5, <2>1, <2>2 DEF Works
<1>14. made \in Id /\ made = N + 1
  BY <1>2, <1>3, BoundsAssumption DEF Id
<1>15. Known(data, called) /\ UsersOK(users) /\ called \subseteq Unit \X Name
  <2>1. UsersOK(users)
    BY <1>5, <1>10, <1>14 DEF UsersOK
  <2>2. SeedUnits \subseteq Unit /\ \A u \in Unit : Label[u] \in Name
    BY TreeAssumption DEF Name
  <2> QED BY <1>2, <2>1, <2>2 DEF Known
<1>16. Sound(data) /\ Sound(saved)
  BY <1>2, <1>11, <1>12, <1>13, <1>15 DEF Sound
<1>17. TypeOK
  <2>1. DOMAIN told = 1 .. made
    BY <1>2, <1>5, <1>14
  <2>2. \A s \in Slots : pend[s] = Idle
    BY <1>2
  <2>3. requests \in 0 .. MaxRequests /\ failures \in 0 .. MaxFailures /\ restarts \in 0 .. MaxRestarts
    BY <1>2, BoundsAssumption
  <2>4. UnitsOK(data) /\ UnitsOK(saved)
    BY <1>16 DEF Sound, Known, UnitsOK
  <2> QED BY <1>2, <1>13, <1>14, <1>15, <1>16, <2>1, <2>2, <2>3, <2>4 DEF TypeOK, Sound
<1> QED BY <1>2, <1>16, <1>17 DEF AccInv

LEMMA AccInvHolds == Spec => []AccInv
<1>1. AccInv /\ [Next]_vars => AccInv'
  BY StepHolds
<1> QED BY <1>1, InitHolds, PTL DEF Spec

\* The login that the holder of an account was told last works, in memory and after a start:
\* whatever stale clones, failed saves and restarts came between (web.rs:864, 1067, 9765), for
\* any number of accounts, units and requests, unless it is a name that a start takes.
THEOREM ToldLoginAlwaysWorks == Spec => []ToldLoginWorks
<1>1. AccInv => ToldLoginWorks
  BY WorksMeaning
<1> QED BY <1>1, AccInvHolds, PTL

\* No two accounts ever have one name, in memory or on disk, as long as no request chose a name
\* that a start rewrites: four handlers with a check each (web.rs:976) and two passes of a start.
THEOREM NamesStayDistinct == Spec => []NamesDistinct
<1>1. AccInv => NamesDistinct
  BY WorksMeaning
<1> QED BY <1>1, AccInvHolds, PTL

\* The accounts, what was told of them and the requests in flight keep their types, also over
\* the rewriting of a start.
THEOREM AccountsStayTyped == Spec => []TypeOK
<1>1. AccInv => TypeOK
  BY DEF AccInv
<1> QED BY <1>1, AccInvHolds, PTL
===============================================================================
