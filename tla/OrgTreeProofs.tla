--------------------------- MODULE OrgTreeProofs ---------------------------
(***************************************************************************)
(* Proofs about OrgTree for every seed tree, any number of concurrent      *)
(* requests, and every bound.                                              *)
(***************************************************************************)
EXTENDS OrgTreeProps, FiniteSetTheorems, TLAPS

----------------------------------------------------------------------------
(* Partial functions and the AppData record. *)

LEMMA PutFacts ==
    ASSUME NEW f, NEW x, NEW v
    PROVE  /\ DOMAIN Put(f, x, v) = DOMAIN f \union {x}
           /\ Put(f, x, v)[x] = v
           /\ \A y \in DOMAIN f : y # x => Put(f, x, v)[y] = f[y]
BY DEF Put

LEMMA WithoutFacts ==
    ASSUME NEW f, NEW S
    PROVE  /\ DOMAIN Without(f, S) = DOMAIN f \ S
           /\ \A y \in DOMAIN f \ S : Without(f, S)[y] = f[y]
BY DEF Without

\* Both keep a function that maps a subset of D into T such a function.
LEMMA PutTyped ==
    ASSUME NEW f, NEW x, NEW v, NEW D, NEW T, DOMAIN f \subseteq D, x \in D, v \in T,
           \A y \in DOMAIN f : f[y] \in T
    PROVE  /\ DOMAIN Put(f, x, v) \subseteq D
           /\ \A y \in DOMAIN Put(f, x, v) : Put(f, x, v)[y] \in T
BY DEF Put

LEMMA WithoutTyped ==
    ASSUME NEW f, NEW S, NEW D, NEW T, DOMAIN f \subseteq D,
           \A y \in DOMAIN f : f[y] \in T
    PROVE  /\ DOMAIN Without(f, S) \subseteq D
           /\ \A y \in DOMAIN Without(f, S) : Without(f, S)[y] \in T
BY DEF Without

LEMMA AppDataFields ==
    ASSUME NEW a, NEW b, NEW c, NEW d
    PROVE  /\ AppData(a, b, c, d).units = a /\ AppData(a, b, c, d).users = b
           /\ AppData(a, b, c, d).items = c /\ AppData(a, b, c, d).reviewed = d
BY DEF AppData

LEMMA AtFields ==
    ASSUME NEW stage, NEW user, NEW unit
    PROVE  /\ At(stage, user, unit).stage = stage
           /\ At(stage, user, unit).user = user
           /\ At(stage, user, unit).unit = unit
BY DEF At

LEMMA FreeFields == Free.stage = "free" /\ Free \in Pending
BY DEF Free, Pending, User, Role

----------------------------------------------------------------------------
(* The branch of a unit. *)

LEMMA RootIsIn ==
    ASSUME NEW U, NEW r
    PROVE  r \in Descendants(U, r)
BY DEF Descendants

LEMMA BranchBound ==
    ASSUME NEW U, NEW r
    PROVE  Descendants(U, r) \subseteq DOMAIN U \union {r}
BY DEF Descendants

\* A branch holds the children of its units.
LEMMA BranchClosed ==
    ASSUME NEW U, NEW r
    PROVE  Closed(U, Descendants(U, r))
<1> SUFFICES ASSUME NEW u \in DOMAIN U, U[u].parent \in Descendants(U, r)
             PROVE  u \in Descendants(U, r)
  BY DEF Closed
<1> SUFFICES ASSUME NEW S \in SUBSET (DOMAIN U \union {r}), r \in S, Closed(U, S)
             PROVE  u \in S
  BY DEF Descendants
<1>1. U[u].parent \in S
  BY DEF Descendants
<1>2. QED
  BY <1>1 DEF Closed

\* Any closed set that holds the root holds the branch.
LEMMA BranchLeast ==
    ASSUME NEW U, NEW r, NEW S, r \in S, Closed(U, S)
    PROVE  Descendants(U, r) \subseteq S
<1> SUFFICES ASSUME NEW x \in Descendants(U, r) PROVE x \in S
  OBVIOUS
<1> DEFINE T == S \intersect (DOMAIN U \union {r})
<1>1. T \in SUBSET (DOMAIN U \union {r}) /\ r \in T /\ Closed(U, T)
  BY DEF Closed
<1> HIDE DEF T
<1>2. x \in T
  BY <1>1 DEF Descendants
<1>3. QED
  BY <1>2 DEF T

\* The branch of a unit of a branch lies in it.
LEMMA BranchTransitive ==
    ASSUME NEW U, NEW r, NEW v \in Descendants(U, r)
    PROVE  Descendants(U, v) \subseteq Descendants(U, r)
BY BranchClosed, BranchLeast

\* New units only add to a branch.
LEMMA BranchGrows ==
    ASSUME NEW U, NEW V, NEW r, DOMAIN U \subseteq DOMAIN V,
           \A u \in DOMAIN U : V[u].parent = U[u].parent
    PROVE  Descendants(U, r) \subseteq Descendants(V, r)
<1>1. Closed(V, Descendants(V, r)) /\ r \in Descendants(V, r)
  BY BranchClosed, RootIsIn
<1>2. Closed(U, Descendants(V, r))
  BY <1>1 DEF Closed
<1>3. QED
  BY <1>1, <1>2, BranchLeast

\* Taking a whole branch away leaves every other unit in the branches it was in.
LEMMA BranchSurvives ==
    ASSUME NEW U, NEW r, NEW g, NEW x \in Descendants(U, r),
           x \notin Descendants(U, g)
    PROVE  x \in Descendants(Without(U, Descendants(U, g)), r)
<1> DEFINE G == Descendants(U, g)
           V == Without(U, G)
           S == Descendants(V, r) \union G
<1>1. DOMAIN V = DOMAIN U \ G /\ \A y \in DOMAIN U \ G : V[y] = U[y]
  BY WithoutFacts
<1>2. Closed(U, G) /\ Closed(V, Descendants(V, r)) /\ r \in Descendants(V, r)
  BY BranchClosed, RootIsIn
<1> HIDE DEF G, V
<1>3. Closed(U, S)
  BY <1>1, <1>2 DEF Closed
<1>4. x \in S
  <2>1. r \in S
    BY <1>2
  <2> HIDE DEF S
  <2>2. QED
    BY <1>3, <2>1, BranchLeast
<1>5. QED
  BY <1>4 DEF G, V

\* A unit without children is below nothing but itself.
LEMMA LeafBranch ==
    ASSUME NEW U, NEW r, CanUpload(r, U)
    PROVE  Descendants(U, r) \subseteq {r}
<1>1. Closed(U, {r})
  BY DEF Closed, CanUpload
<1>2. QED
  BY <1>1, BranchLeast

\* upload_document lets a superior unit through, but only one without children,
\* which no superior is: what is left is one's own branch.
LEMMA UploadRight ==
    ASSUME NEW user \in User, NEW u, NEW U,
           ProfileAccess(user, u, U) # "none", CanUpload(u, U),
           user.role = "org_manager"
    PROVE  u \in VisibleOrgs(user, U)
<1>1. CASE CanManage(user, u, U)
  BY <1>1 DEF CanManage
<1>2. CASE ~CanManage(user, u, U)
  <2>1. u \in Ancestors(U, user.org)
    BY <1>2 DEF ProfileAccess
  <2>2. user.org # u /\ user.org \in Descendants(U, u)
    BY <2>1 DEF Ancestors
  <2>3. QED
    BY <2>2, LeafBranch
<1>3. QED
  BY <1>1, <1>2

----------------------------------------------------------------------------
(* Types. *)

LEMMA Bounds ==
    /\ MaxUnits \in Nat /\ Admin \in UserId
    /\ \A u \in Unit : u \in UserId
    /\ \A e \in 0 .. MaxExtraUsers : MaxUnits + e \in UserId
BY BoundsAssumption DEF Unit, UserId, Admin

LEMMA GrownOK ==
    ASSUME NEW n \in Nat, NEW d, DataOK(d, n)
    PROVE  DataOK(d, n + 1)
BY DEF DataOK

LEMMA StartupOK ==
    ASSUME NEW n \in Unit, NEW d, DataOK(d, n)
    PROVE  DataOK(Startup(d), n)
<1> DEFINE gone == Dropped(d)
           units == Without(d.units, gone)
           users == Without(d.users, {i \in DOMAIN d.users : d.users[i].org \in gone})
           kept == {x \in d.items : x[1] = "document" \/ x[2] \notin gone}
           demo == {u \in DOMAIN units : units[u].sample}
           items == kept \union ({"document"} \X demo)
<1>1. DOMAIN units \subseteq 1 .. n /\ \A u \in DOMAIN units : units[u] \in Node
  <2> HIDE DEF gone
  <2>1. QED
    BY WithoutTyped DEF DataOK
<1>2. DOMAIN users \subseteq UserId /\ \A i \in DOMAIN users : users[i] \in User
  <2> DEFINE lost == {i \in DOMAIN d.users : d.users[i].org \in gone}
  <2> HIDE DEF lost
  <2>1. DOMAIN Without(d.users, lost) \subseteq UserId
        /\ \A i \in DOMAIN Without(d.users, lost) : Without(d.users, lost)[i] \in User
    BY WithoutTyped DEF DataOK
  <2>2. QED
    BY <2>1 DEF lost
<1>3. items \subseteq Item
  <2>1. demo \subseteq Unit
    BY <1>1, BoundsAssumption DEF Unit
  <2>2. kept \subseteq Item
    BY DEF DataOK
  <2> HIDE DEF demo, kept
  <2>3. QED
    BY <2>1, <2>2 DEF Item, Kind
<1>4. d.reviewed \ gone \subseteq Unit
  BY DEF DataOK
<1>5. Startup(d) = AppData(units, users, items, d.reviewed \ gone)
  BY DEF Startup
<1> HIDE DEF units, users, items, gone
<1>6. QED
  BY <1>1, <1>2, <1>3, <1>4, <1>5, AppDataFields DEF DataOK

LEMMA SeedOK ==
    /\ Cardinality(DOMAIN SeedUnits) \in Unit
    /\ DataOK(SeedData, Cardinality(DOMAIN SeedUnits))
<1>1. PICK n \in Unit : SeedUnits \in [1 .. n -> Node]
  BY SeedAssumption
<1>2. DOMAIN SeedUnits = 1 .. n /\ Cardinality(1 .. n) = n
  <2>1. 1 \in Int /\ n \in Int /\ n - 1 + 1 = n /\ n >= 1
    BY <1>1, BoundsAssumption DEF Unit
  <2>2. Cardinality(1 .. n) = n
    BY <2>1, FS_Interval
  <2>3. QED
    BY <1>1, <2>2
<1> DEFINE accounts == {Admin} \union DOMAIN SeedUnits
           users == [i \in accounts |->
                        IF i = Admin THEN [role |-> "root_admin", org |-> NoUnit]
                                     ELSE [role |-> "org_manager", org |-> i]]
           items == {"member", "activity"} \X DOMAIN SeedUnits
<1>3. DOMAIN SeedUnits \subseteq Unit
  BY <1>1, <1>2, BoundsAssumption DEF Unit
<1>4. DOMAIN users \subseteq UserId /\ \A i \in DOMAIN users : users[i] \in User
  BY <1>3, Bounds DEF User, Role, NoUnit
<1>5. items \subseteq Item
  <2>1. {"member", "activity"} \subseteq Kind
    BY DEF Kind
  <2>2. SUFFICES ASSUME NEW kind \in {"member", "activity"}, NEW u \in DOMAIN SeedUnits
                 PROVE  <<kind, u>> \in Item
    OBVIOUS
  <2>3. QED
    BY <1>3, <2>1 DEF Item
<1>6. SeedData = AppData(SeedUnits, users, items, {})
  BY DEF SeedData
<1>7. \A u \in DOMAIN SeedUnits : SeedUnits[u] \in Node
  BY <1>1
<1> HIDE DEF users, items
<1>8. DataOK(SeedData, n)
  <2>1. /\ SeedData.units = SeedUnits /\ SeedData.users = users
        /\ SeedData.items = items /\ SeedData.reviewed = {}
    BY <1>6, AppDataFields
  <2>2. QED
    BY <1>2, <1>4, <1>5, <1>7, <2>1 DEF DataOK
<1>9. QED
  BY <1>1, <1>2, <1>8

\* What a finished request leaves, saved or not.
LEMMA FinishTyped ==
    ASSUME TypeOK, NEW s \in Slots, NEW d, Saves(s, d) \/ SaveFails(s, d),
           DataOK(d, born'), DataOK(saved, born'), born' \in Unit,
           extra' \in 0 .. MaxExtraUsers,
           receipts' \subseteq (1 .. born') \X Nat, deleted' \subseteq 1 .. born'
    PROVE  TypeOK'
<1>1. pend' \in [Slots -> Pending]
  BY FreeFields DEF TypeOK, Saves, SaveFails, Finish
<1>2. failures' \in 0 .. MaxFailures
  BY BoundsAssumption DEF TypeOK, Saves, SaveFails
<1>3. DataOK(data', born') /\ DataOK(saved', born')
  BY DEF Saves, SaveFails
<1>4. QED
  BY <1>1, <1>2, <1>3 DEF TypeOK, Saves, SaveFails, DataOK

LEMMA EditTyped ==
    ASSUME TypeOK, NEW s \in Slots, NEW d, Edit(s, d), DataOK(d, born),
           extra' \in 0 .. MaxExtraUsers
    PROVE  TypeOK'
BY FinishTyped DEF TypeOK, Edit

\* A step that only moves its request.
LEMMA MovedTyped ==
    ASSUME TypeOK, NEW s \in Slots, NEW p \in Pending, pend' = [pend EXCEPT ![s] = p],
           requests' \in 0 .. MaxRequests,
           UNCHANGED <<data, saved, born, extra, receipts, deleted, failures, restarts>>
    PROVE  TypeOK'
BY DEF TypeOK, DataOK

LEMMA NewUnitTyped ==
    ASSUME TypeOK, NEW s \in Slots, NEW node \in Node, NEW role \in Role,
           NewUnit(s, node, role)
    PROVE  TypeOK'
<1> DEFINE u == born + 1
           units == Put(data.units, u, node)
           users == Put(data.users, u, [role |-> role, org |-> u])
           whole == AppData(units, users, data.items, data.reviewed)
           bare == AppData(units, data.users, data.items, data.reviewed)
<1>1. /\ u \in Unit /\ u \in UserId /\ born' = u /\ born \in Nat
      /\ DataOK(data, born) /\ DataOK(saved, born) /\ DataOK(data, u) /\ DataOK(saved, u)
  BY Bounds, BoundsAssumption, GrownOK DEF NewUnit, TypeOK, Unit
<1>2. DOMAIN units \subseteq 1 .. u /\ \A v \in DOMAIN units : units[v] \in Node
  <2>1. u \in 1 .. u /\ DOMAIN data.units \subseteq 1 .. u
    BY <1>1 DEF DataOK, Unit
  <2> HIDE DEF u
  <2>2. QED
    BY <1>1, <2>1, PutTyped DEF DataOK
<1>3. DOMAIN users \subseteq UserId /\ \A i \in DOMAIN users : users[i] \in User
  <2>1. [role |-> role, org |-> u] \in User
    BY <1>1 DEF User
  <2> HIDE DEF u
  <2>2. QED
    BY <1>1, <2>1, PutTyped DEF DataOK
<1>4. DataOK(whole, born') /\ DataOK(bare, born')
  <2> HIDE DEF units, users, u
  <2>1. QED
    BY <1>1, <1>2, <1>3, AppDataFields DEF DataOK
<1>5. receipts' \subseteq (1 .. born') \X Nat /\ deleted' \subseteq 1 .. born'
  <2>1. node.tier \in Nat /\ u \in 1 .. born' /\ 1 .. born \subseteq 1 .. born'
    BY <1>1 DEF Node, Unit
  <2>2. receipts' \subseteq receipts \union {<<u, node.tier>>} /\ deleted' = deleted
    BY DEF NewUnit
  <2> HIDE DEF u
  <2>3. QED
    BY <2>1, <2>2 DEF TypeOK
<1>6. \/ Saves(s, whole) \/ SaveFails(s, whole) \/ Saves(s, bare) \/ SaveFails(s, bare)
  BY DEF NewUnit
<1>7. extra' \in 0 .. MaxExtraUsers
  BY DEF NewUnit, TypeOK
<1> HIDE DEF whole, bare, u
<1>8. QED
  BY <1>1, <1>4, <1>5, <1>6, <1>7, FinishTyped

\* Replacing one part of AppData by a part of the same kind.
LEMMA PartsOK ==
    ASSUME NEW n, NEW d, DataOK(d, n)
    PROVE  /\ \A items : items \subseteq Item =>
                DataOK(AppData(d.units, d.users, items, d.reviewed), n)
           /\ \A reviewed : reviewed \subseteq Unit =>
                DataOK(AppData(d.units, d.users, d.items, reviewed), n)
           /\ \A i \in UserId, user \in User :
                DataOK(AppData(d.units, Put(d.users, i, user), d.items, d.reviewed), n)
           /\ \A u \in 1 .. n, node \in Node :
                DataOK(AppData(Put(d.units, u, node), d.users, d.items, d.reviewed), n)
<1>1. ASSUME NEW items, items \subseteq Item
      PROVE  DataOK(AppData(d.units, d.users, items, d.reviewed), n)
  BY <1>1, AppDataFields DEF DataOK
<1>2. ASSUME NEW reviewed, reviewed \subseteq Unit
      PROVE  DataOK(AppData(d.units, d.users, d.items, reviewed), n)
  BY <1>2, AppDataFields DEF DataOK
<1>3. ASSUME NEW i \in UserId, NEW user \in User
      PROVE  DataOK(AppData(d.units, Put(d.users, i, user), d.items, d.reviewed), n)
  <2> DEFINE users == Put(d.users, i, user)
  <2>1. DOMAIN users \subseteq UserId /\ \A j \in DOMAIN users : users[j] \in User
    BY PutTyped DEF DataOK
  <2> HIDE DEF users
  <2>2. DataOK(AppData(d.units, users, d.items, d.reviewed), n)
    BY <2>1, AppDataFields DEF DataOK
  <2>3. QED
    BY <2>2 DEF users
<1>4. ASSUME NEW u \in 1 .. n, NEW node \in Node
      PROVE  DataOK(AppData(Put(d.units, u, node), d.users, d.items, d.reviewed), n)
  <2> DEFINE units == Put(d.units, u, node)
  <2>1. DOMAIN units \subseteq 1 .. n /\ \A v \in DOMAIN units : units[v] \in Node
    BY PutTyped DEF DataOK
  <2> HIDE DEF units
  <2>2. DataOK(AppData(units, d.users, d.items, d.reviewed), n)
    BY <2>1, AppDataFields DEF DataOK
  <2>3. QED
    BY <2>2 DEF units
<1>5. QED
  BY <1>1, <1>2, <1>3, <1>4

\* What delete_tree_node leaves.
Pruned(d, gone) ==
    AppData(Without(d.units, gone),
            Without(d.users, {i \in DOMAIN d.users : d.users[i].org \in gone}),
            {x \in d.items : x[2] \notin gone},
            d.reviewed \ gone)

LEMMA PrunedOK ==
    ASSUME NEW n, NEW d, NEW gone, DataOK(d, n)
    PROVE  DataOK(Pruned(d, gone), n)
<1> DEFINE units == Without(d.units, gone)
           lost == {i \in DOMAIN d.users : d.users[i].org \in gone}
           users == Without(d.users, lost)
           items == {x \in d.items : x[2] \notin gone}
<1>1. DOMAIN units \subseteq 1 .. n /\ \A u \in DOMAIN units : units[u] \in Node
  BY WithoutTyped DEF DataOK
<1>2. DOMAIN users \subseteq UserId /\ \A i \in DOMAIN users : users[i] \in User
  <2> HIDE DEF lost
  <2>1. QED
    BY WithoutTyped DEF DataOK
<1>3. items \subseteq Item /\ d.reviewed \ gone \subseteq Unit
  BY DEF DataOK
<1>4. Pruned(d, gone) = AppData(units, users, items, d.reviewed \ gone)
  BY DEF Pruned
<1> HIDE DEF units, users, items
<1>5. QED
  BY <1>1, <1>2, <1>3, <1>4, AppDataFields DEF DataOK

LEMMA RequestTyped ==
    ASSUME TypeOK, NEW s \in Slots, Request(s)
    PROVE  TypeOK'
<1>0. DataOK(data, born) /\ DataOK(saved, born) /\ born \in Unit /\ born \in Nat
      /\ pend[s] \in Pending /\ pend \in [Slots -> Pending]
      /\ \A u \in 1 .. born : u \in Unit
  BY BoundsAssumption DEF TypeOK, Unit
<1>1. CASE \E i \in UserId : Enter(s, i)
  <2>1. PICK i \in UserId : Enter(s, i)
    BY <1>1
  <2>2. At("entered", data.users[i], NoUnit) \in Pending
    BY <1>0, <2>1 DEF Enter, DataOK, At, Pending
  <2>3. requests' \in 0 .. MaxRequests
    BY <2>1, BoundsAssumption DEF Enter, TypeOK
  <2>4. QED
    BY <2>1, <2>2, <2>3, MovedTyped DEF Enter
<1>2. CASE Refuse(s)
  BY <1>2, FreeFields, MovedTyped DEF Refuse, Finish, TypeOK
<1>3. CASE \E tier \in Tiers, role \in Role : CreateRootOrg(s, tier, role)
  <2>1. PICK tier \in Tiers, role \in Role : CreateRootOrg(s, tier, role)
    BY <1>3
  <2>2. [parent |-> NoUnit, tier |-> tier, sample |-> FALSE] \in Node
    BY BoundsAssumption DEF Node
  <2>3. QED
    BY <2>1, <2>2, NewUnitTyped DEF CreateRootOrg
<1>4. CASE \E u \in 1 .. born, tier \in Tiers, role \in Role : CreateChildOrg(s, u, tier, role)
  <2>1. PICK u \in 1 .. born, tier \in Tiers, role \in Role : CreateChildOrg(s, u, tier, role)
    BY <1>4
  <2>2. [parent |-> u, tier |-> tier, sample |-> FALSE] \in Node
    BY <1>0, BoundsAssumption DEF Node
  <2>3. QED
    BY <2>1, <2>2, NewUnitTyped DEF CreateChildOrg
<1>5. ASSUME NEW u \in 1 .. born, CreateTreeNode(s, u) PROVE TypeOK'
  <2>1. [parent |-> u, tier |-> data.units[u].tier + 1, sample |-> FALSE] \in Node
    BY <1>0, <1>5 DEF CreateTreeNode, DataOK, Node
  <2>2. "org_manager" \in Role
    BY DEF Role
  <2>3. QED
    BY <1>5, <2>1, <2>2, NewUnitTyped DEF CreateTreeNode
<1>6. ASSUME NEW u \in 1 .. born, NEW sample \in BOOLEAN, RenameTreeNode(s, u, sample)
      PROVE  TypeOK'
  <2>1. [data.units[u] EXCEPT !.sample = sample] \in Node
    BY <1>0, <1>6 DEF RenameTreeNode, DataOK, Node
  <2> DEFINE node == [data.units[u] EXCEPT !.sample = sample]
             d == AppData(Put(data.units, u, node), data.users, data.items, data.reviewed)
  <2>2. DataOK(d, born)
    <3> HIDE DEF node
    <3>1. node \in Node
      BY <2>1 DEF node
    <3>2. QED
      BY <1>0, <3>1, PartsOK
  <2>3. Edit(s, d) /\ extra' = extra
    BY <1>6 DEF RenameTreeNode
  <2> HIDE DEF d
  <2>4. QED
    BY <2>2, <2>3, EditTyped DEF TypeOK
<1>7. ASSUME NEW u \in 1 .. born, DeleteTreeNode(s, u) PROVE TypeOK'
  <2> DEFINE d == Pruned(data, Descendants(data.units, u))
  <2>1. DataOK(d, born)
    BY <1>0, PrunedOK
  <2>2. Saves(s, d) \/ SaveFails(s, d)
    BY <1>7 DEF DeleteTreeNode, Pruned
  <2>3. born' = born /\ extra' = extra
    BY <1>7 DEF DeleteTreeNode
  <2>4. receipts' \subseteq receipts
    BY <1>7 DEF DeleteTreeNode
  <2>5. deleted' \subseteq 1 .. born
    <3>1. Descendants(data.units, u) \subseteq 1 .. born
      BY <1>0, BranchBound DEF DataOK
    <3>2. deleted' \subseteq deleted \union Descendants(data.units, u)
      BY <1>7 DEF DeleteTreeNode
    <3>3. QED
      BY <3>1, <3>2 DEF TypeOK
  <2> HIDE DEF d
  <2>6. QED
    BY <1>0, <2>1, <2>2, <2>3, <2>4, <2>5, FinishTyped DEF TypeOK
<1>8. ASSUME NEW u \in 1 .. born, NEW kind \in Kind, AddItem(s, kind, u) PROVE TypeOK'
  <2>1. data.items \union {<<kind, u>>} \subseteq Item
    BY <1>0 DEF DataOK, Item
  <2>2. QED
    BY <1>0, <1>8, <2>1, PartsOK, EditTyped DEF AddItem, TypeOK
<1>9. ASSUME NEW u \in 1 .. born, ReviewActivity(s, u) PROVE TypeOK'
  <2>1. data.reviewed \union {u} \subseteq Unit
    BY <1>0 DEF DataOK
  <2>2. QED
    BY <1>0, <1>9, <2>1, PartsOK, EditTyped DEF ReviewActivity, TypeOK
<1>10. ASSUME NEW u \in 1 .. born, CheckMember(s, u) \/ CheckUpload(s, u) PROVE TypeOK'
  <2>1. PICK stage \in {"member", "upload"} :
             /\ pend' = [pend EXCEPT ![s] = At(stage, pend[s].user, u)]
             /\ UNCHANGED <<data, saved, born, extra, receipts, deleted,
                            requests, failures, restarts>>
    BY <1>10 DEF CheckMember, CheckUpload
  <2>2. At(stage, pend[s].user, u) \in Pending
    BY <1>0 DEF At, Pending
  <2>3. QED
    BY <2>1, <2>2, MovedTyped DEF TypeOK
<1>11. CASE \E role \in Role, org \in 0 .. born : CreateUser(s, role, org)
  <2>1. PICK role \in Role, org \in 0 .. born : CreateUser(s, role, org)
    BY <1>11
  <2>2. extra' \in 0 .. MaxExtraUsers /\ MaxUnits + extra' \in UserId
    BY <2>1, Bounds, BoundsAssumption DEF CreateUser, TypeOK
  <2>3. [role |-> role, org |-> org] \in User
    BY <1>0, BoundsAssumption DEF User, NoUnit, Unit
  <2> DEFINE i == MaxUnits + extra'
             user == [role |-> role, org |-> org]
             d == AppData(data.units, Put(data.users, i, user), data.items, data.reviewed)
  <2>4. Edit(s, d)
    BY <2>1 DEF CreateUser
  <2>5. DataOK(d, born)
    <3> HIDE DEF i, user
    <3>1. i \in UserId /\ user \in User
      BY <2>2, <2>3 DEF i, user
    <3>2. QED
      BY <1>0, <3>1, PartsOK
  <2> HIDE DEF d
  <2>6. QED
    BY <2>2, <2>4, <2>5, EditTyped
<1>12. CASE UpdateMember(s)
  BY <1>0, <1>12, EditTyped DEF UpdateMember, TypeOK
<1>13. CASE StoreUpload(s)
  <2>1. pend[s].unit \in Unit
    BY <1>0, <1>13 DEF Pending, StoreUpload
  <2>2. data.items \union {<<"document", pend[s].unit>>} \subseteq Item
    BY <1>0, <2>1 DEF DataOK, Item, Kind
  <2>3. QED
    BY <1>0, <1>13, <2>2, PartsOK, EditTyped DEF StoreUpload, TypeOK
<1>14. QED
  BY <1>1, <1>2, <1>3, <1>4, <1>5, <1>6, <1>7, <1>8, <1>9, <1>10, <1>11, <1>12, <1>13
     DEF Request

\* Type correctness: every unit, account, item and request stays within the model's
\* sets, whatever requests, failing saves and restarts come.
THEOREM TypesStay == Spec => []TypeOK
<1>1. Init => TypeOK
  <2> SUFFICES ASSUME Init PROVE TypeOK
    OBVIOUS
  <2> DEFINE n == Cardinality(DOMAIN SeedUnits)
  <2>1. born = n /\ n \in Unit /\ DataOK(data, n) /\ DataOK(saved, n)
    BY SeedOK, StartupOK DEF Init
  <2>2. pend \in [Slots -> Pending]
    BY FreeFields DEF Init
  <2> HIDE DEF n
  <2>3. receipts \subseteq (1 .. born) \X Nat
    BY <2>1 DEF Init, DataOK, Node
  <2>4. extra \in 0 .. MaxExtraUsers /\ requests \in 0 .. MaxRequests
        /\ failures \in 0 .. MaxFailures /\ restarts \in 0 .. MaxRestarts /\ deleted = {}
    BY BoundsAssumption DEF Init
  <2>5. QED
    BY <2>1, <2>2, <2>3, <2>4 DEF TypeOK
<1>2. TypeOK /\ [Next]_vars => TypeOK'
  <2> SUFFICES ASSUME TypeOK, [Next]_vars PROVE TypeOK'
    OBVIOUS
  <2>1. CASE Restart
    <3>1. DataOK(Startup(saved), born)
      BY StartupOK DEF TypeOK
    <3>2. pend' \in [Slots -> Pending]
      BY <2>1, FreeFields DEF Restart
    <3>3. restarts' \in 0 .. MaxRestarts
      BY <2>1, BoundsAssumption DEF Restart, TypeOK
    <3>4. data' = Startup(saved) /\ saved' = data' /\ born' = born /\ extra' = extra
          /\ receipts' = receipts /\ deleted' = deleted
          /\ requests' = requests /\ failures' = failures
      BY <2>1 DEF Restart
    <3>5. DataOK(data', born') /\ DataOK(saved', born')
      BY <3>1, <3>4
    <3>6. QED
      BY <3>2, <3>3, <3>4, <3>5 DEF TypeOK, DataOK
  <2>2. CASE \E s \in Slots : Request(s)
    BY <2>2, RequestTyped
  <2>3. CASE UNCHANGED vars
    BY <2>3 DEF vars, TypeOK, DataOK
  <2>4. QED
    BY <2>1, <2>2, <2>3 DEF Next
<1>3. QED
  BY <1>1, <1>2, PTL DEF Spec

----------------------------------------------------------------------------
(* The tree invariant. *)

\* The same units, at the same places.
SameTree(U, V) ==
    /\ DOMAIN V = DOMAIN U
    /\ \A u \in DOMAIN U : V[u].parent = U[u].parent /\ V[u].tier = U[u].tier

LEMMA VisibleGrows ==
    ASSUME NEW U, NEW V, NEW user, user.role # "root_admin", DOMAIN U \subseteq DOMAIN V,
           \A u \in DOMAIN U : V[u].parent = U[u].parent
    PROVE  VisibleOrgs(user, U) \subseteq VisibleOrgs(user, V)
BY BranchGrows DEF VisibleOrgs

\* No branch but the root's own holds the root.
LEMMA RootOutside ==
    ASSUME NEW d, RootInPlace(d), NEW u \in Unit, u # 1,
           \A v \in DOMAIN d.units : v # NoUnit
    PROVE  1 \notin Descendants(d.units, u)
<1> DEFINE S == (DOMAIN d.units \union {u}) \ {1}
<1>1. u \in S /\ NoUnit \notin S
  BY DEF Unit, NoUnit
<1>2. Closed(d.units, S)
  BY <1>1 DEF Closed, RootInPlace
<1>3. 1 \notin S
  OBVIOUS
<1> HIDE DEF S
<1>4. QED
  BY <1>1, <1>2, <1>3, BranchLeast

LEMMA SameTreeKeeps ==
    ASSUME NEW d, NEW e, SameTree(d.units, e.units), RootInPlace(d), ReceiptsKept(d)
    PROVE  RootInPlace(e) /\ ReceiptsKept(e)
BY DEF SameTree, RootInPlace, ReceiptsKept

\* The branch of an upload under way, when another request changes the units.
LEMMA UploadsKept ==
    ASSUME UploadsInBranch, NEW s \in Slots, Finish(s), pend \in [Slots -> Pending],
           NEW V, data'.units = V, born \in Nat, born' \in Nat, born <= born',
           \A t \in Slots : pend[t].stage = "upload" /\ pend[t].user.role # "root_admin" =>
               \/ /\ pend[t].unit \in VisibleOrgs(pend[t].user, data.units)
                  /\ pend[t].unit \in VisibleOrgs(pend[t].user, V) \/ pend[t].unit \notin DOMAIN V
               \/ /\ pend[t].unit \notin DOMAIN data.units
                  /\ pend[t].unit \notin DOMAIN V
    PROVE  UploadsInBranch'
<1> SUFFICES ASSUME NEW t \in Slots, pend'[t].stage = "upload"
             PROVE  /\ pend'[t].unit \in 1 .. born'
                    /\ \/ pend'[t].user.role = "root_admin"
                       \/ pend'[t].unit \in VisibleOrgs(pend'[t].user, V)
                       \/ pend'[t].unit \notin DOMAIN V
  BY DEF UploadsInBranch
<1>1. t # s
  BY FreeFields DEF Finish
<1>2. pend'[t] = pend[t]
  BY <1>1 DEF Finish
<1>3. pend[t].unit \in 1 .. born'
  BY <1>2 DEF UploadsInBranch
<1>4. QED
  BY <1>2, <1>3

LEMMA EditKeeps ==
    ASSUME TypeOK, TreeInv, NEW s \in Slots, NEW d, Edit(s, d), SameTree(data.units, d.units)
    PROVE  TreeInv'
<1>1. Finish(s) /\ data' = d /\ (saved' = d \/ saved' = saved)
      /\ born' = born /\ receipts' = receipts
  BY DEF Edit, Saves, SaveFails
<1>2. RootInPlace(d) /\ ReceiptsKept(d)
  BY SameTreeKeeps DEF TreeInv
<1>3. RootInPlace(data)' /\ RootInPlace(saved)' /\ ReceiptsKept(data)' /\ ReceiptsKept(saved)'
  BY <1>1, <1>2 DEF TreeInv, RootInPlace, ReceiptsKept
<1>4. UploadsInBranch'
  <2>1. pend \in [Slots -> Pending] /\ born \in Nat /\ UploadsInBranch
    BY BoundsAssumption DEF TypeOK, TreeInv, Unit
  <2>2. ASSUME NEW t \in Slots, pend[t].stage = "upload", pend[t].user.role # "root_admin",
               pend[t].unit \in VisibleOrgs(pend[t].user, data.units)
        PROVE  pend[t].unit \in VisibleOrgs(pend[t].user, d.units)
    BY <2>2, VisibleGrows DEF SameTree
  <2>3. \A t \in Slots : pend[t].stage = "upload" /\ pend[t].user.role # "root_admin" =>
               \/ /\ pend[t].unit \in VisibleOrgs(pend[t].user, data.units)
                  /\ \/ pend[t].unit \in VisibleOrgs(pend[t].user, d.units)
                     \/ pend[t].unit \notin DOMAIN d.units
               \/ /\ pend[t].unit \notin DOMAIN data.units
                  /\ pend[t].unit \notin DOMAIN d.units
    BY <2>1, <2>2 DEF UploadsInBranch, SameTree
  <2>4. data'.units = d.units /\ born' \in Nat /\ born <= born'
    BY <1>1, <2>1
  <2>5. QED
    BY <1>1, <2>1, <2>3, <2>4, UploadsKept
<1>5. QED
  BY <1>3, <1>4 DEF TreeInv

LEMMA NewUnitKeeps ==
    ASSUME TypeOK, TreeInv, NEW s \in Slots, NEW node \in Node, NEW role \in Role,
           NewUnit(s, node, role)
    PROVE  TreeInv'
<1> DEFINE u == born + 1
           V == Put(data.units, u, node)
<1>1. /\ Finish(s) /\ born' = u /\ data'.units = V
      /\ saved' = data' \/ saved' = saved
      /\ receipts' = receipts
         \/ (saved' = data' /\ receipts' = receipts \union {<<u, node.tier>>})
  BY AppDataFields DEF NewUnit, Saves, SaveFails
<1>2. /\ born \in Nat /\ u \in Nat /\ born <= u /\ u \notin 1 .. born /\ u # 1
      /\ DOMAIN data.units \subseteq 1 .. born /\ pend \in [Slots -> Pending]
  BY BoundsAssumption DEF TypeOK, DataOK, Unit
<1>3. /\ DOMAIN V = DOMAIN data.units \union {u} /\ V[u] = node
      /\ \A v \in DOMAIN data.units : V[v] = data.units[v]
  <2>1. \A v \in DOMAIN data.units : v # u
    BY <1>2
  <2> HIDE DEF u
  <2>2. QED
    BY <2>1 DEF Put
<1> HIDE DEF u, V
<1>4. RootInPlace(data') /\ (RootInPlace(saved') \/ saved' = saved)
  BY <1>1, <1>2, <1>3 DEF TreeInv, RootInPlace
<1>5. ReceiptsKept(data)' /\ ReceiptsKept(saved)'
  <2>1. \A r \in receipts : r[2] < DroppedTier =>
            r[1] \in DOMAIN V /\ V[r[1]].tier = r[2]
    BY <1>3 DEF TreeInv, ReceiptsKept
  <2>2. u \in DOMAIN V /\ V[u].tier = node.tier
    BY <1>3
  <2>3. CASE receipts' = receipts
    BY <1>1, <2>1, <2>3 DEF TreeInv, ReceiptsKept
  <2>4. CASE receipts' # receipts
    BY <1>1, <2>1, <2>2, <2>4 DEF ReceiptsKept
  <2>5. QED
    BY <2>3, <2>4
<1>6. UploadsInBranch'
  <2>1. UploadsInBranch
    BY DEF TreeInv
  <2>2. ASSUME NEW t \in Slots, pend[t].stage = "upload", pend[t].user.role # "root_admin",
               pend[t].unit \in VisibleOrgs(pend[t].user, data.units)
        PROVE  pend[t].unit \in VisibleOrgs(pend[t].user, V)
    BY <1>3, <2>2, VisibleGrows
  <2>3. \A t \in Slots : pend[t].stage = "upload" /\ pend[t].user.role # "root_admin" =>
               \/ /\ pend[t].unit \in VisibleOrgs(pend[t].user, data.units)
                  /\ \/ pend[t].unit \in VisibleOrgs(pend[t].user, V)
                     \/ pend[t].unit \notin DOMAIN V
               \/ /\ pend[t].unit \notin DOMAIN data.units
                  /\ pend[t].unit \notin DOMAIN V
    BY <1>2, <1>3, <2>1, <2>2 DEF UploadsInBranch
  <2>4. QED
    BY <1>1, <1>2, <2>1, <2>3, UploadsKept
<1>7. QED
  BY <1>4, <1>5, <1>6 DEF TreeInv, RootInPlace

LEMMA DeleteKeeps ==
    ASSUME TypeOK, TreeInv, NEW s \in Slots, NEW u \in 1 .. born, DeleteTreeNode(s, u)
    PROVE  TreeInv'
<1> DEFINE G == Descendants(data.units, u)
           V == Without(data.units, G)
<1>1. /\ Finish(s) /\ born' = born /\ data'.units = V
      /\ saved' = data' \/ saved' = saved
      /\ receipts' = {r \in receipts : r[1] \notin G}
  BY AppDataFields DEF DeleteTreeNode, Saves, SaveFails
<1>2. /\ born \in Nat /\ u \in Unit /\ pend \in [Slots -> Pending]
      /\ \A v \in DOMAIN data.units : v # NoUnit
  BY BoundsAssumption DEF TypeOK, DataOK, Unit, NoUnit
<1>3. DOMAIN V = DOMAIN data.units \ G /\ \A v \in DOMAIN data.units \ G : V[v] = data.units[v]
  <2> HIDE DEF G
  <2>1. QED
    BY WithoutFacts
<1>4. 1 \notin G
  <2>1. u # 1
    BY DEF DeleteTreeNode, TreeInv, RootInPlace
  <2>2. QED
    BY <1>2, <2>1, RootOutside DEF TreeInv
<1>5. ASSUME NEW t \in Slots, pend[t].stage = "upload", pend[t].user.role # "root_admin",
             pend[t].unit \in VisibleOrgs(pend[t].user, data.units), pend[t].unit \notin G
      PROVE  pend[t].unit \in VisibleOrgs(pend[t].user, V)
  BY <1>5, BranchSurvives DEF VisibleOrgs
<1> HIDE DEF G, V
<1>6. RootInPlace(data)' /\ RootInPlace(saved)'
  BY <1>1, <1>3, <1>4 DEF TreeInv, RootInPlace
<1>7. ReceiptsKept(data)' /\ ReceiptsKept(saved)'
  BY <1>1, <1>3 DEF TreeInv, ReceiptsKept
<1>8. UploadsInBranch'
  <2>1. UploadsInBranch
    BY DEF TreeInv
  <2>2. \A t \in Slots : pend[t].stage = "upload" /\ pend[t].user.role # "root_admin" =>
               \/ /\ pend[t].unit \in VisibleOrgs(pend[t].user, data.units)
                  /\ \/ pend[t].unit \in VisibleOrgs(pend[t].user, V)
                     \/ pend[t].unit \notin DOMAIN V
               \/ /\ pend[t].unit \notin DOMAIN data.units
                  /\ pend[t].unit \notin DOMAIN V
    BY <1>3, <1>5, <2>1 DEF UploadsInBranch
  <2>3. QED
    BY <1>1, <1>2, <2>1, <2>2, UploadsKept
<1>9. QED
  BY <1>6, <1>7, <1>8 DEF TreeInv

\* A step that moves one request and changes nothing else.
LEMMA MovedKeeps ==
    ASSUME TypeOK, TreeInv, NEW s \in Slots, NEW p, pend' = [pend EXCEPT ![s] = p],
           p.stage = "upload" =>
               /\ p.unit \in 1 .. born
               /\ \/ p.user.role = "root_admin"
                  \/ p.unit \in VisibleOrgs(p.user, data.units),
           UNCHANGED <<data, saved, born, receipts>>
    PROVE  TreeInv'
<1>1. UploadsInBranch'
  <2>1. \A t \in Slots : pend'[t] = IF t = s THEN p ELSE pend[t]
    BY DEF TypeOK
  <2>2. QED
    BY <2>1 DEF TreeInv, UploadsInBranch
<1>2. QED
  BY <1>1 DEF TreeInv, RootInPlace, ReceiptsKept

LEMMA StartupKeeps ==
    ASSUME NEW d, RootInPlace(d), ReceiptsKept(d), \A r \in receipts : r[2] \in Nat
    PROVE  RootInPlace(Startup(d)) /\ ReceiptsKept(Startup(d))
<1> DEFINE gone == Dropped(d)
           V == Without(d.units, gone)
<1>1. Startup(d).units = V
  BY AppDataFields DEF Startup
<1>2. DOMAIN V = DOMAIN d.units \ gone /\ \A v \in DOMAIN d.units \ gone : V[v] = d.units[v]
  <2> HIDE DEF gone
  <2>1. QED
    BY WithoutFacts
<1>3. 1 \notin gone
  BY DEF Dropped, RootInPlace, DroppedTier
<1>4. \A r \in receipts : r[2] < DroppedTier => r[1] \notin gone
  BY DEF Dropped, ReceiptsKept, DroppedTier
<1> HIDE DEF gone, V
<1>5. QED
  BY <1>1, <1>2, <1>3, <1>4 DEF RootInPlace, ReceiptsKept

LEMMA RequestKeeps ==
    ASSUME TypeOK, TreeInv, NEW s \in Slots, Request(s)
    PROVE  TreeInv'
<1>0. DataOK(data, born) /\ born \in Unit /\ born \in Nat /\ pend[s] \in Pending
      /\ \A u \in 1 .. born : u \in Unit
  BY BoundsAssumption DEF TypeOK, Unit
<1>1. CASE \E i \in UserId : Enter(s, i)
  <2>1. PICK i \in UserId : Enter(s, i)
    BY <1>1
  <2>2. At("entered", data.users[i], NoUnit).stage = "entered"
    BY AtFields
  <2>3. QED
    BY <2>1, <2>2, MovedKeeps DEF Enter
<1>2. CASE Refuse(s)
  BY <1>2, FreeFields, MovedKeeps DEF Refuse, Finish
<1>3. CASE \E tier \in Tiers, role \in Role : CreateRootOrg(s, tier, role)
  <2>1. PICK tier \in Tiers, role \in Role : CreateRootOrg(s, tier, role)
    BY <1>3
  <2>2. [parent |-> NoUnit, tier |-> tier, sample |-> FALSE] \in Node
    BY BoundsAssumption DEF Node
  <2>3. QED
    BY <2>1, <2>2, NewUnitKeeps DEF CreateRootOrg
<1>4. CASE \E u \in 1 .. born, tier \in Tiers, role \in Role : CreateChildOrg(s, u, tier, role)
  <2>1. PICK u \in 1 .. born, tier \in Tiers, role \in Role : CreateChildOrg(s, u, tier, role)
    BY <1>4
  <2>2. [parent |-> u, tier |-> tier, sample |-> FALSE] \in Node
    BY <1>0, BoundsAssumption DEF Node
  <2>3. QED
    BY <2>1, <2>2, NewUnitKeeps DEF CreateChildOrg
<1>5. ASSUME NEW u \in 1 .. born, CreateTreeNode(s, u) PROVE TreeInv'
  <2>1. [parent |-> u, tier |-> data.units[u].tier + 1, sample |-> FALSE] \in Node
    BY <1>0, <1>5 DEF CreateTreeNode, DataOK, Node
  <2>2. "org_manager" \in Role
    BY DEF Role
  <2>3. QED
    BY <1>5, <2>1, <2>2, NewUnitKeeps DEF CreateTreeNode
<1>6. ASSUME NEW u \in 1 .. born, NEW sample \in BOOLEAN, RenameTreeNode(s, u, sample)
      PROVE  TreeInv'
  <2> DEFINE node == [data.units[u] EXCEPT !.sample = sample]
             V == Put(data.units, u, node)
             d == AppData(V, data.users, data.items, data.reviewed)
  <2>1. u \in DOMAIN data.units /\ Edit(s, d)
    BY <1>6 DEF RenameTreeNode
  <2>2. node.parent = data.units[u].parent /\ node.tier = data.units[u].tier
    BY <1>0, <2>1 DEF DataOK, Node
  <2> HIDE DEF node
  <2>3. SameTree(data.units, V)
    BY <2>1, <2>2 DEF SameTree, Put
  <2>4. d.units = V
    BY AppDataFields
  <2> HIDE DEF V, d
  <2>5. QED
    BY <2>1, <2>3, <2>4, EditKeeps
<1>7. ASSUME NEW u \in 1 .. born, DeleteTreeNode(s, u) PROVE TreeInv'
  BY <1>7, DeleteKeeps
<1>8. ASSUME NEW u \in 1 .. born, CheckMember(s, u) PROVE TreeInv'
  <2>1. At("member", pend[s].user, u).stage = "member"
    BY AtFields
  <2>2. QED
    BY <1>8, <2>1, MovedKeeps DEF CheckMember
<1>9. ASSUME NEW u \in 1 .. born, CheckUpload(s, u) PROVE TreeInv'
  <2> DEFINE p == At("upload", pend[s].user, u)
  <2>1. p.unit = u /\ p.user = pend[s].user
    BY AtFields
  <2>2. pend[s].user \in User /\ pend[s].user.role \in Role
    BY <1>0 DEF Pending, User
  <2>3. p.user.role = "root_admin" \/ p.unit \in VisibleOrgs(p.user, data.units)
    BY <1>9, <2>1, <2>2, UploadRight DEF CheckUpload, Role
  <2>4. pend' = [pend EXCEPT ![s] = p] /\ UNCHANGED <<data, saved, born, receipts>>
    BY <1>9 DEF CheckUpload
  <2> HIDE DEF p
  <2>5. QED
    BY <2>1, <2>3, <2>4, MovedKeeps
<1>10. ASSUME NEW d, Edit(s, d), d.units = data.units PROVE TreeInv'
  BY <1>10, EditKeeps DEF SameTree
<1>11. ASSUME NEW users, NEW items, NEW reviewed,
              Edit(s, AppData(data.units, users, items, reviewed))
       PROVE  TreeInv'
  <2> DEFINE d == AppData(data.units, users, items, reviewed)
  <2>1. d.units = data.units
    BY AppDataFields
  <2> HIDE DEF d
  <2>2. Edit(s, d)
    BY <1>11 DEF d
  <2>3. QED
    BY <1>10, <2>1, <2>2
<1>12. ASSUME NEW u \in 1 .. born, (\E kind \in Kind : AddItem(s, kind, u)) \/ ReviewActivity(s, u)
       PROVE  TreeInv'
  BY <1>11, <1>12 DEF AddItem, ReviewActivity
<1>13. CASE \E role \in Role, org \in 0 .. born : CreateUser(s, role, org)
  BY <1>11, <1>13 DEF CreateUser
<1>14. CASE UpdateMember(s) \/ StoreUpload(s)
  BY <1>10, <1>11, <1>14 DEF UpdateMember, StoreUpload
<1>15. QED
  BY <1>1, <1>2, <1>3, <1>4, <1>5, <1>6, <1>7, <1>8, <1>9, <1>12, <1>13, <1>14 DEF Request

\* The inductive tree invariant.
THEOREM TreeInvHolds == Spec => [](TypeOK /\ TreeInv)
<1>1. Init => TreeInv
  <2> SUFFICES ASSUME Init PROVE TreeInv
    OBVIOUS
  <2>1. RootInPlace(SeedData)
    <3>1. PICK n \in Unit : SeedUnits \in [1 .. n -> Node]
      BY SeedAssumption
    <3>2. 1 \in DOMAIN SeedUnits
      BY <3>1, BoundsAssumption DEF Unit
    <3>3. SeedData.units = SeedUnits
      BY AppDataFields DEF SeedData
    <3>4. QED
      BY <3>2, <3>3, SeedAssumption DEF RootInPlace
  <2>2. RootInPlace(data)
    <3>1. 1 \in DOMAIN SeedData.units /\ 1 \notin Dropped(SeedData)
      BY <2>1 DEF RootInPlace, Dropped, DroppedTier
    <3>2. data.units = Without(SeedData.units, Dropped(SeedData))
      <4>1. data = Startup(SeedData)
        BY DEF Init
      <4>2. \A d : Startup(d).units = Without(d.units, Dropped(d))
        BY AppDataFields DEF Startup
      <4> QED BY <4>1, <4>2
    <3>3. 1 \in DOMAIN data.units /\ data.units[1] = SeedData.units[1]
      BY <3>1, <3>2 DEF Without
    <3>4. QED
      BY <2>1, <3>3 DEF RootInPlace
  <2>3. ReceiptsKept(data) /\ saved = data
    BY DEF Init, ReceiptsKept
  <2>4. UploadsInBranch
    BY FreeFields DEF Init, UploadsInBranch
  <2>5. QED
    BY <2>2, <2>3, <2>4 DEF TreeInv
<1>2. TypeOK /\ TreeInv /\ [Next]_vars => TreeInv'
  <2> SUFFICES ASSUME TypeOK, TreeInv, [Next]_vars PROVE TreeInv'
    OBVIOUS
  <2>1. CASE Restart
    <3>1. RootInPlace(Startup(saved)) /\ ReceiptsKept(Startup(saved))
      BY StartupKeeps DEF TreeInv, TypeOK
    <3>2. data' = Startup(saved) /\ saved' = Startup(saved) /\ receipts' = receipts
      BY <2>1 DEF Restart
    <3>3. UploadsInBranch'
      BY <2>1, FreeFields DEF Restart, UploadsInBranch
    <3>4. QED
      BY <3>1, <3>2, <3>3 DEF TreeInv, RootInPlace, ReceiptsKept
  <2>2. CASE \E s \in Slots : Request(s)
    BY <2>2, RequestKeeps
  <2>3. CASE UNCHANGED vars
    BY <2>3 DEF vars, TreeInv, RootInPlace, ReceiptsKept, UploadsInBranch
  <2>4. QED
    BY <2>1, <2>2, <2>3 DEF Next
<1>3. QED
  BY <1>1, <1>2, TypesStay, PTL DEF Spec

\* The root cannot be deleted, neither directly nor with the branch of another unit:
\* delete_tree_node protects tier 0 and no other branch holds the root.
THEOREM RootCannotGo == Spec => []RootStays
<1>1. TreeInv => RootStays
  BY DEF TreeInv, RootInPlace, RootStays
<1>2. QED
  BY <1>1, TreeInvHolds, PTL

\* A unit whose creation was answered outlives failing saves and restarts.
THEOREM AnsweredUnitsAreKept == Spec => []AnsweredUnitsStay
<1>1. TreeInv => AnsweredUnitsStay
  BY DEF TreeInv, ReceiptsKept, AnsweredUnitsStay
<1>2. QED
  BY <1>1, TreeInvHolds, PTL

----------------------------------------------------------------------------
(* What a request may change. *)

\* Only one item is new.
LEMMA ItemWithin ==
    ASSUME NEW B, NEW d, NEW x, NEW reviewed,
           x[2] \in B \/ (x[1] = "document" /\ x[2] \notin DOMAIN d.units)
    PROVE  Within(B, d, AppData(d.units, d.users, d.items \union {x}, reviewed))
<1> DEFINE e == AppData(d.units, d.users, d.items \union {x}, reviewed)
<1>1. e.units = d.units /\ e.users = d.users /\ e.items = d.items \union {x}
  BY AppDataFields
<1> HIDE DEF e
<1>2. Within(B, d, e)
  BY <1>1 DEF Within
<1>3. QED
  BY <1>2 DEF e

LEMMA SameWithin ==
    ASSUME NEW B, NEW d, NEW reviewed
    PROVE  /\ Within(B, d, d)
           /\ Within(B, d, AppData(d.units, d.users, d.items, reviewed))
<1> DEFINE e == AppData(d.units, d.users, d.items, reviewed)
<1>1. e.units = d.units /\ e.users = d.users /\ e.items = d.items
  BY AppDataFields
<1> HIDE DEF e
<1>2. Within(B, d, e) /\ Within(B, d, d)
  BY <1>1 DEF Within
<1>3. QED
  BY <1>2 DEF e

LEMMA NewUnitWithin ==
    ASSUME NEW B, NEW s, NEW node, NEW role, NewUnit(s, node, role), node.parent \in B,
           born + 1 \notin DOMAIN data.units
    PROVE  Within(B, data, data')
<1> DEFINE u == born + 1
           V == Put(data.units, u, node)
           users == Put(data.users, u, [role |-> role, org |-> u])
<1>1. /\ data'.units = V /\ data'.items = data.items
      /\ data'.users = users \/ data'.users = data.users
  BY AppDataFields DEF NewUnit, Saves, SaveFails
<1>2. /\ DOMAIN V = DOMAIN data.units \union {u} /\ V[u] = node
      /\ \A v \in DOMAIN data.units : V[v] = data.units[v]
  <2>1. u \notin DOMAIN data.units
    OBVIOUS
  <2> HIDE DEF u
  <2>2. QED
    BY <2>1 DEF Put
<1>3. DOMAIN data.users \subseteq DOMAIN users
  <2> HIDE DEF u
  <2>1. QED
    BY DEF Put
<1> HIDE DEF u, V, users
<1>4. QED
  BY <1>1, <1>2, <1>3 DEF Within

LEMMA RequestWithin ==
    ASSUME TypeOK, TreeInv, NEW s \in Slots, Request(s),
           pend[s].stage # "free", pend'[s].stage = "free",
           pend[s].user.role = "org_manager"
    PROVE  Within(VisibleOrgs(pend[s].user, data.units), data, data')
<1> DEFINE B == VisibleOrgs(pend[s].user, data.units)
<1>1. /\ pend \in [Slots -> Pending] /\ DataOK(data, born) /\ born \in Nat
      /\ born + 1 \notin DOMAIN data.units
  BY BoundsAssumption DEF TypeOK, DataOK, Unit
<1>2. \A u : CanManage(pend[s].user, u, data.units) => u \in B
  BY DEF CanManage
<1>3. \A u \in B : Descendants(data.units, u) \subseteq B
  BY BranchTransitive DEF VisibleOrgs
<1> HIDE DEF B
<1>4. CASE (\E i \in UserId : Enter(s, i)) \/ Refuse(s)
  BY <1>4, SameWithin DEF Enter, Refuse, B
<1>5. ASSUME NEW u \in 1 .. born, CheckMember(s, u) \/ CheckUpload(s, u) PROVE FALSE
  <2>1. PICK stage \in {"member", "upload"} :
             pend' = [pend EXCEPT ![s] = At(stage, pend[s].user, u)]
    BY <1>5 DEF CheckMember, CheckUpload
  <2>2. pend'[s] = At(stage, pend[s].user, u)
    BY <1>1, <2>1
  <2>3. QED
    BY <2>2, AtFields
<1>6. CASE \E tier \in Tiers, role \in Role : CreateRootOrg(s, tier, role)
  BY <1>6 DEF CreateRootOrg
<1>7. ASSUME NEW u \in 1 .. born,
             CreateTreeNode(s, u) \/ \E tier \in Tiers, role \in Role : CreateChildOrg(s, u, tier, role)
      PROVE  Within(B, data, data')
  <2>1. PICK tier, role : NewUnit(s, [parent |-> u, tier |-> tier, sample |-> FALSE], role)
    BY <1>7 DEF CreateTreeNode, CreateChildOrg
  <2>2. u \in B
    BY <1>2, <1>7 DEF CreateTreeNode, CreateChildOrg
  <2> DEFINE node == [parent |-> u, tier |-> tier, sample |-> FALSE]
  <2>3. node.parent = u
    OBVIOUS
  <2> HIDE DEF node
  <2>4. NewUnit(s, node, role)
    BY <2>1 DEF node
  <2>5. QED
    BY <1>1, <2>2, <2>3, <2>4, NewUnitWithin
<1>8. ASSUME NEW u \in 1 .. born, NEW sample \in BOOLEAN, RenameTreeNode(s, u, sample)
      PROVE  Within(B, data, data')
  <2> DEFINE node == [data.units[u] EXCEPT !.sample = sample]
             V == Put(data.units, u, node)
  <2>1. u \in B /\ u \in DOMAIN data.units
    BY <1>2, <1>8 DEF RenameTreeNode
  <2>2. data'.units = V /\ data'.users = data.users /\ data'.items = data.items
    BY <1>8, AppDataFields DEF RenameTreeNode, Edit, Saves, SaveFails
  <2> HIDE DEF node
  <2>3. DOMAIN V = DOMAIN data.units /\ \A v \in DOMAIN data.units : v # u => V[v] = data.units[v]
    BY <2>1 DEF Put
  <2> HIDE DEF V
  <2>4. QED
    BY <2>1, <2>2, <2>3 DEF Within
<1>9. ASSUME NEW u \in 1 .. born, DeleteTreeNode(s, u) PROVE Within(B, data, data')
  <2> DEFINE G == Descendants(data.units, u)
             V == Without(data.units, G)
             lost == {i \in DOMAIN data.users : data.users[i].org \in G}
             users == Without(data.users, lost)
             items == {x \in data.items : x[2] \notin G}
  <2>1. data'.units = V /\ data'.users = users /\ data'.items = items
    BY <1>9, AppDataFields DEF DeleteTreeNode, Saves, SaveFails
  <2>2. G \subseteq B
    BY <1>2, <1>3, <1>9 DEF DeleteTreeNode
  <2> HIDE DEF G
  <2>3. DOMAIN V = DOMAIN data.units \ G /\ \A v \in DOMAIN V : V[v] = data.units[v]
    BY DEF Without
  <2>4. DOMAIN users = DOMAIN data.users \ lost
    BY DEF Without
  <2> HIDE DEF V, users
  <2>5. QED
    BY <2>1, <2>2, <2>3, <2>4 DEF Within
<1>10. ASSUME NEW u \in 1 .. born, NEW kind \in Kind, AddItem(s, kind, u)
       PROVE  Within(B, data, data')
  <2> DEFINE x == <<kind, u>>
  <2>1. data' = AppData(data.units, data.users, data.items \union {x}, data.reviewed)
    BY <1>10 DEF AddItem, Edit, Saves, SaveFails
  <2>2. x[2] \in B
    BY <1>2, <1>10 DEF AddItem
  <2> HIDE DEF x
  <2>3. QED
    BY <2>1, <2>2, ItemWithin
<1>11. ASSUME NEW u \in 1 .. born, ReviewActivity(s, u) PROVE Within(B, data, data')
  <2>1. data' = AppData(data.units, data.users, data.items, data.reviewed \union {u})
    BY <1>11 DEF ReviewActivity, Edit, Saves, SaveFails
  <2>2. QED
    BY <2>1, SameWithin
<1>12. CASE \E role \in Role, org \in 0 .. born : CreateUser(s, role, org)
  BY <1>12 DEF CreateUser
<1>13. CASE UpdateMember(s)
  BY <1>13, SameWithin DEF UpdateMember, Edit, Saves, SaveFails, B
<1>14. CASE StoreUpload(s)
  <2> DEFINE x == <<"document", pend[s].unit>>
  <2>1. data' = AppData(data.units, data.users, data.items \union {x}, data.reviewed)
    BY <1>14 DEF StoreUpload, Edit, Saves, SaveFails
  <2>2. x[1] = "document" /\ (x[2] \in B \/ x[2] \notin DOMAIN data.units)
    BY <1>14 DEF StoreUpload, TreeInv, UploadsInBranch, B
  <2> HIDE DEF x
  <2>3. QED
    BY <2>1, <2>2, ItemWithin DEF B
<1>15. QED
  BY <1>4, <1>5, <1>6, <1>7, <1>8, <1>9, <1>10, <1>11, <1>12, <1>13, <1>14 DEF Request, B

\* A request leaves the others in flight alone.
LEMMA OthersStay ==
    ASSUME TypeOK, NEW s \in Slots, NEW t \in Slots, t # s, Request(s)
    PROVE  pend'[t] = pend[t]
<1> DEFINE Moves == \E p : pend' = [pend EXCEPT ![s] = p]
<1>a. Finish(s) => Moves
  BY DEF Finish
<1>b. \A d : Edit(s, d) => Finish(s)
  BY DEF Edit, Saves, SaveFails
<1>c. \A node, role : NewUnit(s, node, role) => Finish(s)
  BY DEF NewUnit, Saves, SaveFails
<1>d. \A i : Enter(s, i) => Moves
  BY DEF Enter
<1>e. \A u : CheckMember(s, u) \/ CheckUpload(s, u) => Moves
  BY DEF CheckMember, CheckUpload
<1>f. Refuse(s) \/ UpdateMember(s) \/ StoreUpload(s) => Finish(s)
  BY <1>b DEF Refuse, UpdateMember, StoreUpload
<1>g. \A u, tier, role : CreateRootOrg(s, tier, role) \/ CreateChildOrg(s, u, tier, role)
                            \/ CreateTreeNode(s, u) \/ CreateUser(s, role, u) => Finish(s)
  BY <1>b, <1>c DEF CreateRootOrg, CreateChildOrg, CreateTreeNode, CreateUser
<1>h. \A u, x : RenameTreeNode(s, u, x) \/ AddItem(s, x, u) \/ ReviewActivity(s, u) => Finish(s)
  BY <1>b DEF RenameTreeNode, AddItem, ReviewActivity
<1>i. \A u : DeleteTreeNode(s, u) => Finish(s)
  BY DEF DeleteTreeNode, Saves, SaveFails
<1>1. Moves
  BY <1>a, <1>d, <1>e, <1>f, <1>g, <1>h, <1>i DEF Request
<1>2. QED
  BY <1>1 DEF TypeOK

\* A manager's request changes nothing outside the branch of its unit, whatever the
\* others did since its rights were cloned or its upload was checked.
THEOREM ManagersStayInBranch == Spec => ChangesStayInBranch
<1> DEFINE A == \A s \in Slots :
        Ends(s) /\ pend[s].user.role = "org_manager" =>
            Within(VisibleOrgs(pend[s].user, data.units), data, data')
<1>1. TypeOK /\ TreeInv /\ [Next]_vars => A
  <2> SUFFICES ASSUME TypeOK, TreeInv, [Next]_vars, NEW s \in Slots, Ends(s),
                      pend[s].user.role = "org_manager"
               PROVE  Within(VisibleOrgs(pend[s].user, data.units), data, data')
    OBVIOUS
  <2>1. CASE Restart
    BY <2>1, BoundsAssumption DEF Restart, Ends, TypeOK
  <2>2. CASE \E t \in Slots : Request(t)
    <3>1. Request(s)
      BY <2>2, OthersStay DEF Ends
    <3>2. QED
      BY <3>1, RequestWithin DEF Ends
  <2>3. CASE UNCHANGED vars
    BY <2>3 DEF vars, Ends
  <2>4. QED
    BY <2>1, <2>2, <2>3 DEF Next
<1>2. QED
  BY <1>1, TreeInvHolds, PTL DEF Spec, ChangesStayInBranch

\* A request that takes a unit away is a deletion.
LEMMA OnlyDeletionRemoves ==
    ASSUME TypeOK, NEW s \in Slots, Request(s), NEW u \in DOMAIN data.units \ DOMAIN data'.units
    PROVE  \E v \in 1 .. born : DeleteTreeNode(s, v)
<1>1. SUFFICES ASSUME ~\E v \in 1 .. born : DeleteTreeNode(s, v)
               PROVE  DOMAIN data.units \subseteq DOMAIN data'.units
  OBVIOUS
<1>2. ASSUME NEW units, NEW users, NEW items, NEW reviewed,
             data' = AppData(units, users, items, reviewed),
             DOMAIN data.units \subseteq DOMAIN units
      PROVE  DOMAIN data.units \subseteq DOMAIN data'.units
  BY <1>2, AppDataFields
<1>3. \A x, v : DOMAIN data.units \subseteq DOMAIN Put(data.units, x, v)
  BY DEF Put
<1>4. ASSUME NEW node, NEW role, NewUnit(s, node, role)
      PROVE  DOMAIN data.units \subseteq DOMAIN data'.units
  BY <1>2, <1>3, <1>4 DEF NewUnit, Saves, SaveFails
<1>5. ASSUME NEW v \in 1 .. born, NEW sample \in BOOLEAN, RenameTreeNode(s, v, sample)
      PROVE  DOMAIN data.units \subseteq DOMAIN data'.units
  BY <1>2, <1>3, <1>5 DEF RenameTreeNode, Edit, Saves, SaveFails
<1>6. ASSUME NEW users, NEW items, NEW reviewed,
             data' = AppData(data.units, users, items, reviewed)
      PROVE  DOMAIN data.units \subseteq DOMAIN data'.units
  BY <1>2, <1>6
<1>7. ASSUME NEW v \in 1 .. born, (\E kind \in Kind : AddItem(s, kind, v)) \/ ReviewActivity(s, v)
      PROVE  DOMAIN data.units \subseteq DOMAIN data'.units
  BY <1>6, <1>7 DEF AddItem, ReviewActivity, Edit, Saves, SaveFails
<1>8. CASE \/ \E role \in Role, org \in 0 .. born : CreateUser(s, role, org)
           \/ StoreUpload(s)
  BY <1>6, <1>8 DEF CreateUser, StoreUpload, Edit, Saves, SaveFails
<1>9. CASE UpdateMember(s)
  BY <1>9 DEF UpdateMember, Edit, Saves, SaveFails
<1>10. CASE (\E i \in UserId : Enter(s, i)) \/ Refuse(s)
            \/ \E v \in 1 .. born : CheckMember(s, v) \/ CheckUpload(s, v)
  BY <1>10 DEF Enter, Refuse, CheckMember, CheckUpload
<1>11. QED
  BY <1>1, <1>4, <1>5, <1>7, <1>8, <1>9, <1>10
     DEF Request, CreateRootOrg, CreateChildOrg, CreateTreeNode

\* Deleting a unit leaves no unit below it, and no account, member, activity or
\* document of it: the branch is closed under children and everything is filtered by it.
THEOREM DeletionsAreWhole == Spec => DeletionIsWhole
<1> DEFINE Whole(u) == /\ \A v \in DOMAIN data'.units : data'.units[v].parent # u
                       /\ \A i \in DOMAIN data'.users : data'.users[i].org # u
                       /\ \A x \in data'.items : x[2] # u
<1>1. ASSUME TypeOK, NEW s \in Slots, Request(s),
             NEW u \in DOMAIN data.units \ DOMAIN data'.units
      PROVE  Whole(u)
  <2>1. PICK r \in 1 .. born : DeleteTreeNode(s, r)
    BY <1>1, OnlyDeletionRemoves
  <2> DEFINE G == Descendants(data.units, r)
             V == Without(data.units, G)
             lost == {i \in DOMAIN data.users : data.users[i].org \in G}
             users == Without(data.users, lost)
             items == {x \in data.items : x[2] \notin G}
  <2>2. data'.units = V /\ data'.users = users /\ data'.items = items
    BY <2>1, AppDataFields DEF DeleteTreeNode, Saves, SaveFails
  <2>3. Closed(data.units, G)
    BY BranchClosed
  <2> HIDE DEF G
  <2>4. /\ DOMAIN V = DOMAIN data.units \ G /\ \A v \in DOMAIN V : V[v] = data.units[v]
        /\ DOMAIN users = DOMAIN data.users \ lost
        /\ \A i \in DOMAIN users : users[i] = data.users[i]
    BY DEF Without
  <2> HIDE DEF V, users
  <2>5. u \in G
    BY <2>2, <2>4
  <2>6. \A v \in DOMAIN data'.units : data'.units[v].parent # u
    BY <2>2, <2>3, <2>4, <2>5 DEF Closed
  <2>7. \A i \in DOMAIN data'.users : data'.users[i].org # u
    BY <2>2, <2>4, <2>5
  <2>8. \A x \in data'.items : x[2] # u
    BY <2>2, <2>5
  <2>9. QED
    BY <2>6, <2>7, <2>8
<1>2. ASSUME Restart, TypeOK PROVE restarts' # restarts
  BY <1>2, BoundsAssumption DEF Restart, TypeOK
<1> HIDE DEF Whole
<1>3. TypeOK /\ [Next]_vars =>
        (restarts' = restarts => \A u \in DOMAIN data.units \ DOMAIN data'.units : Whole(u))
  BY <1>1, <1>2 DEF Next, vars
<1>4. QED
  BY <1>3, TypesStay, PTL DEF Spec, DeletionIsWhole, Whole

\* As long as no save failed, memory and disk agree after every request.
THEOREM NothingIsUnsaved == Spec => []NothingUnsaved
<1>1. Init => NothingUnsaved
  BY DEF Init, NothingUnsaved
<1>2. TypeOK /\ NothingUnsaved /\ [Next]_vars => NothingUnsaved'
  <2> SUFFICES ASSUME TypeOK, NothingUnsaved, [Next]_vars, failures' = 0
               PROVE  saved' = data'
    BY DEF NothingUnsaved
  <2>1. ASSUME NEW s \in Slots, NEW d, Saves(s, d) \/ SaveFails(s, d)
        PROVE  saved' = data'
    <3>1. ~SaveFails(s, d)
      BY BoundsAssumption DEF SaveFails, TypeOK
    <3>2. QED
      BY <2>1, <3>1 DEF Saves
  <2>2. ASSUME NEW s \in Slots, NEW d, Edit(s, d) PROVE saved' = data'
    BY <2>1, <2>2 DEF Edit
  <2>3. ASSUME NEW s \in Slots, NEW node, NEW role, NewUnit(s, node, role)
        PROVE  saved' = data'
    BY <2>1, <2>3 DEF NewUnit
  <2>4. ASSUME UNCHANGED <<data, saved, failures>> PROVE saved' = data'
    BY <2>4 DEF NothingUnsaved
  <2>5. ASSUME NEW s \in Slots, Request(s) PROVE saved' = data'
    <3>1. CASE (\E i \in UserId : Enter(s, i)) \/ Refuse(s)
               \/ \E v \in 1 .. born : CheckMember(s, v) \/ CheckUpload(s, v)
      BY <2>4, <3>1 DEF Enter, Refuse, CheckMember, CheckUpload
    <3>2. CASE \/ \E tier \in Tiers, role \in Role : CreateRootOrg(s, tier, role)
               \/ \E u \in 1 .. born, tier \in Tiers, role \in Role : CreateChildOrg(s, u, tier, role)
               \/ \E u \in 1 .. born : CreateTreeNode(s, u)
      BY <2>3, <3>2 DEF CreateRootOrg, CreateChildOrg, CreateTreeNode
    <3>3. CASE \E u \in 1 .. born : DeleteTreeNode(s, u)
      BY <2>1, <3>3 DEF DeleteTreeNode
    <3>4. CASE \/ \E u \in 1 .. born :
                    \/ \E sample \in BOOLEAN : RenameTreeNode(s, u, sample)
                    \/ \E kind \in Kind : AddItem(s, kind, u)
                    \/ ReviewActivity(s, u)
               \/ \E role \in Role, org \in 0 .. born : CreateUser(s, role, org)
               \/ UpdateMember(s) \/ StoreUpload(s)
      BY <2>2, <3>4 DEF RenameTreeNode, AddItem, ReviewActivity, CreateUser, UpdateMember,
                        StoreUpload
    <3>5. QED
      BY <2>5, <3>1, <3>2, <3>3, <3>4 DEF Request
  <2>6. CASE Restart
    BY <2>6 DEF Restart
  <2>7. CASE UNCHANGED vars
    BY <2>4, <2>7 DEF vars
  <2>8. QED
    BY <2>5, <2>6, <2>7 DEF Next
<1>3. QED
  BY <1>1, <1>2, TypesStay, PTL DEF Spec

----------------------------------------------------------------------------
(* Accounts. *)

Peopled(d) == \A u \in DOMAIN d.units : \E i \in DOMAIN d.users : d.users[i].org = u

\* The numbers that the next unit's account and the next extra account get are free.
NumbersFree(d, n, e) ==
    \A i \in DOMAIN d.users : i <= n \/ (MaxUnits < i /\ i <= MaxUnits + e)

AccountsInv ==
    /\ NumbersFree(data, born, extra) /\ NumbersFree(saved, born, extra)
    /\ NothingUnsaved /\ UnitsHaveAccounts

LEMMA WithoutPeopled ==
    ASSUME NEW d, NEW e, NEW gone, Peopled(d),
           e.units = Without(d.units, gone),
           e.users = Without(d.users, {i \in DOMAIN d.users : d.users[i].org \in gone})
    PROVE  Peopled(e)
<1> DEFINE lost == {i \in DOMAIN d.users : d.users[i].org \in gone}
<1>1. /\ DOMAIN e.units = DOMAIN d.units \ gone
      /\ DOMAIN e.users = DOMAIN d.users \ lost
      /\ \A i \in DOMAIN d.users \ lost : e.users[i] = d.users[i]
  <2> HIDE DEF lost
  <2>1. e.users = Without(d.users, lost)
    BY DEF lost
  <2>2. DOMAIN e.users = DOMAIN d.users \ lost
        /\ \A i \in DOMAIN d.users \ lost : e.users[i] = d.users[i]
    BY <2>1 DEF Without
  <2>3. DOMAIN e.units = DOMAIN d.units \ gone
    BY DEF Without
  <2> QED BY <2>2, <2>3
<1> SUFFICES ASSUME NEW u \in DOMAIN d.units \ gone
             PROVE  \E i \in DOMAIN e.users : e.users[i].org = u
  BY <1>1 DEF Peopled
<1>2. PICK i \in DOMAIN d.users : d.users[i].org = u
  BY DEF Peopled
<1>3. QED
  BY <1>1, <1>2

LEMMA WithoutFree ==
    ASSUME NEW d, NEW e, NEW S, NEW n, NEW x, NumbersFree(d, n, x), e.users = Without(d.users, S)
    PROVE  NumbersFree(e, n, x)
<1>1. DOMAIN e.users \subseteq DOMAIN d.users
  BY DEF Without
<1>2. QED
  BY <1>1 DEF NumbersFree

\* An account with a new number takes no other account's place.
LEMMA PutPeopled ==
    ASSUME NEW d, NEW e, NEW i, NEW user, Peopled(d), i \notin DOMAIN d.users,
           e.users = Put(d.users, i, user),
           DOMAIN e.units \subseteq DOMAIN d.units \union {user.org}
    PROVE  Peopled(e)
<1>1. /\ DOMAIN e.users = DOMAIN d.users \union {i} /\ e.users[i] = user
      /\ \A j \in DOMAIN d.users : e.users[j] = d.users[j]
  BY DEF Put
<1> SUFFICES ASSUME NEW u \in DOMAIN e.units
             PROVE  \E j \in DOMAIN e.users : e.users[j].org = u
  BY DEF Peopled
<1>2. CASE u = user.org
  BY <1>1, <1>2
<1>3. CASE u \in DOMAIN d.units
  <2>1. PICK j \in DOMAIN d.users : d.users[j].org = u
    BY <1>3 DEF Peopled
  <2>2. QED
    BY <1>1, <2>1
<1>4. QED
  BY <1>2, <1>3

\* A start drops units and accounts by the same tier.
LEMMA StartupFields ==
    ASSUME NEW d
    PROVE  /\ Startup(d).units = Without(d.units, Dropped(d))
           /\ Startup(d).users =
                Without(d.users, {i \in DOMAIN d.users : d.users[i].org \in Dropped(d)})
<1> DEFINE gone == Dropped(d)
           units == Without(d.units, gone)
           users == Without(d.users, {i \in DOMAIN d.users : d.users[i].org \in gone})
           kept == {x \in d.items : x[1] = "document" \/ x[2] \notin gone}
           demo == {u \in DOMAIN units : units[u].sample}
           items == kept \union ({"document"} \X demo)
<1>1. Startup(d) = AppData(units, users, items, d.reviewed \ gone)
  BY DEF Startup
<1> HIDE DEF units, users, items, gone
<1>2. Startup(d).units = units /\ Startup(d).users = users
  BY <1>1, AppDataFields
<1>3. QED
  BY <1>2 DEF units, users, gone

LEMMA StartupPeopled == ASSUME NEW d, Peopled(d) PROVE Peopled(Startup(d))
<1> DEFINE e == Startup(d)
<1>1. /\ e.units = Without(d.units, Dropped(d))
      /\ e.users = Without(d.users, {i \in DOMAIN d.users : d.users[i].org \in Dropped(d)})
  BY StartupFields
<1> HIDE DEF e
<1>2. Peopled(e)
  BY <1>1, WithoutPeopled
<1>3. QED
  BY <1>2 DEF e

LEMMA StartupFree ==
    ASSUME NEW d, NEW n, NEW x, NumbersFree(d, n, x)
    PROVE  NumbersFree(Startup(d), n, x)
<1> DEFINE e == Startup(d)
           S == {i \in DOMAIN d.users : d.users[i].org \in Dropped(d)}
<1>1. e.users = Without(d.users, S)
  BY StartupFields
<1> HIDE DEF e, S
<1>2. NumbersFree(e, n, x)
  BY <1>1, WithoutFree
<1>3. QED
  BY <1>2 DEF e

LEMMA SeedPeopled ==
    Peopled(SeedData) /\ NumbersFree(SeedData, Cardinality(DOMAIN SeedUnits), 0)
<1> DEFINE accounts == {Admin} \union DOMAIN SeedUnits
           users == [i \in accounts |->
                        IF i = Admin THEN [role |-> "root_admin", org |-> NoUnit]
                                     ELSE [role |-> "org_manager", org |-> i]]
<1>1. PICK n \in Unit : SeedUnits \in [1 .. n -> Node]
  BY SeedAssumption
<1>2. DOMAIN SeedUnits = 1 .. n /\ n \in Nat /\ Cardinality(1 .. n) = n
  <2>1. 1 \in Int /\ n \in Int /\ n - 1 + 1 = n /\ n >= 1
    BY <1>1, BoundsAssumption DEF Unit
  <2>2. Cardinality(1 .. n) = n
    BY <2>1, FS_Interval
  <2>3. QED
    BY <1>1, <2>1, <2>2
<1>3. SeedData.units = SeedUnits /\ SeedData.users = users
  <2> HIDE DEF users
  <2>1. SeedData = AppData(SeedUnits, users, {"member", "activity"} \X DOMAIN SeedUnits, {})
    BY DEF SeedData, users
  <2>2. QED
    BY <2>1, AppDataFields
<1>4. DOMAIN users = {Admin} \union 1 .. n /\ \A u \in 1 .. n : users[u].org = u
  BY <1>2 DEF Admin
<1> HIDE DEF users
<1>5. Peopled(SeedData)
  BY <1>2, <1>3, <1>4 DEF Peopled
<1>6. NumbersFree(SeedData, n, 0)
  BY <1>2, <1>3, <1>4 DEF NumbersFree, Admin
<1>7. QED
  BY <1>2, <1>5, <1>6

\* The numbers taken only grow.
LEMMA FreeOn ==
    ASSUME NEW d, NEW n \in Nat, NEW x \in Nat, NEW m \in Nat, NEW y \in Nat,
           n <= m, x <= y, DOMAIN d.users \subseteq UserId, NumbersFree(d, n, x)
    PROVE  NumbersFree(d, m, y)
<1>1. \A i \in DOMAIN d.users : i \in Nat
  BY BoundsAssumption DEF UserId
<1>2. QED
  BY <1>1, BoundsAssumption DEF NumbersFree

LEMMA NewUnitPeopled ==
    ASSUME TypeOK, AccountsInv, NEW s \in Slots, NEW node, NEW role, NewUnit(s, node, role),
           NothingUnsaved'
    PROVE  AccountsInv'
<1> DEFINE u == born + 1
           user == [role |-> role, org |-> u]
           units == Put(data.units, u, node)
           users == Put(data.users, u, user)
           whole == AppData(units, users, data.items, data.reviewed)
           bare == AppData(units, data.users, data.items, data.reviewed)
<1>1. /\ born \in Nat /\ u \in Nat /\ u <= MaxUnits /\ extra \in Nat /\ MaxUnits \in Nat
      /\ DOMAIN data.users \subseteq UserId /\ DOMAIN saved.users \subseteq UserId
      /\ born' = u /\ extra' = extra /\ failures \in Nat /\ born <= u /\ extra <= extra
  BY BoundsAssumption DEF TypeOK, DataOK, Unit, NewUnit
<1>2. u \notin DOMAIN data.users
  BY <1>1 DEF AccountsInv, NumbersFree
<1>3. NumbersFree(data, u, extra) /\ NumbersFree(saved, u, extra)
  <2> HIDE DEF u
  <2>1. QED
    BY <1>1, FreeOn DEF AccountsInv
<1>4. /\ whole.users = users /\ whole.units = units /\ bare.users = data.users
      /\ user.org = u
  BY AppDataFields
<1>5. Saves(s, whole) \/ SaveFails(s, whole) \/ SaveFails(s, bare)
  BY DEF NewUnit
<1>6. DOMAIN users = DOMAIN data.users \union {u} /\ DOMAIN units = DOMAIN data.units \union {u}
  <2> HIDE DEF u, user
  <2>1. QED
    BY PutFacts
<1> HIDE DEF whole, bare
<1>7. NumbersFree(whole, u, extra) /\ NumbersFree(bare, u, extra)
  <2>1. \A i \in DOMAIN data.users \union {u} : i <= u \/ (MaxUnits < i /\ i <= MaxUnits + extra)
    BY <1>1, <1>3 DEF NumbersFree
  <2> HIDE DEF u, users, units
  <2>2. QED
    BY <1>4, <1>6, <2>1 DEF NumbersFree
<1>8. NumbersFree(data', u, extra) /\ NumbersFree(saved', u, extra)
  BY <1>3, <1>5, <1>7 DEF Saves, SaveFails
<1>9. ASSUME failures' = 0 PROVE Peopled(data')
  <2>1. Saves(s, whole) /\ failures = 0
    BY <1>1, <1>5, <1>9 DEF Saves, SaveFails
  <2>2. data' = whole /\ Peopled(data)
    BY <2>1 DEF Saves, AccountsInv, UnitsHaveAccounts, Peopled
  <2> HIDE DEF u, user, users, units
  <2>3. whole.users = Put(data.users, u, user)
        /\ DOMAIN whole.units \subseteq DOMAIN data.units \union {user.org}
    BY <1>4, <1>6 DEF users
  <2>4. Peopled(whole)
    BY <1>2, <2>2, <2>3, PutPeopled
  <2>5. QED
    BY <2>2, <2>4
<1> HIDE DEF u
<1>10. QED
  BY <1>1, <1>8, <1>9 DEF AccountsInv, UnitsHaveAccounts, Peopled

\* A request that leaves units and accounts what they were.
LEMMA SameAccounts ==
    ASSUME AccountsInv, NothingUnsaved', NEW s \in Slots, NEW d, Saves(s, d) \/ SaveFails(s, d),
           DOMAIN d.units = DOMAIN data.units, d.users = data.users,
           UNCHANGED <<born, extra>>, TypeOK
    PROVE  AccountsInv'
<1>1. /\ NumbersFree(d, born, extra) /\ NumbersFree(data, born, extra)
      /\ NumbersFree(saved, born, extra)
  BY DEF AccountsInv, NumbersFree
<1>2. data' = d /\ (saved' = d \/ saved' = saved)
  BY DEF Saves, SaveFails
<1>3. failures' = 0 => failures = 0
  BY BoundsAssumption DEF TypeOK, Saves, SaveFails
<1>4. failures = 0 => Peopled(data)
  BY DEF AccountsInv, UnitsHaveAccounts, Peopled
<1>5. failures' = 0 => Peopled(data')
  BY <1>2, <1>3, <1>4 DEF Peopled
<1>6. NumbersFree(data', born', extra') /\ NumbersFree(saved', born', extra')
  BY <1>1, <1>2
<1>7. QED
  BY <1>5, <1>6 DEF AccountsInv, UnitsHaveAccounts, Peopled

LEMMA CreateUserPeopled ==
    ASSUME TypeOK, AccountsInv, NEW s \in Slots, NEW role, NEW org, CreateUser(s, role, org),
           NothingUnsaved'
    PROVE  AccountsInv'
<1> DEFINE i == MaxUnits + extra'
           user == [role |-> role, org |-> org]
           users == Put(data.users, i, user)
           d == AppData(data.units, users, data.items, data.reviewed)
<1>1. /\ born \in Nat /\ born <= MaxUnits /\ extra \in Nat /\ extra' = extra + 1 /\ MaxUnits \in Nat
      /\ DOMAIN data.users \subseteq UserId /\ DOMAIN saved.users \subseteq UserId
      /\ born' = born /\ failures \in Nat
  BY BoundsAssumption DEF TypeOK, DataOK, Unit, CreateUser, Edit
<1>2. i \notin DOMAIN data.users
  BY <1>1 DEF AccountsInv, NumbersFree
<1>3. NumbersFree(data, born, extra') /\ NumbersFree(saved, born, extra')
  <2>1. extra' \in Nat /\ extra <= extra' /\ born <= born
    BY <1>1
  <2>2. QED
    BY <1>1, <2>1, FreeOn DEF AccountsInv
<1>4. d.users = users /\ d.units = data.units
  BY AppDataFields
<1>5. Saves(s, d) \/ SaveFails(s, d)
  BY DEF CreateUser, Edit
<1> HIDE DEF d
<1>6. NumbersFree(d, born, extra')
  <2>1. \A j \in DOMAIN data.users \union {i} :
            j <= born \/ (MaxUnits < j /\ j <= MaxUnits + extra')
    BY <1>1, <1>3 DEF NumbersFree
  <2> HIDE DEF i, user
  <2>2. DOMAIN users = DOMAIN data.users \union {i}
    BY PutFacts
  <2> HIDE DEF users
  <2>3. QED
    BY <1>4, <2>1, <2>2 DEF NumbersFree
<1>7. NumbersFree(data', born, extra') /\ NumbersFree(saved', born, extra')
  BY <1>3, <1>5, <1>6 DEF Saves, SaveFails
<1>8. ASSUME failures' = 0 PROVE Peopled(data')
  <2>1. failures = 0 /\ data' = d
    BY <1>1, <1>5, <1>8 DEF Saves, SaveFails
  <2>2. Peopled(data)
    BY <2>1 DEF AccountsInv, UnitsHaveAccounts, Peopled
  <2> HIDE DEF i, user
  <2>3. d.users = Put(data.users, i, user)
        /\ DOMAIN d.units \subseteq DOMAIN data.units \union {user.org}
    BY <1>4
  <2>4. Peopled(d)
    BY <1>2, <2>2, <2>3, PutPeopled
  <2>5. QED
    BY <2>1, <2>4
<1>9. QED
  BY <1>1, <1>7, <1>8 DEF AccountsInv, UnitsHaveAccounts, Peopled

LEMMA DeletePeopled ==
    ASSUME TypeOK, AccountsInv, NEW s \in Slots, NEW u, DeleteTreeNode(s, u), NothingUnsaved'
    PROVE  AccountsInv'
<1> DEFINE gone == Descendants(data.units, u)
           lost == {i \in DOMAIN data.users : data.users[i].org \in gone}
           d == Pruned(data, gone)
<1>1. Saves(s, d) \/ SaveFails(s, d)
  BY DEF DeleteTreeNode, Pruned
<1>2. d.units = Without(data.units, gone) /\ d.users = Without(data.users, lost)
  BY AppDataFields DEF Pruned
<1>3. born' = born /\ extra' = extra
  BY DEF DeleteTreeNode
<1>4. failures' = 0 => failures = 0
  BY <1>1, BoundsAssumption DEF TypeOK, Saves, SaveFails
<1> HIDE DEF d, gone
<1>5. NumbersFree(d, born, extra)
  <2> HIDE DEF lost
  <2>1. QED
    BY <1>2, WithoutFree DEF AccountsInv
<1>6. NumbersFree(data', born, extra) /\ NumbersFree(saved', born, extra)
  BY <1>1, <1>5 DEF Saves, SaveFails, AccountsInv
<1>7. ASSUME failures' = 0 PROVE Peopled(data')
  <2>1. Peopled(data) /\ data' = d
    BY <1>1, <1>4, <1>7 DEF AccountsInv, UnitsHaveAccounts, Peopled, Saves, SaveFails
  <2>2. QED
    BY <1>2, <2>1, WithoutPeopled
<1>8. QED
  BY <1>3, <1>6, <1>7 DEF AccountsInv, UnitsHaveAccounts, Peopled

LEMMA RestartPeopled ==
    ASSUME TypeOK, AccountsInv, Restart, NothingUnsaved'
    PROVE  AccountsInv'
<1>1. data' = Startup(saved) /\ saved' = data' /\ UNCHANGED <<born, extra, failures>>
  BY DEF Restart
<1>2. NumbersFree(data', born, extra)
  BY <1>1, StartupFree DEF AccountsInv
<1>3. ASSUME failures = 0 PROVE Peopled(data')
  <2>1. saved = data /\ Peopled(data)
    BY <1>3 DEF AccountsInv, NothingUnsaved, UnitsHaveAccounts, Peopled
  <2>2. QED
    BY <1>1, <2>1, StartupPeopled
<1>4. QED
  BY <1>1, <1>2, <1>3 DEF AccountsInv, UnitsHaveAccounts, Peopled

\* Every unit has an account to log in with: no other account takes the place of a
\* unit's own, and units and accounts are deleted and dropped together.
THEOREM EveryUnitHasAccount == Spec => []UnitsHaveAccounts
<1>1. Init => AccountsInv
  <2> SUFFICES ASSUME Init PROVE AccountsInv
    OBVIOUS
  <2>1. /\ data = Startup(SeedData) /\ saved = data /\ extra = 0
        /\ born = Cardinality(DOMAIN SeedUnits)
    BY DEF Init
  <2>2. Peopled(data) /\ NumbersFree(data, born, extra)
    BY <2>1, SeedPeopled, StartupPeopled, StartupFree
  <2>3. QED
    BY <2>1, <2>2 DEF AccountsInv, NothingUnsaved, UnitsHaveAccounts, Peopled
<1>2. TypeOK /\ NothingUnsaved' /\ AccountsInv /\ [Next]_vars => AccountsInv'
  <2> SUFFICES ASSUME TypeOK, NothingUnsaved', AccountsInv, [Next]_vars
               PROVE  AccountsInv'
    OBVIOUS
  <2>1. ASSUME NEW s \in Slots, NEW units, NEW items, NEW reviewed,
               Edit(s, AppData(units, data.users, items, reviewed)), extra' = extra,
               DOMAIN units = DOMAIN data.units
        PROVE  AccountsInv'
    <3> DEFINE d == AppData(units, data.users, items, reviewed)
    <3>1. DOMAIN d.units = DOMAIN data.units /\ d.users = data.users
      BY <2>1, AppDataFields
    <3>2. Saves(s, d) \/ SaveFails(s, d)
      BY <2>1 DEF Edit
    <3> HIDE DEF d
    <3>3. born' = born
      BY <2>1 DEF Edit
    <3>4. QED
      BY <2>1, <3>1, <3>2, <3>3, SameAccounts
  <2>2. ASSUME UNCHANGED <<data, saved, born, extra, failures>> PROVE AccountsInv'
    BY <2>2 DEF AccountsInv, NumbersFree, NothingUnsaved, UnitsHaveAccounts
  <2>3. ASSUME NEW s \in Slots, Request(s) PROVE AccountsInv'
    <3>1. CASE (\E i \in UserId : Enter(s, i)) \/ Refuse(s)
               \/ \E v \in 1 .. born : CheckMember(s, v) \/ CheckUpload(s, v)
      BY <2>2, <3>1 DEF Enter, Refuse, CheckMember, CheckUpload
    <3>2. CASE \/ \E tier \in Tiers, role \in Role : CreateRootOrg(s, tier, role)
               \/ \E u \in 1 .. born, tier \in Tiers, role \in Role : CreateChildOrg(s, u, tier, role)
               \/ \E u \in 1 .. born : CreateTreeNode(s, u)
      BY <3>2, NewUnitPeopled DEF CreateRootOrg, CreateChildOrg, CreateTreeNode
    <3>3. CASE \E u \in 1 .. born : DeleteTreeNode(s, u)
      BY <3>3, DeletePeopled
    <3>4. ASSUME NEW u \in 1 .. born, NEW sample \in BOOLEAN, RenameTreeNode(s, u, sample)
          PROVE  AccountsInv'
      <4> DEFINE node == [data.units[u] EXCEPT !.sample = sample]
                 units == Put(data.units, u, node)
      <4>1. u \in DOMAIN data.units /\ extra' = extra
            /\ Edit(s, AppData(units, data.users, data.items, data.reviewed))
        BY <3>4 DEF RenameTreeNode
      <4> HIDE DEF node
      <4>2. DOMAIN units = DOMAIN data.units
        BY <4>1 DEF Put
      <4> HIDE DEF units
      <4>3. QED
        BY <2>1, <4>1, <4>2
    <3>5. CASE \/ \E u \in 1 .. born :
                    (\E kind \in Kind : AddItem(s, kind, u)) \/ ReviewActivity(s, u)
               \/ StoreUpload(s)
      BY <2>1, <3>5 DEF AddItem, ReviewActivity, StoreUpload
    <3>6. CASE \E role \in Role, org \in 0 .. born : CreateUser(s, role, org)
      BY <3>6, CreateUserPeopled
    <3>7. CASE UpdateMember(s)
      BY <3>7, SameAccounts DEF UpdateMember, Edit
    <3>8. QED
      BY <2>3, <3>1, <3>2, <3>3, <3>4, <3>5, <3>6, <3>7 DEF Request
  <2>4. CASE Restart
    BY <2>4, RestartPeopled
  <2>5. CASE UNCHANGED vars
    BY <2>2, <2>5 DEF vars
  <2>6. QED
    BY <2>3, <2>4, <2>5 DEF Next
<1>3. AccountsInv => UnitsHaveAccounts
  BY DEF AccountsInv
<1>4. QED
  BY <1>1, <1>2, <1>3, TypesStay, NothingIsUnsaved, PTL DEF Spec
=============================================================================
