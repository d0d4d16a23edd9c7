------------------------------ MODULE OrgTree ------------------------------
(***************************************************************************)
(* The tree of units of src/src/web.rs and the requests that edit it.  A   *)
(* handler first clones its user from AppData (require_session), gives the *)
(* read lock back, and only later takes the write lock, checks the clone's *)
(* rights against the data of that moment, changes the data and persists   *)
(* it.  Two handlers, update_member and upload_document, check under a     *)
(* read lock of their own and do not check again.                          *)
(*                                                                         *)
(* A unit's name, category and dates are left out; sample says whether its *)
(* name is one that ensure_demo_documents fills (c1, c2, c3).  Of members, *)
(* activities and documents the model keeps which units have any.          *)
(***************************************************************************)
EXTENDS Naturals, FiniteSets

CONSTANTS
    SeedUnits,      \* the tree the first start finds or seeds, as in data.units
    MaxUnits,       \* bound: units ever created
    MaxExtraUsers,  \* bound: accounts made by create_user
    Tiers,          \* the tiers the forms of create_root_org, create_child_org send
    Slots,          \* requests in flight
    MaxRequests,    \* bound: requests
    MaxFailures,    \* bound: persist or hash calls that fail
    MaxRestarts     \* bound: times the process is killed and restarted

NoUnit == 0
Unit == 1 .. MaxUnits
Node == [parent : Unit \union {NoUnit}, tier : Nat, sample : BOOLEAN]

Admin == 0
UserId == 0 .. MaxUnits + MaxExtraUsers     \* a unit's own account has its number
Role == {"root_admin", "org_manager"}
User == [role : Role, org : Unit \union {NoUnit}]

Kind == {"member", "activity", "document"}
Item == Kind \X Unit

DroppedTier == 4

ASSUME BoundsAssumption ==
    /\ MaxUnits \in Nat /\ MaxExtraUsers \in Nat /\ MaxRequests \in Nat
    /\ MaxFailures \in Nat /\ MaxRestarts \in Nat /\ Tiers \subseteq Nat
ASSUME SeedAssumption ==
    /\ \E n \in Unit : SeedUnits \in [1 .. n -> Node]
    /\ SeedUnits[1].parent = NoUnit /\ SeedUnits[1].tier = 0

VARIABLES
    data,       \* AppData: units, users, items, reviewed
    saved,      \* what the last successful persist wrote
    pend,       \* the requests in flight
    born,       \* units ever created: ids are fresh
    extra,      \* accounts ever made by create_user
    receipts,   \* history: units (with their tier) answered as created, not deleted since
    deleted,    \* history: units whose deletion was answered
    requests, failures, restarts

vars == <<data, saved, pend, born, extra, receipts, deleted,
          requests, failures, restarts>>

AppData(units, users, items, reviewed) ==
    [units |-> units, users |-> users, items |-> items, reviewed |-> reviewed]

Free == [stage |-> "free", user |-> [role |-> "org_manager", org |-> NoUnit], unit |-> NoUnit]
At(stage, user, unit) == [stage |-> stage, user |-> user, unit |-> unit]
Pending == [stage : {"free", "entered"}, user : User, unit : {NoUnit}]
           \union [stage : {"member", "upload"}, user : User, unit : Unit]

DataOK(d, n) ==
    /\ DOMAIN d.units \subseteq 1 .. n
    /\ \A u \in DOMAIN d.units : d.units[u] \in Node
    /\ DOMAIN d.users \subseteq UserId
    /\ \A i \in DOMAIN d.users : d.users[i] \in User
    /\ d.items \subseteq Item
    /\ d.reviewed \subseteq Unit

TypeOK ==
    /\ DataOK(data, born)
    /\ DataOK(saved, born)
    /\ pend \in [Slots -> Pending]
    /\ born \in Unit
    /\ extra \in 0 .. MaxExtraUsers
    /\ receipts \subseteq (1 .. born) \X Nat
    /\ deleted \subseteq 1 .. born
    /\ requests \in 0 .. MaxRequests
    /\ failures \in 0 .. MaxFailures
    /\ restarts \in 0 .. MaxRestarts

----------------------------------------------------------------------------
(* The tree of models.rs and the rights of web.rs. *)

\* descendant_ids: the least set that holds root and the children of its units.
\* root itself need not be a unit.
Closed(units, S) == \A u \in DOMAIN units : units[u].parent \in S => u \in S
Descendants(units, root) ==
    {x \in DOMAIN units \union {root} :
        \A S \in SUBSET (DOMAIN units \union {root}) :
            root \in S /\ Closed(units, S) => x \in S}

\* ancestor_ids: the parents met on the way up, whether they are units or not.
Ancestors(units, u) ==
    {x \in {units[v].parent : v \in DOMAIN units} \ {NoUnit} :
        u # x /\ u \in DOMAIN units /\ u \in Descendants(units, x)}

VisibleOrgs(user, units) ==
    IF user.role = "root_admin" THEN DOMAIN units
    ELSE IF user.org = NoUnit THEN {} ELSE Descendants(units, user.org)

CanManage(user, u, units) == u \in VisibleOrgs(user, units)

\* profile_access: Full for one's branch, Limited for what is above it.
ProfileAccess(user, u, units) ==
    IF CanManage(user, u, units) \/ user.role = "root_admin" THEN "full"
    ELSE IF user.org # NoUnit /\ u \in Ancestors(units, user.org) THEN "limited"
    ELSE "none"

CanUpload(u, units) == \A v \in DOMAIN units : units[v].parent # u

Put(f, x, v) == [y \in DOMAIN f \union {x} |-> IF y = x THEN v ELSE f[y]]
Without(f, S) == [y \in DOMAIN f \ S |-> f[y]]

----------------------------------------------------------------------------
(* Startup: drop_b_tier_nodes, then ensure_demo_documents. *)

\* Faulty variant: the tier is off by two.
DroppedTooMany(d) == {u \in DOMAIN d.units : d.units[u].tier >= DroppedTier - 2}

Dropped(d) == {u \in DOMAIN d.units : d.units[u].tier >= DroppedTier}
\* Faulty variant: accounts are dropped by a lower tier than units.
StartupDropsAccounts(d) ==
    LET units == Without(d.units, Dropped(d))
        lost == {i \in DOMAIN d.users : d.users[i].org \in DroppedTooMany(d)}
    IN AppData(units, Without(d.users, lost), d.items, d.reviewed)

Startup(d) ==
    LET gone == Dropped(d)
        units == Without(d.units, gone)
        users == Without(d.users, {i \in DOMAIN d.users : d.users[i].org \in gone})
        kept == {x \in d.items : x[1] = "document" \/ x[2] \notin gone}
        demo == {u \in DOMAIN units : units[u].sample}
    IN AppData(units, users, kept \union ({"document"} \X demo),
               d.reviewed \ gone)

SeedData ==
    LET accounts == {Admin} \union DOMAIN SeedUnits IN
    AppData(SeedUnits,
            [i \in accounts |->
                IF i = Admin THEN [role |-> "root_admin", org |-> NoUnit]
                             ELSE [role |-> "org_manager", org |-> i]],
            {"member", "activity"} \X DOMAIN SeedUnits, {})

Init ==
    /\ data = Startup(SeedData)
    /\ saved = data
    /\ pend = [s \in Slots |-> Free]
    /\ born = Cardinality(DOMAIN SeedUnits)
    /\ extra = 0
    /\ receipts = {<<u, data.units[u].tier>> : u \in DOMAIN data.units}
    /\ deleted = {}
    /\ requests = 0
    /\ failures = 0
    /\ restarts = 0

----------------------------------------------------------------------------
(* Requests. *)

\* require_session: the handler keeps a clone of its user.
Enter(s, i) ==
    /\ pend[s].stage = "free"
    /\ requests < MaxRequests
    /\ i \in DOMAIN data.users
    /\ requests' = requests + 1
    /\ pend' = [pend EXCEPT ![s] = At("entered", data.users[i], NoUnit)]
    /\ UNCHANGED <<data, saved, born, extra, receipts, deleted, failures, restarts>>

\* The end of a request: the write lock is held from the check to here.
Finish(s) == pend' = [pend EXCEPT ![s] = Free]

Saves(s, d) ==
    /\ Finish(s)
    /\ data' = d
    /\ saved' = d
    /\ UNCHANGED <<requests, failures, restarts>>

\* persist fails: the error is answered, the change stays in memory.
SaveFails(s, d) ==
    /\ Finish(s)
    /\ failures < MaxFailures
    /\ failures' = failures + 1
    /\ data' = d
    /\ UNCHANGED <<saved, requests, restarts>>

\* A request that creates no unit and deletes none.
Edit(s, d) ==
    /\ Saves(s, d) \/ SaveFails(s, d)
    /\ UNCHANGED <<born, receipts, deleted>>

\* Any early return: wrong token, missing rights, unknown unit.
Refuse(s) ==
    /\ pend[s].stage # "free"
    /\ Finish(s)
    /\ UNCHANGED <<data, saved, born, extra, receipts, deleted,
                   requests, failures, restarts>>

\* Faulty variant: the number of the new unit is not taken.
NewUnitReusesId(s, node, role) ==
    LET u == born + 1 IN
    /\ born < MaxUnits
    /\ Saves(s, AppData(Put(data.units, u, node),
                        Put(data.users, u, [role |-> role, org |-> u]),
                        data.items, data.reviewed))
    /\ UNCHANGED <<born, extra, receipts, deleted>>

\* The unit and its account are pushed, then persisted.  When the password hash
\* fails in between, the unit stays in memory without an account.
NewUnit(s, node, role) ==
    LET u == born + 1
        units == Put(data.units, u, node)
        users == Put(data.users, u, [role |-> role, org |-> u])
        whole == AppData(units, users, data.items, data.reviewed)
        bare == AppData(units, data.users, data.items, data.reviewed)
    IN /\ born < MaxUnits
       /\ born' = u
       /\ \/ Saves(s, whole) /\ receipts' = receipts \union {<<u, node.tier>>}
          \/ (SaveFails(s, whole) \/ SaveFails(s, bare)) /\ UNCHANGED receipts
       /\ UNCHANGED <<extra, deleted>>

CreateRootOrg(s, tier, role) ==
    /\ pend[s].stage = "entered"
    /\ pend[s].user.role = "root_admin"
    /\ NewUnit(s, [parent |-> NoUnit, tier |-> tier, sample |-> FALSE], role)

\* create_child_org does not ask whether the parent still is a unit.
CreateChildOrg(s, parent, tier, role) ==
    /\ pend[s].stage = "entered"
    /\ CanManage(pend[s].user, parent, data.units)
    /\ NewUnit(s, [parent |-> parent, tier |-> tier, sample |-> FALSE], role)

CreateTreeNode(s, parent) ==
    /\ pend[s].stage = "entered"
    /\ CanManage(pend[s].user, parent, data.units)
    /\ parent \in DOMAIN data.units
    /\ NewUnit(s, [parent |-> parent, tier |-> data.units[parent].tier + 1,
                   sample |-> FALSE], "org_manager")

RenameTreeNode(s, u, sample) ==
    /\ pend[s].stage = "entered"
    /\ CanManage(pend[s].user, u, data.units)
    /\ u \in DOMAIN data.units
    /\ Edit(s, AppData(Put(data.units, u, [data.units[u] EXCEPT !.sample = sample]),
                       data.users, data.items, data.reviewed))
    /\ UNCHANGED extra

\* Faulty variant: only direct children are collected.
DeleteOneLevel(s, u) ==
    LET gone == {u} \union {v \in DOMAIN data.units : data.units[v].parent = u} IN
    /\ pend[s].stage = "entered"
    /\ CanManage(pend[s].user, u, data.units)
    /\ ~(u \in DOMAIN data.units /\ data.units[u].tier = 0)
    /\ Saves(s, AppData(Without(data.units, gone),
                        Without(data.users, {i \in DOMAIN data.users : data.users[i].org \in gone}),
                        {x \in data.items : x[2] \notin gone},
                        data.reviewed \ gone))
    /\ deleted' = deleted \union gone
    /\ receipts' = {r \in receipts : r[1] \notin gone}
    /\ UNCHANGED <<born, extra>>

\* delete_tree_node removes the unit, all below it and everything attached.
DeleteTreeNode(s, u) ==
    LET gone == Descendants(data.units, u) IN
    /\ pend[s].stage = "entered"
    /\ CanManage(pend[s].user, u, data.units)
    /\ ~(u \in DOMAIN data.units /\ data.units[u].tier = 0)
    /\ LET d == AppData(Without(data.units, gone),
                        Without(data.users, {i \in DOMAIN data.users : data.users[i].org \in gone}),
                        {x \in data.items : x[2] \notin gone},
                        data.reviewed \ gone)
       IN \/ Saves(s, d) /\ deleted' = deleted \union gone
          \/ SaveFails(s, d) /\ UNCHANGED deleted
    /\ receipts' = {r \in receipts : r[1] \notin gone}
    /\ UNCHANGED <<born, extra>>

\* add_member and add_activity.
AddItem(s, kind, u) ==
    /\ pend[s].stage = "entered"
    /\ kind \in {"member", "activity"}
    /\ CanManage(pend[s].user, u, data.units)
    /\ Edit(s, AppData(data.units, data.users, data.items \union {<<kind, u>>},
                       data.reviewed))
    /\ UNCHANGED extra

\* Faulty variant: the review is not persisted.
ReviewNotSaved(s, u) ==
    /\ pend[s].stage = "entered"
    /\ <<"activity", u>> \in data.items
    /\ CanManage(pend[s].user, u, data.units)
    /\ Finish(s)
    /\ data' = AppData(data.units, data.users, data.items, data.reviewed \union {u})
    /\ UNCHANGED <<saved, born, extra, receipts, deleted, requests, failures, restarts>>

ReviewActivity(s, u) ==
    /\ pend[s].stage = "entered"
    /\ <<"activity", u>> \in data.items
    /\ CanManage(pend[s].user, u, data.units)
    /\ Edit(s, AppData(data.units, data.users, data.items, data.reviewed \union {u}))
    /\ UNCHANGED extra

\* create_user takes any role and any unit number, existing or not.
CreateUser(s, role, org) ==
    /\ pend[s].stage = "entered"
    /\ pend[s].user.role = "root_admin"
    /\ extra < MaxExtraUsers
    /\ extra' = extra + 1
    /\ Edit(s, AppData(data.units,
                       Put(data.users, MaxUnits + extra', [role |-> role, org |-> org]),
                       data.items, data.reviewed))

\* update_member: the check, then, under another lock, the change.
CheckMember(s, u) ==
    /\ pend[s].stage = "entered"
    /\ ProfileAccess(pend[s].user, u, data.units) = "full"
    /\ CanManage(pend[s].user, u, data.units)
    /\ pend' = [pend EXCEPT ![s] = At("member", pend[s].user, u)]
    /\ UNCHANGED <<data, saved, born, extra, receipts, deleted,
                   requests, failures, restarts>>

UpdateMember(s) ==
    /\ pend[s].stage = "member"
    /\ Edit(s, data)
    /\ UNCHANGED extra

\* upload_document: the check, then, under another lock, the row.
\* Faulty variant: units with children take uploads too.
CheckUploadAnywhere(s, u) ==
    /\ pend[s].stage = "entered"
    /\ ProfileAccess(pend[s].user, u, data.units) # "none"
    /\ pend' = [pend EXCEPT ![s] = At("upload", pend[s].user, u)]
    /\ UNCHANGED <<data, saved, born, extra, receipts, deleted,
                   requests, failures, restarts>>

CheckUpload(s, u) ==
    /\ pend[s].stage = "entered"
    /\ ProfileAccess(pend[s].user, u, data.units) # "none"
    /\ CanUpload(u, data.units)
    /\ pend' = [pend EXCEPT ![s] = At("upload", pend[s].user, u)]
    /\ UNCHANGED <<data, saved, born, extra, receipts, deleted,
                   requests, failures, restarts>>

StoreUpload(s) ==
    /\ pend[s].stage = "upload"
    /\ Edit(s, AppData(data.units, data.users,
                       data.items \union {<<"document", pend[s].unit>>}, data.reviewed))
    /\ UNCHANGED extra

\* The process is killed and started again on what was saved.
Restart ==
    /\ restarts < MaxRestarts
    /\ restarts' = restarts + 1
    /\ data' = Startup(saved)
    /\ saved' = data'
    /\ pend' = [s \in Slots |-> Free]
    /\ UNCHANGED <<born, extra, receipts, deleted, requests, failures>>

Request(s) ==
    \/ \E i \in UserId : Enter(s, i)
    \/ Refuse(s)
    \/ \E tier \in Tiers, role \in Role : CreateRootOrg(s, tier, role)
    \/ \E u \in 1 .. born, tier \in Tiers, role \in Role : CreateChildOrg(s, u, tier, role)
    \/ \E u \in 1 .. born :
         \/ CreateTreeNode(s, u)
         \/ \E sample \in BOOLEAN : RenameTreeNode(s, u, sample)
         \/ DeleteTreeNode(s, u)
         \/ \E kind \in Kind : AddItem(s, kind, u)
         \/ ReviewActivity(s, u)
         \/ CheckMember(s, u)
         \/ CheckUpload(s, u)
    \/ \E role \in Role, org \in 0 .. born : CreateUser(s, role, org)
    \/ UpdateMember(s)
    \/ StoreUpload(s)

Next == Restart \/ \E s \in Slots : Request(s)

Spec == Init /\ [][Next]_vars
=============================================================================
