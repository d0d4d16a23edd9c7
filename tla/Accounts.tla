------------------------------ MODULE Accounts ------------------------------
(***************************************************************************)
(* Login names and passwords of src/src/web.rs: who may change them, what  *)
(* the handlers store, and what every start rewrites.  An account knows    *)
(* its password twice: as a hash (here pw) and as the text superiors are   *)
(* shown (plain).                                                          *)
(*                                                                         *)
(* The tree is a set of units that may shrink and grow and be renamed; the *)
(* login codes of units are constants.  Names are looked up in the order   *)
(* of the table, which is the order of creation: the lowest id first.      *)
(***************************************************************************)
EXTENDS Naturals, FiniteSets

CONSTANTS
    Unit,           \* units that may exist
    Above,          \* for each unit, the units above it
    Code, Label,    \* for each unit, its default login and its first name in lower case
    Labels,         \* what units may be called later, in lower case
    Blank, Zero, Legacy, Bootstrap,     \* the names "", "0", "admin", APP_BOOTSTRAP_USERNAME
    OtherNames,     \* other names that requests send or draw
    BootstrapPassword, OtherPasswords,
    Trim,           \* for each text that is typed, it without the blanks around
    SeedUnits,      \* the units of the first start
    Slots,          \* requests in flight
    MaxAccounts, MaxRequests, MaxFailures, MaxRestarts      \* bounds

NoUnit == "none"
Unknown == "unknown"        \* an empty password_plain

Name == {Blank, Zero, Legacy, Bootstrap} \union OtherNames
            \union {Code[u] : u \in Unit} \union {Label[u] : u \in Unit} \union Labels
Password == {BootstrapPassword} \union OtherPasswords \union Name
Id == 1 .. MaxAccounts
Role == {"root_admin", "org_manager"}
User == [name : Name, pw : Password, plain : Password \union {Unknown},
         role : Role, unit : Unit \union {NoUnit}]

ASSUME TreeAssumption ==
    /\ NoUnit \notin Unit /\ SeedUnits \subseteq Unit
    /\ \A u \in Unit : Above[u] \subseteq Unit \ {u}

ASSUME BoundsAssumption ==
    /\ MaxAccounts \in Nat /\ MaxRequests \in Nat /\ MaxFailures \in Nat /\ MaxRestarts \in Nat
    /\ IsFiniteSet(SeedUnits) /\ Cardinality(SeedUnits) < MaxAccounts

\* The first logins differ: codes are numbers, by a unit's place in the tree, and the
\* bootstrap name is Admin@1999 unless the environment has another.
ASSUME NamesAssumption ==
    /\ Bootstrap \notin {Blank, Zero, Legacy}
    /\ \A u \in Unit : Code[u] \notin {Blank, Legacy}
    /\ \A u \in SeedUnits : Code[u] # Bootstrap
    /\ \A u, v \in SeedUnits : u # v => Code[u] # Code[v]

ASSUME TrimAssumption ==
    /\ Trim \in [Password -> Password] /\ \A text \in Password : Trim[Trim[text]] = Trim[text]
    /\ \A name \in Name : Trim[name] \in Name

VARIABLES
    data,       \* AppData: units, what they are called, and users
    saved,      \* what the last successful persist wrote
    pend,       \* the requests in flight: the id and clone of their user
    made,       \* accounts ever made
    told,       \* history: for each account, the logins its holder may have been told
    called,     \* history: what units have ever been called, as <<unit, label>>
    odd,        \* history: whether an administrator was named as no start leaves one
    requests, failures, restarts

vars == <<data, saved, pend, made, told, called, odd, requests, failures, restarts>>

Data(units, labels, users) == [units |-> units, labels |-> labels, users |-> users]
Idle == [stage |-> "free"]
Login(user) == <<user.name, user.pw>>

UsersOK(users) == /\ DOMAIN users \subseteq 1 .. made
                  /\ \A i \in DOMAIN users : users[i] \in User
UnitsOK(d) == d.units \subseteq Unit /\ d.labels \in [Unit -> Name]
TypeOK ==
    /\ UnitsOK(data) /\ UsersOK(data.users)
    /\ UnitsOK(saved) /\ UsersOK(saved.users)
    /\ \A s \in Slots : pend[s] # Idle => pend[s].id \in 1 .. made /\ pend[s].user \in User
    /\ made \in Id
    /\ DOMAIN told = 1 .. made
    /\ \A i \in 1 .. made : told[i] \subseteq Name \X Password
    /\ called \subseteq Unit \X Name
    /\ odd \in BOOLEAN
    /\ requests \in 0 .. MaxRequests
    /\ failures \in 0 .. MaxFailures
    /\ restarts \in 0 .. MaxRestarts

Put(f, x, v) == [y \in DOMAIN f \union {x} |-> IF y = x THEN v ELSE f[y]]
Least(S) == CHOOSE i \in S : \A j \in S : i <= j

Branch(units, u) == {v \in units : u \in Above[v]} \union {u}

\* tree_visible_ids: one's branch and all above it.
TreeVisible(user, units) ==
    IF user.role = "root_admin" THEN units
    ELSE IF user.unit = NoUnit THEN {}
    ELSE Branch(units, user.unit) \union Above[user.unit]

CanManage(user, u, units) ==
    IF user.role = "root_admin" THEN u \in units
    ELSE user.unit # NoUnit /\ u \in Branch(units, user.unit)

----------------------------------------------------------------------------
(* What a start does to the accounts it finds. *)

Admins(users, name) ==
    {i \in DOMAIN users : users[i].role = "root_admin" /\ users[i].name = name}

\* ensure_bootstrap_admin: the first administrator named admin gets the bootstrap
\* login; the displayed password is left as it was.
EnsureBootstrapAdmin(users) ==
    IF Admins(users, Legacy) # {}
    THEN [users EXCEPT ![Least(Admins(users, Legacy))].name = Bootstrap,
                       ![Least(Admins(users, Legacy))].pw = BootstrapPassword]
    ELSE users

\* normalize_org_node_credentials, one account after the other: owner is the map
\* usernames_in_use, in which a name has one owner.
Owners(users) ==
    [n \in {users[i].name : i \in DOMAIN users} |->
        CHOOSE i \in DOMAIN users : /\ users[i].name = n
                                    /\ \A j \in DOMAIN users : users[j].name = n => j <= i]

Renamed(st, i, name) ==
    LET old == st.users[i].name IN
    [users |-> [st.users EXCEPT ![i].name = name],
     owner |-> Put([n \in DOMAIN st.owner \ {old} |-> st.owner[n]], name, i)]

NormalizeOne(d, st, i) ==
    LET user == st.users[i]
        free == user.unit \in d.units
                /\ (Code[user.unit] \in DOMAIN st.owner => st.owner[Code[user.unit]] = i)
    IN CASE user.role = "root_admin" /\ user.unit = NoUnit ->
                IF user.name \in {Blank, Zero} THEN Renamed(st, i, Legacy) ELSE st
         [] user.unit # NoUnit /\ free /\ user.name \in {Blank, d.labels[user.unit]} ->
                Renamed(st, i, Code[user.unit])
         [] OTHER -> st

Normalize(d, users) ==
    LET after[n \in 0 .. MaxAccounts] ==
            IF n = 0 THEN [users |-> users, owner |-> Owners(users)]
            ELSE IF n \in DOMAIN users THEN NormalizeOne(d, after[n - 1], n)
            ELSE after[n - 1]
    IN after[MaxAccounts].users

Startup(d) == Data(d.units, d.labels, Normalize(d, EnsureBootstrapAdmin(d.users)))

\* The names that no start leaves an administrator.
Reserved(user, name) ==
    /\ user.role = "root_admin"
    /\ name \in {Blank, Legacy} \/ (user.unit = NoUnit /\ name = Zero)

\* The names a start may take from such an account: those, and its unit's, among labels.
Rewritten(labels, user, name) ==
    \/ Reserved(user, name)
    \/ user.unit # NoUnit /\ (name = Blank \/ <<user.unit, name>> \in labels)

\* The first start: the bootstrap administrator and an account for each unit.
Init ==
    /\ \E number \in [SeedUnits -> 2 .. Cardinality(SeedUnits) + 1] :
        /\ \A u, v \in SeedUnits : u # v => number[u] # number[v]
        /\ \A u, v \in SeedUnits : u \in Above[v] => number[u] < number[v]
        /\ LET unitOf(i) == CHOOSE u \in SeedUnits : number[u] = i
               users == [i \in 1 .. Cardinality(SeedUnits) + 1 |->
                   IF i = 1
                   THEN [name |-> Bootstrap, pw |-> BootstrapPassword, plain |-> BootstrapPassword,
                         role |-> "root_admin", unit |-> NoUnit]
                   ELSE [name |-> Code[unitOf(i)], pw |-> Code[unitOf(i)], plain |-> Code[unitOf(i)],
                         role |-> "org_manager", unit |-> unitOf(i)]]
           IN /\ data = Data(SeedUnits, [u \in Unit |-> Label[u]], users)
              /\ told = [i \in DOMAIN users |-> {Login(users[i])}]
    /\ saved = data
    /\ made = Cardinality(SeedUnits) + 1
    /\ pend = [s \in Slots |-> Idle]
    /\ called = {<<u, Label[u]>> : u \in SeedUnits}
    /\ odd = FALSE
    /\ requests = 0
    /\ failures = 0
    /\ restarts = 0

----------------------------------------------------------------------------
(* Requests. *)

\* require_session: the handler keeps a clone of its user.
Enter(s, i) ==
    /\ pend[s] = Idle
    /\ requests < MaxRequests
    /\ i \in DOMAIN data.users
    /\ requests' = requests + 1
    /\ pend' = [pend EXCEPT ![s] = [stage |-> "entered", id |-> i, user |-> data.users[i]]]
    /\ UNCHANGED <<data, saved, made, told, called, odd, failures, restarts>>

Entered(s) == pend[s].stage = "entered"
Finish(s) == pend' = [pend EXCEPT ![s] = Idle] /\ UNCHANGED <<requests, restarts>>

Refuse(s) ==
    /\ Entered(s)
    /\ Finish(s)
    /\ UNCHANGED <<data, saved, made, told, called, odd, failures>>

Persist(d) ==
    /\ data' = d
    /\ \/ saved' = d /\ UNCHANGED failures
       \/ failures < MaxFailures /\ failures' = failures + 1 /\ UNCHANGED saved

\* Account i becomes user; the answer tells the login that was typed, a failed save does not.
Store(s, d, i, user, login) ==
    /\ Finish(s)
    /\ Persist(d)
    /\ odd' = (odd \/ Reserved(user, user.name))
    /\ LET before == IF failures' # failures /\ i \in DOMAIN told THEN told[i] ELSE {}
       IN  told' = Put(told, i, {login} \union before)

SetUser(s, i, user, login) ==
    /\ Store(s, Data(data.units, data.labels, [data.users EXCEPT ![i] = user]), i, user, login)
    /\ UNCHANGED <<made, called>>

Taken(name, i) == \E j \in DOMAIN data.users \ {i} : data.users[j].name = name

\* Faulty variant: the clone is written back.
UpdatePasswordClone(s, typed) ==
    LET i == pend[s].id
        pw == Trim[typed]
        user == [pend[s].user EXCEPT !.pw = pw, !.plain = pw]
    IN  /\ Entered(s)
        /\ pw # Blank
        /\ i \in DOMAIN data.users
        /\ SetUser(s, i, user, <<data.users[i].name, typed>>)

\* update_password_settings asks for the current password of the clone, and takes what is
\* typed there without blanks: a password that create_user stored with some never passes.
UpdatePassword(s, typed) ==
    LET i == pend[s].id
        pw == Trim[typed]
        user == [data.users[i] EXCEPT !.pw = pw, !.plain = pw]
    IN  /\ Entered(s)
        /\ Trim[pend[s].user.pw] = pend[s].user.pw
        /\ pw # Blank
        /\ i \in DOMAIN data.users
        /\ SetUser(s, i, user, <<user.name, typed>>)

\* Faulty variant: the name is checked against the units' logins only.
UpdateUsernameUnchecked(s, typed) ==
    LET i == pend[s].id
        user == [data.users[i] EXCEPT !.name = Trim[typed]]
    IN  /\ Entered(s)
        /\ Trim[typed] # Blank
        /\ i \in DOMAIN data.users
        /\ SetUser(s, i, user, <<typed, user.pw>>)

UpdateUsername(s, typed) ==
    LET i == pend[s].id
        user == [data.users[i] EXCEPT !.name = Trim[typed]]
    IN  /\ Entered(s)
        /\ Trim[typed] # Blank
        /\ i \in DOMAIN data.users
        /\ ~Taken(Trim[typed], i)
        /\ SetUser(s, i, user, <<typed, user.pw>>)

\* update_dashboard_tree_user_credentials: the first account of a visible unit.
UpdateTreeCredentials(s, u, name, pw) ==
    LET accounts == {i \in DOMAIN data.users : data.users[i].unit = u}
        i == Least(accounts)
    IN  /\ Entered(s)
        /\ Trim[name] # Blank /\ Trim[pw] # Blank
        /\ u \in data.units
        /\ u \in TreeVisible(pend[s].user, data.units)
        /\ accounts # {}
        /\ ~Taken(Trim[name], i)
        /\ SetUser(s, i, [data.users[i] EXCEPT !.name = Trim[name], !.pw = Trim[pw]], <<name, pw>>)

Push(s, units, labels, user) ==
    /\ made < MaxAccounts
    /\ made' = made + 1
    /\ Store(s, Data(units, labels, Put(data.users, made', user)), made', user, Login(user))

\* create_user takes any text as name, password and unit.
CreateUser(s, name, pw, role, unit) ==
    /\ Entered(s)
    /\ pend[s].user.role = "root_admin"
    /\ ~Taken(name, 0)
    /\ Push(s, data.units, data.labels,
            [name |-> name, pw |-> pw, plain |-> pw, role |-> role, unit |-> unit])
    /\ UNCHANGED called

\* create_tree_node draws a login that no account has; that 51 draws in a row are
\* taken is left out.
CreateTreeNode(s, u, name, label) ==
    /\ Entered(s)
    /\ u \notin data.units /\ \A i \in DOMAIN data.users : data.users[i].unit # u
    /\ \E p \in Above[u] : CanManage(pend[s].user, p, data.units)
    /\ Above[u] \subseteq data.units
    /\ ~Taken(name, 0)
    /\ Push(s, data.units \union {u}, [data.labels EXCEPT ![u] = label],
            [name |-> name, pw |-> name, plain |-> name, role |-> "org_manager", unit |-> u])
    /\ called' = called \union {<<u, label>>}

\* rename_tree_node does not look at the accounts.
RenameTreeNode(s, u, label) ==
    /\ Entered(s)
    /\ CanManage(pend[s].user, u, data.units) /\ u \in data.units
    /\ Finish(s)
    /\ Persist(Data(data.units, [data.labels EXCEPT ![u] = label], data.users))
    /\ called' = called \union {<<u, label>>}
    /\ UNCHANGED <<made, told, odd>>

\* delete_tree_node takes the accounts of the branch along.
DeleteTreeNode(s, u) ==
    LET gone == Branch(data.units, u)
        d == Data(data.units \ gone, data.labels,
                  [i \in {j \in DOMAIN data.users : data.users[j].unit \notin gone} |-> data.users[i]])
    IN /\ Entered(s)
       /\ CanManage(pend[s].user, u, data.units)
       /\ Above[u] # {}
       /\ Finish(s)
       /\ Persist(d)
       /\ UNCHANGED <<made, told, called, odd>>

Restart ==
    /\ restarts < MaxRestarts
    /\ restarts' = restarts + 1
    /\ data' = Startup(saved)
    /\ saved' = data'
    /\ pend' = [s \in Slots |-> Idle]
    /\ UNCHANGED <<made, told, called, odd, requests, failures>>

Request(s) ==
    \/ \E i \in Id : Enter(s, i)
    \/ Refuse(s)
    \/ \E pw \in OtherPasswords : UpdatePassword(s, pw)
    \/ \E name \in Name : UpdateUsername(s, name)
    \/ \E u \in Unit, name \in Name, pw \in OtherPasswords : UpdateTreeCredentials(s, u, name, pw)
    \/ \E name \in Name, pw \in OtherPasswords, role \in Role, unit \in Unit \union {NoUnit} :
            CreateUser(s, name, pw, role, unit)
    \/ \E u \in Unit, name \in OtherNames, label \in Labels : CreateTreeNode(s, u, name, label)
    \/ \E u \in Unit, label \in Labels : RenameTreeNode(s, u, label)
    \/ \E u \in Unit : DeleteTreeNode(s, u)

Next == Restart \/ \E s \in Slots : Request(s)

Spec == Init /\ [][Next]_vars

----------------------------------------------------------------------------

Plain(login) == Trim[login[1]] = login[1] /\ Trim[login[2]] = login[2]

\* The login that an account's holder was told last is the account's, in memory and
\* on disk, whatever other requests, failed saves and restarts came between, unless
\* it is a name that a start takes away, be it that the unit was called so later, or
\* was typed with blanks around, which the handlers drop and a login does not.
ToldLoginWorks ==
    \A d \in {data, saved} : \A i \in DOMAIN d.users :
        (\A l \in told[i] : Plain(l) /\ ~Rewritten(called, d.users[i], l[1])) =>
            Login(d.users[i]) \in told[i]

\* No two accounts have the same name, so that login finds the right one: every
\* handler checks all others, and a start gives a unit's account its number only
\* if nobody has it; an administrator's new name it does not look up.
NamesDistinct ==
    ~odd => \A d \in {data, saved} : \A i, j \in DOMAIN d.users :
                i # j => d.users[i].name # d.users[j].name
=============================================================================
