----------------------------- MODULE Documents -----------------------------
(***************************************************************************)
(* The documents of src/src/web.rs: their rows in AppData, the encrypted   *)
(* file each row names, and the tables that a unit above the leaves shows, *)
(* which are computed from those of its children.                          *)
(*                                                                         *)
(* A handler that changes a row and a file writes the file first, then the *)
(* row in memory, then persists; a write may fail, the persist may fail,   *)
(* and the process may be killed between them.  Everything after the write *)
(* lock is one action, with those outcomes; upload_document and            *)
(* update_unit_document_preview check under a read lock first and are two. *)
(*                                                                         *)
(* The text of a table is the set of the entries it lists.  A key stands   *)
(* for the KEM ciphertext and the nonce that one encryption produced: a    *)
(* row opens its file when the two have the same key.  Time, keys and new  *)
(* entries are drawn from one clock.  Of a title and a file name, which    *)
(* every handler but the upload sets together, the model keeps one name.   *)
(***************************************************************************)
EXTENDS Naturals, FiniteSets, Sequences

CONSTANTS
    Parent,         \* unit -> the unit above it, NoUnit for the root
    Later,          \* the units that do not exist at the start
    Samples,        \* the units that ensure_demo_documents fills (c1, c2, c3)
    Users,          \* the unit that a user manages, NoUnit for the root administrator
    Slots,          \* requests between their two locks
    MaxSlot,        \* bound: numbers of shared documents that a request may name
    MaxDocs,        \* bound: documents ever created
    MaxRequests,    \* bound: requests
    MaxFailures,    \* bound: file writes or persists that fail
    MaxRestarts     \* bound: times the process is killed and restarted

NoUnit == 0
Unit == DOMAIN Parent
Doc == 1 .. MaxDocs

ASSUME TreeAssumption ==
    /\ Unit \subseteq Nat \ {0} /\ IsFiniteSet(Unit)
    /\ \A u \in Unit : Parent[u] \in Unit \union {NoUnit} /\ Parent[u] < u
    /\ Later \subseteq Unit /\ Samples \subseteq Unit /\ Users \subseteq Unit \union {NoUnit}
ASSUME BoundsAssumption ==
    /\ MaxSlot \in Nat /\ MaxDocs \in Nat
    /\ MaxRequests \in Nat /\ MaxFailures \in Nat /\ MaxRestarts \in Nat

\* What the code tells apart in a name: the n-th shared document, the unit's
\* own "<unit>.xlsx", another .xlsx, anything else, and a name of the old seed.
Shared(n) == <<"shared", n>>
Main == <<"main", 0>>
List == <<"list", 0>>
Plain == <<"plain", 0>>
Legacy == <<"legacy", 0>>
OwnNames == {Main, List, Plain, Legacy}
Name == ({"shared"} \X Nat) \union OwnNames

Row == [org : Unit, name : Name, text : SUBSET Nat, key : Nat, up : Nat, upd : Nat]

VARIABLES
    units, fresh,   \* the units there are, and those not created yet
    docs,           \* the rows of AppData, in the order of their ids
    files,          \* the key each file on disk was written with; no file, no entry
    saved,          \* what the last successful persist wrote: units and docs
    pend,           \* requests that gave back their read lock
    born,           \* documents ever created
    clock,          \* the last time, key or entry taken
    broken,         \* history: documents a failed write, or a restart, left with another file
    unsaved,        \* history: documents whose file changed since the last persist
    receipts,       \* history: documents answered as stored, not deleted or renamed away since
    said,           \* what the last step answered
    requests, failures, restarts

vars == <<units, fresh, docs, files, saved, pend, born, clock, broken, unsaved,
          receipts, said, requests, failures, restarts>>

Free == [stage |-> "free", unit |-> NoUnit, doc |-> 0, name |-> Plain]
Said(what, unit, doc) == [what |-> what, unit |-> unit, doc |-> doc]
Nothing == Said("nothing", NoUnit, 0)

RowsOK(d) == DOMAIN d \subseteq 1 .. born /\ \A i \in DOMAIN d : d[i] \in Row

TypeOK ==
    /\ units \subseteq Unit /\ fresh \subseteq Unit
    /\ RowsOK(docs) /\ RowsOK(saved.docs) /\ saved.units \subseteq Unit
    /\ DOMAIN files \subseteq 1 .. born /\ \A i \in DOMAIN files : files[i] \in 1 .. clock
    /\ pend \in [Slots -> [stage : {"free", "upload", "edit"}, unit : Unit \union {NoUnit},
                           doc : Nat, name : Name]]
    /\ born \in Nat /\ clock \in Nat
    /\ broken \subseteq 1 .. born /\ unsaved \subseteq 1 .. born /\ receipts \subseteq 1 .. born
    /\ said \in [what : {"nothing", "stored", "synced"}, unit : Unit \union {NoUnit}, doc : Nat]
    /\ requests \in 0 .. MaxRequests
    /\ failures \in 0 .. MaxFailures
    /\ restarts \in 0 .. MaxRestarts

----------------------------------------------------------------------------
(* The tree and the rights. *)

\* The units above each one of us.  A parent that was deleted is the last of them.
Above(us) ==
    LET A[u \in Unit] ==
        IF Parent[u] = NoUnit THEN {}
        ELSE {Parent[u]} \union (IF Parent[u] \in us THEN A[Parent[u]] ELSE {})
    IN A

Children(us, u) == {v \in us : Parent[v] = u}
Ancestors(us, u) == IF u \in us THEN Above(us)[u] ELSE {}
Branch(us, u) == {v \in us : u \in Above(us)[v]} \union {u}

\* can_manage_org, and profile_access = Full, which the root administrator
\* has on every unit.
Manages(user, u) ==
    IF user = NoUnit THEN u \in units ELSE u \in Branch(units, user)

\* profile_access: any.
Sees(user, u) ==
    user = NoUnit \/ Manages(user, u) \/ u \in Ancestors(units, user)

CanUpload(u) == Children(units, u) = {}

----------------------------------------------------------------------------
(* Rows and tables. *)

IsShared(row) == row.name \notin OwnNames

Earlier(d, i, j) == d[i].up < d[j].up \/ (d[i].up = d[j].up /\ i < j)

\* The ids of S in the order of their uploaded_at.
Place(d, S, i) == Cardinality({j \in S : Earlier(d, j, i)}) + 1
InOrder(d, S) == [n \in 1 .. Cardinality(S) |-> CHOOSE i \in S : Place(d, S, i) = n]

Of(d, u) == {i \in DOMAIN d : d[i].org = u}
SharedOf(d, u) == InOrder(d, {i \in Of(d, u) : IsShared(d[i])})

\* Faulty variant: the list that was uploaded last, whatever was edited since.
LatestUploaded(d, S) == CHOOSE i \in S : \A j \in S : d[j].up <= d[i].up

\* latest_local_list_document: the one changed last.
LocalLists(d, u) == {i \in Of(d, u) : d[i].name \in {Main, List}}
Latest(d, S) == CHOOSE i \in S : \A j \in S : d[j].upd <= d[i].upd

MaxOf(S) == CHOOSE n \in S \union {0} : \A k \in S : k <= n

\* The n-th documents of the children that have one, merged: aggregate_shared_slot_preview.
Merged(tables, n) == UNION {tables[v][n] : v \in {x \in DOMAIN tables : n <= Len(tables[x])}}
Longest(tables) == MaxOf({Len(tables[v]) : v \in DOMAIN tables})

\* The documents a leaf shows as its tables, and where the tables above come from.
LeafDocuments(d, u) ==
    LET lists == LocalLists(d, u)
    IN IF lists # {} THEN <<Latest(d, lists)>> ELSE SharedOf(d, u)

\* effective_shared_documents: the texts of the tables of each unit.
Tables(us, d) ==
    LET T[u \in Unit] ==
        LET below == [v \in Children(us, u) |-> T[v]]
            leaf == LeafDocuments(d, u)
        IN IF DOMAIN below = {}
           THEN [n \in 1 .. Len(leaf) |-> d[leaf[n]].text]
           ELSE [n \in 1 .. Longest(below) |-> Merged(below, n)]
    IN T

\* A download opens the file with the key of the row.
Opens(d, f, i) == i \in DOMAIN f /\ f[i] = d[i].key

Put(f, x, v) == [y \in DOMAIN f \union {x} |-> IF y = x THEN v ELSE f[y]]
Without(f, S) == [y \in DOMAIN f \ S |-> f[y]]
NewRow(u, name, text, key, now) ==
    [org |-> u, name |-> name, text |-> text, key |-> key, up |-> now, upd |-> now]

----------------------------------------------------------------------------
(* A start: documents with a name of the old seed go, and each sample unit *)
(* that has no document of its own gets one.                               *)

\* Faulty variant: every document that is not a unit's main list goes.
OldAndOthers(d) == {i \in DOMAIN d : d[i].name # Main}

Old(d) == {i \in DOMAIN d : d[i].name = Legacy}

Lacking(us, d) == {u \in us \intersect Samples : \A i \in Of(d, u) : IsShared(d[i])}

\* Of the units that lack one, the n-th gets document b + n at time now + n.
SampleUnit(us, d, n) ==
    CHOOSE u \in Lacking(us, d) : Cardinality({v \in Lacking(us, d) : v < u}) = n - 1

Started(us, d, b, now) ==
    LET kept == Without(d, Old(d))
        new == {b + n : n \in 1 .. Cardinality(Lacking(us, kept))}
    IN [i \in DOMAIN kept \union new |->
           IF i \in DOMAIN kept THEN kept[i]
           ELSE LET t == now + (i - b)
                IN NewRow(SampleUnit(us, kept, i - b), Main, {t}, t, t)]

\* A start that finds the files f.  It saves only when the number of documents changed.
Start(f, b, now) ==
    LET d == Started(saved.units, saved.docs, b, now)
        new == DOMAIN d \ DOMAIN saved.docs
    IN /\ restarts < MaxRestarts
       /\ restarts' = restarts + 1
       /\ b + Cardinality(new) <= MaxDocs
       /\ units' = saved.units
       /\ docs' = d
       /\ files' = [i \in (DOMAIN f \ Old(saved.docs)) \union new |->
                       IF i \in new THEN d[i].key ELSE f[i]]
       /\ saved' = [saved EXCEPT !.docs =
                       IF Cardinality(DOMAIN d) # Cardinality(DOMAIN @) THEN d ELSE @]
       /\ born' = b + Cardinality(new)
       /\ clock' = now + Cardinality(new)
       /\ unsaved' = {}
       /\ pend' = [s \in Slots |-> Free]
       /\ said' = Nothing
       /\ UNCHANGED failures

----------------------------------------------------------------------------
(* How a handler ends, once it has the write lock: with the data and files *)
(* of o, which it changed so far.  touched are the documents whose files   *)
(* it wrote or removed, gained and lost what its answer would promise.     *)

Same == [units |-> units, docs |-> docs, files |-> files, pend |-> pend,
         born |-> born, clock |-> clock, broken |-> broken, touched |-> {},
         gained |-> {}, lost |-> {}, said |-> Nothing]

InMemory(o) ==
    /\ units' = o.units /\ docs' = o.docs
    /\ pend' = o.pend /\ born' = o.born
    /\ UNCHANGED restarts

Answered(o) ==
    /\ InMemory(o)
    /\ files' = o.files /\ clock' = o.clock /\ broken' = o.broken
    /\ saved' = [units |-> o.units, docs |-> o.docs]
    /\ unsaved' = {}
    /\ receipts' = (receipts \ o.lost) \union o.gained
    /\ said' = o.said
    /\ UNCHANGED failures

\* An error after some files: nothing is persisted, and nothing is undone.
Refused(o) ==
    /\ failures < MaxFailures
    /\ failures' = failures + 1
    /\ InMemory(o)
    /\ unsaved' = unsaved \union o.touched
    /\ receipts' = receipts \ o.lost
    /\ said' = Nothing
    /\ UNCHANGED saved

\* A persist fails, or an encryption, or the write of a file that no row names yet.
PersistFails(o) ==
    /\ Refused(o)
    /\ files' = o.files /\ clock' = o.clock /\ broken' = o.broken

\* The write of the file of document i leaves it truncated.
WriteFails(o, i) ==
    /\ Refused(o)
    /\ files' = Put(o.files, i, o.clock + 1)
    /\ clock' = o.clock + 1
    /\ broken' = o.broken \union {i}

Killed(o) ==
    /\ Start(o.files, o.born, o.clock)
    /\ broken' = o.broken \union unsaved \union o.touched
    /\ receipts' = receipts \ o.lost

Complete(o) == Answered(o) \/ PersistFails(o) \/ Killed(o)

Request ==
    /\ requests < MaxRequests
    /\ requests' = requests + 1

Now == clock + 1

\* Document i gets the row r and a file written with its key.
Stored(o, i, r) ==
    [o EXCEPT !.docs = Put(@, i, r), !.files = Put(@, i, r.key), !.broken = @ \ {i},
              !.touched = @ \union {i}, !.born = IF i > @ THEN i ELSE @, !.clock = @ + 1]

----------------------------------------------------------------------------
(* upload_document *)

EnterUpload(s, user, u) ==
    /\ Request
    /\ pend[s] = Free
    /\ Sees(user, u) /\ CanUpload(u)
    /\ pend' = [pend EXCEPT ![s] =
                   [stage |-> "upload", unit |-> u, doc |-> 0,
                    name |-> IF u \in units THEN Main ELSE List]]
    /\ said' = Nothing
    /\ UNCHANGED <<units, fresh, docs, files, saved, born, clock, broken, unsaved,
                   receipts, failures, restarts>>

Upload(s) ==
    LET p == pend[s]
        same == {i \in Of(docs, p.unit) : docs[i].name = p.name}
        i == IF same = {} THEN born + 1 ELSE CHOOSE j \in same : \A k \in same : j <= k
        free == [Same EXCEPT !.pend[s] = Free]
        o == [Stored(free, i, NewRow(p.unit, p.name, {Now}, Now, Now)) EXCEPT
                 !.gained = {i}, !.said = Said("stored", p.unit, i)]
    IN /\ p.stage = "upload"
       /\ i <= MaxDocs
       /\ \/ Complete(o)
          \/ PersistFails(free)
          \/ same # {} /\ WriteFails(free, i)
       /\ UNCHANGED <<fresh, requests>>

----------------------------------------------------------------------------
(* update_unit_document_preview *)

\* i is a document of the unit or of one above it; n is the number of a computed table,
\* of any unit and with no such table needed.
EnterEdit(s, user, u, i, n) ==
    /\ Request
    /\ pend[s] = Free
    /\ Manages(user, u)
    /\ \/ n = 0 /\ i \in DOMAIN docs /\ docs[i].org \in Ancestors(units, u) \union {u}
       \/ i = 0 /\ n > 0
    /\ pend' = [pend EXCEPT ![s] =
                   [stage |-> "edit", unit |-> u, doc |-> i,
                    name |-> IF n = 0 THEN Plain ELSE Shared(n)]]
    /\ said' = Nothing
    /\ UNCHANGED <<units, fresh, docs, files, saved, born, clock, broken, unsaved,
                   receipts, failures, restarts>>

\* Only the text of a document that is still there changes, not its file.
EditRow(s) ==
    LET p == pend[s]
    IN /\ p.stage = "edit" /\ p.doc \in DOMAIN docs
       /\ Complete([Same EXCEPT !.pend[s] = Free, !.clock = Now,
                       !.docs[p.doc].text = {Now}, !.docs[p.doc].upd = Now,
                       !.said = Said("stored", p.unit, p.doc)])
       /\ UNCHANGED <<fresh, requests>>

\* A computed table becomes a shared document of the unit.
EditComputed(s) ==
    LET p == pend[s]
        i == born + 1
        free == [Same EXCEPT !.pend[s] = Free]
        o == [Stored(free, i, NewRow(p.unit, p.name, {Now}, Now, Now)) EXCEPT
                 !.gained = {i}, !.said = Said("stored", p.unit, i)]
    IN /\ p.stage = "edit" /\ p.doc = 0
       /\ i <= MaxDocs
       /\ Complete(o) \/ PersistFails(free)
       /\ UNCHANGED <<fresh, requests>>

\* The document is gone: the answer is the one of a success.
EditGone(s) ==
    /\ pend[s].stage = "edit" /\ pend[s].doc \notin DOMAIN docs \union {0}
    /\ pend' = [pend EXCEPT ![s] = Free]
    /\ said' = Nothing
    /\ UNCHANGED <<units, fresh, docs, files, saved, born, clock, broken, unsaved,
                   receipts, requests, failures, restarts>>

----------------------------------------------------------------------------
(* apply_profile_document_menu_action *)

OnMenu(user, u, i) == Request /\ Manages(user, u) /\ i \in Of(docs, u)

\* The file goes before the change is persisted.
Delete(user, u, i) ==
    /\ OnMenu(user, u, i)
    /\ Complete([Same EXCEPT !.docs = Without(@, {i}), !.files = Without(@, {i}),
                    !.touched = {i}, !.lost = {i}])
    /\ UNCHANGED fresh

Rename(user, u, i, name) ==
    /\ OnMenu(user, u, i)
    /\ Complete([Same EXCEPT !.clock = Now, !.docs[i].name = name, !.docs[i].upd = Now,
                    !.lost = IF name = Legacy THEN {i} ELSE {}])
    /\ UNCHANGED fresh

\* A blank name, or an action the handler does not know: it persists all the same.
MenuSave(user, u, i) ==
    /\ OnMenu(user, u, i)
    /\ Complete(Same)
    /\ UNCHANGED fresh

\* The document at position n of the unit's order and the next one change places.
\* Faulty variant: the stamps of the two stay as they were.
SwapUnstamped(u, n) ==
    LET order == InOrder(docs, Of(docs, u))
        i == order[n]
        j == order[n + 1]
    IN [docs EXCEPT ![i].up = docs[j].up, ![j].up = docs[i].up]

Swap(u, n) ==
    LET order == InOrder(docs, Of(docs, u))
        i == order[n]
        j == order[n + 1]
    IN [docs EXCEPT ![i].up = docs[j].up, ![j].up = docs[i].up,
                    ![i].upd = Now, ![j].upd = Now]

Move(user, u, n) ==
    /\ OnMenu(user, u, InOrder(docs, Of(docs, u))[n])
    /\ Complete([Same EXCEPT !.clock = Now, !.docs = Swap(u, n)])
    /\ UNCHANGED fresh

----------------------------------------------------------------------------
(* push_profile_document_up: a shared document of the unit, with the bytes *)
(* of its file and the text the page shows, goes to the unit above.        *)

\* The first shared document there that has its name.
Namesakes(i) ==
    {j \in Of(docs, Parent[docs[i].org]) : IsShared(docs[j]) /\ docs[j].name = docs[i].name}

\* Faulty variant: the copy keeps the key that the target had.
PushedWithOldKey(i, j, text) ==
    [docs[j] EXCEPT !.text = text, !.upd = Now, !.name = docs[i].name]

Pushed(i, j, text) ==
    [docs[j] EXCEPT !.text = text, !.upd = Now, !.name = docs[i].name, !.key = docs[i].key]

PushUp(user, u, i, text) ==
    LET twins == Namesakes(i)
        j == IF twins = {} THEN born + 1 ELSE CHOOSE k \in twins : \A l \in twins : k <= l
        row == IF twins = {} THEN NewRow(Parent[u], docs[i].name, text, docs[i].key, Now)
               ELSE Pushed(i, j, text)
        o == [Stored(Same, j, row) EXCEPT
                 !.files[j] = files[i],
                 !.broken = IF i \in broken THEN @ \union {j} ELSE @,
                 !.gained = {j}]
    IN /\ OnMenu(user, u, i)
       /\ u \in units /\ Parent[u] # NoUnit
       /\ IsShared(docs[i]) /\ i \in DOMAIN files
       /\ j \in Doc
       /\ \/ Complete(o)
          \/ PersistFails(Same)
          \/ twins # {} /\ WriteFails(Same, j)
       /\ UNCHANGED fresh

----------------------------------------------------------------------------
(* sync_shared_documents: the n-th documents of the children are merged    *)
(* into the n-th shared document of the unit, which is created when there  *)
(* are fewer.                                                              *)

ChildDocuments(u) == [v \in Children(units, u) |-> InOrder(docs, Of(docs, v))]

\* Faulty variant: a new shared document is made for every slot.
FreshTarget(u, n) == born + n

Target(u, n) ==
    LET shared == SharedOf(docs, u)
    IN IF n <= Len(shared) THEN shared[n] ELSE born + (n - Len(shared))

MergedText(u, n) ==
    LET below == ChildDocuments(u)
    IN UNION {docs[below[v][n]].text : v \in {x \in DOMAIN below : n <= Len(below[x])}}

\* The data after the first n slots, each at a time of its own.
Synced(u, n) ==
    LET targets == {Target(u, k) : k \in 1 .. n}
        had == Len(SharedOf(docs, u))
        slot(i) == CHOOSE k \in 1 .. n : Target(u, k) = i
        row(i) ==
            LET t == clock + slot(i)
                text == MergedText(u, slot(i))
            IN IF i \in DOMAIN docs
               THEN [docs[i] EXCEPT !.text = text, !.key = t, !.upd = t]
               ELSE NewRow(u, Shared(slot(i)), text, t, t)
        d == [i \in DOMAIN docs \union targets |->
                 IF i \in targets THEN row(i) ELSE docs[i]]
    IN [Same EXCEPT
           !.docs = d,
           !.files = [i \in DOMAIN files \union targets |->
                         IF i \in targets THEN d[i].key ELSE files[i]],
           !.broken = @ \ targets,
           !.touched = targets,
           !.born = IF n <= had THEN @ ELSE @ + (n - had),
           !.clock = @ + n]

SyncShared(user, u) ==
    LET slots == Longest(ChildDocuments(u))
        all == Synced(u, slots)
    IN /\ Request
       /\ Manages(user, u)
       /\ slots > 0
       /\ all.born <= MaxDocs
       /\ \/ Complete([all EXCEPT !.gained = all.touched, !.said = Said("synced", u, 0)])
          \/ \E n \in 1 .. slots :
                \/ Target(u, n) \in DOMAIN docs /\ WriteFails(Synced(u, n - 1), Target(u, n))
                \/ PersistFails(Synced(u, n - 1))
                \/ n < slots /\ Killed(Synced(u, n))
       /\ UNCHANGED fresh

----------------------------------------------------------------------------
(* The tree under the documents: create_child_org, delete_tree_node. *)

\* The unit above need not be there any more: only the rights of the request are asked.
CreateUnit(user, u) ==
    /\ Request
    /\ u \in fresh /\ Parent[u] # NoUnit /\ Manages(user, Parent[u])
    /\ fresh' = fresh \ {u}
    /\ Complete([Same EXCEPT !.units = @ \union {u}])

DeleteUnit(user, u) ==
    LET gone == Branch(units, u)
        lost == {i \in DOMAIN docs : docs[i].org \in gone}
    IN /\ Request
       /\ Manages(user, u) /\ Parent[u] # NoUnit
       /\ Complete([Same EXCEPT !.units = @ \ gone, !.docs = Without(@, lost),
                       !.files = Without(@, lost), !.touched = lost, !.lost = lost])
       /\ UNCHANGED fresh

Restart ==
    /\ Killed(Same)
    /\ UNCHANGED <<fresh, requests>>

Init ==
    LET us == Unit \ Later
        d == Started(us, <<>>, 0, 0)
    IN /\ units = us /\ fresh = Later
       /\ docs = d /\ saved = [units |-> us, docs |-> d]
       /\ files = [i \in DOMAIN d |-> d[i].key]
       /\ pend = [s \in Slots |-> Free]
       /\ born = Cardinality(DOMAIN d) /\ clock = Cardinality(DOMAIN d)
       /\ broken = {} /\ unsaved = {} /\ receipts = {}
       /\ said = Nothing
       /\ requests = 0 /\ failures = 0 /\ restarts = 0

Menu(user, u) ==
    \/ \E i \in Of(docs, u) :
          \/ Delete(user, u, i)
          \/ MenuSave(user, u, i)
          \/ \E name \in OwnNames \union {Shared(n) : n \in 1 .. MaxSlot} :
                Rename(user, u, i, name)
          \/ \E text \in {docs[i].text, {Now}} : PushUp(user, u, i, text)
    \/ \E n \in 1 .. Len(InOrder(docs, Of(docs, u))) - 1 : Move(user, u, n)

Next ==
    \/ \E user \in Users, u \in Unit :
          \/ \E s \in Slots :
                \/ EnterUpload(s, user, u)
                \/ \E i \in DOMAIN docs \union {0}, n \in 0 .. MaxSlot :
                      EnterEdit(s, user, u, i, n)
          \/ Menu(user, u)
          \/ SyncShared(user, u)
          \/ CreateUnit(user, u)
          \/ DeleteUnit(user, u)
    \/ \E s \in Slots : Upload(s) \/ EditRow(s) \/ EditComputed(s) \/ EditGone(s)
    \/ Restart

Spec == Init /\ [][Next]_vars
=============================================================================
