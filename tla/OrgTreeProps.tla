---------------------------- MODULE OrgTreeProps ----------------------------
(* The properties of OrgTree. *)
EXTENDS OrgTree

Ends(s) == pend[s].stage # "free" /\ pend'[s].stage = "free" /\ restarts' = restarts

\* From d to e, only the branch changes.
Within(branch, d, e) ==
    LET before == DOMAIN d.units
        after == DOMAIN e.units
    IN /\ before \ after \subseteq branch
       /\ \A u \in after \ before : e.units[u].parent \in branch
       /\ \A u \in after \intersect before : e.units[u] # d.units[u] => u \in branch
       /\ \A i \in DOMAIN d.users \ DOMAIN e.users : d.users[i].org \in branch
       /\ \A x \in d.items \ e.items : x[2] \in branch
       /\ \A x \in e.items \ d.items :
            x[2] \in branch \/ (x[1] = "document" /\ x[2] \notin before)

\* A manager's request, whose rights were cloned before the lock, changes nothing
\* outside the branch of its unit as the tree stands when it changes it; only an
\* upload may also reach a unit that was deleted since its check.
ChangesStayInBranch ==
    [][\A s \in Slots :
        Ends(s) /\ pend[s].user.role = "org_manager" =>
            Within(VisibleOrgs(pend[s].user, data.units), data, data')]_vars

\* Deleting a unit leaves nothing that hangs on it: no unit below it, no account,
\* member, activity or document.
DeletionIsWhole ==
    [][restarts' = restarts =>
        \A u \in DOMAIN data.units \ DOMAIN data'.units :
          /\ \A v \in DOMAIN data'.units : data'.units[v].parent # u
          /\ \A i \in DOMAIN data'.users : data'.users[i].org # u
          /\ \A x \in data'.items : x[2] # u]_vars

\* The root cannot be deleted, neither directly nor with the branch of another unit.
RootStays == 1 \in DOMAIN data.units /\ 1 \in DOMAIN saved.units

\* A unit whose creation was answered and that nobody asked to delete is there,
\* after any failed save and any restart, unless its tier is one a start drops.
AnsweredUnitsStay ==
    \A r \in receipts : r[2] < DroppedTier =>
        r[1] \in DOMAIN data.units /\ r[1] \in DOMAIN saved.units

\* Every handler that changes the data persists it before it answers: as long as
\* no save failed, memory and disk agree after every request.
NothingUnsaved == failures = 0 => saved = data

\* Every unit has an account to log in with, unless a hash or a save failed.
UnitsHaveAccounts ==
    failures = 0 =>
        \A u \in DOMAIN data.units : \E i \in DOMAIN data.users : data.users[i].org = u

\* What makes the above inductive: the root is of tier 0 and below nothing, a unit
\* that was answered keeps its tier, and a checked upload goes to the branch of its
\* user or to a unit that is gone, however the tree changed since.
RootInPlace(d) ==
    1 \in DOMAIN d.units /\ d.units[1].tier = 0 /\ d.units[1].parent = NoUnit

ReceiptsKept(d) ==
    \A r \in receipts : r[2] < DroppedTier =>
        r[1] \in DOMAIN d.units /\ d.units[r[1]].tier = r[2]

UploadsInBranch ==
    \A s \in Slots : pend[s].stage = "upload" =>
        /\ pend[s].unit \in 1 .. born
        /\ \/ pend[s].user.role = "root_admin"
           \/ pend[s].unit \in VisibleOrgs(pend[s].user, data.units)
           \/ pend[s].unit \notin DOMAIN data.units

TreeInv ==
    /\ RootInPlace(data) /\ RootInPlace(saved)
    /\ ReceiptsKept(data) /\ ReceiptsKept(saved)
    /\ UploadsInBranch

\* HUONG-DAN-SU-DUNG.md: deleting a unit deletes its whole branch with all members,
\* documents and accounts, and cannot be undone.
DeletedStaysGone ==
    \A u \in deleted :
        /\ u \notin DOMAIN data.units
        /\ \A v \in DOMAIN data.units : data.units[v].parent # u
        /\ \A i \in DOMAIN data.users : data.users[i].org # u
        /\ \A x \in data.items : x[2] # u
=============================================================================
