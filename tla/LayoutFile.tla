----------------------------- MODULE LayoutFile -----------------------------
(***************************************************************************)
(* The layouts of the dashboard tree that users save on the server          *)
(* (update_dashboard_tree_state, load_ and save_dashboard_tree_states in    *)
(* src/src/web.rs): one map in memory, written as a whole to one file under *)
(* the write lock.  A layout belongs to a unit, or to the root              *)
(* administrators, so that the accounts of a unit share theirs.             *)
(***************************************************************************)
EXTENDS Naturals

CONSTANTS
    Owners,         \* keys of layouts: a unit, or root
    MaxLayouts,     \* bound: layouts saved
    MaxLayoutFaults \* bound: writes of the file that fail

NoLayout == 0

VARIABLES
    layouts,        \* the map in memory: the number of each owner's last layout
    layoutFile,     \* what the file holds; when empty or torn it is read as no layouts
    writing,        \* the owner whose handler holds the write lock, or NoOwner
    saved,          \* layouts submitted so far
    answered,       \* history: the last layout of each owner that was answered as saved
    layoutHurt,     \* history: the file was left empty
    layoutFaults

layoutVars == <<layouts, layoutFile, writing, saved, answered, layoutHurt, layoutFaults>>

NoOwner == "no owner"

ASSUME LayoutAssumption == NoOwner \notin Owners /\ MaxLayouts \in Nat /\ MaxLayoutFaults \in Nat

Empty == [o \in Owners |-> NoLayout]

LayoutTypeOK ==
    /\ layouts \in [Owners -> 0 .. MaxLayouts] /\ layoutFile \in [Owners -> 0 .. MaxLayouts]
    /\ writing \in Owners \union {NoOwner}
    /\ saved \in 0 .. MaxLayouts /\ answered \in [Owners -> 0 .. MaxLayouts]
    /\ layoutHurt \in BOOLEAN /\ layoutFaults \in 0 .. MaxLayoutFaults

LayoutInit ==
    /\ layouts = Empty /\ layoutFile = Empty /\ answered = Empty
    /\ writing = NoOwner /\ saved = 0 /\ layoutHurt = FALSE /\ layoutFaults = 0

\* update_dashboard_tree_state: the lock, the insertion, and the file emptied to be written.
SaveLayout(o) ==
    /\ writing = NoOwner /\ saved < MaxLayouts
    /\ saved' = saved + 1
    /\ layouts' = [layouts EXCEPT ![o] = saved']
    /\ layoutFile' = Empty
    /\ writing' = o
    /\ UNCHANGED <<answered, layoutHurt, layoutFaults>>

\* Faulty variant: the file gets the layout that was saved, and no other.
LayoutWrittenAlone ==
    /\ writing # NoOwner
    /\ layoutFile' = [Empty EXCEPT ![writing] = layouts[writing]]
    /\ answered' = [answered EXCEPT ![writing] = layouts[writing]]
    /\ layoutHurt' = FALSE
    /\ writing' = NoOwner
    /\ UNCHANGED <<layouts, saved, layoutFaults>>

LayoutWritten ==
    /\ writing # NoOwner
    /\ layoutFile' = layouts
    /\ answered' = [answered EXCEPT ![writing] = layouts[writing]]
    /\ layoutHurt' = FALSE
    /\ writing' = NoOwner
    /\ UNCHANGED <<layouts, saved, layoutFaults>>

\* An error is answered; memory keeps the layout and the file stays empty.
LayoutNotWritten ==
    /\ writing # NoOwner /\ layoutFaults < MaxLayoutFaults
    /\ layoutFaults' = layoutFaults + 1
    /\ layoutHurt' = TRUE
    /\ writing' = NoOwner
    /\ UNCHANGED <<layouts, layoutFile, saved, answered>>

LayoutStep == (\E o \in Owners : SaveLayout(o)) \/ LayoutWritten \/ LayoutNotWritten

\* The process ends; load_dashboard_tree_states will read what the file holds now.  What an
\* emptied file lost is lost, and owed to nobody from here on.
LayoutsReloaded ==
    /\ layouts' = layoutFile
    /\ answered' = IF layoutHurt \/ writing # NoOwner THEN layoutFile ELSE answered
    /\ layoutHurt' = FALSE
    /\ writing' = NoOwner
    /\ UNCHANGED <<layoutFile, saved, layoutFaults>>

----------------------------------------------------------------------------
(* Property. *)

\* No owner's layout in memory is older than the last one that was answered as saved, although
\* every save rewrites the layouts of all others; nor is the one a restart would read, unless
\* the file is being written or its last write failed.
LayoutsKept ==
    /\ \A o \in Owners : layouts[o] >= answered[o]
    /\ (~layoutHurt /\ writing = NoOwner) => \A o \in Owners : layoutFile[o] >= answered[o]
=============================================================================
