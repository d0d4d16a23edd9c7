----------------------------- MODULE TreeLayout -----------------------------
(***************************************************************************)
(* The tree on the dashboard (dashboard_graph_organizations and             *)
(* build_tree_layout in src/src/web.rs): the units that are drawn for a      *)
(* user, a row for each level and a line to each unit from its parent; and   *)
(* the units whose pages, documents and synchronisation the user gets.       *)
(* Units are numbered as they were created, so that parents come first.      *)
(***************************************************************************)
EXTENDS Naturals, Sequences, FiniteSets, SequencesExt

CONSTANTS
    MaxTreeUnits,   \* bound: units in the tree
    Keys,           \* org_sort_key of a name, as a number
    ChildLimit      \* child_limit: the sub-units of one unit that are drawn

ASSUME KeysAreNumbers == Keys \subseteq Nat /\ Keys # {}

Nobody == 0         \* the root's parent, and the unit of a root administrator

VARIABLES
    parent,         \* the parent of each unit; unit 1 is the root
    key             \* the sort key of each unit's name

treeVars == <<parent, key>>

Units == DOMAIN parent

\* The root, whose key is never compared.
TreeInit == parent = <<Nobody>> /\ key = <<CHOOSE k \in Keys : TRUE>>

AddUnit(p, k) ==
    /\ Len(parent) < MaxTreeUnits /\ p \in Units
    /\ parent' = Append(parent, p) /\ key' = Append(key, k)

TreeStep == \E p \in 1 .. MaxTreeUnits, k \in Keys : AddUnit(p, k)

\* The tree by itself.
TreeSpec == TreeInit /\ [][TreeStep]_treeVars

-----------------------------------------------------------------------------
\* ancestor_ids, without the unit itself.
AncestorIds(unit) ==
    LET of[u \in Units] == IF parent[u] = Nobody THEN {} ELSE {parent[u]} \union of[parent[u]]
    IN  of[unit]

\* descendant_ids, with the unit itself.
DescendantIds(unit) == {u \in Units : u = unit \/ unit \in AncestorIds(u)}

\* The tier is the depth, as in the demo tree; forms may choose another, and boxes of a higher
\* tier, side by side, are wider than their places.
Tier(unit) == Cardinality(AncestorIds(unit))

ProfileAccess(user, target) ==
    IF user = Nobody \/ target \in DescendantIds(user) THEN "full"
    ELSE IF target \in AncestorIds(user) THEN "limited"
    ELSE "none"

\* document_view_policy: may the user see the unit's documents.
DocumentViewPolicy(user, target) ==
    \/ user = Nobody \/ user = target
    \/ target \in DescendantIds(user)
    \/ target \in AncestorIds(user)

\* Faulty variant: the ancestors are left out.
OwnBranchOnly(user) == IF user = Nobody THEN Units ELSE DescendantIds(user)

TreeVisibleIds(user) ==
    IF user = Nobody THEN Units ELSE DescendantIds(user) \union AncestorIds(user)

-----------------------------------------------------------------------------
\* Units are sorted by their names' keys.  Equal keys stay as the units were created; in the code
\* they come as a HashSet has them, on which nothing below depends but the names in the boxes.
Before(u, v) == key[u] < key[v] \/ (key[u] = key[v] /\ u < v)

InOrder(some) ==
    [n \in 1 .. Cardinality(some) |->
        CHOOSE u \in some : Cardinality({v \in some : Before(v, u)}) = n - 1]

Children(unit) == {u \in Units : parent[u] = unit}
SortedChildren(unit, among) == InOrder(Children(unit) \cap among)

\* dashboard_graph_organizations: the user's unit and two levels below it, ChildLimit of each.
GraphOrganizations(user) ==
    LET root == IF user = Nobody THEN 1 ELSE user
        drawn(unit) == {u \in Children(unit) :
                           Cardinality({v \in Children(unit) : Before(v, u)}) < ChildLimit}
        below(level) == UNION {drawn(u) : u \in level}
    IN  {root} \union drawn(root) \union below(drawn(root))

\* Faulty variant: a level is sorted as a whole, not under its parents.
LevelsSorted(shown) ==
    LET level[n \in 1 .. Len(parent) + 1] ==
            IF n = 1 THEN InOrder({u \in shown : parent[u] \notin shown})
            ELSE LET above == Range(level[n - 1])
                 IN  InOrder({u \in shown : parent[u] \in above})
        height == CHOOSE h \in 0 .. Len(parent) :
                      level[h + 1] = <<>> /\ \A n \in 1 .. h : level[n] # <<>>
    IN  [n \in 1 .. height |-> level[n]]

\* The sub-units of a level, parent by parent.
NextLevel(row, shown) == FlattenSeq([i \in DOMAIN row |-> SortedChildren(row[i], shown)])

\* The levels of build_tree_layout: the units whose parents are not drawn, then the sub-units
\* of a level, as long as there are any.
Levels(shown) ==
    LET level[n \in 1 .. Len(parent) + 1] ==
            IF n = 1 THEN InOrder({u \in shown : parent[u] \notin shown})
            ELSE NextLevel(level[n - 1], shown)
        height == CHOOSE h \in 0 .. Len(parent) :
                      level[h + 1] = <<>> /\ \A n \in 1 .. h : level[n] # <<>>
    IN  [n \in 1 .. height |-> level[n]]

HorizontalGap == 172
VerticalGap == 158
MarginX == 150
MarginY == 130
AtLeast(n, least) == IF n < least THEN least ELSE n
Widest(rows) == CHOOSE w \in {Len(rows[i]) : i \in DOMAIN rows} :
                    \A i \in DOMAIN rows : Len(rows[i]) <= w

ViewboxWidth(rows) == AtLeast((Widest(rows) - 1) * HorizontalGap + MarginX * 2, 900)
ViewboxHeight(rows) == AtLeast((Len(rows) - 1) * VerticalGap + MarginY * 2, 640)

\* The middle of each unit's box.  All distances are even, so that halves are whole.
Nodes(rows) ==
    LET unit(n, i) == rows[n][i]
        startX(n) == (ViewboxWidth(rows) \div 2) - ((Len(rows[n]) - 1) * HorizontalGap) \div 2
    IN  UNION {{[org |-> unit(n, i), x |-> startX(n) + (i - 1) * HorizontalGap,
                 y |-> MarginY + (n - 1) * VerticalGap] : i \in DOMAIN rows[n]}
                   : n \in DOMAIN rows}

Edges(nodes) ==
    {e \in [from : nodes, to : nodes] : parent[e.to.org] = e.from.org}

\* node_box_size: width and height.
NodeBoxSize(tier) ==
    CASE tier = 0 -> <<220, 86>> [] tier = 1 -> <<158, 64>> [] tier = 2 -> <<132, 54>>
      [] tier = 3 -> <<108, 46>> [] OTHER -> <<78, 34>>

-----------------------------------------------------------------------------
(* The drawing, for every user: each unit that should be shown has one box,   *)
(* inside the picture, a level lower than its parent's; boxes do not overlap  *)
(* and the lines of a level do not cross ("các đường nối không chồng chéo").  *)
DrawingIsClear ==
    \A user \in Units \union {Nobody} :
        LET shown == GraphOrganizations(user)
            rows == Levels(shown)
            nodes == Nodes(rows)
            edges == Edges(nodes)
            size(n) == NodeBoxSize(Tier(n.org))
            apart(a, b, n) == 2 * (AtLeast(a, b) - (IF a < b THEN a ELSE b)) >= n
        IN  /\ Cardinality(nodes) = Cardinality(shown) /\ {n.org : n \in nodes} = shown
            /\ Cardinality(edges) + 1 = Cardinality(shown)
            /\ \A e \in edges : e.to.y = e.from.y + VerticalGap
            /\ \A n \in nodes :
                   /\ 2 * n.x >= size(n)[1] /\ 2 * (n.x + size(n)[1]) <= 2 * ViewboxWidth(rows) + size(n)[1]
                   /\ n.y <= ViewboxHeight(rows)
            /\ \A n, o \in nodes : n # o =>
                   \/ apart(n.x, o.x, size(n)[1] + size(o)[1])
                   \/ apart(n.y, o.y, size(n)[2] + size(o)[2])
            /\ \A e, f \in edges : e.to.y = f.to.y /\ e.from.x < f.from.x => e.to.x < f.to.x

(* A unit's page, its documents, its tab in the reports and its rows in the    *)
(* synchronisation are open to the same users, though four functions decide   *)
(* it; and what the tree draws, the user may open.                           *)
AccessAgrees ==
    \A user \in Units \union {Nobody}, target \in Units :
        /\ ProfileAccess(user, target) # "none" <=> DocumentViewPolicy(user, target)
        /\ DocumentViewPolicy(user, target) <=> target \in TreeVisibleIds(user)
        /\ target \in GraphOrganizations(user) => ProfileAccess(user, target) = "full"
=============================================================================
