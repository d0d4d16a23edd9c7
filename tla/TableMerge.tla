----------------------------- MODULE TableMerge -----------------------------
(***************************************************************************)
(* The merging of the tables of sub-units (aggregate_shared_slot_preview in  *)
(* src/src/web.rs): one row of column names on top, the entries of all the   *)
(* units below it, in their order or sorted, numbered anew, and the          *)
(* activities of the units collected in one cell.  Merged tables are merged  *)
(* again on the way up.  The merging knows columns by their place only: when *)
(* tables of different columns meet, numbers and activities go where the     *)
(* names on top have them.  SheetText models how a table becomes text.       *)
(***************************************************************************)
EXTENDS Naturals, Sequences, FiniteSets, SequencesExt

CONSTANTS
    Leaves,         \* the units with tables of their own, a sequence
    Layouts,        \* the rows of column names that tables may have: sequences of names
    Keywords,       \* those of the names that HEADER_ROW_KEYWORDS has
    Stt,            \* the column of the numbers
    Activity,       \* the column of the unit's activities
    TitleText,      \* what a title says
    Records,        \* the rows that may be typed in: sequences of cells
    Rank,           \* the texts of Records in alphabetical order, as numbers
    Methods,        \* orders of a merged table: "unit", "name" and "age"
    MaxEntries      \* bound: entries typed in all the tables

\* A cell is the sequence of its lines, without blanks and blank lines; some lines are numbers.
ColumnNames == UNION {Range(layout) : layout \in Layouts}
RecordLines == UNION {UNION {Range(cell) : cell \in Range(cells)} : cells \in Records}

ASSUME SomeLeaves == Leaves \in Seq(Range(Leaves)) /\ Leaves # <<>>
ASSUME LayoutsAreNames ==
    \A layout \in Layouts : layout \in Seq(ColumnNames) /\ Len(layout) > 1
ASSUME RecordsAreCells == Records \subseteq Seq(Seq(RecordLines))
\* Accents make the difference between the names of Keywords and others.
ASSUME NamesDiffer ==
    /\ (ColumnNames \union {TitleText}) \intersect (RecordLines \union Nat) = {}
    /\ TitleText \notin ColumnNames \union Keywords \union {Stt, Activity} /\ Stt # Activity
    /\ Keywords \intersect (RecordLines \union Nat) = {}
ASSUME RankIsOrder == Rank \in [RecordLines \ Nat -> Nat]

NoOne == 0

\* A row, with the number of the entry that it is, which no table shows.
Row(who, cells) == [who |-> who, cells |-> cells]
Title == Row(NoOne, << <<TitleText>> >>)
Names(layout) == Row(NoOne, [c \in DOMAIN layout |-> <<layout[c]>>])

\* How tables begin: with column names, or with a title above them.
Tops == {<<Names(layout)>> : layout \in Layouts}
            \union {<<Title, Names(layout)>> : layout \in Layouts}

VARIABLES
    tables,         \* the rows of each leaf's table
    entered         \* entries typed

tableVars == <<tables, entered>>

\* Two cells that are known names make a row of column names.
LooksLikeHeaderRow(row) ==
    \E c, d \in DOMAIN row.cells :
        /\ c # d
        /\ \A e \in {c, d} : row.cells[e] \in {<<name>> : name \in Keywords}

-----------------------------------------------------------------------------
\* The elements of s at the places in I, in their order.  SelectSeq takes an operator, of
\* which nothing could be proved.
Kept(s, I) == FlattenSeq([i \in DOMAIN s |-> IF i \in I THEN <<s[i]>> ELSE <<>>])

\* A table as it is read: without the rows that show nothing.
Shown(rows) == Kept(rows, {i \in DOMAIN rows : Range(rows[i].cells) \ {<<>>} # {}})

FirstHeaderOf(rows) ==
    IF \E i \in DOMAIN rows : LooksLikeHeaderRow(rows[i])
    THEN CHOOSE i \in DOMAIN rows : /\ LooksLikeHeaderRow(rows[i])
                                    /\ \A k \in 1 .. i - 1 : ~LooksLikeHeaderRow(rows[k])
    ELSE 0

\* The header of the merged table: the first that is known, else the first row of all.
HeaderOf(docs) ==
    LET known == Kept(docs, {i \in DOMAIN docs : FirstHeaderOf(docs[i]) # 0})
        filled == Kept(docs, {i \in DOMAIN docs : docs[i] # <<>>})
    IN  IF known # <<>> THEN << known[1][FirstHeaderOf(known[1])] >>
        ELSE IF filled # <<>> THEN << filled[1][1] >> ELSE <<>>

\* Rows that are no header, be it the chosen one or another that is known.
NoHeaders(rows, header) ==
    Kept(rows, {i \in DOMAIN rows :
                   /\ rows[i].cells \notin {head.cells : head \in Range(header)}
                   /\ ~LooksLikeHeaderRow(rows[i])})

\* Faulty variant: a table whose header is not known keeps its first row.
KnownHeadersOnly(rows, header) ==
    NoHeaders(SubSeq(rows, FirstHeaderOf(rows) + 1, Len(rows)), header)

\* What a table adds: the rows below its header, or below its first row, but for headers.
BodyOf(rows, header) ==
    LET first == IF FirstHeaderOf(rows) = 0 THEN 1 ELSE FirstHeaderOf(rows)
    IN  NoHeaders(SubSeq(rows, first + 1, Len(rows)), header)

\* Places in the order of keys; equal ones stay as they are.
SortedBy(body, keys) ==
    LET before(k) == {i \in DOMAIN body : keys[i] < keys[k] \/ (keys[i] = keys[k] /\ i < k)}
    IN  [n \in DOMAIN body |->
            body[CHOOSE k \in DOMAIN body : Cardinality(before(k)) = n - 1]]

\* Where the first cell is in the order of texts, where "10" stands between "1" and "2" (here
\* for numbers below 100) and numbers before names.
TextKey(row) ==
    LET first == row.cells[1][1]
        digits == IF first < 10 THEN 11 * first ELSE 11 * (first \div 10) + (first % 10) + 1
    IN  IF row.cells = <<>> \/ row.cells[1] = <<>> THEN 0
        ELSE IF first \in Nat THEN 1 + digits
        ELSE IF first \in DOMAIN Rank THEN 200 + Rank[first] ELSE 200

\* extract_age_value: the least number from 18 to 90, be it an age, a day or a place.
AgeOf(row) ==
    LET ages == {n \in UNION {Range(cell) : cell \in Range(row.cells)} : n \in 18 .. 90}
    IN  IF ages = {} THEN 999 ELSE CHOOSE n \in ages : \A other \in ages : n <= other

Ordered(body, method) ==
    CASE method = "name" -> SortedBy(body, [i \in DOMAIN body |-> TextKey(body[i])])
      [] method = "age" -> SortedBy(body, [i \in DOMAIN body |-> AgeOf(body[i])])
      [] OTHER -> body

\* A cell changed in the rows that reach its column.
WithCell(row, c, cell) ==
    IF c \in DOMAIN row.cells THEN [row EXCEPT !.cells[c] = cell] ELSE row

\* renumber_stt_column, where the first column is the number: the first cell of every row is
\* its place, whatever the row has there.
NumbersFirst(header) == \E head \in Range(header) : head.cells # <<>> /\ head.cells[1] = <<Stt>>

RenumberSttColumn(header, body) ==
    IF NumbersFirst(header) THEN [i \in DOMAIN body |-> WithCell(body[i], 1, <<i>>)] ELSE body

\* Each line once, in the order they were met.
Distinct(lines) ==
    Kept(lines, {i \in DOMAIN lines : \A k \in 1 .. i - 1 : lines[k] # lines[i]})

\* The column of activities, 0 where the header has none.
ActivityColumn(header) ==
    LET places == UNION {{c \in DOMAIN head.cells : head.cells[c] = <<Activity>>} :
                            head \in Range(header)}
    IN  IF places = {} THEN 0 ELSE CHOOSE c \in places : \A other \in places : c <= other

LinesOf(body, c) ==
    FlattenSeq([i \in DOMAIN body |-> IF c \in DOMAIN body[i].cells THEN body[i].cells[c] ELSE <<>>])

\* Faulty variant: the first cell is kept instead of the lines of all of them.
KeepFirstActivity(header, body) ==
    LET c == ActivityColumn(header)
    IN  [i \in DOMAIN body |-> IF i = 1 THEN body[i] ELSE WithCell(body[i], c, <<>>)]

\* The first row gets the lines of all, if it has a cell there; else nobody does.
CollapseUnitActivityColumn(header, body) ==
    LET c == ActivityColumn(header)
        activities == Distinct(LinesOf(body, c))
    IN  IF activities = <<>> THEN body
        ELSE [i \in DOMAIN body |-> WithCell(body[i], c, IF i = 1 THEN activities ELSE <<>>)]

Aggregate(docs, method) ==
    LET header == HeaderOf(docs)
        body == Ordered(FlattenSeq([i \in DOMAIN docs |-> BodyOf(docs[i], header)]), method)
    IN  header \o CollapseUnitActivityColumn(header, RenumberSttColumn(header, body))

AggregateSharedSlotPreview(docs, method) ==
    Aggregate([i \in DOMAIN docs |-> Shown(docs[i])], method)

-----------------------------------------------------------------------------
TableInit == tables = [leaf \in DOMAIN Leaves |-> <<>>] /\ entered = 0

UploadTop(leaf, top) ==
    /\ tables[leaf] = <<>>
    /\ tables' = [tables EXCEPT ![leaf] = top]
    /\ UNCHANGED entered

AddEntry(leaf, cells) ==
    /\ entered < MaxEntries /\ entered' = entered + 1
    /\ tables[leaf] # <<>>
    /\ tables' = [tables EXCEPT ![leaf] = Append(@, Row(entered', cells))]

TableStep ==
    \E leaf \in DOMAIN Leaves :
        \/ \E top \in Tops : UploadTop(leaf, top)
        \/ \E cells \in Records : AddEntry(leaf, cells)

\* The tables by themselves.
TableSpec == TableInit /\ [][TableStep]_tableVars

\* What reaches the top: the tables of the last leaf, with the others merged on their way.
Below(method) == AggregateSharedSlotPreview(Front(tables), method)
Top(method) == AggregateSharedSlotPreview(<<Below("unit"), Last(tables)>>, method)

FirstRow(rows) == IF rows = <<>> THEN <<>> ELSE << rows[1] >>

\* The columns that the merging wrote over, by its header: the numbers' and the activities'.
Rewritten(rows) ==
    LET header == FirstRow(rows)
    IN  (IF NumbersFirst(header) THEN {1} ELSE {}) \union ({ActivityColumn(header)} \ {0})

\* The entries that show something outside the columns cols.
Entries(rows, cols) ==
    Kept(rows, {i \in DOMAIN rows :
                   /\ rows[i].who # NoOne
                   /\ \E c \in DOMAIN rows[i].cells \ cols : rows[i].cells[c] # <<>>})

People(rows) == [i \in DOMAIN rows |-> rows[i].who]

\* The rows are the same but for the columns cols.
Alike(row, other, cols) ==
    /\ row.who = other.who /\ DOMAIN row.cells = DOMAIN other.cells
    /\ \A c \in DOMAIN row.cells \ cols : row.cells[c] = other.cells[c]

Titled(rows) == Len(rows) > 1 /\ rows[1] = Title /\ ~LooksLikeHeaderRow(rows[2])

(* What the comments of the merging promise, over two levels and for every     *)
(* order: each entry of each unit is there once and nobody else, in the units' *)
(* order if it is theirs, with every cell outside the columns of numbers and   *)
(* activities as it was typed; and one row of column names stands on top,      *)
(* unless titles hide names that are no keywords.  Only an entry that shows    *)
(* nothing but a number and activities may be left out.                        *)
MergeKeepsEntries ==
    LET cols == Rewritten(Below("unit")) \union Rewritten(Top("unit"))
        typed == FlattenSeq(tables)
        all == People(Entries(typed, cols))
    IN  \A method \in Methods :
            LET top == Top(method)
                shown == People(Entries(top, cols))
            IN  /\ Len(shown) = Len(all) /\ Range(shown) = Range(all)
                /\ method = "unit" => shown = all
                /\ \A i \in DOMAIN top : top[i].who # NoOne =>
                       i > 1 /\ \E j \in DOMAIN typed : Alike(top[i], typed[j], cols)
                /\ (\A leaf \in DOMAIN tables : ~Titled(tables[leaf])) =>
                       \A i \in 2 .. Len(top) : top[i].who # NoOne

HeaderRow(rows) == IF FirstHeaderOf(rows) # 0 THEN rows[FirstHeaderOf(rows)] ELSE rows[1]

(* Nothing that a unit did is lost with the cells that are emptied, where all  *)
(* tables have the same column names and the first entry of each merging has   *)
(* a cell for activities: the cell of the merged table shows every line of     *)
(* every unit's table, each once, and the rows are numbered as they stand.     *)
ActivitiesGoUp ==
    LET filled == Kept(tables, {leaf \in DOMAIN tables : tables[leaf] # <<>>})
        below == Below("unit")
        top == Top("unit")
        col == ActivityColumn(FirstRow(top))
        all == LinesOf(Entries(FlattenSeq(tables), {}), col)
    IN  (/\ Len(top) > 1 /\ col # 0
         /\ \A i, k \in DOMAIN filled : HeaderRow(filled[i]) = HeaderRow(filled[k])
         /\ Len(below) > 1 => col \in DOMAIN below[2].cells
         /\ col \in DOMAIN top[2].cells)
        => /\ LinesOf(Tail(top), col) = Distinct(all)
           /\ \A i \in 3 .. Len(top) : col \in DOMAIN top[i].cells => top[i].cells[col] = <<>>
           /\ NumbersFirst(FirstRow(top)) =>
                  \A i \in 2 .. Len(top) : top[i].cells # <<>> => top[i].cells[1] = << i - 1 >>
=============================================================================
