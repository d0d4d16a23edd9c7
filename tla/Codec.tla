------------------------------- MODULE Codec --------------------------------
(***************************************************************************)
(* Rows to columns and back (src/src/storage.rs): *_to_bytes writes the      *)
(* columns of a table in a fixed order, bytes_to_* reads them by position,   *)
(* and by their number alone tells the layout of an older build from the     *)
(* present one.  What an older table lacks gets a default.                   *)
(*                                                                         *)
(* A row is a function of its fields, a file a sequence of typed columns.    *)
(* The Arrow container around the columns is left out.                       *)
(***************************************************************************)
EXTENDS Naturals, Sequences, Functions

CONSTANTS MaxRows       \* bound: rows of the table

Null == "null"

\* The columns in the order they are written.
OrgColumns == <<"id", "parent_id", "name", "tier", "category", "active", "created_at",
                "updated_at">>
UserColumns == <<"id", "username", "password_hash", "password_plain", "role", "org_id",
                 "tree_key_enabled", "active", "created_at">>
MemberColumns == <<"id", "org_id", "full_name", "title", "year", "active", "notes",
                   "birth_date", "address", "phone", "joined_at", "updated_at">>
ActivityColumns == <<"id", "org_id", "title", "year", "status", "summary", "reviewed",
                     "updated_at">>
DocumentColumns == <<"id", "org_id", "title", "file_name", "mime_type", "preview_text", "year",
                     "encrypted_path", "kem_ciphertext_b64", "nonce_b64", "uploaded_at",
                     "updated_at">>

Columns == [orgs |-> OrgColumns, users |-> UserColumns, members |-> MemberColumns,
            activities |-> ActivityColumns, documents |-> DocumentColumns]

Table == DOMAIN Columns
Fields(t) == Range(Columns[t])

\* The columns that builds before this one wrote.
OlderColumns == [
    orgs |-> {}, activities |-> {},
    users |-> {<<"id", "username", "password_hash", "role", "org_id", "tree_key_enabled",
                 "active", "created_at">>},
    members |-> {<<"id", "org_id", "full_name", "title", "year", "active", "notes",
                   "updated_at">>},
    documents |-> {SubSeq(DocumentColumns, 1, 11),
                   <<"id", "org_id", "title", "year", "encrypted_path", "kem_ciphertext_b64",
                     "nonce_b64", "uploaded_at">>}]

TypeOf(f) ==
    CASE f = "tier" -> "u32" [] f = "year" -> "i32"
      [] f \in {"active", "reviewed", "tree_key_enabled"} -> "bool"
      [] OTHER -> "string"

\* Roles and states are written as text and read back, what is unknown as the last of them.
AsStr(v) ==
    CASE v = "RootAdmin" -> "root_admin" [] v = "OrgManager" -> "org_manager"
      [] v = "Completed" -> "completed" [] v = "Ongoing" -> "ongoing" [] OTHER -> "planned"
RoleFromValue(s) == IF s = "root_admin" THEN "RootAdmin" ELSE "OrgManager"
StatusFromValue(s) ==
    CASE s = "completed" -> "Completed" [] s = "ongoing" -> "Ongoing" [] OTHER -> "Planned"

ToCell(f, v) == IF f \in {"role", "status"} THEN AsStr(v) ELSE v
FromCell(f, c) ==
    CASE f = "role" -> RoleFromValue(c) [] f = "status" -> StatusFromValue(c) [] OTHER -> c

ToBytes(columns, items) ==
    [i \in DOMAIN columns |->
        [type |-> TypeOf(columns[i]),
         cells |-> [n \in DOMAIN items |-> ToCell(columns[i], items[n][columns[i]])]]]

----------------------------------------------------------------------------
(* Where the readers look for a field in a file of w columns.               *)

\* The places f and, for the fields that f lacks, g.
Joined(f, g) == [x \in DOMAIN f \union DOMAIN g |-> IF x \in DOMAIN f THEN f[x] ELSE g[x]]

OrgColumn == [id |-> 1, parent_id |-> 2, name |-> 3, tier |-> 4, category |-> 5, active |-> 6,
              created_at |-> 7, updated_at |-> 8]

UserColumn(w) ==
    LET shift == IF w >= 9 THEN 1 ELSE 0 IN
    Joined([id |-> 1, username |-> 2, password_hash |-> 3, role |-> 4 + shift,
            org_id |-> 5 + shift, tree_key_enabled |-> 6 + shift, active |-> 7 + shift,
            created_at |-> 8 + shift],
           IF w >= 9 THEN [password_plain |-> 4] ELSE <<>>)

MemberColumn(w) ==
    Joined([id |-> 1, org_id |-> 2, full_name |-> 3, title |-> 4, year |-> 5, active |-> 6,
            notes |-> 7],
           IF w >= 12
           THEN [birth_date |-> 8, address |-> 9, phone |-> 10, joined_at |-> 11, updated_at |-> 12]
           ELSE [updated_at |-> 8])

ActivityColumn == [id |-> 1, org_id |-> 2, title |-> 3, year |-> 4, status |-> 5, summary |-> 6,
                   reviewed |-> 7, updated_at |-> 8]

\* The places of the fields whose columns are there in every layout, or were added first.
FirstDocumentColumn(long) ==
    Joined([id |-> 1, org_id |-> 2, title |-> 3],
           IF long
           THEN [file_name |-> 4, mime_type |-> 5, preview_text |-> 6, year |-> 7,
                 encrypted_path |-> 8, kem_ciphertext_b64 |-> 9, nonce_b64 |-> 10,
                 uploaded_at |-> 11]
           ELSE [year |-> 4, encrypted_path |-> 5, kem_ciphertext_b64 |-> 6, nonce_b64 |-> 7,
                 uploaded_at |-> 8])

LastDocumentColumn(w) == IF w >= 12 THEN [updated_at |-> 12] ELSE <<>>

\* Faulty variant: the number of columns is taken for one of two layouts.
DocumentColumnTwoLayouts(w) == Joined(FirstDocumentColumn(w >= 12), LastDocumentColumn(w))

DocumentColumn(w) == Joined(FirstDocumentColumn(w >= 11), LastDocumentColumn(w))

ColumnOf(t, w) ==
    CASE t = "orgs" -> OrgColumn [] t = "users" -> UserColumn(w) [] t = "members" -> MemberColumn(w)
      [] t = "activities" -> ActivityColumn [] t = "documents" -> DocumentColumn(w)

\* What a field has that the file lacks; r: the fields that are there.
JanuaryFirst(year) == year \o "-01-01"
Default(f, r) ==
    CASE f = "joined_at" -> JanuaryFirst(r.year)
      [] f = "file_name" -> r.title
      [] f = "mime_type" -> "application/octet-stream"
      [] f = "updated_at" -> r.uploaded_at
      [] OTHER -> ""

\* column_string and the others: a column of another type is an error.
Loads(t, f) ==
    LET at == ColumnOf(t, Len(f)) IN
    \A x \in DOMAIN at : at[x] \in DOMAIN f /\ f[at[x]].type = TypeOf(x)

FromBytes(t, f) ==
    LET at == ColumnOf(t, Len(f))
        there(n) == [x \in DOMAIN at |-> FromCell(x, f[at[x]].cells[n])]
    IN [n \in DOMAIN f[1].cells |->
            [x \in Fields(t) |-> IF x \in DOMAIN at THEN there(n)[x] ELSE Default(x, there(n))]]

----------------------------------------------------------------------------
(* A table that an older build may have written, loaded and saved again and again. *)

VARIABLES
    table,      \* the table this is about
    file,       \* its file
    rows,       \* its rows in memory
    known       \* history: the rows as they should be

codecVars == <<table, file, rows, known>>

\* A row whose every field says which it is; n tells rows apart.
Cell(f, n) ==
    CASE f = "role" -> IF n = 1 THEN "RootAdmin" ELSE "OrgManager"
      [] f = "status" -> IF n = 1 THEN "Completed" ELSE "Ongoing"
      [] f \in {"org_id", "parent_id"} /\ n = 1 -> Null
      [] OTHER -> f \o (IF n = 1 THEN " of one" ELSE " of another")
NewRow(t, n) == [f \in Fields(t) |-> Cell(f, n)]

\* The row as an older build knew it, by the names of its columns.
Aged(t, columns, r) ==
    [f \in Fields(t) |-> IF f \in Range(columns) THEN r[f] ELSE Default(f, r)]

CodecInit ==
    /\ table \in Table
    /\ \E columns \in OlderColumns[table] \union {Columns[table]} :
        LET r == NewRow(table, 1) IN
        /\ file = ToBytes(columns, <<r>>)
        /\ known = <<Aged(table, columns, r)>>
    /\ rows = <<>>

LoadRows ==
    /\ Loads(table, file)
    /\ rows' = FromBytes(table, file)
    /\ UNCHANGED <<table, file, known>>

AddRow ==
    /\ Len(rows) < MaxRows
    /\ rows' = Append(rows, NewRow(table, Len(rows) + 1))
    /\ known' = Append(known, NewRow(table, Len(rows) + 1))
    /\ file' = ToBytes(Columns[table], rows')
    /\ UNCHANGED table

----------------------------------------------------------------------------
(* Property. *)

\* Every row that any build ever saved is read with its fields in their places, what an older
\* layout lacks filled in once and for all, and stays that row when it is saved again.
RowsSurvive ==
    /\ Loads(table, file)
    /\ FromBytes(table, file) = known
=============================================================================
