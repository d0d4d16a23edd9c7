--------------------------- MODULE DocumentsProps ---------------------------
(* What the documents, their files and the computed tables promise. *)
EXTENDS Documents

\* A download of a document finds a file that the key of its row opens: whatever
\* uploads, merges, copies upwards, deletions and restarts did, only a write that
\* failed, or a restart that brought back a row from before its file was changed,
\* leaves a document that does not open (web.rs:3143, 3150).
RowsOpen == \A i \in DOMAIN docs \ broken : Opens(docs, files, i)

\* Delta synchronisation sends the rows whose updated_at is later than what the browser
\* has: every handler that changes a row gives it a time later than all before.
EveryChangeIsStamped ==
    [][restarts' = restarts =>
          \A i \in DOMAIN docs' :
              (IF i \in DOMAIN docs THEN docs'[i] = docs[i] ELSE FALSE)
              \/ docs'[i].upd > clock]_vars

\* After sync_shared_documents was answered, the n-th shared document of the unit lists
\* what the n-th documents of its children list, and its file opens.
SyncedIsCurrent ==
    said.what = "synced" =>
        LET u == said.unit
            shared == SharedOf(docs, u)
        IN \A n \in 1 .. Longest(ChildDocuments(u)) :
              /\ n <= Len(shared)
              /\ docs[shared[n]].text = MergedText(u, n)
              /\ Opens(docs, files, shared[n])

\* A change of a lower unit is merged into the tables above it (HUONG-DAN-SU-DUNG.md:101):
\* a list that was uploaded to a leaf, or edited there, is in the computed table of every
\* unit above when the answer leaves.
ListsReachUp ==
    said.what = "stored" /\ said.unit \in units /\ CanUpload(said.unit) =>
        LET row == docs[said.doc]
        IN row.name \in {Main, List} /\ row.org = said.unit =>
              \A a \in Ancestors(units, said.unit) :
                  LET tables == Tables(units, docs)[a]
                  IN tables # <<>> /\ row.text \subseteq tables[1]

\* A document that was answered as stored stays, in memory and for the next start, until
\* somebody deletes it or its unit, or gives it a name of the old seed.
StoredStays == receipts \subseteq DOMAIN docs /\ receipts \subseteq DOMAIN saved.docs
=============================================================================
