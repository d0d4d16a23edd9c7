------------------------------ MODULE KeyFiles ------------------------------
(***************************************************************************)
(* The key files and the start that reads, creates and migrates them       *)
(* (MasterKey::load_or_create in src/src/crypto.rs, load_or_create_kem_pair *)
(* in src/src/hybird.rs, load_or_create_tree_admin_key and the order of run *)
(* in src/src/web.rs).  fs::write is two steps: the file is empty, then it  *)
(* is written.  A kill may come between any two steps.                      *)
(*                                                                         *)
(* Of the tables and of cache_started_at.txt, whose single writes Storage   *)
(* has, only what a start can meet is here: a file that a kill or an error  *)
(* left empty or half written while a snapshot was saved.                   *)
(*                                                                         *)
(* The build is the one of the Linux deployment: the master key is stored  *)
(* as plain base64, never has the DPAPI prefix, and so every start writes  *)
(* it again.  Nobody but the program touches the files.                     *)
(***************************************************************************)
EXTENDS Crypto, FiniteSets

CONSTANTS
    MaxStarts,      \* bound: starts of the program
    MaxKills,       \* bound: kills
    MaxFaults       \* bound: writes that fail

PrivContext == "kem::hybird_private::v1"
EmptyFile == Text(NoKey)
File == {"master", "public", "private", "latic_public", "latic_private", "tree"}

VARIABLES
    disk,       \* the content of each file; a file that is absent is not in the domain
    removed,    \* the key files of the former Kyber build are there
    env,        \* APP_TREE_KEY is set
    at,         \* where the start is
    held,       \* the keys in memory
    fresh,      \* the next number for a random key
    data,       \* history: the master keys of the tables
    docs,       \* history: the encrypted documents
    treeKeys,   \* history: the tree keys the server has run with, the environment's apart
    torn,       \* what an interrupted save left half written: a table, the window's file
    hurt,       \* history: the file of the master key or the private key was left empty
    refused,    \* history: a start ended with an error
    starts, kills, faults

keyVars == <<disk, removed, env, at, held, fresh, data, docs, treeKeys, torn, hurt,
             refused, starts, kills, faults>>

Exists(f) == f \in DOMAIN disk
Put(d, f, c) == [g \in DOMAIN d \union {f} |-> IF g = f THEN c ELSE d[g]]

Nothing == [master |-> NoKey, public |-> NoKey, private |-> NoKey, tree |-> NoKey]

At == {"down", "master", "master_create", "master_write", "pair", "public_write",
       "private_write", "load", "save", "tree", "tree_write", "up"}

KeyTypeOK ==
    /\ DOMAIN disk \subseteq File
    /\ removed \in BOOLEAN /\ env \in BOOLEAN /\ hurt \in BOOLEAN /\ refused \in BOOLEAN
    /\ at \in At
    /\ \A k \in DOMAIN held : held[k] \in 0 .. fresh
    /\ torn \subseteq {"table", "window"}
    /\ data \subseteq 1 .. fresh /\ treeKeys \subseteq 1 .. fresh
    /\ starts \in 0 .. MaxStarts /\ kills \in 0 .. MaxKills /\ faults \in 0 .. MaxFaults

\* An installation of each age: none, of the latic build, of the build that kept the private
\* key as plain text, of the Kyber build.
NewInstall == [disk |-> <<>>, pairs |-> {}]
LaticInstall ==
    [disk |-> [f \in {"master", "latic_public", "latic_private"} |->
                    IF f = "master" THEN Text(1) ELSE Text(2)],
     pairs |-> {2}]
PlainInstall ==
    [disk |-> [f \in {"master", "public", "private"} |->
                    IF f = "master" THEN Text(1) ELSE Text(2)],
     pairs |-> {2}]
KyberInstall == [disk |-> [f \in {"master"} |-> Text(1)], pairs |-> {}]

KeyInit ==
    /\ \E i \in {NewInstall, LaticInstall, PlainInstall, KyberInstall} :
        /\ disk = i.disk
        /\ removed = (i = KyberInstall)
        /\ docs = {EncryptDocument(GenerateHybridKeypair(n), 3, "document") : n \in i.pairs}
        /\ data = IF "master" \in DOMAIN i.disk THEN {1} ELSE {}
    /\ env \in BOOLEAN
    /\ at = "down" /\ held = Nothing /\ fresh = 4 /\ treeKeys = {}
    /\ torn = {} /\ hurt = FALSE /\ refused = FALSE
    /\ starts = 0 /\ kills = 0 /\ faults = 0

History == <<data, docs, treeKeys>>
Setting == <<removed, env, starts>>
Places == <<torn, hurt>>

----------------------------------------------------------------------------
(* The steps of a start. *)

StartServer ==
    /\ at = "down" /\ starts < MaxStarts
    /\ at' = "master" /\ starts' = starts + 1
    /\ UNCHANGED <<disk, removed, env, held, fresh, data, docs, treeKeys, Places, refused,
                   kills, faults>>

\* run returns an error and the process ends.
StartFails == at' = "down" /\ held' = Nothing /\ refused' = TRUE

\* MasterKey::load_or_create: a key there is, is read, and its file emptied to write it again.
ReadMaster ==
    /\ at = "master" /\ Exists("master")
    /\ IF disk["master"].plain = NoKey
       THEN StartFails /\ UNCHANGED disk
       ELSE /\ held' = [held EXCEPT !.master = disk["master"].plain]
            /\ disk' = Put(disk, "master", EmptyFile)
            /\ at' = "master_write"
            /\ UNCHANGED refused
    /\ UNCHANGED <<Setting, History, fresh, Places, kills, faults>>

CreateMaster ==
    /\ at = "master" /\ ~Exists("master")
    /\ held' = [held EXCEPT !.master = fresh] /\ fresh' = fresh + 1
    /\ disk' = Put(disk, "master", EmptyFile)
    /\ at' = "master_create"
    /\ UNCHANGED <<Setting, History, Places, refused, kills, faults>>

WriteMaster ==
    /\ at \in {"master_write", "master_create"}
    /\ disk' = Put(disk, "master", Text(held.master))
    /\ at' = "pair"
    /\ UNCHANGED <<Setting, History, held, fresh, Places, refused, kills, faults>>

\* The file stays empty; of a key that was there the error is dropped and the start goes on.
WriteMasterFails ==
    /\ at \in {"master_write", "master_create"} /\ faults < MaxFaults
    /\ faults' = faults + 1 /\ hurt' = TRUE
    /\ IF at = "master_write" THEN at' = "pair" /\ UNCHANGED <<held, refused>> ELSE StartFails
    /\ UNCHANGED <<disk, Setting, History, torn, fresh, kills>>

\* load_or_create_kem_pair with both files there: a private key that does not decrypt is taken
\* as the plain text of an older build, if it is text, and encrypted in its place.
PrivateFile == DecryptBlobWithContext(held.master, PrivContext, disk["private"])

ReadPair ==
    /\ at = "pair" /\ Exists("public") /\ Exists("private")
    /\ IF PrivateFile = {} /\ disk["private"].kind # "text"
       THEN StartFails /\ UNCHANGED disk
       ELSE /\ held' = [held EXCEPT !.public = disk["public"].plain,
                                    !.private = disk["private"].plain]
            /\ IF PrivateFile # {}
               THEN at' = "load" /\ UNCHANGED disk
               ELSE at' = "private_write" /\ disk' = Put(disk, "private", EmptyFile)
            /\ UNCHANGED refused
    /\ UNCHANGED <<Setting, History, fresh, Places, kills, faults>>

BothOf(f, g) == Exists(f) /\ Exists(g)

MigrateLatic ==
    /\ at = "pair" /\ ~BothOf("public", "private") /\ BothOf("latic_public", "latic_private")
    /\ held' = [held EXCEPT !.public = disk["latic_public"].plain,
                            !.private = disk["latic_private"].plain]
    /\ disk' = Put(disk, "public", EmptyFile)
    /\ at' = "public_write"
    /\ UNCHANGED <<Setting, History, fresh, Places, refused, kills, faults>>

RefuseKyber ==
    /\ at = "pair" /\ ~BothOf("public", "private")
    /\ ~BothOf("latic_public", "latic_private") /\ removed
    /\ StartFails
    /\ UNCHANGED <<disk, Setting, History, fresh, Places, kills, faults>>

\* Faulty variant: half a pair, as a kill between the two files leaves it, is an error.
CreatePairOrRefuse ==
    /\ at = "pair" /\ ~BothOf("public", "private")
    /\ ~BothOf("latic_public", "latic_private") /\ ~removed
    /\ IF Exists("public")
       THEN StartFails /\ UNCHANGED <<disk, fresh>>
       ELSE /\ held' = [held EXCEPT !.public = fresh, !.private = fresh] /\ fresh' = fresh + 1
            /\ disk' = Put(disk, "public", EmptyFile)
            /\ at' = "public_write"
            /\ UNCHANGED refused
    /\ UNCHANGED <<Setting, History, Places, kills, faults>>

CreatePair ==
    /\ at = "pair" /\ ~BothOf("public", "private")
    /\ ~BothOf("latic_public", "latic_private") /\ ~removed
    /\ held' = [held EXCEPT !.public = fresh, !.private = fresh] /\ fresh' = fresh + 1
    /\ disk' = Put(disk, "public", EmptyFile)
    /\ at' = "public_write"
    /\ UNCHANGED <<Setting, History, Places, refused, kills, faults>>

WritePublic ==
    /\ at = "public_write"
    /\ disk' = Put(Put(disk, "public", Text(held.public)), "private", EmptyFile)
    /\ at' = "private_write"
    /\ UNCHANGED <<Setting, History, held, fresh, Places, refused, kills, faults>>

\* Faulty variant: the private key is encrypted in the context of a table.
WritePrivateElsewhere ==
    /\ at = "private_write"
    /\ disk' = Put(disk, "private", EncryptBlobWithContext(held.master, "main", held.private))
    /\ at' = "load"
    /\ UNCHANGED <<Setting, History, held, fresh, Places, refused, kills, faults>>

WritePrivate ==
    /\ at = "private_write"
    /\ disk' = Put(disk, "private",
                   EncryptBlobWithContext(held.master, PrivContext, held.private))
    /\ at' = "load"
    /\ UNCHANGED <<Setting, History, held, fresh, Places, refused, kills, faults>>

\* An error of one of these writes ends the start; the file stays empty.
WritePairFails ==
    /\ at \in {"public_write", "private_write"} /\ faults < MaxFaults
    /\ faults' = faults + 1
    /\ hurt' = (hurt \/ at = "private_write")
    /\ StartFails
    /\ UNCHANGED <<disk, Setting, History, torn, fresh, kills>>

\* A snapshot's files, as a kill or an error in the middle of its writes may leave them.
Interrupted == {torn, torn \union {"table"}, torn \union {"window"}}

\* Storage::load and the passes over the data, whose rows are those of Codec; a new installation
\* and any data that a pass changes are saved.
LoadTables ==
    /\ at = "load"
    /\ data \subseteq {held.master} /\ "table" \notin torn
    /\ \/ data # {} /\ at' = "tree" /\ UNCHANGED data
       \/ "window" \notin torn /\ at' = "save" /\ data' = data \union {held.master}
    /\ UNCHANGED <<disk, Setting, docs, treeKeys, held, fresh, Places, refused, kills, faults>>

\* A table that is empty or that the master key does not open ends the start, and so does a
\* window's file without a time, when load or save asks whether the cache is due.
LoadFails ==
    /\ at = "load"
    /\ ~(data \subseteq {held.master}) \/ torn # {}
    /\ StartFails
    /\ UNCHANGED <<disk, Setting, History, fresh, Places, kills, faults>>

\* A save that succeeds writes every table.
SaveTables ==
    /\ at \in {"save", "up"} /\ "window" \notin torn
    /\ at' = IF at = "save" THEN "tree" ELSE at
    /\ torn' = {}
    /\ UNCHANGED <<disk, Setting, History, held, fresh, hurt, refused, kills, faults>>

\* A save or a flush of the listening server that fails.
SaveFails ==
    /\ at = "up" /\ faults < MaxFaults
    /\ faults' = faults + 1
    /\ torn' \in Interrupted
    /\ UNCHANGED <<disk, Setting, History, at, held, fresh, hurt, refused, kills>>

\* An error of the file system or the network where run returns it: the flush of a due cache,
\* the documents of the seed, the startup save, the address.
StartFault ==
    /\ at \in {"load", "save", "tree"} /\ faults < MaxFaults
    /\ faults' = faults + 1
    /\ torn' \in IF at = "save" THEN Interrupted ELSE {torn}
    /\ StartFails
    /\ UNCHANGED <<disk, Setting, History, fresh, hurt, kills>>

\* load_or_create_tree_admin_key: a file left empty is written again.
ReadTreeKey ==
    /\ at = "tree"
    /\ env \/ (Exists("tree") /\ disk["tree"].plain # NoKey)
    /\ at' = "up"
    /\ held' = [held EXCEPT !.tree = IF env THEN NoKey ELSE disk["tree"].plain]
    /\ treeKeys' = IF env THEN treeKeys ELSE treeKeys \union {disk["tree"].plain}
    /\ UNCHANGED <<disk, Setting, data, docs, fresh, Places, refused, kills, faults>>

CreateTreeKey ==
    /\ at = "tree" /\ ~env
    /\ Exists("tree") => disk["tree"].plain = NoKey
    /\ held' = [held EXCEPT !.tree = fresh] /\ fresh' = fresh + 1
    /\ disk' = Put(disk, "tree", EmptyFile)
    /\ at' = "tree_write"
    /\ UNCHANGED <<Setting, History, Places, refused, kills, faults>>

WriteTreeKey ==
    /\ at = "tree_write"
    /\ disk' = Put(disk, "tree", Text(held.tree))
    /\ treeKeys' = treeKeys \union {held.tree}
    /\ at' = "up"
    /\ UNCHANGED <<Setting, data, docs, held, fresh, Places, refused, kills, faults>>

\* The error ends the start; the file stays empty.
WriteTreeKeyFails ==
    /\ at = "tree_write" /\ faults < MaxFaults
    /\ faults' = faults + 1
    /\ StartFails
    /\ UNCHANGED <<disk, Setting, History, fresh, Places, kills>>

\* upload_document and the other handlers that encrypt a file with the public key; one document
\* for each public key is enough.
StoreDocument ==
    /\ at = "up"
    /\ \A d \in docs : d.ml # held.public
    /\ docs' = docs \union
                  {EncryptDocument(GenerateHybridKeypair(held.public), fresh, "document")}
    /\ fresh' = fresh + 1
    /\ UNCHANGED <<disk, Setting, data, treeKeys, at, held, Places, refused, kills, faults>>

KillProcess ==
    /\ at # "down" /\ kills < MaxKills
    /\ kills' = kills + 1
    /\ at' = "down" /\ held' = Nothing
    /\ hurt' = (hurt \/ at \in {"master_write", "master_create", "private_write"})
    /\ torn' \in IF at \in {"save", "up"} THEN Interrupted ELSE {torn}
    /\ UNCHANGED <<disk, Setting, History, fresh, refused, faults>>

KeyStep ==
    \/ StartServer
    \/ ReadMaster \/ CreateMaster \/ WriteMaster \/ WriteMasterFails
    \/ ReadPair \/ MigrateLatic \/ RefuseKyber \/ CreatePair
    \/ WritePublic \/ WritePrivate \/ WritePairFails
    \/ LoadFails \/ SaveTables \/ SaveFails \/ StartFault
    \/ ReadTreeKey \/ CreateTreeKey \/ WriteTreeKey \/ WriteTreeKeyFails
    \/ StoreDocument

----------------------------------------------------------------------------
(* Properties. *)

Up == at = "up"

\* A server that listens runs with the one master key its tables were ever written with: an
\* empty key file stops the start, and no start makes a second key beside existing data.
\* Unless a start was once interrupted while the file of the private key or the master key was
\* empty, every document ever encrypted opens with the private key the server has loaded and
\* with the one the next start will read from its file, whatever build wrote the files.
KeysOpenData ==
    Up =>
        /\ data = {held.master}
        /\ ~hurt =>
            \A d \in docs :
                /\ DecryptDocument(GenerateHybridKeypair(held.private), d) # {}
                /\ \E k \in PrivateFile : DecryptDocument(GenerateHybridKeypair(k), d) # {}

\* A start is refused only after such an interruption, after one in the middle of a save whose
\* snapshot is still half written, for an operation that failed, or because of key files of the
\* Kyber build; whatever else a kill leaves behind, the next start repairs.  And it repairs no
\* more than that: the tree key once given to the administrators stays.
StartsRepair ==
    /\ refused => hurt \/ torn # {} \/ faults > 0 \/ removed
    /\ Cardinality(treeKeys) <= 1
=============================================================================
