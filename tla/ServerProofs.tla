----------------------------- MODULE ServerProofs -----------------------------
(* Proofs about the listening server, for any number of requests, names,      *)
(* owners, rows, starts, kills and failing writes and for all bounds: the     *)
(* keys open what they closed and starts repair what kills leave, rows        *)
(* survive, layouts survive each other's saves, waits only grow, and what a   *)
(* request was admitted by was in force.                                      *)
EXTENDS Server, FiniteSetTheorems, SequenceTheorems, TLAPS

-----------------------------------------------------------------------------
(* The keys: encryption and files.                                           *)

IsText(b) == b = Text(b.plain)
IsClosed(master, b) == b = EncryptBlobWithContext(master, PrivContext, b.plain)

LEMMA TextFacts == \A p : Text(p).kind = "text" /\ Text(p).plain = p /\ IsText(Text(p))
BY DEF Text, IsText

LEMMA ClosedFacts ==
    \A master, p : LET b == EncryptBlobWithContext(master, PrivContext, p)
                   IN  b.kind = "context" /\ b.plain = p /\ IsClosed(master, b)
BY DEF EncryptBlobWithContext, IsClosed

\* A plain text opens under no key, an encrypted private key under its master key.
LEMMA OpenText == ASSUME NEW master, NEW b, IsText(b)
                  PROVE  DecryptBlobWithContext(master, PrivContext, b) = {}
<1>1. b.kind = "text" /\ b.key = <<>>
  BY DEF IsText, Text
<1>2. <<>> # <<master>>
  OBVIOUS
<1> QED BY <1>1, <1>2 DEF DecryptBlobWithContext, DecryptBlob, OpenUnder

LEMMA OpenClosed == ASSUME NEW master, NEW b, IsClosed(master, b)
                    PROVE  DecryptBlobWithContext(master, PrivContext, b) = {b.plain}
<1>1. b.kind = "context" /\ b.key = DeriveContextBlobKey(master, PrivContext)
  BY DEF IsClosed, EncryptBlobWithContext
<1> QED BY <1>1 DEF DecryptBlobWithContext, OpenUnder

\* A document of pair number n opens with that pair.
DocumentOf(n, d) == \E once : d = EncryptDocument(GenerateHybridKeypair(n), once, "document")

LEMMA OpenDocument ==
    ASSUME NEW n, NEW d, DocumentOf(n, d)
    PROVE  DecryptDocument(GenerateHybridKeypair(n), d) # {}
<1>1. PICK once : d = EncryptDocument(GenerateHybridKeypair(n), once, "document")
  BY DEF DocumentOf
<1> DEFINE pair == GenerateHybridKeypair(n)
<1>2. pair.x = n /\ pair.ml = n
  BY DEF GenerateHybridKeypair
<1>3. /\ d.x = once /\ d.ml = n /\ d.body.plain = "document"
      /\ d.body.key = DeriveDocumentKey(X25519Shared(once, n), Decapsulate(n, n))
  BY <1>1, <1>2 DEF EncryptDocument
<1>4. X25519Shared(once, n) = X25519Shared(n, once)
  BY DEF X25519Shared
<1> HIDE DEF pair
<1> QED BY <1>2, <1>3, <1>4 DEF DecryptDocument, OpenUnder, pair

\* One file is written.
LEMMA PutFacts ==
    ASSUME NEW f, NEW c, disk' = Put(disk, f, c)
    PROVE  /\ DOMAIN disk' = DOMAIN disk \union {f} /\ disk'[f] = c
           /\ \A g \in DOMAIN disk : g # f => disk'[g] = disk[g]
BY DEF Put

-----------------------------------------------------------------------------
(* The invariant of the keys.                                                *)

Held == [master : Nat, public : Nat, private : Nat, tree : Nat]

FilesInv ==
    /\ fresh \in Nat \ {0} /\ held \in Held /\ at \in At
    /\ \A f \in DOMAIN disk : disk[f].plain \in Nat

\* The tables and the private key are encrypted with this master key, if at all.
Sealed(master) ==
    /\ data \subseteq {master}
    /\ Exists("private") => IsText(disk["private"]) \/ IsClosed(master, disk["private"])

WritingMaster == at \in {"master_write", "master_create"}
PastMaster == at \in At \ {"down", "master", "master_write", "master_create"}
Loaded == {"save", "tree", "tree_write", "up"}
USE DEF Loaded
PastPair == at \in {"load"} \union Loaded

\* There is one master key: it is in the file, in memory while the file is written, or the
\* file was left empty.  There is no encryption before there is a key.
MasterInv ==
    /\ at \in {"down", "master"} =>
        /\ Exists("master") =>
            IF disk["master"].plain = NoKey THEN hurt ELSE Sealed(disk["master"].plain)
        /\ ~Exists("master") => data = {} /\ (Exists("private") => IsText(disk["private"]))
    /\ WritingMaster \/ PastMaster =>
        held.master # NoKey /\ Exists("master") /\ Sealed(held.master)
    /\ WritingMaster => disk["master"].plain = NoKey
    /\ PastMaster => disk["master"].plain = held.master \/ (disk["master"].plain = NoKey /\ hurt)
    /\ at \in Loaded => data = {held.master}

LaticPair == BothOf("latic_public", "latic_private")
Documents(n) == \A d \in docs : DocumentOf(n, d)

\* There is one pair, of which all documents are: in its files, else in those of the latic
\* build, else there are no documents; and in memory while the files are written.
PairInv ==
    ~hurt =>
        /\ Exists("private") /\ at # "private_write" =>
            /\ Exists("public") /\ disk["public"].plain = disk["private"].plain
            /\ Documents(disk["private"].plain)
        /\ ~Exists("private") =>
            /\ LaticPair => Documents(disk["latic_private"].plain)
            /\ ~LaticPair => docs = {}
        /\ LaticPair => disk["latic_public"].plain = disk["latic_private"].plain
        /\ at \in {"public_write", "private_write"} \/ PastPair =>
            held.public = held.private /\ Documents(held.private)
        /\ at = "public_write" => Exists("public") /\ ~Exists("private")
        /\ at = "private_write" =>
            Exists("public") /\ Exists("private") /\ disk["public"].plain = held.public
        /\ PastPair => /\ Exists("private") /\ disk["private"].plain = held.private
                       /\ IsClosed(held.master, disk["private"])

\* The administrators have been given one tree key, which is in its file.
TreeKeyInv ==
    /\ treeKeys # {} =>
        Exists("tree") /\ disk["tree"].plain # NoKey /\ treeKeys = {disk["tree"].plain}
    /\ at = "tree_write" => treeKeys = {} /\ held.tree # NoKey

\* A server that has loaded its tables finds one half written only after a save of its own failed.
TornInv ==
    /\ torn \subseteq {"table", "window"}
    /\ at \in Loaded => "table" \notin torn \/ faults > 0

RefusedInv == refused => hurt \/ torn # {} \/ faults > 0 \/ removed

KeyInv ==
    /\ FilesInv /\ MasterInv /\ PairInv /\ TreeKeyInv /\ TornInv /\ RefusedInv
    /\ faults \in Nat /\ hurt \in BOOLEAN

-----------------------------------------------------------------------------
(* The steps of a start.                                                    *)

LEMMA KeyInitHolds == KeyInit => KeyInv
<1> SUFFICES ASSUME KeyInit PROVE KeyInv
  OBVIOUS
<1> USE TextFacts
<1>1. /\ at = "down" /\ held = Nothing /\ fresh = 4 /\ treeKeys = {}
      /\ torn = {} /\ ~hurt /\ hurt \in BOOLEAN /\ ~refused /\ faults = 0
  BY DEF KeyInit
<1>2. PICK i \in {NewInstall, LaticInstall, PlainInstall, KyberInstall} :
          /\ disk = i.disk
          /\ docs = {EncryptDocument(GenerateHybridKeypair(n), 3, "document") : n \in i.pairs}
          /\ data = IF "master" \in DOMAIN i.disk THEN {1} ELSE {}
  BY DEF KeyInit
<1>3. /\ \A f \in DOMAIN disk : disk[f].plain \in Nat /\ IsText(disk[f])
      /\ Exists("master") => disk["master"].plain = 1 /\ data = {1}
      /\ ~Exists("master") => data = {}
      /\ Exists("private") => /\ Exists("public") /\ i.pairs = {2}
                              /\ disk["public"].plain = 2 /\ disk["private"].plain = 2
      /\ LaticPair => /\ i.pairs = {2}
                      /\ disk["latic_public"].plain = 2 /\ disk["latic_private"].plain = 2
      /\ ~Exists("private") /\ ~LaticPair => i.pairs = {}
  <2>1. CASE i = NewInstall
    <3>1. disk = <<>> /\ i.pairs = {} /\ DOMAIN disk = {}
      BY <1>2, <2>1 DEF NewInstall
    <3> QED BY <1>2, <3>1 DEF Exists, LaticPair, BothOf
  <2>2. CASE i = LaticInstall
    <3>1. /\ disk = [f \in {"master", "latic_public", "latic_private"} |->
                        IF f = "master" THEN Text(1) ELSE Text(2)]
          /\ i.pairs = {2} /\ data = {1}
      BY <1>2, <2>2 DEF LaticInstall
    <3>2. /\ DOMAIN disk = {"master", "latic_public", "latic_private"}
          /\ disk["master"] = Text(1)
          /\ disk["latic_public"] = Text(2) /\ disk["latic_private"] = Text(2)
      BY <3>1
    <3>3. Exists("master") /\ ~Exists("private") /\ LaticPair
      BY <3>2 DEF Exists, LaticPair, BothOf
    <3>4. \A f \in DOMAIN disk : disk[f].plain \in Nat /\ IsText(disk[f])
      BY <3>2
    <3>5. /\ disk["master"].plain = 1
          /\ disk["latic_public"].plain = 2 /\ disk["latic_private"].plain = 2
      BY <3>2
    <3> QED BY <3>1, <3>3, <3>4, <3>5
  <2>3. CASE i = PlainInstall
    <3>1. /\ disk = [f \in {"master", "public", "private"} |->
                        IF f = "master" THEN Text(1) ELSE Text(2)]
          /\ i.pairs = {2} /\ data = {1}
      BY <1>2, <2>3 DEF PlainInstall
    <3>2. DOMAIN disk = {"master", "public", "private"}
          /\ \A f \in DOMAIN disk : disk[f] = IF f = "master" THEN Text(1) ELSE Text(2)
      BY <3>1
    <3> QED BY <3>1, <3>2 DEF Exists, LaticPair, BothOf
  <2>4. CASE i = KyberInstall
    <3>1. disk = [f \in {"master"} |-> Text(1)] /\ i.pairs = {} /\ data = {1}
      BY <1>2, <2>4 DEF KyberInstall
    <3>2. DOMAIN disk = {"master"} /\ disk["master"] = Text(1)
      BY <3>1
    <3> QED BY <3>1, <3>2 DEF Exists, LaticPair, BothOf
  <2> QED BY <1>2, <2>1, <2>2, <2>3, <2>4
<1>4. i.pairs = {2} => Documents(2)
  BY <1>2 DEF Documents, DocumentOf
<1>5. i.pairs = {} => docs = {}
  BY <1>2
<1>6. FilesInv
  BY <1>1, <1>3 DEF FilesInv, Held, Nothing, NoKey, At
<1>7. MasterInv
  <2>1. ~WritingMaster /\ ~PastMaster
    BY <1>1 DEF WritingMaster, PastMaster
  <2>2. Exists("private") => IsText(disk["private"])
    BY <1>3 DEF Exists
  <2>3. Exists("master") => disk["master"].plain # NoKey /\ data \subseteq {disk["master"].plain}
    BY <1>3 DEF NoKey
  <2>4. at \notin Loaded
    BY <1>1
  <2> QED BY <1>3, <2>1, <2>2, <2>3, <2>4 DEF MasterInv, Sealed
<1>8. PairInv
  <2>1. ~PastPair
    BY <1>1 DEF PastPair
  <2>2. at \notin {"public_write", "private_write"}
    BY <1>1
  <2>3. Exists("private") => /\ Exists("public") /\ disk["public"].plain = disk["private"].plain
                             /\ Documents(disk["private"].plain)
    BY <1>3, <1>4
  <2>4. LaticPair => /\ disk["latic_public"].plain = disk["latic_private"].plain
                     /\ Documents(disk["latic_private"].plain)
    BY <1>3, <1>4
  <2>5. ~Exists("private") /\ ~LaticPair => docs = {}
    BY <1>3, <1>5
  <2> QED BY <2>1, <2>2, <2>3, <2>4, <2>5 DEF PairInv
<1> QED BY <1>1, <1>6, <1>7, <1>8 DEF KeyInv, TreeKeyInv, TornInv, RefusedInv

\* A start begins, is refused, or ends by a kill: what is in memory goes, files stay as they
\* are.  A file that was being written has been left empty.
LEMMA DownHolds ==
    ASSUME KeyInv, at' \in {"down", "master"}, held' \in Held,
           UNCHANGED <<disk, data, docs, treeKeys, removed, fresh>>,
           hurt \/ WritingMaster \/ at = "private_write" => hurt',
           hurt' \in BOOLEAN, faults' \in Nat, torn' \subseteq {"table", "window"}, RefusedInv'
    PROVE  KeyInv'
<1>1. FilesInv /\ MasterInv /\ PairInv /\ TreeKeyInv
  BY DEF KeyInv
<1>2. ~WritingMaster' /\ ~PastMaster' /\ ~PastPair'
  BY DEF WritingMaster, PastMaster, PastPair
<1>3. /\ at' \notin {"tree", "tree_write", "up", "public_write", "private_write"}
      /\ at' \in At
  BY DEF At
<1>4. FilesInv'
  BY <1>1, <1>3 DEF FilesInv
<1>5. MasterInv'
  <2>1. Exists("master") => IF disk["master"].plain = NoKey THEN hurt' ELSE Sealed(disk["master"].plain)
    BY <1>1 DEF MasterInv, FilesInv, PastMaster, WritingMaster, At
  <2>2. ~Exists("master") => data = {} /\ (Exists("private") => IsText(disk["private"]))
    BY <1>1 DEF MasterInv, FilesInv, PastMaster, WritingMaster, At
  <2> QED BY <1>2, <1>3, <2>1, <2>2 DEF MasterInv, Sealed, Exists
<1>6. PairInv'
  BY <1>1, <1>2, <1>3 DEF PairInv, Exists, LaticPair, BothOf, Documents
<1>7. TreeKeyInv'
  BY <1>1, <1>3 DEF TreeKeyInv, Exists
<1> QED BY <1>3, <1>4, <1>5, <1>6, <1>7 DEF KeyInv, TornInv

\* An interrupted save adds to what is half written.
LEMMA InterruptedFacts ==
    ASSUME TornInv, torn' \in Interrupted
    PROVE  torn \subseteq torn' /\ torn' \subseteq {"table", "window"}
BY DEF TornInv, Interrupted

LEMMA NothingIsHeld == Nothing \in Held
BY DEF Nothing, Held, NoKey

LEMMA StartOrKillHolds == ASSUME KeyInv, StartServer \/ KillProcess PROVE KeyInv'
<1>1. /\ held \in Held /\ faults \in Nat /\ hurt \in BOOLEAN /\ TornInv /\ RefusedInv
  BY DEF KeyInv, FilesInv
<1>2. CASE StartServer
  BY <1>1, <1>2, DownHolds DEF StartServer, Places, WritingMaster, TornInv, RefusedInv
<1>3. CASE KillProcess
  <2>1. /\ at' = "down" /\ held' = Nothing
        /\ UNCHANGED <<disk, data, docs, treeKeys, removed, fresh, refused, faults>>
        /\ hurt' = (hurt \/ at \in {"master_write", "master_create", "private_write"})
    BY <1>3 DEF KillProcess, Setting, History, Places
  <2>2. hurt' \in BOOLEAN /\ (hurt \/ WritingMaster \/ at = "private_write" => hurt')
    BY <1>1, <2>1 DEF WritingMaster
  <2>3. torn \subseteq torn' /\ torn' \subseteq {"table", "window"}
    BY <1>1, <1>3, InterruptedFacts DEF KillProcess, TornInv
  <2>4. RefusedInv'
    BY <1>1, <2>1, <2>2, <2>3 DEF RefusedInv
  <2> QED BY <1>1, <2>1, <2>2, <2>3, <2>4, NothingIsHeld, DownHolds
<1> QED BY <1>2, <1>3

\* The start is refused.
LEMMA RefuseHolds ==
    ASSUME KeyInv, StartFails, UNCHANGED <<disk, data, docs, treeKeys, removed, fresh>>,
           hurt \/ WritingMaster \/ at = "private_write" => hurt',
           hurt' \in BOOLEAN, faults' \in Nat, torn' \subseteq {"table", "window"},
           hurt' \/ torn' # {} \/ faults' > 0 \/ removed
    PROVE  KeyInv'
<1>1. RefusedInv'
  BY DEF RefusedInv
<1> QED BY <1>1, NothingIsHeld, DownHolds DEF StartFails

-----------------------------------------------------------------------------
(* The master key.                                                           *)

\* The file of the master key is emptied to write this key.
LEMMA EmptyMasterHolds ==
    ASSUME KeyInv, at = "master", NEW k \in Nat \ {NoKey}, NEW f \in Nat \ {0}, Sealed(k),
           disk' = Put(disk, "master", EmptyFile), held' = [held EXCEPT !.master = k],
           at' \in {"master_write", "master_create"}, fresh' = f,
           UNCHANGED <<data, docs, treeKeys, removed, torn, hurt, refused, faults>>
    PROVE  KeyInv'
<1>1. FilesInv /\ MasterInv /\ PairInv /\ TreeKeyInv /\ TornInv /\ RefusedInv
  BY DEF KeyInv
<1>2. /\ DOMAIN disk' = DOMAIN disk \union {"master"} /\ disk'["master"].plain = NoKey
      /\ \A g \in DOMAIN disk : g # "master" => disk'[g] = disk[g]
  <2>1. EmptyFile.plain = NoKey
    BY TextFacts DEF EmptyFile
  <2>2. /\ DOMAIN disk' = DOMAIN disk \union {"master"} /\ disk'["master"] = EmptyFile
        /\ \A g \in DOMAIN disk : g # "master" => disk'[g] = disk[g]
    BY PutFacts
  <2> QED BY <2>1, <2>2
<1>3. held' \in Held /\ held'.master = k
  BY <1>1 DEF FilesInv, Held
<1>4. ~PastMaster' /\ ~PastPair' /\ WritingMaster' /\ at' \in At
      /\ at' \notin {"down", "master", "tree", "tree_write", "up", "public_write", "private_write"}
  BY DEF PastMaster, PastPair, WritingMaster, At
<1>5. FilesInv'
  BY <1>1, <1>2, <1>3, <1>4 DEF FilesInv, NoKey
<1>6. MasterInv'
  <2>1. Sealed(held.master)'
    BY <1>2, <1>3 DEF Sealed, Exists
  <2> QED BY <1>2, <1>3, <1>4, <2>1 DEF MasterInv, Exists
<1>7. PairInv'
  BY <1>1, <1>2, <1>4 DEF PairInv, Exists, LaticPair, BothOf, Documents
<1>8. TreeKeyInv' /\ TornInv' /\ RefusedInv'
  BY <1>1, <1>2, <1>4 DEF TreeKeyInv, TornInv, RefusedInv, Exists
<1> QED BY <1>5, <1>6, <1>7, <1>8 DEF KeyInv

LEMMA ReadMasterHolds == ASSUME KeyInv, ReadMaster \/ CreateMaster PROVE KeyInv'
<1>1. FilesInv /\ MasterInv /\ TornInv /\ faults \in Nat /\ hurt \in BOOLEAN /\ at = "master"
  BY DEF KeyInv, ReadMaster, CreateMaster
<1>2. UNCHANGED <<data, docs, treeKeys, removed, torn, hurt, faults>>
  BY DEF ReadMaster, CreateMaster, Setting, History, Places
<1>3. CASE ReadMaster /\ disk["master"].plain = NoKey
  <2>1. hurt /\ StartFails /\ UNCHANGED <<disk, fresh>>
    BY <1>1, <1>3 DEF ReadMaster, MasterInv
  <2> QED BY <1>1, <1>2, <2>1, RefuseHolds DEF TornInv
<1>4. CASE ReadMaster /\ disk["master"].plain # NoKey
  <2> DEFINE k == disk["master"].plain
  <2>1. k \in Nat \ {NoKey} /\ Sealed(k) /\ fresh \in Nat \ {0}
    BY <1>1, <1>4 DEF ReadMaster, MasterInv, FilesInv, Exists
  <2>2. /\ disk' = Put(disk, "master", EmptyFile) /\ held' = [held EXCEPT !.master = k]
        /\ at' = "master_write" /\ UNCHANGED <<fresh, refused>>
    BY <1>4 DEF ReadMaster
  <2> HIDE DEF k
  <2> QED BY <1>1, <1>2, <2>1, <2>2, EmptyMasterHolds
<1>5. CASE CreateMaster
  <2>1. fresh \in Nat \ {NoKey} /\ fresh + 1 \in Nat \ {0} /\ Sealed(fresh)
    BY <1>1, <1>5 DEF CreateMaster, MasterInv, FilesInv, Sealed, NoKey
  <2>2. /\ disk' = Put(disk, "master", EmptyFile) /\ held' = [held EXCEPT !.master = fresh]
        /\ at' = "master_create" /\ fresh' = fresh + 1 /\ UNCHANGED refused
    BY <1>5 DEF CreateMaster
  <2> QED BY <1>1, <1>2, <2>1, <2>2, EmptyMasterHolds
<1> QED BY <1>3, <1>4, <1>5

LEMMA WriteMasterHolds == ASSUME KeyInv, WriteMaster PROVE KeyInv'
<1>1. FilesInv /\ MasterInv /\ PairInv /\ TreeKeyInv /\ TornInv /\ RefusedInv
  BY DEF KeyInv
<1>2. /\ WritingMaster /\ disk' = Put(disk, "master", Text(held.master)) /\ at' = "pair"
      /\ UNCHANGED <<data, docs, treeKeys, removed, held, fresh, torn, hurt, refused, faults>>
  BY DEF WriteMaster, WritingMaster, Setting, History, Places
<1>3. /\ DOMAIN disk' = DOMAIN disk \union {"master"} /\ disk'["master"].plain = held.master
      /\ \A g \in DOMAIN disk : g # "master" => disk'[g] = disk[g]
  <2>1. /\ DOMAIN disk' = DOMAIN disk \union {"master"} /\ disk'["master"] = Text(held.master)
        /\ \A g \in DOMAIN disk : g # "master" => disk'[g] = disk[g]
    BY <1>2, PutFacts
  <2> QED BY <2>1, TextFacts
<1>4. PastMaster' /\ ~PastPair' /\ ~WritingMaster' /\ at' \in At
  BY <1>2 DEF PastMaster, PastPair, WritingMaster, At
<1>5. FilesInv'
  BY <1>1, <1>2, <1>3, <1>4 DEF FilesInv, Held
<1>6. MasterInv'
  <2>1. Sealed(held.master)'
    BY <1>1, <1>2, <1>3 DEF MasterInv, Sealed, Exists
  <2> QED BY <1>1, <1>2, <1>3, <1>4, <2>1 DEF MasterInv, Exists
<1>7. PairInv'
  <2>1. at \notin {"private_write"}
    BY <1>2 DEF WritingMaster
  <2> QED BY <1>1, <1>2, <1>3, <1>4, <2>1 DEF PairInv, Exists, LaticPair, BothOf, Documents
<1>8. TreeKeyInv' /\ TornInv' /\ RefusedInv'
  BY <1>1, <1>2, <1>3 DEF TreeKeyInv, TornInv, RefusedInv, Exists
<1> QED BY <1>2, <1>5, <1>6, <1>7, <1>8 DEF KeyInv

LEMMA WriteMasterFailsHolds == ASSUME KeyInv, WriteMasterFails PROVE KeyInv'
<1>1. /\ FilesInv /\ MasterInv /\ PairInv /\ TreeKeyInv /\ TornInv /\ RefusedInv
      /\ faults \in Nat
  BY DEF KeyInv
<1>2. /\ WritingMaster /\ hurt' = TRUE /\ faults' = faults + 1
      /\ UNCHANGED <<disk, data, docs, treeKeys, removed, fresh, torn>>
  BY DEF WriteMasterFails, WritingMaster, Setting, History, Places
<1>3. CASE at = "master_create"
  <2>1. StartFails
    BY <1>3 DEF WriteMasterFails
  <2> QED BY <1>1, <1>2, <2>1, RefuseHolds DEF TornInv
<1>4. CASE at = "master_write"
  <2>1. at' = "pair" /\ UNCHANGED <<held, refused>>
    BY <1>4 DEF WriteMasterFails
  <2>2. PastMaster' /\ ~WritingMaster' /\ at' \in At
    BY <2>1 DEF PastMaster, WritingMaster, At
  <2>3. FilesInv' /\ PairInv' /\ TreeKeyInv' /\ TornInv' /\ RefusedInv'
    BY <1>1, <1>2, <2>1, <2>2 DEF FilesInv, PairInv, TreeKeyInv, TornInv, RefusedInv, Exists
  <2>4. MasterInv'
    BY <1>1, <1>2, <2>1, <2>2 DEF MasterInv, Sealed, Exists
  <2> QED BY <1>1, <1>2, <2>3, <2>4 DEF KeyInv
<1> QED BY <1>2, <1>3, <1>4 DEF WritingMaster

-----------------------------------------------------------------------------
(* The pair.                                                                 *)

\* A step of the pair leaves the other files as they are, and the private key's encrypted by
\* the one master key, if at all.
LEMMA PairStepHolds ==
    ASSUME KeyInv, at \in {"pair", "public_write", "private_write"},
           at' \in {"public_write", "private_write", "load"},
           held' \in Held, held'.master = held.master, fresh' \in Nat \ {0},
           DOMAIN disk \subseteq DOMAIN disk', \A f \in DOMAIN disk' : disk'[f].plain \in Nat,
           \A f \in DOMAIN disk : f \in {"master", "tree"} => disk'[f] = disk[f],
           "private" \in DOMAIN disk' =>
               IsText(disk'["private"]) \/ IsClosed(held.master, disk'["private"]),
           UNCHANGED <<data, docs, treeKeys, removed, torn, hurt, refused, faults>>,
           PairInv'
    PROVE  KeyInv'
<1>1. /\ FilesInv /\ MasterInv /\ TreeKeyInv /\ TornInv /\ RefusedInv
      /\ faults \in Nat /\ hurt \in BOOLEAN
  BY DEF KeyInv
<1>2. PastMaster /\ PastMaster' /\ ~WritingMaster' /\ at' \in At
  BY DEF PastMaster, WritingMaster, At
<1>3. FilesInv' /\ TreeKeyInv' /\ TornInv' /\ RefusedInv'
  BY <1>1, <1>2 DEF FilesInv, TreeKeyInv, TornInv, RefusedInv, Exists
<1>4. MasterInv'
  <2>1. /\ held.master # NoKey /\ "master" \in DOMAIN disk /\ data \subseteq {held.master}
        /\ disk["master"].plain = held.master \/ (disk["master"].plain = NoKey /\ hurt)
    BY <1>1, <1>2 DEF MasterInv, Sealed, Exists
  <2>2. Exists("master")' /\ disk'["master"] = disk["master"]
    BY <2>1 DEF Exists
  <2>3. Sealed(held.master)'
    BY <2>1 DEF Sealed, Exists
  <2>4. at' \notin {"down", "master", "tree", "tree_write", "up"}
    OBVIOUS
  <2> QED BY <1>2, <2>1, <2>2, <2>3, <2>4 DEF MasterInv
<1> QED BY <1>1, <1>3, <1>4 DEF KeyInv

\* What holds at a step of the pair.
LEMMA PairFacts ==
    ASSUME KeyInv, at \in {"pair", "public_write", "private_write"}
    PROVE  /\ fresh \in Nat \ {0} /\ held \in Held /\ \A f \in DOMAIN disk : disk[f].plain \in Nat
           /\ Exists("private") => IsText(disk["private"]) \/ IsClosed(held.master, disk["private"])
           /\ PairInv /\ hurt \in BOOLEAN /\ faults \in Nat
<1>1. PastMaster
  BY DEF PastMaster, At
<1> QED BY <1>1 DEF KeyInv, FilesInv, MasterInv, Sealed

LEMMA ReadPairHolds == ASSUME KeyInv, ReadPair PROVE KeyInv'
<1>1. /\ at = "pair" /\ Exists("public") /\ Exists("private")
      /\ UNCHANGED <<data, docs, treeKeys, removed, fresh, torn, hurt, faults>>
  BY DEF ReadPair, Setting, History, Places
<1>2. /\ fresh \in Nat \ {0} /\ held \in Held /\ \A f \in DOMAIN disk : disk[f].plain \in Nat
      /\ IsText(disk["private"]) \/ IsClosed(held.master, disk["private"])
      /\ PairInv
  BY <1>1, PairFacts
<1>3. IsText(disk["private"]) => PrivateFile = {} /\ disk["private"].kind = "text"
  BY OpenText, TextFacts DEF PrivateFile, IsText
<1>4. IsClosed(held.master, disk["private"]) => PrivateFile # {}
  BY OpenClosed DEF PrivateFile
<1>5. /\ held' = [held EXCEPT !.public = disk["public"].plain, !.private = disk["private"].plain]
      /\ IF PrivateFile # {} THEN at' = "load" /\ UNCHANGED disk
         ELSE at' = "private_write" /\ disk' = Put(disk, "private", EmptyFile)
      /\ UNCHANGED refused
  BY <1>2, <1>3, <1>4 DEF ReadPair
<1>6. /\ held' \in Held /\ held'.master = held.master
      /\ held'.public = disk["public"].plain /\ held'.private = disk["private"].plain
  BY <1>1, <1>2, <1>5 DEF Held, Exists
<1>7. ~hurt => held'.public = held'.private /\ Documents(held'.private)
  BY <1>1, <1>2, <1>6 DEF PairInv
<1>8. ~hurt => (LaticPair => disk["latic_public"].plain = disk["latic_private"].plain)
  BY <1>2 DEF PairInv
<1>9. CASE PrivateFile # {}
  <2>1. at' = "load" /\ disk' = disk /\ IsClosed(held.master, disk["private"])
    BY <1>2, <1>3, <1>5, <1>9
  <2>2. at' \notin {"public_write", "private_write"}
    BY <2>1
  <2>3. PairInv'
    BY <1>1, <1>2, <1>6, <1>7, <1>8, <2>1, <2>2 DEF PairInv, Exists, LaticPair, BothOf, Documents
  <2> QED BY <1>1, <1>2, <1>5, <1>6, <2>1, <2>3, PairStepHolds
<1>10. CASE PrivateFile = {}
  <2>1. at' = "private_write" /\ disk' = Put(disk, "private", EmptyFile)
    BY <1>5, <1>10
  <2>2. /\ DOMAIN disk' = DOMAIN disk \union {"private"} /\ disk'["private"] = EmptyFile
        /\ \A g \in DOMAIN disk : g # "private" => disk'[g] = disk[g]
    BY <2>1, PutFacts
  <2>3. EmptyFile.plain = NoKey /\ NoKey \in Nat /\ IsText(EmptyFile)
    BY TextFacts DEF EmptyFile, NoKey
  <2>4. ~PastPair'
    BY <2>1 DEF PastPair
  <2>5. PairInv'
    BY <1>1, <1>6, <1>7, <1>8, <2>1, <2>2, <2>4 DEF PairInv, Exists, LaticPair, BothOf, Documents
  <2>6. \A f \in DOMAIN disk' : disk'[f].plain \in Nat
    BY <1>2, <2>2, <2>3
  <2> QED BY <1>1, <1>2, <1>5, <1>6, <2>1, <2>2, <2>3, <2>5, <2>6, PairStepHolds
<1> QED BY <1>9, <1>10

\* The public key's file is emptied to write this pair, of the latic files or a new one.
LEMMA EmptyPublicHolds ==
    ASSUME KeyInv, at = "pair", ~BothOf("public", "private"), NEW k \in Nat, NEW f \in Nat \ {0},
           ~hurt => Documents(k),
           disk' = Put(disk, "public", EmptyFile), at' = "public_write", fresh' = f,
           held' \in Held, held'.master = held.master,
           ~hurt => held'.public = k /\ held'.private = k,
           UNCHANGED <<data, docs, treeKeys, removed, torn, hurt, refused, faults>>
    PROVE  KeyInv'
<1>1. /\ fresh \in Nat \ {0} /\ held \in Held /\ \A g \in DOMAIN disk : disk[g].plain \in Nat
      /\ Exists("private") => IsText(disk["private"]) \/ IsClosed(held.master, disk["private"])
      /\ PairInv
  BY PairFacts
<1>2. /\ DOMAIN disk' = DOMAIN disk \union {"public"} /\ disk'["public"] = EmptyFile
      /\ \A g \in DOMAIN disk : g # "public" => disk'[g] = disk[g]
  BY PutFacts
<1>3. EmptyFile.plain = NoKey /\ NoKey \in Nat
  BY TextFacts DEF EmptyFile, NoKey
<1>4. ~PastPair'
  BY DEF PastPair
<1>5. ~hurt => ~Exists("private")
  BY <1>1 DEF PairInv, BothOf
<1>6. PairInv'
  BY <1>1, <1>2, <1>4, <1>5 DEF PairInv, Exists, LaticPair, BothOf, Documents
<1>7. \A g \in DOMAIN disk' : disk'[g].plain \in Nat
  BY <1>1, <1>2, <1>3
<1> QED BY <1>1, <1>2, <1>6, <1>7, PairStepHolds DEF Exists

LEMMA NewPairHolds == ASSUME KeyInv, MigrateLatic \/ CreatePair PROVE KeyInv'
<1>1. /\ at = "pair" /\ ~BothOf("public", "private") /\ at' = "public_write"
      /\ disk' = Put(disk, "public", EmptyFile)
      /\ UNCHANGED <<data, docs, treeKeys, removed, torn, hurt, refused, faults>>
  BY DEF MigrateLatic, CreatePair, Setting, History, Places
<1>2. /\ fresh \in Nat \ {0} /\ held \in Held /\ \A f \in DOMAIN disk : disk[f].plain \in Nat
      /\ PairInv
  BY <1>1, PairFacts
<1>3. ~hurt => ~Exists("private")
  BY <1>1, <1>2 DEF PairInv, BothOf
<1>4. CASE MigrateLatic
  <2> DEFINE k == disk["latic_private"].plain
  <2>1. /\ LaticPair /\ held' = [held EXCEPT !.public = disk["latic_public"].plain, !.private = k]
        /\ fresh' = fresh
    BY <1>4 DEF MigrateLatic, LaticPair
  <2>2. k \in Nat /\ disk["latic_public"].plain \in Nat
    BY <1>2, <2>1 DEF LaticPair, BothOf, Exists
  <2>3. ~hurt => Documents(k) /\ disk["latic_public"].plain = k
    BY <1>2, <1>3, <2>1 DEF PairInv
  <2> HIDE DEF k
  <2>4. /\ held' \in Held /\ held'.master = held.master
        /\ held'.public = disk["latic_public"].plain /\ held'.private = k
    BY <1>2, <2>1, <2>2 DEF Held
  <2> QED BY <1>1, <1>2, <2>1, <2>2, <2>3, <2>4, EmptyPublicHolds
<1>5. CASE CreatePair
  <2>1. /\ ~LaticPair /\ held' = [held EXCEPT !.public = fresh, !.private = fresh]
        /\ fresh' = fresh + 1
    BY <1>5 DEF CreatePair, LaticPair
  <2>2. fresh \in Nat /\ fresh + 1 \in Nat \ {0}
    BY <1>2
  <2>3. ~hurt => Documents(fresh)
    BY <1>2, <1>3, <2>1 DEF PairInv, Documents
  <2>4. /\ held' \in Held /\ held'.master = held.master
        /\ held'.public = fresh /\ held'.private = fresh
    BY <1>2, <2>1 DEF Held
  <2> QED BY <1>1, <2>1, <2>2, <2>3, <2>4, EmptyPublicHolds
<1> QED BY <1>4, <1>5

LEMMA WritePublicHolds == ASSUME KeyInv, WritePublic PROVE KeyInv'
<1>1. /\ at = "public_write" /\ at' = "private_write"
      /\ disk' = Put(Put(disk, "public", Text(held.public)), "private", EmptyFile)
      /\ UNCHANGED <<data, docs, treeKeys, removed, held, fresh, torn, hurt, refused, faults>>
  BY DEF WritePublic, Setting, History, Places
<1>2. /\ fresh \in Nat \ {0} /\ held \in Held /\ \A f \in DOMAIN disk : disk[f].plain \in Nat
      /\ PairInv
  BY <1>1, PairFacts
<1>3. /\ DOMAIN disk' = DOMAIN disk \union {"public", "private"}
      /\ disk'["public"] = Text(held.public) /\ disk'["private"] = EmptyFile
      /\ \A g \in DOMAIN disk : g \notin {"public", "private"} => disk'[g] = disk[g]
  BY <1>1 DEF Put
<1>4. /\ disk'["public"].plain = held.public /\ disk'["private"].plain = NoKey
      /\ IsText(disk'["private"]) /\ NoKey \in Nat /\ held.public \in Nat
  BY <1>2, <1>3, TextFacts DEF EmptyFile, NoKey, Held
<1>5. ~PastPair'
  BY <1>1 DEF PastPair
<1>6. PairInv'
  BY <1>1, <1>2, <1>3, <1>4, <1>5 DEF PairInv, Exists, LaticPair, BothOf, Documents
<1>7. \A g \in DOMAIN disk' : disk'[g].plain \in Nat
  BY <1>2, <1>3, <1>4
<1> QED BY <1>1, <1>2, <1>3, <1>4, <1>6, <1>7, PairStepHolds

LEMMA WritePrivateHolds == ASSUME KeyInv, WritePrivate PROVE KeyInv'
<1> DEFINE encrypted == EncryptBlobWithContext(held.master, PrivContext, held.private)
<1>1. /\ at = "private_write" /\ at' = "load" /\ disk' = Put(disk, "private", encrypted)
      /\ UNCHANGED <<data, docs, treeKeys, removed, held, fresh, torn, hurt, refused, faults>>
  BY DEF WritePrivate, Setting, History, Places
<1>2. /\ fresh \in Nat \ {0} /\ held \in Held /\ \A f \in DOMAIN disk : disk[f].plain \in Nat
      /\ PairInv
  BY <1>1, PairFacts
<1>3. encrypted.plain = held.private /\ IsClosed(held.master, encrypted) /\ held.private \in Nat
  BY <1>2, ClosedFacts DEF Held
<1> HIDE DEF encrypted
<1>4. /\ DOMAIN disk' = DOMAIN disk \union {"private"} /\ disk'["private"] = encrypted
      /\ \A g \in DOMAIN disk : g # "private" => disk'[g] = disk[g]
  BY <1>1, PutFacts
<1>5. PairInv'
  BY <1>1, <1>2, <1>3, <1>4 DEF PairInv, Exists, LaticPair, BothOf, Documents
<1>6. \A g \in DOMAIN disk' : disk'[g].plain \in Nat
  BY <1>2, <1>3, <1>4
<1>7. "private" \in DOMAIN disk' =>
          IsText(disk'["private"]) \/ IsClosed(held.master, disk'["private"])
  BY <1>3, <1>4
<1> QED BY <1>1, <1>2, <1>4, <1>5, <1>6, <1>7, PairStepHolds

LEMMA PairFailsHolds == ASSUME KeyInv, RefuseKyber \/ WritePairFails PROVE KeyInv'
<1>1. torn \subseteq {"table", "window"} /\ hurt \in BOOLEAN /\ faults \in Nat
  BY DEF KeyInv, TornInv
<1>2. CASE RefuseKyber
  <2>1. /\ at = "pair" /\ StartFails /\ removed
        /\ UNCHANGED <<disk, data, docs, treeKeys, removed, fresh, torn, hurt, faults>>
    BY <1>2 DEF RefuseKyber, Setting, History, Places
  <2> QED BY <1>1, <2>1, RefuseHolds DEF WritingMaster
<1>3. CASE WritePairFails
  <2>1. /\ at \in {"public_write", "private_write"} /\ StartFails
        /\ faults' = faults + 1 /\ hurt' = (hurt \/ at = "private_write")
        /\ UNCHANGED <<disk, data, docs, treeKeys, removed, fresh, torn>>
    BY <1>3 DEF WritePairFails, Setting, History, Places
  <2>2. hurt' \in BOOLEAN /\ (hurt \/ WritingMaster \/ at = "private_write" => hurt')
    BY <1>1, <2>1 DEF WritingMaster
  <2> QED BY <1>1, <2>1, <2>2, RefuseHolds
<1> QED BY <1>2, <1>3

-----------------------------------------------------------------------------
(* The tables, the tree key and the documents.                               *)

\* A step after the pair touches only the file of the tree key.
LEMMA LateStepHolds ==
    ASSUME KeyInv, PastPair, PastPair', held' \in Held, fresh' \in Nat \ {0},
           held'.master = held.master /\ held'.public = held.public /\ held'.private = held.private,
           DOMAIN disk \subseteq DOMAIN disk', DOMAIN disk' \subseteq DOMAIN disk \union {"tree"},
           \A f \in DOMAIN disk : f # "tree" => disk'[f] = disk[f],
           \A f \in DOMAIN disk' : disk'[f].plain \in Nat,
           data' \subseteq {held.master}, at' # "load" => data' = {held.master},
           docs \subseteq docs',
           ~hurt => \A d \in docs' \ docs : DocumentOf(held.private, d),
           UNCHANGED <<removed, hurt>>, faults' \in Nat, TreeKeyInv', TornInv', RefusedInv'
    PROVE  KeyInv'
<1>1. FilesInv /\ MasterInv /\ PairInv /\ hurt \in BOOLEAN
  BY DEF KeyInv
<1>2. /\ PastMaster /\ PastMaster' /\ ~WritingMaster' /\ at' \in At
      /\ at' \notin {"down", "master", "public_write", "private_write"}
  BY DEF PastPair, PastMaster, WritingMaster, At
<1>3. FilesInv'
  BY <1>1, <1>2 DEF FilesInv
<1>4. MasterInv'
  <2>1. /\ held.master # NoKey /\ "master" \in DOMAIN disk /\ Sealed(held.master)
        /\ disk["master"].plain = held.master \/ (disk["master"].plain = NoKey /\ hurt)
    BY <1>1, <1>2 DEF MasterInv, Exists
  <2>2. Exists("master")' /\ disk'["master"] = disk["master"]
    BY <2>1 DEF Exists
  <2>3. Sealed(held.master)'
    BY <2>1 DEF Sealed, Exists
  <2>4. at' \in Loaded => data' = {held'.master}
    OBVIOUS
  <2> QED BY <1>2, <2>1, <2>2, <2>3, <2>4 DEF MasterInv
<1>5. PairInv'
  <2>1. ~hurt => /\ Exists("public") /\ Exists("private") /\ Documents(held.private)
                 /\ disk["public"].plain = disk["private"].plain /\ held.public = held.private
                 /\ disk["private"].plain = held.private /\ IsClosed(held.master, disk["private"])
                 /\ LaticPair => disk["latic_public"].plain = disk["latic_private"].plain
    BY <1>1 DEF PairInv, PastPair
  <2>2. ~hurt => Documents(held.private)'
    BY <2>1 DEF Documents
  <2>3. LaticPair' = LaticPair
    BY DEF LaticPair, BothOf, Exists
  <2> QED BY <1>2, <2>1, <2>2, <2>3 DEF PairInv, Exists, LaticPair, BothOf
<1> QED BY <1>1, <1>3, <1>4, <1>5 DEF KeyInv

\* What holds at a step after the pair.
LEMMA LateFacts ==
    ASSUME KeyInv, PastPair
    PROVE  /\ fresh \in Nat \ {0} /\ held \in Held /\ \A f \in DOMAIN disk : disk[f].plain \in Nat
           /\ data \subseteq {held.master} /\ (at # "load" => data = {held.master})
           /\ ~hurt => held.public = held.private
           /\ TreeKeyInv /\ TornInv /\ RefusedInv /\ faults \in Nat /\ hurt \in BOOLEAN
<1>1. PastMaster /\ (at # "load" => at \in Loaded)
  BY DEF PastPair, PastMaster, At
<1> QED BY <1>1 DEF KeyInv, FilesInv, MasterInv, Sealed, PairInv

LEMMA LoadTablesHolds == ASSUME KeyInv, LoadTables PROVE KeyInv'
<1>1. /\ at = "load" /\ at' \in {"save", "tree"} /\ "table" \notin torn /\ data' = {held.master}
      /\ UNCHANGED <<disk, docs, treeKeys, removed, held, fresh, torn, hurt, refused, faults>>
  BY DEF LoadTables, Setting, Places
<1>2. PastPair /\ PastPair'
  BY <1>1 DEF PastPair
<1>3. TreeKeyInv' /\ TornInv' /\ RefusedInv'
  BY <1>1, <1>2, LateFacts DEF TreeKeyInv, TornInv, RefusedInv, Exists
<1> QED BY <1>1, <1>2, <1>3, LateFacts, LateStepHolds

\* The startup save, and the saves of the listening server.
LEMMA SavesHold == ASSUME KeyInv, SaveTables \/ SaveFails PROVE KeyInv'
<1>1. /\ at \in {"save", "up"} /\ at' \in Loaded /\ at' # "tree_write"
      /\ UNCHANGED <<disk, data, docs, treeKeys, removed, held, fresh, hurt, refused>>
  BY DEF SaveTables, SaveFails, Setting, History
<1>2. PastPair /\ PastPair'
  BY <1>1 DEF PastPair
<1>3. TreeKeyInv'
  BY <1>1, <1>2, LateFacts DEF TreeKeyInv, Exists
<1>4. faults' \in Nat /\ TornInv' /\ RefusedInv'
  <2>1. CASE SaveTables
    <3>1. torn' = {} /\ "window" \notin torn /\ faults' = faults
      BY <2>1 DEF SaveTables
    <3>2. torn = {} \/ faults > 0
      BY <1>1, <1>2, <3>1, LateFacts DEF TornInv
    <3> QED BY <1>1, <1>2, <3>1, <3>2, LateFacts DEF TornInv, RefusedInv
  <2>2. CASE SaveFails
    <3>1. faults' = faults + 1 /\ torn' \in Interrupted
      BY <2>2 DEF SaveFails
    <3>2. torn' \subseteq {"table", "window"} /\ faults' > 0 /\ faults' \in Nat
      BY <1>2, <3>1, LateFacts, InterruptedFacts
    <3> QED BY <3>2 DEF TornInv, RefusedInv
  <2> QED BY <2>1, <2>2
<1> QED BY <1>1, <1>2, <1>3, <1>4, LateFacts, LateStepHolds

\* Tables are refused only when one of them, or the window's file, is half written: the master
\* key is the one they were written with.
LEMMA LateFailsHold == ASSUME KeyInv, LoadFails \/ StartFault \/ WriteTreeKeyFails PROVE KeyInv'
<1>1. /\ at \in {"load", "save", "tree", "tree_write"} /\ StartFails
      /\ UNCHANGED <<disk, data, docs, treeKeys, removed, fresh, hurt>>
  BY DEF LoadFails, StartFault, WriteTreeKeyFails, Setting, History, Places
<1>2. PastPair /\ ~WritingMaster /\ at # "private_write"
  BY <1>1 DEF PastPair, WritingMaster
<1>3. /\ data \subseteq {held.master} /\ TornInv /\ faults \in Nat /\ hurt \in BOOLEAN
  BY <1>2, LateFacts
<1>4. CASE LoadFails
  <2>1. torn' = torn /\ torn # {} /\ faults' = faults
    BY <1>3, <1>4 DEF LoadFails, Places
  <2> QED BY <1>1, <1>2, <1>3, <2>1, RefuseHolds DEF TornInv
<1>5. CASE StartFault \/ WriteTreeKeyFails
  <2>1. faults' = faults + 1 /\ torn' \in Interrupted
    BY <1>5 DEF StartFault, WriteTreeKeyFails, Places, Interrupted
  <2>2. torn' \subseteq {"table", "window"} /\ faults' > 0 /\ faults' \in Nat
    BY <1>3, <2>1, InterruptedFacts
  <2> QED BY <1>1, <1>2, <1>3, <2>2, RefuseHolds
<1> QED BY <1>4, <1>5

LEMMA TreeKeyHolds ==
    ASSUME KeyInv, ReadTreeKey \/ CreateTreeKey \/ WriteTreeKey
    PROVE  KeyInv'
<1> USE NoKey \in Nat DEF NoKey
<1>1. /\ at \in {"tree", "tree_write"}
      /\ UNCHANGED <<data, docs, removed, torn, hurt, refused, faults>>
  BY DEF ReadTreeKey, CreateTreeKey, WriteTreeKey, Setting, History, Places
<1>2. PastPair
  BY <1>1 DEF PastPair
<1>3. /\ fresh \in Nat \ {0} /\ held \in Held /\ \A f \in DOMAIN disk : disk[f].plain \in Nat
      /\ data = {held.master} /\ TreeKeyInv /\ TornInv /\ RefusedInv /\ faults \in Nat
  BY <1>1, <1>2, LateFacts
<1>4. CASE ReadTreeKey
  <2> DEFINE k == IF env THEN 0 ELSE disk["tree"].plain
  <2>1. /\ at' = "up" /\ disk' = disk /\ fresh' = fresh /\ held' = [held EXCEPT !.tree = k]
        /\ env \/ (Exists("tree") /\ disk["tree"].plain # 0)
        /\ treeKeys' = IF env THEN treeKeys ELSE treeKeys \union {disk["tree"].plain}
    BY <1>4 DEF ReadTreeKey
  <2>2. k \in Nat
    BY <1>3, <2>1 DEF Exists
  <2> HIDE DEF k
  <2>3. /\ held' \in Held /\ held'.master = held.master
        /\ held'.public = held.public /\ held'.private = held.private
    BY <1>3, <2>1, <2>2 DEF Held
  <2>4. PastPair' /\ TreeKeyInv' /\ TornInv' /\ RefusedInv'
    BY <1>1, <1>3, <2>1 DEF PastPair, TreeKeyInv, TornInv, RefusedInv, Exists
  <2> QED BY <1>1, <1>2, <1>3, <2>1, <2>3, <2>4, LateStepHolds
<1>5. CASE CreateTreeKey
  <2>1. /\ at' = "tree_write" /\ disk' = Put(disk, "tree", EmptyFile) /\ fresh' = fresh + 1
        /\ held' = [held EXCEPT !.tree = fresh] /\ treeKeys' = treeKeys
        /\ Exists("tree") => disk["tree"].plain = 0
    BY <1>5 DEF CreateTreeKey, History
  <2>2. /\ DOMAIN disk' = DOMAIN disk \union {"tree"} /\ disk'["tree"] = EmptyFile
        /\ \A g \in DOMAIN disk : g # "tree" => disk'[g] = disk[g]
    BY <2>1, PutFacts
  <2>3. EmptyFile.plain = 0
    BY TextFacts DEF EmptyFile
  <2>4. /\ held' \in Held /\ held'.master = held.master /\ held'.tree = fresh
        /\ held'.public = held.public /\ held'.private = held.private
    BY <1>3, <2>1 DEF Held
  <2>5. PastPair' /\ TreeKeyInv' /\ TornInv' /\ RefusedInv'
    BY <1>1, <1>3, <2>1, <2>4 DEF PastPair, TreeKeyInv, TornInv, RefusedInv, Exists
  <2>6. fresh' \in Nat \ {0} /\ \A f \in DOMAIN disk' : disk'[f].plain \in Nat
    BY <1>3, <2>1, <2>2, <2>3
  <2> QED BY <1>1, <1>2, <1>3, <2>2, <2>4, <2>5, <2>6, LateStepHolds
<1>6. CASE WriteTreeKey
  <2>1. /\ at = "tree_write" /\ at' = "up" /\ disk' = Put(disk, "tree", Text(held.tree))
        /\ treeKeys' = treeKeys \union {held.tree} /\ UNCHANGED <<held, fresh>>
    BY <1>6 DEF WriteTreeKey
  <2>2. /\ DOMAIN disk' = DOMAIN disk \union {"tree"} /\ disk'["tree"] = Text(held.tree)
        /\ \A g \in DOMAIN disk : g # "tree" => disk'[g] = disk[g]
    BY <2>1, PutFacts
  <2>3. disk'["tree"].plain = held.tree /\ held.tree \in Nat
    BY <1>3, <2>2, TextFacts DEF Held
  <2>4. PastPair' /\ TreeKeyInv' /\ TornInv' /\ RefusedInv'
    BY <1>1, <1>3, <2>1, <2>2, <2>3 DEF PastPair, TreeKeyInv, TornInv, RefusedInv, Exists
  <2>5. \A f \in DOMAIN disk' : disk'[f].plain \in Nat
    BY <1>3, <2>2, <2>3
  <2> QED BY <1>1, <1>2, <1>3, <2>1, <2>2, <2>4, <2>5, LateStepHolds
<1> QED BY <1>4, <1>5, <1>6

LEMMA StoreDocumentHolds == ASSUME KeyInv, StoreDocument PROVE KeyInv'
<1> DEFINE new == EncryptDocument(GenerateHybridKeypair(held.public), fresh, "document")
<1>1. /\ at = "up" /\ at' = "up" /\ docs' = docs \union {new} /\ fresh' = fresh + 1
      /\ UNCHANGED <<disk, data, treeKeys, removed, held, torn, hurt, refused, faults>>
  BY DEF StoreDocument, Setting, Places
<1>2. PastPair /\ PastPair'
  BY <1>1 DEF PastPair
<1>3. DocumentOf(held.public, new)
  BY DEF DocumentOf
<1> HIDE DEF new
<1>4. fresh' \in Nat \ {0} /\ TreeKeyInv' /\ TornInv' /\ RefusedInv'
  BY <1>1, <1>2, LateFacts DEF TreeKeyInv, TornInv, RefusedInv, Exists
<1> QED BY <1>1, <1>2, <1>3, <1>4, LateFacts, LateStepHolds

-----------------------------------------------------------------------------
(* The theorems about the keys.                                             *)

LEMMA KeyInvHolds == Spec => []KeyInv
<1>1. Init => KeyInv
  BY KeyInitHolds DEF Init
<1>2. KeyInv /\ [Next]_vars => KeyInv'
  <2> SUFFICES ASSUME KeyInv, [Next]_vars PROVE KeyInv'
    OBVIOUS
  <2>1. KeyStep \/ LoadTables \/ KillProcess \/ UNCHANGED keyVars
    BY DEF Next, Starting, Serving, Kill, vars
  <2>2. CASE KeyStep
    BY <2>2, StartOrKillHolds, ReadMasterHolds, WriteMasterHolds, WriteMasterFailsHolds,
       ReadPairHolds, NewPairHolds, WritePublicHolds, WritePrivateHolds, PairFailsHolds,
       TreeKeyHolds, StoreDocumentHolds, SavesHold, LateFailsHold DEF KeyStep
  <2>3. CASE UNCHANGED keyVars
    BY <2>3 DEF keyVars, KeyInv, FilesInv, MasterInv, PairInv, TreeKeyInv, TornInv, RefusedInv, Exists,
                Sealed, WritingMaster, PastMaster, PastPair, LaticPair, BothOf, Documents
  <2> QED BY <2>1, <2>2, <2>3, LoadTablesHolds, StartOrKillHolds
<1> QED BY <1>1, <1>2, PTL DEF Spec

\* A listening server has the one master key of all its tables, and the private key of every
\* document, which the next start will read from its file too; unless a start was once
\* interrupted while the file of one of the two was empty.
THEOREM KeysStayGood == Spec => []KeysOpenData
<1>1. KeyInv => KeysOpenData
  <2> SUFFICES ASSUME KeyInv, Up PROVE KeysOpenData
    BY DEF KeysOpenData
  <2>1. PastPair /\ at # "load"
    BY DEF Up, PastPair
  <2>2. data = {held.master}
    BY <2>1, LateFacts
  <2>3. ASSUME ~hurt, NEW d \in docs
        PROVE  /\ DecryptDocument(GenerateHybridKeypair(held.private), d) # {}
               /\ \E k \in PrivateFile : DecryptDocument(GenerateHybridKeypair(k), d) # {}
    <3>1. /\ DocumentOf(held.private, d) /\ disk["private"].plain = held.private
          /\ IsClosed(held.master, disk["private"])
      BY <2>1, <2>3 DEF KeyInv, PairInv, Documents
    <3>2. PrivateFile = {held.private}
      BY <3>1, OpenClosed DEF PrivateFile
    <3> QED BY <3>1, <3>2, OpenDocument
  <2> QED BY <2>2, <2>3 DEF KeysOpenData
<1> QED BY <1>1, KeyInvHolds, PTL

\* A start is refused only after such an interruption, after one in the middle of a save whose
\* snapshot is still half written, for an operation that failed, or because of files of the
\* Kyber build; and the administrators keep the one tree key.
THEOREM StartsAlwaysRepair == Spec => []StartsRepair
<1>1. KeyInv => StartsRepair
  <2> SUFFICES ASSUME KeyInv PROVE StartsRepair
    OBVIOUS
  <2>1. treeKeys = {} \/ treeKeys = {disk["tree"].plain}
    BY DEF KeyInv, TreeKeyInv
  <2>2. Cardinality(treeKeys) \in {0, 1}
    BY <2>1, FS_EmptySet, FS_Singleton, Zenon
  <2> QED BY <2>2 DEF KeyInv, RefusedInv, StartsRepair
<1> QED BY <1>1, KeyInvHolds, PTL

-----------------------------------------------------------------------------
(* The tables: what the readers find in the files of any build.              *)

Layouts(t) == OlderColumns[t] \union {Columns[t]}

\* The reader of a table finds the columns of a layout by their number, each in its place,
\* and with the fields that it lacks those from which it fills them in.
Readable(t, columns) ==
    LET at_ == ColumnOf(t, Len(columns))
        lacks == Fields(t) \ DOMAIN at_
    IN /\ Len(columns) \in Nat \ {0} /\ DOMAIN columns = 1 .. Len(columns)
       /\ \A x \in DOMAIN at_ : at_[x] \in DOMAIN columns /\ columns[at_[x]] = x
       /\ DOMAIN at_ \subseteq Fields(t)
       /\ \A x \in Fields(t) : x \in DOMAIN at_ <=> x \in Range(columns)
       /\ "joined_at" \in lacks => "year" \in DOMAIN at_
       /\ "file_name" \in lacks => "title" \in DOMAIN at_
       /\ "updated_at" \in lacks => "uploaded_at" \in DOMAIN at_
       /\ {"role", "status"} \intersect lacks = {}

\* The layouts one by one.
LEMMA OrgLayout == Readable("orgs", OrgColumns)
<1>1. Len(OrgColumns) = 8 /\ DOMAIN OrgColumns = 1 .. 8
  BY DEF OrgColumns
<1>2. DOMAIN OrgColumn = Range(OrgColumns) /\ Fields("orgs") = Range(OrgColumns)
  BY DEF OrgColumn, OrgColumns, Range, Fields, Columns
<1>3. \A x \in DOMAIN OrgColumn : OrgColumn[x] \in 1 .. 8 /\ OrgColumns[OrgColumn[x]] = x
  BY DEF OrgColumn, OrgColumns
<1>4. ColumnOf("orgs", 8) = OrgColumn
  BY DEF ColumnOf
<1> QED BY <1>1, <1>2, <1>3, <1>4 DEF Readable

LEMMA ActivityLayout == Readable("activities", ActivityColumns)
<1>1. Len(ActivityColumns) = 8 /\ DOMAIN ActivityColumns = 1 .. 8
  BY DEF ActivityColumns
<1>2. DOMAIN ActivityColumn = Range(ActivityColumns) /\ Fields("activities") = Range(ActivityColumns)
  BY DEF ActivityColumn, ActivityColumns, Range, Fields, Columns
<1>3. \A x \in DOMAIN ActivityColumn :
         ActivityColumn[x] \in 1 .. 8 /\ ActivityColumns[ActivityColumn[x]] = x
  BY DEF ActivityColumn, ActivityColumns
<1>4. ColumnOf("activities", 8) = ActivityColumn
  BY DEF ColumnOf
<1> QED BY <1>1, <1>2, <1>3, <1>4 DEF Readable

LEMMA UserLayout == Readable("users", UserColumns)
<1>1. Len(UserColumns) = 9 /\ DOMAIN UserColumns = 1 .. 9
  BY DEF UserColumns
<1> DEFINE a == UserColumn(9)
<1>2. DOMAIN a = Range(UserColumns) /\ Fields("users") = Range(UserColumns)
  BY DEF UserColumn, Joined, UserColumns, Range, Fields, Columns
<1>3. \A x \in DOMAIN a : a[x] \in 1 .. 9 /\ UserColumns[a[x]] = x
  BY DEF UserColumn, Joined, UserColumns
<1>4. ColumnOf("users", 9) = a
  BY DEF ColumnOf
<1> HIDE DEF a
<1> QED BY <1>1, <1>2, <1>3, <1>4 DEF Readable

LEMMA OldUserLayout == \A c \in OlderColumns.users : Readable("users", c)
<1> DEFINE c == <<"id", "username", "password_hash", "role", "org_id", "tree_key_enabled",
                  "active", "created_at">>
           a == UserColumn(8)
<1>1. OlderColumns.users = {c}
  BY DEF OlderColumns
<1>2. Len(c) = 8 /\ DOMAIN c = 1 .. 8
  OBVIOUS
<1>3. DOMAIN a = Range(c) /\ Fields("users") = Range(c) \union {"password_plain"}
  BY DEF UserColumn, Joined, UserColumns, Range, Fields, Columns
<1>4. \A x \in DOMAIN a : a[x] \in 1 .. 8 /\ c[a[x]] = x
  BY DEF UserColumn, Joined
<1>5. ColumnOf("users", 8) = a
  BY DEF ColumnOf
<1>6. "role" \in Range(c)
  BY DEF Range
<1> HIDE DEF a, c
<1>7. Readable("users", c)
  BY <1>2, <1>3, <1>4, <1>5, <1>6 DEF Readable
<1> QED BY <1>1, <1>7

LEMMA MemberLayout == Readable("members", MemberColumns)
<1>1. Len(MemberColumns) = 12 /\ DOMAIN MemberColumns = 1 .. 12
  BY DEF MemberColumns
<1> DEFINE a == MemberColumn(12)
<1>2. DOMAIN a = Range(MemberColumns) /\ Fields("members") = Range(MemberColumns)
  BY DEF MemberColumn, Joined, MemberColumns, Range, Fields, Columns
<1>3. \A x \in DOMAIN a : a[x] \in 1 .. 12 /\ MemberColumns[a[x]] = x
  BY DEF MemberColumn, Joined, MemberColumns
<1>4. ColumnOf("members", 12) = a
  BY DEF ColumnOf
<1> HIDE DEF a
<1> QED BY <1>1, <1>2, <1>3, <1>4 DEF Readable

LEMMA OldMemberLayout == \A c \in OlderColumns.members : Readable("members", c)
<1> DEFINE c == <<"id", "org_id", "full_name", "title", "year", "active", "notes", "updated_at">>
           a == MemberColumn(8)
<1>1. OlderColumns.members = {c}
  BY DEF OlderColumns
<1>2. Len(c) = 8 /\ DOMAIN c = 1 .. 8
  OBVIOUS
<1>3. /\ DOMAIN a = Range(c)
      /\ Fields("members") = Range(c) \union {"birth_date", "address", "phone", "joined_at"}
  BY DEF MemberColumn, Joined, MemberColumns, Range, Fields, Columns
<1>4. \A x \in DOMAIN a : a[x] \in 1 .. 8 /\ c[a[x]] = x
  BY DEF MemberColumn, Joined
<1>5. ColumnOf("members", 8) = a
  BY DEF ColumnOf
<1>6. "year" \in Range(c) /\ "updated_at" \in Range(c)
  BY DEF Range
<1> HIDE DEF a, c
<1>7. Readable("members", c)
  BY <1>2, <1>3, <1>4, <1>5, <1>6 DEF Readable
<1> QED BY <1>1, <1>7

LEMMA DocumentLayout == Readable("documents", DocumentColumns)
<1>1. Len(DocumentColumns) = 12 /\ DOMAIN DocumentColumns = 1 .. 12
  BY DEF DocumentColumns
<1> DEFINE a == DocumentColumn(12)
<1>2. DOMAIN a = Range(DocumentColumns) /\ Fields("documents") = Range(DocumentColumns)
  BY DEF DocumentColumn, FirstDocumentColumn, LastDocumentColumn, Joined, DocumentColumns, Range,
         Fields, Columns
<1>3. \A x \in DOMAIN a : a[x] \in 1 .. 12 /\ DocumentColumns[a[x]] = x
  BY DEF DocumentColumn, FirstDocumentColumn, LastDocumentColumn, Joined, DocumentColumns
<1>4. ColumnOf("documents", 12) = a
  BY DEF ColumnOf
<1> HIDE DEF a
<1> QED BY <1>1, <1>2, <1>3, <1>4 DEF Readable

\* The layout that lacks only updated_at.
LEMMA LateDocumentLayout == Readable("documents", SubSeq(DocumentColumns, 1, 11))
<1> DEFINE c == <<"id", "org_id", "title", "file_name", "mime_type", "preview_text", "year",
                  "encrypted_path", "kem_ciphertext_b64", "nonce_b64", "uploaded_at">>
           s == SubSeq(DocumentColumns, 1, 11)
           a == DocumentColumn(11)
<1>1. Len(s) = 11 /\ DOMAIN s = 1 .. 11 /\ \A i \in 1 .. 11 : s[i] = DocumentColumns[i]
  <2> DEFINE D == DocumentColumns
             S == {D[i] : i \in 1 .. 11}
  <2>1. \A i \in 1 .. 11 : D[i] \in S
    OBVIOUS
  <2> HIDE DEF S
  <2>2. /\ SubSeq(D, 1, 11) \in Seq(S) /\ Len(SubSeq(D, 1, 11)) = 11
        /\ \A i \in 1 .. 11 : SubSeq(D, 1, 11)[i] = D[i]
    <3>1. 1 \in Int /\ 11 \in Int
      OBVIOUS
    <3> HIDE DEF D
    <3> QED BY <2>1, <3>1, SubSeqProperties
  <2> HIDE DEF D
  <2> QED BY <2>2 DEF D
<1>2. \A i \in 1 .. 11 : DocumentColumns[i] = c[i]
  BY DEF DocumentColumns
<1>3. DOMAIN a = Range(c) /\ Fields("documents") = Range(c) \union {"updated_at"}
  BY DEF DocumentColumn, FirstDocumentColumn, LastDocumentColumn, Joined, DocumentColumns, Range,
         Fields, Columns
<1>4. \A x \in DOMAIN a : a[x] \in 1 .. 11 /\ c[a[x]] = x
  BY DEF DocumentColumn, FirstDocumentColumn, LastDocumentColumn, Joined
<1>5. ColumnOf("documents", 11) = a
  BY DEF ColumnOf
<1>6. "file_name" \in Range(c) /\ "uploaded_at" \in Range(c) /\ DOMAIN c = 1 .. 11
  BY DEF Range
<1> HIDE DEF a, c, s
<1>7. Range(s) = Range(c) /\ \A i \in 1 .. 11 : s[i] = c[i]
  BY <1>1, <1>2, <1>6 DEF Range
<1>8. Readable("documents", s)
  BY <1>1, <1>3, <1>4, <1>5, <1>6, <1>7 DEF Readable
<1> QED BY <1>8 DEF s

\* The layout from before the name and the type of a file.
LEMMA FirstDocumentLayout ==
    Readable("documents", <<"id", "org_id", "title", "year", "encrypted_path",
                            "kem_ciphertext_b64", "nonce_b64", "uploaded_at">>)
<1> DEFINE c == <<"id", "org_id", "title", "year", "encrypted_path", "kem_ciphertext_b64",
                  "nonce_b64", "uploaded_at">>
           a == DocumentColumn(8)
<1>1. Len(c) = 8 /\ DOMAIN c = 1 .. 8
  OBVIOUS
<1>2. /\ DOMAIN a = Range(c)
      /\ Fields("documents") = Range(c) \union {"file_name", "mime_type", "preview_text", "updated_at"}
  BY DEF DocumentColumn, FirstDocumentColumn, LastDocumentColumn, Joined, DocumentColumns, Range,
         Fields, Columns
<1>3. \A x \in DOMAIN a : a[x] \in 1 .. 8 /\ c[a[x]] = x
  BY DEF DocumentColumn, FirstDocumentColumn, LastDocumentColumn, Joined
<1>4. ColumnOf("documents", 8) = a
  BY DEF ColumnOf
<1>5. "title" \in Range(c) /\ "uploaded_at" \in Range(c)
  BY DEF Range
<1> HIDE DEF a
<1>6. Readable("documents", c)
  <2> HIDE DEF c
  <2> QED BY <1>1, <1>2, <1>3, <1>4, <1>5 DEF Readable
<1> QED BY <1>6

LEMMA AllReadable ==
    ASSUME NEW t \in Table, NEW c \in Layouts(t)
    PROVE  Readable(t, c)
<1>1. Table = {"orgs", "users", "members", "activities", "documents"}
  BY DEF Table, Columns
<1>2. /\ Columns["orgs"] = OrgColumns /\ Columns["users"] = UserColumns
      /\ Columns["members"] = MemberColumns /\ Columns["activities"] = ActivityColumns
      /\ Columns["documents"] = DocumentColumns
  BY DEF Columns
<1>3. OlderColumns["orgs"] = {} /\ OlderColumns["activities"] = {}
  BY DEF OlderColumns
<1>4. OlderColumns["documents"] =
         {SubSeq(DocumentColumns, 1, 11),
          <<"id", "org_id", "title", "year", "encrypted_path", "kem_ciphertext_b64",
            "nonce_b64", "uploaded_at">>}
  BY DEF OlderColumns
<1>5. CASE t = "orgs"
  BY <1>2, <1>3, <1>5, OrgLayout DEF Layouts
<1>6. CASE t = "users"
  BY <1>2, <1>6, UserLayout, OldUserLayout DEF Layouts
<1>7. CASE t = "members"
  BY <1>2, <1>7, MemberLayout, OldMemberLayout DEF Layouts
<1>8. CASE t = "activities"
  BY <1>2, <1>3, <1>8, ActivityLayout DEF Layouts
<1>9. CASE t = "documents"
  BY <1>2, <1>4, <1>9, DocumentLayout, LateDocumentLayout, FirstDocumentLayout DEF Layouts
<1> QED BY <1>1, <1>5, <1>6, <1>7, <1>8, <1>9

-----------------------------------------------------------------------------
(* Rows are written and read back.                                           *)

\* A row of the fields of a table, whose role and state are known ones.
RowOK(t, r) ==
    /\ DOMAIN r = Fields(t) /\ r = [x \in Fields(t) |-> r[x]]
    /\ \A x \in Fields(t) : FromCell(x, ToCell(x, r[x])) = r[x]

LEMMA PlainCell ==
    \A x, v : x \notin {"role", "status"} => FromCell(x, ToCell(x, v)) = v
BY DEF FromCell, ToCell

LEMMA NewRowOK == ASSUME NEW t, NEW n PROVE RowOK(t, NewRow(t, n))
<1> DEFINE r == NewRow(t, n)
<1>1. r = [x \in Fields(t) |-> Cell(x, n)]
  BY DEF NewRow
<1>2. ASSUME NEW x \in Fields(t) PROVE FromCell(x, ToCell(x, Cell(x, n))) = Cell(x, n)
  <2>1. CASE x = "role"
    BY <2>1 DEF FromCell, ToCell, Cell, AsStr, RoleFromValue
  <2>2. CASE x = "status"
    BY <2>2 DEF FromCell, ToCell, Cell, AsStr, StatusFromValue
  <2>3. CASE x \notin {"role", "status"}
    BY <2>3, PlainCell
  <2> QED BY <2>1, <2>2, <2>3
<1> HIDE DEF r
<1>3. RowOK(t, r)
  BY <1>1, <1>2 DEF RowOK
<1> QED BY <1>3 DEF r

\* What an older layout knew of a row is a row.
LEMMA AgedOK ==
    ASSUME NEW t, NEW c, Readable(t, c), NEW r, RowOK(t, r)
    PROVE  RowOK(t, Aged(t, c, r))
<1> DEFINE o == Aged(t, c, r)
           V(x) == IF x \in Range(c) THEN r[x] ELSE Default(x, r)
<1>1. o = [x \in Fields(t) |-> V(x)]
  BY DEF Aged
<1>2. ASSUME NEW x \in Fields(t) PROVE FromCell(x, ToCell(x, V(x))) = V(x)
  <2>1. CASE x \in Range(c)
    BY <2>1 DEF RowOK
  <2>2. CASE x \notin Range(c)
    <3>1. x \notin {"role", "status"}
      BY <2>2 DEF Readable
    <3> HIDE DEF V
    <3> QED BY <3>1, PlainCell
  <2> QED BY <2>1, <2>2
<1> HIDE DEF o, V
<1>3. RowOK(t, o)
  BY <1>1, <1>2 DEF RowOK
<1> QED BY <1>3 DEF o

\* In the layout of this build a row loses nothing.
LEMMA AgedNow ==
    ASSUME NEW t, NEW r, RowOK(t, r)
    PROVE  Aged(t, Columns[t], r) = r
<1>1. \A x \in Fields(t) : x \in Range(Columns[t])
  BY DEF Fields
<1>2. Aged(t, Columns[t], r) = [x \in Fields(t) |-> r[x]]
  BY <1>1 DEF Aged
<1> QED BY <1>2 DEF RowOK

\* A file in a layout that the reader knows is read as the rows that the layout knew.
LEMMA ReadBack ==
    ASSUME NEW t, NEW c, Readable(t, c), NEW items, \A n \in DOMAIN items : RowOK(t, items[n])
    PROVE  /\ Loads(t, ToBytes(c, items))
           /\ FromBytes(t, ToBytes(c, items)) = [n \in DOMAIN items |-> Aged(t, c, items[n])]
<1> DEFINE f == ToBytes(c, items)
           w == Len(c)
           a == ColumnOf(t, w)
           there(n) == [x \in DOMAIN a |-> FromCell(x, f[a[x]].cells[n])]
           read(n) == [x \in Fields(t) |-> IF x \in DOMAIN a THEN there(n)[x] ELSE Default(x, there(n))]
<1>1. /\ w \in Nat \ {0} /\ DOMAIN c = 1 .. w
      /\ \A x \in DOMAIN a : a[x] \in DOMAIN c /\ c[a[x]] = x
      /\ DOMAIN a \subseteq Fields(t)
      /\ \A x \in Fields(t) : x \in DOMAIN a <=> x \in Range(c)
      /\ "joined_at" \in Fields(t) \ DOMAIN a => "year" \in DOMAIN a
      /\ "file_name" \in Fields(t) \ DOMAIN a => "title" \in DOMAIN a
      /\ "updated_at" \in Fields(t) \ DOMAIN a => "uploaded_at" \in DOMAIN a
  BY DEF Readable
<1>2. f = [i \in 1 .. w |->
              [type |-> TypeOf(c[i]), cells |-> [n \in DOMAIN items |-> ToCell(c[i], items[n][c[i]])]]]
  BY <1>1 DEF ToBytes
<1>3. FromBytes(t, f) = [n \in DOMAIN f[1].cells |->
          [x \in Fields(t) |-> IF x \in DOMAIN ColumnOf(t, Len(f)) 
             THEN [y \in DOMAIN ColumnOf(t, Len(f)) |-> FromCell(y, f[ColumnOf(t, Len(f))[y]].cells[n])][x]
             ELSE Default(x, [y \in DOMAIN ColumnOf(t, Len(f)) |-> FromCell(y, f[ColumnOf(t, Len(f))[y]].cells[n])])]]
  BY DEF FromBytes
<1>4. Loads(t, f) <=> \A x \in DOMAIN ColumnOf(t, Len(f)) :
          ColumnOf(t, Len(f))[x] \in DOMAIN f /\ f[ColumnOf(t, Len(f))[x]].type = TypeOf(x)
  BY DEF Loads
<1> HIDE DEF f, w
<1>5. Len(f) = w /\ DOMAIN f = 1 .. w
  BY <1>1, <1>2
<1>6. \A i \in 1 .. w : /\ f[i].type = TypeOf(c[i])
                        /\ f[i].cells = [n \in DOMAIN items |-> ToCell(c[i], items[n][c[i]])]
  BY <1>2
<1>7. FromBytes(t, f) = [n \in DOMAIN f[1].cells |-> read(n)]
  BY <1>3, <1>5
<1>8. Loads(t, f)
  <2> HIDE DEF a
  <2>1. \A x \in DOMAIN a : a[x] \in DOMAIN f /\ f[a[x]].type = TypeOf(x)
    BY <1>1, <1>5, <1>6
  <2> QED BY <1>4, <1>5, <2>1 DEF a
<1> HIDE DEF a
<1>9. DOMAIN f[1].cells = DOMAIN items
  <2>1. 1 \in 1 .. w
    BY <1>1
  <2> QED BY <1>6, <2>1
<1>10. ASSUME NEW n \in DOMAIN items, NEW x \in DOMAIN a PROVE there(n)[x] = items[n][x]
  <2>1. a[x] \in 1 .. w /\ c[a[x]] = x
    BY <1>1
  <2>2. f[a[x]].cells[n] = ToCell(x, items[n][x])
    <3> DEFINE i == a[x]
               cell(y) == ToCell(y, items[n][y])
    <3>1. i \in 1 .. w /\ c[i] = x
      BY <2>1
    <3> HIDE DEF i
    <3>2. f[i].cells = [m \in DOMAIN items |-> ToCell(c[i], items[m][c[i]])]
      BY <3>1, <1>6
    <3>3. f[i].cells[n] = cell(c[i])
      BY <3>2
    <3> HIDE DEF cell
    <3>4. f[i].cells[n] = cell(x)
      BY <3>1, <3>3
    <3> QED BY <3>4 DEF cell, i
  <2>3. there(n)[x] = FromCell(x, ToCell(x, items[n][x]))
    BY <2>2
  <2>4. x \in Fields(t)
    BY <1>1
  <2> QED BY <2>3, <2>4 DEF RowOK
<1>11. ASSUME NEW n \in DOMAIN items PROVE read(n) = Aged(t, c, items[n])
  <2> DEFINE r == items[n]
             q == there(n)
  <2>1. DOMAIN q = DOMAIN a /\ \A x \in DOMAIN a : q[x] = r[x]
    BY <1>10
  <2>2. read(n) = [x \in Fields(t) |-> IF x \in DOMAIN a THEN q[x] ELSE Default(x, q)]
    OBVIOUS
  <2> HIDE DEF q
  <2>3. ASSUME NEW x \in Fields(t) \ DOMAIN a PROVE Default(x, q) = Default(x, r)
    BY <1>1, <2>1 DEF Default
  <2>4. Aged(t, c, r) = [x \in Fields(t) |-> IF x \in Range(c) THEN r[x] ELSE Default(x, r)]
    BY DEF Aged
  <2> HIDE DEF r
  <2>5. \A x \in Fields(t) : (IF x \in DOMAIN a THEN q[x] ELSE Default(x, q))
                             = (IF x \in Range(c) THEN r[x] ELSE Default(x, r))
    BY <1>1, <2>1, <2>3
  <2> HIDE DEF read
  <2> QED BY <2>2, <2>4, <2>5 DEF r
<1> HIDE DEF read
<1>12. FromBytes(t, f) = [n \in DOMAIN items |-> Aged(t, c, items[n])]
  BY <1>7, <1>9, <1>11
<1> QED BY <1>8, <1>12 DEF f

-----------------------------------------------------------------------------
(* The table over starts, requests and kills.                                *)

\* The rows that a table can hold: new ones, and the one that an older build knew.
KnownRow(t) == {NewRow(t, n) : n \in Nat} \union {Aged(t, c, NewRow(t, 1)) : c \in Layouts(t)}

LEMMA KnownRowOK == ASSUME NEW t \in Table, NEW r \in KnownRow(t) PROVE RowOK(t, r)
<1>1. CASE \E n \in Nat : r = NewRow(t, n)
  BY <1>1, NewRowOK
<1>2. CASE \E c \in Layouts(t) : r = Aged(t, c, NewRow(t, 1))
  <2>1. PICK c \in Layouts(t) : r = Aged(t, c, NewRow(t, 1))
    BY <1>2
  <2>2. Readable(t, c) /\ RowOK(t, NewRow(t, 1))
    BY AllReadable, NewRowOK
  <2>3. RowOK(t, Aged(t, c, NewRow(t, 1)))
    <3> DEFINE r1 == NewRow(t, 1)
    <3>1. Readable(t, c) /\ RowOK(t, r1)
      BY <2>2
    <3> HIDE DEF r1
    <3>2. RowOK(t, Aged(t, c, r1))
      BY <3>1, AgedOK
    <3> QED BY <3>2 DEF r1
  <2> QED BY <2>1, <2>3
<1> QED BY <1>1, <1>2 DEF KnownRow

\* The file holds the known rows and, once a start has loaded them, so does the memory.
CodecInv ==
    /\ table \in Table
    /\ known \in Seq(KnownRow(table))
    /\ RowsSurvive
    /\ at \in Loaded => rows = known

LEMMA CodecStart == Init => CodecInv
<1> SUFFICES ASSUME Init PROVE CodecInv
  OBVIOUS
<1> DEFINE r == NewRow(table, 1)
           o(c) == Aged(table, c, r)
<1>1. table \in Table /\ at \notin Loaded
  BY DEF Init, CodecInit, KeyInit
<1>2. PICK c \in Layouts(table) : file = ToBytes(c, <<r>>) /\ known = <<o(c)>>
  BY DEF Init, CodecInit, Layouts
<1>3. o(c) \in KnownRow(table)
  BY DEF KnownRow
<1>4. RowOK(table, r) /\ Readable(table, c)
  BY <1>1, NewRowOK, AllReadable
<1> HIDE DEF r
<1>5. /\ Loads(table, file)
      /\ FromBytes(table, file) = [n \in DOMAIN <<r>> |-> Aged(table, c, <<r>>[n])]
  <2> DEFINE items == <<r>>
  <2>1. \A n \in DOMAIN items : RowOK(table, items[n])
    BY <1>4
  <2>2. file = ToBytes(c, items)
    BY <1>2
  <2> HIDE DEF items
  <2>3. /\ Loads(table, ToBytes(c, items))
        /\ FromBytes(table, ToBytes(c, items)) = [n \in DOMAIN items |-> Aged(table, c, items[n])]
    BY <1>4, <2>1, ReadBack
  <2> QED BY <2>2, <2>3 DEF items
<1> HIDE DEF o
<1>6. known \in Seq(KnownRow(table))
  BY <1>2, <1>3
<1>7. [n \in DOMAIN <<r>> |-> Aged(table, c, <<r>>[n])] = <<Aged(table, c, r)>>
  OBVIOUS
<1> QED BY <1>1, <1>2, <1>5, <1>6, <1>7 DEF CodecInv, RowsSurvive, o

\* Rows in the layout of this build are read back as they were.
LEMMA NowReadBack ==
    ASSUME NEW t \in Table, NEW items \in Seq(KnownRow(t))
    PROVE  Loads(t, ToBytes(Columns[t], items)) /\ FromBytes(t, ToBytes(Columns[t], items)) = items
<1> DEFINE c == Columns[t]
<1>1. \A n \in DOMAIN items : items[n] \in KnownRow(t)
  OBVIOUS
<1>2. \A n \in DOMAIN items : RowOK(t, items[n])
  BY <1>1, KnownRowOK
<1>3. Readable(t, c)
  BY AllReadable DEF Layouts
<1>4. \A n \in DOMAIN items : Aged(t, c, items[n]) = items[n]
  BY <1>2, AgedNow
<1> HIDE DEF c
<1>5. /\ Loads(t, ToBytes(c, items))
      /\ FromBytes(t, ToBytes(c, items)) = [n \in DOMAIN items |-> Aged(t, c, items[n])]
  BY <1>2, <1>3, ReadBack
<1>6. [n \in DOMAIN items |-> Aged(t, c, items[n])] = items
  BY <1>4
<1> QED BY <1>5, <1>6 DEF c

LEMMA CodecSteps == CodecInv /\ [Next]_vars => CodecInv'
<1> SUFFICES ASSUME CodecInv, [Next]_vars PROVE CodecInv'
  OBVIOUS
<1>1. CASE KeyStep /\ UNCHANGED codecVars
  <2>1. at' \in Loaded => at \in Loaded
    BY <1>1 DEF KeyStep, StartServer, ReadMaster, CreateMaster, WriteMaster, WriteMasterFails,
                ReadPair, MigrateLatic, RefuseKyber, CreatePair, WritePublic, WritePrivate,
                WritePairFails, LoadFails, SaveTables, SaveFails, StartFault, ReadTreeKey,
                CreateTreeKey, WriteTreeKey, WriteTreeKeyFails, StoreDocument, StartFails
  <2> QED BY <1>1, <2>1 DEF CodecInv, RowsSurvive, codecVars
<1>2. CASE LoadTables /\ LoadRows
  BY <1>2 DEF LoadRows, CodecInv, RowsSurvive
<1>3. CASE Up /\ UNCHANGED keyVars /\ AddRow
  <2> DEFINE new == NewRow(table, Len(rows) + 1)
  <2>1. rows = known /\ known \in Seq(KnownRow(table)) /\ table \in Table /\ table' = table
    BY <1>3 DEF CodecInv, Up, AddRow
  <2>2. new \in KnownRow(table)
    BY <2>1 DEF KnownRow
  <2>3. /\ rows' = Append(known, new) /\ known' = Append(known, new)
        /\ file' = ToBytes(Columns[table], known')
    BY <1>3, <2>1 DEF AddRow
  <2> HIDE DEF new
  <2>4. known' \in Seq(KnownRow(table))
    BY <2>1, <2>2, <2>3
  <2>5. Loads(table, file') /\ FromBytes(table, file') = known'
    BY <2>1, <2>3, <2>4, NowReadBack
  <2> QED BY <2>1, <2>3, <2>4, <2>5 DEF CodecInv, RowsSurvive
<1>4. CASE UNCHANGED keyVars /\ UNCHANGED codecVars
  BY <1>4 DEF CodecInv, RowsSurvive, codecVars, keyVars
<1>5. CASE Kill
  BY <1>5 DEF Kill, KillProcess, CodecInv, RowsSurvive
<1> QED BY <1>1, <1>2, <1>3, <1>4, <1>5 DEF Next, Starting, Serving, vars

\* Every row that any build ever saved is read with its fields in their places, and stays that
\* row however often it is loaded and saved again.
THEOREM RowsAlwaysSurvive == Spec => []RowsSurvive
<1>1. CodecInv => RowsSurvive
  BY DEF CodecInv
<1> QED BY <1>1, CodecStart, CodecSteps, PTL DEF Spec

-----------------------------------------------------------------------------
(* Layouts.                                                                  *)

\* No layout, in memory or in the file, has a number that was not given out yet.
LayoutInv ==
    /\ saved \in Nat
    /\ layouts \in [Owners -> 0 .. saved] /\ layoutFile \in [Owners -> 0 .. saved]
    /\ answered \in [Owners -> 0 .. saved]
    /\ writing \in Owners \union {NoOwner}
    /\ LayoutsKept

LEMMA LayoutStart == LayoutInit => LayoutInv
BY DEF LayoutInit, LayoutInv, LayoutsKept, Empty, NoLayout

LEMMA SaveLayoutHolds == ASSUME LayoutInv, NEW o \in Owners, SaveLayout(o) PROVE LayoutInv'
<1>1. /\ saved' = saved + 1 /\ saved \in Nat /\ writing' = o /\ answered' = answered
      /\ layouts' = [layouts EXCEPT ![o] = saved + 1] /\ layoutFile' = [p \in Owners |-> 0]
  BY DEF SaveLayout, LayoutInv, Empty, NoLayout
<1>2. /\ layouts \in [Owners -> 0 .. saved'] /\ answered \in [Owners -> 0 .. saved']
      /\ 0 \in 0 .. saved' /\ saved + 1 \in 0 .. saved'
  BY <1>1 DEF LayoutInv
<1>3. /\ layouts' \in [Owners -> 0 .. saved'] /\ layoutFile' \in [Owners -> 0 .. saved']
      /\ answered' \in [Owners -> 0 .. saved']
  BY <1>1, <1>2
<1>4. \A p \in Owners : layouts'[p] >= answered'[p]
  BY <1>1, <1>2 DEF LayoutInv, LayoutsKept
<1> QED BY <1>1, <1>3, <1>4, LayoutAssumption DEF LayoutInv, LayoutsKept

LEMMA LayoutWrittenHolds == ASSUME LayoutInv, LayoutWritten PROVE LayoutInv'
<1>1. /\ writing \in Owners /\ layoutFile' = layouts /\ writing' = NoOwner
      /\ answered' = [answered EXCEPT ![writing] = layouts[writing]]
      /\ layouts' = layouts /\ saved' = saved
  BY DEF LayoutWritten, LayoutInv
<1>2. \A p \in Owners : answered'[p] = IF p = writing THEN layouts[p] ELSE answered[p]
  BY <1>1 DEF LayoutInv
<1>3. \A p \in Owners : layouts[p] \in 0 .. saved /\ layouts[p] >= answered'[p]
  BY <1>2 DEF LayoutInv, LayoutsKept
<1>4. answered' \in [Owners -> 0 .. saved]
  BY <1>1 DEF LayoutInv
<1> QED BY <1>1, <1>3, <1>4 DEF LayoutInv, LayoutsKept

\* The file of an interrupted or failed save may be anything; a restart takes what it holds.
LEMMA LayoutLostHolds ==
    ASSUME LayoutInv, LayoutNotWritten \/ LayoutsReloaded
    PROVE  LayoutInv'
<1>1. CASE LayoutNotWritten
  BY <1>1 DEF LayoutNotWritten, LayoutInv, LayoutsKept
<1>2. CASE LayoutsReloaded
  <2>1. /\ layouts' = layoutFile /\ writing' = NoOwner /\ layoutFile' = layoutFile
        /\ saved' = saved /\ answered' \in {layoutFile, answered}
        /\ answered' = answered \/ answered' = layoutFile
    BY <1>2 DEF LayoutsReloaded
  <2>2. \A p \in Owners : layoutFile[p] >= answered'[p]
    BY <1>2 DEF LayoutsReloaded, LayoutInv, LayoutsKept
  <2> QED BY <2>1, <2>2 DEF LayoutInv, LayoutsKept
<1> QED BY <1>1, <1>2

\* No owner's layout is lost to another's save: memory is never behind what was answered, nor
\* is the file, unless it is being written or its last write failed.
THEOREM LayoutsAreKept == Spec => []LayoutsKept
<1>1. Init => LayoutInv
  BY LayoutStart DEF Init
<1>2. LayoutInv /\ [Next]_vars => LayoutInv'
  <2> SUFFICES ASSUME LayoutInv, [Next]_vars PROVE LayoutInv'
    OBVIOUS
  <2>1. CASE UNCHANGED layoutVars
    BY <2>1 DEF layoutVars, LayoutInv, LayoutsKept
  <2>2. CASE LayoutStep
    BY <2>2, SaveLayoutHolds, LayoutWrittenHolds, LayoutLostHolds DEF LayoutStep
  <2>3. CASE LayoutsReloaded
    BY <2>3, LayoutLostHolds
  <2>4. UNCHANGED layoutVars \/ LayoutStep \/ LayoutsReloaded
    BY DEF Next, Starting, Serving, Kill, vars
  <2> QED BY <2>1, <2>2, <2>3, <2>4
<1>3. LayoutInv => LayoutsKept
  BY DEF LayoutInv
<1> QED BY <1>1, <1>2, <1>3, PTL DEF Spec

-----------------------------------------------------------------------------
(* The gate and the sessions.                                                *)

Settings == [mode : Mode, list : SUBSET Outside]
Pc == {"free", "in", "verify", "count", "forget", "open", "update"}
Request == [pc : Pc, from : Address, name : Names \union {NoName}, session : Nat, saw : Settings]

\* Numbers of sessions are given out once; what a request saw has been in force.
GateInv ==
    /\ slot \in [Slots -> Request] /\ settings \in Settings /\ settings \in everSet
    /\ opened \in Nat /\ DOMAIN sessions \subseteq 1 .. opened /\ closed \subseteq 1 .. opened
    /\ AccessIsCurrent

LEMMA FreeIsRequest == Free \in Request /\ Free.pc = "free" /\ EnvSettings \in Settings
BY AccessAssumption DEF Free, Request, Settings, Mode, Address, Pc, NoName, EnvSettings

LEMMA GateStart == AccessInit => GateInv
<1> SUFFICES ASSUME AccessInit PROVE GateInv
  OBVIOUS
<1>1. /\ slot = [s \in Slots |-> Free] /\ sessions = <<>> /\ settings = EnvSettings
      /\ everSet = {EnvSettings} /\ opened = 0 /\ closed = {}
  BY DEF AccessInit, AccessStart
<1>2. DOMAIN sessions = {}
  BY <1>1
<1> QED BY <1>1, <1>2, FreeIsRequest DEF GateInv, AccessIsCurrent

\* A request that ends or goes on, and the rest of the gate unchanged.
LEMMA SlotStep ==
    ASSUME GateInv, NEW s \in Slots, slot[s].pc # "free", NEW r \in Request,
           r.pc = "free" \/ (r.saw = slot[s].saw /\ r.from = slot[s].from),
           slot' = [slot EXCEPT ![s] = r], everSet \subseteq everSet',
           settings' \in Settings, settings' \in everSet',
           opened' \in Nat, DOMAIN sessions' \subseteq 1 .. opened', closed' \subseteq 1 .. opened',
           closed' \intersect DOMAIN sessions' = {}
    PROVE  GateInv'
<1>1. \A t \in Slots : slot'[t] = IF t = s THEN r ELSE slot[t]
  BY DEF GateInv
<1>2. slot' \in [Slots -> Request]
  BY DEF GateInv
<1>3. \A t \in Slots : slot'[t].pc # "free" =>
          slot'[t].saw \in everSet' /\ Admits(slot'[t].saw, slot'[t].from)
  BY <1>1 DEF GateInv, AccessIsCurrent
<1> QED BY <1>2, <1>3 DEF GateInv, AccessIsCurrent

LEMMA GateSteps == ASSUME GateInv, AccessStep PROVE GateInv'
<1> USE FreeIsRequest
<1>1. /\ settings \in Settings /\ settings \in everSet
      /\ opened \in Nat /\ DOMAIN sessions \subseteq 1 .. opened /\ closed \subseteq 1 .. opened
      /\ closed \intersect DOMAIN sessions = {}
  BY DEF GateInv, AccessIsCurrent
<1>2. ASSUME NEW s \in Slots, NEW ip \in Address, Admit(s, ip) PROVE GateInv'
  <2> DEFINE r == [Free EXCEPT !.pc = "in", !.from = ip, !.saw = settings]
  <2>1. r \in Request /\ r.saw = settings /\ r.from = ip
    BY <1>1 DEF Free, Request, Pc, NoName, Address
  <2>2. slot' = [slot EXCEPT ![s] = r] /\ Admits(settings, ip)
        /\ UNCHANGED <<sessions, settings, opened, closed, everSet>>
    BY <1>2 DEF Admit
  <2> HIDE DEF r
  <2>3. slot' \in [Slots -> Request] /\ \A t \in Slots : slot'[t] = IF t = s THEN r ELSE slot[t]
    BY <2>1, <2>2 DEF GateInv
  <2>4. \A t \in Slots : slot'[t].pc # "free" =>
            slot'[t].saw \in everSet' /\ Admits(slot'[t].saw, slot'[t].from)
    BY <1>1, <2>1, <2>2, <2>3 DEF GateInv, AccessIsCurrent
  <2> QED BY <1>1, <2>2, <2>3, <2>4 DEF GateInv, AccessIsCurrent
<1>3. ASSUME NEW s \in Slots, NEW r \in Request, slot[s].pc # "free",
             r.pc = "free" \/ (r.saw = slot[s].saw /\ r.from = slot[s].from),
             slot' = [slot EXCEPT ![s] = r], UNCHANGED <<sessions, settings, opened, closed, everSet>>
      PROVE  GateInv'
  BY <1>1, <1>3, SlotStep
<1>4. ASSUME NEW s \in Slots, NEW pc \in Pc \ {"free"}, slot[s].pc # "free", Goes(s, pc),
             UNCHANGED <<sessions, settings, opened, closed, everSet>>
      PROVE  GateInv'
  <2> DEFINE r == [slot[s] EXCEPT !.pc = pc]
  <2>1. r \in Request /\ r.saw = slot[s].saw /\ r.from = slot[s].from
    BY DEF GateInv, Request
  <2>2. slot' = [slot EXCEPT ![s] = r]
    BY <1>4 DEF Goes
  <2> QED BY <1>3, <1>4, <2>1, <2>2
<1>5. ASSUME NEW s \in Slots, NEW n \in Names, CheckWait(s, n) PROVE GateInv'
  <2> DEFINE r == [slot[s] EXCEPT !.pc = "verify", !.name = n]
  <2>1. r \in Request /\ r.saw = slot[s].saw /\ r.from = slot[s].from
    BY DEF GateInv, Request, Pc
  <2>2. slot' = [slot EXCEPT ![s] = r] \/ slot' = [slot EXCEPT ![s] = Free]
    BY <1>5, Zenon DEF CheckWait, Ends
  <2>3. slot[s].pc = "in" /\ UNCHANGED <<sessions, settings, opened, closed, everSet>>
    BY <1>5 DEF CheckWait, Quiet
  <2> QED BY <1>3, <2>1, <2>2, <2>3
<1>6. ASSUME NEW s \in Slots, VerifyWrong(s) \/ VerifyRight(s) \/ ForgetFailures(s)
      PROVE  GateInv'
  BY <1>4, <1>6 DEF VerifyWrong, VerifyRight, ForgetFailures, Quiet, Pc
<1>7. ASSUME NEW s \in Slots, RegisterLoginFailure(s) PROVE GateInv'
  BY <1>3, <1>7 DEF RegisterLoginFailure, Ends, Quiet
<1>8. ASSUME NEW s \in Slots, OpenSession(s) PROVE GateInv'
  <2>1. /\ opened' = opened + 1 /\ DOMAIN sessions' = DOMAIN sessions \union {opened + 1}
        /\ slot' = [slot EXCEPT ![s] = Free] /\ slot[s].pc # "free"
        /\ UNCHANGED <<settings, closed, everSet>>
    BY <1>8 DEF OpenSession, Ends, Quiet
  <2>2. /\ opened' \in Nat /\ DOMAIN sessions' \subseteq 1 .. opened'
        /\ closed' \subseteq 1 .. opened' /\ closed' \intersect DOMAIN sessions' = {}
    BY <1>1, <2>1
  <2> QED BY <1>1, <2>1, <2>2, SlotStep
<1>9. ASSUME NEW s \in Slots, NEW c \in DOMAIN sessions, Logout(s, c) PROVE GateInv'
  <2>1. /\ sessions' = [d \in DOMAIN sessions \ {c} |-> sessions[d]] /\ closed' = closed \union {c}
        /\ slot' = [slot EXCEPT ![s] = Free] /\ slot[s].pc # "free"
        /\ UNCHANGED <<settings, opened, everSet>>
    BY <1>9 DEF Logout, Ends
  <2>2. DOMAIN sessions' = DOMAIN sessions \ {c}
    BY <2>1
  <2>3. /\ DOMAIN sessions' \subseteq 1 .. opened' /\ closed' \subseteq 1 .. opened'
        /\ closed' \intersect DOMAIN sessions' = {}
    BY <1>1, <1>9, <2>1, <2>2
  <2> QED BY <1>1, <2>1, <2>3, SlotStep
<1>10. ASSUME NEW s \in Slots, NEW c \in DOMAIN sessions, RequireAdmin(s, c) PROVE GateInv'
  <2> DEFINE r == [slot[s] EXCEPT !.pc = "update", !.session = c]
  <2>1. r \in Request /\ r.saw = slot[s].saw /\ r.from = slot[s].from
    <3>1. c \in Nat /\ slot[s] \in Request
      BY <1>1 DEF GateInv
    <3> QED BY <3>1 DEF Request, Pc
  <2>2. slot' = [slot EXCEPT ![s] = r] /\ slot[s].pc = "in"
        /\ UNCHANGED <<sessions, settings, opened, closed, everSet>>
    BY <1>10 DEF RequireAdmin, Quiet
  <2> QED BY <1>3, <2>1, <2>2
<1>11. ASSUME NEW s \in Slots, NEW m \in Mode, NEW list \in SUBSET Outside,
              UpdateNetworkSettings(s, m, list)
       PROVE  GateInv'
  <2>1. /\ settings' \in Settings /\ settings' \in everSet' /\ everSet \subseteq everSet'
        /\ slot' = [slot EXCEPT ![s] = Free] /\ slot[s].pc # "free"
        /\ UNCHANGED <<sessions, opened, closed>>
    BY <1>11 DEF UpdateNetworkSettings, Ends, Settings
  <2> QED BY <1>1, <2>1, SlotStep
<1>12. CASE MinutesPass
  BY <1>12 DEF MinutesPass, Quiet, GateInv, AccessIsCurrent
<1>13. ASSUME NEW n \in Names, DeleteAccount(n) PROVE GateInv'
  BY <1>13 DEF DeleteAccount, GateInv, AccessIsCurrent
<1> QED BY <1>2, <1>5, <1>6, <1>7, <1>8, <1>9, <1>10, <1>11, <1>12, <1>13 DEF AccessStep

LEMMA GateLost == ASSUME GateInv, AccessLost PROVE GateInv'
<1>1. /\ slot' = [s \in Slots |-> Free] /\ sessions' = <<>> /\ settings' = EnvSettings
      /\ everSet' = {EnvSettings} /\ opened' = opened /\ closed' = closed
  BY DEF AccessLost, AccessStart
<1>2. DOMAIN sessions' = {}
  BY <1>1
<1> QED BY <1>1, <1>2, FreeIsRequest DEF GateInv, AccessIsCurrent

\* Every step of the server, as one of the gate.
LEMMA AccessSteps == [Next]_vars => AccessStep \/ AccessLost \/ UNCHANGED accessVars
BY DEF Next, Starting, Serving, Kill, vars

-----------------------------------------------------------------------------
(* The throttle.                                                             *)

Verifying(k) == {s \in Slots : slot[s].pc = "verify" /\ KeyOf[slot[s].name] = k}

\* A wait is no longer than its count asks for, and while it lasts those who may still verify
\* a password, with those who have, are fewer than the requests: the one that began the wait
\* is not among them.
ThrottleInv ==
    /\ attempts \in [Key -> [failures : Nat, wait : Nat]] /\ guesses \in [Key -> Nat]
    /\ \A s \in Slots : slot[s].pc \in {"verify", "count", "forget"} => slot[s].name \in Names
    /\ \A k \in Key :
        /\ attempts[k].wait <= LoginBlockMinutes(attempts[k].failures)
        /\ attempts[k].wait = 0 => guesses[k] = 0
        /\ attempts[k].wait > 0 => guesses[k] + Cardinality(Verifying(k)) < Cardinality(Slots)

\* More failures never make a shorter wait.
LEMMA BlockGrows ==
    ASSUME NEW n \in Nat
    PROVE  LoginBlockMinutes(n) \in Nat /\ LoginBlockMinutes(n) <= LoginBlockMinutes(n + 1)
<1>1. CASE n <= 3
  BY <1>1 DEF LoginBlockMinutes
<1>2. CASE n \in {4, 5, 6}
  BY <1>2 DEF LoginBlockMinutes
<1>3. CASE n \in {7, 8, 9}
  BY <1>3 DEF LoginBlockMinutes
<1>4. CASE n >= 10
  BY <1>4 DEF LoginBlockMinutes
<1> QED BY <1>1, <1>2, <1>3, <1>4

\* Sets of requests are finite, and one that lacks a request is smaller than all of them.
LEMMA SlotsAreFinite ==
    /\ \A S \in SUBSET Slots : IsFiniteSet(S) /\ Cardinality(S) \in Nat
    /\ \A S, T \in SUBSET Slots : S \subseteq T => Cardinality(S) <= Cardinality(T)
    /\ \A S \in SUBSET Slots, s \in Slots : s \notin S => Cardinality(S) < Cardinality(Slots)
    /\ \A S \in SUBSET Slots : \A s \in S : Cardinality(S \ {s}) = Cardinality(S) - 1
<1>1. IsFiniteSet(Slots)
  BY AccessAssumption
<1>2. \A S \in SUBSET Slots : IsFiniteSet(S) /\ Cardinality(S) \in Nat
  BY <1>1, FS_Subset, FS_CardinalityType
<1>3. \A S, T \in SUBSET Slots : S \subseteq T => Cardinality(S) <= Cardinality(T)
  BY <1>2, FS_Subset
<1>4. \A S \in SUBSET Slots, s \in Slots : s \notin S => Cardinality(S) < Cardinality(Slots)
  <2> SUFFICES ASSUME NEW S \in SUBSET Slots, NEW s \in Slots, s \notin S
               PROVE  Cardinality(S) < Cardinality(Slots)
    OBVIOUS
  <2>1. Cardinality(S) <= Cardinality(Slots) /\ Cardinality(S) # Cardinality(Slots)
    BY <1>1, FS_Subset
  <2>2. Cardinality(S) \in Nat /\ Cardinality(Slots) \in Nat
    BY <1>1, <1>2, FS_CardinalityType
  <2> QED BY <2>1, <2>2
<1>5. \A S \in SUBSET Slots : \A s \in S : Cardinality(S \ {s}) = Cardinality(S) - 1
  BY <1>2, FS_RemoveElement
<1> QED BY <1>2, <1>3, <1>4, <1>5

\* Names have keys.
LEMMA KeyType == \A n \in Names : KeyOf[n] \in Key
BY DEF Key

LEMMA ThrottleStart == AccessInit => ThrottleInv
<1> SUFFICES ASSUME AccessInit PROVE ThrottleInv
  OBVIOUS
<1>1. /\ attempts = [k \in Key |-> [failures |-> 0, wait |-> 0]]
      /\ guesses = [k \in Key |-> 0] /\ slot = [s \in Slots |-> Free]
  BY DEF AccessInit, AccessStart
<1>2. \A k \in Key : attempts[k].failures = 0 /\ attempts[k].wait = 0
  BY <1>1
<1>3. attempts \in [Key -> [failures : Nat, wait : Nat]]
  BY <1>1
<1> QED BY <1>1, <1>2, <1>3, BlockGrows, FreeIsRequest DEF ThrottleInv

\* A step that changes no count, by which no request comes to verify a password of a name
\* that has to wait.
LEMMA ThrottleOn ==
    ASSUME ThrottleInv, UNCHANGED <<attempts, guesses>>,
           \A s \in Slots : slot'[s].pc \in {"verify", "count", "forget"} => slot'[s].name \in Names,
           \A k \in Key : attempts[k].wait > 0 => Verifying(k)' \subseteq Verifying(k)
    PROVE  ThrottleInv'
<1>1. ASSUME NEW k \in Key, attempts'[k].wait > 0
      PROVE  guesses'[k] + Cardinality(Verifying(k)') < Cardinality(Slots)
  <2>1. Verifying(k) \in SUBSET Slots /\ Verifying(k)' \in SUBSET Slots
    BY DEF Verifying
  <2>2. Cardinality(Verifying(k)') <= Cardinality(Verifying(k))
    BY <1>1, <2>1, SlotsAreFinite
  <2>3. guesses[k] + Cardinality(Verifying(k)) < Cardinality(Slots) /\ guesses[k] \in Nat
    BY <1>1 DEF ThrottleInv
  <2>4. /\ Cardinality(Verifying(k)) \in Nat /\ Cardinality(Verifying(k)') \in Nat
        /\ Cardinality(Slots) \in Nat
    BY <2>1, SlotsAreFinite
  <2> QED BY <2>2, <2>3, <2>4
<1> QED BY <1>1 DEF ThrottleInv

\* A request that ends, or goes anywhere but to verify a password.
LEMMA ThrottleGoesOn ==
    ASSUME ThrottleInv, GateInv, NEW s \in Slots, NEW r \in Request,
           slot' = [slot EXCEPT ![s] = r], r.pc # "verify",
           r.pc \in {"count", "forget"} => r.name \in Names
    PROVE  /\ \A t \in Slots : slot'[t].pc \in {"verify", "count", "forget"} => slot'[t].name \in Names
           /\ \A k : Verifying(k)' \subseteq Verifying(k) \ {s}
<1>1. \A t \in Slots : slot'[t] = IF t = s THEN r ELSE slot[t]
  BY DEF GateInv
<1> QED BY <1>1 DEF Verifying, ThrottleInv

\* A wrong password is verified: the request is counted among the guesses, no longer among
\* those that verify.
LEMMA VerifyWrongHolds ==
    ASSUME ThrottleInv, GateInv, NEW s \in Slots, VerifyWrong(s)
    PROVE  ThrottleInv'
<1> DEFINE name == slot[s].name
           key == KeyOf[name]
           r == [slot[s] EXCEPT !.pc = "count"]
<1>1. name \in Names /\ key \in Key /\ s \in Verifying(key)
  BY KeyType DEF VerifyWrong, ThrottleInv, Verifying
<1>2. /\ attempts' = attempts /\ slot' = [slot EXCEPT ![s] = r]
      /\ guesses' = [guesses EXCEPT ![key] = IF attempts[key].wait > 0 THEN guesses[key] + 1
                                             ELSE guesses[key]]
  BY DEF VerifyWrong, Goes
<1>3. r \in Request /\ r.pc = "count" /\ r.name = name
  BY DEF GateInv, Request, Pc
<1> HIDE DEF r, name
<1>4. /\ \A t \in Slots : slot'[t].pc \in {"verify", "count", "forget"} => slot'[t].name \in Names
      /\ \A k : Verifying(k)' \subseteq Verifying(k) \ {s}
  BY <1>1, <1>2, <1>3, ThrottleGoesOn
<1> HIDE DEF key
<1>5. \A k \in Key : guesses'[k] = IF k = key /\ attempts[key].wait > 0 THEN guesses[k] + 1
                                   ELSE guesses[k]
  BY <1>1, <1>2 DEF ThrottleInv
<1>6. ASSUME NEW k \in Key, attempts[k].wait > 0
      PROVE  guesses'[k] + Cardinality(Verifying(k)') < Cardinality(Slots)
  <2>1. Verifying(k) \in SUBSET Slots /\ Verifying(k)' \in SUBSET Slots
    BY DEF Verifying
  <2>2. /\ guesses[k] + Cardinality(Verifying(k)) < Cardinality(Slots) /\ guesses[k] \in Nat
    BY <1>6 DEF ThrottleInv
  <2>3. /\ Cardinality(Verifying(k)) \in Nat /\ Cardinality(Verifying(k)') \in Nat
        /\ Cardinality(Slots) \in Nat
        /\ Cardinality(Verifying(k)') <= Cardinality(Verifying(k) \ {s})
    BY <1>4, <2>1, SlotsAreFinite
  <2>4. CASE k = key
    <3>1. Cardinality(Verifying(k) \ {s}) = Cardinality(Verifying(k)) - 1
      BY <1>1, <2>1, <2>4, SlotsAreFinite
    <3>2. guesses'[k] = guesses[k] + 1
      BY <1>5, <1>6, <2>4
    <3> QED BY <2>2, <2>3, <3>1, <3>2
  <2>5. CASE k # key
    <3>1. Cardinality(Verifying(k)') <= Cardinality(Verifying(k))
      BY <1>4, <2>1, SlotsAreFinite
    <3>2. guesses'[k] = guesses[k]
      BY <1>5, <2>5
    <3> QED BY <2>2, <2>3, <3>1, <3>2
  <2> QED BY <2>4, <2>5
<1>7. guesses' \in [Key -> Nat] /\ \A k \in Key : attempts[k].wait = 0 => guesses'[k] = 0
  BY <1>1, <1>2, <1>5 DEF ThrottleInv
<1> QED BY <1>2, <1>4, <1>6, <1>7 DEF ThrottleInv

\* A failure is counted: a wait that begins here finds no guesses, and its own request done.
LEMMA RegisterHolds ==
    ASSUME ThrottleInv, GateInv, NEW s \in Slots, RegisterLoginFailure(s)
    PROVE  ThrottleInv' /\ \A k \in Key : attempts'[k].wait >= attempts[k].wait
<1> DEFINE key == KeyOf[slot[s].name]
           n == attempts[key].failures + 1
<1>1. key \in Key
  BY KeyType DEF RegisterLoginFailure, ThrottleInv
<1>2. /\ attempts' = [attempts EXCEPT ![key] = [failures |-> n, wait |-> LoginBlockMinutes(n)]]
      /\ guesses' = guesses /\ slot' = [slot EXCEPT ![s] = Free]
  BY DEF RegisterLoginFailure, Ends
<1>3. /\ \A t \in Slots : slot'[t].pc \in {"verify", "count", "forget"} => slot'[t].name \in Names
      /\ \A k : Verifying(k)' \subseteq Verifying(k) \ {s}
  BY <1>2, FreeIsRequest, ThrottleGoesOn
<1>4. attempts[key].failures \in Nat /\ attempts[key].wait \in Nat
      /\ attempts[key].wait <= LoginBlockMinutes(attempts[key].failures)
  BY <1>1 DEF ThrottleInv
<1>5. /\ n \in Nat /\ LoginBlockMinutes(n) \in Nat
      /\ LoginBlockMinutes(n) >= attempts[key].wait
  <2>1. LoginBlockMinutes(attempts[key].failures) <= LoginBlockMinutes(n)
        /\ LoginBlockMinutes(attempts[key].failures) \in Nat
    BY <1>4, BlockGrows
  <2>2. n \in Nat
    BY <1>4
  <2>3. LoginBlockMinutes(n) \in Nat
    BY <2>2, BlockGrows
  <2> QED BY <1>4, <2>1, <2>2, <2>3
<1> HIDE DEF n, key
<1>6. /\ attempts'[key] = [failures |-> n, wait |-> LoginBlockMinutes(n)]
      /\ \A k \in Key : k # key => attempts'[k] = attempts[k]
  BY <1>1, <1>2 DEF ThrottleInv
<1>7. attempts'[key].failures = n /\ attempts'[key].wait = LoginBlockMinutes(n)
  BY <1>6
<1>8. \A k \in Key : attempts'[k].wait >= attempts[k].wait
  BY <1>5, <1>6, <1>7 DEF ThrottleInv
<1>9. attempts' \in [Key -> [failures : Nat, wait : Nat]]
  BY <1>2, <1>5 DEF ThrottleInv
<1>10. ASSUME NEW k \in Key, attempts'[k].wait > 0
       PROVE  guesses[k] + Cardinality(Verifying(k)') < Cardinality(Slots)
  <2>1. Verifying(k) \in SUBSET Slots /\ Verifying(k)' \in SUBSET Slots /\ s \notin Verifying(k)'
    BY <1>3 DEF Verifying
  <2>2. /\ Cardinality(Verifying(k)) \in Nat /\ Cardinality(Verifying(k)') \in Nat
        /\ Cardinality(Slots) \in Nat
        /\ Cardinality(Verifying(k)') <= Cardinality(Verifying(k))
        /\ Cardinality(Verifying(k)') < Cardinality(Slots)
    BY <1>3, <2>1, SlotsAreFinite
  <2>3. attempts[k].wait \in Nat /\ guesses[k] \in Nat
    BY DEF ThrottleInv
  <2>4. CASE attempts[k].wait = 0
    BY <2>2, <2>4 DEF ThrottleInv
  <2>5. CASE attempts[k].wait > 0
    <3>1. guesses[k] + Cardinality(Verifying(k)) < Cardinality(Slots)
      BY <2>5 DEF ThrottleInv
    <3> QED BY <2>2, <2>3, <3>1
  <2> QED BY <2>3, <2>4, <2>5
<1>11. \A k \in Key : /\ attempts'[k].wait <= LoginBlockMinutes(attempts'[k].failures)
                      /\ attempts'[k].wait = 0 => guesses[k] = 0
  <2>1. \A k \in Key : attempts[k].wait \in Nat
    BY DEF ThrottleInv
  <2>2. \A k \in Key : attempts'[k].wait = 0 => attempts[k].wait = 0
    BY <1>8, <1>9, <2>1
  <2>3. \A k \in Key : k # key => attempts'[k].wait <= LoginBlockMinutes(attempts'[k].failures)
    BY <1>6 DEF ThrottleInv
  <2> QED BY <1>5, <1>7, <2>2, <2>3 DEF ThrottleInv
<1>12. \A k \in Key : attempts'[k].wait > 0 =>
           guesses'[k] + Cardinality(Verifying(k)') < Cardinality(Slots)
  BY <1>2, <1>10
<1> QED BY <1>2, <1>3, <1>8, <1>9, <1>11, <1>12 DEF ThrottleInv

\* The waits of all names go down together; a wait that ends forgets the guesses.
LEMMA MinutesHold == ASSUME ThrottleInv, MinutesPass PROVE ThrottleInv'
<1>1. PICK d : /\ attempts' = [j \in Key |-> [attempts[j] EXCEPT !.wait = IF @ > d THEN @ - d ELSE 0]]
               /\ d \in Nat
  <2>1. PICK k \in Key : \E d \in {attempts[k].wait, attempts[k].wait \div 2} :
            attempts' = [j \in Key |-> [attempts[j] EXCEPT !.wait = IF @ > d THEN @ - d ELSE 0]]
    BY DEF MinutesPass
  <2>2. attempts[k].wait \in Nat
    BY DEF ThrottleInv
  <2>3. \A d \in {attempts[k].wait, attempts[k].wait \div 2} : d \in Nat
    BY <2>2
  <2> QED BY <2>1, <2>3
<1>2. /\ guesses' = [j \in Key |-> IF attempts'[j].wait = 0 THEN 0 ELSE guesses[j]]
      /\ slot' = slot
  BY DEF MinutesPass
<1>3. \A k \in Key : attempts[k] \in [failures : Nat, wait : Nat]
  BY DEF ThrottleInv
<1>4. \A k \in Key : /\ attempts'[k].failures = attempts[k].failures
                     /\ attempts'[k].wait \in Nat /\ attempts'[k].wait <= attempts[k].wait
                     /\ attempts'[k] \in [failures : Nat, wait : Nat]
  BY <1>1, <1>3
<1>5. attempts' \in [Key -> [failures : Nat, wait : Nat]] /\ guesses' \in [Key -> Nat]
  BY <1>1, <1>2, <1>4 DEF ThrottleInv
<1>6. \A k : Verifying(k)' = Verifying(k)
  BY <1>2 DEF Verifying
<1>7. ASSUME NEW k \in Key
      PROVE  /\ attempts'[k].wait <= LoginBlockMinutes(attempts'[k].failures)
             /\ attempts'[k].wait = 0 => guesses'[k] = 0
             /\ attempts'[k].wait > 0 =>
                    guesses'[k] + Cardinality(Verifying(k)') < Cardinality(Slots)
  <2>1. LoginBlockMinutes(attempts[k].failures) \in Nat
    BY <1>3, BlockGrows
  <2>2. attempts'[k].wait <= LoginBlockMinutes(attempts'[k].failures)
    BY <1>3, <1>4, <2>1 DEF ThrottleInv
  <2>3. CASE attempts'[k].wait > 0
    <3>1. attempts[k].wait > 0 /\ guesses'[k] = guesses[k] /\ Verifying(k)' = Verifying(k)
      BY <1>2, <1>3, <1>4, <1>6, <2>3
    <3>2. guesses[k] + Cardinality(Verifying(k)) < Cardinality(Slots)
      BY <3>1 DEF ThrottleInv
    <3> QED BY <2>2, <2>3, <3>1, <3>2
  <2>4. CASE attempts'[k].wait = 0
    BY <1>2, <2>2, <2>4
  <2> QED BY <1>4, <2>3, <2>4
<1> QED BY <1>2, <1>5, <1>7 DEF ThrottleInv

\* A right password forgets the failures of its name.
LEMMA ForgetHolds ==
    ASSUME ThrottleInv, GateInv, NEW s \in Slots, ForgetFailures(s)
    PROVE  ThrottleInv'
<1> DEFINE key == KeyOf[slot[s].name]
           r == [slot[s] EXCEPT !.pc = "open"]
           none == [failures |-> 0, wait |-> 0]
<1>1. key \in Key
  BY KeyType DEF ForgetFailures, ThrottleInv
<1>2. /\ attempts' = [attempts EXCEPT ![key] = none] /\ guesses' = [guesses EXCEPT ![key] = 0]
      /\ slot' = [slot EXCEPT ![s] = r]
  BY DEF ForgetFailures, Goes
<1>3. r \in Request /\ r.pc = "open"
  BY DEF GateInv, Request, Pc
<1> HIDE DEF r, key
<1>4. /\ \A t \in Slots : slot'[t].pc \in {"verify", "count", "forget"} => slot'[t].name \in Names
      /\ \A k : Verifying(k)' \subseteq Verifying(k) \ {s}
  BY <1>2, <1>3, ThrottleGoesOn
<1>5. none.failures = 0 /\ none.wait = 0 /\ none \in [failures : Nat, wait : Nat]
  OBVIOUS
<1> HIDE DEF none
<1>6. /\ attempts'[key] = none /\ guesses'[key] = 0
      /\ \A k \in Key : k # key => attempts'[k] = attempts[k] /\ guesses'[k] = guesses[k]
      /\ attempts' \in [Key -> [failures : Nat, wait : Nat]] /\ guesses' \in [Key -> Nat]
  BY <1>1, <1>2, <1>5 DEF ThrottleInv
<1>7. ASSUME NEW k \in Key, k # key, attempts[k].wait > 0
      PROVE  guesses[k] + Cardinality(Verifying(k)') < Cardinality(Slots)
  <2>1. Verifying(k) \in SUBSET Slots /\ Verifying(k)' \in SUBSET Slots
    BY DEF Verifying
  <2>2. /\ Cardinality(Verifying(k)) \in Nat /\ Cardinality(Verifying(k)') \in Nat
        /\ Cardinality(Verifying(k)') <= Cardinality(Verifying(k)) /\ Cardinality(Slots) \in Nat
    BY <1>4, <2>1, SlotsAreFinite
  <2>3. guesses[k] + Cardinality(Verifying(k)) < Cardinality(Slots) /\ guesses[k] \in Nat
    BY <1>7 DEF ThrottleInv
  <2> QED BY <2>2, <2>3
<1>8. attempts'[key].wait = 0 /\ attempts'[key].wait <= LoginBlockMinutes(attempts'[key].failures)
  BY <1>5, <1>6, BlockGrows
<1>9. \A k \in Key : /\ attempts'[k].wait <= LoginBlockMinutes(attempts'[k].failures)
                     /\ attempts'[k].wait = 0 => guesses'[k] = 0
                     /\ attempts'[k].wait > 0 =>
                            guesses'[k] + Cardinality(Verifying(k)') < Cardinality(Slots)
  BY <1>6, <1>7, <1>8 DEF ThrottleInv
<1> QED BY <1>4, <1>6, <1>9 DEF ThrottleInv

LEMMA ThrottleSteps == ASSUME ThrottleInv, GateInv, AccessStep PROVE ThrottleInv'
<1> USE FreeIsRequest
<1>1. ASSUME NEW s \in Slots, NEW r \in Request, slot' = [slot EXCEPT ![s] = r], r.pc # "verify",
             r.pc \in {"count", "forget"} => r.name \in Names, UNCHANGED <<attempts, guesses>>
      PROVE  ThrottleInv'
  <2>1. /\ \A t \in Slots : slot'[t].pc \in {"verify", "count", "forget"} => slot'[t].name \in Names
        /\ \A k : Verifying(k)' \subseteq Verifying(k) \ {s}
    BY <1>1, ThrottleGoesOn
  <2> QED BY <1>1, <2>1, ThrottleOn
<1>2. ASSUME NEW s \in Slots, NEW ip \in Address, Admit(s, ip) PROVE ThrottleInv'
  <2> DEFINE r == [Free EXCEPT !.pc = "in", !.from = ip, !.saw = settings]
  <2>1. r \in Request /\ r.pc = "in"
    BY DEF Free, Request, Pc, NoName, Address, GateInv
  <2>2. slot' = [slot EXCEPT ![s] = r] /\ UNCHANGED <<attempts, guesses>>
    BY <1>2 DEF Admit
  <2> HIDE DEF r
  <2> QED BY <1>1, <2>1, <2>2
<1>3. ASSUME NEW s \in Slots, NEW n \in Names, CheckWait(s, n) PROVE ThrottleInv'
  <2>1. UNCHANGED <<attempts, guesses>>
    BY <1>3 DEF CheckWait
  <2>2. CASE attempts[KeyOf[n]].wait > 0
    <3>1. slot' = [slot EXCEPT ![s] = Free]
      BY <1>3, <2>2 DEF CheckWait, Ends
    <3> QED BY <1>1, <2>1, <3>1
  <2>3. CASE ~(attempts[KeyOf[n]].wait > 0)
    <3> DEFINE r == [slot[s] EXCEPT !.pc = "verify", !.name = n]
    <3>1. r.name = n /\ r \in Request
      BY DEF GateInv, Request, Pc
    <3>2. slot' = [slot EXCEPT ![s] = r]
      BY <1>3, <2>3, Zenon DEF CheckWait
    <3> HIDE DEF r
    <3>3. \A t \in Slots : slot'[t] = IF t = s THEN r ELSE slot[t]
      BY <3>2 DEF GateInv
    <3>4. \A k \in Key : attempts[k].wait > 0 => Verifying(k)' \subseteq Verifying(k)
      BY <2>3, <3>1, <3>3 DEF Verifying
    <3>5. \A t \in Slots : slot'[t].pc \in {"verify", "count", "forget"} => slot'[t].name \in Names
      BY <3>1, <3>3 DEF ThrottleInv
    <3> QED BY <2>1, <3>4, <3>5, ThrottleOn
  <2> QED BY <2>2, <2>3
<1>4. ASSUME NEW s \in Slots, VerifyRight(s) PROVE ThrottleInv'
  <2> DEFINE r == [slot[s] EXCEPT !.pc = "forget"]
  <2>1. slot[s].name \in Names
    BY <1>4 DEF VerifyRight, ThrottleInv
  <2>2. r \in Request /\ r.pc = "forget" /\ r.name = slot[s].name
    BY DEF GateInv, Request, Pc
  <2>3. slot' = [slot EXCEPT ![s] = r] /\ UNCHANGED <<attempts, guesses>>
    BY <1>4 DEF VerifyRight, Goes
  <2> HIDE DEF r
  <2> QED BY <1>1, <2>1, <2>2, <2>3
<1>5. ASSUME NEW s \in Slots,
             \/ OpenSession(s)
             \/ \E c \in DOMAIN sessions : Logout(s, c)
             \/ \E m \in Mode, list \in SUBSET Outside : UpdateNetworkSettings(s, m, list)
      PROVE  ThrottleInv'
  <2>1. slot' = [slot EXCEPT ![s] = Free] /\ UNCHANGED <<attempts, guesses>>
    BY <1>5 DEF OpenSession, Logout, UpdateNetworkSettings, Ends
  <2> QED BY <1>1, <2>1
<1>6. ASSUME NEW s \in Slots, NEW c \in DOMAIN sessions, RequireAdmin(s, c) PROVE ThrottleInv'
  <2> DEFINE r == [slot[s] EXCEPT !.pc = "update", !.session = c]
  <2>1. r \in Request /\ r.pc = "update"
    <3>1. c \in Nat /\ slot[s] \in Request
      BY DEF GateInv
    <3> QED BY <3>1 DEF Request, Pc
  <2>2. slot' = [slot EXCEPT ![s] = r] /\ UNCHANGED <<attempts, guesses>>
    BY <1>6 DEF RequireAdmin
  <2> HIDE DEF r
  <2> QED BY <1>1, <2>1, <2>2
<1>7. ASSUME NEW n \in Names, DeleteAccount(n) PROVE ThrottleInv'
  BY <1>7, ThrottleOn DEF DeleteAccount, Verifying, ThrottleInv
<1> QED BY <1>2, <1>3, <1>4, <1>5, <1>6, <1>7, VerifyWrongHolds, RegisterHolds, ForgetHolds,
           MinutesHold DEF AccessStep

LEMMA ThrottleLost == ASSUME ThrottleInv, AccessLost PROVE ThrottleInv'
<1>1. /\ attempts' = [k \in Key |-> [failures |-> 0, wait |-> 0]]
      /\ guesses' = [k \in Key |-> 0] /\ slot' = [s \in Slots |-> Free]
  BY DEF AccessLost, AccessStart
<1>2. \A k \in Key : attempts'[k].failures = 0 /\ attempts'[k].wait = 0
  BY <1>1
<1>3. attempts' \in [Key -> [failures : Nat, wait : Nat]]
  BY <1>1
<1> QED BY <1>1, <1>2, <1>3, BlockGrows, FreeIsRequest DEF ThrottleInv

\* The invariant of the gate and that of the throttle.
LEMMA AccessInv == Spec => [](GateInv /\ ThrottleInv)
<1>1. Init => GateInv /\ ThrottleInv
  BY GateStart, ThrottleStart DEF Init
<1>2. GateInv /\ ThrottleInv /\ [Next]_vars => GateInv' /\ ThrottleInv'
  <2> SUFFICES ASSUME GateInv, ThrottleInv, [Next]_vars PROVE GateInv' /\ ThrottleInv'
    OBVIOUS
  <2>1. CASE UNCHANGED accessVars
    BY <2>1 DEF accessVars, GateInv, AccessIsCurrent, ThrottleInv, Verifying
  <2> QED BY <2>1, GateSteps, GateLost, ThrottleSteps, ThrottleLost, AccessSteps
<1> QED BY <1>1, <1>2, PTL DEF Spec

\* A request is admitted by settings that were in force together, also when they are updated
\* while it passes; and a session that was logged out is never valid again.
THEOREM AccessStaysCurrent == Spec => []AccessIsCurrent
<1>1. GateInv => AccessIsCurrent
  BY DEF GateInv
<1> QED BY <1>1, AccessInv, PTL

\* While a name has to wait, fewer wrong passwords are verified for it than there are requests
\* at a time, however late the failures of those that passed the check together are counted.
THEOREM GuessesAreBounded == Spec => []GuessesBounded
<1>1. ThrottleInv => GuessesBounded
  <2> SUFFICES ASSUME ThrottleInv, NEW k \in Key PROVE guesses[k] < Cardinality(Slots)
    BY DEF GuessesBounded
  <2>1. PICK s \in Slots : TRUE
    BY AccessAssumption
  <2>2. Verifying(k) \in SUBSET Slots /\ {} \in SUBSET Slots
    BY DEF Verifying
  <2>3. /\ Cardinality(Verifying(k)) \in Nat /\ Cardinality(Slots) \in Nat
        /\ Cardinality({}) \in Nat /\ Cardinality({}) < Cardinality(Slots)
    BY <2>1, <2>2, SlotsAreFinite
  <2>4. attempts[k].wait \in Nat /\ guesses[k] \in Nat
        /\ (attempts[k].wait = 0 => guesses[k] = 0)
        /\ (attempts[k].wait > 0 => guesses[k] + Cardinality(Verifying(k)) < Cardinality(Slots))
    BY DEF ThrottleInv
  <2> QED BY <2>3, <2>4
<1> QED BY <1>1, AccessInv, PTL

\* Only time, a right password or a new process makes a wait shorter: a late failure, whatever
\* it was counted after, makes it no shorter.
THEOREM WaitsGrow == Spec => WaitGrows
<1> DEFINE Shorter == \A k \in Key : attempts'[k].wait < attempts[k].wait =>
                          \/ MinutesPass \/ AccessLost \/ \E s \in Slots : ForgetFailures(s)
<1>1. GateInv /\ ThrottleInv /\ [Next]_vars => [Shorter]_accessVars
  <2> SUFFICES ASSUME GateInv, ThrottleInv, AccessStep PROVE Shorter
    BY AccessSteps
  <2>1. \A k \in Key : attempts[k].wait \in Nat
    BY DEF ThrottleInv
  <2>2. CASE attempts' = attempts
    BY <2>1, <2>2
  <2>3. ASSUME NEW s \in Slots, RegisterLoginFailure(s) PROVE Shorter
    <3>1. \A k \in Key : attempts'[k].wait >= attempts[k].wait /\ attempts'[k].wait \in Nat
      BY <2>3, RegisterHolds DEF ThrottleInv
    <3> QED BY <2>1, <3>1
  <2>4. \/ attempts' = attempts \/ MinutesPass \/ \E s \in Slots : ForgetFailures(s)
        \/ \E s \in Slots : RegisterLoginFailure(s)
    BY DEF AccessStep, Admit, CheckWait, VerifyWrong, VerifyRight, OpenSession, Logout,
           RequireAdmin, UpdateNetworkSettings, DeleteAccount
  <2> QED BY <2>2, <2>3, <2>4
<1> QED BY <1>1, AccessInv, PTL DEF WaitGrows, Spec
===============================================================================
