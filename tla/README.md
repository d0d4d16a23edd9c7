# Verification of website_buu

TLA+ modules, TLC configurations and TLAPS proofs about `website_buu`, a Rust/axum server that
keeps a tree of organisations with its users, members, activities and documents in encrypted
Feather files, and serves it to browsers that go on working offline. Line numbers refer to
`src/src/web.rs` unless another file is named.

Contents: 1 inventory, 2 plan, 3 modules and what their runs and proofs show, 4 how to run,
5 what is left out, 6 remarks on the code.

## 1. Inventory

All data is one `AppData` behind a `tokio::sync::RwLock`. A handler clones its user under a short
read lock (`require_session`), then takes the write lock, checks the rights of the clone, changes
the data and calls `persist`, which writes all tables. Other shared state (sessions, login attempts,
network settings, tree layouts) has locks of its own. The browser keeps an encrypted cache and an
encrypted queue of actions in `localStorage`, shared by its tabs; a unit page keeps the texts that
its user is editing.

| # | Component (code) | State | Operations | What is hard | Correct means | Status |
| --- | --- | --- | --- | --- | --- | --- |
| 1 | Write-behind store (`storage.rs` 48-190, flush task 349-367) | table files of the main and the cache directory, `cache_started_at.txt` | load, save, flush, clear | files are written one by one; the flush task has only a clone; kills between files | a restart reads a whole snapshot; an answered update is in it; flushes end | modelled, proved |
| 2 | Startup (237-318) | - | keys, load, normalise, seed, drop, save if changed | rewrites what handlers made | keeps what was answered | partly |
| 3 | Tree, members, activities (2320-2930) | units, users, items | create, rename, move, delete, review, members | rights from a stale clone; checks under another lock; failing hash or save | changes stay in the branch, deletions are whole, the root stays | modelled, proved |
| 4 | Accounts (822-1092, 2842-2930, 9731-9804) | names, password hashes, shown passwords | settings, create user, create unit, startup renames | a password verified before the lock; four handlers and two passes choose names | a login that was told works; names differ | modelled, proved |
| 5 | Documents (1332-1388, 1659-2193, 2968-3258) | rows and encrypted files | upload, edit, menu, push up, merge, download | the file is written before the row; two locks; merges loop | a row opens its file; tables above are current | modelled, proved |
| 6 | Aggregation (9337-9688) | none (pure) | merge tables, derived documents | header detection, merging merged tables again | no entry lost or doubled | modelled |
| 7 | Sessions, login throttle (2251-2318, 4403-4519) | sessions, failure counts | login, logout, require_session | check and count under different locks | waits grow; a wait is respected | modelled, proved |
| 8 | Network settings (676-820, 7492-7515) | mode, addresses | filter, update | decided on a clone | a request is judged by settings that were in force | modelled, proved |
| 9 | Delta synchronisation (1513-1547, 7350-7479, 13140-13326) | browser cache | ask, answer, merge, store | tabs overlap; restarts go back in time | the cache misses nothing it will not ask for again | modelled, proved |
| 10 | Offline queue (12917-13130) | browser queue | submit, enqueue, flush | awaits between read and write; tabs; ended sessions | queued actions are sent once, in order, and are not lost | modelled, proved |
| 11 | Keys (`hybird.rs`, `crypto.rs`, 1032-1055) | key files of three builds | create, read, migrate | rewriting in place, kills | the key is never lost; starts repair what a kill left | modelled, proved |
| 12 | Table codecs (`storage.rs` 192-832, `models.rs` 34-109) | table files of all builds | write, read | columns by position | a row keeps its fields | modelled, proved |
| 13 | Tree layouts on disk (1094-1118, 2932-2966) | JSON file and map | save, load | rewriting in place | no layout lost to another's save | modelled, proved |
| 14 | Tree layout and visibility (158-206, 8874-9266) | none (pure) | which units are drawn, where; who sees what | four functions decide access | boxes and lines apart; the four agree | modelled, the second proved |
| 15 | Unit page spreadsheet (11739-12563) | drafts, grid, tabs, save in flight | type, open, close, save, answer, synchronise | one grid and one request for all documents; answers that come late | texts stay apart; what was typed is kept and sent | modelled, proved |
| 16 | Table text (9268-9335, 11805-11847) | none (pure) | parse, write, in the browser and the server | escapes, separators, line ends | a table survives both | modelled |
| 17 | Service worker (13345-13451) | page cache | install, fetch | versions | - | not modelled |
| 18 | Dashboard script (10360-11095) | the picture | gestures that each send one request | - | - | not modelled |
| 19 | Rendering; deployment, tools, fuzz tests | - | - | - | - | not modelled |

Interactions: handlers of 3, 4, 5 and the passes of 2 call `save` (1), which writes with 12 under the
keys of 11; 2 runs before the server listens; 7 and 8 stand before every handler; 9 reads what 3-5
stamp; 10 sends the requests of 3-5, and the saves of 15, with the session of 7; 6 is computed from
the rows of 5 along the tree of 3, as text (16); 14 decides what 3, 5 and 9 show.

## 2. Plan

Written, in the order of importance: `Storage` (with its abstract store `AtomicStore` and the
refinement), `OrgTree`, `Accounts`, `OfflineQueue`, `DeltaSync`, `Documents`; then `Server`, which
composes `KeyFiles`, `Codec`, `Access` and `LayoutFile`; `SheetEditor`; and `Views`, which composes
the pure parts `SheetText`, `TableMerge` and `TreeLayout`. Proofs: each of these, of `Views` its three
parts.

`Storage` is the bottom: the proved refinement says that, while the store is intact, a save is one
step. The modules above use exactly that: they keep `saved`, a copy of the data that a successful
persist replaces at once and a restart brings back. `DeltaSync` in turn assumes that every handler
stamps what it changes; for those of `Documents` that is proved (`EveryChangeIsStamped`).

What could be added: the service worker's cache, and the dashboard script with late answers (see
section 6).

## 3. Modules, runs and proofs

Conventions: `X.tla` has the state and actions, `XProps.tla` the properties when they are many,
`MCX.tla` the values of constants and symmetry sets, `MCX*.cfg` the runs, `XProofs.tla` the proofs.
A definition whose comment begins "Faulty variant" is no part of the model: it is the same
definition with a plausible bug, kept to show which property would notice it. Every handler that a
`Slots` constant numbers is split where the code gives up a lock. `Restart` is a kill at any moment
followed by `run` up to the listening socket. A `TypeOK` that no run lists documents its module's
types (`tlc` confirms it when added to the run's `.cfg`), or is proved. Deadlock is not checked where the bounds on requests,
time or actions stop the system.

### 3.1 Storage, AtomicStore

`Storage` models every file operation of `load`, `save` and `flush_cache_to_main` as a step:
`fs::write` is two (truncate, fill), a table after the other in the code's order, `clear_cache` one
removal at a time, beginning with `organizations`, whose presence decides which directory a restart
loads. The server's job (a handler inside the write lock) and the flush task's interleave; any
operation may fail; a kill may come anywhere; `cache_started_at.txt` may be left empty. `exposure`
records why a restart might not find the last snapshot: its only copy is being rewritten in place
(also the first writes of a new cache, which decide at once which directory a restart reads), or a
save overlapped a flush.

`AtomicStore` says what is promised: memory, content, and a commit that makes the one the other;
when killed, memory returns to content. Content is unconstrained while `intact` is false.

| Run | Bounds | Properties |
| --- | --- | --- |
| `storage_safety` | 2 tables, 2 updates, 1 kill, 1 failure; fairness (70k states) | `IInv`, `AckMeansStored`, `ImplementsAtomicStore`, `DueWindowIsFlushed`, `SaveIsAnswered` |
| `storage_flush_race` | no kill, no failure | `AnsweredIsSaved` is violated |

Two tables are enough for "between two files", of which one decides the directory; one failure and
one kill for a failure inside a retry. Fairness: tokio's lock is fair, the flush task wakes every
60 s, file operations return, and `Restart=always` (`deploy/website_buu.service`) brings the process
back.

Proved in `StorageProofs`, for any number of tables, updates and bounds: `TypeCorrect`,
`Inductive` (`IInv`, of which the types are a part), `IntactIsReadable`, `AckedIsStored`,
`NeverShrinks` and `Refinement`. `IInv` is
needed because readability alone is not inductive: it says where a job may be (`JobsApart`), that
overlapping jobs have exposed the store (`DisturbedExposed`), how much of the target a job that runs
alone has written (`WrittenSoFar`), and that an intact store is rewritten in place only in main,
behind a cache (`InPlaceExposed`). For the refinement, the last step of a job that runs alone is a
commit, the first step of a write in place is an exposure, a kill is a death and a load a boot;
every other step stutters.

### 3.2 OrgTree

Units, accounts, items and the review marks of `AppData`. Every handler of the tree, its members and
activities is an action after `Enter`, which clones the user; `update_member` and `upload_document`
have their early check as a step of its own. `Restart` takes the saved data through
`drop_b_tier_nodes` and `ensure_demo_documents`. `descendant_ids` and `ancestor_ids` are least sets
closed under the parent links, as the code's work lists compute them.

| Run | Bounds | Properties |
| --- | --- | --- |
| `tree_safety` | 3 seed units, up to 4, 1 more user, 3 requests in 2 slots, 1 failure, 1 restart | `TypeOK`, `TreeInv`, `AnsweredUnitsStay`, `NothingUnsaved`, `UnitsHaveAccounts`, `ChangesStayInBranch`, `DeletionIsWhole` |
| `tree_deleted_unit_returns` | 2 requests in 2 slots | `DeletedStaysGone` is violated |

Two requests in flight and a third are what it takes for a clone to grow old while its unit, and
then the branch, change; three levels distinguish a branch from children.

`OrgTreeProofs` proves, for every seed tree and any number of slots, requests and restarts, all of
these, and that the root stays (`RootCannotGo`). `TreeInv` strengthens
`RootStays`, `AnsweredUnitsStay` and `ChangesStayInBranch`: the root keeps tier 0 and no parent,
answered units keep their tier in memory and on disk, and the unit of a checked upload is in its
user's branch *or gone*. The last part rests on lemmas about branches: a branch is closed (`BranchClosed`), the least such set (`BranchLeast`),
and what stays in the tree stays in the branch when other units change (`BranchSurvives`).
`UnitsHaveAccounts` needs that the numbers of the next accounts are free and that memory and disk
agree, since a start brings back what was saved (`AccountsInv`).

### 3.3 Accounts

Names, the two copies of each password and what the units are called, for the seven handlers that
write them and the two startup passes. `Trim` is what most handlers do with a typed text, and what
`login` does not. `told` remembers the logins an account's holder may have been told: what was typed
when a handler answered, both the old and the new after a failed save. `called` remembers what each
unit was ever called: `rename_tree_node` does not look at the accounts, and a start gives a unit's
account its code back when its login is the unit's name.

`accounts_safety`: an administrator and two units, one of which may be created and renamed,
4 accounts, 3 requests in 2 slots, 1 failing save, 1 restart: `ToldLoginWorks`, `NamesDistinct`
(786k states). Three requests let one verify a password before two others rename and reset it;
one of the passwords is typed with a blank. A told login is excluded when a start takes it away:
`admin`, `0` and blank of an administrator, blank and any name the unit ever had of a unit
(`Rewritten`), and a text typed with blanks around; section 6 has both.

`AccountsProofs` proves `ToldLoginAlwaysWorks`, `NamesStayDistinct` and `AccountsStayTyped` for any
number of units, accounts, requests, failing saves and restarts. `AccInv` says the same of memory and
of what a start would load (`Sound`): every account's login is one that its holder was told, unless it
has a name that starts rewrite, and, until a request asks for such a name (`odd`), the names differ
and starts leave them alone. The second half is what makes the first one survive a start. What a
start does is a recursive function over the accounts. That such a function exists is a matter of
induction, whose library theorems the provers cannot instantiate; the proofs take the least number up
up to which there is no function that satisfies the equation, and extend the one before it. The same
argument serves `Documents` and `TreeLayout`. Assumed of the constants (`NamesAssumption`): the
names that the first start gives differ and are none that a start takes. So they do in the demo
tree, where at most four units have one parent (1288-1302): a unit's code is its places from the
root down, written without separators (`tree_policy.rs` 47). And (`TrimAssumption`): what has no
blanks around it has none to lose.

### 3.4 OfflineQueue

The queue in `localStorage` with its key, each tab's flush (`queueFlushPromise`), each action from
submission to its end, sessions with their csrf token, password changes, page loads. Enqueuing is
two steps (read; encrypt and write), a flush one per fetch and one for the write. Each action has a
kind and a fate. The server refuses an action of another session with 403 ("json" handlers) or a
redirect ("form" handlers), and so it does, at every try, what is denied for good: a wrong current
password, a right that the user does not have. A faulty one gets another error at every try. Refusals
that are not due, and fetches that fail, are troubles, of which there are finitely many.

| Run | Bounds | Properties |
| --- | --- | --- |
| `queue_safety` | 2 tabs, 2 actions, 1 trouble, 1 page left, 2 sessions (5.2M states) | `QueuedIsKept`, `AppliedOnce`, `QueueInOrder` |
| `queue_progress` | 1 tab, 2 troubles, 2 passwords; fairness | `QueuedIsFlushed` |

Two actions make an order and two tabs an overlap. `MCLive` leaves out forms that are denied for
good, which leave the queue like those that are applied; `MCSafe` also the faulty actions, which for
safety take the steps of a trouble. Fairness: the page polls every `POLL_MS` = 15 s,
a fetch ends with an answer or an error, encryption ends. Nothing is assumed of the user, the
network or the session; the property asks for a browser that stays online with queued actions of the
running session, which only TLC checks. It speaks of actions that the server would apply and that are
not behind a JSON action denied for good: at such a one every flush stops (13044), so that nothing
behind it is ever sent (section 6). What is behind a faulty one goes out.

`OfflineQueueProofs` proves `QueueStaysInOrder`, `QueuedStays` and `NothingTwice` for any number of
tabs, actions, sessions and troubles. The slot alone does not carry them, since each tab writes back a
copy that it read earlier; `QueueInv` therefore speaks of the copies:

- `OrderInv`: every copy, those held while a tab encrypts or sends included, is in the order in which
  the actions were read, what a flush keeps comes before what it has not sent, and an action that is
  being enqueued comes after all of its copy. This holds of overlapping tabs as well;
- `KeepInv`: until two users overlap there is at most one, and its copy has all that is queued;
- `OnceInv`: until then, and until a request has to be repeated, what may still be sent has not been
  applied.

### 3.5 DeltaSync

The server's rows as time stamps, what a restart would load, the cache that the tabs share, and each
tab's sync between its read, the reply and its write. A deletion is in no delta.

`sync_cache`: 2 rows, 2 tabs, 2 stamped changes, deletions, 1 restart on older data, 1 failing sync
or dropped cache, fairness (466k states): `CacheIsCurrent`, `CacheCatchesUp`. Two tabs
suffice for a slower one that overwrites; two rows for one that a delta carries and one that it does
not. Fairness as in 3.4; changes are bounded, so they end.

`DeltaSyncProofs` proves `CacheIsCurrent` and the types for any numbers. The invariant adds that a
cache which a sync in flight has read is current, and so is what the sync will store
(`CacheInvHolds`). The heart is that a reply completes the cache it was asked for: what the reply
leaves out is no newer than what the cache has.

### 3.6 Documents

Rows, the key each file was written with, what is saved, and requests between their two locks. After
the write lock a handler is one action with these endings: answered; the persist failed (memory and
files changed); a file write failed half-way; the process killed, after any number of files of
`sync_shared_documents`; a new file that cannot be written, or encrypted, ends it as a failing persist
does. The text of a table is the set of its entries, so merging is union. `Tables` is
`effective_shared_documents_cached`, a recursive function along the tree. A manager with an old clone
may create a unit below a deleted one, as the code lets it; the way up then ends there. The n-th
shared document's title and file name are one name, also of an upload, whose title the code takes from
a field of its own (3032).

| Run | Bounds | Properties |
| --- | --- | --- |
| `documents_safety` | tree of 3 units and a leaf that comes later, a manager, 4 documents, 4 requests, 2 between locks, slot numbers up to 1, 1 failure, 1 kill (1.19M states) | `RowsOpen`, `EveryChangeIsStamped`, `SyncedIsCurrent`, `ListsReachUp`, `StoredStays` |

Two leaves let children have different numbers of documents; four requests, for example, merge,
delete, merge and push up. `broken` names the documents that may not open: those whose file a failing
write truncated, and those a restart took back to a row from before their file changed; `RowsOpen`
says there are no others, and copies of broken ones upwards are followed.

`DocumentsProofs` proves `RowsAlwaysOpen`, `ChangesAreStamped`, `StoredAlwaysStays`,
`SyncedAlwaysCurrent` and `ListsAlwaysReachUp` for any finite tree and any numbers.
`DocInv` says of the saved rows what `RowsOpen` says of those in memory, since a start brings them
back: they open too, unless the start removes them or their file was written since. `Good` is what a
handler owes at its end, and `EndKeeps` that any of its endings then keeps `DocInv`; one lemma per
handler shows `Good`, for a synchronisation after every number of slots, because it may stop there.
`SyncedAlwaysCurrent` is about order: a slot writes the shared document at its place, a new one comes
after all others, so each place is still the same when the rows are sorted again (`PlaceAfter`). This
counts what comes before (`PlacesFacts`), from which `OrderFacts` shows that the sorted sequence has
every document once.

`ListsAlwaysReachUp` has two halves. Along the tree: a unit's first table holds what the first tables
of its children hold (`TextGoesUp`), hence what any leaf below it shows (`TextReachesTop`); for this
`TablesAre` unfolds the recursive function along the units that exist. In time: the leaf shows the list that
was changed last, and the one just answered is that one, because no row has a stamp as late as the
step that wrote it (`LastStored`). Assumed of the constants: a finite tree whose parents have smaller
numbers.

### 3.7 Server: KeyFiles, Crypto, Codec, Access, LayoutFile

`Server` is the life of the process: a start reads and migrates the keys and loads the tables; the
listening server handles requests; a kill takes what is only in memory. Its parts have no variable in
common and meet in the start and the kill.

- `KeyFiles` has every read and write of `master_key.b64`, the private and public key files of
  three builds and the tree key as a step, `fs::write` as two (empty, then filled). `Init` is an
  installation of any age. `hurt` records that the file of the private or the master key was left
  empty; `torn` that a save was interrupted, by a kill or an error, while a table or
  `cache_started_at.txt` was empty or half written (`Storage` has those writes one by one). `run`
  ends when `load` meets such a file or a table that the master key does not open (256), when the
  startup save fails (309), and on any other error that it returns. `Crypto` is the encryption below it, ideal: a blob is its kind, its key and its text, and
  opening with another key yields nothing.
- `Codec` has, for each of the five tables, the columns that today's build writes, the layouts of
  older builds and the position and type at which the reader looks for each field.
- `Access` takes a request through `security_middleware`, `login` (wait, password, count or forget,
  session: a lock each), `logout`, `require_session` and `update_network_settings`. A minute is the
  unit of time, as in `login_block_duration`.
- `LayoutFile` is the map of tree layouts and the file it is written to under its lock.

`server_safety`: two starts, one kill, one failing write, installations of four ages; two requests
at a time to two accounts whose names differ in their case only, which share a failure count; up to
6 counted failures (the fifth begins a wait of a minute, the sixth one of three), 2 sessions, 1 update
of the settings, one outside address; 2 layouts of 2 owners with one failing write; 2 rows of each
table in each layout (454k states): `KeysOpenData`, `StartsRepair`, `GuessesBounded`,
`AccessIsCurrent`, `LayoutsKept`, `RowsSurvive`, `WaitGrows`. The parts' states would multiply
without bearing on each other, so the constraint `OnePartAtATime` keeps the behaviours in which one
part has requests, on a server whose keys were there; every kill and start is still in them. A
second start is what it takes to read what the first left; a second request, to pass the check of a
wait that the first then begins. `StartsRepair` names what makes a start be refused: a hurt key, a
torn file, an operation that failed, the files of the Kyber build. After a kill it is the first two
only; every other place where it may come is repaired by the next start.

Proved for any number of starts, kills, faults, requests, sessions, owners and names (whatever
`OnePartAtATime` leaves out included): in `ServerProofs`, `KeysStayGood`,
`StartsAlwaysRepair`, `AccessStaysCurrent`, `GuessesAreBounded`, `WaitsGrow`, `LayoutsAreKept` and
`RowsAlwaysSurvive`.

- `KeyInv` is needed because `KeysOpenData` speaks of a listening server only. It follows the one
  master key and the one pair through the start: the key is in the file, in memory while the file is
  being written, or the file is hurt (`MasterInv`); the pair is in its files, else in those of the
  latic build, else there are no documents, and while a file is written, in memory (`PairInv`).
- `ThrottleInv` counts, for a waiting name, those who have guessed and those who still may as one sum,
  which the step that verifies a password leaves as it is, and says that a wait is no longer than its
  count asks for, so that counting once more never shortens it (`BlockGrows`).
- `GateInv` adds that the settings in force are among those that ever were, and that session tokens
  are new. `LayoutInv` adds types only.

- `CodecInv` adds to `RowsSurvive` that the file holds only rows that a build wrote (`KnownRow`) and
  that, from the loading of the tables on, the memory holds what the file does; without it a save
  could write anything. `Readable` is what the reader needs to know of a layout: each column in its
  place, and for what is lacking the fields that it is filled in from. It is shown for each of the
  nine layouts (`AllReadable`), and for any readable layout and any rows that reading undoes writing
  (`ReadBack`). `Joined` joins the places of two layouts, since the provers cannot expand `@@`.

### 3.8 SheetEditor

The page of a unit: its records (`docs`), a draft for each document opened, one grid, one timer, one
request. Typing changes the grid and the draft; formatting a number changes the grid alone. A save is
begun by the end of an edit, the timer, the interval or Ctrl+S, and reads the grid back; its answer
marks and overwrites fields of the page, by then perhaps with another document open; a sync answer
replaces the drafts without changes. A text is the set of edits it has seen, with its document;
`unsaved` are those that have not reached the server.

Two ways in which the page gives up what was typed are in the model and excluded by name. A save that
the server refuses (stale token, lost right, document gone) is answered with a redirect, as after a
save that was stored; `fetch` follows it and the page takes it for a success (`Answered`). What the
request held is then taken out of `unsaved` when the draft becomes clean. And in the column of the
unit's activities the grid has only the first row's cell (12055): what stands in the others (`hidden`)
is read back as blank by the next save (`Grids`).

`sheet_editor`: 2 documents, 2 edits, fairness (1.2M states): `TextsStayApart`, `TypedIsKept`,
`ChangesAreSent`. Two documents are one and another; two edits, one in the request and one that
comes while it is on its way. The page opens with no document, which leaves both to be opened.
Fairness: the browser's ten-minute interval (`setInterval`) fires, and a request is answered, with an
error if need be. Nothing is assumed of the five-second timer, which may come while a save is in
flight and is then lost.

`PagesProofs` proves `SheetInvHolds`, `TextsAreApart` and `TypedStays` for any documents and
edits. `SheetInv` is needed since both properties lean on what the page does not say of itself:

- `RecordsApart`: the answer may put one document's text into another's record, but only one that has
  a draft, which hides the record until a sync replaces it;
- `TextsFit`: an unsaved edit is in no text of another document;
- `DraftsKeep`: a clean draft has nothing unsaved but what is hidden or a format, so a sync may replace
  it; the grid is behind the draft in what is hidden only, so reading it back loses
  nothing else;
- `StoredIsSaved`: what a stored request carried is no longer unsaved, so a late answer may clear it.

### 3.9 Views: SheetText, TableMerge, TreeLayout

Pure functions, each with a little state that is edited into every small input; `edited` chooses one
part for a behaviour. `SheetText` has both writers and both readers of a table, character by
character as far as one of them treats a character apart. `TableMerge` is
`aggregate_shared_slot_preview`, applied twice as on the way up, with cells in columns that the code
knows by place only: tables may have different column names, rows may be short or wide, a header may
be recognised or not, numbered or not, below a title or not. A row carries the number of its entry,
which no table shows, so that the properties can tell whose row it is whatever its cells say. `TreeLayout` computes the units drawn
for a user, the levels, places and lines, and who may open what.

`views`: tables of at most 2 by 2 cells with at most 3 typed characters; 3 units with at most 2 entries
of four shapes in tables with three headers, with and without a title, merged over two levels in three
orders; every tree of at most 6 units with two sort keys and a child limit of 2 (69k states): `TextSurvives`, `MergeKeepsEntries`,
`ActivitiesGoUp`, `DrawingIsClear`, `AccessAgrees`. Three characters are the longest that meet (an
escape, a line end of two); six units give two parents with children side by side and a unit beyond
the limit.

`MergeKeepsEntries` and `ActivitiesGoUp` say what the merging keeps, and where it does not: it writes
its numbers and activities into the columns of those names on top (`Rewritten`), also of rows that
have something else there, and an entry with nothing outside them may go; rows named by a title alone
may stand among the entries; and the activities are collected where all tables have the same column
names and the first entry of each merging is long enough. Section 6 has what happens elsewhere.

`PagesProofs` proves `TextAlwaysSurvives` for tables of any number of rows and columns and cells of any
length, and `DrawingStaysClear` and `AccessAlwaysAgrees` for a tree of any size, any sort keys and any
limit. `TextSpec`, `TableSpec` and `TreeSpec` are the parts of `Views` by themselves.

The invariant of the text (`TextInv`) only says that the rows of a table have one length; the theorem
is about four functions and their inverses. `Split` and `ReadAll` go over a text with a function of
the prefixes, for which one more character is one more step (`SplitAppend`, `ReadAppend`); all else
is induction over the text. What is escaped reads back (`EscapedComesBack`); the browser, which
doubles the backslashes before it joins the line ends, writes what the server writes, because a doubled
text has the same line ends (`DoublesKeepLineEnds`); to trim and to escape may change places
(`TrimEscapes`), which is why the server may trim a cell before it reads it; a joined text splits into
its parts (`SplitOfJoined`), since no escaped cell holds a tab or a line end (`EscapesPlain`). Then the
guessed separator: with several columns there is a tab (`TabIsFound`), and with one column the text
splits at none of the separators (`OneColumn`), which is where the property's exception for commas
and semicolons is needed.

`TreeInv` says that parents have smaller numbers, and that sort keys are numbers. From the first,
`AncestorsAre` unfolds the recursive ancestors: what is drawn lies below the user's unit. The drawing
goes level by level: `InOrder` gives a set of units a sequence, by sort key and then by number
(`Rows`); a level has the children of the one before, no unit twice, brothers side by side and in the
order of their parents (`Stacked`); units of different levels have different depths (`Leveled`). From
these follow that no two boxes share a place and no two lines cross.

Assumed of the constants: the sort keys are numbers (`KeysAreNumbers`), as the types of the code have
it. Of `TableMerge`: there are units with tables (`SomeLeaves`), tables have two columns or more
(`LayoutsAreNames`), cells are lines of text (`RecordsAreCells`), of which some are numbers and none is
a column name or a title (`NamesDiffer`), and texts have an order (`RankIsOrder`).

## 4. How to run

`tlc -workers 2 -config <cfg> <module>` for each run of `PROJECT.json`, `tlapm <module>` for each
`*Proofs` module. `PROJECT.json` also maps every definition to the lines it models, every property to
a faulty variant that it notices, and lists the hazards and the properties against them.

## 5. What is left out

Not modelled:

- the service worker (17): copies of pages by version, on which no other part relies (two remarks
  below);
- the dashboard script (18): each gesture is one request of `OrgTree`, `Accounts` or `LayoutFile`, and
  the page keeps nothing of it but the picture;
- HTML, CSS and wording; service file, seed tool and fuzz tests;
- of the startup, `normalize_members` and the contents of the demo seed;
- of `Access`, the https check and the response headers; of the keys, the Windows build (DPAPI);
- of the sheet, fonts, colours, search and spelling.

Simplifications:

- The clock moves on between two handlers and is not set back (stamps have nanoseconds). A successful
  `fs::write` survives a kill of the process; power failures are not modelled.
- In `OrgTree`, `Accounts` and `Documents` a persist is atomic, as `Storage` proves while its store is
  intact; the exposed moments are covered by `Storage` alone.
- `OfflineQueue` takes the removal of an undecryptable slot with its read, and leaves out requests that
  the browser never queues (online-only actions, pages without keys).
- `SheetEditor` takes an answer of the offline queue for the server's, keeps tabs in no order, and
  takes the clipboard as read at once.
- `TreeLayout` takes the tier of a unit for its depth, and units with equal sort keys in the order of
  their creation, where the code has the order of a `HashSet` (9240); no property depends on it.
- `TableMerge` has no accents: a name is recognised or it is not. Numbers below 100 are compared as the
  texts they are, other texts by `Rank`.
- Ciphers are libraries: `Crypto` is ideal. Arrow's container is one too: `Codec` has columns.

Checked by TLC only: liveness, which is out of the prover's reach (`DueWindowIsFlushed`,
`SaveIsAnswered`, `QueuedIsFlushed`, `CacheCatchesUp`, `ChangesAreSent`), and the two properties of
`TableMerge`.

## 6. Remarks on the code

Disagreements that a run shows, with the lines in `PROJECT.json` "findings":

- A save that is answered while the flush task writes its older clone is removed from disk with the
  cache (363).
- A request that cloned its user before that user's unit was deleted adds to the deleted unit (2702).

Storage and start:

- A kill between the first files of a new cache makes the restart take missing tables as empty,
  although main has them (`storage.rs` 91).
- An empty `cache_started_at.txt` makes every save fail (`storage.rs` 139) and every later start with
  it; so does a table that a kill left half written in the directory that a start reads.
- A private key file that a kill left empty is read as an empty key, and the server goes on with it
  (`hybird.rs` 88). On Linux every start rewrites the master key, because it never has the prefix of
  an encrypted one (`crypto.rs` 140).
- A unit created below tier 3 is dropped by the next start (1249).
- An administrator named `admin`, `0` or nothing gets the bootstrap login at every start (1067). A
  unit renamed to its account's login (2593) has that login replaced by its code (9767).
- Names and passwords are trimmed when they are set (850) and not when they are used (2265, 2274): one
  that was typed with blanks around does not work as it was typed.
- A document renamed to a name of the old seed, one of which the page sorts first (1594), is removed
  by the next start (1337).
- README.md:71 names key files `mlkem_*`, which the code does not use.

Queue and synchronisation:

- Of two overlapping writers of the action queue the last one wins (12990, 13055).
- A queued document change is dropped as synchronised when its session has ended: the redirect counts
  as success (13040).
- A queued "json" action with a stale csrf token, a wrong current password (864) or without the right
  (776, 2878) is refused with 401 or 403 at every flush, which stops there (13044): it stays at the
  head of the queue and holds up all behind it.
- The service worker stores what handlers mark as no-store, the logins of
  `/dashboard/tree-nodes/*/credentials` among it (13440; the comment at 710 and the test at 7782 say
  that browsers keep no copy).

Documents and tables:

- An edit of a computed table is stored where its page does not look (1786, 9639).
- The order "a-z" compares the first cell of a row, its number, not the name. `extract_age_value`
  takes the least number from 18 to 90 anywhere in a row.
- `renumber_stt_column` writes into the first cell of every row (9394), which in a row of a table with
  other columns may be the name. `collapse_unit_activity_column` empties the cells of all rows and
  writes into the first one, if that is long enough; if it is not, all lines are lost (9350, 9363).
- Text of a table with one column is split at a comma or semicolon when it is read. A table without
  column names, or with unknown names below a title, loses its first row to the header.

Pages:

- A save of the unit page that the server refuses (1743-1770) counts as stored (13089): the next
  synchronisation takes what was typed off the page, without a message.
- Activities that are typed below the first row are not drawn when the page is opened again (12055),
  and the save after that stores blanks in their place (12088).
- The number formats (12363-12419) change the cell on screen only and are gone when the edit ends,
  whose button promises to save (11887).
- Ctrl+S (12516) submits twice and leaves the page; the changes of other tabs are dropped.
- The answer of a save that arrives after a change of tabs marks the tab, and overwrites the preview
  of the record, that is open by then (12126-12133). A sync answer that was computed before a save can
  bring the old text back until the next one.
- An answer with the login of one unit that arrives late is shown under another (10866).
- Freely chosen tiers make boxes of different sizes overlap.

Accounts and access:

- `update_dashboard_tree_user_credentials` changes the hash but not `password_plain` (2914).
- `document_view_policy` never asks for a password (9138-9189), so `unlock_unit_documents` never
  unlocks and a download from a unit above (3135) is always refused, although HUONG-DAN-SU-DUNG.md:40
  describes it.
- HUONG-DAN-SU-DUNG.md:41 names an auditor role that `models.rs` does not have.
