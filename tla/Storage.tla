------------------------------ MODULE Storage ------------------------------
(***************************************************************************)
(* The write-behind cache of src/src/storage.rs and the two things that    *)
(* drive it: request handlers, which mutate AppData and call               *)
(* Storage::save while they hold the data write lock, and the 60 second    *)
(* flush task of run(), which clones AppData under the read lock, gives    *)
(* the lock back and then calls Storage::flush_cache_to_main.              *)
(*                                                                         *)
(* A snapshot is written as one file per table, in a fixed order, each by  *)
(* fs::write (truncate, then fill).  Table 1 is organizations: its file in *)
(* the cache directory decides which directory a restart loads.            *)
(*                                                                         *)
(* An update (one request that changes data) is named, and a table's rows  *)
(* are abstracted to the set of updates whose effect they contain.         *)
(***************************************************************************)
EXTENDS Naturals, FiniteSets

CONSTANTS
    NumTables,      \* tables of AppData: organizations is 1, then the others in write order
    Updates,        \* the mutating requests a run sends
    Touches,        \* Touches[u]: the tables update u changes
    MaxCrashes,     \* bound: times the process is killed
    MaxIoFailures,  \* bound: I/O calls that return an error
    None            \* no update in service

ASSUME NumTablesAssumption == NumTables \in Nat \ {0}
ASSUME TouchesAssumption == Touches \in [Updates -> SUBSET (1 .. NumTables)]
ASSUME NoneAssumption == None \notin Updates
ASSUME BoundsAssumption == MaxCrashes \in Nat /\ MaxIoFailures \in Nat

VARIABLES
    phase,      \* where run() is: down, loading, startup, up
    mem,        \* AppData in memory
    disk,       \* the table files of both directories
    window,     \* cache_started_at.txt: none, torn (empty), open (< 24h), due
    job,        \* what the server and the flush task are writing
    current,    \* the update whose handler holds the data write lock
    requested,  \* updates sent so far
    acked,      \* updates answered with success
    crashes, ioFailures,
    exposure    \* history: no, or why a restart may not find the last snapshot

vars == <<phase, mem, disk, window, job, current, requested, acked,
          crashes, ioFailures, exposure>>

Table == 1 .. NumTables
Snapshot == [Table -> SUBSET Updates]
Empty == [t \in Table |-> {}]
Organizations == 1
MetaFile == NumTables + 1     \* position of cache_started_at.txt in clear_cache

Dir == {"main", "cache"}
Proc == {"server", "timer"}

File == [state : {"missing", "torn", "full"}, rows : SUBSET Updates]
Missing == [state |-> "missing", rows |-> {}]
Torn == [state |-> "torn", rows |-> {}]
Full(rows) == [state |-> "full", rows |-> rows]

Pc == {"idle", "wait", "decide", "meta", "stamp", "create", "fill", "clear"}
Job == [pc : Pc, dir : Dir, at : 1 .. MetaFile, snap : Snapshot,
        mark : {"alone", "disturbed"}]

TypeOK ==
    /\ phase \in {"down", "loading", "startup", "up"}
    /\ mem \in Snapshot
    /\ disk \in [Dir -> [Table -> File]]
    /\ window \in {"none", "torn", "open", "due"}
    /\ job \in [Proc -> Job]
    /\ current \in requested \union {None}
    /\ requested \in SUBSET Updates
    /\ acked \in SUBSET requested
    /\ crashes \in 0 .. MaxCrashes
    /\ ioFailures \in 0 .. MaxIoFailures
    /\ exposure \in {"no", "in_place", "overlap"}

----------------------------------------------------------------------------
(* What a restart would find. *)

CacheExists == disk["cache"][Organizations].state # "missing"
ActiveDir == IF CacheExists THEN "cache" ELSE "main"

\* load_from_dir: a missing table is empty, an undecryptable one is an error.
Readable == \A t \in Table : disk[ActiveDir][t].state # "torn"
Stored == [t \in Table |-> disk[ActiveDir][t].rows]

Flushing == job["timer"].pc \in {"create", "fill", "clear"}
LockFree == job["server"].pc = "idle"

----------------------------------------------------------------------------
(* Jobs: the write sequences of save and flush_cache_to_main. *)

Begun(pc, dir, snap, mark) ==
    [pc |-> pc, dir |-> dir, at |-> 1, snap |-> snap, mark |-> mark]

Idle == Begun("idle", "cache", Empty, "alone")
Saving(snap, mark) == Begun("decide", "cache", snap, mark)
Writing(dir, snap, mark) == Begun("create", dir, snap, mark)

\* The same job at another position of its sequence.
Moved(j, pc, at) ==
    [pc |-> pc, dir |-> j.dir, at |-> at, snap |-> j.snap, mark |-> j.mark]
Disturbed(j) ==
    [pc |-> j.pc, dir |-> j.dir, at |-> j.at, snap |-> j.snap, mark |-> "disturbed"]

SetJob(p, j) == job' = [job EXCEPT ![p] = j]

Init ==
    /\ phase = "down"
    /\ mem = Empty
    /\ disk = [d \in Dir |-> [t \in Table |-> Missing]]
    /\ window = "none"
    /\ job = [p \in Proc |-> Idle]
    /\ current = None
    /\ requested = {}
    /\ acked = {}
    /\ crashes = 0
    /\ ioFailures = 0
    /\ exposure = "no"

\* Faulty variant: a restart reads the main directory whatever the cache holds.
LoadMainOnly ==
    /\ phase = "down"
    /\ mem' = [t \in Table |-> disk["main"][t].rows]
    /\ exposure' = "no"
    /\ phase' = "startup"
    /\ UNCHANGED <<disk, window, job, current, requested, acked, crashes, ioFailures>>

\* Storage::load in run(): from the cache directory when its organizations file
\* exists, otherwise from the main one.  A due cache is written to main first.
\* An unreadable file or an unparsable cache_started_at.txt ends the process.
Load ==
    /\ phase = "down"
    /\ Readable
    /\ CacheExists => window # "torn"
    /\ mem' = Stored
    /\ exposure' = "no"
    /\ IF CacheExists /\ window = "due"
         THEN /\ phase' = "loading"
              /\ SetJob("server", Writing("main", Stored, "alone"))
         ELSE /\ phase' = "startup"
              /\ UNCHANGED job
    /\ UNCHANGED <<disk, window, current, requested, acked, crashes, ioFailures>>

\* run() saves once before it serves when a startup pass changed the data.  The
\* passes are recomputed from the data at every start: they add no update.
StartupUnchanged ==
    /\ phase = "startup"
    /\ LockFree
    /\ phase' = "up"
    /\ UNCHANGED <<mem, disk, window, job, current, requested, acked,
                   crashes, ioFailures, exposure>>

StartupSave ==
    /\ phase = "startup"
    /\ LockFree
    /\ SetJob("server", Saving(mem, "alone"))
    /\ UNCHANGED <<phase, mem, disk, window, current, requested, acked,
                   crashes, ioFailures, exposure>>

\* A handler takes the data write lock, changes AppData and calls persist.  The
\* flush task may be writing meanwhile: it does not hold the lock.
Handle(u) ==
    /\ phase = "up"
    /\ LockFree
    /\ u \notin requested
    /\ requested' = requested \union {u}
    /\ current' = u
    /\ mem' = [t \in Table |-> IF t \in Touches[u] THEN mem[t] \union {u} ELSE mem[t]]
    /\ job' = [job EXCEPT !["server"] = Saving(mem', IF Flushing THEN "disturbed" ELSE "alone"),
                          !["timer"] = Disturbed(job["timer"])]
    /\ exposure' = IF Flushing THEN "overlap" ELSE exposure
    /\ UNCHANGED <<phase, disk, window, acked, crashes, ioFailures>>

\* Faulty variant: a save waits for the flush task, which waits for the data lock.
DecideAfterFlush ==
    /\ job["server"].pc = "decide"
    /\ job["timer"].pc = "idle"
    /\ window # "torn"
    /\ IF window = "due"
         THEN SetJob("server", Writing("main", job["server"].snap, job["server"].mark))
         ELSE SetJob("server", Moved(job["server"], "meta", 1))
    /\ UNCHANGED <<phase, mem, disk, window, current, requested, acked,
                   crashes, ioFailures, exposure>>

\* Storage::save looks at cache_started_at.txt: past 24 hours it flushes to main.
Decide ==
    /\ job["server"].pc = "decide"
    /\ window # "torn"
    /\ IF window = "due"
         THEN SetJob("server", Writing("main", job["server"].snap, job["server"].mark))
         ELSE SetJob("server", Moved(job["server"], "meta", 1))
    /\ UNCHANGED <<phase, mem, disk, window, current, requested, acked,
                   crashes, ioFailures, exposure>>

\* ensure_cache_window: create cache_started_at.txt unless it is there ...
EnsureCacheWindow ==
    /\ job["server"].pc = "meta"
    /\ IF window = "none"
         THEN /\ window' = "torn"
              /\ SetJob("server", Moved(job["server"], "stamp", 1))
         ELSE /\ UNCHANGED window
              /\ SetJob("server", Writing("cache", job["server"].snap, job["server"].mark))
    /\ UNCHANGED <<phase, mem, disk, current, requested, acked,
                   crashes, ioFailures, exposure>>

\* ... and write the time into it.  If clear_cache removed it in between, the
\* text goes to the removed file.
StampWindow ==
    /\ job["server"].pc = "stamp"
    /\ window' = IF window = "torn" THEN "open" ELSE window
    /\ SetJob("server", Writing("cache", job["server"].snap, job["server"].mark))
    /\ UNCHANGED <<phase, mem, disk, current, requested, acked,
                   crashes, ioFailures, exposure>>

\* fs::write of one table: the file is truncated ...
CreateFile(p) ==
    LET j == job[p] IN
    /\ j.pc = "create"
    /\ disk' = [disk EXCEPT ![j.dir][j.at] = Torn]
    /\ SetJob(p, Moved(j, "fill", j.at))
    /\ exposure' = IF exposure = "no" /\ ~(j.dir = "main" /\ CacheExists)
                     THEN "in_place" ELSE exposure
    /\ UNCHANGED <<phase, mem, window, current, requested, acked,
                   crashes, ioFailures>>

\* ... and filled.  Two writers of one file overlay each other: the result is the
\* later content, or unreadable when the earlier one was longer.  A file that
\* clear_cache removed in between stays removed.
Filled(f, rows) ==
    CASE f.state = "torn"    -> {Full(rows)}
      [] f.state = "full"    -> {Full(rows), Torn}
      [] f.state = "missing" -> {Missing}

\* persist has returned Ok to whoever called it.
Done(p) ==
    /\ SetJob(p, Idle)
    /\ exposure' = IF job[p].mark = "alone" THEN "no" ELSE exposure
    /\ phase' = IF p = "timer" THEN phase
                ELSE IF phase = "loading" THEN "startup" ELSE "up"
    /\ acked' = IF p = "server" /\ current # None
                  THEN acked \union {current} ELSE acked
    /\ current' = IF p = "server" THEN None ELSE current

\* Faulty variant: a snapshot that reached main leaves the cache in place.
FillFileNoClear(p) ==
    LET j == job[p] IN
    /\ j.pc = "fill"
    /\ \E f \in Filled(disk[j.dir][j.at], j.snap[j.at]) :
         disk' = [disk EXCEPT ![j.dir][j.at] = f]
    /\ IF j.at = NumTables
         THEN Done(p)
         ELSE /\ SetJob(p, Moved(j, "create", j.at + 1))
              /\ UNCHANGED <<exposure, phase, acked, current>>
    /\ UNCHANGED <<mem, window, requested, crashes, ioFailures>>

FillFile(p) ==
    LET j == job[p] IN
    /\ j.pc = "fill"
    /\ \E f \in Filled(disk[j.dir][j.at], j.snap[j.at]) :
         disk' = [disk EXCEPT ![j.dir][j.at] = f]
    /\ IF j.at = NumTables /\ j.dir = "cache"
         THEN Done(p)
         ELSE /\ SetJob(p, IF j.at < NumTables THEN Moved(j, "create", j.at + 1)
                                               ELSE Moved(j, "clear", 1))
              /\ UNCHANGED <<exposure, phase, acked, current>>
    /\ UNCHANGED <<mem, window, requested, crashes, ioFailures>>

\* clear_cache after a snapshot reached main: the tables in order, organizations
\* first, then cache_started_at.txt (ClearMeta).
ClearFile(p) ==
    LET j == job[p] IN
    /\ j.pc = "clear"
    /\ j.at \in Table
    /\ disk' = [disk EXCEPT !["cache"][j.at] = Missing]
    /\ SetJob(p, Moved(j, "clear", j.at + 1))
    /\ UNCHANGED <<phase, mem, window, current, requested, acked,
                   crashes, ioFailures, exposure>>

\* Faulty variant: cache_started_at.txt is not removed.
ClearMetaKept(p) ==
    /\ job[p].pc = "clear"
    /\ job[p].at = MetaFile
    /\ Done(p)
    /\ UNCHANGED <<window, mem, disk, requested, crashes, ioFailures>>

ClearMeta(p) ==
    /\ job[p].pc = "clear"
    /\ job[p].at = MetaFile
    /\ window' = "none"
    /\ Done(p)
    /\ UNCHANGED <<mem, disk, requested, crashes, ioFailures>>

\* The flush task finds the window due, without any lock ...
TimerCheck ==
    /\ phase = "up"
    /\ job["timer"].pc = "idle"
    /\ window = "due"
    /\ SetJob("timer", Moved(job["timer"], "wait", 1))
    /\ UNCHANGED <<phase, mem, disk, window, current, requested, acked,
                   crashes, ioFailures, exposure>>

\* Faulty variant: AppData is cloned without waiting for the lock.
TimerSnapshotUnlocked ==
    /\ job["timer"].pc = "wait"
    /\ SetJob("timer", Writing("main", mem, "alone"))
    /\ UNCHANGED <<phase, mem, disk, window, current, requested, acked,
                   crashes, ioFailures, exposure>>

\* ... then waits for the read lock, clones AppData, releases the lock and starts
\* flush_cache_to_main.  It does not look at the window again.
TimerSnapshot ==
    /\ job["timer"].pc = "wait"
    /\ LockFree
    /\ SetJob("timer", Writing("main", mem, "alone"))
    /\ UNCHANGED <<phase, mem, disk, window, current, requested, acked,
                   crashes, ioFailures, exposure>>

\* Storage::save returns Err: the handler answers an error and keeps the change in
\* memory; before serving, run() ends.
SaveFails ==
    /\ IF phase = "up"
         THEN /\ SetJob("server", Idle)
              /\ UNCHANGED <<phase, mem>>
         ELSE /\ job' = [p \in Proc |-> Idle]
              /\ phase' = "down"
              /\ mem' = Empty
    /\ current' = None

\* cache_started_at.txt does not parse: every save fails at once.
DecideFails ==
    /\ job["server"].pc = "decide"
    /\ window = "torn"
    /\ SaveFails
    /\ UNCHANGED <<disk, window, requested, acked, crashes, ioFailures, exposure>>

\* Any file operation of a job may fail.  The flush task ignores the error.
IoFails(p) ==
    /\ job[p].pc \in {"meta", "stamp", "create", "fill", "clear"}
    /\ ioFailures < MaxIoFailures
    /\ ioFailures' = ioFailures + 1
    /\ IF p = "server"
         THEN SaveFails
         ELSE /\ SetJob("timer", Idle)
              /\ UNCHANGED <<phase, mem, current>>
    /\ UNCHANGED <<disk, window, requested, acked, crashes, exposure>>

\* The process is killed between any two steps; files stay as they are.
Crash ==
    /\ phase # "down"
    /\ crashes < MaxCrashes
    /\ crashes' = crashes + 1
    /\ phase' = "down"
    /\ mem' = Empty
    /\ job' = [p \in Proc |-> Idle]
    /\ current' = None
    /\ UNCHANGED <<disk, window, requested, acked, ioFailures, exposure>>

\* 24 hours pass since the time in cache_started_at.txt.
WindowExpires ==
    /\ window = "open"
    /\ window' = "due"
    /\ UNCHANGED <<phase, mem, disk, job, current, requested, acked,
                   crashes, ioFailures, exposure>>

FileStep(p) == CreateFile(p) \/ FillFile(p) \/ ClearFile(p) \/ ClearMeta(p)
ServerStep ==
    \/ Load \/ StartupUnchanged \/ StartupSave
    \/ Decide \/ DecideFails \/ EnsureCacheWindow \/ StampWindow
    \/ FileStep("server")
TimerStep == TimerCheck \/ TimerSnapshot \/ FileStep("timer")

Next ==
    \/ ServerStep
    \/ TimerStep
    \/ \E u \in Updates : Handle(u)
    \/ \E p \in Proc : IoFails(p)
    \/ Crash
    \/ WindowExpires

Spec == Init /\ [][Next]_vars

\* The process runs its own steps to the end, systemd restarts it (Restart=always),
\* the clock advances, and tokio's RwLock queues readers and writers in order.
FairSpec ==
    /\ Spec
    /\ WF_vars(ServerStep)
    /\ WF_vars(FileStep("timer"))
    /\ WF_vars(TimerCheck)
    /\ SF_vars(TimerSnapshot)
    /\ WF_vars(WindowExpires)
=============================================================================
