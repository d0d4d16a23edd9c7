--------------------------- MODULE StorageProofs ---------------------------
(***************************************************************************)
(* Proofs about Storage for every number of tables, every set of updates   *)
(* and every bound on crashes and failures.                                *)
(***************************************************************************)
EXTENDS StorageProps, TLAPS

USE DEF Organizations

----------------------------------------------------------------------------
(* The constructors of the model build values of the declared types. *)

LEMMA Positions ==
    /\ NumTables \in Nat \ {0}
    /\ 1 \in Table
    /\ 1 \in 1 .. MetaFile
    /\ \A t \in Table : t \in 1 .. MetaFile /\ t + 1 \in 1 .. MetaFile
    /\ MetaFile \notin Table
BY NumTablesAssumption DEF Table, MetaFile

Mark == {"alone", "disturbed"}

LEMMA Names ==
    /\ "idle" \in Pc /\ "wait" \in Pc /\ "decide" \in Pc /\ "meta" \in Pc
    /\ "stamp" \in Pc /\ "create" \in Pc /\ "fill" \in Pc /\ "clear" \in Pc
    /\ "main" \in Dir /\ "cache" \in Dir
    /\ "server" \in Proc /\ "timer" \in Proc
    /\ "alone" \in Mark /\ "disturbed" \in Mark
BY DEF Pc, Dir, Proc, Mark

LEMMA EmptyIsSnapshot == Empty \in Snapshot
BY DEF Empty, Snapshot

LEMMA BegunFields ==
    ASSUME NEW pc \in Pc, NEW dir \in Dir, NEW snap \in Snapshot, NEW mark \in Mark
    PROVE  LET b == Begun(pc, dir, snap, mark) IN
           /\ b \in Job /\ b.pc = pc /\ b.dir = dir /\ b.at = 1
           /\ b.snap = snap /\ b.mark = mark
BY Positions DEF Begun, Job, Mark

LEMMA IdleFields ==
    Idle \in Job /\ Idle.pc = "idle" /\ Idle.mark = "alone"
BY BegunFields, EmptyIsSnapshot, Names DEF Idle

LEMMA SavingFields ==
    ASSUME NEW snap \in Snapshot, NEW mark \in Mark
    PROVE  LET b == Saving(snap, mark) IN
           b \in Job /\ b.pc = "decide" /\ b.snap = snap /\ b.mark = mark
BY BegunFields, Names DEF Saving

LEMMA WritingFields ==
    ASSUME NEW dir \in Dir, NEW snap \in Snapshot, NEW mark \in Mark
    PROVE  LET b == Writing(dir, snap, mark) IN
           /\ b \in Job /\ b.pc = "create" /\ b.dir = dir /\ b.at = 1
           /\ b.snap = snap /\ b.mark = mark
BY BegunFields, Names DEF Writing

LEMMA MovedFields ==
    ASSUME NEW j \in Job, NEW pc \in Pc, NEW at \in 1 .. MetaFile
    PROVE  LET b == Moved(j, pc, at) IN
           /\ b \in Job /\ b.pc = pc /\ b.dir = j.dir /\ b.at = at
           /\ b.snap = j.snap /\ b.mark = j.mark
BY DEF Moved, Job, Mark

LEMMA DisturbedFields ==
    ASSUME NEW j \in Job
    PROVE  LET b == Disturbed(j) IN
           /\ b \in Job /\ b.pc = j.pc /\ b.dir = j.dir /\ b.at = j.at
           /\ b.snap = j.snap /\ b.mark = "disturbed"
BY DEF Disturbed, Job, Mark

LEMMA JobTypes ==
    ASSUME NEW j \in Job
    PROVE  /\ j.pc \in Pc /\ j.dir \in Dir /\ j.at \in 1 .. MetaFile
           /\ j.snap \in Snapshot /\ j.mark \in Mark
BY DEF Job, Mark

LEMMA FullFields ==
    ASSUME NEW rows PROVE Full(rows).state = "full" /\ Full(rows).rows = rows
BY DEF Full

LEMMA StoredIsSnapshot == TypeOK => Stored \in Snapshot
BY DEF TypeOK, Stored, ActiveDir, File, Dir, Snapshot

LEMMA FilledIsFile ==
    ASSUME NEW f \in File, NEW rows \in SUBSET Updates
    PROVE  Filled(f, rows) \subseteq File
BY DEF Filled, File, Full, Torn, Missing

LEMMA MemIsSnapshot ==
    ASSUME TypeOK, NEW u \in Updates
    PROVE  [t \in Table |-> IF t \in Touches[u] THEN mem[t] \union {u} ELSE mem[t]]
             \in Snapshot
BY DEF TypeOK, Snapshot

LEMMA SetJobFields ==
    ASSUME job \in [Proc -> Job], NEW p \in Proc, NEW j \in Job, SetJob(p, j)
    PROVE  /\ job' \in [Proc -> Job]
           /\ job'[p] = j
           /\ \A q \in Proc : q # p => job'[q] = job[q]
BY DEF SetJob

LEMMA AllIdle ==
    ASSUME job' = [p \in Proc |-> Idle]
    PROVE  job' \in [Proc -> Job] /\ \A p \in Proc : job'[p] = Idle
BY IdleFields

----------------------------------------------------------------------------
(* Types, and which job may be where. *)

LEMMA InitTyped == Init => TypedJobs
<1> SUFFICES ASSUME Init PROVE TypedJobs
  OBVIOUS
<1>1. TypeOK
  BY EmptyIsSnapshot, IdleFields, BoundsAssumption
  DEF Init, TypeOK, File, Missing
<1>2. JobsApart
  BY IdleFields DEF Init, JobsApart, Flushing, Busy, Proc
<1>3. QED
  BY <1>1, <1>2 DEF TypedJobs

\* How a save ends, well or badly, whatever it did to the disk.
LEMMA DoneTyped ==
    ASSUME TypedJobs, NEW p \in Proc, Done(p),
           job[p].pc \in {"fill", "clear"},
           disk' \in [Dir -> [Table -> File]],
           window' \in {"none", "torn", "open", "due"},
           UNCHANGED <<mem, requested, crashes, ioFailures>>
    PROVE  TypedJobs'
<1>1. /\ job' \in [Proc -> Job] /\ job'[p] = Idle
      /\ \A q \in Proc : q # p => job'[q] = job[q]
  BY SetJobFields, IdleFields DEF Done, TypedJobs, TypeOK
<1>2. TypeOK'
  BY <1>1 DEF Done, TypedJobs, TypeOK
<1>3. p = "timer" => phase = "up"
  BY DEF TypedJobs, JobsApart
<1>4. phase' # "down" /\ (phase' = "up" \/ (p = "server" /\ job["timer"].pc = "idle"))
  BY <1>3 DEF Done, TypedJobs, TypeOK, JobsApart, Proc
<1>5. JobsApart'
  BY <1>1, <1>4, IdleFields DEF TypedJobs, JobsApart, Busy, Flushing, Proc
<1>6. QED
  BY <1>2, <1>5 DEF TypedJobs

LEMMA SaveFailsTyped ==
    ASSUME TypedJobs, SaveFails,
           ioFailures' \in 0 .. MaxIoFailures,
           UNCHANGED <<disk, window, requested, acked, crashes, exposure>>
    PROVE  TypedJobs'
<1>1. CASE phase = "up"
  <2>1. /\ job' \in [Proc -> Job] /\ job'["server"] = Idle
        /\ job'["timer"] = job["timer"] /\ phase' = "up"
    BY <1>1, SetJobFields, IdleFields DEF SaveFails, TypedJobs, TypeOK, Proc
  <2>2. TypeOK'
    BY <1>1, <2>1 DEF SaveFails, TypedJobs, TypeOK
  <2>3. JobsApart'
    BY <2>1, IdleFields DEF TypedJobs, JobsApart, Busy, Flushing, Proc
  <2>4. QED
    BY <2>2, <2>3 DEF TypedJobs
<1>2. CASE phase # "up"
  <2>1. job' \in [Proc -> Job] /\ \A p \in Proc : job'[p] = Idle
    BY <1>2, AllIdle DEF SaveFails
  <2>2. TypeOK'
    BY <1>2, <2>1, EmptyIsSnapshot DEF SaveFails, TypedJobs, TypeOK
  <2>3. JobsApart'
    BY <2>1, IdleFields DEF JobsApart, Busy, Flushing, Proc
  <2>4. QED
    BY <2>2, <2>3 DEF TypedJobs
<1>3. QED
  BY <1>1, <1>2

LEMMA SetServer ==
    ASSUME TypedJobs, NEW j \in Job, SetJob("server", j)
    PROVE  /\ job' \in [Proc -> Job]
           /\ job'["server"] = j /\ job'["timer"] = job["timer"]
BY SetJobFields DEF TypedJobs, TypeOK, Proc

LEMMA SetTimer ==
    ASSUME TypedJobs, NEW j \in Job, SetJob("timer", j)
    PROVE  /\ job' \in [Proc -> Job]
           /\ job'["timer"] = j /\ job'["server"] = job["server"]
BY SetJobFields DEF TypedJobs, TypeOK, Proc

\* A file operation that is not the last of its job keeps the jobs apart.
LEMMA FileStepApart ==
    ASSUME TypedJobs, NEW p \in Proc, NEW j \in Job, SetJob(p, j),
           UNCHANGED phase,
           job[p].pc \in {"create", "fill", "clear"},
           j.pc \in {"create", "fill", "clear"},
           j.dir = job[p].dir, j.mark = job[p].mark,
           j.pc # "clear" => j.at \in Table,
           j.pc = "clear" => j.dir = "main"
    PROVE  JobsApart'
<1>1. CASE p = "server"
  <2>1. job'["server"] = j /\ job'["timer"] = job["timer"]
    BY <1>1, SetServer
  <2>2. QED
    BY <1>1, <2>1 DEF TypedJobs, JobsApart, Busy, Flushing, Proc
<1>2. CASE p = "timer"
  <2>1. job'["timer"] = j /\ job'["server"] = job["server"]
    BY <1>2, SetTimer
  <2>2. QED
    BY <1>2, <2>1 DEF TypedJobs, JobsApart, Busy, Flushing, Proc
<1>3. QED
  BY <1>1, <1>2 DEF Proc

LEMMA NextTyped == TypedJobs /\ [Next]_vars => TypedJobs'
<1> SUFFICES ASSUME TypedJobs, [Next]_vars PROVE TypedJobs'
  OBVIOUS
<1>0. TypeOK /\ JobsApart
  BY DEF TypedJobs
<1> DEFINE js == job["server"]
           jt == job["timer"]
<1>j. /\ js \in Job /\ jt \in Job
      /\ \A p \in Proc : job[p] \in Job /\ job[p].pc \in Pc /\ job[p].dir \in Dir
           /\ job[p].at \in 1 .. MetaFile
           /\ job[p].snap \in Snapshot /\ job[p].mark \in Mark
  BY <1>0, JobTypes DEF TypeOK, Proc
<1> USE Positions, Names
<1>1. CASE Load
  <2>1. Stored \in Snapshot
    BY <1>0, StoredIsSnapshot
  <2>2. CASE CacheExists /\ window = "due"
    <3> DEFINE w == Writing("main", Stored, "alone")
    <3>1. /\ w \in Job /\ w.pc = "create" /\ w.dir = "main" /\ w.at = 1
          /\ SetJob("server", w)
      BY <1>1, <2>1, <2>2, WritingFields DEF Load
    <3>0. /\ job' \in [Proc -> Job] /\ job'["server"] = w /\ job'["timer"] = jt
          /\ phase = "down" /\ phase' = "loading"
      BY <1>1, <2>2, <3>1, SetServer DEF Load
    <3>2. JobsApart'
      BY <1>0, <3>0, <3>1 DEF JobsApart, Busy, Flushing, Proc
    <3>3. TypeOK'
      BY <1>0, <1>1, <2>1, <2>2, <3>0 DEF Load, TypeOK
    <3>4. QED
      BY <3>2, <3>3 DEF TypedJobs
  <2>3. CASE ~(CacheExists /\ window = "due")
    BY <1>0, <1>1, <2>1, <2>3 DEF Load, TypedJobs, TypeOK, JobsApart, Busy, Flushing, Proc
  <2>4. QED
    BY <2>2, <2>3
<1>2. CASE StartupUnchanged
  BY <1>0, <1>2 DEF StartupUnchanged, TypedJobs, TypeOK, JobsApart, Busy, Flushing
<1>3. CASE StartupSave
  <2> DEFINE s == Saving(mem, "alone")
  <2>1. s \in Job /\ s.pc = "decide" /\ SetJob("server", s)
    BY <1>0, <1>3, SavingFields DEF StartupSave, TypeOK
  <2>0. job' \in [Proc -> Job] /\ job'["server"] = s /\ job'["timer"] = jt
    BY <2>1, SetServer
  <2>2. JobsApart'
    BY <1>0, <1>3, <2>0, <2>1 DEF StartupSave, JobsApart, Busy, Flushing, Proc
  <2>3. TypeOK'
    BY <1>0, <1>3, <2>0 DEF StartupSave, TypeOK
  <2>4. QED
    BY <2>2, <2>3 DEF TypedJobs
<1>4. ASSUME NEW u \in Updates, Handle(u) PROVE TypedJobs'
  <2> DEFINE s == Saving(mem', IF Flushing THEN "disturbed" ELSE "alone")
             d == Disturbed(jt)
  <2>1. mem' \in Snapshot
    BY <1>0, <1>4, MemIsSnapshot DEF Handle
  <2>2. s \in Job /\ s.pc = "decide" /\ s.mark = (IF Flushing THEN "disturbed" ELSE "alone")
    BY <2>1, SavingFields
  <2>3. /\ d \in Job /\ d.pc = jt.pc /\ d.dir = jt.dir /\ d.at = jt.at
        /\ d.mark = "disturbed"
    BY <1>j, DisturbedFields
  <2>4. job' \in [Proc -> Job] /\ job'["server"] = s /\ job'["timer"] = d
    BY <1>0, <1>4, <2>2, <2>3 DEF Handle, TypeOK, Proc
  <2>5. TypeOK'
    BY <1>0, <1>4, <2>1, <2>4 DEF Handle, TypeOK
  <2>6. JobsApart'
    <3>1. phase = "up" /\ phase' = "up"
      BY <1>4 DEF Handle
    <3>2. CASE Flushing
      BY <1>0, <2>2, <2>3, <2>4, <3>1, <3>2 DEF JobsApart, Busy, Flushing, Proc
    <3>3. CASE ~Flushing
      <4>1. jt.pc \in {"idle", "wait"}
        BY <1>0, <3>3 DEF JobsApart, Flushing
      <4>2. QED
        BY <1>0, <2>2, <2>3, <2>4, <3>1, <4>1 DEF JobsApart, Busy, Flushing, Proc
    <3>4. QED
      BY <3>2, <3>3
  <2>7. QED
    BY <2>5, <2>6 DEF TypedJobs
<1>5. CASE Decide
  <2> DEFINE w == Writing("main", js.snap, js.mark)
             m == Moved(js, "meta", 1)
  <2>1. /\ w \in Job /\ w.pc = "create" /\ w.dir = "main" /\ w.at = 1
        /\ w.mark = js.mark
        /\ m \in Job /\ m.pc = "meta" /\ m.mark = js.mark
    <3> js \in Job /\ js.snap \in Snapshot /\ js.mark \in Mark
      BY <1>j
    <3> HIDE DEF js
    <3>1. /\ w \in Job /\ w.pc = "create" /\ w.dir = "main" /\ w.at = 1
          /\ w.mark = js.mark
      BY WritingFields
    <3>2. m \in Job /\ m.pc = "meta" /\ m.mark = js.mark
      BY MovedFields
    <3>3. QED
      BY <3>1, <3>2
  <2>2. SetJob("server", w) \/ SetJob("server", m)
    BY <1>5 DEF Decide
  <2>0. /\ job' \in [Proc -> Job] /\ job'["timer"] = jt
        /\ job'["server"] = w \/ job'["server"] = m
        /\ js.pc = "decide" /\ UNCHANGED phase
    BY <1>5, <2>1, <2>2, SetServer DEF Decide
  <2>3. JobsApart'
    BY <1>0, <2>0, <2>1 DEF JobsApart, Busy, Flushing, Proc
  <2>4. TypeOK'
    BY <1>0, <1>5, <2>0 DEF Decide, TypeOK
  <2>5. QED
    BY <2>3, <2>4 DEF TypedJobs
<1>6. CASE DecideFails
  BY <1>0, <1>6, SaveFailsTyped DEF DecideFails, TypedJobs, TypeOK
<1>7. CASE EnsureCacheWindow \/ StampWindow
  <2> DEFINE w == Writing("cache", js.snap, js.mark)
             m == Moved(js, "stamp", 1)
  <2>1. /\ w \in Job /\ w.pc = "create" /\ w.dir = "cache" /\ w.at = 1
        /\ w.mark = js.mark
        /\ m \in Job /\ m.pc = "stamp" /\ m.mark = js.mark
    <3> js \in Job /\ js.snap \in Snapshot /\ js.mark \in Mark
      BY <1>j
    <3> HIDE DEF js
    <3>1. /\ w \in Job /\ w.pc = "create" /\ w.dir = "cache" /\ w.at = 1
          /\ w.mark = js.mark
      BY WritingFields
    <3>2. m \in Job /\ m.pc = "stamp" /\ m.mark = js.mark
      BY MovedFields
    <3>3. QED
      BY <3>1, <3>2
  <2>2. /\ SetJob("server", w) \/ SetJob("server", m)
        /\ window' \in {window, "torn", "open"}
        /\ js.pc \in {"meta", "stamp"}
        /\ UNCHANGED <<phase, mem, disk, current, requested, acked,
                       crashes, ioFailures, exposure>>
    BY <1>7 DEF EnsureCacheWindow, StampWindow
  <2>0. /\ job' \in [Proc -> Job] /\ job'["timer"] = jt
        /\ job'["server"] = w \/ job'["server"] = m
    BY <2>1, <2>2, SetServer
  <2>3. JobsApart'
    BY <1>0, <2>0, <2>1, <2>2 DEF JobsApart, Busy, Flushing, Proc
  <2>4. TypeOK'
    BY <1>0, <2>0, <2>2 DEF TypeOK
  <2>5. QED
    BY <2>3, <2>4 DEF TypedJobs
<1>8. ASSUME NEW p \in Proc, CreateFile(p) PROVE TypedJobs'
  <2> DEFINE j == job[p]
             m == Moved(j, "fill", j.at)
  <2>0. j \in Job /\ j.at \in 1 .. MetaFile /\ SetJob(p, m)
    BY <1>j, <1>8 DEF CreateFile
  <2>1. /\ m \in Job /\ m.pc = "fill" /\ m.dir = j.dir /\ m.at = j.at
        /\ m.mark = j.mark /\ SetJob(p, m)
    <3> HIDE DEF j
    <3>1. QED
      BY <2>0 DEF Moved, Job, Mark
  <2>2. JobsApart'
    <3>1. j.at \in Table /\ j.pc = "create" /\ UNCHANGED phase
      BY <1>0, <1>8 DEF CreateFile, JobsApart
    <3>2. QED
      BY <2>1, <3>1, FileStepApart
  <2>3. disk' \in [Dir -> [Table -> File]]
    BY <1>0, <1>8 DEF CreateFile, TypeOK, File, Torn
  <2>4. TypeOK'
    BY <1>0, <1>8, <2>1, <2>3, SetJobFields DEF CreateFile, TypeOK
  <2>5. QED
    BY <2>2, <2>4 DEF TypedJobs
<1>9. ASSUME NEW p \in Proc, FillFile(p) PROVE TypedJobs'
  <2> DEFINE j == job[p]
             m == IF j.at < NumTables THEN Moved(j, "create", j.at + 1)
                                      ELSE Moved(j, "clear", 1)
  <2>1. /\ j.at \in Table /\ j.dir \in Dir
        /\ disk[j.dir][j.at] \in File /\ j.snap[j.at] \in SUBSET Updates
    BY <1>0, <1>j, <1>9 DEF FillFile, TypeOK, JobsApart, Snapshot
  <2>2. disk' \in [Dir -> [Table -> File]]
    BY <1>0, <1>9, <2>1, FilledIsFile DEF FillFile, TypeOK
  <2>3. CASE j.at = NumTables /\ j.dir = "cache"
    BY <1>0, <1>9, <2>2, <2>3, DoneTyped DEF FillFile, TypedJobs, TypeOK
  <2>4. CASE ~(j.at = NumTables /\ j.dir = "cache")
    <3>0. j \in Job
      BY <1>j
    <3>1. /\ m \in Job /\ m.dir = j.dir /\ m.mark = j.mark
          /\ \/ m.pc = "create" /\ m.at \in Table
             \/ m.pc = "clear" /\ m.dir = "main"
      <4>1. CASE j.at < NumTables
        <5>1. j.at + 1 \in Table
          BY <2>1, <4>1 DEF Table
        <5>2. QED
          <6> HIDE DEF j
          <6>1. QED
            BY <3>0, <4>1, <5>1 DEF Moved, Job, Mark
      <4>2. CASE ~(j.at < NumTables)
        <5>1. j.dir = "main"
          BY <2>1, <2>4, <4>2 DEF Table, Dir
        <5>2. QED
          <6> HIDE DEF j
          <6>1. QED
            BY <3>0, <4>2, <5>1 DEF Moved, Job, Mark
      <4>3. QED
        BY <4>1, <4>2
    <3>2. SetJob(p, m) /\ UNCHANGED <<exposure, phase, acked, current>>
      BY <1>9, <2>4 DEF FillFile
    <3>3. JobsApart'
      <4>1. j.pc = "fill" /\ UNCHANGED phase
        BY <1>9, <3>2 DEF FillFile
      <4>2. QED
        BY <3>1, <3>2, <4>1, FileStepApart
    <3>4. TypeOK'
      BY <1>0, <1>9, <2>2, <3>1, <3>2, SetJobFields DEF FillFile, TypeOK
    <3>5. QED
      BY <3>3, <3>4 DEF TypedJobs
  <2>5. QED
    BY <2>3, <2>4
<1>10. ASSUME NEW p \in Proc, ClearFile(p) PROVE TypedJobs'
  <2> DEFINE j == job[p]
             m == Moved(j, "clear", j.at + 1)
  <2>0. j \in Job /\ j.at + 1 \in 1 .. MetaFile /\ SetJob(p, m)
    BY <1>j, <1>10 DEF ClearFile
  <2>1. /\ m \in Job /\ m.pc = "clear" /\ m.dir = j.dir /\ m.mark = j.mark
        /\ SetJob(p, m)
    <3> HIDE DEF j
    <3>1. QED
      BY <2>0 DEF Moved, Job, Mark
  <2>2. JobsApart'
    <3>1. j.dir = "main" /\ j.pc = "clear" /\ UNCHANGED phase
      BY <1>0, <1>10 DEF ClearFile, JobsApart
    <3>2. QED
      BY <2>1, <3>1, FileStepApart
  <2>3. disk' \in [Dir -> [Table -> File]]
    BY <1>0, <1>10 DEF ClearFile, TypeOK, File, Missing, Dir
  <2>4. TypeOK'
    BY <1>0, <1>10, <2>1, <2>3, SetJobFields DEF ClearFile, TypeOK
  <2>5. QED
    BY <2>2, <2>4 DEF TypedJobs
<1>11. ASSUME NEW p \in Proc, ClearMeta(p) PROVE TypedJobs'
  BY <1>0, <1>11, DoneTyped DEF ClearMeta, TypedJobs, TypeOK
<1>12. CASE TimerCheck
  <2> DEFINE m == Moved(jt, "wait", 1)
  <2>1. m \in Job /\ m.pc = "wait" /\ SetJob("timer", m)
    BY <1>j, <1>12, MovedFields DEF TimerCheck
  <2>0. job' \in [Proc -> Job] /\ job'["timer"] = m /\ job'["server"] = js
    BY <2>1, SetTimer
  <2>2. JobsApart'
    BY <1>0, <1>12, <2>0, <2>1 DEF TimerCheck, JobsApart, Busy, Flushing, Proc
  <2>3. TypeOK'
    BY <1>0, <1>12, <2>0 DEF TimerCheck, TypeOK
  <2>4. QED
    BY <2>2, <2>3 DEF TypedJobs
<1>13. CASE TimerSnapshot
  <2> DEFINE w == Writing("main", mem, "alone")
  <2>1. /\ w \in Job /\ w.pc = "create" /\ w.dir = "main" /\ w.at = 1
        /\ SetJob("timer", w)
    BY <1>0, <1>13, WritingFields DEF TimerSnapshot, TypeOK
  <2>0. job' \in [Proc -> Job] /\ job'["timer"] = w /\ job'["server"] = js
    BY <2>1, SetTimer
  <2>2. phase = "up"
    BY <1>0, <1>13 DEF TimerSnapshot, JobsApart
  <2>3. JobsApart'
    BY <1>0, <1>13, <2>0, <2>1, <2>2
    DEF TimerSnapshot, LockFree, JobsApart, Busy, Flushing, Proc
  <2>4. TypeOK'
    BY <1>0, <1>13, <2>0 DEF TimerSnapshot, TypeOK
  <2>5. QED
    BY <2>3, <2>4 DEF TypedJobs
<1>14. ASSUME NEW p \in Proc, IoFails(p) PROVE TypedJobs'
  <2>1. ioFailures' \in 0 .. MaxIoFailures
    BY <1>0, <1>14, BoundsAssumption DEF IoFails, TypeOK
  <2>2. CASE p = "server"
    BY <1>0, <1>14, <2>1, <2>2, SaveFailsTyped DEF IoFails, TypedJobs
  <2>3. CASE p = "timer"
    <3>1. SetJob("timer", Idle) /\ UNCHANGED <<phase, mem, current>> /\ phase = "up"
      BY <1>0, <1>14, <2>3 DEF IoFails, JobsApart
    <3>0. job' \in [Proc -> Job] /\ job'["timer"] = Idle /\ job'["server"] = js
      BY <3>1, IdleFields, SetTimer
    <3>2. JobsApart'
      BY <1>0, <3>0, <3>1, IdleFields DEF JobsApart, Busy, Flushing, Proc
    <3>3. TypeOK'
      BY <1>0, <1>14, <2>1, <2>3, <3>0 DEF IoFails, TypeOK
    <3>4. QED
      BY <3>2, <3>3 DEF TypedJobs
  <2>4. QED
    BY <2>2, <2>3 DEF Proc
<1>15. CASE Crash
  <2>1. job' \in [Proc -> Job] /\ \A p \in Proc : job'[p] = Idle
    BY <1>15, AllIdle DEF Crash
  <2>2. TypeOK'
    BY <1>0, <1>15, <2>1, EmptyIsSnapshot, BoundsAssumption DEF Crash, TypeOK
  <2>3. JobsApart'
    BY <2>1, IdleFields DEF JobsApart, Busy, Flushing, Proc
  <2>4. QED
    BY <2>2, <2>3 DEF TypedJobs
<1>16. CASE WindowExpires
  BY <1>0, <1>16 DEF WindowExpires, TypedJobs, TypeOK, JobsApart, Busy, Flushing
<1>17. CASE UNCHANGED vars
  BY <1>0, <1>17 DEF vars, TypedJobs, TypeOK, JobsApart, Busy, Flushing
<1>18. QED
  BY <1>1, <1>2, <1>3, <1>4, <1>5, <1>6, <1>7, <1>8, <1>9, <1>10, <1>11, <1>12,
     <1>13, <1>14, <1>15, <1>16, <1>17
  DEF Next, ServerStep, TimerStep, FileStep, Proc

\* Every step of the cache keeps every variable in its type.
THEOREM TypeCorrect == Spec => []TypeOK
<1>1. TypedJobs => TypeOK
  BY DEF TypedJobs
<1>2. QED
  BY <1>1, InitTyped, NextTyped, PTL DEF Spec

----------------------------------------------------------------------------
(* What the files hold while a job runs. *)

LEMMA InitExposure == Init => Exposure
<1> SUFFICES ASSUME Init PROVE Exposure
  OBVIOUS
<1>1. \A p \in Proc : ~Busy(p) /\ job[p].pc = "idle"
  BY IdleFields DEF Init, Busy
<1>2. Readable
  BY DEF Init, Readable, Missing, ActiveDir, CacheExists, Dir
<1>3. QED
  BY <1>1, <1>2 DEF Exposure, DisturbedExposed, WrittenSoFar, InPlaceExposed, IntactReadable

\* A job that runs alone is the only busy one.
LEMMA AloneIsAlone ==
    ASSUME IInv, NEW p \in Proc, Busy(p), job[p].mark = "alone"
    PROVE  \A q \in Proc : q # p => ~Busy(q)
BY DEF IInv, TypedJobs, JobsApart, Proc

\* Jobs end, the disk stays: a save that fails, a crash, a task that only looks.
LEMMA JobsGone ==
    ASSUME IInv, UNCHANGED <<disk, exposure>>,
           \A p \in Proc : job'[p] = job[p] \/ ~Busy(p)',
           mem' = mem \/ \A p \in Proc : ~Busy(p)'
    PROVE  Exposure'
<1>1. \A p \in Proc : Busy(p)' => Busy(p) /\ job'[p] = job[p] /\ mem' = mem
  BY DEF Busy
<1>2. /\ Readable' <=> Readable
      /\ CacheExists' <=> CacheExists
  BY DEF Readable, ActiveDir, CacheExists
<1>3. DisturbedExposed'
  BY <1>1 DEF IInv, Exposure, DisturbedExposed
<1>4. WrittenSoFar'
  BY <1>1, <1>2 DEF IInv, Exposure, WrittenSoFar, SoFar
<1>5. InPlaceExposed'
  <2>1. \A p \in Proc : job'[p].pc = "fill" => Busy(p)'
    BY DEF Busy
  <2>2. QED
    BY <1>1, <1>2, <2>1 DEF IInv, Exposure, InPlaceExposed
<1>6. IntactReadable'
  BY <1>2 DEF IInv, Exposure, IntactReadable
<1>7. QED
  BY <1>3, <1>4, <1>5, <1>6 DEF Exposure

\* Whatever a disturbed job does, the store was and stays exposed.
LEMMA DisturbedStep ==
    ASSUME IInv, TypedJobs', NEW p \in Proc, Busy(p), job[p].mark = "disturbed",
           exposure' = exposure,
           \A q \in Proc : q # p => job'[q] = job[q],
           job'[p].mark = "disturbed" \/ ~Busy(p)'
    PROVE  Exposure'
<1>1. exposure = "overlap" /\ exposure' = "overlap"
  BY DEF IInv, Exposure, DisturbedExposed
<1>2. \A q \in Proc : Busy(q)' => job'[q].mark = "disturbed"
  <2>1. ASSUME NEW q \in Proc, q # p, Busy(q)' PROVE job'[q].mark = "disturbed"
    <3>1. job'[q] = job[q] /\ Busy(q)
      BY <2>1 DEF Busy
    <3>2. job[q].mark = "disturbed"
      BY <2>1, <3>1 DEF IInv, TypedJobs, JobsApart, Proc
    <3>3. QED
      BY <3>1, <3>2
  <2>2. QED
    BY <2>1
<1>3. QED
  BY <1>1, <1>2
  DEF Exposure, DisturbedExposed, WrittenSoFar, InPlaceExposed, IntactReadable

\* What remains to be shown of a step of a job that runs alone.
LEMMA AloneStep ==
    ASSUME IInv, NEW p \in Proc, Busy(p), job[p].mark = "alone",
           \A q \in Proc : q # p => job'[q] = job[q],
           Busy(p)' => job'[p].mark = "alone" /\ SoFar(job[p])',
           exposure' = "no" /\ job'[p].pc = "fill" => job'[p].dir = "main" /\ CacheExists',
           exposure' = "no" => Readable'
    PROVE  Exposure'
<1>1. \A q \in Proc : q # p => ~Busy(q)'
  BY AloneIsAlone DEF Busy
<1>2. \A q \in Proc : q # p => job'[q].pc # "fill"
  BY <1>1 DEF Busy
<1>3. DisturbedExposed' /\ WrittenSoFar'
  BY <1>1 DEF DisturbedExposed, WrittenSoFar
<1>4. InPlaceExposed'
  BY <1>2 DEF InPlaceExposed
<1>5. QED
  BY <1>3, <1>4 DEF Exposure, IntactReadable

\* A job begins, alone, with nothing written yet.
LEMMA BeginAlone ==
    ASSUME IInv, NEW p \in Proc, UNCHANGED disk, exposure' \in {exposure, "no"},
           exposure' = "no" => Readable,
           \A q \in Proc : q # p => ~Busy(q)',
           job'[p].pc \in {"decide", "create"}, job'[p].at = 1,
           job'[p].mark = "alone", job'[p].snap = mem'
    PROVE  Exposure'
<1>1. \A t \in Table : ~(t < 1)
  BY Positions DEF Table
<1>2. SoFar(job[p])'
  BY <1>1 DEF SoFar
<1>3. \A q \in Proc : job'[q].pc # "fill"
  BY DEF Busy
<1>4. Readable' <=> Readable
  BY DEF Readable, ActiveDir, CacheExists
<1>5. QED
  BY <1>2, <1>3, <1>4
  DEF Exposure, DisturbedExposed, WrittenSoFar, InPlaceExposed, IntactReadable

\* The fields of a job that moved, without the record it is built from.
LEMMA MovedJob ==
    ASSUME TypeOK, NEW p \in Proc, NEW pc \in Pc, NEW at \in 1 .. MetaFile,
           SetJob(p, Moved(job[p], pc, at))
    PROVE  /\ job'[p].pc = pc /\ job'[p].at = at /\ job'[p].dir = job[p].dir
           /\ job'[p].snap = job[p].snap /\ job'[p].mark = job[p].mark
           /\ \A q \in Proc : q # p => job'[q] = job[q]
<1>1. job \in [Proc -> Job] /\ job[p] \in Job
  BY DEF TypeOK
<1>2. Moved(job[p], pc, at) \in Job
  BY <1>1 DEF Moved, Job
<1>3. job'[p] = Moved(job[p], pc, at) /\ \A q \in Proc : q # p => job'[q] = job[q]
  BY <1>1, <1>2, SetJobFields
<1>4. QED
  BY <1>3 DEF Moved

LEMMA CreateExposure ==
    ASSUME IInv, TypedJobs', NEW p \in Proc, CreateFile(p)
    PROVE  Exposure'
<1>0. TypeOK /\ JobsApart /\ job[p].pc = "create" /\ Busy(p)
      /\ job[p].at \in Table /\ job[p].at \in 1 .. MetaFile /\ job[p].dir \in Dir
  BY JobTypes, Positions DEF IInv, TypedJobs, TypeOK, CreateFile, JobsApart, Busy
<1>1. /\ job'[p].pc = "fill" /\ job'[p].at = job[p].at /\ job'[p].dir = job[p].dir
      /\ job'[p].snap = job[p].snap /\ job'[p].mark = job[p].mark
      /\ \A q \in Proc : q # p => job'[q] = job[q]
  BY <1>0, MovedJob, Names DEF CreateFile
<1>2. /\ disk'[job[p].dir][job[p].at] = Torn
      /\ \A d \in Dir : \A t \in Table :
           ~(d = job[p].dir /\ t = job[p].at) => disk'[d][t] = disk[d][t]
      /\ mem' = mem
  BY <1>0 DEF CreateFile, TypeOK
<1>3. CASE job[p].mark = "disturbed"
  <2>1. exposure = "overlap"
    BY <1>0, <1>3 DEF IInv, Exposure, DisturbedExposed
  <2>2. exposure' = exposure
    BY <2>1 DEF CreateFile
  <2>3. QED
    BY <1>0, <1>1, <1>3, <2>2, DisturbedStep
<1>4. CASE job[p].mark = "alone"
  <2>1. SoFar(job[p])
    BY <1>0, <1>4 DEF IInv, Exposure, WrittenSoFar
  <2>2. \A t \in Table : t < job[p].at => t # job[p].at
    BY <1>0 DEF Table
  <2>3. SoFar(job[p])'
    BY <1>0, <1>1, <1>2, <2>1, <2>2 DEF SoFar
  <2>4. exposure' = "no" => exposure = "no" /\ job[p].dir = "main" /\ CacheExists
    BY DEF CreateFile
  <2>5. ASSUME exposure' = "no"
        PROVE  job[p].dir = "main" /\ CacheExists' /\ Readable'
    <3>1. disk'["cache"] = disk["cache"]
      BY <1>0, <2>4, <2>5 DEF CreateFile, TypeOK, Dir
    <3>2. Readable
      BY <2>4, <2>5 DEF IInv, Exposure, IntactReadable
    <3>3. QED
      BY <2>4, <2>5, <3>1, <3>2 DEF Readable, ActiveDir, CacheExists
  <2>6. QED
    BY <1>0, <1>1, <1>4, <2>3, <2>5, AloneStep
<1>5. QED
  BY <1>0, <1>3, <1>4, JobTypes DEF TypeOK, Mark

\* A directory that holds all of memory and that a restart would load.
LEMMA WholeDir ==
    ASSUME mem \in Snapshot, NEW d \in Dir, ActiveDir' = d,
           \A t \in Table : disk'[d][t] = Full(mem[t])
    PROVE  Stored' = mem /\ Readable'
<1>1. \A t \in Table : disk'[d][t].rows = mem[t] /\ disk'[d][t].state = "full"
  BY FullFields
<1>2. Stored' = [t \in Table |-> mem[t]]
  BY <1>1 DEF Stored
<1>3. QED
  BY <1>1, <1>2 DEF Snapshot, Readable

\* The steps of a job that runs alone after which a restart finds what memory
\* holds: the last file of the cache, and every step of clearing it.
LEMMA CommitsMemory ==
    ASSUME IInv, NEW p \in Proc, job[p].mark = "alone",
           \/ FillFile(p) /\ job[p].at = NumTables /\ job[p].dir = "cache"
           \/ ClearFile(p)
           \/ ClearMeta(p)
    PROVE  Stored' = mem /\ Readable' /\ mem' = mem
<1>0. TypeOK /\ JobsApart /\ Busy(p) /\ mem \in Snapshot /\ mem' = mem
  BY DEF IInv, TypedJobs, TypeOK, Busy, FillFile, ClearFile, ClearMeta
<1>1. SoFar(job[p])
  BY <1>0 DEF IInv, Exposure, WrittenSoFar
<1>2. CASE FillFile(p) /\ job[p].at = NumTables /\ job[p].dir = "cache"
  <2>1. /\ NumTables \in Table /\ job[p].pc = "fill"
        /\ disk["cache"][NumTables] = Torn /\ job[p].snap = mem
        /\ \A t \in Table : t # NumTables => disk["cache"][t] = Full(mem[t])
    BY <1>1, <1>2, NumTablesAssumption DEF FillFile, SoFar, Table
  <2>2. disk' = [disk EXCEPT !["cache"][NumTables] = Full(mem[NumTables])]
    BY <1>2, <2>1 DEF FillFile, Filled, Torn
  <2>3. \A t \in Table : disk'["cache"][t] = Full(mem[t])
    BY <1>0, <2>1, <2>2 DEF TypeOK, Dir
  <2>4. \A t \in Table : disk'["cache"][t].state = "full"
    BY <2>3, FullFields
  <2>5. ActiveDir' = "cache"
    BY <2>4, Positions DEF ActiveDir, CacheExists
  <2>6. QED
    BY <1>0, <2>3, <2>5, WholeDir, Names
<1>3. CASE ClearFile(p)
  <2>1. \A t \in Table : disk'["main"][t] = Full(mem[t])
    <3>1. disk'["main"] = disk["main"]
      BY <1>0, <1>3 DEF ClearFile, TypeOK, Dir
    <3>2. QED
      BY <1>1, <1>3, <3>1 DEF SoFar, ClearFile
  <2>2. ~CacheExists'
    <3>1. /\ disk["cache"] \in [Table -> File]
          /\ disk'["cache"] = [disk["cache"] EXCEPT ![job[p].at] = Missing]
          /\ job[p].at \in Table
      BY <1>0, <1>3 DEF ClearFile, TypeOK, Dir
    <3>2. CASE job[p].at = 1
      BY <3>1, <3>2, Positions DEF CacheExists, Missing
    <3>3. CASE job[p].at # 1
      <4>1. job[p].at > 1
        BY <3>1, <3>3 DEF Table
      <4>2. ~CacheExists
        BY <1>1, <1>3, <4>1 DEF SoFar, ClearFile
      <4>3. QED
        BY <3>1, <3>3, <4>2, Positions DEF CacheExists
    <3>4. QED
      BY <3>2, <3>3
  <2>3. ActiveDir' = "main"
    BY <2>2 DEF ActiveDir
  <2>4. QED
    BY <1>0, <2>1, <2>3, WholeDir, Names
<1>4. CASE ClearMeta(p)
  <2>1. disk' = disk /\ job[p].pc = "clear" /\ job[p].at > 1
    BY <1>4, NumTablesAssumption DEF ClearMeta, MetaFile
  <2>2. ~CacheExists /\ \A t \in Table : disk'["main"][t] = Full(mem[t])
    BY <1>1, <2>1 DEF SoFar
  <2>3. ActiveDir' = "main"
    BY <2>1, <2>2 DEF ActiveDir, CacheExists
  <2>4. QED
    BY <1>0, <2>2, <2>3, WholeDir, Names
<1>5. QED
  BY <1>2, <1>3, <1>4

\* A job that ends alone has left a directory that a restart reads whole.
LEMMA DoneExposure ==
    ASSUME IInv, TypedJobs', NEW p \in Proc, Busy(p), Done(p), mem' = mem,
           job[p].mark = "alone" => Readable'
    PROVE  Exposure'
<1>1. job'[p] = Idle /\ \A q \in Proc : q # p => job'[q] = job[q]
  BY SetJobFields, IdleFields DEF Done, IInv, TypedJobs, TypeOK
<1>2. ~Busy(p)' /\ job'[p].pc # "fill"
  BY <1>1, IdleFields DEF Busy
<1>3. CASE job[p].mark = "disturbed"
  BY <1>1, <1>2, <1>3, DisturbedStep DEF Done
<1>4. CASE job[p].mark = "alone"
  BY <1>1, <1>2, <1>4, AloneStep
<1>5. QED
  BY <1>3, <1>4, JobTypes DEF IInv, TypedJobs, TypeOK, Mark

LEMMA FillExposure ==
    ASSUME IInv, TypedJobs', NEW p \in Proc, FillFile(p)
    PROVE  Exposure'
<1> DEFINE d == job[p].dir
           i == job[p].at
<1>0. TypeOK /\ JobsApart /\ job[p].pc = "fill" /\ Busy(p) /\ mem' = mem
      /\ i \in Table /\ d \in Dir
  BY JobTypes DEF IInv, TypedJobs, TypeOK, FillFile, JobsApart, Busy
<1>1. PICK f \in Filled(disk[d][i], job[p].snap[i]) : disk' = [disk EXCEPT ![d][i] = f]
  BY DEF FillFile
<1>2. /\ disk'[d][i] = f
      /\ \A e \in Dir : \A t \in Table : ~(e = d /\ t = i) => disk'[e][t] = disk[e][t]
  BY <1>0, <1>1 DEF TypeOK
<1>3. ASSUME job[p].mark = "alone"
      PROVE  /\ SoFar(job[p])
             /\ f = Full(mem[i])
             /\ \A t \in Table : t < i + 1 => disk'[d][t] = Full(mem[t])
  <2>1. SoFar(job[p])
    BY <1>0, <1>3 DEF IInv, Exposure, WrittenSoFar
  <2>2. f = Full(mem[i])
    <3>1. disk[d][i].state = "torn" /\ job[p].snap[i] = mem[i]
      BY <1>0, <2>1 DEF SoFar, Torn
    <3>2. Filled(disk[d][i], job[p].snap[i]) = {Full(mem[i])}
      BY <3>1 DEF Filled
    <3> QED BY <1>1, <3>2
  <2>3. \A t \in Table : t < i + 1 => t < i \/ t = i
    BY <1>0 DEF Table
  <2>4. \A t \in Table : t < i => t # i
    BY <1>0 DEF Table
  <2>5. QED
    BY <1>0, <1>2, <2>1, <2>2, <2>3, <2>4 DEF SoFar
<1>4. CASE i = NumTables /\ d = "cache"
  <2>1. Done(p)
    BY <1>4 DEF FillFile
  <2>2. job[p].mark = "alone" => Readable'
    BY <1>4, CommitsMemory
  <2>3. QED
    BY <1>0, <2>1, <2>2, DoneExposure
<1>5. CASE ~(i = NumTables /\ d = "cache")
  <2>1. /\ SetJob(p, IF i < NumTables THEN Moved(job[p], "create", i + 1)
                                      ELSE Moved(job[p], "clear", 1))
        /\ exposure' = exposure
    BY <1>5 DEF FillFile
  <2>2. /\ job'[p].dir = d /\ job'[p].snap = job[p].snap /\ job'[p].mark = job[p].mark
        /\ \A q \in Proc : q # p => job'[q] = job[q]
        /\ \/ job'[p].pc = "create" /\ job'[p].at = i + 1
           \/ job'[p].pc = "clear" /\ job'[p].at = 1 /\ i = NumTables
    <3>1. CASE i < NumTables
      <4>1. i + 1 \in 1 .. MetaFile /\ "create" \in Pc
        BY <1>0, Positions, Names
      <4>2. SetJob(p, Moved(job[p], "create", i + 1))
        BY <2>1, <3>1
      <4>3. \A at \in 1 .. MetaFile : SetJob(p, Moved(job[p], "create", at)) =>
              /\ job'[p].dir = d /\ job'[p].snap = job[p].snap
              /\ job'[p].mark = job[p].mark
              /\ \A q \in Proc : q # p => job'[q] = job[q]
              /\ job'[p].pc = "create" /\ job'[p].at = at
        BY <1>0, MovedJob, Names
      <4> HIDE DEF i
      <4>4. QED
        BY <4>1, <4>2, <4>3
    <3>2. CASE ~(i < NumTables)
      <4>1. i = NumTables
        BY <1>0, <3>2, Positions DEF Table
      <4>2. QED
        BY <1>0, <2>1, <3>2, <4>1, MovedJob, Positions, Names
    <3>3. QED
      BY <3>1, <3>2
  <2>3. CASE job[p].mark = "disturbed"
    BY <1>0, <2>1, <2>2, <2>3, DisturbedStep
  <2>4. CASE job[p].mark = "alone"
    <3>1. ASSUME job'[p].pc = "clear"
          PROVE  \A t \in Table : disk'["main"][t] = Full(mem[t])
      <4>1. i = NumTables /\ d = "main"
        BY <1>0, <1>5, <2>2, <3>1 DEF Dir
      <4>2. QED
        BY <1>3, <2>4, <4>1, Positions DEF Table
    <3>2. SoFar(job[p])'
      <4>1. job'[p].snap = mem
        BY <1>3, <2>2, <2>4 DEF SoFar
      <4>2. job'[p].pc = "create" =>
              \A t \in Table : t < job'[p].at => disk'[job'[p].dir][t] = Full(mem[t])
        BY <1>3, <2>2, <2>4
      <4>3. ~(job'[p].at > 1) \/ job'[p].pc = "create"
        BY <2>2
      <4>4. QED
        BY <1>0, <2>2, <3>1, <4>1, <4>2, <4>3 DEF SoFar
    <3>3. job'[p].pc # "fill"
      BY <2>2
    <3>4. ASSUME exposure' = "no" PROVE Readable'
      <4>1. d = "main" /\ CacheExists /\ Readable
        BY <1>0, <2>1, <3>4 DEF IInv, Exposure, InPlaceExposed, IntactReadable
      <4>2. disk'["cache"] = disk["cache"]
        BY <1>0, <1>1, <4>1 DEF TypeOK, Dir
      <4>3. QED
        BY <4>1, <4>2 DEF Readable, ActiveDir, CacheExists
    <3>5. QED
      BY <1>0, <2>2, <2>4, <3>2, <3>3, <3>4, AloneStep
  <2>5. QED
    BY <1>0, <2>3, <2>4, JobTypes DEF TypeOK, Mark
<1>6. QED
  BY <1>4, <1>5

LEMMA ClearExposure ==
    ASSUME IInv, TypedJobs', NEW p \in Proc, ClearFile(p)
    PROVE  Exposure'
<1> DEFINE i == job[p].at
<1>0. TypeOK /\ JobsApart /\ job[p].pc = "clear" /\ Busy(p) /\ i \in Table
      /\ mem' = mem /\ exposure' = exposure
  BY DEF IInv, TypedJobs, ClearFile, Busy
<1>1. /\ job'[p].pc = "clear" /\ job'[p].at = i + 1
      /\ job'[p].snap = job[p].snap /\ job'[p].mark = job[p].mark
      /\ \A q \in Proc : q # p => job'[q] = job[q]
  <2>1. i + 1 \in 1 .. MetaFile /\ SetJob(p, Moved(job[p], "clear", i + 1))
    BY <1>0, Positions DEF ClearFile
  <2>2. \A at \in 1 .. MetaFile : SetJob(p, Moved(job[p], "clear", at)) =>
          /\ job'[p].pc = "clear" /\ job'[p].at = at
          /\ job'[p].snap = job[p].snap /\ job'[p].mark = job[p].mark
          /\ \A q \in Proc : q # p => job'[q] = job[q]
    BY <1>0, MovedJob, Names
  <2> HIDE DEF i
  <2>3. QED
    BY <2>1, <2>2
<1>2. /\ disk'["main"] = disk["main"]
      /\ disk'["cache"] = [disk["cache"] EXCEPT ![i] = Missing]
  BY <1>0 DEF ClearFile, TypeOK, Dir
<1>3. CASE job[p].mark = "disturbed"
  BY <1>0, <1>1, <1>3, DisturbedStep
<1>4. CASE job[p].mark = "alone"
  <2>1. SoFar(job[p])
    BY <1>0, <1>4 DEF IInv, Exposure, WrittenSoFar
  <2>2. ~CacheExists'
    <3>1. disk["cache"] \in [Table -> File]
      BY <1>0 DEF TypeOK, Dir
    <3>2. CASE i = 1
      BY <1>2, <3>1, <3>2, Positions DEF CacheExists, Missing
    <3>3. CASE i # 1
      <4>1. i > 1
        BY <1>0, <3>3 DEF Table
      <4>2. ~CacheExists
        BY <1>0, <2>1, <4>1 DEF SoFar
      <4>3. QED
        BY <1>2, <3>1, <3>3, <4>2, Positions DEF CacheExists
    <3>4. QED
      BY <3>2, <3>3
  <2>3. \A t \in Table : disk'["main"][t] = Full(mem[t])
    BY <1>0, <1>2, <2>1 DEF SoFar
  <2>4. SoFar(job[p])'
    BY <1>0, <1>1, <2>1, <2>2, <2>3 DEF SoFar
  <2>5. Readable'
    BY <1>4, CommitsMemory
  <2>6. QED
    BY <1>0, <1>1, <1>4, <2>4, <2>5, AloneStep
<1>5. QED
  BY <1>0, <1>3, <1>4, JobTypes DEF TypeOK, Mark

LEMMA MetaExposure ==
    ASSUME IInv, TypedJobs', NEW p \in Proc, ClearMeta(p)
    PROVE  Exposure'
<1>1. Busy(p) /\ Done(p) /\ mem' = mem
  BY DEF ClearMeta, Busy
<1>2. job[p].mark = "alone" => Readable'
  BY CommitsMemory
<1>3. QED
  BY <1>1, <1>2, DoneExposure

\* The steps of a save between its decision and its first file.
LEMMA DecidedExposure ==
    ASSUME IInv, TypedJobs', Decide \/ EnsureCacheWindow \/ StampWindow
    PROVE  Exposure'
<1> DEFINE js == job["server"]
<1>0. TypeOK /\ js \in Job /\ js.pc \in {"decide", "meta", "stamp"} /\ Busy("server")
      /\ js.snap \in Snapshot /\ js.mark \in Mark
      /\ UNCHANGED <<mem, disk, exposure>>
  BY JobTypes DEF IInv, TypedJobs, TypeOK, Decide, EnsureCacheWindow, StampWindow, Proc, Busy
<1>1. \/ \E d \in Dir : SetJob("server", Writing(d, js.snap, js.mark))
      \/ \E pc \in {"meta", "stamp"} : SetJob("server", Moved(js, pc, 1))
  BY Names DEF Decide, EnsureCacheWindow, StampWindow
<1>2. /\ job'["server"].pc \in {"create", "meta", "stamp"} /\ job'["server"].at = 1
      /\ job'["server"].snap = js.snap /\ job'["server"].mark = js.mark
      /\ \A q \in Proc : q # "server" => job'[q] = job[q]
  <2>1. ASSUME NEW d \in Dir, SetJob("server", Writing(d, js.snap, js.mark))
        PROVE  /\ job'["server"].pc = "create" /\ job'["server"].at = 1
               /\ job'["server"].snap = js.snap /\ job'["server"].mark = js.mark
               /\ \A q \in Proc : q # "server" => job'[q] = job[q]
    <3>1. job \in [Proc -> Job] /\ "server" \in Proc
      BY <1>0, Names DEF TypeOK
    <3>2. /\ Writing(d, js.snap, js.mark) \in Job
          /\ Writing(d, js.snap, js.mark).pc = "create"
          /\ Writing(d, js.snap, js.mark).at = 1
          /\ Writing(d, js.snap, js.mark).snap = js.snap
          /\ Writing(d, js.snap, js.mark).mark = js.mark
      <4>1. js.snap \in Snapshot /\ js.mark \in Mark
        BY <1>0
      <4> HIDE DEF js
      <4>2. QED
        BY <4>1, WritingFields
    <3>3. /\ job'["server"] = Writing(d, js.snap, js.mark)
          /\ \A q \in Proc : q # "server" => job'[q] = job[q]
      BY <2>1, <3>1, <3>2, SetJobFields
    <3>4. QED
      BY <3>2, <3>3
  <2>2. ASSUME NEW pc \in {"meta", "stamp"}, SetJob("server", Moved(js, pc, 1))
        PROVE  /\ job'["server"].pc = pc /\ job'["server"].at = 1
               /\ job'["server"].snap = js.snap /\ job'["server"].mark = js.mark
               /\ \A q \in Proc : q # "server" => job'[q] = job[q]
    BY <1>0, <2>2, MovedJob, Names, Positions DEF Pc
  <2>3. QED
    BY <1>1, <2>1, <2>2
<1>3. CASE js.mark = "disturbed"
  BY <1>0, <1>2, <1>3, Names, DisturbedStep
<1>4. CASE js.mark = "alone"
  <2>1. SoFar(js)
    BY <1>0, <1>4, Names DEF IInv, Exposure, WrittenSoFar
  <2>2. \A t \in Table : ~(t < 1)
    BY DEF Table
  <2>3. SoFar(job["server"])'
    BY <1>0, <1>2, <2>1, <2>2 DEF SoFar
  <2>4. exposure' = "no" => Readable'
    BY <1>0 DEF IInv, Exposure, IntactReadable, Readable, ActiveDir, CacheExists
  <2>5. QED
    BY <1>0, <1>2, <1>4, <2>3, <2>4, Names, AloneStep
<1>5. QED
  BY <1>0, <1>3, <1>4 DEF Mark

\* A job begins on what memory holds: the startup save and flush, a handler's save
\* while nothing is written, the clone of the flush task.
LEMMA BegunExposure ==
    ASSUME IInv, TypedJobs',
           Load \/ StartupSave \/ TimerSnapshot
    PROVE  Exposure'
<1>0. TypeOK /\ JobsApart /\ UNCHANGED disk /\ job \in [Proc -> Job]
  BY DEF IInv, TypedJobs, TypeOK, Load, StartupSave, TimerSnapshot
<1>1. CASE Load
  <2>1. \A p \in Proc : ~Busy(p)
    BY <1>0, <1>1 DEF Load, JobsApart, Busy
  <2>2. Readable /\ exposure' = "no"
    BY <1>1 DEF Load
  <2>3. CASE job' = job
    <3>1. \A p \in Proc : ~Busy(p)' /\ job'[p].pc # "fill"
      BY <2>1, <2>3 DEF Busy
    <3>2. Readable'
      BY <1>0, <2>2 DEF Readable, ActiveDir, CacheExists
    <3>3. QED
      BY <3>1, <3>2
      DEF Exposure, DisturbedExposed, WrittenSoFar, InPlaceExposed, IntactReadable
  <2>4. CASE SetJob("server", Writing("main", Stored, "alone"))
    <3> DEFINE w == Writing("main", Stored, "alone")
    <3>1. w \in Job /\ w.pc = "create" /\ w.at = 1 /\ w.snap = Stored /\ w.mark = "alone"
      BY <1>0, StoredIsSnapshot, WritingFields, Names
    <3>2. job'["server"] = w /\ \A q \in Proc : q # "server" => job'[q] = job[q]
      BY <1>0, <2>4, <3>1, SetJobFields, Names
    <3>3. \A q \in Proc : q # "server" => ~Busy(q)'
      BY <2>1, <3>2 DEF Busy
    <3>4. mem' = Stored
      BY <1>1 DEF Load
    <3>5. QED
      BY <1>0, <2>2, <3>1, <3>2, <3>3, <3>4, Names, BeginAlone
  <2>5. QED
    BY <1>1, <2>3, <2>4 DEF Load
<1>2. CASE StartupSave
  <2> DEFINE w == Saving(mem, "alone")
  <2>1. /\ SetJob("server", w) /\ mem' = mem /\ exposure' = exposure
        /\ phase # "up" /\ mem \in Snapshot
    BY <1>0, <1>2 DEF StartupSave, TypeOK
  <2>2. w \in Job /\ w.pc = "decide" /\ w.at = 1 /\ w.snap = mem /\ w.mark = "alone"
    <3>1. w \in Job /\ w.pc = "decide" /\ w.snap = mem /\ w.mark = "alone"
      BY <2>1, SavingFields, Names
    <3>2. w.at = 1
      BY DEF Saving, Begun
    <3>3. QED
      BY <3>1, <3>2
  <2>3. job'["server"] = w /\ \A q \in Proc : q # "server" => job'[q] = job[q]
    BY <1>0, <2>1, <2>2, SetJobFields, Names
  <2>4. \A q \in Proc : q # "server" => ~Busy(q)'
    BY <1>0, <2>1, <2>3 DEF JobsApart, Busy, Proc
  <2>5. exposure' = "no" => Readable
    BY <2>1 DEF IInv, Exposure, IntactReadable
  <2>6. QED
    BY <1>0, <2>1, <2>2, <2>3, <2>4, <2>5, Names, BeginAlone
<1>3. CASE TimerSnapshot
  <2> DEFINE w == Writing("main", mem, "alone")
  <2>1. /\ SetJob("timer", w) /\ mem' = mem /\ exposure' = exposure
        /\ job["server"].pc = "idle" /\ mem \in Snapshot
    BY <1>0, <1>3 DEF TimerSnapshot, LockFree, TypeOK
  <2>2. w \in Job /\ w.pc = "create" /\ w.at = 1 /\ w.snap = mem /\ w.mark = "alone"
    BY <2>1, WritingFields, Names
  <2>3. job'["timer"] = w /\ \A q \in Proc : q # "timer" => job'[q] = job[q]
    BY <1>0, <2>1, <2>2, SetJobFields, Names
  <2>4. \A q \in Proc : q # "timer" => ~Busy(q)'
    BY <2>1, <2>3 DEF Busy, Proc
  <2>5. exposure' = "no" => Readable
    BY <2>1 DEF IInv, Exposure, IntactReadable
  <2>6. QED
    BY <1>0, <2>1, <2>2, <2>3, <2>4, <2>5, Names, BeginAlone
<1>4. QED
  BY <1>1, <1>2, <1>3

\* A handler's save starts while no flush writes, or exposes the store.
LEMMA HandleExposure ==
    ASSUME IInv, TypedJobs', NEW u \in Updates, Handle(u)
    PROVE  Exposure'
<1> DEFINE mark == IF Flushing THEN "disturbed" ELSE "alone"
           s == Saving(mem', mark)
           d == Disturbed(job["timer"])
<1>0. /\ TypeOK /\ JobsApart /\ UNCHANGED disk /\ phase = "up"
      /\ mem' \in Snapshot /\ job["timer"] \in Job
  BY MemIsSnapshot DEF IInv, TypedJobs, TypeOK, Handle, Proc
<1>1. s \in Job /\ s.pc = "decide" /\ s.at = 1 /\ s.snap = mem' /\ s.mark = mark
  <2>1. s \in Job /\ s.pc = "decide" /\ s.snap = mem' /\ s.mark = mark
    BY <1>0, SavingFields, Names
  <2>2. s.at = 1
    BY DEF Saving, Begun
  <2>3. QED
    BY <2>1, <2>2
<1>2. d \in Job /\ d.pc = job["timer"].pc /\ d.mark = "disturbed"
  BY <1>0, DisturbedFields
<1>3. job'["server"] = s /\ job'["timer"] = d
  BY <1>0, <1>1, <1>2 DEF Handle, TypeOK, Proc
<1>4. CASE Flushing
  <2>1. exposure' = "overlap" /\ \A p \in Proc : job'[p].mark = "disturbed"
    BY <1>1, <1>2, <1>3, <1>4 DEF Handle, Proc
  <2>2. QED
    BY <2>1 DEF Exposure, DisturbedExposed, WrittenSoFar, InPlaceExposed, IntactReadable
<1>5. CASE ~Flushing
  <2>1. exposure' = exposure /\ job'["server"].mark = "alone"
    BY <1>1, <1>3, <1>5 DEF Handle
  <2>2. \A q \in Proc : q # "server" => ~Busy(q)'
    BY <1>0, <1>2, <1>3, <1>5 DEF JobsApart, Flushing, Busy, Proc
  <2>3. exposure' = "no" => Readable
    BY <2>1 DEF IInv, Exposure, IntactReadable
  <2>4. QED
    BY <1>0, <1>1, <1>3, <2>1, <2>2, <2>3, Names, BeginAlone
<1>6. QED
  BY <1>4, <1>5

LEMMA GoneExposure ==
    ASSUME IInv, TypedJobs',
           \/ StartupUnchanged \/ DecideFails \/ TimerCheck \/ Crash \/ WindowExpires
           \/ UNCHANGED vars
           \/ \E p \in Proc : IoFails(p)
    PROVE  Exposure'
<1>0. TypeOK /\ JobsApart /\ job \in [Proc -> Job] /\ UNCHANGED <<disk, exposure>>
  BY DEF IInv, TypedJobs, TypeOK, StartupUnchanged, DecideFails, TimerCheck, Crash,
         WindowExpires, vars, IoFails
<1>1. ASSUME job' = [p \in Proc |-> Idle] PROVE \A p \in Proc : ~Busy(p)'
  BY <1>1, AllIdle, IdleFields DEF Busy
<1>2. ASSUME NEW p \in Proc, SetJob(p, Idle)
      PROVE  \A q \in Proc : job'[q] = job[q] \/ ~Busy(q)'
  <2>1. job'[p] = Idle /\ \A q \in Proc : q # p => job'[q] = job[q]
    BY <1>0, <1>2, SetJobFields, IdleFields
  <2>2. QED
    BY <2>1, IdleFields DEF Busy
<1>3. ASSUME SaveFails
      PROVE  /\ \A q \in Proc : job'[q] = job[q] \/ ~Busy(q)'
             /\ mem' = mem \/ \A q \in Proc : ~Busy(q)'
  BY <1>1, <1>2, <1>3, Names DEF SaveFails
<1>4. ASSUME TimerCheck
      PROVE  \A q \in Proc : job'[q] = job[q] \/ ~Busy(q)'
  <2>1. job'["timer"].pc = "wait" /\ job'["server"] = job["server"]
    BY <1>0, <1>4, MovedJob, Names, Positions DEF TimerCheck
  <2>2. QED
    BY <2>1 DEF Busy, Proc
<1>5. /\ \A q \in Proc : job'[q] = job[q] \/ ~Busy(q)'
      /\ mem' = mem \/ \A q \in Proc : ~Busy(q)'
  <2>1. CASE StartupUnchanged \/ WindowExpires \/ UNCHANGED vars
    BY <2>1 DEF StartupUnchanged, WindowExpires, vars
  <2>2. CASE DecideFails
    BY <1>3, <2>2 DEF DecideFails
  <2>3. CASE TimerCheck
    BY <1>4, <2>3 DEF TimerCheck
  <2>4. CASE Crash
    BY <1>1, <2>4 DEF Crash
  <2>5. ASSUME NEW p \in Proc, IoFails(p)
        PROVE  /\ \A q \in Proc : job'[q] = job[q] \/ ~Busy(q)'
               /\ mem' = mem \/ \A q \in Proc : ~Busy(q)'
    BY <1>2, <1>3, <2>5, Names DEF IoFails
  <2>6. QED
    BY <2>1, <2>2, <2>3, <2>4, <2>5
<1>6. QED
  BY <1>0, <1>5, JobsGone

LEMMA NextExposure == IInv /\ TypedJobs' /\ [Next]_vars => Exposure'
<1> SUFFICES ASSUME IInv, TypedJobs', [Next]_vars PROVE Exposure'
  OBVIOUS
<1>1. CASE Load \/ StartupSave \/ TimerSnapshot
  BY <1>1, BegunExposure
<1>2. CASE Decide \/ EnsureCacheWindow \/ StampWindow
  BY <1>2, DecidedExposure
<1>3. ASSUME NEW u \in Updates, Handle(u) PROVE Exposure'
  BY <1>3, HandleExposure
<1>4. ASSUME NEW p \in Proc, FileStep(p) PROVE Exposure'
  BY <1>4, CreateExposure, FillExposure, ClearExposure, MetaExposure DEF FileStep
<1>5. CASE \/ StartupUnchanged \/ DecideFails \/ TimerCheck \/ Crash \/ WindowExpires
           \/ UNCHANGED vars
           \/ \E p \in Proc : IoFails(p)
  BY <1>5, GoneExposure
<1>6. QED
  BY <1>1, <1>2, <1>3, <1>4, <1>5, Names DEF Next, ServerStep, TimerStep

\* The inductive invariant: typed jobs that stay apart, and files that hold what
\* the position of a job that runs alone says.
THEOREM Inductive == Spec => []IInv
<1>1. Init => IInv
  BY InitTyped, InitExposure DEF IInv
<1>2. IInv /\ [Next]_vars => IInv'
  BY NextTyped, NextExposure DEF IInv
<1>3. QED
  BY <1>1, <1>2, PTL DEF Spec

\* While the store is intact, a restart can read every table of the directory it
\* would load, wherever a save, a flush or a startup was interrupted.
THEOREM IntactIsReadable == Spec => []IntactReadable
<1>1. IInv => IntactReadable
  BY DEF IInv, Exposure
<1>2. QED
  BY <1>1, Inductive, PTL

----------------------------------------------------------------------------
(* The files, jobs and crashes implement the atomic store. *)

\* What each kind of step looks like to the store.
LEMMA StoreStutters ==
    ASSUME (phase # "down") = (phase' # "down"), mem' = mem,
           (exposure = "no") = (exposure' = "no"), Content' = Content
    PROVE  UNCHANGED Store!storeVars
BY DEF Store!storeVars

LEMMA StoreCommits ==
    ASSUME phase # "down", phase' # "down", mem' = mem,
           exposure' = "no", Stored' = mem
    PROVE  Store!Next
<1>1. Store!Commit
  BY DEF Store!Commit, Content
<1>2. QED
  BY <1>1 DEF Store!Next

LEMMA StoreExposed ==
    ASSUME phase # "down", phase' # "down", mem' = mem, exposure' # "no"
    PROVE  Store!Next
<1>1. Store!Expose
  BY DEF Store!Expose, Content, Empty, Store!NoRows, Table
<1>2. QED
  BY <1>1 DEF Store!Next

LEMMA StoreDies ==
    ASSUME phase # "down", phase' = "down", mem' = Empty,
           exposure' = exposure, disk' = disk
    PROVE  Store!Next
<1>1. Content' = Content
  BY DEF Content, Stored, ActiveDir, CacheExists
<1>2. Store!Die
  BY <1>1 DEF Store!Die, Empty, Store!NoRows, Table
<1>3. QED
  BY <1>2 DEF Store!Next

LEMMA StoreBoots ==
    ASSUME TypeOK, Load
    PROVE  Store!Next
<1>1. /\ phase = "down" /\ phase' # "down" /\ exposure' = "no" /\ mem' = Stored
      /\ disk' = disk
  BY DEF Load
<1>2. Stored' = Stored /\ Stored \in Snapshot
  BY <1>1, StoredIsSnapshot DEF Stored, ActiveDir, CacheExists
<1>3. Content' = Stored /\ (exposure = "no" => Content = Stored)
  BY <1>1, <1>2 DEF Content
<1>4. Store!Boot
  BY <1>1, <1>2, <1>3 DEF Store!Boot, Store!StoreSnapshot, Snapshot, Table
<1>5. QED
  BY <1>4 DEF Store!Next

LEMMA StoreApplies ==
    ASSUME NEW u \in Updates, Handle(u)
    PROVE  Store!Next
<1>1. /\ phase # "down" /\ phase' # "down" /\ mem' = Store!With(mem, u) /\ disk' = disk
  BY DEF Handle, Store!With, Table
<1>2. CASE Flushing
  <2>1. exposure' = "overlap"
    BY <1>2 DEF Handle
  <2>2. Store!ApplyExposed(u)
    BY <1>1, <2>1 DEF Store!ApplyExposed, Content, Empty, Store!NoRows, Table
  <2>3. QED
    BY <2>2 DEF Store!Next
<1>3. CASE ~Flushing
  <2>1. exposure' = exposure
    BY <1>3 DEF Handle
  <2>2. Content' = Content
    BY <1>1, <2>1 DEF Content, Stored, ActiveDir, CacheExists
  <2>3. Store!Apply(u)
    BY <1>1, <2>1, <2>2 DEF Store!Apply
  <2>4. QED
    BY <2>3 DEF Store!Next
<1>4. QED
  BY <1>2, <1>3

LEMMA UpWhileBusy ==
    ASSUME IInv, NEW p \in Proc, Busy(p) PROVE phase # "down"
BY DEF IInv, TypedJobs, JobsApart, Busy

\* A step that touches no file of an intact store.
LEMMA StoredKept ==
    ASSUME IInv, disk' = disk \/ (disk'["cache"] = disk["cache"] /\ CacheExists)
    PROVE  Stored' = Stored
BY DEF Stored, ActiveDir, CacheExists

LEMMA StoreFileStep ==
    ASSUME IInv, NEW p \in Proc, FileStep(p)
    PROVE  Store!Next \/ UNCHANGED Store!storeVars
<1>0. TypeOK /\ JobsApart /\ job[p].mark \in Mark /\ job[p].dir \in Dir
      /\ Busy(p) /\ phase # "down" /\ mem' = mem
  <2>1. Busy(p) /\ mem' = mem
    BY DEF FileStep, CreateFile, FillFile, ClearFile, ClearMeta, Busy
  <2>2. QED
    BY <2>1, UpWhileBusy, JobTypes DEF IInv, TypedJobs, TypeOK
<1>1. ASSUME Done(p) PROVE phase' # "down"
  BY <1>0, <1>1 DEF Done
<1>2. ASSUME Done(p), job[p].mark = "alone", Stored' = mem PROVE Store!Next
  BY <1>0, <1>1, <1>2, StoreCommits DEF Done
<1>3. ASSUME job[p].mark = "disturbed" PROVE exposure = "overlap"
  BY <1>0, <1>3 DEF IInv, Exposure, DisturbedExposed
<1>4. ASSUME job[p].mark = "disturbed", exposure' = exposure, phase' # "down"
      PROVE  UNCHANGED Store!storeVars
  BY <1>0, <1>3, <1>4, StoreStutters DEF Content, Empty
<1>5. CASE CreateFile(p)
  <2>1. phase' = phase
    BY <1>5 DEF CreateFile
  <2>2. CASE exposure' # "no"
    BY <1>0, <2>1, <2>2, StoreExposed
  <2>3. CASE exposure' = "no"
    <3>1. exposure = "no" /\ job[p].dir = "main" /\ CacheExists
      BY <1>5, <2>3 DEF CreateFile
    <3>2. disk'["cache"] = disk["cache"]
      BY <1>0, <1>5, <3>1 DEF CreateFile, TypeOK, Dir
    <3>3. Content' = Content
      BY <2>3, <3>1, <3>2, StoredKept DEF Content
    <3>4. QED
      BY <1>0, <2>1, <2>3, <3>1, <3>3, StoreStutters
  <2>4. QED
    BY <2>2, <2>3
<1>6. CASE FillFile(p)
  <2>1. CASE job[p].at = NumTables /\ job[p].dir = "cache"
    <3>1. Done(p)
      BY <1>6, <2>1 DEF FillFile
    <3>2. CASE job[p].mark = "alone"
      BY <1>2, <1>6, <2>1, <3>1, <3>2, CommitsMemory
    <3>3. CASE job[p].mark = "disturbed"
      BY <1>1, <1>4, <3>1, <3>3 DEF Done
    <3>4. QED
      BY <1>0, <3>2, <3>3 DEF Mark
  <2>2. CASE ~(job[p].at = NumTables /\ job[p].dir = "cache")
    <3>1. exposure' = exposure /\ phase' = phase /\ job[p].pc = "fill"
      BY <1>6, <2>2 DEF FillFile
    <3>2. CASE exposure = "no"
      <4>1. job[p].dir = "main" /\ CacheExists
        BY <3>1, <3>2 DEF IInv, Exposure, InPlaceExposed
      <4>2. PICK f : disk' = [disk EXCEPT !["main"][job[p].at] = f]
        BY <1>6, <4>1 DEF FillFile
      <4>3. disk'["cache"] = disk["cache"]
        BY <1>0, <4>2 DEF TypeOK, Dir
      <4>4. Content' = Content
        BY <3>1, <4>1, <4>3, StoredKept DEF Content
      <4>5. QED
        BY <1>0, <3>1, <4>4, StoreStutters
    <3>3. CASE exposure # "no"
      BY <1>0, <3>1, <3>3, StoreExposed
    <3>4. QED
      BY <3>2, <3>3
  <2>3. QED
    BY <2>1, <2>2
<1>7. CASE ClearFile(p)
  <2>1. exposure' = exposure /\ phase' = phase
    BY <1>7 DEF ClearFile
  <2>2. CASE exposure # "no"
    BY <1>0, <2>1, <2>2, StoreExposed
  <2>3. CASE exposure = "no"
    <3>1. job[p].mark = "alone"
      BY <1>0, <1>3, <2>3 DEF Mark
    <3>2. QED
      BY <1>0, <1>7, <2>1, <2>3, <3>1, CommitsMemory, StoreCommits
  <2>4. QED
    BY <2>2, <2>3
<1>8. CASE ClearMeta(p)
  <2>1. Done(p)
    BY <1>8 DEF ClearMeta
  <2>2. CASE job[p].mark = "alone"
    BY <1>2, <1>8, <2>1, <2>2, CommitsMemory
  <2>3. CASE job[p].mark = "disturbed"
    BY <1>1, <1>4, <2>1, <2>3 DEF Done
  <2>4. QED
    BY <1>0, <2>2, <2>3 DEF Mark
<1>9. QED
  BY <1>5, <1>6, <1>7, <1>8 DEF FileStep

\* Steps that only plan, look or fail: the store stutters, or the process dies.
LEMMA StorePlanOrFail ==
    ASSUME IInv,
           \/ StartupUnchanged \/ StartupSave \/ Decide \/ DecideFails
           \/ EnsureCacheWindow \/ StampWindow \/ TimerCheck \/ TimerSnapshot
           \/ Crash \/ WindowExpires \/ UNCHANGED vars
           \/ \E p \in Proc : IoFails(p)
    PROVE  Store!Next \/ UNCHANGED Store!storeVars
<1>0. TypeOK /\ JobsApart
  BY DEF IInv, TypedJobs
<1>1. disk' = disk /\ exposure' = exposure /\ Content' = Content
  <2>1. disk' = disk /\ exposure' = exposure
    BY DEF StartupUnchanged, StartupSave, Decide, DecideFails, EnsureCacheWindow,
           StampWindow, TimerCheck, TimerSnapshot, Crash, WindowExpires, vars, IoFails
  <2>2. QED
    BY <2>1, StoredKept DEF Content
<1>2. ASSUME SaveFails, \E p \in Proc : Busy(p) PROVE Store!Next \/ UNCHANGED Store!storeVars
  <2>1. phase # "down"
    BY <1>2, UpWhileBusy
  <2>2. CASE phase = "up"
    BY <1>1, <1>2, <2>2, StoreStutters DEF SaveFails
  <2>3. CASE phase # "up"
    BY <1>1, <1>2, <2>1, <2>3, StoreDies DEF SaveFails
  <2>4. QED
    BY <2>2, <2>3
<1>3. CASE \/ StartupUnchanged \/ StartupSave \/ Decide \/ EnsureCacheWindow \/ StampWindow
           \/ TimerCheck \/ TimerSnapshot \/ WindowExpires \/ UNCHANGED vars
  <2>1. mem' = mem /\ (phase' = phase \/ (phase = "startup" /\ phase' = "up"))
    BY <1>3 DEF StartupUnchanged, StartupSave, Decide, EnsureCacheWindow,
           StampWindow, TimerCheck, TimerSnapshot, WindowExpires, vars
  <2>2. QED
    BY <1>1, <2>1, StoreStutters
<1>4. CASE DecideFails
  <2>1. SaveFails /\ Busy("server")
    BY <1>4 DEF DecideFails, Busy
  <2>2. QED
    BY <1>2, <2>1, Names
<1>5. CASE Crash
  BY <1>1, <1>5, StoreDies DEF Crash
<1>6. ASSUME NEW p \in Proc, IoFails(p) PROVE Store!Next \/ UNCHANGED Store!storeVars
  <2>1. Busy(p)
    BY <1>6 DEF IoFails, Busy
  <2>2. CASE p = "server"
    BY <1>2, <1>6, <2>1, <2>2 DEF IoFails
  <2>3. CASE p # "server"
    <3>1. mem' = mem /\ phase' = phase
      BY <1>6, <2>3 DEF IoFails
    <3>2. QED
      BY <1>1, <3>1, StoreStutters
  <2>4. QED
    BY <2>2, <2>3
<1>7. QED
  BY <1>3, <1>4, <1>5, <1>6

LEMMA StoreStep == IInv /\ [Next]_vars => [Store!Next]_(Store!storeVars)
<1> SUFFICES ASSUME IInv, [Next]_vars PROVE Store!Next \/ UNCHANGED Store!storeVars
  OBVIOUS
<1>1. CASE Load
  BY <1>1, StoreBoots DEF IInv, TypedJobs
<1>2. ASSUME NEW u \in Updates, Handle(u) PROVE Store!Next
  BY <1>2, StoreApplies
<1>3. ASSUME NEW p \in Proc, FileStep(p) PROVE Store!Next \/ UNCHANGED Store!storeVars
  BY <1>3, StoreFileStep
<1>4. CASE \/ StartupUnchanged \/ StartupSave \/ Decide \/ DecideFails
           \/ EnsureCacheWindow \/ StampWindow \/ TimerCheck \/ TimerSnapshot
           \/ Crash \/ WindowExpires \/ UNCHANGED vars
           \/ \E p \in Proc : IoFails(p)
  BY <1>4, StorePlanOrFail
<1>5. QED
  BY <1>1, <1>2, <1>3, <1>4, Names DEF Next, ServerStep, TimerStep

LEMMA StoreInit == Init => Store!Init
<1> SUFFICES ASSUME Init PROVE Store!Init
  OBVIOUS
<1>1. Stored = Empty
  BY DEF Init, Stored, ActiveDir, CacheExists, Missing, Empty, Dir
<1>2. QED
  BY <1>1 DEF Init, Store!Init, Content, Empty, Store!NoRows, Table

\* Storage implements the atomic store: an intact store changes only by jumping to
\* what memory holds, in one step, and a restart brings exactly that back.
THEOREM Refinement == Spec => ImplementsAtomicStore
BY Inductive, StoreInit, StoreStep, PTL DEF Spec, ImplementsAtomicStore, Store!Spec

\* A request answered with success is on disk whole, unless its save met a flush.
THEOREM AckedIsStored == Spec => AckMeansStored
<1>1. ASSUME IInv, [Next]_vars, acked' # acked, job["server"].mark = "alone"
      PROVE  Readable' /\ Stored' = mem'
  <2>1. \E p \in Proc : FileStep(p) /\ Done(p) /\ p = "server"
    <3>1. \E p \in Proc : FileStep(p)
      BY <1>1 DEF Next, vars, ServerStep, TimerStep, Load, StartupUnchanged, StartupSave,
           Decide, DecideFails, EnsureCacheWindow, StampWindow, TimerCheck, TimerSnapshot,
           Handle, IoFails, Crash, WindowExpires, Proc
    <3>2. PICK p \in Proc : FileStep(p)
      BY <3>1
    <3>3. Done(p)
      BY <1>1, <3>2 DEF FileStep, CreateFile, FillFile, ClearFile, ClearMeta
    <3>4. p = "server"
      BY <1>1, <3>3 DEF Done
    <3>5. QED
      BY <3>2, <3>3, <3>4
  <2>2. \/ FillFile("server") /\ job["server"].at = NumTables /\ job["server"].dir = "cache"
        \/ ClearMeta("server")
    <3>1. CASE CreateFile("server") \/ ClearFile("server")
      BY <1>1, <3>1 DEF CreateFile, ClearFile
    <3>2. CASE FillFile("server")
      BY <1>1, <3>2 DEF FillFile
    <3>3. QED
      BY <2>1, <3>1, <3>2 DEF FileStep
  <2>3. QED
    BY <1>1, <2>2, CommitsMemory, Names
<1>2. QED
  BY <1>1, Inductive, PTL DEF Spec, AckMeansStored

\* A property of the atomic store, read in Storage: what is stored is behind memory.
Behind ==
    phase # "down" /\ exposure = "no" => \A t \in Table : Content[t] \subseteq mem[t]

LEMMA BehindStep ==
    ASSUME Behind, [Store!Next]_(Store!storeVars)
    PROVE  /\ Behind'
           /\ exposure = "no" /\ exposure' = "no"
                => \A t \in Table : Content[t] \subseteq Content'[t]
<1>1. CASE UNCHANGED Store!storeVars
  BY <1>1 DEF Store!storeVars, Behind
<1>2. CASE Store!Boot
  BY <1>2 DEF Store!Boot, Behind
<1>3. ASSUME NEW u \in Updates, Store!Apply(u) \/ Store!ApplyExposed(u)
      PROVE  /\ Behind'
             /\ exposure = "no" /\ exposure' = "no"
                  => \A t \in Table : Content[t] \subseteq Content'[t]
  <2>1. \A t \in Table : mem[t] \subseteq mem'[t]
    BY <1>3 DEF Store!Apply, Store!ApplyExposed, Store!With, Table
  <2>2. QED
    BY <1>3, <2>1 DEF Store!Apply, Store!ApplyExposed, Behind
<1>4. CASE Store!Commit
  BY <1>4 DEF Store!Commit, Behind
<1>5. CASE Store!Expose
  BY <1>5 DEF Store!Expose, Behind
<1>6. CASE Store!Die
  BY <1>6 DEF Store!Die, Behind
<1>7. QED
  BY <1>1, <1>2, <1>3, <1>4, <1>5, <1>6 DEF Store!Next

\* While the store is intact, what a restart would find never shrinks: by the
\* refinement, since it only ever jumps forward to what memory holds.
THEOREM NeverShrinks == Spec => StoredNeverShrinks
<1>1. Init => Behind
  BY DEF Init, Behind
<1>2. IInv /\ Behind /\ [Next]_vars => Behind'
  BY StoreStep, BehindStep
<1>3. ASSUME IInv, Behind, [Next]_vars, exposure = "no", exposure' = "no"
      PROVE  \A t \in Table : Stored[t] \subseteq Stored'[t]
  <2>1. Content = Stored /\ Content' = Stored'
    BY <1>3 DEF Content
  <2>2. QED
    BY <1>3, <2>1, StoreStep, BehindStep
<1>4. QED
  BY <1>1, <1>2, <1>3, Inductive, PTL DEF Spec, StoredNeverShrinks
=============================================================================
