--------------------------- MODULE StorageProps ----------------------------
(* The properties of Storage, and the abstract store it implements. *)
EXTENDS Storage

\* A restart can read every table of the directory it would load, at every
\* moment at which no only-copy is being rewritten in place and no save has met
\* a running flush: the order of write_snapshot and clear_cache (organizations
\* removed first, after all of main) is what makes a flush safe to interrupt.
IntactReadable == exposure = "no" => Readable

\* A request answered with success is on disk whole, unless its save met a
\* running flush of the 60 second task.
AckMeansStored ==
    [][acked' # acked /\ job["server"].mark = "alone" => Readable' /\ Stored' = mem']_vars

\* While the store is intact, the rows a restart would load never shrink.
StoredNeverShrinks ==
    [][exposure = "no" /\ exposure' = "no"
         => \A t \in Table : Stored[t] \subseteq Stored'[t]]_vars

\* ---- the inductive invariant behind them ----

Busy(p) == job[p].pc \notin {"idle", "wait"}

\* Only the server writes before the process is up; the flush task writes main
\* only; two jobs at once are both marked disturbed.
JobsApart ==
    /\ phase = "down" => \A p \in Proc : job[p].pc = "idle"
    /\ phase # "up" => job["timer"].pc = "idle"
    /\ job["timer"].pc \in {"idle", "wait", "create", "fill", "clear"}
    /\ job["server"].pc # "wait"
    /\ \A p \in Proc : job[p].pc \in {"create", "fill"} => job[p].at \in Table
    /\ \A p \in Proc : job[p].pc = "clear" => job[p].dir = "main"
    /\ Flushing => job["timer"].dir = "main"
    /\ Busy("server") /\ Busy("timer") =>
         job["server"].mark = "disturbed" /\ job["timer"].mark = "disturbed"

\* A disturbed job leaves the store exposed until a job that runs alone ends.
DisturbedExposed ==
    \A p \in Proc : Busy(p) /\ job[p].mark = "disturbed" => exposure = "overlap"

\* How far a job that runs alone has brought the disk to what memory holds: the
\* files before its position are complete, and it removes the cache only when all
\* of main is.
SoFar(j) ==
    /\ j.snap = mem
    /\ j.pc \in {"create", "fill"} =>
         \A t \in Table : t < j.at => disk[j.dir][t] = Full(mem[t])
    /\ j.pc = "fill" => disk[j.dir][j.at] = Torn
    /\ j.pc = "clear" =>
         /\ \A t \in Table : disk["main"][t] = Full(mem[t])
         /\ j.at > 1 => ~CacheExists

WrittenSoFar ==
    \A p \in Proc : Busy(p) /\ job[p].mark = "alone" => SoFar(job[p])

\* An intact store has a truncated file only in main, behind a cache snapshot.
InPlaceExposed ==
    exposure = "no" =>
        \A p \in Proc : job[p].pc = "fill" => job[p].dir = "main" /\ CacheExists

TypedJobs == TypeOK /\ JobsApart

Exposure ==
    /\ DisturbedExposed
    /\ WrittenSoFar
    /\ InPlaceExposed
    /\ IntactReadable

IInv == TypedJobs /\ Exposure

Content == IF exposure = "no" THEN Stored ELSE Empty

Store == INSTANCE AtomicStore WITH
    running <- phase # "down",
    memory <- mem,
    content <- Content,
    intact <- exposure = "no"

\* The files, jobs and crashes of Storage implement the atomic store: while the
\* store is intact, what a restart finds changes only by jumping to what memory
\* holds, and a restart brings memory back to exactly that.
ImplementsAtomicStore == Store!Spec

\* A window that is due does not stay due while the process is up: the flush task
\* retries every minute until the cache is in main, whatever failed before.
DueWindowIsFlushed == window = "due" ~> (window # "due" \/ phase = "down")

\* Every save ends with an answer or with the process: the handler never waits
\* for the flush task.
SaveIsAnswered == job["server"].pc # "idle" ~> job["server"].pc = "idle"

\* What HUONG-DAN-SU-DUNG.md says of a tree edit that was answered: it is really
\* saved.  Once nothing is being written, a restart finds every answered update.
AnsweredIsSaved ==
    (\A p \in Proc : job[p].pc = "idle") /\ phase = "up"
        => \A u \in acked : \A t \in Touches[u] : u \in Stored[t]
=============================================================================
