--------------------------- MODULE TdmsConverter ---------------------------
(***************************************************************************)
(* The TDMS conversion daemon (backend/tdms_visualizer.py), of which       *)
(* several processes may run at once.  Each polls the database for Jobs    *)
(* that need a Parquet file, takes the lock file of a Job with             *)
(* O_CREAT|O_EXCL, converts, gives the lock back, and only then copies the *)
(* result to the raw-data tree and the vault and commits the row.          *)
(* The content of a Parquet file, and the machining window in the Job's    *)
(* row, are the set of facts they were made from: the TDMS, the NC program *)
(* and the metadata of the XML file.  {} is no file, Torn a file that is   *)
(* being written.                                                          *)
(***************************************************************************)
EXTENDS Naturals, FiniteSets

CONSTANTS
    Procs,          \* daemon processes
    Jobs,           \* Jobs of the database
    None,           \* no process, no Job
    MaxCrashes,     \* bound: kills of a daemon
    MaxFailures,    \* bound: conversions and publications that fail
    MaxLosses,      \* bound: Parquet files that vanish from the raw-data tree
    StaleKinds      \* whose locks get older than LOCK_STALE_SECONDS: {"dead", "slow"}

ASSUME ConverterAssumption ==
    /\ None \notin Procs \cup Jobs
    /\ MaxCrashes \in Nat /\ MaxFailures \in Nat /\ MaxLosses \in Nat
    /\ StaleKinds \subseteq {"dead", "slow"}

Facts    == {"tdms", "nc", "meta"}
Torn     == {"torn"}
Contents == (SUBSET Facts) \cup {Torn}

VARIABLES
    know,       \* the facts of each Job the database and the raw-data tree hold
    row,        \* machining_window: the facts it was found from
    path,       \* Jobs whose row names a Parquet file
    work,       \* viz.parquet in processed_data
    raw,        \* its copy in the raw-data tree
    vault,      \* its copy in the vault
    lock,       \* whose lock file lies there, None if there is none
    old,        \* the lock file is older than LOCK_STALE_SECONDS
    pc,         \* step of each process
    job,        \* the Job a process works on
    todo,       \* the rest of the batch it polled
    seen,       \* Jobs whose metadata its open transaction sees
    input,      \* the facts its conversion read
    dirty,      \* windows set in its session and not committed
    backoff,    \* Jobs it retries later
    crashes, failures, losses

rowVars   == <<row, path>>
fileVars  == <<work, raw, vault>>
lockVars  == <<lock, old>>
procVars  == <<pc, job, todo, seen, input, dirty, backoff>>
boundVars == <<crashes, failures, losses>>
vars == <<know, rowVars, fileVars, lockVars, procVars, boundVars>>

Inside  == {"read", "open", "write", "window", "finish", "release"}  \* under the lock
Publishing == {"copy", "archive", "commit"}                                  \* after it
Working == Inside \cup Publishing \cup {"create", "age", "remove", "recreate"}
NoWindow == [j \in Jobs |-> {}]

Goto(p, step) == pc' = [pc EXCEPT ![p] = step]

(* The loop goes on with the next Job of the batch.                         *)
NextJob(p) == /\ Goto(p, "pick")
              /\ job' = [job EXCEPT ![p] = None]
              /\ input' = [input EXCEPT ![p] = {}]

(* A process loses its session: rollback, close or death.                   *)
SessionEnds(p) == /\ todo' = [todo EXCEPT ![p] = {}]
                  /\ seen' = [seen EXCEPT ![p] = {}]
                  /\ dirty' = [dirty EXCEPT ![p] = NoWindow]

----------------------------------------------------------------------------
(* The collector, people, the clock and the process manager.                *)

Learn(j, f) ==
    /\ f \notin know[j]
    /\ know' = [know EXCEPT ![j] = @ \cup {f}]
    /\ UNCHANGED <<rowVars, fileVars, lockVars, procVars, boundVars>>

LoseParquet(j) ==
    /\ raw[j] # {}
    /\ losses < MaxLosses
    /\ losses' = losses + 1
    /\ raw' = [raw EXCEPT ![j] = {}]
    /\ UNCHANGED <<know, rowVars, work, vault, lockVars, procVars, crashes, failures>>

(* Recovery brings the vault copy back.                                     *)
ParquetComesBack(j) ==
    /\ losses > 0
    /\ raw[j] = {} /\ vault[j] # {}
    /\ raw' = [raw EXCEPT ![j] = vault[j]]
    /\ UNCHANGED <<know, rowVars, work, vault, lockVars, procVars, boundVars>>

Converting(p, j) == pc[p] \in Inside /\ job[p] = j

(* A lock file gets old when its owner is gone, or slower than an hour.     *)
LockAges(j) ==
    /\ lock[j] # None
    /\ ~old[j]
    /\ \/ "dead" \in StaleKinds /\ ~Converting(lock[j], j)
       \/ "slow" \in StaleKinds
    /\ old' = [old EXCEPT ![j] = TRUE]
    /\ UNCHANGED <<know, rowVars, fileVars, lock, procVars, boundVars>>

RetryTimeReached(p, j) ==
    /\ j \in backoff[p]
    /\ backoff' = [backoff EXCEPT ![p] = @ \ {j}]
    /\ UNCHANGED <<know, rowVars, fileVars, lockVars, pc, job, todo, seen, input, dirty,
                   boundVars>>

Crash(p) ==
    /\ pc[p] # "dead"
    /\ crashes < MaxCrashes
    /\ crashes' = crashes + 1
    /\ Goto(p, "dead")
    /\ job' = [job EXCEPT ![p] = None]
    /\ input' = [input EXCEPT ![p] = {}]
    /\ backoff' = [backoff EXCEPT ![p] = {}]
    /\ SessionEnds(p)
    /\ UNCHANGED <<know, rowVars, fileVars, lockVars, failures, losses>>

Restart(p) ==
    /\ pc[p] = "dead"
    /\ Goto(p, "poll")
    /\ UNCHANGED <<know, rowVars, fileVars, lockVars, job, todo, seen, input, dirty,
                   backoff, boundVars>>

----------------------------------------------------------------------------
(* The batch loop.                                                          *)

(* Mutant: a window is never looked at again.                               *)
NeedsProcessingOnce(j) == "tdms" \in know[j] /\ (j \notin path \/ raw[j] = {} \/ row[j] = {})

(* _needs_processing: no Parquet yet, or the window was found before the NC *)
(* program was there, or with an NC program of unknown name.                *)
NeedsProcessing(j) ==
    /\ "tdms" \in know[j]
    /\ \/ j \notin path \/ raw[j] = {} \/ row[j] = {}
       \/ "nc" \notin row[j] /\ "nc" \in know[j]
       \/ "nc" \in row[j] /\ "meta" \notin row[j] /\ "meta" \in know[j]

MetadataSeen == {j \in Jobs : "meta" \in know[j]}

Poll(p) ==
    /\ pc[p] = "poll"
    /\ todo' = [todo EXCEPT ![p] = {j \in Jobs : NeedsProcessing(j)} \ backoff[p]]
    /\ seen' = [seen EXCEPT ![p] = MetadataSeen]
    /\ Goto(p, "pick")
    /\ UNCHANGED <<know, rowVars, fileVars, lockVars, job, input, dirty, backoff, boundVars>>

Pick(p, j) ==
    /\ pc[p] = "pick"
    /\ j \in todo[p]
    /\ job' = [job EXCEPT ![p] = j]
    /\ todo' = [todo EXCEPT ![p] = @ \ {j}]
    /\ Goto(p, "create")
    /\ UNCHANGED <<know, rowVars, fileVars, lockVars, seen, input, dirty, backoff, boundVars>>

BatchEnd(p) ==
    /\ pc[p] = "pick"
    /\ todo[p] = {}
    /\ SessionEnds(p)
    /\ Goto(p, "poll")
    /\ UNCHANGED <<know, rowVars, fileVars, lockVars, job, input, backoff, boundVars>>

----------------------------------------------------------------------------
(* job_conversion_lock.                                                     *)

Own(p) == /\ lock' = [lock EXCEPT ![job[p]] = p]
          /\ old' = [old EXCEPT ![job[p]] = FALSE]
          /\ Goto(p, "read")

Removed(j) == /\ lock' = [lock EXCEPT ![j] = None]
              /\ old' = [old EXCEPT ![j] = FALSE]

(* Mutant: the lock file is opened without O_EXCL.                          *)
MayCreateAlways(p) == TRUE

MayCreate(p) == lock[job[p]] = None

Create(p) ==
    /\ pc[p] = "create"
    /\ IF MayCreate(p) THEN Own(p)
       ELSE Goto(p, "age") /\ UNCHANGED lockVars
    /\ UNCHANGED <<know, rowVars, fileVars, job, todo, seen, input, dirty, backoff, boundVars>>

(* Mutant: a lock file is never too old.                                    *)
CheckAgeNever(p) ==
    /\ pc[p] = "age"
    /\ NextJob(p)
    /\ UNCHANGED <<know, rowVars, fileVars, lockVars, todo, seen, dirty, backoff, boundVars>>

(* A lock file that is gone by now counts as new.                           *)
CheckAge(p) ==
    /\ pc[p] = "age"
    /\ IF lock[job[p]] # None /\ old[job[p]]
       THEN Goto(p, "remove") /\ UNCHANGED <<job, input>>
       ELSE NextJob(p)
    /\ UNCHANGED <<know, rowVars, fileVars, lockVars, todo, seen, dirty, backoff, boundVars>>

(* The age is not looked at again: whatever lock file lies there goes.      *)
RemoveStale(p) ==
    /\ pc[p] = "remove"
    /\ IF lock[job[p]] # None
       THEN Removed(job[p]) /\ Goto(p, "recreate") /\ UNCHANGED <<job, input>>
       ELSE NextJob(p) /\ UNCHANGED lockVars
    /\ UNCHANGED <<know, rowVars, fileVars, todo, seen, dirty, backoff, boundVars>>

Recreate(p) ==
    /\ pc[p] = "recreate"
    /\ IF MayCreate(p)
       THEN Own(p) /\ UNCHANGED <<job, input>>
       ELSE NextJob(p) /\ UNCHANGED lockVars
    /\ UNCHANGED <<know, rowVars, fileVars, todo, seen, dirty, backoff, boundVars>>

(* Mutant: the result of the conversion is not looked at.                   *)
ReleaseUnchecked(p) ==
    /\ pc[p] = "release"
    /\ Removed(job[p])
    /\ Goto(p, "copy")
    /\ UNCHANGED <<know, rowVars, fileVars, job, input, todo, seen, dirty, backoff, boundVars>>

(* The finally clause removes whatever lock file lies there; a conversion   *)
(* that failed (no input left) is tried again later.                        *)
Release(p) ==
    /\ pc[p] = "release"
    /\ Removed(job[p])
    /\ IF input[p] = {}
       THEN /\ backoff' = [backoff EXCEPT ![p] = @ \cup {job[p]}]
            /\ NextJob(p)
       ELSE /\ Goto(p, "copy")
            /\ UNCHANGED <<job, input, backoff>>
    /\ UNCHANGED <<know, rowVars, fileVars, todo, seen, dirty, boundVars>>

----------------------------------------------------------------------------
(* process_tdms_file.                                                       *)

(* The NC program is looked up on disk, the metadata as the transaction     *)
(* sees it.                                                                 *)
ReadInputs(p) ==
    /\ pc[p] = "read"
    /\ input' = [input EXCEPT ![p] =
          {"tdms"} \cup (know[job[p]] \cap {"nc"})
                   \cup (IF job[p] \in seen[p] THEN {"meta"} ELSE {})]
    /\ Goto(p, "open")
    /\ UNCHANGED <<know, rowVars, fileVars, lockVars, job, todo, seen, dirty, backoff,
                   boundVars>>

OpenParquet(p) ==
    /\ pc[p] = "open"
    /\ work' = [work EXCEPT ![job[p]] = Torn]
    /\ Goto(p, "write")
    /\ UNCHANGED <<know, rowVars, raw, vault, lockVars, job, todo, seen, input, dirty,
                   backoff, boundVars>>

WriteParquet(p) ==
    /\ pc[p] = "write"
    /\ work' = [work EXCEPT ![job[p]] = input[p]]
    /\ Goto(p, "window")
    /\ UNCHANGED <<know, rowVars, raw, vault, lockVars, job, todo, seen, input, dirty,
                   backoff, boundVars>>

(* _apply_window_to_job: the row object is changed, nothing is committed.   *)
ApplyWindow(p) ==
    /\ pc[p] = "window"
    /\ dirty' = [dirty EXCEPT ![p][job[p]] = input[p]]
    /\ Goto(p, "finish")
    /\ UNCHANGED <<know, rowVars, fileVars, lockVars, job, todo, seen, input, backoff,
                   boundVars>>

(* The spectrum and the window file are written too.                        *)
FinishConversion(p) ==
    /\ pc[p] = "finish"
    /\ Goto(p, "release")
    /\ UNCHANGED <<know, rowVars, fileVars, lockVars, job, todo, seen, input, dirty, backoff,
                   boundVars>>

(* Any exception of the conversion ends in (None, None).                    *)
ConversionFails(p) ==
    /\ pc[p] \in Inside \ {"read", "release"}
    /\ failures < MaxFailures
    /\ failures' = failures + 1
    /\ input' = [input EXCEPT ![p] = {}]
    /\ Goto(p, "release")
    /\ UNCHANGED <<know, rowVars, fileVars, lockVars, job, todo, seen, dirty, backoff,
                   crashes, losses>>

----------------------------------------------------------------------------
(* What follows a conversion, without the lock.                             *)

(* Mutant: a copy that is there already is kept.                            *)
CopyToRawOnce(p) ==
    /\ pc[p] = "copy"
    /\ raw' = [raw EXCEPT ![job[p]] = IF @ # {} THEN @ ELSE work[job[p]]]
    /\ Goto(p, "archive")
    /\ UNCHANGED <<know, rowVars, work, vault, lockVars, job, todo, seen, input, dirty,
                   backoff, boundVars>>

CopyToRaw(p) ==
    /\ pc[p] = "copy"
    /\ raw' = [raw EXCEPT ![job[p]] = work[job[p]]]
    /\ Goto(p, "archive")
    /\ UNCHANGED <<know, rowVars, work, vault, lockVars, job, todo, seen, input, dirty,
                   backoff, boundVars>>

(* A file that vanished meanwhile is not archived.                          *)
ArchiveParquet(p) ==
    /\ pc[p] = "archive"
    /\ vault' = [vault EXCEPT ![job[p]] = IF raw[job[p]] # {} THEN raw[job[p]] ELSE @]
    /\ Goto(p, "commit")
    /\ UNCHANGED <<know, rowVars, work, raw, lockVars, job, todo, seen, input, dirty,
                   backoff, boundVars>>

(* db.commit writes every window the session has changed.                   *)
CommitRow(p) ==
    /\ pc[p] = "commit"
    /\ row' = [j \in Jobs |-> IF dirty[p][j] # {} THEN dirty[p][j] ELSE row[j]]
    /\ path' = path \cup {job[p]}
    /\ dirty' = [dirty EXCEPT ![p] = NoWindow]
    /\ seen' = [seen EXCEPT ![p] = MetadataSeen]
    /\ NextJob(p)
    /\ UNCHANGED <<know, fileVars, lockVars, todo, backoff, boundVars>>

(* An exception after the lock was given back drops the rest of the batch.  *)
PublishFails(p) ==
    /\ pc[p] \in Publishing
    /\ failures < MaxFailures
    /\ failures' = failures + 1
    /\ Goto(p, "poll")
    /\ job' = [job EXCEPT ![p] = None]
    /\ input' = [input EXCEPT ![p] = {}]
    /\ SessionEnds(p)
    /\ UNCHANGED <<know, rowVars, fileVars, lockVars, backoff, crashes, losses>>

----------------------------------------------------------------------------
Init ==
    /\ know = [j \in Jobs |-> {}] /\ row = [j \in Jobs |-> {}] /\ path = {}
    /\ work = [j \in Jobs |-> {}] /\ raw = [j \in Jobs |-> {}] /\ vault = [j \in Jobs |-> {}]
    /\ lock = [j \in Jobs |-> None] /\ old = [j \in Jobs |-> FALSE]
    /\ pc = [p \in Procs |-> "poll"] /\ job = [p \in Procs |-> None]
    /\ todo = [p \in Procs |-> {}] /\ seen = [p \in Procs |-> {}]
    /\ input = [p \in Procs |-> {}] /\ dirty = [p \in Procs |-> NoWindow]
    /\ backoff = [p \in Procs |-> {}]
    /\ crashes = 0 /\ failures = 0 /\ losses = 0

Batch(p)   == Poll(p) \/ BatchEnd(p) \/ \E j \in Jobs : Pick(p, j)
Lock(p)    == Create(p) \/ CheckAge(p) \/ RemoveStale(p) \/ Recreate(p) \/ Release(p)
Convert(p) == \/ ReadInputs(p) \/ OpenParquet(p) \/ WriteParquet(p) \/ ApplyWindow(p)
              \/ FinishConversion(p) \/ ConversionFails(p)
Publish(p) == CopyToRaw(p) \/ ArchiveParquet(p) \/ CommitRow(p) \/ PublishFails(p)

Step(p) == Batch(p) \/ Lock(p) \/ Convert(p) \/ Publish(p)

Next == \/ \E j \in Jobs : \/ LoseParquet(j) \/ ParquetComesBack(j) \/ LockAges(j)
                           \/ \E f \in Facts : Learn(j, f)
                           \/ \E p \in Procs : RetryTimeReached(p, j)
        \/ \E p \in Procs : Step(p) \/ Crash(p) \/ Restart(p)

Spec == Init /\ [][Next]_vars

(* A live daemon keeps going and time passes; nothing restarts a daemon.    *)
FairSpec == /\ Spec
            /\ \A p \in Procs : WF_vars(Step(p))
            /\ \A j \in Jobs : WF_vars(LockAges(j))
            /\ \A p \in Procs, j \in Jobs : WF_vars(RetryTimeReached(p, j))

----------------------------------------------------------------------------
(* The types of all variables; a process at work has a Job, and what it     *)
(* publishes comes from a conversion that succeeded.                        *)
TypeOK ==
    /\ know \in [Jobs -> SUBSET Facts]
    /\ row \in [Jobs -> SUBSET Facts] /\ path \in SUBSET Jobs
    /\ work \in [Jobs -> Contents] /\ raw \in [Jobs -> Contents] /\ vault \in [Jobs -> Contents]
    /\ lock \in [Jobs -> Procs \cup {None}] /\ old \in [Jobs -> BOOLEAN]
    /\ pc \in [Procs -> Working \cup {"poll", "pick", "dead"}]
    /\ job \in [Procs -> Jobs \cup {None}]
    /\ \A p \in Procs : /\ pc[p] \in Working => job[p] \in Jobs
                        /\ pc[p] \in Publishing => input[p] # {}
    /\ todo \in [Procs -> SUBSET Jobs] /\ seen \in [Procs -> SUBSET Jobs]
    /\ input \in [Procs -> SUBSET Facts] /\ dirty \in [Procs -> [Jobs -> SUBSET Facts]]
    /\ backoff \in [Procs -> SUBSET Jobs]
    /\ crashes \in 0 .. MaxCrashes /\ failures \in 0 .. MaxFailures /\ losses \in 0 .. MaxLosses

(* Two processes never convert the same Job at the same time: what          *)
(* job_conversion_lock is there for.                                        *)
OneConverter ==
    \A p, q \in Procs, j \in Jobs : Converting(p, j) /\ Converting(q, j) => p = q

Idle(j) == \A p \in Procs : job[p] # j

(* When no process is at work on a Job and none would take it up again, the *)
(* Parquet file people see and the window in the row come from the same     *)
(* conversion.                                                              *)
WindowMatchesParquet ==
    \A j \in Jobs : Idle(j) /\ j \in path /\ ~NeedsProcessing(j) => raw[j] = row[j]

(* ... and that conversion used the NC program if there is one, and then    *)
(* also the metadata if there is any.                                       *)
SettledParquetIsCurrent ==
    \A j \in Jobs :
        Idle(j) /\ j \in path /\ ~NeedsProcessing(j) /\ "nc" \in know[j] =>
            know[j] \cap {"nc", "meta"} \subseteq raw[j]

AllDead == \A p \in Procs : pc[p] = "dead"

(* Every Job whose TDMS is registered is in the end converted from all that *)
(* matters, or every daemon is dead: also when a daemon that was killed in  *)
(* the middle comes back and meets the lock file it left behind.            *)
EveryJobIsConverted ==
    \A j \in Jobs : "tdms" \in know[j] ~> (~NeedsProcessing(j) \/ AllDead)

(* The lock file plays the part of the turn.                                *)
Turns == INSTANCE ConversionTurns WITH turn <- [j \in Jobs |->
             IF \E p \in Procs : Converting(p, j)
             THEN CHOOSE p \in Procs : Converting(p, j) ELSE None]
TakesTurns == Turns!Spec
=============================================================================
