------------------------ MODULE TdmsConverterProofs ------------------------
(* Theorems about TdmsConverter, for any number of daemons and Jobs.        *)
EXTENDS TdmsConverter, TLAPS

(* No file and a file being written are contents, and so is any set of     *)
(* facts.                                                                   *)
LEMMA ContentsFacts == {} \in Contents /\ Torn \in Contents
                         /\ \A s \in SUBSET Facts : s \in Contents
  BY DEF Contents

(* The type invariant holds: a process at work always has a Job in hand,    *)
(* and only a successful conversion gets to the steps that publish.         *)
THEOREM TypeCorrect == Spec => []TypeOK
<1> USE ConverterAssumption
<1>1. Init => TypeOK
  BY ContentsFacts DEF Init, TypeOK, NoWindow, Working, Inside, Publishing
<1>2. TypeOK /\ [Next]_vars => TypeOK'
  <2> SUFFICES ASSUME TypeOK, [Next]_vars PROVE TypeOK'
    OBVIOUS
  <2> USE DEF TypeOK, Working, Inside, Publishing,
              rowVars, fileVars, lockVars, procVars, boundVars
  <2>1. ASSUME NEW j \in Jobs, NEW f \in Facts, Learn(j, f) PROVE TypeOK'
    BY <2>1 DEF Learn
  <2>2. ASSUME NEW j \in Jobs, LoseParquet(j) PROVE TypeOK'
    BY <2>2, ContentsFacts DEF LoseParquet
  <2>3. ASSUME NEW j \in Jobs, ParquetComesBack(j) PROVE TypeOK'
    BY <2>3 DEF ParquetComesBack
  <2>4. ASSUME NEW j \in Jobs, LockAges(j) PROVE TypeOK'
    BY <2>4 DEF LockAges
  <2>5. ASSUME NEW p \in Procs, NEW j \in Jobs, RetryTimeReached(p, j) PROVE TypeOK'
    BY <2>5 DEF RetryTimeReached
  <2>6. ASSUME NEW p \in Procs, NEW j \in Jobs, Pick(p, j) PROVE TypeOK'
    BY <2>6 DEF Pick, Goto
  <2>7. ASSUME NEW p \in Procs, Poll(p) PROVE TypeOK'
    BY <2>7 DEF Poll, Goto, MetadataSeen
  <2>8. ASSUME NEW p \in Procs, BatchEnd(p) PROVE TypeOK'
    BY <2>8 DEF BatchEnd, SessionEnds, Goto, NoWindow
  <2>9. ASSUME NEW p \in Procs, Create(p) PROVE TypeOK'
    <3>1. job[p] \in Jobs
      BY <2>9 DEF Create
    <3>2. CASE MayCreate(p)
      <4>1. Own(p)
        BY <2>9, <3>2 DEF Create
      <4>2. UNCHANGED <<know, rowVars, fileVars, job, todo, seen, input, dirty, backoff, boundVars>>
        BY <2>9, <3>2 DEF Create
      <4> QED
        BY <3>1, <4>1, <4>2 DEF Own, Goto
    <3>3. CASE ~(MayCreate(p))
      <4>1. Goto(p, "age")
        BY <2>9, <3>3 DEF Create
      <4>2. UNCHANGED <<know, rowVars, fileVars, lockVars, job, todo, seen, input, dirty, backoff, boundVars>>
        BY <2>9, <3>3 DEF Create
      <4> QED
        BY <3>1, <3>3, <4>1, <4>2 DEF Goto
    <3> QED
      BY <3>2, <3>3
  <2>10. ASSUME NEW p \in Procs, CheckAge(p) PROVE TypeOK'
    <3>1. job[p] \in Jobs
      BY <2>10 DEF CheckAge
    <3>2. CASE lock[job[p]] # None /\ old[job[p]]
      <4>1. Goto(p, "remove")
        BY <2>10, <3>2 DEF CheckAge
      <4>2. UNCHANGED <<know, rowVars, fileVars, lockVars, job, todo, seen, input, dirty, backoff, boundVars>>
        BY <2>10, <3>2 DEF CheckAge
      <4> QED
        BY <3>1, <4>1, <4>2 DEF Goto
    <3>3. CASE ~(lock[job[p]] # None /\ old[job[p]])
      <4>1. NextJob(p)
        BY <2>10, <3>3 DEF CheckAge
      <4>2. UNCHANGED <<know, rowVars, fileVars, lockVars, todo, seen, dirty, backoff, boundVars>>
        BY <2>10, <3>3 DEF CheckAge
      <4> QED
        BY <3>1, <3>3, <4>1, <4>2 DEF NextJob, Goto
    <3> QED
      BY <3>2, <3>3
  <2>11. ASSUME NEW p \in Procs, RemoveStale(p) PROVE TypeOK'
    <3>1. job[p] \in Jobs
      BY <2>11 DEF RemoveStale
    <3>2. CASE lock[job[p]] # None
      <4>1. Removed(job[p]) /\ Goto(p, "recreate")
        BY <2>11, <3>2 DEF RemoveStale
      <4>2. UNCHANGED <<know, rowVars, fileVars, job, todo, seen, input, dirty, backoff, boundVars>>
        BY <2>11, <3>2 DEF RemoveStale
      <4> QED
        BY <3>1, <4>1, <4>2 DEF Removed, Goto
    <3>3. CASE ~(lock[job[p]] # None)
      <4>1. NextJob(p)
        BY <2>11, <3>3 DEF RemoveStale
      <4>2. UNCHANGED <<know, rowVars, fileVars, lockVars, todo, seen, dirty, backoff, boundVars>>
        BY <2>11, <3>3 DEF RemoveStale
      <4> QED
        BY <3>1, <3>3, <4>1, <4>2 DEF NextJob, Goto
    <3> QED
      BY <3>2, <3>3
  <2>12. ASSUME NEW p \in Procs, Recreate(p) PROVE TypeOK'
    <3>1. job[p] \in Jobs
      BY <2>12 DEF Recreate
    <3>2. CASE MayCreate(p)
      <4>1. Own(p)
        BY <2>12, <3>2 DEF Recreate
      <4>2. UNCHANGED <<know, rowVars, fileVars, job, todo, seen, input, dirty, backoff, boundVars>>
        BY <2>12, <3>2 DEF Recreate
      <4> QED
        BY <3>1, <4>1, <4>2 DEF Own, Goto
    <3>3. CASE ~(MayCreate(p))
      <4>1. NextJob(p)
        BY <2>12, <3>3 DEF Recreate
      <4>2. UNCHANGED <<know, rowVars, fileVars, lockVars, todo, seen, dirty, backoff, boundVars>>
        BY <2>12, <3>3 DEF Recreate
      <4> QED
        BY <3>1, <3>3, <4>1, <4>2 DEF NextJob, Goto
    <3> QED
      BY <3>2, <3>3
  <2>13. ASSUME NEW p \in Procs, Release(p) PROVE TypeOK'
    <3>1. job[p] \in Jobs
      BY <2>13 DEF Release
    <3>2. CASE input[p] = {}
      <4>1. Removed(job[p]) /\ NextJob(p) /\ backoff' = [backoff EXCEPT ![p] = @ \cup {job[p]}]
        BY <2>13, <3>2 DEF Release
      <4>2. UNCHANGED <<know, rowVars, fileVars, todo, seen, dirty, boundVars>>
        BY <2>13, <3>2 DEF Release
      <4> QED
        BY <3>1, <4>1, <4>2 DEF Removed, NextJob, Goto
    <3>3. CASE ~(input[p] = {})
      <4>1. Removed(job[p]) /\ Goto(p, "copy")
        BY <2>13, <3>3 DEF Release
      <4>2. UNCHANGED <<know, rowVars, fileVars, job, todo, seen, input, dirty, backoff, boundVars>>
        BY <2>13, <3>3 DEF Release
      <4> QED
        BY <3>1, <3>3, <4>1, <4>2 DEF Removed, Goto
    <3> QED
      BY <3>2, <3>3
  <2>14. ASSUME NEW p \in Procs, ReadInputs(p) PROVE TypeOK'
    BY <2>14 DEF ReadInputs, Goto, Facts
  <2>15. ASSUME NEW p \in Procs, OpenParquet(p) PROVE TypeOK'
    BY <2>15, ContentsFacts DEF OpenParquet, Goto
  <2>16. ASSUME NEW p \in Procs, WriteParquet(p) PROVE TypeOK'
    BY <2>16, ContentsFacts DEF WriteParquet, Goto
  <2>17. ASSUME NEW p \in Procs, ApplyWindow(p) PROVE TypeOK'
    BY <2>17 DEF ApplyWindow, Goto
  <2>18. ASSUME NEW p \in Procs, FinishConversion(p) PROVE TypeOK'
    BY <2>18 DEF FinishConversion, Goto
  <2>19. ASSUME NEW p \in Procs, ConversionFails(p) PROVE TypeOK'
    BY <2>19 DEF ConversionFails, Goto
  <2>20. ASSUME NEW p \in Procs, CopyToRaw(p) PROVE TypeOK'
    BY <2>20 DEF CopyToRaw, Goto
  <2>21. ASSUME NEW p \in Procs, ArchiveParquet(p) PROVE TypeOK'
    BY <2>21 DEF ArchiveParquet, Goto
  <2>22. ASSUME NEW p \in Procs, CommitRow(p) PROVE TypeOK'
    BY <2>22 DEF CommitRow, NextJob, Goto, MetadataSeen, NoWindow
  <2>23. ASSUME NEW p \in Procs, PublishFails(p) PROVE TypeOK'
    BY <2>23 DEF PublishFails, SessionEnds, Goto, NoWindow
  <2>24. ASSUME NEW p \in Procs, Crash(p) PROVE TypeOK'
    BY <2>24 DEF Crash, SessionEnds, Goto, NoWindow
  <2>25. ASSUME NEW p \in Procs, Restart(p) PROVE TypeOK'
    BY <2>25 DEF Restart, Goto
  <2>26. CASE UNCHANGED vars
    BY <2>26 DEF vars
  <2> QED
    BY <2>1, <2>2, <2>3, <2>4, <2>5, <2>6, <2>7, <2>8, <2>9, <2>10, <2>11, <2>12, <2>13, <2>14, <2>15, <2>16, <2>17, <2>18, <2>19, <2>20, <2>21, <2>22, <2>23, <2>24, <2>25, <2>26
    DEF Next, Step, Batch, Lock, Convert, Publish
<1> QED
  BY <1>1, <1>2, PTL DEF Spec

(* Without locks that grow old, a process that converts a Job holds its     *)
(* lock file: nobody else can have removed it.                              *)
LockInv ==
    /\ \A j \in Jobs : ~old[j]
    /\ \A p \in Procs : pc[p] \notin {"remove", "recreate"}
    /\ \A p \in Procs, j \in Jobs : Converting(p, j) => lock[j] = p

(* While no lock file gets old, the lock of a Job under conversion is its   *)
(* converter's, and nobody is on the way to removing one.                   *)
LEMMA LockKept == ASSUME StaleKinds = {} PROVE Spec => []LockInv
<1> USE ConverterAssumption DEF Converting, LockInv, Inside
<1>1. Init => LockInv
  BY DEF Init
<1>2. TypeOK /\ LockInv /\ [Next]_vars => LockInv'
  <2> SUFFICES ASSUME TypeOK, LockInv, [Next]_vars PROVE LockInv'
    OBVIOUS
  <2>0. /\ pc \in [Procs -> Working \cup {"poll", "pick", "dead"}]
        /\ job \in [Procs -> Jobs \cup {None}]
        /\ lock \in [Jobs -> Procs \cup {None}] /\ old \in [Jobs -> BOOLEAN]
        /\ \A p \in Procs : pc[p] \in Working => job[p] \in Jobs
    BY DEF TypeOK
  <2> USE DEF Working, Publishing, rowVars, fileVars, lockVars, procVars, boundVars
  <2>1. ASSUME NEW j \in Jobs,
               \/ LoseParquet(j) \/ ParquetComesBack(j) \/ LockAges(j)
               \/ \E f \in Facts : Learn(j, f)
               \/ \E p \in Procs : RetryTimeReached(p, j)
        PROVE  LockInv'
    BY <2>1 DEF LoseParquet, ParquetComesBack, LockAges, Learn, RetryTimeReached

  <2>2. ASSUME NEW p \in Procs, Poll(p) PROVE LockInv'
    BY <2>0, <2>2 DEF Poll, Goto
  <2>3. ASSUME NEW p \in Procs, BatchEnd(p) PROVE LockInv'
    BY <2>0, <2>3 DEF BatchEnd, Goto
  <2>4. ASSUME NEW p \in Procs, \E j \in Jobs : Pick(p, j) PROVE LockInv'
    BY <2>0, <2>4 DEF Pick, Goto
  <2>5. ASSUME NEW p \in Procs, Create(p) PROVE LockInv'
    <3>1. CASE MayCreate(p)
      <4>1. Own(p) /\ UNCHANGED job
        BY <2>5, <3>1 DEF Create
      <4> QED
        BY <2>0, <2>5, <3>1, <4>1 DEF Create, Own, Goto, MayCreate
    <3>2. CASE ~MayCreate(p)
      <4>1. Goto(p, "age") /\ UNCHANGED <<lockVars, job>>
        BY <2>5, <3>2 DEF Create
      <4> QED
        BY <2>0, <4>1 DEF Goto
    <3> QED
      BY <3>1, <3>2
  <2>6. ASSUME NEW p \in Procs, CheckAge(p) PROVE LockInv'
    BY <2>0, <2>6 DEF CheckAge, NextJob, Goto
  <2>7. ASSUME NEW p \in Procs, RemoveStale(p) PROVE LockInv'
    BY <2>0, <2>7 DEF RemoveStale
  <2>8. ASSUME NEW p \in Procs, Recreate(p) PROVE LockInv'
    BY <2>0, <2>8 DEF Recreate
  <2>9. ASSUME NEW p \in Procs, Release(p) PROVE LockInv'
    <3>1. pc[p] = "release" /\ Removed(job[p])
      BY <2>9 DEF Release
    <3>2. \E step \in {"pick", "copy"} : Goto(p, step)
      BY <2>9 DEF Release, NextJob
    <3>3. \A q \in Procs : q # p => job'[q] = job[q]
      BY <2>0, <2>9 DEF Release, NextJob
    <3> QED
      BY <2>0, <3>1, <3>2, <3>3 DEF Removed, Goto
  <2>10. ASSUME NEW p \in Procs, ReadInputs(p) PROVE LockInv'
    BY <2>0, <2>10 DEF ReadInputs, Goto
  <2>11. ASSUME NEW p \in Procs, OpenParquet(p) PROVE LockInv'
    BY <2>0, <2>11 DEF OpenParquet, Goto
  <2>12. ASSUME NEW p \in Procs, WriteParquet(p) PROVE LockInv'
    BY <2>0, <2>12 DEF WriteParquet, Goto
  <2>13. ASSUME NEW p \in Procs, ApplyWindow(p) PROVE LockInv'
    BY <2>0, <2>13 DEF ApplyWindow, Goto
  <2>14. ASSUME NEW p \in Procs, FinishConversion(p) PROVE LockInv'
    BY <2>0, <2>14 DEF FinishConversion, Goto
  <2>15. ASSUME NEW p \in Procs, ConversionFails(p) PROVE LockInv'
    BY <2>0, <2>15 DEF ConversionFails, Goto
  <2>16. ASSUME NEW p \in Procs, CopyToRaw(p) PROVE LockInv'
    BY <2>0, <2>16 DEF CopyToRaw, Goto
  <2>17. ASSUME NEW p \in Procs, ArchiveParquet(p) PROVE LockInv'
    BY <2>0, <2>17 DEF ArchiveParquet, Goto
  <2>18. ASSUME NEW p \in Procs, CommitRow(p) PROVE LockInv'
    BY <2>0, <2>18 DEF CommitRow, Goto, NextJob
  <2>19. ASSUME NEW p \in Procs, PublishFails(p) PROVE LockInv'
    BY <2>0, <2>19 DEF PublishFails, Goto
  <2>20. ASSUME NEW p \in Procs, Crash(p) PROVE LockInv'
    BY <2>0, <2>20 DEF Crash, Goto
  <2>21. ASSUME NEW p \in Procs, Restart(p) PROVE LockInv'
    BY <2>0, <2>21 DEF Restart, Goto
  <2>22. CASE UNCHANGED vars
    BY <2>22 DEF vars
  <2> QED
    BY <2>1, <2>2, <2>3, <2>4, <2>5, <2>6, <2>7, <2>8, <2>9, <2>10, <2>11, <2>12, <2>13, <2>14, <2>15, <2>16, <2>17, <2>18, <2>19, <2>20, <2>21, <2>22
    DEF Next, Step, Batch, Lock, Convert, Publish
<1> QED
  BY <1>1, <1>2, TypeCorrect, PTL DEF Spec

(* As long as no lock file gets older than an hour, two daemons never       *)
(* convert the same Job at the same time, whatever crashes or fails.        *)
THEOREM LockExcludes == ASSUME StaleKinds = {} PROVE Spec => []OneConverter
<1>1. LockInv => OneConverter
  BY DEF LockInv, OneConverter
<1> QED
  BY <1>1, LockKept, PTL

(* The abstract turns: who converts a Job, if anybody does.                 *)
TurnOf == [j \in Jobs |-> IF \E p \in Procs : Converting(p, j)
                          THEN CHOOSE p \in Procs : Converting(p, j) ELSE None]

Holds(p, j)  == Converting(p, j) /\ TurnOf[j] = p
Untaken(j)   == (\A p \in Procs : ~Converting(p, j)) /\ TurnOf[j] = None
TurnsAreClear == \A j \in Jobs : Untaken(j) \/ \E p \in Procs : Holds(p, j)

(* When no two daemons convert the same Job, the turn of a Job is either    *)
(* free or that of its only converter.                                      *)
LEMMA TurnFacts == OneConverter => TurnsAreClear
<1> SUFFICES ASSUME OneConverter, NEW j \in Jobs
             PROVE  Untaken(j) \/ \E p \in Procs : Holds(p, j)
  BY DEF TurnsAreClear
<1>1. CASE \A p \in Procs : ~Converting(p, j)
  BY <1>1 DEF Untaken, TurnOf
<1>2. CASE \E p \in Procs : Converting(p, j)
  <2> DEFINE p == CHOOSE p \in Procs : Converting(p, j)
  <2>1. p \in Procs /\ Converting(p, j)
    BY <1>2
  <2>2. TurnOf[j] = p
    BY <1>2 DEF TurnOf
  <2> QED
    BY <2>1, <2>2 DEF Holds
<1> QED
  BY <1>1, <1>2

(* What a step does to the conversions under way: nothing, one begins, or   *)
(* one ends.                                                                *)
NothingChanges == \A q \in Procs, j \in Jobs : Converting(q, j)' <=> Converting(q, j)
Enters(p, k)   == \A q \in Procs, j \in Jobs :
                     Converting(q, j)' <=> Converting(q, j) \/ (q = p /\ j = k)
Leaves(p, k)   == \A q \in Procs, j \in Jobs :
                     Converting(q, j)' <=> Converting(q, j) /\ ~(q = p /\ j = k)

(* A step in which one daemon enters or leaves one conversion, or none      *)
(* does, is a step of ConversionTurns or leaves every turn as it is.        *)
LEMMA TurnSteps ==
    ASSUME OneConverter, OneConverter',
           NEW p \in Procs, NEW k \in Jobs,
           \/ NothingChanges
           \/ Enters(p, k) /\ \A q \in Procs : ~Converting(q, k)
           \/ Leaves(p, k) /\ Converting(p, k)
    PROVE  TurnOf' = TurnOf \/ Turns!Begin(p, k) \/ Turns!End(p, k)
<1>1. TurnsAreClear /\ TurnsAreClear'
  <2>1. TurnsAreClear
    BY TurnFacts
  <2>2. TurnsAreClear'
    BY TurnFacts, PTL
  <2> QED
    BY <2>1, <2>2
<1>2. CASE NothingChanges
  BY <1>1, <1>2 DEF NothingChanges, TurnsAreClear, Untaken, Holds, TurnOf, OneConverter
<1>3. CASE Enters(p, k) /\ \A q \in Procs : ~Converting(q, k)
  BY <1>1, <1>3 DEF Enters, TurnsAreClear, Untaken, Holds, TurnOf, OneConverter, Turns!Begin
<1>4. CASE Leaves(p, k) /\ Converting(p, k)
  BY <1>1, <1>4 DEF Leaves, TurnsAreClear, Untaken, Holds, TurnOf, OneConverter, Turns!End
<1> QED
  BY <1>2, <1>3, <1>4


(* Without locks that grow old the lock file implements ConversionTurns:    *)
(* the daemons convert a Job in turn, and every turn that begins ends       *)
(* before the next one begins.                                              *)
THEOREM LockTakesTurns == ASSUME StaleKinds = {} PROVE Spec => TakesTurns
<1> USE ConverterAssumption DEF Inside
<1>1. Init => Turns!Init
  BY DEF Init, Turns!Init, Converting
<1>2. TypeOK /\ LockInv /\ OneConverter /\ OneConverter' /\ [Next]_vars => [Turns!Next]_TurnOf
  <2> SUFFICES ASSUME TypeOK, LockInv, OneConverter, OneConverter', [Next]_vars
               PROVE  [Turns!Next]_TurnOf
    OBVIOUS
  <2>0. /\ pc \in [Procs -> Working \cup {"poll", "pick", "dead"}]
        /\ job \in [Procs -> Jobs \cup {None}]
        /\ \A p \in Procs : pc[p] \in Working => job[p] \in Jobs
    BY DEF TypeOK
  <2> USE DEF Working, Publishing, rowVars, fileVars, lockVars, procVars, boundVars
  <2> DEFINE Still == TurnOf' = TurnOf
  <2>1. ASSUME NothingChanges PROVE Still
    <3>1. \A j \in Jobs : {q \in Procs : Converting(q, j)'} = {q \in Procs : Converting(q, j)}
      BY <2>1 DEF NothingChanges
    <3>2. TurnsAreClear
      BY TurnFacts
    <3>3. TurnsAreClear'
      BY TurnFacts, PTL
    <3> QED
      BY <2>1, <3>2, <3>3 DEF NothingChanges, TurnsAreClear, Untaken, Holds, TurnOf, OneConverter
  <2>2. ASSUME NEW p \in Procs, NEW k \in Jobs,
               \/ Enters(p, k) /\ \A q \in Procs : ~Converting(q, k)
               \/ Leaves(p, k) /\ Converting(p, k)
        PROVE  Still \/ Turns!Next
    BY <2>2, TurnSteps DEF Turns!Next
  <2>3. ASSUME NEW j \in Jobs,
               \/ LoseParquet(j) \/ ParquetComesBack(j) \/ LockAges(j)
               \/ \E f \in Facts : Learn(j, f)
               \/ \E p \in Procs : RetryTimeReached(p, j)
        PROVE  NothingChanges
    BY <2>3 DEF NothingChanges, Converting, LoseParquet, ParquetComesBack, LockAges, Learn,
                RetryTimeReached
  <2>4. ASSUME NEW p \in Procs, Create(p) PROVE Still \/ Turns!Next
    <3>1. job[p] \in Jobs /\ pc[p] = "create" /\ UNCHANGED job
      BY <2>0, <2>4 DEF Create
    <3>2. CASE MayCreate(p)
      <4>1. pc' = [pc EXCEPT ![p] = "read"]
        BY <2>4, <3>2 DEF Create, Own, Goto
      <4>2. Enters(p, job[p])
        BY <2>0, <3>1, <4>1 DEF Enters, Converting
      <4>3. \A q \in Procs : ~Converting(q, job[p])
        BY <3>1, <3>2 DEF MayCreate, LockInv
      <4> QED
        BY <2>2, <3>1, <4>2, <4>3
    <3>3. CASE ~MayCreate(p)
      <4>1. pc' = [pc EXCEPT ![p] = "age"]
        BY <2>4, <3>3 DEF Create, Goto
      <4> QED
        BY <2>0, <2>1, <3>1, <4>1 DEF NothingChanges, Converting
    <3> QED
      BY <3>2, <3>3
  <2>5. ASSUME NEW p \in Procs, Release(p) PROVE Still \/ Turns!Next
    <3>1. pc[p] = "release" /\ job[p] \in Jobs
      BY <2>0, <2>5 DEF Release
    <3>2. \E step \in {"pick", "copy"} : pc' = [pc EXCEPT ![p] = step]
      BY <2>5 DEF Release, NextJob, Goto
    <3>3. \A q \in Procs : q # p => job'[q] = job[q]
      BY <2>0, <2>5 DEF Release, NextJob
    <3>4. Converting(p, job[p]) /\ Leaves(p, job[p])
      BY <2>0, <3>1, <3>2, <3>3 DEF Leaves, Converting
    <3> QED
      BY <2>2, <3>1, <3>4
  <2>6. ASSUME NEW p \in Procs, Crash(p) PROVE Still \/ Turns!Next
    <3>1. pc' = [pc EXCEPT ![p] = "dead"] /\ job' = [job EXCEPT ![p] = None]
      BY <2>6 DEF Crash, Goto
    <3>2. CASE pc[p] \in Inside
      <4>1. job[p] \in Jobs
        BY <2>0, <3>2
      <4>2. Converting(p, job[p]) /\ Leaves(p, job[p])
        BY <2>0, <3>1, <3>2 DEF Leaves, Converting
      <4> QED
        BY <2>2, <4>1, <4>2
    <3>3. CASE pc[p] \notin Inside
      BY <2>0, <2>1, <3>1, <3>3 DEF NothingChanges, Converting
    <3> QED
      BY <3>2, <3>3

  <2>7. ASSUME NEW p \in Procs, Poll(p) PROVE NothingChanges
    BY <2>0, <2>7 DEF Poll, Goto, NothingChanges, Converting
  <2>8. ASSUME NEW p \in Procs, BatchEnd(p) PROVE NothingChanges
    BY <2>0, <2>8 DEF BatchEnd, Goto, NothingChanges, Converting
  <2>9. ASSUME NEW p \in Procs, \E j \in Jobs : Pick(p, j) PROVE NothingChanges
    BY <2>0, <2>9 DEF Pick, Goto, NothingChanges, Converting
  <2>10. ASSUME NEW p \in Procs, CheckAge(p) PROVE NothingChanges
    BY <2>0, <2>10 DEF CheckAge, NextJob, Goto, LockInv, NothingChanges, Converting
  <2>11. ASSUME NEW p \in Procs, RemoveStale(p) PROVE NothingChanges
    BY <2>0, <2>11 DEF RemoveStale, LockInv, NothingChanges, Converting
  <2>12. ASSUME NEW p \in Procs, Recreate(p) PROVE NothingChanges
    BY <2>0, <2>12 DEF Recreate, LockInv, NothingChanges, Converting
  <2>13. ASSUME NEW p \in Procs, ReadInputs(p) PROVE NothingChanges
    BY <2>0, <2>13 DEF ReadInputs, Goto, NothingChanges, Converting
  <2>14. ASSUME NEW p \in Procs, OpenParquet(p) PROVE NothingChanges
    BY <2>0, <2>14 DEF OpenParquet, Goto, NothingChanges, Converting
  <2>15. ASSUME NEW p \in Procs, WriteParquet(p) PROVE NothingChanges
    BY <2>0, <2>15 DEF WriteParquet, Goto, NothingChanges, Converting
  <2>16. ASSUME NEW p \in Procs, ApplyWindow(p) PROVE NothingChanges
    BY <2>0, <2>16 DEF ApplyWindow, Goto, NothingChanges, Converting
  <2>17. ASSUME NEW p \in Procs, FinishConversion(p) PROVE NothingChanges
    BY <2>0, <2>17 DEF FinishConversion, Goto, NothingChanges, Converting
  <2>18. ASSUME NEW p \in Procs, ConversionFails(p) PROVE NothingChanges
    BY <2>0, <2>18 DEF ConversionFails, Goto, NothingChanges, Converting
  <2>19. ASSUME NEW p \in Procs, CopyToRaw(p) PROVE NothingChanges
    BY <2>0, <2>19 DEF CopyToRaw, Goto, NothingChanges, Converting
  <2>20. ASSUME NEW p \in Procs, ArchiveParquet(p) PROVE NothingChanges
    BY <2>0, <2>20 DEF ArchiveParquet, Goto, NothingChanges, Converting
  <2>21. ASSUME NEW p \in Procs, CommitRow(p) PROVE NothingChanges
    BY <2>0, <2>21 DEF CommitRow, Goto, NextJob, NothingChanges, Converting
  <2>22. ASSUME NEW p \in Procs, PublishFails(p) PROVE NothingChanges
    BY <2>0, <2>22 DEF PublishFails, Goto, NothingChanges, Converting
  <2>23. ASSUME NEW p \in Procs, Restart(p) PROVE NothingChanges
    BY <2>0, <2>23 DEF Restart, Goto, NothingChanges, Converting
  <2>24. CASE UNCHANGED vars
    BY <2>24 DEF vars, TurnOf, Converting
  <2> QED
    BY <2>1, <2>2, <2>3, <2>4, <2>5, <2>6, <2>7, <2>8, <2>9, <2>10, <2>11, <2>12, <2>13, <2>14, <2>15, <2>16, <2>17, <2>18, <2>19, <2>20, <2>21, <2>22, <2>23, <2>24
    DEF Next, Step, Batch, Lock, Convert, Publish
<1> QED
  BY <1>1, <1>2, TypeCorrect, LockKept, LockExcludes, PTL DEF Spec, TakesTurns, Turns!Spec, TurnOf

----------------------------------------------------------------------------
(* One daemon, nothing fails and no Parquet file vanishes: what the row says *)
(* is what the Parquet file was made from.                                  *)

OneDaemon     == \A p, q \in Procs : p = q
NothingBreaks == MaxFailures = 0 /\ MaxLosses = 0

Converted == {"finish", "release", "copy", "archive", "commit"}

(* The daemon takes up, and has in hand, Jobs that need it; the window it   *)
(* has not committed, the Parquet file and its copy are those of the        *)
(* conversion in hand, from the step that makes each of them on.            *)
AtWork(p) ==
    /\ \A j \in todo[p] : NeedsProcessing(j)
    /\ pc[p] \in Working => NeedsProcessing(job[p]) /\ job[p] \notin todo[p]
    /\ \A j \in Jobs : dirty[p][j] # {} => pc[p] \in Converted /\ j = job[p]
    /\ pc[p] \in Converted => dirty[p][job[p]] = input[p]
    /\ pc[p] \in {"window", "finish", "release", "copy"} => work[job[p]] = input[p]
    /\ pc[p] \in {"archive", "commit"} => raw[job[p]] = input[p]
    /\ pc[p] \in Converted \cup {"open", "write", "window"} => "tdms" \in input[p]

(* The row and the Parquet file of a converted Job only differ while the    *)
(* Job is due.                                                              *)
Agree == \A j \in path : "tdms" \in know[j] /\ raw[j] # {} /\ (raw[j] = row[j] \/ NeedsProcessing(j))

BatchInv == Agree /\ \A p \in Procs : AtWork(p)

(* A Job stays due while only facts are learnt about it.                    *)
LEMMA StaysDue ==
    ASSUME NEW j, NeedsProcessing(j), know[j] \subseteq know'[j],
           UNCHANGED <<row, path, raw>>
    PROVE  NeedsProcessing(j)'
  BY DEF NeedsProcessing

(* A step that touches neither rows nor Parquet files.                      *)
LEMMA AgreeStays ==
    ASSUME TypeOK, Agree, \A j \in Jobs : know[j] \subseteq know'[j], UNCHANGED <<row, path, raw>>
    PROVE  Agree'
  BY StaysDue DEF Agree, TypeOK

(* A step of the daemon that changes neither what it works on nor what it   *)
(* made.                                                                    *)
LEMMA WorkStays ==
    ASSUME TypeOK, NEW p \in Procs, AtWork(p), \A j \in Jobs : know[j] \subseteq know'[j],
           UNCHANGED <<row, path, raw, work>>, job'[p] = job[p], todo'[p] = todo[p],
           input'[p] = input[p], dirty'[p] = dirty[p],
           pc'[p] = pc[p]
    PROVE  AtWork(p)'
<1>1. \A j \in todo[p] : NeedsProcessing(j)'
  BY StaysDue DEF AtWork, TypeOK
<1>2. pc[p] \in Working => NeedsProcessing(job[p])'
  BY StaysDue DEF AtWork, TypeOK
<1> QED
  BY <1>1, <1>2 DEF AtWork

(* Every step of the only daemon, if nothing fails or is lost, keeps what it
   knows of the Job in hand and of the Jobs at rest. *)
LEMMA BatchNext ==
    ASSUME OneDaemon, NothingBreaks, TypeOK, BatchInv, [Next]_vars PROVE BatchInv'
<1> USE ConverterAssumption DEF Working, Inside, Publishing, Converted
<1>0. /\ pc \in [Procs -> Working \cup {"poll", "pick", "dead"}]
      /\ job \in [Procs -> Jobs \cup {None}] /\ path \subseteq Jobs
      /\ \A p \in Procs : pc[p] \in Working => job[p] \in Jobs
      /\ todo \in [Procs -> SUBSET Jobs] /\ seen \in [Procs -> SUBSET Jobs]
      /\ input \in [Procs -> SUBSET Facts] /\ dirty \in [Procs -> [Jobs -> SUBSET Facts]]
      /\ know \in [Jobs -> SUBSET Facts] /\ row \in [Jobs -> SUBSET Facts]
      /\ work \in [Jobs -> Contents] /\ raw \in [Jobs -> Contents]
  BY DEF TypeOK
<1>1. ASSUME NEW p \in Procs, AtWork(p)', Agree' PROVE BatchInv'
  <2>1. \A q \in Procs : q = p
    BY DEF OneDaemon
  <2> QED
    BY <1>1, <2>1 DEF BatchInv
<1>2. ASSUME NEW p \in Procs PROVE AtWork(p) /\ Agree
  BY DEF BatchInv
<1>3. ASSUME NEW j \in Jobs,
             \/ LoseParquet(j) \/ ParquetComesBack(j) \/ LockAges(j)
             \/ \E f \in Facts : Learn(j, f)
             \/ \E p \in Procs : RetryTimeReached(p, j)
      PROVE  BatchInv'
  <2>1. ~LoseParquet(j) /\ ~ParquetComesBack(j)
    BY DEF NothingBreaks, TypeOK, LoseParquet, ParquetComesBack
  <2>2. /\ UNCHANGED <<row, path, raw, work, job, todo, input, dirty, pc>>
        /\ \A k \in Jobs : know[k] \subseteq know'[k]
    BY <1>0, <1>3, <2>1 DEF LockAges, Learn, RetryTimeReached, rowVars, fileVars, procVars
  <2> QED
    BY <2>2, WorkStays, AgreeStays DEF BatchInv
<1>4. ASSUME NEW p \in Procs, Poll(p) PROVE BatchInv'
  <2>1. /\ UNCHANGED <<know, row, path, raw, work>>
        /\ pc'[p] = "pick" /\ pc[p] = "poll" /\ job'[p] = job[p] /\ dirty'[p] = dirty[p]
        /\ \A k \in todo'[p] : NeedsProcessing(k)
    BY <1>0, <1>4 DEF Poll, NextJob, Goto, SessionEnds, Own, rowVars, fileVars, procVars
  <2>2. \A k : NeedsProcessing(k)' <=> NeedsProcessing(k)
    BY <2>1 DEF NeedsProcessing
  <2>3. Agree'
    BY <1>2, <2>1, <2>2 DEF Agree
  <2>4. AtWork(p)'
    BY <1>0, <1>2, <2>1, <2>2 DEF AtWork
  <2> QED
    BY <1>1, <2>3, <2>4
<1>5. ASSUME NEW p \in Procs, BatchEnd(p) PROVE BatchInv'
  <2>1. /\ UNCHANGED <<know, row, path, raw, work>>
        /\ pc'[p] = "poll" /\ todo'[p] = {} /\ \A k \in Jobs : dirty'[p][k] = {}
    BY <1>0, <1>5 DEF BatchEnd, NextJob, Goto, SessionEnds, Own, rowVars, fileVars, procVars, NoWindow
  <2>2. \A k : NeedsProcessing(k)' <=> NeedsProcessing(k)
    BY <2>1 DEF NeedsProcessing
  <2>3. Agree'
    BY <1>2, <2>1, <2>2 DEF Agree
  <2>4. AtWork(p)'
    BY <1>0, <1>2, <2>1, <2>2 DEF AtWork
  <2> QED
    BY <1>1, <2>3, <2>4
<1>6. ASSUME NEW p \in Procs, NEW j \in Jobs, Pick(p, j) PROVE BatchInv'
  <2>1. /\ UNCHANGED <<know, row, path, raw, work>>
        /\ pc'[p] = "create" /\ pc[p] = "pick" /\ job'[p] = j /\ j \in todo[p] /\ todo'[p] = todo[p] \ {j}
        /\ input'[p] = input[p] /\ dirty'[p] = dirty[p]
    BY <1>0, <1>6 DEF Pick, NextJob, Goto, SessionEnds, Own, rowVars, fileVars, procVars
  <2>2. \A k : NeedsProcessing(k)' <=> NeedsProcessing(k)
    BY <2>1 DEF NeedsProcessing
  <2>3. Agree'
    BY <1>2, <2>1, <2>2 DEF Agree
  <2>4. AtWork(p)'
    BY <1>0, <1>2, <2>1, <2>2 DEF AtWork
  <2> QED
    BY <1>1, <2>3, <2>4
<1>7. ASSUME NEW p \in Procs, Create(p) PROVE BatchInv'
  <2>1. /\ UNCHANGED <<know, row, path, raw, work>>
        /\ pc'[p] \in {"read", "age"} /\ pc[p] = "create"
        /\ job'[p] = job[p] /\ todo'[p] = todo[p] /\ input'[p] = input[p] /\ dirty'[p] = dirty[p]
    BY <1>0, <1>7 DEF Create, NextJob, Goto, SessionEnds, Own, rowVars, fileVars, procVars
  <2>2. \A k : NeedsProcessing(k)' <=> NeedsProcessing(k)
    BY <2>1 DEF NeedsProcessing
  <2>3. Agree'
    BY <1>2, <2>1, <2>2 DEF Agree
  <2>4. AtWork(p)'
    BY <1>0, <1>2, <2>1, <2>2 DEF AtWork
  <2> QED
    BY <1>1, <2>3, <2>4
<1>8. ASSUME NEW p \in Procs, CheckAge(p) PROVE BatchInv'
  <2>1. /\ UNCHANGED <<know, row, path, raw, work>>
        /\ pc[p] = "age"
        /\ ((pc'[p] = "remove" /\ job'[p] = job[p]) \/ pc'[p] = "pick")
        /\ todo'[p] = todo[p] /\ dirty'[p] = dirty[p]
    BY <1>0, <1>8 DEF CheckAge, NextJob, Goto, SessionEnds, Own, rowVars, fileVars, procVars
  <2>2. \A k : NeedsProcessing(k)' <=> NeedsProcessing(k)
    BY <2>1 DEF NeedsProcessing
  <2>3. Agree'
    BY <1>2, <2>1, <2>2 DEF Agree
  <2>4. AtWork(p)'
    BY <1>0, <1>2, <2>1, <2>2 DEF AtWork
  <2> QED
    BY <1>1, <2>3, <2>4
<1>9. ASSUME NEW p \in Procs, RemoveStale(p) PROVE BatchInv'
  <2>1. /\ UNCHANGED <<know, row, path, raw, work>>
        /\ pc[p] = "remove"
        /\ ((pc'[p] = "recreate" /\ job'[p] = job[p]) \/ pc'[p] = "pick")
        /\ todo'[p] = todo[p] /\ dirty'[p] = dirty[p]
    BY <1>0, <1>9 DEF RemoveStale, NextJob, Goto, SessionEnds, Own, rowVars, fileVars, procVars
  <2>2. \A k : NeedsProcessing(k)' <=> NeedsProcessing(k)
    BY <2>1 DEF NeedsProcessing
  <2>3. Agree'
    BY <1>2, <2>1, <2>2 DEF Agree
  <2>4. AtWork(p)'
    BY <1>0, <1>2, <2>1, <2>2 DEF AtWork
  <2> QED
    BY <1>1, <2>3, <2>4
<1>10. ASSUME NEW p \in Procs, Recreate(p) PROVE BatchInv'
  <2>1. /\ UNCHANGED <<know, row, path, raw, work>>
        /\ pc[p] = "recreate"
        /\ ((pc'[p] = "read" /\ job'[p] = job[p]) \/ pc'[p] = "pick")
        /\ todo'[p] = todo[p] /\ dirty'[p] = dirty[p]
    BY <1>0, <1>10 DEF Recreate, NextJob, Goto, SessionEnds, Own, rowVars, fileVars, procVars
  <2>2. \A k : NeedsProcessing(k)' <=> NeedsProcessing(k)
    BY <2>1 DEF NeedsProcessing
  <2>3. Agree'
    BY <1>2, <2>1, <2>2 DEF Agree
  <2>4. AtWork(p)'
    BY <1>0, <1>2, <2>1, <2>2 DEF AtWork
  <2> QED
    BY <1>1, <2>3, <2>4
<1>11. ASSUME NEW p \in Procs, Release(p) PROVE BatchInv'
  <2>0. input[p] # {}
    BY <1>2, <1>11 DEF Release, AtWork
  <2>1. /\ UNCHANGED <<know, row, path, raw, work>>
        /\ pc[p] = "release" /\ pc'[p] = "copy" /\ input[p] # {}
        /\ job'[p] = job[p] /\ todo'[p] = todo[p] /\ input'[p] = input[p] /\ dirty'[p] = dirty[p]
    BY <1>0, <1>11, <2>0 DEF Release, NextJob, Goto, SessionEnds, Own, rowVars, fileVars, procVars
  <2>2. \A k : NeedsProcessing(k)' <=> NeedsProcessing(k)
    BY <2>1 DEF NeedsProcessing
  <2>3. Agree'
    BY <1>2, <2>1, <2>2 DEF Agree
  <2>4. AtWork(p)'
    BY <1>0, <1>2, <2>1, <2>2 DEF AtWork
  <2> QED
    BY <1>1, <2>3, <2>4
<1>12. ASSUME NEW p \in Procs, ReadInputs(p) PROVE BatchInv'
  <2>1. /\ UNCHANGED <<know, row, path, raw, work>>
        /\ pc[p] = "read" /\ pc'[p] = "open" /\ "tdms" \in input'[p]
        /\ job'[p] = job[p] /\ todo'[p] = todo[p] /\ dirty'[p] = dirty[p]
    BY <1>0, <1>12 DEF ReadInputs, NextJob, Goto, SessionEnds, Own, rowVars, fileVars, procVars
  <2>2. \A k : NeedsProcessing(k)' <=> NeedsProcessing(k)
    BY <2>1 DEF NeedsProcessing
  <2>3. Agree'
    BY <1>2, <2>1, <2>2 DEF Agree
  <2>4. AtWork(p)'
    BY <1>0, <1>2, <2>1, <2>2 DEF AtWork
  <2> QED
    BY <1>1, <2>3, <2>4
<1>13. ASSUME NEW p \in Procs, OpenParquet(p) PROVE BatchInv'
  <2>1. /\ UNCHANGED <<know, row, path, raw>>
        /\ pc[p] = "open" /\ pc'[p] = "write"
        /\ job'[p] = job[p] /\ todo'[p] = todo[p] /\ input'[p] = input[p] /\ dirty'[p] = dirty[p]
    BY <1>0, <1>13 DEF OpenParquet, NextJob, Goto, SessionEnds, Own, rowVars, fileVars, procVars
  <2>2. \A k : NeedsProcessing(k)' <=> NeedsProcessing(k)
    BY <2>1 DEF NeedsProcessing
  <2>3. Agree'
    BY <1>2, <2>1, <2>2 DEF Agree
  <2>4. AtWork(p)'
    BY <1>0, <1>2, <2>1, <2>2 DEF AtWork
  <2> QED
    BY <1>1, <2>3, <2>4
<1>14. ASSUME NEW p \in Procs, WriteParquet(p) PROVE BatchInv'
  <2>1. /\ UNCHANGED <<know, row, path, raw>>
        /\ pc[p] = "write" /\ pc'[p] = "window" /\ work'[job[p]] = input[p]
        /\ job'[p] = job[p] /\ todo'[p] = todo[p] /\ input'[p] = input[p] /\ dirty'[p] = dirty[p]
    BY <1>0, <1>14 DEF WriteParquet, NextJob, Goto, SessionEnds, Own, rowVars, fileVars, procVars
  <2>2. \A k : NeedsProcessing(k)' <=> NeedsProcessing(k)
    BY <2>1 DEF NeedsProcessing
  <2>3. Agree'
    BY <1>2, <2>1, <2>2 DEF Agree
  <2>4. AtWork(p)'
    BY <1>0, <1>2, <2>1, <2>2 DEF AtWork
  <2> QED
    BY <1>1, <2>3, <2>4
<1>15. ASSUME NEW p \in Procs, ApplyWindow(p) PROVE BatchInv'
  <2>1. /\ UNCHANGED <<know, row, path, raw, work>>
        /\ pc[p] = "window" /\ pc'[p] = "finish"
        /\ dirty'[p][job[p]] = input[p] /\ \A k \in Jobs : k # job[p] => dirty'[p][k] = dirty[p][k]
        /\ job'[p] = job[p] /\ todo'[p] = todo[p] /\ input'[p] = input[p]
    BY <1>0, <1>15 DEF ApplyWindow, NextJob, Goto, SessionEnds, Own, rowVars, fileVars, procVars
  <2>2. \A k : NeedsProcessing(k)' <=> NeedsProcessing(k)
    BY <2>1 DEF NeedsProcessing
  <2>3. Agree'
    BY <1>2, <2>1, <2>2 DEF Agree
  <2>4. AtWork(p)'
    BY <1>0, <1>2, <2>1, <2>2 DEF AtWork
  <2> QED
    BY <1>1, <2>3, <2>4
<1>16. ASSUME NEW p \in Procs, FinishConversion(p) PROVE BatchInv'
  <2>1. /\ UNCHANGED <<know, row, path, raw, work>>
        /\ pc[p] = "finish" /\ pc'[p] = "release"
        /\ job'[p] = job[p] /\ todo'[p] = todo[p] /\ input'[p] = input[p] /\ dirty'[p] = dirty[p]
    BY <1>0, <1>16 DEF FinishConversion, NextJob, Goto, SessionEnds, Own, rowVars, fileVars, procVars
  <2>2. \A k : NeedsProcessing(k)' <=> NeedsProcessing(k)
    BY <2>1 DEF NeedsProcessing
  <2>3. Agree'
    BY <1>2, <2>1, <2>2 DEF Agree
  <2>4. AtWork(p)'
    BY <1>0, <1>2, <2>1, <2>2 DEF AtWork
  <2> QED
    BY <1>1, <2>3, <2>4
<1>17. ASSUME NEW p \in Procs, ConversionFails(p) PROVE BatchInv'
  BY <1>17, <1>0 DEF ConversionFails, NothingBreaks, TypeOK
<1>18. ASSUME NEW p \in Procs, CopyToRaw(p) PROVE BatchInv'
  <2>1. /\ UNCHANGED <<know, row, path, work>> /\ job[p] \in Jobs
        /\ pc[p] = "copy" /\ pc'[p] = "archive"
        /\ job'[p] = job[p] /\ todo'[p] = todo[p] /\ input'[p] = input[p] /\ dirty'[p] = dirty[p]
        /\ raw'[job[p]] = work[job[p]] /\ \A k \in Jobs : k # job[p] => raw'[k] = raw[k]
    BY <1>0, <1>18 DEF CopyToRaw, Goto, rowVars
  <2>2. NeedsProcessing(job[p]) /\ work[job[p]] = input[p] /\ input[p] # {}
    BY <1>2, <2>1 DEF AtWork
  <2>3. \A k \in Jobs : NeedsProcessing(k) => NeedsProcessing(k)'
    <3> SUFFICES ASSUME NEW k \in Jobs, NeedsProcessing(k) PROVE NeedsProcessing(k)'
      OBVIOUS
    <3>1. k \in path => raw[k] # {}
      BY <1>2 DEF Agree
    <3> QED
      BY <2>1, <3>1 DEF NeedsProcessing
  <2>4. Agree'
    <3> SUFFICES ASSUME NEW k \in path PROVE "tdms" \in know[k] /\ raw'[k] # {} /\ (raw'[k] = row[k] \/ NeedsProcessing(k)')
      BY <2>1 DEF Agree
    <3>1. CASE k = job[p]
      BY <1>0, <1>2, <2>1, <2>2, <2>3, <3>1 DEF Agree
    <3>2. CASE k # job[p]
      BY <1>0, <1>2, <2>1, <2>3, <3>2 DEF Agree
    <3> QED
      BY <3>1, <3>2
  <2>5. AtWork(p)'
    <3>1. \A k \in todo'[p] : NeedsProcessing(k)'
      BY <1>0, <1>2, <2>1, <2>3 DEF AtWork
    <3> QED
      BY <1>2, <2>1, <2>2, <2>3, <3>1 DEF AtWork
  <2> QED
    BY <1>1, <2>4, <2>5
<1>19. ASSUME NEW p \in Procs, ArchiveParquet(p) PROVE BatchInv'
  <2>1. /\ UNCHANGED <<know, row, path, raw, work>>
        /\ pc[p] = "archive" /\ pc'[p] = "commit"
        /\ job'[p] = job[p] /\ todo'[p] = todo[p] /\ input'[p] = input[p] /\ dirty'[p] = dirty[p]
    BY <1>0, <1>19 DEF ArchiveParquet, NextJob, Goto, SessionEnds, Own, rowVars, fileVars, procVars
  <2>2. \A k : NeedsProcessing(k)' <=> NeedsProcessing(k)
    BY <2>1 DEF NeedsProcessing
  <2>3. Agree'
    BY <1>2, <2>1, <2>2 DEF Agree
  <2>4. AtWork(p)'
    BY <1>0, <1>2, <2>1, <2>2 DEF AtWork
  <2> QED
    BY <1>1, <2>3, <2>4
<1>20. ASSUME NEW p \in Procs, CommitRow(p) PROVE BatchInv'
  <2>1. /\ UNCHANGED <<know, raw, work>> /\ job[p] \in Jobs /\ pc[p] = "commit" /\ pc'[p] = "pick"
        /\ todo'[p] = todo[p] /\ path' = path \cup {job[p]} /\ \A k \in Jobs : dirty'[p][k] = {}
        /\ \A k \in Jobs : row'[k] = IF dirty[p][k] # {} THEN dirty[p][k] ELSE row[k]
    BY <1>0, <1>20 DEF CommitRow, Goto, NextJob, NoWindow, fileVars
  <2>2. /\ input[p] # {} /\ NeedsProcessing(job[p]) /\ raw[job[p]] = input[p] /\ dirty[p][job[p]] = input[p]
        /\ job[p] \notin todo[p] /\ \A k \in Jobs : k # job[p] => dirty[p][k] = {}
    BY <1>2, <2>1 DEF AtWork
  <2>3. row'[job[p]] = raw[job[p]] /\ \A k \in Jobs : k # job[p] => row'[k] = row[k]
    BY <2>1, <2>2
  <2>4. \A k \in Jobs : k # job[p] /\ NeedsProcessing(k) => NeedsProcessing(k)'
    BY <2>1, <2>3 DEF NeedsProcessing
  <2>5. Agree'
    <3> SUFFICES ASSUME NEW k \in path' PROVE "tdms" \in know[k] /\ raw'[k] # {} /\ (raw'[k] = row'[k] \/ NeedsProcessing(k)')
      BY <2>1 DEF Agree
    <3>1. CASE k = job[p]
      BY <2>1, <2>2, <2>3, <3>1 DEF NeedsProcessing
    <3>2. CASE k # job[p]
      BY <1>0, <1>2, <2>1, <2>3, <2>4, <3>2 DEF Agree
    <3> QED
      BY <3>1, <3>2
  <2>6. AtWork(p)'
    <3>1. \A k \in todo'[p] : NeedsProcessing(k)'
      BY <1>0, <1>2, <2>1, <2>2, <2>4 DEF AtWork
    <3> QED
      BY <2>1, <3>1 DEF AtWork
  <2> QED
    BY <1>1, <2>5, <2>6
<1>21. ASSUME NEW p \in Procs, PublishFails(p) PROVE BatchInv'
  BY <1>21, <1>0 DEF PublishFails, NothingBreaks, TypeOK
<1>22. ASSUME NEW p \in Procs, Crash(p) PROVE BatchInv'
  <2>1. /\ UNCHANGED <<know, row, path, raw, work>>
        /\ pc'[p] = "dead" /\ todo'[p] = {} /\ \A k \in Jobs : dirty'[p][k] = {}
    BY <1>0, <1>22 DEF Crash, NextJob, Goto, SessionEnds, Own, rowVars, fileVars, procVars, NoWindow
  <2>2. \A k : NeedsProcessing(k)' <=> NeedsProcessing(k)
    BY <2>1 DEF NeedsProcessing
  <2>3. Agree'
    BY <1>2, <2>1, <2>2 DEF Agree
  <2>4. AtWork(p)'
    BY <1>0, <1>2, <2>1, <2>2 DEF AtWork
  <2> QED
    BY <1>1, <2>3, <2>4
<1>23. ASSUME NEW p \in Procs, Restart(p) PROVE BatchInv'
  <2>1. /\ UNCHANGED <<know, row, path, raw, work>>
        /\ pc'[p] = "poll" /\ pc[p] = "dead"
        /\ job'[p] = job[p] /\ todo'[p] = todo[p] /\ input'[p] = input[p] /\ dirty'[p] = dirty[p]
    BY <1>0, <1>23 DEF Restart, NextJob, Goto, SessionEnds, Own, rowVars, fileVars, procVars
  <2>2. \A k : NeedsProcessing(k)' <=> NeedsProcessing(k)
    BY <2>1 DEF NeedsProcessing
  <2>3. Agree'
    BY <1>2, <2>1, <2>2 DEF Agree
  <2>4. AtWork(p)'
    BY <1>0, <1>2, <2>1, <2>2 DEF AtWork
  <2> QED
    BY <1>1, <2>3, <2>4
<1>24. CASE UNCHANGED vars
  BY <1>24, WorkStays, AgreeStays DEF BatchInv, vars, rowVars, fileVars, procVars
<1> QED
  BY <1>3, <1>4, <1>5, <1>6, <1>7, <1>8, <1>9, <1>10, <1>11, <1>12, <1>13, <1>14,
     <1>15, <1>16, <1>17, <1>18, <1>19, <1>20, <1>21, <1>22, <1>23, <1>24
  DEF Next, Step, Batch, Lock, Convert, Publish

(* BatchInv holds in every state. *)
LEMMA BatchCorrect == ASSUME OneDaemon, NothingBreaks PROVE Spec => []BatchInv
<1>1. Init => BatchInv
  BY DEF Init, BatchInv, Agree, AtWork, NoWindow, Working, Inside, Publishing, Converted
<1>2. TypeOK /\ BatchInv /\ [Next]_vars => BatchInv'
  BY OneDaemon, NothingBreaks, BatchNext
<1> QED
  BY <1>1, <1>2, TypeCorrect, PTL DEF Spec

(* One daemon, killed and restarted at any step and meeting its own old     *)
(* locks: whenever it has nothing left to do for a Job, the window in the   *)
(* row and the Parquet file people see come from the same conversion.       *)
THEOREM RowMatchesParquet ==
    ASSUME OneDaemon, NothingBreaks PROVE Spec => []WindowMatchesParquet
<1>1. BatchInv => WindowMatchesParquet
  BY DEF BatchInv, Agree, WindowMatchesParquet
<1> QED
  BY <1>1, BatchCorrect, PTL

(* ... and under the same conditions that conversion used the NC program if *)
(* there is one, and then the metadata if there is any: what                *)
(* _needs_processing looks for is all that can be out of date.              *)
THEOREM ParquetIsCurrent ==
    ASSUME OneDaemon, NothingBreaks PROVE Spec => []SettledParquetIsCurrent
<1>1. BatchInv => SettledParquetIsCurrent
  BY DEF BatchInv, Agree, SettledParquetIsCurrent, NeedsProcessing
<1> QED
  BY <1>1, BatchCorrect, PTL
=============================================================================
