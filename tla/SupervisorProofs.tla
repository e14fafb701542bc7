--------------------------- MODULE SupervisorProofs ---------------------------
(* Theorems about Supervisor, for any modules and any number of processes.  *)
EXTENDS Supervisor, SequenceTheorems, FiniteSetTheorems, TLAPS

(* A card never holds the handle of a process that is not started yet.      *)
HandlesAreStarted == \A m \in Modules : handle[m] <= started

(* A process is put into the job object right after it is started: the call *)
(* is the next one, and the card holds the process.                         *)
AssignIsNext ==
    \A k \in 1 .. Len(calls) :
        calls[k][1] = "assign" => k = 1 /\ handle[calls[k][2]] # NoProc

TypeInv == TypeOK /\ HandlesAreStarted /\ AssignIsNext

(* A finite set is listed as a sequence of its members.                     *)
LEMMA SetToSeqType ==
    ASSUME NEW S, IsFiniteSet(S) PROVE SetToSeq(S) \in Seq(S)
<1>1. Cardinality(S) \in Nat /\ ExistsBijection(1 .. Cardinality(S), S)
  BY FS_CardinalityType
<1>2. \E f \in [1 .. Cardinality(S) -> S] : IsInjective(f)
  BY <1>1 DEF ExistsBijection, Bijection, Injection
<1>3. SetToSeq(S) \in [1 .. Cardinality(S) -> S]
  BY <1>2 DEF SetToSeq
<1> QED
  BY <1>1, <1>3, SeqDef

(* The handlers of the buttons for all cards are calls of one function.     *)
LEMMA AllType ==
    ASSUME NEW call \in {"start", "stop"} 
    PROVE  /\ All(call) \in Seq(Calls)
           /\ \A k \in 1 .. Len(All(call)) : All(call)[k][1] = call
<1>1. IsFiniteSet({call} \X Modules)
  BY FS_Singleton, FS_Product, SupervisorAssumption
<1>2. All(call) \in Seq({call} \X Modules)
  BY <1>1, SetToSeqType DEF All
<1>3. {call} \X Modules \subseteq Calls
  BY DEF Calls
<1>4. All(call) \in Seq(Calls)
  BY <1>2, <1>3, SeqDef
<1>5. \A k \in 1 .. Len(All(call)) : All(call)[k] \in {call} \X Modules
  BY <1>2
<1> QED
  BY <1>4, <1>5

(* When a call is done the others stay, and none of them puts a process     *)
(* into the job object.                                                     *)
LEMMA CallDone ==
    ASSUME TypeInv, calls # <<>>, calls' = Tail(calls), handle' = handle
    PROVE  calls' \in Seq(Calls) /\ AssignIsNext'
<1>1. calls \in Seq(Calls)
  BY DEF TypeInv, TypeOK
<1>2. /\ calls' \in Seq(Calls) /\ Len(calls') = Len(calls) - 1
      /\ \A k \in 1 .. Len(calls') : calls'[k] = calls[k + 1]
  BY <1>1
<1>3. \A k \in 1 .. Len(calls') : calls'[k][1] # "assign"
  BY <1>1, <1>2 DEF TypeInv, AssignIsNext
<1> QED
  BY <1>2, <1>3 DEF AssignIsNext

(* The process to be put into the job object is one that was started.       *)
LEMMA AssignHolds ==
    ASSUME TypeInv, NEW m \in Modules, calls # <<>>, Head(calls) = <<"assign", m>>
    PROVE  handle[m] \in 1 .. started
<1>1. calls \in Seq(Calls)
  BY DEF TypeInv, TypeOK
<1>2. 1 \in 1 .. Len(calls) /\ calls[1] = <<"assign", m>>
  BY <1>1
<1>3. calls[1][1] = "assign" /\ calls[1][2] = m
  BY <1>2
<1>4. handle[calls[1][2]] # NoProc
  BY <1>2, <1>3 DEF TypeInv, AssignIsNext
<1>5. handle[m] # 0 /\ handle[m] \in Procs \cup {0} /\ handle[m] <= started
  BY <1>3, <1>4 DEF TypeInv, TypeOK, HandlesAreStarted, NoProc
<1>6. started \in 0 .. MaxStarts
  BY DEF TypeInv, TypeOK
<1> QED
  BY <1>5, <1>6, SupervisorAssumption DEF Procs

(* Closing handles keeps the cards right.                                   *)
LEMMA ReapType ==
    ASSUME TypeInv, NEW ms \in SUBSET Modules, Reap(ms), started' = started, owner' = owner
    PROVE  /\ handle' \in [Modules -> Procs \cup {NoProc}]
           /\ isRunning' \in [Modules -> BOOLEAN] /\ stopping' \in [Modules -> BOOLEAN]
           /\ \A m \in Modules : isRunning'[m] <=> handle'[m] # NoProc /\ owner'[handle'[m]] = m
           /\ HandlesAreStarted'
<1> USE SupervisorAssumption DEF TypeInv, TypeOK, NoProc
<1>1. handle' \in [Modules -> Procs \cup {NoProc}]
  BY DEF Reap
<1>2. isRunning' \in [Modules -> BOOLEAN] /\ stopping' \in [Modules -> BOOLEAN]
  BY DEF Reap
<1>3. ASSUME NEW m \in Modules
      PROVE  isRunning'[m] <=> handle'[m] # NoProc /\ owner'[handle'[m]] = m
  <2>1. CASE m \in ms
    BY <2>1 DEF Reap
  <2>2. CASE m \notin ms
    <3>1. handle'[m] = handle[m] /\ isRunning'[m] = isRunning[m]
      BY <2>2 DEF Reap
    <3> QED
      BY <3>1
  <2> QED
    BY <2>1, <2>2
<1>4. HandlesAreStarted'
  BY DEF Reap, HandlesAreStarted
<1> QED
  BY <1>1, <1>2, <1>3, <1>4

(* The invariant holds when the controller starts. *)
LEMMA TypeInit == Init => TypeInv
  BY SupervisorAssumption
  DEF Init, TypeInv, TypeOK, HandlesAreStarted, AssignIsNext, NoProc, Procs

(* Every message, click, timer and exit keeps the invariant. *)
LEMMA TypeStep == TypeInv /\ [Next]_vars => TypeInv'
<1> SUFFICES ASSUME TypeInv, [Next]_vars PROVE TypeInv'
  OBVIOUS
<1> USE SupervisorAssumption
    DEF TypeInv, TypeOK, HandlesAreStarted, Procs, NoProc, cardVars, procVars
<1>1. CASE User
  <2>1. CASE \E m \in Modules : Toggle(m)
    <3>1. PICK m \in Modules : Toggle(m)
      BY <2>1
    <3>2. calls' \in Seq(Calls) /\ Len(calls') = 1 /\ calls'[1][1] \in {"start", "stop"}
      BY <3>1 DEF Toggle, Click, Calls
    <3>3. AssignIsNext'
      BY <3>2 DEF AssignIsNext
    <3> QED
      BY <3>1, <3>2, <3>3 DEF Toggle, Click
  <2>2. CASE StartAll \/ StopAll \/ CloseWindow
    <3>1. PICK call \in {"start", "stop"} : calls' = All(call)
      BY <2>2 DEF StartAll, StopAll, CloseWindow, Click
    <3>2. calls' \in Seq(Calls) /\ AssignIsNext'
      BY <3>1, AllType DEF AssignIsNext
    <3> QED
      BY <2>2, <3>2 DEF StartAll, StopAll, CloseWindow, Click
  <2> QED
    BY <1>1, <2>1, <2>2 DEF User
<1>2. ASSUME NEW m \in Modules, StartModule(m) PROVE TypeInv'
  <2>1. started + 1 \in Procs /\ started + 1 # 0
    BY <1>2 DEF StartModule
  <2>2. /\ handle' = [handle EXCEPT ![m] = started + 1]
        /\ owner' = [owner EXCEPT ![started + 1] = m]
        /\ isRunning' = [isRunning EXCEPT ![m] = TRUE]
        /\ started' = started + 1
    BY <1>2 DEF StartModule
  <2>3. calls' \in Seq(Calls) /\ AssignIsNext'
    <3>1. calls # <<>> /\ calls' = <<<<"assign", m>>>> \o Tail(calls)
      BY <1>2 DEF StartModule, NextCall
    <3>2. <<"assign", m>> \in Calls
      BY DEF Calls
    <3>3. /\ calls' \in Seq(Calls) /\ Len(calls') = Len(calls) /\ calls'[1] = <<"assign", m>>
          /\ \A k \in 2 .. Len(calls') : calls'[k] = calls[k]
      BY <3>1, <3>2
    <3>4. \A k \in 2 .. Len(calls') : calls'[k][1] # "assign"
      BY <3>3 DEF AssignIsNext
    <3>5. handle'[m] # NoProc
      BY <2>1, <2>2
    <3> QED
      BY <3>3, <3>4, <3>5 DEF AssignIsNext
  <2>4. ASSUME NEW n \in Modules
        PROVE  /\ isRunning'[n] <=> handle'[n] # NoProc /\ owner'[handle'[n]] = n
               /\ handle'[n] <= started'
    <3>1. CASE n = m
      BY <2>1, <2>2, <3>1
    <3>2. CASE n # m
      <4>1. handle'[n] = handle[n] /\ isRunning'[n] = isRunning[n] /\ handle[n] <= started
        BY <2>2, <3>2
      <4>2. handle[n] # 0 => owner'[handle[n]] = owner[handle[n]]
        BY <2>1, <2>2, <4>1
      <4> QED
        BY <4>1, <4>2, <2>2
    <3> QED
      BY <3>1, <3>2
  <2> QED
    BY <1>2, <2>1, <2>2, <2>3, <2>4 DEF StartModule
<1>3. ASSUME NEW m \in Modules, StartRefused(m) PROVE TypeInv'
  <2>1. calls' \in Seq(Calls) /\ AssignIsNext'
    BY <1>3, CallDone DEF StartRefused, NextCall
  <2> QED
    BY <1>3, <2>1 DEF StartRefused
<1>4. ASSUME NEW m \in Modules, AssignProcessToJobObject(m) PROVE TypeInv'
  <2>1. calls' \in Seq(Calls) /\ AssignIsNext'
    BY <1>4, CallDone DEF AssignProcessToJobObject, NextCall
  <2>3. handle[m] \in 1 .. started
    BY <1>4, AssignHolds DEF AssignProcessToJobObject, NextCall
  <2>4. inJob' \subseteq 1 .. started /\ started' = started
    BY <1>4, <2>3 DEF AssignProcessToJobObject, InJobAfter
  <2> QED
    BY <1>4, <2>1, <2>4 DEF AssignProcessToJobObject
<1>5. ASSUME NEW m \in Modules, StopModule(m) PROVE TypeInv'
  <2>1. calls' \in Seq(Calls) /\ AssignIsNext'
    BY <1>5, CallDone DEF StopModule, NextCall
  <2>2. stopping' \in [Modules -> BOOLEAN]
    BY <1>5 DEF StopModule
  <2>3. killing' \subseteq Procs
    <3>1. CASE isRunning[m] /\ handle[m] # NoProc
      <4>1. handle[m] \in Procs
        BY <3>1
      <4>2. killing' = killing \cup {handle[m]}
        BY <1>5, <3>1 DEF StopModule
      <4> QED
        BY <4>1, <4>2
    <3>2. CASE ~(isRunning[m] /\ handle[m] # NoProc)
      BY <1>5, <3>2 DEF StopModule
    <3> QED
      BY <3>1, <3>2
  <2> QED
    BY <1>5, <2>1, <2>2, <2>3 DEF StopModule
<1>6. CASE ProcExited
  <2>1. Head(posted) \in Modules /\ posted' \in Seq(Modules)
    BY <1>6 DEF ProcExited
  <2>2. calls' = <<>> /\ Reap({Head(posted)})
    BY <1>6 DEF ProcExited, Free
  <2>3. AssignIsNext'
    BY <2>2 DEF AssignIsNext
  <2>4. started' = started /\ owner' = owner
    BY <1>6 DEF ProcExited
  <2> QED
    BY <1>6, <2>1, <2>2, <2>3, <2>4, ReapType DEF ProcExited
<1>7. CASE Timer
  <2>1. calls' = <<>> /\ Reap(Ended)
    BY <1>7 DEF Timer, Free
  <2>2. AssignIsNext'
    BY <2>1 DEF AssignIsNext
  <2>3. started' = started /\ owner' = owner /\ Ended \subseteq Modules
    BY <1>7 DEF Timer, Ended
  <2> QED
    BY <1>7, <2>1, <2>2, <2>3, ReapType DEF Timer
<1>8. CASE Destroy \/ ControllerKilled
  <2>1. JobCloses
    BY <1>8 DEF Destroy, ControllerKilled
  <2>2. AssignIsNext' /\ calls' \in Seq(Calls) /\ posted' \in Seq(Modules)
    BY <2>1 DEF JobCloses, AssignIsNext
  <2> QED
    BY <2>1, <2>2 DEF JobCloses
<1>9. ASSUME NEW i \in Procs,
             SpawnChild(i) \/ ExitByItself(i) \/ ChildExits(i) \/ TaskKill(i)
      PROVE  TypeInv'
  BY <1>9 DEF SpawnChild, ExitByItself, ChildExits, TaskKill, AssignIsNext
<1>10. ASSUME NEW i \in Procs, ReaderEnds(i) PROVE TypeInv'
  BY <1>10 DEF ReaderEnds, AssignIsNext
<1>11. CASE UNCHANGED vars
  BY <1>11 DEF vars, AssignIsNext
<1> QED
  BY <1>1, <1>2, <1>3, <1>4, <1>5, <1>6, <1>7, <1>8, <1>9, <1>10, <1>11 DEF Next, Handler

(* The cards agree with the processes: a card shows a running module        *)
(* exactly when it holds the handle of a process of that module.            *)
THEOREM TypeCorrect == Spec => []TypeOK
<1>1. TypeInv => TypeOK
  BY DEF TypeInv
<1> QED
  BY <1>1, TypeInit, TypeStep, PTL DEF Spec

----------------------------------------------------------------------------
(* Every process that runs is in the job object, except one that a card     *)
(* holds and that the next call puts there; so is every descendant; and     *)
(* nothing runs once the controller is gone.                                *)
Assigning(i) == /\ calls # <<>>
                /\ \E m \in Modules : Head(calls) = <<"assign", m>> /\ handle[m] = i

JobInv ==
    /\ \A i \in alive : i \in inJob \/ Assigning(i)
    /\ child \subseteq childInJob
    /\ window = "gone" => alive = {} /\ child = {}

(* The window thread comes between CreateProcess and                        *)
(* AssignProcessToJobObject only if it is killed there.                     *)
Undisturbed == ~EarlyKill /\ ~EarlyChild

(* If neither early window is open, every step keeps each living process in
   the job object or about to be put there. *)
LEMMA JobStep ==
    ASSUME Undisturbed, TypeInv, JobInv, [Next]_vars PROVE JobInv'
<1> USE DEF JobInv
<1>1. CASE User \/ ProcExited \/ Timer
  <2>1. /\ calls = <<>> /\ window' # "gone" /\ \A i \in alive : i \in inJob
        /\ UNCHANGED <<alive, child, inJob, childInJob>>
    BY <1>1 DEF User, Toggle, StartAll, StopAll, Click, CloseWindow, ProcExited, Timer, Free,
                Assigning, procVars
  <2> QED
    BY <2>1
<1>2. ASSUME NEW m \in Modules, StartModule(m) PROVE JobInv'
  <2>1. calls # <<>> /\ Head(calls) = <<"start", m>> /\ calls \in Seq(Calls)
    BY <1>2 DEF StartModule, NextCall, TypeInv, TypeOK
  <2>2. \A i \in alive : i \in inJob
    BY <2>1 DEF Assigning
  <2>3. /\ alive' = alive \cup {started + 1} /\ handle'[m] = started + 1
        /\ calls' # <<>> /\ Head(calls') = <<"assign", m>>
    <3>1. calls' = <<<<"assign", m>>>> \o Tail(calls)
      BY <1>2 DEF StartModule
    <3>2. Tail(calls) \in Seq(Calls) /\ <<"assign", m>> \in Calls
      BY <2>1 DEF Calls
    <3> QED
      BY <1>2, <3>1, <3>2 DEF StartModule, TypeInv, TypeOK
  <2>4. \A i \in alive' : i \in inJob \/ Assigning(i)'
    BY <2>2, <2>3 DEF Assigning
  <2>5. UNCHANGED <<window, child, inJob, childInJob>> /\ window # "gone"
    BY <1>2 DEF StartModule, NextCall
  <2> QED
    BY <2>4, <2>5
<1>3. ASSUME NEW m \in Modules, StartRefused(m) \/ StopModule(m) PROVE JobInv'
  <2>1. /\ calls # <<>> /\ window # "gone"
        /\ Head(calls) = <<"start", m>> \/ Head(calls) = <<"stop", m>>
        /\ UNCHANGED <<window, alive, child, inJob, childInJob>>
    BY <1>3 DEF StartRefused, StopModule, NextCall, procVars
  <2>2. \A i \in alive : i \in inJob
    BY <2>1 DEF Assigning
  <2> QED
    BY <2>1, <2>2
<1>4. ASSUME NEW m \in Modules, AssignProcessToJobObject(m) PROVE JobInv'
  <2>1. /\ Head(calls) = <<"assign", m>> /\ inJob' = inJob \cup {handle[m]}
        /\ UNCHANGED <<window, alive, child, childInJob>> /\ window # "gone"
    BY <1>4 DEF AssignProcessToJobObject, InJobAfter, NextCall
  <2>2. \A i \in alive : i \in inJob \/ i = handle[m]
    BY <2>1 DEF Assigning
  <2> QED
    BY <2>1, <2>2
<1>5. CASE Destroy \/ ControllerKilled
  <2>1. \A i \in alive : ~Assigning(i)
    BY <1>5 DEF Destroy, ControllerKilled, NextCall, Assigning, Undisturbed
  <2>2. /\ alive' = alive \ inJob /\ child' = child \ childInJob
    BY <1>5 DEF Destroy, ControllerKilled, JobCloses
  <2> QED
    BY <2>1, <2>2
<1>6. ASSUME NEW i \in Procs, SpawnChild(i) PROVE JobInv'
  BY <1>6 DEF SpawnChild, Undisturbed, Assigning, cardVars
<1>7. ASSUME NEW i \in Procs,
             ExitByItself(i) \/ ChildExits(i) \/ TaskKill(i) \/ ReaderEnds(i)
      PROVE  JobInv'
  BY <1>7 DEF ExitByItself, ChildExits, TaskKill, ReaderEnds, Assigning, cardVars
<1>8. CASE UNCHANGED vars
  BY <1>8 DEF vars, cardVars, procVars, Assigning
<1> QED
  BY <1>1, <1>2, <1>3, <1>4, <1>5, <1>6, <1>7, <1>8 DEF Next, Handler

(* When the controller ends, however it ends, no process it has started and *)
(* no descendant of one is left, among them those it has lost sight of: if  *)
(* it is not killed between CreateProcess and AssignProcessToJobObject and  *)
(* no process starts another in that time.                                  *)
THEOREM JobObjectLeavesNoOrphans == Undisturbed /\ Spec => []NoOrphans
<1> SUFFICES ASSUME Undisturbed PROVE Spec => []NoOrphans
  OBVIOUS
<1>1. Init => JobInv
  BY DEF Init, JobInv
<1>2. TypeInv /\ JobInv /\ [Next]_vars => JobInv'
  BY JobStep
<1>3. JobInv => NoOrphans
  BY DEF JobInv, NoOrphans
<1> QED
  BY <1>1, <1>2, <1>3, TypeInit, TypeStep, PTL DEF Spec
=============================================================================
