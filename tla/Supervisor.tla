----------------------------- MODULE Supervisor -----------------------------
(***************************************************************************)
(* The Windows controller (controller/system_controller.cpp) that starts,  *)
(* watches and stops the four module processes.  Its window thread handles *)
(* one message at a time; each process it starts has a reader thread that  *)
(* posts WM_USER_PROC_EXITED, with the number of the module only, when the *)
(* output pipe is closed.  The pipe is held by the process and by the      *)
(* processes it starts itself.  GetMessage gives posted messages before    *)
(* clicks, and clicks before WM_TIMER.                                     *)
(***************************************************************************)
EXTENDS Naturals, Sequences, FiniteSets, SequencesExt

CONSTANTS
    Modules,        \* the cards of the controller
    MaxStarts,      \* bound: processes started
    EarlyKill,      \* TRUE: the controller may be killed inside StartModule
    EarlyChild      \* TRUE: a process may start another before it is in the job object

ASSUME SupervisorAssumption ==
    /\ IsFiniteSet(Modules) /\ Modules # {}
    /\ MaxStarts \in Nat /\ EarlyKill \in BOOLEAN /\ EarlyChild \in BOOLEAN

Procs == 1 .. MaxStarts
NoProc == 0
Calls == {"start", "assign", "stop"} \X Modules

VARIABLES
    window,     \* the controller: "open", "closing" or "gone"
    calls,      \* calls left in the message handler that is running
    posted,     \* WM_USER_PROC_EXITED messages not yet handled
    handle,     \* hProcess and pid of each card, NoProc when NULL
    isRunning, stopping,    \* the flags of each card
    started,    \* number of processes started so far
    owner,      \* the module a process runs
    alive,      \* processes that run
    child,      \* processes that have a running descendant
    inJob, childInJob,      \* members of the job object
    reader,     \* processes whose reader thread still reads
    killing     \* processes a taskkill /F /T is on its way to

cardVars == <<handle, isRunning, stopping>>
procVars == <<started, owner, alive, child, inJob, childInJob, reader, killing>>
vars == <<window, calls, posted, cardVars, procVars>>

Free == window = "open" /\ calls = <<>>      \* the window thread waits for a message

----------------------------------------------------------------------------
(* The processes.                                                           *)

SpawnChild(i) ==
    /\ i \in alive \ child
    /\ i \in inJob \/ EarlyChild
    /\ child' = child \cup {i}
    /\ childInJob' = IF i \in inJob THEN childInJob \cup {i} ELSE childInJob \ {i}
    /\ UNCHANGED <<window, calls, posted, cardVars, started, owner, alive, inJob, reader,
                   killing>>

ExitByItself(i) ==
    /\ i \in alive
    /\ alive' = alive \ {i}
    /\ UNCHANGED <<window, calls, posted, cardVars, started, owner, child, inJob, childInJob,
                   reader, killing>>

ChildExits(i) ==
    /\ i \in child
    /\ child' = child \ {i}
    /\ UNCHANGED <<window, calls, posted, cardVars, started, owner, alive, inJob, childInJob,
                   reader, killing>>

(* taskkill finds no tree below a process that has ended.                   *)
TaskKill(i) ==
    /\ i \in killing
    /\ killing' = killing \ {i}
    /\ alive' = alive \ {i}
    /\ child' = IF i \in alive THEN child \ {i} ELSE child
    /\ UNCHANGED <<window, calls, posted, cardVars, started, owner, inJob, childInJob, reader>>

(* The reader thread sees the end of the pipe.                              *)
ReaderEnds(i) ==
    /\ i \in reader \ (alive \cup child)
    /\ reader' = reader \ {i}
    /\ posted' = IF window = "gone" THEN posted ELSE Append(posted, owner[i])
    /\ UNCHANGED <<window, calls, cardVars, started, owner, alive, child, inJob, childInJob,
                   killing>>

----------------------------------------------------------------------------
(* Clicks.                                                                  *)

Click(cs) == /\ Free /\ posted = <<>>
             /\ calls' = cs
             /\ UNCHANGED <<window, posted, cardVars, procVars>>

Toggle(m) == Click(<<IF isRunning[m] THEN <<"stop", m>> ELSE <<"start", m>>>>)

All(call) == SetToSeq({call} \X Modules)

StartAll == Click(All("start"))
StopAll  == Click(All("stop"))

CloseWindow ==
    /\ Free /\ posted = <<>>
    /\ window' = "closing"
    /\ calls' = All("stop")
    /\ UNCHANGED <<posted, cardVars, procVars>>

----------------------------------------------------------------------------
(* The handlers.                                                            *)

NextCall(call, m) == /\ window # "gone"
                     /\ calls # <<>>
                     /\ Head(calls) = <<call, m>>

(* StartModule up to CreateProcess.                                         *)
StartModule(m) ==
    /\ NextCall("start", m)
    /\ ~isRunning[m]
    /\ started < MaxStarts
    /\ LET i == started + 1
       IN  /\ started' = i
           /\ owner' = [owner EXCEPT ![i] = m]
           /\ alive' = alive \cup {i}
           /\ reader' = reader \cup {i}
           /\ handle' = [handle EXCEPT ![m] = i]
    /\ isRunning' = [isRunning EXCEPT ![m] = TRUE]
    /\ stopping' = [stopping EXCEPT ![m] = FALSE]
    /\ calls' = <<<<"assign", m>>>> \o Tail(calls)
    /\ UNCHANGED <<window, posted, child, inJob, childInJob, killing>>

(* It runs already, another process listens on its port, or no process can  *)
(* be created.                                                              *)
StartRefused(m) ==
    /\ NextCall("start", m)
    /\ calls' = Tail(calls)
    /\ UNCHANGED <<window, posted, cardVars, procVars>>

(* Mutant: the process is not put into the job object.                      *)
InJobAfterForgotten(m) == inJob

InJobAfter(m) == inJob \cup {handle[m]}

AssignProcessToJobObject(m) ==
    /\ NextCall("assign", m)
    /\ inJob' = InJobAfter(m)
    /\ calls' = Tail(calls)
    /\ UNCHANGED <<window, posted, cardVars, started, owner, alive, child, childInJob, reader,
                   killing>>

(* Mutant: the card is marked, and taskkill is not started.                 *)
StopModuleLate(m) ==
    /\ NextCall("stop", m)
    /\ stopping' = [stopping EXCEPT ![m] = isRunning[m]]
    /\ calls' = Tail(calls)
    /\ UNCHANGED <<window, posted, handle, isRunning, procVars>>

(* taskkill is started, and awaited for three seconds at most.              *)
StopModule(m) ==
    /\ NextCall("stop", m)
    /\ IF isRunning[m] /\ handle[m] # NoProc
       THEN /\ stopping' = [stopping EXCEPT ![m] = TRUE]
            /\ killing' = killing \cup {handle[m]}
       ELSE UNCHANGED <<stopping, killing>>
    /\ calls' = Tail(calls)
    /\ UNCHANGED <<window, posted, handle, isRunning, started, owner, alive, child, inJob,
                   childInJob, reader>>

(* Mutant: the handle is closed, the card goes on as running.               *)
ReapKeepsRunning(ms) ==
    /\ handle' = [m \in Modules |-> IF m \in ms THEN NoProc ELSE handle[m]]
    /\ stopping' = [m \in Modules |-> m \notin ms /\ stopping[m]]
    /\ UNCHANGED isRunning

(* ReapModule: the handle goes, whether the process has ended or not.       *)
Reap(ms) ==
    /\ isRunning' = [m \in Modules |-> m \notin ms /\ isRunning[m]]
    /\ handle' = [m \in Modules |-> IF m \in ms THEN NoProc ELSE handle[m]]
    /\ stopping' = [m \in Modules |-> m \notin {n \in ms : handle[n] # NoProc} /\ stopping[m]]

ProcExited ==
    /\ Free /\ posted # <<>>
    /\ Reap({Head(posted)})
    /\ posted' = Tail(posted)
    /\ UNCHANGED <<window, calls, procVars>>

Ended == {m \in Modules : isRunning[m] /\ handle[m] # NoProc /\ handle[m] \notin alive}

(* Mutant: only a card whose reader thread has ended is looked at.          *)
TimerWaitsForReader ==
    /\ Free /\ posted = <<>>
    /\ LET ms == {m \in Ended : handle[m] \notin reader}
       IN ms # {} /\ Reap(ms)
    /\ UNCHANGED <<window, calls, posted, procVars>>

Timer ==
    /\ Free /\ posted = <<>>
    /\ Ended # {}
    /\ Reap(Ended)
    /\ UNCHANGED <<window, calls, posted, procVars>>

(* The last handle of the job object goes: KILL_ON_JOB_CLOSE.               *)
JobCloses == /\ alive' = alive \ inJob
             /\ child' = child \ childInJob
             /\ window' = "gone"
             /\ calls' = <<>> /\ posted' = <<>>
             /\ UNCHANGED <<cardVars, started, owner, inJob, childInJob, reader, killing>>

Destroy == window = "closing" /\ calls = <<>> /\ JobCloses

ControllerKilled ==
    /\ window # "gone"
    /\ EarlyKill \/ \A m \in Modules : ~NextCall("assign", m)
    /\ JobCloses

----------------------------------------------------------------------------
Init ==
    /\ window = "open" /\ calls = <<>> /\ posted = <<>>
    /\ handle = [m \in Modules |-> NoProc]
    /\ isRunning = [m \in Modules |-> FALSE] /\ stopping = [m \in Modules |-> FALSE]
    /\ started = 0 /\ owner = [i \in Procs |-> CHOOSE m \in Modules : TRUE]
    /\ alive = {} /\ child = {} /\ inJob = {} /\ childInJob = {} /\ reader = {}
    /\ killing = {}

User == StartAll \/ StopAll \/ CloseWindow \/ \E m \in Modules : Toggle(m)

Handler == \/ \E m \in Modules : \/ StartModule(m) \/ StartRefused(m)
                                 \/ AssignProcessToJobObject(m) \/ StopModule(m)
           \/ ProcExited \/ Timer \/ Destroy

Next == \/ User \/ Handler \/ ControllerKilled
        \/ \E i \in Procs : \/ SpawnChild(i) \/ ExitByItself(i) \/ ChildExits(i)
                            \/ TaskKill(i) \/ ReaderEnds(i)

Spec == Init /\ [][Next]_vars

(* The window thread handles its messages and taskkill comes to its end.    *)
(* The timer fires in the pauses between the clicks, hence strong fairness. *)
FairSpec == /\ Spec
            /\ WF_vars(Handler) /\ SF_vars(Timer)
            /\ \A i \in Procs : WF_vars(TaskKill(i))

----------------------------------------------------------------------------
(* The types of all variables; a card is running exactly when it holds the  *)
(* handle of a process of its module (isRunning, hProcess and pid are set   *)
(* and cleared in three functions).                                         *)
TypeOK ==
    /\ window \in {"open", "closing", "gone"}
    /\ calls \in Seq(Calls) /\ posted \in Seq(Modules)
    /\ handle \in [Modules -> Procs \cup {NoProc}]
    /\ isRunning \in [Modules -> BOOLEAN] /\ stopping \in [Modules -> BOOLEAN]
    /\ started \in 0 .. MaxStarts /\ owner \in [Procs -> Modules]
    /\ alive \subseteq 1 .. started /\ child \subseteq Procs /\ reader \subseteq 1 .. started
    /\ inJob \subseteq 1 .. started /\ childInJob \subseteq Procs /\ killing \subseteq Procs
    /\ \A m \in Modules : isRunning[m] <=> handle[m] # NoProc /\ owner[handle[m]] = m

(* No process the controller has started, nor a descendant, outlives it,    *)
(* not even one it has lost sight of.                                       *)
NoOrphans == window = "gone" => alive = {} /\ child = {}

(* A card that shows a process that has ended is put right.                 *)
EndedIsShown ==
    \A m \in Modules : m \in Ended ~> (m \notin Ended \/ window # "open")

(* A process the user stops is killed, or is not the card's any more.       *)
StopIsCarriedOut ==
    \A m \in Modules : stopping[m] ~> (~stopping[m] \/ window # "open")

=============================================================================
