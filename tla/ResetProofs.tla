----------------------------- MODULE ResetProofs -----------------------------
(* Theorems about Reset, for any files, Jobs, modules and bounds.           *)
EXTENDS Reset, TLAPS

Types ==
    /\ raw \subseteq Files /\ vault \subseteq Files /\ rows \subseteq Files
    /\ tables \subseteq AllTables

(* A collector that does not run has nothing in hand.                       *)
Stopped == ~Collecting => queue = {} /\ lost = {} /\ marked = {}

(* What a running collector has marked is in the watch folder.              *)
MarkedIsThere == marked \subseteq raw

(* A reset that nobody races against works with everything stopped.         *)
Working == {"count", "drop", "create", "tools", "master", "sweep"}
AllStopped == pc \in Working /\ ~raced => running = {}

(* A row is in a table that exists.                                         *)
RowsHaveTables == \A f \in rows : TableOf(f) \in tables

(* What a reset of the database has done at each of its stages.             *)
Emptied ==
    ~raced /\ "db" \in chosen =>
        /\ pc = "drop" => \A f \in rows : TableOf(f) \in todo \cup {ToolTable}
        /\ pc \in {"create", "tools", "master", "sweep"} => rows \subseteq ToolFiles

(* Tables are missing only inside a reset of the database or after one that *)
(* was cut short.                                                           *)
TablesAreThere ==
    /\ pc \notin {"drop", "create"} /\ ~cut => tables = AllTables
    /\ pc = "create" => todo = Missing

(* A collector that runs undisturbed has every file registered, marked by a *)
(* folder restore, or still in its queue.                                   *)
NothingForgotten ==
    Collecting /\ ~raced /\ ~cut =>
        raw \ ToolFiles \subseteq rows \cup passed \cup (queue \ marked)

(* A restore that has not failed has brought back, or will, all that is in  *)
(* the vault.                                                               *)
RestoreIsWhole == back => vault \subseteq raw \cup (IF rpc = "copy" THEN plan ELSE {})

IInv == /\ Types /\ Stopped /\ MarkedIsThere /\ AllStopped /\ RowsHaveTables
        /\ Emptied /\ TablesAreThere /\ NothingForgotten /\ RestoreIsWhole

----------------------------------------------------------------------------
(* The order of the stages.                                                 *)

(* run_reset resets the database first, then the tools, then the storage. *)
LEMMA OrderFacts ==
    /\ DOMAIN Order = 1 .. 3 /\ Len(Order) = 3
    /\ Order[1] = "db" /\ Order[2] = "tools" /\ Order[3] = "storage"
  BY DEF Order

(* The least of a non-empty set of stages is one of them. *)
LEMMA MinType ==
    ASSUME NEW S \in SUBSET (1 .. 3), S # {}
    PROVE  Min(S) \in S /\ \A y \in S : Min(S) <= y
<1>1. \E x \in S : \A y \in S : x <= y
  <2>1. CASE 1 \in S
    BY <2>1
  <2>2. CASE 1 \notin S /\ 2 \in S
    BY <2>2
  <2>3. CASE 1 \notin S /\ 2 \notin S
    <3>1. \A x \in S : x = 3
      BY <2>3
    <3>2. PICK x \in S : TRUE
      OBVIOUS
    <3>3. x = 3
      BY <3>1
    <3> QED
      BY <3>1, <3>3
  <2> QED
    BY <2>1, <2>2, <2>3
<1> QED
  BY <1>1 DEF Min

(* The later stages do not touch the tables.                                *)
Later == {"idle", "tools", "master", "sweep"}

(* After the stages before i, a reset goes on with a later stage or ends. *)
LEMMA StageFromType == \A i \in 2 .. 4 : StageFrom(i) \in Later
<1> SUFFICES ASSUME NEW i \in 2 .. 4 PROVE StageFrom(i) \in Later
  OBVIOUS
<1> DEFINE left == {k \in i .. Len(Order) : Order[k] \in chosen}
<1>1. left \in SUBSET (1 .. 3) /\ \A k \in left : k \in {2, 3}
  BY OrderFacts
<1>2. CASE left = {}
  BY <1>2 DEF StageFrom, Later
<1>3. CASE left # {}
  <2>1. Min(left) \in {2, 3}
    BY <1>1, <1>3, MinType
  <2>2. FirstStage(Order[Min(left)]) \in Later
    BY <2>1, OrderFacts DEF FirstStage, Later
  <2> QED
    BY <1>3, <2>2 DEF StageFrom
<1> QED
  BY <1>2, <1>3

(* The database comes first.                                                *)
LEMMA FirstStageType ==
    IF "db" \in chosen THEN StageFrom(1) = "count" ELSE StageFrom(1) \in Later
<1> DEFINE left == {k \in 1 .. Len(Order) : Order[k] \in chosen}
<1>1. left \in SUBSET (1 .. 3)
  BY OrderFacts
<1>2. CASE "db" \in chosen
  <2>1. 1 \in left
    BY <1>2, OrderFacts
  <2>2. Min(left) = 1
    <3>1. Min(left) \in left /\ Min(left) <= 1
      BY <1>1, <2>1, MinType
    <3> QED
      BY <1>1, <3>1
  <2> QED
    BY <1>2, <2>1, <2>2, OrderFacts DEF StageFrom, FirstStage
<1>3. CASE "db" \notin chosen
  <2>1. \A k \in left : k \in {2, 3}
    BY <1>3, OrderFacts
  <2>2. CASE left = {}
    BY <1>3, <2>2 DEF StageFrom, Later
  <2>3. CASE left # {}
    <3>1. Min(left) \in {2, 3}
      BY <1>1, <2>1, <2>3, MinType
    <3>2. FirstStage(Order[Min(left)]) \in Later
      BY <3>1, OrderFacts DEF FirstStage, Later
    <3> QED
      BY <1>3, <2>3, <3>2 DEF StageFrom
  <2> QED
    BY <2>2, <2>3
<1> QED
  BY <1>2, <1>3

(* After a category, a reset goes on with a later stage or ends. *)
LEMMA StageAfterType == \A c \in Categories : StageAfter(c) \in Later
<1> SUFFICES ASSUME NEW c \in Categories PROVE StageAfter(c) \in Later
  OBVIOUS
<1> DEFINE place == CHOOSE i \in DOMAIN Order : Order[i] = c
<1>1. \E k \in DOMAIN Order : Order[k] = c
  BY OrderFacts DEF Categories
<1>2. place \in 1 .. 3
  BY <1>1, OrderFacts
<1>3. StageAfter(c) = StageFrom(1 + place)
  BY DEF StageAfter
<1> HIDE DEF place
<1>4. 1 + place \in 2 .. 4
  BY <1>2
<1> QED
  BY <1>3, <1>4, StageFromType

(* The end of a stage.                                                      *)
LEMMA StageDoneFacts ==
    ASSUME NEW c \in Categories, StageDone(c)
    PROVE  /\ pc' \in Later
           /\ pc' = "idle" \/ chosen' = chosen
  BY StageAfterType DEF StageDone, ResetOver, Later

(* The vault is below none of the three storage roots.                      *)
LEMMA OnlyRawIsCleaned == ToClean \subseteq {"raw"} \X raw
<1> DEFINE places == UNION {Below(dir) : dir \in {d \in STORAGE_ROOTS : ~is_inside_vault(d)}}
<1>1. "vault" \notin places
  BY DEF STORAGE_ROOTS, is_inside_vault, Below
<1> QED
  BY <1>1 DEF ToClean

(* "Whatever is chosen, the backup vault is never deleted": no step of      *)
(* anybody takes a file from the vault, wherever it is.                     *)
THEOREM VaultIsKept == Spec => VaultOnlyGrows
<1>1. [Next]_vars => vault \subseteq vault' \/ UNCHANGED vault
  <2> SUFFICES ASSUME Next PROVE vault \subseteq vault'
    BY DEF vars, dataVars
  <2>1. CASE People
    BY <2>1 DEF People, DropFile, DeleteJob, RestoreJob, StartModule, StopModule, OpenWindow,
                Recheck, PressRun, Confirm, Decline, Tick, RunFromCommandLine, dataVars
  <2>2. CASE Collect
    BY <2>2 DEF Collect, Ingest, RestoreLost
  <2>3. CASE RestoreScript
    BY <2>3 DEF RestoreScript, RestoreBegins, RestoreEnds, RestoreKilled, RestoreCopies,
                RestoreMisses, dataVars
  <2>4. CASE RunReset
    <3>1. ASSUME NEW item, SweepFile(item) PROVE vault \subseteq vault'
      BY <3>1, OnlyRawIsCleaned DEF SweepFile
    <3> QED
      BY <2>4, <3>1 DEF RunReset, CheckModules, CountTables, Dropped, Created, DropTable,
                CreateTable, ResetTools, RemoveToolFiles, Swept, SweepMisses, ResetFails,
                ResetKilled, dataVars
  <2> QED
    BY <2>1, <2>2, <2>3, <2>4 DEF Next
<1> QED
  BY <1>1, PTL DEF Spec, VaultOnlyGrows

----------------------------------------------------------------------------
(* The inductive invariant, one group of actions after the other.           *)

(* Files are of one kind, and its table is among those the parser needs.    *)
LEMMA TableFacts ==
    \A f \in Files : /\ TableOf(f) \in Needs(f) /\ TableOf(f) \in AllTables
                     /\ TableOf(f) = ToolTable => f \in ToolFiles
  BY PlacesAssumption DEF Files, TableOf, Needs, AllTables, DataTables, ToolTable

(* The invariant holds before anything was started. *)
LEMMA IInvInit == Init => IInv
  BY DEF Init, IInv, Types, Stopped, MarkedIsThere, AllStopped, RowsHaveTables, Emptied,
         TablesAreThere, NothingForgotten, RestoreIsWhole, Collecting, Working

(* Steps that leave the files, the database and the collector alone, and do *)
(* not move a reset between its stages.                                     *)
LEMMA OutsideStep ==
    ASSUME IInv, UNCHANGED <<dataVars, collectVars, restoreVars, passed, raced, back>>,
           \/ UNCHANGED <<pc, chosen, cut>> /\ (pc = "sweep" \/ todo' = todo)
           \/ pc \notin {"drop", "create"} /\ pc' \in {"idle", "dialog", "check"} /\ cut' = cut
    PROVE  IInv'
<1> USE DEF IInv, dataVars, collectVars, restoreVars
<1>1. Types' /\ Stopped' /\ MarkedIsThere' /\ RowsHaveTables' /\ RestoreIsWhole'
  BY DEF Types, Stopped, MarkedIsThere, RowsHaveTables, RestoreIsWhole, Collecting
<1>2. NothingForgotten'
  BY DEF NothingForgotten, Collecting
<1>3. AllStopped' /\ Emptied'
  BY DEF AllStopped, Emptied, Working
<1>4. TablesAreThere'
  BY DEF TablesAreThere, Missing
<1> QED
  BY <1>1, <1>2, <1>3, <1>4

(* Files appear in the watch folder.  Those of them that the collector has  *)
(* marked were there before.                                                *)
LEMMA AppearStep ==
    ASSUME IInv, NEW new \in SUBSET Files, Appear(new),
           UNCHANGED <<vault, tables, rows, running, marked, lost, resetVars, rpc, passed,
                       raced, cut, back>>,
           plan' = plan \/ plan' = plan \ new
    PROVE  IInv'
<1> USE DEF IInv, resetVars, Appear
<1>1. Types' /\ Stopped' /\ MarkedIsThere' /\ RowsHaveTables'
  BY DEF Types, Stopped, MarkedIsThere, RowsHaveTables, Collecting
<1>2. AllStopped' /\ Emptied' /\ TablesAreThere'
  BY DEF AllStopped, Emptied, Working, TablesAreThere, Missing
<1>3. NothingForgotten'
  BY DEF NothingForgotten, MarkedIsThere, Collecting
<1>4. RestoreIsWhole'
  BY DEF RestoreIsWhole
<1> QED
  BY <1>1, <1>2, <1>3, <1>4

(* Files vanish from it.                                                    *)
LEMMA VanishStep ==
    ASSUME IInv, NEW gone \in SUBSET Files, Vanish(gone),
           UNCHANGED <<vault, tables, rows, restoreVars, passed, raced, cut>>,
           \/ UNCHANGED <<pc, chosen>> /\ (pc \in {"drop", "create"} => todo' = todo)
           \/ /\ pc \in Working \ {"drop", "create"} /\ pc' \in Later
              /\ pc' = "idle" \/ chosen' = chosen
              /\ "db" \in chosen /\ ~raced => rows \subseteq ToolFiles
    PROVE  IInv'
<1> USE DEF IInv, restoreVars, Vanish
<1>1. Types' /\ Stopped' /\ MarkedIsThere' /\ RowsHaveTables'
  BY DEF Types, Stopped, MarkedIsThere, RowsHaveTables, Collecting
<1>2. AllStopped'
  BY DEF AllStopped, Working, Later
<1>3. Emptied' /\ TablesAreThere'
  BY DEF Emptied, TablesAreThere, Missing, Working, Later
<1>4. NothingForgotten'
  BY DEF NothingForgotten, Collecting
<1>5. RestoreIsWhole'
  BY DEF RestoreIsWhole
<1> QED
  BY <1>1, <1>2, <1>3, <1>4, <1>5

(* Starting a module keeps the invariant: behind the check of a reset it is
   recorded in raced. *)
LEMMA StartStep == ASSUME IInv, NEW m \in Modules, StartModule(m) PROVE IInv'
<1> USE DEF IInv, StartModule, dataVars, resetVars, restoreVars
<1>1. Types' /\ RowsHaveTables' /\ RestoreIsWhole' /\ TablesAreThere'
  BY DEF Types, RowsHaveTables, RestoreIsWhole, TablesAreThere, Missing
<1>2. Stopped' /\ MarkedIsThere'
  BY DEF Stopped, MarkedIsThere, Collecting
<1>3. AllStopped' /\ Emptied'
  BY DEF AllStopped, Emptied, Working, Resetting
<1>4. NothingForgotten'
  <2>1. CASE m = "collector"
    BY <2>1 DEF NothingForgotten, Collecting
  <2>2. CASE m # "collector" /\ ~Collecting
    BY <2>2 DEF NothingForgotten, Collecting
  <2>3. CASE m # "collector" /\ Collecting
    <3>1. running # {} /\ (raced => raced')
      BY <2>3 DEF Collecting
    <3> QED
      BY <2>3, <3>1 DEF NothingForgotten, Collecting
  <2> QED
    BY <2>1, <2>2, <2>3
<1> QED
  BY <1>1, <1>2, <1>3, <1>4

(* Stopping a module keeps the invariant. *)
LEMMA StopStep == ASSUME IInv, NEW m \in Modules, StopModule(m) PROVE IInv'
<1> USE DEF IInv, StopModule, dataVars, resetVars, restoreVars, historyVars
<1>1. Types' /\ RowsHaveTables' /\ RestoreIsWhole' /\ TablesAreThere'
  BY DEF Types, RowsHaveTables, RestoreIsWhole, TablesAreThere, Missing
<1>2. Stopped' /\ MarkedIsThere'
  BY DEF Stopped, MarkedIsThere, Collecting
<1>3. AllStopped' /\ Emptied' /\ NothingForgotten'
  BY DEF AllStopped, Emptied, NothingForgotten, Collecting
<1> QED
  BY <1>1, <1>2, <1>3

(* Every table is there when a collector works that no reset races with.    *)
LEMMA IngestStep == ASSUME IInv, NEW f \in Files, Ingest(f) PROVE IInv'
<1> USE DEF IInv, Ingest, resetVars, restoreVars, historyVars, dataVars
<1>1. Collecting /\ Collecting'
  BY DEF Stopped, Collecting
<1>2. ~raced => pc \notin Working
  BY <1>1 DEF AllStopped, Collecting
<1>3. ~raced /\ ~cut => Needs(f) \subseteq tables
  BY <1>2, TableFacts, PlacesAssumption
  DEF TablesAreThere, Working, Needs, AllTables, DataTables, TableOf, Files
<1>4. Types' /\ Stopped' /\ MarkedIsThere' /\ AllStopped' /\ TablesAreThere'
  BY <1>1 DEF Types, Stopped, MarkedIsThere, AllStopped, TablesAreThere, Missing
<1>5. RowsHaveTables'
  BY TableFacts DEF RowsHaveTables
<1>6. Emptied'
  BY <1>2 DEF Emptied, Working
<1>7. NothingForgotten'
  BY <1>1, <1>3 DEF NothingForgotten
<1>8. RestoreIsWhole'
  BY DEF RestoreIsWhole
<1> QED
  BY <1>4, <1>5, <1>6, <1>7, <1>8

(* What the vault can give back of a Job are files. *)
LEMMA RestorableType == ASSUME IInv, NEW j \in Jobs PROVE Restorable(j) \subseteq Files
  BY DEF IInv, Types, Restorable, FilesOf, Files, JobFiles

(* What a folder restore marks has a row, or is noted.                      *)
LEMMA RestoreLostStep == ASSUME IInv, NEW j \in Jobs, RestoreLost(j) PROVE IInv'
<1> USE DEF IInv, RestoreLost, resetVars, restoreVars, dataVars
<1> DEFINE kept == FilesOf(j) \cap Restorable(j)
<1>1. Collecting /\ Collecting'
  BY DEF Stopped, Collecting
<1>2. /\ raw \subseteq raw' /\ queue \subseteq queue' /\ raw' \ raw \subseteq queue'
      /\ marked \subseteq marked' /\ marked' \subseteq marked \cup kept
      /\ passed \subseteq passed' /\ marked' \ marked \subseteq rows \cup passed'
      /\ marked' \subseteq marked \cup raw' /\ raw' \subseteq raw \cup Restorable(j)
      /\ UNCHANGED <<vault, tables, rows, running, pc, chosen, todo, raced, cut, back, rpc, plan>>
  BY <1>1 DEF Appear
<1>3. Types' /\ Stopped' /\ MarkedIsThere' /\ AllStopped' /\ TablesAreThere' /\ RowsHaveTables'
  BY <1>1, <1>2, RestorableType
  DEF Types, Stopped, MarkedIsThere, AllStopped, TablesAreThere, Missing, RowsHaveTables
<1>4. Emptied' /\ RestoreIsWhole'
  BY <1>2 DEF Emptied, RestoreIsWhole
<1>5. NothingForgotten'
  <2>1. ASSUME ~raced, ~cut, NEW f \in raw' \ ToolFiles
        PROVE  f \in rows \cup passed' \cup (queue' \ marked')
    <3>1. CASE f \in raw
      BY <1>1, <1>2, <2>1, <3>1 DEF NothingForgotten
    <3>2. CASE f \notin raw
      BY <1>2, <2>1, <3>2 DEF MarkedIsThere
    <3> QED
      BY <3>1, <3>2
  <2> QED
    BY <1>2, <2>1 DEF NothingForgotten
<1> QED
  BY <1>3, <1>4, <1>5

(* The restore script, but for the copies it makes.                         *)
LEMMA ScriptStep ==
    ASSUME IInv,
           \/ RestoreBegins \/ RestoreEnds \/ RestoreKilled
           \/ \E f \in Files : RestoreMisses(f)
    PROVE  IInv'
<1>1. UNCHANGED <<dataVars, collectVars, resetVars, passed, raced, cut>>
  BY DEF RestoreBegins, RestoreEnds, RestoreKilled, RestoreMisses, historyVars
<1>2. Types' /\ Stopped' /\ MarkedIsThere' /\ AllStopped' /\ RowsHaveTables'
  BY <1>1 DEF IInv, Types, Stopped, MarkedIsThere, AllStopped, RowsHaveTables, dataVars,
              collectVars, resetVars, Collecting
<1>3. Emptied' /\ TablesAreThere' /\ NothingForgotten'
  BY <1>1 DEF IInv, Emptied, TablesAreThere, Missing, NothingForgotten, dataVars, collectVars,
              resetVars, Collecting
<1>4. RestoreIsWhole'
  <2>1. CASE RestoreBegins
    BY <2>1 DEF RestoreBegins, PlanRestore, RestoreIsWhole, dataVars
  <2>2. CASE RestoreEnds
    BY <2>2 DEF RestoreEnds, IInv, RestoreIsWhole, dataVars, historyVars
  <2>3. CASE RestoreKilled \/ \E f \in Files : RestoreMisses(f)
    BY <2>3 DEF RestoreKilled, RestoreMisses, RestoreIsWhole
  <2> QED
    BY <2>1, <2>2, <2>3
<1> QED
  BY <1>2, <1>3, <1>4 DEF IInv

----------------------------------------------------------------------------
(* The stages of a reset.                                                   *)

(* The check of running modules keeps the invariant: a reset that goes on
   unraced found none. *)
LEMMA CheckStep == ASSUME IInv, CheckModules PROVE IInv'
<1> USE DEF IInv, CheckModules, dataVars, collectVars, restoreVars
<1>1. Types' /\ Stopped' /\ MarkedIsThere' /\ RowsHaveTables' /\ RestoreIsWhole'
  BY DEF Types, Stopped, MarkedIsThere, RowsHaveTables, RestoreIsWhole, Collecting
<1>2. NothingForgotten'
  BY DEF NothingForgotten, Collecting
<1>3. CASE running_modules = {}
  <2>1. pc' = StageFrom(1) /\ chosen' = chosen /\ running' = {}
    BY <1>3 DEF running_modules
  <2>2. pc' \in Later \cup {"count"} /\ ("db" \in chosen => pc' = "count")
    BY <2>1, FirstStageType
  <2>3. AllStopped' /\ Emptied'
    BY <2>1, <2>2 DEF AllStopped, Emptied
  <2>4. TablesAreThere'
    BY <2>2 DEF TablesAreThere, Later
  <2> QED
    BY <1>1, <1>2, <2>3, <2>4
<1>4. CASE running_modules # {}
  <2>1. pc' = "idle"
    BY <1>4 DEF ResetOver
  <2> QED
    BY <1>1, <1>2, <2>1 DEF AllStopped, Emptied, TablesAreThere, Working
<1> QED
  BY <1>3, <1>4

(* No step of a reset makes the collector forget a file: while one works,   *)
(* the collector is stopped, or was started behind its back.                *)
LEMMA WorkingStep ==
    ASSUME IInv, pc \in Working, running' = running, raced' = raced
    PROVE  NothingForgotten'
  BY DEF IInv, AllStopped, NothingForgotten, Collecting

(* The steps on the tables keep the invariant. *)
LEMMA TablesStep ==
    ASSUME IInv,
           \/ CountTables \/ Dropped \/ \E t \in AllTables : DropTable(t) \/ CreateTable(t)
           \/ ResetTools
    PROVE  IInv'
<1>1. pc \in Working /\ pc' \in Working
  BY DEF Working, CountTables, Dropped, DropTable, CreateTable, ResetTools
<1>2. /\ UNCHANGED <<raw, vault, collectVars, restoreVars, historyVars, chosen>>
      /\ rows' \subseteq rows
  BY DEF CountTables, Dropped, DropTable, CreateTable, ResetTools, dataVars
<1>3. NothingForgotten'
  BY <1>1, <1>2, WorkingStep DEF collectVars, historyVars
<1>4. Stopped' /\ MarkedIsThere' /\ AllStopped' /\ RestoreIsWhole'
  BY <1>1, <1>2 DEF IInv, Stopped, MarkedIsThere, AllStopped, RestoreIsWhole, collectVars,
                    restoreVars, historyVars, Collecting
<1>5. Types' /\ RowsHaveTables' /\ Emptied' /\ TablesAreThere'
  <2> USE DEF IInv, Types, RowsHaveTables, Emptied, TablesAreThere, dataVars, historyVars
  <2>1. CASE CountTables
    BY <2>1, TableFacts DEF CountTables, tables_to_reset
  <2>2. CASE Dropped
    <3>1. "db" \in chosen /\ ~raced => rows \subseteq ToolFiles
      BY <2>2, TableFacts DEF Dropped
    <3> QED
      BY <2>2, <3>1 DEF Dropped, Missing
  <2>3. ASSUME NEW t \in AllTables, DropTable(t)
        PROVE  Types' /\ RowsHaveTables' /\ Emptied' /\ TablesAreThere'
    BY <2>3 DEF DropTable, RowsIn
  <2>4. ASSUME NEW t \in AllTables, CreateTable(t)
        PROVE  Types' /\ RowsHaveTables' /\ Emptied' /\ TablesAreThere'
    BY <2>4 DEF CreateTable, Missing
  <2>5. CASE ResetTools
    BY <2>5 DEF ResetTools, RowsIn, Missing
  <2> QED
    BY <2>1, <2>2, <2>3, <2>4, <2>5
<1> QED
  BY <1>3, <1>4, <1>5 DEF IInv

(* The database is there again, or the storage has been emptied.            *)
LEMMA StageEndStep == ASSUME IInv, Created \/ Swept PROVE IInv'
<1>1. /\ pc' \in Later /\ (pc' = "idle" \/ chosen' = chosen)
      /\ pc \in Working
  BY StageDoneFacts DEF Created, Swept, Categories, Working
<1>2. UNCHANGED <<dataVars, collectVars, restoreVars, passed, raced, back>>
  BY DEF Created, Swept, historyVars
<1>3. NothingForgotten'
  BY <1>1, <1>2, WorkingStep DEF collectVars
<1>4. Types' /\ Stopped' /\ MarkedIsThere' /\ RowsHaveTables' /\ RestoreIsWhole'
  BY <1>2 DEF IInv, Types, Stopped, MarkedIsThere, RowsHaveTables, RestoreIsWhole, dataVars,
              collectVars, restoreVars, Collecting
<1>5. AllStopped' /\ Emptied'
  BY <1>1, <1>2 DEF IInv, AllStopped, Emptied, dataVars, collectVars, Created, Swept, Later
<1>6. TablesAreThere'
  BY <1>1, <1>2 DEF IInv, Types, TablesAreThere, Created, Swept, Missing, Later, dataVars,
                    historyVars
<1> QED
  BY <1>3, <1>4, <1>5, <1>6 DEF IInv

(* The reset fails or is killed.                                            *)
LEMMA ResetEndsStep == ASSUME IInv, ResetFails \/ ResetKilled PROVE IInv'
<1>1. /\ UNCHANGED <<dataVars, collectVars, restoreVars, passed, raced, back>>
      /\ pc' = "idle" /\ CutShort
  BY DEF ResetFails, ResetKilled, ResetOver
<1>2. Types' /\ Stopped' /\ MarkedIsThere' /\ RowsHaveTables' /\ RestoreIsWhole'
  BY <1>1 DEF IInv, Types, Stopped, MarkedIsThere, RowsHaveTables, RestoreIsWhole, dataVars,
              collectVars, restoreVars, Collecting
<1>3. NothingForgotten'
  BY <1>1 DEF IInv, NothingForgotten, CutShort, dataVars, collectVars, Collecting
<1>4. AllStopped' /\ Emptied'
  BY <1>1 DEF AllStopped, Emptied, Working
<1>5. TablesAreThere'
  BY <1>1 DEF IInv, Types, TablesAreThere, CutShort, Missing, dataVars
<1> QED
  BY <1>2, <1>3, <1>4, <1>5 DEF IInv

(* Emptying the folders keeps the invariant. *)
LEMMA RemoveStep ==
    ASSUME IInv,
           RemoveToolFiles \/ \E item \in {"raw", "vault"} \X Files : SweepFile(item)
    PROVE  IInv'
<1>1. CASE RemoveToolFiles
  <2>1. pc' \in Later /\ (pc' = "idle" \/ chosen' = chosen)
    BY <1>1, StageDoneFacts DEF RemoveToolFiles, Categories
  <2>2. pc = "master" /\ pc \in Working \ {"drop", "create"}
    BY <1>1 DEF RemoveToolFiles, Working
  <2>3. "db" \in chosen /\ ~raced => rows \subseteq ToolFiles
    BY <2>2 DEF IInv, Emptied
  <2>4. ToolFiles \cap raw \subseteq Files
    BY DEF Files
  <2> QED
    BY <1>1, <2>1, <2>2, <2>3, <2>4, VanishStep DEF RemoveToolFiles
<1>2. ASSUME NEW item \in {"raw", "vault"} \X Files, SweepFile(item) PROVE IInv'
  <2>1. item[1] = "raw" /\ {item[2]} \subseteq Files
    BY <1>2, OnlyRawIsCleaned DEF SweepFile
  <2> QED
    BY <1>2, <2>1, VanishStep DEF SweepFile
<1> QED
  BY <1>1, <1>2

(* Every step keeps the invariant. *)
LEMMA IInvStep == IInv /\ [Next]_vars => IInv'
<1> SUFFICES ASSUME IInv, [Next]_vars PROVE IInv'
  OBVIOUS
<1>1. CASE People
  <2>1. ASSUME NEW f \in Files, DropFile(f) PROVE IInv'
    BY <2>1, AppearStep DEF DropFile, restoreVars, historyVars
  <2>2. ASSUME NEW j \in Jobs, DeleteJob(j) PROVE IInv'
    <3>1. FilesOf(j) \subseteq Files /\ Vanish(FilesOf(j))
      BY <2>2 DEF DeleteJob, FilesOf, Files
    <3> QED
      BY <2>2, <3>1, VanishStep DEF DeleteJob, resetVars
  <2>3. ASSUME NEW j \in Jobs, RestoreJob(j) PROVE IInv'
    BY <2>3, AppearStep, RestorableType DEF RestoreJob, restoreVars, historyVars
  <2>4. CASE OpenWindow \/ Recheck \/ \E c \in Selections : Tick(c)
    BY <2>4, OutsideStep DEF OpenWindow, Recheck, Tick, resetVars, historyVars
  <2>5. CASE PressRun \/ Confirm \/ Decline \/ \E c \in Selections : RunFromCommandLine(c)
    BY <2>5, OutsideStep DEF PressRun, Confirm, Decline, RunFromCommandLine, ResetOver,
                             resetVars, historyVars
  <2> QED
    BY <1>1, <2>1, <2>2, <2>3, <2>4, <2>5, StartStep, StopStep DEF People
<1>2. CASE Collect
  BY <1>2, IngestStep, RestoreLostStep DEF Collect
<1>3. CASE RestoreScript
  <2>1. ASSUME NEW f \in Files, RestoreCopies(f) PROVE IInv'
    BY <2>1, AppearStep DEF RestoreCopies, historyVars
  <2> QED
    BY <1>3, <2>1, ScriptStep DEF RestoreScript
<1>4. CASE RunReset
  <2>1. ASSUME NEW item, SweepMisses(item) PROVE IInv'
    BY <2>1, OutsideStep DEF SweepMisses, historyVars
  <2> QED
    BY <1>4, <2>1, CheckStep, TablesStep, StageEndStep, ResetEndsStep, RemoveStep DEF RunReset
<1>5. CASE UNCHANGED vars
  BY <1>5, OutsideStep DEF vars, resetVars, historyVars
<1> QED
  BY <1>1, <1>2, <1>3, <1>4, <1>5 DEF Next

(* The invariant holds in every state. *)
LEMMA Invariant == Spec => []IInv
  BY IInvInit, IInvStep, PTL DEF Spec

(* The storage is emptied last: while a reset of both deletes files, none   *)
(* of them has a row, unless a module was started behind its back.          *)
THEOREM RowsGoFirst == Spec => []SweepsAfterRows
<1>1. IInv => SweepsAfterRows
  BY DEF IInv, Emptied, SweepsAfterRows
<1> QED
  BY <1>1, Invariant, PTL

(* A collector with no work left has registered every file there is, after  *)
(* any resets, restores, stops and deletions.                               *)
THEOREM DatabaseIsRefilled == Spec => []RefillsAfterReset
<1>1. IInv => RefillsAfterReset
  BY DEF IInv, NothingForgotten, RefillsAfterReset, Settled
<1> QED
  BY <1>1, Invariant, PTL

(* After restore_from_vault and with a collector that has no work left, all *)
(* that was ever archived is registered again.                              *)
THEOREM BackupIsRegistered == Spec => []BackupComesBack
<1>1. IInv => BackupComesBack
  BY DEF IInv, NothingForgotten, RestoreIsWhole, BackupComesBack, Settled
<1> QED
  BY <1>1, Invariant, PTL
=============================================================================
