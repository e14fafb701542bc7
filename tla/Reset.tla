------------------------------- MODULE Reset -------------------------------
(***************************************************************************)
(* Emptying the system and getting it back: the reset window and the       *)
(* command line (backend/reset_manager.py, reset_database_and_storage.py), *)
(* the restore script (restore_from_vault.py), the restore button of the   *)
(* download page (recovery_engine.py) and, in outline, the collector that  *)
(* fills the database again.  A file is in the raw-data tree or not, in    *)
(* the vault or not, registered in the database or not; what the collector *)
(* does file by file is module Collector, the tool list is ToolMaster.     *)
(***************************************************************************)
EXTENDS Naturals, Sequences, FiniteSets, FiniteSetsExt

CONSTANTS
    Jobs,          \* Job folders
    XmlFiles,      \* metadata files: their parser stores the content as a BLOB too
    TdmsFiles,     \* recordings: too large for a BLOB
    CadFiles,      \* drawings of the part, with a BLOB
    ToolFiles,     \* tool master files, at the top of the watch folder
    JobOf,         \* the Job folder of a metadata file or recording
    Modules,       \* modules a reset waits for, "collector" among them
    VaultAt,       \* where the vault is: "beside" the three storage roots, or "outside"
    Selections,    \* what people tick or pass on the command line
    MaxResets, MaxStarts, MaxDeletes   \* bounds: resets, starts of modules, deletions

JobFiles    == XmlFiles \cup TdmsFiles
Files       == JobFiles \cup CadFiles \cup ToolFiles
Categories  == {"db", "storage", "tools"}
DataTables  == {"part", "job"}
ToolTable   == "tool"
AllTables   == DataTables \cup {ToolTable}
Stages      == {"idle", "dialog", "check", "count", "drop", "create", "tools",
                "master", "sweep"}

ASSUME PlacesAssumption ==
    /\ JobOf \in [JobFiles -> Jobs]
    /\ XmlFiles \cap TdmsFiles = {}
    /\ JobFiles \cap (CadFiles \cup ToolFiles) = {} /\ CadFiles \cap ToolFiles = {}
    /\ "collector" \in Modules
    /\ VaultAt \in {"beside", "outside"}
    /\ Selections \subseteq (SUBSET Categories) \ {{}}

VARIABLES
    raw, vault,      \* files in the watch folder and in the vault
    tables, rows,    \* tables that exist; files registered in them
    running,         \* modules that run
    queue, marked,   \* collector: file_queue and processed_files
    lost,            \* collector: delete_queue, Job folders seen to go
    window,          \* the reset window: what is ticked and confirmed, whether it shows modules
    pc, by, chosen,  \* the reset: stage, started by "window" or "cli", what it was asked to do
    todo,            \* what its stage has left: tables, or files to delete
    rpc, plan,       \* the restore script: "idle" or "copy", files it has left
    passed,          \* history: files a folder restore marked though they had no row
    raced,           \* history: a module was started during a reset and still runs
    cut,             \* history: a reset ended between its first DROP and create_all
    back,            \* history: a restore ended, and nothing was deleted since it planned
    resets, starts, deletes

dataVars    == <<raw, vault, tables, rows>>
collectVars == <<running, queue, marked, lost>>
resetVars   == <<pc, by, chosen, todo>>
restoreVars == <<rpc, plan>>
historyVars == <<passed, raced, cut, back>>
boundVars   == <<resets, starts, deletes>>
vars == <<dataVars, collectVars, window, resetVars, restoreVars, historyVars, boundVars>>

Collecting == "collector" \in running
Resetting  == pc \notin {"idle", "dialog"}

FilesOf(j) == {f \in JobFiles : JobOf[f] = j}

(* The table that holds a file's row.                                       *)
TableOf(f) == CASE f \in JobFiles  -> "job"
                [] f \in CadFiles  -> "part"
                [] f \in ToolFiles -> ToolTable

(* The tables the parser of a file needs.                                   *)
Needs(f) == IF f \in JobFiles THEN DataTables ELSE {TableOf(f)}

RowsIn(t) == {f \in rows : TableOf(f) = t}

(* Files vanish from the watch folder: the observer of a running collector  *)
(* unmarks them and queues their Job folders.                               *)
Vanish(gone) ==
    /\ raw' = raw \ gone
    /\ marked' = marked \ (IF Collecting THEN gone ELSE {})
    /\ lost' = lost \cup (IF Collecting THEN {JobOf[f] : f \in gone \cap JobFiles} ELSE {})
    /\ back' = (back /\ gone = {})
    /\ UNCHANGED <<running, queue>>

(* Files appear in the watch folder.                                        *)
Appear(new) ==
    /\ raw' = raw \cup new
    /\ queue' = IF Collecting THEN queue \cup new ELSE queue

----------------------------------------------------------------------------
(* People, and the modules they start and stop.                             *)

DropFile(f) ==
    /\ f \notin raw
    /\ Appear({f})
    /\ UNCHANGED <<vault, tables, rows, running, marked, lost, window, resetVars,
                   restoreVars, historyVars, boundVars>>

DeleteJob(j) ==
    /\ deletes < MaxDeletes
    /\ FilesOf(j) \cap raw # {}
    /\ deletes' = deletes + 1
    /\ Vanish(FilesOf(j))
    /\ UNCHANGED <<vault, tables, rows, window, resetVars, restoreVars, passed, raced,
                   cut, resets, starts>>

(* start_pipeline queues every file there is; nothing in it waits for a     *)
(* reset, and ensure_schema creates no table.                               *)
StartModule(m) ==
    /\ m \notin running
    /\ starts < MaxStarts
    /\ starts' = starts + 1
    /\ running' = running \cup {m}
    /\ IF m = "collector" THEN queue' = raw /\ marked' = {} /\ lost' = {} /\ passed' = {}
                          ELSE UNCHANGED <<queue, marked, lost, passed>>
    /\ raced' = (Resetting \/ (raced /\ running # {}))
    /\ UNCHANGED <<dataVars, window, resetVars, restoreVars, cut, back, resets, deletes>>

StopModule(m) ==
    /\ m \in running
    /\ running' = running \ {m}
    /\ IF m = "collector" THEN queue' = {} /\ marked' = {} /\ lost' = {}
                          ELSE UNCHANGED <<queue, marked, lost>>
    /\ UNCHANGED <<dataVars, window, resetVars, restoreVars, historyVars, boundVars>>

----------------------------------------------------------------------------
(* The collector: a file is marked whether its parser succeeds or not.      *)

Ingest(f) ==
    /\ f \in queue
    /\ queue' = queue \ {f}
    /\ IF f \in raw \ marked
       THEN /\ marked' = marked \cup {f}
            /\ IF Needs(f) \subseteq tables
               THEN vault' = vault \cup {f} /\ rows' = rows \cup {f}
               ELSE UNCHANGED <<vault, rows>>
       ELSE UNCHANGED <<marked, vault, rows>>
    /\ UNCHANGED <<raw, tables, running, lost, window, resetVars, restoreVars,
                   historyVars, boundVars>>

(* _already_has: a metadata file of the Job is among those copied.          *)
AlreadyHas(j) == FilesOf(j) \cap vault \cap XmlFiles # {}

(* What a restore of Job j copies: the vault's files of the Job, and the    *)
(* BLOB if there is no metadata file among them; the drawings of its part.  *)
Restorable(j) ==
    (FilesOf(j) \cap (vault \cup IF AlreadyHas(j) THEN {} ELSE rows \cap XmlFiles))
        \cup (CadFiles \cap rows)

Registered(j) == FilesOf(j) \cap rows # {} /\ DataTables \subseteq tables

(* The delete worker: a Job folder that is gone and registered comes back,  *)
(* and what it holds is marked.                                             *)
RestoreLost(j) ==
    /\ j \in lost
    /\ lost' = lost \ {j}
    /\ IF FilesOf(j) \cap raw = {} /\ Registered(j)
       THEN /\ Appear(Restorable(j))
            /\ marked' = marked \cup (FilesOf(j) \cap Restorable(j))
            /\ passed' = passed \cup ((FilesOf(j) \cap Restorable(j)) \ rows)
       ELSE UNCHANGED <<raw, queue, marked, passed>>
    /\ UNCHANGED <<vault, tables, rows, running, window, resetVars, restoreVars, raced,
                   cut, back, boundVars>>

(* The restore button of the download page, for a Job without a folder.     *)
RestoreJob(j) ==
    /\ FilesOf(j) \cap raw = {}
    /\ Registered(j)
    /\ Appear(Restorable(j))
    /\ UNCHANGED <<vault, tables, rows, running, marked, lost, window, resetVars,
                   restoreVars, historyVars, boundVars>>

----------------------------------------------------------------------------
(* restore_from_vault.py --apply.                                           *)

(* Mutant: a Job folder that exists is taken to be whole.                   *)
PlanRestoreByFolder ==
    {f \in vault \ raw : f \in JobFiles => FilesOf(JobOf[f]) \cap raw = {}}

PlanRestore == vault \ raw

RestoreBegins ==
    /\ rpc = "idle"
    /\ vault # {}
    /\ rpc' = "copy" /\ plan' = PlanRestore
    /\ back' = TRUE
    /\ UNCHANGED <<dataVars, collectVars, window, resetVars, passed, raced, cut, boundVars>>

RestoreCopies(f) ==
    /\ rpc = "copy"
    /\ f \in plan
    /\ plan' = plan \ {f}
    /\ Appear({f})
    /\ UNCHANGED <<vault, tables, rows, running, marked, lost, window, resetVars, rpc,
                   historyVars, boundVars>>

(* A copy that fails is reported and passed over.                           *)
RestoreMisses(f) ==
    /\ rpc = "copy"
    /\ f \in plan
    /\ plan' = plan \ {f}
    /\ back' = FALSE
    /\ UNCHANGED <<dataVars, collectVars, window, resetVars, rpc, passed, raced, cut, boundVars>>

RestoreEnds ==
    /\ rpc = "copy"
    /\ plan = {}
    /\ rpc' = "idle"
    /\ UNCHANGED <<dataVars, collectVars, window, resetVars, plan, historyVars, boundVars>>

RestoreKilled ==
    /\ rpc = "copy"
    /\ rpc' = "idle" /\ plan' = {}
    /\ back' = FALSE
    /\ UNCHANGED <<dataVars, collectVars, window, resetVars, passed, raced, cut, boundVars>>

----------------------------------------------------------------------------
(* The reset window.  refresh looks for running modules, and the run button *)
(* is enabled by what the last refresh saw.                                 *)

(* Mutant: the converter is the only module looked for.                     *)
RunningModulesForgetful == running \ {"collector"}

running_modules == running

Unticked == [ticked |-> {}, blocked |-> FALSE]

Refreshed(w) == [w EXCEPT !.blocked = running_modules # {}]

(* The boxes and buttons are disabled while this window's reset runs, and   *)
(* behind its question.                                                     *)
WindowFree == ~(by = "window" /\ pc # "idle")

(* The window is opened, again if it was closed.                            *)
OpenWindow ==
    /\ WindowFree
    /\ window' = Refreshed(Unticked)
    /\ UNCHANGED <<dataVars, collectVars, resetVars, restoreVars, historyVars, boundVars>>

Tick(c) ==
    /\ WindowFree
    /\ window' = [window EXCEPT !.ticked = c]
    /\ UNCHANGED <<dataVars, collectVars, resetVars, restoreVars, historyVars, boundVars>>

Recheck ==
    /\ WindowFree
    /\ window' = Refreshed(window)
    /\ UNCHANGED <<dataVars, collectVars, resetVars, restoreVars, historyVars, boundVars>>

PressRun ==
    /\ WindowFree
    /\ pc = "idle"
    /\ resets < MaxResets
    /\ window.ticked # {} /\ ~window.blocked
    /\ window' = Refreshed(window)
    /\ IF running_modules = {}
       THEN pc' = "dialog" /\ by' = "window" /\ chosen' = window.ticked /\ UNCHANGED todo
       ELSE UNCHANGED resetVars
    /\ UNCHANGED <<dataVars, collectVars, restoreVars, historyVars, boundVars>>

Confirm ==
    /\ pc = "dialog"
    /\ pc' = "check"
    /\ resets' = resets + 1
    /\ UNCHANGED <<dataVars, collectVars, window, by, chosen, todo, restoreVars,
                   historyVars, starts, deletes>>

ResetOver == pc' = "idle" /\ by' = "none" /\ chosen' = {} /\ todo' = {}

Decline ==
    /\ pc = "dialog"
    /\ ResetOver
    /\ UNCHANGED <<dataVars, collectVars, window, restoreVars, historyVars, boundVars>>

RunFromCommandLine(c) ==
    /\ pc = "idle"
    /\ resets < MaxResets
    /\ resets' = resets + 1
    /\ pc' = "check" /\ by' = "cli" /\ chosen' = c
    /\ UNCHANGED <<dataVars, collectVars, window, todo, restoreVars, historyVars,
                   starts, deletes>>

(* _finish: the window unticks what was done and looks again.               *)
Finished(how) ==
    window' = IF by = "window"
              THEN Refreshed(IF how = "done"
                             THEN [window EXCEPT !.ticked = {}] ELSE window)
              ELSE window

----------------------------------------------------------------------------
(* run_reset: database, tool list, storage, in that order.                  *)

(* Mutant: the storage is emptied first.                                    *)
OrderStorageFirst == <<"storage", "db", "tools">>

Order == <<"db", "tools", "storage">>

(* The tool table was made again with the others, if the database was.      *)
FirstStage(c) == CASE c = "db"      -> "count"
                   [] c = "tools"   -> IF "db" \in chosen THEN "master" ELSE "tools"
                   [] c = "storage" -> "sweep"

StageFrom(i) == LET left == {k \in i .. Len(Order) : Order[k] \in chosen}
                IN  IF left = {} THEN "idle" ELSE FirstStage(Order[Min(left)])

StageAfter(c) == StageFrom(1 + CHOOSE i \in DOMAIN Order : Order[i] = c)

(* A stage ends: the next one of those asked for, or the reset is done.     *)
StageDone(c) ==
    IF StageAfter(c) = "idle"
    THEN ResetOver /\ Finished("done")
    ELSE pc' = StageAfter(c) /\ todo' = {} /\ UNCHANGED <<by, chosen, window>>

CheckModules ==
    /\ pc = "check"
    /\ IF running_modules = {}
       THEN pc' = StageFrom(1) /\ UNCHANGED <<by, chosen, todo, window>>
       ELSE ResetOver /\ Finished("refused")
    /\ raced' = (raced /\ running # {})
    /\ UNCHANGED <<dataVars, collectVars, restoreVars, passed, cut, back, boundVars>>

Missing == AllTables \ tables

tables_to_reset == {t \in tables : t = ToolTable => "tools" \in chosen}

CountTables ==
    /\ pc = "count"
    /\ pc' = "drop" /\ todo' = tables_to_reset
    /\ UNCHANGED <<dataVars, collectVars, window, by, chosen, restoreVars, historyVars,
                   boundVars>>

(* DROP TABLE commits by itself, one table after the other.                 *)
DropTable(t) ==
    /\ pc = "drop"
    /\ t \in todo
    /\ todo' = todo \ {t}
    /\ tables' = tables \ {t}
    /\ rows' = rows \ RowsIn(t)
    /\ UNCHANGED <<raw, vault, collectVars, window, pc, by, chosen, restoreVars,
                   historyVars, boundVars>>

(* create_all looks once for the tables that are missing.                   *)
Dropped ==
    /\ pc = "drop"
    /\ todo = {}
    /\ pc' = "create" /\ todo' = Missing
    /\ UNCHANGED <<dataVars, collectVars, window, by, chosen, restoreVars, historyVars,
                   boundVars>>

CreateTable(t) ==
    /\ pc = "create"
    /\ t \in todo
    /\ todo' = todo \ {t}
    /\ tables' = tables \cup {t}
    /\ UNCHANGED <<raw, vault, rows, collectVars, window, pc, by, chosen, restoreVars,
                   historyVars, boundVars>>

Created ==
    /\ pc = "create"
    /\ todo = {}
    /\ cut' = FALSE
    /\ StageDone("db")
    /\ UNCHANGED <<dataVars, collectVars, restoreVars, passed, raced, back, boundVars>>

(* The tool list alone: its rows are deleted in one transaction.            *)
ResetTools ==
    /\ pc = "tools"
    /\ rows' = rows \ RowsIn(ToolTable)
    /\ pc' = "master"
    /\ UNCHANGED <<raw, vault, tables, collectVars, window, by, chosen, todo, restoreVars,
                   historyVars, boundVars>>

RemoveToolFiles ==
    /\ pc = "master"
    /\ Vanish(ToolFiles \cap raw)
    /\ StageDone("tools")
    /\ UNCHANGED <<vault, tables, rows, restoreVars, passed, raced, cut, boundVars>>

(* Mutant: the whole data folder is emptied.                                *)
DataFolder == {"data"}

STORAGE_ROOTS == {"machining_raw_data", "processed_data", "failed_data"}

is_inside_vault(dir) == dir = "archive_vault"

(* Where files of this model lie below a folder.                            *)
Below(dir) ==
    CASE dir = "machining_raw_data" -> {"raw"}
      [] dir = "archive_vault"      -> {"vault"}
      [] dir = "data"               -> {"raw"} \cup (IF VaultAt = "beside" THEN {"vault"} ELSE {})
      [] OTHER                      -> {}

ToClean ==
    LET places == UNION {Below(dir) : dir \in {d \in STORAGE_ROOTS : ~is_inside_vault(d)}}
    IN  {<<"raw", f>> : f \in IF "raw" \in places THEN raw ELSE {}}
            \cup {<<"vault", f>> : f \in IF "vault" \in places THEN vault ELSE {}}

(* clean_directory: one file after the other, those that stand there when   *)
(* it comes by.                                                             *)
SweepFile(item) ==
    /\ pc = "sweep"
    /\ item \in ToClean \ todo
    /\ todo' = todo \cup {item}
    /\ IF item[1] = "raw" THEN Vanish({item[2]}) /\ UNCHANGED vault
                          ELSE vault' = vault \ {item[2]}
                               /\ UNCHANGED <<raw, collectVars, back>>
    /\ UNCHANGED <<tables, rows, window, pc, by, chosen, restoreVars, passed, raced, cut, boundVars>>

(* A file that is in use is reported and left.                              *)
SweepMisses(item) ==
    /\ pc = "sweep"
    /\ item \in ToClean \ todo
    /\ todo' = todo \cup {item}
    /\ UNCHANGED <<dataVars, collectVars, window, pc, by, chosen, restoreVars, historyVars,
                   boundVars>>

Swept ==
    /\ pc = "sweep"
    /\ ToClean \subseteq todo
    /\ StageDone("storage")
    /\ UNCHANGED <<dataVars, collectVars, restoreVars, historyVars, boundVars>>

CutShort == cut' = (cut \/ (pc \in {"drop", "create"} /\ Missing # {}))

(* A statement fails: the stages that are left do not run.                  *)
ResetFails ==
    /\ pc \in {"count", "drop", "create", "tools"}
    /\ CutShort
    /\ ResetOver
    /\ Finished("error")
    /\ UNCHANGED <<dataVars, collectVars, restoreVars, passed, raced, back, boundVars>>

ResetKilled ==
    /\ Resetting
    /\ CutShort
    /\ ResetOver
    /\ window' = IF by = "window" THEN Unticked ELSE window
    /\ UNCHANGED <<dataVars, collectVars, restoreVars, passed, raced, back, boundVars>>

----------------------------------------------------------------------------
Init ==
    /\ raw = {} /\ vault = {} /\ tables = AllTables /\ rows = {}
    /\ running = {} /\ queue = {} /\ marked = {} /\ lost = {}
    /\ window = Unticked
    /\ pc = "idle" /\ by = "none" /\ chosen = {} /\ todo = {}
    /\ rpc = "idle" /\ plan = {}
    /\ passed = {} /\ raced = FALSE /\ cut = FALSE /\ back = FALSE
    /\ resets = 0 /\ starts = 0 /\ deletes = 0

People == \/ \E f \in Files : DropFile(f)
          \/ \E j \in Jobs : DeleteJob(j) \/ RestoreJob(j)
          \/ \E m \in Modules : StartModule(m) \/ StopModule(m)
          \/ OpenWindow \/ Recheck \/ PressRun \/ Confirm \/ Decline
          \/ \E c \in Selections : Tick(c) \/ RunFromCommandLine(c)

Collect == \/ \E f \in Files : Ingest(f)
           \/ \E j \in Jobs : RestoreLost(j)

RestoreScript == \/ RestoreBegins \/ RestoreEnds \/ RestoreKilled
                 \/ \E f \in Files : RestoreCopies(f) \/ RestoreMisses(f)

RunReset == \/ CheckModules \/ CountTables \/ Dropped \/ Created
            \/ \E t \in AllTables : DropTable(t) \/ CreateTable(t)
            \/ ResetTools \/ RemoveToolFiles \/ Swept
            \/ \E item \in {"raw", "vault"} \X Files : SweepFile(item) \/ SweepMisses(item)
            \/ ResetFails \/ ResetKilled

Next == People \/ Collect \/ RestoreScript \/ RunReset

Spec == Init /\ [][Next]_vars

----------------------------------------------------------------------------
(* "Whatever is chosen, the backup vault is never deleted"                  *)
(* (reset_database_and_storage.py): no step of anyone takes a file from it. *)
VaultOnlyGrows == [][vault \subseteq vault']_vault

(* The collector has run dry.                                               *)
Settled == Collecting /\ queue = {} /\ lost = {} /\ ~Resetting

(* A collector that was not started in the middle of a reset and has no     *)
(* work left has registered every file there is, whatever resets and        *)
(* restores went before, unless a reset ended between its first DROP and    *)
(* create_all and none has finished since.  (The tool list is ToolMaster's.) *)
RefillsAfterReset == Settled /\ ~raced /\ ~cut => raw \ ToolFiles \subseteq rows \cup passed

(* The storage is emptied last, so that an interrupted reset never leaves   *)
(* rows whose raw files it has deleted (run_reset): while a reset of both   *)
(* deletes files, none of them has a row, unless a collector was started    *)
(* behind its back.                                                         *)
SweepsAfterRows ==
    pc = "sweep" /\ "db" \in chosen /\ ~raced => rows \subseteq ToolFiles

(* After restore_from_vault and with a collector that has no work left, all *)
(* that was ever archived is registered again ("the collector soon reads    *)
(* it and fills the database"), though the collector works, restores        *)
(* folders, and people drop files meanwhile.                                *)
BackupComesBack ==
    Settled /\ ~raced /\ ~cut /\ back /\ rpc = "idle" => vault \ ToolFiles \subseteq rows \cup passed
=============================================================================
