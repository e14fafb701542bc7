----------------------------- MODULE ToolMaster -----------------------------
(***************************************************************************)
(* The tool list and the machining steps that refer to it.  A file replaces *)
(* the whole list (backend/tool_inserter.py): uploaded in the dashboard, or *)
(* found by the collector in the watch folder; the parsers look tools up by *)
(* T number and store their ids.  The result is exported to the vault, from *)
(* where a file may come back to the watch folder.  backend/                *)
(* reset_database_and_storage.py empties the list.                          *)
(* A row is a T number (0: not mounted) and how far the cells that a        *)
(* mounted tool needs are filled in; a list is a sequence of rows.  A line  *)
(* of an NC program is whether it has M6, its T number (0: none) and        *)
(* whether it sets a speed or a feed.                                       *)
(***************************************************************************)
EXTENDS Naturals, Sequences, FiniteSets, SequencesExt

CONSTANTS
    Lists,          \* contents of the files that people have
    Programs,       \* NC programs
    Users,          \* dashboard sessions
    Collector,      \* the worker thread of the collector
    Offset,         \* ids are parked this far above the largest one (1000)
    MaxUploads, MaxDrops, MaxSteps, MaxStarts, MaxFaults   \* bounds

Actors  == Users \cup {Collector}
Modules == {"collector", "dashboard"}

NoFile == [rows |-> <<>>, time |-> 0]   \* where there is no file

ASSUME ToolsAssumption ==
    /\ \A f \in Lists : f \in Seq([num : Nat, cells : {"none", "some", "all"}])
    /\ \A p \in Programs : p \in Seq([m6 : BOOLEAN, tool : Nat, works : BOOLEAN])
    /\ Collector \notin Users
    /\ Offset \in Nat
    /\ \A b \in {MaxUploads, MaxDrops, MaxSteps, MaxStarts, MaxFaults} : b \in Nat

VARIABLES
    tool,       \* table tool: id -> row
    nextId,     \* its AUTO_INCREMENT
    steps,      \* table workingstep: T number and tool_id (0: NULL) of each step
    watch,      \* tool master file in the watch folder: rows and mtime
    vault, tmp, \* the copy in the vault, and the file it is written to first
    clock,      \* mtimes
    up,         \* modules that run
    todo,       \* the collector has the file in its queue
    pc, hold,   \* each actor: where it is, and the rows it has read
    ids,        \* the ids read for renumbering
    call,       \* the steps being stored: T number of each and tool id found for it
    reset,      \* the reset window: "idle", "clear" or "sweep"
    spent,      \* bounds used up
    outdated,   \* history: steps stored from a list that was replaced meanwhile
    overtaken,  \* history: the list has changed since the parser read it
    settled,    \* history: the last replacement ran alone and to its end
    uploaded,   \* history: when the last upload was committed
    cleared     \* history: a reset has emptied the list and no file was given since

tableVars   == <<tool, nextId, steps>>
fileVars    == <<watch, vault, tmp, clock>>
actorVars   == <<pc, hold, ids, call>>
historyVars == <<outdated, overtaken, settled, uploaded, cleared>>
vars == <<tableVars, fileVars, up, todo, actorVars, reset, spent, historyVars>>

(* The rows at the places S, in the order of these.                         *)
Rank(S, i)       == Cardinality({k \in S : k <= i})
InOrder(rows, S) == [n \in 1 .. Cardinality(S) |-> rows[CHOOSE i \in S : Rank(S, i) = n]]
Content          == InOrder(tool, DOMAIN tool)
Maximum(S) == CHOOSE x \in S : \A y \in S : y <= x

Goto(a, where) == pc' = [pc EXCEPT ![a] = where]
Alone(a)  == \A b \in Actors \ {a} : pc[b] \in {"idle", "insert"}
Spend(w)  == spent' = [spent EXCEPT ![w] = @ + 1]

----------------------------------------------------------------------------
(* What a file must be, and what the table demands.                         *)

Blank == [num |-> 0, cells |-> "none"]

(* _read_table passes over the lines without a filled cell.                 *)
RowsOf(f) == InOrder(f, {i \in 1 .. Len(f) : f[i] # Blank})

(* tool_code_number takes T and one or two digits (T00 is not modelled).    *)
IsCode(n) == n \in 1 .. 99

(* _normalize_row: a mounted tool has its class, diameter and teeth.        *)
Complete(row) == row.num # 0 => IsCode(row.num) /\ row.cells = "all"

(* parse_tool_master: there are rows, all complete, and no T number comes   *)
(* twice.                                                                   *)
Acceptable(f) ==
    /\ f # <<>>
    /\ \A i \in 1 .. Len(f) : Complete(f[i])
    /\ \A i, k \in 1 .. Len(f) : i # k /\ f[i].num # 0 => f[i].num # f[k].num

(* The table's UNIQUE and CHECK constraints.                                *)
Fits(f) ==
    LET mounted == {i \in 1 .. Len(f) : f[i].num # 0}
    IN  /\ \A i, k \in mounted : i # k => f[i].num # f[k].num
        /\ \A i \in mounted : f[i].cells = "all"

(* The id under which a table lists a T number, 0 when it does not.         *)
IdOf(table, n) ==
    LET found == {i \in DOMAIN table : table[i].num = n}
    IN  IF n = 0 \/ found = {} THEN 0 ELSE CHOOSE i \in found : TRUE

(* relink_workingsteps: every step anew, by its T number.                   *)
Relinked(table) ==
    [i \in 1 .. Len(steps) |-> [steps[i] EXCEPT !.link = IdOf(table, steps[i].num)]]

----------------------------------------------------------------------------
(* Who starts a replacement.                                                *)

Upload(u, f) ==
    /\ pc[u] = "idle" /\ "dashboard" \in up
    /\ spent.uploads < MaxUploads /\ Spend("uploads")
    /\ Goto(u, IF Acceptable(RowsOf(f)) THEN "replace" ELSE "idle")
    /\ hold' = [hold EXCEPT ![u] = RowsOf(f)]
    /\ cleared' = FALSE
    /\ UNCHANGED <<tableVars, fileVars, up, todo, ids, call, reset, outdated, overtaken,
                   settled, uploaded>>

(* Mutant: the age of the file is not looked at.                            *)
NewsOfAnyAge == RowsOf(watch.rows) # Content

(* The file is skipped when the table has its content already, or when the  *)
(* copy in the vault is newer.                                              *)
News ==
    /\ RowsOf(watch.rows) # Content
    /\ vault = NoFile \/ vault.time <= watch.time

SyncFromWatchFolder ==
    /\ "collector" \in up /\ todo /\ pc[Collector] = "idle"
    /\ todo' = FALSE
    /\ IF watch # NoFile /\ Acceptable(RowsOf(watch.rows)) /\ News
       THEN /\ Goto(Collector, "replace")
            /\ hold' = [hold EXCEPT ![Collector] = RowsOf(watch.rows)]
       ELSE UNCHANGED <<pc, hold>>
    /\ UNCHANGED <<tableVars, fileVars, up, ids, call, reset, spent, historyVars>>

----------------------------------------------------------------------------
(* The replacement, in the order of _apply.                                 *)

(* replace_tool_master, one transaction: all rows go, the new ones get the  *)
(* next ids, and the steps are linked again.                                *)
Replace(a) ==
    /\ pc[a] = "replace"
    /\ Fits(hold[a])
    /\ tool' = [i \in nextId .. nextId + Len(hold[a]) - 1 |-> hold[a][i - nextId + 1]]
    /\ nextId' = nextId + Len(hold[a])
    /\ steps' = Relinked(tool')
    /\ Goto(a, "order")
    /\ outdated' = {} /\ overtaken' = TRUE
    /\ settled' = Alone(a)
    /\ clock' = IF a \in Users THEN clock + 1 ELSE clock
    /\ uploaded' = IF a \in Users THEN clock' ELSE uploaded
    /\ UNCHANGED <<watch, vault, tmp, up, todo, hold, ids, call, reset, spent, cleared>>

(* resequence_tool_ids reads the ids; when they are 1 .. n already only the *)
(* counter is set back.                                                     *)
ReadIds(a) ==
    /\ pc[a] = "order"
    /\ LET n == Cardinality(DOMAIN tool)
       IN  IF DOMAIN tool = 1 .. n
           THEN /\ nextId' = n + 1
                /\ Goto(a, "export") /\ UNCHANGED ids
           ELSE /\ ids' = [ids EXCEPT ![a] = DOMAIN tool]
                /\ Goto(a, "renumber") /\ UNCHANGED nextId
    /\ UNCHANGED <<tool, steps, fileVars, up, todo, hold, call, reset, spent, historyVars>>

(* The id a row ends up with: all rows are moved out of the way, and those  *)
(* whose id was read are moved to its rank.                                 *)
NewId(read, id) ==
    IF id \in read THEN Rank(read, id) ELSE id + Maximum(read) + Offset

(* Mutant: the steps keep the old ids.                                      *)
StepsUnmoved(read) == steps

StepsMoved(read) ==
    [i \in 1 .. Len(steps) |->
        [steps[i] EXCEPT !.link = IF @ = 0 THEN 0 ELSE NewId(read, @)]]

(* AUTO_INCREMENT is set behind the ids read; MySQL keeps it above those    *)
(* that are there.                                                          *)
CounterAfter(read, used) == Maximum({Cardinality(read)} \cup used) + 1

Renumber(a) ==
    /\ pc[a] = "renumber"
    /\ LET new == [i \in DOMAIN tool |-> NewId(ids[a], i)]
       IN  /\ tool' = [k \in Range(new) |-> tool[CHOOSE i \in DOMAIN tool : new[i] = k]]
           /\ nextId' = CounterAfter(ids[a], Range(new))
    /\ steps' = StepsMoved(ids[a])
    /\ Goto(a, "export")
    /\ ids' = [ids EXCEPT ![a] = {}]
    /\ overtaken' = TRUE
    /\ UNCHANGED <<fileVars, up, todo, hold, call, reset, spent, outdated, settled,
                   uploaded, cleared>>

(* archive_tool_master: the table is read, written to a file of its own,    *)
(* and that file put in the place of the old copy.                          *)
Export(a) ==
    /\ pc[a] = "export"
    /\ hold' = [hold EXCEPT ![a] = Content]
    /\ Goto(a, "write")
    /\ UNCHANGED <<tableVars, fileVars, up, todo, ids, call, reset, spent, historyVars>>

WriteTmp(a) ==
    /\ pc[a] = "write"
    /\ clock' = clock + 1
    /\ tmp' = [rows |-> hold[a], time |-> clock']
    /\ Goto(a, "swap")
    /\ UNCHANGED <<tableVars, watch, vault, up, todo, hold, ids, call, reset, spent,
                   historyVars>>

(* Mutant: a copy that is there already is kept.                            *)
ArchivedOnce == IF vault = NoFile THEN tmp ELSE vault

(* Another actor may have moved the file already: the archive is reported   *)
(* as failed, the replacement as done.                                      *)
Archived == IF tmp = NoFile THEN vault ELSE tmp

Swap(a) ==
    /\ pc[a] = "swap"
    /\ vault' = Archived
    /\ tmp' = NoFile
    /\ Goto(a, "idle")
    /\ hold' = [hold EXCEPT ![a] = <<>>]
    /\ UNCHANGED <<tableVars, watch, clock, up, todo, ids, call, reset, spent, historyVars>>

(* An error: a transaction is rolled back and the replacement ends, except  *)
(* that a failed renumbering only warns.  A list that is not archived, or   *)
(* is archived by somebody else, is not settled.                            *)
Fails(a) ==
    /\ pc[a] \in {"replace", "order", "renumber", "export", "write", "swap"}
    /\ (pc[a] = "replace" => Fits(hold[a])) => spent.faults < MaxFaults
    /\ Spend("faults")
    /\ Goto(a, IF pc[a] \in {"order", "renumber"} THEN "export" ELSE "idle")
    /\ settled' = (settled /\ pc[a] \in {"replace", "order", "renumber"})
    /\ UNCHANGED <<tableVars, fileVars, up, todo, hold, ids, call, reset, outdated,
                   overtaken, uploaded, cleared>>

----------------------------------------------------------------------------
(* The parser of NC programs: the list is looked up, the steps are stored   *)
(* at the end of the transaction.                                           *)

(* save_step: what was read since the last one becomes a step, if it calls  *)
(* a tool or sets something.                                                *)
Saved(read) ==
    IF read.tool # 0 \/ read.works
    THEN [tool |-> 0, works |-> FALSE, nums |-> Append(read.nums, read.tool)]
    ELSE read

(* M6 with T starts a step.  T alone does when there is none, or when the   *)
(* one there is has a speed or a feed and another tool; else it says        *)
(* nothing, nor does M6 alone.                                              *)
Takes(read, line) ==
    CASE line.tool = 0                         -> read
      [] line.tool # 0 /\ line.m6              -> [Saved(read) EXCEPT !.tool = line.tool]
      [] line.tool # 0 /\ ~line.m6 /\ read.tool = 0 -> [read EXCEPT !.tool = line.tool]
      [] OTHER -> IF read.tool # line.tool /\ read.works
                  THEN [Saved(read) EXCEPT !.tool = line.tool] ELSE read

(* parse_nc_cutting_conditions: the T number of each step, 0 for none.      *)
Called(p) ==
    LET next(read, line) ==
            [Takes(read, line) EXCEPT !.works = @ \/ line.works]
    IN  Saved(FoldLeft(next, [tool |-> 0, works |-> FALSE, nums |-> <<>>], p)).nums

(* What comes of the fold is a list of T numbers.                           *)
ASSUME CalledAssumption == \A p \in Programs : Called(p) \in Seq(Nat)

ParseLooksUp(p) ==
    /\ "collector" \in up /\ pc[Collector] = "idle"
    /\ Called(p) # <<>>
    /\ Len(steps) + Len(Called(p)) <= MaxSteps
    /\ call' = [k \in 1 .. Len(Called(p)) |->
                   [num |-> Called(p)[k], link |-> IdOf(tool, Called(p)[k])]]
    /\ Goto(Collector, "insert")
    /\ overtaken' = FALSE
    /\ UNCHANGED <<tableVars, fileVars, up, todo, hold, ids, reset, spent, outdated, settled,
                   uploaded, cleared>>

(* An id that is gone is refused by the foreign key.                        *)
ParseStores ==
    /\ pc[Collector] = "insert"
    /\ IF \A k \in 1 .. Len(call) : call[k].link \in {0} \cup DOMAIN tool
       THEN /\ steps' = steps \o call
            /\ outdated' = outdated \cup (IF overtaken THEN Len(steps) + 1 .. Len(steps') ELSE {})
       ELSE UNCHANGED <<steps, outdated>>
    /\ Goto(Collector, "idle")
    /\ call' = <<>>
    /\ UNCHANGED <<tool, nextId, fileVars, up, todo, hold, ids, reset, spent, overtaken,
                   settled, uploaded, cleared>>

----------------------------------------------------------------------------
(* Files given by people, and the modules.                                  *)

(* A file keeps its age when it is copied in.                               *)
Drop(f, t) ==
    /\ spent.drops < MaxDrops /\ Spend("drops")
    /\ t \in {1, clock + 1}
    /\ clock' = clock + 1
    /\ watch' = [rows |-> f, time |-> t]
    /\ todo' = ("collector" \in up)
    /\ cleared' = FALSE
    /\ UNCHANGED <<tableVars, vault, tmp, up, actorVars, reset, outdated, overtaken, settled,
                   uploaded>>

(* restore_from_vault copies what is missing, with its mtime.               *)
RestoreFromVault ==
    /\ watch = NoFile /\ vault # NoFile
    /\ spent.drops < MaxDrops /\ Spend("drops")
    /\ watch' = vault
    /\ todo' = ("collector" \in up)
    /\ cleared' = FALSE
    /\ UNCHANGED <<tableVars, vault, tmp, clock, up, actorVars, reset, outdated, overtaken,
                   settled, uploaded>>

(* The collector walks the watch folder when it starts.                     *)
Start(m) ==
    /\ m \notin up
    /\ spent.starts < MaxStarts /\ Spend("starts")
    /\ up' = up \cup {m}
    /\ todo' = IF m = "collector" THEN watch # NoFile ELSE todo
    /\ UNCHANGED <<tableVars, fileVars, actorVars, reset, historyVars>>

(* A stop is a kill: whatever was being done ends where it is.              *)
Stop(m) ==
    /\ m \in up
    /\ up' = up \ {m}
    /\ LET gone == IF m = "collector" THEN {Collector} ELSE Users
       IN  /\ pc' = [a \in Actors |-> IF a \in gone THEN "idle" ELSE pc[a]]
           /\ settled' = (settled /\ \A a \in gone : pc[a] \in {"idle", "insert", "replace"})
    /\ todo' = (todo /\ m # "collector")
    /\ call' = IF m = "collector" THEN <<>> ELSE call
    /\ UNCHANGED <<tableVars, fileVars, hold, ids, reset, spent, outdated, overtaken,
                   uploaded, cleared>>

(* The reset window looks for running modules once, before it begins.       *)
ResetBegins ==
    /\ reset = "idle" /\ up = {} /\ tool # <<>>
    /\ reset' = "clear"
    /\ UNCHANGED <<tableVars, fileVars, up, todo, actorVars, spent, historyVars>>

(* reset_tools: DELETE sets the links of the steps to NULL.                 *)
ResetClears ==
    /\ reset = "clear"
    /\ tool' = <<>> /\ nextId' = 1
    /\ steps' = [i \in 1 .. Len(steps) |-> [steps[i] EXCEPT !.link = 0]]
    /\ overtaken' = TRUE /\ outdated' = {} /\ settled' = FALSE
    /\ reset' = "sweep"
    /\ UNCHANGED <<fileVars, up, todo, actorVars, spent, uploaded, cleared>>

(* Mutant: the file stays in the watch folder.                              *)
SweptNothing == watch

(* remove_watch_tool_files                                                  *)
Swept == NoFile

ResetSweeps ==
    /\ reset = "sweep"
    /\ watch' = Swept
    /\ reset' = "idle"
    /\ cleared' = (up = {} /\ tool = <<>>)
    /\ UNCHANGED <<tableVars, vault, tmp, clock, up, todo, actorVars, spent, outdated,
                   overtaken, settled, uploaded>>

----------------------------------------------------------------------------
Init ==
    /\ tool = <<>> /\ nextId = 1 /\ steps = <<>>
    /\ watch = NoFile /\ vault = NoFile /\ tmp = NoFile /\ clock = 1
    /\ up = {} /\ todo = FALSE
    /\ pc = [a \in Actors |-> "idle"] /\ hold = [a \in Actors |-> <<>>]
    /\ ids = [a \in Actors |-> {}] /\ call = <<>>
    /\ reset = "idle"
    /\ spent = [uploads |-> 0, drops |-> 0, starts |-> 0, faults |-> 0]
    /\ outdated = {} /\ overtaken = FALSE /\ settled = FALSE /\ uploaded = 0
    /\ cleared = FALSE

Apply(a) == \/ Replace(a) \/ ReadIds(a) \/ Renumber(a)
            \/ Export(a) \/ WriteTmp(a) \/ Swap(a) \/ Fails(a)

People == \/ \E f \in Lists : \/ \E u \in Users : Upload(u, f)
                              \/ \E t \in 1 .. clock + 1 : Drop(f, t)
          \/ RestoreFromVault
          \/ \E m \in Modules : Start(m) \/ Stop(m)
          \/ ResetBegins

Next == \/ People
        \/ \E a \in Actors : Apply(a)
        \/ SyncFromWatchFolder \/ ParseStores \/ \E p \in Programs : ParseLooksUp(p)
        \/ ResetClears \/ ResetSweeps

Spec == Init /\ [][Next]_vars

----------------------------------------------------------------------------
Right(s) == s.link = IdOf(tool, s.num)

(* Every machining step is linked to the tool that carries its T number now,*)
(* or to none when no mounted tool does, except for steps stored from a     *)
(* list that was replaced between the look-up and the commit of the parser. *)
LinksAreRight ==
    \A i \in 1 .. Len(steps) : i \in outdated \/ Right(steps[i])

(* When the last replacement ran alone and to its end, the vault holds the  *)
(* list that is in the database.                                            *)
ArchiveIsCurrent ==
    (settled /\ \A a \in Actors : pc[a] \in {"idle", "insert"})
        => vault # NoFile /\ vault.rows = Content

(* An upload that ran alone and to its end is not undone by a file of the   *)
(* watch folder that is older, however often the collector starts.          *)
OldFilesStayOut ==
    [][ /\ settled /\ \A u \in Users : pc[u] = "idle"
        /\ pc[Collector] = "idle" /\ pc'[Collector] = "replace"
        => watch.time > uploaded ]_vars

(* A list that a reset has emptied while everything was stopped stays empty *)
(* until somebody gives a file.                                             *)
ResetSticks == cleared => tool = <<>>
=============================================================================
