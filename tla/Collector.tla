----------------------------- MODULE Collector -----------------------------
(***************************************************************************)
(* The watch-folder collector (backend/data_insert_recognization.py) with  *)
(* the calls it makes into job_layout, the parsers, vault_manager and      *)
(* recovery_engine.  Four parties act on the raw-data tree of one part:    *)
(*   - people and machines, who drop, overwrite and delete files;          *)
(*   - the watchdog observer thread, which delivers change events in order;*)
(*   - the one worker thread, which takes paths from file_queue;           *)
(*   - the one delete worker, which restores Job folders from the vault.   *)
(* A path is <<f, "root">> (dropped in the Job folder), <<f, "sub">> (in   *)
(* the Job's XML/NC/TDMS/... folder) or <<f, "cad">> (the part's CAD       *)
(* folder).  The content of a file is the number of the write that made it *)
(* (0: no file), so "newer" is "greater".                                  *)
(***************************************************************************)
EXTENDS Naturals, Sequences, FiniteSets, SequencesExt

CONSTANTS
    Jobs,           \* Job folders of the part
    XmlFiles,       \* metadata files: their parser registers the Job only when it commits
    NcFiles,        \* NC programs: archived by their own parser and by the XML parser
    LogFiles,       \* logs and roughness: the parser registers the Job before it reads
    EtcFiles,       \* reference files in etc/: archived, never parsed
    CadFiles,       \* drawings of the part
    JobOf,          \* the Job folder of a file that is not a drawing
    Drops,          \* paths that people and machines write to
    MaxVer,         \* bound: writes per file
    CacheSize,      \* max_cache_size of processed_files (10000 in the code)
    MaxDeletes,     \* bound: deletions by people
    MaxCrashes,     \* bound: kills of the collector process
    Env             \* what else the environment does, a subset of EnvKinds

JobFiles  == XmlFiles \cup NcFiles \cup LogFiles
Files     == JobFiles \cup EtcFiles \cup CadFiles
Paths     == (JobFiles \X {"root", "sub"}) \cup (EtcFiles \X {"sub"})
                 \cup (CadFiles \X {"cad"})
JobDirs   == Jobs \X {"dir"}
PartDir   == "part"        \* a deletion that resolves to every Job of the part
Versions  == 0 .. MaxVer
EnvKinds  == {"pause", "parsers", "bad", "busy", "offline", "folder", "copied"}
Reasons   == {"no", "gap", "paused", "parser_off", "bad", "busy", "known", "marked"}

ASSUME BoundsAssumption ==
    /\ MaxVer \in Nat /\ CacheSize \in Nat \ {0}
    /\ MaxDeletes \in Nat /\ MaxCrashes \in Nat
ASSUME FilesAssumption ==
    /\ IsFiniteSet(Files)
    /\ JobOf \in [JobFiles \cup EtcFiles -> Jobs]
    /\ Drops \subseteq Paths
    /\ Env \subseteq EnvKinds
    /\ XmlFiles \cap (NcFiles \cup LogFiles) = {} /\ NcFiles \cap LogFiles = {}
    /\ JobFiles \cap EtcFiles = {} /\ CadFiles \cap (JobFiles \cup EtcFiles) = {}
ASSUME NamesAssumption == {PartDir, "none"} \cap Jobs = {}

VARIABLES
    disk,       \* version of the file at each path, 0 when there is none
    tree,       \* Job folder: "absent", "bare" (no subfolder) or "full"
    latest,     \* number of writes made to each file so far
    vault,      \* version of the copy the vault holds of each path
    rows,       \* version whose content the database holds for each file
    jobs,       \* Job folders registered in the database
    config,     \* pipeline_config.json: paused flag and parser switch
    up,         \* the process: "down", "scan" (before observer.start) or "watch"
    toScan,     \* paths the start-up walk has not reached yet
    marked,     \* processed_files, oldest first
    fileQ,      \* file_queue
    events,     \* changes the observer has seen and not yet handled
    delQ,       \* delete_queue: places where something was deleted
    wpc, wpath, wver,                \* worker: step, path in hand, version read
    rpc, rjobs, rjob, rleft, rcopied, \* delete worker: step, Jobs, Job, paths left, count > 0
    deletes, crashes,   \* bounds used up
    skip        \* history: why the content now at a path was passed over, "no" if it was not

osVars      == <<disk, tree, latest>>
dbVars      == <<vault, rows, jobs>>
obsVars     == <<marked, fileQ, events, delQ>>
workVars    == <<wpc, wpath, wver>>
restoreVars == <<rpc, rjobs, rjob, rleft, rcopied>>
boundVars   == <<deletes, crashes>>
vars == <<osVars, dbVars, config, up, toScan, obsVars, workVars, restoreVars,
          boundVars, skip>>

NoPath == <<"none", "none">>
NoJob  == "none"
Event(k, p) == [kind |-> k, path |-> p]

JobPaths(j)  == {p \in Paths : p[2] # "cad" /\ JobOf[p[1]] = j}
OnDisk(ps)   == {p \in ps : disk[p] # 0}
Sub(p)       == <<p[1], "sub">>

----------------------------------------------------------------------------
(* processed_files, an OrderedDict: marking again keeps the old place, and  *)
(* the oldest entry goes when the cache is over its limit.                  *)

IsMarked(p) == \E i \in 1 .. Len(marked) : marked[i] = p

MarkedAfter(p) ==
    LET longer == Append(marked, p)
    IN  IF IsMarked(p) THEN marked
        ELSE IF Len(longer) > CacheSize THEN Tail(longer) ELSE longer

(* Mutant: a change or a deletion leaves the mark in place.                 *)
UnmarkedAfterKept(p) == marked

UnmarkedAfter(p) ==
    IF IsMarked(p)
    THEN LET i == CHOOSE k \in 1 .. Len(marked) : marked[k] = p
         IN  SubSeq(marked, 1, i - 1) \o SubSeq(marked, i + 1, Len(marked))
    ELSE marked

(* watchdog reports a change only while the observer runs.                  *)
Notify(new) == events' = IF up = "watch" THEN events \o new ELSE events

WriteKind(p) == IF disk[p] = 0 THEN "created" ELSE "modified"

(* The folder structure after a file appears at p.                          *)
TreeWith(p) ==
    CASE p[2] = "cad"  -> tree
      [] p[2] = "sub"  -> [tree EXCEPT ![JobOf[p[1]]] = "full"]
      [] p[2] = "root" -> [tree EXCEPT ![JobOf[p[1]]] = IF @ = "absent" THEN "bare" ELSE @]

(* A change at p that no scan and no event will report: it happens before   *)
(* the observer is started, and after the walk passed p or a relocation     *)
(* marked it, so that what the walk queues is not looked at.                *)
Unseen(p) == up = "scan" /\ (p \notin toScan \/ IsMarked(p))

(* A file that comes back where one was deleted unseen, or marked when it   *)
(* was gone already, finds the mark of its forerunner.                      *)
StillPassed(p) == disk[p] = 0 /\ skip[p] \in {"gap", "marked"}

----------------------------------------------------------------------------
(* People and machines.                                                     *)

MayAct == up = "watch" \/ "offline" \in Env

(* A file moved in is reported once, one copied in is also reported as      *)
(* changed.                                                                 *)
Write(p) ==
    /\ MayAct
    /\ p \in Drops
    /\ latest[p[1]] < MaxVer
    /\ latest' = [latest EXCEPT ![p[1]] = @ + 1]
    /\ disk' = [disk EXCEPT ![p] = latest[p[1]] + 1]
    /\ tree' = TreeWith(p)
    /\ \/ Notify(<<Event(WriteKind(p), p)>>)
       \/ /\ "copied" \in Env /\ disk[p] = 0
          /\ Notify(<<Event("created", p), Event("modified", p)>>)
    /\ skip' = [skip EXCEPT ![p] =
                  IF Unseen(p) THEN "gap" ELSE IF StillPassed(p) THEN @ ELSE "no"]
    /\ UNCHANGED <<dbVars, config, up, toScan, marked, fileQ, delQ, workVars,
                   restoreVars, boundVars>>

DeleteFile(p) ==
    /\ MayAct
    /\ deletes < MaxDeletes
    /\ disk[p] # 0
    /\ disk' = [disk EXCEPT ![p] = 0]
    /\ deletes' = deletes + 1
    /\ Notify(<<Event("deleted", p)>>)
    /\ skip' = [skip EXCEPT ![p] = IF Unseen(p) THEN "gap" ELSE "no"]
    /\ UNCHANGED <<tree, latest, dbVars, config, up, toScan, marked, fileQ, delQ,
                   workVars, restoreVars, crashes>>

(* A whole Job folder goes: one event per file and one for the folder.      *)
DeleteFolder(j) ==
    /\ "folder" \in Env
    /\ MayAct
    /\ deletes < MaxDeletes
    /\ tree[j] # "absent"
    /\ disk' = [p \in Paths |-> IF p \in JobPaths(j) THEN 0 ELSE disk[p]]
    /\ tree' = [tree EXCEPT ![j] = "absent"]
    /\ deletes' = deletes + 1
    /\ LET gone == SetToSeq(OnDisk(JobPaths(j)))
       IN  Notify([i \in 1 .. Len(gone) |-> Event("deleted", gone[i])]
                     \o <<Event("deleted", <<j, "dir">>)>>)
    /\ skip' = [p \in Paths |-> IF p \in OnDisk(JobPaths(j))
                                THEN IF Unseen(p) THEN "gap" ELSE "no"
                                ELSE skip[p]]
    /\ UNCHANGED <<latest, dbVars, config, up, toScan, marked, fileQ, delQ,
                   workVars, restoreVars, crashes>>

TogglePause ==
    /\ "pause" \in Env
    /\ config' = [config EXCEPT !.paused = ~@]
    /\ UNCHANGED <<osVars, dbVars, up, toScan, obsVars, workVars, restoreVars,
                   boundVars, skip>>

ToggleParsers ==
    /\ "parsers" \in Env
    /\ config' = [config EXCEPT !.enabled = ~@]
    /\ UNCHANGED <<osVars, dbVars, up, toScan, obsVars, workVars, restoreVars,
                   boundVars, skip>>

----------------------------------------------------------------------------
(* The process: taskkill at any moment, and start_pipeline.                 *)

Crash ==
    /\ up # "down"
    /\ crashes < MaxCrashes
    /\ crashes' = crashes + 1
    /\ up' = "down"
    /\ toScan' = {}
    /\ marked' = <<>> /\ fileQ' = <<>> /\ events' = <<>> /\ delQ' = {}
    /\ wpc' = "idle" /\ wpath' = NoPath /\ wver' = 0
    /\ rpc' = "idle" /\ rjobs' = {} /\ rjob' = NoJob /\ rleft' = {} /\ rcopied' = FALSE
    /\ skip' = [p \in Paths |-> "no"]
    /\ UNCHANGED <<osVars, dbVars, config, deletes>>

(* Mutant: the walk does not enter the subfolders of a Job.                 *)
WalkedTopOnly == {p \in Paths : p[2] = "root"}

Walked == Paths

(* The handler object starts both worker threads, then the tree is walked.  *)
StartPipeline ==
    /\ up = "down"
    /\ up' = "scan"
    /\ toScan' = Walked
    /\ UNCHANGED <<osVars, dbVars, config, obsVars, workVars, restoreVars,
                   boundVars, skip>>

(* os.walk lists a folder before the folders below it.                      *)
ScanPath(p) ==
    /\ up = "scan"
    /\ p \in toScan
    /\ p[2] = "sub" => <<p[1], "root">> \notin toScan
    /\ toScan' = toScan \ {p}
    /\ fileQ' = IF disk[p] # 0 THEN Append(fileQ, p) ELSE fileQ
    /\ UNCHANGED <<osVars, dbVars, config, up, marked, events, delQ, workVars,
                   restoreVars, boundVars, skip>>

StartObserver ==
    /\ up = "scan"
    /\ toScan = {}
    /\ up' = "watch"
    /\ UNCHANGED <<osVars, dbVars, config, toScan, obsVars, workVars, restoreVars,
                   boundVars, skip>>

----------------------------------------------------------------------------
(* The observer thread.                                                     *)

NextEvent(k) == /\ events # <<>>
                /\ Head(events).kind = k
                /\ events' = Tail(events)

OnCreated ==
    /\ NextEvent("created")
    /\ fileQ' = Append(fileQ, Head(events).path)
    /\ UNCHANGED <<osVars, dbVars, config, up, toScan, marked, delQ, workVars,
                   restoreVars, boundVars, skip>>

OnModified ==
    /\ NextEvent("modified")
    /\ marked' = UnmarkedAfter(Head(events).path)
    /\ fileQ' = Append(fileQ, Head(events).path)
    /\ UNCHANGED <<osVars, dbVars, config, up, toScan, delQ, workVars, restoreVars,
                   boundVars, skip>>

(* Mutant: the name of a deleted file counts as one level of the path.      *)
PlacesOfByDepth(p) == {p[1]}

(* The place a deletion resolves to: the Job folder of a file, the part for *)
(* a drawing; a deleted folder may be reported as a file (its parent then   *)
(* counts) or as a folder.                                                  *)
PlacesOf(p) ==
    CASE p[2] = "cad" -> {PartDir}
      [] p[2] = "dir" -> {p[1], PartDir}
      [] OTHER        -> {JobOf[p[1]]}

OnDeleted ==
    /\ NextEvent("deleted")
    /\ marked' = UnmarkedAfter(Head(events).path)
    /\ \E d \in PlacesOf(Head(events).path) : delQ' = delQ \cup {d}
    /\ UNCHANGED <<osVars, dbVars, config, up, toScan, fileQ, workVars, restoreVars,
                   boundVars, skip>>

----------------------------------------------------------------------------
(* The worker thread.                                                       *)

Running == up # "down"
WorkerDone == wpc' = "idle" /\ wpath' = NoPath /\ wver' = 0

(* The content at p is not both archived and, for a parsed kind, stored.    *)
Stale(p) ==
    /\ disk[p] # 0
    /\ \/ p[2] = "root"
       \/ vault[p] # disk[p]
       \/ p[1] \notin EtcFiles /\ rows[p[1]] # disk[p]

(* The record that the content now at p is passed over for a reason.        *)
PassOver(p, reason) == skip' = [skip EXCEPT ![p] = IF Stale(p) THEN reason ELSE @]

Wanted(p) == ~IsMarked(p) /\ disk[p] # 0

Take ==
    /\ Running
    /\ wpc = "idle"
    /\ fileQ # <<>>
    /\ fileQ' = Tail(fileQ)
    /\ IF Wanted(Head(fileQ))
       THEN wpc' = "ready" /\ wpath' = Head(fileQ) /\ wver' = 0
       ELSE UNCHANGED workVars
    /\ UNCHANGED <<osVars, dbVars, config, up, toScan, marked, events, delQ,
                   restoreVars, boundVars, skip>>

(* wait_for_file_ready gives up after 20 tries: the file is gone, or its    *)
(* writer still holds it.                                                   *)
NotReady ==
    /\ wpc = "ready"
    /\ disk[wpath] = 0 \/ "busy" \in Env
    /\ WorkerDone
    /\ PassOver(wpath, "busy")
    /\ UNCHANGED <<osVars, dbVars, config, up, toScan, obsVars, restoreVars, boundVars>>

MarkReady ==
    /\ wpc = "ready"
    /\ disk[wpath] # 0
    /\ marked' = MarkedAfter(wpath)
    /\ wpc' = IF wpath[2] = "root" THEN "place" ELSE "gate"
    /\ UNCHANGED <<osVars, dbVars, config, up, toScan, fileQ, events, delQ, wpath,
                   wver, restoreVars, boundVars, skip>>

(* Mutant: the place a file was moved to is not marked.                     *)
MarkMovedForgotten(dest) == UNCHANGED marked

(* The new place is marked before the move's own events arrive.             *)
MarkMoved(dest) == marked' = MarkedAfter(dest)

(* relocate_into_subdir: an older file of that name is removed first, and   *)
(* when the dropped file has vanished meanwhile os.replace raises.          *)
Relocate ==
    /\ wpc = "place"
    /\ LET dest    == Sub(wpath)
           removed == IF disk[dest] # 0 THEN <<Event("deleted", dest)>> ELSE <<>>
       IN  /\ disk' = [disk EXCEPT ![dest] = disk[wpath], ![wpath] = 0]
           /\ tree' = [tree EXCEPT ![JobOf[wpath[1]]] = "full"]
           /\ skip' = [skip EXCEPT
                 ![dest] = IF disk[wpath] # 0 THEN "no" ELSE IF Unseen(dest) THEN "gap" ELSE @,
                 ![wpath] = IF disk[wpath] = 0 THEN @ ELSE IF Unseen(wpath) THEN "gap" ELSE "no"]
           /\ IF disk[wpath] # 0
              THEN /\ Notify(removed \o <<Event("deleted", wpath), Event("created", dest)>>)
                   /\ MarkMoved(dest)
                   /\ wpc' = "gate" /\ wpath' = dest /\ UNCHANGED wver
              ELSE /\ Notify(removed)
                   /\ UNCHANGED marked
                   /\ WorkerDone
    /\ UNCHANGED <<latest, dbVars, config, up, toScan, fileQ, delQ, restoreVars,
                   boundVars>>

(* etc/ files need no parser; every other kind looks at the configuration.  *)
GateEtc ==
    /\ wpc = "gate"
    /\ wpath[1] \in EtcFiles
    /\ jobs' = jobs \cup {JobOf[wpath[1]]}
    /\ wpc' = "archive"
    /\ UNCHANGED <<osVars, vault, rows, config, up, toScan, obsVars, wpath, wver,
                   restoreVars, boundVars, skip>>

GateParsed ==
    /\ wpc = "gate"
    /\ wpath[1] \notin EtcFiles
    /\ IF config.paused \/ ~config.enabled
       THEN /\ WorkerDone
            /\ PassOver(wpath, IF config.paused THEN "paused" ELSE "parser_off")
       ELSE /\ wpc' = "parse"
            /\ UNCHANGED <<wpath, wver, skip>>
    /\ UNCHANGED <<osVars, dbVars, config, up, toScan, obsVars, restoreVars, boundVars>>

(* get_or_create_job commits the Job before the file is read; the XML and   *)
(* CAD parsers do not call it.                                              *)
EarlyJob(f) == IF f \in NcFiles \cup LogFiles THEN {JobOf[f]} ELSE {}

Parse ==
    /\ wpc = "parse"
    /\ jobs' = jobs \cup EarlyJob(wpath[1])
    /\ wpath[1] \in CadFiles => rows[wpath[1]] = 0
    /\ disk[wpath] # 0 \/ wpath[1] \in NcFiles
    /\ wver' = disk[wpath]
    /\ wpc' = "archive"
    /\ UNCHANGED <<osVars, vault, rows, config, up, toScan, obsVars, wpath,
                   restoreVars, boundVars, skip>>

(* A parser swallows its exceptions: the file is gone, or not parsable.     *)
ParseFails ==
    /\ wpc = "parse"
    /\ jobs' = jobs \cup EarlyJob(wpath[1])
    /\ \/ disk[wpath] = 0 /\ wpath[1] \notin NcFiles
       \/ "bad" \in Env
    /\ WorkerDone
    /\ PassOver(wpath, "bad")
    /\ UNCHANGED <<osVars, vault, rows, config, up, toScan, obsVars, restoreVars,
                   boundVars>>

(* A drawing of a registered name is not looked at again.                   *)
CadKnown ==
    /\ wpc = "parse"
    /\ wpath[1] \in CadFiles
    /\ rows[wpath[1]] # 0
    /\ WorkerDone
    /\ PassOver(wpath, "known")
    /\ UNCHANGED <<osVars, dbVars, config, up, toScan, obsVars, restoreVars, boundVars>>

(* The NC program that parse_xml finds beside the metadata file: in NC/,    *)
(* else in the Job folder itself.                                           *)
NcBeside(f) ==
    LET at(d) == OnDisk({<<n, d>> : n \in {m \in NcFiles : JobOf[m] = JobOf[f]}})
        found == IF at("sub") # {} THEN at("sub") ELSE at("root")
    IN  IF f \in XmlFiles /\ found # {} THEN {CHOOSE p \in found : TRUE} ELSE {}

(* Mutant: only the NC program is archived with the metadata.               *)
ArchivedWithNcOnly(p) == OnDisk(NcBeside(p[1]))

ArchivedWith(p) == OnDisk({p} \cup NcBeside(p[1]))

(* archive_file copies what is at the path now, before the commit.          *)
Archive ==
    /\ wpc = "archive"
    /\ vault' = [p \in Paths |-> IF p \in ArchivedWith(wpath) THEN disk[p] ELSE vault[p]]
    /\ IF wpath[1] \in EtcFiles
       THEN WorkerDone /\ skip' = [skip EXCEPT ![wpath] = IF disk[wpath] # 0 THEN "no" ELSE @]
       ELSE wpc' = "commit" /\ UNCHANGED <<wpath, wver, skip>>
    /\ UNCHANGED <<osVars, rows, jobs, config, up, toScan, obsVars, restoreVars,
                   boundVars>>

Commit ==
    /\ wpc = "commit"
    /\ rows' = [rows EXCEPT ![wpath[1]] = wver]
    /\ jobs' = IF wpath[1] \in CadFiles THEN jobs ELSE jobs \cup {JobOf[wpath[1]]}
    /\ skip' = [skip EXCEPT ![wpath] =
                  IF disk[wpath] # 0 /\ wver = disk[wpath] /\ vault[wpath] = disk[wpath]
                  THEN "no" ELSE @]
    /\ WorkerDone
    /\ UNCHANGED <<osVars, vault, config, up, toScan, obsVars, restoreVars, boundVars>>

(* The transaction fails after the vault copy was made.                     *)
CommitFails ==
    /\ wpc = "commit"
    /\ "bad" \in Env
    /\ WorkerDone
    /\ PassOver(wpath, "bad")
    /\ UNCHANGED <<osVars, dbVars, config, up, toScan, obsVars, restoreVars, boundVars>>

----------------------------------------------------------------------------
(* The delete worker.                                                       *)

(* Mutant: a folder that no longer exists is not looked at.                 *)
LostIfEmpty(j) == tree[j] = "bare" /\ OnDisk(JobPaths(j)) = {}

Lost(j) == \/ tree[j] = "absent"
           \/ tree[j] = "bare" /\ OnDisk(JobPaths(j)) = {}

(* The paths a restore of Job j may bring back.                             *)
Restorable(j) == {p \in JobPaths(j) : vault[p] # 0}
                     \cup {p \in CadFiles \X {"cad"} : rows[p[1]] # 0}

Resolve(places) == IF PartDir \in places THEN jobs ELSE places \cap jobs

RestoreBatch ==
    /\ rpc = "idle"
    /\ delQ # {}
    /\ rjobs' = Resolve(delQ)
    /\ delQ' = {}
    /\ rpc' = "check"
    /\ UNCHANGED <<osVars, dbVars, config, up, toScan, marked, fileQ, events, workVars,
                   rjob, rleft, rcopied, boundVars, skip>>

RestoreCheck(j) ==
    /\ rpc = "check"
    /\ j \in rjobs
    /\ IF Lost(j)
       THEN /\ rpc' = "copy" /\ rjob' = j /\ rleft' = Restorable(j) /\ rcopied' = FALSE
            /\ tree' = [tree EXCEPT ![j] = "bare"]
            /\ UNCHANGED rjobs
       ELSE /\ rjobs' = rjobs \ {j}
            /\ UNCHANGED <<rpc, rjob, rleft, rcopied, tree>>
    /\ UNCHANGED <<disk, latest, dbVars, config, up, toScan, obsVars, workVars,
                   boundVars, skip>>

RestoreBatchEnd ==
    /\ rpc = "check"
    /\ rjobs = {}
    /\ rpc' = "idle" /\ rjob' = NoJob
    /\ UNCHANGED <<osVars, dbVars, config, up, toScan, obsVars, workVars, rjobs, rleft,
                   rcopied, boundVars, skip>>

CopyOf(p) == IF vault[p] # 0 THEN vault[p] ELSE rows[p[1]]

(* Mutant: a restore copies over files that are there.                      *)
MayCopyAlways(p) == TRUE

MayCopy(p) == disk[p] = 0

(* The Job's own files come first, the part's drawings last.                *)
RestoreCopy(p) ==
    /\ rpc = "copy"
    /\ p \in rleft
    /\ p[2] = "cad" => \A q \in rleft : q[2] = "cad"
    /\ rleft' = rleft \ {p}
    /\ IF MayCopy(p)
       THEN /\ disk' = [disk EXCEPT ![p] = CopyOf(p)]
            /\ tree' = TreeWith(p)
            /\ Notify(<<Event("created", p), Event("modified", p)>>)
            /\ rcopied' = TRUE
            /\ skip' = [skip EXCEPT ![p] = "no"]
       ELSE UNCHANGED <<disk, tree, events, rcopied, skip>>
    /\ UNCHANGED <<latest, dbVars, config, up, toScan, marked, fileQ, delQ, workVars,
                   rpc, rjobs, rjob, boundVars>>

RestoreCopied ==
    /\ rpc = "copy"
    /\ rleft = {}
    /\ IF rcopied
       THEN rpc' = "mark" /\ rleft' = OnDisk(JobPaths(rjob)) /\ UNCHANGED rjobs
       ELSE rpc' = "check" /\ rjobs' = rjobs \ {rjob} /\ UNCHANGED rleft
    /\ UNCHANGED <<osVars, dbVars, config, up, toScan, obsVars, workVars, rjob, rcopied,
                   boundVars, skip>>

(* The observer has yet to hear that p was deleted.                         *)
DeletionAhead(p) == \E i \in 1 .. Len(events) : events[i] = Event("deleted", p)

(* Every file of the folder is marked, not only the ones just copied: a     *)
(* file whose content is not settled, or about to be settled, is passed     *)
(* over, and so is the next one where a file has gone since the folder was  *)
(* listed.                                                                  *)
RestoreMark(p) ==
    /\ rpc = "mark"
    /\ p \in rleft
    /\ rleft' = rleft \ {p}
    /\ marked' = MarkedAfter(p)
    /\ skip' = [skip EXCEPT ![p] =
                  IF \/ Stale(p) \/ (disk[p] = 0 /\ ~DeletionAhead(p))
                     \/ wpath = p /\ wpc \in {"archive", "commit"} /\ wver # disk[p]
                  THEN "marked" ELSE @]
    /\ UNCHANGED <<osVars, dbVars, config, up, toScan, fileQ, events, delQ, workVars,
                   rpc, rjobs, rjob, rcopied, boundVars>>

RestoreMarked ==
    /\ rpc = "mark"
    /\ rleft = {}
    /\ rpc' = "check" /\ rjobs' = rjobs \ {rjob}
    /\ UNCHANGED <<osVars, dbVars, config, up, toScan, obsVars, workVars, rjob, rleft,
                   rcopied, boundVars, skip>>

----------------------------------------------------------------------------
Init ==
    /\ disk = [p \in Paths |-> 0] /\ tree = [j \in Jobs |-> "absent"]
    /\ latest = [f \in Files |-> 0]
    /\ vault = [p \in Paths |-> 0] /\ rows = [f \in Files |-> 0] /\ jobs = {}
    /\ config = [paused |-> FALSE, enabled |-> TRUE]
    /\ up = "down" /\ toScan = {}
    /\ marked = <<>> /\ fileQ = <<>> /\ events = <<>> /\ delQ = {}
    /\ wpc = "idle" /\ wpath = NoPath /\ wver = 0
    /\ rpc = "idle" /\ rjobs = {} /\ rjob = NoJob /\ rleft = {} /\ rcopied = FALSE
    /\ deletes = 0 /\ crashes = 0
    /\ skip = [p \in Paths |-> "no"]

Environment == \/ \E p \in Paths : Write(p) \/ DeleteFile(p)
               \/ \E j \in Jobs : DeleteFolder(j)
               \/ TogglePause \/ ToggleParsers \/ Crash

Startup  == StartPipeline \/ StartObserver \/ \E p \in Paths : ScanPath(p)
Observer == OnCreated \/ OnModified \/ OnDeleted
Worker   == \/ Take \/ NotReady \/ MarkReady \/ Relocate \/ GateEtc \/ GateParsed
            \/ Parse \/ ParseFails \/ CadKnown \/ Archive \/ Commit \/ CommitFails
DeleteWorker == \/ RestoreBatch \/ RestoreBatchEnd \/ RestoreCopied \/ RestoreMarked
                \/ \E j \in Jobs : RestoreCheck(j)
                \/ \E p \in Paths : RestoreCopy(p) \/ RestoreMark(p)

Collect == Startup \/ Observer \/ Worker \/ DeleteWorker
Next    == Environment \/ Collect

Spec == Init /\ [][Next]_vars

(* The threads keep running: start-up, the observer and the two workers.    *)
Fairness == WF_vars(Startup) /\ WF_vars(Observer) /\ WF_vars(Worker) /\ WF_vars(DeleteWorker)

FairSpec == Spec /\ Fairness

----------------------------------------------------------------------------
EventSet == [kind : {"created", "modified"}, path : Paths]
                \cup [kind : {"deleted"}, path : Paths \cup JobDirs]

(* The types of all variables.                                              *)
TypeOK ==
    /\ disk \in [Paths -> Versions] /\ tree \in [Jobs -> {"absent", "bare", "full"}]
    /\ latest \in [Files -> Versions]
    /\ vault \in [Paths -> Versions] /\ rows \in [Files -> Versions] /\ jobs \subseteq Jobs
    /\ config \in [paused : BOOLEAN, enabled : BOOLEAN]
    /\ up \in {"down", "scan", "watch"} /\ toScan \subseteq Paths
    /\ marked \in Seq(Paths) /\ fileQ \in Seq(Paths) /\ events \in Seq(EventSet)
    /\ delQ \subseteq Jobs \cup {PartDir}
    /\ wpc \in {"idle", "ready", "place", "gate", "parse", "archive", "commit"}
    /\ wpath \in Paths \cup {NoPath} /\ wver \in Versions
    /\ rpc \in {"idle", "check", "copy", "mark"} /\ rjobs \subseteq Jobs
    /\ rjob \in Jobs \cup {NoJob} /\ rleft \subseteq Paths /\ rcopied \in BOOLEAN
    /\ deletes \in 0 .. MaxDeletes /\ crashes \in 0 .. MaxCrashes
    /\ skip \in [Paths -> Reasons]

(* The worker has p in hand and will still read, or has already taken up,   *)
(* the content that is now there.                                           *)
InHand(p) ==
    /\ wpath = p
    /\ \/ wpc \in {"ready", "place", "gate", "parse"}
       \/ wpc = "archive" /\ (wver = disk[p] \/ p[1] \in EtcFiles)
       \/ wpc = "commit" /\ wver = disk[p] /\ vault[p] = disk[p]

(* An event on its way will make the worker look at p again: a change does  *)
(* (it takes the mark off), a creation does when p carries no mark.         *)
Reported(p) ==
    \E i \in 1 .. Len(events) :
        /\ events[i].path = p
        /\ \/ events[i].kind = "modified"
           \/ events[i].kind = "created"
                 /\ \/ ~IsMarked(p)
                    \/ \E k \in 1 .. i - 1 : events[k] = Event("deleted", p)

Queued(p) == ~IsMarked(p) /\ \E i \in 1 .. Len(fileQ) : fileQ[i] = p

Pending(p) == up = "down" \/ p \in toScan \/ InHand(p) \/ Reported(p) \/ Queued(p)

(* No content is lost between the event queue, processed_files and the      *)
(* worker: whatever is on disk and not both archived and stored is still on *)
(* its way to the worker, unless it was passed over for a recorded reason.  *)
Accounted == \A p \in Paths : Stale(p) /\ skip[p] = "no" => Pending(p)

(* A database row never runs ahead of the vault: the copy is made before    *)
(* the commit, also across a kill between the two.                          *)
StoredIsArchived ==
    \A p \in Paths : p[2] # "root" /\ p[1] \notin EtcFiles => rows[p[1]] <= vault[p]

Newest(f) == IF \E p \in Paths : p[1] = f /\ disk[p] = latest[f] THEN latest[f] ELSE 0

(* No step of the collector itself (relocation, restore) makes the newest   *)
(* version of a file disappear from the disk or puts an older one over it.  *)
(* It is not so for an NC program: the XML parser may archive it where it   *)
(* was dropped, a restore brings that old copy back there, and the worker   *)
(* moves it over the newer one.                                             *)
CollectorKeepsNewest ==
    [][\A f \in Files \ NcFiles :
           Newest(f) # 0 /\ Newest(f)' = 0 => deletes' # deletes]_vars

(* Whatever is dropped is in the end archived and stored, or passed over    *)
(* for a recorded reason, or the collector is not running.                  *)
DropsAreIngested ==
    \A p \in Paths : Stale(p) ~> (~Stale(p) \/ skip[p] # "no" \/ ~Running)

(* A registered Job folder that vanishes while the collector watches comes  *)
(* back from the vault.                                                     *)
FoldersComeBack ==
    \A j \in Jobs :
        (up = "watch" /\ j \in jobs /\ tree[j] = "absent"
            /\ \E p \in JobPaths(j) : vault[p] # 0)
          ~> (~Running \/ tree[j] # "absent")

(* A file that is written once, while nobody deletes anything, the process  *)
(* is not killed and the cache has room, is parsed and stored once, however *)
(* often it is moved, reported and queued.                                  *)
NothingIsParsedTwice ==
    [][/\ wpc = "parse" /\ wpc' = "archive"
       /\ deletes = 0 /\ crashes = 0
       /\ latest[wpath[1]] = 1 /\ Len(marked) < CacheSize
       => rows[wpath[1]] # disk[wpath]]_vars

=============================================================================
