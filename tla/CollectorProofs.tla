--------------------------- MODULE CollectorProofs ---------------------------
(* Theorems about Collector, for any files, folders and bounds.             *)
EXTENDS Collector, SequenceTheorems, FiniteSetTheorems, TLAPS

(* The kinds of path and what belongs to each.                              *)
LEMMA PathFacts ==
    \A p \in Paths :
        /\ p[1] \in Files /\ p[2] \in {"root", "sub", "cad"}
        /\ p[2] # "cad" => p[1] \in JobFiles \cup EtcFiles /\ JobOf[p[1]] \in Jobs
        /\ p[2] = "root" => p \in JobFiles \X {"root"} /\ Sub(p) \in Paths
        /\ p[1] \in CadFiles <=> p[2] = "cad"
        /\ JobPaths(JobOf[p[1]]) \subseteq Paths
<1> SUFFICES ASSUME NEW p \in Paths
             PROVE  /\ p[1] \in Files /\ p[2] \in {"root", "sub", "cad"}
                    /\ p[2] # "cad" => p[1] \in JobFiles \cup EtcFiles /\ JobOf[p[1]] \in Jobs
                    /\ p[2] = "root" => p \in JobFiles \X {"root"} /\ Sub(p) \in Paths
                    /\ p[1] \in CadFiles <=> p[2] = "cad"
                    /\ JobPaths(JobOf[p[1]]) \subseteq Paths
  OBVIOUS
<1>1. CASE p \in JobFiles \X {"root", "sub"}
  BY <1>1, FilesAssumption DEF Paths, Files, Sub, JobPaths
<1>2. CASE p \in EtcFiles \X {"sub"}
  BY <1>2, FilesAssumption DEF Paths, Files, Sub, JobPaths
<1>3. CASE p \in CadFiles \X {"cad"}
  BY <1>3, FilesAssumption DEF Paths, Files, Sub, JobPaths
<1> QED
  BY <1>1, <1>2, <1>3 DEF Paths

(* There are finitely many paths, so a set of them can be listed.           *)
LEMMA PathsFinite == IsFiniteSet(Paths)
<1>1. IsFiniteSet({"root", "sub", "cad"})
  <2>1. IsFiniteSet({"root"} \cup {"sub"} \cup {"cad"})
    BY FS_Singleton, FS_Union
  <2>2. {"root", "sub", "cad"} = {"root"} \cup {"sub"} \cup {"cad"}
    OBVIOUS
  <2> QED
    BY <2>1, <2>2
<1>2. IsFiniteSet(Files \X {"root", "sub", "cad"})
  BY <1>1, FilesAssumption, FS_Product
<1>3. Paths \subseteq Files \X {"root", "sub", "cad"}
  BY DEF Paths, Files
<1> QED
  BY <1>2, <1>3, FS_Subset

(* A finite set is listed as a sequence of its members.                     *)
LEMMA SetToSeqType ==
    ASSUME NEW S, IsFiniteSet(S) PROVE SetToSeq(S) \in Seq(S)
<1>1. Cardinality(S) \in Nat /\ ExistsBijection(1 .. Cardinality(S), S)
  BY FS_CardinalityType
<1>2. \E f \in [1 .. Cardinality(S) -> S] : IsInjective(f)
  BY <1>1 DEF ExistsBijection, Bijection, Injection
<1>3. SetToSeq(S) \in [1 .. Cardinality(S) -> S]
  BY <1>2 DEF SetToSeq
<1> QED
  BY <1>1, <1>3, SeqDef

(* Marking a path keeps processed_files a sequence of paths, evicted or not.*)
LEMMA MarkedAfterType ==
    ASSUME marked \in Seq(Paths), NEW p \in Paths PROVE MarkedAfter(p) \in Seq(Paths)
<1>1. Append(marked, p) \in Seq(Paths) /\ Append(marked, p) # <<>>
  BY AppendProperties
<1>2. Tail(Append(marked, p)) \in Seq(Paths)
  BY <1>1, HeadTailProperties
<1> QED
  BY <1>1, <1>2 DEF MarkedAfter

(* Taking a mark off keeps processed_files a sequence of paths.             *)
LEMMA UnmarkedAfterType ==
    ASSUME marked \in Seq(Paths), NEW p PROVE UnmarkedAfter(p) \in Seq(Paths)
<1>1. CASE ~IsMarked(p)
  BY <1>1 DEF UnmarkedAfter
<1>2. CASE IsMarked(p)
  <2> DEFINE i == CHOOSE k \in 1 .. Len(marked) : marked[k] = p
  <2>1. i \in 1 .. Len(marked) /\ Len(marked) \in Nat
    BY <1>2 DEF IsMarked
  <2> HIDE DEF i
  <2>2. SubSeq(marked, 1, i - 1) \in Seq(Paths)
    BY <2>1, SubSeqProperties, ElementOfSeq
  <2>3. SubSeq(marked, i + 1, Len(marked)) \in Seq(Paths)
    BY <2>1, SubSeqProperties, ElementOfSeq
  <2>4. SubSeq(marked, 1, i - 1) \o SubSeq(marked, i + 1, Len(marked)) \in Seq(Paths)
    BY <2>2, <2>3, ConcatProperties
  <2> QED
    BY <1>2, <2>4 DEF UnmarkedAfter, i
<1> QED
  BY <1>1, <1>2

(* The events the collector is notified of are of the known kinds.          *)
LEMMA EventTypes ==
    /\ \A p \in Paths : /\ Event("created", p) \in EventSet /\ Event("modified", p) \in EventSet
                        /\ Event("deleted", p) \in EventSet
    /\ \A j \in Jobs : Event("deleted", <<j, "dir">>) \in EventSet
  BY DEF Event, EventSet, JobDirs

(* Notifying of known events keeps the event queue well typed.              *)
LEMMA NotifyType ==
    ASSUME events \in Seq(EventSet), NEW new \in Seq(EventSet), Notify(new)
    PROVE  events' \in Seq(EventSet)
  BY ConcatProperties DEF Notify

(* A file that appears at a path leaves every Job folder in a known state.  *)
LEMMA TreeWithType ==
    ASSUME NEW p \in Paths, tree \in [Jobs -> {"absent", "bare", "full"}]
    PROVE  TreeWith(p) \in [Jobs -> {"absent", "bare", "full"}]
  BY PathFacts DEF TreeWith

(* The Job a parser registers early is a Job of the part.                   *)
LEMMA EarlyJobType == \A f : EarlyJob(f) \subseteq Jobs
  BY FilesAssumption DEF EarlyJob, JobFiles

(* A worker that is not idle has a path in hand, and moves only files that  *)
(* were dropped in the Job folder.                                          *)
WorkerInv == /\ wpc # "idle" => wpath \in Paths
             /\ wpc = "place" => wpath \in JobFiles \X {"root"}


(* The types and what the worker has in hand, together, hold in every state. *)
LEMMA WorkerCorrect == Spec => [](TypeOK /\ WorkerInv)
<1> USE BoundsAssumption, FilesAssumption
<1>1. Init => TypeOK /\ WorkerInv
  <2> SUFFICES ASSUME Init PROVE TypeOK /\ WorkerInv
    OBVIOUS
  <2> USE DEF Init
  <2>1. marked \in Seq(Paths) /\ fileQ \in Seq(Paths) /\ events \in Seq(EventSet)
    BY EmptySeq
  <2>2. 0 \in Versions /\ "no" \in Reasons
    BY DEF Versions, Reasons
  <2>3. WorkerInv
    BY DEF WorkerInv
  <2>4. /\ disk \in [Paths -> Versions] /\ tree \in [Jobs -> {"absent", "bare", "full"}]
        /\ latest \in [Files -> Versions]
        /\ vault \in [Paths -> Versions] /\ rows \in [Files -> Versions]
        /\ skip \in [Paths -> Reasons] /\ config \in [paused : BOOLEAN, enabled : BOOLEAN]
    BY <2>2
  <2>5. /\ jobs \subseteq Jobs /\ up \in {"down", "scan", "watch"} /\ toScan \subseteq Paths
        /\ delQ \subseteq Jobs \cup {PartDir}
        /\ wpc = "idle" /\ wpath = NoPath /\ wver \in Versions
        /\ rpc = "idle" /\ rjobs \subseteq Jobs /\ rjob = NoJob /\ rleft \subseteq Paths
        /\ rcopied \in BOOLEAN
    BY <2>2
  <2>6. deletes \in 0 .. MaxDeletes /\ crashes \in 0 .. MaxCrashes
    BY DEF BoundsAssumption
  <2> HIDE DEF Init
  <2> QED
    BY <2>1, <2>3, <2>4, <2>5, <2>6 DEF TypeOK
<1>2. TypeOK /\ WorkerInv /\ [Next]_vars => TypeOK' /\ WorkerInv'
  <2> SUFFICES ASSUME TypeOK, WorkerInv, [Next]_vars PROVE TypeOK' /\ WorkerInv'
    OBVIOUS
  <2> USE PathFacts DEF TypeOK, WorkerInv, osVars, dbVars, obsVars, workVars, restoreVars, boundVars, WorkerDone
  <2>1. ASSUME NEW p \in Paths, Write(p) PROVE TypeOK' /\ WorkerInv'
    <3>1. WriteKind(p) \in {"created", "modified"}
      BY DEF WriteKind
    <3>2. Event(WriteKind(p), p) \in EventSet /\ <<Event(WriteKind(p), p)>> \in Seq(EventSet)
      BY <3>1, EventTypes
    <3>3. <<Event("created", p), Event("modified", p)>> \in Seq(EventSet)
      BY EventTypes
    <3>4. events' \in Seq(EventSet)
      BY <2>1, <3>2, <3>3, NotifyType DEF Write
    <3>5. latest[p[1]] + 1 \in Versions
      BY <2>1 DEF Write, Versions
    <3>6. tree' \in [Jobs -> {"absent", "bare", "full"}]
      BY <2>1, TreeWithType DEF Write
    <3>7. skip' \in [Paths -> Reasons]
      BY <2>1 DEF Write, Reasons
    <3> QED
      BY <2>1, <3>4, <3>5, <3>6, <3>7 DEF Write
  <2>2. ASSUME NEW p \in Paths, DeleteFile(p) PROVE TypeOK' /\ WorkerInv'
    <3>1. <<Event("deleted", p)>> \in Seq(EventSet)
      BY EventTypes
    <3>2. events' \in Seq(EventSet)
      BY <2>2, <3>1, NotifyType DEF DeleteFile
    <3> QED
      BY <2>2, <3>2 DEF DeleteFile, Reasons, Versions
  <2>3. ASSUME NEW j \in Jobs, DeleteFolder(j) PROVE TypeOK' /\ WorkerInv'
    <3> DEFINE gone == SetToSeq(OnDisk(JobPaths(j)))
               files == [i \in 1 .. Len(gone) |-> Event("deleted", gone[i])]
    <3>1. OnDisk(JobPaths(j)) \subseteq Paths
      BY DEF OnDisk, JobPaths
    <3>2. gone \in Seq(OnDisk(JobPaths(j)))
      BY <3>1, PathsFinite, FS_Subset, SetToSeqType
    <3>3. Len(gone) \in Nat /\ \A i \in 1 .. Len(gone) : gone[i] \in Paths
      BY <3>1, <3>2, ElementOfSeq
    <3> HIDE DEF gone
    <3>4. files \in Seq(EventSet)
      BY <3>3, EventTypes, SeqDef
    <3>5. files \o <<Event("deleted", <<j, "dir">>)>> \in Seq(EventSet)
      BY <3>4, EventTypes, ConcatProperties
    <3>6. events' \in Seq(EventSet)
      BY <2>3, <3>5, NotifyType DEF DeleteFolder, gone
    <3>7. /\ disk' \in [Paths -> Versions] /\ skip' \in [Paths -> Reasons]
          /\ tree' \in [Jobs -> {"absent", "bare", "full"}]
          /\ deletes' \in 0 .. MaxDeletes
      BY <2>3 DEF DeleteFolder, Versions, Reasons
    <3> QED
      BY <2>3, <3>6, <3>7 DEF DeleteFolder
  <2>4. ASSUME TogglePause PROVE TypeOK' /\ WorkerInv'
    <3>1. config' \in [paused : BOOLEAN, enabled : BOOLEAN]
      BY <2>4 DEF TogglePause
    <3>2. UNCHANGED <<osVars, dbVars, up, toScan, obsVars, workVars, restoreVars,
                      boundVars, skip>>
      BY <2>4 DEF TogglePause
    <3> QED
      BY <3>1, <3>2
  <2>5. ASSUME ToggleParsers PROVE TypeOK' /\ WorkerInv'
    <3>1. config' \in [paused : BOOLEAN, enabled : BOOLEAN]
      BY <2>5 DEF ToggleParsers
    <3>2. UNCHANGED <<osVars, dbVars, up, toScan, obsVars, workVars, restoreVars,
                      boundVars, skip>>
      BY <2>5 DEF ToggleParsers
    <3> QED
      BY <3>1, <3>2
  <2>6. ASSUME Crash PROVE TypeOK' /\ WorkerInv'
    <3>1. marked' \in Seq(Paths) /\ fileQ' \in Seq(Paths) /\ events' \in Seq(EventSet)
      BY <2>6, EmptySeq DEF Crash, NoPath, NoJob, Versions, Reasons
    <3>2. crashes' \in 0 .. MaxCrashes /\ skip' \in [Paths -> Reasons]
      BY <2>6, EmptySeq DEF Crash, NoPath, NoJob, Versions, Reasons
    <3>3. up' = "down" /\ toScan' = {} /\ delQ' = {}
      BY <2>6, EmptySeq DEF Crash
    <3>4. wpc' = "idle" /\ wpath' = NoPath /\ wver' \in Versions
      BY <2>6, EmptySeq DEF Crash, NoPath, NoJob, Versions, Reasons
    <3>5. rpc' = "idle" /\ rjobs' = {} /\ rjob' = NoJob /\ rleft' = {} /\ rcopied' = FALSE
      BY <2>6, EmptySeq DEF Crash
    <3>6. UNCHANGED <<disk, tree, latest, vault, rows, jobs, config, deletes>>
      BY <2>6 DEF Crash, NoPath, NoJob, Versions, Reasons
    <3> QED
      BY <3>1, <3>2, <3>3, <3>4, <3>5, <3>6
  <2>7. ASSUME StartPipeline PROVE TypeOK' /\ WorkerInv'
    BY <2>7 DEF StartPipeline, Walked
  <2>8. ASSUME NEW p \in Paths, ScanPath(p) PROVE TypeOK' /\ WorkerInv'
    BY <2>8 DEF ScanPath
  <2>9. ASSUME StartObserver PROVE TypeOK' /\ WorkerInv'
    BY <2>9 DEF StartObserver
  <2>10. ASSUME OnCreated PROVE TypeOK' /\ WorkerInv'
    <3>1. events # <<>> /\ events' = Tail(events) /\ Head(events).kind = "created"
      BY <2>10 DEF OnCreated, NextEvent
    <3>2. Head(events).path \in Paths /\ events' \in Seq(EventSet)
      BY <3>1, HeadTailProperties DEF EventSet
    <3> QED
      BY <2>10, <3>2, UnmarkedAfterType DEF OnCreated
  <2>11. ASSUME OnModified PROVE TypeOK' /\ WorkerInv'
    <3>1. events # <<>> /\ events' = Tail(events) /\ Head(events).kind = "modified"
      BY <2>11 DEF OnModified, NextEvent
    <3>2. Head(events).path \in Paths /\ events' \in Seq(EventSet)
      BY <3>1, HeadTailProperties DEF EventSet
    <3> QED
      BY <2>11, <3>2, UnmarkedAfterType DEF OnModified
  <2>12. ASSUME OnDeleted PROVE TypeOK' /\ WorkerInv'
    <3> DEFINE q == Head(events).path
    <3>1. events # <<>> /\ events' = Tail(events) /\ Head(events).kind = "deleted"
      BY <2>12 DEF OnDeleted, NextEvent
    <3>2. q \in Paths \cup JobDirs /\ events' \in Seq(EventSet)
      BY <3>1, HeadTailProperties DEF EventSet
    <3>3. PlacesOf(q) \subseteq Jobs \cup {PartDir}
      BY <3>2 DEF PlacesOf, JobDirs
    <3> QED
      BY <2>12, <3>2, <3>3, UnmarkedAfterType DEF OnDeleted
  <2>13. ASSUME Take PROVE TypeOK' /\ WorkerInv'
    <3>1. fileQ' \in Seq(Paths) /\ Head(fileQ) \in Paths
      BY <2>13, HeadTailProperties DEF Take
    <3>2. /\ wpc' \in {"idle", "ready"} /\ wpath' \in Paths \cup {NoPath} /\ wver' \in Versions
          /\ wpc' # "idle" => wpath' \in Paths
      BY <2>13, <3>1 DEF Take, Versions
    <3>3. UNCHANGED <<osVars, dbVars, config, up, toScan, marked, events, delQ, restoreVars,
                      boundVars, skip>>
      BY <2>13 DEF Take
    <3> QED
      BY <2>13, <3>1, <3>2, <3>3
  <2>14. ASSUME NotReady PROVE TypeOK' /\ WorkerInv'
    BY <2>14 DEF NotReady, PassOver, NoPath, Versions, Reasons
  <2>15. ASSUME MarkReady PROVE TypeOK' /\ WorkerInv'
    BY <2>15, MarkedAfterType DEF MarkReady
  <2>16. ASSUME Relocate PROVE TypeOK' /\ WorkerInv'
    <3> DEFINE dest == Sub(wpath)
               removed == IF disk[dest] # 0 THEN <<Event("deleted", dest)>> ELSE <<>>
    <3>1. wpath \in Paths /\ dest \in Paths /\ JobOf[wpath[1]] \in Jobs
      BY <2>16 DEF Relocate
    <3>2. removed \in Seq(EventSet)
      BY <3>1, EventTypes
    <3>3. removed \o <<Event("deleted", wpath), Event("created", dest)>> \in Seq(EventSet)
      BY <3>1, <3>2, EventTypes, ConcatProperties
    <3>4. events' \in Seq(EventSet)
      BY <2>16, <3>2, <3>3, NotifyType DEF Relocate
    <3>5. marked' \in Seq(Paths)
      BY <2>16, <3>1, MarkedAfterType DEF Relocate, MarkMoved
    <3>6. disk' \in [Paths -> Versions] /\ tree' \in [Jobs -> {"absent", "bare", "full"}]
      <4>1. disk[wpath] \in Versions /\ 0 \in Versions
        BY <3>1 DEF Versions
      <4>2. disk' = [disk EXCEPT ![dest] = disk[wpath], ![wpath] = 0]
        BY <2>16 DEF Relocate
      <4>3. tree' = [tree EXCEPT ![JobOf[wpath[1]]] = "full"]
        BY <2>16 DEF Relocate
      <4> HIDE DEF dest
      <4> QED
        BY <3>1, <4>1, <4>2, <4>3
    <3>7. skip' \in [Paths -> Reasons]
      BY <2>16, <3>1 DEF Relocate, Reasons
    <3>8. /\ wpc' \in {"idle", "gate"} /\ wver' \in Versions
          /\ wpc' = "gate" => wpath' \in Paths
          /\ wpath' \in Paths \cup {NoPath}
      BY <2>16, <3>1 DEF Relocate, Versions
    <3> QED
      BY <2>16, <3>4, <3>5, <3>6, <3>7, <3>8 DEF Relocate
  <2>17. ASSUME GateEtc PROVE TypeOK' /\ WorkerInv'
    BY <2>17 DEF GateEtc
  <2>18. ASSUME GateParsed PROVE TypeOK' /\ WorkerInv'
    <3>1. /\ wpc' \in {"idle", "parse"} /\ wpath' \in Paths \cup {NoPath} /\ wver' \in Versions
          /\ wpc' # "idle" => wpath' \in Paths
      BY <2>18 DEF GateParsed, Versions
    <3>2. \/ UNCHANGED skip
          \/ PassOver(wpath, "paused") \/ PassOver(wpath, "parser_off")
      BY <2>18 DEF GateParsed
    <3>3. skip' \in [Paths -> Reasons]
      BY <2>18, <3>2 DEF PassOver, Reasons
    <3>4. UNCHANGED <<disk, tree, latest, vault, rows, jobs, config, up, toScan, marked,
                         fileQ, events, delQ, rpc, rjobs, rjob, rleft,
                         rcopied, deletes, crashes>>
      BY <2>18 DEF GateParsed, PassOver, Versions, Reasons
    <3> QED
      BY <3>1, <3>2, <3>3, <3>4
  <2>19. ASSUME Parse PROVE TypeOK' /\ WorkerInv'
    <3>1. wpath \in Paths
      BY <2>19, EarlyJobType DEF Parse
    <3>2. jobs' \subseteq Jobs
      BY <2>19, <3>1, EarlyJobType DEF Parse
    <3>3. wver' \in Versions /\ wpc' = "archive"
      BY <2>19, <3>1, EarlyJobType DEF Parse
    <3>4. UNCHANGED <<disk, tree, latest, vault, rows, config, up, toScan, marked, fileQ,
                         events, delQ, wpath, rpc, rjobs, rjob, rleft,
                         rcopied, deletes, crashes, skip>>
      BY <2>19 DEF Parse
    <3> QED
      BY <3>1, <3>2, <3>3, <3>4
  <2>20. ASSUME ParseFails PROVE TypeOK' /\ WorkerInv'
    <3>1. wpath \in Paths
      BY <2>20, EarlyJobType DEF ParseFails
    <3>2. jobs' \subseteq Jobs
      BY <2>20, <3>1, EarlyJobType DEF ParseFails
    <3>3. wpc' = "idle" /\ wpath' = NoPath /\ wver' \in Versions
      BY <2>20, EarlyJobType DEF ParseFails, Versions
    <3>4. skip' \in [Paths -> Reasons]
      BY <2>20, EarlyJobType DEF ParseFails, PassOver, Reasons
    <3>5. UNCHANGED <<disk, tree, latest, vault, rows, config, up, toScan, marked, fileQ,
                         events, delQ, rpc, rjobs, rjob, rleft, rcopied,
                         deletes, crashes>>
      BY <2>20 DEF ParseFails, PassOver, Versions, Reasons
    <3> QED
      BY <3>1, <3>2, <3>3, <3>4, <3>5
  <2>21. ASSUME CadKnown PROVE TypeOK' /\ WorkerInv'
    BY <2>21 DEF CadKnown, PassOver, NoPath, Versions, Reasons
  <2>22. ASSUME Archive PROVE TypeOK' /\ WorkerInv'
    <3>1. vault' \in [Paths -> Versions]
      BY <2>22 DEF Archive
    <3>2. /\ wpc' \in {"idle", "commit"} /\ wpath' \in Paths \cup {NoPath} /\ wver' \in Versions
          /\ wpc' # "idle" => wpath' \in Paths
      BY <2>22 DEF Archive, Versions
    <3>3. skip' \in [Paths -> Reasons]
      BY <2>22 DEF Archive, Reasons
    <3>4. UNCHANGED <<disk, tree, latest, rows, jobs, config, up, toScan, marked, fileQ,
                         events, delQ, rpc, rjobs, rjob, rleft, rcopied,
                         deletes, crashes>>
      BY <2>22 DEF Archive, Versions
    <3> QED
      BY <3>1, <3>2, <3>3, <3>4
  <2>23. ASSUME Commit PROVE TypeOK' /\ WorkerInv'
    <3>1. wpath \in Paths
      BY <2>23 DEF Commit
    <3>2. rows' \in [Files -> Versions]
      BY <2>23, <3>1 DEF Commit
    <3>3. jobs' \subseteq Jobs
      BY <2>23, <3>1 DEF Commit
    <3>4. wpc' = "idle" /\ wpath' = NoPath /\ wver' \in Versions
      BY <2>23 DEF Commit, Versions
    <3>5. skip' \in [Paths -> Reasons]
      BY <2>23 DEF Commit, Reasons
    <3>6. UNCHANGED <<disk, tree, latest, vault, config, up, toScan, marked, fileQ, events,
                         delQ, rpc, rjobs, rjob, rleft, rcopied,
                         deletes, crashes>>
      BY <2>23 DEF Commit, Versions
    <3> QED
      BY <3>1, <3>2, <3>3, <3>4, <3>5, <3>6
  <2>24. ASSUME CommitFails PROVE TypeOK' /\ WorkerInv'
    BY <2>24 DEF CommitFails, PassOver, NoPath, Versions, Reasons
  <2>25. ASSUME RestoreBatch PROVE TypeOK' /\ WorkerInv'
    BY <2>25 DEF RestoreBatch, Resolve
  <2>26. ASSUME RestoreBatchEnd PROVE TypeOK' /\ WorkerInv'
    BY <2>26 DEF RestoreBatchEnd, NoJob
  <2>27. ASSUME RestoreCopied PROVE TypeOK' /\ WorkerInv'
    BY <2>27 DEF RestoreCopied, OnDisk, JobPaths
  <2>28. ASSUME RestoreMarked PROVE TypeOK' /\ WorkerInv'
    BY <2>28 DEF RestoreMarked
  <2>29. ASSUME NEW j \in Jobs, RestoreCheck(j) PROVE TypeOK' /\ WorkerInv'
    <3>1. Restorable(j) \subseteq Paths
      BY <2>29 DEF Restorable, JobPaths, Paths
    <3>2. /\ tree' \in [Jobs -> {"absent", "bare", "full"}]
          /\ rpc' \in {"check", "copy"} /\ rjobs' \subseteq Jobs
          /\ rjob' \in Jobs \cup {NoJob} /\ rleft' \subseteq Paths /\ rcopied' \in BOOLEAN
      BY <2>29, <3>1 DEF RestoreCheck
    <3>3. UNCHANGED <<disk, latest, vault, rows, jobs, config, up, toScan, marked, fileQ,
                         events, delQ, wpc, wpath, wver, deletes,
                         crashes, skip>>
      BY <2>29 DEF RestoreCheck
    <3> QED
      BY <3>1, <3>2, <3>3
  <2>30. ASSUME NEW p \in Paths, RestoreCopy(p) PROVE TypeOK' /\ WorkerInv'
    <3>1. <<Event("created", p), Event("modified", p)>> \in Seq(EventSet)
      BY EventTypes
    <3>2. events' \in Seq(EventSet)
      BY <2>30, <3>1, NotifyType DEF RestoreCopy
    <3>3. CopyOf(p) \in Versions
      BY DEF CopyOf
    <3>4. disk' \in [Paths -> Versions] /\ rcopied' \in BOOLEAN
      <4>1. \/ disk' = [disk EXCEPT ![p] = CopyOf(p)] /\ rcopied' = TRUE
            \/ UNCHANGED <<disk, rcopied>>
        BY <2>30 DEF RestoreCopy
      <4>2. rcopied \in BOOLEAN /\ disk \in [Paths -> Versions]
        OBVIOUS
      <4>3. CASE disk' = [disk EXCEPT ![p] = CopyOf(p)] /\ rcopied' = TRUE
        BY <3>3, <4>2, <4>3
      <4>4. CASE UNCHANGED <<disk, rcopied>>
        BY <4>2, <4>4
      <4> QED
        BY <4>1, <4>3, <4>4
    <3>5. tree' \in [Jobs -> {"absent", "bare", "full"}]
      BY <2>30, TreeWithType DEF RestoreCopy
    <3>6. skip' \in [Paths -> Reasons] /\ rleft' \subseteq Paths
      BY <2>30 DEF RestoreCopy, Reasons
    <3>7. UNCHANGED <<latest, dbVars, config, up, toScan, marked, fileQ, delQ, workVars, rpc,
                      rjobs, rjob, boundVars>>
      BY <2>30 DEF RestoreCopy
    <3> QED
      BY <3>2, <3>4, <3>5, <3>6, <3>7
  <2>31. ASSUME NEW p \in Paths, RestoreMark(p) PROVE TypeOK' /\ WorkerInv'
    <3>1. marked' \in Seq(Paths)
      BY <2>31, MarkedAfterType DEF RestoreMark
    <3> QED
      BY <2>31, <3>1 DEF RestoreMark, Reasons
  <2>32. CASE UNCHANGED vars
    BY <2>32 DEF vars
  <2> QED
    BY <2>1, <2>2, <2>3, <2>4, <2>5, <2>6, <2>7, <2>8, <2>9, <2>10, <2>11, <2>12, <2>13, <2>14, <2>15, <2>16, <2>17, <2>18, <2>19, <2>20, <2>21, <2>22, <2>23, <2>24, <2>25, <2>26, <2>27, <2>28, <2>29, <2>30, <2>31, <2>32
    DEF Next, Environment, Collect, Startup, Observer, Worker, DeleteWorker
<1> QED
  BY <1>1, <1>2, PTL DEF Spec

(* The type invariant of the collector holds for any number of files and    *)
(* folders: every step that takes a path in hand, copies, moves or restores *)
(* one leaves a place of the tree, a version and a sequence of known events.*)
THEOREM TypeCorrect == Spec => []TypeOK
  BY WorkerCorrect, PTL

----------------------------------------------------------------------------
(* Nothing that is dropped is lost.                                         *)

(* The content of p is unsettled, or the worker is about to store an older  *)
(* one over it.                                                             *)
Doubt(p) ==
    \/ Stale(p)
    \/ /\ wpath = p /\ wpc \in {"archive", "commit"} /\ p[1] \notin EtcFiles
       /\ disk[p] # 0 /\ wver # disk[p]

(* The process is down, or the worker will be pointed to p: a path that     *)
(* awaits the walk counts only while it is unmarked.                        *)
Watched(p) ==
    \/ up = "down" \/ Reported(p) \/ Queued(p)
    \/ p \in toScan /\ ~IsMarked(p)

Safe(p) == Doubt(p) /\ skip[p] = "no" => InHand(p) \/ Watched(p)

InDoubt == \A p \in Paths : Safe(p)

MarkedOnce == \A i, k \in 1 .. Len(marked) : marked[i] = marked[k] => i = k

(* A mark whose file is gone comes off before the next file is announced.   *)
Excused(p) ==
    \/ skip[p] \in {"gap", "marked"}
    \/ \E i \in 1 .. Len(events) : events[i].path = p /\ events[i].kind # "created"

Gone == \A p \in Paths : IsMarked(p) /\ disk[p] = 0 => Excused(p)

(* Before the observer runs nothing is reported and nothing restored; the   *)
(* walk ends before it starts.                                              *)
Quiet == /\ up # "watch" => events = <<>> /\ delQ = {} /\ rpc = "idle"
         /\ up # "scan" => toScan = {}

Placed == wpc \in {"gate", "parse", "archive", "commit"} => wpath[2] # "root"

Still == up = "down" => marked = <<>> /\ wpc = "idle"

(* A mark added is the only one that is new.                                *)
LEMMA MarkFacts ==
    ASSUME marked \in Seq(Paths), MarkedOnce, NEW p \in Paths, marked' = MarkedAfter(p)
    PROVE  MarkedOnce' /\ \A q : q # p /\ IsMarked(q)' => IsMarked(q)
<1> DEFINE longer == Append(marked, p)
<1>1. /\ longer \in Seq(Paths) /\ Len(longer) = Len(marked) + 1 /\ longer # <<>>
      /\ \A i \in 1 .. Len(marked) : longer[i] = marked[i]
      /\ longer[Len(marked) + 1] = p /\ Len(marked) \in Nat
  OBVIOUS
<1>2. CASE marked' = marked
  BY <1>2 DEF MarkedOnce, IsMarked
<1>3. CASE ~IsMarked(p) /\ marked' = longer
  <2> HIDE DEF longer
  <2>1. \A i \in 1 .. Len(marked) : marked[i] # p
    BY <1>3 DEF IsMarked
  <2> QED
    BY <1>1, <1>3, <2>1 DEF MarkedOnce, IsMarked
<1>4. CASE ~IsMarked(p) /\ marked' = Tail(longer)
  <2>1. /\ Len(Tail(longer)) = Len(longer) - 1
        /\ \A i \in 1 .. Len(Tail(longer)) : Tail(longer)[i] = longer[i + 1]
    BY <1>1, HeadTailProperties
  <2> HIDE DEF longer
  <2>2. \A i \in 1 .. Len(marked) : marked[i] # p
    BY <1>4 DEF IsMarked
  <2>3. Len(marked') = Len(marked)
    BY <1>1, <1>4, <2>1
  <2>4. \A i \in 1 .. Len(marked) : IF i = Len(marked) THEN marked'[i] = p
                                                       ELSE marked'[i] = marked[i + 1]
    BY <1>1, <1>4, <2>1, <2>3
  <2> QED
    BY <1>1, <2>2, <2>3, <2>4 DEF MarkedOnce, IsMarked
<1> QED
  BY <1>2, <1>3, <1>4 DEF MarkedAfter

(* A mark taken off is gone, and no other comes.                            *)
LEMMA UnmarkFacts ==
    ASSUME marked \in Seq(Paths), MarkedOnce, NEW p, marked' = UnmarkedAfter(p)
    PROVE  MarkedOnce' /\ ~IsMarked(p)' /\ \A q : IsMarked(q)' => IsMarked(q)
<1>1. CASE ~IsMarked(p)
  BY <1>1 DEF UnmarkedAfter, IsMarked, MarkedOnce
<1>2. CASE IsMarked(p)
  <2> DEFINE i == CHOOSE k \in 1 .. Len(marked) : marked[k] = p
  <2>1. i \in 1 .. Len(marked) /\ marked[i] = p /\ Len(marked) \in Nat
    BY <1>2 DEF IsMarked
  <2>2. marked' = SubSeq(marked, 1, i - 1) \o SubSeq(marked, i + 1, Len(marked))
    BY <1>2 DEF UnmarkedAfter
  <2> HIDE DEF i
  <2> DEFINE s == SubSeq(marked, 1, i - 1)  t == SubSeq(marked, i + 1, Len(marked))
  <2>3. /\ s \in Seq(Paths) /\ Len(s) = i - 1
        /\ \A k \in 1 .. i - 1 : s[k] = marked[k]
    BY <2>1
  <2>4. /\ t \in Seq(Paths) /\ Len(t) = Len(marked) - i
        /\ \A k \in 1 .. Len(marked) - i : t[k] = marked[k + i]
    BY <2>1
  <2> HIDE DEF s, t
  <2>5. /\ Len(s \o t) = Len(s) + Len(t)
        /\ \A k \in 1 .. Len(s) + Len(t) : (s \o t)[k] = IF k <= Len(s) THEN s[k] ELSE t[k - Len(s)]
    BY <2>3, <2>4, ConcatProperties
  <2>6. marked' = s \o t
    BY <2>2 DEF s, t
  <2> DEFINE n == Len(marked)
             u == s \o t
  <2>7. /\ n \in Nat /\ i \in 1 .. n
        /\ Len(s) = i - 1 /\ Len(t) = n - i
        /\ Len(u) = Len(s) + Len(t)
    BY <2>1, <2>3, <2>4, <2>5
  <2>8. Len(u) = n - 1
    <3> HIDE DEF n, u
    <3> QED
      BY <2>7
  <2>9. \A k \in 1 .. n - 1 : u[k] = IF k < i THEN marked[k] ELSE marked[k + 1]
    <3> TAKE k \in 1 .. n - 1
    <3>1. u[k] = IF k <= Len(s) THEN s[k] ELSE t[k - Len(s)]
      BY <2>5, <2>7, <2>8
    <3>2. CASE k < i
      <4>1. k \in 1 .. i - 1 /\ k <= Len(s)
        BY <2>7, <3>2
      <4> QED
        BY <2>3, <3>1, <3>2, <4>1
    <3>3. CASE ~ (k < i)
      <4>1. ~ (k <= Len(s)) /\ k - Len(s) \in 1 .. n - i /\ (k - Len(s)) + i = k + 1
        BY <2>7, <3>3
      <4> QED
        BY <2>4, <3>1, <3>3, <4>1
    <3> QED
      BY <3>2, <3>3
  <2> HIDE DEF u
  <2>10. /\ n \in Nat /\ i \in 1 .. n
         /\ \A k \in 1 .. n - 1 : \E m \in 1 .. n : /\ u[k] = marked[m] /\ m # i
                                                   /\ m = IF k < i THEN k ELSE k + 1
    <3>1. n \in Nat /\ i \in 1 .. n
      BY <2>7
    <3>2. \A k \in 1 .. n - 1 : k \in 1 .. n /\ k + 1 \in 1 .. n /\ (k < i => k # i)
                                /\ (~ (k < i) => k + 1 # i)
      BY <3>1
    <3> HIDE DEF n
    <3> QED
      BY <2>9, <3>1, <3>2
  <2>11. \A m \in 1 .. n : m # i => marked[m] # p
    BY <2>1 DEF MarkedOnce
  <2>12. \A k, l \in 1 .. n - 1 : u[k] = u[l] => k = l
    <3> SUFFICES ASSUME NEW k \in 1 .. n - 1, NEW l \in 1 .. n - 1, u[k] = u[l] PROVE k = l
      OBVIOUS
    <3>1. PICK a \in 1 .. n : u[k] = marked[a] /\ a # i /\ a = IF k < i THEN k ELSE k + 1
      BY <2>10
    <3>2. PICK b \in 1 .. n : u[l] = marked[b] /\ b # i /\ b = IF l < i THEN l ELSE l + 1
      BY <2>10
    <3>3. a = b
      BY <3>1, <3>2 DEF MarkedOnce
    <3> HIDE DEF n
    <3> QED
      BY <2>10, <3>1, <3>2, <3>3
  <2>13. \A k \in 1 .. n - 1 : u[k] # p
    BY <2>10, <2>11
  <2>14. marked' = u /\ Len(u) = n - 1
    BY <2>6, <2>8 DEF u
  <2> QED
    <3>1. MarkedOnce'
      BY <2>12, <2>14 DEF MarkedOnce
    <3>2. ~IsMarked(p)'
      BY <2>13, <2>14 DEF IsMarked
    <3>3. \A q : IsMarked(q)' => IsMarked(q)
      BY <2>10, <2>14 DEF IsMarked
    <3> QED
      BY <3>1, <3>2, <3>3
<1> QED
  BY <1>1, <1>2

(* Events and queued paths that wait go on waiting.                         *)
EventsKept == \A i \in 1 .. Len(events) : i \in 1 .. Len(events') /\ events'[i] = events[i]
QueueKept  == \A i \in 1 .. Len(fileQ) : i \in 1 .. Len(fileQ') /\ fileQ'[i] = fileQ[i]

(* What watchdog reports is appended to the events that wait, and only while
   the observer runs. *)
LEMMA NotifyFacts ==
    ASSUME events \in Seq(EventSet), NEW new \in Seq(EventSet), Notify(new)
    PROVE  /\ EventsKept
           /\ up = "watch" => \A i \in 1 .. Len(new) : /\ Len(events) + i \in 1 .. Len(events')
                                                       /\ events'[Len(events) + i] = new[i]
           /\ up # "watch" => events' = events
<1>1. CASE up = "watch"
  <2>1. events' = events \o new
    BY <1>1 DEF Notify
  <2>2. /\ Len(events \o new) = Len(events) + Len(new)
        /\ \A k \in 1 .. Len(events) + Len(new) :
             (events \o new)[k] = IF k <= Len(events) THEN events[k] ELSE new[k - Len(events)]
    BY ConcatProperties
  <2>3. Len(events) \in Nat /\ Len(new) \in Nat
    OBVIOUS
  <2>4. Len(events') = Len(events) + Len(new)
    BY <2>1, <2>2
  <2>5. ASSUME NEW i \in 1 .. Len(events)
        PROVE  i \in 1 .. Len(events') /\ events'[i] = events[i]
    <3>1. i \in 1 .. Len(events) + Len(new) /\ i <= Len(events)
      BY <2>3
    <3> QED
      BY <2>1, <2>2, <2>4, <3>1
  <2>6. ASSUME NEW i \in 1 .. Len(new)
        PROVE  /\ Len(events) + i \in 1 .. Len(events')
               /\ events'[Len(events) + i] = new[i]
    <3>1. /\ Len(events) + i \in 1 .. Len(events) + Len(new) /\ ~ (Len(events) + i <= Len(events))
          /\ Len(events) + i - Len(events) = i
      BY <2>3
    <3> QED
      BY <2>1, <2>2, <2>4, <3>1
  <2> QED
    BY <1>1, <2>5, <2>6 DEF EventsKept
<1>2. CASE up # "watch"
  BY <1>2 DEF Notify, EventsKept
<1> QED
  BY <1>1, <1>2

(* A path whose waiting event will queue it stays so while no event is taken
   and no mark is added. *)
LEMMA ReportedStays ==
    ASSUME NEW p, events \in Seq(EventSet), EventsKept, IsMarked(p)' => IsMarked(p), Reported(p)
    PROVE  Reported(p)'
<1>1. PICK i \in 1 .. Len(events) :
        /\ events[i].path = p
        /\ \/ events[i].kind = "modified"
           \/ events[i].kind = "created"
                 /\ (~IsMarked(p) \/ \E k \in 1 .. i - 1 : events[k] = Event("deleted", p))
  BY DEF Reported
<1>2. i \in 1 .. Len(events') /\ events'[i] = events[i]
  BY DEF EventsKept
<1>3. ASSUME NEW k \in 1 .. i - 1, events[k] = Event("deleted", p)
      PROVE  events'[k] = Event("deleted", p)'
  <2>1. k \in 1 .. Len(events)
    OBVIOUS
  <2> QED
    BY <1>3, <2>1 DEF EventsKept, Event
<1> QED
  BY <1>1, <1>2, <1>3 DEF Reported

(* A path that waits in the queue stays so while the queue is only added to
   and no mark is added. *)
LEMMA QueuedStays ==
    ASSUME NEW p, QueueKept, IsMarked(p)' => IsMarked(p), Queued(p)
    PROVE  Queued(p)'
  BY DEF Queued, QueueKept

(* Appending a path keeps what waits, and the path waits from then on. *)
LEMMA AppendKeeps ==
    ASSUME fileQ \in Seq(Paths), NEW q \in Paths, fileQ' = Append(fileQ, q)
    PROVE  QueueKept /\ \E i \in 1 .. Len(fileQ') : fileQ'[i] = q
<1>1. Len(fileQ') = Len(fileQ) + 1 /\ Len(fileQ) \in Nat /\ fileQ'[Len(fileQ) + 1] = q
  OBVIOUS
<1>2. \A i \in 1 .. Len(fileQ) : fileQ'[i] = fileQ[i]
  OBVIOUS
<1> QED
  BY <1>1, <1>2 DEF QueueKept

(* A path that an event, the queue or the start-up walk will bring to the
   worker stays so in a step that takes none of them. *)
LEMMA WatchedStays ==
    ASSUME NEW p, events \in Seq(EventSet), EventsKept, QueueKept,
           IsMarked(p)' => IsMarked(p), UNCHANGED <<toScan, up>>, Watched(p)
    PROVE  Watched(p)'
  BY ReportedStays, QueuedStays DEF Watched

(* A change reported to the observer will be looked at, whatever is marked. *)
LEMMA ChangeIsReported ==
    ASSUME events \in Seq(EventSet), NEW new \in Seq(EventSet), Notify(new), up = "watch",
           NEW p, NEW i \in 1 .. Len(new), new[i] = Event("modified", p)
    PROVE  Reported(p)'
<1>1. Len(events) + i \in 1 .. Len(events') /\ events'[Len(events) + i] = Event("modified", p)
  BY NotifyFacts
<1>2. events'[Len(events) + i].kind = "modified" /\ events'[Len(events) + i].path = p
  BY <1>1 DEF Event
<1> QED
  BY <1>1, <1>2 DEF Reported

(* So will a creation, unless it meets a mark that nothing takes off.       *)
LEMMA CreationIsReported ==
    ASSUME events \in Seq(EventSet), NEW new \in Seq(EventSet), Notify(new), up = "watch",
           NEW p, NEW i \in 1 .. Len(new), new[i] = Event("created", p),
           \/ ~IsMarked(p)'
           \/ \E k \in 1 .. Len(events) : events[k].path = p /\ events[k].kind # "created"
    PROVE  Reported(p)'
<1>1. Len(events) + i \in 1 .. Len(events') /\ events'[Len(events) + i] = Event("created", p)
  BY NotifyFacts
<1>2. events'[Len(events) + i].kind = "created" /\ events'[Len(events) + i].path = p
  BY <1>1 DEF Event
<1>3. CASE ~IsMarked(p)'
  BY <1>1, <1>2, <1>3 DEF Reported
<1>4. CASE \E k \in 1 .. Len(events) : events[k].path = p /\ events[k].kind # "created"
  <2>1. PICK k \in 1 .. Len(events) : events[k].path = p /\ events[k].kind # "created"
    BY <1>4
  <2>2. k \in 1 .. Len(events') /\ events'[k] = events[k] /\ events[k] \in EventSet
    BY NotifyFacts DEF EventsKept
  <2>3. CASE events[k].kind = "modified"
    BY <2>1, <2>2, <2>3 DEF Reported
  <2>4. CASE events[k].kind # "modified"
    <3>1. events[k] = Event("deleted", p)
      BY <2>1, <2>2, <2>4 DEF EventSet, Event
    <3>2. k \in 1 .. (Len(events) + i) - 1
      BY <2>1
    <3>3. events'[k] = Event("deleted", p)'
      BY <2>2, <3>1 DEF Event
    <3> QED
      BY <1>1, <1>2, <3>2, <3>3 DEF Reported
  <2> QED
    BY <2>3, <2>4
<1> QED
  BY <1>3, <1>4

(* What is quiet stays so, and a path in hand has its place.                *)
LEMMA QuietNext ==
    ASSUME Quiet, Placed, Still, [Next]_vars
    PROVE  Quiet' /\ Placed' /\ Still'
<1> USE DEF Quiet, Placed, Still, osVars, dbVars, obsVars, workVars, restoreVars, boundVars,
            WorkerDone
<1>1. ASSUME NEW p \in Paths, Write(p) PROVE Quiet' /\ Placed' /\ Still'
  BY <1>1 DEF Write, Notify, Sub, MarkMoved
<1>2. ASSUME NEW p \in Paths, DeleteFile(p) PROVE Quiet' /\ Placed' /\ Still'
  BY <1>2 DEF DeleteFile, Notify, Sub, MarkMoved
<1>3. ASSUME NEW j \in Jobs, DeleteFolder(j) PROVE Quiet' /\ Placed' /\ Still'
  BY <1>3 DEF DeleteFolder, Notify, Sub, MarkMoved
<1>4. ASSUME TogglePause PROVE Quiet' /\ Placed' /\ Still'
  BY <1>4 DEF TogglePause, Notify, Sub, MarkMoved
<1>5. ASSUME ToggleParsers PROVE Quiet' /\ Placed' /\ Still'
  BY <1>5 DEF ToggleParsers, Notify, Sub, MarkMoved
<1>6. ASSUME Crash PROVE Quiet' /\ Placed' /\ Still'
  BY <1>6 DEF Crash, Notify, Sub, MarkMoved
<1>7. ASSUME StartPipeline PROVE Quiet' /\ Placed' /\ Still'
  BY <1>7 DEF StartPipeline, Notify, Sub, MarkMoved
<1>8. ASSUME NEW p \in Paths, ScanPath(p) PROVE Quiet' /\ Placed' /\ Still'
  BY <1>8 DEF ScanPath, Notify, Sub, MarkMoved
<1>9. ASSUME StartObserver PROVE Quiet' /\ Placed' /\ Still'
  BY <1>9 DEF StartObserver, Notify, Sub, MarkMoved
<1>10. ASSUME OnCreated PROVE Quiet' /\ Placed' /\ Still'
  BY <1>10 DEF OnCreated, NextEvent, Notify, Sub, MarkMoved
<1>11. ASSUME OnModified PROVE Quiet' /\ Placed' /\ Still'
  BY <1>11 DEF OnModified, NextEvent, Notify, Sub, MarkMoved
<1>12. ASSUME OnDeleted PROVE Quiet' /\ Placed' /\ Still'
  BY <1>12 DEF OnDeleted, NextEvent, Notify, Sub, MarkMoved
<1>13. ASSUME Take PROVE Quiet' /\ Placed' /\ Still'
  BY <1>13 DEF Take, Running, Notify, Sub, MarkMoved
<1>14. ASSUME NotReady PROVE Quiet' /\ Placed' /\ Still'
  BY <1>14 DEF NotReady, Notify, Sub, MarkMoved
<1>15. ASSUME MarkReady PROVE Quiet' /\ Placed' /\ Still'
  BY <1>15 DEF MarkReady, Notify, Sub, MarkMoved
<1>16. ASSUME Relocate PROVE Quiet' /\ Placed' /\ Still'
  BY <1>16 DEF Relocate, Notify, Sub, MarkMoved
<1>17. ASSUME GateEtc PROVE Quiet' /\ Placed' /\ Still'
  BY <1>17 DEF GateEtc, Notify, Sub, MarkMoved
<1>18. ASSUME GateParsed PROVE Quiet' /\ Placed' /\ Still'
  BY <1>18 DEF GateParsed, Notify, Sub, MarkMoved
<1>19. ASSUME Parse PROVE Quiet' /\ Placed' /\ Still'
  BY <1>19 DEF Parse, Notify, Sub, MarkMoved
<1>20. ASSUME ParseFails PROVE Quiet' /\ Placed' /\ Still'
  BY <1>20 DEF ParseFails, Notify, Sub, MarkMoved
<1>21. ASSUME CadKnown PROVE Quiet' /\ Placed' /\ Still'
  BY <1>21 DEF CadKnown, Notify, Sub, MarkMoved
<1>22. ASSUME Archive PROVE Quiet' /\ Placed' /\ Still'
  BY <1>22 DEF Archive, Notify, Sub, MarkMoved
<1>23. ASSUME Commit PROVE Quiet' /\ Placed' /\ Still'
  BY <1>23 DEF Commit, Notify, Sub, MarkMoved
<1>24. ASSUME CommitFails PROVE Quiet' /\ Placed' /\ Still'
  BY <1>24 DEF CommitFails, Notify, Sub, MarkMoved
<1>25. ASSUME RestoreBatch PROVE Quiet' /\ Placed' /\ Still'
  BY <1>25 DEF RestoreBatch, Notify, Sub, MarkMoved
<1>26. ASSUME RestoreBatchEnd PROVE Quiet' /\ Placed' /\ Still'
  BY <1>26 DEF RestoreBatchEnd, Notify, Sub, MarkMoved
<1>27. ASSUME RestoreCopied PROVE Quiet' /\ Placed' /\ Still'
  BY <1>27 DEF RestoreCopied, Notify, Sub, MarkMoved
<1>28. ASSUME RestoreMarked PROVE Quiet' /\ Placed' /\ Still'
  BY <1>28 DEF RestoreMarked, Notify, Sub, MarkMoved
<1>29. ASSUME NEW j \in Jobs, RestoreCheck(j) PROVE Quiet' /\ Placed' /\ Still'
  BY <1>29 DEF RestoreCheck, Notify, Sub, MarkMoved
<1>30. ASSUME NEW p \in Paths, RestoreCopy(p) PROVE Quiet' /\ Placed' /\ Still'
  BY <1>30 DEF RestoreCopy, Notify, Sub, MarkMoved
<1>31. ASSUME NEW p \in Paths, RestoreMark(p) PROVE Quiet' /\ Placed' /\ Still'
  BY <1>31 DEF RestoreMark, Notify, Sub, MarkMoved
<1>32. ASSUME UNCHANGED vars PROVE Quiet' /\ Placed' /\ Still'
  BY <1>32 DEF vars, Notify, Sub, MarkMoved
<1> QED
  BY <1>1, <1>2, <1>3, <1>4, <1>5, <1>6, <1>7, <1>8, <1>9, <1>10, <1>11, <1>12, <1>13, <1>14, <1>15, <1>16,
     <1>17, <1>18, <1>19, <1>20, <1>21, <1>22, <1>23, <1>24, <1>25, <1>26, <1>27, <1>28, <1>29, <1>30, <1>31, <1>32
  DEF Next, Environment, Collect, Startup, Observer, Worker, DeleteWorker

(* processed_files never lists a path twice.                                *)
LEMMA MarkedOnceNext ==
    ASSUME TypeOK, WorkerInv, MarkedOnce, [Next]_vars PROVE MarkedOnce'
<1>1. ASSUME NEW p \in Paths, Write(p) PROVE MarkedOnce'
  BY <1>1 DEF Write, MarkedOnce, osVars, dbVars, obsVars, workVars, restoreVars, boundVars
<1>2. ASSUME NEW p \in Paths, DeleteFile(p) PROVE MarkedOnce'
  BY <1>2 DEF DeleteFile, MarkedOnce, osVars, dbVars, obsVars, workVars, restoreVars, boundVars
<1>3. ASSUME NEW j \in Jobs, DeleteFolder(j) PROVE MarkedOnce'
  BY <1>3 DEF DeleteFolder, MarkedOnce, osVars, dbVars, obsVars, workVars, restoreVars, boundVars
<1>4. ASSUME TogglePause PROVE MarkedOnce'
  BY <1>4 DEF TogglePause, MarkedOnce, osVars, dbVars, obsVars, workVars, restoreVars, boundVars
<1>5. ASSUME ToggleParsers PROVE MarkedOnce'
  BY <1>5 DEF ToggleParsers, MarkedOnce, osVars, dbVars, obsVars, workVars, restoreVars, boundVars
<1>6. ASSUME Crash PROVE MarkedOnce'
  BY <1>6 DEF Crash, MarkedOnce, osVars, dbVars, obsVars, workVars, restoreVars, boundVars
<1>7. ASSUME StartPipeline PROVE MarkedOnce'
  BY <1>7 DEF StartPipeline, MarkedOnce, osVars, dbVars, obsVars, workVars, restoreVars, boundVars
<1>8. ASSUME NEW p \in Paths, ScanPath(p) PROVE MarkedOnce'
  BY <1>8 DEF ScanPath, MarkedOnce, osVars, dbVars, obsVars, workVars, restoreVars, boundVars
<1>9. ASSUME StartObserver PROVE MarkedOnce'
  BY <1>9 DEF StartObserver, MarkedOnce, osVars, dbVars, obsVars, workVars, restoreVars, boundVars
<1>10. ASSUME OnCreated PROVE MarkedOnce'
  BY <1>10 DEF OnCreated, NextEvent, MarkedOnce, osVars, dbVars, obsVars, workVars, restoreVars, boundVars
<1>11. ASSUME OnModified PROVE MarkedOnce'
  <2>1. marked' = UnmarkedAfter(Head(events).path)
    BY <1>11 DEF OnModified
  <2> QED
    BY <2>1, UnmarkFacts DEF TypeOK
<1>12. ASSUME OnDeleted PROVE MarkedOnce'
  <2>1. marked' = UnmarkedAfter(Head(events).path)
    BY <1>12 DEF OnDeleted
  <2> QED
    BY <2>1, UnmarkFacts DEF TypeOK
<1>13. ASSUME Take PROVE MarkedOnce'
  BY <1>13 DEF Take, Running, MarkedOnce, osVars, dbVars, obsVars, workVars, restoreVars, boundVars
<1>14. ASSUME NotReady PROVE MarkedOnce'
  BY <1>14 DEF NotReady, MarkedOnce, osVars, dbVars, obsVars, workVars, restoreVars, boundVars
<1>15. ASSUME MarkReady PROVE MarkedOnce'
  <2>1. marked' = MarkedAfter(wpath) /\ wpath \in Paths
    BY <1>15 DEF MarkReady, WorkerInv
  <2> QED
    BY <2>1, MarkFacts DEF TypeOK
<1>16. ASSUME Relocate PROVE MarkedOnce'
  <2>1. wpath \in Paths /\ Sub(wpath) \in Paths
    BY <1>16, PathFacts DEF Relocate, WorkerInv
  <2>2. marked' = marked \/ marked' = MarkedAfter(Sub(wpath))
    BY <1>16 DEF Relocate, MarkMoved
  <2> QED
    BY <2>1, <2>2, MarkFacts DEF TypeOK, MarkedOnce
<1>17. ASSUME GateEtc PROVE MarkedOnce'
  BY <1>17 DEF GateEtc, MarkedOnce, osVars, dbVars, obsVars, workVars, restoreVars, boundVars
<1>18. ASSUME GateParsed PROVE MarkedOnce'
  BY <1>18 DEF GateParsed, MarkedOnce, osVars, dbVars, obsVars, workVars, restoreVars, boundVars
<1>19. ASSUME Parse PROVE MarkedOnce'
  BY <1>19 DEF Parse, MarkedOnce, osVars, dbVars, obsVars, workVars, restoreVars, boundVars
<1>20. ASSUME ParseFails PROVE MarkedOnce'
  BY <1>20 DEF ParseFails, MarkedOnce, osVars, dbVars, obsVars, workVars, restoreVars, boundVars
<1>21. ASSUME CadKnown PROVE MarkedOnce'
  BY <1>21 DEF CadKnown, MarkedOnce, osVars, dbVars, obsVars, workVars, restoreVars, boundVars
<1>22. ASSUME Archive PROVE MarkedOnce'
  BY <1>22 DEF Archive, MarkedOnce, osVars, dbVars, obsVars, workVars, restoreVars, boundVars
<1>23. ASSUME Commit PROVE MarkedOnce'
  BY <1>23 DEF Commit, MarkedOnce, osVars, dbVars, obsVars, workVars, restoreVars, boundVars
<1>24. ASSUME CommitFails PROVE MarkedOnce'
  BY <1>24 DEF CommitFails, MarkedOnce, osVars, dbVars, obsVars, workVars, restoreVars, boundVars
<1>25. ASSUME RestoreBatch PROVE MarkedOnce'
  BY <1>25 DEF RestoreBatch, MarkedOnce, osVars, dbVars, obsVars, workVars, restoreVars, boundVars
<1>26. ASSUME RestoreBatchEnd PROVE MarkedOnce'
  BY <1>26 DEF RestoreBatchEnd, MarkedOnce, osVars, dbVars, obsVars, workVars, restoreVars, boundVars
<1>27. ASSUME RestoreCopied PROVE MarkedOnce'
  BY <1>27 DEF RestoreCopied, MarkedOnce, osVars, dbVars, obsVars, workVars, restoreVars, boundVars
<1>28. ASSUME RestoreMarked PROVE MarkedOnce'
  BY <1>28 DEF RestoreMarked, MarkedOnce, osVars, dbVars, obsVars, workVars, restoreVars, boundVars
<1>29. ASSUME NEW j \in Jobs, RestoreCheck(j) PROVE MarkedOnce'
  BY <1>29 DEF RestoreCheck, MarkedOnce, osVars, dbVars, obsVars, workVars, restoreVars, boundVars
<1>30. ASSUME NEW p \in Paths, RestoreCopy(p) PROVE MarkedOnce'
  BY <1>30 DEF RestoreCopy, MarkedOnce, osVars, dbVars, obsVars, workVars, restoreVars, boundVars
<1>31. ASSUME NEW p \in Paths, RestoreMark(p) PROVE MarkedOnce'
  BY <1>31, MarkFacts DEF RestoreMark, TypeOK
<1>32. ASSUME UNCHANGED vars PROVE MarkedOnce'
  BY <1>32 DEF vars, MarkedOnce, osVars, dbVars, obsVars, workVars, restoreVars, boundVars
<1> QED
  BY <1>1, <1>2, <1>3, <1>4, <1>5, <1>6, <1>7, <1>8, <1>9, <1>10, <1>11, <1>12, <1>13, <1>14, <1>15, <1>16,
     <1>17, <1>18, <1>19, <1>20, <1>21, <1>22, <1>23, <1>24, <1>25, <1>26, <1>27, <1>28, <1>29, <1>30, <1>31, <1>32
  DEF Next, Environment, Collect, Startup, Observer, Worker, DeleteWorker

(* The listing of a finite set leaves nobody out.                           *)
LEMMA SetToSeqCovers ==
    ASSUME NEW S, IsFiniteSet(S), NEW q \in S
    PROVE  \E i \in 1 .. Len(SetToSeq(S)) : SetToSeq(S)[i] = q
<1> DEFINE n == Cardinality(S)  f == SetToSeq(S)
<1>1. n \in Nat /\ ExistsBijection(1 .. n, S)
  BY FS_CardinalityType
<1>2. \E g \in [1 .. n -> S] : IsInjective(g)
  BY <1>1 DEF ExistsBijection, Bijection, Injection
<1>3. f \in [1 .. n -> S] /\ IsInjective(f)
  BY <1>2 DEF SetToSeq
<1>4. f \in Injection(1 .. n, S)
  BY <1>3 DEF Injection
<1>5. Cardinality(1 .. n) = n
  BY <1>1, FS_Interval
<1> HIDE DEF n, f
<1>6. f \in Surjection(1 .. n, S)
  BY <1>4, <1>5, FS_Injection DEF n
<1>7. Len(f) = n
  BY <1>1, <1>3
<1> QED
  BY <1>6, <1>7 DEF Surjection, f

(* A mark with no file stays explained while the events that wait are kept. *)
LEMMA ExcusedStays ==
    ASSUME NEW p \in Paths, EventsKept, skip'[p] = skip[p], Excused(p)
    PROVE  Excused(p)'
  BY DEF EventsKept, Excused

(* Marks of files that are gone stay explained when disk, marks and events
   are left alone. *)
LEMMA GoneStays ==
    ASSUME Gone, UNCHANGED <<disk, marked, events>>,
           \A p \in Paths : disk[p] = 0 => skip'[p] = skip[p]
    PROVE  Gone'
  BY DEF Gone, Excused, IsMarked

(* Only the event at the head is spent.                                     *)
LEMMA ExcusedTail ==
    ASSUME events \in Seq(EventSet), events # <<>>, events' = Tail(events), UNCHANGED skip,
           NEW p, p # Head(events).path \/ Head(events).kind = "created", Excused(p)
    PROVE  Excused(p)'
<1>1. CASE skip[p] \in {"gap", "marked"}
  BY <1>1 DEF Excused
<1>2. CASE \E i \in 1 .. Len(events) : events[i].path = p /\ events[i].kind # "created"
  <2>1. PICK i \in 1 .. Len(events) : events[i].path = p /\ events[i].kind # "created"
    BY <1>2
  <2>2. Head(events) = events[1] /\ Len(events) \in Nat
    OBVIOUS
  <2>3. i # 1
    BY <2>1, <2>2
  <2>4. i - 1 \in 1 .. Len(events') /\ events'[i - 1] = events[i]
    BY <2>2, <2>3, HeadTailProperties
  <2> QED
    BY <2>1, <2>4 DEF Excused
<1> QED
  BY <1>1, <1>2 DEF Excused

(* A deletion that is reported excuses the mark.                            *)
LEMMA LossIsReported ==
    ASSUME events \in Seq(EventSet), NEW new \in Seq(EventSet), Notify(new), up = "watch",
           NEW p, NEW i \in 1 .. Len(new), new[i] = Event("deleted", p)
    PROVE  Excused(p)'
<1>1. Len(events) + i \in 1 .. Len(events') /\ events'[Len(events) + i] = new[i]
  BY NotifyFacts
<1>2. new[i].path = p /\ new[i].kind # "created"
  BY DEF Event
<1> QED
  BY <1>1, <1>2 DEF Excused

(* Every step keeps it: a mark left at a path with no file has an event that
   will remove it, or is recorded in skip. *)
LEMMA GoneNext ==
    ASSUME TypeOK, WorkerInv, Quiet, Still, MarkedOnce, Gone, [Next]_vars PROVE Gone'
<1>1. ASSUME NEW p \in Paths, Write(p) PROVE Gone'
  <2>1. EventsKept
    <3>1. WriteKind(p) \in {"created", "modified"}
      BY DEF WriteKind
    <3>2. /\ <<Event(WriteKind(p), p)>> \in Seq(EventSet)
          /\ <<Event("created", p), Event("modified", p)>> \in Seq(EventSet)
      BY <3>1, EventTypes
    <3> QED
      BY <1>1, <3>2, NotifyFacts DEF Write, TypeOK
  <2>2. disk'[p] # 0
    BY <1>1, PathFacts DEF Write, TypeOK, Versions
  <2>3. \A q \in Paths : q # p => disk'[q] = disk[q] /\ skip'[q] = skip[q]
    BY <1>1 DEF Write, TypeOK
  <2>4. marked' = marked
    BY <1>1 DEF Write
  <2> QED
    BY <2>1, <2>2, <2>3, <2>4, ExcusedStays DEF Gone, IsMarked
<1>2. ASSUME NEW p \in Paths, DeleteFile(p) PROVE Gone'
  <2>1. <<Event("deleted", p)>> \in Seq(EventSet) /\ Notify(<<Event("deleted", p)>>)
    BY <1>2, EventTypes DEF DeleteFile
  <2>2. EventsKept
    BY <2>1, NotifyFacts DEF TypeOK
  <2>3. \A q \in Paths : q # p => disk'[q] = disk[q] /\ skip'[q] = skip[q]
    BY <1>2 DEF DeleteFile, TypeOK
  <2>4. marked' = marked
    BY <1>2 DEF DeleteFile
  <2>5. IsMarked(p) => Excused(p)'
    <3>1. CASE up = "watch"
      <4>1. 1 \in 1 .. Len(<<Event("deleted", p)>>) /\ <<Event("deleted", p)>>[1] = Event("deleted", p)
        OBVIOUS
      <4> QED
        BY <2>1, <3>1, <4>1, LossIsReported DEF TypeOK
    <3>2. CASE up = "scan" /\ IsMarked(p)
      BY <1>2, <3>2 DEF DeleteFile, Unseen, TypeOK, Excused
    <3>3. CASE up = "down"
      BY <3>3 DEF Still, IsMarked
    <3> QED
      BY <3>1, <3>2, <3>3 DEF TypeOK
  <2> QED
    BY <2>2, <2>3, <2>4, <2>5, ExcusedStays DEF Gone, IsMarked
<1>3. ASSUME NEW j \in Jobs, DeleteFolder(j) PROVE Gone'
  <2> DEFINE S == OnDisk(JobPaths(j))
             gone == SetToSeq(S)
             new == [i \in 1 .. Len(gone) |-> Event("deleted", gone[i])]
                       \o <<Event("deleted", <<j, "dir">>)>>
  <2>1. /\ gone \in Seq(Paths) /\ \A q \in S : \E i \in 1 .. Len(gone) : gone[i] = q
    <3>1. S \subseteq Paths /\ IsFiniteSet(S)
      BY PathsFinite, FS_Subset DEF OnDisk, JobPaths
    <3> QED
      BY <3>1, SetToSeqType, SetToSeqCovers, ElementOfSeq, SeqDef
  <2>2. marked' = marked /\ Notify(new)
    BY <1>3 DEF DeleteFolder
  <2>3. \A q \in Paths \ S : disk'[q] = disk[q] /\ skip'[q] = skip[q]
    BY <1>3 DEF DeleteFolder, TypeOK, OnDisk, JobPaths
  <2>4. \A q \in S : q \in Paths /\ skip'[q] = IF Unseen(q) THEN "gap" ELSE "no"
    BY <1>3 DEF DeleteFolder, TypeOK, OnDisk, JobPaths
  <2> HIDE DEF gone, S
  <2>5. /\ new \in Seq(EventSet)
        /\ \A i \in 1 .. Len(gone) : i \in 1 .. Len(new) /\ new[i] = Event("deleted", gone[i])
    <3> DEFINE files == [i \in 1 .. Len(gone) |-> Event("deleted", gone[i])]
               last == <<Event("deleted", <<j, "dir">>)>>
    <3>1. Len(gone) \in Nat /\ \A i \in 1 .. Len(gone) : gone[i] \in Paths
      BY <2>1
    <3>2. /\ files \in Seq(EventSet) /\ Len(files) = Len(gone)
          /\ \A i \in 1 .. Len(gone) : files[i] = Event("deleted", gone[i])
      BY <3>1, EventTypes, SeqDef
    <3>3. last \in Seq(EventSet) /\ Len(last) = 1
      BY EventTypes
    <3> HIDE DEF files, last
    <3>4. /\ files \o last \in Seq(EventSet) /\ Len(files \o last) = Len(gone) + 1
          /\ \A i \in 1 .. Len(gone) : (files \o last)[i] = files[i]
      <4>1. /\ files \o last \in Seq(EventSet) /\ Len(files \o last) = Len(files) + Len(last)
            /\ \A i \in 1 .. Len(files) + Len(last) :
                 (files \o last)[i] = IF i <= Len(files) THEN files[i] ELSE last[i - Len(files)]
        BY <3>2, <3>3, ConcatProperties
      <4>2. \A i \in 1 .. Len(gone) : i \in 1 .. Len(files) + Len(last) /\ i <= Len(files)
        BY <3>1, <3>2, <3>3
      <4> QED
        BY <3>1, <3>2, <3>3, <4>1, <4>2
    <3>5. new = files \o last
      BY DEF files, last
    <3> HIDE DEF new
    <3> QED
      BY <3>1, <3>2, <3>4, <3>5
  <2> HIDE DEF new
  <2>6. EventsKept
    BY <2>2, <2>5, NotifyFacts DEF TypeOK
  <2>7. ASSUME NEW q \in S, IsMarked(q) PROVE Excused(q)'
    <3>1. CASE up = "watch"
      <4>1. PICK i \in 1 .. Len(gone) : gone[i] = q
        BY <2>1
      <4>2. i \in 1 .. Len(new) /\ new[i] = Event("deleted", q)
        BY <2>5, <4>1
      <4> QED
        BY <2>2, <2>5, <3>1, <4>2, LossIsReported DEF TypeOK
    <3>2. CASE up = "scan"
      BY <2>4, <2>7, <3>2 DEF Unseen, Excused
    <3>3. CASE up = "down"
      BY <2>7, <3>3 DEF Still, IsMarked
    <3> QED
      BY <3>1, <3>2, <3>3 DEF TypeOK
  <2> QED
    BY <2>2, <2>3, <2>6, <2>7, ExcusedStays DEF Gone, IsMarked
<1>4. ASSUME TogglePause PROVE Gone'
  BY GoneStays, <1>4 DEF TogglePause, osVars, dbVars, obsVars, workVars, restoreVars, boundVars
<1>5. ASSUME ToggleParsers PROVE Gone'
  BY GoneStays, <1>5 DEF ToggleParsers, osVars, dbVars, obsVars, workVars, restoreVars, boundVars
<1>6. ASSUME Crash PROVE Gone'
  BY <1>6 DEF Crash, Gone, IsMarked
<1>7. ASSUME StartPipeline PROVE Gone'
  BY GoneStays, <1>7 DEF StartPipeline, osVars, dbVars, obsVars, workVars, restoreVars, boundVars
<1>8. ASSUME NEW p \in Paths, ScanPath(p) PROVE Gone'
  BY GoneStays, <1>8 DEF ScanPath, osVars, dbVars, obsVars, workVars, restoreVars, boundVars
<1>9. ASSUME StartObserver PROVE Gone'
  BY GoneStays, <1>9 DEF StartObserver, osVars, dbVars, obsVars, workVars, restoreVars, boundVars
<1>10. ASSUME OnCreated PROVE Gone'
  <2>1. UNCHANGED <<disk, marked, skip>> /\ NextEvent("created")
    BY <1>10 DEF OnCreated, osVars
  <2>2. \A p \in Paths : Excused(p) => Excused(p)'
    BY <2>1, ExcusedTail DEF TypeOK, NextEvent
  <2> QED
    BY <2>1, <2>2 DEF Gone, IsMarked
<1>11. ASSUME OnModified PROVE Gone'
  <2>1. UNCHANGED <<disk, skip>> /\ NextEvent("modified") /\ marked' = UnmarkedAfter(Head(events).path)
    BY <1>11 DEF OnModified, osVars
  <2>2. PICK q : q = Head(events).path
    OBVIOUS
  <2>3. \A p \in Paths : p # q /\ Excused(p) => Excused(p)'
    BY <2>1, <2>2, ExcusedTail DEF TypeOK, NextEvent
  <2>4. ~IsMarked(q)' /\ \A p : IsMarked(p)' => IsMarked(p)
    BY <2>1, <2>2, UnmarkFacts DEF TypeOK
  <2> QED
    BY <2>1, <2>3, <2>4 DEF Gone
<1>12. ASSUME OnDeleted PROVE Gone'
  <2>1. UNCHANGED <<disk, skip>> /\ NextEvent("deleted") /\ marked' = UnmarkedAfter(Head(events).path)
    BY <1>12 DEF OnDeleted, osVars
  <2>2. PICK q : q = Head(events).path
    OBVIOUS
  <2>3. \A p \in Paths : p # q /\ Excused(p) => Excused(p)'
    BY <2>1, <2>2, ExcusedTail DEF TypeOK, NextEvent
  <2>4. ~IsMarked(q)' /\ \A p : IsMarked(p)' => IsMarked(p)
    BY <2>1, <2>2, UnmarkFacts DEF TypeOK
  <2> QED
    BY <2>1, <2>3, <2>4 DEF Gone
<1>13. ASSUME Take PROVE Gone'
  BY GoneStays, <1>13 DEF Take, Running, osVars, dbVars, obsVars, workVars, restoreVars, boundVars
<1>14. ASSUME NotReady PROVE Gone'
  <2>1. /\ UNCHANGED <<disk, marked, events>>
        /\ \A p \in Paths : disk[p] = 0 => skip'[p] = skip[p]
    BY <1>14 DEF NotReady, PassOver, Stale, TypeOK, osVars, obsVars
  <2> QED
    BY <2>1, GoneStays
<1>15. ASSUME MarkReady PROVE Gone'
  <2>1. /\ wpath \in Paths /\ disk[wpath] # 0 /\ marked' = MarkedAfter(wpath)
        /\ UNCHANGED <<disk, events, skip>>
    BY <1>15 DEF MarkReady, WorkerInv, osVars
  <2>2. \A q : q # wpath /\ IsMarked(q)' => IsMarked(q)
    BY <2>1, MarkFacts DEF TypeOK
  <2>3. EventsKept
    BY <2>1 DEF EventsKept
  <2> QED
    BY <2>1, <2>2, <2>3, ExcusedStays DEF Gone
<1>16. ASSUME Relocate PROVE Gone'
  <2>0. PICK w, dest : w = wpath /\ dest = Sub(wpath)
    OBVIOUS
  <2> DEFINE removed == IF disk[dest] # 0 THEN <<Event("deleted", dest)>> ELSE <<>>
             moved == <<Event("deleted", w), Event("created", dest)>>
  <2>1. w \in Paths /\ dest \in Paths /\ dest # w
    BY <1>16, <2>0, PathFacts DEF Relocate, WorkerInv, Sub
  <2>2. /\ removed \in Seq(EventSet) /\ Len(removed) \in {0, 1}
        /\ disk[dest] # 0 => 1 \in 1 .. Len(removed) /\ removed[1] = Event("deleted", dest)
    BY <2>1, EventTypes
  <2>3. /\ moved \in Seq(EventSet) /\ Len(moved) = 2 /\ moved[1] = Event("deleted", w)
    BY <2>1, EventTypes
  <2>4. /\ disk' = [disk EXCEPT ![dest] = disk[w], ![w] = 0]
        /\ skip' = [skip EXCEPT
                 ![dest] = IF disk[w] # 0 THEN "no" ELSE IF Unseen(dest) THEN "gap" ELSE @,
                 ![w] = IF disk[w] = 0 THEN @ ELSE IF Unseen(w) THEN "gap" ELSE "no"]
        /\ disk[w] # 0 => Notify(removed \o moved) /\ marked' = MarkedAfter(dest)
        /\ disk[w] = 0 => Notify(removed) /\ UNCHANGED marked
    BY <1>16, <2>0 DEF Relocate, MarkMoved
  <2>5. up # "down"
    BY <1>16 DEF Relocate, Still
  <2> HIDE DEF removed, moved
  <2>6. \A q \in Paths : q # dest /\ q # w => disk'[q] = disk[q] /\ skip'[q] = skip[q]
    BY <2>1, <2>4 DEF TypeOK
  <2>7. CASE disk[w] # 0
    <3> DEFINE new == removed \o moved
    <3>1. /\ new \in Seq(EventSet) /\ Len(new) = Len(removed) + 2
          /\ Len(removed) + 1 \in 1 .. Len(new) /\ new[Len(removed) + 1] = Event("deleted", w)
      <4>1. /\ new \in Seq(EventSet) /\ Len(new) = Len(removed) + Len(moved)
            /\ \A i \in 1 .. Len(removed) + Len(moved) :
                 new[i] = IF i <= Len(removed) THEN removed[i] ELSE moved[i - Len(removed)]
        BY <2>2, <2>3, ConcatProperties
      <4> HIDE DEF new
      <4>2. /\ Len(removed) + 1 \in 1 .. Len(removed) + Len(moved)
            /\ ~ (Len(removed) + 1 <= Len(removed)) /\ (Len(removed) + 1) - Len(removed) = 1
        BY <2>2, <2>3
      <4> QED
        BY <2>3, <4>1, <4>2
    <3> HIDE DEF new
    <3>2. Notify(new) /\ marked' = MarkedAfter(dest)
      BY <2>4, <2>7 DEF new
    <3>3. EventsKept
      BY <3>1, <3>2, NotifyFacts DEF TypeOK
    <3>4. \A q : q # dest /\ IsMarked(q)' => IsMarked(q)
      BY <2>1, <3>2, MarkFacts DEF TypeOK
    <3>5. disk'[dest] # 0
      BY <2>1, <2>4, <2>7 DEF TypeOK
    <3>6. IsMarked(w) => Excused(w)'
      <4>1. CASE up = "watch"
        BY <3>1, <3>2, <4>1, LossIsReported DEF TypeOK
      <4>2. CASE up = "scan" /\ IsMarked(w)
        BY <2>1, <2>4, <2>7, <4>2 DEF Unseen, TypeOK, Excused
      <4> QED
        BY <2>5, <4>1, <4>2 DEF TypeOK
    <3> QED
      BY <2>1, <2>6, <3>3, <3>4, <3>5, <3>6, ExcusedStays DEF Gone
  <2>8. CASE disk[w] = 0
    <3>1. Notify(removed) /\ marked' = marked
      BY <2>4, <2>8
    <3>2. EventsKept
      BY <2>2, <3>1, NotifyFacts DEF TypeOK
    <3>3. IsMarked(dest) => Excused(dest)'
      <4>1. CASE up = "watch" /\ disk[dest] # 0
        BY <2>2, <3>1, <4>1, LossIsReported DEF TypeOK
      <4>2. CASE up = "watch" /\ disk[dest] = 0
        <5>1. skip'[dest] = skip[dest]
          BY <2>1, <2>4, <2>8, <4>2 DEF Unseen, TypeOK
        <5> QED
          BY <2>1, <3>2, <4>2, <5>1, ExcusedStays DEF Gone
      <4>3. CASE up = "scan" /\ IsMarked(dest)
        BY <2>1, <2>4, <2>8, <4>3 DEF Unseen, TypeOK, Excused
      <4> QED
        BY <2>5, <4>1, <4>2, <4>3 DEF TypeOK
    <3>4. IsMarked(w) => Excused(w)'
      <4>1. skip'[w] = skip[w]
        BY <2>1, <2>4, <2>8 DEF TypeOK
      <4> QED
        BY <2>1, <2>8, <3>2, <4>1, ExcusedStays DEF Gone
    <3> QED
      BY <2>1, <2>6, <3>1, <3>2, <3>3, <3>4, ExcusedStays DEF Gone, IsMarked
  <2> QED
    BY <2>7, <2>8
<1>17. ASSUME GateEtc PROVE Gone'
  BY GoneStays, <1>17 DEF GateEtc, osVars, dbVars, obsVars, workVars, restoreVars, boundVars
<1>18. ASSUME GateParsed PROVE Gone'
  <2>1. /\ UNCHANGED <<disk, marked, events>>
        /\ \A p \in Paths : disk[p] = 0 => skip'[p] = skip[p]
    BY <1>18 DEF GateParsed, PassOver, Stale, TypeOK, osVars, obsVars
  <2> QED
    BY <2>1, GoneStays
<1>19. ASSUME Parse PROVE Gone'
  BY GoneStays, <1>19 DEF Parse, osVars, dbVars, obsVars, workVars, restoreVars, boundVars
<1>20. ASSUME ParseFails PROVE Gone'
  <2>1. /\ UNCHANGED <<disk, marked, events>>
        /\ \A p \in Paths : disk[p] = 0 => skip'[p] = skip[p]
    BY <1>20 DEF ParseFails, PassOver, Stale, TypeOK, osVars, obsVars
  <2> QED
    BY <2>1, GoneStays
<1>21. ASSUME CadKnown PROVE Gone'
  <2>1. /\ UNCHANGED <<disk, marked, events>>
        /\ \A p \in Paths : disk[p] = 0 => skip'[p] = skip[p]
    BY <1>21 DEF CadKnown, PassOver, Stale, TypeOK, osVars, obsVars
  <2> QED
    BY <2>1, GoneStays
<1>22. ASSUME Archive PROVE Gone'
  <2>1. /\ UNCHANGED <<disk, marked, events>>
        /\ \A p \in Paths : disk[p] = 0 => skip'[p] = skip[p]
    BY <1>22 DEF Archive, PassOver, Stale, TypeOK, osVars, obsVars
  <2> QED
    BY <2>1, GoneStays
<1>23. ASSUME Commit PROVE Gone'
  <2>1. /\ UNCHANGED <<disk, marked, events>>
        /\ \A p \in Paths : disk[p] = 0 => skip'[p] = skip[p]
    BY <1>23 DEF Commit, PassOver, Stale, TypeOK, osVars, obsVars
  <2> QED
    BY <2>1, GoneStays
<1>24. ASSUME CommitFails PROVE Gone'
  <2>1. /\ UNCHANGED <<disk, marked, events>>
        /\ \A p \in Paths : disk[p] = 0 => skip'[p] = skip[p]
    BY <1>24 DEF CommitFails, PassOver, Stale, TypeOK, osVars, obsVars
  <2> QED
    BY <2>1, GoneStays
<1>25. ASSUME RestoreBatch PROVE Gone'
  BY GoneStays, <1>25 DEF RestoreBatch, osVars, dbVars, obsVars, workVars, restoreVars, boundVars
<1>26. ASSUME RestoreBatchEnd PROVE Gone'
  BY GoneStays, <1>26 DEF RestoreBatchEnd, osVars, dbVars, obsVars, workVars, restoreVars, boundVars
<1>27. ASSUME RestoreCopied PROVE Gone'
  BY GoneStays, <1>27 DEF RestoreCopied, osVars, dbVars, obsVars, workVars, restoreVars, boundVars
<1>28. ASSUME RestoreMarked PROVE Gone'
  BY GoneStays, <1>28 DEF RestoreMarked, osVars, dbVars, obsVars, workVars, restoreVars, boundVars
<1>29. ASSUME NEW j \in Jobs, RestoreCheck(j) PROVE Gone'
  BY GoneStays, <1>29 DEF RestoreCheck, osVars, dbVars, obsVars, workVars, restoreVars, boundVars
<1>30. ASSUME NEW p \in Paths, RestoreCopy(p) PROVE Gone'
  <2>1. CASE MayCopy(p)
    <3> DEFINE new == <<Event("created", p), Event("modified", p)>>
    <3>1. new \in Seq(EventSet) /\ Len(new) = 2 /\ new[2] = Event("modified", p)
      BY EventTypes
    <3>2. Notify(new) /\ marked' = marked /\ up = "watch"
      BY <1>30, <2>1 DEF RestoreCopy, Quiet, TypeOK
    <3> HIDE DEF new
    <3>3. EventsKept
      BY <3>1, <3>2, NotifyFacts DEF TypeOK
    <3>4. Excused(p)'
      <4>1. Len(events) + 2 \in 1 .. Len(events') /\ events'[Len(events) + 2] = new[2]
        <5>1. 2 \in 1 .. Len(new)
          BY <3>1
        <5> QED
          BY <3>1, <3>2, <5>1, NotifyFacts DEF TypeOK
      <4>2. new[2].path = p /\ new[2].kind # "created"
        BY <3>1 DEF Event
      <4> QED
        BY <4>1, <4>2 DEF Excused
    <3>5. \A q \in Paths : q # p => disk'[q] = disk[q] /\ skip'[q] = skip[q]
      BY <1>30, <2>1 DEF RestoreCopy, TypeOK
    <3> QED
      BY <3>2, <3>3, <3>4, <3>5, ExcusedStays DEF Gone, IsMarked
  <2>2. CASE ~MayCopy(p)
    BY <1>30, <2>2, GoneStays DEF RestoreCopy
  <2> QED
    BY <2>1, <2>2
<1>31. ASSUME NEW p \in Paths, RestoreMark(p) PROVE Gone'
  <2>1. /\ marked' = MarkedAfter(p) /\ UNCHANGED <<disk, events>>
        /\ \A q \in Paths : q # p => skip'[q] = skip[q]
    BY <1>31 DEF RestoreMark, TypeOK, osVars
  <2>2. \A q : q # p /\ IsMarked(q)' => IsMarked(q)
    BY <2>1, MarkFacts DEF TypeOK
  <2>3. EventsKept
    BY <2>1 DEF EventsKept
  <2>4. disk[p] = 0 => Excused(p)'
    <3>1. CASE DeletionAhead(p)
      BY <2>1, <3>1 DEF DeletionAhead, Event, Excused
    <3>2. CASE disk[p] = 0 /\ ~DeletionAhead(p)
      BY <1>31, <3>2 DEF RestoreMark, TypeOK, Excused
    <3> QED
      BY <3>1, <3>2
  <2> QED
    BY <2>1, <2>2, <2>3, <2>4, ExcusedStays DEF Gone
<1>32. ASSUME UNCHANGED vars PROVE Gone'
  BY GoneStays, <1>32 DEF vars, osVars, dbVars, obsVars, workVars, restoreVars, boundVars
<1> QED
  BY <1>1, <1>2, <1>3, <1>4, <1>5, <1>6, <1>7, <1>8, <1>9, <1>10, <1>11, <1>12, <1>13, <1>14, <1>15, <1>16,
     <1>17, <1>18, <1>19, <1>20, <1>21, <1>22, <1>23, <1>24, <1>25, <1>26, <1>27, <1>28, <1>29, <1>30, <1>31, <1>32
  DEF Next, Environment, Collect, Startup, Observer, Worker, DeleteWorker

(* What is at one path does not concern another.                            *)
LEMMA StaysSafe ==
    ASSUME InDoubt, events \in Seq(EventSet), EventsKept, QueueKept, UNCHANGED <<toScan, up>>,
           NEW q \in Paths, IsMarked(q)' => IsMarked(q), skip'[q] = skip[q],
           Doubt(q)' => Doubt(q), Doubt(q)' /\ InHand(q) => InHand(q)'
    PROVE  Safe(q)'
  BY WatchedStays DEF InDoubt, Safe

(* A step of the worker or of a person at one path leaves the other paths as
   safe as they were. *)
LEMMA OthersStay ==
    ASSUME TypeOK, InDoubt, EventsKept, NEW q \in Paths,
           UNCHANGED <<marked, fileQ, toScan, up, vault, rows, wpc, wpath, wver>>,
           disk'[q] = disk[q], skip'[q] = skip[q]
    PROVE  Safe(q)'
<1>1. QueueKept /\ (IsMarked(q)' => IsMarked(q))
  BY DEF QueueKept, IsMarked
<1>2. (Doubt(q)' => Doubt(q)) /\ (InHand(q) => InHand(q)')
  BY DEF Doubt, Stale, InHand
<1> QED
  BY <1>1, <1>2, StaysSafe DEF TypeOK

(* A step that touches neither files, rows, copies, events, marks nor the
   hand of the worker keeps InDoubt. *)
LEMMA NothingSeen ==
    ASSUME InDoubt, UNCHANGED <<disk, vault, rows, wpc, wpath, wver, events, marked, fileQ, toScan, up, skip>>
    PROVE  InDoubt'
  BY DEF InDoubt, Safe, Doubt, Stale, InHand, Watched, Reported, Queued, IsMarked, Event

(* A path that the worker gives up is passed over for a reason.             *)
LEMMA PassedOver ==
    ASSUME TypeOK, InDoubt, UNCHANGED <<disk, vault, rows, toScan, up, marked, events, fileQ>>,
           wpc' = "idle", NEW reason \in Reasons \ {"no"}, PassOver(wpath, reason)
    PROVE  InDoubt'
<1>1. EventsKept /\ QueueKept /\ \A q : IsMarked(q)' => IsMarked(q)
  BY DEF EventsKept, QueueKept, IsMarked
<1>2. \A q \in Paths : (Doubt(q)' => Stale(q)) /\ (Stale(q) => Doubt(q))
  BY DEF Doubt, Stale
<1>3. ASSUME NEW q \in Paths, q = wpath PROVE Safe(q)'
  BY <1>2, <1>3 DEF PassOver, Safe, TypeOK
<1>4. ASSUME NEW q \in Paths, q # wpath PROVE Safe(q)'
  <2>1. skip'[q] = skip[q] /\ ~InHand(q)
    BY <1>4 DEF PassOver, TypeOK, InHand
  <2> QED
    BY <1>1, <1>2, <2>1, StaysSafe DEF TypeOK
<1> QED
  BY <1>3, <1>4 DEF InDoubt

(* Outside the top of the Job folder a file has one place.                  *)
LEMMA OnePlace ==
    ASSUME NEW p \in Paths, NEW q \in Paths, p # q, p[2] # "root", q[2] # "root"
    PROVE  p[1] # q[1]
<1>1. \A x \in Paths : x[2] # "root" =>
          \/ x[1] \in JobFiles \cup EtcFiles /\ x = <<x[1], "sub">>
          \/ x[1] \in CadFiles /\ x = <<x[1], "cad">>
  BY DEF Paths
<1> QED
  BY <1>1, FilesAssumption

(* What happens to the event at the head.                                   *)
LEMMA ReportedTail ==
    ASSUME events \in Seq(EventSet), events # <<>>, events' = Tail(events),
           NEW p, IsMarked(p)' => IsMarked(p), Reported(p),
           \/ Head(events).path # p
           \/ Head(events).kind = "created"
           \/ Head(events).kind = "deleted" /\ ~IsMarked(p)'
    PROVE  \/ Reported(p)'
           \/ Head(events).path = p /\ Head(events).kind = "created" /\ ~IsMarked(p)
<1>1. PICK i \in 1 .. Len(events) :
        /\ events[i].path = p
        /\ \/ events[i].kind = "modified"
           \/ events[i].kind = "created"
                 /\ (~IsMarked(p) \/ \E k \in 1 .. i - 1 : events[k] = Event("deleted", p))
  BY DEF Reported
<1>2. /\ Head(events) = events[1] /\ Len(events) \in Nat
      /\ \A k \in 1 .. Len(events) : k # 1 => k - 1 \in 1 .. Len(events') /\ events'[k - 1] = events[k]
  BY HeadTailProperties
<1>3. CASE i = 1
  BY <1>1, <1>2, <1>3
<1>4. CASE i # 1
  <2>1. i - 1 \in 1 .. Len(events') /\ events'[i - 1] = events[i]
    BY <1>2, <1>4
  <2>2. CASE events[i].kind = "modified" \/ ~IsMarked(p)'
    BY <1>1, <2>1, <2>2 DEF Reported
  <2>3. CASE events[i].kind = "created" /\ IsMarked(p)'
    <3>1. PICK k \in 1 .. i - 1 : events[k] = Event("deleted", p)
      BY <1>1, <2>3
    <3>2. k # 1
      <4>1. events[k].path = p /\ events[k].kind = "deleted"
        BY <3>1 DEF Event
      <4> QED
        BY <1>2, <2>3, <4>1
    <3>3. k \in 1 .. Len(events) /\ k - 1 \in 1 .. (i - 1) - 1
      BY <1>2, <3>2
    <3>4. events'[k - 1] = Event("deleted", p)'
      BY <1>2, <3>1, <3>2, <3>3 DEF Event
    <3> QED
      BY <1>1, <2>1, <2>3, <3>3, <3>4 DEF Reported
  <2> QED
    BY <1>1, <2>2, <2>3
<1> QED
  BY <1>3, <1>4

(* Every step keeps it: content that is not settled is in hand, on its way,
   or recorded as passed over. *)
LEMMA InDoubtNext ==
    ASSUME TypeOK, WorkerInv, Quiet, Placed, Still, MarkedOnce, Gone, InDoubt, [Next]_vars
    PROVE  InDoubt'
<1>1. ASSUME NEW p \in Paths, Write(p) PROVE InDoubt'
  <2> DEFINE one == <<Event(WriteKind(p), p)>>
             two == <<Event("created", p), Event("modified", p)>>
  <2>1. one \in Seq(EventSet) /\ two \in Seq(EventSet) /\ WriteKind(p) \in {"created", "modified"}
    BY EventTypes DEF WriteKind
  <2>2. /\ 1 \in 1 .. Len(one) /\ one[1] = Event(WriteKind(p), p)
        /\ 2 \in 1 .. Len(two) /\ two[2] = Event("modified", p)
    OBVIOUS
  <2>3. /\ (Notify(one) \/ Notify(two))
        /\ UNCHANGED <<marked, fileQ, toScan, up, vault, rows, wpc, wpath, wver>>
        /\ skip' = [skip EXCEPT ![p] =
                      IF Unseen(p) THEN "gap" ELSE IF StillPassed(p) THEN @ ELSE "no"]
    BY <1>1 DEF Write, dbVars, workVars
  <2> HIDE DEF one, two
  <2>4. EventsKept
    BY <2>1, <2>3, NotifyFacts DEF TypeOK
  <2>5. \A q \in Paths : q # p => disk'[q] = disk[q] /\ skip'[q] = skip[q]
    BY <1>1 DEF Write, TypeOK
  <2>6. \A q \in Paths : q # p => Safe(q)'
    BY <2>3, <2>4, <2>5, OthersStay
  <2>7. ASSUME skip'[p] = "no" PROVE Watched(p)'
    <3>1. CASE up = "down"
      BY <2>3, <3>1 DEF Watched
    <3>2. CASE up = "scan"
      <4>1. p \in toScan /\ ~IsMarked(p)
        BY <2>3, <2>7, <3>2 DEF Unseen, TypeOK
      <4> QED
        BY <2>3, <4>1 DEF Watched, IsMarked
    <3>3. CASE up = "watch"
      <4>1. CASE Notify(two)
        BY <2>1, <2>2, <3>3, <4>1, ChangeIsReported DEF TypeOK, Watched
      <4>2. CASE Notify(one) /\ WriteKind(p) = "modified"
        BY <2>1, <2>2, <3>3, <4>2, ChangeIsReported DEF TypeOK, Watched
      <4>3. CASE Notify(one) /\ WriteKind(p) = "created"
        <5>1. disk[p] = 0
          BY <4>3 DEF WriteKind
        <5>2. skip[p] \notin {"gap", "marked"}
          BY <2>3, <2>7, <5>1 DEF StillPassed, TypeOK
        <5>3. IsMarked(p) => \E k \in 1 .. Len(events) : events[k].path = p /\ events[k].kind # "created"
          BY <5>1, <5>2 DEF Gone, Excused
        <5>4. IsMarked(p)' => IsMarked(p)
          BY <2>3 DEF IsMarked
        <5> QED
          BY <2>1, <2>2, <3>3, <4>3, <5>3, <5>4, CreationIsReported DEF TypeOK, Watched
      <4> QED
        BY <2>1, <2>3, <4>1, <4>2, <4>3
    <3> QED
      BY <3>1, <3>2, <3>3 DEF TypeOK
  <2> QED
    BY <2>6, <2>7 DEF InDoubt, Safe
<1>2. ASSUME NEW p \in Paths, DeleteFile(p) PROVE InDoubt'
  <2>1. /\ <<Event("deleted", p)>> \in Seq(EventSet) /\ Notify(<<Event("deleted", p)>>)
        /\ UNCHANGED <<marked, fileQ, toScan, up, vault, rows, wpc, wpath, wver>>
    BY <1>2, EventTypes DEF DeleteFile, dbVars, workVars
  <2>2. EventsKept
    BY <2>1, NotifyFacts DEF TypeOK
  <2>3. /\ \A q \in Paths : q # p => disk'[q] = disk[q] /\ skip'[q] = skip[q]
        /\ disk'[p] = 0
    BY <1>2 DEF DeleteFile, TypeOK
  <2>4. \A q \in Paths : q # p => Safe(q)'
    BY <2>1, <2>2, <2>3, OthersStay
  <2> QED
    BY <2>3, <2>4 DEF InDoubt, Safe, Doubt, Stale
<1>3. ASSUME NEW j \in Jobs, DeleteFolder(j) PROVE InDoubt'
  <2> DEFINE S == OnDisk(JobPaths(j))
             gone == SetToSeq(S)
             new == [i \in 1 .. Len(gone) |-> Event("deleted", gone[i])]
                       \o <<Event("deleted", <<j, "dir">>)>>
  <2>1. /\ gone \in Seq(Paths) /\ \A q \in S : \E i \in 1 .. Len(gone) : gone[i] = q
    <3>1. S \subseteq Paths /\ IsFiniteSet(S)
      BY PathsFinite, FS_Subset DEF OnDisk, JobPaths
    <3> QED
      BY <3>1, SetToSeqType, SetToSeqCovers, ElementOfSeq, SeqDef
  <2>2. /\ Notify(new)
        /\ UNCHANGED <<marked, fileQ, toScan, up, vault, rows, wpc, wpath, wver>>
    BY <1>3 DEF DeleteFolder, dbVars, workVars
  <2>3. \A q \in Paths \ S : disk'[q] = disk[q] /\ skip'[q] = skip[q]
    BY <1>3 DEF DeleteFolder, TypeOK, OnDisk, JobPaths
  <2>4. \A q \in S : q \in Paths /\ disk'[q] = 0
    BY <1>3 DEF DeleteFolder, TypeOK, OnDisk, JobPaths
  <2> HIDE DEF gone, S
  <2>5. /\ new \in Seq(EventSet)
        /\ \A i \in 1 .. Len(gone) : i \in 1 .. Len(new) /\ new[i] = Event("deleted", gone[i])
    <3> DEFINE files == [i \in 1 .. Len(gone) |-> Event("deleted", gone[i])]
               last == <<Event("deleted", <<j, "dir">>)>>
    <3>1. Len(gone) \in Nat /\ \A i \in 1 .. Len(gone) : gone[i] \in Paths
      BY <2>1
    <3>2. /\ files \in Seq(EventSet) /\ Len(files) = Len(gone)
          /\ \A i \in 1 .. Len(gone) : files[i] = Event("deleted", gone[i])
      BY <3>1, EventTypes, SeqDef
    <3>3. last \in Seq(EventSet) /\ Len(last) = 1
      BY EventTypes
    <3> HIDE DEF files, last
    <3>4. /\ files \o last \in Seq(EventSet) /\ Len(files \o last) = Len(gone) + 1
          /\ \A i \in 1 .. Len(gone) : (files \o last)[i] = files[i]
      <4>1. /\ files \o last \in Seq(EventSet) /\ Len(files \o last) = Len(files) + Len(last)
            /\ \A i \in 1 .. Len(files) + Len(last) :
                 (files \o last)[i] = IF i <= Len(files) THEN files[i] ELSE last[i - Len(files)]
        BY <3>2, <3>3, ConcatProperties
      <4>2. \A i \in 1 .. Len(gone) : i \in 1 .. Len(files) + Len(last) /\ i <= Len(files)
        BY <3>1, <3>2, <3>3
      <4> QED
        BY <3>1, <3>2, <3>3, <4>1, <4>2
    <3>5. new = files \o last
      BY DEF files, last
    <3> HIDE DEF new
    <3> QED
      BY <3>1, <3>2, <3>4, <3>5
  <2> HIDE DEF new
  <2>6. EventsKept
    BY <2>2, <2>5, NotifyFacts DEF TypeOK
  <2>7. \A q \in Paths \ S : Safe(q)'
    BY <2>2, <2>3, <2>6, OthersStay
  <2> QED
    BY <2>4, <2>7 DEF InDoubt, Safe, Doubt, Stale
<1>4. ASSUME TogglePause PROVE InDoubt'
  BY <1>4, NothingSeen DEF TogglePause, osVars, dbVars, obsVars, workVars, restoreVars, boundVars
<1>5. ASSUME ToggleParsers PROVE InDoubt'
  BY <1>5, NothingSeen DEF ToggleParsers, osVars, dbVars, obsVars, workVars, restoreVars, boundVars
<1>6. ASSUME Crash PROVE InDoubt'
  BY <1>6 DEF Crash, InDoubt, Safe, Watched
<1>7. ASSUME StartPipeline PROVE InDoubt'
  <2>1. toScan' = Paths /\ marked' = <<>>
    BY <1>7 DEF StartPipeline, Walked, Still, obsVars
  <2> QED
    BY <2>1 DEF InDoubt, Safe, Watched, IsMarked
<1>8. ASSUME NEW p \in Paths, ScanPath(p) PROVE InDoubt'
  <2>1. /\ UNCHANGED <<disk, vault, rows, wpc, wpath, wver, events, marked, up, skip>>
        /\ toScan' = toScan \ {p} /\ up = "scan"
        /\ disk[p] = 0 => fileQ' = fileQ
        /\ disk[p] # 0 => fileQ' = Append(fileQ, p)
    BY <1>8 DEF ScanPath, osVars, dbVars, workVars
  <2>2. /\ QueueKept
        /\ disk[p] # 0 => \E i \in 1 .. Len(fileQ') : fileQ'[i] = p
    BY <2>1, AppendKeeps DEF TypeOK, QueueKept
  <2>3. \A q : IsMarked(q)' <=> IsMarked(q)
    BY <2>1 DEF IsMarked
  <2>4. EventsKept
    BY <2>1 DEF EventsKept
  <2>5. ASSUME NEW q \in Paths, Doubt(q), skip[q] = "no" PROVE InHand(q)' \/ Watched(q)'
    <3>1. disk[q] # 0
      BY <2>5 DEF Doubt, Stale
    <3>2. InHand(q) => InHand(q)'
      BY <2>1 DEF InHand
    <3>3. Reported(q) => Reported(q)'
      BY <2>3, <2>4, ReportedStays DEF TypeOK
    <3>4. Queued(q) => Queued(q)'
      BY <2>2, <2>3, QueuedStays
    <3>5. q \in toScan /\ ~IsMarked(q) => Watched(q)'
      <4>1. CASE q = p
        BY <2>2, <2>3, <3>1, <4>1 DEF Watched, Queued
      <4>2. CASE q # p
        BY <2>1, <2>3, <4>2 DEF Watched
      <4> QED
        BY <4>1, <4>2
    <3>6. InHand(q) \/ Reported(q) \/ Queued(q) \/ (q \in toScan /\ ~IsMarked(q))
      BY <2>1, <2>5 DEF InDoubt, Safe, Watched
    <3> QED
      BY <3>2, <3>3, <3>4, <3>5, <3>6 DEF Watched
  <2>6. \A q \in Paths : Doubt(q)' => Doubt(q)
    BY <2>1 DEF Doubt, Stale
  <2> QED
    BY <2>1, <2>5, <2>6 DEF InDoubt, Safe
<1>9. ASSUME StartObserver PROVE InDoubt'
  <2>1. /\ UNCHANGED <<disk, vault, rows, wpc, wpath, wver, events, marked, fileQ, toScan, skip>>
        /\ up = "scan"
    BY <1>9 DEF StartObserver, osVars, dbVars, workVars, obsVars
  <2> QED
    BY <2>1 DEF InDoubt, Safe, Doubt, Stale, InHand, Watched, Reported, Queued, IsMarked, Event
<1>10. ASSUME OnCreated PROVE InDoubt'
  <2>1. PICK h : h = Head(events).path
    OBVIOUS
  <2>2. /\ UNCHANGED <<disk, vault, rows, wpc, wpath, wver, toScan, up, skip>>
        /\ events # <<>> /\ events' = Tail(events) /\ Head(events).kind = "created"
        /\ UNCHANGED marked
    BY <1>10, <2>1 DEF OnCreated, NextEvent, osVars, dbVars, workVars
  <2>3. QueueKept /\ \E i \in 1 .. Len(fileQ') : fileQ'[i] = h
    <3>1. h \in Paths
      BY <2>1, <2>2, HeadTailProperties DEF TypeOK, EventSet
    <3>2. fileQ' = Append(fileQ, h)
      BY <1>10, <2>1 DEF OnCreated
    <3> QED
      BY <3>1, <3>2, AppendKeeps DEF TypeOK
  <2>4. \A q : IsMarked(q)' <=> IsMarked(q)
    BY <2>2 DEF IsMarked
  <2>5. ASSUME NEW q \in Paths, Watched(q) PROVE Watched(q)'
    <3>1. Reported(q) => Reported(q)' \/ (q = h /\ ~IsMarked(q))
      BY <2>1, <2>2, <2>4, ReportedTail DEF TypeOK
    <3>2. q = h /\ ~IsMarked(q) => Queued(q)'
      BY <2>3, <2>4 DEF Queued
    <3>3. Queued(q) => Queued(q)'
      BY <2>3, <2>4, QueuedStays
    <3>4. (up = "down" => up' = "down") /\ (q \in toScan /\ ~IsMarked(q) => q \in toScan' /\ ~IsMarked(q)')
      BY <2>2, <2>4
    <3> QED
      BY <2>5, <3>1, <3>2, <3>3, <3>4 DEF Watched
  <2>6. \A q \in Paths : (Doubt(q)' => Doubt(q)) /\ (InHand(q) => InHand(q)')
    BY <2>2 DEF Doubt, Stale, InHand
  <2> QED
    BY <2>2, <2>5, <2>6 DEF InDoubt, Safe
<1>11. ASSUME OnModified PROVE InDoubt'
  <2>1. PICK h : h = Head(events).path
    OBVIOUS
  <2>2. /\ UNCHANGED <<disk, vault, rows, wpc, wpath, wver, toScan, up, skip>>
        /\ events # <<>> /\ events' = Tail(events) /\ Head(events).kind = "modified"
        /\ marked' = UnmarkedAfter(h)
    BY <1>11, <2>1 DEF OnModified, NextEvent, osVars, dbVars, workVars
  <2>3. QueueKept /\ \E i \in 1 .. Len(fileQ') : fileQ'[i] = h
    <3>1. h \in Paths
      BY <2>1, <2>2, HeadTailProperties DEF TypeOK, EventSet
    <3>2. fileQ' = Append(fileQ, h)
      BY <1>11, <2>1 DEF OnModified
    <3> QED
      BY <3>1, <3>2, AppendKeeps DEF TypeOK
  <2>4. ~IsMarked(h)' /\ \A q : IsMarked(q)' => IsMarked(q)
    BY <2>2, UnmarkFacts DEF TypeOK
  <2>5. ASSUME NEW q \in Paths, Watched(q) PROVE Watched(q)'
    <3>1. q # h /\ Reported(q) => Reported(q)'
      BY <2>1, <2>2, <2>4, ReportedTail DEF TypeOK
    <3>2. q = h => Queued(q)'
      BY <2>3, <2>4 DEF Queued
    <3>3. Queued(q) => Queued(q)'
      BY <2>3, <2>4, QueuedStays
    <3>4. (up = "down" => up' = "down") /\ (q \in toScan /\ ~IsMarked(q) => q \in toScan' /\ ~IsMarked(q)')
      BY <2>2, <2>4
    <3> QED
      BY <2>5, <3>1, <3>2, <3>3, <3>4 DEF Watched
  <2>6. \A q \in Paths : (Doubt(q)' => Doubt(q)) /\ (InHand(q) => InHand(q)')
    BY <2>2 DEF Doubt, Stale, InHand
  <2> QED
    BY <2>2, <2>5, <2>6 DEF InDoubt, Safe
<1>12. ASSUME OnDeleted PROVE InDoubt'
  <2>1. PICK h : h = Head(events).path
    OBVIOUS
  <2>2. /\ UNCHANGED <<disk, vault, rows, wpc, wpath, wver, toScan, up, skip>>
        /\ events # <<>> /\ events' = Tail(events) /\ Head(events).kind = "deleted"
        /\ marked' = UnmarkedAfter(h)
    BY <1>12, <2>1 DEF OnDeleted, NextEvent, osVars, dbVars, workVars
  <2>3. QueueKept
    BY <1>12 DEF OnDeleted, QueueKept
  <2>4. ~IsMarked(h)' /\ \A q : IsMarked(q)' => IsMarked(q)
    BY <2>2, UnmarkFacts DEF TypeOK
  <2>5. ASSUME NEW q \in Paths, Watched(q) PROVE Watched(q)'
    <3>1. Reported(q) => Reported(q)'
      BY <2>1, <2>2, <2>4, ReportedTail DEF TypeOK
    <3>3. Queued(q) => Queued(q)'
      BY <2>3, <2>4, QueuedStays
    <3>4. (up = "down" => up' = "down") /\ (q \in toScan /\ ~IsMarked(q) => q \in toScan' /\ ~IsMarked(q)')
      BY <2>2, <2>4
    <3> QED
      BY <2>5, <3>1, <3>3, <3>4 DEF Watched
  <2>6. \A q \in Paths : (Doubt(q)' => Doubt(q)) /\ (InHand(q) => InHand(q)')
    BY <2>2 DEF Doubt, Stale, InHand
  <2> QED
    BY <2>2, <2>5, <2>6 DEF InDoubt, Safe
<1>13. ASSUME Take PROVE InDoubt'
  <2>1. PICK h : h = Head(fileQ)
    OBVIOUS
  <2>2. /\ UNCHANGED <<disk, vault, rows, toScan, up, marked, events, skip>>
        /\ wpc = "idle" /\ fileQ # <<>> /\ fileQ' = Tail(fileQ)
        /\ IF Wanted(h) THEN wpc' = "ready" /\ wpath' = h /\ wver' = 0
                        ELSE UNCHANGED <<wpc, wpath, wver>>
    BY <1>13, <2>1 DEF Take, workVars, osVars, dbVars
  <2>3. \A q : IsMarked(q)' <=> IsMarked(q)
    BY <2>2 DEF IsMarked
  <2>4. EventsKept
    BY <2>2 DEF EventsKept
  <2>5. ASSUME NEW q \in Paths, Doubt(q), skip[q] = "no" PROVE InHand(q)' \/ Watched(q)'
    <3>1. disk[q] # 0 /\ ~InHand(q)
      BY <2>2, <2>5 DEF Doubt, Stale, InHand
    <3>2. Watched(q)
      BY <2>5, <3>1 DEF InDoubt, Safe
    <3>3. CASE q = h /\ Wanted(h)
      BY <2>2, <3>3 DEF InHand
    <3>4. CASE q = h /\ ~Wanted(h)
      <4>1. IsMarked(q)
        BY <3>1, <3>4 DEF Wanted
      <4>2. up = "down" \/ Reported(q)
        BY <3>2, <4>1 DEF Watched, Queued
      <4> QED
        BY <2>2, <2>3, <2>4, <4>2, ReportedStays DEF TypeOK, Watched
    <3>5. CASE q # h
      <4>1. Queued(q) => Queued(q)'
        <5> SUFFICES ASSUME Queued(q) PROVE Queued(q)'
          OBVIOUS
        <5>1. PICK i \in 1 .. Len(fileQ) : fileQ[i] = q
          BY DEF Queued
        <5>2. fileQ[1] = h /\ Len(fileQ) \in Nat
          BY <2>1, <2>2 DEF TypeOK
        <5>3. i # 1
          BY <3>5, <5>1, <5>2
        <5>4. i - 1 \in 1 .. Len(fileQ') /\ fileQ'[i - 1] = fileQ[i]
          BY <2>2, <5>2, <5>3, HeadTailProperties DEF TypeOK
        <5> QED
          BY <2>3, <5>1, <5>4 DEF Queued
      <4>2. Reported(q) => Reported(q)'
        BY <2>3, <2>4, ReportedStays DEF TypeOK
      <4> QED
        BY <2>2, <2>3, <3>2, <4>1, <4>2 DEF Watched
    <3> QED
      BY <3>3, <3>4, <3>5
  <2>6. \A q \in Paths : Doubt(q)' => Doubt(q)
    BY <2>2 DEF Doubt, Stale
  <2> QED
    BY <2>2, <2>5, <2>6 DEF InDoubt, Safe
<1>14. ASSUME NotReady PROVE InDoubt'
  <2>1. /\ UNCHANGED <<disk, vault, rows, toScan, up, marked, events, fileQ>>
        /\ wpc' = "idle" /\ \E reason \in Reasons \ {"no"} : PassOver(wpath, reason)
    BY <1>14 DEF NotReady, WorkerDone, Reasons, osVars, dbVars, obsVars, workVars, restoreVars, boundVars
  <2> QED
    BY <2>1, PassedOver
<1>15. ASSUME MarkReady PROVE InDoubt'
  <2>1. PICK w \in Paths : w = wpath
    BY <1>15 DEF MarkReady, WorkerInv
  <2>2. /\ UNCHANGED <<disk, vault, rows, toScan, up, events, fileQ, wpath, wver, skip>>
        /\ wpc = "ready" /\ wpc' \in {"place", "gate"} /\ marked' = MarkedAfter(w)
    BY <1>15, <2>1 DEF MarkReady, osVars, dbVars, obsVars, workVars, restoreVars, boundVars
  <2>3. \A q : q # w /\ IsMarked(q)' => IsMarked(q)
    BY <2>2, MarkFacts DEF TypeOK
  <2>4. EventsKept /\ QueueKept
    BY <2>2 DEF EventsKept, QueueKept
  <2>5. Safe(w)'
    BY <2>1, <2>2 DEF Safe, InHand
  <2>6. ASSUME NEW q \in Paths, q # w PROVE Safe(q)'
    <3>1. (Doubt(q)' => Doubt(q)) /\ ~InHand(q)
      BY <2>1, <2>2, <2>6 DEF Doubt, Stale, InHand
    <3> QED
      BY <2>2, <2>3, <2>4, <2>6, <3>1, StaysSafe DEF TypeOK
  <2> QED
    BY <2>5, <2>6 DEF InDoubt
<1>16. ASSUME Relocate PROVE InDoubt'
  <2>0. PICK w, dest : w = wpath /\ dest = Sub(wpath)
    OBVIOUS
  <2> DEFINE removed == IF disk[dest] # 0 THEN <<Event("deleted", dest)>> ELSE <<>>
             moved == <<Event("deleted", w), Event("created", dest)>>
  <2>1. w \in Paths /\ dest \in Paths /\ dest # w
    BY <1>16, <2>0, PathFacts DEF Relocate, WorkerInv, Sub
  <2>2. /\ removed \in Seq(EventSet) /\ Len(removed) \in {0, 1}
        /\ disk[dest] # 0 => 1 \in 1 .. Len(removed) /\ removed[1] = Event("deleted", dest)
    BY <2>1, EventTypes
  <2>3. /\ moved \in Seq(EventSet) /\ Len(moved) = 2 /\ moved[1] = Event("deleted", w)
    BY <2>1, EventTypes
  <2>4. /\ disk' = [disk EXCEPT ![dest] = disk[w], ![w] = 0]
        /\ skip' = [skip EXCEPT
                 ![dest] = IF disk[w] # 0 THEN "no" ELSE IF Unseen(dest) THEN "gap" ELSE @,
                 ![w] = IF disk[w] = 0 THEN @ ELSE IF Unseen(w) THEN "gap" ELSE "no"]
        /\ disk[w] # 0 => Notify(removed \o moved) /\ marked' = MarkedAfter(dest)
        /\ disk[w] = 0 => Notify(removed) /\ UNCHANGED marked
    BY <1>16, <2>0 DEF Relocate, MarkMoved
  <2>5. up # "down"
    BY <1>16 DEF Relocate, Still
  <2> HIDE DEF removed, moved
  <2>6. \A q \in Paths : q # dest /\ q # w => disk'[q] = disk[q] /\ skip'[q] = skip[q]
    BY <2>1, <2>4 DEF TypeOK
  <2>9. /\ UNCHANGED <<vault, rows, toScan, up, fileQ>> /\ wpc = "place"
        /\ disk[w] # 0 => wpc' = "gate" /\ wpath' = dest
        /\ disk[w] = 0 => wpc' = "idle"
    BY <1>16, <2>0 DEF Relocate, WorkerDone, osVars, dbVars, obsVars, workVars, restoreVars, boundVars
  <2>10. disk'[w] = 0 /\ disk'[dest] = disk[w]
    BY <2>1, <2>4 DEF TypeOK
  <2>11. EventsKept /\ QueueKept
    <3>1. removed \o moved \in Seq(EventSet)
      BY <2>2, <2>3
    <3> QED
      BY <2>2, <2>4, <2>9, <3>1, NotifyFacts DEF TypeOK, QueueKept
  <2>12. \A q : q # dest /\ IsMarked(q)' => IsMarked(q)
    <3>1. marked' = MarkedAfter(dest) \/ marked' = marked
      BY <2>4
    <3> QED
      BY <2>1, <3>1, MarkFacts DEF TypeOK, IsMarked
  <2>13. ASSUME NEW q \in Paths, q # dest, q # w PROVE Safe(q)'
    <3>1. disk'[q] = disk[q] /\ skip'[q] = skip[q] /\ ~InHand(q)
      BY <2>0, <2>6, <2>13 DEF InHand
    <3>2. wpc' \notin {"archive", "commit"}
      BY <2>9
    <3>3. Doubt(q)' => Doubt(q)
      BY <2>9, <3>1, <3>2 DEF Doubt, Stale
    <3> QED
      BY <2>9, <2>11, <2>12, <2>13, <3>1, <3>3, StaysSafe DEF TypeOK
  <2>14. Safe(w)'
    BY <2>10 DEF Safe, Doubt, Stale
  <2>15. Safe(dest)'
    <3>1. CASE disk[w] # 0
      BY <2>9, <3>1 DEF Safe, InHand
    <3>2. CASE disk[w] = 0
      BY <2>10, <3>2 DEF Safe, Doubt, Stale
    <3> QED
      BY <3>1, <3>2
  <2> QED
    BY <2>13, <2>14, <2>15 DEF InDoubt
<1>17. ASSUME GateEtc PROVE InDoubt'
  <2>1. /\ UNCHANGED <<disk, vault, rows, toScan, up, marked, events, fileQ, wpath, wver, skip>>
        /\ wpc = "gate" /\ wpc' = "archive" /\ wpath[1] \in EtcFiles
    BY <1>17 DEF GateEtc, osVars, dbVars, obsVars, workVars, restoreVars, boundVars
  <2> QED
    BY <2>1 DEF InDoubt, Safe, Doubt, Stale, InHand, Watched, Reported, Queued, IsMarked, Event
<1>18. ASSUME GateParsed PROVE InDoubt'
  <2>1. UNCHANGED <<disk, vault, rows, toScan, up, marked, events, fileQ>>
    BY <1>18 DEF GateParsed, osVars, dbVars, obsVars, workVars, restoreVars, boundVars
  <2>2. CASE config.paused \/ ~config.enabled
    <3>1. wpc' = "idle" /\ \E reason \in Reasons \ {"no"} : PassOver(wpath, reason)
      BY <1>18, <2>2 DEF GateParsed, WorkerDone, Reasons
    <3> QED
      BY <2>1, <3>1, PassedOver
  <2>3. CASE ~ (config.paused \/ ~config.enabled)
    <3>1. wpc = "gate" /\ wpc' = "parse" /\ UNCHANGED <<wpath, wver, skip>>
      BY <1>18, <2>3 DEF GateParsed
    <3> QED
      BY <2>1, <3>1 DEF InDoubt, Safe, Doubt, Stale, InHand, Watched, Reported, Queued, IsMarked, Event
  <2> QED
    BY <2>2, <2>3
<1>19. ASSUME Parse PROVE InDoubt'
  <2>1. /\ UNCHANGED <<disk, vault, rows, toScan, up, marked, events, fileQ, wpath, skip>>
        /\ wpc = "parse" /\ wpc' = "archive" /\ wver' = disk[wpath]
    BY <1>19 DEF Parse, osVars, dbVars, obsVars, workVars, restoreVars, boundVars
  <2> QED
    BY <2>1 DEF InDoubt, Safe, Doubt, Stale, InHand, Watched, Reported, Queued, IsMarked, Event
<1>20. ASSUME ParseFails PROVE InDoubt'
  <2>1. /\ UNCHANGED <<disk, vault, rows, toScan, up, marked, events, fileQ>>
        /\ wpc' = "idle" /\ \E reason \in Reasons \ {"no"} : PassOver(wpath, reason)
    BY <1>20 DEF ParseFails, WorkerDone, Reasons, osVars, dbVars, obsVars, workVars, restoreVars, boundVars
  <2> QED
    BY <2>1, PassedOver
<1>21. ASSUME CadKnown PROVE InDoubt'
  <2>1. /\ UNCHANGED <<disk, vault, rows, toScan, up, marked, events, fileQ>>
        /\ wpc' = "idle" /\ \E reason \in Reasons \ {"no"} : PassOver(wpath, reason)
    BY <1>21 DEF CadKnown, WorkerDone, Reasons, osVars, dbVars, obsVars, workVars, restoreVars, boundVars
  <2> QED
    BY <2>1, PassedOver
<1>22. ASSUME Archive PROVE InDoubt'
  <2>1. PICK w \in Paths : w = wpath /\ w[2] # "root"
    BY <1>22 DEF Archive, WorkerInv, Placed
  <2>2. /\ UNCHANGED <<disk, rows, toScan, up, marked, events, fileQ>> /\ wpc = "archive"
        /\ vault' = [p \in Paths |-> IF p \in ArchivedWith(w) THEN disk[p] ELSE vault[p]]
        /\ w[1] \in EtcFiles => wpc' = "idle"
        /\ w[1] \notin EtcFiles => wpc' = "commit" /\ UNCHANGED <<wpath, wver, skip>>
        /\ \A q \in Paths : q # w => skip'[q] = skip[q]
    BY <1>22, <2>1 DEF Archive, WorkerDone, TypeOK, osVars, dbVars, obsVars, workVars, restoreVars, boundVars
  <2>3. EventsKept /\ QueueKept /\ \A q : IsMarked(q)' => IsMarked(q)
    BY <2>2 DEF EventsKept, QueueKept, IsMarked
  <2>4. \A q \in Paths : Stale(q)' => Stale(q)
    BY <2>2 DEF Stale, TypeOK
  <2>5. ASSUME NEW q \in Paths, q # w PROVE Safe(q)'
    <3>1. Doubt(q)' => Doubt(q)
      BY <2>1, <2>2, <2>4, <2>5 DEF Doubt
    <3>2. ~InHand(q)
      BY <2>1, <2>5 DEF InHand
    <3> QED
      BY <2>2, <2>3, <2>5, <3>1, <3>2, StaysSafe DEF TypeOK
  <2>6. disk[w] # 0 => vault'[w] = disk[w]
    BY <2>2 DEF ArchivedWith, OnDisk
  <2>7. CASE w[1] \in EtcFiles
    BY <2>1, <2>2, <2>5, <2>6, <2>7 DEF InDoubt, Safe, Doubt, Stale
  <2>8. CASE w[1] \notin EtcFiles
    <3>1. Doubt(w)' => Doubt(w)
      BY <2>1, <2>2, <2>4, <2>8 DEF Doubt
    <3>2. Doubt(w)' /\ InHand(w) => InHand(w)'
      BY <2>1, <2>2, <2>6, <2>8 DEF Doubt, Stale, InHand
    <3>3. Safe(w)'
      BY <2>2, <2>3, <2>8, <3>1, <3>2, StaysSafe DEF TypeOK
    <3> QED
      BY <2>5, <3>3 DEF InDoubt
  <2> QED
    BY <2>7, <2>8
<1>23. ASSUME Commit PROVE InDoubt'
  <2>1. PICK w \in Paths : w = wpath /\ w[2] # "root"
    BY <1>23 DEF Commit, WorkerInv, Placed
  <2>2. /\ UNCHANGED <<disk, vault, toScan, up, marked, events, fileQ>> /\ wpc = "commit" /\ wpc' = "idle"
        /\ rows' = [rows EXCEPT ![w[1]] = wver]
        /\ skip' = [skip EXCEPT ![w] =
                      IF disk[w] # 0 /\ wver = disk[w] /\ vault[w] = disk[w] THEN "no" ELSE @]
    BY <1>23, <2>1 DEF Commit, WorkerDone, osVars, dbVars, obsVars, workVars, restoreVars, boundVars
  <2>3. EventsKept /\ QueueKept /\ \A q : IsMarked(q)' => IsMarked(q)
    BY <2>2 DEF EventsKept, QueueKept, IsMarked
  <2>4. ASSUME NEW q \in Paths, q # w PROVE Safe(q)'
    <3>1. q[2] = "root" \/ q[1] # w[1]
      BY <2>1, <2>4, OnePlace
    <3>2. Stale(q)' => Stale(q)
      BY <2>2, <3>1, PathFacts DEF Stale, TypeOK
    <3>3. Doubt(q)' => Doubt(q)
      BY <2>2, <3>2 DEF Doubt
    <3>4. ~InHand(q) /\ skip'[q] = skip[q]
      BY <2>1, <2>2, <2>4 DEF InHand, TypeOK
    <3> QED
      BY <2>2, <2>3, <3>3, <3>4, StaysSafe DEF TypeOK
  <2>5. ASSUME Doubt(w)', skip'[w] = "no" PROVE Watched(w)'
    <3>1. Stale(w)' /\ w[1] \in Files
      BY <2>2, <2>5, PathFacts DEF Doubt
    <3>2. /\ disk[w] # 0
          /\ vault[w] # disk[w] \/ (w[1] \notin EtcFiles /\ wver # disk[w])
      BY <2>1, <2>2, <3>1 DEF Stale, TypeOK
    <3>3. Doubt(w) /\ ~InHand(w)
      BY <2>1, <2>2, <3>2 DEF Doubt, Stale, InHand
    <3>4. skip[w] = "no"
      BY <2>2, <2>5, <3>2 DEF TypeOK
    <3>5. Watched(w)
      BY <3>3, <3>4 DEF InDoubt, Safe
    <3> QED
      BY <2>2, <2>3, <3>5, WatchedStays DEF TypeOK
  <2> QED
    BY <2>4, <2>5 DEF InDoubt, Safe
<1>24. ASSUME CommitFails PROVE InDoubt'
  <2>1. /\ UNCHANGED <<disk, vault, rows, toScan, up, marked, events, fileQ>>
        /\ wpc' = "idle" /\ \E reason \in Reasons \ {"no"} : PassOver(wpath, reason)
    BY <1>24 DEF CommitFails, WorkerDone, Reasons, osVars, dbVars, obsVars, workVars, restoreVars, boundVars
  <2> QED
    BY <2>1, PassedOver
<1>25. ASSUME RestoreBatch PROVE InDoubt'
  BY <1>25, NothingSeen DEF RestoreBatch, osVars, dbVars, obsVars, workVars, restoreVars, boundVars
<1>26. ASSUME RestoreBatchEnd PROVE InDoubt'
  BY <1>26, NothingSeen DEF RestoreBatchEnd, osVars, dbVars, obsVars, workVars, restoreVars, boundVars
<1>27. ASSUME RestoreCopied PROVE InDoubt'
  BY <1>27, NothingSeen DEF RestoreCopied, osVars, dbVars, obsVars, workVars, restoreVars, boundVars
<1>28. ASSUME RestoreMarked PROVE InDoubt'
  BY <1>28, NothingSeen DEF RestoreMarked, osVars, dbVars, obsVars, workVars, restoreVars, boundVars
<1>29. ASSUME NEW j \in Jobs, RestoreCheck(j) PROVE InDoubt'
  BY <1>29, NothingSeen DEF RestoreCheck, osVars, dbVars, obsVars, workVars, restoreVars, boundVars
<1>30. ASSUME NEW p \in Paths, RestoreCopy(p) PROVE InDoubt'
  <2>1. CASE MayCopy(p)
    <3> DEFINE new == <<Event("created", p), Event("modified", p)>>
    <3>1. new \in Seq(EventSet) /\ 2 \in 1 .. Len(new) /\ new[2] = Event("modified", p)
      BY EventTypes
    <3>2. /\ Notify(new) /\ up = "watch"
          /\ UNCHANGED <<marked, fileQ, toScan, up, vault, rows, wpc, wpath, wver>>
      BY <1>30, <2>1 DEF RestoreCopy, Quiet, TypeOK, dbVars, workVars
    <3> HIDE DEF new
    <3>3. EventsKept
      BY <3>1, <3>2, NotifyFacts DEF TypeOK
    <3>4. Watched(p)'
      BY <3>1, <3>2, ChangeIsReported DEF TypeOK, Watched
    <3>5. \A q \in Paths : q # p => disk'[q] = disk[q] /\ skip'[q] = skip[q]
      BY <1>30, <2>1 DEF RestoreCopy, TypeOK
    <3>6. \A q \in Paths : q # p => Safe(q)'
      BY <3>2, <3>3, <3>5, OthersStay
    <3> QED
      BY <3>4, <3>6 DEF InDoubt, Safe
  <2>2. CASE ~MayCopy(p)
    BY <1>30, <2>2, NothingSeen DEF RestoreCopy, dbVars, workVars
  <2> QED
    BY <2>1, <2>2
<1>31. ASSUME NEW p \in Paths, RestoreMark(p) PROVE InDoubt'
  <2>1. /\ UNCHANGED <<disk, vault, rows, wpc, wpath, wver, toScan, up, events, fileQ>>
        /\ marked' = MarkedAfter(p)
        /\ \A q \in Paths : q # p => skip'[q] = skip[q]
    BY <1>31 DEF RestoreMark, TypeOK, osVars, dbVars, obsVars, workVars, restoreVars, boundVars
  <2>2. \A q : q # p /\ IsMarked(q)' => IsMarked(q)
    BY <2>1, MarkFacts DEF TypeOK
  <2>3. EventsKept /\ QueueKept
    BY <2>1 DEF EventsKept, QueueKept
  <2>4. \A q \in Paths : q # p => Safe(q)'
    <3>1. \A q \in Paths : (Doubt(q)' => Doubt(q)) /\ (InHand(q) => InHand(q)')
      BY <2>1 DEF Doubt, Stale, InHand
    <3> QED
      BY <2>1, <2>2, <2>3, <3>1, StaysSafe DEF TypeOK
  <2>5. Safe(p)'
    <3>1. Doubt(p)' => Doubt(p)
      BY <2>1 DEF Doubt, Stale
    <3>2. Doubt(p) => skip'[p] = "marked"
      BY <1>31 DEF RestoreMark, TypeOK, Doubt
    <3> QED
      BY <3>1, <3>2 DEF Safe
  <2> QED
    BY <2>4, <2>5 DEF InDoubt
<1>32. ASSUME UNCHANGED vars PROVE InDoubt'
  BY <1>32, NothingSeen DEF vars, osVars, dbVars, obsVars, workVars, restoreVars, boundVars
<1> QED
  BY <1>1, <1>2, <1>3, <1>4, <1>5, <1>6, <1>7, <1>8, <1>9, <1>10, <1>11, <1>12, <1>13, <1>14, <1>15, <1>16,
     <1>17, <1>18, <1>19, <1>20, <1>21, <1>22, <1>23, <1>24, <1>25, <1>26, <1>27, <1>28, <1>29, <1>30, <1>31, <1>32
  DEF Next, Environment, Collect, Startup, Observer, Worker, DeleteWorker

(* No content is lost between the event queue, the marks of processed files *)
(* and the worker, for any number of files, writes, deletions and kills and *)
(* any size of the cache: what lies on disk unsettled is on its way to the  *)
(* worker, unless it was passed over for a recorded reason.                 *)
THEOREM NothingIsLost == Spec => []Accounted
<1> DEFINE AInv == InDoubt /\ MarkedOnce /\ Gone /\ Quiet /\ Placed /\ Still
<1>1. Init => AInv
  BY DEF Init, InDoubt, Safe, Watched, MarkedOnce, Gone, IsMarked, Quiet, Placed, Still
<1>2. TypeOK /\ WorkerInv /\ AInv /\ [Next]_vars => AInv'
  BY QuietNext, MarkedOnceNext, GoneNext, InDoubtNext
<1>3. AInv => Accounted
  BY DEF InDoubt, Safe, Doubt, Accounted, Pending, Watched
<1> QED
  BY <1>1, <1>2, <1>3, WorkerCorrect, PTL DEF Spec

----------------------------------------------------------------------------
(* No newer content gives way to an older one.                              *)

(* What people and machines write of a Job's parsed files, they write at    *)
(* the top of the Job folder.                                               *)
DropsAtTop == Drops \cap (JobFiles \X {"sub"}) = {}

(* No version is newer than the last write.                                 *)
Bounded ==
    /\ \A p \in Paths : disk[p] <= latest[p[1]] /\ vault[p] <= latest[p[1]]
    /\ \A f \in Files : rows[f] <= latest[f]
    /\ wpath \in Paths => wver <= latest[wpath[1]]

Top(f)   == <<f, "root">>
Below(f) == <<f, "sub">>

(* A file is at the top of the Job folder, or was when the worker took it.  *)
Fresh(f) == disk[Top(f)] # 0 \/ (wpc = "place" /\ wpath = Top(f))

(* At the top is only the newest version, and no copy was made there.       *)
NeverBack ==
    \A f \in JobFiles \ NcFiles :
        /\ disk[Top(f)] \in {0, latest[f]} /\ vault[Top(f)] = 0
        /\ Fresh(f) => disk[Below(f)] < latest[f] /\ vault[Below(f)] < latest[f]

FromVault == rpc = "copy" => \A p \in rleft : vault[p] # 0 \/ p[2] = "cad"

(* The worker without a file has no path in hand. *)
LEMMA NoneIsNone == NoPath \notin Paths
  BY PathFacts DEF NoPath

(* The NC program the XML parser finds beside its file is an NC program of
   the tree. *)
LEMMA NcBesideFacts == \A f : NcBeside(f) \subseteq NcFiles \X {"sub", "root"}
  <1> TAKE f
  <1> DEFINE mine == {m \in NcFiles : JobOf[m] = JobOf[f]}
             at(d) == OnDisk({<<n, d>> : n \in mine})
             found == IF at("sub") # {} THEN at("sub") ELSE at("root")
  <1>1. found \subseteq NcFiles \X {"sub", "root"}
    BY DEF OnDisk
  <1>2. NcBeside(f) = IF f \in XmlFiles /\ found # {} THEN {CHOOSE p \in found : TRUE} ELSE {}
    BY DEF NcBeside
  <1> QED
    BY <1>1, <1>2

(* Versions only come from writes.                                          *)
LEMMA BoundedNext ==
    ASSUME TypeOK, WorkerInv, Bounded, [Next]_vars PROVE Bounded'
<1>1. ASSUME NEW p \in Paths, Write(p) PROVE Bounded'
  <2>1. /\ UNCHANGED <<vault, rows, wpath, wver>> /\ p[1] \in Files
        /\ latest' = [latest EXCEPT ![p[1]] = @ + 1]
        /\ disk' = [disk EXCEPT ![p] = latest[p[1]] + 1]
    BY <1>1, PathFacts DEF Write, dbVars, workVars
  <2>2. \A f \in Files : latest[f] \in Nat /\ latest'[f] \in Nat /\ latest[f] <= latest'[f]
    BY <2>1, BoundsAssumption DEF TypeOK, Versions
  <2>3. latest'[p[1]] = latest[p[1]] + 1
    BY <2>1 DEF TypeOK
  <2>4. ASSUME NEW q \in Paths PROVE disk'[q] <= latest'[q[1]] /\ vault'[q] <= latest'[q[1]]
    <3>1. q[1] \in Files /\ disk[q] \in Nat /\ vault[q] \in Nat
      BY PathFacts, BoundsAssumption DEF TypeOK, Versions
    <3>2. disk'[q] <= latest'[q[1]]
      BY <2>1, <2>2, <2>3, <3>1 DEF Bounded, TypeOK
    <3> QED
      BY <2>1, <2>2, <3>1, <3>2 DEF Bounded
  <2>5. ASSUME NEW f \in Files PROVE rows'[f] <= latest'[f]
    BY <2>1, <2>2, BoundsAssumption DEF Bounded, TypeOK, Versions
  <2>6. wpath' \in Paths => wver' <= latest'[wpath'[1]]
    BY <2>1, <2>2, PathFacts, BoundsAssumption DEF Bounded, TypeOK, Versions
  <2> QED
    BY <2>4, <2>5, <2>6 DEF Bounded
<1>2. ASSUME NEW p \in Paths, DeleteFile(p) PROVE Bounded'
  <2>1. /\ UNCHANGED <<latest, vault, rows, wpath, wver>>
        /\ \A q \in Paths : disk'[q] = 0 \/ disk'[q] = disk[q]
    BY <1>2 DEF DeleteFile, TypeOK, dbVars, workVars
  <2>2. \A q \in Paths : latest[q[1]] >= 0
    BY PathFacts, BoundsAssumption DEF TypeOK, Versions
  <2> QED
    BY <2>1, <2>2 DEF Bounded
<1>3. ASSUME NEW j \in Jobs, DeleteFolder(j) PROVE Bounded'
  BY <1>3, PathFacts, BoundsAssumption DEF DeleteFolder, Bounded, TypeOK, Versions, dbVars, workVars
<1>4. ASSUME TogglePause PROVE Bounded'
  BY <1>4 DEF TogglePause, Bounded, osVars, dbVars, obsVars, workVars, restoreVars, boundVars
<1>5. ASSUME ToggleParsers PROVE Bounded'
  BY <1>5 DEF ToggleParsers, Bounded, osVars, dbVars, obsVars, workVars, restoreVars, boundVars
<1>6. ASSUME Crash PROVE Bounded'
  BY <1>6, NoneIsNone DEF Crash, Bounded, osVars, dbVars
<1>7. ASSUME StartPipeline PROVE Bounded'
  BY <1>7 DEF StartPipeline, Bounded, osVars, dbVars, obsVars, workVars, restoreVars, boundVars
<1>8. ASSUME NEW p \in Paths, ScanPath(p) PROVE Bounded'
  BY <1>8 DEF ScanPath, Bounded, osVars, dbVars, obsVars, workVars, restoreVars, boundVars
<1>9. ASSUME StartObserver PROVE Bounded'
  BY <1>9 DEF StartObserver, Bounded, osVars, dbVars, obsVars, workVars, restoreVars, boundVars
<1>10. ASSUME OnCreated PROVE Bounded'
  BY <1>10 DEF OnCreated, NextEvent, Bounded, osVars, dbVars, obsVars, workVars, restoreVars, boundVars
<1>11. ASSUME OnModified PROVE Bounded'
  BY <1>11 DEF OnModified, NextEvent, Bounded, osVars, dbVars, obsVars, workVars, restoreVars, boundVars
<1>12. ASSUME OnDeleted PROVE Bounded'
  BY <1>12 DEF OnDeleted, NextEvent, Bounded, osVars, dbVars, obsVars, workVars, restoreVars, boundVars
<1>13. ASSUME Take PROVE Bounded'
  <2>1. /\ UNCHANGED <<disk, latest, vault, rows>>
        /\ (UNCHANGED <<wpath, wver>> \/ wver' = 0)
    BY <1>13 DEF Take, workVars, osVars, dbVars
  <2>2. \A q \in Paths : latest[q[1]] >= 0
    BY PathFacts, BoundsAssumption DEF TypeOK, Versions
  <2>3. ASSUME wpath' \in Paths PROVE wver' <= latest'[wpath'[1]]
    <3> PICK q \in Paths : q = wpath'
      BY <2>3
    <3> QED
      BY <2>1, <2>2 DEF Bounded
  <2> QED
    BY <2>1, <2>3 DEF Bounded
<1>14. ASSUME NotReady PROVE Bounded'
  BY <1>14, NoneIsNone DEF NotReady, WorkerDone, Bounded, osVars, dbVars
<1>15. ASSUME MarkReady PROVE Bounded'
  BY <1>15 DEF MarkReady, Bounded, osVars, dbVars, obsVars, workVars, restoreVars, boundVars
<1>16. ASSUME Relocate PROVE Bounded'
  <2>0. PICK w, dest : w = wpath /\ dest = Sub(w)
    OBVIOUS
  <2>1. /\ w \in Paths /\ dest \in Paths /\ w # dest /\ dest[1] = w[1] /\ w[1] \in Files
    BY <1>16, <2>0, PathFacts DEF Relocate, WorkerInv, Sub
  <2>2. /\ UNCHANGED <<latest, vault, rows>>
        /\ disk' = [disk EXCEPT ![dest] = disk[w], ![w] = 0]
        /\ ((wpath' = dest /\ wver' = wver) \/ wpath' = NoPath)
    BY <1>16, <2>0 DEF Relocate, WorkerDone, dbVars
  <2>3. \A q \in Paths : latest[q[1]] \in Nat /\ disk[q] \in Nat
    BY PathFacts, BoundsAssumption DEF TypeOK, Versions
  <2>4. ASSUME NEW q \in Paths PROVE disk'[q] <= latest[q[1]]
    BY <2>1, <2>2, <2>3 DEF Bounded, TypeOK
  <2>5. wpath' \in Paths => wver' <= latest[wpath'[1]]
    BY <2>0, <2>1, <2>2, NoneIsNone DEF Bounded
  <2> QED
    BY <2>2, <2>4, <2>5 DEF Bounded
<1>17. ASSUME GateEtc PROVE Bounded'
  BY <1>17 DEF GateEtc, Bounded, osVars, dbVars, workVars
<1>18. ASSUME GateParsed PROVE Bounded'
  BY <1>18, NoneIsNone DEF GateParsed, WorkerDone, Bounded, osVars, dbVars
<1>19. ASSUME Parse PROVE Bounded'
  <2>1. UNCHANGED <<disk, latest, vault, rows, wpath>> /\ wver' = disk[wpath]
    BY <1>19 DEF Parse, osVars
  <2> QED
    BY <2>1 DEF Bounded
<1>20. ASSUME ParseFails PROVE Bounded'
  BY <1>20, NoneIsNone DEF ParseFails, WorkerDone, Bounded, osVars, dbVars
<1>21. ASSUME CadKnown PROVE Bounded'
  BY <1>21, NoneIsNone DEF CadKnown, WorkerDone, Bounded, osVars, dbVars
<1>22. ASSUME Archive PROVE Bounded'
  <2>1. /\ UNCHANGED <<disk, latest, rows>>
        /\ ((wpath' = wpath /\ wver' = wver) \/ wpath' = NoPath)
        /\ \A q \in Paths : (vault'[q] = disk[q] \/ vault'[q] = vault[q])
    BY <1>22 DEF Archive, WorkerDone, osVars
  <2>2. \A q \in Paths : disk'[q] <= latest'[q[1]] /\ vault'[q] <= latest'[q[1]]
    BY <2>1 DEF Bounded
  <2>3. wpath' \in Paths => wver' <= latest'[wpath'[1]]
    BY <2>1, NoneIsNone DEF Bounded
  <2> QED
    BY <2>1, <2>2, <2>3 DEF Bounded
<1>23. ASSUME Commit PROVE Bounded'
  <2>1. /\ UNCHANGED <<disk, latest, vault>> /\ wpath' = NoPath
        /\ rows' = [rows EXCEPT ![wpath[1]] = wver] /\ wpath \in Paths
    BY <1>23 DEF Commit, WorkerDone, osVars, WorkerInv
  <2> QED
    BY <2>1, NoneIsNone DEF Bounded, TypeOK
<1>24. ASSUME CommitFails PROVE Bounded'
  BY <1>24, NoneIsNone DEF CommitFails, WorkerDone, Bounded, osVars, dbVars
<1>25. ASSUME RestoreBatch PROVE Bounded'
  BY <1>25 DEF RestoreBatch, Bounded, osVars, dbVars, obsVars, workVars, restoreVars, boundVars
<1>26. ASSUME RestoreBatchEnd PROVE Bounded'
  BY <1>26 DEF RestoreBatchEnd, Bounded, osVars, dbVars, obsVars, workVars, restoreVars, boundVars
<1>27. ASSUME RestoreCopied PROVE Bounded'
  BY <1>27 DEF RestoreCopied, Bounded, osVars, dbVars, obsVars, workVars, restoreVars, boundVars
<1>28. ASSUME RestoreMarked PROVE Bounded'
  BY <1>28 DEF RestoreMarked, Bounded, osVars, dbVars, obsVars, workVars, restoreVars, boundVars
<1>29. ASSUME NEW j \in Jobs, RestoreCheck(j) PROVE Bounded'
  BY <1>29 DEF RestoreCheck, Bounded, osVars, dbVars, obsVars, workVars, restoreVars, boundVars
<1>30. ASSUME NEW p \in Paths, RestoreCopy(p) PROVE Bounded'
  <2>1. /\ UNCHANGED <<latest, vault, rows, wpath, wver>>
        /\ (disk' = disk \/ disk' = [disk EXCEPT ![p] = CopyOf(p)])
    BY <1>30 DEF RestoreCopy, dbVars, workVars
  <2>2. CopyOf(p) <= latest[p[1]]
    BY PathFacts DEF CopyOf, Bounded
  <2> QED
    BY <2>1, <2>2 DEF Bounded, TypeOK
<1>31. ASSUME NEW p \in Paths, RestoreMark(p) PROVE Bounded'
  BY <1>31 DEF RestoreMark, Bounded, osVars, dbVars, obsVars, workVars, restoreVars, boundVars
<1>32. ASSUME UNCHANGED vars PROVE Bounded'
  BY <1>32 DEF vars, Bounded, osVars, dbVars, obsVars, workVars, restoreVars, boundVars
<1> QED
  BY <1>1, <1>2, <1>3, <1>4, <1>5, <1>6, <1>7, <1>8, <1>9, <1>10, <1>11, <1>12, <1>13, <1>14, <1>15, <1>16,
     <1>17, <1>18, <1>19, <1>20, <1>21, <1>22, <1>23, <1>24, <1>25, <1>26, <1>27, <1>28, <1>29, <1>30, <1>31, <1>32
  DEF Next, Environment, Collect, Startup, Observer, Worker, DeleteWorker

(* The two places of a Job's file.                                          *)
LEMMA TopFacts ==
    \A f \in JobFiles : /\ f \in Files /\ Top(f) \in Paths /\ Below(f) \in Paths
                        /\ Top(f) # Below(f) /\ Top(f)[1] = f /\ Below(f)[1] = f
                        /\ Top(f)[2] = "root" /\ Below(f)[2] = "sub"
  BY DEF Top, Below, Paths, Files

(* A file of a Job is in one of two places: where it was dropped, or in its
   sub-folder. *)
LEMMA PlacesOfFile ==
    ASSUME NEW f \in JobFiles, NEW p \in Paths, p[1] = f PROVE p \in {Top(f), Below(f)}
  BY FilesAssumption DEF Paths, Top, Below

(* Removing files brings no older content to the front. *)
LEMMA FewerStays ==
    ASSUME Bounded, NeverBack, FromVault, TypeOK, UNCHANGED <<latest, vault, wpc, wpath, rpc, rleft>>,
           \A q \in Paths : disk'[q] \in {0, disk[q]}
    PROVE  NeverBack' /\ FromVault'
<1>1. FromVault'
  BY DEF FromVault
<1>2. ASSUME NEW f \in JobFiles \ NcFiles
      PROVE  /\ disk'[Top(f)] \in {0, latest'[f]} /\ vault'[Top(f)] = 0
             /\ Fresh(f)' => disk'[Below(f)] < latest'[f] /\ vault'[Below(f)] < latest'[f]
  <2>1. Top(f) \in Paths /\ Below(f) \in Paths /\ f \in Files
    BY TopFacts
  <2>2. Fresh(f)' => Fresh(f)
    BY <2>1 DEF Fresh
  <2>3. latest[f] \in Nat /\ disk[Below(f)] \in Nat
    BY <2>1, BoundsAssumption DEF TypeOK, Versions
  <2> QED
    BY <2>1, <2>2, <2>3 DEF NeverBack
<1> QED
  BY <1>1, <1>2 DEF NeverBack

(* Every step keeps it: what stands at the top is not older than what is
   below, and what a restore brings came from the vault. *)
LEMMA NeverBackNext ==
    ASSUME DropsAtTop, TypeOK, WorkerInv, Placed, Bounded, NeverBack, FromVault, [Next]_vars
    PROVE  NeverBack' /\ FromVault'
<1>1. ASSUME NEW p \in Paths, Write(p) PROVE NeverBack' /\ FromVault'
  <2>1. /\ UNCHANGED <<vault, wpc, wpath, rpc, rleft>> /\ p[1] \in Files /\ p \in Drops
        /\ latest' = [latest EXCEPT ![p[1]] = @ + 1]
        /\ disk' = [disk EXCEPT ![p] = latest[p[1]] + 1]
    BY <1>1, PathFacts DEF Write, dbVars, workVars, restoreVars
  <2>2. FromVault'
    BY <2>1 DEF FromVault
  <2>3. ASSUME NEW f \in JobFiles \ NcFiles
        PROVE  /\ disk'[Top(f)] \in {0, latest'[f]} /\ vault'[Top(f)] = 0
               /\ Fresh(f)' => disk'[Below(f)] < latest'[f] /\ vault'[Below(f)] < latest'[f]
    <3>1. /\ f \in Files /\ Top(f) \in Paths /\ Below(f) \in Paths /\ Top(f) # Below(f)
          /\ Top(f)[1] = f /\ Below(f)[1] = f /\ latest[f] \in Nat
          /\ disk[Below(f)] \in Nat /\ vault[Below(f)] \in Nat
      BY TopFacts, BoundsAssumption DEF TypeOK, Versions
    <3>2. p # Below(f)
      BY <2>1 DEF DropsAtTop, Below
    <3>3. CASE p = Top(f)
      <4>1. latest'[f] = latest[f] + 1 /\ disk'[Top(f)] = latest[f] + 1 /\ disk'[Below(f)] = disk[Below(f)]
        BY <2>1, <3>1, <3>2, <3>3 DEF TypeOK
      <4>2. disk[Below(f)] <= latest[f] /\ vault[Below(f)] <= latest[f]
        BY <3>1 DEF Bounded
      <4> QED
        BY <2>1, <3>1, <4>1, <4>2 DEF NeverBack
    <3>4. CASE p # Top(f)
      <4>1. p[1] # f
        BY <3>1, <3>2, <3>4, PlacesOfFile
      <4>2. latest'[f] = latest[f] /\ disk'[Top(f)] = disk[Top(f)] /\ disk'[Below(f)] = disk[Below(f)]
        BY <2>1, <3>1, <3>2, <3>4, <4>1 DEF TypeOK
      <4> QED
        BY <2>1, <4>2 DEF NeverBack, Fresh
    <3> QED
      BY <3>3, <3>4
  <2> QED
    BY <2>2, <2>3 DEF NeverBack
<1>2. ASSUME NEW p \in Paths, DeleteFile(p) PROVE NeverBack' /\ FromVault'
  <2>1. /\ UNCHANGED <<vault, latest, wpc, wpath, rpc, rleft>>
        /\ \A q \in Paths : disk'[q] \in {0, disk[q]}
    BY <1>2 DEF DeleteFile, dbVars, workVars, restoreVars, TypeOK
  <2> QED
    BY <2>1, FewerStays
<1>3. ASSUME NEW j \in Jobs, DeleteFolder(j) PROVE NeverBack' /\ FromVault'
  <2>1. /\ UNCHANGED <<vault, latest, wpc, wpath, rpc, rleft>>
        /\ \A q \in Paths : disk'[q] \in {0, disk[q]}
    BY <1>3 DEF DeleteFolder, dbVars, workVars, restoreVars, TypeOK
  <2> QED
    BY <2>1, FewerStays
<1>4. ASSUME TogglePause PROVE NeverBack' /\ FromVault'
  BY <1>4 DEF TogglePause, NeverBack, Fresh, FromVault, WorkerDone, osVars, dbVars, obsVars, workVars, restoreVars, boundVars
<1>5. ASSUME ToggleParsers PROVE NeverBack' /\ FromVault'
  BY <1>5 DEF ToggleParsers, NeverBack, Fresh, FromVault, WorkerDone, osVars, dbVars, obsVars, workVars, restoreVars, boundVars
<1>6. ASSUME Crash PROVE NeverBack' /\ FromVault'
  BY <1>6 DEF Crash, NeverBack, Fresh, FromVault, osVars, dbVars
<1>7. ASSUME StartPipeline PROVE NeverBack' /\ FromVault'
  BY <1>7 DEF StartPipeline, NeverBack, Fresh, FromVault, WorkerDone, osVars, dbVars, obsVars, workVars, restoreVars, boundVars
<1>8. ASSUME NEW p \in Paths, ScanPath(p) PROVE NeverBack' /\ FromVault'
  BY <1>8 DEF ScanPath, NeverBack, Fresh, FromVault, WorkerDone, osVars, dbVars, obsVars, workVars, restoreVars, boundVars
<1>9. ASSUME StartObserver PROVE NeverBack' /\ FromVault'
  BY <1>9 DEF StartObserver, NeverBack, Fresh, FromVault, WorkerDone, osVars, dbVars, obsVars, workVars, restoreVars, boundVars
<1>10. ASSUME OnCreated PROVE NeverBack' /\ FromVault'
  BY <1>10 DEF OnCreated, NextEvent, NeverBack, Fresh, FromVault, WorkerDone, osVars, dbVars, obsVars, workVars, restoreVars, boundVars
<1>11. ASSUME OnModified PROVE NeverBack' /\ FromVault'
  BY <1>11 DEF OnModified, NextEvent, NeverBack, Fresh, FromVault, WorkerDone, osVars, dbVars, obsVars, workVars, restoreVars, boundVars
<1>12. ASSUME OnDeleted PROVE NeverBack' /\ FromVault'
  BY <1>12 DEF OnDeleted, NextEvent, NeverBack, Fresh, FromVault, WorkerDone, osVars, dbVars, obsVars, workVars, restoreVars, boundVars
<1>13. ASSUME Take PROVE NeverBack' /\ FromVault'
  <2>1. UNCHANGED <<disk, latest, vault, rpc, rleft>> /\ (wpc' = "ready" \/ UNCHANGED <<wpc, wpath>>)
    BY <1>13 DEF Take, osVars, dbVars, obsVars, workVars, restoreVars, boundVars
  <2> QED
    BY <2>1 DEF NeverBack, Fresh, FromVault
<1>14. ASSUME NotReady PROVE NeverBack' /\ FromVault'
  BY <1>14 DEF NotReady, NeverBack, Fresh, FromVault, WorkerDone, osVars, dbVars, obsVars, workVars, restoreVars, boundVars
<1>15. ASSUME MarkReady PROVE NeverBack' /\ FromVault'
  <2>1. UNCHANGED <<disk, latest, vault, rpc, rleft, wpath>> /\ disk[wpath] # 0
    BY <1>15 DEF MarkReady, osVars, dbVars, obsVars, workVars, restoreVars, boundVars
  <2> QED
    BY <2>1 DEF NeverBack, Fresh, FromVault
<1>16. ASSUME Relocate PROVE NeverBack' /\ FromVault'
  <2>0. PICK w, dest : w = wpath /\ dest = Sub(w)
    OBVIOUS
  <2>1. /\ w \in JobFiles \X {"root"} /\ w \in Paths /\ dest \in Paths
        /\ w = Top(w[1]) /\ dest = Below(w[1]) /\ w[1] \in JobFiles
    BY <1>16, <2>0, PathFacts DEF Relocate, WorkerInv, Sub, Paths, Top, Below
  <2>2. /\ UNCHANGED <<latest, vault, rpc, rleft>> /\ wpc' \in {"gate", "idle"}
        /\ disk' = [disk EXCEPT ![dest] = disk[w], ![w] = 0]
    BY <1>16, <2>0 DEF Relocate, WorkerDone, dbVars, restoreVars
  <2>3. FromVault'
    BY <2>2 DEF FromVault
  <2>4. ASSUME NEW f \in JobFiles \ NcFiles
        PROVE  /\ disk'[Top(f)] \in {0, latest'[f]} /\ vault'[Top(f)] = 0
               /\ Fresh(f)' => disk'[Below(f)] < latest'[f] /\ vault'[Below(f)] < latest'[f]
    <3>1. Top(f) \in Paths /\ Below(f) \in Paths /\ Top(f) # Below(f)
      BY TopFacts
    <3>2. CASE f = w[1]
      <4>1. disk'[Top(f)] = 0
        BY <2>1, <2>2, <3>1, <3>2 DEF TypeOK
      <4> QED
        BY <2>2, <4>1 DEF NeverBack, Fresh
    <3>3. CASE f # w[1]
      <4>1. Top(f) \notin {w, dest} /\ Below(f) \notin {w, dest}
        BY <2>1, <3>3 DEF Top, Below
      <4>2. disk'[Top(f)] = disk[Top(f)] /\ disk'[Below(f)] = disk[Below(f)]
        BY <2>2, <3>1, <4>1 DEF TypeOK
      <4> QED
        BY <2>2, <4>2 DEF NeverBack, Fresh
    <3> QED
      BY <3>2, <3>3
  <2> QED
    BY <2>3, <2>4 DEF NeverBack
<1>17. ASSUME GateEtc PROVE NeverBack' /\ FromVault'
  BY <1>17 DEF GateEtc, NeverBack, Fresh, FromVault, WorkerDone, osVars, dbVars, obsVars, workVars, restoreVars, boundVars
<1>18. ASSUME GateParsed PROVE NeverBack' /\ FromVault'
  BY <1>18 DEF GateParsed, NeverBack, Fresh, FromVault, WorkerDone, osVars, dbVars, obsVars, workVars, restoreVars, boundVars
<1>19. ASSUME Parse PROVE NeverBack' /\ FromVault'
  BY <1>19 DEF Parse, NeverBack, Fresh, FromVault, WorkerDone, osVars, dbVars, obsVars, workVars, restoreVars, boundVars
<1>20. ASSUME ParseFails PROVE NeverBack' /\ FromVault'
  BY <1>20 DEF ParseFails, NeverBack, Fresh, FromVault, WorkerDone, osVars, dbVars, obsVars, workVars, restoreVars, boundVars
<1>21. ASSUME CadKnown PROVE NeverBack' /\ FromVault'
  BY <1>21 DEF CadKnown, NeverBack, Fresh, FromVault, WorkerDone, osVars, dbVars, obsVars, workVars, restoreVars, boundVars
<1>22. ASSUME Archive PROVE NeverBack' /\ FromVault'
  <2>1. /\ UNCHANGED <<disk, latest, rpc, rleft>> /\ wpc = "archive" /\ wpc' # "place"
        /\ vault' = [q \in Paths |-> IF q \in ArchivedWith(wpath) THEN disk[q] ELSE vault[q]]
    BY <1>22 DEF Archive, WorkerDone, osVars, restoreVars
  <2>2. \A q \in ArchivedWith(wpath) : disk[q] # 0 /\ (q = wpath \/ q[1] \in NcFiles)
    BY NcBesideFacts DEF ArchivedWith, OnDisk
  <2>3. FromVault'
    BY <2>1, <2>2 DEF FromVault, TypeOK
  <2>4. ASSUME NEW f \in JobFiles \ NcFiles
        PROVE  /\ disk'[Top(f)] \in {0, latest'[f]} /\ vault'[Top(f)] = 0
               /\ Fresh(f)' => disk'[Below(f)] < latest'[f] /\ vault'[Below(f)] < latest'[f]
    <3>1. Top(f) \in Paths /\ Below(f) \in Paths /\ Top(f)[1] = f /\ Top(f)[2] = "root"
      BY TopFacts
    <3>2. Top(f) \notin ArchivedWith(wpath)
      BY <2>1, <2>2, <3>1 DEF Placed
    <3>3. vault'[Top(f)] = vault[Top(f)] /\ vault'[Below(f)] \in {vault[Below(f)], disk[Below(f)]}
      BY <2>1, <3>1, <3>2
    <3> QED
      BY <2>1, <3>3 DEF NeverBack, Fresh
  <2> QED
    BY <2>3, <2>4 DEF NeverBack
<1>23. ASSUME Commit PROVE NeverBack' /\ FromVault'
  BY <1>23 DEF Commit, NeverBack, Fresh, FromVault, WorkerDone, osVars, dbVars, obsVars, workVars, restoreVars, boundVars
<1>24. ASSUME CommitFails PROVE NeverBack' /\ FromVault'
  BY <1>24 DEF CommitFails, NeverBack, Fresh, FromVault, WorkerDone, osVars, dbVars, obsVars, workVars, restoreVars, boundVars
<1>25. ASSUME RestoreBatch PROVE NeverBack' /\ FromVault'
  BY <1>25 DEF RestoreBatch, NeverBack, Fresh, FromVault, WorkerDone, osVars, dbVars, obsVars, workVars, restoreVars, boundVars
<1>26. ASSUME RestoreBatchEnd PROVE NeverBack' /\ FromVault'
  BY <1>26 DEF RestoreBatchEnd, NeverBack, Fresh, FromVault, WorkerDone, osVars, dbVars, obsVars, workVars, restoreVars, boundVars
<1>27. ASSUME RestoreCopied PROVE NeverBack' /\ FromVault'
  BY <1>27 DEF RestoreCopied, NeverBack, Fresh, FromVault, WorkerDone, osVars, dbVars, obsVars, workVars, restoreVars, boundVars
<1>28. ASSUME RestoreMarked PROVE NeverBack' /\ FromVault'
  BY <1>28 DEF RestoreMarked, NeverBack, Fresh, FromVault, WorkerDone, osVars, dbVars, obsVars, workVars, restoreVars, boundVars
<1>29. ASSUME NEW j \in Jobs, RestoreCheck(j) PROVE NeverBack' /\ FromVault'
  <2>1. UNCHANGED <<disk, latest, vault, wpc, wpath>>
        /\ (UNCHANGED <<rpc, rleft>> \/ rleft' = Restorable(j))
    BY <1>29 DEF RestoreCheck, osVars, dbVars, obsVars, workVars, restoreVars, boundVars
  <2>2. \A q \in Restorable(j) : vault[q] # 0 \/ q[2] = "cad"
    BY DEF Restorable
  <2> QED
    BY <2>1, <2>2 DEF NeverBack, Fresh, FromVault
<1>30. ASSUME NEW p \in Paths, RestoreCopy(p) PROVE NeverBack' /\ FromVault'
  <2>1. /\ UNCHANGED <<latest, vault, wpc, wpath, rpc>> /\ rleft' = rleft \ {p}
        /\ rpc = "copy" /\ p \in rleft
        /\ (disk' = disk \/ disk' = [disk EXCEPT ![p] = CopyOf(p)])
    BY <1>30 DEF RestoreCopy, dbVars, workVars
  <2>2. FromVault'
    BY <2>1 DEF FromVault
  <2>3. ASSUME NEW f \in JobFiles \ NcFiles
        PROVE  /\ disk'[Top(f)] \in {0, latest'[f]} /\ vault'[Top(f)] = 0
               /\ Fresh(f)' => disk'[Below(f)] < latest'[f] /\ vault'[Below(f)] < latest'[f]
    <3>1. Top(f) \in Paths /\ Below(f) \in Paths /\ Top(f)[2] = "root" /\ Below(f)[2] = "sub"
      BY TopFacts
    <3>2. p # Top(f)
      BY <2>1, <3>1 DEF FromVault, NeverBack
    <3>3. disk'[Top(f)] = disk[Top(f)]
      BY <2>1, <3>1, <3>2 DEF TypeOK
    <3>4. p = Below(f) => CopyOf(p) = vault[p]
      BY <2>1, <3>1 DEF FromVault, CopyOf
    <3>5. disk'[Below(f)] \in {disk[Below(f)], vault[Below(f)]}
      BY <2>1, <3>1, <3>4 DEF TypeOK
    <3> QED
      BY <2>1, <3>3, <3>5 DEF NeverBack, Fresh
  <2> QED
    BY <2>2, <2>3 DEF NeverBack
<1>31. ASSUME NEW p \in Paths, RestoreMark(p) PROVE NeverBack' /\ FromVault'
  BY <1>31 DEF RestoreMark, NeverBack, Fresh, FromVault, WorkerDone, osVars, dbVars, obsVars, workVars, restoreVars, boundVars
<1>32. ASSUME UNCHANGED vars PROVE NeverBack' /\ FromVault'
  BY <1>32 DEF vars, NeverBack, Fresh, FromVault, WorkerDone, osVars, dbVars, obsVars, workVars, restoreVars, boundVars
<1> QED
  BY <1>1, <1>2, <1>3, <1>4, <1>5, <1>6, <1>7, <1>8, <1>9, <1>10, <1>11, <1>12, <1>13, <1>14, <1>15, <1>16,
     <1>17, <1>18, <1>19, <1>20, <1>21, <1>22, <1>23, <1>24, <1>25, <1>26, <1>27, <1>28, <1>29, <1>30, <1>31, <1>32
  DEF Next, Environment, Collect, Startup, Observer, Worker, DeleteWorker

(* No file at a place other than its newest becomes the newest, and the     *)
(* newest stays where it is unless the worker moves it.                     *)
LEMMA NewestStays ==
    ASSUME TypeOK, NEW f \in Files, latest'[f] = latest[f],
           \A p \in Paths : p[1] = f /\ disk[p] # 0 => disk'[p] = disk[p]
    PROVE  Newest(f) # 0 => Newest(f)' # 0
  BY DEF Newest

(* No step but a deletion takes the newest content of a file from the tree. *)
LEMMA NewestKept ==
    ASSUME DropsAtTop, TypeOK, WorkerInv, Placed, Bounded, NeverBack, FromVault, [Next]_vars,
           NEW f \in Files \ NcFiles, Newest(f) # 0, deletes' = deletes
    PROVE  Newest(f)' # 0
<1>1. ASSUME NEW p \in Paths, Write(p) PROVE Newest(f)' # 0
  <2>1. /\ p \in Drops /\ p[1] \in Files
        /\ latest' = [latest EXCEPT ![p[1]] = @ + 1]
        /\ disk' = [disk EXCEPT ![p] = latest[p[1]] + 1]
    BY <1>1, PathFacts DEF Write
  <2>2. latest[p[1]] \in Nat
    BY <2>1, BoundsAssumption DEF TypeOK, Versions
  <2>3. CASE f = p[1]
    <3>1. disk'[p] = latest'[f] /\ latest'[f] # 0
      BY <2>1, <2>2, <2>3 DEF TypeOK
    <3> QED
      BY <2>3, <3>1 DEF Newest
  <2>4. CASE f # p[1]
    <3>1. latest'[f] = latest[f] /\ \A q \in Paths : q[1] = f => disk'[q] = disk[q]
      BY <2>1, <2>4 DEF TypeOK
    <3> QED
      BY <3>1, NewestStays
  <2> QED
    BY <2>3, <2>4
<1>2. ASSUME NEW p \in Paths, DeleteFile(p) PROVE Newest(f)' # 0
  BY <1>2, BoundsAssumption DEF DeleteFile, TypeOK
<1>3. ASSUME NEW j \in Jobs, DeleteFolder(j) PROVE Newest(f)' # 0
  BY <1>3, BoundsAssumption DEF DeleteFolder, TypeOK
<1>4. ASSUME TogglePause PROVE Newest(f)' # 0
  <2>1. UNCHANGED <<disk, latest>>
    BY <1>4 DEF TogglePause, osVars
  <2> QED
    BY <2>1, NewestStays
<1>5. ASSUME ToggleParsers PROVE Newest(f)' # 0
  <2>1. UNCHANGED <<disk, latest>>
    BY <1>5 DEF ToggleParsers, osVars
  <2> QED
    BY <2>1, NewestStays
<1>6. ASSUME Crash PROVE Newest(f)' # 0
  <2>1. UNCHANGED <<disk, latest>>
    BY <1>6 DEF Crash, osVars
  <2> QED
    BY <2>1, NewestStays
<1>7. ASSUME StartPipeline PROVE Newest(f)' # 0
  <2>1. UNCHANGED <<disk, latest>>
    BY <1>7 DEF StartPipeline, osVars
  <2> QED
    BY <2>1, NewestStays
<1>8. ASSUME NEW p \in Paths, ScanPath(p) PROVE Newest(f)' # 0
  <2>1. UNCHANGED <<disk, latest>>
    BY <1>8 DEF ScanPath, osVars
  <2> QED
    BY <2>1, NewestStays
<1>9. ASSUME StartObserver PROVE Newest(f)' # 0
  <2>1. UNCHANGED <<disk, latest>>
    BY <1>9 DEF StartObserver, osVars
  <2> QED
    BY <2>1, NewestStays
<1>10. ASSUME OnCreated PROVE Newest(f)' # 0
  <2>1. UNCHANGED <<disk, latest>>
    BY <1>10 DEF OnCreated, NextEvent, osVars
  <2> QED
    BY <2>1, NewestStays
<1>11. ASSUME OnModified PROVE Newest(f)' # 0
  <2>1. UNCHANGED <<disk, latest>>
    BY <1>11 DEF OnModified, NextEvent, osVars
  <2> QED
    BY <2>1, NewestStays
<1>12. ASSUME OnDeleted PROVE Newest(f)' # 0
  <2>1. UNCHANGED <<disk, latest>>
    BY <1>12 DEF OnDeleted, NextEvent, osVars
  <2> QED
    BY <2>1, NewestStays
<1>13. ASSUME Take PROVE Newest(f)' # 0
  <2>1. UNCHANGED <<disk, latest>>
    BY <1>13 DEF Take, Running, osVars
  <2> QED
    BY <2>1, NewestStays
<1>14. ASSUME NotReady PROVE Newest(f)' # 0
  <2>1. UNCHANGED <<disk, latest>>
    BY <1>14 DEF NotReady, osVars
  <2> QED
    BY <2>1, NewestStays
<1>15. ASSUME MarkReady PROVE Newest(f)' # 0
  <2>1. UNCHANGED <<disk, latest>>
    BY <1>15 DEF MarkReady, osVars
  <2> QED
    BY <2>1, NewestStays
<1>16. ASSUME Relocate PROVE Newest(f)' # 0
  <2>0. PICK w, dest : w = wpath /\ dest = Sub(w)
    OBVIOUS
  <2>1. /\ w \in JobFiles \X {"root"} /\ w \in Paths /\ dest \in Paths /\ wpc = "place"
        /\ w = Top(w[1]) /\ dest = Below(w[1]) /\ w[1] \in JobFiles
    BY <1>16, <2>0, PathFacts DEF Relocate, WorkerInv, Sub, Paths, Top, Below
  <2>2. /\ UNCHANGED latest
        /\ disk' = [disk EXCEPT ![dest] = disk[w], ![w] = 0]
    BY <1>16, <2>0 DEF Relocate
  <2>3. CASE f # w[1]
    <3>1. \A q \in Paths : q[1] = f => disk'[q] = disk[q]
      BY <2>1, <2>2, <2>3 DEF TypeOK, Top, Below
    <3> QED
      BY <2>2, <3>1, NewestStays
  <2>4. CASE f = w[1]
    <3>1. /\ disk[Below(f)] < latest[f] /\ disk[Top(f)] \in {0, latest[f]}
          /\ latest[f] \in Nat /\ disk[Below(f)] \in Nat
      BY <2>0, <2>1, <2>4, BoundsAssumption DEF NeverBack, Fresh, TypeOK, Versions
    <3>2. PICK q \in Paths : q[1] = f /\ disk[q] = latest[f]
      BY DEF Newest
    <3>3. q = Top(f)
      BY <2>1, <2>4, <3>1, <3>2, PlacesOfFile
    <3>4. disk'[dest] = latest[f] /\ dest[1] = f /\ latest[f] # 0
      BY <2>1, <2>2, <2>4, <3>1, <3>2, <3>3, TopFacts DEF TypeOK
    <3> QED
      BY <2>1, <2>2, <3>4 DEF Newest
  <2> QED
    BY <2>3, <2>4
<1>17. ASSUME GateEtc PROVE Newest(f)' # 0
  <2>1. UNCHANGED <<disk, latest>>
    BY <1>17 DEF GateEtc, osVars
  <2> QED
    BY <2>1, NewestStays
<1>18. ASSUME GateParsed PROVE Newest(f)' # 0
  <2>1. UNCHANGED <<disk, latest>>
    BY <1>18 DEF GateParsed, osVars
  <2> QED
    BY <2>1, NewestStays
<1>19. ASSUME Parse PROVE Newest(f)' # 0
  <2>1. UNCHANGED <<disk, latest>>
    BY <1>19 DEF Parse, osVars
  <2> QED
    BY <2>1, NewestStays
<1>20. ASSUME ParseFails PROVE Newest(f)' # 0
  <2>1. UNCHANGED <<disk, latest>>
    BY <1>20 DEF ParseFails, osVars
  <2> QED
    BY <2>1, NewestStays
<1>21. ASSUME CadKnown PROVE Newest(f)' # 0
  <2>1. UNCHANGED <<disk, latest>>
    BY <1>21 DEF CadKnown, osVars
  <2> QED
    BY <2>1, NewestStays
<1>22. ASSUME Archive PROVE Newest(f)' # 0
  <2>1. UNCHANGED <<disk, latest>>
    BY <1>22 DEF Archive, osVars
  <2> QED
    BY <2>1, NewestStays
<1>23. ASSUME Commit PROVE Newest(f)' # 0
  <2>1. UNCHANGED <<disk, latest>>
    BY <1>23 DEF Commit, osVars
  <2> QED
    BY <2>1, NewestStays
<1>24. ASSUME CommitFails PROVE Newest(f)' # 0
  <2>1. UNCHANGED <<disk, latest>>
    BY <1>24 DEF CommitFails, osVars
  <2> QED
    BY <2>1, NewestStays
<1>25. ASSUME RestoreBatch PROVE Newest(f)' # 0
  <2>1. UNCHANGED <<disk, latest>>
    BY <1>25 DEF RestoreBatch, osVars
  <2> QED
    BY <2>1, NewestStays
<1>26. ASSUME RestoreBatchEnd PROVE Newest(f)' # 0
  <2>1. UNCHANGED <<disk, latest>>
    BY <1>26 DEF RestoreBatchEnd, osVars
  <2> QED
    BY <2>1, NewestStays
<1>27. ASSUME RestoreCopied PROVE Newest(f)' # 0
  <2>1. UNCHANGED <<disk, latest>>
    BY <1>27 DEF RestoreCopied, osVars
  <2> QED
    BY <2>1, NewestStays
<1>28. ASSUME RestoreMarked PROVE Newest(f)' # 0
  <2>1. UNCHANGED <<disk, latest>>
    BY <1>28 DEF RestoreMarked, osVars
  <2> QED
    BY <2>1, NewestStays
<1>29. ASSUME NEW j \in Jobs, RestoreCheck(j) PROVE Newest(f)' # 0
  <2>1. UNCHANGED <<disk, latest>>
    BY <1>29 DEF RestoreCheck, osVars
  <2> QED
    BY <2>1, NewestStays
<1>30. ASSUME NEW p \in Paths, RestoreCopy(p) PROVE Newest(f)' # 0
  <2>1. /\ UNCHANGED latest
        /\ disk' = disk \/ (disk[p] = 0 /\ disk' = [disk EXCEPT ![p] = CopyOf(p)])
    BY <1>30 DEF RestoreCopy, MayCopy
  <2>2. \A q \in Paths : disk[q] # 0 => disk'[q] = disk[q]
    BY <2>1 DEF TypeOK
  <2> QED
    BY <2>1, <2>2, NewestStays
<1>31. ASSUME NEW p \in Paths, RestoreMark(p) PROVE Newest(f)' # 0
  <2>1. UNCHANGED <<disk, latest>>
    BY <1>31 DEF RestoreMark, osVars
  <2> QED
    BY <2>1, NewestStays
<1>32. ASSUME UNCHANGED vars PROVE Newest(f)' # 0
  <2>1. UNCHANGED <<disk, latest>>
    BY <1>32 DEF vars, osVars
  <2> QED
    BY <2>1, NewestStays
<1> QED
  BY <1>1, <1>2, <1>3, <1>4, <1>5, <1>6, <1>7, <1>8, <1>9, <1>10, <1>11, <1>12, <1>13, <1>14, <1>15, <1>16,
     <1>17, <1>18, <1>19, <1>20, <1>21, <1>22, <1>23, <1>24, <1>25, <1>26, <1>27, <1>28, <1>29, <1>30, <1>31, <1>32
  DEF Next, Environment, Collect, Startup, Observer, Worker, DeleteWorker

(* As long as people drop the parsed files at the top of the Job folder, no *)
(* step of the collector makes the newest version of a file other than an   *)
(* NC program disappear, however deletions, restores, relocations and kills *)
(* interleave: relocate_into_subdir never meets a newer file below.         *)
THEOREM NewestIsKept == ASSUME DropsAtTop PROVE Spec => CollectorKeepsNewest
<1> DEFINE KInv == Placed /\ Quiet /\ Still /\ Bounded /\ NeverBack /\ FromVault
           Keeps == \A f \in Files \ NcFiles : Newest(f) # 0 /\ Newest(f)' = 0 => deletes' # deletes
<1>1. Init => KInv
  <2> SUFFICES ASSUME Init PROVE KInv
    OBVIOUS
  <2>1. Bounded
    BY NoneIsNone, PathFacts DEF Init, Bounded
  <2>2. NeverBack
    BY TopFacts DEF Init, NeverBack, Fresh
  <2> QED
    BY <2>1, <2>2 DEF Init, Placed, Quiet, Still, FromVault
<1>2. TypeOK /\ WorkerInv /\ KInv /\ [Next]_vars => KInv'
  BY DropsAtTop, QuietNext, BoundedNext, NeverBackNext
<1>3. TypeOK /\ WorkerInv /\ KInv /\ [Next]_vars => Keeps
  BY DropsAtTop, NewestKept
<1> QED
  <2>1. TypeOK /\ WorkerInv /\ KInv /\ [Next]_vars => [Keeps]_vars
    BY <1>3
  <2> QED
    BY <1>1, <1>2, <2>1, WorkerCorrect, PTL DEF Spec, CollectorKeepsNewest

----------------------------------------------------------------------------
(* While nobody deletes anything, the vault is ahead of the database.       *)

NoDeletes == MaxDeletes = 0

(* Deletions that relocations report resolve to Job folders that are there, *)
(* so that nothing is restored.                                             *)
Inert ==
    /\ rpc \in {"idle", "check"}
    /\ \A d \in delQ \cup rjobs : d \in Jobs /\ tree[d] = "full"
    /\ \A i \in 1 .. Len(events) :
          events[i].kind = "deleted" =>
             /\ events[i].path \in Paths /\ events[i].path[2] # "cad"
             /\ tree[JobOf[events[i].path[1]]] = "full"

(* What is at the top of the Job folder is newer than what is below, and    *)
(* that is no older than its copy; the worker's version is no newer than    *)
(* what it archives, and then than the copy.                                *)
Ordered ==
    /\ \A f \in JobFiles : disk[Top(f)] # 0 => disk[Below(f)] < disk[Top(f)]
    /\ \A p \in Paths : p[2] # "root" => vault[p] <= disk[p]
    /\ wpc = "place" => disk[wpath] # 0
    /\ wpc = "archive" /\ wpath[1] \notin EtcFiles => wver <= disk[wpath]
    /\ wpc = "commit" => wver <= vault[wpath]
    /\ StoredIsArchived

(* New events join the queue.                                               *)
LEMMA NotifyEach ==
    ASSUME events \in Seq(EventSet), NEW new \in Seq(EventSet), Notify(new)
    PROVE  \A i \in 1 .. Len(events') :
              \/ i \in 1 .. Len(events) /\ events'[i] = events[i]
              \/ \E k \in 1 .. Len(new) : events'[i] = new[k]
<1>1. CASE up # "watch"
  BY <1>1 DEF Notify
<1>2. CASE up = "watch"
  <2>1. events' = events \o new
    BY <1>2 DEF Notify
  <2> DEFINE m == Len(events)  n == Len(new)  s == events \o new
  <2>2. /\ m \in Nat /\ n \in Nat /\ Len(s) = m + n
        /\ \A i \in 1 .. m + n : s[i] = IF i <= m THEN events[i] ELSE new[i - m]
    BY ConcatProperties
  <2> HIDE DEF s, m, n
  <2>3. ASSUME NEW i \in 1 .. m + n
        PROVE  \/ i \in 1 .. m /\ s[i] = events[i]
               \/ \E k \in 1 .. n : s[i] = new[k]
    <3>1. CASE i <= m
      BY <2>2, <3>1
    <3>2. CASE ~ (i <= m)
      <4>1. i - m \in 1 .. n /\ s[i] = new[i - m]
        BY <2>2, <3>2
      <4> QED
        BY <4>1
    <3> QED
      BY <3>1, <3>2
  <2> QED
    BY <2>1, <2>2, <2>3 DEF s, m, n
<1> QED
  BY <1>1, <1>2

(* What holds of the paths of two sequences of events holds of their
   concatenation. *)
LEMMA JoinedEach ==
    ASSUME NEW s \in Seq(EventSet), NEW t \in Seq(EventSet), NEW P,
           \A i \in 1 .. Len(s) : s[i].path \in P, \A i \in 1 .. Len(t) : t[i].path \in P
    PROVE  \A i \in 1 .. Len(s \o t) : (s \o t)[i].path \in P
<1> DEFINE m == Len(s)  n == Len(t)  u == s \o t
<1>1. /\ m \in Nat /\ n \in Nat /\ Len(u) = m + n
      /\ \A i \in 1 .. m + n : u[i] = IF i <= m THEN s[i] ELSE t[i - m]
  BY ConcatProperties
<1>2. /\ \A i \in 1 .. m : s[i].path \in P
      /\ \A i \in 1 .. n : t[i].path \in P
  OBVIOUS
<1> HIDE DEF m, n, u
<1>3. ASSUME NEW i \in 1 .. m + n PROVE u[i].path \in P
  <2>1. CASE i <= m
    BY <1>1, <1>2, <2>1
  <2>2. CASE ~ (i <= m)
    <3>1. i - m \in 1 .. n /\ u[i] = t[i - m]
      BY <1>1, <2>2
    <3> QED
      BY <1>2, <3>1
  <2> QED
    BY <2>1, <2>2
<1> QED
  BY <1>1, <1>3 DEF u

(* The Job folder a file was reported deleted from is a Job of the part.    *)
LEMMA DeletedFrom == \A p \in Paths : p[2] # "cad" => JobOf[p[1]] \in Jobs
  BY PathFacts

(* Without deletions the delete worker never gets work, in any step. *)
LEMMA InertNext ==
    ASSUME deletes' = deletes, TypeOK, WorkerInv, Inert, [Next]_vars PROVE Inert'
<1>1. ASSUME NEW p \in Paths, Write(p) PROVE Inert'
  <2> DEFINE one == <<Event(WriteKind(p), p)>>
             two == <<Event("created", p), Event("modified", p)>>
  <2>1. one \in Seq(EventSet) /\ two \in Seq(EventSet)
    BY EventTypes DEF WriteKind
  <2>2. /\ \A i \in 1 .. Len(one) : one[i].kind # "deleted"
        /\ \A i \in 1 .. Len(two) : two[i].kind # "deleted"
    BY DEF Event, WriteKind
  <2>3. /\ (Notify(one) \/ Notify(two))
        /\ UNCHANGED <<rpc, delQ, rjobs>> /\ tree' = TreeWith(p)
    BY <1>1 DEF Write, restoreVars
  <2> HIDE DEF one, two
  <2>4. \A i \in 1 .. Len(events') : events'[i].kind = "deleted" =>
            i \in 1 .. Len(events) /\ events'[i] = events[i]
    <3>1. CASE Notify(one)
      BY <2>1, <2>2, <3>1, NotifyEach DEF TypeOK
    <3>2. CASE Notify(two)
      <4>1. events \in Seq(EventSet)
        BY DEF TypeOK
      <4>2. \A i \in 1 .. Len(events') :
               \/ i \in 1 .. Len(events) /\ events'[i] = events[i]
               \/ \E k \in 1 .. Len(two) : events'[i] = two[k]
        BY <2>1, <3>2, <4>1, NotifyEach
      <4> QED
        BY <2>2, <4>2
    <3> QED
      BY <2>3, <3>1, <3>2
  <2>5. \A j \in Jobs : tree[j] = "full" => tree'[j] = "full"
    BY <2>3, PathFacts DEF TreeWith, TypeOK
  <2> QED
    BY <2>3, <2>4, <2>5, DeletedFrom DEF Inert
<1>2. ASSUME NEW p \in Paths, DeleteFile(p) PROVE Inert'
  BY <1>2, BoundsAssumption DEF DeleteFile, TypeOK
<1>3. ASSUME NEW j \in Jobs, DeleteFolder(j) PROVE Inert'
  BY <1>3, BoundsAssumption DEF DeleteFolder, TypeOK
<1>4. ASSUME TogglePause PROVE Inert'
  BY <1>4 DEF TogglePause, Inert, osVars, dbVars, obsVars, workVars, restoreVars, boundVars
<1>5. ASSUME ToggleParsers PROVE Inert'
  BY <1>5 DEF ToggleParsers, Inert, osVars, dbVars, obsVars, workVars, restoreVars, boundVars
<1>6. ASSUME Crash PROVE Inert'
  BY <1>6 DEF Crash, Inert, osVars
<1>7. ASSUME StartPipeline PROVE Inert'
  BY <1>7 DEF StartPipeline, Inert, osVars, dbVars, obsVars, workVars, restoreVars, boundVars
<1>8. ASSUME NEW p \in Paths, ScanPath(p) PROVE Inert'
  BY <1>8 DEF ScanPath, Inert, osVars, dbVars, obsVars, workVars, restoreVars, boundVars
<1>9. ASSUME StartObserver PROVE Inert'
  BY <1>9 DEF StartObserver, Inert, osVars, dbVars, obsVars, workVars, restoreVars, boundVars
<1>10. ASSUME OnCreated PROVE Inert'
  <2>1. /\ UNCHANGED <<rpc, delQ, rjobs, tree>> /\ events # <<>> /\ events' = Tail(events)
    BY <1>10 DEF OnCreated, NextEvent, osVars, restoreVars
  <2>2. \A i \in 1 .. Len(events') : i + 1 \in 1 .. Len(events) /\ events'[i] = events[i + 1]
    BY <2>1, HeadTailProperties DEF TypeOK
  <2> QED
    BY <2>1, <2>2 DEF Inert
<1>11. ASSUME OnModified PROVE Inert'
  <2>1. /\ UNCHANGED <<rpc, delQ, rjobs, tree>> /\ events # <<>> /\ events' = Tail(events)
    BY <1>11 DEF OnModified, NextEvent, osVars, restoreVars
  <2>2. \A i \in 1 .. Len(events') : i + 1 \in 1 .. Len(events) /\ events'[i] = events[i + 1]
    BY <2>1, HeadTailProperties DEF TypeOK
  <2> QED
    BY <2>1, <2>2 DEF Inert
<1>12. ASSUME OnDeleted PROVE Inert'
  <2>1. PICK h : h = Head(events).path
    OBVIOUS
  <2>2. /\ UNCHANGED <<rpc, rjobs, tree>> /\ events # <<>> /\ events' = Tail(events)
        /\ Head(events).kind = "deleted" /\ \E d \in PlacesOf(h) : delQ' = delQ \cup {d}
    BY <1>12, <2>1 DEF OnDeleted, NextEvent, osVars, restoreVars
  <2>3. \A i \in 1 .. Len(events') : i + 1 \in 1 .. Len(events) /\ events'[i] = events[i + 1]
    BY <2>2, HeadTailProperties DEF TypeOK
  <2>4. Head(events) = events[1] /\ 1 \in 1 .. Len(events)
    BY <2>2 DEF TypeOK
  <2>5. h \in Paths /\ h[2] # "cad" /\ tree[JobOf[h[1]]] = "full"
    BY <2>1, <2>2, <2>4 DEF Inert
  <2>6. PlacesOf(h) = {JobOf[h[1]]} /\ JobOf[h[1]] \in Jobs
    BY <2>5, PathFacts DEF PlacesOf
  <2> QED
    BY <2>2, <2>3, <2>5, <2>6 DEF Inert
<1>13. ASSUME Take PROVE Inert'
  BY <1>13 DEF Take, Running, Inert, osVars, dbVars, obsVars, workVars, restoreVars, boundVars
<1>14. ASSUME NotReady PROVE Inert'
  BY <1>14 DEF NotReady, Inert, osVars, dbVars, obsVars, workVars, restoreVars, boundVars
<1>15. ASSUME MarkReady PROVE Inert'
  BY <1>15 DEF MarkReady, Inert, osVars, dbVars, obsVars, workVars, restoreVars, boundVars
<1>16. ASSUME Relocate PROVE Inert'
  <2>0. PICK w, dest : w = wpath /\ dest = Sub(w)
    OBVIOUS
  <2> DEFINE removed == IF disk[dest] # 0 THEN <<Event("deleted", dest)>> ELSE <<>>
             moved   == <<Event("deleted", w), Event("created", dest)>>
  <2>1. /\ w \in Paths /\ dest \in Paths /\ w[2] = "root" /\ dest[2] = "sub"
        /\ dest[1] = w[1] /\ JobOf[w[1]] \in Jobs
    BY <1>16, <2>0, PathFacts DEF Relocate, WorkerInv, Sub
  <2>2. removed \in Seq(EventSet) /\ moved \in Seq(EventSet) /\ removed \o moved \in Seq(EventSet)
    BY <2>1, EventTypes, ConcatProperties
  <2>3. /\ UNCHANGED <<rpc, delQ, rjobs>> /\ tree' = [tree EXCEPT ![JobOf[w[1]]] = "full"]
        /\ (Notify(removed \o moved) \/ Notify(removed))
    BY <1>16, <2>0 DEF Relocate, restoreVars
  <2>4. /\ \A i \in 1 .. Len(removed) : removed[i].path \in {w, dest}
        /\ \A i \in 1 .. Len(moved) : moved[i].path \in {w, dest}
    BY DEF Event
  <2> HIDE DEF removed, moved
  <2>5. \A i \in 1 .. Len(removed \o moved) : (removed \o moved)[i].path \in {w, dest}
    BY <2>2, <2>4, JoinedEach
  <2>6. \A i \in 1 .. Len(events') :
            (i \in 1 .. Len(events) /\ events'[i] = events[i]) \/ events'[i].path \in {w, dest}
    <3>1. CASE Notify(removed \o moved)
      <4> DEFINE every == removed \o moved
      <4>1. every \in Seq(EventSet) /\ Notify(every) /\ events \in Seq(EventSet)
        BY <2>2, <3>1 DEF TypeOK
      <4>2. \A i \in 1 .. Len(every) : every[i].path \in {w, dest}
        BY <2>5
      <4> HIDE DEF every
      <4>3. \A i \in 1 .. Len(events') :
               \/ i \in 1 .. Len(events) /\ events'[i] = events[i]
               \/ \E k \in 1 .. Len(every) : events'[i] = every[k]
        BY <4>1, NotifyEach
      <4> QED
        BY <4>2, <4>3
    <3>2. CASE Notify(removed)
      <4>1. events \in Seq(EventSet)
        BY DEF TypeOK
      <4>2. \A i \in 1 .. Len(events') :
               \/ i \in 1 .. Len(events) /\ events'[i] = events[i]
               \/ \E k \in 1 .. Len(removed) : events'[i] = removed[k]
        BY <2>2, <3>2, <4>1, NotifyEach
      <4> QED
        BY <2>4, <4>2
    <3> QED
      BY <2>3, <3>1, <3>2
  <2>7. tree'[JobOf[w[1]]] = "full" /\ \A j \in Jobs : tree[j] = "full" => tree'[j] = "full"
    BY <2>1, <2>3 DEF TypeOK
  <2> QED
    BY <2>1, <2>3, <2>6, <2>7, DeletedFrom DEF Inert
<1>17. ASSUME GateEtc PROVE Inert'
  BY <1>17 DEF GateEtc, Inert, osVars, dbVars, obsVars, workVars, restoreVars, boundVars
<1>18. ASSUME GateParsed PROVE Inert'
  BY <1>18 DEF GateParsed, Inert, osVars, dbVars, obsVars, workVars, restoreVars, boundVars
<1>19. ASSUME Parse PROVE Inert'
  BY <1>19 DEF Parse, Inert, osVars, dbVars, obsVars, workVars, restoreVars, boundVars
<1>20. ASSUME ParseFails PROVE Inert'
  BY <1>20 DEF ParseFails, Inert, osVars, dbVars, obsVars, workVars, restoreVars, boundVars
<1>21. ASSUME CadKnown PROVE Inert'
  BY <1>21 DEF CadKnown, Inert, osVars, dbVars, obsVars, workVars, restoreVars, boundVars
<1>22. ASSUME Archive PROVE Inert'
  BY <1>22 DEF Archive, Inert, osVars, dbVars, obsVars, workVars, restoreVars, boundVars
<1>23. ASSUME Commit PROVE Inert'
  BY <1>23 DEF Commit, Inert, osVars, dbVars, obsVars, workVars, restoreVars, boundVars
<1>24. ASSUME CommitFails PROVE Inert'
  BY <1>24 DEF CommitFails, Inert, osVars, dbVars, obsVars, workVars, restoreVars, boundVars
<1>25. ASSUME RestoreBatch PROVE Inert'
  BY <1>25, NamesAssumption DEF RestoreBatch, Inert, Resolve, osVars, obsVars
<1>26. ASSUME RestoreBatchEnd PROVE Inert'
  BY <1>26 DEF RestoreBatchEnd, Inert, osVars, dbVars, obsVars, workVars, restoreVars, boundVars
<1>27. ASSUME RestoreCopied PROVE Inert'
  BY <1>27 DEF RestoreCopied, Inert
<1>28. ASSUME RestoreMarked PROVE Inert'
  BY <1>28 DEF RestoreMarked, Inert
<1>29. ASSUME NEW j \in Jobs, RestoreCheck(j) PROVE Inert'
  <2>1. ~Lost(j)
    BY <1>29 DEF RestoreCheck, Inert, Lost
  <2> QED
    BY <1>29, <2>1 DEF RestoreCheck, Inert, obsVars
<1>30. ASSUME NEW p \in Paths, RestoreCopy(p) PROVE Inert'
  BY <1>30 DEF RestoreCopy, Inert
<1>31. ASSUME NEW p \in Paths, RestoreMark(p) PROVE Inert'
  BY <1>31 DEF RestoreMark, Inert
<1>32. ASSUME UNCHANGED vars PROVE Inert'
  BY <1>32 DEF vars, Inert, osVars, dbVars, obsVars, workVars, restoreVars, boundVars
<1> QED
  BY <1>1, <1>2, <1>3, <1>4, <1>5, <1>6, <1>7, <1>8, <1>9, <1>10, <1>11, <1>12, <1>13, <1>14, <1>15, <1>16,
     <1>17, <1>18, <1>19, <1>20, <1>21, <1>22, <1>23, <1>24, <1>25, <1>26, <1>27, <1>28, <1>29, <1>30, <1>31, <1>32
  DEF Next, Environment, Collect, Startup, Observer, Worker, DeleteWorker

(* Without deletions every step keeps the vault at least as new as the row,
   and the version in hand between the two. *)
LEMMA OrderedNext ==
    ASSUME NoDeletes, DropsAtTop, TypeOK, WorkerInv, Placed, Bounded, Inert, Ordered, [Next]_vars
    PROVE  Ordered'
<1>1. ASSUME NEW p \in Paths, Write(p) PROVE Ordered'
  <2>1. /\ UNCHANGED <<vault, rows, wpc, wpath, wver>> /\ p \in Drops /\ p[1] \in Files
        /\ disk' = [disk EXCEPT ![p] = latest[p[1]] + 1]
    BY <1>1, PathFacts DEF Write, dbVars, workVars
  <2>2. \A q \in Paths : disk[q] \in Nat /\ vault[q] \in Nat /\ latest[q[1]] \in Nat
    BY PathFacts, BoundsAssumption DEF TypeOK, Versions
  <2>3. \A q \in Paths : IF q = p THEN disk'[q] = latest[q[1]] + 1 ELSE disk'[q] = disk[q]
    BY <2>1 DEF TypeOK
  <2>4. \A q \in Paths : disk[q] <= disk'[q]
    BY <2>2, <2>3 DEF Bounded
  <2>5. ASSUME NEW f \in JobFiles, disk'[Top(f)] # 0 PROVE disk'[Below(f)] < disk'[Top(f)]
    <3>1. /\ Top(f) \in Paths /\ Below(f) \in Paths /\ Top(f)[1] = f /\ Below(f)[1] = f
          /\ Below(f) # p
      BY <2>1, TopFacts DEF DropsAtTop, Below
    <3>2. disk'[Below(f)] = disk[Below(f)] /\ disk[Below(f)] <= latest[f]
      BY <2>3, <3>1 DEF Bounded
    <3> QED
      BY <2>2, <2>3, <2>5, <3>1, <3>2 DEF Ordered
  <2>6. \A q \in Paths : q[2] # "root" => vault'[q] <= disk'[q]
    BY <2>1, <2>2, <2>4 DEF Ordered
  <2>7. wpc # "idle" => wpath \in Paths /\ wver \in Nat
    BY BoundsAssumption DEF WorkerInv, TypeOK, Versions
  <2> QED
    BY <2>1, <2>2, <2>4, <2>5, <2>6, <2>7 DEF Ordered, StoredIsArchived
<1>2. ASSUME NEW p \in Paths, DeleteFile(p) PROVE Ordered'
  BY <1>2, BoundsAssumption DEF DeleteFile, NoDeletes, TypeOK
<1>3. ASSUME NEW j \in Jobs, DeleteFolder(j) PROVE Ordered'
  BY <1>3, BoundsAssumption DEF DeleteFolder, NoDeletes, TypeOK
<1>4. ASSUME TogglePause PROVE Ordered'
  <2>1. UNCHANGED <<disk, vault, rows, wpc, wpath, wver>>
    BY <1>4 DEF TogglePause, osVars, dbVars, workVars
  <2> QED
    BY <2>1 DEF Ordered, StoredIsArchived
<1>5. ASSUME ToggleParsers PROVE Ordered'
  <2>1. UNCHANGED <<disk, vault, rows, wpc, wpath, wver>>
    BY <1>5 DEF ToggleParsers, osVars, dbVars, workVars
  <2> QED
    BY <2>1 DEF Ordered, StoredIsArchived
<1>6. ASSUME Crash PROVE Ordered'
  BY <1>6 DEF Crash, Ordered, StoredIsArchived, osVars, dbVars
<1>7. ASSUME StartPipeline PROVE Ordered'
  <2>1. UNCHANGED <<disk, vault, rows, wpc, wpath, wver>>
    BY <1>7 DEF StartPipeline, osVars, dbVars, workVars
  <2> QED
    BY <2>1 DEF Ordered, StoredIsArchived
<1>8. ASSUME NEW p \in Paths, ScanPath(p) PROVE Ordered'
  <2>1. UNCHANGED <<disk, vault, rows, wpc, wpath, wver>>
    BY <1>8 DEF ScanPath, osVars, dbVars, workVars
  <2> QED
    BY <2>1 DEF Ordered, StoredIsArchived
<1>9. ASSUME StartObserver PROVE Ordered'
  <2>1. UNCHANGED <<disk, vault, rows, wpc, wpath, wver>>
    BY <1>9 DEF StartObserver, osVars, dbVars, workVars
  <2> QED
    BY <2>1 DEF Ordered, StoredIsArchived
<1>10. ASSUME OnCreated PROVE Ordered'
  <2>1. UNCHANGED <<disk, vault, rows, wpc, wpath, wver>>
    BY <1>10 DEF OnCreated, NextEvent, osVars, dbVars, workVars
  <2> QED
    BY <2>1 DEF Ordered, StoredIsArchived
<1>11. ASSUME OnModified PROVE Ordered'
  <2>1. UNCHANGED <<disk, vault, rows, wpc, wpath, wver>>
    BY <1>11 DEF OnModified, NextEvent, osVars, dbVars, workVars
  <2> QED
    BY <2>1 DEF Ordered, StoredIsArchived
<1>12. ASSUME OnDeleted PROVE Ordered'
  <2>1. UNCHANGED <<disk, vault, rows, wpc, wpath, wver>>
    BY <1>12 DEF OnDeleted, NextEvent, osVars, dbVars, workVars
  <2> QED
    BY <2>1 DEF Ordered, StoredIsArchived
<1>13. ASSUME Take PROVE Ordered'
  <2>1. /\ UNCHANGED <<disk, vault, rows>>
        /\ (UNCHANGED <<wpc, wpath, wver>> \/ wpc' = "ready")
    BY <1>13 DEF Take, osVars, dbVars, workVars
  <2> QED
    BY <2>1 DEF Ordered, StoredIsArchived
<1>14. ASSUME NotReady PROVE Ordered'
  <2>1. UNCHANGED <<disk, vault, rows>> /\ wpc' \notin {"place", "archive", "commit"}
    BY <1>14 DEF NotReady, WorkerDone, osVars, dbVars
  <2> QED
    BY <2>1 DEF Ordered, StoredIsArchived
<1>15. ASSUME MarkReady PROVE Ordered'
  <2>1. /\ UNCHANGED <<disk, vault, rows, wpath>> /\ disk[wpath] # 0
        /\ wpc' \in {"place", "gate"}
    BY <1>15 DEF MarkReady, osVars, dbVars
  <2> QED
    BY <2>1 DEF Ordered, StoredIsArchived
<1>16. ASSUME Relocate PROVE Ordered'
  <2>0. PICK w, dest : w = wpath /\ dest = Sub(w)
    OBVIOUS
  <2>1. /\ w \in Paths /\ dest \in Paths /\ w[2] = "root" /\ dest[2] = "sub"
        /\ w = Top(w[1]) /\ dest = Below(w[1]) /\ w[1] \in JobFiles
        /\ disk[w] # 0
    BY <1>16, <2>0, PathFacts DEF Relocate, WorkerInv, Sub, Paths, Top, Below, Ordered
  <2>2. /\ UNCHANGED <<vault, rows>> /\ wpc' = "gate"
        /\ disk' = [disk EXCEPT ![dest] = disk[w], ![w] = 0]
    BY <1>16, <2>0, <2>1 DEF Relocate, dbVars
  <2>3. disk'[w] = 0 /\ disk'[dest] = disk[w] /\ \A q \in Paths : q \notin {w, dest} => disk'[q] = disk[q]
    BY <2>1, <2>2 DEF TypeOK
  <2>4. disk[dest] < disk[w]
    BY <2>1 DEF Ordered
  <2>5. ASSUME NEW f \in JobFiles, disk'[Top(f)] # 0 PROVE disk'[Below(f)] < disk'[Top(f)]
    <3>1. Top(f) \in Paths /\ Below(f) \in Paths /\ f # w[1]
      BY <2>1, <2>3, <2>5, TopFacts
    <3>2. Top(f) \notin {w, dest} /\ Below(f) \notin {w, dest}
      BY <2>1, <3>1 DEF Top, Below
    <3> QED
      BY <2>3, <2>5, <3>1, <3>2 DEF Ordered
  <2>6. ASSUME NEW q \in Paths, q[2] # "root" PROVE vault'[q] <= disk'[q]
    <3>1. vault[q] <= disk[q] /\ vault[q] \in Nat /\ disk[q] \in Nat /\ disk[w] \in Nat
      BY <2>1, <2>6, BoundsAssumption DEF Ordered, TypeOK, Versions
    <3>2. q = dest \/ disk'[q] = disk[q]
      BY <2>1, <2>3, <2>6
    <3>3. CASE q = dest
      <4>1. vault[dest] <= disk[dest] /\ disk[dest] < disk[w] /\ disk'[dest] = disk[w]
        BY <2>3, <2>4, <3>1, <3>3
      <4>2. vault[dest] \in Nat /\ disk[dest] \in Nat /\ disk[w] \in Nat
        BY <3>1, <3>3
      <4> QED
        BY <2>2, <3>3, <4>1, <4>2
    <3> QED
      BY <2>2, <3>1, <3>2, <3>3
  <2> QED
    BY <2>2, <2>5, <2>6 DEF Ordered, StoredIsArchived
<1>17. ASSUME GateEtc PROVE Ordered'
  <2>1. UNCHANGED <<disk, vault, rows, wpath>> /\ wpc' = "archive" /\ wpath[1] \in EtcFiles
    BY <1>17 DEF GateEtc, osVars
  <2> QED
    BY <2>1 DEF Ordered, StoredIsArchived
<1>18. ASSUME GateParsed PROVE Ordered'
  <2>1. UNCHANGED <<disk, vault, rows>> /\ wpc' \notin {"place", "archive", "commit"}
    BY <1>18 DEF GateParsed, WorkerDone, osVars, dbVars
  <2> QED
    BY <2>1 DEF Ordered, StoredIsArchived
<1>19. ASSUME Parse PROVE Ordered'
  <2>1. /\ UNCHANGED <<disk, vault, rows, wpath>> /\ wpc' = "archive" /\ wver' = disk[wpath]
        /\ wpath \in Paths
    BY <1>19 DEF Parse, osVars, WorkerInv
  <2>2. disk[wpath] \in Nat
    BY <2>1, BoundsAssumption DEF TypeOK, Versions
  <2> QED
    BY <2>1, <2>2 DEF Ordered, StoredIsArchived
<1>20. ASSUME ParseFails PROVE Ordered'
  <2>1. UNCHANGED <<disk, vault, rows>> /\ wpc' \notin {"place", "archive", "commit"}
    BY <1>20 DEF ParseFails, WorkerDone, osVars, dbVars
  <2> QED
    BY <2>1 DEF Ordered, StoredIsArchived
<1>21. ASSUME CadKnown PROVE Ordered'
  <2>1. UNCHANGED <<disk, vault, rows>> /\ wpc' \notin {"place", "archive", "commit"}
    BY <1>21 DEF CadKnown, WorkerDone, osVars, dbVars
  <2> QED
    BY <2>1 DEF Ordered, StoredIsArchived
<1>22. ASSUME Archive PROVE Ordered'
  <2>1. PICK w \in Paths : w = wpath /\ w[2] # "root"
    BY <1>22 DEF Archive, WorkerInv, Placed
  <2>2. /\ UNCHANGED <<disk, rows>> /\ wpc = "archive"
        /\ vault' = [q \in Paths |-> IF q \in ArchivedWith(w) THEN disk[q] ELSE vault[q]]
        /\ w[1] \in EtcFiles => wpc' = "idle"
        /\ w[1] \notin EtcFiles => wpc' = "commit" /\ wpath' = w /\ wver' = wver
    BY <1>22, <2>1 DEF Archive, WorkerDone, osVars
  <2>3. \A q \in Paths : disk[q] \in Nat /\ vault[q] \in Nat
    BY BoundsAssumption DEF TypeOK, Versions
  <2>4. \A q \in Paths : q[2] # "root" => vault[q] <= vault'[q] /\ vault'[q] <= disk[q]
    BY <2>2, <2>3 DEF Ordered
  <2>5. StoredIsArchived'
    <3> SUFFICES ASSUME NEW q \in Paths, q[2] # "root", q[1] \notin EtcFiles
                 PROVE  rows'[q[1]] <= vault'[q]
      BY DEF StoredIsArchived
    <3>1. rows[q[1]] <= vault[q] /\ rows[q[1]] \in Nat /\ vault'[q] \in Nat
      <4>1. rows[q[1]] <= vault[q]
        BY DEF Ordered, StoredIsArchived
      <4>2. rows[q[1]] \in Nat
        BY PathFacts, BoundsAssumption DEF TypeOK, Versions
      <4> QED
        BY <2>2, <2>3, <4>1, <4>2
    <3>2. vault[q] <= vault'[q] /\ vault[q] \in Nat
      BY <2>3, <2>4
    <3> QED
      BY <2>2, <3>1, <3>2
  <2>6. w[1] \notin EtcFiles => wver <= vault'[w]
    <3> SUFFICES ASSUME w[1] \notin EtcFiles PROVE wver <= vault'[w]
      OBVIOUS
    <3>1. wver <= disk[w] /\ wver \in Nat
      BY <2>1, <2>2, BoundsAssumption DEF Ordered, TypeOK, Versions
    <3>2. CASE disk[w] = 0
      BY <2>1, <2>2, <2>3, <3>1, <3>2 DEF ArchivedWith, OnDisk
    <3>3. CASE disk[w] # 0
      BY <2>1, <2>2, <3>1, <3>3 DEF ArchivedWith, OnDisk
    <3> QED
      BY <3>2, <3>3
  <2>7. wpc' # "place" /\ wpc' # "archive" /\ (wpc' = "commit" => wver' <= vault'[wpath'])
    BY <2>2, <2>6
  <2>8. \A q \in Paths : q[2] # "root" => vault'[q] <= disk'[q]
    BY <2>2, <2>4
  <2> QED
    BY <2>2, <2>5, <2>7, <2>8 DEF Ordered
<1>23. ASSUME Commit PROVE Ordered'
  <2>1. PICK w \in Paths : w = wpath /\ w[2] # "root"
    BY <1>23 DEF Commit, WorkerInv, Placed
  <2>2. /\ UNCHANGED <<disk, vault>> /\ wpc = "commit" /\ wpc' = "idle"
        /\ rows' = [rows EXCEPT ![w[1]] = wver]
    BY <1>23, <2>1 DEF Commit, WorkerDone, osVars
  <2>3. wver <= vault[w]
    BY <2>1, <2>2 DEF Ordered
  <2>4. StoredIsArchived'
    <3> SUFFICES ASSUME NEW q \in Paths, q[2] # "root", q[1] \notin EtcFiles
                 PROVE  rows'[q[1]] <= vault[q]
      BY <2>2 DEF StoredIsArchived
    <3>1. CASE q = w
      BY <2>2, <2>3, <3>1, PathFacts DEF TypeOK
    <3>2. CASE q # w
      <4>1. q[1] # w[1]
        BY <2>1, <3>2, OnePlace
      <4> QED
        BY <2>2, <4>1, PathFacts DEF Ordered, StoredIsArchived, TypeOK
    <3> QED
      BY <3>1, <3>2
  <2> QED
    BY <2>2, <2>4 DEF Ordered
<1>24. ASSUME CommitFails PROVE Ordered'
  <2>1. UNCHANGED <<disk, vault, rows>> /\ wpc' \notin {"place", "archive", "commit"}
    BY <1>24 DEF CommitFails, WorkerDone, osVars, dbVars
  <2> QED
    BY <2>1 DEF Ordered, StoredIsArchived
<1>25. ASSUME RestoreBatch PROVE Ordered'
  <2>1. UNCHANGED <<disk, vault, rows, wpc, wpath, wver>>
    BY <1>25 DEF RestoreBatch, osVars, dbVars, workVars
  <2> QED
    BY <2>1 DEF Ordered, StoredIsArchived
<1>26. ASSUME RestoreBatchEnd PROVE Ordered'
  <2>1. UNCHANGED <<disk, vault, rows, wpc, wpath, wver>>
    BY <1>26 DEF RestoreBatchEnd, osVars, dbVars, workVars
  <2> QED
    BY <2>1 DEF Ordered, StoredIsArchived
<1>27. ASSUME RestoreCopied PROVE Ordered'
  BY <1>27 DEF RestoreCopied, Inert
<1>28. ASSUME RestoreMarked PROVE Ordered'
  BY <1>28 DEF RestoreMarked, Inert
<1>29. ASSUME NEW j \in Jobs, RestoreCheck(j) PROVE Ordered'
  <2>1. UNCHANGED <<disk, vault, rows, wpc, wpath, wver>>
    BY <1>29 DEF RestoreCheck, dbVars, workVars
  <2> QED
    BY <2>1 DEF Ordered, StoredIsArchived
<1>30. ASSUME NEW p \in Paths, RestoreCopy(p) PROVE Ordered'
  BY <1>30 DEF RestoreCopy, Inert
<1>31. ASSUME NEW p \in Paths, RestoreMark(p) PROVE Ordered'
  BY <1>31 DEF RestoreMark, Inert
<1>32. ASSUME UNCHANGED vars PROVE Ordered'
  <2>1. UNCHANGED <<disk, vault, rows, wpc, wpath, wver>>
    BY <1>32 DEF vars, osVars, dbVars, workVars
  <2> QED
    BY <2>1 DEF Ordered, StoredIsArchived
<1> QED
  BY <1>1, <1>2, <1>3, <1>4, <1>5, <1>6, <1>7, <1>8, <1>9, <1>10, <1>11, <1>12, <1>13, <1>14, <1>15, <1>16,
     <1>17, <1>18, <1>19, <1>20, <1>21, <1>22, <1>23, <1>24, <1>25, <1>26, <1>27, <1>28, <1>29, <1>30, <1>31, <1>32
  DEF Next, Environment, Collect, Startup, Observer, Worker, DeleteWorker

(* As long as nobody deletes files, and the parsed ones are dropped at the  *)
(* top of the Job folder, no row of the database runs ahead of the vault    *)
(* copy it stands for: the parsers archive before they commit, a kill       *)
(* between the two leaves the copy ahead, and no relocation puts an older   *)
(* file where a newer one was archived.                                     *)
THEOREM RowsFollowTheVault ==
    ASSUME NoDeletes, DropsAtTop PROVE Spec => []StoredIsArchived
<1> DEFINE SInv == Placed /\ Quiet /\ Still /\ Bounded /\ Inert /\ Ordered
<1>1. Init => SInv
  <2> SUFFICES ASSUME Init PROVE SInv
    OBVIOUS
  <2>1. Bounded
    BY NoneIsNone, PathFacts DEF Init, Bounded
  <2>2. Inert
    BY DEF Init, Inert
  <2>3. Ordered
    BY TopFacts, PathFacts DEF Init, Ordered, StoredIsArchived
  <2> QED
    BY <2>1, <2>2, <2>3 DEF Init, Placed, Quiet, Still
<1>2. TypeOK /\ TypeOK' /\ WorkerInv /\ SInv /\ [Next]_vars => SInv'
  <2> SUFFICES ASSUME TypeOK, TypeOK', WorkerInv, SInv, [Next]_vars PROVE SInv'
    OBVIOUS
  <2>1. deletes' = deletes
    BY NoDeletes DEF TypeOK, NoDeletes
  <2> QED
    BY <2>1, NoDeletes, DropsAtTop, QuietNext, BoundedNext, InertNext, OrderedNext
<1>3. SInv => StoredIsArchived
  BY DEF Ordered
<1> QED
  BY <1>1, <1>2, <1>3, WorkerCorrect, PTL DEF Spec

----------------------------------------------------------------------------
(* A file that is written once is parsed once.                              *)

(* Every path has room in processed_files.                                  *)
CacheHoldsAll == Cardinality(Paths) <= CacheSize

Once(f) == deletes = 0 /\ crashes = 0 /\ latest[f] <= 1

(* Before it is moved, the file of a Job is at the top and has no row; from *)
(* then on it is below and marked, and no event takes the mark off.         *)
FirstTime(f) ==
    /\ disk[Top(f)] # 0 => disk[Below(f)] = 0
    /\ disk[Below(f)] # 0 => IsMarked(Below(f))
    /\ rows[f] # 0 => disk[Below(f)] # 0
    /\ wpath = Top(f) => disk[Top(f)] # 0
    /\ wpath = Below(f) =>
           /\ wpc \notin {"ready", "place"} /\ disk[Below(f)] # 0
           /\ wpc \in {"gate", "parse", "archive"} => rows[f] = 0
    /\ \A i \in 1 .. Len(events) : events[i].path = Below(f) => events[i].kind = "created"

ReadOnce == \A f \in JobFiles : Once(f) => FirstTime(f)

(* A cache with room for every path forgets no mark when one is added.      *)
LEMMA MarksStay ==
    ASSUME CacheHoldsAll, marked \in Seq(Paths), MarkedOnce, NEW p \in Paths,
           marked' = MarkedAfter(p)
    PROVE  IsMarked(p)' /\ \A q : IsMarked(q) => IsMarked(q)'
<1> DEFINE longer == Append(marked, p)  n == Len(marked) + 1
<1>1. /\ longer \in Seq(Paths) /\ Len(longer) = n
      /\ \A i \in 1 .. Len(marked) : longer[i] = marked[i]
      /\ longer[n] = p /\ Len(marked) \in Nat /\ n \in Nat
  OBVIOUS
<1>2. CASE IsMarked(p)
  BY <1>2 DEF MarkedAfter, IsMarked
<1>3. CASE ~IsMarked(p)
  <2>1. \A i \in 1 .. Len(marked) : marked[i] # p
    BY <1>3 DEF IsMarked
  <2> HIDE DEF longer
  <2>2. \A i, k \in 1 .. n : longer[i] = longer[k] => i = k
    BY <1>1, <2>1 DEF MarkedOnce
  <2>3. longer \in Injection(1 .. n, Paths)
    BY <1>1, <2>2 DEF Injection, IsInjective
  <2>4. Cardinality(1 .. n) = n
    BY <1>1, FS_Interval
  <2>5. n <= Cardinality(Paths)
    BY <2>3, <2>4, PathsFinite, FS_Injection
  <2>6. Cardinality(Paths) \in Nat
    BY PathsFinite, FS_CardinalityType
  <2>7. ~ (Len(longer) > CacheSize)
    BY <1>1, <2>5, <2>6, BoundsAssumption DEF CacheHoldsAll
  <2>8. marked' = longer
    BY <1>3, <2>7 DEF MarkedAfter, longer
  <2> QED
    BY <1>1, <2>8 DEF IsMarked
<1> QED
  BY <1>2, <1>3

(* Taking a mark off leaves the others.                                     *)
LEMMA OtherMarksStay ==
    ASSUME marked \in Seq(Paths), NEW p, marked' = UnmarkedAfter(p)
    PROVE  \A q : q # p /\ IsMarked(q) => IsMarked(q)'
<1>1. CASE ~IsMarked(p)
  BY <1>1 DEF UnmarkedAfter, IsMarked
<1>2. CASE IsMarked(p)
  <2> DEFINE i == CHOOSE k \in 1 .. Len(marked) : marked[k] = p
             n == Len(marked)
  <2>1. i \in 1 .. n /\ marked[i] = p /\ n \in Nat
    BY <1>2 DEF IsMarked
  <2> DEFINE s == SubSeq(marked, 1, i - 1)  t == SubSeq(marked, i + 1, Len(marked))
  <2>2. marked' = s \o t
    BY <1>2 DEF UnmarkedAfter
  <2> HIDE DEF i
  <2>3. s \in Seq(Paths) /\ Len(s) = i - 1 /\ \A k \in 1 .. i - 1 : s[k] = marked[k]
    BY <2>1
  <2>4. /\ t \in Seq(Paths) /\ Len(t) = n - i
        /\ \A k \in 1 .. n - i : t[k] = marked[k + i]
    BY <2>1
  <2> HIDE DEF s, t, n
  <2>5. /\ Len(s \o t) = Len(s) + Len(t)
        /\ \A k \in 1 .. Len(s) + Len(t) : (s \o t)[k] = IF k <= Len(s) THEN s[k] ELSE t[k - Len(s)]
    BY <2>3, <2>4, ConcatProperties
  <2>6. Len(marked') = n - 1
    BY <2>1, <2>2, <2>3, <2>4, <2>5
  <2>7. ASSUME NEW k \in 1 .. n, k # i PROVE \E m \in 1 .. Len(marked') : marked'[m] = marked[k]
    <3>1. CASE k < i
      <4>1. k \in 1 .. i - 1 /\ k \in 1 .. n - 1 /\ k \in 1 .. Len(s) + Len(t) /\ k <= Len(s)
        BY <2>1, <2>3, <2>4, <2>7, <3>1
      <4>2. marked'[k] = marked[k]
        BY <2>2, <2>3, <2>5, <4>1
      <4> QED
        BY <2>6, <4>1, <4>2
    <3>2. CASE ~ (k < i)
      <4>1. /\ k - 1 \in 1 .. n - 1 /\ k - 1 \in 1 .. Len(s) + Len(t) /\ ~ (k - 1 <= Len(s))
            /\ (k - 1) - Len(s) = k - i /\ k - i \in 1 .. n - i /\ (k - i) + i = k
        BY <2>1, <2>3, <2>4, <2>7, <3>2
      <4>2. marked'[k - 1] = t[k - i] /\ t[k - i] = marked[k]
        BY <2>2, <2>4, <2>5, <4>1
      <4> QED
        BY <2>6, <4>1, <4>2
    <3> QED
      BY <3>1, <3>2
  <2>8. ASSUME NEW q, q # p, IsMarked(q) PROVE IsMarked(q)'
    <3>1. PICK k \in 1 .. n : marked[k] = q
      BY <2>8 DEF IsMarked, n
    <3>2. k # i
      BY <2>1, <2>8, <3>1
    <3> QED
      BY <2>7, <3>1, <3>2 DEF IsMarked
  <2> QED
    BY <2>8
<1> QED
  BY <1>1, <1>2

(* Deletions, kills and writes are only added to.                           *)
LEMMA CountsGrow ==
    ASSUME TypeOK, [Next]_vars
    PROVE  /\ deletes <= deletes' /\ crashes <= crashes'
           /\ \A f \in Files : latest[f] <= latest'[f]
<1> DEFINE Grown == /\ deletes <= deletes' /\ crashes <= crashes'
                    /\ \A f \in Files : latest[f] <= latest'[f]
<1>1. /\ deletes \in Nat /\ crashes \in Nat /\ \A f \in Files : latest[f] \in Nat
  BY BoundsAssumption DEF TypeOK, Versions
<1>2. ASSUME NEW p \in Paths, Write(p) PROVE Grown
  <2>1. latest' = [latest EXCEPT ![p[1]] = @ + 1] /\ UNCHANGED <<deletes, crashes>>
    BY <1>2 DEF Write, boundVars
  <2>2. \A f \in Files : latest'[f] = IF f = p[1] THEN latest[f] + 1 ELSE latest[f]
    BY <2>1 DEF TypeOK
  <2> QED
    BY <1>1, <2>1, <2>2
<1>3. ASSUME NEW p \in Paths, DeleteFile(p) PROVE Grown
  BY <1>1, <1>3 DEF DeleteFile, osVars, dbVars, obsVars, workVars, restoreVars, boundVars
<1>4. ASSUME NEW j \in Jobs, DeleteFolder(j) PROVE Grown
  BY <1>1, <1>4 DEF DeleteFolder, osVars, dbVars, obsVars, workVars, restoreVars, boundVars
<1>5. ASSUME TogglePause PROVE Grown
  BY <1>1, <1>5 DEF TogglePause, osVars, dbVars, obsVars, workVars, restoreVars, boundVars
<1>6. ASSUME ToggleParsers PROVE Grown
  BY <1>1, <1>6 DEF ToggleParsers, osVars, dbVars, obsVars, workVars, restoreVars, boundVars
<1>7. ASSUME Crash PROVE Grown
  BY <1>1, <1>7 DEF Crash, osVars, dbVars, obsVars, workVars, restoreVars, boundVars
<1>8. ASSUME StartPipeline PROVE Grown
  BY <1>1, <1>8 DEF StartPipeline, osVars, dbVars, obsVars, workVars, restoreVars, boundVars
<1>9. ASSUME NEW p \in Paths, ScanPath(p) PROVE Grown
  BY <1>1, <1>9 DEF ScanPath, osVars, dbVars, obsVars, workVars, restoreVars, boundVars
<1>10. ASSUME StartObserver PROVE Grown
  BY <1>1, <1>10 DEF StartObserver, osVars, dbVars, obsVars, workVars, restoreVars, boundVars
<1>11. ASSUME OnCreated PROVE Grown
  BY <1>1, <1>11 DEF OnCreated, osVars, dbVars, obsVars, workVars, restoreVars, boundVars
<1>12. ASSUME OnModified PROVE Grown
  BY <1>1, <1>12 DEF OnModified, osVars, dbVars, obsVars, workVars, restoreVars, boundVars
<1>13. ASSUME OnDeleted PROVE Grown
  BY <1>1, <1>13 DEF OnDeleted, osVars, dbVars, obsVars, workVars, restoreVars, boundVars
<1>14. ASSUME Take PROVE Grown
  BY <1>1, <1>14 DEF Take, osVars, dbVars, obsVars, workVars, restoreVars, boundVars
<1>15. ASSUME NotReady PROVE Grown
  BY <1>1, <1>15 DEF NotReady, osVars, dbVars, obsVars, workVars, restoreVars, boundVars
<1>16. ASSUME MarkReady PROVE Grown
  BY <1>1, <1>16 DEF MarkReady, osVars, dbVars, obsVars, workVars, restoreVars, boundVars
<1>17. ASSUME Relocate PROVE Grown
  BY <1>1, <1>17 DEF Relocate, osVars, dbVars, obsVars, workVars, restoreVars, boundVars
<1>18. ASSUME GateEtc PROVE Grown
  BY <1>1, <1>18 DEF GateEtc, osVars, dbVars, obsVars, workVars, restoreVars, boundVars
<1>19. ASSUME GateParsed PROVE Grown
  BY <1>1, <1>19 DEF GateParsed, osVars, dbVars, obsVars, workVars, restoreVars, boundVars
<1>20. ASSUME Parse PROVE Grown
  BY <1>1, <1>20 DEF Parse, osVars, dbVars, obsVars, workVars, restoreVars, boundVars
<1>21. ASSUME ParseFails PROVE Grown
  BY <1>1, <1>21 DEF ParseFails, osVars, dbVars, obsVars, workVars, restoreVars, boundVars
<1>22. ASSUME CadKnown PROVE Grown
  BY <1>1, <1>22 DEF CadKnown, osVars, dbVars, obsVars, workVars, restoreVars, boundVars
<1>23. ASSUME Archive PROVE Grown
  BY <1>1, <1>23 DEF Archive, osVars, dbVars, obsVars, workVars, restoreVars, boundVars
<1>24. ASSUME Commit PROVE Grown
  BY <1>1, <1>24 DEF Commit, osVars, dbVars, obsVars, workVars, restoreVars, boundVars
<1>25. ASSUME CommitFails PROVE Grown
  BY <1>1, <1>25 DEF CommitFails, osVars, dbVars, obsVars, workVars, restoreVars, boundVars
<1>26. ASSUME RestoreBatch PROVE Grown
  BY <1>1, <1>26 DEF RestoreBatch, osVars, dbVars, obsVars, workVars, restoreVars, boundVars
<1>27. ASSUME RestoreBatchEnd PROVE Grown
  BY <1>1, <1>27 DEF RestoreBatchEnd, osVars, dbVars, obsVars, workVars, restoreVars, boundVars
<1>28. ASSUME RestoreCopied PROVE Grown
  BY <1>1, <1>28 DEF RestoreCopied, osVars, dbVars, obsVars, workVars, restoreVars, boundVars
<1>29. ASSUME RestoreMarked PROVE Grown
  BY <1>1, <1>29 DEF RestoreMarked, osVars, dbVars, obsVars, workVars, restoreVars, boundVars
<1>30. ASSUME NEW j \in Jobs, RestoreCheck(j) PROVE Grown
  BY <1>1, <1>30 DEF RestoreCheck, osVars, dbVars, obsVars, workVars, restoreVars, boundVars
<1>31. ASSUME NEW p \in Paths, RestoreCopy(p) PROVE Grown
  BY <1>1, <1>31 DEF RestoreCopy, osVars, dbVars, obsVars, workVars, restoreVars, boundVars
<1>32. ASSUME NEW p \in Paths, RestoreMark(p) PROVE Grown
  BY <1>1, <1>32 DEF RestoreMark, osVars, dbVars, obsVars, workVars, restoreVars, boundVars
<1>33. ASSUME UNCHANGED vars PROVE Grown
  BY <1>1, <1>33 DEF vars, osVars, dbVars, obsVars, workVars, restoreVars, boundVars
<1> HIDE DEF Grown
<1>34. Grown
  BY <1>1, <1>2, <1>3, <1>4, <1>5, <1>6, <1>7, <1>8, <1>9, <1>10, <1>11, <1>12, <1>13, <1>14,
     <1>15, <1>16, <1>17, <1>18, <1>19, <1>20, <1>21, <1>22, <1>23, <1>24, <1>25, <1>26, <1>27, <1>28,
     <1>29, <1>30, <1>31, <1>32, <1>33
  DEF Next, Environment, Collect, Startup, Observer, Worker, DeleteWorker
<1> QED
  BY <1>34 DEF Grown

(* The step from parsing to archiving is Parse.                             *)
LEMMA ParseOnly ==
    ASSUME wpc = "parse", wpc' = "archive", [Next]_vars PROVE Parse
<1>1. ASSUME NEW p \in Paths, Write(p) PROVE Parse
  BY <1>1 DEF Write, WorkerDone, osVars, dbVars, obsVars, workVars, restoreVars, boundVars
<1>2. ASSUME NEW p \in Paths, DeleteFile(p) PROVE Parse
  BY <1>2 DEF DeleteFile, WorkerDone, osVars, dbVars, obsVars, workVars, restoreVars, boundVars
<1>3. ASSUME NEW j \in Jobs, DeleteFolder(j) PROVE Parse
  BY <1>3 DEF DeleteFolder, WorkerDone, osVars, dbVars, obsVars, workVars, restoreVars, boundVars
<1>4. ASSUME TogglePause PROVE Parse
  BY <1>4 DEF TogglePause, WorkerDone, osVars, dbVars, obsVars, workVars, restoreVars, boundVars
<1>5. ASSUME ToggleParsers PROVE Parse
  BY <1>5 DEF ToggleParsers, WorkerDone, osVars, dbVars, obsVars, workVars, restoreVars, boundVars
<1>6. ASSUME Crash PROVE Parse
  BY <1>6 DEF Crash, WorkerDone, osVars, dbVars, obsVars, workVars, restoreVars, boundVars
<1>7. ASSUME StartPipeline PROVE Parse
  BY <1>7 DEF StartPipeline, WorkerDone, osVars, dbVars, obsVars, workVars, restoreVars, boundVars
<1>8. ASSUME NEW p \in Paths, ScanPath(p) PROVE Parse
  BY <1>8 DEF ScanPath, WorkerDone, osVars, dbVars, obsVars, workVars, restoreVars, boundVars
<1>9. ASSUME StartObserver PROVE Parse
  BY <1>9 DEF StartObserver, WorkerDone, osVars, dbVars, obsVars, workVars, restoreVars, boundVars
<1>10. ASSUME OnCreated PROVE Parse
  BY <1>10 DEF OnCreated, WorkerDone, osVars, dbVars, obsVars, workVars, restoreVars, boundVars
<1>11. ASSUME OnModified PROVE Parse
  BY <1>11 DEF OnModified, WorkerDone, osVars, dbVars, obsVars, workVars, restoreVars, boundVars
<1>12. ASSUME OnDeleted PROVE Parse
  BY <1>12 DEF OnDeleted, WorkerDone, osVars, dbVars, obsVars, workVars, restoreVars, boundVars
<1>13. ASSUME Take PROVE Parse
  BY <1>13 DEF Take, WorkerDone, osVars, dbVars, obsVars, workVars, restoreVars, boundVars
<1>14. ASSUME NotReady PROVE Parse
  BY <1>14 DEF NotReady, WorkerDone, osVars, dbVars, obsVars, workVars, restoreVars, boundVars
<1>15. ASSUME MarkReady PROVE Parse
  BY <1>15 DEF MarkReady, WorkerDone, osVars, dbVars, obsVars, workVars, restoreVars, boundVars
<1>16. ASSUME Relocate PROVE Parse
  BY <1>16 DEF Relocate, WorkerDone, osVars, dbVars, obsVars, workVars, restoreVars, boundVars
<1>17. ASSUME GateEtc PROVE Parse
  BY <1>17 DEF GateEtc, WorkerDone, osVars, dbVars, obsVars, workVars, restoreVars, boundVars
<1>18. ASSUME GateParsed PROVE Parse
  BY <1>18 DEF GateParsed, WorkerDone, osVars, dbVars, obsVars, workVars, restoreVars, boundVars
<1>19. ASSUME Parse PROVE Parse
  BY <1>19
<1>20. ASSUME ParseFails PROVE Parse
  BY <1>20 DEF ParseFails, WorkerDone, osVars, dbVars, obsVars, workVars, restoreVars, boundVars
<1>21. ASSUME CadKnown PROVE Parse
  BY <1>21 DEF CadKnown, WorkerDone, osVars, dbVars, obsVars, workVars, restoreVars, boundVars
<1>22. ASSUME Archive PROVE Parse
  BY <1>22 DEF Archive, WorkerDone, osVars, dbVars, obsVars, workVars, restoreVars, boundVars
<1>23. ASSUME Commit PROVE Parse
  BY <1>23 DEF Commit, WorkerDone, osVars, dbVars, obsVars, workVars, restoreVars, boundVars
<1>24. ASSUME CommitFails PROVE Parse
  BY <1>24 DEF CommitFails, WorkerDone, osVars, dbVars, obsVars, workVars, restoreVars, boundVars
<1>25. ASSUME RestoreBatch PROVE Parse
  BY <1>25 DEF RestoreBatch, WorkerDone, osVars, dbVars, obsVars, workVars, restoreVars, boundVars
<1>26. ASSUME RestoreBatchEnd PROVE Parse
  BY <1>26 DEF RestoreBatchEnd, WorkerDone, osVars, dbVars, obsVars, workVars, restoreVars, boundVars
<1>27. ASSUME RestoreCopied PROVE Parse
  BY <1>27 DEF RestoreCopied, WorkerDone, osVars, dbVars, obsVars, workVars, restoreVars, boundVars
<1>28. ASSUME RestoreMarked PROVE Parse
  BY <1>28 DEF RestoreMarked, WorkerDone, osVars, dbVars, obsVars, workVars, restoreVars, boundVars
<1>29. ASSUME NEW j \in Jobs, RestoreCheck(j) PROVE Parse
  BY <1>29 DEF RestoreCheck, WorkerDone, osVars, dbVars, obsVars, workVars, restoreVars, boundVars
<1>30. ASSUME NEW p \in Paths, RestoreCopy(p) PROVE Parse
  BY <1>30 DEF RestoreCopy, WorkerDone, osVars, dbVars, obsVars, workVars, restoreVars, boundVars
<1>31. ASSUME NEW p \in Paths, RestoreMark(p) PROVE Parse
  BY <1>31 DEF RestoreMark, WorkerDone, osVars, dbVars, obsVars, workVars, restoreVars, boundVars
<1>32. ASSUME UNCHANGED vars PROVE Parse
  BY <1>32 DEF vars, osVars, dbVars, obsVars, workVars, restoreVars, boundVars
<1> QED
  BY <1>1, <1>2, <1>3, <1>4, <1>5, <1>6, <1>7, <1>8, <1>9, <1>10, <1>11, <1>12, <1>13, <1>14,
     <1>15, <1>16, <1>17, <1>18, <1>19, <1>20, <1>21, <1>22, <1>23, <1>24, <1>25, <1>26, <1>27, <1>28,
     <1>29, <1>30, <1>31, <1>32
  DEF Next, Environment, Collect, Startup, Observer, Worker, DeleteWorker

(* Nothing is said of a file that was not there yet.                        *)
LEMMA NotThereYet ==
    ASSUME TypeOK, Bounded, NEW f \in JobFiles, latest[f] = 0
    PROVE  disk[Top(f)] = 0 /\ disk[Below(f)] = 0 /\ rows[f] = 0
<1>1. /\ disk[Top(f)] \in Nat /\ disk[Below(f)] \in Nat /\ rows[f] \in Nat /\ f \in Files
      /\ Top(f) \in Paths /\ Below(f) \in Paths /\ Top(f)[1] = f /\ Below(f)[1] = f
  BY TopFacts, BoundsAssumption DEF TypeOK, Versions
<1>2. disk[Top(f)] <= latest[f] /\ disk[Below(f)] <= latest[f] /\ rows[f] <= latest[f]
  BY <1>1 DEF Bounded
<1> QED
  BY <1>1, <1>2

(* A step that leaves files and rows, and the marks, alone.                 *)
LEMMA FirstTimeStays ==
    ASSUME NEW f \in JobFiles, FirstTime(f), UNCHANGED <<disk, rows>>,
           IsMarked(Below(f)) => IsMarked(Below(f))',
           \/ UNCHANGED <<wpc, wpath>>
           \/ wpath' \notin {Top(f), Below(f)}
           \/ wpath' = wpath /\ wpc' \in {"place", "gate"} /\ wpc = "ready"
           \/ wpath' = wpath /\ wpc' \in {"parse", "archive"} /\ wpc \in {"gate", "parse"}
           \/ wpath' = wpath /\ wpc' = "commit",
           \A i \in 1 .. Len(events') : events'[i].path = Below(f) =>
               events'[i].kind = "created"
    PROVE  FirstTime(f)'
<1> QED
  BY DEF FirstTime

(* Reported changes of other paths.                                         *)
LEMMA OtherEvents ==
    ASSUME events \in Seq(EventSet), NEW new \in Seq(EventSet), Notify(new), NEW q,
           \A i \in 1 .. Len(events) : events[i].path = q => events[i].kind = "created",
           \A i \in 1 .. Len(new) : new[i].path = q => new[i].kind = "created"
    PROVE  \A i \in 1 .. Len(events') : events'[i].path = q => events'[i].kind = "created"
  BY NotifyEach

(* An event that was taken leaves the others.                               *)
LEMMA EventTaken ==
    ASSUME events \in Seq(EventSet), NEW k, NextEvent(k)
    PROVE  /\ Head(events) = events[1] /\ 1 \in 1 .. Len(events)
           /\ \A i \in 1 .. Len(events') : i + 1 \in 1 .. Len(events) /\ events'[i] = events[i + 1]
<1>1. events # <<>> /\ events' = Tail(events)
  BY DEF NextEvent
<1> QED
  BY <1>1, HeadTailProperties

(* Until it is written again, a file keeps to its one way through the       *)
(* folder, in every step.                                                   *)
LEMMA ReadOnceNext ==
    ASSUME CacheHoldsAll, DropsAtTop, TypeOK, WorkerInv, MarkedOnce, Placed, Bounded,
           deletes = 0 => Inert, ReadOnce, [Next]_vars
    PROVE  ReadOnce'
<1> SUFFICES ASSUME NEW f \in JobFiles, Once(f)' PROVE FirstTime(f)'
  BY DEF ReadOnce
<1>a. /\ f \in Files /\ Top(f) \in Paths /\ Below(f) \in Paths /\ Top(f) # Below(f)
      /\ Top(f)[1] = f /\ Below(f)[1] = f /\ Top(f)[2] = "root" /\ Below(f)[2] = "sub"
  BY TopFacts
<1>b. /\ deletes \in Nat /\ crashes \in Nat /\ latest[f] \in Nat /\ latest'[f] \in Nat
      /\ deletes = 0 /\ crashes = 0 /\ deletes' = 0 /\ crashes' = 0 /\ latest[f] <= latest'[f]
      /\ latest'[f] <= 1 /\ latest[f] <= 1
  <2>1. /\ deletes \in Nat /\ crashes \in Nat /\ latest[f] \in Nat
    BY <1>a, BoundsAssumption DEF TypeOK, Versions
  <2>2. deletes <= deletes' /\ crashes <= crashes' /\ latest[f] <= latest'[f]
    BY <1>a, CountsGrow
  <2>3. deletes' = 0 /\ crashes' = 0 /\ latest'[f] <= 1
    BY DEF Once
  <2>4. latest'[f] \in Nat
    <3>1. ASSUME NEW p \in Paths, Write(p) PROVE latest'[f] \in Nat
      <4>1. latest' = [latest EXCEPT ![p[1]] = @ + 1]
        BY <3>1 DEF Write
      <4> QED
        BY <1>a, <2>1, <4>1 DEF TypeOK
    <3>2. ASSUME ~ \E p \in Paths : Write(p) PROVE latest'[f] \in Nat
      <4>1. latest' = latest
        BY <3>2 DEF Next, Environment, Collect, Startup, Observer, Worker, DeleteWorker,
           DeleteFile, DeleteFolder, TogglePause, ToggleParsers, Crash, StartPipeline, ScanPath,
           StartObserver, OnCreated, OnModified, OnDeleted, Take, NotReady, MarkReady, Relocate,
           GateEtc, GateParsed, Parse, ParseFails, CadKnown, Archive, Commit, CommitFails,
           RestoreBatch, RestoreBatchEnd, RestoreCopied, RestoreMarked, RestoreCheck,
           RestoreCopy, RestoreMark, vars, osVars
      <4> QED
        BY <2>1, <4>1
    <3> QED
      BY <3>1, <3>2
  <2> QED
    BY <2>1, <2>2, <2>3, <2>4
<1>c. FirstTime(f) /\ Inert
  BY <1>b DEF ReadOnce, Once
<1>d. \A i \in 1 .. Len(events) : events[i].path = Below(f) => events[i].kind = "created"
  BY <1>c DEF FirstTime
<1>e. NoPath \notin {Top(f), Below(f)}
  BY <1>a, NoneIsNone
<1>f. marked \in Seq(Paths) /\ events \in Seq(EventSet) /\ fileQ \in Seq(Paths)
  BY DEF TypeOK
<1>1. ASSUME NEW p \in Paths, Write(p) PROVE FirstTime(f)'
  <2> DEFINE one == <<Event(WriteKind(p), p)>>
             two == <<Event("created", p), Event("modified", p)>>
  <2>1. one \in Seq(EventSet) /\ two \in Seq(EventSet)
    BY EventTypes DEF WriteKind
  <2>2. /\ \A i \in 1 .. Len(one) : one[i].path = p
        /\ \A i \in 1 .. Len(two) : two[i].path = p
    BY DEF Event
  <2>3. /\ UNCHANGED <<rows, marked, wpc, wpath>> /\ p \in Drops /\ p[1] \in Files
        /\ disk' = [disk EXCEPT ![p] = latest[p[1]] + 1]
        /\ latest' = [latest EXCEPT ![p[1]] = @ + 1]
        /\ (Notify(one) \/ Notify(two))
    BY <1>1, PathFacts DEF Write, dbVars, workVars
  <2> HIDE DEF one, two
  <2>4. p # Below(f)
    BY <1>a, <2>3 DEF DropsAtTop, Below
  <2>5. \A i \in 1 .. Len(events') : events'[i].path = Below(f) => events'[i].kind = "created"
    <3>1. CASE Notify(one)
      <4>1. \A i \in 1 .. Len(one) : one[i].path = Below(f) => one[i].kind = "created"
        BY <2>2, <2>4
      <4> QED
        BY <1>d, <1>f, <2>1, <3>1, <4>1, OtherEvents
    <3>2. CASE Notify(two)
      <4>1. \A i \in 1 .. Len(two) : two[i].path = Below(f) => two[i].kind = "created"
        BY <2>2, <2>4
      <4> QED
        BY <1>d, <1>f, <2>1, <3>2, <4>1, OtherEvents
    <3> QED
      BY <2>3, <3>1, <3>2
  <2>6. CASE p = Top(f)
    <3>1. latest'[f] = latest[f] + 1
      BY <1>a, <2>3, <2>6 DEF TypeOK
    <3>2. latest[f] = 0
      BY <1>b, <3>1
    <3>3. disk[Below(f)] = 0 /\ rows[f] = 0
      BY <3>2, NotThereYet
    <3>4. disk'[Top(f)] = 1 /\ disk'[Below(f)] = disk[Below(f)]
      BY <1>a, <2>3, <2>6, <3>2 DEF TypeOK
    <3>5. wpath # Below(f)
      BY <1>c, <3>3 DEF FirstTime
    <3> QED
      BY <2>3, <2>5, <3>3, <3>4, <3>5 DEF FirstTime
  <2>7. CASE p # Top(f)
    <3>1. disk'[Top(f)] = disk[Top(f)] /\ disk'[Below(f)] = disk[Below(f)]
      BY <1>a, <2>3, <2>4, <2>7 DEF TypeOK
    <3>2. IsMarked(Below(f))' <=> IsMarked(Below(f))
      BY <2>3 DEF IsMarked
    <3> QED
      BY <1>c, <2>3, <2>5, <3>1, <3>2 DEF FirstTime
  <2> QED
    BY <2>6, <2>7
<1>2. ASSUME NEW p \in Paths, DeleteFile(p) PROVE FirstTime(f)'
  BY <1>b, <1>2 DEF DeleteFile
<1>3. ASSUME NEW j \in Jobs, DeleteFolder(j) PROVE FirstTime(f)'
  BY <1>b, <1>3 DEF DeleteFolder
<1>4. ASSUME TogglePause PROVE FirstTime(f)'
  <2>1. UNCHANGED <<disk, rows, wpc, wpath, events, marked>>
    BY <1>4 DEF TogglePause, osVars, dbVars, obsVars, workVars, restoreVars, boundVars
  <2> QED
    BY <1>c, <1>d, <2>1, FirstTimeStays DEF IsMarked
<1>5. ASSUME ToggleParsers PROVE FirstTime(f)'
  <2>1. UNCHANGED <<disk, rows, wpc, wpath, events, marked>>
    BY <1>5 DEF ToggleParsers, osVars, dbVars, obsVars, workVars, restoreVars, boundVars
  <2> QED
    BY <1>c, <1>d, <2>1, FirstTimeStays DEF IsMarked
<1>6. ASSUME Crash PROVE FirstTime(f)'
  BY <1>b, <1>6 DEF Crash
<1>7. ASSUME StartPipeline PROVE FirstTime(f)'
  <2>1. UNCHANGED <<disk, rows, wpc, wpath, events, marked>>
    BY <1>7 DEF StartPipeline, osVars, dbVars, obsVars, workVars, restoreVars, boundVars
  <2> QED
    BY <1>c, <1>d, <2>1, FirstTimeStays DEF IsMarked
<1>8. ASSUME NEW p \in Paths, ScanPath(p) PROVE FirstTime(f)'
  <2>1. UNCHANGED <<disk, rows, wpc, wpath, events, marked>>
    BY <1>8 DEF ScanPath, osVars, dbVars, obsVars, workVars, restoreVars, boundVars
  <2> QED
    BY <1>c, <1>d, <2>1, FirstTimeStays DEF IsMarked
<1>9. ASSUME StartObserver PROVE FirstTime(f)'
  <2>1. UNCHANGED <<disk, rows, wpc, wpath, events, marked>>
    BY <1>9 DEF StartObserver, osVars, dbVars, obsVars, workVars, restoreVars, boundVars
  <2> QED
    BY <1>c, <1>d, <2>1, FirstTimeStays DEF IsMarked
<1>10. ASSUME OnCreated PROVE FirstTime(f)'
  <2>1. UNCHANGED <<disk, rows, wpc, wpath, marked>> /\ NextEvent("created")
    BY <1>10 DEF OnCreated, osVars, dbVars, workVars
  <2>2. \A i \in 1 .. Len(events') : events'[i].path = Below(f) => events'[i].kind = "created"
    BY <1>d, <1>f, <2>1, EventTaken
  <2> QED
    BY <1>c, <2>1, <2>2, FirstTimeStays DEF IsMarked
<1>11. ASSUME OnModified PROVE FirstTime(f)'
  <2>0. PICK h : h = Head(events).path
    OBVIOUS
  <2>1. /\ UNCHANGED <<disk, rows, wpc, wpath>> /\ NextEvent("modified") /\ Head(events).kind = "modified"
        /\ marked' = UnmarkedAfter(h)
    BY <1>11, <2>0 DEF OnModified, NextEvent, osVars, dbVars, workVars
  <2>2. \A i \in 1 .. Len(events') : events'[i].path = Below(f) => events'[i].kind = "created"
    BY <1>d, <1>f, <2>1, EventTaken
  <2>3. h # Below(f)
    BY <1>d, <1>f, <2>0, <2>1, EventTaken
  <2>4. IsMarked(Below(f)) => IsMarked(Below(f))'
    BY <1>f, <2>1, <2>3, OtherMarksStay
  <2> QED
    BY <1>c, <2>1, <2>2, <2>4, FirstTimeStays
<1>12. ASSUME OnDeleted PROVE FirstTime(f)'
  <2>0. PICK h : h = Head(events).path
    OBVIOUS
  <2>1. /\ UNCHANGED <<disk, rows, wpc, wpath>> /\ NextEvent("deleted") /\ Head(events).kind = "deleted"
        /\ marked' = UnmarkedAfter(h)
    BY <1>12, <2>0 DEF OnDeleted, NextEvent, osVars, dbVars, workVars
  <2>2. \A i \in 1 .. Len(events') : events'[i].path = Below(f) => events'[i].kind = "created"
    BY <1>d, <1>f, <2>1, EventTaken
  <2>3. h # Below(f)
    BY <1>d, <1>f, <2>0, <2>1, EventTaken
  <2>4. IsMarked(Below(f)) => IsMarked(Below(f))'
    BY <1>f, <2>1, <2>3, OtherMarksStay
  <2> QED
    BY <1>c, <2>1, <2>2, <2>4, FirstTimeStays
<1>13. ASSUME Take PROVE FirstTime(f)'
  <2>1. UNCHANGED <<disk, rows, events, marked>>
    BY <1>13 DEF Take, osVars, dbVars
  <2>2. CASE UNCHANGED workVars
    BY <1>c, <1>d, <2>1, <2>2, FirstTimeStays DEF IsMarked, workVars
  <2>3. CASE ~UNCHANGED workVars
    <3>1. Wanted(wpath') /\ wpc' = "ready"
      BY <1>13, <2>3 DEF Take
    <3>2. wpath' # Below(f) /\ (wpath' = Top(f) => disk[Top(f)] # 0)
      BY <1>c, <3>1 DEF Wanted, FirstTime
    <3> QED
      BY <1>c, <1>d, <2>1, <3>2 DEF FirstTime, IsMarked
  <2> QED
    BY <2>2, <2>3
<1>14. ASSUME NotReady PROVE FirstTime(f)'
  <2>1. /\ UNCHANGED <<disk, rows, events, marked>>
        /\ wpath' = NoPath
    BY <1>14 DEF NotReady, WorkerDone, osVars, dbVars, obsVars, workVars, restoreVars, boundVars
  <2> QED
    BY <1>c, <1>d, <1>e, <2>1, FirstTimeStays DEF IsMarked
<1>15. ASSUME MarkReady PROVE FirstTime(f)'
  <2>1. /\ UNCHANGED <<disk, rows, events, wpath>> /\ marked' = MarkedAfter(wpath)
        /\ wpc = "ready" /\ wpc' \in {"place", "gate"}
    BY <1>15 DEF MarkReady, osVars, dbVars
  <2>2. wpath \in Paths
    BY <2>1 DEF WorkerInv
  <2>3. IsMarked(Below(f)) => IsMarked(Below(f))'
    BY <1>f, <2>1, <2>2, MarksStay
  <2> QED
    BY <1>c, <1>d, <2>1, <2>3, FirstTimeStays
<1>16. ASSUME Relocate PROVE FirstTime(f)'
  <2>0. PICK w, dest : w = wpath /\ dest = Sub(w)
    OBVIOUS
  <2>1. /\ w \in Paths /\ dest \in Paths /\ w[2] = "root" /\ w[1] \in JobFiles
        /\ w = Top(w[1]) /\ dest = Below(w[1]) /\ dest # w
    BY <1>16, <2>0, PathFacts DEF Relocate, WorkerInv, Sub, Paths, Top, Below
  <2> DEFINE removed == IF disk[dest] # 0 THEN <<Event("deleted", dest)>> ELSE <<>>
             moved   == <<Event("deleted", w), Event("created", dest)>>
  <2>2. /\ UNCHANGED rows /\ wpc = "place"
        /\ disk' = [disk EXCEPT ![dest] = disk[w], ![w] = 0]
        /\ \/ /\ disk[w] # 0 /\ Notify(removed \o moved) /\ marked' = MarkedAfter(dest)
              /\ wpc' = "gate" /\ wpath' = dest
           \/ /\ disk[w] = 0 /\ Notify(removed) /\ marked' = marked /\ wpath' = NoPath
    BY <1>16, <2>0 DEF Relocate, MarkMoved, WorkerDone, dbVars
  <2>a. removed \in Seq(EventSet) /\ moved \in Seq(EventSet) /\ removed \o moved \in Seq(EventSet)
    BY <2>1, EventTypes, ConcatProperties
  <2>b. /\ \A i \in 1 .. Len(removed) : removed[i].path = dest
        /\ Len(moved) = 2 /\ moved[1] = Event("deleted", w) /\ moved[2] = Event("created", dest)
    BY DEF Event
  <2>c. /\ \A i \in 1 .. Len(moved) : moved[i].path \in {w, dest}
        /\ \A i \in 1 .. Len(moved) : moved[i].path = dest => moved[i].kind = "created"
    <3> HIDE DEF removed, moved
    <3>1. \A i \in 1 .. Len(moved) : moved[i] \in {Event("deleted", w), Event("created", dest)}
      BY <2>b
    <3> QED
      BY <2>1, <3>1 DEF Event
  <2>3. /\ removed \in Seq(EventSet) /\ moved \in Seq(EventSet) /\ removed \o moved \in Seq(EventSet)
        /\ \A i \in 1 .. Len(removed) : removed[i].path = dest
        /\ \A i \in 1 .. Len(moved) : moved[i].path \in {w, dest}
        /\ \A i \in 1 .. Len(moved) : moved[i].path = dest => moved[i].kind = "created"
    BY <2>a, <2>b, <2>c
  <2>4. CASE w[1] = f
    <3>1. w = Top(f) /\ dest = Below(f)
      BY <2>1, <2>4
    <3>2. disk[w] # 0 /\ disk[dest] = 0 /\ rows[f] = 0
      BY <1>c, <2>0, <3>1 DEF FirstTime
    <3>3. removed = <<>>
      BY <3>2
    <3>4. removed \o moved = moved
      <4> HIDE DEF moved
      <4> QED
        BY <2>3, <3>3, ConcatEmptySeq
    <3>5. Notify(moved) /\ marked' = MarkedAfter(dest) /\ wpc' = "gate" /\ wpath' = dest
      BY <2>2, <3>2, <3>4
    <3> HIDE DEF removed, moved
    <3>6. \A i \in 1 .. Len(events') : events'[i].path = Below(f) => events'[i].kind = "created"
      BY <1>d, <1>f, <2>3, <3>1, <3>5, OtherEvents
    <3>7. IsMarked(Below(f))'
      BY <1>f, <2>1, <3>1, <3>5, MarksStay
    <3>8. disk'[Top(f)] = 0 /\ disk'[Below(f)] # 0
      BY <2>1, <2>2, <3>1, <3>2 DEF TypeOK
    <3> QED
      BY <1>a, <2>2, <3>1, <3>2, <3>5, <3>6, <3>7, <3>8 DEF FirstTime
  <2>5. CASE w[1] # f
    <3>1. w \notin {Top(f), Below(f)} /\ dest \notin {Top(f), Below(f)}
      BY <2>1, <2>5 DEF Top, Below
    <3>2. disk'[Top(f)] = disk[Top(f)] /\ disk'[Below(f)] = disk[Below(f)]
      BY <1>a, <2>2, <3>1 DEF TypeOK
    <3> HIDE DEF removed, moved
    <3>3. \A i \in 1 .. Len(removed \o moved) : (removed \o moved)[i].path \in {w, dest}
      BY <2>3, JoinedEach
    <3>4. \A i \in 1 .. Len(events') : events'[i].path = Below(f) => events'[i].kind = "created"
      <4>1. CASE Notify(removed \o moved)
        <5> DEFINE every == removed \o moved
        <5>1. /\ every \in Seq(EventSet) /\ Notify(every)
              /\ \A i \in 1 .. Len(every) : every[i].path = Below(f) => every[i].kind = "created"
          BY <2>3, <3>1, <3>3, <4>1
        <5> HIDE DEF every
        <5> QED
          BY <1>d, <1>f, <5>1, OtherEvents
      <4>2. CASE Notify(removed)
        <5>1. \A i \in 1 .. Len(removed) : removed[i].path = Below(f) => removed[i].kind = "created"
          BY <2>3, <3>1
        <5> QED
          BY <1>d, <1>f, <2>3, <4>2, <5>1, OtherEvents
      <4> QED
        BY <2>2, <4>1, <4>2
    <3>5. IsMarked(Below(f)) => IsMarked(Below(f))'
      <4>1. CASE marked' = MarkedAfter(dest)
        BY <1>f, <2>1, <4>1, MarksStay
      <4>2. CASE marked' = marked
        BY <4>2 DEF IsMarked
      <4> QED
        BY <2>2, <4>1, <4>2
    <3>6. wpath' \notin {Top(f), Below(f)}
      BY <1>e, <2>2, <3>1
    <3> QED
      BY <1>c, <2>2, <3>2, <3>4, <3>5, <3>6 DEF FirstTime
  <2> QED
    BY <2>4, <2>5
<1>17. ASSUME GateEtc PROVE FirstTime(f)'
  <2>1. /\ UNCHANGED <<disk, rows, events, marked>>
        /\ wpath' = wpath /\ wpc' = "archive" /\ wpc = "gate"
    BY <1>17 DEF GateEtc, WorkerDone, osVars, dbVars, obsVars, workVars, restoreVars, boundVars
  <2> QED
    BY <1>c, <1>d, <1>e, <2>1, FirstTimeStays DEF IsMarked
<1>18. ASSUME GateParsed PROVE FirstTime(f)'
  <2>1. /\ UNCHANGED <<disk, rows, events, marked>>
        /\ (wpath' = NoPath \/ (wpath' = wpath /\ wpc' = "parse" /\ wpc = "gate"))
    BY <1>18 DEF GateParsed, WorkerDone, osVars, dbVars, obsVars, workVars, restoreVars, boundVars
  <2> QED
    BY <1>c, <1>d, <1>e, <2>1, FirstTimeStays DEF IsMarked
<1>19. ASSUME Parse PROVE FirstTime(f)'
  <2>1. /\ UNCHANGED <<disk, rows, events, marked>>
        /\ wpath' = wpath /\ wpc' = "archive" /\ wpc = "parse"
    BY <1>19 DEF Parse, WorkerDone, osVars, dbVars, obsVars, workVars, restoreVars, boundVars
  <2> QED
    BY <1>c, <1>d, <1>e, <2>1, FirstTimeStays DEF IsMarked
<1>20. ASSUME ParseFails PROVE FirstTime(f)'
  <2>1. /\ UNCHANGED <<disk, rows, events, marked>>
        /\ wpath' = NoPath
    BY <1>20 DEF ParseFails, WorkerDone, osVars, dbVars, obsVars, workVars, restoreVars, boundVars
  <2> QED
    BY <1>c, <1>d, <1>e, <2>1, FirstTimeStays DEF IsMarked
<1>21. ASSUME CadKnown PROVE FirstTime(f)'
  <2>1. /\ UNCHANGED <<disk, rows, events, marked>>
        /\ wpath' = NoPath
    BY <1>21 DEF CadKnown, WorkerDone, osVars, dbVars, obsVars, workVars, restoreVars, boundVars
  <2> QED
    BY <1>c, <1>d, <1>e, <2>1, FirstTimeStays DEF IsMarked
<1>22. ASSUME Archive PROVE FirstTime(f)'
  <2>1. /\ UNCHANGED <<disk, rows, events, marked>>
        /\ (wpath' = NoPath \/ (wpath' = wpath /\ wpc' = "commit"))
    BY <1>22 DEF Archive, WorkerDone, osVars, dbVars, obsVars, workVars, restoreVars, boundVars
  <2> QED
    BY <1>c, <1>d, <1>e, <2>1, FirstTimeStays DEF IsMarked
<1>23. ASSUME Commit PROVE FirstTime(f)'
  <2>1. PICK w \in Paths : w = wpath /\ w[2] # "root"
    BY <1>23 DEF Commit, WorkerInv, Placed
  <2>2. /\ UNCHANGED <<disk, events, marked>> /\ wpath' = NoPath
        /\ rows' = [rows EXCEPT ![w[1]] = wver]
    BY <1>23, <2>1 DEF Commit, WorkerDone, osVars, obsVars
  <2>3. CASE w[1] = f
    <3>1. w = Below(f)
      BY <1>a, <2>1, <2>3, PlacesOfFile
    <3>2. disk[Below(f)] # 0
      BY <1>c, <2>1, <3>1 DEF FirstTime
    <3> QED
      BY <1>c, <1>e, <2>2, <3>2 DEF FirstTime, IsMarked
  <2>4. CASE w[1] # f
    <3>1. rows'[f] = rows[f]
      BY <1>a, <2>2, <2>4 DEF TypeOK
    <3> QED
      BY <1>c, <1>e, <2>2, <3>1 DEF FirstTime, IsMarked
  <2> QED
    BY <2>3, <2>4
<1>24. ASSUME CommitFails PROVE FirstTime(f)'
  <2>1. /\ UNCHANGED <<disk, rows, events, marked>>
        /\ wpath' = NoPath
    BY <1>24 DEF CommitFails, WorkerDone, osVars, dbVars, obsVars, workVars, restoreVars, boundVars
  <2> QED
    BY <1>c, <1>d, <1>e, <2>1, FirstTimeStays DEF IsMarked
<1>25. ASSUME RestoreBatch PROVE FirstTime(f)'
  <2>1. UNCHANGED <<disk, rows, wpc, wpath, events, marked>>
    BY <1>25 DEF RestoreBatch, osVars, dbVars, obsVars, workVars, restoreVars, boundVars
  <2> QED
    BY <1>c, <1>d, <2>1, FirstTimeStays DEF IsMarked
<1>26. ASSUME RestoreBatchEnd PROVE FirstTime(f)'
  <2>1. UNCHANGED <<disk, rows, wpc, wpath, events, marked>>
    BY <1>26 DEF RestoreBatchEnd, osVars, dbVars, obsVars, workVars, restoreVars, boundVars
  <2> QED
    BY <1>c, <1>d, <2>1, FirstTimeStays DEF IsMarked
<1>27. ASSUME RestoreCopied PROVE FirstTime(f)'
  BY <1>c, <1>27 DEF RestoreCopied, Inert
<1>28. ASSUME RestoreMarked PROVE FirstTime(f)'
  BY <1>c, <1>28 DEF RestoreMarked, Inert
<1>29. ASSUME NEW j \in Jobs, RestoreCheck(j) PROVE FirstTime(f)'
  <2>1. UNCHANGED <<disk, rows, wpc, wpath, events, marked>>
    BY <1>29 DEF RestoreCheck, osVars, dbVars, obsVars, workVars, restoreVars, boundVars
  <2> QED
    BY <1>c, <1>d, <2>1, FirstTimeStays DEF IsMarked
<1>30. ASSUME NEW p \in Paths, RestoreCopy(p) PROVE FirstTime(f)'
  BY <1>c, <1>30 DEF RestoreCopy, Inert
<1>31. ASSUME NEW p \in Paths, RestoreMark(p) PROVE FirstTime(f)'
  BY <1>c, <1>31 DEF RestoreMark, Inert
<1>32. ASSUME UNCHANGED vars PROVE FirstTime(f)'
  <2>1. UNCHANGED <<disk, rows, wpc, wpath, events, marked>>
    BY <1>32 DEF vars, osVars, dbVars, obsVars, workVars, restoreVars, boundVars
  <2> QED
    BY <1>c, <1>d, <2>1, FirstTimeStays DEF IsMarked
<1> QED
  BY <1>1, <1>2, <1>3, <1>4, <1>5, <1>6, <1>7, <1>8, <1>9, <1>10, <1>11, <1>12, <1>13, <1>14, <1>15, <1>16,
     <1>17, <1>18, <1>19, <1>20, <1>21, <1>22, <1>23, <1>24, <1>25, <1>26, <1>27, <1>28, <1>29, <1>30, <1>31, <1>32
  DEF Next, Environment, Collect, Startup, Observer, Worker, DeleteWorker

(* A file that is written once, while nobody deletes anything, the process  *)
(* is not killed and the cache has room for every file, is parsed and       *)
(* stored once, however often it is moved, reported and queued.             *)
THEOREM FilesAreParsedOnce ==
    ASSUME CacheHoldsAll, DropsAtTop PROVE Spec => NothingIsParsedTwice
<1> DEFINE Kind == wpc = "parse" => wpath[1] \notin EtcFiles
           RInv == /\ Placed /\ Quiet /\ Still /\ Bounded /\ MarkedOnce /\ Kind
                   /\ (deletes = 0 => Inert) /\ ReadOnce
           Twice == /\ wpc = "parse" /\ wpc' = "archive"
                    /\ deletes = 0 /\ crashes = 0
                    /\ latest[wpath[1]] = 1 /\ Len(marked) < CacheSize
                    /\ rows[wpath[1]] = disk[wpath]
<1>1. Init => RInv
  <2> SUFFICES ASSUME Init PROVE RInv
    OBVIOUS
  <2>1. Bounded
    BY NoneIsNone, PathFacts DEF Init, Bounded
  <2>2. Inert
    BY DEF Init, Inert
  <2>3. ReadOnce
    BY TopFacts, NoneIsNone DEF Init, ReadOnce, FirstTime
  <2> QED
    BY <2>1, <2>2, <2>3 DEF Init, Placed, Quiet, Still, MarkedOnce
<1>2. TypeOK /\ TypeOK' /\ WorkerInv /\ RInv /\ [Next]_vars => RInv'
  <2> SUFFICES ASSUME TypeOK, TypeOK', WorkerInv, RInv, [Next]_vars PROVE RInv'
    OBVIOUS
  <2>1. deletes' = 0 => Inert'
    <3> SUFFICES ASSUME deletes' = 0 PROVE Inert'
      OBVIOUS
    <3>1. deletes = 0 /\ deletes' = deletes
      BY CountsGrow, BoundsAssumption DEF TypeOK
    <3> QED
      BY <3>1, InertNext
  <2>2. Kind'
    BY DEF Next, Environment, Collect, Startup, Observer, Worker, DeleteWorker, vars, osVars,
       dbVars, obsVars, workVars, restoreVars, boundVars, WorkerDone,
       Write, DeleteFile, DeleteFolder, TogglePause, ToggleParsers, Crash, StartPipeline, ScanPath,
       StartObserver, OnCreated, OnModified, OnDeleted, Take, NotReady, MarkReady, Relocate,
       GateEtc, GateParsed, Parse, ParseFails, CadKnown, Archive, Commit, CommitFails,
       RestoreBatch, RestoreBatchEnd, RestoreCopied, RestoreMarked, RestoreCheck,
       RestoreCopy, RestoreMark
  <2> QED
    BY <2>1, <2>2, QuietNext, BoundedNext, MarkedOnceNext, ReadOnceNext, CacheHoldsAll, DropsAtTop
<1>3. TypeOK /\ WorkerInv /\ RInv /\ [Next]_vars => ~Twice
  <2> SUFFICES ASSUME TypeOK, WorkerInv, RInv, [Next]_vars, Twice PROVE FALSE
    OBVIOUS
  <2>1. PICK w \in Paths : w = wpath /\ w[2] # "root" /\ w[1] \notin EtcFiles
    BY DEF WorkerInv, Placed
  <2>2. Parse
    BY ParseOnly
  <2>3. CASE w[1] \in CadFiles
    <3>1. rows[w[1]] = 0 /\ (disk[w] # 0 \/ w[1] \in NcFiles)
      BY <2>1, <2>2, <2>3 DEF Parse
    <3>2. w[1] \notin NcFiles
      BY <2>3, FilesAssumption DEF JobFiles
    <3> QED
      BY <2>1, <3>1, <3>2
  <2>4. CASE w[1] \notin CadFiles
    <3>1. w[1] \in JobFiles
      BY <2>1, <2>4, PathFacts
    <3>2. w = Below(w[1])
      BY <2>1, <3>1, PlacesOfFile DEF Top
    <3>3. FirstTime(w[1])
      BY <2>1, <3>1 DEF ReadOnce, Once
    <3>4. rows[w[1]] = 0 /\ disk[w] # 0
      BY <2>1, <3>2, <3>3 DEF FirstTime
    <3> QED
      BY <2>1, <3>4
  <2> QED
    BY <2>3, <2>4
<1>4. TypeOK /\ WorkerInv /\ RInv /\ [Next]_vars =>
        [/\ wpc = "parse" /\ wpc' = "archive"
         /\ deletes = 0 /\ crashes = 0
         /\ latest[wpath[1]] = 1 /\ Len(marked) < CacheSize
         => rows[wpath[1]] # disk[wpath]]_vars
  BY <1>3
<1> HIDE DEF RInv
<1> QED
  BY <1>1, <1>2, <1>4, WorkerCorrect, PTL DEF Spec, NothingIsParsedTwice
=============================================================================
