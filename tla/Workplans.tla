----------------------------- MODULE Workplans -----------------------------
(***************************************************************************)
(* Which Workplan (program and NC hash) a Job of one part hangs on, as the *)
(* parsers of its files learn it one after the other: backend/             *)
(* job_manager.py, parsers/nc_parser.py, xml_parser.py, tdms_parser.py.    *)
(* One worker thread runs the parsers, so each is one step here, except    *)
(* that the XML parser commits the Workplan before the Job when there is   *)
(* an NC program.  Files come in any order, and may be parsed again.       *)
(* tools/run_system.py runs backend/clean_dummy_data.py before it starts   *)
(* the collector; the controller starts the collector alone.               *)
(***************************************************************************)
EXTENDS Naturals, Sequences, FiniteSets, SequencesExt

CONSTANTS
    Jobs,
    Programs,       \* program names
    Hashes,         \* contents of NC programs
    ProgramOf,      \* ProgramCode of each Job's XML file
    TdmsNameOf,     \* ProgramName of each Job's TDMS file
    NcOf,           \* content of each Job's NC program
    Comes,          \* the files that come: <<kind, job>>, with kind in FileKinds
    Legacy,         \* Workplans without a Job that earlier versions left behind
    MaxPlans,       \* bound: Workplans at the same time
    MaxCrashes      \* bound: kills of the collector

FileKinds == {"xml", "nc", "tdms", "log"}
Unknown == "Unknown"
NoHash  == "NOHASH"
None    == 0           \* no Workplan
NoJob   == "no Job"
Ids     == 1 .. MaxPlans

ASSUME WorkplansAssumption ==
    /\ MaxPlans \in Nat /\ MaxCrashes \in Nat
    /\ NoJob \notin Jobs /\ {Unknown, "none"} \cap Programs = {} /\ NoHash \notin Hashes
    /\ ProgramOf \in [Jobs -> Programs] /\ TdmsNameOf \in [Jobs -> Programs]
    /\ NcOf \in [Jobs -> Hashes]
    /\ Comes \subseteq FileKinds \X Jobs

Identities == [program : Programs \cup {Unknown}, hash : Hashes \cup {NoHash}]
NoPlan     == [program |-> "none", hash |-> "none"]

(* uq_workplan_identity held for earlier versions too.                      *)
ASSUME LegacyAssumption ==
    /\ IsFiniteSet(Legacy) /\ Cardinality(Legacy) <= MaxPlans
    /\ \A row \in Legacy : row.id \in Identities /\ row.steps \in {"none", "xml", "nc"}
    /\ \A row, other \in Legacy : row.id = other.id => row = other

VARIABLES
    db,         \* the tables: plan, blob and steps of each Workplan, wp of each Job
    onDisk,     \* Jobs whose NC program lies in their folder
    pending,    \* the XML parser between its commits: the Job, or NoJob
    planned,    \* and the Workplan it has committed
    collecting, \* the collector runs
    parsed,     \* history: <<kind, job>> of the files parsed to the end
    crashes

vars == <<db, onDisk, pending, planned, collecting, parsed, crashes>>

Identity(p, h) == [program |-> p, hash |-> h]
Plans(d)       == {w \in Ids : d.plan[w] # NoPlan}
Find(d, id)    == {w \in Ids : d.plan[w] = id}
TheOne(S)      == CHOOSE w \in S : TRUE
JobsOn(d, w)   == {j \in Jobs : d.wp[j] = w}

----------------------------------------------------------------------------
(* Changes of the tables.                                                   *)

FreeId(d) == TheOne(Ids \ Plans(d))

Added(d, id) == [d EXCEPT !.plan[FreeId(d)] = id]

(* Mutant: the archive row does not go with its Workplan.                   *)
DeletedAllButArchive(d, W) ==
    [plan  |-> [w \in Ids |-> IF w \in W THEN NoPlan ELSE d.plan[w]],
     blob  |-> d.blob,
     steps |-> [w \in Ids |-> IF w \in W THEN "none" ELSE d.steps[w]],
     wp    |-> [j \in Jobs |-> IF d.wp[j] \in W THEN None ELSE d.wp[j]]]

(* Steps, NC content and Jobs go with their Workplan (ON DELETE CASCADE).   *)
DeletedAll(d, W) ==
    [plan  |-> [w \in Ids |-> IF w \in W THEN NoPlan ELSE d.plan[w]],
     blob  |-> [w \in Ids |-> IF w \in W THEN NoHash ELSE d.blob[w]],
     steps |-> [w \in Ids |-> IF w \in W THEN "none" ELSE d.steps[w]],
     wp    |-> [j \in Jobs |-> IF d.wp[j] \in W THEN None ELSE d.wp[j]]]

Deleted(d, w) == DeletedAll(d, {w})

(* get_or_create_job: a new Job hangs on the part's placeholder Workplan,   *)
(* which all Jobs of the part share.                                        *)
Registered(d, j) ==
    LET dummy == Identity(Unknown, NoHash)
        with  == IF Find(d, dummy) = {} THEN Added(d, dummy) ELSE d
    IN  IF d.wp[j] # None THEN d
        ELSE [with EXCEPT !.wp[j] = TheOne(Find(with, dummy))]

(* The Jobs of Workplan w move to its twin, and w goes.  The twin's archive *)
(* row was made a few lines before, so the NC content of w is never handed  *)
(* over.                                                                    *)
Merged(d, w, twin) ==
    Deleted([d EXCEPT !.steps[twin] = IF @ = "none" THEN d.steps[w] ELSE @,
                      !.wp = [k \in Jobs |-> IF @[k] = w THEN twin ELSE @[k]]], w)

(* Mutant: the NC hash is not taken over.                                   *)
AdoptedWithoutHash(d, j, id) == [d EXCEPT !.plan[d.wp[j]].program = id.program]

(* Mutant: no look for a Workplan that has this identity already.           *)
AdoptedBlindly(d, j, id) == [d EXCEPT !.plan[d.wp[j]] = id]

(* adopt_workplan_identity.                                                 *)
Adopted(d, j, id) ==
    LET w    == d.wp[j]
        twin == Find(d, id) \ {w}
    IN  IF d.plan[w] = id THEN d
        ELSE IF twin = {} THEN [d EXCEPT !.plan[w] = id]
        ELSE Merged(d, w, TheOne(twin))

(* Mutant: the Workplan a Job has left stays.                               *)
DiscardedNever(d, w) == d

(* discard_orphan_workplan.                                                 *)
Discarded(d, w) == IF w # None /\ JobsOn(d, w) = {} THEN Deleted(d, w) ELSE d

WithSteps(d, w, kind) == [d EXCEPT !.steps[w] = IF @ = "none" THEN kind ELSE @]

----------------------------------------------------------------------------
(* The parsers.                                                             *)

Room == Plans(db) # Ids                 \* bound: MaxPlans
Idle == collecting /\ pending = NoJob /\ Room
Parsed(kind, j) == parsed' = parsed \cup {<<kind, j>>}

NcArrives(j) ==
    /\ <<"nc", j>> \in Comes
    /\ j \notin onDisk
    /\ onDisk' = onDisk \cup {j}
    /\ UNCHANGED <<db, pending, planned, collecting, parsed, crashes>>

(* Logs and roughness files register the Job only.                          *)
ParseLog(j) ==
    /\ <<"log", j>> \in Comes
    /\ Idle
    /\ db' = Registered(db, j)
    /\ Parsed("log", j)
    /\ UNCHANGED <<onDisk, pending, planned, collecting, crashes>>

(* parse_nc: the hash is taken over by a Workplan that has none, the        *)
(* content by whatever Workplan the Job then hangs on.                      *)
ParseNc(j) ==
    /\ Idle
    /\ j \in onDisk
    /\ LET d == Registered(db, j)
           w == d.wp[j]
           e == IF d.plan[w].hash = NoHash
                THEN Adopted(d, j, Identity(d.plan[w].program, NcOf[j])) ELSE d
       IN  db' = WithSteps([e EXCEPT !.blob[e.wp[j]] = NcOf[j]], e.wp[j], "nc")
    /\ Parsed("nc", j)
    /\ UNCHANGED <<onDisk, pending, planned, collecting, crashes>>

(* parse_tdms: the program name is taken over by a Workplan that has none.  *)
ParseTdms(j) ==
    /\ <<"tdms", j>> \in Comes
    /\ Idle
    /\ LET d == Registered(db, j)
           w == d.wp[j]
       IN  db' = IF d.plan[w].program = Unknown
                 THEN Adopted(d, j, Identity(TdmsNameOf[j], d.plan[w].hash)) ELSE d
    /\ Parsed("tdms", j)
    /\ UNCHANGED <<onDisk, pending, planned, collecting, crashes>>

(* The upsert of parse_xml: the tables and the Workplan.  A new Workplan    *)
(* gets its steps and the NC content; one found without a hash gets that.   *)
Upserted(d, j) ==
    LET hash  == IF j \in onDisk THEN NcOf[j] ELSE NoHash
        id    == Identity(ProgramOf[j], hash)
        blank == Find(d, Identity(ProgramOf[j], NoHash))
        w     == FreeId(d)
    IN  CASE Find(d, id) # {} -> [tables |-> d, plan |-> TheOne(Find(d, id))]
          [] Find(d, id) = {} /\ blank # {} ->
               [tables |-> [d EXCEPT !.plan[TheOne(blank)] = id], plan |-> TheOne(blank)]
          [] OTHER ->
               [tables |-> WithSteps([Added(d, id) EXCEPT !.blob[w] = hash], w, "xml"),
                plan |-> w]

(* The Job is created on Workplan w, or moved to it.                        *)
Moved(d, j, w) ==
    LET e == [d EXCEPT !.wp[j] = w]
    IN  IF d.wp[j] # w THEN Discarded(e, d.wp[j]) ELSE e

(* Without an NC program there is one transaction.                          *)
ParseXmlAlone(j) ==
    /\ <<"xml", j>> \in Comes
    /\ Idle
    /\ j \notin onDisk
    /\ LET u == Upserted(db, j) IN db' = Moved(u.tables, j, u.plan)
    /\ Parsed("xml", j)
    /\ UNCHANGED <<onDisk, pending, planned, collecting, crashes>>

(* With one, sync_workplan_nc_cutting_conditions commits the Workplan...    *)
ParseXmlPlan(j) ==
    /\ <<"xml", j>> \in Comes
    /\ Idle
    /\ j \in onDisk
    /\ LET u == Upserted(db, j)
       IN  /\ db' = WithSteps(u.tables, u.plan, "nc")
           /\ planned' = u.plan
    /\ pending' = j
    /\ UNCHANGED <<onDisk, collecting, parsed, crashes>>

(* ... and the Job follows.                                                 *)
ParseXmlJob ==
    /\ pending # NoJob
    /\ db' = Moved(db, pending, planned)
    /\ Parsed("xml", pending)
    /\ pending' = NoJob /\ planned' = None
    /\ UNCHANGED <<onDisk, collecting, crashes>>

Crash ==
    /\ collecting
    /\ crashes < MaxCrashes
    /\ crashes' = crashes + 1
    /\ collecting' = FALSE
    /\ pending' = NoJob /\ planned' = None
    /\ UNCHANGED <<db, onDisk, parsed>>

----------------------------------------------------------------------------
(* clean_dummy_data.run_cleanup.                                            *)

Orphans(d) == {w \in Plans(d) : JobsOn(d, w) = {}}

Dummies(d) == {w \in Orphans(d) : d.plan[w].program = Unknown}

(* A Workplan without a hash beside one of the same program that has one.   *)
Superseded(d) ==
    {w \in Orphans(d) : /\ d.plan[w].hash = NoHash
                        /\ \E v \in Plans(d) : /\ d.plan[v].program = d.plan[w].program
                                               /\ d.plan[v].hash # NoHash}

(* Mutant: a Workplan without steps and NC content goes with its Jobs.      *)
ContentlessOfAll(d) ==
    {w \in Plans(d) : d.plan[w].hash = NoHash /\ d.steps[w] = "none" /\ d.blob[w] = NoHash}

Contentless(d) ==
    {w \in Orphans(d) : d.plan[w].hash = NoHash /\ d.steps[w] = "none" /\ d.blob[w] = NoHash}

Cleaned(d) == DeletedAll(d, Dummies(d) \cup Superseded(d) \cup Contentless(d))

RunSystem ==
    /\ ~collecting
    /\ db' = Cleaned(db)
    /\ collecting' = TRUE
    /\ UNCHANGED <<onDisk, pending, planned, parsed, crashes>>

ControllerStarts ==
    /\ ~collecting
    /\ collecting' = TRUE
    /\ UNCHANGED <<db, onDisk, pending, planned, parsed, crashes>>

LegacyRow(w) == SetToSeq(Legacy)[w]
HasLegacy(w) == w \in 1 .. Cardinality(Legacy)

Init ==
    /\ db = [plan  |-> [w \in Ids |-> IF HasLegacy(w) THEN LegacyRow(w).id ELSE NoPlan],
             blob  |-> [w \in Ids |-> NoHash],
             steps |-> [w \in Ids |-> IF HasLegacy(w) THEN LegacyRow(w).steps ELSE "none"],
             wp    |-> [j \in Jobs |-> None]]
    /\ onDisk = {} /\ pending = NoJob /\ planned = None /\ collecting = FALSE
    /\ parsed = {} /\ crashes = 0

Next == \/ \E j \in Jobs : \/ NcArrives(j) \/ ParseLog(j) \/ ParseNc(j) \/ ParseTdms(j)
                           \/ ParseXmlAlone(j) \/ ParseXmlPlan(j)
        \/ ParseXmlJob \/ Crash \/ RunSystem \/ ControllerStarts

Spec == Init /\ [][Next]_vars

----------------------------------------------------------------------------
(* The types of all variables; every Job hangs on a Workplan that exists,   *)
(* and nothing is left of one that does not.                                *)
TypeOK ==
    /\ db.plan \in [Ids -> Identities \cup {NoPlan}]
    /\ db.blob \in [Ids -> Hashes \cup {NoHash}]
    /\ db.steps \in [Ids -> {"none", "xml", "nc"}]
    /\ db.wp \in [Jobs -> Ids \cup {None}]
    /\ \A j \in Jobs : db.wp[j] # None => db.wp[j] \in Plans(db)
    /\ \A w \in Ids \ Plans(db) : db.blob[w] = NoHash /\ db.steps[w] = "none"
    /\ onDisk \subseteq Jobs /\ parsed \subseteq Comes
    /\ pending \in Jobs \cup {NoJob} /\ planned \in Ids \cup {None}
    /\ collecting \in BOOLEAN /\ crashes \in 0 .. MaxCrashes

(* uq_workplan_identity is never run into, whatever order the files come in.*)
UniqueIdentity == \A w \in Plans(db) : Find(db, db.plan[w]) = {w}

(* A Workplan no Job hangs on is one the XML parser is about to use, or was *)
(* about to use when it was killed, or was there from the start.            *)
NoOrphanPlans ==
    crashes = 0 => \A w \in Orphans(db) :
                       w = planned \/ \E row \in Legacy : row.id = db.plan[w]

(* A Job is never lost, though deleting a Workplan deletes the Jobs on it:  *)
(* not when two Workplans are merged, not when one is discarded, and not by *)
(* the cleanup before a start.                                              *)
JobsStay == [][\A j \in Jobs : db.wp[j] # None => db'.wp[j] # None]_db

(* Once the metadata and the NC program of a Job are parsed, in any order   *)
(* and with any files between, it hangs on the Workplan of its program and  *)
(* its NC content.                                                          *)
IdentitySettles ==
    \A j \in Jobs : {"xml", "nc"} \X {j} \subseteq parsed /\ pending = NoJob =>
        db.plan[db.wp[j]] = Identity(ProgramOf[j], NcOf[j])

(* The same, as long as no TDMS file of any Job has given its program name  *)
(* to the Workplan that the Jobs without metadata share.                    *)
SettlesWithoutTdms == (\A j \in Jobs : <<"tdms", j>> \notin parsed) => IdentitySettles

=============================================================================
