--------------------------- MODULE WorkplansProofs ---------------------------
(* Theorems about Workplans, for any Jobs, files, old Workplans and bounds. *)
EXTENDS Workplans, FiniteSetTheorems, TLAPS

Tables == [plan  : [Ids -> Identities \cup {NoPlan}],
           blob  : [Ids -> Hashes \cup {NoHash}],
           steps : [Ids -> {"none", "xml", "nc"}],
           wp    : [Jobs -> Ids \cup {None}]]

(* The Workplan of a Job exists, nothing is left of one that does not, and  *)
(* no two have the same identity.                                           *)
Consistent(d) ==
    /\ d \in Tables
    /\ \A j \in Jobs : d.wp[j] # None => d.plan[d.wp[j]] # NoPlan
    /\ \A w \in Ids : d.plan[w] = NoPlan => d.blob[w] = NoHash /\ d.steps[w] = "none"
    /\ \A v, w \in Ids : d.plan[v] # NoPlan /\ d.plan[v] = d.plan[w] => v = w

Types ==
    /\ Consistent(db)
    /\ \A j \in onDisk : j \in Jobs /\ <<"nc", j>> \in Comes
    /\ parsed \subseteq Comes
    /\ pending \in Jobs \cup {NoJob} /\ planned \in Ids \cup {None}
    /\ collecting \in BOOLEAN /\ crashes \in 0 .. MaxCrashes

(* Between the commits of the XML parser the Workplan of its Job is there   *)
(* and has the identity of that Job.                                        *)
HalfWay ==
    /\ pending = NoJob => planned = None
    /\ pending # NoJob =>
         /\ <<"xml", pending>> \in Comes
         /\ planned \in Ids
         /\ db.plan[planned] = Identity(ProgramOf[pending], NcOf[pending])

(* A collector that does not run has no XML file in hand.                   *)
Stopped == ~collecting => pending = NoJob

NcIsThere == \A j \in Jobs : <<"nc", j>> \in parsed => j \in onDisk

(* All Jobs of this Job's program are cut by the same NC program.           *)
Agreed(j) == \A k \in Jobs : ProgramOf[k] = ProgramOf[j] => NcOf[k] = NcOf[j]

(* The Workplan of a Job has no name yet or the Job's; with the name, it    *)
(* has no hash yet or the Job's.                                            *)
Named(d, j) == d.plan[d.wp[j]].program \in {Unknown, ProgramOf[j]}
Hashed(d, j) == Agreed(j) /\ d.plan[d.wp[j]].program = ProgramOf[j] =>
                    d.plan[d.wp[j]].hash \in {NoHash, NcOf[j]}

(* What is known of a Job once its files are parsed.                        *)
Learnt(d, done, j) ==
    /\ <<"xml", j>> \in done => d.wp[j] # None /\ d.plan[d.wp[j]].program = ProgramOf[j]
    /\ Agreed(j) /\ {<<"xml", j>>, <<"nc", j>>} \subseteq done =>
           d.plan[d.wp[j]].hash = NcOf[j]

Fits(d, done, j) == (d.wp[j] # None => Named(d, j) /\ Hashed(d, j)) /\ Learnt(d, done, j)

NoTdms(done) == \A j \in Jobs : <<"tdms", j>> \notin done

JobsFit == NoTdms(parsed) => \A j \in Jobs : Fits(db, parsed, j)

IInv == Types /\ HalfWay /\ Stopped /\ NcIsThere /\ NoOrphanPlans /\ JobsFit

NoJobs(d, w) == \A j \in Jobs : d.wp[j] # w

----------------------------------------------------------------------------
(* Changes of the tables.                                                   *)

(* The placeholders of the program are no identities, ids, programs or hashes
   of a Job. *)
LEMMA Sentinels ==
    /\ NoPlan \notin Identities /\ None \notin Ids
    /\ \A j \in Jobs : ProgramOf[j] # Unknown /\ NcOf[j] # NoHash
    /\ \A j \in Jobs : Identity(ProgramOf[j], NcOf[j]) \in Identities
    /\ \A j \in Jobs : Identity(ProgramOf[j], NoHash) \in Identities
    /\ Identity(Unknown, NoHash) \in Identities
  BY WorkplansAssumption DEF NoPlan, Identities, None, Ids, Unknown, Identity

(* A new Workplan has no Job and takes the place of none.                   *)
LEMMA AddedFacts ==
    ASSUME NEW d, Consistent(d), NEW id \in Identities,
           \E w \in Ids : d.plan[w] = NoPlan, \A w \in Ids : d.plan[w] # id
    PROVE  LET w == FreeId(d)
               e == Added(d, id)
           IN  /\ w \in Ids /\ d.plan[w] = NoPlan /\ NoJobs(d, w)
               /\ e \in Tables /\ e.plan = [d.plan EXCEPT ![w] = id]
               /\ e.blob = d.blob /\ e.steps = d.steps /\ e.wp = d.wp
               /\ Consistent(e)
<1> DEFINE w == FreeId(d)  e == Added(d, id)
<1>1. w \in Ids /\ d.plan[w] = NoPlan
  BY DEF FreeId, TheOne, Plans
<1>2. NoJobs(d, w)
  BY <1>1 DEF Consistent, NoJobs, None, Ids
<1>3. e = [d EXCEPT !.plan[w] = id]
  BY DEF Added
<1> HIDE DEF w, e
<1>4. /\ e \in Tables /\ e.plan = [d.plan EXCEPT ![w] = id]
      /\ e.blob = d.blob /\ e.steps = d.steps /\ e.wp = d.wp
  BY <1>1, <1>3 DEF Consistent, Tables
<1>5. Consistent(e)
  BY <1>1, <1>2, <1>4, Sentinels DEF Consistent, NoJobs, Tables
<1> QED
  BY <1>1, <1>2, <1>4, <1>5 DEF w, e

(* Workplans without Jobs can go.                                           *)
LEMMA DeletedFacts ==
    ASSUME NEW d, Consistent(d), NEW W \in SUBSET Ids, \A w \in W : NoJobs(d, w)
    PROVE  LET e == DeletedAll(d, W)
           IN  /\ Consistent(e) /\ e.wp = d.wp
               /\ \A w \in Ids : e.plan[w] = IF w \in W THEN NoPlan ELSE d.plan[w]
<1> DEFINE e == DeletedAll(d, W)
<1>1. \A j \in Jobs : d.wp[j] \notin W
  BY DEF NoJobs
<1>2. /\ e \in Tables /\ e.wp = d.wp
      /\ \A w \in Ids : /\ e.plan[w] = IF w \in W THEN NoPlan ELSE d.plan[w]
                        /\ e.blob[w] = IF w \in W THEN NoHash ELSE d.blob[w]
                        /\ e.steps[w] = IF w \in W THEN "none" ELSE d.steps[w]
  BY <1>1 DEF Consistent, Tables, DeletedAll
<1> HIDE DEF e
<1>3. Consistent(e)
  BY <1>1, <1>2 DEF Consistent, Tables
<1> QED
  BY <1>2, <1>3 DEF e

(* Contents of a Workplan that is there.                                    *)
LEMMA ContentFacts ==
    ASSUME NEW d, Consistent(d), NEW w \in Ids, d.plan[w] # NoPlan,
           NEW hash \in Hashes \cup {NoHash}, NEW kind \in {"xml", "nc"}
    PROVE  /\ LET e == WithSteps([d EXCEPT !.blob[w] = hash], w, kind)
              IN  Consistent(e) /\ e.plan = d.plan /\ e.wp = d.wp
           /\ LET e == WithSteps(d, w, kind)
              IN  Consistent(e) /\ e.plan = d.plan /\ e.wp = d.wp
<1> DEFINE b == [d EXCEPT !.blob[w] = hash]  e == WithSteps(b, w, kind)
<1>1. Consistent(b) /\ b.plan = d.plan /\ b.wp = d.wp
  BY DEF Consistent, Tables
<1>2. ASSUME NEW c, Consistent(c), c.plan = d.plan, c.wp = d.wp
      PROVE  LET x == WithSteps(c, w, kind)
             IN  Consistent(x) /\ x.plan = d.plan /\ x.wp = d.wp
  BY <1>2 DEF WithSteps, Consistent, Tables
<1> QED
  BY <1>1, <1>2

(* A Job that is new hangs on the placeholder of the part, others stay, and *)
(* a new Workplan has a Job.                                                *)
LEMMA RegisteredFacts ==
    ASSUME NEW d, Consistent(d), \E w \in Ids : d.plan[w] = NoPlan, NEW j \in Jobs
    PROVE  LET e == Registered(d, j)
           IN  /\ Consistent(e) /\ e.wp[j] # None
               /\ \A k \in Jobs : k # j \/ d.wp[j] # None => e.wp[k] = d.wp[k]
               /\ d.wp[j] = None => e.plan[e.wp[j]] = Identity(Unknown, NoHash)
               /\ \A w \in Ids : d.plan[w] # NoPlan => e.plan[w] = d.plan[w]
               /\ \A w \in Ids : d.plan[w] = NoPlan /\ e.plan[w] # NoPlan => e.wp[j] = w
<1> DEFINE dummy == Identity(Unknown, NoHash)
           with == IF Find(d, dummy) = {} THEN Added(d, dummy) ELSE d
           w == TheOne(Find(with, dummy))
           e == Registered(d, j)
<1>1. CASE d.wp[j] # None
  BY <1>1 DEF Registered
<1>2. CASE d.wp[j] = None
  <2>1. /\ Consistent(with) /\ with.wp = d.wp /\ \E v \in Ids : with.plan[v] = dummy
        /\ \A v \in Ids : d.plan[v] # NoPlan => with.plan[v] = d.plan[v]
        /\ \A v \in Ids : d.plan[v] = NoPlan /\ with.plan[v] # NoPlan =>
                              with.plan[v] = dummy
    <3>1. CASE Find(d, dummy) = {}
      <4>1. \A v \in Ids : d.plan[v] # dummy
        BY <3>1 DEF Find
      <4>2. LET x == FreeId(d)
                c == Added(d, dummy)
            IN  /\ x \in Ids /\ d.plan[x] = NoPlan
                /\ c \in Tables /\ c.plan = [d.plan EXCEPT ![x] = dummy]
                /\ c.wp = d.wp /\ Consistent(c)
        BY <4>1, AddedFacts, Sentinels
      <4>3. with = Added(d, dummy)
        BY <3>1
      <4>4. d.plan \in [Ids -> Identities \cup {NoPlan}]
        BY DEF Consistent, Tables
      <4> HIDE DEF dummy, with
      <4> QED
        BY <4>2, <4>3, <4>4
    <3>2. CASE Find(d, dummy) # {}
      BY <3>2 DEF Find
    <3> QED
      BY <3>1, <3>2
  <2>2. w \in Ids /\ with.plan[w] = dummy
    BY <2>1 DEF TheOne, Find
  <2>3. e = [with EXCEPT !.wp[j] = w]
    BY <1>2 DEF Registered
  <2> HIDE DEF with, w, e
  <2>4. /\ e.plan = with.plan /\ e.blob = with.blob /\ e.steps = with.steps
        /\ e.wp = [with.wp EXCEPT ![j] = w] /\ e \in Tables
    BY <2>1, <2>2, <2>3 DEF Consistent, Tables
  <2>5. Consistent(e) /\ e.wp[j] = w /\ \A k \in Jobs : k # j => e.wp[k] = d.wp[k]
    BY <2>1, <2>2, <2>4, Sentinels DEF Consistent, Tables
  <2>6. w # None
    BY <2>2, Sentinels
  <2>7. \A v \in Ids : with.plan[v] = dummy => v = w
    BY <2>1, <2>2, Sentinels DEF Consistent
  <2> QED
    BY <1>2, <2>1, <2>2, <2>4, <2>5, <2>6, <2>7 DEF e
<1> QED
  BY <1>1, <1>2

(* The Workplan of Job j takes an identity, or its Jobs move to the one     *)
(* that has it.                                                             *)
LEMMA AdoptedFacts ==
    ASSUME NEW d, Consistent(d), NEW j \in Jobs, d.wp[j] # None, NEW id \in Identities
    PROVE  LET e == Adopted(d, j, id)
           IN  /\ Consistent(e) /\ e.wp[j] # None /\ e.plan[e.wp[j]] = id
               /\ \A k \in Jobs : d.wp[k] = d.wp[j] => e.wp[k] = e.wp[j]
               /\ \A k \in Jobs : d.wp[k] # d.wp[j] => e.wp[k] = d.wp[k]
               /\ \A w \in Ids : w # d.wp[j] => e.plan[w] = d.plan[w]
               /\ \A w \in Ids : e.plan[w] # NoPlan /\ NoJobs(e, w) => NoJobs(d, w)
<1> DEFINE w == d.wp[j]  twin == Find(d, id) \ {w}  e == Adopted(d, j, id)
<1>1. w \in Ids /\ d.plan[w] # NoPlan /\ d.plan \in [Ids -> Identities \cup {NoPlan}]
  BY DEF Consistent, Tables
<1>2. CASE d.plan[w] = id
  <2>1. e = d
    BY <1>2 DEF Adopted
  <2> HIDE DEF e
  <2> QED
    BY <1>1, <1>2, <2>1 DEF e, NoJobs
<1>3. CASE d.plan[w] # id /\ twin = {}
  <2>1. e = [d EXCEPT !.plan[w] = id]
    BY <1>3 DEF Adopted
  <2>2. \A v \in Ids : v # w => d.plan[v] # id
    BY <1>3 DEF Find
  <2> HIDE DEF e, w, twin
  <2>3. /\ e.plan = [d.plan EXCEPT ![w] = id] /\ e.blob = d.blob /\ e.steps = d.steps
        /\ e.wp = d.wp /\ e \in Tables
    BY <1>1, <2>1 DEF Consistent, Tables
  <2>4. Consistent(e)
    BY <1>1, <2>2, <2>3, Sentinels DEF Consistent, Tables
  <2> QED
    BY <1>1, <2>3, <2>4, Sentinels DEF e, w, NoJobs
<1>4. CASE d.plan[w] # id /\ twin # {}
  <2> DEFINE t == TheOne(twin)
             c == [d EXCEPT !.steps[t] = IF @ = "none" THEN d.steps[w] ELSE @,
                            !.wp = [k \in Jobs |-> IF @[k] = w THEN t ELSE @[k]]]
  <2>1. t \in Ids /\ t # w /\ d.plan[t] = id /\ t # None
    BY <1>4, Sentinels DEF TheOne, Find
  <2>2. e = DeletedAll(c, {w})
    BY <1>4 DEF Adopted, Merged, Deleted
  <2> HIDE DEF t, w, e, twin
  <2>3. /\ c.plan = d.plan /\ c.blob = d.blob /\ c \in Tables
        /\ c.steps = [d.steps EXCEPT ![t] = IF d.steps[t] = "none" THEN d.steps[w]
                                                                 ELSE d.steps[t]]
        /\ c.wp = [k \in Jobs |-> IF d.wp[k] = w THEN t ELSE d.wp[k]]
    BY <1>1, <2>1 DEF Consistent, Tables
  <2> HIDE DEF c
  <2>4. Consistent(c) /\ NoJobs(c, w)
    BY <1>1, <2>1, <2>3, Sentinels DEF Consistent, Tables, NoJobs
  <2>5. /\ Consistent(e) /\ e.wp = c.wp
        /\ \A v \in Ids : e.plan[v] = IF v \in {w} THEN NoPlan ELSE c.plan[v]
    BY <1>1, <2>2, <2>4, DeletedFacts
  <2>6. e.wp[j] = t
    BY <2>3, <2>5 DEF w
  <2> QED
    BY <1>1, <2>1, <2>3, <2>5, <2>6 DEF w, e, NoJobs
<1> QED
  BY <1>2, <1>3, <1>4

(* The XML parser finds the Workplan of its Job, gives one without a hash   *)
(* its hash, or makes a new one; no Job moves.                              *)
LEMMA UpsertedFacts ==
    ASSUME NEW d, Consistent(d), \E w \in Ids : d.plan[w] = NoPlan, NEW j \in Jobs
    PROVE  LET u == Upserted(d, j)
               id == Identity(ProgramOf[j], IF j \in onDisk THEN NcOf[j] ELSE NoHash)
           IN  /\ Consistent(u.tables) /\ u.tables.wp = d.wp
               /\ u.plan \in Ids /\ u.tables.plan = [d.plan EXCEPT ![u.plan] = id]
               /\ d.plan[u.plan] \in {id, Identity(ProgramOf[j], NoHash), NoPlan}
<1> DEFINE u == Upserted(d, j)
           hash == IF j \in onDisk THEN NcOf[j] ELSE NoHash
           id == Identity(ProgramOf[j], hash)
           blank == Find(d, Identity(ProgramOf[j], NoHash))
           w == FreeId(d)
<1>1. d.plan \in [Ids -> Identities \cup {NoPlan}]
  BY DEF Consistent, Tables
<1>2. id \in Identities /\ hash \in Hashes \cup {NoHash} /\ id # NoPlan
  BY Sentinels, WorkplansAssumption
<1>3. CASE Find(d, id) # {}
  <2>1. TheOne(Find(d, id)) \in Ids /\ d.plan[TheOne(Find(d, id))] = id
    BY <1>3 DEF Find, TheOne
  <2>2. u.tables = d /\ u.plan = TheOne(Find(d, id))
    BY <1>3 DEF Upserted
  <2> HIDE DEF u, id
  <2> QED
    BY <1>1, <2>1, <2>2 DEF u, id
<1>4. CASE Find(d, id) = {} /\ blank # {}
  <2> DEFINE b == TheOne(blank)
  <2>1. b \in Ids /\ d.plan[b] = Identity(ProgramOf[j], NoHash) /\ d.plan[b] # NoPlan
    BY <1>4, Sentinels DEF Find, TheOne
  <2>2. u.tables = [d EXCEPT !.plan[b] = id] /\ u.plan = b
    BY <1>4 DEF Upserted
  <2>3. \A v \in Ids : d.plan[v] # id
    BY <1>4 DEF Find
  <2> HIDE DEF u, id, b, blank
  <2>4. /\ u.tables.plan = [d.plan EXCEPT ![b] = id] /\ u.tables.blob = d.blob
        /\ u.tables.steps = d.steps /\ u.tables.wp = d.wp /\ u.tables \in Tables
    BY <1>2, <2>1, <2>2 DEF Consistent, Tables
  <2>5. Consistent(u.tables)
    BY <1>2, <2>1, <2>3, <2>4 DEF Consistent, Tables
  <2> QED
    BY <2>1, <2>2, <2>4, <2>5 DEF u, id
<1>5. CASE Find(d, id) = {} /\ blank = {}
  <2> DEFINE c == Added(d, id)
  <2>1. \A v \in Ids : d.plan[v] # id
    BY <1>5 DEF Find
  <2>2. u.tables = WithSteps([c EXCEPT !.blob[w] = hash], w, "xml") /\ u.plan = w
    BY <1>5 DEF Upserted
  <2> HIDE DEF u, id, blank, hash
  <2>3. /\ w \in Ids /\ d.plan[w] = NoPlan /\ Consistent(c)
        /\ c.plan = [d.plan EXCEPT ![w] = id] /\ c.wp = d.wp
    BY <1>2, <2>1, AddedFacts
  <2> HIDE DEF c, w
  <2>4. c.plan[w] # NoPlan
    BY <1>1, <1>2, <2>3
  <2>5. Consistent(u.tables) /\ u.tables.plan = c.plan /\ u.tables.wp = c.wp
    BY <1>2, <2>2, <2>3, <2>4, ContentFacts
  <2> QED
    BY <2>2, <2>3, <2>5 DEF u, id, hash
<1> QED
  BY <1>3, <1>4, <1>5

(* Job j moves to Workplan w; the one it leaves goes if no Job is left.     *)
LEMMA MovedFacts ==
    ASSUME NEW d, Consistent(d), NEW j \in Jobs, NEW w \in Ids, d.plan[w] # NoPlan
    PROVE  LET e == Moved(d, j, w)
           IN  /\ Consistent(e) /\ e.wp = [d.wp EXCEPT ![j] = w]
               /\ \A v \in Ids : e.plan[v] \in {d.plan[v], NoPlan}
               /\ \A v \in Ids : ~NoJobs(e, v) => e.plan[v] = d.plan[v]
               /\ \A v \in Ids : e.plan[v] # NoPlan /\ NoJobs(e, v) => NoJobs(d, v)
<1> DEFINE m == [d EXCEPT !.wp[j] = w]  old == d.wp[j]  e == Moved(d, j, w)
<1>1. /\ m.plan = d.plan /\ m.blob = d.blob /\ m.steps = d.steps /\ m \in Tables
      /\ m.wp = [d.wp EXCEPT ![j] = w] /\ old \in Ids \cup {None}
  BY DEF Consistent, Tables
<1>2. Consistent(m) /\ m.wp[j] = w
  BY <1>1 DEF Consistent, Tables
<1>3. \A k \in Jobs : k # j => m.wp[k] = d.wp[k]
  BY <1>1
<1>4. e = IF old # w /\ old # None /\ JobsOn(m, old) = {} THEN DeletedAll(m, {old}) ELSE m
  BY DEF Moved, Discarded, Deleted
<1> HIDE DEF m, e
<1>5. CASE old # w /\ old # None /\ JobsOn(m, old) = {}
  <2>1. NoJobs(m, old)
    BY <1>5 DEF JobsOn, NoJobs
  <2>2. /\ Consistent(e) /\ e.wp = m.wp
        /\ \A v \in Ids : e.plan[v] = IF v \in {old} THEN NoPlan ELSE m.plan[v]
    BY <1>1, <1>2, <1>4, <1>5, <2>1, DeletedFacts
  <2>3. \A v \in Ids : e.plan[v] # NoPlan /\ NoJobs(e, v) => NoJobs(d, v)
    BY <1>2, <1>3, <2>2 DEF NoJobs
  <2> QED
    BY <1>1, <2>1, <2>2, <2>3 DEF e, m, NoJobs
<1>6. CASE ~(old # w /\ old # None /\ JobsOn(m, old) = {})
  <2>1. e = m
    BY <1>4, <1>6
  <2>2. ASSUME NEW v \in Ids, NoJobs(m, v) PROVE NoJobs(d, v)
    <3>1. v # w /\ v # None
      BY <1>2, <2>2, Sentinels DEF NoJobs
    <3>2. JobsOn(m, v) = {}
      BY <2>2 DEF NoJobs, JobsOn
    <3>3. old # v
      BY <1>6, <3>1, <3>2
    <3> QED
      BY <1>3, <2>2, <3>3 DEF NoJobs
  <2> QED
    BY <1>1, <1>2, <2>1, <2>2 DEF e, m
<1> QED
  BY <1>5, <1>6

(* The cleanup before a start takes no Workplan that has a Job.             *)
LEMMA CleanedFacts ==
    ASSUME NEW d, Consistent(d)
    PROVE  LET e == Cleaned(d)
           IN  /\ Consistent(e) /\ e.wp = d.wp
               /\ \A w \in Ids : e.plan[w] \in {d.plan[w], NoPlan}
               /\ \A w \in Ids : ~NoJobs(d, w) => e.plan[w] = d.plan[w]
<1> DEFINE W == Dummies(d) \cup Superseded(d) \cup Contentless(d)
<1>1. W \in SUBSET Ids /\ \A w \in W : NoJobs(d, w)
  BY DEF Dummies, Superseded, Contentless, Orphans, Plans, JobsOn, NoJobs
<1>2. Cleaned(d) = DeletedAll(d, W)
  BY DEF Cleaned
<1> HIDE DEF W
<1> QED
  BY <1>1, <1>2, DeletedFacts

----------------------------------------------------------------------------
(* What the steps have in common.                                           *)

(* A Workplan without Jobs was there before, or is the one planned.         *)
LEMMA OrphansStay ==
    ASSUME NoOrphanPlans, crashes' = crashes,
           \A w \in Ids : db'.plan[w] # NoPlan /\ NoJobs(db', w) =>
               w = planned' \/ (w # planned /\ NoJobs(db, w) /\ db'.plan[w] = db.plan[w])
    PROVE  NoOrphanPlans'
<1> SUFFICES ASSUME crashes = 0, NEW w \in Orphans(db'), w # planned'
             PROVE  \E row \in Legacy : row.id = db'.plan[w]
  BY DEF NoOrphanPlans
<1>1. w \in Ids /\ db'.plan[w] # NoPlan /\ NoJobs(db', w)
  BY DEF Orphans, Plans, JobsOn, NoJobs
<1>2. w # planned /\ NoJobs(db, w) /\ db'.plan[w] = db.plan[w]
  BY <1>1
<1>3. w \in Orphans(db)
  BY <1>1, <1>2 DEF Orphans, Plans, JobsOn, NoJobs
<1> QED
  BY <1>2, <1>3 DEF NoOrphanPlans

(* A Job that keeps its Workplan's identity still fits.                     *)
LEMMA SameIdentity ==
    ASSUME NEW d, NEW e, NEW done, NEW done2, NEW k \in Jobs, Fits(d, done, k),
           d.wp[k] # None => e.wp[k] # None /\ e.plan[e.wp[k]] = d.plan[d.wp[k]],
           d.wp[k] = None => e.wp[k] = None,
           \A kind \in {"xml", "nc"} : <<kind, k>> \in done2 <=> <<kind, k>> \in done
    PROVE  Fits(e, done2, k)
  BY Sentinels DEF Fits, Named, Hashed, Learnt

(* So does one whose Workplan keeps its name and takes over the hash of a   *)
(* Job of that name.                                                        *)
LEMMA TakesHash ==
    ASSUME NEW d, NEW e, NEW done, NEW done2, NEW k \in Jobs, Fits(d, done, k),
           d.wp[k] # None, e.wp[k] # None, d.plan[d.wp[k]].hash = NoHash,
           e.plan[e.wp[k]].program = d.plan[d.wp[k]].program,
           NEW j \in Jobs, e.plan[e.wp[k]].hash = NcOf[j],
           d.plan[d.wp[k]].program \in {Unknown, ProgramOf[j]},
           \A kind \in {"xml", "nc"} : <<kind, k>> \in done2 => k = j \/ <<kind, k>> \in done
    PROVE  k # j => Fits(e, done2, k)
  BY Sentinels DEF Fits, Named, Hashed, Learnt, Agreed

(* While there is room, a Workplan can be created. *)
LEMMA RoomFacts == Room => \E w \in Ids : db.plan[w] = NoPlan
  BY DEF Room, Plans

----------------------------------------------------------------------------
(* The parsers.                                                             *)

(* Each of them but the XML parser registers its Job first.                 *)
LEMMA Registers ==
    ASSUME IInv, Idle, NEW j \in Jobs
    PROVE  LET d == Registered(db, j)
           IN  /\ Consistent(d) /\ d.wp[j] # None
               /\ \A k \in Jobs : db.wp[k] # None => d.wp[k] # None
               /\ \A w \in Ids : d.plan[w] # NoPlan /\ NoJobs(d, w) =>
                      NoJobs(db, w) /\ d.plan[w] = db.plan[w]
               /\ NoTdms(parsed) => \A k \in Jobs : Fits(d, parsed, k)
<1> DEFINE d == Registered(db, j)
<1>1. Consistent(db) /\ \E w \in Ids : db.plan[w] = NoPlan
  BY RoomFacts DEF IInv, Types, Idle
<1>2. /\ Consistent(d) /\ d.wp[j] # None
      /\ \A k \in Jobs : k # j \/ db.wp[j] # None => d.wp[k] = db.wp[k]
      /\ db.wp[j] = None => d.plan[d.wp[j]] = Identity(Unknown, NoHash)
      /\ \A w \in Ids : db.plan[w] # NoPlan => d.plan[w] = db.plan[w]
      /\ \A w \in Ids : db.plan[w] = NoPlan /\ d.plan[w] # NoPlan => d.wp[j] = w
  BY <1>1, RegisteredFacts
<1> HIDE DEF d
<1>3. \A w \in Ids : d.plan[w] # NoPlan /\ NoJobs(d, w) =>
          NoJobs(db, w) /\ d.plan[w] = db.plan[w]
  BY <1>2, Sentinels DEF NoJobs
<1>4. ASSUME NoTdms(parsed), NEW k \in Jobs PROVE Fits(d, parsed, k)
  <2>1. Fits(db, parsed, k)
    BY <1>4 DEF IInv, JobsFit
  <2>2. CASE k # j \/ db.wp[j] # None
    <3>1. db.wp[k] # None => db.wp[k] \in Ids /\ db.plan[db.wp[k]] # NoPlan
      BY <1>1 DEF Consistent, Tables
    <3> QED
      BY <1>2, <2>1, <2>2, <3>1, SameIdentity
  <2>3. CASE k = j /\ db.wp[j] = None
    BY <1>2, <2>1, <2>3, Sentinels DEF Fits, Named, Hashed, Learnt, Identity
  <2> QED
    BY <2>2, <2>3
<1> QED
  BY <1>2, <1>3, <1>4 DEF d

(* Parsing a log keeps the invariant and takes no Job off its Workplan. *)
LEMMA LogStep ==
    ASSUME IInv, NEW j \in Jobs, ParseLog(j)
    PROVE  IInv' /\ \A k \in Jobs : db.wp[k] # None => db'.wp[k] # None
<1>1. pending = NoJob /\ planned = None /\ Idle
  BY DEF IInv, HalfWay, ParseLog, Idle
<1>2. /\ db' = Registered(db, j) /\ crashes' = crashes
      /\ parsed' = parsed \cup {<<"log", j>>} /\ <<"log", j>> \in Comes
  BY DEF ParseLog, Parsed
<1>3. /\ Consistent(db')
      /\ \A k \in Jobs : db.wp[k] # None => db'.wp[k] # None
      /\ \A w \in Ids : db'.plan[w] # NoPlan /\ NoJobs(db', w) =>
             NoJobs(db, w) /\ db'.plan[w] = db.plan[w]
      /\ NoTdms(parsed) => \A k \in Jobs : Fits(db', parsed, k)
  BY <1>1, <1>2, Registers
<1>4. Types' /\ HalfWay' /\ NcIsThere' /\ Stopped'
  BY <1>1, <1>2, <1>3 DEF IInv, Types, HalfWay, NcIsThere, Stopped, ParseLog
<1>5. NoOrphanPlans'
  BY <1>1, <1>2, <1>3, Sentinels, OrphansStay DEF IInv
<1>6. JobsFit'
  BY <1>2, <1>3 DEF JobsFit, NoTdms, Fits, Learnt
<1> QED
  BY <1>3, <1>4, <1>5, <1>6 DEF IInv

(* Parsing an NC program keeps the invariant: an identity that is taken leads
   to the Workplan that has it. *)
LEMMA NcStep ==
    ASSUME IInv, NEW j \in Jobs, ParseNc(j)
    PROVE  IInv' /\ \A k \in Jobs : db.wp[k] # None => db'.wp[k] # None
<1> DEFINE d == Registered(db, j)
           w == d.wp[j]
           id == Identity(d.plan[w].program, NcOf[j])
           e == IF d.plan[w].hash = NoHash THEN Adopted(d, j, id) ELSE d
           f == WithSteps([e EXCEPT !.blob[e.wp[j]] = NcOf[j]], e.wp[j], "nc")
<1>1. pending = NoJob /\ planned = None /\ Idle /\ j \in onDisk /\ crashes' = crashes
  BY DEF IInv, HalfWay, ParseNc, Idle
<1>2. db' = f /\ parsed' = parsed \cup {<<"nc", j>>} /\ <<"nc", j>> \in Comes
  BY <1>1 DEF ParseNc, Parsed, IInv, Types
<1>3. /\ Consistent(d) /\ d.wp[j] # None
      /\ \A k \in Jobs : db.wp[k] # None => d.wp[k] # None
      /\ \A v \in Ids : d.plan[v] # NoPlan /\ NoJobs(d, v) =>
             NoJobs(db, v) /\ d.plan[v] = db.plan[v]
      /\ NoTdms(parsed) => \A k \in Jobs : Fits(d, parsed, k)
  BY <1>1, Registers
<1> HIDE DEF d
<1>4. w \in Ids /\ d.plan[w] \in Identities
  BY <1>3 DEF Consistent, Tables
<1>5. id \in Identities /\ id.program = d.plan[w].program /\ id.hash = NcOf[j]
  BY <1>4, WorkplansAssumption DEF Identities, Identity
<1> HIDE DEF id
<1> DEFINE Good == /\ Consistent(e) /\ e.wp[j] # None
                   /\ \A k \in Jobs : d.wp[k] # None => e.wp[k] # None
                   /\ \A v \in Ids : e.plan[v] # NoPlan /\ NoJobs(e, v) =>
                          NoJobs(d, v) /\ e.plan[v] = d.plan[v]
                   /\ NoTdms(parsed) => \A k \in Jobs : Fits(e, parsed', k)
<1>6. ASSUME d.plan[w].hash = NoHash PROVE Good
  <2>1. e = Adopted(d, j, id)
    BY <1>6
  <2> HIDE DEF e
  <2>2. /\ Consistent(e) /\ e.wp[j] # None /\ e.plan[e.wp[j]] = id
        /\ \A k \in Jobs : d.wp[k] = w => e.wp[k] = e.wp[j]
        /\ \A k \in Jobs : d.wp[k] # w => e.wp[k] = d.wp[k]
        /\ \A v \in Ids : v # w => e.plan[v] = d.plan[v]
        /\ \A v \in Ids : e.plan[v] # NoPlan /\ NoJobs(e, v) => NoJobs(d, v)
    BY <1>3, <1>5, <2>1, AdoptedFacts
  <2>3. \A v \in Ids : e.plan[v] # NoPlan /\ NoJobs(e, v) =>
            NoJobs(d, v) /\ e.plan[v] = d.plan[v]
    BY <2>2 DEF NoJobs
  <2>4. ASSUME NoTdms(parsed), NEW k \in Jobs PROVE Fits(e, parsed', k)
    <3>1. Fits(d, parsed, k) /\ Fits(d, parsed, j)
      BY <1>3, <2>4
    <3>2. CASE d.wp[k] # w
      <4>1. d.wp[k] # None => d.wp[k] \in Ids
        BY <1>3 DEF Consistent, Tables
      <4>2. \A kind \in {"xml", "nc"} : <<kind, k>> \in parsed' <=> <<kind, k>> \in parsed
        BY <1>2, <3>2
      <4>3. e.wp[k] = d.wp[k] /\ (d.wp[k] # None => e.plan[e.wp[k]] = d.plan[d.wp[k]])
        BY <2>2, <3>2, <4>1
      <4> QED
        BY <3>1, <4>2, <4>3, SameIdentity
    <3>3. CASE d.wp[k] = w /\ k # j
      <4>1. d.plan[w].program \in {Unknown, ProgramOf[j]}
        BY <1>3, <3>1 DEF Fits, Named
      <4>2. e.wp[k] # None /\ e.plan[e.wp[k]] = id
        BY <2>2, <3>3
      <4>3. \A kind \in {"xml", "nc"} :
                <<kind, k>> \in parsed' => k = j \/ <<kind, k>> \in parsed
        BY <1>2
      <4> QED
        BY <1>3, <1>5, <1>6, <3>1, <3>3, <4>1, <4>2, <4>3, TakesHash
    <3>4. CASE k = j
      <4>1. d.plan[w].program \in {Unknown, ProgramOf[j]}
        BY <1>3, <3>1 DEF Fits, Named
      <4>2. <<"xml", j>> \in parsed' => <<"xml", j>> \in parsed
        BY <1>2
      <4> QED
        BY <1>5, <2>2, <3>1, <3>4, <4>1, <4>2 DEF Fits, Named, Hashed, Learnt
    <3> QED
      BY <3>2, <3>3, <3>4
  <2>5. \A k \in Jobs : d.wp[k] # None => e.wp[k] # None
    BY <2>2
  <2> QED
    BY <2>2, <2>3, <2>4, <2>5
<1>7. ASSUME d.plan[w].hash # NoHash PROVE Good
  <2>1. e = d
    BY <1>7
  <2> HIDE DEF e
  <2>2. ASSUME NoTdms(parsed), NEW k \in Jobs PROVE Fits(d, parsed', k)
    <3>1. Fits(d, parsed, k)
      BY <1>3, <2>2
    <3>2. CASE k # j
      <4>1. \A kind \in {"xml", "nc"} : <<kind, k>> \in parsed' <=> <<kind, k>> \in parsed
        BY <1>2, <3>2
      <4> QED
        BY <3>1, <4>1, SameIdentity
    <3>3. CASE k = j
      <4>1. <<"xml", j>> \in parsed' => <<"xml", j>> \in parsed
        BY <1>2
      <4> QED
        BY <1>3, <1>7, <3>1, <3>3, <4>1 DEF Fits, Named, Hashed, Learnt
    <3> QED
      BY <3>2, <3>3
  <2> QED
    BY <1>3, <2>1, <2>2
<1>8. /\ Consistent(e) /\ e.wp[j] # None
      /\ \A k \in Jobs : d.wp[k] # None => e.wp[k] # None
      /\ \A v \in Ids : e.plan[v] # NoPlan /\ NoJobs(e, v) =>
             NoJobs(d, v) /\ e.plan[v] = d.plan[v]
      /\ NoTdms(parsed) => \A k \in Jobs : Fits(e, parsed', k)
  BY <1>6, <1>7
<1> HIDE DEF e
<1>9. e.wp[j] \in Ids /\ e.plan[e.wp[j]] # NoPlan /\ NcOf[j] \in Hashes
  BY <1>8, WorkplansAssumption DEF Consistent, Tables
<1>10. Consistent(f) /\ f.plan = e.plan /\ f.wp = e.wp
  BY <1>8, <1>9, ContentFacts
<1> HIDE DEF f
<1>11. Types' /\ HalfWay' /\ NcIsThere' /\ Stopped'
  BY <1>1, <1>2, <1>10 DEF IInv, Types, HalfWay, NcIsThere, Stopped, ParseNc
<1>12. NoOrphanPlans'
  <2>1. planned' = planned
    BY DEF ParseNc
  <2>2. \A v \in Ids : f.plan[v] # NoPlan /\ NoJobs(f, v) =>
            v # planned /\ NoJobs(db, v) /\ f.plan[v] = db.plan[v]
    <3> SUFFICES ASSUME NEW v \in Ids, f.plan[v] # NoPlan, NoJobs(f, v)
                 PROVE  v # planned /\ NoJobs(db, v) /\ f.plan[v] = db.plan[v]
      OBVIOUS
    <3>1. NoJobs(e, v) /\ e.plan[v] # NoPlan
      BY <1>10 DEF NoJobs
    <3>2. NoJobs(d, v) /\ e.plan[v] = d.plan[v]
      BY <1>8, <3>1
    <3> QED
      BY <1>1, <1>3, <1>10, <3>1, <3>2, Sentinels
  <2> QED
    BY <1>1, <1>2, <2>1, <2>2, OrphansStay DEF IInv
<1>13. JobsFit'
  <2>1. NoTdms(parsed') => NoTdms(parsed)
    BY <1>2 DEF NoTdms
  <2>2. \A k \in Jobs : Fits(e, parsed', k) => Fits(f, parsed', k)
    BY <1>10 DEF Fits, Named, Hashed, Learnt
  <2> QED
    BY <1>2, <1>8, <2>1, <2>2 DEF JobsFit
<1> QED
  BY <1>2, <1>3, <1>8, <1>10, <1>11, <1>12, <1>13 DEF IInv

(* Parsing a recording keeps the invariant: a Workplan is renamed only into
   an identity nobody has. *)
LEMMA TdmsStep ==
    ASSUME IInv, NEW j \in Jobs, ParseTdms(j)
    PROVE  IInv' /\ \A k \in Jobs : db.wp[k] # None => db'.wp[k] # None
<1> DEFINE d == Registered(db, j)
           w == d.wp[j]
           id == Identity(TdmsNameOf[j], d.plan[w].hash)
           e == IF d.plan[w].program = Unknown THEN Adopted(d, j, id) ELSE d
<1>1. /\ pending = NoJob /\ planned = None /\ planned' = planned /\ Idle
      /\ crashes' = crashes
  BY DEF IInv, HalfWay, ParseTdms, Idle
<1>2. db' = e /\ parsed' = parsed \cup {<<"tdms", j>>} /\ <<"tdms", j>> \in Comes
  BY DEF ParseTdms, Parsed
<1>3. /\ Consistent(d) /\ d.wp[j] # None
      /\ \A k \in Jobs : db.wp[k] # None => d.wp[k] # None
      /\ \A v \in Ids : d.plan[v] # NoPlan /\ NoJobs(d, v) =>
             NoJobs(db, v) /\ d.plan[v] = db.plan[v]
  BY <1>1, Registers
<1> HIDE DEF d
<1>4. w \in Ids /\ d.plan[w] \in Identities
  BY <1>3 DEF Consistent, Tables
<1>5. id \in Identities
  BY <1>4, WorkplansAssumption DEF Identities, Identity
<1> HIDE DEF id
<1> DEFINE Good == /\ Consistent(e)
                   /\ \A k \in Jobs : d.wp[k] # None => e.wp[k] # None
                   /\ \A v \in Ids : e.plan[v] # NoPlan /\ NoJobs(e, v) =>
                          NoJobs(d, v) /\ e.plan[v] = d.plan[v]
<1>6. ASSUME d.plan[w].program = Unknown PROVE Good
  <2>1. e = Adopted(d, j, id)
    BY <1>6
  <2> HIDE DEF e
  <2>2. /\ Consistent(e) /\ e.wp[j] # None
        /\ \A k \in Jobs : d.wp[k] = w => e.wp[k] = e.wp[j]
        /\ \A k \in Jobs : d.wp[k] # w => e.wp[k] = d.wp[k]
        /\ \A v \in Ids : v # w => e.plan[v] = d.plan[v]
        /\ \A v \in Ids : e.plan[v] # NoPlan /\ NoJobs(e, v) => NoJobs(d, v)
    BY <1>3, <1>5, <2>1, AdoptedFacts
  <2>3. \A v \in Ids : e.plan[v] # NoPlan /\ NoJobs(e, v) =>
            NoJobs(d, v) /\ e.plan[v] = d.plan[v]
    BY <2>2 DEF NoJobs
  <2>4. \A k \in Jobs : d.wp[k] # None => e.wp[k] # None
    BY <2>2
  <2> QED
    BY <2>2, <2>3, <2>4
<1>7. ASSUME d.plan[w].program # Unknown PROVE Good
  BY <1>3, <1>7
<1>8. Good
  BY <1>6, <1>7
<1> HIDE DEF e
<1>9. Types' /\ HalfWay' /\ NcIsThere' /\ Stopped'
  BY <1>1, <1>2, <1>8 DEF IInv, Types, HalfWay, NcIsThere, Stopped, ParseTdms
<1>10. NoOrphanPlans'
  <2>1. ASSUME NEW v \in Ids, e.plan[v] # NoPlan, NoJobs(e, v)
        PROVE  v # planned /\ NoJobs(db, v) /\ e.plan[v] = db.plan[v]
    BY <1>1, <1>3, <1>8, <2>1, Sentinels
  <2> QED
    BY <1>1, <1>2, <2>1, OrphansStay DEF IInv
<1>11. JobsFit'
  BY <1>2 DEF JobsFit, NoTdms
<1> QED
  BY <1>2, <1>3, <1>8, <1>9, <1>10, <1>11 DEF IInv

(* The tables after the upsert: Jobs stay where they are and fit, and the   *)
(* Workplan has the identity of the Job.                                    *)
LEMMA Upserts ==
    ASSUME IInv, Idle, NEW j \in Jobs
    PROVE  LET u == Upserted(db, j)
           IN  /\ Consistent(u.tables) /\ u.plan \in Ids /\ u.tables.wp = db.wp
               /\ u.tables.plan[u.plan] =
                      Identity(ProgramOf[j], IF j \in onDisk THEN NcOf[j] ELSE NoHash)
               /\ \A w \in Ids : w # u.plan => u.tables.plan[w] = db.plan[w]
               /\ NoTdms(parsed) => \A k \in Jobs : Fits(u.tables, parsed, k)
<1> DEFINE u == Upserted(db, j)
           hash == IF j \in onDisk THEN NcOf[j] ELSE NoHash
           id == Identity(ProgramOf[j], hash)
<1>1. Consistent(db) /\ \E w \in Ids : db.plan[w] = NoPlan
  BY RoomFacts DEF IInv, Types, Idle
<1>2. /\ Consistent(u.tables) /\ u.tables.wp = db.wp
      /\ u.plan \in Ids /\ u.tables.plan = [db.plan EXCEPT ![u.plan] = id]
      /\ db.plan[u.plan] \in {id, Identity(ProgramOf[j], NoHash), NoPlan}
  BY <1>1, UpsertedFacts
<1> HIDE DEF u
<1>3. /\ db.plan \in [Ids -> Identities \cup {NoPlan}] /\ db.wp \in [Jobs -> Ids \cup {None}]
      /\ \A k \in Jobs : db.wp[k] # None => db.plan[db.wp[k]] # NoPlan
  BY <1>1 DEF Consistent, Tables
<1>4. /\ u.tables.plan[u.plan] = id
      /\ \A w \in Ids : w # u.plan => u.tables.plan[w] = db.plan[w]
  BY <1>2, <1>3
<1>5. ASSUME NoTdms(parsed), NEW k \in Jobs PROVE Fits(u.tables, parsed, k)
  <2>1. Fits(db, parsed, k) /\ Fits(db, parsed, j)
    BY <1>5 DEF IInv, JobsFit
  <2>2. CASE db.wp[k] # u.plan \/ db.plan[u.plan] = id \/ db.wp[k] = None
    <3>1. db.wp[k] # None => u.tables.plan[u.tables.wp[k]] = db.plan[db.wp[k]]
      BY <1>2, <1>3, <1>4, <2>2
    <3> QED
      BY <1>2, <2>1, <3>1, SameIdentity
  <2>3. CASE db.wp[k] = u.plan /\ db.wp[k] # None /\ db.plan[u.plan] # id
    <3>1. db.plan[u.plan] = Identity(ProgramOf[j], NoHash) /\ j \in onDisk
      BY <1>2, <1>3, <2>3
    <3>2. /\ db.plan[db.wp[k]].program = ProgramOf[j] /\ db.plan[db.wp[k]].hash = NoHash
          /\ u.tables.plan[u.tables.wp[k]].program = ProgramOf[j]
          /\ u.tables.plan[u.tables.wp[k]].hash = NcOf[j]
      BY <1>2, <1>4, <2>3, <3>1 DEF Identity
    <3>3. CASE k # j
      <4>1. /\ u.tables.wp[k] # None /\ db.plan[db.wp[k]].program \in {Unknown, ProgramOf[j]}
            /\ \A kind \in {"xml", "nc"} :
                  <<kind, k>> \in parsed => k = j \/ <<kind, k>> \in parsed
        BY <1>2, <2>3, <3>2
      <4>2. u.tables.plan[u.tables.wp[k]].program = db.plan[db.wp[k]].program
        BY <3>2
      <4> QED
        BY <2>1, <2>3, <3>2, <3>3, <4>1, <4>2, TakesHash
    <3>4. CASE k = j
      BY <1>2, <2>1, <2>3, <3>2, <3>4, Sentinels DEF Fits, Named, Hashed, Learnt
    <3> QED
      BY <3>3, <3>4
  <2> QED
    BY <2>2, <2>3
<1> QED
  BY <1>2, <1>4, <1>5 DEF u

(* A Job that moves to the Workplan of its own identity.                    *)
LEMMA Moves ==
    ASSUME NEW d, Consistent(d), NEW j \in Jobs, NEW w \in Ids, NEW done, NEW done2,
           NEW hash \in {NoHash, NcOf[j]}, d.plan[w] = Identity(ProgramOf[j], hash),
           <<"nc", j>> \in done2 => hash = NcOf[j],
           done2 = done \cup {<<"xml", j>>}, \A k \in Jobs : Fits(d, done, k)
    PROVE  \A k \in Jobs : Fits(Moved(d, j, w), done2, k)
<1> DEFINE e == Moved(d, j, w)
<1>1. d.plan[w] # NoPlan /\ w # None
  BY Sentinels DEF Identity, NoPlan
<1>2. /\ e.wp = [d.wp EXCEPT ![j] = w]
      /\ \A v \in Ids : ~NoJobs(e, v) => e.plan[v] = d.plan[v]
  BY <1>1, MovedFacts
<1> HIDE DEF e
<1>3. d.wp \in [Jobs -> Ids \cup {None}]
  BY DEF Consistent, Tables
<1>4. e.wp[j] = w /\ e.plan[w] = d.plan[w] /\ \A k \in Jobs : k # j => e.wp[k] = d.wp[k]
  BY <1>2, <1>3 DEF NoJobs
<1>5. ASSUME NEW k \in Jobs PROVE Fits(e, done2, k)
  <2>1. CASE k = j
    BY <1>1, <1>4, <2>1 DEF Fits, Named, Hashed, Learnt, Identity
  <2>2. CASE k # j
    <3>1. d.wp[k] # None => e.plan[e.wp[k]] = d.plan[d.wp[k]]
      BY <1>2, <1>3, <1>4, <2>2 DEF NoJobs
    <3>2. \A kind \in {"xml", "nc"} : <<kind, k>> \in done2 <=> <<kind, k>> \in done
      BY <2>2
    <3>3. /\ d.wp[k] # None => e.wp[k] # None /\ e.plan[e.wp[k]] = d.plan[d.wp[k]]
          /\ d.wp[k] = None => e.wp[k] = None
          /\ Fits(d, done, k)
      BY <1>4, <2>2, <3>1
    <3> QED
      BY <3>2, <3>3, Sentinels DEF Fits, Named, Hashed, Learnt
  <2> QED
    BY <2>1, <2>2
<1> QED
  BY <1>5 DEF e

(* Parsing an XML file without an NC program beside it keeps the invariant. *)
LEMMA XmlAloneStep ==
    ASSUME IInv, NEW j \in Jobs, ParseXmlAlone(j)
    PROVE  IInv' /\ \A k \in Jobs : db.wp[k] # None => db'.wp[k] # None
<1> DEFINE d == Upserted(db, j).tables  w == Upserted(db, j).plan
<1>1. /\ pending = NoJob /\ planned = None /\ planned' = planned /\ Idle
      /\ crashes' = crashes /\ j \notin onDisk
  BY DEF IInv, HalfWay, ParseXmlAlone, Idle
<1>2. /\ db' = Moved(d, j, w) /\ parsed' = parsed \cup {<<"xml", j>>}
      /\ <<"xml", j>> \in Comes
  BY DEF ParseXmlAlone, Parsed
<1>3. /\ Consistent(d) /\ w \in Ids /\ d.wp = db.wp
      /\ d.plan[w] = Identity(ProgramOf[j], NoHash)
      /\ \A v \in Ids : v # w => d.plan[v] = db.plan[v]
      /\ NoTdms(parsed) => \A k \in Jobs : Fits(d, parsed, k)
  BY <1>1, Upserts
<1> HIDE DEF d, w
<1>4. d.plan[w] # NoPlan /\ w # None
  BY <1>3, Sentinels
<1>5. /\ Consistent(db') /\ db'.wp = [d.wp EXCEPT ![j] = w]
      /\ \A v \in Ids : db'.plan[v] \in {d.plan[v], NoPlan}
      /\ \A v \in Ids : db'.plan[v] # NoPlan /\ NoJobs(db', v) => NoJobs(d, v)
  BY <1>2, <1>3, <1>4, MovedFacts
<1>6. d.wp \in [Jobs -> Ids \cup {None}]
  BY <1>3 DEF Consistent, Tables
<1>7. Types' /\ HalfWay' /\ NcIsThere' /\ Stopped'
  BY <1>1, <1>2, <1>5 DEF IInv, Types, HalfWay, NcIsThere, Stopped, ParseXmlAlone
<1>8. NoOrphanPlans'
  <2>1. ASSUME NEW v \in Ids, db'.plan[v] # NoPlan, NoJobs(db', v)
        PROVE  v # planned /\ NoJobs(db, v) /\ db'.plan[v] = db.plan[v]
    <3>1. NoJobs(db, v) /\ db'.plan[v] = d.plan[v]
      BY <1>3, <1>5, <2>1 DEF NoJobs
    <3>2. v # w
      BY <1>5, <1>6, <2>1 DEF NoJobs
    <3> QED
      BY <1>1, <1>3, <3>1, <3>2, Sentinels
  <2> QED
    BY <1>1, <2>1, OrphansStay DEF IInv
<1>9. JobsFit'
  <2> SUFFICES ASSUME NoTdms(parsed') PROVE \A k \in Jobs : Fits(db', parsed', k)
    BY DEF JobsFit
  <2>1. NoTdms(parsed)
    BY <1>2 DEF NoTdms
  <2>2. <<"nc", j>> \notin parsed'
    BY <1>1, <1>2 DEF IInv, NcIsThere
  <2> QED
    BY <1>2, <1>3, <2>1, <2>2, Moves
<1> QED
  BY <1>3, <1>4, <1>5, <1>6, <1>7, <1>8, <1>9 DEF IInv

(* The first commit of the XML parser, the Workplan of the NC program, keeps
   the invariant. *)
LEMMA XmlPlanStep ==
    ASSUME IInv, NEW j \in Jobs, ParseXmlPlan(j)
    PROVE  IInv' /\ \A k \in Jobs : db.wp[k] # None => db'.wp[k] # None
<1> DEFINE d == Upserted(db, j).tables  w == Upserted(db, j).plan
<1>1. /\ Idle /\ crashes' = crashes /\ j \in onDisk /\ pending' = j /\ planned' = w
      /\ parsed' = parsed /\ <<"xml", j>> \in Comes /\ db' = WithSteps(d, w, "nc")
      /\ pending = NoJob /\ planned = None
  BY DEF IInv, HalfWay, ParseXmlPlan, Idle
<1>2. /\ Consistent(d) /\ w \in Ids /\ d.wp = db.wp
      /\ d.plan[w] = Identity(ProgramOf[j], NcOf[j])
      /\ \A v \in Ids : v # w => d.plan[v] = db.plan[v]
      /\ NoTdms(parsed) => \A k \in Jobs : Fits(d, parsed, k)
  BY <1>1, Upserts
<1> HIDE DEF d, w
<1>3. d.plan[w] # NoPlan /\ NoHash \in Hashes \cup {NoHash}
  BY <1>2, Sentinels
<1>4. Consistent(db') /\ db'.plan = d.plan /\ db'.wp = d.wp
  BY <1>1, <1>2, <1>3, ContentFacts
<1>5. Types' /\ HalfWay' /\ NcIsThere' /\ Stopped'
  BY <1>1, <1>2, <1>4, WorkplansAssumption
     DEF IInv, Types, HalfWay, NcIsThere, Stopped, Idle, ParseXmlPlan
<1>6. NoOrphanPlans'
  <2>1. ASSUME NEW v \in Ids, db'.plan[v] # NoPlan, NoJobs(db', v), v # w
        PROVE  v # planned /\ NoJobs(db, v) /\ db'.plan[v] = db.plan[v]
    BY <1>1, <1>2, <1>4, <2>1, Sentinels DEF NoJobs
  <2> QED
    BY <1>1, <2>1, OrphansStay DEF IInv
<1>7. JobsFit'
  BY <1>1, <1>2, <1>4 DEF JobsFit, Fits, Named, Hashed, Learnt
<1> QED
  BY <1>2, <1>4, <1>5, <1>6, <1>7 DEF IInv

(* The second commit of the XML parser, the Job on that Workplan, keeps the
   invariant. *)
LEMMA XmlJobStep ==
    ASSUME IInv, ParseXmlJob
    PROVE  IInv' /\ \A k \in Jobs : db.wp[k] # None => db'.wp[k] # None
<1> DEFINE j == pending  w == planned
<1>1. /\ j \in Jobs /\ w \in Ids /\ <<"xml", j>> \in Comes /\ Consistent(db)
      /\ db.plan[w] = Identity(ProgramOf[j], NcOf[j])
  BY DEF IInv, Types, HalfWay, ParseXmlJob
<1>2. /\ db' = Moved(db, j, w) /\ parsed' = parsed \cup {<<"xml", j>>}
      /\ pending' = NoJob /\ planned' = None /\ crashes' = crashes
  BY DEF ParseXmlJob, Parsed
<1>3. db.plan[w] # NoPlan /\ w # None
  BY <1>1, Sentinels
<1>4. /\ Consistent(db') /\ db'.wp = [db.wp EXCEPT ![j] = w]
      /\ \A v \in Ids : db'.plan[v] \in {db.plan[v], NoPlan}
      /\ \A v \in Ids : db'.plan[v] # NoPlan /\ NoJobs(db', v) => NoJobs(db, v)
  BY <1>1, <1>2, <1>3, MovedFacts
<1>5. db.wp \in [Jobs -> Ids \cup {None}]
  BY <1>1 DEF Consistent, Tables
<1>6. Types' /\ HalfWay' /\ NcIsThere' /\ Stopped'
  BY <1>1, <1>2, <1>4 DEF IInv, Types, HalfWay, NcIsThere, Stopped, ParseXmlJob
<1>7. NoOrphanPlans'
  <2>1. ASSUME NEW v \in Ids, db'.plan[v] # NoPlan, NoJobs(db', v)
        PROVE  v # planned /\ NoJobs(db, v) /\ db'.plan[v] = db.plan[v]
    BY <1>1, <1>4, <1>5, <2>1 DEF NoJobs
  <2> QED
    BY <1>2, <2>1, OrphansStay DEF IInv
<1>8. JobsFit'
  <2> SUFFICES ASSUME NoTdms(parsed') PROVE \A k \in Jobs : Fits(db', parsed', k)
    BY DEF JobsFit
  <2>1. NoTdms(parsed)
    BY <1>2 DEF NoTdms
  <2>2. \A k \in Jobs : Fits(db, parsed, k)
    BY <2>1 DEF IInv, JobsFit
  <2> QED
    BY <1>1, <1>2, <2>2, Moves
<1> QED
  BY <1>1, <1>3, <1>4, <1>5, <1>6, <1>7, <1>8 DEF IInv

(* The cleanup before a start deletes only Workplans no Job hangs on, and
   keeps the invariant. *)
LEMMA CleanupStep ==
    ASSUME IInv, RunSystem
    PROVE  IInv' /\ \A k \in Jobs : db.wp[k] # None => db'.wp[k] # None
<1>1. /\ pending' = pending /\ planned' = planned /\ crashes' = crashes
      /\ parsed' = parsed /\ onDisk' = onDisk /\ collecting' = TRUE
      /\ db' = Cleaned(db) /\ Consistent(db) /\ pending = NoJob /\ planned = None
  BY DEF IInv, Types, HalfWay, Stopped, RunSystem
<1>2. /\ Consistent(db') /\ db'.wp = db.wp
      /\ \A w \in Ids : db'.plan[w] \in {db.plan[w], NoPlan}
      /\ \A w \in Ids : ~NoJobs(db, w) => db'.plan[w] = db.plan[w]
  BY <1>1, CleanedFacts
<1>3. Types' /\ HalfWay' /\ NcIsThere' /\ Stopped'
  BY <1>1, <1>2 DEF IInv, Types, HalfWay, NcIsThere, Stopped
<1>4. NoOrphanPlans'
  <2>1. ASSUME NEW v \in Ids, db'.plan[v] # NoPlan, NoJobs(db', v)
        PROVE  v # planned /\ NoJobs(db, v) /\ db'.plan[v] = db.plan[v]
    BY <1>1, <1>2, <2>1, Sentinels DEF NoJobs
  <2> QED
    BY <1>1, <2>1, OrphansStay DEF IInv
<1>5. JobsFit'
  <2> SUFFICES ASSUME NoTdms(parsed), NEW k \in Jobs PROVE Fits(db', parsed, k)
    BY <1>1 DEF JobsFit
  <2>1. Fits(db, parsed, k)
    BY DEF IInv, JobsFit
  <2>2. db.wp[k] # None => db.wp[k] \in Ids /\ ~NoJobs(db, db.wp[k])
    BY <1>1 DEF Consistent, Tables, NoJobs
  <2>3. db.wp[k] # None => db'.plan[db'.wp[k]] = db.plan[db.wp[k]]
    BY <1>2, <2>2
  <2> QED
    BY <1>2, <2>1, <2>3, SameIdentity
<1> QED
  BY <1>2, <1>3, <1>4, <1>5 DEF IInv

(* The other steps leave the tables alone.                                  *)
LEMMA OtherStep ==
    ASSUME IInv,
           \/ \E j \in Jobs : NcArrives(j)
           \/ Crash \/ ControllerStarts \/ UNCHANGED vars
    PROVE  IInv' /\ db' = db
<1>1. CASE \E j \in Jobs : NcArrives(j)
  BY <1>1 DEF IInv, Types, HalfWay, NcIsThere, Stopped, NoOrphanPlans, JobsFit, NcArrives
<1>2. CASE Crash
  <2>1. crashes' # 0 /\ crashes' \in 0 .. MaxCrashes /\ db' = db
    BY <1>2, WorkplansAssumption DEF Crash, IInv, Types
  <2>2. NoOrphanPlans'
    BY <2>1 DEF NoOrphanPlans
  <2>3. JobsFit' /\ Types' /\ HalfWay' /\ NcIsThere' /\ Stopped'
    BY <1>2, <2>1 DEF Crash, IInv, Types, HalfWay, NcIsThere, Stopped, JobsFit
  <2> QED
    BY <2>1, <2>2, <2>3 DEF IInv
<1>3. CASE ControllerStarts
  BY <1>3 DEF IInv, Types, HalfWay, NcIsThere, Stopped, NoOrphanPlans, JobsFit, ControllerStarts
<1>4. CASE UNCHANGED vars
  BY <1>4 DEF IInv, Types, HalfWay, NcIsThere, Stopped, NoOrphanPlans, JobsFit, vars
<1> QED
  BY <1>1, <1>2, <1>3, <1>4

----------------------------------------------------------------------------
(* The theorems.                                                            *)

(* A finite set is listed as a sequence of its members, each of them once.  *)
LEMMA SetToSeqType ==
    ASSUME NEW S, IsFiniteSet(S)
    PROVE  SetToSeq(S) \in [1 .. Cardinality(S) -> S] /\ IsInjective(SetToSeq(S))
<1>1. Cardinality(S) \in Nat /\ ExistsBijection(1 .. Cardinality(S), S)
  BY FS_CardinalityType
<1>2. \E f \in [1 .. Cardinality(S) -> S] : IsInjective(f)
  BY <1>1 DEF ExistsBijection, Bijection, Injection, IsInjective
<1> QED
  BY <1>2 DEF SetToSeq

(* The tables an earlier version left satisfy the invariant. *)
LEMMA Initially == Init => IInv
<1> SUFFICES ASSUME Init PROVE IInv
  OBVIOUS
<1> DEFINE n == Cardinality(Legacy)
<1>1. n \in Nat /\ n <= MaxPlans /\ MaxPlans \in Nat /\ MaxCrashes \in Nat
  BY LegacyAssumption, WorkplansAssumption, FS_CardinalityType
<1>2. SetToSeq(Legacy) \in [1 .. n -> Legacy] /\ IsInjective(SetToSeq(Legacy))
  BY LegacyAssumption, SetToSeqType
<1>3. \A v, w \in 1 .. n : SetToSeq(Legacy)[v] = SetToSeq(Legacy)[w] => v = w
  BY <1>2 DEF IsInjective
<1>4. \A w \in 1 .. n : SetToSeq(Legacy)[w] \in Legacy
  BY <1>2
<1>5. \A w \in Ids : HasLegacy(w) => LegacyRow(w) \in Legacy
  BY <1>4 DEF HasLegacy, LegacyRow
<1>6. \A v, w \in Ids : HasLegacy(v) /\ HasLegacy(w) /\ LegacyRow(v).id = LegacyRow(w).id => v = w
  BY <1>3, <1>4, LegacyAssumption DEF HasLegacy, LegacyRow
<1>7. \A row \in Legacy : row.id \in Identities /\ row.steps \in {"none", "xml", "nc"}
  BY LegacyAssumption
<1>8. /\ db.plan = [w \in Ids |-> IF HasLegacy(w) THEN LegacyRow(w).id ELSE NoPlan]
      /\ db.blob = [w \in Ids |-> NoHash]
      /\ db.steps = [w \in Ids |-> IF HasLegacy(w) THEN LegacyRow(w).steps ELSE "none"]
      /\ db.wp = [j \in Jobs |-> None]
      /\ db \in Tables
  BY <1>5, <1>7 DEF Init, Tables
<1>9. Consistent(db)
  BY <1>5, <1>6, <1>7, <1>8, Sentinels DEF Consistent
<1>10. Types
  <2>1. crashes \in 0 .. MaxCrashes
    BY <1>1 DEF Init
  <2>2. onDisk = {} /\ parsed = {} /\ pending = NoJob /\ planned = None /\ collecting = FALSE
    BY DEF Init
  <2> QED
    BY <1>9, <2>1, <2>2 DEF Types
<1>11. NoOrphanPlans
  BY <1>5, <1>8 DEF NoOrphanPlans, Orphans, Plans
<1>12. JobsFit
  BY <1>8, Sentinels DEF JobsFit, Fits, Learnt, Init
<1> QED
  BY <1>10, <1>11, <1>12, WorkplansAssumption DEF IInv, HalfWay, NcIsThere, Stopped, Init

(* Every step keeps the invariant and takes no Job off its Workplan. *)
LEMMA Step ==
    ASSUME IInv, [Next]_vars
    PROVE  IInv' /\ \A k \in Jobs : db.wp[k] # None => db'.wp[k] # None
<1>1. CASE \E j \in Jobs : ParseLog(j) \/ ParseNc(j) \/ ParseTdms(j)
  BY <1>1, LogStep, NcStep, TdmsStep
<1>2. CASE \E j \in Jobs : ParseXmlAlone(j) \/ ParseXmlPlan(j)
  BY <1>2, XmlAloneStep, XmlPlanStep
<1>3. CASE ParseXmlJob
  BY <1>3, XmlJobStep
<1>4. CASE RunSystem
  BY <1>4, CleanupStep
<1>5. CASE (\E j \in Jobs : NcArrives(j)) \/ Crash \/ ControllerStarts \/ UNCHANGED vars
  BY <1>5, OtherStep
<1> QED
  BY <1>1, <1>2, <1>3, <1>4, <1>5 DEF Next

(* IInv is an invariant: the tables stay consistent whatever is parsed.     *)
THEOREM Invariant == Spec => []IInv
<1>1. Init => IInv
  BY Initially
<1>2. IInv /\ [Next]_vars => IInv'
  BY Step
<1> QED
  BY <1>1, <1>2, PTL DEF Spec

(* The variables keep their types; a Job hangs on a Workplan that exists.   *)
THEOREM TypeCorrect == Spec => []TypeOK
<1>1. IInv => TypeOK
  BY DEF IInv, Types, Consistent, Tables, TypeOK, Plans
<1> QED
  BY <1>1, Invariant, PTL

(* uq_workplan_identity is never run into by a parser or a merge.           *)
THEOREM IdentityIsUnique == Spec => []UniqueIdentity
<1>1. IInv => UniqueIdentity
  BY DEF IInv, Types, Consistent, UniqueIdentity, Plans, Find
<1> QED
  BY <1>1, Invariant, PTL

(* Until the first kill the parsers leave no Workplan behind that no Job    *)
(* hangs on: one without is left from an earlier version, or is the one the *)
(* XML parser has just committed and is about to hang its Job on.           *)
THEOREM OrphansAreOld == Spec => []NoOrphanPlans
<1>1. IInv => NoOrphanPlans
  BY DEF IInv
<1> QED
  BY <1>1, Invariant, PTL

(* No Job is deleted with a Workplan that is merged, discarded or cleaned.  *)
THEOREM JobsAreKept == Spec => JobsStay
<1>1. IInv /\ [Next]_vars =>
          [\A j \in Jobs : db.wp[j] # None => db'.wp[j] # None]_db
  BY Step
<1> QED
  BY <1>1, Invariant, PTL DEF Spec, JobsStay

(* If the Jobs of a program are all cut by the same NC program, metadata    *)
(* and NC program settle the Workplan of a Job in whatever order they come. *)
THEOREM PlansSettle ==
    ASSUME \A j \in Jobs : Agreed(j) PROVE Spec => []SettlesWithoutTdms
<1>1. IInv => SettlesWithoutTdms
  <2> SUFFICES ASSUME IInv, NoTdms(parsed), NEW j \in Jobs,
                      {"xml", "nc"} \X {j} \subseteq parsed
               PROVE  db.plan[db.wp[j]] = Identity(ProgramOf[j], NcOf[j])
    BY DEF SettlesWithoutTdms, IdentitySettles, NoTdms
  <2>1. <<"xml", j>> \in parsed /\ <<"nc", j>> \in parsed
    OBVIOUS
  <2>2. /\ db.wp[j] # None /\ db.plan[db.wp[j]].program = ProgramOf[j]
        /\ db.plan[db.wp[j]].hash = NcOf[j]
    BY <2>1 DEF IInv, JobsFit, Fits, Learnt
  <2>3. db.plan[db.wp[j]] \in Identities
    BY <2>2 DEF IInv, Types, Consistent, Tables
  <2> QED
    BY <2>2, <2>3 DEF Identities, Identity
<1> QED
  BY <1>1, Invariant, PTL
=============================================================================
