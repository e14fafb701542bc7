--------------------------- MODULE JobWindowProofs ---------------------------
(* Theorems about JobWindow, for any recording, program, files and bounds.  *)
EXTENDS JobWindow, FiniteSetTheorems, WellFoundedInduction, TLAPS

(* A time that the XML named is the Job's, and stays it: the converter and  *)
(* the backfill have loaded it so.                                          *)
XmlStands ==
    "xml" \in read /\ ~overtaken =>
        \A x \in {"start", "end"} : said[x] # NoTime =>
            /\ job[x] = said[x]
            /\ conv # None => conv.job[x] = said[x]
            /\ back # None => back[x] = said[x]

(* The name of the program is known from the recording or the metadata.     *)
NameOf(known) == IF {"tdms", "xml"} \cap known = {} THEN Unknown ELSE Program
NameIsRead == name = NameOf(read)

(* What a window was compared with tells what was known of the NC program.  *)
RefOf(known) == IF "nc" \in known THEN NameOf(known) ELSE NoProgram
RefTells ==
    /\ conv # None => conv.window.ref = RefOf(conv.known)
    /\ window # None => window.ref = RefOf(window.known)

HasTimes ==
    DOMAIN job = {"start", "end"} /\ (back # None => DOMAIN back = {"start", "end"})

IInv == HasTimes /\ XmlStands /\ NameIsRead /\ RefTells

Both == {"start", "end"}

(* The window remembers the NC program it was found with. *)
LEMMA DetectRef ==
    ASSUME NEW r, NEW nc, NEW s, NEW e
    PROVE  Detect(r, nc, s, e).ref = IF nc = NoProgram THEN NoProgram ELSE nc.name
  BY DEF Detect

(* Only what is missing is filled in.                                       *)
LEMMA FilledFacts == \A t, found : t # NoTime => Filled(t, found) = t
  BY DEF Filled

(* A log fills in only the times that are missing. *)
LEMMA FromLogFacts ==
    ASSUME NEW t
    PROVE  DOMAIN FromLog(t) = Both /\ \A x \in Both : t[x] # NoTime => FromLog(t)[x] = t[x]
<1>1. FromLog(t).start = Filled(Filled(t.start, Stamp("log")), Local(rows[1].at))
  BY DEF FromLog
<1>2. FromLog(t).end = Filled(t.end, Local(Clock))
  BY DEF FromLog
<1>3. DOMAIN FromLog(t) = Both
  BY DEF FromLog, Both
<1> QED
  BY <1>1, <1>2, <1>3, FilledFacts DEF Both

(* The backfill fills in only the times that are missing. *)
LEMMA BackfilledFacts ==
    ASSUME NEW t, DOMAIN t = Both
    PROVE  \A x \in Both : t[x] # NoTime => Backfilled(t)[x] = t[x]
<1> DEFINE p == IF parquet THEN [start |-> Filled(t.start, window.start),
                                 end   |-> Filled(t.end, window.end)] ELSE t
           q == IF "tdms" \in read THEN [p EXCEPT !.start = Filled(@, Stamp("tdms"))] ELSE p
<1>1. DOMAIN p = Both /\ \A x \in Both : t[x] # NoTime => p[x] = t[x]
  BY FilledFacts DEF Both
<1> HIDE DEF p
<1>2. \A x \in Both : t[x] # NoTime => q[x] = t[x]
  <2>1. CASE "tdms" \in read
    <3>1. q.start = Filled(p.start, Stamp("tdms")) /\ q.end = p.end
      BY <1>1, <2>1 DEF Both
    <3> QED
      BY <1>1, <2>1, <3>1, FilledFacts DEF Both
  <2>2. CASE "tdms" \notin read
    BY <1>1, <2>2
  <2> QED
    BY <2>1, <2>2
<1> HIDE DEF q
<1>3. Backfilled(t) = IF "log" \in read THEN FromLog(q) ELSE q
  BY DEF Backfilled, p, q
<1> QED
  BY <1>2, <1>3, FromLogFacts

----------------------------------------------------------------------------
(* The steps.                                                               *)

(* The times of the XML stand in a step that overwrites no time and loads no
   Job. *)
LEMMA XmlStandsOn ==
    ASSUME IInv, "xml" \in read' => "xml" \in read /\ said' = said /\ overtaken' = overtaken,
           \A x \in Both : job[x] # NoTime => job'[x] = job[x],
           conv' \in {conv, None}, back' \in {back, None}
    PROVE  XmlStands'
  BY DEF IInv, XmlStands, Both

(* Steps that change neither what is read nor what is found.                *)
LEMMA OtherStep ==
    ASSUME IInv, UNCHANGED <<read, name, job, said, overtaken, window>>,
           conv' \in {conv, None}, back' = back
    PROVE  IInv'
  BY DEF IInv, HasTimes, XmlStands, NameIsRead, RefTells

(* Reading any of the files of the Job keeps the invariant. *)
LEMMA ReadStep ==
    ASSUME IInv, ReadTdms \/ ReadNc \/ ReadLog \/ ReadXml
    PROVE  IInv'
<1>1. /\ back = None /\ back' = None /\ conv' = conv /\ window' = window
  BY DEF ReadTdms, ReadNc, ReadLog, ReadXml, Read
<1>2. RefTells'
  BY <1>1 DEF IInv, RefTells
<1>3. CASE ReadTdms
  <2>1. /\ read' = read \cup {"tdms"} /\ said' = said /\ overtaken' = overtaken
        /\ name' = IF name = Unknown THEN Program ELSE name
        /\ job' = [job EXCEPT !.start = Filled(Filled(job.start, Stamp("tdms")), rows[1].at)]
    BY <1>3 DEF ReadTdms, Read
  <2>2. HasTimes' /\ NameIsRead'
    BY <1>1, <2>1 DEF IInv, HasTimes, NameIsRead, NameOf
  <2>3. \A x \in Both : job[x] # NoTime => job'[x] = job[x]
    BY <2>1, FilledFacts DEF IInv, HasTimes, Both
  <2> QED
    BY <1>1, <1>2, <2>1, <2>2, <2>3, XmlStandsOn DEF IInv
<1>4. CASE ReadNc
  <2>1. /\ read' = read \cup {"nc"} /\ said' = said /\ overtaken' = overtaken
        /\ name' = name /\ job' = job
    BY <1>4 DEF ReadNc, Read
  <2>2. HasTimes' /\ NameIsRead'
    BY <1>1, <2>1 DEF IInv, HasTimes, NameIsRead, NameOf
  <2> QED
    BY <1>1, <1>2, <2>1, <2>2, XmlStandsOn DEF IInv
<1>5. CASE ReadLog
  <2>1. /\ read' = read \cup {"log"} /\ said' = said /\ overtaken' = overtaken
        /\ name' = name /\ job' = FromLog(job)
    BY <1>5 DEF ReadLog, Read
  <2>2. HasTimes' /\ NameIsRead'
    BY <1>1, <2>1, FromLogFacts DEF IInv, HasTimes, NameIsRead, NameOf, Both
  <2> QED
    BY <1>1, <1>2, <2>1, <2>2, FromLogFacts, XmlStandsOn DEF IInv
<1>6. CASE ReadXml
  <2>1. /\ read' = read \cup {"xml"} /\ name' = Program /\ job' = said'
        /\ overtaken' = (conv # None) /\ DOMAIN said' = Both
    BY <1>6 DEF ReadXml, Read, FromXml, Both
  <2>2. HasTimes' /\ NameIsRead'
    BY <1>1, <2>1 DEF IInv, HasTimes, NameIsRead, NameOf, Both
  <2>3. XmlStands'
    BY <1>1, <2>1 DEF XmlStands
  <2> QED
    BY <1>2, <2>2, <2>3 DEF IInv
<1> QED
  BY <1>3, <1>4, <1>5, <1>6

(* The load of the backfill keeps the invariant. *)
LEMMA LoadAllStep == ASSUME IInv, LoadAll PROVE IInv'
<1>1. back' = job /\ UNCHANGED stored /\ conv' = conv
  BY DEF LoadAll
<1> QED
  BY <1>1 DEF IInv, HasTimes, XmlStands, NameIsRead, RefTells, stored

(* The commit of the backfill keeps the invariant: it writes times only where
   the load found none. *)
LEMMA CommitAllStep == ASSUME IInv, CommitAll PROVE IInv'
<1>1. /\ back # None /\ back' = None /\ conv' = conv /\ window' = window
      /\ UNCHANGED <<read, name, said, overtaken>>
      /\ job' = Merged(job, back, Backfilled(back))
  BY DEF CommitAll
<1>2. HasTimes'
  BY <1>1 DEF IInv, HasTimes, Merged
<1>3. NameIsRead' /\ RefTells'
  BY <1>1 DEF IInv, NameIsRead, RefTells
<1>4. XmlStands'
  <2> SUFFICES ASSUME "xml" \in read, ~overtaken, NEW x \in Both, said[x] # NoTime
               PROVE  job'[x] = said[x] /\ (conv # None => conv.job[x] = said[x])
    BY <1>1 DEF XmlStands, Both
  <2>1. job[x] = said[x] /\ back[x] = said[x] /\ (conv # None => conv.job[x] = said[x])
    BY <1>1 DEF IInv, XmlStands, Both
  <2>2. Backfilled(back)[x] = back[x]
    BY <1>1, <2>1, BackfilledFacts DEF IInv, HasTimes, Both
  <2> QED
    BY <1>1, <2>1, <2>2 DEF Merged, Both
<1> QED
  BY <1>2, <1>3, <1>4 DEF IInv

(* The load of the converter keeps the invariant. *)
LEMMA LoadStep == ASSUME IInv, Load PROVE IInv'
<1> DEFINE w == Detect(rows, Nc, job.start, job.end)
<1>1. /\ "tdms" \in read /\ conv' = [job |-> job, window |-> w, known |-> read]
      /\ UNCHANGED stored /\ back' = back
  BY DEF Load, NeedsConversion
<1>2. w.ref = RefOf(read)
  <2>1. name = Program
    BY <1>1 DEF IInv, NameIsRead, NameOf
  <2>2. w.ref = IF Nc = NoProgram THEN NoProgram ELSE Nc.name
    BY DetectRef
  <2> HIDE DEF w
  <2> QED
    BY <1>1, <2>1, <2>2, NoProgramAssumption DEF Nc, NcKnown, RefOf, NameOf
<1> HIDE DEF w
<1> QED
  BY <1>1, <1>2 DEF IInv, HasTimes, XmlStands, NameIsRead, RefTells, stored

(* The commit of the converter keeps the invariant, also for a Job that was
   loaded before the XML was stored. *)
LEMMA StoreStep == ASSUME IInv, Store PROVE IInv'
<1>1. /\ conv # None /\ conv' = None /\ back' = back
      /\ window' = Window(conv.window, conv.known)
      /\ job' = Merged(job, conv.job, WithWindow(conv.job, conv.window))
      /\ UNCHANGED <<read, name, said, overtaken>>
  BY DEF Store
<1>2. HasTimes'
  BY <1>1 DEF IInv, HasTimes, Merged
<1>3. RefTells'
  <2>1. window'.ref = conv.window.ref /\ window'.known = conv.known
    BY <1>1 DEF Window
  <2> QED
    BY <1>1, <2>1 DEF IInv, RefTells
<1>4. XmlStands'
  <2> SUFFICES ASSUME "xml" \in read, ~overtaken, NEW x \in Both, said[x] # NoTime
               PROVE  job'[x] = said[x] /\ (back # None => back[x] = said[x])
    BY <1>1 DEF XmlStands, Both
  <2>1. job[x] = said[x] /\ conv.job[x] = said[x] /\ (back # None => back[x] = said[x])
    BY <1>1 DEF IInv, XmlStands, Both
  <2>2. WithWindow(conv.job, conv.window)[x] = conv.job[x]
    BY <2>1, FilledFacts DEF WithWindow, Both
  <2> QED
    BY <1>1, <2>1, <2>2 DEF Merged, Both
<1> QED
  BY <1>1, <1>2, <1>3, <1>4 DEF IInv, NameIsRead

(* Every step keeps the invariant. *)
LEMMA Step == ASSUME IInv, [Next]_vars PROVE IInv'
<1>1. CASE Machine
  <2>1. UNCHANGED stored /\ conv' = conv /\ back' = back
    BY <1>1 DEF Machine, RunsOn, Misses, Starts, Stands, Waits, Probes, EndOfRecording, Record
  <2> QED
    BY <2>1, OtherStep DEF stored
<1>2. CASE Worker
  BY <1>2, ReadStep, LoadAllStep, CommitAllStep DEF Worker
<1>3. CASE Load \/ Store
  BY <1>3, LoadStep, StoreStep
<1>4. CASE GiveUp \/ LoseParquet \/ UNCHANGED vars
  <2>1. /\ UNCHANGED <<read, name, job, said, overtaken, window>>
        /\ conv' \in {conv, None} /\ back' = back
    BY <1>4 DEF GiveUp, LoseParquet, vars, stored
  <2> QED
    BY <2>1, OtherStep
<1> QED
  BY <1>1, <1>2, <1>3, <1>4 DEF Next

----------------------------------------------------------------------------
(* The theorems.                                                            *)

(* The invariant holds for a Job that has no files. *)
LEMMA Initially == Init => IInv
  BY DEF Init, IInv, HasTimes, XmlStands, NameIsRead, NameOf, RefTells, NoTimes

(* IInv is an invariant.                                                    *)
THEOREM Invariant == Spec => []IInv
<1>1. Init => IInv
  BY Initially
<1>2. IInv /\ [Next]_vars => IInv'
  BY Step
<1> QED
  BY <1>1, <1>2, PTL DEF Spec

(* Neither the converter, whatever it had loaded when, nor the backfill,    *)
(* nor another file overwrites a time that the metadata named.              *)
THEOREM XmlTimesAreKept == Spec => []XmlTimesStand
<1>1. IInv => XmlTimesStand
  BY DEF IInv, XmlStands, XmlTimesStand
<1> QED
  BY <1>1, Invariant, PTL

(* A window that was found with all that is known calls for no other one.   *)
THEOREM ConversionsEnd == Spec => []ConversionSettles
<1>1. IInv => ConversionSettles
  BY NoProgramAssumption DEF IInv, NameIsRead, RefTells, RefOf, NameOf, ConversionSettles,
     NeedsConversion, Stale, NcKnown, Program, Unknown
<1> QED
  BY <1>1, Invariant, PTL

----------------------------------------------------------------------------
(* Least, greatest, and what is defined row by row.                       *)

(* A set of integers that has a lower bound has a least element. *)
LEMMA LeastExists ==
    ASSUME NEW S \in SUBSET Int, S # {}, NEW b \in Int, \A x \in S : b <= x
    PROVE  \E x \in S : \A y \in S : x <= y
<1> DEFINE T == {k \in Nat : k + b \in S}
<1>1. T \subseteq Nat
  OBVIOUS
<1>2. \A x \in S : x - b \in Nat /\ (x - b) + b \in S /\ x \in Int
  OBVIOUS
<1>3. \A x \in S : x - b \in T
  BY <1>2
<1>4. \A k \in T : k + b \in S
  OBVIOUS
<1> HIDE DEF T
<1>5. PICK k \in T : \A m \in T : ~ (<<m, k>> \in OpToRel(<, Nat))
  <2>1. T # {}
    BY <1>3
  <2> QED
    BY <1>1, <2>1, WFMin, NatLessThanWellFounded
<1>6. \A m \in T : ~ (m < k)
  BY <1>1, <1>5 DEF OpToRel
<1>7. \A y \in S : k + b <= y
  <2> TAKE y \in S
  <2>1. ~ (y - b < k) /\ y \in Int /\ k \in Int
    BY <1>1, <1>3, <1>6
  <2> QED
    BY <2>1
<1> QED
  BY <1>4, <1>5, <1>7

(* Least finds it. *)
LEMMA LeastFacts ==
    ASSUME NEW S \in SUBSET Int, S # {}, NEW b \in Int, \A x \in S : b <= x
    PROVE  Least(S) \in S /\ \A y \in S : Least(S) <= y
  BY LeastExists DEF Least

(* Greatest finds the greatest element of a set that has an upper bound. *)
LEMMA GreatestFacts ==
    ASSUME NEW S \in SUBSET Int, S # {}, NEW b \in Int, \A x \in S : x <= b
    PROVE  Greatest(S) \in S /\ \A y \in S : y <= Greatest(S)
<1> DEFINE T == {k \in Int : -k \in S}
<1>1. T \in SUBSET Int /\ (\A x \in T : -b <= x) /\ -b \in Int
  OBVIOUS
<1>2. \A x \in S : -x \in Int /\ -(-x) = x
  OBVIOUS
<1>3. \A x \in S : -x \in T
  BY <1>2
<1>4. \A k \in T : -k \in S /\ k \in Int
  OBVIOUS
<1> HIDE DEF T
<1>5. PICK k \in T : \A y \in T : k <= y
  BY <1>1, <1>3, LeastExists
<1>6. -k \in S /\ \A y \in S : y <= -k
  <2> SUFFICES ASSUME NEW y \in S PROVE -k \in S /\ y <= -k
    BY <1>4, <1>5
  <2>1. k <= -y /\ k \in Int /\ y \in Int
    BY <1>3, <1>4, <1>5
  <2> QED
    BY <1>4, <1>5, <2>1
<1> QED
  BY <1>6 DEF Greatest

(* The least and the greatest of two numbers. *)
LEMMA PairFacts ==
    ASSUME NEW x \in Int, NEW y \in Int
    PROVE  /\ Least({x, y}) = IF x <= y THEN x ELSE y
           /\ Greatest({x, y}) = IF x >= y THEN x ELSE y
<1>1. {x, y} \in SUBSET Int /\ {x, y} # {}
  OBVIOUS
<1> DEFINE lo == IF x <= y THEN x ELSE y  hi == IF x >= y THEN x ELSE y
<1>2. lo \in Int /\ hi \in Int /\ \A z \in {x, y} : lo <= z /\ z <= hi
  OBVIOUS
<1>3. Least({x, y}) \in {x, y} /\ \A z \in {x, y} : Least({x, y}) <= z
  <2> HIDE DEF lo, hi
  <2> QED
    BY <1>1, <1>2, LeastFacts
<1>4. Greatest({x, y}) \in {x, y} /\ \A z \in {x, y} : z <= Greatest({x, y})
  <2> HIDE DEF lo, hi
  <2> QED
    BY <1>1, <1>2, GreatestFacts
<1> QED
  BY <1>3, <1>4

(* A property of a number that every step keeps holds to the end. *)
LEMMA Upwards ==
    ASSUME NEW n \in Nat, NEW G, 0 \in G,
           \A i \in 1 .. n : i - 1 \in G => i \in G
    PROVE  \A i \in 0 .. n : i \in G
<1> DEFINE Bad == {i \in 0 .. n : i \notin G}
<1>0. Bad \in SUBSET Int /\ (\A x \in Bad : 0 <= x /\ x \in 0 .. n /\ x \notin G)
      /\ \A i \in 0 .. n : i \notin G => i \in Bad
  OBVIOUS
<1> HIDE DEF Bad
<1>1. SUFFICES ASSUME Bad # {} PROVE FALSE
  BY <1>0
<1>2. PICK k \in Bad : \A j \in Bad : k <= j
  BY <1>0, <1>1, LeastExists
<1> QED
  BY <1>0, <1>2

(* What is defined step by step along a sequence. *)
Steps(n, S, z, step) == n \in Nat /\ z \in S /\ step \in [1 .. n -> [S -> S]]

IsWalk(f, n, S, z, step) ==
    f \in [0 .. n -> S] /\ f[0] = z /\ \A i \in 1 .. n : f[i] = step[i][f[i - 1]]

(* It exists. *)
LEMMA WalkExists ==
    ASSUME NEW n, NEW S, NEW z, NEW step, Steps(n, S, z, step)
    PROVE  \E f : IsWalk(f, n, S, z, step)
<1> USE DEF Steps
<1> DEFINE Good(k) == \E f \in [0 .. k -> S] :
                          f[0] = z /\ \A i \in 1 .. k : f[i] = step[i][f[i - 1]]
           G == {k \in 0 .. n : Good(k)}
<1>1. 0 \in G
  <2> DEFINE f == [i \in 0 .. 0 |-> z]
  <2>1. f \in [0 .. 0 -> S] /\ f[0] = z /\ \A i \in 1 .. 0 : f[i] = step[i][f[i - 1]]
    OBVIOUS
  <2> HIDE DEF f
  <2>2. Good(0)
    BY <2>1
  <2> QED
    BY <2>2
<1>2. ASSUME NEW k \in 1 .. n, k - 1 \in G PROVE k \in G
  <2>1. Good(k - 1)
    BY <1>2
  <2>2. PICK f \in [0 .. k - 1 -> S] : f[0] = z /\ \A i \in 1 .. k - 1 : f[i] = step[i][f[i - 1]]
    BY <2>1
  <2> DEFINE g == [i \in 0 .. k |-> IF i = k THEN step[k][f[k - 1]] ELSE f[i]]
  <2>3. f[k - 1] \in S /\ step[k] \in [S -> S]
    BY <2>2
  <2>4. step[k][f[k - 1]] \in S
    BY <2>3
  <2>5. g \in [0 .. k -> S]
    BY <2>2, <2>4
  <2>6. (\A i \in 0 .. k - 1 : g[i] = f[i]) /\ g[k] = step[k][f[k - 1]]
    OBVIOUS
  <2> HIDE DEF g
  <2>7. g[0] = z /\ \A i \in 1 .. k : g[i] = step[i][g[i - 1]]
    BY <2>2, <2>6
  <2>8. Good(k)
    BY <2>5, <2>7
  <2> HIDE DEF Good
  <2> QED
    BY <2>8
<1>3. \A k \in 0 .. n : k \in G
  <2> HIDE DEF G
  <2> QED
    BY <1>1, <1>2, Upwards
<1>4. Good(n)
  BY <1>3
<1>5. PICK f \in [0 .. n -> S] : f[0] = z /\ \A i \in 1 .. n : f[i] = step[i][f[i - 1]]
  BY <1>4
<1> QED
  BY <1>5 DEF IsWalk

----------------------------------------------------------------------------
(* The sums of a file's segments, and what a crash leaves behind.         *)

(* The sums of a sequence of numbers, one after the other. *)
LEMMA SumsFacts ==
    ASSUME NEW n \in Nat, NEW w \in [1 .. n -> Int]
    PROVE  /\ Sums(w) \in [0 .. n -> Int] /\ Sums(w)[0] = 0
           /\ \A i \in 1 .. n : Sums(w)[i] = Sums(w)[i - 1] + w[i]
           /\ Total(w) = Sums(w)[n]
<1> DEFINE step == [i \in 1 .. n |-> [x \in Int |-> x + w[i]]]
           T(f) == f = [i \in 0 .. n |-> IF i = 0 THEN 0 ELSE f[i - 1] + w[i]]
<1>1. w \in Seq(Int) /\ Len(w) = n
  OBVIOUS
<1>2. step \in [1 .. n -> [Int -> Int]] /\ \A i \in 1 .. n, x \in Int : step[i][x] = x + w[i]
  OBVIOUS
<1> HIDE DEF step
<1>3. PICK f : IsWalk(f, n, Int, 0, step)
  <2>1. Steps(n, Int, 0, step)
    BY <1>2 DEF Steps
  <2> QED
    BY <2>1, WalkExists
<1>4. \A i \in 1 .. n : f[i - 1] \in Int /\ f[i] = f[i - 1] + w[i]
  <2> TAKE i \in 1 .. n
  <2>1. f[i - 1] \in Int /\ f[i] = step[i][f[i - 1]]
    BY <1>3 DEF IsWalk
  <2> QED
    BY <1>2, <2>1
<1>5. f \in [0 .. n -> Int] /\ f[0] = 0
  BY <1>3 DEF IsWalk
<1>6. T(f)
  <2> DEFINE g == [i \in 0 .. n |-> IF i = 0 THEN 0 ELSE f[i - 1] + w[i]]
  <2>1. \A i \in 0 .. n : g[i] = f[i]
    BY <1>4, <1>5
  <2>2. g = [i \in 0 .. n |-> g[i]] /\ f = [i \in 0 .. n |-> f[i]]
    BY <1>5
  <2>3. g = f
    <3> HIDE DEF g
    <3> QED
      BY <2>1, <2>2
  <2> QED
    BY <2>3
<1>7. Sums(w) = CHOOSE g : T(g)
  BY <1>1 DEF Sums
<1>8. T(Sums(w))
  <2> HIDE DEF T
  <2> QED
    BY <1>6, <1>7
<1> DEFINE G == {i \in 0 .. n : Sums(w)[i] = f[i]}
<1>9. \A i \in 0 .. n : i \in G
  <2>1. 0 \in G /\ \A i \in 1 .. n : i - 1 \in G => i \in G
    BY <1>4, <1>5, <1>8
  <2> HIDE DEF G
  <2> QED
    BY <2>1, Upwards
<1>10. Sums(w) = f
  BY <1>5, <1>8, <1>9
<1> QED
  BY <1>1, <1>4, <1>5, <1>10 DEF Total

(* The first k of n numbers are equal. *)
BeginsWith(k, c, n, w) ==
    n \in Nat /\ w \in [1 .. n -> Int] /\ k \in 0 .. n /\ c \in Int /\ \A i \in 1 .. k : w[i] = c

(* Their sums. *)
LEMMA SumsOfEqual ==
    ASSUME NEW n, NEW w, NEW k, NEW c, BeginsWith(k, c, n, w)
    PROVE  \A i \in 0 .. k : Sums(w)[i] = c * i
<1> USE DEF BeginsWith
<1> DEFINE G == {i \in 0 .. k : Sums(w)[i] = c * i}
<1>1. \A i \in 1 .. k : i \in 1 .. n
  OBVIOUS
<1>2. 0 \in G
  BY SumsFacts
<1>3. ASSUME NEW i \in 1 .. k, i - 1 \in G PROVE i \in G
  <2>1. Sums(w)[i] = Sums(w)[i - 1] + w[i]
    BY <1>1, SumsFacts
  <2>2. Sums(w)[i - 1] = c * (i - 1) /\ w[i] = c
    BY <1>3
  <2>3. c * (i - 1) + c = c * i
    OBVIOUS
  <2> QED
    BY <2>1, <2>2, <2>3
<1>4. \A i \in 0 .. k : i \in G
  <2> HIDE DEF G
  <2> QED
    BY <1>2, <1>3, k \in Nat, Upwards
<1> QED
  BY <1>4

(* A file of n rows, each in a segment of its own, and the m-th segment left
   behind by a crash, which has no row: it has no tag, or is shorter than its
   lead-in, or than it announces. *)
LeftBehind(seg) ==
    /\ seg.bytes \in Nat /\ seg.announced \in Int /\ seg.rows = 0
    /\ seg.tag \in BOOLEAN
    /\ seg.tag => seg.bytes < LeadIn \/ seg.announced = NoNext \/ seg.announced > seg.bytes

Crashed(file, n, m) ==
    /\ n \in Nat \ {0} /\ m \in {n, n + 1} /\ DOMAIN file = 1 .. m
    /\ \A i \in 1 .. n : file[i] = Row
    /\ m = n + 1 => LeftBehind(file[m])

(* Where its segments begin. *)
LEMMA CrashedPlaces ==
    ASSUME NEW file, NEW n, NEW m, Crashed(file, n, m)
    PROVE  /\ \A i \in 1 .. m : Begin(file, i) = 36 * (i - 1)
           /\ Size(file) = 36 * n + (IF m = n THEN 0 ELSE file[m].bytes)
<1> DEFINE w == Bytes(file)
<1>1. n \in Nat /\ m \in Nat /\ n > 0 /\ m \in {n, n + 1}
  BY DEF Crashed
<1>2. /\ w \in [1 .. m -> Int] /\ (\A i \in 1 .. n : w[i] = 36)
      /\ (m = n + 1 => w[m] = file[m].bytes)
  BY DEF Bytes, Crashed, LeftBehind, Row, LeadIn
<1> HIDE DEF w
<1>3. n \in 0 .. m
  BY <1>1
<1>4. \A i \in 0 .. n : Sums(w)[i] = 36 * i
  <2>1. BeginsWith(n, 36, m, w)
    BY <1>1, <1>2, <1>3 DEF BeginsWith
  <2> QED
    BY <2>1, SumsOfEqual
<1>5. m = n + 1 => Sums(w)[m] = Sums(w)[n] + w[m]
  <2> SUFFICES ASSUME m = n + 1 PROVE Sums(w)[m] = Sums(w)[n] + w[m]
    OBVIOUS
  <2>1. m \in 1 .. m /\ m - 1 = n
    BY <1>1
  <2>2. \A i \in 1 .. m : Sums(w)[i] = Sums(w)[i - 1] + w[i]
    BY <1>1, <1>2, SumsFacts
  <2> QED
    BY <2>1, <2>2
<1>6. \A i \in 1 .. m : Begin(file, i) = 36 * (i - 1)
  <2> TAKE i \in 1 .. m
  <2>1. i - 1 \in 0 .. n
    BY <1>1
  <2> QED
    BY <1>4, <2>1 DEF Begin, w
<1>7. Size(file) = Sums(w)[m]
  BY <1>1, <1>2, SumsFacts DEF Size, w
<1> QED
  BY <1>1, <1>2, <1>4, <1>5, <1>6, <1>7

(* The file is cut before what was left behind, except where nptdms can read an
   unfinished segment. *)
LEMMA CrashedEnd ==
    ASSUME NEW file, NEW n, NEW m, Crashed(file, n, m)
    PROVE  \/ ValidEnd(file) = 36 * n
           \/ /\ m = n + 1 /\ file[m].tag /\ file[m].bytes >= LeadIn
              /\ ValidEnd(file) = 36 * n + file[m].bytes
<1> DEFINE left(i) == Size(file) - Begin(file, i)
           Rest(i) == left(i) < LeadIn
           Junk(i) == ~Rest(i) /\ ~file[i].tag
           Open(i) == /\ ~Rest(i) /\ file[i].tag
                      /\ file[i].announced = NoNext \/ file[i].announced > left(i)
           stops   == {i \in DOMAIN file : Rest(i) \/ Junk(i) \/ Open(i)}
<1>1. n \in Nat /\ m \in Nat /\ n > 0 /\ m \in {n, n + 1} /\ DOMAIN file = 1 .. m
  BY DEF Crashed
<1>2. m = n + 1 => LeftBehind(file[m])
  BY DEF Crashed
<1>3. /\ \A i \in 1 .. m : left(i) = Size(file) - 36 * (i - 1)
      /\ Size(file) = 36 * n + (IF m = n THEN 0 ELSE file[m].bytes)
  BY CrashedPlaces
<1>4. Size(file) \in Int /\ Size(file) >= 36 * n
  BY <1>1, <1>2, <1>3 DEF LeftBehind
<1>5. \A i \in 1 .. n : left(i) \in Int /\ left(i) >= 36
  <2> TAKE i \in 1 .. n
  <2> HIDE DEF left
  <2>1. i \in 1 .. m
    BY <1>1
  <2> QED
    BY <1>1, <1>3, <1>4, <2>1
<1>6. m = n + 1 => left(m) = file[m].bytes
  BY <1>1, <1>2, <1>3 DEF LeftBehind
<1> HIDE DEF left
<1>7. \A i \in 1 .. n : ~Rest(i) /\ ~Junk(i) /\ ~Open(i)
  <2> TAKE i \in 1 .. n
  <2>1. file[i].tag /\ file[i].announced = 36
    BY DEF Crashed, Row, LeadIn
  <2> QED
    BY <1>5, <2>1 DEF LeadIn, NoNext
<1>8. m = n + 1 => Rest(m) \/ Junk(m) \/ Open(m)
  BY <1>2, <1>6 DEF LeftBehind, LeadIn
<1>9. ValidEnd(file) = IF stops = {} \/ Open(Least(stops)) \/ (Rest(Least(stops)) /\ Least(stops) = 1)
                       THEN Size(file) ELSE Begin(file, Least(stops))
  BY DEF ValidEnd, left
<1>10. stops = IF m = n THEN {} ELSE {m}
  <2> HIDE DEF Rest, Junk, Open
  <2> QED
    BY <1>1, <1>7, <1>8
<1>11. CASE m = n
  BY <1>1, <1>3, <1>9, <1>10, <1>11
<1>12. CASE m = n + 1
  <2>1. Least(stops) = m /\ stops # {}
    BY <1>1, <1>10, <1>12 DEF Least
  <2>2. Begin(file, m) = 36 * n
    <3>1. m \in 1 .. m /\ 36 * (m - 1) = 36 * n
      BY <1>1, <1>12
    <3> QED
      BY <3>1, CrashedPlaces
  <2>3. ValidEnd(file) = IF Open(m) THEN Size(file) ELSE 36 * n
    <3> HIDE DEF Rest, Open, stops
    <3> QED
      BY <1>1, <1>9, <1>12, <2>1, <2>2
  <2>4. Size(file) = 36 * n + file[m].bytes
    BY <1>1, <1>3, <1>12
  <2>5. Open(m) => file[m].tag /\ file[m].bytes >= LeadIn
    BY <1>2, <1>6, <1>12 DEF LeftBehind, LeadIn
  <2> HIDE DEF Open
  <2> QED
    BY <1>12, <2>3, <2>4, <2>5
<1> QED
  BY <1>1, <1>11, <1>12

(* All rows are read, and nothing else. *)
LEMMA CrashedRows ==
    ASSUME NEW file, NEW n, NEW m, Crashed(file, n, m)
    PROVE  RowsRead(file) = n
<1> DEFINE seen == {i \in DOMAIN file : Begin(file, i) < ValidEnd(file)}
           w == [i \in DOMAIN file |-> IF i \in seen THEN file[i].rows ELSE 0]
<1>1. n \in Nat /\ m \in Nat /\ n > 0 /\ m \in {n, n + 1} /\ DOMAIN file = 1 .. m
  BY DEF Crashed
<1>2. m = n + 1 => LeftBehind(file[m])
  BY DEF Crashed
<1>3. ValidEnd(file) \in Int /\ ValidEnd(file) >= 36 * n
  BY <1>1, <1>2, CrashedEnd DEF LeftBehind
<1>4. \A i \in 1 .. n : i \in seen
  <2> TAKE i \in 1 .. n
  <2>1. i \in 1 .. m /\ Begin(file, i) = 36 * (i - 1)
    BY <1>1, CrashedPlaces
  <2> QED
    BY <1>1, <1>3, <2>1
<1>5. m = n + 1 /\ m \in seen => file[m].tag /\ file[m].bytes >= LeadIn
  <2> SUFFICES ASSUME m = n + 1, m \in seen PROVE file[m].tag /\ file[m].bytes >= LeadIn
    OBVIOUS
  <2>1. m \in 1 .. m /\ Begin(file, m) = 36 * n
    <3>1. m \in 1 .. m /\ 36 * (m - 1) = 36 * n
      BY <1>1
    <3> QED
      BY <3>1, CrashedPlaces
  <2>2. ValidEnd(file) # 36 * n
    BY <1>1, <2>1
  <2> QED
    BY <2>2, CrashedEnd
<1>6. \A i \in seen : file[i].tag /\ ~(file[i].bytes < LeadIn)
  <2> TAKE i \in seen
  <2>1. i \in 1 .. n \/ (m = n + 1 /\ i = m)
    BY <1>1
  <2>2. CASE i \in 1 .. n
    BY <2>2 DEF Crashed, Row, LeadIn
  <2>3. CASE m = n + 1 /\ i = m
    BY <1>2, <1>5, <2>3 DEF LeftBehind, LeadIn
  <2> QED
    BY <2>1, <2>2, <2>3
<1>7. RowsRead(file) = Total(w)
  <2>1. RowsRead(file) = IF \E i \in seen : ~file[i].tag \/ file[i].bytes < LeadIn
                         THEN Unreadable ELSE Total(w)
    BY DEF RowsRead
  <2> HIDE DEF seen, w
  <2> QED
    BY <1>6, <2>1
<1>8. /\ w \in [1 .. m -> Int] /\ (\A i \in 1 .. n : w[i] = 1)
      /\ (m = n + 1 => w[m] = 0)
  <2> HIDE DEF seen
  <2>1. \A i \in 1 .. n : i \in 1 .. m /\ file[i].rows = 1
    BY <1>1 DEF Crashed, Row
  <2>2. m = n + 1 => m \in 1 .. m /\ file[m].rows = 0
    BY <1>1, <1>2 DEF LeftBehind
  <2> QED
    BY <1>1, <1>4, <2>1, <2>2
<1> HIDE DEF w
<1>9. n \in 0 .. m /\ n \in 0 .. n /\ 1 * n = n
  BY <1>1
<1>10. Sums(w)[n] = n
  <2>1. \A i \in 0 .. n : Sums(w)[i] = 1 * i
    <3>1. BeginsWith(n, 1, m, w)
      BY <1>1, <1>8, <1>9 DEF BeginsWith
    <3> QED
      BY <3>1, SumsOfEqual
  <2> QED
    BY <1>9, <2>1
<1>11. m = n + 1 => Sums(w)[m] = Sums(w)[n] + 0
  <2> SUFFICES ASSUME m = n + 1 PROVE Sums(w)[m] = Sums(w)[n] + 0
    OBVIOUS
  <2>1. m \in 1 .. m /\ m - 1 = n
    BY <1>1
  <2>2. \A i \in 1 .. m : Sums(w)[i] = Sums(w)[i - 1] + w[i]
    BY <1>1, <1>8, SumsFacts
  <2> QED
    BY <1>8, <2>1, <2>2
<1>12. Total(w) = Sums(w)[m]
  BY <1>1, <1>8, SumsFacts
<1> QED
  BY <1>1, <1>7, <1>10, <1>11, <1>12

(* Whatever a crash leaves behind the last whole segment. *)
LEMMA TailsAreLeftBehind ==
    ASSUME NEW tail \in Tails, NEW n \in Nat \ {0}
    PROVE  \E m : Crashed([i \in 1 .. n |-> Row] \o tail, n, m)
<1> DEFINE file == [i \in 1 .. n |-> Row] \o tail
<1>1. CASE tail = <<>>
  <2>1. Crashed(file, n, n)
    BY <1>1 DEF Crashed
  <2> QED
    BY <2>1
<1>2. CASE \E seg : tail = <<seg>> /\ LeftBehind(seg)
  <2>1. PICK seg : tail = <<seg>> /\ LeftBehind(seg)
    BY <1>2
  <2>2. /\ DOMAIN file = 1 .. n + 1 /\ file[n + 1] = seg
        /\ \A i \in 1 .. n : file[i] = Row
    BY <2>1
  <2> HIDE DEF file
  <2>3. Crashed(file, n, n + 1)
    BY <2>1, <2>2 DEF Crashed
  <2> QED
    BY <2>3 DEF file
<1>3. tail = <<>> \/ \E seg : tail = <<seg>> /\ LeftBehind(seg)
  <2>1. ASSUME NEW k \in {LeadIn - 1, LeadIn, 99}
        PROVE  LeftBehind([tag |-> FALSE, announced |-> 0, bytes |-> k, rows |-> 0])
    BY DEF LeftBehind, LeadIn, NoNext
  <2>2. ASSUME NEW a \in {NoNext, LeadIn + 8}, NEW k \in {1, LeadIn - 1, LeadIn, LeadIn + 7}
        PROVE  LeftBehind([Row EXCEPT !.announced = a, !.bytes = k, !.rows = 0])
    BY DEF LeftBehind, LeadIn, NoNext, Row
  <2> DEFINE piece(k) == [tag |-> FALSE, announced |-> 0, bytes |-> k, rows |-> 0]
             cut(a, k) == [Row EXCEPT !.announced = a, !.bytes = k, !.rows = 0]
  <2>3. \/ tail = <<>>
        \/ \E k \in {LeadIn - 1, LeadIn, 99} : tail = <<piece(k)>>
        \/ \E a \in {NoNext, LeadIn + 8}, k \in {1, LeadIn - 1, LeadIn, LeadIn + 7} :
              tail = <<cut(a, k)>>
    BY DEF Tails
  <2> HIDE DEF piece, cut
  <2>4. /\ \A k \in {LeadIn - 1, LeadIn, 99} : LeftBehind(piece(k))
        /\ \A a \in {NoNext, LeadIn + 8}, k \in {1, LeadIn - 1, LeadIn, LeadIn + 7} :
              LeftBehind(cut(a, k))
    BY <2>1, <2>2 DEF piece, cut
  <2> QED
    BY <2>3, <2>4
<1> QED
  BY <1>1, <1>2, <1>3

----------------------------------------------------------------------------
(* Recordings: the rows of attempts, one after the other.                 *)

(* What a recording is like.  Beside its rows r and what they are in truth, t,
   pl[i] is the furthest place that the attempt of row i has reached by then, and
   st[i] the row with which that attempt began (0: there was none yet).  A row e,
   in truth u, is the next one after the first k if the machine waited, started,
   went on, stood still or probed. *)
Waited(k, e, u, p, s) ==
    /\ k = 0 /\ u.attempt = 0 /\ u.place = 0 /\ p = 0 /\ s = 0
    /\ e.prog = NoBlock /\ e.block = NoBlock

Started(k, t, e, u, p, s) ==
    /\ u.attempt = (IF k = 0 THEN 0 ELSE t[k].attempt) + 1
    /\ u.place = 1 /\ p = 1 /\ s = k + 1
    /\ e.prog = Program /\ e.block = Blocks[1]

Went(k, r, pl, e, u, p) ==
    /\ p \in {pl[k] + 1, pl[k] + 2} /\ p <= Len(Blocks) /\ u.place = p
    /\ e.prog = Program /\ e.block = Blocks[p] /\ e.at = r[k].at + 2

Stood(k, pl, e, u, p) ==
    p = pl[k] /\ u.place = 0 /\ e.prog = Program /\ e.block = Blocks[p]

Probed(k, pl, e, u, p) == p = pl[k] /\ u.place = 0 /\ e.prog = Other

GoesOn(k, r, t, pl, st, e, u, p, s) ==
    /\ k > 0 /\ t[k].attempt > 0 /\ u.attempt = t[k].attempt /\ s = st[k]
    /\ Went(k, r, pl, e, u, p) \/ Stood(k, pl, e, u, p) \/ Probed(k, pl, e, u, p)

IsNext(k, r, t, pl, st, e, u, p, s) ==
    /\ e.at \in Nat /\ (k = 0 => e.at = 0) /\ (k > 0 => r[k].at <= e.at)
    /\ \/ Waited(k, e, u, p, s)
       \/ Started(k, t, e, u, p, s)
       \/ GoesOn(k, r, t, pl, st, e, u, p, s)

Track(n, r, t, pl, st) ==
    /\ n \in Nat /\ DOMAIN r = 1 .. n /\ DOMAIN t = 1 .. n
    /\ pl \in [1 .. n -> Int] /\ st \in [1 .. n -> Int]
    /\ \A i \in 1 .. n : IsNext(i - 1, r, t, pl, st, r[i], t[i], pl[i], st[i])

(* The program has blocks. *)
LEMMA BlocksFacts ==
    /\ Len(Blocks) \in Nat /\ Len(Blocks) > 1 /\ DOMAIN Blocks = 1 .. Len(Blocks)
    /\ NoBlock # Program /\ NoBlock # Other /\ \A k \in DOMAIN Blocks : Blocks[k] # NoBlock
<1> DEFINE B == {Blocks[k] : k \in DOMAIN Blocks}
<1>1. Blocks \in Seq(B) /\ Len(Blocks) > 1 /\ NoBlock \notin {Program, Other} \cup B
  BY ProgramAssumption
<1>2. \A k \in DOMAIN Blocks : Blocks[k] \in B
  OBVIOUS
<1> HIDE DEF B
<1>3. Len(Blocks) \in Nat /\ DOMAIN Blocks = 1 .. Len(Blocks)
  BY <1>1
<1> QED
  BY <1>1, <1>2, <1>3

(* What is known of a row. *)
RowIs(r, t, pl, st, i) ==
    /\ r[i].at \in Nat /\ t[i].attempt \in Nat /\ t[i].place \in Nat
    /\ pl[i] \in 0 .. Len(Blocks) /\ t[i].place \in {0, pl[i]}
    /\ t[i].attempt = 0 => i = 1 /\ pl[i] = 0 /\ st[i] = 0
    /\ t[i].attempt > 0 => /\ pl[i] > 0 /\ st[i] \in 1 .. i
                           /\ t[st[i]].attempt = t[i].attempt
                           /\ pl[st[i]] = 1 /\ t[st[i]].place = 1

(* It is known of every row. *)
LEMMA RowFacts ==
    ASSUME NEW n, NEW r, NEW t, NEW pl, NEW st, Track(n, r, t, pl, st)
    PROVE  \A i \in 1 .. n : RowIs(r, t, pl, st, i)
<1> DEFINE G == {i \in 0 .. n : i = 0 \/ RowIs(r, t, pl, st, i)}
<1>1. n \in Nat /\ 0 \in G
  BY DEF Track
<1>2. ASSUME NEW i \in 1 .. n, i - 1 \in G PROVE i \in G
  <2>1. /\ IsNext(i - 1, r, t, pl, st, r[i], t[i], pl[i], st[i])
        /\ pl[i] \in Int /\ st[i] \in Int
    BY DEF Track
  <2>2. r[i].at \in Nat /\ i \in Nat
    BY <2>1 DEF IsNext
  <2>3. CASE Waited(i - 1, r[i], t[i], pl[i], st[i])
    <3>1. RowIs(r, t, pl, st, i)
      BY <2>1, <2>2, <2>3, BlocksFacts DEF Waited, RowIs
    <3> QED
      BY <3>1
  <2>4. CASE Started(i - 1, t, r[i], t[i], pl[i], st[i])
    <3>1. t[i].attempt \in Nat /\ t[i].attempt > 0
      <4>1. CASE i = 1
        BY <2>4, <4>1 DEF Started
      <4>2. CASE i # 1
        <5>1. t[i - 1].attempt \in Nat
          BY <1>2, <4>2 DEF RowIs
        <5> QED
          BY <2>2, <2>4, <4>2, <5>1 DEF Started
      <4> QED
        BY <4>1, <4>2
    <3>2. st[i] = i /\ pl[i] = 1 /\ t[i].place = 1
      BY <2>2, <2>4 DEF Started
    <3>3. RowIs(r, t, pl, st, i)
      BY <2>2, <3>1, <3>2, BlocksFacts DEF RowIs
    <3> QED
      BY <3>3
  <2>5. CASE GoesOn(i - 1, r, t, pl, st, r[i], t[i], pl[i], st[i])
    <3>1. /\ i - 1 > 0 /\ t[i].attempt = t[i - 1].attempt /\ t[i].attempt > 0
          /\ st[i] = st[i - 1]
      BY <2>5 DEF GoesOn
    <3>2. RowIs(r, t, pl, st, i - 1)
      BY <1>2, <3>1
    <3>3. /\ pl[i - 1] \in 0 .. Len(Blocks) /\ pl[i - 1] > 0
          /\ st[i] \in 1 .. i /\ t[i].attempt \in Nat
          /\ t[st[i]].attempt = t[i].attempt /\ pl[st[i]] = 1 /\ t[st[i]].place = 1
      BY <2>2, <3>1, <3>2 DEF RowIs
    <3>4. pl[i] \in 0 .. Len(Blocks) /\ pl[i] > 0 /\ t[i].place \in {0, pl[i]}
      BY <2>1, <2>5, <3>3, BlocksFacts DEF GoesOn, Went, Stood, Probed
    <3>5. RowIs(r, t, pl, st, i)
      BY <2>2, <3>1, <3>3, <3>4 DEF RowIs
    <3> QED
      BY <3>5
  <2> HIDE DEF G
  <2> QED
    BY <2>1, <2>3, <2>4, <2>5 DEF IsNext
<1>3. \A i \in 0 .. n : i \in G
  <2> HIDE DEF G
  <2> QED
    BY <1>1, <1>2, Upwards
<1> QED
  BY <1>1, <1>3

(* The rows of an attempt follow each other, and it does not fall back. *)
InOrder(r, t, pl, st, j, i) ==
    /\ t[j].attempt <= t[i].attempt /\ r[j].at <= r[i].at
    /\ t[j].attempt = t[i].attempt => pl[j] <= pl[i] /\ st[j] = st[i]

(* All rows are in order. *)
LEMMA OrderFacts ==
    ASSUME NEW n, NEW r, NEW t, NEW pl, NEW st, Track(n, r, t, pl, st)
    PROVE  \A j, i \in 1 .. n : j <= i => InOrder(r, t, pl, st, j, i)
<1> SUFFICES ASSUME NEW j \in 1 .. n PROVE \A i \in 1 .. n : j <= i => InOrder(r, t, pl, st, j, i)
  OBVIOUS
<1> DEFINE G == {i \in 0 .. n : j <= i => InOrder(r, t, pl, st, j, i)}
<1>0. n \in Nat /\ \A i \in 1 .. n : RowIs(r, t, pl, st, i) /\ pl[i] \in Int /\ st[i] \in Int
  BY RowFacts DEF Track
<1>1. 0 \in G
  BY <1>0
<1>2. ASSUME NEW i \in 1 .. n, i - 1 \in G PROVE i \in G
  <2>1. CASE i < j
    BY <2>1
  <2>2. CASE i = j
    <3>1. InOrder(r, t, pl, st, j, i)
      BY <1>0, <2>2 DEF InOrder, RowIs
    <3> QED
      BY <3>1
  <2>3. CASE j < i
    <3>1. i - 1 \in 1 .. n /\ InOrder(r, t, pl, st, j, i - 1)
      BY <1>2, <2>3
    <3>2. IsNext(i - 1, r, t, pl, st, r[i], t[i], pl[i], st[i]) /\ i - 1 # 0
      BY <2>3 DEF Track
    <3>3. r[i - 1].at <= r[i].at
      BY <2>3, <3>2 DEF IsNext
    <3>4. /\ t[i - 1].attempt <= t[i].attempt
          /\ t[i - 1].attempt = t[i].attempt => pl[i - 1] <= pl[i] /\ st[i - 1] = st[i]
      <4>1. t[i - 1].attempt \in Nat /\ pl[i - 1] \in Int
        BY <1>0, <3>1 DEF RowIs
      <4>2. CASE Started(i - 1, t, r[i], t[i], pl[i], st[i])
        BY <3>2, <4>1, <4>2 DEF Started
      <4>3. CASE GoesOn(i - 1, r, t, pl, st, r[i], t[i], pl[i], st[i])
        BY <3>2, <4>1, <4>3 DEF GoesOn, Went, Stood, Probed
      <4> QED
        BY <3>2, <4>2, <4>3 DEF IsNext, Waited
    <3>5. InOrder(r, t, pl, st, j, i)
      <4>1. /\ t[i].attempt \in Nat /\ t[i - 1].attempt \in Nat /\ t[j].attempt \in Nat
            /\ r[i].at \in Nat /\ r[i - 1].at \in Nat /\ r[j].at \in Nat
            /\ pl[i] \in Int /\ pl[i - 1] \in Int /\ pl[j] \in Int
        BY <1>0, <3>1 DEF RowIs
      <4> QED
        BY <3>1, <3>3, <3>4, <4>1 DEF InOrder
    <3> QED
      BY <3>5
  <2> HIDE DEF G
  <2> QED
    BY <1>0, <2>1, <2>2, <2>3
<1>3. \A i \in 0 .. n : i \in G
  <2> HIDE DEF G
  <2> QED
    BY <1>0, <1>1, <1>2, Upwards
<1> QED
  BY <1>3

(* The furthest place of an attempt is one it was seen at. *)
Seen(t, pl, i) == \E j \in 1 .. i : t[j].attempt = t[i].attempt /\ t[j].place = pl[i]

(* It was, whatever was missed. *)
LEMMA SeenFacts ==
    ASSUME NEW n, NEW r, NEW t, NEW pl, NEW st, Track(n, r, t, pl, st)
    PROVE  \A i \in 1 .. n : Seen(t, pl, i)
<1> DEFINE G == {i \in 0 .. n : i = 0 \/ Seen(t, pl, i)}
<1>1. n \in Nat /\ 0 \in G
  BY DEF Track
<1>2. ASSUME NEW i \in 1 .. n, i - 1 \in G PROVE i \in G
  <2>1. i \in 1 .. i /\ IsNext(i - 1, r, t, pl, st, r[i], t[i], pl[i], st[i])
    BY DEF Track
  <2>2. CASE t[i].place = pl[i]
    <3>1. Seen(t, pl, i)
      BY <2>1, <2>2 DEF Seen
    <3> QED
      BY <3>1
  <2>3. CASE t[i].place # pl[i]
    <3>1. i - 1 > 0 /\ t[i].attempt = t[i - 1].attempt /\ pl[i] = pl[i - 1]
      BY <2>1, <2>3 DEF IsNext, Waited, Started, GoesOn, Went, Stood, Probed
    <3>2. PICK j \in 1 .. i - 1 : t[j].attempt = t[i - 1].attempt /\ t[j].place = pl[i - 1]
      BY <1>2, <3>1 DEF Seen
    <3>3. Seen(t, pl, i)
      BY <3>1, <3>2 DEF Seen
    <3> QED
      BY <3>3
  <2> QED
    BY <2>2, <2>3
<1>3. \A i \in 0 .. n : i \in G
  <2> HIDE DEF G
  <2> QED
    BY <1>1, <1>2, Upwards
<1> QED
  BY <1>1, <1>3

(* No attempt is skipped. *)
AllBegun(t, i) == \A a \in 1 .. t[i].attempt : \E j \in 1 .. i : t[j].attempt = a

(* All attempts up to that of a row have begun by then. *)
LEMMA AttemptFacts ==
    ASSUME NEW n, NEW r, NEW t, NEW pl, NEW st, Track(n, r, t, pl, st)
    PROVE  \A i \in 1 .. n : AllBegun(t, i)
<1> DEFINE G == {i \in 0 .. n : i = 0 \/ AllBegun(t, i)}
<1>1. n \in Nat /\ 0 \in G
  BY DEF Track
<1>2. ASSUME NEW i \in 1 .. n, i - 1 \in G PROVE i \in G
  <2>1. i \in 1 .. i /\ IsNext(i - 1, r, t, pl, st, r[i], t[i], pl[i], st[i])
    BY DEF Track
  <2>2. t[i].attempt \in Nat
    BY RowFacts DEF RowIs
  <2>3. AllBegun(t, i)
    <3> SUFFICES ASSUME NEW a \in 1 .. t[i].attempt PROVE \E j \in 1 .. i : t[j].attempt = a
      BY DEF AllBegun
    <3>1. CASE a = t[i].attempt
      BY <2>1, <3>1
    <3>2. CASE a # t[i].attempt
      <4>0. t[i].attempt > 1
        BY <2>2, <3>2
      <4>1. i - 1 \in 1 .. n /\ i - 1 > 0
        <5> SUFFICES ASSUME i - 1 = 0 PROVE FALSE
          BY <1>1
        <5>1. t[i].attempt = 0 \/ t[i].attempt = 0 + 1
          BY <2>1 DEF IsNext, Waited, Started, GoesOn
        <5> QED
          BY <4>0, <5>1
      <4>2. t[i - 1].attempt \in Nat
        BY <4>1, RowFacts DEF RowIs
      <4>5. t[i].attempt <= t[i - 1].attempt + 1
        BY <2>1, <4>0, <4>1, <4>2 DEF IsNext, Waited, Started, GoesOn
      <4>3. a \in 1 .. t[i - 1].attempt
        BY <2>2, <3>2, <4>2, <4>5
      <4>4. PICK j \in 1 .. i - 1 : t[j].attempt = a
        BY <1>2, <4>1, <4>3 DEF AllBegun
      <4> QED
        BY <4>4
    <3> QED
      BY <3>1, <3>2
  <2> QED
    BY <2>3
<1>3. \A i \in 0 .. n : i \in G
  <2> HIDE DEF G
  <2> QED
    BY <1>1, <1>2, Upwards
<1> QED
  BY <1>1, <1>3

----------------------------------------------------------------------------
(* The machine, and the rows of a recording whose recorder crashed.       *)

(* Types of the rows. *)
BlockNames == {NoBlock} \cup {Blocks[k] : k \in DOMAIN Blocks}
RowSet == [at : Nat, block : BlockNames, prog : {NoBlock, Program, Other}, busy : BOOLEAN]
TruthSet == [attempt : Nat, place : Nat]
MachineTypes ==
    rows \in Seq(RowSet) /\ truth \in Seq(TruthSet) /\ Len(truth) = Len(rows) /\ filed \in BOOLEAN

(* The machine records like that. *)
Recorded == \E pl, st : Track(Len(rows), rows, truth, pl, st)

(* A recording is over when the first file is read, and has rows then. *)
FiledFirst == (read # {} => filed) /\ (filed => Attempt > 0)

MachineInv == MachineTypes /\ Recorded /\ FiledFirst

(* One row more. *)
LEMMA TrackOn ==
    ASSUME NEW n, NEW r \in Seq(RowSet), NEW t \in Seq(TruthSet), NEW pl, NEW st,
           Track(n, r, t, pl, st), Len(r) = n, Len(t) = n,
           NEW e \in RowSet, NEW u \in TruthSet, NEW p \in Int, NEW s \in Int,
           IsNext(n, r, t, pl, st, e, u, p, s)
    PROVE  \E q, v : Track(n + 1, Append(r, e), Append(t, u), q, v)
<1> DEFINE R == Append(r, e)
           T == Append(t, u)
           q == [i \in 1 .. n + 1 |-> IF i <= n THEN pl[i] ELSE p]
           v == [i \in 1 .. n + 1 |-> IF i <= n THEN st[i] ELSE s]
<1>1. n \in Nat /\ pl \in [1 .. n -> Int] /\ st \in [1 .. n -> Int]
  BY DEF Track
<1>2. /\ DOMAIN R = 1 .. n + 1 /\ (\A i \in 1 .. n : R[i] = r[i]) /\ R[n + 1] = e
      /\ DOMAIN T = 1 .. n + 1 /\ (\A i \in 1 .. n : T[i] = t[i]) /\ T[n + 1] = u
  <2> HIDE DEF q, v
  <2> QED
    BY <1>1
<1>3. /\ q \in [1 .. n + 1 -> Int] /\ (\A i \in 1 .. n : q[i] = pl[i]) /\ q[n + 1] = p
      /\ v \in [1 .. n + 1 -> Int] /\ (\A i \in 1 .. n : v[i] = st[i]) /\ v[n + 1] = s
  <2> HIDE DEF R, T
  <2> QED
    BY <1>1
<1> HIDE DEF R, T, q, v
<1>4. ASSUME NEW k \in 0 .. n, NEW a, NEW b, NEW c, NEW d,
             IsNext(k, r, t, pl, st, a, b, c, d)
      PROVE  IsNext(k, R, T, q, v, a, b, c, d)
  <2>1. k > 0 => R[k] = r[k] /\ T[k] = t[k] /\ q[k] = pl[k] /\ v[k] = st[k]
    <3>1. k > 0 => k \in 1 .. n
      BY <1>1
    <3>2. k \in 1 .. n => R[k] = r[k] /\ T[k] = t[k]
      BY <1>2
    <3>3. k \in 1 .. n => q[k] = pl[k] /\ v[k] = st[k]
      BY <1>3
    <3> QED
      BY <3>1, <3>2, <3>3
  <2>3. Started(k, t, a, b, c, d) => Started(k, T, a, b, c, d)
    BY <1>1, <2>1 DEF Started
  <2>4. GoesOn(k, r, t, pl, st, a, b, c, d) => GoesOn(k, R, T, q, v, a, b, c, d)
    BY <2>1 DEF GoesOn, Went, Stood, Probed
  <2> QED
    BY <1>4, <2>1, <2>3, <2>4 DEF IsNext
<1>5. ASSUME NEW i \in 1 .. n + 1
      PROVE  IsNext(i - 1, R, T, q, v, R[i], T[i], q[i], v[i])
  <2>1. CASE i <= n
    <3>1. i \in 1 .. n /\ i - 1 \in 0 .. n
      BY <1>1, <2>1
    <3>2. IsNext(i - 1, r, t, pl, st, r[i], t[i], pl[i], st[i])
      BY <3>1 DEF Track
    <3>3. IsNext(i - 1, R, T, q, v, r[i], t[i], pl[i], st[i])
      BY <1>4, <3>1, <3>2
    <3>4. R[i] = r[i] /\ T[i] = t[i] /\ q[i] = pl[i] /\ v[i] = st[i]
      BY <1>2, <1>3, <3>1
    <3> QED
      BY <3>3, <3>4
  <2>2. CASE i = n + 1
    <3>1. i - 1 = n /\ n \in 0 .. n
      BY <1>1, <2>2
    <3>2. IsNext(n, R, T, q, v, e, u, p, s)
      BY <1>4, <3>1
    <3> QED
      BY <1>2, <1>3, <2>2, <3>1, <3>2
  <2> QED
    BY <1>1, <2>1, <2>2
<1>6. Track(n + 1, R, T, q, v)
  BY <1>1, <1>2, <1>3, <1>5 DEF Track
<1> QED
  BY <1>6 DEF R, T

(* Where the machine is. *)
LEMMA NowFacts ==
    ASSUME MachineTypes, NEW pl, NEW st, Track(Len(rows), rows, truth, pl, st), Len(rows) > 0
    PROVE  /\ Attempt = truth[Len(rows)].attempt /\ Clock = rows[Len(rows)].at
           /\ Attempt > 0 => Place = pl[Len(rows)]
<1> DEFINE n == Len(rows)
           mine == {i \in DOMAIN truth : truth[i].attempt = Attempt}
           places == {truth[i].place : i \in mine}
<1>1. n \in Nat /\ n \in 1 .. n /\ rows # <<>> /\ truth # <<>> /\ DOMAIN truth = 1 .. n
  BY DEF MachineTypes
<1>2. Attempt = truth[n].attempt /\ Clock = rows[n].at
  BY <1>1 DEF Attempt, Clock, MachineTypes
<1>3. Place = Greatest(places)
  BY <1>1 DEF Place
<1>4. ASSUME Attempt > 0 PROVE Greatest(places) = pl[n]
  <2>1. PICK j \in 1 .. n : truth[j].attempt = truth[n].attempt /\ truth[j].place = pl[n]
    BY <1>1, SeenFacts DEF Seen
  <2>2. pl[n] \in places
    BY <1>1, <1>2, <2>1
  <2>3. \A x \in places : x \in Int /\ x <= pl[n]
    <3> SUFFICES ASSUME NEW i \in mine PROVE truth[i].place \in Int /\ truth[i].place <= pl[n]
      OBVIOUS
    <3>1. i \in 1 .. n /\ truth[i].attempt = truth[n].attempt /\ i <= n
      BY <1>1, <1>2
    <3>2. pl[i] <= pl[n]
      BY <1>1, <3>1, OrderFacts DEF InOrder
    <3>3. RowIs(rows, truth, pl, st, i) /\ RowIs(rows, truth, pl, st, n)
      BY <1>1, <3>1, RowFacts
    <3> HIDE DEF mine, places
    <3> QED
      BY <3>2, <3>3, BlocksFacts DEF RowIs
  <2>4. pl[n] \in Int
    BY <1>1 DEF Track
  <2> HIDE DEF places
  <2>5. places \in SUBSET Int /\ places # {}
    BY <2>2, <2>3
  <2>6. Greatest(places) \in places /\ \A x \in places : x <= Greatest(places)
    BY <2>3, <2>4, <2>5, GreatestFacts
  <2> QED
    BY <2>2, <2>3, <2>4, <2>6
<1> HIDE DEF places, n
<1> QED
  BY <1>2, <1>3, <1>4 DEF n

(* What the machine may record after the rows there are, at place p of the
   attempt that began with row s. *)
Fits(gap, attempt, place, row, pl, st, p, s) ==
    /\ gap \in Nat /\ attempt \in Nat /\ place \in Nat /\ p \in Int /\ s \in Int
    /\ row.block \in BlockNames /\ row.prog \in {NoBlock, Program, Other} /\ row.busy \in BOOLEAN
    /\ \A e, u : /\ e.at = Clock + (IF rows = <<>> THEN 0 ELSE gap)
                 /\ e.block = row.block /\ e.prog = row.prog
                 /\ u.attempt = attempt /\ u.place = place
                 /\ e.at \in Nat /\ (Len(rows) = 0 => e.at = 0)
                 /\ (Len(rows) > 0 => rows[Len(rows)].at <= e.at)
                 => IsNext(Len(rows), rows, truth, pl, st, e, u, p, s)

(* The machine records one row more. *)
LEMMA RecordStep ==
    ASSUME NEW gap, NEW attempt, NEW place, NEW row, NEW pl, NEW st, NEW p, NEW s,
           MachineTypes, FiledFirst, Track(Len(rows), rows, truth, pl, st),
           Record(gap, attempt, place, row), Fits(gap, attempt, place, row, pl, st, p, s)
    PROVE  MachineInv'
<1> USE DEF Fits
<1> DEFINE n == Len(rows)
           e == [at |-> Clock + (IF rows = <<>> THEN 0 ELSE gap), block |-> row.block,
                 prog |-> row.prog, busy |-> row.busy]
           u == [attempt |-> attempt, place |-> place]
<1>1. rows' = Append(rows, e) /\ truth' = Append(truth, u) /\ filed' = filed /\ ~filed /\ read' = read
  BY DEF Record, stored
<1>2. /\ n \in Nat /\ Len(truth) = n /\ (rows = <<>> <=> n = 0)
      /\ rows \in Seq(RowSet) /\ truth \in Seq(TruthSet)
  BY DEF MachineTypes
<1>3. /\ e.at \in Nat /\ (n = 0 => e.at = 0) /\ (n > 0 => rows[n].at <= e.at)
  <2>1. CASE n = 0
    BY <1>2, <2>1 DEF Clock
  <2>2. CASE n > 0
    <3>1. Clock = rows[n].at /\ n \in 1 .. n
      BY <1>2, <2>2 DEF Clock
    <3>2. rows[n].at \in Nat
      BY <3>1, RowFacts DEF RowIs
    <3> QED
      BY <1>2, <2>2, <3>1, <3>2
  <2> QED
    BY <1>2, <2>1, <2>2
<1>4. e \in RowSet /\ u \in TruthSet
  <2> HIDE DEF n
  <2>1. e.at \in Nat
    BY <1>3
  <2> QED
    BY <2>1 DEF RowSet, TruthSet
<1>5. IsNext(n, rows, truth, pl, st, e, u, p, s)
  BY <1>3
<1> HIDE DEF e, u
<1>6. \E q, v : Track(n + 1, Append(rows, e), Append(truth, u), q, v)
  BY <1>2, <1>4, <1>5, TrackOn
<1> HIDE DEF n
<1>7. Len(rows') = n + 1 /\ MachineTypes'
  BY <1>1, <1>2, <1>4 DEF MachineTypes, n
<1>8. Recorded'
  BY <1>1, <1>6, <1>7 DEF Recorded
<1>9. FiledFirst'
  BY <1>1 DEF FiledFirst
<1> QED
  BY <1>7, <1>8, <1>9 DEF MachineInv

(* Every step of the machine. *)
LEMMA MachineStep == ASSUME MachineInv, Machine PROVE MachineInv'
<1>1. PICK pl, st : Track(Len(rows), rows, truth, pl, st)
  BY DEF MachineInv, Recorded
<1> DEFINE n == Len(rows)
<1>2. /\ n \in Nat /\ MachineTypes /\ FiledFirst /\ pl \in [1 .. n -> Int] /\ st \in [1 .. n -> Int]
      /\ (n = 0 => Attempt = 0) /\ (rows = <<>> <=> n = 0)
  BY <1>1 DEF MachineInv, MachineTypes, Track, Attempt
<1>3. n > 0 => /\ Attempt = truth[n].attempt /\ Clock = rows[n].at
               /\ Attempt > 0 => Place = pl[n]
  BY <1>1, <1>2, NowFacts
<1>4. n > 0 => n \in 1 .. n /\ RowIs(rows, truth, pl, st, n)
  BY <1>1, <1>2, RowFacts
<1>5. /\ \A k \in DOMAIN Blocks : Blocks[k] \in BlockNames
      /\ NoBlock \in BlockNames /\ Pause \in Nat /\ 2 \in Nat /\ 0 \in Nat /\ 1 \in Nat
  BY JobWindowAssumption DEF BlockNames
<1>6. Attempt \in Nat /\ (Attempt > 0 => n > 0 /\ n \in 1 .. n /\ Place \in DOMAIN Blocks /\ st[n] \in Int)
  <2> HIDE DEF n
  <2>1. CASE n > 0
    BY <1>2, <1>3, <1>4, <2>1, BlocksFacts DEF RowIs
  <2> QED
    BY <1>2, <2>1
<1>7. CASE RunsOn \/ Misses
  <2>1. PICK g \in {1, 2} : /\ Attempt > 0 /\ Place + g <= Len(Blocks)
                            /\ Record(2, Attempt, Place + g, AtPlace(Place + g))
    <3>1. Attempt > 0 /\ Place \in Nat
      BY <1>6, <1>7, BlocksFacts DEF RunsOn, Misses
    <3>2. CASE RunsOn
      BY <3>1, <3>2, BlocksFacts DEF RunsOn
    <3>3. CASE Misses
      BY <3>1, <3>3, BlocksFacts DEF Misses
    <3> QED
      BY <1>7, <3>2, <3>3
  <2>2. Place \in Nat /\ Place + g \in DOMAIN Blocks /\ Place + g \in Nat /\ Place = pl[n]
    BY <1>3, <1>6, <2>1, BlocksFacts
  <2> DEFINE row == AtPlace(Place + g)
  <2>3. row.block = Blocks[Place + g] /\ row.prog = Program /\ row.busy \in BOOLEAN
    BY DEF AtPlace
  <2> HIDE DEF row
  <2>4. ASSUME NEW e, NEW u, e.at = Clock + (IF rows = <<>> THEN 0 ELSE 2),
               e.block = row.block, e.prog = row.prog, u.attempt = Attempt, u.place = Place + g,
               e.at \in Nat, n = 0 => e.at = 0, n > 0 => rows[n].at <= e.at
        PROVE  IsNext(n, rows, truth, pl, st, e, u, Place + g, st[n])
    <3>1. Went(n, rows, pl, e, u, Place + g)
      BY <1>2, <1>3, <1>6, <2>1, <2>2, <2>3, <2>4 DEF Went
    <3> QED
      BY <1>3, <1>6, <2>1, <2>4, <3>1 DEF IsNext, GoesOn
  <2>5. Fits(2, Attempt, Place + g, row, pl, st, Place + g, st[n])
    BY <1>5, <1>6, <2>1, <2>2, <2>3, <2>4 DEF Fits
  <2> QED
    BY <1>1, <1>2, <2>1, <2>5, RecordStep DEF row
<1>8. CASE Starts
  <2> DEFINE row == AtPlace(1)
  <2>1. row.block = Blocks[1] /\ row.prog = Program /\ row.busy \in BOOLEAN /\ 1 \in DOMAIN Blocks
    BY BlocksFacts DEF AtPlace
  <2>2. Record(Pause, Attempt + 1, 1, row)
    BY <1>8 DEF Starts
  <2> HIDE DEF row
  <2>3. ASSUME NEW e, NEW u, e.at = Clock + (IF rows = <<>> THEN 0 ELSE Pause),
               e.block = row.block, e.prog = row.prog, u.attempt = Attempt + 1, u.place = 1,
               e.at \in Nat, n = 0 => e.at = 0, n > 0 => rows[n].at <= e.at
        PROVE  IsNext(n, rows, truth, pl, st, e, u, 1, n + 1)
    <3>1. Attempt = IF n = 0 THEN 0 ELSE truth[n].attempt
      BY <1>2, <1>3
    <3>2. Started(n, truth, e, u, 1, n + 1)
      BY <2>1, <2>3, <3>1 DEF Started
    <3> QED
      BY <2>3, <3>2 DEF IsNext
  <2>4. Fits(Pause, Attempt + 1, 1, row, pl, st, 1, n + 1)
    BY <1>2, <1>5, <1>6, <2>1, <2>3 DEF Fits
  <2> QED
    BY <1>1, <1>2, <2>2, <2>4, RecordStep DEF row
<1>9. CASE Stands
  <2> DEFINE row == [AtPlace(Place) EXCEPT !.busy = FALSE]
  <2>1. row.block = Blocks[Place] /\ row.prog = Program /\ row.busy \in BOOLEAN
    BY DEF AtPlace
  <2>2. Record(Pause, Attempt, 0, row) /\ Attempt > 0
    BY <1>9 DEF Stands
  <2> HIDE DEF row
  <2>3. ASSUME NEW e, NEW u, e.at = Clock + (IF rows = <<>> THEN 0 ELSE Pause),
               e.block = row.block, e.prog = row.prog, u.attempt = Attempt, u.place = 0,
               e.at \in Nat, n = 0 => e.at = 0, n > 0 => rows[n].at <= e.at
        PROVE  IsNext(n, rows, truth, pl, st, e, u, Place, st[n])
    <3>1. Stood(n, pl, e, u, Place)
      BY <1>3, <1>6, <2>1, <2>2, <2>3 DEF Stood
    <3> QED
      BY <1>3, <1>6, <2>2, <2>3, <3>1 DEF IsNext, GoesOn
  <2>4. Fits(Pause, Attempt, 0, row, pl, st, Place, st[n])
    BY <1>5, <1>6, <2>1, <2>2, <2>3, BlocksFacts DEF Fits
  <2> QED
    BY <1>1, <1>2, <2>2, <2>4, RecordStep DEF row
<1>10. CASE Waits
  <2> DEFINE row == [block |-> NoBlock, prog |-> NoBlock, busy |-> FALSE]
  <2>1. row.block = NoBlock /\ row.prog = NoBlock /\ row.busy \in BOOLEAN
    OBVIOUS
  <2>2. Record(Pause, 0, 0, row) /\ n = 0
    BY <1>2, <1>10 DEF Waits
  <2> HIDE DEF row
  <2>3. ASSUME NEW e, NEW u, e.at = Clock + (IF rows = <<>> THEN 0 ELSE Pause),
               e.block = row.block, e.prog = row.prog, u.attempt = 0, u.place = 0,
               e.at \in Nat, n = 0 => e.at = 0, n > 0 => rows[n].at <= e.at
        PROVE  IsNext(n, rows, truth, pl, st, e, u, 0, 0)
    <3>1. Waited(n, e, u, 0, 0)
      BY <2>1, <2>2, <2>3 DEF Waited
    <3> QED
      BY <2>3, <3>1 DEF IsNext
  <2>4. Fits(Pause, 0, 0, row, pl, st, 0, 0)
    BY <1>5, <2>1, <2>3 DEF Fits
  <2> QED
    BY <1>1, <1>2, <2>2, <2>4, RecordStep DEF row
<1>11. CASE Probes
  <2> DEFINE row == [block |-> Blocks[2], prog |-> Other, busy |-> TRUE]
  <2>1. row.block = Blocks[2] /\ row.prog = Other /\ row.busy \in BOOLEAN /\ 2 \in DOMAIN Blocks
    BY BlocksFacts
  <2>2. Record(2, Attempt, 0, row) /\ Attempt > 0
    BY <1>11 DEF Probes
  <2> HIDE DEF row
  <2>3. ASSUME NEW e, NEW u, e.at = Clock + (IF rows = <<>> THEN 0 ELSE 2),
               e.block = row.block, e.prog = row.prog, u.attempt = Attempt, u.place = 0,
               e.at \in Nat, n = 0 => e.at = 0, n > 0 => rows[n].at <= e.at
        PROVE  IsNext(n, rows, truth, pl, st, e, u, Place, st[n])
    <3>1. Probed(n, pl, e, u, Place)
      BY <1>3, <1>6, <2>1, <2>2, <2>3 DEF Probed
    <3> QED
      BY <1>3, <1>6, <2>2, <2>3, <3>1 DEF IsNext, GoesOn
  <2>4. Fits(2, Attempt, 0, row, pl, st, Place, st[n])
    BY <1>5, <1>6, <2>1, <2>2, <2>3, BlocksFacts DEF Fits
  <2> QED
    BY <1>1, <1>2, <2>2, <2>4, RecordStep DEF row
<1>12. CASE EndOfRecording
  <2>1. rows' = rows /\ truth' = truth /\ filed' = TRUE /\ Attempt > 0
    BY <1>12 DEF EndOfRecording
  <2>2. Attempt' = Attempt
    BY <2>1 DEF Attempt
  <2> QED
    BY <2>1, <2>2 DEF MachineInv, MachineTypes, Recorded, FiledFirst
<1> QED
  BY <1>7, <1>8, <1>9, <1>10, <1>11, <1>12 DEF Machine

(* The steps of the others leave the machine as it is, and read files only of a
   recording that is over. *)
LEMMA OthersLeaveTheMachine ==
    ASSUME MachineInv, Worker \/ Load \/ Store \/ GiveUp \/ LoseParquet \/ UNCHANGED vars
    PROVE  MachineInv' /\ UNCHANGED machine
<1>1. UNCHANGED machine
  BY DEF Worker, Load, Store, GiveUp, LoseParquet, vars, ReadTdms, ReadNc, ReadLog, ReadXml, Read,
         LoadAll, CommitAll
<1>2. read' = read \/ filed
  BY DEF Worker, Load, Store, GiveUp, LoseParquet, vars, stored, ReadTdms, ReadNc, ReadLog, ReadXml,
         Read, LoadAll, CommitAll
<1>3. rows' = rows /\ truth' = truth /\ filed' = filed
  BY <1>1 DEF machine
<1>4. Attempt' = Attempt
  BY <1>3 DEF Attempt
<1> QED
  BY <1>1, <1>2, <1>3, <1>4 DEF MachineInv, MachineTypes, Recorded, FiledFirst

(* There are no rows yet. *)
LEMMA MachineInitially == Init => MachineInv
<1> SUFFICES ASSUME Init PROVE MachineInv
  OBVIOUS
<1> DEFINE none == [i \in 1 .. 0 |-> 0]
<1>1. rows = <<>> /\ truth = <<>> /\ filed = FALSE /\ read = {}
  BY DEF Init
<1>2. none \in [1 .. 0 -> Int] /\ Len(rows) = 0 /\ DOMAIN rows = 1 .. 0 /\ DOMAIN truth = 1 .. 0
  BY <1>1
<1> HIDE DEF none
<1>3. Track(Len(rows), rows, truth, none, none)
  BY <1>2 DEF Track
<1>4. Recorded
  BY <1>3 DEF Recorded
<1>5. MachineTypes
  <2>1. \A S : <<>> \in Seq(S)
    OBVIOUS
  <2>2. rows \in Seq(RowSet) /\ truth \in Seq(TruthSet) /\ Len(truth) = Len(rows)
    BY <1>1, <2>1
  <2> QED
    BY <1>1, <2>2 DEF MachineTypes
<1> QED
  BY <1>1, <1>4, <1>5 DEF MachineInv, FiledFirst

(* What the machine records is the recording of attempts, and files are read
   only when it is over. *)
THEOREM MachineInvariant == Spec => []MachineInv
<1>1. MachineInv /\ [Next]_vars => MachineInv'
  BY MachineStep, OthersLeaveTheMachine DEF Next
<1> QED
  BY <1>1, MachineInitially, PTL DEF Spec

(* Whatever a crash of the recorder leaves behind the last whole segment of a
   recording, all its rows are read and nothing else. *)
THEOREM CrashesLoseOnlyTheTail == Spec => []CrashLosesOnlyTheTail
<1>1. MachineInv => CrashLosesOnlyTheTail
  <2> SUFFICES ASSUME MachineInv, filed, NEW tail \in Tails
               PROVE  RowsRead([i \in DOMAIN rows |-> Row] \o tail) = Len(rows)
    BY DEF CrashLosesOnlyTheTail
  <2>1. /\ Len(rows) \in Nat /\ DOMAIN rows = 1 .. Len(rows) /\ Len(truth) = Len(rows)
        /\ truth \in Seq(TruthSet) /\ Attempt > 0
    BY DEF MachineInv, MachineTypes, FiledFirst
  <2>2. Len(rows) # 0
    BY <2>1 DEF Attempt
  <2>3. PICK m : Crashed([i \in 1 .. Len(rows) |-> Row] \o tail, Len(rows), m)
    BY <2>1, <2>2, TailsAreLeftBehind
  <2> QED
    BY <2>1, <2>3, CrashedRows
<1> QED
  BY <1>1, MachineInvariant, PTL

----------------------------------------------------------------------------
(* The places of the rows: map_block_positions.                           *)

(* A program that can be told from its recording: it moves the machine, it has
   one first block, and a block that recurs does so three blocks later at the
   earliest. *)
Recognisable ==
    /\ Motions(WithNc) # {}
    /\ \A j, k \in DOMAIN Blocks : j < k /\ Blocks[j] = Blocks[k] => j > 1 /\ k > j + 2

(* f is a function on D. *)
IsFunction(f, D) == f = [i \in D |-> f[i]]

(* Two functions with equal values are equal. *)
LEMMA EqualFunctions ==
    ASSUME NEW D, NEW f, NEW g, IsFunction(f, D), IsFunction(g, D), \A i \in D : f[i] = g[i]
    PROVE  f = g
<1>1. f = [i \in D |-> f[i]] /\ g = [i \in D |-> g[i]]
  BY DEF IsFunction
<1> QED
  BY <1>1

(* A step from row to row in map_block_positions. *)
PlaceStep(places, i, before) ==
    LET cursor == before.cursor
        place  == NextPlace(places[i], cursor)
    IN  IF places[i] = {} THEN [pos |-> 0, cursor |-> cursor]
        ELSE [pos |-> place, cursor |-> place]

(* The walk is the one that takes these steps. *)
LEMMA WalkFacts ==
    ASSUME NEW n \in Nat, NEW places, Len(places) = n, NEW f, IsFunction(f, 0 .. n),
           f[0] = [pos |-> 0, cursor |-> 1],
           \A i \in 1 .. n : f[i] = PlaceStep(places, i, f[i - 1])
    PROVE  Walk(places) = f
<1> DEFINE g == [i \in 0 .. n |-> IF i = 0 THEN [pos |-> 0, cursor |-> 1]
                                  ELSE PlaceStep(places, i, f[i - 1])]
           T(h) == h = [i \in 0 .. n |-> IF i = 0 THEN [pos |-> 0, cursor |-> 1]
                                         ELSE PlaceStep(places, i, h[i - 1])]
<1>1. T(f)
  <2>1. ASSUME NEW i \in 0 .. n PROVE g[i] = f[i]
    <3>1. CASE i = 0
      BY <3>1
    <3>2. CASE i # 0
      <4>1. i \in 1 .. n /\ g[i] = PlaceStep(places, i, f[i - 1])
        BY <3>2
      <4> QED
        BY <4>1
    <3> QED
      BY <3>1, <3>2
  <2>2. IsFunction(g, 0 .. n)
    BY DEF IsFunction
  <2> HIDE DEF g
  <2>3. g = f
    BY <2>1, <2>2, EqualFunctions
  <2> QED
    BY <2>3 DEF g
<1>2. Walk(places) = CHOOSE h : T(h)
  BY DEF Walk, PlaceStep
<1>3. T(Walk(places))
  <2> HIDE DEF T
  <2> QED
    BY <1>1, <1>2
<1> DEFINE w == Walk(places)
           G == {i \in 0 .. n : w[i] = f[i]}
<1> HIDE DEF w
<1>4. w[0] = f[0] /\ (\A i \in 1 .. n : w[i] = PlaceStep(places, i, w[i - 1]))
      /\ IsFunction(w, 0 .. n)
  <2>1. T(w)
    BY <1>3 DEF w
  <2>2. w[0] = [pos |-> 0, cursor |-> 1]
    BY <2>1
  <2>3. \A i \in 1 .. n : w[i] = PlaceStep(places, i, w[i - 1])
    BY <2>1
  <2>4. IsFunction(w, 0 .. n)
    BY <2>1 DEF IsFunction
  <2> QED
    BY <2>2, <2>3, <2>4
<1> HIDE DEF T, g
<1>5. ASSUME NEW i \in 1 .. n, i - 1 \in G PROVE i \in G
  <2>1. w[i] = PlaceStep(places, i, w[i - 1]) /\ f[i] = PlaceStep(places, i, f[i - 1])
    BY <1>4
  <2>2. w[i - 1] = f[i - 1]
    BY <1>5
  <2> QED
    BY <2>1, <2>2
<1>6. \A i \in 0 .. n : i \in G
  <2>1. 0 \in G
    BY <1>4
  <2> HIDE DEF G
  <2> QED
    BY <1>5, <2>1, Upwards
<1>7. \A i \in 0 .. n : w[i] = f[i]
  BY <1>6
<1> QED
  BY <1>4, <1>7, EqualFunctions DEF w

(* The rows in which the program shows its place. *)
Shows(r, t, i) == t[i].attempt > 0 /\ r[i].prog = Program

PosOf(n, r, t, pl) == [i \in 1 .. n |-> IF Shows(r, t, i) THEN pl[i] ELSE 0]

(* The place of a block is found if the program has come near it. *)
LEMMA NextPlaceFacts ==
    ASSUME Recognisable, NEW p \in DOMAIN Blocks, NEW c \in Int,
           p = 1 \/ (c <= p /\ p <= c + 2)
    PROVE  NextPlace({k \in DOMAIN Blocks : Blocks[k] = Blocks[p]}, c) = p
<1> DEFINE places == {k \in DOMAIN Blocks : Blocks[k] = Blocks[p]}
           ahead == {k \in places : k >= c}
<1>0. DOMAIN Blocks = 1 .. Len(Blocks) /\ Len(Blocks) \in Nat
  BY BlocksFacts
<1>1. \A k \in places : k \in Int /\ 1 <= k /\ (k < p => k > 1 /\ p > k + 2) /\ (p < k => p > 1)
  BY <1>0 DEF Recognisable
<1>2. p \in places /\ p \in Int
  BY <1>0
<1> HIDE DEF places
<1>3. places \in SUBSET Int /\ places # {} /\ ahead \in SUBSET Int
      /\ (\A k \in places : 1 <= k) /\ \A k \in ahead : 1 <= k
  BY <1>1, <1>2
<1>4. Least(places) \in places /\ \A k \in places : Least(places) <= k
  BY <1>3, LeastFacts
<1>5. ASSUME ahead # {} PROVE Least(ahead) \in ahead /\ \A k \in ahead : Least(ahead) <= k
  <2> HIDE DEF ahead
  <2> QED
    BY <1>3, <1>5, 1 \in Int, LeastFacts
<1>6. NextPlace(places, c) = IF ahead # {} THEN Least(ahead) ELSE Least(places)
  BY DEF NextPlace
<1> SUFFICES NextPlace(places, c) = p
  BY DEF places
<1>7. CASE p = 1
  <2>1. \A k \in places : k = 1
    BY <1>1, <1>2, <1>7
  <2> QED
    BY <1>4, <1>5, <1>6, <1>7, <2>1
<1>8. CASE c <= p /\ p <= c + 2
  <2>1. p \in ahead
    BY <1>2, <1>8
  <2>2. \A k \in ahead : p <= k
    <3> TAKE k \in ahead
    <3>1. k \in Int /\ k >= c /\ (k < p => p > k + 2)
      BY <1>1
    <3> QED
      BY <1>2, <1>8, <3>1
  <2>3. Least(ahead) \in ahead /\ Least(ahead) <= p
    BY <1>5, <2>1
  <2>4. Least(ahead) \in Int /\ p <= Least(ahead)
    BY <1>3, <2>2, <2>3
  <2> QED
    BY <1>2, <1>6, <2>1, <2>3, <2>4
<1> QED
  BY <1>7, <1>8

(* The rows that are not compared are those of the probing macro. *)
LEMMA ComparedFacts ==
    ASSUME NEW n, NEW r, NEW t, NEW pl, NEW st, Track(n, r, t, pl, st), n > 0
    PROVE  \A i \in 1 .. n : i \in Compared(r, WithNc) <=> r[i].prog # Other
<1> DEFINE own == {i \in DOMAIN r : ~Foreign(r, WithNc, i)}
<1>1. n \in Nat /\ DOMAIN r = 1 .. n /\ WithNc.name = Program
  BY DEF Track, WithNc
<1>2. \A i \in 1 .. n : r[i].prog \in {NoBlock, Program, Other}
  BY DEF Track, IsNext, Waited, Started, GoesOn, Went, Stood, Probed
<1>3. \A i \in 1 .. n : Foreign(r, WithNc, i) <=> r[i].prog = Other
  BY <1>1, <1>2, BlocksFacts DEF Foreign, Program, Other
<1>4. r[1].prog \in {NoBlock, Program} /\ 1 \in 1 .. n
  <2>1. 1 \in 1 .. n /\ IsNext(1 - 1, r, t, pl, st, r[1], t[1], pl[1], st[1])
    BY <1>1 DEF Track
  <2> QED
    BY <2>1 DEF IsNext, Waited, Started, GoesOn
<1>5. 1 \in own
  BY <1>1, <1>3, <1>4, BlocksFacts DEF Program, Other
<1>6. Compared(r, WithNc) = own
  <2>1. Compared(r, WithNc) = IF own = {} THEN DOMAIN r ELSE own
    BY DEF Compared
  <2> HIDE DEF own
  <2> QED
    BY <1>5, <2>1
<1> QED
  BY <1>1, <1>3, <1>6

(* map_block_positions finds the place of each row that shows it. *)
LEMMA PositionsFacts ==
    ASSUME Recognisable, NEW n, NEW r, NEW t, NEW pl, NEW st, Track(n, r, t, pl, st), n > 0
    PROVE  Positions(r, WithNc) = PosOf(n, r, t, pl)
<1> DEFINE places == BlockPlaces(r, WithNc)
           pos == PosOf(n, r, t, pl)
           f == [i \in 0 .. n |-> [pos    |-> IF i = 0 THEN 0 ELSE pos[i],
                                   cursor |-> IF i = 0 \/ pl[i] = 0 THEN 1 ELSE pl[i]]]
<1>1. /\ n \in Nat /\ DOMAIN r = 1 .. n /\ pl \in [1 .. n -> Int]
      /\ WithNc.blocks = Blocks
  BY DEF Track, WithNc
<1>2. Len(places) = n /\ DOMAIN places = 1 .. n
  BY <1>1 DEF BlockPlaces
<1>3. ASSUME NEW i \in 1 .. n
      PROVE  places[i] = IF r[i].prog = Other THEN {}
                         ELSE {k \in DOMAIN Blocks : Blocks[k] = r[i].block}
  <2>1. places[i] = {k \in DOMAIN Blocks : i \in Compared(r, WithNc) /\ Blocks[k] = r[i].block}
    BY <1>1 DEF BlockPlaces
  <2>2. i \in Compared(r, WithNc) <=> r[i].prog # Other
    BY ComparedFacts
  <2> HIDE DEF places
  <2> QED
    BY <2>1, <2>2
<1> HIDE DEF places
<1>4. /\ f[0] = [pos |-> 0, cursor |-> 1]
      /\ \A i \in 1 .. n : f[i] = [pos    |-> pos[i], cursor |-> IF pl[i] = 0 THEN 1 ELSE pl[i]]
  BY <1>1
<1>5. IsFunction(f, 0 .. n)
  BY DEF IsFunction
<1>6. \A i \in 1 .. n : pos[i] = IF Shows(r, t, i) THEN pl[i] ELSE 0
  BY DEF PosOf
<1> HIDE DEF f, pos
<1>7. ASSUME NEW i \in 1 .. n PROVE f[i] = PlaceStep(places, i, f[i - 1])
  <2> DEFINE c == f[i - 1].cursor
  <2>1. /\ IsNext(i - 1, r, t, pl, st, r[i], t[i], pl[i], st[i])
        /\ RowIs(r, t, pl, st, i) /\ pl[i] \in Int
    BY <1>1, RowFacts DEF Track
  <2>2. i - 1 \in 0 .. n /\ (i - 1 > 0 => i - 1 \in 1 .. n /\ pl[i - 1] \in Int)
    BY <1>1
  <2>3. c = IF i - 1 = 0 \/ pl[i - 1] = 0 THEN 1 ELSE pl[i - 1]
    <3>1. CASE i - 1 = 0
      BY <1>4, <3>1
    <3>2. CASE i - 1 # 0
      <4>1. i - 1 \in 1 .. n
        BY <2>2, <3>2
      <4>2. f[i - 1] = [pos |-> pos[i - 1], cursor |-> IF pl[i - 1] = 0 THEN 1 ELSE pl[i - 1]]
        BY <1>4, <4>1
      <4> QED
        BY <3>2, <4>2
    <3> QED
      BY <3>1, <3>2
  <2>4. PlaceStep(places, i, f[i - 1]) =
            IF places[i] = {} THEN [pos |-> 0, cursor |-> c]
            ELSE [pos |-> NextPlace(places[i], c), cursor |-> NextPlace(places[i], c)]
    BY DEF PlaceStep
  <2>5. f[i] = [pos |-> pos[i], cursor |-> IF pl[i] = 0 THEN 1 ELSE pl[i]]
    BY <1>4
  <2>6. c \in Int
    BY <2>2, <2>3
  <2> HIDE DEF c
  <2>7. CASE Waited(i - 1, r[i], t[i], pl[i], st[i])
    <3>1. places[i] = {}
      <4>1. r[i].prog = NoBlock /\ r[i].block = NoBlock
        BY <2>7 DEF Waited
      <4>2. places[i] = {k \in DOMAIN Blocks : Blocks[k] = NoBlock}
        BY <1>3, <4>1, BlocksFacts
      <4>3. \A k \in DOMAIN Blocks : Blocks[k] # NoBlock
        BY BlocksFacts
      <4> QED
        BY <4>2, <4>3
    <3>2. pos[i] = 0 /\ c = 1 /\ pl[i] = 0
      BY <1>6, <2>3, <2>7 DEF Waited, Shows
    <3> QED
      BY <2>4, <2>5, <3>1, <3>2
  <2>8. CASE GoesOn(i - 1, r, t, pl, st, r[i], t[i], pl[i], st[i])
             /\ Probed(i - 1, pl, r[i], t[i], pl[i])
    <3>1. places[i] = {}
      BY <1>3, <2>8 DEF Probed
    <3>2. pos[i] = 0
      BY <1>6, <2>8 DEF Probed, Shows, Program, Other
    <3>3. c = pl[i] /\ pl[i] # 0
      BY <2>1, <2>3, <2>8 DEF GoesOn, Probed, RowIs
    <3> QED
      BY <2>4, <2>5, <3>1, <3>2, <3>3
  <2>9. CASE \/ Started(i - 1, t, r[i], t[i], pl[i], st[i])
             \/ /\ GoesOn(i - 1, r, t, pl, st, r[i], t[i], pl[i], st[i])
                /\ \/ Went(i - 1, r, pl, r[i], t[i], pl[i])
                   \/ Stood(i - 1, pl, r[i], t[i], pl[i])
    <3>1. r[i].prog = Program /\ r[i].block = Blocks[pl[i]] /\ t[i].attempt > 0
      <4>1. CASE Started(i - 1, t, r[i], t[i], pl[i], st[i])
        <5>1. t[i].attempt \in Nat /\ t[i].attempt # 0
          BY <2>1, <4>1 DEF RowIs, Started
        <5> QED
          BY <4>1, <5>1 DEF Started
      <4> QED
        BY <2>9, <4>1 DEF GoesOn, Went, Stood
    <3>2. pl[i] \in DOMAIN Blocks /\ pl[i] # 0 /\ pos[i] = pl[i]
      BY <1>6, <2>1, <3>1, BlocksFacts DEF RowIs, Shows
    <3>3. places[i] = {k \in DOMAIN Blocks : Blocks[k] = Blocks[pl[i]]}
      BY <1>3, <3>1 DEF Program, Other
    <3>4. pl[i] = 1 \/ (c <= pl[i] /\ pl[i] <= c + 2)
      <4>1. CASE Started(i - 1, t, r[i], t[i], pl[i], st[i])
        BY <4>1 DEF Started
      <4>2. CASE GoesOn(i - 1, r, t, pl, st, r[i], t[i], pl[i], st[i])
        <5>1. i - 1 \in 1 .. n /\ t[i - 1].attempt > 0 /\ i - 1 # 0
          BY <2>2, <4>2 DEF GoesOn
        <5>2. pl[i - 1] # 0 /\ pl[i - 1] \in Int
          BY <2>2, <5>1, RowFacts DEF RowIs
        <5>3. c = pl[i - 1]
          BY <2>3, <5>1, <5>2
        <5>4. pl[i] \in {pl[i - 1], pl[i - 1] + 1, pl[i - 1] + 2} \/ pl[i] = 1
          BY <2>9 DEF Started, Went, Stood
        <5> QED
          BY <5>2, <5>3, <5>4
      <4> QED
        BY <2>9, <4>1, <4>2
    <3>5. NextPlace(places[i], c) = pl[i]
      BY <2>6, <3>2, <3>3, <3>4, NextPlaceFacts
    <3>6. places[i] # {}
      BY <3>2, <3>3
    <3> QED
      BY <2>4, <2>5, <3>2, <3>5, <3>6
  <2> QED
    BY <2>1, <2>7, <2>8, <2>9 DEF IsNext, GoesOn
<1>8. Walk(places) = f
  BY <1>1, <1>2, <1>4, <1>5, <1>7, WalkFacts
<1>9. Positions(r, WithNc) = [i \in 1 .. n |-> f[i].pos]
  BY <1>1, <1>8 DEF Positions, places
<1>10. ASSUME NEW i \in 1 .. n PROVE f[i].pos = pos[i]
  <2>1. f[i] = [pos |-> pos[i], cursor |-> IF pl[i] = 0 THEN 1 ELSE pl[i]]
    BY <1>4
  <2> QED
    BY <2>1
<1>11. IsFunction(pos, 1 .. n)
  BY DEF pos, PosOf, IsFunction
<1> DEFINE g == [i \in 1 .. n |-> f[i].pos]
<1>12. IsFunction(g, 1 .. n)
  BY DEF IsFunction
<1>13. \A i \in 1 .. n : g[i] = pos[i]
  BY <1>10
<1> HIDE DEF g
<1>14. g = pos
  BY <1>11, <1>12, <1>13 DEF IsFunction
<1> QED
  BY <1>9, <1>14 DEF g, pos

----------------------------------------------------------------------------
(* The restarts: _candidate_runs.                                         *)

(* A step from row to row in _candidate_runs. *)
RestartStep(pos, i, before) ==
    IF pos[i] = 0 THEN before
    ELSE IF before.start = 0 \/ pos[i] < before.top - Tolerance
         THEN [start |-> i, top |-> pos[i]]
         ELSE [before EXCEPT !.top = Greatest({@, pos[i]})]

(* The walk is the one that takes these steps. *)
LEMMA RestartsWalk ==
    ASSUME NEW n \in Nat, NEW pos, Len(pos) = n, NEW f, IsFunction(f, 0 .. n),
           f[0] = [start |-> 0, top |-> 0],
           \A i \in 1 .. n : f[i] = RestartStep(pos, i, f[i - 1])
    PROVE  Restarts(pos) = f
<1> DEFINE g == [i \in 0 .. n |-> IF i = 0 THEN [start |-> 0, top |-> 0]
                                  ELSE RestartStep(pos, i, f[i - 1])]
           T(h) == h = [i \in 0 .. n |-> IF i = 0 THEN [start |-> 0, top |-> 0]
                                         ELSE RestartStep(pos, i, h[i - 1])]
<1>1. T(f)
  <2>1. ASSUME NEW i \in 0 .. n PROVE g[i] = f[i]
    <3>1. CASE i = 0
      BY <3>1
    <3>2. CASE i # 0
      <4>1. i \in 1 .. n /\ g[i] = RestartStep(pos, i, f[i - 1])
        BY <3>2
      <4> QED
        BY <4>1
    <3> QED
      BY <3>1, <3>2
  <2>2. IsFunction(g, 0 .. n)
    BY DEF IsFunction
  <2> HIDE DEF g
  <2>3. g = f
    BY <2>1, <2>2, EqualFunctions
  <2> QED
    BY <2>3 DEF g
<1>2. Restarts(pos) = CHOOSE h : T(h)
  BY DEF Restarts, RestartStep
<1>3. T(Restarts(pos))
  <2> HIDE DEF T
  <2> QED
    BY <1>1, <1>2
<1> DEFINE w == Restarts(pos)
           G == {i \in 0 .. n : w[i] = f[i]}
<1> HIDE DEF w
<1>4. w[0] = f[0] /\ (\A i \in 1 .. n : w[i] = RestartStep(pos, i, w[i - 1]))
      /\ IsFunction(w, 0 .. n)
  <2>1. T(w)
    BY <1>3 DEF w
  <2>2. w[0] = [start |-> 0, top |-> 0]
    BY <2>1
  <2>3. \A i \in 1 .. n : w[i] = RestartStep(pos, i, w[i - 1])
    BY <2>1
  <2>4. IsFunction(w, 0 .. n)
    BY <2>1 DEF IsFunction
  <2> QED
    BY <2>2, <2>3, <2>4
<1> HIDE DEF T, g
<1>5. ASSUME NEW i \in 1 .. n, i - 1 \in G PROVE i \in G
  <2>1. w[i] = RestartStep(pos, i, w[i - 1]) /\ f[i] = RestartStep(pos, i, f[i - 1])
    BY <1>4
  <2>2. w[i - 1] = f[i - 1]
    BY <1>5
  <2> QED
    BY <2>1, <2>2
<1>6. \A i \in 0 .. n : i \in G
  <2>1. 0 \in G
    BY <1>4
  <2> HIDE DEF G
  <2> QED
    BY <1>5, <2>1, Upwards
<1>7. \A i \in 0 .. n : w[i] = f[i]
  BY <1>6
<1> QED
  BY <1>4, <1>7, EqualFunctions DEF w

(* Every attempt that was broken off had got further than the tolerance. *)
FarEnough(n, t, pl) ==
    \A i \in 2 .. n : t[i - 1].attempt > 0 /\ t[i].attempt # t[i - 1].attempt =>
        pl[i - 1] > 1 + Tolerance

(* Then each attempt is a run. *)
LEMMA RestartsFacts ==
    ASSUME NEW n, NEW r, NEW t, NEW pl, NEW st, Track(n, r, t, pl, st), FarEnough(n, t, pl)
    PROVE  \A i \in 1 .. n : Restarts(PosOf(n, r, t, pl))[i] = [start |-> st[i], top |-> pl[i]]
<1> DEFINE pos == PosOf(n, r, t, pl)
           f == [i \in 0 .. n |-> [start |-> IF i = 0 THEN 0 ELSE st[i],
                                   top   |-> IF i = 0 THEN 0 ELSE pl[i]]]
<1>1. n \in Nat /\ pl \in [1 .. n -> Int] /\ st \in [1 .. n -> Int]
  BY DEF Track
<1>2. Len(pos) = n
  BY <1>1 DEF PosOf
<1>3. \A i \in 1 .. n : pos[i] = IF Shows(r, t, i) THEN pl[i] ELSE 0
  BY DEF PosOf
<1>4. f[0] = [start |-> 0, top |-> 0] /\ \A i \in 1 .. n : f[i] = [start |-> st[i], top |-> pl[i]]
  BY <1>1
<1>5. IsFunction(f, 0 .. n)
  BY DEF IsFunction
<1> HIDE DEF f, pos
<1>6. ASSUME NEW i \in 1 .. n PROVE f[i] = RestartStep(pos, i, f[i - 1])
  <2>1. /\ IsNext(i - 1, r, t, pl, st, r[i], t[i], pl[i], st[i])
        /\ RowIs(r, t, pl, st, i) /\ pl[i] \in Int
    BY <1>1, RowFacts DEF Track
  <2>2. i - 1 > 0 => i - 1 \in 1 .. n /\ RowIs(r, t, pl, st, i - 1) /\ pl[i - 1] \in Int /\ i \in 2 .. n
    BY <1>1, RowFacts
  <2>3. f[i] = [start |-> st[i], top |-> pl[i]]
    BY <1>4
  <2>4. i - 1 = 0 => f[i - 1] = [start |-> 0, top |-> 0]
    BY <1>4
  <2>5. i - 1 > 0 => f[i - 1] = [start |-> st[i - 1], top |-> pl[i - 1]]
    BY <1>4, <2>2
  <2>6. CASE Waited(i - 1, r[i], t[i], pl[i], st[i])
    <3>1. pos[i] = 0 /\ st[i] = 0 /\ pl[i] = 0 /\ i - 1 = 0
      BY <1>3, <2>6 DEF Waited, Shows
    <3> QED
      BY <2>3, <2>4, <3>1 DEF RestartStep
  <2>7. CASE Started(i - 1, t, r[i], t[i], pl[i], st[i])
    <3>1. t[i].attempt > 0 /\ t[i].attempt \in Nat
      <4>1. t[i].attempt \in Nat /\ (t[i].attempt = 0 => pl[i] = 0)
        BY <2>1 DEF RowIs
      <4> QED
        BY <2>7, <4>1 DEF Started
    <3>2. pos[i] = 1 /\ st[i] = i /\ pl[i] = 1
      BY <1>3, <2>7, <3>1 DEF Started, Shows
    <3>3. f[i - 1].start = 0 \/ 1 < f[i - 1].top - Tolerance
      <4>1. CASE i - 1 = 0
        BY <2>4, <4>1
      <4>2. CASE i - 1 > 0 /\ t[i - 1].attempt = 0
        <5>1. st[i - 1] = 0
          BY <2>2, <4>2 DEF RowIs
        <5> QED
          BY <2>5, <4>2, <5>1
      <4>3. CASE i - 1 > 0 /\ t[i - 1].attempt > 0
        <5>1. t[i - 1].attempt \in Nat /\ t[i].attempt = t[i - 1].attempt + 1
          BY <2>2, <2>7, <4>3 DEF RowIs, Started
        <5>2. pl[i - 1] > 1 + Tolerance
          BY <2>2, <4>3, <5>1 DEF FarEnough
        <5>3. 1 < pl[i - 1] - Tolerance
          BY <2>2, <4>3, <5>2 DEF Tolerance
        <5> QED
          BY <2>5, <4>3, <5>3
      <4>4. i - 1 > 0 => t[i - 1].attempt \in Nat
        BY <2>2 DEF RowIs
      <4> QED
        BY <1>1, <4>1, <4>2, <4>3, <4>4
    <3> QED
      BY <2>3, <3>2, <3>3 DEF RestartStep
  <2>8. CASE GoesOn(i - 1, r, t, pl, st, r[i], t[i], pl[i], st[i])
    <3>1. /\ i - 1 > 0 /\ t[i - 1].attempt > 0 /\ t[i].attempt > 0 /\ st[i] = st[i - 1]
      BY <2>8 DEF GoesOn
    <3>2. st[i - 1] # 0 /\ pl[i - 1] > 0 /\ pl[i - 1] \in Int
      BY <2>2, <3>1 DEF RowIs
    <3>3. pl[i] \in {pl[i - 1], pl[i - 1] + 1, pl[i - 1] + 2} /\ pl[i] > 0
      BY <2>8, <3>2 DEF GoesOn, Went, Stood, Probed
    <3>4. pos[i] = 0 => pl[i] = pl[i - 1]
      <4>1. CASE Probed(i - 1, pl, r[i], t[i], pl[i])
        BY <4>1 DEF Probed
      <4>2. CASE ~Probed(i - 1, pl, r[i], t[i], pl[i])
        <5>1. pos[i] = pl[i]
          BY <1>3, <2>8, <3>1, <4>2 DEF GoesOn, Went, Stood, Shows
        <5> QED
          BY <3>3, <5>1
      <4> QED
        BY <4>1, <4>2
    <3>5. pos[i] # 0 => pos[i] = pl[i] /\ ~(pos[i] < pl[i - 1] - Tolerance)
                        /\ Greatest({pl[i - 1], pos[i]}) = pl[i]
      <4> SUFFICES ASSUME pos[i] # 0
                   PROVE  pos[i] = pl[i] /\ ~(pos[i] < pl[i - 1] - Tolerance)
                          /\ Greatest({pl[i - 1], pos[i]}) = pl[i]
        OBVIOUS
      <4>1. pos[i] = pl[i]
        BY <1>3
      <4>2. ~(pl[i] < pl[i - 1] - Tolerance) /\ pl[i] \in Int /\ pl[i - 1] <= pl[i]
        BY <3>2, <3>3 DEF Tolerance
      <4>3. Greatest({pl[i - 1], pl[i]}) = IF pl[i - 1] >= pl[i] THEN pl[i - 1] ELSE pl[i]
        BY <3>2, <4>2, PairFacts
      <4> QED
        BY <3>2, <4>1, <4>2, <4>3
    <3>6. f[i - 1] = [start |-> st[i - 1], top |-> pl[i - 1]]
      BY <2>5, <3>1
    <3>7. CASE pos[i] = 0
      BY <2>3, <3>1, <3>4, <3>6, <3>7 DEF RestartStep
    <3>8. CASE pos[i] # 0
      <4>1. RestartStep(pos, i, f[i - 1]) = [f[i - 1] EXCEPT !.top = Greatest({f[i - 1].top, pos[i]})]
        BY <3>2, <3>5, <3>6, <3>8 DEF RestartStep
      <4>2. @ = [start |-> st[i - 1], top |-> Greatest({pl[i - 1], pos[i]})]
        BY <3>6
      <4> QED
        BY <2>3, <3>1, <3>5, <3>8, <4>1, <4>2
    <3> QED
      BY <3>7, <3>8
  <2> QED
    BY <2>1, <2>6, <2>7, <2>8 DEF IsNext
<1>7. Restarts(pos) = f
  BY <1>1, <1>2, <1>4, <1>5, <1>6, RestartsWalk
<1> QED
  BY <1>4, <1>7 DEF pos

----------------------------------------------------------------------------
(* The stretches of work: _largest_active_span.                           *)

(* From a to b the rows follow each other in time. *)
Timed(r, a, b) ==
    /\ a \in Int /\ b \in Int /\ a <= b
    /\ \A i \in a .. b : r[i].at \in Int
    /\ \A j, i \in a .. b : j <= i => r[j].at <= r[i].at

(* The stretches of work between a and b. *)
Here(active, a, b) == active \cap (a .. b)

StretchStarts(r, active, a, b) ==
    {i \in Here(active, a, b) :
        \/ \A j \in Here(active, a, b) : i <= j
        \/ r[i].at - r[Greatest({j \in Here(active, a, b) : j < i})].at > MergeGap}

EndOf(r, active, a, b, s) ==
    Greatest({i \in Here(active, a, b) : \A t \in StretchStarts(r, active, a, b) : t <= i => t <= s})

(* Where they begin and end. *)
LEMMA StretchFacts ==
    ASSUME NEW r, NEW active, NEW a, NEW b, Timed(r, a, b), Here(active, a, b) # {}
    PROVE  /\ StretchStarts(r, active, a, b) \subseteq a .. b /\ StretchStarts(r, active, a, b) # {}
           /\ \A s \in StretchStarts(r, active, a, b) :
                 EndOf(r, active, a, b, s) \in Here(active, a, b) /\ s <= EndOf(r, active, a, b, s)
<1> DEFINE here == Here(active, a, b)
           starts == StretchStarts(r, active, a, b)
<1>1. a \in Int /\ b \in Int /\ here \in SUBSET Int /\ (\A i \in here : a <= i /\ i <= b) /\ here # {}
      /\ here \subseteq a .. b
  BY DEF Timed, Here
<1>2. starts \subseteq here
  BY DEF StretchStarts
<1>3. Least(here) \in here /\ \A j \in here : Least(here) <= j
  <2> HIDE DEF here
  <2> QED
    BY <1>1, LeastFacts
<1>4. Least(here) \in starts
  BY <1>3 DEF StretchStarts
<1>5. ASSUME NEW s \in starts
      PROVE  EndOf(r, active, a, b, s) \in here /\ s <= EndOf(r, active, a, b, s)
  <2> DEFINE E == {i \in here : \A t \in starts : t <= i => t <= s}
  <2>1. s \in E
    BY <1>2
  <2>2. E \in SUBSET Int /\ E \subseteq here /\ \A i \in E : i <= b
    <3> HIDE DEF here
    <3> QED
      BY <1>1
  <2>3. EndOf(r, active, a, b, s) = Greatest(E)
    BY DEF EndOf
  <2> HIDE DEF E, starts
  <2>4. Greatest(E) \in E /\ \A i \in E : i <= Greatest(E)
    BY <1>1, <2>1, <2>2, GreatestFacts
  <2> QED
    BY <2>1, <2>2, <2>3, <2>4
<1> QED
  BY <1>1, <1>2, <1>4, <1>5

(* The stretch that took longest lies between a and b. *)
LEMMA SpanFacts ==
    ASSUME NEW r, NEW active, NEW a, NEW b, Timed(r, a, b)
    PROVE  \/ LargestSpan(r, active, a, b) = [first |-> a, last |-> b] /\ Here(active, a, b) = {}
           \/ \E s \in StretchStarts(r, active, a, b) :
                 LargestSpan(r, active, a, b) = [first |-> s, last |-> EndOf(r, active, a, b, s)]
<1> DEFINE here == Here(active, a, b)
           starts == StretchStarts(r, active, a, b)
           e(s) == EndOf(r, active, a, b, s)
           span(s) == [first |-> s, last |-> e(s)]
           spans == {span(s) : s \in starts}
           time(x) == r[x.last].at - r[x.first].at
           Best(x) == \A y \in spans \ {x} : \/ time(x) > time(y)
                                             \/ time(x) = time(y) /\ x.first < y.first
<1>1. LargestSpan(r, active, a, b) = IF here = {} THEN [first |-> a, last |-> b]
                                     ELSE CHOOSE x \in spans : Best(x)
  BY DEF LargestSpan, Here, StretchStarts, EndOf
<1>2. CASE here = {}
  BY <1>1, <1>2
<1>3. CASE here # {}
  <2> DEFINE took(s) == r[e(s)].at - r[s].at
             TT == {k \in Int : \E s \in starts : k = took(s)}
  <2>1. /\ a \in Int /\ b \in Int /\ a <= b /\ starts \in SUBSET Int /\ starts # {}
        /\ \A s \in starts : s \in a .. b /\ e(s) \in a .. b
    BY <1>3, StretchFacts DEF Timed, Here
  <2>2. \A s \in starts : took(s) \in Int /\ took(s) <= r[b].at - r[a].at
    <3> TAKE s \in starts
    <3>1. s \in a .. b /\ e(s) \in a .. b /\ a \in a .. b /\ b \in a .. b
      BY <2>1
    <3>2. r[a].at <= r[s].at /\ r[e(s)].at <= r[b].at
      BY <2>1, <3>1 DEF Timed
    <3>3. r[a].at \in Int /\ r[b].at \in Int /\ r[s].at \in Int /\ r[e(s)].at \in Int
      BY <3>1 DEF Timed
    <3> HIDE DEF e
    <3> QED
      BY <3>2, <3>3
  <2>3. r[b].at - r[a].at \in Int
    BY <2>1 DEF Timed
  <2> HIDE DEF starts, e, took
  <2>4. TT \in SUBSET Int /\ TT # {} /\ \A k \in TT : k <= r[b].at - r[a].at
    BY <2>1, <2>2
  <2> DEFINE M == Greatest(TT)
             SS == {s \in starts : took(s) = M}
  <2>5. M \in TT /\ \A k \in TT : k <= M
    <3> HIDE DEF TT
    <3> QED
      BY <2>3, <2>4, GreatestFacts
  <2>6. /\ M \in Int /\ (\A s \in starts : took(s) <= M) /\ \E s \in starts : took(s) = M
    <3> HIDE DEF M
    <3> QED
      BY <2>2, <2>5
  <2> HIDE DEF M, TT
  <2>7. SS \in SUBSET Int /\ SS # {} /\ \A s \in SS : a <= s
    <3>1. SS \subseteq starts /\ SS # {}
      BY <2>6
    <3>2. \A s \in starts : s \in Int /\ a <= s
      BY <2>1
    <3> HIDE DEF SS
    <3> QED
      BY <3>1, <3>2
  <2>8. PICK m \in SS : \A s \in SS : m <= s
    <3> HIDE DEF SS
    <3> QED
      BY <2>1, <2>7, LeastExists
  <2>9. m \in starts /\ m \in Int /\ took(m) = M
    BY <2>1, <2>8
  <2>10. \A s \in starts : span(s).first = s /\ span(s).last = e(s) /\ time(span(s)) = took(s)
    BY DEF took
  <2>11. ASSUME NEW s \in starts, span(s) # span(m)
         PROVE  \/ took(m) > took(s)
                \/ took(m) = took(s) /\ m < s
    <3>1. s # m /\ s \in Int /\ took(s) \in Int /\ took(s) <= M
      BY <2>1, <2>2, <2>6, <2>11
    <3>2. took(s) = M => s \in SS
      OBVIOUS
    <3> QED
      BY <2>6, <2>8, <2>9, <3>1, <3>2
  <2> HIDE DEF span, time
  <2>12. Best(span(m)) /\ span(m) \in spans
    BY <2>9, <2>10, <2>11
  <2> HIDE DEF Best
  <2>13. LargestSpan(r, active, a, b) \in spans
    <3> HIDE DEF spans, here
    <3> QED
      BY <1>1, <1>3, <2>12
  <2>14. PICK s \in starts : LargestSpan(r, active, a, b) = span(s)
    BY <2>13
  <2> QED
    BY <2>14 DEF span, starts, e
<1> QED
  BY <1>2, <1>3

(* It is a stretch of the rows from a to b. *)
LEMMA SpanIsInside ==
    ASSUME NEW r, NEW active, NEW a, NEW b, Timed(r, a, b)
    PROVE  /\ LargestSpan(r, active, a, b).first \in a .. b
           /\ LargestSpan(r, active, a, b).last \in a .. b
           /\ LargestSpan(r, active, a, b).first <= LargestSpan(r, active, a, b).last
<1>1. CASE LargestSpan(r, active, a, b) = [first |-> a, last |-> b]
  BY <1>1 DEF Timed
<1>2. CASE LargestSpan(r, active, a, b) # [first |-> a, last |-> b]
  <2>1. PICK s \in StretchStarts(r, active, a, b) :
                LargestSpan(r, active, a, b) = [first |-> s, last |-> EndOf(r, active, a, b, s)]
    BY <1>2, SpanFacts
  <2>2. Here(active, a, b) # {}
    BY <2>1 DEF StretchStarts
  <2>3. s \in a .. b /\ EndOf(r, active, a, b, s) \in a .. b /\ s <= EndOf(r, active, a, b, s)
    BY <2>1, <2>2, StretchFacts DEF Here
  <2> QED
    BY <2>1, <2>3
<1> QED
  BY <1>1, <1>2

(* If the machine works all the time, it is all of them. *)
LEMMA SpanIsAll ==
    ASSUME NEW r, NEW active, NEW a, NEW b, Timed(r, a, b), a .. b \subseteq active,
           \A i \in a + 1 .. b : r[i].at - r[i - 1].at <= MergeGap
    PROVE  LargestSpan(r, active, a, b) = [first |-> a, last |-> b]
<1> DEFINE here == Here(active, a, b)
           starts == StretchStarts(r, active, a, b)
<1>1. a \in Int /\ b \in Int /\ a <= b /\ a \in a .. b /\ b \in a .. b /\ here = a .. b
  BY DEF Timed, Here
<1> HIDE DEF here
<1>2. \A s \in starts : s = a
  <2> SUFFICES ASSUME NEW s \in starts, s # a PROVE FALSE
    OBVIOUS
  <2>1. /\ s \in a .. b
        /\ \/ \A j \in here : s <= j
           \/ r[s].at - r[Greatest({j \in here : j < s})].at > MergeGap
    BY <1>1 DEF StretchStarts, here
  <2> HIDE DEF starts
  <2>2. s \in a + 1 .. b /\ s - 1 \in a .. b /\ s \in Int
    BY <1>1, <2>1
  <2> DEFINE J == {j \in here : j < s}
  <2>3. J \in SUBSET Int /\ s - 1 \in J /\ \A j \in J : j <= s - 1
    BY <1>1, <2>2
  <2>4. Greatest(J) \in J /\ \A j \in J : j <= Greatest(J)
    <3>1. s - 1 \in Int /\ J # {}
      BY <2>2, <2>3
    <3> HIDE DEF J
    <3> QED
      BY <2>3, <3>1, GreatestFacts
  <2>5. Greatest(J) = s - 1
    <3> HIDE DEF J
    <3>1. Greatest(J) <= s - 1 /\ s - 1 <= Greatest(J) /\ Greatest(J) \in Int
      BY <2>3, <2>4
    <3> QED
      BY <2>2, <3>1
  <2>6. r[s].at - r[s - 1].at > MergeGap
    <3>1. ~ \A j \in here : s <= j
      BY <1>1, <2>2
    <3> QED
      BY <2>1, <2>5, <3>1
  <2>7. r[s].at \in Int /\ r[s - 1].at \in Int
    BY <2>1, <2>2 DEF Timed
  <2> QED
    BY <2>2, <2>6, <2>7 DEF MergeGap
<1>3. EndOf(r, active, a, b, a) = b
  <2> DEFINE E == {i \in here : \A t \in starts : t <= i => t <= a}
  <2>1. E = a .. b
    <3> HIDE DEF starts
    <3> QED
      BY <1>1, <1>2
  <2>2. EndOf(r, active, a, b, a) = Greatest(E)
    BY DEF EndOf, here
  <2> HIDE DEF E
  <2>3. Greatest(a .. b) \in a .. b /\ \A x \in a .. b : x <= Greatest(a .. b)
    <3> DEFINE S == a .. b
    <3>1. S \in SUBSET Int /\ a \in S /\ \A x \in S : x <= b
      <4>1. \A x \in S : x \in Int /\ x <= b
        BY <1>1
      <4> QED
        BY <1>1, <4>1
    <3> HIDE DEF S
    <3>2. Greatest(S) \in S /\ \A x \in S : x <= Greatest(S)
      BY <1>1, <3>1, GreatestFacts
    <3> QED
      BY <3>2 DEF S
  <2> QED
    BY <1>1, <2>1, <2>2, <2>3
<1>4. Here(active, a, b) # {}
  BY <1>1 DEF here
<1> HIDE DEF starts
<1>5. PICK s \in starts : LargestSpan(r, active, a, b) = [first |-> s, last |-> EndOf(r, active, a, b, s)]
  BY <1>4, SpanFacts DEF starts
<1> QED
  BY <1>2, <1>3, <1>5

----------------------------------------------------------------------------
(* The runs are the attempts.                                             *)

(* x holds the rows of attempt a, up to the last one that shows its place. *)
RunIs(n, r, t, x, a) ==
    /\ a \in Nat /\ a > 0
    /\ x = [first |-> x.first, last |-> x.last]
    /\ x.first \in 1 .. n /\ x.last \in 1 .. n /\ x.first <= x.last
    /\ \A j \in x.first .. x.last : t[j].attempt = a
    /\ \A j \in 1 .. n : t[j].attempt = a => x.first <= j /\ (Shows(r, t, j) => j <= x.last)
    /\ Shows(r, t, x.last)

(* The rows whose place is known. *)
LEMMA MatchedFacts ==
    ASSUME NEW n, NEW r, NEW t, NEW pl, NEW st, Track(n, r, t, pl, st)
    PROVE  Matched(PosOf(n, r, t, pl)) = {i \in 1 .. n : Shows(r, t, i)}
<1>1. \A i \in 1 .. n : Shows(r, t, i) => pl[i] > 0
  BY RowFacts DEF RowIs, Shows
<1>2. \A i \in 1 .. n : PosOf(n, r, t, pl)[i] > 0 <=> Shows(r, t, i)
  <2> TAKE i \in 1 .. n
  <2>1. PosOf(n, r, t, pl)[i] = IF Shows(r, t, i) THEN pl[i] ELSE 0
    BY DEF PosOf
  <2> QED
    BY <1>1, <2>1
<1>3. DOMAIN PosOf(n, r, t, pl) = 1 .. n
  BY DEF PosOf
<1> QED
  BY <1>2, <1>3 DEF Matched

(* The runs are the attempts. *)
LEMMA RunsFacts ==
    ASSUME NEW n, NEW r, NEW t, NEW pl, NEW st, Track(n, r, t, pl, st), FarEnough(n, t, pl)
    PROVE  /\ \A x \in Runs(PosOf(n, r, t, pl)) : \E a : RunIs(n, r, t, x, a)
           /\ \A i \in 1 .. n : Shows(r, t, i) =>
                 \E x \in Runs(PosOf(n, r, t, pl)) : RunIs(n, r, t, x, t[i].attempt)
<1> DEFINE pos == PosOf(n, r, t, pl)
           W == {i \in 1 .. n : Shows(r, t, i)}
           Run(s) == [first |-> s, last |-> Greatest({i \in W : st[i] = s})]
<1>1. n \in Nat /\ (\A i \in 1 .. n : RowIs(r, t, pl, st, i) /\ st[i] \in Int)
  BY RowFacts DEF Track
<1>2. Runs(pos) = {Run(s) : s \in {st[i] : i \in W}}
  <2>1. Matched(pos) = W
    BY MatchedFacts
  <2>2. ASSUME NEW i \in W PROVE Restarts(pos)[i].start = st[i]
    <3>1. i \in 1 .. n
      OBVIOUS
    <3>2. Restarts(pos)[i] = [start |-> st[i], top |-> pl[i]]
      BY <3>1, RestartsFacts
    <3> QED
      BY <3>2
  <2> HIDE DEF W, pos
  <2>3. \A s : {i \in W : Restarts(pos)[i].start = s} = {i \in W : st[i] = s}
    BY <2>2
  <2>4. {Restarts(pos)[i].start : i \in W} = {st[i] : i \in W}
    BY <2>2
  <2>5. Runs(pos) = {[first |-> s, last |-> Greatest({i \in W : Restarts(pos)[i].start = s})] :
                        s \in {Restarts(pos)[i].start : i \in W}}
    BY <2>1 DEF Runs
  <2>6. \A s : Run(s) = [first |-> s, last |-> Greatest({i \in W : Restarts(pos)[i].start = s})]
    BY <2>3
  <2> HIDE DEF Run
  <2> QED
    BY <2>4, <2>5, <2>6
<1>3. ASSUME NEW i \in W PROVE RunIs(n, r, t, Run(st[i]), t[i].attempt)
  <2> DEFINE s == st[i]
             a == t[i].attempt
             M == {j \in W : st[j] = s}
             l == Greatest(M)
  <2>1. i \in 1 .. n /\ a > 0 /\ a \in Nat /\ s \in 1 .. i /\ t[s].attempt = a /\ s \in 1 .. n
    BY <1>1 DEF RowIs, Shows
  <2>2. i \in M /\ M \subseteq 1 .. n /\ M \in SUBSET Int /\ \A j \in M : j <= n
    BY <1>1
  <2>3. l \in M /\ \A j \in M : j <= l
    <3>1. M # {} /\ n \in Int
      BY <1>1, <2>2
    <3> HIDE DEF M
    <3> QED
      BY <2>2, <3>1, GreatestFacts
  <2>4. \A j \in 1 .. n : t[j].attempt = a => st[j] = s
    <3> TAKE j \in 1 .. n
    <3>1. (j <= i => InOrder(r, t, pl, st, j, i)) /\ (i <= j => InOrder(r, t, pl, st, i, j))
      BY <2>1, OrderFacts
    <3> QED
      BY <2>1, <3>1 DEF InOrder
  <2>5. l \in 1 .. n /\ Shows(r, t, l) /\ st[l] = s
    BY <2>3
  <2>6. t[l].attempt = a
    <3>1. RowIs(r, t, pl, st, l) /\ t[l].attempt > 0
      BY <1>1, <2>5 DEF Shows
    <3>2. t[st[l]].attempt = t[l].attempt
      BY <3>1 DEF RowIs
    <3> QED
      BY <2>1, <2>5, <3>2
  <2>7. s <= l
    <3>1. \A j \in M : j <= l
      BY <2>3
    <3> QED
      BY <2>1, <2>2, <2>5, <3>1
  <2>8. \A j \in s .. l : t[j].attempt = a
    <3> TAKE j \in s .. l
    <3>1. j \in 1 .. n /\ s <= j /\ j <= l
      <4>1. n \in Nat /\ s \in 1 .. n /\ l \in 1 .. n
        BY <1>1, <2>1, <2>5
      <4> HIDE DEF s, l
      <4> QED
        BY <4>1
    <3>2. InOrder(r, t, pl, st, s, j) /\ InOrder(r, t, pl, st, j, l)
      BY <2>1, <2>5, <3>1, OrderFacts
    <3>3. t[j].attempt \in Nat
      BY <1>1, <3>1 DEF RowIs
    <3> QED
      BY <2>1, <2>6, <3>2, <3>3 DEF InOrder
  <2>9. ASSUME NEW j \in 1 .. n, t[j].attempt = a
        PROVE  s <= j /\ (Shows(r, t, j) => j <= l)
    <3>1. st[j] = s /\ st[j] \in 1 .. j
      BY <1>1, <2>1, <2>4, <2>9 DEF RowIs
    <3>2. Shows(r, t, j) => j \in M
      BY <3>1
    <3> QED
      BY <2>3, <3>1, <3>2
  <2> DEFINE x == Run(s)
  <2>10. x = [first |-> s, last |-> l]
    OBVIOUS
  <2> HIDE DEF x, s, a, M, l
  <2>11. RunIs(n, r, t, x, a)
    BY <2>1, <2>5, <2>7, <2>8, <2>9, <2>10 DEF RunIs
  <2> QED
    BY <2>11 DEF x, s, a
<1> HIDE DEF W, Run
<1>4. \A x \in Runs(pos) : \E i \in W : x = Run(st[i])
  BY <1>2
<1>5. \A i \in W : Run(st[i]) \in Runs(pos)
  BY <1>2
<1>6. \A i \in 1 .. n : Shows(r, t, i) => i \in W
  BY DEF W
<1> QED
  BY <1>3, <1>4, <1>5, <1>6

(* An attempt is one run. *)
LEMMA RunIsOne ==
    ASSUME NEW n, NEW r, NEW t, NEW x, NEW y, NEW a, RunIs(n, r, t, x, a), RunIs(n, r, t, y, a)
    PROVE  x = y
<1>1. /\ x.first \in 1 .. n /\ x.last \in 1 .. n /\ y.first \in 1 .. n /\ y.last \in 1 .. n
      /\ x.first <= x.last /\ y.first <= y.last
  BY DEF RunIs
<1>2. x.first \in x.first .. x.last /\ x.last \in x.first .. x.last
      /\ y.first \in y.first .. y.last /\ y.last \in y.first .. y.last
  BY <1>1
<1>3. t[x.first].attempt = a /\ t[x.last].attempt = a /\ t[y.first].attempt = a /\ t[y.last].attempt = a
  BY <1>2 DEF RunIs
<1>4. x.first <= y.first /\ y.first <= x.first /\ x.last <= y.last /\ y.last <= x.last
  BY <1>1, <1>3 DEF RunIs
<1>5. x.first = y.first /\ x.last = y.last
  BY <1>1, <1>4
<1> QED
  BY <1>5 DEF RunIs

(* The blocks seen in a run are those its attempt went through. *)
MilledIn(n, t, a) ==
    {t[i].place : i \in {j \in 1 .. n : t[j].attempt = a /\ t[j].place > 0}} \cap Motions(WithNc)

(* They are: a block that goes unseen was not gone through, and the probing macro is
   not compared. *)
LEMMA SeenInFacts ==
    ASSUME NEW n, NEW r, NEW t, NEW pl, NEW st, Track(n, r, t, pl, st),
           NEW x, NEW a, RunIs(n, r, t, x, a)
    PROVE  SeenIn(x, PosOf(n, r, t, pl), WithNc) = MilledIn(n, t, a)
<1> DEFINE pos == PosOf(n, r, t, pl)
           R == {j \in 1 .. n : t[j].attempt = a /\ t[j].place > 0}
<1>1. \A i \in 1 .. n : pos[i] = IF Shows(r, t, i) THEN pl[i] ELSE 0
  BY DEF PosOf
<1>2. x.first \in 1 .. n /\ x.last \in 1 .. n /\ \A i \in x.first .. x.last : i \in 1 .. n
  <2>1. n \in Nat /\ x.first \in 1 .. n /\ x.last \in 1 .. n
    BY DEF RunIs, Track
  <2> QED
    BY <2>1
<1>3. \A k \in Motions(WithNc) : k > 0 /\ k \in Nat
  BY BlocksFacts DEF Motions, WithNc
<1>4. ASSUME NEW i \in x.first .. x.last, pos[i] \in Motions(WithNc)
      PROVE  \E j \in R : pos[i] = t[j].place
  <2>1. i \in 1 .. n /\ t[i].attempt = a /\ pos[i] > 0 /\ pos[i] = pl[i]
    BY <1>1, <1>2, <1>3, <1>4 DEF RunIs
  <2>2. PICK j \in 1 .. i : t[j].attempt = t[i].attempt /\ t[j].place = pl[i]
    BY <2>1, SeenFacts DEF Seen
  <2>3. j \in R
    <3>1. n \in Nat /\ j \in 1 .. n
      BY <2>1 DEF Track
    <3> QED
      BY <2>1, <2>2, <3>1
  <2> QED
    BY <2>1, <2>2, <2>3
<1>5. ASSUME NEW j \in R PROVE j \in x.first .. x.last /\ pos[j] = t[j].place
  <2>1. /\ IsNext(j - 1, r, t, pl, st, r[j], t[j], pl[j], st[j])
        /\ j \in 1 .. n /\ t[j].attempt = a /\ t[j].place > 0 /\ RowIs(r, t, pl, st, j)
    BY RowFacts DEF Track
  <2>2. r[j].prog = Program /\ t[j].place = pl[j]
    BY <2>1 DEF IsNext, Waited, Started, GoesOn, Went, Stood, Probed, RowIs
  <2>3. a > 0 /\ Shows(r, t, j)
    BY <2>1, <2>2 DEF Shows, RunIs
  <2>4. x.first <= j /\ j <= x.last
    BY <2>1, <2>3 DEF RunIs
  <2> QED
    BY <1>1, <1>2, <2>1, <2>2, <2>3, <2>4
<1> HIDE DEF pos, R
<1>6. SeenIn(x, pos, WithNc) = {pos[i] : i \in x.first .. x.last} \cap Motions(WithNc)
  BY DEF SeenIn
<1>7. MilledIn(n, t, a) = {t[i].place : i \in R} \cap Motions(WithNc)
  BY DEF MilledIn, R
<1>8. {pos[i] : i \in x.first .. x.last} \cap Motions(WithNc) = {t[i].place : i \in R} \cap Motions(WithNc)
  BY <1>4, <1>5
<1> QED
  BY <1>6, <1>7, <1>8 DEF pos

----------------------------------------------------------------------------
(* The run that is preferred.                                             *)

(* The first parts of two keys decide. *)
LEMMA AboveFacts ==
    ASSUME NEW x1 \in Int, NEW x2 \in Int, NEW x3, NEW x4,
           NEW y1 \in Int, NEW y2 \in Int, NEW y3, NEW y4,
           x1 > y1 \/ (x1 = y1 /\ x2 > y2)
    PROVE  /\ Above(<<x1, x2, x3, x4>>, <<y1, y2, y3, y4>>)
           /\ ~Above(<<y1, y2, y3, y4>>, <<x1, x2, x3, x4>>)
           /\ <<x1, x2, x3, x4>> # <<y1, y2, y3, y4>>
<1> DEFINE x == <<x1, x2, x3, x4>>
           y == <<y1, y2, y3, y4>>
<1>1. /\ DOMAIN x = 1 .. 4 /\ DOMAIN y = 1 .. 4
      /\ x[1] = x1 /\ x[2] = x2 /\ y[1] = y1 /\ y[2] = y2
  OBVIOUS
<1> HIDE DEF x, y
<1>2. Above(x, y)
  <2>1. CASE x1 > y1
    <3>1. 1 \in DOMAIN x /\ x[1] > y[1] /\ \A j \in 1 .. 1 - 1 : x[j] = y[j]
      BY <1>1, <2>1
    <3> QED
      BY <3>1 DEF Above
  <2>2. CASE x1 = y1 /\ x2 > y2
    <3>1. 2 \in DOMAIN x /\ x[2] > y[2] /\ \A j \in 1 .. 2 - 1 : x[j] = y[j]
      BY <1>1, <2>2
    <3> QED
      BY <3>1 DEF Above
  <2> QED
    BY <2>1, <2>2
<1>3. ~Above(y, x)
  <2> SUFFICES ASSUME NEW k \in 1 .. 4, y[k] > x[k], \A j \in 1 .. k - 1 : y[j] = x[j]
               PROVE  FALSE
    BY <1>1 DEF Above
  <2>1. k = 1 \/ 1 \in 1 .. k - 1
    OBVIOUS
  <2>2. k = 1 \/ k = 2 \/ 2 \in 1 .. k - 1
    OBVIOUS
  <2>3. CASE k = 1
    BY <1>1, <2>3
  <2>4. CASE k # 1
    <3>1. y1 = x1
      BY <1>1, <2>1, <2>4
    <3>2. k = 2 \/ y2 = x2
      BY <1>1, <2>2, <2>4
    <3> QED
      BY <1>1, <3>1, <3>2
  <2> QED
    BY <2>3, <2>4
<1>4. x # y
  BY <1>1
<1> QED
  BY <1>2, <1>3, <1>4 DEF x, y

(* How many motion blocks are seen in a run. *)
LEMMA SeenCount ==
    ASSUME NEW pos, NEW x
    PROVE  Cardinality(SeenIn(x, pos, WithNc)) \in Nat /\ IsFiniteSet(SeenIn(x, pos, WithNc))
<1>1. Motions(WithNc) \subseteq 1 .. Len(Blocks) /\ Len(Blocks) \in Nat
  BY BlocksFacts DEF Motions, WithNc
<1>2. IsFiniteSet(1 .. Len(Blocks))
  BY <1>1, FS_Interval
<1>3. SeenIn(x, pos, WithNc) \subseteq 1 .. Len(Blocks)
  BY <1>1 DEF SeenIn
<1>4. IsFiniteSet(SeenIn(x, pos, WithNc))
  BY <1>2, <1>3, FS_Subset
<1> QED
  BY <1>4, FS_CardinalityType

(* A run meets the times that are looked for. *)
Met(x, r, hint) ==
    hint # {} /\ \E h \in hint : Overlap(r[x.first].at, r[x.last].at, h.start, h.end) > 0

(* A run is preferred to another if it alone meets them, or if more of the program
   is seen in it. *)
Preferred(x, y, r, pos, hint) ==
    \/ Met(x, r, hint) /\ ~Met(y, r, hint)
    \/ /\ Met(x, r, hint) <=> Met(y, r, hint)
       /\ Cardinality(SeenIn(x, pos, WithNc)) > Cardinality(SeenIn(y, pos, WithNc))

(* A run that is preferred to all others is chosen. *)
LEMMA BestRunFacts ==
    ASSUME NEW r, NEW pos, NEW hint, NEW x \in Runs(pos),
           \A y \in Runs(pos) : y = x \/ Preferred(x, y, r, pos, hint)
    PROVE  BestRun(r, pos, WithNc, hint) = x
<1> DEFINE Key(y) == RunKey(y, r, pos, WithNc, hint)
           key == [y \in Runs(pos) |-> Key(y)]
<1>1. ASSUME NEW y \in Runs(pos), y # x
      PROVE  Above(Key(x), Key(y)) /\ ~Above(Key(y), Key(x)) /\ Key(x) # Key(y)
  <2> DEFINE X1 == IF Met(x, r, hint) THEN 1 ELSE 0
             Y1 == IF Met(y, r, hint) THEN 1 ELSE 0
             X2 == Cardinality(SeenIn(x, pos, WithNc))
             Y2 == Cardinality(SeenIn(y, pos, WithNc))
             X3 == IF ReachedEnd(SeenIn(x, pos, WithNc), WithNc) THEN 1 ELSE 0
             Y3 == IF ReachedEnd(SeenIn(y, pos, WithNc), WithNc) THEN 1 ELSE 0
             X4 == x.last - x.first
             Y4 == y.last - y.first
  <2>1. Key(x) = <<X1, X2, X3, X4>> /\ Key(y) = <<Y1, Y2, Y3, Y4>>
    BY DEF RunKey, Met
  <2>2. X2 \in Int /\ Y2 \in Int
    BY SeenCount
  <2>3. X1 \in Int /\ Y1 \in Int
    OBVIOUS
  <2>4. X1 > Y1 \/ (X1 = Y1 /\ X2 > Y2)
    BY <1>1 DEF Preferred
  <2> HIDE DEF Key, X1, X2, X3, X4, Y1, Y2, Y3, Y4
  <2> QED
    BY <2>1, <2>2, <2>3, <2>4, AboveFacts
<1> HIDE DEF Key
<1>2. \A y \in Runs(pos) : key[y] = Key(y)
  OBVIOUS
<1>3. BestRun(r, pos, WithNc, hint) =
         CHOOSE z \in Runs(pos) : \A q \in Runs(pos) \ {z} :
            Above(key[z], key[q]) \/ (key[z] = key[q] /\ z.first < q.first)
  BY DEF BestRun, Key
<1> HIDE DEF key
<1>4. \A q \in Runs(pos) \ {x} : Above(key[x], key[q]) \/ (key[x] = key[q] /\ x.first < q.first)
  BY <1>1, <1>2
<1>5. ASSUME NEW z \in Runs(pos),
             \A q \in Runs(pos) \ {z} : Above(key[z], key[q]) \/ (key[z] = key[q] /\ z.first < q.first)
      PROVE  z = x
  BY <1>1, <1>2, <1>5
<1> QED
  BY <1>3, <1>4, <1>5

----------------------------------------------------------------------------
(* The window.                                                            *)

(* The times that are looked for in a recording. *)
HintOf(r, s, e) == AlignHint(r[1].at, r[Len(r)].at, s, e)
Usable(r, s, e) ==
    /\ HintOf(r, s, e).start # NoTime /\ HintOf(r, s, e).end # NoTime
    /\ Overlap(HintOf(r, s, e).start, HintOf(r, s, e).end, r[1].at, r[Len(r)].at) > 0
HintsOf(r, s, e) ==
    IF Usable(r, s, e) THEN {[start |-> HintOf(r, s, e).start, end |-> HintOf(r, s, e).end]} ELSE {}

(* The window lies in the run that is chosen, if enough of the program is seen in
   it. *)
LEMMA DetectFacts ==
    ASSUME NEW r, NEW s, NEW e, NEW x,
           x \in Runs(Positions(r, WithNc)),
           BestRun(r, Positions(r, WithNc), WithNc, HintsOf(r, s, e)) = x,
           Covers(x, Positions(r, WithNc), WithNc)
    PROVE  LET w == Detect(r, WithNc, s, e)
               y == LargestSpan(r, Active(r, Positions(r, WithNc)), x.first, x.last)
           IN  w.first = y.first /\ w.last = y.last
<1> DEFINE pos == Positions(r, WithNc)
           y == LargestSpan(r, Active(r, pos), x.first, x.last)
           w == [first |-> y.first, last |-> y.last, method |-> "nc_block", shift |-> HintOf(r, s, e).shift,
                 ref |-> WithNc.name, start |-> r[y.first].at, end |-> r[y.last].at]
<1>1. WithNc # NoProgram
  BY NoProgramAssumption DEF WithNc
<1>2. Detect(r, WithNc, s, e) = w
  BY <1>1 DEF Detect, HintsOf, Usable, HintOf
<1> QED
  BY <1>2

(* No times: nothing is looked for. *)
LEMMA NoHint == ASSUME NEW r PROVE HintsOf(r, NoTime, NoTime) = {}
<1>1. HintOf(r, NoTime, NoTime).start = NoTime
  BY DEF HintOf, AlignHint
<1> QED
  BY <1>1 DEF HintsOf, Usable

(* From a restart that can be told. *)
LEMMA RestartsSeenFacts ==
    ASSUME MachineTypes, RestartsSeen, NEW pl, NEW st, Track(Len(rows), rows, truth, pl, st)
    PROVE  FarEnough(Len(rows), truth, pl)
<1> DEFINE n == Len(rows)
<1>0. n \in Nat /\ DOMAIN truth = 1 .. n
  BY DEF MachineTypes
<1> SUFFICES ASSUME NEW i \in 2 .. n, truth[i - 1].attempt > 0, truth[i].attempt # truth[i - 1].attempt
             PROVE  pl[i - 1] > 1 + Tolerance
  BY DEF FarEnough
<1> DEFINE a == truth[i - 1].attempt
<1>1. i \in 1 .. n /\ i - 1 \in 1 .. n /\ n \in 1 .. n /\ i - 1 <= i /\ i <= n
  BY <1>0
<1> HIDE DEF n
<1>2. \A j \in 1 .. n : RowIs(rows, truth, pl, st, j)
  BY RowFacts DEF n
<1>3. \A j, k \in 1 .. n : j <= k => InOrder(rows, truth, pl, st, j, k)
  BY OrderFacts DEF n
<1>4. InOrder(rows, truth, pl, st, i - 1, i) /\ InOrder(rows, truth, pl, st, i, n)
  BY <1>1, <1>3
<1>5. truth[n].attempt \in Nat /\ truth[i].attempt \in Nat /\ a \in Nat
  BY <1>1, <1>2 DEF RowIs
<1>6. Attempt = truth[n].attempt
  <2>1. n > 0
    BY <1>0, <1>1
  <2> QED
    BY <2>1, NowFacts DEF n
<1>7. a \in 1 .. Attempt - 1 /\ truth[i].attempt > a
  <2> HIDE DEF a
  <2>1. truth[i - 1].attempt = a
    BY DEF a
  <2>2. a <= truth[i].attempt /\ truth[i].attempt <= truth[n].attempt /\ a > 0 /\ truth[i].attempt # a
    BY <1>4, <2>1 DEF InOrder
  <2> QED
    BY <1>5, <1>6, <2>2
<1>8. PICK j \in Rows(a) : truth[j].place > 1 + Tolerance
  <2> HIDE DEF a
  <2> QED
    BY <1>7 DEF RestartsSeen
<1>9. j \in 1 .. n /\ truth[j].attempt = a
  BY <1>0, <1>8 DEF Rows
<1>10. j <= i - 1
  <2> SUFFICES ASSUME ~(j <= i - 1) PROVE FALSE
    OBVIOUS
  <2>1. i <= j
    BY <1>1, <1>9, <1>0
  <2>2. truth[i].attempt <= truth[j].attempt
    BY <1>1, <1>3, <1>9, <2>1 DEF InOrder
  <2> HIDE DEF a
  <2> QED
    BY <1>5, <1>7, <1>9, <2>2
<1>11. pl[j] <= pl[i - 1]
  BY <1>1, <1>3, <1>9, <1>10 DEF InOrder
<1>12. truth[j].place \in {0, pl[j]} /\ pl[j] \in 0 .. Len(Blocks) /\ pl[i - 1] \in 0 .. Len(Blocks)
  BY <1>1, <1>2, <1>9 DEF RowIs
<1>13. Len(Blocks) \in Nat
  BY BlocksFacts
<1>14. truth[j].place = pl[j]
  BY <1>8, <1>12, <1>13 DEF Tolerance
<1> QED
  BY <1>8, <1>11, <1>12, <1>13, <1>14 DEF Tolerance

(* A row that has got to a place of the program shows it. *)
LEMMA PlaceShows ==
    ASSUME NEW n, NEW r, NEW t, NEW pl, NEW st, Track(n, r, t, pl, st),
           NEW j \in 1 .. n, t[j].place > 0
    PROVE  Shows(r, t, j) /\ t[j].place = pl[j]
<1>1. RowIs(r, t, pl, st, j) /\ IsNext(j - 1, r, t, pl, st, r[j], t[j], pl[j], st[j])
  BY RowFacts DEF Track
<1>2. t[j].attempt > 0 /\ t[j].place = pl[j]
  <2>1. t[j].attempt \in Nat /\ pl[j] \in 0 .. Len(Blocks) /\ t[j].place \in {0, pl[j]}
        /\ (t[j].attempt = 0 => pl[j] = 0)
    BY <1>1 DEF RowIs
  <2> QED
    BY <2>1
<1>3. r[j].prog = Program
  BY <1>1, <1>2 DEF IsNext, Waited, Started, GoesOn, Went, Stood, Probed
<1> QED
  BY <1>2, <1>3 DEF Shows

(* Each attempt is a run. *)
LEMMA AttemptIsRun ==
    ASSUME NEW n, NEW r, NEW t, NEW pl, NEW st, Track(n, r, t, pl, st), FarEnough(n, t, pl), n > 0,
           NEW a \in 1 .. t[n].attempt
    PROVE  \E x \in Runs(PosOf(n, r, t, pl)) : RunIs(n, r, t, x, a)
<1>1. n \in Nat /\ n \in 1 .. n
  BY DEF Track
<1>2. PICK j \in 1 .. n : t[j].attempt = a
  BY <1>1, AttemptFacts DEF AllBegun
<1>3. st[j] \in 1 .. n /\ t[st[j]].attempt = a /\ t[st[j]].place = 1
  <2>1. RowIs(r, t, pl, st, j) /\ a > 0 /\ t[n].attempt \in Nat
    BY <1>1, RowFacts DEF RowIs
  <2>2. st[j] \in 1 .. j /\ t[st[j]].attempt = a /\ t[st[j]].place = 1
    BY <1>2, <2>1 DEF RowIs
  <2> QED
    BY <1>1, <2>2
<1> DEFINE i == st[j]
<1>4. i \in 1 .. n /\ t[i].attempt = a /\ t[i].place > 0
  BY <1>3
<1> HIDE DEF i
<1>5. Shows(r, t, i)
  BY <1>4, PlaceShows
<1> QED
  BY <1>4, <1>5, RunsFacts

(* It begins with the first block, and its rows are those between its ends, except
   those in which the machine probes after the last block it got to. *)
LEMMA RunBegins ==
    ASSUME NEW n, NEW r, NEW t, NEW pl, NEW st, Track(n, r, t, pl, st),
           NEW x, NEW a, RunIs(n, r, t, x, a)
    PROVE  /\ t[x.first].place = 1 /\ pl[x.first] = 1 /\ t[x.first].attempt = a
           /\ Timed(r, x.first, x.last)
           /\ \A j \in x.first .. x.last : j \in 1 .. n /\ t[j].attempt = a
<1>1. n \in Nat /\ x.first \in 1 .. n /\ x.last \in 1 .. n /\ x.first <= x.last /\ a > 0
  BY DEF RunIs, Track
<1>2. \A j \in x.first .. x.last : j \in 1 .. n /\ t[j].attempt = a
  <2>1. \A j \in x.first .. x.last : t[j].attempt = a
    BY DEF RunIs
  <2>2. \A j \in x.first .. x.last : j \in 1 .. n
    BY <1>1
  <2> QED
    BY <2>1, <2>2
<1>3. t[x.first].attempt = a
  BY <1>1, <1>2
<1> DEFINE s == st[x.first]
<1>4. s \in 1 .. x.first /\ t[s].attempt = a /\ t[s].place = 1 /\ pl[s] = 1
  BY <1>1, <1>3, RowFacts DEF RowIs
<1> HIDE DEF s
<1>5. s \in 1 .. n
  BY <1>1, <1>4
<1>6. x.first <= s
  BY <1>4, <1>5 DEF RunIs
<1>7. s = x.first
  BY <1>1, <1>4, <1>6
<1>8. Timed(r, x.first, x.last)
  <2>1. x.first \in Int /\ x.last \in Int
    BY <1>1
  <2>2. \A i \in x.first .. x.last : r[i].at \in Int
    BY <1>2, RowFacts DEF RowIs
  <2>3. \A j, i \in x.first .. x.last : j <= i => r[j].at <= r[i].at
    BY <1>2, OrderFacts DEF InOrder
  <2> QED
    BY <1>1, <2>1, <2>2, <2>3 DEF Timed
<1> QED
  BY <1>2, <1>3, <1>4, <1>7, <1>8

(* The row of the last place that is known before. *)
LastPlace(pos, i) ==
    LET before == {j \in Matched(pos) : j < i}
    IN  IF before = {} THEN 0 ELSE pos[Greatest(before)]

(* The machine works where the program gets on. *)
LEMMA ActiveFacts ==
    ASSUME NEW r, NEW pos, NEW i, DOMAIN r = DOMAIN pos, i \in Matched(pos),
           r[i].at \in Int, pos[i] # LastPlace(pos, i)
    PROVE  i \in Active(r, pos)
<1>1. i \in DOMAIN r
  BY DEF Matched
<1>2. r[i].at - r[i].at \in 0 .. IdleGap
  BY DEF IdleGap
<1>3. i \in {k \in Matched(pos) : pos[k] # LastPlace(pos, k)}
  OBVIOUS
<1> QED
  BY <1>1, <1>2, <1>3 DEF Active, LastPlace

(* The last place before an attempt is further than its first one. *)
LEMMA LastPlaceBefore ==
    ASSUME NEW n, NEW r, NEW t, NEW pl, NEW st, Track(n, r, t, pl, st), FarEnough(n, t, pl),
           NEW x, NEW a, RunIs(n, r, t, x, a)
    PROVE  LastPlace(PosOf(n, r, t, pl), x.first) # 1
<1> DEFINE pos == PosOf(n, r, t, pl)
           i == x.first
           B == {j \in Matched(pos) : j < i}
           j == Greatest(B)
<1>1. n \in Nat /\ i \in 1 .. n /\ t[i].attempt = a /\ a > 0 /\ a \in Nat
  BY RunBegins DEF RunIs, Track
<1>2. Matched(pos) = {k \in 1 .. n : Shows(r, t, k)}
  BY MatchedFacts
<1> SUFFICES ASSUME B # {} PROVE pos[j] # 1
  BY DEF LastPlace
<1>3. B \in SUBSET Int /\ n \in Int /\ \A k \in B : k <= n
  BY <1>1, <1>2
<1>4. j \in B /\ \A k \in B : k <= j
  <2> HIDE DEF B
  <2> QED
    BY <1>3, GreatestFacts
<1>5. j \in 1 .. n /\ j < i /\ Shows(r, t, j)
  BY <1>2, <1>4
<1>6. pos[j] = pl[j]
  <2> HIDE DEF j
  <2> QED
    BY <1>5 DEF PosOf
<1> DEFINE k == i - 1
<1> HIDE DEF j, B, pos
<1>7. k \in 1 .. n /\ j <= k /\ k < i /\ i \in 2 .. n
  BY <1>1, <1>5 DEF i
<1>8. t[k].attempt # a
  <2>1. ~(i <= k)
    BY <1>1, <1>7
  <2> QED
    BY <1>7, <2>1 DEF RunIs, i
<1> HIDE DEF k
<1>9. /\ RowIs(r, t, pl, st, k) /\ RowIs(r, t, pl, st, j) /\ InOrder(r, t, pl, st, j, k)
  BY <1>5, <1>7, RowFacts, OrderFacts
<1>10. t[k].attempt > 0
  <2>1. t[j].attempt > 0 /\ t[j].attempt \in Nat /\ t[k].attempt \in Nat /\ t[j].attempt <= t[k].attempt
    BY <1>5, <1>9 DEF Shows, RowIs, InOrder
  <2> QED
    BY <2>1
<1>11. pl[k] > 1 + Tolerance
  BY <1>1, <1>7, <1>8, <1>10 DEF FarEnough, k, i
<1>12. PICK l \in 1 .. k : t[l].attempt = t[k].attempt /\ t[l].place = pl[k]
  BY <1>7, SeenFacts DEF Seen
<1>13. l \in 1 .. n /\ l < i /\ t[l].place > 0
  <2>1. l \in 1 .. n /\ l < i
    BY <1>1, <1>7
  <2>2. pl[k] \in Int
    BY <1>7 DEF Track
  <2> QED
    BY <1>11, <1>12, <2>1, <2>2 DEF Tolerance
<1>14. Shows(r, t, l) /\ pl[l] = pl[k]
  BY <1>12, <1>13, PlaceShows
<1>15. l <= j
  BY <1>2, <1>4, <1>13, <1>14 DEF B
<1>16. t[j].attempt = t[k].attempt /\ pl[l] <= pl[j]
  <2>1. InOrder(r, t, pl, st, l, j)
    BY <1>5, <1>13, <1>15, OrderFacts
  <2>2. t[l].attempt <= t[j].attempt /\ t[j].attempt <= t[k].attempt
    BY <1>9, <2>1 DEF InOrder
  <2>3. t[j].attempt \in Nat /\ t[k].attempt \in Nat
    BY <1>9 DEF RowIs
  <2>4. t[j].attempt = t[k].attempt
    BY <1>12, <2>2, <2>3
  <2> QED
    BY <1>12, <2>1, <2>4 DEF InOrder
<1>17. pl[j] \in Int /\ pl[k] \in Int
  BY <1>5, <1>7 DEF Track
<1>18. pl[j] # 1
  BY <1>11, <1>14, <1>16, <1>17 DEF Tolerance
<1> QED
  BY <1>6, <1>18

(* Where the program always gets on, the run is all of the attempt and the machine
   works in it all the time. *)
LEMMA WorkedThrough ==
    ASSUME NEW n, NEW r, NEW t, NEW pl, NEW st, Track(n, r, t, pl, st), FarEnough(n, t, pl),
           NEW x, NEW a, RunIs(n, r, t, x, a),
           \A j \in 1 .. n : t[j].attempt = a => t[j].place > 0
    PROVE  /\ x.first .. x.last = {j \in 1 .. n : t[j].attempt = a}
           /\ x.first .. x.last \subseteq Active(r, PosOf(n, r, t, pl))
           /\ \A i \in x.first + 1 .. x.last : r[i].at - r[i - 1].at <= MergeGap
<1> DEFINE pos == PosOf(n, r, t, pl)
<1>1. n \in Nat /\ x.first \in 1 .. n /\ x.last \in 1 .. n /\ DOMAIN r = 1 .. n /\ DOMAIN pos = 1 .. n
  BY DEF RunIs, Track, PosOf
<1>2. \A j \in x.first .. x.last : j \in 1 .. n /\ t[j].attempt = a
  BY RunBegins
<1>3. \A j \in x.first .. x.last : Shows(r, t, j) /\ t[j].place = pl[j] /\ t[j].place > 0
  BY <1>2, PlaceShows
<1>4. x.first .. x.last = {j \in 1 .. n : t[j].attempt = a}
  <2>1. ASSUME NEW j \in 1 .. n, t[j].attempt = a
        PROVE  j \in x.first .. x.last
    <3>1. Shows(r, t, j)
      BY <2>1, PlaceShows
    <3>2. x.first <= j /\ j <= x.last
      BY <2>1, <3>1 DEF RunIs
    <3> QED
      BY <1>1, <3>2
  <2> QED
    BY <1>2, <2>1
<1>5. Matched(pos) = {k \in 1 .. n : Shows(r, t, k)}
  BY MatchedFacts
<1>6. \A j \in x.first .. x.last : j \in Matched(pos) /\ pos[j] = pl[j]
  <2> TAKE j \in x.first .. x.last
  <2>1. j \in 1 .. n /\ Shows(r, t, j)
    BY <1>2, <1>3
  <2>2. pos[j] = pl[j]
    BY <2>1 DEF PosOf
  <2> HIDE DEF pos
  <2> QED
    BY <1>5, <2>1, <2>2
<1>7. ASSUME NEW i \in x.first + 1 .. x.last
      PROVE  /\ i \in x.first .. x.last /\ i - 1 \in x.first .. x.last
             /\ pl[i] \in {pl[i - 1] + 1, pl[i - 1] + 2} /\ r[i].at = r[i - 1].at + 2
  <2>1. i \in x.first .. x.last /\ i - 1 \in x.first .. x.last /\ i - 1 > 0
    BY <1>1
  <2>2. /\ IsNext(i - 1, r, t, pl, st, r[i], t[i], pl[i], st[i])
        /\ t[i].attempt = a /\ t[i - 1].attempt = a /\ a > 0 /\ a \in Nat /\ t[i].place > 0
    BY <1>2, <1>3, <2>1 DEF Track, RunIs
  <2>3. ~Waited(i - 1, r[i], t[i], pl[i], st[i]) /\ ~Started(i - 1, t, r[i], t[i], pl[i], st[i])
    BY <2>1, <2>2 DEF Waited, Started
  <2>4. ~Stood(i - 1, pl, r[i], t[i], pl[i]) /\ ~Probed(i - 1, pl, r[i], t[i], pl[i])
    BY <2>2 DEF Stood, Probed
  <2>5. Went(i - 1, r, pl, r[i], t[i], pl[i])
    BY <2>2, <2>3, <2>4 DEF IsNext, GoesOn
  <2> QED
    BY <2>1, <2>5 DEF Went
<1>8. \A i \in x.first + 1 .. x.last : r[i].at - r[i - 1].at <= MergeGap
  <2> TAKE i \in x.first + 1 .. x.last
  <2>1. r[i].at = r[i - 1].at + 2 /\ r[i - 1].at \in Nat
    BY <1>2, <1>7, RowFacts DEF RowIs
  <2> QED
    BY <2>1 DEF MergeGap
<1>9. ASSUME NEW i \in x.first .. x.last PROVE pos[i] # LastPlace(pos, i)
  <2>1. CASE i = x.first
    <3>1. pos[i] = 1
      BY <1>6, <2>1, RunBegins
    <3> QED
      BY <2>1, <3>1, LastPlaceBefore
  <2>2. CASE i # x.first
    <3>1. i \in x.first + 1 .. x.last
      BY <1>1, <2>2
    <3> DEFINE B == {j \in Matched(pos) : j < i}
    <3>2. i - 1 \in x.first .. x.last /\ i - 1 \in Matched(pos) /\ pos[i - 1] = pl[i - 1] /\ i \in Int
      BY <1>1, <1>6, <1>7, <3>1
    <3> HIDE DEF pos
    <3>3. B \in SUBSET Int /\ B # {} /\ i - 1 \in B /\ \A k \in B : k <= i - 1
      BY <1>5, <3>2
    <3>4. i - 1 \in Int
      BY <3>2
    <3>5. Greatest(B) \in B /\ \A k \in B : k <= Greatest(B)
      <4> HIDE DEF B
      <4> QED
        BY <3>3, <3>4, GreatestFacts
    <3>6. Greatest(B) = i - 1
      <4>1. Greatest(B) <= i - 1 /\ i - 1 <= Greatest(B) /\ Greatest(B) \in Int
        BY <3>3, <3>5
      <4> HIDE DEF B
      <4> QED
        BY <3>4, <4>1
    <3>7. LastPlace(pos, i) = pl[i - 1]
      BY <3>2, <3>3, <3>6 DEF LastPlace
    <3>8. pl[i - 1] \in Int /\ pl[i] # pl[i - 1]
      <4>1. i - 1 \in 1 .. n
        BY <1>2, <3>2
      <4>2. pl[i - 1] \in Int
        BY <4>1 DEF Track
      <4> QED
        BY <1>7, <3>1, <4>2
    <3> QED
      BY <1>6, <3>7, <3>8
  <2> QED
    BY <2>1, <2>2
<1>10. \A i \in x.first .. x.last : r[i].at \in Int
  BY <1>2, RowFacts DEF RowIs
<1> HIDE DEF pos
<1>11. x.first .. x.last \subseteq Active(r, pos)
  BY <1>1, <1>6, <1>9, <1>10, ActiveFacts
<1> QED
  BY <1>4, <1>8, <1>11 DEF pos

(* The blocks an attempt went through are those seen in its run. *)
LEMMA MilledFacts ==
    ASSUME MachineTypes, NEW a PROVE Milled(a) = MilledIn(Len(rows), truth, a)
<1>1. DOMAIN truth = 1 .. Len(rows)
  BY DEF MachineTypes
<1> QED
  BY <1>1 DEF Milled, MilledIn, Rows

(* A recording of attempts of a program that can be told. *)
Told(n, pl, st) ==
    /\ MachineTypes /\ Recognisable /\ RestartsSeen
    /\ n = Len(rows) /\ n > 0
    /\ Track(n, rows, truth, pl, st)

(* What is known of it. *)
LEMMA ToldFacts ==
    ASSUME NEW n, NEW pl, NEW st, Told(n, pl, st)
    PROVE  /\ n \in Nat /\ DOMAIN rows = 1 .. n /\ DOMAIN truth = 1 .. n
           /\ FarEnough(n, truth, pl)
           /\ Attempt = truth[n].attempt /\ Attempt \in Nat
           /\ Positions(rows, WithNc) = PosOf(n, rows, truth, pl)
           /\ Clock = rows[n].at
<1>1. n \in Nat /\ DOMAIN rows = 1 .. n /\ DOMAIN truth = 1 .. n /\ n \in 1 .. n
  BY DEF Told, MachineTypes
<1>2. FarEnough(n, truth, pl)
  BY RestartsSeenFacts DEF Told
<1>3. Attempt = truth[n].attempt /\ Clock = rows[n].at
  BY NowFacts DEF Told
<1>4. Attempt \in Nat
  BY <1>1, <1>3, RowFacts DEF Told, RowIs
<1>5. Positions(rows, WithNc) = PosOf(n, rows, truth, pl)
  BY PositionsFacts DEF Told
<1> QED
  BY <1>1, <1>2, <1>3, <1>4, <1>5

(* The runs found in the recording. *)
LEMMA RunsTold ==
    ASSUME NEW n, NEW pl, NEW st, Told(n, pl, st)
    PROVE  /\ \A a \in 1 .. Attempt : \E x \in Runs(Positions(rows, WithNc)) : RunIs(n, rows, truth, x, a)
           /\ \A x \in Runs(Positions(rows, WithNc)) : \E a \in 1 .. Attempt : RunIs(n, rows, truth, x, a)
           /\ \A x, a : RunIs(n, rows, truth, x, a) => SeenIn(x, Positions(rows, WithNc), WithNc) = Milled(a)
<1>1. ASSUME NEW a \in 1 .. Attempt
      PROVE  \E x \in Runs(Positions(rows, WithNc)) : RunIs(n, rows, truth, x, a)
  BY <1>1, ToldFacts, AttemptIsRun DEF Told
<1>2. ASSUME NEW x \in Runs(Positions(rows, WithNc))
      PROVE  \E a \in 1 .. Attempt : RunIs(n, rows, truth, x, a)
  <2>1. PICK a : RunIs(n, rows, truth, x, a)
    BY ToldFacts, RunsFacts DEF Told
  <2>2. x.first \in 1 .. n /\ a \in Nat /\ a > 0 /\ truth[x.first].attempt = a
    BY <2>1, RunBegins DEF RunIs, Told
  <2>3. n \in 1 .. n /\ x.first <= n
    BY <2>2, ToldFacts DEF Told
  <2>4. a <= truth[n].attempt
    BY <2>2, <2>3, OrderFacts DEF InOrder, Told
  <2>5. a \in 1 .. Attempt
    BY <2>2, <2>4, ToldFacts
  <2> QED
    BY <2>1, <2>5
<1>3. ASSUME NEW x, NEW a, RunIs(n, rows, truth, x, a)
      PROVE  SeenIn(x, Positions(rows, WithNc), WithNc) = Milled(a)
  <2>1. Milled(a) = MilledIn(n, truth, a)
    BY MilledFacts DEF Told
  <2>2. SeenIn(x, PosOf(n, rows, truth, pl), WithNc) = MilledIn(n, truth, a)
    BY <1>3, SeenInFacts DEF Told
  <2> QED
    BY <2>1, <2>2, ToldFacts
<1> QED
  BY <1>1, <1>2, <1>3

(* The window lies in the run of an attempt, if that one is chosen. *)
LEMMA WindowIn ==
    ASSUME NEW n, NEW pl, NEW st, Told(n, pl, st), NEW s, NEW e, NEW x, NEW a,
           x \in Runs(Positions(rows, WithNc)), RunIs(n, rows, truth, x, a), Quarter(a),
           BestRun(rows, Positions(rows, WithNc), WithNc, HintsOf(rows, s, e)) = x
    PROVE  IsAttempt(a, Detect(rows, WithNc, s, e))
<1> DEFINE pos == Positions(rows, WithNc)
           w == Detect(rows, WithNc, s, e)
           active == Active(rows, pos)
           y == LargestSpan(rows, active, x.first, x.last)
<1>1. Covers(x, pos, WithNc)
  <2>1. SeenIn(x, pos, WithNc) = Milled(a) /\ Milled(a) \subseteq Motions(WithNc)
    BY RunsTold DEF Milled
  <2> QED
    BY <2>1 DEF Covers, Quarter
<1>2. w.first = y.first /\ w.last = y.last
  BY <1>1, DetectFacts
<1>3. /\ Timed(rows, x.first, x.last)
      /\ \A j \in x.first .. x.last : j \in 1 .. n /\ truth[j].attempt = a
  BY RunBegins DEF Told
<1>4. x.first \in Int /\ x.last \in Int
  BY <1>3 DEF Timed
<1> HIDE DEF w, active, pos
<1>5. \A i \in w.first .. w.last : truth[i].attempt = a
  <2>1. y.first \in x.first .. x.last /\ y.last \in x.first .. x.last
    BY <1>3, SpanIsInside
  <2> HIDE DEF y
  <2>2. w.first .. w.last \subseteq x.first .. x.last
    BY <1>2, <1>4, <2>1
  <2> QED
    BY <1>3, <2>2
<1>6. ASSUME \A i \in DOMAIN truth : truth[i].attempt = a => truth[i].place > 0
      PROVE  Rows(a) = w.first .. w.last
  <2>1. DOMAIN truth = 1 .. n /\ pos = PosOf(n, rows, truth, pl)
    BY ToldFacts DEF pos
  <2>2. Rows(a) = {j \in 1 .. n : truth[j].attempt = a}
    BY <1>6, <2>1 DEF Rows
  <2>3. /\ x.first .. x.last = {j \in 1 .. n : truth[j].attempt = a}
        /\ x.first .. x.last \subseteq active
        /\ \A i \in x.first + 1 .. x.last : rows[i].at - rows[i - 1].at <= MergeGap
    BY <1>6, <2>1, ToldFacts, WorkedThrough DEF Told, active
  <2>4. y = [first |-> x.first, last |-> x.last]
    BY <1>3, <2>3, SpanIsAll
  <2> HIDE DEF y
  <2> QED
    BY <1>2, <2>2, <2>3, <2>4
<1> QED
  BY <1>5, <1>6 DEF IsAttempt, w

(* The blocks of an attempt. *)
LEMMA MilledCount ==
    ASSUME NEW a
    PROVE  /\ Milled(a) \subseteq Motions(WithNc) /\ IsFiniteSet(Motions(WithNc))
           /\ Cardinality(Milled(a)) \in Nat /\ Cardinality(Motions(WithNc)) \in Nat
           /\ Milled(a) # Motions(WithNc) => Cardinality(Milled(a)) < Cardinality(Motions(WithNc))
<1>1. Milled(a) \subseteq Motions(WithNc)
  BY DEF Milled
<1>2. IsFiniteSet(Motions(WithNc))
  <2>1. Motions(WithNc) \subseteq 1 .. Len(Blocks) /\ Len(Blocks) \in Nat
    BY BlocksFacts DEF Motions, WithNc
  <2>2. IsFiniteSet(1 .. Len(Blocks))
    BY <2>1, FS_Interval
  <2> QED
    BY <2>1, <2>2, FS_Subset
<1>3. IsFiniteSet(Milled(a))
  BY <1>1, <1>2, FS_Subset
<1>4. Milled(a) # Motions(WithNc) => Cardinality(Milled(a)) < Cardinality(Motions(WithNc))
  <2>1. Cardinality(Milled(a)) \in Nat /\ Cardinality(Motions(WithNc)) \in Nat
    BY <1>2, <1>3, FS_CardinalityType
  <2>2. /\ Cardinality(Milled(a)) <= Cardinality(Motions(WithNc))
        /\ Cardinality(Milled(a)) = Cardinality(Motions(WithNc)) => Milled(a) = Motions(WithNc)
    BY <1>1, <1>2, FS_Subset
  <2> QED
    BY <2>1, <2>2
<1> QED
  BY <1>1, <1>2, <1>3, <1>4, FS_CardinalityType

(* The attempt that alone went through the whole program is found. *)
LEMMA WholeIsChosen ==
    ASSUME NEW n, NEW pl, NEW st, Told(n, pl, st), NEW a \in 1 .. Attempt,
           {b \in 1 .. Attempt : Whole(b)} = {a}
    PROVE  IsAttempt(a, Detect(rows, WithNc, NoTime, NoTime))
<1> DEFINE pos == Positions(rows, WithNc)
<1>1. PICK x \in Runs(pos) : RunIs(n, rows, truth, x, a)
  BY RunsTold
<1>2. Milled(a) = Motions(WithNc)
  BY DEF Whole
<1>3. Quarter(a)
  <2>1. Motions(WithNc) # {}
    BY DEF Told, Recognisable
  <2>2. 4 * Cardinality(Motions(WithNc)) >= Cardinality(Motions(WithNc))
    BY MilledCount
  <2> QED
    BY <1>2, <2>1, <2>2 DEF Quarter
<1>4. ASSUME NEW y \in Runs(pos), y # x
      PROVE  Preferred(x, y, rows, pos, {})
  <2>1. PICK b \in 1 .. Attempt : RunIs(n, rows, truth, y, b)
    BY RunsTold
  <2>2. b # a
    BY <1>1, <1>4, <2>1, RunIsOne
  <2>3. Milled(b) # Motions(WithNc)
    BY <2>2 DEF Whole
  <2>4. SeenIn(x, pos, WithNc) = Motions(WithNc) /\ SeenIn(y, pos, WithNc) = Milled(b)
    BY <1>1, <1>2, <2>1, RunsTold
  <2>5. Cardinality(SeenIn(y, pos, WithNc)) < Cardinality(SeenIn(x, pos, WithNc))
    BY <2>3, <2>4, MilledCount
  <2>6. Cardinality(SeenIn(y, pos, WithNc)) \in Nat /\ Cardinality(SeenIn(x, pos, WithNc)) \in Nat
    BY SeenCount
  <2>7. ~Met(x, rows, {}) /\ ~Met(y, rows, {})
    BY DEF Met
  <2> HIDE DEF pos
  <2> QED
    BY <2>5, <2>6, <2>7 DEF Preferred
<1> HIDE DEF pos
<1>5. BestRun(rows, pos, WithNc, {}) = x
  BY <1>4, BestRunFacts
<1>6. HintsOf(rows, NoTime, NoTime) = {}
  BY NoHint
<1> QED
  BY <1>1, <1>3, <1>5, <1>6, WindowIn DEF pos

(* For every program that can be told from its recording, and every recording of
   attempts whose restarts can be told, the window is found in the attempt that
   alone went through the whole program; it is all of that attempt if the machine
   did not stand still in it. *)
THEOREM FinishedAttemptsAreFound ==
    ASSUME Recognisable PROVE Spec => []FinishedAttemptIsFound
<1>1. ASSUME MachineInv PROVE FinishedAttemptIsFound
  <2> SUFFICES ASSUME filed, RestartsSeen, NEW a \in 1 .. Attempt,
                      {b \in 1 .. Attempt : Whole(b)} = {a}
               PROVE  IsAttempt(a, Detect(rows, WithNc, NoTime, NoTime))
    BY DEF FinishedAttemptIsFound
  <2>1. PICK pl, st : Track(Len(rows), rows, truth, pl, st)
    BY <1>1 DEF MachineInv, Recorded
  <2>2. MachineTypes /\ Len(rows) \in Nat /\ Len(truth) = Len(rows) /\ Attempt > 0
    BY <1>1 DEF MachineInv, MachineTypes, FiledFirst
  <2>3. Len(rows) # 0
    BY <2>2 DEF Attempt, MachineTypes
  <2>4. Told(Len(rows), pl, st)
    BY <2>1, <2>2, <2>3 DEF Told
  <2> QED
    BY <2>4, WholeIsChosen
<1> QED
  BY <1>1, MachineInvariant, PTL

----------------------------------------------------------------------------
(* The times the metadata name.                                           *)

(* How long two spans of time overlap. *)
LEMMA OverlapFacts ==
    ASSUME NEW s \in Int, NEW e \in Int, NEW u \in Int, NEW v \in Int
    PROVE  Overlap(s, e, u, v) = (IF e <= v THEN e ELSE v) - (IF s >= u THEN s ELSE u)
  BY PairFacts DEF Overlap

(* Times that are z hours late lie in a recording that is shorter than an hour
   when they are moved by z hours, and with no other number of hours. *)
LEMMA AlignHintFacts ==
    ASSUME NEW u \in Int, NEW v \in Int, NEW s \in Int, NEW e \in Int, NEW z \in 1 .. MaxHours,
           u <= s, s < e, e <= v, v - u < Hour
    PROVE  AlignHint(u, v, s + z * Hour, e + z * Hour) = [start |-> s, end |-> e, shift |-> z]
<1> DEFINE S == s + z * Hour
           E == e + z * Hour
           over(h) == Overlap(S - h * Hour, (IF E = NoTime THEN S ELSE E) - h * Hour, u, v)
           hours == (-MaxHours .. MaxHours) \ {0}
           B == {h \in hours : \A g \in hours : over(h) >= over(g)}
           best == Least(B)
           shift == IF over(0) > 0 \/ over(best) <= 0 THEN 0 ELSE best
<1>1. S \in Int /\ E \in Int /\ S # NoTime /\ E # NoTime
  <2>1. S \in Int /\ E \in Int
    BY DEF Hour
  <2> QED
    BY <2>1, ProgramAssumption
<1>2. ASSUME NEW h \in Int PROVE over(h) \in Int /\ (over(h) > 0 <=> h = z)
  <2> DEFINE p == S - h * Hour
             q == E - h * Hour
  <2>1. p \in Int /\ q \in Int /\ p = s + 3600 * (z - h) /\ q = e + 3600 * (z - h)
    BY <1>1 DEF Hour
  <2>2. over(h) = Overlap(p, q, u, v)
    BY <1>1
  <2> HIDE DEF p, q, over
  <2>3. over(h) = (IF q <= v THEN q ELSE v) - (IF p >= u THEN p ELSE u)
    BY <2>1, <2>2, OverlapFacts
  <2>4. z - h = 0 \/ z - h >= 1 \/ z - h <= -1
    OBVIOUS
  <2> QED
    BY <2>1, <2>3, <2>4 DEF Hour
<1>3. z \in hours /\ 0 \in Int /\ \A h \in hours : h \in Int
  BY DEF MaxHours
<1> HIDE DEF over, hours
<1>4. over(0) <= 0
  <2>1. z # 0 /\ over(0) \in Int /\ ~(over(0) > 0)
    BY <1>2, <1>3 DEF hours
  <2> QED
    BY <2>1
<1>5. B = {z}
  <2>1. ASSUME NEW g \in hours PROVE over(z) >= over(g)
    <3>1. over(z) > 0 /\ over(z) \in Int /\ over(g) \in Int
      BY <1>2, <1>3
    <3>2. g = z \/ ~(over(g) > 0)
      BY <1>2, <1>3
    <3> QED
      BY <3>1, <3>2
  <2>2. ASSUME NEW h \in hours, over(h) >= over(z) PROVE h = z
    <3>1. over(z) > 0 /\ over(z) \in Int /\ over(h) \in Int
      BY <1>2, <1>3
    <3> QED
      BY <1>2, <1>3, <2>2, <3>1
  <2> QED
    BY <1>3, <2>1, <2>2
<1>6. best = z
  BY <1>5 DEF Least
<1>7. over(z) > 0 /\ over(z) \in Int
  BY <1>2, <1>3
<1> HIDE DEF best
<1>8. shift = z
  <2>1. over(0) \in Int
    BY <1>2
  <2> QED
    BY <1>4, <1>6, <1>7, <2>1
<1>9. AlignHint(u, v, S, E) = [start |-> S - shift * Hour, end |-> E - shift * Hour, shift |-> shift]
  BY <1>1 DEF AlignHint, over, hours, best
<1> HIDE DEF shift
<1>10. S - z * Hour = s /\ E - z * Hour = e
  BY DEF Hour
<1> QED
  BY <1>8, <1>9, <1>10

(* When the attempt of a run got on first and last. *)
LEMMA TimesFacts ==
    ASSUME NEW n, NEW pl, NEW st, Told(n, pl, st), NEW x, NEW a, RunIs(n, rows, truth, x, a)
    PROVE  \E g \in 1 .. n :
              /\ truth[g].attempt = a /\ x.first <= g /\ g <= x.last
              /\ Times(a) = [start |-> Local(rows[x.first].at), end |-> Local(rows[g].at)]
<1>1. n \in Nat /\ DOMAIN truth = 1 .. n /\ Track(n, rows, truth, pl, st)
  BY ToldFacts DEF Told
<1>2. x.first \in 1 .. n /\ truth[x.first].attempt = a /\ truth[x.first].place = 1
  BY <1>1, RunBegins DEF RunIs
<1>3. Rows(a) \in SUBSET Int /\ x.first \in Rows(a) /\ n \in Int /\ \A i \in Rows(a) : i <= n
  BY <1>1, <1>2 DEF Rows
<1>4. \A i \in Rows(a) : i \in 1 .. n /\ truth[i].attempt = a /\ truth[i].place > 0
  BY <1>1 DEF Rows
<1>5. ASSUME NEW i \in Rows(a) PROVE x.first <= i /\ i <= x.last
  <2>1. Shows(rows, truth, i)
    BY <1>1, <1>4, PlaceShows
  <2> QED
    BY <1>4, <2>1 DEF RunIs
<1>6. Rows(a) # {} /\ x.first \in Int
  BY <1>2, <1>3
<1>7. Least(Rows(a)) \in Rows(a) /\ \A y \in Rows(a) : Least(Rows(a)) <= y
  BY <1>3, <1>5, <1>6, LeastFacts
<1>8. Greatest(Rows(a)) \in Rows(a)
  BY <1>3, <1>6, GreatestFacts
<1>9. Least(Rows(a)) = x.first
  <2>1. Least(Rows(a)) <= x.first /\ x.first <= Least(Rows(a)) /\ Least(Rows(a)) \in Int
    BY <1>3, <1>5, <1>7
  <2> QED
    BY <1>6, <2>1
<1> DEFINE g == Greatest(Rows(a))
<1>10. Times(a) = [start |-> Local(rows[x.first].at), end |-> Local(rows[g].at)]
  BY <1>9 DEF Times
<1>11. g \in 1 .. n /\ truth[g].attempt = a /\ x.first <= g /\ g <= x.last
  BY <1>4, <1>5, <1>8
<1> QED
  BY <1>10, <1>11

(* Only the run of the attempt that is named meets its times. *)
LEMMA OnlyItsRunMeets ==
    ASSUME NEW n, NEW pl, NEW st, Told(n, pl, st), NEW x, NEW a, RunIs(n, rows, truth, x, a),
           NEW g \in 1 .. n, truth[g].attempt = a, x.first <= g, g <= x.last,
           rows[x.first].at < rows[g].at, NEW y, NEW b, RunIs(n, rows, truth, y, b)
    PROVE  Met(y, rows, {[start |-> rows[x.first].at, end |-> rows[g].at]}) <=> b = a
<1> DEFINE s == rows[x.first].at
           e == rows[g].at
           p == rows[y.first].at
           q == rows[y.last].at
<1>1. n \in Nat /\ Track(n, rows, truth, pl, st)
  BY ToldFacts DEF Told
<1>2. x.first \in 1 .. n /\ y.first \in 1 .. n /\ y.last \in 1 .. n /\ y.first <= y.last
      /\ a \in Nat /\ b \in Nat
  BY DEF RunIs
<1>3. \A i \in 1 .. n : rows[i].at \in Nat /\ truth[i].attempt \in Nat
  BY <1>1, RowFacts DEF RowIs
<1>4. s \in Int /\ e \in Int /\ p \in Int /\ q \in Int /\ s < e
  BY <1>2, <1>3
<1>5. Met(y, rows, {[start |-> s, end |-> e]}) <=> Overlap(p, q, s, e) > 0
  <2>1. \A h \in {[start |-> s, end |-> e]} : h.start = s /\ h.end = e
    OBVIOUS
  <2>2. [start |-> s, end |-> e] \in {[start |-> s, end |-> e]}
    OBVIOUS
  <2> HIDE DEF s, e
  <2> QED
    BY <2>1, <2>2 DEF Met
<1>6. truth[x.first].attempt = a /\ truth[y.first].attempt = b /\ truth[y.last].attempt = b
  <2>1. y.first \in y.first .. y.last /\ y.last \in y.first .. y.last
    BY <1>2
  <2> QED
    BY <1>1, <2>1, RunBegins
<1>7. \A j, i \in 1 .. n : j <= i => truth[j].attempt <= truth[i].attempt /\ rows[j].at <= rows[i].at
  BY <1>1, OrderFacts DEF InOrder
<1>8. Overlap(p, q, s, e) = (IF q <= e THEN q ELSE e) - (IF p >= s THEN p ELSE s)
  <2> HIDE DEF p, q, s, e
  <2> QED
    BY <1>4, OverlapFacts
<1>9. CASE b = a
  <2>1. y = x
    BY <1>9, RunIsOne
  <2>2. p = s /\ e <= q
    <3>1. rows[g].at <= rows[x.last].at
      BY <1>2, <1>7, <2>1
    <3> QED
      BY <2>1, <3>1
  <2>3. Overlap(p, q, s, e) > 0 /\ b = a
    <3> HIDE DEF p, q, s, e
    <3> QED
      BY <1>4, <1>8, <1>9, <2>2
  <2> QED
    BY <1>5, <2>3
<1>10. CASE b < a
  <2>1. ~(x.first <= y.last)
    <3> SUFFICES ASSUME x.first <= y.last PROVE FALSE
      OBVIOUS
    <3>1. truth[x.first].attempt <= truth[y.last].attempt
      BY <1>2, <1>7
    <3> QED
      BY <1>2, <1>6, <1>10, <3>1
  <2>2. y.last <= x.first
    BY <1>2, <2>1
  <2>3. q <= s
    BY <1>2, <1>7, <2>2
  <2>4. ~(Overlap(p, q, s, e) > 0) /\ b # a
    <3> HIDE DEF p, q, s, e
    <3> QED
      BY <1>2, <1>4, <1>8, <1>10, <2>3
  <2> QED
    BY <1>5, <2>4
<1>11. CASE b > a
  <2>1. ~(y.first <= g)
    <3> SUFFICES ASSUME y.first <= g PROVE FALSE
      OBVIOUS
    <3>1. truth[y.first].attempt <= truth[g].attempt
      BY <1>2, <1>7
    <3> QED
      BY <1>2, <1>6, <1>11, <3>1
  <2>2. g <= y.first
    BY <1>2, <2>1
  <2>3. e <= p
    BY <1>2, <1>7, <2>2
  <2>4. ~(Overlap(p, q, s, e) > 0) /\ b # a
    <3> HIDE DEF p, q, s, e
    <3> QED
      BY <1>2, <1>4, <1>8, <1>11, <2>3
  <2> QED
    BY <1>5, <2>4
<1> QED
  BY <1>2, <1>9, <1>10, <1>11

(* The times of an attempt that took time find it, if the recording is shorter than
   an hour and a quarter of the program was seen. *)
LEMMA NamedIsChosen ==
    ASSUME JobWindowAssumption, NEW n, NEW pl, NEW st, Told(n, pl, st), Clock < Hour,
           NEW a \in 1 .. Attempt, Times(a).start < Times(a).end, Quarter(a)
    PROVE  IsAttempt(a, Detect(rows, WithNc, Times(a).start, Times(a).end))
<1> DEFINE pos == Positions(rows, WithNc)
<1>1. PICK x \in Runs(pos) : RunIs(n, rows, truth, x, a)
  BY RunsTold
<1>2. PICK g \in 1 .. n : /\ truth[g].attempt = a /\ x.first <= g /\ g <= x.last
                          /\ Times(a) = [start |-> Local(rows[x.first].at), end |-> Local(rows[g].at)]
  BY <1>1, TimesFacts
<1> DEFINE s == rows[x.first].at
           e == rows[g].at
           hints == {[start |-> s, end |-> e]}
<1>3. /\ n \in Nat /\ n > 0 /\ Track(n, rows, truth, pl, st) /\ Len(rows) = n
      /\ x.first \in 1 .. n /\ Clock = rows[n].at
  BY <1>1, ToldFacts DEF Told, RunIs
<1>4. \A i \in 1 .. n : rows[i].at \in Nat
  BY <1>3, RowFacts DEF RowIs
<1>5. s \in Int /\ e \in Int /\ rows[1].at \in Nat /\ rows[n].at \in Nat
  BY <1>3, <1>4
<1>6. rows[1].at <= s /\ e <= rows[n].at
  <2>1. 1 \in 1 .. n /\ n \in 1 .. n /\ 1 <= x.first /\ g <= n
    BY <1>3
  <2> QED
    BY <1>3, <2>1, OrderFacts DEF InOrder
<1>7. Times(a).start = s + Zone * Hour /\ Times(a).end = e + Zone * Hour
  BY <1>2 DEF Local
<1>8. s < e
  <2>1. Zone \in Int
    BY DEF JobWindowAssumption
  <2> HIDE DEF s, e
  <2> QED
    BY <1>5, <1>7, <2>1 DEF Hour
<1>9. HintsOf(rows, Times(a).start, Times(a).end) = hints
  <2> DEFINE u == rows[1].at
             v == rows[n].at
             hint == HintOf(rows, Times(a).start, Times(a).end)
  <2>1. Zone \in 1 .. MaxHours
    BY DEF JobWindowAssumption
  <2>2. v - u < Hour
    BY <1>3, <1>5 DEF Hour
  <2>3. hint = AlignHint(u, v, s + Zone * Hour, e + Zone * Hour)
    BY <1>3, <1>7 DEF HintOf
  <2>4. Overlap(s, e, u, v) > 0
    <3> HIDE DEF s, e, u, v
    <3>1. u \in Int /\ v \in Int
      BY <1>5 DEF u, v
    <3>2. Overlap(s, e, u, v) = (IF e <= v THEN e ELSE v) - (IF s >= u THEN s ELSE u)
      BY <1>5, <3>1, OverlapFacts
    <3>3. u <= s /\ e <= v
      BY <1>6 DEF u, v
    <3> QED
      BY <1>5, <1>8, <3>1, <3>2, <3>3
  <2>5. u \in Int /\ v \in Int /\ u <= s /\ e <= v
    BY <1>5, <1>6
  <2> HIDE DEF s, e, u, v, hint
  <2>6. hint = [start |-> s, end |-> e, shift |-> Zone]
    BY <1>5, <1>8, <2>1, <2>2, <2>3, <2>5, AlignHintFacts
  <2>7. hint.start = s /\ hint.end = e /\ s # NoTime /\ e # NoTime
    BY <1>5, <2>6, ProgramAssumption
  <2>8. Usable(rows, Times(a).start, Times(a).end)
    BY <1>3, <2>4, <2>7 DEF Usable, hint, u, v
  <2> QED
    BY <2>7, <2>8 DEF HintsOf, hint
<1> HIDE DEF pos
<1>10. ASSUME NEW y \in Runs(pos), y # x
       PROVE  Preferred(x, y, rows, pos, hints)
  <2>1. PICK b : RunIs(n, rows, truth, y, b)
    BY RunsTold DEF pos
  <2>2. b # a
    BY <1>1, <1>10, <2>1, RunIsOne
  <2>3. Met(x, rows, hints) /\ ~Met(y, rows, hints)
    BY <1>1, <1>2, <1>8, <2>1, <2>2, OnlyItsRunMeets
  <2> QED
    BY <2>3 DEF Preferred
<1> HIDE DEF hints
<1>11. BestRun(rows, pos, WithNc, hints) = x
  BY <1>10, BestRunFacts
<1> QED
  BY <1>1, <1>9, <1>11, WindowIn DEF pos

----------------------------------------------------------------------------
(* The window of a Job whose metadata name an attempt.                    *)

(* A conversion that knew the NC program and both times of the metadata looked for
   them in the recording as it is; its window is the one it found. *)
BothNamed == said.start # NoTime /\ said.end # NoTime /\ ~overtaken
LookedFor == Detect(rows, WithNc, said.start, said.end)
KnewBoth(known) == {"nc", "xml"} \subseteq known

KnownIsRead ==
    /\ conv # None => conv.known \subseteq read
    /\ window # None => window.known \subseteq read
FoundAsNamed ==
    BothNamed =>
        /\ conv # None /\ KnewBoth(conv.known) => conv.window = LookedFor
        /\ window # None /\ KnewBoth(window.known) =>
              window.first = LookedFor.first /\ window.last = LookedFor.last

FoundInv == KnownIsRead /\ FoundAsNamed

(* Steps that read no metadata, find no window and leave the rows alone keep it. *)
LEMMA FoundOn ==
    ASSUME FoundInv, UNCHANGED <<rows, said, overtaken, window>>, read \subseteq read',
           conv' \in {conv, None}
    PROVE  FoundInv'
<1>1. KnownIsRead'
  BY DEF FoundInv, KnownIsRead
<1>2. LookedFor' = LookedFor /\ BothNamed' = BothNamed
  BY DEF LookedFor, BothNamed
<1>3. FoundAsNamed'
  BY <1>2 DEF FoundInv, FoundAsNamed, KnewBoth
<1> QED
  BY <1>1, <1>3 DEF FoundInv

(* While nothing is read, nothing is known. *)
LEMMA FoundNothing ==
    ASSUME FoundInv, read = {}, UNCHANGED <<stored, conv>> PROVE FoundInv'
<1>1. UNCHANGED <<read, window, conv>>
  BY DEF stored
<1>2. KnownIsRead'
  BY <1>1 DEF FoundInv, KnownIsRead
<1>3. FoundAsNamed'
  BY <1>1 DEF FoundInv, KnownIsRead, FoundAsNamed, KnewBoth
<1> QED
  BY <1>2, <1>3 DEF FoundInv

(* Reading a file keeps it. *)
LEMMA FoundRead ==
    ASSUME FoundInv, ReadTdms \/ ReadNc \/ ReadLog \/ ReadXml PROVE FoundInv'
<1>1. UNCHANGED <<rows, window, conv>> /\ read \subseteq read'
  BY DEF ReadTdms, ReadNc, ReadLog, ReadXml, Read, machine
<1>2. CASE ReadTdms \/ ReadNc \/ ReadLog
  <2>1. UNCHANGED <<said, overtaken>>
    BY <1>2 DEF ReadTdms, ReadNc, ReadLog
  <2> QED
    BY <1>1, <2>1, FoundOn
<1>3. CASE ReadXml
  <2>1. "xml" \notin read
    BY <1>3 DEF ReadXml, Read
  <2>2. KnownIsRead'
    BY <1>1 DEF FoundInv, KnownIsRead
  <2>3. FoundAsNamed'
    BY <1>1, <2>1 DEF FoundInv, KnownIsRead, FoundAsNamed, KnewBoth
  <2> QED
    BY <2>2, <2>3 DEF FoundInv
<1> QED
  BY <1>2, <1>3

(* The Job that is loaded has the times that were named, and its program is known. *)
LEMMA FoundLoad == ASSUME IInv, FoundInv, Load PROVE FoundInv'
<1> DEFINE w == Detect(rows, Nc, job.start, job.end)
<1>1. conv' = [job |-> job, window |-> w, known |-> read] /\ UNCHANGED <<rows, read, window, said, overtaken>>
  BY DEF Load, machine, stored
<1> HIDE DEF w
<1>2. KnownIsRead'
  BY <1>1 DEF FoundInv, KnownIsRead
<1>3. LookedFor' = LookedFor /\ BothNamed' = BothNamed
  BY <1>1 DEF LookedFor, BothNamed
<1>4. ASSUME BothNamed, KnewBoth(read) PROVE w = LookedFor
  <2>1. "nc" \in read /\ "xml" \in read
    BY <1>4 DEF KnewBoth
  <2>2. job.start = said.start /\ job.end = said.end
    BY <1>4, <2>1 DEF IInv, XmlStands, BothNamed
  <2>3. name = Program
    BY <2>1 DEF IInv, NameIsRead, NameOf
  <2>4. Nc = WithNc
    BY <2>1, <2>3 DEF Nc, NcKnown, WithNc
  <2> QED
    BY <2>2, <2>4 DEF w, LookedFor
<1>5. FoundAsNamed'
  <2>1. conv'.window = w /\ conv'.known = read
    BY <1>1
  <2> QED
    BY <1>1, <1>3, <1>4, <2>1 DEF FoundInv, FoundAsNamed, KnewBoth
<1> QED
  BY <1>2, <1>5 DEF FoundInv

(* The window that is stored is the one that was found. *)
LEMMA FoundStore == ASSUME FoundInv, Store PROVE FoundInv'
<1>1. /\ conv # None /\ conv' = None /\ window' = Window(conv.window, conv.known)
      /\ UNCHANGED <<rows, read, said, overtaken>>
  BY DEF Store, machine
<1>2. /\ window'.first = conv.window.first /\ window'.last = conv.window.last
      /\ window'.known = conv.known
  BY <1>1 DEF Window
<1>3. KnownIsRead'
  BY <1>1, <1>2 DEF FoundInv, KnownIsRead
<1>4. LookedFor' = LookedFor /\ BothNamed' = BothNamed
  BY <1>1 DEF LookedFor, BothNamed
<1>5. FoundAsNamed'
  BY <1>1, <1>2, <1>4 DEF FoundInv, FoundAsNamed, KnewBoth
<1> QED
  BY <1>3, <1>5 DEF FoundInv

(* Every step keeps it. *)
LEMMA FoundStep == ASSUME IInv, MachineInv, FoundInv, [Next]_vars PROVE FoundInv'
<1>1. CASE Machine
  <2>1. ~filed /\ UNCHANGED <<stored, conv>>
    BY <1>1 DEF Machine, RunsOn, Misses, Starts, Stands, Waits, Probes, EndOfRecording, Record
  <2>2. read = {}
    BY <2>1 DEF MachineInv, FiledFirst
  <2> QED
    BY <2>1, <2>2, FoundNothing
<1>2. CASE Worker
  <2>1. CASE LoadAll \/ CommitAll
    <3>1. UNCHANGED <<rows, said, overtaken, window, read, conv>>
      BY <2>1 DEF LoadAll, CommitAll, machine, stored
    <3> QED
      BY <3>1, FoundOn
  <2> QED
    BY <1>2, <2>1, FoundRead DEF Worker
<1>3. CASE Load \/ Store
  BY <1>3, FoundLoad, FoundStore
<1>4. CASE GiveUp \/ LoseParquet \/ UNCHANGED vars
  <2>1. UNCHANGED <<rows, said, overtaken, window, read>> /\ conv' \in {conv, None}
    BY <1>4 DEF GiveUp, LoseParquet, vars, machine, stored
  <2> QED
    BY <2>1, FoundOn
<1> QED
  BY <1>1, <1>2, <1>3, <1>4 DEF Next

(* A window that was found with the NC program and both times of the metadata is
   what is found for them in the recording, whatever was read, converted, given up
   and filled in meanwhile. *)
THEOREM WindowsAreFoundAsNamed == Spec => []FoundInv
<1>1. Init => FoundInv
  BY DEF Init, FoundInv, KnownIsRead, FoundAsNamed
<1>2. IInv /\ MachineInv /\ FoundInv /\ [Next]_vars => FoundInv'
  BY FoundStep
<1> QED
  BY <1>1, <1>2, Invariant, MachineInvariant, PTL DEF Spec

(* For every program that can be told from its recording, every recording shorter
   than an hour whose restarts can be told, and any order in which the files of the
   Job are read, converted and filled in: the window found with the NC program and
   the times of the metadata lies in the attempt they name, whichever attempt went
   further. *)
THEOREM NamedAttemptsAreFound ==
    ASSUME Recognisable PROVE Spec => []NamedAttemptIsFound
<1>1. ASSUME MachineInv, FoundInv PROVE NamedAttemptIsFound
  <2> SUFFICES ASSUME window # None, {"nc", "xml"} \subseteq window.known, ~overtaken,
                      RestartsSeen, Clock < Hour, NEW a \in 1 .. Attempt,
                      Times(a).start < Times(a).end, said = Times(a), Quarter(a)
               PROVE  \A i \in window.first .. window.last : truth[i].attempt = a
    BY DEF NamedAttemptIsFound
  <2>1. "nc" \in read
    BY <1>1 DEF FoundInv, KnownIsRead
  <2>2. MachineTypes /\ Len(rows) \in Nat /\ Len(truth) = Len(rows) /\ Attempt > 0
    BY <1>1, <2>1 DEF MachineInv, MachineTypes, FiledFirst
  <2>3. Len(rows) # 0
    BY <2>2 DEF Attempt, MachineTypes
  <2>4. PICK pl, st : Track(Len(rows), rows, truth, pl, st)
    BY <1>1 DEF MachineInv, Recorded
  <2>5. Told(Len(rows), pl, st)
    BY <2>2, <2>3, <2>4 DEF Told
  <2> DEFINE w == Detect(rows, WithNc, Times(a).start, Times(a).end)
  <2>6. IsAttempt(a, w)
    BY <2>5, NamedIsChosen, JobWindowAssumption
  <2>7. said.start # NoTime /\ said.end # NoTime
    <3>1. \E x : RunIs(Len(rows), rows, truth, x, a)
      BY <2>5, RunsTold
    <3>2. PICK i, j \in 1 .. Len(rows) : Times(a) = [start |-> Local(rows[i].at), end |-> Local(rows[j].at)]
      <4>1. PICK x : RunIs(Len(rows), rows, truth, x, a)
        BY <3>1
      <4>2. x.first \in 1 .. Len(rows)
        BY <4>1 DEF RunIs
      <4> QED
        BY <2>5, <4>1, <4>2, TimesFacts
    <3>3. rows[i].at \in Nat /\ rows[j].at \in Nat /\ Zone \in Nat
      BY <2>4, RowFacts, JobWindowAssumption DEF RowIs
    <3>4. Local(rows[i].at) \in Int /\ Local(rows[j].at) \in Int
      BY <3>3 DEF Local, Hour
    <3> QED
      BY <3>2, <3>4, ProgramAssumption
  <2>8. window.first = w.first /\ window.last = w.last
    BY <1>1, <2>7 DEF FoundInv, FoundAsNamed, BothNamed, KnewBoth, LookedFor
  <2> HIDE DEF w
  <2> QED
    BY <2>6, <2>8 DEF IsAttempt
<1> QED
  BY <1>1, MachineInvariant, WindowsAreFoundAsNamed, PTL

----------------------------------------------------------------------------
(* Any recording and any program: places, restarts and runs.              *)

(* Every row has a place, or none, whatever the program and the recording are. *)
LEMMA PositionsAreNumbers ==
    ASSUME NEW n \in Nat, NEW r, DOMAIN r = 1 .. n, NEW nc, NEW m \in Nat, DOMAIN nc.blocks = 1 .. m
    PROVE  Positions(r, nc) \in [1 .. n -> Int]
<1> DEFINE places == BlockPlaces(r, nc)
           S == [pos : Int, cursor : Int]
           z == [pos |-> 0, cursor |-> 1]
           step == [i \in 1 .. n |-> [b \in S |-> PlaceStep(places, i, b)]]
<1>1. DOMAIN places = 1 .. n /\ Len(places) = n /\ \A i \in 1 .. n : places[i] \subseteq 1 .. m
  <2>1. places = [i \in 1 .. n |->
                    {k \in 1 .. m : i \in Compared(r, nc) /\ nc.blocks[k] = r[i].block}]
    BY DEF BlockPlaces
  <2>2. DOMAIN places = 1 .. n /\ \A i \in 1 .. n : places[i] \subseteq 1 .. m
    BY <2>1
  <2>3. places \in Seq(SUBSET (1 .. m))
    BY <2>1
  <2> HIDE DEF places
  <2> QED
    BY <2>2, <2>3
<1> HIDE DEF places
<1>2. ASSUME NEW i \in 1 .. n, NEW b \in S PROVE PlaceStep(places, i, b) \in S
  <2> DEFINE P == places[i]
             c == b.cursor
             ahead == {k \in P : k >= c}
  <2>1. P \in SUBSET Int /\ c \in Int /\ \A k \in P : 1 <= k
    BY <1>1
  <2>2. P # {} => NextPlace(P, c) \in Int
    <3>1. ahead \in SUBSET Int /\ \A k \in ahead : 1 <= k
      BY <2>1
    <3> HIDE DEF P, c
    <3>2. ahead # {} => Least(ahead) \in ahead
      <4> HIDE DEF ahead
      <4> QED
        BY <3>1, LeastFacts
    <3>3. P # {} => Least(P) \in P
      BY <2>1, LeastFacts
    <3> QED
      BY <2>1, <3>1, <3>2, <3>3 DEF NextPlace
  <2>3. PlaceStep(places, i, b) = IF P = {} THEN [pos |-> 0, cursor |-> c]
                                  ELSE [pos |-> NextPlace(P, c), cursor |-> NextPlace(P, c)]
    BY DEF PlaceStep
  <2> HIDE DEF P, c
  <2> QED
    BY <2>1, <2>2, <2>3
<1>3. step \in [1 .. n -> [S -> S]] /\ \A i \in 1 .. n, b \in S : step[i][b] = PlaceStep(places, i, b)
  <2> HIDE DEF S
  <2> QED
    BY <1>2
<1>4. z \in S
  OBVIOUS
<1> HIDE DEF step, S, z
<1>5. PICK f : IsWalk(f, n, S, z, step)
  <2>1. Steps(n, S, z, step)
    BY <1>3, <1>4 DEF Steps
  <2> QED
    BY <2>1, WalkExists
<1>6. f \in [0 .. n -> S] /\ f[0] = z
  BY <1>5 DEF IsWalk
<1>7. \A i \in 1 .. n : f[i] = PlaceStep(places, i, f[i - 1])
  <2> TAKE i \in 1 .. n
  <2>1. f[i - 1] \in S /\ f[i] = step[i][f[i - 1]]
    <3>1. i - 1 \in 0 .. n
      OBVIOUS
    <3> QED
      BY <1>5, <1>6, <3>1 DEF IsWalk
  <2> QED
    BY <1>3, <2>1
<1>8. IsFunction(f, 0 .. n)
  BY <1>6 DEF IsFunction
<1>9. Walk(places) = f
  BY <1>1, <1>6, <1>7, <1>8, WalkFacts DEF z
<1>10. \A i \in 1 .. n : f[i].pos \in Int
  BY <1>6 DEF S
<1>11. Positions(r, nc) = [i \in 1 .. n |-> f[i].pos]
  BY <1>9 DEF Positions, places
<1> QED
  BY <1>10, <1>11

(* The restarts found in any sequence of places. *)
LEMMA RestartsAreRows ==
    ASSUME NEW n \in Nat, NEW pos, pos \in [1 .. n -> Int]
    PROVE  \A i \in 1 .. n : pos[i] > 0 => Restarts(pos)[i].start \in 1 .. i
<1> DEFINE S == [start : 0 .. n, top : Int]
           z == [start |-> 0, top |-> 0]
           step == [i \in 1 .. n |-> [b \in S |-> RestartStep(pos, i, b)]]
<1>1. Len(pos) = n
  <2>1. pos \in Seq(Int)
    OBVIOUS
  <2> QED
    BY <2>1
<1>2. ASSUME NEW i \in 1 .. n, NEW b \in S
      PROVE  /\ RestartStep(pos, i, b) \in S
             /\ RestartStep(pos, i, b).start \in {b.start, i}
             /\ pos[i] > 0 => RestartStep(pos, i, b).start # 0
  <2>1. b = [start |-> b.start, top |-> b.top] /\ b.start \in 0 .. n /\ b.top \in Int /\ pos[i] \in Int
    OBVIOUS
  <2>2. Greatest({b.top, pos[i]}) \in Int
    BY <2>1, PairFacts
  <2> DEFINE y == Greatest({b.top, pos[i]})
  <2>3. RestartStep(pos, i, b) = IF pos[i] = 0 THEN b
                                 ELSE IF b.start = 0 \/ pos[i] < b.top - Tolerance
                                      THEN [start |-> i, top |-> pos[i]]
                                      ELSE [start |-> b.start, top |-> y]
    BY <2>1 DEF RestartStep
  <2> HIDE DEF y
  <2> QED
    BY <2>1, <2>2, <2>3 DEF y
<1>3. step \in [1 .. n -> [S -> S]] /\ \A i \in 1 .. n, b \in S : step[i][b] = RestartStep(pos, i, b)
  <2> HIDE DEF S
  <2> QED
    BY <1>2
<1>4. z \in S
  OBVIOUS
<1> HIDE DEF step, S, z
<1>5. PICK f : IsWalk(f, n, S, z, step)
  <2>1. Steps(n, S, z, step)
    BY <1>3, <1>4 DEF Steps
  <2> QED
    BY <2>1, WalkExists
<1>6. f \in [0 .. n -> S] /\ f[0] = z
  BY <1>5 DEF IsWalk
<1>7. \A i \in 1 .. n : f[i - 1] \in S /\ f[i] = RestartStep(pos, i, f[i - 1])
  <2> TAKE i \in 1 .. n
  <2>1. f[i - 1] \in S /\ f[i] = step[i][f[i - 1]]
    <3>1. i - 1 \in 0 .. n
      OBVIOUS
    <3> QED
      BY <1>5, <1>6, <3>1 DEF IsWalk
  <2> QED
    BY <1>3, <2>1
<1>8. IsFunction(f, 0 .. n)
  BY <1>6 DEF IsFunction
<1>9. Restarts(pos) = f
  BY <1>1, <1>6, <1>7, <1>8, RestartsWalk DEF z
<1> DEFINE G == {i \in 0 .. n : f[i].start \in 0 .. i}
<1>10. \A i \in 0 .. n : i \in G
  <2>1. 0 \in G
    BY <1>6 DEF z
  <2>2. ASSUME NEW i \in 1 .. n, i - 1 \in G PROVE i \in G
    <3>1. f[i].start \in {f[i - 1].start, i}
      BY <1>2, <1>7
    <3>2. f[i - 1].start \in 0 .. i - 1
      BY <2>2
    <3>3. f[i].start \in 0 .. i /\ i \in 0 .. n
      BY <3>1, <3>2
    <3> QED
      BY <3>3
  <2> HIDE DEF G
  <2> QED
    BY <2>1, <2>2, Upwards
<1>11. ASSUME NEW i \in 1 .. n, pos[i] > 0 PROVE f[i].start \in 1 .. i
  <2>1. f[i].start \in 0 .. i
    <3>1. i \in 0 .. n
      OBVIOUS
    <3>2. i \in G
      BY <1>10, <3>1
    <3> QED
      BY <3>2
  <2>2. f[i].start # 0
    <3>1. RestartStep(pos, i, f[i - 1]).start # 0
      BY <1>2, <1>7, <1>11
    <3> QED
      BY <1>7, <3>1
  <2> QED
    BY <2>1, <2>2
<1> QED
  BY <1>9, <1>11

(* The runs lie in the recording. *)
LEMMA RunsLieInside ==
    ASSUME NEW n \in Nat, NEW pos, pos \in [1 .. n -> Int], NEW x \in Runs(pos)
    PROVE  x = [first |-> x.first, last |-> x.last] /\ x.first \in 1 .. n /\ x.last \in 1 .. n
           /\ x.first <= x.last
<1> DEFINE M == Matched(pos)
           W(i) == Restarts(pos)[i].start
<1>1. M = {i \in 1 .. n : pos[i] > 0}
  BY DEF Matched
<1>2. \A i \in M : W(i) \in 1 .. i
  BY <1>1, RestartsAreRows
<1>3. PICK j \in M : x = [first |-> W(j), last |-> Greatest({i \in M : W(i) = W(j)})]
  BY DEF Runs
<1> HIDE DEF M, W
<1> DEFINE L == {i \in M : W(i) = W(j)}
<1>4. L \in SUBSET Int /\ L # {} /\ n \in Int /\ \A i \in L : i <= n
  BY <1>1
<1>5. Greatest(L) \in L
  <2> HIDE DEF L
  <2> QED
    BY <1>4, GreatestFacts
<1> DEFINE l == Greatest(L)
<1>6. l \in M /\ W(l) = W(j) /\ W(l) \in 1 .. l /\ l \in 1 .. n
  BY <1>1, <1>2, <1>5
<1> HIDE DEF L
<1>7. x.first = W(l) /\ x.last = l
  BY <1>3, <1>6 DEF L
<1> HIDE DEF l
<1>8. x = [first |-> x.first, last |-> x.last]
  BY <1>3
<1> QED
  BY <1>6, <1>7, <1>8

----------------------------------------------------------------------------
(* The best of any runs.                                                  *)

(* Those of a set that are highest by a measure K with an upper bound. *)
Highest(R, K) == {x \in R : \A y \in R : K[y] <= K[x]}

(* There is one, and the others are lower. *)
LEMMA HighestFacts ==
    ASSUME NEW R, R # {}, NEW K, NEW b \in Int, \A x \in R : K[x] \in Int /\ K[x] <= b
    PROVE  /\ Highest(R, K) # {} /\ Highest(R, K) \subseteq R
           /\ \A x \in Highest(R, K), q \in R :
                 IF q \in Highest(R, K) THEN K[q] = K[x] ELSE K[q] < K[x]
<1> DEFINE V == {K[x] : x \in R}
<1>1. V \in SUBSET Int /\ V # {} /\ \A v \in V : v <= b
  OBVIOUS
<1>2. Greatest(V) \in V /\ \A v \in V : v <= Greatest(V)
  <2> HIDE DEF V
  <2> QED
    BY <1>1, GreatestFacts
<1>3. PICK x \in R : K[x] = Greatest(V)
  BY <1>2
<1>4. x \in Highest(R, K)
  <2>1. \A y \in R : K[y] <= K[x]
    BY <1>2, <1>3
  <2> QED
    BY <2>1 DEF Highest
<1>5. ASSUME NEW y \in Highest(R, K), NEW q \in R
      PROVE  IF q \in Highest(R, K) THEN K[q] = K[y] ELSE K[q] < K[y]
  <2>1. K[q] \in Int /\ K[y] \in Int /\ K[q] <= K[y] /\ y \in R
    BY DEF Highest
  <2>2. CASE q \in Highest(R, K)
    <3>1. K[y] <= K[q]
      BY <2>1, <2>2 DEF Highest
    <3> QED
      BY <2>1, <2>2, <3>1
  <2>3. CASE q \notin Highest(R, K)
    <3>1. PICK z \in R : ~(K[z] <= K[q])
      BY <2>3 DEF Highest
    <3>2. K[z] <= K[y] /\ K[z] \in Int
      BY DEF Highest
    <3> QED
      BY <2>1, <2>3, <3>1, <3>2
  <2> QED
    BY <2>2, <2>3
<1> QED
  BY <1>4, <1>5 DEF Highest

(* One key is above another if it is higher in the first place in which they
   differ. *)
Higher(a, b) ==
    \/ a[1] > b[1]
    \/ a[1] = b[1] /\ a[2] > b[2]
    \/ a[1] = b[1] /\ a[2] = b[2] /\ a[3] > b[3]
    \/ a[1] = b[1] /\ a[2] = b[2] /\ a[3] = b[3] /\ a[4] > b[4]
(* It is above the other. *)
LEMMA HigherIsAbove ==
    ASSUME NEW a, NEW b, DOMAIN a = 1 .. 4, Higher(a, b) PROVE Above(a, b)
<1>1. 1 \in DOMAIN a /\ 2 \in DOMAIN a /\ 3 \in DOMAIN a /\ 4 \in DOMAIN a
  OBVIOUS
<1>2. CASE a[1] > b[1]
  <2>1. \A j \in 1 .. 1 - 1 : a[j] = b[j]
    OBVIOUS
  <2> QED
    BY <1>1, <1>2, <2>1 DEF Above
<1>3. CASE a[1] = b[1] /\ a[2] > b[2]
  <2>1. \A j \in 1 .. 2 - 1 : a[j] = b[j]
    BY <1>3
  <2> QED
    BY <1>1, <1>3, <2>1 DEF Above
<1>4. CASE a[1] = b[1] /\ a[2] = b[2] /\ a[3] > b[3]
  <2>1. \A j \in 1 .. 3 - 1 : a[j] = b[j]
    BY <1>4
  <2> QED
    BY <1>1, <1>4, <2>1 DEF Above
<1>5. CASE a[1] = b[1] /\ a[2] = b[2] /\ a[3] = b[3] /\ a[4] > b[4]
  <2>1. \A j \in 1 .. 4 - 1 : a[j] = b[j]
    BY <1>5
  <2> QED
    BY <1>1, <1>5, <2>1 DEF Above
<1> QED
  BY <1>2, <1>3, <1>4, <1>5 DEF Higher

(* One of the runs is always the best. *)
LEMMA BestRunExists ==
    ASSUME NEW n \in Nat, NEW pos, pos \in [1 .. n -> Int], Runs(pos) # {},
           NEW r, NEW hint, NEW nc, NEW m \in Nat, DOMAIN nc.blocks = 1 .. m
    PROVE  BestRun(r, pos, nc, hint) \in Runs(pos)
<1> DEFINE R == Runs(pos)
           key == [x \in R |-> RunKey(x, r, pos, nc, hint)]
           K1 == [x \in R |-> key[x][1]]
           K2 == [x \in R |-> key[x][2]]
           K3 == [x \in R |-> key[x][3]]
           K4 == [x \in R |-> key[x][4]]
           K5 == [x \in R |-> -x.first]
           M1 == Highest(R, K1)
           M2 == Highest(M1, K2)
           M3 == Highest(M2, K3)
           M4 == Highest(M3, K4)
           M5 == Highest(M4, K5)
           Best(x) == \A q \in R \ {x} : \/ Above(key[x], key[q])
                                         \/ key[x] = key[q] /\ x.first < q.first
<1>1. ASSUME NEW x \in R
      PROVE  /\ DOMAIN key[x] = 1 .. 4
             /\ key[x][1] \in Int /\ key[x][1] <= 1
             /\ key[x][2] \in Int /\ key[x][2] <= m
             /\ key[x][3] \in Int /\ key[x][3] <= 1
             /\ key[x][4] \in Int /\ key[x][4] <= n /\ key[x][4] = x.last - x.first
             /\ x.first \in 1 .. n /\ x.last \in 1 .. n
             /\ x = [first |-> x.first, last |-> x.last]
             /\ key[x] = <<key[x][1], key[x][2], key[x][3], key[x][4]>>
  <2> DEFINE A == IF hint # {} /\ \E h \in hint : Overlap(r[x.first].at, r[x.last].at, h.start, h.end) > 0
                  THEN 1 ELSE 0
             B == Cardinality(SeenIn(x, pos, nc))
             C == IF ReachedEnd(SeenIn(x, pos, nc), nc) THEN 1 ELSE 0
             D == x.last - x.first
  <2>1. key[x] = <<A, B, C, D>>
    BY DEF RunKey
  <2>2. B \in Int /\ B <= m
    <3>1. SeenIn(x, pos, nc) \subseteq 1 .. m
      BY DEF SeenIn, Motions
    <3>2. IsFiniteSet(1 .. m) /\ Cardinality(1 .. m) = m
      BY FS_Interval
    <3>3. IsFiniteSet(SeenIn(x, pos, nc)) /\ B <= m
      BY <3>1, <3>2, FS_Subset
    <3> QED
      BY <3>3, FS_CardinalityType
  <2>3. x = [first |-> x.first, last |-> x.last] /\ x.first \in 1 .. n /\ x.last \in 1 .. n
    BY RunsLieInside
  <2>4. A \in Int /\ A <= 1 /\ C \in Int /\ C <= 1
    OBVIOUS
  <2>5. D \in Int /\ D <= n
    BY <2>3
  <2>6. D = x.last - x.first
    OBVIOUS
  <2> HIDE DEF A, B, C, D, key, R
  <2>7. DOMAIN key[x] = 1 .. 4 /\ key[x][1] = A /\ key[x][2] = B /\ key[x][3] = C /\ key[x][4] = D
    BY <2>1
  <2> QED
    BY <2>1, <2>2, <2>3, <2>4, <2>5, <2>6, <2>7
<1>2. BestRun(r, pos, nc, hint) = CHOOSE x \in R : Best(x)
  BY DEF BestRun
<1> HIDE DEF R, key
<1>3. \A x \in R : /\ K1[x] = key[x][1] /\ K2[x] = key[x][2] /\ K3[x] = key[x][3]
                   /\ K4[x] = key[x][4] /\ K5[x] = -x.first
  OBVIOUS
<1> HIDE DEF K1, K2, K3, K4, K5, M1, M2, M3, M4, M5
<1>4. R # {} /\ m \in Int /\ n \in Int
  BY DEF R
<1>5. M1 # {} /\ M1 \subseteq R /\ \A x \in M1, q \in R : IF q \in M1 THEN K1[q] = K1[x] ELSE K1[q] < K1[x]
  <2>1. \A x \in R : K1[x] \in Int /\ K1[x] <= 1
    BY <1>1, <1>3
  <2> QED
    BY <1>4, <2>1, HighestFacts DEF M1
<1>6. M2 # {} /\ M2 \subseteq M1 /\ \A x \in M2, q \in M1 : IF q \in M2 THEN K2[q] = K2[x] ELSE K2[q] < K2[x]
  <2>1. \A x \in M1 : K2[x] \in Int /\ K2[x] <= m
    BY <1>1, <1>3, <1>5
  <2> QED
    BY <1>4, <1>5, <2>1, HighestFacts DEF M2
<1>7. M3 # {} /\ M3 \subseteq M2 /\ \A x \in M3, q \in M2 : IF q \in M3 THEN K3[q] = K3[x] ELSE K3[q] < K3[x]
  <2>1. \A x \in M2 : K3[x] \in Int /\ K3[x] <= 1
    BY <1>1, <1>3, <1>5, <1>6
  <2> QED
    BY <1>6, <2>1, HighestFacts DEF M3
<1>8. M4 # {} /\ M4 \subseteq M3 /\ \A x \in M4, q \in M3 : IF q \in M4 THEN K4[q] = K4[x] ELSE K4[q] < K4[x]
  <2>1. \A x \in M3 : K4[x] \in Int /\ K4[x] <= n
    BY <1>1, <1>3, <1>5, <1>6, <1>7
  <2> QED
    BY <1>4, <1>7, <2>1, HighestFacts DEF M4
<1>9. M5 # {} /\ M5 \subseteq M4 /\ \A x \in M5, q \in M4 : IF q \in M5 THEN K5[q] = K5[x] ELSE K5[q] < K5[x]
  <2>1. \A x \in M4 : K5[x] \in Int /\ K5[x] <= 0
    <3> TAKE x \in M4
    <3>1. x \in R
      BY <1>5, <1>6, <1>7, <1>8
    <3>2. x.first \in 1 .. n /\ K5[x] = -x.first
      BY <1>1, <1>3, <3>1
    <3> QED
      BY <3>2
  <2> QED
    BY <1>8, <2>1, HighestFacts DEF M5
<1>10. PICK x : x \in M5 /\ x \in M4 /\ x \in M3 /\ x \in M2 /\ x \in M1 /\ x \in R
  BY <1>5, <1>6, <1>7, <1>8, <1>9
<1>11. ASSUME NEW q \in R, q # x
       PROVE  Above(key[x], key[q]) \/ (key[x] = key[q] /\ x.first < q.first)
  <2>1. \/ K1[q] < K1[x]
        \/ K1[q] = K1[x] /\ K2[q] < K2[x]
        \/ K1[q] = K1[x] /\ K2[q] = K2[x] /\ K3[q] < K3[x]
        \/ K1[q] = K1[x] /\ K2[q] = K2[x] /\ K3[q] = K3[x] /\ K4[q] < K4[x]
        \/ /\ K1[q] = K1[x] /\ K2[q] = K2[x] /\ K3[q] = K3[x] /\ K4[q] = K4[x]
           /\ K5[q] = K5[x] \/ K5[q] < K5[x]
    BY <1>5, <1>6, <1>7, <1>8, <1>9, <1>10
  <2>2. /\ K1[q] = key[q][1] /\ K2[q] = key[q][2] /\ K3[q] = key[q][3] /\ K4[q] = key[q][4]
        /\ K5[q] = -q.first
        /\ K1[x] = key[x][1] /\ K2[x] = key[x][2] /\ K3[x] = key[x][3] /\ K4[x] = key[x][4]
        /\ K5[x] = -x.first
    BY <1>3, <1>10
  <2>3. /\ \A k \in 1 .. 4 : key[q][k] \in Int /\ key[x][k] \in Int
        /\ DOMAIN key[x] = 1 .. 4
    <3>1. DOMAIN key[x] = 1 .. 4
      BY <1>1, <1>10
    <3>2. ASSUME NEW k \in 1 .. 4 PROVE key[q][k] \in Int /\ key[x][k] \in Int
      <4>1. k = 1 \/ k = 2 \/ k = 3 \/ k = 4
        OBVIOUS
      <4> QED
        BY <1>1, <1>10, <4>1
    <3> QED
      BY <3>1, <3>2
  <2>4. CASE Higher(key[x], key[q])
    BY <2>3, <2>4, HigherIsAbove
  <2>5. CASE ~Higher(key[x], key[q])
    <3>1. /\ key[q][1] = key[x][1] /\ key[q][2] = key[x][2] /\ key[q][3] = key[x][3]
          /\ key[q][4] = key[x][4] /\ (-q.first = -x.first \/ -q.first < -x.first)
      BY <2>1, <2>2, <2>3, <2>5 DEF Higher
    <3>2. key[x] = key[q]
      BY <1>1, <1>10, <3>1
    <3>3. /\ x.first \in Int /\ q.first \in Int /\ x.last \in Int /\ q.last \in Int
          /\ x.last - x.first = q.last - q.first
          /\ x = [first |-> x.first, last |-> x.last] /\ q = [first |-> q.first, last |-> q.last]
      BY <1>1, <1>10, <3>1
    <3>4. x.first # q.first
      <4> SUFFICES ASSUME x.first = q.first PROVE FALSE
        OBVIOUS
      <4>1. x.last = q.last
        BY <3>3
      <4> QED
        BY <1>11, <3>3, <4>1
    <3>5. x.first < q.first
      BY <3>1, <3>3, <3>4
    <3> QED
      BY <3>2, <3>5
  <2> QED
    BY <2>4, <2>5
<1>12. x \in R /\ Best(x)
  BY <1>10, <1>11
<1> HIDE DEF Best
<1>13. (CHOOSE y \in R : Best(y)) \in R
  BY <1>12
<1> QED
  BY <1>2, <1>13 DEF R

----------------------------------------------------------------------------
(* The window lies in the recording.                                      *)

(* A recording of n rows, one after the other in time. *)
IsRecording(r, n) == n \in Nat /\ n > 0 /\ DOMAIN r = 1 .. n /\ Len(r) = n /\ Timed(r, 1, n)

(* A program that has blocks, or none. *)
IsProgram(nc) == nc = NoProgram \/ \E m \in Nat : DOMAIN nc.blocks = 1 .. m

(* A window of a recording. *)
LiesIn(w, r, n) ==
    /\ w.first \in 1 .. n /\ w.last \in 1 .. n /\ w.first <= w.last
    /\ w.start = r[w.first].at /\ w.end = r[w.last].at

(* Whatever the program is and which times are looked for, a window is found that
   lies in the recording. *)
LEMMA DetectLiesIn ==
    ASSUME NEW r, NEW n, IsRecording(r, n), NEW nc, IsProgram(nc), NEW s, NEW e
    PROVE  LiesIn(Detect(r, nc, s, e), r, n)
<1> DEFINE hint == HintOf(r, s, e)
           usable == Usable(r, s, e)
           hints == HintsOf(r, s, e)
           pos == IF nc = NoProgram THEN [i \in DOMAIN r |-> 0] ELSE Positions(r, nc)
           active == Active(r, pos)
           run == BestRun(r, pos, nc, hints)
           span == LargestSpan(r, active, 1, n)
           work == LargestSpan(r, active, run.first, run.last)
           inHint == {i \in DOMAIN r : usable /\ r[i].at \in hint.start .. hint.end}
           named == [first |-> Least(inHint), last |-> Greatest(inHint)]
           all == [first |-> 1, last |-> n]
           Found(method, x) ==
               [first |-> x.first, last |-> x.last, method |-> method, shift |-> hint.shift,
                ref |-> IF nc = NoProgram THEN NoProgram ELSE nc.name,
                start |-> r[x.first].at, end |-> r[x.last].at]
           ByProgram == nc # NoProgram /\ Runs(pos) # {} /\ Covers(run, pos, nc)
           ByWork == active # {} /\ span.last > span.first
           ByTimes == Cardinality(inHint) >= 2
           In(x) == x.first \in 1 .. n /\ x.last \in 1 .. n /\ x.first <= x.last
<1>1. n \in Nat /\ n > 0 /\ DOMAIN r = 1 .. n /\ Len(r) = n /\ Timed(r, 1, n)
  BY DEF IsRecording
<1>2. Detect(r, nc, s, e) =
        IF ByProgram THEN Found("nc_block", work)
        ELSE IF ByWork THEN Found("activity", span)
        ELSE IF ByTimes THEN Found("hint", named)
        ELSE Found("full", all)
  BY <1>1 DEF Detect, HintsOf, Usable, HintOf
<1>3. ASSUME ByProgram PROVE In(work)
  <2>1. PICK m \in Nat : DOMAIN nc.blocks = 1 .. m
    BY <1>3 DEF IsProgram
  <2>2. pos = Positions(r, nc)
    BY <1>3
  <2>3. pos \in [1 .. n -> Int]
    <3>1. Positions(r, nc) \in [1 .. n -> Int]
      BY <1>1, <2>1, PositionsAreNumbers
    <3> HIDE DEF pos
    <3> QED
      BY <2>2, <3>1
  <2>4. Runs(pos) # {}
    BY <1>3
  <2> HIDE DEF pos, hints
  <2>5. run \in Runs(pos)
    BY <1>1, <2>1, <2>3, <2>4, BestRunExists
  <2> HIDE DEF run
  <2>6. run.first \in 1 .. n /\ run.last \in 1 .. n /\ run.first <= run.last
    BY <1>1, <2>3, <2>5, RunsLieInside
  <2>7. Timed(r, run.first, run.last)
    <3>1. run.first .. run.last \subseteq 1 .. n
      BY <1>1, <2>6
    <3>2. run.first \in Int /\ run.last \in Int
      BY <2>6
    <3> QED
      BY <1>1, <2>6, <3>1, <3>2 DEF Timed
  <2>8. /\ work.first \in run.first .. run.last /\ work.last \in run.first .. run.last
        /\ work.first <= work.last
    BY <2>7, SpanIsInside
  <2> HIDE DEF work
  <2> QED
    BY <1>1, <2>6, <2>8
<1>4. In(span)
  <2> HIDE DEF active
  <2> QED
    BY <1>1, SpanIsInside
<1>5. ASSUME ByTimes PROVE In(named)
  <2>1. inHint \in SUBSET Int /\ inHint \subseteq 1 .. n /\ n \in Int /\ 1 \in Int
        /\ \A i \in inHint : 1 <= i /\ i <= n
    BY <1>1
  <2>2. inHint # {}
    <3> SUFFICES ASSUME inHint = {} PROVE FALSE
      OBVIOUS
    <3>1. Cardinality(inHint) = 0
      BY FS_EmptySet
    <3> QED
      BY <1>5, <3>1
  <2> HIDE DEF inHint
  <2>3. Least(inHint) \in inHint /\ \A y \in inHint : Least(inHint) <= y
    BY <2>1, <2>2, LeastFacts
  <2>4. Greatest(inHint) \in inHint
    BY <2>1, <2>2, GreatestFacts
  <2> QED
    BY <2>1, <2>3, <2>4
<1>6. In(all)
  BY <1>1
<1>7. ASSUME NEW x, NEW method, In(x) PROVE LiesIn(Found(method, x), r, n)
  BY <1>7 DEF LiesIn
<1> HIDE DEF In, Found, ByProgram, ByWork, ByTimes, work, span, named, all
<1> QED
  BY <1>2, <1>3, <1>4, <1>5, <1>6, <1>7

----------------------------------------------------------------------------
(* How alike two sequences of samples are.                                *)

(* A square is not negative. *)
LEMMA Square == \A x \in Int : x * x \in Int /\ x * x >= 0
  OBVIOUS

(* One number more in the inequality of Cauchy and Schwarz. *)
LEMMA OneMore ==
    ASSUME NEW m \in Nat, NEW q \in Int, NEW s \in Int, NEW x \in Int, q >= 0, m * q >= s * s
    PROVE  (m + 1) * (q + x * x) >= (s + x) * (s + x)
<1>1. (m + 1) * (q + x * x) = m * q + m * (x * x) + q + x * x
  OBVIOUS
<1>2. (s + x) * (s + x) = s * s + 2 * (s * x) + x * x
  OBVIOUS
<1>3. /\ m * q \in Int /\ m * (x * x) \in Int /\ x * x \in Int /\ s * s \in Int /\ s * x \in Int
  OBVIOUS
<1>4. q + m * (x * x) >= 2 * (s * x)
  <2>1. CASE m = 0
    <3>1. s * s <= 0
      BY <2>1
    <3>2. s = 0
      BY <3>1
    <3>3. s * x = 0 /\ m * (x * x) = 0
      BY <2>1, <3>2
    <3> QED
      BY <3>3
  <2>2. CASE m > 0
    <3> SUFFICES ASSUME q + m * (x * x) < 2 * (s * x) PROVE FALSE
      BY <1>3
    <3> DEFINE d == 2 * (s * x) - q - m * (x * x)
    <3>1. d \in Int /\ d > 0
      BY <1>3
    <3>2. (s - m * x) * (s - m * x) = s * s - 2 * (m * (s * x)) + m * (m * (x * x))
      OBVIOUS
    <3>3. m * d = 2 * (m * (s * x)) - m * q - m * (m * (x * x))
      OBVIOUS
    <3> HIDE DEF d
    <3>4. m * d > 0
      BY <2>2, <3>1
    <3>5. s - m * x \in Int
      OBVIOUS
    <3>6. (s - m * x) * (s - m * x) >= 0
      BY <3>5, Square
    <3>7. m * d \in Int /\ m * (s * x) \in Int /\ m * (m * (x * x)) \in Int
      BY <3>1, <1>3
    <3> QED
      BY <1>3, <3>2, <3>3, <3>4, <3>6, <3>7
  <2> QED
    BY <2>1, <2>2
<1> QED
  BY <1>1, <1>2, <1>3, <1>4

(* The variance of numbers is not negative. *)
LEMMA CovFacts ==
    ASSUME NEW n \in Nat, NEW f, f \in [1 .. n -> Int]
    PROVE  /\ Cov(f, f) \in Int /\ Cov(f, f) >= 0
           /\ \A g : g \in [1 .. n -> Int] => Cov(f, g) \in Int
<1>1. Len(f) = n /\ DOMAIN f = 1 .. n
  <2>1. f \in Seq(Int)
    OBVIOUS
  <2> QED
    BY <2>1
<1>2. ASSUME NEW g, g \in [1 .. n -> Int] PROVE Total(g) \in Int
  <2>1. Sums(g) \in [0 .. n -> Int] /\ Total(g) = Sums(g)[n]
    BY <1>2, SumsFacts
  <2> QED
    BY <2>1
<1>3. ASSUME NEW g, g \in [1 .. n -> Int] PROVE Cov(f, g) \in Int
  <2> DEFINE h == [k \in 1 .. n |-> f[k] * g[k]]
  <2>1. h \in [1 .. n -> Int]
    BY <1>3
  <2>2. Cov(f, g) = n * Total(h) - Total(f) * Total(g)
    BY <1>1 DEF Cov
  <2> HIDE DEF h
  <2>3. Total(h) \in Int /\ Total(f) \in Int /\ Total(g) \in Int
    BY <1>2, <1>3, <2>1
  <2> QED
    BY <2>2, <2>3
<1> DEFINE g == [k \in 1 .. n |-> f[k] * f[k]]
           S == Sums(f)
           Q == Sums(g)
<1>4. g \in [1 .. n -> Int] /\ \A k \in 1 .. n : g[k] = f[k] * f[k] /\ f[k] \in Int
  OBVIOUS
<1>5. Cov(f, f) = n * Total(g) - Total(f) * Total(f)
  BY <1>1 DEF Cov
<1> HIDE DEF g
<1>6. /\ S \in [0 .. n -> Int] /\ S[0] = 0 /\ Total(f) = S[n]
      /\ \A i \in 1 .. n : S[i] = S[i - 1] + f[i]
  BY SumsFacts
<1>7. /\ Q \in [0 .. n -> Int] /\ Q[0] = 0 /\ Total(g) = Q[n]
      /\ \A i \in 1 .. n : Q[i] = Q[i - 1] + g[i]
  BY <1>4, SumsFacts
<1> HIDE DEF S, Q
<1> DEFINE G == {i \in 0 .. n : Q[i] >= 0 /\ i * Q[i] >= S[i] * S[i]}
<1>8. \A i \in 0 .. n : i \in G
  <2>1. 0 \in G
    BY <1>6, <1>7
  <2>2. ASSUME NEW i \in 1 .. n, i - 1 \in G PROVE i \in G
    <3> DEFINE m == i - 1
               q == Q[m]
               s == S[m]
               x == f[i]
    <3>1. m \in Nat /\ m \in 0 .. n /\ q \in Int /\ s \in Int /\ x \in Int /\ i = m + 1 /\ i \in 0 .. n
      BY <1>4, <1>6, <1>7
    <3>2. q >= 0 /\ m * q >= s * s
      BY <2>2
    <3>3. Q[i] = q + x * x /\ S[i] = s + x
      BY <1>4, <1>6, <1>7
    <3> HIDE DEF m, q, s, x
    <3>4. (m + 1) * (q + x * x) >= (s + x) * (s + x)
      BY <3>1, <3>2, OneMore
    <3>5. x * x \in Int /\ x * x >= 0
      BY <3>1, Square
    <3>6. Q[i] >= 0
      BY <3>1, <3>2, <3>3, <3>5
    <3>7. i * Q[i] >= S[i] * S[i]
      BY <3>1, <3>3, <3>4
    <3> QED
      BY <3>1, <3>6, <3>7
  <2> HIDE DEF G
  <2> QED
    BY <2>1, <2>2, Upwards
<1>9. n * Q[n] >= S[n] * S[n] /\ n * Q[n] \in Int /\ S[n] * S[n] \in Int
  <2>1. n \in G
    BY <1>8
  <2>2. Q[n] \in Int /\ S[n] \in Int
    BY <1>6, <1>7
  <2> QED
    BY <2>1, <2>2
<1>10. Cov(f, f) \in Int /\ Cov(f, f) >= 0
  BY <1>5, <1>6, <1>7, <1>9
<1> QED
  BY <1>3, <1>10

(* What a correlation can be. *)
LEMMA FiftiethsFacts ==
    ASSUME NEW num \in Int, NEW den \in Int
    PROVE  /\ Fiftieths(num, den) \in Int /\ Fiftieths(num, den) <= 50
           /\ den = 0 => Fiftieths(num, den) = 0
           /\ num > 0 /\ den = num * num => Fiftieths(num, den) = 50
<1> DEFINE K == {k \in 0 .. 50 : k * k * den <= 2500 * num * num}
           size == Greatest(K)
<1>1. 0 \in K
  <2>1. num * num >= 0 /\ num * num \in Int
    BY Square
  <2>2. 0 * 0 * den = 0 /\ 2500 * num * num = 2500 * (num * num)
    OBVIOUS
  <2> QED
    BY <2>1, <2>2
<1>2. K \in SUBSET Int /\ K # {} /\ 50 \in Int /\ \A k \in K : k <= 50
  BY <1>1
<1>3. size \in K /\ \A k \in K : k <= size
  <2> HIDE DEF K
  <2> QED
    BY <1>2, GreatestFacts
<1>4. size \in 0 .. 50
  BY <1>3
<1>5. Fiftieths(num, den) = IF den = 0 THEN 0 ELSE IF num < 0 THEN -size ELSE size
  BY DEF Fiftieths
<1>6. ASSUME num > 0, den = num * num PROVE size = 50 /\ den # 0
  <2>1. 50 * 50 * den = 2500 * num * num
    BY <1>6
  <2>2. 2500 * num * num \in Int
    OBVIOUS
  <2>3. 50 \in K
    BY <2>1, <2>2
  <2>4. num * num > 0
    BY <1>6
  <2>5. 50 <= size
    BY <1>3, <2>3
  <2> HIDE DEF size, K
  <2> QED
    BY <1>4, <1>6, <2>4, <2>5
<1> HIDE DEF size, K
<1> QED
  BY <1>4, <1>5, <1>6

(* No two sequences are more alike than a sequence and itself, unless the sequence
   is constant: then it is like none. *)
LEMMA CorrelationFacts ==
    ASSUME NEW n \in Nat, NEW a, a \in [1 .. n -> Int]
    PROVE  /\ \A b : b \in [1 .. n -> Int] => Correlation(a, b) \in Int /\ Correlation(a, b) <= 50
           /\ \/ Correlation(a, a) = 50
              \/ \A b : b \in [1 .. n -> Int] => Correlation(a, b) = 0
<1>1. Cov(a, a) \in Int /\ Cov(a, a) >= 0
  BY CovFacts
<1>2. ASSUME NEW b, b \in [1 .. n -> Int]
      PROVE  /\ Correlation(a, b) \in Int /\ Correlation(a, b) <= 50
             /\ Cov(a, a) = 0 => Correlation(a, b) = 0
  <2>1. Cov(a, b) \in Int
    BY <1>2, CovFacts
  <2>2. Cov(b, b) \in Int
    BY <1>2, CovFacts
  <2> DEFINE num == Cov(a, b)
             den == Cov(a, a) * Cov(b, b)
  <2>3. den \in Int /\ (Cov(a, a) = 0 => den = 0)
    BY <1>1, <2>2
  <2>4. Correlation(a, b) = Fiftieths(num, den)
    BY DEF Correlation
  <2> HIDE DEF num, den
  <2> QED
    BY <2>1, <2>3, <2>4, FiftiethsFacts DEF num
<1>3. ASSUME Cov(a, a) > 0 PROVE Correlation(a, a) = 50
  <2> DEFINE num == Cov(a, a)
             den == Cov(a, a) * Cov(a, a)
  <2>1. num \in Int /\ den \in Int /\ num > 0 /\ den = num * num
    BY <1>1, <1>3
  <2>2. Correlation(a, a) = Fiftieths(num, den)
    BY DEF Correlation
  <2> HIDE DEF num, den
  <2> QED
    BY <2>1, <2>2, FiftiethsFacts
<1> QED
  BY <1>1, <1>2, <1>3

----------------------------------------------------------------------------
(* The lag of the DAQ's clock.                                            *)

(* The load at a time of the recording is a number. *)
LEMMA LoadFacts ==
    ASSUME NEW r, NEW n, IsRecording(r, n), NEW t \in Int, r[1].at <= t
    PROVE  LoadAt(r, t) \in Int
<1> DEFINE J == {j \in DOMAIN r : r[j].at <= t}
           i == Greatest(J)
           Share(j) == IF r[j].busy THEN 2 ELSE 0
<1>1. n \in Nat /\ n > 0 /\ DOMAIN r = 1 .. n /\ Len(r) = n /\ \A j \in 1 .. n : r[j].at \in Int
  BY DEF IsRecording, Timed
<1>2. J \in SUBSET Int /\ J # {} /\ n \in Int /\ \A j \in J : j <= n
  BY <1>1
<1>3. i \in J /\ \A j \in J : j <= i
  <2> HIDE DEF J
  <2> QED
    BY <1>2, GreatestFacts
<1>4. i \in 1 .. n /\ r[i].at <= t
  BY <1>1, <1>3
<1>5. i # n => i + 1 \in 1 .. n /\ ~(r[i + 1].at <= t)
  <2> SUFFICES ASSUME i # n PROVE i + 1 \in 1 .. n /\ ~(r[i + 1].at <= t)
    OBVIOUS
  <2> HIDE DEF i
  <2>1. i + 1 \in 1 .. n /\ ~(i + 1 <= i)
    BY <1>1, <1>4
  <2> QED
    BY <1>1, <1>3, <2>1
<1>6. \A j : Share(j) \in Int
  OBVIOUS
<1> DEFINE d == r[i + 1].at - r[i].at
           num == Share(i) * (r[i + 1].at - t) + Share(i + 1) * (t - r[i].at)
<1>7. LoadAt(r, t) = IF i = n THEN Share(i) ELSE num \div d
  BY <1>1 DEF LoadAt
<1> HIDE DEF i, Share
<1>8. i # n => d \in Int /\ d > 0 /\ num \in Int
  <2> SUFFICES ASSUME i # n PROVE d \in Int /\ d > 0 /\ num \in Int
    OBVIOUS
  <2>1. r[i].at \in Int /\ r[i + 1].at \in Int /\ r[i].at <= t /\ t < r[i + 1].at
    BY <1>1, <1>4, <1>5
  <2>2. Share(i) \in Int /\ Share(i + 1) \in Int
    BY <1>6
  <2> QED
    BY <2>1, <2>2
<1> HIDE DEF d, num
<1> QED
  BY <1>6, <1>7, <1>8

(* The samples that are compared are numbers. *)
LEMMA SamplesFacts ==
    ASSUME NEW r, NEW n, IsRecording(r, n), NEW lo \in Int, NEW hi \in Int, lo <= hi,
           NEW by \in Int, r[1].at <= lo + by
    PROVE  Samples(r, lo .. hi, by) \in [1 .. Cardinality(lo .. hi) -> Int]
<1> DEFINE grid == lo .. hi
           c == Cardinality(grid)
<1>1. grid \in SUBSET Int /\ grid # {} /\ \A g \in grid : lo <= g
  OBVIOUS
<1>2. Least(grid) \in grid
  <2> HIDE DEF grid
  <2> QED
    BY <1>1, LeastFacts
<1>3. Least(grid) \in Int /\ lo <= Least(grid)
  BY <1>1, <1>2
<1>4. c \in Nat
  BY FS_Interval, FS_CardinalityType
<1>5. r[1].at \in Int
  BY DEF IsRecording, Timed
<1> HIDE DEF grid, c
<1>6. ASSUME NEW k \in 1 .. c PROVE LoadAt(r, Least(grid) + k - 1 + by) \in Int
  <2> DEFINE t == Least(grid) + k - 1 + by
  <2>1. t \in Int /\ r[1].at <= t
    BY <1>3, <1>4, <1>5
  <2> HIDE DEF t
  <2>2. LoadAt(r, t) \in Int
    BY <2>1, LoadFacts
  <2> QED
    BY <2>2 DEF t
<1>7. Samples(r, grid, by) = [k \in 1 .. c |-> LoadAt(r, Least(grid) + k - 1 + by)]
  BY DEF Samples, c
<1>8. Samples(r, grid, by) \in [1 .. c -> Int]
  BY <1>6, <1>7
<1> QED
  BY <1>8 DEF grid, c

(* The seconds that are compared. *)
GridFrom(r, w, start) ==
    Greatest({w.start, start + Clamp(r, w.start - start - (Search + 2)) + Search})
GridTo(r, w, start) ==
    Least({w.end, start + Clamp(r, w.end - start + Search + 2) - 1 - Search}) - 1

(* An index that is kept within the samples. *)
LEMMA ClampFacts ==
    ASSUME NEW r, NEW n, IsRecording(r, n), NEW i \in Int
    PROVE  /\ Length(r) \in Int /\ Length(r) >= 1 /\ Length(r) = r[n].at - r[1].at + 1
           /\ Clamp(r, i) = IF i < 0 THEN 0 ELSE IF i <= Length(r) THEN i ELSE Length(r)
<1>1. r[1].at \in Int /\ r[n].at \in Int /\ r[1].at <= r[n].at /\ Len(r) = n
  <2>1. n \in Nat /\ 1 \in 1 .. n /\ n \in 1 .. n /\ 1 <= n
    BY DEF IsRecording
  <2> QED
    BY <2>1 DEF IsRecording, Timed
<1>2. Length(r) \in Int /\ Length(r) >= 1 /\ Length(r) = r[n].at - r[1].at + 1
  BY <1>1 DEF Length
<1> DEFINE g == Greatest({i, 0})
<1>3. g = IF i >= 0 THEN i ELSE 0
  BY PairFacts
<1>4. g \in Int
  BY <1>3
<1>5. Clamp(r, i) = Least({g, Length(r)})
  BY DEF Clamp
<1> HIDE DEF g
<1>6. Clamp(r, i) = IF g <= Length(r) THEN g ELSE Length(r)
  BY <1>2, <1>4, <1>5, PairFacts
<1> QED
  BY <1>2, <1>3, <1>6

(* They are seconds of the window, from which Search seconds can be looked back and
   forth in the samples. *)
LEMMA GridFacts ==
    ASSUME NEW r, NEW n, IsRecording(r, n), NEW w, LiesIn(w, r, n), NEW start \in Int
    PROVE  /\ GridFrom(r, w, start) \in Int /\ GridTo(r, w, start) \in Int
           /\ Grid(r, w, start) = GridFrom(r, w, start) .. GridTo(r, w, start)
           /\ r[1].at <= GridFrom(r, w, start) /\ start + Search <= GridFrom(r, w, start)
<1>1. n \in Nat /\ 1 \in 1 .. n /\ \A i \in 1 .. n : r[i].at \in Int /\ r[1].at <= r[i].at
  <2>1. n \in Nat /\ 1 \in 1 .. n /\ Timed(r, 1, n) /\ \A i \in 1 .. n : 1 <= i
    BY DEF IsRecording
  <2> QED
    BY <2>1 DEF Timed
<1>2. w.start \in Int /\ w.end \in Int /\ r[1].at \in Int /\ r[1].at <= w.start
  BY <1>1 DEF LiesIn
<1>3. Search \in Nat
  BY RecordingAssumption
<1> DEFINE i0 == Clamp(r, w.start - start - (Search + 2))
           i1 == Clamp(r, w.end - start + Search + 2)
<1>4. i0 \in Int /\ i0 >= 0
  <2> DEFINE i == w.start - start - (Search + 2)
  <2>1. i \in Int
    BY <1>2, <1>3
  <2> HIDE DEF i
  <2>2. /\ Length(r) \in Int /\ Length(r) >= 1
        /\ Clamp(r, i) = IF i < 0 THEN 0 ELSE IF i <= Length(r) THEN i ELSE Length(r)
    BY <2>1, ClampFacts
  <2>3. Clamp(r, i) \in Int /\ Clamp(r, i) >= 0
    BY <2>1, <2>2
  <2> QED
    BY <2>3 DEF i
<1>5. i1 \in Int
  <2> DEFINE i == w.end - start + Search + 2
  <2>1. i \in Int
    BY <1>2, <1>3
  <2> HIDE DEF i
  <2>2. /\ Length(r) \in Int /\ Length(r) >= 1
        /\ Clamp(r, i) = IF i < 0 THEN 0 ELSE IF i <= Length(r) THEN i ELSE Length(r)
    BY <2>1, ClampFacts
  <2>3. Clamp(r, i) \in Int
    BY <2>1, <2>2
  <2> QED
    BY <2>3 DEF i
<1>6. Grid(r, w, start) = GridFrom(r, w, start) .. GridTo(r, w, start)
  BY DEF Grid, GridFrom, GridTo
<1>7. /\ GridFrom(r, w, start) = Greatest({w.start, start + i0 + Search})
      /\ GridTo(r, w, start) = Least({w.end, start + i1 - 1 - Search}) - 1
  BY DEF GridFrom, GridTo
<1> HIDE DEF i0, i1
<1> DEFINE p == start + i0 + Search
           q == start + i1 - 1 - Search
<1>8. p \in Int /\ q \in Int /\ p >= start + Search
  BY <1>3, <1>4, <1>5
<1>9. /\ GridFrom(r, w, start) = Greatest({w.start, p})
      /\ GridTo(r, w, start) = Least({w.end, q}) - 1
  BY <1>7
<1> HIDE DEF p, q
<1>10. /\ Greatest({w.start, p}) = (IF w.start >= p THEN w.start ELSE p)
       /\ Least({w.end, q}) = (IF w.end <= q THEN w.end ELSE q)
  BY <1>2, <1>8, PairFacts
<1> QED
  BY <1>2, <1>3, <1>6, <1>8, <1>9, <1>10

(* The load tells by how much the clock of the DAQ is wrong: the error is one of the
   lags that are tried, and no other lag makes the samples of the window match
   completely. *)
Tells(r, w, off) ==
    LET grid == Grid(r, w, r[1].at + off)
    IN  off # 0 /\ Comparable(r, w, grid) =>
            /\ off \in -Search .. Search
            /\ \A lag \in (-Search .. Search) \ {off} : Correlations(r, grid, off)[lag] < 50

(* The correlation at each lag; at the clock's error the samples are the same. *)
LEMMA CorrelationsFacts ==
    ASSUME NEW r, NEW n, IsRecording(r, n), NEW w, LiesIn(w, r, n), NEW off \in Int,
           Grid(r, w, r[1].at + off) # {}
    PROVE  LET corr == Correlations(r, Grid(r, w, r[1].at + off), off)
           IN  /\ \A lag \in -Search .. Search : corr[lag] \in Int /\ corr[lag] <= 50
               /\ \/ off \in -Search .. Search => corr[off] = 50
                  \/ \A lag \in -Search .. Search : corr[lag] = 0
<1> DEFINE start == r[1].at + off
           lo == GridFrom(r, w, start)
           hi == GridTo(r, w, start)
           c == Cardinality(lo .. hi)
           corr == Correlations(r, Grid(r, w, start), off)
           a == Samples(r, lo .. hi, 0)
           b(lag) == Samples(r, lo .. hi, lag - off)
<1>1. r[1].at \in Int /\ Search \in Nat /\ start \in Int
  BY RecordingAssumption DEF IsRecording, Timed
<1>2. /\ lo \in Int /\ hi \in Int /\ Grid(r, w, start) = lo .. hi
      /\ r[1].at <= lo /\ start + Search <= lo
  <2> HIDE DEF start
  <2> QED
    BY <1>1, GridFacts
<1>3. \A lag \in -Search .. Search : corr[lag] = Correlation(a, b(lag))
  BY <1>2 DEF Correlations
<1> HIDE DEF lo, hi, corr
<1>4. lo <= hi
  BY <1>2
<1>5. c \in Nat
  BY <1>2, FS_Interval, FS_CardinalityType
<1>6. a \in [1 .. c -> Int]
  <2>1. r[1].at <= lo + 0 /\ 0 \in Int
    BY <1>2
  <2> QED
    BY <1>2, <1>4, <2>1, SamplesFacts
<1>7. ASSUME NEW lag \in -Search .. Search PROVE b(lag) \in [1 .. c -> Int]
  <2> DEFINE by == lag - off
  <2>1. by \in Int /\ r[1].at <= lo + by
    BY <1>1, <1>2
  <2> HIDE DEF by
  <2>2. Samples(r, lo .. hi, by) \in [1 .. c -> Int]
    BY <1>2, <1>4, <2>1, SamplesFacts
  <2> QED
    BY <2>2 DEF by
<1>8. off \in -Search .. Search => b(off) = a
  <2>1. off - off = 0
    OBVIOUS
  <2> QED
    BY <2>1
<1> HIDE DEF a, b, c
<1>9. ASSUME NEW lag \in -Search .. Search PROVE corr[lag] \in Int /\ corr[lag] <= 50
  BY <1>3, <1>5, <1>6, <1>7, CorrelationFacts
<1>10. CASE Correlation(a, a) = 50
  <2>1. off \in -Search .. Search => corr[off] = 50
    BY <1>3, <1>8, <1>10
  <2> QED
    BY <1>9, <2>1 DEF corr
<1>11. CASE Correlation(a, a) # 50
  <2>1. ASSUME NEW lag \in -Search .. Search PROVE corr[lag] = 0
    BY <1>3, <1>5, <1>6, <1>7, <1>11, CorrelationFacts
  <2> QED
    BY <1>9, <2>1 DEF corr
<1> QED
  BY <1>10, <1>11

(* The lag that is chosen is one of those at which the loads are most alike. *)
LEMMA BestLagFacts ==
    ASSUME NEW corr, DOMAIN corr = -Search .. Search,
           \A lag \in -Search .. Search : corr[lag] \in Int /\ corr[lag] <= 50
    PROVE  /\ BestLag(corr) \in -Search .. Search
           /\ \A lag \in -Search .. Search : corr[lag] <= corr[BestLag(corr)]
<1> DEFINE D == -Search .. Search
           B == {lag \in DOMAIN corr : \A m \in DOMAIN corr : corr[lag] >= corr[m]}
<1>1. Search \in Nat /\ 0 \in D /\ D \in SUBSET Int /\ -Search \in Int /\ \A lag \in D : -Search <= lag
  BY RecordingAssumption
<1>2. Highest(D, corr) # {}
  <2> HIDE DEF D
  <2>1. D # {} /\ 50 \in Int
    BY <1>1
  <2>2. \A lag \in D : corr[lag] \in Int /\ corr[lag] <= 50
    BY DEF D
  <2> QED
    BY <2>1, <2>2, HighestFacts
<1>3. B = Highest(D, corr)
  <2>1. \A lag, m \in D : corr[lag] >= corr[m] <=> corr[m] <= corr[lag]
    OBVIOUS
  <2> HIDE DEF D
  <2>2. DOMAIN corr = D
    BY DEF D
  <2> QED
    BY <2>1, <2>2 DEF Highest
<1>4. B \subseteq D /\ B # {}
  BY <1>2, <1>3
<1> HIDE DEF D
<1>5. Least(B) \in B
  <2>1. B \in SUBSET Int /\ \A lag \in B : -Search <= lag
    BY <1>1, <1>4
  <2> HIDE DEF B
  <2> QED
    BY <1>1, <1>4, <2>1, LeastFacts
<1>6. BestLag(corr) = Least(B)
  BY DEF BestLag
<1> DEFINE best == Least(B)
<1>7. best \in D /\ \A m \in DOMAIN corr : corr[best] >= corr[m]
  BY <1>4, <1>5
<1> HIDE DEF best
<1>8. ASSUME NEW lag \in D PROVE corr[lag] <= corr[best]
  BY <1>7 DEF D
<1> QED
  BY <1>6, <1>7, <1>8 DEF D, best

(* A lag that is applied is the error of the clock. *)
LEMMA LagFacts ==
    ASSUME NEW r, NEW n, IsRecording(r, n), NEW w, LiesIn(w, r, n), NEW off \in Int, NEW marked \in BOOLEAN,
           Tells(r, w, off)
    PROVE  LET sync == EstimateLag(r, w, off, marked)
           IN  IF sync.applied THEN marked /\ sync.lag = -off ELSE sync.lag = 0
<1> DEFINE grid == Grid(r, w, r[1].at + off)
           corr == Correlations(r, grid, off)
           best == BestLag(corr)
           none == [applied |-> FALSE, lag |-> 0]
<1>1. EstimateLag(r, w, off, marked) =
        IF marked /\ Comparable(r, w, grid) /\ Convincing(corr, best)
        THEN [applied |-> TRUE, lag |-> -best] ELSE none
  BY DEF EstimateLag, SyncOn, Sync, LagSeconds
<1>2. ASSUME Comparable(r, w, grid), Convincing(corr, best) PROVE best = off
  <2>1. grid # {}
    BY <1>2 DEF Comparable
  <2>2. /\ \A lag \in -Search .. Search : corr[lag] \in Int /\ corr[lag] <= 50
        /\ \/ off \in -Search .. Search => corr[off] = 50
           \/ \A lag \in -Search .. Search : corr[lag] = 0
    BY <2>1, CorrelationsFacts
  <2>3. DOMAIN corr = -Search .. Search
    BY DEF Correlations
  <2>4. 0 \in -Search .. Search
    BY RecordingAssumption
  <2>5. off # 0 => /\ off \in -Search .. Search
                   /\ \A lag \in (-Search .. Search) \ {off} : corr[lag] < 50
    BY <1>2 DEF Tells
  <2> HIDE DEF corr, grid
  <2>6. best \in -Search .. Search /\ \A lag \in -Search .. Search : corr[lag] <= corr[best]
    BY <2>2, <2>3, BestLagFacts
  <2>7. corr[best] >= 30 /\ 20 * (corr[best] - corr[0]) >= 150 /\ best # 0
    BY <1>2 DEF Convincing
  <2> HIDE DEF best
  <2>8. corr[best] \in Int /\ corr[0] \in Int /\ corr[best] <= 50
    BY <2>2, <2>4, <2>6
  <2>9. corr[best] # 0
    BY <2>7, <2>8
  <2>10. off \in -Search .. Search => corr[off] = 50
    BY <2>2, <2>6, <2>9
  <2>11. off # 0
    <3> SUFFICES ASSUME off = 0 PROVE FALSE
      OBVIOUS
    <3>1. corr[0] = 50
      BY <2>4, <2>10
    <3> QED
      BY <2>7, <2>8, <3>1
  <2>12. corr[best] = 50
    <3>1. 50 <= corr[best]
      BY <2>5, <2>6, <2>10, <2>11
    <3> QED
      BY <2>8, <3>1
  <2> QED
    BY <2>5, <2>6, <2>8, <2>11, <2>12
<1> HIDE DEF grid, corr, best
<1> QED
  BY <1>1, <1>2

----------------------------------------------------------------------------
(* The samples that are shown for a window.                               *)

(* Division. *)
LEMMA Quotient ==
    ASSUME NEW x \in Int, NEW d \in Int, d > 0, NEW z \in Int, z * d <= x, x < (z + 1) * d
    PROVE  x \div d = z
<1> DEFINE q == x \div d
           m == x % d
<1>1. q \in Int /\ m \in Int /\ 0 <= m /\ m < d /\ x = d * q + m
  OBVIOUS
<1> HIDE DEF q, m
<1>2. q * d = d * q /\ (z + 1) * d = z * d + d /\ q * d \in Int /\ z * d \in Int
  BY <1>1
<1>3. ~(q < z)
  <2> SUFFICES ASSUME q < z PROVE FALSE
    OBVIOUS
  <2> DEFINE k == z - q
  <2>1. k \in Int /\ k >= 1 /\ z * d = q * d + k * d
    BY <1>1
  <2> HIDE DEF k
  <2>2. k * d >= d /\ k * d \in Int
    BY <2>1
  <2> QED
    BY <1>1, <1>2, <2>1, <2>2
<1>4. ~(q > z)
  <2> SUFFICES ASSUME q > z PROVE FALSE
    OBVIOUS
  <2> DEFINE k == q - z
  <2>1. k \in Int /\ k >= 1 /\ q * d = z * d + k * d
    BY <1>1
  <2> HIDE DEF k
  <2>2. k * d >= d /\ k * d \in Int
    BY <2>1
  <2> QED
    BY <1>1, <1>2, <2>1, <2>2
<1> QED
  BY <1>1, <1>3, <1>4 DEF q

(* The samples from p up to q, not q itself, are those taken between the seconds p
   and q of the recording; one more may have been taken for q. *)
Matching(slice, p, q) ==
    \/ slice.first = p /\ slice.last \in {q, q + 1}
    \/ slice.first = p + 1 /\ slice.last = q + 1

(* Each of them is shown at most a second from where it belongs. *)
LEMMA MatchingIsInPlace ==
    ASSUME NEW r, NEW w, r[1].at \in Int, w.start \in Int, w.end \in Int, w.start < w.end,
           NEW slice, Matching(slice, w.start - r[1].at, w.end - r[1].at),
           NEW k \in 0 .. slice.last - slice.first - 1
    PROVE  InPlace(r, w, slice, k)
<1> DEFINE p == w.start - r[1].at
           D == w.end - w.start
           n == slice.last - slice.first
           x == r[1].at + slice.first + k - w.start
           gap == (2 * k + 1) * D - 2 * n * x
<1>1. D \in Int /\ D > 0 /\ p \in Int /\ slice.first \in Int /\ slice.last \in Int
  BY DEF Matching
<1>2. k \in Int /\ k >= 0 /\ k <= n - 1 /\ n \in Int
  BY <1>1
<1>3. \/ n = D /\ x = k
      \/ n = D + 1 /\ x = k
      \/ n = D /\ x = k + 1
  BY <1>2 DEF Matching
<1> HIDE DEF D, n, x
<1>4. /\ (2 * k + 1) * D = 2 * (k * D) + D /\ k * D \in Int
      /\ 2 * D * k = 2 * (k * D) /\ 2 * (D + 1) * k = 2 * (k * D) + 2 * k
      /\ 2 * D * (k + 1) = 2 * (k * D) + 2 * D
  BY <1>1, <1>2
<1>5. CASE n = D /\ x = k
  <2>1. gap = D
    BY <1>1, <1>2, <1>4, <1>5
  <2>2. gap \in -2 * n .. 2 * n
    BY <1>1, <1>5, <2>1
  <2> QED
    BY <2>2 DEF InPlace, D, n, x
<1>6. CASE n = D + 1 /\ x = k
  <2>1. gap = D - 2 * k
    BY <1>1, <1>2, <1>4, <1>6
  <2>2. gap \in -2 * n .. 2 * n
    BY <1>1, <1>2, <1>6, <2>1
  <2> QED
    BY <2>2 DEF InPlace, D, n, x
<1>7. CASE n = D /\ x = k + 1
  <2>1. gap = -D
    BY <1>1, <1>2, <1>4, <1>7
  <2>2. gap \in -2 * n .. 2 * n
    BY <1>1, <1>7, <2>1
  <2> QED
    BY <2>2 DEF InPlace, D, n, x
<1> QED
  BY <1>3, <1>5, <1>6, <1>7

(* With the length of the recording divided by the number of samples, the index of a
   second is found with an error of one in its second half. *)
LEMMA IndexWithoutClock ==
    ASSUME NEW l \in Int, l > 1, NEW p \in Int, 0 <= p, p < l
    PROVE  (2 * p * l + (l - 1)) \div (2 * (l - 1)) = IF 2 * p < l - 1 THEN p ELSE p + 1
<1> DEFINE d == 2 * (l - 1)
           x == 2 * p * l + (l - 1)
<1>1. d \in Int /\ d > 0 /\ x \in Int
  OBVIOUS
<1>2. x = p * d + 2 * p + l - 1 /\ p * d \in Int
  OBVIOUS
<1>3. (p + 1) * d = p * d + d /\ (p + 2) * d = p * d + 2 * d
  OBVIOUS
<1>4. d = 2 * l - 2
  OBVIOUS
<1> HIDE DEF d, x
<1>5. CASE 2 * p < l - 1
  <2>1. p * d <= x /\ x < (p + 1) * d
    BY <1>1, <1>2, <1>3, <1>4, <1>5
  <2>2. x \div d = p
    BY <1>1, <2>1, Quotient
  <2> QED
    BY <1>5, <2>2 DEF x, d
<1>6. CASE ~(2 * p < l - 1)
  <2> DEFINE z == p + 1
  <2>1. z \in Int /\ z * d <= x /\ x < (z + 1) * d
    <3>1. z + 1 = p + 2
      OBVIOUS
    <3>2. (p + 1) * d <= x /\ x < (p + 2) * d
      BY <1>1, <1>2, <1>3, <1>4, <1>6
    <3> QED
      BY <3>1, <3>2
  <2> HIDE DEF z
  <2>2. x \div d = z
    BY <1>1, <2>1, Quotient
  <2> QED
    BY <1>6, <2>2 DEF x, d, z
<1> QED
  BY <1>5, <1>6

(* With the waveform's start and increment it is found exactly. *)
LEMMA IndexWithClock ==
    ASSUME NEW p \in Int PROVE (2 * p * 1 + 1) \div (2 * 1) = p
<1> DEFINE x == 2 * p * 1 + 1
           d == 2 * 1
<1>1. x \in Int /\ d \in Int /\ d > 0 /\ p * d <= x /\ x < (p + 1) * d
  OBVIOUS
<1> HIDE DEF x, d
<1>2. x \div d = p
  BY <1>1, Quotient
<1> QED
  BY <1>2 DEF x, d

(* The times of a window. *)
LEMMA WindowTimes ==
    ASSUME NEW r, NEW n, IsRecording(r, n), NEW w, LiesIn(w, r, n)
    PROVE  /\ r[1].at \in Int /\ w.start \in Int /\ w.end \in Int /\ Length(r) \in Int
           /\ 0 <= w.start - r[1].at /\ w.start - r[1].at < Length(r)
           /\ 0 <= w.end - r[1].at /\ w.end - r[1].at < Length(r)
<1>1. n \in Nat /\ 1 \in 1 .. n /\ n \in 1 .. n /\ Timed(r, 1, n)
  BY DEF IsRecording
<1>2. \A i \in 1 .. n : r[i].at \in Int /\ r[1].at <= r[i].at /\ r[i].at <= r[n].at
  <2> TAKE i \in 1 .. n
  <2>1. 1 <= i /\ i <= n
    BY <1>1
  <2> QED
    BY <1>1, <2>1 DEF Timed
<1>3. /\ r[1].at \in Int /\ w.start \in Int /\ w.end \in Int /\ r[n].at \in Int
      /\ r[1].at <= w.start /\ w.start <= r[n].at /\ r[1].at <= w.end /\ w.end <= r[n].at
  BY <1>1, <1>2 DEF LiesIn
<1>4. Length(r) = r[n].at - r[1].at + 1
  BY DEF Length, IsRecording
<1> QED
  BY <1>3, <1>4

(* Cut with the lag that was applied, or with a clock that is right, or with none,
   the slice matches the window. *)
LEMMA SliceMatches ==
    ASSUME NEW r, NEW n, IsRecording(r, n), NEW w, LiesIn(w, r, n), w.end - w.start >= 2,
           NEW off \in Int, NEW marked \in BOOLEAN, NEW lag \in Int,
           lag = (IF marked THEN -off ELSE 0)
    PROVE  Matching(Slice(r, w, Axis(r, off, marked), lag), w.start - r[1].at, w.end - r[1].at)
<1> DEFINE p == w.start - r[1].at
           q == w.end - r[1].at
           l == Length(r)
           axis == Axis(r, off, marked)
           j0 == IndexOf(axis, w.start - lag)
           j1 == IndexOf(axis, w.end - lag)
           Near(j, t) == j = IF marked \/ 2 * t < l - 1 THEN t ELSE t + 1
<1>1. /\ r[1].at \in Int /\ w.start \in Int /\ w.end \in Int /\ l \in Int
      /\ 0 <= p /\ p < l /\ 0 <= q /\ q < l
  BY WindowTimes
<1>2. p \in Int /\ q \in Int /\ q - p >= 2 /\ l > 1
  BY <1>1
<1>3. Near(j0, p) /\ Near(j1, q)
  <2>1. CASE marked
    <3>1. axis = [start |-> r[1].at + off, span |-> 1, steps |-> 1] /\ lag = -off
      BY <2>1 DEF Axis
    <3>2. axis.start = r[1].at + off /\ axis.span = 1 /\ axis.steps = 1
      BY <3>1
    <3>3. w.start - lag - axis.start = p /\ w.end - lag - axis.start = q
      BY <1>1, <3>1, <3>2
    <3> HIDE DEF p, q, axis
    <3>4. j0 = (2 * p * 1 + 1) \div (2 * 1) /\ j1 = (2 * q * 1 + 1) \div (2 * 1)
      BY <3>2, <3>3 DEF IndexOf
    <3>5. j0 = p /\ j1 = q
      BY <1>2, <3>4, IndexWithClock
    <3> QED
      BY <2>1, <3>5
  <2>2. CASE ~marked
    <3>1. axis = [start |-> r[1].at, span |-> l - 1, steps |-> l] /\ lag = 0
      BY <2>2 DEF Axis
    <3>2. axis.start = r[1].at /\ axis.span = l - 1 /\ axis.steps = l
      BY <3>1
    <3>3. w.start - lag - axis.start = p /\ w.end - lag - axis.start = q
      BY <1>1, <3>1, <3>2
    <3> HIDE DEF p, q, axis, l
    <3>4. /\ j0 = (2 * p * l + (l - 1)) \div (2 * (l - 1))
          /\ j1 = (2 * q * l + (l - 1)) \div (2 * (l - 1))
      BY <3>2, <3>3 DEF IndexOf
    <3>5. /\ j0 = IF 2 * p < l - 1 THEN p ELSE p + 1
          /\ j1 = IF 2 * q < l - 1 THEN q ELSE q + 1
      BY <1>1, <1>2, <3>4, IndexWithoutClock
    <3> QED
      BY <2>2, <3>5
  <2> QED
    BY <2>1, <2>2
<1> HIDE DEF p, q, l, axis, j0, j1
<1>4. j0 \in Int /\ j1 \in Int /\ 0 <= j0 /\ j0 <= l /\ 0 <= j1 /\ j1 <= l /\ j1 - j0 >= 2
      /\ (\/ j0 = p /\ j1 \in {q, q + 1}
          \/ j0 = p + 1 /\ j1 = q + 1)
  BY <1>1, <1>2, <1>3
<1>5. Clamp(r, j0) = j0 /\ Clamp(r, j1) = j1
  <2>1. /\ Clamp(r, j0) = IF j0 < 0 THEN 0 ELSE IF j0 <= l THEN j0 ELSE l
        /\ Clamp(r, j1) = IF j1 < 0 THEN 0 ELSE IF j1 <= l THEN j1 ELSE l
    BY <1>4, ClampFacts DEF l
  <2> QED
    BY <1>1, <1>4, <2>1
<1>6. Slice(r, w, axis, lag) = [first |-> j0, last |-> j1]
  <2>1. Slice(r, w, axis, lag) =
          IF Clamp(r, j1) - Clamp(r, j0) < 2 THEN [first |-> 0, last |-> Length(r)]
          ELSE [first |-> Clamp(r, j0), last |-> Clamp(r, j1)]
    BY DEF Slice, j0, j1
  <2>2. ~(j1 - j0 < 2)
    BY <1>4
  <2> QED
    BY <1>5, <2>1, <2>2
<1>7. Matching(Slice(r, w, axis, lag), p, q)
  BY <1>4, <1>6 DEF Matching
<1> QED
  BY <1>7 DEF p, q, axis

----------------------------------------------------------------------------
(* The DAQ shows the window, and windows lie in their recordings.         *)

(* What is shown for a window if the load tells by how much the clock is wrong. *)
LEMMA ShownIfTold ==
    ASSUME NEW n, IsRecording(rows, n), NEW w, LiesIn(w, rows, n), w.end - w.start >= 2,
           NEW off \in Int, NEW marked \in BOOLEAN, Tells(rows, w, off)
    PROVE  IsShown(w, off, marked, EstimateLag(rows, w, off, marked))
<1> DEFINE sync == EstimateLag(rows, w, off, marked)
           slice == Slice(rows, w, Axis(rows, off, marked), sync.lag)
<1>1. IF sync.applied THEN marked /\ sync.lag = -off ELSE sync.lag = 0
  BY LagFacts
<1> HIDE DEF sync
<1>2. ASSUME sync.applied \/ off = 0 \/ ~marked PROVE AllInPlace(w, slice)
  <2>1. sync.lag \in Int /\ sync.lag = IF marked THEN -off ELSE 0
    BY <1>1, <1>2
  <2>2. Matching(slice, w.start - rows[1].at, w.end - rows[1].at)
    BY <2>1, SliceMatches
  <2>3. rows[1].at \in Int /\ w.start \in Int /\ w.end \in Int
    BY WindowTimes
  <2>4. w.start < w.end
    BY <2>3
  <2> HIDE DEF slice
  <2>5. \A k \in 0 .. slice.last - slice.first - 1 : InPlace(rows, w, slice, k)
    BY <2>2, <2>3, <2>4, MatchingIsInPlace
  <2> QED
    BY <2>5 DEF AllInPlace
<1> QED
  BY <1>1, <1>2 DEF IsShown, sync

(* A recording that is over is one of rows that follow each other in time. *)
LEMMA FiledIsRecording == ASSUME MachineInv, filed PROVE IsRecording(rows, Len(rows))
<1>1. /\ Len(rows) \in Nat /\ DOMAIN rows = 1 .. Len(rows) /\ Len(truth) = Len(rows)
      /\ truth \in Seq(TruthSet) /\ Attempt > 0
  BY DEF MachineInv, MachineTypes, FiledFirst
<1>2. Len(rows) # 0
  BY <1>1 DEF Attempt
<1>3. PICK pl, st : Track(Len(rows), rows, truth, pl, st)
  BY DEF MachineInv, Recorded
<1>4. \A i \in 1 .. Len(rows) : rows[i].at \in Int
  BY <1>3, RowFacts DEF RowIs
<1>5. \A j, i \in 1 .. Len(rows) : j <= i => rows[j].at <= rows[i].at
  BY <1>3, OrderFacts DEF InOrder
<1>6. Timed(rows, 1, Len(rows))
  <2>1. 1 \in Int /\ Len(rows) \in Int /\ 1 <= Len(rows)
    BY <1>1, <1>2
  <2> QED
    BY <1>4, <1>5, <2>1 DEF Timed
<1> QED
  BY <1>1, <1>2, <1>6 DEF IsRecording

(* The NC program that is compared with has blocks. *)
LEMMA NcIsProgram == IsProgram(Nc) /\ IsProgram(WithNc)
<1>1. Len(Blocks) \in Nat /\ DOMAIN Blocks = 1 .. Len(Blocks)
  BY BlocksFacts
<1>2. \A p : DOMAIN [name |-> p, blocks |-> Blocks, markers |-> Markers].blocks = 1 .. Len(Blocks)
  BY <1>1
<1> QED
  BY <1>1, <1>2 DEF IsProgram, Nc, WithNc

(* A window is only found for a recording that was read, and lies in it. *)
WindowsLieIn ==
    /\ conv # None => read # {} /\ LiesIn(conv.window, rows, Len(rows))
    /\ window # None => read # {} /\ LiesIn(window, rows, Len(rows))

(* Every step leaves the windows in the recording. *)
LEMMA LieInStep == ASSUME MachineInv, WindowsLieIn, [Next]_vars PROVE WindowsLieIn'
<1>1. CASE Machine
  <2>1. ~filed /\ UNCHANGED <<stored, conv>>
    BY <1>1 DEF Machine, RunsOn, Misses, Starts, Stands, Waits, Probes, EndOfRecording, Record
  <2>2. read = {} /\ UNCHANGED <<read, window, conv>>
    BY <2>1 DEF MachineInv, FiledFirst, stored
  <2> QED
    BY <2>2 DEF WindowsLieIn
<1>2. CASE Load
  <2> DEFINE w == Detect(rows, Nc, job.start, job.end)
  <2>1. /\ "tdms" \in read /\ conv' = [job |-> job, window |-> w, known |-> read]
        /\ UNCHANGED <<rows, read, window>>
    BY <1>2 DEF Load, NeedsConversion, machine, stored
  <2>2. filed
    BY <2>1 DEF MachineInv, FiledFirst
  <2>3. LiesIn(w, rows, Len(rows))
    BY <2>2, FiledIsRecording, NcIsProgram, DetectLiesIn
  <2> HIDE DEF w
  <2>4. conv'.window = w
    BY <2>1
  <2>5. LiesIn(conv'.window, rows', Len(rows'))
    BY <2>1, <2>3, <2>4
  <2>6. window # None => LiesIn(window', rows', Len(rows'))
    BY <2>1 DEF WindowsLieIn
  <2> QED
    BY <2>1, <2>5, <2>6 DEF WindowsLieIn
<1>3. CASE Store
  <2>1. /\ conv # None /\ conv' = None /\ window' = Window(conv.window, conv.known)
        /\ UNCHANGED <<rows, read>>
    BY <1>3 DEF Store, machine
  <2>2. /\ window'.first = conv.window.first /\ window'.last = conv.window.last
        /\ window'.start = conv.window.start /\ window'.end = conv.window.end
    BY <2>1 DEF Window
  <2> QED
    BY <2>1, <2>2 DEF WindowsLieIn, LiesIn
<1>4. CASE Worker \/ GiveUp \/ LoseParquet \/ UNCHANGED vars
  <2>1. UNCHANGED <<rows, window>> /\ conv' \in {conv, None} /\ (read # {} => read' # {})
    BY <1>4 DEF Worker, ReadTdms, ReadNc, ReadLog, ReadXml, Read, LoadAll, CommitAll, GiveUp, LoseParquet,
         vars, machine, stored
  <2> QED
    BY <2>1 DEF WindowsLieIn
<1> QED
  BY <1>1, <1>2, <1>3, <1>4 DEF Next

(* Whatever was recorded, whatever the program is, and whatever was known when a
   window was looked for: it lies in the recording, begins before it ends, and its
   times are those of its rows. *)
THEOREM WindowsLieInRecordings == Spec => []WindowsLieIn
<1>1. Init => WindowsLieIn
  BY DEF Init, WindowsLieIn
<1>2. MachineInv /\ WindowsLieIn /\ [Next]_vars => WindowsLieIn'
  BY LieInStep
<1> QED
  BY <1>1, <1>2, MachineInvariant, PTL DEF Spec

(* The load of the window tells by how much the clock is wrong, whichever of the
   errors it has. *)
LoadTells ==
    \A off \in Offsets : Tells(rows, Detect(rows, WithNc, NoTime, NoTime), off)

(* For every program, recording and error of the DAQ's clock: if the load of the
   window tells what the error is, the lag that is applied is that error, and the
   samples are shown at most a second from where they belong.  A clock that is right
   is never corrected, whatever the load is. *)
THEOREM TheDaqShowsTheWindow == Spec => [](LoadTells => DaqShowsTheWindow)
<1>1. ASSUME MachineInv, LoadTells PROVE DaqShowsTheWindow
  <2> DEFINE w == Detect(rows, WithNc, NoTime, NoTime)
  <2> SUFFICES ASSUME filed, w.end - w.start >= 2, NEW off \in Offsets, NEW marked \in BOOLEAN
               PROVE  IsShown(w, off, marked, EstimateLag(rows, w, off, marked))
    BY DEF DaqShowsTheWindow, WindowIsShown
  <2>1. IsRecording(rows, Len(rows))
    BY <1>1, FiledIsRecording
  <2>2. LiesIn(w, rows, Len(rows))
    BY <2>1, NcIsProgram, DetectLiesIn
  <2>3. Tells(rows, w, off)
    BY <1>1 DEF LoadTells
  <2>4. off \in Int
    BY JobWindowAssumption DEF JobWindowAssumption
  <2> HIDE DEF w
  <2> QED
    BY <2>1, <2>2, <2>3, <2>4, ShownIfTold
<1> QED
  BY <1>1, MachineInvariant, PTL
=============================================================================
