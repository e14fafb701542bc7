--------------------------- MODULE ToolMasterProofs ---------------------------
(* Theorems about ToolMaster, for any lists, programs, sessions and bounds. *)
EXTENDS ToolMaster, FiniteSetTheorems, WellFoundedInduction, TLAPS

Pos  == Nat \ {0}
Step == [num : Nat, link : Nat]

(* Ids and counters are positive numbers, a list is finite.                 *)
Types ==
    /\ IsFiniteSet(DOMAIN tool) /\ DOMAIN tool \subseteq Pos /\ nextId \in Pos
    /\ steps \in Seq(Step) /\ call \in Seq(Step)
    /\ up \subseteq Modules /\ clock \in Nat /\ uploaded \in Nat /\ uploaded <= clock
    /\ DOMAIN pc = Actors /\ DOMAIN hold = Actors /\ DOMAIN ids = Actors
    /\ \A a \in Actors :
         /\ Len(hold[a]) \in Nat
         /\ pc[a] = "renumber" => ids[a] # {} /\ ids[a] \subseteq Pos /\ IsFiniteSet(ids[a])
    /\ Len(watch.rows) \in Nat /\ watch.time \in Nat
    /\ Len(vault.rows) \in Nat /\ vault.time \in Nat
    /\ Len(tmp.rows) \in Nat /\ tmp.time \in Nat

(* Two rows of the list never carry the same T number.                      *)
Distinct(table) ==
    \A i, k \in DOMAIN table : table[i].num # 0 /\ table[i].num = table[k].num => i = k

(* What a parser has looked up is right until the list changes.             *)
LookedUp ==
    pc[Collector] = "insert" /\ ~overtaken =>
        \A k \in 1 .. Len(call) : call[k].link = IdOf(tool, call[k].num)

Busy == {"order", "renumber", "export", "write", "swap"}

(* Who has replaced the list alone is the only one at work on it, and       *)
(* carries its rows to the vault.                                           *)
OneAtWork ==
    settled => /\ \A a, b \in Actors : pc[a] \in Busy /\ pc[b] \in Busy => a = b
               /\ \A a \in Actors :
                    /\ pc[a] = "write" => hold[a] = Content
                    /\ pc[a] = "swap" => /\ tmp # NoFile /\ tmp.rows = Content
                                         /\ tmp.time > uploaded
               /\ (\A a \in Actors : pc[a] \notin Busy) =>
                    vault # NoFile /\ vault.rows = Content /\ vault.time > uploaded

(* Nobody works for a module that is stopped.                               *)
Idle == /\ "collector" \notin up => pc[Collector] = "idle"
        /\ "dashboard" \notin up => \A u \in Users : pc[u] = "idle"

(* A list that was emptied stays so: nobody has rows to put into it.        *)
Emptied ==
    cleared => /\ tool = <<>> /\ watch = NoFile
               /\ \A a \in Actors : pc[a] \notin {"replace"} \cup Busy

----------------------------------------------------------------------------
(* Ranks, and the largest of a finite set of numbers.                       *)

(* The rank of an id in a finite set is at most the size of the set. *)
LEMMA RankType ==
    ASSUME NEW S, IsFiniteSet(S), S \subseteq Nat, NEW x \in S
    PROVE  Rank(S, x) \in 1 .. Cardinality(S)
<1> DEFINE below == {k \in S : k <= x}
<1>1. below \in SUBSET S /\ x \in below
  OBVIOUS
<1>2. /\ IsFiniteSet(below) /\ Cardinality(below) <= Cardinality(S)
      /\ Cardinality(below) \in Nat /\ Cardinality(S) \in Nat
  BY <1>1, FS_Subset, FS_CardinalityType
<1>3. Cardinality(below) # 0
  BY <1>1, <1>2, FS_EmptySet
<1> QED
  BY <1>2, <1>3 DEF Rank

(* Two ids have different ranks. *)
LEMMA RankIsInjective ==
    ASSUME NEW S, IsFiniteSet(S), S \subseteq Nat, NEW x \in S, NEW y \in S, x < y
    PROVE  Rank(S, x) # Rank(S, y)
<1> DEFINE low == {k \in S : k <= x}  high == {k \in S : k <= y}
<1>0. x \in Nat /\ y \in Nat /\ \A k \in S : k \in Nat
  OBVIOUS
<1>1. low \in SUBSET high /\ y \in high /\ y \notin low /\ high \in SUBSET S
  <2>1. \A k \in S : k <= x => k <= y
    BY <1>0
  <2>2. y <= y /\ ~ (y <= x)
    BY <1>0
  <2> QED
    BY <2>1, <2>2
<1>2. IsFiniteSet(high)
  BY <1>1, FS_Subset
<1>3. Cardinality(high) # Cardinality(low)
  BY <1>1, <1>2, FS_Subset
<1> QED
  BY <1>3 DEF Rank

(* The largest id of a non-empty finite set is one of them. *)
LEMMA MaximumFacts ==
    ASSUME NEW S, IsFiniteSet(S), S \subseteq Nat, S # {}
    PROVE  Maximum(S) \in S /\ \A y \in S : y <= Maximum(S)
<1> DEFINE above(x) == {k \in S : k > x}
           T == {Cardinality(above(x)) : x \in S}
<1>1. \A x \in S : IsFiniteSet(above(x)) /\ Cardinality(above(x)) \in Nat
  <2> TAKE x \in S
  <2>1. above(x) \in SUBSET S
    OBVIOUS
  <2> QED
    BY <2>1, FS_Subset, FS_CardinalityType
<1>2. T \subseteq Nat /\ T # {}
  BY <1>1
<1>3. PICK n \in T : \A m \in T : ~ (<<m, n>> \in OpToRel(<, Nat))
  <2> HIDE DEF T
  <2> QED
    BY <1>2, WFMin, NatLessThanWellFounded
<1>4. \A m \in T : ~ (m < n)
  BY <1>2, <1>3 DEF OpToRel
<1>5. PICK x \in S : n = Cardinality(above(x))
  OBVIOUS
<1>7. x \in Nat /\ \A k \in S : k \in Nat
  OBVIOUS
<1>6. \A y \in S : y <= x
  <2> SUFFICES ASSUME NEW y \in S, y > x PROVE FALSE
    BY <1>7
  <2>1. above(y) \in SUBSET above(x) /\ y \in above(x) /\ y \notin above(y)
    <3>1. \A k \in S : k > y => k > x
      BY <1>7
    <3>2. ~ (y > y)
      BY <1>7
    <3> QED
      BY <3>1, <3>2
  <2>2. Cardinality(above(y)) <= Cardinality(above(x)) /\ Cardinality(above(y)) # Cardinality(above(x))
    BY <1>1, <2>1, FS_Subset
  <2>3. Cardinality(above(y)) < n
    <3>1. Cardinality(above(x)) \in Nat /\ Cardinality(above(y)) \in Nat
      BY <1>1
    <3> HIDE DEF above
    <3> QED
      BY <1>5, <2>2, <3>1
  <2> QED
    BY <1>4, <2>3 DEF T
<1> QED
  BY <1>6 DEF Maximum

(* Renumbering gives no id twice, neither to a row that was read nor to one *)
(* that is parked.                                                          *)
LEMMA NewIdFacts ==
    ASSUME NEW R, IsFiniteSet(R), R # {}, R \subseteq Pos
    PROVE  /\ \A i \in Pos : NewId(R, i) \in Pos
           /\ \A i, k \in Pos : NewId(R, i) = NewId(R, k) => i = k
<1>1. R \subseteq Nat /\ Offset \in Nat /\ \A k \in R : k \in Nat /\ k >= 1
  <2>1. \A k \in R : k \in Nat /\ k # 0
    BY DEF Pos
  <2> QED
    BY <2>1, ToolsAssumption
<1>2. Maximum(R) \in R /\ \A y \in R : y <= Maximum(R)
  BY <1>1, MaximumFacts
<1>3. Cardinality(R) \in Nat /\ Cardinality(R) <= Maximum(R)
  <2>1. PICK m \in R : m = Maximum(R) /\ \A y \in R : y <= m
    BY <1>2
  <2>2. m \in Nat /\ m >= 1
    BY <1>1
  <2>3. R \in SUBSET (1 .. m)
    <3>1. \A y \in R : y \in 1 .. m
      BY <1>1, <2>1, <2>2
    <3> QED
      BY <3>1
  <2>4. IsFiniteSet(1 .. m) /\ Cardinality(1 .. m) = m
    <3>1. 1 \in Int /\ m \in Int /\ ~ (1 > m) /\ m - 1 + 1 = m
      BY <2>2
    <3> QED
      BY <3>1, FS_Interval
  <2> QED
    BY <2>1, <2>3, <2>4, FS_Subset, FS_CardinalityType
<1>4. \A i \in R : NewId(R, i) \in 1 .. Cardinality(R)
  BY <1>1, RankType DEF NewId
<1>5. \A i \in Pos \ R : NewId(R, i) = i + Maximum(R) + Offset
  BY DEF NewId
<1>6. \A i, k \in R : NewId(R, i) = NewId(R, k) => i = k
  <2> SUFFICES ASSUME NEW i \in R, NEW k \in R, Rank(R, i) = Rank(R, k) PROVE i = k
    BY DEF NewId
  <2>1. ~ (i < k) /\ ~ (k < i)
    BY <1>1, RankIsInjective
  <2> QED
    BY <1>1, <2>1
<1>7. Maximum(R) \in Nat
  BY <1>1, <1>2
<1>8. \A i \in Pos \ R : NewId(R, i) \in Pos /\ NewId(R, i) > Cardinality(R)
  BY <1>1, <1>3, <1>5, <1>7 DEF Pos
<1>9. \A i \in R : NewId(R, i) \in Pos /\ NewId(R, i) <= Cardinality(R)
  BY <1>3, <1>4 DEF Pos
<1>10. \A i, k \in Pos \ R : NewId(R, i) = NewId(R, k) => i = k
  BY <1>1, <1>5, <1>7 DEF Pos
<1>11. \A i \in R, k \in Pos \ R : NewId(R, i) # NewId(R, k)
  BY <1>3, <1>8, <1>9 DEF Pos
<1> QED
  BY <1>6, <1>8, <1>9, <1>10, <1>11

(* The id of a T number is that of the one row that carries it.             *)
LEMMA IdOfFacts ==
    ASSUME NEW table, Distinct(table), NEW n
    PROVE  /\ \A i \in DOMAIN table : n # 0 /\ table[i].num = n => IdOf(table, n) = i
           /\ IdOf(table, n) = 0 \/ (IdOf(table, n) \in DOMAIN table /\ n # 0
                                     /\ table[IdOf(table, n)].num = n)
           /\ (n = 0 \/ \A i \in DOMAIN table : table[i].num # n) => IdOf(table, n) = 0
<1> DEFINE found == {i \in DOMAIN table : table[i].num = n}
<1>1. CASE n = 0 \/ found = {}
  BY <1>1 DEF IdOf
<1>2. CASE n # 0 /\ found # {}
  <2>1. IdOf(table, n) = CHOOSE i \in found : TRUE
    BY <1>2 DEF IdOf
  <2>2. IdOf(table, n) \in found
    BY <1>2, <2>1
  <2> QED
    BY <1>2, <2>2 DEF Distinct
<1> QED
  BY <1>1, <1>2

(* The rows read in order are as many as the places.                        *)
LEMMA InOrderLength ==
    ASSUME NEW rows, NEW S, IsFiniteSet(S)
    PROVE  Len(InOrder(rows, S)) = Cardinality(S) /\ Len(InOrder(rows, S)) \in Nat
<1> DEFINE n == Cardinality(S)
           row(k) == rows[CHOOSE i \in S : Rank(S, i) = k]
           read == [k \in 1 .. n |-> row(k)]
           all == {row(k) : k \in 1 .. n}
<1>1. n \in Nat
  BY FS_CardinalityType
<1>2. read \in Seq(all)
  <2>1. \A k \in 1 .. n : row(k) \in all
    OBVIOUS
  <2> HIDE DEF row, all, n
  <2> QED
    BY <1>1, <2>1
<1>3. Len(read) = n
  <2> HIDE DEF row, all, n
  <2> QED
    BY <1>1, <1>2
<1>4. read = InOrder(rows, S)
  BY DEF InOrder
<1> QED
  BY <1>1, <1>3, <1>4

(* A list of tools has a length. *)
LEMMA RowsOfLength ==
    ASSUME NEW f, Len(f) \in Nat
    PROVE  Len(RowsOf(f)) \in Nat
<1> DEFINE filled == {i \in 1 .. Len(f) : f[i] # Blank}
<1>1. IsFiniteSet(1 .. Len(f)) /\ filled \in SUBSET (1 .. Len(f))
  BY FS_Interval
<1>2. IsFiniteSet(filled)
  BY <1>1, FS_Subset
<1> QED
  BY <1>2, InOrderLength DEF RowsOf

(* An interval of ids is finite.                                            *)
LEMMA ReplacedTypes ==
    ASSUME Types, NEW a \in Actors, Replace(a)
    PROVE  /\ IsFiniteSet(DOMAIN tool') /\ DOMAIN tool' \subseteq Pos /\ nextId' \in Pos
           /\ DOMAIN tool' = nextId .. nextId + Len(hold[a]) - 1
           /\ \A i \in DOMAIN tool' : tool'[i] = hold[a][i - nextId + 1]
<1>1. nextId \in Nat /\ nextId # 0 /\ Len(hold[a]) \in Nat
  BY DEF Types, Replace, Pos
<1>2. /\ DOMAIN tool' = nextId .. nextId + Len(hold[a]) - 1
      /\ \A i \in DOMAIN tool' : tool'[i] = hold[a][i - nextId + 1]
      /\ nextId' = nextId + Len(hold[a])
  BY DEF Replace
<1>3. IsFiniteSet(nextId .. nextId + Len(hold[a]) - 1)
  BY <1>1, FS_Interval
<1>4. \A i \in DOMAIN tool' : i \in Nat /\ i # 0
  BY <1>1, <1>2
<1> QED
  BY <1>1, <1>2, <1>3, <1>4 DEF Pos

(* Every row of the list goes to its new id, and nothing else is there.     *)
LEMMA RenumberedRows ==
    ASSUME Types, NEW a \in Actors, Renumber(a)
    PROVE  /\ \A i \in DOMAIN tool : /\ NewId(ids[a], i) \in DOMAIN tool'
                                     /\ tool'[NewId(ids[a], i)] = tool[i]
           /\ \A k \in DOMAIN tool' : \E i \in DOMAIN tool : k = NewId(ids[a], i)
           /\ \A i, k \in DOMAIN tool : NewId(ids[a], i) = NewId(ids[a], k) => i = k
           /\ IsFiniteSet(DOMAIN tool') /\ DOMAIN tool' \subseteq Pos /\ nextId' \in Pos
<1> DEFINE R == ids[a]
           new == [i \in DOMAIN tool |-> NewId(R, i)]
           used == Range(new)
<1>1. /\ tool' = [k \in used |-> tool[CHOOSE i \in DOMAIN tool : new[i] = k]]
      /\ nextId' = CounterAfter(R, used)
  BY DEF Renumber
<1>2. /\ IsFiniteSet(DOMAIN tool) /\ \A i \in DOMAIN tool : i \in Pos
      /\ IsFiniteSet(R) /\ R # {} /\ R \subseteq Pos
  BY DEF Types, Renumber
<1>3. /\ \A i \in Pos : NewId(R, i) \in Pos
      /\ \A i, k \in Pos : NewId(R, i) = NewId(R, k) => i = k
  BY <1>2, NewIdFacts
<1> HIDE DEF R
<1>4. /\ used = {NewId(R, i) : i \in DOMAIN tool}
      /\ used \subseteq Pos
  BY <1>2, <1>3 DEF Range
<1>5. \A i \in DOMAIN tool : (CHOOSE j \in DOMAIN tool : new[j] = new[i]) = i
  BY <1>2, <1>3
<1>6. IsFiniteSet(used)
  <2>1. new \in Surjection(DOMAIN tool, used)
    BY <1>4 DEF Surjection
  <2> HIDE DEF new, used
  <2> QED
    BY <1>2, <2>1, FS_Surjection
<1>7. nextId' \in Pos
  <2> DEFINE all == {Cardinality(R)} \cup used
  <2>1. Cardinality(R) \in Nat /\ IsFiniteSet({Cardinality(R)})
    BY <1>2, FS_CardinalityType, FS_Singleton
  <2>2. IsFiniteSet(all)
    BY <1>6, <2>1, FS_Union
  <2>3. all \subseteq Nat /\ all # {}
    BY <1>4, <2>1 DEF Pos
  <2>4. Maximum(all) \in all
    BY <2>2, <2>3, MaximumFacts
  <2>5. PICK m \in Nat : m = Maximum(all)
    BY <2>3, <2>4
  <2>6. nextId' = m + 1
    BY <1>1, <2>5 DEF CounterAfter
  <2> QED
    BY <2>6 DEF Pos
<1>8. \A i \in DOMAIN tool : NewId(R, i) \in used /\ tool'[NewId(R, i)] = tool[i]
  <2> TAKE i \in DOMAIN tool
  <2>1. new[i] = NewId(R, i) /\ NewId(R, i) \in used
    BY <1>4
  <2>2. tool'[new[i]] = tool[CHOOSE j \in DOMAIN tool : new[j] = new[i]]
    BY <1>1, <2>1
  <2> QED
    BY <1>5, <2>1, <2>2
<1>9. DOMAIN tool' = used
  BY <1>1
<1> QED
  BY <1>2, <1>3, <1>4, <1>6, <1>7, <1>8, <1>9 DEF R

(* The id of a T number is a number.                                        *)
LEMMA IdOfType ==
    ASSUME NEW table, DOMAIN table \subseteq Pos, NEW n
    PROVE  IdOf(table, n) \in Nat
<1> DEFINE found == {i \in DOMAIN table : table[i].num = n}
<1>1. CASE n = 0 \/ found = {}
  BY <1>1 DEF IdOf
<1>2. CASE n # 0 /\ found # {}
  <2>1. IdOf(table, n) \in found
    BY <1>2 DEF IdOf
  <2> QED
    BY <2>1 DEF Pos
<1> QED
  BY <1>1, <1>2

(* Linking again keeps number and order of the steps, and gives each the id
   the table has for its tool. *)
LEMMA RelinkedType ==
    ASSUME NEW table, DOMAIN table \subseteq Pos, steps \in Seq(Step)
    PROVE  /\ Relinked(table) \in Seq(Step) /\ Len(Relinked(table)) = Len(steps)
           /\ \A i \in 1 .. Len(steps) : /\ Relinked(table)[i].num = steps[i].num
                                         /\ Relinked(table)[i].link = IdOf(table, steps[i].num)
<1> DEFINE step(i) == [steps[i] EXCEPT !.link = IdOf(table, steps[i].num)]
<1>1. \A i \in 1 .. Len(steps) :
        /\ step(i) \in Step /\ step(i).num = steps[i].num
        /\ step(i).link = IdOf(table, steps[i].num)
  <2> TAKE i \in 1 .. Len(steps)
  <2>1. steps[i] \in Step
    OBVIOUS
  <2>2. IdOf(table, steps[i].num) \in Nat
    BY IdOfType
  <2> QED
    BY <2>1, <2>2 DEF Step
<1>2. Relinked(table) = [i \in 1 .. Len(steps) |-> step(i)]
  BY DEF Relinked
<1>3. Len(steps) \in Nat
  OBVIOUS
<1> HIDE DEF step
<1> QED
  BY <1>1, <1>2, <1>3

(* Renumbering gives each linked step the new id of its old one, and leaves
   steps without a link alone. *)
LEMMA MovedType ==
    ASSUME Types, NEW a \in Actors, Renumber(a)
    PROVE  /\ steps' \in Seq(Step) /\ Len(steps') = Len(steps)
           /\ \A i \in 1 .. Len(steps) :
                /\ steps'[i].num = steps[i].num
                /\ steps[i].link = 0 => steps'[i].link = 0
                /\ steps[i].link # 0 => steps'[i].link = NewId(ids[a], steps[i].link)
<1> DEFINE R == ids[a]
           step(i) == [steps[i] EXCEPT !.link = IF @ = 0 THEN 0 ELSE NewId(R, @)]
<1>1. IsFiniteSet(R) /\ R # {} /\ R \subseteq Pos /\ steps \in Seq(Step)
  BY DEF Types, Renumber
<1>2. \A i \in Pos : NewId(R, i) \in Nat
  BY <1>1, NewIdFacts DEF Pos
<1>3. steps' = [i \in 1 .. Len(steps) |-> step(i)]
  BY DEF Renumber, StepsMoved
<1> HIDE DEF R
<1>4. \A i \in 1 .. Len(steps) :
        /\ step(i) \in Step /\ step(i).num = steps[i].num
        /\ steps[i].link = 0 => step(i).link = 0
        /\ steps[i].link # 0 => step(i).link = NewId(R, steps[i].link)
  <2> TAKE i \in 1 .. Len(steps)
  <2>1. steps[i] \in Step
    BY <1>1
  <2>2. steps[i].link # 0 => steps[i].link \in Pos
    BY <2>1 DEF Step, Pos
  <2> QED
    BY <1>2, <2>1, <2>2 DEF Step
<1>5. Len(steps) \in Nat
  BY <1>1
<1> HIDE DEF step
<1> QED
  BY <1>3, <1>4, <1>5 DEF R

(* A parser holds the ids the table has for the tools its program calls. *)
LEMMA CallType ==
    ASSUME Types, NEW p \in Programs, ParseLooksUp(p)
    PROVE  /\ call' \in Seq(Step)
           /\ \A k \in 1 .. Len(call') : call'[k].link = IdOf(tool, call'[k].num)
<1> DEFINE step(k) == [num |-> Called(p)[k], link |-> IdOf(tool, Called(p)[k])]
<1>1. Called(p) \in Seq(Nat)
  BY CalledAssumption
<1>2. call' = [k \in 1 .. Len(Called(p)) |-> step(k)]
  BY DEF ParseLooksUp
<1>3. \A k \in 1 .. Len(Called(p)) : step(k) \in Step /\ step(k).link = IdOf(tool, step(k).num)
  <2> TAKE k \in 1 .. Len(Called(p))
  <2>1. Called(p)[k] \in Nat
    BY <1>1
  <2>2. IdOf(tool, Called(p)[k]) \in Nat
    BY IdOfType DEF Types
  <2> QED
    BY <2>1, <2>2 DEF Step
<1>4. Len(Called(p)) \in Nat
  BY <1>1
<1> HIDE DEF step
<1> QED
  BY <1>2, <1>3, <1>4

(* A reset takes the links off the steps and leaves an empty table. *)
LEMMA ClearedType ==
    ASSUME Types, ResetClears
    PROVE  /\ steps' \in Seq(Step) /\ tool' = <<>> /\ nextId' \in Pos
           /\ \A i \in 1 .. Len(steps') : steps'[i].link = 0
<1> DEFINE step(i) == [steps[i] EXCEPT !.link = 0]
<1>1. \A i \in 1 .. Len(steps) : step(i) \in Step /\ step(i).link = 0
  <2> TAKE i \in 1 .. Len(steps)
  <2>1. steps[i] \in Step
    BY DEF Types
  <2> QED
    BY <2>1 DEF Step
<1>2. steps' = [i \in 1 .. Len(steps) |-> step(i)] /\ Len(steps) \in Nat
  BY DEF ResetClears, Types
<1>3. tool' = <<>> /\ nextId' \in Pos
  BY DEF ResetClears, Pos
<1> HIDE DEF step
<1> QED
  BY <1>1, <1>2, <1>3

----------------------------------------------------------------------------
(* The kinds of numbers and lists in use.                                   *)

(* The types hold at the start. *)
LEMMA TypesInit == Init => Types
<1> SUFFICES ASSUME Init PROVE Types
  OBVIOUS
<1>1. tool = <<>> /\ IsFiniteSet(DOMAIN tool) /\ DOMAIN tool \subseteq Pos
  BY FS_EmptySet DEF Init
<1>2. steps \in Seq(Step) /\ call \in Seq(Step)
  BY DEF Init
<1>3. nextId \in Pos /\ clock \in Nat /\ uploaded \in Nat /\ uploaded <= clock
  BY DEF Init, Pos
<1>4. up \subseteq Modules /\ DOMAIN pc = Actors /\ DOMAIN hold = Actors /\ DOMAIN ids = Actors
  BY DEF Init
<1>5. \A a \in Actors : pc[a] = "idle" /\ hold[a] = <<>> /\ Len(hold[a]) \in Nat
  BY DEF Init
<1>6. watch = NoFile /\ vault = NoFile /\ tmp = NoFile /\ Len(NoFile.rows) \in Nat /\ NoFile.time \in Nat
  BY DEF Init, NoFile
<1> QED
  BY <1>1, <1>2, <1>3, <1>4, <1>5, <1>6 DEF Types

(* Every step keeps the types. *)
LEMMA TypesNext ==
    ASSUME Types, [Next]_vars PROVE Types'
<1> USE DEF Types
<1>1. Collector \in Actors /\ Users \subseteq Actors
  BY DEF Actors
<1>2. ASSUME NEW f \in Lists, NEW u \in Users, Upload(u, f) PROVE Types'
  <2>1. Len(f) \in Nat
    BY ToolsAssumption
  <2>2. Len(RowsOf(f)) \in Nat
    BY <2>1, RowsOfLength
  <2> QED
    BY <1>1, <1>2, <2>2 DEF Upload, Goto, tableVars, fileVars
<1>3. ASSUME NEW f \in Lists, NEW t \in 1 .. clock + 1, Drop(f, t) PROVE Types'
  <2>1. Len(f) \in Nat
    BY ToolsAssumption
  <2> QED
    BY <1>3, <2>1 DEF Drop, tableVars, actorVars
<1>4. ASSUME RestoreFromVault PROVE Types'
  BY <1>4 DEF RestoreFromVault, tableVars, actorVars
<1>5. ASSUME NEW m \in Modules, Start(m) PROVE Types'
  BY <1>5 DEF Start, tableVars, fileVars, actorVars, historyVars
<1>6. ASSUME NEW m \in Modules, Stop(m) PROVE Types'
  BY <1>6 DEF Stop, tableVars, fileVars
<1>7. ASSUME ResetBegins PROVE Types'
  BY <1>7 DEF ResetBegins, tableVars, fileVars, actorVars, historyVars
<1>8. ASSUME NEW a \in Actors, Replace(a) PROVE Types'
  <2>1. /\ IsFiniteSet(DOMAIN tool') /\ DOMAIN tool' \subseteq Pos /\ nextId' \in Pos
    BY <1>8, ReplacedTypes
  <2>2. steps' \in Seq(Step)
    <3> DEFINE table == tool'
    <3>1. steps' = Relinked(table)
      BY <1>8 DEF Replace
    <3> HIDE DEF table
    <3>2. DOMAIN table \subseteq Pos
      BY <2>1 DEF table
    <3> QED
      BY <3>1, <3>2, RelinkedType
  <2>3. clock' \in Nat /\ uploaded' \in Nat /\ uploaded' <= clock'
    BY <1>8 DEF Replace
  <2>4. /\ UNCHANGED <<watch, vault, tmp, up, hold, ids, call>>
        /\ pc' = [pc EXCEPT ![a] = "order"]
    BY <1>8 DEF Replace, Goto
  <2> QED
    BY <2>1, <2>2, <2>3, <2>4
<1>9. ASSUME NEW a \in Actors, ReadIds(a) PROVE Types'
  <2> DEFINE n == Cardinality(DOMAIN tool)
  <2>1. n \in Nat /\ (n = 0 => DOMAIN tool = {})
    BY FS_CardinalityType, FS_EmptySet
  <2>2. CASE DOMAIN tool = 1 .. n
    <3>1. nextId' = n + 1 /\ UNCHANGED ids /\ pc' = [pc EXCEPT ![a] = "export"]
      BY <1>9, <2>2 DEF ReadIds, Goto
    <3>2. nextId' \in Pos
      BY <2>1, <3>1 DEF Pos
    <3> HIDE DEF n
    <3> QED
      BY <1>9, <3>1, <3>2 DEF ReadIds, fileVars, historyVars
  <2>3. CASE DOMAIN tool # 1 .. n
    <3>1. /\ ids' = [ids EXCEPT ![a] = DOMAIN tool] /\ UNCHANGED nextId
          /\ pc' = [pc EXCEPT ![a] = "renumber"]
      BY <1>9, <2>3 DEF ReadIds, Goto
    <3>2. DOMAIN tool # {}
      <4>1. SUFFICES ASSUME DOMAIN tool = {} PROVE FALSE
        OBVIOUS
      <4>2. n = 0
        BY <4>1, FS_EmptySet
      <4>3. 1 .. 0 = {}
        OBVIOUS
      <4> HIDE DEF n
      <4> QED
        BY <2>3, <4>1, <4>2, <4>3
    <3> HIDE DEF n
    <3> QED
      BY <1>9, <3>1, <3>2 DEF ReadIds, fileVars, historyVars
  <2> QED
    BY <2>2, <2>3
<1>10. ASSUME NEW a \in Actors, Renumber(a) PROVE Types'
  <2>1. /\ IsFiniteSet(DOMAIN tool') /\ DOMAIN tool' \subseteq Pos /\ nextId' \in Pos
    BY <1>10, RenumberedRows
  <2>2. steps' \in Seq(Step)
    BY <1>10, MovedType
  <2>3. /\ UNCHANGED <<fileVars, up, hold, call, uploaded>>
        /\ pc' = [pc EXCEPT ![a] = "export"] /\ ids' = [ids EXCEPT ![a] = {}]
    BY <1>10 DEF Renumber, Goto
  <2> QED
    BY <2>1, <2>2, <2>3 DEF fileVars
<1>11. ASSUME NEW a \in Actors, Export(a) PROVE Types'
  <2>1. Len(Content) \in Nat
    BY InOrderLength DEF Content
  <2> QED
    BY <1>11, <2>1 DEF Export, Goto, tableVars, fileVars, historyVars
<1>12. ASSUME NEW a \in Actors, WriteTmp(a) PROVE Types'
  BY <1>12 DEF WriteTmp, Goto, tableVars, historyVars
<1>13. ASSUME NEW a \in Actors, Swap(a) PROVE Types'
  <2>1. Len(Archived.rows) \in Nat /\ Archived.time \in Nat
    BY DEF Archived
  <2>2. Len(NoFile.rows) \in Nat /\ NoFile.time \in Nat /\ Len(<<>>) \in Nat
    BY DEF NoFile
  <2> QED
    BY <1>13, <2>1, <2>2 DEF Swap, Goto, tableVars, historyVars
<1>14. ASSUME NEW a \in Actors, Fails(a) PROVE Types'
  BY <1>14 DEF Fails, Goto, tableVars, fileVars
<1>15. ASSUME SyncFromWatchFolder PROVE Types'
  <2>1. Len(RowsOf(watch.rows)) \in Nat
    BY RowsOfLength
  <2> QED
    BY <1>1, <1>15, <2>1 DEF SyncFromWatchFolder, Goto, tableVars, fileVars, historyVars
<1>16. ASSUME ParseStores PROVE Types'
  <2>1. steps' \in Seq(Step)
    <3>1. steps' = steps \o call \/ steps' = steps
      BY <1>16 DEF ParseStores
    <3>2. steps \in Seq(Step) /\ call \in Seq(Step)
      OBVIOUS
    <3>3. steps \o call \in Seq(Step)
      BY <3>2
    <3> QED
      BY <3>1, <3>2, <3>3
  <2> QED
    BY <1>1, <1>16, <2>1 DEF ParseStores, Goto, fileVars
<1>17. ASSUME NEW p \in Programs, ParseLooksUp(p) PROVE Types'
  <2>1. call' \in Seq(Step)
    BY <1>17, CallType
  <2> QED
    BY <1>1, <1>17, <2>1 DEF ParseLooksUp, Goto, tableVars, fileVars
<1>18. ASSUME ResetClears PROVE Types'
  <2>1. steps' \in Seq(Step) /\ nextId' \in Pos /\ tool' = <<>>
    BY <1>18, ClearedType
  <2>2. IsFiniteSet(DOMAIN tool') /\ DOMAIN tool' \subseteq Pos
    BY <2>1, FS_EmptySet
  <2> QED
    BY <1>18, <2>1, <2>2 DEF ResetClears, fileVars, actorVars
<1>19. ASSUME ResetSweeps PROVE Types'
  <2>1. Len(NoFile.rows) \in Nat /\ NoFile.time \in Nat
    BY DEF NoFile
  <2> QED
    BY <1>19, <2>1 DEF ResetSweeps, Swept, tableVars, actorVars
<1>20. ASSUME UNCHANGED vars PROVE Types'
  BY <1>20 DEF vars, tableVars, fileVars, actorVars, historyVars
<1> QED
  BY <1>2, <1>3, <1>4, <1>5, <1>6, <1>7, <1>8, <1>9, <1>10, <1>11, <1>12, <1>13, <1>14,
     <1>15, <1>16, <1>17, <1>18, <1>19, <1>20 DEF Next, People, Apply

(* The types of the tool list, the links and what each actor has in hand hold
   in every state; the other proofs rest on it. *)
THEOREM TypesHold == Spec => []Types
<1>1. Init => Types
  BY TypesInit
<1>2. Types /\ [Next]_vars => Types'
  BY TypesNext
<1> QED
  BY <1>1, <1>2, PTL DEF Spec

----------------------------------------------------------------------------
(* The links of the steps.                                                  *)

Linked == Distinct(tool) /\ LookedUp /\ LinksAreRight

(* Rows that fit stay distinct under the ids that follow.                   *)
LEMMA LinkedReplace ==
    ASSUME Types, Linked, NEW a \in Actors, Replace(a) PROVE Linked'
<1> DEFINE table == tool'
           rows == hold[a]
<1>1. /\ DOMAIN table = nextId .. nextId + Len(rows) - 1
      /\ \A i \in DOMAIN table : table[i] = rows[i - nextId + 1]
      /\ DOMAIN table \subseteq Pos
  BY ReplacedTypes
<1>2. /\ steps' = Relinked(table) /\ overtaken' = TRUE /\ outdated' = {}
      /\ \A i, k \in 1 .. Len(rows) : rows[i].num # 0 /\ rows[k].num # 0 /\ i # k
                                          => rows[i].num # rows[k].num
  BY DEF Replace, Fits
<1>3. nextId \in Nat /\ Len(rows) \in Nat /\ steps \in Seq(Step)
  BY DEF Types, Replace, Pos
<1> HIDE DEF table, rows
<1>4. Distinct(table)
  <2> SUFFICES ASSUME NEW i \in DOMAIN table, NEW k \in DOMAIN table,
                      table[i].num # 0, table[i].num = table[k].num
               PROVE  i = k
    BY DEF Distinct
  <2> DEFINE m == i - nextId + 1  n == k - nextId + 1
  <2>1. m \in 1 .. Len(rows) /\ n \in 1 .. Len(rows) /\ (m = n => i = k)
    BY <1>1, <1>3
  <2>2. table[i] = rows[m] /\ table[k] = rows[n]
    BY <1>1
  <2> HIDE DEF m, n
  <2> QED
    BY <1>2, <2>1, <2>2
<1>5. /\ Len(steps') = Len(steps)
      /\ \A i \in 1 .. Len(steps) : /\ steps'[i].num = steps[i].num
                                    /\ steps'[i].link = IdOf(table, steps[i].num)
  BY <1>1, <1>2, <1>3, RelinkedType
<1>6. \A i \in 1 .. Len(steps') : steps'[i].link = IdOf(table, steps'[i].num)
  BY <1>5
<1>7. LinksAreRight'
  BY <1>6 DEF LinksAreRight, Right, table
<1>8. LookedUp'
  BY <1>2 DEF LookedUp
<1> QED
  BY <1>4, <1>7, <1>8 DEF Linked, table

(* A step and the row that it is linked to get the same new id.             *)
LEMMA LinkedRenumber ==
    ASSUME Types, Linked, NEW a \in Actors, Renumber(a) PROVE Linked'
<1> DEFINE table == tool'
           New(i) == NewId(ids[a], i)
<1>1. /\ \A i \in DOMAIN tool : New(i) \in DOMAIN table /\ table[New(i)] = tool[i]
      /\ \A k \in DOMAIN table : \E i \in DOMAIN tool : k = New(i)
      /\ \A i, k \in DOMAIN tool : New(i) = New(k) => i = k
  BY RenumberedRows
<1>2. /\ Len(steps') = Len(steps)
      /\ \A i \in 1 .. Len(steps) :
           /\ steps'[i].num = steps[i].num
           /\ steps[i].link = 0 => steps'[i].link = 0
           /\ steps[i].link # 0 => steps'[i].link = New(steps[i].link)
  BY MovedType
<1>3. outdated' = outdated /\ overtaken' = TRUE
  BY DEF Renumber
<1>4. Distinct(tool)
  BY DEF Linked
<1> HIDE DEF table, New
<1>5. Distinct(table)
  <2> SUFFICES ASSUME NEW i \in DOMAIN table, NEW k \in DOMAIN table,
                      table[i].num # 0, table[i].num = table[k].num
               PROVE  i = k
    BY DEF Distinct
  <2>1. PICK m \in DOMAIN tool : i = New(m)
    BY <1>1
  <2>2. PICK n \in DOMAIN tool : k = New(n)
    BY <1>1
  <2>3. table[i] = tool[m] /\ table[k] = tool[n]
    BY <1>1, <2>1, <2>2
  <2>4. m = n
    BY <1>4, <2>3 DEF Distinct
  <2> QED
    BY <2>1, <2>2, <2>4
<1>6. ASSUME NEW i \in 1 .. Len(steps), steps[i].link = IdOf(tool, steps[i].num)
      PROVE  steps'[i].link = IdOf(table, steps'[i].num)
  <2> DEFINE n == steps[i].num  j == steps[i].link
  <2>1. j = IdOf(tool, n) /\ steps'[i].num = n
    BY <1>2, <1>6
  <2>2. CASE j = 0
    <3>1. n = 0 \/ \A k \in DOMAIN tool : tool[k].num # n
      <4>1. 0 \notin DOMAIN tool
        BY DEF Types, Pos
      <4>2. \A k \in DOMAIN tool : n # 0 /\ tool[k].num = n => IdOf(tool, n) = k
        BY <1>4, IdOfFacts
      <4> QED
        BY <2>1, <2>2, <4>1, <4>2
    <3>2. n = 0 \/ \A k \in DOMAIN table : table[k].num # n
      BY <1>1, <3>1
    <3>3. IdOf(table, n) = 0
      BY <1>5, <3>2, IdOfFacts
    <3> QED
      BY <1>2, <2>1, <2>2, <3>3
  <2>3. CASE j # 0
    <3>1. j \in DOMAIN tool /\ n # 0 /\ tool[j].num = n
      BY <1>4, <2>1, <2>3, IdOfFacts
    <3>2. New(j) \in DOMAIN table /\ table[New(j)].num = n
      BY <1>1, <3>1
    <3>3. IdOf(table, n) = New(j)
      BY <1>5, <3>1, <3>2, IdOfFacts
    <3> QED
      BY <1>2, <2>1, <2>3, <3>3
  <2> QED
    BY <2>2, <2>3
<1>7. LinksAreRight'
  <2>1. \A i \in 1 .. Len(steps) : i \in outdated \/ steps[i].link = IdOf(tool, steps[i].num)
    BY DEF Linked, LinksAreRight, Right
  <2>2. \A i \in 1 .. Len(steps') : i \in outdated' \/ steps'[i].link = IdOf(table, steps'[i].num)
    BY <1>2, <1>3, <1>6, <2>1
  <2> QED
    BY <2>2 DEF LinksAreRight, Right, table
<1>8. LookedUp'
  BY <1>3 DEF LookedUp
<1> QED
  BY <1>5, <1>7, <1>8 DEF Linked, table

(* A parser that stores its steps keeps each link right, or records that its
   look-up was outdated. *)
LEMMA LinkedParseStores ==
    ASSUME Types, Linked, ParseStores PROVE Linked'
<1>1. tool' = tool /\ overtaken' = overtaken /\ pc[Collector] = "insert"
  BY DEF ParseStores
<1>2. pc'[Collector] # "insert"
  BY DEF ParseStores, Goto, Types, Actors
<1>3. Distinct(tool)'
  BY <1>1 DEF Linked
<1>4. LookedUp'
  BY <1>2 DEF LookedUp
<1>5. LinksAreRight'
  <2>1. steps \in Seq(Step) /\ call \in Seq(Step)
    BY DEF Types
  <2>2. \A i \in 1 .. Len(steps) : i \in outdated \/ steps[i].link = IdOf(tool, steps[i].num)
    BY DEF Linked, LinksAreRight, Right
  <2>3. ~overtaken => \A k \in 1 .. Len(call) : call[k].link = IdOf(tool, call[k].num)
    BY <1>1 DEF Linked, LookedUp
  <2>4. CASE steps' = steps /\ outdated' = outdated
    BY <1>1, <2>2, <2>4 DEF LinksAreRight, Right
  <2>5. CASE /\ steps' = steps \o call
             /\ outdated' = outdated \cup (IF overtaken THEN Len(steps) + 1 .. Len(steps') ELSE {})
    <3>1. /\ Len(steps') = Len(steps) + Len(call)
          /\ \A i \in 1 .. Len(steps) : steps'[i] = steps[i]
          /\ \A i \in Len(steps) + 1 .. Len(steps') :
               i - Len(steps) \in 1 .. Len(call) /\ steps'[i] = call[i - Len(steps)]
      BY <2>1, <2>5
    <3>2. \A i \in 1 .. Len(steps') : i \in 1 .. Len(steps) \/ i \in Len(steps) + 1 .. Len(steps')
      BY <2>1, <3>1
    <3>3. ASSUME NEW i \in Len(steps) + 1 .. Len(steps')
          PROVE  i \in outdated' \/ steps'[i].link = IdOf(tool, steps'[i].num)
      <4>1. CASE overtaken
        BY <2>5, <3>3, <4>1
      <4>2. CASE ~overtaken
        BY <2>3, <3>1, <3>3, <4>2
      <4> QED
        BY <4>1, <4>2
    <3>4. ASSUME NEW i \in 1 .. Len(steps)
          PROVE  i \in outdated' \/ steps'[i].link = IdOf(tool, steps'[i].num)
      BY <2>2, <2>5, <3>1, <3>4
    <3> QED
      BY <1>1, <3>2, <3>3, <3>4 DEF LinksAreRight, Right
  <2> QED
    BY <2>4, <2>5 DEF ParseStores
<1> QED
  BY <1>3, <1>4, <1>5 DEF Linked

(* Nothing is disturbed where the list and the steps stay.                  *)
LEMMA LinkedStays ==
    ASSUME Linked, UNCHANGED <<tool, steps, outdated, overtaken>>,
           pc'[Collector] = "insert" => pc[Collector] = "insert" /\ call' = call
    PROVE  Linked'
BY DEF Linked, Distinct, LookedUp, LinksAreRight, Right

(* Every step keeps the links of the steps and what the parser has looked up
   right, and the T numbers distinct. *)
LEMMA LinkedNext ==
    ASSUME Types, Linked, [Next]_vars PROVE Linked'
<1>1. Collector \in Actors /\ Users \subseteq Actors /\ Collector \notin Users /\ DOMAIN pc = Actors
  BY ToolsAssumption DEF Actors, Types
<1> DEFINE Kept == /\ UNCHANGED <<tool, steps, outdated, overtaken>>
                   /\ pc'[Collector] = "insert" => pc[Collector] = "insert" /\ call' = call
<1>2. ASSUME NEW f \in Lists, NEW u \in Users, Upload(u, f) PROVE Kept
  BY <1>1, <1>2 DEF Upload, Goto, tableVars
<1>3. ASSUME NEW f \in Lists, NEW t \in 1 .. clock + 1, Drop(f, t) PROVE Kept
  BY <1>3 DEF Drop, tableVars, actorVars
<1>4. ASSUME RestoreFromVault PROVE Kept
  BY <1>4 DEF RestoreFromVault, tableVars, actorVars
<1>5. ASSUME NEW m \in Modules, Start(m) PROVE Kept
  BY <1>5 DEF Start, tableVars, actorVars, historyVars
<1>6. ASSUME NEW m \in Modules, Stop(m) PROVE Kept
  <2>1. CASE m = "collector"
    BY <1>1, <1>6, <2>1 DEF Stop, tableVars
  <2>2. CASE m # "collector"
    BY <1>1, <1>6, <2>2 DEF Stop, tableVars
  <2> QED
    BY <2>1, <2>2
<1>7. ASSUME ResetBegins PROVE Kept
  BY <1>7 DEF ResetBegins, tableVars, actorVars, historyVars
<1>8. ASSUME NEW a \in Actors, Replace(a) PROVE Linked'
  BY <1>8, LinkedReplace
<1>9. ASSUME NEW a \in Actors, ReadIds(a) PROVE Kept
  <2>1. UNCHANGED <<tool, steps, call, outdated, overtaken>> /\ pc[a] = "order"
    BY <1>9 DEF ReadIds, historyVars
  <2>2. pc' = [pc EXCEPT ![a] = "export"] \/ pc' = [pc EXCEPT ![a] = "renumber"]
    BY <1>9 DEF ReadIds, Goto
  <2> QED
    BY <1>1, <2>1, <2>2
<1>10. ASSUME NEW a \in Actors, Renumber(a) PROVE Linked'
  BY <1>10, LinkedRenumber
<1>11. ASSUME NEW a \in Actors, Export(a) PROVE Kept
  BY <1>1, <1>11 DEF Export, Goto, tableVars, historyVars
<1>12. ASSUME NEW a \in Actors, WriteTmp(a) PROVE Kept
  BY <1>1, <1>12 DEF WriteTmp, Goto, tableVars, historyVars
<1>13. ASSUME NEW a \in Actors, Swap(a) PROVE Kept
  BY <1>1, <1>13 DEF Swap, Goto, tableVars, historyVars
<1>14. ASSUME NEW a \in Actors, Fails(a) PROVE Kept
  BY <1>1, <1>14 DEF Fails, Goto, tableVars
<1>15. ASSUME SyncFromWatchFolder PROVE Kept
  BY <1>1, <1>15 DEF SyncFromWatchFolder, Goto, tableVars, historyVars
<1>16. ASSUME ParseStores PROVE Linked'
  BY <1>16, LinkedParseStores
<1>17. ASSUME NEW p \in Programs, ParseLooksUp(p) PROVE Linked'
  <2>1. UNCHANGED <<tool, steps, outdated>>
    BY <1>17 DEF ParseLooksUp, tableVars
  <2>2. LookedUp'
    BY <1>17, <2>1, CallType DEF LookedUp
  <2> QED
    BY <2>1, <2>2 DEF Linked, Distinct, LinksAreRight, Right
<1>18. ASSUME ResetClears PROVE Linked'
  <2>1. tool' = <<>> /\ \A i \in 1 .. Len(steps') : steps'[i].link = 0
    BY <1>18, ClearedType
  <2>2. overtaken' = TRUE
    BY <1>18 DEF ResetClears
  <2>3. \A n : IdOf(<<>>, n) = 0
    BY DEF IdOf
  <2>4. Distinct(<<>>)
    BY DEF Distinct
  <2> QED
    BY <2>1, <2>2, <2>3, <2>4 DEF Linked, LookedUp, LinksAreRight, Right
<1>19. ASSUME ResetSweeps PROVE Kept
  BY <1>19 DEF ResetSweeps, tableVars, actorVars
<1>20. ASSUME UNCHANGED vars PROVE Kept
  BY <1>20 DEF vars, tableVars, actorVars, historyVars
<1>21. Kept \/ Linked'
  <2> HIDE DEF Kept
  <2> QED
    BY <1>2, <1>3, <1>4, <1>5, <1>6, <1>7, <1>8, <1>9, <1>10, <1>11, <1>12, <1>13, <1>14,
       <1>15, <1>16, <1>17, <1>18, <1>19, <1>20 DEF Next, People, Apply
<1> QED
  BY <1>21, LinkedStays

(* Every machining step is linked to the tool that carries its T number     *)
(* now, whatever lists and programs are given, except for steps that were   *)
(* stored from a list replaced under the parser.                            *)
THEOREM LinksStayRight == Spec => []LinksAreRight
<1>1. Init => Linked
  <2> SUFFICES ASSUME Init PROVE Linked
    OBVIOUS
  <2>1. tool = <<>> /\ steps = <<>> /\ pc[Collector] = "idle"
    BY DEF Init, Actors
  <2> QED
    BY <2>1 DEF Linked, Distinct, LookedUp, LinksAreRight
<1>2. Types /\ Linked /\ [Next]_vars => Linked'
  BY LinkedNext
<1>3. Linked => LinksAreRight
  BY DEF Linked
<1> QED
  BY <1>1, <1>2, <1>3, TypesHold, PTL DEF Spec

----------------------------------------------------------------------------
(* The archive.                                                             *)

(* Every step keeps it: who replaced the list alone carries its rows on to
   the vault, or the list is no longer settled. *)
LEMMA OneAtWorkNext ==
    ASSUME Types, OneAtWork, [Next]_vars PROVE OneAtWork'
<1>1. /\ Collector \in Actors /\ Users \subseteq Actors /\ Collector \notin Users
      /\ Actors = Users \cup {Collector}
      /\ DOMAIN pc = Actors /\ DOMAIN hold = Actors
      /\ clock \in Nat /\ uploaded \in Nat /\ uploaded <= clock
      /\ vault.time \in Nat /\ tmp.time \in Nat /\ NoFile.time = 0
  BY ToolsAssumption DEF Types, Actors, NoFile
<1>2. ASSUME NEW f \in Lists, NEW u \in Users, Upload(u, f) PROVE OneAtWork'
  BY <1>1, <1>2 DEF Upload, Goto, tableVars, fileVars, OneAtWork, Busy, Content, Modules
<1>3. ASSUME NEW f \in Lists, NEW t \in 1 .. clock + 1, Drop(f, t) PROVE OneAtWork'
  BY <1>1, <1>3 DEF Drop, tableVars, actorVars, OneAtWork, Busy, Content, Modules
<1>4. ASSUME RestoreFromVault PROVE OneAtWork'
  BY <1>1, <1>4 DEF RestoreFromVault, tableVars, actorVars, OneAtWork, Busy, Content, Modules
<1>5. ASSUME NEW m \in Modules, Start(m) PROVE OneAtWork'
  BY <1>1, <1>5 DEF Start, tableVars, fileVars, actorVars, historyVars, OneAtWork, Busy, Content, Modules
<1>6. ASSUME NEW m \in Modules, Stop(m) PROVE OneAtWork'
  BY <1>1, <1>6 DEF Stop, tableVars, fileVars, OneAtWork, Busy, Content, Modules
<1>7. ASSUME ResetBegins PROVE OneAtWork'
  BY <1>1, <1>7 DEF ResetBegins, tableVars, fileVars, actorVars, historyVars, OneAtWork, Busy, Content, Modules
<1>8. ASSUME NEW a \in Actors, Replace(a) PROVE OneAtWork'
  BY <1>1, <1>8 DEF Replace, Goto, Alone, OneAtWork, Busy, Content, Modules
<1>9. ASSUME NEW a \in Actors, ReadIds(a) PROVE OneAtWork'
  BY <1>1, <1>9 DEF ReadIds, Goto, fileVars, historyVars, OneAtWork, Busy, Content, Modules
<1>10. ASSUME NEW a \in Actors, Renumber(a) PROVE OneAtWork'
  BY <1>1, <1>10 DEF Renumber, Goto, fileVars, OneAtWork, Busy, Content, Modules
<1>11. ASSUME NEW a \in Actors, Export(a) PROVE OneAtWork'
  BY <1>1, <1>11 DEF Export, Goto, tableVars, fileVars, historyVars, OneAtWork, Busy, Content, Modules
<1>12. ASSUME NEW a \in Actors, WriteTmp(a) PROVE OneAtWork'
  BY <1>1, <1>12 DEF WriteTmp, Goto, tableVars, historyVars, OneAtWork, Busy, Content, Modules
<1>13. ASSUME NEW a \in Actors, Swap(a) PROVE OneAtWork'
  BY <1>1, <1>13 DEF Swap, Archived, Goto, tableVars, historyVars, OneAtWork, Busy, Content, Modules
<1>14. ASSUME NEW a \in Actors, Fails(a) PROVE OneAtWork'
  BY <1>1, <1>14 DEF Fails, Goto, tableVars, fileVars, OneAtWork, Busy, Content, Modules
<1>15. ASSUME SyncFromWatchFolder PROVE OneAtWork'
  BY <1>1, <1>15 DEF SyncFromWatchFolder, Goto, tableVars, fileVars, historyVars, OneAtWork, Busy, Content, Modules
<1>16. ASSUME ParseStores PROVE OneAtWork'
  BY <1>1, <1>16 DEF ParseStores, Goto, fileVars, OneAtWork, Busy, Content, Modules
<1>17. ASSUME NEW p \in Programs, ParseLooksUp(p) PROVE OneAtWork'
  BY <1>1, <1>17 DEF ParseLooksUp, Goto, tableVars, fileVars, OneAtWork, Busy, Content, Modules
<1>18. ASSUME ResetClears PROVE OneAtWork'
  BY <1>1, <1>18 DEF ResetClears, fileVars, actorVars, OneAtWork, Busy, Content, Modules
<1>19. ASSUME ResetSweeps PROVE OneAtWork'
  BY <1>1, <1>19 DEF ResetSweeps, Swept, tableVars, actorVars, OneAtWork, Busy, Content, Modules
<1>20. ASSUME UNCHANGED vars PROVE OneAtWork'
  BY <1>1, <1>20 DEF vars, tableVars, fileVars, actorVars, historyVars, OneAtWork, Busy, Content, Modules
<1> QED
  BY <1>2, <1>3, <1>4, <1>5, <1>6, <1>7, <1>8, <1>9, <1>10, <1>11,
     <1>12, <1>13, <1>14, <1>15, <1>16, <1>17, <1>18, <1>19, <1>20 DEF Next, People, Apply

(* An emptied list.                                                         *)

AtRest == Idle /\ Emptied

(* Every step keeps it: only running modules work on the list, and an emptied
   one gets no rows before somebody drops or uploads a list. *)
LEMMA AtRestNext ==
    ASSUME Types, AtRest, [Next]_vars PROVE AtRest'
<1>1. /\ Collector \in Actors /\ Users \subseteq Actors /\ Collector \notin Users
      /\ Actors = Users \cup {Collector} /\ DOMAIN pc = Actors
  BY ToolsAssumption DEF Types, Actors
<1>2. ASSUME NEW f \in Lists, NEW u \in Users, Upload(u, f) PROVE AtRest'
  BY <1>1, <1>2 DEF Upload, Goto, tableVars, fileVars, AtRest, Idle, Emptied, Busy, Modules
<1>3. ASSUME NEW f \in Lists, NEW t \in 1 .. clock + 1, Drop(f, t) PROVE AtRest'
  BY <1>1, <1>3 DEF Drop, tableVars, actorVars, AtRest, Idle, Emptied, Busy, Modules
<1>4. ASSUME RestoreFromVault PROVE AtRest'
  BY <1>1, <1>4 DEF RestoreFromVault, tableVars, actorVars, AtRest, Idle, Emptied, Busy, Modules
<1>5. ASSUME NEW m \in Modules, Start(m) PROVE AtRest'
  BY <1>1, <1>5 DEF Start, tableVars, fileVars, actorVars, historyVars, AtRest, Idle, Emptied, Busy, Modules
<1>6. ASSUME NEW m \in Modules, Stop(m) PROVE AtRest'
  BY <1>1, <1>6 DEF Stop, tableVars, fileVars, AtRest, Idle, Emptied, Busy, Modules
<1>7. ASSUME ResetBegins PROVE AtRest'
  BY <1>1, <1>7 DEF ResetBegins, tableVars, fileVars, actorVars, historyVars, AtRest, Idle, Emptied, Busy, Modules
<1>8. ASSUME NEW a \in Actors, Replace(a) PROVE AtRest'
  BY <1>1, <1>8 DEF Replace, Goto, Alone, AtRest, Idle, Emptied, Busy, Modules
<1>9. ASSUME NEW a \in Actors, ReadIds(a) PROVE AtRest'
  BY <1>1, <1>9 DEF ReadIds, Goto, fileVars, historyVars, AtRest, Idle, Emptied, Busy, Modules
<1>10. ASSUME NEW a \in Actors, Renumber(a) PROVE AtRest'
  BY <1>1, <1>10 DEF Renumber, Goto, fileVars, AtRest, Idle, Emptied, Busy, Modules
<1>11. ASSUME NEW a \in Actors, Export(a) PROVE AtRest'
  BY <1>1, <1>11 DEF Export, Goto, tableVars, fileVars, historyVars, AtRest, Idle, Emptied, Busy, Modules
<1>12. ASSUME NEW a \in Actors, WriteTmp(a) PROVE AtRest'
  BY <1>1, <1>12 DEF WriteTmp, Goto, tableVars, historyVars, AtRest, Idle, Emptied, Busy, Modules
<1>13. ASSUME NEW a \in Actors, Swap(a) PROVE AtRest'
  BY <1>1, <1>13 DEF Swap, Archived, Goto, tableVars, historyVars, AtRest, Idle, Emptied, Busy, Modules
<1>14. ASSUME NEW a \in Actors, Fails(a) PROVE AtRest'
  BY <1>1, <1>14 DEF Fails, Goto, tableVars, fileVars, AtRest, Idle, Emptied, Busy, Modules
<1>15. ASSUME SyncFromWatchFolder PROVE AtRest'
  BY <1>1, <1>15 DEF SyncFromWatchFolder, Goto, tableVars, fileVars, historyVars, AtRest, Idle, Emptied, Busy, Modules
<1>16. ASSUME ParseStores PROVE AtRest'
  BY <1>1, <1>16 DEF ParseStores, Goto, fileVars, AtRest, Idle, Emptied, Busy, Modules
<1>17. ASSUME NEW p \in Programs, ParseLooksUp(p) PROVE AtRest'
  BY <1>1, <1>17 DEF ParseLooksUp, Goto, tableVars, fileVars, AtRest, Idle, Emptied, Busy, Modules
<1>18. ASSUME ResetClears PROVE AtRest'
  BY <1>1, <1>18 DEF ResetClears, fileVars, actorVars, AtRest, Idle, Emptied, Busy, Modules
<1>19. ASSUME ResetSweeps PROVE AtRest'
  BY <1>1, <1>19 DEF ResetSweeps, Swept, tableVars, actorVars, AtRest, Idle, Emptied, Busy, Modules
<1>20. ASSUME UNCHANGED vars PROVE AtRest'
  BY <1>1, <1>20 DEF vars, tableVars, fileVars, actorVars, historyVars, AtRest, Idle, Emptied, Busy, Modules
<1> QED
  BY <1>2, <1>3, <1>4, <1>5, <1>6, <1>7, <1>8, <1>9, <1>10, <1>11,
     <1>12, <1>13, <1>14, <1>15, <1>16, <1>17, <1>18, <1>19, <1>20 DEF Next, People, Apply

----------------------------------------------------------------------------
(* What follows.                                                            *)

(* Of a list that was replaced alone, only its replacement writes the vault
   copy. *)
LEMMA OneAtWorkHolds == Spec => []OneAtWork
<1>1. Init => OneAtWork
  BY DEF Init, OneAtWork
<1>2. Types /\ OneAtWork /\ [Next]_vars => OneAtWork'
  BY OneAtWorkNext
<1> QED
  BY <1>1, <1>2, TypesHold, PTL DEF Spec

(* A replacement that ran alone and to its end leaves the list of the       *)
(* database in the vault, and no later step of anybody takes it out.        *)
THEOREM ArchiveKeepsUp == Spec => []ArchiveIsCurrent
<1>1. OneAtWork => ArchiveIsCurrent
  BY DEF OneAtWork, ArchiveIsCurrent, Busy
<1> QED
  BY <1>1, OneAtWorkHolds, PTL

(* A file that the collector takes out of the watch folder after an         *)
(* undisturbed upload is newer than that upload.                            *)
THEOREM OldFilesAreKeptOut == Spec => OldFilesStayOut
<1> DEFINE Taken == /\ settled /\ \A u \in Users : pc[u] = "idle"
                    /\ pc[Collector] = "idle" /\ pc'[Collector] = "replace"
<1>1. ASSUME Types, OneAtWork, Next, Taken PROVE watch.time > uploaded
  <2>1. /\ Collector \in Actors /\ Actors = Users \cup {Collector} /\ Collector \notin Users
        /\ DOMAIN pc = Actors
    BY <1>1, ToolsAssumption DEF Actors, Types
  <2>2. \A a \in Actors : pc[a] = "idle"
    BY <1>1, <2>1
  <2>3. vault # NoFile /\ vault.time > uploaded
    BY <1>1, <2>2 DEF OneAtWork, Busy
  <2>4. SyncFromWatchFolder
    <3>1. ASSUME NEW a \in Actors, Apply(a) PROVE FALSE
      BY <2>2, <3>1 DEF Apply, Replace, ReadIds, Renumber, Export, WriteTmp, Swap, Fails
    <3>2. ASSUME NEW f \in Lists, NEW u \in Users, Upload(u, f) PROVE FALSE
      BY <1>1, <2>1, <3>2 DEF Upload, Goto
    <3>3. ASSUME UNCHANGED pc PROVE FALSE
      BY <1>1, <3>3
    <3>4. ASSUME NEW m \in Modules, Stop(m) PROVE FALSE
      BY <1>1, <2>1, <2>2, <3>4 DEF Stop, Modules
    <3>5. ASSUME ParseStores PROVE FALSE
      BY <2>1, <2>2, <3>5 DEF ParseStores
    <3>6. ASSUME NEW p \in Programs, ParseLooksUp(p) PROVE FALSE
      BY <1>1, <2>1, <3>6 DEF ParseLooksUp, Goto
    <3> QED
      BY <1>1, <3>1, <3>2, <3>3, <3>4, <3>5, <3>6
         DEF Next, People, Drop, RestoreFromVault, Start, ResetBegins, ResetClears,
             ResetSweeps, actorVars
  <2>5. vault.time <= watch.time
    BY <1>1, <2>3, <2>4 DEF SyncFromWatchFolder, News
  <2> QED
    BY <1>1, <2>3, <2>5 DEF Types
<1>2. Types /\ OneAtWork /\ [Next]_vars => [Taken => watch.time > uploaded]_vars
  BY <1>1
<1> QED
  BY <1>2, TypesHold, OneAtWorkHolds, PTL DEF Spec, OldFilesStayOut

(* A list that a reset has emptied while nothing ran stays empty until      *)
(* somebody gives a file.                                                   *)
THEOREM ResetHolds == Spec => []ResetSticks
<1>1. Init => AtRest
  <2> SUFFICES ASSUME Init PROVE AtRest
    OBVIOUS
  <2>1. cleared = FALSE /\ \A a \in Actors : pc[a] = "idle"
    BY DEF Init
  <2> QED
    BY <2>1 DEF AtRest, Idle, Emptied, Actors
<1>2. Types /\ AtRest /\ [Next]_vars => AtRest'
  BY AtRestNext
<1>3. AtRest => ResetSticks
  BY DEF AtRest, Emptied, ResetSticks
<1> QED
  BY <1>1, <1>2, <1>3, TypesHold, PTL DEF Spec
=============================================================================
