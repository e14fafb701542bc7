------------------------------ MODULE Alignment ------------------------------
(***************************************************************************)
(* The search for the machining window in a TDMS recording                 *)
(* (backend/tdms_alignment.py).  A recording is a sequence of rows of the  *)
(* CNC group: at what second, in which program, at which block of it, and  *)
(* whether the spindle turned or an axis was fed.  The NC program, when it *)
(* is known, tells which rows are one run of it; times of the Job that are *)
(* already known tell which run is meant.                                  *)
(***************************************************************************)
EXTENDS Integers, Sequences, FiniteSets

CONSTANTS NoTime,       \* a time that is not known
          NoBlock,      \* a row without block, or without program name
          NoProgram     \* no NC program was found

(* The parameters of detect_machining_window and align_hint_timebase.       *)
IdleGap == 15
MergeGap == 5
Tolerance == 2
MaxHours == 14
Hour == 3600

Least(S)    == CHOOSE x \in S : \A y \in S : x <= y
Greatest(S) == CHOOSE x \in S : \A y \in S : x >= y

----------------------------------------------------------------------------
(* The Job's times and the recording's are hours apart when one is local    *)
(* time.  A whole number of hours is looked for that makes them overlap.    *)

Overlap(s, e, u, v) == Least({e, v}) - Greatest({s, u})

(* Mutant: the hours are added.                                             *)
AlignHintAdds(u, v, s, e) ==
    LET over(h) == Overlap(s - h * Hour, (IF e = NoTime THEN s ELSE e) - h * Hour, u, v)
        hours   == (-MaxHours .. MaxHours) \ {0}
        best    == Least({h \in hours : \A g \in hours : over(h) >= over(g)})
        shift   == IF over(0) > 0 \/ over(best) <= 0 THEN 0 ELSE best
    IN  IF s = NoTime
        THEN [start |-> NoTime, end |-> NoTime, shift |-> 0]
        ELSE [start |-> s + shift * Hour,
              end   |-> IF e = NoTime THEN NoTime ELSE e + shift * Hour,
              shift |-> shift]

AlignHint(u, v, s, e) ==
    LET over(h) == Overlap(s - h * Hour, (IF e = NoTime THEN s ELSE e) - h * Hour, u, v)
        hours   == (-MaxHours .. MaxHours) \ {0}
        best    == Least({h \in hours : \A g \in hours : over(h) >= over(g)})
        shift   == IF over(0) > 0 \/ over(best) <= 0 THEN 0 ELSE best
    IN  IF s = NoTime
        THEN [start |-> NoTime, end |-> NoTime, shift |-> 0]
        ELSE [start |-> s - shift * Hour,
              end   |-> IF e = NoTime THEN NoTime ELSE e - shift * Hour,
              shift |-> shift]

----------------------------------------------------------------------------
(* Rows of another program, a probing macro for instance, are not compared; *)
(* when no row at all has the name of the program, every row is.            *)

Foreign(rows, nc, i) == rows[i].prog \notin {NoBlock, nc.name}

Compared(rows, nc) ==
    LET own == {i \in DOMAIN rows : ~Foreign(rows, nc, i)}
    IN  IF own = {} THEN DOMAIN rows ELSE own

(* map_block_positions: the place of each row's block in the program, 0 if  *)
(* there is none.  A block that occurs more than once stands for the next   *)
(* occurrence, and for the first one if the program has run past all.       *)
BlockPlaces(rows, nc) ==
    LET compared == Compared(rows, nc)
    IN  [i \in DOMAIN rows |->
            {k \in DOMAIN nc.blocks : i \in compared /\ nc.blocks[k] = rows[i].block}]

NextPlace(places, cursor) ==
    LET ahead == {k \in places : k >= cursor}
    IN  IF ahead # {} THEN Least(ahead) ELSE Least(places)

Walk(places) ==
    LET walk[i \in 0 .. Len(places)] ==
            IF i = 0 THEN [pos |-> 0, cursor |-> 1]
            ELSE LET cursor == walk[i - 1].cursor
                     place  == NextPlace(places[i], cursor)
                 IN  IF places[i] = {} THEN [pos |-> 0, cursor |-> cursor]
                     ELSE [pos |-> place, cursor |-> place]
    IN  walk

Positions(rows, nc) ==
    LET walk == Walk(BlockPlaces(rows, nc)) IN [i \in DOMAIN rows |-> walk[i].pos]

Matched(pos) == {i \in DOMAIN pos : pos[i] > 0}

(* _candidate_runs: a run ends when the program falls back by more than the *)
(* tolerance, which lets the loops of a program pass.                       *)
Restarts(pos) ==
    LET walk[i \in 0 .. Len(pos)] ==
            IF i = 0 THEN [start |-> 0, top |-> 0]
            ELSE LET before == walk[i - 1]
                 IN  IF pos[i] = 0 THEN before
                     ELSE IF before.start = 0 \/ pos[i] < before.top - Tolerance
                          THEN [start |-> i, top |-> pos[i]]
                          ELSE [before EXCEPT !.top = Greatest({@, pos[i]})]
    IN  walk

Runs(pos) ==
    LET walk == Restarts(pos)
    IN  {[first |-> s, last |-> Greatest({i \in Matched(pos) : walk[i].start = s})] :
            s \in {walk[i].start : i \in Matched(pos)}}

----------------------------------------------------------------------------
Motions(nc) == {k \in DOMAIN nc.blocks : nc.blocks[k] \notin nc.markers}

(* _score_run: the motion blocks that were seen in a run.                   *)
SeenIn(run, pos, nc) == {pos[i] : i \in run.first .. run.last} \cap Motions(nc)

ReachedEnd(seen, nc) == seen # {} /\ Greatest(seen) >= Greatest(Motions(nc))

(* The runs in the order of preference: those that overlap the Job's times, *)
(* the number of blocks seen, whether the end was reached, and the length.  *)
RunKey(run, rows, pos, nc, hint) ==
    LET seen == SeenIn(run, pos, nc)
        met  == hint # {} /\ \E h \in hint : Overlap(rows[run.first].at, rows[run.last].at,
                                                     h.start, h.end) > 0
    IN  <<IF met THEN 1 ELSE 0, Cardinality(seen), IF ReachedEnd(seen, nc) THEN 1 ELSE 0,
          run.last - run.first>>

Above(x, y) == \E k \in DOMAIN x : x[k] > y[k] /\ \A j \in 1 .. k - 1 : x[j] = y[j]

(* Mutant: the longest run, whatever was seen in it.                        *)
BestRunByLength(rows, pos, nc, hint) ==
    CHOOSE r \in Runs(pos) : \A q \in Runs(pos) : r.last - r.first >= q.last - q.first

BestRun(rows, pos, nc, hint) ==
    LET runs == Runs(pos)
        key  == [r \in runs |-> RunKey(r, rows, pos, nc, hint)]
    IN  CHOOSE r \in runs : \A q \in runs \ {r} : \/ Above(key[r], key[q])
                                                  \/ key[r] = key[q] /\ r.first < q.first

(* A quarter of the motion blocks is the least for a run to count.          *)
Covers(run, pos, nc) == /\ Motions(nc) # {}
                        /\ 4 * Cardinality(SeenIn(run, pos, nc)) >= Cardinality(Motions(nc))

----------------------------------------------------------------------------
(* _active_mask: the rows in which the machine works, because it turns or   *)
(* feeds, or because the program has gone to another block just before.     *)
Active(rows, pos) ==
    LET last(i)  == LET before == {j \in Matched(pos) : j < i}
                    IN IF before = {} THEN 0 ELSE pos[Greatest(before)]
        changes  == {i \in Matched(pos) : pos[i] # last(i)}
    IN  {i \in DOMAIN rows :
            \/ rows[i].busy
            \/ \E j \in changes : rows[i].at - rows[j].at \in 0 .. IdleGap}

(* _largest_active_span: of the stretches of work between a and b, the one  *)
(* that took longest; short rests do not end a stretch.                     *)
LargestSpan(rows, active, a, b) ==
    LET here     == active \cap (a .. b)
        before(i) == Greatest({j \in here : j < i})
        starts   == {i \in here : \/ \A j \in here : i <= j
                                  \/ rows[i].at - rows[before(i)].at > MergeGap}
        spans    == {[first |-> s, last |-> Greatest({i \in here :
                                        \A t \in starts : t <= i => t <= s})] : s \in starts}
        time(x)  == rows[x.last].at - rows[x.first].at
    IN  IF here = {} THEN [first |-> a, last |-> b]
        ELSE CHOOSE x \in spans : \A y \in spans \ {x} :
                \/ time(x) > time(y)
                \/ time(x) = time(y) /\ x.first < y.first

----------------------------------------------------------------------------
(* detect_machining_window, with the four ways to find a window.  start and *)
(* end are times of the recording, ref is the program it was compared with. *)
Detect(rows, nc, s, e) ==
    LET n      == Len(rows)
        hint   == AlignHint(rows[1].at, rows[n].at, s, e)
        usable == /\ hint.start # NoTime /\ hint.end # NoTime
                  /\ Overlap(hint.start, hint.end, rows[1].at, rows[n].at) > 0
        hints  == IF usable THEN {[start |-> hint.start, end |-> hint.end]} ELSE {}
        pos    == IF nc = NoProgram THEN [i \in DOMAIN rows |-> 0] ELSE Positions(rows, nc)
        active == Active(rows, pos)
        run    == BestRun(rows, pos, nc, hints)
        span   == LargestSpan(rows, active, 1, n)
        inHint == {i \in DOMAIN rows : usable /\ rows[i].at \in hint.start .. hint.end}
        Found(method, x) ==
            [first |-> x.first, last |-> x.last, method |-> method, shift |-> hint.shift,
             ref |-> IF nc = NoProgram THEN NoProgram ELSE nc.name,
             start |-> rows[x.first].at, end |-> rows[x.last].at]
    IN  IF nc # NoProgram /\ Runs(pos) # {} /\ Covers(run, pos, nc)
        THEN Found("nc_block", LargestSpan(rows, active, run.first, run.last))
        ELSE IF active # {} /\ span.last > span.first
        THEN Found("activity", span)
        ELSE IF Cardinality(inHint) >= 2
        THEN Found("hint", [first |-> Least(inHint), last |-> Greatest(inHint)])
        ELSE Found("full", [first |-> 1, last |-> n])

(* The window's times in the clock of the Job's times.                      *)
LocalStart(w) == w.start + w.shift * Hour
LocalEnd(w)   == w.end + w.shift * Hour
=============================================================================
