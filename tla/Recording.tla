------------------------------ MODULE Recording ------------------------------
(***************************************************************************)
(* Reading a TDMS recording (backend/tdms_alignment.py): the file that a   *)
(* crash of the recorder leaves, and the samples of the DAQ group, whose   *)
(* clock is not the one of the CNC group.                                  *)
(***************************************************************************)
EXTENDS Alignment

CONSTANTS Search,       \* lags that are tried, in seconds (10 in the code)
          MinPoints     \* rows and points that a comparison needs (8 in the code)

ASSUME RecordingAssumption == Search \in Nat

----------------------------------------------------------------------------
(* A file is a sequence of segments: whether it begins with a tag, the      *)
(* bytes its lead-in announces, or NoNext while it is being written, the    *)
(* bytes that are there, and the rows in them.                              *)
LeadIn == 28
NoNext == -1
Row    == [tag |-> TRUE, announced |-> LeadIn + 8, bytes |-> LeadIn + 8, rows |-> 1]

(* What a crash can leave behind the last whole segment: nothing, zeros, a  *)
(* piece of a lead-in, a segment of which some is there but not its end.    *)
Tails == {<<>>} \cup
         {<<[tag |-> FALSE, announced |-> 0, bytes |-> n, rows |-> 0]>> : n \in {LeadIn - 1, LeadIn, 99}} \cup
         {<<[Row EXCEPT !.announced = a, !.bytes = n, !.rows = 0]>> :
                a \in {NoNext, LeadIn + 8}, n \in {1, LeadIn - 1, LeadIn, LeadIn + 7}}

(* The sums of the first 0, 1, 2, ... of a sequence of numbers.             *)
Sums(w)  == LET sum[i \in 0 .. Len(w)] == IF i = 0 THEN 0 ELSE sum[i - 1] + w[i] IN sum
Total(w) == Sums(w)[Len(w)]

Bytes(file)    == [i \in DOMAIN file |-> file[i].bytes]
Size(file)     == Total(Bytes(file))
Begin(file, i) == Sums(Bytes(file))[i - 1]

(* Mutant: the end of the last lead-in that fits is not looked at.          *)
ValidEndWithoutRest(file) ==
    LET left(i) == Size(file) - Begin(file, i)
        stops   == {i \in DOMAIN file : left(i) >= LeadIn /\ ~file[i].tag}
    IN  IF stops = {} THEN Size(file) ELSE Begin(file, Least(stops))

(* find_valid_data_end: from lead-in to lead-in, until one is not whole,    *)
(* has no tag, or announces more than there is.                             *)
ValidEnd(file) ==
    LET left(i) == Size(file) - Begin(file, i)
        Rest(i) == left(i) < LeadIn
        Junk(i) == ~Rest(i) /\ ~file[i].tag
        Open(i) == ~Rest(i) /\ file[i].tag /\ (file[i].announced = NoNext \/ file[i].announced > left(i))
        stops   == {i \in DOMAIN file : Rest(i) \/ Junk(i) \/ Open(i)}
        stop    == Least(stops)
    IN  IF stops = {} \/ Open(stop) \/ (Rest(stop) /\ stop = 1) THEN Size(file)
        ELSE Begin(file, stop)

(* nptdms (external), to which the file ends there (_TruncatedFile): an     *)
(* unfinished segment is read as far as it goes, anything else that is not  *)
(* a segment makes the file unreadable.                                     *)
Unreadable == -1
RowsRead(file) ==
    LET seen == {i \in DOMAIN file : Begin(file, i) < ValidEnd(file)}
    IN  IF \E i \in seen : ~file[i].tag \/ file[i].bytes < LeadIn THEN Unreadable
        ELSE Total([i \in DOMAIN file |-> IF i \in seen THEN file[i].rows ELSE 0])

----------------------------------------------------------------------------
(* The DAQ samples once a second from the first to the last row; the load   *)
(* it sees is the one the rows show, twice that is 0, 1 or 2 between rows.  *)
(* Its clock is ahead of the CNC's by `off' seconds.  `marked' tells        *)
(* whether the channel has the waveform's start and increment.              *)

LoadAt(rows, t) ==
    LET i == Greatest({j \in DOMAIN rows : rows[j].at <= t})
        Load(j) == IF rows[j].busy THEN 2 ELSE 0
    IN  IF i = Len(rows) THEN Load(i)
        ELSE (Load(i) * (rows[i + 1].at - t) + Load(i + 1) * (t - rows[i].at))
                \div (rows[i + 1].at - rows[i].at)

Length(rows) == rows[Len(rows)].at - rows[1].at + 1

(* daq_axis: with the waveform's properties, or the length of the recording *)
(* divided by the number of samples: `steps' samples take `span' seconds.   *)
Axis(rows, off, marked) ==
    IF marked THEN [start |-> rows[1].at + off, span |-> 1, steps |-> 1]
    ELSE [start |-> rows[1].at, span |-> Length(rows) - 1, steps |-> Length(rows)]

(* DaqAxis.index_of and clamp.                                              *)
IndexOf(axis, t) == (2 * (t - axis.start) * axis.steps + axis.span) \div (2 * axis.span)
Clamp(rows, i)   == Least({Greatest({i, 0}), Length(rows)})

(* Correlation of two sequences of samples, in fiftieths, from their        *)
(* covariance and the product of their variances.                           *)
Fiftieths(num, den) ==
    LET size == Greatest({k \in 0 .. 50 : k * k * den <= 2500 * num * num})
    IN  IF den = 0 THEN 0 ELSE IF num < 0 THEN -size ELSE size

Cov(f, g) == Len(f) * Total([k \in DOMAIN f |-> f[k] * g[k]]) - Total(f) * Total(g)

Correlation(a, b) == Fiftieths(Cov(a, b), Cov(a, a) * Cov(b, b))

(* Mutant: the lag that matched is taken for the correction.                *)
LagSecondsSwapped(best) == best

LagSeconds(best) == -best

(* estimate_daq_lag: the lag at which the load the DAQ saw around the       *)
(* window is most like the one the CNC reported, if it is much better than  *)
(* none.                                                                    *)
Grid(rows, w, start) ==
    LET i0 == Clamp(rows, w.start - start - (Search + 2))
        i1 == Clamp(rows, w.end - start + Search + 2)
    IN  Greatest({w.start, start + i0 + Search}) ..
        Least({w.end, start + i1 - 1 - Search}) - 1

Samples(rows, grid, by) == [k \in 1 .. Cardinality(grid) |-> LoadAt(rows, Least(grid) + k - 1 + by)]

Correlations(rows, grid, off) ==
    [lag \in -Search .. Search |-> Correlation(Samples(rows, grid, 0), Samples(rows, grid, lag - off))]

BestLag(corr) == Least({lag \in DOMAIN corr : \A m \in DOMAIN corr : corr[lag] >= corr[m]})

Convincing(corr, lag) == corr[lag] >= 30 /\ 20 * (corr[lag] - corr[0]) >= 150 /\ lag # 0

Comparable(rows, w, grid) ==
    /\ w.end - w.start >= 2
    /\ w.last - w.first + 1 >= MinPoints /\ Cardinality(grid) >= MinPoints
    /\ \E t \in grid : LoadAt(rows, t) # LoadAt(rows, Least(grid))

Sync(corr, lag) == IF Convincing(corr, lag) THEN [applied |-> TRUE, lag |-> LagSeconds(lag)]
                                            ELSE [applied |-> FALSE, lag |-> 0]

SyncOn(rows, w, grid, off) ==
    LET corr == Correlations(rows, grid, off)
    IN  IF Comparable(rows, w, grid) THEN Sync(corr, BestLag(corr)) ELSE [applied |-> FALSE, lag |-> 0]

EstimateLag(rows, w, off, marked) ==
    IF marked THEN SyncOn(rows, w, Grid(rows, w, rows[1].at + off), off)
              ELSE [applied |-> FALSE, lag |-> 0]

(* build_aligned_frames: the samples from first up to, not with, last that  *)
(* are shown for the window, all of them if fewer than two are found.       *)
Slice(rows, w, axis, lag) ==
    LET i0 == Clamp(rows, IndexOf(axis, w.start - lag))
        i1 == Clamp(rows, IndexOf(axis, w.end - lag))
    IN  IF i1 - i0 < 2 THEN [first |-> 0, last |-> Length(rows)] ELSE [first |-> i0, last |-> i1]

(* The samples are spread evenly over the window: whether the one that is   *)
(* shown in place k is at most a second from the second it was taken.  *)
InPlace(rows, w, slice, k) ==
    LET n    == slice.last - slice.first
        gap  == (2 * k + 1) * (w.end - w.start) - 2 * n * (rows[1].at + slice.first + k - w.start)
    IN  gap \in -2 * n .. 2 * n
=============================================================================
