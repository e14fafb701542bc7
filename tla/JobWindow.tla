------------------------------ MODULE JobWindow ------------------------------
(***************************************************************************)
(* From the machine to the machining window of a Job.  A machine runs an   *)
(* NC program in one or more attempts while it is recorded; then the       *)
(* recording (TDMS), the NC program, the log and the metadata (XML) of the *)
(* Job are read by the collector in any order, beside a converter that     *)
(* looks for the window (Alignment) each time it learns more.  All of them *)
(* fill in the Job's start and end: the XML parser writes them, the others *)
(* only where they find none.  The recording is in UTC and starts at 0;    *)
(* XML, log and file names are in local time.                              *)
(***************************************************************************)
EXTENDS Recording

CONSTANTS
    None,               \* no window, no conversion, no backfill
    Blocks, Markers,    \* the program: its blocks in order, and the heads and ends among them
    Cutting,            \* blocks in which the spindle turns or an axis is fed
    Pause,              \* seconds for which the machine waits, or stands, or is set up again
    MaxAttempts,        \* bound: attempts
    MaxBlemishes,       \* bound: blocks missed, and rows in which it waits, stands or probes
    MaxUpsets,          \* bound: conversions given up, Parquet files lost, and backfills
    XmlKinds,           \* the times an XML may name
    Offsets,            \* seconds by which the DAQ's clock may be ahead
    Zone,               \* hours between local time and UTC
    Files,              \* the files the Job gets
    NamedBy,            \* the kinds of file whose names hold a date ("tdms", "log")
    Racing              \* TRUE: the collector may store between load and commit of the converter

ASSUME JobWindowAssumption ==
    /\ Zone \in 1 .. MaxHours /\ Pause \in Nat
    /\ Files \subseteq {"tdms", "nc", "log", "xml"} /\ NamedBy \subseteq {"tdms", "log"}
    /\ XmlKinds \subseteq SUBSET {"start", "end"} /\ Racing \in BOOLEAN
    /\ Offsets \subseteq Int

Program == "program"
Other   == "other"
Unknown == "Unknown"

ASSUME NoProgramAssumption ==
    \A n \in {Program, Unknown} :
        NoProgram \notin {n, [name |-> n, blocks |-> Blocks, markers |-> Markers]}

(* A block of the program is not "no block", and a time is not "no time".   *)
ASSUME ProgramAssumption ==
    /\ Blocks \in Seq({Blocks[k] : k \in DOMAIN Blocks}) /\ Len(Blocks) > 1
    /\ NoBlock \notin {Program, Other} \cup {Blocks[k] : k \in DOMAIN Blocks}
    /\ NoTime \notin Int

VARIABLES
    rows,       \* the rows recorded
    truth,      \* of each row: its attempt, and its place in the program or 0 if it did not get on
    blemishes,  \* how many of these there are
    filed,      \* the recording is over
    read,       \* files the collector has read
    name,       \* program_code of the Workplan
    job,        \* start and end in the database
    window,     \* machining_window in the database, and what had been read when it was found
    parquet,    \* the Parquet file is there
    conv,       \* the Job as the converter has loaded it, and the window it found
    back,       \* the Job as the backfill has loaded it
    upsets,     \* how many of these there were
    said,       \* history: the times the XML named
    overtaken   \* history: the XML was read under a conversion

machine == <<rows, truth, blemishes, filed>>
stored  == <<read, name, job, window, parquet, said, overtaken>>
vars == <<machine, stored, conv, back, upsets>>

NoTimes == [start |-> NoTime, end |-> NoTime]

----------------------------------------------------------------------------
(* The machine (external): polled from time to time, it is at a block of    *)
(* the program, or has started again from the first one.                    *)

Attempt == IF truth = <<>> THEN 0 ELSE truth[Len(truth)].attempt
Place   == IF truth = <<>> THEN 0
           ELSE LET mine == {i \in DOMAIN truth : truth[i].attempt = Attempt}
                IN  Greatest({truth[i].place : i \in mine})
Clock   == IF rows = <<>> THEN 0 ELSE rows[Len(rows)].at

Record(gap, attempt, place, row) ==
    /\ ~filed
    /\ rows' = Append(rows, [at |-> Clock + (IF rows = <<>> THEN 0 ELSE gap), block |-> row.block,
                             prog |-> row.prog, busy |-> row.busy])
    /\ truth' = Append(truth, [attempt |-> attempt, place |-> place])
    /\ UNCHANGED <<filed, stored, conv, back, upsets>>

Blemish == blemishes < MaxBlemishes /\ blemishes' = blemishes + 1

AtPlace(k) == [block |-> Blocks[k], prog |-> Program, busy |-> Blocks[k] \in Cutting]

RunsOn == /\ Attempt > 0 /\ Place < Len(Blocks)
          /\ Record(2, Attempt, Place + 1, AtPlace(Place + 1))
          /\ UNCHANGED blemishes

(* A block goes by between two rows.                                        *)
Misses == /\ Attempt > 0 /\ Place + 1 < Len(Blocks)
          /\ Record(2, Attempt, Place + 2, AtPlace(Place + 2))
          /\ Blemish

Starts == /\ Attempt < MaxAttempts
          /\ Record(Pause, Attempt + 1, 1, AtPlace(1))
          /\ UNCHANGED blemishes

(* It stands at its block, spindle off.                                     *)
Stands == /\ Attempt > 0
          /\ Record(Pause, Attempt, 0, [AtPlace(Place) EXCEPT !.busy = FALSE])
          /\ Blemish

(* Before the program is loaded.                                            *)
Waits == /\ rows = <<>>
         /\ Record(Pause, 0, 0, [block |-> NoBlock, prog |-> NoBlock, busy |-> FALSE])
         /\ Blemish

(* A probing macro that contains a block of the program as well.            *)
Probes == /\ Attempt > 0
          /\ Record(2, Attempt, 0, [block |-> Blocks[2], prog |-> Other, busy |-> TRUE])
          /\ Blemish

EndOfRecording ==
    /\ ~filed /\ Attempt > 0
    /\ filed' = TRUE
    /\ UNCHANGED <<rows, truth, blemishes, stored, conv, back, upsets>>

Local(t) == t + Zone * Hour

(* The metadata names the times of one attempt.                             *)
Rows(a) == {i \in DOMAIN truth : truth[i].attempt = a /\ truth[i].place > 0}
Times(a) == [start |-> Local(rows[Least(Rows(a))].at), end |-> Local(rows[Greatest(Rows(a))].at)]

----------------------------------------------------------------------------
(* The collector's worker.                                                  *)

Read(f) == /\ filed /\ f \in Files \ read /\ back = None
           /\ Racing \/ conv = None
           /\ read' = read \cup {f}
           /\ UNCHANGED <<machine, window, parquet, conv, back, upsets>>

Filled(t, found) == IF t = NoTime THEN found ELSE t

Stamp(f) == IF f \in NamedBy THEN Local(rows[1].at) ELSE NoTime

(* The date in the name of the file, or else the start of the recording.    *)
ReadTdms == /\ Read("tdms")
            /\ job' = [job EXCEPT !.start = Filled(Filled(@, Stamp("tdms")), rows[1].at)]
            /\ name' = IF name = Unknown THEN Program ELSE name
            /\ UNCHANGED <<said, overtaken>>

ReadNc == Read("nc") /\ UNCHANGED <<job, name, said, overtaken>>

FromLog(t) == [start |-> Filled(Filled(t.start, Stamp("log")), Local(rows[1].at)),
               end   |-> Filled(t.end, Local(Clock))]

ReadLog == Read("log") /\ job' = FromLog(job) /\ UNCHANGED <<name, said, overtaken>>

(* Mutant: the XML parser only fills in what is missing.                    *)
FromXmlFills(t, named) == [start |-> Filled(t.start, named.start), end |-> Filled(t.end, named.end)]

(* What the XML does not name is emptied.                                   *)
FromXml(t, named) == named

ReadXml ==
    /\ Read("xml")
    /\ \E kind \in XmlKinds, a \in 1 .. Attempt :
          said' = [x \in {"start", "end"} |-> IF x \in kind THEN Times(a)[x] ELSE NoTime]
    /\ job' = FromXml(job, said')
    /\ name' = Program
    /\ overtaken' = (conv # None)

(* backfill_missing_job_metadata, when the collector starts: one session    *)
(* over all Jobs, committed at the end.                                     *)
LoadAll ==
    /\ read # {} /\ back = None /\ upsets < MaxUpsets
    /\ back' = job
    /\ upsets' = upsets + 1
    /\ UNCHANGED <<machine, stored, conv>>

(* The Parquet file comes first, then the name of the recording, the log.   *)
Backfilled(t) ==
    LET p == IF parquet THEN [start |-> Filled(t.start, window.start),
                              end   |-> Filled(t.end, window.end)] ELSE t
        q == IF "tdms" \in read THEN [p EXCEPT !.start = Filled(@, Stamp("tdms"))] ELSE p
    IN  IF "log" \in read THEN FromLog(q) ELSE q

(* Only the columns that were changed are written.                          *)
Merged(now, loaded, new) == [x \in {"start", "end"} |-> IF new[x] = loaded[x] THEN now[x] ELSE new[x]]

CommitAll ==
    /\ back # None
    /\ job' = Merged(job, back, Backfilled(back))
    /\ back' = None
    /\ UNCHANGED <<machine, read, name, window, parquet, said, overtaken, conv, upsets>>

----------------------------------------------------------------------------
(* The converter.                                                           *)

NcKnown == "nc" \in read

Stale == \/ window.ref = NoProgram /\ NcKnown
         \/ window.ref = Unknown /\ name # Unknown

(* Mutant: a window found without NC program calls for another at once.     *)
NeedsConversionAgain ==
    /\ "tdms" \in read
    /\ parquet /\ window # None => window.ref = NoProgram

NeedsConversion ==
    /\ "tdms" \in read
    /\ parquet /\ window # None => Stale

Nc == IF NcKnown THEN [name |-> name, blocks |-> Blocks, markers |-> Markers] ELSE NoProgram

Window(w, known) == [x \in {"first", "last", "method", "shift", "ref", "start", "end", "known"} |->
                        IF x = "known" THEN known ELSE w[x]]

Load ==
    /\ conv = None /\ NeedsConversion
    /\ conv' = [job |-> job, window |-> Detect(rows, Nc, job.start, job.end), known |-> read]
    /\ UNCHANGED <<machine, stored, back, upsets>>

WithWindow(t, w) == [start |-> Filled(t.start, LocalStart(w)), end |-> Filled(t.end, LocalEnd(w))]

Store ==
    /\ conv # None
    /\ Racing \/ back = None
    /\ window' = Window(conv.window, conv.known)
    /\ job' = Merged(job, conv.job, WithWindow(conv.job, conv.window))
    /\ parquet' = TRUE
    /\ conv' = None
    /\ UNCHANGED <<machine, read, name, said, overtaken, back, upsets>>

(* It fails, or is killed.                                                  *)
GiveUp ==
    /\ conv # None /\ upsets < MaxUpsets
    /\ conv' = None
    /\ upsets' = upsets + 1
    /\ UNCHANGED <<machine, stored, back>>

LoseParquet ==
    /\ parquet /\ upsets < MaxUpsets
    /\ parquet' = FALSE
    /\ upsets' = upsets + 1
    /\ UNCHANGED <<machine, read, name, job, window, said, overtaken, conv, back>>

----------------------------------------------------------------------------
Init ==
    /\ rows = <<>> /\ truth = <<>> /\ blemishes = 0 /\ filed = FALSE
    /\ read = {} /\ name = Unknown /\ job = NoTimes /\ window = None /\ parquet = FALSE
    /\ conv = None /\ back = None /\ upsets = 0
    /\ said = NoTimes /\ overtaken = FALSE

Machine == RunsOn \/ Misses \/ Starts \/ Stands \/ Waits \/ Probes \/ EndOfRecording
Worker == ReadTdms \/ ReadNc \/ ReadLog \/ ReadXml \/ LoadAll \/ CommitAll

Next == Machine \/ Worker \/ Load \/ Store \/ GiveUp \/ LoseParquet

Spec == Init /\ [][Next]_vars

----------------------------------------------------------------------------
(* Every attempt that was broken off had reached a block, not to be mixed   *)
(* up with another, from which a restart can be told.                       *)
RestartsSeen ==
    \A a \in 1 .. Attempt - 1 : \E i \in Rows(a) :
        /\ truth[i].place > 1 + Tolerance
        /\ \A k \in DOMAIN Blocks : Blocks[k] = Blocks[truth[i].place] => k = truth[i].place

WithNc == [name |-> Program, blocks |-> Blocks, markers |-> Markers]

(* The motion blocks an attempt went through; all of them, or a quarter.    *)
Milled(a)  == {truth[i].place : i \in Rows(a)} \cap Motions(WithNc)
Whole(a)   == Milled(a) = Motions(WithNc)
Quarter(a) == Milled(a) # {} /\ 4 * Cardinality(Milled(a)) >= Cardinality(Motions(WithNc))

IsAttempt(a, w) ==
    /\ \A i \in w.first .. w.last : truth[i].attempt = a
    /\ (\A i \in DOMAIN truth : truth[i].attempt = a => truth[i].place > 0) =>
            Rows(a) = w.first .. w.last

(* If one attempt, and only one, went through the whole program, the window *)
(* is in it; and if the machine did not stand still in it, the window is    *)
(* all of it (detect_machining_window: the attempt that was completed is    *)
(* chosen, and the waiting before and after it is cut off).                 *)
FinishedAttemptIsFound ==
    filed /\ read = {} /\ RestartsSeen =>
        \A a \in 1 .. Attempt :
            {b \in 1 .. Attempt : Whole(b)} = {a} => IsAttempt(a, Detect(rows, WithNc, NoTime, NoTime))

(* A recording whose recorder crashed is read up to its last row, whatever  *)
(* is left behind that (find_valid_data_end).                               *)
CrashLosesOnlyTheTail ==
    filed /\ read = {} =>
        \A tail \in Tails : RowsRead([i \in DOMAIN rows |-> Row] \o tail) = Len(rows)

AllInPlace(w, slice) == \A k \in 0 .. slice.last - slice.first - 1 : InPlace(rows, w, slice, k)

IsShown(w, off, marked, sync) ==
    /\ sync.applied => sync.lag = -off
    /\ sync.applied \/ off = 0 \/ ~marked =>
            AllInPlace(w, Slice(rows, w, Axis(rows, off, marked), sync.lag))

WindowIsShown(w) ==
    w.end - w.start >= 2 =>
        \A off \in Offsets, marked \in BOOLEAN :
            IsShown(w, off, marked, EstimateLag(rows, w, off, marked))

(* The samples of the DAQ are shown at the second of the window in which    *)
(* they were taken if its clock is right, if it has none, or if a lag was   *)
(* measured; the lag is then the clock's error (estimate_daq_lag,           *)
(* build_aligned_frames, merge_for_parquet: both time axes have one zero).  *)
DaqShowsTheWindow ==
    filed /\ read = {} => WindowIsShown(Detect(rows, WithNc, NoTime, NoTime))

(* A conversion that knew the NC program and both times of the metadata,    *)
(* which are in local time, found its window in the attempt they name, also *)
(* when another went further, if that attempt took time and went through a  *)
(* quarter of the program, and the recording is shorter than an hour        *)
(* (align_hint_timebase, and the order in which the runs are preferred).    *)
NamedAttemptIsFound ==
    /\ window # None /\ {"nc", "xml"} \subseteq window.known /\ ~overtaken
    /\ RestartsSeen /\ Clock < Hour
    => \A a \in 1 .. Attempt :
          Times(a).start < Times(a).end /\ said = Times(a) /\ Quarter(a) =>
              \A i \in window.first .. window.last : truth[i].attempt = a

(* The times the XML named stay the Job's, whatever is read, converted and  *)
(* filled in before and after, unless a conversion had loaded the Job       *)
(* before the XML was read (_apply_window_to_job).                          *)
XmlTimesStand ==
    "xml" \in read /\ ~overtaken =>
        \A x \in {"start", "end"} : said[x] # NoTime => job[x] = said[x]

(* A conversion that knew all that has been read leaves nothing for another *)
(* one to do: no window calls for conversions for ever (_needs_processing). *)
ConversionSettles ==
    window # None /\ window.known = read /\ parquet => ~NeedsConversion

(* Once the NC program is known and the Job has been converted with it, the *)
(* window is in the attempt that went through the whole program, if one     *)
(* alone did; also when the recording was converted before the NC came      *)
(* (find_nc_program: "when the NC comes in later, it is converted again").  *)
NcDecides ==
    \A a \in 1 .. Attempt :
        /\ window # None /\ parquet /\ conv = None /\ ~NeedsConversion /\ NcKnown
        /\ RestartsSeen /\ {b \in 1 .. Attempt : Whole(b)} = {a}
        => \A i \in window.first .. window.last : truth[i].attempt = a
=============================================================================
