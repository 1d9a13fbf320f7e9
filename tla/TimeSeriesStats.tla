---------------------------- MODULE TimeSeriesStats ----------------------------
(***************************************************************************)
(* The statistics of one account and one series: TimeSeriesStats.process,   *)
(* called again and again with the ranges the account indexer processed.    *)
(* The history is handled chunk by chunk, in any order; process turns the   *)
(* events of the hours, days and months it touches into bars, and records   *)
(* the intervals that need not be calculated again.                         *)
(*                                                                         *)
(* The value of a bar is the set of the events aggregated into it, and an   *)
(* event is its instant.                                                    *)
(***************************************************************************)
EXTENDS DateRanges, FiniteSets

CONSTANTS
  TimeFrames,   (* the frames of the series, sorted                        *)
  Size,         (* how many instants an interval of each frame has         *)
  Oldest, Newest,  (* the ends of the account's history                    *)
  Chunks,       (* the ranges it is handled in, oldest first               *)
  Event,        (* the instants with an event                              *)
  StartDate,    (* where the series starts                                 *)
  NewestFirst,  (* config.reverse                                          *)
  BatchSize,    (* entries saved at once                                   *)
  MaxCrashes

Frames == Range(TimeFrames)

ASSUME HistoryAssumption ==
  /\ Oldest \in Nat /\ Newest \in Nat /\ StartDate \in Nat
  /\ Event \subseteq Oldest..Newest
  /\ Chunks \in Seq([startDate : Nat, endDate : Nat])
  /\ \A i \in DOMAIN Chunks : Chunks[i].startDate <= Chunks[i].endDate
  /\ \A i, j \in DOMAIN Chunks : i < j => Chunks[i].endDate < Chunks[j].startDate
  /\ Cover(Range(Chunks)) = Oldest..Newest

(* An interval has more than one instant: the least frame is an hour.       *)
ASSUME FramesAssumption ==
  /\ TimeFrames \in Seq(STRING)
  /\ \A i, j \in DOMAIN TimeFrames : TimeFrames[i] = TimeFrames[j] => i = j
  /\ \A i \in DOMAIN TimeFrames : TimeFrames[i] = "All" => i = Len(TimeFrames)
  /\ \A f \in Frames \ {"All"} : Size[f] \in Nat /\ Size[f] > 1

ASSUME BatchSizeAssumption == BatchSize \in Nat /\ BatchSize > 2

VARIABLES
  low, high,    (* the history fetcher has Chunks[low..high]               *)
  processed,    (* the chunks the indexer processed                        *)
  bars,         (* timeSeriesDAL                                           *)
  recorded,     (* stateDAL: the intervals that are not calculated again    *)
  run,          (* the call of process                                     *)
  crashes

statsVars == <<low, high, processed, bars, recorded, run, crashes>>

history == <<low, high, processed>>

Stored == Event \cap Cover({Chunks[i] : i \in processed})
-----------------------------------------------------------------------------
(* Intervals. In the code one is [start, end), and its entry ends at        *)
(* end - 1. The frame All has one interval, which ends in 2285.             *)
Entry(frame, start) ==
  [frame |-> frame, startDate |-> start,
   endDate |-> IF frame = "All" THEN Newest + 2 ELSE start + Size[frame] - 1]

Key(e) == Entry(e.frame, e.startDate)

Bar(e, data) ==
  [frame |-> e.frame, startDate |-> e.startDate, endDate |-> e.endDate, data |-> data]

CeilDiv(n, size) == (n + size - 1) \div size

(* The intervals from the one with the range's first instant on. The range  *)
(* is taken as [start, end) here, and its length counts, not where it       *)
(* starts: the interval with the last instant may be missing.               *)
SplitDurationIntoIntervals(range, frame) ==
  LET size == Size[frame]
      from == (range.startDate \div size) * size
      count == IF range.startDate = range.endDate THEN 1
               ELSE CeilDiv(range.endDate - range.startDate, size)
  IN [i \in 1..count |-> Entry(frame, from + (i - 1) * size)]

GetTimeFrameIntervals(range, frame) ==
  IF frame = "All" THEN <<Entry(frame, 0)>>
  ELSE LET seq == SplitDurationIntoIntervals(range, frame)
       IN IF NewestFirst THEN Reverse(seq) ELSE seq

GetPreviousInterval(e) == Entry(e.frame, e.startDate - Size[e.frame])
GetNextInterval(e) == Entry(e.frame, e.startDate + Size[e.frame])

(* Mutant: the intervals around those of the range are not calculated.      *)
BareIntervals(range, frame) == GetTimeFrameIntervals(range, frame)

(* What process goes through for one range: also the previous interval of   *)
(* the first and the next of the last. If the order is reversed, these are  *)
(* two of the intervals again.                                              *)
Intervals(range, frame) ==
  LET seq == GetTimeFrameIntervals(range, frame)
  IN IF frame = "All" THEN seq
     ELSE <<GetPreviousInterval(seq[1])>> \o seq \o <<GetNextInterval(Last(seq))>>
-----------------------------------------------------------------------------

(* The place, from 0, of the greatest smaller frame that divides frame i;   *)
(* 0 stands for the events themselves.                                      *)
TrueDivide(i) ==
  IF i <= 2 THEN 0
  ELSE IF TimeFrames[i] = "All" THEN i - 2
  ELSE Max({0} \cup {j \in 1..(i - 2) : Size[TimeFrames[i]] % Size[TimeFrames[j + 1]] = 0})

Inputs(i, e) ==
  IF TrueDivide(i) = 0 THEN Stored \cap Instants(e)
  ELSE UNION {b.data : b \in {c \in bars : /\ c.frame = TimeFrames[TrueDivide(i) + 1]
                                           /\ c.startDate \in Instants(e)}}

(* Mutant: an incomplete first interval is recorded like the others.        *)
WithIncompleteFirst(entries, pending, minDate) == entries

WithoutFirst(entries, pending, minDate) ==
  LET first == IF NewestFirst THEN Len(entries) ELSE 1
  IN IF entries[first].startDate < pending.startDate /\ pending.startDate # minDate
     THEN RemoveAt(entries, first) ELSE entries

WithoutLast(entries, pending) ==
  LET last == IF NewestFirst THEN 1 ELSE Len(entries)
  IN IF entries # <<>> /\ entries[last].endDate - 1 > pending.endDate
     THEN RemoveAt(entries, last) ELSE entries

(* The intervals added around those of the range are taken out of each      *)
(* batch, not of the whole.                                                 *)
Inner(entries) ==
  IF entries[1].frame = "All" THEN entries ELSE SubSeq(entries, 2, Len(entries) - 1)

(* What aggregateTimeSeries hands to process: the ranges processed, and the *)
(* first instant of the account if that is known.                           *)
Processed == MaximalRuns(Cover({Chunks[i] : i \in processed}))
NoDate == -1

MinDate ==
  LET first == Min({r.startDate : r \in Processed})
      pending == {Chunks[i].startDate : i \in (low..high) \ processed}
  IN IF low = 1 /\ \A d \in pending : first <= d THEN first ELSE NoDate
-----------------------------------------------------------------------------
Idle == [at |-> "idle"]

StatsInit ==
  /\ low \in DOMAIN Chunks /\ high = low
  /\ processed = {}
  /\ bars = {} /\ recorded = {}
  /\ run = Idle
  /\ crashes = 0

FetchHistory ==
  /\ \/ low > 1 /\ low' = low - 1 /\ UNCHANGED high
     \/ high < Len(Chunks) /\ high' = high + 1 /\ UNCHANGED low
  /\ UNCHANGED <<processed, bars, recorded, run, crashes>>

HandleChunk ==
  /\ \E i \in (low..high) \ processed : processed' = processed \cup {i}
  /\ UNCHANGED <<low, high, bars, recorded, run, crashes>>

(* aggregateTimeSeries reads the account's state and calls process.         *)
ProcessStats ==
  /\ run = Idle
  /\ processed # {}
  /\ run' = [at |-> "frame", i |-> 1, minDate |-> MinDate,
             all |-> ClipDateRanges(Processed, DateRange(0, StartDate - 1))]
  /\ UNCHANGED <<history, bars, recorded, crashes>>

(* The ranges of the next frame, without what is recorded of it.            *)
StartFrame ==
  /\ run.at = "frame"
  /\ IF run.i > Len(TimeFrames) THEN run' = Idle
     ELSE LET known == SortedRanges({DateRange(e.startDate, e.endDate) :
                                         e \in {d \in recorded : d.frame = TimeFrames[run.i]}})
          IN run' = [at |-> "range", i |-> run.i, minDate |-> run.minDate, all |-> run.all,
                     ranges |-> ClipDateRangesFromIterable(run.all, known)]
  /\ UNCHANGED <<history, bars, recorded, crashes>>

StartRange ==
  /\ run.at = "range"
  /\ run' = IF run.ranges = <<>>
            THEN [at |-> "frame", i |-> run.i + 1, minDate |-> run.minDate, all |-> run.all]
            ELSE [at |-> "intervals", i |-> run.i, minDate |-> run.minDate, all |-> run.all,
                  ranges |-> run.ranges,
                  todo |-> Intervals(run.ranges[1], TimeFrames[run.i]), buffer |-> <<>>]
  /\ UNCHANGED <<history, bars, recorded, crashes>>

(* One interval is aggregated and buffered; a full buffer, and what is left *)
(* of it in the end, is drained.                                            *)
Aggregate ==
  /\ run.at = "intervals"
  /\ LET e == run.todo[1]
         buffer == Append(run.buffer, Bar(e, Inputs(run.i, e)))
         drain == Len(buffer) = BatchSize \/ Len(run.todo) = 1
     IN run' = [run EXCEPT !.at = IF drain THEN "entries" ELSE "intervals",
                           !.todo = Tail(@), !.buffer = buffer]
  /\ UNCHANGED <<history, bars, recorded, crashes>>

(* Intervals without events have no bar. Of two entries of one interval the *)
(* store keeps the later.                                                   *)
SaveEntries ==
  /\ run.at = "entries"
  /\ LET full == {n \in DOMAIN run.buffer : run.buffer[n].data # {}}
         new == {run.buffer[n] : n \in
                   {m \in full : \A k \in full : k > m => Key(run.buffer[k]) # Key(run.buffer[m])}}
     IN bars' = {b \in bars : \A e \in new : Key(e) # Key(b)} \cup new
  /\ run' = [run EXCEPT !.at = "states"]
  /\ UNCHANGED <<history, recorded, crashes>>

(* A batch of one or two entries has no inner ones, and process is rejected *)
(* when it reads the first of them.                                         *)
RejectBatch ==
  /\ run.at = "states"
  /\ Inner(run.buffer) = <<>>
  /\ run' = Idle
  /\ UNCHANGED <<history, bars, recorded, crashes>>

SaveStates ==
  /\ run.at = "states"
  /\ Inner(run.buffer) # <<>>
  /\ LET pending == run.ranges[1]
         kept == WithoutLast(WithoutFirst(Inner(run.buffer), pending, run.minDate), pending)
     IN recorded' = recorded \cup {Key(e) : e \in Range(kept)}
  /\ run' = IF run.todo # <<>> THEN [run EXCEPT !.at = "intervals", !.buffer = <<>>]
            ELSE [at |-> "range", i |-> run.i, minDate |-> run.minDate, all |-> run.all,
                  ranges |-> Tail(run.ranges)]
  /\ UNCHANGED <<history, bars, crashes>>

StatsCrash ==
  /\ crashes < MaxCrashes /\ run # Idle
  /\ crashes' = crashes + 1
  /\ run' = Idle
  /\ UNCHANGED <<history, bars, recorded>>

Step == ProcessStats \/ StartFrame \/ StartRange \/ Aggregate \/ SaveEntries \/ RejectBatch \/ SaveStates

StatsNext == FetchHistory \/ HandleChunk \/ Step \/ StatsCrash

StatsSpec == StatsInit /\ [][StatsNext]_statsVars

FairStatsSpec == StatsSpec /\ WF_statsVars(FetchHistory) /\ WF_statsVars(HandleChunk) /\ WF_statsVars(Step)
-----------------------------------------------------------------------------
DataOf(e) == UNION {b.data : b \in {c \in bars : Key(c) = e}}

(* Places of process, sets of records of stored entries.                    *)
StatsTypeOK ==
  /\ low \in DOMAIN Chunks /\ high \in low..Len(Chunks)
  /\ processed \subseteq low..high
  /\ \A b \in bars : b.frame \in Frames /\ b.data # {} /\ b.data \subseteq Instants(b) \cap Stored
  /\ \A b, c \in bars : Key(b) = Key(c) => b = c
  /\ \A e \in recorded : e.frame \in Frames /\ e = Key(e)
  /\ run.at \in {"idle", "frame", "range", "intervals", "entries", "states"}
  /\ run.at \in {"entries", "states"} => Len(run.buffer) \in 1..BatchSize

(* What the interval before it is not aggregated again for: a chunk of one  *)
(* instant, the last of an interval. That interval, and those of bigger     *)
(* frames that are made of it, may lack it for good.                        *)
Overlooked ==
  {x \in Event : /\ DateRange(x, x) \in Range(Chunks)
                 /\ \E f \in Frames \ {"All"} : (x + 1) % Size[f] = 0}

(* An interval recorded as processed has all its events in its bar, except  *)
(* one at its very last instant: it is never aggregated again on its own,   *)
(* so nothing may be left out of it, whatever the order in which the        *)
(* history was handled, the smaller frames were aggregated and the process  *)
(* crashed. (timeSeries.ts, the exclusion of the first and last interval.)  *)
RecordedIsExact ==
  /\ StatsTypeOK
  /\ \A e \in recorded :
       (Event \cap Instants(e)) \ ({e.endDate} \cup Overlooked) \subseteq DataOf(e)

Over(frame) ==
  {e \in {Entry(frame, s) : s \in {n * Size[frame] : n \in 0..Newest}} :
     /\ e.endDate <= Newest
     /\ e.endDate >= Oldest
     /\ e.startDate >= StartDate \/ StartDate <= Oldest}

(* In the end every interval of the past is recorded, and its bar, like the *)
(* bar of the whole history, has all its events but those Overlooked: what a*)
(* batch's border, a rejected batch or a crash left out, and the last       *)
(* instant of an interval, is made up for by later calls.                   *)
EventuallyRecorded ==
  <>[](/\ \A f \in Frames \ {"All"} : \A e \in Over(f) :
              e \in recorded /\ (Event \cap Instants(e)) \ Overlooked \subseteq DataOf(e)
       /\ "All" \in Frames => Event \ Overlooked \subseteq DataOf(Entry("All", 0)))
================================================================================
