------------------------------ MODULE DateRanges ------------------------------
(***************************************************************************)
(* Ranges of instants, both ends included, as the account indexers keep    *)
(* them: clipping what is known from what is available, and merging the    *)
(* ranges that touch.                                                      *)
(***************************************************************************)
EXTENDS Integers, Sequences, SequencesExt

DateRange(s, e) == [startDate |-> s, endDate |-> e]

(* The ranges of the instants 0..last, empty ones excluded. *)
DateRangesUpTo(last) ==
  {r \in [startDate : 0..last, endDate : 0..last] : r.startDate <= r.endDate}

Instants(r) == r.startDate..r.endDate

Cover(R) == UNION {Instants(r) : r \in R}

(* The order of the store's keys: by start, then by end. *)
Before(r, q) ==
  \/ r.startDate < q.startDate
  \/ r.startDate = q.startDate /\ r.endDate < q.endDate

SortedRanges(R) ==
  [k \in 1..Cardinality(R) |->
     CHOOSE r \in R : Cardinality({q \in R : Before(q, r)}) = k - 1]

(* The ranges of R share no instant. *)
Disjoint(R) == \A r, q \in R : r # q => Instants(r) \cap Instants(q) = {}

(* Reference: the longest ranges made of the instants T alone. *)
MaximalRuns(T) ==
  {r \in {DateRange(s, e) : s, e \in T} :
     /\ r.startDate <= r.endDate
     /\ Instants(r) \subseteq T
     /\ r.startDate - 1 \notin T
     /\ r.endDate + 1 \notin T}
-----------------------------------------------------------------------------
(* What is left of a range when another is clipped from its middle, its     *)
(* left, its right, or is wider.                                            *)
LeftOf(cur, clip) == DateRange(cur.startDate, clip.startDate - 1)

(* Mutant: the last instant of the clipped range is left, too. *)
RightOfInclusive(cur, clip) == DateRange(clip.endDate, cur.endDate)

RightOf(cur, clip) == DateRange(clip.endDate + 1, cur.endDate)

InMiddle(cur, clip) ==
  /\ clip.startDate > cur.startDate /\ clip.startDate < cur.endDate
  /\ clip.endDate > cur.startDate /\ clip.endDate < cur.endDate

OnLeft(cur, clip) ==
  /\ clip.startDate <= cur.startDate
  /\ clip.endDate >= cur.startDate /\ clip.endDate < cur.endDate

OnRight(cur, clip) ==
  /\ clip.endDate >= cur.endDate
  /\ clip.startDate <= cur.endDate /\ clip.startDate > cur.startDate

OnAll(cur, clip) ==
  clip.startDate <= cur.startDate /\ clip.endDate >= cur.endDate

ClipDateRange(cur, clip) ==
  IF InMiddle(cur, clip) THEN {LeftOf(cur, clip), RightOf(cur, clip)}
  ELSE IF OnLeft(cur, clip) THEN {RightOf(cur, clip)}
  ELSE IF OnRight(cur, clip) THEN {LeftOf(cur, clip)}
  ELSE IF OnAll(cur, clip) THEN {}
  ELSE {cur}

ClipDateRanges(R, clip) == UNION {ClipDateRange(r, clip) : r \in R}

(* One range is clipped after another. *)
ClipAll(R, clips) ==
  LET left[n \in 0..Len(clips)] ==
        IF n = 0 THEN R ELSE ClipDateRanges(left[n - 1], clips[n])
  IN  left[Len(clips)]

(* The ranges that remain, in increasing order. *)
ClipDateRangesFromIterable(R, clips) == SortedRanges(ClipAll(R, clips))
-----------------------------------------------------------------------------
(* Merging reads ranges in increasing order and keeps the last one read, or *)
(* the union it ends, apart. prev is empty before the first range.          *)
MergeStart == [prev |-> {}, prevMerged |-> FALSE, merged |-> {}, old |-> {}, new |-> {}]

(* The range that was kept apart is complete. *)
MergeFlush(acc) ==
  [acc EXCEPT !.merged = @ \cup acc.prev,
              !.new = IF acc.prevMerged THEN @ \cup acc.prev ELSE @]

(* A range whose ends are swapped is replaced. *)
FixInvalid(acc, r) ==
  [acc EXCEPT !.old = @ \cup {r},
              !.new = @ \cup {DateRange(r.endDate, r.endDate)}]

MaxDate(a, b) == IF a >= b THEN a ELSE b

Touches(p, r) == p.endDate >= r.startDate - 1

Union(p, r) == DateRange(p.startDate, MaxDate(p.endDate, r.endDate))

(* The union of prev and the range read, p and r, becomes prev.             *)
MergeUnion(acc, p, r) ==
  LET u == Union(p, r)
  IN [acc EXCEPT
        !.old = @ \cup (IF r # u THEN {r} ELSE {})
                  \cup (IF ~acc.prevMerged /\ p # u THEN {p} ELSE {}),
        !.prevMerged = r # u /\ p # u,
        !.prev = {u}]

MergeRange(acc, r) ==
  IF r.endDate < r.startDate THEN FixInvalid(acc, r)
  ELSE IF acc.prev = {} THEN [acc EXCEPT !.prev = {r}]
  ELSE LET p == CHOOSE p \in acc.prev : TRUE
       IN IF Touches(p, r) THEN MergeUnion(acc, p, r)
          ELSE [MergeFlush(acc) EXCEPT !.prevMerged = FALSE, !.prev = {r}]

(* One range is read after another. *)
MergeDateRangesFromIterable(ranges) ==
  LET acc[n \in 0..Len(ranges)] ==
        IF n = 0 THEN MergeStart ELSE MergeRange(acc[n - 1], ranges[n])
  IN  MergeFlush(acc[Len(ranges)])
=============================================================================
