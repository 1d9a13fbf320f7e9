---------------------- MODULE AccountEntityIndexerProofs ----------------------
(***************************************************************************)
(* The ranges of one account, for every length of history, number of       *)
(* requests and faults:                                                    *)
(*  - clipping and merging a stream of ranges leaves exactly the instants  *)
(*    it should, in the fewest ranges (RangesAreExact);                    *)
(*  - compaction uncovers no instant, with any number of merges, until one *)
(*    of them has read ranges that share an instant (SoundInv);            *)
(*  - a ready range has its request (RequestInv);                          *)
(*  - what counts as processed was handled (HandledInv);                   *)
(*  - no instant is asked for by two requests at once (FetchedInv), and    *)
(*    none is handled twice (OnceInv), where nothing failed;               *)
(*  - the statistics of what was processed: an interval recorded as done   *)
(*    has every event it should (RecordedIsExact, from StatsInv).          *)
(***************************************************************************)
EXTENDS AccountEntityIndexer, TimeSeriesStats, RangeStream,
        FiniteSetTheorems, WellFoundedInduction, TLAPS

AnyRange == [startDate : Int, endDate : Int]

IsRange(r) == r \in AnyRange /\ r.startDate <= r.endDate

(* A range is clipped to ranges again, never to empty or reversed ones. *)
LEMMA ClipType ==
  ASSUME NEW cur, NEW clip, IsRange(cur), IsRange(clip)
  PROVE  \A r \in ClipDateRange(cur, clip) : IsRange(r)
BY DEF ClipDateRange, InMiddle, OnLeft, OnRight, OnAll, LeftOf, RightOf,
       DateRange, AnyRange, IsRange

(* Clipping a range leaves exactly its instants that the clipped range has  *)
(* not, whichever way the two lie: what clipDateRanges does to one range.   *)
THEOREM ClipOneExact ==
  ASSUME NEW cur, NEW clip, IsRange(cur), IsRange(clip)
  PROVE  Cover(ClipDateRange(cur, clip)) = Instants(cur) \ Instants(clip)
<1> USE DEF IsRange
<1>1. CASE InMiddle(cur, clip)
  <2>1. ClipDateRange(cur, clip) = {LeftOf(cur, clip), RightOf(cur, clip)}
    BY <1>1 DEF ClipDateRange
  <2>2. Cover(ClipDateRange(cur, clip)) = Instants(LeftOf(cur, clip)) \cup Instants(RightOf(cur, clip))
    BY <2>1 DEF Cover
  <2> QED  BY <1>1, <2>2 DEF InMiddle, LeftOf, RightOf, Instants, DateRange, AnyRange
<1>2. CASE ~InMiddle(cur, clip) /\ OnLeft(cur, clip)
  <2>1. Cover(ClipDateRange(cur, clip)) = Instants(RightOf(cur, clip))
    BY <1>2 DEF ClipDateRange, Cover
  <2> QED  BY <1>2, <2>1 DEF OnLeft, RightOf, Instants, DateRange, AnyRange
<1>3. CASE ~InMiddle(cur, clip) /\ ~OnLeft(cur, clip) /\ OnRight(cur, clip)
  <2>1. Cover(ClipDateRange(cur, clip)) = Instants(LeftOf(cur, clip))
    BY <1>3 DEF ClipDateRange, Cover
  <2> QED  BY <1>3, <2>1 DEF OnRight, LeftOf, Instants, DateRange, AnyRange
<1>4. CASE ~InMiddle(cur, clip) /\ ~OnLeft(cur, clip) /\ ~OnRight(cur, clip) /\ OnAll(cur, clip)
  <2>1. Cover(ClipDateRange(cur, clip)) = {}
    BY <1>4 DEF ClipDateRange, Cover
  <2> QED  BY <1>4, <2>1 DEF OnAll, Instants, AnyRange
<1>5. CASE ~InMiddle(cur, clip) /\ ~OnLeft(cur, clip) /\ ~OnRight(cur, clip) /\ ~OnAll(cur, clip)
  <2>1. Cover(ClipDateRange(cur, clip)) = Instants(cur)
    BY <1>5 DEF ClipDateRange, Cover
  <2>2. Instants(cur) \cap Instants(clip) = {}
    BY <1>5 DEF InMiddle, OnLeft, OnRight, OnAll, Instants, AnyRange
  <2> QED  BY <2>1, <2>2
<1> QED  BY <1>1, <1>2, <1>3, <1>4, <1>5

(* One step of clipDateRangesFromIterable: of all the ranges that remain,   *)
(* exactly the instants of the clipped range go.                            *)
THEOREM ClipManyExact ==
  ASSUME NEW R, \A r \in R : IsRange(r), NEW clip, IsRange(clip)
  PROVE  /\ Cover(ClipDateRanges(R, clip)) = Cover(R) \ Instants(clip)
         /\ \A r \in ClipDateRanges(R, clip) : IsRange(r)
<1>1. \A r \in R : Cover(ClipDateRange(r, clip)) = Instants(r) \ Instants(clip)
  BY ClipOneExact
<1>2. ASSUME NEW i
      PROVE  i \in Cover(ClipDateRanges(R, clip)) <=>
               \E r \in R : i \in Cover(ClipDateRange(r, clip))
  BY DEF Cover, ClipDateRanges
<1>3. ASSUME NEW i
      PROVE  i \in Cover(R) <=> \E r \in R : i \in Instants(r)
  BY DEF Cover
<1>4. Cover(ClipDateRanges(R, clip)) = Cover(R) \ Instants(clip)
  BY <1>1, <1>2, <1>3
<1>5. \A r \in ClipDateRanges(R, clip) : IsRange(r)
  BY ClipType DEF ClipDateRanges
<1> QED  BY <1>4, <1>5
-----------------------------------------------------------------------------
LEMMA HasLeast ==
  ASSUME NEW S \in SUBSET Nat, S # {}
  PROVE  \E x \in S : \A y \in S : x <= y
<1>1. \E x \in S : \A y \in S : ~(<<y, x>> \in OpToRel(<, Nat))
  BY NatLessThanWellFounded, WFMin
<1>2. \A x, y \in Nat : <<y, x>> \in OpToRel(<, Nat) <=> y < x
  BY DEF OpToRel
<1>3. PICK x \in S : \A y \in S : ~(y < x)
  BY <1>1, <1>2
<1>4. QED
  BY <1>3

(* The unions a merge would save if no range was left to read. *)
Unions(acc) == IF acc.prevMerged THEN acc.new \cup acc.prev ELSE acc.new

(* n takes in the range r, and is another one. *)
Inside(r, n) == n.startDate <= r.startDate /\ r.endDate <= n.endDate /\ r # n

(* What a merge has read, T being still to be read, as long as no two of    *)
(* the ranges it read share an instant: each range it is to remove is       *)
(* strictly inside a union that it is to save.                              *)
ReadSound(acc, T) ==
  /\ acc \in MergeAcc
  /\ acc.prev = {} => acc.old = {} /\ ~acc.prevMerged
  /\ \A p1, p2 \in acc.prev : p1 = p2
  /\ \A p \in acc.prev, q \in T : p.startDate <= q.startDate
  /\ \A o \in acc.old : \E n \in Unions(acc) : Inside(o, n)

(* Once its unions are saved, what it is to remove is strictly inside a     *)
(* stored range, though that need not be the union it saved any more.       *)
MergeSound(m) ==
  /\ merging[m].step = "read" => ReadSound(merging[m].acc, merging[m].toRead)
  /\ merging[m].step = "saved" =>
       \A o \in merging[m].acc.old : \E k \in Known : Inside(o, k)

MergesSound == \A m \in Merger : MergeSound(m)

SoundInv == ~nested => MergesSound
-----------------------------------------------------------------------------
LEMMA RangeType ==
  ASSUME NEW r \in DateRanges
  PROVE  /\ r.startDate \in Int /\ r.endDate \in Int /\ r.startDate <= r.endDate
         /\ r.startDate \in 0..LastDate /\ r.endDate \in 0..LastDate
         /\ r = [startDate |-> r.startDate, endDate |-> r.endDate]
BY LastDateAssumption DEF DateRanges, DateRangesUpTo

LEMMA UnionType ==
  ASSUME NEW p \in DateRanges, NEW r \in DateRanges
  PROVE  Union(p, r) \in DateRanges
BY RangeType DEF Union, DateRange, MaxDate, DateRanges, DateRangesUpTo

LEMMA MergeRangeType ==
  ASSUME NEW acc \in MergeAcc, NEW r \in DateRanges
  PROVE  MergeRange(acc, r) \in MergeAcc
<1>1. ~(r.endDate < r.startDate)
  BY RangeType
<1>2. CASE acc.prev = {}
  BY <1>1, <1>2 DEF MergeRange, MergeAcc
<1>3. CASE acc.prev # {}
  <2> DEFINE p == CHOOSE p \in acc.prev : TRUE
  <2>1. p \in acc.prev /\ p \in DateRanges
    BY <1>3 DEF MergeAcc
  <2> DEFINE u == Union(p, r)
  <2>2. u \in DateRanges
    BY <2>1, UnionType
  <2>3. MergeRange(acc, r) = IF Touches(p, r) THEN MergeUnion(acc, p, r)
                             ELSE [MergeFlush(acc) EXCEPT !.prevMerged = FALSE, !.prev = {r}]
    BY <1>1, <1>3 DEF MergeRange
  <2> HIDE DEF p
  <2>4. MergeUnion(acc, p, r) \in MergeAcc
    BY <2>1, <2>2 DEF MergeUnion, MergeAcc
  <2>5. MergeFlush(acc) \in MergeAcc
    BY DEF MergeFlush, MergeAcc
  <2>6. [MergeFlush(acc) EXCEPT !.prevMerged = FALSE, !.prev = {r}] \in MergeAcc
    BY <2>5 DEF MergeAcc
  <2>7. QED
    BY <2>3, <2>4, <2>6
<1>4. QED
  BY <1>2, <1>3

LEMMA MergeStepType ==
  ASSUME CompactionTypeOK, NEW m \in Merger, MergeStep(m)
  PROVE  CompactionTypeOK'
<1> USE DEF CompactionTypeOK
<1>1. NoMerge \in MergeState /\ InState("Processed") \in SUBSET DateRanges
  BY DEF NoMerge, MergeState, MergeStart, MergeAcc, InState
<1>2. /\ merging[m] \in MergeState
      /\ merging[m].acc \in MergeAcc /\ merging[m].toRead \in SUBSET DateRanges
      /\ MergeFlush(merging[m].acc) \in MergeAcc
  BY DEF MergeState, MergeFlush, MergeAcc
<1>3. CASE StartMerge(m)
  BY <1>1, <1>3 DEF StartMerge, MergeState
<1>4. CASE ReadState(m)
  <2>1. PICK r \in merging[m].toRead :
          merging' = [merging EXCEPT
            ![m].toRead = @ \ {r},
            ![m].acc = IF states[r] = "none" THEN @ ELSE MergeRange(@, r)]
    BY <1>4 DEF ReadState
  <2>2. MergeRange(merging[m].acc, r) \in MergeAcc
    BY <1>2, MergeRangeType
  <2>3. QED
    BY <1>2, <1>4, <2>1, <2>2 DEF ReadState, MergeState
<1>5. CASE SaveMerged(m)
  BY <1>1, <1>2, <1>5 DEF SaveMerged, MergeState, StateCode
<1>6. CASE RemoveMerged(m)
  BY <1>1, <1>2, <1>6 DEF RemoveMerged, MergeState, StateCode
<1>7. QED
  BY <1>3, <1>4, <1>5, <1>6 DEF MergeStep
-----------------------------------------------------------------------------
(* The union of a range and one that begins after its end takes both in.    *)
LEMMA UnionTakesIn ==
  ASSUME NEW p \in DateRanges, NEW r \in DateRanges, p.endDate < r.startDate
  PROVE  /\ Inside(p, Union(p, r)) /\ Inside(r, Union(p, r))
         /\ Union(p, r).startDate = p.startDate
         /\ Union(p, r) # p /\ Union(p, r) # r
<1>1. /\ p.startDate \in Int /\ p.endDate \in Int /\ p.startDate <= p.endDate
      /\ r.startDate \in Int /\ r.endDate \in Int /\ r.startDate <= r.endDate
  BY RangeType
<1>2. Union(p, r) = [startDate |-> p.startDate, endDate |-> r.endDate]
  BY <1>1 DEF Union, DateRange, MaxDate
<1>3. QED
  BY <1>1, <1>2 DEF Inside

LEMMA InsideTrans ==
  ASSUME NEW o \in DateRanges, NEW p \in DateRanges, NEW n \in DateRanges,
         Inside(o, p), Inside(p, n)
  PROVE  Inside(o, n)
<1>1. /\ o.startDate \in Int /\ p.startDate \in Int /\ n.startDate \in Int
      /\ o.endDate \in Int /\ p.endDate \in Int /\ n.endDate \in Int
      /\ o = [startDate |-> o.startDate, endDate |-> o.endDate]
      /\ p = [startDate |-> p.startDate, endDate |-> p.endDate]
      /\ n = [startDate |-> n.startDate, endDate |-> n.endDate]
  BY RangeType
<1>2. QED
  BY <1>1 DEF Inside

(* The cases of mergeRange when a range k is kept apart. *)
LEMMA MergeRangeCases ==
  ASSUME NEW acc, NEW k, acc.prev = {k}, NEW r, ~(r.endDate < r.startDate)
  PROVE  MergeRange(acc, r) =
           IF Touches(k, r) THEN MergeUnion(acc, k, r)
           ELSE [MergeFlush(acc) EXCEPT !.prevMerged = FALSE, !.prev = {r}]
<1>1. (CHOOSE p \in acc.prev : TRUE) = k
  OBVIOUS
<1> QED  BY <1>1 DEF MergeRange

(* Reading the next range, when it shares no instant with the one that was  *)
(* kept apart.                                                              *)
LEMMA ReadStaysSound ==
  ASSUME NEW acc, NEW T \in SUBSET DateRanges, NEW r \in T, ReadSound(acc, T),
         \A q \in T \ {r} : Before(r, q),
         \A p \in acc.prev : Instants(p) \cap Instants(r) = {}
  PROVE  ReadSound(MergeRange(acc, r), T \ {r})
<1> DEFINE after == MergeRange(acc, r)
<1> SUFFICES ReadSound(after, T \ {r})
  OBVIOUS
<1>0. /\ r \in DateRanges /\ acc \in MergeAcc
      /\ r.startDate \in Int /\ r.endDate \in Int /\ ~(r.endDate < r.startDate)
  BY RangeType DEF ReadSound
<1>1. after \in MergeAcc
  BY <1>0, MergeRangeType
<1> HIDE DEF after
<1>2. \A q \in T \ {r} : r.startDate <= q.startDate
  <2> TAKE q \in T \ {r}
  <2>1. q \in DateRanges /\ q.startDate \in Int /\ Before(r, q)
    BY RangeType
  <2>2. QED
    BY <1>0, <2>1 DEF Before
<1>3. CASE acc.prev = {}
  <2>1. after = [acc EXCEPT !.prev = {r}]
    BY <1>0, <1>3 DEF MergeRange, after
  <2>2. after.prev = {r} /\ after.prevMerged = acc.prevMerged /\ after.old = acc.old
    BY <1>0, <2>1 DEF MergeAcc
  <2>3. acc.old = {} /\ ~acc.prevMerged
    BY <1>3 DEF ReadSound
  <2>4. QED
    BY <1>1, <1>2, <2>2, <2>3 DEF ReadSound
<1>4. CASE acc.prev # {}
  <2>1. PICK p \in acc.prev : acc.prev = {p}
    BY <1>4 DEF ReadSound
  <2>2. p \in DateRanges /\ p.startDate \in Int /\ p.endDate \in Int /\ p.startDate <= p.endDate
    BY <1>0, RangeType DEF MergeAcc
  <2>3. /\ p.startDate <= r.startDate /\ p.endDate < r.startDate
        /\ \A q \in T : p.startDate <= q.startDate
    <3>1. /\ p.startDate <= r.startDate /\ Instants(p) \cap Instants(r) = {}
          /\ \A q \in T : p.startDate <= q.startDate
      BY <2>1 DEF ReadSound
    <3>2. QED
      BY <1>0, <2>2, <3>1 DEF Instants
  <2>4. after = IF Touches(p, r) THEN MergeUnion(acc, p, r)
                ELSE [MergeFlush(acc) EXCEPT !.prevMerged = FALSE, !.prev = {r}]
    BY <1>0, <2>1, MergeRangeCases, Zenon DEF after
  <2>5. CASE Touches(p, r)
    <3> DEFINE u == Union(p, r)
    <3>1. /\ Inside(p, u) /\ Inside(r, u) /\ u.startDate = p.startDate /\ u # p /\ u # r
          /\ u \in DateRanges
      BY <1>0, <2>2, <2>3, UnionTakesIn, UnionType
    <3> HIDE DEF u
    <3>2. after = MergeUnion(acc, p, r)
      BY <2>4, <2>5
    <3>3. after = [acc EXCEPT !.old = @ \cup {r} \cup (IF ~acc.prevMerged THEN {p} ELSE {}),
                              !.prevMerged = TRUE, !.prev = {u}]
      BY <3>1, <3>2 DEF MergeUnion, u
    <3>4. /\ after.prev = {u} /\ after.prevMerged = TRUE /\ after.new = acc.new
          /\ after.old \subseteq acc.old \cup {r, p}
      BY <1>0, <3>3 DEF MergeAcc
    <3>5. Unions(after) = acc.new \cup {u}
      BY <3>4 DEF Unions
    <3>6. ASSUME NEW o \in acc.old PROVE \E n \in Unions(after) : Inside(o, n)
      <4>1. PICK n \in Unions(acc) : Inside(o, n)
        BY DEF ReadSound
      <4>2. CASE n \in acc.new
        BY <3>5, <4>1, <4>2
      <4>3. CASE n = p
        <5>1. o \in DateRanges
          BY <1>0 DEF MergeAcc
        <5>2. Inside(o, u)
          BY <2>2, <3>1, <4>1, <4>3, <5>1, InsideTrans
        <5>3. QED
          BY <3>5, <5>2
      <4>4. QED
        BY <2>1, <4>1, <4>2, <4>3 DEF Unions
    <3>7. \A o \in after.old : \E n \in Unions(after) : Inside(o, n)
      BY <3>1, <3>4, <3>5, <3>6
    <3>8. \A q \in T \ {r} : u.startDate <= q.startDate
      BY <2>3, <3>1
    <3>9. QED
      BY <1>1, <3>4, <3>7, <3>8 DEF ReadSound
  <2>6. CASE ~Touches(p, r)
    <3>1. after = [MergeFlush(acc) EXCEPT !.prevMerged = FALSE, !.prev = {r}]
      BY <2>4, <2>6
    <3>2. /\ after.prev = {r} /\ after.prevMerged = FALSE /\ after.old = acc.old
          /\ after.new = Unions(acc)
      BY <1>0, <3>1 DEF MergeFlush, Unions, MergeAcc
    <3>3. Unions(after) = Unions(acc)
      BY <3>2 DEF Unions
    <3>4. \A o \in after.old : \E n \in Unions(after) : Inside(o, n)
      BY <3>2, <3>3 DEF ReadSound
    <3>5. QED
      BY <1>1, <1>2, <3>2, <3>4 DEF ReadSound
  <2>7. QED
    BY <2>5, <2>6
<1>5. QED
  BY <1>3, <1>4
-----------------------------------------------------------------------------
Length(r) == r.endDate - r.startDate

(* A range is the same as one that it is inside, or is inside it.           *)
LiesIn(r, n) == r = n \/ Inside(r, n)

(* When each range of O is strictly inside another stored one, O may go:    *)
(* the longest stored range around a range of O is not one of O.            *)
LEMMA LongestStays ==
  ASSUME NEW R \in SUBSET DateRanges, NEW O,
         \A o \in O : \E k \in R : Inside(o, k), NEW r \in R
  PROVE  \E k \in R \ O : LiesIn(r, k)
<1> DEFINE Around == {k \in R : LiesIn(r, k)}
           Short == {LastDate - Length(k) : k \in Around}
<1>1. \A k \in R : /\ k \in DateRanges /\ k.startDate \in Int /\ k.endDate \in Int
                   /\ Length(k) \in Int /\ LastDate - Length(k) \in Nat
  <2> TAKE k \in R
  <2>1. k \in DateRanges /\ k.startDate \in 0..LastDate /\ k.endDate \in 0..LastDate
    BY RangeType
  <2>2. QED
    BY <2>1, LastDateAssumption DEF Length
<1>2. Short \in SUBSET Nat /\ Short # {}
  BY <1>1 DEF LiesIn
<1>3. PICK x \in Short : \A y \in Short : x <= y
  <2> HIDE DEF Short
  <2>1. QED
    BY <1>2, HasLeast
<1>4. PICK k \in Around : x = LastDate - Length(k)
  BY <1>3
<1>5. ASSUME k \in O PROVE FALSE
  <2>1. PICK j \in R : Inside(k, j)
    BY <1>5
  <2>2. r \in DateRanges /\ k \in DateRanges /\ j \in DateRanges
    BY <1>1, <1>4
  <2>3. LiesIn(r, j)
    BY <1>4, <2>1, <2>2, InsideTrans DEF LiesIn
  <2>4. LastDate - Length(k) <= LastDate - Length(j)
    BY <1>3, <1>4, <2>1, <2>3
  <2>5. /\ k = [startDate |-> k.startDate, endDate |-> k.endDate]
        /\ j = [startDate |-> j.startDate, endDate |-> j.endDate]
    BY <2>2, RangeType
  <2>6. QED
    BY <1>1, <1>4, <2>1, <2>4, <2>5, LastDateAssumption DEF Length, Inside
<1>6. QED
  BY <1>4, <1>5

LEMMA LiesInCovers ==
  ASSUME NEW r \in DateRanges, NEW k \in DateRanges, LiesIn(r, k)
  PROVE  Instants(r) \subseteq Instants(k)
<1>1. /\ r.startDate \in Int /\ r.endDate \in Int /\ k.startDate \in Int /\ k.endDate \in Int
  BY RangeType
<1>2. QED
  BY <1>1 DEF LiesIn, Inside, Instants

(* Steps that no merge takes part in, and that remove no range.             *)
LEMMA SoundKept ==
  ASSUME MergesSound, Known \subseteq Known', \A m \in Merger : merging'[m] \in {merging[m], NoMerge}
  PROVE  MergesSound'
<1> SUFFICES ASSUME NEW m \in Merger PROVE MergeSound(m)'
  BY DEF MergesSound
<1>1. CASE merging'[m] = merging[m]
  BY <1>1 DEF MergesSound, MergeSound
<1>2. CASE merging'[m] = NoMerge
  BY <1>2 DEF MergeSound, NoMerge
<1>3. QED
  BY <1>1, <1>2

(* A step of any merge, beside whatever others, unless it has read ranges   *)
(* that share an instant.                                                   *)
LEMMA SoundStep ==
  ASSUME CompactionTypeOK, MergesSound, NEW m \in Merger, MergeStep(m), ~nested'
  PROVE  /\ MergesSound'
         /\ \A r \in Known : \E k \in Known' : LiesIn(r, k)
<1> DEFINE acc == merging[m].acc
<1>1. /\ merging \in [Merger -> MergeState] /\ merging[m] \in MergeState
      /\ acc \in MergeAcc /\ merging[m].toRead \in SUBSET DateRanges
  BY DEF CompactionTypeOK, MergeState
<1>2. \A k \in Merger \ {m} : merging'[k] = merging[k]
  BY <1>1 DEF MergeStep, StartMerge, ReadState, SaveMerged, RemoveMerged
<1>3. ASSUME Known \subseteq Known', MergeSound(m)'
      PROVE  MergesSound' /\ \A r \in Known : \E k \in Known' : LiesIn(r, k)
  BY <1>2, <1>3 DEF MergesSound, MergeSound, LiesIn
<1>4. CASE StartMerge(m)
  <2>1. Known' = Known
    BY <1>4 DEF StartMerge, Known
  <2>2. merging'[m].step = "read" /\ merging'[m].acc = MergeStart
    BY <1>1, <1>4 DEF StartMerge, NoMerge
  <2>3. ReadSound(MergeStart, merging'[m].toRead)
    BY DEF ReadSound, MergeStart, MergeAcc
  <2>4. MergeSound(m)'
    BY <2>2, <2>3 DEF MergeSound
  <2>5. QED
    BY <1>3, <2>1, <2>4
<1>5. CASE ReadState(m)
  <2>1. Known' = Known /\ merging[m].step = "read" /\ ReadSound(acc, merging[m].toRead)
    BY <1>5 DEF ReadState, Known, MergesSound, MergeSound
  <2>2. PICK r \in merging[m].toRead :
          /\ \A q \in merging[m].toRead \ {r} : Before(r, q)
          /\ merging' = [merging EXCEPT
               ![m].toRead = @ \ {r},
               ![m].acc = IF states[r] = "none" THEN @ ELSE MergeRange(@, r)]
          /\ nested' = (nested \/ SharesInstants(m, r))
    BY <1>5 DEF ReadState
  <2>3. /\ merging'[m].step = "read" /\ merging'[m].toRead = merging[m].toRead \ {r}
        /\ merging'[m].acc = IF states[r] = "none" THEN acc ELSE MergeRange(acc, r)
    BY <1>1, <2>1, <2>2 DEF MergeState
  <2>4. CASE states[r] = "none"
    <3>1. ReadSound(acc, merging[m].toRead \ {r})
      BY <2>1 DEF ReadSound
    <3>2. MergeSound(m)'
      BY <2>3, <2>4, <3>1 DEF MergeSound
    <3>3. QED
      BY <1>3, <2>1, <3>2
  <2>5. CASE states[r] # "none"
    <3>1. \A p \in acc.prev : Instants(p) \cap Instants(r) = {}
      BY <2>2, <2>5 DEF SharesInstants
    <3>2. ReadSound(MergeRange(acc, r), merging[m].toRead \ {r})
      BY <1>1, <2>1, <2>2, <3>1, ReadStaysSound
    <3>3. MergeSound(m)'
      BY <2>3, <2>5, <3>2 DEF MergeSound
    <3>4. QED
      BY <1>3, <2>1, <3>3
  <2>6. QED
    BY <2>4, <2>5
<1>6. CASE SaveMerged(m)
  <2>1. merging[m].step = "read" /\ ReadSound(acc, merging[m].toRead)
    BY <1>6 DEF SaveMerged, MergesSound, MergeSound
  <2>2. /\ MergeFlush(acc).new = Unions(acc) /\ MergeFlush(acc).old = acc.old
        /\ Unions(acc) \in SUBSET DateRanges
    BY <1>1 DEF MergeFlush, Unions, MergeAcc
  <2>3. /\ states' = [r \in DateRanges |-> IF r \in Unions(acc) THEN "Processed" ELSE states[r]]
        /\ merging' = [merging EXCEPT ![m] = IF Unions(acc) = {} THEN NoMerge
                         ELSE [@ EXCEPT !.step = "saved", !.acc = MergeFlush(acc)]]
    BY <1>6, <2>2 DEF SaveMerged
  <2>4. Known \subseteq Known' /\ Unions(acc) \subseteq Known'
    BY <2>2, <2>3 DEF Known
  <2>5. \/ merging'[m] = NoMerge
        \/ merging'[m].step = "saved" /\ merging'[m].acc.old = acc.old
    BY <1>1, <2>2, <2>3 DEF MergeState
  <2>6. \A o \in acc.old : \E k \in Known' : Inside(o, k)
    BY <2>1, <2>4 DEF ReadSound
  <2>7. MergeSound(m)'
    BY <2>5, <2>6 DEF MergeSound, NoMerge
  <2>8. QED
    BY <1>3, <2>4, <2>7
<1>7. CASE RemoveMerged(m)
  <2>1. /\ Known' = Known \ acc.old /\ Known \in SUBSET DateRanges
        /\ merging'[m] = NoMerge /\ merging[m].step = "saved"
    BY <1>1, <1>7 DEF RemoveMerged, Known
  <2>2. \A o \in acc.old : \E k \in Known : Inside(o, k)
    BY <2>1 DEF MergesSound, MergeSound
  <2>3. \A r \in Known : \E k \in Known' : LiesIn(r, k)
    <3> DEFINE O == acc.old
    <3>1. \A o \in O : \E k \in Known : Inside(o, k)
      BY <2>2
    <3>2. Known' = Known \ O /\ Known \in SUBSET DateRanges
      BY <2>1
    <3> HIDE DEF O
    <3>3. \A r \in Known : \E k \in Known \ O : LiesIn(r, k)
      BY <3>1, <3>2, LongestStays
    <3>4. QED
      BY <3>2, <3>3
  <2>4. ASSUME NEW k \in Merger \ {m}, merging[k].step = "saved", NEW o \in merging[k].acc.old
        PROVE  \E j \in Known' : Inside(o, j)
    <3>1. PICK i \in Known : Inside(o, i)
      BY <2>4 DEF MergesSound, MergeSound
    <3>2. PICK j \in Known' : LiesIn(i, j)
      BY <2>3
    <3>3. o \in DateRanges /\ i \in DateRanges /\ j \in DateRanges
      BY <1>1, <2>1, <3>1, <3>2 DEF MergeState, MergeAcc
    <3>4. QED
      BY <3>1, <3>2, <3>3, InsideTrans DEF LiesIn
  <2>5. MergesSound'
    <3> SUFFICES ASSUME NEW k \in Merger PROVE MergeSound(k)'
      BY DEF MergesSound
    <3>1. CASE k = m
      BY <2>1, <3>1 DEF MergeSound, NoMerge
    <3>2. CASE k # m
      BY <1>2, <2>4, <3>2 DEF MergesSound, MergeSound
    <3>3. QED
      BY <3>1, <3>2
  <2>6. QED
    BY <2>3, <2>5
<1>8. QED
  BY <1>4, <1>5, <1>6, <1>7 DEF MergeStep

LEMMA CoverGrows ==
  ASSUME NEW R, NEW Q, R \subseteq Q
  PROVE  Cover(R) \subseteq Cover(Q)
BY DEF Cover

LEMMA CoverWithin ==
  ASSUME NEW R \in SUBSET DateRanges, NEW Q \in SUBSET DateRanges,
         \A r \in R : \E k \in Q : LiesIn(r, k)
  PROVE  Cover(R) \subseteq Cover(Q)
<1>1. \A r \in R : \E k \in Q : Instants(r) \subseteq Instants(k)
  <2> TAKE r \in R
  <2>1. PICK k \in Q : LiesIn(r, k)
    OBVIOUS
  <2>2. QED
    BY <2>1, LiesInCovers
<1>2. QED
  BY <1>1 DEF Cover

LEMMA NestedStays ==
  ASSUME NEW m \in Merger, MergeStep(m), ~nested'
  PROVE  ~nested
BY DEF MergeStep, StartMerge, ReadState, SaveMerged, RemoveMerged
-----------------------------------------------------------------------------
(* The compaction by itself: its store has processed ranges alone.          *)
CompactionInv ==
  /\ CompactionTypeOK
  /\ Known = InState("Processed")
  /\ SoundInv

LEMMA CompactionStep ==
  ASSUME CompactionInv, [CompactionNext]_compactionVars
  PROVE  /\ CompactionInv'
         /\ ~nested' => Cover(InState("Processed")) \subseteq Cover(InState("Processed"))'
<1>1. CompactionTypeOK /\ Known = InState("Processed") /\ Known \in SUBSET DateRanges /\ SoundInv
  BY DEF CompactionInv, Known
<1>2. ASSUME NEW m \in Merger, MergeStep(m)
      PROVE  /\ CompactionInv'
             /\ ~nested' => Cover(Known) \subseteq Cover(Known')
  <2>1. CompactionTypeOK'
    BY <1>1, <1>2, MergeStepType
  <2>2. Known' = InState("Processed")'
    <3>1. \A r \in DateRanges : states[r] # "none" => states[r] = "Processed"
      BY <1>1 DEF Known, InState
    <3>2. QED
      BY <1>2, <3>1 DEF MergeStep, StartMerge, ReadState, SaveMerged, RemoveMerged, Known, InState
  <2>3. ASSUME ~nested' PROVE MergesSound' /\ Cover(Known) \subseteq Cover(Known')
    <3>1. MergesSound
      BY <1>1, <1>2, <2>3, NestedStays DEF SoundInv
    <3>2. MergesSound' /\ \A r \in Known : \E k \in Known' : LiesIn(r, k)
      BY <1>1, <1>2, <2>3, <3>1, SoundStep
    <3>3. Known' \in SUBSET DateRanges
      BY DEF Known
    <3>4. QED
      BY <1>1, <3>2, <3>3, CoverWithin
  <2>4. QED
    BY <2>1, <2>2, <2>3 DEF CompactionInv, SoundInv
<1>3. ASSUME NEW r \in DateRanges, Process(r)
      PROVE  CompactionInv' /\ Cover(Known) \subseteq Cover(Known')
  <2>1. /\ states' = [states EXCEPT ![r] = "Processed"] /\ merging' = merging /\ nested' = nested
    BY <1>3 DEF Process
  <2>2. /\ CompactionTypeOK' /\ Known \subseteq Known' /\ Known' = InState("Processed")'
    BY <1>1, <2>1 DEF CompactionTypeOK, StateCode, Known, InState
  <2>3. SoundInv'
    BY <1>1, <2>1, <2>2, SoundKept DEF SoundInv
  <2>4. QED
    BY <2>2, <2>3, CoverGrows DEF CompactionInv
<1>4. CASE UNCHANGED compactionVars
  <2>1. Known' = Known /\ InState("Processed")' = InState("Processed") /\ CompactionTypeOK'
    BY <1>1, <1>4 DEF compactionVars, Known, InState, CompactionTypeOK
  <2>2. SoundInv'
    BY <1>1, <1>4, <2>1, SoundKept DEF SoundInv, compactionVars
  <2>3. QED
    BY <1>1, <2>1, <2>2 DEF CompactionInv
<1>5. CompactionInv' => Known' = InState("Processed")'
  BY DEF CompactionInv
<1>6. QED
  BY <1>1, <1>2, <1>3, <1>4, <1>5 DEF CompactionNext

LEMMA CompactionStart == CompactionInit => CompactionInv
<1> SUFFICES ASSUME CompactionInit PROVE CompactionInv
  OBVIOUS
<1>1. CompactionTypeOK
  BY DEF CompactionInit, CompactionTypeOK, NoMerge, MergeState, MergeAcc, MergeStart, StateCode
<1>2. Known = InState("Processed")
  BY DEF CompactionInit, Known, InState
<1>3. MergesSound
  BY DEF CompactionInit, MergesSound, MergeSound, NoMerge
<1>4. QED
  BY <1>1, <1>2, <1>3 DEF CompactionInv, SoundInv

(* Each range that a merge will remove is strictly inside a stored one,     *)
(* however many merges are under way: as long as none of them has read      *)
(* ranges that share an instant.                                            *)
THEOREM CompactionInvCorrect == CompactionSpec => []CompactionInv
<1>1. CompactionInv /\ [CompactionNext]_compactionVars => CompactionInv'
  BY CompactionStep
<1>2. QED
  BY <1>1, CompactionStart, PTL DEF CompactionSpec

(* mergeStates saves the unions before it removes what they replace, so     *)
(* that no processed instant is ever seen as not processed: for any number  *)
(* of merges at once and any ranges processed meanwhile, until a merge has  *)
(* read ranges that share an instant. From there on it does not hold.       *)
THEOREM CompactionKeepsCoverage == CompactionSpec => ApartMergesKeepCoverage
<1>1. CompactionInv /\ [CompactionNext]_compactionVars
        => [~nested' => Cover(InState("Processed")) \subseteq Cover(InState("Processed"))']_compactionVars
  BY CompactionStep
<1>2. QED
  BY <1>1, CompactionInvCorrect, PTL DEF CompactionSpec, ApartMergesKeepCoverage
-----------------------------------------------------------------------------
(* How many ranges of R come before r. *)
Rank(R, r) == Cardinality({q \in R : Before(q, r)})

LEMMA BeforeOrders ==
  ASSUME NEW p, IsRange(p), NEW q, IsRange(q), NEW r, IsRange(r)
  PROVE  /\ ~Before(p, p)
         /\ Before(p, q) /\ Before(q, r) => Before(p, r)
         /\ Before(p, q) \/ Before(q, p) \/ p = q
BY DEF Before, IsRange, AnyRange

LEMMA RankType ==
  ASSUME NEW R, IsFiniteSet(R), \A r \in R : IsRange(r), NEW r \in R
  PROVE  /\ Rank(R, r) \in 0..(Cardinality(R) - 1)
         /\ \A q \in R : Before(q, r) => Rank(R, q) < Rank(R, r)
<1> DEFINE Below(p) == {q \in R : Before(q, p)}
<1>1. \A p \in R : IsFiniteSet(Below(p)) /\ Cardinality(Below(p)) \in Nat
  <2> TAKE p \in R
  <2>1. Below(p) \in SUBSET R
    OBVIOUS
  <2> HIDE DEF Below
  <2>2. IsFiniteSet(Below(p))
    BY <2>1, FS_Subset
  <2>3. QED
    BY <2>2, FS_CardinalityType
<1>2. IsFiniteSet(R \ {r}) /\ Cardinality(R \ {r}) = Cardinality(R) - 1 /\ Cardinality(R) \in Nat
  BY FS_RemoveElement, FS_CardinalityType
<1>3. Cardinality(Below(r)) <= Cardinality(R) - 1
  <2>1. Below(r) \in SUBSET (R \ {r})
    BY BeforeOrders
  <2> HIDE DEF Below
  <2>2. Cardinality(Below(r)) <= Cardinality(R \ {r})
    BY <2>1, <1>2, FS_Subset
  <2>3. QED
    BY <2>2, <1>2
<1>4. ASSUME NEW q \in R, Before(q, r)
      PROVE  Cardinality(Below(q)) < Cardinality(Below(r))
  <2>1. Below(q) \in SUBSET (Below(r) \ {q}) /\ q \in Below(r)
    BY <1>4, BeforeOrders
  <2> HIDE DEF Below
  <2>2. IsFiniteSet(Below(r)) /\ Cardinality(Below(r)) \in Nat /\ Cardinality(Below(q)) \in Nat
    BY <1>1
  <2>3. IsFiniteSet(Below(r) \ {q}) /\ Cardinality(Below(r) \ {q}) = Cardinality(Below(r)) - 1
    BY <2>1, <2>2, FS_RemoveElement
  <2>4. Cardinality(Below(q)) <= Cardinality(Below(r) \ {q})
    BY <2>1, <2>3, FS_Subset
  <2>5. QED
    BY <2>2, <2>3, <2>4
<1>5. \A q \in R : Rank(R, q) = Cardinality(Below(q))
  BY DEF Rank
<1> HIDE DEF Below
<1>6. QED
  BY <1>1, <1>2, <1>3, <1>4, <1>5

(* Each rank is that of one range.                                          *)
LEMMA RankOnto ==
  ASSUME NEW R, IsFiniteSet(R), \A r \in R : IsRange(r), NEW k \in 1..Cardinality(R)
  PROVE  \E r \in R : Rank(R, r) = k - 1
<1> DEFINE n == Cardinality(R)
           f == [r \in R |-> Rank(R, r) + 1]
<1>1. n \in Nat /\ IsFiniteSet(1..n) /\ Cardinality(1..n) = n
  <2>1. n \in Nat
    BY FS_CardinalityType
  <2> HIDE DEF n
  <2>2. QED
    BY <2>1, FS_Interval
<1>2. f \in [R -> 1..n]
  <2>1. \A r \in R : Rank(R, r) \in 0..(n - 1)
    BY RankType
  <2>2. \A r \in R : Rank(R, r) + 1 \in 1..n
    BY <2>1, <1>1
  <2>3. QED
    BY <2>2
<1>3. \A p, q \in R : f[p] = f[q] => p = q
  <2> SUFFICES ASSUME NEW p \in R, NEW q \in R, f[p] = f[q], p # q PROVE FALSE
    OBVIOUS
  <2>1. Rank(R, p) \in Int /\ Rank(R, q) \in Int
    BY RankType
  <2>2. Rank(R, p) = Rank(R, q)
    BY <2>1
  <2>3. Before(p, q) \/ Before(q, p)
    BY BeforeOrders
  <2>4. Rank(R, p) < Rank(R, q) \/ Rank(R, q) < Rank(R, p)
    BY <2>3, RankType
  <2>5. QED
    BY <2>1, <2>2, <2>4
<1>4. f \in Injection(R, 1..n)
  BY <1>2, <1>3 DEF Injection, IsInjective
<1>5. f \in Surjection(R, 1..n)
  <2> HIDE DEF f
  <2>1. Cardinality(R) = Cardinality(1..n) <=> f \in Surjection(R, 1..n)
    BY <1>1, <1>4, FS_Injection
  <2>2. QED
    BY <1>1, <2>1
<1>6. PICK r \in R : f[r] = k
  BY <1>5 DEF Surjection
<1>7. Rank(R, r) + 1 = k /\ Rank(R, r) \in Int
  BY <1>6, RankType
<1>8. QED
  BY <1>7

(* The sequence has every range of the set, and no other, in order.         *)
LEMMA SortedIs ==
  ASSUME NEW R, IsFiniteSet(R), \A r \in R : IsRange(r)
  PROVE  LET s == SortedRanges(R)
         IN  /\ s \in Seq(R) /\ Len(s) = Cardinality(R) /\ Len(s) \in Nat
             /\ \A k \in 1..Len(s) : s[k] \in R
             /\ \A r \in R : \E k \in 1..Len(s) : s[k] = r
             /\ \A j, k \in 1..Len(s) : j < k => Before(s[j], s[k])
<1> DEFINE n == Cardinality(R)
           s == SortedRanges(R)
<1>1. n \in Nat
  BY FS_CardinalityType
<1>2. s = [k \in 1..n |-> CHOOSE r \in R : Rank(R, r) = k - 1]
  BY DEF SortedRanges, Rank
<1>3. \A k \in 1..n : s[k] \in R /\ Rank(R, s[k]) = k - 1
  <2> TAKE k \in 1..n
  <2>1. \E r \in R : Rank(R, r) = k - 1
    BY RankOnto
  <2>2. s[k] = CHOOSE r \in R : Rank(R, r) = k - 1
    BY <1>2
  <2> HIDE DEF s
  <2>3. QED
    BY <2>1, <2>2
<1> HIDE DEF s
<1>4. s \in Seq(R) /\ Len(s) = n
  <2>1. s \in [1..n -> R]
    BY <1>2, <1>3
  <2> HIDE DEF n
  <2>2. QED
    BY <1>1, <2>1
<1>5. \A p, q \in R : Rank(R, p) < Rank(R, q) => Before(p, q)
  <2> SUFFICES ASSUME NEW p \in R, NEW q \in R, Rank(R, p) < Rank(R, q), ~Before(p, q) PROVE FALSE
    OBVIOUS
  <2>1. Rank(R, p) \in Int /\ Rank(R, q) \in Int
    BY RankType
  <2>2. p # q
    BY <2>1
  <2>3. Before(q, p)
    BY <2>2, BeforeOrders
  <2>4. Rank(R, q) < Rank(R, p)
    BY <2>3, RankType
  <2>5. QED
    BY <2>1, <2>4
<1>6. \A r \in R : \E k \in 1..n : s[k] = r
  <2> TAKE r \in R
  <2>1. Rank(R, r) \in 0..(n - 1)
    BY RankType
  <2> DEFINE k == Rank(R, r) + 1
  <2>2. k \in 1..n /\ k - 1 = Rank(R, r)
    BY <1>1, <2>1
  <2> HIDE DEF k
  <2>3. s[k] \in R /\ Rank(R, s[k]) = Rank(R, r)
    BY <1>3, <2>2
  <2>4. s[k] = r
    <3> SUFFICES ASSUME s[k] # r PROVE FALSE
      OBVIOUS
    <3>1. Before(s[k], r) \/ Before(r, s[k])
      BY <2>3, BeforeOrders
    <3>2. Rank(R, s[k]) < Rank(R, r) \/ Rank(R, r) < Rank(R, s[k])
      BY <3>1, <2>3, RankType
    <3>3. QED
      BY <2>1, <2>3, <3>2
  <2>5. QED
    BY <2>2, <2>4
<1>7. \A j, k \in 1..n : j < k => Before(s[j], s[k])
  <2> TAKE j, k \in 1..n
  <2>1. s[j] \in R /\ s[k] \in R /\ Rank(R, s[j]) = j - 1 /\ Rank(R, s[k]) = k - 1
    BY <1>3
  <2> HIDE DEF n
  <2>2. j < k => j - 1 < k - 1
    BY <1>1
  <2>3. QED
    BY <2>1, <2>2, <1>5
<1>8. QED
  BY <1>1, <1>3, <1>4, <1>6, <1>7 DEF s
-----------------------------------------------------------------------------
LEMMA ClipDisjoint ==
  ASSUME NEW R, IsFiniteSet(R), \A r \in R : IsRange(r), NEW clip, IsRange(clip)
  PROVE  Disjoint(R) => Disjoint(ClipDateRanges(R, clip))
<1> SUFFICES ASSUME Disjoint(R),
                    NEW p \in ClipDateRanges(R, clip), NEW q \in ClipDateRanges(R, clip), p # q
             PROVE  Instants(p) \cap Instants(q) = {}
  BY DEF Disjoint
<1>1. PICK r1 \in R : p \in ClipDateRange(r1, clip)
  BY DEF ClipDateRanges
<1>2. PICK r2 \in R : q \in ClipDateRange(r2, clip)
  BY DEF ClipDateRanges
<1>3. CASE r1 # r2
  <2>1. Instants(p) \subseteq Instants(r1) /\ Instants(q) \subseteq Instants(r2)
    <3>1. Cover(ClipDateRange(r1, clip)) \subseteq Instants(r1)
      BY ClipOneExact
    <3>2. Cover(ClipDateRange(r2, clip)) \subseteq Instants(r2)
      BY ClipOneExact
    <3>3. QED
      BY <1>1, <1>2, <3>1, <3>2 DEF Cover
  <2>2. QED
    BY <1>3, <2>1 DEF Disjoint
<1>4. CASE r1 = r2
  <2>1. InMiddle(r1, clip)
    BY <1>1, <1>2, <1>4 DEF ClipDateRange
  <2>2. {p, q} = {LeftOf(r1, clip), RightOf(r1, clip)}
    BY <1>1, <1>2, <1>4, <2>1 DEF ClipDateRange
  <2>3. Instants(LeftOf(r1, clip)) \cap Instants(RightOf(r1, clip)) = {}
    BY DEF LeftOf, RightOf, DateRange, Instants, IsRange, AnyRange
  <2>4. QED
    BY <2>2, <2>3
<1>5. QED
  BY <1>3, <1>4

LEMMA ClipFinite ==
  ASSUME NEW R, IsFiniteSet(R), NEW clip
  PROVE  IsFiniteSet(ClipDateRanges(R, clip))
<1> DEFINE A == {LeftOf(r, clip) : r \in R}
           B == {RightOf(r, clip) : r \in R}
           f == [r \in R |-> LeftOf(r, clip)]
           g == [r \in R |-> RightOf(r, clip)]
<1>1. f \in Surjection(R, A) /\ g \in Surjection(R, B)
  BY DEF Surjection
<1>2. ClipDateRanges(R, clip) \in SUBSET ((A \cup B) \cup R)
  BY DEF ClipDateRanges, ClipDateRange
<1> HIDE DEF A, B, f, g
<1>3. IsFiniteSet(A) /\ IsFiniteSet(B)
  BY <1>1, FS_Surjection
<1>4. IsFiniteSet(A \cup B)
  BY <1>3, FS_Union
<1>5. IsFiniteSet((A \cup B) \cup R)
  BY <1>4, FS_Union
<1>6. QED
  BY <1>2, <1>5, FS_Subset

(* The ranges of R neither overlap nor touch.                               *)
Apart(R) ==
  \A p, q \in R : p # q => p.endDate + 1 < q.startDate \/ q.endDate + 1 < p.startDate

(* Such ranges are the longest, and so the fewest, of their instants.       *)
LEMMA ApartAreRuns ==
  ASSUME NEW R, \A r \in R : IsRange(r), Apart(R)
  PROVE  R = MaximalRuns(Cover(R))
<1> DEFINE T == Cover(R)
<1>1. ASSUME NEW r \in R
      PROVE  /\ r.startDate \in Int /\ r.endDate \in Int /\ r.startDate <= r.endDate
             /\ r = DateRange(r.startDate, r.endDate)
             /\ Instants(r) \subseteq T /\ r.startDate \in T /\ r.endDate \in T
             /\ r.startDate - 1 \notin T /\ r.endDate + 1 \notin T
  <2>1. /\ r.startDate \in Int /\ r.endDate \in Int /\ r.startDate <= r.endDate
        /\ r = DateRange(r.startDate, r.endDate)
    BY DEF IsRange, AnyRange, DateRange
  <2>2. Instants(r) \subseteq T
    BY DEF Cover
  <2>3. r.startDate \in Instants(r) /\ r.endDate \in Instants(r)
    BY <2>1 DEF Instants
  <2>4. ASSUME NEW x, x = r.startDate - 1 \/ x = r.endDate + 1, x \in T
        PROVE  FALSE
    <3>1. PICK q \in R : x \in Instants(q)
      BY <2>4 DEF Cover
    <3>2. q.startDate \in Int /\ q.endDate \in Int /\ q.startDate <= x /\ x <= q.endDate
      BY <3>1 DEF IsRange, AnyRange, Instants
    <3>3. q # r
      BY <2>1, <2>4, <3>2
    <3>4. r.endDate + 1 < q.startDate \/ q.endDate + 1 < r.startDate
      BY <3>3 DEF Apart
    <3>5. QED
      BY <2>1, <2>4, <3>2, <3>4
  <2>5. QED
    BY <2>1, <2>2, <2>3, <2>4
<1>2. ASSUME NEW q \in MaximalRuns(T)
      PROVE  q \in R
  <2>1. PICK s \in T, e \in T : q = DateRange(s, e)
    BY DEF MaximalRuns
  <2>2. /\ q.startDate = s /\ q.endDate = e /\ s <= e /\ Instants(q) = s..e
        /\ Instants(q) \subseteq T /\ s - 1 \notin T /\ e + 1 \notin T
    BY <2>1 DEF MaximalRuns, DateRange, Instants
  <2>3. PICK r \in R : s \in Instants(r)
    BY DEF Cover
  <2>4. r.startDate \in Int /\ r.endDate \in Int /\ r.startDate <= s /\ s <= r.endDate /\ s \in Int
    BY <1>1, <2>3 DEF Instants
  <2>5. e \in Int
    <3>1. PICK p \in R : e \in Instants(p)
      BY DEF Cover
    <3>2. QED
      BY <1>1, <3>1 DEF Instants
  <2>6. s = r.startDate
    <3>1. r.startDate < s => s - 1 \in Instants(r)
      BY <2>4 DEF Instants
    <3>2. QED
      BY <1>1, <2>2, <2>4, <3>1
  <2>7. e = r.endDate
    <3>1. e < r.endDate => e + 1 \in Instants(r)
      BY <2>2, <2>4, <2>5 DEF Instants
    <3>2. r.endDate < e => r.endDate + 1 \in s..e
      BY <2>4, <2>5
    <3>3. QED
      BY <1>1, <2>2, <2>4, <2>5, <3>1, <3>2
  <2>8. QED
    BY <1>1, <2>1, <2>6, <2>7
<1>3. ASSUME NEW r \in R
      PROVE  r \in MaximalRuns(T)
  BY <1>1 DEF MaximalRuns
<1>4. QED
  BY <1>2, <1>3

(* What is clipped from ranges apart leaves ranges apart.                   *)
LEMMA ClipApart ==
  ASSUME NEW R, \A r \in R : IsRange(r), NEW clip, IsRange(clip), Apart(R)
  PROVE  Apart(ClipDateRanges(R, clip))
<1> SUFFICES ASSUME NEW p \in ClipDateRanges(R, clip), NEW q \in ClipDateRanges(R, clip), p # q
             PROVE  p.endDate + 1 < q.startDate \/ q.endDate + 1 < p.startDate
  BY DEF Apart
<1>1. PICK r1 \in R : p \in ClipDateRange(r1, clip)
  BY DEF ClipDateRanges
<1>2. PICK r2 \in R : q \in ClipDateRange(r2, clip)
  BY DEF ClipDateRanges
<1>3. ASSUME NEW r, IsRange(r), NEW c \in ClipDateRange(r, clip)
      PROVE  /\ c.startDate \in Int /\ c.endDate \in Int /\ r.startDate \in Int /\ r.endDate \in Int
             /\ r.startDate <= c.startDate /\ c.endDate <= r.endDate
  BY <1>3 DEF ClipDateRange, InMiddle, OnLeft, OnRight, OnAll, LeftOf, RightOf,
              DateRange, AnyRange, IsRange
<1>4. CASE r1 # r2
  <2>1. r1.endDate + 1 < r2.startDate \/ r2.endDate + 1 < r1.startDate
    BY <1>4 DEF Apart
  <2>2. /\ p.startDate \in Int /\ p.endDate \in Int /\ r1.startDate \in Int /\ r1.endDate \in Int
        /\ r1.startDate <= p.startDate /\ p.endDate <= r1.endDate
    BY <1>1, <1>3
  <2>3. /\ q.startDate \in Int /\ q.endDate \in Int /\ r2.startDate \in Int /\ r2.endDate \in Int
        /\ r2.startDate <= q.startDate /\ q.endDate <= r2.endDate
    BY <1>2, <1>3
  <2>4. QED
    BY <2>1, <2>2, <2>3
<1>5. CASE r1 = r2
  <2>1. {p, q} = {LeftOf(r1, clip), RightOf(r1, clip)}
    BY <1>1, <1>2, <1>5 DEF ClipDateRange
  <2>2. LeftOf(r1, clip).endDate + 1 < RightOf(r1, clip).startDate
    BY DEF LeftOf, RightOf, DateRange, IsRange, AnyRange
  <2>3. QED
    BY <2>1, <2>2
<1>6. QED
  BY <1>4, <1>5

(* A function on 0..m that clips one range after another.                   *)
Clips(g, m, R, clips) ==
  g = [n \in 0..m |-> IF n = 0 THEN R ELSE ClipDateRanges(g[n - 1], clips[n])]

LEMMA ClipsExist ==
  ASSUME NEW R, NEW clips, Len(clips) \in Nat
  PROVE  \A m \in 0..Len(clips) : \E g : Clips(g, m, R, clips)
<1> DEFINE Bad == {m \in 0..Len(clips) : ~\E g : Clips(g, m, R, clips)}
<1> SUFFICES ASSUME Bad # {} PROVE FALSE
  OBVIOUS
<1>1. PICK x \in Bad : \A y \in Bad : x <= y
  <2>1. Bad \in SUBSET Nat
    OBVIOUS
  <2> HIDE DEF Bad
  <2>2. QED
    BY <2>1, HasLeast
<1>2. CASE x = 0
  <2> DEFINE g == [n \in 0..0 |-> R]
  <2>1. Clips(g, 0, R, clips)
    BY DEF Clips
  <2>2. QED
    BY <1>1, <1>2, <2>1
<1>3. CASE x # 0
  <2>1. x - 1 \in 0..Len(clips) /\ x \in Nat /\ x \in 1..Len(clips)
    BY <1>1, <1>3
  <2>2. x - 1 \notin Bad
    BY <1>1, <2>1
  <2>3. PICK g : Clips(g, x - 1, R, clips)
    BY <2>1, <2>2
  <2> DEFINE h == [n \in 0..x |-> IF n = x THEN ClipDateRanges(g[x - 1], clips[x]) ELSE g[n]]
  <2>4. ASSUME NEW n \in 0..x
        PROVE  h[n] = IF n = 0 THEN R ELSE ClipDateRanges(h[n - 1], clips[n])
    <3>1. CASE n = x
      <4>1. x - 1 \in 0..x /\ x - 1 # x
        BY <2>1
      <4>2. h[x - 1] = g[x - 1]
        BY <4>1
      <4>3. QED
        BY <1>3, <3>1, <4>2
    <3>2. CASE n # x
      <4>1. n \in 0..(x - 1) /\ (n # 0 => n - 1 \in 0..x /\ n - 1 # x)
        BY <2>1, <3>2
      <4>2. g[n] = IF n = 0 THEN R ELSE ClipDateRanges(g[n - 1], clips[n])
        BY <2>3, <4>1 DEF Clips
      <4>3. h[n] = g[n] /\ (n # 0 => h[n - 1] = g[n - 1])
        BY <3>2, <4>1
      <4>4. QED
        BY <4>2, <4>3
    <3>3. QED
      BY <3>1, <3>2
  <2>5. Clips(h, x, R, clips)
    <3>1. h = [n \in 0..x |-> h[n]]
      OBVIOUS
    <3> HIDE DEF h
    <3>2. QED
      BY <2>4, <3>1 DEF Clips
  <2>6. QED
    BY <1>1, <2>5
<1>4. QED
  BY <1>2, <1>3

(* Clipping any number of ranges, one after another, leaves exactly the     *)
(* instants that none of them has, in ranges that share none if none did,   *)
(* and that do not touch if none did: clipDateRangesFromIterable.           *)
THEOREM ClipIterableExact ==
  ASSUME NEW R, IsFiniteSet(R), \A r \in R : IsRange(r),
         NEW clips, Len(clips) \in Nat, \A k \in 1..Len(clips) : IsRange(clips[k])
  PROVE  /\ IsFiniteSet(ClipAll(R, clips))
         /\ \A r \in ClipAll(R, clips) : IsRange(r)
         /\ Cover(ClipAll(R, clips)) = Cover(R) \ Cover({clips[k] : k \in 1..Len(clips)})
         /\ Disjoint(R) => Disjoint(ClipAll(R, clips))
         /\ Apart(R) => Apart(ClipAll(R, clips))
<1> DEFINE left == CHOOSE g : Clips(g, Len(clips), R, clips)
           Good(m) ==
             /\ IsFiniteSet(left[m])
             /\ \A r \in left[m] : IsRange(r)
             /\ Cover(left[m]) = Cover(R) \ Cover({clips[k] : k \in 1..m})
             /\ Disjoint(R) => Disjoint(left[m])
             /\ Apart(R) => Apart(left[m])
           Bad == {m \in 0..Len(clips) : ~Good(m)}
<1>1. Clips(left, Len(clips), R, clips)
  <2>1. Len(clips) \in 0..Len(clips)
    OBVIOUS
  <2>2. \E g : Clips(g, Len(clips), R, clips)
    BY <2>1, ClipsExist
  <2>3. QED
    BY <2>2
<1>2. ClipAll(R, clips) = left[Len(clips)]
  BY DEF ClipAll, Clips
<1> HIDE DEF left
<1>3. \A m \in 0..Len(clips) :
        left[m] = IF m = 0 THEN R ELSE ClipDateRanges(left[m - 1], clips[m])
  BY <1>1 DEF Clips
<1>4. ASSUME Bad # {} PROVE FALSE
  <2>1. PICK x \in Bad : \A y \in Bad : x <= y
    <3>1. Bad \in SUBSET Nat
      OBVIOUS
    <3> HIDE DEF Bad
    <3>2. QED
      BY <1>4, <3>1, HasLeast
  <2>2. CASE x = 0
    <3>1. left[0] = R
      BY <1>3, <2>1, <2>2
    <3>2. Cover({clips[k] : k \in 1..0}) = {}
      BY DEF Cover
    <3>3. Good(0)
      BY <3>1, <3>2
    <3>4. QED
      BY <2>1, <2>2, <3>3
  <2>3. CASE x # 0
    <3>1. x - 1 \in 0..Len(clips) /\ x \in 1..Len(clips) /\ x - 1 < x
      BY <2>1, <2>3
    <3>2. Good(x - 1)
      <4>1. x - 1 \notin Bad
        <5>1. ~(x <= x - 1)
          BY <3>1
        <5> HIDE DEF Bad
        <5>2. QED
          BY <2>1, <5>1
      <4>2. QED
        BY <3>1, <4>1
    <3>3. left[x] = ClipDateRanges(left[x - 1], clips[x]) /\ IsRange(clips[x])
      BY <1>3, <2>3, <3>1
    <3>4. IsFiniteSet(left[x])
      BY <3>2, <3>3, ClipFinite
    <3>5. /\ Cover(left[x]) = Cover(left[x - 1]) \ Instants(clips[x])
          /\ \A r \in left[x] : IsRange(r)
      <4>1. \A r \in left[x - 1] : IsRange(r)
        BY <3>2
      <4>2. /\ Cover(ClipDateRanges(left[x - 1], clips[x])) = Cover(left[x - 1]) \ Instants(clips[x])
            /\ \A r \in ClipDateRanges(left[x - 1], clips[x]) : IsRange(r)
        BY <3>3, <4>1, ClipManyExact
      <4>3. QED
        BY <3>3, <4>2
    <3>6. Cover({clips[k] : k \in 1..x}) = Cover({clips[k] : k \in 1..(x - 1)}) \cup Instants(clips[x])
      <4>1. 1..x = 1..(x - 1) \cup {x}
        BY <3>1
      <4>2. {clips[k] : k \in 1..x} = {clips[k] : k \in 1..(x - 1)} \cup {clips[x]}
        BY <4>1
      <4>3. QED
        BY <4>2 DEF Cover
    <3>7. Disjoint(R) => Disjoint(left[x])
      BY <3>2, <3>3, ClipDisjoint
    <3>8. Apart(R) => Apart(left[x])
      BY <3>2, <3>3, ClipApart
    <3>9. Good(x)
      BY <3>2, <3>4, <3>5, <3>6, <3>7, <3>8
    <3>10. QED
      BY <2>1, <3>9
  <2>4. QED
    BY <2>2, <2>3
<1>5. Good(Len(clips))
  BY <1>4
<1>6. QED
  BY <1>2, <1>5
-----------------------------------------------------------------------------
(* What has been merged of the ranges S, read in the order of their keys:   *)
(* the one kept apart lies after the merged ones, and starts no later than  *)
(* some range that was read. If no two of the ranges share an instant, what *)
(* is new, old and kept apart agrees with what was read.                    *)
AnyAcc ==
  [prev : SUBSET AnyRange, prevMerged : BOOLEAN, merged : SUBSET AnyRange,
   old : SUBSET AnyRange, new : SUBSET AnyRange]

MergedWell(acc, S) ==
  /\ acc \in AnyAcc
  /\ S = {} => acc = MergeStart
  /\ S # {} => \E p \in AnyRange :
                 /\ acc.prev = {p} /\ IsRange(p)
                 /\ \A m \in acc.merged : m.endDate + 1 < p.startDate
                 /\ \E q \in S : p.startDate <= q.startDate
  /\ \A m \in acc.merged : IsRange(m)
  /\ Apart(acc.merged)
  /\ Cover(acc.merged \cup acc.prev) = Cover(S)
  /\ Disjoint(S) => /\ acc.new = acc.merged \ S
                    /\ acc.old = S \ (acc.merged \cup acc.prev)
                    /\ acc.prevMerged <=> S # {} /\ acc.prev \cap S = {}

LEMMA MergedWellStart == MergedWell(MergeStart, {})
<1>1. MergeStart = [prev |-> {}, prevMerged |-> FALSE, merged |-> {}, old |-> {}, new |-> {}]
  BY DEF MergeStart
<1>2. MergeStart \in AnyAcc
  BY <1>1 DEF AnyAcc
<1>3. /\ MergeStart.prev = {} /\ MergeStart.merged = {} /\ MergeStart.old = {} /\ MergeStart.new = {}
      /\ MergeStart.prevMerged = FALSE
  BY <1>1
<1>4. Cover(MergeStart.merged \cup MergeStart.prev) = Cover({})
  BY <1>3
<1>5. (Disjoint({}) => /\ MergeStart.new = MergeStart.merged \ {}
                      /\ MergeStart.old = {} \ (MergeStart.merged \cup MergeStart.prev)
                      /\ MergeStart.prevMerged <=> {} # {} /\ MergeStart.prev \cap {} = {})
  BY <1>3
<1>6. QED
  BY <1>2, <1>3, <1>4, <1>5 DEF MergedWell, Apart

(* The first range is kept apart.                                           *)
LEMMA FirstIsKept ==
  ASSUME NEW r, IsRange(r)
  PROVE  MergedWell(MergeRange(MergeStart, r), {r})
<1>1. MergeRange(MergeStart, r) = [MergeStart EXCEPT !.prev = {r}]
  BY DEF MergeRange, MergeStart, IsRange, AnyRange
<1>2. MergeRange(MergeStart, r) =
        [prev |-> {r}, prevMerged |-> FALSE, merged |-> {}, old |-> {}, new |-> {}]
  BY <1>1 DEF MergeStart
<1>3. r \in AnyRange /\ r.startDate <= r.startDate
  BY DEF IsRange, AnyRange
<1>4. QED
  BY <1>2, <1>3 DEF MergedWell, AnyAcc, Apart

(* The range kept apart is complete, and another one takes its place.       *)
Flushed(acc, r) == [MergeFlush(acc) EXCEPT !.prevMerged = FALSE, !.prev = {r}]

LEMMA FlushIs ==
  ASSUME NEW acc \in AnyAcc, NEW r \in AnyRange
  PROVE  LET next == Flushed(acc, r)
         IN /\ next \in AnyAcc
            /\ next.prev = {r} /\ next.prevMerged = FALSE /\ next.old = acc.old
            /\ next.merged = acc.merged \cup acc.prev
            /\ next.new = IF acc.prevMerged THEN acc.new \cup acc.prev ELSE acc.new
<1> DEFINE next == Flushed(acc, r)
           new == IF acc.prevMerged THEN acc.new \cup acc.prev ELSE acc.new
           f == MergeFlush(acc)
<1>1. acc = [prev |-> acc.prev, prevMerged |-> acc.prevMerged, merged |-> acc.merged,
             old |-> acc.old, new |-> acc.new]
  BY DEF AnyAcc
<1>2. /\ acc.merged \in SUBSET AnyRange /\ acc.old \in SUBSET AnyRange
      /\ acc.new \in SUBSET AnyRange /\ acc.prev \in SUBSET AnyRange
  BY DEF AnyAcc
<1>3. new \in SUBSET AnyRange /\ acc.merged \cup acc.prev \in SUBSET AnyRange /\ {r} \in SUBSET AnyRange
  BY <1>2
<1>4. f = [acc EXCEPT !.merged = acc.merged \cup acc.prev, !.new = new]
  BY DEF MergeFlush
<1>5. next = [f EXCEPT !.prevMerged = FALSE, !.prev = {r}]
  BY DEF Flushed
<1> HIDE DEF new, f, next
<1>6. f = [prev |-> acc.prev, prevMerged |-> acc.prevMerged, merged |-> acc.merged \cup acc.prev,
           old |-> acc.old, new |-> new]
  BY <1>1, <1>4
<1>7. next = [prev |-> {r}, prevMerged |-> FALSE, merged |-> acc.merged \cup acc.prev,
              old |-> acc.old, new |-> new]
  BY <1>5, <1>6
<1>8. next \in AnyAcc
  <2> DEFINE g == [prev |-> {r}, prevMerged |-> FALSE, merged |-> acc.merged \cup acc.prev,
                   old |-> acc.old, new |-> new]
  <2>1. g \in AnyAcc
    BY <1>2, <1>3, Zenon DEF AnyAcc
  <2>2. QED
    BY <1>7, <2>1, Zenon
<1>9. /\ next.prev = {r} /\ next.prevMerged = FALSE /\ next.old = acc.old
      /\ next.merged = acc.merged \cup acc.prev /\ next.new = new
  BY <1>7
<1>10. QED
  BY <1>8, <1>9 DEF new, next

(* A range that does not touch the one kept apart takes its place.          *)
LEMMA ApartIsKept ==
  ASSUME NEW acc, NEW S, MergedWell(acc, S), \A q \in S : IsRange(q),
         NEW p, acc.prev = {p}, NEW r, IsRange(r),
         \A q \in S : Before(q, r), S # {}, ~Touches(p, r),
         NEW next \in AnyAcc,
         next.prev = {r}, next.prevMerged = FALSE, next.old = acc.old,
         next.merged = acc.merged \cup acc.prev,
         next.new = IF acc.prevMerged THEN acc.new \cup acc.prev ELSE acc.new
  PROVE  MergedWell(next, S \cup {r})
<1> DEFINE new == IF acc.prevMerged THEN acc.new \cup acc.prev ELSE acc.new
<1>1. acc \in AnyAcc
  BY DEF MergedWell
<1>3. /\ p \in AnyRange /\ IsRange(p) /\ r \in AnyRange
      /\ \A m \in acc.merged : m.endDate + 1 < p.startDate
  BY DEF MergedWell, IsRange
<1>4. p.endDate + 1 < r.startDate /\ p.startDate <= p.endDate /\ r.startDate \in Int
      /\ p.startDate \in Int /\ p.endDate \in Int /\ r.endDate \in Int /\ r.startDate <= r.endDate
  BY <1>3 DEF Touches, IsRange, AnyRange
<1>5. \A m \in acc.merged : IsRange(m) /\ m.endDate \in Int /\ m.startDate \in Int
  BY DEF MergedWell, IsRange, AnyRange
<1>6. \A m \in acc.merged \cup {p} : m.endDate + 1 < r.startDate
  BY <1>3, <1>4, <1>5
<1>7. Apart(acc.merged \cup {p})
  BY <1>3 DEF Apart, MergedWell
<1>8. Cover((acc.merged \cup {p}) \cup {r}) = Cover(S \cup {r})
  <2>1. Cover(acc.merged \cup {p}) = Cover(S)
    BY DEF MergedWell
  <2>2. QED
    BY <2>1 DEF Cover
<1>9. r \notin S /\ r \notin acc.merged /\ p \notin acc.merged /\ r # p
  <2>1. \A q \in S : q # r
    BY DEF Before, IsRange, AnyRange
  <2>2. r \notin acc.merged /\ p \notin acc.merged /\ r # p
    BY <1>3, <1>4, <1>5, <1>6
  <2>3. QED
    BY <2>1, <2>2
<1>10. ASSUME Disjoint(S \cup {r})
       PROVE  /\ new = (acc.merged \cup {p}) \ (S \cup {r})
              /\ acc.old = (S \cup {r}) \ ((acc.merged \cup {p}) \cup {r})
              /\ {r} \cap (S \cup {r}) # {}
  <2>1. Disjoint(S)
    BY <1>10 DEF Disjoint
  <2>2. /\ acc.new = acc.merged \ S
        /\ acc.old = S \ (acc.merged \cup {p})
        /\ acc.prevMerged <=> p \notin S
    BY <2>1 DEF MergedWell
  <2>3. QED
    BY <1>9, <2>2
<1>11. next \in AnyAcc
  OBVIOUS
<1>12. next.prev = {r} /\ next.merged = acc.merged \cup {p} /\ next.new = new /\ next.old = acc.old
       /\ next.prevMerged = FALSE
  OBVIOUS
<1> HIDE DEF new
<1>13. \E q \in S \cup {r} : r.startDate <= q.startDate
  BY <1>4
<1>14. \A m \in next.merged : IsRange(m) /\ m.endDate + 1 < r.startDate
  BY <1>3, <1>5, <1>6, <1>12
<1>15. Disjoint(S \cup {r}) => /\ next.new = next.merged \ (S \cup {r})
                               /\ next.old = (S \cup {r}) \ (next.merged \cup next.prev)
                               /\ next.prevMerged <=> S \cup {r} # {} /\ next.prev \cap (S \cup {r}) = {}
  BY <1>10, <1>12
<1>16. QED
  BY <1>3, <1>7, <1>8, <1>11, <1>12, <1>13, <1>14, <1>15 DEF MergedWell

(* A range that touches it becomes one with it.                             *)
LEMMA UnionIsKept ==
  ASSUME NEW acc, NEW S, MergedWell(acc, S), \A q \in S : IsRange(q),
         NEW p, acc.prev = {p}, NEW r, IsRange(r),
         \A q \in S : Before(q, r), S # {}, Touches(p, r)
  PROVE  MergedWell(MergeUnion(acc, p, r), S \cup {r})
<1> DEFINE u == Union(p, r)
           old == (acc.old \cup (IF r # u THEN {r} ELSE {}))
                    \cup (IF ~acc.prevMerged /\ p # u THEN {p} ELSE {})
           next == MergeUnion(acc, p, r)
<1>1. acc \in AnyAcc
  BY DEF MergedWell
<1>2. next = [prev |-> {u}, prevMerged |-> (r # u /\ p # u), merged |-> acc.merged,
              old |-> old, new |-> acc.new]
  <2>1. acc = [prev |-> acc.prev, prevMerged |-> acc.prevMerged, merged |-> acc.merged,
               old |-> acc.old, new |-> acc.new]
    BY <1>1 DEF AnyAcc
  <2>2. next = [acc EXCEPT !.old = old, !.prevMerged = (r # u /\ p # u), !.prev = {u}]
    BY DEF MergeUnion
  <2> HIDE DEF next, old, u
  <2>3. QED
    BY <2>1, <2>2
<1>3. /\ p \in AnyRange /\ IsRange(p) /\ r \in AnyRange
      /\ \A m \in acc.merged : m.endDate + 1 < p.startDate
  BY DEF MergedWell, IsRange
<1>4. PICK q0 \in S : p.startDate <= q0.startDate
  BY DEF MergedWell
<1>5. /\ p.startDate \in Int /\ p.endDate \in Int /\ r.startDate \in Int /\ r.endDate \in Int
      /\ p.startDate <= p.endDate /\ r.startDate <= r.endDate
      /\ p.startDate <= r.startDate /\ r.startDate - 1 <= p.endDate
  <2>1. q0.startDate <= r.startDate /\ q0.startDate \in Int
    BY <1>3 DEF Before, IsRange, AnyRange
  <2>2. QED
    BY <1>3, <1>4, <2>1 DEF Touches, IsRange, AnyRange
<1>6. /\ u \in AnyRange /\ IsRange(u) /\ u.startDate = p.startDate
      /\ Instants(u) = Instants(p) \cup Instants(r)
      /\ u.endDate = IF p.endDate >= r.endDate THEN p.endDate ELSE r.endDate
  BY <1>3, <1>5 DEF Union, MaxDate, DateRange, Instants, IsRange, AnyRange
<1>7. \A m \in acc.merged : IsRange(m) /\ m.endDate \in Int /\ m.startDate \in Int /\ m.startDate <= m.endDate
  BY DEF MergedWell, IsRange, AnyRange
<1>8. Cover(acc.merged \cup {u}) = Cover(S \cup {r})
  <2>1. Cover(acc.merged \cup {p}) = Cover(S)
    BY DEF MergedWell
  <2>2. Cover(acc.merged \cup {u}) = Cover(acc.merged \cup {p}) \cup Instants(r)
    BY <1>6 DEF Cover
  <2>3. Cover(S \cup {r}) = Cover(S) \cup Instants(r)
    BY DEF Cover
  <2>4. QED
    BY <2>1, <2>2, <2>3
<1>9. r \notin S /\ r \notin acc.merged /\ p \notin acc.merged /\ u \notin acc.merged
  <2>1. \A q \in S : q # r
    BY DEF Before, IsRange, AnyRange
  <2>2. r \notin acc.merged /\ p \notin acc.merged /\ u \notin acc.merged
    <3>1. ASSUME NEW m \in acc.merged PROVE m.startDate < p.startDate
      BY <1>3, <1>5, <1>7
    <3>2. QED
      BY <1>5, <1>6, <3>1
  <2>3. QED
    BY <2>1, <2>2
<1>10. ASSUME Disjoint(S \cup {r})
       PROVE  /\ acc.new = acc.merged \ (S \cup {r})
              /\ old = (S \cup {r}) \ (acc.merged \cup {u})
              /\ (r # u /\ p # u) <=> {u} \cap (S \cup {r}) = {}
  <2>1. Disjoint(S)
    BY <1>10 DEF Disjoint
  <2>2. /\ acc.new = acc.merged \ S
        /\ acc.old = S \ (acc.merged \cup {p})
        /\ acc.prevMerged <=> p \notin S
    BY <2>1 DEF MergedWell
  <2>3. Instants(p) \subseteq Cover(S)
    BY DEF Cover, MergedWell
  <2>4. Instants(p) \cap Instants(r) = {}
    <3>1. \A q \in S : Instants(q) \cap Instants(r) = {}
      BY <1>9, <1>10 DEF Disjoint
    <3>2. QED
      BY <2>3, <3>1 DEF Cover
  <2>5. p.endDate < r.startDate
    <3>1. p.endDate >= r.startDate => r.startDate \in Instants(p) /\ r.startDate \in Instants(r)
      BY <1>5 DEF Instants
    <3>2. QED
      BY <1>5, <2>4, <3>1
  <2>6. u # p /\ u # r
    BY <1>5, <1>6, <2>5
  <2>7. u \notin S
    <3>1. r.startDate \in Instants(u) /\ r.startDate \in Instants(r)
      BY <1>5, <1>6 DEF Instants
    <3>2. \A q \in S : Instants(q) \cap Instants(r) = {}
      BY <1>9, <1>10 DEF Disjoint
    <3>3. QED
      BY <3>1, <3>2
  <2>8. old = (acc.old \cup {r}) \cup (IF ~acc.prevMerged THEN {p} ELSE {})
    BY <2>6
  <2> HIDE DEF u, old
  <2>9. QED
    BY <1>9, <2>2, <2>6, <2>7, <2>8
<1>11. old \in SUBSET AnyRange
  BY <1>1, <1>3 DEF AnyAcc
<1>12. next \in AnyAcc
  BY <1>1, <1>2, <1>6, <1>11 DEF AnyAcc
<1>13. next.prev = {u} /\ next.merged = acc.merged /\ next.new = acc.new /\ next.old = old
       /\ next.prevMerged = (r # u /\ p # u)
  BY <1>2
<1>14. \E q \in S \cup {r} : u.startDate <= q.startDate
  BY <1>4, <1>6
<1> HIDE DEF next, old, u
<1>15. \A m \in next.merged : IsRange(m) /\ m.endDate + 1 < u.startDate
  BY <1>3, <1>6, <1>7, <1>13
<1>16. Disjoint(S \cup {r}) => /\ next.new = next.merged \ (S \cup {r})
                               /\ next.old = (S \cup {r}) \ (next.merged \cup next.prev)
                               /\ next.prevMerged <=> S \cup {r} # {} /\ next.prev \cap (S \cup {r}) = {}
  BY <1>10, <1>13
<1>17. Apart(next.merged)
  BY <1>13 DEF MergedWell
<1>18. MergedWell(next, S \cup {r})
  BY <1>6, <1>8, <1>12, <1>13, <1>14, <1>15, <1>16, <1>17 DEF MergedWell
<1>19. QED
  BY <1>18 DEF next

(* One range read.                                                          *)
LEMMA MergedWellStep ==
  ASSUME NEW acc, NEW S, MergedWell(acc, S), \A q \in S : IsRange(q),
         NEW r, IsRange(r), \A q \in S : Before(q, r)
  PROVE  MergedWell(MergeRange(acc, r), S \cup {r})
<1>1. ~(r.endDate < r.startDate)
  BY DEF IsRange, AnyRange
<1>2. CASE S = {}
  <2>1. acc = MergeStart /\ S \cup {r} = {r}
    BY <1>2 DEF MergedWell
  <2>2. QED
    BY <2>1, FirstIsKept
<1>3. CASE S # {}
  <2>1. PICK p : acc.prev = {p}
    BY <1>3 DEF MergedWell
  <2>2. (CHOOSE x \in acc.prev : TRUE) = p /\ acc.prev # {}
    BY <2>1
  <2>3. MergeRange(acc, r) = IF Touches(p, r) THEN MergeUnion(acc, p, r) ELSE Flushed(acc, r)
    <3>1. MergeRange(acc, r) = IF Touches(CHOOSE x \in acc.prev : TRUE, r)
                               THEN MergeUnion(acc, CHOOSE x \in acc.prev : TRUE, r) ELSE Flushed(acc, r)
      BY <1>1, <2>2 DEF MergeRange, Flushed
    <3>2. QED
      BY <2>2, <3>1
  <2>4. CASE Touches(p, r)
    <3>1. MergedWell(MergeUnion(acc, p, r), S \cup {r})
      BY <1>3, <2>1, <2>4, UnionIsKept
    <3>2. QED
      BY <2>3, <2>4, <3>1
  <2>5. CASE ~Touches(p, r)
    <3> DEFINE next == Flushed(acc, r)
    <3>1. acc \in AnyAcc /\ r \in AnyRange
      BY DEF MergedWell, IsRange
    <3>2. /\ next \in AnyAcc
          /\ next.prev = {r} /\ next.prevMerged = FALSE /\ next.old = acc.old
          /\ next.merged = acc.merged \cup acc.prev
          /\ next.new = IF acc.prevMerged THEN acc.new \cup acc.prev ELSE acc.new
      BY <3>1, FlushIs
    <3> HIDE DEF next
    <3>3. MergedWell(next, S \cup {r})
      BY <1>3, <2>1, <2>5, <3>2, ApartIsKept
    <3>4. QED
      BY <2>3, <2>5, <3>3 DEF next
  <2>6. QED
    BY <2>4, <2>5
<1>4. QED
  BY <1>2, <1>3
-----------------------------------------------------------------------------
(* A function on 0..m that merges one range after another.                  *)
Merges(g, m, ranges) ==
  g = [n \in 0..m |-> IF n = 0 THEN MergeStart ELSE MergeRange(g[n - 1], ranges[n])]

LEMMA MergesExist ==
  ASSUME NEW ranges, Len(ranges) \in Nat
  PROVE  \A m \in 0..Len(ranges) : \E g : Merges(g, m, ranges)
<1> DEFINE Bad == {m \in 0..Len(ranges) : ~\E g : Merges(g, m, ranges)}
<1> SUFFICES ASSUME Bad # {} PROVE FALSE
  OBVIOUS
<1>1. PICK x \in Bad : \A y \in Bad : x <= y
  <2>1. Bad \in SUBSET Nat
    OBVIOUS
  <2> HIDE DEF Bad
  <2>2. QED
    BY <2>1, HasLeast
<1>2. CASE x = 0
  <2> DEFINE g == [n \in 0..0 |-> MergeStart]
  <2>1. Merges(g, 0, ranges)
    BY DEF Merges
  <2>2. QED
    BY <1>1, <1>2, <2>1
<1>3. CASE x # 0
  <2>1. x - 1 \in 0..Len(ranges) /\ x \in Nat /\ x \in 1..Len(ranges)
    BY <1>1, <1>3
  <2>2. x - 1 \notin Bad
    BY <1>1, <2>1
  <2>3. PICK g : Merges(g, x - 1, ranges)
    BY <2>1, <2>2
  <2> DEFINE h == [n \in 0..x |-> IF n = x THEN MergeRange(g[x - 1], ranges[x]) ELSE g[n]]
  <2>4. ASSUME NEW n \in 0..x
        PROVE  h[n] = IF n = 0 THEN MergeStart ELSE MergeRange(h[n - 1], ranges[n])
    <3>1. CASE n = x
      <4>1. x - 1 \in 0..x /\ x - 1 # x
        BY <2>1
      <4>2. h[x - 1] = g[x - 1]
        BY <4>1
      <4>3. QED
        BY <1>3, <3>1, <4>2
    <3>2. CASE n # x
      <4>1. n \in 0..(x - 1) /\ (n # 0 => n - 1 \in 0..x /\ n - 1 # x)
        BY <2>1, <3>2
      <4>2. g[n] = IF n = 0 THEN MergeStart ELSE MergeRange(g[n - 1], ranges[n])
        BY <2>3, <4>1 DEF Merges
      <4>3. h[n] = g[n] /\ (n # 0 => h[n - 1] = g[n - 1])
        BY <3>2, <4>1
      <4>4. QED
        BY <4>2, <4>3
    <3>3. QED
      BY <3>1, <3>2
  <2>5. Merges(h, x, ranges)
    <3>1. h = [n \in 0..x |-> h[n]]
      OBVIOUS
    <3> HIDE DEF h
    <3>2. QED
      BY <2>4, <3>1 DEF Merges
  <2>6. QED
    BY <1>1, <2>5
<1>4. QED
  BY <1>2, <1>3

(* Merging any ranges read in the order of their keys gives the fewest      *)
(* ranges that have the same instants; and if they share none, to save the  *)
(* new ones and remove the old ones turns what was read into these:         *)
(* mergeDateRangesFromIterable, for mergeStates.                            *)
THEOREM MergeIterableExact ==
  ASSUME NEW ranges \in Seq(AnyRange),
         \A k \in 1..Len(ranges) : IsRange(ranges[k]),
         \A j, k \in 1..Len(ranges) : j < k => Before(ranges[j], ranges[k])
  PROVE  LET S == {ranges[k] : k \in 1..Len(ranges)}
             m == MergeDateRangesFromIterable(ranges)
         IN /\ m.merged = MaximalRuns(Cover(S))
            /\ Disjoint(S) => (S \cup m.new) \ m.old = m.merged
<1> DEFINE acc == CHOOSE g : Merges(g, Len(ranges), ranges)
           Upto(n) == {ranges[k] : k \in 1..n}
           Bad == {n \in 0..Len(ranges) : ~MergedWell(acc[n], Upto(n))}
<1>1. Len(ranges) \in Nat /\ Len(ranges) \in 0..Len(ranges)
  OBVIOUS
<1>2. Merges(acc, Len(ranges), ranges)
  <2>1. \E g : Merges(g, Len(ranges), ranges)
    BY <1>1, MergesExist
  <2>2. QED
    BY <2>1
<1>3. MergeDateRangesFromIterable(ranges) = MergeFlush(acc[Len(ranges)])
  BY DEF MergeDateRangesFromIterable, Merges
<1> HIDE DEF acc
<1>4. \A n \in 0..Len(ranges) :
        acc[n] = IF n = 0 THEN MergeStart ELSE MergeRange(acc[n - 1], ranges[n])
  BY <1>2 DEF Merges
<1>5. ASSUME Bad # {} PROVE FALSE
  <2>1. PICK x \in Bad : \A y \in Bad : x <= y
    <3>1. Bad \in SUBSET Nat
      OBVIOUS
    <3> HIDE DEF Bad
    <3>2. QED
      BY <1>5, <3>1, HasLeast
  <2>2. x \in 0..Len(ranges) /\ ~MergedWell(acc[x], Upto(x))
    BY <2>1
  <2>3. CASE x = 0
    <3>1. acc[0] = MergeStart
      BY <1>1, <1>4
    <3>2. Upto(0) = {}
      OBVIOUS
    <3> HIDE DEF Upto
    <3>3. QED
      BY <2>2, <2>3, <3>1, <3>2, MergedWellStart
  <2>4. CASE x # 0
    <3>1. x - 1 \in 0..Len(ranges) /\ x \in 1..Len(ranges) /\ x \in Nat /\ x - 1 < x
      BY <1>1, <2>2, <2>4
    <3>2. MergedWell(acc[x - 1], Upto(x - 1))
      <4>1. x - 1 \notin Bad
        <5>1. ~(x <= x - 1)
          BY <3>1
        <5> HIDE DEF Bad
        <5>2. QED
          BY <2>1, <5>1
      <4>2. QED
        BY <3>1, <4>1
    <3>3. acc[x] = MergeRange(acc[x - 1], ranges[x])
      BY <1>4, <2>4, <3>1
    <3>4. Upto(x) = Upto(x - 1) \cup {ranges[x]}
      <4>1. 1..x = 1..(x - 1) \cup {x}
        BY <3>1
      <4>2. QED
        BY <4>1
    <3>5. IsRange(ranges[x])
      BY <3>1
    <3>6. \A q \in Upto(x - 1) : IsRange(q) /\ Before(q, ranges[x])
      <4>1. \A k \in 1..(x - 1) : k \in 1..Len(ranges) /\ k < x
        BY <1>1, <3>1
      <4>2. QED
        BY <3>1, <4>1
    <3> HIDE DEF Upto
    <3>7. MergedWell(acc[x], Upto(x))
      BY <3>2, <3>3, <3>4, <3>5, <3>6, MergedWellStep
    <3>8. QED
      BY <2>2, <3>7
  <2>5. QED
    BY <2>3, <2>4
<1> DEFINE S == Upto(Len(ranges))
           a == acc[Len(ranges)]
           m == MergeFlush(a)
<1>6. MergedWell(a, S)
  BY <1>1, <1>5
<1>7. \A q \in S : IsRange(q)
  OBVIOUS
<1> HIDE DEF S, a
<1>8. a \in AnyAcc
  BY <1>6 DEF MergedWell
<1>9. /\ m.merged = a.merged \cup a.prev /\ m.old = a.old
      /\ m.new = IF a.prevMerged THEN a.new \cup a.prev ELSE a.new
  <2> DEFINE new == IF a.prevMerged THEN a.new \cup a.prev ELSE a.new
  <2>1. a = [prev |-> a.prev, prevMerged |-> a.prevMerged, merged |-> a.merged,
             old |-> a.old, new |-> a.new]
    BY <1>8 DEF AnyAcc
  <2>2. m = [a EXCEPT !.merged = a.merged \cup a.prev, !.new = new]
    BY DEF MergeFlush
  <2> HIDE DEF m, new
  <2>3. m = [prev |-> a.prev, prevMerged |-> a.prevMerged, merged |-> a.merged \cup a.prev,
             old |-> a.old, new |-> new]
    BY <2>1, <2>2
  <2>4. m.merged = a.merged \cup a.prev /\ m.old = a.old /\ m.new = new
    BY <2>3
  <2>5. QED
    BY <2>4 DEF new
<1> HIDE DEF m
<1>10. /\ \A q \in m.merged : IsRange(q)
       /\ Apart(m.merged) /\ Cover(m.merged) = Cover(S)
  <2>1. CASE S = {}
    <3>1. a.prev = {} /\ a.merged = {}
      BY <1>6, <2>1 DEF MergedWell, MergeStart
    <3>2. m.merged = {}
      BY <1>9, <3>1
    <3>3. Cover(m.merged) = Cover(S)
      BY <2>1, <3>2
    <3>4. QED
      BY <3>2, <3>3 DEF Apart
  <2>2. CASE S # {}
    <3>1. PICK p : /\ a.prev = {p} /\ IsRange(p) /\ \A q \in a.merged : q.endDate + 1 < p.startDate
      BY <1>6, <2>2 DEF MergedWell
    <3>2. m.merged = a.merged \cup {p}
      BY <1>9, <3>1
    <3>3. Apart(a.merged \cup {p})
      BY <1>6, <3>1 DEF Apart, MergedWell
    <3>4. Cover(m.merged) = Cover(S) /\ \A q \in a.merged : IsRange(q)
      BY <1>6, <1>9 DEF MergedWell
    <3>5. QED
      BY <3>1, <3>2, <3>3, <3>4
  <2>3. QED
    BY <2>1, <2>2
<1>11. m.merged = MaximalRuns(Cover(S))
  BY <1>10, ApartAreRuns
<1>12. ASSUME Disjoint(S) PROVE (S \cup m.new) \ m.old = m.merged
  <2>1. /\ a.new = a.merged \ S /\ a.old = S \ (a.merged \cup a.prev)
        /\ a.prevMerged <=> S # {} /\ a.prev \cap S = {}
    BY <1>6, <1>12 DEF MergedWell
  <2>2. S = {} \/ \E p : a.prev = {p}
    BY <1>6 DEF MergedWell
  <2>3. S = {} => a.prev = {} /\ a.merged = {}
    BY <1>6 DEF MergedWell, MergeStart
  <2>4. a.prevMerged => a.prev \cap S = {}
    BY <2>1
  <2>5. ~a.prevMerged => a.prev \subseteq S
    BY <2>1, <2>2, <2>3
  <2>6. m.new = m.merged \ S
    BY <1>9, <2>1, <2>4, <2>5
  <2>7. m.old = S \ m.merged
    BY <1>9, <2>1
  <2>8. QED
    BY <2>6, <2>7
<1>13. MergeDateRangesFromIterable(ranges) = m /\ S = {ranges[k] : k \in 1..Len(ranges)}
  BY <1>3 DEF m, a, S
<1>14. QED
  BY <1>11, <1>12, <1>13
-----------------------------------------------------------------------------
LEMMA AppendIs ==
  ASSUME NEW A, NEW s \in Seq(A), NEW r \in A
  PROVE  /\ Append(s, r) \in Seq(A) /\ DOMAIN Append(s, r) = 1..(Len(s) + 1)
         /\ Append(s, r)[Len(s) + 1] = r /\ \A k \in 1..Len(s) : Append(s, r)[k] = s[k]
OBVIOUS

(* The stream stays in the order of its keys.                               *)
LEMMA StreamTypeStep == StreamTypeOK /\ [ReadRange]_streamed => StreamTypeOK'
<1> SUFFICES ASSUME StreamTypeOK, [ReadRange]_streamed PROVE StreamTypeOK'
  OBVIOUS
<1>1. CASE UNCHANGED streamed
  BY <1>1 DEF StreamTypeOK
<1>2. CASE ReadRange
  <2>1. PICK r \in AllRanges : /\ streamed # <<>> => Before(streamed[Len(streamed)], r)
                               /\ streamed' = Append(streamed, r)
    BY <1>2 DEF ReadRange
  <2>2. streamed \in Seq(AllRanges) /\ \A j, k \in DOMAIN streamed : j < k => Before(streamed[j], streamed[k])
    BY DEF StreamTypeOK
  <2> DEFINE n == Len(streamed)
  <2>3. n \in Nat /\ DOMAIN streamed = 1..n
    BY <2>2
  <2>4. /\ streamed' \in Seq(AllRanges) /\ DOMAIN streamed' = 1..(n + 1)
        /\ streamed'[n + 1] = r /\ \A k \in 1..n : streamed'[k] = streamed[k]
    BY <2>1, <2>2, AppendIs
  <2>5. \A k \in 1..n : Before(streamed[k], r)
    <3> TAKE k \in 1..n
    <3>1. n \in 1..n /\ streamed # <<>>
      BY <2>3
    <3>2. Before(streamed[n], r)
      BY <2>1, <3>1
    <3>3. k = n \/ Before(streamed[k], streamed[n])
      <4>1. k \in DOMAIN streamed /\ n \in DOMAIN streamed
        BY <2>3, <3>1
      <4> HIDE DEF n
      <4>2. k = n \/ k < n
        BY <2>3
      <4>3. QED
        BY <2>2, <4>1, <4>2
    <3>4. streamed[k] \in AllRanges /\ streamed[n] \in AllRanges
      BY <2>2, <2>3, <3>1
    <3> HIDE DEF n
    <3>5. CASE k = n
      BY <3>2, <3>5
    <3>6. CASE Before(streamed[k], streamed[n])
      BY <3>2, <3>4, <3>6 DEF Before, AllRanges, DateRangesUpTo
    <3>7. QED
      BY <3>3, <3>5, <3>6
  <2>6. ASSUME NEW j \in 1..(n + 1), NEW k \in 1..(n + 1), j < k
        PROVE  Before(streamed'[j], streamed'[k])
    <3>1. CASE k = n + 1
      <4>1. j \in 1..n
        BY <2>3, <2>6, <3>1
      <4>2. QED
        BY <2>4, <2>5, <3>1, <4>1
    <3>2. CASE k # n + 1
      <4>1. j \in 1..n /\ k \in 1..n
        BY <2>3, <2>6, <3>2
      <4>2. QED
        BY <2>2, <2>3, <2>4, <2>6, <4>1
    <3>3. QED
      BY <3>1, <3>2
  <2>7. QED
    BY <2>4, <2>6 DEF StreamTypeOK
<1>3. QED
  BY <1>1, <1>2

LEMMA StreamTypeCorrect == StreamSpec => []StreamTypeOK
<1>1. StreamInit => StreamTypeOK
  BY DEF StreamInit, StreamTypeOK
<1>2. QED
  BY <1>1, StreamTypeStep, PTL DEF StreamSpec

(* Whatever ranges a store has, as long as they are read in the order of    *)
(* their keys: clipping them from any range leaves the fewest ranges of the *)
(* other instants, in order; merging them gives the fewest of their         *)
(* instants; and compacting them, if they share none, leaves these in the   *)
(* store (clipDateRangesFromIterable, mergeDateRangesFromIterable).         *)
THEOREM RangesAreAlwaysExact == StreamSpec => []RangesAreExact
<1>1. ASSUME StreamTypeOK PROVE RangesAreExact
  <2> DEFINE n == Len(streamed)
             S == {streamed[k] : k \in 1..n}
  <2>1. /\ streamed \in Seq(AnyRange) /\ n \in Nat /\ DOMAIN streamed = 1..n
        /\ \A k \in 1..n : IsRange(streamed[k])
    <3>1. streamed \in Seq(AllRanges)
      BY <1>1 DEF StreamTypeOK
    <3>2. \A r \in AllRanges : r \in AnyRange /\ IsRange(r)
      BY DEF AllRanges, DateRangesUpTo, AnyRange, IsRange
    <3>3. QED
      BY <3>1, <3>2
  <2>2. \A j, k \in 1..n : j < k => Before(streamed[j], streamed[k])
    BY <1>1, <2>1 DEF StreamTypeOK
  <2>3. Streamed = S
    BY <2>1 DEF Streamed, Range
  <2>4. /\ Merged.merged = MaximalRuns(Cover(S))
        /\ Disjoint(S) => (S \cup Merged.new) \ Merged.old = Merged.merged
    BY <2>1, <2>2, MergeIterableExact DEF Merged
  <2>5. ASSUME NEW total \in AllRanges
        PROVE  ClipAll({total}, streamed) = MaximalRuns(Instants(total) \ Cover(S))
    <3> DEFINE R == {total}
    <3>1. IsRange(total)
      BY DEF AllRanges, DateRangesUpTo, AnyRange, IsRange
    <3>2. IsFiniteSet(R)
      BY FS_Singleton
    <3>3. Apart(R)
      BY DEF Apart
    <3>4. Cover(R) = Instants(total)
      BY DEF Cover
    <3>5. \A r \in R : IsRange(r)
      BY <3>1
    <3> HIDE DEF R
    <3>6. /\ \A r \in ClipAll(R, streamed) : IsRange(r)
          /\ Cover(ClipAll(R, streamed)) = Cover(R) \ Cover(S)
          /\ Apart(ClipAll(R, streamed))
      <4>1. Len(streamed) \in Nat /\ \A k \in 1..Len(streamed) : IsRange(streamed[k])
        BY <2>1
      <4>2. /\ IsFiniteSet(ClipAll(R, streamed))
            /\ \A r \in ClipAll(R, streamed) : IsRange(r)
            /\ Cover(ClipAll(R, streamed)) = Cover(R) \ Cover({streamed[k] : k \in 1..Len(streamed)})
            /\ Disjoint(R) => Disjoint(ClipAll(R, streamed))
            /\ Apart(R) => Apart(ClipAll(R, streamed))
        BY <3>2, <3>5, <4>1, ClipIterableExact, Zenon
      <4>3. QED
        BY <3>3, <4>2
    <3>7. ClipAll(R, streamed) = MaximalRuns(Instants(total) \ Cover(S))
      BY <3>4, <3>6, ApartAreRuns
    <3>8. QED
      BY <3>7 DEF R
  <2> HIDE DEF S
  <2>6. ClipIsExact
    BY <2>3, <2>5 DEF ClipIsExact, ClipDateRangesFromIterable
  <2>7. MergedIsExact /\ CompactedIsExact
    BY <2>3, <2>4 DEF MergedIsExact, CompactedIsExact
  <2>8. QED
    BY <2>6, <2>7 DEF RangesAreExact
<1>2. QED
  BY <1>1, StreamTypeCorrect, PTL
-----------------------------------------------------------------------------
(* What fetchAllRanges has found out of a request, and what its future has. *)
CallInv(n) ==
  /\ call[n] \in {"none", "request"} => status[n] = "new"
  /\ status[n] = "new" => call[n] \in {"none", "request", "failed"}
  /\ status[n] \in {"new", "open"} <=> response[n] = "none"
  /\ call[n] = "wait" => status[n] = "open"
  /\ call[n] \in {"readComplete", "ready", "done"} => status[n] \in {"complete", "gone"}
  /\ call[n] = "save" => status[n] # "gone"

(* While reads are answered in order, nothing comes between two steps of a  *)
(* read and the write that follows it.                                      *)
PromptInv(n) ==
  ~slowReads =>
    /\ call[n] # "stuck"
    /\ call[n] = "readOpen" => status[n] = "open"
    /\ call[n] = "check" => status[n] # "gone"
    /\ call[n] \in {"readComplete", "ready"} => status[n] = "complete"
    /\ response[n] = "found" => status[n] = "complete"

(* A range that waits has the request that was made for it.                 *)
StoreInv(r) ==
  /\ nonceOf[r] \in Nonce =>
       /\ range[nonceOf[r]] = r
       /\ call[nonceOf[r]] \notin {"none", "request", "save"}
       /\ status[nonceOf[r]] # "new"
       /\ ~slowReads => status[nonceOf[r]] # "gone"
  /\ nonceOf[r] \in Nonce <=> states[r] \in {"Pending", "Ready"}
  /\ ~slowReads /\ states[r] = "Ready" => status[nonceOf[r]] = "complete"

StartInv ==
  /\ phase # "up" => processing = "idle" /\ \A n \in Nonce : call[n] \in {"none", "done", "failed"}
  /\ phase = "down" => complete = {}
  /\ phase = "init" =>
       /\ \A r \in toInit \cup complete : nonceOf[r] \in Nonce
       /\ ~slowReads => \A r \in complete : status[nonceOf[r]] = "complete"

(* The request in hand is complete, and once its range is saved as          *)
(* processed no range has it.                                               *)
ProcessInv ==
  processing \in {"handle", "save", "remove"} =>
    /\ currentNonce \in Nonce
    /\ status[currentNonce] = "complete"
    /\ range[currentNonce] = current
    /\ call[currentNonce] \notin {"none", "request", "save"}
    /\ ~slowReads => call[currentNonce] \in {"done", "failed"}
    /\ ~slowReads /\ processing = "remove" =>
         /\ response[currentNonce] # "found"
         /\ \A r \in DateRanges : nonceOf[r] # currentNonce

OneAvailable == \A p, q \in available : p = q

RequestInv ==
  /\ TypeOK /\ OneAvailable
  /\ \A n \in Nonce : CallInv(n) /\ PromptInv(n)
  /\ \A r \in DateRanges : StoreInv(r)
  /\ StartInv /\ ProcessInv

(* All that a merge has read or will, and what it writes, is in S.          *)
MergeWithin(merge, S) ==
  /\ Cover(merge.toRead) \subseteq S
  /\ Cover(merge.acc.prev) \subseteq S
  /\ Cover(merge.acc.old) \subseteq S
  /\ Cover(merge.acc.new) \subseteq S

Done == {i \in 0..LastDate : handled[i] > 0}

(* All that the store, a merge or the job in hand takes for processed.      *)
HandledInv ==
  /\ Cover(InState("Processed")) \subseteq Done
  /\ \A m \in Merger : MergeWithin(merging[m], Done)
  /\ processing \in {"save", "remove"} => Instants(current) \subseteq Done
-----------------------------------------------------------------------------
LEMMA RangesFinite == IsFiniteSet(DateRanges)
<1> DEFINE P == (0..LastDate) \X (0..LastDate)
           Q == [startDate : 0..LastDate, endDate : 0..LastDate]
           f == [p \in P |-> [startDate |-> p[1], endDate |-> p[2]]]
<1>1. f \in Surjection(P, Q)
  <2>1. f \in [P -> Q]
    OBVIOUS
  <2>2. ASSUME NEW q \in Q PROVE \E p \in P : f[p] = q
    <3>1. <<q.startDate, q.endDate>> \in P /\ f[<<q.startDate, q.endDate>>] = q
      OBVIOUS
    <3>2. QED
      BY <3>1
  <2>3. QED
    BY <2>1, <2>2 DEF Surjection
<1>2. IsFiniteSet(0..LastDate)
  BY FS_Interval, LastDateAssumption
<1>3. IsFiniteSet(P)
  BY <1>2, FS_Product
<1>4. IsFiniteSet(Q)
  <2> HIDE DEF P, Q, f
  <2>1. QED
    BY <1>1, <1>3, FS_Surjection
<1>5. DateRanges \in SUBSET Q
  BY DEF DateRanges, DateRangesUpTo
<1> HIDE DEF Q
<1>6. QED
  BY <1>4, <1>5, FS_Subset

LEMMA RangesAreRanges ==
  ASSUME NEW r \in DateRanges
  PROVE  IsRange(r) /\ Instants(r) \subseteq 0..LastDate /\ Instants(r) # {}
<1>1. IsRange(r) /\ Instants(r) \subseteq 0..LastDate
  <2>1. /\ r \in AnyRange /\ r.startDate <= r.endDate
        /\ r.startDate \in 0..LastDate /\ r.endDate \in 0..LastDate
    BY LastDateAssumption DEF DateRanges, DateRangesUpTo, AnyRange
  <2>2. QED
    BY <2>1, LastDateAssumption DEF IsRange, AnyRange, Instants
<1>2. r.startDate \in Instants(r)
  BY <1>1 DEF IsRange, AnyRange, Instants
<1>3. QED
  BY <1>1, <1>2

LEMMA InRanges ==
  ASSUME NEW r, IsRange(r), Instants(r) \subseteq 0..LastDate
  PROVE  r \in DateRanges
<1>1. r.startDate \in Instants(r) /\ r.endDate \in Instants(r)
  BY DEF IsRange, AnyRange, Instants
<1>2. r.startDate \in 0..LastDate /\ r.endDate \in 0..LastDate
  BY <1>1
<1>3. QED
  BY <1>2 DEF DateRanges, DateRangesUpTo, IsRange, AnyRange

LEMMA ChunkIs ==
  ASSUME NEW r, IsRange(r)
  PROVE  IsRange(Chunk(r)) /\ Instants(Chunk(r)) \subseteq Instants(r)
BY ChunkTimeframeAssumption DEF Chunk, IsRange, AnyRange, DateRange, MaxDate, Instants

(* What fetchAllRanges asks for is available, no stored range has any of    *)
(* it, and none of it is asked for twice.                                   *)
LEMMA RangesToFetchAre ==
  ASSUME available \in SUBSET DateRanges, OneAvailable
  PROVE  /\ RangesToFetch \subseteq DateRanges
         /\ Disjoint(RangesToFetch)
         /\ Cover(RangesToFetch) \cap Cover(Known) = {}
<1> DEFINE clips == SortedRanges(Known)
           left == ClipAll(available, clips)
           pending == SortedRanges(left)
           newest == Chunk(pending[Len(pending)])
           before == Chunk(pending[Len(pending) - 1])
<1>1. Known \in SUBSET DateRanges
  BY DEF Known
<1>2. IsFiniteSet(Known) /\ IsFiniteSet(available)
  BY <1>1, RangesFinite, FS_Subset
<1>3. /\ \A r \in Known : IsRange(r)
      /\ \A r \in available : IsRange(r)
  BY <1>1, RangesAreRanges
<1>4. /\ Len(clips) \in Nat
      /\ \A k \in 1..Len(clips) : clips[k] \in Known
      /\ \A r \in Known : \E k \in 1..Len(clips) : clips[k] = r
  BY <1>2, <1>3, SortedIs
<1> HIDE DEF clips
<1>5. {clips[k] : k \in 1..Len(clips)} = Known
  BY <1>4
<1>6. \A k \in 1..Len(clips) : IsRange(clips[k])
  BY <1>3, <1>4
<1>7. /\ IsFiniteSet(left)
      /\ \A r \in left : IsRange(r)
      /\ Cover(left) = Cover(available) \ Cover(Known)
      /\ Disjoint(left)
  <2>1. Disjoint(available)
    BY DEF Disjoint, OneAvailable
  <2>2. Len(clips) \in Nat
    BY <1>4
  <2> DEFINE all == ClipAll(available, clips)
  <2>3. /\ IsFiniteSet(all) /\ \A r \in all : IsRange(r)
        /\ Cover(all) = Cover(available) \ Cover({clips[k] : k \in 1..Len(clips)})
        /\ Disjoint(available) => Disjoint(all)
        /\ Apart(available) => Apart(all)
    BY <1>2, <1>3, <1>6, <2>2, ClipIterableExact
  <2>4. QED
    BY <1>5, <2>1, <2>3
<1> HIDE DEF left
<1>8. /\ Len(pending) \in Nat /\ pending \in Seq(left)
      /\ \A k \in 1..Len(pending) : pending[k] \in left
      /\ \A j, k \in 1..Len(pending) : j < k => Before(pending[j], pending[k])
  BY <1>7, SortedIs
<1>9. RangesToFetch \subseteq IF pending = <<>> THEN {}
        ELSE {newest} \cup (IF Len(pending) > 1 THEN {before} ELSE {})
  BY DEF RangesToFetch, ClipDateRangesFromIterable, clips, left
<1> HIDE DEF pending
<1>10. pending # <<>> => Len(pending) \in 1..Len(pending)
  BY <1>8
<1>11. \A q \in RangesToFetch :
         \E k \in 1..Len(pending) : pending[k] \in left /\ q = Chunk(pending[k])
  <2>1. pending # <<>> /\ Len(pending) > 1 => Len(pending) - 1 \in 1..Len(pending)
    BY <1>8
  <2>2. QED
    BY <1>8, <1>9, <1>10, <2>1
<1>12. \A q \in RangesToFetch : \E r \in left : IsRange(q) /\ Instants(q) \subseteq Instants(r)
  BY <1>7, <1>11, ChunkIs
<1>13. \A r \in left : Instants(r) \subseteq Cover(available) \ Cover(Known)
  BY <1>7 DEF Cover
<1>14. Cover(available) \subseteq 0..LastDate
  BY RangesAreRanges DEF Cover
<1>15. \A q \in RangesToFetch : q \in DateRanges /\ Instants(q) \cap Cover(Known) = {}
  <2> TAKE q \in RangesToFetch
  <2>1. PICK r \in left : IsRange(q) /\ Instants(q) \subseteq Instants(r)
    BY <1>12
  <2>2. Instants(q) \subseteq Cover(available) \ Cover(Known)
    BY <2>1, <1>13
  <2>3. QED
    BY <2>1, <2>2, <1>14, InRanges
<1>16. Disjoint(RangesToFetch)
  <2> SUFFICES ASSUME NEW p \in RangesToFetch, NEW q \in RangesToFetch, p # q
               PROVE  Instants(p) \cap Instants(q) = {}
    BY DEF Disjoint
  <2>1. PICK j \in 1..Len(pending) : pending[j] \in left /\ p = Chunk(pending[j])
    BY <1>11
  <2>2. PICK k \in 1..Len(pending) : pending[k] \in left /\ q = Chunk(pending[k])
    BY <1>11
  <2>3. pending[j] # pending[k]
    BY <2>1, <2>2
  <2>4. Instants(pending[j]) \cap Instants(pending[k]) = {}
    BY <2>1, <2>2, <2>3, <1>7 DEF Disjoint
  <2>5. Instants(p) \subseteq Instants(pending[j]) /\ Instants(q) \subseteq Instants(pending[k])
    BY <2>1, <2>2, <1>7, ChunkIs
  <2>6. QED
    BY <2>4, <2>5
<1>17. QED
  BY <1>15, <1>16 DEF Cover
-----------------------------------------------------------------------------
-----------------------------------------------------------------------------
StoreTypes ==
  /\ CompactionTypeOK
  /\ nonceOf \in [DateRanges -> Nonce \cup {NoNonce}]
  /\ status \in [Nonce -> {"new", "open", "complete", "gone"}]
  /\ phase \in {"down", "init", "up", "failed"}
  /\ toInit \in SUBSET DateRanges
  /\ complete \in SUBSET DateRanges

CallTypes ==
  /\ awaited \in SUBSET Nonce
  /\ call \in [Nonce -> CallState]
  /\ range \in [Nonce -> DateRanges]
  /\ response \in [Nonce -> ResponseState]

JobTypes ==
  /\ processing \in {"idle", "next", "handle", "save", "remove"}
  /\ toProcess \in SUBSET DateRanges
  /\ current \in DateRanges
  /\ currentNonce \in Nonce \cup {NoNonce}
  /\ available \in SUBSET DateRanges
  /\ handled \in [0..LastDate -> 0..2]
  /\ slowReads \in SlowReads
  /\ faults \in 0..MaxFaults
  /\ OneAvailable

LEMMA TypesAre == TypeOK /\ OneAvailable <=> StoreTypes /\ CallTypes /\ JobTypes
BY DEF TypeOK, StoreTypes, CallTypes, JobTypes

LEMMA InStateType == ASSUME NEW code PROVE InState(code) \in SUBSET DateRanges
BY DEF InState

LEMMA FaultType == ASSUME faults \in 0..MaxFaults, NEW kind, Fault(kind) PROVE faults' \in 0..MaxFaults
BY FaultAssumption DEF Fault

LEMMA TypeInit == Init => TypeOK /\ OneAvailable
<1> SUFFICES ASSUME Init PROVE TypeOK /\ OneAvailable
  OBVIOUS
<1>1. SomeRange \in DateRanges
  BY LastDateAssumption DEF SomeRange, DateRange, DateRanges, DateRangesUpTo
<1>2. CompactionTypeOK
  BY DEF Init, CompactionInit, CompactionTypeOK, NoMerge, MergeState, MergeAcc, MergeStart, StateCode
<1>3. StoreTypes
  BY <1>2 DEF Init, StoreTypes
<1>4. CallTypes
  BY <1>1 DEF Init, CallTypes, CallState, ResponseState
<1>5. JobTypes
  BY <1>1, FaultAssumption DEF Init, JobTypes, OneAvailable
<1>6. QED
  BY <1>3, <1>4, <1>5, TypesAre

LEMMA TypeStep ==
  ASSUME TypeOK, OneAvailable, Next, UNCHANGED slowReads
  PROVE  TypeOK' /\ OneAvailable'
<1>1. StoreTypes /\ CallTypes /\ JobTypes
  BY TypesAre
<1>2. SUFFICES StoreTypes' /\ CallTypes' /\ JobTypes'
  BY DEF TypeOK, OneAvailable, StoreTypes, CallTypes, JobTypes
<1> USE DEF callVars, processVars, initVars
<1>3. ASSUME NEW n \in Nonce, SavePending(n) PROVE StoreTypes' /\ CallTypes' /\ JobTypes'
  BY <1>1, <1>3 DEF SavePending, SaveState, StoreTypes, CallTypes, JobTypes, OneAvailable,
     CompactionTypeOK, StateCode, CallState
<1>4. ASSUME NEW n \in Nonce, SaveReady(n) PROVE StoreTypes' /\ CallTypes' /\ JobTypes'
  BY <1>1, <1>4 DEF SaveReady, SaveState, StoreTypes, CallTypes, JobTypes, OneAvailable,
     CompactionTypeOK, StateCode, CallState
<1>5. ASSUME NEW n \in Nonce, CheckComplete(n) PROVE StoreTypes' /\ CallTypes' /\ JobTypes'
  BY <1>1, <1>5 DEF compactionVars, CheckComplete, CallFails, StoreTypes, CallTypes, JobTypes, OneAvailable,
     CompactionTypeOK, CallState
<1>6. ASSUME NEW n \in Nonce, AwaitRequestComplete(n) PROVE StoreTypes' /\ CallTypes' /\ JobTypes'
  <2>1. GetFuture(n) \in CallState
    BY DEF GetFuture, CallState
  <2>2. QED
    BY <1>1, <1>6, <2>1 DEF compactionVars, AwaitRequestComplete, StoreTypes, CallTypes, JobTypes, OneAvailable,
       CompactionTypeOK, CallState
<1>7. ASSUME NEW n \in Nonce, SaveResponseReady(n) PROVE StoreTypes' /\ CallTypes' /\ JobTypes'
  BY <1>1, <1>7 DEF SaveResponseReady, SaveState, StoreTypes, CallTypes, JobTypes, OneAvailable,
     CompactionTypeOK, StateCode, ResponseState
<1>8. ASSUME StartStep PROVE StoreTypes' /\ CallTypes' /\ JobTypes'
  <2>1. CASE Start
    BY <1>1, <2>1, InStateType DEF compactionVars, Start, StoreTypes, CallTypes, JobTypes, OneAvailable, CompactionTypeOK
  <2>2. CASE InitPendingRange
    BY <1>1, <2>2 DEF compactionVars, InitPendingRange, StoreTypes, CallTypes, JobTypes, OneAvailable, CompactionTypeOK
  <2>3. CASE InitReadyRanges
    BY <1>1, <2>3 DEF InitReadyRanges, StoreTypes, CallTypes, JobTypes, OneAvailable,
       CompactionTypeOK, StateCode
  <2>4. QED
    BY <1>8, <2>1, <2>2, <2>3 DEF StartStep
<1>9. ASSUME FetchAllRanges PROVE StoreTypes' /\ CallTypes' /\ JobTypes'
  <2>1. RangesToFetch \in SUBSET DateRanges
    BY <1>1, RangesToFetchAre DEF JobTypes
  <2>2. PICK N \in SUBSET FreshNonces : \E f \in [N -> RangesToFetch] :
          /\ range' = [n \in Nonce |-> IF n \in N THEN f[n] ELSE range[n]]
          /\ call' = [n \in Nonce |-> IF n \in N THEN "request" ELSE call[n]]
          /\ awaited' = N
    BY <1>9 DEF FetchAllRanges
  <2>3. PICK f \in [N -> RangesToFetch] :
          range' = [n \in Nonce |-> IF n \in N THEN f[n] ELSE range[n]]
    BY <2>2
  <2>4. CallTypes'
    <3>1. N \in SUBSET Nonce /\ \A n \in N : f[n] \in DateRanges
      BY <2>1 DEF FreshNonces
    <3>2. QED
      BY <1>1, <1>9, <2>2, <2>3, <3>1 DEF FetchAllRanges, CallTypes, CallState
  <2>5. StoreTypes' /\ JobTypes'
    BY <1>1, <1>9 DEF compactionVars, FetchAllRanges, StoreTypes, JobTypes, OneAvailable, CompactionTypeOK
  <2>6. QED
    BY <2>4, <2>5
<1>10. ASSUME NEW n \in Nonce, RequestRange(n) PROVE StoreTypes' /\ CallTypes' /\ JobTypes'
  BY <1>1, <1>10 DEF compactionVars, RequestRange, StoreTypes, CallTypes, JobTypes, OneAvailable,
     CompactionTypeOK, CallState, ResponseState
<1>11. ASSUME NEW n \in Nonce, RequestFails(n) PROVE StoreTypes' /\ CallTypes' /\ JobTypes'
  <2>1. faults' \in 0..MaxFaults
    BY <1>1, <1>11, FaultType DEF RequestFails, JobTypes
  <2>2. QED
    BY <1>1, <1>11, <2>1 DEF compactionVars, RequestFails, CallFails, StoreTypes, CallTypes, JobTypes, OneAvailable,
     CompactionTypeOK, CallState
<1>12. ASSUME NEW n \in Nonce, CompleteRequest(n) PROVE StoreTypes' /\ CallTypes' /\ JobTypes'
  BY <1>1, <1>12 DEF compactionVars, CompleteRequest, StoreTypes, CallTypes, JobTypes, OneAvailable,
     CompactionTypeOK, CallState, ResponseState
<1>13. ASSUME NEW n \in Nonce, ResponseStep(n) PROVE StoreTypes' /\ CallTypes' /\ JobTypes'
  BY <1>1, <1>13 DEF compactionVars, ResponseStep, EmitResponse, OnEntityResponse, StoreTypes, CallTypes, JobTypes,
     OneAvailable, CompactionTypeOK, CallState, ResponseState
<1>14. ASSUME ProcessStep PROVE StoreTypes' /\ CallTypes' /\ JobTypes'
  <2>1. CASE ProcessRanges
    BY <1>1, <2>1, InStateType DEF compactionVars, ProcessRanges, StoreTypes, CallTypes, JobTypes, OneAvailable, CompactionTypeOK
  <2>2. CASE NextReadyRange
    BY <1>1, <2>2 DEF compactionVars, NextReadyRange, StoreTypes, CallTypes, JobTypes, OneAvailable, CompactionTypeOK
  <2>3. CASE EndProcessRanges
    BY <1>1, <2>3 DEF compactionVars, EndProcessRanges, StoreTypes, CallTypes, JobTypes, OneAvailable, CompactionTypeOK
  <2>4. CASE HandleRange
    <3>1. faults' \in 0..MaxFaults
      BY <1>1, <2>4, FaultType DEF HandleRange, JobTypes
    <3>2. handled' \in [0..LastDate -> 0..2]
      BY <1>1, <2>4 DEF HandleRange, JobTypes
    <3>3. QED
      BY <1>1, <2>4, <3>1, <3>2 DEF compactionVars, HandleRange, StoreTypes, CallTypes, JobTypes, OneAvailable, CompactionTypeOK
  <2>5. CASE SaveProcessed
    BY <1>1, <2>5 DEF SaveProcessed, SaveState, StoreTypes, CallTypes, JobTypes, OneAvailable,
       CompactionTypeOK, StateCode
  <2>6. CASE RemoveRequest
    BY <1>1, <2>6 DEF compactionVars, RemoveRequest, StoreTypes, CallTypes, JobTypes, OneAvailable, CompactionTypeOK
  <2>7. QED
    BY <1>14, <2>1, <2>2, <2>3, <2>4, <2>5, <2>6 DEF ProcessStep
<1>15. ASSUME NEW m \in Merger, Compact(m) PROVE StoreTypes' /\ CallTypes' /\ JobTypes'
  <2>1. CompactionTypeOK'
    BY <1>1, <1>15, MergeStepType DEF Compact, StoreTypes
  <2>2. nonceOf' \in [DateRanges -> Nonce \cup {NoNonce}]
    BY <1>1, <1>15 DEF Compact, StoreTypes
  <2>3. QED
    BY <1>1, <1>15, <2>1, <2>2 DEF Compact, StoreTypes, CallTypes, JobTypes, OneAvailable
<1>16. ASSUME GrowHistory PROVE StoreTypes' /\ CallTypes' /\ JobTypes'
  BY <1>1, <1>16 DEF compactionVars, GrowHistory, StoreTypes, CallTypes, JobTypes, OneAvailable, CompactionTypeOK
<1>17. ASSUME Crash PROVE StoreTypes' /\ CallTypes' /\ JobTypes'
  <2>1. faults' \in 0..MaxFaults
    BY <1>1, <1>17, FaultType DEF Crash, JobTypes
  <2>2. CompactionTypeOK'
    BY <1>1, <1>17 DEF Crash, StoreTypes, CompactionTypeOK, NoMerge, MergeState, MergeAcc, MergeStart
  <2>3. QED
    BY <1>1, <1>17, <2>1, <2>2 DEF Crash, StoreTypes, CallTypes, JobTypes, OneAvailable,
       CallState, ResponseState
<1>18. QED
  BY <1>3, <1>4, <1>5, <1>6, <1>7, <1>8, <1>9, <1>10, <1>11, <1>12, <1>13, <1>14, <1>15, <1>16, <1>17
     DEF Next, SaveQueued, FinishRead
-----------------------------------------------------------------------------
LEMMA QuietIs ==
  ASSUME Quiet
  PROVE  \A n \in Nonce :
           /\ call[n] \notin {"save", "ready"}
           /\ ~slowReads => call[n] \notin {"check", "readOpen", "readComplete"} /\ response[n] # "found"
BY DEF Quiet, Queued, Reading

LEMMA NotQueuedIs ==
  ASSUME ~Queued
  PROVE  \A n \in Nonce : call[n] \notin {"save", "ready"}
BY DEF Queued

(* Between reads a complete request has no call that waits for it.          *)
LEMMA QuietComplete ==
  ASSUME RequestInv, Quiet, NEW n \in Nonce, status[n] = "complete", ~slowReads
  PROVE  call[n] \in {"done", "failed"}
BY QuietIs DEF RequestInv, CallInv, PromptInv, TypeOK, CallState

CallsInv == \A n \in Nonce : CallInv(n) /\ PromptInv(n)
RangesInv == \A r \in DateRanges : StoreInv(r)

LEMMA InvParts == RequestInv <=> TypeOK /\ OneAvailable /\ CallsInv /\ RangesInv /\ StartInv /\ ProcessInv
BY DEF RequestInv, CallsInv, RangesInv

LEMMA SavePendingKeeps ==
  ASSUME RequestInv, NEW n \in Nonce, SavePending(n), UNCHANGED slowReads
  PROVE  CallsInv' /\ RangesInv' /\ StartInv' /\ ProcessInv'
<1>1. StoreTypes /\ CallTypes /\ JobTypes /\ CallsInv /\ RangesInv /\ StartInv /\ ProcessInv
  BY TypesAre, InvParts
<1>2. CallsInv'
  BY <1>1 DEF CallsInv, CallInv, PromptInv, SavePending
<1>3. RangesInv'
  BY <1>1 DEF CallsInv, CallInv, RangesInv, StoreInv, SavePending, SaveState, StoreTypes,
     CompactionTypeOK, CallTypes
<1>4. StartInv'
  BY <1>1 DEF StartInv, SavePending, initVars
<1>5. ProcessInv'
  BY <1>1 DEF ProcessInv, SavePending, SaveState, processVars
<1>6. QED
  BY <1>2, <1>3, <1>4, <1>5

LEMMA SaveReadyKeeps ==
  ASSUME RequestInv, NEW n \in Nonce, SaveReady(n), UNCHANGED slowReads
  PROVE  CallsInv' /\ RangesInv' /\ StartInv' /\ ProcessInv'
<1>1. StoreTypes /\ CallTypes /\ JobTypes /\ CallsInv /\ RangesInv /\ StartInv /\ ProcessInv
  BY TypesAre, InvParts
<1>2. CallsInv'
  BY <1>1 DEF CallsInv, CallInv, PromptInv, SaveReady
<1>3. RangesInv'
  BY <1>1 DEF CallsInv, CallInv, PromptInv, RangesInv, StoreInv, SaveReady, SaveState, StoreTypes,
     CompactionTypeOK
<1>4. StartInv'
  BY <1>1 DEF StartInv, SaveReady, initVars
<1>5. ProcessInv'
  BY <1>1 DEF ProcessInv, SaveReady, SaveState, processVars
<1>6. QED
  BY <1>2, <1>3, <1>4, <1>5

LEMMA CheckCompleteKeeps ==
  ASSUME RequestInv, ~Queued, NEW n \in Nonce, CheckComplete(n), UNCHANGED slowReads
  PROVE  CallsInv' /\ RangesInv' /\ StartInv' /\ ProcessInv'
<1>1. StoreTypes /\ CallTypes /\ JobTypes /\ CallsInv /\ RangesInv /\ StartInv /\ ProcessInv
  BY TypesAre, InvParts
<1>2. CallsInv'
  BY <1>1 DEF CallsInv, CallInv, PromptInv, CheckComplete, CallFails, StoreTypes, CallTypes
<1>3. RangesInv'
  BY <1>1 DEF compactionVars, RangesInv, StoreInv, CheckComplete, CallFails, CallTypes
<1>4. StartInv'
  BY <1>1 DEF StartInv, CheckComplete, initVars
<1>5. ProcessInv'
  BY <1>1 DEF ProcessInv, CheckComplete, CallFails, processVars, CallTypes
<1>6. QED
  BY <1>2, <1>3, <1>4, <1>5

LEMMA AwaitRequestKeeps ==
  ASSUME RequestInv, ~Queued, NEW n \in Nonce, AwaitRequestComplete(n), UNCHANGED slowReads
  PROVE  CallsInv' /\ RangesInv' /\ StartInv' /\ ProcessInv'
<1>1. StoreTypes /\ CallTypes /\ JobTypes /\ CallsInv /\ RangesInv /\ StartInv /\ ProcessInv
  BY TypesAre, InvParts
<1>2. CallsInv'
  BY <1>1 DEF CallsInv, CallInv, PromptInv, AwaitRequestComplete, GetFuture, StoreTypes
<1>3. RangesInv'
  BY <1>1 DEF compactionVars, RangesInv, StoreInv, AwaitRequestComplete, GetFuture
<1>4. StartInv'
  BY <1>1 DEF StartInv, AwaitRequestComplete, initVars
<1>5. ProcessInv'
  BY <1>1 DEF ProcessInv, AwaitRequestComplete, GetFuture, processVars
<1>6. QED
  BY <1>2, <1>3, <1>4, <1>5

LEMMA SaveResponseKeeps ==
  ASSUME RequestInv, ~Queued, NEW n \in Nonce, SaveResponseReady(n), UNCHANGED slowReads
  PROVE  CallsInv' /\ RangesInv' /\ StartInv' /\ ProcessInv'
<1>1. StoreTypes /\ CallTypes /\ JobTypes /\ CallsInv /\ RangesInv /\ StartInv /\ ProcessInv
  BY TypesAre, InvParts
<1>2. CallsInv'
  BY <1>1 DEF CallsInv, CallInv, PromptInv, SaveResponseReady, callVars
<1>3. RangesInv'
  BY <1>1, NotQueuedIs DEF CallsInv, CallInv, PromptInv, RangesInv, StoreInv, SaveResponseReady,
     SaveState, callVars, StoreTypes, CompactionTypeOK
<1>4. StartInv'
  BY <1>1 DEF CallsInv, PromptInv, StartInv, SaveResponseReady, SaveState, initVars, callVars, processVars
<1>5. ProcessInv'
  BY <1>1 DEF ProcessInv, SaveResponseReady, SaveState, callVars, processVars
<1>6. QED
  BY <1>2, <1>3, <1>4, <1>5

LEMMA StartKeeps ==
  ASSUME RequestInv, Quiet, Start, UNCHANGED slowReads
  PROVE  CallsInv' /\ RangesInv' /\ StartInv' /\ ProcessInv'
<1>1. StoreTypes /\ CallTypes /\ JobTypes /\ CallsInv /\ RangesInv /\ StartInv /\ ProcessInv
  BY TypesAre, InvParts
<1>2. CallsInv'
  BY <1>1 DEF CallsInv, CallInv, PromptInv, Start, callVars
<1>3. RangesInv'
  BY <1>1 DEF compactionVars, RangesInv, StoreInv, Start, callVars
<1>4. StartInv'
  BY <1>1 DEF RangesInv, StoreInv, StartInv, Start, InState, callVars, processVars
<1>5. ProcessInv'
  BY <1>1 DEF ProcessInv, Start, callVars, processVars
<1>6. QED
  BY <1>2, <1>3, <1>4, <1>5

LEMMA InitPendingKeeps ==
  ASSUME RequestInv, Quiet, InitPendingRange, UNCHANGED slowReads
  PROVE  CallsInv' /\ RangesInv' /\ StartInv' /\ ProcessInv'
<1>1. StoreTypes /\ CallTypes /\ JobTypes /\ CallsInv /\ RangesInv /\ StartInv /\ ProcessInv
  BY TypesAre, InvParts
<1>2. PICK r \in toInit :
        /\ toInit' = toInit \ {r}
        /\ complete' = IF status[nonceOf[r]] = "complete" THEN complete \cup {r} ELSE complete
        /\ phase' = IF status[nonceOf[r]] \in {"new", "gone"} THEN "failed" ELSE phase
  BY DEF InitPendingRange, IsLeast
<1>3. CallsInv'
  BY <1>1 DEF CallsInv, CallInv, PromptInv, InitPendingRange, callVars
<1>4. RangesInv'
  BY <1>1 DEF compactionVars, RangesInv, StoreInv, InitPendingRange, callVars
<1>5. StartInv'
  BY <1>1, <1>2 DEF StartInv, InitPendingRange, callVars, processVars
<1>6. ProcessInv'
  BY <1>1 DEF ProcessInv, InitPendingRange, callVars, processVars
<1>7. QED
  BY <1>3, <1>4, <1>5, <1>6

LEMMA InitReadyKeeps ==
  ASSUME RequestInv, Quiet, InitReadyRanges, UNCHANGED slowReads
  PROVE  CallsInv' /\ RangesInv' /\ StartInv' /\ ProcessInv'
<1>1. StoreTypes /\ CallTypes /\ JobTypes /\ CallsInv /\ RangesInv /\ StartInv /\ ProcessInv
  BY TypesAre, InvParts
<1>2. CallsInv'
  BY <1>1 DEF CallsInv, CallInv, PromptInv, InitReadyRanges, callVars
<1>3. RangesInv'
  BY <1>1 DEF RangesInv, StoreInv, StartInv, InitReadyRanges, callVars
<1>4. StartInv'
  BY <1>1 DEF StartInv, InitReadyRanges
<1>5. ProcessInv'
  BY <1>1 DEF ProcessInv, InitReadyRanges, callVars, processVars
<1>6. QED
  BY <1>2, <1>3, <1>4, <1>5

LEMMA RequestRangeKeeps ==
  ASSUME RequestInv, Quiet, NEW n \in Nonce, RequestRange(n), UNCHANGED slowReads
  PROVE  CallsInv' /\ RangesInv' /\ StartInv' /\ ProcessInv'
<1>1. StoreTypes /\ CallTypes /\ JobTypes /\ CallsInv /\ RangesInv /\ StartInv /\ ProcessInv
  BY TypesAre, InvParts
<1>2. CallsInv'
  BY <1>1 DEF CallsInv, CallInv, PromptInv, RequestRange, StoreTypes, CallTypes
<1>3. RangesInv'
  BY <1>1 DEF compactionVars, RangesInv, StoreInv, RequestRange, StoreTypes
<1>4. StartInv'
  BY <1>1 DEF StartInv, RequestRange, initVars
<1>5. ProcessInv'
  BY <1>1 DEF ProcessInv, RequestRange, processVars, StoreTypes, CallTypes
<1>6. QED
  BY <1>2, <1>3, <1>4, <1>5

LEMMA RequestFailsKeeps ==
  ASSUME RequestInv, Quiet, NEW n \in Nonce, RequestFails(n), UNCHANGED slowReads
  PROVE  CallsInv' /\ RangesInv' /\ StartInv' /\ ProcessInv'
<1>1. StoreTypes /\ CallTypes /\ JobTypes /\ CallsInv /\ RangesInv /\ StartInv /\ ProcessInv
  BY TypesAre, InvParts
<1>2. CallsInv'
  BY <1>1 DEF CallsInv, CallInv, PromptInv, RequestFails, CallFails
<1>3. RangesInv'
  BY <1>1 DEF compactionVars, RangesInv, StoreInv, RequestFails, CallFails
<1>4. StartInv'
  BY <1>1 DEF StartInv, RequestFails, initVars
<1>5. ProcessInv'
  BY <1>1 DEF ProcessInv, RequestFails, CallFails, processVars
<1>6. QED
  BY <1>2, <1>3, <1>4, <1>5

LEMMA CompleteRequestKeeps ==
  ASSUME RequestInv, Quiet, NEW n \in Nonce, CompleteRequest(n), UNCHANGED slowReads
  PROVE  CallsInv' /\ RangesInv' /\ StartInv' /\ ProcessInv'
<1>1. StoreTypes /\ CallTypes /\ JobTypes /\ CallsInv /\ RangesInv /\ StartInv /\ ProcessInv
  BY TypesAre, InvParts
<1>2. CallsInv'
  BY <1>1, QuietIs DEF CallsInv, CallInv, PromptInv, CompleteRequest, StoreTypes, CallTypes
<1>3. RangesInv'
  BY <1>1 DEF compactionVars, RangesInv, StoreInv, CompleteRequest
<1>4. StartInv'
  BY <1>1 DEF StartInv, CompleteRequest, initVars, processVars
<1>5. ProcessInv'
  BY <1>1 DEF ProcessInv, CompleteRequest, processVars
<1>6. QED
  BY <1>2, <1>3, <1>4, <1>5

LEMMA EmitResponseKeeps ==
  ASSUME RequestInv, Quiet, NEW n \in Nonce, EmitResponse(n), UNCHANGED slowReads
  PROVE  CallsInv' /\ RangesInv' /\ StartInv' /\ ProcessInv'
<1>1. StoreTypes /\ CallTypes /\ JobTypes /\ CallsInv /\ RangesInv /\ StartInv /\ ProcessInv
  BY TypesAre, InvParts
<1>2. CallsInv'
  BY <1>1 DEF CallsInv, CallInv, PromptInv, EmitResponse, callVars
<1>3. RangesInv'
  BY <1>1 DEF compactionVars, RangesInv, StoreInv, EmitResponse, callVars
<1>4. StartInv'
  BY <1>1 DEF StartInv, EmitResponse, initVars, callVars, processVars
<1>5. ProcessInv'
  BY <1>1 DEF ProcessInv, EmitResponse, callVars, processVars
<1>6. QED
  BY <1>2, <1>3, <1>4, <1>5

LEMMA OnEntityResponseKeeps ==
  ASSUME RequestInv, Quiet, NEW n \in Nonce, OnEntityResponse(n), UNCHANGED slowReads
  PROVE  CallsInv' /\ RangesInv' /\ StartInv' /\ ProcessInv'
<1>1. StoreTypes /\ CallTypes /\ JobTypes /\ CallsInv /\ RangesInv /\ StartInv /\ ProcessInv
  BY TypesAre, InvParts
<1>2. CallsInv'
  BY <1>1 DEF CallsInv, CallInv, PromptInv, RangesInv, StoreInv, OnEntityResponse, callVars, StoreTypes,
     CallTypes
<1>3. RangesInv'
  BY <1>1 DEF compactionVars, RangesInv, StoreInv, OnEntityResponse, callVars
<1>4. StartInv'
  BY <1>1 DEF StartInv, OnEntityResponse, initVars, callVars, processVars
<1>5. ProcessInv'
  BY <1>1 DEF ProcessInv, OnEntityResponse, callVars, processVars, JobTypes
<1>6. QED
  BY <1>2, <1>3, <1>4, <1>5

LEMMA ProcessRangesKeeps ==
  ASSUME RequestInv, Quiet, ProcessRanges, UNCHANGED slowReads
  PROVE  CallsInv' /\ RangesInv' /\ StartInv' /\ ProcessInv'
<1>1. StoreTypes /\ CallTypes /\ JobTypes /\ CallsInv /\ RangesInv /\ StartInv /\ ProcessInv
  BY TypesAre, InvParts
<1>2. CallsInv'
  BY <1>1 DEF CallsInv, CallInv, PromptInv, ProcessRanges, callVars
<1>3. RangesInv'
  BY <1>1 DEF compactionVars, RangesInv, StoreInv, ProcessRanges, callVars
<1>4. StartInv'
  BY <1>1 DEF StartInv, ProcessRanges, initVars
<1>5. ProcessInv'
  BY <1>1 DEF ProcessInv, ProcessRanges
<1>6. QED
  BY <1>2, <1>3, <1>4, <1>5

LEMMA NextReadyKeeps ==
  ASSUME RequestInv, Quiet, NextReadyRange, UNCHANGED slowReads
  PROVE  CallsInv' /\ RangesInv' /\ StartInv' /\ ProcessInv'
<1>1. StoreTypes /\ CallTypes /\ JobTypes /\ CallsInv /\ RangesInv /\ StartInv /\ ProcessInv
  BY TypesAre, InvParts
<1>2. CallsInv'
  BY <1>1 DEF CallsInv, CallInv, PromptInv, NextReadyRange, callVars
<1>3. RangesInv'
  BY <1>1 DEF compactionVars, RangesInv, StoreInv, NextReadyRange, callVars
<1>4. StartInv'
  BY <1>1 DEF StartInv, NextReadyRange, initVars
<1>5. ProcessInv'
  BY <1>1, QuietIs DEF CallsInv, CallInv, PromptInv, RangesInv, StoreInv, ProcessInv, NextReadyRange,
     callVars, CallTypes, CallState
<1>6. QED
  BY <1>2, <1>3, <1>4, <1>5

LEMMA EndProcessKeeps ==
  ASSUME RequestInv, Quiet, EndProcessRanges, UNCHANGED slowReads
  PROVE  CallsInv' /\ RangesInv' /\ StartInv' /\ ProcessInv'
<1>1. StoreTypes /\ CallTypes /\ JobTypes /\ CallsInv /\ RangesInv /\ StartInv /\ ProcessInv
  BY TypesAre, InvParts
<1>2. CallsInv'
  BY <1>1 DEF CallsInv, CallInv, PromptInv, EndProcessRanges, callVars
<1>3. RangesInv'
  BY <1>1 DEF compactionVars, RangesInv, StoreInv, EndProcessRanges, callVars
<1>4. StartInv'
  BY <1>1 DEF StartInv, EndProcessRanges, initVars
<1>5. ProcessInv'
  BY <1>1 DEF ProcessInv, EndProcessRanges
<1>6. QED
  BY <1>2, <1>3, <1>4, <1>5

LEMMA HandleRangeKeeps ==
  ASSUME RequestInv, Quiet, HandleRange, UNCHANGED slowReads
  PROVE  CallsInv' /\ RangesInv' /\ StartInv' /\ ProcessInv'
<1>1. StoreTypes /\ CallTypes /\ JobTypes /\ CallsInv /\ RangesInv /\ StartInv /\ ProcessInv
  BY TypesAre, InvParts
<1>2. CallsInv'
  BY <1>1 DEF CallsInv, CallInv, PromptInv, HandleRange, callVars
<1>3. RangesInv'
  BY <1>1 DEF compactionVars, RangesInv, StoreInv, HandleRange, callVars
<1>4. StartInv'
  BY <1>1 DEF StartInv, HandleRange, initVars
<1>5. ProcessInv'
  BY <1>1 DEF ProcessInv, HandleRange, callVars
<1>6. QED
  BY <1>2, <1>3, <1>4, <1>5

LEMMA SaveProcessedKeeps ==
  ASSUME RequestInv, Quiet, SaveProcessed, UNCHANGED slowReads
  PROVE  CallsInv' /\ RangesInv' /\ StartInv' /\ ProcessInv'
<1>1. StoreTypes /\ CallTypes /\ JobTypes /\ CallsInv /\ RangesInv /\ StartInv /\ ProcessInv
  BY TypesAre, InvParts
<1>2. /\ currentNonce \in Nonce /\ status[currentNonce] = "complete" /\ range[currentNonce] = current
      /\ call[currentNonce] \notin {"none", "request", "save"} /\ phase = "up"
      /\ ~slowReads => call[currentNonce] \in {"done", "failed"}
  BY <1>1 DEF SaveProcessed, ProcessInv, StartInv
<1>3. ~slowReads => response[currentNonce] # "found"
  BY <1>2, QuietIs
<1> USE NoNonceAssumption
<1>4. nonceOf' = [nonceOf EXCEPT ![current] = NoNonce] /\ \A r \in DateRanges : nonceOf'[r] # currentNonce
  BY <1>1, <1>2 DEF SaveProcessed, SaveState, RangesInv, StoreInv, StoreTypes
<1>5. CallsInv'
  BY <1>1 DEF CallsInv, CallInv, PromptInv, SaveProcessed, callVars
<1>6. RangesInv'
  BY <1>1 DEF RangesInv, StoreInv, SaveProcessed, SaveState, callVars, StoreTypes, CompactionTypeOK
<1>7. StartInv'
  BY <1>1, <1>2 DEF StartInv, SaveProcessed, initVars
<1>8. ProcessInv'
  BY <1>1, <1>2, <1>3, <1>4 DEF ProcessInv, SaveProcessed, callVars
<1>9. QED
  BY <1>5, <1>6, <1>7, <1>8

LEMMA RemoveRequestKeeps ==
  ASSUME RequestInv, Quiet, RemoveRequest, UNCHANGED slowReads
  PROVE  CallsInv' /\ RangesInv' /\ StartInv' /\ ProcessInv'
<1>1. StoreTypes /\ CallTypes /\ JobTypes /\ CallsInv /\ RangesInv /\ StartInv /\ ProcessInv
  BY TypesAre, InvParts
<1>2. CallsInv'
  BY <1>1 DEF CallsInv, CallInv, PromptInv, ProcessInv, RemoveRequest, callVars
<1>3. RangesInv'
  BY <1>1 DEF compactionVars, RangesInv, StoreInv, ProcessInv, RemoveRequest, callVars
<1>4. StartInv'
  BY <1>1 DEF StartInv, RemoveRequest, initVars
<1>5. ProcessInv'
  BY <1>1 DEF ProcessInv, RemoveRequest
<1>6. QED
  BY <1>2, <1>3, <1>4, <1>5

LEMMA GrowHistoryKeeps ==
  ASSUME RequestInv, Quiet, GrowHistory, UNCHANGED slowReads
  PROVE  CallsInv' /\ RangesInv' /\ StartInv' /\ ProcessInv'
<1>1. StoreTypes /\ CallTypes /\ JobTypes /\ CallsInv /\ RangesInv /\ StartInv /\ ProcessInv
  BY TypesAre, InvParts
<1>2. CallsInv'
  BY <1>1 DEF CallsInv, CallInv, PromptInv, GrowHistory, callVars
<1>3. RangesInv'
  BY <1>1 DEF compactionVars, RangesInv, StoreInv, GrowHistory, callVars
<1>4. StartInv'
  BY <1>1 DEF StartInv, GrowHistory, initVars, callVars, processVars
<1>5. ProcessInv'
  BY <1>1 DEF ProcessInv, GrowHistory, callVars, processVars
<1>6. QED
  BY <1>2, <1>3, <1>4, <1>5

LEMMA CrashKeeps ==
  ASSUME RequestInv, Crash, UNCHANGED slowReads
  PROVE  CallsInv' /\ RangesInv' /\ StartInv' /\ ProcessInv'
<1>1. StoreTypes /\ CallTypes /\ JobTypes /\ CallsInv /\ RangesInv /\ StartInv /\ ProcessInv
  BY TypesAre, InvParts
<1>2. CallsInv'
  BY <1>1 DEF CallsInv, CallInv, PromptInv, Crash
<1>3. RangesInv'
  BY <1>1 DEF RangesInv, StoreInv, Crash
<1>4. StartInv'
  BY <1>1 DEF StartInv, Crash
<1>5. ProcessInv'
  BY <1>1 DEF ProcessInv, Crash
<1>6. QED
  BY <1>2, <1>3, <1>4, <1>5

LEMMA FetchAllKeeps ==
  ASSUME RequestInv, Quiet, FetchAllRanges, UNCHANGED slowReads
  PROVE  CallsInv' /\ RangesInv' /\ StartInv' /\ ProcessInv'
<1>1. StoreTypes /\ CallTypes /\ JobTypes /\ CallsInv /\ RangesInv /\ StartInv /\ ProcessInv
  BY TypesAre, InvParts
<1>2. \A n \in Nonce :
        \/ call[n] = "none" /\ call'[n] = "request"
        \/ call'[n] = call[n] /\ range'[n] = range[n]
  BY <1>1 DEF FetchAllRanges, FreshNonces, CallTypes
<1>3. UNCHANGED <<states, nonceOf, status, phase, toInit, complete, response, processing, current,
                  currentNonce>> /\ phase = "up"
  BY DEF compactionVars, FetchAllRanges, initVars, processVars
<1>4. CallsInv'
  BY <1>1, <1>2, <1>3 DEF CallsInv, CallInv, PromptInv
<1>5. RangesInv'
  BY <1>1, <1>2, <1>3 DEF RangesInv, StoreInv
<1>6. StartInv'
  BY <1>1, <1>3 DEF StartInv
<1>7. ProcessInv'
  BY <1>1, <1>2, <1>3 DEF ProcessInv
<1>8. QED
  BY <1>4, <1>5, <1>6, <1>7

(* A merge writes that ranges are processed, or removes them.               *)
LEMMA MergeWrites ==
  ASSUME CompactionTypeOK, NEW m \in Merger, MergeStep(m)
  PROVE  \A r \in DateRanges : states'[r] = states[r] \/ states'[r] \in {"none", "Processed"}
BY DEF CompactionTypeOK, MergeStep, StartMerge, ReadState, SaveMerged, RemoveMerged

LEMMA CompactKeeps ==
  ASSUME RequestInv, Quiet, NEW m \in Merger, Compact(m), UNCHANGED slowReads
  PROVE  CallsInv' /\ RangesInv' /\ StartInv' /\ ProcessInv'
<1>1. StoreTypes /\ CallTypes /\ JobTypes /\ CallsInv /\ RangesInv /\ StartInv /\ ProcessInv
  BY TypesAre, InvParts
<1>2. UNCHANGED <<status, phase, toInit, complete, call, range, response, processing, current,
                  currentNonce>> /\ phase = "up"
  BY DEF Compact, initVars, callVars, processVars
<1>3. \A r \in DateRanges :
        \/ states'[r] = states[r] /\ nonceOf'[r] = nonceOf[r]
        \/ states'[r] \in {"none", "Processed"} /\ nonceOf'[r] = NoNonce
  BY <1>1, MergeWrites DEF Compact, StoreTypes
<1>4. CallsInv'
  BY <1>1, <1>2 DEF CallsInv, CallInv, PromptInv
<1>5. RangesInv'
  BY <1>1, <1>2, <1>3, NoNonceAssumption DEF RangesInv, StoreInv
<1>6. StartInv'
  BY <1>1, <1>2 DEF StartInv
<1>7. ProcessInv'
  BY <1>1, <1>2, <1>3, NoNonceAssumption DEF ProcessInv
<1>8. QED
  BY <1>4, <1>5, <1>6, <1>7

LEMMA RequestInit == Init => RequestInv
<1> SUFFICES ASSUME Init PROVE RequestInv
  OBVIOUS
<1>1. TypeOK /\ OneAvailable
  BY TypeInit
<1>2. CallsInv
  BY DEF Init, CallsInv, CallInv, PromptInv
<1>3. RangesInv
  BY NoNonceAssumption DEF Init, CompactionInit, RangesInv, StoreInv
<1>4. StartInv /\ ProcessInv
  BY DEF Init, StartInv, ProcessInv
<1>5. QED
  BY <1>1, <1>2, <1>3, <1>4, InvParts

LEMMA RequestStep ==
  ASSUME RequestInv, Next, UNCHANGED slowReads
  PROVE  RequestInv'
<1>1. TypeOK' /\ OneAvailable'
  BY TypeStep DEF RequestInv
<1>2. CallsInv' /\ RangesInv' /\ StartInv' /\ ProcessInv'
  <2>1. CASE SaveQueued
    BY <2>1, SavePendingKeeps, SaveReadyKeeps DEF SaveQueued
  <2>2. CASE ~Queued /\ FinishRead
    BY <2>2, CheckCompleteKeeps, AwaitRequestKeeps, SaveResponseKeeps DEF FinishRead
  <2>3. CASE Quiet /\ StartStep
    BY <2>3, StartKeeps, InitPendingKeeps, InitReadyKeeps DEF StartStep
  <2>4. CASE Quiet /\ FetchAllRanges
    BY <2>4, FetchAllKeeps
  <2>5. CASE Quiet /\ \E n \in Nonce : RequestRange(n) \/ RequestFails(n) \/ CompleteRequest(n)
    BY <2>5, RequestRangeKeeps, RequestFailsKeeps, CompleteRequestKeeps
  <2>6. CASE Quiet /\ \E n \in Nonce : ResponseStep(n)
    BY <2>6, EmitResponseKeeps, OnEntityResponseKeeps DEF ResponseStep
  <2>7. CASE Quiet /\ ProcessStep
    BY <2>7, ProcessRangesKeeps, NextReadyKeeps, EndProcessKeeps, HandleRangeKeeps, SaveProcessedKeeps,
       RemoveRequestKeeps DEF ProcessStep
  <2>8. CASE Quiet /\ \E m \in Merger : Compact(m)
    BY <2>8, CompactKeeps
  <2>9. CASE Quiet /\ GrowHistory
    BY <2>9, GrowHistoryKeeps
  <2>10. CASE Crash
    BY <2>10, CrashKeeps
  <2>11. QED
    BY <2>1, <2>2, <2>3, <2>4, <2>5, <2>6, <2>7, <2>8, <2>9, <2>10 DEF Next
<1>3. QED
  BY <1>1, <1>2 DEF RequestInv, CallsInv, RangesInv

(* vars leaves out slowReads, which no step changes.                        *)
LEMMA RequestStutter ==
  ASSUME RequestInv, UNCHANGED <<vars, slowReads>>
  PROVE  RequestInv'
<1> USE DEF vars, initVars, callVars, processVars
<1>1. (TypeOK /\ OneAvailable)'
  BY DEF compactionVars, RequestInv, TypeOK, OneAvailable, CompactionTypeOK
<1>2. \A n \in Nonce : (CallInv(n) /\ PromptInv(n))'
  BY DEF RequestInv, CallInv, PromptInv
<1>3. \A r \in DateRanges : StoreInv(r)'
  BY DEF compactionVars, RequestInv, StoreInv
<1>4. StartInv' /\ ProcessInv'
  BY DEF RequestInv, StartInv, ProcessInv
<1>5. QED
  BY <1>1, <1>2, <1>3, <1>4 DEF RequestInv

(* Stores, saves under way and jobs agree at each step, whatever fails and  *)
(* however late reads are answered: what the other theorems rest on.        *)
THEOREM RequestsAgree == Spec => []RequestInv
<1>1. RequestInv /\ [Next /\ UNCHANGED slowReads]_<<vars, slowReads>> => RequestInv'
  BY RequestStep, RequestStutter
<1>2. QED
  BY <1>1, RequestInit, PTL DEF Spec

(* A range that is ready has its complete request, as long as reads are     *)
(* answered in order: processRanges never stops at it for good.             *)
THEOREM ReadyAlwaysHasRequest == Spec => []ReadyHasRequest
<1>1. RequestInv => ReadyHasRequest
  BY DEF RequestInv, StoreInv, ReadyHasRequest, InState
<1>2. QED
  BY <1>1, RequestsAgree, PTL
-----------------------------------------------------------------------------
NoCallFailed == \A n \in Nonce : call[n] # "failed"

(* Promise.all waits for the call.                                          *)
AwaitedInv ==
  NoCallFailed => \A n \in Nonce : call[n] \notin {"none", "done"} => n \in awaited

(* A range is saved with its request. *)
Saved(n) == nonceOf[range[n]] = n

(* A call is under way, or its range waits to be processed: no two such     *)
(* requests are for the same instant.                                       *)
Active(n) == call[n] \notin {"none", "done"} \/ Saved(n)

ActiveApart ==
  \A n, k \in Nonce :
    n # k /\ Active(n) /\ Active(k) => Instants(range[n]) \cap Instants(range[k]) = {}

(* A range that onEntityResponse has read as pending still is its request's. *)
FoundSaved == \A n \in Nonce : response[n] = "found" => Saved(n)

Fetched == ActiveApart /\ FoundSaved

FetchedInv == ~slowReads /\ NoCallFailed => Fetched

(* The requests whose range the domain was given.                           *)
Given(n) == status[n] = "gone" \/ (processing \in {"save", "remove"} /\ currentNonce = n)

(* Nothing is stored before the first start. *)
StartEmpty == phase # "up" => toInit = {} /\ complete = {} /\ \A r \in DateRanges : states[r] = "none"

CallsApart ==
  \A n, k \in Nonce :
    n # k /\ call[n] # "none" /\ call[k] # "none" => Instants(range[n]) \cap Instants(range[k]) = {}

(* What was asked for stays known, as a range or in the union of a merge.   *)
CallsKnown == \A n \in Nonce : call[n] \notin {"none", "request", "save"} => Instants(range[n]) \subseteq Cover(Known)

HandledGiven ==
  \A i \in 0..LastDate :
    /\ handled[i] < 2
    /\ handled[i] > 0 => \E n \in Nonce : Given(n) /\ i \in Instants(range[n])

Once == StartEmpty /\ CallsApart /\ CallsKnown /\ HandledGiven

OnceInv == faults = 0 /\ NoCallFailed /\ ~nested => Once
-----------------------------------------------------------------------------
LEMMA MergeRangeCovers ==
  ASSUME NEW acc \in MergeAcc, NEW r \in DateRanges
  PROVE  /\ Cover(MergeRange(acc, r).prev) \subseteq Cover(acc.prev) \cup Instants(r)
         /\ Cover(MergeRange(acc, r).old) \subseteq Cover(acc.old) \cup Cover(acc.prev) \cup Instants(r)
         /\ Cover(MergeRange(acc, r).new) \subseteq Cover(acc.prev) \cup Cover(acc.new)
<1>1. ~(r.endDate < r.startDate) /\ Cover({r}) = Instants(r)
  BY RangeType DEF Cover
<1>2. CASE acc.prev = {}
  <2>1. MergeRange(acc, r).prev = {r} /\ MergeRange(acc, r).new = acc.new /\ MergeRange(acc, r).old = acc.old
    BY <1>1, <1>2 DEF MergeRange, MergeAcc
  <2>2. QED
    BY <1>1, <2>1
<1>3. CASE acc.prev # {}
  <2> DEFINE p == CHOOSE p \in acc.prev : TRUE
             u == Union(p, r)
  <2>1. p \in acc.prev /\ p \in DateRanges
    BY <1>3 DEF MergeAcc
  <2>2. MergeRange(acc, r) = IF Touches(p, r) THEN MergeUnion(acc, p, r)
                             ELSE [MergeFlush(acc) EXCEPT !.prevMerged = FALSE, !.prev = {r}]
    BY <1>1, <1>3 DEF MergeRange
  <2>3. CASE Touches(p, r)
    <3>1. /\ MergeRange(acc, r).prev = {u} /\ MergeRange(acc, r).new = acc.new
          /\ MergeRange(acc, r).old \subseteq acc.old \cup {r, p}
      BY <2>2, <2>3 DEF MergeUnion, MergeAcc
    <3>2. Instants(u) \subseteq Instants(p) \cup Instants(r)
      <4>1. /\ p.startDate \in Int /\ p.endDate \in Int
            /\ r.startDate \in Int /\ r.endDate \in Int
        BY <2>1, RangeType
      <4>2. p.endDate >= r.startDate - 1
        BY <2>3 DEF Touches
      <4>3. u.startDate = p.startDate /\ u.endDate = MaxDate(p.endDate, r.endDate)
        BY DEF Union, DateRange
      <4> HIDE DEF p, u
      <4>4. u.endDate \in Int /\ u.endDate \in {p.endDate, r.endDate}
        BY <4>1, <4>3 DEF MaxDate
      <4>5. QED
        BY <4>1, <4>2, <4>3, <4>4 DEF Instants
    <3>3. Cover({u}) = Instants(u) /\ Instants(p) \subseteq Cover(acc.prev)
      BY <2>1 DEF Cover
    <3> HIDE DEF p, u
    <3>4. Cover(MergeRange(acc, r).old) \subseteq Cover(acc.old) \cup Instants(p) \cup Instants(r)
      BY <3>1 DEF Cover
    <3>5. QED
      BY <3>1, <3>2, <3>3, <3>4
  <2>4. CASE ~Touches(p, r)
    <3>1. /\ MergeRange(acc, r).prev = {r} /\ MergeRange(acc, r).old = acc.old
          /\ MergeRange(acc, r).new \subseteq acc.new \cup acc.prev
      BY <2>2, <2>4 DEF MergeFlush, MergeAcc
    <3>2. QED
      BY <1>1, <3>1 DEF Cover
  <2>5. QED
    BY <2>3, <2>4
<1>4. QED
  BY <1>2, <1>3

LEMMA NoMergeWithin ==
  ASSUME NEW S
  PROVE  MergeWithin(NoMerge, S)
BY DEF MergeWithin, NoMerge, MergeStart, Cover

LEMMA WithinGrows ==
  ASSUME NEW merge, NEW S, NEW U, MergeWithin(merge, S), S \subseteq U
  PROVE  MergeWithin(merge, U)
BY DEF MergeWithin

(* A merge makes nothing up: all it writes covers what it read.             *)
LEMMA MergeStaysWithin ==
  ASSUME CompactionTypeOK, NEW S, NEW m \in Merger, MergeStep(m),
         Cover(InState("Processed")) \subseteq S,
         \A k \in Merger : MergeWithin(merging[k], S)
  PROVE  /\ Cover(InState("Processed")') \subseteq S
         /\ \A k \in Merger : MergeWithin(merging'[k], S)
<1> DEFINE acc == merging[m].acc
<1>1. /\ merging[m] \in MergeState /\ merging \in [Merger -> MergeState]
      /\ acc \in MergeAcc /\ merging[m].toRead \in SUBSET DateRanges
  BY DEF CompactionTypeOK, MergeState
<1>2. \A k \in Merger \ {m} : merging'[k] = merging[k]
  BY <1>1 DEF MergeStep, StartMerge, ReadState, SaveMerged, RemoveMerged
<1>3. /\ Cover(merging[m].toRead) \subseteq S /\ Cover(acc.prev) \subseteq S
      /\ Cover(acc.old) \subseteq S /\ Cover(acc.new) \subseteq S
  BY DEF MergeWithin
<1>4. MergeWithin(merging'[m], S) /\ Cover(InState("Processed")') \subseteq S
  <2>1. CASE StartMerge(m)
    <3>1. merging'[m].toRead = InState("Processed") /\ merging'[m].acc = NoMerge.acc
      BY <1>1, <2>1 DEF StartMerge, NoMerge
    <3>2. InState("Processed")' = InState("Processed")
      BY <2>1 DEF StartMerge, InState
    <3>3. QED
      BY <3>1, <3>2, NoMergeWithin DEF MergeWithin
  <2>2. CASE ReadState(m)
    <3>1. PICK r \in merging[m].toRead :
            merging' = [merging EXCEPT
              ![m].toRead = @ \ {r},
              ![m].acc = IF states[r] = "none" THEN @ ELSE MergeRange(@, r)]
      BY <2>2 DEF ReadState
    <3>2. /\ merging'[m].toRead \subseteq merging[m].toRead
          /\ merging'[m].acc = acc \/ merging'[m].acc = MergeRange(acc, r)
      BY <1>1, <3>1 DEF MergeState
    <3>3. r \in DateRanges /\ Instants(r) \subseteq S
      BY <1>1, <1>3 DEF Cover
    <3>4. /\ Cover(MergeRange(acc, r).prev) \subseteq S
          /\ Cover(MergeRange(acc, r).old) \subseteq S
          /\ Cover(MergeRange(acc, r).new) \subseteq S
      BY <1>1, <1>3, <3>3, MergeRangeCovers
    <3>5. InState("Processed")' = InState("Processed")
      BY <2>2 DEF ReadState, InState
    <3>6. Cover(merging'[m].toRead) \subseteq S
      BY <1>3, <3>2, CoverGrows
    <3>7. QED
      BY <1>3, <3>2, <3>4, <3>5, <3>6 DEF MergeWithin
  <2>3. CASE SaveMerged(m)
    <3>1. /\ MergeFlush(acc).new \subseteq acc.new \cup acc.prev
          /\ MergeFlush(acc).prev = acc.prev /\ MergeFlush(acc).old = acc.old
      BY <1>1 DEF MergeFlush, MergeAcc
    <3>2. Cover(MergeFlush(acc).new) \subseteq S
      BY <1>3, <3>1 DEF Cover
    <3>3. InState("Processed")' \subseteq InState("Processed") \cup MergeFlush(acc).new
      BY <2>3 DEF SaveMerged, InState
    <3>4. \/ merging'[m] = NoMerge
          \/ merging'[m].toRead = merging[m].toRead /\ merging'[m].acc = MergeFlush(acc)
      BY <1>1, <2>3 DEF SaveMerged, MergeState
    <3>5. MergeWithin(merging'[m], S)
      BY <1>3, <3>1, <3>2, <3>4, NoMergeWithin DEF MergeWithin
    <3>6. Cover(InState("Processed")') \subseteq S
      BY <3>2, <3>3 DEF Cover
    <3>7. QED
      BY <3>5, <3>6
  <2>4. CASE RemoveMerged(m)
    <3>1. merging'[m] = NoMerge
      BY <1>1, <2>4 DEF RemoveMerged
    <3>2. InState("Processed")' \subseteq InState("Processed")
      BY <2>4 DEF RemoveMerged, InState
    <3>3. QED
      BY <3>1, <3>2, NoMergeWithin, CoverGrows
  <2>5. QED
    BY <2>1, <2>2, <2>3, <2>4 DEF MergeStep
<1>5. QED
  BY <1>2, <1>4

(* Most steps leave the merges and what is handled alone, and add no        *)
(* processed range.                                                         *)
LEMMA HandledKept ==
  ASSUME HandledInv, merging' = merging, handled' = handled,
         InState("Processed")' \subseteq InState("Processed"),
         processing' \in {"save", "remove"} => processing \in {"save", "remove"} /\ current' = current
  PROVE  HandledInv'
<1>1. Done' = Done
  BY DEF Done
<1>2. Cover(InState("Processed")') \subseteq Cover(InState("Processed"))
  BY CoverGrows
<1>3. QED
  BY <1>1, <1>2 DEF HandledInv

LEMMA MergeStepHandled ==
  ASSUME CompactionTypeOK, HandledInv, NEW m \in Merger, MergeStep(m),
         UNCHANGED <<handled, processing, current>>
  PROVE  HandledInv'
<1>1. Done' = Done
  BY DEF Done
<1>2. Cover(InState("Processed")) \subseteq Done /\ \A k \in Merger : MergeWithin(merging[k], Done)
  BY DEF HandledInv
<1>3. Cover(InState("Processed")') \subseteq Done /\ \A k \in Merger : MergeWithin(merging'[k], Done)
  BY <1>2, MergeStaysWithin
<1>4. QED
  BY <1>1, <1>3 DEF HandledInv

LEMMA HandledStep ==
  ASSUME RequestInv, HandledInv, Next, UNCHANGED slowReads
  PROVE  HandledInv'
<1>1. StoreTypes /\ CallTypes /\ JobTypes
  BY TypesAre DEF RequestInv
<1> USE DEF initVars, callVars, processVars
<1>2. ASSUME NEW n \in Nonce, SavePending(n) \/ SaveReady(n) \/ SaveResponseReady(n) PROVE HandledInv'
  BY <1>1, <1>2, HandledKept DEF SavePending, SaveReady, SaveResponseReady, SaveState, InState,
     StoreTypes, CompactionTypeOK
<1>3. ASSUME NEW n \in Nonce,
             \/ CheckComplete(n) \/ AwaitRequestComplete(n) \/ RequestRange(n) \/ RequestFails(n)
             \/ CompleteRequest(n) \/ ResponseStep(n)
      PROVE  HandledInv'
  BY <1>3, HandledKept DEF compactionVars, CheckComplete, AwaitRequestComplete, RequestRange, RequestFails,
     CompleteRequest, ResponseStep, EmitResponse, OnEntityResponse, InState
<1>4. ASSUME StartStep PROVE HandledInv'
  BY <1>1, <1>4, HandledKept DEF compactionVars, StartStep, Start, InitPendingRange, InitReadyRanges, InState
<1>5. ASSUME FetchAllRanges \/ GrowHistory PROVE HandledInv'
  BY <1>5, HandledKept DEF compactionVars, FetchAllRanges, GrowHistory, InState
<1>6. ASSUME ProcessStep PROVE HandledInv'
  <2>1. CASE ProcessRanges \/ NextReadyRange \/ EndProcessRanges \/ RemoveRequest
    BY <2>1, HandledKept DEF compactionVars, ProcessRanges, NextReadyRange, EndProcessRanges, RemoveRequest, InState
  <2>2. CASE HandleRange
    <3>1. UNCHANGED <<merging, states, current>>
      BY <2>2 DEF compactionVars, HandleRange
    <3>2. CASE processing' = "idle" /\ handled' = handled
      BY <3>1, <3>2, HandledKept DEF InState
    <3>3. CASE handled' = [i \in 0..LastDate |->
                            IF i \in Instants(current) /\ handled[i] < 2
                              THEN handled[i] + 1 ELSE handled[i]]
      <4>1. Done \subseteq Done' /\ Instants(current) \subseteq Done'
        BY <1>1, <3>3, RangesAreRanges DEF Done, JobTypes
      <4>2. \A m \in Merger : MergeWithin(merging[m], Done')
        BY <4>1, WithinGrows DEF HandledInv
      <4>3. InState("Processed")' = InState("Processed")
        BY <3>1 DEF InState
      <4>4. QED
        BY <3>1, <4>1, <4>2, <4>3 DEF HandledInv
    <3>4. QED
      BY <2>2, <3>2, <3>3 DEF HandleRange
  <2>3. CASE SaveProcessed
    <3>1. UNCHANGED <<merging, handled, current>> /\ processing = "save"
      BY <2>3 DEF SaveProcessed
    <3>2. InState("Processed")' \subseteq InState("Processed") \cup {current}
      BY <1>1, <2>3 DEF SaveProcessed, SaveState, InState, StoreTypes, CompactionTypeOK
    <3>3. Done' = Done
      BY <3>1 DEF Done
    <3>4. Cover(InState("Processed")') \subseteq Done
      BY <3>1, <3>2 DEF HandledInv, Cover
    <3>5. QED
      BY <3>1, <3>3, <3>4 DEF HandledInv
  <2>4. QED
    BY <1>6, <2>1, <2>2, <2>3 DEF ProcessStep
<1>7. ASSUME NEW m \in Merger, Compact(m) PROVE HandledInv'
  BY <1>1, <1>7, MergeStepHandled DEF Compact, StoreTypes
<1>8. ASSUME Crash PROVE HandledInv'
  <2>1. /\ UNCHANGED <<states, handled>> /\ processing' = "idle"
        /\ merging' = [m \in Merger |-> NoMerge]
    BY <1>8 DEF Crash
  <2>2. Done' = Done /\ InState("Processed")' = InState("Processed")
    BY <2>1 DEF Done, InState
  <2>3. QED
    BY <2>1, <2>2, NoMergeWithin DEF HandledInv
<1>9. QED
  BY <1>2, <1>3, <1>4, <1>5, <1>6, <1>7, <1>8 DEF Next, SaveQueued, FinishRead

(* Whatever fails, whatever merges overlap and in whatever order reads are  *)
(* answered, no range counts as processed that the domain was not given.    *)
THEOREM ProcessedWasAlwaysHandled == Spec => []ProcessedWasHandled
<1>1. Init => HandledInv
  <2> SUFFICES ASSUME Init PROVE HandledInv
    OBVIOUS
  <2>1. InState("Processed") = {} /\ Cover({}) = {}
    BY DEF Init, CompactionInit, InState, Cover
  <2>2. \A m \in Merger : MergeWithin(merging[m], Done)
    BY NoMergeWithin DEF Init, CompactionInit
  <2>3. processing = "idle"
    BY DEF Init
  <2>4. QED
    BY <2>1, <2>2, <2>3 DEF HandledInv
<1>2. HandledInv /\ UNCHANGED <<vars, slowReads>> => HandledInv'
  BY HandledKept DEF compactionVars, vars, processVars, InState
<1>3. RequestInv /\ HandledInv /\ [Next /\ UNCHANGED slowReads]_<<vars, slowReads>> => HandledInv'
  BY <1>2, HandledStep
<1>4. HandledInv => ProcessedWasHandled
  BY DEF HandledInv, Done, ProcessedWasHandled
<1>5. QED
  BY <1>1, <1>3, <1>4, RequestsAgree, PTL DEF Spec
-----------------------------------------------------------------------------
LEMMA FailuresStay ==
  ASSUME RequestInv, Next, NoCallFailed'
  PROVE  NoCallFailed
<1>1. CallTypes
  BY TypesAre DEF RequestInv
<1> USE DEF callVars, CallTypes, CallState, NoCallFailed
<1>2. CASE SaveQueued
  BY <1>1, <1>2 DEF SaveQueued, SavePending, SaveReady
<1>3. CASE FinishRead
  BY <1>1, <1>3 DEF FinishRead, CheckComplete, CallFails, AwaitRequestComplete, SaveResponseReady
<1>4. CASE StartStep \/ ProcessStep \/ GrowHistory \/ \E m \in Merger : Compact(m)
  BY <1>4 DEF StartStep, Start, InitPendingRange, InitReadyRanges, ProcessStep, ProcessRanges,
     NextReadyRange, EndProcessRanges, HandleRange, SaveProcessed, RemoveRequest, GrowHistory, Compact
<1>5. CASE FetchAllRanges
  BY <1>5 DEF FetchAllRanges, FreshNonces
<1>6. ASSUME NEW n \in Nonce,
             RequestRange(n) \/ RequestFails(n) \/ CompleteRequest(n) \/ ResponseStep(n)
      PROVE  NoCallFailed
  BY <1>1, <1>6 DEF RequestRange, RequestFails, CallFails, CompleteRequest, ResponseStep,
     EmitResponse, OnEntityResponse
<1>7. CASE Crash
  BY <1>7 DEF Crash
<1>8. QED
  BY <1>2, <1>3, <1>4, <1>5, <1>6, <1>7 DEF Next

LEMMA AwaitedStep ==
  ASSUME RequestInv, AwaitedInv, Next
  PROVE  AwaitedInv'
<1> SUFFICES ASSUME NoCallFailed'
             PROVE  \A n \in Nonce : call'[n] \notin {"none", "done"} => n \in awaited'
  BY DEF AwaitedInv, NoCallFailed
<1>1. CallTypes
  BY TypesAre DEF RequestInv
<1>2. \A n \in Nonce : call[n] \notin {"none", "done"} => n \in awaited
  BY FailuresStay DEF AwaitedInv
<1>3. \A n \in Nonce : call'[n] # "failed"
  BY DEF NoCallFailed
<1> USE DEF callVars, CallTypes, CallState
<1>4. CASE SaveQueued
  BY <1>1, <1>2, <1>4 DEF SaveQueued, SavePending, SaveReady
<1>5. CASE FinishRead
  BY <1>1, <1>2, <1>3, <1>5 DEF FinishRead, CheckComplete, CallFails, AwaitRequestComplete, SaveResponseReady
<1>6. CASE StartStep \/ ProcessStep \/ GrowHistory \/ \E m \in Merger : Compact(m)
  BY <1>2, <1>6 DEF StartStep, Start, InitPendingRange, InitReadyRanges, ProcessStep, ProcessRanges,
     NextReadyRange, EndProcessRanges, HandleRange, SaveProcessed, RemoveRequest, GrowHistory, Compact
<1>7. CASE FetchAllRanges
  BY <1>2, <1>7 DEF FetchAllRanges
<1>8. ASSUME NEW n \in Nonce,
             RequestRange(n) \/ RequestFails(n) \/ CompleteRequest(n) \/ ResponseStep(n)
      PROVE  \A k \in Nonce : call'[k] \notin {"none", "done"} => k \in awaited'
  BY <1>1, <1>2, <1>3, <1>8 DEF RequestRange, RequestFails, CallFails, CompleteRequest, ResponseStep,
     EmitResponse, OnEntityResponse
<1>9. CASE Crash
  BY <1>1, <1>3, <1>9 DEF Crash
<1>10. QED
  BY <1>4, <1>5, <1>6, <1>7, <1>8, <1>9 DEF Next
-----------------------------------------------------------------------------
(* A range that was saved with its request waits, or was processed since.   *)
LEMMA SavedWaits ==
  ASSUME RequestInv, NEW n \in Nonce, Saved(n)
  PROVE  /\ range[n] \in DateRanges /\ Instants(range[n]) # {}
         /\ states[range[n]] \in {"Pending", "Ready"}
         /\ call[n] \notin {"none", "request", "save"}
<1>1. range[n] \in DateRanges
  BY TypesAre DEF RequestInv, CallTypes
<1>2. QED
  BY <1>1, RangesAreRanges DEF RequestInv, StoreInv, Saved

(* Steps that make no request active.                                       *)
LEMMA FetchedKept ==
  ASSUME Fetched, range' = range,
         \A n \in Nonce : call'[n] \notin {"none", "done"} => Active(n),
         \A n \in Nonce : Saved(n)' => Active(n),
         \A n \in Nonce : response'[n] = "found" => Saved(n)'
  PROVE  Fetched'
<1>1. \A n \in Nonce : Active(n)' => Active(n)
  BY DEF Active
<1>2. ActiveApart'
  BY <1>1 DEF Fetched, ActiveApart
<1>3. QED
  BY <1>2 DEF Fetched, FoundSaved

(* A range is saved while its request is active: it has no other request.   *)
LEMMA SavesFetched ==
  ASSUME RequestInv, Fetched, NEW n \in Nonce,
         SavePending(n) \/ SaveReady(n) \/ SaveResponseReady(n)
  PROVE  Fetched'
<1>1. StoreTypes /\ CallTypes
  BY TypesAre DEF RequestInv
<1>2. /\ \E code \in StateCode : SaveState(range[n], code, n)
      /\ range' = range
      /\ \A k \in Nonce : /\ call'[k] \notin {"none", "done"} => call[k] \notin {"none", "done"}
                          /\ response'[k] = "found" => response[k] = "found"
  BY <1>1 DEF SavePending, SaveReady, SaveResponseReady, CallTypes, callVars, StateCode
<1>3. Active(n)
  BY DEF SavePending, SaveReady, SaveResponseReady, Active, Fetched, FoundSaved
<1>4. /\ nonceOf'[range[n]] = n /\ range[n] \in DateRanges
      /\ \A r \in DateRanges \ {range[n]} : nonceOf'[r] = nonceOf[r]
  BY <1>1, <1>2 DEF SaveState, StoreTypes, CallTypes
<1>5. \A k \in Nonce : Saved(k)' => Active(k)
  BY <1>1, <1>2, <1>3, <1>4 DEF Saved, Active, CallTypes
<1>6. ASSUME NEW k \in Nonce, response'[k] = "found" PROVE Saved(k)'
  <2>1. Saved(k) /\ Active(k)
    BY <1>2, <1>6 DEF Fetched, FoundSaved, Active
  <2>2. CASE k = n
    BY <1>2, <1>4, <2>2 DEF Saved
  <2>3. CASE k # n
    <3>1. Instants(range[k]) \cap Instants(range[n]) = {}
      BY <1>3, <2>1, <2>3 DEF Fetched, ActiveApart
    <3>2. range[k] \in DateRanges /\ range[k] # range[n]
      BY <2>1, <3>1, SavedWaits
    <3>3. QED
      BY <1>2, <1>4, <2>1, <3>2 DEF Saved
  <2>4. QED
    BY <2>2, <2>3
<1>7. \A k \in Nonce : call'[k] \notin {"none", "done"} => Active(k)
  BY <1>2 DEF Active
<1>8. QED
  BY <1>2, <1>5, <1>6, <1>7, FetchedKept

LEMMA CallsFetched ==
  ASSUME RequestInv, Fetched, NoCallFailed', NEW n \in Nonce,
         \/ CheckComplete(n) \/ AwaitRequestComplete(n)
         \/ RequestRange(n) \/ RequestFails(n) \/ CompleteRequest(n) \/ ResponseStep(n)
  PROVE  Fetched'
<1>1. CallTypes /\ \A k \in Nonce : call'[k] # "failed"
  BY TypesAre DEF RequestInv, NoCallFailed
<1>2. UNCHANGED <<nonceOf, range>>
  BY DEF CheckComplete, AwaitRequestComplete, RequestRange, RequestFails, CompleteRequest, ResponseStep,
     EmitResponse, OnEntityResponse, callVars
<1>3. \A k \in Nonce : call'[k] \notin {"none", "done"} => call[k] \notin {"none", "done"}
  BY <1>1 DEF CheckComplete, AwaitRequestComplete, RequestRange, RequestFails, CallFails, CompleteRequest,
     ResponseStep, EmitResponse, OnEntityResponse, CallTypes, callVars
<1>4. \A k \in Nonce : response'[k] = "found" => response[k] = "found" \/ Saved(k)
  BY <1>1 DEF CheckComplete, AwaitRequestComplete, RequestRange, RequestFails, CompleteRequest,
     ResponseStep, EmitResponse, OnEntityResponse, CallTypes, Saved
<1>5. \A k \in Nonce : Saved(k)' = Saved(k)
  BY <1>2 DEF Saved
<1>6. QED
  BY <1>2, <1>3, <1>4, <1>5, FetchedKept DEF Fetched, FoundSaved, Active

(* The calls of fetchAllRanges are about ranges that nothing has.           *)
LEMMA FetchAllMakes ==
  ASSUME RequestInv, AwaitedInv, NoCallFailed, FetchAllRanges
  PROVE  \E N \in SUBSET Nonce :
           /\ \A n \in N :
                /\ call[n] = "none" /\ call'[n] = "request" /\ range'[n] \in DateRanges
                /\ Instants(range'[n]) \cap Cover(Known) = {}
           /\ \A n \in Nonce \ N :
                call[n] \in {"none", "done"} /\ call'[n] = call[n] /\ range'[n] = range[n]
           /\ \A n, k \in N : n # k => Instants(range'[n]) \cap Instants(range'[k]) = {}
<1>1. \A n \in Nonce : call[n] \in {"none", "done"}
  BY DEF FetchAllRanges, AwaitedInv
<1>2. /\ RangesToFetch \subseteq DateRanges
      /\ Disjoint(RangesToFetch)
      /\ Cover(RangesToFetch) \cap Cover(Known) = {}
  BY TypesAre, RangesToFetchAre DEF RequestInv, JobTypes
<1>3. PICK N \in SUBSET FreshNonces : \E f \in [N -> RangesToFetch] :
        /\ \A n, m \in N : n < m => Before(f[m], f[n])
        /\ range' = [n \in Nonce |-> IF n \in N THEN f[n] ELSE range[n]]
        /\ call' = [n \in Nonce |-> IF n \in N THEN "request" ELSE call[n]]
  BY DEF FetchAllRanges
<1>4. PICK f \in [N -> RangesToFetch] :
        /\ \A n, m \in N : n < m => Before(f[m], f[n])
        /\ range' = [n \in Nonce |-> IF n \in N THEN f[n] ELSE range[n]]
  BY <1>3
<1>5. N \in SUBSET Nonce /\ \A n \in N : call[n] = "none"
  BY DEF FreshNonces
<1>6. \A n \in N : f[n] \in RangesToFetch /\ range'[n] = f[n]
  BY <1>4, <1>5
<1>7. \A n \in N : Instants(range'[n]) \cap Cover(Known) = {}
  BY <1>2, <1>6 DEF Cover
<1>8. ASSUME NEW n \in N, NEW k \in N, n < k PROVE range'[n] # range'[k]
  <2>1. Before(range'[k], range'[n])
    BY <1>4, <1>6, <1>8
  <2>2. range'[n] \in DateRanges
    BY <1>2, <1>6
  <2>3. ~Before(range'[n], range'[n])
    BY <2>2, RangeType DEF Before
  <2>4. QED
    BY <2>1, <2>3
<1>9. ASSUME NEW n \in N, NEW k \in N, n # k
      PROVE  Instants(range'[n]) \cap Instants(range'[k]) = {}
  <2>1. n \in Int /\ k \in Int
    BY <1>5, MaxNonceAssumption DEF Nonce
  <2>2. n < k \/ k < n
    BY <2>1, <1>9
  <2>3. range'[n] # range'[k]
    BY <1>8, <2>2
  <2>4. QED
    BY <1>2, <1>6, <2>3 DEF Disjoint
<1>10. call' = [n \in Nonce |-> IF n \in N THEN "request" ELSE call[n]]
  BY <1>3
<1>11. /\ \A n \in N : /\ call[n] = "none" /\ call'[n] = "request"
                       /\ range'[n] \in DateRanges
                       /\ Instants(range'[n]) \cap Cover(Known) = {}
       /\ \A n \in Nonce \ N : call'[n] = call[n] /\ range'[n] = range[n]
  BY <1>2, <1>4, <1>5, <1>6, <1>7, <1>10
<1>12. QED
  BY <1>1, <1>5, <1>9, <1>11

LEMMA FetchAllFetched ==
  ASSUME RequestInv, AwaitedInv, NoCallFailed, Fetched, FetchAllRanges
  PROVE  Fetched'
<1>1. PICK N \in SUBSET Nonce :
        /\ \A n \in N :
             /\ call[n] = "none" /\ call'[n] = "request" /\ range'[n] \in DateRanges
             /\ Instants(range'[n]) \cap Cover(Known) = {}
        /\ \A n \in Nonce \ N :
             call[n] \in {"none", "done"} /\ call'[n] = call[n] /\ range'[n] = range[n]
        /\ \A n, k \in N : n # k => Instants(range'[n]) \cap Instants(range'[k]) = {}
  BY FetchAllMakes
<1>2. UNCHANGED <<nonceOf, response>>
  BY DEF FetchAllRanges
<1>3. \A n \in Nonce \ N : /\ Saved(n)' = Saved(n)
                           /\ Active(n)' => Active(n) /\ Saved(n)
  BY <1>1, <1>2 DEF Saved, Active
<1>4. \A n \in Nonce \ N : Active(n)' => Instants(range'[n]) \subseteq Cover(Known)
  BY <1>1, <1>3, SavedWaits DEF Cover, Known
<1>5. \A n \in N : response[n] = "none"
  BY <1>1 DEF RequestInv, CallInv
<1>6. FoundSaved'
  BY <1>2, <1>3, <1>5 DEF Fetched, FoundSaved
<1>7. ActiveApart'
  <2> SUFFICES ASSUME NEW n \in Nonce, NEW k \in Nonce, n # k, Active(n)', Active(k)'
               PROVE  Instants(range'[n]) \cap Instants(range'[k]) = {}
    BY DEF ActiveApart
  <2>1. CASE n \in N /\ k \in N
    BY <1>1, <2>1
  <2>2. CASE n \in N /\ k \notin N
    BY <1>1, <1>4, <2>2
  <2>3. CASE n \notin N /\ k \in N
    BY <1>1, <1>4, <2>3
  <2>4. CASE n \notin N /\ k \notin N
    BY <1>1, <1>3, <2>4 DEF Fetched, ActiveApart
  <2>5. QED
    BY <2>1, <2>2, <2>3, <2>4
<1>8. QED
  BY <1>6, <1>7 DEF Fetched

(* The steps of the jobs, of however many merges: no request gets a range.  *)
LEMMA JobsFetched ==
  ASSUME RequestInv, Fetched, ~slowReads, Quiet,
         StartStep \/ ProcessStep \/ GrowHistory \/ \E m \in Merger : Compact(m)
  PROVE  Fetched'
<1>1. StoreTypes /\ CallTypes /\ JobTypes
  BY TypesAre DEF RequestInv
<1>2. UNCHANGED <<call, range, response>>
  BY DEF StartStep, Start, InitPendingRange, InitReadyRanges, ProcessStep, ProcessRanges, NextReadyRange,
     EndProcessRanges, HandleRange, SaveProcessed, RemoveRequest, GrowHistory, Compact, callVars
<1>3. \A n \in Nonce : response[n] # "found"
  BY QuietIs
<1>4. \A r \in DateRanges : nonceOf'[r] = nonceOf[r] \/ nonceOf'[r] = NoNonce
  BY <1>1 DEF StartStep, Start, InitPendingRange, InitReadyRanges, ProcessStep, ProcessRanges, NextReadyRange,
     EndProcessRanges, HandleRange, SaveProcessed, SaveState, RemoveRequest, GrowHistory, Compact, StoreTypes
<1>5. \A n \in Nonce : Saved(n)' => Saved(n)
  BY <1>1, <1>2, <1>4, NoNonceAssumption DEF Saved, CallTypes
<1>6. QED
  BY <1>2, <1>3, <1>5, FetchedKept DEF Active

LEMMA CrashFetched ==
  ASSUME Fetched, NoCallFailed', Crash
  PROVE  Fetched'
<1>1. /\ UNCHANGED <<nonceOf, range>>
      /\ \A n \in Nonce : call'[n] \in {"none", "done"} /\ response'[n] # "found"
  BY DEF Crash, NoCallFailed
<1>2. \A n \in Nonce : Saved(n)' => Active(n)
  BY <1>1 DEF Saved, Active
<1>3. QED
  BY <1>1, <1>2, FetchedKept

LEMMA FetchedStep ==
  ASSUME RequestInv, AwaitedInv, FetchedInv, Next, UNCHANGED slowReads
  PROVE  FetchedInv'
<1> SUFFICES ASSUME ~slowReads, NoCallFailed' PROVE Fetched'
  BY DEF FetchedInv, NoCallFailed
<1>1. NoCallFailed /\ Fetched
  BY FailuresStay DEF FetchedInv
<1>2. CASE SaveQueued
  BY <1>1, <1>2, SavesFetched DEF SaveQueued
<1>3. CASE FinishRead
  BY <1>1, <1>3, SavesFetched, CallsFetched DEF FinishRead
<1>4. CASE FetchAllRanges
  BY <1>1, <1>4, FetchAllFetched
<1>5. CASE \E n \in Nonce :
             RequestRange(n) \/ RequestFails(n) \/ CompleteRequest(n) \/ ResponseStep(n)
  BY <1>1, <1>5, CallsFetched
<1>6. CASE Quiet /\ (StartStep \/ ProcessStep \/ GrowHistory \/ \E m \in Merger : Compact(m))
  BY <1>1, <1>6, JobsFetched
<1>7. CASE Crash
  BY <1>1, <1>7, CrashFetched
<1>8. QED
  BY <1>2, <1>3, <1>4, <1>5, <1>6, <1>7 DEF Next

LEMMA FetchedStutter ==
  ASSUME AwaitedInv, FetchedInv, UNCHANGED <<vars, slowReads>>
  PROVE  AwaitedInv' /\ FetchedInv'
<1>1. UNCHANGED <<nonceOf, awaited, call, range, response, slowReads>>
  BY DEF vars, callVars
<1>2. NoCallFailed' = NoCallFailed /\ Fetched' = Fetched
  BY <1>1 DEF NoCallFailed, Fetched, ActiveApart, FoundSaved, Active, Saved
<1>3. QED
  BY <1>1, <1>2 DEF AwaitedInv, FetchedInv

LEMMA FetchedInit == Init => AwaitedInv /\ FetchedInv
<1> SUFFICES ASSUME Init PROVE AwaitedInv /\ Fetched
  BY DEF FetchedInv
<1>1. AwaitedInv
  BY DEF Init, AwaitedInv
<1>2. \A n \in Nonce : ~Saved(n) /\ ~Active(n)
  BY TypeInit, NoNonceAssumption DEF Init, TypeOK, Saved, Active
<1>3. QED
  BY <1>1, <1>2 DEF Init, Fetched, ActiveApart, FoundSaved

(* As long as no call failed and reads are answered in order, no instant is *)
(* asked for by two requests at once: with any number of merges under way,  *)
(* whether or not they lose a range, and whatever crashed before.           *)
THEOREM NothingIsFetchedTwice == Spec => []NothingFetchedTwice
<1>1. RequestInv /\ AwaitedInv /\ FetchedInv /\ [Next /\ UNCHANGED slowReads]_<<vars, slowReads>>
        => AwaitedInv' /\ FetchedInv'
  BY AwaitedStep, FetchedStep, FetchedStutter
<1>2. RequestInv /\ FetchedInv => NothingFetchedTwice
  <2> SUFFICES ASSUME RequestInv, FetchedInv, ~slowReads, NoCallFailed,
                      NEW r \in Known \ InState("Processed"), NEW q \in Known \ InState("Processed"), r # q
               PROVE  Instants(r) \cap Instants(q) = {}
    BY DEF NothingFetchedTwice, NoCallFailed
  <2>1. r \in DateRanges /\ q \in DateRanges /\ {states[r], states[q]} \subseteq {"Pending", "Ready"}
    BY TypesAre DEF RequestInv, StoreTypes, CompactionTypeOK, StateCode, Known, InState
  <2> DEFINE n == nonceOf[r]
             k == nonceOf[q]
  <2>2. n \in Nonce /\ k \in Nonce /\ range[n] = r /\ range[k] = q
    BY <2>1 DEF RequestInv, StoreInv
  <2>3. Active(n) /\ Active(k) /\ n # k
    BY <2>2 DEF Active, Saved
  <2>4. QED
    BY <2>2, <2>3 DEF FetchedInv, Fetched, ActiveApart
<1>3. QED
  BY <1>1, <1>2, FetchedInit, RequestsAgree, PTL DEF Spec
-----------------------------------------------------------------------------
(* What else an account does beside a merge keeps it sound: no range goes.  *)
LEMMA SpecSound ==
  ASSUME RequestInv, SoundInv, Next
  PROVE  SoundInv' /\ (~nested' => ~nested /\ Cover(Known) \subseteq Cover(Known'))
<1>1. StoreTypes /\ CallTypes /\ JobTypes /\ CompactionTypeOK
  BY TypesAre DEF RequestInv, StoreTypes
<1>2. ASSUME UNCHANGED nested, Known \subseteq Known', \A m \in Merger : merging'[m] \in {merging[m], NoMerge}
      PROVE  SoundInv' /\ (~nested' => ~nested /\ Cover(Known) \subseteq Cover(Known'))
  BY <1>2, SoundKept, CoverGrows DEF SoundInv
<1>3. CASE \E m \in Merger : Compact(m)
  <2>1. PICK m \in Merger : MergeStep(m)
    BY <1>3 DEF Compact
  <2>2. ASSUME ~nested'
        PROVE  MergesSound' /\ ~nested /\ Cover(Known) \subseteq Cover(Known')
    <3>1. ~nested /\ MergesSound
      BY <2>1, <2>2, NestedStays DEF SoundInv
    <3>2. MergesSound' /\ \A r \in Known : \E k \in Known' : LiesIn(r, k)
      BY <1>1, <2>1, <2>2, <3>1, SoundStep
    <3>3. Known \in SUBSET DateRanges /\ Known' \in SUBSET DateRanges
      BY DEF Known
    <3>4. QED
      BY <3>1, <3>2, <3>3, CoverWithin
  <2>3. QED
    BY <2>2 DEF SoundInv
<1>4. CASE SaveQueued \/ FinishRead
  <2>1. UNCHANGED <<merging, nested>>
    BY <1>4 DEF SaveQueued, SavePending, SaveReady, FinishRead, CheckComplete, AwaitRequestComplete,
       SaveResponseReady, compactionVars
  <2>2. Known \subseteq Known'
    BY <1>1, <1>4 DEF SaveQueued, SavePending, SaveReady, FinishRead, CheckComplete, AwaitRequestComplete,
       SaveResponseReady, SaveState, compactionVars, Known, StoreTypes, CompactionTypeOK
  <2>3. QED
    BY <1>2, <2>1, <2>2
<1>5. CASE StartStep \/ ProcessStep
  <2>1. UNCHANGED <<merging, nested>>
    BY <1>5 DEF StartStep, Start, InitPendingRange, InitReadyRanges, ProcessStep, ProcessRanges,
       NextReadyRange, EndProcessRanges, HandleRange, SaveProcessed, RemoveRequest, compactionVars
  <2>2. Known \subseteq Known'
    BY <1>1, <1>5 DEF StartStep, Start, InitPendingRange, InitReadyRanges, ProcessStep, ProcessRanges,
       NextReadyRange, EndProcessRanges, HandleRange, SaveProcessed, SaveState, RemoveRequest, compactionVars,
       Known, StoreTypes, CompactionTypeOK
  <2>3. QED
    BY <1>2, <2>1, <2>2
<1>6. CASE \/ FetchAllRanges \/ GrowHistory \/ Crash
           \/ \E n \in Nonce : RequestRange(n) \/ RequestFails(n) \/ CompleteRequest(n) \/ ResponseStep(n)
  <2>1. UNCHANGED <<states, nested>> /\ \A m \in Merger : merging'[m] \in {merging[m], NoMerge}
    BY <1>6 DEF FetchAllRanges, GrowHistory, Crash, RequestRange, RequestFails, CompleteRequest, ResponseStep,
       EmitResponse, OnEntityResponse, compactionVars
  <2>2. Known' = Known
    BY <2>1 DEF Known
  <2>3. QED
    BY <1>2, <2>1, <2>2
<1>7. QED
  BY <1>3, <1>4, <1>5, <1>6 DEF Next

LEMMA SpecSoundStutter ==
  ASSUME SoundInv, UNCHANGED <<vars, slowReads>>
  PROVE  SoundInv' /\ UNCHANGED nested /\ Known' = Known
<1>1. UNCHANGED <<states, merging, nested>>
  BY DEF vars, compactionVars
<1>2. QED
  BY <1>1 DEF SoundInv, MergesSound, MergeSound, Known

LEMMA SpecSoundInit == Init => SoundInv
BY DEF Init, CompactionInit, SoundInv, MergesSound, MergeSound, NoMerge

(* Nothing an account knows of is lost, with any number of merges, until    *)
(* one of them has read ranges that share an instant: what was asked for is *)
(* not asked for again.                                                     *)
THEOREM KnownStaysKnown ==
  Spec => [][~nested' => Cover(Known) \subseteq Cover(Known')]_<<vars, slowReads>>
<1>1. RequestInv /\ SoundInv /\ [Next /\ UNCHANGED slowReads]_<<vars, slowReads>> => SoundInv'
  BY SpecSound, SpecSoundStutter
<1>2. RequestInv /\ SoundInv /\ [Next /\ UNCHANGED slowReads]_<<vars, slowReads>>
        => [~nested' => Cover(Known) \subseteq Cover(Known')]_<<vars, slowReads>>
  BY SpecSound
<1>3. QED
  BY <1>1, <1>2, SpecSoundInit, RequestsAgree, PTL DEF Spec
-----------------------------------------------------------------------------
LEMMA FaultsStay ==
  ASSUME RequestInv, Next, faults' = 0
  PROVE  faults = 0 /\ ~Crash
<1>1. faults \in Nat
  BY TypesAre, FaultAssumption DEF RequestInv, JobTypes
<1>2. ~\E kind \in AllFaults : Fault(kind)
  BY <1>1 DEF Fault
<1>3. ~Crash
  BY <1>2 DEF Crash, AllFaults
<1>4. CASE SaveQueued \/ FinishRead \/ StartStep \/ FetchAllRanges \/ GrowHistory \/ \E m \in Merger : Compact(m)
  BY <1>3, <1>4 DEF SaveQueued, SavePending, SaveReady, FinishRead, CheckComplete, AwaitRequestComplete,
     SaveResponseReady, StartStep, Start, InitPendingRange, InitReadyRanges, FetchAllRanges, GrowHistory, Compact
<1>5. CASE \E n \in Nonce :
             RequestRange(n) \/ RequestFails(n) \/ CompleteRequest(n) \/ ResponseStep(n)
  BY <1>2, <1>3, <1>5 DEF RequestRange, RequestFails, CompleteRequest, ResponseStep, EmitResponse,
     OnEntityResponse, AllFaults
<1>6. CASE ProcessStep
  BY <1>2, <1>3, <1>6 DEF ProcessStep, ProcessRanges, NextReadyRange, EndProcessRanges, HandleRange,
     SaveProcessed, RemoveRequest, AllFaults
<1>7. QED
  BY <1>3, <1>4, <1>5, <1>6 DEF Next

LEMMA StartedUp ==
  ASSUME RequestInv, NoCallFailed, Once, NEW n \in Nonce, call[n] # "none"
  PROVE  phase = "up"
<1> SUFFICES ASSUME phase # "up" PROVE FALSE
  OBVIOUS
<1>1. call[n] = "done"
  BY DEF RequestInv, StartInv, NoCallFailed
<1>2. Instants(range[n]) \subseteq Cover(Known)
  BY <1>1 DEF Once, CallsKnown
<1>3. Known = {}
  BY DEF Once, StartEmpty, Known
<1>4. Instants(range[n]) # {}
  BY TypesAre, RangesAreRanges DEF RequestInv, CallTypes
<1>5. QED
  BY <1>2, <1>3, <1>4 DEF Cover

(* A step that hands nothing to the domain, and loses no range.             *)
LEMMA OnceKept ==
  ASSUME Once, UNCHANGED handled,
         \A n \in Nonce : Given(n) => Given(n)' /\ range'[n] = range[n],
         StartEmpty', CallsApart', CallsKnown'
  PROVE  Once'
BY DEF Once, HandledGiven

(* Nor does it make a call.                                                 *)
LEMMA CallsKept ==
  ASSUME Once, UNCHANGED range, Cover(Known) \subseteq Cover(Known'),
         \A n \in Nonce :
           /\ call'[n] # "none" => call[n] # "none"
           /\ call'[n] \notin {"none", "request", "save"} =>
                call[n] \notin {"none", "request", "save"} \/ range[n] \in Known'
  PROVE  CallsApart' /\ CallsKnown'
<1>1. \A n \in Nonce : range[n] \in Known' => Instants(range[n]) \subseteq Cover(Known')
  BY DEF Cover
<1>2. CallsApart'
  BY DEF Once, CallsApart
<1>3. CallsKnown'
  BY <1>1 DEF Once, CallsKnown
<1>4. QED
  BY <1>2, <1>3

LEMMA OnceSaves ==
  ASSUME RequestInv, NoCallFailed, Once, Cover(Known) \subseteq Cover(Known'), NEW n \in Nonce,
         SavePending(n) \/ SaveReady(n) \/ SaveResponseReady(n)
  PROVE  Once'
<1>1. StoreTypes /\ CallTypes
  BY TypesAre DEF RequestInv
<1>2. /\ SaveState(range[n], "Pending", n) \/ SaveState(range[n], "Ready", n)
      /\ UNCHANGED <<handled, range, status, phase, toInit, complete, processing, currentNonce>>
      /\ \A k \in Nonce \ {n} : call'[k] = call[k]
      /\ call[n] # "none" /\ (call'[n] = call[n] \/ call'[n] \in {"check", "done"})
  BY <1>1 DEF SavePending, SaveReady, SaveResponseReady, RequestInv, CallInv, CallTypes,
     initVars, callVars, processVars
<1>3. range[n] \in Known'
  BY <1>1, <1>2 DEF SaveState, StoreTypes, CompactionTypeOK, CallTypes, Known
<1>4. \A k \in Nonce : Given(k)' = Given(k)
  BY <1>2 DEF Given
<1>5. StartEmpty'
  BY <1>2, StartedUp DEF StartEmpty
<1>6. CallsApart' /\ CallsKnown'
  BY <1>2, <1>3, CallsKept
<1>7. QED
  BY <1>2, <1>4, <1>5, <1>6, OnceKept

LEMMA OnceCalls ==
  ASSUME RequestInv, NoCallFailed', Once, Cover(Known) \subseteq Cover(Known'), NEW n \in Nonce,
         \/ CheckComplete(n) \/ AwaitRequestComplete(n)
         \/ RequestRange(n) \/ RequestFails(n) \/ CompleteRequest(n) \/ ResponseStep(n)
  PROVE  Once'
<1>1. CallTypes /\ StoreTypes /\ \A k \in Nonce : call'[k] # "failed"
  BY TypesAre DEF RequestInv, NoCallFailed
<1>2. UNCHANGED <<states, handled, range, phase, toInit, complete, processing, currentNonce>>
  BY DEF CheckComplete, AwaitRequestComplete, RequestRange, RequestFails, CompleteRequest, ResponseStep,
     EmitResponse, OnEntityResponse, initVars, callVars, processVars, compactionVars
<1>3. \A k \in Nonce :
        /\ call'[k] # "none" => call[k] # "none"
        /\ call'[k] \notin {"none", "request", "save"} => call[k] \notin {"none", "request", "save"}
  BY <1>1 DEF CheckComplete, AwaitRequestComplete, RequestRange, RequestFails, CallFails, CompleteRequest,
     ResponseStep, EmitResponse, OnEntityResponse, CallTypes, callVars
<1>4. \A k \in Nonce : status[k] = "gone" => status'[k] = "gone"
  BY <1>1 DEF CheckComplete, AwaitRequestComplete, RequestRange, RequestFails, CompleteRequest,
     ResponseStep, EmitResponse, OnEntityResponse, StoreTypes, RequestInv, CallInv
<1>5. \A k \in Nonce : Given(k) => Given(k)'
  BY <1>2, <1>4 DEF Given
<1>6. StartEmpty'
  BY <1>2 DEF Once, StartEmpty
<1>7. CallsApart' /\ CallsKnown'
  BY <1>2, <1>3, CallsKept
<1>8. QED
  BY <1>2, <1>5, <1>6, <1>7, OnceKept

LEMMA OnceStart ==
  ASSUME RequestInv, Once, Cover(Known) \subseteq Cover(Known'), StartStep
  PROVE  Once'
<1>1. StoreTypes
  BY TypesAre DEF RequestInv
<1>2. /\ phase # "up" /\ toInit = {} /\ complete = {}
      /\ \A r \in DateRanges : states[r] = "none"
  BY DEF StartStep, Start, InitPendingRange, InitReadyRanges, Once, StartEmpty
<1>3. UNCHANGED <<handled, call, range, status, processing, currentNonce>>
  BY DEF StartStep, Start, InitPendingRange, InitReadyRanges, callVars, processVars
<1>4. states' = states
  BY <1>1, <1>2 DEF StartStep, Start, InitPendingRange, InitReadyRanges, StoreTypes, CompactionTypeOK,
     compactionVars
<1>5. StartEmpty'
  BY <1>2, <1>4 DEF StartEmpty, StartStep, Start, InitPendingRange, IsLeast, InitReadyRanges, InState
<1>6. \A k \in Nonce : Given(k)' = Given(k)
  BY <1>3 DEF Given
<1>7. CallsApart' /\ CallsKnown'
  BY <1>3, CallsKept
<1>8. QED
  BY <1>3, <1>5, <1>6, <1>7, OnceKept

LEMMA OnceFetchAll ==
  ASSUME RequestInv, AwaitedInv, NoCallFailed, Once, FetchAllRanges
  PROVE  Once'
<1>1. PICK N \in SUBSET Nonce :
        /\ \A n \in N :
             /\ call[n] = "none" /\ call'[n] = "request" /\ range'[n] \in DateRanges
             /\ Instants(range'[n]) \cap Cover(Known) = {}
        /\ \A n \in Nonce \ N :
             call[n] \in {"none", "done"} /\ call'[n] = call[n] /\ range'[n] = range[n]
        /\ \A n, k \in N : n # k => Instants(range'[n]) \cap Instants(range'[k]) = {}
  BY FetchAllMakes
<1>2. /\ UNCHANGED <<states, status, handled, phase, toInit, complete, processing, currentNonce>>
      /\ phase = "up" /\ Known' = Known
  BY DEF FetchAllRanges, initVars, processVars, compactionVars, Known
<1>3. StartEmpty'
  BY <1>2 DEF StartEmpty
<1>4. \A n \in N : status[n] = "new" /\ ~Given(n)
  BY <1>1 DEF RequestInv, CallInv, ProcessInv, Given
<1>5. \A n \in Nonce : Given(n) => Given(n)' /\ range'[n] = range[n]
  BY <1>1, <1>2, <1>4 DEF Given
<1>6. \A n \in Nonce \ N : call'[n] # "none" => Instants(range'[n]) \subseteq Cover(Known)
  BY <1>1 DEF Once, CallsKnown
<1>7. CallsKnown'
  BY <1>1, <1>2, <1>6 DEF CallsKnown
<1>8. CallsApart'
  <2> SUFFICES ASSUME NEW n \in Nonce, NEW k \in Nonce, n # k, call'[n] # "none", call'[k] # "none"
               PROVE  Instants(range'[n]) \cap Instants(range'[k]) = {}
    BY DEF CallsApart
  <2>1. CASE n \in N /\ k \in N
    BY <1>1, <2>1
  <2>2. CASE n \in N /\ k \notin N
    BY <1>1, <1>6, <2>2
  <2>3. CASE n \notin N /\ k \in N
    BY <1>1, <1>6, <2>3
  <2>4. CASE n \notin N /\ k \notin N
    BY <1>1, <2>4 DEF Once, CallsApart
  <2>5. QED
    BY <2>1, <2>2, <2>3, <2>4
<1>9. QED
  BY <1>2, <1>3, <1>5, <1>7, <1>8, OnceKept

(* The range in hand has none of the instants that were handled before.     *)
LEMMA CurrentIsNew ==
  ASSUME RequestInv, Once, processing = "handle", NEW n \in Nonce, Given(n)
  PROVE  Instants(range[n]) \cap Instants(current) = {}
<1>1. /\ currentNonce \in Nonce /\ range[currentNonce] = current
      /\ status[currentNonce] = "complete" /\ call[currentNonce] # "none"
  BY DEF RequestInv, ProcessInv
<1>2. n # currentNonce /\ status[n] = "gone"
  BY <1>1 DEF Given
<1>3. call[n] # "none"
  BY <1>2 DEF RequestInv, CallInv
<1>4. QED
  BY <1>1, <1>2, <1>3 DEF Once, CallsApart

LEMMA OnceHandle ==
  ASSUME RequestInv, Once, faults' = 0, HandleRange
  PROVE  Once'
<1>1. JobTypes /\ faults \in Nat
  BY TypesAre, FaultAssumption DEF RequestInv, JobTypes
<1>2. /\ processing = "handle" /\ processing' = "save"
      /\ handled' = [i \in 0..LastDate |->
                       IF i \in Instants(current) /\ handled[i] < 2 THEN handled[i] + 1 ELSE handled[i]]
      /\ UNCHANGED <<states, status, phase, toInit, complete, call, range, current, currentNonce>>
  BY <1>1 DEF HandleRange, Fault, initVars, callVars, compactionVars
<1>3. currentNonce \in Nonce /\ range[currentNonce] = current
  BY <1>2 DEF RequestInv, ProcessInv
<1>4. Known' = Known
  BY <1>2 DEF Known
<1>5. \A n \in Nonce : Given(n)' <=> Given(n) \/ n = currentNonce
  BY <1>2 DEF Given
<1>6. HandledGiven'
  <2> SUFFICES ASSUME NEW i \in 0..LastDate
               PROVE  /\ handled'[i] < 2
                      /\ handled'[i] > 0 => \E n \in Nonce : Given(n)' /\ i \in Instants(range[n])
    BY <1>2 DEF HandledGiven
  <2>1. handled[i] \in 0..2
    BY <1>1 DEF JobTypes
  <2>2. /\ handled[i] < 2
        /\ handled[i] > 0 => \E n \in Nonce : Given(n) /\ i \in Instants(range[n])
    BY DEF Once, HandledGiven
  <2>3. CASE i \in Instants(current)
    <3>1. ~(handled[i] > 0)
      BY <1>2, <2>2, <2>3, CurrentIsNew
    <3>2. handled'[i] = 1
      BY <1>2, <2>1, <2>3, <3>1
    <3>3. \E n \in Nonce : Given(n)' /\ i \in Instants(range[n])
      BY <1>3, <1>5, <2>3
    <3>4. QED
      BY <3>2, <3>3
  <2>4. CASE i \notin Instants(current)
    <3>1. handled'[i] = handled[i]
      BY <1>2, <2>4
    <3>2. QED
      BY <1>5, <2>2, <3>1
  <2>5. QED
    BY <2>3, <2>4
<1>7. StartEmpty' /\ CallsApart' /\ CallsKnown'
  BY <1>2, <1>4 DEF Once, StartEmpty, CallsApart, CallsKnown
<1>8. QED
  BY <1>6, <1>7 DEF Once

(* The other steps of the jobs, and the merges.                             *)
LEMMA OnceJobs ==
  ASSUME RequestInv, Once, Cover(Known) \subseteq Cover(Known'),
         \/ ProcessRanges \/ NextReadyRange \/ EndProcessRanges \/ SaveProcessed \/ RemoveRequest
         \/ GrowHistory \/ \E m \in Merger : Compact(m)
  PROVE  Once'
<1>1. StoreTypes
  BY TypesAre DEF RequestInv
<1>2. UNCHANGED <<handled, call, range, phase, toInit, complete>>
  BY DEF ProcessRanges, NextReadyRange, EndProcessRanges, SaveProcessed, RemoveRequest, GrowHistory, Compact,
     initVars, callVars
<1>3. \A n \in Nonce : Given(n) => Given(n)'
  BY <1>1 DEF Given, ProcessRanges, NextReadyRange, EndProcessRanges, SaveProcessed, RemoveRequest, GrowHistory,
     Compact, StoreTypes, processVars
<1>4. StartEmpty'
  <2>1. CASE phase = "up"
    BY <1>2, <2>1 DEF StartEmpty
  <2>2. CASE phase # "up"
    <3>1. processing = "idle"
      BY <2>2 DEF RequestInv, StartInv
    <3>2. states' = states
      BY <2>2, <3>1 DEF ProcessRanges, NextReadyRange, EndProcessRanges, SaveProcessed, RemoveRequest, GrowHistory,
         Compact, compactionVars
    <3>3. QED
      BY <1>2, <3>2 DEF Once, StartEmpty
  <2>3. QED
    BY <2>1, <2>2
<1>5. CallsApart' /\ CallsKnown'
  BY <1>2, CallsKept
<1>6. QED
  BY <1>2, <1>3, <1>4, <1>5, OnceKept

LEMMA OnceStep ==
  ASSUME RequestInv, AwaitedInv, SoundInv, OnceInv, Next
  PROVE  OnceInv'
<1> SUFFICES ASSUME faults' = 0, NoCallFailed', ~nested' PROVE Once'
  BY DEF OnceInv
<1>1. NoCallFailed /\ Once /\ ~Crash /\ Cover(Known) \subseteq Cover(Known')
  BY FailuresStay, FaultsStay, SpecSound DEF OnceInv
<1>2. CASE SaveQueued
  BY <1>1, <1>2, OnceSaves DEF SaveQueued
<1>3. CASE FinishRead
  BY <1>1, <1>3, OnceSaves, OnceCalls DEF FinishRead
<1>4. CASE StartStep
  BY <1>1, <1>4, OnceStart
<1>5. CASE FetchAllRanges
  BY <1>1, <1>5, OnceFetchAll
<1>6. CASE \E n \in Nonce :
             RequestRange(n) \/ RequestFails(n) \/ CompleteRequest(n) \/ ResponseStep(n)
  BY <1>1, <1>6, OnceCalls
<1>7. CASE ProcessStep \/ GrowHistory \/ \E m \in Merger : Compact(m)
  BY <1>1, <1>7, OnceHandle, OnceJobs DEF ProcessStep
<1>8. QED
  BY <1>1, <1>2, <1>3, <1>4, <1>5, <1>6, <1>7 DEF Next

LEMMA OnceInit == Init => OnceInv
<1> SUFFICES ASSUME Init PROVE Once
  BY DEF OnceInv
<1>1. StartEmpty
  BY DEF Init, CompactionInit, StartEmpty
<1>2. CallsApart /\ CallsKnown /\ HandledGiven
  BY DEF Init, CallsApart, CallsKnown, HandledGiven
<1>3. QED
  BY <1>1, <1>2 DEF Once

LEMMA OnceStutter ==
  ASSUME OnceInv, UNCHANGED <<vars, slowReads>>
  PROVE  OnceInv'
<1>1. UNCHANGED <<states, nested, handled, status, call, range, phase, toInit, complete, processing,
                  currentNonce, faults>>
  BY DEF vars, initVars, callVars, processVars, compactionVars
<1>2. NoCallFailed' = NoCallFailed /\ Known' = Known /\ \A n \in Nonce : Given(n)' = Given(n)
  BY <1>1 DEF NoCallFailed, Known, Given
<1>3. Once => Once'
  BY <1>1, <1>2 DEF Once, StartEmpty, CallsApart, CallsKnown, HandledGiven
<1>4. QED
  BY <1>1, <1>2, <1>3 DEF OnceInv

(* As long as nothing fails, and with any number of merges under way until  *)
(* one has read ranges that share an instant, the domain is given no        *)
(* instant twice, however late reads are answered; and what counts as       *)
(* processed it was given.                                                  *)
THEOREM HandledAtMostOnce == Spec => []HandledOnce
<1>1. Init => RequestInv /\ AwaitedInv /\ SoundInv /\ OnceInv
  BY RequestInit, FetchedInit, SpecSoundInit, OnceInit
<1>2. RequestInv /\ AwaitedInv /\ SoundInv /\ OnceInv /\ [Next /\ UNCHANGED slowReads]_<<vars, slowReads>>
        => OnceInv'
  BY OnceStep, OnceStutter
<1>3. RequestInv /\ AwaitedInv /\ SoundInv /\ [Next /\ UNCHANGED slowReads]_<<vars, slowReads>>
        => AwaitedInv' /\ SoundInv'
  BY AwaitedStep, SpecSound, SpecSoundStutter DEF AwaitedInv, NoCallFailed, vars, callVars
<1>4. OnceInv /\ ProcessedWasHandled => HandledOnce
  BY DEF OnceInv, NoCallFailed, Once, HandledGiven, HandledOnce
<1>5. QED
  BY <1>1, <1>2, <1>3, <1>4, RequestsAgree, ProcessedWasAlwaysHandled, PTL DEF Spec

-----------------------------------------------------------------------------
(* The statistics of the ranges processed (TimeSeriesStats).                *)

(* What the ranges made of the instants T are.                              *)
LEMMA RunsExact ==
  ASSUME NEW a \in Nat, NEW b \in Nat, NEW T \in SUBSET (a..b)
  PROVE  /\ Cover(MaximalRuns(T)) = T
         /\ IsFiniteSet(MaximalRuns(T))
         /\ \A r \in MaximalRuns(T) : IsRange(r) /\ r.startDate \in Nat /\ r.endDate \in Nat
<1>1. \A r \in MaximalRuns(T) : /\ IsRange(r) /\ r.startDate \in Nat /\ r.endDate \in Nat
                                /\ Instants(r) \subseteq T
  BY DEF MaximalRuns, IsRange, AnyRange, DateRange
<1>2. ASSUME NEW x \in T PROVE x \in Cover(MaximalRuns(T))
  <2>1. PICK n \in {m \in Nat : x - m - 1 \notin T} : \A m \in {k \in Nat : x - k - 1 \notin T} : n <= m
    <3> DEFINE S == {m \in Nat : x - m - 1 \notin T}
    <3>1. x - a \in S
      OBVIOUS
    <3> HIDE DEF S
    <3>2. \E n \in S : \A m \in S : n <= m
      <4>1. S \in SUBSET Nat
        BY DEF S
      <4>2. QED
        BY <3>1, <4>1, HasLeast
    <3>3. QED
      BY <3>2 DEF S
  <2>2. PICK n2 \in {m \in Nat : x + m + 1 \notin T} : \A m \in {k \in Nat : x + k + 1 \notin T} : n2 <= m
    <3> DEFINE S == {m \in Nat : x + m + 1 \notin T}
    <3>1. b - x \in S
      OBVIOUS
    <3> HIDE DEF S
    <3>2. \E n2 \in S : \A m \in S : n2 <= m
      <4>1. S \in SUBSET Nat
        BY DEF S
      <4>2. QED
        BY <3>1, <4>1, HasLeast
    <3>3. QED
      BY <3>2 DEF S
  <2> DEFINE s == x - n
             e == x + n2
  <2>3. x \in Int /\ s \in Int /\ e \in Int /\ s <= x /\ x <= e /\ s - 1 \notin T /\ e + 1 \notin T
    BY <2>1, <2>2
  <2>4. ASSUME NEW y \in s..x PROVE y \in T
    <3>1. CASE y = x
      BY <3>1
    <3>2. CASE y # x
      <4>1. x - y - 1 \in Nat /\ x - y - 1 < n
        BY <2>3, <3>2
      <4>2. x - (x - y - 1) - 1 = y
        BY <2>3
      <4>3. QED
        BY <2>1, <4>1, <4>2
    <3>3. QED
      BY <3>1, <3>2
  <2>5. ASSUME NEW y \in x..e PROVE y \in T
    <3>1. CASE y = x
      BY <3>1
    <3>2. CASE y # x
      <4>1. y - x - 1 \in Nat /\ y - x - 1 < n2
        BY <2>3, <3>2
      <4>2. x + (y - x - 1) + 1 = y
        BY <2>3
      <4>3. ASSUME y \notin T PROVE FALSE
        <5>1. y - x - 1 \in {k \in Nat : x + k + 1 \notin T}
          BY <4>1, <4>2, <4>3
        <5>2. n2 <= y - x - 1
          BY <2>2, <5>1
        <5>3. QED
          BY <2>2, <2>3, <4>1, <5>2
      <4>4. QED
        BY <4>3
    <3>3. QED
      BY <3>1, <3>2
  <2>6. s \in T /\ e \in T /\ \A y \in s..e : y \in T
    BY <2>3, <2>4, <2>5
  <2>7. DateRange(s, e) \in MaximalRuns(T)
    <3> HIDE DEF s, e
    <3>1. QED
      BY <2>3, <2>6 DEF MaximalRuns, DateRange, Instants
  <2>8. x \in Instants(DateRange(s, e))
    <3> HIDE DEF s, e
    <3>1. QED
      BY <2>3 DEF DateRange, Instants
  <2>9. QED
    BY <2>7, <2>8 DEF Cover
<1>3. Cover(MaximalRuns(T)) = T
  BY <1>1, <1>2 DEF Cover
<1>4. IsFiniteSet(MaximalRuns(T))
  <2> DEFINE Q == {DateRange(s, e) : s, e \in T}
             f == [p \in T \X T |-> DateRange(p[1], p[2])]
  <2>1. IsFiniteSet(T \X T)
    <3>1. IsFiniteSet(a..b)
      BY FS_Interval
    <3>2. IsFiniteSet(T)
      BY <3>1, FS_Subset
    <3>3. QED
      BY <3>2, FS_Product
  <2>2. f \in Surjection(T \X T, Q)
    <3>1. f \in [T \X T -> Q]
      OBVIOUS
    <3>2. ASSUME NEW q \in Q PROVE \E p \in T \X T : f[p] = q
      <4>1. PICK s \in T, e \in T : q = DateRange(s, e)
        OBVIOUS
      <4>2. <<s, e>> \in T \X T /\ f[<<s, e>>] = q
        BY <4>1
      <4>3. QED
        BY <4>2
    <3>3. QED
      BY <3>1, <3>2 DEF Surjection
  <2>3. IsFiniteSet(Q)
    <3> HIDE DEF Q, f
    <3>1. QED
      BY <2>1, <2>2, FS_Surjection
  <2>4. MaximalRuns(T) \in SUBSET Q
    BY DEF MaximalRuns
  <2> HIDE DEF Q
  <2>5. QED
    BY <2>3, <2>4, FS_Subset
<1>5. QED
  BY <1>1, <1>3, <1>4
-----------------------------------------------------------------------------
(* The instants of the chunks H, as far as the series has them.             *)
From(H) == {x \in Cover({Chunks[i] : i \in H}) : x >= StartDate}

(* The chunks are ranges of the history, and every instant of it is in one. *)
LEMMA ChunkType ==
  /\ \A i \in DOMAIN Chunks : /\ IsRange(Chunks[i]) /\ Chunks[i].startDate \in Nat /\ Chunks[i].endDate \in Nat
                              /\ Instants(Chunks[i]) \subseteq Oldest..Newest
  /\ \A x \in Oldest..Newest : \E i \in DOMAIN Chunks : x \in Instants(Chunks[i])
  /\ DOMAIN Chunks = 1..Len(Chunks) /\ Len(Chunks) \in Nat
<1>1. Cover({Chunks[i] : i \in DOMAIN Chunks}) = Oldest..Newest
  BY HistoryAssumption DEF Range
<1>2. \A i \in DOMAIN Chunks : Chunks[i] \in [startDate : Nat, endDate : Nat] /\ Chunks[i].startDate <= Chunks[i].endDate
  <2>1. Chunks \in Seq([startDate : Nat, endDate : Nat])
    BY HistoryAssumption
  <2>2. \A i \in DOMAIN Chunks : Chunks[i].startDate <= Chunks[i].endDate
    BY HistoryAssumption
  <2> DEFINE R == [startDate : Nat, endDate : Nat]
  <2>3. \A i \in DOMAIN Chunks : Chunks[i] \in R
    <3> HIDE DEF R
    <3>1. Chunks \in Seq(R)
      BY <2>1 DEF R
    <3>2. QED
      BY <3>1
  <2>4. QED
    BY <2>2, <2>3
<1>3. \A i \in DOMAIN Chunks : IsRange(Chunks[i]) /\ Chunks[i].startDate \in Nat /\ Chunks[i].endDate \in Nat
  BY <1>2 DEF IsRange, AnyRange
<1>4. DOMAIN Chunks = 1..Len(Chunks) /\ Len(Chunks) \in Nat
  <2>1. Chunks \in Seq([startDate : Nat, endDate : Nat])
    BY HistoryAssumption
  <2>2. QED
    BY <2>1
<1>5. QED
  BY <1>1, <1>3, <1>4 DEF Cover

LEMMA ChunkOrder ==
  ASSUME NEW i \in DOMAIN Chunks, NEW j \in DOMAIN Chunks, i < j
  PROVE  Chunks[i].endDate < Chunks[j].startDate
BY HistoryAssumption

LEMMA HistoryDates == Oldest \in Nat /\ Newest \in Nat /\ StartDate \in Nat /\ Event \subseteq Oldest..Newest
BY HistoryAssumption

(* Between two instants that were handled lies no other than a whole chunk. *)
LEMMA GapIsChunk ==
  ASSUME NEW H \in SUBSET DOMAIN Chunks, NEW x \in Oldest..Newest,
         x - 1 \in From(H), x \notin From(H),
         x + 1 \in From(H) \/ x + 1 \notin Oldest..Newest
  PROVE  DateRange(x, x) \in Range(Chunks)
<1> USE HistoryDates
<1>1. PICK j \in DOMAIN Chunks : x \in Instants(Chunks[j])
  BY ChunkType
<1>2. j \notin H
  BY <1>1 DEF From, Cover
<1>3. /\ Chunks[j] \in AnyRange /\ Chunks[j].startDate \in Nat /\ Chunks[j].endDate \in Nat
      /\ Chunks[j].startDate <= x /\ x <= Chunks[j].endDate
      /\ Instants(Chunks[j]) \subseteq Oldest..Newest
  BY <1>1, ChunkType DEF Instants, IsRange
<1>4. PICK i \in H : x - 1 \in Instants(Chunks[i])
  BY DEF From, Cover
<1>5. ASSUME NEW k \in H, NEW y, y \in Instants(Chunks[k]) PROVE y \notin Instants(Chunks[j])
  <2>1. /\ Chunks[k].startDate \in Nat /\ Chunks[k].endDate \in Nat
        /\ k \in Nat /\ j \in Nat /\ (k < j \/ j < k) /\ k \in DOMAIN Chunks
        /\ y \in Nat /\ Chunks[k].startDate <= y /\ y <= Chunks[k].endDate
    <3>1. k \in DOMAIN Chunks /\ k # j
      BY <1>2
    <3>2. k \in Nat /\ j \in Nat
      BY <3>1, ChunkType
    <3>3. Chunks[k].startDate \in Nat /\ Chunks[k].endDate \in Nat
      BY <3>1, ChunkType
    <3>4. QED
      BY <1>5, <3>1, <3>2, <3>3 DEF Instants
  <2>2. k < j => Chunks[k].endDate < Chunks[j].startDate
    BY <2>1, ChunkOrder
  <2>3. j < k => Chunks[j].endDate < Chunks[k].startDate
    BY <2>1, ChunkOrder
  <2>4. QED
    BY <1>3, <2>1, <2>2, <2>3 DEF Instants
<1>6. x - 1 \notin Instants(Chunks[j])
  BY <1>4, <1>5
<1>7. x + 1 \notin Instants(Chunks[j])
  <2>1. CASE x + 1 \notin Oldest..Newest
    BY <1>3, <2>1
  <2>2. CASE x + 1 \in From(H)
    <3>1. PICK k \in H : x + 1 \in Instants(Chunks[k])
      BY <2>2 DEF From, Cover
    <3>2. QED
      BY <1>5, <3>1
  <2>3. QED
    BY <2>1, <2>2
<1>8. Chunks[j].startDate = x /\ Chunks[j].endDate = x
  BY <1>3, <1>6, <1>7 DEF Instants
<1>9. Chunks[j] = DateRange(x, x)
  BY <1>3, <1>8 DEF DateRange, AnyRange
<1>10. QED
  BY <1>9 DEF Range

(* The first instant, when process is told it, is that of the history.      *)
LEMMA MinDateIsOldest ==
  ASSUME processed # {}, low \in DOMAIN Chunks, high \in low..Len(Chunks), processed \subseteq low..high
  PROVE  MinDate \in {NoDate, Oldest}
<1> DEFINE first == Min({r.startDate : r \in Processed})
           T == Cover({Chunks[i] : i \in processed})
<1>1. SUFFICES ASSUME low = 1, \A d \in {Chunks[i].startDate : i \in (low..high) \ processed} : first <= d
               PROVE  first = Oldest
  BY DEF MinDate
<1>2. /\ T \in SUBSET (Oldest..Newest) /\ T # {} /\ Oldest \in Nat /\ Newest \in Nat
  <2>1. processed \subseteq DOMAIN Chunks
    BY ChunkType
  <2>2. T \subseteq Oldest..Newest
    BY <2>1, ChunkType DEF Cover
  <2>3. PICK i \in processed : TRUE
    OBVIOUS
  <2>4. Chunks[i].startDate \in Instants(Chunks[i])
    BY <2>1, ChunkType DEF Instants, IsRange
  <2>5. QED
    BY <2>2, <2>4, HistoryDates DEF Cover
<1>3. /\ Cover(Processed) = T
      /\ \A r \in Processed : IsRange(r) /\ r.startDate \in Nat /\ r.endDate \in Nat
  BY <1>2, RunsExact DEF Processed
<1>4. first \in {r.startDate : r \in Processed} /\ \A r \in Processed : first <= r.startDate
  <2> DEFINE S == {r.startDate : r \in Processed}
  <2>1. S \in SUBSET Nat /\ S # {}
    BY <1>2, <1>3 DEF Cover
  <2>2. \E x \in S : \A y \in S : x <= y
    <3> HIDE DEF S
    <3>1. QED
      BY <2>1, HasLeast
  <2>3. first \in S /\ \A y \in S : first <= y
    <3>1. first = CHOOSE x \in S : \A y \in S : x <= y
      BY DEF Min
    <3> HIDE DEF S, first
    <3>2. QED
      BY <2>2, <3>1
  <2>4. QED
    BY <2>3
<1> HIDE DEF first
<1>5. first \in T
  BY <1>3, <1>4 DEF Cover, Instants, IsRange, AnyRange
<1>6. \A x \in T : first <= x
  BY <1>2, <1>3, <1>4 DEF Cover, Instants, IsRange, AnyRange
<1>7. PICK i \in DOMAIN Chunks : Oldest \in Instants(Chunks[i])
  <2>1. Oldest \in Oldest..Newest
    <3>1. PICK x \in T : x \in Oldest..Newest
      BY <1>2
    <3>2. QED
      BY <1>2, <3>1
  <2>2. QED
    BY <2>1, ChunkType
<1>8. /\ Chunks[i].startDate \in Nat /\ Chunks[i].startDate <= Oldest
      /\ i \in Nat /\ 1 <= i
  BY <1>7, ChunkType DEF Instants
<1>9. i \in processed
  <2>1. PICK j \in processed : first \in Instants(Chunks[j])
    BY <1>5 DEF Cover
  <2>2. CASE i \in low..high
    <3>1. SUFFICES ASSUME i \notin processed PROVE FALSE
      OBVIOUS
    <3>2. first <= Chunks[i].startDate /\ first \in Nat /\ Oldest <= first
      BY <1>1, <1>2, <1>5, <2>2, <3>1
    <3>3. first = Oldest
      BY <1>2, <1>8, <3>2
    <3>4. Chunks[j].startDate <= Oldest /\ Oldest <= Chunks[j].endDate /\ Chunks[j].startDate \in Nat /\ Chunks[j].endDate \in Nat
          /\ j \in DOMAIN Chunks /\ j \in Nat
      <4>1. j \in DOMAIN Chunks
        BY ChunkType
      <4>2. QED
        BY <2>1, <3>3, <4>1, ChunkType DEF Instants
    <3>5. Oldest <= Chunks[i].endDate /\ Chunks[i].endDate \in Nat
      BY <1>7, ChunkType DEF Instants
    <3>6. i = j
      <4>1. ~(i < j)
        BY <1>2, <1>7, <1>8, <3>4, <3>5, ChunkOrder
      <4>2. ~(j < i)
        <5>1. j < i => Chunks[j].endDate < Chunks[i].startDate
          BY <1>7, <3>4, ChunkOrder
        <5>2. QED
          BY <1>2, <1>8, <3>4, <5>1
      <4>3. QED
        BY <1>8, <3>4, <4>1, <4>2
    <3>7. QED
      BY <2>1, <3>1, <3>6
  <2>3. CASE i \notin low..high
    <3>1. j \in DOMAIN Chunks /\ j < i /\ j \in Nat
      BY <1>1, <1>8, <2>3, ChunkType
    <3>2. Chunks[j].endDate < Chunks[i].startDate /\ Chunks[j].endDate \in Nat
      BY <3>1, ChunkOrder, ChunkType
    <3>3. first <= Chunks[j].endDate /\ Oldest <= first /\ first \in Nat
      BY <1>2, <1>5, <2>1 DEF Instants
    <3>4. QED
      BY <1>2, <1>8, <3>2, <3>3
  <2>4. QED
    BY <2>2, <2>3
<1>10. Oldest \in T
  BY <1>7, <1>9 DEF Cover
<1>11. QED
  BY <1>2, <1>5, <1>6, <1>10

-----------------------------------------------------------------------------
(* Multiples of the size of an interval.                                    *)
LEMMA MultipleIs ==
  ASSUME NEW d \in Nat, d > 0, NEW x \in Int
  PROVE  /\ x % d \in 0..d - 1
         /\ x \div d \in Int
         /\ x = d * (x \div d) + (x % d)
<1>1. x % d \in 0..d - 1
  OBVIOUS
<1>2. x \div d \in Int
  OBVIOUS
<1>3. x = d * (x \div d) + (x % d)
  OBVIOUS
<1> QED BY <1>1, <1>2, <1>3

(* Arithmetic of multiples, which the provers need spelt out.               *)
LEMMA MultipleMod ==
  ASSUME NEW d \in Nat, d > 0, NEW q \in Int
  PROVE  (d * q) % d = 0
OBVIOUS

LEMMA ProductUnique ==
  ASSUME NEW d \in Nat, d > 0, NEW p \in Int, NEW q \in Int, d * p <= d * q, d * q < d * p + d
  PROVE  p = q
OBVIOUS

LEMMA ProductGrows ==
  ASSUME NEW d \in Nat, d > 0, NEW p \in Int, NEW q \in Int, p <= q
  PROVE  d * p <= d * q
OBVIOUS

(* What divides a divisor divides the whole.                                *)
LEMMA DividesOn ==
  ASSUME NEW d \in Nat, d > 0, NEW c \in Nat, c > 0, NEW s \in Int, c % d = 0, s % c = 0
  PROVE  s % d = 0
<1> DEFINE p == c \div d
           q == s \div c
<1>1. p \in Int /\ q \in Int /\ c = d * p /\ s = c * q
  BY MultipleIs
<1> HIDE DEF p, q
<1>2. s = d * (p * q) /\ p * q \in Int
  <2>1. s = (d * p) * q
    BY <1>1
  <2>2. QED
    BY <1>1, <2>1
<1>3. (d * (p * q)) % d = 0
  BY <1>2, MultipleMod
<1>4. QED
  BY <1>2, <1>3

(* Two multiples differ by a whole interval at least.                       *)
LEMMA MultiplesApart ==
  ASSUME NEW d \in Nat, d > 0, NEW x \in Int, NEW y \in Int, x % d = 0, y % d = 0, x < y
  PROVE  x + d <= y
<1> DEFINE p == x \div d
           q == y \div d
<1>1. p \in Int /\ q \in Int /\ x = d * p /\ y = d * q
  BY MultipleIs
<1> HIDE DEF p, q
<1>2. p + 1 <= q
  <2>1. ~(q <= p)
    BY <1>1, ProductGrows
  <2>2. QED
    BY <1>1, <2>1
<1>3. d * (p + 1) <= d * q
  BY <1>1, <1>2, ProductGrows
<1>4. QED
  BY <1>1, <1>3

LEMMA MultipleNext ==
  ASSUME NEW d \in Nat, d > 0, NEW x \in Int, x % d = 0, NEW k \in Int
  PROVE  (x + k * d) % d = 0
<1> DEFINE p == x \div d
<1>1. p \in Int /\ x = d * p
  BY MultipleIs
<1> HIDE DEF p
<1>2. x + k * d = d * (p + k)
  BY <1>1
<1>3. QED
  BY <1>1, <1>2, MultipleMod

(* The greatest multiple up to x.                                           *)
LEMMA FloorIs ==
  ASSUME NEW d \in Nat, d > 0, NEW x \in Nat
  PROVE  LET s == (x \div d) * d
         IN s \in Nat /\ s % d = 0 /\ s <= x /\ x < s + d
<1> DEFINE q == x \div d
<1>1. q \in Int /\ x % d \in 0..d - 1 /\ x = d * q + (x % d)
  BY MultipleIs
<1> HIDE DEF q
<1>2. q * d = d * q /\ q * d \in Int
  BY <1>1
<1>3. q * d <= x /\ x < q * d + d
  BY <1>1, <1>2
<1>4. q * d >= 0
  <2>1. ~(q <= -1)
    <3>1. q <= -1 => d * q <= d * (-1)
      BY <1>1, ProductGrows
    <3>2. QED
      BY <1>1, <1>2, <1>3, <3>1
  <2>2. QED
    BY <1>1, <1>2, <2>1
<1>5. (d * q) % d = 0
  BY <1>1, MultipleMod
<1>6. QED
  BY <1>2, <1>3, <1>4, <1>5 DEF q

(* The rounding up of splitDurationIntoIntervals.                           *)
LEMMA CeilIs ==
  ASSUME NEW d \in Nat, d > 0, NEW n \in Nat, n > 0
  PROVE  LET c == CeilDiv(n, d)
         IN c \in Nat /\ c >= 1 /\ (c - 1) * d < n /\ n <= c * d
<1> DEFINE c == (n + d - 1) \div d
           m == n + d - 1
<1>1. c \in Int /\ m % d \in 0..d - 1 /\ m = d * c + (m % d) /\ m \in Int
  <2>1. m \in Int
    OBVIOUS
  <2> HIDE DEF m
  <2>2. m \div d \in Int /\ m % d \in 0..d - 1 /\ m = d * (m \div d) + (m % d)
    BY <2>1, MultipleIs
  <2>3. QED
    BY <2>1, <2>2 DEF m
<1>2. c = CeilDiv(n, d)
  BY DEF CeilDiv
<1> HIDE DEF c
<1>3. d * c <= n + d - 1 /\ n <= d * c
  BY <1>1
<1>4. c >= 1
  <2>1. c <= 0 => d * c <= d * 0
    BY <1>1, ProductGrows
  <2>2. QED
    BY <1>1, <1>3, <2>1
<1>5. (c - 1) * d = d * c - d /\ c * d = d * c
  BY <1>1
<1>6. QED
  BY <1>1, <1>2, <1>3, <1>4, <1>5

-----------------------------------------------------------------------------
(* Intervals of a frame: they start at the multiples of its size, and every *)
(* instant is in one of them.                                               *)
Named(i) == TimeFrames[i] # "All"

Sz(i) == Size[TimeFrames[i]]

IsEntry(i, e) ==
  /\ e = Entry(TimeFrames[i], e.startDate)
  /\ e.startDate \in Int
  /\ IF Named(i) THEN e.startDate % Sz(i) = 0 ELSE e.startDate = 0

SlotOf(i, x) == Entry(TimeFrames[i], (x \div Sz(i)) * Sz(i))

(* The frames: no two are the same, and only the last may be without a      *)
(* size.                                                                    *)
LEMMA FrameType ==
  /\ DOMAIN TimeFrames = 1..Len(TimeFrames) /\ Len(TimeFrames) \in Nat
  /\ \A i \in DOMAIN TimeFrames : /\ i \in Nat /\ TimeFrames[i] \in Frames
                                  /\ Named(i) => Sz(i) \in Nat /\ Sz(i) > 1
                                  /\ \A j \in DOMAIN TimeFrames : j < i => Named(j)
                                  /\ \A j \in DOMAIN TimeFrames : TimeFrames[j] = TimeFrames[i] => j = i
<1>1. DOMAIN TimeFrames = 1..Len(TimeFrames) /\ Len(TimeFrames) \in Nat
  BY FramesAssumption
<1>2. ASSUME NEW i \in DOMAIN TimeFrames
      PROVE  /\ i \in Nat /\ TimeFrames[i] \in Frames
             /\ Named(i) => Sz(i) \in Nat /\ Sz(i) > 1
             /\ \A j \in DOMAIN TimeFrames : j < i => Named(j)
             /\ \A j \in DOMAIN TimeFrames : TimeFrames[j] = TimeFrames[i] => j = i
  <2>1. i \in Nat /\ TimeFrames[i] \in Frames
    BY <1>1 DEF Frames, Range
  <2>2. Named(i) => Sz(i) \in Nat /\ Sz(i) > 1
    BY <2>1, FramesAssumption DEF Named, Sz
  <2>3. ASSUME NEW j \in DOMAIN TimeFrames, j < i PROVE Named(j)
    BY <1>1, <2>3, FramesAssumption DEF Named
  <2>4. \A j \in DOMAIN TimeFrames : TimeFrames[j] = TimeFrames[i] => j = i
    BY FramesAssumption
  <2>5. QED
    BY <2>1, <2>2, <2>3, <2>4
<1>3. QED
  BY <1>1, <1>2

(* The interval of a frame that starts at s.                                *)
LEMMA EntryIs ==
  ASSUME NEW i \in DOMAIN TimeFrames, Named(i), NEW s \in Int
  PROVE  /\ Entry(TimeFrames[i], s) = [frame |-> TimeFrames[i], startDate |-> s, endDate |-> s + Sz(i) - 1]
         /\ Key(Entry(TimeFrames[i], s)) = Entry(TimeFrames[i], s)
         /\ s % Sz(i) = 0 => IsEntry(i, Entry(TimeFrames[i], s))
BY DEF Entry, Key, Named, Sz, IsEntry

(* An interval of a frame with a size: where it starts and ends.            *)
LEMMA NamedEntry ==
  ASSUME NEW i \in DOMAIN TimeFrames, Named(i), NEW e, IsEntry(i, e)
  PROVE  /\ e = [frame |-> TimeFrames[i], startDate |-> e.startDate, endDate |-> e.startDate + Sz(i) - 1]
         /\ e.frame = TimeFrames[i] /\ e.endDate = e.startDate + Sz(i) - 1
         /\ e.startDate \in Int /\ e.startDate % Sz(i) = 0 /\ e.endDate \in Int
         /\ e.startDate < e.endDate
<1>1. e.startDate \in Int /\ e.startDate % Sz(i) = 0 /\ e = Entry(TimeFrames[i], e.startDate)
  BY DEF IsEntry
<1>2. e = [frame |-> TimeFrames[i], startDate |-> e.startDate, endDate |-> e.startDate + Sz(i) - 1]
  BY <1>1, EntryIs
<1>3. Sz(i) \in Nat /\ Sz(i) > 1
  BY FrameType
<1>4. e.frame = TimeFrames[i] /\ e.endDate = e.startDate + Sz(i) - 1
  BY <1>2
<1>5. QED
  BY <1>1, <1>2, <1>3, <1>4

(* Each instant is in one interval of a frame, and in no other.             *)
LEMMA SlotIs ==
  ASSUME NEW i \in DOMAIN TimeFrames, Named(i), NEW x \in Nat
  PROVE  /\ IsEntry(i, SlotOf(i, x)) /\ SlotOf(i, x).startDate \in Nat
         /\ x \in Instants(SlotOf(i, x))
         /\ \A e : IsEntry(i, e) /\ x \in Instants(e) => e = SlotOf(i, x)
<1> DEFINE s == (x \div Sz(i)) * Sz(i)
<1>1. Sz(i) \in Nat /\ Sz(i) > 1
  BY FrameType
<1>2. s \in Nat /\ s % Sz(i) = 0 /\ s <= x /\ x < s + Sz(i)
  <2> DEFINE d == Sz(i)
  <2>1. d \in Nat /\ d > 0
    BY <1>1
  <2>2. s = (x \div d) * d
    OBVIOUS
  <2> HIDE DEF d, s
  <2>3. s \in Nat /\ s % d = 0 /\ s <= x /\ x < s + d
    BY <2>1, <2>2, FloorIs
  <2>4. QED
    BY <2>3 DEF d
<1>3. SlotOf(i, x) = Entry(TimeFrames[i], s)
  BY DEF SlotOf
<1> HIDE DEF s
<1>4. /\ IsEntry(i, SlotOf(i, x)) /\ SlotOf(i, x).startDate = s /\ SlotOf(i, x).endDate = s + Sz(i) - 1
  BY <1>2, <1>3, EntryIs
<1>5. x \in Instants(SlotOf(i, x))
  BY <1>1, <1>2, <1>4 DEF Instants
<1>6. ASSUME NEW e, IsEntry(i, e), x \in Instants(e) PROVE e = SlotOf(i, x)
  <2>1. e.startDate \in Int /\ e.startDate % Sz(i) = 0 /\ e.endDate = e.startDate + Sz(i) - 1
    BY <1>6, NamedEntry
  <2>2. e.startDate <= x /\ x < e.startDate + Sz(i)
    BY <1>1, <1>6, <2>1 DEF Instants
  <2>3. ASSUME e.startDate < s PROVE FALSE
    <3> DEFINE d == Sz(i)
               t == e.startDate
    <3>1. d \in Nat /\ d > 0 /\ t \in Int /\ s \in Int /\ t % d = 0 /\ s % d = 0 /\ t < s
      BY <1>1, <1>2, <2>1, <2>3
    <3> HIDE DEF d, t
    <3>2. t + d <= s
      BY <3>1, MultiplesApart
    <3>3. QED
      BY <1>2, <2>1, <2>2, <3>1, <3>2 DEF d, t
  <2>4. ASSUME s < e.startDate PROVE FALSE
    <3> DEFINE d == Sz(i)
               t == e.startDate
    <3>1. d \in Nat /\ d > 0 /\ t \in Int /\ s \in Int /\ t % d = 0 /\ s % d = 0 /\ s < t
      BY <1>1, <1>2, <2>1, <2>4
    <3> HIDE DEF d, t
    <3>2. s + d <= t
      BY <3>1, MultiplesApart
    <3>3. QED
      BY <1>2, <2>1, <2>2, <3>1, <3>2 DEF d, t
  <2>5. e.startDate = s
    BY <1>2, <2>1, <2>3, <2>4
  <2>6. QED
    BY <1>3, <1>6, <2>5 DEF IsEntry
<1>7. QED
  BY <1>2, <1>4, <1>5, <1>6

(* The interval after e is that of the next instant.                        *)
LEMMA NextIs ==
  ASSUME NEW i \in DOMAIN TimeFrames, Named(i), NEW e, IsEntry(i, e), e.startDate \in Nat
  PROVE  /\ IsEntry(i, GetNextInterval(e))
         /\ GetNextInterval(e).startDate = e.endDate + 1
         /\ GetNextInterval(e) = SlotOf(i, e.endDate + 1)
<1>1. /\ e.frame = TimeFrames[i] /\ e.endDate = e.startDate + Sz(i) - 1 /\ e.endDate \in Int
      /\ e.startDate % Sz(i) = 0
  BY NamedEntry
<1>2. Sz(i) \in Nat /\ Sz(i) > 1
  BY FrameType
<1>3. GetNextInterval(e) = Entry(TimeFrames[i], e.startDate + Sz(i))
  BY <1>1 DEF GetNextInterval, Sz
<1>4. (e.startDate + Sz(i)) % Sz(i) = 0 /\ e.startDate + Sz(i) \in Nat
  <2>1. (e.startDate + 1 * Sz(i)) % Sz(i) = 0
    <3> DEFINE d == Sz(i)
               t == e.startDate
    <3>1. d \in Nat /\ d > 0 /\ t \in Int /\ t % d = 0
      BY <1>1, <1>2
    <3> HIDE DEF d, t
    <3>2. \A k \in Int : (t + k * d) % d = 0
      BY <3>1, MultipleNext
    <3>3. (t + 1 * d) % d = 0
      BY <3>2
    <3>4. QED
      BY <3>3 DEF d, t
  <2>2. 1 * Sz(i) = Sz(i)
    BY <1>2
  <2>3. QED
    BY <1>2, <2>1, <2>2
<1>5. IsEntry(i, GetNextInterval(e)) /\ GetNextInterval(e).startDate = e.startDate + Sz(i)
      /\ GetNextInterval(e).endDate = e.startDate + Sz(i) + Sz(i) - 1
  BY <1>3, <1>4, EntryIs
<1>6. e.endDate + 1 \in Nat /\ e.endDate + 1 = e.startDate + Sz(i) /\ e.endDate + 1 \in Instants(GetNextInterval(e))
  BY <1>1, <1>2, <1>5 DEF Instants
<1>7. QED
  BY <1>5, <1>6, SlotIs

(* The intervals process goes through for one range, oldest first: all that *)
(* have an instant of it or the one before it, and each of them once.       *)
LEMMA ListIs ==
  ASSUME ~NewestFirst, NEW i \in DOMAIN TimeFrames, Named(i),
         NEW p, IsRange(p), p.startDate \in Nat
  PROVE  LET l == Intervals(p, TimeFrames[i])
         IN \E c \in Nat, s \in Nat :
              /\ c >= 1 /\ Len(l) = c + 2 /\ DOMAIN l = 1..(c + 2)
              /\ s % Sz(i) = 0 /\ s <= p.startDate /\ p.startDate < s + Sz(i)
              /\ (c - 1) * Sz(i) <= p.endDate - p.startDate
              /\ p.endDate - p.startDate <= c * Sz(i)
              /\ \A k \in 1..(c + 2) : l[k] = Entry(TimeFrames[i], s + (k - 2) * Sz(i))
<1> DEFINE d == Sz(i)
           s == (p.startDate \div d) * d
           c == IF p.startDate = p.endDate THEN 1 ELSE CeilDiv(p.endDate - p.startDate, d)
           seq == [k \in 1..c |-> Entry(TimeFrames[i], s + (k - 1) * d)]
           l == Intervals(p, TimeFrames[i])
<1>1. d \in Nat /\ d > 1 /\ p.endDate \in Nat /\ p.startDate <= p.endDate
  BY FrameType DEF IsRange, AnyRange
<1>2. s \in Nat /\ s % d = 0 /\ s <= p.startDate /\ p.startDate < s + d
  BY <1>1, FloorIs
<1>3. c \in Nat /\ c >= 1 /\ (c - 1) * d <= p.endDate - p.startDate /\ p.endDate - p.startDate <= c * d
  <2>1. CASE p.startDate = p.endDate
    BY <1>1, <2>1
  <2>2. CASE p.startDate # p.endDate
    <3> DEFINE n == p.endDate - p.startDate
               cc == CeilDiv(n, d)
    <3>1. n \in Nat /\ n > 0
      BY <1>1, <2>2
    <3>2. cc \in Nat /\ cc >= 1 /\ (cc - 1) * d < n /\ n <= cc * d
      <4> HIDE DEF n, d
      <4>1. d \in Nat /\ d > 0 /\ n \in Nat /\ n > 0
        BY <1>1, <3>1
      <4>2. QED
        BY <4>1, CeilIs
    <3>3. c = cc
      BY <2>2
    <3> HIDE DEF cc, c
    <3>4. (cc - 1) * d \in Int
      BY <1>1, <3>2
    <3>5. QED
      BY <3>1, <3>2, <3>3, <3>4
  <2>3. QED
    BY <2>1, <2>2
<1>4. GetTimeFrameIntervals(p, TimeFrames[i]) = seq
  BY DEF GetTimeFrameIntervals, SplitDurationIntoIntervals, Named, Sz
<1>5. l = <<GetPreviousInterval(seq[1])>> \o seq \o <<GetNextInterval(Last(seq))>>
  BY <1>4 DEF Intervals, Named
<1> HIDE DEF d, s, c
<1>6. Len(seq) = c /\ DOMAIN seq = 1..c /\ \A S : (\A k \in 1..c : seq[k] \in S) => seq \in Seq(S)
  <2>1. seq = [k \in 1..c |-> seq[k]]
    OBVIOUS
  <2> HIDE DEF seq
  <2>2. QED
    BY <1>3, <2>1
<1>7. seq[1] = Entry(TimeFrames[i], s) /\ Last(seq) = Entry(TimeFrames[i], s + (c - 1) * d)
  <2>1. seq[1] = Entry(TimeFrames[i], s + (1 - 1) * d)
    BY <1>3
  <2>2. s + (1 - 1) * d = s
    BY <1>1, <1>2 DEF d
  <2>3. Last(seq) = seq[c]
    BY <1>3, <1>6 DEF Last
  <2>4. QED
    BY <1>3, <2>1, <2>2, <2>3
<1> DEFINE prev == GetPreviousInterval(seq[1])
           next == GetNextInterval(Last(seq))
<1>8. prev = Entry(TimeFrames[i], s - d) /\ next = Entry(TimeFrames[i], s + (c - 1) * d + d)
  <2>1. Entry(TimeFrames[i], s).frame = TimeFrames[i] /\ Entry(TimeFrames[i], s).startDate = s
    BY DEF Entry
  <2>2. /\ Entry(TimeFrames[i], s + (c - 1) * d).frame = TimeFrames[i]
        /\ Entry(TimeFrames[i], s + (c - 1) * d).startDate = s + (c - 1) * d
    BY DEF Entry
  <2>3. QED
    BY <1>7, <2>1, <2>2 DEF GetPreviousInterval, GetNextInterval, d, Sz
<1> HIDE DEF seq, prev, next
<1>9. /\ Len(l) = c + 2 /\ DOMAIN l = 1..(c + 2)
      /\ l[1] = prev /\ l[c + 2] = next
      /\ \A k \in 2..(c + 1) : l[k] = seq[k - 1]
  <2>0. l = <<prev>> \o seq \o <<next>>
    BY <1>5 DEF prev, next
  <2> HIDE DEF l
  <2>1. <<prev>> \o seq \in Seq(Range(seq) \cup {prev, next}) /\ Len(<<prev>> \o seq) = c + 1
        /\ (<<prev>> \o seq)[1] = prev /\ \A k \in 2..(c + 1) : (<<prev>> \o seq)[k] = seq[k - 1]
    <3>1. seq \in Seq(Range(seq) \cup {prev, next})
      <4>1. \A k \in 1..c : seq[k] \in Range(seq) \cup {prev, next}
        BY <1>6 DEF Range
      <4>2. QED
        BY <1>6, <4>1
    <3>2. QED
      BY <1>3, <1>6, <3>1
  <2>2. QED
    BY <1>3, <2>0, <2>1
<1>10. ASSUME NEW k \in 1..(c + 2) PROVE l[k] = Entry(TimeFrames[i], s + (k - 2) * d)
  <2>1. CASE k = 1
    <3>1. s + (1 - 2) * d = s - d
      BY <1>1, <1>2 DEF d
    <3>2. QED
      BY <1>8, <1>9, <2>1, <3>1
  <2>2. CASE k = c + 2
    <3>1. s + ((c + 2) - 2) * d = s + (c - 1) * d + d
      <4>1. d \in Int
        BY <1>1 DEF d
      <4>2. (c - 1) * d = c * d - d /\ (c + 2) - 2 = c
        BY <1>3, <4>1
      <4>3. QED
        BY <1>2, <1>3, <4>1, <4>2
    <3>2. QED
      BY <1>8, <1>9, <2>2, <3>1
  <2>3. CASE k \in 2..(c + 1)
    <3>1. l[k] = seq[k - 1] /\ k - 1 \in 1..c
      BY <1>3, <1>9, <2>3
    <3>2. seq[k - 1] = Entry(TimeFrames[i], s + ((k - 1) - 1) * d)
      BY <3>1 DEF seq
    <3>3. (k - 1) - 1 = k - 2
      BY <2>3
    <3>4. QED
      BY <3>1, <3>2, <3>3
  <2>4. QED
    BY <1>3, <2>1, <2>2, <2>3
<1>11. QED
  BY <1>2, <1>3, <1>9, <1>10 DEF d

-----------------------------------------------------------------------------
(* The smaller frame an interval is calculated from divides it.             *)
LEMMA TrueDivideIs ==
  ASSUME NEW i \in DOMAIN TimeFrames, TrueDivide(i) # 0
  PROVE  /\ TrueDivide(i) + 1 \in DOMAIN TimeFrames /\ TrueDivide(i) + 1 < i
         /\ Named(TrueDivide(i) + 1)
         /\ Named(i) => Sz(i) % Sz(TrueDivide(i) + 1) = 0
<1>1. /\ DOMAIN TimeFrames = 1..Len(TimeFrames) /\ Len(TimeFrames) \in Nat /\ i \in Nat
      /\ \A j \in DOMAIN TimeFrames : j < i => Named(j)
  BY FrameType
<1>2. ~(i <= 2)
  BY DEF TrueDivide
<1>3. CASE TimeFrames[i] = "All"
  <2>1. TrueDivide(i) = i - 2
    BY <1>2, <1>3 DEF TrueDivide
  <2>2. QED
    BY <1>1, <1>2, <1>3, <2>1 DEF Named
<1>4. CASE TimeFrames[i] # "All"
  <2> DEFINE P == {j \in 1..(i - 2) : Size[TimeFrames[i]] % Size[TimeFrames[j + 1]] = 0}
             S == {0} \cup P
             G == {n \in 0..(i - 2) : i - 2 - n \in S}
  <2>1. TrueDivide(i) = Max(S)
    BY <1>2, <1>4 DEF TrueDivide
  <2>2. \E x \in S : \A y \in S : x >= y
    <3>1. G \in SUBSET Nat /\ i - 2 \in G
      BY <1>1, <1>2
    <3>2. PICK n \in G : \A m \in G : n <= m
      <4> HIDE DEF G
      <4>1. QED
        BY <3>1, HasLeast
    <3>3. i - 2 - n \in S
      BY <3>2
    <3>4. ASSUME NEW y \in S PROVE i - 2 - n >= y
      <4>1. i - 2 - y \in G
        BY <1>1, <1>2
      <4>2. n <= i - 2 - y
        BY <3>2, <4>1
      <4>3. QED
        BY <1>1, <1>2, <3>2, <4>2
    <3>5. QED
      BY <3>3, <3>4
  <2>3. Max(S) \in S
    <3>1. Max(S) = CHOOSE x \in S : \A y \in S : x >= y
      BY DEF Max
    <3> HIDE DEF S
    <3>2. QED
      BY <2>2, <3>1
  <2>4. TrueDivide(i) \in P
    <3> HIDE DEF P
    <3>1. QED
      BY <2>1, <2>3
  <2>5. QED
    BY <1>1, <1>2, <2>4 DEF Sz
<1>5. QED
  BY <1>3, <1>4

(* The last instant of the intervals that divide an interval of this size.  *)
SharesEnd(size, x) == \E d \in 2..size : size % d = 0 /\ (x + 1) % d = 0

(* If a size divides another, what shares an end with the one shares it     *)
(* with the other.                                                          *)
LEMMA SharesEndOn ==
  ASSUME NEW c \in Nat, c > 0, NEW s \in Nat, s > 0, s % c = 0, NEW x \in Nat, SharesEnd(c, x)
  PROVE  SharesEnd(s, x)
<1>1. PICK d \in 2..c : c % d = 0 /\ (x + 1) % d = 0
  BY DEF SharesEnd
<1>2. d \in Nat /\ d > 0 /\ s \in Int /\ c % d = 0
  BY <1>1
<1>3. s % d = 0
  BY <1>1, <1>2, DividesOn
<1>4. c <= s
  <2>1. 0 % c = 0
    <3>1. (c * 0) % c = 0
      BY MultipleMod
    <3>2. c * 0 = 0
      OBVIOUS
    <3>3. QED
      BY <3>1, <3>2
  <2>2. 0 + c <= s
    BY <2>1, MultiplesApart
  <2>3. QED
    BY <2>2
<1>5. d \in 2..s
  BY <1>1, <1>4
<1>6. QED
  BY <1>1, <1>3, <1>5 DEF SharesEnd

(* Not one of an interval's instants but its last is the last of an         *)
(* interval that divides it and the interval after it, both.                *)
LEMMA SharesNoNext ==
  ASSUME NEW i \in DOMAIN TimeFrames, Named(i), NEW e, IsEntry(i, e), e.startDate \in Nat
  PROVE  /\ SharesEnd(Sz(i), e.endDate)
         /\ ~SharesEnd(Sz(i), e.endDate - 1)
<1> DEFINE d == Sz(i)
           t == e.startDate
<1>1. d \in Nat /\ d > 1 /\ d > 0 /\ t \in Nat /\ t \in Int /\ t % d = 0 /\ e.endDate = t + d - 1
  BY NamedEntry, FrameType
<1> HIDE DEF d, t
<1>2. (t + d) % d = 0 /\ d % d = 0
  <2>1. \A k \in Int : (t + k * d) % d = 0
    BY <1>1, MultipleNext
  <2>2. (t + 1 * d) % d = 0 /\ 1 * d = d
    <3>1. (t + 1 * d) % d = 0
      BY <2>1
    <3>2. 1 * d = d
      BY <1>1
    <3>3. QED
      BY <3>1, <3>2
  <2>3. (d * 1) % d = 0 /\ d * 1 = d
    BY <1>1, MultipleMod
  <2>4. QED
    BY <2>2, <2>3
<1>3. SharesEnd(d, e.endDate)
  <2>1. e.endDate + 1 = t + d
    BY <1>1
  <2>2. (e.endDate + 1) % d = 0 /\ d % d = 0 /\ d \in 2..d
    BY <1>1, <1>2, <2>1
  <2>3. QED
    BY <2>2 DEF SharesEnd
<1>4. ASSUME SharesEnd(d, e.endDate - 1) PROVE FALSE
  <2>1. PICK c \in 2..d : d % c = 0 /\ ((e.endDate - 1) + 1) % c = 0
    BY <1>4 DEF SharesEnd
  <2>2. (e.endDate - 1) + 1 = e.endDate /\ e.endDate \in Nat /\ c \in Nat /\ c > 1
    BY <1>1, <2>1
  <2>3. e.endDate % c = 0
    BY <2>1, <2>2
  <2>4. (t + d) % c = 0
    <3>1. t + d \in Int /\ c > 0 /\ d > 0
      BY <1>1, <2>2
    <3>2. QED
      BY <1>1, <1>2, <2>1, <2>2, <3>1, DividesOn
  <2>5. e.endDate + c <= t + d
    <3>1. t + d \in Int /\ c > 0 /\ e.endDate < t + d /\ e.endDate \in Int
      BY <1>1, <2>2
    <3> DEFINE y == t + d
               x == e.endDate
    <3>2. y \in Int /\ x \in Int /\ x < y /\ x % c = 0 /\ y % c = 0
      BY <2>3, <2>4, <3>1
    <3> HIDE DEF x, y
    <3>3. x + c <= y
      BY <2>2, <3>1, <3>2, MultiplesApart
    <3>4. QED
      BY <3>3 DEF x, y
  <2>6. QED
    BY <1>1, <2>2, <2>5
<1>5. QED
  BY <1>3, <1>4 DEF d

(* An interval's borders are borders of the frame that divides it.          *)
LEMMA DivideIn ==
  ASSUME NEW i \in DOMAIN TimeFrames, Named(i), NEW j \in DOMAIN TimeFrames, Named(j),
         Sz(i) % Sz(j) = 0, NEW e, IsEntry(i, e)
  PROVE  e.startDate % Sz(j) = 0 /\ (e.startDate + Sz(i)) % Sz(j) = 0
<1> DEFINE d == Sz(i)
           c == Sz(j)
           t == e.startDate
<1>1. d \in Nat /\ d > 0 /\ t \in Int /\ t % d = 0
  BY NamedEntry, FrameType
<1>2. c \in Nat /\ c > 0 /\ d % c = 0
  BY FrameType
<1> HIDE DEF d, c, t
<1>3. (t + d) % d = 0 /\ t + d \in Int
  <2>1. \A k \in Int : (t + k * d) % d = 0
    BY <1>1, MultipleNext
  <2>2. (t + 1 * d) % d = 0 /\ 1 * d = d
    <3>1. (t + 1 * d) % d = 0
      BY <2>1
    <3>2. 1 * d = d
      BY <1>1
    <3>3. QED
      BY <3>1, <3>2
  <2>3. QED
    BY <1>1, <2>2
<1>4. t % c = 0 /\ (t + d) % c = 0
  BY <1>1, <1>2, <1>3, DividesOn
<1>5. QED
  BY <1>4 DEF d, c, t

(* The interval of the smaller frame starts within the greater one that it  *)
(* divides, which thus counts its bar.                                      *)
LEMMA SlotWithin ==
  ASSUME NEW i \in DOMAIN TimeFrames, Named(i), NEW j \in DOMAIN TimeFrames, Named(j),
         Sz(i) % Sz(j) = 0, NEW e, IsEntry(i, e), NEW x \in Nat, x \in Instants(e)
  PROVE  SlotOf(j, x).startDate \in Instants(e)
<1> DEFINE c == Sz(j)
           t == e.startDate
           s == SlotOf(j, x).startDate
<1>1. /\ t \in Int /\ e.endDate = t + Sz(i) - 1 /\ Sz(i) \in Nat /\ Sz(i) > 1 /\ e.endDate \in Int
      /\ t <= x /\ x <= e.endDate
  BY NamedEntry, FrameType DEF Instants
<1>2. c \in Nat /\ c > 0 /\ t % c = 0
  BY FrameType, DivideIn
<1>3. s \in Int /\ s % c = 0 /\ s <= x /\ x < s + c
  <2>1. IsEntry(j, SlotOf(j, x)) /\ x \in Instants(SlotOf(j, x))
    BY SlotIs
  <2>2. s \in Int /\ s % c = 0 /\ SlotOf(j, x).endDate = s + c - 1
    BY <2>1, NamedEntry
  <2>3. QED
    BY <1>2, <2>1, <2>2 DEF Instants
<1> HIDE DEF c, t, s
<1>4. ~(s < t)
  <2>1. s < t => s + c <= t
    BY <1>1, <1>2, <1>3, MultiplesApart
  <2>2. QED
    BY <1>1, <1>2, <1>3, <2>1
<1>5. t <= s /\ s <= e.endDate
  BY <1>1, <1>3, <1>4
<1>6. QED
  BY <1>1, <1>3, <1>5 DEF Instants, t, s

-----------------------------------------------------------------------------
(* The inductive invariant.                                                 *)
BatchStates == {"intervals", "entries", "states"}

RangeStates == {"range"} \cup BatchStates

(* The events the running call has to calculate.                            *)
Due == (Event \cap Cover(run.all)) \ Overlooked

(* What the call may leave to a later one: the last instant of an interval  *)
(* when what follows it is not handled yet.                                 *)
Excused(i, x) == x + 1 \notin Cover(run.all) /\ SharesEnd(Sz(i), x)

Calculated(i, x) == x \in DataOf(SlotOf(i, x)) \/ Excused(i, x)

(* The instants the current frame has still to go through, the intervals of *)
(* the first of their ranges, and how far the call is with these.           *)
Left == Cover(Range(run.ranges))

List == Intervals(run.ranges[1], TimeFrames[run.i])

Taken == Len(List) - Len(run.todo)

Place(k) == Taken - Len(run.buffer) + k

SavedUpTo == IF run.at = "states" THEN Taken ELSE Taken - Len(run.buffer)

(* The instants C have all of each recorded interval that the history has,  *)
(* its last one excepted.                                                   *)
Within(C) ==
  \A e \in recorded :
    /\ \A y \in Instants(e) : y >= Oldest /\ y # e.endDate => y \in C
    /\ e.endDate <= Oldest => e.endDate \in C

BarsInv ==
  \A b \in bars :
    \E i \in DOMAIN TimeFrames :
      /\ IsEntry(i, Key(b)) /\ b = Bar(Key(b), b.data)
      /\ b.data # {} /\ b.data \subseteq Inputs(i, Key(b))

RecordedInv ==
  /\ IsFiniteSet(recorded)
  /\ \A e \in recorded : e.startDate \in Nat
                         /\ \E i \in DOMAIN TimeFrames : Named(i) /\ IsEntry(i, e)
  /\ Within(From(processed))
  /\ \A e, h \in recorded :
       (h = GetNextInterval(e) /\ e.endDate \in Event \ Overlooked) => e.endDate \in DataOf(e)
  /\ \A e \in recorded :
       (Event \cap Instants(e)) \ ({e.endDate} \cup Overlooked) \subseteq DataOf(e)

(* The call goes through the frames in order, on the ranges it was given.   *)
StatsCallInv ==
  run.at # "idle" =>
    /\ run.minDate \in {NoDate, Oldest}
    /\ IsFiniteSet(run.all) /\ \A r \in run.all : IsRange(r)
    /\ \E H \in SUBSET processed : Cover(run.all) = From(H)
    /\ Within(Cover(run.all))
    /\ run.i \in 1..(Len(TimeFrames) + 1)
    /\ \A j \in 1..(run.i - 1) : Named(j) => \A x \in Due : Calculated(j, x)

FrameInv ==
  run.at \in RangeStates =>
    /\ run.i \in DOMAIN TimeFrames
    /\ run.ranges \in Seq(AnyRange) /\ \A k \in DOMAIN run.ranges : IsRange(run.ranges[k])
    /\ Left \subseteq Cover(run.all)
    /\ Named(run.i) => \A x \in Due : x \notin Left /\ x + 1 \notin Left => Calculated(run.i, x)

BarType == [frame : Frames, startDate : Int, endDate : Int, data : SUBSET Nat]

BatchInv ==
  run.at \in BatchStates =>
    /\ run = [at |-> run.at, i |-> run.i, minDate |-> run.minDate, all |-> run.all,
              ranges |-> run.ranges, todo |-> run.todo, buffer |-> run.buffer]
    /\ run.ranges # <<>>
    /\ run.todo \in Seq(Range(List)) /\ Len(run.todo) <= Len(List)
    /\ \A k \in 1..Len(run.todo) : run.todo[k] = List[Taken + k]
    /\ run.buffer \in Seq(BarType) /\ Len(run.buffer) <= Taken
    /\ run.at = "intervals" => run.todo # <<>> /\ Len(run.buffer) < BatchSize
    /\ \A k \in 1..Len(run.buffer) : run.buffer[k] = Bar(List[Place(k)], run.buffer[k].data)
    /\ Named(run.i) =>
         \A k \in 1..SavedUpTo : \A x \in Due \cap Instants(List[k]) : Calculated(run.i, x)

(* What is buffered and not saved.                                          *)
BufferInv ==
  run.at \in {"intervals", "entries"} =>
    \A k \in 1..Len(run.buffer) :
      LET e == List[Place(k)]
          data == run.buffer[k].data
      IN /\ DataOf(e) \subseteq data /\ data \subseteq Inputs(run.i, e)
         /\ Named(run.i) => \A x \in Due \cap Instants(e) : x \in data \/ Excused(run.i, x)

StatsInv ==
  StatsTypeOK /\ BarsInv /\ RecordedInv /\ StatsCallInv /\ FrameInv /\ BatchInv /\ BufferInv

-----------------------------------------------------------------------------
(* A bar is of one interval of one frame, and has events of it only.        *)
LEMMA BarIs ==
  ASSUME BarsInv, NEW b \in bars, NEW i \in DOMAIN TimeFrames, b.frame = TimeFrames[i]
  PROVE  /\ IsEntry(i, Key(b)) /\ b = Bar(Key(b), b.data)
         /\ b.data # {} /\ b.data \subseteq Inputs(i, Key(b))
         /\ Key(b).startDate = b.startDate /\ Key(b).frame = TimeFrames[i]
         /\ Instants(Key(b)) = Instants(b)
<1>1. PICK j \in DOMAIN TimeFrames : /\ IsEntry(j, Key(b)) /\ b = Bar(Key(b), b.data)
                                     /\ b.data # {} /\ b.data \subseteq Inputs(j, Key(b))
  BY DEF BarsInv
<1>2. Key(b).frame = b.frame /\ Key(b).startDate = b.startDate
  BY DEF Key, Entry
<1>3. Key(b).frame = TimeFrames[j]
  BY <1>1 DEF IsEntry, Entry
<1>4. j = i
  BY <1>2, <1>3, FrameType
<1>5. Instants(Key(b)) = Instants(b)
  <2>1. b.endDate = Key(b).endDate
    BY <1>1 DEF Bar
  <2>2. QED
    BY <1>2, <2>1 DEF Instants
<1>6. QED
  BY <1>1, <1>2, <1>4, <1>5

LEMMA StoredType == StatsTypeOK => Stored \subseteq Oldest..Newest
<1>1. SUFFICES ASSUME StatsTypeOK PROVE Event \subseteq Oldest..Newest
  BY DEF Stored
<1>2. QED
  BY HistoryDates

(* What an interval is calculated from are events of it.                    *)
LEMMA InputsAre ==
  ASSUME StatsTypeOK, BarsInv, NEW i \in DOMAIN TimeFrames, NEW e, IsEntry(i, e)
  PROVE  Inputs(i, e) \subseteq Instants(e) \cap Stored
<1>1. CASE TrueDivide(i) = 0
  BY <1>1 DEF Inputs
<1>2. CASE TrueDivide(i) # 0
  <2> DEFINE j == TrueDivide(i) + 1
  <2>1. j \in DOMAIN TimeFrames /\ j < i /\ Named(j) /\ (Named(i) => Sz(i) % Sz(j) = 0)
    BY <1>2, TrueDivideIs
  <2>2. SUFFICES ASSUME NEW b \in bars, b.frame = TimeFrames[j], b.startDate \in Instants(e), NEW x \in b.data
                 PROVE  x \in Instants(e) \cap Stored
    BY <1>2 DEF Inputs
  <2> HIDE DEF j
  <2>3. x \in Instants(b) /\ x \in Stored /\ x \in Nat /\ x <= Newest
    BY StoredType, HistoryDates DEF StatsTypeOK
  <2>4. IsEntry(j, Key(b)) /\ Key(b).startDate = b.startDate /\ x \in Instants(Key(b))
    BY <2>1, <2>2, <2>3, BarIs
  <2>5. /\ b.startDate \in Int /\ b.startDate % Sz(j) = 0
        /\ b.startDate <= x /\ x < b.startDate + Sz(j) /\ Sz(j) \in Nat /\ Sz(j) > 1
    <3>1. /\ Key(b).startDate \in Int /\ Key(b).startDate % Sz(j) = 0
          /\ Key(b).endDate = Key(b).startDate + Sz(j) - 1
      BY <2>1, <2>4, NamedEntry
    <3>2. Sz(j) \in Nat /\ Sz(j) > 1
      BY <2>1, FrameType
    <3>3. QED
      BY <2>4, <3>1, <3>2 DEF Instants
  <2>6. CASE Named(i)
    <3> DEFINE c == Sz(j)
               t == b.startDate
               y == e.startDate + Sz(i)
    <3>1. /\ e.startDate \in Int /\ e.endDate = e.startDate + Sz(i) - 1 /\ Sz(i) \in Nat /\ Sz(i) > 1
      BY <2>6, NamedEntry, FrameType
    <3>2. y % c = 0 /\ y \in Int /\ c > 0 /\ c \in Nat /\ t \in Int /\ t % c = 0
      BY <2>1, <2>5, <2>6, <3>1, DivideIn
    <3>3. t < y /\ e.startDate <= t
      BY <2>2, <2>5, <3>1 DEF Instants
    <3> HIDE DEF c, t, y
    <3>4. t + c <= y
      BY <3>2, <3>3, MultiplesApart
    <3>5. QED
      BY <2>3, <2>5, <3>1, <3>2, <3>3, <3>4 DEF c, t, y, Instants
  <2>7. CASE ~Named(i)
    <3>1. e.startDate = 0 /\ e.endDate = Newest + 2
      BY <2>7 DEF IsEntry, Entry, Named
    <3>2. QED
      BY <2>3, <3>1, HistoryDates DEF Instants
  <2>8. QED
    BY <2>6, <2>7
<1>3. QED
  BY <1>1, <1>2

(* Bars that only grow, and events that only come, leave every interval     *)
(* with as much to be calculated from, and as much calculated, as before.   *)
LEMMA DataGrows ==
  ASSUME \A b \in bars : \E c \in bars' : Key(c) = Key(b) /\ b.data \subseteq c.data
  PROVE  \A e : DataOf(e) \subseteq DataOf(e)'
BY DEF DataOf

LEMMA InputsGrow ==
  ASSUME \A b \in bars : \E c \in bars' : Key(c) = Key(b) /\ b.data \subseteq c.data,
         Stored \subseteq Stored'
  PROVE  \A i, e : Inputs(i, e) \subseteq Inputs(i, e)'
<1>1. SUFFICES ASSUME NEW i, NEW e, NEW x \in Inputs(i, e) PROVE x \in Inputs(i, e)'
  OBVIOUS
<1>2. CASE TrueDivide(i) = 0
  BY <1>1, <1>2 DEF Inputs, TrueDivide
<1>3. CASE TrueDivide(i) # 0
  <2>1. PICK b \in bars : /\ b.frame = TimeFrames[TrueDivide(i) + 1]
                          /\ b.startDate \in Instants(e) /\ x \in b.data
    BY <1>1, <1>3 DEF Inputs
  <2>2. PICK c \in bars' : Key(c) = Key(b) /\ b.data \subseteq c.data
    OBVIOUS
  <2>3. c.frame = b.frame /\ c.startDate = b.startDate
    BY <2>2 DEF Key, Entry
  <2>4. QED
    BY <1>3, <2>1, <2>2, <2>3 DEF Inputs
<1>4. QED
  BY <1>2, <1>3

LEMMA CalculatedGrows ==
  ASSUME \A e : DataOf(e) \subseteq DataOf(e)', run'.all = run.all, NEW i, NEW x, Calculated(i, x)
  PROVE  Calculated(i, x)'
<1>1. Excused(i, x)' <=> Excused(i, x)
  BY DEF Excused
<1>2. SlotOf(i, x)' = SlotOf(i, x)
  BY DEF SlotOf
<1>3. QED
  BY <1>1, <1>2 DEF Calculated

LEMMA DueSame == run'.all = run.all => Due' = Due
BY DEF Due, Overlooked
-----------------------------------------------------------------------------
(* The intervals of the range the call is at.                               *)
LEMMA CoverDates ==
  ASSUME NEW H \in SUBSET DOMAIN Chunks
  PROVE  From(H) \subseteq Oldest..Newest /\ From(H) \subseteq Nat
<1>1. From(H) \subseteq Oldest..Newest
  BY ChunkType DEF From, Cover
<1>2. QED
  BY <1>1, HistoryDates

LEMMA CallDates ==
  ASSUME StatsInv, run.at # "idle"
  PROVE  Cover(run.all) \subseteq Oldest..Newest /\ Cover(run.all) \subseteq Nat
<1>1. PICK H \in SUBSET processed : Cover(run.all) = From(H)
  BY DEF StatsInv, StatsCallInv
<1>2. H \subseteq DOMAIN Chunks
  BY ChunkType DEF StatsInv, StatsTypeOK
<1>3. QED
  BY <1>1, <1>2, CoverDates

LEMMA StateKinds ==
  /\ \A s \in BatchStates : s \in RangeStates /\ s # "idle" /\ s # "range" /\ s # "frame"
  /\ \A s \in RangeStates : s # "idle" /\ s # "frame"
  /\ "range" \in RangeStates /\ "frame" \notin RangeStates /\ "idle" \notin RangeStates
BY DEF BatchStates, RangeStates

(* The range the call is at was given to it and is left in this frame.      *)
LEMMA PendingIs ==
  ASSUME StatsInv, run.at \in RangeStates, run.ranges # <<>>
  PROVE  /\ IsRange(run.ranges[1]) /\ run.ranges[1].startDate \in Nat /\ run.ranges[1].endDate \in Nat
         /\ Instants(run.ranges[1]) \subseteq Left
         /\ Instants(run.ranges[1]) \subseteq Cover(run.all)
         /\ Left \subseteq Oldest..Newest
<1>1. /\ run.ranges \in Seq(AnyRange) /\ \A k \in DOMAIN run.ranges : IsRange(run.ranges[k])
      /\ Left \subseteq Cover(run.all)
  BY DEF StatsInv, FrameInv
<1>2. 1 \in DOMAIN run.ranges
  BY <1>1
<1>3. IsRange(run.ranges[1]) /\ Instants(run.ranges[1]) \subseteq Left
  BY <1>1, <1>2 DEF Left, Cover, Range
<1>4. Left \subseteq Oldest..Newest
  BY <1>1, CallDates, StateKinds
<1>5. run.ranges[1].startDate \in Instants(run.ranges[1]) /\ run.ranges[1].endDate \in Instants(run.ranges[1])
  BY <1>3 DEF IsRange, AnyRange, Instants
<1>6. run.ranges[1].startDate \in Nat /\ run.ranges[1].endDate \in Nat
  <2>1. run.ranges[1].startDate \in Oldest..Newest /\ run.ranges[1].endDate \in Oldest..Newest
    BY <1>3, <1>4, <1>5
  <2>2. QED
    BY <2>1, HistoryDates
<1>7. QED
  BY <1>1, <1>3, <1>4, <1>6

(* The frame All has the one interval.                                      *)
LEMMA ListAll ==
  ASSUME NEW i \in DOMAIN TimeFrames, ~Named(i), NEW p
  PROVE  /\ Intervals(p, TimeFrames[i]) = <<Entry(TimeFrames[i], 0)>>
         /\ IsEntry(i, Entry(TimeFrames[i], 0))
<1>1. Intervals(p, TimeFrames[i]) = <<Entry(TimeFrames[i], 0)>>
  BY DEF Intervals, GetTimeFrameIntervals, Named
<1>2. Entry(TimeFrames[i], 0).startDate = 0
  BY DEF Entry
<1>3. QED
  BY <1>1, <1>2 DEF IsEntry

(* Each of them is an interval of the frame, and none is there twice.       *)
LEMMA ListEntries ==
  ASSUME ~NewestFirst, NEW i \in DOMAIN TimeFrames, NEW p, IsRange(p), p.startDate \in Nat
  PROVE  LET l == Intervals(p, TimeFrames[i])
         IN /\ Len(l) \in Nat /\ Len(l) >= 1 /\ DOMAIN l = 1..Len(l)
            /\ l \in Seq(Range(l))
            /\ \A k \in 1..Len(l) : IsEntry(i, l[k]) /\ l[k] = Key(l[k])
            /\ \A j, k \in 1..Len(l) : l[j] = l[k] => j = k
<1> DEFINE l == Intervals(p, TimeFrames[i])
<1>1. CASE ~Named(i)
  <2>1. l = <<Entry(TimeFrames[i], 0)>> /\ IsEntry(i, Entry(TimeFrames[i], 0))
    BY <1>1, ListAll
  <2>2. Entry(TimeFrames[i], 0) = Key(Entry(TimeFrames[i], 0))
    BY DEF Key, Entry
  <2> HIDE DEF l
  <2>3. Len(l) = 1 /\ DOMAIN l = 1..1 /\ l[1] = Entry(TimeFrames[i], 0)
    BY <2>1
  <2>4. l \in Seq(Range(l))
    BY <2>1, <2>3 DEF Range
  <2>5. QED
    BY <2>1, <2>2, <2>3, <2>4 DEF l
<1>2. CASE Named(i)
  <2>1. PICK c \in Nat, s \in Nat :
              /\ c >= 1 /\ Len(l) = c + 2 /\ DOMAIN l = 1..(c + 2)
              /\ s % Sz(i) = 0
              /\ \A k \in 1..(c + 2) : l[k] = Entry(TimeFrames[i], s + (k - 2) * Sz(i))
    BY <1>2, ListIs
  <2>2. Sz(i) \in Nat /\ Sz(i) > 1
    BY <1>2, FrameType
  <2>3. ASSUME NEW k \in 1..(c + 2)
        PROVE  IsEntry(i, l[k]) /\ l[k] = Key(l[k]) /\ l[k].startDate = s + (k - 2) * Sz(i)
    <3> DEFINE d == Sz(i)
               m == k - 2
               t == s + m * d
    <3>1. d \in Nat /\ d > 0 /\ m \in Int /\ s \in Int /\ s % d = 0
      BY <2>1, <2>2
    <3>2. t \in Int /\ t % d = 0
      <4> HIDE DEF d, m
      <4>1. t \in Int
        BY <3>1
      <4>2. t % d = 0
        BY <3>1, MultipleNext
      <4>3. QED
        BY <4>1, <4>2
    <3>3. l[k] = Entry(TimeFrames[i], t)
      BY <2>1
    <3> HIDE DEF t, l
    <3>4. IsEntry(i, Entry(TimeFrames[i], t)) /\ Entry(TimeFrames[i], t).startDate = t
          /\ Key(Entry(TimeFrames[i], t)) = Entry(TimeFrames[i], t)
      BY <1>2, <3>2, EntryIs DEF d
    <3>5. QED
      BY <3>3, <3>4 DEF t
  <2>4. ASSUME NEW j \in 1..(c + 2), NEW k \in 1..(c + 2), l[j] = l[k] PROVE j = k
    <3> DEFINE d == Sz(i)
               a == j - 2
               b == k - 2
    <3>1. s + a * d = s + b * d
      BY <2>3, <2>4
    <3>2. a \in Int /\ b \in Int /\ d \in Nat /\ d > 0
      BY <2>1, <2>2
    <3> HIDE DEF a, b, d
    <3>3. a * d = d * a /\ b * d = d * b /\ d * a \in Int /\ d * b \in Int
      BY <3>2
    <3>4. d * a = d * b
      BY <3>1, <3>3
    <3>5. a = b
      BY <3>2, <3>3, <3>4, ProductUnique
    <3>6. QED
      BY <2>1, <3>5 DEF a, b
  <2>5. l \in Seq(Range(l))
    <3>1. l = [k \in 1..(c + 2) |-> Entry(TimeFrames[i], s + (k - 2) * Sz(i))]
      <4>1. l = [k \in 1..(c + 2) |-> l[k]]
        <5>1. l = [k \in DOMAIN l |-> l[k]]
          BY <1>2 DEF Intervals, Named
        <5>2. QED
          BY <2>1, <5>1
      <4>2. QED
        BY <2>1, <4>1
    <3> HIDE DEF l
    <3>2. l = [k \in 1..(c + 2) |-> l[k]] /\ c + 2 \in Nat
      BY <2>1, <3>1
    <3>3. \A k \in 1..(c + 2) : l[k] \in Range(l)
      BY <2>1 DEF Range
    <3>4. QED
      BY <3>2, <3>3
  <2>6. QED
    BY <2>1, <2>3, <2>4, <2>5
<1>3. QED
  BY <1>1, <1>2

-----------------------------------------------------------------------------
(* The invariant holds at the start.                                        *)
LEMMA StatsInvInit == StatsInit => StatsInv
<1> SUFFICES ASSUME StatsInit PROVE StatsInv
  OBVIOUS
<1>1. run.at = "idle" /\ bars = {} /\ recorded = {} /\ processed = {}
  BY DEF StatsInit, Idle
<1>2. low \in DOMAIN Chunks /\ high \in low..Len(Chunks)
  BY ChunkType DEF StatsInit
<1>3. StatsTypeOK
  BY <1>1, <1>2 DEF StatsTypeOK
<1>4. IsFiniteSet(recorded)
  BY <1>1, FS_EmptySet
<1>5. RecordedInv
  BY <1>1, <1>4 DEF RecordedInv, Within
<1>6. BarsInv
  BY <1>1 DEF BarsInv
<1>7. StatsCallInv /\ FrameInv /\ BatchInv /\ BufferInv
  BY <1>1 DEF StatsCallInv, FrameInv, BatchInv, BufferInv, RangeStates, BatchStates
<1>8. QED
  BY <1>3, <1>5, <1>6, <1>7 DEF StatsInv

(* More of the history.                                                     *)
LEMMA HistoryGrows ==
  ASSUME StatsInv, low' \in DOMAIN Chunks, high' \in low'..Len(Chunks),
         processed \subseteq processed', processed' \subseteq low'..high',
         UNCHANGED <<bars, recorded, run>>
  PROVE  StatsInv'
<1> USE DEF StatsInv
<1>1. Stored \subseteq Stored'
  BY DEF Stored, Cover
<1>2. From(processed) \subseteq From(processed')
  BY DEF From, Cover
<1>3. \A i, e : Inputs(i, e) \subseteq Inputs(i, e)'
  <2>1. \A b \in bars : \E c \in bars' : Key(c) = Key(b) /\ b.data \subseteq c.data
    OBVIOUS
  <2>2. QED
    BY <1>1, <2>1, InputsGrow
<1>4. StatsTypeOK'
  <2>1. \A b \in bars : b.frame \in Frames /\ b.data # {} /\ b.data \subseteq Instants(b) \cap Stored
    BY DEF StatsTypeOK
  <2>2. \A b \in bars' : b.frame \in Frames /\ b.data # {} /\ b.data \subseteq Instants(b) \cap Stored'
    BY <1>1, <2>1
  <2>3. QED
    BY <2>2 DEF StatsTypeOK
<1>5. BarsInv'
  BY <1>3 DEF BarsInv
<1>6. \A e : DataOf(e)' = DataOf(e)
  BY DEF DataOf
<1>7. RecordedInv'
  BY <1>2, <1>6 DEF RecordedInv, Within
<1>8. /\ \A i, x : Calculated(i, x)' <=> Calculated(i, x)
      /\ Due' = Due /\ Left' = Left /\ List' = List /\ Taken' = Taken /\ SavedUpTo' = SavedUpTo
      /\ \A k : Place(k)' = Place(k)
      /\ \A i, x : Excused(i, x)' <=> Excused(i, x)
  <2>1. Due' = Due /\ Left' = Left
    BY DEF Due, Left, Overlooked
  <2>2. List' = List
    BY DEF List
  <2>3. Taken' = Taken
    BY <2>2 DEF Taken
  <2>4. SavedUpTo' = SavedUpTo /\ \A k : Place(k)' = Place(k)
    BY <2>3 DEF SavedUpTo, Place
  <2>5. \A i, x : Excused(i, x)' <=> Excused(i, x)
    BY DEF Excused
  <2>6. \A i, x : Calculated(i, x)' <=> Calculated(i, x)
    BY <1>6, <2>5 DEF Calculated, SlotOf
  <2>7. QED
    BY <2>1, <2>2, <2>3, <2>4, <2>5, <2>6
<1>9. StatsCallInv'
  <2>1. Within(Cover(run.all))' <=> Within(Cover(run.all))
    BY DEF Within
  <2>2. QED
    BY <1>8, <2>1 DEF StatsCallInv
<1>10. FrameInv'
  BY <1>8 DEF FrameInv
<1>11. BatchInv'
  BY <1>8 DEF BatchInv
<1>12. BufferInv'
  BY <1>3, <1>6, <1>8 DEF BufferInv
<1>13. QED
  BY <1>4, <1>5, <1>7, <1>9, <1>10, <1>11, <1>12

(* Nothing happens, or more of the history is fetched or handled.           *)
LEMMA StatsStutter == StatsInv /\ UNCHANGED statsVars => StatsInv'
<1> SUFFICES ASSUME StatsInv, UNCHANGED statsVars PROVE StatsInv'
  OBVIOUS
<1>1. UNCHANGED <<low, high, processed, bars, recorded, run>>
  BY DEF statsVars
<1>2. QED
  BY <1>1, HistoryGrows DEF StatsInv, StatsTypeOK

LEMMA FetchHistoryKeeps == StatsInv /\ FetchHistory => StatsInv'
<1> SUFFICES ASSUME StatsInv, FetchHistory PROVE StatsInv'
  OBVIOUS
<1>1. low \in DOMAIN Chunks /\ high \in low..Len(Chunks) /\ processed \subseteq low..high
  BY DEF StatsInv, StatsTypeOK
<1>2. DOMAIN Chunks = 1..Len(Chunks) /\ Len(Chunks) \in Nat
  BY ChunkType
<1>3. low' \in DOMAIN Chunks /\ high' \in low'..Len(Chunks) /\ low..high \subseteq low'..high'
  BY <1>1, <1>2 DEF FetchHistory
<1>4. UNCHANGED <<processed, bars, recorded, run>>
  BY DEF FetchHistory
<1>5. QED
  BY <1>1, <1>3, <1>4, HistoryGrows

LEMMA HandleChunkKeeps == StatsInv /\ HandleChunk => StatsInv'
<1> SUFFICES ASSUME StatsInv, HandleChunk PROVE StatsInv'
  OBVIOUS
<1>1. low \in DOMAIN Chunks /\ high \in low..Len(Chunks) /\ processed \subseteq low..high
  BY DEF StatsInv, StatsTypeOK
<1>2. low' = low /\ high' = high /\ processed \subseteq processed' /\ processed' \subseteq low..high
      /\ UNCHANGED <<bars, recorded, run>>
  BY <1>1 DEF HandleChunk
<1>3. QED
  BY <1>1, <1>2, HistoryGrows

(* Steps of process that change nothing stored: what has to be shown is     *)
(* what the call knows after them.                                          *)
LEMMA StoredSame ==
  ASSUME StatsInv, UNCHANGED <<history, bars, recorded>>,
         run'.at \in {"idle", "frame", "range", "intervals", "entries", "states"},
         run'.at \in {"entries", "states"} => Len(run'.buffer) \in 1..BatchSize
  PROVE  /\ StatsTypeOK' /\ BarsInv' /\ RecordedInv'
         /\ \A e : DataOf(e)' = DataOf(e)
         /\ \A i, e : Inputs(i, e)' = Inputs(i, e)
<1> USE DEF history
<1>1. \A e : DataOf(e)' = DataOf(e)
  BY DEF DataOf
<1>2. Stored' = Stored
  BY DEF Stored
<1>3. \A i, e : Inputs(i, e)' = Inputs(i, e)
  BY <1>2 DEF Inputs, TrueDivide
<1>4. StatsTypeOK'
  BY <1>2 DEF StatsInv, StatsTypeOK
<1>5. BarsInv'
  BY <1>3 DEF StatsInv, BarsInv
<1>6. RecordedInv'
  BY <1>1 DEF StatsInv, RecordedInv, Within
<1>7. QED
  BY <1>1, <1>3, <1>4, <1>5, <1>6

(* A call that ends, is rejected or crashes: what is stored stays true.     *)
LEMMA IdleKeeps ==
  ASSUME StatsInv, run' = Idle, UNCHANGED <<history, bars, recorded>>
  PROVE  StatsInv'
<1>1. run'.at = "idle"
  BY DEF Idle
<1>2. StatsTypeOK' /\ BarsInv' /\ RecordedInv'
  BY <1>1, StoredSame
<1>3. StatsCallInv' /\ FrameInv' /\ BatchInv' /\ BufferInv'
  BY <1>1 DEF StatsCallInv, FrameInv, BatchInv, BufferInv, RangeStates, BatchStates
<1>4. QED
  BY <1>2, <1>3 DEF StatsInv

(* A call of process: it is given what was handled, from StartDate on.      *)
LEMMA ProcessKeeps == StatsInv /\ ProcessStats => StatsInv'
<1> SUFFICES ASSUME StatsInv, ProcessStats PROVE StatsInv'
  OBVIOUS
<1> DEFINE T == Cover({Chunks[i] : i \in processed})
           clip == DateRange(0, StartDate - 1)
<1>1. /\ low \in DOMAIN Chunks /\ high \in low..Len(Chunks) /\ processed \subseteq low..high
      /\ processed # {} /\ UNCHANGED <<history, bars, recorded>>
  BY DEF StatsInv, StatsTypeOK, ProcessStats
<1>2. /\ run'.at = "frame" /\ run'.i = 1 /\ run'.minDate = MinDate
      /\ run'.all = ClipDateRanges(Processed, clip)
  BY DEF ProcessStats
<1>3. MinDate \in {NoDate, Oldest}
  BY <1>1, MinDateIsOldest
<1>4. processed \subseteq DOMAIN Chunks
  BY <1>1, ChunkType
<1>5. T \in SUBSET (Oldest..Newest)
  BY <1>4, ChunkType DEF Cover
<1>6. /\ Cover(Processed) = T /\ IsFiniteSet(Processed)
      /\ \A r \in Processed : IsRange(r) /\ r.startDate \in Nat /\ r.endDate \in Nat
  BY <1>5, RunsExact, HistoryDates DEF Processed
<1>7. /\ Cover(run'.all) = From(processed) /\ IsFiniteSet(run'.all)
      /\ \A r \in run'.all : IsRange(r)
  <2>1. IsFiniteSet(run'.all)
    BY <1>2, <1>6, ClipFinite
  <2>2. CASE StartDate = 0
    <3>1. \A r \in Processed : ClipDateRange(r, clip) = {r}
      BY <1>6, <2>2 DEF ClipDateRange, InMiddle, OnLeft, OnRight, OnAll, DateRange
    <3>2. run'.all = Processed
      BY <1>2, <3>1 DEF ClipDateRanges
    <3>3. From(processed) = T
      BY <1>5, <2>2, HistoryDates DEF From
    <3>4. QED
      BY <1>6, <2>1, <3>2, <3>3
  <2>3. CASE StartDate # 0
    <3>1. IsRange(clip) /\ Instants(clip) = 0..(StartDate - 1)
      BY <2>3, HistoryDates DEF IsRange, AnyRange, DateRange, Instants
    <3>2. Cover(run'.all) = T \ Instants(clip) /\ \A r \in run'.all : IsRange(r)
      BY <1>2, <1>6, <3>1, ClipManyExact
    <3>3. T \ (0..(StartDate - 1)) = From(processed)
      BY <1>5, HistoryDates DEF From
    <3>4. QED
      BY <2>1, <3>1, <3>2, <3>3
  <2>4. QED
    BY <2>2, <2>3
<1>8. StatsTypeOK' /\ BarsInv' /\ RecordedInv'
  BY <1>1, <1>2, StoredSame
<1>9. StatsCallInv'
  <2>1. Within(Cover(run.all))'
    BY <1>1, <1>7, <1>8 DEF RecordedInv, Within, history
  <2>2. Cover(run'.all) = From(processed') /\ processed' \in SUBSET processed'
    BY <1>1, <1>7 DEF history
  <2>3. run'.i \in 1..(Len(TimeFrames) + 1) /\ 1..(run'.i - 1) = {}
    BY <1>2, FrameType
  <2>4. QED
    BY <1>2, <1>3, <1>7, <2>1, <2>2, <2>3 DEF StatsCallInv
<1>10. FrameInv' /\ BatchInv' /\ BufferInv'
  BY <1>2 DEF FrameInv, BatchInv, BufferInv, RangeStates, BatchStates
<1>11. QED
  BY <1>8, <1>9, <1>10 DEF StatsInv

-----------------------------------------------------------------------------
(* The intervals of one frame that are recorded, as ranges.                 *)
KnownRanges(f) == {DateRange(e.startDate, e.endDate) : e \in {d \in recorded : d.frame = f}}

(* An interval recorded of a frame is an interval of it: All has none.      *)
LEMMA RecordedIs ==
  ASSUME RecordedInv, NEW e \in recorded, NEW i \in DOMAIN TimeFrames, e.frame = TimeFrames[i]
  PROVE  Named(i) /\ IsEntry(i, e) /\ e.startDate \in Nat
<1>1. PICK j \in DOMAIN TimeFrames : Named(j) /\ IsEntry(j, e)
  BY DEF RecordedInv
<1>2. e.frame = TimeFrames[j]
  BY <1>1, NamedEntry
<1>3. j = i
  BY <1>2, FrameType
<1>4. QED
  BY <1>1, <1>3 DEF RecordedInv

(* They are finitely many ranges, of instants in a recorded interval.       *)
LEMMA KnownIs ==
  ASSUME RecordedInv, NEW i \in DOMAIN TimeFrames
  PROVE  /\ IsFiniteSet(KnownRanges(TimeFrames[i])) /\ \A r \in KnownRanges(TimeFrames[i]) : IsRange(r)
         /\ \A x \in Cover(KnownRanges(TimeFrames[i])) :
              \E e \in recorded : e.frame = TimeFrames[i] /\ x \in Instants(e)
<1> DEFINE R == {d \in recorded : d.frame = TimeFrames[i]}
           K == KnownRanges(TimeFrames[i])
           f == [e \in R |-> DateRange(e.startDate, e.endDate)]
<1>1. IsFiniteSet(R)
  <2>1. R \in SUBSET recorded /\ IsFiniteSet(recorded)
    BY DEF RecordedInv
  <2>2. QED
    BY <2>1, FS_Subset
<1>2. f \in Surjection(R, K)
  BY DEF Surjection, KnownRanges
<1>3. IsFiniteSet(K)
  <2> HIDE DEF R, K, f
  <2>1. QED
    BY <1>1, <1>2, FS_Surjection
<1>4. ASSUME NEW e \in R
      PROVE  IsRange(DateRange(e.startDate, e.endDate)) /\ Instants(DateRange(e.startDate, e.endDate)) = Instants(e)
  <2>1. Named(i) /\ IsEntry(i, e)
    BY RecordedIs
  <2>2. e.startDate \in Int /\ e.endDate \in Int /\ e.startDate < e.endDate
    BY <2>1, NamedEntry
  <2>3. QED
    BY <2>2 DEF DateRange, IsRange, AnyRange, Instants
<1>5. \A r \in K : \E e \in R : r = DateRange(e.startDate, e.endDate)
  BY DEF KnownRanges
<1>6. \A r \in K : IsRange(r)
  BY <1>4, <1>5
<1>7. \A x \in Cover(K) : \E e \in R : x \in Instants(e)
  BY <1>4, <1>5 DEF Cover
<1>8. QED
  BY <1>3, <1>6, <1>7

(* What is not left of the ranges of a frame is in intervals recorded of it *)
(* before: these have all its events, or the call may leave them to later.  *)
LEMMA KnownCalculated ==
  ASSUME StatsInv, run.at # "idle", NEW i \in DOMAIN TimeFrames, Named(i), NEW x \in Due,
         x \in Cover(KnownRanges(TimeFrames[i])),
         x + 1 \in Cover(run.all) => x + 1 \in Cover(KnownRanges(TimeFrames[i]))
  PROVE  Calculated(i, x)
<1>1. RecordedInv
  BY DEF StatsInv
<1>2. PICK e \in recorded : e.frame = TimeFrames[i] /\ x \in Instants(e)
  BY <1>1, KnownIs
<1>3. IsEntry(i, e) /\ e.startDate \in Nat
  BY <1>1, <1>2, RecordedIs
<1>4. x \in Nat /\ x \in Event /\ x \notin Overlooked
  BY CallDates DEF Due
<1>5. e = SlotOf(i, x)
  BY <1>2, <1>3, <1>4, SlotIs
<1>6. CASE x # e.endDate
  BY <1>1, <1>2, <1>4, <1>5, <1>6 DEF RecordedInv, Calculated
<1>7. CASE x = e.endDate /\ x + 1 \notin Cover(run.all)
  BY <1>3, <1>7, SharesNoNext DEF Calculated, Excused
<1>8. CASE x = e.endDate /\ x + 1 \in Cover(run.all)
  <2>1. PICK h \in recorded : h.frame = TimeFrames[i] /\ x + 1 \in Instants(h)
    BY <1>1, <1>8, KnownIs
  <2>2. IsEntry(i, h)
    BY <1>1, <2>1, RecordedIs
  <2>3. h = SlotOf(i, x + 1)
    <3>1. x + 1 \in Nat
      BY <1>4
    <3>2. QED
      BY <2>1, <2>2, <3>1, SlotIs
  <2>4. h = GetNextInterval(e)
    BY <1>3, <1>8, <2>3, NextIs
  <2>5. x \in DataOf(e)
    BY <1>1, <1>4, <1>8, <2>4 DEF RecordedInv
  <2>6. QED
    BY <1>5, <2>5 DEF Calculated
<1>9. QED
  BY <1>6, <1>7, <1>8

(* The next frame starts with every event of the smaller ones calculated.   *)
LEMMA StartFrameKeeps == StatsInv /\ StartFrame => StatsInv'
<1> SUFFICES ASSUME StatsInv, StartFrame PROVE StatsInv'
  OBVIOUS
<1>1. run.at = "frame" /\ UNCHANGED <<history, bars, recorded>>
  BY DEF StartFrame
<1>2. CASE run.i > Len(TimeFrames)
  <2>1. run' = Idle
    BY <1>2 DEF StartFrame
  <2>2. QED
    BY <1>1, <2>1, IdleKeeps
<1>3. CASE ~(run.i > Len(TimeFrames))
  <2> DEFINE i == run.i
             K == KnownRanges(TimeFrames[i])
             known == SortedRanges(K)
             R == ClipAll(run.all, known)
  <2>1. /\ run.minDate \in {NoDate, Oldest}
        /\ IsFiniteSet(run.all) /\ \A r \in run.all : IsRange(r)
        /\ \E H \in SUBSET processed : Cover(run.all) = From(H)
        /\ Within(Cover(run.all))
        /\ i \in 1..(Len(TimeFrames) + 1)
        /\ \A j \in 1..(i - 1) : Named(j) => \A x \in Due : Calculated(j, x)
    BY <1>1 DEF StatsInv, StatsCallInv
  <2>2. i \in DOMAIN TimeFrames
    BY <1>3, <2>1, FrameType
  <2>3. /\ run'.at = "range" /\ run'.i = i /\ run'.minDate = run.minDate
        /\ run'.all = run.all /\ run'.ranges = SortedRanges(R)
    BY <1>3 DEF StartFrame, KnownRanges, ClipDateRangesFromIterable
  <2>4. RecordedInv
    BY DEF StatsInv
  <2>5. IsFiniteSet(K) /\ \A r \in K : IsRange(r)
    BY <2>2, <2>4, KnownIs
  <2> HIDE DEF K
  <2>6. /\ Len(known) \in Nat /\ \A k \in 1..Len(known) : known[k] \in K
        /\ \A r \in K : \E k \in 1..Len(known) : known[k] = r
    BY <2>5, SortedIs
  <2> HIDE DEF known
  <2>7. /\ IsFiniteSet(R) /\ \A r \in R : IsRange(r)
        /\ Cover(R) = Cover(run.all) \ Cover({known[k] : k \in 1..Len(known)})
    <3>1. \A k \in 1..Len(known) : IsRange(known[k])
      BY <2>5, <2>6
    <3>2. QED
      BY <2>1, <2>6, <3>1, ClipIterableExact
  <2>8. Cover({known[k] : k \in 1..Len(known)}) = Cover(K)
    <3>1. {known[k] : k \in 1..Len(known)} = K
      BY <2>6
    <3>2. QED
      BY <3>1
  <2> HIDE DEF R
  <2>9. /\ run'.ranges \in Seq(AnyRange) /\ \A k \in DOMAIN run'.ranges : IsRange(run'.ranges[k])
        /\ Left' = Cover(R)
    <3> DEFINE s == SortedRanges(R)
    <3>1. /\ s \in Seq(R) /\ Len(s) \in Nat /\ \A k \in 1..Len(s) : s[k] \in R
          /\ \A r \in R : \E k \in 1..Len(s) : s[k] = r
      BY <2>7, SortedIs
    <3> HIDE DEF s
    <3>2. DOMAIN s = 1..Len(s)
      BY <3>1
    <3>3. Range(s) = R
      BY <3>1, <3>2 DEF Range
    <3>4. \A k \in 1..Len(s) : s[k] \in AnyRange /\ IsRange(s[k])
      BY <2>7, <3>1 DEF IsRange
    <3>5. s \in Seq(AnyRange)
      <4>1. s = [k \in 1..Len(s) |-> s[k]]
        BY <3>1
      <4>2. QED
        BY <3>1, <3>4, <4>1
    <3>6. run'.ranges = s
      BY <2>3 DEF s
    <3>7. QED
      BY <3>2, <3>3, <3>4, <3>5, <3>6 DEF Left
  <2>10. StatsTypeOK' /\ BarsInv' /\ RecordedInv' /\ \A e : DataOf(e)' = DataOf(e)
    BY <1>1, <2>3, StoredSame
  <2>11. /\ \A j, x : Calculated(j, x) => Calculated(j, x)'
         /\ Due' = Due
    BY <2>3, <2>10, CalculatedGrows, DueSame
  <2>12. StatsCallInv'
    <3>1. Within(Cover(run.all))'
      BY <1>1, <2>1, <2>3 DEF Within
    <3>2. processed' = processed
      BY <1>1 DEF history
    <3>3. QED
      BY <2>1, <2>3, <2>11, <3>1, <3>2 DEF StatsCallInv
  <2>13. FrameInv'
    <3>1. ASSUME Named(i), NEW x \in Due, x \notin Left', x + 1 \notin Left' PROVE Calculated(i, x)
      <4>1. x \in Cover(run.all)
        BY DEF Due
      <4>2. x \in Cover(K) /\ (x + 1 \in Cover(run.all) => x + 1 \in Cover(K))
        BY <2>7, <2>8, <2>9, <3>1, <4>1
      <4>3. QED
        BY <1>1, <2>2, <3>1, <4>2, KnownCalculated DEF K
    <3>2. Left' \subseteq Cover(run'.all)
      BY <2>3, <2>7, <2>9
    <3>3. QED
      BY <2>2, <2>3, <2>9, <2>11, <3>1, <3>2 DEF FrameInv
  <2>14. BatchInv' /\ BufferInv'
    BY <2>3 DEF BatchInv, BufferInv, BatchStates
  <2>15. QED
    BY <2>10, <2>12, <2>13, <2>14 DEF StatsInv
<1>4. QED
  BY <1>2, <1>3

(* A range starts with the intervals around it.                             *)
LEMMA StartRangeKeeps == ~NewestFirst /\ StatsInv /\ StartRange => StatsInv'
<1> SUFFICES ASSUME ~NewestFirst, StatsInv, StartRange PROVE StatsInv'
  OBVIOUS
<1>1. run.at = "range" /\ UNCHANGED <<history, bars, recorded>>
  BY DEF StartRange
<1>2. run.at # "idle" /\ run.at \in RangeStates
  BY <1>1 DEF RangeStates
<1>3. /\ run.minDate \in {NoDate, Oldest}
      /\ IsFiniteSet(run.all) /\ \A r \in run.all : IsRange(r)
      /\ \E H \in SUBSET processed : Cover(run.all) = From(H)
      /\ Within(Cover(run.all))
      /\ \A j \in 1..(run.i - 1) : Named(j) => \A x \in Due : Calculated(j, x)
  BY <1>2 DEF StatsInv, StatsCallInv
<1>4. /\ run.i \in DOMAIN TimeFrames
      /\ run.ranges \in Seq(AnyRange) /\ \A k \in DOMAIN run.ranges : IsRange(run.ranges[k])
      /\ Left \subseteq Cover(run.all)
      /\ Named(run.i) => \A x \in Due : x \notin Left /\ x + 1 \notin Left => Calculated(run.i, x)
  BY <1>2 DEF StatsInv, FrameInv
<1>5. /\ run.i \in Nat /\ run.i >= 1 /\ run.i <= Len(TimeFrames) /\ Len(TimeFrames) \in Nat
  BY <1>4, FrameType
<1>6. CASE run.ranges = <<>>
  <2>1. /\ run'.at = "frame" /\ run'.i = run.i + 1 /\ run'.minDate = run.minDate /\ run'.all = run.all
    BY <1>6 DEF StartRange
  <2>2. StatsTypeOK' /\ BarsInv' /\ RecordedInv' /\ \A e : DataOf(e)' = DataOf(e)
    BY <1>1, <2>1, StoredSame
  <2>3. \A j, x : Calculated(j, x) => Calculated(j, x)'
    BY <2>1, <2>2, CalculatedGrows
  <2>4. Due' = Due
    BY <2>1, DueSame
  <2>5. Left = {}
    BY <1>6 DEF Left, Range, Cover
  <2>6. Named(run.i) => \A x \in Due : Calculated(run.i, x)
    BY <1>4, <2>5
  <2>7. \A j \in 1..run.i : Named(j) => \A x \in Due : Calculated(j, x)
    BY <1>3, <1>5, <2>6
  <2>8. StatsCallInv'
    <3>1. Within(Cover(run.all))'
      BY <1>1, <1>3, <2>1 DEF Within
    <3>2. processed' = processed
      BY <1>1 DEF history
    <3>3. run'.i \in 1..(Len(TimeFrames) + 1) /\ run'.i - 1 = run.i
      BY <1>5, <2>1
    <3>4. QED
      BY <1>3, <2>1, <2>3, <2>4, <2>7, <3>1, <3>2, <3>3 DEF StatsCallInv
  <2>9. FrameInv' /\ BatchInv' /\ BufferInv'
    BY <2>1 DEF FrameInv, BatchInv, BufferInv, RangeStates, BatchStates
  <2>10. QED
    BY <2>2, <2>8, <2>9 DEF StatsInv
<1>7. CASE run.ranges # <<>>
  <2>1. run' = [at |-> "intervals", i |-> run.i, minDate |-> run.minDate, all |-> run.all,
                ranges |-> run.ranges, todo |-> List, buffer |-> <<>>]
    BY <1>7 DEF StartRange, List
  <2>2. /\ run'.at = "intervals" /\ run'.i = run.i /\ run'.minDate = run.minDate /\ run'.all = run.all
        /\ run'.ranges = run.ranges /\ run'.todo = List /\ run'.buffer = <<>>
    BY <2>1
  <2>3. StatsTypeOK' /\ BarsInv' /\ RecordedInv' /\ \A e : DataOf(e)' = DataOf(e)
    BY <1>1, <2>2, StoredSame
  <2>4. \A j, x : Calculated(j, x) => Calculated(j, x)'
    BY <2>2, <2>3, CalculatedGrows
  <2>5. Due' = Due /\ Left' = Left /\ List' = List
    BY <2>2, DueSame DEF Left, List
  <2>6. StatsCallInv'
    <3>1. Within(Cover(run.all))'
      BY <1>1, <1>3, <2>2 DEF Within
    <3>2. processed' = processed
      BY <1>1 DEF history
    <3>3. run'.i \in 1..(Len(TimeFrames) + 1)
      BY <1>5, <2>2
    <3>4. QED
      BY <1>3, <2>2, <2>4, <2>5, <3>1, <3>2, <3>3 DEF StatsCallInv
  <2>7. FrameInv'
    BY <1>4, <2>2, <2>4, <2>5 DEF FrameInv
  <2>8. Len(List) \in Nat /\ Len(List) >= 1 /\ DOMAIN List = 1..Len(List) /\ List \in Seq(Range(List))
    <3>1. IsRange(run.ranges[1]) /\ run.ranges[1].startDate \in Nat
      BY <1>2, <1>7, PendingIs
    <3>2. QED
      BY <1>4, <3>1, ListEntries DEF List
  <2>9. Taken' = 0 /\ SavedUpTo' = 0 /\ Len(run'.buffer) = 0
    <3>1. Taken' = Len(List) - Len(List)
      BY <2>2, <2>5 DEF Taken
    <3>2. Taken' = 0 /\ Len(run'.buffer) = 0
      BY <2>2, <2>8, <3>1
    <3>3. SavedUpTo' = Taken' - Len(run'.buffer)
      BY <2>2 DEF SavedUpTo
    <3>4. QED
      BY <3>2, <3>3
  <2>10. BatchInv'
    <3>1. run'.todo # <<>>
      BY <2>2, <2>8
    <3>2. \A k \in 1..Len(run'.todo) : run'.todo[k] = List'[Taken' + k]
      BY <2>2, <2>5, <2>8, <2>9
    <3>3. run'.buffer \in Seq(BarType)
      BY <2>2
    <3>4. 1..Len(run'.buffer) = {} /\ 1..SavedUpTo' = {} /\ Len(run'.buffer) < BatchSize /\ Len(run'.buffer) <= Taken'
      BY <2>9, BatchSizeAssumption
    <3>5. run'.todo \in Seq(Range(List')) /\ Len(run'.todo) <= Len(List')
      BY <2>2, <2>5, <2>8
    <3>6. run' = [at |-> run'.at, i |-> run'.i, minDate |-> run'.minDate, all |-> run'.all,
              ranges |-> run'.ranges, todo |-> run'.todo, buffer |-> run'.buffer]
      BY <2>1
    <3>7. QED
      BY <1>7, <2>2, <3>1, <3>2, <3>3, <3>4, <3>5, <3>6 DEF BatchInv
  <2>11. BufferInv'
    <3>1. 1..Len(run'.buffer) = {}
      BY <2>9
    <3>2. QED
      BY <3>1 DEF BufferInv
  <2>12. QED
    BY <2>3, <2>6, <2>7, <2>10, <2>11 DEF StatsInv
<1>8. QED
  BY <1>6, <1>7

-----------------------------------------------------------------------------
(* What is known of the intervals while the call goes through them.         *)
LEMMA BatchIs ==
  ASSUME ~NewestFirst, StatsInv, run.at \in BatchStates
  PROVE  /\ run.i \in DOMAIN TimeFrames /\ run.at # "idle" /\ run.at \in RangeStates
         /\ Len(List) \in Nat /\ Len(List) >= 1 /\ DOMAIN List = 1..Len(List)
         /\ \A k \in 1..Len(List) : IsEntry(run.i, List[k]) /\ List[k] = Key(List[k])
         /\ \A j, k \in 1..Len(List) : List[j] = List[k] => j = k
         /\ run.todo \in Seq(Range(List)) /\ Len(run.todo) \in Nat
         /\ run.buffer \in Seq(BarType) /\ Len(run.buffer) \in Nat
         /\ Taken \in 0..Len(List) /\ Len(run.buffer) <= Taken
         /\ \A k \in 1..Len(run.buffer) : Place(k) \in 1..Taken /\ Place(k) \in 1..Len(List)
<1>1. run.at # "idle" /\ run.at \in RangeStates
  BY StateKinds
<1>2. run.i \in DOMAIN TimeFrames
  BY <1>1 DEF StatsInv, FrameInv
<1>3. /\ run.ranges # <<>>
      /\ run.todo \in Seq(Range(List)) /\ Len(run.todo) <= Len(List)
      /\ run.buffer \in Seq(BarType) /\ Len(run.buffer) <= Taken
  BY DEF StatsInv, BatchInv
<1>4. IsRange(run.ranges[1]) /\ run.ranges[1].startDate \in Nat
  BY <1>1, <1>3, PendingIs
<1>5. /\ Len(List) \in Nat /\ Len(List) >= 1 /\ DOMAIN List = 1..Len(List)
      /\ \A k \in 1..Len(List) : IsEntry(run.i, List[k]) /\ List[k] = Key(List[k])
      /\ \A j, k \in 1..Len(List) : List[j] = List[k] => j = k
  BY <1>2, <1>4, ListEntries DEF List
<1>6. Len(run.todo) \in Nat /\ Len(run.buffer) \in Nat
  BY <1>3
<1>7. Taken \in 0..Len(List)
  BY <1>3, <1>5, <1>6 DEF Taken
<1>8. \A k \in 1..Len(run.buffer) : Place(k) \in 1..Taken /\ Place(k) \in 1..Len(List)
  BY <1>3, <1>5, <1>6, <1>7 DEF Place
<1>9. QED
  BY <1>1, <1>2, <1>3, <1>5, <1>6, <1>7, <1>8

(* The bar of an interval has no more than it would be calculated from now. *)
LEMMA OneBarEach ==
  ASSUME StatsInv, NEW b \in bars, NEW i \in DOMAIN TimeFrames, NEW e, IsEntry(i, e), Key(b) = e
  PROVE  b.data \subseteq Inputs(i, e)
<1>1. Key(b).frame = b.frame /\ e.frame = TimeFrames[i]
  BY DEF Key, Entry, IsEntry
<1>2. b.frame = TimeFrames[i] /\ BarsInv
  BY <1>1 DEF StatsInv
<1>3. QED
  BY <1>2, BarIs

(* An interval is calculated from all the call knows of it: from the events *)
(* themselves, or from the bars of a smaller frame the call is done with.   *)
LEMMA InputsCalculated ==
  ASSUME StatsInv, run.at \in RangeStates, Named(run.i), NEW e, IsEntry(run.i, e),
         NEW x \in Due \cap Instants(e)
  PROVE  x \in Inputs(run.i, e) \/ Excused(run.i, x)
<1> DEFINE i == run.i
           j == TrueDivide(i) + 1
<1>1. /\ run.at # "idle" /\ i \in DOMAIN TimeFrames
      /\ x \in Event /\ x \in Cover(run.all) /\ x \in Nat /\ x \in Instants(e)
  <2>1. run.at # "idle"
    BY StateKinds
  <2>2. QED
    BY <2>1, CallDates DEF StatsInv, FrameInv, Due
<1>2. CASE TrueDivide(i) = 0
  <2>1. PICK H \in SUBSET processed : Cover(run.all) = From(H)
    BY <1>1 DEF StatsInv, StatsCallInv
  <2>2. x \in Stored
    BY <1>1, <2>1 DEF From, Cover, Stored
  <2>3. QED
    BY <1>1, <1>2, <2>2 DEF Inputs
<1>3. CASE TrueDivide(i) # 0
  <2>1. j \in DOMAIN TimeFrames /\ j < i /\ Named(j) /\ Sz(i) % Sz(j) = 0
    BY <1>1, <1>3, TrueDivideIs
  <2>2. j \in 1..(i - 1)
    BY <1>1, <2>1, FrameType
  <2>3. Calculated(j, x)
    <3>1. \A k \in 1..(run.i - 1) : Named(k) => \A y \in Due : Calculated(k, y)
      BY <1>1 DEF StatsInv, StatsCallInv
    <3> HIDE DEF j
    <3>2. QED
      BY <2>1, <2>2, <3>1
  <2>4. CASE x \in DataOf(SlotOf(j, x))
    <3>1. PICK b \in bars : Key(b) = SlotOf(j, x) /\ x \in b.data
      BY <2>4 DEF DataOf
    <3>2. b.frame = TimeFrames[j] /\ b.startDate = SlotOf(j, x).startDate
      <4>1. Key(b).frame = b.frame /\ Key(b).startDate = b.startDate
        BY DEF Key, Entry
      <4>2. SlotOf(j, x).frame = TimeFrames[j]
        BY DEF SlotOf, Entry
      <4>3. QED
        BY <3>1, <4>1, <4>2
    <3>3. SlotOf(j, x).startDate \in Instants(e)
      <4> HIDE DEF j
      <4>1. QED
        BY <1>1, <2>1, SlotWithin
    <3>4. x \in Inputs(i, e)
      BY <1>3, <3>1, <3>2, <3>3 DEF Inputs
    <3>5. QED
      BY <3>4
  <2>5. CASE Excused(j, x)
    <3>1. x + 1 \notin Cover(run.all) /\ SharesEnd(Sz(j), x)
      BY <2>5 DEF Excused
    <3>2. Sz(i) \in Nat /\ Sz(i) > 0 /\ Sz(j) \in Nat /\ Sz(j) > 0
      BY <1>1, <2>1, FrameType
    <3>3. SharesEnd(Sz(i), x)
      <4> DEFINE c == Sz(j)
                 s == Sz(i)
      <4>1. c \in Nat /\ c > 0 /\ s \in Nat /\ s > 0 /\ s % c = 0 /\ SharesEnd(c, x)
        BY <2>1, <3>1, <3>2
      <4> HIDE DEF c, s
      <4>2. SharesEnd(s, x)
        BY <1>1, <4>1, SharesEndOn
      <4>3. QED
        BY <4>2 DEF s
    <3>4. QED
      BY <3>1, <3>3 DEF Excused
  <2>6. QED
    BY <2>3, <2>4, <2>5 DEF Calculated
<1>4. QED
  BY <1>2, <1>3

(* An interval is aggregated into the buffer: its bar loses no event.       *)
LEMMA AggregateKeeps == ~NewestFirst /\ StatsInv /\ Aggregate => StatsInv'
<1> SUFFICES ASSUME ~NewestFirst, StatsInv, Aggregate PROVE StatsInv'
  OBVIOUS
<1> DEFINE e == run.todo[1]
           data == Inputs(run.i, e)
           n == Len(run.buffer)
<1>1. run.at = "intervals" /\ run.at \in BatchStates /\ run.at \in RangeStates /\ run.at # "idle"
      /\ UNCHANGED <<history, bars, recorded>>
  BY DEF Aggregate, BatchStates, RangeStates
<1>2. /\ run.i \in DOMAIN TimeFrames
      /\ Len(List) \in Nat /\ Len(List) >= 1 /\ DOMAIN List = 1..Len(List)
      /\ \A k \in 1..Len(List) : IsEntry(run.i, List[k]) /\ List[k] = Key(List[k])
      /\ run.todo \in Seq(Range(List)) /\ Len(run.todo) \in Nat
      /\ run.buffer \in Seq(BarType) /\ n \in Nat
      /\ Taken \in 0..Len(List) /\ n <= Taken
      /\ \A k \in 1..n : Place(k) \in 1..Taken /\ Place(k) \in 1..Len(List)
  BY <1>1, BatchIs
<1>3. /\ run = [at |-> run.at, i |-> run.i, minDate |-> run.minDate, all |-> run.all,
                ranges |-> run.ranges, todo |-> run.todo, buffer |-> run.buffer]
      /\ run.ranges # <<>>
      /\ \A k \in 1..Len(run.todo) : run.todo[k] = List[Taken + k]
      /\ run.todo # <<>> /\ n < BatchSize
      /\ \A k \in 1..n : run.buffer[k] = Bar(List[Place(k)], run.buffer[k].data)
      /\ Named(run.i) =>
           \A k \in 1..(Taken - n) : \A x \in Due \cap Instants(List[k]) : Calculated(run.i, x)
  BY <1>1 DEF StatsInv, BatchInv, SavedUpTo
<1>4. Len(run.todo) >= 1 /\ Taken + 1 \in 1..Len(List) /\ e = List[Taken + 1]
  BY <1>2, <1>3 DEF Taken
<1>5. IsEntry(run.i, e)
  BY <1>2, <1>4
<1>6. /\ run'.at \in {"entries", "intervals"} /\ run'.i = run.i /\ run'.minDate = run.minDate
      /\ run'.all = run.all /\ run'.ranges = run.ranges /\ run'.todo = Tail(run.todo)
      /\ run'.buffer = Append(run.buffer, Bar(e, data))
      /\ run' = [at |-> run'.at, i |-> run'.i, minDate |-> run'.minDate, all |-> run'.all,
                 ranges |-> run'.ranges, todo |-> run'.todo, buffer |-> run'.buffer]
      /\ run'.at = "intervals" => Len(run'.buffer) # BatchSize /\ Len(run.todo) # 1
  <2> DEFINE buffer == Append(run.buffer, Bar(e, data))
             at == IF Len(buffer) = BatchSize \/ Len(run.todo) = 1 THEN "entries" ELSE "intervals"
  <2>1. run' = [run EXCEPT !.at = at, !.todo = Tail(@), !.buffer = buffer]
    BY DEF Aggregate
  <2>2. at \in {"entries", "intervals"} /\ (at = "intervals" => Len(buffer) # BatchSize /\ Len(run.todo) # 1)
    OBVIOUS
  <2> HIDE DEF buffer, at
  <2>3. run' = [at |-> at, i |-> run.i, minDate |-> run.minDate, all |-> run.all,
                ranges |-> run.ranges, todo |-> Tail(run.todo), buffer |-> buffer]
    BY <1>3, <2>1
  <2>4. QED
    BY <2>2, <2>3 DEF buffer
<1>7. Bar(e, data) \in BarType
  <2>1. data \subseteq Stored
    BY <1>2, <1>5, InputsAre DEF StatsInv
  <2>2. data \subseteq Nat
    BY <2>1, StoredType, HistoryDates DEF StatsInv
  <2>3. e.frame = TimeFrames[run.i] /\ e.startDate \in Int
    BY <1>5 DEF IsEntry, Entry
  <2>4. e.endDate \in Int
    <3>1. CASE Named(run.i)
      BY <1>2, <1>5, <3>1, NamedEntry
    <3>2. CASE ~Named(run.i)
      <4>1. e.endDate = Newest + 2
        BY <1>5, <3>2 DEF IsEntry, Entry, Named
      <4>2. QED
        BY <4>1, HistoryDates
    <3>3. QED
      BY <3>1, <3>2
  <2>5. TimeFrames[run.i] \in Frames
    BY <1>2, FrameType
  <2> HIDE DEF data, e
  <2>6. QED
    BY <2>2, <2>3, <2>4, <2>5 DEF Bar, BarType
<1> HIDE DEF e, data
<1>8. /\ run'.buffer \in Seq(BarType) /\ Len(run'.buffer) = n + 1
      /\ run'.buffer[n + 1] = Bar(e, data) /\ \A k \in 1..n : run'.buffer[k] = run.buffer[k]
  BY <1>2, <1>6, <1>7
<1>9. /\ run'.todo \in Seq(Range(List)) /\ Len(run'.todo) = Len(run.todo) - 1
      /\ \A k \in 1..Len(run'.todo) : run'.todo[k] = run.todo[k + 1]
  BY <1>2, <1>3, <1>4, <1>6
<1>20. Len(List) \in Nat /\ Len(run.todo) \in Nat /\ Taken \in Nat /\ n \in Nat /\ n <= Taken
  <2>1. Taken \in 0..Len(List) /\ Len(List) \in Nat
    BY <1>2
  <2>2. Taken \in Nat
    BY <2>1
  <2>3. QED
    BY <1>2, <2>2
<1> HIDE DEF n
<1>10. List' = List /\ Left' = Left /\ Due' = Due
  BY <1>6, DueSame DEF List, Left
<1>11. Taken' = Taken + 1
  <2>1. Taken' = Len(List) - (Len(run.todo) - 1) /\ Taken = Len(List) - Len(run.todo)
    BY <1>9, <1>10 DEF Taken
  <2>2. QED
    BY <1>20, <2>1
<1>12. SavedUpTo' = Taken - n /\ \A k \in 1..(n + 1) : Place(k)' = Taken - n + k
  <2>1. SavedUpTo' = Taken' - Len(run'.buffer) /\ \A k : Place(k)' = Taken' - Len(run'.buffer) + k
    BY <1>6 DEF SavedUpTo, Place
  <2>2. Len(run'.buffer) = n + 1
    BY <1>8
  <2>3. Taken' - Len(run'.buffer) = Taken - n
    BY <1>11, <1>20, <2>2
  <2>4. QED
    BY <2>1, <2>3
<1>13. StatsTypeOK' /\ BarsInv' /\ RecordedInv' /\ (\A d : DataOf(d)' = DataOf(d))
       /\ \A i, d : Inputs(i, d)' = Inputs(i, d)
  <2>1. Len(run'.buffer) \in 1..BatchSize
    BY <1>2, <1>3, <1>8, BatchSizeAssumption
  <2>2. QED
    BY <1>1, <1>6, <2>1, StoredSame
<1>14. /\ \A i, x : Calculated(i, x) => Calculated(i, x)'
       /\ \A i, x : Excused(i, x)' <=> Excused(i, x)
  BY <1>6, <1>13, CalculatedGrows DEF Excused
<1>15. StatsCallInv'
  <2>1. Within(Cover(run.all))' <=> Within(Cover(run.all))
    BY <1>1, <1>6 DEF Within
  <2>2. processed' = processed
    BY <1>1 DEF history
  <2>3. run'.at # "idle"
    BY <1>6
  <2>4. QED
    BY <1>1, <1>6, <1>10, <1>14, <2>1, <2>2, <2>3 DEF StatsInv, StatsCallInv
<1>16. FrameInv'
  BY <1>1, <1>6, <1>10, <1>14 DEF StatsInv, FrameInv
<1>17. BatchInv'
  <2>1. \A k \in 1..Len(run'.todo) : run'.todo[k] = List'[Taken' + k]
    <3>1. ASSUME NEW k \in 1..Len(run'.todo) PROVE run'.todo[k] = List[(Taken + 1) + k]
      <4>1. k + 1 \in 1..Len(run.todo) /\ Taken + (k + 1) = (Taken + 1) + k
        BY <1>2, <1>9
      <4>2. QED
        BY <1>3, <1>9, <4>1
    <3>2. QED
      BY <1>10, <1>11, <3>1
  <2>2. run'.at = "intervals" => run'.todo # <<>> /\ Len(run'.buffer) < BatchSize
    <3>1. SUFFICES ASSUME run'.at = "intervals" PROVE run'.todo # <<>> /\ Len(run'.buffer) < BatchSize
      OBVIOUS
    <3>2. Len(run'.buffer) # BatchSize /\ Len(run.todo) # 1
      BY <1>6, <3>1
    <3>3. Len(run'.todo) # 0
      BY <1>2, <1>9, <3>2
    <3>4. QED
      BY <1>2, <1>3, <1>8, <3>2, <3>3, BatchSizeAssumption
  <2>3. ASSUME NEW k \in 1..Len(run'.buffer)
        PROVE  (run.buffer[k] = Bar(List[Place(k)], run.buffer[k].data))'
    <3>1. CASE k \in 1..n
      <4>1. Place(k)' = Place(k)
        <5>1. Place(k) = Taken - n + k
          BY DEF Place, n
        <5>2. k \in 1..(n + 1)
          BY <1>20, <3>1
        <5>3. QED
          BY <1>12, <5>1, <5>2
      <4>2. QED
        BY <1>3, <1>8, <1>10, <3>1, <4>1
    <3>2. CASE k = n + 1
      <4>1. Place(k)' = Taken + 1
        <5>1. k \in 1..(n + 1)
          BY <1>20, <3>2
        <5>2. Place(k)' = Taken - n + k
          BY <1>12, <5>1
        <5>3. QED
          BY <1>20, <3>2, <5>2
      <4>2. run'.buffer[k] = Bar(e, data) /\ Bar(e, data).data = data
        BY <1>8, <3>2 DEF Bar
      <4>3. QED
        BY <1>4, <1>10, <4>1, <4>2
    <3>3. QED
      BY <1>2, <1>8, <3>1, <3>2
  <2>4. Named(run'.i) => \A k \in 1..SavedUpTo' : \A x \in Due' \cap Instants(List'[k]) : Calculated(run.i, x)'
    BY <1>3, <1>6, <1>10, <1>12, <1>14
  <2>5. run'.todo \in Seq(Range(List')) /\ Len(run'.todo) <= Len(List') /\ Len(run'.buffer) <= Taken'
    <3>1. run'.todo \in Seq(Range(List'))
      BY <1>9, <1>10
    <3>2. Len(run'.buffer) = n + 1 /\ Len(run'.todo) = Len(run.todo) - 1
      BY <1>8, <1>9
    <3>3. Taken = Len(List) - Len(run.todo)
      BY DEF Taken
    <3>4. Len(run'.todo) <= Len(List)
      BY <1>20, <3>2, <3>3
    <3>5. Len(run'.buffer) <= Taken'
      BY <1>11, <1>20, <3>2
    <3>6. QED
      BY <1>10, <3>1, <3>4, <3>5
  <2>6. QED
    BY <1>3, <1>6, <1>8, <2>1, <2>2, <2>3, <2>4, <2>5 DEF BatchInv
<1>18. BufferInv'
  <2>1. ASSUME NEW k \in 1..Len(run'.buffer)
        PROVE  (/\ DataOf(List[Place(k)]) \subseteq run.buffer[k].data
                /\ run.buffer[k].data \subseteq Inputs(run.i, List[Place(k)])
                /\ Named(run.i) => \A x \in Due \cap Instants(List[Place(k)]) :
                                       x \in run.buffer[k].data \/ Excused(run.i, x))'
    <3>1. CASE k \in 1..n
      <4>1. Place(k)' = Place(k)
        <5>1. Place(k) = Taken - n + k
          BY DEF Place, n
        <5>2. k \in 1..(n + 1)
          BY <1>20, <3>1
        <5>3. QED
          BY <1>12, <5>1, <5>2
      <4>2. /\ DataOf(List[Place(k)]) \subseteq run.buffer[k].data
            /\ run.buffer[k].data \subseteq Inputs(run.i, List[Place(k)])
            /\ Named(run.i) => \A x \in Due \cap Instants(List[Place(k)]) :
                                  x \in run.buffer[k].data \/ Excused(run.i, x)
        BY <1>1, <3>1 DEF StatsInv, BufferInv, n
      <4>3. QED
        BY <1>6, <1>8, <1>10, <1>13, <1>14, <3>1, <4>1, <4>2
    <3>2. CASE k = n + 1
      <4>1. List'[Place(k)'] = e
        <5>1. k \in 1..(n + 1)
          BY <1>20, <3>2
        <5>2. Place(k)' = Taken - n + k
          BY <1>12, <5>1
        <5>4. Place(k)' = Taken + 1
          BY <1>20, <3>2, <5>2
        <5>3. QED
          BY <1>4, <1>10, <5>4
      <4>2. run'.buffer[k].data = data
        BY <1>8, <3>2 DEF Bar
      <4>3. DataOf(e) \subseteq data
        BY <1>2, <1>5, OneBarEach DEF DataOf, data
      <4>4. Named(run.i) => \A x \in Due \cap Instants(e) : x \in data \/ Excused(run.i, x)
        BY <1>1, <1>5, InputsCalculated DEF data
      <4>5. (DataOf(List[Place(k)]) \subseteq run.buffer[k].data)'
        BY <1>13, <4>1, <4>2, <4>3
      <4>6. (run.buffer[k].data \subseteq Inputs(run.i, List[Place(k)]))'
        <5>1. Inputs(run.i, List[Place(k)])' = Inputs(run.i, e)
          BY <1>6, <1>13, <4>1
        <5>2. QED
          BY <4>2, <5>1 DEF data
      <4>7. (Named(run.i) => \A x \in Due \cap Instants(List[Place(k)]) :
                                x \in run.buffer[k].data \/ Excused(run.i, x))'
        <5>1. SUFFICES ASSUME Named(run.i), NEW x \in Due \cap Instants(e), ~(x \in data)
                       PROVE  Excused(run.i, x)'
          BY <1>6, <1>10, <4>1, <4>2
        <5>2. Excused(run.i, x)
          BY <4>4, <5>1
        <5>3. QED
          BY <1>6, <5>2 DEF Excused
      <4>8. QED
        BY <4>5, <4>6, <4>7
    <3>3. QED
      BY <1>2, <1>8, <3>1, <3>2
  <2>2. QED
    BY <2>1 DEF BufferInv
<1>19. QED
  BY <1>13, <1>15, <1>16, <1>17, <1>18 DEF StatsInv

-----------------------------------------------------------------------------
(* The batch is saved: the bars in place of the older ones have all of      *)
(* their events.                                                            *)
LEMMA SaveEntriesKeeps == ~NewestFirst /\ StatsInv /\ SaveEntries => StatsInv'
<1> SUFFICES ASSUME ~NewestFirst, StatsInv, SaveEntries PROVE StatsInv'
  OBVIOUS
<1> DEFINE n == Len(run.buffer)
           bar == run.buffer
           full == {k \in DOMAIN run.buffer : run.buffer[k].data # {}}
           new == {run.buffer[k] : k \in
                     {m \in full : \A k \in full : k > m => Key(run.buffer[k]) # Key(run.buffer[m])}}
<1>1. run.at = "entries" /\ run.at \in BatchStates /\ run.at \in RangeStates /\ run.at # "idle"
      /\ UNCHANGED <<history, recorded>>
      /\ run' = [run EXCEPT !.at = "states"]
      /\ bars' = {b \in bars : \A e \in new : Key(e) # Key(b)} \cup new
  BY DEF SaveEntries, BatchStates, RangeStates
<1>2. /\ run.i \in DOMAIN TimeFrames
      /\ Len(List) \in Nat /\ DOMAIN List = 1..Len(List)
      /\ \A k \in 1..Len(List) : IsEntry(run.i, List[k]) /\ List[k] = Key(List[k])
      /\ \A j, k \in 1..Len(List) : List[j] = List[k] => j = k
      /\ run.buffer \in Seq(BarType) /\ n \in Nat
      /\ Taken \in 0..Len(List) /\ n <= Taken
      /\ \A k \in 1..n : Place(k) \in 1..Taken /\ Place(k) \in 1..Len(List)
  BY <1>1, BatchIs
<1>3. /\ run = [at |-> run.at, i |-> run.i, minDate |-> run.minDate, all |-> run.all,
                ranges |-> run.ranges, todo |-> run.todo, buffer |-> run.buffer]
      /\ run.ranges # <<>>
      /\ run.todo \in Seq(Range(List)) /\ Len(run.todo) <= Len(List)
      /\ \A k \in 1..Len(run.todo) : run.todo[k] = List[Taken + k]
      /\ \A k \in 1..n : run.buffer[k] = Bar(List[Place(k)], run.buffer[k].data)
      /\ Named(run.i) =>
           \A k \in 1..(Taken - n) : \A x \in Due \cap Instants(List[k]) : Calculated(run.i, x)
  BY <1>1 DEF StatsInv, BatchInv, SavedUpTo
<1>4. \A k \in 1..n :
        /\ DataOf(List[Place(k)]) \subseteq run.buffer[k].data
        /\ run.buffer[k].data \subseteq Inputs(run.i, List[Place(k)])
        /\ Named(run.i) => \A x \in Due \cap Instants(List[Place(k)]) :
                              x \in run.buffer[k].data \/ Excused(run.i, x)
  BY <1>1 DEF StatsInv, BufferInv
<1>5. /\ run'.at = "states" /\ run'.i = run.i /\ run'.minDate = run.minDate /\ run'.all = run.all
      /\ run'.ranges = run.ranges /\ run'.todo = run.todo /\ run'.buffer = run.buffer
      /\ run' = [at |-> run'.at, i |-> run'.i, minDate |-> run'.minDate, all |-> run'.all,
                 ranges |-> run'.ranges, todo |-> run'.todo, buffer |-> run'.buffer]
  <2>1. run' = [at |-> "states", i |-> run.i, minDate |-> run.minDate, all |-> run.all,
                ranges |-> run.ranges, todo |-> run.todo, buffer |-> run.buffer]
    BY <1>1, <1>3
  <2>2. QED
    BY <2>1
<1>6. DOMAIN run.buffer = 1..n
  BY <1>2
<1>7. ASSUME NEW k \in 1..n
      PROVE  /\ Key(run.buffer[k]) = List[Place(k)] /\ IsEntry(run.i, List[Place(k)])
             /\ Instants(run.buffer[k]) = Instants(List[Place(k)])
             /\ run.buffer[k] = Bar(Key(run.buffer[k]), run.buffer[k].data)
             /\ run.buffer[k] \in BarType
  <2> DEFINE e == List[Place(k)]
             b == run.buffer[k]
  <2>1. b = Bar(e, b.data) /\ IsEntry(run.i, e) /\ e = Key(e)
    BY <1>2, <1>3
  <2>2. b \in BarType
    BY <1>2, <1>6
  <2> HIDE DEF e, b
  <2>3. b.frame = e.frame /\ b.startDate = e.startDate /\ b.endDate = e.endDate
    BY <2>1 DEF Bar
  <2>4. Key(b) = e
    BY <2>1, <2>3 DEF Key
  <2>5. Instants(b) = Instants(e)
    BY <2>3 DEF Instants
  <2>6. QED
    BY <2>1, <2>2, <2>4, <2>5 DEF e, b
<1>8. ASSUME NEW j \in 1..n, NEW k \in 1..n, Key(run.buffer[j]) = Key(run.buffer[k]) PROVE j = k
  <2>1. List[Place(j)] = List[Place(k)] /\ Place(j) \in 1..Len(List) /\ Place(k) \in 1..Len(List)
    BY <1>2, <1>7, <1>8
  <2>2. Place(j) = Place(k)
    BY <1>2, <2>1
  <2>3. Taken \in Int /\ n \in Int /\ j \in Int /\ k \in Int
    BY <1>2
  <2>4. Taken - n + j = Taken - n + k
    BY <2>2 DEF Place
  <2> HIDE DEF n
  <2>5. QED
    BY <2>3, <2>4
<1>9. new = {run.buffer[k] : k \in full}
  <2>1. {m \in full : \A k \in full : k > m => Key(run.buffer[k]) # Key(run.buffer[m])} = full
    <3>1. \A m \in full : \A k \in full : k > m => Key(run.buffer[k]) # Key(run.buffer[m])
      <4>1. ASSUME NEW m \in full, NEW k \in full, k > m, Key(run.buffer[k]) = Key(run.buffer[m]) PROVE FALSE
        <5>1. m \in 1..n /\ k \in 1..n
          BY <1>6
        <5>2. k = m
          BY <1>8, <4>1, <5>1
        <5>3. m \in Int /\ k \in Int
          BY <5>1
        <5>4. QED
          BY <4>1, <5>2, <5>3
      <4>2. QED
        BY <4>1
    <3>2. QED
      BY <3>1
  <2>2. QED
    BY <2>1
<1>10. \A k \in 1..n : run.buffer[k].data # {} => run.buffer[k] \in new
  <2>1. \A k \in 1..n : run.buffer[k].data # {} => k \in full
    BY <1>6
  <2> HIDE DEF full, new
  <2>2. QED
    BY <1>9, <2>1
<1>11. \A b \in new : \E k \in 1..n : b = run.buffer[k] /\ b.data # {}
  <2>1. \A k \in full : k \in 1..n /\ run.buffer[k].data # {}
    BY <1>6
  <2> HIDE DEF full, new
  <2>2. QED
    BY <1>9, <2>1
<1> HIDE DEF full, new
<1>12. ASSUME NEW b \in bars PROVE \E c \in bars' : Key(c) = Key(b) /\ b.data \subseteq c.data
  <2>1. CASE \A e \in new : Key(e) # Key(b)
    BY <1>1, <2>1
  <2>2. CASE ~(\A e \in new : Key(e) # Key(b))
    <3>1. PICK c \in new : Key(c) = Key(b)
      BY <2>2
    <3>2. PICK k \in 1..n : c = run.buffer[k]
      BY <1>11
    <3>3. b.data \subseteq DataOf(Key(b))
      BY DEF DataOf
    <3>4. DataOf(Key(b)) \subseteq c.data
      BY <1>4, <1>7, <3>1, <3>2
    <3>5. c \in bars'
      BY <1>1
    <3>6. QED
      BY <3>1, <3>3, <3>4, <3>5
  <2>3. QED
    BY <2>1, <2>2
<1>13. Stored' = Stored
  BY <1>1 DEF Stored, history
<1>14. /\ \A e : DataOf(e) \subseteq DataOf(e)'
       /\ \A i, e : Inputs(i, e) \subseteq Inputs(i, e)'
  BY <1>12, <1>13, DataGrows, InputsGrow
<1>15. \A k \in 1..n : run.buffer[k].data \subseteq DataOf(List[Place(k)])'
  <2>1. ASSUME NEW k \in 1..n, NEW x \in run.buffer[k].data
        PROVE  \E c \in bars' : Key(c) = List[Place(k)] /\ x \in c.data
    <3>1. run.buffer[k] \in new
      BY <1>10, <2>1
    <3>2. run.buffer[k] \in bars'
      BY <1>1, <3>1
    <3>3. QED
      BY <1>7, <2>1, <3>2
  <2>2. \A k \in 1..n : \A x \in run.buffer[k].data : \E c \in bars' : Key(c) = List[Place(k)] /\ x \in c.data
    BY <2>1
  <2>3. List' = List /\ \A k : Place(k)' = Place(k)
    <3>1. List' = List
      BY <1>5 DEF List
    <3>2. QED
      BY <1>5, <3>1 DEF Place, Taken
  <2>4. \A k \in 1..n : (DataOf(List[Place(k)]))' = UNION {b.data : b \in {c \in bars' : Key(c) = List[Place(k)]}}
    BY <2>3 DEF DataOf
  <2>5. QED
    BY <2>2, <2>4
<1>16. StatsTypeOK'
  <2>1. ASSUME NEW b \in bars'
        PROVE  b.frame \in Frames /\ b.data # {} /\ b.data \subseteq Instants(b) \cap Stored
    <3>1. CASE b \in new
      <4>1. PICK k \in 1..n : b = run.buffer[k] /\ b.data # {}
        BY <1>11, <3>1
      <4>2. b.frame \in Frames
        BY <1>7, <4>1 DEF BarType
      <4>3. Inputs(run.i, List[Place(k)]) \subseteq Instants(List[Place(k)]) \cap Stored
        BY <1>2, <1>7, InputsAre DEF StatsInv
      <4>4. QED
        BY <1>4, <1>7, <4>1, <4>2, <4>3
    <3>2. CASE b \notin new
      <4>1. b \in bars
        BY <1>1, <3>2
      <4>2. QED
        BY <4>1 DEF StatsInv, StatsTypeOK
    <3>3. QED
      BY <3>1, <3>2
  <2>2. ASSUME NEW b \in bars', NEW c \in bars', Key(b) = Key(c) PROVE b = c
    <3>1. CASE b \in new /\ c \in new
      <4>1. PICK j \in 1..n : b = run.buffer[j]
        BY <1>11, <3>1
      <4>2. PICK k \in 1..n : c = run.buffer[k]
        BY <1>11, <3>1
      <4>3. j = k
        BY <1>8, <2>2, <4>1, <4>2
      <4>4. QED
        BY <4>1, <4>2, <4>3
    <3>2. CASE b \notin new /\ c \notin new
      <4>1. b \in bars /\ c \in bars
        BY <1>1, <3>2
      <4>2. QED
        BY <2>2, <4>1 DEF StatsInv, StatsTypeOK
    <3>3. CASE ~(b \in new <=> c \in new)
      BY <1>1, <2>2, <3>3
    <3>4. QED
      BY <3>1, <3>2, <3>3
  <2>3. Len(run'.buffer) \in 1..BatchSize
    BY <1>1, <1>5 DEF StatsInv, StatsTypeOK
  <2>4. /\ low' \in DOMAIN Chunks /\ high' \in low'..Len(Chunks) /\ processed' \subseteq low'..high'
        /\ \A e \in recorded' : e.frame \in Frames /\ e = Key(e)
    BY <1>1 DEF StatsInv, StatsTypeOK, history
  <2>5. QED
    BY <1>5, <1>13, <2>1, <2>2, <2>3, <2>4 DEF StatsTypeOK
<1>17. BarsInv'
  <2>1. ASSUME NEW b \in bars'
        PROVE  \E i \in DOMAIN TimeFrames :
                 /\ IsEntry(i, Key(b)) /\ b = Bar(Key(b), b.data)
                 /\ b.data # {} /\ b.data \subseteq Inputs(i, Key(b))'
    <3>1. CASE b \in new
      <4>1. PICK k \in 1..n : b = run.buffer[k] /\ b.data # {}
        BY <1>11, <3>1
      <4>2. IsEntry(run.i, Key(b)) /\ b = Bar(Key(b), b.data)
        BY <1>7, <4>1
      <4>3. b.data \subseteq Inputs(run.i, Key(b))
        BY <1>4, <1>7, <4>1
      <4>4. \A i : i = run.i => b.data \subseteq Inputs(i, Key(b))'
        BY <1>14, <4>3
      <4>5. QED
        BY <1>2, <4>1, <4>2, <4>4
    <3>2. CASE b \notin new
      <4>1. b \in bars
        BY <1>1, <3>2
      <4>2. PICK i \in DOMAIN TimeFrames :
               /\ IsEntry(i, Key(b)) /\ b = Bar(Key(b), b.data)
               /\ b.data # {} /\ b.data \subseteq Inputs(i, Key(b))
        BY <4>1 DEF StatsInv, BarsInv
      <4>3. QED
        BY <1>14, <4>2
    <3>3. QED
      BY <3>1, <3>2
  <2>2. QED
    BY <2>1 DEF BarsInv
<1>18. RecordedInv'
  <2>1. RecordedInv /\ recorded' = recorded /\ processed' = processed
    BY <1>1 DEF StatsInv, history
  <2>2. Within(From(processed))' <=> Within(From(processed))
    BY <2>1 DEF Within
  <2>3. QED
    BY <1>14, <2>1, <2>2 DEF RecordedInv
<1>19. List' = List /\ Left' = Left /\ Due' = Due /\ Taken' = Taken /\ \A k : Place(k)' = Place(k)
  <2>1. List' = List /\ Left' = Left /\ Due' = Due
    BY <1>5, DueSame DEF List, Left
  <2>2. Taken' = Taken
    BY <1>5, <2>1 DEF Taken
  <2>3. QED
    BY <1>5, <2>1, <2>2 DEF Place
<1>20. /\ \A i, x : Calculated(i, x) => Calculated(i, x)'
       /\ \A i, x : Excused(i, x)' <=> Excused(i, x)
  BY <1>5, <1>14, CalculatedGrows DEF Excused
<1>21. StatsCallInv'
  <2>1. Within(Cover(run.all))' <=> Within(Cover(run.all))
    BY <1>1, <1>5 DEF Within
  <2>2. processed' = processed
    BY <1>1 DEF history
  <2>3. run'.at # "idle"
    BY <1>5
  <2>4. QED
    BY <1>1, <1>5, <1>19, <1>20, <2>1, <2>2, <2>3 DEF StatsInv, StatsCallInv
<1>22. FrameInv'
  BY <1>1, <1>5, <1>19, <1>20, StateKinds DEF StatsInv, FrameInv
<1>23. BatchInv'
  <2>1. SavedUpTo' = Taken
    BY <1>5, <1>19 DEF SavedUpTo
  <2>2. ASSUME Named(run.i), NEW k \in 1..Taken, NEW x \in Due \cap Instants(List[k])
        PROVE  \A i : i = run.i => Calculated(i, x)'
    <3>1. CASE k \in 1..(Taken - n)
      BY <1>3, <1>20, <2>2, <3>1
    <3>2. CASE k \notin 1..(Taken - n)
      <4>1. Taken \in Nat /\ n \in Nat /\ n <= Taken /\ k \in Nat /\ k >= 1 /\ k <= Taken
        BY <1>2
      <4> HIDE DEF n
      <4>2. PICK m \in 1..n : Taken - n + m = k
        <5>1. k - (Taken - n) \in 1..n /\ Taken - n + (k - (Taken - n)) = k
          BY <3>2, <4>1
        <5>2. QED
          BY <5>1
      <4>3. Place(m) = k
        BY <4>2 DEF Place, n
      <4>4. x \in run.buffer[m].data \/ Excused(run.i, x)
        BY <1>4, <2>2, <4>2, <4>3 DEF n
      <4>5. CASE x \in run.buffer[m].data
        <5>1. x \in Nat
          BY <1>1, CallDates DEF Due
        <5>2. IsEntry(run.i, List[k]) /\ x \in Instants(List[k])
          BY <1>7, <4>2, <4>3 DEF n
        <5>3. List[k] = SlotOf(run.i, x)
          BY <1>2, <2>2, <5>1, <5>2, SlotIs
        <5>4. \A e : e = List[k] => x \in DataOf(e)'
          <6>1. \A e : e = List[Place(m)] => x \in DataOf(e)'
            <7>1. List' = List /\ Place(m)' = Place(m)
              BY <1>19
            <7>2. x \in DataOf(List[Place(m)])'
              BY <1>15, <4>2, <4>5 DEF n
            <7>3. QED
              BY <7>1, <7>2 DEF DataOf
          <6>2. QED
            BY <4>3, <6>1
        <5>5. \A i : i = run.i => x \in DataOf(SlotOf(i, x))'
          BY <5>3, <5>4 DEF SlotOf
        <5>6. QED
          BY <5>5 DEF Calculated
      <4>6. CASE Excused(run.i, x)
        BY <1>20, <4>6 DEF Calculated
      <4>7. QED
        BY <4>4, <4>5, <4>6
    <3>3. QED
      BY <3>1, <3>2
  <2>3. (Named(run.i) => \A k \in 1..SavedUpTo : \A x \in Due \cap Instants(List[k]) : Calculated(run.i, x))'
    BY <1>5, <1>19, <2>1, <2>2
  <2>4. (\A k \in 1..Len(run.buffer) : run.buffer[k] = Bar(List[Place(k)], run.buffer[k].data))'
    BY <1>3, <1>5, <1>19
  <2>5. (\A k \in 1..Len(run.todo) : run.todo[k] = List[Taken + k])'
    BY <1>3, <1>5, <1>19
  <2>6. run'.at # "intervals"
    BY <1>5
  <2>7. run'.ranges # <<>> /\ run'.todo \in Seq(Range(List')) /\ Len(run'.todo) <= Len(List')
        /\ run'.buffer \in Seq(BarType) /\ Len(run'.buffer) <= Taken'
    BY <1>2, <1>3, <1>5, <1>19
  <2>8. QED
    BY <1>5, <2>3, <2>4, <2>5, <2>6, <2>7 DEF BatchInv
<1>24. BufferInv'
  BY <1>5 DEF BufferInv
<1>25. QED
  BY <1>16, <1>17, <1>18, <1>21, <1>22, <1>23, <1>24 DEF StatsInv

-----------------------------------------------------------------------------
(* Taking out the first or the last of a sequence leaves the others.        *)
LEMMA RemoveAtIs ==
  ASSUME NEW S, NEW s \in Seq(S), NEW i \in 1..Len(s)
  PROVE  /\ RemoveAt(s, i) \in Seq(S) /\ Len(RemoveAt(s, i)) = Len(s) - 1
         /\ \A j \in 1..(Len(s) - 1) : RemoveAt(s, i)[j] = IF j < i THEN s[j] ELSE s[j + 1]
<1> DEFINE l == SubSeq(s, 1, i - 1)
           r == SubSeq(s, i + 1, Len(s))
<1>1. Len(s) \in Nat /\ i \in Nat /\ i >= 1 /\ i <= Len(s)
  OBVIOUS
<1>2. l \in Seq(S) /\ Len(l) = i - 1 /\ \A j \in 1..(i - 1) : l[j] = s[j]
  BY <1>1
<1>3. r \in Seq(S) /\ Len(r) = Len(s) - i /\ \A j \in 1..(Len(s) - i) : r[j] = s[i + j]
  BY <1>1
<1>4. RemoveAt(s, i) = l \o r
  BY DEF RemoveAt
<1> HIDE DEF l, r
<1>5. /\ l \o r \in Seq(S) /\ Len(l \o r) = Len(s) - 1
      /\ \A j \in 1..(Len(s) - 1) : (l \o r)[j] = IF j <= i - 1 THEN l[j] ELSE r[j - (i - 1)]
  <2>1. l \o r \in Seq(S) /\ Len(l \o r) = Len(l) + Len(r)
    <3>1. l \in Seq(S) /\ r \in Seq(S)
      BY <1>2, <1>3
    <3>2. l \o r \in Seq(S)
      BY <3>1
    <3>3. Len(l \o r) = Len(l) + Len(r)
      BY <3>1
    <3>4. QED
      BY <3>2, <3>3
  <2>2. ASSUME NEW j \in 1..(Len(l) + Len(r))
        PROVE  (l \o r)[j] = IF j <= Len(l) THEN l[j] ELSE r[j - Len(l)]
    BY <1>2, <1>3
  <2>3. (i - 1) + (Len(s) - i) = Len(s) - 1
    BY <1>1
  <2>4. QED
    BY <1>2, <1>3, <2>1, <2>2, <2>3
<1>6. ASSUME NEW j \in 1..(Len(s) - 1) PROVE (l \o r)[j] = IF j < i THEN s[j] ELSE s[j + 1]
  <2>1. CASE j < i
    BY <1>1, <1>2, <1>5, <2>1
  <2>2. CASE ~(j < i)
    <3>1. j - (i - 1) \in 1..(Len(s) - i) /\ i + (j - (i - 1)) = j + 1
      BY <1>1, <2>2
    <3>2. QED
      BY <1>1, <1>3, <1>5, <2>2, <3>1
  <2>3. QED
    BY <2>1, <2>2
<1>7. QED
  BY <1>4, <1>5, <1>6

(* What is recorded of a batch is neither a first interval that starts      *)
(* before the range nor a last one that ends after it.                      *)
LEMMA KeptIs ==
  ASSUME ~NewestFirst, NEW S, NEW s \in Seq(S), s # <<>>, NEW p, NEW minDate,
         NEW b \in Range(WithoutLast(WithoutFirst(s, p, minDate), p))
  PROVE  \E j \in 1..Len(s) :
           /\ b = s[j]
           /\ j = 1 => ~(s[1].startDate < p.startDate /\ p.startDate # minDate)
           /\ j = Len(s) => ~(s[j].endDate - 1 > p.endDate)
<1> DEFINE first == s[1].startDate < p.startDate /\ p.startDate # minDate
           t == WithoutFirst(s, p, minDate)
<1>1. Len(s) \in Nat /\ Len(s) >= 1
  OBVIOUS
<1>2. t = IF first THEN RemoveAt(s, 1) ELSE s
  BY DEF WithoutFirst
<1> HIDE DEF first, t
<1>3. /\ t \in Seq(S) /\ Len(t) \in Nat
      /\ \A j \in 1..Len(t) : \E k \in 1..Len(s) : /\ t[j] = s[k] /\ (k = 1 => ~first)
                                                   /\ (k = Len(s) => j = Len(t))
  <2>1. CASE first
    <3>1. /\ t \in Seq(S) /\ Len(t) = Len(s) - 1
          /\ \A j \in 1..(Len(s) - 1) : t[j] = IF j < 1 THEN s[j] ELSE s[j + 1]
      BY <1>1, <1>2, <2>1, RemoveAtIs
    <3>2. ASSUME NEW j \in 1..Len(t)
          PROVE  t[j] = s[j + 1] /\ j + 1 \in 1..Len(s) /\ j + 1 # 1 /\ (j + 1 = Len(s) => j = Len(t))
      BY <1>1, <3>1
    <3>3. ASSUME NEW j \in 1..Len(t)
          PROVE  \E k \in 1..Len(s) : t[j] = s[k] /\ (k = 1 => ~first) /\ (k = Len(s) => j = Len(t))
      <4> DEFINE k == j + 1
      <4>1. k \in 1..Len(s) /\ t[j] = s[k] /\ k # 1 /\ (k = Len(s) => j = Len(t))
        BY <3>2
      <4> HIDE DEF k
      <4>2. QED
        BY <4>1
    <3>4. QED
      BY <1>1, <3>1, <3>3
  <2>2. CASE ~first
    BY <1>1, <1>2, <2>2
  <2>3. QED
    BY <2>1, <2>2
<1>4. WithoutLast(t, p) = IF t # <<>> /\ t[Len(t)].endDate - 1 > p.endDate THEN RemoveAt(t, Len(t)) ELSE t
  BY DEF WithoutLast
<1>5. b \in Range(WithoutLast(t, p))
  BY DEF t
<1>6. PICK j \in 1..Len(t) : b = t[j] /\ (j = Len(t) => ~(t[j].endDate - 1 > p.endDate))
  <2>1. CASE t # <<>> /\ t[Len(t)].endDate - 1 > p.endDate
    <3> DEFINE u == RemoveAt(t, Len(t))
    <3>1. Len(t) \in 1..Len(t)
      BY <1>3, <2>1
    <3>2. /\ u \in Seq(S) /\ Len(u) = Len(t) - 1
          /\ \A j \in 1..(Len(t) - 1) : u[j] = IF j < Len(t) THEN t[j] ELSE t[j + 1]
      BY <1>3, <3>1, RemoveAtIs
    <3>3. b \in Range(u)
      BY <1>4, <1>5, <2>1
    <3> HIDE DEF u
    <3>4. PICK j \in 1..(Len(t) - 1) : b = u[j]
      <4>1. DOMAIN u = 1..(Len(t) - 1)
        BY <3>2
      <4>2. QED
        BY <3>3, <4>1 DEF Range
    <3>5. j \in 1..Len(t) /\ j # Len(t) /\ j < Len(t)
      BY <1>3, <3>4
    <3>6. b = t[j]
      BY <3>2, <3>4, <3>5
    <3>7. QED
      BY <3>5, <3>6
  <2>2. CASE ~(t # <<>> /\ t[Len(t)].endDate - 1 > p.endDate)
    <3>1. b \in Range(t) /\ DOMAIN t = 1..Len(t)
      BY <1>3, <1>4, <1>5, <2>2
    <3>2. PICK j \in 1..Len(t) : b = t[j]
      BY <3>1 DEF Range
    <3>3. t # <<>>
      BY <1>3
    <3>4. QED
      BY <2>2, <3>2, <3>3
  <2>3. QED
    BY <2>1, <2>2
<1>7. PICK k \in 1..Len(s) : t[j] = s[k] /\ (k = 1 => ~first) /\ (k = Len(s) => j = Len(t))
  BY <1>3, <1>6
<1>8. QED
  BY <1>6, <1>7 DEF first

-----------------------------------------------------------------------------
(* Where the m-th interval of a list lies, whose second has the first       *)
(* instant of the range.                                                    *)
LEMMA PlacedAt ==
  ASSUME NEW d \in Nat, d > 1, NEW from \in Nat, NEW s \in Nat, NEW t \in Nat, NEW c \in Nat,
         from <= s, s < from + d, s <= t, (c - 1) * d <= t - s,
         NEW m \in Nat, 2 <= m, m <= c + 1
  PROVE  /\ from + (m - 2) * d \in Nat
         /\ from + (m - 2) * d + d - 1 >= s
         /\ m # 2 => from + (m - 2) * d >= s
         /\ m <= c => from + (m - 2) * d + d - 2 <= t
<1> DEFINE q == (m - 2) * d
<1>1. q = d * (m - 2) /\ q \in Int
  OBVIOUS
<1>2. q >= 0 /\ (m # 2 => q >= d)
  <2>1. d * 0 <= d * (m - 2) /\ (m # 2 => d * 1 <= d * (m - 2))
    <3>1. m - 2 \in Int /\ 0 <= m - 2 /\ (m # 2 => 1 <= m - 2) /\ d > 0
      OBVIOUS
    <3>2. QED
      BY <3>1, ProductGrows
  <2>2. d * 0 = 0 /\ d * 1 = d
    OBVIOUS
  <2> HIDE DEF q
  <2>3. QED
    BY <1>1, <2>1, <2>2
<1>3. m <= c => q + d <= t - s
  <2>1. SUFFICES ASSUME m <= c PROVE q + d <= t - s
    OBVIOUS
  <2>2. d * (m - 1) <= d * (c - 1)
    <3>1. m - 1 \in Int /\ c - 1 \in Int /\ m - 1 <= c - 1 /\ d > 0
      BY <2>1
    <3>2. QED
      BY <3>1, ProductGrows
  <2>3. d * (c - 1) = (c - 1) * d /\ d * (m - 1) = q + d
    OBVIOUS
  <2>4. (c - 1) * d \in Int
    OBVIOUS
  <2> HIDE DEF q
  <2>5. QED
    BY <1>1, <2>2, <2>3, <2>4
<1> HIDE DEF q
<1>4. from + q \in Nat /\ from + q + d - 1 >= s /\ (m # 2 => from + q >= s)
  BY <1>1, <1>2
<1>5. m <= c => from + q + d - 2 <= t
  BY <1>1, <1>2, <1>3
<1>6. QED
  BY <1>4, <1>5 DEF q

(* What the call records of a batch: intervals of the list other than its   *)
(* first and last, with no instant before the range, unless it begins with  *)
(* the history, nor one after it but their last.                            *)
Newly ==
  {Key(e) : e \in Range(WithoutLast(WithoutFirst(Inner(run.buffer), run.ranges[1], run.minDate), run.ranges[1]))}

(* Which intervals a batch records: ones it went through, the first of the  *)
(* list excepted, within the range or its ends.                             *)
LEMMA NewlyIs ==
  ASSUME ~NewestFirst, StatsInv, run.at = "states", Inner(run.buffer) # <<>>, NEW e \in Newly
  PROVE  /\ Named(run.i) /\ IsEntry(run.i, e) /\ e.startDate \in Nat
         /\ \E m \in 2..Taken : e = List[m]
         /\ e.startDate >= run.ranges[1].startDate \/ run.ranges[1].startDate = Oldest
         /\ e.endDate - 1 <= run.ranges[1].endDate
         /\ e.endDate >= run.ranges[1].startDate
<1> DEFINE n == Len(run.buffer)
           p == run.ranges[1]
           i == run.i
           s == Inner(run.buffer)
<1>1. run.at \in BatchStates /\ run.at \in RangeStates /\ run.at # "idle"
  BY DEF BatchStates, RangeStates
<1>2. /\ i \in DOMAIN TimeFrames
      /\ Len(List) \in Nat /\ Len(List) >= 1 /\ DOMAIN List = 1..Len(List)
      /\ \A k \in 1..Len(List) : IsEntry(i, List[k]) /\ List[k] = Key(List[k])
      /\ run.buffer \in Seq(BarType) /\ n \in Nat
      /\ Taken \in 0..Len(List) /\ n <= Taken
      /\ \A k \in 1..n : Place(k) \in 1..Taken /\ Place(k) \in 1..Len(List)
  BY <1>1, BatchIs
<1>3. /\ run.ranges # <<>>
      /\ \A k \in 1..n : run.buffer[k] = Bar(List[Place(k)], run.buffer[k].data)
      /\ n \in 1..BatchSize
  BY <1>1 DEF StatsInv, BatchInv, StatsTypeOK
<1>30. n \in Nat /\ n >= 1 /\ Taken \in Nat /\ n <= Taken /\ Taken <= Len(List) /\ Len(List) \in Nat
  <2>1. Taken \in 0..Len(List) /\ Len(List) \in Nat
    BY <1>2
  <2>2. n >= 1
    BY <1>3
  <2>3. QED
    BY <1>2, <2>1, <2>2
<1>4. /\ IsRange(p) /\ p.startDate \in Nat /\ p.endDate \in Nat /\ p.startDate <= p.endDate
      /\ p.endDate <= Newest /\ Newest \in Nat /\ Oldest \in Nat
  <2>1. IsRange(p) /\ p.startDate \in Nat /\ p.endDate \in Nat /\ Instants(p) \subseteq Oldest..Newest
    BY <1>1, <1>3, PendingIs
  <2>2. p.startDate <= p.endDate
    BY <2>1 DEF IsRange
  <2>3. p.endDate \in Instants(p)
    BY <2>1, <2>2 DEF Instants
  <2>4. p.endDate \in Oldest..Newest
    BY <2>1, <2>3
  <2>5. QED
    BY <2>1, <2>2, <2>4, HistoryDates
<1>5. PICK b \in Range(WithoutLast(WithoutFirst(s, p, run.minDate), p)) : e = Key(b)
  BY DEF Newly
<1>6. run.minDate \in {NoDate, Oldest}
  BY <1>1 DEF StatsInv, StatsCallInv
<1>7. ASSUME NEW k \in 1..n
      PROVE  /\ run.buffer[k].startDate = List[Place(k)].startDate
             /\ run.buffer[k].endDate = List[Place(k)].endDate
             /\ run.buffer[k].frame = List[Place(k)].frame
             /\ Key(run.buffer[k]) = List[Place(k)]
  <2> DEFINE d == List[Place(k)]
             c == run.buffer[k]
  <2>1. c = Bar(d, c.data) /\ d = Key(d)
    BY <1>2, <1>3
  <2> HIDE DEF c, d
  <2>2. c.startDate = d.startDate /\ c.endDate = d.endDate /\ c.frame = d.frame
    BY <2>1 DEF Bar
  <2>3. Key(c) = d
    BY <2>1, <2>2 DEF Key
  <2>4. QED
    BY <2>2, <2>3 DEF c, d
<1>8. run.buffer[1].frame = TimeFrames[i]
  <2>1. 1 \in 1..n
    BY <1>3
  <2>2. IsEntry(i, List[Place(1)])
    BY <1>2, <2>1
  <2>3. List[Place(1)].frame = TimeFrames[i]
    BY <2>2 DEF IsEntry, Entry
  <2>4. QED
    BY <1>7, <2>1, <2>3
<1>9. Named(i)
  <2>1. SUFFICES ASSUME ~Named(i) PROVE FALSE
    OBVIOUS
  <2>2. List = <<Entry(TimeFrames[i], 0)>>
    BY <1>2, <2>1, ListAll DEF List
  <2>3. Len(List) = 1
    BY <2>2
  <2>4. n = 1 /\ Taken = 1
    <3> HIDE DEF n
    <3>1. QED
      BY <1>30, <2>3
  <2>5. s = run.buffer
    BY <1>8, <2>1 DEF Inner, Named
  <2>6. s \in Seq(BarType) /\ s # <<>>
    BY <1>2, <2>5
  <2>7. PICK j \in 1..Len(s) : b = s[j] /\ (j = Len(s) => ~(s[j].endDate - 1 > p.endDate))
    <3> HIDE DEF s, p
    <3>1. QED
      BY <1>5, <2>6, KeptIs
  <2>8. j = 1 /\ ~(run.buffer[1].endDate - 1 > p.endDate)
    <3>1. Len(s) = 1
      BY <2>4, <2>5
    <3> HIDE DEF s, p
    <3>2. j = 1
      BY <2>7, <3>1
    <3>3. ~(s[1].endDate - 1 > p.endDate)
      BY <2>7, <3>1, <3>2
    <3>4. QED
      BY <2>5, <3>2, <3>3
  <2>9. run.buffer[1].endDate = Newest + 2
    <3>1. 1 \in 1..n /\ Place(1) \in 1..Len(List)
      BY <1>2, <1>3
    <3>2. Place(1) = 1
      BY <2>3, <3>1
    <3>3. run.buffer[1].endDate = Entry(TimeFrames[i], 0).endDate
      BY <1>7, <2>2, <3>1, <3>2
    <3>4. QED
      BY <2>1, <3>3 DEF Entry, Named
  <2>10. QED
    BY <1>4, <2>8, <2>9
<1>10. s = SubSeq(run.buffer, 2, n - 1)
  BY <1>8, <1>9 DEF Inner, Named
<1>11. /\ s \in Seq(BarType) /\ Len(s) \in Nat /\ Len(s) >= 1 /\ Len(s) = n - 2
       /\ \A j \in 1..Len(s) : s[j] = run.buffer[j + 1]
  <2> HIDE DEF s
  <2>1. s # <<>>
    BY DEF s
  <2>2. n - 1 \in Nat /\ n \in Nat
    BY <1>2, <1>3
  <2>3. s \in Seq(BarType) /\ (2 <= n - 1 => Len(s) = n - 2) /\ (~(2 <= n - 1) => s = <<>>)
    <3> DEFINE r == run.buffer
    <3>1. r \in Seq(BarType) /\ Len(r) = n
      BY <1>2
    <3> HIDE DEF n, r
    <3>2. 2 <= n - 1 => SubSeq(r, 2, n - 1) \in Seq(BarType) /\ Len(SubSeq(r, 2, n - 1)) = n - 2
      BY <2>2, <3>1
    <3>3. ~(2 <= n - 1) => SubSeq(r, 2, n - 1) = <<>>
      BY <2>2, <3>1
    <3>4. QED
      BY <1>10, <3>2, <3>3 DEF n, r
  <2>4. 2 <= n - 1
    BY <2>1, <2>3
  <2>5. Len(s) = n - 2 /\ 2 <= n - 1
    BY <2>3, <2>4
  <2>6. \A j \in 1..(n - 2) : s[j] = run.buffer[j + 1]
    <3>1. \A j \in 1..(n - 2) : s[j] = run.buffer[2 + j - 1] /\ 2 + j - 1 = j + 1
      BY <1>2, <1>10, <2>2, <2>5
    <3>2. QED
      BY <3>1
  <2>7. QED
    BY <2>2, <2>3, <2>5, <2>6
<1>12. PICK j \in 1..Len(s) :
         /\ b = s[j]
         /\ j = 1 => ~(s[1].startDate < p.startDate /\ p.startDate # run.minDate)
         /\ j = Len(s) => ~(s[j].endDate - 1 > p.endDate)
  <2>1. s # <<>>
    OBVIOUS
  <2> HIDE DEF s, p
  <2>2. QED
    BY <1>5, <1>11, <2>1, KeptIs
<1> HIDE DEF s
<1>13. n >= 3 /\ j + 1 \in 1..n /\ j + 1 < n /\ j \in Nat /\ j >= 1
  <2>1. Len(s) = n - 2 /\ Len(s) \in Nat /\ Len(s) >= 1 /\ j \in 1..Len(s)
    BY <1>11
  <2> HIDE DEF n
  <2>2. QED
    BY <1>30, <2>1
<1>14. PICK m \in 2..Taken : m = Place(j + 1) /\ m = Taken - n + (j + 1)
  <2>1. Place(j + 1) = Taken - n + (j + 1)
    BY DEF Place
  <2>2. Taken \in Nat /\ n \in Nat /\ n <= Taken
    <3>1. Taken \in 0..Len(List) /\ Len(List) \in Nat
      BY <1>2
    <3>2. QED
      BY <1>2, <3>1
  <2> HIDE DEF n
  <2>3. Taken - n + (j + 1) \in 2..Taken
    BY <1>13, <2>2
  <2>4. QED
    BY <2>1, <2>3
<1>15. /\ e = List[m] /\ IsEntry(i, e) /\ m \in 1..Len(List)
       /\ s[j].startDate = e.startDate /\ s[j].endDate = e.endDate
  <2>1. s[j] = run.buffer[j + 1]
    BY <1>11
  <2>2. m \in 1..Len(List)
    BY <1>2, <1>13, <1>14
  <2>3. QED
    BY <1>2, <1>5, <1>7, <1>12, <1>13, <1>14, <2>1, <2>2
<1>16. PICK c \in Nat, from \in Nat :
              /\ c >= 1 /\ Len(List) = c + 2
              /\ from % Sz(i) = 0 /\ from <= p.startDate /\ p.startDate < from + Sz(i)
              /\ (c - 1) * Sz(i) <= p.endDate - p.startDate
              /\ \A k \in 1..(c + 2) : List[k] = Entry(TimeFrames[i], from + (k - 2) * Sz(i))
  <2> HIDE DEF p, i
  <2>1. PICK c \in Nat, from \in Nat :
              /\ c >= 1 /\ Len(Intervals(p, TimeFrames[i])) = c + 2
              /\ from % Sz(i) = 0 /\ from <= p.startDate /\ p.startDate < from + Sz(i)
              /\ (c - 1) * Sz(i) <= p.endDate - p.startDate
              /\ \A k \in 1..(c + 2) :
                   Intervals(p, TimeFrames[i])[k] = Entry(TimeFrames[i], from + (k - 2) * Sz(i))
    BY <1>2, <1>4, <1>9, ListIs
  <2>2. Intervals(p, TimeFrames[i]) = List
    BY DEF List, p, i
  <2>3. QED
    BY <2>1, <2>2
<1> DEFINE d == Sz(i)
<1>17. d \in Nat /\ d > 1
  BY <1>2, <1>9, FrameType
<1>18. m \in Nat /\ m >= 2 /\ m <= Taken /\ Taken <= c + 2 /\ m <= c + 1 /\ Taken \in Nat
  <2>1. Taken \in 0..(c + 2)
    BY <1>2, <1>16
  <2>2. Taken \in Nat /\ Taken <= c + 2
    BY <2>1
  <2>3. m < Taken
    <3>1. n \in Nat /\ j \in Nat /\ j + 1 < n
      BY <1>2, <1>13
    <3> HIDE DEF n
    <3>2. QED
      BY <1>14, <2>2, <3>1
  <2>4. QED
    BY <1>14, <2>2, <2>3
<1>19. e.startDate = from + (m - 2) * d /\ e.endDate = e.startDate + d - 1 /\ e.startDate \in Int
  <2>1. e.startDate \in Int /\ e.endDate = e.startDate + d - 1
    BY <1>2, <1>9, <1>15, NamedEntry
  <2>2. e = Entry(TimeFrames[i], from + (m - 2) * d)
    BY <1>15, <1>16
  <2>3. e.startDate = from + (m - 2) * d
    BY <2>2 DEF Entry
  <2>4. QED
    BY <2>1, <2>3
<1> HIDE DEF d
<1> DEFINE u == p.startDate
           v == p.endDate
           t == from + (m - 2) * d
<1>20. t \in Nat /\ t + d - 1 >= u /\ (m # 2 => t >= u) /\ (m <= c => t + d - 2 <= v)
  <2>1. /\ u \in Nat /\ v \in Nat /\ u <= v /\ from <= u /\ u < from + d
        /\ (c - 1) * d <= v - u
    BY <1>4, <1>16 DEF d
  <2>2. d \in Nat /\ d > 1 /\ m \in Nat /\ 2 <= m /\ m <= c + 1
    BY <1>17, <1>18
  <2> HIDE DEF u, v
  <2>3. QED
    BY <2>1, <2>2, PlacedAt
<1>19a. e.startDate = t /\ e.endDate = t + d - 1
  BY <1>19
<1> HIDE DEF t
<1>21. e.startDate >= p.startDate \/ p.startDate = Oldest
  <2>1. CASE m # 2
    BY <1>19a, <1>20, <2>1
  <2>2. CASE m = 2
    <3>1. j = 1
      <4> HIDE DEF n
      <4>1. m = Taken - n + (j + 1) /\ j \in Nat /\ j >= 1
        BY <1>13, <1>14
      <4>2. QED
        BY <1>30, <2>2, <4>1
    <3>2. ~(e.startDate < p.startDate /\ p.startDate # run.minDate)
      BY <1>12, <1>15, <3>1
    <3>3. p.startDate \in Nat /\ e.startDate \in Nat /\ NoDate \notin Nat
      BY <1>4, <1>19a, <1>20 DEF NoDate
    <3>4. p.startDate = run.minDate => p.startDate = Oldest
      BY <1>6, <3>3
    <3>5. QED
      BY <3>2, <3>3, <3>4
  <2>3. QED
    BY <2>1, <2>2
<1>22. e.endDate - 1 <= p.endDate
  <2>1. CASE j = Len(s)
    <3>1. ~(e.endDate - 1 > p.endDate)
      BY <1>12, <1>15, <2>1
    <3>2. e.endDate \in Int /\ p.endDate \in Int
      BY <1>4, <1>17, <1>19a, <1>20
    <3>3. QED
      BY <3>1, <3>2
  <2>2. CASE j # Len(s)
    <3>1. m <= c
      <4>1. j + 2 < n
        <5>1. Len(s) = n - 2 /\ j < Len(s)
          BY <1>11, <2>2
        <5> HIDE DEF n
        <5>2. QED
          BY <1>13, <1>30, <5>1
      <4> HIDE DEF n
      <4>2. m < Taken - 1
        BY <1>13, <1>14, <1>30, <4>1
      <4>3. QED
        BY <1>18, <4>2
    <3>2. t + d - 2 <= v
      BY <1>20, <3>1
    <3>3. QED
      BY <1>4, <1>17, <1>19a, <1>20, <3>2
  <2>3. QED
    BY <2>1, <2>2
<1>23. e.endDate >= p.startDate /\ e.startDate \in Nat
  BY <1>19a, <1>20
<1>24. \E k \in 2..Taken : e = List[k]
  BY <1>14, <1>15
<1>25. QED
  BY <1>9, <1>15, <1>21, <1>22, <1>23, <1>24

-----------------------------------------------------------------------------
(* Every instant of the range, and the one before it, is in an interval of  *)
(* the list.                                                                *)
LEMMA ListCovers ==
  ASSUME ~NewestFirst, NEW i \in DOMAIN TimeFrames, Named(i),
         NEW p, IsRange(p), p.startDate \in Nat,
         NEW x \in Nat, p.startDate - 1 <= x, x <= p.endDate
  PROVE  \E k \in 1..Len(Intervals(p, TimeFrames[i])) : Intervals(p, TimeFrames[i])[k] = SlotOf(i, x)
<1> DEFINE l == Intervals(p, TimeFrames[i])
           d == Sz(i)
           u == p.startDate
           v == p.endDate
           t == SlotOf(i, x).startDate
<1>1. PICK c \in Nat, s \in Nat :
              /\ c >= 1 /\ Len(l) = c + 2
              /\ s % d = 0 /\ s <= u /\ u < s + d
              /\ v - u <= c * d
              /\ \A k \in 1..(c + 2) : l[k] = Entry(TimeFrames[i], s + (k - 2) * d)
  BY ListIs
<1>2. d \in Nat /\ d > 0
  BY FrameType
<1>3. t \in Nat /\ t % d = 0 /\ t <= x /\ x < t + d /\ SlotOf(i, x) = Entry(TimeFrames[i], t)
  <2>1. IsEntry(i, SlotOf(i, x)) /\ t \in Nat /\ x \in Instants(SlotOf(i, x))
    BY SlotIs
  <2>2. t % d = 0 /\ SlotOf(i, x).endDate = t + d - 1
    BY <2>1, NamedEntry
  <2>3. QED
    BY <1>2, <2>1, <2>2 DEF Instants, IsEntry
<1>4. u \in Nat /\ v \in Nat /\ u - 1 <= x /\ x <= v
  BY DEF IsRange, AnyRange
<1> HIDE DEF l, d, u, v, t
<1>5. PICK a \in Int : s = d * a
  <2>1. s \in Int /\ s % d = 0
    BY <1>1
  <2>2. s \div d \in Int /\ s = d * (s \div d) + (s % d)
    BY <1>2, <2>1, MultipleIs
  <2>3. s = d * (s \div d)
    BY <1>2, <2>1, <2>2
  <2>4. QED
    BY <2>2, <2>3
<1>6. PICK b \in Int : t = d * b
  BY <1>2, <1>3, MultipleIs
<1>7. a <= b + 1
  <2>1. s < t + d + 1
    BY <1>1, <1>2, <1>3, <1>4
  <2>2. ~(b + 2 <= a)
    <3>1. b + 2 <= a => d * (b + 2) <= d * a
      BY <1>2, <1>5, <1>6, ProductGrows
    <3>2. d * (b + 2) = t + d + d
      BY <1>2, <1>6
    <3>3. b + 2 <= a => t + d + d <= s
      BY <1>5, <3>1, <3>2
    <3>4. s \in Nat /\ t \in Nat
      BY <1>1, <1>3
    <3>5. QED
      BY <1>2, <2>1, <3>3, <3>4
  <2>3. QED
    BY <1>5, <1>6, <2>2
<1>8. b <= a + c
  <2>1. c * d \in Int /\ c * d = d * c
    BY <1>1, <1>2
  <2>2. t < s + d + c * d
    BY <1>1, <1>2, <1>3, <1>4, <2>1
  <2>3. d * (a + c + 1) = s + d + c * d
    BY <1>1, <1>2, <1>5
  <2>4. a + c + 1 <= b => d * (a + c + 1) <= d * b
    BY <1>1, <1>2, <1>5, <1>6, ProductGrows
  <2>5. ~(a + c + 1 <= b)
    <3>1. a + c + 1 <= b => s + d + c * d <= t
      BY <1>6, <2>3, <2>4
    <3>2. s \in Nat /\ t \in Nat
      BY <1>1, <1>3
    <3>3. QED
      BY <1>2, <2>1, <2>2, <3>1, <3>2
  <2>6. QED
    BY <1>1, <1>5, <1>6, <2>5
<1>9. PICK k \in 1..(c + 2) : k - 2 = b - a
  <2>1. b - a + 2 \in 1..(c + 2) /\ (b - a + 2) - 2 = b - a
    BY <1>1, <1>5, <1>6, <1>7, <1>8
  <2>2. QED
    BY <2>1
<1>10. s + (k - 2) * d = t
  <2>1. s + (b - a) * d = d * b
    <3>1. (b - a) * d = d * b - d * a
      BY <1>2, <1>5, <1>6
    <3>2. d * a \in Int /\ d * b \in Int
      BY <1>2, <1>5, <1>6
    <3>3. QED
      BY <1>5, <3>1, <3>2
  <2>2. QED
    BY <1>6, <1>9, <2>1
<1>11. l[k] = SlotOf(i, x) /\ k \in 1..Len(l)
  BY <1>1, <1>3, <1>9, <1>10
<1>12. QED
  BY <1>11 DEF l

(* All of such an interval that the history has was given to the call, its  *)
(* last instant excepted.                                                   *)
LEMMA NewlyWithin ==
  ASSUME ~NewestFirst, StatsInv, run.at = "states", Inner(run.buffer) # <<>>, NEW e \in Newly
  PROVE  /\ \A y \in Instants(e) : y >= Oldest /\ y # e.endDate => y \in Cover(run.all)
         /\ e.endDate <= Oldest => e.endDate \in Cover(run.all)
<1> DEFINE p == run.ranges[1]
<1>1. /\ IsEntry(run.i, e) /\ e.startDate \in Nat /\ Named(run.i)
      /\ e.startDate >= p.startDate \/ p.startDate = Oldest
      /\ e.endDate - 1 <= p.endDate
      /\ e.endDate >= p.startDate
  BY NewlyIs
<1>2. run.at \in RangeStates /\ run.at \in BatchStates
  BY DEF RangeStates, BatchStates
<1>3. run.ranges # <<>> /\ run.i \in DOMAIN TimeFrames
  BY <1>2 DEF StatsInv, BatchInv, FrameInv
<1>4. /\ IsRange(p) /\ p.startDate \in Nat /\ p.endDate \in Nat
      /\ Instants(p) \subseteq Cover(run.all) /\ Instants(p) \subseteq Oldest..Newest
  BY <1>2, <1>3, PendingIs
<1>5. e.endDate \in Int
  BY <1>1, <1>3, NamedEntry
<1>6. p.startDate <= p.endDate /\ Oldest <= p.startDate /\ Oldest \in Nat
  <2>1. p.startDate <= p.endDate
    BY <1>4 DEF IsRange
  <2>2. p.startDate \in Instants(p)
    BY <1>4, <2>1 DEF Instants
  <2>3. p.startDate \in Oldest..Newest
    BY <1>4, <2>2
  <2>4. QED
    BY <2>1, <2>3, HistoryDates
<1> HIDE DEF p
<1>7. ASSUME NEW y \in Instants(e), y >= Oldest, y # e.endDate PROVE y \in Instants(p)
  <2>1. y \in Int /\ e.startDate <= y /\ y <= e.endDate - 1
    BY <1>1, <1>5, <1>7 DEF Instants
  <2>2. p.startDate <= y /\ y <= p.endDate
    BY <1>1, <1>4, <1>5, <1>6, <1>7, <2>1
  <2>3. QED
    BY <1>4, <2>1, <2>2 DEF Instants
<1>8. ASSUME e.endDate <= Oldest PROVE e.endDate \in Instants(p)
  <2>1. e.endDate = p.startDate
    BY <1>1, <1>4, <1>5, <1>6, <1>8
  <2>2. QED
    BY <1>4, <1>6, <2>1 DEF Instants
<1>9. QED
  BY <1>4, <1>7, <1>8

(* What the batch has calculated, as "states" sees it.                      *)
LEMMA TakenCalculated ==
  ASSUME ~NewestFirst, StatsInv, run.at = "states", Named(run.i), NEW m \in 1..Taken,
         NEW x \in Due, x \in Instants(List[m])
  PROVE  /\ x \in DataOf(List[m]) \/ Excused(run.i, x)
         /\ Calculated(run.i, x)
<1>1. run.at \in BatchStates
  BY DEF BatchStates
<1>2. Calculated(run.i, x)
  BY <1>1 DEF StatsInv, BatchInv, SavedUpTo
<1>3. run.i \in DOMAIN TimeFrames /\ m \in 1..Len(List) /\ IsEntry(run.i, List[m]) /\ run.at # "idle"
  <2>1. /\ run.i \in DOMAIN TimeFrames /\ run.at # "idle"
        /\ Len(List) \in Nat /\ Taken \in 0..Len(List)
        /\ \A k \in 1..Len(List) : IsEntry(run.i, List[k])
    BY <1>1, BatchIs
  <2>2. m \in 1..Len(List)
    BY <2>1
  <2>3. QED
    BY <2>1, <2>2
<1>4. x \in Nat
  BY <1>3, CallDates DEF Due
<1>5. List[m] = SlotOf(run.i, x)
  BY <1>3, <1>4, SlotIs
<1>6. QED
  BY <1>2, <1>5 DEF Calculated

(* A batch records intervals with all their events, the last instant        *)
(* excepted.                                                                *)
LEMMA NewlyExact ==
  ASSUME ~NewestFirst, StatsInv, run.at = "states", Inner(run.buffer) # <<>>, NEW e \in Newly,
         NEW x \in Event \cap Instants(e), x # e.endDate, x \notin Overlooked
  PROVE  x \in DataOf(e)
<1>1. /\ IsEntry(run.i, e) /\ e.startDate \in Nat /\ Named(run.i) /\ \E m \in 2..Taken : e = List[m]
  BY NewlyIs
<1>2. PICK m \in 2..Taken : e = List[m]
  BY <1>1
<1>3. run.i \in DOMAIN TimeFrames
  BY DEF StatsInv, FrameInv, RangeStates, BatchStates
<1>4. x \in Oldest..Newest /\ Oldest \in Nat /\ x \in Nat /\ x >= Oldest
  BY HistoryDates
<1>5. x \in Due
  BY <1>4, NewlyWithin DEF Due
<1>6. m \in 1..Taken
  BY <1>2
<1>7. x \in DataOf(e) \/ Excused(run.i, x)
  BY <1>1, <1>2, <1>5, <1>6, TakenCalculated
<1>8. ASSUME Excused(run.i, x) PROVE FALSE
  <2>1. e.endDate \in Int /\ e.startDate \in Int /\ e.startDate <= x /\ x < e.endDate
    BY <1>1, <1>3, <1>4, NamedEntry DEF Instants
  <2>2. x + 1 \in Instants(e) /\ x + 1 >= Oldest
    BY <1>4, <2>1 DEF Instants
  <2>3. x + 1 \notin Cover(run.all) /\ SharesEnd(Sz(run.i), x)
    BY <1>8 DEF Excused
  <2>4. x + 1 = e.endDate
    BY <2>2, <2>3, NewlyWithin
  <2>5. x = e.endDate - 1
    BY <1>4, <2>1, <2>4
  <2>6. ~SharesEnd(Sz(run.i), e.endDate - 1)
    BY <1>1, <1>3, SharesNoNext
  <2>7. QED
    BY <2>3, <2>5, <2>6
<1>9. QED
  BY <1>7, <1>8

(* The last event of an interval whose next one is recorded as well.        *)
LEMMA NewlyNext ==
  ASSUME ~NewestFirst, StatsInv, run.at = "states", Inner(run.buffer) # <<>>,
         NEW e \in recorded \cup Newly, NEW h \in recorded \cup Newly,
         h = GetNextInterval(e), e \in Newly \/ h \in Newly,
         e.endDate \in Event, e.endDate \notin Overlooked
  PROVE  e.endDate \in DataOf(e)
<1> DEFINE i == run.i
           x == e.endDate
           C == Cover(run.all)
<1>1. run.at \in BatchStates /\ run.at \in RangeStates /\ run.at # "idle"
  BY DEF BatchStates, RangeStates
<1>2. /\ i \in DOMAIN TimeFrames /\ Len(List) \in Nat /\ Taken \in 0..Len(List)
      /\ \A k \in 1..Len(List) : IsEntry(i, List[k])
  BY <1>1, BatchIs
<1>3. RecordedInv /\ Within(C) /\ \E H \in SUBSET processed : C = From(H)
  BY <1>1 DEF StatsInv, StatsCallInv
<1>4. Named(i) /\ IsEntry(i, e) /\ e.startDate \in Nat /\ IsEntry(i, h)
  <2>1. h.frame = e.frame
    BY DEF GetNextInterval, Entry
  <2>2. CASE e \in Newly
    <3>1. Named(i) /\ IsEntry(i, e) /\ e.startDate \in Nat
      BY <2>2, NewlyIs
    <3>2. QED
      BY <1>2, <3>1, NextIs
  <2>3. CASE e \notin Newly
    <3>1. e \in recorded /\ h \in Newly
      BY <2>3
    <3>2. Named(i) /\ IsEntry(i, h)
      BY <3>1, NewlyIs
    <3>3. e.frame = TimeFrames[i]
      BY <1>2, <2>1, <3>2, NamedEntry
    <3>4. IsEntry(i, e) /\ e.startDate \in Nat
      BY <1>2, <1>3, <3>1, <3>3, RecordedIs
    <3>5. QED
      BY <3>2, <3>4
  <2>4. QED
    BY <2>2, <2>3
<1>5. /\ e.startDate < x /\ x \in Nat /\ x = e.startDate + Sz(i) - 1 /\ h.startDate = x + 1
      /\ h.endDate > h.startDate /\ h.endDate \in Int /\ e.startDate % Sz(i) = 0
      /\ Sz(i) \in Nat /\ Sz(i) > 1
  <2>1. /\ e.startDate < x /\ x = e.startDate + Sz(i) - 1 /\ x \in Int /\ e.startDate % Sz(i) = 0
    BY <1>2, <1>4, NamedEntry
  <2>2. h.startDate = x + 1
    BY <1>2, <1>4, NextIs
  <2>3. h.endDate > h.startDate /\ h.endDate \in Int
    BY <1>2, <1>4, NamedEntry
  <2>4. Sz(i) \in Nat /\ Sz(i) > 1
    BY <1>2, <1>4, FrameType
  <2>5. QED
    BY <1>4, <2>1, <2>2, <2>3, <2>4
<1>6. x \in Oldest..Newest /\ Oldest \in Nat /\ Newest \in Nat /\ x >= Oldest
  <2>1. x \in Event
    OBVIOUS
  <2> HIDE DEF x
  <2>2. x \in Oldest..Newest /\ Oldest \in Nat /\ Newest \in Nat
    BY <2>1, HistoryDates
  <2>3. QED
    BY <2>2
<1>7. \A r \in recorded \cup Newly :
        /\ \A y \in Instants(r) : y >= Oldest /\ y # r.endDate => y \in C
        /\ r.endDate <= Oldest => r.endDate \in C
  BY <1>3, NewlyWithin DEF Within
<1>8. x + 1 \in C
  <2>1. x + 1 \in Instants(h)
    BY <1>5 DEF Instants
  <2>2. x + 1 # h.endDate /\ x + 1 >= Oldest
    BY <1>5, <1>6
  <2>3. QED
    BY <1>7, <2>1, <2>2
<1>9. \E m \in 1..Taken : e = List[m]
  <2>0. Taken \in Nat /\ Taken <= Len(List) /\ Len(List) \in Nat
    BY <1>2
  <2>1. CASE e \in Newly
    <3>1. PICK m \in 2..Taken : e = List[m]
      BY <2>1, NewlyIs
    <3>2. m \in 1..Taken
      OBVIOUS
    <3>3. QED
      BY <3>1, <3>2
  <2>2. CASE h \in Newly
    <3>1. PICK m \in 2..Taken : h = List[m]
      BY <2>2, NewlyIs
    <3> DEFINE p == run.ranges[1]
    <3>2. run.ranges # <<>>
      BY <1>1 DEF StatsInv, BatchInv
    <3>3. IsRange(p) /\ p.startDate \in Nat
      BY <1>1, <3>2, PendingIs
    <3>4. PICK c \in Nat, s \in Nat :
            /\ Len(List) = c + 2
            /\ \A k \in 1..(c + 2) : List[k] = Entry(TimeFrames[i], s + (k - 2) * Sz(i))
      <4> HIDE DEF i, p
      <4>1. i \in DOMAIN TimeFrames /\ Named(i)
        BY <1>2, <1>4
      <4>2. LET l == Intervals(p, TimeFrames[i])
            IN \E c \in Nat, s \in Nat :
                 /\ c >= 1 /\ Len(l) = c + 2 /\ DOMAIN l = 1..(c + 2)
                 /\ s % Sz(i) = 0 /\ s <= p.startDate /\ p.startDate < s + Sz(i)
                 /\ (c - 1) * Sz(i) <= p.endDate - p.startDate
                 /\ p.endDate - p.startDate <= c * Sz(i)
                 /\ \A k \in 1..(c + 2) : l[k] = Entry(TimeFrames[i], s + (k - 2) * Sz(i))
        BY <3>3, <4>1, ListIs, Zenon
      <4>3. Intervals(p, TimeFrames[i]) = List
        BY DEF List, p, i
      <4>4. QED
        BY <4>2, <4>3, Zenon
    <3>5. m \in 1..(c + 2) /\ m - 1 \in 1..(c + 2) /\ m - 1 \in 1..Taken /\ m \in Int
      BY <2>0, <3>1, <3>4
    <3> DEFINE q == m - 1
               d == Sz(i)
    <3>6. h.startDate = s + (m - 2) * d /\ List[q] = Entry(TimeFrames[i], s + (q - 2) * d)
      <4>1. h = Entry(TimeFrames[i], s + (m - 2) * d)
        BY <3>1, <3>4, <3>5
      <4>2. h.startDate = s + (m - 2) * d
        BY <4>1 DEF Entry
      <4>3. QED
        BY <3>4, <3>5, <4>2
    <3>7. e.startDate = h.startDate - d /\ d \in Nat
      BY <1>4, <1>5
    <3>8. (q - 2) * d = (m - 2) * d - d /\ (m - 2) * d \in Int
      <4> HIDE DEF d
      <4>1. q - 2 = (m - 2) - 1 /\ m - 2 \in Int
        BY <3>5
      <4>2. ((m - 2) - 1) * d = (m - 2) * d - d
        BY <3>7, <4>1
      <4>3. QED
        BY <3>7, <4>1, <4>2
    <3>9. s + (q - 2) * d = e.startDate
      <4> HIDE DEF d, q
      <4>1. QED
        BY <3>4, <3>6, <3>7, <3>8
    <3>10. e = List[q]
      <4>1. e = Entry(TimeFrames[i], e.startDate)
        BY <1>4 DEF IsEntry
      <4>2. QED
        BY <3>6, <3>9, <4>1
    <3>11. QED
      BY <3>5, <3>10
  <2>3. QED
    BY <2>1, <2>2
<1>10. CASE x \in C
  <2>1. PICK m \in 1..Taken : e = List[m]
    BY <1>9
  <2>2. x \in Due /\ x \in Instants(e)
    BY <1>4, <1>5, <1>10 DEF Due, Instants
  <2>3. x \in DataOf(e) \/ Excused(i, x)
    BY <1>4, <2>1, <2>2, TakenCalculated
  <2>4. ~Excused(i, x)
    BY <1>8 DEF Excused
  <2>5. QED
    BY <2>3, <2>4
<1>11. CASE x \notin C
  <2>1. PICK H \in SUBSET processed : C = From(H)
    BY <1>3
  <2>2. H \in SUBSET DOMAIN Chunks
    BY ChunkType DEF StatsInv, StatsTypeOK
  <2>3. x - 1 \in C
    <3>1. x - 1 >= Oldest
      <4>1. ~(x <= Oldest)
        BY <1>7, <1>11
      <4>2. QED
        BY <1>5, <1>6, <4>1
    <3>2. x - 1 \in Instants(e) /\ x - 1 # x
      <4>1. e.startDate \in Nat /\ x \in Nat /\ e.startDate < x
        BY <1>4, <1>5
      <4>2. Instants(e) = e.startDate..x
        BY DEF Instants
      <4> HIDE DEF x
      <4>3. QED
        BY <4>1, <4>2
    <3>3. QED
      BY <1>7, <3>1, <3>2
  <2>4. DateRange(x, x) \in Range(Chunks)
    <3> HIDE DEF x, C
    <3>1. QED
      BY <1>6, <1>8, <1>11, <2>1, <2>2, <2>3, GapIsChunk
  <2>5. TimeFrames[i] \in Frames \ {"All"} /\ (x + 1) % Size[TimeFrames[i]] = 0
    <3>1. TimeFrames[i] \in Frames \ {"All"}
      BY <1>2, <1>4, FrameType DEF Named
    <3>2. h.startDate % Sz(i) = 0
      BY <1>2, <1>4, NamedEntry
    <3>3. QED
      BY <1>5, <3>1, <3>2 DEF Sz
  <2>6. x \in Overlooked
    BY <2>4, <2>5 DEF Overlooked
  <2>7. QED
    BY <2>6
<1>12. QED
  BY <1>10, <1>11

-----------------------------------------------------------------------------
LEMMA NewlyFinite ==
  ASSUME ~NewestFirst, StatsInv, run.at = "states", Inner(run.buffer) # <<>>
  PROVE  IsFiniteSet(Newly)
<1> DEFINE D == 1..Len(List)
           R == {List[k] : k \in D}
           f == [k \in D |-> List[k]]
<1>1. Len(List) \in Nat /\ Taken \in 0..Len(List)
  BY BatchIs DEF BatchStates
<1>2. IsFiniteSet(D)
  BY <1>1, FS_Interval
<1>3. f \in Surjection(D, R)
  BY DEF Surjection
<1>4. Newly \in SUBSET R
  <2>1. ASSUME NEW e \in Newly PROVE e \in R
    <3>1. PICK m \in 2..Taken : e = List[m]
      BY NewlyIs
    <3>2. m \in D
      BY <1>1
    <3>3. QED
      BY <3>1, <3>2
  <2>2. QED
    BY <2>1
<1> HIDE DEF D, R, f
<1>5. IsFiniteSet(R)
  BY <1>2, <1>3, FS_Surjection
<1>6. QED
  BY <1>4, <1>5, FS_Subset

(* What a batch records keeps what is true of all that is recorded.         *)
LEMMA NewlyRecorded ==
  ASSUME ~NewestFirst, StatsInv, run.at = "states", Inner(run.buffer) # <<>>,
         UNCHANGED <<history, bars>>, recorded' = recorded \cup Newly
  PROVE  RecordedInv' /\ \A C : C = Cover(run.all) => Within(C)'
<1>1. run.at # "idle" /\ run.at \in RangeStates
  BY DEF RangeStates, BatchStates
<1>2. RecordedInv /\ Within(Cover(run.all)) /\ \E H \in SUBSET processed : Cover(run.all) = From(H)
  BY <1>1 DEF StatsInv, StatsCallInv
<1>3. run.i \in DOMAIN TimeFrames
  BY <1>1 DEF StatsInv, FrameInv
<1>4. \A r \in recorded \cup Newly :
        /\ \A y \in Instants(r) : y >= Oldest /\ y # r.endDate => y \in Cover(run.all)
        /\ r.endDate <= Oldest => r.endDate \in Cover(run.all)
  BY <1>2, NewlyWithin DEF Within
<1>5. \A C : C = Cover(run.all) => Within(C)'
  BY <1>4 DEF Within
<1>6. Within(From(processed))'
  <2>1. Cover(run.all) \subseteq From(processed)
    BY <1>2 DEF From, Cover
  <2>2. processed' = processed
    BY DEF history
  <2>3. \A r \in recorded \cup Newly :
          /\ \A y \in Instants(r) : y >= Oldest /\ y # r.endDate => y \in From(processed)
          /\ r.endDate <= Oldest => r.endDate \in From(processed)
    BY <1>4, <2>1
  <2>4. QED
    BY <2>2, <2>3 DEF Within
<1>7. \A e : DataOf(e)' = DataOf(e)
  BY DEF DataOf
<1>8. IsFiniteSet(recorded')
  BY <1>2, NewlyFinite, FS_Union DEF RecordedInv
<1>9. \A e \in recorded' : e.startDate \in Nat
                           /\ \E i \in DOMAIN TimeFrames : Named(i) /\ IsEntry(i, e)
  BY <1>2, <1>3, NewlyIs DEF RecordedInv
<1>10. ASSUME NEW e \in recorded', NEW h \in recorded', h = GetNextInterval(e),
              e.endDate \in Event, e.endDate \notin Overlooked
       PROVE  e.endDate \in DataOf(e)
  <2>1. CASE e \in Newly \/ h \in Newly
    BY <1>10, <2>1, NewlyNext
  <2>2. CASE ~(e \in Newly \/ h \in Newly)
    BY <1>2, <1>10, <2>2 DEF RecordedInv
  <2>3. QED
    BY <2>1, <2>2
<1>11. ASSUME NEW e \in recorded', NEW x \in Event \cap Instants(e), x # e.endDate, x \notin Overlooked
       PROVE  x \in DataOf(e)
  <2>1. CASE e \in Newly
    BY <1>11, <2>1, NewlyExact
  <2>2. CASE e \notin Newly
    BY <1>2, <1>11, <2>2 DEF RecordedInv
  <2>3. QED
    BY <2>1, <2>2
<1>12. Overlooked' = Overlooked
  BY DEF Overlooked
<1>13. RecordedInv'
  <2>1. (\A e, h \in recorded :
          (h = GetNextInterval(e) /\ e.endDate \in Event \ Overlooked) => e.endDate \in DataOf(e))'
    BY <1>7, <1>10, <1>12
  <2>2. (\A e \in recorded :
          (Event \cap Instants(e)) \ ({e.endDate} \cup Overlooked) \subseteq DataOf(e))'
    BY <1>7, <1>11, <1>12
  <2>3. QED
    BY <1>6, <1>8, <1>9, <2>1, <2>2 DEF RecordedInv
<1>14. QED
  BY <1>5, <1>13

(* With its last interval a range is done with, and the instant before it.  *)
LEMMA RangeDone ==
  ASSUME ~NewestFirst, StatsInv, run.at = "states", run.todo = <<>>, Named(run.i),
         NEW x \in Due, x \notin Cover(Range(Tail(run.ranges))), x + 1 \notin Cover(Range(Tail(run.ranges)))
  PROVE  Calculated(run.i, x)
<1> DEFINE i == run.i
           p == run.ranges[1]
<1>1. run.at \in BatchStates /\ run.at \in RangeStates /\ run.at # "idle"
  BY DEF BatchStates, RangeStates
<1>2. i \in DOMAIN TimeFrames /\ Len(List) \in Nat
  BY <1>1, BatchIs
<1>3. run.ranges # <<>> /\ run.ranges \in Seq(AnyRange)
  BY <1>1 DEF StatsInv, BatchInv, FrameInv
<1>4. IsRange(p) /\ p.startDate \in Nat /\ p.endDate \in Nat /\ p.startDate <= p.endDate
  <2>1. IsRange(p) /\ p.startDate \in Nat /\ p.endDate \in Nat
    BY <1>1, <1>3, PendingIs
  <2>2. QED
    BY <2>1 DEF IsRange
<1>5. x \in Nat
  BY <1>1, CallDates DEF Due
<1>6. \A y \in Left : y \in Instants(p) \/ y \in Cover(Range(Tail(run.ranges)))
  <2> DEFINE s == run.ranges
             t == Tail(run.ranges)
  <2>1. /\ Len(s) \in Nat /\ Len(s) >= 1 /\ DOMAIN s = 1..Len(s)
        /\ DOMAIN t = 1..(Len(s) - 1) /\ \A k \in 1..(Len(s) - 1) : t[k] = s[k + 1]
    BY <1>3
  <2> HIDE DEF s, t
  <2>2. ASSUME NEW k \in 1..Len(s) PROVE s[k] = s[1] \/ s[k] \in Range(t)
    <3>1. CASE k = 1
      BY <3>1
    <3>2. CASE k # 1
      <4>1. k - 1 \in 1..(Len(s) - 1) /\ (k - 1) + 1 = k
        BY <2>1, <3>2
      <4>2. t[k - 1] = s[k] /\ k - 1 \in DOMAIN t
        BY <2>1, <4>1
      <4>3. QED
        BY <4>2 DEF Range
    <3>3. QED
      BY <3>1, <3>2
  <2>3. \A r \in Range(s) : r = s[1] \/ r \in Range(t)
    BY <2>1, <2>2 DEF Range
  <2>4. \A y \in Cover(Range(s)) : y \in Instants(s[1]) \/ y \in Cover(Range(t))
    BY <2>3 DEF Cover
  <2>5. QED
    BY <2>4 DEF Left, s, t
<1>7. CASE x \notin Left /\ x + 1 \notin Left
  BY <1>1, <1>7 DEF StatsInv, FrameInv
<1>8. CASE x \in Left \/ x + 1 \in Left
  <2>1. x \in Instants(p) \/ x + 1 \in Instants(p)
    BY <1>6, <1>8
  <2>2. p.startDate - 1 <= x /\ x <= p.endDate
    <3>1. Instants(p) = p.startDate..p.endDate
      BY DEF Instants
    <3> HIDE DEF p
    <3>2. QED
      BY <1>4, <1>5, <2>1, <3>1
  <2>3. PICK k \in 1..Len(List) : List[k] = SlotOf(i, x)
    <3> HIDE DEF p, i
    <3>1. \E k \in 1..Len(Intervals(p, TimeFrames[i])) : Intervals(p, TimeFrames[i])[k] = SlotOf(i, x)
      <4>1. Named(i)
        BY DEF i
      <4>2. QED
        BY <1>2, <1>4, <1>5, <2>2, <4>1, ListCovers
    <3>2. Intervals(p, TimeFrames[i]) = List
      BY DEF List, p, i
    <3>3. QED
      BY <3>1, <3>2
  <2>4. Taken = Len(List)
    <3>1. Len(run.todo) = 0
      OBVIOUS
    <3>2. QED
      BY <1>2, <3>1 DEF Taken
  <2>5. k \in 1..Taken
    BY <2>3, <2>4
  <2>6. x \in Instants(List[k])
    BY <1>2, <1>5, <2>3, SlotIs
  <2>7. QED
    BY <2>5, <2>6, TakenCalculated
<1>9. QED
  BY <1>7, <1>8

(* The states of the batch are saved, and the call goes on to the next one, *)
(* range or frame.                                                          *)
LEMMA SaveStatesKeeps == ~NewestFirst /\ StatsInv /\ SaveStates => StatsInv'
<1> SUFFICES ASSUME ~NewestFirst, StatsInv, SaveStates PROVE StatsInv'
  OBVIOUS
<1>1. /\ run.at = "states" /\ Inner(run.buffer) # <<>> /\ UNCHANGED <<history, bars>>
      /\ recorded' = recorded \cup Newly
      /\ run.at \in BatchStates /\ run.at \in RangeStates /\ run.at # "idle"
  BY DEF SaveStates, Newly, BatchStates, RangeStates
<1>2. RecordedInv' /\ \A C : C = Cover(run.all) => Within(C)'
  BY <1>1, NewlyRecorded
<1>3. /\ run.i \in DOMAIN TimeFrames
      /\ run.ranges \in Seq(AnyRange) /\ \A k \in DOMAIN run.ranges : IsRange(run.ranges[k])
      /\ Left \subseteq Cover(run.all)
      /\ Named(run.i) => \A x \in Due : x \notin Left /\ x + 1 \notin Left => Calculated(run.i, x)
  BY <1>1 DEF StatsInv, FrameInv
<1>4. /\ run.minDate \in {NoDate, Oldest}
      /\ IsFiniteSet(run.all) /\ \A r \in run.all : IsRange(r)
      /\ \E H \in SUBSET processed : Cover(run.all) = From(H)
      /\ run.i \in 1..(Len(TimeFrames) + 1)
      /\ \A j \in 1..(run.i - 1) : Named(j) => \A x \in Due : Calculated(j, x)
  BY <1>1 DEF StatsInv, StatsCallInv
<1>5. /\ run = [at |-> run.at, i |-> run.i, minDate |-> run.minDate, all |-> run.all,
                ranges |-> run.ranges, todo |-> run.todo, buffer |-> run.buffer]
      /\ run.ranges # <<>>
      /\ run.todo \in Seq(Range(List)) /\ Len(run.todo) <= Len(List)
      /\ \A k \in 1..Len(run.todo) : run.todo[k] = List[Taken + k]
  BY <1>1 DEF StatsInv, BatchInv
<1>6. run'.at \in {"intervals", "range"} /\ run'.i = run.i /\ run'.minDate = run.minDate /\ run'.all = run.all
  <2>1. CASE run.todo # <<>>
    <3>1. run' = [run EXCEPT !.at = "intervals", !.buffer = <<>>]
      BY <2>1 DEF SaveStates
    <3>2. run' = [at |-> "intervals", i |-> run.i, minDate |-> run.minDate, all |-> run.all,
                  ranges |-> run.ranges, todo |-> run.todo, buffer |-> <<>>]
      BY <1>5, <3>1
    <3>3. QED
      BY <3>2
  <2>2. CASE run.todo = <<>>
    <3>1. run' = [at |-> "range", i |-> run.i, minDate |-> run.minDate, all |-> run.all,
                  ranges |-> Tail(run.ranges)]
      BY <2>2 DEF SaveStates
    <3>2. QED
      BY <3>1
  <2>3. QED
    BY <2>1, <2>2
<1>7. (\A e : DataOf(e)' = DataOf(e)) /\ (\A i, e : Inputs(i, e)' = Inputs(i, e)) /\ Stored' = Stored
  <2>1. Stored' = Stored
    BY <1>1 DEF Stored, history
  <2>2. QED
    BY <1>1, <2>1 DEF DataOf, Inputs, TrueDivide
<1>8. StatsTypeOK'
  <2>1. \A e \in Newly : e.frame \in Frames /\ e = Key(e)
    <3>1. ASSUME NEW e \in Newly PROVE e.frame \in Frames /\ e = Key(e)
      <4>1. IsEntry(run.i, e)
        BY <1>1, NewlyIs
      <4>2. e.frame = TimeFrames[run.i] /\ e = Key(e)
        BY <4>1 DEF IsEntry, Entry, Key
      <4>3. QED
        BY <1>3, <4>2, FrameType
    <3>2. QED
      BY <3>1
  <2>2. \A e \in recorded' : e.frame \in Frames /\ e = Key(e)
    BY <1>1, <2>1 DEF StatsInv, StatsTypeOK
  <2>3. /\ low' \in DOMAIN Chunks /\ high' \in low'..Len(Chunks) /\ processed' \subseteq low'..high'
        /\ \A b \in bars' : b.frame \in Frames /\ b.data # {} /\ b.data \subseteq Instants(b) \cap Stored'
        /\ \A b, c \in bars' : Key(b) = Key(c) => b = c
    BY <1>1, <1>7 DEF StatsInv, StatsTypeOK, history
  <2>4. QED
    BY <1>6, <2>2, <2>3 DEF StatsTypeOK
<1>9. BarsInv'
  BY <1>1, <1>7 DEF StatsInv, BarsInv
<1>10. /\ \A i, x : Calculated(i, x) => Calculated(i, x)'
       /\ Due' = Due
  BY <1>6, <1>7, CalculatedGrows, DueSame
<1>11. StatsCallInv'
  <2>1. Within(Cover(run.all))'
    BY <1>2, <1>6 DEF Within
  <2>2. processed' = processed
    BY <1>1 DEF history
  <2>3. QED
    BY <1>4, <1>6, <1>10, <2>1, <2>2 DEF StatsCallInv
<1>12. CASE run.todo # <<>>
  <2>1. run' = [at |-> "intervals", i |-> run.i, minDate |-> run.minDate, all |-> run.all,
                ranges |-> run.ranges, todo |-> run.todo, buffer |-> <<>>]
    <3>1. run' = [run EXCEPT !.at = "intervals", !.buffer = <<>>]
      BY <1>12 DEF SaveStates
    <3>2. QED
      BY <1>5, <3>1
  <2>2. run'.at = "intervals" /\ run'.ranges = run.ranges /\ run'.todo = run.todo /\ run'.buffer = <<>>
    BY <2>1
  <2>3. List' = List /\ Left' = Left /\ Taken' = Taken /\ SavedUpTo' = Taken /\ Len(run'.buffer) = 0
    <3>1. List' = List /\ Left' = Left
      BY <1>6, <2>2 DEF List, Left
    <3>2. Taken' = Taken
      BY <2>2, <3>1 DEF Taken
    <3>3. Len(run'.buffer) = 0
      BY <2>2
    <3>4. SavedUpTo' = Taken' - Len(run'.buffer)
      BY <2>2 DEF SavedUpTo
    <3>5. Taken \in Int
      BY <1>1, BatchIs
    <3>6. QED
      BY <3>1, <3>2, <3>3, <3>4, <3>5
  <2>4. FrameInv'
    BY <1>3, <1>6, <1>10, <2>2, <2>3 DEF FrameInv
  <2>5. BatchInv'
    <3>1. run'.todo # <<>> /\ Len(run'.buffer) < BatchSize
      BY <1>12, <2>2, <2>3, BatchSizeAssumption
    <3>2. (\A k \in 1..Len(run.todo) : run.todo[k] = List[Taken + k])'
      BY <1>5, <2>2, <2>3
    <3>3. run'.buffer \in Seq(BarType) /\ 1..Len(run'.buffer) = {}
      BY <2>2, <2>3
    <3>4. Len(run'.buffer) <= Taken'
      <4>1. Taken \in 0..Len(List) /\ Len(List) \in Nat
        BY <1>1, BatchIs
      <4>2. Taken \in Nat
        BY <4>1
      <4>3. QED
        BY <2>3, <4>2
    <3>5. (Named(run.i) => \A k \in 1..SavedUpTo : \A x \in Due \cap Instants(List[k]) : Calculated(run.i, x))'
      <4>1. Named(run.i) => \A k \in 1..Taken : \A x \in Due \cap Instants(List[k]) : Calculated(run.i, x)
        BY <1>1, TakenCalculated
      <4>2. QED
        BY <1>6, <1>10, <2>3, <4>1
    <3>6. /\ run' = [at |-> run'.at, i |-> run'.i, minDate |-> run'.minDate, all |-> run'.all,
                     ranges |-> run'.ranges, todo |-> run'.todo, buffer |-> run'.buffer]
          /\ run'.ranges # <<>>
          /\ run'.todo \in Seq(Range(List')) /\ Len(run'.todo) <= Len(List')
      <4>1. run' = [at |-> run'.at, i |-> run'.i, minDate |-> run'.minDate, all |-> run'.all,
                     ranges |-> run'.ranges, todo |-> run'.todo, buffer |-> run'.buffer]
        BY <2>1
      <4>2. QED
        BY <1>5, <2>2, <2>3, <4>1
    <3>7. QED
      BY <3>1, <3>2, <3>3, <3>4, <3>5, <3>6 DEF BatchInv
  <2>6. BufferInv'
    <3>1. 1..Len(run'.buffer) = {}
      BY <2>3
    <3>2. QED
      BY <3>1 DEF BufferInv
  <2>7. QED
    BY <1>2, <1>8, <1>9, <1>11, <2>4, <2>5, <2>6 DEF StatsInv
<1>13. CASE run.todo = <<>>
  <2>1. run'.at = "range" /\ run'.ranges = Tail(run.ranges)
    <3>1. run' = [at |-> "range", i |-> run.i, minDate |-> run.minDate, all |-> run.all,
                  ranges |-> Tail(run.ranges)]
      BY <1>13 DEF SaveStates
    <3>2. QED
      BY <3>1
  <2>2. FrameInv'
    <3> DEFINE s == run.ranges
               t == Tail(run.ranges)
    <3>1. /\ Len(s) \in Nat /\ Len(s) >= 1 /\ DOMAIN s = 1..Len(s) /\ t \in Seq(AnyRange)
          /\ DOMAIN t = 1..(Len(s) - 1) /\ \A k \in 1..(Len(s) - 1) : t[k] = s[k + 1]
      BY <1>3, <1>5
    <3>2. \A k \in DOMAIN s : IsRange(s[k])
      BY <1>3
    <3>3. Left' = Cover(Range(t))
      BY <2>1 DEF Left
    <3>4. Left = Cover(Range(s))
      BY DEF Left
    <3> HIDE DEF s, t
    <3>5. \A k \in 1..(Len(s) - 1) : k + 1 \in DOMAIN s
      BY <3>1
    <3>6. \A k \in DOMAIN t : IsRange(t[k]) /\ t[k] \in Range(s)
      BY <3>1, <3>2, <3>5 DEF Range
    <3>7. Left' \subseteq Cover(run'.all)
      <4>1. Cover(Range(t)) \subseteq Cover(Range(s))
        BY <3>6 DEF Cover, Range
      <4>2. QED
        BY <1>3, <1>6, <3>3, <3>4, <4>1
    <3>8. (Named(run.i) => \A x \in Due : x \notin Left /\ x + 1 \notin Left => Calculated(run.i, x))'
      <4>1. Named(run.i) => \A x \in Due : x \notin Left' /\ x + 1 \notin Left' => Calculated(run.i, x)
        BY <1>1, <1>13, <3>3, RangeDone DEF t
      <4>2. QED
        BY <1>6, <1>10, <4>1
    <3>9. run'.ranges = t
      BY <2>1 DEF t
    <3>10. QED
      BY <1>3, <1>6, <3>1, <3>6, <3>7, <3>8, <3>9 DEF FrameInv
  <2>3. BatchInv' /\ BufferInv'
    BY <2>1 DEF BatchInv, BufferInv, BatchStates
  <2>4. QED
    BY <1>2, <1>8, <1>9, <1>11, <2>2, <2>3 DEF StatsInv
<1>14. QED
  BY <1>12, <1>13
-----------------------------------------------------------------------------
(* Every step keeps the invariant: no order of intervals is exempt but the  *)
(* reversed one.                                                            *)
LEMMA StatsInvStep == ~NewestFirst /\ StatsInv /\ [StatsNext]_statsVars => StatsInv'
<1> SUFFICES ASSUME ~NewestFirst, StatsInv, [StatsNext]_statsVars PROVE StatsInv'
  OBVIOUS
<1>1. CASE FetchHistory
  BY <1>1, FetchHistoryKeeps
<1>2. CASE HandleChunk
  BY <1>2, HandleChunkKeeps
<1>3. CASE ProcessStats
  BY <1>3, ProcessKeeps
<1>4. CASE StartFrame
  BY <1>4, StartFrameKeeps
<1>5. CASE StartRange
  BY <1>5, StartRangeKeeps
<1>6. CASE Aggregate
  BY <1>6, AggregateKeeps
<1>7. CASE SaveEntries
  BY <1>7, SaveEntriesKeeps
<1>8. CASE RejectBatch
  BY <1>8, IdleKeeps DEF RejectBatch
<1>9. CASE SaveStates
  BY <1>9, SaveStatesKeeps
<1>10. CASE StatsCrash
  BY <1>10, IdleKeeps DEF StatsCrash
<1>11. CASE UNCHANGED statsVars
  BY <1>11, StatsStutter
<1>12. QED
  BY <1>1, <1>2, <1>3, <1>4, <1>5, <1>6, <1>7, <1>8, <1>9, <1>10, <1>11 DEF StatsNext, Step

(* Whatever was handled, in whichever order, and however often process ran, *)
(* crashed or was rejected on the way: bars hold events of their interval   *)
(* only, they only grow, the frames before the one the call is at have all  *)
(* that was given to it, and so have the intervals the batch went through   *)
(* (timeSeries.ts, TimeSeriesStats.process). config.reverse is excluded:    *)
(* with it the two intervals around a range are two of the range again.     *)
THEOREM StatsInvCorrect ==
  ASSUME ~NewestFirst
  PROVE  StatsSpec => []StatsInv
<1>1. [StatsNext]_statsVars /\ StatsInv => StatsInv'
  BY StatsInvStep
<1>2. QED
  BY <1>1, StatsInvInit, PTL DEF StatsSpec

(* No interval is recorded as done, and so never calculated again, whose    *)
(* bar lacks an event the account has had in it, but for one at its last    *)
(* instant, or in a chunk of one instant that ends an interval of some      *)
(* frame (timeSeries.ts, saving the states of a batch without its first and *)
(* last): for every history, way to cut it into chunks, order in which they *)
(* are handled, set of frames, size of batch and number of crashes.         *)
THEOREM RecordedIsAlwaysExact ==
  ASSUME ~NewestFirst
  PROVE  StatsSpec => []RecordedIsExact
<1>1. StatsInv => RecordedIsExact
  BY DEF StatsInv, RecordedInv, RecordedIsExact
<1>2. StatsSpec => []StatsInv
  BY StatsInvCorrect
<1>3. QED
  BY <1>1, <1>2, PTL

=============================================================================
