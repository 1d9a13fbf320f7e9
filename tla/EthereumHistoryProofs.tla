------------------------- MODULE EthereumHistoryProofs -------------------------
(***************************************************************************)
(* For any height, items, page sizes and number of failures, crashes, jobs  *)
(* side by side and overlapping updates: neither fetcher's cursors, in      *)
(* memory or saved, ever pass by what is not stored, and a complete history *)
(* is whole; of the account this is shown until a crash loses the first     *)
(* cursors of the blocks only.                                              *)
(***************************************************************************)
EXTENDS EthereumHistory, FiniteSetTheorems, WellFoundedInduction, TLAPS

(* What the steps of BaseHistoryFetcher do to runs and cursors, for any     *)
(* fetchers.                                                                *)
Seen(c) == c.forward # None

(* The two cursors of a job's state are set together.                       *)
Paired(c) == c.forward = None <=> c.backward = None

(* A job that is not under way.                                             *)
Idle(r) == r.phase \in {"off", "due"}

JobType == job \in [Fetcher -> [Direction -> Run]]

(* The step changes no run but that of f's job d.                           *)
OnlyJob(f, d) ==
  \A g \in Fetcher, e \in Direction : g # f \/ e # d => job'[g][e] = job[g][e]

PairedInv ==
  \A f \in Fetcher :
    /\ Paired(state[f].cursors) /\ Paired(saved[f].cursors)
    /\ \A d \in Direction : Paired(job[f][d].last) /\ Paired(job[f][d].prev)

LEMMA HasLeast ==
  ASSUME NEW S \in SUBSET Nat, S # {}
  PROVE  \E x \in S : \A y \in S : x <= y
<1>1. \E x \in S : \A y \in S : ~(<<y, x>> \in OpToRel(<, Nat))
  BY NatLessThanWellFounded, WFMin
<1>2. \A x, y \in Nat : <<y, x>> \in OpToRel(<, Nat) <=> y < x
  BY DEF OpToRel
<1>3. PICK x \in S : \A y \in S : ~(y < x)
  BY <1>1, <1>2
<1>4. QED
  BY <1>3

LEMMA SetJob ==
  ASSUME HistTypeOK, NEW f \in Fetcher, NEW d \in Direction, NEW r \in Run,
         job' = [job EXCEPT ![f][d] = r]
  PROVE  job'[f][d] = r /\ OnlyJob(f, d) /\ JobType'
BY DEF HistTypeOK, OnlyJob, JobType

LEMMA NoRunType ==
  /\ NoRun \in Run /\ Due \in Run
  /\ Idle(NoRun) /\ Idle(Due) /\ NoRun.phase = "off" /\ Due.phase = "due"
  /\ NoRun.last = NoCursors /\ NoRun.prev = NoCursors
  /\ Due.last = NoCursors /\ Due.prev = NoCursors
  /\ ~Seen(NoCursors) /\ Paired(NoCursors)
<1>1. NoCursors \in Cursors /\ None \in Cursor /\ 0 \in Position /\ 0 \in 0..Unlimited
  BY LastAssumption DEF NoCursors, Cursors, Cursor, Position, Unlimited
<1>2. NoRun \in Run
  BY <1>1 DEF NoRun, Run, Phase
<1>3. Due \in Run
  BY <1>2 DEF Due, Run, Phase
<1>4. NoRun.phase = "off" /\ NoRun.last = NoCursors /\ NoRun.prev = NoCursors
  BY DEF NoRun
<1>5. Due.phase = "due" /\ Due.last = NoCursors /\ Due.prev = NoCursors
  BY DEF NoRun, Due
<1>6. ~Seen(NoCursors) /\ Paired(NoCursors)
  BY DEF Seen, Paired, NoCursors
<1>7. QED
  BY <1>2, <1>3, <1>4, <1>5, <1>6 DEF Idle

(* The run of f's job d has begun, and nothing else has changed.            *)
Began(f, d, from, to, left) ==
  /\ JobType' /\ OnlyJob(f, d)
  /\ job'[f][d].phase = "fetching" /\ job'[f][d].from = from
  /\ job'[f][d].to = to /\ job'[f][d].left = left
  /\ job'[f][d].last = NoCursors /\ job'[f][d].prev = NoCursors

LEMMA BeginSteps ==
  ASSUME HistTypeOK, NEW f \in Fetcher, NEW d \in Direction,
         NEW from \in Position, NEW to \in Cursor, NEW left \in 0..Unlimited,
         Begin(f, d, from, to, left)
  PROVE  Began(f, d, from, to, left)
<1> DEFINE r == [NoRun EXCEPT !.phase = "fetching", !.from = from, !.to = to, !.left = left]
<1>1. r \in Run
  BY NoRunType DEF Run, Phase
<1>2. /\ r.phase = "fetching" /\ r.from = from /\ r.to = to /\ r.left = left
      /\ r.last = NoCursors /\ r.prev = NoCursors /\ r.error = FALSE
  BY DEF NoRun
<1>3. job' = [job EXCEPT ![f][d] = r]
  BY DEF Begin
<1> HIDE DEF r
<1>4. job'[f][d] = r /\ OnlyJob(f, d) /\ JobType'
  BY <1>1, <1>3, SetJob
<1>5. QED
  BY <1>2, <1>4 DEF Began

LEMMA BeginEmptySteps ==
  ASSUME HistTypeOK, NEW f \in Fetcher, NEW d \in Direction, BeginEmpty(f, d)
  PROVE  /\ JobType' /\ OnlyJob(f, d)
         /\ job'[f][d].phase = "fetched" /\ job'[f][d].error = FALSE
         /\ job'[f][d].last = NoCursors /\ job'[f][d].prev = NoCursors
<1> DEFINE r == [NoRun EXCEPT !.phase = "fetched"]
<1>1. r \in Run
  BY NoRunType DEF Run, Phase
<1>2. r.phase = "fetched" /\ r.last = NoCursors /\ r.prev = NoCursors /\ r.error = FALSE
  BY DEF NoRun
<1>3. job' = [job EXCEPT ![f][d] = r]
  BY DEF BeginEmpty
<1> HIDE DEF r
<1>4. job'[f][d] = r /\ OnlyJob(f, d) /\ JobType'
  BY <1>1, <1>3, SetJob
<1>5. QED
  BY <1>2, <1>4

LEMMA FetchedSteps ==
  ASSUME HistTypeOK, NEW f \in Fetcher, NEW d \in Direction, NEW error \in BOOLEAN,
         Fetched(f, d, error)
  PROVE  /\ JobType' /\ OnlyJob(f, d)
         /\ job'[f][d].phase = "fetched" /\ job'[f][d].error = error
         /\ job'[f][d].from = job[f][d].from /\ job'[f][d].to = job[f][d].to
         /\ job'[f][d].left = job[f][d].left
         /\ job'[f][d].last = job[f][d].last /\ job'[f][d].prev = job[f][d].prev
<1> DEFINE r == [job[f][d] EXCEPT !.phase = "fetched", !.error = error]
<1>1. job[f][d] \in Run
  BY DEF HistTypeOK
<1>2. r \in Run
  BY <1>1 DEF Run, Phase
<1>3. /\ r.phase = "fetched" /\ r.error = error
      /\ r.from = job[f][d].from /\ r.to = job[f][d].to /\ r.left = job[f][d].left
      /\ r.last = job[f][d].last /\ r.prev = job[f][d].prev
  BY <1>1 DEF Run
<1>4. job' = [job EXCEPT ![f][d] = r]
  BY DEF Fetched, HistTypeOK
<1> HIDE DEF r
<1>5. job'[f][d] = r /\ OnlyJob(f, d) /\ JobType'
  BY <1>2, <1>4, SetJob
<1>6. QED
  BY <1>3, <1>5

LEMMA PageDoneSteps ==
  ASSUME HistTypeOK, NEW f \in Fetcher, NEW d \in Direction,
         NEW first \in Position, NEW newest \in Position, NEW left \in 0..Unlimited,
         NEW more \in BOOLEAN, PageDone(f, d, first, newest, left, more)
  PROVE  /\ JobType' /\ OnlyJob(f, d)
         /\ job'[f][d].phase = IF more THEN "fetching" ELSE "fetched"
         /\ job'[f][d].error = job[f][d].error
         /\ job'[f][d].from = job[f][d].from /\ job'[f][d].to = first - 1
         /\ job'[f][d].left = left
         /\ job'[f][d].last.backward = first
         /\ job'[f][d].last.forward = IF Seen(job[f][d].last) THEN job[f][d].last.forward
                                                               ELSE newest
         /\ job'[f][d].prev = job[f][d].prev
<1> DEFINE old == job[f][d]
           new == [backward |-> first,
                   forward |-> IF old.last.forward = None THEN newest ELSE old.last.forward]
           r == [old EXCEPT !.phase = IF more THEN "fetching" ELSE "fetched",
                   !.to = first - 1, !.left = left, !.last = new]
<1>1. old \in Run
  BY DEF HistTypeOK
<1>2. new \in Cursors
  BY <1>1 DEF Run, Cursors, Cursor
<1>3. first - 1 \in Cursor
  BY LastAssumption DEF Position, Cursor, None
<1>4. job' = [job EXCEPT ![f][d] = r]
  BY DEF PageDone
<1>5. /\ new.backward = first
      /\ new.forward = IF Seen(old.last) THEN old.last.forward ELSE newest
  BY DEF Seen
<1> HIDE DEF old, new
<1>6. r \in Run
  BY <1>1, <1>2, <1>3 DEF Run, Phase
<1>7. /\ r.phase = IF more THEN "fetching" ELSE "fetched"
      /\ r.error = old.error /\ r.from = old.from /\ r.to = first - 1
      /\ r.left = left /\ r.last = new /\ r.prev = old.prev
  BY <1>1 DEF Run
<1> HIDE DEF r
<1>8. job'[f][d] = r /\ OnlyJob(f, d) /\ JobType'
  BY <1>4, <1>6, SetJob
<1>9. QED
  BY <1>5, <1>7, <1>8 DEF old

LEMMA TakeCursorsSteps ==
  ASSUME HistTypeOK, NEW f \in Fetcher, NEW d \in Direction, TakeCursors(f, d)
  PROVE  /\ JobType' /\ OnlyJob(f, d)
         /\ job'[f][d].phase = "updating" /\ job'[f][d].prev = state[f].cursors
         /\ job'[f][d].error = job[f][d].error /\ job'[f][d].from = job[f][d].from
         /\ job'[f][d].last = job[f][d].last
<1> DEFINE r == [job[f][d] EXCEPT !.phase = "updating", !.prev = state[f].cursors]
<1>1. job[f][d] \in Run /\ state[f].cursors \in Cursors
  BY DEF HistTypeOK, FetcherState
<1>2. r \in Run
  BY <1>1 DEF Run, Phase
<1>3. /\ r.phase = "updating" /\ r.prev = state[f].cursors
      /\ r.error = job[f][d].error /\ r.from = job[f][d].from /\ r.last = job[f][d].last
  BY <1>1 DEF Run
<1>4. job' = [job EXCEPT ![f][d] = r]
  BY DEF TakeCursors, HistTypeOK
<1> HIDE DEF r
<1>5. job'[f][d] = r /\ OnlyJob(f, d) /\ JobType'
  BY <1>2, <1>4, SetJob
<1>6. QED
  BY <1>3, <1>5

LEMMA SkipUpdateSteps ==
  ASSUME HistTypeOK, NEW f \in Fetcher, NEW d \in Direction, SkipUpdate(f, d)
  PROVE  /\ JobType' /\ OnlyJob(f, d)
         /\ job'[f][d].phase = "saving" /\ job'[f][d].error = job[f][d].error
         /\ job'[f][d].last = job[f][d].last /\ job'[f][d].prev = job[f][d].prev
<1> DEFINE r == [job[f][d] EXCEPT !.phase = "saving"]
<1>1. job[f][d] \in Run
  BY DEF HistTypeOK
<1>2. r \in Run
  BY <1>1 DEF Run, Phase
<1>3. /\ r.phase = "saving" /\ r.error = job[f][d].error
      /\ r.last = job[f][d].last /\ r.prev = job[f][d].prev
  BY <1>1 DEF Run
<1>4. job' = [job EXCEPT ![f][d] = r]
  BY DEF SkipUpdate, HistTypeOK
<1> HIDE DEF r
<1>5. job'[f][d] = r /\ OnlyJob(f, d) /\ JobType'
  BY <1>2, <1>4, SetJob
<1>6. QED
  BY <1>3, <1>5

(* What _updateCursors does to the cursors that were read: the run's own    *)
(* cursor is the one it reached, or as it was if the run found nothing.     *)
LEMMA UpdatedCursors ==
  ASSUME NEW d \in Direction, NEW prev \in Cursors, NEW last \in Cursors,
         Paired(prev), Paired(last)
  PROVE  LET c == UpdateCursors(d, prev, last)
         IN /\ c \in Cursors /\ Paired(c)
            /\ ~Seen(last) => c.forward = prev.forward /\ c.backward = prev.backward
            /\ Seen(last) /\ ~Seen(prev) => c.forward = last.forward /\ c.backward = last.backward
            /\ Seen(last) /\ Seen(prev) /\ d = "forward" =>
                 c.forward = last.forward /\ c.backward = prev.backward
            /\ Seen(last) /\ Seen(prev) /\ d = "backward" =>
                 c.forward = prev.forward /\ c.backward = last.backward
<1>1. /\ prev.forward \in Cursor /\ prev.backward \in Cursor
      /\ last.forward \in Cursor /\ last.backward \in Cursor
  BY DEF Cursors
<1> DEFINE c == UpdateCursors(d, prev, last)
           own(e) == IF last[e] # None THEN last[e] ELSE prev[e]
           other(e) == IF prev[e] = None THEN last[e] ELSE prev[e]
<1>2. c = [e \in Direction |-> IF e = d THEN own(e) ELSE other(e)]
  BY DEF UpdateCursors
<1>3. /\ c.forward = IF d = "forward" THEN own("forward") ELSE other("forward")
      /\ c.backward = IF d = "backward" THEN own("backward") ELSE other("backward")
  BY <1>2 DEF Direction
<1>4. c.forward \in Cursor /\ c.backward \in Cursor
  BY <1>1, <1>3
<1>5. c = [forward |-> c.forward, backward |-> c.backward]
  BY <1>2 DEF Direction
<1>6. c \in Cursors
  BY <1>4, <1>5 DEF Cursors
<1> HIDE DEF c
<1>7. QED
  BY <1>3, <1>6 DEF Seen, Paired, Direction, c

LEMMA PutCursorsSteps ==
  ASSUME HistTypeOK, PairedInv, NEW f \in Fetcher, NEW d \in Direction,
         NEW complete \in BOOLEAN, PutCursors(f, d, complete)
  PROVE  LET c == state'[f].cursors
             r == job[f][d]
         IN /\ HistTypeOK' /\ OnlyJob(f, d) /\ saved' = saved
            /\ \A g \in Fetcher : g # f => state'[g] = state[g]
            /\ state'[f].complete = IF d = "backward" THEN complete ELSE state[f].complete
            /\ job'[f][d].phase = "saving" /\ job'[f][d].error = r.error
            /\ job'[f][d].last = r.last /\ job'[f][d].prev = r.prev
            /\ c = NewCursors(f, d) /\ Paired(c)
            /\ ~Seen(r.last) => c.forward = r.prev.forward /\ c.backward = r.prev.backward
            /\ Seen(r.last) /\ ~Seen(r.prev) =>
                 c.forward = r.last.forward /\ c.backward = r.last.backward
            /\ Seen(r.last) /\ Seen(r.prev) /\ d = "forward" =>
                 c.forward = r.last.forward /\ c.backward = r.prev.backward
            /\ Seen(r.last) /\ Seen(r.prev) /\ d = "backward" =>
                 c.forward = r.prev.forward /\ c.backward = r.last.backward
<1> DEFINE r == job[f][d]
           swap == Swap(f, d)
           new == [r EXCEPT !.phase = "saving", !.swap = swap]
           hist == state[f].historic \/ swap
           done == IF d = "backward" THEN complete ELSE state[f].complete
           s == [cursors |-> NewCursors(f, d), complete |-> done, historic |-> hist]
<1>1. r \in Run /\ state[f] \in FetcherState
  BY DEF HistTypeOK
<1>2. r.last \in Cursors /\ r.prev \in Cursors /\ Paired(r.last) /\ Paired(r.prev)
  BY <1>1 DEF Run, PairedInv
<1>3. swap \in BOOLEAN /\ hist \in BOOLEAN
  BY DEF Swap
<1>4. done \in BOOLEAN
  BY <1>1 DEF FetcherState
<1>5. state' = [state EXCEPT ![f] = s]
  BY DEF PutCursors
<1>6. job' = [job EXCEPT ![f][d] = new]
  BY DEF PutCursors, HistTypeOK
<1>7. NewCursors(f, d) = UpdateCursors(d, r.prev, r.last)
  BY DEF NewCursors
<1> HIDE DEF r, swap, hist, done
<1>8. new \in Run
  BY <1>1, <1>3 DEF Run, Phase
<1>9. new.phase = "saving" /\ new.error = r.error /\ new.last = r.last /\ new.prev = r.prev
  BY <1>1 DEF Run
<1>10. s.cursors = UpdateCursors(d, r.prev, r.last) /\ s.complete = done
  BY <1>7
<1>11. UpdateCursors(d, r.prev, r.last) \in Cursors
  BY <1>2, UpdatedCursors
<1>12. s \in FetcherState
  BY <1>3, <1>4, <1>7, <1>11 DEF FetcherState
<1> HIDE DEF new, s
<1>13. job'[f][d] = new /\ OnlyJob(f, d) /\ JobType'
  BY <1>6, <1>8, SetJob
<1>14. state'[f] = s /\ \A g \in Fetcher : g # f => state'[g] = state[g]
  BY <1>5 DEF HistTypeOK
<1>15. saved' = saved
  BY DEF PutCursors
<1>16. HistTypeOK'
  BY <1>5, <1>12, <1>13, <1>15 DEF HistTypeOK, JobType
<1>17. state'[f].cursors = NewCursors(f, d)
  BY <1>7, <1>10, <1>14
<1>18. QED
  BY <1>2, <1>7, <1>9, <1>13, <1>14, <1>15, <1>16, <1>17, <1>10, UpdatedCursors DEF r, done

LEMMA StartRunSteps ==
  ASSUME HistTypeOK, NEW f \in Fetcher, StartRun(f)
  PROVE  /\ JobType' /\ OnlyJob(f, "forward") /\ job'[f]["forward"] = Due
         /\ InPhase(f, "forward", "off")
BY NoRunType, SetJob DEF StartRun, Direction

(* The job that saved is due again or off, and no other starts but the      *)
(* backward job after a forward run that did not fail.                      *)
LEMMA SaveStateSteps ==
  ASSUME HistTypeOK, NEW f \in Fetcher, NEW d \in Direction, SaveState(f, d)
  PROVE  /\ HistTypeOK' /\ state' = state /\ job[f][d].phase = "saving"
         /\ saved'[f] = state[f] /\ \A g \in Fetcher : g # f => saved'[g] = saved[g]
         /\ \A g \in Fetcher, e \in Direction : g # f => job'[g][e] = job[g][e]
         /\ job'[f][d] \in {NoRun, Due}
         /\ \A e \in Direction : e # d =>
              \/ job'[f][e] = job[f][e]
              \/ /\ e = "backward" /\ ~job[f][d].error /\ ~state[f].complete
                 /\ InPhase(f, e, "off") /\ job'[f][e] = Due
         /\ f \in Once /\ d = "forward" /\ ~job[f][d].error => job'[f][d] = NoRun
<1> DEFINE complete == state[f].complete
           starts == d = "forward" /\ ~job[f][d].error /\ ~complete /\ InPhase(f, "backward", "off")
           runs == [e \in Direction |-> IF e = d THEN Rest(f, d, complete)
                                        ELSE IF starts THEN Due ELSE job[f][e]]
<1>1. /\ saved' = [saved EXCEPT ![f] = state[f]] /\ state' = state
      /\ job' = [job EXCEPT ![f] = runs] /\ job[f][d].phase = "saving"
  BY DEF SaveState, InPhase
<1>2. Rest(f, d, complete) \in {NoRun, Due}
  BY DEF Rest
<1>3. f \in Once /\ d = "forward" /\ ~job[f][d].error => Rest(f, d, complete) = NoRun
  BY DEF Rest
<1>4. /\ runs[d] = Rest(f, d, complete)
      /\ \A e \in Direction : e # d => runs[e] = IF starts THEN Due ELSE job[f][e]
  OBVIOUS
<1>5. runs \in [Direction -> Run]
  BY <1>2, NoRunType DEF HistTypeOK
<1>6. starts => /\ ~job[f][d].error /\ ~complete /\ InPhase(f, "backward", "off")
                /\ \A e \in Direction : e # d => e = "backward"
  BY DEF Direction
<1> HIDE DEF runs, starts
<1>7. job'[f] = runs /\ \A g \in Fetcher : g # f => job'[g] = job[g]
  BY <1>1 DEF HistTypeOK
<1>8. job' \in [Fetcher -> [Direction -> Run]]
  BY <1>1, <1>5 DEF HistTypeOK
<1>9. saved' \in [Fetcher -> FetcherState]
  BY <1>1 DEF HistTypeOK
<1>10. HistTypeOK'
  BY <1>1, <1>8, <1>9 DEF HistTypeOK
<1>11. saved'[f] = state[f] /\ \A g \in Fetcher : g # f => saved'[g] = saved[g]
  BY <1>1 DEF HistTypeOK
<1>12. \A e \in Direction : e # d =>
         \/ job'[f][e] = job[f][e]
         \/ /\ e = "backward" /\ ~job[f][d].error /\ ~state[f].complete
            /\ InPhase(f, e, "off") /\ job'[f][e] = Due
  BY <1>4, <1>6, <1>7
<1>13. QED
  BY <1>1, <1>2, <1>3, <1>4, <1>7, <1>10, <1>11, <1>12

LEMMA RestartSteps ==
  ASSUME HistTypeOK, HistRestart
  PROVE  /\ HistTypeOK' /\ state' = saved /\ saved' = saved
         /\ \A f \in Fetcher, d \in Direction : job'[f][d] = NoRun
BY NoRunType DEF HistRestart, HistTypeOK
-----------------------------------------------------------------------------
LEMMA LeastIs ==
  ASSUME NEW S \in SUBSET Nat, S # {}
  PROVE  Least(S) \in S /\ \A y \in S : Least(S) <= y
BY HasLeast DEF Least

LEMMA GreatestIs ==
  ASSUME NEW n \in Nat, NEW S \in SUBSET (0..n), S # {}
  PROVE  Greatest(S) \in S /\ \A y \in S : Greatest(S) >= y
<1> DEFINE T == {n - x : x \in S}
<1>1. T \in SUBSET Nat /\ T # {}
  <2>1. \A x \in S : n - x \in Nat
    OBVIOUS
  <2>2. QED
    BY <2>1
<1>2. Least(T) \in T /\ \A y \in T : Least(T) <= y
  BY <1>1, LeastIs
<1>3. PICK x \in S : Least(T) = n - x
  BY <1>2
<1>4. \A y \in S : n - y \in T
  OBVIOUS
<1>5. \A y \in S : n - x <= n - y
  BY <1>2, <1>3, <1>4
<1>6. \A y \in S : x >= y
  BY <1>5
<1>7. QED
  BY <1>6 DEF Greatest

(* A page: the items from its oldest one up to the end of the range, all of *)
(* them; and all of the range when it is not full.                          *)
LEMMA TopOfPage ==
  ASSUME NEW n \in Nat, NEW S \in SUBSET (0..n), NEW k \in Nat, k > 0
  PROVE  LET T == TopOf(S, k)
         IN /\ T \subseteq S
            /\ \A x \in T, y \in S : y > x => y \in T
            /\ Cardinality(T) < k \/ T = {} => T = S
<1> DEFINE T == TopOf(S, k)
           Above(x) == {y \in S : y > x}
<1>1. T \subseteq S /\ \A x \in S : x \in T <=> Cardinality(Above(x)) < k
  BY DEF TopOf
<1>2. IsFiniteSet(S) /\ IsFiniteSet(T) /\ S \subseteq Nat
  <2>1. IsFiniteSet(0..n)
    BY FS_Interval
  <2>2. IsFiniteSet(S)
    BY <2>1, FS_Subset
  <2>3. QED
    BY <1>1, <2>2, FS_Subset
<1> HIDE DEF T
<1>3. \A x \in S : IsFiniteSet(Above(x)) /\ Cardinality(Above(x)) \in Nat
  BY <1>2, FS_Subset, FS_CardinalityType
<1>4. ASSUME NEW x \in T, NEW y \in S, y > x
      PROVE  y \in T
  <2> x \in Nat /\ y \in Nat /\ \A z \in S : z \in Nat
    BY <1>1, <1>2
  <2>1. ASSUME NEW z \in Above(y)
        PROVE  z \in Above(x)
    BY <1>4
  <2>2. Cardinality(Above(y)) <= Cardinality(Above(x))
    <3>1. Above(y) \in SUBSET Above(x)
      BY <2>1
    <3> QED
      BY <3>1, <1>1, <1>3, <1>4, FS_Subset
  <2>3. QED
    BY <2>2, <1>1, <1>3, <1>4
<1>5. ASSUME Cardinality(T) < k, T # S
      PROVE  FALSE
  <2>1. S \ T # {} /\ S \ T \in SUBSET (0..n)
    BY <1>1, <1>5
  <2>2. PICK x \in S \ T : \A y \in S \ T : x >= y
    BY <2>1, GreatestIs
  <2>3. \A y \in Above(x) : y \in T
    <3> x \in Nat /\ \A z \in S : z \in Nat
      BY <1>2, <2>2
    <3> QED
      BY <2>2
  <2>4. Cardinality(Above(x)) <= Cardinality(T)
    BY <2>3, <1>2, FS_Subset
  <2>5. Cardinality(T) \in Nat
    BY <1>2, FS_CardinalityType
  <2>6. QED
    BY <2>2, <2>4, <2>5, <1>1, <1>3, <1>5
<1>6. T = {} => Cardinality(T) < k
  BY FS_EmptySet
<1>7. QED
  BY <1>1, <1>4, <1>5, <1>6 DEF T
(* Either end, or what lies between them, of a part of the history.         *)
Within(c, lo, hi) == Seen(c) => c.forward \in lo..hi /\ c.backward \in lo..hi
In(c, lo, mid, hi) == Seen(c) => c.backward \in lo..mid /\ c.forward \in mid..hi

(* The pages of a run r: all of it between the ends of those fetched so far *)
(* is in B, and while it goes on it goes on below them.                     *)
Pages(r, B) ==
  r.phase \in {"fetching", "fetched", "updating"} /\ Seen(r.last) =>
    /\ r.last.backward <= r.last.forward
    /\ r.last.backward..r.last.forward \subseteq B
    /\ r.phase = "fetching" => r.last.backward = r.to + 1

(* A forward run, where lo..hi was walked before, up and down from mid: the *)
(* first is alone, any other begins next to what was walked or within it,   *)
(* and takes all of its own range, however long, unless it fails.           *)
ForwardRun(r, now, lo, mid, hi, B) ==
  LET through == r.phase \in {"fetched", "updating"} /\ ~r.error /\ Seen(r.last)
  IN /\ Pages(r, B)
     /\ r.phase = "fetching" =>
          r.from <= r.to + 1 /\ (Seen(now) => r.left >= r.to + Last + 2)
     /\ (r.phase = "fetching" \/ through) /\ Seen(now) => mid <= r.from /\ r.from <= hi + 1
     /\ through /\ Seen(now) => r.from <= r.last.forward /\ r.from..r.last.forward \subseteq B
     /\ r.phase = "fetched" /\ ~r.error => Seen(now) \/ Seen(r.last)
     /\ r.phase = "updating" =>
          /\ ~r.error
          /\ Seen(now) \/ Seen(r.last)
          /\ Seen(now) <=> Seen(r.prev)
          /\ In(r.prev, lo, mid, hi)
     /\ r.phase = "saving" /\ ~r.error => Seen(now)

(* A backward run: all is there from its pages to lo.                       *)
BackwardRun(r, lo, mid, hi, B) ==
  /\ Pages(r, B)
  /\ r.phase = "fetching" =>
       r.from <= r.to + 1 /\ r.to + 1 <= mid /\ r.to + 1..lo \subseteq B
  /\ r.phase \in {"fetched", "updating"} /\ Seen(r.last) =>
       r.last.backward <= mid /\ r.last.backward..lo \subseteq B
  /\ r.phase = "updating" => Seen(r.prev) /\ In(r.prev, lo, mid, hi)

(* What a fetcher has, and where its history begins: an account has what    *)
(* there is of it at a height.                                              *)
Have(f) ==
  IF f = "blocks" THEN blocks ELSE {h \in Position : h \in Ours => h \in Got}
First(f) == IF f = "blocks" THEN 0 ELSE MinHeight

RunOk(f, d, lo, mid, hi) ==
  LET r == job[f][d]
  IN IF d = "forward" THEN ForwardRun(r, state[f].cursors, lo, mid, hi, Have(f))
     ELSE BackwardRun(r, lo, mid, hi, Have(f))

(* One range was walked without a gap, up and down from somewhere within it;*)
(* every cursor, in memory, saved, or read for an update, lies within it.   *)
Walk(f, lo, mid, hi) ==
  /\ lo..hi \subseteq Have(f)
  /\ \A s \in {state, saved} :
       In(s[f].cursors, lo, mid, hi) /\ (s[f].complete => lo <= First(f))
  /\ \A d \in Direction : RunOk(f, d, lo, mid, hi)

(* All that the account's fetcher does stays within the blocks walked.      *)
StaysRun(r, lo, hi) ==
  /\ r.phase = "fetching" => lo <= r.from /\ r.to <= hi /\ r.from <= r.to + 1
  /\ ~Idle(r) => Within(r.last, lo, hi) /\ Within(r.prev, lo, hi)

Stays(lo, hi) ==
  /\ \A s \in {state, saved} :
       Within(s["account"].cursors, lo, hi) /\ (s["account"].complete => lo = 0)
  /\ \A d \in Direction : StaysRun(job["account"][d], lo, hi)

(* The fetcher of transactions has nothing to walk but what it stays within.*)
Walks(f) == f = "blocks" \/ (kind = "log" /\ ~outrun)

WalkInv ==
  \A f \in Fetcher :
    Walks(f) =>
      \E lo, mid, hi \in Position :
        Walk(f, lo, mid, hi) /\ (f = "blocks" /\ ~outrun => Stays(lo, hi))

(* What happens first: a fetcher's first forward run sets its cursors, and  *)
(* only then its backward job begins, when they are saved; the account's    *)
(* runs wait for the cursors of the blocks.                                 *)
FirstInv(f) ==
  /\ ~Seen(state[f].cursors) =>
       ~Seen(saved[f].cursors) /\ ~state[f].complete /\ InPhase(f, "backward", "off")
  /\ ~Seen(saved[f].cursors) => ~saved[f].complete

OrderInv ==
  /\ \A f \in Fetcher : Walks(f) => FirstInv(f)
  /\ ~Seen(saved["blocks"].cursors) =>
       /\ InPhase("blocks", "backward", "off")
       /\ \A f \in Fetcher : ~state[f].complete /\ ~saved[f].complete
  /\ ~Seen(state["blocks"].cursors) =>
       /\ \A d \in Direction : Idle(job["account"][d])
       /\ outrun \/ (~Seen(state["account"].cursors) /\ ~Seen(saved["account"].cursors))

TipInv ==
  \A d \in Direction : InPhase("blocks", d, "fetching") => job["blocks"][d].to <= tip

IInv == TypeOK /\ PairedInv /\ OrderInv /\ TipInv /\ WalkInv
-----------------------------------------------------------------------------
LEMMA Fetchers ==
  /\ "blocks" \in Fetcher /\ "account" \in Fetcher
  /\ \A f \in Fetcher : f = "blocks" \/ f = "account"
  /\ "forward" \in Direction /\ "backward" \in Direction
  /\ \A d \in Direction : d = "forward" \/ d = "backward"
  /\ \A f \in Fetcher : f \in Once <=> f = "account"
BY FetcherAssumption DEF Direction

LEMMA RunTypes ==
  ASSUME NEW r \in Run
  PROVE  /\ r.from \in Nat /\ r.to \in Int /\ r.last.forward \in Int /\ r.last.backward \in Int
         /\ r.prev.forward \in Int /\ r.prev.backward \in Int
         /\ r.from <= Last /\ r.to <= Last /\ r.to >= -1 /\ Last \in Nat /\ r.left \in Nat
         /\ r.last.forward \in Cursor /\ r.last.backward \in Cursor
<1>1. /\ r.from \in Position /\ r.to \in Cursor /\ r.last \in Cursors /\ r.prev \in Cursors
      /\ r.left \in 0..Unlimited
  BY DEF Run
<1>2. QED
  BY <1>1, LastAssumption DEF Cursors, Cursor, Position, None, Unlimited

(* Blocks indexed, and more of them walked meanwhile, do not harm a run.    *)
LEMMA ForwardRunKept ==
  ASSUME NEW r \in Run, NEW now, NEW now2, NEW lo \in Int, NEW lo2 \in Int, NEW mid \in Int,
         NEW hi \in Int, NEW hi2 \in Int, NEW B, NEW B2,
         lo2 <= lo, hi <= hi2, B \subseteq B2, Seen(now) <=> Seen(now2),
         ForwardRun(r, now, lo, mid, hi, B)
  PROVE  ForwardRun(r, now2, lo2, mid, hi2, B2)
<1>1. Pages(r, B2)
  BY DEF ForwardRun, Pages
<1>2. In(r.prev, lo, mid, hi) => In(r.prev, lo2, mid, hi2)
  BY RunTypes DEF In
<1>3. QED
  BY <1>1, <1>2, RunTypes DEF ForwardRun

LEMMA BackwardRunKept ==
  ASSUME NEW r \in Run, NEW lo \in Int, NEW lo2 \in Int, NEW mid \in Int,
         NEW hi \in Int, NEW hi2 \in Int, NEW B, NEW B2,
         lo2 <= lo, hi <= hi2, B \subseteq B2,
         BackwardRun(r, lo, mid, hi, B)
  PROVE  BackwardRun(r, lo2, mid, hi2, B2)
<1>1. Pages(r, B2)
  BY DEF BackwardRun, Pages
<1>2. In(r.prev, lo, mid, hi) => In(r.prev, lo2, mid, hi2)
  BY RunTypes DEF In
<1>3. QED
  BY <1>1, <1>2, RunTypes DEF BackwardRun

LEMMA StaysRunKept ==
  ASSUME NEW r \in Run, NEW lo \in Int, NEW lo2 \in Int, NEW hi \in Int, NEW hi2 \in Int,
         lo2 <= lo, hi <= hi2, StaysRun(r, lo, hi)
  PROVE  StaysRun(r, lo2, hi2)
BY RunTypes DEF StaysRun, Within

LEMMA IdleRuns ==
  ASSUME NEW r, Idle(r), NEW now, NEW lo, NEW mid, NEW hi, NEW B
  PROVE  ForwardRun(r, now, lo, mid, hi, B) /\ BackwardRun(r, lo, mid, hi, B) /\ StaysRun(r, lo, hi)
BY DEF Idle, ForwardRun, BackwardRun, StaysRun, Pages

LEMMA RunKept ==
  ASSUME TypeOK, NEW f \in Fetcher, NEW d \in Direction,
         NEW lo \in Int, NEW mid \in Int, NEW hi \in Int, NEW lo2 \in Int, NEW hi2 \in Int,
         lo2 <= lo, hi <= hi2, Have(f) \subseteq Have(f)', RunOk(f, d, lo, mid, hi),
         job'[f][d] = job[f][d], Seen(state[f].cursors) <=> Seen(state'[f].cursors)
  PROVE  RunOk(f, d, lo2, mid, hi2)'
<1>1. job[f][d] \in Run
  BY DEF TypeOK, HistTypeOK
<1>2. CASE d = "forward"
  <2>1. ForwardRun(job[f][d], state[f].cursors, lo, mid, hi, Have(f))
    BY <1>2 DEF RunOk
  <2>2. ForwardRun(job[f][d], state'[f].cursors, lo2, mid, hi2, Have(f)')
    BY <1>1, <2>1, ForwardRunKept
  <2>3. QED
    BY <1>2, <2>2 DEF RunOk
<1>3. CASE d # "forward"
  <2>1. BackwardRun(job[f][d], lo, mid, hi, Have(f))
    BY <1>3 DEF RunOk
  <2>2. BackwardRun(job[f][d], lo2, mid, hi2, Have(f)')
    BY <1>1, <2>1, BackwardRunKept
  <2>3. QED
    BY <1>3, <2>2 DEF RunOk
<1>4. QED
  BY <1>2, <1>3

LEMMA HaveKept ==
  ASSUME kind' = kind, blocks \subseteq blocks', logs \subseteq logs', NEW f \in Fetcher
  PROVE  Have(f) \subseteq Have(f)'
BY DEF Have, Got

(* A step of a run that is neither its start nor its save, and stores what  *)
(* it fetched: only what it says of this run remains to be shown.           *)
LEMMA RunStep ==
  ASSUME IInv, TypeOK', NEW f \in Fetcher, NEW d \in Direction, OnlyJob(f, d),
         state' = state, saved' = saved, kind' = kind, tip' = tip, outrun' = outrun,
         blocks \subseteq blocks', logs \subseteq logs',
         job[f][d].phase \in {"due", "fetching", "fetched"},
         job'[f][d].phase \in {"fetching", "fetched", "updating", "saving"},
         f = "account" /\ job[f][d].phase = "due" => Seen(state["blocks"].cursors),
         Paired(job'[f][d].last), Paired(job'[f][d].prev),
         f = "blocks" /\ job'[f][d].phase = "fetching" => job'[f][d].to <= tip,
         Walks(f) => \A lo, mid, hi \in Position :
                       Walk(f, lo, mid, hi) => RunOk(f, d, lo, mid, hi)',
         f = "account" /\ ~outrun => \A lo, mid, hi \in Position :
           Walk("blocks", lo, mid, hi) /\ Stays(lo, hi) => StaysRun(job'["account"][d], lo, hi)
  PROVE  IInv'
<1>1. PairedInv'
  BY DEF IInv, PairedInv, OnlyJob
<1>2. TipInv'
  BY Fetchers DEF IInv, TipInv, InPhase, OnlyJob
<1>3. \A g \in Fetcher : Walks(g)' <=> Walks(g)
  BY DEF Walks
<1>4. \A g \in Fetcher : InPhase(g, "backward", "off") => InPhase(g, "backward", "off")'
  BY Fetchers DEF InPhase, OnlyJob
<1>5. OrderInv'
  <2>1. \A g \in Fetcher : FirstInv(g) => FirstInv(g)'
    BY <1>4 DEF FirstInv
  <2>2. ~Seen(state["blocks"].cursors) => \A e \in Direction : Idle(job'["account"][e])
    BY Fetchers DEF IInv, OrderInv, Idle, OnlyJob
  <2>3. QED
    BY <1>3, <1>4, <2>1, <2>2, Fetchers DEF IInv, OrderInv
<1>6. ASSUME NEW g \in Fetcher, Walks(g), NEW lo \in Position, NEW mid \in Position,
             NEW hi \in Position, Walk(g, lo, mid, hi)
      PROVE  Walk(g, lo, mid, hi)'
  <2>1. lo \in Int /\ mid \in Int /\ hi \in Int /\ TypeOK
    BY DEF Position, IInv
  <2>2. Have(g) \subseteq Have(g)'
    BY HaveKept
  <2>3. ASSUME NEW e \in Direction
        PROVE  RunOk(g, e, lo, mid, hi)'
    <3>1. CASE g = f /\ e = d
      BY <3>1, <1>6
    <3>2. CASE g # f \/ e # d
      <4>1. job'[g][e] = job[g][e] /\ RunOk(g, e, lo, mid, hi)
        BY <3>2, <1>6 DEF OnlyJob, Walk
      <4>2. QED
        BY <4>1, <2>1, <2>2, RunKept
    <3>3. QED
      BY <3>1, <3>2
  <2>4. QED
    BY <2>2, <2>3, <1>6 DEF Walk, First
<1>7. ASSUME NEW lo \in Position, NEW mid \in Position, NEW hi \in Position, ~outrun,
             Walk("blocks", lo, mid, hi), Stays(lo, hi)
      PROVE  Stays(lo, hi)'
  <2>1. ASSUME NEW e \in Direction
        PROVE  StaysRun(job'["account"][e], lo, hi)
    <3>1. CASE f = "account" /\ e = d
      BY <3>1, <1>7
    <3>2. CASE f # "account" \/ e # d
      BY <3>2, <1>7, Fetchers DEF OnlyJob, Stays
    <3>3. QED
      BY <3>1, <3>2
  <2>2. QED
    BY <2>1, <1>7 DEF Stays
<1>8. WalkInv'
  BY <1>3, <1>6, <1>7 DEF IInv, WalkInv
<1>9. QED
  BY <1>1, <1>2, <1>5, <1>8 DEF IInv
-----------------------------------------------------------------------------
LEMMA CursorTypes ==
  ASSUME TypeOK, NEW f \in Fetcher
  PROVE  /\ state[f].cursors.forward \in Cursor /\ state[f].cursors.backward \in Cursor
         /\ saved[f].cursors.forward \in Cursor /\ saved[f].cursors.backward \in Cursor
         /\ state[f].cursors \in Cursors /\ saved[f].cursors \in Cursors
         /\ state[f].complete \in BOOLEAN
BY DEF TypeOK, HistTypeOK, FetcherState, Cursors

LEMMA LimitTypes ==
  ASSUME NEW f \in Fetcher
  PROVE  /\ PageLimit[f] \in Nat /\ PageLimit[f] > 0 /\ PageLimit[f] <= Last
         /\ RunLimit[f] \in 0..Unlimited
         /\ \A from \in Nat : /\ Limited(f, from) \in 0..Unlimited
                              /\ from # 0 => Limited(f, from) = 2 * (Last + 1)
<1>1. Last \in Nat /\ PageLimit[f] \in 1..Last /\ RunLimit[f] \in 1..Last
  BY LastAssumption, LimitAssumption
<1>2. QED
  BY <1>1 DEF Limited, Unlimited

OnlyJobs == UNCHANGED <<state, saved, kind, tip, blocks, logs, outrun, faults>>

(* A run that has just begun with this range is as it should be.            *)
RangeWalks(f, d, from, to, left) ==
  \A lo, mid, hi \in Position, r \in Run :
    /\ Walk(f, lo, mid, hi) /\ r.phase = "fetching" /\ r.last = NoCursors
    /\ r.from = from /\ r.to = to /\ r.left = left
    => IF d = "forward" THEN ForwardRun(r, state[f].cursors, lo, mid, hi, Have(f))
       ELSE BackwardRun(r, lo, mid, hi, Have(f))

RangeStays(from, to) ==
  \A lo, mid, hi \in Position :
    Walk("blocks", lo, mid, hi) /\ Stays(lo, hi) => lo <= from /\ to <= hi

LEMMA BeginStep ==
  ASSUME IInv, NEW f \in Fetcher, NEW d \in Direction,
         NEW from \in Position, NEW to \in Cursor, NEW left \in 0..Unlimited,
         BeginRange(f, d, from, to, left),
         OnlyJobs,
         f = "account" => Seen(state["blocks"].cursors),
         from > to /\ d = "forward" /\ Walks(f) => Seen(state[f].cursors),
         from <= to /\ Walks(f) => RangeWalks(f, d, from, to, left),
         from <= to /\ f = "account" /\ ~outrun => RangeStays(from, to),
         from <= to /\ f = "blocks" => to <= tip
  PROVE  IInv'
<1>1. HistTypeOK /\ TypeOK
  BY DEF IInv, TypeOK
<1>2. CASE from > to
  <2>1. BeginEmpty(f, d)
    BY <1>2 DEF BeginRange
  <2>2. /\ JobType' /\ OnlyJob(f, d)
        /\ job'[f][d].phase = "fetched" /\ job'[f][d].error = FALSE
        /\ job'[f][d].last = NoCursors /\ job'[f][d].prev = NoCursors
    BY <1>1, <2>1, BeginEmptySteps
  <2>3. TypeOK'
    BY <1>1, <2>2 DEF TypeOK, HistTypeOK, JobType, OnlyJobs
  <2>4. Walks(f) => \A lo, mid, hi \in Position :
                      Walk(f, lo, mid, hi) => RunOk(f, d, lo, mid, hi)'
    BY <1>2, <2>2, NoRunType, Fetchers
      DEF OnlyJobs, RunOk, ForwardRun, BackwardRun, Pages, In
  <2>5. \A lo, hi \in Position : StaysRun(job'[f][d], lo, hi)
    BY <2>2, NoRunType DEF StaysRun, Within
  <2>6. job[f][d].phase = "due"
    BY <2>1 DEF BeginEmpty, InPhase
  <2>7. QED
    BY <2>2, <2>3, <2>4, <2>5, <2>6, NoRunType, RunStep DEF OnlyJobs
<1>3. CASE from <= to
  <2>1. Begin(f, d, from, to, left)
    BY <1>3 DEF BeginRange, Position, Cursor, None
  <2>2. /\ JobType' /\ OnlyJob(f, d)
        /\ job'[f][d].phase = "fetching" /\ job'[f][d].from = from
        /\ job'[f][d].to = to /\ job'[f][d].left = left
        /\ job'[f][d].last = NoCursors /\ job'[f][d].prev = NoCursors
    BY <1>1, <2>1, BeginSteps DEF Began
  <2>3. TypeOK'
    BY <1>1, <2>2 DEF TypeOK, HistTypeOK, JobType, OnlyJobs
  <2>4. job'[f][d] \in Run
    BY <2>2 DEF JobType, OnlyJobs
  <2>5. Walks(f) => \A lo, mid, hi \in Position :
                      Walk(f, lo, mid, hi) => RunOk(f, d, lo, mid, hi)'
    <3>1. Have(f)' = Have(f) /\ state' = state
      BY DEF OnlyJobs, Have, Got
    <3>2. QED
      BY <1>3, <2>2, <2>4, <3>1 DEF RunOk, RangeWalks
  <2>6. f = "account" /\ ~outrun => \A lo, mid, hi \in Position :
          Walk("blocks", lo, mid, hi) /\ Stays(lo, hi) => StaysRun(job'["account"][d], lo, hi)
    <3>1. from <= to + 1
      BY <1>3 DEF Position, Cursor, None
    <3>2. QED
      BY <1>3, <2>2, <3>1, NoRunType DEF RangeStays, StaysRun, Within
  <2>7. job[f][d].phase = "due"
    BY <2>1 DEF Begin, InPhase
  <2>8. QED
    BY <1>3, <2>2, <2>3, <2>5, <2>6, <2>7, NoRunType, RunStep DEF OnlyJobs
<1>4. QED
  BY <1>2, <1>3, LastAssumption DEF Position, Cursor, None

(* A forward run begins next to the cursor, where there is one.             *)
LEMMA ForwardRange ==
  ASSUME TypeOK, NEW f \in Fetcher, NEW from \in Nat, NEW to \in Position, from <= to,
         Seen(state[f].cursors) => from = state[f].cursors.forward + 1
  PROVE  RangeWalks(f, "forward", from, to, Limited(f, from))
<1> DEFINE now == state[f].cursors
           left == Limited(f, from)
<1>1. now.forward \in Cursor /\ Last \in Nat
  BY CursorTypes, LastAssumption
<1>2. Seen(now) => now.forward \in Nat /\ left = 2 * (Last + 1)
  BY <1>1, LimitTypes DEF Seen, Cursor, Position, None
<1>3. Seen(now) => left >= to + Last + 2
  BY <1>1, <1>2 DEF Position
<1> HIDE DEF left
<1>4. ASSUME NEW lo \in Position, NEW mid \in Position, NEW hi \in Position, NEW r \in Run,
             Walk(f, lo, mid, hi), r.phase = "fetching", r.last = NoCursors,
             r.from = from, r.to = to, r.left = left
      PROVE  ForwardRun(r, now, lo, mid, hi, Have(f))
  <2>1. In(now, lo, mid, hi)
    BY <1>4 DEF Walk
  <2>2. Seen(now) => mid <= from /\ from <= hi + 1
    BY <1>2, <2>1 DEF In, Position
  <2> HIDE DEF now
  <2>3. from <= to + 1
    BY DEF Position
  <2>4. QED
    BY <1>3, <1>4, <2>2, <2>3, NoRunType DEF ForwardRun, Pages
<1>5. QED
  BY <1>4 DEF RangeWalks, left

(* A backward run begins below the cursor.                                  *)
LEMMA BackwardRange ==
  ASSUME TypeOK, NEW f \in Fetcher, NEW from \in Position, NEW to \in Cursor, from <= to,
         Seen(state[f].cursors), to = state[f].cursors.backward - 1, NEW left
  PROVE  RangeWalks(f, "backward", from, to, left)
<1> DEFINE now == state[f].cursors
<1>1. /\ now.backward \in Int /\ to \in Int /\ from <= to + 1
  BY CursorTypes, LastAssumption DEF Cursor, Position, None
<1>2. ASSUME NEW lo \in Position, NEW mid \in Position, NEW hi \in Position, NEW r \in Run,
             Walk(f, lo, mid, hi), r.phase = "fetching", r.last = NoCursors,
             r.from = from, r.to = to
      PROVE  BackwardRun(r, lo, mid, hi, Have(f))
  <2>1. /\ now.backward \in lo..mid /\ now.forward \in mid..hi /\ lo..hi \subseteq Have(f)
    BY <1>2 DEF Walk, In
  <2>2. to + 1 <= mid /\ to + 1..lo \subseteq lo..hi
    BY <1>1, <2>1 DEF Position
  <2>3. QED
    BY <1>1, <1>2, <2>1, <2>2, NoRunType DEF BackwardRun, Pages
<1>3. QED
  BY <1>2 DEF RangeWalks

LEMMA BlocksForwardBegins ==
  ASSUME IInv, RunBlocksForward, OnlyJobs
  PROVE  IInv'
<1> DEFINE now == state["blocks"].cursors
           from == IF now.forward = None THEN 0 ELSE now.forward + 1
           left == Limited("blocks", from)
<1>1. TypeOK /\ now.forward \in Cursor /\ Last \in Nat /\ tip \in Position
  BY CursorTypes, Fetchers, LastAssumption DEF IInv, TypeOK
<1>2. from \in Nat /\ (Seen(now) <=> from # 0) /\ (Seen(now) => from = now.forward + 1)
  BY <1>1 DEF Seen, Cursor, Position, None
<1>3. left \in 0..Unlimited
  BY <1>2, LimitTypes, Fetchers
<1>4. BeginRange("blocks", "forward", from, tip, left)
  BY DEF RunBlocksForward
<1>5. from <= tip => RangeWalks("blocks", "forward", from, tip, left)
  <2> HIDE DEF from
  <2>1. QED
    BY <1>1, <1>2, ForwardRange, Fetchers
<1>6. from > tip => Seen(now)
  BY <1>1, <1>2 DEF Position
<1>7. tip \in Cursor /\ tip <= tip
  BY <1>1 DEF Cursor, Position
<1> HIDE DEF left, from
<1>8. CASE from \in Position
  BY <1>3, <1>4, <1>5, <1>6, <1>7, <1>8, BeginStep, Fetchers
<1>9. CASE from \notin Position
  <2>1. from > tip
    BY <1>1, <1>2, <1>9 DEF Position, Cursor, None
  <2>2. BeginEmpty("blocks", "forward")
    BY <1>4, <2>1 DEF BeginRange
  <2>3. BeginRange("blocks", "forward", Last, None, left)
    BY <2>2, <1>1 DEF BeginRange, None
  <2>4. Last \in Position /\ None \in Cursor /\ ~(Last <= None)
    BY <1>1 DEF Position, Cursor, None
  <2>5. QED
    BY <2>1, <2>3, <2>4, <1>3, <1>6, BeginStep, Fetchers
<1>10. QED
  BY <1>8, <1>9

LEMMA BlocksBackwardBegins ==
  ASSUME IInv, RunBlocksBackward, OnlyJobs
  PROVE  IInv'
<1> DEFINE now == state["blocks"].cursors
           to == IF now.backward = None THEN tip ELSE now.backward - 1
           left == RunLimit["blocks"]
<1>1. /\ TypeOK /\ now.backward \in Cursor /\ Last \in Nat /\ tip \in Position
      /\ now.forward \in Cursor /\ left \in 0..Unlimited
  BY CursorTypes, Fetchers, LastAssumption, LimitTypes DEF IInv, TypeOK
<1>2. BeginRange("blocks", "backward", 0, to, left)
  BY DEF RunBlocksBackward
<1>3. to \in Cursor /\ 0 \in Position
  BY <1>1 DEF Cursor, Position, None
<1>4. InPhase("blocks", "backward", "due")
  BY <1>2 DEF BeginRange, BeginEmpty, Begin
<1>5. Seen(now)
  BY <1>4, Fetchers DEF IInv, OrderInv, FirstInv, Walks, InPhase
<1>6. now.backward \in Position /\ to = now.backward - 1
  BY <1>1, <1>5, Fetchers DEF IInv, PairedInv, Paired, Seen, Cursor
<1>7. to <= tip
  <2>1. PICK lo, mid, hi \in Position : Walk("blocks", lo, mid, hi)
    BY Fetchers DEF IInv, WalkInv, Walks
  <2>2. /\ now.backward \in lo..mid /\ now.forward \in mid..hi
        /\ lo..hi \subseteq blocks /\ blocks \subseteq 0..tip
    BY <1>1, <1>5, <2>1 DEF Walk, In, Have, TypeOK
  <2>3. now.backward \in lo..hi
    BY <2>2 DEF Position
  <2>4. now.backward <= tip
    BY <2>2, <2>3, <1>1
  <2>5. QED
    BY <2>4, <1>1, <1>6 DEF Position
<1> HIDE DEF left, to
<1>8. 0 <= to => RangeWalks("blocks", "backward", 0, to, left)
  BY <1>1, <1>3, <1>5, <1>6, BackwardRange, Fetchers
<1>9. QED
  BY <1>1, <1>2, <1>3, <1>5, <1>7, <1>8, BeginStep, Fetchers

(* Where the account's runs may go, the cursors of the blocks being there.  *)
LEMMA AccountBounds ==
  ASSUME IInv, Seen(state["blocks"].cursors)
  PROVE  LET seen == state["blocks"].cursors
             now == state["account"].cursors
         IN /\ seen.backward \in Position /\ seen.forward \in Position
            /\ seen.backward <= seen.forward
            /\ now.forward \in Cursor /\ now.backward \in Cursor
            /\ Seen(now) <=> now.backward # None
            /\ \A lo, mid, hi \in Position : Walk("blocks", lo, mid, hi) /\ Stays(lo, hi) =>
                 /\ lo <= seen.backward /\ seen.forward <= hi
                 /\ Seen(now) => /\ lo <= now.backward /\ now.backward <= hi
                                 /\ lo <= now.forward /\ now.forward <= hi
<1> DEFINE seen == state["blocks"].cursors
           now == state["account"].cursors
<1>1. TypeOK /\ PairedInv
  BY DEF IInv
<1>2. /\ now.forward \in Cursor /\ now.backward \in Cursor
      /\ seen.forward \in Cursor /\ seen.backward \in Cursor
      /\ Seen(now) <=> now.backward # None
  BY <1>1, CursorTypes, Fetchers DEF PairedInv, Paired, Seen
<1>3. seen.backward \in Position /\ seen.forward \in Position
  BY <1>1, <1>2, Fetchers DEF PairedInv, Paired, Seen, Cursor
<1>4. \A lo, mid, hi \in Position : Walk("blocks", lo, mid, hi) =>
        seen.backward \in lo..mid /\ seen.forward \in mid..hi
  BY DEF Walk, In
<1>5. \A lo, hi \in Position : Stays(lo, hi) /\ Seen(now) =>
        now.forward \in lo..hi /\ now.backward \in lo..hi
  BY DEF Stays, Within
<1>6. \E lo, mid, hi \in Position : Walk("blocks", lo, mid, hi)
  BY Fetchers DEF IInv, WalkInv, Walks
<1> HIDE DEF seen, now
<1>7. seen.backward <= seen.forward
  BY <1>3, <1>4, <1>6 DEF Position
<1>8. ASSUME NEW lo \in Position, NEW mid \in Position, NEW hi \in Position,
             Walk("blocks", lo, mid, hi), Stays(lo, hi)
      PROVE  /\ lo <= seen.backward /\ seen.forward <= hi
             /\ Seen(now) => /\ lo <= now.backward /\ now.backward <= hi
                             /\ lo <= now.forward /\ now.forward <= hi
  BY <1>3, <1>4, <1>5, <1>8 DEF Position
<1>9. QED
  BY <1>2, <1>3, <1>7, <1>8 DEF seen, now

LEMMA AccountForwardBegins ==
  ASSUME IInv, FetchForward, OnlyJobs
  PROVE  IInv'
<1> DEFINE seen == state["blocks"].cursors
           now == state["account"].cursors
           from == IF now.forward = None THEN seen.backward ELSE now.forward + 1
           to == seen.forward
           left == Limited("account", from)
<1>1. /\ from # None /\ Seen(seen)
      /\ BeginRange("account", "forward", from, to, left)
  BY DEF FetchForward, Seen
<1>2. /\ seen.backward \in Position /\ to \in Position
      /\ seen.backward <= to
      /\ now.forward \in Cursor
      /\ \A lo, mid, hi \in Position : Walk("blocks", lo, mid, hi) /\ Stays(lo, hi) =>
           /\ lo <= seen.backward /\ to <= hi
           /\ Seen(now) => lo <= now.forward
  BY <1>1, AccountBounds
<1>3. TypeOK /\ Last \in Nat
  BY LastAssumption DEF IInv
<1>4. /\ from \in Nat /\ (Seen(now) => from = now.forward + 1)
      /\ ~Seen(now) => from = seen.backward
  BY <1>2 DEF Seen, Cursor, Position, None
<1>5. left \in 0..Unlimited
  BY <1>4, LimitTypes, Fetchers
<1> HIDE DEF from
<1>6. from <= to => RangeWalks("account", "forward", from, to, left)
  BY <1>2, <1>3, <1>4, ForwardRange, Fetchers
<1>7. from <= to => RangeStays(from, to)
  BY <1>2, <1>4, LastAssumption DEF RangeStays, Position, Cursor, None
<1>8. from > to => Seen(now)
  BY <1>2, <1>4 DEF Position
<1>9. to \in Cursor /\ "account" # "blocks"
  BY <1>2 DEF Cursor
<1> HIDE DEF left, to
<1>10. CASE from \in Position
  BY <1>1, <1>5, <1>6, <1>7, <1>8, <1>9, <1>10, BeginStep, Fetchers
<1>11. CASE from \notin Position
  <2>1. from > to
    BY <1>2, <1>3, <1>4, <1>11 DEF Position
  <2>2. BeginEmpty("account", "forward")
    BY <1>1, <2>1 DEF BeginRange
  <2>3. BeginRange("account", "forward", Last, None, left)
    BY <2>2, <1>3 DEF BeginRange, None
  <2>4. Last \in Position /\ None \in Cursor /\ ~(Last <= None)
    BY <1>3 DEF Position, Cursor, None
  <2>5. QED
    BY <2>1, <2>3, <2>4, <1>1, <1>5, <1>8, BeginStep, Fetchers
<1>12. QED
  BY <1>10, <1>11

LEMMA AccountBackwardBegins ==
  ASSUME IInv, FetchBackward, OnlyJobs
  PROVE  IInv'
<1> DEFINE seen == state["blocks"].cursors
           now == state["account"].cursors
           from == seen.backward
           to == IF now.backward = None THEN seen.forward ELSE now.backward - 1
           left == RunLimit["account"]
<1>1. /\ Seen(seen)
      /\ BeginRange("account", "backward", from, to, left)
  BY DEF FetchBackward, Seen
<1>2. /\ from \in Position /\ seen.forward \in Position
      /\ now.backward \in Cursor
      /\ Seen(now) <=> now.backward # None
      /\ \A lo, mid, hi \in Position : Walk("blocks", lo, mid, hi) /\ Stays(lo, hi) =>
           /\ lo <= from /\ seen.forward <= hi
           /\ Seen(now) => now.backward <= hi
  BY <1>1, AccountBounds
<1>3. TypeOK /\ Last \in Nat /\ left \in 0..Unlimited
  BY LastAssumption, LimitTypes, Fetchers DEF IInv
<1>4. /\ Seen(now) => to = now.backward - 1 /\ now.backward \in Position
      /\ ~Seen(now) => to = seen.forward
  BY <1>2 DEF Cursor
<1>5. to \in Cursor
  BY <1>2, <1>3, <1>4 DEF Cursor, Position, None
<1>6. InPhase("account", "backward", "due")
  BY <1>1 DEF BeginRange, BeginEmpty, Begin
<1>7. Walks("account") => Seen(now)
  BY <1>6, Fetchers DEF IInv, OrderInv, FirstInv, InPhase
<1> HIDE DEF left, to
<1>8. from <= to /\ Walks("account") => RangeWalks("account", "backward", from, to, left)
  BY <1>2, <1>3, <1>4, <1>5, <1>7, BackwardRange, Fetchers
<1>9. RangeStays(from, to)
  <2> HIDE DEF seen, now, from
  <2>1. ASSUME NEW lo \in Position, NEW mid \in Position, NEW hi \in Position,
               Walk("blocks", lo, mid, hi), Stays(lo, hi)
        PROVE  lo <= from /\ to <= hi
    BY <1>2, <1>4, <2>1 DEF Position
  <2>2. QED
    BY <2>1 DEF RangeStays
<1>10. "account" # "blocks" /\ "backward" # "forward"
  OBVIOUS
<1> HIDE DEF from
<1>11. QED
  BY <1>1, <1>2, <1>3, <1>5, <1>8, <1>9, <1>10, BeginStep, Fetchers
-----------------------------------------------------------------------------
(* A run that is broken off keeps the pages it has.                         *)
LEMMA RunEnds ==
  ASSUME NEW r \in Run, NEW r2 \in Run, r.phase = "fetching", r2.phase = "fetched",
         r2.from = r.from, r2.last = r.last, r2.prev = r.prev, r2.error,
         NEW now, NEW lo \in Int, NEW mid \in Int, NEW hi \in Int, NEW B
  PROVE  /\ ForwardRun(r, now, lo, mid, hi, B) => ForwardRun(r2, now, lo, mid, hi, B)
         /\ BackwardRun(r, lo, mid, hi, B) => BackwardRun(r2, lo, mid, hi, B)
         /\ StaysRun(r, lo, hi) => StaysRun(r2, lo, hi)
<1>1. Pages(r, B) => Pages(r2, B)
  BY DEF Pages
<1>2. ForwardRun(r, now, lo, mid, hi, B) => ForwardRun(r2, now, lo, mid, hi, B)
  BY <1>1 DEF ForwardRun
<1>3. BackwardRun(r, lo, mid, hi, B) => BackwardRun(r2, lo, mid, hi, B)
  BY <1>1 DEF BackwardRun, Pages
<1>4. StaysRun(r, lo, hi) => StaysRun(r2, lo, hi)
  BY DEF StaysRun, Idle
<1>5. QED
  BY <1>2, <1>3, <1>4

(* r2 is the run r after a page from first to newest: one that was full if  *)
(* the run may go on.                                                       *)
GoesBelow(r, r2, first, newest) ==
  /\ r.phase = "fetching" /\ first <= newest /\ newest <= r.to
  /\ r2.to = first - 1 /\ r2.last.backward = first
  /\ r2.last.forward = IF Seen(r.last) THEN r.last.forward ELSE newest

AfterPage(r, r2, first, newest, lim, full) ==
  /\ GoesBelow(r, r2, first, newest)
  /\ r.from <= first
  /\ full => lim <= r.to - first + 1
  /\ r2.phase = IF full /\ r.left - lim > 0 THEN "fetching" ELSE "fetched"
  /\ r2.from = r.from /\ r2.left = r.left - lim
  /\ r2.prev = r.prev

LEMMA PagesAfterPage ==
  ASSUME NEW r \in Run, NEW r2 \in Run, NEW B, NEW B2,
         NEW first \in Position, NEW newest \in Position, GoesBelow(r, r2, first, newest),
         B \subseteq B2, first..r.to \subseteq B2, Pages(r, B)
  PROVE  /\ Pages(r2, B2) /\ Seen(r2.last)
         /\ newest <= r2.last.forward /\ first..r2.last.forward \subseteq B2
         /\ r.to + 1..r2.last.forward \subseteq B2
<1> USE DEF GoesBelow
<1>1. /\ r.to \in Int /\ r.last.forward \in Int /\ r.last.backward \in Int
      /\ first \in Nat /\ newest \in Nat /\ r2.last.forward \in Int
  BY RunTypes, LastAssumption DEF Position
<1>2. Seen(r.last) => r.to + 1 <= r.last.forward /\ r.to + 1..r.last.forward \subseteq B
  BY DEF Pages
<1>3. /\ newest <= r2.last.forward /\ first..r2.last.forward \subseteq B2
      /\ r.to + 1..r2.last.forward \subseteq B2
  <2>1. CASE Seen(r.last)
    BY <2>1, <1>1, <1>2
  <2>2. CASE ~Seen(r.last)
    BY <2>2, <1>1
  <2>3. QED
    BY <2>1, <2>2
<1>4. Seen(r2.last)
  BY <1>1, <1>3 DEF Seen, None
<1>5. Pages(r2, B2)
  BY <1>1, <1>3 DEF Pages
<1>6. QED
  BY <1>3, <1>4, <1>5

LEMMA ForwardRunPage ==
  ASSUME NEW r \in Run, NEW r2 \in Run, NEW now,
         NEW lo \in Int, NEW mid \in Int, NEW hi \in Int, NEW B, NEW B2,
         NEW first \in Position, NEW newest \in Position, NEW lim \in Int, NEW full \in BOOLEAN,
         AfterPage(r, r2, first, newest, lim, full),
         B \subseteq B2, first..r.to \subseteq B2, full \/ r.from..r.to \subseteq B2,
         ForwardRun(r, now, lo, mid, hi, B)
  PROVE  ForwardRun(r2, now, lo, mid, hi, B2)
<1>1. /\ r.from \in Nat /\ r.to \in Int /\ Last \in Nat /\ r.left \in Nat
      /\ first \in Nat /\ newest \in Nat /\ r2.last.forward \in Int
  BY RunTypes, LastAssumption DEF Position
<1>2. /\ Pages(r, B) /\ r.from <= r.to + 1
      /\ Seen(now) => r.left >= r.to + Last + 2 /\ mid <= r.from /\ r.from <= hi + 1
  BY DEF ForwardRun, AfterPage, GoesBelow
<1>3. /\ Pages(r2, B2) /\ Seen(r2.last)
      /\ newest <= r2.last.forward /\ first..r2.last.forward \subseteq B2
      /\ r.to + 1..r2.last.forward \subseteq B2
  BY <1>2, PagesAfterPage DEF AfterPage
<1> USE DEF AfterPage, GoesBelow
<1>4. r2.phase = "fetching" =>
        r2.from <= r2.to + 1 /\ (Seen(now) => r2.left >= r2.to + Last + 2)
  BY <1>1, <1>2
<1>5. r2.phase = "fetched" /\ Seen(now) =>
        r2.from <= r2.last.forward /\ r2.from..r2.last.forward \subseteq B2
  <2>1. SUFFICES ASSUME r2.phase = "fetched", Seen(now)
                 PROVE  r2.from <= r2.last.forward /\ r2.from..r2.last.forward \subseteq B2
    OBVIOUS
  <2>2. ~full
    BY <2>1, <1>1, <1>2
  <2>3. r.from..r.to \subseteq B2
    BY <2>2
  <2>4. QED
    BY <2>3, <1>1, <1>3
<1>6. r2.phase \in {"fetching", "fetched"} /\ r2.from = r.from
  OBVIOUS
<1>7. QED
  BY <1>2, <1>3, <1>4, <1>5, <1>6 DEF ForwardRun

LEMMA BackwardRunPage ==
  ASSUME NEW r \in Run, NEW r2 \in Run,
         NEW lo \in Int, NEW mid \in Int, NEW hi \in Int, NEW B, NEW B2,
         NEW first \in Position, NEW newest \in Position, NEW lim \in Int, NEW full \in BOOLEAN,
         AfterPage(r, r2, first, newest, lim, full),
         B \subseteq B2, first..r.to \subseteq B2,
         BackwardRun(r, lo, mid, hi, B)
  PROVE  BackwardRun(r2, lo, mid, hi, B2)
<1>1. r.from \in Nat /\ r.to \in Int /\ first \in Nat /\ newest \in Nat
  BY RunTypes, LastAssumption DEF Position
<1>2. /\ Pages(r, B) /\ r.to + 1 <= mid /\ r.to + 1..lo \subseteq B
  BY DEF BackwardRun, AfterPage, GoesBelow
<1>3. Pages(r2, B2)
  BY <1>2, PagesAfterPage DEF AfterPage
<1> USE DEF AfterPage, GoesBelow
<1>4. first <= mid /\ r.from <= first /\ first..lo \subseteq B2
  BY <1>1, <1>2
<1>5. r2.phase \in {"fetching", "fetched"} /\ r2.to + 1 = first /\ r2.last.backward = first
  BY <1>1
<1>6. QED
  BY <1>3, <1>4, <1>5 DEF BackwardRun

LEMMA StaysRunPage ==
  ASSUME NEW r \in Run, NEW r2 \in Run, NEW lo \in Int, NEW hi \in Int,
         NEW first \in Position, NEW newest \in Position, NEW lim \in Int, NEW full \in BOOLEAN,
         AfterPage(r, r2, first, newest, lim, full),
         StaysRun(r, lo, hi)
  PROVE  StaysRun(r2, lo, hi)
<1>1. r.from \in Nat /\ r.to \in Int /\ first \in Nat /\ newest \in Nat
  BY RunTypes, LastAssumption DEF Position
<1>2. lo <= r.from /\ r.to <= hi /\ Within(r.last, lo, hi) /\ Within(r.prev, lo, hi)
  BY DEF StaysRun, AfterPage, GoesBelow, Idle
<1> USE DEF AfterPage, GoesBelow
<1>3. Within(r2.last, lo, hi)
  BY <1>1, <1>2 DEF Within
<1>4. r2.phase = "fetching" => lo <= r2.from /\ r2.to <= hi /\ r2.from <= r2.to + 1
  BY <1>1, <1>2
<1>5. QED
  BY <1>2, <1>3, <1>4 DEF StaysRun
-----------------------------------------------------------------------------
(* A run between two pages.                                                 *)
LEMMA FetchingRun ==
  ASSUME IInv, NEW f \in Fetcher, NEW d \in Direction, InPhase(f, d, "fetching")
  PROVE  /\ job[f][d] \in Run /\ job[f][d].phase = "fetching"
         /\ Paired(job[f][d].last) /\ Paired(job[f][d].prev)
         /\ Limit(f, d) \in Nat /\ Limit(f, d) <= job[f][d].left
         /\ job[f][d].left - Limit(f, d) \in 0..Unlimited
         /\ Length(f, d) \in Int /\ Length(f, d) <= Limit(f, d)
         /\ Length(f, d) <= job[f][d].to - job[f][d].from + 1
         /\ Length(f, d) = Limit(f, d) \/ Length(f, d) = job[f][d].to - job[f][d].from + 1
         /\ job[f][d].to \in Int /\ job[f][d].from \in Nat
<1> DEFINE r == job[f][d]
<1>1. r \in Run /\ r.phase = "fetching"
  BY DEF IInv, TypeOK, HistTypeOK, InPhase
<1>2. Paired(r.last) /\ Paired(r.prev)
  BY DEF IInv, PairedInv
<1>3. r.left \in 0..Unlimited /\ r.to \in Int /\ r.from \in Nat /\ Last \in Nat
  BY <1>1, LastAssumption DEF Run, Cursor, Position, None
<1>4. PageLimit[f] \in Nat
  BY LimitTypes
<1> HIDE DEF r
<1>5. /\ Limit(f, d) = IF r.left < PageLimit[f] THEN r.left ELSE PageLimit[f]
      /\ Length(f, d) = IF Limit(f, d) < r.to - r.from + 1 THEN Limit(f, d) ELSE r.to - r.from + 1
  BY DEF Limit, Length, Smaller, r
<1>6. QED
  BY <1>1, <1>2, <1>3, <1>4, <1>5 DEF r, Unlimited

(* A step of a run that takes a page.                                       *)
LEMMA PageStep ==
  ASSUME IInv, NEW f \in Fetcher, NEW d \in Direction, InPhase(f, d, "fetching"),
         state' = state, saved' = saved, kind' = kind, tip' = tip, outrun' = outrun,
         faults' = faults, blocks \subseteq blocks', blocks' \subseteq 0..tip,
         logs \subseteq logs', logs' \subseteq Ours \cap blocks',
         NEW first \in Position, NEW newest \in Position, NEW full \in BOOLEAN,
         job[f][d].from <= first, first <= newest, newest <= job[f][d].to,
         full => Limit(f, d) <= job[f][d].to - first + 1,
         PageDone(f, d, first, newest, job[f][d].left - Limit(f, d),
                  full /\ job[f][d].left - Limit(f, d) > 0),
         Walks(f) => first..job[f][d].to \subseteq Have(f)',
         Walks(f) => full \/ job[f][d].from..job[f][d].to \subseteq Have(f)'
  PROVE  IInv'
<1> DEFINE r == job[f][d]
           r2 == job'[f][d]
           lim == Limit(f, d)
           left == r.left - lim
           more == full /\ left > 0
<1>1. /\ HistTypeOK /\ TypeOK /\ r \in Run /\ r.phase = "fetching"
      /\ Paired(r.last) /\ Paired(r.prev) /\ lim \in Int /\ left \in 0..Unlimited
      /\ more \in BOOLEAN /\ r.to \in Int
  BY FetchingRun DEF IInv, TypeOK
<1>2. /\ JobType' /\ OnlyJob(f, d)
      /\ r2.phase = IF more THEN "fetching" ELSE "fetched"
      /\ r2.error = r.error /\ r2.from = r.from /\ r2.to = first - 1 /\ r2.left = left
      /\ r2.last.backward = first
      /\ r2.last.forward = IF Seen(r.last) THEN r.last.forward ELSE newest
      /\ r2.prev = r.prev
  <2>1. PageDone(f, d, first, newest, left, more)
    OBVIOUS
  <2> HIDE DEF more, left, r
  <2>2. QED
    BY <1>1, <2>1, PageDoneSteps DEF r
<1>3. TypeOK'
  BY <1>1, <1>2 DEF TypeOK, HistTypeOK, JobType
<1>4. r2 \in Run
  BY <1>2 DEF JobType
<1>5. Paired(r2.last) /\ Paired(r2.prev)
  BY <1>1, <1>2, LastAssumption DEF Paired, Position, None, Seen
<1>6. AfterPage(r, r2, first, newest, lim, full)
  BY <1>1, <1>2 DEF AfterPage, GoesBelow
<1>7. Have(f) \subseteq Have(f)'
  BY HaveKept
<1>8. f = "blocks" => r2.to <= tip
  <2>1. f = "blocks" => r.to <= tip
    BY DEF IInv, TipInv
  <2>2. first - 1 <= r.to
    BY <1>1 DEF Position
  <2>3. QED
    BY <2>1, <2>2, <1>1, <1>2 DEF TypeOK, Position
<1>9. r2.phase \in {"fetching", "fetched"}
  BY <1>2
<1> HIDE DEF r, r2, lim, left, more
<1>10. ASSUME Walks(f), NEW lo \in Position, NEW mid \in Position, NEW hi \in Position,
              Walk(f, lo, mid, hi)
       PROVE  RunOk(f, d, lo, mid, hi)'
  <2>1. lo \in Int /\ mid \in Int /\ hi \in Int
    BY DEF Position
  <2>2. /\ first..r.to \subseteq Have(f)'
        /\ full \/ r.from..r.to \subseteq Have(f)'
    BY <1>10 DEF r
  <2>3. RunOk(f, d, lo, mid, hi)
    BY <1>10 DEF Walk
  <2>4. CASE d = "forward"
    <3>1. ForwardRun(r, state[f].cursors, lo, mid, hi, Have(f))
      BY <2>3, <2>4 DEF RunOk, r
    <3>2. ForwardRun(r2, state[f].cursors, lo, mid, hi, Have(f)')
      BY <3>1, <2>1, <2>2, <1>1, <1>4, <1>6, <1>7, ForwardRunPage
    <3>3. QED
      BY <3>2, <2>4 DEF RunOk, r2
  <2>5. CASE d # "forward"
    <3>1. BackwardRun(r, lo, mid, hi, Have(f))
      BY <2>3, <2>5 DEF RunOk, r
    <3>2. BackwardRun(r2, lo, mid, hi, Have(f)')
      BY <3>1, <2>1, <2>2, <1>1, <1>4, <1>6, <1>7, BackwardRunPage
    <3>3. QED
      BY <3>2, <2>5 DEF RunOk, r2
  <2>6. QED
    BY <2>4, <2>5
<1>11. ASSUME f = "account", NEW lo \in Position, NEW hi \in Position, Stays(lo, hi)
       PROVE  StaysRun(r2, lo, hi)
  <2>1. lo \in Int /\ hi \in Int
    BY DEF Position
  <2>2. StaysRun(r, lo, hi)
    BY <1>11 DEF Stays, r
  <2>3. QED
    BY <2>1, <2>2, <1>1, <1>4, <1>6, StaysRunPage
<1>12. QED
  BY <1>1, <1>2, <1>3, <1>5, <1>8, <1>9, <1>10, <1>11, RunStep DEF r, r2

LEMMA BlockPageIs ==
  ASSUME IInv, NEW d \in Direction, InPhase("blocks", d, "fetching"), Length("blocks", d) > 0
  PROVE  LET r == job["blocks"][d]
             first == r.to - Length("blocks", d) + 1
         IN /\ r.to \in Position /\ first \in Position
            /\ BlockPage(d) = first..r.to /\ BlockPage(d) \subseteq 0..tip
            /\ Least(BlockPage(d)) = first /\ Greatest(BlockPage(d)) = r.to
            /\ Cardinality(BlockPage(d)) = Length("blocks", d)
            /\ BlockPage(d) # {}
<1> DEFINE r == job["blocks"][d]
           len == Length("blocks", d)
           page == BlockPage(d)
<1>1. /\ r \in Run /\ len \in Int /\ len <= r.to - r.from + 1 /\ len > 0
      /\ r.to \in Int /\ r.from \in Nat
  BY FetchingRun, Fetchers
<1>2. r.to \in Position /\ r.to - len + 1 \in Position
  BY <1>1, LastAssumption DEF Run, Cursor, Position, None
<1>3. page = {h \in Position : r.to - len < h /\ h <= r.to}
  BY DEF BlockPage
<1> HIDE DEF page, len
<1>4. page = r.to - len + 1..r.to
  BY <1>1, <1>2, <1>3, LastAssumption DEF Position
<1>5. r.to <= tip
  BY DEF IInv, TipInv
<1>6. page \subseteq 0..tip
  BY <1>2, <1>4, <1>5 DEF IInv, TypeOK, Position
<1>7. page # {} /\ page \in SUBSET (0..Last) /\ page \in SUBSET Nat
  BY <1>1, <1>3, <1>4, LastAssumption DEF Position
<1>8. Least(page) = r.to - len + 1
  <2>1. Least(page) \in page /\ \A y \in page : Least(page) <= y
    BY <1>7, LeastIs
  <2> DEFINE least == Least(page)
  <2> HIDE DEF least
  <2>2. least \in r.to - len + 1..r.to /\ \A y \in r.to - len + 1..r.to : least <= y
    BY <2>1, <1>4 DEF least
  <2>3. r.to - len + 1 \in r.to - len + 1..r.to
    BY <1>1
  <2>4. least = r.to - len + 1
    BY <2>2, <2>3, <1>1
  <2>5. QED
    BY <2>4 DEF least
<1>9. Greatest(page) = r.to
  <2>1. Greatest(page) \in page /\ \A y \in page : Greatest(page) >= y
    BY <1>7, GreatestIs, LastAssumption
  <2> DEFINE greatest == Greatest(page)
  <2> HIDE DEF greatest
  <2>2. greatest \in r.to - len + 1..r.to /\ \A y \in r.to - len + 1..r.to : greatest >= y
    BY <2>1, <1>4 DEF greatest
  <2>3. r.to \in r.to - len + 1..r.to
    BY <1>1
  <2>4. greatest = r.to
    BY <2>2, <2>3, <1>1
  <2>5. QED
    BY <2>4 DEF greatest
<1>10. Cardinality(page) = len
  <2>1. r.to - len + 1 \in Int /\ r.to \in Int
    BY <1>1
  <2>2. Cardinality(r.to - len + 1..r.to) =
          IF r.to - len + 1 > r.to THEN 0 ELSE r.to - (r.to - len + 1) + 1
    BY <2>1, FS_Interval
  <2>3. QED
    BY <2>2, <1>1, <1>4
<1>11. QED
  BY <1>2, <1>4, <1>6, <1>7, <1>8, <1>9, <1>10 DEF page, len

LEMMA BlockPageStep ==
  ASSUME IInv, NEW d \in Direction, FetchBlockPage(d)
  PROVE  IInv'
<1> DEFINE r == job["blocks"][d]
           len == Length("blocks", d)
           lim == Limit("blocks", d)
           page == BlockPage(d)
           first == r.to - len + 1
           full == len >= lim
<1>1. /\ InPhase("blocks", d, "fetching") /\ len > 0 /\ blocks' = blocks \cup page
      /\ Turn("blocks", d, page)
      /\ state' = state /\ saved' = saved /\ kind' = kind /\ tip' = tip
      /\ logs' = logs /\ outrun' = outrun /\ faults' = faults
  BY DEF FetchBlockPage
<1>2. /\ lim \in Nat /\ len \in Int /\ len <= lim /\ len <= r.to - r.from + 1
      /\ len = lim \/ len = r.to - r.from + 1
      /\ r.to \in Int /\ r.from \in Nat
  BY <1>1, Fetchers, FetchingRun
<1>3. /\ r.to \in Position /\ first \in Position
      /\ page = first..r.to /\ page \subseteq 0..tip
      /\ Least(page) = first /\ Greatest(page) = r.to
      /\ Cardinality(page) = len /\ page # {}
  BY <1>1, BlockPageIs
<1>4. PageDone("blocks", d, first, r.to, r.left - lim, full /\ r.left - lim > 0)
  BY <1>1, <1>3 DEF Turn
<1>5. /\ blocks \subseteq blocks' /\ blocks' \subseteq 0..tip
      /\ logs \subseteq logs' /\ logs' \subseteq Ours \cap blocks'
  BY <1>1, <1>3 DEF IInv, TypeOK
<1>6. Have("blocks")' = blocks'
  BY DEF Have
<1>7. first..r.to \subseteq blocks'
  BY <1>1, <1>3
<1>8. /\ r.from <= first /\ first <= r.to /\ r.to <= r.to /\ full \in BOOLEAN
      /\ full => lim <= r.to - first + 1
      /\ full \/ first = r.from
  BY <1>1, <1>2
<1> HIDE DEF full, first, page
<1>9. full \/ r.from..r.to \subseteq blocks'
  BY <1>7, <1>8
<1>10. QED
  BY <1>1, <1>3, <1>4, <1>5, <1>6, <1>7, <1>8, <1>9, Fetchers, PageStep

(* What a page of the account's run gets: the last of what was found in the *)
(* range. The blooms of all of it are there when logs are what is walked.   *)
LEMMA AccountPageIs ==
  ASSUME IInv, NEW d \in Direction, InPhase("account", d, "fetching"), Length("account", d) > 0
  PROVE  LET r == job["account"][d]
             page == AccountPage(d)
         IN /\ page \subseteq r.from..r.to /\ page \subseteq Position
            /\ kind = "log" => page \subseteq blocks
            /\ Walks("account") =>
                 /\ page # {}
                 /\ \A x \in page, y \in r.from..r.to : y > x => y \in page
                 /\ Cardinality(page) < Limit("account", d) => page = r.from..r.to
<1> DEFINE r == job["account"][d]
           lim == Limit("account", d)
           found == IF kind = "transaction" THEN Ours \cap blocks ELSE blocks
           S == found \cap (r.from..r.to)
           page == AccountPage(d)
<1>1. /\ lim \in Nat /\ lim > 0 /\ r \in Run /\ r.from \in Nat /\ r.to \in Int
      /\ r.from <= r.to
  BY FetchingRun, Fetchers
<1>2. Walks("account") => S = r.from..r.to
  <2>1. SUFFICES ASSUME kind = "log", ~outrun
                 PROVE  r.from..r.to \subseteq blocks
    BY DEF Walks
  <2>2. PICK lo, mid, hi \in Position : Walk("blocks", lo, mid, hi) /\ Stays(lo, hi)
    BY <2>1, Fetchers DEF IInv, WalkInv, Walks
  <2>3. lo..hi \subseteq blocks /\ lo <= r.from /\ r.to <= hi
    BY <2>2 DEF Walk, Have, Stays, StaysRun, InPhase
  <2>4. lo \in Int /\ hi \in Int
    BY DEF Position
  <2>5. QED
    BY <2>3, <2>4, <1>1
<1>3. page = TopOf(S, lim)
  BY DEF AccountPage
<1>4. S \subseteq blocks /\ S \subseteq r.from..r.to
  OBVIOUS
<1>5. S \in SUBSET (0..Last)
  <2>1. blocks \subseteq 0..tip /\ tip \in 0..Last
    BY DEF IInv, TypeOK, Position
  <2>2. QED
    BY <1>4, <2>1, LastAssumption
<1> HIDE DEF S, lim, page
<1>6. /\ page \subseteq S /\ \A x \in page, y \in S : y > x => y \in page
      /\ Cardinality(page) < lim \/ page = {} => page = S
  BY <1>1, <1>3, <1>5, TopOfPage, LastAssumption
<1>7. r.from \in r.from..r.to
  BY <1>1
<1>8. Walks("account") => page # {}
  BY <1>2, <1>6, <1>7
<1>9. QED
  BY <1>2, <1>4, <1>5, <1>6, <1>8 DEF lim, page, Position

LEMMA AccountPageStep ==
  ASSUME IInv, NEW d \in Direction, FetchAccountPage(d)
  PROVE  IInv'
<1> DEFINE r == job["account"][d]
           r2 == job'["account"][d]
           lim == Limit("account", d)
           page == AccountPage(d)
           full == Cardinality(page) >= lim
<1>1. /\ InPhase("account", d, "fetching") /\ Length("account", d) > 0
      /\ logs' = IndexLogs(page) /\ Turn("account", d, page)
      /\ state' = state /\ saved' = saved /\ kind' = kind /\ tip' = tip
      /\ blocks' = blocks /\ outrun' = outrun /\ faults' = faults
  BY DEF FetchAccountPage
<1>2. /\ HistTypeOK /\ TypeOK /\ r \in Run
      /\ r.phase = "fetching" /\ Paired(r.last) /\ Paired(r.prev)
      /\ lim \in Nat /\ lim > 0
      /\ r.to \in Int /\ r.from \in Nat
      /\ r.from <= r.to
  BY <1>1, Fetchers, FetchingRun DEF IInv, TypeOK
<1>3. /\ page \subseteq r.from..r.to /\ page \subseteq Position
      /\ kind = "log" => page \subseteq blocks
      /\ Walks("account") =>
           /\ page # {}
           /\ \A x \in page, y \in r.from..r.to : y > x => y \in page
           /\ Cardinality(page) < lim => page = r.from..r.to
  BY <1>1, AccountPageIs
<1> HIDE DEF page
<1>4. logs' = IF kind = "log" THEN logs \cup (page \cap Ours) ELSE logs
  BY <1>1 DEF IndexLogs
<1>5. logs \subseteq logs' /\ logs' \subseteq Ours \cap blocks' /\ blocks' \subseteq 0..tip
  BY <1>1, <1>2, <1>3, <1>4 DEF TypeOK
<1>6. Walks("account") => page \subseteq Have("account")'
  BY <1>1, <1>3, <1>4 DEF Walks, Have, Got
<1>7. CASE page = {}
  <2>1. Fetched("account", d, FALSE)
    BY <1>1, <1>7 DEF Turn
  <2>2. /\ JobType' /\ OnlyJob("account", d)
        /\ r2.phase = "fetched"
        /\ r2.last = r.last /\ r2.prev = r.prev
    <3> DEFINE error == FALSE
    <3>1. error \in BOOLEAN /\ Fetched("account", d, error)
      BY <2>1
    <3> HIDE DEF r, error
    <3>2. QED
      BY <1>2, <3>1, Fetchers, FetchedSteps DEF r
  <2>3. TypeOK'
    BY <1>1, <1>2, <1>5, <2>2 DEF TypeOK, HistTypeOK, JobType
  <2>4. ~Walks("account")
    BY <1>3, <1>7
  <2>5. \A lo, hi \in Position : Stays(lo, hi) => StaysRun(r2, lo, hi)
    BY <2>2, <1>2 DEF Stays, StaysRun, Idle
  <2>6. blocks \subseteq blocks' /\ "account" # "blocks"
    BY <1>1
  <2> HIDE DEF r, r2
  <2>7. QED
    BY <1>1, <1>2, <1>5, <2>2, <2>3, <2>4, <2>5, <2>6, Fetchers, RunStep DEF r, r2
<1>8. CASE page # {}
  <2> DEFINE first == Least(page)
             newest == Greatest(page)
  <2>1. /\ first \in page /\ \A y \in page : first <= y
    BY <1>3, <1>8, LeastIs, LastAssumption DEF Position
  <2>2. newest \in page /\ \A y \in page : newest >= y
    BY <1>3, <1>8, GreatestIs, LastAssumption DEF Position
  <2>3. PageDone("account", d, first, newest, r.left - lim, full /\ r.left - lim > 0)
    BY <1>1, <1>8 DEF Turn
  <2> HIDE DEF first, newest
  <2>4. /\ first \in Position /\ newest \in Position
        /\ r.from <= first /\ first <= newest /\ newest <= r.to
    BY <2>1, <2>2, <1>2, <1>3
  <2>5. /\ IsFiniteSet(page) /\ Cardinality(page) \in Nat
        /\ Cardinality(page) <= r.to - first + 1
    <3>1. page \in SUBSET (first..r.to)
      BY <2>1, <2>4, <1>2, <1>3 DEF Position
    <3>2. first \in Int /\ r.to \in Int
      BY <2>4, <1>2 DEF Position
    <3>3. /\ IsFiniteSet(first..r.to)
          /\ Cardinality(first..r.to) = IF first > r.to THEN 0 ELSE r.to - first + 1
      BY <3>2, FS_Interval
    <3>4. Cardinality(page) <= Cardinality(first..r.to) /\ IsFiniteSet(page)
      BY <3>1, <3>3, FS_Subset
    <3>5. Cardinality(page) \in Nat
      BY <3>4, FS_CardinalityType
    <3>6. Cardinality(first..r.to) = r.to - first + 1
      BY <3>2, <3>3, <2>4 DEF Position
    <3>7. QED
      BY <3>4, <3>5, <3>6
  <2>6. /\ full \in BOOLEAN /\ full => lim <= r.to - first + 1
        /\ ~full => Cardinality(page) < lim
    BY <2>4, <2>5, <1>2 DEF Position
  <2> HIDE DEF full
  <2>7. Walks("account") => first..r.to \subseteq Have("account")'
    <3>1. ASSUME NEW x \in first..r.to, Walks("account")
          PROVE  x \in page
      <4>1. x \in r.from..r.to /\ (x = first \/ x > first)
        BY <3>1, <2>4, <1>2 DEF Position
      <4>2. QED
        BY <4>1, <3>1, <2>1, <1>3
    <3>2. QED
      BY <3>1, <1>6
  <2>8. Walks("account") => full \/ r.from..r.to \subseteq Have("account")'
    BY <2>6, <1>3, <1>6
  <2>9. blocks \subseteq blocks'
    BY <1>1
  <2>10. QED
    BY <1>1, <1>5, <2>3, <2>4, <2>6, <2>7, <2>8, <2>9, Fetchers, PageStep
<1>9. QED
  BY <1>7, <1>8

(* A run that is broken off, though its last page may be stored in part.    *)
LEMMA BreakOff ==
  ASSUME IInv, NEW f \in Fetcher, NEW d \in Direction, InPhase(f, d, "fetching"),
         Fetched(f, d, TRUE),
         state' = state, saved' = saved, kind' = kind, tip' = tip, outrun' = outrun,
         blocks \subseteq blocks', blocks' \subseteq 0..tip,
         logs \subseteq logs', logs' \subseteq Ours \cap blocks', faults' \in 0..MaxFaults
  PROVE  IInv'
<1> DEFINE r == job[f][d]
           r2 == job'[f][d]
           now == state[f].cursors
<1>1. /\ HistTypeOK /\ TypeOK /\ r \in Run
      /\ r.phase = "fetching" /\ Paired(r.last) /\ Paired(r.prev)
  BY FetchingRun DEF IInv, TypeOK
<1>2. /\ JobType' /\ OnlyJob(f, d)
      /\ r2.phase = "fetched" /\ r2.error
      /\ r2.from = r.from
      /\ r2.last = r.last /\ r2.prev = r.prev
  <2> DEFINE error == TRUE
  <2>1. error \in BOOLEAN /\ Fetched(f, d, error)
    OBVIOUS
  <2> HIDE DEF r, error
  <2>2. /\ JobType' /\ OnlyJob(f, d)
        /\ job'[f][d].phase = "fetched" /\ job'[f][d].error = error
        /\ job'[f][d].from = r.from
        /\ job'[f][d].last = r.last /\ job'[f][d].prev = r.prev
    BY <1>1, <2>1, FetchedSteps DEF r
  <2>3. QED
    BY <2>2 DEF error
<1>3. TypeOK'
  BY <1>1, <1>2 DEF TypeOK, HistTypeOK, JobType
<1>4. r2 \in Run
  BY <1>2 DEF JobType
<1>5. Have(f) \subseteq Have(f)'
  BY HaveKept
<1> HIDE DEF r, r2, now
<1>6. ASSUME NEW lo \in Position, NEW mid \in Position, NEW hi \in Position, Walk(f, lo, mid, hi)
      PROVE  RunOk(f, d, lo, mid, hi)'
  <2>1. lo \in Int /\ mid \in Int /\ hi \in Int /\ lo <= lo /\ hi <= hi
    BY DEF Position
  <2>2. RunOk(f, d, lo, mid, hi)
    BY <1>6 DEF Walk
  <2>3. CASE d = "forward"
    <3>1. ForwardRun(r, now, lo, mid, hi, Have(f))
      BY <2>2, <2>3 DEF RunOk, r, now
    <3>2. ForwardRun(r2, now, lo, mid, hi, Have(f))
      BY <3>1, <1>1, <1>2, <1>4, <2>1, RunEnds
    <3>3. ForwardRun(r2, now, lo, mid, hi, Have(f)')
      BY <3>2, <1>4, <1>5, <2>1, ForwardRunKept
    <3>4. QED
      BY <3>3, <2>3 DEF RunOk, now, r2
  <2>4. CASE d # "forward"
    <3>1. BackwardRun(r, lo, mid, hi, Have(f))
      BY <2>2, <2>4 DEF RunOk, r
    <3>2. BackwardRun(r2, lo, mid, hi, Have(f))
      BY <3>1, <1>1, <1>2, <1>4, <2>1, RunEnds
    <3>3. BackwardRun(r2, lo, mid, hi, Have(f)')
      BY <3>2, <1>4, <1>5, <2>1, BackwardRunKept
    <3>4. QED
      BY <3>3, <2>4 DEF RunOk, r2
  <2>5. QED
    BY <2>3, <2>4
<1>7. ASSUME f = "account", NEW lo \in Position, NEW hi \in Position, Stays(lo, hi)
      PROVE  StaysRun(r2, lo, hi)
  <2>1. lo \in Int /\ hi \in Int
    BY DEF Position
  <2>2. StaysRun(r, lo, hi)
    BY <1>7 DEF Stays, r
  <2>3. QED
    BY <2>2, <1>1, <1>2 DEF StaysRun, Idle
<1>8. QED
  BY <1>1, <1>2, <1>3, <1>6, <1>7, RunStep DEF r, r2

LEMMA InvalidRangeStep ==
  ASSUME IInv, NEW f \in Fetcher, NEW d \in Direction, InvalidRange(f, d)
  PROVE  IInv'
<1>1. /\ InPhase(f, d, "fetching") /\ Fetched(f, d, TRUE)
      /\ state' = state /\ saved' = saved /\ kind' = kind /\ tip' = tip
      /\ blocks' = blocks /\ logs' = logs /\ outrun' = outrun /\ faults' = faults
  BY DEF InvalidRange
<1>2. /\ blocks \subseteq blocks' /\ blocks' \subseteq 0..tip
      /\ logs \subseteq logs' /\ logs' \subseteq Ours \cap blocks' /\ faults' \in 0..MaxFaults
  BY <1>1 DEF IInv, TypeOK
<1>3. QED
  BY <1>1, <1>2, BreakOff

LEMMA PageFailsStep ==
  ASSUME IInv, NEW f \in Fetcher, NEW d \in Direction, PageFails(f, d)
  PROVE  IInv'
<1>1. /\ InPhase(f, d, "fetching") /\ Length(f, d) > 0 /\ Fetched(f, d, TRUE)
      /\ state' = state /\ saved' = saved /\ kind' = kind /\ tip' = tip /\ outrun' = outrun
  BY DEF PageFails
<1>2. PICK S \in {{}, IF f = "blocks" THEN BlockPage(d) ELSE AccountPage(d) \cap Ours} :
        /\ blocks' = IF f = "blocks" THEN blocks \cup S ELSE blocks
        /\ logs' = IF f = "account" THEN IndexLogs(S) ELSE logs
  BY DEF PageFails
<1>3. faults' \in 0..MaxFaults
  BY FaultAssumption DEF PageFails, Fault, IInv, TypeOK
<1>4. f = "blocks" => S \subseteq 0..tip
  BY <1>1, <1>2, BlockPageIs
<1>5. f = "account" /\ kind = "log" => S \subseteq blocks
  BY <1>1, <1>2, AccountPageIs, Fetchers
<1>6. /\ blocks \subseteq blocks' /\ blocks' \subseteq 0..tip
      /\ logs \subseteq logs' /\ logs' \subseteq Ours \cap blocks'
  BY <1>2, <1>4, <1>5, Fetchers DEF IInv, TypeOK, IndexLogs
<1>7. QED
  BY <1>1, <1>3, <1>6, BreakOff
-----------------------------------------------------------------------------
LEMMA TakeCursorsStep ==
  ASSUME IInv, NEW f \in Fetcher, NEW d \in Direction, TakeCursors(f, d),
         kind' = kind, tip' = tip, blocks' = blocks, logs' = logs, outrun' = outrun,
         faults' \in 0..MaxFaults
  PROVE  IInv'
<1> DEFINE r == job[f][d]
           now == state[f].cursors
<1>1. HistTypeOK /\ TypeOK /\ r.phase = "fetched" /\ (d = "forward" => ~r.error)
  BY DEF IInv, TypeOK, TakeCursors, InPhase
<1>2. /\ JobType' /\ OnlyJob(f, d)
      /\ job'[f][d].phase = "updating" /\ job'[f][d].prev = now
      /\ job'[f][d].error = r.error /\ job'[f][d].from = r.from
      /\ job'[f][d].last = r.last
  BY <1>1, TakeCursorsSteps
<1>3. state' = state /\ saved' = saved
  BY DEF TakeCursors
<1>4. TypeOK'
  BY <1>1, <1>2, <1>3 DEF TypeOK, HistTypeOK, JobType
<1>5. Paired(now) /\ Paired(r.last)
  BY DEF IInv, PairedInv
<1>6. Have(f)' = Have(f)
  BY DEF Have, Got
<1>7. ASSUME Walks(f), NEW lo \in Position, NEW mid \in Position, NEW hi \in Position,
             Walk(f, lo, mid, hi)
      PROVE  RunOk(f, d, lo, mid, hi)'
  <2>1. RunOk(f, d, lo, mid, hi) /\ In(now, lo, mid, hi)
    BY <1>7 DEF Walk
  <2>2. CASE d = "forward"
    <3>1. ForwardRun(r, now, lo, mid, hi, Have(f))
      BY <2>1, <2>2 DEF RunOk
    <3>2. ForwardRun(job'[f][d], now, lo, mid, hi, Have(f))
      BY <3>1, <2>1, <2>2, <1>1, <1>2 DEF ForwardRun, Pages
    <3>3. QED
      BY <3>2, <2>2, <1>3, <1>6 DEF RunOk
  <2>3. CASE d # "forward"
    <3>1. Seen(now)
      BY <2>3, <1>1, <1>7, Fetchers DEF IInv, OrderInv, FirstInv, InPhase
    <3>2. BackwardRun(r, lo, mid, hi, Have(f))
      BY <2>1, <2>3 DEF RunOk
    <3>3. BackwardRun(job'[f][d], lo, mid, hi, Have(f))
      BY <3>1, <3>2, <2>1, <1>1, <1>2 DEF BackwardRun, Pages
    <3>4. QED
      BY <3>3, <2>3, <1>6 DEF RunOk
  <2>4. QED
    BY <2>2, <2>3
<1>8. ASSUME f = "account", NEW lo \in Position, NEW hi \in Position, Stays(lo, hi)
      PROVE  StaysRun(job'["account"][d], lo, hi)
  <2>1. StaysRun(r, lo, hi) /\ Within(now, lo, hi)
    BY <1>8 DEF Stays
  <2>2. QED
    BY <2>1, <1>1, <1>2, <1>8 DEF StaysRun, Idle
<1> HIDE DEF r, now
<1>9. QED
  BY <1>1, <1>2, <1>3, <1>4, <1>5, <1>7, <1>8, RunStep DEF r

LEMMA SkipUpdateStep ==
  ASSUME IInv, NEW f \in Fetcher, NEW d \in Direction, SkipUpdate(f, d),
         kind' = kind, tip' = tip, blocks' = blocks, logs' = logs, outrun' = outrun,
         faults' = faults
  PROVE  IInv'
<1>1. HistTypeOK /\ TypeOK /\ job[f][d].phase = "fetched" /\ job[f][d].error /\ d = "forward"
  BY DEF IInv, TypeOK, SkipUpdate, InPhase
<1>2. /\ JobType' /\ OnlyJob(f, d)
      /\ job'[f][d].phase = "saving" /\ job'[f][d].error = job[f][d].error
      /\ job'[f][d].last = job[f][d].last /\ job'[f][d].prev = job[f][d].prev
  BY <1>1, SkipUpdateSteps
<1>3. state' = state /\ saved' = saved
  BY DEF SkipUpdate
<1>4. TypeOK'
  BY <1>1, <1>2, <1>3 DEF TypeOK, HistTypeOK, JobType
<1>5. Paired(job[f][d].last) /\ Paired(job[f][d].prev)
  BY DEF IInv, PairedInv
<1>6. \A lo, mid, hi \in Position : RunOk(f, d, lo, mid, hi)'
  BY <1>1, <1>2 DEF RunOk, ForwardRun, Pages
<1>7. \A lo, hi \in Position : f = "account" /\ Stays(lo, hi) => StaysRun(job'["account"][d], lo, hi)
  BY <1>1, <1>2 DEF Stays, StaysRun, Idle
<1>8. QED
  BY <1>1, <1>2, <1>3, <1>4, <1>5, <1>6, <1>7, RunStep

(* A step that starts no run but may break off or start afresh some: what   *)
(* was walked is there still.                                               *)
LEMMA WalkKept ==
  ASSUME IInv, NEW f \in Fetcher, NEW lo \in Position, NEW mid \in Position,
         NEW hi \in Position, Walk(f, lo, mid, hi),
         Have(f) \subseteq Have(f)',
         state'[f] \in {state[f], saved[f]}, saved'[f] \in {state[f], saved[f]},
         \A d \in Direction :
           \/ Idle(job'[f][d])
           \/ job'[f][d] = job[f][d] /\ state'[f] = state[f]
  PROVE  Walk(f, lo, mid, hi)'
<1>1. lo \in Int /\ mid \in Int /\ hi \in Int /\ lo <= lo /\ hi <= hi /\ TypeOK
  BY DEF Position, IInv
<1>2. ASSUME NEW d \in Direction
      PROVE  RunOk(f, d, lo, mid, hi)'
  <2>1. CASE Idle(job'[f][d])
    BY <2>1, IdleRuns DEF RunOk
  <2>2. CASE job'[f][d] = job[f][d] /\ state'[f] = state[f]
    <3>1. RunOk(f, d, lo, mid, hi)
      BY DEF Walk
    <3>2. QED
      BY <3>1, <2>2, <1>1, RunKept
  <2>3. QED
    BY <2>1, <2>2
<1>3. \A s \in {state, saved} :
        In(s[f].cursors, lo, mid, hi) /\ (s[f].complete => lo <= First(f))
  BY DEF Walk
<1>4. /\ In(state'[f].cursors, lo, mid, hi) /\ (state'[f].complete => lo <= First(f))
      /\ In(saved'[f].cursors, lo, mid, hi) /\ (saved'[f].complete => lo <= First(f))
  BY <1>3
<1>5. lo..hi \subseteq Have(f)'
  BY DEF Walk
<1>6. QED
  BY <1>2, <1>4, <1>5 DEF Walk, First

LEMMA StaysKept ==
  ASSUME NEW lo \in Position, NEW hi \in Position, Stays(lo, hi), "account" \in Fetcher,
         state'["account"] \in {state["account"], saved["account"]},
         saved'["account"] \in {state["account"], saved["account"]},
         \A d \in Direction : Idle(job'["account"][d]) \/ job'["account"][d] = job["account"][d]
  PROVE  Stays(lo, hi)'
<1>1. \A d \in Direction : StaysRun(job'["account"][d], lo, hi)
  BY DEF Stays, StaysRun, Idle
<1>2. \A s \in {state, saved} :
        Within(s["account"].cursors, lo, hi) /\ (s["account"].complete => lo = 0)
  BY DEF Stays
<1>3. /\ Within(state'["account"].cursors, lo, hi) /\ (state'["account"].complete => lo = 0)
      /\ Within(saved'["account"].cursors, lo, hi) /\ (saved'["account"].complete => lo = 0)
  BY <1>2
<1>4. QED
  BY <1>1, <1>3 DEF Stays

(* The same of all that was walked.                                         *)
LEMMA WalkInvKept ==
  ASSUME IInv, kind' = kind, blocks' = blocks, logs' = logs, outrun => outrun',
         \A f \in Fetcher :
           /\ state'[f] \in {state[f], saved[f]} /\ saved'[f] \in {state[f], saved[f]}
           /\ \A d \in Direction :
                \/ Idle(job'[f][d])
                \/ job'[f][d] = job[f][d] /\ state'[f] = state[f]
  PROVE  WalkInv'
<1>1. ASSUME NEW f \in Fetcher, Walks(f)'
      PROVE  \E lo, mid, hi \in Position :
               Walk(f, lo, mid, hi)' /\ (f = "blocks" /\ ~outrun' => Stays(lo, hi)')
  <2>1. Walks(f)
    BY <1>1 DEF Walks
  <2>2. PICK lo, mid, hi \in Position :
          Walk(f, lo, mid, hi) /\ (f = "blocks" /\ ~outrun => Stays(lo, hi))
    BY <2>1 DEF IInv, WalkInv
  <2>3. Have(f) \subseteq Have(f)'
    BY HaveKept
  <2>4. Walk(f, lo, mid, hi)'
    BY <2>2, <2>3, WalkKept
  <2>5. f = "blocks" /\ ~outrun' => Stays(lo, hi)'
    BY <2>2, StaysKept, Fetchers
  <2>6. QED
    BY <2>4, <2>5
<1>2. QED
  BY <1>1 DEF WalkInv

LEMMA NewBlockStep ==
  ASSUME IInv, NewBlock
  PROVE  IInv'
<1>1. /\ tip' = tip + 1 /\ tip < Last
      /\ state' = state /\ saved' = saved /\ job' = job
      /\ kind' = kind /\ blocks' = blocks /\ logs' = logs /\ outrun' = outrun
      /\ faults' = faults
  BY DEF NewBlock, histVars
<1>2. TypeOK /\ Last \in Nat /\ tip \in 0..Last
  BY LastAssumption DEF IInv, TypeOK, Position
<1>3. tip' \in Position /\ blocks' \subseteq 0..tip' /\ tip <= tip' /\ tip' \in Int
  BY <1>1, <1>2 DEF TypeOK, Position
<1>4. TypeOK'
  BY <1>1, <1>2, <1>3 DEF TypeOK, HistTypeOK
<1>5. PairedInv' /\ OrderInv'
  BY <1>1 DEF IInv, PairedInv, OrderInv, FirstInv, Walks, InPhase
<1>6. TipInv'
  <2>1. \A d \in Direction : job["blocks"][d].to \in Int
    BY <1>2, Fetchers, LastAssumption DEF TypeOK, HistTypeOK, Run, Cursor, Position, None
  <2>2. QED
    BY <2>1, <1>1, <1>2, <1>3 DEF IInv, TipInv, InPhase
<1>7. WalkInv'
  BY <1>1, WalkInvKept
<1>8. QED
  BY <1>4, <1>5, <1>6, <1>7 DEF IInv

(* Whatever else is under way, a job that was off is due.                   *)
LEMMA StartStep ==
  ASSUME IInv, NEW f \in Fetcher, StartRun(f),
         kind' = kind, tip' = tip, blocks' = blocks, logs' = logs, outrun' = outrun,
         faults' \in 0..MaxFaults
  PROVE  IInv'
<1>1. state' = state /\ saved' = saved /\ HistTypeOK /\ TypeOK
  BY DEF StartRun, IInv, TypeOK
<1>2. /\ JobType' /\ OnlyJob(f, "forward") /\ job'[f]["forward"] = Due
      /\ InPhase(f, "forward", "off")
  BY <1>1, StartRunSteps
<1>3. TypeOK'
  BY <1>1, <1>2 DEF TypeOK, HistTypeOK, JobType
<1>4. \A g \in Fetcher, d \in Direction :
        job'[g][d] = job[g][d] \/ (d = "forward" /\ job'[g][d] = Due)
  BY <1>2 DEF OnlyJob
<1>5. PairedInv'
  BY <1>1, <1>4, NoRunType DEF IInv, PairedInv
<1>6. TipInv'
  BY <1>4, NoRunType, Fetchers DEF IInv, TipInv, InPhase
<1>7. OrderInv'
  <2>1. \A d \in Direction : Idle(job["account"][d]) => Idle(job'["account"][d])
    BY <1>4, NoRunType, Fetchers
  <2>2. \A g \in Fetcher : InPhase(g, "backward", "off") => InPhase(g, "backward", "off")'
    BY <1>4, Fetchers DEF InPhase
  <2>3. \A g \in Fetcher : (Walks(g)' <=> Walks(g)) /\ (FirstInv(g) => FirstInv(g)')
    BY <1>1, <2>2 DEF Walks, FirstInv
  <2>4. QED
    BY <1>1, <2>1, <2>2, <2>3, Fetchers DEF IInv, OrderInv
<1>8. WalkInv'
  <2>1. \A g \in Fetcher, d \in Direction : Idle(job'[g][d]) \/ job'[g][d] = job[g][d]
    BY <1>4, NoRunType
  <2>2. QED
    BY <1>1, <2>1, WalkInvKept
<1>9. QED
  BY <1>3, <1>5, <1>6, <1>7, <1>8 DEF IInv

(* Where the account's cursors were saved and the blocks' were not, nothing *)
(* more is said of the account.                                             *)
LEMMA RestartStep ==
  ASSUME IInv, Restart
  PROVE  IInv'
<1>1. /\ HistRestart /\ kind' = kind /\ tip' = tip /\ blocks' = blocks /\ logs' = logs
      /\ outrun' = (outrun \/ (/\ saved["blocks"].cursors = NoCursors
                               /\ saved["account"].cursors # NoCursors))
  BY DEF Restart
<1>2. faults' \in 0..MaxFaults
  BY FaultAssumption DEF Restart, Fault, IInv, TypeOK
<1>3. HistTypeOK /\ TypeOK
  BY DEF IInv, TypeOK
<1>4. /\ HistTypeOK' /\ state' = saved /\ saved' = saved
      /\ \A f \in Fetcher, d \in Direction : job'[f][d] = NoRun
  BY <1>1, <1>3, RestartSteps
<1>5. TypeOK'
  BY <1>1, <1>2, <1>3, <1>4 DEF TypeOK
<1>6. PairedInv'
  BY <1>4, NoRunType DEF IInv, PairedInv
<1>7. TipInv'
  BY <1>4, NoRunType, Fetchers DEF TipInv, InPhase
<1>8. outrun => outrun'
  BY <1>1
<1>9. OrderInv'
  <2>1. \A f \in Fetcher : Walks(f)' => Walks(f)
    BY <1>1 DEF Walks
  <2>2. \A f \in Fetcher : FirstInv(f) => FirstInv(f)'
    BY <1>4, NoRunType, Fetchers DEF FirstInv, InPhase
  <2>3. ~Seen(saved["blocks"].cursors) => saved["blocks"].cursors = NoCursors
    <3> DEFINE c == saved["blocks"].cursors
    <3>1. c \in Cursors /\ Paired(c)
      BY <1>3, CursorTypes, Fetchers DEF IInv, PairedInv
    <3> HIDE DEF c
    <3>2. ~Seen(c) => c = NoCursors
      BY <3>1 DEF Seen, Paired, Cursors, NoCursors
    <3>3. QED
      BY <3>2 DEF c
  <2>4. saved["account"].cursors = NoCursors => ~Seen(saved["account"].cursors)
    BY NoRunType
  <2>5. ~Seen(saved["blocks"].cursors) => outrun' \/ ~Seen(saved["account"].cursors)
    BY <1>1, <2>3, <2>4
  <2>6. /\ \A d \in Direction : Idle(job'["account"][d])
        /\ InPhase("blocks", "backward", "off")'
    BY <1>4, NoRunType, Fetchers DEF InPhase
  <2>7. QED
    BY <1>4, <2>1, <2>2, <2>5, <2>6, Fetchers DEF IInv, OrderInv
<1>10. WalkInv'
  <2>1. \A f \in Fetcher, d \in Direction : Idle(job'[f][d])
    BY <1>4, NoRunType
  <2>2. QED
    BY <1>1, <1>4, <1>8, <2>1, WalkInvKept
<1>11. QED
  BY <1>5, <1>6, <1>7, <1>9, <1>10 DEF IInv

(* The saved cursors are those of memory, which the walk has already.       *)
LEMMA SaveStateStep ==
  ASSUME IInv, NEW f \in Fetcher, NEW d \in Direction, SaveState(f, d),
         kind' = kind, tip' = tip, blocks' = blocks, logs' = logs, outrun' = outrun,
         faults' = faults
  PROVE  IInv'
<1>1. HistTypeOK /\ TypeOK
  BY DEF IInv, TypeOK
<1>2. /\ HistTypeOK' /\ state' = state /\ job[f][d].phase = "saving"
      /\ saved'[f] = state[f] /\ \A g \in Fetcher : g # f => saved'[g] = saved[g]
      /\ \A g \in Fetcher, e \in Direction : g # f => job'[g][e] = job[g][e]
      /\ job'[f][d] \in {NoRun, Due}
      /\ \A e \in Direction : e # d =>
           \/ job'[f][e] = job[f][e]
           \/ /\ e = "backward" /\ ~job[f][d].error /\ ~state[f].complete
              /\ InPhase(f, e, "off") /\ job'[f][e] = Due
  BY <1>1, SaveStateSteps
<1>3. TypeOK'
  BY <1>1, <1>2 DEF TypeOK
<1>4. \A g \in Fetcher, e \in Direction :
        job'[g][e] = job[g][e] \/ job'[g][e] \in {NoRun, Due}
  BY <1>2
<1>5. PairedInv'
  <2>1. \A g \in Fetcher : Paired(state'[g].cursors) /\ Paired(saved'[g].cursors)
    BY <1>2 DEF IInv, PairedInv
  <2>2. QED
    BY <2>1, <1>4, NoRunType DEF IInv, PairedInv
<1>6. TipInv'
  BY <1>4, NoRunType, Fetchers DEF IInv, TipInv, InPhase
<1>7. Walks(f) /\ ~Seen(state[f].cursors) => InPhase(f, "backward", "off")'
  <2>1. SUFFICES ASSUME Walks(f), ~Seen(state[f].cursors)
                 PROVE  InPhase(f, "backward", "off")'
    OBVIOUS
  <2>2. InPhase(f, "backward", "off")
    BY <2>1 DEF IInv, OrderInv, FirstInv
  <2>3. d = "forward"
    BY <2>2, <1>2, Fetchers DEF InPhase
  <2>4. job[f][d].error
    <3>1. PICK lo, mid, hi \in Position : Walk(f, lo, mid, hi)
      BY <2>1 DEF IInv, WalkInv
    <3>2. ForwardRun(job[f][d], state[f].cursors, lo, mid, hi, Have(f))
      BY <2>3, <3>1 DEF Walk, RunOk
    <3>3. QED
      BY <3>2, <2>1, <1>2 DEF ForwardRun
  <2>5. job'[f]["backward"] = job[f]["backward"]
    BY <2>3, <2>4, <1>2, Fetchers
  <2>6. QED
    BY <2>2, <2>5 DEF InPhase
<1>8. OrderInv'
  <2>1. \A g \in Fetcher : Walks(g)' <=> Walks(g)
    BY DEF Walks
  <2>2. ASSUME NEW g \in Fetcher, Walks(g)
        PROVE  FirstInv(g)'
    <3>1. FirstInv(g)
      BY <2>2 DEF IInv, OrderInv
    <3>2. CASE g = f
      BY <3>1, <3>2, <2>2, <1>2, <1>7 DEF FirstInv
    <3>3. CASE g # f
      <4>1. InPhase(g, "backward", "off") => InPhase(g, "backward", "off")'
        BY <3>3, <1>2, Fetchers DEF InPhase
      <4>2. QED
        BY <3>1, <3>3, <4>1, <1>2 DEF FirstInv
    <3>4. QED
      BY <3>2, <3>3
  <2>3. ASSUME ~Seen(saved'["blocks"].cursors)
        PROVE  /\ InPhase("blocks", "backward", "off")'
               /\ \A g \in Fetcher : ~state'[g].complete /\ ~saved'[g].complete
    <3>1. ~Seen(saved["blocks"].cursors)
      <4>1. CASE f = "blocks"
        BY <4>1, <2>3, <1>2, Fetchers DEF IInv, OrderInv, FirstInv, Walks
      <4>2. CASE f # "blocks"
        BY <4>2, <2>3, <1>2, Fetchers
      <4>3. QED
        BY <4>1, <4>2
    <3>2. /\ InPhase("blocks", "backward", "off")
          /\ \A g \in Fetcher : ~state[g].complete /\ ~saved[g].complete
      BY <3>1 DEF IInv, OrderInv
    <3>3. InPhase("blocks", "backward", "off")'
      <4>1. CASE f = "blocks"
        BY <4>1, <2>3, <1>2, <1>7, Fetchers DEF Walks
      <4>2. CASE f # "blocks"
        BY <4>2, <3>2, <1>2, Fetchers DEF InPhase
      <4>3. QED
        BY <4>1, <4>2
    <3>4. QED
      BY <3>2, <3>3, <1>2
  <2>4. ASSUME ~Seen(state["blocks"].cursors)
        PROVE  /\ \A e \in Direction : Idle(job'["account"][e])
               /\ saved'["account"] = saved["account"]
    <3>1. \A e \in Direction : Idle(job["account"][e])
      BY <2>4 DEF IInv, OrderInv
    <3>2. f # "account"
      BY <3>1, <1>2 DEF Idle
    <3>3. QED
      BY <3>1, <3>2, <1>2, Fetchers
  <2>5. QED
    BY <2>1, <2>2, <2>3, <2>4, <1>2 DEF IInv, OrderInv
<1>9. WalkInv'
  <2>1. \A g \in Fetcher, e \in Direction : Idle(job'[g][e]) \/ job'[g][e] = job[g][e]
    BY <1>4, NoRunType
  <2>2. \A g \in Fetcher : saved'[g] \in {state[g], saved[g]}
    BY <1>2
  <2>3. QED
    BY <1>2, <2>1, <2>2, WalkInvKept
<1>10. QED
  BY <1>3, <1>5, <1>6, <1>8, <1>9 DEF IInv
-----------------------------------------------------------------------------
(* What _updateCursors reads and puts.                                      *)
LEMMA PutSteps ==
  ASSUME IInv, NEW f \in Fetcher, NEW d \in Direction, PutCursors(f, d, Complete(f, d))
  PROVE  LET c == state'[f].cursors
             r == job[f][d]
         IN /\ HistTypeOK' /\ OnlyJob(f, d) /\ saved' = saved
            /\ \A g \in Fetcher : g # f => state'[g] = state[g]
            /\ state'[f].complete = IF d = "backward" THEN Complete(f, d) ELSE state[f].complete
            /\ r.phase = "updating" /\ r \in Run
            /\ job'[f][d].phase = "saving" /\ job'[f][d].error = r.error
            /\ job'[f][d].last = r.last /\ job'[f][d].prev = r.prev
            /\ c = NewCursors(f, d)
            /\ ~Seen(r.last) => c.forward = r.prev.forward /\ c.backward = r.prev.backward
            /\ Seen(r.last) /\ ~Seen(r.prev) =>
                 c.forward = r.last.forward /\ c.backward = r.last.backward
            /\ Seen(r.last) /\ Seen(r.prev) /\ d = "forward" =>
                 c.forward = r.last.forward /\ c.backward = r.prev.backward
            /\ Seen(r.last) /\ Seen(r.prev) /\ d = "backward" =>
                 c.forward = r.prev.forward /\ c.backward = r.last.backward
            /\ PairedInv'
<1> DEFINE complete == Complete(f, d)
<1>1. HistTypeOK /\ PairedInv
  BY DEF IInv, TypeOK
<1>2. complete \in BOOLEAN /\ PutCursors(f, d, complete)
  BY DEF Complete, ReachesMinHeight, HistTypeOK, FetcherState
<1> HIDE DEF complete
<1> DEFINE c == state'[f].cursors
           r == job[f][d]
<1>3. /\ HistTypeOK' /\ OnlyJob(f, d) /\ saved' = saved
      /\ \A g \in Fetcher : g # f => state'[g] = state[g]
      /\ state'[f].complete = IF d = "backward" THEN complete ELSE state[f].complete
      /\ job'[f][d].phase = "saving" /\ job'[f][d].error = r.error
      /\ job'[f][d].last = r.last /\ job'[f][d].prev = r.prev
      /\ c = NewCursors(f, d) /\ Paired(c)
      /\ ~Seen(r.last) => c.forward = r.prev.forward /\ c.backward = r.prev.backward
      /\ Seen(r.last) /\ ~Seen(r.prev) =>
           c.forward = r.last.forward /\ c.backward = r.last.backward
      /\ Seen(r.last) /\ Seen(r.prev) /\ d = "forward" =>
           c.forward = r.last.forward /\ c.backward = r.prev.backward
      /\ Seen(r.last) /\ Seen(r.prev) /\ d = "backward" =>
           c.forward = r.prev.forward /\ c.backward = r.last.backward
  BY <1>1, <1>2, PutCursorsSteps
<1>4. r.phase = "updating" /\ r \in Run
  BY <1>1 DEF PutCursors, InPhase, HistTypeOK
<1>5. PairedInv'
  <2>1. \A g \in Fetcher : Paired(state'[g].cursors) /\ Paired(saved'[g].cursors)
    BY <1>1, <1>3 DEF PairedInv
  <2>2. \A g \in Fetcher, e \in Direction : Paired(job'[g][e].last) /\ Paired(job'[g][e].prev)
    BY <1>1, <1>3 DEF PairedInv, OnlyJob
  <2>3. QED
    BY <2>1, <2>2 DEF PairedInv
<1>6. QED
  BY <1>3, <1>4, <1>5 DEF complete

(* The cursors that a job of a walking fetcher puts lie in what was walked, *)
(* or in that and what the run adds to an end of it; the first begin it.    *)
LEMMA PutRange ==
  ASSUME IInv, NEW f \in Fetcher, NEW d \in Direction, PutCursors(f, d, Complete(f, d)),
         Walks(f), NEW lo \in Position, NEW mid \in Position, NEW hi \in Position,
         Walk(f, lo, mid, hi)
  PROVE  LET c == state'[f].cursors
             now == state[f].cursors
         IN /\ Seen(c) /\ (d = "backward" => Seen(now))
            /\ \E lo2, mid2, hi2 \in Position :
                 /\ lo2..hi2 \subseteq Have(f) /\ In(c, lo2, mid2, hi2)
                 /\ d = "backward" /\ Complete(f, d) => lo2 <= First(f)
                 /\ Seen(now) => lo2 <= lo /\ mid2 = mid /\ hi <= hi2
<1> DEFINE r == job[f][d]
           now == state[f].cursors
           c == state'[f].cursors
           done == d = "backward" /\ Complete(f, d)
<1>1. /\ r.phase = "updating" /\ r \in Run
      /\ c = NewCursors(f, d)
      /\ ~Seen(r.last) => c.forward = r.prev.forward /\ c.backward = r.prev.backward
      /\ Seen(r.last) /\ ~Seen(r.prev) =>
           c.forward = r.last.forward /\ c.backward = r.last.backward
      /\ Seen(r.last) /\ Seen(r.prev) /\ d = "forward" =>
           c.forward = r.last.forward /\ c.backward = r.prev.backward
      /\ Seen(r.last) /\ Seen(r.prev) /\ d = "backward" =>
           c.forward = r.prev.forward /\ c.backward = r.last.backward
  BY PutSteps
<1>2. lo \in Nat /\ mid \in Nat /\ hi \in Nat /\ lo..hi \subseteq Have(f) /\ Last \in Nat
  BY LastAssumption DEF Walk, Position
<1>3. d = "forward" => ForwardRun(r, now, lo, mid, hi, Have(f))
  BY DEF Walk, RunOk
<1>4. d = "backward" => BackwardRun(r, lo, mid, hi, Have(f)) /\ Seen(now)
  BY <1>1, Fetchers DEF Walk, RunOk, IInv, OrderInv, FirstInv, InPhase
<1>5. /\ d = "forward" => ~r.error /\ (Seen(now) \/ Seen(r.last)) /\ (Seen(now) <=> Seen(r.prev))
      /\ d = "backward" => Seen(r.prev)
      /\ In(r.prev, lo, mid, hi)
  BY <1>1, <1>3, <1>4, Fetchers DEF ForwardRun, BackwardRun
<1>6. Seen(r.last) =>
        /\ r.last.backward \in Position /\ r.last.forward \in Position
        /\ r.last.backward <= r.last.forward
        /\ r.last.backward..r.last.forward \subseteq Have(f)
  <2>1. Seen(r.last) =>
          r.last.backward <= r.last.forward /\ r.last.backward..r.last.forward \subseteq Have(f)
    BY <1>1, <1>3, <1>4, Fetchers DEF ForwardRun, BackwardRun, Pages
  <2>2. Paired(r.last)
    BY DEF IInv, PairedInv
  <2>3. r.last.backward \in Cursor /\ r.last.forward \in Cursor
    BY <1>1, RunTypes
  <2>4. QED
    BY <2>1, <2>2, <2>3 DEF Seen, Paired, Cursor
<1>7. done => c.backward <= First(f)
  <2>1. f = "account" => (Complete(f, d) => NewCursors(f, d).backward <= MinHeight)
    BY Fetchers DEF Complete, ReachesMinHeight
  <2>2. f = "blocks" => (Complete(f, d) => NewCursors(f, d).backward = 0)
    BY DEF Complete
  <2>3. QED
    BY <2>1, <2>2, <1>1, Fetchers DEF First
<1>8. First(f) \in Nat
  BY OursAssumption DEF First, Position
<1>9. r.from \in Nat
  BY <1>1, RunTypes
<1> DEFINE Good(lo2, mid2, hi2) ==
             /\ lo2..hi2 \subseteq Have(f) /\ In(c, lo2, mid2, hi2)
             /\ done => lo2 <= First(f)
             /\ Seen(now) => lo2 <= lo /\ mid2 = mid /\ hi <= hi2
<1>10. Seen(c) /\ \E lo2, mid2, hi2 \in Position : Good(lo2, mid2, hi2)
  <2>1. CASE ~Seen(r.last)
    <3>1. Seen(r.prev)
      BY <2>1, <1>5, Fetchers
    <3>2. c.forward \in mid..hi /\ c.backward \in lo..mid /\ Seen(c)
      <4>1. c.forward = r.prev.forward /\ c.backward = r.prev.backward
        BY <2>1, <1>1
      <4>2. QED
        BY <4>1, <3>1, <1>5 DEF In, Seen
    <3> HIDE DEF c, done, now
    <3>3. Good(lo, mid, hi)
      BY <3>2, <1>2, <1>7, <1>8 DEF In
    <3>4. QED
      BY <3>2, <3>3
  <2>2. CASE Seen(r.last) /\ ~Seen(now)
    <3>1. d = "forward" /\ ~done /\ ~Seen(r.prev)
      BY <2>2, <1>4, <1>5, Fetchers
    <3>2. c.forward = r.last.forward /\ c.backward = r.last.backward
      BY <2>2, <3>1, <1>1
    <3>3. In(c, r.last.backward, r.last.backward, r.last.forward) /\ Seen(c)
      BY <2>2, <3>2, <1>6, LastAssumption DEF In, Seen, Position
    <3> HIDE DEF c, done, now
    <3>4. Good(r.last.backward, r.last.backward, r.last.forward)
      BY <3>1, <3>3, <2>2, <1>6
    <3>5. QED
      BY <3>3, <3>4, <2>2, <1>6
  <2>3. CASE Seen(r.last) /\ Seen(now) /\ d = "forward"
    <3>1. c.forward = r.last.forward /\ c.backward = r.prev.backward /\ Seen(r.prev)
      BY <2>3, <1>1, <1>5
    <3>2. /\ mid <= r.from /\ r.from <= hi + 1
          /\ r.from <= r.last.forward /\ r.from..r.last.forward \subseteq Have(f)
      BY <2>3, <1>1, <1>3, <1>5 DEF ForwardRun
    <3>3. r.last.forward \in Nat /\ r.last.forward \in Position
      BY <2>3, <1>6, LastAssumption DEF Position
    <3>4. c.backward \in lo..mid /\ c.forward \in Nat /\ mid <= c.forward /\ ~done
      BY <2>3, <3>1, <3>2, <3>3, <1>2, <1>5, <1>9 DEF In
    <3>5. Seen(c)
      BY <3>4 DEF Seen, None
    <3> DEFINE hi2 == IF r.last.forward <= hi THEN hi ELSE r.last.forward
    <3>6. hi2 \in Position /\ hi <= hi2 /\ c.forward <= hi2
      BY <3>1, <3>3, <1>2
    <3>7. lo..hi2 \subseteq Have(f)
      BY <3>2, <3>3, <1>2, <1>9
    <3> HIDE DEF c, done, now, hi2
    <3>8. Good(lo, mid, hi2)
      <4>1. hi2 \in Int
        BY <3>6 DEF Position
      <4>2. In(c, lo, mid, hi2)
        BY <3>4, <3>6, <4>1, <1>2 DEF In
      <4>3. QED
        BY <4>2, <3>4, <3>6, <3>7, <1>2
    <3>9. QED
      BY <3>5, <3>6, <3>8
  <2>4. CASE Seen(r.last) /\ Seen(now) /\ d = "backward"
    <3>1. c.forward = r.prev.forward /\ c.backward = r.last.backward /\ Seen(r.prev)
      BY <2>4, <1>1, <1>5
    <3>2. r.last.backward <= mid /\ r.last.backward..lo \subseteq Have(f)
      BY <2>4, <1>1, <1>4 DEF BackwardRun
    <3>3. r.last.backward \in Nat /\ r.last.backward \in Position
      BY <2>4, <1>6, LastAssumption DEF Position
    <3>4. c.forward \in mid..hi /\ c.backward \in Nat /\ c.backward <= mid
      BY <3>1, <3>2, <3>3, <1>5 DEF In
    <3>5. Seen(c)
      BY <3>4, <1>2 DEF Seen, None
    <3> DEFINE lo2 == IF lo <= r.last.backward THEN lo ELSE r.last.backward
    <3>6. lo2 \in Position /\ lo2 <= lo /\ lo2 <= c.backward
      BY <3>1, <3>3, <1>2
    <3>7. lo2..hi \subseteq Have(f)
      BY <3>2, <3>3, <1>2
    <3> HIDE DEF c, done, now, lo2
    <3>8. Good(lo2, mid, hi)
      <4>1. lo2 \in Int
        BY <3>6 DEF Position
      <4>2. In(c, lo2, mid, hi)
        BY <3>4, <3>6, <4>1, <1>2 DEF In
      <4>3. done => lo2 <= First(f)
        BY <1>7, <1>8, <3>4, <3>6, <4>1
      <4>4. QED
        BY <4>2, <4>3, <3>6, <3>7, <1>2
    <3>9. QED
      BY <3>5, <3>6, <3>8
  <2>5. QED
    BY <2>1, <2>2, <2>3, <2>4, Fetchers
<1>11. QED
  BY <1>4, <1>10

(* So the walk goes on, in a range no smaller.                              *)
LEMMA PutWalk ==
  ASSUME IInv, NEW f \in Fetcher, NEW d \in Direction, PutCursors(f, d, Complete(f, d)),
         Walks(f), NEW lo \in Position, NEW mid \in Position, NEW hi \in Position,
         Walk(f, lo, mid, hi),
         kind' = kind, blocks' = blocks, logs' = logs
  PROVE  \E lo2, mid2, hi2 \in Position :
           /\ Walk(f, lo2, mid2, hi2)'
           /\ Seen(state[f].cursors) => lo2 <= lo /\ hi <= hi2
<1> DEFINE now == state[f].cursors
           c == state'[f].cursors
<1>1. /\ OnlyJob(f, d) /\ saved' = saved
      /\ state'[f].complete = IF d = "backward" THEN Complete(f, d) ELSE state[f].complete
      /\ job'[f][d].phase = "saving"
  BY PutSteps
<1>2. Seen(c) /\ (d = "backward" => Seen(now))
  BY PutRange
<1>3. PICK lo2, mid2, hi2 \in Position :
        /\ lo2..hi2 \subseteq Have(f) /\ In(c, lo2, mid2, hi2)
        /\ d = "backward" /\ Complete(f, d) => lo2 <= First(f)
        /\ Seen(now) => lo2 <= lo /\ mid2 = mid /\ hi <= hi2
  BY PutRange
<1>4. /\ lo \in Int /\ mid \in Int /\ hi \in Int /\ lo2 \in Int /\ mid2 \in Int /\ hi2 \in Int
      /\ TypeOK /\ First(f) \in Int
  BY OursAssumption DEF Position, IInv, First
<1>5. Have(f)' = Have(f) /\ First(f)' = First(f)
  BY DEF Have, Got, First
<1>6. ~Seen(now) => /\ ~Seen(saved[f].cursors) /\ ~state[f].complete /\ ~saved[f].complete
                    /\ InPhase(f, "backward", "off")
  BY DEF IInv, OrderInv, FirstInv
<1>7. /\ In(saved[f].cursors, lo, mid, hi)
      /\ state[f].complete => lo <= First(f)
      /\ saved[f].complete => lo <= First(f)
      /\ \A e \in Direction : RunOk(f, e, lo, mid, hi)
  BY DEF Walk
<1>8. In(saved'[f].cursors, lo2, mid2, hi2) /\ (saved'[f].complete => lo2 <= First(f))
  <2>1. CASE Seen(now)
    <3>1. \A x : In(x, lo, mid, hi) => In(x, lo2, mid2, hi2)
      BY <2>1, <1>3, <1>4 DEF In
    <3>2. QED
      BY <2>1, <3>1, <1>1, <1>3, <1>4, <1>7
  <2>2. CASE ~Seen(now)
    BY <2>2, <1>1, <1>6 DEF In
  <2>3. QED
    BY <2>1, <2>2
<1>9. state'[f].complete => lo2 <= First(f)
  <2>1. CASE d = "backward"
    BY <2>1, <1>1, <1>3
  <2>2. CASE d # "backward"
    <3>1. state'[f].complete = state[f].complete
      BY <2>2, <1>1
    <3>2. CASE Seen(now)
      BY <3>1, <3>2, <1>3, <1>4, <1>7
    <3>3. CASE ~Seen(now)
      BY <3>1, <3>3, <1>6
    <3>4. QED
      BY <3>2, <3>3
  <2>3. QED
    BY <2>1, <2>2
<1>10. ASSUME NEW e \in Direction
       PROVE  RunOk(f, e, lo2, mid2, hi2)'
  <2>1. CASE e = d
    BY <2>1, <1>1, <1>2, <1>5 DEF RunOk, ForwardRun, BackwardRun, Pages
  <2>2. CASE e # d
    <3>1. job'[f][e] = job[f][e]
      BY <2>2, <1>1 DEF OnlyJob
    <3>2. CASE Seen(now)
      <4>1. mid2 = mid /\ lo2 <= lo /\ hi <= hi2 /\ (Seen(now) <=> Seen(c))
        BY <3>2, <1>2, <1>3
      <4>2. Have(f) \subseteq Have(f)' /\ RunOk(f, e, lo, mid, hi)
        BY <1>5, <1>7
      <4>3. RunOk(f, e, lo2, mid, hi2)'
        BY <3>1, <4>1, <4>2, <1>4, RunKept
      <4>4. QED
        BY <4>1, <4>3
    <3>3. CASE ~Seen(now)
      <4>1. e = "backward"
        BY <2>2, <3>3, <1>2, Fetchers
      <4>2. Idle(job'[f][e])
        BY <3>1, <3>3, <4>1, <1>6 DEF InPhase, Idle
      <4>3. QED
        BY <4>2, IdleRuns DEF RunOk
    <3>4. QED
      BY <3>2, <3>3
  <2>3. QED
    BY <2>1, <2>2
<1>11. Walk(f, lo2, mid2, hi2)'
  BY <1>3, <1>5, <1>8, <1>9, <1>10 DEF Walk
<1>12. QED
  BY <1>3, <1>11

(* What the account's fetcher puts stays within the blocks walked, and is   *)
(* complete only when these begin at the first.                             *)
LEMMA PutStays ==
  ASSUME IInv, NEW d \in Direction, PutCursors("account", d, Complete("account", d)),
         NEW lo \in Position, NEW mid \in Position, NEW hi \in Position,
         Walk("blocks", lo, mid, hi), Stays(lo, hi)
  PROVE  Stays(lo, hi)'
<1> DEFINE r == job["account"][d]
           c == state'["account"].cursors
<1>1. /\ OnlyJob("account", d) /\ saved' = saved
      /\ state'["account"].complete = IF d = "backward" THEN Complete("account", d)
                                                        ELSE state["account"].complete
      /\ r.phase = "updating" /\ r \in Run
      /\ job'["account"][d].phase = "saving"
      /\ job'["account"][d].last = r.last /\ job'["account"][d].prev = r.prev
      /\ ~Seen(r.last) => c.forward = r.prev.forward /\ c.backward = r.prev.backward
      /\ Seen(r.last) /\ ~Seen(r.prev) =>
           c.forward = r.last.forward /\ c.backward = r.last.backward
      /\ Seen(r.last) /\ Seen(r.prev) /\ d = "forward" =>
           c.forward = r.last.forward /\ c.backward = r.prev.backward
      /\ Seen(r.last) /\ Seen(r.prev) /\ d = "backward" =>
           c.forward = r.prev.forward /\ c.backward = r.last.backward
  BY PutSteps, Fetchers
<1>2. StaysRun(r, lo, hi)
  BY DEF Stays
<1>3. Within(r.last, lo, hi) /\ Within(r.prev, lo, hi)
  BY <1>1, <1>2 DEF StaysRun, Idle
<1>4. Within(c, lo, hi)
  <2> HIDE DEF c, r
  <2>1. QED
    BY <1>1, <1>3, Fetchers DEF Within, Seen
<1>5. \A e \in Direction : StaysRun(job'["account"][e], lo, hi)
  <2>1. StaysRun(job'["account"][d], lo, hi)
    BY <1>1, <1>3 DEF StaysRun
  <2>2. \A e \in Direction : e # d => job'["account"][e] = job["account"][e]
    BY <1>1, Fetchers DEF OnlyJob
  <2>3. QED
    BY <2>1, <2>2 DEF Stays
<1>6. state'["account"].complete => lo = 0
  <2>1. state["blocks"].complete => lo = 0
    BY DEF Walk, First, Position
  <2>2. Complete("account", d) => state["blocks"].complete
    BY DEF Complete, ReachesMinHeight
  <2>3. QED
    BY <2>1, <2>2, <1>1 DEF Stays
<1>7. QED
  BY <1>1, <1>4, <1>5, <1>6 DEF Stays

LEMMA PutCursorsStep ==
  ASSUME IInv, NEW f \in Fetcher, NEW d \in Direction, PutCursors(f, d, Complete(f, d)),
         kind' = kind, tip' = tip, blocks' = blocks, logs' = logs, outrun' = outrun,
         faults' = faults
  PROVE  IInv'
<1>1. /\ HistTypeOK' /\ OnlyJob(f, d) /\ saved' = saved
      /\ \A g \in Fetcher : g # f => state'[g] = state[g]
      /\ state'[f].complete = IF d = "backward" THEN Complete(f, d) ELSE state[f].complete
      /\ job[f][d].phase = "updating"
      /\ job'[f][d].phase = "saving"
      /\ PairedInv'
  BY PutSteps
<1>2. TypeOK'
  BY <1>1 DEF IInv, TypeOK
<1>3. TipInv'
  BY <1>1, Fetchers DEF IInv, TipInv, InPhase, OnlyJob
<1>4. \A g \in Fetcher : Walks(g)' <=> Walks(g)
  BY DEF Walks
<1>5. Walks(f) => Seen(state'[f].cursors) /\ (d = "backward" => Seen(state[f].cursors))
  <2>1. SUFFICES ASSUME Walks(f)
                 PROVE  Seen(state'[f].cursors) /\ (d = "backward" => Seen(state[f].cursors))
    OBVIOUS
  <2>2. PICK lo, mid, hi \in Position : Walk(f, lo, mid, hi)
    BY <2>1 DEF IInv, WalkInv
  <2>3. QED
    BY <2>1, <2>2, PutRange
<1>6. \A g \in Fetcher : InPhase(g, "backward", "off") => InPhase(g, "backward", "off")'
  BY <1>1, Fetchers DEF InPhase, OnlyJob
<1>7. OrderInv'
  <2>1. ASSUME NEW g \in Fetcher, Walks(g)
        PROVE  FirstInv(g)'
    <3>1. FirstInv(g)
      BY <2>1 DEF IInv, OrderInv
    <3>2. CASE g = f
      BY <3>1, <3>2, <2>1, <1>1, <1>5 DEF FirstInv
    <3>3. CASE g # f
      BY <3>1, <3>3, <1>1, <1>6 DEF FirstInv
    <3>4. QED
      BY <3>2, <3>3
  <2>2. ASSUME ~Seen(saved["blocks"].cursors)
        PROVE  /\ InPhase("blocks", "backward", "off")'
               /\ \A g \in Fetcher : ~state'[g].complete /\ ~saved'[g].complete
    <3>1. /\ InPhase("blocks", "backward", "off")
          /\ \A g \in Fetcher : ~state[g].complete /\ ~saved[g].complete
      BY <2>2 DEF IInv, OrderInv
    <3>2. CASE f = "blocks"
      <4>1. d # "backward"
        BY <3>1, <3>2, <1>1 DEF InPhase
      <4>2. QED
        BY <3>1, <3>2, <4>1, <1>1, <1>6, Fetchers
    <3>3. CASE f # "blocks"
      <4>1. ~Complete(f, d)
        BY <3>1, <3>3, Fetchers DEF Complete, ReachesMinHeight
      <4>2. QED
        BY <3>1, <3>3, <4>1, <1>1, <1>6, Fetchers
    <3>4. QED
      BY <3>2, <3>3
  <2>3. ASSUME ~Seen(state'["blocks"].cursors)
        PROVE  /\ \A e \in Direction : Idle(job'["account"][e])
               /\ outrun \/ (~Seen(state'["account"].cursors) /\ ~Seen(saved'["account"].cursors))
    <3>1. f = "account"
      BY <2>3, <1>5, Fetchers DEF Walks
    <3>2. ~Seen(state["blocks"].cursors)
      BY <2>3, <3>1, <1>1, Fetchers
    <3>3. Idle(job["account"][d])
      BY <3>2 DEF IInv, OrderInv
    <3>4. QED
      BY <3>1, <3>3, <1>1 DEF Idle
  <2>4. QED
    BY <1>1, <1>4, <2>1, <2>2, <2>3 DEF OrderInv
<1>8. ASSUME NEW g \in Fetcher, Walks(g)
      PROVE  \E lo, mid, hi \in Position :
               Walk(g, lo, mid, hi)' /\ (g = "blocks" /\ ~outrun => Stays(lo, hi)')
  <2>1. PICK lo, mid, hi \in Position :
          Walk(g, lo, mid, hi) /\ (g = "blocks" /\ ~outrun => Stays(lo, hi))
    BY <1>8 DEF IInv, WalkInv
  <2>2. CASE g = f
    <3>1. PICK lo2, mid2, hi2 \in Position :
            /\ Walk(f, lo2, mid2, hi2)'
            /\ Seen(state[f].cursors) => lo2 <= lo /\ hi <= hi2
      BY <2>1, <2>2, <1>8, PutWalk
    <3>2. ASSUME g = "blocks", ~outrun
          PROVE  Stays(lo2, hi2)'
      <4>1. /\ state'["account"] = state["account"] /\ saved'["account"] = saved["account"]
            /\ \A e \in Direction : job'["account"][e] = job["account"][e]
        BY <3>2, <2>2, <1>1, Fetchers DEF OnlyJob
      <4>2. Stays(lo, hi)
        BY <3>2, <2>1
      <4>3. CASE Seen(state["blocks"].cursors)
        <5>1. lo2 <= lo /\ hi <= hi2 /\ lo \in Nat /\ hi \in Nat /\ lo2 \in Nat /\ hi2 \in Nat
          BY <4>3, <3>1, <3>2, <2>2 DEF Position
        <5>2. \A e \in Direction : StaysRun(job["account"][e], lo2, hi2)
          <6>1. ASSUME NEW e \in Direction
                PROVE  StaysRun(job["account"][e], lo2, hi2)
            <7>1. job["account"][e] \in Run
              BY Fetchers DEF IInv, TypeOK, HistTypeOK
            <7>2. StaysRun(job["account"][e], lo, hi)
              BY <4>2 DEF Stays
            <7>3. QED
              BY <7>1, <7>2, <5>1, StaysRunKept
          <6>2. QED
            BY <6>1
        <5>3. \A x : Within(x, lo, hi) => Within(x, lo2, hi2)
          BY <5>1 DEF Within
        <5>4. lo = 0 => lo2 = 0
          BY <5>1
        <5>5. /\ Within(state["account"].cursors, lo2, hi2)
              /\ Within(saved["account"].cursors, lo2, hi2)
              /\ state["account"].complete => lo2 = 0
              /\ saved["account"].complete => lo2 = 0
          BY <4>2, <5>3, <5>4 DEF Stays
        <5>6. QED
          BY <4>1, <5>2, <5>5 DEF Stays
      <4>4. CASE ~Seen(state["blocks"].cursors)
        <5>1. /\ \A e \in Direction : Idle(job["account"][e])
              /\ ~Seen(state["account"].cursors) /\ ~Seen(saved["account"].cursors)
              /\ ~Seen(saved["blocks"].cursors)
          BY <4>4, <3>2, Fetchers DEF IInv, OrderInv, FirstInv, Walks
        <5>2. ~state["account"].complete /\ ~saved["account"].complete
          BY <5>1, Fetchers DEF IInv, OrderInv
        <5>3. QED
          BY <4>1, <5>1, <5>2, IdleRuns DEF Stays, Within
      <4>5. QED
        BY <4>3, <4>4
    <3>3. QED
      BY <3>1, <3>2, <2>2
  <2>3. CASE g # f
    <3>1. /\ state'[g] = state[g] /\ saved'[g] = saved[g]
          /\ \A e \in Direction : job'[g][e] = job[g][e]
      BY <2>3, <1>1 DEF OnlyJob
    <3>2. Have(g) \subseteq Have(g)'
      BY HaveKept
    <3>3. Walk(g, lo, mid, hi)'
      BY <2>1, <3>1, <3>2, WalkKept
    <3>4. g = "blocks" /\ ~outrun => Stays(lo, hi)'
      BY <2>1, <2>3, Fetchers, PutStays
    <3>5. QED
      BY <3>3, <3>4
  <2>4. QED
    BY <2>2, <2>3
<1>9. WalkInv'
  BY <1>4, <1>8 DEF WalkInv
<1>10. QED
  BY <1>1, <1>2, <1>3, <1>7, <1>9 DEF IInv
-----------------------------------------------------------------------------
LEMMA InitInv ==
  ASSUME Init
  PROVE  IInv
<1>1. /\ \A f \in Fetcher : /\ state[f].cursors = NoCursors /\ saved[f].cursors = NoCursors
                            /\ ~state[f].complete /\ ~saved[f].complete
      /\ \A f \in Fetcher, d \in Direction : job[f][d] = NoRun
      /\ saved = state /\ blocks = {} /\ logs = {} /\ tip \in Position
      /\ outrun = FALSE /\ faults = 0
  BY DEF Init, HistInit
<1>2. TypeOK
  <2>1. NoCursors \in Cursors
    BY DEF NoCursors, Cursors, Cursor
  <2>2. HistTypeOK
    BY <2>1, NoRunType, AllHistoricAssumption DEF Init, HistInit, HistTypeOK, FetcherState
  <2>3. kind \in {"transaction", "log"} /\ blocks = {} /\ logs = {}
    BY DEF Init
  <2>4. faults \in 0..MaxFaults /\ tip \in Position /\ outrun \in BOOLEAN
    <3>1. MaxFaults \in Nat /\ faults = 0
      BY FaultAssumption DEF Init
    <3>2. faults \in 0..MaxFaults
      BY <3>1
    <3>3. QED
      BY <3>2, <1>1
  <2>5. QED
    BY <2>2, <2>3, <2>4 DEF TypeOK
<1>3. PairedInv
  BY <1>1, NoRunType DEF PairedInv
<1>4. OrderInv
  BY <1>1, NoRunType, Fetchers DEF OrderInv, FirstInv, InPhase
<1>5. TipInv
  BY <1>1, NoRunType, Fetchers DEF TipInv, InPhase
<1>6. ASSUME NEW f \in Fetcher
      PROVE  Walk(f, 1, 1, 0) /\ Stays(1, 0)
  <2>1. \A d \in Direction : RunOk(f, d, 1, 1, 0)
    BY <1>1, NoRunType, IdleRuns DEF RunOk
  <2>2. \A d \in Direction : StaysRun(job["account"][d], 1, 0)
    BY <1>1, NoRunType, IdleRuns, Fetchers
  <2>3. QED
    BY <1>1, <2>1, <2>2, NoRunType, Fetchers DEF Walk, Stays, In, Within
<1>7. 1 \in Position /\ 0 \in Position
  <2>1. PageLimit["blocks"] \in 1..Last
    BY LimitAssumption, Fetchers
  <2>2. QED
    BY <2>1, LastAssumption DEF Position
<1>8. QED
  BY <1>2, <1>3, <1>4, <1>5, <1>6, <1>7 DEF IInv, WalkInv

LEMMA NextInv ==
  ASSUME IInv, Next
  PROVE  IInv'
<1>1. CASE NewBlock
  BY <1>1, NewBlockStep
<1>2. CASE BeginRun
  <2>1. OnlyJobs
    BY <1>2 DEF BeginRun, OnlyJobs
  <2>2. CASE RunBlocksForward
    BY <2>1, <2>2, BlocksForwardBegins
  <2>3. CASE RunBlocksBackward
    BY <2>1, <2>3, BlocksBackwardBegins
  <2>4. CASE FetchForward
    BY <2>1, <2>4, AccountForwardBegins
  <2>5. CASE FetchBackward
    BY <2>1, <2>5, AccountBackwardBegins
  <2>6. QED
    BY <1>2, <2>2, <2>3, <2>4, <2>5 DEF BeginRun
<1>3. ASSUME NEW f \in Fetcher, Start(f)
      PROVE  IInv'
  BY <1>3, StartStep DEF Start, IInv, TypeOK
<1>4. ASSUME NEW f \in Fetcher, StartBeside(f)
      PROVE  IInv'
  <2>1. /\ StartRun(f) /\ kind' = kind /\ tip' = tip /\ blocks' = blocks
        /\ logs' = logs /\ outrun' = outrun
    BY <1>4 DEF StartBeside
  <2>2. faults' \in 0..MaxFaults
    BY <1>4, FaultAssumption DEF StartBeside, Fault, IInv, TypeOK
  <2>3. QED
    BY <2>1, <2>2, StartStep
<1>5. ASSUME NEW f \in Fetcher, NEW d \in Direction, Fetch(f, d)
      PROVE  IInv'
  BY <1>5, BlockPageStep, AccountPageStep, InvalidRangeStep DEF Fetch
<1>6. ASSUME NEW f \in Fetcher, NEW d \in Direction, PageFails(f, d)
      PROVE  IInv'
  BY <1>6, PageFailsStep
<1>7. ASSUME NEW f \in Fetcher, NEW d \in Direction, Update(f, d)
      PROVE  IInv'
  <2>1. /\ kind' = kind /\ tip' = tip /\ blocks' = blocks /\ logs' = logs
        /\ outrun' = outrun /\ faults' = faults /\ faults' \in 0..MaxFaults
    BY <1>7 DEF Update, IInv, TypeOK
  <2>2. CASE TakeCursors(f, d)
    BY <2>1, <2>2, TakeCursorsStep
  <2>3. CASE SkipUpdate(f, d)
    BY <2>1, <2>3, SkipUpdateStep
  <2>4. CASE PutCursors(f, d, Complete(f, d))
    BY <2>1, <2>4, PutCursorsStep
  <2>5. CASE SaveState(f, d)
    BY <2>1, <2>5, SaveStateStep
  <2>6. QED
    BY <1>7, <2>2, <2>3, <2>4, <2>5 DEF Update
<1>8. ASSUME NEW f \in Fetcher, NEW d \in Direction, UpdatesOverlap(f, d)
      PROVE  IInv'
  <2>1. /\ kind' = kind /\ tip' = tip /\ blocks' = blocks /\ logs' = logs
        /\ outrun' = outrun /\ TakeCursors(f, d)
    BY <1>8 DEF UpdatesOverlap
  <2>2. faults' \in 0..MaxFaults
    BY <1>8, FaultAssumption DEF UpdatesOverlap, Fault, IInv, TypeOK
  <2>3. QED
    BY <2>1, <2>2, TakeCursorsStep
<1>9. CASE Restart
  BY <1>9, RestartStep
<1>10. QED
  BY <1>1, <1>2, <1>3, <1>4, <1>5, <1>6, <1>7, <1>8, <1>9 DEF Next

LEMMA StutterInv ==
  ASSUME IInv, UNCHANGED vars
  PROVE  IInv'
<1>1. /\ state' = state /\ saved' = saved /\ job' = job /\ kind' = kind /\ tip' = tip
      /\ blocks' = blocks /\ logs' = logs /\ outrun' = outrun /\ faults' = faults
  BY DEF vars, histVars
<1>2. TypeOK' /\ PairedInv' /\ OrderInv' /\ TipInv'
  BY <1>1 DEF IInv, TypeOK, HistTypeOK, PairedInv, OrderInv, FirstInv, Walks, TipInv, InPhase
<1>3. WalkInv'
  BY <1>1, WalkInvKept
<1>4. QED
  BY <1>2, <1>3 DEF IInv

(* The invariant that all the others follow from: one range of blocks was   *)
(* walked, up and down from somewhere within it, and every cursor lies in   *)
(* it, forward cursors above and backward ones below; every run begins next *)
(* to it or within it, whatever the other job of the fetcher does meanwhile *)
(* (a pool may start one beside the other), so it leaves no gap wherever    *)
(* its cursors are put. All the account's fetcher does stays within it, and *)
(* where logs are walked they have such a range of their own.               *)
THEOREM Inductive == Spec => []IInv
<1>1. Init => IInv
  BY InitInv
<1>2. IInv /\ [Next]_vars => IInv'
  BY NextInv, StutterInv
<1>3. QED
  BY <1>1, <1>2, PTL DEF Spec

(* Every variable keeps its type: the cursors and the ranges that runs are  *)
(* left with never leave the heights there are.                             *)
THEOREM TypeCorrect == Spec => []TypeOK
<1>1. IInv => TypeOK
  BY DEF IInv
<1>2. QED
  BY <1>1, Inductive, PTL

(* What lies between the account's cursors is there, and all of it from the *)
(* height that its history begins at when that is called complete.          *)
LEMMA AccountIsWalked ==
  ASSUME IInv, ~outrun, NEW s \in {state, saved}
  PROVE  LET c == s["account"].cursors
         IN /\ Between(c) \cap Ours \subseteq Got
            /\ s["account"].complete => (MinHeight..c.forward) \cap Ours \subseteq Got
<1> DEFINE c == s["account"].cursors
<1>1. TypeOK /\ MinHeight \in Nat
  BY OursAssumption DEF IInv, Position
<1>2. c.forward \in Int /\ c.backward \in Int
  BY <1>1, CursorTypes, LastAssumption, Fetchers DEF Cursor, Position, None
<1>3. \E lo, hi \in Position :
        /\ lo..hi \cap Ours \subseteq Got
        /\ Seen(c) => c.forward <= hi /\ lo <= c.backward
        /\ s["account"].complete => lo <= MinHeight
  <2>1. CASE kind = "log"
    <3>1. PICK lo, mid, hi \in Position : Walk("account", lo, mid, hi)
      BY <2>1, Fetchers DEF IInv, WalkInv, Walks
    <3>2. lo..hi \subseteq Have("account") /\ In(c, lo, mid, hi)
          /\ (s["account"].complete => lo <= MinHeight)
      BY <3>1 DEF Walk, First
    <3>3. lo..hi \cap Ours \subseteq Got
      BY <3>2 DEF Have
    <3>4. Seen(c) => c.forward <= hi /\ lo <= c.backward
      BY <3>2, <1>2 DEF In, Position
    <3>5. QED
      BY <3>2, <3>3, <3>4
  <2>2. CASE kind # "log"
    <3>1. PICK lo, mid, hi \in Position : Walk("blocks", lo, mid, hi) /\ Stays(lo, hi)
      BY <2>2, Fetchers DEF IInv, WalkInv, Walks
    <3>2. lo..hi \subseteq blocks /\ Within(c, lo, hi) /\ (s["account"].complete => lo = 0)
      BY <3>1 DEF Walk, Have, Stays
    <3>3. lo..hi \cap Ours \subseteq Got
      BY <3>2, <2>2 DEF Got
    <3>4. Seen(c) => c.forward <= hi /\ lo <= c.backward
      BY <3>2, <1>2 DEF Within, Position
    <3>5. s["account"].complete => lo <= MinHeight
      BY <3>2, <1>1
    <3>6. QED
      BY <3>3, <3>4, <3>5
  <2>3. QED
    BY <2>1, <2>2
<1>4. PICK lo, hi \in Position :
        /\ lo..hi \cap Ours \subseteq Got
        /\ Seen(c) => c.forward <= hi /\ lo <= c.backward
        /\ s["account"].complete => lo <= MinHeight
  BY <1>3
<1>5. lo \in Int /\ hi \in Int
  BY DEF Position
<1> HIDE DEF c
<1>6. Between(c) \cap Ours \subseteq Got
  BY <1>2, <1>4, <1>5 DEF Between, Seen
<1>7. s["account"].complete => (MinHeight..c.forward) \cap Ours \subseteq Got
  BY <1>1, <1>2, <1>4, <1>5 DEF Seen, None
<1>8. QED
  BY <1>6, <1>7 DEF c

LEMMA NoGapsLemma ==
  ASSUME IInv
  PROVE  NoGaps
<1>1. TypeOK
  BY DEF IInv
<1>2. BlocksHaveNoGaps
  <2>1. PICK lo, mid, hi \in Position : Walk("blocks", lo, mid, hi)
    BY Fetchers DEF IInv, WalkInv, Walks
  <2>2. lo..hi \subseteq blocks /\ lo \in Int /\ mid \in Int /\ hi \in Int
    BY <2>1 DEF Walk, Have, Position
  <2>3. ASSUME NEW c, In(c, lo, mid, hi)
        PROVE  Between(c) \subseteq blocks
    BY <2>2, <2>3 DEF Between, In, Seen
  <2>4. QED
    BY <2>1, <2>3 DEF BlocksHaveNoGaps, Walk
<1>3. AccountHasNoGaps
  BY AccountIsWalked DEF AccountHasNoGaps
<1>4. DatesAreWhole
  <2>1. SUFFICES ASSUME ~outrun, NEW from \in Position, NEW to \in Position, InRange(from, to)
                 PROVE  QueryEntitiesByDate(from, to) = Ours \cap (from..to)
    BY DEF DatesAreWhole
  <2> DEFINE c == saved["account"].cursors
  <2>2. c.forward \in Cursor /\ c.backward \in Cursor
    BY <1>1, CursorTypes, Fetchers
  <2>3. c.backward # None /\ Greatest({c.backward, MinHeight}) <= from /\ to <= c.forward
    BY <2>1 DEF InRange, GetAccountState, GetPartialAccountState
  <2>4. c.backward <= Greatest({c.backward, MinHeight})
        /\ Greatest({c.backward, MinHeight}) \in Nat
    <3>1. Last \in Nat /\ {c.backward, MinHeight} \in SUBSET (0..Last)
      BY <2>2, <2>3, OursAssumption, LastAssumption DEF Cursor, Position
    <3>2. /\ Greatest({c.backward, MinHeight}) \in {c.backward, MinHeight}
          /\ \A y \in {c.backward, MinHeight} : Greatest({c.backward, MinHeight}) >= y
      BY <3>1, GreatestIs
    <3>3. QED
      BY <3>1, <3>2
  <2>5. c.forward # None
    BY <2>3, Fetchers DEF IInv, PairedInv, Paired
  <2>6. \A x \in from..to : x \in Between(c)
    BY <2>2, <2>3, <2>4, <2>5 DEF Between, Cursor, Position, None
  <2>7. Between(c) \cap Ours \subseteq Got
    BY <2>1, AccountIsWalked
  <2>8. logs \subseteq Ours
    BY <1>1 DEF TypeOK
  <2>9. Ours \cap (from..to) \subseteq Got
    BY <2>6, <2>7
  <2>10. QED
    BY <2>8, <2>9 DEF QueryEntitiesByDate, Got
<1>5. QED
  BY <1>1, <1>2, <1>3, <1>4 DEF NoGaps

(* No cursor, of memory or store, of the blocks' fetcher or the account's,  *)
(* ever goes by what is not indexed, and a query for dates that are in the  *)
(* range the account is said to have finds all there is: whatever fails,    *)
(* stops or overlaps on the way, and however often, though what is said of  *)
(* the account ends with a crash that loses the first cursors of the blocks *)
(* and keeps those of the account.                                          *)
THEOREM NoGapsEver == Spec => []NoGaps
<1>1. IInv => NoGaps
  BY NoGapsLemma
<1>2. QED
  BY <1>1, Inductive, PTL

LEMMA CompleteLemma ==
  ASSUME IInv
  PROVE  CompleteIsWhole
<1>1. ASSUME NEW s \in {state, saved}, s["blocks"].complete
      PROVE  0..s["blocks"].cursors.forward \subseteq blocks
  <2>1. PICK lo, mid, hi \in Position : Walk("blocks", lo, mid, hi)
    BY Fetchers DEF IInv, WalkInv, Walks
  <2>2. /\ lo..hi \subseteq blocks /\ In(s["blocks"].cursors, lo, mid, hi)
        /\ lo = 0 /\ mid \in Int /\ hi \in Int
    BY <1>1, <2>1 DEF Walk, Have, First, Position
  <2>3. s["blocks"].cursors.forward \in Int
    BY CursorTypes, LastAssumption, Fetchers DEF IInv, Cursor, Position, None
  <2>4. QED
    BY <2>2, <2>3 DEF In, Seen, None
<1>2. ASSUME NEW s \in {state, saved}, s["account"].complete, ~outrun
      PROVE  (MinHeight..s["account"].cursors.forward) \cap Ours \subseteq Got
  BY <1>2, AccountIsWalked
<1>3. QED
  BY <1>1, <1>2 DEF CompleteIsWhole

(* A history that is called complete was indexed from its first block, or   *)
(* from the height that the account's history begins at, with the same      *)
(* exception.                                                               *)
THEOREM CompleteIsAlwaysWhole == Spec => []CompleteIsWhole
<1>1. IInv => CompleteIsWhole
  BY CompleteLemma
<1>2. QED
  BY <1>1, Inductive, PTL
=============================================================================
