-------------------------- MODULE SolanaHistoryProofs --------------------------
(***************************************************************************)
(* For any history, nodes, page size and number of failures, crashes and    *)
(* empty answers, and however the runs of the two jobs overlap: nothing is  *)
(* missing between the cursors of the account but what a limited forward    *)
(* run, or a backward run that began without cursors, passed over, nor in   *)
(* what is offered by date, and a complete history is whole.                *)
(***************************************************************************)
EXTENDS SolanaHistory, FiniteSetTheorems, WellFoundedInduction, TLAPS

(* What the steps of BaseHistoryFetcher do to runs and cursors, for any     *)
(* fetchers.                                                                *)
Seen(c) == c.forward # None

(* The two cursors of a job's state are set together.                       *)
Paired(c) == c.forward = None <=> c.backward = None

(* A job that is not under way.                                             *)
Idle(r) == r.phase \in {"off", "due"}

JobType == job \in [Fetcher -> [Direction -> Run]]

(* The step changes no run but that of f's job d.                           *)
OnlyJob(f, d) ==
  \A g \in Fetcher, e \in Direction : g # f \/ e # d => job'[g][e] = job[g][e]

PairedInv ==
  \A f \in Fetcher :
    /\ Paired(state[f].cursors) /\ Paired(saved[f].cursors)
    /\ \A d \in Direction : Paired(job[f][d].last) /\ Paired(job[f][d].prev)

LEMMA HasLeast ==
  ASSUME NEW S \in SUBSET Nat, S # {}
  PROVE  \E x \in S : \A y \in S : x <= y
<1>1. \E x \in S : \A y \in S : ~(<<y, x>> \in OpToRel(<, Nat))
  BY NatLessThanWellFounded, WFMin
<1>2. \A x, y \in Nat : <<y, x>> \in OpToRel(<, Nat) <=> y < x
  BY DEF OpToRel
<1>3. PICK x \in S : \A y \in S : ~(y < x)
  BY <1>1, <1>2
<1>4. QED
  BY <1>3

LEMMA SetJob ==
  ASSUME HistTypeOK, NEW f \in Fetcher, NEW d \in Direction, NEW r \in Run,
         job' = [job EXCEPT ![f][d] = r]
  PROVE  job'[f][d] = r /\ OnlyJob(f, d) /\ JobType'
BY DEF HistTypeOK, OnlyJob, JobType

LEMMA NoRunType ==
  /\ NoRun \in Run /\ Due \in Run
  /\ Idle(NoRun) /\ Idle(Due) /\ NoRun.phase = "off" /\ Due.phase = "due"
  /\ NoRun.last = NoCursors /\ NoRun.prev = NoCursors
  /\ Due.last = NoCursors /\ Due.prev = NoCursors
  /\ ~Seen(NoCursors) /\ Paired(NoCursors)
<1>1. NoCursors \in Cursors /\ None \in Cursor /\ 0 \in Position /\ 0 \in 0..Unlimited
  BY LastAssumption DEF NoCursors, Cursors, Cursor, Position, Unlimited
<1>2. NoRun \in Run
  BY <1>1 DEF NoRun, Run, Phase
<1>3. Due \in Run
  BY <1>2 DEF Due, Run, Phase
<1>4. NoRun.phase = "off" /\ NoRun.last = NoCursors /\ NoRun.prev = NoCursors
  BY DEF NoRun
<1>5. Due.phase = "due" /\ Due.last = NoCursors /\ Due.prev = NoCursors
  BY DEF NoRun, Due
<1>6. ~Seen(NoCursors) /\ Paired(NoCursors)
  BY DEF Seen, Paired, NoCursors
<1>7. QED
  BY <1>2, <1>3, <1>4, <1>5, <1>6 DEF Idle

(* The run of f's job d has begun, and nothing else has changed.            *)
Began(f, d, from, to, left) ==
  /\ JobType' /\ OnlyJob(f, d)
  /\ job'[f][d].phase = "fetching" /\ job'[f][d].from = from
  /\ job'[f][d].to = to /\ job'[f][d].left = left
  /\ job'[f][d].last = NoCursors /\ job'[f][d].prev = NoCursors

LEMMA BeginSteps ==
  ASSUME HistTypeOK, NEW f \in Fetcher, NEW d \in Direction,
         NEW from \in Position, NEW to \in Cursor, NEW left \in 0..Unlimited,
         Begin(f, d, from, to, left)
  PROVE  Began(f, d, from, to, left)
<1> DEFINE r == [NoRun EXCEPT !.phase = "fetching", !.from = from, !.to = to, !.left = left]
<1>1. r \in Run
  BY NoRunType DEF Run, Phase
<1>2. /\ r.phase = "fetching" /\ r.from = from /\ r.to = to /\ r.left = left
      /\ r.last = NoCursors /\ r.prev = NoCursors /\ r.error = FALSE
  BY DEF NoRun
<1>3. job' = [job EXCEPT ![f][d] = r]
  BY DEF Begin
<1> HIDE DEF r
<1>4. job'[f][d] = r /\ OnlyJob(f, d) /\ JobType'
  BY <1>1, <1>3, SetJob
<1>5. QED
  BY <1>2, <1>4 DEF Began

LEMMA BeginEmptySteps ==
  ASSUME HistTypeOK, NEW f \in Fetcher, NEW d \in Direction, BeginEmpty(f, d)
  PROVE  /\ JobType' /\ OnlyJob(f, d)
         /\ job'[f][d].phase = "fetched" /\ job'[f][d].error = FALSE
         /\ job'[f][d].last = NoCursors /\ job'[f][d].prev = NoCursors
<1> DEFINE r == [NoRun EXCEPT !.phase = "fetched"]
<1>1. r \in Run
  BY NoRunType DEF Run, Phase
<1>2. r.phase = "fetched" /\ r.last = NoCursors /\ r.prev = NoCursors /\ r.error = FALSE
  BY DEF NoRun
<1>3. job' = [job EXCEPT ![f][d] = r]
  BY DEF BeginEmpty
<1> HIDE DEF r
<1>4. job'[f][d] = r /\ OnlyJob(f, d) /\ JobType'
  BY <1>1, <1>3, SetJob
<1>5. QED
  BY <1>2, <1>4

LEMMA FetchedSteps ==
  ASSUME HistTypeOK, NEW f \in Fetcher, NEW d \in Direction, NEW error \in BOOLEAN,
         Fetched(f, d, error)
  PROVE  /\ JobType' /\ OnlyJob(f, d)
         /\ job'[f][d].phase = "fetched" /\ job'[f][d].error = error
         /\ job'[f][d].from = job[f][d].from /\ job'[f][d].to = job[f][d].to
         /\ job'[f][d].left = job[f][d].left
         /\ job'[f][d].last = job[f][d].last /\ job'[f][d].prev = job[f][d].prev
<1> DEFINE r == [job[f][d] EXCEPT !.phase = "fetched", !.error = error]
<1>1. job[f][d] \in Run
  BY DEF HistTypeOK
<1>2. r \in Run
  BY <1>1 DEF Run, Phase
<1>3. /\ r.phase = "fetched" /\ r.error = error
      /\ r.from = job[f][d].from /\ r.to = job[f][d].to /\ r.left = job[f][d].left
      /\ r.last = job[f][d].last /\ r.prev = job[f][d].prev
  BY <1>1 DEF Run
<1>4. job' = [job EXCEPT ![f][d] = r]
  BY DEF Fetched, HistTypeOK
<1> HIDE DEF r
<1>5. job'[f][d] = r /\ OnlyJob(f, d) /\ JobType'
  BY <1>2, <1>4, SetJob
<1>6. QED
  BY <1>3, <1>5

LEMMA PageDoneSteps ==
  ASSUME HistTypeOK, NEW f \in Fetcher, NEW d \in Direction,
         NEW first \in Position, NEW newest \in Position, NEW left \in 0..Unlimited,
         NEW more \in BOOLEAN, PageDone(f, d, first, newest, left, more)
  PROVE  /\ JobType' /\ OnlyJob(f, d)
         /\ job'[f][d].phase = IF more THEN "fetching" ELSE "fetched"
         /\ job'[f][d].error = job[f][d].error
         /\ job'[f][d].from = job[f][d].from /\ job'[f][d].to = first - 1
         /\ job'[f][d].left = left
         /\ job'[f][d].last.backward = first
         /\ job'[f][d].last.forward = IF Seen(job[f][d].last) THEN job[f][d].last.forward
                                                               ELSE newest
         /\ job'[f][d].prev = job[f][d].prev
<1> DEFINE old == job[f][d]
           new == [backward |-> first,
                   forward |-> IF old.last.forward = None THEN newest ELSE old.last.forward]
           r == [old EXCEPT !.phase = IF more THEN "fetching" ELSE "fetched",
                   !.to = first - 1, !.left = left, !.last = new]
<1>1. old \in Run
  BY DEF HistTypeOK
<1>2. new \in Cursors
  BY <1>1 DEF Run, Cursors, Cursor
<1>3. first - 1 \in Cursor
  BY LastAssumption DEF Position, Cursor, None
<1>4. job' = [job EXCEPT ![f][d] = r]
  BY DEF PageDone
<1>5. /\ new.backward = first
      /\ new.forward = IF Seen(old.last) THEN old.last.forward ELSE newest
  BY DEF Seen
<1> HIDE DEF old, new
<1>6. r \in Run
  BY <1>1, <1>2, <1>3 DEF Run, Phase
<1>7. /\ r.phase = IF more THEN "fetching" ELSE "fetched"
      /\ r.error = old.error /\ r.from = old.from /\ r.to = first - 1
      /\ r.left = left /\ r.last = new /\ r.prev = old.prev
  BY <1>1 DEF Run
<1> HIDE DEF r
<1>8. job'[f][d] = r /\ OnlyJob(f, d) /\ JobType'
  BY <1>4, <1>6, SetJob
<1>9. QED
  BY <1>5, <1>7, <1>8 DEF old

LEMMA TakeCursorsSteps ==
  ASSUME HistTypeOK, NEW f \in Fetcher, NEW d \in Direction, TakeCursors(f, d)
  PROVE  /\ JobType' /\ OnlyJob(f, d)
         /\ job'[f][d].phase = "updating" /\ job'[f][d].prev = state[f].cursors
         /\ job'[f][d].error = job[f][d].error /\ job'[f][d].from = job[f][d].from
         /\ job'[f][d].last = job[f][d].last
<1> DEFINE r == [job[f][d] EXCEPT !.phase = "updating", !.prev = state[f].cursors]
<1>1. job[f][d] \in Run /\ state[f].cursors \in Cursors
  BY DEF HistTypeOK, FetcherState
<1>2. r \in Run
  BY <1>1 DEF Run, Phase
<1>3. /\ r.phase = "updating" /\ r.prev = state[f].cursors
      /\ r.error = job[f][d].error /\ r.from = job[f][d].from /\ r.last = job[f][d].last
  BY <1>1 DEF Run
<1>4. job' = [job EXCEPT ![f][d] = r]
  BY DEF TakeCursors, HistTypeOK
<1> HIDE DEF r
<1>5. job'[f][d] = r /\ OnlyJob(f, d) /\ JobType'
  BY <1>2, <1>4, SetJob
<1>6. QED
  BY <1>3, <1>5

LEMMA SkipUpdateSteps ==
  ASSUME HistTypeOK, NEW f \in Fetcher, NEW d \in Direction, SkipUpdate(f, d)
  PROVE  /\ JobType' /\ OnlyJob(f, d)
         /\ job'[f][d].phase = "saving" /\ job'[f][d].error = job[f][d].error
         /\ job'[f][d].last = job[f][d].last /\ job'[f][d].prev = job[f][d].prev
<1> DEFINE r == [job[f][d] EXCEPT !.phase = "saving"]
<1>1. job[f][d] \in Run
  BY DEF HistTypeOK
<1>2. r \in Run
  BY <1>1 DEF Run, Phase
<1>3. /\ r.phase = "saving" /\ r.error = job[f][d].error
      /\ r.last = job[f][d].last /\ r.prev = job[f][d].prev
  BY <1>1 DEF Run
<1>4. job' = [job EXCEPT ![f][d] = r]
  BY DEF SkipUpdate, HistTypeOK
<1> HIDE DEF r
<1>5. job'[f][d] = r /\ OnlyJob(f, d) /\ JobType'
  BY <1>2, <1>4, SetJob
<1>6. QED
  BY <1>3, <1>5

(* What _updateCursors does to the cursors that were read: the run's own    *)
(* cursor is the one it reached, or as it was if the run found nothing.     *)
LEMMA UpdatedCursors ==
  ASSUME NEW d \in Direction, NEW prev \in Cursors, NEW last \in Cursors,
         Paired(prev), Paired(last)
  PROVE  LET c == UpdateCursors(d, prev, last)
         IN /\ c \in Cursors /\ Paired(c)
            /\ ~Seen(last) => c.forward = prev.forward /\ c.backward = prev.backward
            /\ Seen(last) /\ ~Seen(prev) => c.forward = last.forward /\ c.backward = last.backward
            /\ Seen(last) /\ Seen(prev) /\ d = "forward" =>
                 c.forward = last.forward /\ c.backward = prev.backward
            /\ Seen(last) /\ Seen(prev) /\ d = "backward" =>
                 c.forward = prev.forward /\ c.backward = last.backward
<1>1. /\ prev.forward \in Cursor /\ prev.backward \in Cursor
      /\ last.forward \in Cursor /\ last.backward \in Cursor
  BY DEF Cursors
<1> DEFINE c == UpdateCursors(d, prev, last)
           own(e) == IF last[e] # None THEN last[e] ELSE prev[e]
           other(e) == IF prev[e] = None THEN last[e] ELSE prev[e]
<1>2. c = [e \in Direction |-> IF e = d THEN own(e) ELSE other(e)]
  BY DEF UpdateCursors
<1>3. /\ c.forward = IF d = "forward" THEN own("forward") ELSE other("forward")
      /\ c.backward = IF d = "backward" THEN own("backward") ELSE other("backward")
  BY <1>2 DEF Direction
<1>4. c.forward \in Cursor /\ c.backward \in Cursor
  BY <1>1, <1>3
<1>5. c = [forward |-> c.forward, backward |-> c.backward]
  BY <1>2 DEF Direction
<1>6. c \in Cursors
  BY <1>4, <1>5 DEF Cursors
<1> HIDE DEF c
<1>7. QED
  BY <1>3, <1>6 DEF Seen, Paired, Direction, c

LEMMA PutCursorsSteps ==
  ASSUME HistTypeOK, PairedInv, NEW f \in Fetcher, NEW d \in Direction,
         NEW complete \in BOOLEAN, PutCursors(f, d, complete)
  PROVE  LET c == state'[f].cursors
             r == job[f][d]
         IN /\ HistTypeOK' /\ OnlyJob(f, d) /\ saved' = saved
            /\ \A g \in Fetcher : g # f => state'[g] = state[g]
            /\ state'[f].complete = IF d = "backward" THEN complete ELSE state[f].complete
            /\ job'[f][d].phase = "saving" /\ job'[f][d].error = r.error
            /\ job'[f][d].last = r.last /\ job'[f][d].prev = r.prev
            /\ c = NewCursors(f, d) /\ Paired(c)
            /\ ~Seen(r.last) => c.forward = r.prev.forward /\ c.backward = r.prev.backward
            /\ Seen(r.last) /\ ~Seen(r.prev) =>
                 c.forward = r.last.forward /\ c.backward = r.last.backward
            /\ Seen(r.last) /\ Seen(r.prev) /\ d = "forward" =>
                 c.forward = r.last.forward /\ c.backward = r.prev.backward
            /\ Seen(r.last) /\ Seen(r.prev) /\ d = "backward" =>
                 c.forward = r.prev.forward /\ c.backward = r.last.backward
<1> DEFINE r == job[f][d]
           swap == Swap(f, d)
           new == [r EXCEPT !.phase = "saving", !.swap = swap]
           hist == state[f].historic \/ swap
           done == IF d = "backward" THEN complete ELSE state[f].complete
           s == [cursors |-> NewCursors(f, d), complete |-> done, historic |-> hist]
<1>1. r \in Run /\ state[f] \in FetcherState
  BY DEF HistTypeOK
<1>2. r.last \in Cursors /\ r.prev \in Cursors /\ Paired(r.last) /\ Paired(r.prev)
  BY <1>1 DEF Run, PairedInv
<1>3. swap \in BOOLEAN /\ hist \in BOOLEAN
  BY DEF Swap
<1>4. done \in BOOLEAN
  BY <1>1 DEF FetcherState
<1>5. state' = [state EXCEPT ![f] = s]
  BY DEF PutCursors
<1>6. job' = [job EXCEPT ![f][d] = new]
  BY DEF PutCursors, HistTypeOK
<1>7. NewCursors(f, d) = UpdateCursors(d, r.prev, r.last)
  BY DEF NewCursors
<1> HIDE DEF r, swap, hist, done
<1>8. new \in Run
  BY <1>1, <1>3 DEF Run, Phase
<1>9. new.phase = "saving" /\ new.error = r.error /\ new.last = r.last /\ new.prev = r.prev
  BY <1>1 DEF Run
<1>10. s.cursors = UpdateCursors(d, r.prev, r.last) /\ s.complete = done
  BY <1>7
<1>11. UpdateCursors(d, r.prev, r.last) \in Cursors
  BY <1>2, UpdatedCursors
<1>12. s \in FetcherState
  BY <1>3, <1>4, <1>7, <1>11 DEF FetcherState
<1> HIDE DEF new, s
<1>13. job'[f][d] = new /\ OnlyJob(f, d) /\ JobType'
  BY <1>6, <1>8, SetJob
<1>14. state'[f] = s /\ \A g \in Fetcher : g # f => state'[g] = state[g]
  BY <1>5 DEF HistTypeOK
<1>15. saved' = saved
  BY DEF PutCursors
<1>16. HistTypeOK'
  BY <1>5, <1>12, <1>13, <1>15 DEF HistTypeOK, JobType
<1>17. state'[f].cursors = NewCursors(f, d)
  BY <1>7, <1>10, <1>14
<1>18. QED
  BY <1>2, <1>7, <1>9, <1>13, <1>14, <1>15, <1>16, <1>17, <1>10, UpdatedCursors DEF r, done

LEMMA StartRunSteps ==
  ASSUME HistTypeOK, NEW f \in Fetcher, StartRun(f)
  PROVE  /\ JobType' /\ OnlyJob(f, "forward") /\ job'[f]["forward"] = Due
         /\ InPhase(f, "forward", "off")
BY NoRunType, SetJob DEF StartRun, Direction

(* The job that saved is due again or off, and no other starts but the      *)
(* backward job after a forward run that did not fail.                      *)
LEMMA SaveStateSteps ==
  ASSUME HistTypeOK, NEW f \in Fetcher, NEW d \in Direction, SaveState(f, d)
  PROVE  /\ HistTypeOK' /\ state' = state /\ job[f][d].phase = "saving"
         /\ saved'[f] = state[f] /\ \A g \in Fetcher : g # f => saved'[g] = saved[g]
         /\ \A g \in Fetcher, e \in Direction : g # f => job'[g][e] = job[g][e]
         /\ job'[f][d] \in {NoRun, Due}
         /\ \A e \in Direction : e # d =>
              \/ job'[f][e] = job[f][e]
              \/ /\ e = "backward" /\ ~job[f][d].error /\ ~state[f].complete
                 /\ InPhase(f, e, "off") /\ job'[f][e] = Due
         /\ f \in Once /\ d = "forward" /\ ~job[f][d].error => job'[f][d] = NoRun
<1> DEFINE complete == state[f].complete
           starts == d = "forward" /\ ~job[f][d].error /\ ~complete /\ InPhase(f, "backward", "off")
           runs == [e \in Direction |-> IF e = d THEN Rest(f, d, complete)
                                        ELSE IF starts THEN Due ELSE job[f][e]]
<1>1. /\ saved' = [saved EXCEPT ![f] = state[f]] /\ state' = state
      /\ job' = [job EXCEPT ![f] = runs] /\ job[f][d].phase = "saving"
  BY DEF SaveState, InPhase
<1>2. Rest(f, d, complete) \in {NoRun, Due}
  BY DEF Rest
<1>3. f \in Once /\ d = "forward" /\ ~job[f][d].error => Rest(f, d, complete) = NoRun
  BY DEF Rest
<1>4. /\ runs[d] = Rest(f, d, complete)
      /\ \A e \in Direction : e # d => runs[e] = IF starts THEN Due ELSE job[f][e]
  OBVIOUS
<1>5. runs \in [Direction -> Run]
  BY <1>2, NoRunType DEF HistTypeOK
<1>6. starts => /\ ~job[f][d].error /\ ~complete /\ InPhase(f, "backward", "off")
                /\ \A e \in Direction : e # d => e = "backward"
  BY DEF Direction
<1> HIDE DEF runs, starts
<1>7. job'[f] = runs /\ \A g \in Fetcher : g # f => job'[g] = job[g]
  BY <1>1 DEF HistTypeOK
<1>8. job' \in [Fetcher -> [Direction -> Run]]
  BY <1>1, <1>5 DEF HistTypeOK
<1>9. saved' \in [Fetcher -> FetcherState]
  BY <1>1 DEF HistTypeOK
<1>10. HistTypeOK'
  BY <1>1, <1>8, <1>9 DEF HistTypeOK
<1>11. saved'[f] = state[f] /\ \A g \in Fetcher : g # f => saved'[g] = saved[g]
  BY <1>1 DEF HistTypeOK
<1>12. \A e \in Direction : e # d =>
         \/ job'[f][e] = job[f][e]
         \/ /\ e = "backward" /\ ~job[f][d].error /\ ~state[f].complete
            /\ InPhase(f, e, "off") /\ job'[f][e] = Due
  BY <1>4, <1>6, <1>7
<1>13. QED
  BY <1>1, <1>2, <1>3, <1>4, <1>7, <1>10, <1>11, <1>12

LEMMA RestartSteps ==
  ASSUME HistTypeOK, HistRestart
  PROVE  /\ HistTypeOK' /\ state' = saved /\ saved' = saved
         /\ \A f \in Fetcher, d \in Direction : job'[f][d] = NoRun
BY NoRunType DEF HistRestart, HistTypeOK
-----------------------------------------------------------------------------
(* Between cursors nothing is missing. A page is in store.                   *)
Whole(c) ==
  Seen(c) => c.backward <= tip /\ c.forward <= tip /\ c.backward..c.forward \subseteq Got

PageOk(d) ==
  LET r == RunOf(d)
  IN /\ r.phase = "fetching" => ~Seen(r.last) /\ r.to <= tip
     /\ r.phase \in {"fetched", "updating"} /\ Seen(r.last) =>
          /\ r.last.backward <= r.last.forward /\ r.last.forward <= tip
          /\ r.last.backward..r.last.forward \subseteq Got
     /\ r.phase = "updating" => Whole(r.prev)

(* The cursors that a run is to update, as far as it knows them.            *)
Base(d) == IF InPhase(Account, d, "updating") THEN RunOf(d).prev ELSE CursorsNow

(* Only the backward job moves the backward cursor, so the page of a run    *)
(* that began at the cursor still borders on it; none at all, from a node   *)
(* that knows everything, means that the cursor is at the oldest signature. *)
BackOk ==
  LET r == RunOf("backward")
      base == Base("backward")
  IN /\ r.phase = "fetching" => r.from = 0
     /\ r.phase = "fetching" /\ ~blind =>
          Seen(base) /\ r.to = base.backward - 1 /\ r.to # None
     /\ r.phase \in {"fetched", "updating"} /\ ~blind =>
          /\ Seen(base)
          /\ Seen(r.last) => r.last.forward = base.backward - 1
          /\ ~Seen(r.last) /\ ~r.error /\ state[Account].historic /\ ~emptied
               => base.backward = 0

(* The cursors that a run has read are those there are, until the other job *)
(* has put its own. If that completes the history, it is whole below the    *)
(* ones that the forward run has read.                                      *)
ReadInv ==
  /\ \A d, e \in Direction :
       /\ d # e
       /\ InPhase(Account, d, "updating") /\ ~InPhase(Account, e, "saving")
       => RunOf(d).prev = CursorsNow
  /\ InPhase(Account, "forward", "updating") /\ state[Account].complete /\ ~emptied
       => 0..RunOf("forward").prev.forward \subseteq Got

RangeInv ==
  \A s \in {state[Account], saved[Account]} :
    /\ Whole(s.cursors)
    /\ s.complete /\ ~emptied => 0..s.cursors.forward \subseteq Got

RunsInv == \A d \in Direction : PageOk(d)

IInv == TypeOK /\ PairedInv /\ RangeInv /\ RunsInv /\ BackOk /\ ReadInv
-----------------------------------------------------------------------------
LEMMA OneFetcher ==
  /\ Account \in Fetcher /\ Account \in Once /\ \A f \in Fetcher : f = Account
  /\ "forward" \in Direction /\ "backward" \in Direction
  /\ \A d \in Direction : d = "forward" \/ d = "backward"
BY FetcherAssumption DEF Direction

LEMMA Types ==
  ASSUME IInv
  PROVE  /\ HistTypeOK /\ Last \in Nat /\ tip \in Cursor /\ tip \in Int /\ tip <= Last
         /\ CursorsNow.forward \in Cursor /\ CursorsNow.backward \in Cursor
         /\ CursorsNow.forward \in Int /\ CursorsNow.backward \in Int
         /\ Seen(CursorsNow) => CursorsNow.forward \in Position /\ CursorsNow.backward \in Position
         /\ \A d \in Direction : RunOf(d) \in Run /\ Paired(RunOf(d).last) /\ Paired(RunOf(d).prev)
<1>1. HistTypeOK /\ tip \in Cursor /\ Paired(CursorsNow)
  BY OneFetcher DEF IInv, TypeOK, PairedInv, CursorsNow
<1>2. CursorsNow.forward \in Cursor /\ CursorsNow.backward \in Cursor
  BY <1>1, OneFetcher DEF HistTypeOK, FetcherState, Cursors, CursorsNow
<1>3. Last \in Nat
  BY LastAssumption
<1>4. Seen(CursorsNow) => CursorsNow.forward \in Position /\ CursorsNow.backward \in Position
  BY <1>1, <1>2 DEF Paired, Seen, Cursor
<1>5. \A x \in Cursor : x \in Int /\ x <= Last
  BY <1>3 DEF Cursor, Position, None
<1>6. \A d \in Direction : RunOf(d) \in Run /\ Paired(RunOf(d).last) /\ Paired(RunOf(d).prev)
  BY <1>1, OneFetcher DEF HistTypeOK, RunOf, IInv, PairedInv
<1>7. QED
  BY <1>1, <1>2, <1>3, <1>4, <1>5, <1>6

(* What was between the cursors stays there, and so does a page.            *)
Grows == tip' \in Int /\ tip <= tip' /\ Got \subseteq Got' /\ (emptied => emptied')

LEMMA StaysWhole ==
  ASSUME Grows, tip \in Int, NEW c \in Cursors, Whole(c)
  PROVE  Whole(c)'
<1>1. c.forward \in Int /\ c.backward \in Int
  BY LastAssumption DEF Cursors, Cursor, Position, None
<1>2. QED
  BY <1>1 DEF Grows, Whole

LEMMA StaysRangeInv ==
  ASSUME IInv, Grows, \A s \in {state'[Account], saved'[Account]} : s \in {state[Account], saved[Account]}
  PROVE  RangeInv'
<1>1. tip \in Int /\ \A s \in {state[Account], saved[Account]} : s.cursors \in Cursors
  BY Types, OneFetcher DEF HistTypeOK, FetcherState
<1>2. \A s \in {state[Account], saved[Account]} :
        Whole(s.cursors)' /\ (s.complete /\ ~emptied' => 0..s.cursors.forward \subseteq Got')
  BY <1>1, StaysWhole DEF Grows, IInv, RangeInv
<1>3. QED
  BY <1>2 DEF RangeInv

LEMMA StaysPageOk ==
  ASSUME IInv, Grows, NEW d \in Direction, RunOf(d)' = RunOf(d)
  PROVE  PageOk(d)'
<1> DEFINE r == RunOf(d)
<1>1. tip \in Int /\ r \in Run /\ r.prev \in Cursors /\ r.last \in Cursors /\ r.to \in Int
  BY Types, LastAssumption DEF Run, Cursor, Position, None
<1>2. r.last.forward \in Int /\ r.last.backward \in Int
  BY <1>1, LastAssumption DEF Cursors, Cursor, Position, None
<1>3. PageOk(d)
  BY DEF IInv, RunsInv
<1>4. Whole(r.prev) => Whole(r.prev)'
  BY <1>1, StaysWhole
<1> HIDE DEF r
<1>5. r' = r
  BY DEF r
<1>6. QED
  BY <1>1, <1>2, <1>3, <1>4, <1>5 DEF PageOk, Grows, r

(* A step of a run that moves no cursor, and neither is nor was saving: only*)
(* what it says of this run remains to be shown.                            *)
LEMMA RunStep ==
  ASSUME IInv, TypeOK', NEW d \in Direction, OnlyJob(Account, d),
         RunOf(d).phase # "saving", Paired(RunOf(d).last)', Paired(RunOf(d).prev)',
         state' = state, saved' = saved, tip' = tip, Grows,
         PageOk(d)', d = "backward" => BackOk', d = "forward" => blind' = blind,
         RunOf(d)'.phase = "updating" => RunOf(d)'.prev = CursorsNow
  PROVE  IInv'
<1>1. \A e \in Direction : e # d => RunOf(e)' = RunOf(e)
  BY OneFetcher DEF OnlyJob, RunOf
<1>2. PairedInv'
  BY <1>1, OneFetcher DEF IInv, PairedInv, RunOf
<1>3. RangeInv'
  BY StaysRangeInv
<1>4. RunsInv'
  BY <1>1, StaysPageOk DEF RunsInv
<1>5. BackOk'
  <2>1. CASE d = "backward"
    BY <2>1
  <2>2. CASE d = "forward"
    <3>1. RunOf("backward")' = RunOf("backward") /\ Base("backward")' = Base("backward")
      BY <2>2, <1>1, OneFetcher DEF Base, CursorsNow, InPhase, RunOf
    <3>2. BackOk
      BY DEF IInv
    <3>3. QED
      BY <2>2, <3>1, <3>2 DEF BackOk, Grows
  <2>3. QED
    BY <2>1, <2>2, OneFetcher
<1>6. ReadInv'
  <2>1. CursorsNow' = CursorsNow /\ state[Account]'.complete = state[Account].complete
    BY DEF CursorsNow
  <2>2. ASSUME NEW x \in Direction, NEW y \in Direction, x # y,
               RunOf(x)'.phase = "updating", RunOf(y)'.phase # "saving"
        PROVE  RunOf(x)'.prev = CursorsNow
    <3>1. CASE x = d
      BY <3>1, <2>2
    <3>2. CASE x # d
      <4>1. RunOf(x)' = RunOf(x) /\ y = d
        BY <3>2, <2>2, <1>1, OneFetcher
      <4>2. RunOf(x).phase = "updating" /\ RunOf(y).phase # "saving"
        BY <2>2, <4>1
      <4>3. QED
        BY <2>2, <4>1, <4>2 DEF IInv, ReadInv, InPhase, RunOf
    <3>3. QED
      BY <3>1, <3>2
  <2>3. ASSUME RunOf("forward")'.phase = "updating", state[Account].complete, ~emptied'
        PROVE  0..RunOf("forward")'.prev.forward \subseteq Got'
    <3>1. CASE d = "forward"
      <4>1. RunOf("forward")'.prev = CursorsNow
        BY <3>1, <2>3
      <4>2. 0..CursorsNow.forward \subseteq Got
        BY <2>3 DEF IInv, RangeInv, CursorsNow, Grows
      <4>3. QED
        BY <4>1, <4>2 DEF Grows
    <3>2. CASE d = "backward"
      <4>1. RunOf("forward")' = RunOf("forward")
        BY <3>2, <1>1, OneFetcher
      <4>2. 0..RunOf("forward").prev.forward \subseteq Got
        BY <2>3, <4>1 DEF IInv, ReadInv, InPhase, RunOf, Grows
      <4>3. QED
        BY <4>1, <4>2 DEF Grows
    <3>3. QED
      BY <3>1, <3>2, OneFetcher
  <2>4. QED
    BY <2>1, <2>2, <2>3 DEF ReadInv, InPhase, RunOf
<1>7. QED
  BY <1>2, <1>3, <1>4, <1>5, <1>6 DEF IInv

OnlyJobs == UNCHANGED <<state, saved, tip, stored, skipped, emptied, faults>>

LEMMA BeginStep ==
  ASSUME IInv, NEW d \in Direction, NEW from \in Position, NEW to \in Cursor,
         Begin(Account, d, from, to, PageSize), OnlyJobs, to <= tip,
         blind' \in BOOLEAN, d = "forward" => blind' = blind,
         d = "backward" => from = 0 /\ blind' = ~Seen(CursorsNow),
         d = "backward" /\ Seen(CursorsNow) => to = CursorsNow.backward - 1 /\ to # None
  PROVE  IInv'
<1>1. PageSize \in 0..Unlimited
  BY PageAssumption, LastAssumption DEF Unlimited
<1>2. HistTypeOK /\ tip \in Int
  BY Types
<1>3. /\ JobType' /\ OnlyJob(Account, d)
      /\ RunOf(d)'.phase = "fetching" /\ RunOf(d)'.from = from /\ RunOf(d)'.to = to
      /\ RunOf(d)'.last = NoCursors /\ RunOf(d)'.prev = NoCursors
  BY <1>1, <1>2, OneFetcher, BeginSteps DEF Began, RunOf
<1>4. TypeOK'
  BY <1>3 DEF OnlyJobs, IInv, TypeOK, HistTypeOK, JobType
<1>5. RunOf(d).phase = "due"
  BY DEF Begin, InPhase, RunOf
<1>6. CursorsNow' = CursorsNow
  BY DEF OnlyJobs, CursorsNow
<1>7. PageOk(d)'
  BY <1>3, NoRunType DEF PageOk, OnlyJobs
<1>8. d = "backward" => BackOk'
  <2>1. RunOf(d)'.phase = "fetching" => Base(d)' = CursorsNow
    BY <1>6 DEF Base, InPhase, RunOf
  <2>2. QED
    BY <1>3, <2>1 DEF BackOk
<1>9. Grows
  BY <1>2 DEF OnlyJobs, Grows, Got
<1>10. QED
  BY <1>3, <1>4, <1>5, <1>7, <1>8, <1>9, NoRunType, RunStep DEF OnlyJobs

LEMMA BeginEmptyStep ==
  ASSUME IInv, NEW d \in Direction, BeginEmpty(Account, d), OnlyJobs,
         blind' \in BOOLEAN, d = "forward" => blind' = blind,
         d = "backward" => Seen(CursorsNow) /\ CursorsNow.backward = 0
  PROVE  IInv'
<1>1. HistTypeOK /\ tip \in Int
  BY Types
<1>2. /\ JobType' /\ OnlyJob(Account, d)
      /\ RunOf(d)'.phase = "fetched"
      /\ RunOf(d)'.last = NoCursors /\ RunOf(d)'.prev = NoCursors
  BY <1>1, OneFetcher, BeginEmptySteps DEF RunOf
<1>3. TypeOK'
  BY <1>2 DEF OnlyJobs, IInv, TypeOK, HistTypeOK, JobType
<1>4. RunOf(d).phase = "due"
  BY DEF BeginEmpty, InPhase, RunOf
<1>5. CursorsNow' = CursorsNow
  BY DEF OnlyJobs, CursorsNow
<1>6. PageOk(d)'
  BY <1>2, NoRunType DEF PageOk
<1>7. d = "backward" => BackOk'
  <2>1. RunOf(d)'.phase = "fetched" => Base(d)' = CursorsNow
    BY <1>5 DEF Base, InPhase, RunOf
  <2>2. QED
    BY <1>2, <2>1, NoRunType DEF BackOk
<1>8. Grows
  BY <1>1 DEF OnlyJobs, Grows, Got
<1>9. QED
  BY <1>2, <1>3, <1>4, <1>6, <1>7, <1>8, NoRunType, RunStep DEF OnlyJobs

LEMMA FetchForwardStep ==
  ASSUME IInv, FetchForward, OnlyJobs, blind' = blind
  PROVE  IInv'
<1> DEFINE at == CursorsNow.forward
<1>1. /\ at \in Cursor /\ Last \in Nat /\ tip \in Cursor /\ blind' \in BOOLEAN
      /\ "forward" \in Direction /\ "forward" # "backward"
  BY Types, OneFetcher DEF IInv, TypeOK
<1>2. CASE at = Last
  <2>1. BeginEmpty(Account, "forward")
    BY <1>2 DEF FetchForward
  <2>2. QED
    BY <2>1, <1>1, BeginEmptyStep
<1>3. CASE at # Last
  <2>1. at + 1 \in Position /\ None \in Cursor /\ None <= tip
    BY <1>1, <1>3 DEF Cursor, Position, None
  <2>2. Begin(Account, "forward", at + 1, None, PageSize)
    BY <1>3 DEF FetchForward
  <2>3. QED
    BY <1>1, <2>1, <2>2, BeginStep
<1>4. QED
  BY <1>2, <1>3

LEMMA FetchBackwardStep ==
  ASSUME IInv, FetchBackward, OnlyJobs, blind' = (CursorsNow.backward = None)
  PROVE  IInv'
<1> DEFINE now == CursorsNow
<1>1. /\ now.backward \in Cursor /\ Last \in Nat /\ tip \in Int /\ tip <= Last
      /\ tip \in Cursor /\ now.backward \in Int /\ blind' \in BOOLEAN
      /\ "backward" \in Direction /\ "forward" # "backward"
  BY Types, OneFetcher
<1>2. Seen(now) <=> now.backward # None
  BY OneFetcher DEF IInv, PairedInv, Paired, Seen, CursorsNow
<1>3. Seen(now) => now.backward <= tip
  BY DEF IInv, RangeInv, CursorsNow, Whole
<1>4. CASE now.backward = 0
  <2>1. BeginEmpty(Account, "backward") /\ Seen(now)
    BY <1>2, <1>4 DEF FetchBackward, None
  <2>2. QED
    BY <1>1, <1>4, <2>1, BeginEmptyStep
<1>5. CASE now.backward # 0
  <2> DEFINE to == IF Seen(now) THEN now.backward - 1 ELSE None
  <2>1. to = IF now.backward = None THEN None ELSE now.backward - 1
    BY <1>2
  <2>2. Begin(Account, "backward", 0, to, PageSize)
    BY <1>5, <2>1 DEF FetchBackward
  <2>3. /\ to \in Cursor /\ 0 \in Position /\ to <= tip
        /\ Seen(now) => to = now.backward - 1 /\ to # None
    BY <1>1, <1>2, <1>3, <1>5 DEF Cursor, Position, None
  <2> HIDE DEF to
  <2>4. QED
    BY <1>1, <1>2, <2>2, <2>3, BeginStep
<1>6. QED
  BY <1>4, <1>5
-----------------------------------------------------------------------------
(* A run that is fetching, of which there is something to fetch.            *)
LEMMA FetchingRun ==
  ASSUME IInv, NEW d \in Direction, InPhase(Account, d, "fetching")
  PROVE  /\ RunOf(d) \in Run /\ RunOf(d).phase = "fetching" /\ ~Seen(RunOf(d).last)
         /\ Top(d) \in Int /\ Top(d) <= tip /\ Bottom(d) \in Nat
         /\ d = "backward" /\ ~blind => Seen(CursorsNow) /\ Top(d) = CursorsNow.backward - 1
         /\ Top(d) < Bottom(d) /\ d = "backward" /\ state[Account].historic => blind
<1> DEFINE r == RunOf(d)
           now == CursorsNow
<1>1. r \in Run /\ r.phase = "fetching" /\ PageOk(d) /\ BackOk /\ Base(d) = now
  BY Types DEF InPhase, RunOf, IInv, RunsInv, Base
<1>2. /\ ~Seen(r.last) /\ r.to <= tip
      /\ d = "backward" => r.from = 0
      /\ d = "backward" /\ ~blind => Seen(now) /\ r.to = now.backward - 1 /\ r.to # None
  BY <1>1 DEF PageOk, BackOk
<1>3. r.from \in Nat /\ r.to \in Cursor /\ r.to \in Int /\ tip \in Int /\ OwnFrom \in Nat
  BY <1>1, Types, NodeAssumption DEF Run, Cursor, Position, None
<1> HIDE DEF r, now
<1>4. Top(d) = IF r.to = None THEN tip ELSE r.to
  BY DEF Top, r
<1>5. Bottom(d) = r.from \/ Bottom(d) = IF r.from > OwnFrom THEN r.from ELSE OwnFrom
  BY DEF Bottom, Higher, r
<1>6. d = "backward" /\ state[Account].historic => Bottom(d) = r.from
  BY DEF Bottom, Historic, r
<1>7. d = "backward" /\ ~blind => Seen(now) /\ Top(d) = now.backward - 1 /\ Top(d) >= 0
  BY <1>2, <1>3, <1>4 DEF Cursor, Position, None
<1>8. Top(d) < Bottom(d) /\ d = "backward" /\ state[Account].historic => blind
  <2>1. SUFFICES ASSUME d = "backward", state[Account].historic, ~blind
                 PROVE  ~(Top(d) < Bottom(d))
    BY DEF IInv, TypeOK
  <2>2. Bottom(d) = 0 /\ Top(d) >= 0 /\ Top(d) \in Int
    BY <2>1, <1>2, <1>3, <1>4, <1>6, <1>7
  <2>3. QED
    BY <2>2
<1>9. QED
  BY <1>1, <1>2, <1>3, <1>4, <1>5, <1>7, <1>8 DEF r, now

(* A page after any number of calls lies within what was to be fetched.     *)
LEMMA LowIsInRange ==
  ASSUME IInv, NEW d \in Direction, InPhase(Account, d, "fetching"),
         Bottom(d) <= Top(d), NEW n \in Nat, n > 0
  PROVE  /\ LowAfter(d, n) \in Position /\ Top(d) \in Position
         /\ Bottom(d) <= LowAfter(d, n) /\ LowAfter(d, n) <= Top(d)
<1>1. Bottom(d) \in Nat /\ Top(d) \in Int /\ Top(d) <= tip /\ tip <= Last /\ Last \in Nat /\ tip \in Int
  BY FetchingRun, Types
<1>2. PageSize \in Nat /\ PageSize > 0
  BY PageAssumption, LastAssumption DEF Unlimited
<1> DEFINE m == n * PageSize
<1>3. m \in Int /\ m >= 1
  BY <1>2
<1>4. LowAfter(d, n) = IF Bottom(d) > Top(d) - m + 1 THEN Bottom(d) ELSE Top(d) - m + 1
  BY DEF LowAfter, Higher
<1> HIDE DEF m
<1>5. QED
  BY <1>1, <1>3, <1>4 DEF Position

(* The calls come to an end.                                                *)
LEMMA CallsIs ==
  ASSUME IInv, NEW d \in Direction, InPhase(Account, d, "fetching"), Bottom(d) <= Top(d)
  PROVE  Calls(d) \in Nat /\ Calls(d) > 0
<1>1. Bottom(d) \in Nat /\ Top(d) \in Int /\ Top(d) <= tip /\ tip <= Last /\ Last \in Nat /\ tip \in Int
  BY FetchingRun, Types
<1>2. PageSize \in Nat /\ PageSize >= 1
  BY PageAssumption, LastAssumption DEF Unlimited
<1> DEFINE m == (Last + 1) * PageSize
<1>3. m \in Int /\ m >= Last + 1
  BY <1>1, <1>2
<1>4. LowAfter(d, Last + 1) = IF Bottom(d) > Top(d) - m + 1 THEN Bottom(d) ELSE Top(d) - m + 1
  BY DEF LowAfter, Higher
<1> HIDE DEF m
<1>5. Enough(d, Last + 1)
  BY <1>1, <1>3, <1>4 DEF Enough
<1> DEFINE S == {n \in 1..(Last + 1) : Enough(d, n)}
<1>6. S \in SUBSET Nat /\ S # {}
  BY <1>1, <1>5
<1>7. PICK n \in S : \A k \in S : n <= k
  BY <1>6, HasLeast
<1>8. n \in 1..(Last + 1) /\ Enough(d, n) /\ \A k \in 1..(n - 1) : ~Enough(d, k)
  BY <1>1, <1>7
<1>9. Calls(d) \in 1..(Last + 1)
  BY <1>8 DEF Calls
<1>10. QED
  BY <1>1, <1>9

(* A page is stored, but for the transactions that failed.                  *)
LEMMA ProcessStep ==
  ASSUME IInv, NEW d \in Direction, InPhase(Account, d, "fetching"), Bottom(d) <= Top(d),
         NEW n \in Nat, n > 0, Process(d, LowAfter(d, n)),
         state' = state, saved' = saved, tip' = tip, skipped' = skipped, blind' = blind,
         emptied' \in BOOLEAN, emptied => emptied', faults' \in 0..MaxFaults
  PROVE  IInv'
<1> DEFINE r == RunOf(d)
           low == LowAfter(d, n)
           top == Top(d)
           now == CursorsNow
<1>1. /\ low \in Position /\ top \in Position /\ Bottom(d) <= low /\ low <= top
  BY LowIsInRange
<1>2. /\ r \in Run /\ r.phase = "fetching" /\ ~Seen(r.last) /\ top <= tip
      /\ d = "backward" /\ ~blind => Seen(now) /\ top = now.backward - 1
  BY FetchingRun
<1>3. stored' = stored \cup ((low..top) \ Failing) /\ PageDone(Account, d, low, top, 0, FALSE)
  BY DEF Process, Chunk
<1>4. HistTypeOK /\ Paired(r.prev) /\ tip \in Int
  BY Types
<1> HIDE DEF low, top
<1>5. /\ JobType' /\ OnlyJob(Account, d)
      /\ RunOf(d)'.phase = "fetched"
      /\ RunOf(d)'.last.backward = low
      /\ RunOf(d)'.last.forward = IF Seen(r.last) THEN r.last.forward ELSE top
      /\ RunOf(d)'.prev = r.prev
  <2> DEFINE more == FALSE
             left == 0
  <2>1. more \in BOOLEAN /\ PageDone(Account, d, low, top, left, more)
    BY <1>3
  <2>2. left \in 0..Unlimited
    BY LastAssumption DEF Unlimited
  <2> HIDE DEF more, left, r
  <2>3. /\ JobType' /\ OnlyJob(Account, d)
        /\ RunOf(d)'.phase = IF more THEN "fetching" ELSE "fetched"
        /\ RunOf(d)'.last.backward = low
        /\ RunOf(d)'.last.forward = IF Seen(r.last) THEN r.last.forward ELSE top
        /\ RunOf(d)'.prev = r.prev
    BY <1>1, <1>4, <2>1, <2>2, OneFetcher, PageDoneSteps DEF r, RunOf
  <2>4. QED
    BY <2>3 DEF more
<1>6. RunOf(d)'.last.forward = top
  BY <1>2, <1>5
<1>7. Paired(RunOf(d)'.last) /\ Seen(RunOf(d)'.last)
  BY <1>1, <1>5, <1>6, LastAssumption DEF Paired, Seen, Position, None
<1>8. Got \subseteq Got' /\ low..top \subseteq Got'
  BY <1>3 DEF Got
<1>9. TypeOK'
  <2>1. low..top \subseteq 0..tip
    BY <1>1, <1>2, <1>4 DEF Position
  <2>2. stored' \subseteq (0..tip) \ Failing
    BY <2>1, <1>3 DEF IInv, TypeOK
  <2>3. QED
    BY <2>2, <1>5 DEF IInv, TypeOK, HistTypeOK, JobType
<1>10. Grows
  BY <1>4, <1>8 DEF Grows
<1> HIDE DEF r
<1>11. PageOk(d)'
  BY <1>1, <1>2, <1>5, <1>6, <1>8 DEF PageOk
<1>12. d = "backward" => BackOk'
  <2>1. now' = now
    BY DEF CursorsNow
  <2>2. RunOf(d)'.phase = "fetched" => Base(d)' = now
    BY <2>1 DEF Base, InPhase, RunOf
  <2>3. QED
    BY <1>2, <1>5, <1>6, <1>7, <2>2 DEF BackOk
<1>13. QED
  BY <1>2, <1>4, <1>5, <1>7, <1>9, <1>10, <1>11, <1>12, RunStep DEF r

(* A run ends without a page, or breaks off.                                *)
LEMMA NoPageStep ==
  ASSUME IInv, NEW d \in Direction, InPhase(Account, d, "fetching"), NEW error \in BOOLEAN,
         Fetched(Account, d, error),
         ~error /\ d = "backward" /\ state[Account].historic => emptied' \/ blind,
         state' = state, saved' = saved, tip' = tip, skipped' = skipped, stored' = stored,
         blind' = blind, emptied' \in BOOLEAN, emptied => emptied', faults' \in 0..MaxFaults
  PROVE  IInv'
<1> DEFINE r == RunOf(d)
           now == CursorsNow
<1>1. HistTypeOK /\ Paired(r.prev) /\ Paired(r.last) /\ tip \in Int
  BY Types
<1>2. /\ r.phase = "fetching" /\ ~Seen(r.last)
      /\ d = "backward" /\ ~blind => Seen(now)
  BY FetchingRun
<1> HIDE DEF r
<1>3. /\ JobType' /\ OnlyJob(Account, d)
      /\ RunOf(d)'.phase = "fetched" /\ RunOf(d)'.error = error
      /\ RunOf(d)'.last = r.last /\ RunOf(d)'.prev = r.prev
  BY <1>1, OneFetcher, FetchedSteps DEF r, RunOf
<1>4. TypeOK'
  BY <1>3 DEF IInv, TypeOK, HistTypeOK, JobType
<1>5. PageOk(d)'
  BY <1>2, <1>3 DEF PageOk
<1>6. d = "backward" => BackOk'
  <2>1. now' = now
    BY DEF CursorsNow
  <2>2. RunOf(d)'.phase = "fetched" => Base(d)' = now
    BY <2>1 DEF Base, InPhase, RunOf
  <2>3. QED
    BY <1>2, <1>3, <2>2 DEF BackOk
<1>7. Grows
  BY <1>1 DEF Grows, Got
<1>8. QED
  BY <1>1, <1>2, <1>3, <1>4, <1>5, <1>6, <1>7, RunStep DEF r

LEMMA FetchPageStep ==
  ASSUME IInv, NEW d \in Direction, FetchPage(d)
  PROVE  IInv'
<1>1. /\ InPhase(Account, d, "fetching") /\ state' = state /\ saved' = saved /\ tip' = tip
      /\ skipped' = skipped /\ blind' = blind /\ emptied' = emptied /\ faults' = faults
  BY DEF FetchPage
<1>2. /\ emptied' \in BOOLEAN /\ faults' \in 0..MaxFaults
      /\ Bottom(d) \in Int /\ Top(d) \in Int
  BY <1>1, FetchingRun DEF IInv, TypeOK
<1>3. CASE Top(d) < Bottom(d)
  <2> DEFINE error == FALSE
  <2>1. Fetched(Account, d, error) /\ stored' = stored /\ error \in BOOLEAN
    BY <1>3 DEF FetchPage
  <2>2. d = "backward" /\ state[Account].historic => blind
    BY <1>1, <1>3, FetchingRun
  <2> HIDE DEF error
  <2>3. QED
    BY <2>1, <2>2, <1>1, <1>2, NoPageStep
<1>4. CASE Bottom(d) <= Top(d)
  <2>1. Process(d, LowAfter(d, Calls(d)))
    <3>1. ~(Top(d) < Bottom(d))
      BY <1>2, <1>4
    <3>2. QED
      BY <3>1 DEF FetchPage
  <2>2. Calls(d) \in Nat /\ Calls(d) > 0
    BY <1>1, <1>4, CallsIs
  <2>3. QED
    BY <2>1, <2>2, <1>1, <1>2, <1>4, ProcessStep
<1>5. QED
  BY <1>2, <1>3, <1>4

LEMMA EmptyAnswerStep ==
  ASSUME IInv, NEW d \in Direction, EmptyAnswer(d)
  PROVE  IInv'
<1>1. /\ InPhase(Account, d, "fetching") /\ Top(d) >= Bottom(d)
      /\ state' = state /\ saved' = saved /\ tip' = tip
      /\ skipped' = skipped /\ blind' = blind /\ emptied' = TRUE
  BY DEF EmptyAnswer
<1>2. emptied' \in BOOLEAN /\ emptied' /\ faults' \in 0..MaxFaults
  BY <1>1, FaultAssumption DEF EmptyAnswer, Fault, IInv, TypeOK
<1>3. Bottom(d) <= Top(d) /\ Calls(d) \in Nat /\ Calls(d) > 0
  <2>1. Bottom(d) <= Top(d)
    BY <1>1, FetchingRun
  <2>2. QED
    BY <2>1, <1>1, CallsIs
<1>4. PICK n \in 0..(Calls(d) - 1) :
        IF n = 0 THEN Fetched(Account, d, FALSE) /\ UNCHANGED stored
        ELSE Process(d, LowAfter(d, n))
  BY DEF EmptyAnswer
<1>5. n \in Nat
  BY <1>3, <1>4
<1>6. CASE n = 0
  <2> DEFINE error == FALSE
  <2>1. Fetched(Account, d, error) /\ stored' = stored /\ error \in BOOLEAN
    BY <1>4, <1>6
  <2> HIDE DEF error
  <2>2. QED
    BY <2>1, <1>1, <1>2, NoPageStep
<1>7. CASE n # 0
  <2>1. Process(d, LowAfter(d, n)) /\ n > 0
    BY <1>4, <1>5, <1>7
  <2>2. QED
    BY <2>1, <1>1, <1>2, <1>3, <1>5, ProcessStep
<1>8. QED
  BY <1>6, <1>7

LEMMA PageFailsStep ==
  ASSUME IInv, NEW d \in Direction, PageFails(d)
  PROVE  IInv'
<1> DEFINE error == TRUE
<1>1. /\ InPhase(Account, d, "fetching") /\ Fetched(Account, d, error) /\ error \in BOOLEAN /\ error
      /\ state' = state /\ saved' = saved /\ tip' = tip
      /\ skipped' = skipped /\ stored' = stored /\ blind' = blind /\ emptied' = emptied
  BY DEF PageFails
<1>2. emptied' \in BOOLEAN /\ faults' \in 0..MaxFaults
  BY <1>1, FaultAssumption DEF PageFails, Fault, IInv, TypeOK
<1> HIDE DEF error
<1>3. QED
  BY <1>1, <1>2, NoPageStep
-----------------------------------------------------------------------------
LEMMA TakeCursorsStep ==
  ASSUME IInv, NEW d \in Direction, TakeCursors(Account, d),
         UNCHANGED <<tip, stored, skipped, blind, emptied>>, faults' \in 0..MaxFaults
  PROVE  IInv'
<1> DEFINE r == RunOf(d)
           now == CursorsNow
<1>1. /\ HistTypeOK /\ Paired(r.last) /\ Paired(now) /\ tip \in Int
      /\ PageOk(d) /\ BackOk /\ Whole(now)
  BY Types, OneFetcher DEF IInv, PairedInv, CursorsNow, RunsInv, RangeInv
<1>2. r.phase = "fetched" /\ state' = state /\ saved' = saved
  BY DEF TakeCursors, InPhase, RunOf
<1> HIDE DEF r
<1>3. /\ JobType' /\ OnlyJob(Account, d)
      /\ RunOf(d)'.phase = "updating" /\ RunOf(d)'.prev = now
      /\ RunOf(d)'.error = r.error /\ RunOf(d)'.last = r.last
  BY <1>1, OneFetcher, TakeCursorsSteps DEF r, RunOf, CursorsNow
<1>4. TypeOK'
  BY <1>2, <1>3 DEF IInv, TypeOK, HistTypeOK, JobType
<1>5. Got' = Got
  BY DEF Got
<1>6. PageOk(d)'
  BY <1>1, <1>2, <1>3, <1>5 DEF PageOk, Whole, r
<1>7. d = "backward" => BackOk'
  <2>1. Base(d) = now /\ Base(d)' = now
    BY <1>2, <1>3 DEF Base, InPhase, RunOf, r
  <2>2. QED
    BY <2>1, <1>1, <1>2, <1>3 DEF BackOk, r
<1>8. Grows
  BY <1>1, <1>5 DEF Grows
<1>9. QED
  BY <1>1, <1>2, <1>3, <1>4, <1>6, <1>7, <1>8, RunStep DEF r

LEMMA SkipUpdateStep ==
  ASSUME IInv, NEW d \in Direction, SkipUpdate(Account, d),
         UNCHANGED <<tip, stored, skipped, blind, emptied, faults>>
  PROVE  IInv'
<1> DEFINE r == RunOf(d)
<1>1. HistTypeOK /\ Paired(r.last) /\ Paired(r.prev) /\ tip \in Int
  BY Types
<1>2. r.phase = "fetched" /\ state' = state /\ saved' = saved /\ d = "forward"
  BY DEF SkipUpdate, InPhase, RunOf
<1> HIDE DEF r
<1>3. /\ JobType' /\ OnlyJob(Account, d)
      /\ RunOf(d)'.phase = "saving"
      /\ RunOf(d)'.last = r.last /\ RunOf(d)'.prev = r.prev
  BY <1>1, OneFetcher, SkipUpdateSteps DEF r, RunOf
<1>4. TypeOK'
  BY <1>2, <1>3 DEF IInv, TypeOK, HistTypeOK, JobType
<1>5. PageOk(d)'
  BY <1>3 DEF PageOk
<1>6. Grows
  BY <1>1 DEF Grows, Got
<1>7. QED
  BY <1>1, <1>2, <1>3, <1>4, <1>5, <1>6, RunStep DEF r

(* The page of a run, its place with respect to the cursors that the run has*)
(* read, and what a run leaves out.                                         *)
LEMMA UpdatingRun ==
  ASSUME IInv, NEW d \in Direction, InPhase(Account, d, "updating")
  PROVE  /\ RunOf(d) \in Run /\ tip \in Int /\ Paired(RunOf(d).last) /\ Paired(RunOf(d).prev)
         /\ RunOf(d).last.forward \in Int /\ RunOf(d).last.backward \in Int
         /\ RunOf(d).prev.forward \in Int /\ RunOf(d).prev.backward \in Int
         /\ Seen(RunOf(d).last) => RunOf(d).last.forward \in Nat /\ RunOf(d).last.backward \in Nat
         /\ Seen(RunOf(d).prev) => RunOf(d).prev.forward \in Nat /\ RunOf(d).prev.backward \in Nat
         /\ Whole(RunOf(d).prev)
         /\ Seen(RunOf(d).last) =>
              /\ RunOf(d).last.backward <= RunOf(d).last.forward /\ RunOf(d).last.forward <= tip
              /\ RunOf(d).last.backward..RunOf(d).last.forward \subseteq Got
<1> DEFINE r == RunOf(d)
<1>1. r \in Run /\ r.phase = "updating" /\ PageOk(d) /\ tip \in Int /\ Paired(r.last) /\ Paired(r.prev)
  BY Types DEF InPhase, RunOf, IInv, RunsInv
<1>2. ASSUME NEW c \in Cursors, Paired(c)
      PROVE  /\ c.forward \in Int /\ c.backward \in Int
             /\ Seen(c) => c.forward \in Nat /\ c.backward \in Nat
  <2>1. c.forward \in Cursor /\ c.backward \in Cursor
    BY DEF Cursors
  <2>2. QED
    BY <1>2, <2>1, LastAssumption DEF Paired, Seen, Cursor, Position, None
<1>3. r.last \in Cursors /\ r.prev \in Cursors
  BY <1>1 DEF Run
<1>4. QED
  BY <1>1, <1>2, <1>3 DEF PageOk

LEMMA LeftOutIs ==
  ASSUME IInv, NEW d \in Direction, InPhase(Account, d, "updating")
  PROVE  LET r == RunOf(d)
         IN /\ LeftOut(d) = IF /\ d = "forward" /\ Seen(r.last)
                               /\ Seen(r.prev) \/ state[Account].complete
                              THEN (r.prev.forward + 1)..(r.last.backward - 1) ELSE {}
            /\ Overtaken(d) = IF /\ d = "backward" /\ blind /\ Seen(r.prev)
                                 /\ Seen(r.last) \/ Complete(d)
                                THEN (r.last.forward + 1)..(r.prev.backward - 1) ELSE {}
            /\ LeftOut(d) \subseteq 0..tip /\ Overtaken(d) \subseteq 0..tip
<1> DEFINE r == RunOf(d)
<1>1. /\ tip \in Int /\ Paired(r.last) /\ Paired(r.prev) /\ Whole(r.prev) /\ r \in Run
      /\ r.last.forward \in Int /\ r.last.backward \in Int
      /\ r.prev.forward \in Int /\ r.prev.backward \in Int
      /\ Seen(r.last) => r.last.backward <= r.last.forward /\ r.last.forward <= tip
  BY UpdatingRun
<1>2. r.prev.forward >= None /\ r.last.forward >= None
  BY <1>1, LastAssumption DEF Run, Cursors, Cursor, Position, None
<1> HIDE DEF r
<1>3. (r.last.backward # None <=> Seen(r.last)) /\ (r.prev.backward # None <=> Seen(r.prev))
  BY <1>1 DEF Paired, Seen
<1>4. LeftOut(d) = IF d = "forward" /\ Seen(r.last) /\ (Seen(r.prev) \/ state[Account].complete)
                     THEN (r.prev.forward + 1)..(r.last.backward - 1) ELSE {}
  BY <1>3 DEF LeftOut, Seen, r
<1>5. Overtaken(d) = IF d = "backward" /\ blind /\ Seen(r.prev) /\ (Seen(r.last) \/ Complete(d))
                       THEN (r.last.forward + 1)..(r.prev.backward - 1) ELSE {}
  BY <1>3 DEF Overtaken, Seen, r
<1>6. LeftOut(d) \subseteq 0..tip
  BY <1>1, <1>2, <1>4 DEF None
<1>7. Overtaken(d) \subseteq 0..tip
  BY <1>1, <1>2, <1>5 DEF None, Whole
<1>8. QED
  BY <1>4, <1>5, <1>6, <1>7 DEF r

(* The cursors take in the page that the run fetched, and what it left out. *)
Put(d) ==
  LET r == RunOf(d)
      c == state'[Account].cursors
  IN /\ TypeOK' /\ PairedInv' /\ Grows /\ saved' = saved /\ tip' = tip
     /\ blind' = blind /\ emptied' = emptied
     /\ LeftOut(d) \subseteq Got' /\ Overtaken(d) \subseteq Got'
     /\ \A e \in Direction : e # d => RunOf(e)' = RunOf(e)
     /\ RunOf(d)'.phase = "saving"
     /\ state'[Account].complete = IF d = "backward" THEN Complete(d) ELSE state[Account].complete
     /\ ~Seen(r.last) => c.forward = r.prev.forward /\ c.backward = r.prev.backward
     /\ Seen(r.last) /\ ~Seen(r.prev) =>
          c.forward = r.last.forward /\ c.backward = r.last.backward
     /\ Seen(r.last) /\ Seen(r.prev) /\ d = "forward" =>
          c.forward = r.last.forward /\ c.backward = r.prev.backward
     /\ Seen(r.last) /\ Seen(r.prev) /\ d = "backward" =>
          c.forward = r.prev.forward /\ c.backward = r.last.backward

LEMMA PutIs ==
  ASSUME IInv, NEW d \in Direction, PutCursors(Account, d, Complete(d)),
         skipped' = skipped \cup LeftOut(d) \cup Overtaken(d),
         UNCHANGED <<tip, stored, blind, emptied, faults>>
  PROVE  InPhase(Account, d, "updating") /\ Put(d)
<1> DEFINE r == RunOf(d)
           c == state'[Account].cursors
           complete == Complete(d)
<1>1. HistTypeOK /\ PairedInv /\ tip \in Int
  BY Types DEF IInv
<1>2. complete \in BOOLEAN /\ PutCursors(Account, d, complete)
  BY OneFetcher DEF Complete, IInv, TypeOK, HistTypeOK, FetcherState
<1>3. InPhase(Account, d, "updating")
  BY DEF PutCursors
<1> HIDE DEF complete
<1>4. /\ HistTypeOK' /\ OnlyJob(Account, d) /\ saved' = saved
      /\ state'[Account].complete = IF d = "backward" THEN complete ELSE state[Account].complete
      /\ RunOf(d)'.phase = "saving"
      /\ RunOf(d)'.last = r.last /\ RunOf(d)'.prev = r.prev
      /\ Paired(c)
      /\ ~Seen(r.last) => c.forward = r.prev.forward /\ c.backward = r.prev.backward
      /\ Seen(r.last) /\ ~Seen(r.prev) =>
           c.forward = r.last.forward /\ c.backward = r.last.backward
      /\ Seen(r.last) /\ Seen(r.prev) /\ d = "forward" =>
           c.forward = r.last.forward /\ c.backward = r.prev.backward
      /\ Seen(r.last) /\ Seen(r.prev) /\ d = "backward" =>
           c.forward = r.prev.forward /\ c.backward = r.last.backward
  BY <1>1, <1>2, OneFetcher, PutCursorsSteps DEF RunOf
<1>5. \A e \in Direction : e # d => RunOf(e)' = RunOf(e)
  BY <1>4, OneFetcher DEF OnlyJob, RunOf
<1>6. Got \subseteq Got' /\ LeftOut(d) \subseteq Got' /\ Overtaken(d) \subseteq Got'
  BY DEF Got
<1>7. TypeOK'
  BY <1>3, <1>4, LeftOutIs DEF IInv, TypeOK
<1>8. PairedInv'
  <2>1. \A e \in Direction : Paired(RunOf(e).last)' /\ Paired(RunOf(e).prev)'
    BY <1>1, <1>4, <1>5, OneFetcher DEF PairedInv, RunOf
  <2>2. QED
    BY <1>1, <1>4, <2>1, OneFetcher DEF PairedInv, RunOf
<1>9. Grows
  BY <1>1, <1>6 DEF Grows
<1> HIDE DEF r, c
<1>10. QED
  BY <1>3, <1>4, <1>5, <1>6, <1>7, <1>8, <1>9 DEF Put, r, c, complete

(* Nothing is missing between the cursors that are put.                     *)
LEMMA PutWhole ==
  ASSUME IInv, NEW d \in Direction, InPhase(Account, d, "updating"), Put(d)
  PROVE  Whole(CursorsNow)'
<1> DEFINE r == RunOf(d)
           c == CursorsNow'
<1>1. /\ tip \in Int /\ Paired(r.last) /\ Paired(r.prev)
      /\ r.last.forward \in Int /\ r.last.backward \in Int
      /\ r.prev.forward \in Int /\ r.prev.backward \in Int
      /\ Seen(r.last) => /\ r.last.backward <= r.last.forward /\ r.last.forward <= tip
                         /\ r.last.backward..r.last.forward \subseteq Got
      /\ Seen(r.prev) => /\ r.prev.backward <= tip /\ r.prev.forward <= tip
                         /\ r.prev.backward..r.prev.forward \subseteq Got
  BY UpdatingRun DEF Whole
<1>2. /\ ~Seen(r.last) => c.forward = r.prev.forward /\ c.backward = r.prev.backward
      /\ Seen(r.last) /\ ~Seen(r.prev) =>
           c.forward = r.last.forward /\ c.backward = r.last.backward
      /\ Seen(r.last) /\ Seen(r.prev) /\ d = "forward" =>
           c.forward = r.last.forward /\ c.backward = r.prev.backward
      /\ Seen(r.last) /\ Seen(r.prev) /\ d = "backward" =>
           c.forward = r.prev.forward /\ c.backward = r.last.backward
      /\ Got \subseteq Got' /\ LeftOut(d) \subseteq Got' /\ Overtaken(d) \subseteq Got'
      /\ tip' = tip
  BY DEF Put, CursorsNow, Grows
<1>3. d = "forward" /\ Seen(r.last) /\ Seen(r.prev) =>
        (r.prev.forward + 1)..(r.last.backward - 1) \subseteq Got'
  BY <1>2, LeftOutIs
<1>4. d = "backward" /\ Seen(r.last) /\ Seen(r.prev) =>
        (r.last.forward + 1)..(r.prev.backward - 1) \subseteq Got'
  <2>1. CASE blind
    BY <2>1, <1>2, LeftOutIs
  <2>2. CASE ~blind
    <3>1. d = "backward" /\ Seen(r.last) => r.last.forward = r.prev.backward - 1
      BY <2>2 DEF IInv, BackOk, Base, InPhase, RunOf
    <3>2. QED
      BY <3>1, <1>1
  <2>3. QED
    BY <2>1, <2>2
<1> HIDE DEF r, c
<1>5. CASE ~Seen(r.last)
  BY <1>5, <1>1, <1>2 DEF Whole, Seen, c
<1>6. CASE Seen(r.last) /\ ~Seen(r.prev)
  BY <1>6, <1>1, <1>2 DEF Whole, Seen, c
<1>7. CASE Seen(r.last) /\ Seen(r.prev) /\ d = "forward"
  <2>1. c.backward..c.forward \subseteq Got'
    BY <1>7, <1>1, <1>2, <1>3
  <2>2. QED
    BY <1>7, <2>1, <1>1, <1>2 DEF Whole, c
<1>8. CASE Seen(r.last) /\ Seen(r.prev) /\ d = "backward"
  <2>1. c.backward..c.forward \subseteq Got'
    BY <1>8, <1>1, <1>2, <1>4
  <2>2. QED
    BY <1>8, <2>1, <1>1, <1>2 DEF Whole, c
<1>9. QED
  BY <1>5, <1>6, <1>7, <1>8, OneFetcher

(* When a backward run completes the history, it is whole below the cursors *)
(* that the run has read.                                                   *)
LEMMA CompletesWhole ==
  ASSUME IInv, NEW d \in Direction, InPhase(Account, d, "updating"), Put(d), Complete(d), ~emptied
  PROVE  ~Seen(RunOf(d).last) /\ 0..RunOf(d).prev.forward \subseteq Got'
<1> DEFINE r == RunOf(d)
<1>1. /\ Paired(r.last) /\ Paired(r.prev)
      /\ r.prev.forward \in Int /\ r.prev.backward \in Int
      /\ Seen(r.prev) => r.prev.backward..r.prev.forward \subseteq Got
  BY UpdatingRun DEF Whole
<1>2. d = "backward" /\ ~r.error /\ ~Seen(r.last) /\ state[Account].historic
  BY <1>1 DEF Complete, NewItems, Paired, Seen
<1>3. Got \subseteq Got' /\ Overtaken(d) \subseteq Got'
  BY DEF Put, Grows
<1>4. CASE blind /\ Seen(r.prev)
  <2>1. (r.last.forward + 1)..(r.prev.backward - 1) \subseteq Got' /\ r.last.forward = None
    BY <1>2, <1>3, <1>4, LeftOutIs DEF Seen
  <2> HIDE DEF r
  <2>2. QED
    BY <2>1, <1>1, <1>2, <1>3, <1>4 DEF None, r
<1>5. CASE blind /\ ~Seen(r.prev)
  BY <1>2, <1>5 DEF Seen, None
<1>6. CASE ~blind
  <2>1. Seen(r.prev) /\ r.prev.backward = 0
    BY <1>2, <1>6 DEF IInv, BackOk, Base, InPhase, RunOf
  <2>2. QED
    BY <2>1, <1>1, <1>2, <1>3
<1>7. QED
  BY <1>4, <1>5, <1>6 DEF IInv, TypeOK

LEMMA PutComplete ==
  ASSUME IInv, NEW d \in Direction, InPhase(Account, d, "updating"), Put(d),
         state'[Account].complete, ~emptied
  PROVE  0..CursorsNow'.forward \subseteq Got'
<1> DEFINE r == RunOf(d)
           c == CursorsNow'
<1>1. /\ r.last.forward \in Int /\ r.last.backward \in Int /\ r.prev.forward \in Int
      /\ Seen(r.last) => r.last.backward..r.last.forward \subseteq Got
  BY UpdatingRun
<1>2. /\ state'[Account].complete = IF d = "backward" THEN Complete(d) ELSE state[Account].complete
      /\ ~Seen(r.last) => c.forward = r.prev.forward
      /\ Seen(r.last) /\ d = "forward" => c.forward = r.last.forward
      /\ Got \subseteq Got' /\ LeftOut(d) \subseteq Got'
  BY DEF Put, CursorsNow, Grows
<1>3. CASE d = "backward"
  <2>1. ~Seen(r.last) /\ 0..r.prev.forward \subseteq Got'
    BY <1>2, <1>3, CompletesWhole
  <2>2. QED
    BY <2>1, <1>2
<1>4. CASE d = "forward"
  <2>1. state[Account].complete
    BY <1>2, <1>4
  <2>2. 0..r.prev.forward \subseteq Got
    BY <2>1, <1>4 DEF IInv, ReadInv
  <2>3. CASE ~Seen(r.last)
    BY <2>2, <2>3, <1>2
  <2>4. CASE Seen(r.last)
    <3>1. (r.prev.forward + 1)..(r.last.backward - 1) \subseteq Got'
      BY <2>1, <2>4, <1>2, <1>4, LeftOutIs
    <3>2. c.forward = r.last.forward
      BY <2>4, <1>2, <1>4
    <3> HIDE DEF r, c
    <3>3. 0..r.last.forward \subseteq Got'
      BY <2>2, <2>4, <3>1, <1>1, <1>2
    <3>4. QED
      BY <3>2, <3>3 DEF c
  <2>5. QED
    BY <2>3, <2>4
<1>5. QED
  BY <1>3, <1>4, OneFetcher

LEMMA PutCursorsStep ==
  ASSUME IInv, NEW d \in Direction, PutCursors(Account, d, Complete(d)),
         skipped' = skipped \cup LeftOut(d) \cup Overtaken(d),
         UNCHANGED <<tip, stored, blind, emptied, faults>>
  PROVE  IInv'
<1> DEFINE r == RunOf(d)
<1>1. InPhase(Account, d, "updating") /\ Put(d)
  BY PutIs
<1>2. /\ TypeOK' /\ PairedInv' /\ Grows /\ saved' = saved
      /\ blind' = blind /\ emptied' = emptied
      /\ \A e \in Direction : e # d => RunOf(e)' = RunOf(e)
      /\ RunOf(d)'.phase = "saving" /\ r.phase = "updating"
      /\ state'[Account].complete = IF d = "backward" THEN Complete(d) ELSE state[Account].complete
      /\ Seen(r.prev) /\ d = "forward" =>
           Seen(CursorsNow') /\ CursorsNow'.backward = r.prev.backward
  <2>1. /\ TypeOK' /\ PairedInv' /\ Grows /\ saved' = saved
        /\ blind' = blind /\ emptied' = emptied
        /\ \A e \in Direction : e # d => RunOf(e)' = RunOf(e)
        /\ RunOf(d)'.phase = "saving" /\ r.phase = "updating"
        /\ state'[Account].complete = IF d = "backward" THEN Complete(d) ELSE state[Account].complete
    BY <1>1 DEF Put, InPhase, RunOf
  <2>2. CASE Seen(r.last)
    BY <1>1, <2>1, <2>2 DEF Put, CursorsNow, Seen
  <2>3. CASE ~Seen(r.last)
    BY <1>1, <2>1, <2>3 DEF Put, CursorsNow, Seen
  <2>4. QED
    BY <2>1, <2>2, <2>3
<1>3. RangeInv'
  <2>1. saved'[Account] = saved[Account] /\ saved[Account].cursors \in Cursors /\ tip \in Int
    BY <1>2, Types, OneFetcher DEF HistTypeOK, FetcherState
  <2>2. Whole(saved[Account].cursors)'
    BY <2>1, <1>2, StaysWhole DEF IInv, RangeInv
  <2>3. saved[Account].complete /\ ~emptied' => 0..saved[Account].cursors.forward \subseteq Got'
    BY <1>2 DEF IInv, RangeInv, Grows
  <2>4. Whole(state[Account].cursors)'
    BY <1>1, PutWhole DEF CursorsNow
  <2>5. state'[Account].complete /\ ~emptied' => 0..state'[Account].cursors.forward \subseteq Got'
    BY <1>1, <1>2, PutComplete DEF CursorsNow
  <2>6. QED
    BY <2>1, <2>2, <2>3, <2>4, <2>5 DEF RangeInv
<1>4. RunsInv'
  <2>1. PageOk(d)'
    BY <1>2 DEF PageOk
  <2>2. QED
    BY <2>1, <1>2, StaysPageOk DEF RunsInv
<1>5. BackOk'
  <2>1. CASE d = "backward"
    BY <2>1, <1>2 DEF BackOk
  <2>2. CASE d = "forward"
    <3> DEFINE b == RunOf("backward")
    <3>1. b' = b /\ BackOk
      BY <2>2, <1>2, OneFetcher DEF IInv
    <3>2. state'[Account].historic => state[Account].historic
      BY <2>2, OneFetcher DEF PutCursors, Swap, HistTypeOK, IInv, TypeOK
    <3>3. CASE b.phase = "updating"
      <4>1. Base("backward")' = Base("backward")
        BY <3>1, <3>3 DEF Base, InPhase, RunOf
      <4>2. QED
        BY <3>1, <3>3, <3>2, <4>1, <1>2 DEF BackOk
    <3>4. CASE b.phase \in {"fetching", "fetched"} /\ ~blind
      <4>1. r.prev = CursorsNow
        BY <2>2, <3>4, <1>1, OneFetcher DEF IInv, ReadInv, InPhase, RunOf
      <4>2. Base("backward") = CursorsNow /\ Base("backward")' = CursorsNow'
        BY <3>1, <3>4 DEF Base, InPhase, RunOf
      <4>3. Seen(CursorsNow)
        BY <3>1, <3>4, <4>2 DEF BackOk
      <4>4. Seen(CursorsNow') /\ CursorsNow'.backward = CursorsNow.backward
        BY <2>2, <4>1, <4>3, <1>2
      <4>5. QED
        BY <3>1, <3>4, <3>2, <4>2, <4>3, <4>4, <1>2 DEF BackOk
    <3>5. CASE b.phase \notin {"fetching", "fetched", "updating"}
      BY <3>1, <3>5, <1>2 DEF BackOk
    <3>6. CASE blind
      <4>1. b.phase = "fetching" => b.from = 0
        BY <3>1 DEF BackOk
      <4>2. QED
        BY <3>1, <3>6, <4>1, <1>2 DEF BackOk
    <3>7. QED
      BY <3>3, <3>4, <3>5, <3>6
  <2>3. QED
    BY <2>1, <2>2, OneFetcher
<1>6. ReadInv'
  <2>1. ASSUME NEW x \in Direction, NEW y \in Direction, x # y,
               InPhase(Account, x, "updating")', ~InPhase(Account, y, "saving")'
        PROVE  RunOf(x)'.prev = CursorsNow'
    <3>1. x = d \/ y = d
      BY <2>1, OneFetcher
    <3>2. QED
      BY <2>1, <3>1, <1>2 DEF InPhase, RunOf
  <2>2. ASSUME InPhase(Account, "forward", "updating")', state'[Account].complete, ~emptied'
        PROVE  0..RunOf("forward")'.prev.forward \subseteq Got'
    <3>1. d = "backward"
      BY <2>2, <1>2, OneFetcher DEF InPhase, RunOf
    <3>2. RunOf("forward")' = RunOf("forward") /\ InPhase(Account, "forward", "updating")
      BY <2>2, <3>1, <1>2, OneFetcher DEF InPhase, RunOf
    <3>3. RunOf("forward").prev = CursorsNow /\ r.prev = CursorsNow
      BY <3>1, <3>2, <1>1, OneFetcher DEF IInv, ReadInv, InPhase
    <3>4. Complete(d)
      BY <2>2, <3>1, <1>2
    <3>5. 0..r.prev.forward \subseteq Got'
      BY <2>2, <3>4, <1>1, <1>2, CompletesWhole
    <3>6. QED
      BY <3>2, <3>3, <3>5
  <2>3. QED
    BY <2>1, <2>2 DEF ReadInv
<1>7. QED
  BY <1>2, <1>3, <1>4, <1>5, <1>6 DEF IInv

LEMMA SaveStateStep ==
  ASSUME IInv, NEW d \in Direction, SaveState(Account, d), NoneUpdates,
         UNCHANGED <<tip, stored, skipped, blind, emptied, faults>>
  PROVE  IInv'
<1>1. HistTypeOK /\ tip \in Int
  BY Types
<1>2. /\ HistTypeOK' /\ state' = state /\ RunOf(d).phase = "saving"
      /\ saved'[Account] = state[Account]
      /\ RunOf(d)' \in {NoRun, Due}
      /\ \A e \in Direction : e # d => RunOf(e)' = RunOf(e) \/ RunOf(e)' = Due
  BY <1>1, OneFetcher, SaveStateSteps DEF RunOf
<1>3. Grows /\ Got' = Got
  BY <1>1 DEF Grows, Got
<1>4. TypeOK'
  BY <1>2 DEF IInv, TypeOK
<1>5. RangeInv'
  BY <1>2, <1>3, StaysRangeInv
<1>6. \A e \in Direction : RunOf(e)' \in {NoRun, Due} \/ RunOf(e)' = RunOf(e)
  BY <1>2
<1>7. PairedInv'
  <2>1. \A e \in Direction : Paired(RunOf(e).last)' /\ Paired(RunOf(e).prev)'
    BY <1>6, NoRunType, Types
  <2>2. QED
    BY <1>2, <2>1, OneFetcher DEF IInv, PairedInv, RunOf
<1>8. \A e \in Direction : RunOf(e)'.phase # "updating"
  BY <1>6, NoRunType DEF NoneUpdates, InPhase, RunOf
<1>9. RunsInv'
  <2>1. ASSUME NEW e \in Direction, RunOf(e)' \in {NoRun, Due}
        PROVE  PageOk(e)'
    BY <2>1, NoRunType DEF PageOk
  <2>2. QED
    BY <2>1, <1>3, <1>6, StaysPageOk DEF RunsInv
<1>10. BackOk'
  <2>1. CASE RunOf("backward")' \in {NoRun, Due}
    BY <2>1, NoRunType DEF BackOk
  <2>2. CASE RunOf("backward")' = RunOf("backward")
    <3>1. Base("backward")' = Base("backward")
      BY <2>2, <1>2 DEF Base, CursorsNow, InPhase, RunOf
    <3>2. BackOk
      BY DEF IInv
    <3>3. QED
      BY <2>2, <3>1, <3>2, <1>2 DEF BackOk
  <2>3. QED
    BY <1>6, <2>1, <2>2, OneFetcher
<1>11. ReadInv'
  BY <1>8, OneFetcher DEF ReadInv, InPhase, RunOf
<1>12. QED
  BY <1>4, <1>5, <1>7, <1>9, <1>10, <1>11 DEF IInv

LEMMA NewSignatureStep ==
  ASSUME IInv, NewSignature
  PROVE  IInv'
<1>1. /\ tip' = tip + 1 /\ tip < Last
      /\ state' = state /\ saved' = saved /\ job' = job
      /\ stored' = stored /\ skipped' = skipped /\ blind' = blind
      /\ emptied' = emptied /\ faults' = faults
  BY DEF NewSignature, histVars
<1>2. tip' \in Cursor /\ tip <= tip' /\ tip' \in Int /\ tip \in Int
  BY <1>1, Types DEF Cursor, Position, None
<1>3. Grows /\ Got' = Got
  BY <1>1, <1>2 DEF Grows, Got
<1>4. TypeOK'
  BY <1>1, <1>2 DEF IInv, TypeOK, HistTypeOK
<1>5. PairedInv'
  BY <1>1 DEF IInv, PairedInv
<1>6. RangeInv'
  BY <1>1, <1>3, StaysRangeInv
<1>7. RunsInv'
  BY <1>1, <1>3, StaysPageOk DEF RunsInv, RunOf
<1>8. BackOk' /\ ReadInv'
  BY <1>1, <1>3 DEF IInv, BackOk, ReadInv, Base, InPhase, RunOf, CursorsNow
<1>9. QED
  BY <1>4, <1>5, <1>6, <1>7, <1>8 DEF IInv

(* The forward job starts, whatever the backward job does.                  *)
LEMMA StartStep ==
  ASSUME IInv, StartRun(Account),
         UNCHANGED <<tip, stored, skipped, blind, emptied>>, faults' \in 0..MaxFaults
  PROVE  IInv'
<1>1. state' = state /\ saved' = saved /\ HistTypeOK /\ tip \in Int
  BY Types DEF StartRun
<1>2. /\ JobType' /\ OnlyJob(Account, "forward") /\ RunOf("forward")' = Due
      /\ RunOf("forward").phase = "off"
  BY <1>1, OneFetcher, StartRunSteps DEF InPhase, RunOf
<1>3. TypeOK'
  BY <1>1, <1>2 DEF IInv, TypeOK, HistTypeOK, JobType
<1>4. Grows
  BY <1>1 DEF Grows, Got
<1>5. PageOk("forward")'
  BY <1>2, NoRunType DEF PageOk
<1>6. QED
  BY <1>1, <1>2, <1>3, <1>4, <1>5, NoRunType, OneFetcher, RunStep

LEMMA StartsStep ==
  ASSUME IInv, Start \/ StartBeside
  PROVE  IInv'
<1>1. StartRun(Account) /\ UNCHANGED <<tip, stored, skipped, blind, emptied>>
  BY DEF Start, StartBeside
<1>2. faults' \in 0..MaxFaults
  BY FaultAssumption DEF Start, StartBeside, Fault, IInv, TypeOK
<1>3. QED
  BY <1>1, <1>2, StartStep

LEMMA RestartStep ==
  ASSUME IInv, Restart
  PROVE  IInv'
<1>1. /\ HistRestart /\ HistTypeOK /\ tip \in Int
      /\ tip' = tip /\ stored' = stored /\ skipped' = skipped /\ blind' = FALSE
      /\ emptied' = emptied
  BY Types DEF Restart
<1>2. faults' \in 0..MaxFaults
  BY FaultAssumption DEF Restart, Fault, IInv, TypeOK
<1>3. /\ HistTypeOK' /\ state' = saved /\ saved' = saved
      /\ \A f \in Fetcher, d \in Direction : job'[f][d] = NoRun
  BY <1>1, RestartSteps
<1>4. \A d \in Direction : RunOf(d)' = NoRun
  BY <1>3, OneFetcher DEF RunOf
<1>5. TypeOK'
  BY <1>1, <1>2, <1>3 DEF IInv, TypeOK
<1>6. PairedInv'
  BY <1>3, NoRunType DEF IInv, PairedInv
<1>7. RangeInv'
  <2>1. Grows
    BY <1>1 DEF Grows, Got
  <2>2. QED
    BY <2>1, <1>3, StaysRangeInv
<1>8. RunsInv'
  BY <1>4, NoRunType DEF RunsInv, PageOk
<1>9. BackOk' /\ ReadInv'
  BY <1>4, NoRunType, OneFetcher DEF BackOk, ReadInv, InPhase, RunOf
<1>10. QED
  BY <1>5, <1>6, <1>7, <1>8, <1>9 DEF IInv
-----------------------------------------------------------------------------
LEMMA InitInv ==
  ASSUME Init
  PROVE  IInv
<1>1. /\ state[Account].cursors = NoCursors /\ ~state[Account].complete /\ saved = state
      /\ \A d \in Direction : RunOf(d) = NoRun
  BY OneFetcher DEF Init, HistInit, RunOf
<1>2. NoCursors \in Cursors
  BY DEF NoCursors, Cursors, Cursor
<1>3. HistTypeOK
  BY <1>2, NoRunType, AllHistoricAssumption DEF Init, HistInit, HistTypeOK, FetcherState
<1>4. TypeOK
  <2>1. tip \in Cursor
    BY DEF Init
  <2>2. stored \subseteq (0..tip) \ Failing /\ skipped \subseteq 0..tip
    BY DEF Init
  <2>3. blind \in BOOLEAN /\ emptied \in BOOLEAN
    BY DEF Init
  <2>4. faults \in 0..MaxFaults
    BY FaultAssumption DEF Init
  <2>5. QED
    BY <1>3, <2>1, <2>2, <2>3, <2>4 DEF TypeOK
<1>5. PairedInv /\ RangeInv
  BY <1>1, NoRunType, OneFetcher DEF PairedInv, RangeInv, Whole, RunOf
<1>6. RunsInv
  BY <1>1, NoRunType DEF RunsInv, PageOk
<1>7. BackOk /\ ReadInv
  BY <1>1, NoRunType, OneFetcher DEF BackOk, ReadInv, InPhase, RunOf
<1>8. QED
  BY <1>4, <1>5, <1>6, <1>7 DEF IInv

LEMMA NextInv ==
  ASSUME IInv, Next
  PROVE  IInv'
<1>1. CASE BeginRun
  <2>1. OnlyJobs
    BY <1>1 DEF BeginRun, OnlyJobs
  <2>2. \/ FetchForward /\ blind' = blind
        \/ FetchBackward /\ blind' = (CursorsNow.backward = None)
    BY <1>1 DEF BeginRun
  <2>3. QED
    BY <2>1, <2>2, FetchForwardStep, FetchBackwardStep
<1>2. ASSUME NEW d \in Direction, Update(d)
      PROVE  IInv'
  <2>1. UNCHANGED <<tip, stored, blind, emptied, faults>>
    BY <1>2 DEF Update
  <2>2. CASE /\ PutCursors(Account, d, Complete(d))
             /\ skipped' = skipped \cup LeftOut(d) \cup Overtaken(d)
    BY <2>1, <2>2, PutCursorsStep
  <2>3. CASE skipped' = skipped /\ TakeCursors(Account, d)
    <3>1. faults' \in 0..MaxFaults
      BY <2>1 DEF IInv, TypeOK
    <3>2. QED
      BY <2>1, <2>3, <3>1, TakeCursorsStep
  <2>4. CASE skipped' = skipped /\ SkipUpdate(Account, d)
    BY <2>1, <2>4, SkipUpdateStep
  <2>5. CASE skipped' = skipped /\ SaveState(Account, d) /\ NoneUpdates
    BY <2>1, <2>5, SaveStateStep
  <2>6. QED
    BY <1>2, <2>2, <2>3, <2>4, <2>5 DEF Update
<1>3. ASSUME NEW d \in Direction, UpdatesOverlap(d)
      PROVE  IInv'
  <2>1. TakeCursors(Account, d) /\ UNCHANGED <<tip, stored, skipped, blind, emptied>>
    BY <1>3 DEF UpdatesOverlap
  <2>2. faults' \in 0..MaxFaults
    BY <1>3, FaultAssumption DEF UpdatesOverlap, Fault, IInv, TypeOK
  <2>3. QED
    BY <2>1, <2>2, TakeCursorsStep
<1>4. ASSUME NEW d \in Direction, FetchPage(d) \/ EmptyAnswer(d) \/ PageFails(d)
      PROVE  IInv'
  BY <1>4, FetchPageStep, EmptyAnswerStep, PageFailsStep
<1>5. QED
  BY <1>1, <1>2, <1>3, <1>4, NewSignatureStep, StartsStep, RestartStep DEF Next

LEMMA StutterInv ==
  ASSUME IInv, UNCHANGED vars
  PROVE  IInv'
BY DEF vars, histVars, IInv, TypeOK, HistTypeOK, PairedInv, RangeInv, Whole, RunsInv, PageOk,
       BackOk, ReadInv, Base, InPhase, RunOf, CursorsNow, Got

(* The invariant that the others follow from: what lies between the cursors *)
(* is there, a backward run's page borders on the backward cursor unless it *)
(* began when there was none, and a run's cursors are stale only when the   *)
(* other job has put its own since.                                         *)
THEOREM Inductive == Spec => []IInv
<1>1. Init => IInv
  BY InitInv
<1>2. IInv /\ [Next]_vars => IInv'
  BY NextInv, StutterInv
<1>3. QED
  BY <1>1, <1>2, PTL DEF Spec

(* Every variable keeps its type, and no transaction that failed is stored. *)
THEOREM TypeCorrect == Spec => []TypeOK
<1>1. IInv => TypeOK
  BY DEF IInv
<1>2. QED
  BY <1>1, Inductive, PTL

(* What is offered by date: the signatures of a slot below that of the      *)
(* forward cursor are older than it, and those of a slot above that of the  *)
(* backward cursor are newer.                                               *)
LEMMA AvailableLemma ==
  ASSUME IInv
  PROVE  AvailableIsStored
<1> DEFINE c == saved[Account].cursors
           complete == saved[Account].complete
<1>1. SUFFICES ASSUME c.forward # None, ~(emptied /\ complete), NEW i \in 0..tip,
                      SlotOf[i] >= FirstSlot(c, complete), SlotOf[i] < SlotOf[c.forward]
               PROVE  i \in Got
  BY DEF AvailableIsStored
<1>2. /\ c.backward..c.forward \subseteq Got
      /\ complete /\ ~emptied => 0..c.forward \subseteq Got
  BY <1>1 DEF IInv, RangeInv, Whole, Seen
<1>3. c.forward \in Position /\ c.backward \in Position
  <2>1. c \in Cursors /\ Paired(c)
    BY OneFetcher DEF IInv, TypeOK, HistTypeOK, FetcherState, PairedInv
  <2>2. QED
    BY <2>1, <1>1 DEF Cursors, Paired, Cursor
<1>4. tip \in Int /\ tip <= Last /\ Last \in Nat /\ i \in Position
  BY Types DEF Position
<1>5. /\ SlotOf[i] \in Nat /\ SlotOf[c.forward] \in Nat /\ SlotOf[c.backward] \in Nat
      /\ \A j, k \in Position : j < k => SlotOf[j] <= SlotOf[k]
  BY <1>3, <1>4, SlotAssumption
<1> HIDE DEF c, complete
<1>6. i < c.forward
  <2>1. c.forward < i => SlotOf[c.forward] <= SlotOf[i]
    BY <1>3, <1>4, <1>5
  <2>2. i # c.forward /\ ~(c.forward < i)
    BY <2>1, <1>1, <1>5
  <2>3. i \in Int /\ c.forward \in Int
    BY <1>3, <1>4 DEF Position
  <2>4. QED
    BY <2>2, <2>3
<1>7. CASE complete
  <2>1. 0..c.forward \subseteq Got
    BY <1>1, <1>2, <1>7
  <2>2. QED
    BY <2>1, <1>3, <1>4, <1>6 DEF Position
<1>8. CASE ~complete
  <2>1. SlotOf[i] > SlotOf[c.backward]
    BY <1>1, <1>5, <1>8 DEF FirstSlot
  <2>2. i < c.backward => SlotOf[i] <= SlotOf[c.backward]
    BY <1>3, <1>4, <1>5
  <2>3. ~(i < c.backward)
    BY <2>1, <2>2, <1>5
  <2>4. i \in c.backward..c.forward
    BY <2>3, <1>3, <1>4, <1>6 DEF Position
  <2>5. QED
    BY <2>4, <1>2
<1>9. QED
  BY <1>7, <1>8

(* Between the cursors of the account nothing is missing but what a limited *)
(* forward run, or a backward run that began without cursors, passed over,  *)
(* nor in the slots that its state offers: however the runs of both jobs,   *)
(* failures, empty answers, restarts and new signatures interleave.         *)
THEOREM RangeIsAlwaysStored == Spec => []RangeIsStored
<1>1. IInv => RangeIsStored
  BY AvailableLemma DEF IInv, RangeIsStored, RangeInv, Whole, Seen
<1>2. QED
  BY <1>1, Inductive, PTL

(* A history is called complete only when it is known down to its first     *)
(* signature, unless a node has answered with nothing though it had more.   *)
THEOREM CompleteIsAlwaysWhole == Spec => []CompleteIsWhole
<1>1. IInv => CompleteIsWhole
  BY DEF IInv, RangeInv, CompleteIsWhole
<1>2. QED
  BY <1>1, Inductive, PTL
=============================================================================
