------------------------------ MODULE RateLimits -------------------------------
(***************************************************************************)
(* The rate limits of core, which the connections to Solana's nodes wait    *)
(* for: what each keeps, and when a client that asks for several requests   *)
(* is granted them. Requests wait in a queue, the lock of the client; the   *)
(* first checks the limits, sleeps as long as they say, and checks again.   *)
(* A clock tick is a millisecond; the clock is never 0.                     *)
(***************************************************************************)
EXTENDS Naturals, Sequences, SequencesExt

Larger(m, n) == IF m > n THEN m ELSE n
Smaller(m, n) == IF m < n THEN m ELSE n
Less(m, n) == Larger(m, n) - n

NoRequests ==
  [sparse |-> [weight |-> 0, refill |-> 0],
   accurate |-> [weight |-> 0, completed |-> <<>>], pending |-> 0]

(* The interval of the sparse limit: one unit of weight a time. "interval"  *)
(* is a multiple of "limit", which makes the code's rounding exact.         *)
Sparse(conf) == conf.interval \div conf.limit

(* SparseRateLimit._updateState                                             *)
SparseUpdate(conf, s, now) ==
  LET elapsed == now - s.refill
      refilled == elapsed \div Sparse(conf)
      left == Less(s.weight, refilled)
  IN  IF s.refill = 0 THEN s
      ELSE [weight |-> left,
            refill |-> IF elapsed > conf.interval /\ left = 0 THEN 0
                       ELSE s.refill + refilled * Sparse(conf)]

SparseNextTry(conf, s, now) ==
  IF s.refill = 0 THEN 0 ELSE Less(s.weight * Sparse(conf), now - s.refill)

WeightOf(items) == FoldLeft(LAMBDA w, item : w + item.weight, 0, items)

(* AccurateRateLimit.update: what was completed an interval ago no longer   *)
(* counts. Completed requests are kept in the order of their times.         *)
AccurateUpdate(conf, s, now) ==
  LET recent == SelectSeq(s.completed, LAMBDA item : item.id + conf.interval > now)
  IN  IF s.weight = 0 THEN s
      ELSE [weight |-> s.weight - (WeightOf(s.completed) - WeightOf(recent)), completed |-> recent]

(* The time of the completed request that frees enough weight, or of the    *)
(* last one there is.                                                       *)
AccurateNextTry(conf, s, now, weight) ==
  LET needed == Less(weight, Less(conf.limit, s.weight))
      freed(n) == WeightOf(SubSeq(s.completed, 1, n - 1))
      looked == {n \in DOMAIN s.completed : freed(n) < needed}
      waits == {s.completed[n].id + conf.interval - now :
                  n \in {m \in looked : s.completed[m].id + conf.interval > now}}
  IN  IF waits = {} THEN 0 ELSE CHOOSE t \in waits : \A u \in waits : u <= t

(* Mutant: a request that ended no longer counts.                           *)
CompletedAndGone(s, now, weight) == [s EXCEPT !.weight = Less(@, weight)]

(* A completed request counts from the time it was granted, or from right   *)
(* after the one completed before it.                                       *)
Completed(s, now, weight) ==
  LET last == IF s.completed = <<>> THEN 0 ELSE s.completed[Len(s.completed)].id
  IN  [s EXCEPT !.completed = Append(@, [id |-> Larger(now, last + 1), weight |-> weight])]

(* ComposeRateLimit.check: a limit that refuses keeps those after it from   *)
(* being updated.                                                           *)
Check(conf, l, now, weight) ==
  LET sparse == IF conf.sparse THEN SparseUpdate(conf, l.sparse, now) ELSE l.sparse
      spaced == sparse.weight = 0
      accurate == IF spaced THEN AccurateUpdate(conf, l.accurate, now) ELSE l.accurate
  IN  [limits |-> [l EXCEPT !.sparse = sparse, !.accurate = accurate],
       passed |-> /\ spaced
                  /\ accurate.weight + weight <= conf.limit
                  /\ l.pending < conf.maxConcurrence]

NextTry(conf, l, now, weight) ==
  Larger(SparseNextTry(conf, l.sparse, now), AccurateNextTry(conf, l.accurate, now, weight))

AddWeight(conf, l, weight) ==
  [l EXCEPT !.sparse.weight = IF conf.sparse THEN @ + weight ELSE @,
            !.accurate.weight = @ + weight, !.pending = @ + 1]

SubWeight(l, now, weight) ==
  [l EXCEPT !.sparse.refill = IF @ = 0 THEN now ELSE @,
            !.accurate = Completed(@, now, weight), !.pending = @ - 1]

(* The requests that end by now are released, in the order they end.        *)
Release(c, now) ==
  LET due == SortSeq(SelectSeq(c.running, LAMBDA r : r.until <= now),
                     LAMBDA r, s : r.until < s.until)
  IN  [c EXCEPT !.limits = FoldLeft(LAMBDA l, r : SubWeight(l, r.at, r.weight), @, due),
                !.running = SelectSeq(@, LAMBDA r : r.until > now)]

(* RateLimitClient.acquire, "tries" checks at most: the sleep of 0 is one   *)
(* of a millisecond.                                                        *)
RECURSIVE Acquire(_, _, _, _)
Acquire(conf, client, request, tries) ==
  LET c == Release(client, client.now)
      check == Check(conf, c.limits, c.now, request.weight)
      granted == [at |-> c.now, until |-> c.now + request.takes, weight |-> request.weight]
      sleep == Larger(1, NextTry(conf, check.limits, c.now, request.weight))
  IN  IF check.passed
        THEN [c EXCEPT !.limits = AddWeight(conf, check.limits, request.weight),
                       !.running = Append(@, granted), !.granted = Append(@, granted)]
      ELSE IF tries = 0 THEN c
      ELSE Acquire(conf, [c EXCEPT !.limits = check.limits, !.now = @ + sleep], request, tries - 1)

(* What is granted to requests that come one after another.                 *)
Grants(conf, requests, tries) ==
  LET arrive(c, request) ==
        [c EXCEPT !.arrived = @ + request.gap, !.now = Larger(@, c.arrived + request.gap)]
      first == [limits |-> NoRequests, running |-> <<>>, granted |-> <<>>, arrived |-> 1, now |-> 1]
  IN  FoldLeft(LAMBDA c, request : Acquire(conf, arrive(c, request), request, tries),
               first, requests).granted
================================================================================
