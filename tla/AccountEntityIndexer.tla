------------------------- MODULE AccountEntityIndexer -------------------------
(***************************************************************************)
(* BaseAccountEntityIndexer: one account's history is fetched in ranges of *)
(* dates, from the newest to the oldest. A range is Pending while its      *)
(* request is open, Ready once it is complete, and Processed once the      *)
(* domain was given its entities; processed ranges are compacted. The      *)
(* ranges are stored, the jobs and the calls are not.                      *)
(*                                                                         *)
(* The requests are those of RequestBoard, of which an account indexer     *)
(* sees the status alone; resolved futures and 'response' events come from *)
(* the entity fetcher's resolveFuture.                                     *)
(***************************************************************************)
EXTENDS IndexerStateCompaction

CONSTANTS
  MaxNonce,    (* how many requests are made                               *)
  NoNonce,     (* "no request"                                             *)
  SlowReads,   (* the values slowReads may have                            *)
  FaultKinds,  (* the failures considered, among AllFaults                 *)
  MaxFaults    (* how many of them may happen                              *)

Nonce == 1..MaxNonce

AllFaults == {"crash", "rpc", "domain"}

ASSUME MaxNonceAssumption == MaxNonce \in Nat \ {0}
ASSUME NoNonceAssumption == NoNonce \notin Nonce
ASSUME SlowReadsAssumption == SlowReads \subseteq BOOLEAN
ASSUME FaultAssumption == FaultKinds \subseteq AllFaults /\ MaxFaults \in Nat

VARIABLES
  (* stored *)
  nonceOf,     (* entityIndexerStateDAL: requestNonce of each range        *)
  status,      (* the requests, as RequestBoard has them                   *)
  (* memory of the indexer process *)
  phase,       (* whether the account indexer is started                   *)
  toInit,      (* pending ranges initPendingRanges has not read            *)
  complete,    (* those it read whose request is complete                  *)
  awaited,     (* calls the running fetchAllRanges waits for               *)
  call,        (* how far each call of fetchRangeByDate is                 *)
  range,       (* its range                                                *)
  response,    (* how far the end of each request was told                 *)
  processing,  (* how far processRanges is                                 *)
  toProcess,   (* keys of its stream not read yet                          *)
  current,     (* the range it is at                                       *)
  currentNonce,(* and its request                                          *)
  (* environment *)
  available,   (* {} or {the range the history fetcher has signatures of}  *)
  handled,     (* how often the domain was given each instant, up to 2     *)
  slowReads,   (* may the answer of a read come after later writes, and    *)
               (* what they cause? The same throughout.                    *)
  faults

initVars == <<phase, toInit, complete>>
callVars == <<awaited, call, range>>
processVars == <<processing, toProcess, current, currentNonce>>
vars == <<compactionVars, nonceOf, status, initVars, callVars, response,
          processVars, available, handled, faults>>
-----------------------------------------------------------------------------
CallState == {"none", "request", "save", "check", "readOpen", "readComplete",
              "wait", "stuck", "ready", "done", "failed"}
ResponseState == {"none", "resolved", "emitted", "found", "over"}

TypeOK ==
  /\ CompactionTypeOK
  /\ nonceOf \in [DateRanges -> Nonce \cup {NoNonce}]
  /\ status \in [Nonce -> {"new", "open", "complete", "gone"}]
  /\ phase \in {"down", "init", "up", "failed"}
  /\ toInit \in SUBSET DateRanges
  /\ complete \in SUBSET DateRanges
  /\ awaited \in SUBSET Nonce
  /\ call \in [Nonce -> CallState]
  /\ range \in [Nonce -> DateRanges]
  /\ response \in [Nonce -> ResponseState]
  /\ processing \in {"idle", "next", "handle", "save", "remove"}
  /\ toProcess \in SUBSET DateRanges
  /\ current \in DateRanges
  /\ currentNonce \in Nonce \cup {NoNonce}
  /\ available \in SUBSET DateRanges
  /\ handled \in [0..LastDate -> 0..2]
  /\ slowReads \in SlowReads
  /\ faults \in 0..MaxFaults

SomeRange == DateRange(0, 0)

Init ==
  /\ CompactionInit
  /\ nonceOf = [r \in DateRanges |-> NoNonce]
  /\ status = [n \in Nonce |-> "new"]
  /\ phase = "down" /\ toInit = {} /\ complete = {}
  /\ awaited = {}
  /\ call = [n \in Nonce |-> "none"]
  /\ range = [n \in Nonce |-> SomeRange]
  /\ response = [n \in Nonce |-> "none"]
  /\ processing = "idle" /\ toProcess = {}
  /\ current = SomeRange /\ currentNonce = NoNonce
  /\ available = {}
  /\ handled = [i \in 0..LastDate |-> 0]
  /\ slowReads \in SlowReads
  /\ faults = 0

IsLeast(r, R) == r \in R /\ \A q \in R \ {r} : Before(r, q)

Fault(kind) ==
  /\ kind \in FaultKinds
  /\ faults < MaxFaults
  /\ faults' = faults + 1

SaveState(r, code, n) ==
  /\ states' = [states EXCEPT ![r] = code]
  /\ nonceOf' = [nonceOf EXCEPT ![r] = n]
-----------------------------------------------------------------------------
(* start: the 'response' events are subscribed to, then the pending ranges  *)
(* are looked through.                                                      *)
Start ==
  /\ phase = "down"
  /\ phase' = "init"
  /\ toInit' = InState("Pending")
  /\ UNCHANGED <<compactionVars, nonceOf, status, complete, callVars, response,
                 processVars, available, handled, faults>>

(* A range whose request does not exist would make start fail.              *)
InitPendingRange ==
  /\ phase = "init"
  /\ \E r \in DateRanges :
       /\ IsLeast(r, toInit)
       /\ toInit' = toInit \ {r}
       /\ LET s == status[nonceOf[r]]
          IN /\ phase' = IF s \in {"new", "gone"} THEN "failed" ELSE phase
             /\ complete' = IF s = "complete" THEN complete \cup {r} ELSE complete
  /\ UNCHANGED <<compactionVars, nonceOf, status, callVars, response,
                 processVars, available, handled, faults>>

(* Mutant: the ranges whose request is complete are read and not saved. *)
InitReadyRangesUnsaved ==
  /\ phase = "init"
  /\ toInit = {}
  /\ phase' = "up"
  /\ complete' = {}
  /\ UNCHANGED <<compactionVars, nonceOf, status, toInit, callVars, response,
                 processVars, available, handled, faults>>

(* The records were read with their nonces, which no one changes meanwhile. *)
InitReadyRanges ==
  /\ phase = "init"
  /\ toInit = {}
  /\ phase' = "up"
  /\ complete' = {}
  /\ states' = [r \in DateRanges |-> IF r \in complete THEN "Ready" ELSE states[r]]
  /\ UNCHANGED <<merging, nested, nonceOf, status, toInit, callVars, response,
                 processVars, available, handled, faults>>
-----------------------------------------------------------------------------

(* The end of the given range that one request may ask for. *)
Chunk(r) == DateRange(MaxDate(r.startDate, r.endDate - ChunkTimeframe), r.endDate)

IsShort(r) == r.endDate - r.startDate < ChunkTimeframe

(* The ranges to request: the newest of those no stored range has and, when *)
(* it is short, the one before it.                                          *)
RangesToFetch ==
  LET pending == ClipDateRangesFromIterable(available, SortedRanges(Known))
      newest == Chunk(pending[Len(pending)])
  IN IF pending = <<>> THEN {}
     ELSE {newest} \cup
          (IF IsShort(newest) /\ Len(pending) > 1
             THEN {Chunk(pending[Len(pending) - 1])} ELSE {})

FreshNonces == {n \in Nonce : call[n] = "none"}

(* fetchAllRanges: nonces are taken in order, the newest range first.       *)
FetchAllRanges ==
  /\ phase = "up"
  /\ awaited = {}
  /\ RangesToFetch # {}
  /\ \E N \in SUBSET FreshNonces :
       /\ Cardinality(N) = Cardinality(RangesToFetch)
       /\ \A n \in N, m \in FreshNonces \ N : n < m
       /\ \E f \in [N -> RangesToFetch] :
            /\ \A n, m \in N : n < m => Before(f[m], f[n])
            /\ range' = [n \in Nonce |-> IF n \in N THEN f[n] ELSE range[n]]
       /\ call' = [n \in Nonce |-> IF n \in N THEN "request" ELSE call[n]]
       /\ awaited' = N
  /\ UNCHANGED <<compactionVars, nonceOf, status, initVars, response,
                 processVars, available, handled, faults>>

(* fetchAccountEntitiesByDate: a request that lists nothing is complete.    *)
RequestRange(n) ==
  /\ call[n] = "request"
  /\ call' = [call EXCEPT ![n] = "save"]
  /\ \/ /\ status' = [status EXCEPT ![n] = "open"]
        /\ UNCHANGED response
     \/ /\ status' = [status EXCEPT ![n] = "complete"]
        /\ response' = [response EXCEPT ![n] = "resolved"]
  /\ UNCHANGED <<compactionVars, nonceOf, initVars, awaited, range, processVars,
                 available, handled, faults>>

(* Promise.all gives up with the first call that fails, the others go on.   *)
CallFails(n) ==
  /\ call' = [call EXCEPT ![n] = "failed"]
  /\ awaited' = IF n \in awaited THEN {} ELSE awaited

RequestFails(n) ==
  /\ call[n] = "request"
  /\ Fault("rpc")
  /\ CallFails(n)
  /\ UNCHANGED <<compactionVars, nonceOf, status, initVars, range, response,
                 processVars, available, handled>>

SavePending(n) ==
  /\ call[n] = "save"
  /\ call' = [call EXCEPT ![n] = "check"]
  /\ SaveState(range[n], "Pending", n)
  /\ UNCHANGED <<merging, nested, status, initVars, awaited, range, response,
                 processVars, available, handled, faults>>

(* awaitRequestComplete: the record of the request is read, and only then   *)
(* its future is looked up. A request that is gone by then is an error.     *)
CheckComplete(n) ==
  /\ call[n] = "check"
  /\ \/ /\ status[n] = "gone"
        /\ CallFails(n)
     \/ /\ status[n] # "gone"
        /\ call' = [call EXCEPT ![n] = IF status[n] = "complete" THEN "readComplete"
                                                                ELSE "readOpen"]
        /\ UNCHANGED awaited
  /\ UNCHANGED <<compactionVars, nonceOf, status, initVars, range, response,
                 processVars, available, handled, faults>>

(* Once the event was emitted the future is out of the map, and a new one,  *)
(* which nobody will resolve, takes its place.                              *)
GetFuture(n) ==
  CASE response[n] = "none" -> "wait"
    [] response[n] = "resolved" -> "ready"
    [] OTHER -> "stuck"

AwaitRequestComplete(n) ==
  /\ call[n] \in {"readOpen", "readComplete"}
  /\ call' = [call EXCEPT ![n] = IF @ = "readOpen" THEN GetFuture(n) ELSE "ready"]
  /\ UNCHANGED <<compactionVars, nonceOf, status, initVars, awaited, range,
                 response, processVars, available, handled, faults>>

SaveReady(n) ==
  /\ call[n] = "ready"
  /\ call' = [call EXCEPT ![n] = "done"]
  /\ awaited' = awaited \ {n}
  /\ SaveState(range[n], "Ready", n)
  /\ UNCHANGED <<merging, nested, status, initVars, range, response, processVars,
                 available, handled, faults>>
-----------------------------------------------------------------------------
(* The request completes and its future is resolved; then, in a later turn  *)
(* of the event loop, the event is emitted and the future forgotten.        *)
CompleteRequest(n) ==
  /\ status[n] = "open"
  /\ status' = [status EXCEPT ![n] = "complete"]
  /\ response' = [response EXCEPT ![n] = "resolved"]
  /\ call' = [call EXCEPT ![n] = IF @ = "wait" THEN "ready" ELSE @]
  /\ UNCHANGED <<compactionVars, nonceOf, initVars, awaited, range, processVars,
                 available, handled, faults>>

EmitResponse(n) ==
  /\ response[n] = "resolved"
  /\ response' = [response EXCEPT ![n] = IF phase \in {"init", "up"} THEN "emitted" ELSE "over"]
  /\ UNCHANGED <<compactionVars, nonceOf, status, initVars, callVars, processVars,
                 available, handled, faults>>

(* onEntityResponse: the pending range of the request is read, then saved   *)
(* as ready.                                                                *)
OnEntityResponse(n) ==
  /\ response[n] = "emitted"
  /\ response' = [response EXCEPT ![n] =
       IF states[range[n]] = "Pending" /\ nonceOf[range[n]] = n THEN "found" ELSE "over"]
  /\ UNCHANGED <<compactionVars, nonceOf, status, initVars, callVars, processVars,
                 available, handled, faults>>

SaveResponseReady(n) ==
  /\ response[n] = "found"
  /\ response' = [response EXCEPT ![n] = "over"]
  /\ SaveState(range[n], "Ready", n)
  /\ UNCHANGED <<merging, nested, status, initVars, callVars, processVars, available,
                 handled, faults>>
-----------------------------------------------------------------------------
(* processRanges: the keys of the ready ranges are fixed when the stream is *)
(* opened, each record is read when its turn comes.                         *)
ProcessRanges ==
  /\ phase = "up"
  /\ processing = "idle"
  /\ processing' = "next"
  /\ toProcess' = InState("Ready")
  /\ UNCHANGED <<compactionVars, nonceOf, status, initVars, callVars, response,
                 current, currentNonce, available, handled, faults>>

(* getResponse throws when the request does not exist, which ends the run.  *)
NextReadyRange ==
  /\ processing = "next"
  /\ \E r \in DateRanges :
       /\ IsLeast(r, toProcess)
       /\ IF nonceOf[r] \in Nonce /\ status[nonceOf[r]] = "complete"
            THEN /\ processing' = "handle"
                 /\ toProcess' = toProcess \ {r}
                 /\ current' = r
                 /\ currentNonce' = nonceOf[r]
            ELSE /\ processing' = "idle"
                 /\ toProcess' = {}
                 /\ UNCHANGED <<current, currentNonce>>
  /\ UNCHANGED <<compactionVars, nonceOf, status, initVars, callVars, response,
                 available, handled, faults>>

EndProcessRanges ==
  /\ processing = "next"
  /\ toProcess = {}
  /\ processing' = "idle"
  /\ UNCHANGED <<compactionVars, nonceOf, status, initVars, callVars, response,
                 toProcess, current, currentNonce, available, handled, faults>>

(* Mutant: an error of the domain is swallowed. *)
HandleRangeAnyway ==
  /\ processing = "handle"
  /\ processing' = "save"
  /\ \/ /\ handled' = [i \in 0..LastDate |->
                         IF i \in Instants(current) /\ handled[i] < 2
                           THEN handled[i] + 1 ELSE handled[i]]
        /\ UNCHANGED faults
     \/ Fault("domain") /\ UNCHANGED handled
  /\ UNCHANGED <<compactionVars, nonceOf, status, initVars, callVars, response,
                 toProcess, current, currentNonce, available>>

(* The domain is given the range's entities, or throws before it took them. *)
HandleRange ==
  /\ processing = "handle"
  /\ \/ /\ processing' = "save"
        /\ handled' = [i \in 0..LastDate |->
                         IF i \in Instants(current) /\ handled[i] < 2
                           THEN handled[i] + 1 ELSE handled[i]]
        /\ UNCHANGED <<toProcess, faults>>
     \/ /\ Fault("domain")
        /\ processing' = "idle"
        /\ toProcess' = {}
        /\ UNCHANGED handled
  /\ UNCHANGED <<compactionVars, nonceOf, status, initVars, callVars, response,
                 current, currentNonce, available>>

(* Mutant: the request is removed first. *)
RemoveBeforeProcessed ==
  /\ processing = "save"
  /\ processing' = "remove"
  /\ status' = [status EXCEPT ![currentNonce] = "gone"]
  /\ UNCHANGED <<compactionVars, nonceOf, initVars, callVars, response, toProcess,
                 current, currentNonce, available, handled, faults>>

SaveProcessed ==
  /\ processing = "save"
  /\ processing' = "remove"
  /\ SaveState(current, "Processed", NoNonce)
  /\ UNCHANGED <<merging, nested, status, initVars, callVars, response, toProcess,
                 current, currentNonce, available, handled, faults>>

RemoveRequest ==
  /\ processing = "remove"
  /\ processing' = "next"
  /\ status' = [status EXCEPT ![currentNonce] = "gone"]
  /\ UNCHANGED <<compactionVars, nonceOf, initVars, callVars, response, toProcess,
                 current, currentNonce, available, handled, faults>>
-----------------------------------------------------------------------------
(* mergeStates runs as a job and for callers of getIndexingState. *)
Compact(m) ==
  /\ phase = "up"
  /\ MergeStep(m)
  /\ nonceOf' = [r \in DateRanges |-> IF states'[r] = states[r] THEN nonceOf[r] ELSE NoNonce]
  /\ UNCHANGED <<status, initVars, callVars, response, processVars, available,
                 handled, faults>>

(* The history fetcher gets older and newer signatures. *)
GrowHistory ==
  /\ \E r \in DateRanges :
       /\ Cover(available) \subseteq Instants(r)
       /\ available # {r}
       /\ available' = {r}
  /\ UNCHANGED <<compactionVars, nonceOf, status, initVars, callVars, response,
                 processVars, handled, faults>>

(* The process stops: the stores stay, the calls and the events are lost.   *)
Crash ==
  /\ Fault("crash")
  /\ phase' = "down" /\ toInit' = {} /\ complete' = {}
  /\ awaited' = {}
  /\ call' = [n \in Nonce |-> IF call[n] \in {"none", "done"} THEN call[n] ELSE "failed"]
  /\ response' = [n \in Nonce |-> IF response[n] = "none" THEN "none" ELSE "over"]
  /\ processing' = "idle" /\ toProcess' = {}
  /\ merging' = [m \in Merger |-> NoMerge]
  /\ UNCHANGED <<states, nested, nonceOf, status, range, current, currentNonce,
                 available, handled>>
-----------------------------------------------------------------------------
(* A save is queued on the store's mutex in the turn of the event loop that *)
(* decides it, before anything the other jobs may decide next.              *)
Queued == \E n \in Nonce : call[n] \in {"save", "ready"}

SaveQueued == \E n \in Nonce : SavePending(n) \/ SaveReady(n)

(* Two reads are under way, or answered and not acted upon: of a request's  *)
(* record by a call, and of its pending range by onEntityResponse.          *)
Reading ==
  \E n \in Nonce :
    call[n] \in {"check", "readOpen", "readComplete"} \/ response[n] = "found"

FinishRead ==
  \E n \in Nonce : CheckComplete(n) \/ AwaitRequestComplete(n) \/ SaveResponseReady(n)

Quiet == ~Queued /\ (slowReads \/ ~Reading)

ResponseStep(n) ==
  \/ EmitResponse(n)
  \/ OnEntityResponse(n)

ProcessStep ==
  \/ ProcessRanges
  \/ NextReadyRange
  \/ EndProcessRanges
  \/ HandleRange
  \/ SaveProcessed
  \/ RemoveRequest

StartStep ==
  \/ Start
  \/ InitPendingRange
  \/ InitReadyRanges

Next ==
  \/ SaveQueued
  \/ ~Queued /\ FinishRead
  \/ /\ Quiet
     /\ \/ StartStep
        \/ FetchAllRanges
        \/ \E n \in Nonce :
             \/ RequestRange(n)
             \/ RequestFails(n)
             \/ CompleteRequest(n)
             \/ ResponseStep(n)
        \/ ProcessStep
        \/ \E m \in Merger : Compact(m)
        \/ GrowHistory
  \/ Crash

Spec == Init /\ [][Next /\ UNCHANGED slowReads]_<<vars, slowReads>>

(* The jobs run again and again, the calls and the events of a running      *)
(* process go on, and the entity fetcher serves every request.              *)
Fairness ==
  /\ WF_vars(SaveQueued)
  /\ WF_vars(~Queued /\ FinishRead)
  /\ WF_vars(Quiet /\ StartStep)
  /\ WF_vars(Quiet /\ FetchAllRanges)
  /\ WF_vars(Quiet /\ \E n \in Nonce : RequestRange(n))
  /\ WF_vars(Quiet /\ \E n \in Nonce : CompleteRequest(n))
  /\ WF_vars(Quiet /\ \E n \in Nonce : ResponseStep(n))
  /\ WF_vars(Quiet /\ ProcessStep)
  /\ \A m \in Merger : WF_vars(Quiet /\ Compact(m))

FairSpec == Spec /\ Fairness
-----------------------------------------------------------------------------
(* A range that is ready can be processed: its request is still there.      *)
(* processRanges would otherwise fail at that range each time it runs.      *)
ReadyHasRequest ==
  /\ TypeOK
  /\ ~slowReads =>
       \A r \in InState("Ready") : nonceOf[r] \in Nonce /\ status[nonceOf[r]] = "complete"

(* What is counted as processed was given to the domain, whatever the order *)
(* of events, saves, merges and crashes.                                    *)
ProcessedWasHandled ==
  \A i \in Cover(InState("Processed")) : handled[i] > 0

(* And while nothing fails, no instant is given to the domain twice, until  *)
(* a merge has read ranges that share an instant and may lose them. (When   *)
(* the read of a request comes so late that its range is processed, and the *)
(* request gone, its call fails without a fault, and another of the same    *)
(* Promise.all goes on unnoticed: the next run asks for its range again.)   *)
HandledOnce ==
  /\ ProcessedWasHandled
  /\ faults = 0 /\ (\A n \in Nonce : call[n] # "failed") /\ ~nested =>
       \A i \in 0..LastDate : handled[i] < 2

(* No two requests are under way for the same instant, as long as no call   *)
(* failed: another of the same Promise.all would go on unnoticed.           *)
NothingFetchedTwice ==
  ~slowReads /\ (\A n \in Nonce : call[n] # "failed") =>
  \A r, q \in Known \ InState("Processed") : r # q => Instants(r) \cap Instants(q) = {}

(* The whole history is given to the domain in the end, as far as there are *)
(* requests left to make; and unless something failed, the processed ranges *)
(* are then as few as they can be. (A crash between the two writes of a     *)
(* merge can leave ranges beside their union for good: a later merge finds  *)
(* no union that is new, and removes nothing.)                              *)
CatchesUp ==
  <>[](~slowReads =>
         /\ FreshNonces # {} => \A i \in Cover(available) : handled[i] > 0
         /\ faults = 0 =>
              InState("Processed") = MaximalRuns(Cover(InState("Processed"))))

(* "Wait till the request is complete": a call that waits goes on. It does  *)
(* not when its read of the request is answered late: no run checks it.     *)
AwaitReturns ==
  \A n \in Nonce : call[n] = "check" ~> call[n] \in {"done", "failed"}

=============================================================================
