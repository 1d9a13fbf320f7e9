------------------------- MODULE IndexerEntityFetcher -------------------------
(***************************************************************************)
(* BaseIndexerEntityFetcher: the part of the indexer that turns a request  *)
(* for entities (by id, or by account and date range) into a durable       *)
(* record, waits for the entities to come back from the fetcher and parser *)
(* services, in any order and possibly not at all, and says when the       *)
(* request is complete.                                                    *)
(*                                                                         *)
(* A step of the model is the code between two awaits of storage, of the   *)
(* request mutex or of another service; a save or a remove of a store is   *)
(* one step, because EntityStorage writes it as one LevelDB batch.         *)
(***************************************************************************)
EXTENDS Naturals, Sequences, FiniteSets

CONSTANTS
  MaxNonce,    (* how many requests are made                               *)
  Id,          (* the entities                                             *)
  Offers,      (* what a request may be for: the ids the fetcher service   *)
               (* lists for its parameters, and those its filter accepts   *)
  Worker,      (* the incoming entities pool, as a client of the mutex     *)
  NoNonce,     (* "no request"                                             *)
  FaultKinds,  (* the failures considered, among AllFaults                 *)
  MaxFaults    (* how many of them may happen                              *)

Nonce == 1..MaxNonce

AllFaults == {"crash", "rpc", "store", "drain"}

ASSUME MaxNonceAssumption == MaxNonce \in Nat \ {0}
ASSUME OffersAssumption ==
  /\ Offers \subseteq [lists : SUBSET Id, accepts : SUBSET Id]
  /\ \A o \in Offers : o.lists \subseteq o.accepts
ASSUME WorkerAssumption == Worker \notin Nonce
ASSUME NoNonceAssumption == NoNonce \notin Nonce
ASSUME FaultAssumption == FaultKinds \subseteq AllFaults /\ MaxFaults \in Nat

VARIABLES
  (* stored in LevelDB, so kept across a crash *)
  requests,    (* entityRequestDAL: the state of each request              *)
  want,        (* the ids the fetcher listed for the request               *)
  accepts,     (* the ids the request's filter accepts                     *)
  pending,     (* entityRequestPendingEntityDAL: id -> nonces waiting      *)
  parsed,      (* entityRequestResponseDAL: ids whose content arrived      *)
  indexed,     (* entityRequestResponseDAL: id -> keys of nonceIndexes     *)
  incoming,    (* entityRequestIncomingEntityDAL: entities to handle       *)
  (* memory of the indexer process *)
  caller,      (* how far each call of handleEntityRequest is              *)
  left,        (* its ids that the stream did not produce yet              *)
  chunk,       (* its ids whose pending record is not saved yet            *)
  mutex,       (* requestMutex: the holder, then the waiters in order      *)
  worker,      (* how far handleIncomingEntities is                        *)
  batch,       (* the works it was given                                   *)
  hits,        (* the <<id, nonce>> it filtered                            *)
  checkDue,    (* DebouncedJob.pendingRun of checkCompletionJob            *)
  checking,    (* DebouncedJob.running                                     *)
  toCheck,     (* requests the running check has not visited               *)
  verdict,     (* the request it found without pending entities            *)
  retry,       (* how far handlePendingRetries is                          *)
  toScan,      (* requests checkAllPendingSignatures has not visited       *)
  toRemove,    (* toRemoveBuffer                                           *)
  toRetry,     (* toRetryBuffer                                            *)
  poisoned,    (* the buffers whose lastDrain is a rejected promise        *)
  announced,   (* requests whose future was resolved, 'response' emitted   *)
  (* environment *)
  asked,       (* ids asked to the fetcher service and not yet answered    *)
  faults       (* how many failures happened                               *)

stored == <<requests, want, accepts, pending, parsed, indexed>>
callVars == <<caller, left, chunk>>
workVars == <<worker, batch, hits>>
checkVars == <<checkDue, checking, toCheck, verdict>>
retryVars == <<retry, toScan, toRemove, toRetry, poisoned>>
vars == <<stored, incoming, callVars, mutex, workVars, checkVars, retryVars,
          announced, asked, faults>>
-----------------------------------------------------------------------------
RequestState == {"none", "open", "complete", "removed", "cleaned"}
CallState == {"idle", "waiting", "listing", "returned", "failed"}
WorkState == {"idle", "waiting", "filtered", "stored", "handled"}
RetryState == {"idle", "scan", "remove", "fetch"}
Buffer == {"toRemove", "toRetry"}

StoresTypeOK ==
  /\ requests \in [Nonce -> RequestState]
  /\ want \in [Nonce -> SUBSET Id]
  /\ accepts \in [Nonce -> SUBSET Id]
  /\ pending \in [Id -> SUBSET Nonce]
  /\ parsed \in SUBSET Id
  /\ indexed \in [Id -> SUBSET Nonce]
  /\ incoming \in SUBSET Id

CallsTypeOK ==
  /\ caller \in [Nonce -> CallState]
  /\ left \in [Nonce -> SUBSET Id]
  /\ chunk \in [Nonce -> SUBSET Id]
  /\ mutex \in Seq(Nonce \cup {Worker})

WorkTypeOK ==
  /\ worker \in WorkState
  /\ batch \in SUBSET Id
  /\ hits \in SUBSET (Id \X Nonce)

CheckTypeOK ==
  /\ checkDue \in BOOLEAN
  /\ checking \in BOOLEAN
  /\ toCheck \in SUBSET Nonce
  /\ verdict \in Nonce \cup {NoNonce}
  /\ announced \in SUBSET Nonce

RetryTypeOK ==
  /\ retry \in RetryState
  /\ toScan \in SUBSET Nonce
  /\ toRemove \in SUBSET Id
  /\ toRetry \in SUBSET Id
  /\ poisoned \in SUBSET Buffer

EnvironmentTypeOK ==
  /\ asked \in SUBSET Id
  /\ faults \in 0..MaxFaults

TypeOK ==
  /\ StoresTypeOK
  /\ CallsTypeOK
  /\ WorkTypeOK
  /\ CheckTypeOK
  /\ RetryTypeOK
  /\ EnvironmentTypeOK

Init ==
  /\ requests = [n \in Nonce |-> "none"]
  /\ want = [n \in Nonce |-> {}]
  /\ accepts = [n \in Nonce |-> {}]
  /\ pending = [x \in Id |-> {}]
  /\ parsed = {}
  /\ indexed = [x \in Id |-> {}]
  /\ incoming = {}
  /\ caller = [n \in Nonce |-> "idle"]
  /\ left = [n \in Nonce |-> {}]
  /\ chunk = [n \in Nonce |-> {}]
  /\ mutex = <<>>
  /\ worker = "idle"
  /\ batch = {}
  /\ hits = {}
  /\ checkDue = FALSE
  /\ checking = FALSE
  /\ toCheck = {}
  /\ verdict = NoNonce
  /\ retry = "idle"
  /\ toScan = {}
  /\ toRemove = {}
  /\ toRetry = {}
  /\ poisoned = {}
  /\ announced = {}
  /\ asked = {}
  /\ faults = 0
-----------------------------------------------------------------------------
(* Requests found in entityRequestDAL. *)
Saved == {n \in Nonce : requests[n] \in {"open", "complete"}}
OpenRequests == {n \in Nonce : requests[n] = "open"}

(* getAllValues visits requests by increasing nonce. *)
IsFirst(n, S) == n \in S /\ \A m \in S : n <= m

Holds(p) == mutex # <<>> /\ Head(mutex) = p
Acquire(p) == mutex' = Append(mutex, p)
Release(p) == Holds(p) /\ mutex' = Tail(mutex)

(* Mutant: the saved record replaces the stored one. *)
OverwrittenNonces(x, saved) == saved

(* updateCheckFn of the response store: the nonceIndexes of the stored and  *)
(* of the saved record are united.                                          *)
MergedNonces(x, saved) == saved \cup indexed[x]

Fault(kind) ==
  /\ kind \in FaultKinds
  /\ faults < MaxFaults
  /\ faults' = faults + 1

-----------------------------------------------------------------------------
(* handleEntityRequest: nonces are handed out in increasing order, and the *)
(* call queues for the mutex in the same step. A request by id lists what   *)
(* it accepts.                                                              *)
HandleEntityRequest(n, offer) ==
  /\ caller[n] = "idle"
  /\ \A m \in Nonce : m < n => caller[m] # "idle"
  /\ caller' = [caller EXCEPT ![n] = "waiting"]
  /\ want' = [want EXCEPT ![n] = offer.lists]
  /\ accepts' = [accepts EXCEPT ![n] = offer.accepts]
  /\ Acquire(n)
  /\ UNCHANGED <<requests, pending, parsed, indexed, incoming, left, chunk,
                 workVars, checkVars, retryVars, announced, asked, faults>>

(* Mutant: the ids are fetched without waiting for the mutex. *)
FetchEntityIdsUnlocked(n) ==
  /\ caller[n] = "waiting"
  /\ caller' = [caller EXCEPT ![n] = "listing"]
  /\ left' = [left EXCEPT ![n] = want[n]]
  /\ asked' = asked \cup want[n]
  /\ UNCHANGED <<stored, incoming, chunk, mutex, workVars, checkVars,
                 retryVars, announced, faults>>

(* fetchEntityIds: the fetcher service starts fetching the entities and     *)
(* streams their ids back.                                                  *)
FetchEntityIds(n) ==
  /\ caller[n] = "waiting"
  /\ Holds(n)
  /\ caller' = [caller EXCEPT ![n] = "listing"]
  /\ left' = [left EXCEPT ![n] = want[n]]
  /\ asked' = asked \cup want[n]
  /\ UNCHANGED <<stored, incoming, chunk, mutex, workVars, checkVars,
                 retryVars, announced, faults>>

(* The next ids of the stream: their placeholders are merged into the       *)
(* response store, where a content that is already there is kept.           *)
SaveResponsePlaceholders(n, C) ==
  /\ caller[n] = "listing"
  /\ chunk[n] = {}
  /\ C # {} /\ C \subseteq left[n]
  /\ chunk' = [chunk EXCEPT ![n] = C]
  /\ left' = [left EXCEPT ![n] = @ \ C]
  /\ indexed' = [x \in Id |-> IF x \in C THEN MergedNonces(x, {n}) ELSE indexed[x]]
  /\ UNCHANGED <<requests, want, accepts, pending, parsed, incoming, caller,
                 mutex, workVars, checkVars, retryVars, announced, asked, faults>>

SavePendingEntities(n) ==
  /\ caller[n] = "listing"
  /\ chunk[n] # {}
  /\ pending' = [x \in Id |->
                   IF x \in chunk[n] THEN pending[x] \cup {n} ELSE pending[x]]
  /\ chunk' = [chunk EXCEPT ![n] = {}]
  /\ UNCHANGED <<requests, want, accepts, parsed, indexed, incoming, caller,
                 left, mutex, workVars, checkVars, retryVars, announced, asked,
                 faults>>

(* The stream ended: the request is saved, complete already when it listed  *)
(* nothing, and the mutex is released.                                      *)
SaveRequest(n) ==
  /\ caller[n] = "listing"
  /\ left[n] = {} /\ chunk[n] = {}
  /\ caller' = [caller EXCEPT ![n] = "returned"]
  /\ requests' = [requests EXCEPT ![n] = IF want[n] = {} THEN "complete" ELSE "open"]
  /\ announced' = IF want[n] = {} THEN announced \cup {n} ELSE announced
  /\ Release(n)
  /\ UNCHANGED <<want, accepts, pending, parsed, indexed, incoming, left, chunk,
                 workVars, checkVars, retryVars, asked, faults>>

(* The call to the fetcher service or its stream fails: the error leaves    *)
(* through the finally block, the records saved so far stay.                *)
RequestFails(n) ==
  /\ Fault("rpc")
  /\ caller[n] \in {"waiting", "listing"}
  /\ chunk[n] = {}
  /\ Release(n)
  /\ caller' = [caller EXCEPT ![n] = "failed"]
  /\ left' = [left EXCEPT ![n] = {}]
  /\ UNCHANGED <<stored, incoming, chunk, workVars, checkVars, retryVars,
                 announced, asked>>
-----------------------------------------------------------------------------
(* The fetcher and parser services. An entity asked for may come, or be     *)
(* lost on the way; one that was not asked for, or that came already, may   *)
(* come as well (the parser broadcasts, and events may be repeated).        *)
OnEntities(x) == incoming' = incoming \cup {x}

Deliver(x) ==
  /\ x \in asked
  /\ OnEntities(x)
  /\ asked' = asked \ {x}
  /\ UNCHANGED <<stored, callVars, mutex, workVars, checkVars, retryVars,
                 announced, faults>>

Lose(x) ==
  /\ x \in asked
  /\ asked' = asked \ {x}
  /\ UNCHANGED <<stored, incoming, callVars, mutex, workVars, checkVars,
                 retryVars, announced, faults>>

DeliverUnasked(x) ==
  /\ x \notin incoming
  /\ OnEntities(x)
  /\ UNCHANGED <<stored, callVars, mutex, workVars, checkVars, retryVars,
                 announced, asked, faults>>
-----------------------------------------------------------------------------
(* The pool takes the stored works (its chunks hold a thousand of them) and *)
(* calls handleIncomingEntities, which queues for the mutex.                *)
TakeIncoming ==
  /\ worker = "idle"
  /\ incoming # {}
  /\ worker' = "waiting"
  /\ batch' = incoming
  /\ Acquire(Worker)
  /\ UNCHANGED <<stored, incoming, callVars, hits, checkVars, retryVars,
                 announced, asked, faults>>

(* Each entity goes to the first open request whose filter accepts it.      *)
Filtered(B) ==
  {h \in B \X Nonce : IsFirst(h[2], {n \in OpenRequests : h[1] \in accepts[n]})}

Ids(H) == {h[1] : h \in H}

FilterIncoming ==
  /\ worker = "waiting"
  /\ Holds(Worker)
  /\ hits' = Filtered(batch)
  /\ IF hits' = {}
       THEN worker' = "handled" /\ Release(Worker)
       ELSE worker' = "filtered" /\ UNCHANGED mutex
  /\ UNCHANGED <<stored, incoming, callVars, batch, checkVars, retryVars,
                 announced, asked, faults>>

SaveIncomingResponses ==
  /\ worker = "filtered"
  /\ worker' = "stored"
  /\ parsed' = parsed \cup Ids(hits)
  /\ indexed' = [x \in Id |-> MergedNonces(x, {n \in Nonce : <<x, n>> \in hits})]
  /\ UNCHANGED <<requests, want, accepts, pending, incoming, callVars, mutex,
                 batch, hits, checkVars, retryVars, announced, asked, faults>>

(* Mutant: the pending records may go before the responses are saved. *)
RemoveIncomingPendingFirst ==
  /\ worker \in {"filtered", "stored"}
  /\ worker' = "handled"
  /\ pending' = [x \in Id |-> IF x \in Ids(hits) THEN {} ELSE pending[x]]
  /\ checkDue' = TRUE
  /\ Release(Worker)
  /\ UNCHANGED <<requests, want, accepts, parsed, indexed, incoming, callVars,
                 batch, hits, checking, toCheck, verdict, retryVars, announced,
                 asked, faults>>

(* The pending record of an id goes with all its nonces; the completion     *)
(* check is asked to run.                                                   *)
RemoveIncomingPending ==
  /\ worker = "stored"
  /\ worker' = "handled"
  /\ pending' = [x \in Id |-> IF x \in Ids(hits) THEN {} ELSE pending[x]]
  /\ checkDue' = TRUE
  /\ Release(Worker)
  /\ UNCHANGED <<requests, want, accepts, parsed, indexed, incoming, callVars,
                 batch, hits, checking, toCheck, verdict, retryVars, announced,
                 asked, faults>>

(* Mutant: the mutex is not released in a finally block. *)
IncomingFailsLocked ==
  /\ Fault("store")
  /\ worker \in {"filtered", "stored"}
  /\ worker' = "handled"
  /\ UNCHANGED <<stored, incoming, callVars, mutex, batch, hits, checkVars,
                 retryVars, announced, asked>>

(* A store fails under the handler, which releases the mutex and gives up.  *)
IncomingFails ==
  /\ Fault("store")
  /\ worker \in {"filtered", "stored"}
  /\ worker' = "handled"
  /\ Release(Worker)
  /\ UNCHANGED <<stored, incoming, callVars, batch, hits, checkVars, retryVars,
                 announced, asked>>

(* The pool's checkComplete answers true for every work: handled or not,    *)
(* and even when the same id was added again meanwhile, the works go.       *)
DropIncoming ==
  /\ worker = "handled"
  /\ worker' = "idle"
  /\ incoming' = incoming \ batch
  /\ batch' = {}
  /\ hits' = {}
  /\ UNCHANGED <<stored, callVars, mutex, checkVars, retryVars, announced,
                 asked, faults>>
-----------------------------------------------------------------------------
(* checkCompletionJob, a DebouncedJob: one check at a time, and one more    *)
(* after it if it was asked for meanwhile.                                  *)
StartCheck ==
  /\ checkDue
  /\ ~checking
  /\ checking' = TRUE
  /\ checkDue' = FALSE
  /\ toCheck' = OpenRequests
  /\ UNCHANGED <<stored, incoming, callVars, mutex, workVars, verdict,
                 retryVars, announced, asked, faults>>

HasPending(n) == \E x \in Id : n \in pending[x]

CheckRequestCompletion(n) ==
  /\ checking
  /\ verdict = NoNonce
  /\ IsFirst(n, toCheck)
  /\ toCheck' = toCheck \ {n}
  /\ verdict' = IF HasPending(n) THEN NoNonce ELSE n
  /\ UNCHANGED <<stored, incoming, callVars, mutex, workVars, checkDue, checking,
                 retryVars, announced, asked, faults>>

(* The record is written back complete, then resolveFuture.                 *)
MarkComplete ==
  /\ verdict # NoNonce
  /\ requests' = [requests EXCEPT ![verdict] = "complete"]
  /\ announced' = announced \cup {verdict}
  /\ verdict' = NoNonce
  /\ UNCHANGED <<want, accepts, pending, parsed, indexed, incoming, callVars,
                 mutex, workVars, checkDue, checking, toCheck, retryVars, asked,
                 faults>>

FinishCheck ==
  /\ checking
  /\ toCheck = {} /\ verdict = NoNonce
  /\ checking' = FALSE
  /\ UNCHANGED <<stored, incoming, callVars, mutex, workVars, checkDue, toCheck,
                 verdict, retryVars, announced, asked, faults>>
-----------------------------------------------------------------------------
(* checkPendingRetriesJob, every ten minutes: each pending entity of each   *)
(* saved request goes to one of two buffers, then both are drained and the  *)
(* completion check is asked to run.                                        *)
StartRetry ==
  /\ retry = "idle"
  /\ retry' = "scan"
  /\ toScan' = Saved
  /\ UNCHANGED <<stored, incoming, callVars, mutex, workVars, checkVars, toRemove,
                 toRetry, poisoned, announced, asked, faults>>

(* Mutant: a placeholder counts as a response. *)
HasPlaceholder(x, n) == n \in indexed[x]

HasResponse(x, n) == x \in parsed /\ n \in indexed[x]

(* Adding to a buffer whose last drain failed throws that error again, and  *)
(* the job ends with what it had added by then.                             *)
CheckPendingSignatures(n) ==
  LET waiting == {x \in Id : n \in pending[x]}
      answered == {x \in waiting : HasResponse(x, n)}
      missing == waiting \ answered
      throws == \/ "toRemove" \in poisoned /\ answered # {}
                \/ "toRetry" \in poisoned /\ missing # {}
  IN
  /\ retry = "scan"
  /\ IsFirst(n, toScan)
  /\ \/ /\ ~throws
        /\ toRemove' = toRemove \cup answered
        /\ toRetry' = toRetry \cup missing
        /\ toScan' = toScan \ {n}
        /\ UNCHANGED retry
     \/ /\ throws
        /\ \E A \in SUBSET answered, M \in SUBSET missing :
             /\ toRemove' = IF "toRemove" \in poisoned THEN toRemove ELSE toRemove \cup A
             /\ toRetry' = IF "toRetry" \in poisoned THEN toRetry ELSE toRetry \cup M
        /\ toScan' = {}
        /\ retry' = "idle"
  /\ UNCHANGED <<stored, incoming, callVars, mutex, workVars, checkVars, poisoned,
                 announced, asked, faults>>

FinishScan ==
  /\ retry = "scan"
  /\ toScan = {}
  /\ retry' = "remove"
  /\ UNCHANGED <<stored, incoming, callVars, mutex, workVars, checkVars, toScan,
                 toRemove, toRetry, poisoned, announced, asked, faults>>

(* A drain waits for the previous one of its buffer: once one has failed,   *)
(* every later one fails with it, before doing anything.                    *)
DrainFails(b) ==
  /\ \/ b \in poisoned /\ UNCHANGED <<toRemove, toRetry, faults>>
     \/ /\ b \notin poisoned
        /\ Fault("drain")
        /\ \/ b = "toRemove" /\ toRemove # {} /\ toRemove' = {} /\ UNCHANGED toRetry
           \/ b = "toRetry" /\ toRetry # {} /\ toRetry' = {} /\ UNCHANGED toRemove
  /\ poisoned' = poisoned \cup {b}
  /\ retry' = "idle"
  /\ UNCHANGED <<stored, incoming, callVars, mutex, workVars, checkVars, toScan,
                 announced, asked>>

RemoveAnswered ==
  /\ retry = "remove"
  /\ \/ DrainFails("toRemove")
     \/ /\ "toRemove" \notin poisoned
        /\ retry' = "fetch"
        /\ pending' = [x \in Id |-> IF x \in toRemove THEN {} ELSE pending[x]]
        /\ toRemove' = {}
        /\ UNCHANGED <<requests, want, accepts, parsed, indexed, incoming,
                       callVars, mutex, workVars, checkVars, toScan, toRetry,
                       poisoned, announced, asked, faults>>

(* Mutant: the completion check is not asked to run after the retries. *)
RetryMissingUnchecked ==
  /\ retry = "fetch"
  /\ \/ DrainFails("toRetry")
     \/ /\ "toRetry" \notin poisoned
        /\ retry' = "idle"
        /\ asked' = asked \cup toRetry
        /\ toRetry' = {}
        /\ UNCHANGED <<stored, incoming, callVars, mutex, workVars, checkVars,
                       toScan, toRemove, poisoned, announced, faults>>

RetryMissing ==
  /\ retry = "fetch"
  /\ \/ DrainFails("toRetry")
     \/ /\ "toRetry" \notin poisoned
        /\ retry' = "idle"
        /\ asked' = asked \cup toRetry
        /\ toRetry' = {}
        /\ checkDue' = TRUE
        /\ UNCHANGED <<stored, incoming, callVars, mutex, workVars, checking,
                       toCheck, verdict, toScan, toRemove, poisoned, announced,
                       faults>>
-----------------------------------------------------------------------------
(* Mutant: the consumer does not wait for the request to be complete. *)
RemoveRequestEarly(n) ==
  /\ requests[n] \in {"open", "complete"}
  /\ requests' = [requests EXCEPT ![n] = "removed"]
  /\ UNCHANGED <<want, accepts, pending, parsed, indexed, incoming, callVars,
                 mutex, workVars, checkVars, retryVars, announced, asked, faults>>

(* remove(), called by the consumer of a complete request: the record goes; *)
(* then the response items the consumer left in the stream are saved again  *)
(* without the nonce, through the same merge as every other save.           *)
RemoveRequest(n) ==
  /\ requests[n] = "complete"
  /\ requests' = [requests EXCEPT ![n] = "removed"]
  /\ UNCHANGED <<want, accepts, pending, parsed, indexed, incoming, callVars,
                 mutex, workVars, checkVars, retryVars, announced, asked, faults>>

RemoveNonceIndexes(n, S) ==
  /\ requests[n] = "removed"
  /\ S \subseteq {x \in parsed : n \in indexed[x]}
  /\ requests' = [requests EXCEPT ![n] = "cleaned"]
  /\ indexed' = [x \in Id |->
                   IF x \in S THEN MergedNonces(x, indexed[x] \ {n}) ELSE indexed[x]]
  /\ UNCHANGED <<want, accepts, pending, parsed, incoming, callVars, mutex,
                 workVars, checkVars, retryVars, announced, asked, faults>>

(* The process stops and starts again: the stores stay, the rest is new.    *)
Crash ==
  /\ Fault("crash")
  /\ caller' = [n \in Nonce |->
                  IF caller[n] \in {"waiting", "listing"} THEN "failed" ELSE caller[n]]
  /\ left' = [n \in Nonce |-> {}]
  /\ chunk' = [n \in Nonce |-> {}]
  /\ mutex' = <<>>
  /\ worker' = "idle" /\ batch' = {} /\ hits' = {}
  /\ checkDue' = FALSE /\ checking' = FALSE
  /\ toCheck' = {} /\ verdict' = NoNonce
  /\ retry' = "idle" /\ toScan' = {}
  /\ toRemove' = {} /\ toRetry' = {} /\ poisoned' = {}
  /\ announced' = {}
  /\ UNCHANGED <<stored, incoming, asked>>
-----------------------------------------------------------------------------
CallerStep(n) ==
  \/ FetchEntityIds(n)
  \/ \E C \in SUBSET Id : SaveResponsePlaceholders(n, C)
  \/ SavePendingEntities(n)
  \/ SaveRequest(n)

WorkerStep ==
  \/ TakeIncoming
  \/ FilterIncoming
  \/ SaveIncomingResponses
  \/ RemoveIncomingPending
  \/ DropIncoming

CheckStep ==
  \/ StartCheck
  \/ \E n \in Nonce : CheckRequestCompletion(n)
  \/ MarkComplete
  \/ FinishCheck

RetryStep ==
  \/ StartRetry
  \/ \E n \in Nonce : CheckPendingSignatures(n)
  \/ FinishScan
  \/ RemoveAnswered
  \/ RetryMissing

Next ==
  \/ \E n \in Nonce, offer \in Offers : HandleEntityRequest(n, offer)
  \/ \E n \in Nonce :
       \/ CallerStep(n)
       \/ RequestFails(n)
       \/ RemoveRequest(n)
       \/ \E S \in SUBSET Id : RemoveNonceIndexes(n, S)
  \/ \E x \in Id : Deliver(x) \/ Lose(x) \/ DeliverUnasked(x)
  \/ WorkerStep
  \/ IncomingFails
  \/ CheckStep
  \/ RetryStep
  \/ Crash

Spec == Init /\ [][Next]_vars

(* The jobs and the calls of a running process go on; a service that is    *)
(* asked again and again for an entity delivers it in the end.              *)
Fairness ==
  /\ \A n \in Nonce : WF_vars(CallerStep(n))
  /\ WF_vars(WorkerStep)
  /\ WF_vars(CheckStep)
  /\ WF_vars(RetryStep)
  /\ \A x \in Id : SF_vars(Deliver(x))

FairSpec == Spec /\ Fairness
-----------------------------------------------------------------------------
(* A request that was ever reported complete has the content of every      *)
(* entity it asked for, filed under its nonce: getResponse misses nothing.  *)
CompleteIsAnswered ==
  \A n \in Nonce : requests[n] \in {"complete", "removed", "cleaned"} =>
    \A x \in want[n] : HasResponse(x, n)

(* The false positive checkRequestCompletion was debugged for: a request is *)
(* never complete while an entity is still pending for it.                  *)
CompleteHasNoPending ==
  \A n \in Nonce : requests[n] \notin {"none", "open"} => \A x \in Id : n \notin pending[x]

(* What is announced to the account indexers in memory is true of the       *)
(* store they read next: the request is complete there.                     *)
AnnouncedIsComplete ==
  \A n \in announced : requests[n] \notin {"none", "open"}

(* An entity an open request still misses is on record as pending for it:   *)
(* neither a crash nor a failure can make the retry job forget it.          *)
MissingIsPending ==
  \A n \in OpenRequests : \A x \in want[n] : n \in pending[x] \/ HasResponse(x, n)

(* What the request mutex is for: while a call has asked the fetcher for    *)
(* its entities and is not saved yet, no incoming entity it wants is judged *)
(* against the saved requests.                                              *)
NoEarlyFilter ==
  [][\A n \in Nonce : FilterIncoming /\ caller[n] = "listing" => want[n] \cap batch = {}]_vars

(* Every saved request is served in the end, whatever fails on the way,     *)
(* unless a drain of the retry job's buffers did.                           *)
ServedUnlessPoisoned ==
  \A n \in Nonce : requests[n] = "open" ~> requests[n] # "open" \/ poisoned # {}

(* Every saved request is served in the end. It is not, when a drain failed:*)
(* no run checks it.                                                        *)
OpenIsServed == \A n \in Nonce : requests[n] = "open" ~> requests[n] # "open"

(* Every call returns or fails: nobody keeps the mutex.                     *)
CallsReturn == \A n \in Nonce : caller[n] = "waiting" ~> caller[n] \in {"returned", "failed"}

(* remove() promises to "remove nonce from nonceIndex". The store's merge   *)
(* brings it back: no run checks it.                                        *)
RemovedIsUnindexed ==
  \A n \in Nonce : requests[n] = "cleaned" => \A x \in Id : n \notin indexed[x]

(* The requests as the account indexers see them. *)
BoardStatus(r) ==
  IF r = "none" THEN "new" ELSE IF r \in {"removed", "cleaned"} THEN "gone" ELSE r

Board == INSTANCE RequestBoard WITH
  status <- [n \in Nonce |-> BoardStatus(requests[n])],
  wanted <- [n \in Nonce |-> IF requests[n] = "none" THEN {} ELSE want[n]],
  known <- parsed

(* The entity fetcher implements the request board. *)
ImplementsBoard == Board!BoardSpec
-----------------------------------------------------------------------------
(* The inductive invariant behind the safety properties. *)

(* Every entity of a saved request is filed under it, and every entity an   *)
(* open one misses is pending for it.                                       *)
SavedRequestsInv ==
  \A n \in Nonce :
    /\ requests[n] # "none" => caller[n] = "returned" /\ \A x \in want[n] : n \in indexed[x]
    /\ requests[n] = "open" => \A x \in want[n] : n \in pending[x] \/ x \in parsed
    /\ requests[n] \notin {"none", "open"} =>
         want[n] \subseteq parsed /\ \A x \in Id : n \notin pending[x]

(* A call that is listing has recorded all the ids its stream produced, and *)
(* nothing else.                                                            *)
CallsInv ==
  \A n \in Nonce :
    /\ caller[n] \in {"idle", "waiting"} =>
         chunk[n] = {} /\ \A x \in Id : n \notin pending[x]
    /\ caller[n] = "listing" =>
         /\ requests[n] = "none"
         /\ left[n] \cup chunk[n] \subseteq want[n]
         /\ \A x \in Id : n \in pending[x] => x \in want[n]
         /\ \A x \in want[n] \ left[n] :
              n \in indexed[x] /\ (x \in chunk[n] \/ n \in pending[x] \/ x \in parsed)

(* What the jobs hold in memory is still true of the stores when they act.  *)
JobsInv ==
  /\ worker = "stored" => Ids(hits) \subseteq parsed
  /\ toRemove \subseteq parsed
  /\ toCheck \subseteq OpenRequests
  /\ verdict # NoNonce =>
       /\ checking
       /\ verdict \in OpenRequests \ toCheck
       /\ \A x \in Id : verdict \notin pending[x]
  /\ announced \subseteq {n \in Nonce : requests[n] \notin {"none", "open"}}

(* A call that is listing holds the mutex. *)
MutexInv == \A n \in Nonce : caller[n] = "listing" => Holds(n)

IInv == TypeOK /\ SavedRequestsInv /\ CallsInv /\ JobsInv /\ MutexInv
=============================================================================
