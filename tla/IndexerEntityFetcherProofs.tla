---------------------- MODULE IndexerEntityFetcherProofs ----------------------
(***************************************************************************)
(* For any number of requests and entities and any failures: the type of   *)
(* the state, the safety of completion, and the implementation of the      *)
(* request board by the indexer's entity fetcher.                          *)
(***************************************************************************)
EXTENDS IndexerEntityFetcher, TLAPS

(* The state starts with the declared type. *)
LEMMA TypeInit == Init => TypeOK
<1> SUFFICES ASSUME Init PROVE TypeOK
  OBVIOUS
<1>1. StoresTypeOK
  BY DEF Init, StoresTypeOK, RequestState
<1>2. CallsTypeOK
  BY DEF Init, CallsTypeOK, CallState
<1>3. WorkTypeOK
  BY DEF Init, WorkTypeOK, WorkState
<1>4. CheckTypeOK
  BY DEF Init, CheckTypeOK
<1>5. RetryTypeOK
  BY DEF Init, RetryTypeOK, RetryState
<1>6. EnvironmentTypeOK
  BY FaultAssumption DEF Init, EnvironmentTypeOK
<1>7. QED
  BY <1>1, <1>2, <1>3, <1>4, <1>5, <1>6 DEF TypeOK

(* Only the calls, the worker, the check and the consumer write the stores. *)
LEMMA StoresType ==
  ASSUME TypeOK, Next
  PROVE  StoresTypeOK'
<1> USE DEF TypeOK, StoresTypeOK
<1>1. ASSUME NEW n \in Nonce, NEW offer \in Offers, HandleEntityRequest(n, offer)
      PROVE  StoresTypeOK'
  BY <1>1, OffersAssumption DEF HandleEntityRequest
<1>2. ASSUME NEW n \in Nonce, CallerStep(n)
      PROVE  StoresTypeOK'
  BY <1>2 DEF CallerStep, FetchEntityIds, SaveResponsePlaceholders, SavePendingEntities,
     SaveRequest, MergedNonces, RequestState, CallsTypeOK, stored
<1>3. ASSUME NEW n \in Nonce, NEW S \in SUBSET Id, RemoveRequest(n) \/ RemoveNonceIndexes(n, S)
      PROVE  StoresTypeOK'
  BY <1>3 DEF RemoveRequest, RemoveNonceIndexes, MergedNonces, RequestState
<1>4. ASSUME NEW x \in Id, Deliver(x) \/ Lose(x) \/ DeliverUnasked(x)
      PROVE  StoresTypeOK'
  BY <1>4 DEF Deliver, Lose, DeliverUnasked, OnEntities, stored
<1>5. CASE WorkerStep
  <2>1. CASE SaveIncomingResponses
    <3>1. Ids(hits) \in SUBSET Id
      BY DEF Ids, WorkTypeOK
    <3>2. QED
      BY <2>1, <3>1 DEF SaveIncomingResponses, MergedNonces
  <2>2. CASE RemoveIncomingPending
    BY <2>2 DEF RemoveIncomingPending
  <2>3. CASE DropIncoming
    BY <2>3 DEF DropIncoming, stored
  <2>4. CASE TakeIncoming \/ FilterIncoming
    BY <2>4 DEF TakeIncoming, FilterIncoming, stored
  <2>5. QED
    BY <1>5, <2>1, <2>2, <2>3, <2>4 DEF WorkerStep
<1>6. CASE CheckStep
  BY <1>6 DEF CheckStep, StartCheck, CheckRequestCompletion, MarkComplete, FinishCheck,
     RequestState, CheckTypeOK, stored
<1>7. CASE RetryStep
  BY <1>7 DEF RetryStep, StartRetry, CheckPendingSignatures, FinishScan, RemoveAnswered,
     RetryMissing, DrainFails, stored
<1>8. CASE IncomingFails \/ Crash \/ \E n \in Nonce : RequestFails(n)
  BY <1>8 DEF IncomingFails, Crash, RequestFails, stored
<1>9. QED
  BY <1>1, <1>2, <1>3, <1>4, <1>5, <1>6, <1>7, <1>8 DEF Next

(* The calls' progress and the mutex queue change with the calls, and with  *)
(* the worker that queues and leaves.                                       *)
LEMMA CallsType ==
  ASSUME TypeOK, Next
  PROVE  CallsTypeOK'
<1> USE DEF TypeOK, CallsTypeOK, Acquire, Release, Holds
<1>1. ASSUME NEW n \in Nonce, NEW offer \in Offers, HandleEntityRequest(n, offer)
      PROVE  CallsTypeOK'
  BY <1>1 DEF HandleEntityRequest, CallState
<1>2. ASSUME NEW n \in Nonce, CallerStep(n) \/ RequestFails(n)
      PROVE  CallsTypeOK'
  <2>1. CASE FetchEntityIds(n)
    BY <2>1 DEF FetchEntityIds, StoresTypeOK, CallState
  <2>2. ASSUME NEW C \in SUBSET Id, SaveResponsePlaceholders(n, C)
        PROVE  CallsTypeOK'
    BY <2>2 DEF SaveResponsePlaceholders
  <2>3. CASE SavePendingEntities(n)
    BY <2>3 DEF SavePendingEntities
  <2>4. CASE SaveRequest(n)
    BY <2>4 DEF SaveRequest, CallState
  <2>5. CASE RequestFails(n)
    BY <2>5 DEF RequestFails, CallState
  <2>6. QED
    BY <1>2, <2>1, <2>2, <2>3, <2>4, <2>5 DEF CallerStep
<1>3. CASE WorkerStep \/ IncomingFails
  BY <1>3 DEF WorkerStep, TakeIncoming, FilterIncoming, SaveIncomingResponses,
     RemoveIncomingPending, DropIncoming, IncomingFails, callVars
<1>4. CASE Crash
  BY <1>4 DEF Crash, CallState
<1>5. CASE UNCHANGED <<callVars, mutex>>
  BY <1>5 DEF callVars
<1>6. QED
  BY <1>1, <1>2, <1>3, <1>4, <1>5 DEF Next, RemoveRequest, RemoveNonceIndexes, Deliver, Lose,
     DeliverUnasked, CheckStep, StartCheck, CheckRequestCompletion, MarkComplete,
     FinishCheck, RetryStep, StartRetry, CheckPendingSignatures, FinishScan,
     RemoveAnswered, RetryMissing, DrainFails

(* Only the worker, and the failures that stop it, change its state.        *)
LEMMA WorkType ==
  ASSUME TypeOK, Next
  PROVE  WorkTypeOK'
<1> USE DEF TypeOK, WorkTypeOK
<1>1. CASE WorkerStep
  BY <1>1 DEF WorkerStep, TakeIncoming, FilterIncoming, SaveIncomingResponses,
     RemoveIncomingPending, DropIncoming, Filtered, StoresTypeOK, WorkState
<1>2. CASE IncomingFails \/ Crash
  BY <1>2 DEF IncomingFails, Crash, WorkState
<1>3. CASE UNCHANGED workVars
  BY <1>3 DEF workVars
<1>4. QED
  BY <1>1, <1>2, <1>3 DEF Next, HandleEntityRequest, CallerStep, FetchEntityIds,
     SaveResponsePlaceholders, SavePendingEntities, SaveRequest, RequestFails,
     RemoveRequest, RemoveNonceIndexes, Deliver, Lose, DeliverUnasked, CheckStep,
     StartCheck, CheckRequestCompletion, MarkComplete, FinishCheck, RetryStep,
     StartRetry, CheckPendingSignatures, FinishScan, RemoveAnswered, RetryMissing,
     DrainFails

(* The check is driven by itself, by the worker and retry that ask for it,  *)
(* and by an empty request, which is announced at once.                     *)
LEMMA CheckType ==
  ASSUME TypeOK, Next
  PROVE  CheckTypeOK'
<1> USE DEF TypeOK, CheckTypeOK
<1>1. CASE CheckStep
  BY <1>1 DEF CheckStep, StartCheck, CheckRequestCompletion, MarkComplete, FinishCheck,
     OpenRequests, IsFirst
<1>2. ASSUME NEW n \in Nonce, SaveRequest(n)
      PROVE  CheckTypeOK'
  BY <1>2 DEF SaveRequest, checkVars
<1>3. CASE RemoveIncomingPending \/ RetryMissing \/ Crash
  BY <1>3 DEF RemoveIncomingPending, RetryMissing, DrainFails, Crash, checkVars
<1>4. CASE UNCHANGED <<checkVars, announced>>
  BY <1>4 DEF checkVars
<1>5. QED
  BY <1>1, <1>2, <1>3, <1>4 DEF Next, HandleEntityRequest, CallerStep, FetchEntityIds,
     SaveResponsePlaceholders, SavePendingEntities, RequestFails, RemoveRequest,
     RemoveNonceIndexes, Deliver, Lose, DeliverUnasked, WorkerStep, TakeIncoming,
     FilterIncoming, SaveIncomingResponses, DropIncoming, IncomingFails, RetryStep,
     StartRetry, CheckPendingSignatures, FinishScan, RemoveAnswered, DrainFails

(* The retry job owns its buffers; a crash empties them.                    *)
LEMMA RetryType ==
  ASSUME TypeOK, Next
  PROVE  RetryTypeOK'
<1> USE DEF TypeOK, RetryTypeOK
<1>1. CASE RetryStep
  BY <1>1 DEF RetryStep, StartRetry, CheckPendingSignatures, FinishScan, RemoveAnswered,
     RetryMissing, DrainFails, Saved, RetryState, Buffer
<1>2. CASE Crash
  BY <1>2 DEF Crash, RetryState
<1>3. CASE UNCHANGED retryVars
  BY <1>3 DEF retryVars
<1>4. QED
  BY <1>1, <1>2, <1>3 DEF Next, HandleEntityRequest, CallerStep, FetchEntityIds,
     SaveResponsePlaceholders, SavePendingEntities, SaveRequest, RequestFails,
     RemoveRequest, RemoveNonceIndexes, Deliver, Lose, DeliverUnasked, WorkerStep,
     TakeIncoming, FilterIncoming, SaveIncomingResponses, RemoveIncomingPending,
     DropIncoming, IncomingFails, CheckStep, StartCheck, CheckRequestCompletion,
     MarkComplete, FinishCheck

(* Requests and retries ask for entities, and failures are counted.         *)
LEMMA EnvironmentType ==
  ASSUME TypeOK, Next
  PROVE  EnvironmentTypeOK'
<1> USE FaultAssumption DEF TypeOK, EnvironmentTypeOK, Fault
<1>1. ASSUME NEW n \in Nonce, FetchEntityIds(n)
      PROVE  EnvironmentTypeOK'
  BY <1>1 DEF FetchEntityIds, StoresTypeOK
<1>2. ASSUME NEW x \in Id, Deliver(x) \/ Lose(x)
      PROVE  EnvironmentTypeOK'
  BY <1>2 DEF Deliver, Lose
<1>3. CASE RetryStep
  BY <1>3 DEF RetryStep, StartRetry, CheckPendingSignatures, FinishScan, RemoveAnswered,
     RetryMissing, DrainFails, RetryTypeOK
<1>4. CASE IncomingFails \/ Crash \/ \E n \in Nonce : RequestFails(n)
  BY <1>4 DEF IncomingFails, Crash, RequestFails
<1>5. CASE UNCHANGED <<asked, faults>>
  BY <1>5
<1>6. QED
  BY <1>1, <1>2, <1>3, <1>4, <1>5 DEF Next, HandleEntityRequest, CallerStep,
     SaveResponsePlaceholders, SavePendingEntities, SaveRequest, RemoveRequest,
     RemoveNonceIndexes, DeliverUnasked, WorkerStep, TakeIncoming, FilterIncoming,
     SaveIncomingResponses, RemoveIncomingPending, DropIncoming, CheckStep, StartCheck,
     CheckRequestCompletion, MarkComplete, FinishCheck

(* TypeOK holds in every reachable state.                                   *)
LEMMA TypeStep == TypeOK /\ [Next]_vars => TypeOK'
<1>1. ASSUME TypeOK, Next PROVE TypeOK'
  BY <1>1, StoresType, CallsType, WorkType, CheckType, RetryType, EnvironmentType DEF TypeOK
<1>2. ASSUME TypeOK, UNCHANGED vars PROVE TypeOK'
  BY <1>2 DEF TypeOK, StoresTypeOK, CallsTypeOK, WorkTypeOK, CheckTypeOK, RetryTypeOK,
     EnvironmentTypeOK, vars, stored, callVars, workVars, checkVars, retryVars
<1>3. QED
  BY <1>1, <1>2

(* The stores, the memory of the process and its mutex queue always have    *)
(* the declared types, whatever fails.                                      *)
THEOREM TypeCorrect == Spec => []TypeOK
  BY TypeInit, TypeStep, PTL DEF Spec
(* Nothing is saved, held or announced at the start. *)
LEMMA SafetyInit == Init => IInv
  BY TypeInit, NoNonceAssumption DEF Init, IInv, SavedRequestsInv, CallsInv, JobsInv, MutexInv, Ids

(* What is known of saved requests is lost by no step: only SaveRequest,    *)
(* MarkComplete and the two removals of pending records have to look at     *)
(* what the other parts of the invariant say.                               *)
LEMMA SavedRequestsStep ==
  ASSUME IInv, Next
  PROVE  SavedRequestsInv'
<1> USE DEF IInv, TypeOK, StoresTypeOK, SavedRequestsInv
<1>1. ASSUME NEW n \in Nonce, NEW offer \in Offers, HandleEntityRequest(n, offer)
      PROVE  SavedRequestsInv'
  BY <1>1 DEF HandleEntityRequest, CallsTypeOK
<1>2. ASSUME NEW n \in Nonce, CallerStep(n)
      PROVE  SavedRequestsInv'
  <2>1. CASE FetchEntityIds(n)
    BY <2>1 DEF FetchEntityIds, stored, CallsTypeOK
  <2>2. ASSUME NEW C \in SUBSET Id, SaveResponsePlaceholders(n, C)
        PROVE  SavedRequestsInv'
    BY <2>2 DEF SaveResponsePlaceholders, MergedNonces
  <2>3. CASE SavePendingEntities(n)
    BY <2>3 DEF SavePendingEntities, CallsInv
  <2>4. CASE SaveRequest(n)
    BY <2>4 DEF SaveRequest, CallsInv, CallsTypeOK
  <2>5. QED
    BY <1>2, <2>1, <2>2, <2>3, <2>4 DEF CallerStep
<1>3. ASSUME NEW n \in Nonce, NEW S \in SUBSET Id, RemoveRequest(n) \/ RemoveNonceIndexes(n, S)
      PROVE  SavedRequestsInv'
  BY <1>3 DEF RemoveRequest, RemoveNonceIndexes, MergedNonces, callVars
<1>5. CASE WorkerStep
  <2>1. CASE SaveIncomingResponses
    BY <2>1 DEF SaveIncomingResponses, MergedNonces, callVars
  <2>2. CASE RemoveIncomingPending
    BY <2>2 DEF RemoveIncomingPending, JobsInv, callVars
  <2>3. CASE DropIncoming \/ TakeIncoming \/ FilterIncoming
    BY <2>3 DEF DropIncoming, TakeIncoming, FilterIncoming, stored, callVars
  <2>5. QED
    BY <1>5, <2>1, <2>2, <2>3 DEF WorkerStep
<1>6. CASE CheckStep
  <2>1. CASE MarkComplete
    BY <2>1 DEF MarkComplete, JobsInv, OpenRequests, callVars
  <2>2. QED
    BY <1>6, <2>1 DEF CheckStep, StartCheck, CheckRequestCompletion, FinishCheck, stored, callVars
<1>7. CASE RetryStep
  <2>1. CASE RemoveAnswered
    BY <2>1 DEF RemoveAnswered, DrainFails, JobsInv, stored, callVars
  <2>2. QED
    BY <1>7, <2>1 DEF RetryStep, StartRetry, CheckPendingSignatures, FinishScan, RetryMissing,
       DrainFails, stored, callVars
<1>8. CASE Crash \/ \E n \in Nonce : RequestFails(n)
  BY <1>8 DEF Crash, RequestFails, stored, CallsTypeOK
<1>9. CASE UNCHANGED <<stored, callVars>>
  BY <1>9 DEF stored, callVars
<1>10. QED
  BY <1>1, <1>2, <1>3, <1>5, <1>6, <1>7, <1>8, <1>9 DEF Next, Deliver, Lose, DeliverUnasked, IncomingFails

(* What a listing call has recorded stays recorded, whatever the others do  *)
(* in the middle of it.                                                     *)
LEMMA CallsStep ==
  ASSUME IInv, Next
  PROVE  CallsInv'
<1> USE DEF IInv, TypeOK, StoresTypeOK, CallsTypeOK, CallsInv
<1>1. ASSUME NEW n \in Nonce, NEW offer \in Offers, HandleEntityRequest(n, offer)
      PROVE  CallsInv'
  BY <1>1 DEF HandleEntityRequest
<1>2. ASSUME NEW n \in Nonce, CallerStep(n)
      PROVE  CallsInv'
  <2>1. CASE FetchEntityIds(n)
    BY <2>1 DEF FetchEntityIds, stored, SavedRequestsInv
  <2>2. ASSUME NEW C \in SUBSET Id, SaveResponsePlaceholders(n, C)
        PROVE  CallsInv'
    BY <2>2 DEF SaveResponsePlaceholders, MergedNonces
  <2>3. CASE SavePendingEntities(n)
    BY <2>3 DEF SavePendingEntities
  <2>4. CASE SaveRequest(n)
    BY <2>4 DEF SaveRequest
  <2>5. QED
    BY <1>2, <2>1, <2>2, <2>3, <2>4 DEF CallerStep
<1>3. ASSUME NEW n \in Nonce, NEW S \in SUBSET Id, RemoveRequest(n) \/ RemoveNonceIndexes(n, S)
      PROVE  CallsInv'
  BY <1>3 DEF RemoveRequest, RemoveNonceIndexes, MergedNonces, callVars
<1>5. CASE WorkerStep
  <2>1. CASE SaveIncomingResponses
    BY <2>1 DEF SaveIncomingResponses, MergedNonces, callVars
  <2>2. CASE RemoveIncomingPending
    BY <2>2 DEF RemoveIncomingPending, JobsInv, callVars
  <2>3. CASE DropIncoming \/ TakeIncoming \/ FilterIncoming
    BY <2>3 DEF DropIncoming, TakeIncoming, FilterIncoming, stored, callVars
  <2>5. QED
    BY <1>5, <2>1, <2>2, <2>3 DEF WorkerStep
<1>6. CASE CheckStep
  <2>1. CASE MarkComplete
    BY <2>1 DEF MarkComplete, JobsInv, OpenRequests, callVars
  <2>2. QED
    BY <1>6, <2>1 DEF CheckStep, StartCheck, CheckRequestCompletion, FinishCheck, stored, callVars
<1>7. CASE RetryStep
  <2>1. CASE RemoveAnswered
    BY <2>1 DEF RemoveAnswered, DrainFails, JobsInv, stored, callVars
  <2>2. QED
    BY <1>7, <2>1 DEF RetryStep, StartRetry, CheckPendingSignatures, FinishScan, RetryMissing,
       DrainFails, stored, callVars
<1>8. CASE Crash \/ \E n \in Nonce : RequestFails(n)
  BY <1>8 DEF Crash, RequestFails, stored
<1>9. CASE UNCHANGED <<stored, callVars>>
  BY <1>9 DEF stored, callVars
<1>10. QED
  BY <1>1, <1>2, <1>3, <1>5, <1>6, <1>7, <1>8, <1>9 DEF Next, Deliver, Lose, DeliverUnasked, IncomingFails

(* The worker, the buffers and the check act on facts that no other step    *)
(* can make false between the moment they read them and the moment they     *)
(* use them.                                                                *)
LEMMA JobsStep ==
  ASSUME IInv, Next
  PROVE  JobsInv'
<1> USE DEF IInv, TypeOK, StoresTypeOK, CheckTypeOK, JobsInv, OpenRequests, Ids
<1>1. ASSUME NEW n \in Nonce, NEW offer \in Offers, HandleEntityRequest(n, offer)
      PROVE  JobsInv'
  BY <1>1 DEF HandleEntityRequest, workVars, checkVars, retryVars
<1>2. ASSUME NEW n \in Nonce, CallerStep(n)
      PROVE  JobsInv'
  <2>1. CASE FetchEntityIds(n)
    BY <2>1 DEF FetchEntityIds, stored, workVars, checkVars, retryVars
  <2>2. ASSUME NEW C \in SUBSET Id, SaveResponsePlaceholders(n, C)
        PROVE  JobsInv'
    BY <2>2 DEF SaveResponsePlaceholders, workVars, checkVars, retryVars
  <2>3. CASE SavePendingEntities(n)
    <3>1. requests[n] = "none"
      BY <2>3 DEF SavePendingEntities, CallsInv
    <3>2. QED
      BY <2>3, <3>1 DEF SavePendingEntities, workVars, checkVars, retryVars
  <2>4. CASE SaveRequest(n)
    <3>1. requests[n] = "none"
      BY <2>4 DEF SaveRequest, CallsInv
    <3>2. QED
      BY <2>4, <3>1 DEF SaveRequest, workVars, checkVars, retryVars
  <2>5. QED
    BY <1>2, <2>1, <2>2, <2>3, <2>4 DEF CallerStep
<1>3. ASSUME NEW n \in Nonce, NEW S \in SUBSET Id, RemoveRequest(n) \/ RemoveNonceIndexes(n, S)
      PROVE  JobsInv'
  BY <1>3 DEF RemoveRequest, RemoveNonceIndexes, workVars, checkVars, retryVars
<1>4. ASSUME NEW x \in Id, Deliver(x) \/ Lose(x) \/ DeliverUnasked(x)
      PROVE  JobsInv'
  BY <1>4 DEF Deliver, Lose, DeliverUnasked, stored, workVars, checkVars, retryVars
<1>5. CASE WorkerStep
  <2>1. CASE SaveIncomingResponses
    BY <2>1 DEF SaveIncomingResponses, checkVars, retryVars
  <2>2. CASE RemoveIncomingPending
    BY <2>2 DEF RemoveIncomingPending, retryVars
  <2>3. CASE DropIncoming \/ TakeIncoming \/ FilterIncoming
    BY <2>3 DEF DropIncoming, TakeIncoming, FilterIncoming, stored, checkVars, retryVars
  <2>5. QED
    BY <1>5, <2>1, <2>2, <2>3 DEF WorkerStep
<1>6. CASE CheckStep
  <2>1. CASE StartCheck
    BY <2>1 DEF StartCheck, stored, workVars, retryVars
  <2>2. ASSUME NEW n \in Nonce, CheckRequestCompletion(n)
        PROVE  JobsInv'
    <3>1. CASE HasPending(n)
      BY <2>2, <3>1 DEF CheckRequestCompletion, stored, workVars, retryVars
    <3>2. CASE ~HasPending(n)
      <4>1. n \in OpenRequests /\ \A x \in Id : n \notin pending[x]
        BY <2>2, <3>2 DEF CheckRequestCompletion, IsFirst, HasPending
      <4>2. QED
        BY <2>2, <3>2, <4>1 DEF CheckRequestCompletion, stored, workVars, retryVars
    <3>3. QED
      BY <3>1, <3>2
  <2>3. CASE MarkComplete
    BY <2>3, NoNonceAssumption DEF MarkComplete, workVars, retryVars
  <2>4. CASE FinishCheck
    BY <2>4 DEF FinishCheck, stored, workVars, retryVars
  <2>5. QED
    BY <1>6, <2>1, <2>2, <2>3, <2>4 DEF CheckStep
<1>7. CASE RetryStep
  <2>1. CASE StartRetry \/ FinishScan
    BY <2>1 DEF StartRetry, FinishScan, stored, workVars, checkVars
  <2>2. ASSUME NEW n \in Nonce, CheckPendingSignatures(n)
        PROVE  JobsInv'
    <3>1. toRemove' \subseteq parsed
      BY <2>2 DEF CheckPendingSignatures, HasResponse
    <3>2. QED
      BY <2>2, <3>1 DEF CheckPendingSignatures, stored, workVars, checkVars
  <2>3. CASE RemoveAnswered
    BY <2>3 DEF RemoveAnswered, DrainFails, stored, workVars, checkVars, Fault
  <2>4. CASE RetryMissing
    BY <2>4 DEF RetryMissing, DrainFails, stored, workVars, checkVars, Fault
  <2>5. QED
    BY <1>7, <2>1, <2>2, <2>3, <2>4 DEF RetryStep
<1>8. CASE Crash
  BY <1>8 DEF Crash, stored
<1>9. CASE IncomingFails
  BY <1>9 DEF IncomingFails, stored, checkVars, retryVars
<1>10. ASSUME NEW n \in Nonce, RequestFails(n)
       PROVE  JobsInv'
  BY <1>10 DEF RequestFails, stored, workVars, checkVars, retryVars
<1>11. QED
  BY <1>1, <1>2, <1>3, <1>4, <1>5, <1>6, <1>7, <1>8, <1>9, <1>10 DEF Next

(* Only the holder releases the mutex, and it stops listing in that step.   *)
LEMMA MutexStep ==
  ASSUME IInv, Next
  PROVE  MutexInv'
<1> USE DEF IInv, TypeOK, CallsTypeOK, MutexInv, Holds
<1>1. ASSUME NEW p \in Nonce \cup {Worker}, Acquire(p), NEW n \in Nonce, Holds(n)
      PROVE  Holds(n)'
  BY <1>1 DEF Acquire
<1>2. ASSUME NEW n \in Nonce, NEW offer \in Offers, HandleEntityRequest(n, offer)
      PROVE  MutexInv'
  BY <1>1, <1>2 DEF HandleEntityRequest
<1>3. ASSUME NEW n \in Nonce, CallerStep(n) \/ RequestFails(n)
      PROVE  MutexInv'
  BY <1>3 DEF CallerStep, FetchEntityIds, SaveResponsePlaceholders, SavePendingEntities,
     SaveRequest, RequestFails, Release
<1>4. CASE WorkerStep \/ IncomingFails
  <2>1. CASE TakeIncoming
    BY <1>1, <2>1 DEF TakeIncoming, callVars
  <2>2. CASE FilterIncoming \/ RemoveIncomingPending \/ IncomingFails
    BY <2>2, WorkerAssumption DEF FilterIncoming, RemoveIncomingPending, IncomingFails, Release, callVars
  <2>3. CASE SaveIncomingResponses \/ DropIncoming
    BY <2>3 DEF SaveIncomingResponses, DropIncoming, callVars
  <2>4. QED
    BY <1>4, <2>1, <2>2, <2>3 DEF WorkerStep
<1>5. CASE Crash
  BY <1>5 DEF Crash
<1>6. CASE UNCHANGED <<callVars, mutex>>
  BY <1>6 DEF callVars
<1>7. QED
  BY <1>2, <1>3, <1>4, <1>5, <1>6 DEF Next, RemoveRequest, RemoveNonceIndexes, Deliver, Lose,
     DeliverUnasked, CheckStep, StartCheck, CheckRequestCompletion, MarkComplete, FinishCheck,
     RetryStep, StartRetry, CheckPendingSignatures, FinishScan, RemoveAnswered, RetryMissing,
     DrainFails

(* The parts together are inductive. *)
LEMMA InvStep ==
  ASSUME IInv, [Next]_vars
  PROVE  IInv'
<1>1. CASE Next
  <2>1. TypeOK'
    BY <1>1, TypeStep DEF IInv
  <2>2. QED
    BY <1>1, <2>1, SavedRequestsStep, CallsStep, JobsStep, MutexStep DEF IInv
<1>2. CASE UNCHANGED vars
  BY <1>2 DEF vars, stored, callVars, workVars, checkVars, retryVars, IInv, TypeOK,
     StoresTypeOK, CallsTypeOK, WorkTypeOK, CheckTypeOK, RetryTypeOK, EnvironmentTypeOK,
     SavedRequestsInv, CallsInv, JobsInv, MutexInv, Holds, Ids, OpenRequests
<1>3. QED
  BY <1>1, <1>2
-----------------------------------------------------------------------------
(* The inductive invariant holds in every reachable state. *)
THEOREM InvCorrect == Spec => []IInv
<1>1. Init => IInv
  BY SafetyInit
<1>2. IInv /\ [Next]_vars => IInv'
  BY InvStep
<1>3. QED
  BY <1>1, <1>2, PTL DEF Spec

(* A request the entity fetcher reported complete, be it removed since, has *)
(* the content of every entity it asked for, filed under its nonce.         *)
THEOREM CompletionIsSound == Spec => []CompleteIsAnswered
<1>1. IInv => CompleteIsAnswered
  BY DEF IInv, TypeOK, StoresTypeOK, SavedRequestsInv, CompleteIsAnswered, HasResponse
<1>2. QED
  BY <1>1, InvCorrect, PTL

(* No entity is pending for a request that is complete. *)
THEOREM CompletionIsFinal == Spec => []CompleteHasNoPending
<1>1. IInv => CompleteHasNoPending
  BY DEF IInv, SavedRequestsInv, CompleteHasNoPending, HasPending
<1>2. QED
  BY <1>1, InvCorrect, PTL

(* Whoever is woken by a response finds its request complete. *)
THEOREM AnnouncementIsTrue == Spec => []AnnouncedIsComplete
<1>1. IInv => AnnouncedIsComplete
  BY DEF IInv, JobsInv, AnnouncedIsComplete
<1>2. QED
  BY <1>1, InvCorrect, PTL

(* The mutex keeps incoming entities from being judged before the request   *)
(* that asked for them is saved.                                            *)
THEOREM MutexProtects == Spec => NoEarlyFilter
<1>1. IInv /\ [Next]_vars =>
        [\A n \in Nonce : FilterIncoming /\ caller[n] = "listing" => want[n] \cap batch = {}]_vars
  BY WorkerAssumption DEF IInv, MutexInv, Holds, FilterIncoming
<1>2. QED
  BY <1>1, InvCorrect, PTL DEF Spec, NoEarlyFilter

(* Whatever crashes and fails, an entity an open request misses stays on    *)
(* record for the retry job.                                                *)
THEOREM NothingIsForgotten == Spec => []MissingIsPending
<1>1. IInv => MissingIsPending
  BY DEF IInv, TypeOK, StoresTypeOK, SavedRequestsInv, MissingIsPending, OpenRequests, HasResponse
<1>2. QED
  BY <1>1, InvCorrect, PTL
-----------------------------------------------------------------------------
(* The step of the board for a step that leaves saved requests and entities *)
(* alone is no step.                                                        *)
LEMMA BoardStutters ==
  ASSUME requests' = requests, parsed' = parsed,
         \A n \in Nonce : requests[n] # "none" => want'[n] = want[n]
  PROVE  UNCHANGED Board!boardVars
BY DEF Board!boardVars, BoardStatus

(* Every step of the entity fetcher is a step of the board, or none.        *)
LEMMA BoardStep ==
  ASSUME IInv, Next
  PROVE  [Board!BoardNext]_Board!boardVars
<1> USE DEF IInv, TypeOK, StoresTypeOK
<1>1. ASSUME NEW n \in Nonce, NEW offer \in Offers, HandleEntityRequest(n, offer)
      PROVE  UNCHANGED Board!boardVars
  <2>1. requests[n] = "none"
    BY <1>1 DEF HandleEntityRequest, SavedRequestsInv
  <2>2. QED
    BY <1>1, <2>1, BoardStutters DEF HandleEntityRequest
<1>2. ASSUME NEW n \in Nonce, SaveRequest(n)
      PROVE  want[n] \in SUBSET Id /\ Board!Open(n, want[n])
  <2>1. requests[n] = "none"
    BY <1>2 DEF SaveRequest, CallsInv
  <2>2. QED
    BY <1>2, <2>1 DEF SaveRequest, Board!Open, BoardStatus
<1>3. ASSUME SaveIncomingResponses
      PROVE  Board!Learn(Ids(hits)) /\ Ids(hits) \in SUBSET Id
  BY <1>3 DEF SaveIncomingResponses, Board!Learn, WorkTypeOK, Ids
<1>4. ASSUME MarkComplete
      PROVE  verdict \in Nonce /\ Board!Complete(verdict)
  <2>1. verdict \in Nonce /\ requests[verdict] = "open"
    BY <1>4 DEF MarkComplete, JobsInv, OpenRequests
  <2>2. want[verdict] \subseteq parsed
    BY <1>4, <2>1 DEF MarkComplete, JobsInv, SavedRequestsInv
  <2>3. Board!Complete(verdict)
    BY <1>4, <2>1, <2>2 DEF MarkComplete, Board!Complete, BoardStatus
  <2>4. QED
    BY <2>1, <2>3
<1>5. ASSUME NEW n \in Nonce, RemoveRequest(n)
      PROVE  Board!Close(n)
  BY <1>5 DEF RemoveRequest, Board!Close, BoardStatus
<1>6. ASSUME NEW n \in Nonce, NEW S \in SUBSET Id, RemoveNonceIndexes(n, S)
      PROVE  UNCHANGED Board!boardVars
  BY <1>6 DEF RemoveNonceIndexes, BoardStatus, Board!boardVars
<1>7. CASE requests' = requests /\ parsed' = parsed /\ want' = want
  BY <1>7, BoardStutters
<1>8. CASE \E n \in Nonce : CallerStep(n)
  <2>1. PICK n \in Nonce : CallerStep(n)
    BY <1>8
  <2>2. CASE SaveRequest(n)
    <3>1. want[n] \in SUBSET Id
      BY <1>2, <2>2
    <3>2. Board!Open(n, want[n])
      BY <1>2, <2>2
    <3>3. QED
      BY <3>1, <3>2 DEF Board!BoardNext, Board!Open
  <2>3. CASE ~SaveRequest(n)
    BY <1>7, <2>1, <2>3 DEF CallerStep, FetchEntityIds, SaveResponsePlaceholders,
       SavePendingEntities, stored
  <2>4. QED
    BY <2>2, <2>3
<1>9. CASE WorkerStep \/ CheckStep \/ RetryStep
  <2>1. CASE SaveIncomingResponses
    BY <1>3, <2>1 DEF Board!BoardNext
  <2>2. CASE MarkComplete
    BY <1>4, <2>2 DEF Board!BoardNext
  <2>3. CASE WorkerStep /\ ~SaveIncomingResponses
    BY <1>7, <2>3 DEF WorkerStep, TakeIncoming, FilterIncoming, RemoveIncomingPending,
       DropIncoming, stored
  <2>4. CASE CheckStep /\ ~MarkComplete
    BY <1>7, <2>4 DEF CheckStep, StartCheck, CheckRequestCompletion, FinishCheck, stored
  <2>5. CASE RetryStep
    BY <1>7, <2>5 DEF RetryStep, StartRetry, CheckPendingSignatures, FinishScan,
       RemoveAnswered, RetryMissing, DrainFails, stored
  <2>6. QED
    BY <1>9, <2>1, <2>2, <2>3, <2>4, <2>5
<1>10. CASE IncomingFails \/ Crash \/ \E n \in Nonce : RequestFails(n)
  BY <1>7, <1>10 DEF IncomingFails, Crash, RequestFails, stored
<1>11. CASE \E x \in Id : Deliver(x) \/ Lose(x) \/ DeliverUnasked(x)
  BY <1>7, <1>11 DEF Deliver, Lose, DeliverUnasked, stored
<1>12. CASE \E n \in Nonce : RemoveRequest(n) \/ \E S \in SUBSET Id : RemoveNonceIndexes(n, S)
  BY <1>5, <1>6, <1>12 DEF Board!BoardNext
<1>13. QED
  BY <1>1, <1>8, <1>9, <1>10, <1>11, <1>12 DEF Next

(* For every number of requests and every set of entities, the indexer's    *)
(* entity fetcher implements the request board.                             *)
THEOREM FetcherImplementsBoard == Spec => ImplementsBoard
<1>1. Init => Board!BoardInit
  BY DEF Init, Board!BoardInit, BoardStatus
<1>2. IInv /\ [Next]_vars => [Board!BoardNext]_Board!boardVars
  <2>1. CASE Next
    BY <2>1, BoardStep
  <2>2. CASE UNCHANGED vars
    BY <2>2, BoardStutters DEF vars, stored
  <2>3. QED
    BY <2>1, <2>2
<1>3. QED
  BY <1>1, <1>2, InvCorrect, PTL DEF Spec, ImplementsBoard, Board!BoardSpec

=============================================================================
