----------------------------- MODULE EntityFetcher -----------------------------
(***************************************************************************)
(* The entity fetcher of the fetcher service, and the way of an entity back *)
(* to who asked for it. Indexers ask for entities by id; the ids go through *)
(* three stored pools: "pending" sorts out those that are cached, "fetch"   *)
(* gets the others from the blockchain and caches them, "cache" sends what  *)
(* is cached as events to a parser, which sends it to the indexers.         *)
(***************************************************************************)
EXTENDS PendingWorkPool

CONSTANTS
  Call,         (* calls of fetchEntitiesById, made again until answered   *)
  AsksFor,      (* [Call -> SUBSET Id]                                     *)
  PeerOf,       (* [Call -> Peer]: the indexer that makes the call         *)
  MaxQueueSize, (* of the pool "pending"                                   *)
  Existing,     (* the ids that the blockchain knows                       *)
  FaultKinds,   (* among "crash", "remote", "parse"                        *)
  MaxFaults,    (* how many faults a run has                               *)
  MaxCalls      (* how many calls are made without waiting for quiet pools *)

ASSUME PoolAssumption == Pool = {"pending", "cache", "fetch"}
ASSUME CallAssumption ==
  /\ AsksFor \in [Call -> SUBSET Id \ {{}}] /\ PeerOf \in [Call -> Peer]
ASSUME BoundsAssumption == MaxQueueSize \in Nat /\ MaxFaults \in Nat /\ MaxCalls \in Nat

VARIABLES
  cache,        (* entityCacheDAL: the ids whose raw entity is stored      *)
  raw,          (* events to the parser: works sent, not parsed yet        *)
  answered,     (* <<x, p>>: the entity came to the indexer                *)
  owed,         (* ids accepted and not sent since, see Owe                *)
  faults,
  calls         (* counts the calls up to MaxCalls                         *)

vars == <<works, runner, chunk, cache, raw, answered, owed, faults, calls>>
pipeVars == <<calls, raw, answered, owed>>

HandlerStep ==
  {"free", "loaded", "split", "moved", "read", "fetching", "fetched", "cached", "handled"}

TypeOK ==
  /\ PoolTypeOK
  /\ \A s \in Slot : chunk[s].step \in HandlerStep
  /\ cache \subseteq Id
  /\ raw \in [Id -> SUBSET Peer]
  /\ answered \subseteq Id \X Peer
  /\ owed \subseteq Id
  /\ faults \in 0..MaxFaults
  /\ calls \in 0..MaxCalls

Init ==
  /\ PoolInit
  /\ cache = {}
  /\ raw = NoWorks
  /\ answered = {}
  /\ owed = {}
  /\ faults = 0
  /\ calls = 0

Fault(kind) ==
  /\ kind \in FaultKinds
  /\ faults < MaxFaults
  /\ faults' = faults + 1
-----------------------------------------------------------------------------
Answered(c) == \A x \in AsksFor[c] : <<x, PeerOf[c]>> \in answered

WorksOf(c) == [x \in Id |-> IF x \in AsksFor[c] THEN {PeerOf[c]} ELSE {}]

(* What an id accepted now is owed. When its record is in the hands of a    *)
(* handler that removes it unseen, nothing is: see README.                  *)
Owe(S) ==
  owed \cup {x \in S : \A s \in SlotsOf("pending") \cup SlotsOf("cache") : x \notin Held(s)}

Quiet ==
  /\ \A p \in Pool : runner[p].phase = "idle"
  /\ \A s \in Slot : ~Busy(s)
  /\ raw = NoWorks

(* fetchEntitiesById: the works are saved unless the queue has no room for  *)
(* them; then the call is logged and otherwise ignored.                     *)
FetchEntitiesById(c) ==
  /\ ~Answered(c)
  /\ Cardinality(Stored(works["pending"])) + Cardinality(AsksFor[c]) <= MaxQueueSize
  /\ calls < MaxCalls \/ Quiet
  /\ calls' = IF calls < MaxCalls THEN calls + 1 ELSE calls
  /\ AddWork("pending", WorksOf(c))
  /\ owed' = Owe(AsksFor[c])
  /\ UNCHANGED <<chunk, cache, raw, answered, faults>>
-----------------------------------------------------------------------------
GoOn(s, step, found) == chunk' = [chunk EXCEPT ![s].step = step, ![s].found = found]

(* handlePendingEntities: which of the works have their entity cached?      *)
SplitByCache(s) ==
  /\ PoolOf(s) = "pending"
  /\ chunk[s].step = "loaded"
  /\ GoOn(s, "split", Held(s) \cap cache)
  /\ UNCHANGED <<works, runner, cache, pipeVars, faults>>

AddToFetch(s) ==
  /\ chunk[s].step = "split"
  /\ GoOn(s, "moved", chunk[s].found)
  /\ AddWork("fetch", Only(chunk[s].works, Held(s) \ chunk[s].found))
  /\ UNCHANGED <<cache, pipeVars, faults>>

(* Mutant: only what has to be fetched is handed on. *)
AddNoCached(s) ==
  /\ chunk[s].step = "moved"
  /\ GoOn(s, "handled", {})
  /\ UNCHANGED <<works, runner>>
  /\ UNCHANGED <<cache, pipeVars, faults>>

AddCached(s) ==
  /\ chunk[s].step = "moved"
  /\ GoOn(s, "handled", {})
  /\ AddWork("cache", Only(chunk[s].works, chunk[s].found))
  /\ UNCHANGED <<cache, pipeVars, faults>>
-----------------------------------------------------------------------------
(* handlePendingEntitiesCache: the entities are read, then sent.            *)
GetCached(s) ==
  /\ PoolOf(s) = "cache"
  /\ chunk[s].step = "loaded"
  /\ GoOn(s, "read", Held(s) \cap cache)
  /\ UNCHANGED <<works, runner, cache, pipeVars, faults>>

EmitEntities(s) ==
  /\ chunk[s].step = "read"
  /\ GoOn(s, "handled", {})
  /\ raw' = Saved(raw, Only(chunk[s].works, chunk[s].found))
  /\ owed' = owed \ chunk[s].found
  /\ UNCHANGED <<works, runner, cache, calls, answered, faults>>

(* ParserMsMain.onEntities: the entity goes to each of the peers of its     *)
(* work.                                                                    *)
OnEntities(x) ==
  /\ raw[x] # {}
  /\ answered' = answered \cup ({x} \X raw[x])
  /\ raw' = [raw EXCEPT ![x] = {}]
  /\ UNCHANGED <<poolVars, cache, calls, owed, faults>>

(* An entity that is not parsed is skipped, as is one whose event is lost.  *)
ParseFails(x) ==
  /\ Fault("parse")
  /\ raw[x] # {}
  /\ raw' = [raw EXCEPT ![x] = {}]
  /\ UNCHANGED <<poolVars, cache, calls, answered, owed>>
-----------------------------------------------------------------------------
(* handlePendingEntitiesFetch, fetchIds: the blockchain answers some of the *)
(* ids. Those it leaves out are asked for again, and again: the count of    *)
(* retries goes up as it goes down.                                         *)
FetchIds(s, F) ==
  LET found == chunk[s].found \cup F
  IN /\ PoolOf(s) = "fetch"
     /\ chunk[s].step \in {"loaded", "fetching"}
     /\ F # {} /\ F \subseteq (Held(s) \cap Existing) \ chunk[s].found
     /\ GoOn(s, IF found = Held(s) THEN "fetched" ELSE "fetching", found)
     /\ UNCHANGED <<works, runner, cache, pipeVars, faults>>

SaveFetched(s) ==
  /\ chunk[s].step = "fetched"
  /\ GoOn(s, "cached", chunk[s].found)
  /\ cache' = cache \cup chunk[s].found
  /\ UNCHANGED <<works, runner, pipeVars, faults>>

AddFetched(s) ==
  /\ chunk[s].step = "cached"
  /\ GoOn(s, "handled", {})
  /\ AddWork("cache", Only(chunk[s].works, chunk[s].found))
  /\ UNCHANGED <<cache, pipeVars, faults>>

(* The remote call rejects, or answers another number of entities.          *)
FetchFails(s) ==
  /\ Fault("remote")
  /\ PoolOf(s) = "fetch"
  /\ chunk[s].step \in {"loaded", "fetching"}
  /\ chunk' = [chunk EXCEPT ![s].step = "handled", ![s].failed = TRUE]
  /\ UNCHANGED <<works, runner, cache, pipeVars>>
-----------------------------------------------------------------------------
(* checkComplete: "fetch" looks into the cache, the others say yes.         *)
Complete(s) == IF PoolOf(s) = "fetch" THEN Held(s) \cap cache ELSE Held(s)

(* A fetch that failed after another had cached the entity removes its work *)
(* all the same, and nobody sends it: it is no longer owed, see README.     *)
CheckComplete(s) ==
  /\ chunk[s].step = "handled"
  /\ RemoveComplete(s, Complete(s))
  /\ owed' = IF chunk[s].failed THEN owed \ Complete(s) ELSE owed
  /\ UNCHANGED <<cache, calls, raw, answered, faults>>

Restart ==
  /\ Fault("crash")
  /\ PoolRestart
  /\ UNCHANGED <<cache, raw, answered, owed, calls>>

HandleStep(s) ==
  \/ SplitByCache(s) \/ AddToFetch(s) \/ AddCached(s)
  \/ GetCached(s) \/ EmitEntities(s)
  \/ SaveFetched(s) \/ AddFetched(s)
  \/ CheckComplete(s)

Load(s) == LoadPendingWork(s) /\ UNCHANGED <<cache, pipeVars, faults>>
Run(p) == RunnerStep(p) /\ UNCHANGED <<cache, pipeVars, faults>>

Next ==
  \/ \E c \in Call : FetchEntitiesById(c)
  \/ \E p \in Pool : Run(p)
  \/ \E s \in Slot : Load(s) \/ HandleStep(s) \/ FetchFails(s)
  \/ \E s \in Slot : \E F \in SUBSET Id : FetchIds(s, F)
  \/ \E x \in Id : OnEntities(x) \/ ParseFails(x)
  \/ Restart

Spec == Init /\ [][Next]_vars

(* The indexer's retry job asks again for what has not come, and finds room *)
(* in the queue now and then; the blockchain answers each id in the end.    *)
Fairness ==
  /\ \A c \in Call : SF_vars(FetchEntitiesById(c))
  /\ \A p \in Pool : WF_vars(Run(p))
  /\ \A s \in Slot : WF_vars(Load(s) \/ HandleStep(s))
  /\ \A s \in SlotsOf("fetch") : WF_vars(\E F \in SUBSET Id : FetchIds(s, F))
  /\ WF_vars(\E x \in Id : OnEntities(x))

FairSpec == Spec /\ Fairness
-----------------------------------------------------------------------------
(* An id that was accepted is on record in one of the pools until it was    *)
(* sent, over crashes and overlapping runs: each handler adds to the next   *)
(* pool before its own record goes. (But for what checkComplete drops after *)
(* a failed fetch.)                                                         *)
NothingForgotten == TypeOK /\ \A x \in owed : \E p \in Pool : works[p][x] # {}

(* Each call is answered in the end: what one pass of the pools drops, or a *)
(* trigger that a runner about to stop overlooks, the next call brings.     *)
CallsAreAnswered == <>(\A c \in Call : Answered(c))

(* "entities not found after 3 retries": an id the blockchain does not know *)
(* keeps no other from being sent. It does, for the retries never run out:  *)
(* no run checks it.                                                        *)
MissingDoesNotBlock ==
  \A x \in Existing, c \in Call : x \in AsksFor[c] => <>(<<x, PeerOf[c]>> \in answered)
=============================================================================
