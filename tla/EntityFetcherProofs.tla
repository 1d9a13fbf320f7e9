-------------------------- MODULE EntityFetcherProofs --------------------------
(***************************************************************************)
(* For any ids, callers, sizes of chunks, handlers at once, calls and       *)
(* faults: what an indexer asked the fetcher service for is on record until *)
(* it is sent, and a work leaves the pool "fetch" only with its entity      *)
(* cached.                                                                  *)
(***************************************************************************)
EXTENDS EntityFetcher, TLAPS

ChunkState ==
  [step : HandlerStep, works : [Id -> SUBSET Peer], found : SUBSET Id,
   failed : BOOLEAN, awaited : BOOLEAN]

ChunkType == chunk \in [Slot -> ChunkState]

RestType ==
  /\ cache \subseteq Id
  /\ raw \in [Id -> SUBSET Peer]
  /\ answered \subseteq Id \X Peer
  /\ owed \subseteq Id
  /\ faults \in 0..MaxFaults
  /\ calls \in 0..MaxCalls

Types == PoolTypeOK /\ ChunkType /\ RestType

(* Each step belongs to one pool, only a fetch fails, and a run waits only  *)
(* for handlers at work.                                                    *)
StepInv(s) ==
  /\ chunk[s].awaited => Busy(s)
  /\ chunk[s].step \in {"split", "moved"} => PoolOf(s) = "pending"
  /\ chunk[s].step = "read" => PoolOf(s) = "cache"
  /\ chunk[s].step \in {"fetching", "fetched", "cached"} => PoolOf(s) = "fetch"
  /\ chunk[s].failed => PoolOf(s) = "fetch"

(* What a handler knows to be cached stays so, as nothing leaves the cache. *)
CacheInv(s) ==
  /\ PoolOf(s) = "cache" => Held(s) \subseteq cache
  /\ chunk[s].step \in {"split", "moved"} => chunk[s].found \subseteq cache
  /\ chunk[s].step \in {"read", "fetched", "cached"} => chunk[s].found = Held(s)
  /\ chunk[s].step = "cached" => Held(s) \subseteq cache
  /\ PoolOf(s) = "fetch" /\ chunk[s].step = "handled" /\ ~chunk[s].failed => Held(s) \subseteq cache

ToSendIsCached == \A x \in Id : works["cache"][x] # {} => x \in cache

(* A handler of "pending" has still to add x to the next pool, which will   *)
(* be "cache" when x was cached before it looked.                           *)
WillAdd(s, x) ==
  chunk[s].step \in {"loaded", "split"} \/ (chunk[s].step = "moved" /\ x \in chunk[s].found)

WillAddCached(s, x) ==
  chunk[s].step = "loaded" \/ (chunk[s].step \in {"split", "moved"} /\ x \in chunk[s].found)

Ahead(x) ==
  /\ works["pending"][x] # {}
  /\ \A s \in SlotsOf("pending") : x \in Held(s) => WillAdd(s, x)

AheadOfCache(x) ==
  /\ works["pending"][x] # {}
  /\ \A s \in SlotsOf("pending") : x \in Held(s) => WillAddCached(s, x)

(* An id that is owed has a record that no handler removes unseen: one that *)
(* is sent is not owed, and one that is fetched has a record further on.    *)
OwedInv(x) ==
  x \in owed =>
    /\ works["fetch"][x] # {} \/ works["cache"][x] # {} \/ Ahead(x)
    /\ \A s \in SlotsOf("cache") : x \in Held(s) => chunk[s].step # "handled"
    /\ \A s \in SlotsOf("fetch") :
         x \in Held(s) /\ chunk[s].step = "handled" /\ ~chunk[s].failed =>
           works["cache"][x] # {} \/ AheadOfCache(x)

IInv ==
  /\ Types
  /\ \A s \in Slot : StepInv(s) /\ CacheInv(s)
  /\ ToSendIsCached
  /\ \A x \in Id : OwedInv(x)
-----------------------------------------------------------------------------
LEMMA SlotsAre ==
  /\ \A p \in Pool : \A s \in SlotsOf(p) : s \in Slot /\ PoolOf(s) = p
  /\ \A s \in Slot : PoolOf(s) \in Pool /\ s \in SlotsOf(PoolOf(s))
BY DEF Slot, SlotsOf, PoolOf

LEMMA TypesAre ==
  ASSUME Types PROVE TypeOK
BY DEF Types, TypeOK, RestType, ChunkType, ChunkState

(* A handler goes on, and the others stay as they are.                      *)
Moves(s) ==
  /\ chunk' \in [Slot -> ChunkState]
  /\ Busy(s) /\ chunk'[s].step # "free"
  /\ chunk'[s].works = chunk[s].works /\ chunk'[s].awaited = chunk[s].awaited
  /\ chunk'[s].found \subseteq Held(s)
  /\ \A t \in Slot : t # s => chunk'[t] = chunk[t]

(* Works are added at most, and runners are triggered.                      *)
Grows ==
  /\ works' \in [Pool -> [Id -> SUBSET Peer]]
  /\ runner' \in [Pool -> RunnerState]
  /\ \A p \in Pool :
       /\ \A x \in Id : works[p][x] \subseteq works'[p][x]
       /\ runner'[p].keys = runner[p].keys /\ runner'[p].exit = runner[p].exit
       /\ runner'[p].timer = runner[p].timer
       /\ runner[p].phase = "running" => runner'[p].phase = "running"

Adds(p, new) ==
  /\ Grows
  /\ \A x \in Id : works'[p][x] = works[p][x] \cup new[x]
  /\ \A q \in Pool \ {p} : works'[q] = works[q]

(* A trigger of the runner, by works that are added.                        *)
LEMMA TriggerState ==
  ASSUME NEW h \in RunnerState
  PROVE  LET t == Triggered([h EXCEPT !.skipSleep = TRUE])
         IN  /\ t \in RunnerState
             /\ t.keys = h.keys /\ t.exit = h.exit /\ t.timer = h.timer
             /\ h.phase = "running" => t.phase = "running"
BY DEF Triggered, RunnerState

LEMMA AddWorkAdds ==
  ASSUME Types, NEW p \in Pool, NEW new \in [Id -> SUBSET Peer], AddWork(p, new)
  PROVE  Adds(p, new)
<1>1. works \in [Pool -> [Id -> SUBSET Peer]] /\ runner \in [Pool -> RunnerState]
  BY DEF Types, PoolTypeOK
<1>2. CASE Stored(new) = {}
  <2>1. works' = works /\ runner' = runner
    BY <1>2 DEF AddWork
  <2>2. \A x \in Id : new[x] = {}
    BY <1>2 DEF Stored
  <2>3. QED
    BY <1>1, <2>1, <2>2 DEF Adds, Grows
<1>3. CASE Stored(new) # {}
  <2> DEFINE h == runner[p]
             t == Triggered([h EXCEPT !.skipSleep = TRUE])
  <2>1. /\ t \in RunnerState
        /\ t.keys = h.keys /\ t.exit = h.exit /\ t.timer = h.timer
        /\ h.phase = "running" => t.phase = "running"
    BY <1>1, TriggerState
  <2>2. /\ works' = [works EXCEPT ![p] = Saved(works[p], new)]
        /\ runner' = [runner EXCEPT ![p] = t]
    BY <1>3 DEF AddWork
  <2>3. /\ Saved(works[p], new) \in [Id -> SUBSET Peer]
        /\ \A x \in Id : Saved(works[p], new)[x] = works[p][x] \cup new[x]
    BY <1>1 DEF Saved
  <2> HIDE DEF t
  <2>4. /\ works' \in [Pool -> [Id -> SUBSET Peer]]
        /\ \A x \in Id : works'[p][x] = works[p][x] \cup new[x]
        /\ \A q \in Pool \ {p} : works'[q] = works[q]
    BY <1>1, <2>2, <2>3
  <2>5. /\ runner' \in [Pool -> RunnerState]
        /\ runner'[p] = t
        /\ \A q \in Pool \ {p} : runner'[q] = runner[q]
    BY <1>1, <2>1, <2>2
  <2>6. \A q \in Pool :
          /\ \A x \in Id : works[q][x] \subseteq works'[q][x]
          /\ runner'[q].keys = runner[q].keys /\ runner'[q].exit = runner[q].exit
          /\ runner'[q].timer = runner[q].timer
          /\ runner[q].phase = "running" => runner'[q].phase = "running"
    BY <2>1, <2>4, <2>5
  <2>7. QED
    BY <2>4, <2>5, <2>6 DEF Adds, Grows
<1>4. QED
  BY <1>2, <1>3

LEMMA StaysGrows ==
  ASSUME Types, UNCHANGED <<works, runner>>
  PROVE  Grows
BY DEF Types, PoolTypeOK, Grows

(* Handlers keep what they were given.                                      *)
LEMMA MovesHeld ==
  ASSUME Types, NEW s \in Slot, Moves(s)
  PROVE  /\ \A t \in Slot : Held(t)' = Held(t) /\ (Busy(t)' <=> Busy(t))
         /\ \A t \in Slot : chunk'[t].works = chunk[t].works /\ chunk'[t].awaited = chunk[t].awaited
<1>1. \A t \in Slot : chunk'[t].works = chunk[t].works /\ chunk'[t].awaited = chunk[t].awaited
  BY DEF Moves
<1>2. \A t \in Slot : Held(t)' = Held(t)
  BY <1>1 DEF Held
<1>3. \A t \in Slot : Busy(t)' <=> Busy(t)
  BY DEF Moves, Busy
<1>4. QED
  BY <1>1, <1>2, <1>3

LEMMA MovesTypes ==
  ASSUME Types, NEW s \in Slot, Moves(s), Grows
  PROVE  PoolTypeOK' /\ ChunkType'
<1>1. ChunkType'
  BY DEF Moves, ChunkType
<1>2. \A p \in Pool : runner'[p].timer \/ runner'[p].exit \/ runner'[p].keys # {}
                        => runner'[p].phase = "running"
  BY DEF Types, PoolTypeOK, Grows
<1>3. ASSUME NEW t \in Slot
      PROVE  /\ chunk'[t].works \in [Id -> SUBSET Peer]
             /\ chunk'[t].found \subseteq Held(t)'
             /\ chunk'[t].failed \in BOOLEAN
             /\ chunk'[t].awaited => runner'[PoolOf(t)].phase = "running"
             /\ Busy(t)' <=> Held(t)' # {}
  <2>1. /\ Held(t)' = Held(t) /\ (Busy(t)' <=> Busy(t))
        /\ chunk'[t].works = chunk[t].works /\ chunk'[t].awaited = chunk[t].awaited
    BY MovesHeld
  <2>2. chunk'[t].found \subseteq Held(t)
    BY DEF Moves, Types, PoolTypeOK
  <2>3. chunk'[t].failed \in BOOLEAN /\ chunk'[t].works \in [Id -> SUBSET Peer]
    BY DEF Moves, ChunkState
  <2>4. chunk'[t].awaited => runner'[PoolOf(t)].phase = "running"
    BY <2>1, SlotsAre DEF Types, PoolTypeOK, Grows
  <2>5. Busy(t) <=> Held(t) # {}
    BY DEF Types, PoolTypeOK
  <2>6. QED
    BY <2>1, <2>2, <2>3, <2>4, <2>5
<1>4. works' \in [Pool -> [Id -> SUBSET Peer]] /\ runner' \in [Pool -> RunnerState]
  BY DEF Grows
<1>5. QED
  BY <1>1, <1>2, <1>3, <1>4 DEF PoolTypeOK

LEMMA MovesOthers ==
  ASSUME IInv, NEW s \in Slot, Moves(s), cache \subseteq cache', NEW t \in Slot, t # s
  PROVE  StepInv(t)' /\ CacheInv(t)'
<1>1. chunk'[t] = chunk[t] /\ StepInv(t) /\ CacheInv(t)
  BY DEF IInv, Moves
<1>2. Held(t)' = Held(t) /\ (Busy(t)' <=> Busy(t))
  BY <1>1 DEF Held, Busy
<1>3. StepInv(t)'
  BY <1>1, <1>2 DEF StepInv
<1>4. CacheInv(t)'
  BY <1>1, <1>2 DEF CacheInv
<1>5. QED
  BY <1>3, <1>4

(* One handler's step keeps what is owed on record if that handler does:    *)
(* what the other handlers have to add, they still have.                    *)
OwedMove(s, x) ==
  /\ PoolOf(s) = "pending" /\ WillAdd(s, x)
       => WillAdd(s, x)' \/ works'["fetch"][x] # {} \/ works'["cache"][x] # {}
  /\ PoolOf(s) = "pending" /\ x \in cache /\ WillAddCached(s, x)
       => WillAddCached(s, x)' \/ works'["cache"][x] # {}
  /\ PoolOf(s) = "cache" => chunk'[s].step # "handled"
  /\ PoolOf(s) = "fetch" /\ chunk'[s].step = "handled" /\ ~chunk'[s].failed
       => works'["cache"][x] # {}

LEMMA MovesOwed ==
  ASSUME IInv, NEW s \in Slot, Moves(s), Grows, NEW x \in Id, x \in owed,
         x \in Held(s) => OwedMove(s, x)
  PROVE  OwedInv(x)'
<1>1. /\ \A t \in Slot : Held(t)' = Held(t)
      /\ \A t \in Slot : t # s => chunk'[t] = chunk[t]
  BY MovesHeld DEF IInv, Moves
<1>2. "pending" \in Pool /\ "fetch" \in Pool /\ "cache" \in Pool
  BY PoolAssumption
<1>3. \A p \in Pool : works[p][x] # {} => works'[p][x] # {}
  BY DEF Grows
<1>4. \A t \in Slot : t # s => (WillAdd(t, x)' <=> WillAdd(t, x)) /\ (WillAddCached(t, x)' <=> WillAddCached(t, x))
  BY <1>1 DEF WillAdd, WillAddCached
<1>5. OwedInv(x)
  BY DEF IInv
<1>6. Ahead(x) => Ahead(x)' \/ works'["fetch"][x] # {} \/ works'["cache"][x] # {}
  <2>1. \A t \in SlotsOf("pending") : t \in Slot /\ PoolOf(t) = "pending"
    BY <1>2, SlotsAre
  <2>2. SUFFICES ASSUME Ahead(x), works'["fetch"][x] = {}, works'["cache"][x] = {} PROVE Ahead(x)'
    OBVIOUS
  <2>3. ASSUME NEW t \in SlotsOf("pending"), x \in Held(t)' PROVE WillAdd(t, x)'
    <3>1. WillAdd(t, x)
      BY <1>1, <2>1, <2>2, <2>3 DEF Ahead
    <3>2. CASE t = s
      BY <1>1, <2>1, <2>2, <2>3, <3>1, <3>2 DEF OwedMove
    <3>3. CASE t # s
      BY <1>4, <2>1, <3>1, <3>3
    <3>4. QED
      BY <3>2, <3>3
  <2>4. QED
    BY <1>2, <1>3, <2>2, <2>3 DEF Ahead
<1>7. x \in cache /\ AheadOfCache(x) => AheadOfCache(x)' \/ works'["cache"][x] # {}
  <2>1. \A t \in SlotsOf("pending") : t \in Slot /\ PoolOf(t) = "pending"
    BY <1>2, SlotsAre
  <2>2. SUFFICES ASSUME x \in cache, AheadOfCache(x), works'["cache"][x] = {} PROVE AheadOfCache(x)'
    OBVIOUS
  <2>3. ASSUME NEW t \in SlotsOf("pending"), x \in Held(t)' PROVE WillAddCached(t, x)'
    <3>1. WillAddCached(t, x)
      BY <1>1, <2>1, <2>2, <2>3 DEF AheadOfCache
    <3>2. CASE t = s
      BY <1>1, <2>1, <2>2, <2>3, <3>1, <3>2 DEF OwedMove
    <3>3. CASE t # s
      BY <1>4, <2>1, <3>1, <3>3
    <3>4. QED
      BY <3>2, <3>3
  <2>4. QED
    BY <1>2, <1>3, <2>2, <2>3 DEF AheadOfCache
<1>8. ASSUME NEW t \in SlotsOf("cache"), x \in Held(t)' PROVE chunk'[t].step # "handled"
  <2>1. t \in Slot /\ PoolOf(t) = "cache"
    BY <1>2, SlotsAre
  <2>2. CASE t = s
    BY <1>1, <1>8, <2>1, <2>2 DEF OwedMove
  <2>3. CASE t # s
    BY <1>1, <1>5, <1>8, <2>1, <2>3 DEF OwedInv
  <2>4. QED
    BY <2>2, <2>3
<1>9. ASSUME NEW t \in SlotsOf("fetch"),
             x \in Held(t)' /\ chunk'[t].step = "handled" /\ ~chunk'[t].failed
      PROVE  works'["cache"][x] # {} \/ AheadOfCache(x)'
  <2>1. t \in Slot /\ PoolOf(t) = "fetch"
    BY <1>2, SlotsAre
  <2>2. CASE t = s
    BY <1>1, <1>9, <2>1, <2>2 DEF OwedMove
  <2>3. CASE t # s
    <3>1. x \in Held(t) /\ chunk[t].step = "handled" /\ ~chunk[t].failed
      BY <1>1, <1>9, <2>1, <2>3
    <3>2. x \in cache
      BY <2>1, <3>1 DEF IInv, CacheInv
    <3>3. works["cache"][x] # {} \/ AheadOfCache(x)
      BY <1>5, <3>1 DEF OwedInv
    <3>4. QED
      BY <1>2, <1>3, <1>7, <3>2, <3>3
  <2>4. QED
    BY <2>2, <2>3
<1>10. QED
  BY <1>2, <1>3, <1>5, <1>6, <1>8, <1>9 DEF OwedInv

LEMMA MovesKeeps ==
  ASSUME IInv, NEW s \in Slot, Moves(s), Grows, RestType', cache \subseteq cache',
         StepInv(s)', CacheInv(s)', ToSendIsCached', owed' \subseteq owed,
         \A x \in Held(s) \cap owed' : OwedMove(s, x)
  PROVE  IInv'
<1>1. Types'
  BY MovesTypes DEF IInv, Types
<1>2. \A t \in Slot : StepInv(t)' /\ CacheInv(t)'
  BY MovesOthers
<1>3. ASSUME NEW x \in Id PROVE OwedInv(x)'
  <2>1. CASE x \in owed'
    BY <2>1, MovesOwed
  <2>2. CASE x \notin owed'
    BY <2>2 DEF OwedInv
  <2>3. QED
    BY <2>1, <2>2
<1>4. QED
  BY <1>1, <1>2, <1>3 DEF IInv
-----------------------------------------------------------------------------
(* The handlers' steps.                                                     *)
LEMMA GoOnMoves ==
  ASSUME Types, NEW s \in Slot, Busy(s), NEW step \in HandlerStep \ {"free"},
         NEW F \in SUBSET Held(s), GoOn(s, step, F)
  PROVE  /\ Moves(s)
         /\ chunk'[s].step = step /\ chunk'[s].found = F
         /\ chunk'[s].failed = chunk[s].failed
<1>1. chunk \in [Slot -> ChunkState] /\ F \in SUBSET Id
  BY DEF Types, ChunkType, Held, Stored
<1>2. chunk' = [chunk EXCEPT ![s].step = step, ![s].found = F]
  BY DEF GoOn
<1>3. /\ chunk' \in [Slot -> ChunkState]
      /\ chunk'[s].step = step /\ chunk'[s].found = F
      /\ chunk'[s].failed = chunk[s].failed /\ chunk'[s].works = chunk[s].works
      /\ chunk'[s].awaited = chunk[s].awaited
      /\ \A t \in Slot : t # s => chunk'[t] = chunk[t]
  BY <1>1, <1>2 DEF ChunkState
<1>4. QED
  BY <1>3 DEF Moves

(* What is held is a work with its peers; what is found is held.            *)
LEMMA HeldFound ==
  ASSUME Types, NEW s \in Slot
  PROVE  /\ Held(s) \subseteq Id /\ chunk[s].found \subseteq Held(s)
         /\ \A S : Only(chunk[s].works, S) \in [Id -> SUBSET Peer]
         /\ \A S : \A x \in Held(s) \cap S : Only(chunk[s].works, S)[x] # {}
         /\ \A S : \A x \in Id \ S : Only(chunk[s].works, S)[x] = {}
         /\ chunk[s].step # "free" <=> Busy(s)
BY DEF Types, PoolTypeOK, Held, Stored, Only, Busy

LEMMA SplitByCacheKeeps ==
  ASSUME IInv, NEW s \in Slot, SplitByCache(s)
  PROVE  IInv'
<1>1. /\ PoolOf(s) = "pending" /\ chunk[s].step = "loaded" /\ Busy(s)
      /\ GoOn(s, "split", Held(s) \cap cache)
      /\ UNCHANGED <<works, runner, cache, raw, answered, owed, calls, faults>>
  BY DEF SplitByCache, pipeVars, Busy
<1>2. /\ Moves(s) /\ chunk'[s].step = "split" /\ chunk'[s].found = Held(s) \cap cache
      /\ chunk'[s].failed = chunk[s].failed /\ Held(s)' = Held(s) /\ (Busy(s)' <=> Busy(s))
  BY <1>1, GoOnMoves, MovesHeld DEF IInv, HandlerStep
<1>3. Grows /\ RestType'
  BY <1>1, StaysGrows DEF IInv, Types, RestType
<1>4. StepInv(s)' /\ CacheInv(s)' /\ ToSendIsCached'
  BY <1>1, <1>2 DEF IInv, StepInv, CacheInv, ToSendIsCached
<1>5. \A x \in Held(s) : OwedMove(s, x)
  BY <1>1, <1>2 DEF OwedMove, WillAdd, WillAddCached
<1>6. QED
  BY <1>1, <1>2, <1>3, <1>4, <1>5, MovesKeeps

LEMMA AddToFetchKeeps ==
  ASSUME IInv, NEW s \in Slot, AddToFetch(s)
  PROVE  IInv'
<1> DEFINE new == Only(chunk[s].works, Held(s) \ chunk[s].found)
<1>1. /\ PoolOf(s) = "pending" /\ chunk[s].step = "split" /\ Busy(s)
      /\ GoOn(s, "moved", chunk[s].found) /\ AddWork("fetch", new)
      /\ UNCHANGED <<cache, raw, answered, owed, calls, faults>>
  BY DEF IInv, StepInv, AddToFetch, pipeVars, Busy
<1>2. chunk[s].found \subseteq Held(s) /\ Held(s) \subseteq Id
  BY HeldFound DEF IInv
<1>3. /\ Moves(s) /\ chunk'[s].step = "moved" /\ chunk'[s].found = chunk[s].found
      /\ chunk'[s].failed = chunk[s].failed /\ Held(s)' = Held(s) /\ (Busy(s)' <=> Busy(s))
  BY <1>1, <1>2, GoOnMoves, MovesHeld DEF IInv, HandlerStep
<1>4. Adds("fetch", new)
  BY <1>1, AddWorkAdds, HeldFound, PoolAssumption DEF IInv
<1>5. Grows /\ RestType' /\ works'["cache"] = works["cache"]
  BY <1>1, <1>4, PoolAssumption DEF Adds, IInv, Types, RestType
<1>6. StepInv(s)' /\ CacheInv(s)' /\ ToSendIsCached'
  BY <1>1, <1>3, <1>5 DEF IInv, StepInv, CacheInv, ToSendIsCached
<1>7. ASSUME NEW x \in Held(s) PROVE OwedMove(s, x)
  <2>1. CASE x \in chunk[s].found
    BY <1>1, <1>3, <2>1 DEF OwedMove, WillAdd, WillAddCached
  <2>2. CASE x \notin chunk[s].found
    <3>1. new[x] # {} /\ x \in Id
      BY <1>2, <2>2, HeldFound DEF IInv
    <3>2. works'["fetch"][x] # {}
      BY <1>4, <3>1 DEF Adds
    <3>3. QED
      BY <1>1, <2>2, <3>2 DEF OwedMove, WillAddCached
  <2>3. QED
    BY <2>1, <2>2
<1>8. QED
  BY <1>1, <1>3, <1>5, <1>6, <1>7, MovesKeeps

LEMMA AddCachedKeeps ==
  ASSUME IInv, NEW s \in Slot, AddCached(s)
  PROVE  IInv'
<1> DEFINE new == Only(chunk[s].works, chunk[s].found)
<1>1. /\ PoolOf(s) = "pending" /\ chunk[s].step = "moved" /\ Busy(s)
      /\ GoOn(s, "handled", {}) /\ AddWork("cache", new)
      /\ UNCHANGED <<cache, raw, answered, owed, calls, faults>>
  BY DEF IInv, StepInv, AddCached, pipeVars, Busy
<1>2. chunk[s].found \subseteq Held(s) /\ Held(s) \subseteq Id /\ chunk[s].found \subseteq cache
  BY <1>1, HeldFound DEF IInv, CacheInv
<1>3. /\ Moves(s) /\ chunk'[s].step = "handled" /\ chunk'[s].found = {}
      /\ chunk'[s].failed = chunk[s].failed /\ Held(s)' = Held(s) /\ (Busy(s)' <=> Busy(s))
  BY <1>1, GoOnMoves, MovesHeld DEF IInv, HandlerStep
<1>4. Adds("cache", new)
  BY <1>1, AddWorkAdds, HeldFound, PoolAssumption DEF IInv
<1>5. Grows /\ RestType'
  BY <1>1, <1>4 DEF Adds, IInv, Types, RestType
<1>6. StepInv(s)' /\ CacheInv(s)'
  BY <1>1, <1>3, <1>5 DEF IInv, StepInv, CacheInv
<1>7. ToSendIsCached'
  <2>1. \A x \in Id \ chunk[s].found : new[x] = {}
    BY HeldFound DEF IInv
  <2>2. QED
    BY <1>1, <1>2, <1>4, <2>1 DEF IInv, ToSendIsCached, Adds
<1>8. ASSUME NEW x \in Held(s) PROVE OwedMove(s, x)
  <2>1. CASE x \in chunk[s].found
    <3>1. new[x] # {} /\ x \in Id
      BY <1>2, <2>1, HeldFound DEF IInv
    <3>2. works'["cache"][x] # {}
      BY <1>4, <3>1 DEF Adds
    <3>3. QED
      BY <1>1, <3>2 DEF OwedMove
  <2>2. CASE x \notin chunk[s].found
    BY <1>1, <2>2 DEF OwedMove, WillAdd, WillAddCached
  <2>3. QED
    BY <2>1, <2>2
<1>9. QED
  BY <1>1, <1>3, <1>5, <1>6, <1>7, <1>8, MovesKeeps

LEMMA GetCachedKeeps ==
  ASSUME IInv, NEW s \in Slot, GetCached(s)
  PROVE  IInv'
<1>1. /\ PoolOf(s) = "cache" /\ chunk[s].step = "loaded" /\ Busy(s)
      /\ GoOn(s, "read", Held(s) \cap cache)
      /\ UNCHANGED <<works, runner, cache, raw, answered, owed, calls, faults>>
  BY DEF GetCached, pipeVars, Busy
<1>2. /\ Moves(s) /\ chunk'[s].step = "read" /\ chunk'[s].found = Held(s) \cap cache
      /\ chunk'[s].failed = chunk[s].failed /\ Held(s)' = Held(s) /\ (Busy(s)' <=> Busy(s))
  BY <1>1, GoOnMoves, MovesHeld DEF IInv, HandlerStep
<1>3. Grows /\ RestType'
  BY <1>1, StaysGrows DEF IInv, Types, RestType
<1>4. StepInv(s)' /\ CacheInv(s)' /\ ToSendIsCached'
  BY <1>1, <1>2 DEF IInv, StepInv, CacheInv, ToSendIsCached
<1>5. \A x \in Held(s) : OwedMove(s, x)
  BY <1>1, <1>2 DEF OwedMove
<1>6. QED
  BY <1>1, <1>2, <1>3, <1>4, <1>5, MovesKeeps

LEMMA EmitEntitiesKeeps ==
  ASSUME IInv, NEW s \in Slot, EmitEntities(s)
  PROVE  IInv'
<1>1. /\ PoolOf(s) = "cache" /\ chunk[s].step = "read" /\ Busy(s)
      /\ GoOn(s, "handled", {})
      /\ raw' = Saved(raw, Only(chunk[s].works, chunk[s].found))
      /\ owed' = owed \ chunk[s].found
      /\ UNCHANGED <<works, runner, cache, calls, answered, faults>>
  BY DEF IInv, StepInv, EmitEntities, Busy
<1>2. /\ Moves(s) /\ chunk'[s].step = "handled" /\ chunk'[s].found = {}
      /\ chunk'[s].failed = chunk[s].failed /\ Held(s)' = Held(s) /\ (Busy(s)' <=> Busy(s))
  BY <1>1, GoOnMoves, MovesHeld DEF IInv, HandlerStep
<1>3. RestType'
  <2>1. Only(chunk[s].works, chunk[s].found) \in [Id -> SUBSET Peer]
    BY HeldFound DEF IInv
  <2>2. raw' \in [Id -> SUBSET Peer]
    BY <1>1, <2>1 DEF IInv, Types, RestType, Saved
  <2>3. QED
    BY <1>1, <2>2 DEF IInv, Types, RestType
<1>4. Grows
  BY <1>1, StaysGrows DEF IInv
<1>5. StepInv(s)' /\ CacheInv(s)' /\ ToSendIsCached'
  BY <1>1, <1>2 DEF IInv, StepInv, CacheInv, ToSendIsCached
<1>6. Held(s) \cap owed' = {}
  BY <1>1 DEF IInv, CacheInv
<1>7. QED
  BY <1>1, <1>2, <1>3, <1>4, <1>5, <1>6, MovesKeeps

LEMMA FetchIdsKeeps ==
  ASSUME IInv, NEW s \in Slot, NEW F \in SUBSET Id, FetchIds(s, F)
  PROVE  IInv'
<1> DEFINE found == chunk[s].found \cup F
           step == IF found = Held(s) THEN "fetched" ELSE "fetching"
<1>1. /\ PoolOf(s) = "fetch" /\ chunk[s].step \in {"loaded", "fetching"} /\ Busy(s)
      /\ F \subseteq Held(s) /\ GoOn(s, step, found)
      /\ UNCHANGED <<works, runner, cache, raw, answered, owed, calls, faults>>
  BY DEF FetchIds, pipeVars, Busy
<1>2. found \in SUBSET Held(s) /\ step \in HandlerStep \ {"free"}
  BY <1>1, HeldFound DEF IInv, HandlerStep
<1>3. /\ Moves(s) /\ chunk'[s].step = step /\ chunk'[s].found = found
      /\ chunk'[s].failed = chunk[s].failed /\ Held(s)' = Held(s) /\ (Busy(s)' <=> Busy(s))
  BY <1>1, <1>2, GoOnMoves, MovesHeld DEF IInv
<1>4. Grows /\ RestType'
  BY <1>1, StaysGrows DEF IInv, Types, RestType
<1>5. StepInv(s)' /\ CacheInv(s)' /\ ToSendIsCached'
  BY <1>1, <1>3 DEF IInv, StepInv, CacheInv, ToSendIsCached
<1>6. \A x \in Held(s) : OwedMove(s, x)
  BY <1>1, <1>3 DEF OwedMove
<1>7. QED
  BY <1>1, <1>3, <1>4, <1>5, <1>6, MovesKeeps

LEMMA SaveFetchedKeeps ==
  ASSUME IInv, NEW s \in Slot, SaveFetched(s)
  PROVE  IInv'
<1>1. /\ PoolOf(s) = "fetch" /\ chunk[s].step = "fetched" /\ Busy(s)
      /\ GoOn(s, "cached", chunk[s].found)
      /\ cache' = cache \cup chunk[s].found
      /\ UNCHANGED <<works, runner, raw, answered, owed, calls, faults>>
  BY DEF IInv, StepInv, SaveFetched, pipeVars, Busy
<1>2. chunk[s].found = Held(s) /\ Held(s) \subseteq Id
  BY <1>1, HeldFound DEF IInv, CacheInv
<1>3. /\ Moves(s) /\ chunk'[s].step = "cached" /\ chunk'[s].found = Held(s)
      /\ chunk'[s].failed = chunk[s].failed /\ Held(s)' = Held(s) /\ (Busy(s)' <=> Busy(s))
  BY <1>1, <1>2, GoOnMoves, MovesHeld DEF IInv, HandlerStep
<1>4. Grows /\ RestType'
  BY <1>1, <1>2, StaysGrows DEF IInv, Types, RestType
<1>5. StepInv(s)' /\ CacheInv(s)' /\ ToSendIsCached'
  BY <1>1, <1>2, <1>3 DEF IInv, StepInv, CacheInv, ToSendIsCached
<1>6. \A x \in Held(s) : OwedMove(s, x)
  BY <1>1, <1>3 DEF OwedMove
<1>7. QED
  BY <1>1, <1>3, <1>4, <1>5, <1>6, MovesKeeps

LEMMA AddFetchedKeeps ==
  ASSUME IInv, NEW s \in Slot, AddFetched(s)
  PROVE  IInv'
<1> DEFINE new == Only(chunk[s].works, chunk[s].found)
<1>1. /\ PoolOf(s) = "fetch" /\ chunk[s].step = "cached" /\ Busy(s)
      /\ GoOn(s, "handled", {}) /\ AddWork("cache", new)
      /\ UNCHANGED <<cache, raw, answered, owed, calls, faults>>
  BY DEF IInv, StepInv, AddFetched, pipeVars, Busy
<1>2. chunk[s].found = Held(s) /\ Held(s) \subseteq Id /\ Held(s) \subseteq cache
  BY <1>1, HeldFound DEF IInv, CacheInv
<1>3. /\ Moves(s) /\ chunk'[s].step = "handled" /\ chunk'[s].found = {}
      /\ chunk'[s].failed = chunk[s].failed /\ Held(s)' = Held(s) /\ (Busy(s)' <=> Busy(s))
  BY <1>1, GoOnMoves, MovesHeld DEF IInv, HandlerStep
<1>4. Adds("cache", new)
  BY <1>1, AddWorkAdds, HeldFound, PoolAssumption DEF IInv
<1>5. Grows /\ RestType'
  BY <1>1, <1>4 DEF Adds, IInv, Types, RestType
<1>6. StepInv(s)' /\ CacheInv(s)'
  BY <1>1, <1>2, <1>3, <1>5 DEF IInv, StepInv, CacheInv
<1>7. ToSendIsCached'
  <2>1. \A x \in Id \ Held(s) : new[x] = {}
    BY <1>2, HeldFound DEF IInv
  <2>2. QED
    BY <1>1, <1>2, <1>4, <2>1 DEF IInv, ToSendIsCached, Adds
<1>8. ASSUME NEW x \in Held(s) PROVE OwedMove(s, x)
  <2>1. new[x] # {} /\ x \in Id
    BY <1>2, HeldFound DEF IInv
  <2>2. works'["cache"][x] # {}
    BY <1>4, <2>1 DEF Adds
  <2>3. QED
    BY <1>1, <2>2 DEF OwedMove
<1>9. QED
  BY <1>1, <1>3, <1>5, <1>6, <1>7, <1>8, MovesKeeps

LEMMA FetchFailsKeeps ==
  ASSUME IInv, NEW s \in Slot, FetchFails(s)
  PROVE  IInv'
<1>1. /\ PoolOf(s) = "fetch" /\ chunk[s].step \in {"loaded", "fetching"} /\ Busy(s)
      /\ chunk' = [chunk EXCEPT ![s].step = "handled", ![s].failed = TRUE]
      /\ UNCHANGED <<works, runner, cache, raw, answered, owed, calls>>
      /\ faults < MaxFaults /\ faults' = faults + 1
  BY DEF FetchFails, Fault, pipeVars, Busy
<1>2. /\ chunk' \in [Slot -> ChunkState]
      /\ chunk'[s].step = "handled" /\ chunk'[s].failed
      /\ chunk'[s].works = chunk[s].works /\ chunk'[s].found = chunk[s].found
      /\ chunk'[s].awaited = chunk[s].awaited
      /\ \A t \in Slot : t # s => chunk'[t] = chunk[t]
  <2>1. chunk \in [Slot -> ChunkState] /\ "handled" \in HandlerStep
    BY DEF IInv, Types, ChunkType, HandlerStep
  <2>2. QED
    BY <1>1, <2>1 DEF ChunkState
<1>3. Moves(s)
  BY <1>1, <1>2, HeldFound DEF IInv, Moves
<1>4. Held(s)' = Held(s) /\ (Busy(s)' <=> Busy(s))
  BY <1>3, MovesHeld DEF IInv
<1>5. Grows /\ RestType'
  BY <1>1, StaysGrows, BoundsAssumption DEF IInv, Types, RestType
<1>6. StepInv(s)' /\ CacheInv(s)' /\ ToSendIsCached'
  BY <1>1, <1>2, <1>4 DEF IInv, StepInv, CacheInv, ToSendIsCached
<1>7. \A x \in Held(s) : OwedMove(s, x)
  BY <1>1, <1>2 DEF OwedMove
<1>8. QED
  BY <1>1, <1>3, <1>5, <1>6, <1>7, MovesKeeps
-----------------------------------------------------------------------------
(* The other steps.                                                         *)
LEMMA PoolsStay ==
  ASSUME IInv, chunk' = chunk, works' = works, cache' = cache, owed' = owed, Types'
  PROVE  IInv'
<1>1. \A s \in Slot : Held(s)' = Held(s) /\ (Busy(s)' <=> Busy(s))
  BY DEF Held, Busy
<1>2. \A s \in Slot : StepInv(s)' /\ CacheInv(s)'
  BY <1>1 DEF IInv, StepInv, CacheInv
<1>3. \A p \in Pool : \A s \in SlotsOf(p) : s \in Slot
  BY SlotsAre
<1>4. ASSUME NEW x \in Id PROVE OwedInv(x)'
  <2>1. OwedInv(x)
    BY DEF IInv
  <2>2. \A s \in Slot : (WillAdd(s, x)' <=> WillAdd(s, x)) /\ (WillAddCached(s, x)' <=> WillAddCached(s, x))
    BY DEF WillAdd, WillAddCached
  <2>3. (Ahead(x)' <=> Ahead(x)) /\ (AheadOfCache(x)' <=> AheadOfCache(x))
    BY <1>1, <1>3, <2>2, PoolAssumption DEF Ahead, AheadOfCache
  <2>4. QED
    BY <1>1, <1>3, <2>1, <2>3, PoolAssumption DEF OwedInv
<1>5. QED
  BY <1>2, <1>4 DEF IInv, ToSendIsCached

LEMMA ParserKeeps ==
  ASSUME IInv, NEW x \in Id, OnEntities(x) \/ ParseFails(x)
  PROVE  IInv'
<1>1. /\ UNCHANGED <<works, runner, chunk, cache, calls, owed>>
      /\ raw' = [raw EXCEPT ![x] = {}]
  BY DEF OnEntities, ParseFails, poolVars
<1>2. raw' \in [Id -> SUBSET Peer]
  BY <1>1 DEF IInv, Types, RestType
<1>3. answered' \subseteq Id \X Peer
  <2>1. raw[x] \subseteq Peer
    BY DEF IInv, Types, RestType
  <2>2. answered' = answered \/ answered' = answered \cup ({x} \X raw[x])
    BY DEF OnEntities, ParseFails
  <2>3. QED
    BY <2>1, <2>2 DEF IInv, Types, RestType
<1>4. faults' \in 0..MaxFaults
  BY BoundsAssumption DEF OnEntities, ParseFails, Fault, IInv, Types, RestType
<1>5. PoolTypeOK' /\ ChunkType'
  <2>1. \A s \in Slot : Held(s)' = Held(s) /\ (Busy(s)' <=> Busy(s))
    BY <1>1 DEF Held, Busy
  <2>2. QED
    BY <1>1, <2>1 DEF IInv, Types, PoolTypeOK, ChunkType
<1>6. Types'
  BY <1>1, <1>2, <1>3, <1>4, <1>5 DEF IInv, Types, RestType
<1>7. QED
  BY <1>1, <1>6, PoolsStay

LEMMA RunKeeps ==
  ASSUME IInv, NEW p \in Pool, Run(p)
  PROVE  IInv'
<1>1. /\ UNCHANGED <<works, chunk, cache, calls, raw, answered, owed, faults>>
      /\ OpenStream(p) \/ FinishRun(p) \/ CloseRun(p)
  BY DEF Run, RunnerStep, OpenStream, FinishRun, CloseRun, pipeVars
<1>2. works \in [Pool -> [Id -> SUBSET Peer]] /\ runner \in [Pool -> RunnerState]
  BY DEF IInv, Types, PoolTypeOK
<1>3. \A s \in Slot : Held(s)' = Held(s) /\ (Busy(s)' <=> Busy(s))
  BY <1>1 DEF Held, Busy
<1>4. /\ runner' \in [Pool -> RunnerState]
      /\ \A q \in Pool : q # p => runner'[q] = runner[q]
      /\ runner'[p].timer \/ runner'[p].exit \/ runner'[p].keys # {} => runner'[p].phase = "running"
      /\ \A s \in Slot : PoolOf(s) = p /\ chunk[s].awaited => runner'[p].phase = "running"
  <2>1. CASE OpenStream(p)
    <3> DEFINE h == [runner[p] EXCEPT !.phase = "running", !.again = FALSE, !.keys = Stored(works[p])]
    <3>1. runner' = [runner EXCEPT ![p] = h]
      BY <2>1 DEF OpenStream
    <3>2. h \in RunnerState /\ h.phase = "running"
      BY <1>2 DEF RunnerState, Stored
    <3> HIDE DEF h
    <3>3. QED
      BY <1>2, <3>1, <3>2
  <2>2. CASE FinishRun(p)
    <3> DEFINE h == [IdleRunner EXCEPT !.phase =
                       IF runner[p].again \/ runner[p].skipSleep \/ runner[p].timer
                         THEN "waiting" ELSE "closing"]
    <3>1. runner' = [runner EXCEPT ![p] = h]
      BY <2>2 DEF FinishRun
    <3>2. h \in RunnerState /\ ~h.timer /\ ~h.exit /\ h.keys = {}
      BY DEF IdleRunner, RunnerState
    <3>3. ASSUME NEW s \in Slot, PoolOf(s) = p PROVE ~chunk[s].awaited
      <4>1. CASE Busy(s)
        BY <2>2, <3>3, <4>1, SlotsAre DEF FinishRun
      <4>2. CASE ~Busy(s)
        BY <4>2 DEF IInv, StepInv
      <4>3. QED
        BY <4>1, <4>2
    <3> HIDE DEF h
    <3>4. QED
      BY <1>2, <3>1, <3>2, <3>3
  <2>3. CASE CloseRun(p)
    <3>1. runner' = [runner EXCEPT ![p].phase = "idle"] /\ runner[p].phase = "closing"
      BY <2>3 DEF CloseRun
    <3>2. \A s \in Slot : PoolOf(s) = p => ~chunk[s].awaited
      BY <3>1 DEF IInv, Types, PoolTypeOK
    <3>3. ~(runner[p].timer \/ runner[p].exit \/ runner[p].keys # {})
      BY <3>1 DEF IInv, Types, PoolTypeOK
    <3>4. QED
      BY <1>2, <3>1, <3>2, <3>3 DEF RunnerState
  <2>4. QED
    BY <1>1, <2>1, <2>2, <2>3
<1>5. PoolTypeOK'
  <2>1. \A q \in Pool : runner'[q].timer \/ runner'[q].exit \/ runner'[q].keys # {}
                          => runner'[q].phase = "running"
    BY <1>4 DEF IInv, Types, PoolTypeOK
  <2>2. \A s \in Slot : chunk'[s].awaited => runner'[PoolOf(s)].phase = "running"
    BY <1>1, <1>4, SlotsAre DEF IInv, Types, PoolTypeOK
  <2>3. QED
    BY <1>1, <1>3, <1>4, <2>1, <2>2 DEF IInv, Types, PoolTypeOK
<1>6. Types'
  BY <1>1, <1>5 DEF IInv, Types, RestType, ChunkType
<1>7. QED
  BY <1>1, <1>6, PoolsStay

(* A call adds to "pending". What it makes owed is in no hands there, so    *)
(* its record waits for a handler that will see it.                         *)
LEMMA FetchEntitiesByIdKeeps ==
  ASSUME IInv, NEW c \in Call, FetchEntitiesById(c)
  PROVE  IInv'
<1>1. /\ AddWork("pending", WorksOf(c)) /\ owed' = Owe(AsksFor[c])
      /\ UNCHANGED <<chunk, cache, raw, answered, faults>>
      /\ calls' = IF calls < MaxCalls THEN calls + 1 ELSE calls
  BY DEF FetchEntitiesById
<1>2. /\ AsksFor[c] \subseteq Id /\ PeerOf[c] \in Peer
      /\ WorksOf(c) \in [Id -> SUBSET Peer]
      /\ \A x \in AsksFor[c] : WorksOf(c)[x] # {}
  BY CallAssumption DEF WorksOf
<1>3. "pending" \in Pool /\ "fetch" \in Pool /\ "cache" \in Pool
  BY PoolAssumption
<1>4. Adds("pending", WorksOf(c))
  BY <1>1, <1>2, <1>3, AddWorkAdds DEF IInv
<1>5. /\ \A s \in Slot : Held(s)' = Held(s) /\ (Busy(s)' <=> Busy(s))
      /\ \A p \in Pool : \A s \in SlotsOf(p) : s \in Slot
  BY <1>1, SlotsAre DEF Held, Busy
<1>6. Types'
  <2>1. PoolTypeOK' /\ ChunkType'
    BY <1>1, <1>4, <1>5, SlotsAre DEF IInv, Types, PoolTypeOK, ChunkType, Adds, Grows
  <2>2. calls' \in 0..MaxCalls
    BY <1>1, BoundsAssumption DEF IInv, Types, RestType
  <2>3. QED
    BY <1>1, <1>2, <2>1, <2>2 DEF IInv, Types, RestType, Owe
<1>7. \A s \in Slot : StepInv(s)' /\ CacheInv(s)'
  BY <1>1, <1>5 DEF IInv, StepInv, CacheInv
<1>8. ToSendIsCached' /\ works'["fetch"] = works["fetch"] /\ works'["cache"] = works["cache"]
  BY <1>1, <1>3, <1>4 DEF IInv, ToSendIsCached, Adds
<1>9. ASSUME NEW x \in Id PROVE OwedInv(x)'
  <2>1. /\ \A s \in Slot : (WillAdd(s, x)' <=> WillAdd(s, x))
                           /\ (WillAddCached(s, x)' <=> WillAddCached(s, x))
        /\ works["pending"][x] # {} => works'["pending"][x] # {}
    BY <1>1, <1>4 DEF WillAdd, WillAddCached, Adds
  <2>2. (Ahead(x) => Ahead(x)') /\ (AheadOfCache(x) => AheadOfCache(x)')
    BY <1>3, <1>5, <2>1 DEF Ahead, AheadOfCache
  <2>3. CASE x \in owed
    BY <1>1, <1>3, <1>5, <1>8, <2>2, <2>3 DEF IInv, OwedInv
  <2>4. CASE x \in owed' /\ x \notin owed
    <3>1. x \in AsksFor[c] /\ \A s \in SlotsOf("pending") \cup SlotsOf("cache") : x \notin Held(s)
      BY <1>1, <2>4 DEF Owe
    <3>2. works'["pending"][x] # {}
      BY <1>2, <1>4, <3>1 DEF Adds
    <3>3. Ahead(x)' /\ AheadOfCache(x)'
      BY <1>3, <1>5, <3>1, <3>2 DEF Ahead, AheadOfCache
    <3>4. QED
      BY <1>3, <1>5, <3>1, <3>3 DEF OwedInv
  <2>5. CASE x \notin owed'
    BY <2>5 DEF OwedInv
  <2>6. QED
    BY <2>3, <2>4, <2>5
<1>10. QED
  BY <1>6, <1>7, <1>8, <1>9 DEF IInv

(* A handler that is given works will see each of them.                     *)
LEMMA LoadKeeps ==
  ASSUME IInv, NEW s \in Slot, Load(s)
  PROVE  IInv'
<1> DEFINE p == PoolOf(s)
           left == runner[p].keys \cap Stored(works[p])
<1>1. /\ works' = works /\ ~Busy(s) /\ runner[p].phase = "running"
      /\ UNCHANGED <<cache, calls, raw, answered, owed, faults>>
  BY DEF Load, LoadPendingWork, pipeVars
<1>2. p \in Pool /\ works \in [Pool -> [Id -> SUBSET Peer]] /\ runner \in [Pool -> RunnerState]
      /\ chunk \in [Slot -> ChunkState]
  BY SlotsAre DEF IInv, Types, PoolTypeOK, ChunkType
<1>3. PICK C \in SUBSET left :
        /\ runner' = [runner EXCEPT ![p].keys = @ \ C,
                                    ![p].exit = Cardinality(C) < ChunkSize[p]]
        /\ chunk' = IF C = {} THEN chunk
                    ELSE [chunk EXCEPT ![s] = [FreeChunk EXCEPT
                            !.step = "loaded", !.works = Only(works[p], C),
                            !.awaited = TRUE]]
  BY DEF Load, LoadPendingWork
<1> HIDE DEF p
<1>4. /\ runner' \in [Pool -> RunnerState] /\ runner'[p].phase = "running"
      /\ \A q \in Pool : q # p => runner'[q] = runner[q]
  <2> DEFINE short == Cardinality(C) < ChunkSize[p]
  <2>1. runner' = [runner EXCEPT ![p].keys = @ \ C, ![p].exit = short]
    BY <1>3
  <2>2. short \in BOOLEAN
    OBVIOUS
  <2> HIDE DEF short
  <2>3. QED
    BY <1>1, <1>2, <2>1, <2>2 DEF RunnerState
<1>5. \A q \in Pool : runner'[q].timer \/ runner'[q].exit \/ runner'[q].keys # {}
                        => runner'[q].phase = "running"
  BY <1>4 DEF IInv, Types, PoolTypeOK
<1>6. /\ chunk' \in [Slot -> ChunkState]
      /\ \A t \in Slot : t # s => chunk'[t] = chunk[t]
      /\ chunk'[s] = chunk[s] \/ (/\ C # {} /\ chunk'[s].step = "loaded"
                                  /\ chunk'[s].works = Only(works[p], C)
                                  /\ chunk'[s].found = {} /\ ~chunk'[s].failed)
  <2>1. CASE C = {}
    BY <1>2, <1>3, <2>1
  <2>2. CASE C # {}
    <3> DEFINE new == [FreeChunk EXCEPT !.step = "loaded", !.works = Only(works[p], C),
                                        !.awaited = TRUE]
    <3>1. chunk' = [chunk EXCEPT ![s] = new]
      BY <1>3, <2>2
    <3>2. Only(works[p], C) \in [Id -> SUBSET Peer]
      BY <1>2 DEF Only
    <3>3. /\ new \in ChunkState /\ new.step = "loaded" /\ new.works = Only(works[p], C)
          /\ new.found = {} /\ ~new.failed
      BY <3>2 DEF FreeChunk, ChunkState, HandlerStep
    <3> HIDE DEF new
    <3>4. QED
      BY <1>2, <2>2, <3>1, <3>3
  <2>3. QED
    BY <2>1, <2>2
<1>7. /\ Stored(Only(works[p], C)) = C /\ C \subseteq Id
      /\ \A x \in C : works[p][x] # {}
  BY <1>2 DEF Only, Stored
<1>8. \A t \in Slot : t # s => Held(t)' = Held(t) /\ (Busy(t)' <=> Busy(t))
  BY <1>6 DEF Held, Busy
<1>9. CASE chunk'[s] = chunk[s]
  <2>1. chunk' = chunk
    BY <1>2, <1>6, <1>9
  <2>2. Types'
    <3>1. \A t \in Slot : Held(t)' = Held(t) /\ (Busy(t)' <=> Busy(t))
      BY <2>1 DEF Held, Busy
    <3>2. \A t \in Slot : chunk'[t].awaited => runner'[PoolOf(t)].phase = "running"
      BY <1>4, <2>1, SlotsAre DEF IInv, Types, PoolTypeOK
    <3>3. PoolTypeOK'
      BY <1>1, <1>4, <1>5, <2>1, <3>1, <3>2 DEF IInv, Types, PoolTypeOK
    <3>4. QED
      BY <1>1, <2>1, <3>3 DEF IInv, Types, RestType, ChunkType
  <2>3. QED
    BY <1>1, <2>1, <2>2, PoolsStay
<1>10. CASE /\ C # {} /\ chunk'[s].step = "loaded"
            /\ chunk'[s].works = Only(works[p], C)
            /\ chunk'[s].found = {} /\ ~chunk'[s].failed
  <2>1. Held(s)' = C /\ Busy(s)' /\ Held(s) = {}
    <3>1. Held(s) = {}
      BY <1>1 DEF IInv, Types, PoolTypeOK
    <3>2. QED
      BY <1>7, <1>10, <3>1 DEF Held, Busy
  <2>2. ASSUME NEW t \in Slot
        PROVE  /\ chunk'[t].works \in [Id -> SUBSET Peer]
               /\ chunk'[t].found \subseteq Held(t)'
               /\ chunk'[t].failed \in BOOLEAN
               /\ chunk'[t].awaited => runner'[PoolOf(t)].phase = "running"
               /\ Busy(t)' <=> Held(t)' # {}
    <3>1. chunk'[t].works \in [Id -> SUBSET Peer] /\ chunk'[t].failed \in BOOLEAN
      BY <1>6 DEF ChunkState
    <3>2. CASE t = s
      BY <1>4, <1>10, <2>1, <3>1, <3>2 DEF p
    <3>3. CASE t # s
      BY <1>4, <1>6, <1>8, <3>1, <3>3, SlotsAre DEF IInv, Types, PoolTypeOK
    <3>4. QED
      BY <3>2, <3>3
  <2>3. Types'
    BY <1>1, <1>2, <1>4, <1>5, <1>6, <2>2 DEF IInv, Types, PoolTypeOK, RestType, ChunkType
  <2>4. \A t \in Slot : t # s => StepInv(t)' /\ CacheInv(t)'
    BY <1>1, <1>6, <1>8 DEF IInv, StepInv, CacheInv
  <2>5. StepInv(s)'
    BY <1>10, <2>1 DEF StepInv
  <2>6. CacheInv(s)'
    <3>1. p = "cache" => C \subseteq cache
      BY <1>7 DEF IInv, ToSendIsCached
    <3>2. QED
      BY <1>1, <1>10, <2>1, <3>1 DEF CacheInv, p
  <2>7. ASSUME NEW x \in Id PROVE OwedInv(x)'
    <3>1. \A q \in Pool : \A t \in SlotsOf(q) : t \in Slot
      BY SlotsAre
    <3>2. \A t \in Slot : t # s => (WillAdd(t, x)' <=> WillAdd(t, x))
                                   /\ (WillAddCached(t, x)' <=> WillAddCached(t, x))
      BY <1>6 DEF WillAdd, WillAddCached
    <3>3. WillAdd(s, x)' /\ WillAddCached(s, x)'
      BY <1>10 DEF WillAdd, WillAddCached
    <3>4. (Ahead(x) => Ahead(x)') /\ (AheadOfCache(x) => AheadOfCache(x)')
      BY <1>1, <1>8, <3>1, <3>2, <3>3, PoolAssumption DEF Ahead, AheadOfCache
    <3>5. chunk'[s].step # "handled"
      BY <1>10
    <3>6. QED
      BY <1>1, <1>6, <1>8, <3>1, <3>4, <3>5, PoolAssumption DEF IInv, OwedInv
  <2>8. QED
    BY <1>1, <2>3, <2>4, <2>5, <2>6, <2>7 DEF IInv, ToSendIsCached
<1>11. QED
  BY <1>6, <1>9, <1>10

(* A handler that is through leaves, and its complete works with it: those  *)
(* of "pending" and "fetch" have another record, those of "cache" are sent. *)
LEMMA CheckCompleteKeeps ==
  ASSUME IInv, NEW s \in Slot, CheckComplete(s)
  PROVE  IInv'
<1> DEFINE p == PoolOf(s)
           fails == chunk[s].failed /\ chunk[s].awaited
           C == Complete(s)
<1>1. /\ chunk[s].step = "handled" /\ Busy(s)
      /\ works' = [works EXCEPT ![p] = Only(@, Id \ C)]
      /\ chunk' = [t \in Slot |->
                     IF t = s THEN FreeChunk
                     ELSE IF fails /\ PoolOf(t) = p THEN [chunk[t] EXCEPT !.awaited = FALSE]
                     ELSE chunk[t]]
      /\ runner' = IF fails
                     THEN [runner EXCEPT ![p] = [@ EXCEPT !.phase = "waiting",
                             !.again = FALSE, !.keys = {}, !.exit = FALSE,
                             !.timer = FALSE]]
                     ELSE runner
      /\ owed' = IF chunk[s].failed THEN owed \ C ELSE owed
      /\ UNCHANGED <<cache, calls, raw, answered, faults>>
  BY DEF CheckComplete, RemoveComplete, Busy
<1>2. p \in Pool /\ works \in [Pool -> [Id -> SUBSET Peer]] /\ runner \in [Pool -> RunnerState]
      /\ chunk \in [Slot -> ChunkState] /\ s \in SlotsOf(p)
  BY SlotsAre DEF IInv, Types, PoolTypeOK, ChunkType
<1>3. C = (IF p = "fetch" THEN Held(s) \cap cache ELSE Held(s))
  BY DEF Complete
<1> HIDE DEF p, C
<1>4. /\ works' \in [Pool -> [Id -> SUBSET Peer]]
      /\ \A q \in Pool : q # p => works'[q] = works[q]
      /\ \A x \in Id : works'[p][x] = IF x \in C THEN {} ELSE works[p][x]
  BY <1>1, <1>2 DEF Only
<1>5. /\ FreeChunk \in ChunkState /\ FreeChunk.step = "free" /\ ~FreeChunk.awaited
      /\ FreeChunk.found = {} /\ Stored(FreeChunk.works) = {} /\ ~FreeChunk.failed
  BY DEF FreeChunk, ChunkState, HandlerStep, NoWorks, Stored
<1>6. /\ chunk' \in [Slot -> ChunkState]
      /\ chunk'[s] = FreeChunk
      /\ \A t \in Slot : t # s =>
           /\ chunk'[t].step = chunk[t].step /\ chunk'[t].works = chunk[t].works
           /\ chunk'[t].found = chunk[t].found /\ chunk'[t].failed = chunk[t].failed
           /\ chunk'[t].awaited => chunk[t].awaited
           /\ fails /\ PoolOf(t) = p => ~chunk'[t].awaited
  <2> HIDE DEF fails
  <2>1. ASSUME NEW t \in Slot, t # s
        PROVE  /\ chunk'[t] \in ChunkState
               /\ chunk'[t].step = chunk[t].step /\ chunk'[t].works = chunk[t].works
               /\ chunk'[t].found = chunk[t].found /\ chunk'[t].failed = chunk[t].failed
               /\ chunk'[t].awaited => chunk[t].awaited
               /\ fails /\ PoolOf(t) = p => ~chunk'[t].awaited
    <3>1. CASE fails /\ PoolOf(t) = p
      <4>1. chunk'[t] = [chunk[t] EXCEPT !.awaited = FALSE]
        BY <1>1, <2>1, <3>1
      <4>2. QED
        BY <1>2, <4>1 DEF ChunkState
    <3>2. CASE ~(fails /\ PoolOf(t) = p)
      <4>1. chunk'[t] = chunk[t]
        BY <1>1, <2>1, <3>2
      <4>2. QED
        BY <1>2, <3>2, <4>1
    <3>3. QED
      BY <3>1, <3>2
  <2>2. chunk'[s] = FreeChunk
    BY <1>1
  <2>3. chunk' \in [Slot -> ChunkState]
    <3>1. \A t \in Slot : chunk'[t] \in ChunkState
      BY <1>5, <2>1, <2>2
    <3>2. chunk' = [t \in Slot |-> chunk'[t]]
      BY <1>1
    <3>3. QED
      BY <3>1, <3>2
  <2>4. QED
    BY <2>1, <2>2, <2>3
<1>7. /\ Held(s)' = {} /\ ~Busy(s)'
      /\ \A t \in Slot : t # s => Held(t)' = Held(t) /\ (Busy(t)' <=> Busy(t))
  BY <1>5, <1>6 DEF Held, Busy
<1>8. /\ runner' \in [Pool -> RunnerState]
      /\ \A q \in Pool : q # p => runner'[q] = runner[q]
      /\ ~fails => runner' = runner
      /\ fails => ~(runner'[p].timer \/ runner'[p].exit \/ runner'[p].keys # {})
  <2> HIDE DEF fails
  <2>1. CASE fails
    <3> DEFINE h == [runner[p] EXCEPT !.phase = "waiting", !.again = FALSE, !.keys = {},
                                      !.exit = FALSE, !.timer = FALSE]
    <3>1. runner' = [runner EXCEPT ![p] = h]
      BY <1>1, <2>1
    <3>2. h \in RunnerState /\ ~h.timer /\ ~h.exit /\ h.keys = {}
      BY <1>2 DEF RunnerState
    <3> HIDE DEF h
    <3>3. QED
      BY <1>2, <2>1, <3>1, <3>2
  <2>2. CASE ~fails
    BY <1>1, <1>2, <2>2
  <2>3. QED
    BY <2>1, <2>2
<1>9. PoolTypeOK'
  <2>1. \A q \in Pool : runner'[q].timer \/ runner'[q].exit \/ runner'[q].keys # {}
                          => runner'[q].phase = "running"
    BY <1>8 DEF IInv, Types, PoolTypeOK
  <2>2. ASSUME NEW t \in Slot
        PROVE  /\ chunk'[t].works \in [Id -> SUBSET Peer]
               /\ chunk'[t].found \subseteq Held(t)'
               /\ chunk'[t].failed \in BOOLEAN
               /\ chunk'[t].awaited => runner'[PoolOf(t)].phase = "running"
               /\ Busy(t)' <=> Held(t)' # {}
    <3>1. chunk'[t].works \in [Id -> SUBSET Peer] /\ chunk'[t].failed \in BOOLEAN
      BY <1>6 DEF ChunkState
    <3>2. CASE t = s
      BY <1>5, <1>6, <1>7, <3>1, <3>2
    <3>3. CASE t # s
      <4>1. chunk'[t].awaited => runner'[PoolOf(t)].phase = "running"
        BY <1>6, <1>8, <3>3, SlotsAre DEF IInv, Types, PoolTypeOK
      <4>2. QED
        BY <1>6, <1>7, <3>1, <3>3, <4>1 DEF IInv, Types, PoolTypeOK
    <3>4. QED
      BY <3>2, <3>3
  <2>3. QED
    BY <1>4, <1>8, <2>1, <2>2 DEF PoolTypeOK
<1>10. Types'
  BY <1>1, <1>6, <1>9 DEF IInv, Types, RestType, ChunkType
<1>11. ASSUME NEW t \in Slot PROVE StepInv(t)' /\ CacheInv(t)'
  <2>1. CASE t = s
    BY <1>5, <1>6, <1>7, <2>1 DEF StepInv, CacheInv
  <2>2. CASE t # s
    <3>1. StepInv(t) /\ CacheInv(t)
      BY DEF IInv
    <3>2. QED
      BY <1>1, <1>6, <1>7, <2>2, <3>1 DEF StepInv, CacheInv
  <2>3. QED
    BY <2>1, <2>2
<1>12. ToSendIsCached'
  BY <1>1, <1>2, <1>4, PoolAssumption DEF IInv, ToSendIsCached
<1>13. ASSUME NEW x \in Id PROVE OwedInv(x)'
  <2>1. SUFFICES ASSUME x \in owed' PROVE OwedInv(x)'
    BY DEF OwedInv
  <2>2. x \in owed /\ OwedInv(x) /\ (chunk[s].failed => x \notin C)
    BY <1>1, <2>1 DEF IInv
  <2>3. /\ \A q \in Pool : \A t \in SlotsOf(q) : t \in Slot /\ PoolOf(t) = q
        /\ "pending" \in Pool /\ "fetch" \in Pool /\ "cache" \in Pool
    BY SlotsAre, PoolAssumption
  <2>4. /\ \A t \in Slot : t # s => (WillAdd(t, x)' <=> WillAdd(t, x))
                                    /\ (WillAddCached(t, x)' <=> WillAddCached(t, x))
        /\ x \in Held(s) => ~WillAdd(s, x) /\ ~WillAddCached(s, x)
    BY <1>1, <1>6 DEF WillAdd, WillAddCached
  <2>5. (Ahead(x) => Ahead(x)') /\ (AheadOfCache(x) => AheadOfCache(x)')
    <3>1. p = "pending" /\ x \in C => ~Ahead(x) /\ ~AheadOfCache(x)
      BY <1>2, <1>3, <2>4 DEF Ahead, AheadOfCache
    <3>2. works["pending"][x] # {} /\ ~(p = "pending" /\ x \in C) => works'["pending"][x] # {}
      BY <1>4, <2>3
    <3>3. QED
      BY <1>7, <2>3, <2>4, <3>1, <3>2 DEF Ahead, AheadOfCache
  <2>6. p = "cache" => x \notin C
    BY <1>1, <1>2, <1>3, <2>2 DEF OwedInv
  <2>7. works["cache"][x] # {} => works'["cache"][x] # {}
    BY <1>4, <2>3, <2>6
  <2>8. works["fetch"][x] # {} => works'["fetch"][x] # {} \/ works'["cache"][x] # {} \/ Ahead(x)'
    <3>1. CASE p = "fetch" /\ x \in C
      <4>1. works["cache"][x] # {} \/ AheadOfCache(x)
        BY <1>1, <1>2, <1>3, <2>2, <3>1 DEF OwedInv
      <4>2. AheadOfCache(x)' => Ahead(x)'
        BY DEF AheadOfCache, Ahead, WillAdd, WillAddCached
      <4>3. QED
        BY <2>5, <2>7, <4>1, <4>2
    <3>2. CASE ~(p = "fetch" /\ x \in C)
      BY <1>4, <2>3, <3>2
    <3>3. QED
      BY <3>1, <3>2
  <2>9. \A t \in SlotsOf("cache") : x \in Held(t)' => chunk'[t].step # "handled"
    BY <1>6, <1>7, <2>2, <2>3 DEF OwedInv
  <2>10. \A t \in SlotsOf("fetch") :
           x \in Held(t)' /\ chunk'[t].step = "handled" /\ ~chunk'[t].failed =>
             works'["cache"][x] # {} \/ AheadOfCache(x)'
    BY <1>6, <1>7, <2>2, <2>3, <2>5, <2>7 DEF OwedInv
  <2>11. QED
    BY <2>2, <2>5, <2>7, <2>8, <2>9, <2>10 DEF OwedInv
<1>14. QED
  BY <1>10, <1>11, <1>12, <1>13 DEF IInv

(* After a crash the records are still stored, and no handler is at work.   *)
LEMMA RestartKeeps ==
  ASSUME IInv, Restart
  PROVE  IInv'
<1>1. /\ runner' = [p \in Pool |-> Triggered(IdleRunner)]
      /\ chunk' = [s \in Slot |-> FreeChunk]
      /\ UNCHANGED <<works, cache, raw, answered, owed, calls>>
      /\ faults' \in 0..MaxFaults
  BY BoundsAssumption DEF Restart, PoolRestart, Fault, IInv, Types, RestType
<1>2. /\ Triggered(IdleRunner) \in RunnerState
      /\ LET t == Triggered(IdleRunner) IN ~(t.timer \/ t.exit \/ t.keys # {})
  BY DEF Triggered, IdleRunner, RunnerState
<1>3. /\ FreeChunk \in ChunkState /\ FreeChunk.step = "free" /\ ~FreeChunk.awaited
      /\ FreeChunk.found = {} /\ Stored(FreeChunk.works) = {} /\ ~FreeChunk.failed
      /\ FreeChunk.works \in [Id -> SUBSET Peer]
  BY DEF FreeChunk, ChunkState, HandlerStep, NoWorks, Stored
<1>4. \A s \in Slot : chunk'[s] = FreeChunk /\ Held(s)' = {} /\ ~Busy(s)'
  BY <1>1, <1>3 DEF Held, Busy
<1>5. Types'
  <2>1. runner' \in [Pool -> RunnerState] /\ chunk' \in [Slot -> ChunkState]
    BY <1>1, <1>2, <1>3
  <2>2. \A p \in Pool : ~(runner'[p].timer \/ runner'[p].exit \/ runner'[p].keys # {})
    BY <1>1, <1>2
  <2>3. \A s \in Slot : /\ chunk'[s].works \in [Id -> SUBSET Peer]
                        /\ chunk'[s].found \subseteq Held(s)'
                        /\ chunk'[s].failed \in BOOLEAN
                        /\ ~chunk'[s].awaited /\ ~Busy(s)' /\ Held(s)' = {}
    BY <1>3, <1>4 DEF ChunkState
  <2>4. PoolTypeOK'
    BY <1>1, <2>1, <2>2, <2>3 DEF IInv, Types, PoolTypeOK
  <2>5. QED
    BY <1>1, <2>1, <2>4 DEF IInv, Types, RestType, ChunkType
<1>6. \A s \in Slot : StepInv(s)' /\ CacheInv(s)'
  BY <1>3, <1>4 DEF StepInv, CacheInv
<1>7. ASSUME NEW x \in Id PROVE OwedInv(x)'
  <2>1. \A p \in Pool : \A s \in SlotsOf(p) : x \notin Held(s)'
    BY <1>4, SlotsAre
  <2>2. Ahead(x) => Ahead(x)'
    BY <1>1, <2>1, PoolAssumption DEF Ahead
  <2>3. QED
    BY <1>1, <2>1, <2>2, PoolAssumption DEF IInv, OwedInv
<1>8. QED
  BY <1>1, <1>5, <1>6, <1>7 DEF IInv, ToSendIsCached

LEMMA IInvInit ==
  ASSUME Init
  PROVE  IInv
<1>1. /\ works = [p \in Pool |-> NoWorks] /\ runner = [p \in Pool |-> IdleRunner]
      /\ chunk = [s \in Slot |-> FreeChunk]
      /\ cache = {} /\ raw = NoWorks /\ answered = {} /\ owed = {} /\ faults = 0 /\ calls = 0
  BY DEF Init, PoolInit
<1>2. NoWorks \in [Id -> SUBSET Peer] /\ Stored(NoWorks) = {}
  BY DEF NoWorks, Stored
<1>3. IdleRunner \in RunnerState /\ ~(IdleRunner.timer \/ IdleRunner.exit \/ IdleRunner.keys # {})
  BY DEF IdleRunner, RunnerState
<1>4. /\ FreeChunk \in ChunkState /\ FreeChunk.step = "free" /\ ~FreeChunk.awaited
      /\ FreeChunk.found = {} /\ FreeChunk.works = NoWorks /\ ~FreeChunk.failed
  BY <1>2 DEF FreeChunk, ChunkState, HandlerStep
<1>5. \A s \in Slot : chunk[s] = FreeChunk /\ Held(s) = {} /\ ~Busy(s)
  BY <1>1, <1>2, <1>4 DEF Held, Busy
<1>6. Types
  <2>1. works \in [Pool -> [Id -> SUBSET Peer]] /\ runner \in [Pool -> RunnerState]
        /\ chunk \in [Slot -> ChunkState]
    BY <1>1, <1>2, <1>3, <1>4
  <2>2. \A p \in Pool : ~(runner[p].timer \/ runner[p].exit \/ runner[p].keys # {})
    BY <1>1, <1>3
  <2>3. \A s \in Slot : /\ chunk[s].works \in [Id -> SUBSET Peer]
                        /\ chunk[s].found \subseteq Held(s)
                        /\ chunk[s].failed \in BOOLEAN
                        /\ ~chunk[s].awaited /\ ~Busy(s) /\ Held(s) = {}
    BY <1>2, <1>4, <1>5 DEF ChunkState
  <2>4. PoolTypeOK
    BY <2>1, <2>2, <2>3 DEF PoolTypeOK
  <2>5. QED
    BY <1>1, <1>2, <2>1, <2>4, BoundsAssumption DEF Types, RestType, ChunkType
<1>7. \A s \in Slot : StepInv(s) /\ CacheInv(s)
  BY <1>4, <1>5 DEF StepInv, CacheInv
<1>8. ToSendIsCached /\ \A x \in Id : OwedInv(x)
  BY <1>1, PoolAssumption DEF ToSendIsCached, OwedInv, NoWorks
<1>9. QED
  BY <1>6, <1>7, <1>8 DEF IInv
-----------------------------------------------------------------------------
LEMMA IInvStep ==
  ASSUME IInv, Next
  PROVE  IInv'
<1>1. ASSUME NEW c \in Call, FetchEntitiesById(c) PROVE IInv'
  BY <1>1, FetchEntitiesByIdKeeps
<1>2. ASSUME NEW p \in Pool, Run(p) PROVE IInv'
  BY <1>2, RunKeeps
<1>3. ASSUME NEW s \in Slot, Load(s) PROVE IInv'
  BY <1>3, LoadKeeps
<1>4. ASSUME NEW s \in Slot, HandleStep(s) PROVE IInv'
  BY <1>4, SplitByCacheKeeps, AddToFetchKeeps, AddCachedKeeps, GetCachedKeeps,
     EmitEntitiesKeeps, SaveFetchedKeeps, AddFetchedKeeps, CheckCompleteKeeps DEF HandleStep
<1>5. ASSUME NEW s \in Slot, FetchFails(s) PROVE IInv'
  BY <1>5, FetchFailsKeeps
<1>6. ASSUME NEW s \in Slot, NEW F \in SUBSET Id, FetchIds(s, F) PROVE IInv'
  BY <1>6, FetchIdsKeeps
<1>7. ASSUME NEW x \in Id, OnEntities(x) \/ ParseFails(x) PROVE IInv'
  BY <1>7, ParserKeeps
<1>8. CASE Restart
  BY <1>8, RestartKeeps
<1>9. QED
  BY <1>1, <1>2, <1>3, <1>4, <1>5, <1>6, <1>7, <1>8 DEF Next

LEMMA IInvStutter ==
  ASSUME IInv, UNCHANGED vars
  PROVE  IInv'
<1>1. \A s \in Slot : Held(s)' = Held(s) /\ (Busy(s)' <=> Busy(s))
  BY DEF vars, Held, Busy
<1>2. PoolTypeOK'
  BY <1>1 DEF vars, IInv, Types, PoolTypeOK
<1>3. Types'
  BY <1>2 DEF vars, IInv, Types, RestType, ChunkType
<1>4. QED
  BY <1>3, PoolsStay DEF vars

(* Every record, and what each handler has in hand, has its type; a handler *)
(* has works exactly while it is busy, and is awaited only by a run that    *)
(* goes on.                                                                 *)
THEOREM TypeCorrect == Spec => []TypeOK
<1>1. IInv /\ [Next]_vars => IInv'
  BY IInvStep, IInvStutter
<1>2. Init => IInv
  BY IInvInit
<1>3. IInv => TypeOK
  BY TypesAre DEF IInv
<1>4. QED
  BY <1>1, <1>2, <1>3, PTL DEF Spec

(* What fetchEntitiesById accepted has a stored record until it was sent,   *)
(* whatever crashes and fails, however many handlers are at work.           *)
THEOREM NothingIsForgotten == Spec => []NothingForgotten
<1>1. IInv /\ [Next]_vars => IInv'
  BY IInvStep, IInvStutter
<1>2. Init => IInv
  BY IInvInit
<1>3. IInv => NothingForgotten
  <2> SUFFICES ASSUME IInv, NEW x \in owed PROVE \E p \in Pool : works[p][x] # {}
    BY TypesAre DEF IInv, NothingForgotten
  <2>1. x \in Id
    BY DEF IInv, Types, RestType
  <2>2. works["fetch"][x] # {} \/ works["cache"][x] # {} \/ works["pending"][x] # {}
    BY <2>1 DEF IInv, OwedInv, Ahead
  <2>3. QED
    BY <2>2, PoolAssumption
<1>4. QED
  BY <1>1, <1>2, <1>3, PTL DEF Spec
================================================================================
