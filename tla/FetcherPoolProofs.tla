--------------------------- MODULE FetcherPoolProofs ---------------------------
(***************************************************************************)
(* For any accounts, sizes of chunks, handlers at once, calls and failures: *)
(* a job of a history fetcher never has two loops, and the runner of the    *)
(* pool never stops while an account is left to fetch for.                  *)
(***************************************************************************)
EXTENDS FetcherPool, FiniteSetTheorems, TLAPS

(* The runner of the one pool, its works, and the handlers it waits for.    *)
History == runner["history"]
Accounts == works["history"]
Awaiting(s) == chunk[s].awaited

(* What makes the runner go on when its stream is at its end.               *)
Returns(r) == r.again \/ r.skipSleep \/ r.timer

ChunkState ==
  [step : HandlerStep, works : [Id -> SUBSET Peer], found : {{}},
   failed : BOOLEAN, awaited : BOOLEAN]

ChunkType == chunk \in [Slots -> ChunkState]

(* A handler the runner waits for has accounts, and once it is through it   *)
(* has said when to come back, or failed.                                   *)
SlotInv ==
  \A s \in Slots :
    /\ Awaiting(s) => Busy(s)
    /\ Awaiting(s) /\ chunk[s].step = "handled" => chunk[s].failed \/ History.timer

(* A run that waits for no handler and will not return has all its accounts *)
(* still to read, and at the end of its stream there are none.              *)
RunInv ==
  History.phase = "running" =>
    \/ Returns(History)
    \/ \E s \in Slots : Awaiting(s)
    \/ /\ Stored(Accounts) \subseteq History.keys
       /\ History.exit => Stored(Accounts) \cap History.keys = {}

StopInv ==
  History.phase \in {"idle", "closing"} => Stored(Accounts) = {} \/ History.again

PoolInv == PoolTypeOK /\ ChunkType /\ SlotInv /\ RunInv /\ StopInv

JobInv ==
  /\ loops \in [Id -> [Direction -> 0..1]]
  /\ awaits \in [Slots -> SUBSET Direction]
  /\ elapsed \subseteq Id
  /\ complete \subseteq Id
  /\ blocks \in 0..Depth
  /\ seen \in [Id -> 0..Depth]
  /\ logs \in SUBSET Coupled
  /\ calls \in 0..MaxCalls
  /\ faults \in 0..MaxFaults

IInv == PoolInv /\ JobInv
-----------------------------------------------------------------------------
LEMMA OnePool ==
  /\ Pool = {"history"}
  /\ Slot = Slots
  /\ \A s \in Slots : PoolOf(s) = "history"
<1>1. Pool = {"history"}
  BY PoolAssumption
<1>2. Slot = Slots
  BY <1>1 DEF Slot, Slots
<1>3. \A s \in Slots : PoolOf(s) = "history"
  BY DEF Slots, SlotsOf, PoolOf
<1>4. QED
  BY <1>1, <1>2, <1>3

(* The types of one pool, without the pools' indices.                       *)
LEMMA PoolType ==
  PoolTypeOK <=>
    /\ works \in [{"history"} -> [Id -> SUBSET Peer]]
    /\ runner \in [{"history"} -> RunnerState]
    /\ History.timer \/ History.exit \/ History.keys # {} => History.phase = "running"
    /\ \A s \in Slots :
         /\ chunk[s].works \in [Id -> SUBSET Peer]
         /\ chunk[s].found \subseteq Held(s)
         /\ chunk[s].failed \in BOOLEAN
         /\ chunk[s].awaited => History.phase = "running"
         /\ Busy(s) <=> Held(s) # {}
<1>1. Pool = {"history"} /\ Slot = Slots /\ \A s \in Slots : PoolOf(s) = "history"
  BY OnePool
<1>2. QED
  BY <1>1 DEF PoolTypeOK, History

LEMMA PoolTypeNext ==
  PoolTypeOK' <=>
    /\ works' \in [{"history"} -> [Id -> SUBSET Peer]]
    /\ runner' \in [{"history"} -> RunnerState]
    /\ History'.timer \/ History'.exit \/ History'.keys # {} => History'.phase = "running"
    /\ \A s \in Slots :
         /\ chunk'[s].works \in [Id -> SUBSET Peer]
         /\ chunk'[s].found \subseteq Held(s)'
         /\ chunk'[s].failed \in BOOLEAN
         /\ chunk'[s].awaited => History'.phase = "running"
         /\ Busy(s)' <=> Held(s)' # {}
<1>1. Pool = {"history"} /\ Slot = Slots /\ \A s \in Slots : PoolOf(s) = "history"
  BY OnePool
<1>2. QED
  BY <1>1 DEF PoolTypeOK, History

LEMMA PoolStarts ==
  ASSUME PoolInit  PROVE PoolInv
<1>1. works = [p \in {"history"} |-> NoWorks] /\ runner = [p \in {"history"} |-> IdleRunner]
  BY OnePool DEF PoolInit
<1>2. chunk = [s \in Slots |-> FreeChunk]
  BY OnePool DEF PoolInit
<1>3. Stored(NoWorks) = {} /\ NoWorks \in [Id -> SUBSET Peer]
  BY DEF Stored, NoWorks
<1>4. FreeChunk \in ChunkState /\ ~FreeChunk.awaited /\ FreeChunk.step = "free"
  BY <1>3 DEF FreeChunk, ChunkState, HandlerStep
<1>5. IdleRunner \in RunnerState
  BY DEF IdleRunner, RunnerState
<1>6. History = IdleRunner /\ Accounts = NoWorks
  BY <1>1 DEF History, Accounts
<1>7. \A s \in Slots : chunk[s] = FreeChunk
  BY <1>2
<1>8. \A s \in Slots : ~Busy(s) /\ Held(s) = {} /\ chunk[s].found = {} /\ chunk[s].failed = FALSE
                        /\ chunk[s].works = NoWorks
  BY <1>7, <1>3 DEF FreeChunk, Busy, Held
<1>9. PoolTypeOK
  <2>1. ~(History.timer \/ History.exit \/ History.keys # {})
    BY <1>6 DEF IdleRunner
  <2>2. works \in [{"history"} -> [Id -> SUBSET Peer]] /\ runner \in [{"history"} -> RunnerState]
    BY <1>1, <1>3, <1>5
  <2>3. QED
    BY <2>1, <2>2, <1>3, <1>4, <1>7, <1>8, PoolType
<1>10. ChunkType /\ SlotInv
  BY <1>2, <1>4, <1>7 DEF ChunkType, SlotInv, Awaiting
<1>11. RunInv /\ StopInv
  BY <1>3, <1>6 DEF RunInv, StopInv, IdleRunner
<1>12. QED
  BY <1>9, <1>10, <1>11 DEF PoolInv
-----------------------------------------------------------------------------
(* A trigger of the runner, by works that are added.                        *)
LEMMA TriggerState ==
  ASSUME NEW h \in RunnerState
  PROVE  LET t == Triggered([h EXCEPT !.skipSleep = TRUE])
         IN  /\ t \in RunnerState
             /\ t.phase = IF h.phase = "idle" THEN "waiting" ELSE h.phase
             /\ t.skipSleep
             /\ h.phase = "closing" => t.again
             /\ t.keys = h.keys /\ t.exit = h.exit /\ t.timer = h.timer
BY DEF Triggered, RunnerState

(* Works are added: the runner is to return, or was asked to run again.     *)
LEMMA AddKeeps ==
  ASSUME PoolInv, NEW new \in [Id -> SUBSET Peer], AddWork("history", new), chunk' = chunk
  PROVE  PoolInv'
<1> USE DEF PoolInv
<1>1. CASE Stored(new) = {}
  <2>1. works' = works /\ runner' = runner
    BY <1>1 DEF AddWork
  <2>2. QED
    BY <2>1 DEF PoolTypeOK, ChunkType, SlotInv, RunInv, StopInv, History, Accounts, Awaiting, Busy, Held
<1>2. CASE Stored(new) # {}
  <2> DEFINE h == runner["history"]
             t == Triggered([h EXCEPT !.skipSleep = TRUE])
  <2>1. /\ works \in [{"history"} -> [Id -> SUBSET Peer]]
        /\ runner \in [{"history"} -> RunnerState]
        /\ h.timer \/ h.exit \/ h.keys # {} => h.phase = "running"
    BY PoolType DEF History
  <2>2. h \in RunnerState
    BY <2>1
  <2>3. /\ t \in RunnerState
        /\ t.phase = IF h.phase = "idle" THEN "waiting" ELSE h.phase
        /\ t.skipSleep
        /\ h.phase = "closing" => t.again
        /\ t.keys = h.keys /\ t.exit = h.exit /\ t.timer = h.timer
    BY <2>2, TriggerState
  <2>4. /\ works' = [works EXCEPT !["history"] = Saved(works["history"], new)]
        /\ runner' = [runner EXCEPT !["history"] = t]
    BY <1>2 DEF AddWork
  <2>5. Saved(works["history"], new) \in [Id -> SUBSET Peer]
    BY <2>1 DEF Saved
  <2> HIDE DEF t
  <2>6. works' \in [{"history"} -> [Id -> SUBSET Peer]]
    BY <2>1, <2>4, <2>5
  <2>7. runner' \in [{"history"} -> RunnerState] /\ History' = t
    BY <2>1, <2>4, <2>3 DEF History
  <2>8. PoolTypeOK'
    <3>1. History'.timer \/ History'.exit \/ History'.keys # {} => History'.phase = "running"
      BY <2>1, <2>3, <2>7
    <3>2. ASSUME NEW s \in Slots
          PROVE  /\ chunk'[s].works \in [Id -> SUBSET Peer]
                 /\ chunk'[s].found \subseteq Held(s)'
                 /\ chunk'[s].failed \in BOOLEAN
                 /\ chunk'[s].awaited => History'.phase = "running"
                 /\ Busy(s)' <=> Held(s)' # {}
      <4>1. Held(s)' = Held(s) /\ Busy(s)' = Busy(s)
        BY DEF Held, Busy
      <4>2. chunk[s].awaited => h.phase = "running"
        BY PoolType DEF History
      <4>3. QED
        BY <4>1, <4>2, <2>3, <2>7, PoolType
    <3>3. QED
      BY <2>6, <2>7, <3>1, <3>2, PoolTypeNext
  <2>9. ChunkType' /\ SlotInv'
    BY <2>3, <2>7 DEF ChunkType, SlotInv, Awaiting, Busy, History
  <2>10. RunInv' /\ StopInv'
    BY <2>2, <2>3, <2>7 DEF RunInv, StopInv, Returns, RunnerState
  <2>11. QED
    BY <2>8, <2>9, <2>10
<1>3. QED
  BY <1>1, <1>2

(* A work is removed by its id.                                             *)
LEMMA RemoveKeeps ==
  ASSUME PoolInv, NEW x \in Id, works' = [works EXCEPT !["history"][x] = {}],
         runner' = runner, chunk' = chunk
  PROVE  PoolInv'
<1>1. works \in [{"history"} -> [Id -> SUBSET Peer]]
  BY PoolType DEF PoolInv
<1>2. works' \in [{"history"} -> [Id -> SUBSET Peer]]
  BY <1>1
<1>3. Stored(Accounts)' \subseteq Stored(Accounts)
  BY <1>1 DEF Stored, Accounts
<1>4. History' = History /\ ChunkType' /\ SlotInv'
  BY DEF PoolInv, History, ChunkType, SlotInv, Awaiting, Busy
<1>5. PoolTypeOK'
  <2>1. \A s \in Slots : Held(s)' = Held(s) /\ Busy(s)' = Busy(s)
    BY DEF Held, Busy
  <2>2. QED
    BY <1>2, <1>4, <2>1, PoolType, PoolTypeNext DEF PoolInv
<1>6. RunInv' /\ StopInv'
  BY <1>3, <1>4 DEF PoolInv, RunInv, StopInv, Awaiting
<1>7. QED
  BY <1>4, <1>5, <1>6 DEF PoolInv
-----------------------------------------------------------------------------
(* A handler goes on to its next step, and says when to come back if it is  *)
(* through without a failure.                                               *)
LEMMA StepKeeps ==
  ASSUME PoolInv, NEW s \in Slots, Busy(s), works' = works,
         NEW step \in HandlerStep \ {"free"}, NEW failed \in BOOLEAN,
         chunk' = [chunk EXCEPT ![s].step = step, ![s].failed = failed],
         \/ runner' = runner /\ (step = "handled" => failed)
         \/ SleepTime(s)
  PROVE  PoolInv'
<1>1. /\ works \in [{"history"} -> [Id -> SUBSET Peer]]
      /\ runner \in [{"history"} -> RunnerState]
      /\ History.timer \/ History.exit \/ History.keys # {} => History.phase = "running"
      /\ \A t \in Slots : Awaiting(t) => History.phase = "running"
  BY PoolType DEF PoolInv, Awaiting
<1>2. chunk \in [Slots -> ChunkState]
  BY DEF PoolInv, ChunkType
<1>3. /\ chunk' \in [Slots -> ChunkState]
      /\ chunk'[s].step = step /\ chunk'[s].failed = failed
      /\ \A t \in Slots : /\ chunk'[t].works = chunk[t].works
                          /\ chunk'[t].found = chunk[t].found
                          /\ chunk'[t].awaited = chunk[t].awaited
                          /\ t # s => chunk'[t] = chunk[t]
  BY <1>2 DEF ChunkState
<1>4. \A t \in Slots : Held(t)' = Held(t) /\ (Busy(t)' <=> Busy(t))
  BY <1>3 DEF Held, Busy
<1>5. /\ runner' \in [{"history"} -> RunnerState]
      /\ History'.phase = History.phase /\ History'.keys = History.keys
      /\ History'.exit = History.exit /\ History'.again = History.again
      /\ History'.skipSleep = History.skipSleep
      /\ History.timer => History'.timer
      /\ History'.timer => History.timer \/ Awaiting(s)
      /\ step = "handled" /\ Awaiting(s) => failed \/ History'.timer
  <2>1. CASE runner' = runner /\ (step = "handled" => failed)
    BY <1>1, <2>1 DEF History
  <2>2. CASE SleepTime(s)
    BY <1>1, <2>2 DEF SleepTime, History, RunnerState, Awaiting
  <2>3. QED
    BY <2>1, <2>2
<1>6. PoolTypeOK'
  <2>1. History'.timer \/ History'.exit \/ History'.keys # {} => History'.phase = "running"
    BY <1>1, <1>5
  <2>2. ASSUME NEW t \in Slots
        PROVE  /\ chunk'[t].works \in [Id -> SUBSET Peer]
               /\ chunk'[t].found \subseteq Held(t)'
               /\ chunk'[t].failed \in BOOLEAN
               /\ chunk'[t].awaited => History'.phase = "running"
               /\ Busy(t)' <=> Held(t)' # {}
    <3>1. chunk'[t].failed \in BOOLEAN
      BY <1>3 DEF ChunkState
    <3>2. chunk'[t].awaited => History'.phase = "running"
      BY <1>1, <1>3, <1>5 DEF Awaiting
    <3>3. QED
      BY <1>3, <1>4, <3>1, <3>2, PoolType DEF PoolInv
  <2>3. QED
    BY <1>1, <1>5, <2>1, <2>2, PoolTypeNext
<1>7. SlotInv'
  <2>1. ASSUME NEW t \in Slots
        PROVE  /\ Awaiting(t)' => Busy(t)'
               /\ Awaiting(t)' /\ chunk'[t].step = "handled" => chunk'[t].failed \/ History'.timer
    <3>1. Awaiting(t)' = Awaiting(t)
      BY <1>3 DEF Awaiting
    <3>2. CASE t = s
      BY <1>3, <1>4, <1>5, <3>1, <3>2 DEF PoolInv, SlotInv
    <3>3. CASE t # s
      BY <1>3, <1>4, <1>5, <3>1, <3>3 DEF PoolInv, SlotInv
    <3>4. QED
      BY <3>2, <3>3
  <2>2. QED
    BY <2>1 DEF SlotInv
<1>8. RunInv' /\ StopInv'
  <2>1. Stored(Accounts)' = Stored(Accounts) /\ \A t \in Slots : Awaiting(t)' = Awaiting(t)
    BY <1>3 DEF Accounts, Stored, Awaiting
  <2>2. Returns(History) => Returns(History')
    BY <1>5 DEF Returns
  <2>3. RunInv'
    BY <1>5, <2>1, <2>2 DEF PoolInv, RunInv
  <2>4. StopInv'
    BY <1>5, <2>1 DEF PoolInv, StopInv
  <2>5. QED
    BY <2>3, <2>4
<1>9. QED
  BY <1>3, <1>6, <1>7, <1>8 DEF PoolInv, ChunkType
-----------------------------------------------------------------------------
(* A handler gets the next accounts of the stream, or the stream has no     *)
(* more: then none is left that it would have to read.                      *)
LEMMA LoadKeeps ==
  ASSUME PoolInv, NEW s \in Slots, LoadPendingWork(s)
  PROVE  PoolInv'
<1> DEFINE left == History.keys \cap Stored(Accounts)
<1>1. /\ works \in [{"history"} -> [Id -> SUBSET Peer]]
      /\ runner \in [{"history"} -> RunnerState]
      /\ \A t \in Slots : Awaiting(t) => History.phase = "running"
  BY PoolType DEF PoolInv, Awaiting
<1>2. chunk \in [Slots -> ChunkState]
  BY DEF PoolInv, ChunkType
<1>3. PICK C \in SUBSET left :
        /\ Cardinality(C) < ChunkSize["history"] => C = left
        /\ runner' = [runner EXCEPT !["history"].keys = @ \ C,
                                    !["history"].exit = Cardinality(C) < ChunkSize["history"]]
        /\ chunk' = IF C = {} THEN chunk
                    ELSE [chunk EXCEPT ![s] = [FreeChunk EXCEPT
                            !.step = "loaded", !.works = Only(works["history"], C),
                            !.awaited = TRUE]]
  BY OnePool DEF LoadPendingWork, History, Accounts
<1>4. ~Busy(s) /\ History.phase = "running" /\ ~History.exit /\ works' = works
  BY OnePool DEF LoadPendingWork, History
<1>5. /\ runner' \in [{"history"} -> RunnerState]
      /\ History'.phase = "running" /\ History'.keys = History.keys \ C
      /\ History'.exit = (Cardinality(C) < ChunkSize["history"])
      /\ History'.again = History.again /\ History'.skipSleep = History.skipSleep
      /\ History'.timer = History.timer
  <2>1. (Cardinality(C) < ChunkSize["history"]) \in BOOLEAN
    OBVIOUS
  <2> DEFINE short == Cardinality(C) < ChunkSize["history"]
  <2>2. runner' = [runner EXCEPT !["history"].keys = @ \ C, !["history"].exit = short]
    BY <1>3
  <2>3. short \in BOOLEAN
    BY <2>1
  <2> HIDE DEF short
  <2>4. /\ runner' \in [{"history"} -> RunnerState]
        /\ History'.phase = "running" /\ History'.keys = History.keys \ C
        /\ History'.exit = short
        /\ History'.again = History.again /\ History'.skipSleep = History.skipSleep
        /\ History'.timer = History.timer
    BY <1>1, <1>4, <2>2, <2>3 DEF History, RunnerState
  <2>5. QED
    BY <2>4 DEF short
<1>6. Stored(Accounts)' = Stored(Accounts) /\ Accounts' = Accounts
  BY <1>4 DEF Stored, Accounts
<1>7. CASE C = {}
  <2>1. chunk' = chunk
    BY <1>3, <1>7
  <2>2. C = left
    <3>1. Cardinality({}) = 0
      BY FS_EmptySet
    <3>2. ChunkSize["history"] \in Nat \ {0}
      BY ChunkSizeAssumption, OnePool
    <3>3. QED
      BY <1>3, <1>7, <3>1, <3>2
  <2>3. \A t \in Slots : /\ Held(t)' = Held(t) /\ Busy(t)' = Busy(t)
                         /\ Awaiting(t)' = Awaiting(t)
    BY <2>1 DEF Held, Busy, Awaiting
  <2>4. PoolTypeOK'
    BY <1>1, <1>4, <1>5, <2>1, <2>3, PoolType, PoolTypeNext DEF PoolInv
  <2>5. ChunkType' /\ SlotInv'
    BY <1>5, <2>1, <2>3 DEF PoolInv, ChunkType, SlotInv
  <2>6. RunInv'
    BY <1>4, <1>5, <1>6, <1>7, <2>2, <2>3 DEF PoolInv, RunInv, Returns
  <2>7. StopInv'
    BY <1>5 DEF StopInv
  <2>8. QED
    BY <2>4, <2>5, <2>6, <2>7 DEF PoolInv
<1>8. CASE C # {}
  <2> DEFINE new == [FreeChunk EXCEPT !.step = "loaded", !.works = Only(works["history"], C),
                                      !.awaited = TRUE]
  <2>1. chunk' = [chunk EXCEPT ![s] = new]
    BY <1>3, <1>8
  <2>2. Only(works["history"], C) \in [Id -> SUBSET Peer]
    BY <1>1 DEF Only
  <2>3. Stored(Only(works["history"], C)) = C
    BY DEF Only, Stored, Accounts
  <2>4. /\ new \in ChunkState /\ new.step = "loaded" /\ new.awaited
        /\ new.works = Only(works["history"], C) /\ new.found = {}
    BY <2>2 DEF FreeChunk, ChunkState, HandlerStep
  <2> HIDE DEF new
  <2>5. /\ chunk' \in [Slots -> ChunkState]
        /\ chunk'[s] = new
        /\ \A t \in Slots : t # s => chunk'[t] = chunk[t]
    BY <1>2, <2>1, <2>4
  <2>6. Awaiting(s)' /\ Busy(s)' /\ Held(s)' = C
    BY <2>3, <2>4, <2>5 DEF Awaiting, Busy, Held
  <2>7. \A t \in Slots : t # s => /\ Held(t)' = Held(t) /\ Busy(t)' = Busy(t)
                                  /\ Awaiting(t)' = Awaiting(t)
    BY <2>5 DEF Held, Busy, Awaiting
  <2>8. PoolTypeOK'
    <3>1. ASSUME NEW t \in Slots
          PROVE  /\ chunk'[t].works \in [Id -> SUBSET Peer]
                 /\ chunk'[t].found \subseteq Held(t)'
                 /\ chunk'[t].failed \in BOOLEAN
                 /\ chunk'[t].awaited => History'.phase = "running"
                 /\ Busy(t)' <=> Held(t)' # {}
      <4>1. CASE t = s
        BY <1>5, <1>8, <2>2, <2>4, <2>5, <2>6, <4>1 DEF ChunkState
      <4>2. CASE t # s
        BY <1>5, <2>5, <2>7, <4>2, PoolType DEF PoolInv
      <4>3. QED
        BY <4>1, <4>2
    <3>2. QED
      BY <1>1, <1>4, <1>5, <3>1, PoolTypeNext
  <2>9. ChunkType' /\ SlotInv'
    <3>1. ASSUME NEW t \in Slots
          PROVE  /\ Awaiting(t)' => Busy(t)'
                 /\ Awaiting(t)' /\ chunk'[t].step = "handled" => chunk'[t].failed \/ History'.timer
      <4>1. CASE t = s
        BY <2>4, <2>5, <2>6, <4>1
      <4>2. CASE t # s
        BY <1>5, <2>5, <2>7, <4>2 DEF PoolInv, SlotInv
      <4>3. QED
        BY <4>1, <4>2
    <3>2. QED
      BY <2>5, <3>1 DEF ChunkType, SlotInv
  <2>10. RunInv' /\ StopInv'
    BY <1>5, <2>6 DEF RunInv, StopInv
  <2>11. QED
    BY <2>8, <2>9, <2>10 DEF PoolInv
<1>9. QED
  BY <1>7, <1>8

(* A handler is through. Its accounts are read, so the runner is to return; *)
(* if it failed, the run is over with it.                                   *)
LEMMA CompleteKeeps ==
  ASSUME PoolInv, NEW s \in Slots, chunk[s].step = "handled", RemoveComplete(s, {})
  PROVE  PoolInv'
<1> DEFINE fails == chunk[s].failed /\ chunk[s].awaited
<1>1. /\ works \in [{"history"} -> [Id -> SUBSET Peer]]
      /\ runner \in [{"history"} -> RunnerState]
      /\ History.timer \/ History.exit \/ History.keys # {} => History.phase = "running"
      /\ \A t \in Slots : Awaiting(t) => History.phase = "running"
  BY PoolType DEF PoolInv, Awaiting
<1>2. chunk \in [Slots -> ChunkState]
  BY DEF PoolInv, ChunkType
<1>3. /\ works' = [works EXCEPT !["history"] = Only(works["history"], Id \ {})]
      /\ chunk' = [t \in Slots |->
                     IF t = s THEN FreeChunk
                     ELSE IF fails THEN [chunk[t] EXCEPT !.awaited = FALSE] ELSE chunk[t]]
      /\ runner' = IF fails
                     THEN [runner EXCEPT !["history"] = [runner["history"] EXCEPT
                             !.phase = "waiting", !.again = FALSE, !.keys = {},
                             !.exit = FALSE, !.timer = FALSE]]
                     ELSE runner
  BY OnePool DEF RemoveComplete
<1>4. works' = works
  <2>1. Only(works["history"], Id \ {}) = works["history"]
    BY <1>1 DEF Only
  <2>2. QED
    BY <1>1, <1>3, <2>1
<1>5. Stored(Accounts)' = Stored(Accounts)
  BY <1>4 DEF Stored, Accounts
<1>6. FreeChunk \in ChunkState /\ ~FreeChunk.awaited /\ FreeChunk.step = "free"
      /\ FreeChunk.works = NoWorks /\ FreeChunk.found = {} /\ FreeChunk.failed = FALSE
  BY DEF FreeChunk, ChunkState, HandlerStep, NoWorks
<1>7. Stored(NoWorks) = {} /\ NoWorks \in [Id -> SUBSET Peer]
  BY DEF Stored, NoWorks
<1>8. /\ chunk' \in [Slots -> ChunkState]
      /\ chunk'[s] = FreeChunk
      /\ \A t \in Slots : t # s => /\ chunk'[t].works = chunk[t].works
                                   /\ chunk'[t].found = chunk[t].found
                                   /\ chunk'[t].step = chunk[t].step
                                   /\ chunk'[t].failed = chunk[t].failed
                                   /\ chunk'[t].awaited = (chunk[t].awaited /\ ~fails)
  <2>1. ASSUME NEW t \in Slots
        PROVE  /\ chunk'[t] \in ChunkState
               /\ t # s => /\ chunk'[t].works = chunk[t].works
                           /\ chunk'[t].found = chunk[t].found
                           /\ chunk'[t].step = chunk[t].step
                           /\ chunk'[t].failed = chunk[t].failed
                           /\ chunk'[t].awaited = (chunk[t].awaited /\ ~fails)
    <3>1. chunk[t] \in ChunkState
      BY <1>2
    <3>2. CASE t = s
      BY <1>3, <1>6, <3>2
    <3>3. CASE t # s /\ fails
      <4>1. chunk'[t] = [chunk[t] EXCEPT !.awaited = FALSE]
        BY <1>3, <3>3
      <4>2. QED
        BY <3>1, <3>3, <4>1 DEF ChunkState
    <3>4. CASE t # s /\ ~fails
      <4>1. chunk'[t] = chunk[t]
        BY <1>3, <3>4
      <4>2. QED
        BY <3>1, <3>4, <4>1 DEF ChunkState
    <3>5. QED
      BY <3>2, <3>3, <3>4
  <2>2. chunk'[s] = FreeChunk
    BY <1>3
  <2>3. chunk' \in [Slots -> ChunkState]
    BY <1>3, <2>1
  <2>4. QED
    BY <2>1, <2>2, <2>3
<1>9. /\ Held(s)' = {} /\ ~Busy(s)' /\ ~Awaiting(s)'
      /\ \A t \in Slots : t # s => /\ Held(t)' = Held(t) /\ (Busy(t)' <=> Busy(t))
                                   /\ Awaiting(t)' = (Awaiting(t) /\ ~fails)
  BY <1>6, <1>7, <1>8 DEF Held, Busy, Awaiting
<1>10. runner' \in [{"history"} -> RunnerState] /\ (~fails => History' = History)
       /\ (fails => History'.phase = "waiting" /\ ~History'.timer /\ ~History'.exit
                    /\ History'.keys = {})
  BY <1>1, <1>3 DEF History, RunnerState
<1> HIDE DEF fails
<1>11. PoolTypeOK'
  <2>1. History'.timer \/ History'.exit \/ History'.keys # {} => History'.phase = "running"
    BY <1>1, <1>10
  <2>2. ASSUME NEW t \in Slots
        PROVE  /\ chunk'[t].works \in [Id -> SUBSET Peer]
               /\ chunk'[t].found \subseteq Held(t)'
               /\ chunk'[t].failed \in BOOLEAN
               /\ chunk'[t].awaited => History'.phase = "running"
               /\ Busy(t)' <=> Held(t)' # {}
    <3>1. CASE t = s
      BY <1>6, <1>7, <1>8, <1>9, <3>1
    <3>2. CASE t # s
      <4>1. chunk'[t].awaited => History'.phase = "running"
        BY <1>1, <1>8, <1>10, <3>2 DEF Awaiting
      <4>2. /\ chunk[t].works \in [Id -> SUBSET Peer]
            /\ chunk[t].found \subseteq Held(t)
            /\ chunk[t].failed \in BOOLEAN
            /\ Busy(t) <=> Held(t) # {}
        BY PoolType DEF PoolInv
      <4>3. QED
        BY <1>8, <1>9, <3>2, <4>1, <4>2
    <3>3. QED
      BY <3>1, <3>2
  <2>3. QED
    BY <1>1, <1>4, <1>10, <2>1, <2>2, PoolTypeNext
<1>12. SlotInv'
  <2>1. ASSUME NEW t \in Slots
        PROVE  /\ Awaiting(t)' => Busy(t)'
               /\ Awaiting(t)' /\ chunk'[t].step = "handled" => chunk'[t].failed \/ History'.timer
    <3>1. CASE t = s
      BY <1>9, <3>1
    <3>2. CASE t # s
      BY <1>8, <1>9, <1>10, <3>2 DEF PoolInv, SlotInv
    <3>3. QED
      BY <3>1, <3>2
  <2>2. QED
    BY <2>1 DEF SlotInv
<1>13. RunInv' /\ StopInv'
  <2>1. CASE fails
    BY <1>10, <2>1 DEF RunInv, StopInv
  <2>2. CASE ~fails
    <3>1. History' = History
      BY <1>10, <2>2
    <3>2. CASE Awaiting(s)
      <4>1. History.timer /\ History.phase = "running"
        BY <1>1, <2>2, <3>2 DEF PoolInv, SlotInv, fails, Awaiting
      <4>2. QED
        BY <3>1, <4>1 DEF RunInv, StopInv, Returns
    <3>3. CASE ~Awaiting(s)
      <4>1. \A t \in Slots : Awaiting(t) => Awaiting(t)'
        BY <1>9, <2>2, <3>3
      <4>2. QED
        BY <1>5, <3>1, <4>1 DEF PoolInv, RunInv, StopInv
    <3>4. QED
      BY <3>2, <3>3
  <2>3. QED
    BY <2>1, <2>2
<1>14. QED
  BY <1>8, <1>11, <1>12, <1>13 DEF PoolInv, ChunkType
-----------------------------------------------------------------------------
(* A run begins with all its accounts to read, goes on for any reason it    *)
(* has, and stops when there is none.                                       *)
LEMMA RunnerKeeps ==
  ASSUME PoolInv, RunnerStep("history")
  PROVE  PoolInv'
<1>1. /\ works \in [{"history"} -> [Id -> SUBSET Peer]]
      /\ runner \in [{"history"} -> RunnerState]
      /\ History.timer \/ History.exit \/ History.keys # {} => History.phase = "running"
      /\ \A t \in Slots : Awaiting(t) => History.phase = "running" /\ Busy(t)
  BY PoolType DEF PoolInv, Awaiting, SlotInv
<1>2. works' = works /\ chunk' = chunk
  BY DEF RunnerStep, OpenStream, FinishRun, CloseRun
<1>3. /\ Stored(Accounts)' = Stored(Accounts)
      /\ \A t \in Slots : /\ Held(t)' = Held(t) /\ (Busy(t)' <=> Busy(t))
                          /\ Awaiting(t)' = Awaiting(t)
  BY <1>2 DEF Accounts, Stored, Held, Busy, Awaiting
<1>4. ASSUME NEW h \in RunnerState, runner' = [runner EXCEPT !["history"] = h],
             h.timer \/ h.exit \/ h.keys # {} => h.phase = "running",
             \A t \in Slots : Awaiting(t) => h.phase = "running",
             \A t \in Slots : Awaiting(t) /\ chunk[t].step = "handled" => chunk[t].failed \/ h.timer,
             h.phase = "running" => Stored(Accounts) \subseteq h.keys /\ ~h.exit,
             h.phase \in {"idle", "closing"} => Stored(Accounts) = {} \/ h.again
      PROVE  PoolInv'
  <2>1. runner' \in [{"history"} -> RunnerState] /\ History' = h
    BY <1>1, <1>4 DEF History
  <2>2. PoolTypeOK'
    <3>1. \A t \in Slots : chunk'[t].awaited => History'.phase = "running"
      BY <1>2, <1>4, <2>1 DEF Awaiting
    <3>2. QED
      BY <1>1, <1>2, <1>3, <1>4, <2>1, <3>1, PoolType, PoolTypeNext DEF PoolInv
  <2>3. ChunkType' /\ SlotInv'
    BY <1>2, <1>3, <1>4, <2>1 DEF PoolInv, ChunkType, SlotInv
  <2>4. RunInv' /\ StopInv'
    BY <1>3, <1>4, <2>1 DEF RunInv, StopInv
  <2>5. QED
    BY <2>2, <2>3, <2>4 DEF PoolInv
<1>5. CASE OpenStream("history")
  <2> DEFINE h == [History EXCEPT !.phase = "running", !.again = FALSE, !.keys = Stored(Accounts)]
  <2>1. History.phase = "waiting" /\ runner' = [runner EXCEPT !["history"] = h]
    BY <1>5 DEF OpenStream, History, Accounts
  <2>2. Stored(Accounts) \in SUBSET Id
    BY DEF Stored
  <2>3. /\ h \in RunnerState /\ h.phase = "running" /\ h.keys = Stored(Accounts)
        /\ h.exit = History.exit
    BY <1>1, <2>2 DEF History, RunnerState
  <2>4. ~h.exit /\ \A t \in Slots : ~Awaiting(t)
    BY <1>1, <2>1, <2>3
  <2> HIDE DEF h
  <2>5. QED
    BY <1>4, <2>1, <2>3, <2>4
<1>6. CASE FinishRun("history")
  <2> DEFINE h == [IdleRunner EXCEPT
                     !.phase = IF History.again \/ History.skipSleep \/ History.timer
                                 THEN "waiting" ELSE "closing"]
  <2>1. /\ History.phase = "running" /\ History.exit
        /\ \A t \in Slots : ~(Busy(t) /\ chunk[t].awaited)
        /\ runner' = [runner EXCEPT !["history"] = h]
    BY <1>6 DEF FinishRun, History, Slots
  <2>2. \A t \in Slots : ~Awaiting(t)
    BY <1>1, <2>1 DEF Awaiting
  <2>3. /\ h \in RunnerState /\ ~h.timer /\ ~h.exit /\ h.keys = {}
        /\ h.phase = IF Returns(History) THEN "waiting" ELSE "closing"
    BY DEF IdleRunner, RunnerState, Returns
  <2>4. h.phase = "closing" => Stored(Accounts) = {}
    <3>1. ~Returns(History) => Stored(Accounts) \subseteq History.keys
                               /\ Stored(Accounts) \cap History.keys = {}
      BY <2>1, <2>2 DEF PoolInv, RunInv
    <3>2. QED
      BY <2>3, <3>1
  <2> HIDE DEF h
  <2>5. QED
    BY <1>4, <2>1, <2>2, <2>3, <2>4
<1>7. CASE CloseRun("history")
  <2> DEFINE h == [History EXCEPT !.phase = "idle"]
  <2>1. History.phase = "closing" /\ runner' = [runner EXCEPT !["history"] = h]
    <3>1. runner["history"].phase = "closing" /\ runner' = [runner EXCEPT !["history"].phase = "idle"]
      BY <1>7 DEF CloseRun
    <3>2. QED
      BY <3>1 DEF History
  <2>2. /\ h \in RunnerState /\ h.phase = "idle" /\ h.keys = History.keys
        /\ h.exit = History.exit /\ h.timer = History.timer /\ h.again = History.again
    BY <1>1 DEF History, RunnerState
  <2>3. /\ \A t \in Slots : ~Awaiting(t)
        /\ ~(h.timer \/ h.exit \/ h.keys # {})
        /\ Stored(Accounts) = {} \/ h.again
    BY <1>1, <2>1, <2>2 DEF PoolInv, StopInv
  <2> HIDE DEF h
  <2>4. QED
    BY <1>4, <2>1, <2>2, <2>3
<1>8. QED
  BY <1>5, <1>6, <1>7 DEF RunnerStep

(* After a restart the runner is to read all the accounts that are stored.  *)
LEMMA RestartKeeps ==
  ASSUME PoolInv, PoolRestart
  PROVE  PoolInv'
<1> DEFINE h == Triggered(IdleRunner)
<1>1. /\ works \in [{"history"} -> [Id -> SUBSET Peer]] /\ works' = works
      /\ runner' = [p \in {"history"} |-> h]
      /\ chunk' = [s \in Slots |-> FreeChunk]
  BY OnePool, PoolType DEF PoolInv, PoolRestart
<1>2. h \in RunnerState /\ h.phase = "waiting" /\ ~h.timer /\ ~h.exit /\ h.keys = {}
  BY DEF Triggered, IdleRunner, RunnerState
<1> HIDE DEF h
<1>3. Stored(NoWorks) = {} /\ NoWorks \in [Id -> SUBSET Peer]
  BY DEF Stored, NoWorks
<1>4. FreeChunk \in ChunkState /\ ~FreeChunk.awaited /\ FreeChunk.step = "free"
      /\ FreeChunk.works = NoWorks /\ FreeChunk.found = {} /\ FreeChunk.failed = FALSE
  BY <1>3 DEF FreeChunk, ChunkState, HandlerStep
<1> HIDE DEF FreeChunk, NoWorks
<1>5. \A s \in Slots : chunk'[s] = FreeChunk
  BY <1>1
<1>6. runner' \in [{"history"} -> RunnerState] /\ History' = h
  BY <1>1, <1>2 DEF History
<1>7. \A s \in Slots : ~Busy(s)' /\ Held(s)' = {} /\ ~Awaiting(s)'
  BY <1>3, <1>4, <1>5 DEF Busy, Held, Awaiting
<1>8. PoolTypeOK'
  BY <1>1, <1>2, <1>3, <1>4, <1>5, <1>6, <1>7, PoolTypeNext
<1>9. ChunkType' /\ SlotInv'
  BY <1>1, <1>4, <1>7 DEF ChunkType, SlotInv
<1>10. RunInv' /\ StopInv'
  BY <1>2, <1>6 DEF RunInv, StopInv
<1>11. QED
  BY <1>8, <1>9, <1>10 DEF PoolInv
-----------------------------------------------------------------------------
(* Every step of Next does to the pool what one of the lemmas above says.   *)
LEMMA PoolNext ==
  ASSUME IInv, Next  PROVE PoolInv'
<1> USE DEF IInv
<1>1. works \in [{"history"} -> [Id -> SUBSET Peer]]
  BY PoolType DEF PoolInv
<1>2. ASSUME NEW x \in Id, NEW p \in Peer, AddAccount(x, p)  PROVE PoolInv'
  <2>1. WorkOf(x, {p}) \in [Id -> SUBSET Peer]
    BY DEF WorkOf
  <2>2. QED
    BY <1>2, <2>1, AddKeeps DEF AddAccount
<1>3. ASSUME NEW x \in Id, NEW p \in Peer, DelAccount(x, p)  PROVE PoolInv'
  <2> DEFINE left == works["history"][x] \ {p}
  <2>1. WorkOf(x, left) \in [Id -> SUBSET Peer]
    BY <1>1 DEF WorkOf
  <2>2. CASE left # {}
    BY <1>3, <2>1, <2>2, AddKeeps DEF DelAccount
  <2>3. CASE left = {}
    BY <1>3, <2>3, RemoveKeeps DEF DelAccount
  <2>4. QED
    BY <2>2, <2>3
<1>4. CASE RunPool
  BY <1>4, RunnerKeeps DEF RunPool
<1>5. ASSUME NEW s \in Slots, Load(s)  PROVE PoolInv'
  BY <1>5, LoadKeeps DEF Load
<1>6. ASSUME NEW s \in Slots, HandleStep(s) \/ HandlerFails(s)  PROVE PoolInv'
  <2>1. ASSUME NEW step, GoOn(s, step)
        PROVE  chunk' = [chunk EXCEPT ![s].step = step, ![s].failed = chunk[s].failed]
    <3>1. chunk \in [Slots -> ChunkState]
      BY DEF PoolInv, ChunkType
    <3>2. [chunk[s] EXCEPT !.step = step] = [chunk[s] EXCEPT !.step = step, !.failed = chunk[s].failed]
      BY <3>1 DEF ChunkState
    <3>3. QED
      BY <2>1, <3>1, <3>2 DEF GoOn
  <2>2. chunk[s].failed \in BOOLEAN
    BY PoolType DEF PoolInv
  <2>3. CASE InitFetcher(s)
    <3> DEFINE step == IF chunk[s].step = "loaded" THEN "checked" ELSE "ready"
    <3>1. /\ step \in HandlerStep \ {"free"} /\ step # "handled" /\ Busy(s)
          /\ works' = works /\ runner' = runner /\ GoOn(s, step)
      BY <2>3 DEF InitFetcher, HandlerStep, Busy
    <3> HIDE DEF step
    <3>2. QED
      BY <2>1, <2>2, <3>1, StepKeeps
  <2>4. CASE HandlerFails(s)
    <3>1. Busy(s) /\ works' = works /\ runner' = runner
          /\ chunk' = [chunk EXCEPT ![s].step = "handled", ![s].failed = TRUE]
      BY <2>4 DEF HandlerFails, Busy
    <3>2. QED
      BY <3>1, StepKeeps DEF HandlerStep
  <2>5. CASE NotDue(s) \/ RunOver(s)
    <3>1. Busy(s) /\ works' = works /\ GoOn(s, "handled") /\ SleepTime(s)
      BY <2>5 DEF NotDue, RunOver, Busy
    <3>2. "handled" \in HandlerStep \ {"free"}
      BY DEF HandlerStep
    <3>3. QED
      BY <2>1, <2>2, <3>1, <3>2, StepKeeps
  <2>6. CASE RunFetcher(s)
    <3>1. Busy(s) /\ works' = works /\ runner' = runner /\ GoOn(s, "running")
      BY <2>6 DEF RunFetcher, Busy
    <3>2. "running" \in HandlerStep \ {"free"}
      BY DEF HandlerStep
    <3>3. QED
      BY <2>1, <2>2, <3>1, <3>2, StepKeeps
  <2>7. CASE CheckComplete(s)
    BY <2>7, CompleteKeeps DEF CheckComplete
  <2>8. QED
    BY <1>6, <2>3, <2>4, <2>5, <2>6, <2>7 DEF HandleStep
<1>7. ASSUME UNCHANGED poolVars  PROVE PoolInv'
  BY <1>7 DEF poolVars, PoolInv, PoolTypeOK, ChunkType, SlotInv, RunInv, StopInv, History,
     Accounts, Awaiting, Busy, Held
<1>8. ASSUME NEW x \in Id, ForwardRuns(x) \/ Elapse(x)  PROVE PoolInv'
  BY <1>7, <1>8 DEF ForwardRuns, Elapse
<1>9. ASSUME NEW x \in Id, NEW done \in BOOLEAN, BackwardRuns(x, done)  PROVE PoolInv'
  BY <1>7, <1>9 DEF BackwardRuns
<1>10. CASE BlocksRun
  BY <1>7, <1>10 DEF BlocksRun
<1>11. CASE Restart
  BY <1>11, RestartKeeps DEF Restart
<1>12. QED
  BY <1>2, <1>3, <1>4, <1>5, <1>6, <1>8, <1>9, <1>10, <1>11 DEF Next
-----------------------------------------------------------------------------
LEMMA AccountIs ==
  ASSUME PoolInv, NEW s \in Slots, Busy(s)
  PROVE  AccountOf(s) \in Id
<1>1. Held(s) # {} /\ Held(s) \subseteq Id
  BY PoolType DEF PoolInv, Held, Stored
<1>2. \E x \in Id : x \in Held(s)
  BY <1>1
<1>3. QED
  BY <1>2 DEF AccountOf

LEMMA SeenType ==
  ASSUME JobInv, NEW x \in Id
  PROVE  SeenBy(x) \in [Id -> 0..Depth]
BY DEF JobInv, SeenBy

(* A loop that is started is none of the job's that is there already: the   *)
(* job has one loop then, and had at most one before.                       *)
LEMMA JobNext ==
  ASSUME IInv, Next  PROVE JobInv'
<1>1. /\ loops \in [Id -> [Direction -> 0..1]]
      /\ awaits \in [Slots -> SUBSET Direction]
      /\ elapsed \subseteq Id
      /\ complete \subseteq Id
      /\ blocks \in 0..Depth
      /\ seen \in [Id -> 0..Depth]
      /\ logs \in SUBSET Coupled
      /\ calls \in 0..MaxCalls
      /\ faults \in 0..MaxFaults
      /\ JobInv /\ PoolInv
  BY DEF IInv, JobInv
<1>2. ASSUME NewCall, UNCHANGED <<logs, jobVars, seen, blocks, faults>>  PROVE JobInv'
  <2>1. calls' \in 0..MaxCalls
    BY <1>1, <1>2, BoundsAssumption DEF NewCall
  <2>2. QED
    BY <1>1, <1>2, <2>1 DEF JobInv, jobVars
<1>3. ASSUME UNCHANGED <<logs, jobVars, seen, blocks, calls, faults>>  PROVE JobInv'
  BY <1>1, <1>3 DEF JobInv, jobVars
<1>4. ASSUME UNCHANGED <<logs, jobVars, blocks, calls, faults>>, NEW x \in Id, seen' = SeenBy(x)
      PROVE  JobInv'
  BY <1>1, <1>4, SeenType DEF JobInv, jobVars
<1>5. ASSUME NEW x \in Id, NEW p \in Peer, AddAccount(x, p) \/ DelAccount(x, p)  PROVE JobInv'
  BY <1>2, <1>5 DEF AddAccount, DelAccount
<1>6. ASSUME NEW s \in Slots, Load(s) \/ CheckComplete(s)  PROVE JobInv'
  BY <1>3, <1>6 DEF Load, CheckComplete
<1>7. ASSUME NEW s \in Slots, InitFetcher(s) \/ NotDue(s) \/ RunOver(s)  PROVE JobInv'
  <2>1. Busy(s)
    BY <1>7 DEF InitFetcher, NotDue, RunOver, Busy
  <2>2. AccountOf(s) \in Id
    BY <1>1, <2>1, AccountIs
  <2>3. QED
    BY <1>4, <1>7, <2>2 DEF InitFetcher, NotDue, RunOver
<1>8. ASSUME Fault  PROVE faults' \in 0..MaxFaults
  BY <1>1, <1>8, BoundsAssumption DEF Fault
<1>9. ASSUME NEW s \in Slots, HandlerFails(s)  PROVE JobInv'
  BY <1>1, <1>8, <1>9 DEF HandlerFails, JobInv, jobVars
<1>10. ASSUME NEW s \in Slots, RunFetcher(s)  PROVE JobInv'
  <2> DEFINE x == AccountOf(s)
  <2>1. Busy(s)
    BY <1>10 DEF RunFetcher, Busy
  <2>2. x \in Id
    BY <1>1, <2>1, AccountIs
  <2>3. loops' = [loops EXCEPT ![x].forward = Started(loops[x].forward)]
    BY <1>10 DEF RunFetcher
  <2>4. /\ elapsed' = elapsed \ {x} /\ awaits' = [awaits EXCEPT ![s] = Awaited(x)]
        /\ seen' = SeenBy(x) /\ UNCHANGED <<logs, complete, blocks, calls, faults>>
    BY <1>10 DEF RunFetcher
  <2>5. Started(loops[x].forward) \in 0..1
    BY <1>1, <2>2 DEF Started, Direction
  <2>6. Awaited(x) \subseteq Direction
    BY DEF Awaited
  <2>7. SeenBy(x) \in [Id -> 0..Depth]
    BY <1>1, <2>2, SeenType
  <2> HIDE DEF x
  <2>8. loops' \in [Id -> [Direction -> 0..1]]
    BY <1>1, <2>2, <2>3, <2>5 DEF Direction
  <2>9. QED
    BY <1>1, <2>4, <2>6, <2>7, <2>8 DEF JobInv
<1>11. ASSUME NEW x \in Id, NEW d \in Direction  PROVE Ended(x, d) \in [Slots -> SUBSET Direction]
  BY <1>1 DEF Ended
<1>12. ASSUME NEW x \in Id, ForwardRuns(x)  PROVE JobInv'
  <2> DEFINE f == loops[x].forward - 1
             b == IF x \in complete THEN loops[x].backward ELSE Started(loops[x].backward)
  <2>1. loops' = [loops EXCEPT ![x].forward = f, ![x].backward = b]
    BY <1>12 DEF ForwardRuns
  <2>2. f \in 0..1 /\ b \in 0..1
    BY <1>1, <1>12 DEF ForwardRuns, Started, Direction
  <2>3. awaits' \in [Slots -> SUBSET Direction]
    BY <1>11, <1>12 DEF ForwardRuns, Direction
  <2> HIDE DEF f, b
  <2>4. loops' \in [Id -> [Direction -> 0..1]]
    BY <1>1, <2>1, <2>2 DEF Direction
  <2>5. QED
    BY <1>1, <1>12, <2>3, <2>4 DEF ForwardRuns, JobInv
<1>13. ASSUME NEW x \in Id, NEW done \in BOOLEAN, BackwardRuns(x, done)  PROVE JobInv'
  <2> DEFINE b == loops[x].backward - 1
  <2>1. loops' = [loops EXCEPT ![x].backward = b]
    BY <1>13 DEF BackwardRuns
  <2>2. b \in 0..1
    BY <1>1, <1>13 DEF BackwardRuns, Direction
  <2>3. awaits' \in [Slots -> SUBSET Direction]
    BY <1>11, <1>13 DEF BackwardRuns, Direction
  <2> HIDE DEF b
  <2>4. loops' \in [Id -> [Direction -> 0..1]]
    BY <1>1, <2>1, <2>2 DEF Direction
  <2>5. seen' \in [Id -> 0..Depth] /\ complete' \subseteq Id
    BY <1>1, <1>13 DEF BackwardRuns
  <2>6. QED
    BY <1>1, <1>13, <2>3, <2>4, <2>5 DEF BackwardRuns, JobInv
<1>14. ASSUME NEW x \in Id, Elapse(x)  PROVE JobInv'
  BY <1>1, <1>14 DEF Elapse, JobInv
<1>15. CASE BlocksRun
  <2>1. blocks' \in 0..Depth
    BY <1>1, <1>15, BoundsAssumption DEF BlocksRun
  <2>2. QED
    BY <1>1, <1>15, <2>1 DEF BlocksRun, JobInv, jobVars
<1>16. CASE Restart
  <2>1. NoLoops \in [Id -> [Direction -> 0..1]]
    BY DEF NoLoops
  <2>2. QED
    BY <1>1, <1>8, <1>16, <2>1 DEF Restart, JobInv
<1>17. CASE RunPool
  BY <1>3, <1>17 DEF RunPool
<1>18. QED
  BY <1>5, <1>6, <1>7, <1>9, <1>10, <1>12, <1>13, <1>14, <1>15, <1>16, <1>17 DEF Next, HandleStep

(* The pool and the jobs, in every state of every run.                      *)
THEOREM Inductive == Spec => []IInv
<1>1. Init => IInv
  <2>1. Init => PoolInv
    BY PoolStarts DEF Init
  <2>2. ASSUME Init  PROVE JobInv
    <3>1. /\ loops \in [Id -> [Direction -> 0..1]]
          /\ awaits \in [Slots -> SUBSET Direction]
          /\ seen \in [Id -> 0..Depth]
      BY <2>2, BoundsAssumption DEF Init, NoLoops
    <3>2. blocks \in 0..Depth /\ calls \in 0..MaxCalls /\ faults \in 0..MaxFaults
      BY <2>2, BoundsAssumption DEF Init
    <3>3. QED
      BY <2>2, <3>1, <3>2 DEF Init, JobInv
  <2>3. QED
    BY <2>1, <2>2 DEF IInv
<1>2. IInv /\ [Next]_vars => IInv'
  <2>1. ASSUME IInv, UNCHANGED vars  PROVE IInv'
    BY <2>1 DEF vars, poolVars, jobVars, IInv, JobInv, PoolInv, PoolTypeOK, ChunkType, SlotInv,
       RunInv, StopInv, History, Accounts, Awaiting, Busy, Held
  <2>2. QED
    BY <2>1, PoolNext, JobNext DEF IInv
<1>3. QED
  BY <1>1, <1>2, PTL DEF Spec

(* Each job of each history fetcher has at most one loop, over the handlers *)
(* that failed runs of the pool left behind and new ones of the same        *)
(* account, with any number of handlers at once and any failures; and the   *)
(* pool and the jobs keep their types.                                      *)
THEOREM OneLoopEver == Spec => []OneLoopEach
<1>1. ASSUME IInv  PROVE OneLoopEach
  <2>1. loops \in [Id -> [Direction -> Nat]] /\ \A x \in Id, d \in Direction : loops[x][d] <= 1
    BY <1>1 DEF IInv, JobInv
  <2>2. \A s \in Slots : chunk[s].step \in HandlerStep
    BY <1>1 DEF IInv, PoolInv, ChunkType, ChunkState
  <2>3. QED
    BY <1>1, <2>1, <2>2 DEF IInv, JobInv, PoolInv, OneLoopEach, TypeOK
<1>2. QED
  BY <1>1, Inductive, PTL

(* The runner is idle only when no account is stored, but for a call that   *)
(* comes between the end of its last run and the end of its loop.           *)
THEOREM StopsOnlyWhenDone == Spec => []StopsOnlyWhenEmpty
<1>1. IInv => StopsOnlyWhenEmpty
  BY DEF IInv, PoolInv, StopInv, StopsOnlyWhenEmpty, Overlooked, History, Accounts
<1>2. QED
  BY <1>1, Inductive, PTL
=============================================================================
