------------------------------ MODULE FetcherPool ------------------------------
(***************************************************************************)
(* The pool of the history fetchers of an entity type: a work is an account *)
(* and handling it is one run of the account's fetcher, when that is due. A *)
(* run is a run of each of the fetcher's two jobs, the backward job after   *)
(* the first run of the forward one; a job is a JobRunner, which repeats a  *)
(* run that failed and does nothing when it is running already.             *)
(*                                                                         *)
(* The accounts in Coupled are Ethereum's: what is theirs is found in the   *)
(* blocks, which a fetcher of its own gets, downwards, too.                 *)
(***************************************************************************)
EXTENDS PendingWorkPool

CONSTANTS
  Coupled,      (* accounts whose history is in that of the blocks         *)
  Depth,        (* how deep the history of the blocks is, in runs          *)
  MaxCalls,     (* how many calls add or delete an account                 *)
  MaxFaults     (* how many times a handler fails or the process restarts  *)

ASSUME PoolAssumption == Pool = {"history"}
ASSUME CoupledAssumption == Coupled \subseteq Id
ASSUME BoundsAssumption == Depth \in Nat /\ MaxCalls \in Nat /\ MaxFaults \in Nat

VARIABLES
  loops,        (* the loops of each job of each fetcher: see OneLoopEach  *)
  awaits,       (* the jobs whose end a handler waits for                  *)
  elapsed,      (* accounts whose forward job was not run for its interval *)
  complete,     (* accounts whose backward job is complete                 *)
  blocks,       (* what the fetcher of the blocks has still to fetch       *)
  seen,         (* how much that was when a backward run was due last      *)
  logs,         (* accounts in Coupled of which logs are fetched, not      *)
                (* transactions: the same throughout                       *)
  calls, faults

jobVars == <<loops, awaits, elapsed, complete>>
vars == <<poolVars, jobVars, seen, blocks, logs, calls, faults>>

Direction == {"forward", "backward"}
Slots == SlotsOf("history")
HandlerStep == {"free", "loaded", "checked", "ready", "running", "handled"}
AccountOf(s) == CHOOSE x \in Id : x \in Held(s)

TypeOK ==
  /\ PoolTypeOK
  /\ \A s \in Slots : chunk[s].step \in HandlerStep
  /\ loops \in [Id -> [Direction -> Nat]]
  /\ awaits \in [Slots -> SUBSET Direction]
  /\ elapsed \subseteq Id
  /\ complete \subseteq Id
  /\ blocks \in 0..Depth
  /\ seen \in [Id -> 0..Depth]
  /\ logs \in SUBSET Coupled
  /\ calls \in 0..MaxCalls
  /\ faults \in 0..MaxFaults

NoLoops == [x \in Id |-> [d \in Direction |-> 0]]

Init ==
  /\ PoolInit
  /\ loops = NoLoops
  /\ awaits = [s \in Slots |-> {}]
  /\ elapsed = Id
  /\ complete = {}
  /\ blocks = Depth
  /\ seen = [x \in Id |-> Depth]
  /\ logs \in SUBSET Coupled
  /\ calls = 0
  /\ faults = 0

Fault == faults < MaxFaults /\ faults' = faults + 1
NewCall == calls < MaxCalls /\ calls' = calls + 1

WorkOf(x, P) == [y \in Id |-> IF y = x THEN P ELSE {}]
-----------------------------------------------------------------------------
(* addAccount                                                               *)
AddAccount(x, p) ==
  /\ NewCall
  /\ AddWork("history", WorkOf(x, {p}))
  /\ UNCHANGED <<logs, chunk, jobVars, seen, blocks, faults>>

(* delAccount: what is left of the peers is added, and united with what is  *)
(* stored; without any the work is removed.                                 *)
DelAccount(x, p) ==
  LET left == works["history"][x] \ {p}
  IN /\ NewCall
     /\ works["history"][x] # {}
     /\ IF left # {} THEN AddWork("history", WorkOf(x, left))
        ELSE /\ works' = [works EXCEPT !["history"][x] = {}]
             /\ UNCHANGED runner
     /\ UNCHANGED <<logs, chunk, jobVars, seen, blocks, faults>>
-----------------------------------------------------------------------------
GoOn(s, step) == chunk' = [chunk EXCEPT ![s].step = step]

(* What areThereNewBlocks and init leave in previousBackwardBlockCursor, of *)
(* a fetcher of transactions.                                               *)
SeenBy(x) == IF x \in Coupled \ logs THEN [seen EXCEPT ![x] = blocks] ELSE seen

(* The fetcher is initialized twice: by checkComplete, before the work is   *)
(* handled, and by handleWork. No work is complete, as no forward job is.   *)
InitFetcher(s) ==
  /\ chunk[s].step \in {"loaded", "checked"}
  /\ GoOn(s, IF chunk[s].step = "loaded" THEN "checked" ELSE "ready")
  /\ seen' = SeenBy(AccountOf(s))
  /\ UNCHANGED <<logs, works, runner, jobVars, blocks, calls, faults>>

(* getFetcher or init rejects. *)
HandlerFails(s) ==
  /\ Fault
  /\ chunk[s].step \in {"loaded", "checked"}
  /\ chunk' = [chunk EXCEPT ![s].step = "handled", ![s].failed = TRUE]
  /\ UNCHANGED <<logs, works, runner, jobVars, seen, blocks, calls>>

(* areThereNewBlocks: since it was asked last, or init was called;          *)
(* continueFetchingBackward: below the cursor of the fetcher of logs.       *)
NewBlocks(x) == blocks < seen[x]

(* getNextRun: a forward run is due after its interval, a backward run at   *)
(* once unless it has to wait for blocks.                                   *)
Due(x) ==
  \/ x \in elapsed
  \/ x \notin complete /\ (x \in Coupled /\ blocks > 0 => NewBlocks(x))

(* Mutant: a job is run though it is running. *)
StartedAgain(n) == n + 1

(* JobRunner.run                                                            *)
Started(n) == IF n = 0 THEN 1 ELSE n

(* Mutant: a fetcher does not say when it is due again. *)
NoSleepTime(s) == UNCHANGED runner

(* A handler that the runner still waits for tells it when to come back.    *)
SleepTime(s) ==
  runner' = IF chunk[s].awaited THEN [runner EXCEPT !["history"].timer = TRUE] ELSE runner

(* handleWork: nothing to do yet.                                           *)
NotDue(s) ==
  /\ chunk[s].step = "ready"
  /\ ~Due(AccountOf(s))
  /\ GoOn(s, "handled")
  /\ SleepTime(s)
  /\ seen' = SeenBy(AccountOf(s))
  /\ UNCHANGED <<logs, works, jobVars, blocks, calls, faults>>

(* Mutant: a backward job that is complete is waited for. *)
AwaitedAnyway(x) ==
  {d \in Direction : d = "forward" => loops[x].forward = 0}

(* run: the handler waits for the forward job if it starts it, and for the  *)
(* backward job, whoever starts that.                                       *)
Awaited(x) ==
  {d \in Direction : IF d = "forward" THEN loops[x].forward = 0 ELSE x \notin complete}

RunFetcher(s) ==
  LET x == AccountOf(s)
  IN /\ chunk[s].step = "ready"
     /\ Due(x)
     /\ GoOn(s, "running")
     /\ seen' = SeenBy(x)
     /\ loops' = [loops EXCEPT ![x].forward = Started(@)]
     /\ elapsed' = elapsed \ {x}
     /\ awaits' = [awaits EXCEPT ![s] = Awaited(x)]
     /\ UNCHANGED <<logs, works, runner, complete, blocks, calls, faults>>

RunOver(s) ==
  /\ chunk[s].step = "running"
  /\ awaits[s] = {}
  /\ GoOn(s, "handled")
  /\ SleepTime(s)
  /\ seen' = SeenBy(AccountOf(s))
  /\ UNCHANGED <<logs, works, jobVars, blocks, calls, faults>>

CheckComplete(s) ==
  /\ chunk[s].step = "handled"
  /\ RemoveComplete(s, {})
  /\ UNCHANGED <<logs, jobVars, seen, blocks, calls, faults>>
-----------------------------------------------------------------------------
Ended(x, d) ==
  [s \in Slots |-> IF Busy(s) /\ AccountOf(s) = x THEN awaits[s] \ {d} ELSE awaits[s]]

(* A forward run that does not fail: it is the first of its job, so it runs *)
(* the backward job; and the job is to run once, thus it stops.             *)
ForwardRuns(x) ==
  /\ loops[x].forward > 0
  /\ loops' = [loops EXCEPT ![x].forward = @ - 1,
                            ![x].backward = IF x \in complete THEN @ ELSE Started(@)]
  /\ awaits' = Ended(x, "forward")
  /\ UNCHANGED <<logs, poolVars, elapsed, complete, blocks, seen, calls, faults>>

(* A backward run that does not fail: some run of an account ends its       *)
(* history, and every run comes down to the oldest block that is known.     *)
BackwardRuns(x, done) ==
  /\ loops[x].backward > 0
  /\ x \in Coupled => done = (blocks = 0)
  /\ loops' = [loops EXCEPT ![x].backward = @ - 1]
  /\ complete' = IF done THEN complete \cup {x} ELSE complete
  /\ awaits' = Ended(x, "backward")
  /\ seen' = IF x \in logs THEN [seen EXCEPT ![x] = blocks] ELSE seen
  /\ UNCHANGED <<logs, poolVars, elapsed, blocks, calls, faults>>

BlocksRun ==
  /\ blocks > 0
  /\ blocks' = blocks - 1
  /\ UNCHANGED <<logs, poolVars, jobVars, seen, calls, faults>>

(* The interval of a forward job is over.                                   *)
Elapse(x) ==
  /\ x \notin elapsed
  /\ loops[x].forward = 0
  /\ elapsed' = elapsed \cup {x}
  /\ UNCHANGED <<logs, poolVars, loops, awaits, complete, blocks, seen, calls, faults>>

(* The cursors and what is complete are saved.                              *)
Restart ==
  /\ Fault
  /\ PoolRestart
  /\ loops' = NoLoops
  /\ awaits' = [s \in Slots |-> {}]
  /\ UNCHANGED <<logs, elapsed, complete, blocks, seen, calls>>
-----------------------------------------------------------------------------
HandleStep(s) ==
  InitFetcher(s) \/ NotDue(s) \/ RunFetcher(s) \/ RunOver(s) \/ CheckComplete(s)

Load(s) == LoadPendingWork(s) /\ UNCHANGED <<logs, jobVars, seen, blocks, calls, faults>>
RunPool == RunnerStep("history") /\ UNCHANGED <<logs, jobVars, seen, blocks, calls, faults>>

Next ==
  \/ \E x \in Id, p \in Peer : AddAccount(x, p) \/ DelAccount(x, p)
  \/ RunPool
  \/ \E s \in Slots : Load(s) \/ HandleStep(s) \/ HandlerFails(s)
  \/ \E x \in Id : ForwardRuns(x) \/ Elapse(x)
  \/ \E x \in Id, done \in BOOLEAN : BackwardRuns(x, done)
  \/ BlocksRun
  \/ Restart

Spec == Init /\ [][Next]_vars

(* Every run of a job ends without an error at some time, as JobRunner      *)
(* repeats it; intervals end; a history has an end; the blocks are fetched. *)
Fairness ==
  /\ WF_vars(RunPool)
  /\ \A s \in Slots : WF_vars(Load(s) \/ HandleStep(s))
  /\ \A x \in Id : /\ WF_vars(ForwardRuns(x)) /\ WF_vars(Elapse(x))
                   /\ WF_vars(\E done \in BOOLEAN : BackwardRuns(x, done))
                   /\ SF_vars(BackwardRuns(x, TRUE))
  /\ WF_vars(BlocksRun)

FairSpec == Spec /\ Fairness
-----------------------------------------------------------------------------
(* Each job of a fetcher has one loop at a time, over handlers that a       *)
(* failed run left behind and new ones of the same account: two loops of a  *)
(* job would move the cursors of one state to and fro.                      *)
OneLoopEach == TypeOK /\ \A x \in Id, d \in Direction : loops[x][d] <= 1

(* The runner was asked to run while it was about to stop: see README.      *)
Overlooked == runner["history"].phase = "idle" /\ runner["history"].again

(* The runner stops only when there is no account left to fetch for.        *)
StopsOnlyWhenEmpty ==
  runner["history"].phase = "idle" => Stored(works["history"]) = {} \/ Overlooked

(* An account that stays in the pool has its history fetched to the end,    *)
(* though runs fail, its fetcher waits for blocks, and a run of the pool is *)
(* not over before each account's is.                                       *)
HistoriesComplete ==
  []<>(Overlooked \/ \A x \in Id : x \in complete \/ works["history"][x] = {})
=============================================================================
