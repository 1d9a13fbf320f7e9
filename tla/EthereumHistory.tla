---------------------------- MODULE EthereumHistory ----------------------------
(***************************************************************************)
(* The history fetchers of an Ethereum blockchain. One fetcher walks the    *)
(* blocks and indexes what they hold; the fetcher of an account, in a pool, *)
(* walks what the other one has indexed: transactions by account, which are *)
(* there already, or the blooms of the blocks, of which it fetches the logs.*)
(***************************************************************************)
EXTENDS BaseHistory

CONSTANTS
  Ours,         (* the heights of the blocks with items of the account     *)
  MinHeight,    (* minBlockHeight: where the account's history begins      *)
  PageLimit,    (* [Fetcher -> Nat]: items in a page                       *)
  RunLimit,     (* [Fetcher -> Nat]: items in a limited run                *)
  FaultKinds,   (* among "rpc", "crash", "overlap", "pool"                 *)
  MaxFaults

ASSUME FetcherAssumption == Fetcher = {"blocks", "account"} /\ Once = {"account"}
ASSUME OursAssumption == Ours \subseteq Position /\ MinHeight \in Position
ASSUME LimitAssumption ==
  /\ PageLimit \in [Fetcher -> 1..Last] /\ RunLimit \in [Fetcher -> 1..Last]
ASSUME FaultAssumption ==
  FaultKinds \subseteq {"rpc", "crash", "overlap", "pool"} /\ MaxFaults \in Nat

VARIABLES
  kind,         (* what the account's fetcher fetches                      *)
  tip,          (* the last block of the blockchain                        *)
  blocks,       (* heights whose block was indexed: transactions, bloom    *)
  logs,         (* heights whose logs of the account were indexed          *)
  outrun,       (* a restart found the account's cursors, not the blocks'  *)
  faults

vars == <<histVars, kind, tip, blocks, logs, outrun, faults>>

TypeOK ==
  /\ HistTypeOK
  /\ kind \in {"transaction", "log"}
  /\ tip \in Position
  /\ blocks \subseteq 0..tip
  /\ logs \subseteq Ours \cap blocks
  /\ outrun \in BOOLEAN
  /\ faults \in 0..MaxFaults

Init ==
  /\ HistInit
  /\ kind \in {"transaction", "log"}
  /\ tip \in Position
  /\ blocks = {}
  /\ logs = {}
  /\ outrun = FALSE
  /\ faults = 0

Fault(k) ==
  /\ k \in FaultKinds
  /\ faults < MaxFaults
  /\ faults' = faults + 1

NewBlock ==
  /\ tip < Last
  /\ tip' = tip + 1
  /\ UNCHANGED <<histVars, kind, blocks, logs, outrun, faults>>

Least(S) == CHOOSE x \in S : \A y \in S : x <= y
Greatest(S) == CHOOSE x \in S : \A y \in S : x >= y
Smaller(x, y) == IF x < y THEN x ELSE y

(* The n greatest of S: a page of a query in reverse order, with a limit.   *)
TopOf(S, n) == {x \in S : Cardinality({y \in S : y > x}) < n}
-----------------------------------------------------------------------------
(* A run over an empty range fetches nothing and does not fail.             *)
BeginRange(f, d, from, to, left) ==
  IF from > to THEN BeginEmpty(f, d) ELSE Begin(f, d, from, to, left)

Limited(f, from) == IF from = 0 THEN RunLimit[f] ELSE Unlimited

(* EthereumBlockHistoryFetcher.runForward                                   *)
RunBlocksForward ==
  LET at == state["blocks"].cursors.forward
      from == IF at = None THEN 0 ELSE at + 1
  IN BeginRange("blocks", "forward", from, tip, Limited("blocks", from))

(* EthereumBlockHistoryFetcher.runBackward                                  *)
RunBlocksBackward ==
  LET at == state["blocks"].cursors.backward
  IN BeginRange("blocks", "backward", 0, IF at = None THEN tip ELSE at - 1,
                RunLimit["blocks"])

(* Mutant: the account's fetcher goes up to the last block there is. *)
FetchForwardToTip ==
  LET seen == state["blocks"].cursors
      at == state["account"].cursors.forward
      from == IF at = None THEN seen.backward ELSE at + 1
  IN /\ from # None /\ seen.forward # None
     /\ BeginRange("account", "forward", from, tip, Limited("account", from))

(* fetchForward and fetchBackward of the account's fetcher: its runs stay   *)
(* within what the block fetcher says it has, and fail before it has any.   *)
FetchForward ==
  LET seen == state["blocks"].cursors
      at == state["account"].cursors.forward
      from == IF at = None THEN seen.backward ELSE at + 1
  IN /\ from # None /\ seen.forward # None
     /\ BeginRange("account", "forward", from, seen.forward, Limited("account", from))

FetchBackward ==
  LET seen == state["blocks"].cursors
      at == state["account"].cursors.backward
  IN /\ seen.backward # None /\ seen.forward # None
     /\ BeginRange("account", "backward", seen.backward,
                   IF at = None THEN seen.forward ELSE at - 1, RunLimit["account"])

BeginRun ==
  /\ RunBlocksForward \/ RunBlocksBackward \/ FetchForward \/ FetchBackward
  /\ UNCHANGED <<state, saved, kind, tip, blocks, logs, outrun, faults>>
-----------------------------------------------------------------------------

Limit(f, d) == Smaller(job[f][d].left, PageLimit[f])
Length(f, d) == Smaller(Limit(f, d), job[f][d].to - job[f][d].from + 1)

(* The page after a full one that reached the start of the range: it is     *)
(* asked for, and is refused as an invalid range.                           *)
InvalidRange(f, d) ==
  /\ InPhase(f, d, "fetching")
  /\ Length(f, d) <= 0
  /\ Fetched(f, d, TRUE)
  /\ UNCHANGED <<state, saved, kind, tip, blocks, logs, outrun, faults>>

(* getBlockHistoryChunk: the blocks down from the end of the range.         *)
BlockPage(d) ==
  LET r == job["blocks"][d]
  IN {h \in Position : r.to - Length("blocks", d) < h /\ h <= r.to}

(* getTransactionHistoryChunk, getLogHistoryChunk: the last of the indexed  *)
(* transactions of the account, or blooms of any block, in the range.       *)
AccountPage(d) ==
  LET r == job["account"][d]
      found == IF kind = "transaction" THEN Ours \cap blocks ELSE blocks
  IN TopOf(found \cap (r.from..r.to), Limit("account", d))

(* The loop of fetchBlockHistory, fetchTransactionHistory, fetchLogHistory  *)
(* around a page that was stored.                                           *)
Turn(f, d, page) ==
  LET left == job[f][d].left - Limit(f, d)
  IN IF page = {} THEN Fetched(f, d, FALSE)
     ELSE PageDone(f, d, Least(page), Greatest(page), left,
                   Cardinality(page) >= Limit(f, d) /\ left > 0)

(* indexBlocks                                                              *)
FetchBlockPage(d) ==
  /\ InPhase("blocks", d, "fetching")
  /\ Length("blocks", d) > 0
  /\ blocks' = blocks \cup BlockPage(d)
  /\ Turn("blocks", d, BlockPage(d))
  /\ UNCHANGED <<state, saved, kind, tip, logs, outrun, faults>>

(* indexSignatures has nothing to index: the block fetcher did.             *)
IndexLogs(page) == IF kind = "log" THEN logs \cup (page \cap Ours) ELSE logs

FetchAccountPage(d) ==
  /\ InPhase("account", d, "fetching")
  /\ Length("account", d) > 0
  /\ logs' = IndexLogs(AccountPage(d))
  /\ Turn("account", d, AccountPage(d))
  /\ UNCHANGED <<state, saved, kind, tip, blocks, outrun, faults>>

(* The blockchain, or a store, fails within a page, which may be stored in  *)
(* part: the pages before it count.                                         *)
PageFails(f, d) ==
  /\ Fault("rpc")
  /\ InPhase(f, d, "fetching")
  /\ Length(f, d) > 0
  /\ \E S \in {{}, IF f = "blocks" THEN BlockPage(d) ELSE AccountPage(d) \cap Ours} :
       /\ blocks' = IF f = "blocks" THEN blocks \cup S ELSE blocks
       /\ logs' = IF f = "account" THEN IndexLogs(S) ELSE logs
  /\ Fetched(f, d, TRUE)
  /\ UNCHANGED <<state, saved, kind, tip, outrun>>
-----------------------------------------------------------------------------
(* Mutant: a fetcher of an account does not wait for the blocks. *)
WithoutBlocks(f, d) ==
  LET at == NewCursors(f, d).backward
  IN /\ d = "backward"
     /\ ~job[f][d].error
     /\ at # None
     /\ IF f = "blocks" THEN at = 0
        ELSE at <= Greatest({MinHeight, state["blocks"].cursors.backward})

(* Mutant: it is the page of this run that has to reach the first block. *)
CompleteWithItems(f, d) ==
  LET at == job[f][d].last.backward
  IN /\ d = "backward"
     /\ ~job[f][d].error
     /\ at # None
     /\ IF f = "blocks" THEN at = 0 ELSE at <= MinHeight /\ state["blocks"].complete

(* checkCompleteBackward of a fetcher of an account                         *)
ReachesMinHeight(at) == at <= MinHeight /\ state["blocks"].complete

(* checkCompleteBackward                                                    *)
Complete(f, d) ==
  LET at == NewCursors(f, d).backward
  IN /\ d = "backward"
     /\ ~job[f][d].error
     /\ at # None
     /\ IF f = "blocks" THEN at = 0 ELSE ReachesMinHeight(at)

Update(f, d) ==
  /\ \/ TakeCursors(f, d) /\ \A e \in Direction : ~InPhase(f, e, "updating")
     \/ SkipUpdate(f, d)
     \/ PutCursors(f, d, Complete(f, d))
     \/ SaveState(f, d)
  /\ UNCHANGED <<kind, tip, blocks, logs, outrun, faults>>

(* The update waits for no more than a turn of the event loop, so both jobs *)
(* are in it only when their fetches end at once: now and then.             *)
UpdatesOverlap(f, d) ==
  /\ Fault("overlap")
  /\ \E e \in Direction : InPhase(f, e, "updating")
  /\ TakeCursors(f, d)
  /\ UNCHANGED <<kind, tip, blocks, logs, outrun>>

(* The service starts the blocks' fetcher, once; the pool starts the        *)
(* account's again when it has waited for both of its jobs.                 *)
Start(f) ==
  /\ InPhase(f, "backward", "off")
  /\ StartRun(f)
  /\ UNCHANGED <<kind, tip, blocks, logs, outrun, faults>>

(* A run of the pool has failed, by another account: its next run handles   *)
(* this one while the backward job that the last one started goes on.       *)
StartBeside(f) ==
  /\ Fault("pool")
  /\ f \in Once
  /\ ~InPhase(f, "backward", "off")
  /\ StartRun(f)
  /\ UNCHANGED <<kind, tip, blocks, logs, outrun>>

(* The blocks' state and the account's are in stores of their own: the one  *)
(* may be lost that was put first. Then the blocks' fetcher begins anew at  *)
(* the tip, and the account's goes on from a cursor far below.              *)
Restart ==
  /\ Fault("crash")
  /\ HistRestart
  /\ outrun' = (outrun \/ (/\ saved["blocks"].cursors = NoCursors
                          /\ saved["account"].cursors # NoCursors))
  /\ UNCHANGED <<kind, tip, blocks, logs>>

Fetch(f, d) ==
  \/ f = "blocks" /\ FetchBlockPage(d)
  \/ f = "account" /\ FetchAccountPage(d)
  \/ InvalidRange(f, d)

Next ==
  \/ NewBlock
  \/ BeginRun
  \/ \E f \in Fetcher : Start(f) \/ StartBeside(f)
  \/ \E f \in Fetcher, d \in Direction : 
       Fetch(f, d) \/ PageFails(f, d) \/ Update(f, d) \/ UpdatesOverlap(f, d)
  \/ Restart

Spec == Init /\ [][Next]_vars

(* Each job of the blocks' fetcher comes to its next run and makes progress *)
(* in it; an update takes its turn though the other job goes on and on. The *)
(* blockchain grows. The account's fetcher may stand still.                 *)
Fairness ==
  /\ WF_vars(NewBlock)
  /\ WF_vars(Start("blocks"))
  /\ \A d \in Direction :
       /\ WF_vars(BeginRun /\ InPhase("blocks", d, "due") /\ ~InPhase("blocks", d, "due")')
       /\ WF_vars(Fetch("blocks", d)) /\ SF_vars(Update("blocks", d))

FairSpec == Spec /\ Fairness
-----------------------------------------------------------------------------
(* What other processes see of an account: a fetcher made for the occasion  *)
(* loads the saved state. What is older than minBlockHeight is not offered. *)
GetPartialAccountState == saved["account"].cursors

GetAccountState ==
  LET c == GetPartialAccountState
  IN [firstHeight |-> IF c.backward = None THEN None ELSE Greatest({c.backward, MinHeight}),
      lastHeight |-> c.forward]

QueryEntitiesByDate(from, to) ==
  (IF kind = "log" THEN logs ELSE Ours \cap blocks) \cap (from..to)

InRange(from, to) ==
  LET s == GetAccountState
  IN s.firstHeight # None /\ s.firstHeight <= from /\ to <= s.lastHeight
-----------------------------------------------------------------------------
Between(c) == IF c.forward = None THEN {} ELSE c.backward..c.forward

(* All blocks between the cursors are indexed: nobody looks for them again. *)
BlocksHaveNoGaps ==
  \A s \in {state, saved} : Between(s["blocks"].cursors) \subseteq blocks

Got == IF kind = "log" THEN logs ELSE blocks

(* So are the items of the account, that the fetcher finds through what the *)
(* block fetcher has indexed so far: unless that had to begin anew.         *)
AccountHasNoGaps ==
  outrun \/ \A s \in {state, saved} : Between(s["account"].cursors) \cap Ours \subseteq Got

(* A query for dates is answered when they are in the range that the account*)
(* is said to have, and then with all there is: the answer makes an account *)
(* indexer take the range for processed, and nobody asks for it again.      *)
DatesAreWhole ==
  outrun \/ \A from, to \in Position :
    InRange(from, to) => QueryEntitiesByDate(from, to) = Ours \cap (from..to)

(* All of it: neither cursor, of memory or store, has gone past what is     *)
(* stored, whatever failed, stopped or overlapped on the way; but what is   *)
(* said of the account ends with a crash that loses the first cursors of    *)
(* the blocks and keeps those of the account.                               *)
NoGaps == TypeOK /\ BlocksHaveNoGaps /\ AccountHasNoGaps /\ DatesAreWhole

(* A complete history is indexed from its first block, or from the height   *)
(* that the account's history begins at, with the same exception.           *)
CompleteIsWhole ==
  \A s \in {state, saved} :
    /\ s["blocks"].complete => 0..s["blocks"].cursors.forward \subseteq blocks
    /\ s["account"].complete /\ ~outrun =>
         (MinHeight..s["account"].cursors.forward) \cap Ours \subseteq Got

(* The walk back through the blocks ends, though the jobs may overwrite each*)
(* other's cursors, and it leaves no block out: provided the forward job    *)
(* does catch up, for it starts the walk, and a range that it fetched in    *)
(* full pages is refused until the blockchain has grown again.              *)
BlocksComplete ==
  []<>(state["blocks"].cursors.forward = tip)
    => <>[](state["blocks"].complete /\ 0..tip \subseteq blocks)
=============================================================================
