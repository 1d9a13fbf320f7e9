----------------------------- MODULE SolanaHistory -----------------------------
(***************************************************************************)
(* The history fetcher of a Solana account, in its pool. The history is the *)
(* sequence of the account's signatures, 0 is the oldest; a node tells it   *)
(* from a signature downwards. Each run of a job fetches one page. A node   *)
(* of one's own may know the newer part only; then the backward job ends    *)
(* with the public node, which knows it all.                                *)
(***************************************************************************)
EXTENDS BaseHistory

CONSTANTS
  SlotOf,       (* [Position -> Nat]: the slot, hence time, of a signature *)
  Failing,      (* the signatures of failed transactions, not fetched      *)
  PageSize,     (* what a call returns, and how many a page is to have     *)
  OwnFrom,      (* the node used at first knows the signatures from here   *)
  FaultKinds,   (* among "rpc", "crash", "empty", "pool", "overlap"        *)
  MaxFaults

Account == "account"
ASSUME FetcherAssumption == Fetcher = {Account} /\ Once = {Account}
ASSUME SlotAssumption ==
  /\ SlotOf \in [Position -> Nat]
  /\ \A i, j \in Position : i < j => SlotOf[i] <= SlotOf[j]
ASSUME PageAssumption == PageSize \in 1..Unlimited
ASSUME NodeAssumption == OwnFrom \in Position /\ Failing \subseteq Position
ASSUME FaultAssumption ==
  FaultKinds \subseteq {"rpc", "crash", "empty", "pool", "overlap"} /\ MaxFaults \in Nat

VARIABLES
  tip,          (* the newest signature, or None                           *)
  stored,       (* accountEntityHistoryDAL                                 *)
  skipped,      (* signatures passed over: LeftOut and Overtaken           *)
  blind,        (* the backward run began when there were no cursors       *)
  emptied,      (* a node has answered with nothing though it had more     *)
  faults

vars == <<histVars, tip, stored, skipped, blind, emptied, faults>>

TypeOK ==
  /\ HistTypeOK
  /\ tip \in Cursor
  /\ stored \subseteq (0..tip) \ Failing
  /\ skipped \subseteq 0..tip
  /\ blind \in BOOLEAN
  /\ emptied \in BOOLEAN
  /\ faults \in 0..MaxFaults

(* The node of one's own has followed the account since before.             *)
Init ==
  /\ HistInit
  /\ tip \in {i \in Cursor : AllHistoric \/ i >= OwnFrom - 1}
  /\ stored = {}
  /\ skipped = {}
  /\ blind = FALSE
  /\ emptied = FALSE
  /\ faults = 0

Fault(k) ==
  /\ k \in FaultKinds
  /\ faults < MaxFaults
  /\ faults' = faults + 1

NewSignature ==
  /\ tip < Last
  /\ tip' = tip + 1
  /\ UNCHANGED <<histVars, stored, skipped, blind, emptied, faults>>

RunOf(d) == job[Account][d]
CursorsNow == state[Account].cursors
Higher(x, y) == IF x > y THEN x ELSE y
-----------------------------------------------------------------------------
(* fetchForward: from the newest signature down to the forward cursor. The  *)
(* run is limited to a page, as each run is the first of its job.           *)
FetchForward ==
  LET at == CursorsNow.forward
  IN IF at = Last THEN BeginEmpty(Account, "forward")
     ELSE Begin(Account, "forward", at + 1, None, PageSize)

(* fetchBackward: down from the backward cursor.                            *)
FetchBackward ==
  LET at == CursorsNow.backward
  IN IF at = 0 THEN BeginEmpty(Account, "backward")
     ELSE Begin(Account, "backward", 0, IF at = None THEN None ELSE at - 1, PageSize)

BeginRun ==
  /\ \/ FetchForward /\ UNCHANGED blind
     \/ FetchBackward /\ blind' = (CursorsNow.backward = None)
  /\ UNCHANGED <<state, saved, tip, stored, skipped, emptied, faults>>
-----------------------------------------------------------------------------
Historic(d) == AllHistoric \/ (d = "backward" /\ state[Account].historic)
Top(d) == IF RunOf(d).to = None THEN tip ELSE RunOf(d).to
Bottom(d) == IF Historic(d) THEN RunOf(d).from ELSE Higher(RunOf(d).from, OwnFrom)

(* Where a page ends after a number of calls to the node.                   *)
LowAfter(d, calls) == Higher(Bottom(d), Top(d) - calls * PageSize + 1)

(* Mutant: a page is what its last call returned. *)
LastCallOnly(d, low) ==
  {i \in low..Top(d) : i < low + PageSize} \ Failing

(* filterSignature                                                          *)
Chunk(d, low) == (low..Top(d)) \ Failing

(* getOptimizedHistory: it calls until it has as many signatures to fetch   *)
(* as it should, or the node has no more.                                   *)
Enough(d, calls) ==
  \/ Cardinality(Chunk(d, LowAfter(d, calls))) >= PageSize
  \/ LowAfter(d, calls) = Bottom(d)

Calls(d) == CHOOSE n \in 1..(Last + 1) : Enough(d, n) /\ \A m \in 1..(n - 1) : ~Enough(d, m)

(* processSignatures, indexSignatures of a page that is not empty.          *)
Process(d, low) ==
  /\ stored' = stored \cup Chunk(d, low)
  /\ PageDone(Account, d, low, Top(d), 0, FALSE)

FetchPage(d) ==
  /\ InPhase(Account, d, "fetching")
  /\ IF Top(d) < Bottom(d)
       THEN Fetched(Account, d, FALSE) /\ UNCHANGED stored
       ELSE Process(d, LowAfter(d, Calls(d)))
  /\ UNCHANGED <<state, saved, tip, skipped, blind, emptied, faults>>

(* A call is answered with nothing though there is more: the loop ends, for *)
(* the count of retries is used up by the first call.                       *)
EmptyAnswer(d) ==
  /\ Fault("empty")
  /\ InPhase(Account, d, "fetching")
  /\ Top(d) >= Bottom(d)
  /\ \E n \in 0..(Calls(d) - 1) :
       IF n = 0 THEN Fetched(Account, d, FALSE) /\ UNCHANGED stored
       ELSE Process(d, LowAfter(d, n))
  /\ emptied' = TRUE
  /\ UNCHANGED <<state, saved, tip, skipped, blind>>

PageFails(d) ==
  /\ Fault("rpc")
  /\ InPhase(Account, d, "fetching")
  /\ Fetched(Account, d, TRUE)
  /\ UNCHANGED <<state, saved, tip, stored, skipped, blind, emptied>>
-----------------------------------------------------------------------------
(* Mutant: a node that has no more ends the history, whichever it is. *)
CompleteOnAnyNode(d) ==
  d = "backward" /\ ~RunOf(d).error /\ ~NewItems(d, RunOf(d).last)

(* _checkComplete                                                           *)
Complete(d) ==
  /\ d = "backward"
  /\ ~RunOf(d).error
  /\ ~NewItems(d, RunOf(d).last)
  /\ state[Account].historic

(* What a forward run leaves below its page for good: nobody comes back to  *)
(* what is above the old cursor, or below a history that is complete.       *)
LeftOut(d) ==
  LET old == RunOf(d).prev.forward
      low == RunOf(d).last.backward
  IN IF d = "forward" /\ low # None /\ (old # None \/ state[Account].complete)
       THEN (old + 1)..(low - 1) ELSE {}

(* So is what it left below its page when a backward run, which had begun   *)
(* at the tip as there were no cursors, turns out to be below that already. *)
Overtaken(d) ==
  LET low == RunOf(d).prev.backward
      top == RunOf(d).last.forward
  IN IF d = "backward" /\ blind /\ low # None /\ (top # None \/ Complete(d))
       THEN (top + 1)..(low - 1) ELSE {}

NoneUpdates == \A d \in Direction : ~InPhase(Account, d, "updating")

(* An update waits for no more than a turn of the event loop, a save for    *)
(* the store: no job is through with both while the other one updates.      *)
Update(d) ==
  /\ \/ /\ \/ TakeCursors(Account, d) /\ NoneUpdates
           \/ SkipUpdate(Account, d)
           \/ SaveState(Account, d) /\ NoneUpdates
        /\ UNCHANGED skipped
     \/ /\ PutCursors(Account, d, Complete(d))
        /\ skipped' = skipped \cup LeftOut(d) \cup Overtaken(d)
  /\ UNCHANGED <<tip, stored, blind, emptied, faults>>

(* The fetches of both jobs end at once: both are in the update.            *)
UpdatesOverlap(d) ==
  /\ Fault("overlap")
  /\ ~NoneUpdates
  /\ TakeCursors(Account, d)
  /\ UNCHANGED <<tip, stored, skipped, blind, emptied>>

(* The pool has waited for both jobs. *)
Start ==
  /\ InPhase(Account, "backward", "off")
  /\ StartRun(Account)
  /\ UNCHANGED <<tip, stored, skipped, blind, emptied, faults>>

(* A run of the pool has failed, by another account: its next run handles   *)
(* this one while the backward job that the last one started goes on.       *)
StartBeside ==
  /\ Fault("pool")
  /\ ~InPhase(Account, "backward", "off")
  /\ StartRun(Account)
  /\ UNCHANGED <<tip, stored, skipped, blind, emptied>>

Restart ==
  /\ Fault("crash")
  /\ HistRestart
  /\ blind' = FALSE
  /\ UNCHANGED <<tip, stored, skipped, emptied>>

Next ==
  \/ NewSignature
  \/ Start
  \/ StartBeside
  \/ BeginRun
  \/ \E d \in Direction :
       FetchPage(d) \/ EmptyAnswer(d) \/ PageFails(d) \/ Update(d) \/ UpdatesOverlap(d)
  \/ Restart

Spec == Init /\ [][Next]_vars

Fairness ==
  /\ WF_vars(Start)
  /\ WF_vars(BeginRun)
  /\ \A d \in Direction : WF_vars(FetchPage(d)) /\ WF_vars(Update(d))

FairSpec == Spec /\ Fairness
-----------------------------------------------------------------------------
Got == stored \cup skipped \cup Failing

(* getAccountState: the first slot all of which is known, as a page may end *)
(* within a slot.                                                           *)
FirstSlot(c, complete) ==
  LET first == SlotOf[c.backward] + (IF complete THEN 0 ELSE 1)
  IN IF first < SlotOf[c.forward] THEN first ELSE SlotOf[c.forward]

(* What the account's state offers for requests by date is stored: all of   *)
(* each slot in the range but the last one, more of which may still come;   *)
(* unless an empty answer made the history complete.                        *)
AvailableIsStored ==
  LET c == saved[Account].cursors
  IN c.forward # None /\ ~(emptied /\ saved[Account].complete) =>
       {i \in 0..tip : /\ SlotOf[i] >= FirstSlot(c, saved[Account].complete)
                       /\ SlotOf[i] < SlotOf[c.forward]} \subseteq Got

(* Between the cursors nothing is missing, whatever order the runs, faults  *)
(* and new signatures come in, but what a limited forward run passed over   *)
(* (LeftOut), or a backward run that began without cursors (Overtaken).     *)
RangeIsStored ==
  /\ TypeOK /\ AvailableIsStored
  /\ \A s \in {state[Account], saved[Account]} :
       s.cursors.forward # None => s.cursors.backward..s.cursors.forward \subseteq Got

(* A history is complete when it is known down to its first signature, by   *)
(* whichever node it was fetched from; but not when a node has answered with*)
(* nothing though it had more: see GetsTheRightResponse.                    *)
CompleteIsWhole ==
  \A s \in {state[Account], saved[Account]} :
    s.complete /\ ~emptied => 0..s.cursors.forward \subseteq Got

(* The backward job comes to the end of the history.                        *)
HistoryCompletes == <>state[Account].complete

(* "after some retries we get the right response": an empty answer of one   *)
(* node does not end the history. It does, for there is no retry: no run    *)
(* checks it.                                                               *)
GetsTheRightResponse ==
  state[Account].complete => 0..CursorsNow.forward \subseteq Got
=============================================================================
