------------------------------ MODULE BaseHistory ------------------------------
(***************************************************************************)
(* BaseHistoryFetcher: a fetcher walks the history of a blockchain in two   *)
(* directions, from where it began to what is new (forward) and to what is  *)
(* older (backward). Both jobs share one state object, with the cursors of  *)
(* both, which they save after each run.                                    *)
(*                                                                         *)
(* A run of a job is: due, fetching its pages, fetched, updating (it has    *)
(* read the cursors it updates, and waits), saving. What a page is and when *)
(* a history is complete is left to the module that extends this one.       *)
(***************************************************************************)
EXTENDS Integers, FiniteSets

CONSTANTS
  Fetcher,      (* the fetchers of the process                             *)
  Once,         (* those in a pool, which runs each of their jobs once     *)
  Last,         (* the greatest position in the history                    *)
  AllHistoric   (* whether the node used at first knows the whole history  *)

ASSUME OnceAssumption == Once \subseteq Fetcher
ASSUME LastAssumption == Last \in Nat
ASSUME AllHistoricAssumption == AllHistoric \in BOOLEAN

VARIABLES
  state,        (* fetcherState, in memory                                 *)
  saved,        (* fetcherStateDAL                                         *)
  job           (* the runs of the jobs                                    *)

histVars == <<state, saved, job>>

Direction == {"forward", "backward"}
None == -1
Position == 0..Last
Cursor == Position \cup {None}
Unlimited == 2 * (Last + 1)       (* Number.MAX_SAFE_INTEGER               *)
Cursors == [forward : Cursor, backward : Cursor]
NoCursors == [forward |-> None, backward |-> None]

FetcherState ==
  [cursors : Cursors, complete : BOOLEAN, historic : BOOLEAN]  (* of the backward job *)

Phase == {"off", "due", "fetching", "fetched", "updating", "saving"}

Run ==
  [phase : Phase,
   from : Position, to : Cursor,  (* what is still to be fetched           *)
   left : 0..Unlimited,           (* of the run's iterationLimit           *)
   last : Cursors,                (* lastCursors, of the pages so far      *)
   prev : Cursors,                (* prevCursors, read before the update   *)
   error : BOOLEAN,
   swap : BOOLEAN]                (* swapToPublicRPC                       *)

NoRun ==
  [phase |-> "off", from |-> 0, to |-> None, left |-> 0, last |-> NoCursors,
   prev |-> NoCursors, error |-> FALSE, swap |-> FALSE]

HistTypeOK ==
  /\ state \in [Fetcher -> FetcherState]
  /\ saved \in [Fetcher -> FetcherState]
  /\ job \in [Fetcher -> [Direction -> Run]]

HistInit ==
  /\ state = [f \in Fetcher |->
       [cursors |-> NoCursors, complete |-> FALSE, historic |-> AllHistoric]]
  /\ saved = state
  /\ job = [f \in Fetcher |-> [d \in Direction |-> NoRun]]

Due == [NoRun EXCEPT !.phase = "due"]
InPhase(f, d, phase) == job[f][d].phase = phase
-----------------------------------------------------------------------------
(* run: the forward job starts unless it is running, whatever the other one *)
(* does; the backward job waits for it. A pool does so again and again.     *)
StartRun(f) ==
  /\ InPhase(f, "forward", "off")
  /\ job' = [job EXCEPT ![f]["forward"] = Due]
  /\ UNCHANGED <<state, saved>>

(* handleFetch begins: the range and the limit of the run are fixed.        *)
Begin(f, d, from, to, left) ==
  /\ InPhase(f, d, "due")
  /\ job' = [job EXCEPT ![f][d] = [NoRun EXCEPT
               !.phase = "fetching", !.from = from, !.to = to, !.left = left]]

(* There is nothing to fetch: no page, no error.                            *)
BeginEmpty(f, d) ==
  /\ InPhase(f, d, "due")
  /\ job' = [job EXCEPT ![f][d] = [NoRun EXCEPT !.phase = "fetched"]]

(* A page is processed: it has `first' at its old end, `newest' at the      *)
(* other, and when it is not the last one the run goes on below it.         *)
PageDone(f, d, first, newest, left, more) ==
  LET r == job[f][d]
  IN job' = [job EXCEPT ![f][d] = [r EXCEPT
       !.phase = IF more THEN "fetching" ELSE "fetched",
       !.to = first - 1,
       !.left = left,
       !.last = [backward |-> first,
                 forward |-> IF r.last.forward = None THEN newest ELSE r.last.forward]]]

Fetched(f, d, error) ==
  job' = [job EXCEPT ![f][d].phase = "fetched", ![f][d].error = error]
-----------------------------------------------------------------------------
(* _updateCursors: a job moves its own cursor, and sets the other one only  *)
(* when there was none.                                                     *)
UpdateCursors(d, prev, last) ==
  LET moved(e) == IF last[e] # None THEN last[e] ELSE prev[e]
      set(e) == IF prev[e] = None THEN last[e] ELSE prev[e]
  IN [e \in Direction |-> IF e = d THEN moved(e) ELSE set(e)]

NewItems(d, last) == last[d] # None

(* Mutant: the node of one's own is never left. *)
NeverSwap(f, d) == FALSE

Swap(f, d) ==
  /\ d = "backward"
  /\ ~job[f][d].error
  /\ ~NewItems(d, job[f][d].last)
  /\ ~state[f].historic

(* _runJob after the fetch: a forward run that failed updates no cursor; a  *)
(* backward run does, for it went down from its cursor page by page.        *)
TakeCursors(f, d) ==
  /\ InPhase(f, d, "fetched")
  /\ d = "backward" \/ ~job[f][d].error
  /\ job' = [job EXCEPT ![f][d].phase = "updating", ![f][d].prev = state[f].cursors]
  /\ UNCHANGED <<state, saved>>

NewCursors(f, d) == UpdateCursors(d, job[f][d].prev, job[f][d].last)

(* The other job may have saved its cursor since this one read the cursors. *)
(* Whether the run completes the history is seen before a node that does    *)
(* not know all of it is left for one that does.                            *)
PutCursors(f, d, complete) ==
  /\ InPhase(f, d, "updating")
  /\ state' = [state EXCEPT ![f] =
       [cursors |-> NewCursors(f, d),
        complete |-> IF d = "backward" THEN complete ELSE @.complete,
        historic |-> @.historic \/ Swap(f, d)]]
  /\ job' = [job EXCEPT ![f][d].phase = "saving", ![f][d].swap = Swap(f, d)]
  /\ UNCHANGED saved

SkipUpdate(f, d) ==
  /\ InPhase(f, d, "fetched")
  /\ d = "forward" /\ job[f][d].error
  /\ job' = [job EXCEPT ![f][d].phase = "saving"]
  /\ UNCHANGED <<state, saved>>

(* What JobRunner does after a run: again after an error (in a second) or   *)
(* a swap, never after the history is complete, else as often as told.      *)
Rest(f, d, complete) ==
  IF \/ job[f][d].error
     \/ d = "backward" /\ job[f][d].swap
     \/ f \notin Once /\ ~(d = "backward" /\ complete)
    THEN Due
    ELSE NoRun

(* saveFetcherState; then the run is over. The first forward run that does  *)
(* not fail starts the backward job.                                        *)
SaveState(f, d) ==
  LET complete == state[f].complete
      starts == d = "forward" /\ ~job[f][d].error /\ ~complete
                  /\ InPhase(f, "backward", "off")
  IN /\ InPhase(f, d, "saving")
     /\ saved' = [saved EXCEPT ![f] = state[f]]
     /\ job' = [job EXCEPT ![f] = [e \in Direction |->
                  IF e = d THEN Rest(f, d, complete)
                  ELSE IF starts THEN Due ELSE job[f][e]]]
     /\ UNCHANGED state

(* The process restarts: what was not saved is forgotten.                   *)
HistRestart ==
  /\ state' = saved
  /\ job' = [f \in Fetcher |-> [d \in Direction |-> NoRun]]
  /\ UNCHANGED saved
=============================================================================
