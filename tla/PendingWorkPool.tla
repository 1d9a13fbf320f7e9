---------------------------- MODULE PendingWorkPool ----------------------------
(***************************************************************************)
(* Pools of stored works, as the fetcher service uses them: works are added *)
(* by id, a debounced runner streams them in chunks to a handler, several   *)
(* chunks at a time, and those found complete afterwards are removed.       *)
(*                                                                         *)
(* The module has the pools' own steps; what handling a chunk means is left *)
(* to the module that extends it.                                           *)
(***************************************************************************)
EXTENDS Naturals, FiniteSets

CONSTANTS
  Id,           (* ids of works                                            *)
  Peer,         (* the indexers a work is done for                         *)
  Pool,         (* the pools                                               *)
  ChunkSize,    (* [Pool -> Nat]: how many works a handler gets            *)
  Concurrency   (* [Pool -> Nat]: how many chunks are handled at once      *)

ASSUME ChunkSizeAssumption == ChunkSize \in [Pool -> Nat \ {0}]
ASSUME ConcurrencyAssumption == Concurrency \in [Pool -> Nat \ {0}]

VARIABLES
  works,        (* dal: the peers of each stored work, {} when not stored  *)
  runner,       (* DebouncedJobRunner, and the run it has under way        *)
  chunk         (* the handlers at work                                    *)

poolVars == <<works, runner, chunk>>

PoolOf(s) == s[1]
SlotsOf(p) == {<<p, i>> : i \in 1..Concurrency[p]}
Slot == UNION {SlotsOf(p) : p \in Pool}

NoWorks == [x \in Id |-> {}]
Stored(w) == {x \in Id : w[x] # {}}

RunnerState ==
  [phase : {"idle", "waiting", "running", "closing"},
   again : BOOLEAN,        (* pendingRun, set since it began to run        *)
   skipSleep : BOOLEAN,
   keys : SUBSET Id,       (* of the stream, not read yet                  *)
   exit : BOOLEAN,         (* the stream has no more chunks                *)
   timer : BOOLEAN]        (* a handler said when to come back             *)

IdleRunner ==
  [phase |-> "idle", again |-> FALSE, skipSleep |-> FALSE, keys |-> {}, exit |-> FALSE,
   timer |-> FALSE]

FreeChunk ==
  [step |-> "free", works |-> NoWorks, found |-> {}, failed |-> FALSE, awaited |-> FALSE]

Busy(s) == chunk[s].step # "free"
Held(s) == Stored(chunk[s].works)

PoolTypeOK ==
  /\ works \in [Pool -> [Id -> SUBSET Peer]]
  /\ runner \in [Pool -> RunnerState]
  /\ \A p \in Pool : runner[p].timer \/ runner[p].exit \/ runner[p].keys # {}
                       => runner[p].phase = "running"
  /\ \A s \in Slot :
       /\ chunk[s].works \in [Id -> SUBSET Peer]
       /\ chunk[s].found \subseteq Held(s)
       /\ chunk[s].failed \in BOOLEAN
       /\ chunk[s].awaited => runner[PoolOf(s)].phase = "running"
       /\ Busy(s) <=> Held(s) # {}

PoolInit ==
  /\ works = [p \in Pool |-> NoWorks]
  /\ runner = [p \in Pool |-> IdleRunner]
  /\ chunk = [s \in Slot |-> FreeChunk]
-----------------------------------------------------------------------------
(* DebouncedJob.run: an idle runner is to open a stream; one that waits     *)
(* for its timer does not wait any longer; one that runs takes note, even   *)
(* when it is too late, for it saw that nothing was due and is to stop.     *)
Triggered(r) ==
  [r EXCEPT !.phase = IF @ = "idle" THEN "waiting" ELSE @,
            !.again = @ \/ r.phase \in {"running", "closing"}]

(* updateCheckFn: the peers of a work that is stored already are united.    *)
Saved(w, new) == [x \in Id |-> w[x] \cup new[x]]

(* addWork past its size check: what it does to the pools.                  *)
AddWork(p, new) ==
  IF Stored(new) = {} THEN UNCHANGED <<works, runner>>
  ELSE /\ works' = [works EXCEPT ![p] = Saved(@, new)]
       /\ runner' = [runner EXCEPT ![p] = Triggered([@ EXCEPT !.skipSleep = TRUE])]

Only(w, S) == [x \in Id |-> IF x \in S THEN w[x] ELSE {}]

(* runJob: the stream over the sorted index is opened, its keys are fixed.  *)
OpenStream(p) ==
  /\ runner[p].phase = "waiting"
  /\ runner' = [runner EXCEPT ![p] = [@ EXCEPT !.phase = "running", !.again = FALSE,
                                               !.keys = Stored(works[p])]]
  /\ UNCHANGED <<works, chunk>>

(* loadPendingWork: the next works of the stream that are still stored, as  *)
(* they are now. A short chunk is the last one.                             *)
LoadPendingWork(s) ==
  LET p == PoolOf(s)
      left == runner[p].keys \cap Stored(works[p])
  IN /\ s \in SlotsOf(p)
     /\ ~Busy(s)
     /\ runner[p].phase = "running"
     /\ ~runner[p].exit
     /\ \E C \in SUBSET left :
          /\ Cardinality(C) <= ChunkSize[p]
          /\ Cardinality(C) < ChunkSize[p] => C = left
          /\ runner' = [runner EXCEPT ![p].keys = @ \ C,
                                      ![p].exit = Cardinality(C) < ChunkSize[p]]
          /\ chunk' = IF C = {} THEN chunk
                      ELSE [chunk EXCEPT ![s] = [FreeChunk EXCEPT
                              !.step = "loaded", !.works = Only(works[p], C),
                              !.awaited = TRUE]]
     /\ UNCHANGED works

(* checkComplete, whatever came of the handler: the works among C are       *)
(* removed by id. When the handler failed the run fails with it: the runner *)
(* no longer waits for the other chunks, and tries again in a second.       *)
RemoveComplete(s, C) ==
  LET p == PoolOf(s)
      fails == chunk[s].failed /\ chunk[s].awaited
  IN /\ works' = [works EXCEPT ![p] = Only(@, Id \ C)]
     /\ chunk' = [t \in Slot |->
                    IF t = s THEN FreeChunk
                    ELSE IF fails /\ PoolOf(t) = p THEN [chunk[t] EXCEPT !.awaited = FALSE]
                    ELSE chunk[t]]
     /\ runner' = IF fails
                    THEN [runner EXCEPT ![p] = [@ EXCEPT !.phase = "waiting",
                            !.again = FALSE, !.keys = {}, !.exit = FALSE,
                            !.timer = FALSE]]
                    ELSE runner

(* The stream is at its end and all its chunks were handled. The runner     *)
(* goes on if it was asked to run meanwhile, comes back at once when works  *)
(* were added, or as soon as a handler said; else it stops.                 *)
FinishRun(p) ==
  /\ runner[p].phase = "running"
  /\ runner[p].exit
  /\ \A s \in SlotsOf(p) : ~(Busy(s) /\ chunk[s].awaited)
  /\ runner' = [runner EXCEPT ![p] = [IdleRunner EXCEPT
                  !.phase = IF runner[p].again \/ runner[p].skipSleep \/ runner[p].timer
                              THEN "waiting" ELSE "closing"]]
  /\ UNCHANGED <<works, chunk>>

(* The end of DebouncedJobRunner._run, a turn after its loop ended.         *)
CloseRun(p) ==
  /\ runner[p].phase = "closing"
  /\ runner' = [runner EXCEPT ![p].phase = "idle"]
  /\ UNCHANGED <<works, chunk>>

RunnerStep(p) ==
  \/ OpenStream(p)
  \/ FinishRun(p)
  \/ CloseRun(p)

(* The process stops and starts again: the works are still stored, start()  *)
(* runs every pool.                                                         *)
PoolRestart ==
  /\ runner' = [p \in Pool |-> Triggered(IdleRunner)]
  /\ chunk' = [s \in Slot |-> FreeChunk]
  /\ UNCHANGED works
=============================================================================
