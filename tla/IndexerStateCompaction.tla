------------------------ MODULE IndexerStateCompaction ------------------------
(***************************************************************************)
(* The ranges an account indexer has processed, and their compaction:      *)
(* mergeStates replaces the ranges that touch by their union. It runs as a *)
(* job and each time the indexing state is asked for, so several merges    *)
(* may be under way; it reads the store one range at a time, then saves the *)
(* unions, then removes the ranges they replace.                           *)
(*                                                                         *)
(* Next alone is the compaction over a store where disjoint processed      *)
(* ranges appear; AccountEntityIndexer adds where they come from.          *)
(***************************************************************************)
EXTENDS DateRanges

CONSTANTS
  LastDate,    (* the instants are 0..LastDate                             *)
  ChunkTimeframe, (* how far from its start a fetched range may end        *)
  Merger       (* who runs mergeStates: the job, and callers of the state  *)

ASSUME LastDateAssumption == LastDate \in Nat
ASSUME ChunkTimeframeAssumption == ChunkTimeframe \in Nat

DateRanges == DateRangesUpTo(LastDate)

VARIABLES
  states,      (* entityIndexerStateDAL: the state of each stored range    *)
  merging,     (* how far each merge is                                    *)
  nested       (* has a merge read processed ranges that share an instant? *)

compactionVars == <<states, merging, nested>>

StateCode == {"none", "Pending", "Ready", "Processed"}

MergeAcc ==
  [prev : SUBSET DateRanges, prevMerged : BOOLEAN, merged : SUBSET DateRanges,
   old : SUBSET DateRanges, new : SUBSET DateRanges]

MergeState ==
  [step : {"idle", "read", "saved"},
   toRead : SUBSET DateRanges,   (* keys of the stream not read yet        *)
   acc : MergeAcc]

NoMerge == [step |-> "idle", toRead |-> {}, acc |-> MergeStart]

CompactionTypeOK ==
  /\ states \in [DateRanges -> StateCode]
  /\ merging \in [Merger -> MergeState]
  /\ nested \in BOOLEAN

InState(code) == {r \in DateRanges : states[r] = code}
Known == {r \in DateRanges : states[r] # "none"}

CompactionInit ==
  /\ states = [r \in DateRanges |-> "none"]
  /\ merging = [m \in Merger |-> NoMerge]
  /\ nested = FALSE
-----------------------------------------------------------------------------
(* The stream of the processed ranges is opened: its keys are fixed now.    *)
StartMerge(m) ==
  /\ merging[m].step = "idle"
  /\ merging' = [merging EXCEPT ![m] = [NoMerge EXCEPT !.step = "read",
                                                       !.toRead = InState("Processed")]]
  /\ UNCHANGED <<states, nested>>

(* Processed ranges share instants while a union and ranges it is to replace *)
(* are both on record: a merge reads such beside another one, or after one   *)
(* that a crash ended between its two writes.                                *)
SharesInstants(m, r) ==
  /\ states[r] # "none"
  /\ \E p \in merging[m].acc.prev : Instants(p) \cap Instants(r) # {}

(* The next value of the stream is read, unless its record is gone.         *)
ReadState(m) ==
  /\ merging[m].step = "read"
  /\ \E r \in merging[m].toRead :
       /\ \A q \in merging[m].toRead \ {r} : Before(r, q)
       /\ merging' = [merging EXCEPT
            ![m].toRead = @ \ {r},
            ![m].acc = IF states[r] = "none" THEN @ ELSE MergeRange(@, r)]
       /\ nested' = (nested \/ SharesInstants(m, r))
  /\ UNCHANGED states

(* Mutant: the ranges are removed before their union is saved. *)
SaveMergedLast(m) ==
  LET acc == MergeFlush(merging[m].acc) IN
  /\ merging[m].step = "read"
  /\ merging[m].toRead = {}
  /\ states' = [r \in DateRanges |-> IF r \in acc.old /\ acc.new # {} THEN "none" ELSE states[r]]
  /\ merging' = [merging EXCEPT ![m] = IF acc.new = {} THEN NoMerge
                                       ELSE [@ EXCEPT !.step = "saved", !.acc = acc]]
  /\ UNCHANGED nested

(* Nothing is written when no union is new.                                 *)
SaveMerged(m) ==
  LET acc == MergeFlush(merging[m].acc) IN
  /\ merging[m].step = "read"
  /\ merging[m].toRead = {}
  /\ states' = [r \in DateRanges |-> IF r \in acc.new THEN "Processed" ELSE states[r]]
  /\ merging' = [merging EXCEPT ![m] = IF acc.new = {} THEN NoMerge
                                       ELSE [@ EXCEPT !.step = "saved", !.acc = acc]]
  /\ UNCHANGED nested

(* The remove goes by key, whatever the range's state is by then.           *)
RemoveMerged(m) ==
  /\ merging[m].step = "saved"
  /\ states' = [r \in DateRanges |-> IF r \in merging[m].acc.old THEN "none" ELSE states[r]]
  /\ merging' = [merging EXCEPT ![m] = NoMerge]
  /\ UNCHANGED nested

MergeStep(m) ==
  \/ StartMerge(m)
  \/ ReadState(m)
  \/ SaveMerged(m)
  \/ RemoveMerged(m)

(* A range of instants that no stored range has was fetched and processed.  *)
Process(r) ==
  /\ r.endDate - r.startDate <= ChunkTimeframe
  /\ Instants(r) \cap Cover(Known) = {}
  /\ states' = [states EXCEPT ![r] = "Processed"]
  /\ UNCHANGED <<merging, nested>>

CompactionNext ==
  \/ \E m \in Merger : MergeStep(m)
  \/ \E r \in DateRanges : Process(r)

CompactionSpec == CompactionInit /\ [][CompactionNext]_compactionVars
-----------------------------------------------------------------------------
(* "Ordering is important for not causing race conditions issues on pending *)
(* ranges calculation due to empty processed entries": no instant that was  *)
(* processed stops being so, not even between a merge's two writes.         *)
CoverageKept == [][Cover(InState("Processed")) \subseteq Cover(InState("Processed"))']_states

(* That is so with any number of merges under way, until one of them reads  *)
(* ranges that share an instant: it may count on one of them to keep an     *)
(* instant, and the other merge removes that one.                           *)
ApartMergesKeepCoverage ==
  [][~nested' => Cover(InState("Processed")) \subseteq Cover(InState("Processed"))']_compactionVars
=============================================================================
