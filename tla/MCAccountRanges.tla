---------------------------- MODULE MCAccountRanges ----------------------------
(***************************************************************************)
(* Two systems in one run, of which one or the other moves: an account of  *)
(* few instants, with one merge at a time, and the ranges another account  *)
(* has processed, over more instants and with two merges at once. The      *)
(* whole of AccountEntityIndexer is too large for that history.            *)
(***************************************************************************)
EXTENDS AccountEntityIndexer, TLC

CONSTANTS LongLastDate, LongMerger

VARIABLES longStates, longMerging, longNested

Long == INSTANCE IndexerStateCompaction WITH
          LastDate <- LongLastDate, ChunkTimeframe <- 0, Merger <- LongMerger,
          states <- longStates, merging <- longMerging, nested <- longNested

longVars == <<longStates, longMerging, longNested>>

MCInit == Init /\ Long!CompactionInit

AccountStep == Long!CompactionInit /\ Next /\ UNCHANGED longVars
LongStep == Init /\ Long!CompactionNext /\ UNCHANGED vars

MCSpec ==
  MCInit /\ [][(AccountStep \/ LongStep) /\ UNCHANGED slowReads]_<<vars, slowReads, longVars>>

(* Of merges after that nothing is said: the run ends there. *)
Unnested == ~longNested

MCSymmetry == Permutations(LongMerger)

(* That a merge loses no processed instant, until one has read ranges that  *)
(* share an instant (mergeStates), of the ranges of the longer history.     *)
LongKeepsCoverage ==
  [][~longNested' =>
       Cover(Long!InState("Processed")) \subseteq Cover(Long!InState("Processed"))']_longVars
=============================================================================
