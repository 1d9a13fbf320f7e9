----------------------------- MODULE RangeStream -----------------------------
(***************************************************************************)
(* A stream of ranges as clipDateRangesFromIterable and                    *)
(* mergeDateRangesFromIterable read it from a store: in the order of the   *)
(* keys, by start and then by end. The ranges may overlap, touch, or lie   *)
(* apart.                                                                  *)
(***************************************************************************)
EXTENDS DateRanges

CONSTANTS LastInstant   (* the instants are 0..LastInstant                 *)

ASSUME LastInstantAssumption == LastInstant \in Nat

VARIABLES streamed      (* what was read so far                            *)

AllRanges == DateRangesUpTo(LastInstant)

StreamInit == streamed = <<>>

ReadRange ==
  \E r \in AllRanges :
    /\ streamed # <<>> => Before(streamed[Len(streamed)], r)
    /\ streamed' = Append(streamed, r)

StreamSpec == StreamInit /\ [][ReadRange]_streamed
-----------------------------------------------------------------------------
StreamTypeOK ==
  /\ streamed \in Seq(AllRanges)
  /\ \A j, k \in DOMAIN streamed : j < k => Before(streamed[j], streamed[k])

Streamed == Range(streamed)

(* Clipping leaves the available instants that no known range has, in the   *)
(* fewest ranges: what an indexer fetches next neither skips nor repeats an *)
(* instant, whatever ranges it knows, overlapping ones included             *)
(* (clipDateRangesFromIterable).                                            *)
ClipIsExact ==
  \A total \in AllRanges :
    ClipDateRangesFromIterable({total}, streamed) =
      SortedRanges(MaximalRuns(Instants(total) \ Cover(Streamed)))

Merged == MergeDateRangesFromIterable(streamed)

(* The merged ranges the indexing state reports are the fewest that have    *)
(* the same instants (mergeDateRangesFromIterable).                         *)
MergedIsExact == Merged.merged = MaximalRuns(Cover(Streamed))

(* A store whose ranges share no instant has just these after a compaction  *)
(* that saves the new ones and removes the old ones (mergeStates).          *)
CompactedIsExact ==
  Disjoint(Streamed) => (Streamed \cup Merged.new) \ Merged.old = Merged.merged

(* So the indexers of accounts know what to fetch and what they have.       *)
RangesAreExact == ClipIsExact /\ MergedIsExact /\ CompactedIsExact
=============================================================================
