-------------------------------- MODULE Streams --------------------------------
(***************************************************************************)
(* What the stream helpers make of whole streams, given as sequences.       *)
(***************************************************************************)
EXTENDS Naturals, Sequences, SequencesExt

(* Items are numbers; a stream of streams has its items told apart by a     *)
(* source: [value |-> n, source |-> s].                                     *)
AtMost(a, b) == a.value <= b.value

MergeStreams(sources) == FlattenSeq(sources)

NotEmpty(sources) == SelectSeq(sources, LAMBDA s : s # <<>>)

RECURSIVE MergeShuffledStreams(_)

(* One item of each in turn, until all are done.                            *)
MergeShuffledStreams(sources) ==
  LET left == NotEmpty(sources)
      heads == [i \in DOMAIN left |-> Head(left[i])]
      tails == [i \in DOMAIN left |-> Tail(left[i])]
  IN IF left = <<>> THEN <<>> ELSE heads \o MergeShuffledStreams(tails)

(* nextItems.sort is stable: of two that compare equal, the one before      *)
(* stays before.                                                            *)
SortedByHead(items) ==
  LET order == SetToSortSeq(DOMAIN items, LAMBDA i, j :
                 LET a == Head(items[i]) b == Head(items[j])
                 IN ~AtMost(b, a) \/ (AtMost(a, b) /\ i < j))
  IN [i \in DOMAIN items |-> items[order[i]]]

(* Mutant: the first stream is read to its end. *)
RunAll(first, others) == Len(first)

(* How many items of the first stream come before those of the others.      *)
RunLength(first, others) ==
  IF others = <<>> THEN Len(first)
  ELSE LET later == {i \in DOMAIN first : ~AtMost(first[i], Head(others[1]))}
       IN IF later = {} THEN Len(first)
          ELSE (CHOOSE i \in later : \A j \in later : i <= j) - 1

RECURSIVE MergeItems(_)

MergeItems(items) ==
  IF items = <<>> THEN <<>>
  ELSE LET sorted == SortedByHead(items)
           first == Head(sorted)
           n == RunLength(first, Tail(sorted))
           rest == SubSeq(first, n + 1, Len(first))
       IN SubSeq(first, 1, n) \o MergeItems(NotEmpty(<<rest>>) \o Tail(sorted))

MergeShuffledSortedStreams(sources) ==
  IF Len(sources) = 1 THEN sources[1] ELSE MergeItems(NotEmpty(sources))
-----------------------------------------------------------------------------
(* StreamFilter passes what its filter likes, StreamMap maps one by one;     *)
(* StreamUnBuffer takes arrays apart: FlattenSeq.                           *)
StreamFilter(items, liked) == SelectSeq(items, LAMBDA item : item \in liked)
StreamMap(items, map) == [i \in DOMAIN items |-> map[items[i]]]
StreamUnBuffer(arrays) == FlattenSeq(arrays)

(* StreamBuffer: the inputs are arrays, or single items, <<item>>. A buffer *)
(* goes on when it is large enough, or at the end when anything is left.    *)
StreamBuffer(arrays, size) ==
  LET add(acc, input) ==
        LET buffer == acc.buffer \o input
        IN IF Len(buffer) >= size
             THEN [out |-> Append(acc.out, buffer), buffer |-> <<>>]
             ELSE [acc EXCEPT !.buffer = buffer]
      end == FoldLeft(add, [out |-> <<>>, buffer |-> <<>>], arrays)
  IN IF end.buffer = <<>> THEN end.out ELSE Append(end.out, end.buffer)
-----------------------------------------------------------------------------
(* An instruction of a transaction: its number, and its inner instructions. *)
(* groupInstructions: these come before it.                                 *)
GroupInstructions(instructions) ==
  LET flat == [i \in DOMAIN instructions |->
                 Append([k \in DOMAIN instructions[i].inner |->
                           [instruction |-> instructions[i].inner[k],
                            parent |-> instructions[i].number]],
                        [instruction |-> instructions[i].number, parent |-> 0])]
  IN FlattenSeq(flat)

(* parseInstructions: the inner instructions come in groups that name the   *)
(* index of their instruction; of two groups for one index the last counts. *)
ParseInstructions(numbers, groups) ==
  LET of(i) == SelectSeq(groups, LAMBDA g : g.index = i)
      inner(i) == IF of(i) = <<>> THEN <<>> ELSE Last(of(i)).instructions
  IN [i \in DOMAIN numbers |-> [number |-> numbers[i], inner |-> inner(i)]]

(* What the domain's index hook of a blockchain gets of a range's entities. *)
EntityBatches(entities, liked, size) ==
  StreamBuffer(StreamMap(StreamFilter(entities, liked), [e \in liked |-> <<e>>]), size)

(* On Solana it goes on with the instructions of the transactions.          *)
InstructionBatches(transactions, liked, size, likedInstructions, batchSize) ==
  LET indexed == StreamUnBuffer(EntityBatches(transactions, liked, size))
      contexts == StreamUnBuffer(StreamMap(indexed, [t \in liked |-> GroupInstructions(t)]))
      wanted == {c \in Range(contexts) : c.instruction \in likedInstructions}
  IN EntityBatches(contexts, wanted, batchSize)
=============================================================================
