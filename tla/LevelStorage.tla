------------------------------ MODULE LevelStorage -----------------------------
(***************************************************************************)
(* A LevelDB store, as far as its keys go: they are strings, kept in their  *)
(* order, and asked for one by one, or by a range from and to given chunks. *)
(***************************************************************************)
EXTENDS Naturals, Sequences, SequencesExt

(* Characters, in their order: "!", one below and one above ":", "|", "~".  *)
MinChar == 0
Low == 1
Delim == 2
High == 3
Bar == 4
MaxChar == 5

Undefined == <<>>   (* no chunk is the empty string                        *)
NoChunks == <<>>    (* a bound that is not given                           *)

LexBefore(a, b) ==
  \E n \in 0..Len(a) :
    /\ n < Len(b)
    /\ \A i \in 1..n : a[i] = b[i]
    /\ n < Len(a) => a[n + 1] < b[n + 1]

ComposeKey(chunks) ==
  FoldLeft(LAMBDA key, chunk : IF key = <<>> THEN chunk ELSE key \o <<Delim>> \o chunk,
           <<>>, chunks)
-----------------------------------------------------------------------------
(* get, getMany and exists: what is not there is answered by undefined.     *)
Get(keys, chunks) == IF ComposeKey(chunks) \in keys THEN ComposeKey(chunks) ELSE Undefined
GetMany(keys, several) == [i \in DOMAIN several |-> Get(keys, several[i])]
Exists(keys, chunks) == Get(keys, chunks) # Undefined

(* getAll, of entries, keys or values. *)
GetAll(keys, reverse) ==
  LET inOrder == SetToSortSeq(keys, LexBefore)
  IN IF reverse THEN Reverse(inOrder) ELSE inOrder

(* findBoundingEntry: an iterator with the limit 1. *)
FindBounding(keys, reverse) == IF keys = {} THEN Undefined ELSE GetAll(keys, reverse)[1]

GetFirst(keys) == FindBounding(keys, FALSE)
GetLast(keys) == FindBounding(keys, TRUE)
-----------------------------------------------------------------------------
(* Mutant: the upper bound is the composed key itself. *)
FromToExclusive(from, to, key) ==
  /\ from # NoChunks => ~LexBefore(key, ComposeKey(from))
  /\ to # NoChunks => LexBefore(key, ComposeKey(to))

(* getFromToFilters: "gte" and "lt". *)
FromTo(from, to, key) ==
  /\ from # NoChunks => ~LexBefore(key, ComposeKey(from))
  /\ to # NoChunks => LexBefore(key, ComposeKey(to) \o <<MaxChar>>)

Filtered(keys, from, to) == {k \in keys : FromTo(from, to, k)}

(* Entries come reversed when no options are given; here they always are.   *)
GetAllFromTo(keys, from, to, reverse) == GetAll(Filtered(keys, from, to), reverse)

FindBoundingFromTo(keys, from, to, reverse) == FindBounding(Filtered(keys, from, to), reverse)

GetFirstFromTo(keys, from, to) == FindBoundingFromTo(keys, from, to, FALSE)
GetLastFromTo(keys, from, to) == FindBoundingFromTo(keys, from, to, TRUE)
=============================================================================
