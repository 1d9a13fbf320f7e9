------------------------------ MODULE AtomicStore ------------------------------
(***************************************************************************)
(* What a store of entities promises to those that share it: each call is   *)
(* one step that applies its entities in their order to what is stored then,*)
(* or that changes nothing.                                                 *)
(***************************************************************************)
EXTENDS Naturals, Sequences

CONSTANTS
  Key,          (* primary keys                                            *)
  Val,          (* what an entity is stored with                           *)
  None,
  Proc,         (* the callers                                             *)
  Kind,         (* [Proc -> {"save", "remove"}]                            *)
  Batch,        (* [Proc -> Seq([key : Key, val : Val])]                   *)
  Check(_, _)   (* updateCheckFn: what becomes of an old and a new entity,  *)
                (* the old one or None to keep or to delete it             *)

VARIABLE stored

Group == [Key -> Val \cup {None}]

OneApplied(p, map, e) ==
  [map EXCEPT ![e.key] = IF Kind[p] = "remove" THEN None ELSE Check(@, e.val)]

(* What the n-th entity of a call is applied to, of what they lead through. *)
Before(passed, n) == IF n = 1 THEN stored ELSE passed[n - 1]

StoreInit == stored = [k \in Key |-> None]

StoreCall(p) ==
  \E passed \in [DOMAIN Batch[p] -> Group] :
    /\ \A n \in DOMAIN Batch[p] : passed[n] = OneApplied(p, Before(passed, n), Batch[p][n])
    /\ stored' = Before(passed, Len(Batch[p]) + 1)

StoreNext == \E p \in Proc : StoreCall(p)

StoreSpec == StoreInit /\ [][StoreNext]_stored
=============================================================================
