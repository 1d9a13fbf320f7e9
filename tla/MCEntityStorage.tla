---------------------------- MODULE MCEntityStorage ----------------------------
EXTENDS EntityStorage, TLC

CONSTANTS a, b, none

Vals == {{1}, {2}, {1, 2}}
Procs == {"first", "second", "third"}
Kinds == [first |-> "save", second |-> "remove", third |-> "save"]
Entity(k, v) == [key |-> k, val |-> v]
Batches ==
  [first |-> <<Entity(a, {1}), Entity(a, {2})>>,
   second |-> <<Entity(a, {1})>>,
   third |-> <<Entity(b, {1})>>]

(* The payloads of a stored and of a new work are united.                   *)
United(old, new) == IF old = none THEN new ELSE old \cup new
Same(v) == v

LockAs(f, s, t) == [first |-> f, second |-> s, third |-> t]
StoreOrIds == {LockAs("main", "main", "main"), LockAs("x", "x", "y"), LockAs("x", "x", "main")}
=============================================================================
