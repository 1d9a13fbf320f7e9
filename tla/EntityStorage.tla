----------------------------- MODULE EntityStorage -----------------------------
(***************************************************************************)
(* EntityStorage: entities by primary key and an index over them in one     *)
(* LevelDB, changed by callers that overlap. A call locks the whole store,  *)
(* or what is named by an id; it reads the entities it is about to replace, *)
(* and writes their index entries and the new ones in one batch.            *)
(***************************************************************************)
EXTENDS Integers, FiniteSets, Sequences, SequencesExt

CONSTANTS
  Key, Val, None, Proc, Kind, Batch, Check(_, _), (* as in AtomicStore     *)
  IndexOf(_),   (* the index keys of what is stored                        *)
  Locking,      (* the ways to lock to choose from: [Proc -> locks]        *)
  Reader,       (* readers of the index that lock the whole store          *)
  MaxFaults     (* how many writes fail or processes crash                 *)

Main == "main"
Opener == "init"
KeysOf(p) == {Batch[p][n].key : n \in DOMAIN Batch[p]}

(* Who changes the same entity locks the same, as all callers do.           *)
ASSUME LockingAssumption ==
  \A lock \in Locking : \A p, q \in Proc :
    KeysOf(p) \cap KeysOf(q) # {} => lock[p] = lock[q]
ASSUME NoneAssumption == None \notin Val
ASSUME BatchAssumption ==
  /\ Kind \in [Proc -> {"save", "remove"}]
  /\ \A p \in Proc : Batch[p] \in Seq([key : Key, val : Val])
ASSUME CheckAssumption ==
  \A old \in Val \cup {None}, new \in Val : Check(old, new) \in Val \cup {None}
ASSUME KeyAssumption == IsFiniteSet(Key)
ASSUME ProcAssumption == Proc \cap Reader = {} /\ Opener \notin Proc \cup Reader
ASSUME FaultAssumption == MaxFaults \in Nat

VARIABLES
  lockOf,       (* the option "atomic" of each caller, Main if it is not set *)
  main,         (* the sublevel "main"                                     *)
  index,        (* the sublevel of the index: <<index key, primary key>>   *)
  count,        (* EntityIndexStorage.count, when the option is set        *)
  queue,        (* Mutex: who holds each lock, first, and who waits for it *)
  op,           (* the calls under way                                     *)
  reader,       (* the readers under way                                   *)
  faults, torn  (* torn: a write failed after the count had changed        *)

vars == <<lockOf, main, index, count, queue, op, reader, faults, torn>>

Locks == {Main} \cup UNION {{lock[p] : p \in Proc} : lock \in Locking}
NoGroup == [k \in Key |-> None]
InGroup(g) == {k \in Key : g[k] # None}
IdleOp == [phase |-> "idle", next |-> 1, toSave |-> NoGroup, toRemove |-> NoGroup]
IdleReader == [phase |-> "idle", left |-> {}, got |-> {}]
Entries(map) == UNION {IndexOf(map[k]) \X {k} : k \in InGroup(map)}

(* Only stores whose callers all lock the whole of it count their entities. *)
Counted == \A p \in Proc : lockOf[p] = Main

Group == [Key -> Val \cup {None}]
Caller == Proc \cup Reader \cup {Opener}
EntrySet == (UNION {IndexOf(v) : v \in Val}) \X Key
OpState ==
  [phase : {"idle", "waiting", "reading", "counted", "releasing"},
   next : Nat, toSave : Group, toRemove : Group]
ReaderState ==
  [phase : {"idle", "waiting", "streaming"},
   left : SUBSET EntrySet, got : SUBSET (EntrySet \X Val)]

TypeOK ==
  /\ lockOf \in Locking
  /\ main \in Group
  /\ index \in SUBSET EntrySet
  /\ count \in Int
  /\ queue \in [Locks -> Seq(Caller)]
  /\ op \in [Proc -> OpState]
  /\ \A p \in Proc : op[p].next \in 1..Len(Batch[p]) + 1
  /\ reader \in [Reader -> ReaderState]
  /\ faults \in 0..MaxFaults
  /\ torn \in BOOLEAN

(* The constructor calls init, which locks the store to count its keys.     *)
Init ==
  /\ lockOf \in Locking
  /\ main = NoGroup
  /\ index = {}
  /\ count = 0
  /\ queue = [m \in Locks |-> IF m = Main THEN <<Opener>> ELSE <<>>]
  /\ op = [p \in Proc |-> IdleOp]
  /\ reader = [r \in Reader |-> IdleReader]
  /\ faults = 0 /\ torn = FALSE
-----------------------------------------------------------------------------
Holds(x, m) == queue[m] # <<>> /\ Head(queue[m]) = x
Free(S) == [m \in Locks |-> IF m \in S THEN Tail(queue[m]) ELSE queue[m]]

CountKeys ==
  /\ Holds(Opener, Main)
  /\ queue' = Free({Main})
  /\ count' = IF Counted THEN count + Cardinality(InGroup(main)) ELSE count
  /\ UNCHANGED <<lockOf, main, index, op, reader, faults, torn>>

(* getAtomicOpMutex: a call that locks an id stands in both lines at once.  *)
Call(p) ==
  /\ op[p].phase = "idle"
  /\ op' = [op EXCEPT ![p].phase = "waiting"]
  /\ queue' = [m \in Locks |-> IF m \in {Main, lockOf[p]} THEN Append(queue[m], p) ELSE queue[m]]
  /\ UNCHANGED <<lockOf, main, index, count, reader, faults, torn>>

(* Mutant: nobody waits for a lock of an id. *)
EnteredAtOnce(p) ==
  /\ op[p].phase = "waiting"
  /\ lockOf[p] = Main => Holds(p, Main)
  /\ op' = [op EXCEPT ![p] = [IdleOp EXCEPT !.phase = "reading"]]
  /\ UNCHANGED <<lockOf, main, index, count, queue, reader, faults, torn>>

(* It only waits for the id.                                                *)
Enter(p) ==
  /\ op[p].phase = "waiting"
  /\ Holds(p, lockOf[p])
  /\ op' = [op EXCEPT ![p] = [IdleOp EXCEPT !.phase = "reading"]]
  /\ UNCHANGED <<lockOf, main, index, count, queue, reader, faults, torn>>

(* getEntityGroups: the next entity of the call. What the call has done to  *)
(* it before comes before what is stored; only that goes to toRemove.       *)
GroupEntity(p) ==
  LET e == Batch[p][op[p].next]
      saved == op[p].toSave[e.key]
      fromStore == saved = None /\ op[p].toRemove[e.key] = None
      old == IF fromStore THEN main[e.key] ELSE saved
      new == IF Kind[p] = "remove" THEN None ELSE Check(old, e.val)
      toSave == IF new = old THEN op[p].toSave ELSE [op[p].toSave EXCEPT ![e.key] = new]
      toRemove == IF fromStore /\ new # old
                    THEN [op[p].toRemove EXCEPT ![e.key] = old] ELSE op[p].toRemove
  IN /\ op[p].phase = "reading"
     /\ op[p].next <= Len(Batch[p])
     /\ op' = [op EXCEPT ![p] = [phase |-> "reading", next |-> op[p].next + 1,
                                toSave |-> toSave, toRemove |-> toRemove]]
     /\ UNCHANGED <<lockOf, main, index, count, queue, reader, faults, torn>>

(* Mutant: only what is added is counted. *)
CountSaved(p) ==
  /\ op[p].phase = "reading"
  /\ op[p].next > Len(Batch[p])
  /\ op' = [op EXCEPT ![p].phase = "counted"]
  /\ count' = IF Counted THEN count + Cardinality(InGroup(op[p].toSave)) ELSE count
  /\ UNCHANGED <<lockOf, main, index, queue, reader, faults, torn>>

(* The counts change while the batch is put together.                       *)
CountChange(p) ==
  /\ op[p].phase = "reading"
  /\ op[p].next > Len(Batch[p])
  /\ op' = [op EXCEPT ![p].phase = "counted"]
  /\ count' = IF Counted
                THEN count + Cardinality(InGroup(op[p].toSave)) - Cardinality(InGroup(op[p].toRemove))
                ELSE count
  /\ UNCHANGED <<lockOf, main, index, queue, reader, faults, torn>>

Merged(map, group) == [k \in Key |-> IF group[k] # None THEN group[k] ELSE map[k]]
Without(map, group) == [k \in Key |-> IF group[k] # None THEN None ELSE map[k]]

(* Mutant: the index entries of what is replaced are left behind. *)
WriteBatchKeepingEntries(p) ==
  /\ op[p].phase = "counted"
  /\ op' = [op EXCEPT ![p].phase = "releasing"]
  /\ main' = Merged(Without(main, op[p].toRemove), op[p].toSave)
  /\ index' = index \cup Entries(op[p].toSave)
  /\ UNCHANGED <<lockOf, count, queue, reader, faults, torn>>

WriteBatch(p) ==
  /\ op[p].phase = "counted"
  /\ op' = [op EXCEPT ![p].phase = "releasing"]
  /\ main' = Merged(Without(main, op[p].toRemove), op[p].toSave)
  /\ index' = (index \ Entries(op[p].toRemove)) \cup Entries(op[p].toSave)
  /\ UNCHANGED <<lockOf, count, queue, reader, faults, torn>>

WriteFails(p) ==
  /\ op[p].phase = "counted"
  /\ faults < MaxFaults
  /\ faults' = faults + 1
  /\ torn' = TRUE
  /\ op' = [op EXCEPT ![p].phase = "releasing"]
  /\ UNCHANGED <<lockOf, main, index, count, queue, reader>>

(* The locks go together: that of the id is kept until the store's came.    *)
Release(p) ==
  /\ op[p].phase = "releasing"
  /\ Holds(p, Main)
  /\ op' = [op EXCEPT ![p] = IdleOp]
  /\ queue' = Free({Main, lockOf[p]})
  /\ UNCHANGED <<lockOf, main, index, count, reader, faults, torn>>
-----------------------------------------------------------------------------
(* acquire, then a stream over the index: its entries are fixed when it is  *)
(* opened, the entity of each is read when its turn comes.                  *)
Acquire(r) ==
  /\ reader[r].phase = "idle"
  /\ reader' = [reader EXCEPT ![r].phase = "waiting"]
  /\ queue' = [queue EXCEPT ![Main] = Append(@, r)]
  /\ UNCHANGED <<lockOf, main, index, count, op, faults, torn>>

(* Mutant: the stream is opened without the lock. *)
ReadAtOnce(r) ==
  /\ reader[r].phase = "waiting"
  /\ reader' = [reader EXCEPT ![r] = [phase |-> "streaming", left |-> index, got |-> {}]]
  /\ UNCHANGED <<lockOf, main, index, count, queue, op, faults, torn>>

GetAll(r) ==
  /\ reader[r].phase = "waiting"
  /\ Holds(r, Main)
  /\ reader' = [reader EXCEPT ![r] = [phase |-> "streaming", left |-> index, got |-> {}]]
  /\ UNCHANGED <<lockOf, main, index, count, queue, op, faults, torn>>

(* mapItem: an entry whose entity is gone is logged and filtered.           *)
MapItem(r) ==
  \E x \in reader[r].left :
    /\ reader[r].phase = "streaming"
    /\ LET found == IF main[x[2]] = None THEN {} ELSE {<<x, main[x[2]]>>}
       IN reader' = [reader EXCEPT ![r] = [phase |-> "streaming", left |-> reader[r].left \ {x},
                                          got |-> reader[r].got \cup found]]
    /\ UNCHANGED <<lockOf, main, index, count, queue, op, faults, torn>>

Close(r) ==
  /\ reader[r].phase = "streaming"
  /\ reader[r].left = {}
  /\ reader' = [reader EXCEPT ![r] = IdleReader]
  /\ queue' = Free({Main})
  /\ UNCHANGED <<lockOf, main, index, count, op, faults, torn>>
-----------------------------------------------------------------------------
Crash ==
  /\ faults < MaxFaults
  /\ faults' = faults + 1
  /\ torn' = FALSE
  /\ count' = 0
  /\ queue' = [m \in Locks |-> IF m = Main THEN <<Opener>> ELSE <<>>]
  /\ op' = [p \in Proc |-> IdleOp]
  /\ reader' = [r \in Reader |-> IdleReader]
  /\ UNCHANGED <<lockOf, main, index>>

CallStep(p) ==
  \/ Enter(p) \/ GroupEntity(p) \/ CountChange(p) \/ WriteBatch(p) \/ Release(p)
ReadStep(r) == GetAll(r) \/ MapItem(r) \/ Close(r)

Next ==
  \/ CountKeys
  \/ \E p \in Proc : Call(p) \/ CallStep(p) \/ WriteFails(p)
  \/ \E r \in Reader : Acquire(r) \/ ReadStep(r)
  \/ Crash

Spec == Init /\ [][Next]_vars

(* A call goes on by itself once it is made.                                *)
Fairness ==
  /\ WF_vars(CountKeys)
  /\ \A p \in Proc : WF_vars(CallStep(p))
  /\ \A r \in Reader : WF_vars(ReadStep(r))

FairSpec == Spec /\ Fairness
-----------------------------------------------------------------------------
(* An index has the entries of the entities that are stored, and no others, *)
(* whatever overlaps and wherever the process stops.                        *)
IndexAgrees == TypeOK /\ index = Entries(main)

(* Between calls the count is that of the entities, unless a write failed   *)
(* since the process started: it is not taken back.                         *)
CountIsExact ==
  (Counted /\ ~torn /\ queue[Main] = <<>>) => count = Cardinality(InGroup(main))

(* No update is lost: a call whose entities were read a while ago still has *)
(* the effect of one that does everything at once.                          *)
Atomic == INSTANCE AtomicStore WITH stored <- main
ImplementsAtomicStore == Atomic!StoreSpec

(* A stream read under the lock of the store has every entity that is       *)
(* stored, as it is, where every caller locks the store: a caller that      *)
(* locks an id does not wait for the reader.                                *)
LockedStreamIsExact ==
  \A r \in Reader :
    Counted /\ reader[r].phase = "streaming" /\ reader[r].left = {}
      => reader[r].got = {<<x, main[x[2]]>> : x \in Entries(main)}
=============================================================================
