-------------------------- MODULE EntityStorageProofs --------------------------
(***************************************************************************)
(* For any entities, callers, readers, ways to lock and failures: the index *)
(* agrees with the entities, the count is exact unless a write failed, a    *)
(* stream read under the lock of the store is exact, and what is stored     *)
(* changes as if each call were one step, by AtomicStore.                   *)
(***************************************************************************)
EXTENDS EntityStorage, FiniteSetTheorems, SequenceTheorems, TLAPS

Unique(s) == \A i, j \in 1..Len(s) : s[i] = s[j] => i = j

(* Each caller stands at most once in the line of a lock.                   *)
QueueType == queue \in [Locks -> Seq(Caller)] /\ \A m \in Locks : Unique(queue[m])

(* One that is not idle stands in the lines of the locks it asked for and   *)
(* in no other; the constructor comes first.                                *)
LineInv ==
  \A m \in Locks :
    /\ \A p \in Proc :
         Contains(queue[m], p) <=> op[p].phase # "idle" /\ m \in {Main, lockOf[p]}
    /\ \A r \in Reader : Contains(queue[m], r) <=> reader[r].phase # "idle" /\ m = Main
    /\ Contains(queue[m], Opener) => m = Main /\ Holds(Opener, Main)

Inside(p) == op[p].phase \in {"reading", "counted", "releasing"}

(* A call that has entered holds its lock, a stream that of the store.      *)
LockInv ==
  /\ \A p \in Proc : Inside(p) => Holds(p, lockOf[p])
  /\ \A r \in Reader : reader[r].phase = "streaming" => Holds(r, Main)
(* What a call is about to remove is stored, what it is about to add is new *)
(* or takes the place of something it removes, all of its own entities.     *)
Prepared(p) ==
  \A k \in Key :
    /\ op[p].toRemove[k] # None => k \in KeysOf(p) /\ op[p].toRemove[k] = main[k]
    /\ op[p].toSave[k] # None =>
         k \in KeysOf(p) /\ (main[k] = None \/ op[p].toRemove[k] = main[k])

OpInv == \A p \in Proc : op[p].phase \in {"reading", "counted"} => Prepared(p)

IndexInv == index = Entries(main)

(* A stream has read what is stored under the entries it is done with.      *)
ReadInv ==
  \A r \in Reader :
    Counted /\ reader[r].phase = "streaming" =>
      /\ reader[r].left \subseteq Entries(main)
      /\ reader[r].got = {<<x, main[x[2]]>> : x \in Entries(main) \ reader[r].left}

Size(map) == Cardinality(InGroup(map))

(* The count is 0 until the keys are counted, and then that of the entities *)
(* with what the call about to write them changes.                          *)
CountInv ==
  Counted /\ ~torn =>
    /\ Contains(queue[Main], Opener) => count = 0
    /\ \A p \in Proc : op[p].phase = "counted" =>
         count = Size(main) + Size(op[p].toSave) - Size(op[p].toRemove)
    /\ ~Contains(queue[Main], Opener) /\ (\A p \in Proc : op[p].phase # "counted")
         => count = Size(main)

IInv == TypeOK /\ QueueType /\ LineInv /\ LockInv /\ OpInv /\ IndexInv /\ ReadInv /\ CountInv
-----------------------------------------------------------------------------
(* Who joins a line is in it, behind who stood first.                       *)
LEMMA JoinLine ==
  ASSUME NEW T, NEW s \in Seq(T), NEW e \in T
  PROVE  /\ Append(s, e) \in Seq(T)
         /\ Append(s, e) # <<>>
         /\ \A x : Contains(Append(s, e), x) <=> Contains(s, x) \/ x = e
         /\ Unique(s) /\ ~Contains(s, e) => Unique(Append(s, e))
         /\ s # <<>> => Head(Append(s, e)) = Head(s)
         /\ s = <<>> => Head(Append(s, e)) = e
<1> DEFINE t == Append(s, e)
<1>1. t \in Seq(T) /\ Len(t) = Len(s) + 1 /\ t[Len(s) + 1] = e
      /\ \A i \in 1..Len(s) : t[i] = s[i]
  OBVIOUS
<1>2. Len(s) \in Nat
  OBVIOUS
<1>3. \A x : Contains(t, x) <=> Contains(s, x) \/ x = e
  BY <1>1, <1>2 DEF Contains
<1>4. Unique(s) /\ ~Contains(s, e) => Unique(t)
  BY <1>1, <1>2 DEF Unique, Contains
<1>5. s # <<>> => Head(t) = Head(s)
  BY <1>1, <1>2
<1>6. t # <<>>
  BY <1>1, <1>2
<1>7. ASSUME s = <<>>
      PROVE  Head(t) = e
  <2>1. Len(s) = 0
    BY <1>7
  <2>2. QED
    BY <2>1, <1>1, <1>6
<1>8. QED
  BY <1>1, <1>3, <1>4, <1>5, <1>6, <1>7

(* When the first of a line leaves, exactly it is gone.                     *)
LEMMA LeaveLine ==
  ASSUME NEW T, NEW s \in Seq(T), s # <<>>, Unique(s)
  PROVE  /\ Tail(s) \in Seq(T)
         /\ Unique(Tail(s))
         /\ \A x : Contains(Tail(s), x) <=> Contains(s, x) /\ x # Head(s)
<1> DEFINE t == Tail(s)
<1>1. t \in Seq(T) /\ Len(t) = Len(s) - 1 /\ \A i \in 1..Len(t) : t[i] = s[i + 1]
  OBVIOUS
<1>2. Len(s) \in Nat \ {0} /\ Head(s) = s[1]
  OBVIOUS
<1>3. Unique(t)
  BY <1>1, <1>2 DEF Unique
<1>4. ASSUME NEW x
      PROVE  Contains(t, x) <=> Contains(s, x) /\ x # Head(s)
  <2>1. ASSUME Contains(t, x)
        PROVE  Contains(s, x) /\ x # Head(s)
    <3>1. PICK i \in 1..Len(t) : t[i] = x
      BY <2>1 DEF Contains
    <3>2. i + 1 \in 1..Len(s) /\ s[i + 1] = x /\ 1 \in 1..Len(s)
      BY <3>1, <1>1, <1>2
    <3>3. QED
      BY <3>2, <1>2 DEF Contains, Unique
  <2>2. ASSUME Contains(s, x), x # Head(s)
        PROVE  Contains(t, x)
    <3>1. PICK i \in 1..Len(s) : s[i] = x
      BY <2>2 DEF Contains
    <3>2. i - 1 \in 1..Len(t) /\ t[i - 1] = x
      BY <3>1, <2>2, <1>1, <1>2
    <3>3. QED
      BY <3>2 DEF Contains
  <2>3. QED
    BY <2>1, <2>2
<1>5. QED
  BY <1>1, <1>3, <1>4

(* A line is empty exactly when nobody is in it; who holds is in it.        *)
LEMMA HeadInLine ==
  ASSUME NEW T, NEW s \in Seq(T)
  PROVE  /\ s # <<>> => Head(s) \in T /\ Contains(s, Head(s))
         /\ s = <<>> => \A x : ~Contains(s, x)
BY DEF Contains
-----------------------------------------------------------------------------
LEMMA LocksKnown ==
  ASSUME lockOf \in Locking
  PROVE  Main \in Locks /\ \A p \in Proc : lockOf[p] \in Locks
BY DEF Locks

(* The entries of a map name an entity of the map and one of its keys.      *)
LEMMA EntriesOf ==
  ASSUME NEW map \in Group
  PROVE  /\ \A i, k : <<i, k>> \in Entries(map)
                      <=> k \in Key /\ map[k] # None /\ i \in IndexOf(map[k])
         /\ Entries(map) \subseteq EntrySet
         /\ \A x \in Entries(map) :
              x = <<x[1], x[2]>> /\ x[2] \in Key /\ map[x[2]] \in Val
<1>1. ASSUME NEW x \in Entries(map)
      PROVE  \E k \in Key : map[k] \in Val /\ \E i \in IndexOf(map[k]) : x = <<i, k>>
  <2>1. PICK k \in InGroup(map) : x \in IndexOf(map[k]) \X {k}
    BY DEF Entries
  <2>2. k \in Key /\ map[k] \in Val
    BY <2>1 DEF InGroup, Group
  <2>3. QED
    BY <2>1, <2>2
<1>2. ASSUME NEW i, NEW k \in Key, map[k] # None, i \in IndexOf(map[k])
      PROVE  <<i, k>> \in Entries(map)
  <2>1. k \in InGroup(map)
    BY <1>2 DEF InGroup
  <2>2. <<i, k>> \in IndexOf(map[k]) \X {k}
    BY <1>2
  <2>3. QED
    BY <2>1, <2>2 DEF Entries
<1>3. ASSUME NEW i, NEW k, <<i, k>> \in Entries(map)
      PROVE  k \in Key /\ map[k] # None /\ i \in IndexOf(map[k])
  BY <1>1, <1>3, NoneAssumption
<1>4. ASSUME NEW x \in Entries(map)
      PROVE  x \in EntrySet /\ x = <<x[1], x[2]>> /\ x[2] \in Key /\ map[x[2]] \in Val
  <2>1. PICK k \in Key : map[k] \in Val /\ \E i \in IndexOf(map[k]) : x = <<i, k>>
    BY <1>1
  <2>2. PICK i \in IndexOf(map[k]) : x = <<i, k>>
    BY <2>1
  <2>3. QED
    BY <2>1, <2>2 DEF EntrySet
<1>5. QED
  BY <1>2, <1>3, <1>4

LEMMA BatchOf ==
  ASSUME NEW p \in Proc
  PROVE  /\ Len(Batch[p]) \in Nat
         /\ \A n \in 1..Len(Batch[p]) :
              Batch[p][n] \in [key : Key, val : Val] /\ Batch[p][n].key \in KeysOf(p) \cap Key
<1>1. Batch[p] \in Seq([key : Key, val : Val])
  BY BatchAssumption
<1>2. Len(Batch[p]) \in Nat /\ DOMAIN Batch[p] = 1..Len(Batch[p])
  BY <1>1
<1>3. ASSUME NEW n \in 1..Len(Batch[p])
      PROVE  Batch[p][n] \in [key : Key, val : Val]
  BY <1>1, ElementOfSeq
<1>4. ASSUME NEW n \in 1..Len(Batch[p])
      PROVE  Batch[p][n].key \in KeysOf(p) \cap Key
  BY <1>2, <1>3 DEF KeysOf
<1>5. QED
  BY <1>2, <1>3, <1>4

LEMMA IdleType ==
  /\ NoGroup \in Group
  /\ IdleOp \in OpState
  /\ \A p \in Proc : IdleOp.next \in 1..Len(Batch[p]) + 1
  /\ IdleReader \in ReaderState
<1>1. NoGroup \in Group
  BY DEF NoGroup, Group
<1>2. \A p \in Proc : Len(Batch[p]) \in Nat
  BY BatchOf
<1>3. IdleOp \in OpState /\ \A p \in Proc : IdleOp.next \in 1..Len(Batch[p]) + 1
  BY <1>1, <1>2 DEF IdleOp, OpState
<1>4. IdleReader \in ReaderState
  BY DEF IdleReader, ReaderState
<1>5. QED
  BY <1>1, <1>3, <1>4

LEMMA GroupFinite ==
  ASSUME NEW map
  PROVE  IsFiniteSet(InGroup(map)) /\ Cardinality(InGroup(map)) \in Nat
BY KeyAssumption, FS_Subset, FS_CardinalityType DEF InGroup

LEMMA TypeInit == Init => TypeOK
<1> SUFFICES ASSUME Init PROVE TypeOK
  OBVIOUS
<1>4. queue \in [Locks -> Seq(Caller)]
  <2>1. <<Opener>> \in Seq(Caller)
    BY DEF Caller
  <2>2. <<>> \in Seq(Caller)
    OBVIOUS
  <2>3. QED
    BY <2>1, <2>2 DEF Init
<1>5. op \in [Proc -> OpState] /\ \A p \in Proc : op[p].next \in 1..Len(Batch[p]) + 1
  BY IdleType DEF Init
<1>6. reader \in [Reader -> ReaderState]
  BY IdleType DEF Init
<1>7. lockOf \in Locking /\ main \in Group /\ index \in SUBSET EntrySet /\ count \in Int
  BY IdleType DEF Init
<1>8. faults \in 0..MaxFaults
  BY FaultAssumption DEF Init
<1>9. torn \in BOOLEAN
  BY DEF Init
<1>10. QED
  BY <1>4, <1>5, <1>6, <1>7, <1>8, <1>9 DEF TypeOK

(* What is prepared for an entity comes from the store, or from the check.  *)
LEMMA GroupType ==
  ASSUME TypeOK, NEW p \in Proc, GroupEntity(p)
  PROVE  op' \in [Proc -> OpState] /\ \A q \in Proc : op'[q].next \in 1..Len(Batch[q]) + 1
<1> DEFINE e == Batch[p][op[p].next]
           saved == op[p].toSave[e.key]
           fromStore == saved = None /\ op[p].toRemove[e.key] = None
           old == IF fromStore THEN main[e.key] ELSE saved
           new == IF Kind[p] = "remove" THEN None ELSE Check(old, e.val)
           toSave == IF new = old THEN op[p].toSave ELSE [op[p].toSave EXCEPT ![e.key] = new]
           toRemove == IF fromStore /\ new # old
                         THEN [op[p].toRemove EXCEPT ![e.key] = old] ELSE op[p].toRemove
           groups == [phase |-> "reading", next |-> op[p].next + 1,
                      toSave |-> toSave, toRemove |-> toRemove]
<1>1. op' = [op EXCEPT ![p] = groups]
  BY DEF GroupEntity
<1>2. op \in [Proc -> OpState] /\ op[p].next \in 1..Len(Batch[p])
  <2>1. Len(Batch[p]) \in Nat /\ op[p].next \in 1..Len(Batch[p]) + 1
    BY BatchOf DEF TypeOK
  <2>2. op[p].next <= Len(Batch[p])
    BY DEF GroupEntity
  <2>3. op[p].next \in 1..Len(Batch[p])
    BY <2>1, <2>2
  <2>4. QED
    BY <2>3 DEF TypeOK
<1>3. op[p].toSave \in Group /\ op[p].toRemove \in Group /\ op[p].next \in Nat
  BY <1>2 DEF OpState
<1>4. e \in [key : Key, val : Val]
  BY <1>2, BatchOf
<1>5. e.key \in Key /\ e.val \in Val
  <2> HIDE DEF e
  <2>1. QED
    BY <1>4
<1>6. saved \in Val \cup {None} /\ main[e.key] \in Val \cup {None}
  BY <1>3, <1>5 DEF TypeOK, Group
<1>7. new \in Val \cup {None} /\ old \in Val \cup {None}
  BY <1>5, <1>6, CheckAssumption
<1>8. toSave \in Group /\ toRemove \in Group
  <2> HIDE DEF new, old, e, fromStore
  <2>1. QED
    BY <1>3, <1>5, <1>7 DEF Group
<1>9. groups \in OpState /\ groups.next = op[p].next + 1
  <2> HIDE DEF toSave, toRemove
  <2>1. QED
    BY <1>3, <1>8 DEF OpState
<1>10. QED
  <2> HIDE DEF groups
  <2>1. Len(Batch[p]) \in Nat
    BY BatchOf
  <2>2. QED
    BY <1>1, <1>2, <1>9, <2>1 DEF TypeOK
-----------------------------------------------------------------------------
(* Who joins lines it is not in moves nobody that holds a lock.             *)
LEMMA JoinLines ==
  ASSUME QueueType, NEW x \in Caller, NEW S \in SUBSET Locks,
         \A m \in S : ~Contains(queue[m], x),
         queue' = [m \in Locks |-> IF m \in S THEN Append(queue[m], x) ELSE queue[m]]
  PROVE  /\ QueueType'
         /\ \A m \in Locks : \A y :
              Contains(queue'[m], y) <=> Contains(queue[m], y) \/ (m \in S /\ y = x)
         /\ \A m \in Locks : \A y : Holds(y, m) => Holds(y, m)'
<1>1. ASSUME NEW m \in Locks
      PROVE  /\ queue'[m] \in Seq(Caller) /\ Unique(queue'[m])
             /\ \A y : Contains(queue'[m], y) <=> Contains(queue[m], y) \/ (m \in S /\ y = x)
             /\ \A y : Holds(y, m) => Holds(y, m)'
  <2>1. queue[m] \in Seq(Caller) /\ Unique(queue[m])
    BY DEF QueueType
  <2>2. CASE m \in S
    <3>1. queue'[m] = Append(queue[m], x) /\ ~Contains(queue[m], x)
      BY <2>2
    <3>2. queue'[m] # <<>> /\ (queue[m] # <<>> => Head(queue'[m]) = Head(queue[m]))
      BY <2>1, <3>1, JoinLine
    <3>3. queue'[m] \in Seq(Caller) /\ Unique(queue'[m])
      BY <2>1, <3>1, JoinLine
    <3>4. \A y : Contains(queue'[m], y) <=> Contains(queue[m], y) \/ y = x
      BY <2>1, <3>1, JoinLine
    <3>5. QED
      BY <2>2, <3>2, <3>3, <3>4 DEF Holds
  <2>3. CASE m \notin S
    <3>1. queue'[m] = queue[m]
      BY <2>3
    <3>2. QED
      BY <2>1, <2>3, <3>1 DEF Holds
  <2>4. QED
    BY <2>2, <2>3
<1>2. queue' = [m \in Locks |-> queue'[m]]
  OBVIOUS
<1>3. QueueType'
  BY <1>1, <1>2 DEF QueueType
<1>4. QED
  BY <1>1, <1>3

(* Who holds locks and frees them leaves their lines, and no one else does. *)
LEMMA LeaveLines ==
  ASSUME QueueType, NEW x, NEW S \in SUBSET Locks,
         \A m \in S : Holds(x, m), queue' = Free(S)
  PROVE  /\ QueueType'
         /\ \A m \in Locks : \A y :
              Contains(queue'[m], y) <=> Contains(queue[m], y) /\ ~(m \in S /\ y = x)
         /\ \A m \in Locks : \A y : y # x /\ Holds(y, m) => Holds(y, m)'
<1>1. ASSUME NEW m \in Locks
      PROVE  /\ queue'[m] \in Seq(Caller) /\ Unique(queue'[m])
             /\ \A y : Contains(queue'[m], y) <=> Contains(queue[m], y) /\ ~(m \in S /\ y = x)
             /\ \A y : y # x /\ Holds(y, m) => Holds(y, m)'
  <2>1. queue[m] \in Seq(Caller) /\ Unique(queue[m])
    BY DEF QueueType
  <2>2. CASE m \in S
    <3>1. queue'[m] = Tail(queue[m])
      BY <2>2 DEF Free
    <3>2. queue[m] # <<>> /\ Head(queue[m]) = x
      BY <2>2 DEF Holds
    <3>3. queue'[m] \in Seq(Caller) /\ Unique(queue'[m])
      BY <2>1, <3>1, <3>2, LeaveLine
    <3>4. \A y : Contains(queue'[m], y) <=> Contains(queue[m], y) /\ y # x
      BY <2>1, <3>1, <3>2, LeaveLine
    <3>5. QED
      BY <2>2, <3>2, <3>3, <3>4 DEF Holds
  <2>3. CASE m \notin S
    <3>1. queue'[m] = queue[m]
      BY <2>3 DEF Free
    <3>2. QED
      BY <2>1, <2>3, <3>1 DEF Holds
  <2>4. QED
    BY <2>2, <2>3
<1>2. queue' = [m \in Locks |-> queue'[m]]
  BY DEF Free
<1>3. QueueType'
  BY <1>1, <1>2 DEF QueueType
<1>4. QED
  BY <1>1, <1>3
-----------------------------------------------------------------------------
LEMMA LinesInit ==
  ASSUME Init
  PROVE  QueueType /\ LineInv /\ LockInv
<1>1. QueueType
  BY TypeInit DEF TypeOK, QueueType, Init, Unique
<1>2. ASSUME NEW m \in Locks, NEW x
      PROVE  Contains(queue[m], x) <=> m = Main /\ x = Opener
  BY DEF Init, Contains
<1>3. Main \in Locks /\ Holds(Opener, Main)
  BY DEF Init, Holds, Locks
<1>4. (\A p \in Proc : op[p].phase = "idle") /\ \A r \in Reader : reader[r].phase = "idle"
  BY DEF Init, IdleOp, IdleReader
<1>5. LineInv
  BY <1>2, <1>3, <1>4, ProcAssumption DEF LineInv
<1>6. LockInv
  BY <1>4 DEF LockInv, Inside
<1>7. QED
  BY <1>1, <1>5, <1>6

(* A call that locks joins the lines of its locks; the others keep theirs.  *)
LEMMA LinesJoin ==
  ASSUME TypeOK, QueueType, LineInv, LockInv,
         (\E p \in Proc : Call(p)) \/ (\E r \in Reader : Acquire(r))
  PROVE  QueueType' /\ LineInv' /\ LockInv'
<1>1. ASSUME NEW p \in Proc, Call(p)
      PROVE  QueueType' /\ LineInv' /\ LockInv'
  <2> DEFINE S == {Main, lockOf[p]}
  <2>1. p \in Caller /\ S \in SUBSET Locks
    BY LocksKnown DEF TypeOK, Caller
  <2>2. \A m \in S : ~Contains(queue[m], p)
    BY <1>1, <2>1 DEF Call, LineInv
  <2>3. queue' = [m \in Locks |-> IF m \in S THEN Append(queue[m], p) ELSE queue[m]]
    BY <1>1 DEF Call
  <2>4. op'[p].phase = "waiting" /\ \A q \in Proc \ {p} : op'[q] = op[q]
    BY <1>1 DEF Call, TypeOK, OpState
  <2>5. reader' = reader /\ lockOf' = lockOf
    BY <1>1 DEF Call
  <2>6. /\ QueueType'
        /\ \A m \in Locks : \A y :
             Contains(queue'[m], y) <=> Contains(queue[m], y) \/ (m \in S /\ y = p)
        /\ \A m \in Locks : \A y : Holds(y, m) => Holds(y, m)'
    <3> HIDE DEF S
    <3>1. QED
      BY <2>1, <2>2, <2>3, JoinLines
  <2>7. LineInv'
    BY <2>1, <2>2, <2>4, <2>5, <2>6, ProcAssumption DEF LineInv
  <2>8. LockInv'
    BY <2>1, <2>4, <2>5, <2>6, LocksKnown DEF LockInv, Inside, TypeOK
  <2>9. QED
    BY <2>6, <2>7, <2>8
<1>2. ASSUME NEW r \in Reader, Acquire(r)
      PROVE  QueueType' /\ LineInv' /\ LockInv'
  <2>1. r \in Caller /\ {Main} \in SUBSET Locks
    BY LocksKnown DEF TypeOK, Caller
  <2>2. \A m \in {Main} : ~Contains(queue[m], r)
    BY <1>2, <2>1 DEF Acquire, LineInv
  <2>3. queue' = [m \in Locks |-> IF m \in {Main} THEN Append(queue[m], r) ELSE queue[m]]
    BY <1>2 DEF Acquire, TypeOK
  <2>4. reader'[r].phase = "waiting" /\ \A q \in Reader \ {r} : reader'[q] = reader[q]
    BY <1>2 DEF Acquire, TypeOK, ReaderState
  <2>5. op' = op /\ lockOf' = lockOf
    BY <1>2 DEF Acquire
  <2>6. /\ QueueType'
        /\ \A m \in Locks : \A y :
             Contains(queue'[m], y) <=> Contains(queue[m], y) \/ (m \in {Main} /\ y = r)
        /\ \A m \in Locks : \A y : Holds(y, m) => Holds(y, m)'
    BY <2>1, <2>2, <2>3, JoinLines
  <2>7. LineInv'
    BY <2>1, <2>2, <2>4, <2>5, <2>6, ProcAssumption DEF LineInv
  <2>8. LockInv'
    BY <2>1, <2>4, <2>5, <2>6, LocksKnown DEF LockInv, Inside, TypeOK
  <2>9. QED
    BY <2>6, <2>7, <2>8
<1>3. QED
  BY <1>1, <1>2

(* Who leaves held all the locks it frees.                                  *)
LEMMA LinesLeave ==
  ASSUME TypeOK, QueueType, LineInv, LockInv,
         CountKeys \/ (\E p \in Proc : Release(p)) \/ (\E r \in Reader : Close(r))
  PROVE  QueueType' /\ LineInv' /\ LockInv'
<1>1. CASE CountKeys
  <2>1. {Main} \in SUBSET Locks /\ \A m \in {Main} : Holds(Opener, m)
    BY <1>1 DEF CountKeys, Locks
  <2>2. queue' = Free({Main}) /\ op' = op /\ reader' = reader /\ lockOf' = lockOf
    BY <1>1 DEF CountKeys
  <2>3. /\ QueueType'
        /\ \A m \in Locks : \A y :
             Contains(queue'[m], y) <=> Contains(queue[m], y) /\ ~(m \in {Main} /\ y = Opener)
        /\ \A m \in Locks : \A y : y # Opener /\ Holds(y, m) => Holds(y, m)'
    BY <2>1, <2>2, LeaveLines
  <2>4. LineInv'
    BY <2>2, <2>3, ProcAssumption DEF LineInv
  <2>5. LockInv'
    BY <2>1, <2>2, <2>3, ProcAssumption, LocksKnown DEF LockInv, Inside, TypeOK
  <2>6. QED
    BY <2>3, <2>4, <2>5
<1>2. ASSUME NEW p \in Proc, Release(p)
      PROVE  QueueType' /\ LineInv' /\ LockInv'
  <2> DEFINE S == {Main, lockOf[p]}
  <2>1. S \in SUBSET Locks /\ \A m \in S : Holds(p, m)
    BY <1>2, LocksKnown DEF Release, LockInv, Inside, TypeOK
  <2>2. queue' = Free(S) /\ reader' = reader /\ lockOf' = lockOf
    BY <1>2 DEF Release
  <2>3. op'[p].phase = "idle" /\ \A q \in Proc \ {p} : op'[q] = op[q]
    BY <1>2 DEF Release, TypeOK, IdleOp
  <2>4. /\ QueueType'
        /\ \A m \in Locks : \A y :
             Contains(queue'[m], y) <=> Contains(queue[m], y) /\ ~(m \in S /\ y = p)
        /\ \A m \in Locks : \A y : y # p /\ Holds(y, m) => Holds(y, m)'
    <3> HIDE DEF S
    <3>1. QED
      BY <2>1, <2>2, LeaveLines
  <2>5. LineInv'
    BY <2>1, <2>2, <2>3, <2>4, ProcAssumption DEF LineInv
  <2>6. LockInv'
    BY <2>1, <2>2, <2>3, <2>4, ProcAssumption, LocksKnown DEF LockInv, Inside, TypeOK
  <2>7. QED
    BY <2>4, <2>5, <2>6
<1>3. ASSUME NEW r \in Reader, Close(r)
      PROVE  QueueType' /\ LineInv' /\ LockInv'
  <2>1. {Main} \in SUBSET Locks /\ \A m \in {Main} : Holds(r, m)
    BY <1>3, LocksKnown DEF Close, LockInv, TypeOK
  <2>2. queue' = Free({Main}) /\ op' = op /\ lockOf' = lockOf
    BY <1>3 DEF Close
  <2>3. reader'[r].phase = "idle" /\ \A q \in Reader \ {r} : reader'[q] = reader[q]
    BY <1>3 DEF Close, TypeOK, IdleReader
  <2>4. /\ QueueType'
        /\ \A m \in Locks : \A y :
             Contains(queue'[m], y) <=> Contains(queue[m], y) /\ ~(m \in {Main} /\ y = r)
        /\ \A m \in Locks : \A y : y # r /\ Holds(y, m) => Holds(y, m)'
    BY <2>1, <2>2, LeaveLines
  <2>5. LineInv'
    <3>1. ASSUME NEW m \in Locks, NEW q \in Proc
          PROVE  Contains(queue'[m], q) <=> op'[q].phase # "idle" /\ m \in {Main, lockOf'[q]}
      BY <2>2, <2>4, ProcAssumption DEF LineInv
    <3>2. ASSUME NEW m \in Locks, NEW w \in Reader
          PROVE  Contains(queue'[m], w) <=> reader'[w].phase # "idle" /\ m = Main
      BY <2>2, <2>3, <2>4 DEF LineInv
    <3>3. ASSUME NEW m \in Locks, Contains(queue'[m], Opener)
          PROVE  m = Main /\ Holds(Opener, Main)'
      BY <3>3, <2>1, <2>2, <2>4, ProcAssumption DEF LineInv
    <3>4. QED
      BY <3>1, <3>2, <3>3 DEF LineInv
  <2>6. LockInv'
    BY <2>1, <2>2, <2>3, <2>4, ProcAssumption, LocksKnown DEF LockInv, Inside, TypeOK
  <2>7. QED
    BY <2>4, <2>5, <2>6
<1>4. QED
  BY <1>1, <1>2, <1>3

(* The other steps of a call or of a stream leave the lines as they are.    *)
Works(p) ==
  Enter(p) \/ GroupEntity(p) \/ CountChange(p) \/ WriteBatch(p) \/ WriteFails(p)
Streams(r) == GetAll(r) \/ MapItem(r)

LEMMA LinesKeep ==
  ASSUME TypeOK, QueueType, LineInv, LockInv,
         (\E p \in Proc : Works(p)) \/ (\E r \in Reader : Streams(r))
  PROVE  QueueType' /\ LineInv' /\ LockInv'
<1>1. ASSUME NEW p \in Proc, Works(p)
      PROVE  QueueType' /\ LineInv' /\ LockInv'
  <2>1. queue' = queue /\ lockOf' = lockOf /\ reader' = reader
    BY <1>1 DEF Works, Enter, GroupEntity, CountChange, WriteBatch, WriteFails
  <2>2. \A q \in Proc \ {p} : op'[q] = op[q]
    BY <1>1 DEF Works, Enter, GroupEntity, CountChange, WriteBatch, WriteFails, TypeOK
  <2>3. op[p].phase # "idle" /\ op'[p].phase # "idle" /\ Holds(p, lockOf[p])
    <3>1. CASE Enter(p)
      BY <3>1 DEF Enter, TypeOK, IdleOp
    <3>2. CASE GroupEntity(p)
      BY <3>2 DEF GroupEntity, TypeOK, LockInv, Inside
    <3>3. CASE CountChange(p) \/ WriteBatch(p) \/ WriteFails(p)
      BY <3>3 DEF CountChange, WriteBatch, WriteFails, TypeOK, OpState, LockInv, Inside
    <3>4. QED
      BY <1>1, <3>1, <3>2, <3>3 DEF Works
  <2>4. QueueType'
    BY <2>1 DEF QueueType
  <2>5. LineInv'
    BY <2>1, <2>2, <2>3 DEF LineInv, Holds
  <2>6. LockInv'
    BY <2>1, <2>2, <2>3 DEF LockInv, Inside, Holds
  <2>7. QED
    BY <2>4, <2>5, <2>6
<1>2. ASSUME NEW r \in Reader, Streams(r)
      PROVE  QueueType' /\ LineInv' /\ LockInv'
  <2>1. queue' = queue /\ lockOf' = lockOf /\ op' = op
    BY <1>2 DEF Streams, GetAll, MapItem
  <2>2. \A q \in Reader \ {r} : reader'[q] = reader[q]
    BY <1>2 DEF Streams, GetAll, MapItem, TypeOK
  <2>3. reader[r].phase # "idle" /\ reader'[r].phase # "idle" /\ Holds(r, Main)
    BY <1>2 DEF Streams, GetAll, MapItem, TypeOK, LockInv
  <2>4. QueueType'
    BY <2>1 DEF QueueType
  <2>5. LineInv'
    BY <2>1, <2>2, <2>3 DEF LineInv, Holds
  <2>6. LockInv'
    BY <2>1, <2>2, <2>3 DEF LockInv, Inside, Holds
  <2>7. QED
    BY <2>4, <2>5, <2>6
<1>3. QED
  BY <1>1, <1>2

(* A process that starts again has the lines of one that starts.            *)
LEMMA LinesCrash ==
  ASSUME TypeOK, Crash
  PROVE  QueueType' /\ LineInv' /\ LockInv'
<1>1. QueueType'
  <2>1. <<Opener>> \in Seq(Caller) /\ <<>> \in Seq(Caller)
    BY DEF Caller
  <2>2. Unique(<<Opener>>) /\ Unique(<<>>)
    BY DEF Unique
  <2>3. QED
    BY <2>1, <2>2 DEF QueueType, Crash
<1>2. ASSUME NEW m \in Locks, NEW x
      PROVE  Contains(queue'[m], x) <=> m = Main /\ x = Opener
  BY DEF Crash, Contains
<1>3. Main \in Locks /\ Holds(Opener, Main)'
  BY DEF Crash, Holds, Locks
<1>4. (\A p \in Proc : op'[p].phase = "idle") /\ \A r \in Reader : reader'[r].phase = "idle"
  BY DEF Crash, IdleOp, IdleReader
<1>5. LineInv'
  BY <1>2, <1>3, <1>4, ProcAssumption DEF LineInv
<1>6. LockInv'
  BY <1>4 DEF LockInv, Inside
<1>7. QED
  BY <1>1, <1>5, <1>6

LEMMA LinesNext ==
  ASSUME TypeOK, QueueType, LineInv, LockInv, [Next]_vars
  PROVE  QueueType' /\ LineInv' /\ LockInv'
<1>1. CASE UNCHANGED vars
  <2>1. QueueType'
    BY <1>1 DEF vars, QueueType
  <2>2. LineInv'
    BY <1>1 DEF vars, LineInv, Holds
  <2>3. LockInv'
    BY <1>1 DEF vars, LockInv, Inside, Holds
  <2>4. QED
    BY <2>1, <2>2, <2>3
<1>2. CASE Next
  BY <1>2, LinesJoin, LinesLeave, LinesKeep, LinesCrash
     DEF Next, CallStep, ReadStep, Works, Streams
<1>3. QED
  BY <1>1, <1>2
-----------------------------------------------------------------------------
(* Each variable keeps its type.                                            *)
LEMMA TypeNext ==
  ASSUME TypeOK, QueueType, LineInv, LockInv, [Next]_vars
  PROVE  TypeOK'
<1>1. queue' \in [Locks -> Seq(Caller)]
  BY LinesNext DEF QueueType
<1>2. lockOf' \in Locking
  BY DEF TypeOK, vars, Next, CallStep, ReadStep, CountKeys, Call, Enter, GroupEntity,
     CountChange, WriteBatch, WriteFails, Release, Acquire, GetAll, MapItem, Close, Crash
<1>3. faults' \in 0..MaxFaults
  <2>1. CASE UNCHANGED faults
    BY <2>1 DEF TypeOK
  <2>2. CASE faults < MaxFaults /\ faults' = faults + 1
    BY <2>2, FaultAssumption DEF TypeOK
  <2>3. QED
    BY <2>1, <2>2 DEF vars, Next, CallStep, ReadStep, CountKeys, Call, Enter, GroupEntity,
       CountChange, WriteBatch, WriteFails, Release, Acquire, GetAll, MapItem, Close, Crash
<1>4. torn' \in BOOLEAN
  <2>1. CASE UNCHANGED torn
    BY <2>1 DEF TypeOK
  <2>2. CASE torn' = TRUE
    BY <2>2
  <2>3. CASE torn' = FALSE
    BY <2>3
  <2>4. QED
    BY <2>1, <2>2, <2>3 DEF vars, Next, CallStep, ReadStep, CountKeys, Call, Enter, GroupEntity,
       CountChange, WriteBatch, WriteFails, Release, Acquire, GetAll, MapItem, Close, Crash
<1>5. op' \in [Proc -> OpState] /\ \A p \in Proc : op'[p].next \in 1..Len(Batch[p]) + 1
  <2>1. IdleOp \in OpState /\ \A p \in Proc : IdleOp.next \in 1..Len(Batch[p]) + 1
    BY IdleType
  <2>2. ASSUME NEW p \in Proc, GroupEntity(p)
        PROVE  op' \in [Proc -> OpState] /\ \A q \in Proc : op'[q].next \in 1..Len(Batch[q]) + 1
    BY <2>2, GroupType
  <2>3. ASSUME NEW p \in Proc, NEW phase \in {"waiting", "counted", "releasing"},
               op' = [op EXCEPT ![p].phase = phase]
        PROVE  op' \in [Proc -> OpState] /\ \A q \in Proc : op'[q].next \in 1..Len(Batch[q]) + 1
    BY <2>3 DEF TypeOK, OpState
  <2>4. ASSUME NEW p \in Proc, NEW phase \in {"idle", "reading"},
               op' = [op EXCEPT ![p] = [IdleOp EXCEPT !.phase = phase]]
        PROVE  op' \in [Proc -> OpState] /\ \A q \in Proc : op'[q].next \in 1..Len(Batch[q]) + 1
    <3>1. [IdleOp EXCEPT !.phase = phase] \in OpState
          /\ [IdleOp EXCEPT !.phase = phase].next = IdleOp.next
      BY <2>1 DEF OpState
    <3>2. QED
      BY <2>1, <2>4, <3>1 DEF TypeOK
  <2>5. CASE op' = op
    BY <2>5 DEF TypeOK
  <2>6. CASE op' = [p \in Proc |-> IdleOp]
    BY <2>1, <2>6
  <2>7. IdleOp = [IdleOp EXCEPT !.phase = "idle"]
    BY DEF IdleOp
  <2>8. QED
    BY <2>2, <2>3, <2>4, <2>5, <2>6, <2>7 DEF vars, Next, CallStep, ReadStep, CountKeys, Call,
       Enter, CountChange, WriteBatch, WriteFails, Release, Acquire, GetAll, MapItem, Close, Crash
<1>6. main' \in Group /\ index' \in SUBSET EntrySet
  <2>1. CASE UNCHANGED <<main, index>>
    BY <2>1 DEF TypeOK
  <2>2. ASSUME NEW p \in Proc, WriteBatch(p)
        PROVE  main' \in Group /\ index' \in SUBSET EntrySet
    <3>1. op[p].toSave \in Group /\ op[p].toRemove \in Group
      BY DEF TypeOK, OpState
    <3>2. Entries(op[p].toSave) \in SUBSET EntrySet
      BY <3>1, EntriesOf
    <3>3. main' \in Group
      BY <2>2, <3>1 DEF WriteBatch, Merged, Without, TypeOK, Group
    <3>4. index' \in SUBSET EntrySet
      BY <2>2, <3>2 DEF WriteBatch, TypeOK
    <3>5. QED
      BY <3>3, <3>4
  <2>3. QED
    BY <2>1, <2>2 DEF vars, Next, CallStep, ReadStep, CountKeys, Call, Enter, GroupEntity,
       CountChange, WriteFails, Release, Acquire, GetAll, MapItem, Close, Crash
<1>7. count' \in Int
  <2>1. CASE UNCHANGED count
    BY <2>1 DEF TypeOK
  <2>2. ASSUME CountKeys \/ (\E p \in Proc : CountChange(p)) \/ Crash
        PROVE  count' \in Int
    <3>1. Cardinality(InGroup(main)) \in Nat /\ \A p \in Proc :
            Cardinality(InGroup(op[p].toSave)) \in Nat /\ Cardinality(InGroup(op[p].toRemove)) \in Nat
      BY GroupFinite
    <3>2. QED
      BY <2>2, <3>1 DEF TypeOK, CountKeys, CountChange, Crash
  <2>3. QED
    BY <2>1, <2>2 DEF vars, Next, CallStep, ReadStep, Call, Enter, GroupEntity,
       WriteBatch, WriteFails, Release, Acquire, GetAll, MapItem, Close
<1>8. reader' \in [Reader -> ReaderState]
  <2>1. CASE reader' = reader
    BY <2>1 DEF TypeOK
  <2>2. CASE reader' = [r \in Reader |-> IdleReader]
    BY <2>2, IdleType
  <2>3. ASSUME NEW r \in Reader, NEW state \in ReaderState, reader' = [reader EXCEPT ![r] = state]
        PROVE  reader' \in [Reader -> ReaderState]
    BY <2>3 DEF TypeOK
  <2>4. ASSUME NEW r \in Reader, Acquire(r)
        PROVE  reader' \in [Reader -> ReaderState]
    BY <2>4 DEF Acquire, TypeOK, ReaderState
  <2>5. ASSUME NEW r \in Reader, GetAll(r)
        PROVE  reader' \in [Reader -> ReaderState]
    <3>1. [phase |-> "streaming", left |-> index, got |-> {}] \in ReaderState
      BY DEF TypeOK, ReaderState
    <3>2. QED
      BY <2>3, <2>5, <3>1 DEF GetAll
  <2>6. ASSUME NEW r \in Reader, MapItem(r)
        PROVE  reader' \in [Reader -> ReaderState]
    <3>1. PICK x \in reader[r].left : reader' = [reader EXCEPT ![r] =
            [phase |-> "streaming", left |-> reader[r].left \ {x},
             got |-> reader[r].got \cup
                       (IF main[x[2]] = None THEN {} ELSE {<<x, main[x[2]]>>})]]
      BY <2>6 DEF MapItem
    <3>2. reader[r].left \in SUBSET EntrySet /\ reader[r].got \in SUBSET (EntrySet \X Val)
      BY DEF TypeOK, ReaderState
    <3>3. x \in EntrySet /\ main[x[2]] \in Val \cup {None}
      BY <3>2 DEF TypeOK, Group, EntrySet
    <3>4. (IF main[x[2]] = None THEN {} ELSE {<<x, main[x[2]]>>}) \in SUBSET (EntrySet \X Val)
      BY <3>3
    <3>5. QED
      BY <2>3, <3>1, <3>2, <3>4 DEF ReaderState
  <2>7. QED
    BY <2>1, <2>2, <2>3, <2>4, <2>5, <2>6, IdleType DEF vars, Next, CallStep, ReadStep,
       CountKeys, Call, Enter, GroupEntity, CountChange, WriteBatch, WriteFails, Release,
       Close, Crash
<1>9. QED
  BY <1>1, <1>2, <1>3, <1>4, <1>5, <1>6, <1>7, <1>8 DEF TypeOK
-----------------------------------------------------------------------------
(* Only one can hold a lock.                                                *)
LEMMA OneHolds ==
  ASSUME NEW x, NEW y, NEW m, Holds(x, m), Holds(y, m)
  PROVE  x = y
BY DEF Holds

(* What is stored changes in WriteBatch alone.                              *)
LEMMA StoreKept ==
  ASSUME [Next]_vars, \A p \in Proc : ~WriteBatch(p)
  PROVE  main' = main /\ index' = index
BY DEF vars, Next, CallStep, ReadStep, CountKeys, Call, Enter, GroupEntity,
   CountChange, WriteFails, Release, Acquire, GetAll, MapItem, Close, Crash

LEMMA LockOfKept ==
  ASSUME [Next]_vars
  PROVE  lockOf' = lockOf
BY DEF vars, Next, CallStep, ReadStep, CountKeys, Call, Enter, GroupEntity,
   CountChange, WriteBatch, WriteFails, Release, Acquire, GetAll, MapItem, Close, Crash

(* The next entity of a call is one of its entities.                        *)
LEMMA NextEntity ==
  ASSUME TypeOK, NEW p \in Proc, GroupEntity(p)
  PROVE  /\ op[p].next \in 1..Len(Batch[p])
         /\ Batch[p][op[p].next].key \in KeysOf(p) \cap Key
<1>1. Len(Batch[p]) \in Nat /\ op[p].next \in 1..Len(Batch[p]) + 1
  BY BatchOf DEF TypeOK
<1>2. op[p].next <= Len(Batch[p])
  BY DEF GroupEntity
<1>3. op[p].next \in 1..Len(Batch[p])
  BY <1>1, <1>2
<1>4. QED
  BY <1>3, BatchOf

(* A call prepares each of its entities from what is stored.                *)
LEMMA GroupPrepares ==
  ASSUME TypeOK, NEW p \in Proc, Prepared(p), GroupEntity(p)
  PROVE  Prepared(p)'
<1> DEFINE e == Batch[p][op[p].next]
           saved == op[p].toSave[e.key]
           fromStore == saved = None /\ op[p].toRemove[e.key] = None
           old == IF fromStore THEN main[e.key] ELSE saved
           new == IF Kind[p] = "remove" THEN None ELSE Check(old, e.val)
           toSave == IF new = old THEN op[p].toSave ELSE [op[p].toSave EXCEPT ![e.key] = new]
           toRemove == IF fromStore /\ new # old
                         THEN [op[p].toRemove EXCEPT ![e.key] = old] ELSE op[p].toRemove
<1>1. op'[p].toSave = toSave /\ op'[p].toRemove = toRemove
  BY DEF GroupEntity, TypeOK
<1>2. main' = main
  BY DEF GroupEntity
<1>3. op[p].toSave \in Group /\ op[p].toRemove \in Group
  BY DEF TypeOK, OpState
<1>4. e.key \in KeysOf(p) \cap Key
  BY NextEntity
<1>5. ASSUME NEW k \in Key
      PROVE  /\ toRemove[k] # None => k \in KeysOf(p) /\ toRemove[k] = main[k]
             /\ toSave[k] # None =>
                  k \in KeysOf(p) /\ (main[k] = None \/ toRemove[k] = main[k])
  <2>1. CASE k # e.key
    <3>1. toSave[k] = op[p].toSave[k] /\ toRemove[k] = op[p].toRemove[k]
      BY <2>1, <1>3 DEF Group
    <3>2. QED
      BY <3>1 DEF Prepared
  <2>2. CASE k = e.key
    <3>1. CASE fromStore /\ new # old
      <4>1. toSave[k] = new /\ toRemove[k] = main[k]
        BY <2>2, <3>1, <1>3 DEF Group
      <4>2. QED
        BY <2>2, <4>1, <1>4
    <3>2. CASE fromStore /\ new = old
      <4>1. toSave = op[p].toSave /\ toRemove = op[p].toRemove
        BY <3>2
      <4>2. QED
        BY <4>1 DEF Prepared
    <3>3. CASE ~fromStore
      <4>1. toRemove = op[p].toRemove
        BY <3>3
      <4>2. main[k] = None \/ op[p].toRemove[k] = main[k]
        BY <2>2, <3>3 DEF Prepared
      <4>3. QED
        BY <2>2, <4>1, <4>2, <1>4 DEF Prepared
    <3>4. QED
      BY <3>1, <3>2, <3>3
  <2>3. QED
    BY <2>1, <2>2
<1>6. QED
  <2> HIDE DEF toSave, toRemove
  <2>1. QED
    BY <1>1, <1>2, <1>5 DEF Prepared

(* A batch leaves the entities alone that another call has read: both would *)
(* hold the lock of an entity of both.                                      *)
LEMMA OthersKept ==
  ASSUME TypeOK, LockInv, OpInv, NEW p \in Proc, WriteBatch(p),
         NEW q \in Proc, q # p, op[q].phase \in {"reading", "counted"}
  PROVE  Prepared(q)'
<1>1. Prepared(p) /\ Prepared(q) /\ Holds(p, lockOf[p]) /\ Holds(q, lockOf[q])
  BY DEF OpInv, LockInv, Inside, WriteBatch
<1>2. KeysOf(p) \cap KeysOf(q) = {}
  <2>1. lockOf[p] # lockOf[q]
    BY <1>1, OneHolds
  <2>2. QED
    BY <2>1, LockingAssumption DEF TypeOK
<1>3. op'[q] = op[q]
  BY DEF WriteBatch, TypeOK
<1>4. ASSUME NEW k \in Key, k \in KeysOf(q)
      PROVE  main'[k] = main[k]
  <2>1. op[p].toSave[k] = None /\ op[p].toRemove[k] = None
    BY <1>1, <1>2, <1>4 DEF Prepared
  <2>2. QED
    BY <2>1 DEF WriteBatch, Merged, Without
<1>5. QED
  BY <1>1, <1>3, <1>4 DEF Prepared

LEMMA OpNext ==
  ASSUME TypeOK, LockInv, OpInv, [Next]_vars
  PROVE  OpInv'
<1> SUFFICES ASSUME NEW q \in Proc, op'[q].phase \in {"reading", "counted"}
             PROVE  Prepared(q)'
  BY DEF OpInv
<1>1. ASSUME NEW p \in Proc, WriteBatch(p)
      PROVE  Prepared(q)'
  <2>1. q # p /\ op'[q] = op[q]
    BY <1>1 DEF WriteBatch, TypeOK, OpState
  <2>2. QED
    BY <1>1, <2>1, OthersKept
<1>2. ASSUME \A p \in Proc : ~WriteBatch(p)
      PROVE  Prepared(q)'
  <2>1. main' = main
    BY <1>2, StoreKept
  <2>2. CASE op'[q].toSave = op[q].toSave /\ op'[q].toRemove = op[q].toRemove
             /\ op[q].phase \in {"reading", "counted"}
    BY <2>1, <2>2 DEF OpInv, Prepared
  <2>3. CASE GroupEntity(q)
    <3>1. Prepared(q)
      BY <2>3 DEF GroupEntity, OpInv
    <3>2. QED
      BY <2>3, <3>1, GroupPrepares
  <2>4. CASE Enter(q)
    <3>1. op'[q].toSave = NoGroup /\ op'[q].toRemove = NoGroup
      BY <2>4 DEF Enter, IdleOp, TypeOK
    <3>2. QED
      BY <3>1 DEF Prepared, NoGroup
  <2>5. CASE op' = op
    BY <2>2, <2>5
  <2>6. CASE Crash
    BY <2>6 DEF Crash, IdleOp
  <2>7. ASSUME NEW p \in Proc, Call(p) \/ CallStep(p) \/ WriteFails(p)
        PROVE  Prepared(q)'
    <3>1. CASE p # q
      <4>1. op'[q] = op[q]
        BY <2>7, <3>1 DEF Call, CallStep, Enter, GroupEntity, CountChange, WriteBatch,
           WriteFails, Release, TypeOK
      <4>2. QED
        BY <2>2, <4>1
    <3>2. CASE p = q
      <4>1. CASE Call(q) \/ WriteFails(q) \/ Release(q)
        BY <4>1 DEF Call, WriteFails, Release, IdleOp, TypeOK, OpState
      <4>2. CASE CountChange(q)
        BY <2>2, <4>2 DEF CountChange, TypeOK, OpState
      <4>3. QED
        BY <1>2, <2>3, <2>4, <2>7, <3>2, <4>1, <4>2 DEF CallStep
    <3>3. QED
      BY <3>1, <3>2
  <2>8. QED
    BY <2>5, <2>6, <2>7 DEF vars, Next, ReadStep, CountKeys, Acquire, GetAll, MapItem, Close
<1>3. QED
  BY <1>1, <1>2
-----------------------------------------------------------------------------
(* A batch writes the entries of what it stores, and takes those of what it *)
(* replaces.                                                                *)
LEMMA IndexNext ==
  ASSUME TypeOK, TypeOK', OpInv, IndexInv, [Next]_vars
  PROVE  IndexInv'
<1>1. ASSUME NEW p \in Proc, WriteBatch(p)
      PROVE  IndexInv'
  <2> DEFINE add == op[p].toSave
             rem == op[p].toRemove
  <2>1. add \in Group /\ rem \in Group /\ main \in Group /\ main' \in Group
    BY DEF TypeOK, OpState
  <2>2. index' = (Entries(main) \ Entries(rem)) \cup Entries(add)
    BY <1>1 DEF WriteBatch, IndexInv
  <2>3. ASSUME NEW k \in Key
        PROVE  main'[k] = IF add[k] # None THEN add[k] ELSE IF rem[k] # None THEN None ELSE main[k]
    BY <1>1 DEF WriteBatch, Merged, Without
  <2>4. ASSUME NEW k \in Key
        PROVE  /\ rem[k] # None => rem[k] = main[k]
               /\ add[k] # None => main[k] = None \/ rem[k] = main[k]
    BY <1>1 DEF WriteBatch, OpInv, Prepared
  <2> HIDE DEF add, rem
  <2>5. ASSUME NEW i, NEW k \in Key
        PROVE  <<i, k>> \in index' <=> main'[k] # None /\ i \in IndexOf(main'[k])
    <3>1. /\ <<i, k>> \in Entries(main) <=> main[k] # None /\ i \in IndexOf(main[k])
          /\ <<i, k>> \in Entries(rem) <=> rem[k] # None /\ i \in IndexOf(rem[k])
          /\ <<i, k>> \in Entries(add) <=> add[k] # None /\ i \in IndexOf(add[k])
      BY <2>1, EntriesOf
    <3>2. CASE add[k] # None
      <4>1. main'[k] = add[k]
        BY <2>3, <3>2
      <4>2. <<i, k>> \notin Entries(main) \ Entries(rem)
        BY <2>4, <3>1, <3>2
      <4>3. QED
        BY <2>2, <3>1, <3>2, <4>1, <4>2
    <3>3. CASE add[k] = None /\ rem[k] # None
      <4>1. main'[k] = None /\ rem[k] = main[k]
        BY <2>3, <2>4, <3>3
      <4>2. QED
        BY <2>2, <3>1, <3>3, <4>1
    <3>4. CASE add[k] = None /\ rem[k] = None
      <4>1. main'[k] = main[k]
        BY <2>3, <3>4
      <4>2. QED
        BY <2>2, <3>1, <3>4, <4>1
    <3>5. QED
      BY <3>2, <3>3, <3>4
  <2>6. ASSUME NEW x \in index'
        PROVE  x \in Entries(main')
    <3>1. x = <<x[1], x[2]>> /\ x[2] \in Key
      BY <2>1, <2>2, EntriesOf
    <3>2. main'[x[2]] # None /\ x[1] \in IndexOf(main'[x[2]])
      BY <2>5, <2>6, <3>1
    <3>3. <<x[1], x[2]>> \in Entries(main')
      BY <2>1, <3>1, <3>2, EntriesOf
    <3>4. QED
      BY <3>1, <3>3
  <2>7. ASSUME NEW x \in Entries(main')
        PROVE  x \in index'
    <3>1. x = <<x[1], x[2]>> /\ x[2] \in Key
      BY <2>1, EntriesOf
    <3>2. main'[x[2]] # None /\ x[1] \in IndexOf(main'[x[2]])
      <4>1. <<x[1], x[2]>> \in Entries(main')
        BY <2>7, <3>1
      <4>2. QED
        BY <2>1, <4>1, EntriesOf
    <3>3. <<x[1], x[2]>> \in index'
      BY <2>5, <3>1, <3>2
    <3>4. QED
      BY <3>1, <3>3
  <2>8. index' = Entries(main')
    BY <2>6, <2>7
  <2>9. QED
    BY <2>8 DEF IndexInv, Entries, InGroup
<1>2. ASSUME \A p \in Proc : ~WriteBatch(p)
      PROVE  IndexInv'
  BY <1>2, StoreKept DEF IndexInv, Entries, InGroup
<1>3. QED
  BY <1>1, <1>2

(* Nothing is written while a stream holds the store, if all hold it.       *)
LEMMA ReadNext ==
  ASSUME TypeOK, LockInv, IndexInv, ReadInv, [Next]_vars
  PROVE  ReadInv'
<1> SUFFICES ASSUME NEW r \in Reader, Counted', reader'[r].phase = "streaming"
             PROVE  /\ reader'[r].left \subseteq Entries(main')
                    /\ reader'[r].got
                        = {<<x, main'[x[2]]>> : x \in Entries(main') \ reader'[r].left}
  BY DEF ReadInv, Entries, InGroup
<1>1. Counted
  BY LockOfKept DEF Counted
<1>2. CASE GetAll(r)
  <2>1. reader'[r] = [phase |-> "streaming", left |-> index, got |-> {}] /\ main' = main
    BY <1>2 DEF GetAll, TypeOK
  <2>2. QED
    BY <2>1 DEF IndexInv
<1>3. CASE MapItem(r)
  <2>1. reader[r].phase = "streaming" /\ main' = main
    BY <1>3 DEF MapItem
  <2>2. PICK x \in reader[r].left : reader' = [reader EXCEPT ![r] =
          [phase |-> "streaming", left |-> reader[r].left \ {x},
           got |-> reader[r].got \cup
                     (IF main[x[2]] = None THEN {} ELSE {<<x, main[x[2]]>>})]]
    BY <1>3 DEF MapItem
  <2>3. /\ reader[r].left \subseteq Entries(main)
        /\ reader[r].got = {<<y, main[y[2]]>> : y \in Entries(main) \ reader[r].left}
    BY <1>1, <2>1 DEF ReadInv
  <2>4. main[x[2]] # None
    BY <2>3, EntriesOf, NoneAssumption DEF TypeOK
  <2>5. reader'[r].left = reader[r].left \ {x}
        /\ reader'[r].got = reader[r].got \cup {<<x, main[x[2]]>>}
    BY <2>2, <2>4 DEF TypeOK
  <2>6. Entries(main) \ (reader[r].left \ {x}) = (Entries(main) \ reader[r].left) \cup {x}
    BY <2>3
  <2>7. QED
    BY <2>1, <2>3, <2>5, <2>6
<1>4. CASE reader[r].phase = "streaming" /\ reader'[r] = reader[r]
  <2>1. ASSUME NEW p \in Proc, WriteBatch(p)
        PROVE  FALSE
    <3>1. Holds(p, Main) /\ Holds(r, Main)
      BY <1>1, <1>4, <2>1 DEF LockInv, Inside, WriteBatch, Counted
    <3>2. QED
      BY <3>1, OneHolds, ProcAssumption
  <2>2. main' = main
    BY <2>1, StoreKept
  <2>3. QED
    BY <1>1, <1>4, <2>2 DEF ReadInv
<1>5. CASE Crash
  BY <1>5 DEF Crash, IdleReader
<1>6. ASSUME NEW w \in Reader, w # r, Acquire(w) \/ ReadStep(w)
      PROVE  reader'[r] = reader[r]
  BY <1>6 DEF Acquire, ReadStep, GetAll, MapItem, Close, TypeOK
<1>7. ASSUME Acquire(r) \/ Close(r)
      PROVE  FALSE
  BY <1>7 DEF Acquire, Close, TypeOK, IdleReader, ReaderState
<1>8. CASE reader' = reader
  BY <1>4, <1>8
<1>9. QED
  BY <1>2, <1>3, <1>4, <1>5, <1>6, <1>7, <1>8 DEF vars, Next, CallStep, ReadStep, CountKeys,
     Call, Enter, GroupEntity, CountChange, WriteBatch, WriteFails, Release
-----------------------------------------------------------------------------
LEMMA MergedSize ==
  ASSUME NEW map \in Group, NEW add \in Group, NEW rem \in Group,
         \A k \in Key : rem[k] # None => rem[k] = map[k],
         \A k \in Key : add[k] # None => map[k] = None \/ rem[k] = map[k]
  PROVE  Size(Merged(Without(map, rem), add)) = Size(map) + Size(add) - Size(rem)
<1> DEFINE M == InGroup(map)
           A == InGroup(add)
           R == InGroup(rem)
<1>1. IsFiniteSet(M) /\ IsFiniteSet(A) /\ IsFiniteSet(R)
  BY GroupFinite
<1>2. InGroup(Merged(Without(map, rem), add)) = (M \ R) \cup A
  BY DEF InGroup, Merged, Without
<1>3. M \cap R = R
  BY DEF InGroup
<1>4. (M \ R) \cap A = {}
  BY DEF InGroup
<1> HIDE DEF M, A, R
<1>5. IsFiniteSet(M \ R) /\ Cardinality(M \ R) = Cardinality(M) - Cardinality(R)
  BY <1>1, <1>3, FS_Difference
<1>6. Cardinality((M \ R) \cup A)
        = Cardinality(M \ R) + Cardinality(A) - Cardinality((M \ R) \cap A)
  BY <1>1, <1>5, FS_Union
<1>7. Cardinality((M \ R) \cap A) = 0
  BY <1>4, FS_EmptySet
<1>8. Cardinality(M) \in Nat /\ Cardinality(A) \in Nat /\ Cardinality(R) \in Nat
  BY <1>1, FS_CardinalityType
<1>9. Cardinality((M \ R) \cup A) = Cardinality(M) + Cardinality(A) - Cardinality(R)
  BY <1>5, <1>6, <1>7, <1>8
<1>10. QED
  BY <1>2, <1>9 DEF Size, M, A, R

(* The constructor leaves its line in CountKeys alone.                      *)
LEMMA OpenerKept ==
  ASSUME TypeOK, QueueType, LineInv, LockInv, [Next]_vars, ~CountKeys, ~Crash
  PROVE  Contains(queue'[Main], Opener) <=> Contains(queue[Main], Opener)
<1>1. Main \in Locks /\ queue[Main] \in Seq(Caller) /\ Unique(queue[Main])
  BY LocksKnown DEF TypeOK, QueueType
<1>2. ASSUME NEW x \in Proc \cup Reader, queue'[Main] = Append(queue[Main], x)
      PROVE  Contains(queue'[Main], Opener) <=> Contains(queue[Main], Opener)
  <2>1. x \in Caller /\ x # Opener
    BY ProcAssumption DEF Caller
  <2>2. QED
    BY <1>1, <1>2, <2>1, JoinLine
<1>3. ASSUME NEW x \in Proc \cup Reader, Holds(x, Main), queue'[Main] = Tail(queue[Main])
      PROVE  Contains(queue'[Main], Opener) <=> Contains(queue[Main], Opener)
  <2>1. queue[Main] # <<>> /\ Head(queue[Main]) # Opener
    BY <1>3, ProcAssumption DEF Holds
  <2>2. QED
    BY <1>1, <1>3, <2>1, LeaveLine
<1>4. ASSUME NEW p \in Proc, Call(p)
      PROVE  queue'[Main] = Append(queue[Main], p)
  BY <1>1, <1>4 DEF Call
<1>5. ASSUME NEW r \in Reader, Acquire(r)
      PROVE  queue'[Main] = Append(queue[Main], r)
  BY <1>1, <1>5 DEF Acquire, TypeOK
<1>6. ASSUME NEW p \in Proc, Release(p)
      PROVE  Holds(p, Main) /\ queue'[Main] = Tail(queue[Main])
  BY <1>1, <1>6 DEF Release, Free
<1>7. ASSUME NEW r \in Reader, Close(r)
      PROVE  Holds(r, Main) /\ queue'[Main] = Tail(queue[Main])
  BY <1>1, <1>7 DEF Close, Free, LockInv
<1>8. CASE queue' = queue
  BY <1>8
<1>9. QED
  BY <1>2, <1>3, <1>4, <1>5, <1>6, <1>7, <1>8 DEF vars, Next, CallStep, ReadStep, Enter,
     GroupEntity, CountChange, WriteBatch, WriteFails, GetAll, MapItem

LEMMA CountNext ==
  ASSUME TypeOK, TypeOK', QueueType, LineInv, LockInv, OpInv, CountInv, [Next]_vars
  PROVE  CountInv'
<1> SUFFICES ASSUME Counted', ~torn'
             PROVE
               /\ Contains(queue'[Main], Opener) => count' = 0
               /\ \A p \in Proc : op'[p].phase = "counted" =>
                    count' = Size(main') + Size(op'[p].toSave) - Size(op'[p].toRemove)
               /\ ~Contains(queue'[Main], Opener) /\ (\A p \in Proc : op'[p].phase # "counted")
                    => count' = Size(main')
  BY DEF CountInv, Size, InGroup
<1>1. Counted /\ Main \in Locks
  BY LockOfKept, LocksKnown DEF Counted, TypeOK
<1>2. ASSUME NEW p \in Proc, Inside(p)
      PROVE  /\ ~Contains(queue[Main], Opener)
             /\ \A q \in Proc \ {p} : ~Inside(q)
  <2>1. Holds(p, Main)
    BY <1>1, <1>2 DEF LockInv, Counted
  <2>2. ASSUME NEW q \in Proc, Inside(q)
        PROVE  q = p
    BY <1>1, <2>1, <2>2, OneHolds DEF LockInv, Counted
  <2>3. ASSUME Contains(queue[Main], Opener)
        PROVE  FALSE
    BY <1>1, <2>1, <2>3, OneHolds, ProcAssumption DEF LineInv
  <2>4. QED
    BY <2>2, <2>3
<1>3. CASE CountKeys
  <2>1. Contains(queue[Main], Opener) /\ Holds(Opener, Main)
    <3>1. Holds(Opener, Main)
      BY <1>3 DEF CountKeys
    <3>2. QED
      BY <1>1, <3>1, HeadInLine DEF TypeOK, Holds
  <2>2. \A p \in Proc : op'[p].phase # "counted"
    BY <1>2, <1>3, <2>1 DEF CountKeys, Inside
  <2>3. count = 0
    BY <1>1, <1>3, <2>1 DEF CountInv, CountKeys
  <2>4. count' = Size(main')
    <3>1. count' = 0 + Size(main) /\ main' = main
      BY <1>1, <1>3, <2>3 DEF CountKeys, Size
    <3>2. QED
      BY <3>1, GroupFinite DEF Size
  <2>5. ~Contains(queue'[Main], Opener)
    <3>1. queue[Main] # <<>> /\ Head(queue[Main]) = Opener /\ queue'[Main] = Tail(queue[Main])
      BY <1>1, <1>3, <2>1 DEF Holds, CountKeys, Free
    <3>2. QED
      BY <1>1, <3>1, LeaveLine DEF QueueType
  <2>6. QED
    BY <2>2, <2>4, <2>5
<1>4. CASE Crash
  <2>1. count' = 0 /\ \A p \in Proc : op'[p].phase # "counted"
    BY <1>4 DEF Crash, IdleOp
  <2>2. Contains(queue'[Main], Opener)
    BY <1>1, <1>4 DEF Crash, Contains
  <2>3. QED
    BY <2>1, <2>2
<1>5. ASSUME NEW p \in Proc, CountChange(p)
      PROVE  /\ Contains(queue'[Main], Opener) => count' = 0
             /\ \A q \in Proc : op'[q].phase = "counted" =>
                  count' = Size(main') + Size(op'[q].toSave) - Size(op'[q].toRemove)
             /\ ~Contains(queue'[Main], Opener) /\ (\A q \in Proc : op'[q].phase # "counted")
                  => count' = Size(main')
  <2>1. Inside(p) /\ op[p].phase = "reading"
    BY <1>5 DEF CountChange, Inside
  <2>2. ~Contains(queue[Main], Opener) /\ \A q \in Proc : op[q].phase # "counted"
    BY <1>2, <2>1 DEF Inside
  <2>3. count = Size(main)
    BY <1>1, <1>5, <2>2 DEF CountInv, CountChange
  <2>4. count' = count + Size(op[p].toSave) - Size(op[p].toRemove)
        /\ main' = main /\ queue' = queue
    BY <1>1, <1>5 DEF CountChange, Size
  <2>5. /\ op'[p].toSave = op[p].toSave /\ op'[p].toRemove = op[p].toRemove
        /\ op'[p].phase = "counted"
        /\ \A q \in Proc \ {p} : op'[q] = op[q]
    BY <1>5 DEF CountChange, TypeOK, OpState
  <2>6. QED
    BY <2>2, <2>3, <2>4, <2>5
<1>6. ASSUME NEW p \in Proc, WriteBatch(p)
      PROVE  /\ Contains(queue'[Main], Opener) => count' = 0
             /\ \A q \in Proc : op'[q].phase # "counted"
             /\ count' = Size(main')
  <2>1. Inside(p) /\ op[p].phase = "counted" /\ Prepared(p)
    BY <1>6 DEF WriteBatch, Inside, OpInv
  <2>2. ~Contains(queue[Main], Opener) /\ \A q \in Proc \ {p} : op[q].phase # "counted"
    BY <1>2, <2>1 DEF Inside
  <2>3. count = Size(main) + Size(op[p].toSave) - Size(op[p].toRemove)
    BY <1>1, <1>6, <2>1 DEF CountInv, WriteBatch
  <2>4. /\ count' = count /\ queue' = queue
        /\ main' = Merged(Without(main, op[p].toRemove), op[p].toSave)
    BY <1>6 DEF WriteBatch
  <2>5. op'[p].phase = "releasing" /\ \A q \in Proc \ {p} : op'[q] = op[q]
    BY <1>6 DEF WriteBatch, TypeOK, OpState
  <2>6. Size(main') = Size(main) + Size(op[p].toSave) - Size(op[p].toRemove)
    <3>1. main \in Group /\ op[p].toSave \in Group /\ op[p].toRemove \in Group
      BY DEF TypeOK, OpState
    <3>2. QED
      BY <2>1, <2>4, <3>1, MergedSize DEF Prepared
  <2>7. QED
    BY <2>2, <2>3, <2>4, <2>5, <2>6
<1>7. ASSUME NEW p \in Proc, WriteFails(p)
      PROVE  FALSE
  BY <1>7 DEF WriteFails
<1>8. ASSUME ~CountKeys, ~Crash,
             \A p \in Proc : ~CountChange(p) /\ ~WriteBatch(p) /\ ~WriteFails(p)
      PROVE  /\ Contains(queue'[Main], Opener) => count' = 0
             /\ \A q \in Proc : op'[q].phase = "counted" =>
                  count' = Size(main') + Size(op'[q].toSave) - Size(op'[q].toRemove)
             /\ ~Contains(queue'[Main], Opener) /\ (\A q \in Proc : op'[q].phase # "counted")
                  => count' = Size(main')
  <2>1. Contains(queue'[Main], Opener) <=> Contains(queue[Main], Opener)
    BY <1>8, OpenerKept
  <2>2. main' = main
    BY <1>8, StoreKept
  <2>3. count' = count /\ torn' = torn
    BY <1>8 DEF vars, Next, CallStep, ReadStep, Call, Enter, GroupEntity, Release, Acquire,
       GetAll, MapItem, Close
  <2>4. ASSUME NEW q \in Proc
        PROVE  /\ op'[q].phase = "counted" <=> op[q].phase = "counted"
               /\ op'[q].phase = "counted" =>
                    op'[q].toSave = op[q].toSave /\ op'[q].toRemove = op[q].toRemove
    <3>1. ASSUME NEW p \in Proc, Call(p) \/ Enter(p) \/ GroupEntity(p) \/ Release(p)
          PROVE  /\ op[p].phase # "counted" /\ op'[p].phase # "counted"
                 /\ \A w \in Proc \ {p} : op'[w] = op[w]
      <4>1. \A w \in Proc \ {p} : op'[w] = op[w]
        BY <3>1 DEF Call, Enter, GroupEntity, Release, TypeOK
      <4>2. op[p].phase # "counted"
        BY <3>1 DEF Call, Enter, GroupEntity, Release
      <4>3. CASE Call(p) \/ Enter(p) \/ Release(p)
        BY <4>1, <4>2, <4>3 DEF Call, Enter, Release, TypeOK, OpState, IdleOp
      <4>4. CASE GroupEntity(p)
        BY <4>1, <4>2, <4>4 DEF GroupEntity, TypeOK
      <4>5. QED
        BY <3>1, <4>3, <4>4
    <3>2. CASE op' = op
      BY <3>2
    <3>3. QED
      BY <1>8, <3>1, <3>2 DEF vars, Next, CallStep, ReadStep, Acquire, GetAll, MapItem, Close
  <2>5. QED
    BY <1>1, <2>1, <2>2, <2>3, <2>4 DEF CountInv
<1>9. QED
  BY <1>3, <1>4, <1>5, <1>6, <1>7, <1>8
-----------------------------------------------------------------------------
(* All of it holds from the start on.                                       *)
LEMMA Inductive == Spec => []IInv
<1>1. Init => IInv
  <2> SUFFICES ASSUME Init PROVE IInv
    OBVIOUS
  <2>1. TypeOK /\ QueueType /\ LineInv /\ LockInv
    BY TypeInit, LinesInit
  <2>2. OpInv /\ ReadInv
    BY DEF Init, OpInv, ReadInv, IdleOp, IdleReader
  <2>3. InGroup(main) = {}
    BY DEF Init, NoGroup, InGroup
  <2>4. IndexInv
    BY <2>3 DEF Init, IndexInv, Entries
  <2>5. CountInv
    BY <2>3, FS_EmptySet DEF Init, CountInv, Size, IdleOp
  <2>6. QED
    BY <2>1, <2>2, <2>4, <2>5 DEF IInv
<1>2. IInv /\ [Next]_vars => IInv'
  <2> SUFFICES ASSUME IInv, [Next]_vars PROVE IInv'
    OBVIOUS
  <2>1. TypeOK' /\ QueueType' /\ LineInv' /\ LockInv'
    BY TypeNext, LinesNext DEF IInv
  <2>2. OpInv' /\ IndexInv' /\ ReadInv' /\ CountInv'
    BY <2>1, OpNext, IndexNext, ReadNext, CountNext DEF IInv
  <2>3. QED
    BY <2>1, <2>2 DEF IInv
<1>3. QED
  BY <1>1, <1>2, PTL DEF Spec

(* TypeOK: the variables keep the types declared for the store's sublevels, *)
(* locks, calls and readers, so an index entry is always one of an entity.  *)
THEOREM TypeCorrect == Spec => []TypeOK
<1>1. IInv => TypeOK
  BY DEF IInv
<1>2. QED
  BY <1>1, Inductive, PTL

(* Whatever calls overlap, wherever writes fail or the process stops, the   *)
(* index sublevel has the entries of the entities in main and no others.    *)
THEOREM IndexAlwaysAgrees == Spec => []IndexAgrees
<1>1. IInv => IndexAgrees
  BY DEF IInv, IndexInv, IndexAgrees
<1>2. QED
  BY <1>1, Inductive, PTL

(* Between calls the count is the number of entities in main, whatever calls *)
(* and restarts came before, unless a write has failed since the start.     *)
THEOREM CountAlwaysExact == Spec => []CountIsExact
<1>1. IInv => CountIsExact
  <2> SUFFICES ASSUME IInv, Counted, ~torn, queue[Main] = <<>>
               PROVE  count = Cardinality(InGroup(main))
    BY DEF CountIsExact
  <2>1. Main \in Locks /\ \A x : ~Contains(queue[Main], x)
    BY LocksKnown DEF IInv, TypeOK, Contains
  <2>2. \A p \in Proc : op[p].phase # "counted"
    BY <2>1 DEF IInv, LineInv
  <2>3. QED
    BY <2>1, <2>2 DEF IInv, CountInv, Size
<1>2. QED
  BY <1>1, Inductive, PTL

(* Where all callers lock the store, a stream of getAll that reads under    *)
(* that lock returns every entity of main as it is when it ends.            *)
THEOREM LockedStreamAlwaysExact == Spec => []LockedStreamIsExact
<1>1. IInv => LockedStreamIsExact
  BY DEF IInv, ReadInv, LockedStreamIsExact
<1>2. QED
  BY <1>1, Inductive, PTL
-----------------------------------------------------------------------------
(* What is stored once the call has written what it has prepared.           *)
Effect(p) == Merged(Without(main, op[p].toRemove), op[p].toSave)

(* What the first n - 1 entities of a call lead a map through, one by one.  *)
Prior(map, passed, n) == IF n = 1 THEN map ELSE passed[n - 1]

Passed(p, map, passed, n) ==
  /\ passed \in [1..n - 1 -> Group]
  /\ \A i \in 1..n - 1 :
       passed[i] = Atomic!OneApplied(p, Prior(map, passed, i), Batch[p][i])

(* What a call has prepared is the effect on what is stored now, and not on *)
(* what was when it read it, of the entities it has gone through.           *)
EffectOK(p) ==
  \E passed : /\ Passed(p, main, passed, op[p].next)
              /\ Effect(p) = Prior(main, passed, op[p].next)

EffectInv ==
  \A p \in Proc :
    /\ op[p].phase \in {"reading", "counted"} => EffectOK(p)
    /\ op[p].phase = "counted" => op[p].next = Len(Batch[p]) + 1
-----------------------------------------------------------------------------
(* The effect of the next entity comes on top of what is prepared.          *)
LEMMA EffectGrows ==
  ASSUME TypeOK, NEW p \in Proc, Prepared(p), GroupEntity(p)
  PROVE  Effect(p)' = Atomic!OneApplied(p, Effect(p), Batch[p][op[p].next])
<1> DEFINE e == Batch[p][op[p].next]
           saved == op[p].toSave[e.key]
           fromStore == saved = None /\ op[p].toRemove[e.key] = None
           old == IF fromStore THEN main[e.key] ELSE saved
           new == IF Kind[p] = "remove" THEN None ELSE Check(old, e.val)
           toSave == IF new = old THEN op[p].toSave ELSE [op[p].toSave EXCEPT ![e.key] = new]
           toRemove == IF fromStore /\ new # old
                         THEN [op[p].toRemove EXCEPT ![e.key] = old] ELSE op[p].toRemove
<1>1. op'[p].toSave = toSave /\ op'[p].toRemove = toRemove /\ main' = main
  BY DEF GroupEntity, TypeOK
<1>2. op[p].toSave \in Group /\ op[p].toRemove \in Group /\ main \in Group
  BY DEF TypeOK, OpState
<1>3. e.key \in Key
  BY NextEntity
<1>4. Effect(p)[e.key] = old
  BY <1>3 DEF Effect, Merged, Without
<1>5. Effect(p) \in Group
  BY <1>2 DEF Effect, Merged, Without, Group
<1>6. Atomic!OneApplied(p, Effect(p), e) = [Effect(p) EXCEPT ![e.key] = new]
  BY <1>3, <1>4, <1>5 DEF Atomic!OneApplied, Group
<1>7. Effect(p)' = Merged(Without(main, toRemove), toSave)
  BY <1>1 DEF Effect, Merged, Without
<1>8. ASSUME NEW k \in Key
      PROVE  Merged(Without(main, toRemove), toSave)[k]
               = IF k = e.key THEN new ELSE Effect(p)[k]
  <2>1. CASE k # e.key
    <3>1. toSave[k] = op[p].toSave[k] /\ toRemove[k] = op[p].toRemove[k]
      BY <2>1, <1>2 DEF Group
    <3>2. QED
      BY <2>1, <3>1 DEF Effect, Merged, Without
  <2>2. CASE k = e.key /\ new = old
    <3>1. toSave = op[p].toSave /\ toRemove = op[p].toRemove
      BY <2>2
    <3>2. QED
      BY <2>2, <3>1, <1>4 DEF Effect
  <2>3. CASE k = e.key /\ new # old /\ fromStore
    <3>1. toSave[k] = new /\ toRemove[k] = old
      BY <2>3, <1>2 DEF Group
    <3>2. QED
      BY <2>3, <3>1 DEF Merged, Without
  <2>4. CASE k = e.key /\ new # old /\ ~fromStore
    <3>1. toSave[k] = new /\ toRemove[k] = op[p].toRemove[k]
      BY <2>4, <1>2 DEF Group
    <3>2. op[p].toRemove[k] = None => main[k] = None
      BY <2>4 DEF Prepared
    <3>3. QED
      BY <2>4, <3>1, <3>2 DEF Merged, Without
  <2>5. QED
    BY <2>1, <2>2, <2>3, <2>4
<1>9. Merged(Without(main, toRemove), toSave) = [Effect(p) EXCEPT ![e.key] = new]
  <2> HIDE DEF toSave, toRemove, new
  <2> DEFINE after == Merged(Without(main, toRemove), toSave)
  <2>1. after = [k \in Key |-> after[k]]
    BY DEF Merged
  <2>2. QED
    BY <2>1, <1>5, <1>8 DEF Group
<1>10. QED
  <2> HIDE DEF toSave, toRemove, new
  <2>1. QED
    BY <1>6, <1>7, <1>9

(* One more entity leads one step on.                                       *)
LEMMA OneMore ==
  ASSUME NEW p \in Proc, NEW map, NEW n \in Nat \ {0}, NEW passed, Passed(p, map, passed, n),
         NEW after \in Group, after = Atomic!OneApplied(p, Prior(map, passed, n), Batch[p][n])
  PROVE  \E longer : Passed(p, map, longer, n + 1) /\ after = Prior(map, longer, n + 1)
<1> DEFINE longer == [i \in 1..n |-> IF i = n THEN after ELSE passed[i]]
<1>1. n + 1 - 1 = n
  OBVIOUS
<1>2. longer \in [1..n -> Group]
  BY DEF Passed
<1>3. ASSUME NEW i \in 1..n
      PROVE  Prior(map, longer, i) = Prior(map, passed, i)
  BY DEF Prior
<1>4. ASSUME NEW i \in 1..n
      PROVE  longer[i] = Atomic!OneApplied(p, Prior(map, longer, i), Batch[p][i])
  <2>1. CASE i = n
    BY <1>3, <2>1
  <2>2. CASE i # n
    <3>1. i \in 1..n - 1 /\ longer[i] = passed[i]
      BY <2>2
    <3>2. QED
      BY <1>3, <3>1 DEF Passed
  <2>3. QED
    BY <2>1, <2>2
<1>5. after = Prior(map, longer, n + 1)
  BY DEF Prior
<1> HIDE DEF longer
<1>6. Passed(p, map, longer, n + 1)
  BY <1>1, <1>2, <1>4 DEF Passed
<1>7. QED
  BY <1>5, <1>6

(* Where other entities change, those of the call are led through the same. *)
LEMMA SamePassed ==
  ASSUME NEW p \in Proc, NEW map \in Group, NEW other \in Group,
         \A k \in KeysOf(p) \cap Key : other[k] = map[k],
         NEW n \in 1..Len(Batch[p]) + 1, NEW passed, Passed(p, map, passed, n)
  PROVE  \E same : /\ Passed(p, other, same, n)
                   /\ Prior(other, same, n)
                        = [k \in Key |-> IF k \in KeysOf(p) THEN Prior(map, passed, n)[k] ELSE other[k]]
<1> DEFINE Mixed(m) == [k \in Key |-> IF k \in KeysOf(p) THEN m[k] ELSE other[k]]
           same == [i \in 1..n - 1 |-> Mixed(passed[i])]
<1>1. Len(Batch[p]) \in Nat /\ n \in Nat \ {0}
  BY BatchOf
<1>2. same \in [1..n - 1 -> Group]
  BY DEF Passed, Group
<1>3. other = Mixed(map)
  BY DEF Group
<1>4. ASSUME NEW i \in 1..n
      PROVE  Prior(other, same, i) = Mixed(Prior(map, passed, i))
  BY <1>1, <1>3 DEF Prior
<1>5. ASSUME NEW i \in 1..n
      PROVE  Prior(map, passed, i) \in Group
  BY <1>1 DEF Prior, Passed
<1>6. ASSUME NEW i \in 1..n - 1
      PROVE  same[i] = Atomic!OneApplied(p, Prior(other, same, i), Batch[p][i])
  <2> DEFINE m == Prior(map, passed, i)
             e == Batch[p][i]
             v == IF Kind[p] = "remove" THEN None ELSE Check(m[e.key], e.val)
  <2>1. i \in 1..n /\ i \in 1..Len(Batch[p])
    BY <1>1
  <2>2. e.key \in KeysOf(p) \cap Key
    BY <2>1, BatchOf
  <2>3. m \in Group
    BY <1>5, <2>1
  <2>4. passed[i] = [m EXCEPT ![e.key] = v]
    BY <2>2, <2>3 DEF Passed, Atomic!OneApplied, Group
  <2>5. Mixed(m)[e.key] = m[e.key]
    BY <2>2
  <2>6. Atomic!OneApplied(p, Mixed(m), e) = [Mixed(m) EXCEPT ![e.key] = v]
    BY <2>2, <2>5 DEF Atomic!OneApplied
  <2>7. Mixed([m EXCEPT ![e.key] = v]) = [Mixed(m) EXCEPT ![e.key] = v]
    <3> HIDE DEF m, e, v
    <3>1. QED
      BY <2>2, <2>3 DEF Group
  <2>8. same[i] = Mixed(passed[i])
    OBVIOUS
  <2>9. QED
    <3> HIDE DEF same, v, Mixed
    <3>1. QED
      BY <1>4, <2>1, <2>4, <2>6, <2>7, <2>8
<1>7. Prior(other, same, n) = Mixed(Prior(map, passed, n))
  BY <1>1, <1>4
<1> HIDE DEF same
<1>8. Passed(p, other, same, n)
  BY <1>2, <1>6 DEF Passed
<1>9. QED
  BY <1>7, <1>8
-----------------------------------------------------------------------------
(* A call goes on from an effect to an effect.                              *)
LEMMA EffectSteps ==
  ASSUME TypeOK, TypeOK', OpInv, EffectInv, NEW p \in Proc,
         Enter(p) \/ GroupEntity(p) \/ CountChange(p)
  PROVE  EffectOK(p)' /\ (op'[p].phase = "counted" => op'[p].next = Len(Batch[p]) + 1)
<1>1. CASE Enter(p)
  <2>1. /\ main' = main /\ op'[p].next = 1 /\ op'[p].phase = "reading"
        /\ op'[p].toSave = NoGroup /\ op'[p].toRemove = NoGroup
    BY <1>1 DEF Enter, IdleOp, TypeOK
  <2>2. Effect(p)' = main'
    BY <2>1 DEF Effect, Merged, Without, NoGroup, TypeOK, Group
  <2> DEFINE none == [i \in {} |-> NoGroup]
  <2>3. Passed(p, main', none, 1)
    BY DEF Passed
  <2>4. Prior(main', none, 1) = main'
    BY DEF Prior
  <2>5. QED
    BY <2>1, <2>2, <2>3, <2>4 DEF EffectOK
<1>2. CASE GroupEntity(p)
  <2> DEFINE n == op[p].next
  <2>1. op[p].phase = "reading" /\ op'[p].phase = "reading" /\ op'[p].next = n + 1 /\ main' = main
    BY <1>2 DEF GroupEntity, TypeOK
  <2>2. PICK passed : Passed(p, main, passed, n) /\ Effect(p) = Prior(main, passed, n)
    BY <2>1 DEF EffectInv, EffectOK
  <2>3. Effect(p)' = Atomic!OneApplied(p, Prior(main, passed, n), Batch[p][n])
    BY <1>2, <2>1, <2>2, EffectGrows DEF OpInv
  <2>4. Effect(p)' \in Group
    BY DEF Effect, Merged, Without, Group, TypeOK, OpState
  <2>5. n \in Nat \ {0}
    BY <1>2, NextEntity, BatchOf
  <2> HIDE DEF n
  <2>6. \E longer : Passed(p, main, longer, n + 1) /\ Effect(p)' = Prior(main, longer, n + 1)
    BY <2>2, <2>3, <2>4, <2>5, OneMore
  <2>7. QED
    BY <2>1, <2>6 DEF EffectOK
<1>3. CASE CountChange(p)
  <2>1. /\ main' = main /\ op'[p].next = op[p].next /\ op[p].phase = "reading"
        /\ op'[p].toSave = op[p].toSave /\ op'[p].toRemove = op[p].toRemove
    BY <1>3 DEF CountChange, TypeOK, OpState
  <2>2. EffectOK(p)'
    BY <2>1 DEF EffectInv, EffectOK, Effect, Merged, Without
  <2>3. op[p].next = Len(Batch[p]) + 1
    <3>1. Len(Batch[p]) \in Nat /\ op[p].next \in 1..Len(Batch[p]) + 1
      BY BatchOf DEF TypeOK
    <3>2. op[p].next > Len(Batch[p])
      BY <1>3 DEF CountChange
    <3>3. QED
      BY <3>1, <3>2
  <2>4. QED
    BY <2>1, <2>2, <2>3
<1>4. QED
  BY <1>1, <1>2, <1>3

(* The batch of another call does not change the effect of this one.        *)
LEMMA EffectStays ==
  ASSUME TypeOK, TypeOK', LockInv, OpInv, EffectInv, NEW p \in Proc, WriteBatch(p),
         NEW q \in Proc, q # p, op[q].phase \in {"reading", "counted"}
  PROVE  EffectOK(q)'
<1> DEFINE n == op[q].next
<1>1. Prepared(p) /\ Prepared(q) /\ Holds(p, lockOf[p]) /\ Holds(q, lockOf[q])
  BY DEF OpInv, LockInv, Inside, WriteBatch
<1>2. KeysOf(p) \cap KeysOf(q) = {}
  <2>1. lockOf[p] # lockOf[q]
    BY <1>1, OneHolds
  <2>2. QED
    BY <2>1, LockingAssumption DEF TypeOK
<1>3. ASSUME NEW k \in KeysOf(q) \cap Key
      PROVE  main'[k] = main[k]
  <2>1. op[p].toSave[k] = None /\ op[p].toRemove[k] = None
    BY <1>1, <1>2, <1>3 DEF Prepared
  <2>2. QED
    BY <2>1 DEF WriteBatch, Merged, Without
<1>4. op'[q] = op[q]
  BY DEF WriteBatch, TypeOK
<1>5. PICK passed : Passed(q, main, passed, n) /\ Effect(q) = Prior(main, passed, n)
  BY DEF EffectInv, EffectOK
<1>6. main \in Group /\ main' \in Group /\ n \in 1..Len(Batch[q]) + 1
  BY DEF TypeOK
<1> HIDE DEF n
<1>7. PICK same : /\ Passed(q, main', same, n)
                  /\ Prior(main', same, n)
                       = [k \in Key |-> IF k \in KeysOf(q) THEN Prior(main, passed, n)[k] ELSE main'[k]]
  BY <1>3, <1>5, <1>6, SamePassed
<1>8. ASSUME NEW k \in Key
      PROVE  Effect(q)'[k] = IF k \in KeysOf(q) THEN Effect(q)[k] ELSE main'[k]
  <2>1. CASE k \in KeysOf(q)
    BY <1>3, <1>4, <2>1 DEF Effect, Merged, Without
  <2>2. CASE k \notin KeysOf(q)
    <3>1. op[q].toSave[k] = None /\ op[q].toRemove[k] = None
      BY <1>1, <2>2 DEF Prepared
    <3>2. QED
      BY <1>4, <2>2, <3>1 DEF Effect, Merged, Without
  <2>3. QED
    BY <2>1, <2>2
<1>9. Effect(q)' = Prior(main', same, n)
  <2>1. Effect(q)' = [k \in Key |-> Effect(q)'[k]]
    BY DEF Effect, Merged
  <2>2. QED
    BY <1>5, <1>7, <1>8, <2>1
<1>10. QED
  BY <1>4, <1>7, <1>9 DEF EffectOK, n

LEMMA EffectNext ==
  ASSUME TypeOK, TypeOK', LockInv, OpInv, EffectInv, [Next]_vars
  PROVE  EffectInv'
<1> SUFFICES ASSUME NEW q \in Proc, op'[q].phase \in {"reading", "counted"}
             PROVE  EffectOK(q)' /\ (op'[q].phase = "counted" => op'[q].next = Len(Batch[q]) + 1)
  BY DEF EffectInv
<1>1. ASSUME NEW p \in Proc, WriteBatch(p)
      PROVE  EffectOK(q)' /\ (op'[q].phase = "counted" => op'[q].next = Len(Batch[q]) + 1)
  <2>1. q # p /\ op'[q] = op[q]
    BY <1>1 DEF WriteBatch, TypeOK, OpState
  <2>2. EffectOK(q)'
    BY <1>1, <2>1, EffectStays
  <2>3. QED
    BY <2>1, <2>2 DEF EffectInv
<1>2. ASSUME \A p \in Proc : ~WriteBatch(p)
      PROVE  EffectOK(q)' /\ (op'[q].phase = "counted" => op'[q].next = Len(Batch[q]) + 1)
  <2>1. CASE op'[q] = op[q]
    <3>1. main' = main
      BY <1>2, StoreKept
    <3>2. QED
      BY <2>1, <3>1 DEF EffectInv, EffectOK, Effect, Merged, Without
  <2>2. CASE Enter(q) \/ GroupEntity(q) \/ CountChange(q)
    BY <2>2, EffectSteps
  <2>3. ASSUME Call(q) \/ WriteFails(q) \/ Release(q) \/ Crash
        PROVE  FALSE
    BY <2>3 DEF Call, WriteFails, Release, Crash, IdleOp, TypeOK, OpState
  <2>4. ASSUME NEW p \in Proc \ {q}, Call(p) \/ CallStep(p) \/ WriteFails(p)
        PROVE  op'[q] = op[q]
    BY <2>4 DEF Call, CallStep, Enter, GroupEntity, CountChange, WriteBatch, WriteFails,
       Release, TypeOK
  <2>5. CASE op' = op
    BY <2>1, <2>5
  <2>6. QED
    BY <1>2, <2>1, <2>2, <2>3, <2>4, <2>5 DEF vars, Next, CallStep, ReadStep, CountKeys,
       Acquire, GetAll, MapItem, Close
<1>3. QED
  BY <1>1, <1>2

(* A batch that is written is a call of AtomicStore; nothing else stores.   *)
LEMMA StepIsCall ==
  ASSUME TypeOK, TypeOK', EffectInv, [Next]_vars
  PROVE  [Atomic!StoreNext]_main
<1>1. ASSUME NEW p \in Proc, WriteBatch(p)
      PROVE  Atomic!StoreCall(p)
  <2> DEFINE n == Len(Batch[p])
  <2>1. op[p].next = n + 1 /\ main' = Effect(p)
    BY <1>1 DEF WriteBatch, EffectInv, Effect
  <2>2. PICK passed : Passed(p, main, passed, n + 1) /\ Effect(p) = Prior(main, passed, n + 1)
    BY <1>1, <2>1 DEF WriteBatch, EffectInv, EffectOK
  <2>3. n \in Nat /\ DOMAIN Batch[p] = 1..n /\ n + 1 - 1 = n
    BY BatchAssumption
  <2> HIDE DEF n
  <2>4. passed \in [DOMAIN Batch[p] -> Atomic!Group]
    BY <2>2, <2>3 DEF Passed, Group, Atomic!Group
  <2>5. \A i : Atomic!Before(passed, i) = Prior(main, passed, i)
    BY DEF Atomic!Before, Prior
  <2>6. \A i \in DOMAIN Batch[p] :
          passed[i] = Atomic!OneApplied(p, Atomic!Before(passed, i), Batch[p][i])
    BY <2>2, <2>3, <2>5 DEF Passed
  <2>7. main' = Atomic!Before(passed, n + 1)
    BY <2>1, <2>2, <2>5
  <2>8. QED
    BY <2>4, <2>6, <2>7 DEF Atomic!StoreCall, n
<1>2. ASSUME \A p \in Proc : ~WriteBatch(p)
      PROVE  main' = main
  BY <1>2, StoreKept
<1>3. QED
  BY <1>1, <1>2 DEF Atomic!StoreNext

(* ImplementsAtomicStore: though a call of save or remove reads its entities *)
(* and writes them in many steps, between which others come, what is stored *)
(* changes as if each call were one step: no update is lost.                *)
THEOREM StoreIsAtomic == Spec => ImplementsAtomicStore
<1>1. Init => EffectInv
  BY DEF Init, EffectInv, IdleOp
<1>2. TypeOK /\ TypeOK' /\ LockInv /\ OpInv /\ EffectInv /\ [Next]_vars => EffectInv'
  BY EffectNext
<1>3. IInv => TypeOK /\ LockInv /\ OpInv
  BY DEF IInv
<1>4. Spec => [](TypeOK /\ LockInv /\ OpInv)
  BY <1>3, Inductive, PTL
<1>5. Spec => []EffectInv
  BY <1>1, <1>2, <1>4, PTL DEF Spec
<1>6. Init => Atomic!StoreInit
  BY DEF Init, NoGroup, Atomic!StoreInit
<1>7. TypeOK /\ TypeOK' /\ EffectInv /\ [Next]_vars => [Atomic!StoreNext]_main
  BY StepIsCall
<1>8. Spec => Atomic!StoreSpec
  BY <1>4, <1>5, <1>6, <1>7, PTL DEF Spec, Atomic!StoreSpec
<1>9. QED
  BY <1>8 DEF ImplementsAtomicStore
=============================================================================
