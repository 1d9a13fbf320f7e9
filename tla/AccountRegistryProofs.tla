------------------------- MODULE AccountRegistryProofs -------------------------
(***************************************************************************)
(* For any accounts, workers, preferences and failures: two indexers of an  *)
(* account take a failure; and where announcements are prompt and all the   *)
(* fetchers are the process's own, what is registered is what is fetched.   *)
(***************************************************************************)
EXTENDS AccountRegistry, FiniteSetTheorems, WellFoundedInduction, TLAPS

(* The workers an account is sharded to when all are known.                 *)
HomeOf(a) == Shard(a, Indexer)
SourceOf(a) == Shard(a, Fetcher)

Call ==
  [account : Account, slot : 1..MaxCalls, at : Indexer, phase : IndexPhase \cup DeletePhase,
   peers : SUBSET Indexer]

(* TypeOK, but for the bound of live.                                       *)
RegistryType ==
  /\ StartupTypeOK
  /\ known \subseteq Account /\ awaited \subseteq Account
  /\ calls \subseteq Call
  /\ registry \in [Indexer -> SUBSET Account]
  /\ live \in [Indexer -> [Account -> Nat]]
  /\ works \in [Fetcher -> [Account -> SUBSET Indexer]]
  /\ faults \in 0..MaxFaults

(* A node knows none but those that announced themselves; what main and an  *)
(* indexer waited for they know.                                            *)
ViewInv ==
  /\ \A n \in Worker \cup {Main} : view[n] \subseteq Announced
  /\ \A i \in Indexer \cap Announced : view[i] \cap Fetcher # {}
  /\ main \in {"indexers", "running"} => LocalFetcher \subseteq view[Main]
  /\ main = "running" => Indexer \subseteq view[Main]
  /\ main # "running" => calls = {} /\ known = {} /\ awaited = {}

Deleting(a) == \E c \in CallsOn(a) : c.phase \in DeletePhase
Starting(a) == \E c \in CallsOn(a) : c.phase \in {"starting", "registered"}
Registered(a) == a \in registry[HomeOf(a)] /\ ~Deleting(a)
Indexings(a) == {c \in CallsOn(a) : c.phase = "indexing"}
Expected(a) == IF a \in known \cup awaited THEN 1 ELSE 0

(* All that is about an account is at its home; it is deleted by one call   *)
(* that is the only one about it, and once it is known.                     *)
CallInv(a) ==
  /\ \A c \in CallsOn(a) : c.at = HomeOf(a)
  /\ \A i \in Indexer : a \in registry[i] => i = HomeOf(a)
  /\ IsFiniteSet(CallsOn(a))
  /\ \A c \in CallsOn(a) : c.phase \in DeletePhase => a \in known /\ CallsOn(a) = {c}

(* Each call that may start an indexer takes a failure, but one while the   *)
(* account is known or awaited; what was started is there to be stopped.    *)
LiveInv(a) ==
  /\ \A i \in Indexer : live[i][a] + Cardinality(Indexings(a)) <= faults + Expected(a)
  /\ Registered(a) \/ Starting(a) => live[HomeOf(a)][a] >= 1

IInv == RegistryType /\ ViewInv /\ \A a \in Account : CallInv(a) /\ LiveInv(a)
-----------------------------------------------------------------------------
LEMMA HasLeast ==
  ASSUME NEW S \in SUBSET Nat, S # {}
  PROVE  \E x \in S : \A y \in S : x <= y
<1>1. \E x \in S : \A y \in S : ~(<<y, x>> \in OpToRel(<, Nat))
  BY NatLessThanWellFounded, WFMin
<1>2. \A x, y \in Nat : <<y, x>> \in OpToRel(<, Nat) <=> y < x
  BY DEF OpToRel
<1>3. PICK x \in S : \A y \in S : ~(y < x)
  BY <1>1, <1>2
<1>4. QED
  BY <1>3

(* A call goes to one of the nodes that the caller knows.                   *)
LEMMA ShardIs ==
  ASSUME NEW a \in Account, NEW nodes \in SUBSET (Fetcher \cup Indexer), nodes # {}
  PROVE  Shard(a, nodes) \in nodes
<1> DEFINE S == {k \in 1..Len(Prefers[a]) : Prefers[a][k] \in nodes}
<1>1. Prefers[a] \in Seq(Worker) /\ Len(Prefers[a]) \in Nat /\ DOMAIN Prefers[a] = 1..Len(Prefers[a])
  BY RegistryAssumption
<1>2. S # {} /\ S \in SUBSET Nat
  <2>1. PICK w \in nodes : TRUE
    OBVIOUS
  <2>2. \E k \in 1..Len(Prefers[a]) : Prefers[a][k] = w
    BY RegistryAssumption
  <2>3. QED
    BY <1>1, <2>2
<1>3. PICK k \in S : \A j \in S : k <= j
  BY <1>2, HasLeast
<1>4. /\ k \in DOMAIN Prefers[a]
      /\ Prefers[a][k] \in nodes
      /\ \A j \in 1..(k - 1) : Prefers[a][j] \notin nodes
  BY <1>1, <1>3
<1>5. QED
  BY <1>4 DEF Shard

LEMMA Homes ==
  ASSUME NEW a \in Account
  PROVE  HomeOf(a) \in Indexer /\ SourceOf(a) \in Fetcher
BY ShardIs, WorkersAssumption DEF HomeOf, SourceOf

LEMMA FreeSlot ==
  ASSUME NEW C, IsFiniteSet(C), Cardinality(C) < MaxCalls
  PROVE  \E n \in 1..MaxCalls : \A c \in C : c.slot # n
<1>1. MaxCalls \in Nat /\ Cardinality(C) \in Nat
  BY RegistryAssumption, FS_CardinalityType
<1>2. SUFFICES ASSUME \A n \in 1..MaxCalls : \E c \in C : c.slot = n
               PROVE  FALSE
  OBVIOUS
<1> DEFINE T == {c.slot : c \in C}
           f == [c \in C |-> c.slot]
<1>3. f \in Surjection(C, T)
  BY DEF Surjection
<1>4. IsFiniteSet(T) /\ Cardinality(T) <= Cardinality(C)
  <2> HIDE DEF T, f
  <2>1. QED
    BY <1>3, FS_Surjection
<1>5. 1..MaxCalls \in SUBSET T
  BY <1>2
<1>6. Cardinality(1..MaxCalls) <= Cardinality(T) /\ Cardinality(T) \in Nat
  BY <1>4, <1>5, FS_Subset, FS_CardinalityType
<1>7. Cardinality(1..MaxCalls) = MaxCalls
  BY <1>1, FS_Interval
<1>8. QED
  BY <1>1, <1>4, <1>6, <1>7
-----------------------------------------------------------------------------
(* While main runs, a new call on an account goes to its home.              *)
LEMMA NewCallIs ==
  ASSUME RegistryType, ViewInv, main = "running",
         NEW a \in Account, CallInv(a), Cardinality(CallsOn(a)) < MaxCalls,
         NEW phase \in IndexPhase \cup DeletePhase
  PROVE  LET c == NewCall(a, phase)
         IN  /\ c \in Call /\ c.account = a /\ c.at = HomeOf(a)
             /\ c.phase = phase /\ c.peers = {}
<1>1. view[Main] \cap Indexer = Indexer
  BY DEF ViewInv
<1>2. Shard(a, view[Main] \cap Indexer) = HomeOf(a) /\ HomeOf(a) \in Indexer
  BY <1>1, Homes DEF HomeOf
<1>3. \E n \in 1..MaxCalls : \A c \in CallsOn(a) : c.slot # n
  BY FreeSlot DEF CallInv
<1>4. (CHOOSE n \in 1..MaxCalls : \A c \in CallsOn(a) : c.slot # n) \in 1..MaxCalls
  BY <1>3
<1>5. QED
  BY <1>2, <1>4 DEF NewCall, Call

(* What Advance does to the calls on an account.                            *)
Advanced(c, phase, peers) == [c EXCEPT !.phase = phase, !.peers = peers]

CallsAdvance(c, phase, peers) ==
  LET a == c.account
      d == Advanced(c, phase, peers)
  IN  /\ c \in CallsOn(a) /\ a \in Account
      /\ d \in Call /\ d.account = a /\ d.at = c.at /\ d.phase = phase /\ d.peers = peers
      /\ calls' \subseteq Call
      /\ CallsOn(a)' = (CallsOn(a) \ {c}) \cup {d}
      /\ \A b : b # a => CallsOn(b)' = CallsOn(b)
      /\ IsFiniteSet(CallsOn(a)')
      /\ Indexings(a)' = Indexings(a) \ {c}

LEMMA AdvanceIs ==
  ASSUME calls \subseteq Call, NEW c \in calls, NEW phase \in IndexPhase \cup DeletePhase,
         phase # "indexing", NEW peers \in SUBSET Indexer, Advance(c, phase, peers),
         IsFiniteSet(CallsOn(c.account))
  PROVE  CallsAdvance(c, phase, peers)
<1> DEFINE a == c.account
           d == Advanced(c, phase, peers)
<1>1. c \in CallsOn(a) /\ a \in Account
  BY DEF CallsOn, Call
<1>2. d \in Call /\ d.account = a /\ d.at = c.at /\ d.phase = phase /\ d.peers = peers
  BY DEF Call, Advanced
<1>3. calls' = (calls \ {c}) \cup {d}
  BY DEF Advance, Advanced
<1> HIDE DEF d
<1>4. calls' \subseteq Call
  BY <1>2, <1>3
<1>5. CallsOn(a)' = (CallsOn(a) \ {c}) \cup {d}
  BY <1>2, <1>3 DEF CallsOn
<1>6. \A b : b # a => CallsOn(b)' = CallsOn(b)
  BY <1>2, <1>3 DEF CallsOn
<1>7. IsFiniteSet(CallsOn(a)')
  <2>1. IsFiniteSet(CallsOn(a) \ {c})
    BY FS_RemoveElement
  <2>2. QED
    BY <1>5, <2>1, FS_AddElement
<1>8. Indexings(a)' = Indexings(a) \ {c}
  BY <1>2, <1>5 DEF Indexings
<1>9. QED
  BY <1>1, <1>2, <1>4, <1>5, <1>6, <1>7, <1>8 DEF d, CallsAdvance

LEMMA EndIs ==
  ASSUME calls \subseteq Call, NEW c \in calls, calls' = calls \ {c},
         IsFiniteSet(CallsOn(c.account))
  PROVE  LET a == c.account
         IN  /\ c \in CallsOn(a) /\ a \in Account
             /\ CallsOn(a)' = CallsOn(a) \ {c}
             /\ \A b : b # a => CallsOn(b)' = CallsOn(b)
             /\ IsFiniteSet(CallsOn(a)')
             /\ Indexings(a)' = Indexings(a) \ {c}
<1> DEFINE a == c.account
<1>1. c \in CallsOn(a) /\ a \in Account
  BY DEF CallsOn, Call
<1>2. CallsOn(a)' = CallsOn(a) \ {c} /\ \A b : b # a => CallsOn(b)' = CallsOn(b)
  BY DEF CallsOn
<1>3. IsFiniteSet(CallsOn(a)')
  BY <1>2, FS_RemoveElement
<1>4. Indexings(a)' = Indexings(a) \ {c}
  BY <1>2 DEF Indexings
<1>5. QED
  BY <1>1, <1>2, <1>3, <1>4

(* The number of calls that may still start an indexer.                     *)
LEMMA IndexingsFinite ==
  ASSUME NEW a, IsFiniteSet(CallsOn(a))
  PROVE  IsFiniteSet(Indexings(a)) /\ Cardinality(Indexings(a)) \in Nat
<1>1. Indexings(a) \in SUBSET CallsOn(a)
  BY DEF Indexings
<1>2. QED
  BY <1>1, FS_Subset, FS_CardinalityType

(* Nothing about an account changes when the steps are on another one.      *)
Untouched(a) ==
  /\ CallsOn(a)' = CallsOn(a)
  /\ \A i \in Indexer : (a \in registry'[i] <=> a \in registry[i]) /\ live'[i][a] = live[i][a]
  /\ a \in known' <=> a \in known

LEMMA OthersKept ==
  ASSUME IInv, NEW a \in Account, Untouched(a), faults' \in 0..MaxFaults,
         \/ faults' = faults /\ (a \in awaited' <=> a \in awaited)
         \/ faults' = faults + 1
  PROVE  CallInv(a)' /\ LiveInv(a)'
<1>1. CallInv(a) /\ LiveInv(a) /\ HomeOf(a) \in Indexer /\ faults \in Nat
  BY Homes DEF IInv, RegistryType
<1>2. CallInv(a)'
  BY <1>1 DEF Untouched, CallInv
<1>3. Indexings(a)' = Indexings(a) /\ Starting(a)' = Starting(a) /\ Deleting(a)' = Deleting(a)
  BY DEF Untouched, Indexings, Starting, Deleting
<1>4. Cardinality(Indexings(a)) \in Nat /\ \A i \in Indexer : live[i][a] \in Nat
  BY <1>1, IndexingsFinite DEF IInv, RegistryType, CallInv
<1>5. faults' + Expected(a)' >= faults + Expected(a) /\ Expected(a)' \in Nat
      /\ Expected(a) \in Nat /\ faults' \in Nat
  BY <1>1 DEF Untouched, Expected
<1>6. LiveInv(a)'
  <2>1. ASSUME NEW i \in Indexer
        PROVE  live'[i][a] + Cardinality(Indexings(a)') <= faults' + Expected(a)'
    <3>1. live[i][a] + Cardinality(Indexings(a)) <= faults + Expected(a) /\ live'[i][a] = live[i][a]
      BY <1>1 DEF LiveInv, Untouched
    <3>2. QED
      BY <1>1, <1>3, <1>4, <1>5, <3>1
  <2>2. Registered(a)' \/ Starting(a)' => live'[HomeOf(a)][a] >= 1
    BY <1>1, <1>3 DEF LiveInv, Untouched, Registered
  <2>3. QED
    BY <2>1, <2>2 DEF LiveInv
<1>7. QED
  BY <1>2, <1>6
-----------------------------------------------------------------------------
LEMMA Starts ==
  ASSUME Init  PROVE IInv
<1>1. StartupTypeOK /\ \A n \in Worker \cup {Main} : view[n] = {}
  BY DEF Init, StartupInit, StartupTypeOK
<1>2. RegistryType
  <2>1. 0 \in 0..MaxFaults
    BY RegistryAssumption
  <2>2. QED
    BY <1>1, <2>1 DEF Init, RegistryType
<1>3. ViewInv
  <2>1. Announced = {}
    BY DEF Init, StartupInit, Announced
  <2>2. QED
    BY <1>1, <2>1 DEF Init, StartupInit, ViewInv
<1>4. ASSUME NEW a \in Account  PROVE CallInv(a) /\ LiveInv(a)
  <2>1. CallsOn(a) = {} /\ Indexings(a) = {} /\ HomeOf(a) \in Indexer
    BY Homes DEF Init, CallsOn, Indexings
  <2>2. CallInv(a)
    BY <2>1, FS_EmptySet DEF Init, CallInv
  <2>3. Cardinality(Indexings(a)) = 0
    BY <2>1, FS_EmptySet
  <2>4. LiveInv(a)
    BY <2>1, <2>3 DEF Init, LiveInv, Registered, Starting, Expected
  <2>5. QED
    BY <2>2, <2>4
<1>5. QED
  BY <1>2, <1>3, <1>4 DEF IInv

(* The start of the services: what is known only grows, and by those that   *)
(* announced themselves; main goes on when it knows who it waited for.      *)
LEMMA StartupKeeps ==
  ASSUME IInv, StartupNext, UNCHANGED registryVars
  PROVE  IInv'
<1>1. /\ StartupTypeOK /\ ViewInv
      /\ worker \in [Worker -> {"created", "connected", "announced", "ready"}]
      /\ view \in [Worker \cup {Main} -> SUBSET Worker]
  BY DEF IInv, RegistryType, StartupTypeOK
<1>2. ASSUME NEW a \in Account  PROVE CallInv(a)' /\ LiveInv(a)'
  <2>1. Untouched(a)
    BY DEF registryVars, Untouched, CallsOn
  <2>2. QED
    BY <2>1, OthersKept DEF registryVars, IInv, RegistryType
<1>3. ASSUME StartupTypeOK', ViewInv'  PROVE IInv'
  BY <1>2, <1>3 DEF IInv, RegistryType, registryVars
<1>4. ASSUME NEW w \in Worker, Connect(w) \/ FinishWorker(w)  PROVE StartupTypeOK' /\ ViewInv'
  <2>1. PICK s \in {"connected", "ready"} :
          /\ worker' = [worker EXCEPT ![w] = s] /\ view' = view /\ main' = main
          /\ s = "ready" <=> worker[w] = "announced"
          /\ worker[w] \in {"created", "announced"}
    BY <1>4 DEF Connect, FinishWorker
  <2>2. Announced' = Announced
    BY <1>1, <2>1 DEF Announced
  <2>3. QED
    BY <1>1, <2>1, <2>2 DEF StartupTypeOK, ViewInv, registryVars
<1>5. ASSUME NEW w \in Worker, StartService(w)  PROVE StartupTypeOK' /\ ViewInv'
  <2>1. worker' = [worker EXCEPT ![w] = "announced"] /\ view' = view /\ main' = main
    BY <1>5 DEF StartService
  <2>2. Announced' = Announced \cup {w}
    BY <1>1, <2>1, <1>5 DEF Announced
  <2>3. w \in Indexer => view[w] \cap Fetcher # {}
    BY <1>5 DEF StartService
  <2>4. QED
    BY <1>1, <2>1, <2>2, <2>3 DEF StartupTypeOK, ViewInv, registryVars
<1>6. ASSUME NEW n \in Worker \cup {Main}, NEW w \in Worker, Learn(n, w)
      PROVE  StartupTypeOK' /\ ViewInv'
  <2>1. /\ w \in Announced /\ view' = [view EXCEPT ![n] = view[n] \cup {w}]
        /\ worker' = worker /\ main' = main
    BY <1>6 DEF Learn
  <2>2. Announced' = Announced
    BY <2>1 DEF Announced
  <2>3. \A m \in Worker \cup {Main} : /\ view'[m] \subseteq Announced
                                      /\ view[m] \subseteq view'[m]
    BY <1>1, <2>1 DEF ViewInv
  <2>4. StartupTypeOK'
    BY <1>1, <2>1 DEF StartupTypeOK
  <2>5. Indexer \subseteq Worker
    BY DEF Worker
  <2>6. \A i \in Indexer \cap Announced : view'[i] \cap Fetcher # {}
    BY <1>1, <2>3, <2>5 DEF ViewInv
  <2>7. QED
    BY <1>1, <2>1, <2>2, <2>3, <2>4, <2>6 DEF ViewInv, registryVars
<1>7. ASSUME MainStep  PROVE StartupTypeOK' /\ ViewInv'
  <2>1. worker' = worker /\ view' = view /\ Announced' = Announced
    BY <1>7 DEF MainStep, Announced
  <2>2. \/ main = "fetchers" /\ LocalFetcher \subseteq view[Main] /\ main' = "indexers"
        \/ main = "indexers" /\ Indexer \subseteq view[Main] /\ main' = "running"
    BY <1>7 DEF MainStep
  <2>3. QED
    BY <1>1, <2>1, <2>2 DEF StartupTypeOK, ViewInv, registryVars
<1>8. QED
  BY <1>3, <1>4, <1>5, <1>6, <1>7 DEF StartupNext
-----------------------------------------------------------------------------
(* A step on a call, or a new call, leaves the workers and main alone; what *)
(* has to be shown is the types, and what is about the call's account.      *)
LEMMA CallKeeps ==
  ASSUME IInv, main = "running", UNCHANGED startupVars, RegistryType',
         \A b \in Account : CallInv(b)' /\ LiveInv(b)'
  PROVE  IInv'
<1>1. ViewInv /\ UNCHANGED <<worker, view, main>>
  BY DEF IInv, startupVars
<1>2. Announced' = Announced
  BY <1>1 DEF Announced
<1>3. ViewInv'
  BY <1>1, <1>2 DEF ViewInv
<1>4. QED
  BY <1>3 DEF IInv

LEMMA Running ==
  ASSUME IInv, calls # {}
  PROVE  main = "running"
BY DEF IInv, ViewInv
-----------------------------------------------------------------------------
(* A call goes on: only what is about its account changes.                  *)
OnlyOf(a) ==
  \A b \in Account : b # a =>
    \A i \in Indexer : (b \in registry'[i] <=> b \in registry[i]) /\ live'[i][b] = live[i][b]

LEMMA AdvanceKeeps ==
  ASSUME IInv, NEW c \in calls, NEW phase \in IndexPhase \cup DeletePhase, phase # "indexing",
         NEW peers \in SUBSET Indexer, Advance(c, phase, peers),
         UNCHANGED <<startupVars, known, awaited, faults>>,
         registry' \in [Indexer -> SUBSET Account],
         live' \in [Indexer -> [Account -> Nat]],
         works' \in [Fetcher -> [Account -> SUBSET Indexer]],
         OnlyOf(c.account),
         c.phase \in DeletePhase <=> phase \in DeletePhase,
         \A i \in Indexer : c.account \in registry'[i] => i = HomeOf(c.account),
         \A i \in Indexer : live'[i][c.account]
           <= live[i][c.account] + (IF c.phase = "indexing" THEN 1 ELSE 0),
         phase \in DeletePhase \/ live'[HomeOf(c.account)][c.account] >= 1
  PROVE  IInv'
<1> DEFINE a == c.account
           d == Advanced(c, phase, peers)
<1>1. /\ RegistryType /\ calls \subseteq Call /\ main = "running" /\ faults \in Nat
      /\ \A b \in Account : CallInv(b) /\ LiveInv(b)
  BY Running DEF IInv, RegistryType
<1>2. a \in Account
  BY <1>1 DEF Call
<1>3. CallInv(a) /\ LiveInv(a) /\ IsFiniteSet(CallsOn(a)) /\ HomeOf(a) \in Indexer
  BY <1>1, <1>2, Homes DEF CallInv
<1>4. /\ c \in CallsOn(a)
      /\ d \in Call /\ d.account = a /\ d.at = c.at /\ d.phase = phase /\ d.peers = peers
      /\ calls' \subseteq Call
      /\ CallsOn(a)' = (CallsOn(a) \ {c}) \cup {d}
      /\ \A b : b # a => CallsOn(b)' = CallsOn(b)
      /\ IsFiniteSet(CallsOn(a)')
      /\ Indexings(a)' = Indexings(a) \ {c}
  <2>1. IsFiniteSet(CallsOn(c.account))
    BY <1>3
  <2>2. CallsAdvance(c, phase, peers)
    BY <1>1, <2>1, AdvanceIs
  <2>3. QED
    BY <2>2 DEF CallsAdvance
<1> HIDE DEF d
<1>5. RegistryType'
  BY <1>1, <1>4 DEF RegistryType, startupVars, StartupTypeOK
<1>6. ASSUME NEW b \in Account, b # a  PROVE CallInv(b)' /\ LiveInv(b)'
  <2>1. Untouched(b)
    BY <1>4, <1>6 DEF Untouched, OnlyOf
  <2>2. QED
    BY <1>5, <2>1, OthersKept DEF RegistryType
<1>7. CallInv(a)'
  <2>1. \A x \in CallsOn(a)' : x.at = HomeOf(a)
    BY <1>3, <1>4 DEF CallInv
  <2>2. ASSUME NEW x \in CallsOn(a)', x.phase \in DeletePhase
        PROVE  a \in known' /\ CallsOn(a)' = {x}
    <3>1. CASE x = d
      BY <1>3, <1>4, <3>1, <2>2 DEF CallInv
    <3>2. CASE x # d
      BY <1>3, <1>4, <3>2, <2>2 DEF CallInv
    <3>3. QED
      BY <3>1, <3>2
  <2>3. QED
    BY <1>4, <2>1, <2>2 DEF CallInv
<1>8. LiveInv(a)'
  <2>1. Cardinality(Indexings(a)) \in Nat /\ Cardinality(Indexings(a)') \in Nat
        /\ Cardinality(Indexings(a)')
             = Cardinality(Indexings(a)) - (IF c.phase = "indexing" THEN 1 ELSE 0)
    <3>1. IsFiniteSet(Indexings(a)) /\ Cardinality(Indexings(a)) \in Nat
      BY <1>3, IndexingsFinite
    <3>2. IsFiniteSet(Indexings(a)') /\ Cardinality(Indexings(a)') \in Nat
      <4>1. IsFiniteSet(Indexings(a) \ {c})
        BY <3>1, FS_RemoveElement
      <4>2. QED
        BY <1>4, <4>1, FS_CardinalityType
    <3>3. c \in Indexings(a) <=> c.phase = "indexing"
      BY <1>4 DEF Indexings
    <3>4. Cardinality(Indexings(a) \ {c})
            = IF c \in Indexings(a) THEN Cardinality(Indexings(a)) - 1 ELSE Cardinality(Indexings(a))
      BY <3>1, FS_RemoveElement
    <3>5. QED
      BY <1>4, <3>1, <3>2, <3>3, <3>4
  <2>2. ASSUME NEW i \in Indexer
        PROVE  live'[i][a] + Cardinality(Indexings(a)') <= faults' + Expected(a)'
    <3>1. live[i][a] + Cardinality(Indexings(a)) <= faults + Expected(a)
      BY <1>3 DEF LiveInv
    <3>2. Expected(a)' = Expected(a) /\ faults' = faults /\ Expected(a) \in Nat
      BY DEF Expected
    <3>3. live'[i][a] \in Nat /\ live[i][a] \in Nat
      BY <1>1, <1>2 DEF RegistryType
    <3>4. QED
      BY <1>1, <2>1, <3>1, <3>2, <3>3
  <2>3. Registered(a)' \/ Starting(a)' => live'[HomeOf(a)][a] >= 1
    <3>1. CASE phase \in DeletePhase
      <4>1. CallsOn(a)' = {d}
        BY <1>3, <1>4, <3>1 DEF CallInv
      <4>2. Deleting(a)' /\ ~Starting(a)'
        BY <1>4, <3>1, <4>1 DEF Deleting, Starting, DeletePhase
      <4>3. QED
        BY <4>2 DEF Registered
    <3>2. CASE phase \notin DeletePhase
      BY <3>2
    <3>3. QED
      BY <3>1, <3>2
  <2>4. QED
    BY <2>2, <2>3 DEF LiveInv
<1>9. QED
  BY <1>1, <1>5, <1>6, <1>7, <1>8, CallKeeps

(* indexAccount at the indexer, up to its answer.                           *)
LEMMA IndexKeeps ==
  ASSUME IInv, NEW c \in calls, AddAccount(c) \/ Register(c) \/ Keep(c)
  PROVE  IInv'
<1> DEFINE a == c.account
<1>1. /\ RegistryType /\ ViewInv /\ c \in Call /\ a \in Account
      /\ registry \in [Indexer -> SUBSET Account]
      /\ live \in [Indexer -> [Account -> Nat]]
      /\ works \in [Fetcher -> [Account -> SUBSET Indexer]]
  BY DEF IInv, RegistryType, Call
<1>2. CallInv(a) /\ LiveInv(a) /\ c \in CallsOn(a) /\ HomeOf(a) \in Indexer
  BY <1>1, Homes DEF IInv, CallsOn
<1>3. c.at = HomeOf(a) /\ c.at \in Indexer
  BY <1>2 DEF CallInv
<1>4. CASE AddAccount(c) /\ a \in registry[c.at]
  <2>1. /\ c.phase = "indexing" /\ Advance(c, "answered", {}) /\ live' = live
        /\ UNCHANGED <<startupVars, known, awaited, registry, works, faults>>
    BY <1>4 DEF AddAccount
  <2>2. Registered(a)
    BY <1>2, <1>3, <1>4, <2>1 DEF Registered, Deleting, CallInv, DeletePhase
  <2>3. live[HomeOf(a)][a] >= 1
    BY <1>2, <2>2 DEF LiveInv
  <2>4. OnlyOf(a) /\ \A i \in Indexer : a \in registry'[i] => i = HomeOf(a)
    BY <1>2, <2>1 DEF OnlyOf, CallInv
  <2>5. \A i \in Indexer : live'[i][a] <= live[i][a] + (IF c.phase = "indexing" THEN 1 ELSE 0)
    BY <1>1, <2>1
  <2>6. "answered" \in IndexPhase \cup DeletePhase /\ "answered" \notin DeletePhase
        /\ c.phase \notin DeletePhase
    BY <2>1 DEF IndexPhase, DeletePhase
  <2>7. QED
    BY <1>1, <2>1, <2>3, <2>4, <2>5, <2>6, AdvanceKeeps
<1>5. CASE AddAccount(c) /\ a \notin registry[c.at]
  <2>1. /\ c.phase = "indexing" /\ Advance(c, "starting", {})
        /\ live' = [live EXCEPT ![c.at][a] = @ + 1]
        /\ UNCHANGED <<startupVars, known, awaited, registry, works, faults>>
    BY <1>5 DEF AddAccount
  <2>2. /\ live' \in [Indexer -> [Account -> Nat]]
        /\ live'[HomeOf(a)][a] >= 1
        /\ \A i \in Indexer : live'[i][a] <= live[i][a] + (IF c.phase = "indexing" THEN 1 ELSE 0)
        /\ \A b \in Account : b # a => \A i \in Indexer : live'[i][b] = live[i][b]
    BY <1>1, <1>3, <2>1
  <2>3. OnlyOf(a) /\ \A i \in Indexer : a \in registry'[i] => i = HomeOf(a)
    BY <1>2, <2>1, <2>2 DEF OnlyOf, CallInv
  <2>4. "starting" \in IndexPhase \cup DeletePhase /\ "starting" \notin DeletePhase
        /\ c.phase \notin DeletePhase
    BY <2>1 DEF IndexPhase, DeletePhase
  <2>5. /\ registry' \in [Indexer -> SUBSET Account]
        /\ works' \in [Fetcher -> [Account -> SUBSET Indexer]]
        /\ UNCHANGED <<startupVars, known, awaited, faults>>
        /\ "starting" # "indexing" /\ {} \in SUBSET Indexer
    BY <1>1, <2>1
  <2>6. QED
    BY <2>1, <2>2, <2>3, <2>4, <2>5, AdvanceKeeps
<1>6. CASE Register(c)
  <2> DEFINE f == Shard(a, view[c.at] \cap Fetcher)
  <2>1. /\ c.phase = "starting" /\ Advance(c, "registered", {})
        /\ works' = [works EXCEPT ![f][a] = @ \cup {c.at}]
        /\ UNCHANGED <<startupVars, known, awaited, registry, live, faults>>
    BY <1>6 DEF Register
  <2> HIDE DEF f
  <2>2. works' \in [Fetcher -> [Account -> SUBSET Indexer]]
    BY <1>1, <1>3, <2>1
  <2>3. Starting(a)
    BY <1>2, <2>1 DEF Starting
  <2>4. live[HomeOf(a)][a] >= 1
    BY <1>2, <2>3 DEF LiveInv
  <2>5. OnlyOf(a) /\ \A i \in Indexer : a \in registry'[i] => i = HomeOf(a)
    BY <1>2, <2>1 DEF OnlyOf, CallInv
  <2>6. \A i \in Indexer : live'[i][a] <= live[i][a] + (IF c.phase = "indexing" THEN 1 ELSE 0)
    BY <1>1, <2>1
  <2>7. "registered" \in IndexPhase \cup DeletePhase /\ "registered" \notin DeletePhase
        /\ c.phase \notin DeletePhase
    BY <2>1 DEF IndexPhase, DeletePhase
  <2>8. /\ registry' \in [Indexer -> SUBSET Account]
        /\ live' \in [Indexer -> [Account -> Nat]]
        /\ UNCHANGED <<startupVars, known, awaited, faults>>
        /\ "registered" # "indexing" /\ {} \in SUBSET Indexer
    BY <1>1, <2>1
  <2>9. QED
    BY <2>1, <2>2, <2>4, <2>5, <2>6, <2>7, <2>8, AdvanceKeeps
<1>7. CASE Keep(c)
  <2>1. /\ c.phase = "registered" /\ Advance(c, "answered", {})
        /\ registry' = [registry EXCEPT ![c.at] = @ \cup {a}]
        /\ UNCHANGED <<startupVars, known, awaited, live, works, faults>>
    BY <1>7 DEF Keep
  <2>2. Starting(a)
    BY <1>2, <2>1 DEF Starting
  <2>3. live[HomeOf(a)][a] >= 1
    BY <1>2, <2>2 DEF LiveInv
  <2>4. /\ registry' \in [Indexer -> SUBSET Account]
        /\ \A i \in Indexer : a \in registry'[i] => i = HomeOf(a)
        /\ \A b \in Account : b # a => \A i \in Indexer : b \in registry'[i] <=> b \in registry[i]
    BY <1>1, <1>2, <1>3, <2>1 DEF CallInv
  <2>5. OnlyOf(a)
    BY <2>1, <2>4 DEF OnlyOf
  <2>6. \A i \in Indexer : live'[i][a] <= live[i][a] + (IF c.phase = "indexing" THEN 1 ELSE 0)
    BY <1>1, <2>1
  <2>7. "answered" \in IndexPhase \cup DeletePhase /\ "answered" \notin DeletePhase
        /\ c.phase \notin DeletePhase
    BY <2>1 DEF IndexPhase, DeletePhase
  <2>8. QED
    BY <1>1, <2>1, <2>3, <2>4, <2>5, <2>6, <2>7, AdvanceKeeps
<1>8. QED
  BY <1>4, <1>5, <1>6, <1>7 DEF AddAccount
-----------------------------------------------------------------------------
(* A call ends: nothing is started, and what is expected of its account is  *)
(* expected still, or there was a failure.                                  *)
LEMMA EndKeeps ==
  ASSUME IInv, NEW c \in calls, calls' = calls \ {c},
         UNCHANGED <<startupVars, live, works>>,
         registry' \in [Indexer -> SUBSET Account],
         known' \subseteq Account, awaited' \subseteq Account, faults' \in 0..MaxFaults,
         OnlyOf(c.account),
         \A b \in Account : b # c.account => (b \in known' <=> b \in known),
         c.account \in known => c.account \in known',
         \A i \in Indexer : c.account \in registry'[i] => c.account \in registry[i],
         c.phase \in DeletePhase => \A i \in Indexer : c.account \notin registry'[i],
         \/ /\ faults' = faults
            /\ \A b \in Account : b # c.account => (b \in awaited' <=> b \in awaited)
            /\ c.account \in known \cup awaited => c.account \in known' \cup awaited'
         \/ faults' = faults + 1
  PROVE  IInv'
<1> DEFINE a == c.account
<1>1. /\ RegistryType /\ calls \subseteq Call /\ main = "running" /\ faults \in Nat
      /\ \A b \in Account : CallInv(b) /\ LiveInv(b)
  BY Running DEF IInv, RegistryType
<1>2. a \in Account
  BY <1>1 DEF Call
<1>3. CallInv(a) /\ LiveInv(a) /\ IsFiniteSet(CallsOn(a)) /\ HomeOf(a) \in Indexer
  BY <1>1, <1>2, Homes DEF CallInv
<1>4. /\ c \in CallsOn(a)
      /\ CallsOn(a)' = CallsOn(a) \ {c}
      /\ \A b : b # a => CallsOn(b)' = CallsOn(b)
      /\ IsFiniteSet(CallsOn(a)')
      /\ Indexings(a)' = Indexings(a) \ {c}
  BY <1>1, <1>3, EndIs
<1>5. RegistryType'
  BY <1>1 DEF RegistryType, startupVars, StartupTypeOK
<1>6. ASSUME NEW b \in Account, b # a  PROVE CallInv(b)' /\ LiveInv(b)'
  <2>1. Untouched(b)
    BY <1>4, <1>6 DEF Untouched, OnlyOf
  <2>2. \/ faults' = faults /\ (b \in awaited' <=> b \in awaited)
        \/ faults' = faults + 1
    BY <1>6
  <2>3. QED
    BY <2>1, <2>2, OthersKept
<1>7. CallInv(a)'
  <2>1. \A x \in CallsOn(a)' : x.at = HomeOf(a)
    BY <1>3, <1>4 DEF CallInv
  <2>2. \A i \in Indexer : a \in registry'[i] => i = HomeOf(a)
    BY <1>3 DEF CallInv
  <2>3. \A x \in CallsOn(a)' : x.phase \in DeletePhase => a \in known' /\ CallsOn(a)' = {x}
    BY <1>3, <1>4 DEF CallInv
  <2>4. QED
    BY <1>4, <2>1, <2>2, <2>3 DEF CallInv
<1>8. LiveInv(a)'
  <2>1. Cardinality(Indexings(a)) \in Nat /\ Cardinality(Indexings(a)') \in Nat
        /\ Cardinality(Indexings(a)') <= Cardinality(Indexings(a))
    <3>1. IsFiniteSet(Indexings(a)) /\ Cardinality(Indexings(a)) \in Nat
      BY <1>3, IndexingsFinite
    <3>2. Indexings(a)' \in SUBSET Indexings(a)
      BY <1>4
    <3>3. IsFiniteSet(Indexings(a)') /\ Cardinality(Indexings(a)') <= Cardinality(Indexings(a))
      BY <3>1, <3>2, FS_Subset
    <3>4. QED
      BY <3>1, <3>3, FS_CardinalityType
  <2>2. ASSUME NEW i \in Indexer
        PROVE  live'[i][a] + Cardinality(Indexings(a)') <= faults' + Expected(a)'
    <3>1. live[i][a] + Cardinality(Indexings(a)) <= faults + Expected(a)
      BY <1>3 DEF LiveInv
    <3>2. /\ faults + Expected(a) <= faults' + Expected(a)'
          /\ Expected(a) \in Nat /\ Expected(a)' \in Nat /\ faults' \in Nat
      <4>1. Expected(a) \in 0..1 /\ Expected(a)' \in 0..1 /\ faults' \in Nat
        BY RegistryAssumption DEF Expected
      <4>2. CASE faults' = faults + 1
        BY <1>1, <4>1, <4>2
      <4>3. CASE faults' = faults /\ (a \in known \cup awaited => a \in known' \cup awaited')
        <5>1. Expected(a) <= Expected(a)'
          BY <4>3 DEF Expected
        <5>2. QED
          BY <1>1, <4>1, <4>3, <5>1
      <4>4. QED
        BY <4>1, <4>2, <4>3
    <3>3. live'[i][a] = live[i][a] /\ live[i][a] \in Nat
      BY <1>1, <1>2 DEF RegistryType
    <3>4. QED
      BY <1>1, <2>1, <3>1, <3>2, <3>3
  <2>3. Registered(a)' \/ Starting(a)' => Registered(a) \/ Starting(a)
    <3>1. Starting(a)' => Starting(a)
      BY <1>4 DEF Starting
    <3>2. ASSUME Registered(a)'  PROVE Registered(a)
      <4>1. a \in registry[HomeOf(a)] /\ c.phase \notin DeletePhase
        BY <1>3, <3>2 DEF Registered
      <4>2. ~Deleting(a)
        BY <1>3, <1>4, <4>1 DEF CallInv, Deleting
      <4>3. QED
        BY <4>1, <4>2 DEF Registered
    <3>3. QED
      BY <3>1, <3>2
  <2>4. QED
    BY <1>3, <2>2, <2>3 DEF LiveInv
<1>9. QED
  BY <1>1, <1>5, <1>6, <1>7, <1>8, CallKeeps

LEMMA EndsKeep ==
  ASSUME IInv, NEW c \in calls, Answered(c) \/ CallFails(c) \/ Drop(c)
  PROVE  IInv'
<1> DEFINE a == c.account
<1>1. /\ RegistryType /\ c \in Call /\ a \in Account /\ faults \in 0..MaxFaults
      /\ registry \in [Indexer -> SUBSET Account] /\ MaxFaults \in Nat
      /\ known \subseteq Account /\ awaited \subseteq Account
  BY RegistryAssumption DEF IInv, RegistryType, Call
<1>2. CallInv(a) /\ c \in CallsOn(a) /\ HomeOf(a) \in Indexer
  BY <1>1, Homes DEF IInv, CallsOn
<1>3. c.at = HomeOf(a)
  BY <1>2 DEF CallInv
<1>4. CASE Answered(c)
  <2>1. /\ c.phase = "answered" /\ known' = known \cup {a} /\ awaited' = awaited \ {a}
        /\ calls' = calls \ {c} /\ UNCHANGED <<startupVars, registry, live, works, faults>>
    BY <1>4 DEF Answered
  <2>2. c.phase \notin DeletePhase
    BY <2>1 DEF DeletePhase
  <2>3. OnlyOf(a)
    BY <2>1 DEF OnlyOf
  <2>4. QED
    BY <1>1, <2>1, <2>2, <2>3, EndKeeps
<1>5. CASE CallFails(c)
  <2>1. /\ c.phase \in {"indexing", "starting"} /\ faults < MaxFaults /\ faults' = faults + 1
        /\ awaited' = {} /\ calls' = calls \ {c}
        /\ UNCHANGED <<startupVars, known, registry, live, works>>
    BY <1>5 DEF CallFails
  <2>2. c.phase \notin DeletePhase /\ faults' \in 0..MaxFaults
    BY <1>1, <2>1 DEF DeletePhase
  <2>3. OnlyOf(a)
    BY <2>1 DEF OnlyOf
  <2>4. QED
    BY <1>1, <2>1, <2>2, <2>3, EndKeeps
<1>6. CASE Drop(c)
  <2>1. /\ c.phase = "removed" /\ registry' = [registry EXCEPT ![c.at] = @ \ {a}]
        /\ calls' = calls \ {c}
        /\ UNCHANGED <<startupVars, known, awaited, live, works, faults>>
    BY <1>6 DEF Drop
  <2>2. /\ registry' \in [Indexer -> SUBSET Account]
        /\ \A i \in Indexer : a \notin registry'[i]
        /\ \A b \in Account : b # a => \A i \in Indexer : b \in registry'[i] <=> b \in registry[i]
    BY <1>1, <1>2, <1>3, <2>1 DEF CallInv
  <2>3. OnlyOf(a)
    BY <2>1, <2>2 DEF OnlyOf
  <2>4. QED
    BY <1>1, <2>1, <2>2, <2>3, EndKeeps
<1>7. QED
  BY <1>4, <1>5, <1>6

(* An indexer that has calls knows a fetcher to ask.                        *)
LEMMA KnowsFetcher ==
  ASSUME IInv, main = "running", NEW i \in Indexer, NEW a \in Account
  PROVE  Shard(a, view[i] \cap Fetcher) \in Fetcher
<1>1. i \in Announced
  BY DEF IInv, ViewInv
<1>2. view[i] \cap Fetcher # {}
  BY <1>1 DEF IInv, ViewInv
<1>3. QED
  BY <1>2, ShardIs

LEMMA DeleteKeeps ==
  ASSUME IInv, NEW c \in calls, ReadWork(c) \/ WriteWork(c)
  PROVE  IInv'
<1> DEFINE a == c.account
           f == Shard(c.account, view[c.at] \cap Fetcher)
<1>1. /\ RegistryType /\ ViewInv /\ c \in Call /\ a \in Account /\ c.at \in Indexer
      /\ c.peers \in SUBSET Indexer
      /\ registry \in [Indexer -> SUBSET Account]
      /\ live \in [Indexer -> [Account -> Nat]]
      /\ works \in [Fetcher -> [Account -> SUBSET Indexer]]
  BY DEF IInv, RegistryType, Call
<1>2. f \in Fetcher
  BY <1>1, Running, KnowsFetcher
<1>3. CallInv(a) /\ \A i \in Indexer : a \in registry[i] => i = HomeOf(a)
  BY <1>1 DEF IInv, CallInv
<1> HIDE DEF f
<1>4. ASSUME UNCHANGED <<registry, live>>
      PROVE  /\ OnlyOf(a)
             /\ registry' \in [Indexer -> SUBSET Account]
             /\ live' \in [Indexer -> [Account -> Nat]]
             /\ \A i \in Indexer : a \in registry'[i] => i = HomeOf(a)
             /\ \A i \in Indexer : live'[i][a]
                  <= live[i][a] + (IF c.phase = "indexing" THEN 1 ELSE 0)
  BY <1>1, <1>3, <1>4 DEF OnlyOf
<1>5. CASE ReadWork(c)
  <2>1. /\ c.phase = "deleting" /\ Advance(c, "read", works[f][a] \ {c.at})
        /\ UNCHANGED <<startupVars, known, awaited, registry, live, works, faults>>
    BY <1>5 DEF ReadWork, f
  <2>2. works[f][a] \ {c.at} \in SUBSET Indexer /\ works' \in [Fetcher -> [Account -> SUBSET Indexer]]
    BY <1>1, <1>2, <2>1
  <2>3. /\ "read" \in IndexPhase \cup DeletePhase /\ "read" \in DeletePhase
        /\ c.phase \in DeletePhase /\ "read" # "indexing"
    BY <2>1 DEF IndexPhase, DeletePhase
  <2>4. QED
    BY <1>4, <2>1, <2>2, <2>3, AdvanceKeeps
<1>6. CASE WriteWork(c)
  <2>1. /\ c.phase = "read" /\ Advance(c, "removed", {})
        /\ works' = [works EXCEPT ![f][a] = IF c.peers = {} THEN {} ELSE @ \cup c.peers]
        /\ UNCHANGED <<startupVars, known, awaited, registry, live, faults>>
    BY <1>6 DEF WriteWork, f
  <2>2. works' \in [Fetcher -> [Account -> SUBSET Indexer]] /\ {} \in SUBSET Indexer
    BY <1>1, <1>2, <2>1
  <2>3. /\ "removed" \in IndexPhase \cup DeletePhase /\ "removed" \in DeletePhase
        /\ c.phase \in DeletePhase /\ "removed" # "indexing"
    BY <2>1 DEF IndexPhase, DeletePhase
  <2>4. QED
    BY <1>4, <2>1, <2>2, <2>3, AdvanceKeeps
<1>7. QED
  BY <1>5, <1>6
-----------------------------------------------------------------------------
(* Each account that is indexed was not expected before, and is now.        *)
LEMMA DiscoverKeeps ==
  ASSUME IInv, NEW found \in SUBSET Account, Discover(found)
  PROVE  IInv'
<1> DEFINE new == found \ known
           call(a) == NewCall(a, "indexing")
<1>1. /\ RegistryType /\ ViewInv /\ calls \subseteq Call /\ faults \in Nat
      /\ \A a \in Account : CallInv(a) /\ LiveInv(a)
  BY DEF IInv, RegistryType
<1>2. /\ main = "running" /\ awaited = {} /\ awaited' = new
      /\ \A a \in new : Cardinality(CallsOn(a)) < MaxCalls
      /\ calls' = calls \cup {call(a) : a \in new}
      /\ UNCHANGED <<startupVars, known, registry, live, works, faults>>
  BY DEF Discover
<1>3. ASSUME NEW a \in new
      PROVE  /\ call(a) \in Call /\ call(a).account = a /\ call(a).at = HomeOf(a)
             /\ call(a).phase = "indexing"
  <2>1. "indexing" \in IndexPhase \cup DeletePhase
    BY DEF IndexPhase
  <2>2. CallInv(a) /\ Cardinality(CallsOn(a)) < MaxCalls /\ a \in Account
    BY <1>1, <1>2
  <2>3. QED
    BY <1>1, <1>2, <2>1, <2>2, NewCallIs
<1> HIDE DEF call
<1>4. RegistryType'
  BY <1>1, <1>2, <1>3 DEF RegistryType, startupVars, StartupTypeOK
<1>5. ASSUME NEW a \in Account, a \notin new  PROVE CallInv(a)' /\ LiveInv(a)'
  <2>1. CallsOn(a)' = CallsOn(a)
    BY <1>2, <1>3, <1>5 DEF CallsOn
  <2>2. Untouched(a) /\ (a \in awaited' <=> a \in awaited)
    BY <1>2, <1>5, <2>1 DEF Untouched
  <2>3. QED
    BY <1>1, <1>2, <2>2, OthersKept DEF RegistryType
<1>6. ASSUME NEW a \in Account, a \in new  PROVE CallInv(a)' /\ LiveInv(a)'
  <2>1. CallsOn(a)' = CallsOn(a) \cup {call(a)}
    BY <1>2, <1>3, <1>6 DEF CallsOn
  <2>2. /\ call(a).at = HomeOf(a) /\ call(a).phase = "indexing"
        /\ CallInv(a) /\ LiveInv(a) /\ a \notin known /\ a \notin awaited /\ a \in awaited'
    BY <1>1, <1>2, <1>3, <1>6
  <2>3. IsFiniteSet(CallsOn(a)) /\ IsFiniteSet(CallsOn(a)')
    BY <2>1, <2>2, FS_AddElement DEF CallInv
  <2>4. CallInv(a)'
    BY <1>2, <2>1, <2>2, <2>3 DEF CallInv, DeletePhase
  <2>5. Indexings(a)' = Indexings(a) \cup {call(a)}
    BY <2>1, <2>2 DEF Indexings
  <2>6. /\ Cardinality(Indexings(a)) \in Nat /\ Cardinality(Indexings(a)') \in Nat
        /\ Cardinality(Indexings(a)') <= Cardinality(Indexings(a)) + 1
    <3>1. IsFiniteSet(Indexings(a)) /\ Cardinality(Indexings(a)) \in Nat
      BY <2>3, IndexingsFinite
    <3>2. /\ IsFiniteSet(Indexings(a) \cup {call(a)})
          /\ Cardinality(Indexings(a) \cup {call(a)})
               = IF call(a) \in Indexings(a) THEN Cardinality(Indexings(a))
                                             ELSE Cardinality(Indexings(a)) + 1
      BY <3>1, FS_AddElement
    <3>3. QED
      BY <2>5, <3>1, <3>2
  <2>7. Expected(a) = 0 /\ Expected(a)' = 1
    BY <2>2 DEF Expected
  <2>8. ASSUME NEW i \in Indexer
        PROVE  live'[i][a] + Cardinality(Indexings(a)') <= faults' + Expected(a)'
    <3>1. live[i][a] + Cardinality(Indexings(a)) <= faults + Expected(a)
      BY <2>2 DEF LiveInv
    <3>2. live'[i][a] = live[i][a] /\ live[i][a] \in Nat /\ faults' = faults
      BY <1>1, <1>2 DEF RegistryType
    <3>3. QED
      BY <1>1, <2>6, <2>7, <3>1, <3>2
  <2>9. Registered(a)' \/ Starting(a)' => Registered(a) \/ Starting(a)
    BY <1>2, <2>1, <2>2 DEF Registered, Starting, Deleting, DeletePhase
  <2>10. LiveInv(a)'
    BY <1>2, <2>2, <2>8, <2>9 DEF LiveInv
  <2>11. QED
    BY <2>4, <2>10
<1>7. QED
  BY <1>2, <1>4, <1>5, <1>6, CallKeeps

(* What is stopped was started: it is registered, and no call is about it.  *)
LEMMA StopKeeps ==
  ASSUME IInv, NEW a \in Account, DeleteAccount(a)
  PROVE  IInv'
<1> DEFINE c == NewCall(a, "deleting")
<1>1. /\ RegistryType /\ ViewInv /\ calls \subseteq Call /\ faults \in Nat
      /\ CallInv(a) /\ LiveInv(a) /\ HomeOf(a) \in Indexer
      /\ live \in [Indexer -> [Account -> Nat]]
  BY Homes DEF IInv, RegistryType
<1>2. /\ main = "running" /\ a \in known /\ CallsOn(a) = {}
      /\ a \in registry[c.at] /\ calls' = calls \cup {c}
      /\ live' = [live EXCEPT ![c.at][a] = @ - 1]
      /\ UNCHANGED <<startupVars, known, awaited, registry, works, faults>>
  BY DEF DeleteAccount
<1>3. c \in Call /\ c.account = a /\ c.at = HomeOf(a) /\ c.phase = "deleting"
  <2>1. "deleting" \in IndexPhase \cup DeletePhase
    BY DEF DeletePhase
  <2>2. Cardinality(CallsOn(a)) < MaxCalls
    BY <1>2, FS_EmptySet, RegistryAssumption
  <2>3. QED
    BY <1>1, <1>2, <2>1, <2>2, NewCallIs
<1> HIDE DEF c
<1>4. live[HomeOf(a)][a] >= 1
  <2>1. Registered(a)
    BY <1>2, <1>3 DEF Registered, Deleting
  <2>2. QED
    BY <1>1, <2>1 DEF LiveInv
<1>5. /\ live' \in [Indexer -> [Account -> Nat]]
      /\ \A i \in Indexer : live'[i][a] <= live[i][a]
      /\ \A b \in Account : b # a => \A i \in Indexer : live'[i][b] = live[i][b]
  <2> DEFINE n == live[HomeOf(a)][a] - 1
  <2>1. n \in Nat /\ live' = [live EXCEPT ![HomeOf(a)][a] = n]
    BY <1>1, <1>2, <1>3, <1>4
  <2>2. n <= live[HomeOf(a)][a]
    BY <1>1
  <2> HIDE DEF n
  <2>3. QED
    BY <1>1, <2>1, <2>2
<1>6. RegistryType'
  BY <1>1, <1>2, <1>3, <1>5 DEF RegistryType, startupVars, StartupTypeOK
<1>7. CallsOn(a)' = {c} /\ \A b : b # a => CallsOn(b)' = CallsOn(b)
  BY <1>2, <1>3 DEF CallsOn
<1>8. ASSUME NEW b \in Account, b # a  PROVE CallInv(b)' /\ LiveInv(b)'
  <2>1. Untouched(b)
    BY <1>2, <1>5, <1>7, <1>8 DEF Untouched
  <2>2. QED
    BY <1>2, <1>6, <2>1, OthersKept DEF RegistryType
<1>9. CallInv(a)'
  BY <1>1, <1>2, <1>3, <1>7, FS_Singleton DEF CallInv
<1>10. LiveInv(a)'
  <2>1. Indexings(a) = {} /\ Indexings(a)' = {}
    BY <1>2, <1>3, <1>7 DEF Indexings
  <2>2. Cardinality({}) = 0
    BY FS_EmptySet
  <2>3. ASSUME NEW i \in Indexer
        PROVE  live'[i][a] + Cardinality(Indexings(a)') <= faults' + Expected(a)'
    <3>1. live[i][a] + Cardinality(Indexings(a)) <= faults + Expected(a)
      BY <1>1 DEF LiveInv
    <3>2. Expected(a)' = Expected(a) /\ Expected(a) \in Nat /\ faults' = faults
      BY <1>2 DEF Expected
    <3>3. live'[i][a] \in Nat /\ live[i][a] \in Nat
      BY <1>1, <1>5
    <3>4. QED
      BY <1>1, <1>5, <2>1, <2>2, <3>1, <3>2, <3>3
  <2>4. ~Starting(a)' /\ Deleting(a)'
    BY <1>3, <1>7 DEF Starting, Deleting, DeletePhase
  <2>5. QED
    BY <2>3, <2>4 DEF LiveInv, Registered
<1>11. QED
  BY <1>1, <1>2, <1>6, <1>8, <1>9, <1>10, CallKeeps

LEMMA RestartKeeps ==
  ASSUME IInv, Restart
  PROVE  IInv'
<1>1. /\ worker' = [w \in Worker |-> "created"]
      /\ view' = [n \in Worker \cup {Main} |-> {}]
      /\ main' = "fetchers" /\ known' = {} /\ awaited' = {} /\ calls' = {}
      /\ registry' = [i \in Indexer |-> {}]
      /\ live' = [i \in Indexer |-> [a \in Account |-> 0]]
      /\ works' = works /\ faults' = faults + 1 /\ faults < MaxFaults
  BY DEF Restart
<1>2. StartupTypeOK' /\ \A n \in Worker \cup {Main} : view'[n] = {}
  BY <1>1 DEF StartupTypeOK
<1>3. faults' \in 0..MaxFaults /\ RegistryType
  BY <1>1, RegistryAssumption DEF IInv, RegistryType
<1>4. RegistryType'
  BY <1>1, <1>2, <1>3 DEF RegistryType
<1>5. ViewInv'
  <2>1. Announced' = {}
    BY <1>1 DEF Announced
  <2>2. QED
    BY <1>1, <1>2, <2>1 DEF ViewInv
<1>6. ASSUME NEW a \in Account  PROVE CallInv(a)' /\ LiveInv(a)'
  <2>1. CallsOn(a)' = {} /\ Indexings(a)' = {} /\ HomeOf(a) \in Indexer
    BY <1>1, Homes DEF CallsOn, Indexings
  <2>2. CallInv(a)'
    BY <1>1, <2>1, FS_EmptySet DEF CallInv
  <2>3. Cardinality({}) = 0
    BY FS_EmptySet
  <2>4. Expected(a)' \in Nat /\ faults' \in Nat
    BY <1>3, RegistryAssumption DEF Expected
  <2>5. \A i \in Indexer : live'[i][a] = 0
    BY <1>1
  <2>6. ~Registered(a)' /\ ~Starting(a)'
    BY <1>1, <2>1 DEF Registered, Starting
  <2>7. LiveInv(a)'
    BY <2>1, <2>3, <2>4, <2>5, <2>6 DEF LiveInv
  <2>8. QED
    BY <2>2, <2>7
<1>7. QED
  BY <1>4, <1>5, <1>6 DEF IInv
-----------------------------------------------------------------------------
LEMMA StepKeeps ==
  ASSUME IInv, [Next]_vars  PROVE IInv'
<1>1. CASE StartupNext /\ UNCHANGED registryVars
  BY <1>1, StartupKeeps
<1>2. ASSUME NEW found \in SUBSET Account, Discover(found)  PROVE IInv'
  BY <1>2, DiscoverKeeps
<1>3. ASSUME NEW c \in calls, CallStep(c) \/ CallFails(c)  PROVE IInv'
  BY <1>3, IndexKeeps, EndsKeep, DeleteKeeps DEF CallStep
<1>4. ASSUME NEW a \in Account, DeleteAccount(a)  PROVE IInv'
  BY <1>4, StopKeeps
<1>5. CASE Restart
  BY <1>5, RestartKeeps
<1>6. CASE UNCHANGED vars
  <2>1. UNCHANGED startupVars /\ UNCHANGED registryVars
    BY <1>6 DEF vars, startupVars, registryVars
  <2>2. ASSUME NEW a \in Account  PROVE CallInv(a)' /\ LiveInv(a)'
    <3>1. Untouched(a)
      BY <2>1 DEF registryVars, Untouched, CallsOn
    <3>2. QED
      BY <2>1, <3>1, OthersKept DEF registryVars, IInv, RegistryType
  <2>3. RegistryType' /\ ViewInv'
    BY <2>1 DEF IInv, RegistryType, ViewInv, Announced, StartupTypeOK, startupVars, registryVars
  <2>4. QED
    BY <2>2, <2>3 DEF IInv
<1>7. QED
  BY <1>1, <1>2, <1>3, <1>4, <1>5, <1>6 DEF Next

(* The registry of accounts, in every state of every run.                   *)
THEOREM Inductive == Spec => []IInv
<1>1. Init => IInv
  BY Starts
<1>2. IInv /\ [Next]_vars => IInv'
  BY StepKeeps
<1>3. QED
  BY <1>1, <1>2, PTL DEF Spec

(* No indexer has more account indexers of an account than the failures     *)
(* there were and one, however calls that failed, calls that a failed       *)
(* discovery left behind, deletions and restarts come together.             *)
THEOREM FewIndexersEver == Spec => []FewIndexers
<1>1. ASSUME IInv  PROVE FewIndexers
  <2>1. ASSUME NEW a \in Account, NEW i \in Indexer  PROVE live[i][a] <= 1 + faults
    <3>1. live[i][a] + Cardinality(Indexings(a)) <= faults + Expected(a) /\ CallInv(a)
      BY <1>1 DEF IInv, LiveInv
    <3>2. Cardinality(Indexings(a)) \in Nat
      BY <3>1, IndexingsFinite DEF CallInv
    <3>3. live[i][a] \in Nat /\ faults \in Nat /\ Expected(a) \in 0..1
      BY <1>1 DEF IInv, RegistryType, Expected
    <3>4. QED
      BY <3>1, <3>2, <3>3
  <2>2. QED
    BY <2>1 DEF FewIndexers
<1>2. QED
  BY <1>1, Inductive, PTL

(* The registries, calls and works keep their types: a call is always at an *)
(* indexer, and what is stopped was started.                                *)
THEOREM TypeCorrect == Spec => []TypeOK
<1>1. ASSUME IInv, FewIndexers  PROVE TypeOK
  <2>1. live \in [Indexer -> [Account -> Nat]] /\ faults \in 0..MaxFaults /\ MaxFaults \in Nat
    BY <1>1, RegistryAssumption DEF IInv, RegistryType
  <2>2. \A i \in Indexer, a \in Account : live[i][a] \in 0..(MaxFaults + 1)
    BY <1>1, <2>1 DEF FewIndexers
  <2>3. live \in [Indexer -> [Account -> 0..(MaxFaults + 1)]]
    BY <2>1, <2>2
  <2>4. QED
    BY <1>1, <2>3 DEF IInv, RegistryType, TypeOK, Call
<1>2. QED
  BY <1>1, Inductive, FewIndexersEver, PTL
-----------------------------------------------------------------------------
(* The fetchers are the process's own, and announcements arrive before main *)
(* looks again: an indexer that is called knows all the fetchers.           *)
OwnAndPrompt == Prompt /\ Fetcher \subseteq LocalFetcher

ToldInv == main = "running" => \A i \in Indexer : Fetcher \subseteq view[i]

(* An account has works only at its source and for its home: when it is     *)
(* registered there, unless the last step of its deletion is left.          *)
WorkInv(a) ==
  /\ \A f \in Fetcher : works[f][a] \subseteq IF f = SourceOf(a) THEN {HomeOf(a)} ELSE {}
  /\ a \in registry[HomeOf(a)] =>
       \/ HomeOf(a) \in works[SourceOf(a)][a]
       \/ \E c \in CallsOn(a) : c.phase = "removed"
  /\ a \in known =>
       \/ a \in registry[HomeOf(a)]
       \/ CallsOn(a) = {} /\ works[SourceOf(a)][a] = {}
  /\ \A c \in CallsOn(a) :
       /\ c.phase = "registered" => HomeOf(a) \in works[SourceOf(a)][a]
       /\ c.phase = "answered" => a \in registry[HomeOf(a)]
       /\ c.phase \in {"deleting", "read"} => c.peers = {}
       /\ c.phase = "removed" => works[SourceOf(a)][a] = {}

WorksInv == ToldInv /\ \A a \in Account : WorkInv(a)

WorksKept(a) ==
  /\ CallsOn(a)' = CallsOn(a)
  /\ \A i \in Indexer : a \in registry'[i] <=> a \in registry[i]
  /\ \A f \in Fetcher : works'[f][a] = works[f][a]
  /\ a \in known' <=> a \in known

LEMMA WorksStay ==
  ASSUME NEW a \in Account, WorkInv(a), WorksKept(a)
  PROVE  WorkInv(a)'
<1>1. HomeOf(a) \in Indexer /\ SourceOf(a) \in Fetcher
  BY Homes
<1>2. QED
  BY <1>1 DEF WorkInv, WorksKept

(* Main runs only when every worker that it knows has been told of all.     *)
LEMMA ToldStays ==
  ASSUME OwnAndPrompt, IInv, ToldInv, [Next]_vars
  PROVE  ToldInv'
<1>1. /\ ViewInv /\ view \in [Worker \cup {Main} -> SUBSET Worker]
      /\ Indexer \subseteq Worker
  BY DEF IInv, RegistryType, StartupTypeOK, Worker
<1>2. CASE \E w \in Worker : Connect(w) \/ StartService(w) \/ FinishWorker(w)
  BY <1>2 DEF ToldInv, Connect, StartService, FinishWorker
<1>3. ASSUME NEW n \in Worker \cup {Main}, NEW w \in Worker, Learn(n, w)  PROVE ToldInv'
  <2>1. view' = [view EXCEPT ![n] = view[n] \cup {w}] /\ main' = main
    BY <1>3 DEF Learn
  <2>2. \A m \in Worker \cup {Main} : view[m] \subseteq view'[m]
    BY <1>1, <2>1
  <2>3. QED
    BY <1>1, <2>1, <2>2 DEF ToldInv
<1>4. CASE MainStep
  <2>1. CASE main' = "running"
    <3>1. AllTold /\ view' = view /\ main = "indexers" /\ Indexer \subseteq view[Main]
      BY <1>4, <2>1 DEF MainStep, OwnAndPrompt
    <3>2. Fetcher \subseteq Announced /\ Indexer \subseteq Announced
      BY <1>1, <3>1 DEF ViewInv, OwnAndPrompt
    <3>3. ASSUME NEW i \in Indexer  PROVE Fetcher \subseteq view[i]
      <4>1. i \in Worker /\ worker[i] # "created"
        BY <1>1, <3>2 DEF Announced
      <4>2. Needs(i) = Fetcher \cup Parser
        BY <1>1, MainAssumption, WorkersAssumption DEF Needs
      <4>3. QED
        BY <3>1, <3>2, <4>1, <4>2 DEF AllTold
    <3>4. QED
      BY <3>1, <3>3 DEF ToldInv
  <2>2. CASE main' # "running"
    BY <2>2 DEF ToldInv
  <2>3. QED
    BY <2>1, <2>2
<1>5. CASE UNCHANGED startupVars
  BY <1>5 DEF startupVars, ToldInv
<1>6. CASE Restart
  BY <1>6 DEF Restart, ToldInv
<1>7. [Next]_vars => StartupNext \/ UNCHANGED startupVars \/ Restart
  BY DEF Next, vars, startupVars, Discover, CallStep, AddAccount, Register, Keep, Answered,
     ReadWork, WriteWork, Drop, CallFails, DeleteAccount
<1>8. QED
  BY <1>2, <1>3, <1>4, <1>5, <1>6, <1>7 DEF StartupNext

(* So an indexer always asks the same fetcher about an account.             *)
LEMMA SourceIs ==
  ASSUME ToldInv, main = "running", NEW i \in Indexer, NEW a \in Account
  PROVE  Shard(a, view[i] \cap Fetcher) = SourceOf(a)
<1>1. view[i] \cap Fetcher = Fetcher
  BY DEF ToldInv
<1>2. QED
  BY <1>1 DEF SourceOf

(* The steps of indexAccount and deleteAccount, at the account's home.      *)
LEMMA AdvanceWorks ==
  ASSUME IInv, WorksInv, NEW c \in calls,
         \/ AddAccount(c) \/ Register(c) \/ Keep(c) \/ ReadWork(c) \/ WriteWork(c)
  PROVE  \A b \in Account : WorkInv(b)'
<1> DEFINE a == c.account
           f == Shard(c.account, view[c.at] \cap Fetcher)
<1>1. /\ calls \subseteq Call /\ c \in Call /\ a \in Account /\ c.at \in Indexer
      /\ registry \in [Indexer -> SUBSET Account]
      /\ works \in [Fetcher -> [Account -> SUBSET Indexer]]
  BY DEF IInv, RegistryType, Call
<1>2. /\ CallInv(a) /\ WorkInv(a) /\ c \in CallsOn(a) /\ IsFiniteSet(CallsOn(a))
      /\ HomeOf(a) \in Indexer /\ SourceOf(a) \in Fetcher
  BY <1>1, Homes DEF IInv, WorksInv, CallsOn, CallInv
<1>3. c.at = HomeOf(a) /\ f = SourceOf(a)
  BY <1>1, <1>2, Running, SourceIs DEF CallInv, WorksInv
<1>4. a \in known => a \in registry[HomeOf(a)]
  BY <1>2 DEF WorkInv
<1>5. c.phase \in DeletePhase => CallsOn(a) = {c}
  BY <1>2 DEF CallInv
<1>6. ASSUME NEW x \in CallsOn(a), x.phase = "removed", x # c  PROVE FALSE
  BY <1>2, <1>6 DEF CallInv, DeletePhase
<1> HIDE DEF f
<1>7. ASSUME NEW phase \in IndexPhase \cup DeletePhase, phase # "indexing",
             NEW peers \in SUBSET Indexer, Advance(c, phase, peers)
      PROVE  /\ CallsOn(a)' = (CallsOn(a) \ {c}) \cup {Advanced(c, phase, peers)}
             /\ Advanced(c, phase, peers).phase = phase
             /\ Advanced(c, phase, peers).peers = peers
             /\ \A b \in Account : b # a => CallsOn(b)' = CallsOn(b)
  <2>1. CallsAdvance(c, phase, peers)
    BY <1>1, <1>2, <1>7, AdvanceIs
  <2>2. QED
    BY <2>1 DEF CallsAdvance
<1>8. CASE AddAccount(c)
  <2>1. PICK phase \in {"answered", "starting"} :
          /\ Advance(c, phase, {})
          /\ phase = "answered" => a \in registry[HomeOf(a)]
          /\ c.phase = "indexing" /\ UNCHANGED <<known, registry, works>>
    BY <1>3, <1>8 DEF AddAccount
  <2>2. phase \in IndexPhase \cup DeletePhase /\ phase # "indexing" /\ {} \in SUBSET Indexer
    BY DEF IndexPhase
  <2> DEFINE d == Advanced(c, phase, {})
  <2>3. /\ CallsOn(a)' = (CallsOn(a) \ {c}) \cup {d} /\ d.phase = phase
        /\ \A b \in Account : b # a => CallsOn(b)' = CallsOn(b)
    BY <1>7, <2>1, <2>2
  <2> HIDE DEF d
  <2>4. WorkInv(a)'
    BY <1>2, <1>4, <2>1, <2>3 DEF WorkInv
  <2>5. QED
    BY <2>1, <2>3, <2>4, WorksStay DEF WorksInv, WorksKept
<1>9. CASE Register(c)
  <2>1. /\ Advance(c, "registered", {}) /\ c.phase = "starting"
        /\ works' = [works EXCEPT ![SourceOf(a)][a] = works[SourceOf(a)][a] \cup {HomeOf(a)}]
        /\ UNCHANGED <<known, registry>>
    BY <1>3, <1>9 DEF Register, f
  <2>2. "registered" \in IndexPhase \cup DeletePhase /\ {} \in SUBSET Indexer
    BY DEF IndexPhase
  <2> DEFINE d == Advanced(c, "registered", {})
  <2>3. /\ CallsOn(a)' = (CallsOn(a) \ {c}) \cup {d} /\ d.phase = "registered"
        /\ \A b \in Account : b # a => CallsOn(b)' = CallsOn(b)
    BY <1>7, <2>1, <2>2
  <2> HIDE DEF d
  <2>4. /\ works'[SourceOf(a)][a] = works[SourceOf(a)][a] \cup {HomeOf(a)}
        /\ \A g \in Fetcher : g # SourceOf(a) => works'[g][a] = works[g][a]
        /\ \A b \in Account : b # a => \A g \in Fetcher : works'[g][b] = works[g][b]
    BY <1>1, <1>2, <2>1
  <2>5. \A x \in CallsOn(a)' : x.phase # "removed"
    BY <1>6, <2>3
  <2>6. WorkInv(a)'
    BY <1>2, <1>4, <2>1, <2>3, <2>4, <2>5 DEF WorkInv
  <2>7. QED
    BY <2>1, <2>3, <2>4, <2>6, WorksStay DEF WorksInv, WorksKept
<1>10. CASE Keep(c)
  <2>1. /\ Advance(c, "answered", {}) /\ c.phase = "registered"
        /\ registry' = [registry EXCEPT ![HomeOf(a)] = registry[HomeOf(a)] \cup {a}]
        /\ UNCHANGED <<known, works>>
    BY <1>3, <1>10 DEF Keep
  <2>2. "answered" \in IndexPhase \cup DeletePhase /\ {} \in SUBSET Indexer
    BY DEF IndexPhase
  <2> DEFINE d == Advanced(c, "answered", {})
  <2>3. /\ CallsOn(a)' = (CallsOn(a) \ {c}) \cup {d} /\ d.phase = "answered"
        /\ \A b \in Account : b # a => CallsOn(b)' = CallsOn(b)
    BY <1>7, <2>1, <2>2
  <2> HIDE DEF d
  <2>4. /\ a \in registry'[HomeOf(a)]
        /\ \A b \in Account : b # a => \A i \in Indexer : b \in registry'[i] <=> b \in registry[i]
    BY <1>1, <1>2, <2>1
  <2>5. HomeOf(a) \in works'[SourceOf(a)][a]
    BY <1>2, <2>1 DEF WorkInv
  <2>6. WorkInv(a)'
    BY <1>2, <2>1, <2>3, <2>4, <2>5 DEF WorkInv
  <2>7. QED
    BY <2>1, <2>3, <2>4, <2>6, WorksStay DEF WorksInv, WorksKept
<1>11. CASE ReadWork(c)
  <2> DEFINE left == works[SourceOf(a)][a] \ {HomeOf(a)}
  <2>1. /\ Advance(c, "read", left) /\ c.phase = "deleting"
        /\ UNCHANGED <<known, registry, works>>
    BY <1>3, <1>11 DEF ReadWork, f
  <2>2. "read" \in IndexPhase \cup DeletePhase /\ left = {} /\ {} \in SUBSET Indexer
    BY <1>2 DEF DeletePhase, WorkInv
  <2> HIDE DEF left
  <2> DEFINE d == Advanced(c, "read", {})
  <2>3. /\ CallsOn(a)' = (CallsOn(a) \ {c}) \cup {d} /\ d.phase = "read" /\ d.peers = {}
        /\ \A b \in Account : b # a => CallsOn(b)' = CallsOn(b)
    BY <1>7, <2>1, <2>2
  <2> HIDE DEF d
  <2>4. CallsOn(a) = {c} /\ CallsOn(a)' = {d} /\ a \in registry[HomeOf(a)]
    BY <1>2, <1>5, <2>1, <2>3 DEF DeletePhase, WorkInv, CallInv
  <2>5. WorkInv(a)'
    BY <1>2, <2>1, <2>3, <2>4 DEF WorkInv
  <2>6. QED
    BY <2>1, <2>3, <2>5, WorksStay DEF WorksInv, WorksKept
<1>12. CASE WriteWork(c)
  <2>1. c.peers = {} /\ CallsOn(a) = {c}
    BY <1>2, <1>5, <1>12 DEF WriteWork, WorkInv, DeletePhase
  <2>2. /\ Advance(c, "removed", {}) /\ c.phase = "read"
        /\ works' = [works EXCEPT ![SourceOf(a)][a] = {}]
        /\ UNCHANGED <<known, registry>>
    BY <1>3, <1>12, <2>1 DEF WriteWork, f
  <2>3. "removed" \in IndexPhase \cup DeletePhase /\ {} \in SUBSET Indexer
    BY DEF DeletePhase
  <2> DEFINE d == Advanced(c, "removed", {})
  <2>4. /\ CallsOn(a)' = {d} /\ d.phase = "removed"
        /\ \A b \in Account : b # a => CallsOn(b)' = CallsOn(b)
    BY <1>7, <2>1, <2>2, <2>3
  <2> HIDE DEF d
  <2>5. /\ works'[SourceOf(a)][a] = {}
        /\ \A g \in Fetcher : g # SourceOf(a) => works'[g][a] = works[g][a]
        /\ \A b \in Account : b # a => \A g \in Fetcher : works'[g][b] = works[g][b]
    BY <1>1, <1>2, <2>2
  <2>6. WorkInv(a)'
    BY <1>2, <1>4, <2>2, <2>4, <2>5 DEF WorkInv
  <2>7. QED
    BY <2>2, <2>4, <2>5, <2>6, WorksStay DEF WorksInv, WorksKept
<1>13. QED
  BY <1>8, <1>9, <1>10, <1>11, <1>12

(* Calls that end leave a work exactly where the account is registered.     *)
LEMMA EndWorks ==
  ASSUME IInv, WorksInv, NEW c \in calls, Answered(c) \/ CallFails(c) \/ Drop(c)
  PROVE  \A b \in Account : WorkInv(b)'
<1> DEFINE a == c.account
<1>1. /\ calls \subseteq Call /\ c \in Call /\ a \in Account
      /\ registry \in [Indexer -> SUBSET Account]
  BY DEF IInv, RegistryType, Call
<1>2. /\ CallInv(a) /\ WorkInv(a) /\ c \in CallsOn(a) /\ IsFiniteSet(CallsOn(a))
      /\ HomeOf(a) \in Indexer /\ SourceOf(a) \in Fetcher
  BY <1>1, Homes DEF IInv, WorksInv, CallsOn, CallInv
<1>3. c.at = HomeOf(a)
  BY <1>2 DEF CallInv
<1>4. calls' = calls \ {c} /\ works' = works
  BY DEF Answered, CallFails, Drop
<1>5. CallsOn(a)' = CallsOn(a) \ {c} /\ \A b : b # a => CallsOn(b)' = CallsOn(b)
  BY <1>1, <1>2, <1>4, EndIs
<1>6. a \in known => a \in registry[HomeOf(a)]
  BY <1>2 DEF WorkInv
<1>7. CASE Answered(c)
  <2>1. c.phase = "answered" /\ known' = known \cup {a} /\ registry' = registry
    BY <1>7 DEF Answered
  <2>2. a \in registry[HomeOf(a)]
    BY <1>2, <2>1 DEF WorkInv
  <2>3. WorkInv(a)'
    BY <1>2, <1>4, <1>5, <2>1, <2>2 DEF WorkInv
  <2>4. QED
    BY <1>4, <1>5, <2>1, <2>3, WorksStay DEF WorksInv, WorksKept
<1>8. CASE CallFails(c)
  <2>1. c.phase \in {"indexing", "starting"} /\ known' = known /\ registry' = registry
    BY <1>8 DEF CallFails
  <2>2. WorkInv(a)'
    BY <1>2, <1>4, <1>5, <1>6, <2>1 DEF WorkInv
  <2>3. QED
    BY <1>4, <1>5, <2>1, <2>2, WorksStay DEF WorksInv, WorksKept
<1>9. CASE Drop(c)
  <2>1. /\ c.phase = "removed" /\ known' = known
        /\ registry' = [registry EXCEPT ![HomeOf(a)] = registry[HomeOf(a)] \ {a}]
    BY <1>3, <1>9 DEF Drop
  <2>2. /\ a \notin registry'[HomeOf(a)]
        /\ \A b \in Account : b # a => \A i \in Indexer : b \in registry'[i] <=> b \in registry[i]
    BY <1>1, <1>2, <2>1
  <2>3. CallsOn(a)' = {} /\ works[SourceOf(a)][a] = {}
    BY <1>2, <1>5, <2>1 DEF CallInv, WorkInv, DeletePhase
  <2>4. WorkInv(a)'
    BY <1>2, <1>4, <2>2, <2>3 DEF WorkInv
  <2>5. QED
    BY <1>4, <1>5, <2>1, <2>2, <2>4, WorksStay DEF WorksInv, WorksKept
<1>10. QED
  BY <1>7, <1>8, <1>9

(* New calls: on an account that is not known, or one that is registered.   *)
LEMMA NewWorks ==
  ASSUME IInv, WorksInv, (\E found \in SUBSET Account : Discover(found))
                           \/ \E a \in Account : DeleteAccount(a)
  PROVE  \A b \in Account : WorkInv(b)'
<1>1. /\ RegistryType /\ ViewInv
      /\ \A a \in Account : CallInv(a) /\ WorkInv(a)
  BY DEF IInv, WorksInv
<1>2. ASSUME NEW found \in SUBSET Account, Discover(found)  PROVE \A b \in Account : WorkInv(b)'
  <2> DEFINE new == found \ known
             call(a) == NewCall(a, "indexing")
  <2>1. /\ main = "running" /\ UNCHANGED <<known, registry, works>>
        /\ \A a \in new : Cardinality(CallsOn(a)) < MaxCalls
        /\ calls' = calls \cup {call(a) : a \in new}
    BY <1>2 DEF Discover
  <2>2. ASSUME NEW a \in new  PROVE call(a).account = a /\ call(a).phase = "indexing"
    <3>1. "indexing" \in IndexPhase \cup DeletePhase
      BY DEF IndexPhase
    <3>2. CallInv(a) /\ Cardinality(CallsOn(a)) < MaxCalls /\ a \in Account
      BY <1>1, <2>1
    <3>3. QED
      BY <1>1, <2>1, <3>1, <3>2, NewCallIs
  <2> HIDE DEF call
  <2>3. ASSUME NEW b \in Account  PROVE WorkInv(b)'
    <3>1. CASE b \notin new
      <4>1. CallsOn(b)' = CallsOn(b)
        BY <2>1, <2>2, <3>1 DEF CallsOn
      <4>2. QED
        BY <1>1, <2>1, <4>1, WorksStay DEF WorksKept
    <3>2. CASE b \in new
      <4>1. CallsOn(b)' = CallsOn(b) \cup {call(b)} /\ call(b).phase = "indexing"
        BY <2>1, <2>2, <3>2 DEF CallsOn
      <4>2. b \notin known /\ WorkInv(b)
        BY <1>1, <3>2
      <4>3. QED
        BY <2>1, <4>1, <4>2 DEF WorkInv
    <3>3. QED
      BY <3>1, <3>2
  <2>4. QED
    BY <2>3
<1>3. ASSUME NEW a \in Account, DeleteAccount(a)  PROVE \A b \in Account : WorkInv(b)'
  <2> DEFINE c == NewCall(a, "deleting")
  <2>1. /\ main = "running" /\ a \in known /\ CallsOn(a) = {}
        /\ a \in registry[c.at] /\ calls' = calls \cup {c}
        /\ UNCHANGED <<known, registry, works>>
    BY <1>3 DEF DeleteAccount
  <2>2. c.account = a /\ c.at = HomeOf(a) /\ c.phase = "deleting" /\ c.peers = {}
    <3>1. "deleting" \in IndexPhase \cup DeletePhase
      BY DEF DeletePhase
    <3>2. Cardinality(CallsOn(a)) < MaxCalls
      BY <2>1, FS_EmptySet, RegistryAssumption
    <3>3. QED
      BY <1>1, <2>1, <3>1, <3>2, NewCallIs
  <2> HIDE DEF c
  <2>3. CallsOn(a)' = {c} /\ \A b : b # a => CallsOn(b)' = CallsOn(b)
    BY <2>1, <2>2 DEF CallsOn
  <2>4. a \in registry[HomeOf(a)] /\ HomeOf(a) \in works[SourceOf(a)][a] /\ WorkInv(a)
    BY <1>1, <2>1, <2>2 DEF WorkInv
  <2>5. WorkInv(a)'
    BY <2>1, <2>2, <2>3, <2>4 DEF WorkInv
  <2>6. QED
    BY <1>1, <2>1, <2>3, <2>5, WorksStay DEF WorksKept
<1>4. QED
  BY <1>2, <1>3

(* After a restart nothing is known or registered, and the works are where  *)
(* the account's calls will find them again.                                *)
LEMMA RestartWorks ==
  ASSUME WorksInv, Restart  PROVE \A b \in Account : WorkInv(b)'
<1>1. ASSUME NEW b \in Account  PROVE WorkInv(b)'
  <2>1. HomeOf(b) \in Indexer /\ SourceOf(b) \in Fetcher /\ WorkInv(b)
    BY Homes DEF WorksInv
  <2>2. /\ works' = works /\ b \notin known' /\ b \notin registry'[HomeOf(b)] /\ CallsOn(b)' = {}
    BY <2>1 DEF Restart, CallsOn
  <2>3. QED
    BY <2>1, <2>2 DEF WorkInv
<1>2. QED
  BY <1>1

LEMMA WorksStep ==
  ASSUME OwnAndPrompt, IInv, WorksInv, [Next]_vars
  PROVE  WorksInv'
<1>1. ToldInv'
  BY ToldStays DEF WorksInv
<1>2. ASSUME UNCHANGED registryVars  PROVE \A b \in Account : WorkInv(b)'
  BY <1>2, WorksStay DEF WorksInv, WorksKept, registryVars, CallsOn
<1>3. ASSUME NEW c \in calls, CallStep(c) \/ CallFails(c)  PROVE \A b \in Account : WorkInv(b)'
  BY <1>3, AdvanceWorks, EndWorks DEF CallStep
<1>4. UNCHANGED vars => UNCHANGED registryVars
  BY DEF vars, registryVars
<1>5. \A b \in Account : WorkInv(b)'
  BY <1>2, <1>3, <1>4, NewWorks, RestartWorks DEF Next
<1>6. QED
  BY <1>1, <1>5 DEF WorksInv

(* Where the fetchers are the process's own and announcements are prompt,   *)
(* an account that the main domain knows and no call is about is in its     *)
(* indexer exactly if the fetcher that the indexer asks keeps a work of it  *)
(* for that indexer, whatever failed, was deleted or died before.           *)
THEOREM RegisteredIsAlwaysFetched ==
  ASSUME OwnAndPrompt  PROVE Spec => []RegisteredIsFetched
<1>1. Init => WorksInv
  <2>1. ASSUME Init, NEW a \in Account  PROVE WorkInv(a)
    <3>1. /\ HomeOf(a) \in Indexer /\ SourceOf(a) \in Fetcher /\ CallsOn(a) = {}
          /\ registry[HomeOf(a)] = {} /\ known = {} /\ \A f \in Fetcher : works[f][a] = {}
      BY <2>1, Homes DEF Init, CallsOn
    <3>2. QED
      BY <3>1 DEF WorkInv
  <2>2. QED
    BY <2>1 DEF Init, StartupInit, WorksInv, ToldInv
<1>2. IInv /\ WorksInv /\ [Next]_vars => WorksInv'
  BY WorksStep
<1>3. ASSUME IInv, WorksInv, TypeOK  PROVE RegisteredIsFetched
  <2>1. ASSUME NEW a \in known, NEW i \in Indexer, NEW f \in Fetcher, CallsOn(a) = {}
        PROVE  i \in works[f][a] <=> a \in registry[i] /\ f = Shard(a, view[i] \cap Fetcher)
    <3>1. a \in Account /\ main = "running"
      BY <1>3 DEF IInv, RegistryType, ViewInv
    <3>2. /\ WorkInv(a) /\ CallInv(a) /\ SourceOf(a) \in Fetcher
          /\ Shard(a, view[i] \cap Fetcher) = SourceOf(a)
      BY <1>3, <3>1, Homes, SourceIs DEF IInv, WorksInv
    <3>3. ASSUME i \in works[f][a]  PROVE a \in registry[i] /\ f = SourceOf(a)
      BY <2>1, <3>2, <3>3 DEF WorkInv
    <3>4. ASSUME a \in registry[i], f = SourceOf(a)  PROVE i \in works[f][a]
      BY <2>1, <3>2, <3>4 DEF WorkInv, CallInv
    <3>5. QED
      BY <3>2, <3>3, <3>4
  <2>2. QED
    BY <1>3, <2>1 DEF RegisteredIsFetched
<1>4. QED
  BY <1>1, <1>2, <1>3, Inductive, TypeCorrect, PTL DEF Spec
=============================================================================
