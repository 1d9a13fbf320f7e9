---------------------------- MODULE AccountRegistry ----------------------------
(***************************************************************************)
(* Which accounts are indexed, and where that is written down: in the main  *)
(* process (the accounts it has had indexed), in the indexer an account is  *)
(* sharded to (its account indexers) and in the fetcher the indexer's calls *)
(* are sharded to (the stored work that keeps the account's history up to   *)
(* date, with the indexers that want it). An account is found by discovery, *)
(* and stays until it is deleted. A restart of the process forgets          *)
(* everything but the fetchers' works.                                      *)
(***************************************************************************)
EXTENDS ServiceStartup

CONSTANTS
  Account,
  Prefers,     (* the nodes in the order the shard strategy tries them     *)
  MaxCalls,    (* bound: calls on one account at a time                    *)
  MaxFaults    (* bound: failed calls and restarts                         *)

ASSUME RegistryAssumption ==
  /\ Prefers \in [Account -> Seq(Worker)]
  /\ \A a \in Account, w \in Fetcher \cup Indexer : \E k \in 1..Len(Prefers[a]) : Prefers[a][k] = w
  /\ MaxCalls \in Nat \ {0} /\ MaxFaults \in Nat

VARIABLES
  known,       (* the accounts of the main domain                          *)
  awaited,     (* the accounts whose calls the discovery run waits for     *)
  calls,       (* the calls on accounts, and how far each handler is       *)
  registry,    (* the accounts of each indexer                             *)
  live,        (* the account indexers started and not stopped             *)
  works,       (* the peers of each account's work in each fetcher         *)
  faults

registryVars == <<known, awaited, calls, registry, live, works, faults>>
vars == <<worker, view, main, known, awaited, calls, registry, live, works, faults>>

(* The strategy of moleculer, as the key of a call always is its account.   *)
Shard(a, nodes) ==
  LET first == CHOOSE k \in DOMAIN Prefers[a] :
                 /\ Prefers[a][k] \in nodes
                 /\ \A j \in 1..(k - 1) : Prefers[a][j] \notin nodes
  IN  Prefers[a][first]

IndexPhase == {"indexing", "starting", "registered", "answered"}
DeletePhase == {"deleting", "read", "removed"}

TypeOK ==
  /\ StartupTypeOK
  /\ known \subseteq Account /\ awaited \subseteq Account
  /\ calls \subseteq [account : Account, slot : 1..MaxCalls, at : Indexer,
                      phase : IndexPhase \cup DeletePhase, peers : SUBSET Indexer]
  /\ registry \in [Indexer -> SUBSET Account]
  /\ live \in [Indexer -> [Account -> 0..(MaxFaults + 1)]]
  /\ works \in [Fetcher -> [Account -> SUBSET Indexer]]
  /\ faults \in 0..MaxFaults

Init ==
  /\ StartupInit
  /\ known = {} /\ awaited = {} /\ calls = {}
  /\ registry = [i \in Indexer |-> {}]
  /\ live = [i \in Indexer |-> [a \in Account |-> 0]]
  /\ works = [f \in Fetcher |-> [a \in Account |-> {}]]
  /\ faults = 0

CallsOn(a) == {c \in calls : c.account = a}

(* A call on an account goes to the indexer it is sharded to.               *)
NewCall(a, phase) ==
  [account |-> a, at |-> Shard(a, view[Main] \cap Indexer), phase |-> phase, peers |-> {},
   slot |-> CHOOSE n \in 1..MaxCalls : \A c \in CallsOn(a) : c.slot # n]

Advance(c, phase, peers) ==
  calls' = (calls \ {c}) \cup {[c EXCEPT !.phase = phase, !.peers = peers]}

(* Mutant: discovery on a timer that does not wait for the run before. *)
DiscoverOverlapping(found) ==
  /\ main = "running"
  /\ LET new == found \ known IN
       /\ new # {} /\ \A a \in new : Cardinality(CallsOn(a)) < MaxCalls
       /\ awaited' = new
       /\ calls' = calls \cup {NewCall(a, "indexing") : a \in new}
  /\ UNCHANGED <<startupVars, known, registry, live, works, faults>>

(* _discover: every account found that is not known is indexed, at once.    *)
Discover(found) ==
  /\ main = "running" /\ awaited = {}
  /\ LET new == found \ known IN
       /\ new # {} /\ \A a \in new : Cardinality(CallsOn(a)) < MaxCalls
       /\ awaited' = new
       /\ calls' = calls \cup {NewCall(a, "indexing") : a \in new}
  /\ UNCHANGED <<startupVars, known, registry, live, works, faults>>

(* indexAccount at the indexer: addAccount returns if it has the account,   *)
(* and starts an account indexer otherwise.                                 *)
AddAccount(c) ==
  /\ c \in calls /\ c.phase = "indexing"
  /\ IF c.account \in registry[c.at]
       THEN Advance(c, "answered", {}) /\ live' = live
       ELSE Advance(c, "starting", {}) /\ live' = [live EXCEPT ![c.at][c.account] = @ + 1]
  /\ UNCHANGED <<startupVars, known, awaited, registry, works, faults>>

(* The account indexer asks the fetcher for its account: the indexer is     *)
(* united with the peers of the work.                                       *)
Register(c) ==
  /\ c \in calls /\ c.phase = "starting"
  /\ LET f == Shard(c.account, view[c.at] \cap Fetcher)
     IN  works' = [works EXCEPT ![f][c.account] = @ \cup {c.at}]
  /\ Advance(c, "registered", {})
  /\ UNCHANGED <<startupVars, known, awaited, registry, live, faults>>

(* start ends, and the account indexer is kept.                             *)
Keep(c) ==
  /\ c \in calls /\ c.phase = "registered"
  /\ registry' = [registry EXCEPT ![c.at] = @ \cup {c.account}]
  /\ Advance(c, "answered", {})
  /\ UNCHANGED <<startupVars, known, awaited, live, works, faults>>

(* The main domain has its answer; the run ends with the last one.          *)
Answered(c) ==
  /\ c \in calls /\ c.phase = "answered"
  /\ known' = known \cup {c.account}
  /\ awaited' = awaited \ {c.account}
  /\ calls' = calls \ {c}
  /\ UNCHANGED <<startupVars, registry, live, works, faults>>

(* Mutant: a failure the discovery run is not told of. *)
CallFailsUnseen(c) ==
  /\ c \in calls /\ c.phase \in {"indexing", "starting"}
  /\ faults < MaxFaults /\ faults' = faults + 1
  /\ awaited' = awaited
  /\ calls' = calls \ {c}
  /\ UNCHANGED <<startupVars, known, registry, live, works>>

(* A handler throws before or while it registers: the discovery run ends,   *)
(* the other calls go on, and what was started stays.                       *)
CallFails(c) ==
  /\ c \in calls /\ c.phase \in {"indexing", "starting"}
  /\ faults < MaxFaults /\ faults' = faults + 1
  /\ awaited' = {}
  /\ calls' = calls \ {c}
  /\ UNCHANGED <<startupVars, known, registry, live, works>>

(* deleteAccount of an account whose indexing was answered.                 *)
DeleteAccount(a) ==
  /\ main = "running" /\ a \in known /\ CallsOn(a) = {}
  /\ LET c == NewCall(a, "deleting") IN
       /\ a \in registry[c.at]
       /\ calls' = calls \cup {c}
       /\ live' = [live EXCEPT ![c.at][a] = @ - 1]
  /\ UNCHANGED <<startupVars, known, awaited, registry, works, faults>>

(* delAccount of the fetcher reads the work ...                             *)
ReadWork(c) ==
  /\ c \in calls /\ c.phase = "deleting"
  /\ LET f == Shard(c.account, view[c.at] \cap Fetcher)
     IN  Advance(c, "read", works[f][c.account] \ {c.at})
  /\ UNCHANGED <<startupVars, known, awaited, registry, live, works, faults>>

(* ... and stores it without the indexer, or removes it with the last one.  *)
(* What is stored is united with the peers it had.                          *)
WriteWork(c) ==
  /\ c \in calls /\ c.phase = "read"
  /\ LET f == Shard(c.account, view[c.at] \cap Fetcher)
     IN  works' = [works EXCEPT ![f][c.account] = IF c.peers = {} THEN {} ELSE @ \cup c.peers]
  /\ Advance(c, "removed", {})
  /\ UNCHANGED <<startupVars, known, awaited, registry, live, faults>>

(* The indexer drops the account indexer; the main domain keeps the account.*)
Drop(c) ==
  /\ c \in calls /\ c.phase = "removed"
  /\ registry' = [registry EXCEPT ![c.at] = @ \ {c.account}]
  /\ calls' = calls \ {c}
  /\ UNCHANGED <<startupVars, known, awaited, live, works, faults>>

(* The process dies and starts anew; the works are stored.                  *)
Restart ==
  /\ faults < MaxFaults /\ faults' = faults + 1
  /\ worker' = [w \in Worker |-> "created"]
  /\ view' = [n \in Worker \cup {Main} |-> {}]
  /\ main' = "fetchers"
  /\ known' = {} /\ awaited' = {} /\ calls' = {}
  /\ registry' = [i \in Indexer |-> {}]
  /\ live' = [i \in Indexer |-> [a \in Account |-> 0]]
  /\ UNCHANGED works

CallStep(c) ==
  AddAccount(c) \/ Register(c) \/ Keep(c) \/ Answered(c) \/ ReadWork(c) \/ WriteWork(c) \/ Drop(c)

Next ==
  \/ StartupNext /\ UNCHANGED registryVars
  \/ \E found \in SUBSET Account : Discover(found)
  \/ \E c \in calls : CallStep(c) \/ CallFails(c)
  \/ \E a \in Account : DeleteAccount(a)
  \/ Restart

Spec == Init /\ [][Next]_vars

(* Workers and messages make progress, and discovery runs on its interval   *)
(* and finds every account.                                                 *)
FairSpec ==
  /\ Spec
  /\ WF_vars(StartupNext /\ UNCHANGED registryVars)
  /\ WF_vars(Discover(Account))
  /\ WF_vars(\E c \in calls : CallStep(c))

(* An account the main domain has had indexed, and no call is about, is in  *)
(* its indexer exactly if the fetcher that answers the indexer's queries    *)
(* keeps a work of it for that indexer: nothing is queried that no one      *)
(* fetches, or fetched that no one asked for.                               *)
RegisteredIsFetched ==
  TypeOK /\
  \A a \in known, i \in Indexer, f \in Fetcher :
    CallsOn(a) = {} =>
      (i \in works[f][a]
       <=> a \in registry[i] /\ f = Shard(a, view[i] \cap Fetcher))

(* Two account indexers of one account index it twice. It takes a failure:  *)
(* each leaves at most one behind.                                          *)
FewIndexers ==
  \A a \in Account : \A i \in Indexer : live[i][a] <= 1 + faults

(* However often calls fail and the process restarts, every account that is *)
(* discovered ends up known.                                                *)
DiscoveredIsKnown == \A a \in Account : []<>(a \in known)
================================================================================
