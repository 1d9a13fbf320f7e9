----------------------------- MODULE ServiceStartup -----------------------------
(***************************************************************************)
(* How the services of a project come up. The main process creates a worker *)
(* for each parser, fetcher and indexer, and waits for them; a worker       *)
(* announces its service when that has started, and the other nodes learn   *)
(* of it one by one. What a node asks of a service goes to one of the nodes *)
(* it knows, chosen by the call's partition key.                            *)
(***************************************************************************)
EXTENDS Naturals, Sequences, FiniteSets

CONSTANTS
  Parser, Fetcher, Indexer,  (* the workers                                *)
  LocalFetcher,              (* the fetchers this process created          *)
  Prompt                     (* announcements arrive within the second     *)
                             (* between two polls of a waiting main        *)

ASSUME WorkersAssumption ==
  /\ Parser # {} /\ Fetcher # {} /\ Indexer # {}
  /\ LocalFetcher \subseteq Fetcher
  /\ Parser \cap Fetcher = {} /\ Parser \cap Indexer = {} /\ Fetcher \cap Indexer = {}
ASSUME PromptAssumption == Prompt \in BOOLEAN

VARIABLES
  worker,   (* where the bootstrap of each worker is                       *)
  view,     (* the registry of each node: the services it learnt of        *)
  main      (* where the main process is                                   *)

startupVars == <<worker, view, main>>

Worker == Parser \cup Fetcher \cup Indexer
Main == "main"

ASSUME MainAssumption == Main \notin Worker

StartupTypeOK ==
  /\ worker \in [Worker -> {"created", "connected", "announced", "ready"}]
  /\ view \in [Worker \cup {Main} -> SUBSET Worker]
  /\ main \in {"fetchers", "indexers", "running"}

StartupInit ==
  /\ worker = [w \in Worker |-> "created"]
  /\ view = [n \in Worker \cup {Main} |-> {}]
  /\ main = "fetchers"

Announced == {w \in Worker : worker[w] \in {"announced", "ready"}}

(* The broker connects to the others.                                       *)
Connect(w) ==
  /\ worker[w] = "created"
  /\ worker' = [worker EXCEPT ![w] = "connected"]
  /\ UNCHANGED <<view, main>>

(* broker.start ends when the service has started. The service of a parser  *)
(* waits for nothing, and that of a fetcher starts its pools; that of an    *)
(* indexer first waits for a fetcher, then for a parser.                    *)
StartService(w) ==
  /\ worker[w] = "connected"
  /\ w \in Indexer => view[w] \cap Fetcher # {} /\ view[w] \cap Parser # {}
  /\ worker' = [worker EXCEPT ![w] = "announced"]
  /\ UNCHANGED <<view, main>>

(* The rest of a worker's bootstrap: a fetcher waits for a parser, and an   *)
(* indexer initializes its domain.                                          *)
FinishWorker(w) ==
  /\ worker[w] = "announced"
  /\ w \in Fetcher => view[w] \cap Parser # {}
  /\ worker' = [worker EXCEPT ![w] = "ready"]
  /\ UNCHANGED <<view, main>>

(* The services a node calls or waits for; what it learns of the others     *)
(* makes no difference to it.                                               *)
Needs(n) ==
  CASE n = Main       -> Fetcher \cup Indexer
    [] n \in Indexer  -> Fetcher \cup Parser
    [] n \in Fetcher  -> Parser
    [] n \in Parser   -> {}

(* A node receives the announcement of another.                             *)
Learn(n, w) ==
  /\ w \in (Announced \cap Needs(n)) \ view[n]
  /\ n # Main => worker[n] # "created"
  /\ view' = [view EXCEPT ![n] = @ \cup {w}]
  /\ UNCHANGED <<worker, main>>

(* What every connected worker knows when announcements are prompt.         *)
AllTold == \A w \in Worker : worker[w] # "created" => Announced \cap Needs(w) \subseteq view[w]

(* Mutant: the main process does not wait for its fetchers. *)
IndexersOnly ==
  /\ main \in {"fetchers", "indexers"} /\ Indexer \subseteq view[Main] /\ main' = "running"
  /\ Prompt => AllTold
  /\ UNCHANGED <<worker, view>>

(* initMainFetcher and initMainIndexer, which poll until they know all the  *)
(* workers of their kind.                                                   *)
MainStep ==
  /\ Prompt => AllTold
  /\ \/ main = "fetchers" /\ LocalFetcher \subseteq view[Main] /\ main' = "indexers"
     \/ main = "indexers" /\ Indexer \subseteq view[Main] /\ main' = "running"
  /\ UNCHANGED <<worker, view>>

StartupNext ==
  \/ \E w \in Worker : Connect(w) \/ StartService(w) \/ FinishWorker(w)
  \/ \E n \in Worker \cup {Main}, w \in Worker : Learn(n, w)
  \/ MainStep
================================================================================
