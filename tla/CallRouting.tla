------------------------------ MODULE CallRouting ------------------------------
(***************************************************************************)
(* The way of a call to the process that has the state it is about: clients *)
(* that write names in one way and add a partition key, the ring that finds *)
(* a node for a key, services that look up the blockchain and the type, and *)
(* the way of what was fetched back to the indexers that asked for it.      *)
(*                                                                         *)
(* A name, of an account or an entity, is <<its first letter, the rest>>;   *)
(* a partition key is such a name, or <<a letter>>.                         *)
(* Records stand for arguments: in x @@ y, x is spread after y.             *)
(***************************************************************************)
EXTENDS Naturals, Sequences, SequencesExt

CONSTANTS Failure

Lower == [a |-> "a", A |-> "a", b |-> "b"]

(* normalizeAccount and normalizeEntityId of both blockchains               *)
Normalize(chain, name) ==
  IF chain = "ethereum" THEN <<Lower[name[1]], name[2]>> ELSE name

MapEntityIds(chain, ids) == [i \in DOMAIN ids |-> Normalize(chain, ids[i])]

Has(args, name) == name \in DOMAIN args
-----------------------------------------------------------------------------
(* The clients of the fetchers. client.node is the process it is in.        *)
(*                                                                         *)
(* addAccountEntityFetcher, delAccountEntityFetcher, fetchAccountEntities-  *)
(* ByDate, getAccountEntityFetcherState                                     *)
AccountCall(client, method, args) ==
  LET account == Normalize(client.chain, args.account)
  IN [method |-> method,
      params |-> ([account |-> account] @@ args) @@
                 [partitionKey |-> account, indexerId |-> client.node, blockchainId |-> client.chain]]

GetEntityPartitionGroups(ids, args) ==
  IF Has(args, "partitionKey") THEN args.partitionKey :> ids
  ELSE [key \in {<<ids[i][1]>> : i \in DOMAIN ids} |-> SelectSeq(ids, LAMBDA id : <<id[1]>> = key)]

(* Mutant: the arguments of the caller come first. *)
CallForClient(client, method, args, groups) ==
  {[method |-> method,
    params |-> [partitionKey |-> key, ids |-> groups[key], indexerId |-> client.node,
                blockchainId |-> client.chain] @@ args] : key \in DOMAIN groups}

(* A call for each group. Who asks is this process, unless the arguments    *)
(* name the one that it asks for.                                           *)
CallForEach(client, method, args, groups) ==
  {[method |-> method,
    params |-> ([partitionKey |-> key, ids |-> groups[key]] @@ args) @@
               [indexerId |-> client.node, blockchainId |-> client.chain]] : key \in DOMAIN groups}

(* Logs of Ethereum, of an account, are where the history of the account is.*)
WithAccountKey(client, args) ==
  IF client.chain = "ethereum" /\ args.type = "log" /\ Has(args, "meta")
    THEN [partitionKey |-> Normalize(client.chain, args.meta.account)] @@ args
    ELSE args

FetchEntitiesById(client, given) ==
  LET args == WithAccountKey(client, given)
  IN CallForEach(client, "fetchEntitiesById", args,
       GetEntityPartitionGroups(MapEntityIds(client.chain, args.ids), args))

GetEntityState(client, args) ==
  CallForEach(client, "getEntityState", args,
    GetEntityPartitionGroups(MapEntityIds(client.chain, args.ids), <<>>))
-----------------------------------------------------------------------------
(* The services of a fetcher: getBlockchainInstance, then                   *)
(* getEntityFetcherInstance; names are normalized again.                    *)
Actions ==
  {"addAccountEntityFetcher", "delAccountEntityFetcher", "getAccountEntityFetcherState",
   "fetchAccountEntitiesByDate", "fetchEntitiesById", "getEntityState"}

EntityFetcherOf(services, call) ==
  IF \/ call.method \notin Actions
     \/ ~Has(call.params, "blockchainId")
     \/ call.params.blockchainId \notin DOMAIN services
     \/ call.params.type \notin services[call.params.blockchainId]
    THEN Failure
    ELSE <<call.params.blockchainId, call.params.type>>

AtFetcher(ring, services, call) ==
  [node |-> ring[call.params.partitionKey],
   fetcher |-> EntityFetcherOf(services, call),
   account |-> Normalize(call.params.blockchainId, call.params.account)]

(* What a call leaves to a fetcher, or asks it about: its ids, and the peer *)
(* that they are for.                                                       *)
WorksOf(ring, services, call) ==
  {[node |-> ring[call.params.partitionKey],
    fetcher |-> EntityFetcherOf(services, call),
    id |-> id,
    peer |-> call.params.indexerId] : id \in Range(MapEntityIds(call.params.blockchainId, call.params.ids))}

AllWorks(ring, services, calls) == UNION {WorksOf(ring, services, call) : call \in calls}

(* fetchAccountEntitiesByIdFromDateRange: the fetcher of the account leaves *)
(* the ids to its siblings, in the name of the indexer that asked it.       *)
FetchByDate(ring, services, call, ids) ==
  LET client == [chain |-> call.params.blockchainId, node |-> AtFetcher(ring, services, call).node]
  IN AllWorks(ring, services, FetchEntitiesById(client,
       [type |-> call.params.type, ids |-> ids, indexerId |-> call.params.indexerId,
        meta |-> call.params]))
-----------------------------------------------------------------------------
(* The parser: an entity that it cannot parse is left out.                  *)
OnEntities(msgs, flawed) == SelectSeq(msgs, LAMBDA msg : msg.entity \notin flawed)

(* groupEntities: what each peer gets, and what nobody in particular does   *)
GroupEntities(msgs) ==
  LET entities(msgsOf) == [i \in DOMAIN msgsOf |-> msgsOf[i].entity]
  IN [groups |-> [peer \in UNION {Range(msgs[i].peers) : i \in DOMAIN msgs} |->
                    entities(FlattenSeq([i \in DOMAIN msgs |->
                      [n \in DOMAIN SelectSeq(msgs[i].peers, LAMBDA p : p = peer) |-> msgs[i]]]))],
      broadcast |-> entities(SelectSeq(msgs, LAMBDA msg : msg.peers = <<>>))]

(* An event goes to the groups it is sent to. The clients in the indexers   *)
(* listen in a group with the name of their node: the group that broadcasts *)
(* go to, "parser_ms_client", is nobody's.                                  *)
EmitParsedEntities(indexers, msgs) ==
  LET parsed == GroupEntities(msgs)
  IN [node \in indexers |->
        IF node \in DOMAIN parsed.groups THEN parsed.groups[node] ELSE <<>>]
-----------------------------------------------------------------------------
(* The client of the indexers: indexAccount, getAccountState and, for the   *)
(* domain, invokeDomainMethod, which may name the node.                     *)
IndexerCall(client, method, args) ==
  LET account == Normalize(client.chain, args.account)
  IN [method |-> method,
      params |-> ([account |-> account] @@ args) @@
                 [partitionKey |-> account, blockchainId |-> client.chain]]

IndexerOf(ring, call) ==
  IF call.method = "invokeDomainMethod" /\ Has(call.params, "indexer") THEN call.params.indexer
  ELSE ring[call.params.partitionKey]

(* BaseIndexer.indexAccount: the types one after another, up to one   *)
(* that is not served, which fails; what was added before it stays.         *)
IndexedTypes(services, chain, index) ==
  LET wanted == SelectSeq(<<"transaction", "log", "state">>, LAMBDA type : type \in index)
  IN {wanted[i] : i \in {n \in DOMAIN wanted : \A j \in 1..n : wanted[j] \in services[chain]}}

(* The main domain: indexAccounts. An account is known when the call for it *)
(* has not failed. options: the accounts found, with the types to index.    *)
AccountOf(client, option) == Normalize(client.chain, option.account)

Known(client, services, options) ==
  {AccountOf(client, o) : o \in
    {p \in options : IndexedTypes(services, client.chain, p.index) = p.index}}

IndexAccounts(ring, client, services, options) ==
  UNION {{[node |-> IndexerOf(ring, IndexerCall(client, "indexAccount", o)),
           account |-> AccountOf(client, o), type |-> type]
            : type \in IndexedTypes(services, client.chain, o.index)} : o \in options}

(* getBlockchainAccounts: all that are known, unless some are asked for     *)
GetBlockchainAccounts(client, known, asked) ==
  IF asked = <<>> THEN SetToSeq(known)
  ELSE SelectSeq(MapEntityIds(client.chain, asked), LAMBDA account : account \in known)

(* getAccountState of the main domain: the states that there are            *)
GetAccountState(ring, client, held, known, type, asked) ==
  LET stateOf(account) ==
        [node |-> IndexerOf(ring, IndexerCall(client, "getAccountState", [account |-> account])),
         account |-> account, type |-> type]
      accounts == GetBlockchainAccounts(client, known, asked)
  IN SelectSeq([i \in DOMAIN accounts |-> stateOf(accounts[i])], LAMBDA state : state \in held)

(* getAccountStats, getAccountTimeSeriesStats, _updateStats: the nodes that *)
(* the domain of an indexer is asked of, about each account                 *)
StatsCalls(ring, client, known, asked) ==
  LET accounts == GetBlockchainAccounts(client, known, asked)
  IN [i \in DOMAIN accounts |->
        <<IndexerOf(ring, IndexerCall(client, "invokeDomainMethod", [account |-> accounts[i]])),
          accounts[i]>>]

(* getEntityPendingRequests: of all indexers, or those given, and each says *)
(* which of the requests of its store are for the entity.                   *)
GetEntityPendingRequests(client, nodes, all, stored, id) ==
  LET asked == IF nodes = <<>> THEN all ELSE nodes
      tagged(node) ==
        [i \in DOMAIN stored[node] |-> [indexer |-> node, ids |-> stored[node][i]]]
  IN FlattenSeq([i \in DOMAIN asked |->
       SelectSeq(tagged(asked[i]), LAMBDA request : Normalize(client.chain, id) \in request.ids)])
=============================================================================
