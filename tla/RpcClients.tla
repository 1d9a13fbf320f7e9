------------------------------- MODULE RpcClients -------------------------------
(***************************************************************************)
(* What the clients of the two blockchains make of the answers of a node:   *)
(* batches of requests of which some fail, ranges of logs too large for one *)
(* answer, and the timestamps that neither node gives with what it is asked *)
(* for. A node is a record of what it knows and of when it fails.           *)
(***************************************************************************)
EXTENDS Naturals, FiniteSets, Sequences, SequencesExt

CONSTANTS
  Null,                     (* in the place of an answer                    *)
  Failure                   (* in the place of all answers: the call throws *)

ASSUME NullAssumption == Null # Failure

NoTime == 0                 (* undefined, and what JavaScript takes for it  *)
Genesis == 500              (* genesisBlockTimestamp, less than any other   *)

RangeOf(from, to) == [n \in 1..to - from + 1 |-> from + n - 1]
-----------------------------------------------------------------------------
(* An Ethereum node: the numbers of what its blocks have, from block 0 on;  *)
(* the most logs it answers with; the blocks it fails to read; where it     *)
(* says that a range too large could be split: what it says is a block, or  *)
(* nothing.                                                                 *)
Heights(node) == 0..Len(node.blocks) - 1
ItemsAt(node, h) == [k \in 1..node.blocks[h + 1] |-> [height |-> h, index |-> k]]

(* In seconds; the genesis block has none.                                  *)
Seconds(h) == IF h = 0 THEN 0 ELSE 2 + h

(* processJsonRpcResult: a message that is an error, or nothing, is null or *)
(* fails them all; an answer that is an array is as many items.             *)
ProcessJsonRpcResult(messages, swallowErrors) ==
  IF ~swallowErrors /\ Failure \in Range(messages) THEN Failure
  ELSE FlattenSeq([i \in DOMAIN messages |->
         IF messages[i] = Failure THEN <<Null>> ELSE messages[i]])

(* completeBlocksInfo *)
CompleteBlocksInfo(block) ==
  LET millis == block.timestamp * 1000
  IN [block EXCEPT !.timestamp = IF block.number = 0 /\ millis = 0 THEN Genesis ELSE millis]

Block(h) == [number |-> h, timestamp |-> Seconds(h)]

GetBlocks(node, heights) ==
  IF Range(heights) \cap node.broken # {} THEN Failure
  ELSE LET blocks == ProcessJsonRpcResult([i \in DOMAIN heights |-> <<Block(heights[i])>>], FALSE)
       IN [i \in DOMAIN blocks |-> CompleteBlocksInfo(blocks[i])]

(* Promise.all: one that is rejected rejects them all.                      *)
AllOf(results) == IF Failure \in Range(results) THEN Failure ELSE results

(* Both of completeTransactionsWithBlockInfo and completeLogsWithBlockInfo: *)
(* the timestamp is that of the index, or else of the block, which getBlocks*)
(* completed and which is completed again (see README).                     *)
CompleteWithBlockInfo(node, index, item, swallowErrors) ==
  LET blocks == GetBlocks(node, <<item.height>>)
      unindexed == item.height \notin DOMAIN index
      timestamp == IF ~unindexed THEN index[item.height]
                   ELSE IF item.height = 0 THEN NoTime
                   ELSE CompleteBlocksInfo(blocks[1]).timestamp
  IN CASE item = Null -> IF swallowErrors THEN Null ELSE Failure
       [] OTHER -> IF unindexed /\ item.height # 0 /\ blocks = Failure THEN Failure
                   ELSE IF timestamp = NoTime THEN IF swallowErrors THEN Null ELSE Failure
                   ELSE [id |-> item, timestamp |-> timestamp]

CompleteAll(node, index, items, swallowErrors) ==
  IF items = Failure THEN Failure
  ELSE AllOf([i \in DOMAIN items |-> CompleteWithBlockInfo(node, index, items[i], swallowErrors)])

(* indexBlockAccountTransactions, indexBlockLogBloom: when a block's items  *)
(* were is kept with them, or with its bloom.                               *)
IndexBlocks(blocks) ==
  [h \in {b.number : b \in Range(blocks)} |->
     (CHOOSE b \in Range(blocks) : b.number = h).timestamp]
-----------------------------------------------------------------------------
(* A log is of one of two contracts, which its id says.                     *)
ContractOf(id) == id.index % 2

OfContract(items, contract) ==
  SelectSeq(items, LAMBDA item : contract \in {Null, ContractOf(item)})

Found(node, from, to, contract) ==
  OfContract(FlattenSeq([n \in DOMAIN RangeOf(from, to) |->
               ItemsAt(node, RangeOf(from, to)[n])]), contract)

(* The node's answer to getPastLogs. *)
PastLogs(node, from, to, contract) ==
  IF \/ \E h \in from..to : h \in node.broken
     \/ Len(Found(node, from, to, contract)) > node.limit
    THEN Failure
    ELSE Found(node, from, to, contract)

GetBlockLogs(node, index, from, to, swallowErrors, contract) ==
  LET logs == ProcessJsonRpcResult(<<PastLogs(node, from, to, contract)>>, swallowErrors)
  IN CompleteAll(node, index, logs, swallowErrors)

IsResultLimitError(node, from, to) == ~\E h \in from..to : h \in node.broken

(* Where the node says, if that is within the range.                        *)
SplitTo(node, from, to) ==
  IF node.hint \in from..(to - 1) THEN node.hint ELSE (from + to) \div 2

TailFrom(split) == split + 1

RECURSIVE GetBlockLogsInRange(_, _, _, _, _)

GetBlockLogsInRange(node, index, from, to, contract) ==
  LET logs == GetBlockLogs(node, index, from, to, FALSE, contract)
      split == SplitTo(node, from, to)
      head == GetBlockLogsInRange(node, index, from, split, contract)
      tail == GetBlockLogsInRange(node, index, TailFrom(split), to, contract)
  IN IF logs # Failure \/ ~IsResultLimitError(node, from, to) \/ from >= to THEN logs
     ELSE IF Failure \in {head, tail} THEN Failure
     ELSE head \o tail
-----------------------------------------------------------------------------
(* getTransactions: a request for each signature, in one batch.             *)
GetTransactions(node, index, signatures, swallowErrors) ==
  LET known(s) == s.height \in Heights(node) /\ s \in Range(ItemsAt(node, s.height))
      answer(s) == IF known(s) /\ s \notin node.lost THEN <<s>> ELSE Failure
      messages == [i \in DOMAIN signatures |-> answer(signatures[i])]
  IN CompleteAll(node, index, ProcessJsonRpcResult(messages, swallowErrors), swallowErrors)

(* getLogs: all logs of the block and contract of each id, of which those   *)
(* asked for are kept; ids without one have null.                           *)
GetLogs(node, index, ids, swallowErrors) ==
  LET logsOf(id) == GetBlockLogs(node, index, id.height, id.height, swallowErrors, ContractOf(id))
      wanted(id) == SelectSeq(logsOf(id), LAMBDA log : log # Null /\ log.id = id)
  IN IF \E i \in DOMAIN ids : logsOf(ids[i]) = Failure THEN Failure
     ELSE [i \in DOMAIN ids |-> IF wanted(ids[i]) = <<>> THEN Null ELSE Last(wanted(ids[i]))]

(* remoteFetchIds of the logs: first those stored, then those of the node.  *)
FetchLogs(node, index, stored, ids, isRetry) ==
  IF isRetry THEN GetLogs(node, index, ids, TRUE)
  ELSE [i \in DOMAIN ids |-> IF ids[i] \in DOMAIN stored THEN stored[ids[i]] ELSE Null]
-----------------------------------------------------------------------------
(* Solana: nodes know when a slot was from FirstTimed on; the slots before  *)
(* follow one another every SlotLength from the genesis on.                 *)
SlotLength == 400

CalculateBlockTimestamp(slot, blockTime) ==
  IF blockTime = NoTime THEN Genesis + slot * SlotLength ELSE blockTime * 1000

CompleteSignature(item, blockTime) ==
  [id |-> item, timestamp |-> CalculateBlockTimestamp(item.height, blockTime[item.height])]

(* Mutant: the answer to getBlockHeight is taken for a transaction. *)
HeightKept(messages) == SubSeq(messages, 1, Len(messages) - 1)

(* getBlockHeight is the first request of every batch.                      *)
DropFirst(messages) == Tail(messages)

(* completeTransactionsInfo: signatures are indexed with the timestamps of  *)
(* CompleteSignature.                                                       *)
CompleteTransactions(index, messages, blockTime, swallowErrors) ==
  LET timestamp(s) == IF s.height \in DOMAIN index THEN index[s.height]
                      ELSE CalculateBlockTimestamp(s.height, blockTime[s.height])
      complete(m) == IF m \in {Failure, Null} THEN IF swallowErrors THEN Null ELSE Failure
                     ELSE [id |-> m, timestamp |-> timestamp(m)]
  IN AllOf([i \in DOMAIN messages |-> complete(messages[i])])

GetConfirmedTransactions(node, index, signatures, blockTime, swallowErrors) ==
  LET known(s) == s.height \in Heights(node) /\ s \in Range(ItemsAt(node, s.height))
      answer(s) == IF s \in node.lost THEN Failure ELSE IF known(s) THEN s ELSE Null
      height == [height |-> Len(node.blocks), index |-> 0]
      messages == DropFirst(<<height>> \o [i \in DOMAIN signatures |-> answer(signatures[i])])
  IN CompleteTransactions(index, messages, blockTime, swallowErrors)

(* remoteFetchIds: the node of one's own, then one that knows everything.   *)
FetchTransactions(own, public, index, signatures, blockTime, isRetry) ==
  GetConfirmedTransactions(IF isRetry THEN public ELSE own, index, signatures, blockTime, TRUE)
=============================================================================
