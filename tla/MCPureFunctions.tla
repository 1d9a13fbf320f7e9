---------------------------- MODULE MCPureFunctions ----------------------------
(***************************************************************************)
(* The inputs that the functions without state are checked on. "part" says  *)
(* which functions "given" is for:                                          *)
(*   "ranges"  a stream of ranges: "streamed" of RangeStream is the input;  *)
(*   "keys"    the schemas of two chunks and the entities of a store;       *)
(*   "streams" increasing streams, built one item at a time;                *)
(*   "items"   transactions with inner instructions, built likewise;        *)
(*   "requests" requests to a rate limited node, one after another;         *)
(*   "blocks"  how many transactions, or logs, each block of a chain has;   *)
(*   "runs"    runs of a job of a fetcher, one after another;               *)
(*   "calls"   a ring of nodes, and the names that calls are about.         *)
(***************************************************************************)
EXTENDS RangeStream, StorageKeys, Streams, RateLimits, RpcClients, FiniteSets

CONSTANTS MaxItems, LastValue

VARIABLES part, given

Jobs == INSTANCE JobIntervals
Routes == INSTANCE CallRouting

Number == [length |-> 2, padEnd |-> FALSE]
Address == [length |-> 2, padEnd |-> TRUE]
Variable == [length |-> VariableLength, padEnd |-> FALSE]

SchemaPairs == {<<Variable, Number>>, <<Address, Number>>, <<Number, Address>>, <<Address, Variable>>}
Strings == {<<Low>>, <<High>>, <<Low, High>>, <<High, Low>>}
Tuples == Strings \X {<<Low>>, <<High>>, <<High, Low>>, Undefined}
Bounds ==
  {NoBound} \cup {<<s>> : s \in Strings} \cup (Strings \X {<<High>>, <<High, Low>>, Undefined})
    \cup ({Undefined} \X {<<High>>})

Names == {<<"a", 1>>, <<"A", 1>>, <<"b", 1>>}
Letters == {<<"a">>, <<"A">>, <<"b">>}

Sources == 1..3
Items(s) == [value : 1..LastValue, source : {s}]

Init ==
  /\ StreamInit
  /\ \/ /\ part = "keys"
        /\ \E schemas \in SchemaPairs, a, b \in Tuples : given = [schemas |-> schemas, tuples |-> {a, b}]
     \/ part = "streams" /\ \E n \in Sources : given = [s \in 1..n |-> <<>>]
     \/ part \in {"ranges", "items", "requests", "runs"} /\ given = <<>>
     \/ part = "blocks" /\ \E n \in 0..2 : given = <<n>>
     \/ /\ part = "calls"
        /\ \E ring \in [Names \cup Letters -> 1..2] : given = [ring |-> ring, names |-> <<>>]

Requests == [gap : {0, 1, 3}, takes : {0, 2, 5}, weight : 1..2]

Runs ==
  [count : {0, 20, 100, 101}, error : BOOLEAN, took : {0}]
    \cup [count : {20}, error : {FALSE}, took : {5000}]

Total(sources) == Len(FlattenSeq(sources))

NextGiven ==
  \/ /\ part = "streams"
     /\ Total(given) < MaxItems
     /\ \E s \in DOMAIN given : \E item \in Items(s) :
          /\ given[s] # <<>> => AtMost(Last(given[s]), item)
          /\ given' = [given EXCEPT ![s] = Append(@, item)]
  \/ /\ part \in {"items", "blocks"}
     /\ Len(given) < MaxItems
     /\ \E n \in 0..2 : given' = Append(given, n)
  \/ /\ part = "requests"
     /\ \E request \in Requests :
          /\ WeightOf(given) + request.weight <= MaxItems
          /\ given' = Append(given, request)
  \/ /\ part = "runs"
     /\ Len(given) < MaxItems - 1
     /\ \E run \in Runs : given' = Append(given, run)
  \/ /\ part = "calls"
     /\ Len(given.names) < MaxItems - 2
     /\ \E name \in Names : given' = [given EXCEPT !.names = Append(@, name)]

Next ==
  /\ UNCHANGED part
  /\ \/ part = "ranges" /\ ReadRange /\ UNCHANGED given
     \/ NextGiven /\ UNCHANGED streamed

Spec == Init /\ [][Next]_<<part, given, streamed>>
-----------------------------------------------------------------------------
(* The order of values: numbers by their digits, the shorter first; others  *)
(* as strings. What is undefined comes after everything.                    *)
ValueBefore(schema, v, w) ==
  \/ v # Undefined /\ w = Undefined
  \/ /\ v # Undefined /\ w # Undefined
     /\ IF schema = Number THEN Len(v) < Len(w) \/ (Len(v) = Len(w) /\ LexBefore(v, w))
        ELSE LexBefore(v, w)

TupleBefore(schemas, t, u) ==
  \E i \in DOMAIN t : ValueBefore(schemas[i], t[i], u[i]) /\ \A j \in 1..i - 1 : t[j] = u[j]

(* The chunks a bound gives, to compare with as many of an entity's.        *)
Prefix(t, bound) == SubSeq(t, 1, Len(bound))
Given1(bound) == SelectSeq(bound, LAMBDA v : v # Undefined)

WithinBounds(schemas, start, end, t) ==
  /\ start # NoBound => LET s == Given1(start) IN ~TupleBefore(schemas, Prefix(t, s), s)
  /\ end # NoBound => LET e == Given1(end) IN ~TupleBefore(schemas, e, Prefix(t, e))

(* A chunk of variable length that both bounds give, and go on after.       *)
Pinned(i, start, end) ==
  i < Len(Given1(end)) /\ i < Len(Given1(start)) /\ start[i] = end[i]

Unpinned(schemas, start, end) ==
  {i \in DOMAIN schemas : schemas[i] = Variable /\ ~Pinned(i, start, end)}

(* Else the bounds must not give it.                                        *)
Decided(schemas, start, end) ==
  \A i \in Unpinned(schemas, start, end) : i > Len(Given1(start)) /\ i > Len(Given1(end))

KeyOf(schemas, t) ==
  CHOOSE k \in IndexKeys(schemas, <<{t[1]}, {t[2]}>>, <<High>> \o t[1]) : TRUE

(* A range of a store has the entities whose values lie in it, in the order *)
(* of the values, numbers of fewer digits first; none is missed, none       *)
(* slips in, wherever padding, delimiters and "~" fall in their order.      *)
RangeIsExact ==
  part = "keys" =>
    LET schemas == given.schemas
        keys == {KeyOf(schemas, t) : t \in given.tuples}
        inOrder == SetToSortSeq(given.tuples, LAMBDA t, u : TupleBefore(schemas, t, u))
    IN \A start, end \in Bounds :
         (Decided(schemas, start, end) /\ \A b \in {start, end} : b = NoBound \/ b[1] # Undefined) =>
           LET found == GetEntries(schemas, keys, start, end, FALSE)
               within == SelectSeq(inOrder, LAMBDA t : WithinBounds(schemas, start, end, t))
               expected == [i \in DOMAIN within |-> KeyOf(schemas, within[i])]
           IN /\ IF Unpinned(schemas, start, end) = {} THEN found = expected
                 ELSE Range(found) = Range(expected)
              /\ GetKeys(schemas, keys, start, end, TRUE) = Reverse([i \in DOMAIN found |-> EntityKey(found[i])])
              /\ IF found = <<>> THEN GetFirstEntry(schemas, keys, start, end) = Undefined
                 ELSE /\ GetFirstEntry(schemas, keys, start, end) = found[1]
                      /\ GetLastEntry(schemas, keys, start, end) = Last(found)

(* Every entry of an index, also of an entity with several values or none   *)
(* in a chunk, leads back to the entity, and there is one for each value.   *)
IndexLeadsBack ==
  part = "keys" =>
    LET firsts == {t[1] : t \in given.tuples}
        seconds == {t[2] : t \in given.tuples}
        primaryKey == CHOOSE k \in PrimaryKeys(given.schemas, <<{<<High, Low>>}, {<<High>>}>>) : TRUE
        keys == IndexKeys(given.schemas, <<firsts, seconds>>, primaryKey)
        several(S) == Cardinality(S \ {Undefined})
    IN /\ \A k \in keys : EntityKey(k) = primaryKey
       /\ Cardinality(keys) =
            IF several(seconds) = 0 THEN several(firsts) ELSE several(firsts) * several(seconds)

Stored(schemas, t) == CHOOSE k \in PrimaryKeys(schemas, <<{t[1]}, {t[2]}>>) : TRUE

(* An entity is found by its values, and no other is taken for it; the one  *)
(* with the least values, and the one with the greatest, bound all others.  *)
EntityIsFound ==
  part = "keys" =>
    LET schemas == given.schemas
        keys == {Stored(schemas, t) : t \in given.tuples}
        all == GetAllEntries(schemas, keys)
        known(t) == IF t \in given.tuples THEN Stored(schemas, t) ELSE Undefined
    IN /\ \A t \in Tuples :
            /\ GetEntity(schemas, keys, t) = known(t)
            /\ EntityExists(keys, Stored(schemas, t)) <=> t \in given.tuples
            /\ \A u \in given.tuples :
                 GetEntities(schemas, keys, <<t, u>>) = <<known(t), Stored(schemas, u)>>
       /\ Range(all) = keys
       /\ all[1] = GetLastOfAll(schemas, keys) /\ Last(all) = GetFirstOfAll(schemas, keys)
       /\ all[1] = GetLast(keys) /\ Last(all) = GetFirst(keys)

(* A store finds exactly what lies in a range, by every index of it.        *)
KeysAreExact == RangeIsExact /\ IndexLeadsBack /\ EntityIsFound
-----------------------------------------------------------------------------
OfSource(stream, s) == SelectSeq(stream, LAMBDA item : item.source = s)

(* Merged streams have every item once, those of one stream in their order; *)
(* the sorted merge is increasing, whichever streams end first.             *)
MergeKeepsOrder ==
  part = "streams" =>
    LET sorted == MergeShuffledSortedStreams(given)
    IN /\ \A merged \in {sorted, MergeShuffledStreams(given), MergeStreams(given)} :
            /\ Len(merged) = Total(given)
            /\ \A s \in DOMAIN given : OfSource(merged, s) = given[s]
       /\ \A i, j \in DOMAIN sorted : i < j => AtMost(sorted[i], sorted[j])
-----------------------------------------------------------------------------
(* Two instructions to a transaction; the i-th has the number 10i + 9 and   *)
(* given[i] inner ones, numbered from 10i + 1.                              *)
Outer(i) == 10 * i + 9
InnerOf(i) == [k \in 1..given[i] |-> 10 * i + k]

Transaction(first) ==
  LET last == IF first < Len(given) THEN first + 1 ELSE first
      numbers == [n \in 1..last - first + 1 |-> Outer(first + n - 1)]
      groups == [n \in 1..last - first + 1 |->
                   [index |-> n, instructions |-> InnerOf(first + n - 1)]]
  IN ParseInstructions(numbers, groups)

Transactions == [n \in 1..(Len(given) + 1) \div 2 |-> Transaction(2 * n - 1)]

Wanted == {number \in 1..Outer(MaxItems) : number % 3 # 0}
Liked == {t \in Range(Transactions) : Len(t) = 2 \/ t[1].inner # <<>>}

(* The domain's indexInstructions gets every instruction it wants of the    *)
(* transactions it likes, once, inner ones before their own instruction, in *)
(* the order of the stream, in full batches up to the last.                 *)
BatchesAreComplete ==
  part = "items" =>
    LET batches == InstructionBatches(Transactions, Liked, 2, Wanted, 3)
        expected == UNION {UNION {{t[i].number} \cup Range(t[i].inner) : i \in DOMAIN t}
                             : t \in Liked}
        inOrder == SelectSeq([n \in 1..Outer(MaxItems) |-> n], LAMBDA n : n \in expected \cap Wanted)
            handed == StreamUnBuffer(batches)
    IN /\ [i \in DOMAIN handed |-> handed[i].instruction] = inOrder
       /\ \A n \in DOMAIN batches : Len(batches[n]) = 3 \/ (n = Len(batches) /\ batches[n] # <<>>)
       /\ \A c \in Range(handed) :
            c.parent = IF c.instruction % 10 = 9 THEN 0 ELSE 10 * (c.instruction \div 10) + 9

(* Nothing is lost, repeated or put out of order on its way in a stream.    *)
StreamsAreExact == MergeKeepsOrder /\ BatchesAreComplete
-----------------------------------------------------------------------------
Limits == {[interval |-> 4, limit |-> 2, maxConcurrence |-> 2, sparse |-> b] : b \in BOOLEAN}

(* A node never gets more weight than the limit in any interval, nor more   *)
(* requests at a time than it may have, in whatever order they end.         *)
LimitsAreKept ==
  part = "requests" =>
    \A conf \in Limits :
      LET grants == Grants(conf, given, 20)
          at(t) == SelectSeq(grants, LAMBDA g : g.at \in t..(t + conf.interval - 1))
          during(t) == SelectSeq(grants, LAMBDA g : t \in g.at..(g.until - 1))
      IN  \A g \in Range(grants) :
            /\ WeightOf(at(g.at)) <= conf.limit
            /\ Len(during(g.at)) <= conf.maxConcurrence

(* Every request is granted, and none is held back once those before it     *)
(* ended and their interval passed (but for the ticks that tell apart the   *)
(* times of completed requests).                                            *)
RequestsAreGranted ==
  part = "requests" =>
    \A conf \in Limits :
      LET grants == Grants(conf, given, 20)
          arrived(n) == 1 + FoldLeft(LAMBDA t, r : t + r.gap, 0, SubSeq(given, 1, n))
          clear(n) == {Larger(grants[m].until, grants[m].at + conf.interval) : m \in 1..(n - 1)}
      IN  /\ Len(grants) = Len(given)
          /\ \A n \in DOMAIN grants :
               \E t \in clear(n) \cup {arrived(n)} : grants[n].at <= t + n

(* Requests go to a node no faster than they may and no slower than need be.*)
RequestsAreLimited == LimitsAreKept /\ RequestsAreGranted
-----------------------------------------------------------------------------
Node == [blocks |-> given, limit |-> 1, broken |-> {}, lost |-> {}, hint |-> 0]
Indexed(S) == IndexBlocks(GetBlocks(Node, SetToSeq(S)))
Blocks == Heights(Node)

(* The logs of a range of blocks are all there, once and in their order,    *)
(* though a node does not answer with so many at a time, wherever it says   *)
(* that the range may be split; unless one block has more.                  *)
LogsInRangeAreWhole ==
  part = "blocks" =>
    \A from, to \in Blocks, contract \in {Null, 0, 1}, hint \in Blocks \cup {Len(given)} :
      \A broken \in {{}, {to}} :
        LET node == [Node EXCEPT !.hint = hint, !.broken = broken]
            logs == GetBlockLogsInRange(node, Indexed(Blocks), from, to, contract)
            all == Found(node, from, to, contract)
            tooMany == \E h \in Blocks : h \in from..to /\ Len(Found(node, h, h, contract)) > 1
        IN from <= to =>
             logs = IF broken # {} \/ tooMany THEN Failure
                    ELSE [i \in DOMAIN all |->
                            [id |-> all[i], timestamp |-> Indexed(Blocks)[all[i].height]]]

Unknown == [height |-> 0, index |-> 9]
Ids == FlattenSeq([n \in DOMAIN given |-> SetToSeq(Range(ItemsAt(Node, n - 1)))]) \o <<Unknown>>

(* An answer for each id, at its place: null, or what was asked for with    *)
(* the time of its block, when that is indexed.                             *)
InLine(ids, answers, lost, times) ==
  /\ Len(answers) = Len(ids)
  /\ \A i \in DOMAIN ids :
       /\ answers[i] = Null \/ answers[i].id = ids[i]
       /\ ids[i] \in lost \cup {Unknown} => answers[i] = Null
       /\ (ids[i] \notin lost \cup {Unknown} /\ ids[i].height \in DOMAIN times) =>
            answers[i] # Null /\ answers[i].timestamp = times[ids[i].height]

OldSlots == [h \in Blocks |-> IF h < 2 THEN NoTime ELSE 3 + h]

(* An id that a node fails to answer for neither moves the others to its    *)
(* place nor fails them, if errors are swallowed; a second try at another   *)
(* node finds what the first did not know.                                  *)
AnswersLineUp ==
  part = "blocks" =>
    \A lost \in {{}} \cup {{Ids[i]} : i \in DOMAIN Ids}, S \in {Blocks, Blocks \ {1}} :
      LET node == [Node EXCEPT !.lost = lost, !.limit = 9]
          index == Indexed(S)
          stored == [id \in Range(Ids) \ (lost \cup {Unknown}) |->
                       [id |-> id, timestamp |-> Indexed(Blocks)[id.height]]]
          slots == [h \in Blocks |-> CalculateBlockTimestamp(h, OldSlots[h])]
          own == [node EXCEPT !.blocks = SubSeq(given, 1, Len(given) - 1)]
      IN /\ InLine(Ids, GetTransactions(node, index, Ids, TRUE), lost, index)
         /\ GetTransactions(node, index, Ids, FALSE) = Failure
         /\ InLine(Ids, FetchLogs(node, index, <<>>, Ids, TRUE), {}, index)
         /\ InLine(Ids, FetchLogs(node, index, stored, Ids, FALSE), lost, Indexed(Blocks))
         /\ \A retry \in BOOLEAN :
              LET found == FetchTransactions(own, node,
                             [h \in S |-> CompleteSignature([height |-> h, index |-> 1], OldSlots).timestamp],
                             Ids, OldSlots, retry)
                  missing == IF retry THEN lost
                             ELSE lost \cup {id \in Range(Ids) : id.height = Len(given) - 1}
              IN InLine(Ids, found, missing, slots)

(* What the clients answer is all that was asked for, each at its place.    *)
AnswersAreExact == LogsInRangeAreWhole /\ AnswersLineUp
-----------------------------------------------------------------------------
SolanaForward ==
  [interval |-> 0, intervalInit |-> 0, intervalMax |-> 300000, autoInterval |-> TRUE]
EthereumForward ==
  [interval |-> 10000, intervalInit |-> Jobs!Undefined, intervalMax |-> 10000, autoInterval |-> FALSE]

Resets(run) == run.count > 100 /\ ~run.error
Quiet == [n \in 1..9 |-> [count |-> 0, error |-> FALSE, took |-> 0]]

(* An account in a pool is fetched as often as by a runner that goes on:    *)
(* what the pool saves stands for the runner's interval, runs that fail are *)
(* repeated and do not slow it down. An account without news slows down to  *)
(* the longest interval and no further. (A run that resets: see README.)    *)
PaceIsKept ==
  part = "runs" =>
    \A options \in {SolanaForward, EthereumForward} :
      LET pool == Jobs!InPool(options, given)
          quiet == Jobs!InPool(options, given \o Quiet)
          restarted == Jobs!Start(options, pool.frequency)
          failed(run) == [run EXCEPT !.error = TRUE]
      IN /\ (options.autoInterval => ~\E i \in DOMAIN given : Resets(given[i])) =>
              pool.job = Jobs!Alone(options, given)
         /\ (given = <<>> \/ ~Last(given).error) => restarted.job.interval = pool.job.interval
         /\ \A run \in Range(given) :
              Jobs!InPool(options, Append(given, failed(run))).job.at = pool.job.at + run.took + 1000
         /\ quiet.job.interval = options.intervalMax
-----------------------------------------------------------------------------
Services == [ethereum |-> {"transaction", "log"}, solana |-> {"transaction"}]
Indexers == 3..4                  (* the nodes of fetchers are 1 and 2      *)
Fetched == {<<"ethereum", "transaction">>, <<"ethereum", "log">>, <<"solana", "transaction">>}
ClientOf(chain, node) == [chain |-> chain, node |-> node]
NamesOf(chain) == {Routes!Normalize(chain, name) : name \in Range(given.names)}

(* Whatever is asked about an account reaches the fetcher that was told of  *)
(* it, and what is asked about an entity the fetcher it was left to, by any *)
(* indexer and however the name is written. (The logs of an account are     *)
(* with the account: who asks about one by its id does not find it.)        *)
FetcherCallsMeet ==
  \A kind \in Fetched, i, j \in Indexers :
    LET chain == kind[1]
        type == [type |-> kind[2]]
        at(node, method, name) ==
          Routes!AtFetcher(given.ring, Services,
            Routes!AccountCall(ClientOf(chain, node), method, [account |-> name] @@ type))
        fetch(node, names) ==
          Routes!AllWorks(given.ring, Services,
            Routes!FetchEntitiesById(ClientOf(chain, node), [ids |-> names] @@ type))
        asked == Routes!GetEntityState(ClientOf(chain, i), [ids |-> given.names] @@ type)
    IN /\ \A x, y \in Range(given.names), method \in Routes!Actions :
            Routes!Normalize(chain, x) = Routes!Normalize(chain, y) =>
              at(i, "addAccountEntityFetcher", x) = at(j, method, y)
       /\ fetch(i, given.names) = Routes!AllWorks(given.ring, Services, asked)
       /\ {w.id : w \in fetch(i, given.names)} = NamesOf(chain)
       /\ \A name \in Range(given.names) :
            {[w EXCEPT !.peer = i] : w \in fetch(j, <<name>>)} \subseteq fetch(i, given.names)
       /\ FoldSet(LAMBDA call, n : n + Len(call.params.ids), 0, asked) = Len(given.names)

(* What a fetcher has its siblings fetch comes back to the indexers that    *)
(* asked for the dates, and to no other: all that the parser understands.   *)
FetchedComesBack ==
  \A kind \in Fetched, account \in Names, nodes \in SUBSET Indexers, flawed \in SUBSET Letters :
    LET chain == kind[1]
        call(i) == Routes!AccountCall(ClientOf(chain, i), "fetchAccountEntitiesByDate",
                                      [account |-> account, type |-> kind[2]])
        works(i) == Routes!FetchByDate(given.ring, Services, call(i), given.names)
        all == UNION {works(i) : i \in nodes}
        peersOf(w) == {v.peer : v \in {u \in all : u.node = w.node /\ u.id = w.id}}
        msgs == {[entity |-> w.id, peers |-> SetToSeq(peersOf(w))] : w \in all}
        unclear == {id \in NamesOf(chain) : <<id[1]>> \in flawed}
        got == Routes!EmitParsedEntities(Indexers, Routes!OnEntities(SetToSeq(msgs), unclear))
    IN /\ \A w \in all : w.fetcher = kind
       /\ \A i \in Indexers :
            /\ Range(got[i]) = IF i \in nodes THEN NamesOf(chain) \ unclear ELSE {}
            /\ Len(got[i]) = Cardinality(Range(got[i]))

(* The main domain asks about each account, once, the indexer that has it,  *)
(* unless an index option moved it to another with a key of its own; it     *)
(* knows the accounts that are indexed for every type they should be.       *)
DomainCallsMeet ==
  \A chain \in DOMAIN Services, index \in SUBSET {"transaction", "log"} :
    LET client == ClientOf(chain, 0)
        indexers == [key \in DOMAIN given.ring |-> given.ring[key] + 2]
        options == {[account |-> name, index |-> index] : name \in Range(given.names)}
        held == Routes!IndexAccounts(indexers, client, Services, options)
        known == Routes!Known(client, Services, options)
        states(type, asked) ==
          Routes!GetAccountState(indexers, client, held, known, type, asked)
        stored == [node \in Indexers |->
                     SetToSeq({{h.account} : h \in {x \in held : x.node = node}})]
    IN /\ \A type \in index :
            /\ Range(states(type, <<>>)) = {h \in held : h.type = type /\ h.account \in known}
            /\ Len(states(type, given.names)) = IF index \subseteq Services[chain] THEN Len(given.names) ELSE 0
       /\ \A h \in held :
            h.account \in known =>
              <<h.node, h.account>> \in Range(Routes!StatsCalls(indexers, client, known, <<>>))
       /\ \A name \in Range(given.names) :
            LET found == Routes!GetEntityPendingRequests(client, <<>>, <<3, 4>>, stored, name)
                own == {h \in held : h.account = Routes!Normalize(chain, name)}
            IN /\ Len(found) = Cardinality({h.node : h \in own})
               /\ \A request \in Range(found) : \E h \in own : h.node = request.indexer

(* Every call reaches the state that it is about, and its answer who asked. *)
CallsMeet == part = "calls" => FetcherCallsMeet /\ FetchedComesBack /\ DomainCallsMeet
=============================================================================
