# A TLA+ model of the Aleph indexer framework

The framework (TypeScript, `src/packages`) turns the history of blockchain
accounts into calls of a user-written *domain*. Three kinds of services work on
it: **fetchers** follow the history of accounts and fetch raw entities
(transactions, logs, blocks), **parsers** decode them, **indexers** ask for the
entities of a range of dates, wait until all of them came back, and hand them to
the domain. Everything that matters is kept in LevelDB so that, as the
repository's README puts it, "in case it crashes during the process, it can
start where it ended before". These modules say what that takes and check it.

## The system

| Part (source) | State | Operations | Hard parts |
|---|---|---|---|
| Indexer entity fetcher (`framework/.../indexer/src/entityFetcher.ts`, its `dal/`) | requests, pending entities, responses, incoming entities (stored); futures, mutex, two retry buffers, debounced check (memory) | `fetchEntitiesById`, `fetchAccountEntitiesByDate`, `onEntities`, completion check, retry job, `getResponse`/`remove` | answers before the request is saved, lost and repeated answers, crashes between two stores, two requests for one entity |
| Account entity indexer (`accountEntityIndexer.ts`) | ranges Pending/Ready/Processed (stored); three jobs | `start`, `fetchAllRanges`, `fetchRangeByDate`, `onEntityResponse`, `processRanges`, `mergeStates` | two writers of Ready, a range processed twice or never, restarts, compaction against the other jobs |
| Entity fetcher of the fetcher service (`fetcher/src/entityFetcher.ts`) | three pools of works, a cache (stored) | `fetchEntitiesById`, the handlers of the pools | the hand-over between pools, refused works, endless retries |
| Pending work pools, jobs (`core/.../concurrence`) | stored works; a debounced runner, chunks in hand | `addWork`, `runJob`, `checkComplete` | a work added again while handled, handlers left behind by a failed run |
| History fetchers (`baseHistoryFetcher.ts`, `ethereum`, `solana`) | cursors, job states (stored and in memory) | forward and backward runs | two jobs on one state, pages, incomplete nodes, restarts between fetch and save |
| Pool of history fetchers (`fetcherPool.ts`, `entityHistoryFetcher.ts`) | a work for each account | `addAccount`, `delAccount`, one run of an account | jobs that outlive their handler, when an account may leave |
| Storage (`core/src/storage`) | entities, indexes, counter; main and per-id mutexes | `save`, `remove`, `get`, ranges, streams | partial locking, streams that read records later than keys, keys as strings |
| Start, registry (`main.ts`, `workers/`, `entityIndexer.ts`, `utils/domain/indexer/main.ts`) | what each node knows of the others, accounts of main, indexers and fetchers | start of services, discovery, `indexAccount`, `deleteAccount` | who waits for whom, failed calls, two adds at once |
| Clients (`services/common.ts`, `client.ts` of each service) | none | routing by partition key, way back of the answers | two calls about one thing that reach different processes |
| Nodes' clients and rate limits (`ethereum/src/sdk`, `solana/src/sdk`, `core/.../ratelimit`) | caches of times, budgets | batches, splits, waits | one of several answers failing, boundaries |
| Statistics (`utils/stats`) | bars, recorded intervals | `process` | incomplete intervals, chunks in any order |
| GraphQL, account state fetcher, decoders, example | see `PROJECT.json` | | |

They interact so: the main process discovers accounts and has each indexed by
one indexer, which tells a fetcher to follow the account's history. The account
indexer asks that fetcher which dates it has, clips from them what its own store
knows, and requests the newest chunk from the entity fetcher of its process.
That one asks the fetcher service to list and fetch the entities; they pass its
three pools, are sent to a parser, and come back to the indexer as events. When
no entity is pending for a request it is marked complete, its future is resolved
and a `response` event is emitted; the range becomes Ready, is handed to the
domain, and becomes Processed; the request is removed. A job compacts the
Processed ranges; the statistics aggregate what was processed.

What makes each part correct:

- *entity fetcher of the indexer*: a request is reported complete only when
  every entity it asked for is on record; an entity an open request misses is
  never forgotten; every request is served in the end;
- *account indexer*: what counts as processed was handled; nothing is handled
  twice unless something failed; no instant on record is lost until merges read
  ranges that share instants; the history is handled in the end;
- *ranges*: clipping neither skips nor repeats an instant; merging keeps the
  instants; compaction never uncovers one, not even for a moment;
- *pools and entity fetcher*: an id that was accepted is on record until it was
  sent; who asks again is answered;
- *history*: between the cursors of a history nothing is missing, and what is
  offered by date is all there is; the walk back ends at the beginning;
- *storage*: calls that overlap have the effect of calls one after another, and
  an index agrees with its entities for every reader that holds the lock;
- *registry*: an account is in its indexer exactly if the fetcher that the
  indexer asks keeps the account's history;
- *statistics*: what is recorded as done has all its events.

`PROJECT.json` lists the hazards behind these, each at its line.

## The modules

| Module | What it is |
|---|---|
| `RequestBoard` | abstract: requests are opened, answered once all they want is known, closed |
| `IndexerEntityFetcher` | `BaseIndexerEntityFetcher` with its stores, mutex, pool, debounced check and retry job; implements `RequestBoard` |
| `DateRanges` | `clipDateRanges...`, `mergeDateRanges...` as operators |
| `IndexerStateCompaction` | `mergeStates` against a store where processed ranges appear |
| `AccountEntityIndexer` | `BaseAccountEntityIndexer`: the life of the ranges of one account; extends the compaction, uses the abstract board in place of the entity fetcher |
| `PendingWorkPool` | pools of stored works: `DebouncedJobRunner`, chunks, concurrent handlers |
| `EntityFetcher` | the three pools of the fetcher service and the way back to who asked; extends the pools |
| `FetcherPool` | the pool of the history fetchers of accounts with the `JobRunner`s of each; extends the pools |
| `BaseHistory` | `BaseHistoryFetcher`: two jobs that share one state |
| `EthereumHistory`, `SolanaHistory` | the history fetchers of the two kinds of blockchain; extend it |
| `AtomicStore` | abstract: each call on a store is one step |
| `EntityStorage` | entities and an index under mutexes by store or by id; implements `AtomicStore` |
| `ServiceStartup`, `AccountRegistry` | the start of the services, and on top of it which accounts are indexed where |
| `RangeStream` | a stream of ranges in the order of their keys, and what clipping, merging and compacting it must give |
| `TimeSeriesStats` | `TimeSeriesStats.process` of one series, over `DateRanges` |
| `LevelStorage`, `StorageKeys` | keys of stores as strings, ranges of keys |
| `Streams`, `RateLimits`, `RpcClients`, `JobIntervals`, `CallRouting` | functions without state: streams and batches, waiting times, answers of nodes, intervals of jobs, the way of a call |
| `MC...` | constants for TLC; `MCPureFunctions` builds the inputs of the functions and has their reference definitions |
| `...Proofs` | theorems |

### Granularity

A step is the code between two awaits of I/O or of a lock. A `save` or a
`remove` of a store is one step: this is what `EntityStorage` shows of the
store, which writes entities and index entries as one LevelDB batch under a
lock. A stream over a store fixes its keys when it is opened and reads each
record when its turn comes. What a DAL's `updateCheckFn` merges is part of the
save. A definition that starts with "Mutant:" is not part of the program: it is
a variant of the definition after it with a plausible mistake, named in
`PROJECT.json` with the property that catches it.

### `IndexerEntityFetcher`

`requests`, `want`, `accepts`, `pending`, `parsed`, `indexed`, `incoming` are
the stored records; the rest is the memory a crash loses. A call of
`handleEntityRequest` goes through `HandleEntityRequest` (takes a nonce, queues
for the mutex), `FetchEntityIds`, then `SaveResponsePlaceholders` and
`SavePendingEntities` for each chunk of the stream, and `SaveRequest`. Incoming
entities go through `OnEntities`, `TakeIncoming`, `FilterIncoming`,
`SaveIncomingResponses`, `RemoveIncomingPending`, `DropIncoming`. The completion
check and the retry job visit the requests one at a time. An offer says what the
fetcher service lists for a request and what the request's filter accepts; a
request by account may accept entities it never listed. Entities asked for are
delivered, lost, or delivered unasked.

Faults: `crash` (memory gone), `rpc` (the call to the fetcher or its stream
fails), `store` (a write of the incoming handler fails), `drain` (a drain of a
retry buffer fails).

### `AccountEntityIndexer`

`states` and `nonceOf` are the stored ranges, `status` what `RequestBoard` says
of their requests. `response` follows the end of a request through
`resolveFuture` (future resolved; event emitted and future forgotten a turn
later; the handler's read; its save). `call` is each `fetchRangeByDate`,
`processing` the running `processRanges`. `available` is the range the history
fetcher reports; it only grows. `handled` counts what the domain got.
The ghost variable `nested` says whether a merge has read processed ranges that
share an instant: from then on merges may lose some (below). `mergeStates` runs
from the job and from any `getIndexingState` call, so `Merger` is a set, of any
size in the proofs. With two merges the whole module has 6.5 million states
already for three instants, too few for merges to get in each other's way;
`MCAccountRanges` therefore puts beside the account, with one merge, the
processed ranges of another one, with six instants and two merges, until one of
them is `nested` (the constraint `Unnested`).

`SlowReads` decides when the answer of a read is acted upon. FALSE: before
anything that was caused later, as a loop that serves completions in order does.
TRUE: at any later time. In both, a decided save goes ahead of what is decided
after it, because the store's mutexes are FIFO.

### `PendingWorkPool`, `EntityFetcher`

A work is an id with the indexers (peers) it is for; adding one unites the peers
with the stored ones. The runner opens a stream, whose keys are fixed then;
`LoadPendingWork` gives a free handler the next chunk, `RemoveComplete` takes
what `checkComplete` finds complete; a handler that fails ends the run while the
others go on, beside those of the next run. A call to run while a run is under
way makes another one follow; in the moment when the runner is about to stop the
call is overlooked, as in `DebouncedJobRunner` (`common.ts:195-235`).

In `EntityFetcher` the handlers' awaits are steps of their own: splitting by
what is cached, adding to `fetch`, adding to `cache`; getting, sending; fetching
(the blockchain answers any part of what is asked), saving to the cache, adding
to `cache`. Faults: a crash, a rejected fetch, an entity that is not parsed or
whose event is lost. An id counts as owed (`Owe`) from the call that was
accepted; not when its record is in the hands of a handler which removes it
unseen: that is the code's own hole (hazards, `pendingWork.ts:225`), and what is
promised then is only that a caller that asks again is answered.

### `BaseHistory`, `EthereumHistory`, `SolanaHistory`

Each job of a fetcher is due, fetching, fetched, updating, saving. Both jobs
share `state`; a job reads the cursors, asks whether there are new items,
and writes cursors and completion back; the state is saved at the end of a run.
`StartRun` looks at the forward job only, as `run` and `JobRunner.run` do: a pool
waits for both jobs of a fetcher before it starts it again (`Start`), but after a
run of the pool that failed its next handler starts the forward job while the
backward one goes on (`StartBeside`, the fault `pool`). Both jobs may then fetch
at the same time for as long as they like. An update waits for no more than a turn
of the event loop; `UpdatesOverlap` (the fault `overlap`) lets both jobs be between
the read and the write at once. Both are faults to bound how often they happen.

`EthereumHistory` has two fetchers: of the blocks, which indexes the items of
all accounts and the blooms, and of one account, which walks what the first has
indexed, and for logs fetches them. Heights stand for dates. The states of the
blocks and of the account are in stores of their own (`factory.ts:35`, `:40`,
`:48`), and either may be saved first; `outrun` says that a restart found the
account's cursors and none of the blocks. `SolanaHistory` has
the fetcher of one account: signatures, two of them in each slot; one's own node
knows only the newer ones, so the backward job swaps to the public node at its
end and starts again. A ghost variable `skipped` keeps what a forward run
limited to one page leaves out (`LeftOut`) and what a backward run that began
without cursors does (`blind`, `Overtaken`), `emptied` whether a node's wrong
empty answer was believed.

### `FetcherPool`

A work is an account. `InitFetcher` is `init` up to the check whether the
fetcher is due, `RunFetcher` starts the two jobs, `RunOver` is the end of the
runs it waits for. A job (`ForwardRuns`, `BackwardRuns`) is a loop that repeats
runs that fail and ends after one that does not, whether or not the handler that
started it still waits. Accounts in `Coupled` depend on the fetcher of blocks.
When a history is complete the account stays, for news.

### `EntityStorage`

A caller queues for the main mutex or for the main mutex and one by id, of which
it waits for the second only (`entityIndexStorage.ts:681`); reads what is stored
of each of its entities (`GroupEntity`); changes the counter; writes one batch
(`WriteBatch`); releases. A reader holds the main lock, opens its stream, and
reads the records one by one. That callers that change the same entity lock the
same is an assumption (`LockingAssumption`), true of all callers in the
packages: each DAL is used with one kind of lock.

### `ServiceStartup`, `AccountRegistry`

`worker` is how far each worker's bootstrap is, `view` what each node has
learned from announcements, `main` what the main process waits for. A shard of
an account is the first node in the account's order of preference that the
caller knows, which is what a hash ring does. `known`, `registry`, `works` are
the account sets of main, indexer and fetcher; `calls` the calls under way.
Assumptions: announcements arrive within the second between two polls of the
main process (`Prompt`); an account is deleted only after its indexing was
answered; one type for each account.

### `TimeSeriesStats`

The value of a bar is the set of events aggregated into it. `FetchHistory` and
`HandleChunk` are the environment; `ProcessStats` and the steps after it are one
call of `process`: for each frame, for each range to do, its intervals, their
input (events, or the bars of a smaller frame), and entries in batches.
`processed` is what the indexer reports, `recorded` the intervals in the
series' own states. Calls do not overlap in the model. Assumptions: the chunks
are apart, in order, and are the whole history; the frames have different names
and more than one instant, the whole history (`All`) is the last of them; a
batch has more than two entries (the code's has 1000).

### Functions

`RangeStream` has one variable, the ranges a store has streamed so far; each step
appends one that the order of the keys allows. `MCPureFunctions` extends it with a
variable for the part that is checked and one for the input of the other parts.
Inputs are built step by step so that all small ones come up: schemas and entities of a store; sorted streams;
transactions with inner instructions; requests to a limited node; chains of
blocks; runs of a job; rings of nodes and names.

## The runs

| Run | Bounds | Shows |
|---|---|---|
| `entity_requests` | 2 requests, 1 entity, wide filters, 1 fault of 4 kinds | complete requests have every entity, missing ones are pending, the mutex does its work, the refinement of `RequestBoard`, requests are served, calls return |
| `account_ranges` | 3 instants, chunks of 2, 3 requests, 1 merge, 1 crash, failed call or domain error; beside it processed ranges of 6 instants, 2 merges | the life of the ranges, two calls at once, one of them failing; merges, one or two, lose nothing until one has read ranges that share an instant |
| `account_ranges_liveness` | 2 instants, chunks of 1, 3 requests, 1 fault, reads in order or late | what is processed was handled; the history is handled and compact in the end |
| `concurrent_compactions` | 6 instants, ranges of 1, two merges | finding |
| `entity_fetcher` | 1 id, 2 callers, chunks of 1 and 2, 1 crash, failed fetch or failed parse | what was accepted is on record, callers are answered |
| `fetcher_pool` | 2 accounts (one coupled to the blocks), 2 handlers, 2 calls, 1 fault | one loop for each job, the pool stops only when empty, histories complete |
| `ethereum_history` | 5 heights, 3 with items, pages of 2, 1 fault of 4 kinds, transactions or logs | no gaps (but for `outrun`), complete is whole, the walk back ends |
| `solana_history` | 10 signatures, 2 a slot, 3 failed ones, pages of 2, a node with the newer 6, 3 faults of 5 kinds | the same of an account on Solana (but for `skipped`) |
| `entity_storage` | 2 keys, 3 callers (a batch that has one key twice, a remove, another key), 3 ways to lock, a reader, 1 fault | index, counter and stream exact; refinement of `AtomicStore` |
| `account_registry` | 1 parser, 2 fetchers, 1 indexer, 2 accounts, 2 calls on one, 2 faults | registered accounts are fetched, no account is indexed twice, what is discovered is known |
| `time_series` | 14 instants in chunks 1-4, 5-5, 6-9, 10-14, frames of 3, 6, 9 and 12 and of all, batches of 4, 1 crash | recorded intervals have all their events, and all get recorded, but for the event at 5 (`Overlooked`) |
| `pure_functions` | 5 instants and all 2^15 increasing sequences of ranges; 2 chunks a key; up to 5 items, 3 streams; 3 names on 2 nodes | the functions against their references |

Every property has a mutant of the code that violates it under the same bounds
(`PROJECT.json`, "mutants").

Why these bounds: all stores are keyed by entity, so two requests for one entity
are enough for every race between a call, the worker, the check and the retry
over one record. Three instants with chunks of two give ranges that split at the
middle, at both ends, and the "take also the next one" case of `fetchAllRanges`.
Six instants, each a range when it is processed, are enough for one merge to stand
between its two writes while another reads unions beside their sources and loses
some; with five `CoverageKept` holds. Two callers of one id with one handler a pool are
enough for a record that changes in a handler's hands. Handlers that a failed run
leaves behind do not occur there, as a pool of one handler has none left; the
theorem `NothingIsForgotten` has any number of handlers at once. In the histories
a page holds two items, so a run is one page or more, and a page may end within a
slot; five heights have a range below, between and above the cursors. Frames of
6 and 9 do
not divide each other, as months and weeks do not; batches of 4 put a border
within a range. Two fetchers are enough for an account to be asked for at the
wrong one.

`CHECK_DEADLOCK FALSE` is said where the system may rest: in `pure_functions`,
whose inputs end; in `entity_fetcher`, `fetcher_pool` and `account_registry`,
where every call may have been made and answered.

### Fairness

- The jobs run again and again and the calls of a running process go on (weak
  fairness of each step of a process, job or handler).
- The indexer's retry job asks for a lost entity again every ten minutes, so an
  entity asked for infinitely often is delivered (strong fairness of `Deliver`);
  the environment may still lose it any number of times. In `EntityFetcher` the
  same job is the strong fairness of `FetchEntitiesById`.
- In `AccountEntityIndexer` the entity fetcher completes every request, which
  `ServedUnlessPoisoned` shows of it.
- In `EthereumHistory` blocks keep coming up to the bound and an update of a job
  of the blocks' fetcher takes its turn though the other goes on (strong fairness
  of `Update`); nothing is assumed of the account's fetcher; in
  `FetcherPool` a backward run that is repeated finds the end of the history at
  some time (strong fairness).
- Nothing is assumed of faults, of the growth of a history elsewhere, or of a
  process that is down except that it is started again.

`CatchesUp` is conditional on requests being left to make (`FreshNonces`), and
its compact part on no fault; `ServedUnlessPoisoned` on no drain having failed;
`HistoriesComplete` and `StopsOnlyWhenEmpty` on no overlooked trigger;
`BlocksComplete` on the forward job reaching the tip again and again. Each
condition is a gap of the code described below or a bound of the model.

## Finding

**Two compactions lose ranges** (`concurrent_compactions`). A merge that starts
between another's save and remove (as `getIndexingState` does) reads unions and
their sources together, forgets that it must keep the union, and removes the
sources. The instants are then fetched and processed again.

## What does not hold

Properties that were stated, and that the code does not have. The first five
are kept as definitions that no run checks, with that remark.

1. *A failed drain ends the retries* (`OpenIsServed`). `BufferExec` awaits its
   last drain before the next, so one rejected drain rejects all later ones
   (`core/.../common.ts:267`). An entity lost after that is never asked for
   again until a restart; hence `ServedUnlessPoisoned`.
2. *Removed requests stay indexed* (`RemovedIsUnindexed`). `remove()` saves items
   without the nonce (`entityFetcher.ts:223`); the store's merge brings it back
   (`dal/entityRequestResponse.ts:78`).
3. *A lost wake-up* (`AwaitReturns`). The request's record is read, then its
   future looked up (`entityFetcher.ts:198`); when completion and its event come
   in between, the call waits for a fresh future for ever, and the fetch job with
   it. The window is small, and open with `SlowReads` only.
4. *Ids that do not exist block the pool* (`MissingDoesNotBlock`). The retries of
   `fetcher/src/entityFetcher.ts:225` are counted down and up, so "entities not
   found after 3 retries" is never reached and the handler never returns.
5. *A wrong empty answer is believed* (`GetsTheRightResponse`). The comment at
   `solana/src/sdk/client.ts:383` expects the right response after some retries;
   an answer that is empty each time ends the history there, complete.

Seen while modelling, with the place:

- *Routing.* `delEntityCache` sends neither type nor blockchain
  (`fetcher/src/client.ts:154`) and is no action of the service, so it always
  fails. Account indexers with a partition key of their own are asked elsewhere
  by `getAccountState` and `invokeDomainMethod`. Logs of an Ethereum account
  requested by date are left to the account's fetcher
  (`ethereum/src/services/fetcher/client.ts:25`), but retries and
  `getEntityState` go by the first letter of the id to another one, which has
  no such log. Ids of Ethereum all begin with "0": one fetcher gets all
  (`client.ts:182`). Entities without peers are broadcast to a group no client
  is in (`services/common.ts:253`). `getFetcherState` without types asks for
  types no fetcher has and throws (`fetcher.ts:93`). Broadcast `indexAccount`
  and `deleteAccount` take `Object.keys` of a Map and reach nobody
  (`indexer/src/client.ts:41,76`). A request for several types of which one is
  not served leaves the earlier ones indexed (`indexer.ts:58`).
- *Nodes' clients.* The completion of a block is applied twice when the index
  lacks it (`ethereum/src/sdk/client.ts:837,875`), which multiplies the
  timestamp; one item whose block cannot be had fails its whole chunk although
  errors are swallowed. `AnswersAreExact` is of the other cases.
- *Pools.* The queue limit is checked before the save
  (`pendingWork.ts:117`); a full queue is swallowed
  (`fetcher/src/entityFetcher.ts:127`); handlers left behind by a failed run
  exceed the concurrency; `stop` of a pool does not stop its debounced job; a
  run of a pool waits for all its handlers. A full queue whose runner overlooked
  its trigger takes no work, so nothing triggers it again, and answers nobody
  until a restart: with `MaxQueueSize = 1` `CallsAreAnswered` does not hold.
- *Entities.* When the process stops after fetched entities were cached and before
  they are added to `cache` (`fetcher/src/entityFetcher.ts:235`, `:243`), and their
  next fetch fails, `checkComplete` finds them cached and removes their works
  (`core/.../pendingWork.ts:225`): nobody sends them, until an indexer asks again.
  With several handlers of `fetch` two failures do the same. The attempt to prove
  `NothingForgotten` showed it, a crash *and* a failure being more than the faults
  of the run. What such a check removes is no longer owed (`CheckComplete`).
- *Intervals.* In the pool a Reset (more than 100 items) leaves the frequency as
  it was, and backward jobs use the forward job's longest interval
  (`baseHistoryFetcher.ts:315-318`).
- *History.* A forward range that is an exact multiple of the page is refused
  until the chain has grown (`ethereum/src/sdk/client.ts:613`); a forward run on
  Solana is limited to one page on its first run and the rest is never fetched
  (`accountTransactionHistoryFetcher.ts:101`, `skipped`); an Ethereum account's
  transactions count as complete only once the cursor reaches the lowest block.
- *History, both jobs at once* (`Overtaken`). A Solana account had no signatures
  when its backward run began, which therefore fetches down from the tip. While it
  fetches, a run of the pool fails, the next one starts the forward job beside it,
  and that one sets the cursors around a newer page. The backward run then puts
  its own end as the backward cursor, and what came in between its page and the
  newer one lies between the cursors and is never fetched. One failed run and a
  few new signatures are enough. A backward run that began with a cursor leaves no
  gap, however long a forward one runs beside it, nor do the jobs of an Ethereum
  fetcher: its first forward run has set the cursors before any backward one
  begins.
- *History, two stores* (`outrun`). The first cursors of the blocks and those of
  an account that was walked through these blocks are saved in two stores
  (`ethereum/src/services/fetcher/factory.ts:35`, `:40`, `:48`). A crash may leave
  the account's only. The blocks then begin anew at the tip; the account's forward
  run begins at its old cursor, finds no items in the blocks below the tip that
  are not indexed yet, and puts its cursor above them. One crash is enough.
- *Storage.* The counter keeps a failed write's change until the next start; a
  chunk of no fixed length makes a prefix match longer values; a number with
  more digits than its chunk loses the leading ones
  (`entityIndexStorage.ts:538`), as the rank of an account's entities does from
  the 1000th of one timestamp (`dal/accountEntityHistory.ts:51`). `restore` of a
  backup hands values where entries are expected and always fails
  (`levelStorage.ts:446`).
- *Compaction.* A crash between the save of unions and the removal of their
  sources leaves sources beside them (`accountEntityIndexer.ts:319`). A later merge
  that reads a source after it has extended its union forgets that the extended
  union is new (`prevMerged`, `time.ts:219`), and removes all without saving it: 0-1,
  2-2, 2-3, 3-3 is lost, by one merge alone. Two merges do the same without a crash
  (Finding). In both a merge has read ranges that share an instant, which is where
  `ApartMergesKeepCoverage`, `LongKeepsCoverage` and `HandledOnce` end; `CoverageKept`,
  which has no such condition, is what `concurrent_compactions` refutes.
- *Statistics.* The last interval is kept one instant too early
  (`timeSeries.ts:208`, against the comment at :202): an event at the very last
  instant may be missing, which `RecordedIsExact` excepts. The attempt to prove it
  showed that this reaches further: the interval before a chunk is aggregated
  again only while the chunk is to do, so a chunk of one instant that ends an
  interval is overlooked (`Overlooked`), and the intervals of all bigger frames
  that are made of that one lack it in their middle: frames of 2, 3 and 6 with the
  chunks 0-1, 2-2, 3-14. A buffer of one or
  two entries is emptied and then read, which throws (:187; `RejectBatch`).
  `reverse` breaks `RecordedIsExact`. `compactStates` finds nothing
  (`accountTimeSeries.ts:162`).
- *Registry.* An account with two peers is never forgotten by its fetcher
  (`dal/account.ts:34`); a start that failed leaves its account indexer running
  (`entityIndexer.ts:77`; `FewIndexers` counts failures); accounts that are no
  longer discovered stay fetched after a restart; main waits for the fetchers of
  its own process only (`main.ts:352`).
- *Ranges.* After one of two parallel calls failed, the job may request ranges
  that overlap the one still under way (`accountEntityIndexer.ts:253`):
  `NothingFetchedTwice` is claimed as long as no call failed. With late reads a
  late save of Ready can hit a processed range: `ReadyHasRequest` is claimed of
  reads answered in order. And with late reads a call fails without any fault,
  when its request is gone before it is read: `Promise.all` gives up, the other
  call goes on, and its range is requested and handled again. This one the
  attempt to prove `HandledOnce` showed, which is now claimed as long as no call
  failed.
- *Rate limits.* A weight above the limit waits for ever; the sparse limit alone
  grants two requests a millisecond apart when it has rested.

## Proofs

`IndexerEntityFetcherProofs` proves for every number of requests, entities,
offers and faults: `TypeOK`, `CompleteIsAnswered`, `CompleteHasNoPending`,
`AnnouncedIsComplete`, `MissingIsPending`, `NoEarlyFilter`, and that the module
implements `RequestBoard`. Assumptions are those the module names on its
constants. None of these is inductive; `IInv` adds what makes them so:

- `SavedRequestsInv`: every entity of a saved request is filed under its nonce,
  is pending or parsed while it is open, and parsed once it is complete;
- `CallsInv`: a call that is listing has recorded all the stream produced: each
  of its ids is still to come, in the chunk in hand, pending, or parsed;
- `JobsInv`: what the worker, the check and the retry job hold in memory is
  still true of the stores when they act on it;
- `MutexInv`: a call that is listing holds the mutex, so the worker, which must
  hold it to act, sees either none or all of a request's records.

The key is that no filter runs while a call lists: a pending record is removed
for all nonces at once, which is safe because the response is stored by then and
the placeholders of every waiting request are. The proof has one lemma for each
conjunct, one step for each action; the refinement maps `MarkComplete` to
`Complete`, `SaveRequest` to `Open`, `RemoveRequest` to `Close`,
`SaveIncomingResponses` to `Learn`, everything else to a stutter.

The first theorems of `AccountEntityIndexerProofs` prove that clipping a range
from one range, from a set of ranges, and any sequence of ranges from a set
leaves exactly the other instants, for all integers (`ClipIterableExact`), and
ranges that are apart if those clipped were; and that `mergeDateRanges` covers
the instants of its input by the fewest ranges, which is by its maximal runs
(`MergeIterableExact`). `MergedWell` is what holds after each range that was
read: the range kept back lies after all that were merged, and none of them
touches another (`ApartAreRuns`: such ranges are the runs). With these, all of
`RangesAreExact` is proved for streams of any length over any instants
(`RangesAreAlwaysExact`), and that compaction replaces ranges that share no
instant by their runs. Functions over a sequence are recursive functions of its
length; in place of an induction, the least length at which a claim would fail
is contradicted (`WellFoundedInduction`'s fact that the natural numbers have
least elements).

The next part proves `ApartMergesKeepCoverage` for every length of history, every
set of ranges processed meanwhile and any number of merges at once: no processed
instant is lost until a merge has read ranges that share an instant; and
`concurrent_compactions` shows that afterwards it may be. The inductive part is
`SoundInv`: of what a merge has read, each range that it is to remove lies strictly
inside a union that it is to save (`ReadSound`), and, once the unions are saved,
strictly inside a stored range, though that need not be its own union any more
(`MergeSound`). Two merges that stand between each other's writes are harmless by that
alone: of the stored ranges around an instant the longest is removed by none. `MergeRangeCases` is
the lemma about one call of `mergeRange`; that it holds for each range read makes
induction over the sequence unnecessary, as the merge reads one range a step. The
theorem is `CompactionKeepsCoverage`.

The next part proves the invariants of `AccountEntityIndexer`, for any length of
history, number of requests, parallel calls, restarts and faults:

- `ReadyHasRequest`, from `RequestInv`: what each call has found out of its
  request is still true when it acts on it (`CallInv`, and `PromptInv` where reads
  are answered in order), a saved range that waits has the request made for it
  (`StoreInv`), and the range in hand has a complete request that no range names
  once the range is saved as processed (`ProcessInv`).
- `ProcessedWasHandled`, the first half of `HandledOnce`, with no condition on
  merges, reads or faults: `HandledInv` says that all that a merge has read, will
  read or writes was handled, so that even merges that lose ranges invent none.
- `KnownStaysKnown`: an instant that a stored range has, in any of its states, stays
  in one until a merge has read ranges that share an instant, whatever calls, events,
  crashes and merges come in between.
- `NothingFetchedTwice`, for any number of merges, whether they lose ranges or not:
  requests that are under
  way or saved share no instant with each other, nor with what is processed
  (`FetchedInv`), and the job waits for each of its calls as long as none failed
  (`AwaitedInv`), so that it clips against all of them.
- `HandledOnce`, for any number of merges, until one has read ranges that share an
  instant: the ranges of all calls ever made are apart (`CallsApart`); what was asked
  for stays known, as a range or in a union (`CallsKnown`, which is where merges come
  in), so nobody asks again; and an instant was handled once, for the one request
  that has it and is through (`HandledGiven`).

The condition of `HandledOnce` is needed: instants whose ranges a merge has lost are
requested and handled again. They are not fetched twice in the sense of
`NothingFetchedTwice`, which is of ranges under way or on record at the same time:
what was lost is on record no longer.

The last part is about `TimeSeriesStats` (it stands in this module because it rests
on the theorems on clipping) and proves `RecordedIsExact` for any history, chunks,
frames, batch size above two and number of crashes, if each range is worked
through from its oldest interval (`~NewestFirst`: with `config.reverse` the code
records intervals that lack events, as said above). `StatsInv` is

- `BarsInv`: a bar is of one interval of one frame and has only events its input
  may have; bars only grow;
- `RecordedInv`: an instant of the history that lies in a recorded interval is
  handled (`Within`), and is in the bar of the interval, but for the end and for
  what is overlooked; an end is in the bar once the next interval is recorded too;
- `StatsCallInv`: the ranges the call has to do are of whole chunks, and each
  smaller frame that has been gone through has every instant of them in its bar
  (`Calculated`), excepting those that may be left to a later call (`Excused`: the
  last instant before what the call does not do, where a frame that divides this
  one ends, `SharesEnd`). A bar is made of the events or of
  the bars of a smaller frame that divides it (`TrueDivideIs`), which has been gone
  through before it; what that one lacks it lacks;
- `FrameInv`: the same of the present frame, for the ranges already done;
- `BatchInv`, `BufferInv`: a batch is a section of the list of intervals of one
  range (`Place`, `Taken`), what was saved of it is calculated (`SavedUpTo`), and
  what is in the buffer has all that a calculated bar would have.

What is recorded of a batch are its inner intervals but an incomplete first and last
one; such an interval has no instant outside the range to do but its last one
(and, for the first interval of all, those before the account began). So each of its
instants but the last was given to the call; none of these is excused, since the
instant after it was given too or begins no interval that divides this one
(`SharesNoNext`), and all are in the bar. The last one, which the bars of bigger
frames count on, is there once the next interval is recorded too, unless it was
not handled when the call began: then it is a chunk of its own (`GapIsChunk`), which
is what `Overlooked` names.

`EntityStorageProofs` proves `TypeOK`, `IndexAgrees`, `CountIsExact`,
`LockedStreamIsExact` and that the store implements `AtomicStore`, for any
batches, locks, callers and faults. Its invariant:

- `LineInv`: a call stands once in the line of each lock it asked for; `LockInv`:
  one that has entered is the first of its lines;
- `OpInv`: what a call has prepared is still true of the store when it writes:
  what it removes is stored, what it adds is new or replaces what it removes, and
  both are of its own entities only. This is what the locks are for;
- `IndexInv`, `CountInv`, `ReadInv`: index, counter and readers between the two
  sublevels' writes;
- `EffectInv`, for the refinement: what a call has prepared is the effect of its
  entities, one by one, on what is stored *now*, although it was computed from an
  earlier read. It needs that two callers of one entity share a lock.

`EntityFetcherProofs` proves `TypeOK` and `NothingForgotten` for any ids, callers, sizes of chunks, handlers at once, crashes and failures.
`OwedInv` says where an owed id is: in `fetch`, in `cache`, or in `pending` with no
handler that is past adding it (`Ahead`); a handler of `cache` that has sent it is
no hazard, as it is owed no longer; and one of `fetch` that fetched it leaves only
while a later record exists, or one of `pending` whose handler will find the entity
cached (`AheadOfCache`). This needs `CacheInv`: what a handler has seen cached stays
cached. Nothing is assumed of which works two handlers hold at once.

Each of the two history modules' proofs begins with the facts about the steps of
`BaseHistory`, its runs and cursors. Neither assumes that the jobs of a fetcher take
turns, in fetching or in updating.

`EthereumHistoryProofs` proves `TypeOK`, `NoGaps` and `CompleteIsWhole` for any
height of the chain, page size and number of faults. `NoGaps` speaks of what lies
between cursors and is not inductive: both jobs write the whole state, so each may
put back an older cursor of the other. `IInv` says why that does no harm:

- `WalkInv`: for each fetcher there are heights lo, mid, hi such that all from lo to
  hi was fetched, every backward cursor, in memory, saved, or read for an update,
  lies in lo..mid and every forward one in mid..hi. A run begins next to this range
  or within it, and its pages have no gap (`Pages`), so wherever it puts its cursors
  the range grows or stays (`ForwardRun`, `BackwardRun`): an older cursor is fetched
  again, never skipped. It is one range for any two cursors, however they are mixed,
  which is what an overlap of the jobs needs;
- `Stays`: all the account's fetcher does lies within the range that the blocks'
  fetcher has walked. For transactions this is all there is to show, as whatever is
  in that range was indexed with its block; for logs the account has a range of its
  own, of heights whose logs it has fetched;
- `OrderInv`, `FirstInv`: the first forward run of a fetcher sets its cursors before
  its backward job begins, and the account begins after the blocks. The stores are
  not ordered: after a crash that keeps only the account's cursors (`outrun`) the
  blocks' part of the invariant remains, and nothing is said of the account;
- `TipInv`: no run of the blocks' fetcher asks for more than there is.

`SolanaHistoryProofs` proves `TypeOK`, `RangeIsStored` and `CompleteIsWhole`:
`RangeInv` (all between the cursors is stored; complete means down to the first,
unless an empty answer of a node was believed), `RunsInv` (a page is stored as a
whole), `BackOk` (only the backward job moves a backward cursor that there is, so the
page of a run that began at one still borders on it, however often the forward job
ran meanwhile; a run that began when there was none is `blind`) and `ReadInv` (the
cursors that an update has read are those in memory until the other job has put its
own). The last one uses that an update waits for one turn of the event loop and a
save for the store: no job gets through both while the other one updates.
It assumes `PageSize \in 1..Unlimited`, `Unlimited` being the code's
`Number.MAX_SAFE_INTEGER`.

`FetcherPoolProofs` proves `OneLoopEach` and `StopsOnlyWhenEmpty` for any number
of accounts, parallel handlers and faults. That a pool rests only when it is
empty depends on flags that three callbacks set at different times: `RunInv` says
that a run which awaits no handler and is not to be repeated (no second trigger,
no `skipSleep`, no timer) still has every stored account ahead of it in its
stream, and none once the stream has ended; `SlotInv` says that a handler that is
through has set the timer, or failed; `StopInv` joins them at the decision to
stop. That a job has one loop follows from the account being marked as started
before the loop's first step.

`AccountRegistryProofs` proves `TypeOK`, `FewIndexers` and `RegisteredIsFetched`.
`CallInv`: all calls and records about an account are at its home, the indexer it
is sharded to when all are known (which `ViewInv` says of main once it runs), and
a deletion is the only call on its account, as it begins once the account is
known; `LiveInv`: an account's indexers and the calls that may start one are at
most one, while the account is known or awaited, and one for each fault.
`RegisteredIsFetched` rests on `WorksInv` and on `OwnAndPrompt`, which the run's
constants meet: announcements reach all nodes before main looks again, and all
fetchers are the process's own, for which main waits. Otherwise an indexer may
ask another fetcher than the one told before, and the claim does not hold of the
code. That `Prefers` names every fetcher and indexer, which the module assumes,
says that the hash ring has every node.

Only model-checked: liveness (which the prover cannot do); and the properties of
`MCPureFunctions` (`KeysAreExact`, `StreamsAreExact`, `RequestsAreLimited`,
`AnswersAreExact`, `PaceIsKept`, `CallsMeet`), whose functions are folds and
recursion over sequences: induction over data.

## Not modelled

- `stop()` of a component in a process that goes on: services stop with their
  process, which the models have as a crash. (`JobRunner.stop` of a runner that
  is idle never resolves, and one that sleeps may be run twice after it.)
- The account state fetcher: no blockchain package constructs one
  (`solana/src/services/fetcher/factory.ts:27` has it commented out).
- Backup and restore of stores, which do not work (above).
- Moleculer, its transports and worker threads: seen as messages that reach the
  node the ring finds, or are lost.
- What entities mean: layouts of instructions, ABIs, the user's domain, GraphQL.
- The other EVM packages, which change names and nodes of the Ethereum package.
- The rank of an entity within its response (`nonceIndexes`' value, which
  restarts in every chunk, `indexer/src/entityFetcher.ts:382`).
- Overlapping `process` calls of one account's statistics
  (`utils/domain/indexer/main.ts:292` does not wait for the call before it).

## Plan

Done: all components above. What is left, in this order:

1. the composition of `AccountEntityIndexer` with a history that a fetcher of
   `EthereumHistory` offers, in place of one that only grows;
2. overlapping calls of `process`, two peers of one account, and a merge after a
   crash between another's two writes, as findings.
