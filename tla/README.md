# A verification project for the Apibara TypeScript SDK

TLA+ modules, TLC configurations and TLAPS proofs for the repository's source
(`src/`; paths below are relative to `src/packages/` unless they start with
`src/`).  The SDK streams blocks from a chain to an *indexer*, whose plugins keep
the application's data in a database.  The chain reorganizes, the stream breaks
and the process restarts; the promise of the whole is that the database ends up
with the canonical chain's data, each block processed once.

## 1. Inventory

| Component | State | Operations | Talks to |
|---|---|---|---|
| **Chain tracker** `protocol/src/rpc/chain-tracker.ts` | `#finalized`, `#head`, the `#canonical` map number → block | `updateFinalized`, `updateHead` (follow, join, find a fork point), `isCanonical`, `initializeStartingCursor` | called by the data stream; calls back to fetch blocks |
| **Data stream** `protocol/src/rpc/data-stream.ts` | cursor, `lastEmptyBlockNumber`, times of the last heartbeat, head poll, finalized poll, backfill message | `initialize`, `dataStreamLoop`, `backfillFinalizedBlocks`, `produceLiveBlocks`, `waitForHeadChange` | the tracker, the node access, the consumer (messages) |
| **EVM node access** `evm-rpc/src/stream-config.ts`, `log-fetcher.ts`, `range-oracle.ts`, `rate-limited-http.ts`, `retry.ts` | the oracle's range size, the rate limiter's tokens, the attempts of a call | `fetchCursor`, `fetchCursorRange`, `fetchBlockRange`, `fetchHeaderByHash`, `fetchLogsForRange` (merged or one call per filter) | the node (JSON-RPC) |
| **gRPC client** `protocol/src/client.ts` | none beyond an iteration | `StreamDataIterable` (ending cursor, timeout) | a DNA server |
| **Indexer** `indexer/src/indexer.ts`, `compose.ts` | the request, the merged factory filter, the retry counter, an abort signal | `runWithReconnect`, `run`, message dispatch, the factory's second stream, hooks, middleware | the stream, the plugins |
| **SQLite storage** `plugin-sqlite/src` | rows with a validity interval, a checkpoint, filters with one | `put`, `get`, `del`, invalidate, finalize, persist and load state | the indexer's hooks and its middleware |
| **MongoDB storage** `plugin-mongo/src` | documents with `_cursor`, a checkpoint, filters | inserts, updates and deletes of one or many, the same hooks | the same; the driver's `withTransaction` |
| **Drizzle storage** `plugin-drizzle/src` | tables without history, triggers, an undo log, a checkpoint, filters | any statement, replay of the log, the same hooks | the same; PostgreSQL |
| **Health, logger, context, in-memory persistence** `plugin-health`, `indexer/src/plugins` | a status flag, a cursor | hook handlers | the indexer |
| **Codecs, CLI, test tools** `evm`, `starknet`, `beaconchain`, `protocol/src/codec.ts`, `cli`, `indexer/src/vcr` | none | serialization, scaffolding, recording | — |

How they interact: the indexer asks its plugins for a checkpoint
(`connect:before`), opens a stream from it, invalidates everything above the
starting cursor (`connect:after`), then hands every `data` message to the handler
inside the plugins' transaction, and `invalidate` and `finalize` messages to
hooks.  In factory mode a block may add to the filter; the indexer stores the new
filter (`connect:factory`), opens a second stream from the same cursor and gives its
first block to the handler.  The stream is either a DNA server's (gRPC) or the
`RpcDataStream` that this SDK runs itself against a plain node.

Hard behaviours:

* **Interleaving with the node.**  Each iteration of the stream makes several
  requests; the chain may grow, reorganize or finalize between any two.
* **Order and loss.**  The messages of an iteration are collected and yielded when
  it ends (`data-stream.ts:124`): an exception loses messages of which the
  tracker and the cursor already know.
* **Two positions.**  The header of an empty head is sent without moving the
  cursor, so the stream has a cursor and a last empty block.
* **Shared, failing requests.**  Parallel calls are repeated together when one fails;
  the oracle and the limiter are shared by the streams of a client.
* **Restart.**  The consumer resumes from the last cursor it was sent, which may
  be an orphaned block.
* **Storage.**  Versioned rows or an undo log must give back the old data for
  every sequence of writes, reorganizations and finalizations; the checkpoint and
  the data must move together, whatever fails.
* **State in memory beside state in the database.**  `prevFinality`, the registered
  triggers and the merged filter are not rolled back with a transaction.
* **Connection.**  Retries, aborts and the atomicity of the factory's step.

What makes each component correct:

* *tracker*: the canonical map is a map, linked to the head, never below the
  finalized block;
* *stream*: what the consumer holds follows the node's chain (content, order, no
  duplicates), promises of finality hold, the stream catches up, heartbeats and
  finalized refreshes happen;
* *node access*: a range's logs are those its filters ask for, once each, whatever is
  repeated; the rate is kept; ranges shrink until the node takes them;
* *storage*: after `invalidate(c)` the data is what it was when `c` was written;
  finalization changes nothing visible; the checkpoint names the data stored;
* *indexer*: each block of the chain is processed once, in order, with the filter
  its chain calls for, across reorganizations and crashes; retries end only without
  progress; an abort returns.

## 2. Modules

| Module | What it is |
|---|---|
| `BlockTree` | The chain as an environment: blocks stand for hashes, `At[b][n]` is the ancestor of `b` at number `n`.  A hash commits to its history, hence `BlockTreeAssumption`. |
| `ChainTracker` | `chain-tracker.ts` as operators on a record `[finalized, head, canonical]`.  The map is the set of its values (each value holds its key); `Put` is `Map.set`. |
| `RpcDataStream` | `data-stream.ts` over `stream-config.ts`, the node and the consumer: a state machine with one control point `pc` for every wait. |
| `LogFetcher` | `log-fetcher.ts` as operators: the calls for a filter, merged or not, `refineLog`, the joining of the answers. |
| `EvmRequests` | `fetchBlockRange` with its attempts, the range oracle and the rate limiter, against a node that refuses, fails and reorganizes; extends `LogFetcher`. |
| `ReorgStore` | What a storage plugin promises: for each indexer a history of contents, one after each block; a draft for the block being handled; `Start`, `Reset` (a start with empty tables), `Begin`, `Write`, `Commit`, `Rollback`, `Invalidate`, `Finalize`, `Stop`. |
| `SqliteStorage` | The `plugin-sqlite` hooks, the rows of `kvs`, the checkpoints and the transactions of the shared connection.  `Store` is its refinement mapping to `ReorgStore`. |
| `MongoStorage` | The `plugin-mongo` hooks, the documents, the checkpoint and the driver's transactions; its own mapping to `ReorgStore`. |
| `DrizzleStorage` | The `plugin-drizzle` hooks, the tables, the triggers, the undo log and its replay; its own mapping to `ReorgStore`. |
| `Indexer` | `runWithReconnect` and `run` in factory mode, with the checkpoint, the filters and the transaction of each of the three plugins, a chain and a server. |
| `RpcDataStreamMC`, `EvmRequestsMC`, `SqliteStorageMC`, `MongoStorageMC`, `DrizzleStorageMC`, `IndexerMC` | Their small instances. |
| `BlockTreeProofs` | Lemmas about the blocks of one chain, which the proofs of the stream and of the indexer cite. |
| `RpcDataStreamProofs`, `StreamChainProofs`, `EvmRequestsProofs`, `SqliteStorageProofs`, `MongoStorageProofs`, `DrizzleStorageProofs`, `IndexerProofs` | The lemmas and theorems of section 5. |

The three storages are three implementations of one abstract specification.  The
indexer is composed with what decides whether a block is lost: the transaction, the
checkpoint and the stored filter of a plugin; a plugin's rows are in its own module,
where the stream and the order of the hooks are what `run` makes of them.

### State of `RpcDataStream`

| Variable | Code |
|---|---|
| `tip`, `final`, `reorgs` | the node (external): `eth_getBlockByNumber` of `latest` and `finalized` |
| `pc` | where the code waits: `loop` (top of `dataStreamLoop`), `refreshFinalized`, `backfill` / `backfillHeaders` (the log request and the header request of `fetchBlockRange`), `live` (the head poll of `produceLiveBlocks`), `join` (`fetchCursorRange` within `updateHead`), `liveBlocks` / `liveHeaders`, `wait` (`waitForHeadChange`), `done`, `error` |
| `failure` | which `throw` ended the stream |
| `tracker`, `cursor`, `lastEmpty` | `state.chainTracker`, `state.cursor.orderKey`, `state.lastEmptyBlockNumber` |
| `due` | the intervals that elapsed (`shouldSendHeartbeat`, `shouldRefreshFinalized`).  The head refresh and the forced backfill are read in one place each and are a choice there |
| `request`, `joining` | the arguments and partial results of a request in flight |
| `out` | the messages of the last step |
| `view`, `client` | what the consumer will hold when the messages collected so far are yielded, and what it holds |
| `restarts` | bound on the consumer's restarts |

The consumer (external) applies data, drops what is above an invalidate's cursor,
remembers the end cursor of the last message that had one, and resumes from it.
`promised` is the highest block number it was told is final.

### Actions and handlers

| Actions | Code |
|---|---|
| `Initialize`, `InitializeCursor`, `RejectStartingCursor` | `RpcDataStream.initialize`, `initializeStartingCursor` |
| `StopAtEnding`, `BeginIteration` | `shouldContinue`, the heartbeat and the dispatch of `dataStreamLoop` |
| `RefreshFinalized`, `RefreshFinalizedFails` | the finalized poll, `updateFinalized`, its throws |
| `BackfillLogs`, `BackfillBlocks` | `backfillFinalizedBlocks` (the range clamped by the oracle) |
| `HeadFollowed`, `HeadReorged`, `HeadReorgedAhead`, `HeadNeedsJoin`, `HeadFails` | the answers of `updateHead`, in `produceLiveBlocks` (`pc = "live"`) and in `waitForHeadChange` (`pc = "wait"`) |
| `JoinFetched`, `JoinDone`, `JoinFails` | the batches of a join |
| `WaitReturns`, `KeepHead` | the deadlines of `waitForHeadChange`; a head polled too recently to poll again |
| `LiveLogs`, `LiveBlocks`, `LiveEmpty` and their failures | the rest of `produceLiveBlocks` |
| `Extend`, `Reorg`, `FinalizeBlock`, `Elapse`, `Restart` | the node, time, the consumer |

A forced backfill, the choice of a replica's answer and the failure of a node that
no longer has a block are nondeterministic.  A walk of `updateHead` back to the
fork point is one step: the node answers by hash, and a hash names the same
block whenever it is asked.

### State of `SqliteStorage`

| Variable | Code |
|---|---|
| `kvs` | the table `kvs` as the open transaction sees it: a set of rows `[id, k, from, to, v]`; cursors are their order keys |
| `saved` | the table `ROLLBACK` returns to (SQLite's journal) |
| `checkpoints` | the table `checkpoints` (order keys) |
| `tx` | the transaction of `handler:middleware`, with the cursors and the finality of its message; the other hooks' transactions do not wait and are one step |
| `prevFinality` | the variable of the plugin's closure |
| `conn` | how far `run` is: `stopped`, `initialized` (after `plugins:init`), `rewinding` (connected from an orphaned checkpoint), `running` |
| `pos`, `head`, `floor` | the server (external): the cursor of its next data message, the last block it sent, the last one it called final |

### Actions and hooks

| Actions | Code |
|---|---|
| `Initialize` | `plugins:init` with or without `APIBARA_ALWAYS_REINDEX` |
| `Connect` | `connect:before` (the checkpoint replaces the starting cursor) and `connect:after` (`invalidateKV` above it) |
| `BeginBlock`, `Put`, `PutConflicts`, `Del`, `HandlerFails`, `Commit` | `handler:middleware` around a handler that calls `kv.put` and `kv.del` any number of times and may throw anywhere; `Commit` is the rest of the middleware and `COMMIT` |
| `BeginBlockFails` | the middleware when the previous block was pending and the message has no cursor: `invalidateKV(db, undefined, ...)` throws |
| `BeginRefused` | `BEGIN` on a connection that is in another indexer's transaction |
| `MessageInvalidate`, `MessageFinalize` | the hooks of the same names |
| `Disconnect`, `Crash` | the end of `run` with and without the process |

The server is an assumption of the module, in the terms of `protocol/proto/stream.proto`
(`Invalidate`, `Finalize`, `Data`): a data message follows the stream's position; a pending
block is above the final one and does not move the position; an invalidate goes back to
a block that is not below the final one ("All data before this cursor cannot be
invalidated").  What the proto file does not say, and the plugin needs: a stream
asked for an orphaned cursor begins with an invalidate.  This last rule matters: an
invalidate does not move the checkpoint, so a crash after it leaves a checkpoint on
an orphaned block, and the rows are right again only after that message.
`RpcDataStream` does not do that: it throws (`RejectStartingCursor`).

### State and actions of `MongoStorage`

| Variable | Code |
|---|---|
| `docs`, `saved` | the documents of the indexer's collections as the open transaction sees them, and as an aborted one leaves them: versions `[k, v, from, to]` for `_cursor: {from, to}` |
| `checkpoint` | the document in `checkpoints` |
| `tx` | the message whose `withTransaction` runs in `handler:middleware` |
| `prevFinality`, `conn`, `pos`, `head`, `floor` | as for SQLite |

| Actions | Code |
|---|---|
| `Initialize`, `Connect` | `plugins:init`, `connect:before` and `connect:after` |
| `BeginBlock` | `handler:middleware` up to `next()`, with the invalidation of a pending block inside the transaction |
| `InsertMany`, `UpdateMany`, `DeleteMany` | `MongoCollection`; a filter is the set of keys it matches, `...One` the case of one key |
| `Commit`, `CommitUnanswered`, `CommitFails`, `HandlerFails` | the rest of the middleware and the outcomes of `withTransaction`: the commit; a commit whose answer is lost; a transient error after which the driver calls the callback again, which throws because `next()` was called; an error in the callback |
| `MessageInvalidate`, `MessageFinalize`, `Disconnect`, `Crash` | the hooks, the end of `run`, the end of the process |

A callback that the driver runs again before `next()` was called starts over from
where it was, so it is a stutter.  The documents name no indexer: a collection has
one (assumed).

### State and actions of `DrizzleStorage`

| Variable | Code |
|---|---|
| `rows` | the tables; a key is the id column |
| `log` | the table `reorg_rollback`: `[n, op, k, cursor, old]` |
| `triggers` | whether the triggers are on the tables |
| `checkpoint` | the row in `checkpoints` |
| `saved` | the four as committed |
| `tx`, `undo` | the hook whose transactions run, and the log rows it has deleted and must still undo |
| `prevFinality`, `registered` | the plugin's closure: `prevFinality`, `reorgTriggersRegistered` |

| Actions | Code |
|---|---|
| `Initialize` | `plugins:init`; reindexing drops the triggers and empties the tables |
| `Connect`, `UndoStep`, `ConnectDone` | `connect:before` and `connect:after`: `invalidate` row by row, `invalidateState`, commit |
| `MessageInvalidate`, `UndoStep`, `MessageInvalidateDone` | the hook of the same name |
| `BeginBlock`, `UndoStep`, `PendingUndone` | the first transaction of the middleware, which undoes a pending block |
| `OpenBlock`, `Insert`, `Update`, `Delete`, `Commit`, `CommitUnanswered` | the second one: `registerTriggers`, the handler's statements and what the triggers log, `persistState`, commit |
| `MessageFinalize`, `Fails`, `Disconnect`, `Crash` | `finalize`; a statement, the handler or the commit throws; the ends of `run` |

### State and actions of `EvmRequests`

| Variable | Code |
|---|---|
| `filters`, `merge` | the filter's logs, `mergeGetLogsFilter === "always"` |
| `size` | the oracle's `currentSize` |
| `tokens` | the limiter's, in units of which `TicksPerSecond` are a token |
| `pc`, `pos`, `range` | where the stream is in `fetchBlockRange`, the last block it has, the range it asks for |
| `attempts`, `calls` | the failed attempts of `retry`; each request: waiting for a token, sent, or answered by a branch |
| `found`, `held` | the joined logs until their headers come; what was delivered |
| `orphans` | requests of failed attempts that still wait for a token |
| `other`, `others` | a range of another stream of the client |
| `observed` | (ghost) the requests sent in an interval that begins at any tick |

| Actions | Code |
|---|---|
| `FetchBlockRange`, `LogsFetched`, `HeadersFetched` | `fetchBlockRange`; `Clamped` is `clampRange` |
| `Send`, `SendOrphan`, `OtherSends`, `Tick` | `acquireOne`, which every waiting request polls for itself, and `refill` |
| `Answer`, `Refuse`, `Break`, `HeaderMissing` | the node (external) and `retry`, `handleError` |
| `Retry`, `StreamAgain`, `Restart` | the delay of `retry`; a consumer that asks again after an exception, with the same client (external: no code of the repository does) or in a new process |

### State and actions of `Indexer`

| Variable | Code |
|---|---|
| `pc` | where `runWithReconnect` and `run` are: before an attempt, reading, in the factory's step, in the middleware, in the delay before a retry, returned, thrown |
| `retryCount`, `onConnectCalled`, `aborted`, `error` | of `runWithReconnect`, and `options.signal` |
| `mainFilter`, `stream`, `message` | of `run`: the merged filter, the open stream with its cursor and filter, the data message in hand |
| `db`, `saved` | the plugin's tables in the open transaction and as committed: checkpoint, rows of `filters`, and what was handled |
| `tip`, `final`, `reorgs`, `plugin` | the chain, and which plugin is used (external) |

| Actions | Code |
|---|---|
| `Connect` | `plugins:init`, `connect:before`, `connect:after` |
| `ReceiveData`, `FactoryBlock`, `Handle` | the `data` case: the factory, `connect:factory`, the second stream, the handler, `persistState` and the commit |
| `ReceiveInvalidate`, `ReceiveFinalize`, `ReceiveHeartbeat` | the other messages |
| `StreamFails`, `Fails` | errors with and without a retry |
| `Return`, `Abort`, `Restart` | the signal, the stream's end, the process |

## 3. Model checking

The trees of the streams have two branches.  A run's `Switch` says which
reorganizations the node performs: any (`AnySwitch`), or never back to a branch it left
(`NewBranches`, and `NewBranchesOnly` for those that do not shorten the chain).

| Run | Properties | Question |
|---|---|---|
| `StreamGrowth` | `GrowthIsHandled`, `EventuallyCaughtUp`, `IntervalsAnswered` | The chain only grows; requests interleave with it and finality may pass the tracker's head.  Does the stream throw for any other reason (`Overtaken`)?  Does it catch up and deliver all unless it does?  Are heartbeats and refreshes never starved by the waiting loop? |
| `StreamReorg` | `HeadIsCanonical`, `ConsistentAtHead` | Two reorganizations between iterations.  Is the tracker linked, does a consumer whose stream waits at the head hold exactly the node's chain? |
| `StreamHeaders` | `HeldIsChain`, `CompleteAtEnding`, `LogsOrdered` | All headers requested, two reorganizations, a restart, an ending cursor.  Does every held block follow its parent?  Is the data complete at the end?  Are logs sent once? |
| `StreamLagging` | `TypeOK`, `PromiseKept`, `LogsOrdered` | The node answers from lagging replicas and changes between any two requests.  Is a final block ever invalidated, are logs ever out of order? |
| `StreamMixedLogs` | `LogsOfTheBlock` (violated) | finding 1 |
| `EvmRequests` | `TypeOK`, `BackfilledExactly`, `NoLogTwice`, `RateKept`, `NeverStalls` | Requests fail, are repeated and compete; the oracle shrinks the range under the stream.  Are the backfilled logs exactly those the filters ask for, once each?  Is the rate kept?  Does the stream always get its blocks or an exception, whatever else takes tokens? |
| `SqliteStore` | `StoreSpec`, `TypeOK`, `VersionsDisjoint` | One indexer with pending blocks, reorganizations, finality, failing handlers and crashes.  Does each handler read the content of the block before its own, do reorganizations and restarts give it back, has a key one value? |
| `SqliteShared` | `OwnRowsOnly` | Two indexers on one connection, without a starting cursor, with reindexing.  Does a step change the committed rows of no indexer but its own, failures included? |
| `MongoStore` | `StoreSpec`, `TypeOK`, `PendingRemembered` | Sets of documents inserted, updated and deleted, and every outcome of the driver's commit.  Is it the same store?  Is a pending block ever taken for good? |
| `DrizzleStore` | `StoreSpec`, `TypeOK`, `UndoApplies`, `CheckpointKeepsUp` | A log written by triggers and hooks of several transactions.  Is it the same store?  Does each undo find its row?  Does the checkpoint move with the data? |
| `Indexer` | `TypeOK`, `NothingSkipped`, `ContractsKnown`, `GivesUpOnlySilentStreams`, `AbortReturns`, `EventuallyCaughtUp` | The factory, two reorganizations, errors, an abort and a restart.  Is each block handled once, with every contract its chain created?  When are retries given up?  Does an abort return, does the data catch up? |
| `IndexerMongoFactory` | `RestartIsClean` (violated) | finding 2 |

**Bounds.**

*Streams.*  Chains of three or four blocks (`MaxNumber`), forks in the first one
or two (`ForkDepth`), one or two reorganizations, one restart, join batches of
two (`BatchSize = 1`) and backfill ranges of two (`RangeSize = 2`).  They suffice
for the interesting cases: a reorganization of depth two onto a chain that is
longer, equal or shorter; one below, at and above the cursor; a join of two
batches; a backfill of two ranges; a finalized block that passes the head; a
reorganization of blocks the stream never processed; a restart in the middle of
each.  Every action is taken in some passing run.

*Requests.*  Five blocks, all but the last final, a starting range of four that the node refuses, so
that it is halved to the two it takes, two attempts, one request per second and two ticks per second (`Rps`,
`TicksPerSecond`), one fault and one range of another stream (`MaxFaults`, `MaxOthers`).
Two filters that overlap, one of them without an address: merged they are two calls.  A
log is removed, another replaced by the reorganization.  `MaxObserved` bounds the interval
over which `RateKept` is checked; the theorem has no bound.

*Storages.*  For SQLite, one key (no statement touches two) and five blocks for one indexer:
enough for a row that is closed, reopened by a reorganization and closed again, finality
between the blocks, and a pending block that is replaced.  Two indexers need two blocks
each: the transactions that meet.  For MongoDB, two keys (a statement takes several),
three blocks.  For Drizzle, one key with two values, four blocks and a log of at
most four rows (`MaxLog`): an insert, two updates and a delete of one row in one to three
blocks, undone to any of them.  `StoreSpec` is checked step by step, so a longer history
adds only more rows of the same shapes; the proofs (section 5) have no bound.

*Indexer.*  Four blocks, a fork at the second, two reorganizations, one restart, three
attempts (`MaxRetries`).  One contract is created below the fork, another on both branches at
different heights: stored filters are replaced, undone, finalized and loaded again.

**Assumptions of the passing runs**, and what happens without them:

* `AtomicReads` (the chain stands still while an iteration runs) in `StreamReorg`
  and `StreamHeaders`.  Without it `HeadIsCanonical`, `ConsistentAtHead` and
  `HeldIsChain` fail: an iteration joins answers about different chains
  (finding 1), and a join may set a head of a branch the node left between two
  batches.
* `Prompt` (blocks become final on the chain the tracker follows, hence not above its
  head) in the same runs and in `StreamMixedLogs`.  Otherwise
  finality may settle on a branch the stream has not seen yet, which it cannot invalidate any
  more, or pass the head (section 4, limits).  `StreamGrowth` does not assume it.
* `Switch`: a node that returns to a branch it left can make the stream miss the
  excursion altogether, and `ConsistentAtHead` fails.  A node that moves to a shorter chain
  can take the tracker's head back to a block that finality passes before the next
  refresh, and `HeadIsCanonical` fails until then.  `SwitchAssumption` of `RpcDataStreamMC`
  says of the runs with `AtomicReads` what the theorems assume: chains never get shorter, and
  a branch that was left stays left.
* `FastRequests` (no interval elapses inside a request) in `StreamGrowth`.  Without it the
  intervals may elapse again in every request, and the stream sends heartbeats and refreshes the
  finalized block for ever instead of asking for blocks.
* `KeepHead`: no block becomes final within a head refresh interval, so a head below
  the finalized block is always due for a refresh.  Refresh intervals are
  seconds, finality takes minutes.
* `LogsAssumption` (`EvmRequests`): a node has one log at a block and index, and no
  reorganization reaches a final block.
* *One form of a topic* (`LogFetcher`): `refineLog` normalizes topics before it compares them,
  one call per filter sends them to the node as they are written.  Two ways to write one
  topic are one value here.
* *A starting cursor, or no pending blocks* (`SqliteStore`, `MongoStore`; `Clean` in the
  theorems): without either, what was not checkpointed is not undone (section 4).
  `DrizzleStore` always has a starting cursor.
* *One indexer per collection or table* (`MongoStorage`, `DrizzleStorage`): MongoDB documents
  carry no indexer, and PostgreSQL triggers log every writer of a table; `plugins:init`
  warns of triggers of other indexers.
* *Ids are unique and stay* (`DrizzleStorage`): the id column (`plugin-drizzle/src/storage.ts`,
  `idColumn`) identifies a row and no handler updates it.  The trigger logs an `UPDATE`
  under the new id (`:128`) and the undo restores every column but the id (`:335`): a row whose id
  was changed would keep the new one after a reorganization.
* `StillDuringFactory` (`Indexer`): no reorganization between the message that starts the
  factory and the first block of its stream.  Without it `NothingSkipped` and
  `ContractsKnown` fail (section 4).
* `NewBranch` (`Indexer`, SQLite and MongoDB): the chain does not return to a branch it
  left.  These plugins do not move the checkpoint when blocks are undone; when the chain is
  back on its branch at a restart, the stream continues after it and the blocks undone are
  missing.  Drizzle moves it, and is checked with any reorganization.

`StreamLagging` makes none of these assumptions except `KeepHead`.

**Fairness.**

* `RpcDataStream` (`FairSpec`, in `StreamGrowth`).  `WF_vars(StreamStep)`: the event loop runs
  the stream and requests are answered.  `SF_vars(Poll /\ pc = "wait")`: the waiting
  loop polls the head once per refresh interval; it can be interrupted by a
  deadline each time, but the code always sleeps, then polls, so an enabled poll is
  not postponed forever.  `WF_vars(Elapse(t))`: time passes.  The node is under no
  fairness: it may stop growing.
* `EvmRequests`.  `WF_vars(Tick)`: time passes.  `WF_vars(StreamStep)`: requests are answered, and a
  request that waits for a token gets one.  `acquireOne` keeps no order: each request looks for a
  token by itself every 100 ms, and takes one that is there.  A token that nobody else takes stays
  for it, and those who could take it first are finitely many: the requests of failed attempts and
  `MaxOthers` ranges of other streams.  A consumer is not forced to ask again: `NeverStalls` is
  about one stream, up to its blocks or its exception.  That a
  stream gets its blocks in the end does not follow (section 4, limits).
* `Indexer`.  `WF` of `Connect`, `Handle` and `SignalEnds /\ Return`: the event loop.
  `SF` of `ReceiveData`, `ReceiveInvalidate` and `FactoryBlock`: connections break any
  number of times (a heartbeat resets the retries), but the server delivers in the end.
  Nothing forces an abort, and errors that are not retried may end the run.

The `Stream` runs disable the deadlock check: the stream stops at its ending cursor or with
an exception, and the tree is finite.  So do the `Indexer` runs: `runWithReconnect` returns.

Each property has a mutant (`Mutant...` next to the definition it alters): a
plausible bug for which the same run reports a violation.

## 4. Findings

1. **Logs of one block under the hash of another** (`StreamMixedLogs`).  Logs and
   headers of a range are two requests (`stream-config.ts:224` and `:268`) joined by block
   number.  A reorganization in between sends a block that never existed, and nothing
   corrects it later.
2. **A factory block can be skipped for good** (`IndexerMongoFactory`).  `connect:factory`
   of the MongoDB plugin (`index.ts:140`) stores the filter *and the cursor of the block* in
   a transaction of its own, while the transaction of the block is open.  If the rest
   fails, or the process ends, the checkpoint names a block that was never handled.  The
   other two plugins use the open transaction; `NothingSkipped` holds for them.

### Limits met while modelling

No run is a counterexample for the following; a property or an assumption above names it where
it matters.  A maintainer would want to know them.

*Data stream.*
`backfillFinalizedBlocks` refreshes the finalized block and never the head.  When finality
passes the head the tracker knew at the start of the backfill, `updateFinalized`
(`chain-tracker.ts:75`) deletes the head's own entry, and the join of the next `updateHead`
misses the parent of its first block and throws "Chain reorganization detected" (`:231`) on
a chain that only grew.  If finality stops exactly at the head and the backfill
reaches it, the live range is empty and that throws instead.  `Overtaken` names the two cases;
`GrowthIsHandled` shows that there is no third.  The ending
cursor is compared once per iteration (`data-stream.ts:444`), so blocks may be sent past it.
The header of an empty head does not move the cursor (`:333`): blocks below it may follow, and a
consumer that resumes from one of those is not told when that header is orphaned.

*Node access.*
The live range is not clamped (`data-stream.ts:308`).  The oracle's size only shrinks; its
`maxSize` is not used.  After
a refusal `fetchLogsForRangeWithRetry` halves the oracle's range but ignores
`{ retry: true }` and throws (`stream-config.ts:374`).  A JSON-RPC error is neither `ClientError` nor
`ServerError`, so `runWithReconnect` throws it too, and the next process asks for the
starting range again: the range shrinks until the node takes it only for a consumer that asks
the same client again.  The value
`"accepted"` of `mergeGetLogsFilter` behaves like `false` (`stream-config.ts`).
When the chain reorganizes between two of the parallel calls, a log can carry the id of a
filter that does not take it.  The limiter lets up to twice the rate through in its first
second (`RateKept` says exactly how much); attempts that failed leave requests behind that
still take tokens.  The order of a log's filter ids depends on merging.

*Storages.*
`COMMIT` of the SQLite plugin is outside the `try` (`plugin-sqlite/src/utils.ts:24`): when it
throws, nobody rolls back, and if SQLite did not, `BEGIN` is refused until the process ends
(`CommitFails`; no data is lost).  `insertFilter` does not reset `to_block` when the row exists
(`persistence.ts:164`), unlike the other plugins; a stored filter begins after all rows
(`FiltersAt`), so no row exists.
Without a starting cursor, `connect:after` returns before it undoes anything
(`plugin-sqlite/src/index.ts:161`, likewise in the other plugins): rows of a
pending first block stay after a restart.  While such a stream is connected, the data message
after a pending one has no cursor to go back to and throws.  The Drizzle plugin undoes the
pending block and commits that before the block's own transaction, which is sound because
the log rows go with it.

*Indexer.*
Reorganizations between a message and the factory's second stream put another block under the first
one's end cursor, or fail the assertion at `indexer.ts:460`.  `stream.next()` there
(`:458`) is not raced with the signal, so an abort waits for it.  A `TimeoutError` is not
retried.  With `MaxRetries` of 1 or less, one error ends the run even after
progress.  An abort calls `return` on an iterator that has none.  The health plugin stays
"running" between attempts.

## 5. Proofs

### The stream

Proved with TLAPS for every block tree that satisfies `BlockTreeAssumption`, every
value of the constants that satisfies `StreamAssumption` and `BatchSizeAssumption`,
and any behaviour of the node:

| Theorem | States |
|---|---|
| `TypeCorrect` | `Spec => []TypeOK` |
| `LogsAreOrdered` | `Spec => LogsOrdered` |
| `PromiseIsKept` | `Spec /\ Steady => PromiseKept` |
| `Invariance` | `Spec => []IInv`, on which they rest |

`Steady` says that the node answers with its last blocks, or the consumer is not
restarted: a restarted stream has no memory of what was final and takes the
node's word, which a lagging replica can break.

The invariant `IInv` is the conjunction of

* `TypeOK`;
* `TrackerInv`: the tracker is good (types, one canonical block per number, none
  below the finalized block), its finalized block is not above the node's, and that
  one not above the node's head.  Without it, a head below the finalized block would
  let `updateHead` reorganize below it;
* `CursorInv`: the cursor is not above the head or the finalized block of the
  tracker; when live blocks are produced, not above the head.  It is what makes the
  header of an empty head a cursor that lies above all logs;
* `RequestInv`: what is fetched lies after the cursor; a backfill not above the
  finalized block;
* `HeldInv`: held blocks with logs are not above the cursor, and never above the
  cursor the consumer would resume from, which is what survives an exception;
* `PromiseInv`: what was promised is at most the tracker's finalized block while
  the stream runs, and at most the node's always, which is what survives a restart.

`PromiseKept` follows because only `HeadReorged` invalidates, and `UpdateHeadGood`
shows its ancestor is not below the finalized block.  `LogsOrdered` follows because only the
two fetches send logs, all above the cursor.  One lemma per action (or group of
actions that end alike: `QuietInv`, `FailInv`, `EndIterationInv`, `TrackerMovesInv`)
shows that it keeps `IInv`; the lemmas about the operators of `ChainTracker`, with which
the module begins, carry the tracker's part.

### What the stream makes of the chain

`StreamChainProofs` proves the invariants of the stream that hold when the chain it sees is
one chain, again for every block tree and value of the constants:

| Theorem | States |
|---|---|
| `GrowthHandled` | `Spec /\ Growing => []GrowthIsHandled` |
| `HeadCanonical` | `Spec /\ OneChainEach => []HeadIsCanonical` |
| `AtHeadConsistent` | `Spec => []ConsistentAtHead`, if `OneChainEach`, and `HeaderAlways` or `MaxRestarts = 0 /\ \E S : OneWay(S)` |
| `HeldChain` | `Spec => []HeldIsChain`, if `OneChainEach` and `HeaderAlways` |
| `EndingComplete` | `Spec => []CompleteAtEnding`, if `OneChainEach` and `HeaderAlways` |

The hypotheses are the assumptions of section 3, as formulas about the constants.
`Growing`: the node answers with its last blocks, and the first cursor is not ahead of the
node.  Requests, growth and finality interleave freely, and `GrowthIsHandled` itself says "as long
as there was no reorganization" and names the exception the code does have (`Overtaken`, section 4).
`OneChainEach`: `AtomicReads`, an up-to-date node, `Prompt`, and a
node that never moves to a shorter chain (`NeverShorter`).  `OneWay(S)`: it never goes
back to a branch it left; `S` relates a block to the heads the node may have after it.
`RpcDataStreamMC` assumes both of the runs that have `AtomicReads`, and TLC evaluates that.
Without `HeaderAlways` a restart is excluded for a reason: the header of an empty head does
not move the cursor (section 4), a consumer that restarts below it is not told that it was
orphaned, and holds it beside the new branch.

`GrowthHandled` needs `Grown`: finalized block, head and every canonical block are on the
node's chain.  The head is in the canonical map, above the cursor when live blocks are asked
for, and a join goes on where the map ends, unless the finalized block has `Passed` the head.
Every throw but those of `Overtaken` then contradicts one of these.  The other four share `ChainInv(S)`:

* `FollowInv`: the canonical map is the chain of the tracker's head, in a join also the part
  of the node's chain linked so far, from which the join goes on.  It is what
  makes `HeadIsCanonical` inductive: a reorganization finds its common block, or none was needed;
* `FetchInv`: what an iteration asked for logs are the logs of the range of this chain, so
  every block comes with its own (which finding 1 breaks when reads are not atomic);
* `ServedInv(S)`: the consumer holds the chain of the tracker's head, complete with
  logs up to `Reach`, the cursor or the last header sent by itself.  Without
  `HeaderAlways` that is claimed only for the part the node's chain shares, because a
  backfill or a batch of a join can skip the block where the branches part; `S` then says that
  the unshared part never comes back;
* `HeadersInv`, `ResumeInv`: with all headers, the consumer's cursor is the stream's, and a
  consumer that starts again resumes from one gapless chain.

`ConsistentAtHead` follows because a stream that waits has the node's head as its own.
`HeldIsChain` follows because two blocks of one chain with adjacent numbers are parent and child.

### The SQLite store

Proved for every set of indexers, keys and values and every number of blocks, from
`SqliteAssumption`:

| Theorem | States |
|---|---|
| `TypeCorrect` | `Spec => []TypeOK` |
| `ImplementsStore` | `Clean /\ Spec => StoreSpec` |
| `VersionsAreDisjoint` | `Clean /\ Spec => []VersionsDisjoint` |
| `RowsAreOwn` | `Spec => OwnRowsOnly` |
| `Invariance` | `Clean /\ Spec => []IInv`, on which the theorems about `Clean` rest |

`Clean` excludes the first limit of the storages in section 4: there is a starting cursor, or no block is pending.  Without
it the rows left by a restart overlap those of lower blocks, so `VersionsDisjoint` needs
it as well; isolation does not.

The mapping: the content of indexer `i` after block `n` is in the rows valid at `n`,
or at the final block when `n` is below it (`History`); the draft is what `get` reads.
The invariant `IInv` says

* `StreamInv`: the stream's position is between the starting cursor and the requested
  cursor (an invalidate moves it behind the checkpoint, nothing moves it ahead); after
  a pending block the plugin remembers that it was pending while it is connected;
* `Settled`: rows begin and end at or below the position, or at the last pending
  block.  Hence the current values are the values at that block, and `invalidateKV`
  at the position is exactly what removes it;
* `HandlerInv`: the rows of an open transaction agree with the saved rows for other
  indexers, and for this one at all blocks before the one handled.

One lemma per SQL statement says which values it leaves at which block
(`InvalidateValues`, `FinalizeValues` and so on), without which each step's proof would repeat the
case split on intervals; then one lemma per action shows that it keeps `IInv` and is
a step, or a stutter, of `ReorgStore`.  `Put` and `Del` are `Write`, `HandlerFails`,
`PutConflicts` and `Crash` are `Rollback`, `Connect` and `MessageInvalidate` are
`Invalidate`.  An indexer is `active` unless it is stopped: `Initialize` is `Start`, or `Reset` when it
reindexes, and whatever ends `run` is `Stop`.  So nothing but a start with reindexing may
empty the rows.  `CommitFails` is `Rollback`, or `Stop` when the transaction stays open.

`VersionsDisjoint` is inductive with `IInv`: a statement either deletes rows, shortens
them, or reopens to what was valid at the cursor (`ReopenedValid`); the row that `put` adds
meets no other because by `Settled` every other row ended by that block.  For
`OwnRowsOnly` it is enough that an open transaction changed only its indexer's rows
(`OwnInv`), and that every hook commits for the indexer whose `run` calls it, which has not
stopped (`Acts`), while no transaction is open.

### The requests of the node access

Proved for all filters, logs, limits and rates that satisfy `EvmAssumption` and
`LogsAssumption`:

| Theorem | States |
|---|---|
| `MergedIsStandard` | merged or not, the joined calls give the same logs with the same ids; `evm-rpc/tests/merge-get-logs.integration.test.ts:330` tests it against a node |
| `RequestTypes` | `Spec => []TypeOK` |
| `RateIsKept` | `Spec => []RateKept` |
| `BackfillIsExact` | `Spec => []BackfilledExactly` |
| `LogsAreOnce` | `Spec => []NoLogTwice` |

`JoinedIsWanted` is the argument about `LogFetcher`: if every log a filter takes is in the
answer of exactly one call that reads with that filter, and answers are about one chain,
then what is joined is `Wanted`.  Standard calls ask by the filter's own address and topics;
merged calls ask by addresses only, one for the filters with an address and one for the
rest, because a call with both would lose one kind.  Each is shown complete on its own.

The limiter's invariant `Paid` says that what was sent in the observed interval, plus the
tokens left, is at most the capacity plus the refills; debt of less than a token then
bounds the rate.  The stream's invariant `StreamInv` has

* `Asking`: the range begins after what the stream has, and a backfilled one ends at or
  below the final block, although the size changed since;
* `FoundIsFetched`: what is joined is what the calls of this range answer (`Wanted` when
  the range is final, one log per place always);
* `HeldIsBehind`: what was delivered is not above the position;
* `BackfilledExactly` and `NoLogTwice` themselves.

### The MongoDB store

Proved for every set of keys and values and every number of blocks, from `MongoAssumption`:

| Theorem | States |
|---|---|
| `TypeCorrect` | `Spec => []TypeOK` |
| `ImplementsStore` | `Clean /\ Spec => StoreSpec` |
| `PendingIsRemembered` | `Clean /\ Spec => []PendingRemembered` |
| `Invariance` | `Clean /\ Spec => []IInv`, on which they rest |

The mapping and the invariant are like SQLite's: `Settled` for the committed documents,
`HandlerInv` for those of the open transaction.  What differs is that MongoDB's statements take sets of
keys and rewrite the current document in place.  `Writes(ds, es, b)` says what
all of them have in common: documents of other blocks keep what they were up to `b`, new
or changed ones begin or end at `b`.  `StatementsWrite` shows it of each statement, and
the rest of the proof knows statements only by it, and by what `findOne` reads afterwards
(`InsertFound`, `UpdateFound`, `DeleteFound`).  `PendingIsRemembered` needs more than the
committed documents: a commit that fails has set `prevFinality` already, and is harmless
because `run` then ends and the next `connect:after` undoes the block.

### The Drizzle store

Proved for every set of keys and values, every number of blocks and of log rows, from
`DrizzleAssumption` and, but for the types, from `Clean` (the indexer starts from a cursor):

| Theorem | States |
|---|---|
| `TypeCorrect` | `Spec => []TypeOK` |
| `ImplementsStore` | `Clean /\ Spec => StoreSpec` |
| `UndoesCleanly` | `Clean /\ Spec => []UndoApplies` |
| `CheckpointKeeps` | `Clean /\ Spec => []CheckpointKeepsUp` |
| `Invariance` | `Clean /\ Spec => []IInv`, on which the three above rest |

The tables have no history, so the mapping reads it from the log: `Reads(r, l, k, n)` is
what the oldest row of `l` after block `n` says, or else what the table `r` holds.  Two
lemmas carry the argument.  `UndoReads`: undoing the newest row of a log changes no content
of a block before that row's.  `LogReads`: nor does a statement that is logged.  Both need
`Ordered`: the numbers of the rows are unique, and in the order of the blocks.

The invariant has three parts.  `StoredInv` is about what is committed: the checkpoint is at
the stream's position, the log is of blocks up to it and of one pending block, and a plugin
that remembers its triggers finds them in the database.  `UndoInv` holds while a hook
undoes: what is still to undo is newer than all that stays, and every content up to
the cursor is `Kept`, read from the rows that are left.  `BlockInv` holds while a block is
handled: the contents before it are `Kept`, and triggers are on the tables unless
the block is final.  `UndoApplies` alone is not inductive.  It needs `Linked`: each
row finds its key as its statement left it, in the table if it is the newest of
its key, otherwise in what the following row restores.  `Linked` only holds for rows that are
`Live`, above the final block, because a finalized block's statements are not
logged; a row below it is never undone (`UndoInv`), and `LinkedFinal` shows that the
rows that drop out are the oldest.

### The indexer

Proved for every block tree, set of contracts and number of attempts that satisfy
`IndexerAssumption`:

| Theorem | States |
|---|---|
| `TypeCorrect` | `Spec => []TypeOK` |
| `GivesUpOnSilence` | `Spec => []GivesUpOnlySilentStreams`, if `MaxRetries > 1` |
| `HandledExactly` | `Spec => []NothingSkipped`, if `StillDuringFactory`, `Apart(S)` for some `S`, and mongo is not a plugin |
| `FilterHoldsContracts` | `Spec => []ContractsKnown`, if `StillDuringFactory` and `Apart(S)` |
| `TablesStand` | the invariant on which the last two rest |

The hypotheses are the assumptions of section 3 and nothing else.  `Apart(S)` is: only drizzle,
on any chain, or `OneWay(S)`, a chain that does not go back to a branch it left (`IndexerMC`
assumes it of its tree, and TLC evaluates that).  Mongo's factory breaks `NothingSkipped` (finding 2) but
not `ContractsKnown`: the filter it commits early is the right one.  With one attempt the
first error ends the run although the stream was live, hence `MaxRetries > 1`.

`NothingSkipped` compares the data with the cursor, and neither says where the other is
after a failure: sqlite leaves the checkpoint on the branch that was undone, a restart
puts the cursor back to it.  The invariant therefore names a block `p` of its own:

* `PlaceInv(S, p)`: `p` is the checkpoint, and the cursor of an open stream, or an ancestor from
  which they lead away from the chain (`Beyond`: what they share with it is on `p`'s chain).  With
  drizzle all three are equal.  So a cursor that is on the chain is `p` (`CanonicalPlace`);
  `S` says that a branch that was left stays left;
* `DataInv(p)`: the data is one record for each block up to `p`;
* `FilterInv(p, f)`: from a block `f` on, which no reorganization can undo because it is final on
  the chain, every row of filters that is valid at a block holds the contracts of its chain, and
  there is one when there are contracts.  `f` is needed because a finalize removes rows: below
  it nothing is claimed, and nothing is read.  While a block is handled the same holds of the
  transaction's rows at that block;
* `MemoryInv(p)`: so do the main filter and the stream's.

Connections, failures and restarts keep `p`; a handled block moves it up, an invalidate moves it
down to the last shared block, mongo's factory moves it to the block at once.
One lemma per operation on the rows (`FiltersCut`, `FiltersExtend`, `FiltersPersist`,
`FiltersFinalize`, `FiltersLoaded`) and on the data says what it makes of them at another `p`.

### What is only model-checked

Every safety property of a passing run has a theorem.  The liveness properties do not
(`EventuallyCaughtUp` of the stream and of the indexer, `IntervalsAnswered`, `NeverStalls`,
`AbortReturns`): they rest on fairness, hence on `ENABLED`, which the prover does not treat
here.  TLC also checks what the theorems exclude by hypothesis, in the two runs that find violations.

## 6. Not modelled

* **Generated code**, about half of the repository's lines: `proto/*.ts` under `protocol`,
  `evm`, `starknet` and `beaconchain` (encoders and decoders made by ts-proto).  Its text is
  a function of the `.proto` files; there is no state, and each line is a field written in
  its place.
* **Codecs, filters and block schemas** (`evm`, `starknet`, `beaconchain`, `codec.ts`): another
  fifth, tables of field names.  The content of blocks is a value here, and filters are what the
  properties tell apart: the log filters of `LogFetcher`, the contracts of `Indexer`.
  Together with the first item this is why the map covers a small share of all
  lines although it covers the stateful code nearly whole.
* **The gRPC client**: one read raced with one timer, a decoder, an ending cursor that `run` never
  sets.  What it does to an indexer are the actions `Return`, `Fails` and `StreamFails`.
* **CLI, examples, test tools**: scaffolding, bundling, recording of streams; pure input and output.
* **Health, in-memory persistence, logger, context, metrics and spans**: a variable each or none.
* **Of the modelled parts**: `addToCanonicalChain` (never called); Drizzle's
  `recordChainReorganizations`, its migrations and the retries of its `plugins:init`; options
  that switch off the state or the key-value store; several indexers in MongoDB
  collections or PostgreSQL tables, which the code does not support; viem's own retries
  inside a request, which only take more tokens; a system clock that goes backwards under the
  rate limiter; pending blocks in `Indexer`, where the factory is not called and
  the checkpoint stays (they are in each storage's module).

## 7. Plan

1. *(done)* `BlockTree`, `ChainTracker`, `RpcDataStream`, their runs and proofs.
2. *(done)* `ReorgStore`, `SqliteStorage`, the refinement checked and proved.
3. *(done)* `MongoStorage` and `DrizzleStorage` against `ReorgStore`, both proved.
4. *(done)* `Indexer` with the factory, the stored filters, reconnection, abort and restart.
5. *(done)* `LogFetcher` and `EvmRequests`, proved.
6. *(done)* What the stream makes of the chain (`StreamChainProofs`) and the indexer
   (`IndexerProofs`), proved.
7. Open: `HeldIsChain` and `CompleteAtEnding` without `NeverShorter` (TLC finds no violation
   with arbitrary moves of the node, but the invariant of the proof needs it); the composition of `Indexer` with `RpcDataStream` as its server; several indexers with
   triggers on one PostgreSQL table, should the plugin come to support it.
