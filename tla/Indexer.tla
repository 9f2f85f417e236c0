-------------------------------- MODULE Indexer --------------------------------
(***************************************************************************)
(* runWithReconnect and run (indexer/src/indexer.ts) in factory mode, with *)
(* the transaction of a storage plugin, its checkpoint and its filters,    *)
(* and a server that streams the chain.                                    *)
(*                                                                         *)
(* A contract is what the factory adds to the main filter when its block   *)
(* creates it; a filter is a set of contracts.  The data of a block is the *)
(* record that it was handled and of the filter the server applied to it.  *)
(* Pending blocks are in the modules of the plugins: the factory is not    *)
(* called for them and they leave the checkpoint alone.                    *)
(***************************************************************************)
EXTENDS BlockTree, FiniteSets

CONSTANTS
  Genesis,      \* the block of options.startingCursor
  Contract,
  Creates,      \* Creates[b]: the contracts block b creates
  Plugins,      \* the storage plugins: "sqlite", "drizzle", "mongo"
  NoBlock,      \* no cursor
  MaxRetries,   \* options.maxRetries
  MaxReorgs,    \* bound on reorganizations
  MaxRestarts,  \* bound on the times the process is started again
  NewBranch(_, _),     \* NewBranch(b, c): the chain never left c for b
  StillDuringFactory   \* no reorganization while the factory's stream is opened

ASSUME IndexerAssumption ==
  /\ Genesis \in Block /\ Number[Genesis] = 0
  /\ Creates \in [Block -> SUBSET Contract]
  /\ Plugins \subseteq {"sqlite", "drizzle", "mongo"}
  /\ NoBlock \notin Block
  /\ MaxRetries \in Nat /\ MaxReorgs \in Nat /\ MaxRestarts \in Nat
  /\ StillDuringFactory \in BOOLEAN

VARIABLES
  tip, final,   \* the chain (external): its last block, its last final number
  reorgs,
  plugin,       \* the storage plugin in use
  pc,           \* where runWithReconnect and run are
  error,        \* what the last error was
  aborted,      \* options.signal
  retryCount,
  onConnectCalled,
  mainFilter,
  stream,       \* the open stream: the cursor it is at and its main filter
  message,      \* the data message in the middleware
  db,           \* what the open transaction sees
  saved,        \* what is committed
  restarts

chain == <<tip, final, reorgs, plugin>>
control == <<pc, error, aborted, retryCount, onConnectCalled, restarts>>
run == <<mainFilter, stream, message>>
store == <<db, saved>>
vars == <<tip, final, reorgs, plugin, pc, error, aborted, retryCount,
          onConnectCalled, restarts, mainFilter, stream, message, db, saved>>

Filter == SUBSET Contract
Length == {Number[b] : b \in Block}
FilterRow == [from : Length, to : Length \union {-1}, filter : Filter]
Handled == [block : Block, at : Length, filter : Filter]
Message == [cursor : Block, endCursor : Block, block : Block, filter : Filter]
NoMessage == [cursor |-> Genesis, endCursor |-> Genesis, block |-> Genesis, filter |-> {}]

-----------------------------------------------------------------------------
(* The plugin's tables.  A row of filters holds until to, -1 (NULL) while   *)
(* it is current.                                                           *)

\* getState
StoredFilter(s) ==
  IF \E r \in s.filters : r.to = -1
  THEN (CHOOSE r \in s.filters : r.to = -1).filter ELSE {}

RequestedCursor(s) == IF s.checkpoint = NoBlock THEN Genesis ELSE s.checkpoint

PersistCheckpoint(s, b) == [s EXCEPT !.checkpoint = b]

\* persistState with a filter: the current row ends, the new one replaces a
\* row that began at the same block; sqlite keeps to_block of that row.
PersistFilter(s, b, f) ==
  LET ended == {IF r.to = -1 THEN [r EXCEPT !.to = Number[b]] ELSE r : r \in s.filters}
      replaced == {r \in ended : r.from = Number[b]}
      to == IF plugin = "sqlite" /\ replaced # {} THEN (CHOOSE r \in replaced : TRUE).to ELSE -1
  IN  [PersistCheckpoint(s, b) EXCEPT
         !.filters = (ended \ replaced)
                       \union {[from |-> Number[b], to |-> to, filter |-> f]}]

InvalidatedFilters(rows, n) ==
  {IF r.to > n THEN [r EXCEPT !.to = -1] ELSE r : r \in {q \in rows : q.from <= n}}

\* invalidate, invalidateState: only drizzle moves the checkpoint.
Invalidated(s, c) ==
  [checkpoint |-> IF plugin = "drizzle" /\ s.checkpoint # NoBlock THEN c ELSE s.checkpoint,
   filters |-> InvalidatedFilters(s.filters, Number[c]),
   data |-> {h \in s.data : h.at <= Number[c]}]

\* Mutation: the rows that began before the final block go.
MutantFinalizedFilters(rows, n) == {r \in rows : r.from > n}

\* finalizeState: drizzle compares with <.
FinalizedFilters(rows, n) ==
  {r \in rows : r.to = -1 \/ (IF plugin = "drizzle" THEN r.to >= n ELSE r.to > n)}

Transact(s) == db' = s /\ saved' = s
Rollback == db' = saved /\ UNCHANGED saved

-----------------------------------------------------------------------------
Init ==
  /\ tip = Genesis /\ final = 0 /\ reorgs = 0
  /\ plugin \in Plugins
  /\ pc = "starting"
  /\ error = "none"
  /\ aborted = FALSE
  /\ retryCount = 0
  /\ onConnectCalled = FALSE
  /\ mainFilter = {}
  /\ stream = [cursor |-> Genesis, filter |-> {}]
  /\ message = NoMessage
  /\ db = [checkpoint |-> NoBlock, filters |-> {}, data |-> {}]
  /\ saved = db
  /\ restarts = 0

-----------------------------------------------------------------------------
(* The chain (external) *)

Grow(b) ==
  /\ Number[b] = Number[tip] + 1 /\ Parent(b) = tip
  /\ tip' = b
  /\ UNCHANGED <<final, reorgs, plugin, control, run, store>>

(* sqlite and mongo leave the checkpoint on the branch that is undone: a    *)
(* chain that goes back to it is covered for drizzle only.                  *)
Reorg(b) ==
  /\ reorgs < MaxReorgs
  /\ StillDuringFactory => pc # "factory"
  /\ ~OnChain(tip, b) /\ ~OnChain(b, tip)
  /\ Number[b] >= final /\ At[b][final] = At[tip][final]
  /\ plugin = "drizzle" \/ NewBranch(tip, b)
  /\ tip' = b
  /\ reorgs' = reorgs + 1
  /\ UNCHANGED <<final, plugin, control, run, store>>

FinalizeBlock ==
  /\ final < Number[tip]
  /\ final' = final + 1
  /\ UNCHANGED <<tip, reorgs, plugin, control, run, store>>

-----------------------------------------------------------------------------
(* run *)

\* plugins:init, connect:before, connect:after.  The loop of runWithReconnect
\* begins with the signal.
Connect ==
  /\ pc \in {"starting", "delay"} /\ ~aborted
  /\ LET c == RequestedCursor(saved)
         f == StoredFilter(saved)
     IN  /\ stream' = [cursor |-> c, filter |-> f]
         /\ mainFilter' = f
         /\ Transact(Invalidated(saved, c))
  /\ onConnectCalled' = FALSE
  /\ pc' = "reading"
  /\ UNCHANGED <<chain, error, aborted, retryCount, message, restarts>>

\* Mutation: runOptions.onConnect is not called.
MutantOnConnect == onConnectCalled' = TRUE /\ UNCHANGED retryCount

\* A message arrives; the first one of a connection resets the retries.
OnConnect ==
  /\ onConnectCalled' = TRUE
  /\ retryCount' = IF onConnectCalled THEN retryCount ELSE 0

\* nextWithAbort: the signal wins when it is raised already.
Reads == pc = "reading" /\ ~aborted

CursorIsCanonical == OnChain(stream.cursor, tip)
NextBlock == At[tip][Number[stream.cursor] + 1]
HasNextBlock == CursorIsCanonical /\ Number[stream.cursor] < Number[tip]

\* The new filter is stored with the cursor of its block.
FactoryState == PersistFilter(db, NextBlock, mainFilter')

\* Mutation: the filter is stored and used without what it was before.
MutantMergeFilter(f, g) == g

MergeFilter(f, g) == f \union g

\* Mutation: the checkpoint and the filter are stored at once.
MutantConnectFactory == db' = FactoryState /\ saved' = FactoryState

\* connect:factory: mongo has a transaction of its own.
ConnectFactory ==
  /\ db' = FactoryState
  /\ saved' = IF plugin = "mongo" THEN FactoryState ELSE saved

\* Mutation: the factory's stream begins after the block.
MutantFactoryCursor == NextBlock

\* The factory's stream begins with the block again.
FactoryCursor == stream.cursor

\* A data message enters the middleware.  A block that creates contracts is
\* given to the factory, and asked for again with the new filter.
ReceiveData ==
  /\ Reads /\ HasNextBlock
  /\ LET b == NextBlock
     IN  /\ message' = [cursor |-> stream.cursor, endCursor |-> b, block |-> b,
                        filter |-> stream.filter]
         /\ IF Creates[b] = {}
            THEN /\ stream' = [stream EXCEPT !.cursor = b]
                 /\ pc' = "handling"
                 /\ UNCHANGED <<mainFilter, store>>
            ELSE /\ mainFilter' = MergeFilter(mainFilter, Creates[b])
                 /\ ConnectFactory
                 /\ stream' = [cursor |-> FactoryCursor, filter |-> mainFilter']
                 /\ pc' = "factory"
  /\ OnConnect
  /\ UNCHANGED <<chain, error, aborted, restarts>>

\* stream.next() of the factory's stream: the handler gets the second block.
FactoryBlock ==
  /\ pc = "factory" /\ HasNextBlock
  /\ message' = [message EXCEPT !.block = NextBlock, !.filter = stream.filter]
  /\ stream' = [stream EXCEPT !.cursor = NextBlock]
  /\ pc' = "handling"
  /\ UNCHANGED <<chain, error, aborted, retryCount, onConnectCalled, mainFilter,
                 store, restarts>>

\* transform, persistState and the commit.
Handle ==
  /\ pc = "handling"
  /\ Transact([PersistCheckpoint(db, message.endCursor) EXCEPT
                 !.data = @ \union {[block |-> message.block,
                                     at |-> Number[message.endCursor],
                                     filter |-> message.filter]}])
  /\ message' = NoMessage
  /\ pc' = "reading"
  /\ UNCHANGED <<chain, error, aborted, retryCount, onConnectCalled, mainFilter,
                 stream, restarts>>

\* The cursor left the chain: the stream goes back to the last block it shares.
ReceiveInvalidate ==
  /\ Reads /\ ~CursorIsCanonical
  /\ \E c \in Block :
       /\ OnChain(c, tip) /\ OnChain(c, stream.cursor)
       /\ \A d \in Block : OnChain(d, tip) /\ OnChain(d, stream.cursor)
                             => Number[d] <= Number[c]
       /\ Transact(Invalidated(saved, c))
       /\ stream' = [stream EXCEPT !.cursor = c]
  /\ OnConnect
  /\ UNCHANGED <<chain, pc, error, aborted, mainFilter, message, restarts>>

\* What is undone is sent before what is final.
ReceiveFinalize(n) ==
  /\ Reads /\ CursorIsCanonical /\ n <= final
  /\ Transact([saved EXCEPT !.filters = FinalizedFilters(@, n)])
  /\ OnConnect
  /\ UNCHANGED <<chain, pc, error, aborted, run, restarts>>

\* heartbeat, systemMessage
ReceiveHeartbeat ==
  /\ Reads
  /\ OnConnect
  /\ UNCHANGED <<chain, pc, error, aborted, run, store, restarts>>

-----------------------------------------------------------------------------
(* Errors and the end *)

\* The run ends with an error that is not retried.
Throw(e) ==
  /\ Rollback
  /\ message' = NoMessage
  /\ error' = e
  /\ pc' = IF aborted THEN "returned" ELSE "thrown"
  /\ UNCHANGED <<chain, aborted, onConnectCalled, mainFilter, stream, restarts>>

\* Mutation: one attempt too many.
MutantMayRetry(n) == n <= MaxRetries

MayRetry(n) == n < MaxRetries

\* A ClientError or ServerError with a code that is retried, from the stream.
StreamFails ==
  /\ Reads \/ pc = "factory"
  /\ retryCount' = retryCount + 1
  /\ IF MayRetry(retryCount') /\ ~aborted
     THEN /\ Rollback
          /\ message' = NoMessage
          /\ pc' = "delay"
          /\ UNCHANGED <<chain, error, aborted, onConnectCalled, mainFilter, stream,
                         restarts>>
     ELSE Throw("transient")

\* Any other error: a timeout of the stream, the handler, the factory, the
\* database; and the assertion that the factory's stream begins with data.
Fails ==
  /\ Reads \/ pc \in {"factory", "handling"}
  /\ retryCount' = retryCount + 1
  /\ Throw("other")

\* Mutation: nothing listens to the signal once the stream is open.
MutantSignalEnds == aborted /\ pc \in {"starting", "delay"}

\* The signal ends the wait for a message or for the next attempt.
SignalEnds == aborted /\ pc \in {"starting", "reading", "delay"}

\* The signal, or the stream is done.
Return ==
  /\ SignalEnds \/ Reads
  /\ pc' = "returned"
  /\ UNCHANGED <<chain, error, aborted, retryCount, onConnectCalled, run, store,
                 restarts>>

\* The process calls abort (external).
Abort ==
  /\ ~aborted /\ pc \notin {"returned", "thrown"}
  /\ aborted' = TRUE
  /\ UNCHANGED <<chain, pc, error, retryCount, onConnectCalled, run, store, restarts>>

\* The process ends at any point and is started again.
Restart ==
  /\ restarts < MaxRestarts
  /\ restarts' = restarts + 1
  /\ Rollback
  /\ pc' = "starting"
  /\ error' = "none"
  /\ aborted' = FALSE
  /\ retryCount' = 0
  /\ message' = NoMessage
  /\ UNCHANGED <<chain, onConnectCalled, mainFilter, stream>>

Next ==
  \/ \E b \in Block : Grow(b) \/ Reorg(b)
  \/ FinalizeBlock
  \/ Connect
  \/ ReceiveData
  \/ FactoryBlock
  \/ Handle
  \/ ReceiveInvalidate
  \/ \E n \in Length : ReceiveFinalize(n)
  \/ ReceiveHeartbeat
  \/ StreamFails
  \/ Fails
  \/ Return
  \/ Abort
  \/ Restart

Spec == Init /\ [][Next]_vars

(* The event loop runs the indexer.  The server, however often it fails or   *)
(* sends something else first, does deliver what it has.                     *)
FairSpec ==
  /\ Spec
  /\ WF_vars(Connect) /\ WF_vars(Handle) /\ WF_vars(SignalEnds /\ Return)
  /\ SF_vars(ReceiveData) /\ SF_vars(ReceiveInvalidate) /\ SF_vars(FactoryBlock)

-----------------------------------------------------------------------------
\* The chain never goes back to a branch it left.  S relates a block to the ends
\* the chain may have after it: what the chains of both have in common is on the
\* chain in between.
OneWay(S) ==
  /\ \A b, c \in Block : OnChain(b, c) => <<b, c>> \in S
  /\ \A a, b, c \in Block :
       /\ <<a, b>> \in S
       /\ \/ NewBranch(b, c) /\ ~OnChain(b, c) /\ ~OnChain(c, b)
          \/ Number[c] = Number[b] + 1 /\ Parent(c) = b
       => /\ <<a, c>> \in S
          /\ \A x \in Block : OnChain(x, a) /\ OnChain(x, c) => OnChain(x, b)

-----------------------------------------------------------------------------
\* The variables keep their types.
Stored == [checkpoint : Block \union {NoBlock}, filters : SUBSET FilterRow,
           data : SUBSET Handled]

TypeOK ==
  /\ tip \in Block /\ final \in 0 .. Number[tip] /\ reorgs \in 0 .. MaxReorgs
  /\ plugin \in Plugins
  /\ pc \in {"starting", "reading", "factory", "handling", "delay", "returned", "thrown"}
  /\ error \in {"none", "transient", "other"}
  /\ aborted \in BOOLEAN
  /\ retryCount \in (0 .. MaxRetries) \union {1}
  /\ onConnectCalled \in BOOLEAN
  /\ mainFilter \in Filter
  /\ stream \in [cursor : Block, filter : Filter]
  /\ message \in Message
  /\ db \in Stored /\ saved \in Stored
  /\ restarts \in 0 .. MaxRestarts

Path(b) == {At[b][n] : n \in 1 .. Number[b]}

HandledOnce(s, blocks) ==
  /\ {h.block : h \in s.data} = blocks
  /\ Cardinality(s.data) = Cardinality(blocks)

\* Each block of the chain is handled once: whenever the indexer reads from a
\* cursor that is on the chain, it has the data of all blocks up to the cursor
\* and of no other, across reorganizations, failed handlers, factory blocks,
\* reconnections and restarts.
NothingSkipped ==
  pc = "reading" /\ CursorIsCanonical => HandledOnce(saved, Path(stream.cursor))

\* A block is handled with the events of every contract created on its chain,
\* itself included, although the filter that knows them is merged in memory,
\* stored, undone, finalized and loaded again at different times.
ContractsKnown ==
  \A h \in saved.data :
    UNION {Creates[b] : b \in Path(h.block)} \subseteq h.filter

\* Transient errors end runWithReconnect only after connections that brought
\* nothing: progress, however slow, is never given up.
GivesUpOnlySilentStreams ==
  pc = "thrown" /\ error = "transient" => ~onConnectCalled

\* Once aborted, runWithReconnect returns, whatever it is doing.
AbortReturns == aborted ~> pc = "returned" \/ ~aborted

\* The data catches up with the chain again and again, or the run has ended.
EventuallyCaughtUp ==
  []<>(\/ pc \in {"returned", "thrown"}
       \/ HandledOnce(saved, Path(tip)))

\* plugin-mongo/src/index.ts:119: "On restart, we need to invalidate data for
\* blocks that were processed but not persisted."  When that is done, the data
\* is that of the persisted blocks.
RestartIsClean ==
  [][Connect /\ OnChain(stream'.cursor, tip) =>
       HandledOnce(saved', Path(stream'.cursor))]_vars
=============================================================================
