----------------------------- MODULE IndexerProofs -----------------------------
(***************************************************************************)
(* Theorems about the indexer, for every block tree, every set of          *)
(* contracts and every value of the other constants: its types, that it    *)
(* gives up on a stream only when nothing came from it, that each block of *)
(* the chain is handled once, and that it is handled with the filter its   *)
(* chain calls for.                                                        *)
(***************************************************************************)
EXTENDS Indexer, BlockTreeProofs, FunctionTheorems, FiniteSetTheorems

-----------------------------------------------------------------------------
\* The retries and the run.

\* While the run goes on it may fail once more, and a connection that brought
\* something has no retries to its account.
RetryInv ==
  /\ pc \notin {"returned", "thrown"} => retryCount = 0 \/ retryCount < MaxRetries
  /\ pc \in {"reading", "factory", "handling"} /\ onConnectCalled => retryCount = 0

\* The message in the middleware is the block after the cursor; the handler has
\* it, or the factory's stream is still at the cursor.
MessageInv ==
  pc \in {"factory", "handling"} =>
    /\ Number[message.endCursor] = Number[message.cursor] + 1
    /\ Parent(message.endCursor) = message.cursor
    /\ pc = "handling" => /\ stream.cursor = message.endCursor
                          /\ message.block = message.endCursor
    /\ pc = "factory" => /\ stream.cursor = message.cursor
                         /\ OnChain(message.endCursor, tip)

\* No transaction is open between two messages; data is written by Handle only.
StoreInv ==
  /\ pc \notin {"factory", "handling"} => db = saved
  /\ db.data = saved.data

-----------------------------------------------------------------------------
\* Where the tables are.

\* What C's chain shares with the chain of the node is on the chain of p.
Beyond(c, p) == \A x \in Block : OnChain(x, c) /\ OnChain(x, tip) => OnChain(x, p)

\* The tables are those of the chain up to p.  The checkpoint, and the cursor of
\* an open stream, is p, or lies after p on a branch the chain has left for good.
PlaceInv(S, p) ==
  LET c == RequestedCursor(saved)
  IN  /\ OnChain(p, c) /\ Beyond(c, p)
      /\ pc = "reading" => OnChain(p, stream.cursor) /\ Beyond(stream.cursor, p)
      /\ pc \in {"factory", "handling"} => OnChain(p, message.endCursor)
      /\ pc \in {"factory", "handling"} /\ plugin # "mongo" => p = message.cursor
      /\ plugin = "drizzle" => p = c /\ (pc = "reading" => p = stream.cursor)
      /\ plugin # "drizzle" =>
           /\ <<c, tip>> \in S
           /\ pc \in {"reading", "handling"} => <<stream.cursor, tip>> \in S

\* Each block up to p is handled once, and kept under its number.
DataAt(data, p) ==
  /\ {h.block : h \in data} = Path(p)
  /\ \A h, g \in data : h.block = g.block => h = g
  /\ \A h \in data : h.at = Number[h.block]

\* The contracts created on the chain of b.
Known(b) == UNION {Creates[x] : x \in Path(b)}

ValidAt(r, n) == r.from <= n /\ (r.to = -1 \/ n < r.to)

\* From f to p, the rows of filters that are valid at a block hold the contracts
\* of its chain; there is one when there are contracts.
FiltersAt(rows, p, f) ==
  /\ OnChain(f, p)
  /\ \A r \in rows : r.from <= Number[p] /\ r.to <= Number[p]
  /\ \A n \in Number[f] .. Number[p] :
       /\ \A r \in rows : ValidAt(r, n) => Known(At[p][n]) \subseteq r.filter
       /\ Known(At[p][n]) # {} => \E r \in rows : ValidAt(r, n)

\* No reorganization goes below f, where the rows begin to hold.
FilterInv(p, f) ==
  /\ OnChain(f, tip) /\ Number[f] <= final
  /\ FiltersAt(saved.filters, p, f)
  /\ pc \in {"factory", "handling"} => FiltersAt(db.filters, message.endCursor, f)

\* The filters in memory hold the contracts of the chain.
MemoryInv(p) ==
  /\ pc = "reading" => Known(p) \subseteq mainFilter \cap stream.filter
  /\ pc \in {"factory", "handling"} =>
       Known(message.endCursor) \subseteq mainFilter \cap stream.filter
  /\ pc = "handling" => Known(message.block) \subseteq message.filter

DataInv(p) == plugin # "mongo" => DataAt(saved.data, p)

-----------------------------------------------------------------------------
\* The operators on the tables.

\* PersistCheckpoint and PersistFilter write a store, field by field.
LEMMA PersistFilterIsStored ==
  ASSUME NEW s \in Stored, NEW b \in Block, NEW g \in Filter
  PROVE  /\ PersistFilter(s, b, g) \in Stored
         /\ PersistFilter(s, b, g).checkpoint = b
         /\ PersistFilter(s, b, g).data = s.data
         /\ (\A r \in s.filters : r.from # Number[b]) =>
              PersistFilter(s, b, g).filters =
                {IF r.to = -1 THEN [r EXCEPT !.to = Number[b]] ELSE r : r \in s.filters}
                  \union {[from |-> Number[b], to |-> -1, filter |-> g]}
<1> DEFINE ended == {IF r.to = -1 THEN [r EXCEPT !.to = Number[b]] ELSE r : r \in s.filters}
           replaced == {r \in ended : r.from = Number[b]}
           to == IF plugin = "sqlite" /\ replaced # {}
                 THEN (CHOOSE r \in replaced : TRUE).to ELSE -1
           rows == (ended \ replaced) \union {[from |-> Number[b], to |-> to, filter |-> g]}
<1>1. s.filters \subseteq FilterRow /\ s.data \subseteq Handled
  BY DEF Stored
<1>2. Number[b] \in Length
  BY DEF Length
<1>3. ASSUME NEW r \in FilterRow
      PROVE  [r EXCEPT !.to = Number[b]] \in FilterRow /\ [r EXCEPT !.to = Number[b]].from = r.from
  BY <1>2 DEF FilterRow
<1>4. ended \subseteq FilterRow
  BY <1>1, <1>3
<1>5. to \in Length \union {-1}
  <2>1. CASE replaced # {}
    <3>1. (CHOOSE r \in replaced : TRUE) \in FilterRow
      BY <1>4, <2>1
    <3> QED
      BY <3>1 DEF FilterRow
  <2>2. CASE replaced = {}
    BY <2>2
  <2> QED
    BY <2>1, <2>2
<1>6. rows \subseteq FilterRow
  <2>1. [from |-> Number[b], to |-> to, filter |-> g] \in FilterRow
    BY <1>2, <1>5 DEF FilterRow
  <2> QED
    BY <1>4, <2>1
<1>7. PersistCheckpoint(s, b) = [checkpoint |-> b, filters |-> s.filters, data |-> s.data]
  BY DEF PersistCheckpoint, Stored
<1>8. PersistFilter(s, b, g) = [PersistCheckpoint(s, b) EXCEPT !.filters = rows]
  BY DEF PersistFilter
<1>9. ASSUME \A r \in s.filters : r.from # Number[b]
      PROVE  rows = ended \union {[from |-> Number[b], to |-> -1, filter |-> g]}
  <2>1. replaced = {}
    <3>1. ASSUME NEW r \in s.filters
          PROVE  (IF r.to = -1 THEN [r EXCEPT !.to = Number[b]] ELSE r).from # Number[b]
      BY <1>1, <1>3, <1>9
    <3> QED
      BY <3>1
  <2>2. to = -1
    BY <2>1
  <2> HIDE DEF ended, replaced, to
  <2>3. ended \ replaced = ended
    BY <2>1
  <2> QED
    BY <2>2, <2>3
<1> HIDE DEF ended, replaced, to, rows
<1>10. PersistFilter(s, b, g) = [checkpoint |-> b, filters |-> rows, data |-> s.data]
  BY <1>7, <1>8
<1>11. PersistFilter(s, b, g) \in Stored
  BY <1>1, <1>6, <1>10 DEF Stored
<1>12. PersistFilter(s, b, g).filters = rows
  BY <1>10
<1>13. PersistFilter(s, b, g).checkpoint = b /\ PersistFilter(s, b, g).data = s.data
  BY <1>10
<1> QED
  BY <1>9, <1>11, <1>12, <1>13 DEF ended

\* Invalidated writes a store; the rows it keeps, open again.
LEMMA InvalidatedIsStored ==
  ASSUME NEW s \in Stored, NEW c \in Block
  PROVE  /\ Invalidated(s, c) \in Stored
         /\ Invalidated(s, c).checkpoint =
              IF plugin = "drizzle" /\ s.checkpoint # NoBlock THEN c ELSE s.checkpoint
         /\ Invalidated(s, c).filters = InvalidatedFilters(s.filters, Number[c])
         /\ Invalidated(s, c).data = {h \in s.data : h.at <= Number[c]}
<1>1. s.filters \subseteq FilterRow /\ s.data \subseteq Handled
      /\ s.checkpoint \in Block \union {NoBlock}
  BY DEF Stored
<1>2. ASSUME NEW r \in FilterRow
      PROVE  [r EXCEPT !.to = -1] \in FilterRow
  BY DEF FilterRow
<1>3. InvalidatedFilters(s.filters, Number[c]) \subseteq FilterRow
  BY <1>1, <1>2 DEF InvalidatedFilters
<1> QED
  BY <1>1, <1>3 DEF Invalidated, Stored

\* FinalizedFilters leaves some of the rows.
LEMMA FinalizedIsStored ==
  ASSUME NEW s \in Stored, NEW n
  PROVE  /\ [s EXCEPT !.filters = FinalizedFilters(@, n)] \in Stored
         /\ [s EXCEPT !.filters = FinalizedFilters(@, n)].checkpoint = s.checkpoint
         /\ [s EXCEPT !.filters = FinalizedFilters(@, n)].filters
              = FinalizedFilters(s.filters, n)
         /\ [s EXCEPT !.filters = FinalizedFilters(@, n)].data = s.data
<1>1. FinalizedFilters(s.filters, n) \subseteq s.filters
  BY DEF FinalizedFilters
<1> QED
  BY <1>1 DEF Stored

\* The handler's record is added to the data and the checkpoint is the block.
LEMMA HandledIsStored ==
  ASSUME NEW s \in Stored, NEW b, NEW h
  PROVE  [PersistCheckpoint(s, b) EXCEPT !.data = @ \union {h}]
           = [checkpoint |-> b, filters |-> s.filters, data |-> s.data \union {h}]
<1> DEFINE k == [checkpoint |-> b, filters |-> s.filters, data |-> s.data]
<1>1. PersistCheckpoint(s, b) = k
  BY DEF PersistCheckpoint, Stored
<1>2. [k EXCEPT !.data = k.data \union {h}]
        = [checkpoint |-> b, filters |-> s.filters, data |-> s.data \union {h}]
  OBVIOUS
<1> QED
  BY <1>1, <1>2

\* getState gives a cursor and a filter.
LEMMA StateLoaded ==
  ASSUME NEW s \in Stored
  PROVE  RequestedCursor(s) \in Block /\ StoredFilter(s) \in Filter
<1>1. RequestedCursor(s) \in Block
  BY IndexerAssumption DEF RequestedCursor, Stored, IndexerAssumption
<1>2. CASE \E r \in s.filters : r.to = -1
  <2> DEFINE r == CHOOSE r \in s.filters : r.to = -1
  <2>1. r \in s.filters
    BY <1>2
  <2>2. r \in FilterRow
    BY <2>1 DEF Stored
  <2>3. StoredFilter(s) = r.filter
    BY <1>2 DEF StoredFilter
  <2> QED
    BY <1>1, <2>2, <2>3 DEF FilterRow
<1>3. CASE ~ \E r \in s.filters : r.to = -1
  BY <1>1, <1>3 DEF StoredFilter, Filter
<1> QED
  BY <1>2, <1>3

\* The block the server sends next follows the cursor on the chain.
LEMMA NextBlockFollows ==
  ASSUME TypeOK, HasNextBlock
  PROVE  /\ NextBlock \in Block /\ OnChain(NextBlock, tip)
         /\ Number[NextBlock] = Number[stream.cursor] + 1
         /\ Parent(NextBlock) = stream.cursor
         /\ OnChain(stream.cursor, tip)
<1>1. tip \in Block /\ stream.cursor \in Block
  BY DEF TypeOK
<1>2. OnChain(stream.cursor, tip) /\ Number[stream.cursor] < Number[tip]
  BY DEF HasNextBlock, CursorIsCanonical
<1>3. Number[stream.cursor] \in Nat /\ Number[tip] \in Nat
  BY <1>1, NumberNat
<1>4. Number[stream.cursor] + 1 \in 0 .. Number[tip]
  BY <1>2, <1>3
<1>5. /\ NextBlock \in Block /\ Number[NextBlock] = Number[stream.cursor] + 1
      /\ OnChain(NextBlock, tip)
  BY <1>1, <1>4, AncestorOnChain DEF NextBlock
<1>6. Number[stream.cursor] \in 0 .. Number[NextBlock]
  BY <1>3, <1>5
<1>7. At[NextBlock][Number[stream.cursor]] = At[tip][Number[stream.cursor]]
  BY <1>1, <1>5, <1>6, SameAncestor
<1>8. Number[NextBlock] - 1 = Number[stream.cursor]
  BY <1>3, <1>5
<1> QED
  BY <1>2, <1>5, <1>7, <1>8 DEF Parent, OnChain

-----------------------------------------------------------------------------
\* The types, and the retries.

LEMMA InitTypes == Init => TypeOK /\ RetryInv
<1> SUFFICES ASSUME Init
             PROVE  TypeOK /\ RetryInv
  OBVIOUS
<1>1. Genesis \in Block /\ Number[Genesis] = 0
  BY IndexerAssumption DEF IndexerAssumption
<1>2. /\ tip \in Block /\ final \in 0 .. Number[tip] /\ reorgs \in 0 .. MaxReorgs
      /\ restarts \in 0 .. MaxRestarts
  BY <1>1, IndexerAssumption DEF Init, IndexerAssumption
<1>3. /\ mainFilter \in Filter /\ stream \in [cursor : Block, filter : Filter]
      /\ message \in Message
  BY <1>1 DEF Init, Filter, Message, NoMessage
<1>4. db \in Stored /\ saved \in Stored
  BY DEF Init, Stored
<1>5. retryCount \in (0 .. MaxRetries) \union {1}
  BY IndexerAssumption DEF Init, IndexerAssumption
<1> QED
  BY <1>2, <1>3, <1>4, <1>5 DEF Init, TypeOK, RetryInv

\* The steps of the chain.
LEMMA ChainTypes ==
  ASSUME TypeOK, NEW b \in Block, Grow(b) \/ Reorg(b) \/ FinalizeBlock
  PROVE  TypeOK'
<1>1. CASE Grow(b)
  BY <1>1, NumberNat DEF TypeOK, Grow, control, run, store
<1>2. CASE Reorg(b)
  <2>1. final \in 0 .. Number[b] /\ reorgs + 1 \in 0 .. MaxReorgs
    BY <1>2, NumberNat, IndexerAssumption DEF TypeOK, Reorg, IndexerAssumption
  <2> QED
    BY <1>2, <2>1 DEF TypeOK, Reorg, control, run, store
<1>3. CASE FinalizeBlock
  <2>1. final + 1 \in 0 .. Number[tip]
    BY <1>3, NumberNat DEF TypeOK, FinalizeBlock
  <2> QED
    BY <1>3, <2>1 DEF TypeOK, FinalizeBlock, control, run, store
<1> QED
  BY <1>1, <1>2, <1>3

\* The stream that is opened, and the blocks and messages that come from it.
LEMMA ConnectTypes ==
  ASSUME TypeOK, Connect
  PROVE  TypeOK'
<1> DEFINE c == RequestedCursor(saved)
           g == StoredFilter(saved)
<1>1. c \in Block /\ g \in Filter
  BY StateLoaded DEF TypeOK
<1>2. Invalidated(saved, c) \in Stored
  BY <1>1, InvalidatedIsStored DEF TypeOK
<1>3. /\ stream' = [cursor |-> c, filter |-> g] /\ mainFilter' = g
      /\ db' = Invalidated(saved, c) /\ saved' = Invalidated(saved, c)
  BY DEF Connect, Transact
<1> HIDE DEF c, g
<1>4. stream' \in [cursor : Block, filter : Filter] /\ mainFilter' \in Filter
  BY <1>1, <1>3
<1>5. db' \in Stored /\ saved' \in Stored
  BY <1>2, <1>3
<1> QED
  BY <1>4, <1>5 DEF TypeOK, Connect, chain

LEMMA OnConnectTypes ==
  ASSUME TypeOK, OnConnect
  PROVE  /\ onConnectCalled' \in BOOLEAN
         /\ retryCount' \in (0 .. MaxRetries) \union {1}
BY IndexerAssumption DEF TypeOK, OnConnect, IndexerAssumption

\* What ReceiveData does, for a block that creates contracts and for another.
LEMMA ReceiveDataDoes ==
  ASSUME TypeOK, ReceiveData
  PROVE  /\ pc = "reading" /\ NextBlock \in Block /\ OnChain(NextBlock, tip)
         /\ Number[NextBlock] = Number[stream.cursor] + 1
         /\ Parent(NextBlock) = stream.cursor /\ OnChain(stream.cursor, tip)
         /\ message' = [cursor |-> stream.cursor, endCursor |-> NextBlock,
                        block |-> NextBlock, filter |-> stream.filter]
         /\ message' \in Message
         /\ UNCHANGED <<tip, final, reorgs, plugin, error, aborted, restarts>>
         /\ \/ /\ Creates[NextBlock] = {} /\ pc' = "handling"
               /\ stream' = [cursor |-> NextBlock, filter |-> stream.filter]
               /\ UNCHANGED <<mainFilter, db, saved>>
            \/ /\ pc' = "factory"
               /\ mainFilter' = mainFilter \union Creates[NextBlock]
               /\ stream' = [cursor |-> stream.cursor, filter |-> mainFilter']
               /\ mainFilter' \in Filter
               /\ db' = PersistFilter(db, NextBlock, mainFilter')
               /\ saved' = IF plugin = "mongo" THEN db' ELSE saved
<1>1. pc = "reading" /\ HasNextBlock
  BY DEF ReceiveData, Reads
<1>2. /\ NextBlock \in Block /\ OnChain(NextBlock, tip)
      /\ Number[NextBlock] = Number[stream.cursor] + 1
      /\ Parent(NextBlock) = stream.cursor /\ OnChain(stream.cursor, tip)
  BY <1>1, NextBlockFollows
<1>3. /\ message' = [cursor |-> stream.cursor, endCursor |-> NextBlock,
                     block |-> NextBlock, filter |-> stream.filter]
      /\ UNCHANGED <<tip, final, reorgs, plugin, error, aborted, restarts>>
  BY DEF ReceiveData, chain
<1>4. stream.cursor \in Block /\ stream.filter \in Filter
      /\ stream = [cursor |-> stream.cursor, filter |-> stream.filter]
  BY DEF TypeOK
<1>5. message' \in Message
  BY <1>2, <1>3, <1>4 DEF Message
<1>6. CASE Creates[NextBlock] = {}
  <2>1. /\ stream' = [stream EXCEPT !.cursor = NextBlock] /\ pc' = "handling"
        /\ UNCHANGED <<mainFilter, db, saved>>
    BY <1>6 DEF ReceiveData, store
  <2>2. stream' = [cursor |-> NextBlock, filter |-> stream.filter]
    BY <2>1, <1>4
  <2> QED
    BY <1>1, <1>2, <1>3, <1>5, <1>6, <2>1, <2>2
<1>7. CASE Creates[NextBlock] # {}
  <2>1. /\ mainFilter' = mainFilter \union Creates[NextBlock] /\ pc' = "factory"
        /\ stream' = [cursor |-> stream.cursor, filter |-> mainFilter']
        /\ ConnectFactory
    BY <1>7 DEF ReceiveData, MergeFilter, FactoryCursor
  <2>2. mainFilter' \in Filter
    BY <1>2, <2>1, IndexerAssumption DEF TypeOK, Filter, IndexerAssumption
  <2>3. /\ db' = PersistFilter(db, NextBlock, mainFilter')
        /\ saved' = IF plugin = "mongo" THEN db' ELSE saved
    BY <2>1 DEF ConnectFactory, FactoryState
  <2> QED
    BY <1>1, <1>2, <1>3, <1>5, <2>1, <2>2, <2>3
<1> QED
  BY <1>6, <1>7

LEMMA ReceiveDataTypes ==
  ASSUME TypeOK, ReceiveData
  PROVE  TypeOK'
<1>1. onConnectCalled' \in BOOLEAN /\ retryCount' \in (0 .. MaxRetries) \union {1}
  BY OnConnectTypes DEF ReceiveData
<1>2. stream.cursor \in Block /\ stream.filter \in Filter /\ NextBlock \in Block
  BY ReceiveDataDoes DEF TypeOK
<1>3. /\ mainFilter' \in Filter /\ stream' \in [cursor : Block, filter : Filter]
      /\ pc' \in {"handling", "factory"}
  BY <1>2, ReceiveDataDoes DEF TypeOK
<1>4. db' \in Stored /\ saved' \in Stored
  <2>1. db \in Stored /\ saved \in Stored
    BY DEF TypeOK
  <2>2. CASE UNCHANGED <<mainFilter, db, saved>>
    BY <2>1, <2>2
  <2>3. CASE /\ db' = PersistFilter(db, NextBlock, mainFilter')
             /\ saved' = IF plugin = "mongo" THEN db' ELSE saved
    <3>1. PersistFilter(db, NextBlock, mainFilter') \in Stored
      BY <1>2, <1>3, <2>1, PersistFilterIsStored
    <3> QED
      BY <2>1, <2>3, <3>1
  <2> QED
    BY <2>2, <2>3, ReceiveDataDoes
<1>5. message' \in Message
      /\ UNCHANGED <<tip, final, reorgs, plugin, error, aborted, restarts>>
  BY ReceiveDataDoes
<1> QED
  BY <1>1, <1>3, <1>4, <1>5 DEF TypeOK

LEMMA FactoryBlockDoes ==
  ASSUME TypeOK, FactoryBlock
  PROVE  /\ pc = "factory" /\ pc' = "handling" /\ NextBlock \in Block
         /\ Number[NextBlock] = Number[stream.cursor] + 1
         /\ OnChain(NextBlock, tip)
         /\ message' = [cursor |-> message.cursor, endCursor |-> message.endCursor,
                        block |-> NextBlock, filter |-> stream.filter]
         /\ stream' = [cursor |-> NextBlock, filter |-> stream.filter]
         /\ UNCHANGED <<tip, final, reorgs, plugin, error, aborted, retryCount,
                        onConnectCalled, mainFilter, db, saved, restarts>>
<1>1. pc = "factory" /\ pc' = "handling" /\ HasNextBlock
  BY DEF FactoryBlock
<1>2. /\ NextBlock \in Block /\ Number[NextBlock] = Number[stream.cursor] + 1
      /\ OnChain(NextBlock, tip)
  BY <1>1, NextBlockFollows
<1>3. message' = [message EXCEPT !.block = NextBlock, !.filter = stream.filter]
      /\ stream' = [stream EXCEPT !.cursor = NextBlock]
      /\ UNCHANGED <<tip, final, reorgs, plugin, error, aborted, retryCount,
                     onConnectCalled, mainFilter, db, saved, restarts>>
  BY DEF FactoryBlock, chain, store
<1>4. message' = [cursor |-> message.cursor, endCursor |-> message.endCursor,
                  block |-> NextBlock, filter |-> stream.filter]
  BY <1>3 DEF TypeOK, Message
<1>5. stream' = [cursor |-> NextBlock, filter |-> stream.filter]
  BY <1>3 DEF TypeOK
<1> QED
  BY <1>1, <1>2, <1>3, <1>4, <1>5

LEMMA HandleDoes ==
  ASSUME TypeOK, Handle,
         NEW h, h = [block |-> message.block, at |-> Number[message.endCursor],
                     filter |-> message.filter]
  PROVE  /\ pc = "handling" /\ pc' = "reading" /\ message' = NoMessage
         /\ h \in Handled /\ db' = saved' /\ saved' \in Stored
         /\ saved'.checkpoint = message.endCursor
         /\ saved'.filters = db.filters /\ saved'.data = db.data \union {h}
         /\ UNCHANGED <<tip, final, reorgs, plugin, error, aborted, retryCount,
                        onConnectCalled, mainFilter, stream, restarts>>
<1>1. /\ message.block \in Block /\ message.endCursor \in Block
      /\ message.filter \in Filter
  BY DEF TypeOK, Message
<1>2. h \in Handled
  BY <1>1 DEF Handled, Length
<1>3. db' = saved'
  BY DEF Handle, Transact
<1>4. db \in Stored
  BY DEF TypeOK
<1>5. saved' = [checkpoint |-> message.endCursor, filters |-> db.filters,
                data |-> db.data \union {h}]
  BY <1>4, HandledIsStored DEF Handle, Transact
<1>6. saved' \in Stored
  BY <1>1, <1>2, <1>4, <1>5 DEF Stored
<1> QED
  BY <1>2, <1>3, <1>5, <1>6 DEF Handle, chain

\* The stream's other messages, and the block that has gone through the handler.
LEMMA MessageTypes ==
  ASSUME TypeOK,
         \/ FactoryBlock \/ Handle \/ ReceiveInvalidate \/ ReceiveHeartbeat
         \/ \E n \in Length : ReceiveFinalize(n)
  PROVE  TypeOK'
<1>1. NoMessage \in Message
  BY IndexerAssumption DEF NoMessage, Message, Filter, IndexerAssumption
<1>2. CASE FactoryBlock
  <2>1. /\ stream.filter \in Filter /\ message.cursor \in Block
        /\ message.endCursor \in Block /\ NextBlock \in Block
    BY <1>2, FactoryBlockDoes DEF TypeOK, Message
  <2>2. message' \in Message /\ stream' \in [cursor : Block, filter : Filter]
    BY <1>2, <2>1, FactoryBlockDoes DEF Message
  <2> QED
    BY <1>2, <2>2, FactoryBlockDoes DEF TypeOK
<1>3. CASE Handle
  <2> DEFINE h == [block |-> message.block, at |-> Number[message.endCursor],
                   filter |-> message.filter]
  <2>1. h = h
    OBVIOUS
  <2> HIDE DEF h
  <2>2. /\ pc' = "reading" /\ message' = NoMessage /\ db' = saved' /\ saved' \in Stored
        /\ UNCHANGED <<tip, final, reorgs, plugin, error, aborted, retryCount,
                       onConnectCalled, mainFilter, stream, restarts>>
    BY <1>3, HandleDoes DEF h
  <2> QED
    BY <1>1, <2>2 DEF TypeOK
<1>4. CASE ReceiveInvalidate
  <2>1. PICK c \in Block : /\ Transact(Invalidated(saved, c))
                           /\ stream' = [stream EXCEPT !.cursor = c]
    BY <1>4 DEF ReceiveInvalidate
  <2>2. Invalidated(saved, c) \in Stored
    BY InvalidatedIsStored DEF TypeOK
  <2>3. stream' \in [cursor : Block, filter : Filter]
    BY <2>1 DEF TypeOK
  <2>4. db' \in Stored /\ saved' \in Stored
    BY <2>1, <2>2 DEF Transact
  <2> QED
    BY <1>4, <2>3, <2>4, OnConnectTypes DEF TypeOK, ReceiveInvalidate, chain
<1>5. CASE ReceiveHeartbeat
  BY <1>5, OnConnectTypes DEF TypeOK, ReceiveHeartbeat, chain, run, store
<1>6. ASSUME NEW n \in Length, ReceiveFinalize(n)
      PROVE  TypeOK'
  <2>1. db' \in Stored /\ saved' \in Stored
    BY <1>6, FinalizedIsStored DEF TypeOK, ReceiveFinalize, Transact
  <2> QED
    BY <1>6, <2>1, OnConnectTypes DEF TypeOK, ReceiveFinalize, chain, run
<1> QED
  BY <1>2, <1>3, <1>4, <1>5, <1>6

\* Errors and the end.
LEMMA EndTypes ==
  ASSUME TypeOK, RetryInv, StreamFails \/ Fails \/ Return \/ Abort \/ Restart
  PROVE  TypeOK'
<1>1. NoMessage \in Message
  BY IndexerAssumption DEF NoMessage, Message, Filter, IndexerAssumption
<1>2. Rollback => db' \in Stored /\ saved' \in Stored
  BY DEF TypeOK, Rollback
<1>3. pc \in {"reading", "factory", "handling"}
        => retryCount + 1 \in (0 .. MaxRetries) \union {1}
  BY IndexerAssumption DEF TypeOK, RetryInv, IndexerAssumption
<1>4. CASE StreamFails
  <2>1. retryCount' \in (0 .. MaxRetries) \union {1}
    BY <1>3, <1>4 DEF StreamFails, Reads
  <2> QED
    BY <1>1, <1>2, <1>4, <2>1 DEF TypeOK, StreamFails, Throw, chain
<1>5. CASE Fails
  <2>1. retryCount' \in (0 .. MaxRetries) \union {1}
    BY <1>3, <1>5 DEF Fails, Reads
  <2> QED
    BY <1>1, <1>2, <1>5, <2>1 DEF TypeOK, Fails, Throw, chain
<1>6. CASE Return
  BY <1>6 DEF TypeOK, Return, chain, run, store
<1>7. CASE Abort
  BY <1>7 DEF TypeOK, Abort, chain, run, store
<1>8. CASE Restart
  <2>1. restarts' \in 0 .. MaxRestarts /\ retryCount' \in (0 .. MaxRetries) \union {1}
    BY <1>8, IndexerAssumption DEF TypeOK, Restart, IndexerAssumption
  <2> QED
    BY <1>1, <1>2, <1>8, <2>1 DEF TypeOK, Restart, chain
<1> QED
  BY <1>4, <1>5, <1>6, <1>7, <1>8

\* A failure that may be tried again counts; a message starts the count again.
LEMMA RetriesCounted ==
  ASSUME TypeOK, RetryInv, [Next]_vars
  PROVE  RetryInv'
<1>1. retryCount \in Nat /\ MaxRetries \in Nat
  BY IndexerAssumption DEF TypeOK, IndexerAssumption
<1>2. CASE \/ \E b \in Block : Grow(b) \/ Reorg(b)
           \/ FinalizeBlock \/ Abort \/ FactoryBlock \/ Handle
           \/ UNCHANGED vars
  BY <1>2 DEF RetryInv, Grow, Reorg, FinalizeBlock, Abort, FactoryBlock, Handle,
              control, vars
<1>3. CASE Connect
  BY <1>3 DEF RetryInv, Connect
<1>4. CASE \/ ReceiveData \/ ReceiveInvalidate \/ ReceiveHeartbeat
           \/ \E n \in Length : ReceiveFinalize(n)
  <2>1. OnConnect /\ pc = "reading"
    BY <1>4 DEF ReceiveData, ReceiveInvalidate, ReceiveHeartbeat, ReceiveFinalize, Reads
  <2>2. retryCount' = 0
    BY <2>1 DEF OnConnect, RetryInv
  <2> QED
    BY <2>2 DEF RetryInv
<1>5. CASE StreamFails
  BY <1>1, <1>5 DEF RetryInv, StreamFails, Throw, MayRetry
<1>6. CASE Fails
  BY <1>6 DEF RetryInv, Fails, Throw
<1>7. CASE Return
  BY <1>7 DEF RetryInv, Return
<1>8. CASE Restart
  BY <1>8 DEF RetryInv, Restart
<1> QED
  BY <1>2, <1>3, <1>4, <1>5, <1>6, <1>7, <1>8 DEF Next

LEMMA TypesKept ==
  ASSUME TypeOK, RetryInv, [Next]_vars
  PROVE  TypeOK' /\ RetryInv'
<1> SUFFICES TypeOK'
  BY RetriesCounted
<1>2. CASE \E b \in Block : Grow(b) \/ Reorg(b)
  BY <1>2, ChainTypes
<1>3. CASE FinalizeBlock
  BY <1>3, ChainTypes, IndexerAssumption DEF IndexerAssumption
<1>4. CASE Connect \/ ReceiveData
  BY <1>4, ConnectTypes, ReceiveDataTypes
<1>5. CASE \/ FactoryBlock \/ Handle \/ ReceiveInvalidate \/ ReceiveHeartbeat
           \/ \E n \in Length : ReceiveFinalize(n)
  BY <1>5, MessageTypes
<1>6. CASE StreamFails \/ Fails \/ Return \/ Abort \/ Restart
  BY <1>6, EndTypes
<1>7. CASE UNCHANGED vars
  BY <1>7 DEF TypeOK, vars
<1> QED
  BY <1>2, <1>3, <1>4, <1>5, <1>6, <1>7 DEF Next

\* The variables keep their types; in particular the attempts never exceed
\* options.maxRetries, nor the first one.
THEOREM TypeCorrect == Spec => []TypeOK
<1>1. Init => TypeOK /\ RetryInv
  BY InitTypes
<1>2. TypeOK /\ RetryInv /\ [Next]_vars => (TypeOK /\ RetryInv)'
  BY TypesKept
<1> QED
  BY <1>1, <1>2, PTL DEF Spec

\* An error that may be tried again ends the run only when the last connection
\* brought nothing, if at least one retry is allowed: progress is never given up.
THEOREM GivesUpOnSilence ==
  ASSUME MaxRetries > 1
  PROVE  Spec => []GivesUpOnlySilentStreams
<1> DEFINE Inv == TypeOK /\ RetryInv /\ GivesUpOnlySilentStreams
<1>1. Init => Inv
  <2>1. Init => GivesUpOnlySilentStreams
    BY DEF Init, GivesUpOnlySilentStreams
  <2> QED
    BY <2>1, InitTypes
<1>2. Inv /\ [Next]_vars => Inv'
  <2> SUFFICES ASSUME TypeOK, RetryInv, GivesUpOnlySilentStreams, [Next]_vars
               PROVE  GivesUpOnlySilentStreams'
    BY TypesKept
  <2>1. retryCount \in Nat /\ MaxRetries \in Nat
    BY IndexerAssumption DEF TypeOK, IndexerAssumption
  <2>2. CASE StreamFails
    BY <2>1, <2>2 DEF StreamFails, Throw, MayRetry, Reads, RetryInv,
                      GivesUpOnlySilentStreams
  <2>3. CASE Fails
    BY <2>3 DEF Fails, Throw, GivesUpOnlySilentStreams
  <2>4. CASE \/ Connect \/ FactoryBlock \/ Handle \/ Return \/ Restart
             \/ ReceiveData \/ ReceiveInvalidate \/ ReceiveHeartbeat
             \/ \E n \in Length : ReceiveFinalize(n)
    BY <2>4 DEF Connect, FactoryBlock, Handle, Return, Restart, ReceiveData,
                ReceiveInvalidate, ReceiveHeartbeat, ReceiveFinalize, Reads,
                GivesUpOnlySilentStreams
  <2>5. CASE \/ \E b \in Block : Grow(b) \/ Reorg(b)
             \/ FinalizeBlock \/ Abort \/ UNCHANGED vars
    BY <2>5 DEF Grow, Reorg, FinalizeBlock, Abort, control, vars,
                GivesUpOnlySilentStreams
  <2> QED
    BY <2>2, <2>3, <2>4, <2>5 DEF Next
<1> QED
  BY <1>1, <1>2, PTL DEF Spec

-----------------------------------------------------------------------------
\* The blocks of a chain and the contracts created on it.

\* The path to a block: the blocks on its chain above the block numbered 0.
LEMMA PathIsChain ==
  ASSUME NEW b \in Block, NEW x
  PROVE  x \in Path(b) <=> x \in Block /\ OnChain(x, b) /\ Number[x] > 0
<1>1. Number[b] \in Nat
  BY NumberNat
<1>2. ASSUME x \in Path(b)
      PROVE  x \in Block /\ OnChain(x, b) /\ Number[x] > 0
  <2>1. PICK n \in 1 .. Number[b] : x = At[b][n]
    BY <1>2 DEF Path
  <2>2. n \in 0 .. Number[b]
    BY <1>1
  <2> QED
    BY <2>1, <2>2, AncestorOnChain
<1>3. ASSUME x \in Block, OnChain(x, b), Number[x] > 0
      PROVE  x \in Path(b)
  <2>1. Number[x] \in 1 .. Number[b] /\ At[b][Number[x]] = x
    BY <1>1, <1>3, NumberNat DEF OnChain
  <2> QED
    BY <2>1 DEF Path
<1> QED
  BY <1>2, <1>3

\* The part of a path up to one of the blocks of the chain.
LEMMA PathCut ==
  ASSUME NEW c \in Block, NEW b \in Block, OnChain(c, b)
  PROVE  \A x : x \in Path(c) <=> x \in Path(b) /\ Number[x] <= Number[c]
<1> SUFFICES ASSUME NEW x \in Block
             PROVE  OnChain(x, c) <=> OnChain(x, b) /\ Number[x] <= Number[c]
  BY PathIsChain
<1>1. OnChain(x, c) => OnChain(x, b) /\ Number[x] <= Number[c]
  BY OnChainTransitive DEF OnChain
<1>2. OnChain(x, b) /\ Number[x] <= Number[c] => OnChain(x, c)
  BY OnChainOrdered
<1> QED
  BY <1>1, <1>2

\* The next block of a chain.
LEMMA PathGrows ==
  ASSUME NEW p \in Block, NEW b \in Block, Number[b] = Number[p] + 1, Parent(b) = p
  PROVE  /\ Path(b) = Path(p) \union {b} /\ b \notin Path(p)
         /\ OnChain(p, b)
<1>1. OnChain(p, b) /\ OnChain(b, b)
  BY ParentOnChain, OnChainSelf
<1>2. Number[p] \in Nat /\ Number[b] \in Nat
  BY NumberNat
<1>3. b \in Path(b) /\ b \notin Path(p)
  BY <1>1, <1>2, PathIsChain DEF OnChain
<1>4. ASSUME NEW x \in Path(b), x # b
      PROVE  x \in Path(p)
  <2>1. x \in Block /\ OnChain(x, b) /\ Number[x] \in Nat
    BY PathIsChain, NumberNat
  <2>2. Number[x] # Number[b]
    BY <1>1, <1>4, <2>1, OnChainUnique
  <2>3. Number[x] <= Number[p]
    BY <1>2, <2>1, <2>2 DEF OnChain
  <2> QED
    BY <1>1, <2>3, PathCut
<1>5. Path(p) \subseteq Path(b)
  BY <1>1, PathCut
<1> QED
  BY <1>1, <1>3, <1>4, <1>5

LEMMA KnownBelow ==
  ASSUME NEW c \in Block, NEW b \in Block, OnChain(c, b)
  PROVE  Known(c) \subseteq Known(b)
BY PathCut DEF Known

LEMMA KnownGrows ==
  ASSUME NEW p \in Block, NEW b \in Block, Number[b] = Number[p] + 1, Parent(b) = p
  PROVE  Known(b) = Known(p) \union Creates[b]
BY PathGrows DEF Known

-----------------------------------------------------------------------------
\* The rows of filters.

\* Rows are records with numbers, and what a row says does not depend on its end
\* below its end.
LEMMA RowTypes ==
  ASSUME NEW r \in FilterRow
  PROVE  /\ r.from \in Nat /\ r.to \in Nat \union {-1} /\ r.filter \in Filter
         /\ r = [from |-> r.from, to |-> r.to, filter |-> r.filter]
         /\ \A n : [r EXCEPT !.to = n] = [from |-> r.from, to |-> n, filter |-> r.filter]
BY NumberNat DEF FilterRow, Length

\* invalidate, at a block of the chain: the rows that are left are valid where
\* they were.
LEMMA FiltersCut ==
  ASSUME NEW rows \in SUBSET FilterRow, NEW p \in Block, NEW f \in Block,
         NEW c \in Block, FiltersAt(rows, p, f), OnChain(c, p), OnChain(f, c)
  PROVE  FiltersAt(InvalidatedFilters(rows, Number[c]), c, f)
<1> DEFINE m == Number[c]
           left == InvalidatedFilters(rows, m)
           Open(r) == IF r.to > m THEN [r EXCEPT !.to = -1] ELSE r
<1>1. m \in Nat /\ Number[p] \in Nat /\ Number[f] \in Nat /\ m <= Number[p]
      /\ Number[f] <= m
  BY NumberNat DEF OnChain
<1>2. ASSUME NEW r \in rows
      PROVE  /\ Open(r).from = r.from /\ Open(r).filter = r.filter
             /\ Open(r).to <= m
             /\ \A n \in 0 .. m : ValidAt(Open(r), n) <=> ValidAt(r, n)
  <2>1. /\ r.from \in Nat /\ r.to \in Nat \union {-1}
        /\ [r EXCEPT !.to = -1] = [from |-> r.from, to |-> -1, filter |-> r.filter]
    BY RowTypes
  <2>2. CASE r.to > m
    BY <1>1, <2>1, <2>2 DEF ValidAt
  <2>3. CASE ~(r.to > m)
    BY <1>1, <2>1, <2>3 DEF ValidAt
  <2> QED
    BY <2>2, <2>3
<1>3. \A q : q \in left <=> \E r \in rows : r.from <= m /\ q = Open(r)
  BY DEF InvalidatedFilters
<1>4. \A q \in left : q.from <= m /\ q.to <= m
  BY <1>2, <1>3
<1>5. ASSUME NEW n \in Number[f] .. m
      PROVE  /\ \A q \in left : ValidAt(q, n) => Known(At[c][n]) \subseteq q.filter
             /\ Known(At[c][n]) # {} => \E q \in left : ValidAt(q, n)
  <2>1. n \in 0 .. m /\ n \in Number[f] .. Number[p]
    BY <1>1
  <2>2. At[c][n] = At[p][n]
    BY <2>1, SameAncestor
  <2>3. /\ \A r \in rows : ValidAt(r, n) => Known(At[p][n]) \subseteq r.filter
        /\ Known(At[p][n]) # {} => \E r \in rows : ValidAt(r, n)
    BY <2>1 DEF FiltersAt
  <2>4. \A q \in left : ValidAt(q, n) => Known(At[c][n]) \subseteq q.filter
    BY <1>2, <1>3, <2>1, <2>2, <2>3
  <2>5. ASSUME NEW r \in rows, ValidAt(r, n)
        PROVE  \E q \in left : ValidAt(q, n)
    <3>1. r.from <= m
      BY <2>1, <2>5, <1>1, RowTypes DEF ValidAt
    <3>2. Open(r) \in left
      BY <1>3, <3>1
    <3> QED
      BY <1>2, <2>1, <2>5, <3>2
  <2> QED
    BY <2>2, <2>3, <2>4, <2>5
<1> QED
  BY <1>4, <1>5 DEF FiltersAt

\* invalidate, at a cursor after the rows, leaves them as they are.
LEMMA FiltersAfter ==
  ASSUME NEW rows \in SUBSET FilterRow, NEW n \in Nat,
         \A r \in rows : r.from <= n /\ r.to <= n
  PROVE  InvalidatedFilters(rows, n) = rows
<1>1. \A r \in rows : ~(r.to > n) /\ r.from <= n
  BY RowTypes
<1> QED
  BY <1>1 DEF InvalidatedFilters

\* A block that creates nothing needs no row of its own.
LEMMA FiltersExtend ==
  ASSUME NEW rows \in SUBSET FilterRow, NEW p \in Block, NEW f \in Block,
         NEW b \in Block, FiltersAt(rows, p, f), Number[b] = Number[p] + 1,
         Parent(b) = p, Creates[b] = {}
  PROVE  FiltersAt(rows, b, f)
<1>1. OnChain(p, b) /\ OnChain(f, p)
  BY ParentOnChain DEF FiltersAt
<1>2. Number[p] \in Nat /\ Number[f] \in Nat /\ Number[f] <= Number[p]
  BY <1>1, NumberNat DEF OnChain
<1>3. OnChain(f, b)
  BY <1>1, OnChainTransitive
<1>4. ASSUME NEW r \in rows
      PROVE  /\ r.from <= Number[b] /\ r.to <= Number[b]
             /\ ValidAt(r, Number[b]) => ValidAt(r, Number[p])
             /\ ValidAt(r, Number[p]) => ValidAt(r, Number[b])
  <2>1. r.from \in Nat /\ r.to \in Nat \union {-1}
    BY RowTypes
  <2>2. r.from <= Number[p] /\ r.to <= Number[p]
    BY DEF FiltersAt
  <2> QED
    BY <1>2, <2>1, <2>2 DEF ValidAt
<1>5. Known(b) = Known(p) /\ At[b][Number[b]] = b /\ At[p][Number[p]] = p
  <2>1. Known(b) = Known(p) \union {}
    BY KnownGrows
  <2> QED
    BY <2>1, BlockTreeAssumption DEF BlockTreeAssumption
<1>6. ASSUME NEW n \in Number[f] .. Number[b]
      PROVE  /\ \A r \in rows : ValidAt(r, n) => Known(At[b][n]) \subseteq r.filter
             /\ Known(At[b][n]) # {} => \E r \in rows : ValidAt(r, n)
  <2>1. CASE n = Number[b]
    <3>1. Number[p] \in Number[f] .. Number[p]
      BY <1>2
    <3>2. /\ \A r \in rows : ValidAt(r, Number[p]) => Known(p) \subseteq r.filter
          /\ Known(p) # {} => \E r \in rows : ValidAt(r, Number[p])
      BY <1>5, <3>1 DEF FiltersAt
    <3> QED
      BY <1>4, <1>5, <2>1, <3>2
  <2>2. CASE n # Number[b]
    <3>1. n \in 0 .. Number[p] /\ n \in Number[f] .. Number[p]
      BY <1>2, <2>2
    <3>2. At[p][n] = At[b][n]
      BY <1>1, <3>1, SameAncestor
    <3> QED
      BY <3>1, <3>2 DEF FiltersAt
  <2> QED
    BY <2>1, <2>2
<1> QED
  BY <1>3, <1>4, <1>6 DEF FiltersAt

\* connect:factory: the current row ends before the block, and the new one holds
\* from it on.
LEMMA FiltersPersist ==
  ASSUME NEW s \in Stored, NEW p \in Block, NEW f \in Block, NEW b \in Block,
         FiltersAt(s.filters, p, f), Number[b] = Number[p] + 1, Parent(b) = p,
         NEW g \in Filter, Known(b) \subseteq g
  PROVE  FiltersAt(PersistFilter(s, b, g).filters, b, f)
<1> DEFINE m == Number[b]
           new == [from |-> m, to |-> -1, filter |-> g]
           Ended(r) == IF r.to = -1 THEN [r EXCEPT !.to = m] ELSE r
           rows == PersistFilter(s, b, g).filters
<1>1. OnChain(p, b) /\ OnChain(f, p) /\ s.filters \subseteq FilterRow
  BY ParentOnChain DEF FiltersAt, Stored
<1>2. Number[p] \in Nat /\ Number[f] \in Nat /\ Number[f] <= Number[p]
      /\ m = Number[p] + 1
  BY <1>1, NumberNat DEF OnChain
<1>3. OnChain(f, b)
  BY <1>1, OnChainTransitive
<1>4. \A q : q \in rows <=> q = new \/ \E r \in s.filters : q = Ended(r)
  <2>1. \A r \in s.filters : r.from # m
    BY <1>1, <1>2, RowTypes DEF FiltersAt
  <2> QED
    BY <2>1, PersistFilterIsStored
<1>5. ASSUME NEW r \in s.filters
      PROVE  /\ Ended(r).from = r.from /\ Ended(r).filter = r.filter
             /\ Ended(r).from # m /\ Ended(r).from <= m /\ Ended(r).to <= m
             /\ ~ValidAt(Ended(r), m)
             /\ \A n \in 0 .. Number[p] : ValidAt(Ended(r), n) <=> ValidAt(r, n)
  <2>1. /\ r.from \in Nat /\ r.to \in Nat \union {-1}
        /\ [r EXCEPT !.to = m] = [from |-> r.from, to |-> m, filter |-> r.filter]
    BY <1>1, RowTypes
  <2>2. r.from <= Number[p] /\ r.to <= Number[p]
    BY DEF FiltersAt
  <2>3. CASE r.to = -1
    BY <1>2, <2>1, <2>2, <2>3 DEF ValidAt
  <2>4. CASE r.to # -1
    BY <1>2, <2>1, <2>2, <2>4 DEF ValidAt
  <2> QED
    BY <2>3, <2>4
<1>6. /\ new.from = m /\ new.to = -1 /\ new.filter = g
      /\ new.from <= m /\ new.to <= m /\ ValidAt(new, m)
      /\ \A n \in 0 .. Number[p] : ~ValidAt(new, n)
  BY <1>2 DEF ValidAt
<1> HIDE DEF rows, new, Ended
<1>7. \A q \in rows : q.from <= m /\ q.to <= m
  BY <1>4, <1>5, <1>6
<1>8. ASSUME NEW n \in Number[f] .. m
      PROVE  /\ \A q \in rows : ValidAt(q, n) => Known(At[b][n]) \subseteq q.filter
             /\ Known(At[b][n]) # {} => \E q \in rows : ValidAt(q, n)
  <2>1. CASE n = m
    <3>1. At[b][m] = b
      BY BlockTreeAssumption DEF BlockTreeAssumption
    <3>2. \A q \in rows : ValidAt(q, m) => Known(b) \subseteq q.filter
      BY <1>4, <1>5, <1>6
    <3>3. new \in rows
      BY <1>4
    <3> QED
      BY <1>6, <2>1, <3>1, <3>2, <3>3
  <2>2. CASE n # m
    <3>1. n \in 0 .. Number[p] /\ n \in Number[f] .. Number[p]
      BY <1>2, <2>2
    <3>2. At[p][n] = At[b][n]
      BY <1>1, <3>1, SameAncestor
    <3>3. /\ \A r \in s.filters : ValidAt(r, n) => Known(At[b][n]) \subseteq r.filter
          /\ Known(At[b][n]) # {} => \E r \in s.filters : ValidAt(r, n)
      BY <3>1, <3>2 DEF FiltersAt
    <3>4. \A q \in rows : ValidAt(q, n) => Known(At[b][n]) \subseteq q.filter
      BY <1>4, <1>5, <1>6, <3>1, <3>3
    <3>5. ASSUME NEW r \in s.filters, ValidAt(r, n)
          PROVE  \E q \in rows : ValidAt(q, n)
      <4>1. Ended(r) \in rows
        BY <1>4, <1>5
      <4> QED
        BY <1>5, <3>1, <3>5, <4>1
    <3> QED
      BY <3>3, <3>4, <3>5
  <2> QED
    BY <2>1, <2>2
<1> QED
  BY <1>3, <1>7, <1>8 DEF FiltersAt, rows

\* finalize: the rows that go end where the rows need not hold any more.
LEMMA FiltersFinalize ==
  ASSUME NEW rows \in SUBSET FilterRow, NEW p \in Block, NEW f \in Block,
         FiltersAt(rows, p, f), NEW n \in Nat
  PROVE  \E g \in Block :
           /\ FiltersAt(FinalizedFilters(rows, n), p, g)
           /\ g = f \/ Number[g] <= n
<1> DEFINE left == FinalizedFilters(rows, n)
<1>1. OnChain(f, p) /\ Number[f] \in Nat /\ Number[p] \in Nat /\ Number[f] <= Number[p]
  BY NumberNat DEF FiltersAt, OnChain
<1>2. left \subseteq rows
  BY DEF FinalizedFilters
<1>3. ASSUME NEW r \in rows, NEW m \in 0 .. Number[p], ValidAt(r, m),
             n <= m \/ m = Number[p]
      PROVE  r \in left
  <2>1. r.to \in Nat \union {-1} /\ r.to <= Number[p]
    BY RowTypes DEF FiltersAt
  <2>2. r.to = -1 \/ r.to > n
    BY <1>1, <1>3, <2>1 DEF ValidAt
  <2> QED
    BY <2>1, <2>2 DEF FinalizedFilters
<1>4. ASSUME NEW g \in Block, OnChain(g, p), Number[f] <= Number[g],
             n <= Number[g] \/ g = p
      PROVE  FiltersAt(left, p, g)
  <2>1. Number[g] \in Nat
    BY NumberNat
  <2>2. ASSUME NEW m \in Number[g] .. Number[p]
        PROVE  /\ \A r \in left : ValidAt(r, m) => Known(At[p][m]) \subseteq r.filter
               /\ Known(At[p][m]) # {} => \E r \in left : ValidAt(r, m)
    <3>1. m \in 0 .. Number[p] /\ m \in Number[f] .. Number[p]
          /\ (n <= m \/ m = Number[p])
      BY <1>1, <1>4, <2>1
    <3>2. /\ \A r \in rows : ValidAt(r, m) => Known(At[p][m]) \subseteq r.filter
          /\ Known(At[p][m]) # {} => \E r \in rows : ValidAt(r, m)
      BY <3>1 DEF FiltersAt
    <3> QED
      BY <1>2, <1>3, <3>1, <3>2
  <2> QED
    BY <1>2, <1>4, <2>2 DEF FiltersAt
<1>5. CASE n <= Number[f]
  <2>1. FiltersAt(left, p, f)
    BY <1>1, <1>4, <1>5
  <2> QED
    BY <2>1
<1>6. CASE Number[f] < n /\ n <= Number[p]
  <2>1. n \in 0 .. Number[p]
    BY <1>6
  <2>2. At[p][n] \in Block /\ Number[At[p][n]] = n /\ OnChain(At[p][n], p)
    BY <2>1, AncestorOnChain
  <2>3. FiltersAt(left, p, At[p][n])
    BY <1>1, <1>4, <1>6, <2>2
  <2> QED
    BY <2>2, <2>3
<1>7. CASE Number[p] < n
  <2>1. OnChain(p, p)
    BY OnChainSelf
  <2>2. FiltersAt(left, p, p)
    BY <1>1, <1>4, <2>1
  <2> QED
    BY <1>1, <1>7, <2>2
<1> QED
  BY <1>1, <1>5, <1>6, <1>7

\* getState: the current row holds the contracts of the chain.
LEMMA FiltersLoaded ==
  ASSUME NEW s \in Stored, NEW p \in Block, NEW f \in Block,
         FiltersAt(s.filters, p, f)
  PROVE  Known(p) \subseteq StoredFilter(s)
<1>1. s.filters \subseteq FilterRow
  BY DEF Stored
<1>2. Number[f] \in Nat /\ Number[p] \in Nat /\ Number[f] <= Number[p]
      /\ At[p][Number[p]] = p
  BY BlockTreeAssumption DEF BlockTreeAssumption, FiltersAt, OnChain
<1>3. Number[p] \in Number[f] .. Number[p]
  BY <1>2
<1>4. /\ \A r \in s.filters : ValidAt(r, Number[p]) => Known(p) \subseteq r.filter
      /\ Known(p) # {} => \E r \in s.filters : ValidAt(r, Number[p])
  BY <1>2, <1>3 DEF FiltersAt
<1>5. ASSUME NEW r \in s.filters
      PROVE  ValidAt(r, Number[p]) <=> r.to = -1
  <2>1. r.from <= Number[p] /\ r.to <= Number[p] /\ r.to \in Nat \union {-1}
        /\ r.from \in Nat
    BY <1>1, RowTypes DEF FiltersAt
  <2> QED
    BY <1>2, <2>1 DEF ValidAt
<1>6. CASE \E r \in s.filters : r.to = -1
  <2> DEFINE r == CHOOSE r \in s.filters : r.to = -1
  <2>1. r \in s.filters /\ r.to = -1
    BY <1>6
  <2>2. StoredFilter(s) = r.filter
    BY <1>6 DEF StoredFilter
  <2> HIDE DEF r
  <2> QED
    BY <1>4, <1>5, <2>1, <2>2
<1>7. CASE ~ \E r \in s.filters : r.to = -1
  BY <1>4, <1>5, <1>7
<1> QED
  BY <1>6, <1>7

-----------------------------------------------------------------------------
\* The data of the blocks.

\* invalidate, at a block of the chain.
LEMMA DataCut ==
  ASSUME NEW data, NEW p \in Block, NEW c \in Block, DataAt(data, p), OnChain(c, p)
  PROVE  DataAt({h \in data : h.at <= Number[c]}, c)
<1> DEFINE left == {h \in data : h.at <= Number[c]}
<1>1. \A h \in data : h.at = Number[h.block] /\ h.block \in Path(p)
  BY DEF DataAt
<1>2. \A x : x \in Path(c) <=> x \in Path(p) /\ Number[x] <= Number[c]
  BY PathCut
<1>3. ASSUME NEW x \in Path(c)
      PROVE  \E h \in left : h.block = x
  BY <1>1, <1>2 DEF DataAt
<1>4. \A h \in left : h.block \in Path(c)
  BY <1>1, <1>2
<1>5. {h.block : h \in left} = Path(c)
  BY <1>3, <1>4
<1> QED
  BY <1>5 DEF DataAt

\* invalidate, at a cursor that is not below the data.
LEMMA DataAfter ==
  ASSUME NEW data, NEW p \in Block, NEW c \in Block, DataAt(data, p),
         Number[p] <= Number[c]
  PROVE  {h \in data : h.at <= Number[c]} = data
<1>1. \A h \in data : h.at = Number[h.block] /\ h.block \in Path(p)
  BY DEF DataAt
<1>2. \A x \in Path(p) : x \in Block /\ Number[x] <= Number[p]
  BY PathIsChain DEF OnChain
<1>3. \A x \in Path(p) : Number[x] <= Number[c]
  BY <1>2, NumberNat
<1> QED
  BY <1>1, <1>3

\* The handler's record of the next block.
LEMMA DataGrows ==
  ASSUME NEW data, NEW p \in Block, NEW b \in Block, DataAt(data, p),
         Number[b] = Number[p] + 1, Parent(b) = p,
         NEW h, h.block = b, h.at = Number[b]
  PROVE  DataAt(data \union {h}, b)
<1>1. Path(b) = Path(p) \union {b} /\ b \notin Path(p)
  BY PathGrows
<1>2. \A g \in data : g.block \in Path(p) /\ g.at = Number[g.block]
  BY DEF DataAt
<1>3. {g.block : g \in data \union {h}} = {g.block : g \in data} \union {b}
  OBVIOUS
<1>4. {g.block : g \in data \union {h}} = Path(b)
  BY <1>1, <1>3 DEF DataAt
<1>5. \A g, k \in data \union {h} : g.block = k.block => g = k
  BY <1>1, <1>2 DEF DataAt
<1>6. \A g \in data \union {h} : g.at = Number[g.block]
  BY <1>2
<1> QED
  BY <1>4, <1>5, <1>6 DEF DataAt

\* One record per block: as many records as blocks.
LEMMA DataCounted ==
  ASSUME NEW data, NEW p \in Block, DataAt(data, p)
  PROVE  Cardinality(data) = Cardinality(Path(p))
<1> DEFINE N == Number[p]
           at == [n \in 1 .. N |-> At[p][n]]
           block == [h \in data |-> h.block]
<1>1. N \in Nat
  BY NumberNat
<1>2. IsFiniteSet(1 .. N)
  BY <1>1, FS_Interval
<1>3. at \in Surjection(1 .. N, Path(p))
  BY DEF Surjection, Path
<1>4. IsFiniteSet(Path(p))
  BY <1>2, <1>3, FS_Surjection
<1>5. block \in Bijection(data, Path(p))
  <2>1. block \in [data -> Path(p)]
    BY DEF DataAt
  <2>2. \A h, g \in data : block[h] = block[g] => h = g
    BY DEF DataAt
  <2>3. \A x \in Path(p) : \E h \in data : block[h] = x
    BY DEF DataAt
  <2> QED
    BY <2>1, <2>2, <2>3 DEF Bijection, Injection, Surjection, IsInjective
<1>6. block \in Surjection(data, Path(p)) /\ ExistsBijection(data, Path(p))
  BY <1>5 DEF Bijection, ExistsBijection
<1>7. ExistsBijection(Path(p), data)
  BY <1>6, Fun_ExistsBijSymmetric
<1> QED
  BY <1>4, <1>7, FS_Bijection

-----------------------------------------------------------------------------
\* The message and the transaction, at every step.

\* The chain grows, or moves to another branch that has the final blocks.
LEMMA TipMoves ==
  ASSUME TypeOK, NEW b \in Block, Grow(b) \/ Reorg(b)
  PROVE  /\ tip' = b
         /\ UNCHANGED <<final, plugin, pc, mainFilter, stream, message, db, saved>>
         /\ \/ Number[b] = Number[tip] + 1 /\ Parent(b) = tip
            \/ ~OnChain(tip, b) /\ ~OnChain(b, tip)
               /\ (plugin = "drizzle" \/ NewBranch(tip, b))
               /\ (StillDuringFactory => pc # "factory")
         /\ \A x \in Block : OnChain(x, tip) /\ Number[x] <= final => OnChain(x, b)
<1>1. tip \in Block /\ final \in 0 .. Number[tip] /\ Number[tip] \in Nat
  BY NumberNat DEF TypeOK
<1>2. CASE Grow(b)
  <2>1. OnChain(tip, b)
    BY <1>1, <1>2, ParentOnChain DEF Grow
  <2>2. \A x \in Block : OnChain(x, tip) => OnChain(x, b)
    BY <1>1, <2>1, OnChainTransitive
  <2> QED
    BY <1>2, <2>2 DEF Grow, control, run, store
<1>3. CASE Reorg(b)
  <2> DEFINE y == At[tip][final]
  <2>1. Number[b] >= final /\ At[b][final] = y
    BY <1>3 DEF Reorg
  <2>2. final \in 0 .. Number[b] /\ Number[b] \in Nat
    BY <1>1, <2>1, NumberNat
  <2>3. y \in Block /\ Number[y] = final /\ OnChain(y, tip) /\ OnChain(y, b)
    BY <1>1, <2>1, <2>2, AncestorOnChain
  <2>4. \A x \in Block : OnChain(x, tip) /\ Number[x] <= final => OnChain(x, b)
    <3> SUFFICES ASSUME NEW x \in Block, OnChain(x, tip), Number[x] <= final
                 PROVE  OnChain(x, b)
      OBVIOUS
    <3>1. OnChain(x, y)
      BY <1>1, <2>3, OnChainOrdered
    <3> QED
      BY <2>3, <3>1, OnChainTransitive
  <2> QED
    BY <1>3, <2>4 DEF Reorg, control, run, store
<1> QED
  BY <1>2, <1>3

\* The steps that leave the tables alone, and those that end the run or the
\* connection: what was written in the transaction is undone.
Quiet ==
  /\ UNCHANGED <<tip, plugin, saved>> /\ final' \in {final, final + 1}
  /\ \/ UNCHANGED <<pc, db, mainFilter, stream, message>>
     \/ /\ pc' \notin {"reading", "factory", "handling"}
        /\ db' = saved \/ (db' = db /\ pc \notin {"factory", "handling"})

LEMMA QuietSteps ==
  ASSUME \/ FinalizeBlock \/ ReceiveHeartbeat \/ StreamFails \/ Fails \/ Return
         \/ Abort \/ Restart \/ UNCHANGED vars
  PROVE  Quiet
<1>1. CASE FinalizeBlock \/ ReceiveHeartbeat \/ Abort \/ UNCHANGED vars
  BY <1>1 DEF Quiet, FinalizeBlock, ReceiveHeartbeat, Abort, chain, control, run,
              store, vars
<1>2. CASE StreamFails \/ Fails \/ Restart
  BY <1>2 DEF Quiet, StreamFails, Fails, Restart, Throw, Rollback, chain
<1>3. CASE Return
  BY <1>3 DEF Quiet, Return, Reads, SignalEnds, chain, store, run
<1> QED
  BY <1>1, <1>2, <1>3

LEMMA MessageKept ==
  ASSUME StillDuringFactory, TypeOK, MessageInv, [Next]_vars
  PROVE  MessageInv'
<1>1. ASSUME NEW b \in Block, Grow(b) \/ Reorg(b)
      PROVE  MessageInv'
  <2>1. /\ tip' = b /\ UNCHANGED <<pc, stream, message>>
        /\ \/ Number[b] = Number[tip] + 1 /\ Parent(b) = tip
           \/ pc # "factory"
    BY <1>1, TipMoves
  <2>2. message.endCursor \in Block /\ tip \in Block
    BY DEF TypeOK, Message
  <2>3. pc = "factory" => OnChain(message.endCursor, b)
    BY <2>1, <2>2, ParentOnChain, OnChainTransitive DEF MessageInv
  <2> QED
    BY <2>1, <2>3 DEF MessageInv
<1>2. ASSUME Quiet
      PROVE  MessageInv'
  BY <1>2 DEF Quiet, MessageInv
<1>3. CASE Connect \/ ReceiveInvalidate \/ Handle \/ \E n \in Length : ReceiveFinalize(n)
  BY <1>3 DEF MessageInv, Connect, ReceiveInvalidate, Handle, ReceiveFinalize, Reads
<1>4. CASE ReceiveData
  BY <1>4, ReceiveDataDoes DEF MessageInv
<1>5. CASE FactoryBlock
  <2>1. /\ pc = "factory" /\ pc' = "handling"
        /\ message'.cursor = message.cursor
        /\ message'.endCursor = message.endCursor
        /\ message'.block = NextBlock /\ stream'.cursor = NextBlock
    BY <1>5, FactoryBlockDoes
  <2>2. NextBlock \in Block /\ Number[NextBlock] = Number[stream.cursor] + 1
        /\ OnChain(NextBlock, tip) /\ tip \in Block /\ message.endCursor \in Block
    BY <1>5, FactoryBlockDoes DEF TypeOK, Message
  <2>3. Number[message.endCursor] = Number[NextBlock] /\ OnChain(message.endCursor, tip)
    BY <2>1, <2>2 DEF MessageInv
  <2>4. NextBlock = message.endCursor
    BY <2>2, <2>3, OnChainUnique
  <2> QED
    BY <2>1, <2>4 DEF MessageInv
<1> QED
  BY <1>1, <1>2, <1>3, <1>4, <1>5, QuietSteps DEF Next

LEMMA StoreKept ==
  ASSUME TypeOK, StoreInv, [Next]_vars
  PROVE  StoreInv'
<1>1. ASSUME NEW b \in Block, Grow(b) \/ Reorg(b)
      PROVE  StoreInv'
  BY <1>1, TipMoves DEF StoreInv
<1>2. ASSUME Quiet
      PROVE  StoreInv'
  BY <1>2 DEF Quiet, StoreInv
<1>3. CASE Connect \/ ReceiveInvalidate \/ Handle \/ \E n \in Length : ReceiveFinalize(n)
  BY <1>3 DEF StoreInv, Connect, ReceiveInvalidate, Handle, ReceiveFinalize, Transact
<1>4. CASE ReceiveData
  <2>1. db \in Stored /\ NextBlock \in Block
    BY <1>4, ReceiveDataDoes DEF TypeOK
  <2>2. CASE UNCHANGED <<mainFilter, db, saved>> /\ pc' = "handling"
    BY <2>2 DEF StoreInv
  <2>3. CASE /\ pc' = "factory" /\ mainFilter' \in Filter
             /\ db' = PersistFilter(db, NextBlock, mainFilter')
             /\ saved' = IF plugin = "mongo" THEN db' ELSE saved
    <3>1. PersistFilter(db, NextBlock, mainFilter').data = db.data
      BY <2>1, <2>3, PersistFilterIsStored
    <3>2. db'.data = db.data
      BY <2>3, <3>1
    <3>3. saved'.data = db'.data
      BY <2>3, <3>2 DEF StoreInv
    <3> QED
      BY <2>3, <3>3 DEF StoreInv
  <2> QED
    BY <1>4, <2>2, <2>3, ReceiveDataDoes
<1>5. CASE FactoryBlock
  BY <1>5, FactoryBlockDoes DEF StoreInv
<1> QED
  BY <1>1, <1>2, <1>3, <1>4, <1>5, QuietSteps DEF Next

-----------------------------------------------------------------------------
\* The place of the tables, at every step.

\* drizzle moves its checkpoint with its tables; the other plugins count on a
\* chain that does not come back.
Apart(S) == Plugins \subseteq {"drizzle"} \/ OneWay(S)

Base == TypeOK /\ MessageInv /\ StoreInv

Stands(S, p, f) ==
  PlaceInv(S, p) /\ FilterInv(p, f) /\ MemoryInv(p) /\ DataInv(p) /\ ContractsKnown

\* A cursor beyond which the chain has nothing of its own keeps it so.
LEMMA BeyondMoves ==
  ASSUME NEW S, OneWay(S), TypeOK, NEW p \in Block, NEW c \in Block, NEW b \in Block,
         tip' = b, <<c, tip>> \in S, Beyond(c, p),
         \/ Number[b] = Number[tip] + 1 /\ Parent(b) = tip
         \/ NewBranch(tip, b) /\ ~OnChain(tip, b) /\ ~OnChain(b, tip)
  PROVE  /\ <<c, b>> \in S
         /\ \A x \in Block : OnChain(x, c) /\ OnChain(x, b) => OnChain(x, p)
<1>1. tip \in Block
  BY DEF TypeOK
<1>2. /\ <<c, b>> \in S
      /\ \A x \in Block : OnChain(x, c) /\ OnChain(x, b) => OnChain(x, tip)
  BY <1>1 DEF OneWay
<1> QED
  BY <1>2 DEF Beyond

LEMMA MovesStand ==
  ASSUME NEW S, Apart(S), NEW p \in Block, NEW f \in Block, Base, Stands(S, p, f),
         NEW b \in Block, Grow(b) \/ Reorg(b)
  PROVE  Stands(S, p, f)'
<1> DEFINE c == RequestedCursor(saved)
<1>1. TypeOK /\ PlaceInv(S, p) /\ FilterInv(p, f)
  BY DEF Base, Stands
<1>2. /\ tip' = b
      /\ UNCHANGED <<final, plugin, pc, mainFilter, stream, message, db, saved>>
      /\ \/ Number[b] = Number[tip] + 1 /\ Parent(b) = tip
         \/ ~OnChain(tip, b) /\ ~OnChain(b, tip)
            /\ (plugin = "drizzle" \/ NewBranch(tip, b))
      /\ \A x \in Block : OnChain(x, tip) /\ Number[x] <= final => OnChain(x, b)
  BY <1>1, TipMoves
<1>3. c \in Block /\ stream.cursor \in Block /\ plugin \in Plugins /\ c' = c
  BY <1>1, <1>2, StateLoaded DEF TypeOK, RequestedCursor
<1> HIDE DEF c
<1>4. FilterInv(p, f)'
  BY <1>1, <1>2 DEF FilterInv
<1>5. MemoryInv(p)' /\ DataInv(p)' /\ ContractsKnown'
  BY <1>2 DEF Stands, MemoryInv, DataInv, ContractsKnown
<1>6. /\ OnChain(p, c) /\ Beyond(c, p)
      /\ pc = "reading" => OnChain(p, stream.cursor) /\ Beyond(stream.cursor, p)
      /\ pc \in {"factory", "handling"} => OnChain(p, message.endCursor)
      /\ pc \in {"factory", "handling"} /\ plugin # "mongo" => p = message.cursor
      /\ plugin = "drizzle" => p = c /\ (pc = "reading" => p = stream.cursor)
      /\ plugin # "drizzle" =>
           /\ <<c, tip>> \in S
           /\ pc \in {"reading", "handling"} => <<stream.cursor, tip>> \in S
  BY <1>1 DEF PlaceInv, c
<1>7. CASE plugin = "drizzle"
  <2>1. Beyond(c, p)' /\ (pc = "reading" => Beyond(stream.cursor, p)')
    BY <1>2, <1>3, <1>6, <1>7 DEF Beyond
  <2> QED
    BY <1>2, <1>3, <1>4, <1>5, <1>6, <1>7, <2>1 DEF PlaceInv, Stands, c
<1>8. CASE plugin # "drizzle"
  <2>1. OneWay(S)
    BY <1>3, <1>8 DEF Apart
  <2>2. \/ Number[b] = Number[tip] + 1 /\ Parent(b) = tip
        \/ NewBranch(tip, b) /\ ~OnChain(tip, b) /\ ~OnChain(b, tip)
    BY <1>2, <1>8
  <2>3. /\ <<c, b>> \in S
        /\ \A x \in Block : OnChain(x, c) /\ OnChain(x, b) => OnChain(x, p)
    BY <1>1, <1>2, <1>3, <1>6, <1>8, <2>1, <2>2, BeyondMoves
  <2>4. Beyond(c, p)'
    BY <1>2, <1>3, <2>3 DEF Beyond
  <2>5. CASE pc = "reading"
    <3>1. /\ <<stream.cursor, b>> \in S
          /\ \A x \in Block : OnChain(x, stream.cursor) /\ OnChain(x, b) => OnChain(x, p)
      BY <1>1, <1>2, <1>3, <1>6, <1>8, <2>1, <2>2, <2>5, BeyondMoves
    <3>2. Beyond(stream.cursor, p)'
      BY <1>2, <3>1 DEF Beyond
    <3> QED
      BY <1>2, <1>3, <1>4, <1>5, <1>6, <1>8, <2>3, <2>4, <2>5, <3>1, <3>2
      DEF PlaceInv, Stands, c
  <2>6. CASE pc = "handling"
    <3>1. <<stream.cursor, b>> \in S
      BY <1>1, <1>3, <1>6, <1>8, <2>1, <2>2, <2>6 DEF OneWay, TypeOK
    <3> QED
      BY <1>2, <1>3, <1>4, <1>5, <1>6, <1>8, <2>3, <2>4, <2>6, <3>1
      DEF PlaceInv, Stands, c
  <2>7. CASE pc \notin {"reading", "handling"}
    BY <1>2, <1>3, <1>4, <1>5, <1>6, <1>8, <2>3, <2>4, <2>7 DEF PlaceInv, Stands, c
  <2> QED
    BY <2>5, <2>6, <2>7
<1> QED
  BY <1>7, <1>8

LEMMA QuietStands ==
  ASSUME NEW S, NEW p \in Block, NEW f \in Block, Base, Stands(S, p, f), Quiet
  PROVE  Stands(S, p, f)'
<1>1. /\ UNCHANGED <<tip, plugin, saved>> /\ final' \in {final, final + 1}
      /\ \/ UNCHANGED <<pc, db, mainFilter, stream, message>>
         \/ pc' \notin {"reading", "factory", "handling"}
  BY DEF Quiet
<1>2. /\ PlaceInv(S, p) /\ FilterInv(p, f) /\ MemoryInv(p) /\ DataInv(p)
      /\ ContractsKnown
  BY DEF Stands
<1>3. PlaceInv(S, p)'
  BY <1>1, <1>2 DEF PlaceInv, Beyond, RequestedCursor
<1>4. Number[f] \in Nat /\ final \in Int
  BY NumberNat DEF Base, TypeOK
<1>5. Number[f] <= final'
  BY <1>1, <1>2, <1>4 DEF FilterInv
<1>6. FilterInv(p, f)'
  BY <1>1, <1>2, <1>5 DEF FilterInv
<1>7. MemoryInv(p)' /\ DataInv(p)' /\ ContractsKnown'
  BY <1>1, <1>2 DEF MemoryInv, DataInv, ContractsKnown
<1> QED
  BY <1>3, <1>6, <1>7 DEF Stands

\* The connection begins at the checkpoint, with the filter that was stored.
LEMMA ConnectStands ==
  ASSUME NEW S, NEW p \in Block, NEW f \in Block, Base, Stands(S, p, f), Connect
  PROVE  Stands(S, p, f)'
<1> DEFINE c == RequestedCursor(saved)
           g == StoredFilter(saved)
           i == Invalidated(saved, c)
<1>1. /\ pc' = "reading" /\ stream' = [cursor |-> c, filter |-> g] /\ mainFilter' = g
      /\ db' = i /\ saved' = i /\ UNCHANGED <<tip, final, plugin>>
  BY DEF Connect, Transact, chain
<1>2. /\ PlaceInv(S, p) /\ FilterInv(p, f) /\ DataInv(p) /\ ContractsKnown
  BY DEF Stands
<1>3. c \in Block /\ g \in Filter /\ saved \in Stored
  BY StateLoaded DEF Base, TypeOK
<1>4. /\ i.checkpoint = IF plugin = "drizzle" /\ saved.checkpoint # NoBlock
                        THEN c ELSE saved.checkpoint
      /\ i.filters = InvalidatedFilters(saved.filters, Number[c])
      /\ i.data = {h \in saved.data : h.at <= Number[c]}
  BY <1>3, InvalidatedIsStored
<1>5. RequestedCursor(i) = c
  BY <1>4 DEF RequestedCursor
<1>6. OnChain(p, c) /\ Beyond(c, p)
      /\ (plugin = "drizzle" => p = c) /\ (plugin # "drizzle" => <<c, tip>> \in S)
  BY <1>2 DEF PlaceInv
<1>7. Number[p] \in Nat /\ Number[c] \in Nat /\ Number[p] <= Number[c]
  BY <1>3, <1>6, NumberNat DEF OnChain
<1>8. i.filters = saved.filters
  <2>1. saved.filters \in SUBSET FilterRow
    BY <1>3 DEF Stored
  <2>2. \A r \in saved.filters : r.from <= Number[p] /\ r.to <= Number[p]
    BY <1>2 DEF FilterInv, FiltersAt
  <2>3. \A r \in saved.filters : r.from <= Number[c] /\ r.to <= Number[c]
    BY <1>7, <2>1, <2>2, RowTypes
  <2> QED
    BY <1>4, <1>7, <2>1, <2>3, FiltersAfter
<1>9. plugin # "mongo" => i.data = saved.data
  BY <1>2, <1>3, <1>4, <1>7, DataAfter DEF DataInv
<1>10. Known(p) \subseteq g
  BY <1>2, <1>3, FiltersLoaded DEF FilterInv
<1> HIDE DEF c, g, i
<1>11. stream'.cursor = c /\ stream'.filter = g
  BY <1>1
<1>12. PlaceInv(S, p)'
  BY <1>1, <1>5, <1>6, <1>11 DEF PlaceInv, Beyond
<1>13. FilterInv(p, f)'
  BY <1>1, <1>2, <1>8 DEF FilterInv
<1>14. MemoryInv(p)'
  BY <1>1, <1>10, <1>11 DEF MemoryInv
<1>15. DataInv(p)'
  BY <1>1, <1>2, <1>9 DEF DataInv
<1>16. ContractsKnown'
  BY <1>1, <1>2, <1>4 DEF ContractsKnown
<1> QED
  BY <1>12, <1>13, <1>14, <1>15, <1>16 DEF Stands

\* A cursor on the chain is where the tables are.
LEMMA CanonicalPlace ==
  ASSUME NEW p \in Block, NEW c \in Block, OnChain(p, c), Beyond(c, p), OnChain(c, tip)
  PROVE  p = c
<1>1. OnChain(c, p)
  BY OnChainSelf DEF Beyond
<1>2. Number[c] = Number[p]
  BY <1>1, NumberNat DEF OnChain
<1> QED
  BY <1>2, OnChainSelf, OnChainUnique

\* What the chain of the node holds may be followed by what it will hold.
LEMMA ApartHolds ==
  ASSUME NEW S, Apart(S), TypeOK, plugin # "drizzle", NEW b \in Block, OnChain(b, tip)
  PROVE  <<b, tip>> \in S
BY DEF Apart, OneWay, TypeOK

\* The data of the next block; mongo's tables follow at once when there is a
\* factory to call.
LEMMA ReceiveDataStands ==
  ASSUME NEW S, Apart(S), NEW p \in Block, NEW f \in Block, Base, Stands(S, p, f),
         ReceiveData, NEW b \in Block, b = NextBlock
  PROVE  Stands(S, p, f)' \/ Stands(S, b, f)'
<1> DEFINE c == RequestedCursor(saved)
<1>1. /\ TypeOK /\ StoreInv
      /\ PlaceInv(S, p) /\ FilterInv(p, f) /\ MemoryInv(p) /\ DataInv(p)
      /\ ContractsKnown
  BY DEF Base, Stands
<1>2. /\ pc = "reading" /\ OnChain(b, tip) /\ OnChain(stream.cursor, tip)
      /\ Number[b] = Number[stream.cursor] + 1 /\ Parent(b) = stream.cursor
      /\ message'.cursor = stream.cursor /\ message'.endCursor = b
      /\ message'.block = b /\ message'.filter = stream.filter
      /\ UNCHANGED <<tip, final, plugin>>
  BY <1>1, ReceiveDataDoes
<1>3. /\ OnChain(p, c) /\ Beyond(c, p)
      /\ OnChain(p, stream.cursor) /\ Beyond(stream.cursor, p)
      /\ plugin = "drizzle" => p = c
      /\ plugin # "drizzle" => <<c, tip>> \in S
  BY <1>1, <1>2 DEF PlaceInv
<1>4. p = stream.cursor
  BY <1>1, <1>2, <1>3, CanonicalPlace DEF TypeOK
<1>5. OnChain(p, b) /\ Known(b) = Known(p) \union Creates[b]
  BY <1>2, <1>4, ParentOnChain, KnownGrows
<1>6. db = saved /\ saved \in Stored
  BY <1>1, <1>2 DEF StoreInv, TypeOK
<1>7. plugin # "drizzle" => <<b, tip>> \in S
  BY <1>1, <1>2, ApartHolds
<1>8. OnChain(f, tip) /\ Number[f] <= final /\ FiltersAt(saved.filters, p, f)
  BY <1>1 DEF FilterInv
<1>9. Known(p) \subseteq mainFilter /\ Known(p) \subseteq stream.filter
  BY <1>1, <1>2 DEF MemoryInv
<1>10. CASE /\ Creates[b] = {} /\ pc' = "handling"
            /\ stream' = [cursor |-> b, filter |-> stream.filter]
            /\ UNCHANGED <<mainFilter, db, saved>>
  <2>1. stream'.cursor = b /\ stream'.filter = stream.filter
    BY <1>10
  <2>2. PlaceInv(S, p)'
    BY <1>2, <1>3, <1>4, <1>5, <1>7, <1>10, <2>1
    DEF PlaceInv, Beyond, RequestedCursor
  <2>3. FiltersAt(saved.filters, b, f)
    BY <1>2, <1>4, <1>6, <1>8, <1>10, FiltersExtend DEF Stored
  <2>4. FilterInv(p, f)'
    BY <1>2, <1>6, <1>8, <1>10, <2>3 DEF FilterInv
  <2>5. Known(b) = Known(p)
    BY <1>5, <1>10
  <2>6. MemoryInv(p)'
    BY <1>2, <1>9, <1>10, <2>1, <2>5 DEF MemoryInv
  <2>7. DataInv(p)' /\ ContractsKnown'
    BY <1>1, <1>2, <1>10 DEF DataInv, ContractsKnown
  <2> QED
    BY <2>2, <2>4, <2>6, <2>7 DEF Stands
<1>11. CASE /\ pc' = "factory"
            /\ mainFilter' = mainFilter \union Creates[b]
            /\ stream' = [cursor |-> stream.cursor, filter |-> mainFilter']
            /\ mainFilter' \in Filter
            /\ db' = PersistFilter(db, b, mainFilter')
            /\ saved' = IF plugin = "mongo" THEN db' ELSE saved
  <2>1. Known(b) \subseteq mainFilter'
    BY <1>5, <1>9, <1>11
  <2>2. ASSUME NEW g \in Filter, Known(b) \subseteq g
        PROVE  /\ FiltersAt(PersistFilter(saved, b, g).filters, b, f)
               /\ PersistFilter(saved, b, g).data = saved.data
               /\ PersistFilter(saved, b, g).checkpoint = b
    BY <1>2, <1>4, <1>6, <1>8, <2>2, FiltersPersist, PersistFilterIsStored
  <2>3. /\ FiltersAt(db'.filters, b, f)
        /\ db'.data = saved.data /\ db'.checkpoint = b
    BY <1>6, <1>11, <2>1, <2>2
  <2>4. stream'.cursor = stream.cursor /\ stream'.filter = mainFilter'
    BY <1>11
  <2>5. MemoryInv(p)' /\ MemoryInv(b)'
    BY <1>2, <1>11, <2>1, <2>4 DEF MemoryInv
  <2>6. CASE plugin = "mongo"
    <3>1. saved' = db' /\ plugin' = "mongo"
      BY <1>2, <1>11, <2>6
    <3>2. b # NoBlock
      BY IndexerAssumption DEF IndexerAssumption
    <3>3. RequestedCursor(saved)' = b
      BY <2>3, <3>1, <3>2 DEF RequestedCursor
    <3>4. OnChain(b, b) /\ Beyond(b, b)'
      BY OnChainSelf DEF Beyond
    <3>5. PlaceInv(S, b)'
      BY <1>2, <1>7, <1>11, <2>6, <3>1, <3>3, <3>4 DEF PlaceInv
    <3>6. FilterInv(b, f)'
      BY <1>2, <1>8, <2>3, <3>1 DEF FilterInv
    <3>7. DataInv(b)' /\ ContractsKnown'
      BY <1>1, <2>3, <3>1 DEF DataInv, ContractsKnown
    <3> QED
      BY <2>5, <3>5, <3>6, <3>7 DEF Stands
  <2>7. CASE plugin # "mongo"
    <3>1. saved' = saved
      BY <1>11, <2>7
    <3>2. PlaceInv(S, p)'
      BY <1>2, <1>3, <1>4, <1>5, <1>11, <2>7, <3>1 DEF PlaceInv, Beyond, RequestedCursor
    <3>3. FilterInv(p, f)'
      BY <1>2, <1>8, <2>3, <3>1 DEF FilterInv
    <3>4. DataInv(p)' /\ ContractsKnown'
      BY <1>1, <1>2, <3>1 DEF DataInv, ContractsKnown
    <3> QED
      BY <2>5, <3>2, <3>3, <3>4 DEF Stands
  <2> QED
    BY <2>6, <2>7
<1>12. \/ /\ Creates[b] = {} /\ pc' = "handling"
          /\ stream' = [cursor |-> b, filter |-> stream.filter]
          /\ UNCHANGED <<mainFilter, db, saved>>
       \/ /\ pc' = "factory"
          /\ mainFilter' = mainFilter \union Creates[b]
          /\ stream' = [cursor |-> stream.cursor, filter |-> mainFilter']
          /\ mainFilter' \in Filter
          /\ db' = PersistFilter(db, b, mainFilter')
          /\ saved' = IF plugin = "mongo" THEN db' ELSE saved
  BY <1>1, ReceiveDataDoes
<1> QED
  BY <1>10, <1>11, <1>12

\* The block comes again on the factory's stream.
LEMMA FactoryBlockStands ==
  ASSUME NEW S, Apart(S), NEW p \in Block, NEW f \in Block, Base, Stands(S, p, f),
         FactoryBlock, MessageInv'
  PROVE  Stands(S, p, f)'
<1>1. /\ TypeOK
      /\ PlaceInv(S, p) /\ FilterInv(p, f) /\ MemoryInv(p) /\ DataInv(p)
      /\ ContractsKnown
  BY DEF Base, Stands
<1>2. /\ pc = "factory" /\ pc' = "handling"
      /\ NextBlock \in Block /\ OnChain(NextBlock, tip)
      /\ message'.cursor = message.cursor /\ message'.endCursor = message.endCursor
      /\ message'.block = NextBlock /\ message'.filter = stream.filter
      /\ stream'.cursor = NextBlock /\ stream'.filter = stream.filter
      /\ UNCHANGED <<tip, final, plugin, mainFilter, db, saved>>
  BY <1>1, FactoryBlockDoes
<1>3. NextBlock = message.endCursor
  BY <1>2 DEF MessageInv
<1>4. plugin # "drizzle" => <<NextBlock, tip>> \in S
  BY <1>1, <1>2, ApartHolds
<1>5. PlaceInv(S, p)'
  BY <1>1, <1>2, <1>4 DEF PlaceInv, Beyond, RequestedCursor
<1>6. FilterInv(p, f)'
  BY <1>1, <1>2 DEF FilterInv
<1>7. MemoryInv(p)'
  BY <1>1, <1>2, <1>3 DEF MemoryInv
<1>8. DataInv(p)' /\ ContractsKnown'
  BY <1>1, <1>2 DEF DataInv, ContractsKnown
<1> QED
  BY <1>5, <1>6, <1>7, <1>8 DEF Stands

\* The block is handled and the transaction commits.
LEMMA HandleStands ==
  ASSUME NEW S, NEW p \in Block, NEW f \in Block, Base, Stands(S, p, f),
         Handle, NEW b \in Block, b = message.endCursor
  PROVE  Stands(S, b, f)'
<1> DEFINE h == [block |-> message.block, at |-> Number[message.endCursor],
                 filter |-> message.filter]
<1>1. /\ TypeOK /\ MessageInv /\ StoreInv
      /\ PlaceInv(S, p) /\ FilterInv(p, f) /\ MemoryInv(p) /\ DataInv(p)
      /\ ContractsKnown
  BY DEF Base, Stands
<1>2. /\ pc = "handling" /\ pc' = "reading"
      /\ saved'.checkpoint = b /\ saved'.filters = db.filters
      /\ saved'.data = db.data \union {h}
      /\ UNCHANGED <<tip, final, plugin, mainFilter, stream>>
  BY <1>1, HandleDoes
<1>3. /\ stream.cursor = b /\ message.block = b
      /\ Number[b] = Number[message.cursor] + 1 /\ Parent(b) = message.cursor
  BY <1>1, <1>2 DEF MessageInv
<1>4. b # NoBlock
  BY IndexerAssumption DEF IndexerAssumption
<1>5. RequestedCursor(saved)' = b
  BY <1>2, <1>4 DEF RequestedCursor
<1>6. OnChain(b, b) /\ Beyond(b, b)'
  BY OnChainSelf DEF Beyond
<1>7. plugin # "drizzle" => <<b, tip>> \in S
  BY <1>1, <1>2, <1>3 DEF PlaceInv
<1>8. PlaceInv(S, b)'
  BY <1>2, <1>3, <1>5, <1>6, <1>7 DEF PlaceInv
<1>9. FilterInv(b, f)'
  BY <1>1, <1>2 DEF FilterInv
<1>10. Known(b) \subseteq mainFilter /\ Known(b) \subseteq stream.filter
       /\ Known(b) \subseteq message.filter
  BY <1>1, <1>2, <1>3 DEF MemoryInv
<1>11. MemoryInv(b)'
  BY <1>2, <1>10 DEF MemoryInv
<1>12. h.block = b /\ h.at = Number[b] /\ h.filter = message.filter
  BY <1>3
<1> HIDE DEF h
<1>13. DataInv(b)'
  <2> SUFFICES ASSUME plugin # "mongo"
               PROVE  DataAt(saved'.data, b)
    BY <1>2 DEF DataInv
  <2>1. p = message.cursor
    BY <1>1, <1>2 DEF PlaceInv
  <2>2. DataAt(db.data, p)
    BY <1>1 DEF DataInv, StoreInv
  <2> QED
    BY <1>2, <1>3, <1>12, <2>1, <2>2, DataGrows
<1>14. ContractsKnown'
  <2>1. \A k \in db.data : UNION {Creates[x] : x \in Path(k.block)} \subseteq k.filter
    BY <1>1 DEF ContractsKnown, StoreInv
  <2>2. UNION {Creates[x] : x \in Path(h.block)} \subseteq h.filter
    BY <1>10, <1>12 DEF Known
  <2> QED
    BY <1>2, <2>1, <2>2 DEF ContractsKnown
<1> QED
  BY <1>8, <1>9, <1>11, <1>13, <1>14 DEF Stands

\* The tables go back to the last block the cursor shares with the chain.
LEMMA InvalidateStands ==
  ASSUME NEW S, Apart(S), NEW p \in Block, NEW f \in Block, Base, Stands(S, p, f),
         NEW c \in Block, pc = "reading", pc' = "reading",
         OnChain(c, tip), OnChain(c, stream.cursor),
         \A d \in Block : OnChain(d, tip) /\ OnChain(d, stream.cursor)
                            => Number[d] <= Number[c],
         Transact(Invalidated(saved, c)), stream' = [stream EXCEPT !.cursor = c],
         UNCHANGED <<tip, final, plugin, mainFilter, message>>
  PROVE  Stands(S, c, f)'
<1> DEFINE k == RequestedCursor(saved)
<1>1. /\ TypeOK
      /\ PlaceInv(S, p) /\ FilterInv(p, f) /\ MemoryInv(p) /\ DataInv(p)
      /\ ContractsKnown
  BY DEF Base, Stands
<1>2. /\ tip \in Block /\ stream.cursor \in Block /\ saved \in Stored /\ k \in Block
      /\ stream'.cursor = c /\ stream'.filter = stream.filter
  BY <1>1, StateLoaded DEF TypeOK
<1>3. /\ saved'.checkpoint = IF plugin = "drizzle" /\ saved.checkpoint # NoBlock
                             THEN c ELSE saved.checkpoint
      /\ saved'.filters = InvalidatedFilters(saved.filters, Number[c])
      /\ saved'.data = {h \in saved.data : h.at <= Number[c]}
  BY <1>2, InvalidatedIsStored DEF Transact
<1>4. /\ OnChain(p, k) /\ Beyond(k, p)
      /\ OnChain(p, stream.cursor) /\ Beyond(stream.cursor, p)
      /\ plugin = "drizzle" => p = k
      /\ plugin # "drizzle" => <<k, tip>> \in S
  BY <1>1 DEF PlaceInv
<1>5. OnChain(c, p)
  BY <1>4 DEF Beyond
<1>6. ASSUME NEW x \in Block, OnChain(x, tip), OnChain(x, p)
      PROVE  OnChain(x, c)
  <2>1. OnChain(x, stream.cursor)
    BY <1>2, <1>4, <1>6, OnChainTransitive
  <2>2. Number[x] <= Number[c]
    BY <1>6, <2>1
  <2> QED
    BY <1>2, <1>6, <2>2, OnChainOrdered
<1>7. OnChain(f, tip) /\ Number[f] <= final /\ FiltersAt(saved.filters, p, f)
  BY <1>1 DEF FilterInv
<1>8. OnChain(f, c)
  BY <1>6, <1>7 DEF FiltersAt
<1>9. plugin = "drizzle" => RequestedCursor(saved)' = c
  <2> SUFFICES ASSUME plugin = "drizzle"
               PROVE  RequestedCursor(saved)' = c
    OBVIOUS
  <2>1. c # NoBlock /\ Genesis \in Block /\ Number[Genesis] = 0
    BY IndexerAssumption DEF IndexerAssumption
  <2>2. CASE saved.checkpoint # NoBlock
    BY <1>3, <2>1, <2>2 DEF RequestedCursor
  <2>3. CASE saved.checkpoint = NoBlock
    <3>1. p = Genesis /\ RequestedCursor(saved)' = Genesis
      BY <1>3, <1>4, <2>3 DEF RequestedCursor
    <3>2. Number[c] = Number[p] /\ OnChain(p, p)
      BY <1>5, <2>1, <3>1, NumberNat, OnChainSelf DEF OnChain
    <3> QED
      BY <1>5, <3>1, <3>2, OnChainUnique
  <2> QED
    BY <2>2, <2>3
<1>10. plugin # "drizzle" => RequestedCursor(saved)' = k
  BY <1>3 DEF RequestedCursor
<1> HIDE DEF k
<1>11. OnChain(c, c) /\ Beyond(c, c)'
  BY OnChainSelf DEF Beyond
<1>12. PlaceInv(S, c)'
  <2>1. CASE plugin = "drizzle"
    BY <1>2, <1>9, <1>11, <2>1 DEF PlaceInv
  <2>2. CASE plugin # "drizzle"
    <3>1. OnChain(c, k)
      BY <1>2, <1>4, <1>5, OnChainTransitive
    <3>2. \A x \in Block : OnChain(x, k) /\ OnChain(x, tip) => OnChain(x, c)
      BY <1>4, <1>6 DEF Beyond
    <3>3. <<c, tip>> \in S
      BY <1>1, <2>2, ApartHolds
    <3> QED
      BY <1>2, <1>4, <1>10, <1>11, <2>2, <3>1, <3>2, <3>3 DEF PlaceInv, Beyond
  <2> QED
    BY <2>1, <2>2
<1>13. FiltersAt(saved'.filters, c, f)
  BY <1>2, <1>3, <1>5, <1>7, <1>8, FiltersCut DEF Stored
<1>14. FilterInv(c, f)'
  BY <1>7, <1>13 DEF FilterInv
<1>15. Known(c) \subseteq Known(p)
  BY <1>5, KnownBelow
<1>16. MemoryInv(c)'
  BY <1>1, <1>2, <1>15 DEF MemoryInv
<1>17. DataInv(c)'
  BY <1>1, <1>3, <1>5, DataCut DEF DataInv
<1>18. ContractsKnown'
  BY <1>1, <1>3 DEF ContractsKnown
<1> QED
  BY <1>12, <1>14, <1>16, <1>17, <1>18 DEF Stands

\* The rows that ended before the final block go.
LEMMA FinalizeStands ==
  ASSUME NEW S, NEW p \in Block, NEW f \in Block, Base, Stands(S, p, f),
         NEW n \in Length, ReceiveFinalize(n)
  PROVE  \E g \in Block : Stands(S, p, g)'
<1>1. /\ TypeOK
      /\ PlaceInv(S, p) /\ FilterInv(p, f) /\ MemoryInv(p) /\ DataInv(p)
      /\ ContractsKnown
  BY DEF Base, Stands
<1>2. /\ pc = "reading" /\ OnChain(stream.cursor, tip) /\ n <= final
      /\ UNCHANGED <<tip, final, plugin, pc, mainFilter, stream, message>>
  BY DEF ReceiveFinalize, Reads, CursorIsCanonical, chain, run
<1>3. saved \in Stored /\ tip \in Block /\ stream.cursor \in Block /\ final \in Int
      /\ n \in Nat
  BY <1>1, NumberNat DEF TypeOK, Length
<1>4. /\ saved'.checkpoint = saved.checkpoint
      /\ saved'.filters = FinalizedFilters(saved.filters, n)
      /\ saved'.data = saved.data
  BY <1>3, FinalizedIsStored DEF ReceiveFinalize, Transact
<1>5. OnChain(f, tip) /\ Number[f] <= final /\ FiltersAt(saved.filters, p, f)
  BY <1>1 DEF FilterInv
<1>6. saved.filters \in SUBSET FilterRow
  BY <1>3 DEF Stored
<1>7. PICK g \in Block : /\ FiltersAt(FinalizedFilters(saved.filters, n), p, g)
                         /\ g = f \/ Number[g] <= n
  BY <1>3, <1>5, <1>6, FiltersFinalize
<1>8. OnChain(g, tip)
  <2>1. OnChain(g, p) /\ OnChain(p, stream.cursor)
    BY <1>1, <1>2, <1>7 DEF FiltersAt, PlaceInv
  <2> QED
    BY <1>2, <1>3, <2>1, OnChainTransitive
<1>9. Number[g] <= final
  BY <1>2, <1>3, <1>5, <1>7, NumberNat
<1>10. FilterInv(p, g)'
  BY <1>2, <1>4, <1>7, <1>8, <1>9 DEF FilterInv
<1>11. PlaceInv(S, p)'
  BY <1>1, <1>2, <1>4 DEF PlaceInv, Beyond, RequestedCursor
<1>12. MemoryInv(p)' /\ DataInv(p)' /\ ContractsKnown'
  BY <1>1, <1>2, <1>4 DEF MemoryInv, DataInv, ContractsKnown
<1>13. Stands(S, p, g)'
  BY <1>10, <1>11, <1>12 DEF Stands
<1> QED
  BY <1>13

LEMMA StandsKept ==
  ASSUME NEW S, Apart(S), NEW p \in Block, NEW f \in Block, Base, Stands(S, p, f),
         MessageInv', [Next]_vars
  PROVE  \E q, g \in Block : Stands(S, q, g)'
<1>1. CASE \E b \in Block : Grow(b) \/ Reorg(b)
  BY <1>1, MovesStand
<1>2. CASE \/ FinalizeBlock \/ ReceiveHeartbeat \/ StreamFails \/ Fails \/ Return
           \/ Abort \/ Restart \/ UNCHANGED vars
  BY <1>2, QuietSteps, QuietStands
<1>3. CASE Connect
  BY <1>3, ConnectStands
<1>4. CASE ReceiveData
  <2>1. NextBlock \in Block
    BY <1>4, ReceiveDataDoes DEF Base
  <2>2. ASSUME NEW b \in Block, b = NextBlock
        PROVE  \E q, g \in Block : Stands(S, q, g)'
    <3>1. Stands(S, p, f)' \/ Stands(S, b, f)'
      BY <1>4, <2>2, ReceiveDataStands
    <3> QED
      BY <3>1
  <2> QED
    BY <2>1, <2>2
<1>5. CASE FactoryBlock
  BY <1>5, FactoryBlockStands
<1>6. CASE Handle
  <2>1. message.endCursor \in Block
    BY DEF Base, TypeOK, Message
  <2>2. ASSUME NEW b \in Block, b = message.endCursor
        PROVE  \E q, g \in Block : Stands(S, q, g)'
    <3>1. Stands(S, b, f)'
      BY <1>6, <2>2, HandleStands
    <3> QED
      BY <3>1
  <2> QED
    BY <2>1, <2>2
<1>7. CASE ReceiveInvalidate
  <2>1. PICK c \in Block :
          /\ OnChain(c, tip) /\ OnChain(c, stream.cursor)
          /\ \A d \in Block : OnChain(d, tip) /\ OnChain(d, stream.cursor)
                                => Number[d] <= Number[c]
          /\ Transact(Invalidated(saved, c))
          /\ stream' = [stream EXCEPT !.cursor = c]
    BY <1>7 DEF ReceiveInvalidate
  <2>2. /\ pc = "reading" /\ pc' = "reading"
        /\ UNCHANGED <<tip, final, plugin, mainFilter, message>>
    BY <1>7 DEF ReceiveInvalidate, Reads, chain
  <2>3. Stands(S, c, f)'
    BY <2>1, <2>2, InvalidateStands
  <2> QED
    BY <2>3
<1>8. CASE \E n \in Length : ReceiveFinalize(n)
  <2>1. PICK n \in Length : ReceiveFinalize(n)
    BY <1>8
  <2>2. PICK g \in Block : Stands(S, p, g)'
    BY <2>1, FinalizeStands
  <2> QED
    BY <2>2
<1> QED
  BY <1>1, <1>2, <1>3, <1>4, <1>5, <1>6, <1>7, <1>8 DEF Next

-----------------------------------------------------------------------------
\* The theorems about the chain.

\* At the start the tables are empty, those of the chain up to Genesis.
LEMMA InitStands ==
  ASSUME NEW S, Apart(S), Init
  PROVE  Base /\ Stands(S, Genesis, Genesis)
<1>1. TypeOK
  BY InitTypes
<1>2. /\ Genesis \in Block /\ Number[Genesis] = 0 /\ OnChain(Genesis, Genesis)
      /\ At[Genesis][0] = Genesis
  BY IndexerAssumption, OnChainSelf, BlockTreeAssumption
  DEF IndexerAssumption, BlockTreeAssumption
<1>3. /\ tip = Genesis /\ final = 0 /\ pc = "starting"
      /\ saved.checkpoint = NoBlock /\ saved.filters = {} /\ saved.data = {}
      /\ db = saved
  BY DEF Init
<1>4. MessageInv /\ StoreInv
  BY <1>3 DEF MessageInv, StoreInv
<1>5. RequestedCursor(saved) = Genesis
  BY <1>3 DEF RequestedCursor
<1>6. plugin # "drizzle" => <<Genesis, tip>> \in S
  BY <1>1, <1>2, <1>3, ApartHolds
<1>7. PlaceInv(S, Genesis)
  BY <1>2, <1>3, <1>5, <1>6 DEF PlaceInv, Beyond
<1>8. Path(Genesis) = {}
  BY <1>2 DEF Path
<1>9. Known(Genesis) = {}
  BY <1>8 DEF Known
<1>10. FiltersAt({}, Genesis, Genesis)
  BY <1>2, <1>9 DEF FiltersAt
<1>11. FilterInv(Genesis, Genesis)
  BY <1>2, <1>3, <1>10 DEF FilterInv
<1>12. MemoryInv(Genesis)
  BY <1>3 DEF MemoryInv
<1>13. DataInv(Genesis) /\ ContractsKnown
  BY <1>3, <1>8 DEF DataInv, DataAt, ContractsKnown
<1> QED
  BY <1>1, <1>4, <1>7, <1>11, <1>12, <1>13 DEF Base, Stands

\* The tables are always those of the chain up to some block.
THEOREM TablesStand ==
  ASSUME NEW S, Apart(S), StillDuringFactory
  PROVE  Spec => [](Base /\ \E p, f \in Block : Stands(S, p, f))
<1> DEFINE There == \E p, f \in Block : Stands(S, p, f)
           Inv == TypeOK /\ RetryInv /\ Base /\ There
<1>1. Init => Inv
  <2>1. Genesis \in Block
    BY IndexerAssumption DEF IndexerAssumption
  <2> QED
    BY <2>1, InitStands, InitTypes
<1>2. Inv /\ [Next]_vars => Inv'
  <2> SUFFICES ASSUME TypeOK, RetryInv, Base, There, [Next]_vars
               PROVE  Inv'
    OBVIOUS
  <2>1. TypeOK' /\ RetryInv'
    BY TypesKept
  <2>2. MessageInv' /\ StoreInv'
    BY MessageKept, StoreKept DEF Base
  <2>3. PICK p, f \in Block : Stands(S, p, f)
    OBVIOUS
  <2>4. \E q, g \in Block : Stands(S, q, g)'
    BY <2>2, <2>3, StandsKept
  <2> QED
    BY <2>1, <2>2, <2>4 DEF Base
<1> QED
  BY <1>1, <1>2, PTL DEF Spec

\* Each block of the chain is handled once, whatever fails or is undone between
\* two messages: with drizzle on any chain, with sqlite on a chain that does not
\* go back to a branch it left.  A reorganization while the factory's stream is
\* opened, and the transaction of mongo's factory, are excluded.
THEOREM HandledExactly ==
  ASSUME NEW S, Apart(S), StillDuringFactory, "mongo" \notin Plugins
  PROVE  Spec => []NothingSkipped
<1> DEFINE There == \E p, f \in Block : Stands(S, p, f)
<1>1. Spec => [](Base /\ There)
  BY TablesStand
<1>2. Base /\ There => NothingSkipped
  <2> SUFFICES ASSUME Base, NEW p \in Block, NEW f \in Block, Stands(S, p, f),
                      pc = "reading", CursorIsCanonical
               PROVE  HandledOnce(saved, Path(stream.cursor))
    BY DEF NothingSkipped
  <2>1. /\ stream.cursor \in Block /\ plugin # "mongo"
        /\ OnChain(p, stream.cursor) /\ Beyond(stream.cursor, p)
        /\ OnChain(stream.cursor, tip)
    BY DEF Base, TypeOK, Stands, PlaceInv, CursorIsCanonical
  <2>2. p = stream.cursor
    BY <2>1, CanonicalPlace
  <2>3. DataAt(saved.data, p)
    BY <2>1 DEF Stands, DataInv
  <2>4. Cardinality(saved.data) = Cardinality(Path(p))
    BY <2>3, DataCounted
  <2> QED
    BY <2>2, <2>3, <2>4 DEF HandledOnce, DataAt
<1> QED
  BY <1>1, <1>2, PTL

\* A block is handled with the contracts of its whole chain, with every plugin.
THEOREM FilterHoldsContracts ==
  ASSUME NEW S, Apart(S), StillDuringFactory
  PROVE  Spec => []ContractsKnown
<1> DEFINE There == \E p, f \in Block : Stands(S, p, f)
<1>1. Spec => [](Base /\ There)
  BY TablesStand
<1>2. There => ContractsKnown
  BY DEF Stands
<1> QED
  BY <1>1, <1>2, PTL
=============================================================================
