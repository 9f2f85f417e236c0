----------------------------- MODULE SqliteStorage -----------------------------
(***************************************************************************)
(* sqliteStorage (plugin-sqlite/src): the key-value store and the         *)
(* checkpoint of the indexers that share one Database handle.             *)
(*                                                                         *)
(* A row of the table kvs holds a value from the block that wrote it      *)
(* (from) to the block that replaced or deleted it (to, Null while it is  *)
(* current).  Blocks are their order keys.  The hooks of an indexer are   *)
(* called as run (indexer/src/indexer.ts) calls them, for the messages of *)
(* a stream: data, invalidate, finalize.  The tables filters and the      *)
(* factory mode are not in this module.                                   *)
(***************************************************************************)
EXTENDS Integers

CONSTANTS
  Indexer, Key, Value,
  Absent,          \* what get answers for a key without a row (undefined)
  Null,            \* SQL's NULL
  NoTx,            \* no transaction is open
  MaxBlock,        \* bound on block numbers
  StartingCursor,  \* options.startingCursor, or Undefined
  Finalities,      \* the finality of the blocks the stream sends
  AlwaysReindex    \* the values APIBARA_ALWAYS_REINDEX takes

Undefined == -1
Block == 0 .. MaxBlock
Point == -1 .. MaxBlock
Finality == {"pending", "accepted"}

ASSUME SqliteAssumption ==
  /\ MaxBlock \in Nat
  /\ StartingCursor \in Point
  /\ Finalities \subseteq Finality
  /\ AlwaysReindex \subseteq BOOLEAN
  /\ Null \notin Int
  /\ Absent \notin Value
  /\ NoTx \notin [indexer : Indexer, cursor : Point, endCursor : Block, finality : Finality]
  /\ NoTx \notin [indexer : Indexer, block : Block, pending : BOOLEAN]

VARIABLES
  kvs,           \* the rows the open transaction sees
  saved,         \* the rows ROLLBACK goes back to
  checkpoints,   \* the table checkpoints
  tx,            \* the open transaction of handler:middleware, with its message
  prevFinality,  \* the plugin's prevFinality
  conn,          \* where run is
  pos,           \* the stream's position (external): the next cursor it sends
  head,          \* the last block it sent (external): pos, or a pending block
  floor          \* the last block it said is final (external)

stream == <<pos, head, floor>>
vars == <<kvs, saved, checkpoints, tx, prevFinality, conn, pos, head, floor>>

Row ==
  [id : Indexer, k : Key, from : Block, to : Block \union {Null}, v : Value]
Transaction ==
  [indexer : Indexer, cursor : Point, endCursor : Block, finality : Finality]

Smaller(a, b) == IF a < b THEN a ELSE b
Larger(a, b) == IF a > b THEN a ELSE b

-----------------------------------------------------------------------------
(* The SQL statements.  A comparison with NULL is not true.                *)

\* Mutation: the rows of every indexer are closed.
MutantClose(rows, i, k, b) ==
  {IF r.k = k /\ r.to = Null THEN [r EXCEPT !.to = b] ELSE r : r \in rows}

\* updateToBlock and del
Close(rows, i, k, b) ==
  {IF r.id = i /\ r.k = k /\ r.to = Null THEN [r EXCEPT !.to = b] ELSE r : r \in rows}

\* PRIMARY KEY (from_block, k, id)
HasPrimaryKey(rows, i, k, b) ==
  \E r \in rows : r.id = i /\ r.k = k /\ r.from = b

\* Mutation: the parameters of insertIntoKvs are swapped.
MutantNewRow(i, k, b, v) == [id |-> i, k |-> v, from |-> b, to |-> Null, v |-> k]

NewRow(i, k, b, v) == [id |-> i, k |-> k, from |-> b, to |-> Null, v |-> v]

\* The value of one row, if the query finds any.
FirstOf(values) == IF values = {} THEN Absent ELSE CHOOSE v \in values : TRUE

\* get
Get(rows, i, k) ==
  FirstOf({r.v : r \in {s \in rows : s.id = i /\ s.k = k /\ s.to = Null}})

\* Mutation: the rows that began after the cursor stay.
MutantInvalidateKV(rows, i, c) ==
  {IF r.id = i /\ r.to # Null /\ r.to > c THEN [r EXCEPT !.to = Null] ELSE r : r \in rows}

\* invalidateDelete, invalidateUpdate
InvalidateKV(rows, i, c) ==
  {IF r.id = i /\ r.to # Null /\ r.to > c THEN [r EXCEPT !.to = Null] ELSE r :
     r \in {s \in rows : ~(s.id = i /\ s.from > c)}}

FinalizeKV(rows, i, c) == {r \in rows : ~(r.id = i /\ r.to # Null /\ r.to <= c)}

CleanupKV(rows, i) == {r \in rows : r.id # i}

-----------------------------------------------------------------------------
Init ==
  /\ kvs = {}
  /\ saved = {}
  /\ checkpoints = [i \in Indexer |-> Undefined]
  /\ tx = NoTx
  /\ prevFinality = [i \in Indexer |-> "none"]
  /\ conn = [i \in Indexer |-> "stopped"]
  /\ pos = [i \in Indexer |-> StartingCursor]
  /\ head = [i \in Indexer |-> StartingCursor]
  /\ floor = [i \in Indexer |-> Undefined]

\* withTransaction around statements that do not wait.
Transact(rows) == tx = NoTx /\ kvs' = rows /\ saved' = rows /\ UNCHANGED tx

\* plugins:init.  The tables are created, and emptied when reindexing.
Initialize(i) ==
  /\ conn[i] = "stopped"
  /\ \E reindex \in AlwaysReindex :
       IF reindex
       THEN /\ Transact(CleanupKV(kvs, i))
            /\ checkpoints' = [checkpoints EXCEPT ![i] = Undefined]
            /\ pos' = [pos EXCEPT ![i] = StartingCursor]
            /\ head' = [head EXCEPT ![i] = StartingCursor]
       ELSE Transact(kvs) /\ UNCHANGED <<checkpoints, pos, head>>
  /\ conn' = [conn EXCEPT ![i] = "initialized"]
  /\ UNCHANGED <<prevFinality, floor>>

\* connect:before: the checkpoint takes the place of the starting cursor.
RequestedCursor(i) ==
  IF checkpoints[i] = Undefined THEN StartingCursor ELSE checkpoints[i]

\* connect:after
InvalidateOnConnect(i) ==
  IF RequestedCursor(i) = Undefined THEN kvs
  ELSE InvalidateKV(kvs, i, RequestedCursor(i))

(* connect:before and connect:after; only this indexer's hooks write its   *)
(* rows, so nothing it reads changes in between.  When the cursor left the *)
(* chain the stream begins with an invalidate message.                     *)
Connect(i) ==
  /\ conn[i] = "initialized"
  /\ Transact(InvalidateOnConnect(i))
  /\ IF RequestedCursor(i) > pos[i]
     THEN /\ conn' = [conn EXCEPT ![i] = "rewinding"]
          /\ UNCHANGED head
     ELSE /\ conn' = [conn EXCEPT ![i] = "running"]
          /\ head' = [head EXCEPT ![i] = pos[i]]
  /\ UNCHANGED <<checkpoints, prevFinality, pos, floor>>

Connected(i) == conn[i] \in {"rewinding", "running"}

-----------------------------------------------------------------------------
(* handler:middleware *)

\* A block of i is being handled.
Handling(i) == tx # NoTx /\ tx.indexer = i

Stop(i) == conn' = [conn EXCEPT ![i] = "stopped"]

\* Mutation: the data of a pending block stays when the block is sent again.
MutantInvalidatePending(i) == kvs

InvalidatePending(i) ==
  IF prevFinality[i] = "pending" THEN InvalidateKV(kvs, i, pos[i]) ELSE kvs

\* A data message (external): the block follows pos; a pending block is
\* the last one and not final.
Sends(i, b, finality) ==
  /\ conn[i] = "running"
  /\ b > pos[i]
  /\ finality = "pending" => b > floor[i]

BeginBlock(i, b, finality) ==
  /\ Sends(i, b, finality)
  /\ tx = NoTx
  /\ prevFinality[i] = "pending" => pos[i] # Undefined
  /\ tx' = [indexer |-> i, cursor |-> pos[i], endCursor |-> b, finality |-> finality]
  /\ kvs' = InvalidatePending(i)
  /\ UNCHANGED <<saved, checkpoints, prevFinality, conn, stream>>

\* invalidateKV(db, undefined, ...) reads a property of undefined.
BeginBlockFails(i) ==
  /\ \E b \in Block, finality \in Finalities : Sends(i, b, finality)
  /\ tx = NoTx
  /\ prevFinality[i] = "pending" /\ pos[i] = Undefined
  /\ Stop(i)
  /\ UNCHANGED <<kvs, saved, checkpoints, tx, prevFinality, stream>>

\* A handler runs.
InHandler == tx # NoTx /\ conn[tx.indexer] = "running"

\* kv.put
Put(k, v) ==
  /\ InHandler
  /\ ~HasPrimaryKey(kvs, tx.indexer, k, tx.endCursor)
  /\ kvs' = Close(kvs, tx.indexer, k, tx.endCursor)
              \union {NewRow(tx.indexer, k, tx.endCursor, v)}
  /\ UNCHANGED <<saved, checkpoints, tx, prevFinality, conn, stream>>

\* kv.del
Del(k) ==
  /\ InHandler
  /\ kvs' = Close(kvs, tx.indexer, k, tx.endCursor)
  /\ UNCHANGED <<saved, checkpoints, tx, prevFinality, conn, stream>>

\* ROLLBACK TRANSACTION; the error ends run.
Rollback ==
  /\ kvs' = saved
  /\ tx' = NoTx
  /\ Stop(tx.indexer)
  /\ UNCHANGED <<saved, checkpoints, prevFinality, stream>>

\* kv.put inserts a row that exists: the statement throws.
PutConflicts(k) ==
  /\ InHandler
  /\ HasPrimaryKey(kvs, tx.indexer, k, tx.endCursor)
  /\ Rollback

\* The rest of the middleware throws.
HandlerFails == InHandler /\ Rollback

\* After next(): persistState, prevFinality, COMMIT TRANSACTION.
Commit ==
  /\ InHandler
  /\ LET i == tx.indexer
         pending == tx.finality = "pending"
     IN  /\ checkpoints' = IF pending THEN checkpoints
                           ELSE [checkpoints EXCEPT ![i] = tx.endCursor]
         /\ prevFinality' = [prevFinality EXCEPT ![i] = tx.finality]
         /\ pos' = IF pending THEN pos ELSE [pos EXCEPT ![i] = tx.endCursor]
         /\ head' = [head EXCEPT ![i] = tx.endCursor]
  /\ saved' = kvs
  /\ tx' = NoTx
  /\ UNCHANGED <<kvs, conn, floor>>

(* COMMIT TRANSACTION throws, outside the try: prevFinality is set and the  *)
(* code does not roll back.  Either SQLite did, or the transaction stays    *)
(* open and every BEGIN is refused until the process ends.                  *)
CommitFails ==
  /\ InHandler
  /\ prevFinality' = [prevFinality EXCEPT ![tx.indexer] = tx.finality]
  /\ Stop(tx.indexer)
  /\ \/ kvs' = saved /\ tx' = NoTx
     \/ UNCHANGED <<kvs, tx>>
  /\ UNCHANGED <<saved, checkpoints, stream>>

\* BEGIN TRANSACTION while another indexer's is open throws before the try.
BeginRefused(i) ==
  /\ conn[i] # "stopped"
  /\ tx # NoTx /\ ~Handling(i)
  /\ Stop(i)
  /\ UNCHANGED <<kvs, saved, checkpoints, tx, prevFinality, stream>>

-----------------------------------------------------------------------------
(* message:invalidate and message:finalize *)

(* The stream goes back to block c, which is not below the final block or   *)
(* is where it stands.                                                      *)
MessageInvalidate(i, c) ==
  /\ Connected(i)
  /\ StartingCursor <= c /\ c <= pos[i]
  /\ c >= floor[i] \/ c = pos[i]
  /\ Transact(InvalidateKV(kvs, i, c))
  /\ pos' = [pos EXCEPT ![i] = c]
  /\ head' = [head EXCEPT ![i] = c]
  /\ conn' = [conn EXCEPT ![i] = "running"]
  /\ UNCHANGED <<checkpoints, prevFinality, floor>>

\* Finality may be ahead of the blocks sent, but never reaches a pending one.
MessageFinalize(i, c) ==
  /\ Connected(i)
  /\ head[i] # pos[i] => c < head[i]
  /\ Transact(FinalizeKV(kvs, i, c))
  /\ floor' = [floor EXCEPT ![i] = Larger(@, c)]
  /\ UNCHANGED <<checkpoints, prevFinality, conn, pos, head>>

\* The stream ends or fails; the process may call run again.
Disconnect(i) ==
  /\ Connected(i)
  /\ ~Handling(i)
  /\ Stop(i)
  /\ UNCHANGED <<kvs, saved, checkpoints, tx, prevFinality, stream>>

\* The process ends: the journal rolls the open transaction back.
Crash ==
  /\ kvs' = saved
  /\ tx' = NoTx
  /\ conn' = [i \in Indexer |-> "stopped"]
  /\ prevFinality' = [i \in Indexer |-> "none"]
  /\ UNCHANGED <<saved, checkpoints, stream>>

Next ==
  \/ \E i \in Indexer :
       \/ Initialize(i)
       \/ Connect(i)
       \/ \E b \in Block, finality \in Finalities : BeginBlock(i, b, finality)
       \/ BeginBlockFails(i)
       \/ BeginRefused(i)
       \/ \E c \in Block : MessageInvalidate(i, c) \/ MessageFinalize(i, c)
       \/ Disconnect(i)
  \/ \E k \in Key : \/ \E v \in Value : Put(k, v)
                    \/ PutConflicts(k)
                    \/ Del(k)
  \/ HandlerFails
  \/ Commit
  \/ CommitFails
  \/ Crash

Spec == Init /\ [][Next]_vars

-----------------------------------------------------------------------------
\* The variables keep their types: rows that INSERT and UPDATE may write,
\* checkpoints and cursors that are blocks.
TypeOK ==
  /\ kvs \subseteq Row
  /\ saved \subseteq Row
  /\ checkpoints \in [Indexer -> Point]
  /\ tx \in Transaction \union {NoTx}
  /\ prevFinality \in [Indexer -> Finality \union {"none"}]
  /\ conn \in [Indexer -> {"stopped", "initialized", "rewinding", "running"}]
  /\ pos \in [Indexer -> Point]
  /\ head \in [Indexer -> Point]
  /\ floor \in [Indexer -> Point]

ValidAt(r, n) == r.from <= n /\ (r.to = Null \/ n < r.to)

\* A key has one value at a time: no block is in the intervals of two rows of
\* a key, whatever reorganizations and pending blocks reopened, so that get,
\* which takes any row without an end, has no choice.
VersionsDisjoint ==
  \A r, s \in kvs :
    r.id = s.id /\ r.k = s.k /\ r # s =>
      \A n \in Block : ~(ValidAt(r, n) /\ ValidAt(s, n))

RowsOf(rows, i) == {r \in rows : r.id = i}

\* The indexers of a database are isolated although they share the table and
\* the connection: a step that changes the committed rows of an indexer is its
\* own, the open transaction's if one is open and never that of a stopped
\* indexer that stays so, and changes no other's.
OwnRowsOnly ==
  [][\A i \in Indexer :
       RowsOf(saved', i) # RowsOf(saved, i) =>
         /\ tx # NoTx => tx.indexer = i
         /\ conn[i] # "stopped" \/ conn'[i] # "stopped"
         /\ \A j \in Indexer \ {i} : RowsOf(saved', j) = RowsOf(saved, j)]_vars

-----------------------------------------------------------------------------
(* The store this implements.  The content after block n is in the rows    *)
(* valid at n, or at the final block when n is below it and its rows may   *)
(* be gone.                                                                *)

ValuesAt(rows, i, k, n) ==
  {r.v : r \in {s \in rows : s.id = i /\ s.k = k /\ ValidAt(s, n)}}

History(rows, i, final) ==
  [n \in Point |->
     [k \in Key |-> FirstOf(ValuesAt(rows, i, k, Larger(n, final)))]]

StoreTx ==
  IF tx = NoTx THEN NoTx
  ELSE [indexer |-> tx.indexer, block |-> tx.endCursor,
        pending |-> tx.finality = "pending"]

StoreDraft ==
  [k \in Key |-> IF tx = NoTx THEN Absent ELSE Get(kvs, tx.indexer, k)]

Active == {i \in Indexer : conn[i] # "stopped"}

Store == INSTANCE ReorgStore
  WITH active <- Active,
       asOf <- [i \in Indexer |-> History(saved, i, floor[i])], base <- pos,
       tx <- StoreTx, draft <- StoreDraft

\* The plugin is a ReorgStore: a handler reads the content its indexer had
\* after the block before its own, with its own writes; a block's writes take
\* effect together or not at all; invalidating, restarting and pending blocks
\* give back the old content of this indexer and leave the others' alone;
\* finalizing changes no content that can be asked for again.
StoreSpec == Store!Spec
=============================================================================
