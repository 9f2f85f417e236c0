----------------------------- MODULE DrizzleStorage -----------------------------
(***************************************************************************)
(* drizzleStorage (plugin-drizzle/src): the tables of an indexer, the log *)
(* that undoes its writes (reorg_rollback) and its checkpoint.             *)
(*                                                                         *)
(* A row is found by its id column (Key), which is unique and which no     *)
(* handler changes: the undo of an UPDATE does not restore it.  The        *)
(* triggers on the tables add to the log what a statement did, under the   *)
(* order key of the block that handler:middleware set, if it did.  They    *)
(* are deferred to the commit; as nothing reads the log before and the key *)
(* stays, the model logs at once.  Blocks are their order keys; no other   *)
(* indexer has triggers on the tables.  The filters of the factory mode    *)
(* are in Indexer.                                                         *)
(***************************************************************************)
EXTENDS Integers

CONSTANTS
  Key, Value,
  Absent,          \* what a key without a row holds
  NoTx,            \* no hook that uses a transaction runs
  MaxBlock,        \* bound on block numbers
  MaxLog,          \* bound on the numbers of the log's rows
  StartingCursor,  \* options.startingCursor, or Undefined
  AlwaysReindex    \* the values APIBARA_ALWAYS_REINDEX takes

Undefined == -1
Block == 0 .. MaxBlock
Point == -1 .. MaxBlock
Serial == 1 .. MaxLog
Finality == {"pending", "accepted", "finalized"}
Undoing == {"connect", "invalidate", "pending"}
Hook == Undoing \union {"begin", "block"}
Transaction == [hook : Hook, cursor : Point, endCursor : Point, finality : Finality]

ASSUME DrizzleAssumption ==
  /\ MaxBlock \in Nat
  /\ MaxLog \in Nat
  /\ StartingCursor \in Point
  /\ AlwaysReindex \subseteq BOOLEAN
  /\ Absent \notin Value
  /\ NoTx \notin Transaction
  /\ NoTx \notin [indexer : {"indexer"}, block : Block, pending : BOOLEAN]

VARIABLES
  rows,          \* the tables, as the open transaction sees them
  log,           \* the rows of reorg_rollback, likewise
  triggers,      \* the triggers are on the tables, likewise
  checkpoint,    \* the row of the indexer in checkpoints, likewise
  saved,         \* the four of them as committed
  tx,            \* the hook whose transactions run, and its message
  undo,          \* what invalidate deleted from the log and must still undo
  prevFinality,  \* the plugin's prevFinality
  registered,    \* the plugin's reorgTriggersRegistered
  conn,          \* where run is
  pos,           \* the stream's position (external): the next cursor it sends
  head,          \* the last block it sent (external): pos, or a pending block
  floor          \* the chain's final block (external)

db == <<rows, log, triggers, checkpoint>>
plugin == <<prevFinality, registered>>
stream == <<pos, head, floor>>
vars == <<rows, log, triggers, checkpoint, saved, tx, undo, prevFinality,
          registered, conn, pos, head, floor>>

Content == [Key -> Value \union {Absent}]
LogRow ==
  [n : Serial, op : {"I", "U", "D"}, k : Key, cursor : Block, old : Value \union {Absent}]

Larger(a, b) == IF a > b THEN a ELSE b

-----------------------------------------------------------------------------
(* Statements *)

\* Mutation: the order key is set while a pending block is undone too.
MutantOrderKeySet == tx.hook \in {"pending", "block"} /\ tx.finality # "finalized"

\* set_config is local to the transaction of a block that is not final.
OrderKeySet == tx.hook = "block" /\ tx.finality # "finalized"

\* The serial column: the least number above those in the log.
NextSerial(n) ==
  /\ \A e \in log : e.n < n
  /\ \A m \in Serial : (\A e \in log : e.n < m) => n <= m

\* A row takes the content v; reorg_checkpoint logs it.
Execute(op, k, v) ==
  /\ rows' = [rows EXCEPT ![k] = v]
  /\ IF triggers /\ OrderKeySet
     THEN \E n \in Serial :
            /\ NextSerial(n)
            /\ log' = log \union
                 {[n |-> n, op |-> op, k |-> k, cursor |-> tx.endCursor, old |-> rows[k]]}
     ELSE UNCHANGED log

Committed == [rows |-> rows, log |-> log, triggers |-> triggers, checkpoint |-> checkpoint]

COMMIT == saved' = [rows |-> rows', log |-> log', triggers |-> triggers',
                    checkpoint |-> checkpoint']

ROLLBACK ==
  /\ rows' = saved.rows
  /\ log' = saved.log
  /\ triggers' = saved.triggers
  /\ checkpoint' = saved.checkpoint
  /\ UNCHANGED saved

Stop == conn' = "stopped"

-----------------------------------------------------------------------------
Init ==
  /\ rows = [k \in Key |-> Absent]
  /\ log = {}
  /\ triggers = FALSE
  /\ checkpoint = Undefined
  /\ saved = Committed
  /\ tx = NoTx
  /\ undo = {}
  /\ prevFinality = "none"
  /\ registered = FALSE
  /\ conn = "stopped"
  /\ pos = StartingCursor
  /\ head = StartingCursor
  /\ floor = Undefined

ResetFlags == prevFinality' = "none" /\ registered' = FALSE

\* plugins:init.  cleanupStorage drops the triggers and empties the tables.
Initialize ==
  /\ conn = "stopped"
  /\ \E reindex \in AlwaysReindex :
       IF reindex
       THEN /\ rows' = [k \in Key |-> Absent]
            /\ log' = {}
            /\ triggers' = FALSE
            /\ checkpoint' = Undefined
            /\ COMMIT
            /\ pos' = StartingCursor
            /\ head' = StartingCursor
       ELSE UNCHANGED <<db, saved, pos, head>>
  /\ ResetFlags
  /\ conn' = "initialized"
  /\ UNCHANGED <<tx, undo, floor>>

-----------------------------------------------------------------------------
(* invalidate: the log's rows after the cursor are deleted and returned,    *)
(* newest first; each is one statement.                                     *)

After(c) == {e \in log : e.cursor > c}

Invalidate(hook, c, b, finality) ==
  /\ tx = NoTx
  /\ tx' = [hook |-> hook, cursor |-> c, endCursor |-> b, finality |-> finality]
  /\ undo' = After(c)
  /\ log' = log \ After(c)
  /\ UNCHANGED <<rows, triggers, checkpoint, saved, plugin, stream>>

\* Mutation: ORDER BY n ASC
MutantFirst(e) == \A f \in undo : e.n <= f.n

\* ORDER BY n DESC
First(e) == \A f \in undo : f.n <= e.n

\* DELETE and UPDATE find no row, or INSERT finds one.
Misses(e) == (e.op = "D") # (rows[e.k] = Absent)

Inverse(op) == CASE op = "I" -> "D" [] op = "D" -> "I" [] OTHER -> "U"

\* A statement throws: the transaction is rolled back and run ends.
Throw ==
  /\ ROLLBACK
  /\ undo' = {}
  /\ tx' = NoTx
  /\ Stop

\* One row of the log is undone.  INSERT throws when the row exists.
UndoStep ==
  /\ tx # NoTx
  /\ \E e \in undo :
       /\ First(e)
       /\ IF Misses(e) /\ e.op = "D" THEN Throw
          ELSE /\ IF Misses(e) THEN UNCHANGED <<rows, log>>
                  ELSE Execute(Inverse(e.op), e.k, e.old)
               /\ undo' = undo \ {e}
               /\ UNCHANGED <<triggers, checkpoint, saved, tx, conn>>
  /\ UNCHANGED <<plugin, stream>>

Undone(hook) == tx # NoTx /\ tx.hook = hook /\ undo = {}

\* Mutation: the checkpoint stays.
MutantInvalidateState(c) == UNCHANGED checkpoint

\* Mutation: the cursor is read from a row that has no order key.
MutantUpdatedCheckpoint(c) == checkpoint' = Absent

\* invalidateState: UPDATE changes a row only if there is one.
InvalidateState(c) == checkpoint' = IF checkpoint = Undefined THEN Undefined ELSE c

-----------------------------------------------------------------------------
(* connect:before, connect:after, message:invalidate, message:finalize *)

RequestedCursor == IF checkpoint = Undefined THEN StartingCursor ELSE checkpoint

\* The checkpoint takes the place of the starting cursor.
Connect ==
  /\ conn = "initialized"
  /\ IF RequestedCursor = Undefined
     THEN /\ conn' = "running"
          /\ head' = pos
          /\ UNCHANGED <<db, saved, tx, undo, plugin, pos, floor>>
     ELSE /\ Invalidate("connect", RequestedCursor, RequestedCursor, "accepted")
          /\ UNCHANGED conn

ConnectDone ==
  /\ Undone("connect")
  /\ InvalidateState(tx.cursor)
  /\ UNCHANGED <<rows, log, triggers>>
  /\ COMMIT
  /\ tx' = NoTx
  /\ conn' = "running"
  /\ head' = pos
  /\ UNCHANGED <<undo, plugin, pos, floor>>

Idle == conn = "running" /\ tx = NoTx

\* The stream goes back to block c (external: not below the final block, or
\* to where it stands).
MessageInvalidate(c) ==
  /\ Idle
  /\ StartingCursor <= c /\ c <= pos
  /\ c >= floor \/ c = pos
  /\ Invalidate("invalidate", c, c, "accepted")
  /\ UNCHANGED conn

MessageInvalidateDone ==
  /\ Undone("invalidate")
  /\ InvalidateState(tx.cursor)
  /\ UNCHANGED <<rows, log, triggers>>
  /\ COMMIT
  /\ tx' = NoTx
  /\ pos' = tx.cursor
  /\ head' = tx.cursor
  /\ UNCHANGED <<undo, plugin, conn, floor>>

\* finalize
Finalize(c) == {e \in log : e.cursor > c}

\* The stream says that block c is final.
MessageFinalize(c) ==
  /\ Idle
  /\ c <= floor
  /\ log' = Finalize(c)
  /\ UNCHANGED <<rows, triggers, checkpoint>>
  /\ COMMIT
  /\ UNCHANGED <<tx, undo, plugin, conn, stream>>

-----------------------------------------------------------------------------
(* handler:middleware *)

\* A data message (external): the block follows pos; a pending block is the
\* last one and not final; a finalized one is final.
Sends(b, finality) ==
  /\ Idle
  /\ b > pos
  /\ (finality = "pending" => b > floor) /\ (finality = "finalized" => b <= floor)

\* Without a cursor, invalidate(tx, undefined, ...) throws.
BeginBlock(b, finality) ==
  /\ Sends(b, finality)
  /\ IF prevFinality = "pending" /\ pos = Undefined
     THEN Stop /\ UNCHANGED <<db, saved, tx, undo, plugin, stream>>
     ELSE IF prevFinality = "pending"
     THEN Invalidate("pending", pos, b, finality) /\ UNCHANGED conn
     ELSE /\ tx' = [hook |-> "begin", cursor |-> pos, endCursor |-> b,
                    finality |-> finality]
          /\ UNCHANGED <<db, saved, undo, plugin, conn, stream>>

\* The transaction that undid the pending block commits.
PendingUndone ==
  /\ Undone("pending")
  /\ UNCHANGED db
  /\ COMMIT
  /\ tx' = [tx EXCEPT !.hook = "begin"]
  /\ UNCHANGED <<undo, plugin, conn, stream>>

\* The transaction of the block begins: registerTriggers.
OpenBlock ==
  /\ tx # NoTx /\ tx.hook = "begin"
  /\ tx' = [tx EXCEPT !.hook = "block"]
  /\ triggers' = (triggers \/ (tx.finality # "finalized" /\ ~registered))
  /\ UNCHANGED <<rows, log, checkpoint, saved, undo, plugin, conn, stream>>

InBlock == tx # NoTx /\ tx.hook = "block"

Statement(op, k, v) ==
  /\ InBlock
  /\ Execute(op, k, v)
  /\ UNCHANGED <<triggers, checkpoint, saved, tx, undo, plugin, conn, stream>>

Insert(k, v) == rows[k] = Absent /\ Statement("I", k, v)
Update(k, v) == rows[k] # Absent /\ Statement("U", k, v)
Delete(k) == rows[k] # Absent /\ Statement("D", k, Absent)

\* After next(): persistState and COMMIT.
CommitBlock ==
  /\ InBlock
  /\ UNCHANGED <<rows, log, triggers>>
  /\ IF tx.finality = "pending" THEN UNCHANGED <<checkpoint, pos>>
     ELSE checkpoint' = tx.endCursor /\ pos' = tx.endCursor
  /\ COMMIT
  /\ tx' = NoTx
  /\ head' = tx.endCursor
  /\ UNCHANGED <<undo, floor>>

Commit ==
  /\ CommitBlock
  /\ registered' = (registered \/ tx.finality # "finalized")
  /\ prevFinality' = tx.finality
  /\ UNCHANGED conn

\* The commit is done, but the connection breaks before the answer.
CommitUnanswered == CommitBlock /\ Stop /\ UNCHANGED plugin

\* A statement, the handler or the commit throws.
Fails == tx # NoTx /\ Throw /\ UNCHANGED <<plugin, stream>>

\* The stream ends or fails; the process may call run again.
Disconnect ==
  /\ Idle
  /\ Stop
  /\ UNCHANGED <<db, saved, tx, undo, plugin, stream>>

\* The process ends.
Crash ==
  /\ ROLLBACK
  /\ undo' = {}
  /\ tx' = NoTx
  /\ prevFinality' = "none"
  /\ registered' = FALSE
  /\ Stop
  /\ UNCHANGED stream

\* A block becomes final (external), never the pending one.
ChainFinalizes(c) ==
  /\ tx = NoTx
  /\ floor < c
  /\ head # pos => c < head
  /\ floor' = c
  /\ UNCHANGED <<db, saved, tx, undo, plugin, conn, pos, head>>

Next ==
  \/ Initialize
  \/ Connect
  \/ ConnectDone
  \/ \E c \in Block :
       MessageInvalidate(c) \/ MessageFinalize(c) \/ ChainFinalizes(c)
  \/ MessageInvalidateDone
  \/ UndoStep
  \/ \E b \in Block, finality \in Finality : BeginBlock(b, finality)
  \/ PendingUndone
  \/ OpenBlock
  \/ \E k \in Key : (\E v \in Value : Insert(k, v) \/ Update(k, v)) \/ Delete(k)
  \/ Commit
  \/ CommitUnanswered
  \/ Fails
  \/ Disconnect
  \/ Crash

Spec == Init /\ [][Next]_vars

-----------------------------------------------------------------------------
\* The variables keep their types: the log's rows name blocks and restore
\* contents, checkpoints and cursors are blocks.
TypeOK ==
  /\ rows \in Content
  /\ log \subseteq LogRow
  /\ triggers \in BOOLEAN
  /\ checkpoint \in Point
  /\ saved \in [rows : Content, log : SUBSET LogRow, triggers : BOOLEAN, checkpoint : Point]
  /\ tx \in Transaction \union {NoTx}
  /\ undo \subseteq LogRow
  /\ prevFinality \in Finality \union {"none"}
  /\ registered \in BOOLEAN
  /\ conn \in {"stopped", "initialized", "running"}
  /\ pos \in Point
  /\ head \in Point
  /\ floor \in Point

\* The log undoes cleanly: the next row to undo always finds the table as the
\* statement it undoes left it, over any number of statements, blocks and
\* reorganizations, so that no DELETE or UPDATE misses its row and no INSERT
\* meets one that exists.
UndoApplies == \A e \in undo : First(e) => ~Misses(e)

\* A restart asks for the block the data is at: an invalidate, a reindex or a
\* failed transaction moves the checkpoint with the data or neither.
CheckpointKeepsUp ==
  (IF saved.checkpoint = Undefined THEN StartingCursor ELSE saved.checkpoint) = pos

-----------------------------------------------------------------------------
(* The store this implements, with one indexer.  The content after block n  *)
(* is what the oldest log row of a later block says it was, or, if none     *)
(* does, what the table holds; the log below the final block may be gone.   *)

Self == {"indexer"}

Later(l, k, n) == {e \in l : e.k = k /\ e.cursor > n}

ContentAt(s, k, n) ==
  IF Later(s.log, k, n) = {} THEN s.rows[k]
  ELSE (CHOOSE e \in Later(s.log, k, n) : \A f \in Later(s.log, k, n) : e.n <= f.n).old

History(s, final) ==
  [n \in Point |-> [k \in Key |-> ContentAt(s, k, Larger(n, final))]]

StoreTx ==
  IF InBlock
  THEN [indexer |-> "indexer", block |-> tx.endCursor, pending |-> tx.finality = "pending"]
  ELSE NoTx

StoreDraft == [k \in Key |-> IF InBlock THEN rows[k] ELSE Absent]

Active == IF conn = "stopped" THEN {} ELSE Self

Store == INSTANCE ReorgStore
  WITH Indexer <- Self,
       active <- Active,
       asOf <- [i \in Self |-> History(saved, floor)],
       base <- [i \in Self |-> pos],
       floor <- [i \in Self |-> floor],
       tx <- StoreTx, draft <- StoreDraft

\* The plugin is a ReorgStore although it keeps no history but the log: a
\* handler reads the content after the block before its own, with its own
\* writes; a block's writes take effect together or not at all; invalidating,
\* restarting and pending blocks give back the old content; forgetting the log
\* of final blocks, and writing none for them, loses no content that can be
\* asked for again.
StoreSpec == Store!Spec
=============================================================================
