------------------------------ MODULE MongoStorage ------------------------------
(***************************************************************************)
(* mongoStorage (plugin-mongo/src): the collections of an indexer and its *)
(* checkpoint.                                                             *)
(*                                                                         *)
(* A document is a version of what the handler stores under a key: of the *)
(* content the key got in block from, until block to (Null while it is    *)
(* current).  Blocks are their order keys.  A handler inserts only keys   *)
(* it does not find; a filter of updateMany or deleteMany is the set of   *)
(* the keys it matches.  A reader of the database sees the committed      *)
(* documents.  The filters of the factory mode are in Indexer.             *)
(***************************************************************************)
EXTENDS Integers

CONSTANTS
  Key, Value,
  Absent,          \* what findOne answers for a key without a document (null)
  Null,            \* BSON's null
  NoTx,            \* no transaction is open
  MaxBlock,        \* bound on block numbers
  StartingCursor,  \* options.startingCursor, or Undefined
  Finalities,      \* the finality of the blocks the stream sends
  AlwaysReindex    \* the values APIBARA_ALWAYS_REINDEX takes

Undefined == -1
Block == 0 .. MaxBlock
Point == -1 .. MaxBlock
Finality == {"pending", "accepted"}
Transaction == [cursor : Point, endCursor : Block, finality : Finality]

ASSUME MongoAssumption ==
  /\ MaxBlock \in Nat
  /\ StartingCursor \in Point
  /\ Finalities \subseteq Finality
  /\ AlwaysReindex \subseteq BOOLEAN
  /\ Null \notin Int
  /\ Absent \notin Value
  /\ NoTx \notin Transaction
  /\ NoTx \notin [indexer : {"indexer"}, block : Block, pending : BOOLEAN]

VARIABLES
  docs,          \* the documents the open transaction sees
  saved,         \* the documents an aborted transaction leaves
  checkpoint,    \* the document of the indexer in checkpoints
  tx,            \* the message whose transaction handler:middleware has open
  prevFinality,  \* the plugin's prevFinality
  conn,          \* where run is
  pos,           \* the stream's position (external): the next cursor it sends
  head,          \* the last block it sent (external): pos, or a pending block
  floor          \* the last block it said is final (external)

stream == <<pos, head, floor>>
vars == <<docs, saved, checkpoint, tx, prevFinality, conn, pos, head, floor>>

Document == [k : Key, v : Value, from : Block, to : Block \union {Null}]

Smaller(a, b) == IF a < b THEN a ELSE b
Larger(a, b) == IF a > b THEN a ELSE b

-----------------------------------------------------------------------------
(* MongoCollection.  $gt and $lte compare numbers only: null is no match.  *)

Current(ds) == {d \in ds : d.to = Null}

\* Mutation: the collection was made without an end cursor.
MutantInsertion(k, v, b) == [k |-> k, v |-> v, from |-> Null, to |-> Null]

Insertion(k, v, b) == [k |-> k, v |-> v, from |-> b, to |-> Null]

\* Mutation: findOneAndUpdate returns the document after the update.
MutantUpdated(ds, ks, v, b) ==
  LET old == {d \in Current(ds) : d.k \in ks}
  IN  (ds \ old) \union {Insertion(d.k, v, b) : d \in old}
                 \union {[d EXCEPT !.v = v, !.from = b, !.to = b] : d \in old}

\* updateMany, and updateOne when ks is one key: the current document takes
\* the new content, a copy of it as it was ends.
Updated(ds, ks, v, b) ==
  LET old == {d \in Current(ds) : d.k \in ks}
  IN  (ds \ old) \union {Insertion(d.k, v, b) : d \in old}
                 \union {[d EXCEPT !.to = b] : d \in old}

\* deleteMany, deleteOne
Deleted(ds, ks, b) ==
  {IF d.k \in ks /\ d.to = Null THEN [d EXCEPT !.to = b] ELSE d : d \in ds}

FirstOf(values) == IF values = {} THEN Absent ELSE CHOOSE v \in values : TRUE

\* findOne
FindOne(ds, k) == FirstOf({d.v : d \in {e \in Current(ds) : e.k = k}})

\* invalidate
Invalidate(ds, c) ==
  {IF d.to # Null /\ d.to > c THEN [d EXCEPT !.to = Null] ELSE d :
     d \in {e \in ds : e.from <= c}}

\* finalize
Finalize(ds, c) == {d \in ds : ~(d.to # Null /\ d.to <= c)}

-----------------------------------------------------------------------------
Init ==
  /\ docs = {}
  /\ saved = {}
  /\ checkpoint = Undefined
  /\ tx = NoTx
  /\ prevFinality = "none"
  /\ conn = "stopped"
  /\ pos = StartingCursor
  /\ head = StartingCursor
  /\ floor = Undefined

\* withTransaction around statements that do not wait.
Transact(ds) == tx = NoTx /\ docs' = ds /\ saved' = ds /\ UNCHANGED tx

\* plugins:init
Initialize ==
  /\ conn = "stopped"
  /\ \E reindex \in AlwaysReindex :
       IF reindex
       THEN /\ Transact({})
            /\ checkpoint' = Undefined
            /\ pos' = StartingCursor
            /\ head' = StartingCursor
       ELSE Transact(docs) /\ UNCHANGED <<checkpoint, pos, head>>
  /\ conn' = "initialized"
  /\ UNCHANGED <<prevFinality, floor>>

\* connect:before: the checkpoint takes the place of the starting cursor.
RequestedCursor == IF checkpoint = Undefined THEN StartingCursor ELSE checkpoint

(* connect:before and connect:after.  When the cursor left the chain the   *)
(* stream begins with an invalidate message.                               *)
Connect ==
  /\ conn = "initialized"
  /\ Transact(IF RequestedCursor = Undefined THEN docs
              ELSE Invalidate(docs, RequestedCursor))
  /\ IF RequestedCursor > pos
     THEN conn' = "rewinding" /\ UNCHANGED head
     ELSE conn' = "running" /\ head' = pos
  /\ UNCHANGED <<checkpoint, prevFinality, pos, floor>>

Connected == conn \in {"rewinding", "running"}

-----------------------------------------------------------------------------
(* handler:middleware *)

\* A data message (external): the block follows pos; a pending block is
\* the last one and not final.
Sends(b, finality) ==
  /\ conn = "running" /\ tx = NoTx
  /\ b > pos
  /\ finality = "pending" => b > floor

\* Without a cursor, invalidate(db, session, undefined, ...) throws.
BeginBlock(b, finality) ==
  /\ Sends(b, finality)
  /\ IF prevFinality = "pending" /\ pos = Undefined
     THEN conn' = "stopped" /\ UNCHANGED <<docs, tx>>
     ELSE /\ tx' = [cursor |-> pos, endCursor |-> b, finality |-> finality]
          /\ docs' = IF prevFinality = "pending" THEN Invalidate(docs, pos) ELSE docs
          /\ UNCHANGED conn
  /\ UNCHANGED <<saved, checkpoint, prevFinality, stream>>

Statement(ds) ==
  /\ tx # NoTx
  /\ docs' = ds
  /\ UNCHANGED <<saved, checkpoint, tx, prevFinality, conn, stream>>

\* insertOne, insertMany
InsertMany(ks, v) ==
  /\ \A k \in ks : FindOne(docs, k) = Absent
  /\ Statement(docs \union {Insertion(k, v, tx.endCursor) : k \in ks})

UpdateMany(ks, v) == Statement(Updated(docs, ks, v, tx.endCursor))

DeleteMany(ks) == Statement(Deleted(docs, ks, tx.endCursor))

\* After next(): persistState, prevFinality; then the commit.
Commit ==
  /\ tx # NoTx
  /\ IF tx.finality = "pending" THEN UNCHANGED <<checkpoint, pos>>
     ELSE checkpoint' = tx.endCursor /\ pos' = tx.endCursor
  /\ prevFinality' = tx.finality
  /\ head' = tx.endCursor
  /\ saved' = docs
  /\ tx' = NoTx
  /\ UNCHANGED <<docs, floor>>

Continue == conn' = conn
Stop == conn' = "stopped"

\* The commit is done, but the driver never learns it and throws.
CommitUnanswered == Commit /\ Stop

Abort ==
  /\ tx # NoTx
  /\ docs' = saved
  /\ tx' = NoTx
  /\ UNCHANGED <<saved, checkpoint, stream>>

\* The rest of the middleware throws.
HandlerFails == Abort /\ Stop /\ UNCHANGED prevFinality

\* Mutation: the callback runs again without the rest of the middleware.
MutantAfterFailedCommit == Continue

\* The callback runs again and next() throws "next() called multiple times".
AfterFailedCommit == Stop

\* The commit fails with a transient error after the callback has set
\* prevFinality.
CommitFails ==
  /\ Abort
  /\ prevFinality' = tx.finality
  /\ AfterFailedCommit

-----------------------------------------------------------------------------
(* message:invalidate and message:finalize *)

MessageInvalidate(c) ==
  /\ Connected
  /\ StartingCursor <= c /\ c <= pos
  /\ c >= floor \/ c = pos
  /\ Transact(Invalidate(docs, c))
  /\ pos' = c
  /\ head' = c
  /\ conn' = "running"
  /\ UNCHANGED <<checkpoint, prevFinality, floor>>

\* Finality may be ahead of the blocks sent, but never reaches a pending one.
MessageFinalize(c) ==
  /\ Connected
  /\ head # pos => c < head
  /\ Transact(Finalize(docs, c))
  /\ floor' = Larger(floor, c)
  /\ UNCHANGED <<checkpoint, prevFinality, conn, pos, head>>

\* The stream ends or fails; the process may call run again.
Disconnect ==
  /\ Connected
  /\ tx = NoTx
  /\ Stop
  /\ UNCHANGED <<docs, saved, checkpoint, tx, prevFinality, stream>>

\* The process ends: the server aborts the open transaction.
Crash ==
  /\ docs' = saved
  /\ tx' = NoTx
  /\ Stop
  /\ prevFinality' = "none"
  /\ UNCHANGED <<saved, checkpoint, stream>>

Next ==
  \/ Initialize
  \/ Connect
  \/ \E b \in Block, finality \in Finalities : BeginBlock(b, finality)
  \/ \E ks \in SUBSET Key :
       (\E v \in Value : InsertMany(ks, v) \/ UpdateMany(ks, v)) \/ DeleteMany(ks)
  \/ Commit /\ Continue
  \/ CommitUnanswered
  \/ CommitFails
  \/ HandlerFails
  \/ \E c \in Block : MessageInvalidate(c) \/ MessageFinalize(c)
  \/ Disconnect
  \/ Crash

Spec == Init /\ [][Next]_vars

-----------------------------------------------------------------------------
\* The variables keep their types: documents that begin at a block, and end at
\* a block if at all, checkpoints and cursors that are blocks.
TypeOK ==
  /\ docs \subseteq Document
  /\ saved \subseteq Document
  /\ checkpoint \in Point
  /\ tx \in Transaction \union {NoTx}
  /\ prevFinality \in Finality \union {"none"}
  /\ conn \in {"stopped", "initialized", "rewinding", "running"}
  /\ pos \in Point
  /\ head \in Point
  /\ floor \in Point

ValidAt(d, n) == d.from <= n /\ (d.to = Null \/ n < d.to)

\* The data of a pending block is never taken for good: while a stream runs,
\* documents of a block after its position are in the database only if the
\* plugin remembers that the block was pending, although it updates that
\* memory before the commit and a failed commit does not undo it.
PendingRemembered ==
  conn = "running" /\ tx = NoTx /\ (\E d \in saved : d.from > pos) =>
    prevFinality = "pending"

-----------------------------------------------------------------------------
(* The store this implements, with one indexer.  The content after block n  *)
(* is in the documents valid at n, or at the final block when n is below it. *)

Self == {"indexer"}

ValuesAt(ds, k, n) == {d.v : d \in {e \in ds : e.k = k /\ ValidAt(e, n)}}

History(ds, final) ==
  [n \in Point |-> [k \in Key |-> FirstOf(ValuesAt(ds, k, Larger(n, final)))]]

StoreTx ==
  IF tx = NoTx THEN NoTx
  ELSE [indexer |-> "indexer", block |-> tx.endCursor,
        pending |-> tx.finality = "pending"]

StoreDraft == [k \in Key |-> IF tx = NoTx THEN Absent ELSE FindOne(docs, k)]

Active == IF conn = "stopped" THEN {} ELSE Self

Store == INSTANCE ReorgStore
  WITH Indexer <- Self,
       active <- Active,
       asOf <- [i \in Self |-> History(saved, floor)],
       base <- [i \in Self |-> pos],
       floor <- [i \in Self |-> floor],
       tx <- StoreTx, draft <- StoreDraft

\* The plugin is a ReorgStore: a handler reads the content after the block
\* before its own, with its own writes; a block's writes take effect together
\* or not at all, whatever the driver does with its transaction; invalidating,
\* restarting and pending blocks give back the old content; finalizing changes
\* no content that can be asked for again.
StoreSpec == Store!Spec
=============================================================================
