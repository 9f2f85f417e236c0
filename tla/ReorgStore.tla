------------------------------ MODULE ReorgStore ------------------------------
(***************************************************************************)
(* What a storage plugin promises to the indexers that use it: a          *)
(* key-value content that can be taken back to what it was after any      *)
(* block that is not final.                                               *)
(*                                                                         *)
(* asOf[i][n] is the content of indexer i after block n; -1 is the time   *)
(* before the first block.  A handler works on a draft that starts from   *)
(* the content after the last block that is not pending, and the draft    *)
(* becomes the content of the handler's block when, and only when, its    *)
(* transaction commits.  The history below a final block may be forgotten *)
(* and takes the final block's content.  The content of an indexer is     *)
(* emptied only when it starts.                                           *)
(***************************************************************************)
EXTENDS Integers

CONSTANTS
  Indexer,   \* the indexers that share the store
  Key, Value,
  Absent,    \* what a key without a value holds
  NoTx,      \* no transaction is open
  MaxBlock   \* bound on block numbers

Block == 0 .. MaxBlock
Point == -1 .. MaxBlock
Content == [Key -> Value \union {Absent}]
Nothing == [k \in Key |-> Absent]

VARIABLES
  active,  \* the indexers that have started and not stopped
  asOf,    \* the history of each indexer
  base,    \* the last block of each indexer that is not pending
  floor,   \* the last block each indexer was told is final
  tx,      \* whose block is being handled
  draft    \* the content its handler sees

vars == <<active, asOf, base, floor, tx, draft>>

Smaller(a, b) == IF a < b THEN a ELSE b
Larger(a, b) == IF a > b THEN a ELSE b

\* Everything after block c is undone.
Truncated(history, c) == [n \in Point |-> history[Smaller(n, c)]]

\* Everything before block c is forgotten.
Forgotten(history, c) == [n \in Point |-> history[Larger(n, c)]]

\* Block b follows block c, with its content.
Extended(history, c, b, content) ==
  [n \in Point |-> IF n < b THEN history[Smaller(n, c)] ELSE content]

Init ==
  /\ active = {}
  /\ asOf = [i \in Indexer |-> [n \in Point |-> Nothing]]
  /\ base \in [Indexer -> Point]
  /\ floor = [i \in Indexer |-> -1]
  /\ tx = NoTx
  /\ draft = Nothing

Begin(i, b, pending) ==
  /\ i \in active
  /\ tx = NoTx
  /\ base[i] < b
  /\ tx' = [indexer |-> i, block |-> b, pending |-> pending]
  /\ draft' = asOf[i][base[i]]
  /\ UNCHANGED <<active, asOf, base, floor>>

Write(k, v) ==
  /\ tx # NoTx
  /\ draft' = [draft EXCEPT ![k] = v]
  /\ UNCHANGED <<active, asOf, base, floor, tx>>

\* One statement writes several keys.
WriteAll(ks, v) ==
  /\ tx # NoTx
  /\ draft' = [k \in Key |-> IF k \in ks THEN v ELSE draft[k]]
  /\ UNCHANGED <<active, asOf, base, floor, tx>>

\* An indexer may have to stop although its block committed.
Commit ==
  /\ tx # NoTx
  /\ active' \in {active, active \ {tx.indexer}}
  /\ LET i == tx.indexer
     IN  /\ asOf' = [asOf EXCEPT ![i] =
                      Forgotten(Extended(@, base[i], tx.block, draft), floor[i])]
         /\ base' = [base EXCEPT ![i] = IF tx.pending THEN @ ELSE tx.block]
  /\ tx' = NoTx
  /\ draft' = Nothing
  /\ UNCHANGED floor

\* The handler fails, or every indexer stops with the process.
Rollback ==
  /\ tx # NoTx
  /\ active' \subseteq active
  /\ tx' = NoTx
  /\ draft' = Nothing
  /\ UNCHANGED <<asOf, base, floor>>

\* Nothing final is undone: c is not below the final block, or only a
\* pending block is after it.
Invalidate(i, c) ==
  /\ i \in active
  /\ tx = NoTx
  /\ c >= floor[i] \/ c >= base[i]
  /\ asOf' = [asOf EXCEPT ![i] = Truncated(@, c)]
  /\ base' = [base EXCEPT ![i] = Smaller(@, c)]
  /\ UNCHANGED <<active, floor, tx, draft>>

\* A pending block is not final: forgetting leaves the content under it.
Finalize(i, c) ==
  /\ tx = NoTx
  /\ asOf[i][Larger(c, base[i])] = asOf[i][base[i]]
  /\ asOf' = [asOf EXCEPT ![i] = Forgotten(@, c)]
  /\ floor' = [floor EXCEPT ![i] = Larger(@, c)]
  /\ UNCHANGED <<active, base, tx, draft>>

\* The indexer starts with its content.
Start(i) ==
  /\ i \notin active
  /\ active' = active \union {i}
  /\ UNCHANGED <<asOf, base, floor, tx, draft>>

\* The indexer starts over after block c.
Reset(i, c) ==
  /\ i \notin active
  /\ active' = active \union {i}
  /\ tx = NoTx
  /\ asOf' = [asOf EXCEPT ![i] = [n \in Point |-> Nothing]]
  /\ base' = [base EXCEPT ![i] = c]
  /\ UNCHANGED <<floor, tx, draft>>

\* Indexers end, or the process does.
Stop ==
  /\ active' \subseteq active
  /\ UNCHANGED <<asOf, base, floor, tx, draft>>

Next ==
  \/ \E i \in Indexer, b \in Block, pending \in BOOLEAN : Begin(i, b, pending)
  \/ \E v \in Value \union {Absent} :
       \/ \E k \in Key : Write(k, v)
       \/ \E ks \in SUBSET Key : WriteAll(ks, v)
  \/ Commit
  \/ Rollback
  \/ \E i \in Indexer : Start(i)
  \/ Stop
  \/ \E i \in Indexer, c \in Point :
       Invalidate(i, c) \/ Finalize(i, c) \/ Reset(i, c)

Spec == Init /\ [][Next]_vars
=============================================================================
