-------------------------- MODULE DrizzleStorageProofs --------------------------
(***************************************************************************)
(* DrizzleStorage implements ReorgStore, for any keys, values and number  *)
(* of blocks and log rows.                                                 *)
(***************************************************************************)
EXTENDS DrizzleStorage, WellFoundedInduction, TLAPS

(* The indexer starts from a cursor.  Otherwise a restart before the first *)
(* checkpoint keeps the rows of a pending block, and their log.            *)
Clean == StartingCursor # Undefined

-----------------------------------------------------------------------------
(* Contents that a log restores.                                           *)

LEMMA Numbers ==
  /\ \A b \in Block : b \in Point /\ b \in Int /\ b >= 0
  /\ \A n \in Point : n \in Int /\ n >= -1 /\ (n # Undefined => n \in Block)
  /\ Undefined \in Point /\ StartingCursor \in Point
  /\ \A n \in Serial : n \in Nat /\ n \in Int
BY DrizzleAssumption DEF Block, Point, Undefined, Serial

LEMMA LogRowType ==
  ASSUME NEW e \in LogRow
  PROVE  /\ e.n \in Serial /\ e.n \in Int /\ e.k \in Key
         /\ e.cursor \in Block /\ e.cursor \in Int /\ e.old \in Value \union {Absent}
BY Numbers DEF LogRow

LEMMA Maximum ==
  ASSUME NEW m \in Point, NEW n \in Point
  PROVE  /\ Larger(m, n) \in Point /\ Larger(m, n) >= m /\ Larger(m, n) >= n
         /\ Larger(m, n) \in {m, n}
BY Numbers DEF Larger

\* The content of a key after block n, from the tables r and the log l.
Reads(r, l, k, n) ==
  IF Later(l, k, n) = {} THEN r[k]
  ELSE (CHOOSE e \in Later(l, k, n) : \A f \in Later(l, k, n) : e.n <= f.n).old

LEMMA ContentIsRead ==
  ASSUME NEW s, NEW k, NEW n
  PROVE  ContentAt(s, k, n) = Reads(s.rows, s.log, k, n)
BY DEF ContentAt, Reads

\* Serial numbers are unique, and in the order of the blocks.
Ordered(l) ==
  /\ l \subseteq LogRow
  /\ \A e, f \in l : (e.n = f.n => e = f) /\ (e.n < f.n => e.cursor <= f.cursor)

LEMMA OrderedSub ==
  ASSUME NEW l, Ordered(l), NEW m, m \subseteq l
  PROVE  Ordered(m)
BY DEF Ordered

\* There is an oldest row.
LEMMA OldestRow ==
  ASSUME NEW l, l \subseteq LogRow, l # {}
  PROVE  \E e \in l : \A f \in l : e.n <= f.n
<1> DEFINE S == {e.n : e \in l}
<1>1. S \subseteq Nat /\ S # {}
  BY LogRowType, Numbers
<1> HIDE DEF S
<1>2. PICK m \in S : \A n \in S : ~(<<n, m>> \in OpToRel(<, Nat))
  BY <1>1, NatLessThanWellFounded, WFMin
<1>3. ASSUME NEW n \in S
      PROVE  m <= n
  <2>1. <<n, m>> \in Nat \X Nat
    BY <1>1
  <2>2. ~(<<n, m>>[1] < <<n, m>>[2])
    BY <1>2, <2>1, Zenon DEF OpToRel
  <2> QED
    BY <1>1, <2>2
<1> QED
  BY <1>3 DEF S

\* The oldest row of a later block says what the content was.
LEMMA ReadsOldest ==
  ASSUME NEW l, Ordered(l), NEW r, NEW k, NEW n, NEW e \in Later(l, k, n),
         \A f \in Later(l, k, n) : e.n <= f.n
  PROVE  Reads(r, l, k, n) = e.old
<1> DEFINE least == CHOOSE f \in Later(l, k, n) : \A g \in Later(l, k, n) : f.n <= g.n
<1>1. least \in Later(l, k, n) /\ \A g \in Later(l, k, n) : least.n <= g.n
  OBVIOUS
<1> HIDE DEF least
<1>2. least \in l /\ e \in l /\ least \in LogRow /\ e \in LogRow
  BY <1>1 DEF Later, Ordered
<1>3. least.n = e.n
  BY <1>1, <1>2, LogRowType
<1>4. least = e
  BY <1>2, <1>3 DEF Ordered
<1> QED
  BY <1>4 DEF Reads, least

\* Without one the tables have it.
LEMMA ReadsTables ==
  ASSUME NEW l, NEW r, NEW k, NEW n, \A e \in l : e.k = k => ~(e.cursor > n)
  PROVE  Reads(r, l, k, n) = r[k]
BY DEF Reads, Later

LEMMA ReadsLater ==
  ASSUME NEW l, NEW m, NEW r, NEW k, NEW n, Later(l, k, n) = Later(m, k, n)
  PROVE  Reads(r, l, k, n) = Reads(r, m, k, n)
BY DEF Reads

\* The content is the same at two blocks when no row is of a block between.
LEMMA ReadsSame ==
  ASSUME NEW l, NEW r, NEW k, NEW m, NEW n,
         \A e \in l : e.cursor > m <=> e.cursor > n
  PROVE  Reads(r, l, k, m) = Reads(r, l, k, n)
<1>1. Later(l, k, m) = Later(l, k, n)
  BY DEF Later
<1> QED
  BY <1>1 DEF Reads

\* Undoing the newest row changes no content of a block before it.
LEMMA UndoReads ==
  ASSUME NEW l, Ordered(l), NEW r \in Content, NEW e \in l, \A f \in l : f.n <= e.n,
         NEW k \in Key, NEW n \in Point, n < e.cursor
  PROVE  Reads([r EXCEPT ![e.k] = e.old], l \ {e}, k, n) = Reads(r, l, k, n)
<1> DEFINE q == [r EXCEPT ![e.k] = e.old]
           m == l \ {e}
<1>1. e \in LogRow /\ Ordered(m) /\ m \subseteq LogRow
  BY DEF Ordered
<1>2. /\ e.k \in Key /\ e.cursor > n
      /\ q[e.k] = e.old /\ (k # e.k => q[k] = r[k])
  BY <1>1, LogRowType, Numbers DEF Content
<1>3. Later(m, k, n) = Later(l, k, n) \ {e} /\ Later(m, k, n) \subseteq m
  BY DEF Later
<1> HIDE DEF q, m
<1>4. \A f \in Later(l, k, n) : f.k = k /\ f \in l
  BY DEF Later
<1>5. CASE k # e.k
  <2>1. Later(m, k, n) = Later(l, k, n)
    BY <1>3, <1>5, <1>4
  <2>2. q[k] = r[k]
    BY <1>2, <1>5
  <2>3. Reads(q, m, k, n) = Reads(r, l, k, n)
    BY <2>1, <2>2 DEF Reads
  <2> QED
    BY <2>3 DEF q, m
<1>6. CASE k = e.k
  <2>1. e \in Later(l, k, n)
    BY <1>2, <1>6 DEF Later
  <2>2. CASE Later(l, k, n) = {e}
    <3>1. Reads(r, l, k, n) = e.old
      BY <1>1, <2>1, <2>2, ReadsOldest, LogRowType
    <3>2. Later(m, k, n) = {}
      BY <1>3, <2>2
    <3>3. Reads(q, m, k, n) = q[k]
      BY <3>2 DEF Reads
    <3> QED
      BY <1>2, <1>6, <3>1, <3>3 DEF q, m
  <2>3. CASE Later(l, k, n) # {e}
    <3>1. Later(m, k, n) # {} /\ Later(m, k, n) \subseteq LogRow
      BY <1>1, <1>3, <2>1, <2>3 DEF Later
    <3>2. PICK f \in Later(m, k, n) : \A g \in Later(m, k, n) : f.n <= g.n
      BY <3>1, OldestRow
    <3>3. f \in Later(l, k, n) /\ f \in l
      BY <1>3 DEF Later
    <3>4. \A g \in Later(l, k, n) : f.n <= g.n
      BY <1>3, <3>2, <3>3
    <3>5. Reads(r, l, k, n) = f.old
      BY <3>3, <3>4, ReadsOldest
    <3>6. Reads(q, m, k, n) = f.old
      BY <1>1, <3>2, ReadsOldest
    <3> QED
      BY <3>5, <3>6 DEF q, m
  <2> QED
    BY <2>2, <2>3
<1> QED
  BY <1>5, <1>6

\* Nor does a statement that is logged.
LEMMA LogReads ==
  ASSUME NEW l, NEW r \in Content, NEW f, f \notin l, Ordered(l \union {f}),
         \A e \in l : e.n <= f.n, f.old = r[f.k], NEW v \in Value \union {Absent},
         NEW k \in Key, NEW n \in Point, n < f.cursor
  PROVE  Reads([r EXCEPT ![f.k] = v], l \union {f}, k, n) = Reads(r, l, k, n)
<1> DEFINE q == [r EXCEPT ![f.k] = v]
<1>1. f \in LogRow /\ f.k \in Key /\ f.n <= f.n
  BY LogRowType DEF Ordered
<1>2. q \in Content
  BY <1>1 DEF Content
<1>3. [q EXCEPT ![f.k] = f.old] = r
  BY <1>1 DEF Content
<1>4. (l \union {f}) \ {f} = l
  OBVIOUS
<1> HIDE DEF q
<1>5. \A e \in l \union {f} : e.n <= f.n
  BY <1>1, LogRowType, Numbers DEF Ordered
<1>6. Reads([q EXCEPT ![f.k] = f.old], (l \union {f}) \ {f}, k, n) = Reads(q, l \union {f}, k, n)
  BY <1>2, <1>5, UndoReads
<1> QED
  BY <1>3, <1>4, <1>6 DEF q

-----------------------------------------------------------------------------
(* Logs whose rows undo each other's statements.                           *)

\* The rows that may still be undone, with the final block.
Live(l, final) == {e \in l : e.cursor > final}

Newest(l, e) == \A f \in l : f.k = e.k => f.n <= e.n

Follows(l, e, f) ==
  e.k = f.k /\ e.n < f.n /\ \A g \in l : g.k = e.k => ~(e.n < g.n /\ g.n < f.n)

\* Every row finds its key as its statement left it: empty after a DELETE,
\* with a row after the others; in the tables r if it is the newest of its
\* key, and else in what the row that follows it restores.
Linked(l, r) ==
  \A e \in l :
    /\ Newest(l, e) => (e.op = "D" <=> r[e.k] = Absent)
    /\ \A f \in l : Follows(l, e, f) => (e.op = "D" <=> f.old = Absent)

\* When more blocks become final the oldest rows drop out.
LEMMA LinkedFinal ==
  ASSUME NEW l, Ordered(l), NEW r, NEW m \in Point, NEW n \in Point, m <= n,
         Linked(Live(l, m), r)
  PROVE  Linked(Live(l, n), r)
<1>1. l \subseteq LogRow /\ m \in Int /\ n \in Int
  BY Numbers DEF Ordered
<1>2. ASSUME NEW e \in Live(l, n), NEW g \in Live(l, m), e.n < g.n
      PROVE  g \in Live(l, n)
  <2>1. e.cursor <= g.cursor /\ e \in LogRow /\ g \in LogRow
    BY <1>1, <1>2 DEF Live, Ordered
  <2> QED
    BY <1>1, <2>1, LogRowType DEF Live
<1>3. Live(l, n) \subseteq Live(l, m) /\ Live(l, m) \subseteq LogRow
  BY <1>1, LogRowType DEF Live
<1>4. ASSUME NEW e \in Live(l, n)
      PROVE  /\ Newest(Live(l, n), e) => Newest(Live(l, m), e)
             /\ \A f \in Live(l, n) : Follows(Live(l, n), e, f) => Follows(Live(l, m), e, f)
  <2>1. ASSUME NEW g \in Live(l, m), g \notin Live(l, n)
        PROVE  g.n <= e.n
    <3>1. e.n \in Int /\ g.n \in Int
      BY <1>3, LogRowType
    <3> QED
      BY <1>2, <2>1, <3>1
  <2>2. \A g \in Live(l, m) : g.n \in Int
    BY <1>3, LogRowType
  <2>3. e.n \in Int
    BY <1>3, <2>2
  <2> QED
    BY <1>3, <2>1, <2>2, <2>3 DEF Newest, Follows
<1> QED
  BY <1>3, <1>4 DEF Linked

\* The newest row is undone.
LEMMA LinkedUndo ==
  ASSUME NEW l, Ordered(l), NEW r \in Content, NEW e \in l, \A f \in l : f.n <= e.n,
         Linked(l, r)
  PROVE  Linked(l \ {e}, [r EXCEPT ![e.k] = e.old])
<1> DEFINE q == [r EXCEPT ![e.k] = e.old]
           m == l \ {e}
<1>1. /\ m \subseteq l /\ \A f \in l : f \in m \/ f = e
      /\ \A f \in l : f.n \in Int /\ f.k \in Key
  BY LogRowType DEF Ordered
<1>2. \A f \in m : f.n < e.n
  BY <1>1 DEF Ordered
<1>3. q[e.k] = e.old /\ \A k \in Key : k # e.k => q[k] = r[k]
  BY <1>1 DEF Content
<1> HIDE DEF q, m
<1>4. ASSUME NEW g \in m, Newest(m, g)
      PROVE  g.op = "D" <=> q[g.k] = Absent
  <2>1. CASE g.k = e.k
    <3>1. Follows(l, g, e)
      BY <1>1, <1>2, <1>4, <2>1 DEF Follows, Newest
    <3> QED
      BY <1>1, <1>3, <2>1, <3>1 DEF Linked
  <2>2. CASE g.k # e.k
    <3>1. Newest(l, g)
      BY <1>1, <1>4, <2>2 DEF Newest
    <3> QED
      BY <1>1, <1>3, <2>2, <3>1 DEF Linked
  <2> QED
    BY <2>1, <2>2
<1>5. ASSUME NEW g \in m, NEW f \in m, Follows(m, g, f)
      PROVE  g.op = "D" <=> f.old = Absent
  <2>1. Follows(l, g, f)
    BY <1>1, <1>2, <1>5 DEF Follows
  <2> QED
    BY <1>1, <2>1 DEF Linked
<1>6. Linked(m, q)
  BY <1>4, <1>5 DEF Linked
<1> QED
  BY <1>6 DEF m, q

\* A statement is logged.
LEMMA LinkedLog ==
  ASSUME NEW l, NEW r \in Content, NEW f, f \notin l, Ordered(l \union {f}),
         \A e \in l : e.n < f.n, f.old = r[f.k], NEW v, f.op = "D" <=> v = Absent,
         Linked(l, r)
  PROVE  Linked(l \union {f}, [r EXCEPT ![f.k] = v])
<1> DEFINE q == [r EXCEPT ![f.k] = v]
           m == l \union {f}
<1>1. /\ \A e \in m : e.n \in Int /\ e.k \in Key
      /\ l \subseteq m /\ f \in m /\ \A e \in m : e \in l \/ e = f
  BY LogRowType DEF Ordered
<1>2. q[f.k] = v /\ \A k \in Key : k # f.k => q[k] = r[k]
  BY <1>1 DEF Content
<1> HIDE DEF q, m
<1>3. ASSUME NEW e \in m, Newest(m, e)
      PROVE  e.op = "D" <=> q[e.k] = Absent
  <2>1. CASE e = f
    BY <1>2, <2>1
  <2>2. CASE e # f
    <3>1. e \in l /\ e.k # f.k
      BY <1>1, <1>3, <2>2 DEF Newest
    <3>2. Newest(l, e)
      BY <1>1, <1>3 DEF Newest
    <3> QED
      BY <1>1, <1>2, <3>1, <3>2 DEF Linked
  <2> QED
    BY <2>1, <2>2
<1>4. ASSUME NEW e \in m, NEW g \in m, Follows(m, e, g)
      PROVE  e.op = "D" <=> g.old = Absent
  <2>1. e \in l
    BY <1>1, <1>4 DEF Follows
  <2>2. CASE g = f
    <3>1. Newest(l, e)
      BY <1>1, <1>4, <2>1, <2>2 DEF Follows, Newest
    <3> QED
      BY <1>4, <2>1, <2>2, <3>1 DEF Linked, Follows
  <2>3. CASE g # f
    <3>1. g \in l /\ Follows(l, e, g)
      BY <1>1, <1>4, <2>3 DEF Follows
    <3> QED
      BY <2>1, <3>1 DEF Linked
  <2> QED
    BY <2>2, <2>3
<1>5. Linked(m, q)
  BY <1>3, <1>4 DEF Linked
<1> QED
  BY <1>5 DEF m, q

-----------------------------------------------------------------------------
(* Types.                                                                  *)

\* Only blocks are handled and gone back to.
TypeInv == TypeOK /\ (tx # NoTx => tx.endCursor \in Block)

LEMMA TxFields ==
  ASSUME TypeOK, tx # NoTx
  PROVE  /\ tx \in Transaction
         /\ tx.hook \in Hook /\ tx.cursor \in Point
         /\ tx.endCursor \in Point /\ tx.finality \in Finality
BY DEF TypeOK, Transaction

LEMMA TxOf ==
  ASSUME NEW hook \in Hook, NEW c \in Point, NEW b \in Point, NEW finality \in Finality
  PROVE  LET t == [hook |-> hook, cursor |-> c, endCursor |-> b, finality |-> finality]
         IN  /\ t \in Transaction /\ t # NoTx
             /\ t.hook = hook /\ t.cursor = c /\ t.endCursor = b /\ t.finality = finality
BY DrizzleAssumption DEF Transaction

\* The row a statement logs.
Logged(n, op, k) ==
  [n |-> n, op |-> op, k |-> k, cursor |-> tx.endCursor, old |-> rows[k]]

\* A statement is logged as the newest row, or not at all.
LEMMA Executed ==
  ASSUME TypeOK, tx.endCursor \in Block, NEW op \in {"I", "U", "D"}, NEW k \in Key,
         NEW v \in Value \union {Absent}, Execute(op, k, v)
  PROVE  /\ rows' = [rows EXCEPT ![k] = v] /\ rows' \in Content
         /\ log' \subseteq LogRow
         /\ \/ ~(triggers /\ OrderKeySet) /\ log' = log
            \/ \E n \in Serial :
                 /\ log' = log \union {Logged(n, op, k)}
                 /\ Logged(n, op, k) \in LogRow
                 /\ \A e \in log : e.n < n
<1>1. rows' = [rows EXCEPT ![k] = v] /\ rows' \in Content
  BY DEF Execute, TypeOK, Content
<1>2. CASE triggers /\ OrderKeySet
  <2>1. PICK n \in Serial : NextSerial(n) /\ log' = log \union {Logged(n, op, k)}
    BY <1>2 DEF Execute, Logged
  <2>2. rows[k] \in Value \union {Absent}
    BY DEF TypeOK, Content
  <2>3. Logged(n, op, k) \in LogRow
    BY <2>2 DEF Logged, LogRow
  <2> QED
    BY <1>1, <2>1, <2>3 DEF NextSerial, TypeOK
<1>3. CASE ~(triggers /\ OrderKeySet)
  BY <1>1, <1>3 DEF Execute, TypeOK
<1> QED
  BY <1>2, <1>3

\* What a hook or a handler does to the tables.
LEMMA CommittedType ==
  ASSUME TypeOK
  PROVE  Committed \in [rows : Content, log : SUBSET LogRow, triggers : BOOLEAN,
                        checkpoint : Point]
BY DEF Committed, TypeOK

LEMMA RollbackType ==
  ASSUME TypeOK, ROLLBACK
  PROVE  /\ rows' \in Content /\ log' \subseteq LogRow
         /\ triggers' \in BOOLEAN /\ checkpoint' \in Point /\ saved' = saved
BY DEF TypeOK, ROLLBACK

LEMMA InvalidateType ==
  ASSUME TypeInv, NEW hook \in Hook, NEW c \in Point, NEW b \in Block,
         NEW finality \in Finality, Invalidate(hook, c, b, finality), UNCHANGED conn
  PROVE  TypeInv'
<1> DEFINE t == [hook |-> hook, cursor |-> c, endCursor |-> b, finality |-> finality]
<1>1. t \in Transaction /\ t.endCursor = b
  BY TxOf, Numbers
<1>2. tx' = t
  BY DEF Invalidate
<1> HIDE DEF t
<1> QED
  BY <1>1, <1>2 DEF Invalidate, TypeInv, TypeOK, After, plugin, stream

LEMMA StatementType ==
  ASSUME TypeInv, NEW op \in {"I", "U", "D"}, NEW k \in Key,
         NEW v \in Value \union {Absent}, Statement(op, k, v)
  PROVE  TypeInv'
<1>1. tx # NoTx /\ tx.endCursor \in Block /\ Execute(op, k, v)
  BY DEF Statement, InBlock, TypeInv
<1>2. rows' \in Content /\ log' \subseteq LogRow
  BY <1>1, Executed DEF TypeInv
<1> QED
  BY <1>2 DEF Statement, TypeInv, TypeOK, plugin, stream

LEMMA UndoStepType ==
  ASSUME TypeInv, UndoStep
  PROVE  TypeInv'
<1>1. PICK e \in undo :
        IF Misses(e) /\ e.op = "D" THEN Throw
        ELSE /\ IF Misses(e) THEN UNCHANGED <<rows, log>>
                ELSE Execute(Inverse(e.op), e.k, e.old)
             /\ undo' = undo \ {e}
             /\ UNCHANGED <<triggers, checkpoint, saved, tx, conn>>
  BY DEF UndoStep
<1>2. tx # NoTx /\ tx.endCursor \in Block /\ UNCHANGED <<plugin, stream>> /\ TypeOK
  BY DEF UndoStep, TypeInv
<1>3. e.k \in Key /\ e.old \in Value \union {Absent} /\ Inverse(e.op) \in {"I", "U", "D"}
  BY <1>2, LogRowType DEF TypeOK, Inverse
<1>4. CASE Throw
  BY <1>2, <1>4, RollbackType DEF Throw, Stop, TypeInv, TypeOK, plugin, stream
<1>5. CASE /\ IF Misses(e) THEN UNCHANGED <<rows, log>>
              ELSE Execute(Inverse(e.op), e.k, e.old)
           /\ undo' = undo \ {e}
           /\ UNCHANGED <<triggers, checkpoint, saved, tx, conn>>
  <2>1. rows' \in Content /\ log' \subseteq LogRow
    BY <1>2, <1>3, <1>5, Executed DEF TypeOK
  <2> QED
    BY <1>2, <1>5, <2>1 DEF TypeInv, TypeOK, plugin, stream
<1> QED
  BY <1>1, <1>4, <1>5

\* A transaction commits.
LEMMA CommitType ==
  ASSUME COMMIT, rows' \in Content, log' \subseteq LogRow, triggers' \in BOOLEAN,
         checkpoint' \in Point
  PROVE  saved' \in [rows : Content, log : SUBSET LogRow, triggers : BOOLEAN,
                     checkpoint : Point]
BY DEF COMMIT

LEMMA TypeInit == Init => TypeInv /\ Committed = saved
<1> SUFFICES ASSUME Init PROVE TypeInv /\ Committed = saved
  OBVIOUS
<1>1. [k \in Key |-> Absent] \in Content
  BY DEF Content
<1>2. saved = Committed
  BY DEF Init
<1>3. Committed \in [rows : Content, log : SUBSET LogRow, triggers : BOOLEAN,
                    checkpoint : Point]
  BY <1>1, Numbers DEF Init, Committed
<1> QED
  BY <1>1, <1>2, <1>3, Numbers DEF Init, TypeInv, TypeOK

\* The types are kept.
LEMMA TypeStep == TypeInv /\ [Next]_vars => TypeInv'
<1> SUFFICES ASSUME TypeInv, [Next]_vars PROVE TypeInv'
  OBVIOUS
<1>0. TypeOK
  BY DEF TypeInv
<1>1. CASE Initialize
  <2>1. CASE UNCHANGED <<db, saved, pos, head>>
    BY <1>1, <2>1 DEF Initialize, ResetFlags, db, TypeInv, TypeOK
  <2>2. CASE /\ rows' = [k \in Key |-> Absent] /\ log' = {} /\ triggers' = FALSE
             /\ checkpoint' = Undefined /\ COMMIT
             /\ pos' = StartingCursor /\ head' = StartingCursor
    <3>1. rows' \in Content
      BY <2>2 DEF Content
    <3>2. saved' \in [rows : Content, log : SUBSET LogRow, triggers : BOOLEAN,
                     checkpoint : Point]
      BY <2>2, <3>1, CommitType, Numbers
    <3> QED
      BY <1>1, <2>2, <3>1, <3>2, Numbers DEF Initialize, ResetFlags, TypeInv, TypeOK
  <2> QED
    BY <1>1, <2>1, <2>2 DEF Initialize
<1>2. CASE Connect
  <2>1. RequestedCursor \in Point
    BY <1>0, Numbers DEF RequestedCursor, TypeOK
  <2>2. CASE RequestedCursor = Undefined
    BY <1>2, <2>2 DEF Connect, db, plugin, TypeInv, TypeOK
  <2>3. CASE RequestedCursor # Undefined
    <3>1. RequestedCursor \in Block
      BY <2>1, <2>3, Numbers
    <3>2. Invalidate("connect", RequestedCursor, RequestedCursor, "accepted") /\ UNCHANGED conn
      BY <1>2, <2>3 DEF Connect
    <3> QED
      BY <2>1, <3>1, <3>2, InvalidateType DEF Hook, Undoing, Finality
  <2> QED
    BY <2>2, <2>3
<1>3. CASE ConnectDone \/ MessageInvalidateDone
  <2>1. tx # NoTx /\ tx.cursor \in Point
    BY <1>0, <1>3, TxFields DEF ConnectDone, MessageInvalidateDone, Undone
  <2>2. /\ UNCHANGED <<rows, log, triggers, undo, plugin, floor>> /\ COMMIT /\ tx' = NoTx
        /\ checkpoint' = (IF checkpoint = Undefined THEN Undefined ELSE tx.cursor)
        /\ conn' \in {conn, "running"}
        /\ pos' \in {pos, tx.cursor} /\ head' \in {pos, tx.cursor}
    BY <1>3 DEF ConnectDone, MessageInvalidateDone, InvalidateState
  <2>3. checkpoint' \in Point /\ rows' \in Content /\ log' \subseteq LogRow /\ triggers' \in BOOLEAN
    BY <1>0, <2>1, <2>2, Numbers DEF TypeOK
  <2>4. saved' \in [rows : Content, log : SUBSET LogRow, triggers : BOOLEAN,
                   checkpoint : Point]
    BY <2>2, <2>3, CommitType
  <2> QED
    BY <2>1, <2>2, <2>3, <2>4 DEF TypeInv, TypeOK, plugin
<1>4. ASSUME NEW c \in Block, MessageInvalidate(c)
      PROVE  TypeInv'
  BY <1>4, InvalidateType, Numbers DEF MessageInvalidate, Hook, Undoing, Finality
<1>5. ASSUME NEW c \in Block, MessageFinalize(c)
      PROVE  TypeInv'
  <2>1. log' \subseteq LogRow /\ rows' \in Content /\ triggers' \in BOOLEAN /\ checkpoint' \in Point
    BY <1>0, <1>5 DEF MessageFinalize, Finalize, TypeOK
  <2>2. saved' \in [rows : Content, log : SUBSET LogRow, triggers : BOOLEAN,
                   checkpoint : Point]
    BY <1>5, <2>1, CommitType DEF MessageFinalize
  <2> QED
    BY <1>5, <2>1, <2>2 DEF MessageFinalize, plugin, stream, TypeInv, TypeOK
<1>6. ASSUME NEW c \in Block, ChainFinalizes(c)
      PROVE  TypeInv'
  BY <1>6, Numbers DEF ChainFinalizes, db, plugin, TypeInv, TypeOK
<1>7. CASE UndoStep
  BY <1>7, UndoStepType
<1>8. ASSUME NEW b \in Block, NEW finality \in Finality, BeginBlock(b, finality)
      PROVE  TypeInv'
  <2>1. CASE prevFinality = "pending" /\ pos = Undefined
    BY <1>8, <2>1 DEF BeginBlock, Stop, db, plugin, stream, TypeInv, TypeOK
  <2>2. CASE prevFinality = "pending" /\ pos # Undefined
    BY <1>0, <1>8, <2>2, InvalidateType DEF BeginBlock, Hook, Undoing, TypeOK
  <2>3. CASE prevFinality # "pending"
    <3> DEFINE t == [hook |-> "begin", cursor |-> pos, endCursor |-> b,
                     finality |-> finality]
    <3>1. t \in Transaction /\ t.endCursor = b
      BY <1>0, TxOf, Numbers DEF Hook, Undoing, TypeOK
    <3>2. tx' = t /\ UNCHANGED <<db, saved, undo, plugin, conn, stream>>
      BY <1>8, <2>3 DEF BeginBlock
    <3> HIDE DEF t
    <3> QED
      BY <3>1, <3>2 DEF db, plugin, stream, TypeInv, TypeOK
  <2> QED
    BY <2>1, <2>2, <2>3
<1>9. CASE PendingUndone \/ OpenBlock
  <2>1. PICK hook \in {"begin", "block"} : tx' = [tx EXCEPT !.hook = hook] /\ tx # NoTx
    BY <1>9 DEF PendingUndone, OpenBlock, Undone
  <2>2. tx' \in Transaction /\ tx'.endCursor = tx.endCursor
    BY <1>0, <2>1, TxFields DEF Transaction, Hook
  <2>3. triggers' \in BOOLEAN /\ UNCHANGED <<rows, log, checkpoint, undo, plugin, conn, stream>>
    BY <1>0, <1>9 DEF PendingUndone, OpenBlock, db, TypeOK
  <2>4. saved' \in [rows : Content, log : SUBSET LogRow, triggers : BOOLEAN,
                   checkpoint : Point]
    BY <1>0, <1>9, <2>3, CommitType DEF PendingUndone, OpenBlock, TypeOK
  <2> QED
    BY <2>1, <2>2, <2>3, <2>4 DEF plugin, stream, TypeInv, TypeOK
<1>10. ASSUME NEW k \in Key, (\E v \in Value : Insert(k, v) \/ Update(k, v)) \/ Delete(k)
       PROVE  TypeInv'
  BY <1>10, StatementType DEF Insert, Update, Delete
<1>11. CASE Commit \/ CommitUnanswered
  <2>1. tx # NoTx /\ tx.endCursor \in Block /\ tx.finality \in Finality
    BY <1>0, <1>11, TxFields DEF Commit, CommitUnanswered, CommitBlock, InBlock, TypeInv
  <2>2. /\ UNCHANGED <<rows, log, triggers, undo, floor>> /\ COMMIT /\ tx' = NoTx
        /\ checkpoint' \in {checkpoint, tx.endCursor} /\ pos' \in {pos, tx.endCursor}
        /\ head' = tx.endCursor /\ conn' \in {conn, "stopped"}
        /\ prevFinality' \in {prevFinality, tx.finality}
        /\ registered' \in {registered, registered \/ tx.finality # "finalized"}
    BY <1>11 DEF Commit, CommitUnanswered, CommitBlock, plugin, Stop
  <2>3. checkpoint' \in Point /\ rows' \in Content /\ log' \subseteq LogRow /\ triggers' \in BOOLEAN
    BY <1>0, <2>1, <2>2, Numbers DEF TypeOK
  <2>4. saved' \in [rows : Content, log : SUBSET LogRow, triggers : BOOLEAN,
                   checkpoint : Point]
    BY <2>2, <2>3, CommitType
  <2> QED
    BY <2>1, <2>2, <2>3, <2>4, Numbers DEF TypeInv, TypeOK
<1>12. CASE Fails \/ Crash
  <2>1. ROLLBACK /\ undo' = {} /\ tx' = NoTx /\ conn' = "stopped" /\ UNCHANGED stream
        /\ prevFinality' \in {prevFinality, "none"} /\ registered' \in {registered, FALSE}
    BY <1>12 DEF Fails, Crash, Throw, Stop, plugin
  <2> QED
    BY <1>0, <2>1, RollbackType DEF TypeInv, TypeOK, stream
<1>13. CASE Disconnect
  BY <1>13 DEF Disconnect, Stop, db, plugin, stream, TypeInv, TypeOK
<1>14. CASE UNCHANGED vars
  BY <1>14 DEF vars, TypeInv, TypeOK
<1> QED
  BY <1>1, <1>2, <1>3, <1>4, <1>5, <1>6, <1>7, <1>8, <1>9, <1>10, <1>11, <1>12, <1>13, <1>14
     DEF Next

\* Every variable has its type.
THEOREM TypeCorrect == Spec => []TypeOK
<1>1. TypeInv => TypeOK
  BY DEF TypeInv
<1> QED
  BY <1>1, TypeInit, TypeStep, PTL DEF Spec

-----------------------------------------------------------------------------
(* The inductive invariant.                                                *)

\* What is committed: the log is of blocks up to the stream's position and of
\* the pending block after it, which the plugin then remembers.
StoredInv ==
  /\ CheckpointKeepsUp
  /\ StartingCursor <= pos /\ pos <= head
  /\ head # pos => floor < head
  /\ Ordered(saved.log)
  /\ Linked(Live(saved.log, floor), saved.rows)
  /\ \A e \in saved.log : e.cursor <= pos \/ e.cursor = head
  /\ registered => saved.triggers
  /\ conn = "running" /\ tx = NoTx =>
       prevFinality = "pending" \/ \A e \in saved.log : e.cursor <= pos

\* The content after block n is still what was committed.
Kept(n) == \A k \in Key : Reads(rows, log \union undo, k, n) = Reads(saved.rows, saved.log, k, n)

\* The log undoes what the tables and itself say, as far as it may be undone.
LogInv ==
  /\ Ordered(log \union undo)
  /\ Linked(Live(log \union undo, floor), rows)

\* What is known of a data message.
Announced ==
  /\ conn = "running" /\ pos < tx.endCursor
  /\ tx.finality = "pending" => floor < tx.endCursor
  /\ tx.finality = "finalized" => tx.endCursor <= floor

\* Blocks after tx.cursor are undone.
UndoInv ==
  /\ LogInv
  /\ StartingCursor <= tx.cursor /\ tx.cursor <= pos
  /\ tx.cursor >= floor \/ tx.cursor = pos
  /\ tx.hook # "invalidate" => tx.cursor = pos
  /\ tx.hook = "pending" => Announced
  /\ conn = IF tx.hook = "connect" THEN "initialized" ELSE "running"
  /\ triggers = saved.triggers
  /\ \A e \in log : e.cursor <= tx.cursor
  /\ \A e \in undo : e.cursor > tx.cursor /\ e.cursor > floor
  /\ \A n \in Point : n <= tx.cursor => Kept(n)

\* A block is handled.
BlockInv ==
  /\ LogInv
  /\ Announced
  /\ undo = {}
  /\ saved.triggers => triggers
  /\ tx.hook = "begin" => rows = saved.rows /\ log = saved.log /\ triggers = saved.triggers
  /\ tx.hook = "block" /\ tx.finality # "finalized" => triggers
  /\ \A e \in saved.log : e.cursor <= pos
  /\ \A e \in log : e.cursor <= pos \/ e.cursor = tx.endCursor
  /\ \A n \in Point : floor <= n /\ n < tx.endCursor => Kept(n)

\* No hook has changed anything.
AtRest ==
  /\ rows = saved.rows /\ log = saved.log
  /\ triggers = saved.triggers /\ checkpoint = saved.checkpoint
  /\ undo = {}

IInv ==
  /\ TypeInv
  /\ StoredInv
  /\ tx = NoTx => AtRest
  /\ tx # NoTx => checkpoint = saved.checkpoint
  /\ tx # NoTx /\ tx.hook \in Undoing => UndoInv
  /\ tx # NoTx /\ tx.hook \in {"begin", "block"} => BlockInv

LEMMA NoRows == Ordered({}) /\ \A r, n : Linked(Live({}, n), r)
BY DEF Ordered, Linked, Live

\* Between the hooks the tables are what is committed.
LEMMA IdleState ==
  ASSUME IInv, tx = NoTx
  PROVE  /\ rows = saved.rows /\ log = saved.log /\ triggers = saved.triggers
         /\ checkpoint = saved.checkpoint /\ undo = {}
         /\ RequestedCursor = pos
BY DEF IInv, AtRest, StoredInv, CheckpointKeepsUp, RequestedCursor

LEMMA HookOf ==
  ASSUME IInv, tx # NoTx
  PROVE  /\ tx \in Transaction /\ tx.cursor \in Point /\ tx.endCursor \in Block
         /\ tx.finality \in Finality
         /\ \/ tx.hook \in Undoing /\ UndoInv
            \/ tx.hook \in {"begin", "block"} /\ BlockInv
<1>1. tx.hook \in Hook
  BY TxFields DEF IInv, TypeInv
<1> QED
  BY <1>1, TxFields DEF IInv, TypeInv, Hook

\* A step that commits nothing and ends the transaction.
LEMMA RolledBack ==
  ASSUME IInv, TypeInv', ROLLBACK, undo' = {}, tx' = NoTx, conn' = "stopped",
         UNCHANGED stream, registered' => registered
  PROVE  IInv'
<1>1. /\ rows' = saved.rows /\ log' = saved.log /\ triggers' = saved.triggers
      /\ checkpoint' = saved.checkpoint /\ saved' = saved
  BY DEF ROLLBACK
<1>2. AtRest'
  BY <1>1 DEF AtRest
<1>3. saved' = saved /\ pos' = pos /\ head' = head /\ floor' = floor /\ StoredInv
      /\ (registered' => saved.triggers)
  BY <1>1 DEF IInv, StoredInv, stream
<1>4. StoredInv'
  BY <1>3 DEF StoredInv, CheckpointKeepsUp
<1> QED
  BY <1>2, <1>4 DEF IInv

LEMMA InitInv == Init => IInv
<1> SUFFICES ASSUME Init PROVE IInv
  OBVIOUS
<1>1. TypeInv /\ Committed = saved
  BY TypeInit
<1>2. saved.log = {} /\ saved.checkpoint = Undefined /\ AtRest
  BY <1>1 DEF Committed, Init, AtRest
<1>3. StoredInv
  BY <1>2, NoRows, Numbers DEF Init, StoredInv, CheckpointKeepsUp
<1> QED
  BY <1>1, <1>2, <1>3 DEF Init, IInv

LEMMA InitializeInv ==
  ASSUME IInv, TypeInv', Initialize
  PROVE  IInv'
<1>1. tx = NoTx
  BY HookOf DEF Initialize, UndoInv, BlockInv, Announced
<1>2. tx' = NoTx /\ undo' = {} /\ conn' = "initialized" /\ registered' = FALSE /\ floor' = floor
  BY <1>1, IdleState DEF Initialize, ResetFlags
<1>3. CASE UNCHANGED <<db, saved, pos, head>>
  BY <1>1, <1>2, <1>3 DEF IInv, StoredInv, CheckpointKeepsUp, AtRest, db
<1>4. CASE /\ log' = {} /\ checkpoint' = Undefined /\ COMMIT
           /\ pos' = StartingCursor /\ head' = StartingCursor
  <2>1. AtRest' /\ saved'.log = {} /\ saved'.checkpoint = Undefined
    BY <1>2, <1>4 DEF COMMIT, AtRest
  <2>2. StoredInv'
    BY <1>2, <1>4, <2>1, NoRows, Numbers DEF StoredInv, CheckpointKeepsUp
  <2> QED
    BY <1>2, <2>1, <2>2 DEF IInv
<1> QED
  BY <1>3, <1>4 DEF Initialize

\* What is committed does not change.
LEMMA StoredStays ==
  ASSUME StoredInv, UNCHANGED <<saved, pos, head, floor>>, registered' => registered,
         conn' = "running" /\ tx' = NoTx =>
           prevFinality' = "pending" \/ \A e \in saved.log : e.cursor <= pos
  PROVE  StoredInv'
BY DEF StoredInv, CheckpointKeepsUp

\* A hook begins to undo what is after block c.
LEMMA InvalidateInv ==
  ASSUME IInv, TypeInv', NEW hook \in Undoing, NEW c \in Point, NEW b \in Block,
         NEW finality \in Finality, Invalidate(hook, c, b, finality), UNCHANGED conn,
         StartingCursor <= c, c <= pos, c >= floor \/ c = pos,
         hook # "invalidate" => c = pos,
         conn = IF hook = "connect" THEN "initialized" ELSE "running",
         hook = "pending" => /\ pos < b
                             /\ finality = "pending" => floor < b
                             /\ finality = "finalized" => b <= floor
  PROVE  IInv'
<1>1. /\ tx = NoTx /\ undo' = After(c) /\ log' = log \ After(c)
      /\ UNCHANGED <<rows, triggers, checkpoint, saved, prevFinality, registered, pos, head, floor>>
      /\ AtRest /\ StoredInv /\ TypeOK
  BY DEF Invalidate, plugin, stream, IInv, TypeInv
<1>2. /\ tx' # NoTx /\ tx'.hook = hook /\ tx'.cursor = c /\ tx'.endCursor = b
      /\ tx'.finality = finality /\ hook \in Hook
  <2>1. hook \in Hook /\ b \in Point
    BY Numbers DEF Hook
  <2> QED
    BY <2>1, TxOf DEF Invalidate
<1>3. log' \union undo' = saved.log /\ rows' = saved.rows
  BY <1>1 DEF After, AtRest
<1>4. LogInv'
  BY <1>1, <1>3 DEF LogInv, StoredInv
<1>5. /\ \A e \in log' : e.cursor <= c
      /\ \A e \in undo' : e.cursor > c /\ e.cursor > floor
  <2>1. ASSUME NEW e \in saved.log
        PROVE  e.cursor \in Int /\ (e.cursor > pos => e.cursor > floor)
    <3>1. e.cursor \in Int /\ pos \in Int /\ head \in Int /\ floor \in Int
      BY <1>1, LogRowType, Numbers DEF StoredInv, Ordered, TypeOK
    <3> QED
      BY <1>1, <3>1 DEF StoredInv
  <2>2. c \in Int /\ pos \in Int /\ floor \in Int
    BY <1>1, Numbers DEF TypeOK
  <2> QED
    BY <1>1, <2>1, <2>2 DEF After, AtRest
<1>6. \A n \in Point : Kept(n)'
  BY <1>1, <1>3 DEF Kept
<1>7. UndoInv'
  BY <1>1, <1>2, <1>4, <1>5, <1>6 DEF UndoInv, Announced, AtRest
<1>8. StoredInv'
  BY <1>1, <1>2, StoredStays
<1>9. hook \notin {"begin", "block"}
  BY DEF Undoing
<1> QED
  BY <1>1, <1>2, <1>7, <1>8, <1>9 DEF IInv, AtRest

LEMMA ConnectInv ==
  ASSUME Clean, IInv, TypeInv', Connect
  PROVE  IInv'
<1>1. tx = NoTx /\ conn = "initialized"
  BY HookOf DEF Connect, UndoInv, BlockInv, Announced, IInv, StoredInv, Clean, CheckpointKeepsUp, RequestedCursor, Invalidate
<1>2. /\ RequestedCursor = pos /\ StoredInv /\ pos \in Point /\ floor \in Point
  BY <1>1, IdleState DEF IInv, TypeInv, TypeOK
<1>3. pos \in Block
  BY <1>2, Numbers DEF StoredInv, Clean, Undefined
<1>4. Invalidate("connect", pos, pos, "accepted") /\ UNCHANGED conn
  BY <1>2, <1>3, Numbers DEF Connect, Undefined
<1> QED
  BY <1>1, <1>2, <1>3, <1>4, InvalidateInv, Numbers DEF Undoing, Finality, StoredInv

LEMMA MessageInvalidateInv ==
  ASSUME IInv, TypeInv', NEW c \in Block, MessageInvalidate(c)
  PROVE  IInv'
BY InvalidateInv, Numbers DEF MessageInvalidate, Undoing, Finality, Idle

LEMMA BeginBlockInv ==
  ASSUME Clean, IInv, TypeInv', NEW b \in Block, NEW finality \in Finality, BeginBlock(b, finality)
  PROVE  IInv'
<1>1. /\ tx = NoTx /\ conn = "running" /\ StoredInv /\ AtRest /\ TypeOK
      /\ pos \in Point /\ pos # Undefined /\ floor \in Point
  <2>1. tx = NoTx /\ conn = "running" /\ StoredInv /\ AtRest /\ TypeOK
    BY DEF BeginBlock, Sends, Idle, IInv, TypeInv
  <2> QED
    BY <2>1, Numbers DEF StoredInv, Clean, TypeOK, Undefined
<1>2. /\ pos < b
      /\ finality = "pending" => floor < b
      /\ finality = "finalized" => b <= floor
  BY <1>1, Numbers DEF BeginBlock, Sends
<1>3. CASE prevFinality = "pending"
  <2>1. Invalidate("pending", pos, b, finality) /\ UNCHANGED conn
    BY <1>1, <1>3 DEF BeginBlock
  <2>2. "pending" \in Undoing /\ "pending" # "invalidate" /\ "pending" # "connect"
    BY DEF Undoing
  <2> QED
    BY <1>1, <1>2, <2>1, <2>2, InvalidateInv, Numbers DEF StoredInv
<1>4. CASE prevFinality # "pending"
  <2>1. /\ tx' = [hook |-> "begin", cursor |-> pos, endCursor |-> b, finality |-> finality]
        /\ UNCHANGED <<rows, log, triggers, checkpoint, saved, undo, prevFinality, registered,
                        conn, pos, head, floor>>
    BY <1>1, <1>4 DEF BeginBlock, db, plugin, stream
  <2>2. /\ tx' # NoTx /\ tx'.hook = "begin" /\ tx'.cursor = pos /\ tx'.endCursor = b
        /\ tx'.finality = finality
    <3>1. "begin" \in Hook /\ b \in Point
      BY Numbers DEF Hook
    <3> QED
      BY <1>1, <2>1, <3>1, TxOf
  <2>3. log' \union undo' = saved.log /\ log' = saved.log /\ rows' = saved.rows
    BY <1>1, <2>1 DEF AtRest
  <2>4. LogInv'
    BY <1>1, <2>1, <2>3 DEF LogInv, StoredInv
  <2>5. \A e \in saved.log : e.cursor <= pos
    BY <1>1, <1>4 DEF StoredInv
  <2>7. \A n \in Point : Kept(n)'
    BY <2>1, <2>3 DEF Kept
  <2>8. BlockInv'
    BY <1>1, <1>2, <2>1, <2>2, <2>3, <2>4, <2>5, <2>7 DEF BlockInv, Announced, AtRest
  <2>9. StoredInv'
    BY <1>1, <2>1, <2>2, StoredStays
  <2> QED
    BY <1>1, <2>1, <2>2, <2>8, <2>9 DEF IInv, AtRest, Undoing
<1> QED
  BY <1>3, <1>4

\* The row that is undone is the newest of all.
LEMMA FirstIsNewest ==
  ASSUME IInv, tx # NoTx, NEW e \in undo, First(e)
  PROVE  /\ tx.hook \in Undoing /\ UndoInv
         /\ e \in LogRow /\ e \notin log
         /\ \A f \in log \union undo : f.n <= e.n
         /\ ~Misses(e)
<1>1. tx.hook \in Undoing /\ UndoInv /\ tx.cursor \in Int
  BY HookOf, Numbers DEF BlockInv
<1>2. Ordered(log \union undo) /\ log \union undo \subseteq LogRow
  BY <1>1 DEF UndoInv, LogInv, Ordered
<1>3. \A f \in log \union undo : f.n \in Int /\ f.cursor \in Int
  BY <1>2, LogRowType
<1>4. ASSUME NEW f \in log
      PROVE  f # e /\ f.n <= e.n
  <2>1. f.cursor < e.cursor
    BY <1>1, <1>3 DEF UndoInv
  <2> QED
    BY <1>2, <1>3, <2>1 DEF Ordered
<1>5. \A f \in log \union undo : f.n <= e.n
  BY <1>4 DEF First
<1>6. e \in Live(log \union undo, floor) /\ Newest(Live(log \union undo, floor), e)
  BY <1>1, <1>5 DEF UndoInv, Live, Newest
<1>7. e.op = "D" <=> rows[e.k] = Absent
  BY <1>1, <1>6 DEF UndoInv, LogInv, Linked
<1> QED
  BY <1>1, <1>2, <1>4, <1>5, <1>7 DEF Misses

\* A row of the log is undone.
LEMMA UndoStepIs ==
  ASSUME IInv, UndoStep
  PROVE  \E e \in undo :
           /\ First(e)
           /\ rows' = [rows EXCEPT ![e.k] = e.old]
           /\ undo' = undo \ {e}
           /\ log' = log /\ log' \union undo' = (log \union undo) \ {e}
           /\ UNCHANGED <<triggers, checkpoint, saved, tx, conn, prevFinality, registered,
                           pos, head, floor>>
<1>1. PICK e \in undo :
        /\ First(e)
        /\ IF Misses(e) /\ e.op = "D" THEN Throw
           ELSE /\ IF Misses(e) THEN UNCHANGED <<rows, log>>
                   ELSE Execute(Inverse(e.op), e.k, e.old)
                /\ undo' = undo \ {e}
                /\ UNCHANGED <<triggers, checkpoint, saved, tx, conn>>
  BY DEF UndoStep
<1>2. tx # NoTx /\ UNCHANGED <<plugin, stream>>
  BY DEF UndoStep
<1>3. tx.hook \in Undoing /\ e \notin log /\ ~Misses(e)
  BY <1>1, <1>2, FirstIsNewest
<1>4. ~OrderKeySet
  BY <1>3 DEF OrderKeySet, Undoing
<1>5. rows' = [rows EXCEPT ![e.k] = e.old] /\ log' = log
  BY <1>1, <1>3, <1>4 DEF Execute
<1> QED
  BY <1>1, <1>2, <1>3, <1>5 DEF plugin, stream

LEMMA UndoStepInv ==
  ASSUME IInv, TypeInv', UndoStep
  PROVE  IInv'
<1>1. PICK e \in undo :
        /\ First(e)
        /\ rows' = [rows EXCEPT ![e.k] = e.old]
        /\ undo' = undo \ {e}
        /\ log' = log /\ log' \union undo' = (log \union undo) \ {e}
        /\ UNCHANGED <<triggers, checkpoint, saved, tx, conn, prevFinality, registered,
                        pos, head, floor>>
  BY UndoStepIs
<1>2. tx # NoTx
  BY DEF UndoStep
<1>3. /\ tx.hook \in Undoing /\ UndoInv /\ e \in LogRow /\ tx.cursor \in Point
      /\ \A f \in log \union undo : f.n <= e.n
      /\ rows \in Content /\ e \in log \union undo
  BY <1>1, <1>2, FirstIsNewest, HookOf DEF IInv, TypeInv, TypeOK
<1> DEFINE l == log \union undo
<1>4. Ordered(l) /\ Linked(Live(l, floor), rows)
  BY <1>3 DEF UndoInv, LogInv
<1>5. LogInv'
  <2>1. Live(l \ {e}, floor) = Live(l, floor) \ {e} /\ e \in Live(l, floor)
    BY <1>1, <1>3 DEF Live, UndoInv
  <2>2. Ordered(Live(l, floor)) /\ \A f \in Live(l, floor) : f.n <= e.n
    BY <1>3, <1>4, OrderedSub DEF Live
  <2>3. Linked(Live(l, floor) \ {e}, [rows EXCEPT ![e.k] = e.old])
    BY <1>3, <1>4, <2>1, <2>2, LinkedUndo
  <2>4. Ordered(l \ {e})
    BY <1>4, OrderedSub
  <2> QED
    BY <1>1, <2>1, <2>3, <2>4 DEF LogInv
<1>6. ASSUME NEW n \in Point, n <= tx.cursor
      PROVE  Kept(n)'
  <2>1. n < e.cursor
    BY <1>1, <1>3, <1>6, LogRowType, Numbers DEF UndoInv
  <2>2. ASSUME NEW k \in Key
        PROVE  Reads([rows EXCEPT ![e.k] = e.old], l \ {e}, k, n)
                 = Reads(saved.rows, saved.log, k, n)
    <3>1. Reads([rows EXCEPT ![e.k] = e.old], l \ {e}, k, n) = Reads(rows, l, k, n)
      BY <1>3, <1>4, <2>1, UndoReads
    <3> QED
      BY <1>3, <1>6, <3>1 DEF UndoInv, Kept
  <2> QED
    BY <1>1, <2>2 DEF Kept
<1>7. UndoInv'
  BY <1>1, <1>3, <1>5, <1>6 DEF UndoInv, Announced
<1>8. StoredInv'
  BY <1>1, <1>2, StoredStays DEF IInv
<1> QED
  BY <1>1, <1>2, <1>3, <1>7, <1>8 DEF IInv, Undoing

\* Blocks after tx.cursor have been undone.
LEMMA UndoneState ==
  ASSUME IInv, NEW hook \in Undoing, Undone(hook)
  PROVE  /\ UndoInv /\ tx # NoTx /\ tx.hook = hook /\ undo = {} /\ tx.cursor \in Point
         /\ log \union undo = log /\ LogInv /\ StoredInv
         /\ checkpoint = saved.checkpoint
         /\ \A e \in log : e.cursor <= tx.cursor
BY HookOf DEF Undone, UndoInv, IInv

\* A hook commits what it undid.
LEMMA UndoneInv ==
  ASSUME IInv, TypeInv', NEW hook \in {"connect", "invalidate"}, Undone(hook),
         InvalidateState(tx.cursor), UNCHANGED <<rows, log, triggers, undo, plugin, floor>>,
         COMMIT, tx' = NoTx, pos' = tx.cursor, head' = tx.cursor
  PROVE  IInv'
<1>1. /\ UndoInv /\ undo = {} /\ tx.cursor \in Point /\ LogInv /\ log \union undo = log
      /\ checkpoint = saved.checkpoint /\ StoredInv
      /\ \A e \in log : e.cursor <= tx.cursor
      /\ hook = "connect" => tx.cursor = pos
  BY UndoneState DEF Undoing, UndoInv
<1>2. AtRest' /\ saved'.rows = rows /\ saved'.log = log /\ saved'.triggers = triggers
      /\ saved'.checkpoint = checkpoint'
  BY <1>1 DEF COMMIT, AtRest
<1>3. CheckpointKeepsUp'
  <2>1. CASE checkpoint = Undefined
    <3>1. pos = StartingCursor /\ pos \in Int /\ tx.cursor \in Int
      BY <1>1, <2>1, Numbers DEF StoredInv, CheckpointKeepsUp, IInv, TypeInv, TypeOK
    <3>2. tx.cursor = StartingCursor
      BY <1>1, <3>1, Numbers DEF UndoInv
    <3> QED
      BY <1>2, <2>1, <3>2 DEF CheckpointKeepsUp, InvalidateState
  <2>2. CASE checkpoint # Undefined
    <3>1. checkpoint' = tx.cursor
      BY <2>2 DEF InvalidateState
    <3>2. tx.cursor = Undefined => StartingCursor = tx.cursor
      BY <1>1, Numbers DEF UndoInv, Undefined
    <3> QED
      BY <1>2, <3>1, <3>2 DEF CheckpointKeepsUp
  <2> QED
    BY <2>1, <2>2
<1>4. StoredInv'
  <2>1. Ordered(log) /\ Linked(Live(log, floor), rows)
    BY <1>1 DEF LogInv
  <2>2. registered => triggers
    BY <1>1 DEF StoredInv, UndoInv
  <2> QED
    BY <1>1, <1>2, <1>3, <2>1, <2>2, Numbers DEF StoredInv, UndoInv, plugin
<1> QED
  BY <1>2, <1>4 DEF IInv

LEMMA PendingUndoneInv ==
  ASSUME IInv, TypeInv', PendingUndone
  PROVE  IInv'
<1>1. /\ UndoInv /\ tx # NoTx /\ tx.hook = "pending" /\ undo = {} /\ tx.cursor = pos
      /\ log \union undo = log /\ LogInv /\ StoredInv /\ tx \in Transaction
      /\ checkpoint = saved.checkpoint
      /\ \A e \in log : e.cursor <= pos
      /\ Announced
  BY UndoneState, HookOf DEF PendingUndone, Undoing, UndoInv, Undone
<1>2. /\ UNCHANGED <<rows, log, triggers, checkpoint, undo, prevFinality, registered, conn,
                     pos, head, floor>>
      /\ saved'.rows = rows /\ saved'.log = log /\ saved'.triggers = triggers
      /\ saved'.checkpoint = checkpoint
  BY DEF PendingUndone, COMMIT, db, plugin, stream
<1>3. /\ tx' # NoTx /\ tx'.hook = "begin" /\ tx'.cursor = pos
      /\ tx'.endCursor = tx.endCursor /\ tx'.finality = tx.finality
  <2>1. tx' = [tx EXCEPT !.hook = "begin"]
    BY DEF PendingUndone
  <2>2. tx' \in Transaction
    BY <1>1, <2>1 DEF Transaction, Hook
  <2> QED
    BY <1>1, <2>1, <2>2, DrizzleAssumption DEF Transaction
<1>4. LogInv' /\ Announced'
  BY <1>1, <1>2, <1>3 DEF LogInv, Announced
<1>6. \A n \in Point : Kept(n)'
  <2>1. log' \union undo' = saved'.log /\ rows' = saved'.rows
    BY <1>1, <1>2
  <2> QED
    BY <2>1 DEF Kept
<1>7. BlockInv'
  BY <1>1, <1>2, <1>3, <1>4, <1>6 DEF BlockInv
<1>8. StoredInv'
  <2>1. Ordered(log) /\ Linked(Live(log, floor), rows)
    BY <1>1 DEF LogInv
  <2>2. registered => triggers
    BY <1>1 DEF StoredInv, UndoInv
  <2> QED
    BY <1>1, <1>2, <1>3, <2>1, <2>2 DEF StoredInv, CheckpointKeepsUp
<1> QED
  BY <1>2, <1>3, <1>7, <1>8 DEF IInv, Undoing

LEMMA OpenBlockInv ==
  ASSUME IInv, TypeInv', OpenBlock
  PROVE  IInv'
<1>1. /\ tx # NoTx /\ tx.hook = "begin" /\ BlockInv /\ StoredInv /\ tx \in Transaction
      /\ checkpoint = saved.checkpoint
  BY HookOf DEF OpenBlock, IInv, Undoing
<1>2. /\ UNCHANGED <<rows, log, checkpoint, saved, undo, prevFinality, registered, conn,
                     pos, head, floor>>
      /\ triggers' = (triggers \/ (tx.finality # "finalized" /\ ~registered))
  BY DEF OpenBlock, plugin, stream
<1>3. /\ tx' # NoTx /\ tx'.hook = "block" /\ tx'.cursor = tx.cursor
      /\ tx'.endCursor = tx.endCursor /\ tx'.finality = tx.finality
  <2>1. tx' = [tx EXCEPT !.hook = "block"]
    BY DEF OpenBlock
  <2>2. tx' \in Transaction
    BY <1>1, <2>1 DEF Transaction, Hook
  <2> QED
    BY <1>1, <2>1, <2>2, DrizzleAssumption DEF Transaction
<1>4. LogInv' /\ Announced'
  BY <1>1, <1>2, <1>3 DEF BlockInv, LogInv, Announced
<1>5. \A n \in Point : floor <= n /\ n < tx.endCursor => Kept(n)'
  BY <1>1, <1>2 DEF BlockInv, Kept
<1>6. (saved.triggers => triggers') /\ (tx.finality # "finalized" => triggers')
  BY <1>1, <1>2 DEF BlockInv, StoredInv
<1>7. BlockInv'
  BY <1>1, <1>2, <1>3, <1>4, <1>5, <1>6 DEF BlockInv
<1>8. StoredInv'
  BY <1>1, <1>2, <1>3, StoredStays
<1> QED
  BY <1>1, <1>2, <1>3, <1>7, <1>8 DEF IInv, Undoing

\* In a handler.
LEMMA HandlerState ==
  ASSUME IInv, InBlock
  PROVE  /\ tx # NoTx /\ tx.hook = "block" /\ BlockInv /\ StoredInv /\ TypeOK
         /\ tx \in Transaction /\ tx.endCursor \in Block /\ tx.finality \in Finality
         /\ checkpoint = saved.checkpoint
         /\ undo = {} /\ log \union undo = log /\ log \subseteq LogRow /\ rows \in Content
         /\ pos \in Point /\ floor \in Point /\ head \in Point
         /\ \A e \in log : e.cursor <= tx.endCursor
<1>1. /\ tx # NoTx /\ tx.hook = "block" /\ BlockInv /\ StoredInv /\ TypeOK
      /\ tx \in Transaction /\ tx.endCursor \in Block /\ tx.finality \in Finality
      /\ checkpoint = saved.checkpoint
      /\ undo = {} /\ log \union undo = log /\ log \subseteq LogRow /\ rows \in Content
      /\ pos \in Point /\ floor \in Point /\ head \in Point
  BY HookOf DEF InBlock, IInv, Undoing, BlockInv, TypeInv, TypeOK
<1>2. \A e \in log : e.cursor <= tx.endCursor
  BY <1>1, LogRowType, Numbers DEF BlockInv, Announced
<1> QED
  BY <1>1, <1>2

\* No row may be undone when the block is final already.
LEMMA NoneLive ==
  ASSUME NEW l, l \subseteq LogRow, NEW b \in Block, \A e \in l : e.cursor <= b,
         NEW final \in Point, b <= final
  PROVE  Live(l, final) = {}
BY LogRowType, Numbers DEF Live

\* A statement keeps what the log restores.
LEMMA StatementInv ==
  ASSUME IInv, TypeInv', NEW op \in {"I", "U", "D"}, NEW k \in Key,
         NEW v \in Value \union {Absent}, op = "D" <=> v = Absent, Statement(op, k, v)
  PROVE  IInv'
<1> DEFINE b == tx.endCursor
<1>1. InBlock /\ Execute(op, k, v)
      /\ UNCHANGED <<triggers, checkpoint, saved, tx, undo, prevFinality, registered, conn,
                     pos, head, floor>>
  BY DEF Statement, plugin, stream
<1>2. /\ tx # NoTx /\ tx.hook = "block" /\ BlockInv /\ StoredInv /\ TypeOK
      /\ tx.endCursor \in Block /\ checkpoint = saved.checkpoint /\ undo = {}
      /\ log \union undo = log /\ log \subseteq LogRow /\ rows \in Content
      /\ floor \in Point
      /\ \A e \in log : e.cursor <= tx.endCursor
  BY <1>1, HandlerState
<1>3. /\ Ordered(log) /\ Linked(Live(log, floor), rows)
      /\ \A e \in log : e.cursor <= b
      /\ \A n \in Point : floor <= n /\ n < b => Kept(n)
  BY <1>2 DEF BlockInv, LogInv
<1>4. rows' = [rows EXCEPT ![k] = v] /\ undo' = {} /\ log' \union undo' = log'
  BY <1>1, <1>2 DEF Execute
<1>5. /\ Ordered(log') /\ Linked(Live(log', floor), rows')
      /\ \A e \in log' : e.cursor <= pos \/ e.cursor = b
      /\ \A n \in Point : floor <= n /\ n < b =>
           \A q \in Key : Reads(rows', log', q, n) = Reads(rows, log, q, n)
  <2>1. CASE ~(triggers /\ OrderKeySet) /\ log' = log
    <3>1. tx.finality = "finalized"
      BY <1>2, <2>1 DEF BlockInv, OrderKeySet
    <3>2. b <= floor
      BY <1>2, <3>1 DEF BlockInv, Announced
    <3>3. Live(log, floor) = {}
      BY <1>2, <1>3, <3>2, NoneLive
    <3>4. Linked({}, rows')
      BY DEF Linked
    <3>5. \A n \in Point : ~(floor <= n /\ n < b)
      BY <1>2, <3>2, Numbers
    <3> QED
      BY <1>2, <1>3, <2>1, <3>3, <3>4, <3>5 DEF BlockInv
  <2>2. ASSUME NEW n \in Serial, log' = log \union {Logged(n, op, k)},
               Logged(n, op, k) \in LogRow, \A e \in log : e.n < n
        PROVE  <1>5
    <3> DEFINE f == Logged(n, op, k)
    <3>1. f.n = n /\ f.op = op /\ f.k = k /\ f.cursor = b /\ f.old = rows[f.k]
      BY DEF Logged
    <3>2. f \in LogRow /\ log' = log \union {f}
      BY <2>2
    <3> HIDE DEF f
    <3>3. f \notin log /\ (\A e \in log : e.n < f.n /\ e.n <= f.n)
          /\ \A e \in log : e.n \in Int /\ e.cursor \in Int
      BY <1>2, <2>2, <3>1, LogRowType, Numbers
    <3>4. f.n \in Int /\ f.cursor \in Int
      BY <3>2, LogRowType
    <3>5. Ordered(log \union {f})
      BY <1>2, <1>3, <3>1, <3>2, <3>3, <3>4 DEF Ordered
    <3>6. \A e \in log \union {f} : e.cursor <= b
      BY <1>3, <3>1, <3>4
    <3>7. Linked(Live(log \union {f}, floor), rows')
      <4>1. CASE b > floor
        <5>1. Live(log \union {f}, floor) = Live(log, floor) \union {f}
          BY <3>1, <4>1 DEF Live
        <5>2. /\ f \notin Live(log, floor) /\ \A e \in Live(log, floor) : e.n < f.n
              /\ Ordered(Live(log, floor) \union {f})
          BY <3>3, <3>5, <5>1, OrderedSub DEF Live
        <5>3. Linked(Live(log, floor) \union {f}, [rows EXCEPT ![f.k] = v])
          BY <1>2, <1>3, <3>1, <5>2, LinkedLog
        <5> QED
          BY <1>4, <3>1, <5>1, <5>3
      <4>2. CASE b <= floor
        <5>1. Live(log \union {f}, floor) = {}
          BY <1>2, <3>2, <3>6, <4>2, NoneLive
        <5> QED
          BY <5>1 DEF Linked
      <4> QED
        BY <1>2, <4>1, <4>2, Numbers
    <3>8. ASSUME NEW m \in Point, m < b, NEW q \in Key
          PROVE  Reads(rows', log', q, m) = Reads(rows, log, q, m)
      <4>0. /\ f \notin log /\ (\A e \in log : e.n <= f.n) /\ f.old = rows[f.k]
            /\ m < f.cursor /\ rows \in Content
        BY <1>2, <3>1, <3>3, <3>8
      <4>1. Reads([rows EXCEPT ![f.k] = v], log \union {f}, q, m) = Reads(rows, log, q, m)
        BY <3>5, <4>0, LogReads
      <4>2. rows' = [rows EXCEPT ![f.k] = v] /\ log' = log \union {f}
        BY <1>4, <3>1, <3>2
      <4> QED
        BY <4>1, <4>2
    <3>9. \A e \in log \union {f} : e.cursor <= pos \/ e.cursor = b
      BY <1>2, <3>1 DEF BlockInv
    <3> QED
      BY <3>2, <3>5, <3>7, <3>8, <3>9
  <2> QED
    BY <1>1, <1>2, <2>1, <2>2, Executed
<1>6. LogInv'
  BY <1>1, <1>4, <1>5 DEF LogInv
<1>7. \A n \in Point : floor <= n /\ n < b => Kept(n)'
  BY <1>1, <1>2, <1>3, <1>4, <1>5 DEF Kept
<1>8. BlockInv'
  BY <1>1, <1>2, <1>4, <1>5, <1>6, <1>7 DEF BlockInv, Announced
<1>9. StoredInv'
  BY <1>1, <1>2, StoredStays
<1> QED
  BY <1>1, <1>2, <1>8, <1>9 DEF IInv, Undoing

\* A block commits.
LEMMA CommitInv ==
  ASSUME IInv, TypeInv', Commit \/ CommitUnanswered
  PROVE  IInv'
<1> DEFINE b == tx.endCursor
<1>1. /\ CommitBlock /\ InBlock
      /\ UNCHANGED <<rows, log, triggers, undo, floor>>
      /\ saved'.rows = rows /\ saved'.log = log /\ saved'.triggers = triggers
      /\ saved'.checkpoint = checkpoint'
      /\ tx' = NoTx /\ head' = b
  BY DEF Commit, CommitUnanswered, CommitBlock, COMMIT
<1>2. /\ BlockInv /\ StoredInv /\ b \in Block /\ tx.finality \in Finality /\ tx.hook = "block"
      /\ checkpoint = saved.checkpoint /\ undo = {} /\ log \union undo = log
      /\ pos \in Point /\ floor \in Point
      /\ \A e \in log : e.cursor <= b
  BY <1>1, HandlerState
<1>3. /\ tx.finality = "pending" => checkpoint' = checkpoint /\ pos' = pos
      /\ tx.finality # "pending" => checkpoint' = b /\ pos' = b
  BY <1>1 DEF CommitBlock
<1>4. pos < b /\ (tx.finality = "pending" => floor < b) /\ StartingCursor <= pos
  BY <1>2 DEF BlockInv, Announced, StoredInv
<1>5. AtRest'
  BY <1>1, <1>2 DEF AtRest
<1>6. CheckpointKeepsUp'
  BY <1>1, <1>2, <1>3, Numbers DEF StoredInv, CheckpointKeepsUp, Undefined
<1>7. /\ StartingCursor <= pos' /\ pos' <= head'
      /\ head' # pos' => floor' < head'
  BY <1>1, <1>2, <1>3, <1>4, Numbers
<1>8. Ordered(saved'.log) /\ Linked(Live(saved'.log, floor'), saved'.rows)
  BY <1>1, <1>2 DEF BlockInv, LogInv
<1>9. \A e \in saved'.log : e.cursor <= pos' \/ e.cursor = head'
  BY <1>1, <1>2, <1>3 DEF BlockInv
<1>10. registered' => saved'.triggers
  BY <1>1, <1>2 DEF Commit, CommitUnanswered, plugin, BlockInv, StoredInv
<1>11. conn' = "running" => prevFinality' = "pending" \/ \A e \in saved'.log : e.cursor <= pos'
  BY <1>1, <1>2, <1>3 DEF Commit, CommitUnanswered, Stop
<1>12. StoredInv'
  BY <1>6, <1>7, <1>8, <1>9, <1>10, <1>11 DEF StoredInv
<1> QED
  BY <1>1, <1>5, <1>12 DEF IInv

\* What finalize deletes may not be undone any more: the log keeps what may.
LEMMA FinalizedRows ==
  ASSUME NEW l, l \subseteq LogRow, NEW c \in Block, NEW final \in Point, c <= final
  PROVE  Live({e \in l : e.cursor > c}, final) = Live(l, final)
BY LogRowType, Numbers DEF Live

LEMMA MessageFinalizeInv ==
  ASSUME IInv, TypeInv', NEW c \in Block, MessageFinalize(c)
  PROVE  IInv'
<1>1. /\ tx = NoTx /\ conn = "running" /\ c <= floor /\ log' = Finalize(c)
      /\ UNCHANGED <<rows, triggers, checkpoint, tx, undo, prevFinality, registered, conn,
                      pos, head, floor>>
      /\ saved'.rows = rows /\ saved'.log = log' /\ saved'.triggers = triggers
      /\ saved'.checkpoint = checkpoint
  BY DEF MessageFinalize, Idle, COMMIT, plugin, stream
<1>2. AtRest /\ StoredInv /\ floor \in Point /\ log \subseteq LogRow
  BY <1>1 DEF IInv, TypeInv, TypeOK
<1>3. AtRest'
  BY <1>1, <1>2 DEF AtRest
<1>4. log' \subseteq log /\ Live(log', floor) = Live(log, floor)
  BY <1>1, <1>2, FinalizedRows DEF Finalize
<1>5. Ordered(log') /\ Linked(Live(log', floor), rows)
  BY <1>2, <1>4, OrderedSub DEF AtRest, StoredInv
<1>6. StoredInv'
  BY <1>1, <1>2, <1>4, <1>5 DEF AtRest, StoredInv, CheckpointKeepsUp
<1> QED
  BY <1>1, <1>3, <1>6 DEF IInv

LEMMA ChainFinalizesInv ==
  ASSUME IInv, TypeInv', NEW c \in Block, ChainFinalizes(c)
  PROVE  IInv'
<1>1. /\ tx = NoTx /\ floor < c /\ floor' = c /\ (head # pos => c < head)
      /\ UNCHANGED <<rows, log, triggers, checkpoint, saved, tx, undo, prevFinality, registered,
                      conn, pos, head>>
  BY DEF ChainFinalizes, db, plugin
<1>2. AtRest /\ StoredInv /\ floor \in Point
  BY <1>1 DEF IInv, TypeInv, TypeOK
<1>3. Linked(Live(saved.log, c), saved.rows)
  BY <1>1, <1>2, LinkedFinal, Numbers DEF StoredInv
<1>4. StoredInv'
  BY <1>1, <1>2, <1>3 DEF StoredInv, CheckpointKeepsUp
<1> QED
  BY <1>1, <1>2, <1>4 DEF IInv, AtRest

\* Every step keeps the invariant.
LEMMA NextInv == Clean /\ IInv /\ [Next]_vars => IInv'
<1> SUFFICES ASSUME Clean, IInv, [Next]_vars PROVE IInv'
  OBVIOUS
<1>0. TypeInv'
  BY TypeStep DEF IInv
<1>1. CASE Initialize
  BY <1>0, <1>1, InitializeInv
<1>2. CASE Connect
  BY <1>0, <1>2, ConnectInv
<1>3. CASE ConnectDone
  <2>1. tx.cursor = pos
    BY <1>3, UndoneState DEF ConnectDone, Undoing, UndoInv
  <2> QED
    BY <1>0, <1>3, <2>1, UndoneInv DEF ConnectDone
<1>4. CASE MessageInvalidateDone
  BY <1>0, <1>4, UndoneInv DEF MessageInvalidateDone
<1>5. ASSUME NEW c \in Block, MessageInvalidate(c) \/ MessageFinalize(c) \/ ChainFinalizes(c)
      PROVE  IInv'
  BY <1>0, <1>5, MessageInvalidateInv, MessageFinalizeInv, ChainFinalizesInv
<1>6. CASE UndoStep
  BY <1>0, <1>6, UndoStepInv
<1>7. ASSUME NEW b \in Block, NEW finality \in Finality, BeginBlock(b, finality)
      PROVE  IInv'
  BY <1>0, <1>7, BeginBlockInv
<1>8. CASE PendingUndone
  BY <1>0, <1>8, PendingUndoneInv
<1>9. CASE OpenBlock
  BY <1>0, <1>9, OpenBlockInv
<1>10. ASSUME NEW k \in Key, (\E v \in Value : Insert(k, v) \/ Update(k, v)) \/ Delete(k)
       PROVE  IInv'
  BY <1>0, <1>10, StatementInv, DrizzleAssumption DEF Insert, Update, Delete
<1>11. CASE Commit \/ CommitUnanswered
  BY <1>0, <1>11, CommitInv
<1>12. CASE Fails \/ Crash
  <2>1. ROLLBACK /\ undo' = {} /\ tx' = NoTx /\ conn' = "stopped" /\ UNCHANGED stream
        /\ (registered' => registered)
    BY <1>12 DEF Fails, Crash, Throw, Stop, plugin
  <2> QED
    BY <1>0, <2>1, RolledBack
<1>13. CASE Disconnect
  <2>1. StoredInv'
    BY <1>13, StoredStays DEF Disconnect, Stop, plugin, stream, IInv
  <2> QED
    BY <1>0, <1>13, <2>1 DEF Disconnect, Idle, db, plugin, stream, IInv, AtRest
<1>14. CASE UNCHANGED vars
  <2>1. StoredInv'
    BY <1>14 DEF vars, IInv, StoredInv, CheckpointKeepsUp
  <2> QED
    BY <1>0, <1>14, <2>1
       DEF vars, IInv, AtRest, UndoInv, BlockInv, LogInv, Announced, Kept
<1> QED
  BY <1>1, <1>2, <1>3, <1>4, <1>5, <1>6, <1>7, <1>8, <1>9, <1>10, <1>11, <1>12, <1>13, <1>14
     DEF Next

\* Of an indexer that starts from a cursor: the log is in the order of the
\* blocks, each of its rows finds its key as its statement left it, and what
\* it restores is the committed content, within a transaction and over any
\* number of blocks, reorganizations, failures and restarts.
THEOREM Invariance == Clean /\ Spec => []IInv
<1> SUFFICES ASSUME Clean PROVE Spec => []IInv
  OBVIOUS
<1>1. IInv /\ [Next]_vars => IInv'
  BY NextInv
<1> QED
  BY <1>1, InitInv, PTL DEF Spec

\* Undoing a reorganization never misses a row nor meets one that exists.
THEOREM UndoesCleanly == Clean /\ Spec => []UndoApplies
<1>1. IInv => UndoApplies
  <2> SUFFICES ASSUME IInv PROVE UndoApplies
    OBVIOUS
  <2>1. CASE tx = NoTx
    BY <2>1, IdleState DEF UndoApplies
  <2>2. CASE tx # NoTx
    BY <2>2, FirstIsNewest DEF UndoApplies
  <2> QED
    BY <2>1, <2>2
<1> QED
  BY <1>1, Invariance, PTL

\* A restart asks for the block the data is at.
THEOREM CheckpointKeeps == Clean /\ Spec => []CheckpointKeepsUp
<1>1. IInv => CheckpointKeepsUp
  BY DEF IInv, StoredInv
<1> QED
  BY <1>1, Invariance, PTL

-----------------------------------------------------------------------------
(* Every step is one of the store's, or changes nothing there.             *)

\* The abstract names.
LEMMA StoreNames ==
  /\ Store!Point = Point /\ Store!Block = Block
  /\ Store!Nothing = [k \in Key |-> Absent]
  /\ \A m, n : Store!Larger(m, n) = Larger(m, n)
  /\ \A m \in Int, n \in Int : /\ m <= n => Store!Smaller(m, n) = m
                               /\ n <= m => Store!Smaller(m, n) = n
BY DEF Store!Point, Point, Store!Block, Block, Store!Nothing, Store!Smaller,
       Store!Larger, Larger

LEMMA SmallerPoint ==
  ASSUME NEW m \in Point, NEW n \in Point
  PROVE  /\ Store!Smaller(m, n) \in Point
         /\ m <= n => Store!Smaller(m, n) = m
         /\ n <= m => Store!Smaller(m, n) = n
BY Numbers, StoreNames DEF Store!Smaller

Histories == [i \in Self |-> History(saved, floor)]

LEMMA HistoryReads ==
  ASSUME NEW s, NEW final
  PROVE  History(s, final)
           = [n \in Point |-> [k \in Key |-> Reads(s.rows, s.log, k, Larger(n, final))]]
BY ContentIsRead DEF History

LEMMA HistoriesStep ==
  ASSUME NEW history, History(saved', floor') = history
  PROVE  Histories' = [Histories EXCEPT !["indexer"] = history]
BY DEF Histories, Self

LEMMA StoreSame ==
  ASSUME UNCHANGED <<saved, pos, floor>>,
         \/ ~InBlock /\ ~InBlock'
         \/ UNCHANGED <<rows, tx>>
  PROVE  UNCHANGED <<Histories, pos, floor, StoreTx, StoreDraft>>
BY DEF Histories, StoreTx, StoreDraft, InBlock

\* A hook that is not a handler of a block does not show.
LEMMA StoreStutters ==
  ASSUME UNCHANGED <<saved, pos, floor>>, Active' = Active,
         \/ ~InBlock /\ ~InBlock'
         \/ UNCHANGED <<rows, tx>>
  PROVE  UNCHANGED Store!vars
BY StoreSame DEF Store!vars, Histories

\* The indexer stops.
LEMMA StopStore ==
  ASSUME UNCHANGED <<saved, pos, floor>>, conn' = "stopped",
         \/ ~InBlock /\ ~InBlock'
         \/ UNCHANGED <<rows, tx>>
  PROVE  Store!Next
<1>1. Active' \subseteq Active
  BY DEF Active
<1>2. Store!Stop
  BY <1>1, StoreSame DEF Store!Stop, Histories
<1> QED
  BY <1>2 DEF Store!Next

LEMMA StoreTxType ==
  ASSUME TypeInv
  PROVE  StoreTx = NoTx <=> ~InBlock
<1>1. CASE InBlock
  <2>1. StoreTx \in [indexer : {"indexer"}, block : Block, pending : BOOLEAN]
    BY <1>1 DEF StoreTx, InBlock, TypeInv
  <2> QED BY <1>1, <2>1, DrizzleAssumption
<1> QED BY <1>1 DEF StoreTx

LEMMA NoStoreTx ==
  ASSUME ~InBlock
  PROVE  StoreTx = NoTx /\ StoreDraft = Store!Nothing
BY StoreNames DEF StoreTx, StoreDraft

\* The log has no rows between the position and what is not the pending block.
LEMMA NothingBetween ==
  ASSUME IInv, NEW m \in Point, pos <= m, head # pos => m < head
  PROVE  \A e \in saved.log : e.cursor > pos <=> e.cursor > m
<1>1. pos \in Int /\ head \in Int /\ m \in Int /\ StoredInv
  BY Numbers DEF IInv, TypeInv, TypeOK
<1>2. \A e \in saved.log : e.cursor \in Int
  BY <1>1, LogRowType DEF StoredInv, Ordered
<1> QED
  BY <1>1, <1>2 DEF StoredInv

LEMMA InitStore == Init => Store!Init
<1> SUFFICES ASSUME Init PROVE Store!Init
  OBVIOUS
<1>1. saved.log = {} /\ saved.rows = [k \in Key |-> Absent]
  BY DEF Init, Committed
<1>2. \A k \in Key : \A n : Reads(saved.rows, saved.log, k, n) = Absent
  BY <1>1 DEF Reads, Later
<1>3. Histories = [i \in Self |-> [n \in Store!Point |-> Store!Nothing]]
  BY <1>2, HistoryReads, StoreNames DEF Histories
<1>4. StoreTx = NoTx /\ StoreDraft = Store!Nothing
  BY NoStoreTx DEF Init, InBlock
<1>5. [i \in Self |-> pos] \in [Self -> Store!Point]
      /\ [i \in Self |-> floor] = [i \in Self |-> -1]
  BY Numbers, StoreNames DEF Init, Undefined
<1>6. Active = {}
  BY DEF Init, Active
<1> QED
  BY <1>3, <1>4, <1>5, <1>6 DEF Store!Init, Histories

LEMMA InitializeStore ==
  ASSUME IInv, Initialize
  PROVE  Store!Next
<1>0. "indexer" \notin Active /\ Active' = Active \union {"indexer"}
  BY DEF Initialize, Active, Self
<1>1. tx = NoTx /\ tx' = NoTx /\ floor' = floor
  BY HookOf DEF Initialize, UndoInv, BlockInv, Announced
<1>2. ~InBlock /\ ~InBlock'
  BY <1>1 DEF InBlock
<1>3. CASE UNCHANGED <<db, saved, pos, head>>
  <2>1. Store!Start("indexer")
    BY <1>0, <1>1, <1>2, <1>3, StoreSame DEF Store!Start, Histories
  <2> QED
    BY <2>1 DEF Store!Next, Self
<1>4. CASE /\ rows' = [k \in Key |-> Absent] /\ log' = {} /\ COMMIT /\ pos' = StartingCursor
  <2>1. saved'.rows = [k \in Key |-> Absent] /\ saved'.log = {}
    BY <1>4 DEF COMMIT
  <2>2. \A k \in Key : \A n : Reads(saved'.rows, saved'.log, k, n) = Absent
    BY <2>1 DEF Reads, Later
  <2>3. History(saved', floor') = [n \in Store!Point |-> Store!Nothing]
    BY <2>2, HistoryReads, StoreNames
  <2>4. Histories' = [Histories EXCEPT !["indexer"] = [n \in Store!Point |-> Store!Nothing]]
    BY <2>3, HistoriesStep
  <2>5. StoreTx = NoTx /\ StoreTx' = NoTx /\ StoreDraft' = StoreDraft
    BY <1>2 DEF StoreTx, StoreDraft
  <2>6. Store!Reset("indexer", StartingCursor)
    BY <1>0, <1>1, <1>4, <2>4, <2>5 DEF Store!Reset, Histories, Self
  <2> QED
    BY <2>6, Numbers, StoreNames DEF Store!Next, Self
<1> QED
  BY <1>3, <1>4 DEF Initialize

\* A hook commits what it undid: connect, invalidate and a pending block.
LEMMA UndoneStore ==
  ASSUME IInv, NEW hook \in Undoing, Undone(hook), UNCHANGED <<rows, log, floor>>, COMMIT,
         ~InBlock', pos' = tx.cursor, conn' \in {conn, "running"}
  PROVE  Store!Next
<1> DEFINE c == tx.cursor
<1>1. /\ UndoInv /\ c \in Point /\ ~InBlock
      /\ saved'.rows = rows /\ saved'.log = log
      /\ c <= pos /\ (c >= floor \/ c = pos) /\ pos' = c
      /\ \A e \in log : e.cursor <= c
      /\ \A n \in Point : n <= c => Kept(n)
      /\ log \union undo = log
      /\ pos \in Point /\ floor \in Point /\ head \in Point /\ log \subseteq LogRow
  BY UndoneState DEF UndoInv, COMMIT, InBlock, Undoing, IInv, TypeInv, TypeOK
<1> HIDE DEF c
<1>2. ASSUME NEW n \in Point, n <= c, NEW k \in Key
      PROVE  Reads(rows, log, k, n) = Reads(saved.rows, saved.log, k, n)
  BY <1>1, <1>2 DEF Kept
<1>3. ASSUME NEW n \in Point, c <= n, NEW k \in Key
      PROVE  Reads(rows, log, k, n) = Reads(rows, log, k, c)
  <2>1. \A e \in log : ~(e.cursor > n) /\ ~(e.cursor > c)
    BY <1>1, <1>3, LogRowType, Numbers
  <2> QED
    BY <2>1, ReadsTables
<1>4. ASSUME NEW n \in Point, NEW k \in Key
      PROVE  Reads(rows, log, k, Larger(n, floor))
               = Reads(saved.rows, saved.log, k, Larger(Store!Smaller(n, c), floor))
  <2> DEFINE m == Larger(n, floor)
             s == Store!Smaller(n, c)
  <2>1. /\ m \in Point /\ m >= n /\ m >= floor /\ m \in {n, floor}
        /\ s \in Point /\ (n <= c => s = n) /\ (c <= n => s = c)
    BY <1>1, Maximum, SmallerPoint
  <2>2. n \in Int /\ c \in Int /\ floor \in Int /\ pos \in Int
    BY <1>1, Numbers
  <2> HIDE DEF s
  <2>3. CASE c >= floor /\ m <= c
    <3>1. Larger(s, floor) = m
      BY <2>1, <2>2, <2>3 DEF m
    <3> HIDE DEF m
    <3> QED
      BY <1>2, <2>1, <2>3, <3>1 DEF m, s
  <2>4. CASE c >= floor /\ ~(m <= c)
    <3>1. Larger(s, floor) = c /\ c <= m
      BY <2>1, <2>2, <2>4 DEF Larger
    <3>2. Reads(rows, log, k, m) = Reads(rows, log, k, c)
      BY <1>3, <2>1, <3>1
    <3>3. Reads(rows, log, k, c) = Reads(saved.rows, saved.log, k, c)
      BY <1>1, <1>2, <2>2
    <3> QED
      BY <3>1, <3>2, <3>3 DEF s
  <2>5. CASE c < floor
    <3>1. Larger(s, floor) = floor /\ c <= m /\ c = pos
      BY <1>1, <2>1, <2>2, <2>5 DEF Larger
    <3>2. Reads(rows, log, k, m) = Reads(rows, log, k, c)
      BY <1>3, <2>1, <3>1
    <3>3. Reads(rows, log, k, c) = Reads(saved.rows, saved.log, k, c)
      BY <1>1, <1>2, <2>2
    <3>4. \A e \in saved.log : e.cursor > pos <=> e.cursor > floor
      BY <1>1, <2>2, <2>5, <3>1, NothingBetween DEF IInv, StoredInv
    <3>5. Reads(saved.rows, saved.log, k, c) = Reads(saved.rows, saved.log, k, floor)
      BY <3>1, <3>4, ReadsSame
    <3> QED
      BY <3>1, <3>2, <3>3, <3>5 DEF s
  <2> QED
    BY <2>2, <2>3, <2>4, <2>5
<1>5. History(saved', floor') = Store!Truncated(History(saved, floor), c)
  <2>1. History(saved', floor')
          = [n \in Point |-> [k \in Key |-> Reads(rows, log, k, Larger(n, floor))]]
    BY <1>1, HistoryReads
  <2>2. ASSUME NEW n \in Point
        PROVE  History(saved, floor)[Store!Smaller(n, c)]
                 = [k \in Key |->
                     Reads(saved.rows, saved.log, k, Larger(Store!Smaller(n, c), floor))]
    BY <1>1, HistoryReads, SmallerPoint
  <2> QED
    BY <1>4, <2>1, <2>2, StoreNames DEF Store!Truncated
<1>6. Histories' = [Histories EXCEPT !["indexer"] = Store!Truncated(Histories["indexer"], c)]
  BY <1>5, HistoriesStep DEF Histories, Self
<1>7. StoreTx = NoTx /\ StoreTx' = NoTx /\ StoreDraft' = StoreDraft
  BY <1>1 DEF StoreTx, StoreDraft
<1>8. pos' = Store!Smaller(pos, c) /\ (c >= floor \/ c >= pos)
  BY <1>1, SmallerPoint, Numbers
<1>9. conn # "stopped"
  BY <1>1 DEF UndoInv
<1>10. Store!Invalidate("indexer", c)
  BY <1>6, <1>7, <1>8, <1>9 DEF Store!Invalidate, Histories, Active, Self
<1> QED
  BY <1>1, <1>10, StoreNames DEF Store!Next, Self

LEMMA MessageFinalizeStore ==
  ASSUME IInv, NEW c \in Block, MessageFinalize(c)
  PROVE  UNCHANGED Store!vars
<1>1. /\ tx = NoTx /\ tx' = NoTx /\ c <= floor /\ UNCHANGED <<pos, floor>>
      /\ saved'.rows = saved.rows /\ saved'.log = {e \in saved.log : e.cursor > c}
  BY IdleState DEF MessageFinalize, Idle, Finalize, COMMIT, stream
<1>2. saved.log \subseteq LogRow /\ floor \in Point
  BY DEF IInv, TypeInv, TypeOK, StoredInv, Ordered
<1>3. ASSUME NEW n \in Point, NEW k \in Key
      PROVE  Reads(saved'.rows, saved'.log, k, Larger(n, floor))
               = Reads(saved.rows, saved.log, k, Larger(n, floor))
  <2> DEFINE m == Larger(n, floor)
  <2>1. m \in Point /\ m >= floor
    BY <1>2, Maximum
  <2> HIDE DEF m
  <2>2. Later(saved'.log, k, m) = Later(saved.log, k, m)
    BY <1>1, <1>2, <2>1, LogRowType, Numbers DEF Later
  <2>3. Reads(saved'.rows, saved'.log, k, m) = Reads(saved.rows, saved.log, k, m)
    BY <1>1, <2>2, ReadsLater
  <2> QED
    BY <2>3 DEF m
<1>4. History(saved', floor') = History(saved, floor)
  BY <1>1, <1>3, HistoryReads
<1>5. Histories' = Histories
  BY <1>4 DEF Histories
<1>6. StoreTx' = StoreTx /\ StoreDraft' = StoreDraft
  BY <1>1 DEF StoreTx, StoreDraft, InBlock
<1>7. Active' = Active
  BY DEF MessageFinalize, Active
<1> QED
  BY <1>1, <1>5, <1>6, <1>7 DEF Store!vars, Histories

LEMMA ChainFinalizesStore ==
  ASSUME IInv, NEW c \in Block, ChainFinalizes(c)
  PROVE  Store!Next
<1>1. /\ tx = NoTx /\ floor < c /\ floor' = c /\ (head # pos => c < head)
      /\ UNCHANGED <<rows, saved, tx, pos>>
      /\ pos \in Point /\ floor \in Point /\ c \in Point /\ StoredInv
  BY Numbers DEF ChainFinalizes, db, IInv, TypeInv, TypeOK
<1>2. ASSUME NEW n \in Point
      PROVE  /\ Larger(Larger(n, c), floor) = Larger(n, c) /\ Larger(n, c) \in Point
             /\ Larger(pos, floor) \in Point
  BY <1>1, Numbers DEF Larger
<1>3. History(saved', floor') = Store!Forgotten(History(saved, floor), c)
  BY <1>1, <1>2, HistoryReads, StoreNames DEF Store!Forgotten
<1>4. Histories' = [Histories EXCEPT !["indexer"] = Store!Forgotten(Histories["indexer"], c)]
  BY <1>3, HistoriesStep DEF Histories, Self
<1>5. StoreTx = NoTx /\ StoreTx' = NoTx /\ StoreDraft' = StoreDraft
  BY <1>1 DEF StoreTx, StoreDraft, InBlock
<1>6. ASSUME NEW k \in Key
      PROVE  Reads(saved.rows, saved.log, k, Larger(pos, c))
               = Reads(saved.rows, saved.log, k, Larger(pos, floor))
  <2>1. ASSUME NEW final \in {c, floor}
        PROVE  \A e \in saved.log : e.cursor > pos <=> e.cursor > Larger(pos, final)
    <3>1. /\ Larger(pos, final) \in Point /\ pos <= Larger(pos, final)
          /\ head # pos => Larger(pos, final) < head
      BY <1>1, Numbers DEF Larger, StoredInv, IInv, TypeInv, TypeOK
    <3> QED
      BY <3>1, NothingBetween
  <2>2. \A e \in saved.log : e.cursor > Larger(pos, c) <=> e.cursor > Larger(pos, floor)
    BY <2>1
  <2> QED
    BY <2>2, ReadsSame
<1>7. Larger(c, pos) = Larger(pos, c)
  BY <1>1, Numbers DEF Larger
<1>8. Histories["indexer"][Larger(c, pos)] = Histories["indexer"][pos]
  BY <1>1, <1>2, <1>6, <1>7, HistoryReads DEF Histories, Self
<1>9. c = Larger(floor, c)
  BY <1>1, Numbers DEF Larger
<1>10. Active' = Active
  BY DEF ChainFinalizes, Active
<1>11. Store!Finalize("indexer", c)
  BY <1>1, <1>4, <1>5, <1>8, <1>9, <1>10, StoreNames DEF Store!Finalize, Histories, Self
<1> QED
  BY <1>1, <1>11, StoreNames DEF Store!Next, Self

LEMMA OpenBlockStore ==
  ASSUME IInv, IInv', OpenBlock
  PROVE  Store!Next
<1> DEFINE b == tx.endCursor
           pending == tx.finality = "pending"
<1>1. /\ BlockInv /\ tx # NoTx /\ tx.hook = "begin" /\ tx \in Transaction /\ b \in Block
      /\ rows = saved.rows /\ \A e \in saved.log : e.cursor <= pos
      /\ UNCHANGED <<rows, saved, pos, floor>>
      /\ tx' = [tx EXCEPT !.hook = "block"]
      /\ pos \in Point /\ floor \in Point /\ saved.log \subseteq LogRow
      /\ rows \in Content
  BY HookOf DEF OpenBlock, BlockInv, Undoing, stream, IInv, TypeInv, TypeOK, StoredInv, Ordered
<1>2. /\ tx' \in Transaction /\ tx'.hook = "block" /\ tx'.endCursor = b
      /\ tx'.finality = tx.finality
  BY <1>1 DEF Transaction, Hook
<1>3. InBlock' /\ ~InBlock
  BY <1>1, <1>2, DrizzleAssumption DEF InBlock
<1>4. StoreTx = NoTx /\ StoreTx' = [indexer |-> "indexer", block |-> b, pending |-> pending]
  BY <1>2, <1>3 DEF StoreTx
<1>5. StoreDraft' = [k \in Key |-> rows[k]]
  BY <1>1, <1>3 DEF StoreDraft
<1>6. ASSUME NEW k \in Key
      PROVE  Reads(saved.rows, saved.log, k, Larger(pos, floor)) = rows[k]
  <2>1. Larger(pos, floor) \in Point /\ Larger(pos, floor) >= pos
    BY <1>1, Maximum
  <2>2. \A e \in saved.log : ~(e.cursor > Larger(pos, floor))
    BY <1>1, <2>1, LogRowType, Numbers
  <2> QED
    BY <1>1, <2>2, ReadsTables
<1>7. StoreDraft' = Histories["indexer"][pos]
  BY <1>1, <1>5, <1>6, HistoryReads DEF Histories, Self
<1>8. pos < b /\ conn = "running" /\ conn' = conn
  BY <1>1 DEF BlockInv, Announced, OpenBlock
<1>9. Store!Begin("indexer", b, pending)
  BY <1>1, <1>4, <1>7, <1>8 DEF Store!Begin, Histories, Active, Self
<1> QED
  BY <1>1, <1>9, StoreNames DEF Store!Next, Self

LEMMA StatementStore ==
  ASSUME IInv, NEW op, NEW k \in Key, NEW v \in Value \union {Absent}, Statement(op, k, v)
  PROVE  Store!Next
<1>1. /\ InBlock /\ UNCHANGED <<saved, tx, pos, floor, conn>> /\ TypeInv /\ InBlock'
      /\ rows' = [rows EXCEPT ![k] = v] /\ rows \in Content
  BY DEF Statement, Execute, IInv, TypeInv, TypeOK, stream, InBlock
<1>2. StoreDraft' = [StoreDraft EXCEPT ![k] = v]
  BY <1>1 DEF StoreDraft, Content
<1>3. StoreTx # NoTx /\ StoreTx' = StoreTx
  BY <1>1, StoreTxType DEF StoreTx
<1>4. Store!Write(k, v)
  BY <1>1, <1>2, <1>3 DEF Store!Write, Active
<1> QED
  BY <1>4 DEF Store!Next

\* A failure or a crash.
LEMMA RollbackStore ==
  ASSUME IInv, tx' = NoTx, UNCHANGED <<saved, pos, floor>>, conn' = "stopped"
  PROVE  Store!Next
<1>1. ~InBlock' /\ TypeInv /\ Active' \subseteq Active
  BY DEF InBlock, IInv, Active
<1>2. CASE ~InBlock
  BY <1>1, <1>2, StopStore
<1>3. CASE InBlock
  <2>1. StoreTx # NoTx /\ StoreTx' = NoTx /\ StoreDraft' = Store!Nothing
    BY <1>1, <1>3, StoreTxType, StoreNames DEF StoreTx, StoreDraft
  <2>2. Store!Rollback
    BY <1>1, <2>1 DEF Store!Rollback
  <2> QED
    BY <2>2 DEF Store!Next
<1> QED
  BY <1>2, <1>3

LEMMA CommitStore ==
  ASSUME IInv, CommitBlock, conn' \in {conn, "stopped"}
  PROVE  Store!Next
<1> DEFINE b == tx.endCursor
           pending == tx.finality = "pending"
<1>1. /\ InBlock /\ tx' = NoTx /\ UNCHANGED floor /\ ~InBlock'
      /\ saved'.rows = rows /\ saved'.log = log
      /\ pos' = IF pending THEN pos ELSE b
  BY DEF CommitBlock, COMMIT, InBlock
<1>2. /\ BlockInv /\ b \in Block /\ undo = {} /\ log \union undo = log
      /\ rows \in Content /\ pos \in Point /\ floor \in Point /\ pos < b
      /\ log \subseteq LogRow /\ saved.log \subseteq LogRow
      /\ \A e \in log : e.cursor <= b
      /\ \A e \in saved.log : e.cursor <= pos
  BY <1>1, HandlerState DEF BlockInv, Announced, StoredInv, Ordered
<1>3. /\ StoreTx = [indexer |-> "indexer", block |-> b, pending |-> pending]
      /\ StoreTx # NoTx /\ StoreTx' = NoTx
      /\ StoreDraft' = Store!Nothing /\ StoreDraft = [k \in Key |-> rows[k]]
  BY <1>1, StoreNames, StoreTxType DEF StoreTx, StoreDraft, IInv
<1> HIDE DEF b
<1>4. ASSUME NEW m \in Point, floor <= m, m < b, NEW k \in Key
      PROVE  Reads(rows, log, k, m)
               = Reads(saved.rows, saved.log, k, Larger(Store!Smaller(m, pos), floor))
  <2>1. Reads(rows, log, k, m) = Reads(saved.rows, saved.log, k, m)
    BY <1>2, <1>4 DEF BlockInv, Kept, b
  <2>2. m \in Int /\ pos \in Int /\ floor \in Int
    BY <1>2, <1>4, Numbers
  <2>3. CASE m <= pos
    <3>1. Store!Smaller(m, pos) = m /\ Larger(m, floor) = m
      BY <1>2, <1>4, <2>2, <2>3, SmallerPoint DEF Larger
    <3> QED
      BY <2>1, <3>1
  <2>4. CASE pos < m
    <3>1. Store!Smaller(m, pos) = pos /\ Larger(pos, floor) >= pos /\ Larger(pos, floor) \in Point
      BY <1>2, <1>4, <2>2, <2>4, SmallerPoint, Maximum
    <3>2. \A e \in saved.log : ~(e.cursor > m) /\ ~(e.cursor > Larger(pos, floor))
      <4>1. Larger(pos, floor) \in Int
        BY <3>1, Numbers
      <4> HIDE DEF pending
      <4>2. \A e \in saved.log : e.cursor \in Int /\ e.cursor <= pos
        BY <1>2, LogRowType
      <4> QED
        BY <2>2, <2>4, <3>1, <4>1, <4>2
    <3>3. Reads(saved.rows, saved.log, k, m)
            = Reads(saved.rows, saved.log, k, Larger(pos, floor))
      BY <3>2, ReadsSame
    <3> QED
      BY <2>1, <3>1, <3>3
  <2> QED
    BY <2>2, <2>3, <2>4
<1>5. ASSUME NEW m \in Point, ~(m < b), NEW k \in Key
      PROVE  Reads(rows, log, k, m) = rows[k]
  <2>1. \A e \in log : ~(e.cursor > m)
    BY <1>2, <1>5, LogRowType, Numbers
  <2> QED
    BY <2>1, ReadsTables
<1> DEFINE extended == Store!Extended(History(saved, floor), pos, b, StoreDraft)
<1>6. ASSUME NEW n \in Point
      PROVE  [k \in Key |-> Reads(rows, log, k, Larger(n, floor))] = extended[Larger(n, floor)]
  <2> DEFINE m == Larger(n, floor)
  <2>1. m \in Point /\ floor <= m /\ Store!Smaller(m, pos) \in Point
    BY <1>2, Maximum, SmallerPoint, Numbers
  <2> HIDE DEF m
  <2>2. extended[m] = IF m < b THEN History(saved, floor)[Store!Smaller(m, pos)] ELSE StoreDraft
    BY <2>1, StoreNames DEF Store!Extended
  <2>3. History(saved, floor)[Store!Smaller(m, pos)]
          = [k \in Key |->
              Reads(saved.rows, saved.log, k, Larger(Store!Smaller(m, pos), floor))]
    BY <2>1, HistoryReads
  <2>4. CASE m < b
    BY <1>4, <2>1, <2>2, <2>3, <2>4 DEF m
  <2>5. CASE ~(m < b)
    BY <1>3, <1>5, <2>1, <2>2, <2>5 DEF m
  <2> QED
    BY <2>4, <2>5
<1>7. History(saved', floor') = Store!Forgotten(extended, floor)
  <2>1. Store!Forgotten(extended, floor) = [n \in Point |-> extended[Larger(n, floor)]]
    BY StoreNames DEF Store!Forgotten
  <2>2. History(saved', floor')
          = [n \in Point |-> [k \in Key |-> Reads(rows, log, k, Larger(n, floor))]]
    BY <1>1, HistoryReads
  <2> HIDE DEF extended
  <2> QED
    BY <1>6, <2>1, <2>2
<1>8. Histories' = [Histories EXCEPT !["indexer"] = Store!Forgotten(extended, floor)]
  BY <1>7, HistoriesStep
<1>9. Histories["indexer"] = History(saved, floor)
  BY DEF Histories, Self
<1>10. Active' \in {Active, Active \ {"indexer"}}
  BY DEF Active, Self
<1>11. Store!Commit
  BY <1>1, <1>3, <1>8, <1>9, <1>10 DEF Store!Commit, Histories, Self
<1> QED
  BY <1>11 DEF Store!Next

LEMMA NextStore == Clean /\ IInv /\ IInv' /\ [Next]_vars => [Store!Next]_(Store!vars)
<1> SUFFICES ASSUME Clean, IInv, IInv', [Next]_vars PROVE [Store!Next]_(Store!vars)
  OBVIOUS
<1>1. CASE Initialize
  BY <1>1, InitializeStore
<1>2. CASE Connect
  <2>1. tx = NoTx /\ conn = "initialized"
    BY <1>2, HookOf DEF Connect, UndoInv, BlockInv, Announced, IInv, StoredInv, Clean,
       CheckpointKeepsUp, RequestedCursor, Invalidate
  <2>2. UNCHANGED <<saved, pos, floor>> /\ (tx' = tx \/ tx'.hook = "connect")
    BY <1>2, TxOf DEF Connect, Invalidate, plugin, stream
  <2>3. Active' = Active
    BY <1>2, <2>1 DEF Connect, Active
  <2> QED
    BY <2>1, <2>2, <2>3, StoreStutters DEF InBlock
<1>3. CASE ConnectDone
  <2>1. tx.cursor = pos /\ pos' = pos /\ ~InBlock'
    BY <1>3, UndoneState DEF ConnectDone, Undoing, UndoInv, InBlock
  <2> QED
    BY <1>3, <2>1, UndoneStore DEF ConnectDone, Undoing
<1>4. CASE MessageInvalidateDone
  BY <1>4, UndoneStore DEF MessageInvalidateDone, Undoing, InBlock
<1>5. CASE PendingUndone
  <2>1. tx.cursor = pos /\ pos' = pos /\ tx \in Transaction
    BY <1>5, UndoneState, HookOf DEF PendingUndone, Undoing, UndoInv, stream
  <2>2. ~InBlock' /\ UNCHANGED <<rows, log, floor>>
    BY <1>5, <2>1 DEF PendingUndone, InBlock, Transaction, db, stream
  <2> QED
    BY <1>5, <2>1, <2>2, UndoneStore DEF PendingUndone, Undoing
<1>6. ASSUME NEW c \in Block, MessageInvalidate(c) PROVE [Store!Next]_(Store!vars)
  <2>1. UNCHANGED <<saved, pos, floor>> /\ tx = NoTx /\ tx'.hook = "invalidate"
        /\ Active' = Active
    BY <1>6 DEF MessageInvalidate, Invalidate, Idle, stream, Active
  <2> QED
    BY <2>1, StoreStutters DEF InBlock
<1>7. ASSUME NEW c \in Block, MessageFinalize(c) PROVE [Store!Next]_(Store!vars)
  BY <1>7, MessageFinalizeStore
<1>8. ASSUME NEW c \in Block, ChainFinalizes(c) PROVE [Store!Next]_(Store!vars)
  BY <1>8, ChainFinalizesStore
<1>9. CASE UndoStep
  <2>1. PICK e \in undo : First(e) /\ UNCHANGED <<saved, tx, pos, floor>>
    BY <1>9, UndoStepIs
  <2>2. tx.hook # "block"
    BY <1>9, <2>1, FirstIsNewest DEF UndoStep, Undoing
  <2>3. conn' = "stopped" \/ conn' = conn
    BY <1>9 DEF UndoStep, Throw, Stop
  <2>4. CASE conn' = "stopped"
    BY <2>1, <2>2, <2>4, StopStore DEF InBlock
  <2>5. CASE conn' = conn
    BY <2>1, <2>2, <2>5, StoreStutters DEF InBlock, Active
  <2> QED
    BY <2>3, <2>4, <2>5
<1>10. ASSUME NEW b \in Block, NEW finality \in Finality, BeginBlock(b, finality)
       PROVE  [Store!Next]_(Store!vars)
  <2>1. UNCHANGED <<saved, pos, floor>> /\ tx = NoTx
        /\ (tx' = tx \/ tx'.hook \in {"pending", "begin"})
        /\ (conn' = conn \/ conn' = "stopped")
    BY <1>10 DEF BeginBlock, Sends, Idle, Invalidate, Stop, stream
  <2>2. CASE conn' = "stopped"
    BY <2>1, <2>2, StopStore DEF InBlock
  <2>3. CASE conn' = conn
    BY <2>1, <2>3, StoreStutters DEF InBlock, Active
  <2> QED
    BY <2>1, <2>2, <2>3
<1>11. CASE OpenBlock
  BY <1>11, OpenBlockStore
<1>12. ASSUME NEW k \in Key, (\E v \in Value : Insert(k, v) \/ Update(k, v)) \/ Delete(k)
       PROVE  [Store!Next]_(Store!vars)
  BY <1>12, StatementStore DEF Insert, Update, Delete
<1>13. CASE Commit \/ CommitUnanswered
  BY <1>13, CommitStore DEF Commit, CommitUnanswered, Stop
<1>14. CASE Fails \/ Crash
  BY <1>14, RollbackStore DEF Fails, Crash, Throw, ROLLBACK, Stop, stream
<1>15. CASE Disconnect
  BY <1>15, StopStore DEF Disconnect, Stop, db, stream
<1>16. CASE UNCHANGED vars
  BY <1>16, StoreStutters DEF vars, Active
<1> QED
  BY <1>1, <1>2, <1>3, <1>4, <1>5, <1>6, <1>7, <1>8, <1>9, <1>10, <1>11, <1>12, <1>13, <1>14,
     <1>15, <1>16 DEF Next

\* The plugin implements the store although it keeps no history but the log:
\* however blocks, reorganizations, pending blocks, finalizations, failures
\* and restarts follow each other, a handler finds the content after the block
\* before its own, and a block's writes take effect when it commits.
THEOREM ImplementsStore == Clean /\ Spec => StoreSpec
<1> SUFFICES ASSUME Clean PROVE Spec => StoreSpec
  OBVIOUS
<1>1. Spec => []IInv
  BY Invariance
<1>2. IInv /\ IInv' /\ [Next]_vars => [Store!Next]_(Store!vars)
  BY NextStore
<1> QED
  BY <1>1, <1>2, InitStore, PTL DEF Spec, StoreSpec, Store!Spec
=============================================================================
