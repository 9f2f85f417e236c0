-------------------------- MODULE SqliteStorageProofs --------------------------
(***************************************************************************)
(* SqliteStorage implements ReorgStore, for any indexers, keys, values and *)
(* number of blocks.                                                       *)
(***************************************************************************)
EXTENDS SqliteStorage, TLAPS

(* Either the indexers start from a cursor or their blocks are never       *)
(* pending; otherwise a restart before the first checkpoint keeps the rows  *)
(* of a pending block, and the indexer is no ReorgStore.                    *)
Clean == StartingCursor # Undefined \/ "pending" \notin Finalities

-----------------------------------------------------------------------------
(* Which values the statements leave.                                      *)

\* What a row of ValuesAt is.
LEMMA InValuesAt ==
  ASSUME NEW rows, NEW i, NEW k, NEW n, NEW v
  PROVE  v \in ValuesAt(rows, i, k, n) <=>
           \E r \in rows : r.id = i /\ r.k = k /\ ValidAt(r, n) /\ r.v = v
BY DEF ValuesAt

\* The values of the rows without an end.
Current(rows, i, k) ==
  {r.v : r \in {s \in rows : s.id = i /\ s.k = k /\ s.to = Null}}

\* Block e is not the beginning or the end of a row of i.
Untouched(rows, i, e) ==
  \A r \in rows : r.id = i => r.from # e /\ r.to # e

\* The content is the same at two blocks when no row begins or ends after the
\* first, up to the second.
LEMMA NothingBetween ==
  ASSUME NEW rows, rows \subseteq Row, NEW i, NEW k,
         NEW m \in Point, NEW n \in Point, m <= n,
         \A e \in Block : m < e /\ e <= n => Untouched(rows, i, e)
  PROVE  ValuesAt(rows, i, k, m) = ValuesAt(rows, i, k, n)
<1>1. ASSUME NEW r \in rows, r.id = i
      PROVE  ValidAt(r, m) <=> ValidAt(r, n)
  <2>1. r.from \in Block /\ r.to \in Block \union {Null}
    BY <1>1 DEF Row
  <2>2. ~(m < r.from /\ r.from <= n)
    BY <1>1, <2>1 DEF Untouched
  <2>3. r.to # Null => r.to \in Block /\ ~(m < r.to /\ r.to <= n)
    BY <1>1, <2>1 DEF Untouched
  <2>4. m \in Int /\ n \in Int /\ r.from \in Int /\ (r.to # Null => r.to \in Int)
    BY <2>1, SqliteAssumption DEF Point, Block
  <2> QED BY <2>2, <2>3, <2>4 DEF ValidAt
<1>2. ASSUME NEW v
      PROVE  v \in ValuesAt(rows, i, k, m) <=> v \in ValuesAt(rows, i, k, n)
  BY <1>1, InValuesAt
<1> QED BY <1>2

\* The current values are those at the last block.
LEMMA CurrentIsLast ==
  ASSUME NEW rows, rows \subseteq Row, NEW i, NEW k, NEW n \in Point,
         \A e \in Block : n < e => Untouched(rows, i, e)
  PROVE  Current(rows, i, k) = ValuesAt(rows, i, k, n)
<1>1. ASSUME NEW r \in rows, r.id = i
      PROVE  r.to = Null <=> ValidAt(r, n)
  <2>1. r.from \in Block /\ r.to \in Block \union {Null}
    BY <1>1 DEF Row
  <2>2. ~(n < r.from)
    BY <1>1, <2>1 DEF Untouched
  <2>3. r.to # Null => r.to \in Block /\ ~(n < r.to)
    BY <1>1, <2>1 DEF Untouched
  <2>4. n \in Int /\ r.from \in Int
    BY <2>1, SqliteAssumption DEF Point, Block
  <2> QED BY <2>2, <2>3, <2>4 DEF ValidAt
<1>2. ASSUME NEW v
      PROVE  v \in Current(rows, i, k) <=> v \in ValuesAt(rows, i, k, n)
  BY <1>1, InValuesAt DEF Current
<1> QED BY <1>2

\* What a row of InvalidateKV is: a row that began by c, open again if it
\* ended after c.
Reopened(r, c) == IF r.to # Null /\ r.to > c THEN [r EXCEPT !.to = Null] ELSE r

LEMMA InInvalidateKV ==
  ASSUME NEW rows, NEW i, NEW c, NEW r
  PROVE  r \in InvalidateKV(rows, i, c) <=>
           \/ r \in rows /\ r.id # i
           \/ \E s \in rows : s.id = i /\ ~(s.from > c) /\ r = Reopened(s, c)
BY DEF InvalidateKV, Reopened

LEMMA ReopenedRow ==
  ASSUME NEW s \in Row, NEW c \in Point
  PROVE  /\ Reopened(s, c) \in Row
         /\ Reopened(s, c).id = s.id /\ Reopened(s, c).k = s.k
         /\ Reopened(s, c).from = s.from /\ Reopened(s, c).v = s.v
         /\ Reopened(s, c).to = IF s.to # Null /\ s.to > c THEN Null ELSE s.to
BY DEF Reopened, Row

\* InvalidateKV returns to the content at c.
LEMMA InvalidateValues ==
  ASSUME NEW rows, rows \subseteq Row, NEW i, NEW k,
         NEW c \in Point, NEW n \in Point
  PROVE  ValuesAt(InvalidateKV(rows, i, c), i, k, n)
           = ValuesAt(rows, i, k, Smaller(n, c))
<1>1. ASSUME NEW s \in rows
      PROVE  ~(s.from > c) /\ ValidAt(Reopened(s, c), n) <=> ValidAt(s, Smaller(n, c))
  <2>1. s \in Row /\ s.from \in Block /\ s.to \in Block \union {Null}
    BY DEF Row
  <2>2. Reopened(s, c).from = s.from
        /\ Reopened(s, c).to = IF s.to # Null /\ s.to > c THEN Null ELSE s.to
    BY <2>1, ReopenedRow
  <2>3. n \in Int /\ c \in Int /\ s.from \in Int /\ (s.to # Null => s.to \in Int)
    BY <2>1, SqliteAssumption DEF Point, Block
  <2> QED BY <2>2, <2>3 DEF ValidAt, Smaller
<1>2. ASSUME NEW v, v \in ValuesAt(InvalidateKV(rows, i, c), i, k, n)
      PROVE  v \in ValuesAt(rows, i, k, Smaller(n, c))
  <2>1. PICK r \in InvalidateKV(rows, i, c) :
          r.id = i /\ r.k = k /\ ValidAt(r, n) /\ r.v = v
    BY <1>2, InValuesAt
  <2>2. PICK s \in rows : s.id = i /\ ~(s.from > c) /\ r = Reopened(s, c)
    BY <2>1, InInvalidateKV
  <2>3. s.k = k /\ s.v = v
    BY <2>1, <2>2, ReopenedRow
  <2>4. ValidAt(s, Smaller(n, c))
    BY <1>1, <2>1, <2>2
  <2> QED BY <2>2, <2>3, <2>4, InValuesAt
<1>3. ASSUME NEW v, v \in ValuesAt(rows, i, k, Smaller(n, c))
      PROVE  v \in ValuesAt(InvalidateKV(rows, i, c), i, k, n)
  <2>1. PICK s \in rows :
          s.id = i /\ s.k = k /\ ValidAt(s, Smaller(n, c)) /\ s.v = v
    BY <1>3, InValuesAt
  <2>2. ~(s.from > c) /\ ValidAt(Reopened(s, c), n)
    BY <1>1, <2>1
  <2>3. Reopened(s, c) \in InvalidateKV(rows, i, c)
    BY <2>1, <2>2, InInvalidateKV
  <2>4. Reopened(s, c).id = i /\ Reopened(s, c).k = k /\ Reopened(s, c).v = v
    BY <2>1, ReopenedRow
  <2> QED BY <2>2, <2>3, <2>4, InValuesAt
<1> QED BY <1>2, <1>3

\* The rows of another indexer stay.
SameRows(rows, others, j) ==
  \A r \in rows \union others : r.id = j => r \in rows /\ r \in others

LEMMA SameValues ==
  ASSUME NEW rows, NEW others, NEW j, NEW k, NEW n, SameRows(rows, others, j)
  PROVE  ValuesAt(rows, j, k, n) = ValuesAt(others, j, k, n)
<1>1. ASSUME NEW v
      PROVE  v \in ValuesAt(rows, j, k, n) <=> v \in ValuesAt(others, j, k, n)
  BY InValuesAt DEF SameRows
<1> QED BY <1>1

LEMMA InvalidateOthers ==
  ASSUME NEW rows, rows \subseteq Row, NEW i, NEW j, i # j, NEW c \in Point
  PROVE  SameRows(InvalidateKV(rows, i, c), rows, j)
<1>1. ASSUME NEW r, r.id = j
      PROVE  r \in InvalidateKV(rows, i, c) <=> r \in rows
  BY <1>1, InInvalidateKV, ReopenedRow
<1> QED BY <1>1 DEF SameRows

LEMMA WriteOthers ==
  ASSUME NEW rows, rows \subseteq Row, NEW i, NEW j, i # j,
         NEW k, NEW b \in Block, NEW v
  PROVE  /\ SameRows(Close(rows, i, k, b), rows, j)
         /\ SameRows(Close(rows, i, k, b) \union {NewRow(i, k, b, v)}, rows, j)
<1>1. SameRows(Close(rows, i, k, b), rows, j)
  BY DEF SameRows, Close, Row
<1>2. SameRows(Close(rows, i, k, b) \union {NewRow(i, k, b, v)}, rows, j)
  BY <1>1 DEF SameRows, NewRow
<1> QED BY <1>1, <1>2

\* What a row of Close is.
Closed(r, i, k, b) ==
  IF r.id = i /\ r.k = k /\ r.to = Null THEN [r EXCEPT !.to = b] ELSE r

LEMMA InClose ==
  ASSUME NEW rows, NEW i, NEW k, NEW b, NEW r
  PROVE  r \in Close(rows, i, k, b) <=> \E s \in rows : r = Closed(s, i, k, b)
BY DEF Close, Closed

LEMMA ClosedRow ==
  ASSUME NEW s \in Row, NEW i, NEW k, NEW b \in Block
  PROVE  /\ Closed(s, i, k, b) \in Row
         /\ Closed(s, i, k, b).id = s.id /\ Closed(s, i, k, b).k = s.k
         /\ Closed(s, i, k, b).from = s.from /\ Closed(s, i, k, b).v = s.v
         /\ Closed(s, i, k, b).to
              = IF s.id = i /\ s.k = k /\ s.to = Null THEN b ELSE s.to
BY DEF Closed, Row

\* Closing a row at b changes nothing before b.
LEMMA CloseValues ==
  ASSUME NEW rows, rows \subseteq Row, NEW i, NEW k, NEW l,
         NEW b \in Block, NEW n \in Point, n < b
  PROVE  ValuesAt(Close(rows, i, l, b), i, k, n) = ValuesAt(rows, i, k, n)
<1>1. ASSUME NEW s \in rows
      PROVE  ValidAt(Closed(s, i, l, b), n) <=> ValidAt(s, n)
  <2>1. Closed(s, i, l, b).from = s.from
        /\ Closed(s, i, l, b).to = IF s.id = i /\ s.k = l /\ s.to = Null THEN b ELSE s.to
    BY ClosedRow
  <2>2. b # Null
    BY SqliteAssumption DEF Block
  <2> QED BY <2>1, <2>2 DEF ValidAt
<1>2. ASSUME NEW v, v \in ValuesAt(Close(rows, i, l, b), i, k, n)
      PROVE  v \in ValuesAt(rows, i, k, n)
  <2>1. PICK r \in Close(rows, i, l, b) : r.id = i /\ r.k = k /\ ValidAt(r, n) /\ r.v = v
    BY <1>2, InValuesAt
  <2>2. PICK s \in rows : r = Closed(s, i, l, b)
    BY InClose
  <2>3. s.id = i /\ s.k = k /\ s.v = v
    BY <2>1, <2>2, ClosedRow
  <2>4. ValidAt(s, n)
    BY <1>1, <2>1, <2>2
  <2> QED BY <2>3, <2>4, InValuesAt
<1>3. ASSUME NEW v, v \in ValuesAt(rows, i, k, n)
      PROVE  v \in ValuesAt(Close(rows, i, l, b), i, k, n)
  <2>1. PICK s \in rows : s.id = i /\ s.k = k /\ ValidAt(s, n) /\ s.v = v
    BY <1>3, InValuesAt
  <2>2. Closed(s, i, l, b) \in Close(rows, i, l, b)
    BY InClose
  <2>3. Closed(s, i, l, b).id = i /\ Closed(s, i, l, b).k = k /\ Closed(s, i, l, b).v = v
    BY <2>1, ClosedRow
  <2>4. ValidAt(Closed(s, i, l, b), n)
    BY <1>1, <2>1
  <2> QED BY <2>2, <2>3, <2>4, InValuesAt
<1> QED BY <1>2, <1>3

\* Nor does a row that begins at b.
LEMMA PutValues ==
  ASSUME NEW rows, rows \subseteq Row, NEW i, NEW k, NEW l, NEW v,
         NEW b \in Block, NEW n \in Point, n < b
  PROVE  ValuesAt(Close(rows, i, l, b) \union {NewRow(i, l, b, v)}, i, k, n)
           = ValuesAt(rows, i, k, n)
<1> DEFINE closed == Close(rows, i, l, b)
<1>1. ~ValidAt(NewRow(i, l, b, v), n)
  BY SqliteAssumption DEF ValidAt, NewRow, Block, Point
<1>2. ASSUME NEW w
      PROVE  w \in ValuesAt(closed \union {NewRow(i, l, b, v)}, i, k, n)
               <=> w \in ValuesAt(closed, i, k, n)
  <2> HIDE DEF closed
  <2> QED BY <1>1, InValuesAt
<1>3. ValuesAt(closed, i, k, n) = ValuesAt(rows, i, k, n)
  BY CloseValues
<1> QED BY <1>2, <1>3

\* Deleting rows that ended by c changes nothing from c on.
LEMMA FinalizeValues ==
  ASSUME NEW rows, rows \subseteq Row, NEW i, NEW k,
         NEW c \in Point, NEW n \in Point, c <= n
  PROVE  ValuesAt(FinalizeKV(rows, i, c), i, k, n) = ValuesAt(rows, i, k, n)
<1>1. ASSUME NEW r \in rows, ValidAt(r, n)
      PROVE  ~(r.to # Null /\ r.to <= c)
  <2>1. r.to \in Block \union {Null}
    BY DEF Row
  <2> QED BY <1>1, <2>1, SqliteAssumption DEF ValidAt, Point, Block
<1>2. ASSUME NEW v
      PROVE  v \in ValuesAt(FinalizeKV(rows, i, c), i, k, n) <=> v \in ValuesAt(rows, i, k, n)
  BY <1>1, InValuesAt DEF FinalizeKV
<1> QED BY <1>2

LEMMA InCurrent ==
  ASSUME NEW rows, NEW i, NEW k, NEW v
  PROVE  v \in Current(rows, i, k) <=>
           \E r \in rows : r.id = i /\ r.k = k /\ r.to = Null /\ r.v = v
BY DEF Current

\* What put and del do to the current values.
LEMMA CurrentClose ==
  ASSUME NEW rows, rows \subseteq Row, NEW i, NEW k, NEW l, NEW b \in Block
  PROVE  /\ k = l => Current(Close(rows, i, l, b), i, k) = {}
         /\ k # l => Current(Close(rows, i, l, b), i, k) = Current(rows, i, k)
<1>1. b # Null
  BY SqliteAssumption DEF Block
<1>2. ASSUME NEW r \in Close(rows, i, l, b), r.id = i, r.k = k, r.to = Null
      PROVE  k # l /\ r \in rows
  <2>1. PICK s \in rows : r = Closed(s, i, l, b)
    BY InClose
  <2>2. s.id = i /\ s.k = k /\ (k = l => s.to # Null)
    BY <1>1, <1>2, <2>1, ClosedRow
  <2>3. s.to = Null
    BY <1>1, <1>2, <2>1, ClosedRow
  <2> QED BY <2>1, <2>2, <2>3 DEF Closed
<1>3. ASSUME NEW s \in rows, s.k = k, k # l
      PROVE  s \in Close(rows, i, l, b)
  <2>1. s = Closed(s, i, l, b)
    BY <1>3 DEF Closed
  <2> QED BY <2>1, InClose
<1>4. ASSUME k # l, NEW v
      PROVE  v \in Current(Close(rows, i, l, b), i, k) <=> v \in Current(rows, i, k)
  BY <1>2, <1>3, <1>4, InCurrent
<1>5. ASSUME k = l, NEW v
      PROVE  v \notin Current(Close(rows, i, l, b), i, k)
  BY <1>2, <1>5, InCurrent
<1> QED BY <1>4, <1>5

LEMMA CurrentPut ==
  ASSUME NEW rows, rows \subseteq Row, NEW i, NEW k, NEW l, NEW b \in Block, NEW v
  PROVE  /\ k = l => Current(Close(rows, i, l, b) \union {NewRow(i, l, b, v)}, i, k) = {v}
         /\ k # l => Current(Close(rows, i, l, b) \union {NewRow(i, l, b, v)}, i, k)
                      = Current(rows, i, k)
<1>1. /\ k = l => Current(Close(rows, i, l, b), i, k) = {}
      /\ k # l => Current(Close(rows, i, l, b), i, k) = Current(rows, i, k)
  BY CurrentClose
<1>2. ASSUME NEW w
      PROVE  w \in Current(Close(rows, i, l, b) \union {NewRow(i, l, b, v)}, i, k)
               <=> \/ w \in Current(Close(rows, i, l, b), i, k)
                   \/ k = l /\ w = v
  <2>1. w \in Current(Close(rows, i, l, b) \union {NewRow(i, l, b, v)}, i, k)
          <=> \E r \in Close(rows, i, l, b) \union {NewRow(i, l, b, v)} :
                r.id = i /\ r.k = k /\ r.to = Null /\ r.v = w
    BY InCurrent
  <2>2. w \in Current(Close(rows, i, l, b), i, k)
          <=> \E r \in Close(rows, i, l, b) :
                r.id = i /\ r.k = k /\ r.to = Null /\ r.v = w
    BY InCurrent
  <2>3. /\ NewRow(i, l, b, v).id = i /\ NewRow(i, l, b, v).k = l
        /\ NewRow(i, l, b, v).to = Null /\ NewRow(i, l, b, v).v = v
    BY DEF NewRow
  <2> QED BY <2>1, <2>2, <2>3
<1>3. CASE k = l
  BY <1>1, <1>2, <1>3
<1>4. CASE k # l
  BY <1>1, <1>2, <1>4
<1> QED BY <1>3, <1>4

LEMMA GetIsCurrent ==
  ASSUME NEW rows, NEW i, NEW k
  PROVE  Get(rows, i, k) = FirstOf(Current(rows, i, k))
BY DEF Get, Current

\* What a query finds is a value.
LEMMA FirstOfType ==
  ASSUME NEW values, values \subseteq Value
  PROVE  FirstOf(values) \in Value \union {Absent}
BY DEF FirstOf

\* The statements write rows of the table.
LEMMA RowsType ==
  ASSUME NEW rows, rows \subseteq Row, NEW i \in Indexer, NEW c \in Point,
         NEW k \in Key, NEW b \in Block, NEW v \in Value
  PROVE  /\ InvalidateKV(rows, i, c) \subseteq Row
         /\ FinalizeKV(rows, i, c) \subseteq Row
         /\ CleanupKV(rows, i) \subseteq Row
         /\ Close(rows, i, k, b) \subseteq Row
         /\ NewRow(i, k, b, v) \in Row
<1>1. InvalidateKV(rows, i, c) \subseteq Row
  BY InInvalidateKV, ReopenedRow
<1>2. Close(rows, i, k, b) \subseteq Row
  BY InClose, ClosedRow
<1>3. NewRow(i, k, b, v) \in Row
  BY DEF NewRow, Row
<1> QED BY <1>1, <1>2, <1>3 DEF FinalizeKV, CleanupKV

\* Which blocks the statements leave untouched.
LEMMA UntouchedInvalidate ==
  ASSUME NEW rows, rows \subseteq Row, NEW i, NEW c \in Point, NEW e \in Block,
         Untouched(rows, i, e) \/ e > c
  PROVE  Untouched(InvalidateKV(rows, i, c), i, e)
<1> SUFFICES ASSUME NEW r \in InvalidateKV(rows, i, c), r.id = i
             PROVE  r.from # e /\ r.to # e
  BY DEF Untouched
<1>1. PICK s \in rows : s.id = i /\ ~(s.from > c) /\ r = Reopened(s, c)
  BY InInvalidateKV
<1>2. s.from \in Block /\ s.to \in Block \union {Null}
  BY DEF Row
<1>3. r.from = s.from /\ r.to = IF s.to # Null /\ s.to > c THEN Null ELSE s.to
  BY <1>1, ReopenedRow
<1>4. e # Null
  BY SqliteAssumption DEF Block
<1>5. CASE Untouched(rows, i, e)
  BY <1>1, <1>3, <1>4, <1>5 DEF Untouched
<1>6. CASE e > c
  <2>1. c \in Int /\ e \in Int
    BY SqliteAssumption DEF Point, Block
  <2> QED BY <1>1, <1>2, <1>3, <1>4, <1>6, <2>1 DEF Block
<1> QED BY <1>5, <1>6

LEMMA UntouchedWrite ==
  ASSUME NEW rows, rows \subseteq Row, NEW i, NEW k, NEW v,
         NEW b \in Block, NEW e \in Block, e # b, Untouched(rows, i, e)
  PROVE  /\ Untouched(Close(rows, i, k, b), i, e)
         /\ Untouched(Close(rows, i, k, b) \union {NewRow(i, k, b, v)}, i, e)
<1>1. ASSUME NEW r \in Close(rows, i, k, b), r.id = i
      PROVE  r.from # e /\ r.to # e
  <2>1. PICK s \in rows : r = Closed(s, i, k, b)
    BY InClose
  <2> QED BY <1>1, <2>1, ClosedRow DEF Untouched
<1>2. e # Null
  BY SqliteAssumption DEF Block
<1>3. NewRow(i, k, b, v).from # e /\ NewRow(i, k, b, v).to # e
  BY <1>2 DEF NewRow
<1> QED BY <1>1, <1>3 DEF Untouched

LEMMA UntouchedSame ==
  ASSUME NEW rows, NEW others, NEW j, NEW e,
         SameRows(rows, others, j), Untouched(others, j, e)
  PROVE  Untouched(rows, j, e)
BY DEF SameRows, Untouched

-----------------------------------------------------------------------------
(* The histories the rows stand for.                                       *)

\* The same rows, the same history.
LEMMA HistorySame ==
  ASSUME NEW rows, NEW others, NEW j, NEW final, SameRows(rows, others, j)
  PROVE  History(rows, j, final) = History(others, j, final)
BY SameValues DEF History

\* Going back to c, with the final block at or below it or nothing between.
LEMMA HistoryInvalidate ==
  ASSUME NEW rows, rows \subseteq Row, NEW i, NEW c \in Point, NEW final \in Point,
         \A e \in Block : c < e /\ e <= final => Untouched(rows, i, e)
  PROVE  History(InvalidateKV(rows, i, c), i, final)
           = Store!Truncated(History(rows, i, final), c)
<1>1. ASSUME NEW n \in Point, NEW k \in Key
      PROVE  ValuesAt(InvalidateKV(rows, i, c), i, k, Larger(n, final))
               = ValuesAt(rows, i, k, Larger(Smaller(n, c), final))
  <2>1. /\ Larger(n, final) \in Point
        /\ Smaller(Larger(n, final), c) \in Point
    BY DEF Larger, Smaller
  <2>2. ValuesAt(InvalidateKV(rows, i, c), i, k, Larger(n, final))
          = ValuesAt(rows, i, k, Smaller(Larger(n, final), c))
    BY <2>1, InvalidateValues
  <2>3. n \in Int /\ c \in Int /\ final \in Int
    BY SqliteAssumption DEF Point
  <2>4. CASE c >= final
    <3>1. Smaller(Larger(n, final), c) = Larger(Smaller(n, c), final)
      BY <2>3, <2>4 DEF Larger, Smaller
    <3> QED BY <2>2, <3>1
  <2>5. CASE c < final
    <3>1. Smaller(Larger(n, final), c) = c /\ Larger(Smaller(n, c), final) = final
      BY <2>3, <2>5 DEF Larger, Smaller
    <3>2. ValuesAt(rows, i, k, c) = ValuesAt(rows, i, k, final)
      BY <2>3, <2>5, NothingBetween
    <3> QED BY <2>2, <3>1, <3>2
  <2> QED BY <2>3, <2>4, <2>5
<1>2. ASSUME NEW n \in Point
      PROVE  Smaller(n, c) \in Point
  BY DEF Smaller
<1>3. \A n \in Point : Store!Smaller(n, c) = Smaller(n, c)
  BY DEF Store!Smaller, Smaller
<1>4. Store!Point = Point
  BY DEF Store!Point, Point
<1> QED BY <1>1, <1>2, <1>3, <1>4 DEF History, Store!Truncated

\* Forgetting what is before c.
LEMMA HistoryFinalize ==
  ASSUME NEW rows, rows \subseteq Row, NEW i, NEW c \in Point, NEW final \in Point
  PROVE  History(FinalizeKV(rows, i, c), i, Larger(final, c))
           = Store!Forgotten(History(rows, i, final), c)
<1>1. ASSUME NEW n \in Point, NEW k \in Key
      PROVE  ValuesAt(FinalizeKV(rows, i, c), i, k, Larger(n, Larger(final, c)))
               = ValuesAt(rows, i, k, Larger(Larger(n, c), final))
  <2>1. n \in Int /\ c \in Int /\ final \in Int
    BY SqliteAssumption DEF Point
  <2>2. /\ Larger(n, Larger(final, c)) = Larger(Larger(n, c), final)
        /\ c <= Larger(Larger(n, c), final)
    BY <2>1 DEF Larger
  <2>3. Larger(Larger(n, c), final) \in Point
    BY DEF Larger
  <2> QED BY <2>2, <2>3, FinalizeValues
<1>2. ASSUME NEW n \in Point
      PROVE  Larger(n, c) \in Point
  BY DEF Larger
<1>3. \A n \in Point : Store!Larger(n, c) = Larger(n, c)
  BY DEF Store!Larger, Larger
<1>4. Store!Point = Point
  BY DEF Store!Point, Point
<1> QED BY <1>1, <1>2, <1>3, <1>4 DEF History, Store!Forgotten

-----------------------------------------------------------------------------
(* The inductive invariant.                                                *)

\* Rows begin and end by the stream's position, or at the block last.
Settled(rows, i, last) ==
  \A e \in Block : pos[i] < e /\ e # last => Untouched(rows, i, e)

\* Where the stream may stand, and what is known of a pending block.
StreamInv(i) ==
  /\ StartingCursor <= pos[i] /\ pos[i] <= head[i] /\ pos[i] <= RequestedCursor(i)
  /\ head[i] # pos[i] => floor[i] < head[i] /\ StartingCursor # Undefined
  /\ conn[i] = "running" /\ head[i] # pos[i] => prevFinality[i] = "pending"

\* The handler of block b works on the content after the stream's position.
HandlerInv(i, b) ==
  /\ conn[i] \in {"running", "stopped"} /\ pos[i] < b
  /\ tx.finality \in Finalities
  /\ tx.finality = "pending" => floor[i] < b
  /\ Settled(kvs, i, b)
  /\ \A j \in Indexer : j # i => SameRows(kvs, saved, j)
  /\ \A k \in Key, n \in Point :
       floor[i] <= n /\ n < b =>
         ValuesAt(kvs, i, k, n) = ValuesAt(saved, i, k, Larger(Smaller(n, pos[i]), floor[i]))

IInv ==
  /\ TypeOK
  /\ \A i \in Indexer : StreamInv(i) /\ Settled(saved, i, head[i])
  /\ tx = NoTx => kvs = saved
  /\ tx # NoTx => HandlerInv(tx.indexer, tx.endCursor)

LEMMA Facts ==
  /\ \A b \in Block : b \in Point /\ b \in Int /\ b >= 0
  /\ \A n \in Point : n \in Int /\ n >= -1 /\ (n # Undefined => n \in Block)
  /\ Undefined \in Point /\ StartingCursor \in Point
  /\ \A t \in Transaction : t # NoTx
  /\ \A f \in Finalities : f \in Finality
BY SqliteAssumption DEF Block, Point, Undefined, Transaction

\* What a handler's transaction is.
LEMMA TxType ==
  ASSUME TypeOK, tx # NoTx
  PROVE  /\ tx \in Transaction
         /\ tx.indexer \in Indexer /\ tx.endCursor \in Block /\ tx.finality \in Finality
BY DEF TypeOK, Transaction

LEMMA InitInv == Init => IInv
<1> SUFFICES ASSUME Init PROVE IInv
  OBVIOUS
<1>1. TypeOK
  BY Facts DEF Init, TypeOK
<1>2. ASSUME NEW i \in Indexer
      PROVE  StreamInv(i) /\ Settled(saved, i, head[i])
  <2>1. pos[i] = StartingCursor /\ head[i] = StartingCursor /\ checkpoints[i] = Undefined
        /\ conn[i] = "stopped"
    BY DEF Init
  <2>2. StreamInv(i)
    BY <2>1, Facts DEF StreamInv, RequestedCursor
  <2>3. Settled(saved, i, head[i])
    BY DEF Init, Settled, Untouched
  <2> QED BY <2>2, <2>3
<1> QED BY <1>1, <1>2 DEF Init, IInv

\* The types are kept.
LEMMA TypeStep == TypeOK /\ [Next]_vars => TypeOK'
<1> SUFFICES ASSUME TypeOK, [Next]_vars PROVE TypeOK'
  OBVIOUS
<1> USE DEF TypeOK
<1>1. ASSUME NEW i \in Indexer, Initialize(i) PROVE TypeOK'
  BY <1>1, Facts DEF Initialize, Transact, CleanupKV
<1>2. ASSUME NEW i \in Indexer, Connect(i) PROVE TypeOK'
  <2>1. RequestedCursor(i) \in Point
    BY Facts DEF RequestedCursor
  <2>2. InvalidateOnConnect(i) \subseteq Row
    BY <2>1, InInvalidateKV, ReopenedRow DEF InvalidateOnConnect
  <2> QED BY <1>2, <2>2 DEF Connect, Transact
<1>3. ASSUME NEW i \in Indexer, NEW b \in Block, NEW finality \in Finalities,
             BeginBlock(i, b, finality)
      PROVE  TypeOK'
  <2>1. InvalidatePending(i) \subseteq Row
    BY InInvalidateKV, ReopenedRow DEF InvalidatePending
  <2>2. [indexer |-> i, cursor |-> pos[i], endCursor |-> b, finality |-> finality]
          \in Transaction
    BY Facts DEF Transaction
  <2> QED BY <1>3, <2>1, <2>2 DEF BeginBlock, stream
<1>4. ASSUME NEW i \in Indexer, BeginBlockFails(i) \/ BeginRefused(i) \/ Disconnect(i)
      PROVE  TypeOK'
  BY <1>4 DEF BeginBlockFails, BeginRefused, Disconnect, Stop, stream
<1>5. ASSUME NEW i \in Indexer, NEW c \in Block, MessageInvalidate(i, c) PROVE TypeOK'
  <2>1. InvalidateKV(kvs, i, c) \subseteq Row
    BY Facts, InInvalidateKV, ReopenedRow
  <2> QED BY <1>5, <2>1, Facts DEF MessageInvalidate, Transact
<1>6. ASSUME NEW i \in Indexer, NEW c \in Block, MessageFinalize(i, c) PROVE TypeOK'
  BY <1>6, Facts DEF MessageFinalize, Transact, FinalizeKV, Larger
<1>7. ASSUME NEW k \in Key, NEW v \in Value, Put(k, v) PROVE TypeOK'
  <2>1. tx.indexer \in Indexer /\ tx.endCursor \in Block
    BY <1>7, TxType DEF Put, InHandler
  <2>2. Close(kvs, tx.indexer, k, tx.endCursor) \subseteq Row
        /\ NewRow(tx.indexer, k, tx.endCursor, v) \in Row
    BY <2>1, Facts, RowsType
  <2> QED BY <1>7, <2>2 DEF Put, stream
<1>8. ASSUME NEW k \in Key, Del(k) PROVE TypeOK'
  <2>1. tx.indexer \in Indexer /\ tx.endCursor \in Block
    BY <1>8, TxType DEF Del, InHandler
  <2>2. Close(kvs, tx.indexer, k, tx.endCursor) \subseteq Row
    BY <2>1, InClose, ClosedRow
  <2> QED BY <1>8, <2>2 DEF Del, stream
<1>9. ASSUME HandlerFails \/ \E k \in Key : PutConflicts(k) PROVE TypeOK'
  BY <1>9 DEF HandlerFails, PutConflicts, Rollback, Stop, stream
<1>10. ASSUME Commit PROVE TypeOK'
  <2>1. tx.indexer \in Indexer /\ tx.endCursor \in Point /\ tx.finality \in Finality
    BY <1>10, TxType, Facts DEF Commit, InHandler
  <2> QED BY <1>10, <2>1 DEF Commit
<1>11. ASSUME Crash PROVE TypeOK'
  BY <1>11 DEF Crash, stream
<1>12. ASSUME CommitFails PROVE TypeOK'
  BY <1>12, TxType DEF CommitFails, InHandler, Stop, stream
<1>13. CASE UNCHANGED vars
  BY <1>13 DEF vars
<1> QED BY <1>1, <1>2, <1>3, <1>4, <1>5, <1>6, <1>7, <1>8, <1>9, <1>10, <1>11, <1>12, <1>13
        DEF Next

\* Every variable has its type.
THEOREM TypeCorrect == Spec => []TypeOK
<1>1. Init => TypeOK
  BY InitInv DEF IInv
<1> QED BY <1>1, TypeStep, PTL DEF Spec

-----------------------------------------------------------------------------
(* Each action keeps the invariant.                                        *)

\* Indexer j is as it was.
SameState(j) ==
  /\ pos'[j] = pos[j] /\ head'[j] = head[j] /\ floor'[j] = floor[j]
  /\ checkpoints'[j] = checkpoints[j] /\ conn'[j] = conn[j]
  /\ prevFinality'[j] = prevFinality[j]
  /\ SameRows(saved', saved, j)

LEMMA OtherInv ==
  ASSUME NEW j \in Indexer, StreamInv(j), Settled(saved, j, head[j]), SameState(j)
  PROVE  StreamInv(j)' /\ Settled(saved, j, head[j])'
<1>1. StreamInv(j)'
  BY DEF StreamInv, SameState, RequestedCursor
<1>2. Settled(saved, j, head[j])'
  BY UntouchedSame DEF Settled, SameState
<1> QED BY <1>1, <1>2

\* A transaction of i that opens and commits in one step.
LEMMA HookInv ==
  ASSUME IInv, TypeOK', NEW i \in Indexer, tx' = NoTx, kvs' = saved',
         \A j \in Indexer : j # i => SameState(j),
         StreamInv(i)', Settled(saved, i, head[i])'
  PROVE  IInv'
<1>1. ASSUME NEW j \in Indexer
      PROVE  StreamInv(j)' /\ Settled(saved, j, head[j])'
  BY OtherInv DEF IInv
<1> QED BY <1>1 DEF IInv

LEMMA InitializeInv ==
  ASSUME IInv, TypeOK', NEW i \in Indexer, Initialize(i)
  PROVE  IInv'
<1>1. tx' = NoTx /\ kvs' = saved' /\ kvs = saved /\ TypeOK
  BY DEF Initialize, Transact, IInv
<1>2. conn'[i] = "initialized"
  BY <1>1 DEF Initialize, TypeOK
<1>3. CASE /\ kvs' = CleanupKV(kvs, i)
           /\ checkpoints' = [checkpoints EXCEPT ![i] = Undefined]
           /\ pos' = [pos EXCEPT ![i] = StartingCursor]
           /\ head' = [head EXCEPT ![i] = StartingCursor]
  <2>1. ASSUME NEW j \in Indexer, j # i PROVE SameState(j)
    <3>1. SameRows(saved', saved, j)
      BY <1>1, <1>3, <2>1 DEF SameRows, CleanupKV
    <3> QED BY <1>1, <1>3, <2>1, <3>1 DEF SameState, Initialize, TypeOK
  <2>2. pos'[i] = StartingCursor /\ head'[i] = StartingCursor /\ checkpoints'[i] = Undefined
    BY <1>1, <1>3 DEF TypeOK
  <2>3. StreamInv(i)'
    BY <1>2, <2>2, Facts DEF StreamInv, RequestedCursor
  <2>4. Settled(saved, i, head[i])'
    BY <1>1, <1>3 DEF Settled, Untouched, CleanupKV
  <2> QED BY <1>1, <2>1, <2>3, <2>4, HookInv
<1>4. CASE kvs' = kvs /\ UNCHANGED <<checkpoints, pos, head>>
  <2>1. ASSUME NEW j \in Indexer, j # i PROVE SameState(j)
    BY <1>1, <1>4, <2>1 DEF SameState, SameRows, Initialize, TypeOK
  <2>2. StreamInv(i)'
    BY <1>2, <1>4 DEF StreamInv, RequestedCursor, Initialize, IInv
  <2>3. Settled(saved, i, head[i])'
    BY <1>1, <1>4 DEF Settled, IInv
  <2> QED BY <1>1, <2>1, <2>2, <2>3, HookInv
<1> QED BY <1>3, <1>4 DEF Initialize, Transact

LEMMA ConnectInv ==
  ASSUME IInv, TypeOK', NEW i \in Indexer, Connect(i)
  PROVE  IInv'
<1> DEFINE c == RequestedCursor(i)
<1>1. tx' = NoTx /\ kvs' = saved' /\ kvs = saved /\ TypeOK /\ StreamInv(i)
      /\ Settled(saved, i, head[i]) /\ kvs' = InvalidateOnConnect(i)
  BY DEF Connect, Transact, IInv
<1>2. c \in Point
  BY <1>1, Facts DEF RequestedCursor, TypeOK
<1>3. ASSUME NEW j \in Indexer, j # i PROVE SameState(j)
  <2>1. SameRows(saved', saved, j)
    <3>1. CASE c = Undefined
      BY <1>1, <3>1 DEF InvalidateOnConnect, SameRows
    <3>2. CASE c # Undefined
      BY <1>1, <1>2, <1>3, <3>2, InvalidateOthers DEF InvalidateOnConnect, TypeOK
    <3> QED BY <3>1, <3>2
  <2> QED BY <1>1, <1>3, <2>1 DEF SameState, Connect, TypeOK
<1>4. c' = c /\ pos' = pos /\ floor' = floor /\ prevFinality' = prevFinality
  BY DEF Connect, RequestedCursor
<1>5. pos[i] \in Point /\ head[i] \in Point /\ pos[i] <= c
  BY <1>1 DEF TypeOK, StreamInv
<1>6. CASE c > pos[i]
  <2>1. conn'[i] = "rewinding" /\ head' = head
    BY <1>1, <1>6 DEF Connect, TypeOK
  <2>2. StreamInv(i)'
    BY <1>1, <1>4, <2>1 DEF StreamInv
  <2>3. Settled(saved, i, head[i])'
    <3>1. ASSUME NEW e \in Block, pos[i] < e, e # head[i]
          PROVE  Untouched(saved', i, e)
      <4>1. Untouched(saved, i, e)
        BY <1>1, <3>1 DEF Settled
      <4> QED BY <1>1, <1>2, <4>1, UntouchedInvalidate DEF InvalidateOnConnect, TypeOK
    <3> QED BY <1>4, <2>1, <3>1 DEF Settled
  <2> QED BY <1>1, <1>3, <2>2, <2>3, HookInv
<1>7. CASE ~(c > pos[i])
  <2>1. c = pos[i]
    BY <1>2, <1>5, <1>7, Facts
  <2>2. conn'[i] = "running" /\ head'[i] = pos[i]
    BY <1>1, <1>7 DEF Connect, TypeOK
  <2>3. StreamInv(i)'
    BY <1>1, <1>4, <1>5, <2>2, Facts DEF StreamInv
  <2>4. Settled(saved, i, head[i])'
    <3>1. ASSUME NEW e \in Block, pos[i] < e
          PROVE  Untouched(saved', i, e)
      <4>1. CASE c = Undefined
        <5>1. head[i] = pos[i]
          BY <1>1, <1>5, <2>1, <4>1, Facts DEF StreamInv, RequestedCursor, Undefined
        <5>2. Untouched(saved, i, e)
          BY <1>1, <3>1, <5>1, <1>5, Facts DEF Settled
        <5> QED BY <1>1, <4>1, <5>2 DEF InvalidateOnConnect
      <4>2. CASE c # Undefined
        BY <1>1, <1>2, <2>1, <3>1, <4>2, UntouchedInvalidate
           DEF InvalidateOnConnect, TypeOK
      <4> QED BY <4>1, <4>2
    <3> QED BY <1>4, <3>1 DEF Settled
  <2> QED BY <1>1, <1>3, <2>3, <2>4, HookInv
<1> QED BY <1>6, <1>7

LEMMA MessageInvalidateInv ==
  ASSUME IInv, TypeOK', NEW i \in Indexer, NEW c \in Block, MessageInvalidate(i, c)
  PROVE  IInv'
<1>1. tx' = NoTx /\ kvs' = saved' /\ kvs = saved /\ TypeOK /\ StreamInv(i)
      /\ Settled(saved, i, head[i]) /\ kvs' = InvalidateKV(kvs, i, c)
  BY DEF MessageInvalidate, Transact, IInv
<1>2. ASSUME NEW j \in Indexer, j # i PROVE SameState(j)
  <2>1. SameRows(saved', saved, j)
    BY <1>1, <1>2, Facts, InvalidateOthers DEF TypeOK
  <2> QED BY <1>1, <1>2, <2>1 DEF SameState, MessageInvalidate, TypeOK
<1>3. pos'[i] = c /\ head'[i] = c /\ c <= pos[i] /\ StartingCursor <= c
      /\ checkpoints' = checkpoints
  BY <1>1 DEF MessageInvalidate, TypeOK
<1>4. RequestedCursor(i) \in Point /\ pos[i] \in Point
  BY <1>1, Facts DEF RequestedCursor, TypeOK
<1>5. StreamInv(i)'
  BY <1>1, <1>3, <1>4, Facts DEF StreamInv, RequestedCursor
<1>6. Settled(saved, i, head[i])'
  BY <1>1, <1>3, Facts, UntouchedInvalidate DEF Settled, TypeOK
<1> QED BY <1>1, <1>2, <1>5, <1>6, HookInv

LEMMA MessageFinalizeInv ==
  ASSUME IInv, TypeOK', NEW i \in Indexer, NEW c \in Block, MessageFinalize(i, c)
  PROVE  IInv'
<1>1. tx' = NoTx /\ kvs' = saved' /\ kvs = saved /\ TypeOK /\ StreamInv(i)
      /\ Settled(saved, i, head[i]) /\ kvs' = FinalizeKV(kvs, i, c)
  BY DEF MessageFinalize, Transact, IInv
<1>2. ASSUME NEW j \in Indexer, j # i PROVE SameState(j)
  <2>1. SameRows(saved', saved, j)
    BY <1>1, <1>2 DEF SameRows, FinalizeKV
  <2> QED BY <1>1, <1>2, <2>1 DEF SameState, MessageFinalize, TypeOK
<1>3. floor'[i] = Larger(floor[i], c) /\ (head[i] # pos[i] => c < head[i])
      /\ UNCHANGED <<pos, head, checkpoints, conn, prevFinality>>
  BY <1>1 DEF MessageFinalize, TypeOK
<1>4. StreamInv(i)'
  BY <1>1, <1>3 DEF StreamInv, RequestedCursor, Larger
<1>5. Settled(saved, i, head[i])'
  BY <1>1, <1>3 DEF Settled, Untouched, FinalizeKV
<1> QED BY <1>1, <1>2, <1>4, <1>5, HookInv

LEMMA BeginBlockInv ==
  ASSUME IInv, TypeOK', NEW i \in Indexer, NEW b \in Block, NEW finality \in Finalities,
         BeginBlock(i, b, finality)
  PROVE  IInv'
<1>1. /\ kvs = saved /\ TypeOK /\ StreamInv(i) /\ Settled(saved, i, head[i])
      /\ pos[i] < b /\ conn[i] = "running" /\ (finality = "pending" => b > floor[i])
      /\ UNCHANGED <<saved, checkpoints, prevFinality, conn, pos, head, floor>>
      /\ kvs' = InvalidatePending(i)
      /\ tx' = [indexer |-> i, cursor |-> pos[i], endCursor |-> b, finality |-> finality]
  BY DEF BeginBlock, Sends, IInv, stream
<1>2. \A j \in Indexer : (StreamInv(j) /\ Settled(saved, j, head[j]))'
  BY <1>1 DEF IInv, StreamInv, RequestedCursor, Settled
<1>3. /\ tx'.indexer = i /\ tx'.endCursor = b /\ tx'.finality = finality
      /\ tx' # NoTx
  <2>1. tx' \in Transaction
    BY <1>1, Facts DEF Transaction, TypeOK
  <2> QED BY <1>1, <2>1, Facts
<1>4. pos[i] \in Point /\ floor[i] \in Point /\ head[i] \in Point /\ pos[i] <= head[i]
  BY <1>1 DEF TypeOK, StreamInv
<1>5. CASE prevFinality[i] = "pending"
  <2>1. kvs' = InvalidateKV(saved, i, pos[i]) /\ saved \subseteq Row
    BY <1>1, <1>5 DEF InvalidatePending, TypeOK
  <2>2. Settled(kvs, i, b)'
    BY <1>1, <1>4, <2>1, Facts, UntouchedInvalidate DEF Settled
  <2>3. \A j \in Indexer : j # i => SameRows(kvs', saved', j)
    BY <1>1, <1>4, <2>1, InvalidateOthers
  <2>4. ASSUME NEW k \in Key, NEW n \in Point, floor[i] <= n, n < b
        PROVE  ValuesAt(kvs', i, k, n)
                 = ValuesAt(saved, i, k, Larger(Smaller(n, pos[i]), floor[i]))
    <3>1. ValuesAt(kvs', i, k, n) = ValuesAt(saved, i, k, Smaller(n, pos[i]))
      BY <1>4, <2>1, InvalidateValues
    <3>2. CASE floor[i] <= pos[i]
      <4>1. Larger(Smaller(n, pos[i]), floor[i]) = Smaller(n, pos[i])
        BY <1>4, <2>4, <3>2, Facts DEF Larger, Smaller
      <4> QED BY <3>1, <4>1
    <3>3. CASE pos[i] < floor[i]
      <4>1. Smaller(n, pos[i]) = pos[i] /\ Larger(Smaller(n, pos[i]), floor[i]) = floor[i]
        BY <1>4, <2>4, <3>3, Facts DEF Larger, Smaller
      <4>2. ASSUME NEW e \in Block, pos[i] < e, e <= floor[i]
            PROVE  Untouched(saved, i, e)
        BY <1>1, <1>4, <4>2, Facts DEF Settled, StreamInv
      <4>3. ValuesAt(saved, i, k, pos[i]) = ValuesAt(saved, i, k, floor[i])
        BY <1>4, <2>1, <3>3, <4>2, Facts, NothingBetween
      <4> QED BY <3>1, <4>1, <4>3
    <3> QED BY <1>4, <3>2, <3>3, Facts
  <2>5. HandlerInv(i, b)'
    BY <1>1, <1>3, <2>2, <2>3, <2>4 DEF HandlerInv
  <2> QED BY <1>2, <1>3, <2>5 DEF IInv
<1>6. CASE prevFinality[i] # "pending"
  <2>1. head[i] = pos[i] /\ kvs' = saved /\ saved \subseteq Row
    BY <1>1, <1>6 DEF InvalidatePending, TypeOK, StreamInv
  <2>2. \A e \in Block : pos[i] < e => Untouched(saved, i, e)
    BY <1>1, <1>4, <2>1, Facts DEF Settled
  <2>3. Settled(kvs, i, b)'
    BY <1>1, <2>1, <2>2 DEF Settled
  <2>4. \A j \in Indexer : j # i => SameRows(kvs', saved', j)
    BY <1>1, <2>1 DEF SameRows
  <2>5. ASSUME NEW k \in Key, NEW n \in Point, floor[i] <= n, n < b
        PROVE  ValuesAt(kvs', i, k, n)
                 = ValuesAt(saved, i, k, Larger(Smaller(n, pos[i]), floor[i]))
    <3> DEFINE m == Larger(Smaller(n, pos[i]), floor[i])
    <3>1. m \in Point /\ m <= n /\ \A e \in Block : m < e /\ e <= n => pos[i] < e
      BY <1>4, <2>5, Facts DEF Larger, Smaller
    <3>2. \A e \in Block : m < e /\ e <= n => Untouched(saved, i, e)
      BY <2>2, <3>1
    <3> HIDE DEF m
    <3>3. ValuesAt(saved, i, k, m) = ValuesAt(saved, i, k, n)
      BY <2>1, <3>1, <3>2, NothingBetween
    <3> QED BY <2>1, <3>3 DEF m
  <2>6. HandlerInv(i, b)'
    BY <1>1, <1>3, <2>3, <2>4, <2>5 DEF HandlerInv
  <2> QED BY <1>2, <1>3, <2>6 DEF IInv
<1> QED BY <1>5, <1>6

\* An indexer whose block is not being handled stops.
LEMMA StopInv ==
  ASSUME IInv, TypeOK', NEW i \in Indexer,
         BeginBlockFails(i) \/ BeginRefused(i) \/ Disconnect(i)
  PROVE  IInv'
<1>1. /\ UNCHANGED <<kvs, saved, checkpoints, tx, prevFinality, pos, head, floor>>
      /\ conn' = [conn EXCEPT ![i] = "stopped"] /\ ~Handling(i)
  BY DEF BeginBlockFails, BeginRefused, Disconnect, Stop, stream, Handling
<1>2. TypeOK
  BY DEF IInv
<1>3. ASSUME NEW j \in Indexer
      PROVE  StreamInv(j)' /\ Settled(saved, j, head[j])'
  BY <1>1, <1>2 DEF IInv, StreamInv, RequestedCursor, Settled, TypeOK
<1>4. ASSUME tx # NoTx
      PROVE  HandlerInv(tx.indexer, tx.endCursor)'
  <2>1. tx.indexer \in Indexer /\ tx.indexer # i
    BY <1>1, <1>2, <1>4, TxType DEF Handling
  <2>2. conn'[tx.indexer] = conn[tx.indexer]
    BY <1>1, <1>2, <2>1 DEF TypeOK
  <2> QED BY <1>1, <1>4, <2>2 DEF IInv, HandlerInv, Settled
<1> QED BY <1>1, <1>3, <1>4 DEF IInv

LEMMA PutInv ==
  ASSUME IInv, TypeOK', NEW k \in Key, NEW v \in Value, Put(k, v)
  PROVE  IInv'
<1> DEFINE i == tx.indexer
           b == tx.endCursor
<1>1. /\ TypeOK /\ tx # NoTx /\ kvs \subseteq Row /\ i \in Indexer /\ b \in Block
      /\ HandlerInv(i, b)
      /\ kvs' = Close(kvs, i, k, b) \union {NewRow(i, k, b, v)}
      /\ UNCHANGED <<saved, checkpoints, tx, prevFinality, conn, pos, head, floor>>
  BY TxType DEF IInv, Put, InHandler, stream, TypeOK
<1> HIDE DEF i, b
<1>2. \A j \in Indexer : (StreamInv(j) /\ Settled(saved, j, head[j]))'
  BY <1>1 DEF IInv, StreamInv, RequestedCursor, Settled
<1>3. \A e \in Block : pos[i] < e /\ e # b => Untouched(kvs', i, e)
  BY <1>1, UntouchedWrite DEF HandlerInv, Settled
<1>4. ASSUME NEW j \in Indexer, j # i
      PROVE  SameRows(kvs', saved, j)
  <2>1. SameRows(kvs', kvs, j)
    BY <1>1, <1>4, WriteOthers
  <2> QED BY <1>1, <1>4, <2>1 DEF HandlerInv, SameRows
<1>5. \A l \in Key, n \in Point : n < b => ValuesAt(kvs', i, l, n) = ValuesAt(kvs, i, l, n)
  BY <1>1, PutValues
<1>6. HandlerInv(i, b)'
  <2>1. i' = i /\ b' = b
    BY <1>1 DEF i, b
  <2> QED BY <1>1, <1>3, <1>4, <1>5, <2>1 DEF HandlerInv, Settled
<1> QED BY <1>1, <1>2, <1>6 DEF IInv, i, b

LEMMA DelInv ==
  ASSUME IInv, TypeOK', NEW k \in Key, Del(k)
  PROVE  IInv'
<1> DEFINE i == tx.indexer
           b == tx.endCursor
<1>1. /\ TypeOK /\ tx # NoTx /\ kvs \subseteq Row /\ i \in Indexer /\ b \in Block
      /\ HandlerInv(i, b)
      /\ kvs' = Close(kvs, i, k, b)
      /\ UNCHANGED <<saved, checkpoints, tx, prevFinality, conn, pos, head, floor>>
  BY TxType DEF IInv, Del, InHandler, stream, TypeOK
<1> HIDE DEF i, b
<1>2. \A j \in Indexer : (StreamInv(j) /\ Settled(saved, j, head[j]))'
  BY <1>1 DEF IInv, StreamInv, RequestedCursor, Settled
<1>3. \A e \in Block : pos[i] < e /\ e # b => Untouched(kvs', i, e)
  BY <1>1, UntouchedWrite DEF HandlerInv, Settled
<1>4. ASSUME NEW j \in Indexer, j # i
      PROVE  SameRows(kvs', saved, j)
  <2>1. SameRows(kvs', kvs, j)
    BY <1>1, <1>4, WriteOthers
  <2> QED BY <1>1, <1>4, <2>1 DEF HandlerInv, SameRows
<1>5. \A l \in Key, n \in Point : n < b => ValuesAt(kvs', i, l, n) = ValuesAt(kvs, i, l, n)
  BY <1>1, CloseValues
<1>6. HandlerInv(i, b)'
  <2>1. i' = i /\ b' = b
    BY <1>1 DEF i, b
  <2> QED BY <1>1, <1>3, <1>4, <1>5, <2>1 DEF HandlerInv, Settled
<1> QED BY <1>1, <1>2, <1>6 DEF IInv, i, b

\* The handler threw, or the process ended.
LEMMA AbortInv ==
  ASSUME IInv, TypeOK', Crash \/ HandlerFails \/ \E k \in Key : PutConflicts(k)
  PROVE  IInv'
<1>1. /\ kvs' = saved' /\ tx' = NoTx
      /\ UNCHANGED <<saved, checkpoints, pos, head, floor>>
      /\ TypeOK
  BY DEF Crash, HandlerFails, PutConflicts, InHandler, Rollback, IInv, stream
<1>2. ASSUME NEW j \in Indexer
      PROVE  conn'[j] = "stopped" \/ (conn'[j] = conn[j] /\ prevFinality' = prevFinality)
  BY <1>1, <1>2, TxType
     DEF Crash, HandlerFails, PutConflicts, InHandler, Rollback, Stop, TypeOK
<1>3. ASSUME NEW j \in Indexer
      PROVE  StreamInv(j)' /\ Settled(saved, j, head[j])'
  BY <1>1, <1>2 DEF IInv, StreamInv, RequestedCursor, Settled
<1> QED BY <1>1, <1>3 DEF IInv

\* COMMIT threw: the transaction is rolled back, or left open.
LEMMA CommitFailsInv ==
  ASSUME IInv, TypeOK', CommitFails
  PROVE  IInv'
<1> DEFINE i == tx.indexer
<1>1. /\ TypeOK /\ tx # NoTx /\ i \in Indexer /\ HandlerInv(i, tx.endCursor)
      /\ conn' = [conn EXCEPT ![i] = "stopped"]
      /\ prevFinality' = [prevFinality EXCEPT ![i] = tx.finality]
      /\ UNCHANGED <<saved, checkpoints, pos, head, floor>>
  BY TxType DEF CommitFails, InHandler, Stop, IInv, stream
<1>2. conn'[i] = "stopped"
      /\ \A j \in Indexer : j # i => conn'[j] = conn[j] /\ prevFinality'[j] = prevFinality[j]
  BY <1>1 DEF TypeOK
<1> HIDE DEF i
<1>3. ASSUME NEW j \in Indexer
      PROVE  StreamInv(j)' /\ Settled(saved, j, head[j])'
  BY <1>1, <1>2 DEF IInv, StreamInv, RequestedCursor, Settled
<1>4. CASE kvs' = saved /\ tx' = NoTx
  BY <1>1, <1>3, <1>4 DEF IInv
<1>5. CASE UNCHANGED <<kvs, tx>>
  <2>1. HandlerInv(i, tx.endCursor)'
    BY <1>1, <1>2, <1>5 DEF HandlerInv, Settled, i
  <2> QED BY <1>1, <1>3, <1>5, <2>1 DEF IInv, i
<1> QED BY <1>4, <1>5 DEF CommitFails

LEMMA CommitInv ==
  ASSUME Clean, IInv, TypeOK', Commit
  PROVE  IInv'
<1> DEFINE pending == tx.finality = "pending"
<1>0. PICK i \in Indexer, b \in Block : i = tx.indexer /\ b = tx.endCursor
  BY TxType DEF IInv, Commit, InHandler
<1>1. /\ TypeOK /\ tx # NoTx /\ HandlerInv(i, b)
      /\ StreamInv(i) /\ tx' = NoTx /\ kvs' = saved' /\ saved' = kvs
      /\ conn' = conn /\ floor' = floor
      /\ checkpoints' = IF pending THEN checkpoints ELSE [checkpoints EXCEPT ![i] = b]
      /\ prevFinality' = [prevFinality EXCEPT ![i] = tx.finality]
      /\ pos' = IF pending THEN pos ELSE [pos EXCEPT ![i] = b]
      /\ head' = [head EXCEPT ![i] = b]
  BY <1>0 DEF IInv, Commit, InHandler
<1>2. /\ head'[i] = b /\ prevFinality'[i] = tx.finality
      /\ pos'[i] = (IF pending THEN pos[i] ELSE b)
      /\ checkpoints'[i] = (IF pending THEN checkpoints[i] ELSE b)
  BY <1>1 DEF TypeOK
<1>3. pos[i] < b /\ StartingCursor <= pos[i] /\ pos[i] <= RequestedCursor(i)
      /\ pos[i] \in Point
  BY <1>1 DEF HandlerInv, StreamInv, TypeOK
<1>4. pending => floor[i] < b /\ StartingCursor # Undefined
  BY <1>1 DEF HandlerInv, Clean
<1>5. StreamInv(i)'
  <2>1. CASE pending
    BY <1>1, <1>2, <1>3, <1>4, <2>1, Facts DEF StreamInv, RequestedCursor
  <2>2. CASE ~pending
    BY <1>1, <1>2, <1>3, <2>2, Facts DEF StreamInv, RequestedCursor, Undefined
  <2> QED BY <2>1, <2>2
<1>6. Settled(saved, i, head[i])'
  <2>1. \A e \in Block : pos[i] < e /\ e # b => Untouched(kvs, i, e)
    BY <1>1 DEF HandlerInv, Settled
  <2>2. \A e \in Block : pos'[i] < e /\ e # b => pos[i] < e
    BY <1>2, <1>3, Facts
  <2> QED BY <1>1, <1>2, <2>1, <2>2 DEF Settled
<1>7. ASSUME NEW j \in Indexer, j # i PROVE SameState(j)
  BY <1>1, <1>7 DEF SameState, HandlerInv, TypeOK
<1> QED BY <1>1, <1>5, <1>6, <1>7, HookInv

LEMMA NextInv == Clean /\ IInv /\ [Next]_vars => IInv'
<1> SUFFICES ASSUME Clean, IInv, [Next]_vars PROVE IInv'
  OBVIOUS
<1>1. TypeOK'
  BY TypeStep DEF IInv
<1>2. ASSUME NEW i \in Indexer, Initialize(i) PROVE IInv'
  BY <1>1, <1>2, InitializeInv
<1>3. ASSUME NEW i \in Indexer, Connect(i) PROVE IInv'
  BY <1>1, <1>3, ConnectInv
<1>4. ASSUME NEW i \in Indexer, NEW b \in Block, NEW finality \in Finalities,
             BeginBlock(i, b, finality)
      PROVE  IInv'
  BY <1>1, <1>4, BeginBlockInv
<1>5. ASSUME NEW i \in Indexer, BeginBlockFails(i) \/ BeginRefused(i) \/ Disconnect(i)
      PROVE  IInv'
  BY <1>1, <1>5, StopInv
<1>6. ASSUME NEW i \in Indexer, NEW c \in Block, MessageInvalidate(i, c) PROVE IInv'
  BY <1>1, <1>6, MessageInvalidateInv
<1>7. ASSUME NEW i \in Indexer, NEW c \in Block, MessageFinalize(i, c) PROVE IInv'
  BY <1>1, <1>7, MessageFinalizeInv
<1>8. ASSUME NEW k \in Key, NEW v \in Value, Put(k, v) PROVE IInv'
  BY <1>1, <1>8, PutInv
<1>9. ASSUME NEW k \in Key, Del(k) PROVE IInv'
  BY <1>1, <1>9, DelInv
<1>10. ASSUME Crash \/ HandlerFails \/ \E k \in Key : PutConflicts(k) PROVE IInv'
  BY <1>1, <1>10, AbortInv
<1>11. ASSUME Commit PROVE IInv'
  BY <1>1, <1>11, CommitInv
<1>12. ASSUME CommitFails PROVE IInv'
  BY <1>1, <1>12, CommitFailsInv
<1>13. CASE UNCHANGED vars
  <2>1. UNCHANGED <<kvs, saved, checkpoints, tx, prevFinality, conn, pos, head, floor>>
    BY <1>13 DEF vars
  <2>2. \A i \in Indexer : (StreamInv(i) /\ Settled(saved, i, head[i]))'
    BY <2>1 DEF IInv, StreamInv, RequestedCursor, Settled
  <2>3. tx # NoTx => HandlerInv(tx.indexer, tx.endCursor)'
    BY <2>1 DEF IInv, HandlerInv, Settled
  <2> QED BY <1>1, <2>1, <2>2, <2>3 DEF IInv
<1> QED BY <1>2, <1>3, <1>4, <1>5, <1>6, <1>7, <1>8, <1>9, <1>10, <1>11, <1>12, <1>13
        DEF Next

THEOREM Invariance == Clean /\ Spec => []IInv
<1> SUFFICES ASSUME Clean PROVE Spec => []IInv
  OBVIOUS
<1>1. IInv /\ [Next]_vars => IInv'
  BY NextInv
<1> QED BY InitInv, <1>1, PTL DEF Spec

-----------------------------------------------------------------------------
(* Every step is one of the store's, or changes nothing there.             *)

Histories == [j \in Indexer |-> History(saved, j, floor[j])]

\* A transaction of i changes the history of i only.
LEMMA HistoriesStep ==
  ASSUME NEW i \in Indexer, NEW history,
         \A j \in Indexer : j # i => SameRows(saved', saved, j) /\ floor'[j] = floor[j],
         History(saved', i, floor'[i]) = history
  PROVE  Histories' = [Histories EXCEPT ![i] = history]
<1>1. ASSUME NEW j \in Indexer, j # i
      PROVE  History(saved', j, floor'[j]) = History(saved, j, floor[j])
  BY <1>1, HistorySame
<1> QED BY <1>1 DEF Histories

\* The store only depends on these.
LEMMA StoreSame ==
  ASSUME UNCHANGED <<kvs, saved, tx, pos, floor>>
  PROVE  UNCHANGED <<Histories, StoreTx, StoreDraft, pos, floor>>
BY DEF Histories, StoreTx, StoreDraft

LEMMA StoreStutters ==
  ASSUME UNCHANGED <<kvs, saved, tx, pos, floor, conn>>
  PROVE  UNCHANGED Store!vars
BY StoreSame DEF Store!vars, Histories, Active

\* Indexers stop.
LEMMA StopStore ==
  ASSUME TypeOK, UNCHANGED <<kvs, saved, tx, pos, floor>>, Active' \subseteq Active
  PROVE  Store!Next
<1>1. Store!Stop
  BY StoreSame DEF Store!Stop, Histories
<1> QED BY <1>1 DEF Store!Next

LEMMA StoreTxType ==
  ASSUME TypeOK
  PROVE  StoreTx = NoTx <=> tx = NoTx
<1>1. CASE tx # NoTx
  <2>1. StoreTx \in [indexer : Indexer, block : Block, pending : BOOLEAN]
    BY <1>1, TxType DEF StoreTx
  <2> QED BY <1>1, <2>1, SqliteAssumption
<1> QED BY <1>1 DEF StoreTx

\* The abstract names.
LEMMA StoreNames ==
  /\ Store!Point = Point /\ Store!Block = Block
  /\ Store!Nothing = [k \in Key |-> Absent]
  /\ \A m, n : Store!Smaller(m, n) = Smaller(m, n) /\ Store!Larger(m, n) = Larger(m, n)
BY DEF Store!Point, Point, Store!Block, Block, Store!Nothing, Store!Smaller, Smaller,
       Store!Larger, Larger

LEMMA NoRows ==
  ASSUME NEW rows, NEW i, NEW final, \A r \in rows : r.id # i
  PROVE  History(rows, i, final) = [n \in Point |-> [k \in Key |-> Absent]]
<1>1. ASSUME NEW k \in Key, NEW n
      PROVE  ValuesAt(rows, i, k, n) = {}
  BY DEF ValuesAt
<1> QED BY <1>1 DEF History, FirstOf

LEMMA InitStore == Init => Store!Init
<1> SUFFICES ASSUME Init PROVE Store!Init
  OBVIOUS
<1>1. Histories = [i \in Indexer |-> [n \in Store!Point |-> Store!Nothing]]
  BY NoRows, StoreNames DEF Init, Histories
<1>2. StoreTx = NoTx /\ StoreDraft = Store!Nothing
  BY StoreNames DEF Init, StoreTx, StoreDraft
<1>3. pos \in [Indexer -> Store!Point] /\ floor = [i \in Indexer |-> -1]
  BY Facts, StoreNames DEF Init, Undefined
<1>4. Active = {}
  BY DEF Init, Active
<1> QED BY <1>1, <1>2, <1>3, <1>4 DEF Store!Init, Histories

LEMMA InitializeStore ==
  ASSUME IInv, NEW i \in Indexer, Initialize(i)
  PROVE  Store!Next
<1>1. tx = NoTx /\ tx' = NoTx /\ kvs' = saved' /\ kvs = saved /\ TypeOK /\ floor' = floor
  BY DEF Initialize, Transact, IInv
<1>0. i \notin Active /\ Active' = Active \union {i}
  BY <1>1 DEF Initialize, Active, TypeOK
<1>2. CASE kvs' = CleanupKV(kvs, i) /\ pos' = [pos EXCEPT ![i] = StartingCursor]
  <2>1. History(saved', i, floor'[i]) = [n \in Store!Point |-> Store!Nothing]
    <3>1. \A r \in saved' : r.id # i
      BY <1>1, <1>2 DEF CleanupKV
    <3> QED BY <3>1, NoRows, StoreNames
  <2>2. \A j \in Indexer : j # i => SameRows(saved', saved, j) /\ floor'[j] = floor[j]
    BY <1>1, <1>2 DEF SameRows, CleanupKV
  <2>3. Histories' = [Histories EXCEPT ![i] = [n \in Store!Point |-> Store!Nothing]]
    BY <2>1, <2>2, HistoriesStep
  <2>4. StoreTx = NoTx /\ StoreTx' = NoTx /\ StoreDraft' = StoreDraft
    BY <1>1 DEF StoreTx, StoreDraft
  <2>5. Store!Reset(i, StartingCursor)
    BY <1>0, <1>1, <1>2, <2>3, <2>4 DEF Store!Reset, Histories
  <2> QED BY <2>5, Facts, StoreNames DEF Store!Next
<1>3. CASE kvs' = kvs /\ pos' = pos
  <2>1. Store!Start(i)
    BY <1>0, <1>1, <1>3, StoreSame DEF Store!Start, Histories
  <2> QED BY <2>1 DEF Store!Next
<1> QED BY <1>2, <1>3 DEF Initialize, Transact

\* connect:after and message:invalidate.
LEMMA InvalidateStore ==
  ASSUME IInv, NEW i \in Indexer, NEW c \in Point, tx = NoTx, tx' = NoTx,
         kvs' = saved', saved' = InvalidateKV(saved, i, c), floor' = floor,
         pos' = [pos EXCEPT ![i] = Smaller(@, c)],
         c >= floor[i] \/ c >= pos[i], conn[i] # "stopped", Active' = Active
  PROVE  Store!Next
<1>1. TypeOK /\ saved \subseteq Row /\ StreamInv(i) /\ Settled(saved, i, head[i])
      /\ pos[i] \in Point /\ floor[i] \in Point /\ head[i] \in Point
  BY DEF IInv, TypeOK
<1>2. ASSUME NEW e \in Block, c < e, e <= floor[i]
      PROVE  Untouched(saved, i, e)
  <2>1. pos[i] < e /\ e # head[i]
    BY <1>1, <1>2, Facts DEF StreamInv
  <2> QED BY <1>1, <2>1 DEF Settled
<1>3. History(saved', i, floor'[i]) = Store!Truncated(History(saved, i, floor[i]), c)
  BY <1>1, <1>2, HistoryInvalidate
<1>4. \A j \in Indexer : j # i => SameRows(saved', saved, j) /\ floor'[j] = floor[j]
  BY <1>1, InvalidateOthers
<1>5. Histories' = [Histories EXCEPT ![i] = Store!Truncated(Histories[i], c)]
  BY <1>3, <1>4, HistoriesStep DEF Histories
<1>6. StoreTx = NoTx /\ StoreTx' = NoTx /\ StoreDraft' = StoreDraft
  BY DEF StoreTx, StoreDraft
<1>7. Store!Invalidate(i, c)
  BY <1>5, <1>6, StoreNames DEF Store!Invalidate, Histories, Active
<1> QED BY <1>7, StoreNames DEF Store!Next

LEMMA ConnectStore ==
  ASSUME IInv, NEW i \in Indexer, Connect(i)
  PROVE  [Store!Next]_(Store!vars)
<1> DEFINE c == RequestedCursor(i)
<1>1. tx = NoTx /\ tx' = NoTx /\ kvs' = saved' /\ kvs = saved /\ TypeOK
      /\ floor' = floor /\ pos' = pos /\ saved' = InvalidateOnConnect(i)
  BY DEF Connect, Transact, IInv
<1>0. conn[i] # "stopped" /\ Active' = Active
  <2>1. \A j \in Indexer : conn[j] # "stopped" <=> conn'[j] # "stopped"
    BY <1>1 DEF Connect, TypeOK
  <2> QED BY <2>1 DEF Connect, Active
<1>2. c \in Point /\ pos[i] <= c /\ pos[i] \in Point
  BY <1>1, Facts DEF RequestedCursor, IInv, StreamInv, TypeOK
<1>3. CASE c = Undefined
  <2>1. Histories' = Histories /\ StoreTx' = StoreTx /\ StoreDraft' = StoreDraft
    BY <1>1, <1>3, StoreSame DEF InvalidateOnConnect
  <2> QED BY <1>0, <1>1, <2>1 DEF Store!vars, Histories
<1>4. CASE c # Undefined
  <2>1. Smaller(pos[i], c) = pos[i] /\ c >= pos[i]
    BY <1>2, Facts DEF Smaller
  <2>2. pos' = [pos EXCEPT ![i] = Smaller(@, c)]
    BY <1>1, <2>1 DEF TypeOK
  <2>3. saved' = InvalidateKV(saved, i, c)
    BY <1>1, <1>4 DEF InvalidateOnConnect
  <2> HIDE DEF c
  <2> QED BY <1>0, <1>1, <1>2, <2>1, <2>2, <2>3, InvalidateStore
<1> QED BY <1>3, <1>4

LEMMA MessageInvalidateStore ==
  ASSUME IInv, NEW i \in Indexer, NEW c \in Block, MessageInvalidate(i, c)
  PROVE  Store!Next
<1>1. tx = NoTx /\ tx' = NoTx /\ kvs' = saved' /\ kvs = saved /\ TypeOK
      /\ floor' = floor /\ pos' = [pos EXCEPT ![i] = c] /\ c <= pos[i]
      /\ saved' = InvalidateKV(saved, i, c) /\ (c >= floor[i] \/ c = pos[i])
  BY DEF MessageInvalidate, Transact, IInv
<1>2. c \in Point /\ pos[i] \in Point
  BY <1>1, Facts DEF TypeOK
<1>3. Smaller(pos[i], c) = c /\ (c = pos[i] => c >= pos[i])
  BY <1>1, <1>2, Facts DEF Smaller
<1>4. conn[i] # "stopped" /\ Active' = Active
  <2>1. \A j \in Indexer : conn[j] # "stopped" <=> conn'[j] # "stopped"
    BY <1>1 DEF MessageInvalidate, Connected, TypeOK
  <2> QED BY <2>1 DEF MessageInvalidate, Connected, Active
<1> QED BY <1>1, <1>2, <1>3, <1>4, InvalidateStore

LEMMA MessageFinalizeStore ==
  ASSUME IInv, NEW i \in Indexer, NEW c \in Block, MessageFinalize(i, c)
  PROVE  Store!Next
<1>1. tx = NoTx /\ tx' = NoTx /\ kvs' = saved' /\ kvs = saved /\ TypeOK
      /\ saved \subseteq Row /\ StreamInv(i) /\ Settled(saved, i, head[i])
      /\ floor' = [floor EXCEPT ![i] = Larger(@, c)] /\ pos' = pos
      /\ saved' = FinalizeKV(saved, i, c) /\ (head[i] # pos[i] => c < head[i])
      /\ pos[i] \in Point /\ floor[i] \in Point /\ head[i] \in Point /\ c \in Point
  BY Facts DEF MessageFinalize, Transact, IInv, TypeOK
<1>2. History(saved', i, floor'[i]) = Store!Forgotten(History(saved, i, floor[i]), c)
  BY <1>1, HistoryFinalize DEF TypeOK
<1>3. \A j \in Indexer : j # i => SameRows(saved', saved, j) /\ floor'[j] = floor[j]
  BY <1>1 DEF SameRows, FinalizeKV, TypeOK
<1>4. Histories' = [Histories EXCEPT ![i] = Store!Forgotten(Histories[i], c)]
  BY <1>2, <1>3, HistoriesStep DEF Histories
<1>5. StoreTx = NoTx /\ StoreTx' = NoTx /\ StoreDraft' = StoreDraft
  BY <1>1 DEF StoreTx, StoreDraft
<1>6. ASSUME NEW k \in Key
      PROVE  ValuesAt(saved, i, k, Larger(Larger(c, pos[i]), floor[i]))
               = ValuesAt(saved, i, k, Larger(pos[i], floor[i]))
  <2> DEFINE m == Larger(pos[i], floor[i])
             n == Larger(Larger(c, pos[i]), floor[i])
  <2>1. m \in Point /\ n \in Point /\ m <= n
    BY <1>1, Facts DEF Larger
  <2>2. ASSUME NEW e \in Block, m < e, e <= n
        PROVE  Untouched(saved, i, e)
    <3>1. pos[i] < e /\ e # head[i]
      BY <1>1, <2>2, Facts DEF Larger, StreamInv
    <3> QED BY <1>1, <3>1 DEF Settled
  <2> HIDE DEF m, n
  <2>3. ValuesAt(saved, i, k, m) = ValuesAt(saved, i, k, n)
    BY <1>1, <2>1, <2>2, NothingBetween
  <2> QED BY <2>3 DEF m, n
<1>7. Histories[i][Larger(c, pos[i])] = Histories[i][pos[i]]
  <2>1. Larger(c, pos[i]) \in Point
    BY <1>1 DEF Larger
  <2> QED BY <1>1, <1>6, <2>1 DEF Histories, History
<1>9. Active' = Active
  BY DEF MessageFinalize, Active
<1>8. Store!Finalize(i, c)
  BY <1>1, <1>9, <1>4, <1>5, <1>7, StoreNames DEF Store!Finalize, Histories
<1> QED BY <1>1, <1>8, StoreNames DEF Store!Next

LEMMA BeginBlockStore ==
  ASSUME IInv, IInv', NEW i \in Indexer, NEW b \in Block, NEW finality \in Finalities,
         BeginBlock(i, b, finality)
  PROVE  Store!Next
<1> DEFINE pending == finality = "pending"
<1>1. /\ tx = NoTx /\ kvs = saved /\ TypeOK /\ StreamInv(i) /\ Settled(saved, i, head[i])
      /\ pos[i] < b /\ conn[i] = "running" /\ kvs' = InvalidatePending(i)
      /\ UNCHANGED <<saved, pos, floor>> /\ saved \subseteq Row
      /\ tx' = [indexer |-> i, cursor |-> pos[i], endCursor |-> b, finality |-> finality]
      /\ pos[i] \in Point /\ head[i] \in Point /\ floor[i] \in Point
  BY DEF BeginBlock, Sends, IInv, TypeOK, stream
<1>2. tx' # NoTx
  <2>1. tx' \in Transaction
    BY <1>1, Facts DEF Transaction
  <2> QED BY <2>1, Facts
<1>3. StoreTx = NoTx /\ StoreTx' = [indexer |-> i, block |-> b, pending |-> pending]
  BY <1>1, <1>2 DEF StoreTx
<1>4. ASSUME NEW k \in Key
      PROVE  Current(kvs', i, k) = ValuesAt(saved, i, k, Larger(pos[i], floor[i]))
  <2> DEFINE m == Larger(pos[i], floor[i])
  <2>1. m \in Point /\ m >= pos[i] /\ m >= floor[i]
    BY <1>1, Facts DEF Larger
  <2>2. ASSUME NEW e \in Block, pos[i] < e, e <= m
        PROVE  Untouched(saved, i, e)
    <3>1. e # head[i]
      BY <1>1, <2>2, Facts DEF Larger, StreamInv
    <3> QED BY <1>1, <2>2, <3>1 DEF Settled
  <2> HIDE DEF m
  <2>3. ValuesAt(saved, i, k, pos[i]) = ValuesAt(saved, i, k, m)
    BY <1>1, <2>1, <2>2, NothingBetween
  <2>4. CASE prevFinality[i] = "pending"
    <3>1. kvs' = InvalidateKV(saved, i, pos[i])
      BY <1>1, <2>4 DEF InvalidatePending
    <3>2. \A e \in Block : pos[i] < e => Untouched(kvs', i, e)
      BY <1>1, <3>1, UntouchedInvalidate
    <3>3. kvs' \subseteq Row
      BY DEF IInv, TypeOK
    <3>4. Current(kvs', i, k) = ValuesAt(kvs', i, k, pos[i])
      BY <1>1, <3>2, <3>3, CurrentIsLast
    <3>5. ValuesAt(kvs', i, k, pos[i]) = ValuesAt(saved, i, k, Smaller(pos[i], pos[i]))
      BY <1>1, <3>1, InvalidateValues
    <3> QED BY <2>3, <3>4, <3>5 DEF Smaller, m
  <2>5. CASE prevFinality[i] # "pending"
    <3>1. kvs' = saved /\ head[i] = pos[i]
      BY <1>1, <2>5 DEF InvalidatePending, StreamInv
    <3>2. \A e \in Block : pos[i] < e => Untouched(saved, i, e)
      BY <1>1, <3>1, Facts DEF Settled
    <3>3. Current(saved, i, k) = ValuesAt(saved, i, k, pos[i])
      BY <1>1, <3>2, CurrentIsLast
    <3> QED BY <2>3, <3>1, <3>3 DEF m
  <2> QED BY <2>4, <2>5
<1>5. StoreDraft' = Histories[i][pos[i]]
  <2>1. StoreDraft' = [k \in Key |-> Get(kvs', i, k)]
    BY <1>1, <1>2 DEF StoreDraft
  <2>2. \A k \in Key : Get(kvs', i, k) = FirstOf(ValuesAt(saved, i, k, Larger(pos[i], floor[i])))
    BY <1>4, GetIsCurrent
  <2> QED BY <1>1, <2>1, <2>2 DEF Histories, History
<1>6. i \in Active /\ Active' = Active
  BY <1>1 DEF BeginBlock, Active
<1>7. Store!Begin(i, b, pending)
  BY <1>1, <1>3, <1>5, <1>6 DEF Store!Begin, Histories
<1> QED BY <1>7, StoreNames DEF Store!Next

LEMMA PutStore ==
  ASSUME IInv, NEW k \in Key, NEW v \in Value, Put(k, v)
  PROVE  Store!Next
<1>0. PICK i \in Indexer, b \in Block : i = tx.indexer /\ b = tx.endCursor
  BY TxType DEF IInv, Put, InHandler
<1>1. /\ TypeOK /\ tx # NoTx /\ kvs \subseteq Row
      /\ kvs' = Close(kvs, i, k, b) \union {NewRow(i, k, b, v)}
      /\ UNCHANGED <<saved, tx, pos, floor, conn>>
  BY <1>0 DEF IInv, Put, InHandler, stream, TypeOK
<1>2. ASSUME NEW l \in Key
      PROVE  Get(kvs', i, l) = IF l = k THEN v ELSE Get(kvs, i, l)
  <2>1. CASE l = k
    <3>1. Current(kvs', i, l) = {v}
      BY <1>1, <2>1, CurrentPut
    <3>2. FirstOf({v}) = v
      BY DEF FirstOf
    <3> QED BY <2>1, <3>1, <3>2, GetIsCurrent
  <2>2. CASE l # k
    <3>1. Current(kvs', i, l) = Current(kvs, i, l)
      BY <1>1, <2>2, CurrentPut, SMTT(60)
    <3> QED BY <2>2, <3>1, GetIsCurrent
  <2> QED BY <2>1, <2>2
<1>3. StoreDraft = [l \in Key |-> Get(kvs, i, l)] /\ StoreDraft' = [l \in Key |-> Get(kvs', i, l)]
  BY <1>0, <1>1 DEF StoreDraft
<1>4. StoreDraft' = [StoreDraft EXCEPT ![k] = v]
  BY <1>2, <1>3
<1>5. StoreTx # NoTx /\ StoreTx' = StoreTx
  BY <1>1, StoreTxType DEF StoreTx
<1>6. Store!Write(k, v)
  BY <1>1, <1>4, <1>5 DEF Store!Write, Active
<1> QED BY <1>6 DEF Store!Next

LEMMA DelStore ==
  ASSUME IInv, NEW k \in Key, Del(k)
  PROVE  Store!Next
<1>0. PICK i \in Indexer, b \in Block : i = tx.indexer /\ b = tx.endCursor
  BY TxType DEF IInv, Del, InHandler
<1>1. /\ TypeOK /\ tx # NoTx /\ kvs \subseteq Row
      /\ kvs' = Close(kvs, i, k, b)
      /\ UNCHANGED <<saved, tx, pos, floor, conn>>
  BY <1>0 DEF IInv, Del, InHandler, stream, TypeOK
<1>2. ASSUME NEW l \in Key
      PROVE  Get(kvs', i, l) = IF l = k THEN Absent ELSE Get(kvs, i, l)
  <2>1. CASE l = k
    <3>1. Current(kvs', i, l) = {}
      BY <1>1, <2>1, CurrentClose
    <3>2. FirstOf({}) = Absent
      BY DEF FirstOf
    <3> QED BY <2>1, <3>1, <3>2, GetIsCurrent
  <2>2. CASE l # k
    <3>1. Current(kvs', i, l) = Current(kvs, i, l)
      BY <1>1, <2>2, CurrentClose
    <3> QED BY <2>2, <3>1, GetIsCurrent
  <2> QED BY <2>1, <2>2
<1>3. StoreDraft = [l \in Key |-> Get(kvs, i, l)] /\ StoreDraft' = [l \in Key |-> Get(kvs', i, l)]
  BY <1>0, <1>1 DEF StoreDraft
<1>4. StoreDraft' = [StoreDraft EXCEPT ![k] = Absent]
  BY <1>2, <1>3
<1>5. StoreTx # NoTx /\ StoreTx' = StoreTx
  BY <1>1, StoreTxType DEF StoreTx
<1>6. Store!Write(k, Absent)
  BY <1>1, <1>4, <1>5 DEF Store!Write, Active
<1> QED BY <1>6 DEF Store!Next

LEMMA AbortStore ==
  ASSUME IInv, kvs' = saved, tx' = NoTx, UNCHANGED <<saved, pos, floor>>,
         Active' \subseteq Active
  PROVE  Store!Next
<1>1. TypeOK
  BY DEF IInv
<1>2. CASE tx = NoTx
  <2>1. kvs' = kvs
    BY <1>2 DEF IInv
  <2> QED BY <1>1, <1>2, <2>1, StopStore
<1>3. CASE tx # NoTx
  <2>1. StoreTx # NoTx /\ StoreTx' = NoTx /\ StoreDraft' = Store!Nothing
    BY <1>1, <1>3, StoreTxType, StoreNames DEF StoreTx, StoreDraft
  <2>2. Store!Rollback
    BY <2>1 DEF Store!Rollback, Histories
  <2> QED BY <2>2 DEF Store!Next
<1> QED BY <1>2, <1>3

\* The indexers that end are no longer active.
LEMMA StoppedActive ==
  ASSUME TypeOK,
         \/ \E i \in Indexer : Stop(i)
         \/ conn' = [i \in Indexer |-> "stopped"]
  PROVE  Active' \subseteq Active
BY DEF Stop, Active, TypeOK

\* The handler or COMMIT failed, or the process ended.
LEMMA FailStore ==
  ASSUME IInv, Crash \/ HandlerFails \/ CommitFails \/ \E k \in Key : PutConflicts(k)
  PROVE  Store!Next
<1>1. TypeOK /\ UNCHANGED <<saved, pos, floor>>
  BY DEF Crash, HandlerFails, CommitFails, PutConflicts, Rollback, IInv, stream
<1>2. Active' \subseteq Active
  <2>1. CASE Crash
    BY <1>1, <2>1, StoppedActive DEF Crash
  <2>2. CASE ~Crash
    <3>1. tx.indexer \in Indexer /\ Stop(tx.indexer)
      BY <1>1, <2>2, TxType DEF HandlerFails, CommitFails, PutConflicts, InHandler, Rollback
    <3> QED BY <1>1, <3>1, StoppedActive
  <2> QED BY <2>1, <2>2
<1>3. CASE kvs' = saved /\ tx' = NoTx
  BY <1>1, <1>2, <1>3, AbortStore
<1>4. CASE UNCHANGED <<kvs, tx>>
  BY <1>1, <1>2, <1>4, StopStore
<1> QED BY <1>3, <1>4 DEF Crash, HandlerFails, CommitFails, PutConflicts, Rollback

LEMMA CommitStore ==
  ASSUME IInv, Commit
  PROVE  Store!Next
<1> DEFINE pending == tx.finality = "pending"
<1>0. PICK i \in Indexer, b \in Block : i = tx.indexer /\ b = tx.endCursor
  BY TxType DEF IInv, Commit, InHandler
<1>1. /\ TypeOK /\ tx # NoTx /\ kvs \subseteq Row /\ HandlerInv(i, b)
      /\ tx' = NoTx /\ kvs' = saved' /\ saved' = kvs /\ floor' = floor
      /\ pos' = [pos EXCEPT ![i] = IF pending THEN @ ELSE b]
      /\ pos[i] \in Point /\ floor[i] \in Point
  BY <1>0 DEF IInv, Commit, InHandler, TypeOK
<1>2. /\ StoreTx = [indexer |-> i, block |-> b, pending |-> pending]
      /\ StoreTx' = NoTx /\ StoreDraft' = Store!Nothing
      /\ StoreDraft = [k \in Key |-> Get(kvs, i, k)]
  BY <1>0, <1>1, StoreNames DEF StoreTx, StoreDraft
<1>3. ASSUME NEW n \in Point, NEW k \in Key
      PROVE  FirstOf(ValuesAt(kvs, i, k, Larger(n, floor[i])))
               = IF Larger(n, floor[i]) < b
                 THEN FirstOf(ValuesAt(saved, i, k,
                        Larger(Smaller(Larger(n, floor[i]), pos[i]), floor[i])))
                 ELSE Get(kvs, i, k)
  <2> DEFINE m == Larger(n, floor[i])
  <2>1. m \in Point /\ floor[i] <= m
    BY <1>1, Facts DEF Larger
  <2> HIDE DEF m
  <2>2. CASE m < b
    <3>1. ValuesAt(kvs, i, k, m) = ValuesAt(saved, i, k, Larger(Smaller(m, pos[i]), floor[i]))
      BY <1>1, <2>1, <2>2 DEF HandlerInv
    <3> QED BY <2>2, <3>1 DEF m
  <2>3. CASE ~(m < b)
    <3>1. \A e \in Block : m < e => pos[i] < e /\ e # b
      BY <1>1, <2>1, <2>3, Facts DEF HandlerInv
    <3>2. \A e \in Block : m < e => Untouched(kvs, i, e)
      BY <1>1, <3>1 DEF HandlerInv, Settled
    <3>3. Current(kvs, i, k) = ValuesAt(kvs, i, k, m)
      BY <1>1, <2>1, <3>2, CurrentIsLast
    <3> QED BY <2>3, <3>3, GetIsCurrent DEF m
  <2> QED BY <2>2, <2>3
<1> DEFINE extended == Store!Extended(Histories[i], pos[i], b, StoreDraft)
<1>4. ASSUME NEW n \in Point
      PROVE  History(kvs, i, floor[i])[n] = extended[Larger(n, floor[i])]
  <2>1. Larger(n, floor[i]) \in Point /\ Smaller(Larger(n, floor[i]), pos[i]) \in Point
    BY <1>1 DEF Larger, Smaller
  <2>2. Histories[i] = History(saved, i, floor[i])
    BY DEF Histories
  <2>3. extended[Larger(n, floor[i])]
          = IF Larger(n, floor[i]) < b
            THEN History(saved, i, floor[i])[Smaller(Larger(n, floor[i]), pos[i])]
            ELSE StoreDraft
    BY <2>1, <2>2, StoreNames DEF Store!Extended
  <2>4. History(kvs, i, floor[i])[n]
          = [k \in Key |-> FirstOf(ValuesAt(kvs, i, k, Larger(n, floor[i])))]
    BY DEF History
  <2>5. History(saved, i, floor[i])[Smaller(Larger(n, floor[i]), pos[i])]
          = [k \in Key |-> FirstOf(ValuesAt(saved, i, k,
              Larger(Smaller(Larger(n, floor[i]), pos[i]), floor[i])))]
    BY <2>1 DEF History
  <2>6. CASE Larger(n, floor[i]) < b
    BY <1>3, <2>3, <2>4, <2>5, <2>6
  <2>7. CASE ~(Larger(n, floor[i]) < b)
    BY <1>2, <1>3, <2>3, <2>4, <2>7
  <2> QED BY <2>6, <2>7
<1>5. History(saved', i, floor'[i]) = Store!Forgotten(extended, floor[i])
  <2>1. Store!Forgotten(extended, floor[i])
          = [n \in Point |-> extended[Larger(n, floor[i])]]
    BY StoreNames DEF Store!Forgotten
  <2> QED BY <1>1, <1>4, <2>1 DEF History
<1>6. \A j \in Indexer : j # i => SameRows(saved', saved, j) /\ floor'[j] = floor[j]
  BY <1>1 DEF HandlerInv
<1>7. Histories' = [Histories EXCEPT ![i] = Store!Forgotten(extended, floor[i])]
  BY <1>5, <1>6, HistoriesStep
<1>8. StoreTx # NoTx
  BY <1>1, StoreTxType
<1>9. Active' = Active
  BY DEF Commit, Active
<1>10. Store!Commit
  BY <1>1, <1>2, <1>7, <1>8, <1>9 DEF Store!Commit, Histories
<1> QED BY <1>10 DEF Store!Next

LEMMA NextStore == IInv /\ IInv' /\ [Next]_vars => [Store!Next]_(Store!vars)
<1> SUFFICES ASSUME IInv, IInv', [Next]_vars PROVE [Store!Next]_(Store!vars)
  OBVIOUS
<1>1. ASSUME NEW i \in Indexer, Initialize(i) PROVE [Store!Next]_(Store!vars)
  BY <1>1, InitializeStore
<1>2. ASSUME NEW i \in Indexer, Connect(i) PROVE [Store!Next]_(Store!vars)
  BY <1>2, ConnectStore
<1>3. ASSUME NEW i \in Indexer, NEW b \in Block, NEW finality \in Finalities,
             BeginBlock(i, b, finality)
      PROVE  [Store!Next]_(Store!vars)
  BY <1>3, BeginBlockStore
<1>4. ASSUME NEW i \in Indexer, BeginBlockFails(i) \/ BeginRefused(i) \/ Disconnect(i)
      PROVE  [Store!Next]_(Store!vars)
  <2>1. UNCHANGED <<kvs, saved, tx, pos, floor>> /\ Stop(i) /\ TypeOK
    BY <1>4 DEF BeginBlockFails, BeginRefused, Disconnect, stream, IInv
  <2> QED BY <2>1, StoppedActive, StopStore
<1>5. ASSUME NEW i \in Indexer, NEW c \in Block, MessageInvalidate(i, c)
      PROVE  [Store!Next]_(Store!vars)
  BY <1>5, MessageInvalidateStore
<1>6. ASSUME NEW i \in Indexer, NEW c \in Block, MessageFinalize(i, c)
      PROVE  [Store!Next]_(Store!vars)
  BY <1>6, MessageFinalizeStore
<1>7. ASSUME NEW k \in Key, NEW v \in Value, Put(k, v) PROVE [Store!Next]_(Store!vars)
  BY <1>7, PutStore
<1>8. ASSUME NEW k \in Key, Del(k) PROVE [Store!Next]_(Store!vars)
  BY <1>8, DelStore
<1>9. ASSUME Crash \/ HandlerFails \/ CommitFails \/ \E k \in Key : PutConflicts(k)
      PROVE  [Store!Next]_(Store!vars)
  BY <1>9, FailStore
<1>10. ASSUME Commit PROVE [Store!Next]_(Store!vars)
  BY <1>10, CommitStore
<1>11. CASE UNCHANGED vars
  BY <1>11, StoreStutters DEF vars
<1> QED BY <1>1, <1>2, <1>3, <1>4, <1>5, <1>6, <1>7, <1>8, <1>9, <1>10, <1>11 DEF Next

(* The plugin implements the store: however blocks, reorganizations,        *)
(* finalizations, failures and restarts of several indexers follow each     *)
(* other, a handler reads the content its indexer had after the block       *)
(* before its own, and a block's writes take effect when it commits.        *)
THEOREM ImplementsStore == Clean /\ Spec => StoreSpec
<1> SUFFICES ASSUME Clean PROVE Spec => StoreSpec
  OBVIOUS
<1>1. Spec => []IInv
  BY Invariance
<1> QED BY <1>1, InitStore, NextStore, PTL DEF Spec, StoreSpec, Store!Spec

-----------------------------------------------------------------------------
(* The rows of the table kvs: a key has one value at a time, and the       *)
(* indexers that share the table do not change each other's rows.          *)

-----------------------------------------------------------------------------
(* What each statement leaves to the other indexers.                       *)

LEMMA DeleteOthers ==
  ASSUME NEW rows, NEW i, NEW j, i # j
  PROVE  /\ \A c : SameRows(FinalizeKV(rows, i, c), rows, j)
         /\ SameRows(CleanupKV(rows, i), rows, j)
BY DEF SameRows, FinalizeKV, CleanupKV

LEMMA NoneChanged == \A rows, j : SameRows(rows, rows, j)
BY DEF SameRows

LEMMA SameRowsOf ==
  ASSUME NEW rows, NEW others, NEW j, SameRows(rows, others, j)
  PROVE  RowsOf(rows, j) = RowsOf(others, j)
BY DEF SameRows, RowsOf

\* An open transaction changed the rows of its indexer only.
OwnInv ==
  /\ TypeOK
  /\ tx = NoTx => kvs = saved
  /\ tx # NoTx => \A j \in Indexer : j # tx.indexer => SameRows(kvs, saved, j)

\* A step may change the committed rows of the indexer i, which takes it.
Only(i) == \A j \in Indexer : j # i => SameRows(saved', saved, j)
Acts(i) == /\ tx # NoTx => tx.indexer = i
           /\ conn[i] # "stopped" \/ conn'[i] # "stopped"

\* A transaction of i that opens and commits in one step.
LEMMA TransactOnly ==
  ASSUME OwnInv, NEW i \in Indexer, NEW rows, Transact(rows),
         \A j \in Indexer : j # i => SameRows(rows, kvs, j)
  PROVE  Only(i) /\ (tx = NoTx /\ kvs = saved)'
BY DEF OwnInv, Transact, Only

\* A hook of i that runs one statement.
LEMMA HookOnly ==
  ASSUME OwnInv, NEW i \in Indexer,
         \/ Initialize(i) \/ Connect(i)
         \/ \E c \in Block : MessageInvalidate(i, c) \/ MessageFinalize(i, c)
  PROVE  Only(i) /\ (tx = NoTx /\ kvs = saved)'
<1>1. kvs \subseteq Row
  BY DEF OwnInv, TypeOK
<1>2. \A j \in Indexer, c \in Point : j # i => SameRows(InvalidateKV(kvs, i, c), kvs, j)
  BY <1>1, InvalidateOthers
<1>3. CASE Initialize(i)
  <2>1. Transact(CleanupKV(kvs, i)) \/ Transact(kvs)
    BY <1>3 DEF Initialize
  <2>2. \A j \in Indexer : j # i =>
          SameRows(CleanupKV(kvs, i), kvs, j) /\ SameRows(kvs, kvs, j)
    BY DeleteOthers, NoneChanged
  <2>3. CASE Transact(CleanupKV(kvs, i))
    BY <2>2, <2>3, TransactOnly
  <2>4. CASE Transact(kvs)
    BY <2>2, <2>4, TransactOnly
  <2> QED BY <2>1, <2>3, <2>4
<1>4. CASE Connect(i)
  <2>1. RequestedCursor(i) \in Point
    BY Facts DEF RequestedCursor, OwnInv, TypeOK
  <2>2. \A j \in Indexer : j # i => SameRows(InvalidateOnConnect(i), kvs, j)
    BY <1>2, <2>1, NoneChanged DEF InvalidateOnConnect
  <2> QED BY <1>4, <2>2, TransactOnly DEF Connect
<1>5. ASSUME NEW c \in Block, MessageInvalidate(i, c)
      PROVE  Only(i) /\ (tx = NoTx /\ kvs = saved)'
  <2>1. \A j \in Indexer : j # i => SameRows(InvalidateKV(kvs, i, c), kvs, j)
    BY <1>2, Facts
  <2> QED BY <1>5, <2>1, TransactOnly DEF MessageInvalidate
<1>6. ASSUME NEW c \in Block, MessageFinalize(i, c)
      PROVE  Only(i) /\ (tx = NoTx /\ kvs = saved)'
  BY <1>6, DeleteOthers, TransactOnly DEF MessageFinalize
<1> QED BY <1>3, <1>4, <1>5, <1>6

\* A block of i begins.
LEMMA BeginOnly ==
  ASSUME OwnInv, NEW i \in Indexer, NEW b \in Block, NEW finality \in Finalities,
         BeginBlock(i, b, finality)
  PROVE  /\ saved' = saved /\ tx'.indexer = i /\ tx' # NoTx
         /\ \A j \in Indexer : j # i => SameRows(kvs', saved', j)
<1>1. /\ kvs = saved /\ saved' = saved /\ kvs \subseteq Row /\ pos[i] \in Point
      /\ kvs' = InvalidatePending(i)
      /\ tx' = [indexer |-> i, cursor |-> pos[i], endCursor |-> b, finality |-> finality]
  BY DEF BeginBlock, OwnInv, TypeOK
<1>2. tx' # NoTx
  <2>1. tx' \in Transaction
    BY <1>1, Facts DEF Transaction
  <2> QED BY <2>1, Facts
<1>3. ASSUME NEW j \in Indexer, j # i PROVE SameRows(kvs', saved', j)
  <2>1. SameRows(InvalidateKV(kvs, i, pos[i]), kvs, j) /\ SameRows(kvs, kvs, j)
    BY <1>1, <1>3, InvalidateOthers, NoneChanged
  <2> QED BY <1>1, <2>1 DEF InvalidatePending
<1> QED BY <1>1, <1>2, <1>3

\* The handler writes.
LEMMA WriteOnly ==
  ASSUME OwnInv, NEW k \in Key, Del(k) \/ \E v \in Value : Put(k, v)
  PROVE  /\ saved' = saved /\ tx' = tx /\ tx # NoTx
         /\ \A j \in Indexer : j # tx.indexer => SameRows(kvs', saved', j)
<1>1. /\ saved' = saved /\ tx' = tx /\ tx # NoTx /\ kvs \subseteq Row
      /\ tx.indexer \in Indexer /\ tx.endCursor \in Block
  BY TxType DEF Del, Put, InHandler, OwnInv, TypeOK
<1>2. ASSUME NEW j \in Indexer, j # tx.indexer
      PROVE  SameRows(kvs', kvs, j) /\ SameRows(kvs, saved, j)
  <2>1. SameRows(kvs, saved, j)
    BY <1>1, <1>2 DEF OwnInv
  <2>2. CASE Del(k)
    BY <1>1, <1>2, <2>1, <2>2, WriteOthers DEF Del
  <2>3. ASSUME NEW v \in Value, Put(k, v) PROVE SameRows(kvs', kvs, j)
    BY <1>1, <1>2, <2>3, WriteOthers DEF Put
  <2> QED BY <2>1, <2>2, <2>3
<1>3. ASSUME NEW j \in Indexer, j # tx.indexer
      PROVE  SameRows(kvs', saved', j)
  BY <1>1, <1>2, <1>3 DEF SameRows
<1> QED BY <1>1, <1>3

\* The hook is a step of i.
LEMMA HookActs ==
  ASSUME OwnInv, NEW i \in Indexer,
         \/ Initialize(i) \/ Connect(i)
         \/ \E c \in Block : MessageInvalidate(i, c) \/ MessageFinalize(i, c)
  PROVE  Acts(i)
<1>1. tx = NoTx
  BY DEF Initialize, Connect, MessageInvalidate, MessageFinalize, Transact
<1>2. conn[i] # "stopped" \/ conn'[i] # "stopped"
  BY DEF OwnInv, TypeOK, Initialize, Connect, MessageInvalidate, MessageFinalize, Connected
<1> QED BY <1>1, <1>2 DEF Acts

\* Every step keeps OwnInv and changes the committed rows of its indexer at most.
LEMMA OwnStep ==
  ASSUME OwnInv, [Next]_vars
  PROVE  OwnInv' /\ (saved' = saved \/ \E i \in Indexer : Only(i) /\ Acts(i))
<1>1. TypeOK'
  BY TypeStep DEF OwnInv
<1> DEFINE Goal == OwnInv' /\ (saved' = saved \/ \E i \in Indexer : Only(i) /\ Acts(i))
<1>2. ASSUME NEW i \in Indexer,
             \/ Initialize(i) \/ Connect(i)
             \/ \E c \in Block : MessageInvalidate(i, c) \/ MessageFinalize(i, c)
      PROVE  Goal
  BY <1>1, <1>2, HookOnly, HookActs DEF OwnInv
<1>3. ASSUME NEW i \in Indexer, NEW b \in Block, NEW finality \in Finalities,
             BeginBlock(i, b, finality)
      PROVE  Goal
  BY <1>1, <1>3, BeginOnly DEF OwnInv
<1>4. ASSUME NEW k \in Key, Del(k) \/ \E v \in Value : Put(k, v)
      PROVE  Goal
  BY <1>1, <1>4, WriteOnly DEF OwnInv
<1>5. ASSUME Crash \/ HandlerFails \/ CommitFails \/ \E k \in Key : PutConflicts(k)
      PROVE  Goal
  BY <1>1, <1>5 DEF OwnInv, Crash, HandlerFails, CommitFails, PutConflicts, Rollback
<1>6. ASSUME NEW i \in Indexer, BeginBlockFails(i) \/ BeginRefused(i) \/ Disconnect(i)
      PROVE  Goal
  BY <1>1, <1>6 DEF OwnInv, BeginBlockFails, BeginRefused, Disconnect
<1>7. ASSUME Commit
      PROVE  Goal
  <2>1. tx # NoTx /\ saved' = kvs /\ kvs' = kvs /\ tx' = NoTx /\ tx.indexer \in Indexer
    BY <1>7, TxType DEF Commit, InHandler, OwnInv
  <2>2. Only(tx.indexer) /\ Acts(tx.indexer)
    BY <1>7, <2>1 DEF Only, Acts, OwnInv, Commit, InHandler
  <2> QED BY <1>1, <2>1, <2>2 DEF OwnInv
<1>8. CASE UNCHANGED vars
  BY <1>1, <1>8 DEF vars, OwnInv
<1> QED BY <1>2, <1>3, <1>4, <1>5, <1>6, <1>7, <1>8 DEF Next

(* The indexers that share a database are isolated, with or without a       *)
(* starting cursor and pending blocks: a step changes the committed rows of *)
(* the one that takes it at most.                                           *)
THEOREM RowsAreOwn == Spec => OwnRowsOnly
<1>1. Init => OwnInv
  BY InitInv DEF IInv, OwnInv, Init
<1>2. OwnInv /\ [Next]_vars => OwnInv'
  BY OwnStep
<1>3. OwnInv /\ [Next]_vars =>
        [\A i \in Indexer :
           RowsOf(saved', i) # RowsOf(saved, i) =>
             /\ tx # NoTx => tx.indexer = i
             /\ conn[i] # "stopped" \/ conn'[i] # "stopped"
             /\ \A j \in Indexer \ {i} : RowsOf(saved', j) = RowsOf(saved, j)]_vars
  <2> SUFFICES ASSUME OwnInv, [Next]_vars,
                      NEW i \in Indexer, RowsOf(saved', i) # RowsOf(saved, i)
               PROVE  /\ Acts(i)
                      /\ \A j \in Indexer \ {i} : RowsOf(saved', j) = RowsOf(saved, j)
    BY DEF Acts
  <2>1. PICK m \in Indexer : Only(m) /\ Acts(m)
    BY OwnStep
  <2>2. i = m
    BY <2>1, SameRowsOf DEF Only
  <2> QED BY <2>1, <2>2, SameRowsOf DEF Only
<1> QED BY <1>1, <1>2, <1>3, PTL DEF Spec, OwnRowsOnly

-----------------------------------------------------------------------------
(* A key has one value at a time.                                          *)

Disjoint(rows) ==
  \A r, s \in rows :
    r.id = s.id /\ r.k = s.k /\ r # s => \A n \in Block : ~(ValidAt(r, n) /\ ValidAt(s, n))

LEMMA SubsetDisjoint ==
  ASSUME NEW rows, Disjoint(rows), NEW others, others \subseteq rows
  PROVE  Disjoint(others)
BY DEF Disjoint

\* A row that is open again at a block was valid at that block, or at the
\* cursor when the block is after it.
LEMMA ReopenedValid ==
  ASSUME NEW s \in Row, NEW c \in Point, ~(s.from > c), NEW n \in Block,
         ValidAt(Reopened(s, c), n)
  PROVE  Smaller(n, c) \in Block /\ ValidAt(s, Smaller(n, c))
<1>1. s.from \in Block /\ s.to \in Block \union {Null}
  BY DEF Row
<1>2. Reopened(s, c).from = s.from
      /\ Reopened(s, c).to = IF s.to # Null /\ s.to > c THEN Null ELSE s.to
  BY ReopenedRow
<1>3. n \in Int /\ c \in Int /\ s.from \in Int /\ (s.to # Null => s.to \in Int)
  BY <1>1, Facts DEF Block, Point
<1>4. Smaller(n, c) \in Block
  BY <1>1, <1>3, SqliteAssumption DEF Smaller, Block, Point
<1> QED BY <1>2, <1>3, <1>4 DEF ValidAt, Smaller

LEMMA InvalidateDisjoint ==
  ASSUME NEW rows, rows \subseteq Row, Disjoint(rows), NEW i, NEW c \in Point
  PROVE  Disjoint(InvalidateKV(rows, i, c))
<1> SUFFICES ASSUME NEW r \in InvalidateKV(rows, i, c), NEW s \in InvalidateKV(rows, i, c),
                    r.id = s.id, r.k = s.k, r # s,
                    NEW n \in Block, ValidAt(r, n), ValidAt(s, n)
             PROVE  FALSE
  BY DEF Disjoint
<1>1. CASE r.id # i
  <2>1. ASSUME NEW q \in InvalidateKV(rows, i, c), q.id # i PROVE q \in rows
    BY <2>1, InInvalidateKV, ReopenedRow
  <2>2. r \in rows /\ s \in rows
    BY <1>1, <2>1
  <2> QED BY <2>2 DEF Disjoint
<1>2. CASE r.id = i
  <2>0. s.id = i
    BY <1>2
  <2>1. PICK q \in rows : q.id = i /\ ~(q.from > c) /\ r = Reopened(q, c)
    BY <1>2, InInvalidateKV
  <2>2. PICK t \in rows : t.id = i /\ ~(t.from > c) /\ s = Reopened(t, c)
    BY <2>0, InInvalidateKV
  <2>3. q.k = t.k /\ q # t
    BY <2>1, <2>2, ReopenedRow
  <2>4. Smaller(n, c) \in Block /\ ValidAt(q, Smaller(n, c)) /\ ValidAt(t, Smaller(n, c))
    BY <2>1, <2>2, ReopenedValid
  <2> QED BY <2>1, <2>2, <2>3, <2>4 DEF Disjoint
<1> QED BY <1>1, <1>2

\* Closing shortens a row.
LEMMA ClosedValid ==
  ASSUME NEW s \in Row, NEW i, NEW k, NEW b \in Block, NEW n \in Block,
         ValidAt(Closed(s, i, k, b), n)
  PROVE  ValidAt(s, n)
<1>1. Closed(s, i, k, b).from = s.from
      /\ Closed(s, i, k, b).to = IF s.id = i /\ s.k = k /\ s.to = Null THEN b ELSE s.to
  BY ClosedRow
<1> QED BY <1>1 DEF ValidAt

LEMMA CloseDisjoint ==
  ASSUME NEW rows, rows \subseteq Row, Disjoint(rows), NEW i, NEW k, NEW b \in Block
  PROVE  Disjoint(Close(rows, i, k, b))
<1> SUFFICES ASSUME NEW r \in Close(rows, i, k, b), NEW s \in Close(rows, i, k, b),
                    r.id = s.id, r.k = s.k, r # s,
                    NEW n \in Block, ValidAt(r, n), ValidAt(s, n)
             PROVE  FALSE
  BY DEF Disjoint
<1>1. PICK q \in rows : r = Closed(q, i, k, b)
  BY InClose
<1>2. PICK t \in rows : s = Closed(t, i, k, b)
  BY InClose
<1>3. q.id = t.id /\ q.k = t.k /\ q # t
  BY <1>1, <1>2, ClosedRow
<1>4. ValidAt(q, n) /\ ValidAt(t, n)
  BY <1>1, <1>2, ClosedValid
<1> QED BY <1>3, <1>4 DEF Disjoint

\* The row of the block does not meet one that ended by the block.
LEMMA PutDisjoint ==
  ASSUME NEW rows, rows \subseteq Row, Disjoint(rows), NEW i, NEW k, NEW b \in Block, NEW v,
         \A r \in rows : r.id = i /\ r.to # Null => r.to <= b
  PROVE  Disjoint(Close(rows, i, k, b) \union {NewRow(i, k, b, v)})
<1> DEFINE new == NewRow(i, k, b, v)
<1>1. ASSUME NEW r \in Close(rows, i, k, b), r.id = i, r.k = k,
             NEW n \in Block, ValidAt(r, n), ValidAt(new, n)
      PROVE  FALSE
  <2>1. PICK s \in rows : r = Closed(s, i, k, b)
    BY InClose
  <2>2. s \in Row /\ s.id = i /\ s.k = k /\ s.to \in Block \union {Null}
    BY <1>1, <2>1, ClosedRow DEF Row
  <2>3. r.to = IF s.to = Null THEN b ELSE s.to
    BY <2>1, <2>2, ClosedRow
  <2>4. r.to \in Block /\ r.to <= b
    BY <2>2, <2>3, Facts
  <2>5. b <= n
    BY <1>1 DEF NewRow, ValidAt
  <2>6. n < r.to
    BY <1>1, <2>4, SqliteAssumption DEF ValidAt, Block
  <2> QED BY <2>4, <2>5, <2>6, Facts
<1>2. Disjoint(Close(rows, i, k, b))
  BY CloseDisjoint
<1>3. new.id = i /\ new.k = k
  BY DEF NewRow
<1> HIDE DEF new
<1>4. Disjoint(Close(rows, i, k, b) \union {new})
  BY <1>1, <1>2, <1>3 DEF Disjoint
<1> QED BY <1>4 DEF new

DisjointInv == IInv /\ Disjoint(kvs) /\ Disjoint(saved)

\* A hook of i that runs one statement.
LEMMA HookDisjoint ==
  ASSUME DisjointInv, NEW i \in Indexer,
         \/ Initialize(i) \/ Connect(i)
         \/ \E c \in Block : MessageInvalidate(i, c) \/ MessageFinalize(i, c)
  PROVE  Disjoint(kvs') /\ Disjoint(saved')
<1>1. kvs \subseteq Row /\ Disjoint(kvs)
  BY DEF DisjointInv, IInv, TypeOK
<1>2. \A c \in Point : Disjoint(InvalidateKV(kvs, i, c))
  BY <1>1, InvalidateDisjoint
<1>3. CASE Initialize(i)
  <2>1. Disjoint(CleanupKV(kvs, i))
    BY <1>1, SubsetDisjoint DEF CleanupKV
  <2> QED BY <1>1, <1>3, <2>1 DEF Initialize, Transact
<1>4. CASE Connect(i)
  <2>1. RequestedCursor(i) \in Point
    BY Facts DEF RequestedCursor, DisjointInv, IInv, TypeOK
  <2>2. Disjoint(InvalidateOnConnect(i))
    BY <1>1, <1>2, <2>1 DEF InvalidateOnConnect
  <2> QED BY <1>4, <2>2 DEF Connect, Transact
<1>5. ASSUME NEW c \in Block, MessageInvalidate(i, c)
      PROVE  Disjoint(kvs') /\ Disjoint(saved')
  <2>1. Disjoint(InvalidateKV(kvs, i, c))
    BY <1>2, Facts
  <2> QED BY <1>5, <2>1 DEF MessageInvalidate, Transact
<1>6. ASSUME NEW c \in Block, MessageFinalize(i, c)
      PROVE  Disjoint(kvs') /\ Disjoint(saved')
  <2>1. Disjoint(FinalizeKV(kvs, i, c))
    BY <1>1, SubsetDisjoint DEF FinalizeKV
  <2> QED BY <1>6, <2>1 DEF MessageFinalize, Transact
<1> QED BY <1>3, <1>4, <1>5, <1>6

\* A handler of block b: every row of its indexer ended by b.
LEMMA WriteDisjoint ==
  ASSUME DisjointInv, NEW k \in Key, Del(k) \/ \E v \in Value : Put(k, v)
  PROVE  Disjoint(kvs') /\ saved' = saved
<1>1. PICK i \in Indexer, b \in Block : i = tx.indexer /\ b = tx.endCursor
  BY TxType DEF Del, Put, InHandler, DisjointInv, IInv
<1>2. /\ saved' = saved /\ kvs \subseteq Row /\ Disjoint(kvs) /\ pos[i] \in Point
      /\ HandlerInv(i, b)
  BY <1>1 DEF Del, Put, InHandler, DisjointInv, IInv, TypeOK
<1>3. ASSUME NEW r \in kvs, r.id = i, r.to # Null
      PROVE  r.to <= b
  <2>1. r.to \in Block
    BY <1>2, <1>3 DEF Row
  <2>2. pos[i] < b /\ ~(pos[i] < r.to /\ r.to # b)
    BY <1>2, <1>3, <2>1 DEF HandlerInv, Settled, Untouched
  <2> QED BY <1>2, <2>1, <2>2, Facts
<1>4. CASE Del(k)
  BY <1>1, <1>2, <1>4, CloseDisjoint DEF Del
<1>5. ASSUME NEW v \in Value, Put(k, v)
      PROVE  Disjoint(kvs')
  BY <1>1, <1>2, <1>3, <1>5, PutDisjoint DEF Put
<1> QED BY <1>2, <1>4, <1>5

LEMMA DisjointStep ==
  ASSUME Clean, DisjointInv, [Next]_vars
  PROVE  DisjointInv'
<1>1. IInv'
  BY NextInv DEF DisjointInv
<1> SUFFICES Disjoint(kvs') /\ Disjoint(saved')
  BY <1>1 DEF DisjointInv, Disjoint
<1> DEFINE Goal == Disjoint(kvs') /\ Disjoint(saved')
<1>2. ASSUME NEW i \in Indexer,
             \/ Initialize(i) \/ Connect(i)
             \/ \E c \in Block : MessageInvalidate(i, c) \/ MessageFinalize(i, c)
      PROVE  Goal
  BY <1>2, HookDisjoint
<1>3. ASSUME NEW i \in Indexer, NEW b \in Block, NEW finality \in Finalities,
             BeginBlock(i, b, finality)
      PROVE  Goal
  <2>1. kvs \subseteq Row /\ pos[i] \in Point
    BY DEF DisjointInv, IInv, TypeOK
  <2>2. Disjoint(InvalidatePending(i))
    BY <2>1, InvalidateDisjoint DEF DisjointInv, InvalidatePending
  <2> QED BY <1>3, <2>2 DEF BeginBlock, DisjointInv
<1>4. ASSUME NEW k \in Key, Del(k) \/ \E v \in Value : Put(k, v)
      PROVE  Goal
  BY <1>4, WriteDisjoint DEF DisjointInv
<1>5. ASSUME \/ Crash \/ HandlerFails \/ Commit \/ CommitFails \/ UNCHANGED vars
             \/ \E k \in Key : PutConflicts(k)
             \/ \E i \in Indexer : BeginBlockFails(i) \/ BeginRefused(i) \/ Disconnect(i)
      PROVE  Goal
  BY <1>5 DEF DisjointInv, Crash, HandlerFails, Commit, CommitFails, PutConflicts, Rollback,
              BeginBlockFails, BeginRefused, Disconnect, vars
<1> QED BY <1>2, <1>3, <1>4, <1>5 DEF Next

(* A key has one value at every block, so that get reads the one there is,  *)
(* whatever sequence of blocks, reorganizations and failures reopened rows. *)
THEOREM VersionsAreDisjoint == Clean /\ Spec => []VersionsDisjoint
<1> SUFFICES ASSUME Clean PROVE Spec => []VersionsDisjoint
  OBVIOUS
<1>1. Init => DisjointInv
  BY InitInv DEF Init, DisjointInv, Disjoint
<1>2. DisjointInv /\ [Next]_vars => DisjointInv'
  BY DisjointStep
<1>3. DisjointInv => VersionsDisjoint
  BY DEF DisjointInv, Disjoint, VersionsDisjoint
<1> QED BY <1>1, <1>2, <1>3, PTL DEF Spec
=============================================================================
