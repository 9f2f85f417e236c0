--------------------------- MODULE MongoStorageProofs ---------------------------
(***************************************************************************)
(* MongoStorage implements ReorgStore, for any keys, values and number of *)
(* blocks.                                                                 *)
(***************************************************************************)
EXTENDS MongoStorage, TLAPS

(* Either the indexer starts from a cursor or its blocks are never pending; *)
(* otherwise a restart before the first checkpoint keeps the documents of a *)
(* pending block, and the plugin is no ReorgStore.                          *)
Clean == StartingCursor # Undefined \/ "pending" \notin Finalities

-----------------------------------------------------------------------------
(* Which values the operations leave.                                      *)

LEMMA Numbers ==
  /\ \A b \in Block : b \in Point /\ b \in Int /\ b >= 0 /\ b # Null
  /\ \A n \in Point : n \in Int /\ n >= -1 /\ (n # Undefined => n \in Block)
  /\ Undefined \in Point /\ StartingCursor \in Point
  /\ \A f \in Finalities : f \in Finality
BY MongoAssumption DEF Block, Point, Undefined

LEMMA DocumentType ==
  ASSUME NEW d \in Document
  PROVE  d.k \in Key /\ d.v \in Value /\ d.from \in Block /\ d.to \in Block \union {Null}
BY DEF Document

LEMMA InValuesAt ==
  ASSUME NEW ds, NEW k, NEW n, NEW v
  PROVE  v \in ValuesAt(ds, k, n) <=>
           \E d \in ds : d.k = k /\ ValidAt(d, n) /\ d.v = v
BY DEF ValuesAt

\* The values findOne chooses from.
CurrentValues(ds, k) == {d.v : d \in {e \in Current(ds) : e.k = k}}

LEMMA InCurrentValues ==
  ASSUME NEW ds, NEW k, NEW v
  PROVE  v \in CurrentValues(ds, k) <=>
           \E d \in ds : d.to = Null /\ d.k = k /\ d.v = v
BY DEF CurrentValues, Current

\* Block e is not the beginning or the end of a document.
Untouched(ds, e) == \A d \in ds : d.from # e /\ d.to # e

\* The content is the same at two blocks when no document begins or ends after
\* the first, up to the second.
LEMMA NothingBetween ==
  ASSUME NEW ds, ds \subseteq Document, NEW k,
         NEW m \in Point, NEW n \in Point, m <= n,
         \A e \in Block : m < e /\ e <= n => Untouched(ds, e)
  PROVE  ValuesAt(ds, k, m) = ValuesAt(ds, k, n)
<1>1. ASSUME NEW d \in ds
      PROVE  ValidAt(d, m) <=> ValidAt(d, n)
  <2>1. d.from \in Block /\ d.to \in Block \union {Null}
    BY DocumentType
  <2>2. ~(m < d.from /\ d.from <= n)
    BY <2>1 DEF Untouched
  <2>3. d.to # Null => d.to \in Block /\ ~(m < d.to /\ d.to <= n)
    BY <2>1 DEF Untouched
  <2>4. m \in Int /\ n \in Int /\ d.from \in Int /\ (d.to # Null => d.to \in Int)
    BY <2>1, Numbers
  <2> QED BY <2>2, <2>3, <2>4 DEF ValidAt
<1>2. ASSUME NEW v
      PROVE  v \in ValuesAt(ds, k, m) <=> v \in ValuesAt(ds, k, n)
  BY <1>1, InValuesAt
<1> QED BY <1>2

\* The current values are those at the last block.
LEMMA CurrentIsLast ==
  ASSUME NEW ds, ds \subseteq Document, NEW k, NEW n \in Point,
         \A e \in Block : n < e => Untouched(ds, e)
  PROVE  CurrentValues(ds, k) = ValuesAt(ds, k, n)
<1>1. ASSUME NEW d \in ds
      PROVE  d.to = Null <=> ValidAt(d, n)
  <2>1. d.from \in Block /\ d.to \in Block \union {Null}
    BY DocumentType
  <2>2. ~(n < d.from)
    BY <2>1 DEF Untouched
  <2>3. d.to # Null => d.to \in Block /\ ~(n < d.to)
    BY <2>1 DEF Untouched
  <2>4. n \in Int /\ d.from \in Int
    BY <2>1, Numbers
  <2> QED BY <2>2, <2>3, <2>4 DEF ValidAt
<1>2. ASSUME NEW v
      PROVE  v \in CurrentValues(ds, k) <=> v \in ValuesAt(ds, k, n)
  BY <1>1, InValuesAt, InCurrentValues
<1> QED BY <1>2

\* What a document of Invalidate is: one that began by c, current again if it
\* ended after c.
Reopened(d, c) == IF d.to # Null /\ d.to > c THEN [d EXCEPT !.to = Null] ELSE d

LEMMA InInvalidate ==
  ASSUME NEW ds, NEW c, NEW r
  PROVE  r \in Invalidate(ds, c) <=> \E d \in ds : d.from <= c /\ r = Reopened(d, c)
BY DEF Invalidate, Reopened

LEMMA ReopenedDocument ==
  ASSUME NEW d \in Document, NEW c \in Point
  PROVE  /\ Reopened(d, c) \in Document
         /\ Reopened(d, c).k = d.k /\ Reopened(d, c).v = d.v
         /\ Reopened(d, c).from = d.from
         /\ Reopened(d, c).to = IF d.to # Null /\ d.to > c THEN Null ELSE d.to
BY DEF Reopened, Document

\* Invalidate returns to the content at c.
LEMMA InvalidateValues ==
  ASSUME NEW ds, ds \subseteq Document, NEW k, NEW c \in Point, NEW n \in Point
  PROVE  ValuesAt(Invalidate(ds, c), k, n) = ValuesAt(ds, k, Smaller(n, c))
<1>1. ASSUME NEW d \in ds
      PROVE  d.from <= c /\ ValidAt(Reopened(d, c), n) <=> ValidAt(d, Smaller(n, c))
  <2>1. d.from \in Block /\ d.to \in Block \union {Null}
    BY DocumentType
  <2>2. Reopened(d, c).from = d.from
        /\ Reopened(d, c).to = IF d.to # Null /\ d.to > c THEN Null ELSE d.to
    BY ReopenedDocument
  <2>3. n \in Int /\ c \in Int /\ d.from \in Int /\ (d.to # Null => d.to \in Int)
    BY <2>1, Numbers
  <2> QED BY <2>2, <2>3 DEF ValidAt, Smaller
<1>2. ASSUME NEW v, v \in ValuesAt(Invalidate(ds, c), k, n)
      PROVE  v \in ValuesAt(ds, k, Smaller(n, c))
  <2>1. PICK r \in Invalidate(ds, c) : r.k = k /\ ValidAt(r, n) /\ r.v = v
    BY <1>2, InValuesAt
  <2>2. PICK d \in ds : d.from <= c /\ r = Reopened(d, c)
    BY InInvalidate
  <2>3. d.k = k /\ d.v = v
    BY <2>1, <2>2, ReopenedDocument
  <2>4. ValidAt(d, Smaller(n, c))
    BY <1>1, <2>1, <2>2
  <2> QED BY <2>3, <2>4, InValuesAt
<1>3. ASSUME NEW v, v \in ValuesAt(ds, k, Smaller(n, c))
      PROVE  v \in ValuesAt(Invalidate(ds, c), k, n)
  <2>1. PICK d \in ds : d.k = k /\ ValidAt(d, Smaller(n, c)) /\ d.v = v
    BY <1>3, InValuesAt
  <2>2. d.from <= c /\ ValidAt(Reopened(d, c), n)
    BY <1>1, <2>1
  <2>3. Reopened(d, c) \in Invalidate(ds, c)
    BY <2>2, InInvalidate
  <2>4. Reopened(d, c).k = k /\ Reopened(d, c).v = v
    BY <2>1, ReopenedDocument
  <2> QED BY <2>2, <2>3, <2>4, InValuesAt
<1> QED BY <1>2, <1>3

\* Deleting documents that ended by c changes nothing from c on.
LEMMA FinalizeValues ==
  ASSUME NEW ds, ds \subseteq Document, NEW k,
         NEW c \in Point, NEW n \in Point, c <= n
  PROVE  ValuesAt(Finalize(ds, c), k, n) = ValuesAt(ds, k, n)
<1>1. ASSUME NEW d \in ds, ValidAt(d, n)
      PROVE  ~(d.to # Null /\ d.to <= c)
  <2>1. d.to \in Block \union {Null}
    BY DocumentType
  <2> QED BY <1>1, <2>1, Numbers DEF ValidAt
<1>2. ASSUME NEW v
      PROVE  v \in ValuesAt(Finalize(ds, c), k, n) <=> v \in ValuesAt(ds, k, n)
  BY <1>1, InValuesAt DEF Finalize
<1> QED BY <1>2

-----------------------------------------------------------------------------
(* The statements of a handler in block b.                                 *)

\* A document that ends at b.
Ended(d, b) == [d EXCEPT !.to = b]

LEMMA EndedDocument ==
  ASSUME NEW d \in Document, NEW b \in Block
  PROVE  /\ Ended(d, b) \in Document
         /\ Ended(d, b).k = d.k /\ Ended(d, b).v = d.v
         /\ Ended(d, b).from = d.from /\ Ended(d, b).to = b
BY DEF Ended, Document

LEMMA InsertionFields ==
  ASSUME NEW k, NEW v, NEW b
  PROVE  /\ Insertion(k, v, b).k = k /\ Insertion(k, v, b).v = v
         /\ Insertion(k, v, b).from = b /\ Insertion(k, v, b).to = Null
BY DEF Insertion

LEMMA InUpdated ==
  ASSUME NEW ds, NEW ks, NEW v, NEW b, NEW r
  PROVE  r \in Updated(ds, ks, v, b) <=>
           \/ r \in ds /\ ~(r.to = Null /\ r.k \in ks)
           \/ \E d \in ds : /\ d.to = Null /\ d.k \in ks
                            /\ r = Insertion(d.k, v, b) \/ r = Ended(d, b)
BY DEF Updated, Current, Ended

LEMMA InDeleted ==
  ASSUME NEW ds, NEW ks, NEW b, NEW r
  PROVE  r \in Deleted(ds, ks, b) <=>
           \/ r \in ds /\ ~(r.to = Null /\ r.k \in ks)
           \/ \E d \in ds : d.to = Null /\ d.k \in ks /\ r = Ended(d, b)
BY DEF Deleted, Ended

\* What a statement may do to the documents: those it replaces were current,
\* and it ends them at b; those it adds begin at b.
Writes(ds, es, b) ==
  /\ es \subseteq Document
  /\ \A r \in es : \/ r \in ds
                   \/ r.from = b /\ r.to = Null
                   \/ \E d \in ds : d.to = Null /\ r = Ended(d, b)
  /\ \A d \in ds : d \in es \/ (d.to = Null /\ Ended(d, b) \in es)

LEMMA StatementsWrite ==
  ASSUME NEW ds, ds \subseteq Document, NEW ks \in SUBSET Key,
         NEW v \in Value, NEW b \in Block
  PROVE  /\ Writes(ds, ds \union {Insertion(k, v, b) : k \in ks}, b)
         /\ Writes(ds, Updated(ds, ks, v, b), b)
<1>1. \A k \in Key : Insertion(k, v, b) \in Document
  BY DEF Insertion, Document
<1>2. \A d \in ds : d.k \in Key /\ Ended(d, b) \in Document
  BY DocumentType, EndedDocument
<1>3. Writes(ds, ds \union {Insertion(k, v, b) : k \in ks}, b)
  BY <1>1, InsertionFields DEF Writes
<1>4. Writes(ds, Updated(ds, ks, v, b), b)
  <2>1. Updated(ds, ks, v, b) \subseteq Document
    BY <1>1, <1>2, InUpdated
  <2>2. ASSUME NEW r \in Updated(ds, ks, v, b)
        PROVE  \/ r \in ds
               \/ r.from = b /\ r.to = Null
               \/ \E d \in ds : d.to = Null /\ r = Ended(d, b)
    BY InUpdated, InsertionFields
  <2>3. ASSUME NEW d \in ds
        PROVE  \/ d \in Updated(ds, ks, v, b)
               \/ d.to = Null /\ Ended(d, b) \in Updated(ds, ks, v, b)
    BY InUpdated
  <2> QED BY <2>1, <2>2, <2>3 DEF Writes
<1> QED BY <1>3, <1>4

LEMMA DeletedWrites ==
  ASSUME NEW ds, ds \subseteq Document, NEW ks \in SUBSET Key, NEW b \in Block
  PROVE  Writes(ds, Deleted(ds, ks, b), b)
<1>1. Deleted(ds, ks, b) \subseteq Document
  BY EndedDocument, InDeleted
<1>2. ASSUME NEW r \in Deleted(ds, ks, b)
      PROVE  r \in ds \/ \E d \in ds : d.to = Null /\ r = Ended(d, b)
  BY InDeleted
<1>3. ASSUME NEW d \in ds
      PROVE  d \in Deleted(ds, ks, b) \/ (d.to = Null /\ Ended(d, b) \in Deleted(ds, ks, b))
  BY InDeleted
<1> QED BY <1>1, <1>2, <1>3 DEF Writes

\* Nothing changes before b.
LEMMA WritesValues ==
  ASSUME NEW ds, ds \subseteq Document, NEW es, NEW k,
         NEW b \in Block, NEW n \in Point, n < b, Writes(ds, es, b)
  PROVE  ValuesAt(es, k, n) = ValuesAt(ds, k, n)
<1>1. ASSUME NEW d \in ds, d.to = Null
      PROVE  /\ ValidAt(Ended(d, b), n) <=> ValidAt(d, n)
             /\ Ended(d, b).k = d.k /\ Ended(d, b).v = d.v
  BY <1>1, EndedDocument, Numbers DEF ValidAt
<1>2. ASSUME NEW v, v \in ValuesAt(es, k, n)
      PROVE  v \in ValuesAt(ds, k, n)
  <2>1. PICK r \in es : r.k = k /\ ValidAt(r, n) /\ r.v = v
    BY <1>2, InValuesAt
  <2>2. ~(r.from = b)
    BY <2>1, Numbers DEF ValidAt
  <2>3. r \in ds \/ \E d \in ds : d.to = Null /\ r = Ended(d, b)
    BY <2>2 DEF Writes
  <2> QED BY <1>1, <2>1, <2>3, InValuesAt
<1>3. ASSUME NEW v, v \in ValuesAt(ds, k, n)
      PROVE  v \in ValuesAt(es, k, n)
  <2>1. PICK d \in ds : d.k = k /\ ValidAt(d, n) /\ d.v = v
    BY <1>3, InValuesAt
  <2>2. d \in es \/ (d.to = Null /\ Ended(d, b) \in es)
    BY DEF Writes
  <2> QED BY <1>1, <2>1, <2>2, InValuesAt
<1> QED BY <1>2, <1>3

\* Other blocks stay untouched.
LEMMA WritesUntouched ==
  ASSUME NEW ds, ds \subseteq Document, NEW es, NEW b \in Block, NEW e \in Block,
         e # b, Untouched(ds, e), Writes(ds, es, b)
  PROVE  Untouched(es, e)
<1> SUFFICES ASSUME NEW r \in es PROVE r.from # e /\ r.to # e
  BY DEF Untouched
<1>1. CASE r \in ds
  BY <1>1 DEF Untouched
<1>2. CASE r.from = b /\ r.to = Null
  BY <1>2, Numbers
<1>3. ASSUME NEW d \in ds, r = Ended(d, b) PROVE r.from # e /\ r.to # e
  BY <1>3, EndedDocument DEF Untouched
<1> QED BY <1>1, <1>2, <1>3 DEF Writes

\* What the handler finds afterwards.
LEMMA FindOneIsFirst ==
  ASSUME NEW ds, NEW k
  PROVE  FindOne(ds, k) = FirstOf(CurrentValues(ds, k))
BY DEF FindOne, CurrentValues

LEMMA AbsentIsNone ==
  ASSUME NEW ds, ds \subseteq Document, NEW k
  PROVE  /\ FindOne(ds, k) \in Value \union {Absent}
         /\ FindOne(ds, k) = Absent <=> CurrentValues(ds, k) = {}
<1>1. CurrentValues(ds, k) \subseteq Value
  <2>1. ASSUME NEW v, v \in CurrentValues(ds, k) PROVE v \in Value
    BY <2>1, InCurrentValues, DocumentType
  <2> QED BY <2>1
<1> QED BY <1>1, FindOneIsFirst, MongoAssumption DEF FirstOf

LEMMA FindOneOf ==
  ASSUME NEW ds, NEW k, NEW v, CurrentValues(ds, k) = {v}
  PROVE  FindOne(ds, k) = v
BY FindOneIsFirst DEF FirstOf

LEMMA InsertFound ==
  ASSUME NEW ds, ds \subseteq Document, NEW ks \in SUBSET Key, NEW v, NEW b, NEW k \in Key,
         \A l \in ks : FindOne(ds, l) = Absent
  PROVE  FindOne(ds \union {Insertion(l, v, b) : l \in ks}, k)
           = IF k \in ks THEN v ELSE FindOne(ds, k)
<1> DEFINE es == ds \union {Insertion(l, v, b) : l \in ks}
<1>1. ASSUME NEW w
      PROVE  w \in CurrentValues(es, k) <=> w \in CurrentValues(ds, k) \/ (k \in ks /\ w = v)
  <2>1. ASSUME NEW r \in es, r.to = Null, r.k = k, r.v = w
        PROVE  w \in CurrentValues(ds, k) \/ (k \in ks /\ w = v)
    BY <2>1, InCurrentValues, InsertionFields
  <2>2. ASSUME k \in ks
        PROVE  Insertion(k, v, b) \in es
    BY <2>2
  <2>3. ASSUME w \in CurrentValues(ds, k)
        PROVE  w \in CurrentValues(es, k)
    BY <2>3, InCurrentValues
  <2> HIDE DEF es
  <2> QED BY <2>1, <2>2, <2>3, InCurrentValues, InsertionFields
<1> HIDE DEF es
<1>2. CASE k \in ks
  <2>1. CurrentValues(ds, k) = {}
    BY <1>2, AbsentIsNone
  <2>2. CurrentValues(es, k) = {v}
    BY <1>1, <1>2, <2>1
  <2> QED BY <1>2, <2>2, FindOneOf DEF es
<1>3. CASE k \notin ks
  <2>1. CurrentValues(es, k) = CurrentValues(ds, k)
    BY <1>1, <1>3
  <2> QED BY <1>3, <2>1, FindOneIsFirst DEF es
<1> QED BY <1>2, <1>3

LEMMA UpdateFound ==
  ASSUME NEW ds, ds \subseteq Document, NEW ks \in SUBSET Key, NEW v, NEW b \in Block,
         NEW k \in Key
  PROVE  FindOne(Updated(ds, ks, v, b), k)
           = IF k \in ks /\ FindOne(ds, k) # Absent THEN v ELSE FindOne(ds, k)
<1> DEFINE es == Updated(ds, ks, v, b)
<1>1. ASSUME NEW r \in es, r.to = Null, r.k = k
      PROVE  \/ k \notin ks /\ r \in ds
             \/ k \in ks /\ r.v = v /\ CurrentValues(ds, k) # {}
  <2>1. CASE r \in ds /\ ~(r.to = Null /\ r.k \in ks)
    BY <1>1, <2>1
  <2>2. ASSUME NEW d \in ds, d.to = Null, d.k \in ks,
               r = Insertion(d.k, v, b) \/ r = Ended(d, b)
        PROVE  k \in ks /\ r.v = v /\ CurrentValues(ds, k) # {}
    <3>1. r # Ended(d, b)
      BY <1>1, EndedDocument, Numbers
    <3>2. d.k = k /\ r.v = v
      BY <1>1, <2>2, <3>1, InsertionFields
    <3>3. d.v \in CurrentValues(ds, k)
      BY <2>2, <3>2, InCurrentValues
    <3> QED BY <2>2, <3>2, <3>3
  <2> QED BY <2>1, <2>2, InUpdated
<1>2. CASE k \in ks /\ FindOne(ds, k) # Absent
  <2>1. PICK d \in ds : d.to = Null /\ d.k = k
    <3>1. PICK w : w \in CurrentValues(ds, k)
      BY <1>2, AbsentIsNone
    <3> QED BY <3>1, InCurrentValues
  <2>2. Insertion(k, v, b) \in es
    BY <1>2, <2>1, InUpdated
  <2>3. ASSUME NEW w
        PROVE  w \in CurrentValues(es, k) <=> w = v
    <3>1. w \in CurrentValues(es, k) <=> \E r \in es : r.to = Null /\ r.k = k /\ r.v = w
      BY InCurrentValues
    <3> HIDE DEF es
    <3> QED BY <1>1, <1>2, <2>2, <3>1, InsertionFields
  <2>4. CurrentValues(es, k) = {v}
    BY <2>3
  <2> QED BY <1>2, <2>4, FindOneOf
<1>3. CASE k \in ks /\ FindOne(ds, k) = Absent
  <2>1. CurrentValues(ds, k) = {}
    BY <1>3, AbsentIsNone
  <2>2. CurrentValues(es, k) = {}
    <3>1. ASSUME NEW w, w \in CurrentValues(es, k) PROVE FALSE
      BY <1>1, <1>3, <2>1, <3>1, InCurrentValues
    <3> QED BY <3>1
  <2> QED BY <1>3, <2>2, FindOneIsFirst DEF FirstOf
<1>4. CASE k \notin ks
  <2>1. ASSUME NEW w
        PROVE  w \in CurrentValues(es, k) <=> w \in CurrentValues(ds, k)
    <3>1. ASSUME NEW d \in ds, d.k = k PROVE d \in es
      BY <1>4, <3>1, InUpdated
    <3> HIDE DEF es
    <3> QED BY <1>1, <1>4, <3>1, InCurrentValues
  <2>2. CurrentValues(es, k) = CurrentValues(ds, k)
    BY <2>1
  <2> QED BY <1>4, <2>2, FindOneIsFirst
<1> QED BY <1>2, <1>3, <1>4

LEMMA DeleteFound ==
  ASSUME NEW ds, ds \subseteq Document, NEW ks \in SUBSET Key, NEW b \in Block, NEW k \in Key
  PROVE  FindOne(Deleted(ds, ks, b), k) = IF k \in ks THEN Absent ELSE FindOne(ds, k)
<1> DEFINE es == Deleted(ds, ks, b)
<1>1. ASSUME NEW r \in es, r.to = Null, r.k = k
      PROVE  k \notin ks /\ r \in ds
  <2>1. \A d \in ds : r # Ended(d, b)
    BY <1>1, EndedDocument, Numbers
  <2> QED BY <1>1, <2>1, InDeleted
<1>2. CASE k \in ks
  <2>1. CurrentValues(es, k) = {}
    <3>1. ASSUME NEW w, w \in CurrentValues(es, k) PROVE FALSE
      BY <1>1, <1>2, <3>1, InCurrentValues
    <3> QED BY <3>1
  <2> QED BY <1>2, <2>1, FindOneIsFirst DEF FirstOf
<1>3. CASE k \notin ks
  <2>1. ASSUME NEW w
        PROVE  w \in CurrentValues(es, k) <=> w \in CurrentValues(ds, k)
    <3>1. ASSUME NEW d \in ds, d.k = k PROVE d \in es
      BY <1>3, <3>1, InDeleted
    <3> HIDE DEF es
    <3> QED BY <1>1, <3>1, InCurrentValues
  <2>2. CurrentValues(es, k) = CurrentValues(ds, k)
    BY <2>1
  <2> QED BY <1>3, <2>2, FindOneIsFirst
<1> QED BY <1>2, <1>3

LEMMA TablesType ==
  ASSUME NEW ds, ds \subseteq Document, NEW c \in Point
  PROVE  Invalidate(ds, c) \subseteq Document /\ Finalize(ds, c) \subseteq Document
BY InInvalidate, ReopenedDocument DEF Finalize

\* Which blocks Invalidate leaves untouched.
LEMMA UntouchedInvalidate ==
  ASSUME NEW ds, ds \subseteq Document, NEW c \in Point, NEW e \in Block,
         Untouched(ds, e) \/ e > c
  PROVE  Untouched(Invalidate(ds, c), e)
<1> SUFFICES ASSUME NEW r \in Invalidate(ds, c) PROVE r.from # e /\ r.to # e
  BY DEF Untouched
<1>1. PICK d \in ds : d.from <= c /\ r = Reopened(d, c)
  BY InInvalidate
<1>2. d.from \in Block /\ d.to \in Block \union {Null}
  BY DocumentType
<1>3. r.from = d.from /\ r.to = IF d.to # Null /\ d.to > c THEN Null ELSE d.to
  BY <1>1, ReopenedDocument
<1>4. e # Null /\ c \in Int /\ e \in Int
  BY Numbers
<1>5. CASE Untouched(ds, e)
  BY <1>3, <1>4, <1>5 DEF Untouched
<1>6. CASE e > c
  BY <1>1, <1>2, <1>3, <1>4, <1>6, Numbers
<1> QED BY <1>5, <1>6

-----------------------------------------------------------------------------
(* The histories the documents stand for.                                  *)

\* The abstract names.
LEMMA StoreNames ==
  /\ Store!Point = Point /\ Store!Block = Block
  /\ Store!Nothing = [k \in Key |-> Absent]
  /\ \A m, n : Store!Smaller(m, n) = Smaller(m, n) /\ Store!Larger(m, n) = Larger(m, n)
BY DEF Store!Point, Point, Store!Block, Block, Store!Nothing, Store!Smaller, Smaller,
       Store!Larger, Larger

\* Going back to c, with the final block at or below it or nothing between.
LEMMA HistoryInvalidate ==
  ASSUME NEW ds, ds \subseteq Document, NEW c \in Point, NEW final \in Point,
         \A e \in Block : c < e /\ e <= final => Untouched(ds, e)
  PROVE  History(Invalidate(ds, c), final) = Store!Truncated(History(ds, final), c)
<1>1. ASSUME NEW n \in Point, NEW k \in Key
      PROVE  ValuesAt(Invalidate(ds, c), k, Larger(n, final))
               = ValuesAt(ds, k, Larger(Smaller(n, c), final))
  <2>1. Larger(n, final) \in Point
    BY DEF Larger
  <2>2. ValuesAt(Invalidate(ds, c), k, Larger(n, final))
          = ValuesAt(ds, k, Smaller(Larger(n, final), c))
    BY <2>1, InvalidateValues
  <2>3. n \in Int /\ c \in Int /\ final \in Int
    BY Numbers
  <2>4. CASE c >= final
    <3>1. Smaller(Larger(n, final), c) = Larger(Smaller(n, c), final)
      BY <2>3, <2>4 DEF Larger, Smaller
    <3> QED BY <2>2, <3>1
  <2>5. CASE c < final
    <3>1. Smaller(Larger(n, final), c) = c /\ Larger(Smaller(n, c), final) = final
      BY <2>3, <2>5 DEF Larger, Smaller
    <3>2. ValuesAt(ds, k, c) = ValuesAt(ds, k, final)
      BY <2>3, <2>5, NothingBetween
    <3> QED BY <2>2, <3>1, <3>2
  <2> QED BY <2>3, <2>4, <2>5
<1>2. ASSUME NEW n \in Point
      PROVE  Smaller(n, c) \in Point
  BY DEF Smaller
<1> QED BY <1>1, <1>2, StoreNames DEF History, Store!Truncated

\* Forgetting what is before c.
LEMMA HistoryFinalize ==
  ASSUME NEW ds, ds \subseteq Document, NEW c \in Point, NEW final \in Point
  PROVE  History(Finalize(ds, c), Larger(final, c)) = Store!Forgotten(History(ds, final), c)
<1>1. ASSUME NEW n \in Point, NEW k \in Key
      PROVE  ValuesAt(Finalize(ds, c), k, Larger(n, Larger(final, c)))
               = ValuesAt(ds, k, Larger(Larger(n, c), final))
  <2>1. n \in Int /\ c \in Int /\ final \in Int
    BY Numbers
  <2>2. /\ Larger(n, Larger(final, c)) = Larger(Larger(n, c), final)
        /\ c <= Larger(Larger(n, c), final)
    BY <2>1 DEF Larger
  <2>3. Larger(Larger(n, c), final) \in Point
    BY DEF Larger
  <2> QED BY <2>2, <2>3, FinalizeValues
<1>2. ASSUME NEW n \in Point
      PROVE  Larger(n, c) \in Point
  BY DEF Larger
<1> QED BY <1>1, <1>2, StoreNames DEF History, Store!Forgotten

LEMMA NoDocuments ==
  ASSUME NEW final
  PROVE  History({}, final) = [n \in Point |-> [k \in Key |-> Absent]]
BY DEF History, ValuesAt, FirstOf

-----------------------------------------------------------------------------
(* The inductive invariant.                                                *)

\* Documents begin and end by the stream's position, or at the block last.
Settled(ds, last) == \A e \in Block : pos < e /\ e # last => Untouched(ds, e)

\* Where the stream may stand, and what is known of a pending block.
StreamInv ==
  /\ StartingCursor <= pos /\ pos <= head /\ pos <= RequestedCursor
  /\ head # pos => floor < head /\ StartingCursor # Undefined
  /\ conn = "running" /\ head # pos => prevFinality = "pending"

\* The handler of block b works on the content after the stream's position.
HandlerInv(b) ==
  /\ conn = "running" /\ pos < b
  /\ tx.finality \in Finalities
  /\ tx.finality = "pending" => floor < b
  /\ Settled(docs, b)
  /\ \A k \in Key, n \in Point :
       floor <= n /\ n < b =>
         ValuesAt(docs, k, n) = ValuesAt(saved, k, Larger(Smaller(n, pos), floor))

IInv ==
  /\ TypeOK
  /\ StreamInv
  /\ Settled(saved, head)
  /\ tx = NoTx => docs = saved
  /\ tx # NoTx => HandlerInv(tx.endCursor)

\* What a handler's transaction is.
LEMMA TxType ==
  ASSUME TypeOK, tx # NoTx
  PROVE  /\ tx \in Transaction
         /\ tx.endCursor \in Block /\ tx.finality \in Finality
BY DEF TypeOK, Transaction

LEMMA BegunType ==
  ASSUME NEW c \in Point, NEW b \in Block, NEW finality \in Finality
  PROVE  LET t == [cursor |-> c, endCursor |-> b, finality |-> finality]
         IN  /\ t \in Transaction /\ t # NoTx
             /\ t.cursor = c /\ t.endCursor = b /\ t.finality = finality
BY MongoAssumption DEF Transaction

LEMMA InitInv == Init => IInv
<1> SUFFICES ASSUME Init PROVE IInv
  OBVIOUS
<1>1. TypeOK
  BY Numbers DEF Init, TypeOK
<1>2. StreamInv
  BY Numbers DEF Init, StreamInv, RequestedCursor
<1>3. Settled(saved, head)
  BY DEF Init, Settled, Untouched
<1> QED BY <1>1, <1>2, <1>3 DEF Init, IInv

\* The types are kept.
LEMMA TypeStep == TypeOK /\ [Next]_vars => TypeOK'
<1> SUFFICES ASSUME TypeOK, [Next]_vars PROVE TypeOK'
  OBVIOUS
<1> USE DEF TypeOK
<1>1. CASE Initialize
  BY <1>1, Numbers DEF Initialize, Transact
<1>2. CASE Connect
  <2>1. RequestedCursor \in Point
    BY Numbers DEF RequestedCursor
  <2>2. Invalidate(docs, RequestedCursor) \subseteq Document
    BY <2>1, TablesType
  <2> QED BY <1>2, <2>2 DEF Connect, Transact
<1>3. ASSUME NEW b \in Block, NEW finality \in Finalities, BeginBlock(b, finality)
      PROVE  TypeOK'
  <2>1. Invalidate(docs, pos) \subseteq Document
    BY TablesType
  <2>2. [cursor |-> pos, endCursor |-> b, finality |-> finality] \in Transaction
    BY Numbers, BegunType
  <2> QED BY <1>3, <2>1, <2>2 DEF BeginBlock, stream
<1>4. ASSUME NEW ks \in SUBSET Key,
             (\E v \in Value : InsertMany(ks, v) \/ UpdateMany(ks, v)) \/ DeleteMany(ks)
      PROVE  TypeOK'
  <2>1. tx # NoTx /\ tx.endCursor \in Block
    BY <1>4, TxType DEF InsertMany, UpdateMany, DeleteMany, Statement
  <2>2. docs' \subseteq Document
    <3>1. ASSUME NEW v \in Value, InsertMany(ks, v) \/ UpdateMany(ks, v)
          PROVE  docs' \subseteq Document
      <4>1. /\ Writes(docs, docs \union {Insertion(k, v, tx.endCursor) : k \in ks}, tx.endCursor)
            /\ Writes(docs, Updated(docs, ks, v, tx.endCursor), tx.endCursor)
        BY <2>1, StatementsWrite
      <4> QED BY <3>1, <4>1 DEF InsertMany, UpdateMany, Statement, Writes
    <3>2. ASSUME DeleteMany(ks) PROVE docs' \subseteq Document
      <4>1. Writes(docs, Deleted(docs, ks, tx.endCursor), tx.endCursor)
        BY <2>1, DeletedWrites
      <4> QED BY <3>2, <4>1 DEF DeleteMany, Statement, Writes
    <3> QED BY <1>4, <3>1, <3>2
  <2>3. UNCHANGED <<saved, checkpoint, tx, prevFinality, conn, stream>>
    BY <1>4 DEF InsertMany, UpdateMany, DeleteMany, Statement
  <2> QED BY <2>2, <2>3 DEF stream
<1>5. CASE (Commit /\ Continue) \/ CommitUnanswered
  <2>1. tx.endCursor \in Point /\ tx.finality \in Finality
    BY <1>5, TxType, Numbers DEF Commit, CommitUnanswered
  <2> QED BY <1>5, <2>1 DEF Commit, CommitUnanswered, Continue, Stop
<1>6. CASE CommitFails \/ HandlerFails
  <2>1. tx # NoTx /\ tx.finality \in Finality
    BY <1>6, TxType DEF CommitFails, HandlerFails, Abort
  <2> QED BY <1>6, <2>1 DEF CommitFails, HandlerFails, AfterFailedCommit, Abort, Stop, stream
<1>7. ASSUME NEW c \in Block, MessageInvalidate(c) PROVE TypeOK'
  <2>1. Invalidate(docs, c) \subseteq Document
    BY Numbers, TablesType
  <2> QED BY <1>7, <2>1, Numbers DEF MessageInvalidate, Transact
<1>8. ASSUME NEW c \in Block, MessageFinalize(c) PROVE TypeOK'
  BY <1>8, Numbers DEF MessageFinalize, Transact, Finalize, Larger
<1>9. CASE Disconnect
  BY <1>9 DEF Disconnect, Stop, stream
<1>10. CASE Crash
  BY <1>10 DEF Crash, Stop, stream
<1>11. CASE UNCHANGED vars
  BY <1>11 DEF vars
<1> QED BY <1>1, <1>2, <1>3, <1>4, <1>5, <1>6, <1>7, <1>8, <1>9, <1>10, <1>11 DEF Next

\* Every variable has its type.
THEOREM TypeCorrect == Spec => []TypeOK
<1>1. Init => TypeOK
  BY InitInv DEF IInv
<1> QED BY <1>1, TypeStep, PTL DEF Spec

-----------------------------------------------------------------------------
(* Each action keeps the invariant.                                        *)

LEMMA InitializeInv ==
  ASSUME IInv, TypeOK', Initialize
  PROVE  IInv'
<1>1. tx' = NoTx /\ docs' = saved' /\ docs = saved /\ TypeOK /\ conn' = "initialized"
  BY DEF Initialize, Transact, IInv
<1>2. CASE docs' = {} /\ checkpoint' = Undefined
           /\ pos' = StartingCursor /\ head' = StartingCursor
  <2>1. StreamInv'
    BY <1>1, <1>2, Numbers DEF StreamInv, RequestedCursor
  <2>2. Settled(saved, head)'
    BY <1>1, <1>2 DEF Settled, Untouched
  <2> QED BY <1>1, <2>1, <2>2 DEF IInv
<1>3. CASE docs' = docs /\ UNCHANGED <<checkpoint, pos, head>>
  <2>1. StreamInv'
    BY <1>1, <1>3 DEF StreamInv, RequestedCursor, Initialize, IInv
  <2>2. Settled(saved, head)'
    BY <1>1, <1>3 DEF Settled, IInv
  <2> QED BY <1>1, <2>1, <2>2 DEF IInv
<1> QED BY <1>2, <1>3 DEF Initialize, Transact

LEMMA ConnectInv ==
  ASSUME IInv, TypeOK', Connect
  PROVE  IInv'
<1> DEFINE c == RequestedCursor
<1>1. /\ tx' = NoTx /\ docs' = saved' /\ docs = saved /\ TypeOK /\ StreamInv
      /\ Settled(saved, head) /\ saved \subseteq Document
      /\ saved' = IF c = Undefined THEN saved ELSE Invalidate(saved, c)
  BY DEF Connect, Transact, IInv, TypeOK
<1>2. c \in Point
  BY <1>1, Numbers DEF RequestedCursor, TypeOK
<1>3. RequestedCursor' = c /\ pos' = pos /\ floor' = floor /\ prevFinality' = prevFinality
  BY DEF Connect, RequestedCursor
<1>4. pos \in Point /\ head \in Point /\ pos <= c
  BY <1>1 DEF TypeOK, StreamInv
<1>5. CASE c > pos
  <2>1. conn' = "rewinding" /\ head' = head
    BY <1>5 DEF Connect
  <2>2. StreamInv'
    BY <1>1, <1>3, <2>1 DEF StreamInv
  <2>3. ASSUME NEW e \in Block, pos < e, e # head
        PROVE  Untouched(saved', e)
    <3>1. Untouched(saved, e)
      BY <1>1, <2>3 DEF Settled
    <3> QED BY <1>1, <1>2, <3>1, UntouchedInvalidate
  <2> QED BY <1>1, <1>3, <2>1, <2>2, <2>3 DEF IInv, Settled
<1>6. CASE ~(c > pos)
  <2>1. c = pos
    BY <1>2, <1>4, <1>6, Numbers
  <2>2. conn' = "running" /\ head' = pos
    BY <1>6 DEF Connect
  <2>3. StreamInv'
    BY <1>1, <1>3, <1>4, <2>2, Numbers DEF StreamInv
  <2>4. ASSUME NEW e \in Block, pos < e
        PROVE  Untouched(saved', e)
    <3>1. CASE c = Undefined
      <4>1. head = pos
        BY <1>1, <1>4, <2>1, <3>1, Numbers DEF StreamInv, RequestedCursor, Undefined
      <4>2. Untouched(saved, e)
        BY <1>1, <2>4, <4>1, <1>4, Numbers DEF Settled
      <4> QED BY <1>1, <3>1, <4>2
    <3>2. CASE c # Undefined
      BY <1>1, <1>2, <2>1, <2>4, <3>2, UntouchedInvalidate
    <3> QED BY <3>1, <3>2
  <2> QED BY <1>1, <1>3, <2>3, <2>4 DEF IInv, Settled
<1> QED BY <1>5, <1>6

LEMMA MessageInvalidateInv ==
  ASSUME IInv, TypeOK', NEW c \in Block, MessageInvalidate(c)
  PROVE  IInv'
<1>1. tx' = NoTx /\ docs' = saved' /\ docs = saved /\ TypeOK /\ StreamInv
      /\ Settled(saved, head) /\ saved' = Invalidate(saved, c) /\ saved \subseteq Document
  BY DEF MessageInvalidate, Transact, IInv, TypeOK
<1>2. pos' = c /\ head' = c /\ c <= pos /\ StartingCursor <= c /\ checkpoint' = checkpoint
  BY DEF MessageInvalidate
<1>3. RequestedCursor \in Point /\ pos \in Point
  BY <1>1, Numbers DEF RequestedCursor, TypeOK
<1>4. StreamInv'
  BY <1>1, <1>2, <1>3, Numbers DEF StreamInv, RequestedCursor
<1>5. Settled(saved, head)'
  BY <1>1, <1>2, Numbers, UntouchedInvalidate DEF Settled
<1> QED BY <1>1, <1>4, <1>5 DEF IInv

LEMMA MessageFinalizeInv ==
  ASSUME IInv, TypeOK', NEW c \in Block, MessageFinalize(c)
  PROVE  IInv'
<1>1. tx' = NoTx /\ docs' = saved' /\ docs = saved /\ StreamInv
      /\ Settled(saved, head) /\ saved' = Finalize(saved, c)
  BY DEF MessageFinalize, Transact, IInv
<1>2. floor' = Larger(floor, c) /\ (head # pos => c < head)
      /\ UNCHANGED <<pos, head, checkpoint, conn, prevFinality>>
  BY DEF MessageFinalize
<1>3. StreamInv'
  BY <1>1, <1>2 DEF StreamInv, RequestedCursor, Larger
<1>4. Settled(saved, head)'
  BY <1>1, <1>2 DEF Settled, Untouched, Finalize
<1> QED BY <1>1, <1>3, <1>4 DEF IInv

LEMMA BeginBlockInv ==
  ASSUME IInv, TypeOK', NEW b \in Block, NEW finality \in Finalities,
         BeginBlock(b, finality)
  PROVE  IInv'
<1>1. /\ tx = NoTx /\ docs = saved /\ TypeOK /\ StreamInv /\ Settled(saved, head)
      /\ pos < b /\ conn = "running" /\ (finality = "pending" => b > floor)
      /\ UNCHANGED <<saved, checkpoint, prevFinality, pos, head, floor>>
      /\ pos \in Point /\ floor \in Point /\ head \in Point /\ pos <= head
      /\ saved \subseteq Document
  BY DEF BeginBlock, Sends, IInv, stream, TypeOK, StreamInv
<1>2. Settled(saved, head)'
  BY <1>1 DEF Settled
<1>3. CASE prevFinality = "pending" /\ pos = Undefined
  <2>1. conn' = "stopped" /\ UNCHANGED <<docs, tx>>
    BY <1>3 DEF BeginBlock, Stop
  <2>2. StreamInv'
    BY <1>1, <2>1 DEF StreamInv, RequestedCursor
  <2> QED BY <1>1, <1>2, <2>1, <2>2 DEF IInv
<1>4. CASE ~(prevFinality = "pending" /\ pos = Undefined)
  <2>1. /\ tx' = [cursor |-> pos, endCursor |-> b, finality |-> finality]
        /\ docs' = IF prevFinality = "pending" THEN Invalidate(saved, pos) ELSE saved
        /\ conn' = conn
    BY <1>1, <1>4 DEF BeginBlock
  <2>2. tx'.endCursor = b /\ tx'.finality = finality /\ tx' # NoTx
    BY <1>1, <2>1, Numbers, BegunType
  <2>3. StreamInv'
    BY <1>1, <2>1 DEF StreamInv, RequestedCursor
  <2>4. CASE prevFinality = "pending"
    <3>1. docs' = Invalidate(saved, pos)
      BY <2>1, <2>4
    <3>2. Settled(docs, b)'
      BY <1>1, <3>1, UntouchedInvalidate DEF Settled
    <3>3. ASSUME NEW k \in Key, NEW n \in Point, floor <= n, n < b
          PROVE  ValuesAt(docs', k, n) = ValuesAt(saved, k, Larger(Smaller(n, pos), floor))
      <4>1. ValuesAt(docs', k, n) = ValuesAt(saved, k, Smaller(n, pos))
        BY <1>1, <3>1, InvalidateValues
      <4>2. CASE floor <= pos
        <5>1. Larger(Smaller(n, pos), floor) = Smaller(n, pos)
          BY <1>1, <3>3, <4>2, Numbers DEF Larger, Smaller
        <5> QED BY <4>1, <5>1
      <4>3. CASE pos < floor
        <5>1. Smaller(n, pos) = pos /\ Larger(Smaller(n, pos), floor) = floor
          BY <1>1, <3>3, <4>3, Numbers DEF Larger, Smaller
        <5>2. ASSUME NEW e \in Block, pos < e, e <= floor
              PROVE  Untouched(saved, e)
          BY <1>1, <5>2, Numbers DEF Settled, StreamInv
        <5>3. ValuesAt(saved, k, pos) = ValuesAt(saved, k, floor)
          BY <1>1, <4>3, <5>2, Numbers, NothingBetween
        <5> QED BY <4>1, <5>1, <5>3
      <4> QED BY <1>1, <4>2, <4>3, Numbers
    <3>4. HandlerInv(b)'
      BY <1>1, <2>1, <2>2, <3>2, <3>3 DEF HandlerInv
    <3> QED BY <1>2, <2>2, <2>3, <3>4 DEF IInv
  <2>5. CASE prevFinality # "pending"
    <3>1. head = pos /\ docs' = saved
      BY <1>1, <2>1, <2>5 DEF StreamInv
    <3>2. \A e \in Block : pos < e => Untouched(saved, e)
      BY <1>1, <3>1, Numbers DEF Settled
    <3>3. Settled(docs, b)'
      BY <1>1, <3>1, <3>2 DEF Settled
    <3>4. ASSUME NEW k \in Key, NEW n \in Point, floor <= n, n < b
          PROVE  ValuesAt(docs', k, n) = ValuesAt(saved, k, Larger(Smaller(n, pos), floor))
      <4> DEFINE m == Larger(Smaller(n, pos), floor)
      <4>1. m \in Point /\ m <= n /\ \A e \in Block : m < e /\ e <= n => pos < e
        BY <1>1, <3>4, Numbers DEF Larger, Smaller
      <4>2. \A e \in Block : m < e /\ e <= n => Untouched(saved, e)
        BY <3>2, <4>1
      <4> HIDE DEF m
      <4>3. ValuesAt(saved, k, m) = ValuesAt(saved, k, n)
        BY <1>1, <4>1, <4>2, NothingBetween
      <4> QED BY <3>1, <4>3 DEF m
    <3>5. HandlerInv(b)'
      BY <1>1, <2>1, <2>2, <3>3, <3>4 DEF HandlerInv
    <3> QED BY <1>2, <2>2, <2>3, <3>5 DEF IInv
  <2> QED BY <2>4, <2>5
<1> QED BY <1>3, <1>4

LEMMA StatementInv ==
  ASSUME IInv, TypeOK', NEW es, Statement(es), Writes(docs, es, tx.endCursor)
  PROVE  IInv'
<1>0. PICK b \in Block : b = tx.endCursor
  BY TxType DEF IInv, Statement
<1>1. /\ TypeOK /\ tx # NoTx /\ docs \subseteq Document /\ HandlerInv(b)
      /\ StreamInv /\ Settled(saved, head) /\ docs' = es
      /\ UNCHANGED <<saved, checkpoint, tx, prevFinality, conn, pos, head, floor>>
  BY <1>0 DEF IInv, Statement, stream, TypeOK
<1>2. StreamInv' /\ Settled(saved, head)'
  BY <1>1 DEF StreamInv, RequestedCursor, Settled
<1>3. \A e \in Block : pos < e /\ e # b => Untouched(docs', e)
  BY <1>0, <1>1, WritesUntouched DEF HandlerInv, Settled
<1>4. \A k \in Key, n \in Point : n < b => ValuesAt(docs', k, n) = ValuesAt(docs, k, n)
  BY <1>0, <1>1, WritesValues
<1>5. HandlerInv(b)'
  BY <1>1, <1>3, <1>4 DEF HandlerInv, Settled
<1> QED BY <1>0, <1>1, <1>2, <1>5 DEF IInv

LEMMA HandlerWritesInv ==
  ASSUME IInv, TypeOK', NEW ks \in SUBSET Key,
         (\E v \in Value : InsertMany(ks, v) \/ UpdateMany(ks, v)) \/ DeleteMany(ks)
  PROVE  IInv'
<1>1. tx # NoTx /\ tx.endCursor \in Block /\ docs \subseteq Document
  BY TxType DEF InsertMany, UpdateMany, DeleteMany, Statement, IInv, TypeOK
<1>2. ASSUME NEW v \in Value, InsertMany(ks, v) PROVE IInv'
  BY <1>1, <1>2, StatementsWrite, StatementInv DEF InsertMany
<1>3. ASSUME NEW v \in Value, UpdateMany(ks, v) PROVE IInv'
  BY <1>1, <1>3, StatementsWrite, StatementInv DEF UpdateMany
<1>4. ASSUME DeleteMany(ks) PROVE IInv'
  BY <1>1, <1>4, DeletedWrites, StatementInv DEF DeleteMany
<1> QED BY <1>2, <1>3, <1>4

\* The handler threw, the commit failed or the process ended.
LEMMA AbortInv ==
  ASSUME IInv, TypeOK', Crash \/ HandlerFails \/ CommitFails
  PROVE  IInv'
<1>1. /\ docs' = saved' /\ tx' = NoTx /\ conn' = "stopped"
      /\ UNCHANGED <<saved, checkpoint, pos, head, floor>>
  BY DEF Crash, HandlerFails, CommitFails, AfterFailedCommit, Abort, Stop, stream
<1>2. StreamInv' /\ Settled(saved, head)'
  BY <1>1 DEF IInv, StreamInv, RequestedCursor, Settled
<1> QED BY <1>1, <1>2 DEF IInv

LEMMA CommitInv ==
  ASSUME Clean, IInv, TypeOK', Commit, conn' = conn \/ conn' = "stopped"
  PROVE  IInv'
<1> DEFINE pending == tx.finality = "pending"
<1>0. PICK b \in Block : b = tx.endCursor
  BY TxType DEF IInv, Commit
<1>1. /\ TypeOK /\ HandlerInv(b) /\ StreamInv
      /\ tx' = NoTx /\ docs' = saved' /\ saved' = docs /\ floor' = floor
      /\ checkpoint' = (IF pending THEN checkpoint ELSE b)
      /\ prevFinality' = tx.finality
      /\ pos' = (IF pending THEN pos ELSE b)
      /\ head' = b
  BY <1>0 DEF IInv, Commit
<1>2. pos < b /\ StartingCursor <= pos /\ pos <= RequestedCursor /\ pos \in Point
  BY <1>1 DEF HandlerInv, StreamInv, TypeOK
<1>3. pending => floor < b /\ StartingCursor # Undefined
  BY <1>1 DEF HandlerInv, Clean
<1>4. StreamInv'
  <2>1. CASE pending
    BY <1>1, <1>2, <1>3, <2>1, Numbers DEF StreamInv, RequestedCursor
  <2>2. CASE ~pending
    BY <1>1, <1>2, <2>2, Numbers DEF StreamInv, RequestedCursor, Undefined
  <2> QED BY <2>1, <2>2
<1>5. Settled(saved, head)'
  <2>1. \A e \in Block : pos < e /\ e # b => Untouched(docs, e)
    BY <1>1 DEF HandlerInv, Settled
  <2>2. \A e \in Block : pos' < e /\ e # b => pos < e
    BY <1>1, <1>2, Numbers
  <2> QED BY <1>1, <2>1, <2>2 DEF Settled
<1> QED BY <1>1, <1>4, <1>5 DEF IInv

LEMMA NextInv == Clean /\ IInv /\ [Next]_vars => IInv'
<1> SUFFICES ASSUME Clean, IInv, [Next]_vars PROVE IInv'
  OBVIOUS
<1>1. TypeOK'
  BY TypeStep DEF IInv
<1>2. CASE Initialize
  BY <1>1, <1>2, InitializeInv
<1>3. CASE Connect
  BY <1>1, <1>3, ConnectInv
<1>4. ASSUME NEW b \in Block, NEW finality \in Finalities, BeginBlock(b, finality)
      PROVE  IInv'
  BY <1>1, <1>4, BeginBlockInv
<1>5. ASSUME NEW ks \in SUBSET Key,
             (\E v \in Value : InsertMany(ks, v) \/ UpdateMany(ks, v)) \/ DeleteMany(ks)
      PROVE  IInv'
  BY <1>1, <1>5, HandlerWritesInv
<1>6. CASE (Commit /\ Continue) \/ CommitUnanswered
  BY <1>1, <1>6, CommitInv DEF CommitUnanswered, Continue, Stop
<1>7. CASE Crash \/ HandlerFails \/ CommitFails
  BY <1>1, <1>7, AbortInv
<1>8. ASSUME NEW c \in Block, MessageInvalidate(c) PROVE IInv'
  BY <1>1, <1>8, MessageInvalidateInv
<1>9. ASSUME NEW c \in Block, MessageFinalize(c) PROVE IInv'
  BY <1>1, <1>9, MessageFinalizeInv
<1>10. CASE Disconnect
  <2>1. UNCHANGED <<docs, saved, checkpoint, tx, prevFinality, pos, head, floor>>
        /\ conn' = "stopped" /\ tx = NoTx
    BY <1>10 DEF Disconnect, Stop, stream
  <2>2. StreamInv' /\ Settled(saved, head)'
    BY <2>1 DEF IInv, StreamInv, RequestedCursor, Settled
  <2> QED BY <1>1, <2>1, <2>2 DEF IInv
<1>11. CASE UNCHANGED vars
  <2>1. UNCHANGED <<docs, saved, checkpoint, tx, prevFinality, conn, pos, head, floor>>
    BY <1>11 DEF vars
  <2>2. StreamInv' /\ Settled(saved, head)'
    BY <2>1 DEF IInv, StreamInv, RequestedCursor, Settled
  <2>3. tx # NoTx => HandlerInv(tx.endCursor)'
    BY <2>1 DEF IInv, HandlerInv, Settled
  <2> QED BY <1>1, <2>1, <2>2, <2>3 DEF IInv
<1> QED BY <1>2, <1>3, <1>4, <1>5, <1>6, <1>7, <1>8, <1>9, <1>10, <1>11 DEF Next

\* The inductive invariant, on which the theorems below rest.
THEOREM Invariance == Clean /\ Spec => []IInv
<1> SUFFICES ASSUME Clean PROVE Spec => []IInv
  OBVIOUS
<1>1. IInv /\ [Next]_vars => IInv'
  BY NextInv
<1> QED BY InitInv, <1>1, PTL DEF Spec

(* The documents of a pending block are in the database only while the       *)
(* plugin remembers to undo them: what is after the position began at the    *)
(* last block sent, which then was pending.                                  *)
THEOREM PendingIsRemembered == Clean /\ Spec => []PendingRemembered
<1> SUFFICES ASSUME Clean PROVE Spec => []PendingRemembered
  OBVIOUS
<1>1. IInv => PendingRemembered
  <2> SUFFICES ASSUME IInv, conn = "running", NEW d \in saved, d.from > pos
               PROVE  prevFinality = "pending"
    BY DEF PendingRemembered
  <2>1. d.from \in Block /\ d.from \in Int /\ pos \in Int
    BY DocumentType, Numbers DEF IInv, TypeOK
  <2>2. d.from = head
    BY <2>1 DEF IInv, Settled, Untouched
  <2> QED BY <2>1, <2>2 DEF IInv, StreamInv
<1> QED BY <1>1, Invariance, PTL

-----------------------------------------------------------------------------
(* Every step is one of the store's, or changes nothing there.             *)

Histories == [i \in Self |-> History(saved, floor)]

LEMMA HistoriesStep ==
  ASSUME NEW history, History(saved', floor') = history
  PROVE  Histories' = [Histories EXCEPT !["indexer"] = history]
BY DEF Histories, Self

\* The store only depends on these.
LEMMA StoreSame ==
  ASSUME UNCHANGED <<docs, saved, tx, pos, floor>>
  PROVE  UNCHANGED <<Histories, StoreTx, StoreDraft, pos, floor>>
BY DEF Histories, StoreTx, StoreDraft

LEMMA StoreStutters ==
  ASSUME UNCHANGED <<docs, saved, tx, pos, floor>>, Active' = Active
  PROVE  UNCHANGED Store!vars
BY StoreSame DEF Store!vars, Histories

\* The indexer stops.
LEMMA StopStore ==
  ASSUME UNCHANGED <<docs, saved, tx, pos, floor>>, conn' = "stopped"
  PROVE  Store!Next
<1>1. Active' \subseteq Active
  BY DEF Active
<1>2. Store!Stop
  BY <1>1, StoreSame DEF Store!Stop, Histories
<1> QED BY <1>2 DEF Store!Next

LEMMA StoreTxType ==
  ASSUME TypeOK
  PROVE  StoreTx = NoTx <=> tx = NoTx
<1>1. CASE tx # NoTx
  <2>1. StoreTx \in [indexer : {"indexer"}, block : Block, pending : BOOLEAN]
    BY <1>1, TxType DEF StoreTx
  <2> QED BY <1>1, <2>1, MongoAssumption
<1> QED BY <1>1 DEF StoreTx

LEMMA InitStore == Init => Store!Init
<1> SUFFICES ASSUME Init PROVE Store!Init
  OBVIOUS
<1>1. Histories = [i \in Self |-> [n \in Store!Point |-> Store!Nothing]]
  BY NoDocuments, StoreNames DEF Init, Histories
<1>2. StoreTx = NoTx /\ StoreDraft = Store!Nothing
  BY StoreNames DEF Init, StoreTx, StoreDraft
<1>3. [i \in Self |-> pos] \in [Self -> Store!Point]
      /\ [i \in Self |-> floor] = [i \in Self |-> -1]
  BY Numbers, StoreNames DEF Init, Undefined
<1>4. Active = {}
  BY DEF Init, Active
<1> QED BY <1>1, <1>2, <1>3, <1>4 DEF Store!Init, Histories

LEMMA InitializeStore ==
  ASSUME IInv, Initialize
  PROVE  Store!Next
<1>1. tx = NoTx /\ tx' = NoTx /\ docs' = saved' /\ docs = saved /\ floor' = floor
  BY DEF Initialize, Transact, IInv
<1>0. "indexer" \notin Active /\ Active' = Active \union {"indexer"}
  BY DEF Initialize, Active, Self
<1>2. CASE docs' = {} /\ pos' = StartingCursor
  <2>1. Histories' = [Histories EXCEPT !["indexer"] = [n \in Store!Point |-> Store!Nothing]]
    BY <1>1, <1>2, NoDocuments, StoreNames, HistoriesStep
  <2>2. StoreTx = NoTx /\ StoreTx' = NoTx /\ StoreDraft' = StoreDraft
    BY <1>1 DEF StoreTx, StoreDraft
  <2>3. Store!Reset("indexer", StartingCursor)
    BY <1>0, <1>1, <1>2, <2>1, <2>2 DEF Store!Reset, Histories, Self
  <2> QED BY <2>3, Numbers, StoreNames DEF Store!Next, Self
<1>3. CASE docs' = docs /\ pos' = pos
  <2>1. Store!Start("indexer")
    BY <1>0, <1>1, <1>3, StoreSame DEF Store!Start, Histories
  <2> QED BY <2>1 DEF Store!Next, Self
<1> QED BY <1>2, <1>3 DEF Initialize, Transact

\* connect:after and message:invalidate.
LEMMA InvalidateStore ==
  ASSUME IInv, NEW c \in Point, tx = NoTx, tx' = NoTx,
         docs' = saved', saved' = Invalidate(saved, c), floor' = floor,
         pos' = Smaller(pos, c), c >= floor \/ c >= pos,
         conn # "stopped", conn' # "stopped"
  PROVE  Store!Next
<1>1. TypeOK /\ saved \subseteq Document /\ StreamInv /\ Settled(saved, head)
      /\ pos \in Point /\ floor \in Point /\ head \in Point
  BY DEF IInv, TypeOK
<1>2. ASSUME NEW e \in Block, c < e, e <= floor
      PROVE  Untouched(saved, e)
  <2>1. pos < e /\ e # head
    BY <1>1, <1>2, Numbers DEF StreamInv
  <2> QED BY <1>1, <2>1 DEF Settled
<1>3. History(saved', floor') = Store!Truncated(History(saved, floor), c)
  BY <1>1, <1>2, HistoryInvalidate
<1>4. Histories' = [Histories EXCEPT !["indexer"] = Store!Truncated(Histories["indexer"], c)]
  BY <1>3, HistoriesStep DEF Histories, Self
<1>5. StoreTx = NoTx /\ StoreTx' = NoTx /\ StoreDraft' = StoreDraft
  BY DEF StoreTx, StoreDraft
<1>6. Store!Invalidate("indexer", c)
  BY <1>4, <1>5, StoreNames DEF Store!Invalidate, Histories, Active, Self
<1> QED BY <1>6, StoreNames DEF Store!Next, Self

LEMMA ConnectStore ==
  ASSUME IInv, Connect
  PROVE  [Store!Next]_(Store!vars)
<1> DEFINE c == RequestedCursor
<1>1. /\ tx = NoTx /\ tx' = NoTx /\ docs' = saved' /\ docs = saved
      /\ floor' = floor /\ pos' = pos /\ conn # "stopped" /\ conn' # "stopped"
      /\ saved' = IF c = Undefined THEN saved ELSE Invalidate(saved, c)
  BY DEF Connect, Transact, IInv
<1>2. c \in Point /\ pos <= c /\ pos \in Point
  BY Numbers DEF RequestedCursor, IInv, StreamInv, TypeOK
<1>3. CASE c = Undefined
  BY <1>1, <1>3, StoreStutters DEF Active
<1>4. CASE c # Undefined
  <2>1. Smaller(pos, c) = pos /\ c >= pos
    BY <1>2, Numbers DEF Smaller
  <2> HIDE DEF c
  <2> QED BY <1>1, <1>2, <1>4, <2>1, InvalidateStore
<1> QED BY <1>3, <1>4

LEMMA MessageInvalidateStore ==
  ASSUME IInv, NEW c \in Block, MessageInvalidate(c)
  PROVE  Store!Next
<1>1. /\ tx = NoTx /\ tx' = NoTx /\ docs' = saved' /\ docs = saved
      /\ floor' = floor /\ pos' = c /\ c <= pos /\ conn # "stopped" /\ conn' # "stopped"
      /\ saved' = Invalidate(saved, c) /\ (c >= floor \/ c = pos)
  BY DEF MessageInvalidate, Connected, Transact, IInv
<1>2. c \in Point /\ pos \in Point
  BY Numbers DEF IInv, TypeOK
<1>3. Smaller(pos, c) = c /\ (c = pos => c >= pos)
  BY <1>1, <1>2, Numbers DEF Smaller
<1> QED BY <1>1, <1>2, <1>3, InvalidateStore

LEMMA MessageFinalizeStore ==
  ASSUME IInv, NEW c \in Block, MessageFinalize(c)
  PROVE  Store!Next
<1>1. /\ tx = NoTx /\ tx' = NoTx /\ docs' = saved' /\ docs = saved
      /\ saved \subseteq Document /\ StreamInv /\ Settled(saved, head)
      /\ floor' = Larger(floor, c) /\ pos' = pos
      /\ saved' = Finalize(saved, c) /\ (head # pos => c < head)
      /\ pos \in Point /\ floor \in Point /\ head \in Point /\ c \in Point
  BY Numbers DEF MessageFinalize, Transact, IInv, TypeOK
<1>2. History(saved', floor') = Store!Forgotten(History(saved, floor), c)
  BY <1>1, HistoryFinalize
<1>3. Histories' = [Histories EXCEPT !["indexer"] = Store!Forgotten(Histories["indexer"], c)]
  BY <1>2, HistoriesStep DEF Histories, Self
<1>4. StoreTx = NoTx /\ StoreTx' = NoTx /\ StoreDraft' = StoreDraft
  BY <1>1 DEF StoreTx, StoreDraft
<1>5. ASSUME NEW k \in Key
      PROVE  ValuesAt(saved, k, Larger(Larger(c, pos), floor))
               = ValuesAt(saved, k, Larger(pos, floor))
  <2> DEFINE m == Larger(pos, floor)
             n == Larger(Larger(c, pos), floor)
  <2>1. m \in Point /\ n \in Point /\ m <= n
    BY <1>1, Numbers DEF Larger
  <2>2. ASSUME NEW e \in Block, m < e, e <= n
        PROVE  Untouched(saved, e)
    <3>1. pos < e /\ e # head
      BY <1>1, <2>2, Numbers DEF Larger, StreamInv
    <3> QED BY <1>1, <3>1 DEF Settled
  <2> HIDE DEF m, n
  <2>3. ValuesAt(saved, k, m) = ValuesAt(saved, k, n)
    BY <1>1, <2>1, <2>2, NothingBetween
  <2> QED BY <2>3 DEF m, n
<1>6. Histories["indexer"][Larger(c, pos)] = Histories["indexer"][pos]
  <2>1. Larger(c, pos) \in Point
    BY <1>1 DEF Larger
  <2> QED BY <1>1, <1>5, <2>1 DEF Histories, History, Self
<1>8. Active' = Active
  BY DEF MessageFinalize, Active
<1>7. Store!Finalize("indexer", c)
  BY <1>8, <1>1, <1>3, <1>4, <1>6, StoreNames DEF Store!Finalize, Histories, Self
<1> QED BY <1>1, <1>7, StoreNames DEF Store!Next, Self

LEMMA BeginBlockStore ==
  ASSUME IInv, IInv', NEW b \in Block, NEW finality \in Finalities,
         BeginBlock(b, finality)
  PROVE  [Store!Next]_(Store!vars)
<1> DEFINE pending == finality = "pending"
<1>1. /\ tx = NoTx /\ docs = saved /\ StreamInv /\ Settled(saved, head)
      /\ pos < b /\ conn = "running"
      /\ UNCHANGED <<saved, pos, floor>> /\ saved \subseteq Document
      /\ pos \in Point /\ head \in Point /\ floor \in Point
  BY DEF BeginBlock, Sends, IInv, TypeOK, stream
<1>2. CASE prevFinality = "pending" /\ pos = Undefined
  <2>1. UNCHANGED <<docs, tx>> /\ conn' = "stopped"
    BY <1>2 DEF BeginBlock
  <2> QED BY <1>1, <2>1, StopStore
<1>3. CASE ~(prevFinality = "pending" /\ pos = Undefined)
  <2>1. /\ tx' = [cursor |-> pos, endCursor |-> b, finality |-> finality]
        /\ docs' = IF prevFinality = "pending" THEN Invalidate(saved, pos) ELSE saved
        /\ conn' = conn
    BY <1>1, <1>3 DEF BeginBlock
  <2>2. tx' # NoTx /\ tx'.endCursor = b /\ tx'.finality = finality
    BY <1>1, <2>1, Numbers, BegunType
  <2>3. StoreTx = NoTx /\ StoreTx' = [indexer |-> "indexer", block |-> b, pending |-> pending]
    BY <1>1, <2>2 DEF StoreTx
  <2>4. ASSUME NEW k \in Key
        PROVE  CurrentValues(docs', k) = ValuesAt(saved, k, Larger(pos, floor))
    <3> DEFINE m == Larger(pos, floor)
    <3>1. m \in Point /\ m >= pos /\ m >= floor
      BY <1>1, Numbers DEF Larger
    <3>2. ASSUME NEW e \in Block, pos < e, e <= m
          PROVE  Untouched(saved, e)
      <4>1. e # head
        BY <1>1, <3>2, Numbers DEF Larger, StreamInv
      <4> QED BY <1>1, <3>2, <4>1 DEF Settled
    <3> HIDE DEF m
    <3>3. ValuesAt(saved, k, pos) = ValuesAt(saved, k, m)
      BY <1>1, <3>1, <3>2, NothingBetween
    <3>4. CASE prevFinality = "pending"
      <4>1. docs' = Invalidate(saved, pos)
        BY <2>1, <3>4
      <4>2. \A e \in Block : pos < e => Untouched(docs', e)
        BY <1>1, <4>1, UntouchedInvalidate
      <4>3. docs' \subseteq Document
        BY DEF IInv, TypeOK
      <4>4. CurrentValues(docs', k) = ValuesAt(docs', k, pos)
        BY <1>1, <4>2, <4>3, CurrentIsLast
      <4>5. ValuesAt(docs', k, pos) = ValuesAt(saved, k, Smaller(pos, pos))
        BY <1>1, <4>1, InvalidateValues
      <4> QED BY <3>3, <4>4, <4>5 DEF Smaller, m
    <3>5. CASE prevFinality # "pending"
      <4>1. docs' = saved /\ head = pos
        BY <1>1, <2>1, <3>5 DEF StreamInv
      <4>2. \A e \in Block : pos < e => Untouched(saved, e)
        BY <1>1, <4>1, Numbers DEF Settled
      <4>3. CurrentValues(saved, k) = ValuesAt(saved, k, pos)
        BY <1>1, <4>2, CurrentIsLast
      <4> QED BY <3>3, <4>1, <4>3 DEF m
    <3> QED BY <3>4, <3>5
  <2>5. StoreDraft' = Histories["indexer"][pos]
    <3>1. StoreDraft' = [k \in Key |-> FindOne(docs', k)]
      BY <2>2 DEF StoreDraft
    <3>2. \A k \in Key : FindOne(docs', k) = FirstOf(ValuesAt(saved, k, Larger(pos, floor)))
      BY <2>4, FindOneIsFirst
    <3> QED BY <1>1, <3>1, <3>2 DEF Histories, History, Self
  <2>6. Store!Begin("indexer", b, pending)
    BY <1>1, <2>1, <2>3, <2>5 DEF Store!Begin, Histories, Active, Self
  <2> QED BY <2>6, StoreNames DEF Store!Next, Self
<1> QED BY <1>2, <1>3

\* A statement that leaves v in the documents of ks.
LEMMA StatementStore ==
  ASSUME IInv, NEW es, Statement(es), NEW ks \in SUBSET Key, NEW v \in Value \union {Absent},
         \A k \in Key : FindOne(es, k) = IF k \in ks THEN v ELSE FindOne(docs, k)
  PROVE  Store!Next
<1>1. tx # NoTx /\ docs' = es /\ UNCHANGED <<saved, tx, pos, floor, conn>> /\ TypeOK
  BY DEF IInv, Statement, stream
<1>2. StoreDraft' = [k \in Key |-> IF k \in ks THEN v ELSE StoreDraft[k]]
  BY <1>1 DEF StoreDraft
<1>3. StoreTx # NoTx /\ StoreTx' = StoreTx
  BY <1>1, StoreTxType DEF StoreTx
<1>4. Store!WriteAll(ks, v)
  BY <1>1, <1>2, <1>3 DEF Store!WriteAll, Active
<1> QED BY <1>4 DEF Store!Next

LEMMA HandlerWritesStore ==
  ASSUME IInv, NEW ks \in SUBSET Key,
         (\E v \in Value : InsertMany(ks, v) \/ UpdateMany(ks, v)) \/ DeleteMany(ks)
  PROVE  Store!Next
<1>1. tx.endCursor \in Block /\ docs \subseteq Document
  BY TxType DEF InsertMany, UpdateMany, DeleteMany, Statement, IInv, TypeOK
<1>2. ASSUME NEW v \in Value, InsertMany(ks, v) PROVE Store!Next
  <2> DEFINE es == docs \union {Insertion(k, v, tx.endCursor) : k \in ks}
  <2>1. \A k \in Key : FindOne(es, k) = IF k \in ks THEN v ELSE FindOne(docs, k)
    BY <1>1, <1>2, InsertFound DEF InsertMany
  <2>2. Statement(es)
    BY <1>2 DEF InsertMany
  <2> HIDE DEF es
  <2> QED BY <2>1, <2>2, StatementStore
<1>3. ASSUME NEW v \in Value, UpdateMany(ks, v) PROVE Store!Next
  <2> DEFINE es == Updated(docs, ks, v, tx.endCursor)
             found == {k \in ks : FindOne(docs, k) # Absent}
  <2>1. \A k \in Key : FindOne(es, k) = IF k \in found THEN v ELSE FindOne(docs, k)
    BY <1>1, UpdateFound
  <2>2. Statement(es) /\ found \in SUBSET Key
    BY <1>3 DEF UpdateMany
  <2> HIDE DEF es, found
  <2> QED BY <2>1, <2>2, StatementStore
<1>4. ASSUME DeleteMany(ks) PROVE Store!Next
  <2> DEFINE es == Deleted(docs, ks, tx.endCursor)
  <2>1. \A k \in Key : FindOne(es, k) = IF k \in ks THEN Absent ELSE FindOne(docs, k)
    BY <1>1, DeleteFound
  <2>2. Statement(es)
    BY <1>4 DEF DeleteMany
  <2> HIDE DEF es
  <2> QED BY <2>1, <2>2, StatementStore
<1> QED BY <1>2, <1>3, <1>4

LEMMA AbortStore ==
  ASSUME IInv, Crash \/ HandlerFails \/ CommitFails
  PROVE  Store!Next
<1>1. /\ docs' = saved /\ tx' = NoTx /\ UNCHANGED <<saved, pos, floor>> /\ TypeOK
      /\ conn' = "stopped"
  BY DEF Crash, HandlerFails, CommitFails, Abort, AfterFailedCommit, Stop, IInv, stream
<1>2. CASE tx = NoTx
  <2>1. docs' = docs
    BY <1>1, <1>2 DEF IInv
  <2> QED BY <1>1, <1>2, <2>1, StopStore
<1>3. CASE tx # NoTx
  <2>1. StoreTx # NoTx /\ StoreTx' = NoTx /\ StoreDraft' = Store!Nothing
    BY <1>1, <1>3, StoreTxType, StoreNames DEF StoreTx, StoreDraft
  <2>2. Active' \subseteq Active
    BY <1>1 DEF Active
  <2>3. Store!Rollback
    BY <1>1, <2>1, <2>2 DEF Store!Rollback
  <2> QED BY <2>3 DEF Store!Next
<1> QED BY <1>2, <1>3

LEMMA CommitStore ==
  ASSUME IInv, Commit, Continue \/ Stop
  PROVE  Store!Next
<1> DEFINE pending == tx.finality = "pending"
<1>0. PICK b \in Block : b = tx.endCursor
  BY TxType DEF IInv, Commit
<1>1. /\ TypeOK /\ tx # NoTx /\ docs \subseteq Document /\ HandlerInv(b)
      /\ tx' = NoTx /\ saved' = docs /\ floor' = floor
      /\ pos' = (IF pending THEN pos ELSE b)
      /\ pos \in Point /\ floor \in Point
  BY <1>0 DEF IInv, Commit, TypeOK
<1>2. /\ StoreTx = [indexer |-> "indexer", block |-> b, pending |-> pending]
      /\ StoreTx' = NoTx /\ StoreDraft' = Store!Nothing
      /\ StoreDraft = [k \in Key |-> FindOne(docs, k)]
  BY <1>0, <1>1, StoreNames DEF StoreTx, StoreDraft
<1>3. ASSUME NEW n \in Point, NEW k \in Key
      PROVE  FirstOf(ValuesAt(docs, k, Larger(n, floor)))
               = IF Larger(n, floor) < b
                 THEN FirstOf(ValuesAt(saved, k,
                        Larger(Smaller(Larger(n, floor), pos), floor)))
                 ELSE FindOne(docs, k)
  <2> DEFINE m == Larger(n, floor)
  <2>1. m \in Point /\ floor <= m
    BY <1>1, Numbers DEF Larger
  <2> HIDE DEF m
  <2>2. CASE m < b
    <3>1. ValuesAt(docs, k, m) = ValuesAt(saved, k, Larger(Smaller(m, pos), floor))
      BY <1>1, <2>1, <2>2 DEF HandlerInv
    <3> QED BY <2>2, <3>1 DEF m
  <2>3. CASE ~(m < b)
    <3>1. \A e \in Block : m < e => pos < e /\ e # b
      BY <1>1, <2>1, <2>3, Numbers DEF HandlerInv
    <3>2. \A e \in Block : m < e => Untouched(docs, e)
      BY <1>1, <3>1 DEF HandlerInv, Settled
    <3>3. CurrentValues(docs, k) = ValuesAt(docs, k, m)
      BY <1>1, <2>1, <3>2, CurrentIsLast
    <3> QED BY <2>3, <3>3, FindOneIsFirst DEF m
  <2> QED BY <2>2, <2>3
<1> DEFINE extended == Store!Extended(History(saved, floor), pos, b, StoreDraft)
<1>4. ASSUME NEW n \in Point
      PROVE  History(docs, floor)[n] = extended[Larger(n, floor)]
  <2>1. Larger(n, floor) \in Point /\ Smaller(Larger(n, floor), pos) \in Point
    BY <1>1 DEF Larger, Smaller
  <2>2. extended[Larger(n, floor)]
          = IF Larger(n, floor) < b
            THEN History(saved, floor)[Smaller(Larger(n, floor), pos)]
            ELSE StoreDraft
    BY <2>1, StoreNames DEF Store!Extended
  <2>3. History(docs, floor)[n]
          = [k \in Key |-> FirstOf(ValuesAt(docs, k, Larger(n, floor)))]
    BY DEF History
  <2>4. History(saved, floor)[Smaller(Larger(n, floor), pos)]
          = [k \in Key |-> FirstOf(ValuesAt(saved, k,
              Larger(Smaller(Larger(n, floor), pos), floor)))]
    BY <2>1 DEF History
  <2>5. CASE Larger(n, floor) < b
    BY <1>3, <2>2, <2>3, <2>4, <2>5
  <2>6. CASE ~(Larger(n, floor) < b)
    BY <1>2, <1>3, <2>2, <2>3, <2>6
  <2> QED BY <2>5, <2>6
<1>5. History(saved', floor') = Store!Forgotten(extended, floor)
  <2>1. Store!Forgotten(extended, floor) = [n \in Point |-> extended[Larger(n, floor)]]
    BY StoreNames DEF Store!Forgotten
  <2>2. History(docs, floor) = [n \in Point |-> History(docs, floor)[n]]
    BY DEF History
  <2>3. History(saved', floor') = History(docs, floor)
    BY <1>1
  <2> HIDE DEF extended
  <2> QED BY <1>4, <2>1, <2>2, <2>3
<1>6. Histories' = [Histories EXCEPT !["indexer"] = Store!Forgotten(extended, floor)]
  BY <1>5, HistoriesStep
<1>7. StoreTx # NoTx
  BY <1>1, StoreTxType
<1>8. Histories["indexer"] = History(saved, floor)
  BY DEF Histories, Self
<1>9. Active' \in {Active, Active \ {"indexer"}}
  BY DEF Continue, Stop, Active, Self
<1>10. Store!Commit
  BY <1>1, <1>2, <1>6, <1>7, <1>8, <1>9 DEF Store!Commit, Histories, Self
<1> QED BY <1>10 DEF Store!Next

LEMMA NextStore == IInv /\ IInv' /\ [Next]_vars => [Store!Next]_(Store!vars)
<1> SUFFICES ASSUME IInv, IInv', [Next]_vars PROVE [Store!Next]_(Store!vars)
  OBVIOUS
<1>1. CASE Initialize
  BY <1>1, InitializeStore
<1>2. CASE Connect
  BY <1>2, ConnectStore
<1>3. ASSUME NEW b \in Block, NEW finality \in Finalities, BeginBlock(b, finality)
      PROVE  [Store!Next]_(Store!vars)
  BY <1>3, BeginBlockStore
<1>4. ASSUME NEW ks \in SUBSET Key,
             (\E v \in Value : InsertMany(ks, v) \/ UpdateMany(ks, v)) \/ DeleteMany(ks)
      PROVE  [Store!Next]_(Store!vars)
  BY <1>4, HandlerWritesStore
<1>5. CASE (Commit /\ Continue) \/ CommitUnanswered
  BY <1>5, CommitStore DEF CommitUnanswered
<1>6. CASE Crash \/ HandlerFails \/ CommitFails
  BY <1>6, AbortStore
<1>7. ASSUME NEW c \in Block, MessageInvalidate(c) PROVE [Store!Next]_(Store!vars)
  BY <1>7, MessageInvalidateStore
<1>8. ASSUME NEW c \in Block, MessageFinalize(c) PROVE [Store!Next]_(Store!vars)
  BY <1>8, MessageFinalizeStore
<1>9. CASE Disconnect
  BY <1>9, StopStore DEF Disconnect, Stop, stream
<1>10. CASE UNCHANGED vars
  BY <1>10, StoreStutters DEF vars, Active
<1> QED BY <1>1, <1>2, <1>3, <1>4, <1>5, <1>6, <1>7, <1>8, <1>9, <1>10 DEF Next

(* The plugin implements the store: however blocks, reorganizations,        *)
(* finalizations, failing handlers, failing commits and restarts follow     *)
(* each other, a handler finds the content after the block before its own,  *)
(* and a block's writes take effect when its transaction commits.           *)
THEOREM ImplementsStore == Clean /\ Spec => StoreSpec
<1> SUFFICES ASSUME Clean PROVE Spec => StoreSpec
  OBVIOUS
<1>1. Spec => []IInv
  BY Invariance
<1> QED BY <1>1, InitStore, NextStore, PTL DEF Spec, StoreSpec, Store!Spec
=============================================================================
