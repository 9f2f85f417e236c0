--------------------------- MODULE StreamChainProofs ---------------------------
(***************************************************************************)
(* Theorems about what the stream makes of the chain, for every block tree *)
(* and every value of the other constants: while the chain only grows it   *)
(* throws only where finality passed its head; its head is in its canonical map; and what the        *)
(* consumer holds is one chain, complete up to the cursor and, when the    *)
(* stream waits at the head of the node, equal to the chain of the node.   *)
(*                                                                         *)
(* Two invariants are added to IInv of RpcDataStreamProofs: GrowthInv, for *)
(* a chain without reorganizations, and ChainInv, for iterations that see  *)
(* one chain each.                                                         *)
(***************************************************************************)
EXTENDS RpcDataStreamProofs

-----------------------------------------------------------------------------
\* The methods of the tracker, on a chain.

\* updateFinalized: a finalized block on the chain of the head is accepted, and
\* the head stays in the canonical map.
LEMMA FinalizedOnChain ==
  ASSUME NEW t, GoodTracker(t), t.head \in t.canonical, NEW f \in Block,
         OnChain(t.finalized, f), OnChain(f, t.head),
         NEW u, u = UpdateFinalized(t, f)
  PROVE  /\ ~FinalizedBackwards(t, f) /\ ~FinalizedDiffers(t, f)
         /\ u.head = t.head /\ u.finalized = f
         /\ u.head \in u.canonical /\ u.canonical \subseteq t.canonical \union {f}
<1>1. /\ t \in Tracker /\ t.head \in Block /\ t.finalized \in Block
      /\ Number[t.finalized] <= Number[f] /\ Number[f] <= Number[t.head]
  BY DEF GoodTracker, Tracker, OnChain
<1>2. ~FinalizedBackwards(t, f)
  BY <1>1, NumberNat DEF FinalizedBackwards
<1>3. ~FinalizedDiffers(t, f)
  BY <1>1, BlockTreeAssumption DEF FinalizedDiffers, OnChain, BlockTreeAssumption
<1>4. u.head = t.head /\ u.finalized = f
  BY <1>2, UpdateFinalizedGood
<1>5. CASE f = t.finalized
  <2>1. u = t
    BY <1>5 DEF UpdateFinalized
  <2> QED
    BY <1>2, <1>3, <1>4, <2>1
<1>6. CASE f # t.finalized
  <2> DEFINE kept == {c \in t.canonical : \/ Number[c] < Number[t.finalized]
                                          \/ Number[c] >= Number[f]}
  <2>1. u = [t EXCEPT !.finalized = f, !.canonical = Put(kept, f)]
    BY <1>6 DEF UpdateFinalized
  <2>2. u.canonical = Put(kept, f)
    BY <2>1, <1>1 DEF Tracker
  <2>3. t.head \in kept
    BY <1>1, NumberNat
  <2>4. Number[f] = Number[t.head] => f = t.head
    BY <1>1, BlockTreeAssumption DEF OnChain, BlockTreeAssumption
  <2>5. u.head \in u.canonical
    BY <1>4, <2>2, <2>3, <2>4 DEF Put
  <2>6. u.canonical \subseteq t.canonical \union {f}
    BY <2>2 DEF Put
  <2> QED
    BY <1>2, <1>3, <1>4, <2>5, <2>6
<1> QED
  BY <1>5, <1>6

\* updateFinalized, where the finalized block can pass the head: the head is left
\* out of the canonical map only when it does.
LEMMA FinalizedPastHead ==
  ASSUME NEW t, GoodTracker(t),
         t.head \in t.canonical \/ Number[t.head] < Number[t.finalized],
         NEW last \in Block, NEW f \in Block, OnChain(t.finalized, f),
         OnChain(f, last), OnChain(t.head, last), NEW u, u = UpdateFinalized(t, f)
  PROVE  /\ ~FinalizedBackwards(t, f) /\ ~FinalizedDiffers(t, f)
         /\ u.head = t.head /\ u.finalized = f
         /\ u.head \in u.canonical \/ Number[u.head] < Number[u.finalized]
         /\ u.canonical \subseteq t.canonical \union {f}
<1>1. /\ t \in Tracker /\ t.head \in Block /\ t.finalized \in Block
      /\ Number[t.finalized] <= Number[f] /\ Number[t.head] \in Nat
      /\ Number[f] \in Nat /\ Number[t.finalized] \in Nat
  BY NumberNat DEF GoodTracker, Tracker, OnChain
<1>2. ~FinalizedBackwards(t, f)
  BY <1>1 DEF FinalizedBackwards
<1>3. ~FinalizedDiffers(t, f)
  BY <1>1, BlockTreeAssumption DEF FinalizedDiffers, OnChain, BlockTreeAssumption
<1>4. u.head = t.head /\ u.finalized = f
  BY <1>2, UpdateFinalizedGood
<1>5. u.canonical \subseteq t.canonical \union {f}
  <2>1. CASE f = t.finalized
    BY <2>1 DEF UpdateFinalized
  <2>2. CASE f # t.finalized
    <3>1. u.canonical = Put({c \in t.canonical : \/ Number[c] < Number[t.finalized]
                                                 \/ Number[c] >= Number[f]}, f)
      BY <1>1, <2>2 DEF UpdateFinalized, Tracker
    <3> QED
      BY <3>1 DEF Put
  <2> QED
    BY <2>1, <2>2
<1>6. CASE Number[f] <= Number[t.head]
  <2>1. t.head \in t.canonical /\ OnChain(f, t.head)
    BY <1>1, <1>6, OnChainOrdered
  <2> QED
    BY <1>2, <1>3, <1>4, <1>5, <2>1, FinalizedOnChain
<1>7. CASE Number[t.head] < Number[f]
  BY <1>2, <1>3, <1>4, <1>5, <1>7
<1> QED
  BY <1>1, <1>6, <1>7

\* initializeStartingCursor: a block of the chain of the head leaves the head in
\* the canonical map.
LEMMA StartingCursorOnChain ==
  ASSUME NEW t, GoodTracker(t), t.head \in t.canonical, NEW b \in Block,
         OnChain(b, t.head), NEW u, u = WithStartingCursor(t, b)
  PROVE  /\ u.head = t.head /\ u.finalized = t.finalized
         /\ u.head \in u.canonical /\ u.canonical \subseteq t.canonical \union {b}
<1>1. u.head = t.head /\ u.finalized = t.finalized
  BY StartingCursorGood
<1>2. t \in Tracker /\ t.head \in Block
  BY DEF GoodTracker, Tracker
<1>3. Number[b] = Number[t.head] => b = t.head
  BY <1>2, BlockTreeAssumption DEF OnChain, BlockTreeAssumption
<1>4. u.canonical = t.canonical \/ u.canonical = Put(t.canonical, b)
  BY <1>2 DEF WithStartingCursor, Tracker
<1> QED
  BY <1>1, <1>3, <1>4 DEF Put

\* updateHead, for a head that extends the chain of the tracker: it is followed.
LEMMA LongerHeadFollowed ==
  ASSUME NEW t, GoodTracker(t), NEW h \in Block, OnChain(t.head, h),
         t.head \in t.canonical \/ Number[t.head] < Number[h],
         NEW a, a = UpdateHead(t, h)
  PROVE  \/ /\ a.status \in {"unchanged", "success"}
            /\ a.tracker.head = h /\ a.tracker.finalized = t.finalized
            /\ h \in a.tracker.canonical
            /\ a.tracker.canonical \subseteq t.canonical \union {h}
         \/ a.status = "join" /\ Number[t.head] < Number[h]
<1>1. t \in Tracker /\ Number[t.head] \in Nat /\ Number[h] \in Nat
  BY NumberNat DEF GoodTracker, Tracker
<1>2. CASE h = t.head
  <2>1. a = Answer("unchanged", "none", t)
    BY <1>2, <1>1 DEF UpdateHead, IsNextBlock
  <2> QED
    BY <2>1, <1>1, <1>2 DEF Answer
<1>3. CASE h # t.head /\ IsNextBlock(t, h)
  <2>1. a = Answer("success", "none",
                   [t EXCEPT !.head = h, !.canonical = Put(@, h)])
    BY <1>1, <1>3 DEF UpdateHead, IsNextBlock
  <2>2. /\ a.status = "success" /\ a.tracker.head = h
        /\ a.tracker.finalized = t.finalized
        /\ a.tracker.canonical = Put(t.canonical, h)
    <3>1. /\ a.status = "success"
          /\ a.tracker = [t EXCEPT !.head = h, !.canonical = Put(@, h)]
      BY <2>1 DEF Answer
    <3> QED
      BY <3>1, <1>1 DEF Tracker
  <2> QED
    BY <2>2 DEF Put
<1>4. CASE h # t.head /\ ~IsNextBlock(t, h)
  <2>1. Number[t.head] < Number[h]
    BY <1>1, <1>4, BlockTreeAssumption DEF OnChain, BlockTreeAssumption
  <2>2. a = Answer("join", "none", t)
    BY <1>1, <1>4, <2>1 DEF UpdateHead
  <2> QED
    BY <2>1, <2>2 DEF Answer
<1> QED
  BY <1>2, <1>3, <1>4

\* updateHead, for a head that is not below the tracker's, of a chain that shares
\* the block f with the tracker's: the tracker follows the new head, asks for a
\* join, or goes back to a block of both chains at or above f.
LEMMA HeadOnChain ==
  ASSUME NEW t, GoodTracker(t), t.head \in t.canonical,
         \A c \in t.canonical : OnChain(c, t.head),
         NEW h \in Block, NEW f \in Block,
         OnChain(t.finalized, f), OnChain(f, t.head), OnChain(f, h),
         Number[t.head] <= Number[h], NEW a, a = UpdateHead(t, h)
  PROVE  \/ /\ a.status \in {"unchanged", "success"} /\ OnChain(t.head, h)
            /\ a.tracker.head = h /\ a.tracker.finalized = t.finalized
            /\ h \in a.tracker.canonical
            /\ \A c \in a.tracker.canonical : OnChain(c, h)
         \/ /\ a.status = "reorg"
            /\ Number[a.tracker.head] < Number[t.head]
            /\ a.tracker.finalized = t.finalized
            /\ a.tracker.head \in a.tracker.canonical
            /\ OnChain(a.tracker.head, t.head) /\ OnChain(a.tracker.head, h)
            /\ OnChain(f, a.tracker.head)
            /\ \A c \in a.tracker.canonical : OnChain(c, a.tracker.head)
         \/ a.status = "join" /\ Number[t.head] < Number[h]
         \/ a.status = "error"
<1> DEFINE canonical == UpToNewHead(t, h)
           n == WalkStop(t, h)
<1>1. /\ t \in Tracker /\ OnePerNumber(t.canonical) /\ t.canonical \subseteq Block
      /\ t.head \in Block /\ t.finalized \in Block
  BY DEF GoodTracker, Tracker
<1>2. /\ Number[t.head] \in Nat /\ Number[h] \in Nat /\ Number[f] \in Nat
      /\ Number[t.finalized] \in Nat
  BY <1>1, NumberNat
<1>3. CASE h = t.head
  <2>1. a = Answer("unchanged", "none", t)
    BY <1>3, <1>2 DEF UpdateHead, IsNextBlock
  <2>2. a.status = "unchanged" /\ a.tracker = t
    BY <2>1 DEF Answer
  <2> QED
    BY <1>3, <2>2
<1>4. CASE h # t.head /\ IsNextBlock(t, h)
  <2>1. a = Answer("success", "none",
                   [t EXCEPT !.head = h, !.canonical = Put(@, h)])
    BY <1>2, <1>4 DEF UpdateHead, IsNextBlock
  <2>2. /\ a.status = "success" /\ a.tracker.head = h
        /\ a.tracker.finalized = t.finalized
        /\ a.tracker.canonical = Put(t.canonical, h)
    <3>1. /\ a.status = "success"
          /\ a.tracker = [t EXCEPT !.head = h, !.canonical = Put(@, h)]
      BY <2>1 DEF Answer
    <3> QED
      BY <3>1, <1>1 DEF Tracker
  <2>3. OnChain(t.head, h)
    BY <1>1, <1>4, ParentOnChain DEF IsNextBlock
  <2>4. ASSUME NEW c \in Put(t.canonical, h)
        PROVE  OnChain(c, h)
    <3>1. CASE c = h
      BY <3>1, OnChainSelf
    <3>2. CASE c \in t.canonical
      BY <3>2, <1>1, <2>3, OnChainTransitive
    <3> QED
      BY <3>1, <3>2 DEF Put
  <2>5. h \in Put(t.canonical, h)
    BY DEF Put
  <2> QED
    BY <2>2, <2>3, <2>4, <2>5
<1>5. CASE h # t.head /\ ~IsNextBlock(t, h) /\ Number[h] > Number[t.head]
  <2>1. a = Answer("join", "none", t)
    BY <1>5, <1>2 DEF UpdateHead
  <2> QED
    BY <1>5, <1>2, <2>1 DEF Answer
<1>6. CASE h # t.head /\ ~IsNextBlock(t, h) /\ Number[h] = Number[t.head]
  <2>1. a = Reconcile(t, h)
    BY <1>2, <1>6 DEF UpdateHead
  <2>2. canonical \subseteq t.canonical
    BY DEF UpToNewHead
  <2>3. ASSUME NEW b \in Block, OnChain(b, t.head), Number[b] = Number[h]
        PROVE  b # h
    BY <1>1, <1>6, <2>3, BlockTreeAssumption DEF OnChain, BlockTreeAssumption
  <2>4. h \notin canonical
    BY <1>1, <2>2, <2>3
  <2>5. CASE \/ WalkStops(t, h) = {}
             \/ WalkStops(t, h) # {} /\ ~Known(canonical, n - 1)
    <3>1. \/ a = Answer("error", "reconcile", t)
          \/ a = Answer("error", "missingParent", t)
      BY <2>1, <2>4, <2>5 DEF Reconcile
    <3> QED
      BY <3>1 DEF Answer
  <2>6. CASE WalkStops(t, h) # {} /\ Known(canonical, n - 1)
    <3> DEFINE left == {c \in canonical : Number[c] < n \/ Number[c] > Number[h]}
               b == At[h][n - 1]
    <3>1. a = ReorgTo(t, b, left)
      BY <2>1, <2>4, <2>6 DEF Reconcile
    <3>2. /\ a.status = "reorg" /\ a.tracker.head = b
          /\ a.tracker.finalized = t.finalized /\ a.tracker.canonical = left
      <4>1. /\ a.status = "reorg"
            /\ a.tracker = [t EXCEPT !.head = b, !.canonical = left]
        BY <3>1 DEF ReorgTo
      <4> QED
        BY <4>1, <1>1 DEF Tracker
    <3>3. n \in WalkStops(t, h)
      BY <2>6, <1>1, WalkStopIsStop
    <3>4. /\ n \in Number[t.finalized] + 1 .. Number[h]
          /\ b \in canonical
      BY <2>6, <3>3 DEF WalkStops
    <3>5. n - 1 \in 0 .. Number[h] /\ Number[b] = n - 1 /\ b \in Block
          /\ OnChain(b, h)
      BY <3>4, <1>2, AncestorOnChain
    <3>6. OnChain(b, t.head)
      BY <3>4, <2>2
    <3>7. b \in left
      BY <3>4, <3>5
    <3>8. ASSUME NEW c \in left
          PROVE  OnChain(c, b)
      <4>1. c \in Block /\ OnChain(c, t.head) /\ Number[c] \in Nat
        BY <2>2, <1>1, NumberNat
      <4>2. Number[c] <= Number[h]
        BY <4>1, <1>6 DEF OnChain
      <4>3. Number[c] <= Number[b]
        BY <4>1, <4>2, <3>4, <3>5, <1>2
      <4> QED
        BY <4>1, <4>3, <3>5, <3>6, <1>1, OnChainOrdered
    <3>9. OnChain(f, b)
      <4>1. f # h
        BY <2>3
      <4>2. Number[f] < Number[h] /\ Number[t.finalized] <= Number[f]
        BY <4>1, <1>2, BlockTreeAssumption DEF OnChain, BlockTreeAssumption
      <4>3. Number[f] <= Number[b]
        <5> SUFFICES ASSUME Number[f] > Number[b] PROVE FALSE
          BY <1>2, <3>5
        <5> DEFINE m == Number[f] + 1
        <5>1. m \in Number[t.finalized] + 1 .. Number[h]
          BY <4>2, <1>2
        <5>2. Known(canonical, m - 1) => At[h][m - 1] \in canonical
          <6> SUFFICES ASSUME NEW c \in canonical, Number[c] = m - 1
                       PROVE  At[h][m - 1] \in canonical
            BY DEF Known
          <6>1. m - 1 = Number[f]
            BY <1>2
          <6>2. c \in Block /\ OnChain(c, t.head) /\ c = f
            BY <6>1, <1>1, <2>2, OnChainUnique
          <6>3. At[h][m - 1] = f
            BY <6>1 DEF OnChain
          <6> QED
            BY <6>2, <6>3
        <5>3. m \in WalkStops(t, h)
          BY <5>1, <5>2 DEF WalkStops
        <5>4. WalkStops(t, h) \subseteq Number[t.finalized] + 1 .. Number[h]
          BY DEF WalkStops
        <5>5. \E k \in WalkStops(t, h) : \A l \in WalkStops(t, h) : l <= k
          <6>1. Number[t.finalized] + 1 \in Int /\ Number[h] \in Int
            BY <1>2
          <6>2. WalkStops(t, h) # {}
            BY <2>6
          <6> QED
            BY <5>4, <6>1, <6>2, MaxExists
        <5>6. m <= n
          BY <5>3, <5>5 DEF WalkStop
        <5> QED
          BY <5>6, <3>4, <3>5, <1>2
      <4> QED
        BY <4>3, <3>5, <1>1, OnChainOrdered
    <3>10. Number[b] < Number[t.head]
      BY <3>4, <3>5, <1>2, <1>6
    <3> QED
      BY <3>2, <3>5, <3>6, <3>7, <3>8, <3>9, <3>10
  <2> QED
    BY <2>5, <2>6
<1> QED
  BY <1>2, <1>3, <1>4, <1>5, <1>6

\* One batch of a join to a block of the chain of the node: it fails only where
\* the chain does not go on from the canonical map, and links blocks of the chain.
LEMMA JoinOnChain ==
  ASSUME NEW t, GoodTracker(t),
         NEW last \in Block, NEW target \in Block, OnChain(target, last),
         NEW from \in Nat, Number[t.head] < from, from <= Number[target],
         \/ t.head \in t.canonical /\ from = Number[t.head] + 1
         \/ OnChain(t.head, last),
         \A c \in t.canonical : OnChain(c, t.head) \/ OnChain(c, last),
         NEW a, a = JoinBatch(t, target, from, last)
  PROVE  \/ /\ a.status = "error" /\ a.reason = "reorgDetected"
            /\ At[last][from - 1] \notin t.canonical
         \/ /\ a.status = "success" /\ OnChain(t.head, last)
            /\ a.tracker.head = target /\ a.tracker.finalized = t.finalized
            /\ target \in a.tracker.canonical
            /\ \A c \in a.tracker.canonical : OnChain(c, last)
         \/ /\ a.status = "join" /\ OnChain(t.head, last)
            /\ a.tracker.head = t.head /\ a.tracker.finalized = t.finalized
            /\ t.head \in t.canonical => t.head \in a.tracker.canonical
            /\ \A c \in a.tracker.canonical : OnChain(c, last)
            /\ from <= JoinEnd(target, from) /\ JoinEnd(target, from) \in Nat
            /\ JoinEnd(target, from) + 1 <= Number[target]
            /\ At[last][JoinEnd(target, from)] \in a.tracker.canonical
<1> DEFINE upTo == JoinEnd(target, from)
           linked == {c \in t.canonical : Number[c] \notin from .. upTo}
                        \union {At[last][n] : n \in from .. upTo}
<1>1. /\ t \in Tracker /\ OnePerNumber(t.canonical) /\ t.canonical \subseteq Block
      /\ t.head \in Block /\ Number[t.head] \in Nat /\ Number[target] \in Nat
      /\ Number[last] \in Nat /\ Number[target] <= Number[last]
      /\ At[last][Number[target]] = target
  BY NumberNat DEF GoodTracker, Tracker, OnChain
<1>2. /\ upTo \in Nat /\ from <= upTo /\ upTo <= Number[target]
  BY <1>1, BatchSizeAssumption DEF JoinEnd
<1>3. CASE At[last][from - 1] \notin t.canonical
  <2>1. a = Answer("error", "reorgDetected", t)
    BY <1>1, <1>2, <1>3 DEF JoinBatch
  <2> QED
    BY <1>3, <2>1 DEF Answer
<1>4. CASE At[last][from - 1] \in t.canonical
  <2>1. OnChain(t.head, last)
    <3> SUFFICES ASSUME t.head \in t.canonical, from = Number[t.head] + 1
                 PROVE  OnChain(t.head, last)
      OBVIOUS
    <3>1. from - 1 \in 0 .. Number[last] /\ from - 1 = Number[t.head]
      BY <1>1
    <3>2. Number[At[last][from - 1]] = Number[t.head] /\ OnChain(At[last][from - 1], last)
      BY <3>1, AncestorOnChain
    <3>3. At[last][from - 1] = t.head
      BY <3>2, <1>4, <1>1 DEF OnePerNumber
    <3> QED
      BY <3>2, <3>3
  <2>2. ASSUME NEW c \in linked
        PROVE  OnChain(c, last)
    <3>1. CASE c \in t.canonical
      BY <3>1, <2>1, <1>1, OnChainTransitive
    <3>2. CASE \E n \in from .. upTo : c = At[last][n]
      <4>1. PICK n \in from .. upTo : c = At[last][n]
        BY <3>2
      <4>2. n \in 0 .. Number[last]
        BY <1>1, <1>2
      <4> QED
        BY <4>1, <4>2, AncestorOnChain
    <3> QED
      BY <3>1, <3>2
  <2>3. At[last][upTo] \in linked /\ (t.head \in t.canonical => t.head \in linked)
    BY <1>1, <1>2
  <2>4. CASE upTo = Number[target]
    <3>1. a = Answer("success", "none",
                     [t EXCEPT !.head = target, !.canonical = linked])
      BY <1>1, <1>4, <2>4 DEF JoinBatch
    <3>2. /\ a.status = "success"
          /\ a.tracker = [t EXCEPT !.head = target, !.canonical = linked]
      BY <3>1 DEF Answer
    <3>3. /\ a.tracker.head = target /\ a.tracker.finalized = t.finalized
          /\ a.tracker.canonical = linked
      BY <3>2, <1>1 DEF Tracker
    <3> QED
      BY <3>2, <3>3, <2>1, <2>2, <2>3, <2>4, <1>1
  <2>5. CASE upTo # Number[target]
    <3>1. a = Answer("join", "none", [t EXCEPT !.canonical = linked])
      BY <1>1, <1>2, <1>4, <2>5 DEF JoinBatch
    <3>2. /\ a.status = "join"
          /\ a.tracker = [t EXCEPT !.canonical = linked]
      BY <3>1 DEF Answer
    <3>3. /\ a.tracker.head = t.head /\ a.tracker.finalized = t.finalized
          /\ a.tracker.canonical = linked
      BY <3>2, <1>1 DEF Tracker
    <3> QED
      BY <3>2, <3>3, <2>1, <2>2, <2>3, <2>5, <1>1, <1>2
  <2> QED
    BY <2>4, <2>5
<1> QED
  BY <1>3, <1>4

-----------------------------------------------------------------------------
\* A chain that only grows: everything the stream remembers is on it.

\* The node answers with its last blocks, and the first cursor is not ahead of it.
Growing == ~Lagging /\ Start <= 0

\* The cursor the consumer would resume from is on the chain of a block.
ResumesOn(v, b) == v.resume # NoBlock => OnChain(v.resume, b)

\* The finalized block has passed the head the stream follows.
Passed == Number[tracker.head] < Number[tracker.finalized]

GrownTracker ==
  pc \notin Stopped =>
    /\ tracker.head \in tracker.canonical \/ Passed
    /\ OnChain(tracker.finalized, final) /\ OnChain(tracker.head, tip)
    /\ \A c \in tracker.canonical : OnChain(c, tip)

\* The head is above the cursor when live blocks are produced, and a join goes
\* on from the canonical map, unless finality passed the head.
GrownControl ==
  /\ pc = "initCursor" => ResumesOn(client, tracker.head)
  /\ pc = "live" => cursor < Number[tracker.head] \/ Passed
  /\ pc = "liveBlocks" =>
       cursor < Number[tracker.head] \/ tracker.head = tracker.finalized
  /\ pc = "join" =>
       /\ OnChain(joining.target, tip)
       /\ Number[tracker.head] < joining.from
       /\ joining.from <= Number[joining.target]
       /\ Number[tracker.finalized] <= Number[joining.target]
       /\ At[tip][joining.from - 1] \in tracker.canonical \/ Passed
       /\ joining.caller = "live" => cursor < Number[tracker.head] \/ Passed

Grown ==
  /\ failure # "none" => pc = "error" /\ Overtaken
  /\ OnChain(final, tip)
  /\ ResumesOn(view, tip) /\ ResumesOn(client, tip)
  /\ GrownTracker /\ GrownControl

GrowthInv == reorgs = 0 => Grown

\* The blocks the stream and the consumer remember are blocks.
LEMMA StreamBlocks ==
  ASSUME IInv
  PROVE  /\ tip \in Block /\ final \in Block /\ GoodTracker(tracker)
         /\ tracker.head \in Block /\ tracker.finalized \in Block
         /\ tracker.canonical \subseteq Block /\ joining.target \in Block
         /\ joining.from \in Nat /\ cursor \in Nat \union {-1}
         /\ lastEmpty \in Nat \union {-1}
         /\ Number[tip] \in Nat /\ Number[final] \in Nat
         /\ Number[tracker.head] \in Nat /\ Number[tracker.finalized] \in Nat
         /\ Number[joining.target] \in Nat
         /\ view \in View /\ client \in View
         /\ view.resume # NoBlock => view.resume \in Block
         /\ client.resume # NoBlock => client.resume \in Block
         /\ NoBlock \notin Block
BY NumberNat, StreamAssumption
   DEF IInv, TypeOK, TrackerInv, Tracker, View, StreamAssumption

\* The node's steps, on a chain that grows.
LEMMA GrownNode ==
  ASSUME IInv, Grown, Extend \/ FinalizeBlock
  PROVE  Grown'
<1>1. UNCHANGED <<pc, failure, tracker, cursor, joining, view, client>>
  BY DEF Extend, FinalizeBlock, Quiet, stream
<1>2. tip' \in Block /\ OnChain(tip, tip') /\ final' \in Block
  <2>1. CASE Extend
    BY <2>1, StreamBlocks, ParentOnChain DEF Extend
  <2>2. CASE FinalizeBlock
    <3>1. PICK n \in Number[final] + 1 .. Number[tip] : final' = At[tip][n]
      BY <2>2 DEF FinalizeBlock
    <3>2. n \in 0 .. Number[tip]
      BY <3>1, StreamBlocks
    <3>3. tip' = tip
      BY <2>2 DEF FinalizeBlock
    <3> QED
      BY <3>1, <3>2, <3>3, StreamBlocks, AncestorOnChain, OnChainSelf
  <2> QED
    BY <2>1, <2>2
<1>3. ASSUME NEW b \in Block, OnChain(b, tip)
      PROVE  OnChain(b, tip')
  BY <1>2, <1>3, StreamBlocks, OnChainTransitive
<1>4. OnChain(final', tip') /\ OnChain(final, final')
  <2>1. CASE Extend
    <3>1. final' = final
      BY <2>1 DEF Extend
    <3> QED
      BY <3>1, <1>3, StreamBlocks, OnChainSelf DEF Grown
  <2>2. CASE FinalizeBlock
    <3>1. PICK n \in Number[final] + 1 .. Number[tip] : final' = At[tip][n]
      BY <2>2 DEF FinalizeBlock
    <3>2. n \in 0 .. Number[tip] /\ Number[final] <= n
      BY <3>1, StreamBlocks
    <3>3. OnChain(final', tip) /\ Number[final'] = n
      BY <3>1, <3>2, StreamBlocks, AncestorOnChain
    <3> QED
      BY <1>2, <1>3, <3>2, <3>3, StreamBlocks, OnChainOrdered DEF Grown
  <2> QED
    BY <2>1, <2>2
<1>5. GrownTracker'
  BY <1>1, <1>2, <1>3, <1>4, StreamBlocks, OnChainTransitive
     DEF Grown, GrownTracker, Passed
<1>6. GrownControl'
  <2>1. ASSUME pc = "join"
        PROVE  At[tip'][joining.from - 1] = At[tip][joining.from - 1]
    <3>1. Number[joining.target] <= Number[tip] /\ joining.from <= Number[joining.target]
      BY <2>1 DEF Grown, GrownControl, OnChain
    <3>2. joining.from - 1 \in 0 .. Number[tip]
      BY <2>1, <3>1, StreamBlocks DEF Grown, GrownControl
    <3> QED
      BY <3>2, <1>2, StreamBlocks, SameAncestor
  <2> QED
    BY <1>1, <1>3, <2>1, StreamBlocks DEF Grown, GrownControl, ResumesOn, Passed
<1> QED
  BY <1>1, <1>3, <1>4, <1>5, <1>6, StreamBlocks DEF Grown, ResumesOn, Overtaken

\* Steps that move nothing but the control point and the intervals.
LEMMA GrownQuiet ==
  ASSUME IInv, Grown, Quiet,
         UNCHANGED <<node, failure, tracker, cursor, joining>>,
         \/ pc' = pc
         \/ /\ Running
            /\ pc' \in {"loop", "wait", "done", "live", "liveBlocks", "liveHeaders",
                        "refreshFinalized", "backfill", "backfillHeaders"}
            /\ pc' = "live" => cursor < Number[tracker.head] \/ Passed
            /\ pc' = "liveBlocks" => cursor < Number[tracker.head]
  PROVE  Grown'
<1>1. GrownTracker'
  BY DEF Grown, GrownTracker, Passed, node, Running, Stopped
<1>2. GrownControl'
  BY DEF Grown, GrownControl, Passed, Quiet, node, Running, Stopped, ResumesOn
<1> QED
  BY <1>1, <1>2 DEF Grown, ResumesOn, Quiet, Overtaken, node, Running, Stopped

\* The end of an iteration.
LEMMA GrownIteration ==
  ASSUME IInv, Grown, Running, NEW v, EndIteration(v), ResumesOn(v, tip),
         \/ tracker'.head \in tracker'.canonical
         \/ Number[tracker'.head] < Number[tracker'.finalized],
         tracker'.finalized = tracker.finalized, OnChain(tracker'.head, tip),
         \A c \in tracker'.canonical : OnChain(c, tip)
  PROVE  Grown'
<1>1. /\ pc' = "loop" /\ view' = v /\ client' = v /\ failure' = failure
      /\ tip' = tip /\ final' = final
  BY DEF EndIteration, node
<1>2. GrownTracker'
  BY <1>1 DEF Grown, GrownTracker, Passed, Running
<1>3. GrownControl'
  BY <1>1 DEF GrownControl
<1> QED
  BY <1>1, <1>2, <1>3 DEF Grown, ResumesOn, Running, Stopped

\* An exception that finality passing the head explains.
LEMMA GrownFails ==
  ASSUME IInv, Grown, NEW reason, Fail(reason),
         \/ reason = "reorgDetected" /\ Passed
         \/ reason = "invalidRange" /\ tracker.head = tracker.finalized
  PROVE  Grown'
<1>1. /\ pc' = "error" /\ failure' = reason /\ view' = client
      /\ UNCHANGED <<tip, final, tracker, client>>
  BY DEF Fail, node
<1>2. Overtaken'
  BY <1>1 DEF Overtaken, Passed
<1>3. GrownTracker' /\ GrownControl'
  BY <1>1 DEF GrownTracker, GrownControl, Stopped
<1> QED
  BY <1>1, <1>2, <1>3 DEF Grown, ResumesOn

\* The numbers whose headers are fetched are those of the range.
LEMMA HeadersOfRange ==
  ASSUME IInv, NEW n \in HeaderNumbers(request),
         pc \in {"backfillHeaders", "liveHeaders"}
  PROVE  n \in request.from .. request.to /\ n \in Nat
BY DEF IInv, TypeOK, RequestInv, Request, HeaderNumbers

\* What a range delivers: blocks of the chain of the node.
LEMMA FetchedOnChain ==
  ASSUME IInv, ~HeadersMissing(request), pc \in {"backfillHeaders", "liveHeaders"},
         NEW finality \in {"accepted", "finalized"},
         NEW m \in FetchedData(request, finality)
  PROVE  /\ m.block \in Block /\ OnChain(m.block, tip)
         /\ m.block = At[tip][Number[m.block]]
         /\ Number[m.block] \in HeaderNumbers(request)
         /\ Number[m.block] \in request.from .. request.to
         /\ Number[m.block] \in 0 .. Number[tip]
<1>1. PICK n \in HeaderNumbers(request) :
        m = Data(At[tip][n], LogsAt(request, n), finality)
  BY DEF FetchedData
<1>2. n \in request.from .. request.to /\ n \in Nat
  BY HeadersOfRange
<1>3. n \in 0 .. Number[tip]
  BY <1>2, StreamBlocks DEF HeadersMissing
<1>4. m.block = At[tip][n]
  BY <1>1 DEF Data
<1> QED
  BY <1>1, <1>2, <1>3, <1>4, StreamBlocks, AncestorOnChain

\* initialize() on a chain that grows.
LEMMA GrownInitialize ==
  ASSUME IInv, Grown, Growing, Initialize \/ InitializeCursor \/ RejectStartingCursor
  PROVE  Grown'
<1>1. CASE Initialize
  <2>1. /\ pc = "init" /\ tracker' = NewTracker(tip, final) /\ cursor' = -1
        /\ pc' \in {"initCursor", "loop"}
        /\ UNCHANGED <<tip, final, failure, view, client>>
    BY <1>1 DEF Initialize, LatestAnswers, FinalizedAnswers, Growing, Quiet, node
  <2>2. /\ tracker'.head = tip /\ tracker'.finalized = final
        /\ tip \in tracker'.canonical
        /\ tracker'.canonical \subseteq {tip, final}
    BY <2>1 DEF NewTracker, Put
  <2>3. OnChain(tip, tip) /\ OnChain(final, final) /\ OnChain(final, tip)
    BY StreamBlocks, OnChainSelf DEF Grown
  <2>4. GrownTracker'
    BY <2>1, <2>2, <2>3 DEF Grown, GrownTracker
  <2>5. GrownControl'
    BY <2>1, <2>2 DEF Grown, GrownControl, ResumesOn
  <2> QED
    BY <2>1, <2>4, <2>5 DEF Grown, ResumesOn
<1>2. CASE InitializeCursor
  <2> DEFINE b == At[tip][StartingNumber]
  <2>1. /\ pc = "initCursor" /\ pc' = "loop" /\ tracker' = WithStartingCursor(tracker, b)
        /\ cursor' = StartingNumber /\ AcceptsStartingCursor
        /\ UNCHANGED <<tip, final, failure, view, client>>
    BY <1>2 DEF InitializeCursor, Quiet, node
  <2>2. StartingNumber \in 0 .. Number[tip] /\ StartingNumber <= Number[tracker.head]
    <3>1. CASE client.resume # NoBlock
      BY <2>1, <3>1, StreamBlocks, NumberNat
         DEF AcceptsStartingCursor, StartingCursorIsCanonical, OnChain, StartingNumber
    <3>2. CASE client.resume = NoBlock
      BY <2>1, <3>2, StreamBlocks, StreamAssumption
         DEF IInv, HeldInv, HasStartingCursor, StreamAssumption,
             AcceptsStartingCursor, StartingNumber
    <3> QED
      BY <3>1, <3>2
  <2>3. b \in Block /\ Number[b] = StartingNumber /\ OnChain(b, tip)
    BY <2>2, StreamBlocks, AncestorOnChain
  <2>4. OnChain(b, tracker.head)
    BY <2>1, <2>2, <2>3, StreamBlocks, OnChainOrdered DEF Grown, GrownTracker, Stopped
  <2>5. /\ tracker'.head = tracker.head /\ tracker'.finalized = tracker.finalized
        /\ tracker'.head \in tracker'.canonical \/ Passed
        /\ tracker'.canonical \subseteq tracker.canonical \union {b}
    <3>1. CASE tracker.head \in tracker.canonical
      BY <2>1, <2>3, <2>4, <3>1, StreamBlocks, StartingCursorOnChain
    <3>2. CASE Passed
      <4>1. \/ tracker'.canonical = tracker.canonical
            \/ tracker'.canonical = Put(tracker.canonical, b)
        BY <2>1, StreamBlocks DEF WithStartingCursor, GoodTracker, Tracker
      <4> QED
        BY <2>1, <2>3, <3>2, <4>1, StreamBlocks, StartingCursorGood DEF Put
    <3> QED
      BY <2>1, <3>1, <3>2 DEF Grown, GrownTracker, Stopped
  <2>6. GrownTracker'
    BY <2>1, <2>3, <2>5 DEF Grown, GrownTracker, Passed, Stopped
  <2>7. GrownControl'
    BY <2>1 DEF GrownControl
  <2> QED
    BY <2>1, <2>6, <2>7 DEF Grown, ResumesOn
<1>3. ~RejectStartingCursor
  <2> SUFFICES ASSUME pc = "initCursor" PROVE AcceptsStartingCursor
    BY DEF RejectStartingCursor
  <2> QED
    BY StreamBlocks, StreamAssumption
       DEF Grown, GrownControl, ResumesOn, AcceptsStartingCursor,
           StartingCursorIsCanonical, OnChain, Growing, StreamAssumption
<1> QED
  BY <1>1, <1>2, <1>3

\* The top of the loop.
LEMMA GrownLoop ==
  ASSUME IInv, Grown, Growing,
         StopAtEnding \/ BeginIteration \/ RefreshFinalized \/ RefreshFinalizedFails
  PROVE  Grown'
<1>1. CASE StopAtEnding
  BY <1>1, GrownQuiet DEF StopAtEnding, Running, Stopped
<1>2. ASSUME NEW t, GoodTracker(t), Dispatch(t) = "live",
             cursor <= Number[t.head] \/ cursor <= Number[t.finalized]
      PROVE  cursor < Number[t.head] \/ Number[t.head] < Number[t.finalized]
  BY <1>2, StreamBlocks, NumberNat DEF Dispatch, IsAtHead, GoodTracker, Tracker
<1>3. Running => cursor \in Nat \union {-1}
                 /\ \/ cursor <= Number[tracker.head]
                    \/ cursor <= Number[tracker.finalized]
  BY StreamBlocks DEF IInv, CursorInv
<1>4. CASE BeginIteration
  <2>1. Running
    BY <1>4 DEF BeginIteration, Running, Stopped
  <2>2. /\ pc' \in {"wait", "live", "refreshFinalized", "backfill"}
        /\ pc' = "live" => cursor < Number[tracker.head] \/ Passed
    BY <1>2, <1>3, <1>4, <2>1, StreamBlocks
       DEF BeginIteration, Dispatch, Passed, Running, Stopped
  <2> QED
    BY <1>4, <2>1, <2>2, GrownQuiet DEF BeginIteration
<1>5. pc = "refreshFinalized" =>
        /\ ~FinalizedBackwards(tracker, final) /\ ~FinalizedDiffers(tracker, final)
        /\ UpdateFinalized(tracker, final).head = tracker.head
        /\ UpdateFinalized(tracker, final).finalized = final
        /\ \/ tracker.head \in UpdateFinalized(tracker, final).canonical
           \/ Number[tracker.head] < Number[final]
        /\ UpdateFinalized(tracker, final).canonical
             \subseteq tracker.canonical \union {final}
  <2> DEFINE u == UpdateFinalized(tracker, final)
  <2> SUFFICES ASSUME pc = "refreshFinalized"
               PROVE  /\ ~FinalizedBackwards(tracker, final)
                      /\ ~FinalizedDiffers(tracker, final)
                      /\ u.head = tracker.head /\ u.finalized = final
                      /\ tracker.head \in u.canonical \/ Number[tracker.head] < Number[final]
                      /\ u.canonical \subseteq tracker.canonical \union {final}
    OBVIOUS
  <2>1. /\ tracker.head \in tracker.canonical \/ Passed
        /\ OnChain(tracker.finalized, final) /\ OnChain(final, tip)
        /\ OnChain(tracker.head, tip)
    BY DEF Grown, GrownTracker, Stopped
  <2>2. /\ ~FinalizedBackwards(tracker, final) /\ ~FinalizedDiffers(tracker, final)
        /\ u.head = tracker.head /\ u.finalized = final
        /\ u.head \in u.canonical \/ Number[u.head] < Number[u.finalized]
        /\ u.canonical \subseteq tracker.canonical \union {final}
    BY <2>1, StreamBlocks, FinalizedPastHead DEF Passed
  <2> QED
    BY <2>2
<1>6. ~RefreshFinalizedFails
  BY <1>5 DEF RefreshFinalizedFails, FinalizedAnswers, Growing
<1>7. CASE RefreshFinalized
  <2>1. /\ pc = "refreshFinalized" /\ tracker' = UpdateFinalized(tracker, final)
        /\ view' \in {view, AfterFinalize(view, final)}
        /\ pc' = Dispatch(tracker')
        /\ UNCHANGED <<tip, final, failure, cursor, joining, client>>
    BY <1>7 DEF RefreshFinalized, FinalizedAnswers, Growing, node
  <2>2. view'.resume = view.resume
    BY <2>1, StreamBlocks DEF AfterFinalize, View
  <2>3. /\ tracker'.head = tracker.head /\ tracker'.finalized = final
        /\ \/ tracker'.head \in tracker'.canonical
           \/ Number[tracker'.head] < Number[tracker'.finalized]
        /\ tracker'.canonical \subseteq tracker.canonical \union {final}
    BY <1>5, <2>1
  <2>4. /\ OnChain(final, final) /\ cursor' = cursor
        /\ Number[tracker.finalized] <= Number[final]
        /\ \/ cursor <= Number[tracker'.head]
           \/ cursor <= Number[tracker'.finalized]
    BY <1>3, <2>1, <2>3, StreamBlocks, OnChainSelf
       DEF IInv, TrackerInv, Running, Stopped
  <2>5. GoodTracker(tracker')
    BY <1>5, <2>1, StreamBlocks, UpdateFinalizedGood
  <2>6. /\ pc' \in {"backfill", "wait", "live"}
        /\ pc' = "live" => \/ cursor' < Number[tracker'.head]
                          \/ Number[tracker'.head] < Number[tracker'.finalized]
    BY <1>2, <2>1, <2>4, <2>5 DEF Dispatch
  <2>7. GrownTracker'
    BY <2>1, <2>3, <2>4 DEF Grown, GrownTracker, Passed, Stopped
  <2>8. GrownControl'
    BY <2>6 DEF GrownControl, Passed
  <2> QED
    BY <2>1, <2>2, <2>7, <2>8 DEF Grown, ResumesOn
<1> QED
  BY <1>1, <1>4, <1>6, <1>7

\* What stays true of the tracker through a step that keeps it.
LEMMA GrownRunning ==
  ASSUME IInv, Grown, Running
  PROVE  /\ failure = "none"
         /\ tracker.head \in tracker.canonical \/ Passed
         /\ OnChain(tracker.finalized, final) /\ OnChain(tracker.finalized, tip)
         /\ Number[tracker.finalized] <= Number[tip]
         /\ OnChain(tracker.head, tip) /\ Number[tracker.head] <= Number[tip]
         /\ \/ cursor <= Number[tracker.head]
            \/ cursor <= Number[tracker.finalized]
         /\ \A c \in tracker.canonical : OnChain(c, tip)
         /\ ResumesOn(view, tip)
<1>1. /\ failure = "none"
      /\ tracker.head \in tracker.canonical \/ Passed
      /\ OnChain(tracker.finalized, final) /\ OnChain(final, tip)
      /\ OnChain(tracker.head, tip)
      /\ \A c \in tracker.canonical : OnChain(c, tip)
      /\ ResumesOn(view, tip)
  BY DEF Grown, GrownTracker, Running, Stopped
<1>2. OnChain(tracker.finalized, tip)
  BY <1>1, StreamBlocks, OnChainTransitive
<1>3. cursor <= Number[tracker.head] \/ cursor <= Number[tracker.finalized]
  BY DEF IInv, CursorInv
<1> QED
  BY <1>1, <1>2, <1>3 DEF OnChain

\* The blocks an iteration fetches and delivers.
LEMMA GrownFetch ==
  ASSUME IInv, Grown, BackfillLogs \/ BackfillBlocks \/ LiveLogs \/ LiveBlocks
                      \/ LiveBlocksFail
  PROVE  Grown'
<1>1. Running
  BY DEF BackfillLogs, BackfillBlocks, LiveLogs, LiveBlocks, LiveBlocksFail,
         Running, Stopped
<1>2. CASE BackfillLogs \/ LiveLogs
  BY <1>1, <1>2, GrownQuiet DEF BackfillLogs, LiveLogs
<1>3. ASSUME pc \in {"backfillHeaders", "liveHeaders"}, ~HeadersMissing(request),
             NEW finality \in {"accepted", "finalized"},
             NEW last \in FetchedData(request, finality),
             EndIteration(AfterData(view, FetchedData(request, finality), last)),
             UNCHANGED tracker
      PROVE  Grown'
  <2> DEFINE v == AfterData(view, FetchedData(request, finality), last)
  <2>1. last.block \in Block /\ OnChain(last.block, tip)
    BY <1>3, FetchedOnChain
  <2>2. v.resume = last.block
    BY DEF AfterData
  <2> HIDE DEF v
  <2>3. EndIteration(v) /\ ResumesOn(v, tip)
    BY <1>3, <2>1, <2>2 DEF v, ResumesOn
  <2> QED
    BY <1>1, <1>3, <2>3, GrownRunning, GrownIteration DEF Passed
<1>4. CASE BackfillBlocks
  <2>1. pc = "backfillHeaders" /\ ~HeadersMissing(request) /\ UNCHANGED tracker
    BY <1>4 DEF BackfillBlocks
  <2>2. CASE EndIteration(view)
    BY <1>1, <2>1, <2>2, GrownRunning, GrownIteration DEF Passed
  <2>3. CASE \E last \in FetchedData(request, "finalized") :
               EndIteration(AfterData(view, FetchedData(request, "finalized"), last))
    BY <1>3, <2>1, <2>3
  <2> QED
    BY <1>4, <2>2, <2>3 DEF BackfillBlocks, DeliverNothing, DeliverData
<1>5. CASE LiveBlocks
  BY <1>3, <1>5 DEF LiveBlocks, DeliverData
<1>6. ~LiveBlocksFail
  <2> SUFFICES ASSUME pc = "liveHeaders"
               PROVE  /\ ~HeadersMissing(request)
                      /\ \A n \in HeaderNumbers(request) : IsCanonical(tracker, At[tip][n])
    BY DEF LiveBlocksFail
  <2>1. request.to <= Number[tip]
    BY <1>1, GrownRunning DEF IInv, CursorInv
  <2>2. ASSUME NEW n \in HeaderNumbers(request)
        PROVE  n \in 0 .. Number[tip]
    BY <2>1, HeadersOfRange, StreamBlocks DEF IInv, TypeOK, Request
  <2>3. ASSUME NEW n \in HeaderNumbers(request)
        PROVE  IsCanonical(tracker, At[tip][n])
    <3>1. /\ At[tip][n] \in Block /\ OnChain(At[tip][n], tip)
          /\ Number[At[tip][n]] = n
      BY <2>2, StreamBlocks, AncestorOnChain
    <3> QED
      BY <1>1, <3>1, GrownRunning, StreamBlocks, OnChainUnique DEF IsCanonical
  <2> QED
    BY <2>2, <2>3, StreamBlocks DEF HeadersMissing
<1> QED
  BY <1>2, <1>4, <1>5, <1>6

\* produceLiveBlocks without logs, and the other steps.
LEMMA GrownOther ==
  ASSUME IInv, Grown, Growing,
         \/ LiveEmpty \/ LiveEmptyFails \/ KeepHead \/ WaitReturns \/ Restart
         \/ \E t \in Timers : Elapse(t)
  PROVE  Grown'
<1>1. CASE LiveEmpty
  <2> DEFINE header == Data(tracker.head, NoBlock, "accepted")
             v == AfterData(view, {header}, header)
  <2>1. /\ EndIteration(v) \/ EndIteration(view)
        /\ UNCHANGED <<tracker, cursor>>
    BY <1>1 DEF LiveEmpty, DeliverData, DeliverNothing
  <2>2. v.resume = tracker.head
    BY DEF AfterData, Data
  <2> HIDE DEF v
  <2>3. Running
    BY <1>1 DEF LiveEmpty, Running, Stopped
  <2>4. ResumesOn(v, tip) /\ ResumesOn(view, tip)
    BY <2>2, <2>3, GrownRunning DEF ResumesOn
  <2> QED
    BY <2>1, <2>3, <2>4, GrownRunning, GrownIteration DEF Passed
<1>2. CASE LiveEmptyFails
  <2>1. pc = "liveBlocks" /\ Running
    BY <1>2 DEF LiveEmptyFails, Running, Stopped
  <2>2. LiveRange = {} /\ Fail("invalidRange")
    BY <1>2, <2>1, GrownRunning DEF LiveEmptyFails
  <2>3. ~(cursor < Number[tracker.head])
    <3>1. cursor < Number[tracker.head] => cursor + 1 \in LiveRange
      BY StreamBlocks DEF LiveRange
    <3> QED
      BY <2>2, <3>1
  <2>4. tracker.head = tracker.finalized
    BY <2>1, <2>3 DEF Grown, GrownControl
  <2> QED
    BY <2>2, <2>4, GrownFails
<1>3. CASE KeepHead
  <2>1. pc = "live" /\ Number[tracker.finalized] <= Number[tracker.head]
    BY <1>3 DEF KeepHead
  <2>2. cursor < Number[tracker.head]
    BY <2>1, StreamBlocks DEF Grown, GrownControl, Passed
  <2> QED
    BY <1>3, <2>2, GrownQuiet DEF KeepHead, Running, Stopped
<1>4. CASE WaitReturns
  <2>1. Running /\ EndIteration(view) /\ UNCHANGED <<tracker, cursor>>
    BY <1>4 DEF WaitReturns, DeliverNothing, Running, Stopped
  <2> QED
    BY <2>1, GrownRunning, GrownIteration DEF Passed
<1>5. CASE Restart
  BY <1>5 DEF Restart, Grown, GrownTracker, GrownControl, Stopped, ResumesOn, node
<1>6. CASE \E t \in Timers : Elapse(t)
  BY <1>6, GrownQuiet DEF Elapse
<1> QED
  BY <1>1, <1>2, <1>3, <1>4, <1>5, <1>6

\* A head polled: the stream follows it, or joins the blocks up to it.
LEMMA GrownPoll ==
  ASSUME IInv, Grown, Growing, Poll
  PROVE  Grown'
<1> DEFINE a == UpdateHead(tracker, tip)
<1>1. /\ Polling /\ LatestAnswers = {tip} /\ Running
  BY DEF Poll, HeadFollowed, HeadReorged, HeadReorgedAhead, HeadNeedsJoin, HeadFails,
         LatestAnswers, Growing, Polling, Running, Stopped
<1>2. \/ /\ a.status \in {"unchanged", "success"}
         /\ a.tracker.head = tip /\ a.tracker.finalized = tracker.finalized
         /\ tip \in a.tracker.canonical
         /\ a.tracker.canonical \subseteq tracker.canonical \union {tip}
      \/ a.status = "join" /\ Number[tracker.head] < Number[tip]
  <2>1. tracker.head \in tracker.canonical \/ Number[tracker.head] < Number[tip]
    BY <1>1, StreamBlocks, GrownRunning DEF Passed
  <2> QED
    BY <1>1, <2>1, StreamBlocks, GrownRunning, LongerHeadFollowed
<1>3. OnChain(tip, tip) /\ Number[tracker.finalized] <= Number[tip]
  BY <1>1, StreamBlocks, OnChainSelf, GrownRunning
<1> HIDE DEF a
<1>4. CASE HeadFollowed
  <2>1. /\ a.status \in {"unchanged", "success"} /\ tracker' = a.tracker
        /\ UNCHANGED <<tip, final, cursor>>
    BY <1>1, <1>4 DEF HeadFollowed, a, EndIteration, node
  <2>2. /\ tracker'.head = tip /\ tracker'.finalized = tracker.finalized
        /\ tracker'.head \in tracker'.canonical
        /\ \A c \in tracker'.canonical : OnChain(c, tip)
    BY <1>1, <1>2, <1>3, <2>1, GrownRunning
  <2>3. CASE pc = "live"
    <3>1. /\ pc' = "liveBlocks" /\ UNCHANGED <<failure, view, client>>
      BY <1>4, <2>3 DEF HeadFollowed
    <3>2. cursor < Number[tip] \/ tip = tracker.finalized
      <4>1. CASE cursor < Number[tracker.head]
        BY <1>1, <4>1, StreamBlocks, GrownRunning
      <4>2. CASE Passed
        <5>1. cursor <= Number[tracker.finalized]
          BY <1>1, <4>2, StreamBlocks, GrownRunning DEF Passed
        <5>2. Number[tracker.finalized] = Number[tip] => tracker.finalized = tip
          BY <1>1, <1>3, StreamBlocks, GrownRunning, OnChainUnique
        <5> QED
          BY <1>3, <5>1, <5>2, StreamBlocks
      <4> QED
        BY <2>3, <4>1, <4>2 DEF Grown, GrownControl
    <3>3. GrownTracker'
      BY <1>3, <2>1, <2>2, <1>1, GrownRunning DEF GrownTracker
    <3>4. GrownControl'
      BY <2>1, <2>2, <3>1, <3>2 DEF GrownControl
    <3> QED
      BY <1>1, <2>1, <3>1, <3>3, <3>4, GrownRunning DEF Grown, ResumesOn
  <2>4. CASE pc # "live"
    <3>1. EndIteration(view)
      BY <1>4, <2>4 DEF HeadFollowed
    <3> QED
      BY <1>1, <1>3, <2>1, <2>2, <3>1, GrownRunning, GrownIteration
  <2> QED
    BY <2>3, <2>4
<1>5. CASE HeadNeedsJoin
  <2>1. /\ a.status = "join" /\ pc' = "join"
        /\ joining' = [target |-> tip, from |-> Number[tracker.head] + 1, caller |-> pc]
        /\ UNCHANGED <<tip, final, failure, tracker, cursor, view, client>>
    BY <1>1, <1>5 DEF HeadNeedsJoin, Quiet, node, a
  <2>2. Number[tracker.head] < Number[tip]
    BY <1>2, <2>1
  <2>3. At[tip][Number[tracker.head] + 1 - 1] \in tracker.canonical \/ Passed
    BY <1>1, StreamBlocks, GrownRunning DEF OnChain
  <2>4. pc = "live" => cursor < Number[tracker.head] \/ Passed
    BY DEF Grown, GrownControl
  <2>5. GrownTracker'
    BY <2>1, <1>1, GrownRunning DEF GrownTracker, Passed
  <2>6. GrownControl'
    BY <1>1, <1>3, <2>1, <2>2, <2>3, <2>4, StreamBlocks DEF GrownControl, Passed
  <2> QED
    BY <1>1, <2>1, <2>5, <2>6, GrownRunning DEF Grown, ResumesOn
<1>6. ~HeadReorged /\ ~HeadReorgedAhead /\ ~HeadFails
  <2>1. a.status \in {"unchanged", "success", "join"}
    BY <1>2
  <2> QED
    BY <1>1, <2>1 DEF HeadReorged, HeadReorgedAhead, HeadFails, a
<1> QED
  BY <1>4, <1>5, <1>6 DEF Poll

\* A batch of a join: the chain of the node goes on from the canonical map, or
\* finality passed the head and the join throws.
LEMMA GrownJoin ==
  ASSUME IInv, Grown, JoinFetched \/ JoinDone \/ JoinFails
  PROVE  Grown'
<1> DEFINE a == JoinBatch(tracker, joining.target, joining.from, tip)
           end == JoinEnd(joining.target, joining.from)
<1>1. pc = "join" /\ Running
  BY DEF JoinFetched, JoinDone, JoinFails, Running, Stopped
<1>2. /\ OnChain(joining.target, tip) /\ Number[tracker.head] < joining.from
      /\ joining.from <= Number[joining.target]
      /\ Number[tracker.finalized] <= Number[joining.target]
      /\ At[tip][joining.from - 1] \in tracker.canonical \/ Passed
      /\ joining.caller = "live" => cursor < Number[tracker.head] \/ Passed
  BY <1>1 DEF Grown, GrownControl
<1>3. \/ /\ a.status = "error" /\ a.reason = "reorgDetected"
         /\ At[tip][joining.from - 1] \notin tracker.canonical
      \/ /\ a.status = "success"
         /\ a.tracker.head = joining.target
         /\ a.tracker.finalized = tracker.finalized
         /\ joining.target \in a.tracker.canonical
         /\ \A c \in a.tracker.canonical : OnChain(c, tip)
      \/ /\ a.status = "join"
         /\ a.tracker.head = tracker.head
         /\ a.tracker.finalized = tracker.finalized
         /\ tracker.head \in tracker.canonical => tracker.head \in a.tracker.canonical
         /\ \A c \in a.tracker.canonical : OnChain(c, tip)
         /\ joining.from <= end /\ end \in Nat
         /\ end + 1 <= Number[joining.target]
         /\ At[tip][end] \in a.tracker.canonical
  <2>1. \A c \in tracker.canonical : OnChain(c, tracker.head) \/ OnChain(c, tip)
    BY <1>1, GrownRunning
  <2> QED
    BY <1>1, <1>2, <2>1, StreamBlocks, GrownRunning, JoinOnChain
<1> HIDE DEF a
<1>4. CASE JoinFetched
  <2>1. /\ a.status = "join" /\ tracker' = a.tracker
        /\ joining' = [joining EXCEPT !.from = end + 1]
        /\ UNCHANGED <<tip, final, pc, failure, cursor, view, client>>
    BY <1>4 DEF JoinFetched, Quiet, node, a
  <2>2. /\ joining'.target = joining.target /\ joining'.from = end + 1
        /\ joining'.caller = joining.caller
    BY <2>1 DEF IInv, TypeOK
  <2>3. GrownTracker'
    BY <1>1, <1>3, <2>1, GrownRunning DEF GrownTracker, Passed
  <2>4. GrownControl'
    <3>1. end + 1 - 1 = end /\ Number[tracker.head] < end + 1
      BY <1>2, <1>3, <2>1, StreamBlocks
    <3> QED
      BY <1>1, <1>2, <1>3, <2>1, <2>2, <3>1 DEF GrownControl, Passed
  <2> QED
    BY <1>1, <2>1, <2>3, <2>4, GrownRunning DEF Grown, ResumesOn
<1>5. CASE JoinDone
  <2>1. /\ a.status = "success" /\ tracker' = a.tracker
        /\ UNCHANGED <<tip, final, cursor>>
    BY <1>5 DEF JoinDone, a, EndIteration, node
  <2>2. /\ tracker'.head = joining.target /\ tracker'.finalized = tracker.finalized
        /\ tracker'.head \in tracker'.canonical
        /\ \A c \in tracker'.canonical : OnChain(c, tip)
    BY <1>3, <2>1
  <2>3. CASE joining.caller = "live"
    <3>1. /\ pc' = "liveBlocks" /\ UNCHANGED <<failure, view, client>>
      BY <1>5, <2>3 DEF JoinDone
    <3>2. cursor < Number[joining.target] \/ joining.target = tracker.finalized
      <4>1. CASE cursor < Number[tracker.head]
        BY <1>2, <4>1, StreamBlocks
      <4>2. CASE Passed
        <5>1. cursor <= Number[tracker.finalized]
          BY <1>1, <4>2, StreamBlocks, GrownRunning DEF Passed
        <5>2. Number[tracker.finalized] = Number[joining.target]
                => tracker.finalized = joining.target
          BY <1>1, <1>2, StreamBlocks, GrownRunning, OnChainUnique
        <5> QED
          BY <1>2, <5>1, <5>2, StreamBlocks
      <4> QED
        BY <1>2, <2>3, <4>1, <4>2
    <3>3. GrownTracker'
      BY <1>1, <1>2, <2>1, <2>2, GrownRunning DEF GrownTracker
    <3>4. GrownControl'
      BY <2>1, <2>2, <3>1, <3>2 DEF GrownControl
    <3> QED
      BY <1>1, <2>1, <3>1, <3>3, <3>4, GrownRunning DEF Grown, ResumesOn
  <2>4. CASE joining.caller # "live"
    <3>1. EndIteration(view)
      BY <1>5, <2>4 DEF JoinDone
    <3> QED
      BY <1>1, <1>2, <2>1, <2>2, <3>1, GrownRunning, GrownIteration
  <2> QED
    BY <2>3, <2>4
<1>6. CASE JoinFails
  <2>1. a.status = "error" /\ Fail(a.reason)
    BY <1>6 DEF JoinFails, a
  <2>2. a.reason = "reorgDetected" /\ Passed
    BY <1>2, <1>3, <2>1
  <2> QED
    BY <2>1, <2>2, GrownFails
<1> QED
  BY <1>4, <1>5, <1>6

\* Every step of a chain that grows keeps GrowthInv.
LEMMA GrowthStep ==
  ASSUME IInv, GrowthInv, Growing, [Next]_vars
  PROVE  GrowthInv'
<1> SUFFICES ASSUME reorgs' = 0 PROVE Grown'
  BY DEF GrowthInv
<1>1. reorgs \in Nat
  BY StreamAssumption DEF IInv, TypeOK, StreamAssumption
<1>2. CASE Reorg
  BY <1>1, <1>2 DEF Reorg
<1>3. CASE \/ Extend \/ FinalizeBlock
           \/ (\E t \in Timers : Elapse(t)) \/ StreamStep \/ Restart
  <2>1. UNCHANGED reorgs
    BY <1>3
       DEF Extend, FinalizeBlock, Elapse, Restart, StreamStep, Poll, Initialize,
           InitializeCursor, RejectStartingCursor, StopAtEnding, BeginIteration,
           RefreshFinalized, RefreshFinalizedFails, BackfillLogs, BackfillBlocks,
           HeadFollowed, HeadReorged, HeadReorgedAhead, HeadNeedsJoin, HeadFails,
           JoinFetched, JoinDone, JoinFails, WaitReturns, KeepHead, LiveLogs,
           LiveEmpty, LiveEmptyFails, LiveBlocks, LiveBlocksFail, Fail,
           DeliverNothing, DeliverData, EndIteration, node
  <2>2. Grown
    BY <2>1 DEF GrowthInv
  <2>3. CASE Extend \/ FinalizeBlock
    BY <2>2, <2>3, GrownNode
  <2>4. CASE Initialize \/ InitializeCursor \/ RejectStartingCursor
    BY <2>2, <2>4, GrownInitialize
  <2>5. CASE StopAtEnding \/ BeginIteration \/ RefreshFinalized \/ RefreshFinalizedFails
    BY <2>2, <2>5, GrownLoop
  <2>6. CASE \/ BackfillLogs \/ BackfillBlocks \/ LiveLogs \/ LiveBlocks
             \/ LiveBlocksFail
    BY <2>2, <2>6, GrownFetch
  <2>7. CASE \/ LiveEmpty \/ LiveEmptyFails \/ KeepHead \/ WaitReturns \/ Restart
             \/ \E t \in Timers : Elapse(t)
    BY <2>2, <2>7, GrownOther
  <2>8. CASE Poll
    BY <2>2, <2>8, GrownPoll
  <2>9. CASE JoinFetched \/ JoinDone \/ JoinFails
    BY <2>2, <2>9, GrownJoin
  <2> QED
    BY <1>3, <2>3, <2>4, <2>5, <2>6, <2>7, <2>8, <2>9 DEF StreamStep
<1>4. CASE UNCHANGED vars
  BY <1>4
     DEF vars, node, stream, consumer, GrowthInv, Grown, GrownTracker, GrownControl,
         ResumesOn, Overtaken, Passed
<1> QED
  BY <1>2, <1>3, <1>4 DEF Next, NodeStep

\* While the chain only grows, wherever the stream is in an iteration when blocks
\* are added or finalized, it throws for no other reason than that finality passed
\* its head, if it asks one up-to-date node and starts at a block the node has.
THEOREM GrowthHandled == Spec /\ Growing => []GrowthIsHandled
<1> SUFFICES ASSUME Growing PROVE Spec => []GrowthIsHandled
  OBVIOUS
<1>1. Init => GrowthInv
  <2> SUFFICES ASSUME Init PROVE Grown
    BY DEF GrowthInv
  <2>1. Genesis \in Block
    BY StreamAssumption DEF StreamAssumption
  <2> QED
    BY <2>1, OnChainSelf
       DEF Init, Grown, GrownTracker, GrownControl, ResumesOn, Stopped, EmptyView
<1>2. IInv /\ GrowthInv /\ [Next]_vars => GrowthInv'
  BY GrowthStep
<1>3. GrowthInv => GrowthIsHandled
  BY DEF GrowthInv, Grown, GrowthIsHandled
<1> QED
  BY <1>1, <1>2, <1>3, Invariance, PTL DEF Spec

-----------------------------------------------------------------------------
\* Iterations that see one chain each: the canonical map is one chain, that of
\* the head.

\* The chain stands still while an iteration runs, the node answers with its last
\* blocks, never moves to a shorter chain, and blocks finalize on the chain the
\* tracker follows.
OneChainEach == AtomicReads /\ ~Lagging /\ Prompt /\ NeverShorter

FollowTracker ==
  pc \notin Stopped =>
    /\ tracker.head \in tracker.canonical
    /\ OnChain(tracker.finalized, final) /\ OnChain(final, tracker.head)
    /\ Number[tracker.head] <= Number[tip]
    /\ \A c \in tracker.canonical :
         OnChain(c, tracker.head) \/ (pc = "join" /\ OnChain(c, tip))

FollowJoin ==
  /\ pc = "initCursor" => tracker.head = tip
  /\ pc = "join" =>
       /\ joining.target = tip
       /\ Number[tracker.head] < joining.from /\ joining.from <= Number[tip]
       /\ joining.from = Number[tracker.head] + 1 \/ OnChain(tracker.head, tip)

FollowInv == OnChain(final, tip) /\ FollowTracker /\ FollowJoin

\* The same, for a stream that is not in a join.
LEMMA FollowFacts ==
  ASSUME IInv, FollowInv, pc \notin Stopped
  PROVE  /\ tracker.head \in tracker.canonical
         /\ OnChain(tracker.finalized, final) /\ OnChain(final, tracker.head)
         /\ OnChain(tracker.finalized, tracker.head)
         /\ OnChain(tracker.finalized, tip) /\ OnChain(final, tip)
         /\ Number[tracker.finalized] <= Number[tracker.head]
         /\ Number[tracker.head] <= Number[tip]
         /\ pc # "join" => \A c \in tracker.canonical : OnChain(c, tracker.head)
<1>1. /\ tracker.head \in tracker.canonical
      /\ OnChain(tracker.finalized, final) /\ OnChain(final, tracker.head)
      /\ Number[tracker.head] <= Number[tip] /\ OnChain(final, tip)
      /\ pc # "join" => \A c \in tracker.canonical : OnChain(c, tracker.head)
  BY DEF FollowInv, FollowTracker
<1>2. OnChain(tracker.finalized, tracker.head) /\ OnChain(tracker.finalized, tip)
  BY <1>1, StreamBlocks, OnChainTransitive
<1> QED
  BY <1>1, <1>2 DEF OnChain

\* The node's steps come between iterations.
LEMMA FollowNode ==
  ASSUME IInv, FollowInv, OneChainEach, NodeStep
  PROVE  /\ FollowInv'
         /\ pc \in Resting /\ UNCHANGED <<pc, tracker, client, view>>
         /\ tip' \in Block /\ Number[tip] <= Number[tip']
         /\ \/ tip' = tip
            \/ Number[tip'] = Number[tip] + 1 /\ Parent(tip') = tip
            \/ Switch(tip, tip')
<1>1. /\ pc \in Resting
      /\ UNCHANGED <<pc, failure, tracker, cursor, joining, view, client>>
  BY DEF NodeStep, Extend, Reorg, FinalizeBlock, Quiet, stream, NodeMayMove,
         OneChainEach
<1>2. /\ tip' \in Block /\ final' \in Block
      /\ \/ tip' = tip
         \/ Number[tip'] = Number[tip] + 1 /\ Parent(tip') = tip
         \/ Switch(tip, tip')
      /\ OnChain(final', tip') /\ OnChain(final, final')
      /\ pc \notin Stopped => OnChain(final', tracker.head)
  <2>1. CASE Extend
    <3>1. OnChain(tip, tip') /\ tip' \in Block /\ final' = final
          /\ Number[tip'] = Number[tip] + 1 /\ Parent(tip') = tip
      BY <2>1, StreamBlocks, ParentOnChain DEF Extend
    <3>2. OnChain(final, tip') /\ OnChain(final, final)
      BY <3>1, StreamBlocks, OnChainTransitive, OnChainSelf DEF FollowInv
    <3> QED
      BY <3>1, <3>2, StreamBlocks DEF FollowInv, FollowTracker
  <2>2. CASE Reorg
    <3>1. /\ tip' \in Block /\ OnChain(final, tip') /\ Switch(tip, tip') /\ final' = final
      BY <2>2 DEF Reorg
    <3> QED
      BY <3>1, StreamBlocks, OnChainSelf DEF FollowInv, FollowTracker
  <2>3. CASE FinalizeBlock
    <3>1. PICK n \in Number[final] + 1 .. Number[tip] :
            /\ Prompt /\ pc \notin Stopped => OnChain(At[tip][n], tracker.head)
            /\ final' = At[tip][n]
      BY <2>3 DEF FinalizeBlock
    <3>2. n \in 0 .. Number[tip] /\ Number[final] <= n /\ tip' = tip
      BY <2>3, <3>1, StreamBlocks DEF FinalizeBlock
    <3>3. OnChain(final', tip) /\ Number[final'] = n /\ final' \in Block
      BY <3>1, <3>2, StreamBlocks, AncestorOnChain
    <3>4. OnChain(final, final')
      BY <3>2, <3>3, StreamBlocks, OnChainOrdered DEF FollowInv
    <3>5. Prompt
      BY DEF OneChainEach
    <3>6. pc \notin Stopped => OnChain(final', tracker.head)
      BY <3>1, <3>5
    <3> QED
      BY <3>2, <3>3, <3>4, <3>6, StreamBlocks
  <2> QED
    BY <2>1, <2>2, <2>3 DEF NodeStep
<1>3. Number[tip] <= Number[tip'] /\ Number[tip'] \in Nat
  BY <1>2, StreamBlocks, NumberNat DEF OneChainEach, NeverShorter
<1>4. FollowTracker'
  <2> SUFFICES ASSUME pc \notin Stopped
               PROVE  /\ OnChain(tracker.finalized, final')
                      /\ Number[tracker.head] <= Number[tip']
                      /\ \A c \in tracker.canonical : OnChain(c, tracker.head)
    BY <1>1, <1>2, FollowFacts DEF FollowTracker
  <2>1. OnChain(tracker.finalized, final')
    BY <1>2, StreamBlocks, FollowFacts, OnChainTransitive
  <2> QED
    BY <1>1, <1>3, <2>1, StreamBlocks, FollowFacts DEF Resting
<1>5. FollowJoin'
  BY <1>1 DEF FollowJoin, Resting
<1> QED
  BY <1>1, <1>2, <1>3, <1>4, <1>5 DEF FollowInv

\* Steps that keep the node and the tracker.
LEMMA FollowKept ==
  ASSUME IInv, FollowInv, UNCHANGED <<tip, final, tracker>>,
         pc' \in Stopped \/ (pc \notin Stopped /\ (pc = "join" => UNCHANGED pc)),
         pc' = "join" => pc = "join" /\ UNCHANGED joining,
         pc' = "initCursor" => pc = "initCursor"
  PROVE  FollowInv'
BY DEF FollowInv, FollowTracker, FollowJoin

\* Steps that give the tracker a head on the chain of the node, or a lower one.
LEMMA FollowMoved ==
  ASSUME IInv, FollowInv, pc \notin Stopped, pc' \notin {"join", "initCursor"},
         UNCHANGED <<tip, final>>,
         tracker'.finalized \in {tracker.finalized, final},
         tracker'.head \in tracker'.canonical,
         OnChain(final, tracker'.head), Number[tracker'.head] <= Number[tip],
         \A c \in tracker'.canonical : OnChain(c, tracker'.head)
  PROVE  FollowInv'
<1>1. OnChain(tracker'.finalized, final)
  BY StreamBlocks, OnChainSelf, FollowFacts
<1>2. FollowTracker'
  BY <1>1 DEF FollowTracker
<1>3. FollowJoin'
  BY DEF FollowJoin
<1> QED
  BY <1>2, <1>3 DEF FollowInv

\* initialize(): the tracker begins with the chain of the node.
LEMMA FollowInitialize ==
  ASSUME IInv, FollowInv, OneChainEach,
         Initialize \/ InitializeCursor
  PROVE  /\ FollowInv' /\ tracker'.head = tip /\ tip' = tip
         /\ InitializeCursor => StartingNumber \in 0 .. Number[tip]
<1>1. CASE Initialize
  <2>1. /\ tracker' = NewTracker(tip, final) /\ pc' \in {"initCursor", "loop"}
        /\ UNCHANGED <<tip, final>> /\ pc = "init"
    BY <1>1 DEF Initialize, LatestAnswers, FinalizedAnswers, OneChainEach, node
  <2>2. /\ tracker'.head = tip /\ tracker'.finalized = final
        /\ tip \in tracker'.canonical
        /\ tracker'.canonical \subseteq {tip, final}
    BY <2>1 DEF NewTracker, Put
  <2>3. OnChain(tip, tip) /\ OnChain(final, final) /\ OnChain(final, tip)
    BY StreamBlocks, OnChainSelf DEF FollowInv
  <2>4. FollowTracker' /\ FollowJoin'
    BY <2>1, <2>2, <2>3, StreamBlocks DEF FollowTracker, FollowJoin
  <2> QED
    BY <2>1, <2>2, <2>3, <2>4 DEF FollowInv, InitializeCursor
<1>2. CASE InitializeCursor
  <2> DEFINE b == At[tip][StartingNumber]
  <2>1. /\ pc = "initCursor" /\ pc' = "loop" /\ tracker' = WithStartingCursor(tracker, b)
        /\ AcceptsStartingCursor /\ UNCHANGED <<tip, final>>
        /\ tracker.head = tip
    BY <1>2 DEF InitializeCursor, Quiet, node, FollowInv, FollowJoin
  <2>2. StartingNumber \in 0 .. Number[tip]
    <3>1. CASE client.resume # NoBlock
      BY <2>1, <3>1, StreamBlocks, NumberNat
         DEF AcceptsStartingCursor, StartingCursorIsCanonical, OnChain, StartingNumber
    <3>2. CASE client.resume = NoBlock
      BY <2>1, <3>2, StreamBlocks, StreamAssumption
         DEF IInv, HeldInv, HasStartingCursor, StreamAssumption,
             AcceptsStartingCursor, StartingNumber
    <3> QED
      BY <3>1, <3>2
  <2>3. b \in Block /\ OnChain(b, tip)
    BY <2>2, StreamBlocks, AncestorOnChain
  <2>4. pc \notin Stopped /\ pc # "join"
    BY <2>1 DEF Stopped
  <2>5. /\ tracker'.head = tip /\ tracker'.finalized = tracker.finalized
        /\ tracker'.head \in tracker'.canonical
        /\ tracker'.canonical \subseteq tracker.canonical \union {b}
    BY <2>1, <2>3, <2>4, StreamBlocks, FollowFacts, StartingCursorOnChain
  <2>6. FollowInv'
    BY <2>1, <2>3, <2>4, <2>5, StreamBlocks, FollowFacts, FollowMoved
  <2> QED
    BY <2>1, <2>2, <2>5, <2>6
<1> QED
  BY <1>1, <1>2

\* refreshFinalized: the finalized block is on the chain of the head.
LEMMA FollowRefresh ==
  ASSUME IInv, FollowInv, OneChainEach, RefreshFinalized
  PROVE  /\ FollowInv' /\ tracker'.head = tracker.head /\ tip' = tip
<1>1. /\ pc = "refreshFinalized" /\ tracker' = UpdateFinalized(tracker, final)
      /\ pc' = Dispatch(tracker') /\ UNCHANGED <<tip, final>>
  BY DEF RefreshFinalized, FinalizedAnswers, OneChainEach, node
<1>2. pc' \in {"backfill", "wait", "live"} /\ pc \notin Stopped /\ pc # "join"
  BY <1>1 DEF Dispatch, Stopped
<1>3. /\ tracker'.head = tracker.head /\ tracker'.finalized = final
      /\ tracker'.head \in tracker'.canonical
      /\ tracker'.canonical \subseteq tracker.canonical \union {final}
  BY <1>1, <1>2, StreamBlocks, FollowFacts, FinalizedOnChain
<1>4. FollowInv'
  BY <1>1, <1>2, <1>3, FollowFacts, FollowMoved
<1> QED
  BY <1>1, <1>3, <1>4

\* The answer of the tracker to the head of the node.
LEMMA PolledHead ==
  ASSUME IInv, FollowInv, OneChainEach, Polling,
         NEW a, a = UpdateHead(tracker, tip)
  PROVE  /\ pc \notin Stopped /\ pc # "join" /\ LatestAnswers = {tip}
         /\ \/ /\ a.status \in {"unchanged", "success"} /\ OnChain(tracker.head, tip)
               /\ a.tracker.head = tip /\ a.tracker.finalized = tracker.finalized
               /\ tip \in a.tracker.canonical
               /\ \A c \in a.tracker.canonical : OnChain(c, tip)
            \/ /\ a.status = "reorg"
               /\ Number[a.tracker.head] < Number[tracker.head]
               /\ a.tracker.finalized = tracker.finalized
               /\ a.tracker.head \in a.tracker.canonical
               /\ OnChain(a.tracker.head, tracker.head)
               /\ OnChain(a.tracker.head, tip) /\ OnChain(final, a.tracker.head)
               /\ \A c \in a.tracker.canonical : OnChain(c, a.tracker.head)
            \/ a.status = "join" /\ Number[tracker.head] < Number[tip]
            \/ a.status = "error"
<1>1. pc \notin Stopped /\ pc # "join" /\ LatestAnswers = {tip}
  BY DEF Polling, Stopped, LatestAnswers, OneChainEach
<1> QED
  BY <1>1, StreamBlocks, FollowFacts, HeadOnChain

\* A head polled.
LEMMA FollowPoll ==
  ASSUME IInv, FollowInv, OneChainEach, Poll
  PROVE  FollowInv'
<1> DEFINE a == UpdateHead(tracker, tip)
<1>1. Polling
  BY DEF Poll, HeadFollowed, HeadReorged, HeadReorgedAhead, HeadNeedsJoin, HeadFails
<1>2. /\ pc \notin Stopped /\ pc # "join" /\ LatestAnswers = {tip}
      /\ \/ /\ a.status \in {"unchanged", "success"}
            /\ a.tracker.head = tip /\ a.tracker.finalized = tracker.finalized
            /\ tip \in a.tracker.canonical
            /\ \A c \in a.tracker.canonical : OnChain(c, tip)
         \/ /\ a.status = "reorg"
            /\ a.tracker.finalized = tracker.finalized
            /\ a.tracker.head \in a.tracker.canonical
            /\ OnChain(a.tracker.head, tip) /\ OnChain(final, a.tracker.head)
            /\ \A c \in a.tracker.canonical : OnChain(c, a.tracker.head)
         \/ a.status = "join" /\ Number[tracker.head] < Number[tip]
         \/ a.status = "error"
  BY <1>1, PolledHead
<1> HIDE DEF a
<1>3. CASE HeadFollowed
  <2>1. /\ a.status \in {"unchanged", "success"} /\ tracker' = a.tracker
        /\ pc' \in {"liveBlocks", "loop"} /\ UNCHANGED <<tip, final>>
    BY <1>2, <1>3 DEF HeadFollowed, a, EndIteration, node
  <2> QED
    BY <1>2, <2>1, StreamBlocks, FollowMoved DEF FollowInv
<1>4. CASE HeadReorged \/ HeadReorgedAhead
  <2>1. /\ a.status = "reorg" /\ tracker' = a.tracker
        /\ pc' \in {"liveBlocks", "loop", "wait"} /\ UNCHANGED <<tip, final>>
    BY <1>1, <1>2, <1>4
       DEF HeadReorged, HeadReorgedAhead, Polling, a, EndIteration, node
  <2>2. Number[a.tracker.head] <= Number[tip]
    BY <1>2, <2>1 DEF OnChain
  <2> QED
    BY <1>2, <2>1, <2>2, FollowMoved
<1>5. CASE HeadNeedsJoin
  <2>1. /\ a.status = "join" /\ pc' = "join"
        /\ joining' = [target |-> tip, from |-> Number[tracker.head] + 1, caller |-> pc]
        /\ UNCHANGED <<tip, final, tracker>>
    BY <1>2, <1>5 DEF HeadNeedsJoin, Quiet, node, a
  <2>2. Number[tracker.head] < Number[tip]
    BY <1>2, <2>1
  <2>3. FollowTracker'
    BY <1>2, <2>1, FollowFacts DEF FollowTracker
  <2>4. FollowJoin'
    BY <2>1, <2>2, StreamBlocks DEF FollowJoin
  <2> QED
    BY <2>1, <2>3, <2>4 DEF FollowInv
<1>6. CASE HeadFails
  <2>1. pc' = "error" /\ UNCHANGED <<tip, final, tracker>>
    BY <1>6 DEF HeadFails, Fail, node
  <2> QED
    BY <2>1, FollowKept DEF Stopped
<1> QED
  BY <1>3, <1>4, <1>5, <1>6 DEF Poll

\* A batch of a join.
LEMMA JoinedBatch ==
  ASSUME IInv, FollowInv, pc = "join",
         NEW a, a = JoinBatch(tracker, joining.target, joining.from, tip)
  PROVE  \/ a.status = "error"
         \/ /\ a.status = "success" /\ OnChain(tracker.head, tip)
            /\ a.tracker.head = tip /\ a.tracker.finalized = tracker.finalized
            /\ tip \in a.tracker.canonical
            /\ \A c \in a.tracker.canonical : OnChain(c, tip)
         \/ /\ a.status = "join" /\ OnChain(tracker.head, tip)
            /\ a.tracker.head = tracker.head
            /\ a.tracker.finalized = tracker.finalized
            /\ tracker.head \in a.tracker.canonical
            /\ \A c \in a.tracker.canonical : OnChain(c, tip)
            /\ joining.from <= JoinEnd(joining.target, joining.from)
            /\ JoinEnd(joining.target, joining.from) \in Nat
            /\ JoinEnd(joining.target, joining.from) + 1 <= Number[tip]
<1>1. /\ joining.target = tip /\ Number[tracker.head] < joining.from
      /\ joining.from <= Number[tip]
      /\ joining.from = Number[tracker.head] + 1 \/ OnChain(tracker.head, tip)
  BY DEF FollowInv, FollowJoin
<1>2. /\ pc \notin Stopped
      /\ \A c \in tracker.canonical : OnChain(c, tracker.head) \/ OnChain(c, tip)
  BY DEF FollowInv, FollowTracker, Stopped
<1>3. tracker.head \in tracker.canonical /\ OnChain(tip, tip)
  BY <1>2, StreamBlocks, FollowFacts, OnChainSelf
<1> QED
  BY <1>1, <1>2, <1>3, StreamBlocks, JoinOnChain

\* The steps of a join.
LEMMA FollowJoinStep ==
  ASSUME IInv, FollowInv, JoinFetched \/ JoinDone \/ JoinFails
  PROVE  FollowInv'
<1> DEFINE a == JoinBatch(tracker, joining.target, joining.from, tip)
           end == JoinEnd(joining.target, joining.from)
<1>1. pc = "join" /\ pc \notin Stopped
  BY DEF JoinFetched, JoinDone, JoinFails, Stopped
<1>2. \/ a.status = "error"
      \/ /\ a.status = "success" /\ OnChain(tracker.head, tip)
         /\ a.tracker.head = tip /\ a.tracker.finalized = tracker.finalized
         /\ tip \in a.tracker.canonical
         /\ \A c \in a.tracker.canonical : OnChain(c, tip)
      \/ /\ a.status = "join" /\ OnChain(tracker.head, tip)
         /\ a.tracker.head = tracker.head
         /\ a.tracker.finalized = tracker.finalized
         /\ tracker.head \in a.tracker.canonical
         /\ \A c \in a.tracker.canonical : OnChain(c, tip)
         /\ joining.from <= end /\ end \in Nat /\ end + 1 <= Number[tip]
  BY <1>1, JoinedBatch
<1> HIDE DEF a
<1>3. CASE JoinFetched
  <2>1. /\ a.status = "join" /\ tracker' = a.tracker /\ pc' = pc
        /\ joining' = [joining EXCEPT !.from = end + 1]
        /\ UNCHANGED <<tip, final>>
    BY <1>3 DEF JoinFetched, Quiet, node, a
  <2>2. /\ joining'.target = joining.target /\ joining'.from = end + 1
    BY <2>1 DEF IInv, TypeOK
  <2>3. FollowTracker'
    BY <1>1, <1>2, <2>1, FollowFacts DEF FollowTracker
  <2>4. Number[tracker.head] < end + 1 /\ joining.target = tip
    BY <1>1, <1>2, <2>1, StreamBlocks DEF FollowInv, FollowJoin
  <2>5. FollowJoin'
    BY <1>1, <1>2, <2>1, <2>2, <2>4 DEF FollowJoin
  <2> QED
    BY <2>1, <2>3, <2>5 DEF FollowInv
<1>4. CASE JoinDone
  <2>1. /\ a.status = "success" /\ tracker' = a.tracker
        /\ pc' \in {"loop", "liveBlocks"} /\ UNCHANGED <<tip, final>>
    BY <1>4 DEF JoinDone, a, EndIteration, node
  <2> QED
    BY <1>1, <1>2, <2>1, StreamBlocks, FollowMoved DEF FollowInv
<1>5. CASE JoinFails
  <2>1. pc' = "error" /\ UNCHANGED <<tip, final, tracker>>
    BY <1>5 DEF JoinFails, Fail, node
  <2> QED
    BY <2>1, FollowKept DEF Stopped
<1> QED
  BY <1>3, <1>4, <1>5

\* The steps that leave the tracker alone.
LEMMA FollowOther ==
  ASSUME IInv, FollowInv,
         \/ RejectStartingCursor \/ StopAtEnding \/ BeginIteration
         \/ RefreshFinalizedFails \/ BackfillLogs \/ BackfillBlocks \/ WaitReturns
         \/ KeepHead \/ LiveLogs \/ LiveEmpty \/ LiveEmptyFails \/ LiveBlocks
         \/ LiveBlocksFail \/ (\E t \in Timers : Elapse(t))
  PROVE  /\ FollowInv' /\ UNCHANGED <<tip, final, tracker>>
<1>1. UNCHANGED <<tip, final, tracker>>
  BY DEF RejectStartingCursor, StopAtEnding, BeginIteration, RefreshFinalizedFails,
         BackfillLogs, BackfillBlocks, WaitReturns, KeepHead, LiveLogs, LiveEmpty,
         LiveEmptyFails, LiveBlocks, LiveBlocksFail, Elapse, Fail, Quiet,
         DeliverNothing, DeliverData, EndIteration, node
<1>2. CASE RejectStartingCursor \/ RefreshFinalizedFails \/ LiveEmptyFails
           \/ LiveBlocksFail
  <2>1. pc' = "error"
    BY <1>2 DEF RejectStartingCursor, RefreshFinalizedFails, LiveEmptyFails,
                LiveBlocksFail, Fail
  <2> QED
    BY <1>1, <2>1, FollowKept DEF Stopped
<1>3. CASE \/ StopAtEnding \/ BeginIteration \/ BackfillLogs \/ BackfillBlocks
           \/ WaitReturns \/ KeepHead \/ LiveLogs \/ LiveEmpty \/ LiveBlocks
  <2>1. /\ pc \notin Stopped \union {"join", "initCursor"}
        /\ pc' \notin {"join", "initCursor"}
    BY <1>3 DEF StopAtEnding, BeginIteration, Dispatch, BackfillLogs, BackfillBlocks,
                WaitReturns, KeepHead, LiveLogs, LiveEmpty, LiveBlocks,
                DeliverNothing, DeliverData, EndIteration, Stopped
  <2> QED
    BY <1>1, <2>1, FollowKept
<1>4. CASE \E t \in Timers : Elapse(t)
  <2>1. UNCHANGED <<pc, joining>>
    BY <1>4 DEF Elapse
  <2> QED
    BY <1>1, <2>1 DEF FollowInv, FollowTracker, FollowJoin
<1> QED
  BY <1>1, <1>2, <1>3, <1>4

\* Every step keeps FollowInv.
LEMMA FollowNext ==
  ASSUME IInv, FollowInv, OneChainEach, [Next]_vars
  PROVE  FollowInv'
<1>1. CASE NodeStep
  BY <1>1, FollowNode
<1>2. CASE Initialize \/ InitializeCursor \/ RefreshFinalized
  BY <1>2, FollowInitialize, FollowRefresh
<1>3. CASE Poll
  BY <1>3, FollowPoll
<1>4. CASE JoinFetched \/ JoinDone \/ JoinFails
  BY <1>4, FollowJoinStep
<1>5. CASE \/ RejectStartingCursor \/ StopAtEnding \/ BeginIteration
           \/ RefreshFinalizedFails \/ BackfillLogs \/ BackfillBlocks \/ WaitReturns
           \/ KeepHead \/ LiveLogs \/ LiveEmpty \/ LiveEmptyFails \/ LiveBlocks
           \/ LiveBlocksFail \/ (\E t \in Timers : Elapse(t))
  BY <1>5, FollowOther
<1>6. CASE Restart
  BY <1>6 DEF Restart, FollowInv, FollowTracker, FollowJoin, Stopped, node
<1>7. CASE UNCHANGED vars
  BY <1>7 DEF vars, node, stream, consumer, FollowInv, FollowTracker, FollowJoin
<1> QED
  BY <1>1, <1>2, <1>3, <1>4, <1>5, <1>6, <1>7 DEF Next, StreamStep

\* The program starts with the genesis block as the node's chain.
LEMMA FollowInit == Init => FollowInv
<1>1. Genesis \in Block
  BY StreamAssumption DEF StreamAssumption
<1> QED
  BY <1>1, OnChainSelf DEF Init, FollowInv, FollowTracker, FollowJoin, Stopped

\* The head of the tracker is in its canonical map whenever the stream runs, and
\* the map is one chain, if every iteration sees one chain that is not shorter
\* than the one before.
THEOREM HeadCanonical == Spec /\ OneChainEach => []HeadIsCanonical
<1> SUFFICES ASSUME OneChainEach PROVE Spec => []HeadIsCanonical
  OBVIOUS
<1>1. IInv /\ FollowInv /\ [Next]_vars => FollowInv'
  BY FollowNext
<1>2. FollowInv => HeadIsCanonical
  BY DEF FollowInv, FollowTracker, HeadIsCanonical
<1> QED
  BY <1>1, <1>2, FollowInit, Invariance, PTL DEF Spec

-----------------------------------------------------------------------------
\* What an iteration fetches, when it sees one chain: blocks with their own logs.

OwnLogs(v) == \A h \in v.held : h.logs \in {h.block, NoBlock}

FetchInv ==
  /\ pc \in {"backfillHeaders", "liveHeaders"} =>
       request.logs = LogsIn(request.from, request.to)
  /\ pc = "liveHeaders" /\ HeaderAlways => request.from <= request.to
  /\ pc = "initCursor" => lastEmpty = -1
  /\ pc = "done" => Ending # NoEnding /\ Ending <= cursor
  /\ pc \in {"loop", "done", "error"} => view = client
  /\ OwnLogs(view) /\ OwnLogs(client)

\* What a set of messages adds to what the consumer holds.
Items(msgs) == {[block |-> m.block, logs |-> m.logs] : m \in msgs}

\* Every block of a range is fetched with its own logs, and every block with logs
\* of the chain of the node is among them.
LEMMA FetchedItems ==
  ASSUME IInv, FetchInv, ~HeadersMissing(request),
         pc \in {"backfillHeaders", "liveHeaders"},
         NEW finality \in {"accepted", "finalized"}
  PROVE  /\ \A h \in Items(FetchedData(request, finality)) :
              /\ h.block \in Block /\ OnChain(h.block, tip)
              /\ Number[h.block] \in request.from .. request.to
              /\ h.logs \in {h.block, NoBlock}
         /\ \A b \in Matching : OnChain(b, tip) /\ Number[b] \in request.from .. request.to =>
              [block |-> b, logs |-> b] \in Items(FetchedData(request, finality))
         /\ HeaderAlways => \A n \in request.from .. request.to :
              \E m \in FetchedData(request, finality) : m.block = At[tip][n]
<1>1. request.logs = {b \in Matching : OnChain(b, tip)
                                       /\ Number[b] \in request.from .. request.to}
  BY DEF FetchInv, LogsIn
<1>2. ASSUME NEW n
      PROVE  LogsAt(request, n) \in {At[tip][n], NoBlock}
  <2>1. CASE \E b \in request.logs : Number[b] = n
    <3>1. LogsAt(request, n) \in request.logs /\ Number[LogsAt(request, n)] = n
      BY <2>1 DEF LogsAt
    <3> QED
      BY <1>1, <3>1 DEF OnChain
  <2>2. CASE ~\E b \in request.logs : Number[b] = n
    BY <2>2 DEF LogsAt
  <2> QED
    BY <2>1, <2>2
<1>3. ASSUME NEW m \in FetchedData(request, finality)
      PROVE  m.logs \in {m.block, NoBlock}
  <2>1. PICK n \in HeaderNumbers(request) :
          m = Data(At[tip][n], LogsAt(request, n), finality)
    BY DEF FetchedData
  <2>2. m.block = At[tip][n] /\ m.logs = LogsAt(request, n)
    BY <2>1 DEF Data
  <2> QED
    BY <1>2, <2>2
<1>4. ASSUME NEW h \in Items(FetchedData(request, finality))
      PROVE  /\ h.block \in Block /\ OnChain(h.block, tip)
             /\ Number[h.block] \in request.from .. request.to
             /\ h.logs \in {h.block, NoBlock}
  <2>1. PICK m \in FetchedData(request, finality) :
          h = [block |-> m.block, logs |-> m.logs]
    BY DEF Items
  <2> QED
    BY <2>1, <1>3, FetchedOnChain
<1>5. ASSUME NEW b \in Matching, OnChain(b, tip), Number[b] \in request.from .. request.to
      PROVE  [block |-> b, logs |-> b] \in Items(FetchedData(request, finality))
  <2> DEFINE n == Number[b]
             m == Data(At[tip][n], LogsAt(request, n), finality)
  <2>1. b \in request.logs
    BY <1>1, <1>5
  <2>2. n \in HeaderNumbers(request)
    BY <1>5, <2>1 DEF HeaderNumbers
  <2>3. At[tip][n] = b /\ b # NoBlock
    BY <1>5, StreamBlocks, StreamAssumption DEF OnChain, StreamAssumption
  <2>4. LogsAt(request, n) = b
    <3>1. LogsAt(request, n) \in request.logs /\ Number[LogsAt(request, n)] = n
      BY <2>1 DEF LogsAt
    <3> QED
      BY <1>1, <2>3, <3>1 DEF OnChain
  <2>5. m \in FetchedData(request, finality)
    BY <2>2 DEF FetchedData
  <2>6. m.block = b /\ m.logs = b
    BY <2>3, <2>4 DEF Data
  <2> HIDE DEF m
  <2> QED
    BY <2>5, <2>6 DEF Items
<1>6. ASSUME HeaderAlways, NEW n \in request.from .. request.to
      PROVE  \E m \in FetchedData(request, finality) : m.block = At[tip][n]
  <2> DEFINE m == Data(At[tip][n], LogsAt(request, n), finality)
  <2>1. n \in HeaderNumbers(request)
    BY <1>6 DEF HeaderNumbers
  <2>2. m \in FetchedData(request, finality)
    BY <2>1 DEF FetchedData
  <2>3. m.block = At[tip][n]
    BY DEF Data
  <2> HIDE DEF m
  <2> QED
    BY <2>2, <2>3
<1> QED
  BY <1>4, <1>5, <1>6

-----------------------------------------------------------------------------
\* What the consumer holds, on the chain that ends in a block x.

\* No other block at the numbers of the chain.
HeldOn(v, x) ==
  \A h \in v.held : Number[h.block] <= Number[x] => OnChain(h.block, x)

\* Every block with logs after the first cursor, up to number n.
CompleteOn(v, x, n) ==
  \A b \in Matching : OnChain(b, x) /\ Number[b] \in Start + 1 .. n =>
    [block |-> b, logs |-> b] \in v.held

\* The stream works with the chain of its tracker.
Following == pc \notin {"init", "initCursor", "error"}

\* How far the stream has come: the cursor, or the last header sent by itself.
Reach == IF lastEmpty > cursor THEN lastEmpty ELSE cursor

\* Blocks of the tracker's chain for which the consumer is up to date: all of them,
\* or, when the headers of blocks without logs are not sent, so that a batch can
\* skip the place where the branches part, those the node has as well.
Shared(x) == OnChain(x, tracker.head) /\ (HeaderAlways \/ OnChain(x, tip))

ServedInv(S) ==
  Following =>
    /\ cursor <= Number[tracker.head] /\ lastEmpty <= Number[tracker.head]
    /\ HeaderAlways \/ <<tracker.head, tip>> \in S
    /\ \A h \in view.held : Number[h.block] <= Reach
    /\ \A x \in Block : Shared(x) => HeldOn(view, x) /\ CompleteOn(view, x, Reach)
    /\ pc = "wait" => IsAtHead(tracker)

\* What a consumer resumes with: one chain, that of the cursor it kept, complete
\* and, when all headers are sent, without a gap.
ChainView(v) ==
  /\ v.resume = NoBlock => v.held = {}
  /\ v.resume # NoBlock =>
       /\ \A h \in v.held : OnChain(h.block, v.resume)
       /\ CompleteOn(v, v.resume, Number[v.resume])
       /\ HeaderAlways => \A n \in Start + 1 .. Number[v.resume] :
            \E h \in v.held : h.block = At[v.resume][n]

\* When all headers are sent, the cursor the consumer keeps is the stream's.
HeadersInv ==
  HeaderAlways /\ Following =>
    /\ lastEmpty <= cursor
    /\ view.resume = NoBlock => cursor = Start /\ view.held = {}
    /\ view.resume # NoBlock =>
         OnChain(view.resume, tracker.head) /\ Number[view.resume] = cursor
    /\ \A n \in Start + 1 .. cursor :
         \E h \in view.held : h.block = At[tracker.head][n]

ResumeInv == HeaderAlways \/ pc \in {"init", "initCursor"} => ChainView(client)

-----------------------------------------------------------------------------
\* FetchInv is inductive.

\* An item fetched has its own logs, and so has the header of a block.
LEMMA OwnLogsAdded ==
  ASSUME NEW v, NEW w, OwnLogs(v), NEW items, w.held = v.held \union items,
         \A h \in items : h.logs \in {h.block, NoBlock}
  PROVE  OwnLogs(w)
BY DEF OwnLogs

\* What a fetch delivers is added to what the consumer holds.
LEMMA BackfillHeld ==
  ASSUME IInv, BackfillBlocks
  PROVE  /\ view'.held = view.held \union Items(FetchedData(request, "finalized"))
         /\ pc' = "loop" /\ view' = client' /\ cursor' = request.to
         /\ UNCHANGED <<tip, tracker, lastEmpty>>
<1>1. PICK v : EndIteration(v) /\ v.held = view.held \union Items(FetchedData(request, "finalized"))
  <2> DEFINE msgs == FetchedData(request, "finalized")
  <2>1. CASE msgs = {} /\ DeliverNothing
    <3>1. Items(msgs) = {}
      BY <2>1 DEF Items
    <3> QED
      BY <2>1, <3>1 DEF DeliverNothing
  <2>2. CASE \E last \in msgs : DeliverData(msgs, last)
    <3>1. PICK last \in msgs : EndIteration(AfterData(view, msgs, last))
      BY <2>2 DEF DeliverData
    <3>2. AfterData(view, msgs, last).held = view.held \union Items(msgs)
      BY DEF AfterData, Items
    <3> QED
      BY <3>1, <3>2
  <2> QED
    BY <2>1, <2>2 DEF BackfillBlocks
<1> QED
  BY <1>1 DEF BackfillBlocks, EndIteration, node

LEMMA LiveHeld ==
  ASSUME IInv, LiveBlocks
  PROVE  \E last \in FetchedData(request, "accepted") :
           /\ view' = AfterData(view, FetchedData(request, "accepted"), last)
           /\ view'.held = view.held \union Items(FetchedData(request, "accepted"))
           /\ view'.resume = last.block
           /\ \A m \in FetchedData(request, "accepted") :
                Number[m.block] <= Number[last.block]
           /\ cursor' = Number[last.block]
           /\ pc' = "loop" /\ view' = client'
           /\ UNCHANGED <<tip, tracker, lastEmpty>>
<1> DEFINE msgs == FetchedData(request, "accepted")
<1>1. PICK last \in msgs : DeliverData(msgs, last) /\ cursor' = Number[last.block]
  BY DEF LiveBlocks
<1>2. /\ AfterData(view, msgs, last).held = view.held \union Items(msgs)
      /\ AfterData(view, msgs, last).resume = last.block
  BY DEF AfterData, Items
<1> HIDE DEF msgs
<1>3. /\ view' = AfterData(view, msgs, last) /\ pc' = "loop" /\ view' = client'
      /\ \A m \in msgs : Number[m.block] <= Number[last.block]
      /\ UNCHANGED <<tip, tracker, lastEmpty>>
  BY <1>1 DEF DeliverData, EndIteration, node, LiveBlocks
<1> QED
  BY <1>1, <1>2, <1>3 DEF msgs

LEMMA EmptyHeld ==
  ASSUME IInv, LiveEmpty
  PROVE  /\ pc = "liveBlocks" /\ pc' = "loop" /\ view' = client'
         /\ UNCHANGED <<tip, tracker, cursor>>
         /\ LiveRangeIsEmpty
         /\ \/ /\ Number[tracker.head] > lastEmpty
               /\ view'.held = view.held \union {[block |-> tracker.head, logs |-> NoBlock]}
               /\ view'.resume = tracker.head /\ lastEmpty' = Number[tracker.head]
            \/ /\ Number[tracker.head] <= lastEmpty
               /\ view' = view /\ UNCHANGED lastEmpty
<1>1. CASE Number[tracker.head] > lastEmpty
  <2> DEFINE header == Data(tracker.head, NoBlock, "accepted")
  <2>1. DeliverData({header}, header) /\ lastEmpty' = Number[tracker.head]
    BY <1>1 DEF LiveEmpty
  <2>2. /\ AfterData(view, {header}, header).held =
             view.held \union {[block |-> tracker.head, logs |-> NoBlock]}
        /\ AfterData(view, {header}, header).resume = tracker.head
    BY DEF AfterData, Data
  <2> HIDE DEF header
  <2>3. /\ view' = AfterData(view, {header}, header) /\ pc' = "loop"
        /\ view' = client' /\ tip' = tip
    BY <2>1 DEF DeliverData, EndIteration, node
  <2> QED
    BY <1>1, <2>1, <2>2, <2>3 DEF LiveEmpty
<1>2. CASE ~(Number[tracker.head] > lastEmpty)
  <2>1. DeliverNothing /\ UNCHANGED lastEmpty
    BY <1>2 DEF LiveEmpty
  <2>2. Number[tracker.head] <= lastEmpty
    BY <1>2, StreamBlocks
  <2> QED
    BY <2>1, <2>2 DEF LiveEmpty, DeliverNothing, EndIteration, node
<1> QED
  BY <1>1, <1>2

\* Steps that fetch nothing: they end, continue or fail with what the consumer has.
LEMMA FetchKept ==
  ASSUME IInv, FetchInv,
         pc' \notin {"backfillHeaders", "liveHeaders", "initCursor", "done"},
         OwnLogs(view'), OwnLogs(client'),
         pc' \in {"loop", "error"} => view' = client'
  PROVE  FetchInv'
BY DEF FetchInv

LEMMA FetchNext ==
  ASSUME IInv, FetchInv, AtomicReads, [Next]_vars
  PROVE  FetchInv'
<1>1. OwnLogs(view) /\ OwnLogs(client)
  BY DEF FetchInv
<1>2. CASE NodeStep \/ \E t \in Timers : Elapse(t)
  <2>1. /\ UNCHANGED <<pc, request, cursor, lastEmpty, view, client>>
        /\ pc \in {"backfillHeaders", "liveHeaders"} => tip' = tip
    BY <1>2 DEF NodeStep, Extend, Reorg, FinalizeBlock, NodeMayMove, Resting, Elapse,
                Quiet, stream, node
  <2> QED
    BY <2>1 DEF FetchInv, LogsIn, OwnLogs
<1>3. CASE Initialize
  <2>1. /\ pc' \in {"initCursor", "loop"} /\ lastEmpty' = -1
        /\ UNCHANGED <<view, client>> /\ pc = "init"
    BY <1>3 DEF Initialize, Quiet
  <2>2. view = client
    BY <2>1 DEF IInv, HeldInv
  <2> QED
    BY <1>1, <2>1, <2>2 DEF FetchInv
<1>4. CASE InitializeCursor
  <2>1. pc = "initCursor" /\ pc' = "loop" /\ UNCHANGED <<view, client>>
    BY <1>4 DEF InitializeCursor, Quiet
  <2>2. view = client
    BY <2>1 DEF IInv, HeldInv
  <2> QED
    BY <1>1, <2>1, <2>2, FetchKept
<1>5. CASE \/ RejectStartingCursor \/ RefreshFinalizedFails \/ HeadFails \/ JoinFails
           \/ LiveEmptyFails \/ LiveBlocksFail \/ Restart
  <2>1. pc' \in {"error", "init"} /\ view' = client /\ client' = client
    BY <1>5 DEF RejectStartingCursor, RefreshFinalizedFails, HeadFails, JoinFails,
                LiveEmptyFails, LiveBlocksFail, Fail, Restart
  <2> QED
    BY <1>1, <2>1, FetchKept
<1>6. CASE StopAtEnding
  <2>1. /\ pc = "loop" /\ pc' = "done" /\ UNCHANGED <<view, client, cursor>>
        /\ ~ShouldContinue
    BY <1>6 DEF StopAtEnding, Quiet
  <2>2. Ending # NoEnding /\ Ending <= cursor
    BY <2>1, StreamAssumption, StreamBlocks DEF ShouldContinue, StreamAssumption
  <2> QED
    BY <1>1, <2>1, <2>2 DEF FetchInv
<1>7. CASE BeginIteration \/ KeepHead \/ HeadReorgedAhead \/ HeadNeedsJoin \/ JoinFetched
  <2>1. /\ pc' \in {"refreshFinalized", "backfill", "wait", "live", "liveBlocks", "join"}
        /\ UNCHANGED <<view, client>>
    BY <1>7 DEF BeginIteration, KeepHead, HeadReorgedAhead, HeadNeedsJoin, JoinFetched,
                Quiet, Dispatch, Polling
  <2> QED
    BY <1>1, <2>1, FetchKept
<1>8. CASE RefreshFinalized
  <2>1. /\ pc' \in {"backfill", "wait", "live"} /\ UNCHANGED client
        /\ \E f : view' = view \/ view' = AfterFinalize(view, f)
    BY <1>8 DEF RefreshFinalized, Dispatch
  <2>2. view'.held = view.held
    BY <2>1, StreamBlocks DEF AfterFinalize, View
  <2>3. OwnLogs(view')
    BY <1>1, <2>2 DEF OwnLogs
  <2> QED
    BY <1>1, <2>1, <2>3, FetchKept
<1>9. CASE BackfillLogs \/ LiveLogs
  <2>1. /\ pc' \in {"backfillHeaders", "liveHeaders"} /\ UNCHANGED <<tip, view, client>>
        /\ \E from, to, force : FetchLogs(from, to, force)
        /\ pc' = "liveHeaders" =>
             /\ FetchLogs(cursor + 1, Number[tracker.head], FALSE)
             /\ ~LiveRangeIsEmpty
    BY <1>9 DEF BackfillLogs, LiveLogs, Quiet, node
  <2>2. request'.logs = LogsIn(request'.from, request'.to)
    BY <2>1 DEF FetchLogs
  <2>3. pc' = "liveHeaders" => request'.from <= request'.to
    <3> SUFFICES ASSUME pc' = "liveHeaders" PROVE request'.from <= request'.to
      OBVIOUS
    <3>1. request'.from = cursor + 1 /\ request'.to = Number[tracker.head]
      BY <2>1 DEF FetchLogs
    <3>2. cursor + 1 .. Number[tracker.head] # {}
      BY <2>1 DEF LiveRangeIsEmpty, LiveRange
    <3> QED
      BY <3>1, <3>2, StreamBlocks
  <2>4. request'.logs = LogsIn(request.from, request.to)'
    BY <2>1, <2>2 DEF LogsIn
  <2>5. OwnLogs(view)' /\ OwnLogs(client)'
    BY <1>1, <2>1
  <2> QED
    BY <2>1, <2>3, <2>4, <2>5 DEF FetchInv
<1>10. CASE BackfillBlocks
  <2>1. /\ pc = "backfillHeaders" /\ ~HeadersMissing(request)
    BY <1>10 DEF BackfillBlocks
  <2>2. \A h \in Items(FetchedData(request, "finalized")) : h.logs \in {h.block, NoBlock}
    BY <2>1, FetchedItems
  <2>3. OwnLogs(view')
    BY <1>1, <1>10, <2>2, BackfillHeld, OwnLogsAdded
  <2> QED
    BY <1>10, <2>3, BackfillHeld, FetchKept
<1>11. CASE LiveBlocks
  <2>1. /\ pc = "liveHeaders" /\ ~HeadersMissing(request)
    BY <1>11 DEF LiveBlocks
  <2>2. \A h \in Items(FetchedData(request, "accepted")) : h.logs \in {h.block, NoBlock}
    BY <2>1, FetchedItems
  <2>3. /\ view'.held = view.held \union Items(FetchedData(request, "accepted"))
        /\ pc' = "loop" /\ view' = client'
    BY <1>11, LiveHeld
  <2>4. OwnLogs(view')
    BY <1>1, <2>2, <2>3, OwnLogsAdded
  <2> QED
    BY <2>3, <2>4, FetchKept
<1>12. CASE LiveEmpty
  <2>1. \A h \in {[block |-> tracker.head, logs |-> NoBlock]} : h.logs \in {h.block, NoBlock}
    OBVIOUS
  <2>2. OwnLogs(view')
    BY <1>1, <1>12, <2>1, EmptyHeld, OwnLogsAdded
  <2> QED
    BY <1>12, <2>2, EmptyHeld, FetchKept
<1>13. CASE HeadFollowed \/ JoinDone \/ WaitReturns
  <2>1. \/ pc' = "liveBlocks" /\ UNCHANGED <<view, client>>
        \/ pc' = "loop" /\ view' = view /\ client' = view
    BY <1>13 DEF HeadFollowed, JoinDone, WaitReturns, DeliverNothing, EndIteration
  <2> QED
    BY <1>1, <2>1, FetchKept
<1>14. CASE HeadReorged
  <2>1. PICK b : /\ view' = AfterInvalidate(view, b)
                 /\ \/ pc' = "loop" /\ client' = view'
                    \/ pc' = "wait" /\ client' = client
    BY <1>14 DEF HeadReorged, EndIteration, Polling
  <2>2. view'.held \subseteq view.held
    BY <2>1, StreamBlocks DEF AfterInvalidate, View
  <2>3. OwnLogs(view')
    BY <1>1, <2>2 DEF OwnLogs
  <2> QED
    BY <1>1, <2>1, <2>3, FetchKept
<1>15. CASE UNCHANGED vars
  BY <1>15 DEF vars, node, stream, consumer, FetchInv, LogsIn, OwnLogs
<1> QED
  BY <1>2, <1>3, <1>4, <1>5, <1>6, <1>7, <1>8, <1>9, <1>10, <1>11, <1>12, <1>13,
     <1>14, <1>15
     DEF Next, StreamStep, Poll

LEMMA FetchInit == Init => FetchInv
BY DEF Init, FetchInv, OwnLogs, EmptyView

-----------------------------------------------------------------------------
\* What the stream has served: the steps that send nothing.

\* The cursor and the last header sent by itself are not above the reach.
LEMMA ReachBounds ==
  ASSUME IInv
  PROVE  /\ Reach \in Nat \union {-1} /\ cursor <= Reach /\ lastEmpty <= Reach
         /\ Reach \in {cursor, lastEmpty}
BY StreamBlocks DEF Reach

\* Steps that leave the head, the cursor and the data alone.
LEMMA ServedKept ==
  ASSUME IInv, NEW S, ServedInv(S),
         \/ pc' \in {"init", "initCursor", "error"}
         \/ /\ Following /\ UNCHANGED <<tip, cursor, lastEmpty>>
            /\ tracker'.head = tracker.head /\ view'.held = view.held
            /\ pc' = "wait" => Number[tracker.head] \in {cursor, lastEmpty}
  PROVE  ServedInv(S)'
<1>1. CASE pc' \in {"init", "initCursor", "error"}
  BY <1>1 DEF ServedInv, Following
<1>2. CASE /\ Following /\ UNCHANGED <<tip, cursor, lastEmpty>>
           /\ tracker'.head = tracker.head /\ view'.held = view.held
           /\ pc' = "wait" => Number[tracker.head] \in {cursor, lastEmpty}
  <2>1. /\ cursor <= Number[tracker.head] /\ lastEmpty <= Number[tracker.head]
        /\ HeaderAlways \/ <<tracker.head, tip>> \in S
        /\ \A h \in view.held : Number[h.block] <= Reach
        /\ \A x \in Block : Shared(x) => HeldOn(view, x) /\ CompleteOn(view, x, Reach)
    BY <1>2 DEF ServedInv
  <2>2. Reach' = Reach
    BY <1>2 DEF Reach
  <2>3. \A x \in Block : Shared(x)' <=> Shared(x)
    BY <1>2 DEF Shared
  <2>4. \A x \in Block : /\ HeldOn(view, x)' <=> HeldOn(view, x)
                         /\ CompleteOn(view, x, Reach)' <=> CompleteOn(view, x, Reach)
    BY <1>2, <2>2 DEF HeldOn, CompleteOn
  <2>5. (pc = "wait" => IsAtHead(tracker))'
    BY <1>2 DEF IsAtHead
  <2> QED
    BY <1>2, <2>1, <2>2, <2>3, <2>4, <2>5 DEF ServedInv
<1> QED
  BY <1>1, <1>2

\* The node moves: a block both branches share was on the chain of the node.
LEMMA ServedNode ==
  ASSUME IInv, FollowInv, OneChainEach, NEW S, HeaderAlways \/ OneWay(S),
         ServedInv(S), NodeStep
  PROVE  ServedInv(S)'
<1>1. /\ UNCHANGED <<pc, tracker, view, cursor, lastEmpty>> /\ tip' \in Block
      /\ \/ tip' = tip
         \/ Number[tip'] = Number[tip] + 1 /\ Parent(tip') = tip
         \/ Switch(tip, tip')
  <2>1. UNCHANGED <<cursor, lastEmpty>>
    BY DEF NodeStep, Extend, Reorg, FinalizeBlock, stream
  <2> QED
    BY <2>1, FollowNode
<1> SUFFICES ASSUME Following PROVE ServedInv(S)'
  BY <1>1 DEF ServedInv, Following
<1>2. /\ cursor <= Number[tracker.head] /\ lastEmpty <= Number[tracker.head]
      /\ HeaderAlways \/ <<tracker.head, tip>> \in S
      /\ \A h \in view.held : Number[h.block] <= Reach
      /\ \A x \in Block : Shared(x) => HeldOn(view, x) /\ CompleteOn(view, x, Reach)
      /\ pc = "wait" => IsAtHead(tracker)
  BY DEF ServedInv
<1>3. /\ HeaderAlways \/ <<tracker.head, tip'>> \in S
      /\ \A x \in Block : Shared(x)' => Shared(x)
  <2>1. CASE HeaderAlways \/ tip' = tip
    BY <1>1, <1>2, <2>1 DEF Shared
  <2>2. CASE ~HeaderAlways /\ tip' # tip
    <3>1. <<tracker.head, tip>> \in S /\ OneWay(S)
      BY <1>2, <2>2
    <3>2. /\ <<tracker.head, tip'>> \in S
          /\ \A x \in Block : OnChain(x, tracker.head) /\ OnChain(x, tip') => OnChain(x, tip)
      BY <1>1, <2>2, <3>1, StreamBlocks DEF OneWay
    <3> QED
      BY <1>1, <3>2 DEF Shared
  <2> QED
    BY <2>1, <2>2
<1>4. Reach' = Reach
  BY <1>1 DEF Reach
<1>5. \A x \in Block : /\ HeldOn(view, x)' <=> HeldOn(view, x)
                       /\ CompleteOn(view, x, Reach)' <=> CompleteOn(view, x, Reach)
  BY <1>1, <1>4 DEF HeldOn, CompleteOn
<1>6. IsAtHead(tracker)' <=> IsAtHead(tracker)
  BY <1>1 DEF IsAtHead
<1> QED
  BY <1>1, <1>2, <1>3, <1>4, <1>5, <1>6 DEF ServedInv

\* The head moves up to that of the node, on its chain: there is nothing yet above
\* the head it had.
LEMMA ServedUp ==
  ASSUME IInv, NEW S, HeaderAlways \/ OneWay(S), ServedInv(S), Following,
         OnChain(tracker.head, tip), tracker'.head = tip, view'.held = view.held,
         UNCHANGED <<tip, cursor, lastEmpty>>, pc' # "wait"
  PROVE  ServedInv(S)'
<1>1. /\ cursor <= Number[tracker.head] /\ lastEmpty <= Number[tracker.head]
      /\ \A h \in view.held : Number[h.block] <= Reach
      /\ \A x \in Block : Shared(x) => HeldOn(view, x) /\ CompleteOn(view, x, Reach)
  BY DEF ServedInv
<1>2. Reach' = Reach /\ Reach <= Number[tracker.head] /\ Reach \in Nat \union {-1}
  BY <1>1, ReachBounds DEF Reach
<1>3. Number[tracker.head] <= Number[tip]
  BY DEF OnChain
<1>4. HeaderAlways \/ <<tip, tip>> \in S
  BY StreamBlocks, OnChainSelf DEF OneWay
<1>5. HeldOn(view, tracker.head) /\ CompleteOn(view, tracker.head, Reach)
  BY <1>1, StreamBlocks, OnChainSelf DEF Shared
<1>6. \A h \in view.held : h.block \in Block
  BY StreamBlocks DEF View, Item
<1>7. ASSUME NEW x \in Block, OnChain(x, tip)
      PROVE  HeldOn(view, x) /\ CompleteOn(view, x, Reach)
  <2>1. ASSUME NEW h \in view.held, Number[h.block] <= Number[x]
        PROVE  OnChain(h.block, x)
    <3>1. OnChain(h.block, tracker.head)
      BY <1>1, <1>2, <1>5, <1>6, StreamBlocks, NumberNat DEF HeldOn
    <3>2. OnChain(h.block, tip)
      BY <1>6, <3>1, StreamBlocks, OnChainTransitive
    <3> QED
      BY <1>6, <1>7, <2>1, <3>2, StreamBlocks, OnChainOrdered
  <2>2. ASSUME NEW b \in Matching, OnChain(b, x), Number[b] \in Start + 1 .. Reach
        PROVE  [block |-> b, logs |-> b] \in view.held
    <3>1. b \in Block /\ Number[b] \in Nat /\ Start \in Int
      BY StreamAssumption, NumberNat DEF StreamAssumption
    <3>2. OnChain(b, tip)
      BY <1>7, <2>2, <3>1, StreamBlocks, OnChainTransitive
    <3>3. OnChain(b, tracker.head)
      BY <1>2, <2>2, <3>1, <3>2, StreamBlocks, OnChainOrdered
    <3> QED
      BY <1>5, <2>2, <3>3 DEF CompleteOn
  <2> QED
    BY <2>1, <2>2 DEF HeldOn, CompleteOn
<1>8. ASSUME NEW x \in Block, Shared(x)'
      PROVE  HeldOn(view, x)' /\ CompleteOn(view, x, Reach)'
  <2>1. OnChain(x, tip)
    BY <1>8 DEF Shared
  <2> QED
    BY <1>2, <1>7, <2>1 DEF HeldOn, CompleteOn
<1>9. /\ cursor <= Number[tip] /\ lastEmpty <= Number[tip]
  BY <1>1, <1>3, StreamBlocks
<1> QED
  BY <1>1, <1>2, <1>4, <1>8, <1>9 DEF ServedInv

\* The head moves down to a block of both chains: what was sent above it is
\* invalidated, unless nothing was.
LEMMA ServedDown ==
  ASSUME IInv, NEW S, HeaderAlways \/ OneWay(S), ServedInv(S), Following,
         NEW b \in Block, OnChain(b, tracker.head), OnChain(b, tip),
         tracker'.head = b, UNCHANGED tip,
         \/ /\ Number[b] < Reach /\ cursor' = Number[b] /\ lastEmpty' = -1
            /\ view'.held = {h \in view.held : Number[h.block] <= Number[b]}
         \/ /\ Reach <= Number[b] /\ UNCHANGED <<cursor, lastEmpty>>
            /\ view'.held = view.held /\ pc' # "wait"
  PROVE  ServedInv(S)'
<1>1. /\ \A h \in view.held : Number[h.block] <= Reach
      /\ \A x \in Block : Shared(x) => HeldOn(view, x) /\ CompleteOn(view, x, Reach)
  BY DEF ServedInv
<1>2. Number[b] \in Nat /\ (HeaderAlways \/ <<b, tip>> \in S)
  BY StreamBlocks, NumberNat DEF OneWay
<1>3. \A h \in view.held : Number[h.block] \in Nat
  BY StreamBlocks, NumberNat DEF View, Item
<1>4. /\ Reach' <= Reach /\ Reach' \in Nat \union {-1} /\ Reach' <= Number[b]
      /\ cursor' <= Number[b] /\ lastEmpty' <= Number[b]
      /\ pc' = "wait" => Number[b] \in {cursor', lastEmpty'}
  BY <1>2, StreamBlocks, ReachBounds DEF Reach
<1>5. \A h \in view'.held : h \in view.held /\ Number[h.block] <= Reach'
  BY <1>1, <1>2, <1>3 DEF Reach
<1>6. ASSUME NEW h \in view.held, Number[h.block] <= Reach'
      PROVE  h \in view'.held
  BY <1>3, <1>4, <1>6, <1>2
<1>7. ASSUME NEW x \in Block, Shared(x)'
      PROVE  HeldOn(view', x) /\ CompleteOn(view', x, Reach')
  <2>1. OnChain(x, b) /\ OnChain(x, tracker.head) /\ OnChain(x, tip)
    BY <1>7, StreamBlocks, OnChainTransitive DEF Shared
  <2>2. HeldOn(view, x) /\ CompleteOn(view, x, Reach)
    BY <1>1, <2>1 DEF Shared
  <2>3. HeldOn(view', x)
    BY <1>5, <2>2 DEF HeldOn
  <2>4. ASSUME NEW m \in Matching, OnChain(m, x), Number[m] \in Start + 1 .. Reach'
        PROVE  [block |-> m, logs |-> m] \in view'.held
    <3>1. Number[m] \in Nat /\ Start \in Int
      BY StreamAssumption, NumberNat DEF StreamAssumption
    <3>2. [block |-> m, logs |-> m] \in view.held
      BY <1>4, <2>2, <2>4, <3>1, ReachBounds DEF CompleteOn
    <3> QED
      BY <1>6, <2>4, <3>2
  <2> QED
    BY <2>3, <2>4 DEF CompleteOn
<1>8. \A x \in Block : Shared(x)' => HeldOn(view, x)' /\ CompleteOn(view, x, Reach)'
  BY <1>7 DEF HeldOn, CompleteOn
<1>9. (pc = "wait" => IsAtHead(tracker))'
  BY <1>4 DEF IsAtHead
<1> QED
  BY <1>2, <1>4, <1>5, <1>8, <1>9 DEF ServedInv

\* Blocks are delivered: each is on every chain the consumer is up to date for and
\* that reaches as far, and no block with logs is missing.
LEMMA ServedMore ==
  ASSUME IInv, NEW S, ServedInv(S), Following, UNCHANGED tip,
         tracker'.head = tracker.head, pc' # "wait",
         cursor' \in Nat \union {-1}, lastEmpty' \in Nat \union {-1},
         cursor' <= Number[tracker.head], lastEmpty' <= Number[tracker.head],
         Reach <= Reach',
         NEW items, view'.held = view.held \union items,
         \A h \in items : h.block \in Block /\ Number[h.block] <= Reach',
         \A x \in Block : Shared(x) =>
           /\ \A h \in items : Number[h.block] <= Number[x] => OnChain(h.block, x)
           /\ \A b \in Matching : OnChain(b, x) /\ Reach < Number[b] /\ Number[b] <= Reach' =>
                [block |-> b, logs |-> b] \in items
  PROVE  ServedInv(S)'
<1>1. /\ HeaderAlways \/ <<tracker.head, tip>> \in S
      /\ \A h \in view.held : Number[h.block] <= Reach
      /\ \A x \in Block : Shared(x) => HeldOn(view, x) /\ CompleteOn(view, x, Reach)
  BY DEF ServedInv
<1>2. \A h \in view.held : Number[h.block] \in Nat
  BY StreamBlocks, NumberNat DEF View, Item
<1>3. Reach \in Int /\ Reach' \in Int
  BY ReachBounds DEF Reach
<1>4. \A h \in view'.held : Number[h.block] <= Reach'
  BY <1>1, <1>2, <1>3
<1>5. ASSUME NEW x \in Block, Shared(x)
      PROVE  HeldOn(view', x) /\ CompleteOn(view', x, Reach')
  <2>1. HeldOn(view, x) /\ CompleteOn(view, x, Reach)
    BY <1>1, <1>5
  <2>2. HeldOn(view', x)
    BY <1>5, <2>1 DEF HeldOn
  <2>3. ASSUME NEW b \in Matching, OnChain(b, x), Number[b] \in Start + 1 .. Reach'
        PROVE  [block |-> b, logs |-> b] \in view'.held
    <3>1. Number[b] \in Nat /\ Start \in Int
      BY StreamAssumption, NumberNat DEF StreamAssumption
    <3>2. CASE Number[b] <= Reach
      <4>1. Number[b] \in Start + 1 .. Reach
        BY <1>3, <2>3, <3>1, <3>2
      <4> QED
        BY <2>1, <2>3, <4>1 DEF CompleteOn
    <3>3. CASE Reach < Number[b]
      BY <1>3, <1>5, <2>3, <3>1, <3>3
    <3> QED
      BY <1>3, <3>1, <3>2, <3>3
  <2> QED
    BY <2>2, <2>3 DEF CompleteOn
<1>6. \A x \in Block : Shared(x)' => HeldOn(view, x)' /\ CompleteOn(view, x, Reach)'
  BY <1>5 DEF Shared, HeldOn, CompleteOn
<1> QED
  BY <1>1, <1>4, <1>6 DEF ServedInv

-----------------------------------------------------------------------------
\* What the stream has served: the steps that send blocks.

\* A backfill delivers blocks up to the finalized block, which is on the chain of
\* the tracker and on that of the node.
LEMMA ServedBackfill ==
  ASSUME IInv, FollowInv, FetchInv, NEW S, ServedInv(S), BackfillBlocks
  PROVE  ServedInv(S)'
<1> DEFINE items == Items(FetchedData(request, "finalized"))
           f == tracker.finalized
<1>1. /\ pc = "backfillHeaders" /\ ~HeadersMissing(request)
      /\ view'.held = view.held \union items /\ pc' = "loop"
      /\ cursor' = request.to /\ UNCHANGED <<tip, tracker, lastEmpty>>
  BY BackfillHeld DEF BackfillBlocks
<1>2. /\ request.from = cursor + 1 /\ cursor < request.to /\ request.to <= Number[f]
      /\ request.to \in Nat
  BY <1>1 DEF IInv, TypeOK, RequestInv, Request
<1>3. /\ f \in Block /\ OnChain(f, tracker.head) /\ OnChain(f, tip)
      /\ Number[f] <= Number[tracker.head]
  BY <1>1, StreamBlocks, FollowFacts DEF Stopped
<1>4. /\ \A h \in items : /\ h.block \in Block /\ OnChain(h.block, tip)
                          /\ Number[h.block] \in request.from .. request.to
      /\ \A b \in Matching : OnChain(b, tip) /\ Number[b] \in request.from .. request.to =>
           [block |-> b, logs |-> b] \in items
  BY <1>1, FetchedItems
<1> HIDE DEF items
<1>5. Following /\ lastEmpty <= Number[tracker.head]
  BY <1>1 DEF Following, ServedInv
<1>6. cursor' \in Nat \union {-1} /\ cursor' <= Number[tracker.head]
  BY <1>1, <1>2, <1>3, StreamBlocks
<1>7. /\ Reach <= Reach' /\ request.to <= Reach' /\ Reach' \in Int
      /\ Reach < Reach' => Reach' = request.to
  BY <1>1, <1>2, StreamBlocks DEF Reach
<1>8. \A h \in items : h.block \in Block /\ Number[h.block] <= Reach'
  BY <1>1, <1>2, <1>4, <1>7, StreamBlocks DEF Reach
<1>9. ASSUME NEW x \in Block, Shared(x)
      PROVE  /\ \A h \in items : Number[h.block] <= Number[x] => OnChain(h.block, x)
             /\ \A b \in Matching : OnChain(b, x) /\ Reach < Number[b] /\ Number[b] <= Reach' =>
                  [block |-> b, logs |-> b] \in items
  <2>1. OnChain(x, tracker.head)
    BY <1>9 DEF Shared
  <2>2. ASSUME NEW h \in items, Number[h.block] <= Number[x]
        PROVE  OnChain(h.block, x)
    <3>1. h.block \in Block /\ OnChain(h.block, f)
      BY <1>2, <1>3, <1>4, StreamBlocks, OnChainOrdered
    <3>2. OnChain(h.block, tracker.head)
      BY <1>3, <3>1, StreamBlocks, OnChainTransitive
    <3> QED
      BY <1>9, <2>1, <2>2, <3>1, <3>2, StreamBlocks, OnChainOrdered
  <2>3. ASSUME NEW b \in Matching, OnChain(b, x), Reach < Number[b], Number[b] <= Reach'
        PROVE  [block |-> b, logs |-> b] \in items
    <3>1. b \in Block /\ Number[b] \in Nat
      BY StreamAssumption, NumberNat DEF StreamAssumption
    <3>2. Number[b] \in request.from .. request.to
      BY <1>2, <1>7, <2>3, <3>1, StreamBlocks, ReachBounds
    <3>3. OnChain(b, tracker.head)
      BY <1>9, <2>1, <2>3, <3>1, StreamBlocks, OnChainTransitive
    <3>4. OnChain(b, f)
      BY <1>2, <1>3, <3>1, <3>2, <3>3, StreamBlocks, OnChainOrdered
    <3>5. OnChain(b, tip)
      BY <1>3, <3>1, <3>4, StreamBlocks, OnChainTransitive
    <3> QED
      BY <1>4, <3>2, <3>5
  <2> QED
    BY <2>2, <2>3
<1> QED
  BY <1>1, <1>5, <1>6, <1>7, <1>8, <1>9, StreamBlocks, ServedMore

\* When all headers are fetched, that of the head is, and the check of the fetched
\* blocks against the canonical map finds the head on the node's chain.
LEMMA LiveHeadOnChain ==
  ASSUME IInv, FollowInv, FetchInv, HeaderAlways, LiveBlocks
  PROVE  /\ OnChain(tracker.head, tip)
         /\ request.to = Number[tracker.head] /\ request.from <= request.to
         /\ request.from = cursor + 1
<1>1. /\ pc = "liveHeaders" /\ ~HeadersMissing(request)
      /\ \A n \in HeaderNumbers(request) : IsCanonical(tracker, At[tip][n])
  BY DEF LiveBlocks
<1>2. /\ request.to = Number[tracker.head] /\ request.from <= request.to
      /\ request.from \in Nat /\ request.to \in Nat /\ request.from = cursor + 1
  BY <1>1 DEF IInv, TypeOK, CursorInv, RequestInv, FetchInv, Request
<1>3. request.to \in HeaderNumbers(request)
  BY <1>2 DEF HeaderNumbers
<1>4. request.to \in 0 .. Number[tip]
  BY <1>1, <1>2, <1>3, StreamBlocks DEF HeadersMissing
<1>5. Number[At[tip][request.to]] = request.to
  BY <1>4, StreamBlocks, AncestorOnChain
<1>6. tracker.head \in tracker.canonical
  BY <1>1, FollowFacts DEF Stopped
<1>7. tracker.head = At[tip][request.to]
  BY <1>1, <1>2, <1>3, <1>5, <1>6 DEF IsCanonical
<1> QED
  BY <1>2, <1>4, <1>7 DEF OnChain

\* Live blocks are on the chain of the node.
LEMMA ServedLive ==
  ASSUME IInv, FollowInv, FetchInv, NEW S, ServedInv(S), LiveBlocks
  PROVE  ServedInv(S)'
<1> DEFINE msgs == FetchedData(request, "accepted")
           items == Items(msgs)
<1>1. PICK last \in msgs :
        /\ view'.held = view.held \union items
        /\ \A m \in msgs : Number[m.block] <= Number[last.block]
        /\ cursor' = Number[last.block] /\ pc' = "loop"
        /\ UNCHANGED <<tip, tracker, lastEmpty>>
  BY LiveHeld
<1>2. pc = "liveHeaders" /\ ~HeadersMissing(request)
  BY DEF LiveBlocks
<1>3. /\ request.from = cursor + 1 /\ request.to = Number[tracker.head]
      /\ request.from \in Nat /\ request.to \in Nat
  BY <1>2 DEF IInv, TypeOK, CursorInv, RequestInv, Request
<1>4. /\ \A h \in items : /\ h.block \in Block /\ OnChain(h.block, tip)
                          /\ Number[h.block] \in request.from .. request.to
      /\ \A b \in Matching : OnChain(b, tip) /\ Number[b] \in request.from .. request.to =>
           [block |-> b, logs |-> b] \in items
  BY <1>2, FetchedItems
<1>5. last.block \in Block /\ Number[last.block] \in request.from .. request.to
  BY <1>1, <1>2, FetchedOnChain
<1>6. ASSUME NEW b \in Matching, [block |-> b, logs |-> b] \in items
      PROVE  Number[b] <= Number[last.block]
  <2>1. PICK m \in msgs : [block |-> b, logs |-> b] = [block |-> m.block, logs |-> m.logs]
    BY <1>6 DEF Items
  <2> QED
    BY <1>1, <2>1
<1>7. \A h \in items : Number[h.block] <= Number[last.block]
  BY <1>1 DEF Items
<1> HIDE DEF items, msgs
<1>8. Following /\ lastEmpty <= Number[tracker.head]
  BY <1>2 DEF Following, ServedInv
<1>9. /\ cursor' \in Nat \union {-1} /\ cursor' <= Number[tracker.head]
      /\ cursor < cursor' /\ cursor' <= request.to
  BY <1>1, <1>3, <1>5, StreamBlocks
<1>10. /\ Reach <= Reach' /\ cursor' <= Reach' /\ Reach' \in Int
       /\ Reach < Reach' => Reach' = cursor'
  BY <1>1, <1>9, StreamBlocks DEF Reach
<1>11. \A h \in items : h.block \in Block /\ Number[h.block] <= Reach'
  BY <1>1, <1>4, <1>5, <1>7, <1>9, <1>10, NumberNat
<1>12. ASSUME NEW x \in Block, Shared(x)
       PROVE  /\ \A h \in items : Number[h.block] <= Number[x] => OnChain(h.block, x)
              /\ \A b \in Matching : OnChain(b, x) /\ Reach < Number[b] /\ Number[b] <= Reach' =>
                   [block |-> b, logs |-> b] \in items
  <2>1. OnChain(x, tip)
    <3>1. CASE HeaderAlways
      <4>1. OnChain(tracker.head, tip)
        BY <3>1, LiveHeadOnChain
      <4> QED
        BY <1>12, <4>1, StreamBlocks, OnChainTransitive DEF Shared
    <3>2. CASE ~HeaderAlways
      BY <1>12, <3>2 DEF Shared
    <3> QED
      BY <3>1, <3>2
  <2>2. ASSUME NEW h \in items, Number[h.block] <= Number[x]
        PROVE  OnChain(h.block, x)
    BY <1>4, <1>12, <2>1, <2>2, StreamBlocks, OnChainOrdered
  <2>3. ASSUME NEW b \in Matching, OnChain(b, x), Reach < Number[b], Number[b] <= Reach'
        PROVE  [block |-> b, logs |-> b] \in items
    <3>1. b \in Block /\ Number[b] \in Nat
      BY StreamAssumption, NumberNat DEF StreamAssumption
    <3>2. OnChain(b, tip)
      BY <1>12, <2>1, <2>3, <3>1, StreamBlocks, OnChainTransitive
    <3>3. Number[b] \in request.from .. request.to
      BY <1>3, <1>9, <1>10, <2>3, <3>1, StreamBlocks, ReachBounds
    <3> QED
      BY <1>4, <3>2, <3>3
  <2> QED
    BY <2>2, <2>3
<1> QED
  BY <1>1, <1>8, <1>9, <1>10, <1>11, <1>12, StreamBlocks, ServedMore

\* The header of the head, sent by itself: no block with logs is left below it on
\* a chain the node has as well.
LEMMA ServedEmpty ==
  ASSUME IInv, NEW S, ServedInv(S), LiveEmpty
  PROVE  ServedInv(S)'
<1>1. /\ pc = "liveBlocks" /\ pc' = "loop" /\ UNCHANGED <<tip, tracker, cursor>>
      /\ LiveRangeIsEmpty
  BY EmptyHeld
<1>2. Following /\ cursor <= Number[tracker.head]
  BY <1>1 DEF Following, ServedInv
<1>3. CASE Number[tracker.head] <= lastEmpty
  <2>1. view' = view /\ UNCHANGED lastEmpty
    BY <1>3, StreamBlocks, EmptyHeld
  <2> QED
    BY <1>1, <1>2, <2>1, ServedKept
<1>4. CASE Number[tracker.head] > lastEmpty
  <2> DEFINE items == {[block |-> tracker.head, logs |-> NoBlock]}
  <2>1. view'.held = view.held \union items /\ lastEmpty' = Number[tracker.head]
    BY <1>4, StreamBlocks, EmptyHeld
  <2>2. Reach <= Reach' /\ Reach' = Number[tracker.head]
    BY <1>1, <1>2, <1>4, <2>1, StreamBlocks DEF Reach
  <2>3. \A h \in items : h.block \in Block /\ Number[h.block] <= Reach'
    BY <2>2, StreamBlocks
  <2>4. ASSUME NEW x \in Block, Shared(x)
        PROVE  /\ \A h \in items : Number[h.block] <= Number[x] => OnChain(h.block, x)
               /\ \A b \in Matching : OnChain(b, x) /\ Reach < Number[b] /\ Number[b] <= Reach' =>
                    [block |-> b, logs |-> b] \in items
    <3>1. OnChain(x, tracker.head) /\ (HeaderAlways \/ OnChain(x, tip))
      BY <2>4 DEF Shared
    <3>2. ASSUME Number[tracker.head] <= Number[x]
          PROVE  OnChain(tracker.head, x)
      BY <2>4, <3>1, <3>2, StreamBlocks, OnChainSelf, OnChainOrdered
    <3>3. ASSUME NEW b \in Matching, OnChain(b, x), Reach < Number[b], Number[b] <= Reach'
          PROVE  FALSE
      <4>1. b \in Block /\ Number[b] \in Nat
        BY StreamAssumption, NumberNat DEF StreamAssumption
      <4>2. Number[b] \in cursor + 1 .. Number[tracker.head]
        BY <2>2, <3>3, <4>1, StreamBlocks, ReachBounds
      <4>3. ~HeaderAlways /\ LogsIn(cursor + 1, Number[tracker.head]) = {}
        BY <1>1, <4>2 DEF LiveRangeIsEmpty, LiveRange
      <4>4. OnChain(b, tip)
        BY <2>4, <3>1, <3>3, <4>1, <4>3, StreamBlocks, OnChainTransitive
      <4> QED
        BY <4>2, <4>3, <4>4 DEF LogsIn
    <3> QED
      BY <3>2, <3>3
  <2> HIDE DEF items
  <2> QED
    BY <1>1, <1>2, <2>1, <2>2, <2>3, <2>4, StreamBlocks, ServedMore
<1> QED
  BY <1>3, <1>4, StreamBlocks

-----------------------------------------------------------------------------
\* What the stream has served: the start, and the steps that move the head.

\* The stream starts with what the consumer resumes with, on the node's chain.
LEMMA StartFacts ==
  ASSUME IInv, FollowInv, FetchInv, OneChainEach, ResumeInv,
         Initialize \/ InitializeCursor, pc' = "loop"
  PROVE  /\ view' = client /\ client' = client /\ tracker'.head = tip /\ tip' = tip
         /\ lastEmpty' = -1 /\ cursor' \in Nat \union {-1} /\ cursor' <= Number[tip]
         /\ Reach' = cursor'
         /\ \/ client.resume = NoBlock /\ client.held = {} /\ cursor' = Start
            \/ /\ client.resume # NoBlock /\ client.resume \in Block
               /\ OnChain(client.resume, tip)
               /\ Number[client.resume] = cursor' /\ ChainView(client)
<1>1. view' = client /\ client' = client /\ pc \in {"init", "initCursor"}
  BY DEF Initialize, InitializeCursor, Quiet, IInv, HeldInv
<1>2. tracker'.head = tip /\ tip' = tip
  BY FollowInitialize
<1>3. ChainView(client)
  BY <1>1 DEF ResumeInv
<1>4. CASE Initialize
  <2>1. /\ ~HasStartingCursor /\ cursor' = -1 /\ lastEmpty' = -1
    BY <1>4 DEF Initialize
  <2>2. client.resume = NoBlock /\ Start = -1
    BY <2>1, StreamAssumption DEF HasStartingCursor, StreamAssumption
  <2> QED
    BY <1>1, <1>2, <1>3, <2>1, <2>2, StreamBlocks DEF ChainView, Reach
<1>5. CASE InitializeCursor
  <2>1. /\ StartingNumber \in 0 .. Number[tip] /\ cursor' = StartingNumber
        /\ lastEmpty' = lastEmpty /\ lastEmpty = -1 /\ AcceptsStartingCursor
    BY <1>5, FollowInitialize DEF InitializeCursor, FetchInv
  <2>2. cursor' \in Nat /\ cursor' <= Number[tip] /\ Reach' = cursor'
    BY <2>1, StreamBlocks DEF Reach
  <2>3. CASE client.resume = NoBlock
    BY <1>1, <1>2, <1>3, <2>1, <2>2, <2>3 DEF ChainView, StartingNumber
  <2>4. CASE client.resume # NoBlock
    BY <1>1, <1>2, <1>3, <2>1, <2>2, <2>4, StreamBlocks
       DEF StartingNumber, AcceptsStartingCursor, StartingCursorIsCanonical
  <2> QED
    BY <2>3, <2>4
<1> QED
  BY <1>4, <1>5

LEMMA ServedStart ==
  ASSUME IInv, FollowInv, FetchInv, OneChainEach, ResumeInv,
         NEW S, HeaderAlways \/ OneWay(S), Initialize \/ InitializeCursor
  PROVE  ServedInv(S)'
<1>1. pc' \in {"initCursor", "loop"}
  BY DEF Initialize, InitializeCursor
<1>2. CASE pc' = "initCursor"
  BY <1>2 DEF ServedInv, Following
<1>3. CASE pc' = "loop"
  <2> USE <1>3
  <2>1. /\ view' = client /\ tracker'.head = tip /\ tip' = tip
        /\ lastEmpty' = -1 /\ cursor' \in Nat \union {-1} /\ cursor' <= Number[tip]
        /\ Reach' = cursor'
        /\ \/ client.resume = NoBlock /\ client.held = {} /\ cursor' = Start
           \/ /\ client.resume # NoBlock /\ client.resume \in Block
              /\ OnChain(client.resume, tip)
              /\ Number[client.resume] = cursor' /\ ChainView(client)
    BY StartFacts
  <2>2. HeaderAlways \/ <<tip, tip>> \in S
    BY StreamBlocks, OnChainSelf DEF OneWay
  <2>3. /\ \A h \in client.held : Number[h.block] <= cursor'
        /\ \A x \in Block : OnChain(x, tip) =>
             HeldOn(client, x) /\ CompleteOn(client, x, cursor')
    <3>1. CASE client.held = {} /\ cursor' = Start
      <4>1. Start + 1 .. cursor' = {}
        BY <3>1, StreamAssumption DEF StreamAssumption
      <4> QED
        BY <3>1, <4>1 DEF HeldOn, CompleteOn
    <3>2. CASE client.resume # NoBlock
      <4> DEFINE r == client.resume
      <4>1. /\ r \in Block /\ OnChain(r, tip) /\ Number[r] = cursor'
            /\ \A h \in client.held : h.block \in Block /\ OnChain(h.block, r)
            /\ CompleteOn(client, r, cursor')
        BY <2>1, <3>2, StreamBlocks DEF ChainView, View, Item
      <4> HIDE DEF r
      <4>2. ASSUME NEW x \in Block, OnChain(x, tip)
            PROVE  HeldOn(client, x) /\ CompleteOn(client, x, cursor')
        <5>1. ASSUME NEW h \in client.held, Number[h.block] <= Number[x]
              PROVE  OnChain(h.block, x)
          <6>1. OnChain(h.block, tip) /\ h.block \in Block
            BY <4>1, StreamBlocks, OnChainTransitive
          <6> QED
            BY <4>2, <5>1, <6>1, StreamBlocks, OnChainOrdered
        <5>2. ASSUME NEW b \in Matching, OnChain(b, x), Number[b] \in Start + 1 .. cursor'
              PROVE  [block |-> b, logs |-> b] \in client.held
          <6>1. b \in Block /\ Number[b] <= Number[r]
            BY <4>1, <5>2, StreamAssumption DEF StreamAssumption
          <6>2. OnChain(b, tip)
            BY <4>2, <5>2, <6>1, StreamBlocks, OnChainTransitive
          <6>3. OnChain(b, r)
            BY <4>1, <6>1, <6>2, StreamBlocks, OnChainOrdered
          <6> QED
            BY <4>1, <5>2, <6>3 DEF CompleteOn
        <5> QED
          BY <5>1, <5>2 DEF HeldOn, CompleteOn
      <4>3. \A h \in client.held : Number[h.block] <= cursor'
        BY <4>1 DEF OnChain
      <4> QED
        BY <4>2, <4>3
    <3> QED
      BY <2>1, <3>1, <3>2
  <2>4. \A x \in Block : Shared(x)' => HeldOn(view, x)' /\ CompleteOn(view, x, Reach)'
    BY <2>1, <2>3 DEF Shared, HeldOn, CompleteOn
  <2>5. lastEmpty' <= Number[tip]
    BY <2>1, StreamBlocks
  <2> QED
    BY <2>1, <2>2, <2>3, <2>4, <2>5 DEF ServedInv
<1> QED
  BY <1>1, <1>2, <1>3

\* A head polled.  While the stream waits, everything up to the head was sent, so
\* that no reorg leaves the cursor alone.
LEMMA ServedPoll ==
  ASSUME IInv, FollowInv, OneChainEach, NEW S, HeaderAlways \/ OneWay(S),
         ServedInv(S), Poll
  PROVE  ServedInv(S)'
<1> DEFINE a == UpdateHead(tracker, tip)
           anc == a.tracker.head
<1>1. Polling
  BY DEF Poll, HeadFollowed, HeadReorged, HeadReorgedAhead, HeadNeedsJoin, HeadFails
<1>2. /\ LatestAnswers = {tip} /\ Following
      /\ a.status \in {"unchanged", "success"} => OnChain(tracker.head, tip) /\ anc = tip
      /\ a.status = "reorg" =>
           /\ Number[anc] < Number[tracker.head]
           /\ OnChain(anc, tracker.head) /\ OnChain(anc, tip)
           /\ anc \in a.tracker.canonical
  BY <1>1, PolledHead DEF Following, Polling
<1> HIDE DEF a
<1>3. CASE HeadFollowed
  <2>1. /\ a.status \in {"unchanged", "success"} /\ tracker' = a.tracker
        /\ pc' # "wait" /\ UNCHANGED <<tip, cursor, lastEmpty>> /\ view' = view
    BY <1>2, <1>3 DEF HeadFollowed, a, EndIteration, node
  <2> QED
    BY <1>2, <2>1, ServedUp
<1>4. CASE HeadReorged \/ HeadReorgedAhead
  <2>1. /\ a.status = "reorg" /\ tracker' = a.tracker /\ tip' = tip
        /\ pc' \in {"liveBlocks", "loop", "wait"}
        /\ IF HeadReorged
           THEN /\ ShouldInvalidate(anc) /\ cursor' = Number[anc] /\ lastEmpty' = -1
                /\ view' = AfterInvalidate(view, anc)
           ELSE /\ ~ShouldInvalidate(anc) /\ UNCHANGED <<cursor, lastEmpty>>
                /\ view' = view /\ (pc' = "wait" => pc = "wait")
    BY <1>1, <1>2, <1>4
       DEF HeadReorged, HeadReorgedAhead, Polling, a, EndIteration, node, Quiet
  <2>2. anc \in Block
    <3>1. GoodTracker(a.tracker)
      BY <2>1, NextInv, <1>4 DEF IInv, TrackerInv, Next, StreamStep, Poll
    <3> QED
      BY <3>1 DEF GoodTracker, Tracker
  <2>3. Number[anc] \in Nat /\ (ShouldInvalidate(anc) <=> Number[anc] < Reach)
    BY <2>2, NumberNat, StreamBlocks DEF ShouldInvalidate, Reach
  <2>4. CASE HeadReorged
    <3>1. view'.held = {h \in view.held : Number[h.block] <= Number[anc]}
      BY <2>1, <2>4, StreamBlocks DEF AfterInvalidate, View
    <3> QED
      BY <1>2, <2>1, <2>2, <2>3, <2>4, <3>1, ServedDown
  <2>5. CASE ~HeadReorged
    <3>1. Reach <= Number[anc]
      BY <2>1, <2>3, <2>5, ReachBounds
    <3>2. pc # "wait"
      <4> SUFFICES ASSUME pc = "wait" PROVE FALSE
        OBVIOUS
      <4>1. Number[tracker.head] \in {cursor, lastEmpty}
        BY <1>2 DEF ServedInv, IsAtHead
      <4> QED
        BY <1>2, <2>1, <2>3, <3>1, <4>1, ReachBounds, StreamBlocks
    <3> QED
      BY <1>2, <2>1, <2>2, <2>5, <3>1, <3>2, ServedDown
  <2> QED
    BY <2>4, <2>5
<1>5. CASE HeadNeedsJoin
  <2>1. pc' = "join" /\ UNCHANGED <<tip, tracker, cursor, lastEmpty, view>>
    BY <1>5 DEF HeadNeedsJoin, Quiet, node
  <2> QED
    BY <1>2, <2>1, ServedKept
<1>6. CASE HeadFails
  <2>1. pc' = "error"
    BY <1>6 DEF HeadFails, Fail
  <2> QED
    BY <2>1, ServedKept
<1> QED
  BY <1>3, <1>4, <1>5, <1>6 DEF Poll

LEMMA ServedJoin ==
  ASSUME IInv, FollowInv, NEW S, HeaderAlways \/ OneWay(S), ServedInv(S),
         JoinFetched \/ JoinDone \/ JoinFails
  PROVE  ServedInv(S)'
<1> DEFINE a == JoinBatch(tracker, joining.target, joining.from, tip)
<1>1. pc = "join" /\ Following
  BY DEF JoinFetched, JoinDone, JoinFails, Following
<1>2. /\ a.status = "success" => OnChain(tracker.head, tip) /\ a.tracker.head = tip
      /\ a.status = "join" => a.tracker.head = tracker.head
  BY <1>1, JoinedBatch
<1> HIDE DEF a
<1>3. CASE JoinFetched
  <2>1. /\ a.status = "join" /\ tracker' = a.tracker /\ pc' = pc
        /\ UNCHANGED <<tip, cursor, lastEmpty, view>>
    BY <1>3 DEF JoinFetched, Quiet, node, a
  <2> QED
    BY <1>1, <1>2, <2>1, ServedKept
<1>4. CASE JoinDone
  <2>1. /\ a.status = "success" /\ tracker' = a.tracker /\ pc' # "wait"
        /\ UNCHANGED <<tip, cursor, lastEmpty>> /\ view' = view
    BY <1>4 DEF JoinDone, a, EndIteration, node
  <2> QED
    BY <1>1, <1>2, <2>1, ServedUp
<1>5. CASE JoinFails
  <2>1. pc' = "error"
    BY <1>5 DEF JoinFails, Fail
  <2> QED
    BY <2>1, ServedKept
<1> QED
  BY <1>3, <1>4, <1>5

LEMMA ServedNext ==
  ASSUME IInv, FollowInv, FetchInv, ResumeInv, OneChainEach,
         NEW S, HeaderAlways \/ OneWay(S), ServedInv(S), [Next]_vars
  PROVE  ServedInv(S)'
<1>1. CASE NodeStep
  BY <1>1, ServedNode
<1>2. CASE Initialize \/ InitializeCursor
  BY <1>2, ServedStart
<1>3. CASE Poll
  BY <1>3, ServedPoll
<1>4. CASE JoinFetched \/ JoinDone \/ JoinFails
  BY <1>4, ServedJoin
<1>5. CASE BackfillBlocks \/ LiveBlocks \/ LiveEmpty
  BY <1>5, ServedBackfill, ServedLive, ServedEmpty
<1>6. CASE \/ RejectStartingCursor \/ RefreshFinalizedFails \/ LiveEmptyFails
           \/ LiveBlocksFail \/ Restart
  <2>1. pc' \in {"error", "init"}
    BY <1>6 DEF RejectStartingCursor, RefreshFinalizedFails, LiveEmptyFails,
                LiveBlocksFail, Fail, Restart
  <2> QED
    BY <2>1, ServedKept
<1>7. CASE RefreshFinalized
  <2>1. /\ pc = "refreshFinalized" /\ UNCHANGED <<cursor, lastEmpty>>
        /\ pc' = Dispatch(tracker') /\ \E f : view' = view \/ view' = AfterFinalize(view, f)
    BY <1>7 DEF RefreshFinalized
  <2>2. tip' = tip /\ tracker'.head = tracker.head
    BY <1>7, FollowRefresh
  <2>3. view'.held = view.held
    BY <2>1, StreamBlocks DEF AfterFinalize, View
  <2>4. Following /\ (pc' = "wait" => Number[tracker.head] \in {cursor, lastEmpty})
    BY <2>1, <2>2 DEF Dispatch, IsAtHead, Following
  <2> QED
    BY <2>1, <2>2, <2>3, <2>4, ServedKept
<1>8. CASE \/ StopAtEnding \/ BeginIteration \/ BackfillLogs \/ WaitReturns \/ KeepHead
           \/ LiveLogs
  <2>1. /\ Following /\ UNCHANGED <<tip, tracker, cursor, lastEmpty>> /\ view' = view
        /\ pc' = "wait" => Number[tracker.head] \in {cursor, lastEmpty}
    BY <1>8
       DEF StopAtEnding, BeginIteration, BackfillLogs, WaitReturns, KeepHead, LiveLogs,
           DeliverNothing, EndIteration, Dispatch, IsAtHead, Following, Quiet, node
  <2> QED
    BY <2>1, ServedKept
<1>9. CASE (\E t \in Timers : Elapse(t)) \/ UNCHANGED vars
  <2>1. UNCHANGED <<tip, tracker, cursor, lastEmpty, view, pc>>
    BY <1>9 DEF Elapse, Quiet, vars, node, stream, consumer
  <2> QED
    BY <2>1 DEF ServedInv, Following, Reach, Shared, HeldOn, CompleteOn, IsAtHead
<1> QED
  BY <1>1, <1>2, <1>3, <1>4, <1>5, <1>6, <1>7, <1>8, <1>9 DEF Next, StreamStep

-----------------------------------------------------------------------------
\* The cursor the consumer keeps, when all headers are sent.

\* Steps that send nothing and keep the stream on the chain of its cursor.
LEMMA HeadersKept ==
  ASSUME IInv, HeadersInv, HeaderAlways, Following,
         UNCHANGED <<cursor, lastEmpty>>,
         view'.held = view.held, view'.resume = view.resume,
         tracker'.head \in Block, cursor <= Number[tracker'.head],
         cursor <= Number[tracker.head],
         \/ OnChain(tracker.head, tracker'.head)
         \/ OnChain(tracker'.head, tracker.head)
  PROVE  HeadersInv'
<1>1. /\ lastEmpty <= cursor
      /\ view.resume = NoBlock => cursor = Start /\ view.held = {}
      /\ view.resume # NoBlock =>
           OnChain(view.resume, tracker.head) /\ Number[view.resume] = cursor
      /\ \A n \in Start + 1 .. cursor :
           \E h \in view.held : h.block = At[tracker.head][n]
  BY DEF HeadersInv
<1>2. view.resume # NoBlock => OnChain(view.resume, tracker'.head)
  BY <1>1, StreamBlocks, OnChainTransitive, OnChainOrdered
<1>3. ASSUME NEW n \in Start + 1 .. cursor
      PROVE  At[tracker'.head][n] = At[tracker.head][n]
  <2>1. n \in 0 .. Number[tracker.head] /\ n \in 0 .. Number[tracker'.head]
    BY StreamBlocks, StreamAssumption, NumberNat DEF StreamAssumption
  <2> QED
    BY <2>1, StreamBlocks, SameAncestor
<1> QED
  BY <1>1, <1>2, <1>3 DEF HeadersInv

\* A backfill goes up to a block of both chains.
LEMMA HeadersBackfill ==
  ASSUME IInv, FollowInv, FetchInv, HeadersInv, HeaderAlways, BackfillBlocks
  PROVE  HeadersInv'
<1> DEFINE msgs == FetchedData(request, "finalized")
           items == Items(msgs)
           f == tracker.finalized
<1>1. /\ pc = "backfillHeaders" /\ ~HeadersMissing(request)
      /\ view'.held = view.held \union items
      /\ cursor' = request.to /\ UNCHANGED <<tip, tracker, lastEmpty>>
  BY BackfillHeld DEF BackfillBlocks
<1>2. /\ request.from = cursor + 1 /\ cursor < request.to /\ request.to <= Number[f]
      /\ request.to \in Nat /\ request.from \in Nat
  BY <1>1 DEF IInv, TypeOK, RequestInv, Request
<1>3. /\ f \in Block /\ OnChain(f, tracker.head) /\ OnChain(f, tip)
      /\ Number[f] <= Number[tracker.head] /\ Number[f] \in Nat
  BY <1>1, StreamBlocks, FollowFacts DEF Stopped
<1>4. \A n \in request.from .. request.to : \E m \in msgs : m.block = At[tip][n]
  BY <1>1, FetchedItems
<1>5. \A m \in msgs : /\ m.block \in Block /\ OnChain(m.block, tip)
                      /\ Number[m.block] \in request.from .. request.to
  BY <1>1, FetchedOnChain
<1>6. ASSUME NEW n \in request.from .. request.to
      PROVE  At[tip][n] = At[tracker.head][n]
  <2>1. n \in 0 .. Number[f]
    BY <1>2, <1>3
  <2> QED
    BY <1>3, <2>1, StreamBlocks, SameAncestor
<1>7. ASSUME NEW n \in request.from .. request.to
      PROVE  \E h \in items : h.block = At[tracker.head][n]
  <2>1. PICK m \in msgs : m.block = At[tracker.head][n]
    BY <1>4, <1>6
  <2>2. [block |-> m.block, logs |-> m.logs] \in items
    BY DEF Items
  <2> QED
    BY <2>1, <2>2
<1>8. PICK last \in msgs : view'.resume = last.block /\ Number[last.block] = request.to
  <2>1. PICK top \in msgs : top.block = At[tip][request.to]
    BY <1>2, <1>4, StreamBlocks
  <2>2. request.to \in 0 .. Number[tip]
    BY <1>2, <1>3, StreamBlocks DEF OnChain
  <2>3. Number[top.block] = request.to
    BY <2>1, <2>2, StreamBlocks, AncestorOnChain
  <2>4. PICK last \in msgs : DeliverData(msgs, last)
    BY <2>1 DEF BackfillBlocks
  <2>5. Number[top.block] <= Number[last.block] /\ view' = AfterData(view, msgs, last)
    BY <2>4 DEF DeliverData, EndIteration
  <2>6. view'.resume = last.block
    BY <2>5 DEF AfterData
  <2> QED
    BY <1>2, <1>5, <2>3, <2>5, <2>6
<1> HIDE DEF items, msgs
<1>9. OnChain(last.block, tracker.head) /\ last.block # NoBlock
  <2>1. OnChain(last.block, f)
    BY <1>2, <1>3, <1>5, <1>8, StreamBlocks, OnChainOrdered
  <2> QED
    BY <1>3, <1>5, <2>1, StreamBlocks, OnChainTransitive
<1>10. \A n \in Start + 1 .. cursor' : \E h \in view'.held : h.block = At[tracker.head][n]
  <2> SUFFICES ASSUME NEW n \in Start + 1 .. request.to
               PROVE  \E h \in view'.held : h.block = At[tracker.head][n]
    BY <1>1
  <2>1. n \in Start + 1 .. cursor \/ n \in request.from .. request.to
    BY <1>2, StreamBlocks, StreamAssumption DEF StreamAssumption
  <2>2. \A k \in Start + 1 .. cursor : \E h \in view.held : h.block = At[tracker.head][k]
    BY <1>1 DEF HeadersInv, Following
  <2> QED
    BY <1>1, <1>7, <2>1, <2>2
<1>11. lastEmpty <= cursor'
  BY <1>1, <1>2, StreamBlocks DEF HeadersInv, Following
<1> QED
  BY <1>1, <1>8, <1>9, <1>10, <1>11 DEF HeadersInv

\* A live range goes up to the head, which is on the chain of the node.
LEMMA HeadersLive ==
  ASSUME IInv, FollowInv, FetchInv, HeadersInv, HeaderAlways, LiveBlocks
  PROVE  HeadersInv'
<1> DEFINE msgs == FetchedData(request, "accepted")
           items == Items(msgs)
<1>1. PICK last \in msgs :
        /\ view'.held = view.held \union items /\ view'.resume = last.block
        /\ \A m \in msgs : Number[m.block] <= Number[last.block]
        /\ cursor' = Number[last.block]
        /\ UNCHANGED <<tip, tracker, lastEmpty>>
  BY LiveHeld
<1>2. pc = "liveHeaders" /\ ~HeadersMissing(request)
  BY DEF LiveBlocks
<1>3. /\ OnChain(tracker.head, tip) /\ request.from <= request.to
      /\ request.from = cursor + 1 /\ request.to = Number[tracker.head]
      /\ request.from \in Nat /\ request.to \in Nat
  BY LiveHeadOnChain DEF IInv, TypeOK, Request
<1>4. \A n \in request.from .. request.to : \E m \in msgs : m.block = At[tip][n]
  BY <1>2, FetchedItems
<1>5. \A m \in msgs : /\ m.block \in Block /\ OnChain(m.block, tip)
                      /\ Number[m.block] \in request.from .. request.to
  BY <1>2, FetchedOnChain
<1>6. ASSUME NEW n \in request.from .. request.to
      PROVE  At[tip][n] = At[tracker.head][n]
  <2>1. n \in 0 .. Number[tracker.head]
    BY <1>3
  <2> QED
    BY <1>3, <2>1, StreamBlocks, SameAncestor
<1>7. ASSUME NEW n \in request.from .. request.to
      PROVE  \E h \in items : h.block = At[tracker.head][n]
  <2>1. PICK m \in msgs : m.block = At[tracker.head][n]
    BY <1>4, <1>6
  <2>2. [block |-> m.block, logs |-> m.logs] \in items
    BY DEF Items
  <2> QED
    BY <2>1, <2>2
<1>8. last.block = tracker.head /\ cursor' = request.to
  <2>1. PICK top \in msgs : top.block = At[tip][request.to]
    BY <1>3, <1>4
  <2>2. top.block = tracker.head
    BY <1>3, <2>1 DEF OnChain
  <2>3. Number[tracker.head] <= Number[last.block]
    BY <1>1, <2>2
  <2>4. Number[last.block] = Number[tracker.head]
    BY <1>3, <1>5, <2>3
  <2> QED
    BY <1>1, <1>3, <1>5, <2>4, StreamBlocks, OnChainUnique
<1> HIDE DEF items, msgs
<1>9. OnChain(tracker.head, tracker.head) /\ tracker.head # NoBlock
  BY StreamBlocks, OnChainSelf
<1>10. \A n \in Start + 1 .. cursor' : \E h \in view'.held : h.block = At[tracker.head][n]
  <2> SUFFICES ASSUME NEW n \in Start + 1 .. request.to
               PROVE  \E h \in view'.held : h.block = At[tracker.head][n]
    BY <1>8
  <2>1. n \in Start + 1 .. cursor \/ n \in request.from .. request.to
    BY <1>3, StreamBlocks, StreamAssumption DEF StreamAssumption
  <2>2. \A k \in Start + 1 .. cursor : \E h \in view.held : h.block = At[tracker.head][k]
    BY <1>2 DEF HeadersInv, Following
  <2> QED
    BY <1>1, <1>7, <2>1, <2>2
<1>11. lastEmpty <= cursor'
  BY <1>2, <1>3, <1>8, StreamBlocks DEF HeadersInv, Following
<1> QED
  BY <1>1, <1>3, <1>8, <1>9, <1>10, <1>11 DEF HeadersInv

\* The start, the header of the head and a reorg.
LEMMA HeadersMoved ==
  ASSUME IInv, FollowInv, FetchInv, OneChainEach, ResumeInv, HeadersInv, HeaderAlways,
         NEW S, ServedInv(S),
         Initialize \/ InitializeCursor \/ LiveEmpty \/ HeadReorged
  PROVE  HeadersInv'
<1>1. CASE Initialize \/ InitializeCursor
  <2>1. pc' \in {"initCursor", "loop"}
    BY <1>1 DEF Initialize, InitializeCursor
  <2>2. CASE pc' = "initCursor"
    BY <2>2 DEF HeadersInv, Following
  <2>3. CASE pc' = "loop"
    <3>1. /\ view' = client /\ tracker'.head = tip /\ lastEmpty' = -1
          /\ cursor' \in Nat \union {-1}
          /\ \/ client.resume = NoBlock /\ client.held = {} /\ cursor' = Start
             \/ /\ client.resume # NoBlock /\ client.resume \in Block
                /\ OnChain(client.resume, tip)
                /\ Number[client.resume] = cursor' /\ ChainView(client)
      BY <1>1, <2>3, StartFacts
    <3>2. \A n \in Start + 1 .. cursor' : \E h \in client.held : h.block = At[tip][n]
      <4>1. CASE cursor' = Start
        BY <4>1, StreamAssumption DEF StreamAssumption
      <4>2. CASE client.resume # NoBlock
        <5> SUFFICES ASSUME NEW n \in Start + 1 .. cursor'
                     PROVE  \E h \in client.held : h.block = At[tip][n]
          OBVIOUS
        <5>1. n \in 0 .. Number[client.resume]
          BY <3>1, <4>2, StreamAssumption DEF StreamAssumption
        <5>2. At[client.resume][n] = At[tip][n]
          BY <3>1, <4>2, <5>1, StreamBlocks, SameAncestor
        <5> QED
          BY <3>1, <4>2, <5>2 DEF ChainView
      <4> QED
        BY <3>1, <4>1, <4>2
    <3>3. lastEmpty' <= cursor'
      BY <3>1
    <3> QED
      BY <3>1, <3>2, <3>3 DEF HeadersInv
  <2> QED
    BY <2>1, <2>2, <2>3
<1>2. CASE LiveEmpty
  <2>1. /\ pc = "liveBlocks" /\ UNCHANGED <<tracker, cursor>> /\ LiveRangeIsEmpty
        /\ \/ /\ Number[tracker.head] > lastEmpty
              /\ view'.held = view.held \union {[block |-> tracker.head, logs |-> NoBlock]}
              /\ view'.resume = tracker.head /\ lastEmpty' = Number[tracker.head]
           \/ view' = view /\ UNCHANGED lastEmpty
    BY <1>2, EmptyHeld
  <2>2. Following
    BY <2>1 DEF Following
  <2>3. cursor <= Number[tracker.head]
    BY <2>2 DEF ServedInv
  <2>4. cursor = Number[tracker.head]
    <3>1. cursor + 1 .. Number[tracker.head] = {}
      BY <2>1 DEF LiveRangeIsEmpty, LiveRange
    <3>2. cursor + 1 > Number[tracker.head]
      <4> SUFFICES ASSUME cursor + 1 <= Number[tracker.head] PROVE FALSE
        BY StreamBlocks
      <4>1. cursor + 1 \in cursor + 1 .. Number[tracker.head]
        BY StreamBlocks
      <4> QED
        BY <3>1, <4>1
    <3> QED
      BY <2>3, <3>2, StreamBlocks
  <2>5. OnChain(tracker.head, tracker.head) /\ tracker.head # NoBlock
    BY StreamBlocks, OnChainSelf
  <2>6. CASE view' = view /\ UNCHANGED lastEmpty
    BY <2>1, <2>2, <2>6 DEF HeadersInv
  <2>7. CASE /\ view'.held = view.held \union {[block |-> tracker.head, logs |-> NoBlock]}
             /\ view'.resume = tracker.head /\ lastEmpty' = Number[tracker.head]
    <3>1. \A n \in Start + 1 .. cursor : \E h \in view'.held : h.block = At[tracker.head][n]
      BY <2>2, <2>7 DEF HeadersInv
    <3>2. lastEmpty' <= cursor
      BY <2>4, <2>7, StreamBlocks
    <3> QED
      BY <2>1, <2>4, <2>5, <2>7, <3>1, <3>2 DEF HeadersInv
  <2> QED
    BY <2>1, <2>6, <2>7
<1>3. CASE HeadReorged
  <2> DEFINE a == UpdateHead(tracker, tip)
             anc == a.tracker.head
  <2>1. Polling /\ Following
    BY <1>3 DEF HeadReorged, Polling, Following
  <2>2. LatestAnswers = {tip}
    BY <2>1, PolledHead
  <2>3. /\ a.status = "reorg" /\ ShouldInvalidate(anc) /\ tracker' = a.tracker
        /\ cursor' = Number[anc] /\ lastEmpty' = -1
        /\ view' = AfterInvalidate(view, anc)
    BY <1>3, <2>2 DEF HeadReorged, EndIteration
  <2>4. OnChain(anc, tracker.head)
    BY <2>1, <2>3, PolledHead
  <2> HIDE DEF a
  <2>5. anc \in Block
    <3>1. GoodTracker(tracker')
      BY NextInv, <1>3 DEF IInv, TrackerInv, Next, StreamStep, Poll
    <3> QED
      BY <2>3, <3>1 DEF GoodTracker, Tracker
  <2>6. /\ lastEmpty <= cursor
        /\ \A n \in Start + 1 .. cursor : \E h \in view.held : h.block = At[tracker.head][n]
    BY <2>1 DEF HeadersInv
  <2>7. Number[anc] < cursor /\ Number[anc] \in Nat
    BY <2>3, <2>5, <2>6, NumberNat, StreamBlocks DEF ShouldInvalidate
  <2>8. /\ view'.held = {h \in view.held : Number[h.block] <= Number[anc]}
        /\ view'.resume = anc
    BY <2>3, StreamBlocks DEF AfterInvalidate, View
  <2>9. ASSUME NEW n \in Start + 1 .. Number[anc]
        PROVE  \E h \in view'.held : h.block = At[anc][n]
    <3>1. n \in 0 .. Number[anc] /\ n \in Start + 1 .. cursor
      BY <2>7, StreamBlocks, StreamAssumption DEF StreamAssumption
    <3>2. PICK h \in view.held : h.block = At[tracker.head][n]
      BY <2>6, <3>1
    <3>3. At[anc][n] = At[tracker.head][n]
      BY <2>4, <2>5, <3>1, StreamBlocks, SameAncestor
    <3>4. Number[At[anc][n]] = n
      BY <2>5, <3>1, AncestorOnChain
    <3> QED
      BY <2>8, <3>1, <3>2, <3>3, <3>4
  <2>10. OnChain(anc, anc) /\ anc # NoBlock
    BY <2>5, StreamBlocks, OnChainSelf
  <2>11. -1 <= Number[anc]
    BY <2>7
  <2> QED
    BY <2>3, <2>8, <2>9, <2>10, <2>11 DEF HeadersInv
<1> QED
  BY <1>1, <1>2, <1>3

LEMMA HeadersNext ==
  ASSUME IInv, FollowInv, FetchInv, ResumeInv, HeadersInv, OneChainEach,
         NEW S, ServedInv(S), ServedInv(S)', [Next]_vars
  PROVE  HeadersInv'
<1> SUFFICES ASSUME HeaderAlways, Following' PROVE HeadersInv'
  BY DEF HeadersInv
<1>1. CASE Initialize \/ InitializeCursor \/ LiveEmpty \/ HeadReorged
  BY <1>1, HeadersMoved
<1>2. CASE BackfillBlocks \/ LiveBlocks
  BY <1>2, HeadersBackfill, HeadersLive
<1>3. CASE \/ RejectStartingCursor \/ RefreshFinalizedFails \/ LiveEmptyFails \/ HeadFails
           \/ JoinFails \/ LiveBlocksFail \/ Restart
  BY <1>3 DEF RejectStartingCursor, RefreshFinalizedFails, LiveEmptyFails, HeadFails,
              JoinFails, LiveBlocksFail, Fail, Restart, Following
<1>4. CASE NodeStep \/ UNCHANGED vars \/ \E t \in Timers : Elapse(t)
  BY <1>4 DEF NodeStep, Extend, Reorg, FinalizeBlock, Elapse, Quiet, vars, node, stream,
              consumer, HeadersInv, Following
<1>5. CASE RefreshFinalized
  <2>1. /\ pc = "refreshFinalized" /\ UNCHANGED <<cursor, lastEmpty>>
        /\ \E f : view' = view \/ view' = AfterFinalize(view, f)
    BY <1>5 DEF RefreshFinalized
  <2>2. tracker'.head = tracker.head
    BY <1>5, FollowRefresh
  <2>3. view'.held = view.held /\ view'.resume = view.resume
    BY <2>1, StreamBlocks DEF AfterFinalize, View
  <2> QED
    BY <2>1, <2>2, <2>3 DEF HeadersInv, Following
<1>6. CASE \/ StopAtEnding \/ BeginIteration \/ BackfillLogs \/ WaitReturns \/ KeepHead
           \/ LiveLogs \/ HeadNeedsJoin
  <2>1. Following /\ UNCHANGED <<tracker, cursor, lastEmpty>> /\ view' = view
    BY <1>6
       DEF StopAtEnding, BeginIteration, BackfillLogs, WaitReturns, KeepHead, LiveLogs,
           HeadNeedsJoin, Polling, DeliverNothing, EndIteration, Following, Quiet
  <2> QED
    BY <2>1 DEF HeadersInv
<1>7. CASE HeadFollowed \/ HeadReorgedAhead
  <2> DEFINE a == UpdateHead(tracker, tip)
  <2>1. Polling /\ Following
    BY <1>7 DEF HeadFollowed, HeadReorgedAhead, Polling, Following
  <2>2. /\ LatestAnswers = {tip}
        /\ a.status \in {"unchanged", "success"} =>
             OnChain(tracker.head, tip) /\ a.tracker.head = tip
        /\ a.status = "reorg" => OnChain(a.tracker.head, tracker.head)
    BY <2>1, PolledHead
  <2> HIDE DEF a
  <2>3. /\ a.status \in {"unchanged", "success", "reorg"} /\ tracker' = a.tracker
        /\ UNCHANGED <<cursor, lastEmpty>> /\ view' = view
    BY <1>7, <2>1, <2>2
       DEF HeadFollowed, HeadReorgedAhead, a, EndIteration, Quiet, Polling
  <2>4. \/ OnChain(tracker.head, tracker'.head)
        \/ OnChain(tracker'.head, tracker.head)
    BY <2>2, <2>3
  <2>5. tracker'.head \in Block
    <3>1. GoodTracker(tracker')
      BY NextInv, <1>7 DEF IInv, TrackerInv, Next, StreamStep, Poll
    <3> QED
      BY <3>1 DEF GoodTracker, Tracker
  <2>6. cursor <= Number[tracker.head] /\ cursor <= Number[tracker'.head]
    BY <2>1, <2>3 DEF ServedInv
  <2> QED
    BY <2>1, <2>3, <2>4, <2>5, <2>6, HeadersKept
<1>8. CASE JoinFetched \/ JoinDone
  <2> DEFINE a == JoinBatch(tracker, joining.target, joining.from, tip)
  <2>1. pc = "join" /\ Following
    BY <1>8 DEF JoinFetched, JoinDone, Following
  <2>2. /\ a.status = "success" => OnChain(tracker.head, tip) /\ a.tracker.head = tip
        /\ a.status = "join" => a.tracker.head = tracker.head
    BY <2>1, JoinedBatch
  <2> HIDE DEF a
  <2>3. /\ a.status \in {"success", "join"} /\ tracker' = a.tracker
        /\ UNCHANGED <<cursor, lastEmpty>> /\ view' = view
    BY <1>8 DEF JoinFetched, JoinDone, a, EndIteration, Quiet
  <2>4. cursor <= Number[tracker.head] /\ cursor <= Number[tracker'.head]
    BY <2>1, <2>3 DEF ServedInv
  <2>5. OnChain(tracker.head, tracker'.head)
    BY <2>2, <2>3, StreamBlocks, OnChainSelf
  <2>6. tracker'.head \in Block
    BY <2>2, <2>3, StreamBlocks
  <2> QED
    BY <2>1, <2>3, <2>4, <2>5, <2>6, HeadersKept
<1> QED
  BY <1>1, <1>2, <1>3, <1>4, <1>5, <1>6, <1>7, <1>8 DEF Next, StreamStep, Poll

\* While the stream runs and all headers are sent, what the consumer will hold is
\* one chain, that of the stream's cursor.
LEMMA ViewIsChain ==
  ASSUME IInv, NEW S, ServedInv(S), HeadersInv, HeaderAlways, Following
  PROVE  ChainView(view)
<1>1. /\ lastEmpty <= cursor
      /\ view.resume = NoBlock => view.held = {}
      /\ view.resume # NoBlock =>
           OnChain(view.resume, tracker.head) /\ Number[view.resume] = cursor
      /\ \A n \in Start + 1 .. cursor :
           \E h \in view.held : h.block = At[tracker.head][n]
  BY DEF HeadersInv
<1>2. Reach = cursor
  BY <1>1, StreamBlocks DEF Reach
<1> SUFFICES ASSUME view.resume # NoBlock
             PROVE  /\ \A h \in view.held : OnChain(h.block, view.resume)
                    /\ CompleteOn(view, view.resume, Number[view.resume])
                    /\ \A n \in Start + 1 .. Number[view.resume] :
                         \E h \in view.held : h.block = At[view.resume][n]
  BY <1>1 DEF ChainView
<1>3. /\ view.resume \in Block /\ OnChain(view.resume, tracker.head)
      /\ Number[view.resume] = cursor
  BY <1>1, StreamBlocks
<1>4. HeldOn(view, view.resume) /\ CompleteOn(view, view.resume, cursor)
  BY <1>2, <1>3 DEF ServedInv, Shared
<1>5. \A h \in view.held : OnChain(h.block, view.resume)
  BY <1>2, <1>3, <1>4 DEF ServedInv, HeldOn
<1>6. ASSUME NEW n \in Start + 1 .. cursor
      PROVE  \E h \in view.held : h.block = At[view.resume][n]
  <2>1. n \in 0 .. Number[view.resume]
    BY <1>3, StreamBlocks, StreamAssumption DEF StreamAssumption
  <2>2. At[view.resume][n] = At[tracker.head][n]
    BY <1>3, <2>1, StreamBlocks, SameAncestor
  <2> QED
    BY <1>1, <2>2
<1> QED
  BY <1>3, <1>4, <1>5, <1>6

\* The same after a step.
LEMMA ViewIsChainNext ==
  ASSUME NEW S
  PROVE  (IInv /\ ServedInv(S) /\ HeadersInv /\ HeaderAlways /\ Following
            => ChainView(view))'
<1>1. IInv /\ ServedInv(S) /\ HeadersInv /\ HeaderAlways /\ Following => ChainView(view)
  BY ViewIsChain
<1> QED
  BY <1>1, PTL

\* A consumer that is started again resumes with a chain; one that is not has
\* nothing yet when it starts.
LEMMA ResumeNext ==
  ASSUME IInv, IInv', ResumeInv, HeaderAlways \/ MaxRestarts = 0,
         NEW S, ServedInv(S)', HeadersInv', [Next]_vars
  PROVE  ResumeInv'
<1>1. \/ client' = client
      \/ client' = view' /\ pc' = "loop"
  BY DEF Next, NodeStep, Extend, Reorg, FinalizeBlock, Elapse, Restart, StreamStep, Poll,
         Initialize, InitializeCursor, RejectStartingCursor, StopAtEnding, BeginIteration,
         RefreshFinalized, RefreshFinalizedFails, BackfillLogs, BackfillBlocks,
         HeadFollowed, HeadReorged, HeadReorgedAhead, HeadNeedsJoin, HeadFails,
         JoinFetched, JoinDone, JoinFails, WaitReturns, KeepHead, LiveLogs,
         LiveEmpty, LiveEmptyFails, LiveBlocks, LiveBlocksFail, Fail, Quiet,
         DeliverNothing, DeliverData, EndIteration, vars, consumer
<1>2. CASE HeaderAlways
  <2>1. CASE client' = client
    BY <1>2, <2>1 DEF ResumeInv, ChainView, CompleteOn
  <2>2. CASE client' = view' /\ pc' = "loop"
    <3>1. ChainView(view)'
      BY <1>2, <2>2, ViewIsChainNext DEF Following
    <3> QED
      BY <2>2, <3>1 DEF ResumeInv, ChainView, CompleteOn
  <2> QED
    BY <1>1, <2>1, <2>2
<1>3. CASE ~HeaderAlways
  <2>1. ~Restart
    BY <1>3 DEF Restart, IInv, TypeOK
  <2>2. pc' \in {"init", "initCursor"} => pc \in {"init", "initCursor"}
    BY <2>1
       DEF Next, NodeStep, Extend, Reorg, FinalizeBlock, Elapse, StreamStep, Poll,
           Initialize, InitializeCursor, RejectStartingCursor, StopAtEnding,
           BeginIteration, RefreshFinalized, RefreshFinalizedFails, BackfillLogs,
           BackfillBlocks, HeadFollowed, HeadReorged, HeadReorgedAhead, HeadNeedsJoin,
           HeadFails, JoinFetched, JoinDone, JoinFails, WaitReturns, KeepHead, LiveLogs,
           LiveEmpty, LiveEmptyFails, LiveBlocks, LiveBlocksFail, Fail, Quiet, Dispatch,
           DeliverNothing, DeliverData, EndIteration, vars, stream
  <2> QED
    BY <1>1, <1>3, <2>2 DEF ResumeInv, ChainView, CompleteOn
<1> QED
  BY <1>2, <1>3

-----------------------------------------------------------------------------
\* The theorems about what the consumer holds.

\* Everything about the chain the stream works with.
ChainInv(S) == FollowInv /\ FetchInv /\ ServedInv(S) /\ HeadersInv /\ ResumeInv

LEMMA ChainInit ==
  ASSUME NEW S, Init
  PROVE  ChainInv(S)
<1>1. ServedInv(S) /\ HeadersInv
  BY DEF Init, ServedInv, HeadersInv, Following
<1>2. ResumeInv
  BY DEF Init, ResumeInv, ChainView, EmptyView
<1> QED
  BY <1>1, <1>2, FollowInit, FetchInit DEF ChainInv

LEMMA ChainNext ==
  ASSUME IInv, OneChainEach, NEW S, HeaderAlways \/ (MaxRestarts = 0 /\ OneWay(S)),
         ChainInv(S), [Next]_vars
  PROVE  ChainInv(S)'
<1>1. AtomicReads
  BY DEF OneChainEach
<1>2. FollowInv' /\ FetchInv' /\ IInv'
  BY <1>1, FollowNext, FetchNext, NextInv DEF ChainInv
<1>3. ServedInv(S)'
  BY ServedNext DEF ChainInv
<1>4. HeadersInv'
  BY <1>3, HeadersNext DEF ChainInv
<1>5. ResumeInv'
  BY <1>2, <1>3, <1>4, ResumeNext DEF ChainInv
<1> QED
  BY <1>2, <1>3, <1>4, <1>5 DEF ChainInv

\* When the stream waits at the head, everything up to it was sent.
LEMMA WaitingIsConsistent ==
  ASSUME IInv, NEW S, ChainInv(S)
  PROVE  ConsistentAtHead
<1> SUFFICES ASSUME pc = "wait", tracker.head = tip
             PROVE  /\ \A h \in view.held :
                         OnChain(h.block, tip) /\ h.logs \in {h.block, NoBlock}
                    /\ \A b \in Matching : OnChain(b, tip) /\ Number[b] > Start =>
                         [block |-> b, logs |-> b] \in view.held
  BY DEF ConsistentAtHead, WaitsAtHead
<1>1. /\ cursor <= Number[tip] /\ lastEmpty <= Number[tip]
      /\ \A h \in view.held : Number[h.block] <= Reach
      /\ \A x \in Block : Shared(x) => HeldOn(view, x) /\ CompleteOn(view, x, Reach)
      /\ Number[tip] \in {cursor, lastEmpty}
  BY DEF ChainInv, ServedInv, Following, IsAtHead
<1>2. Reach = Number[tip]
  BY <1>1, StreamBlocks DEF Reach
<1>3. HeldOn(view, tip) /\ CompleteOn(view, tip, Number[tip])
  BY <1>1, <1>2, StreamBlocks, OnChainSelf DEF Shared
<1>4. \A h \in view.held : OnChain(h.block, tip) /\ h.logs \in {h.block, NoBlock}
  BY <1>1, <1>2, <1>3 DEF HeldOn, ChainInv, FetchInv, OwnLogs
<1>5. ASSUME NEW b \in Matching, OnChain(b, tip), Number[b] > Start
      PROVE  [block |-> b, logs |-> b] \in view.held
  <2>1. Number[b] \in Start + 1 .. Number[tip]
    BY <1>5, StreamAssumption, NumberNat, StreamBlocks DEF OnChain, StreamAssumption
  <2> QED
    BY <1>3, <1>5, <2>1 DEF CompleteOn
<1> QED
  BY <1>4, <1>5

\* What the consumer will hold is one chain at every moment: while the stream does
\* not run it is what the consumer has.
LEMMA HeldFollowsParent ==
  ASSUME IInv, NEW S, ChainInv(S), HeaderAlways
  PROVE  HeldIsChain
<1>1. ChainView(view)
  <2>1. CASE Following
    BY <2>1, ViewIsChain DEF ChainInv
  <2>2. CASE ~Following
    <3>1. view = client
      BY <2>2 DEF Following, IInv, HeldInv, ChainInv, FetchInv
    <3> QED
      BY <3>1 DEF ChainInv, ResumeInv
  <2> QED
    BY <2>1, <2>2
<1> SUFFICES ASSUME NEW h \in view.held, Number[h.block] > Start + 1
             PROVE  \E g \in view.held : g.block = Parent(h.block)
  BY DEF HeldIsChain
<1>2. /\ view.resume # NoBlock /\ OnChain(h.block, view.resume)
      /\ \A n \in Start + 1 .. Number[view.resume] :
           \E g \in view.held : g.block = At[view.resume][n]
  BY <1>1 DEF ChainView
<1>3. h.block \in Block /\ Number[h.block] \in Nat /\ Start \in Nat \union {-1}
  BY StreamBlocks, NumberNat, StreamAssumption DEF View, Item, StreamAssumption
<1> DEFINE n == Number[h.block] - 1
<1>4. /\ n \in 0 .. Number[h.block] /\ n \in Start + 1 .. Number[view.resume]
  BY <1>2, <1>3, StreamBlocks, NumberNat DEF OnChain
<1>5. At[h.block][n] = At[view.resume][n]
  BY <1>2, <1>3, <1>4, StreamBlocks, SameAncestor
<1> QED
  BY <1>2, <1>4, <1>5 DEF Parent

\* The stream stops when the cursor is not below the ending cursor.
LEMMA EndingIsComplete ==
  ASSUME IInv, NEW S, ChainInv(S), HeaderAlways
  PROVE  CompleteAtEnding
<1> SUFFICES ASSUME pc = "done", NEW b \in Matching, OnChain(b, tracker.head),
                    Number[b] \in Start + 1 .. Ending
             PROVE  [block |-> b, logs |-> b] \in client.held
  BY DEF CompleteAtEnding
<1>1. Ending # NoEnding /\ Ending <= cursor /\ view = client
  BY DEF ChainInv, FetchInv
<1>2. Ending \in Nat /\ Start \in Int
  BY <1>1, StreamAssumption DEF StreamAssumption
<1>3. CompleteOn(view, tracker.head, Reach)
  BY StreamBlocks, OnChainSelf DEF ChainInv, ServedInv, Following, Shared
<1>4. Number[b] \in Start + 1 .. Reach
  BY <1>1, <1>2, StreamBlocks, ReachBounds
<1> QED
  BY <1>1, <1>3, <1>4 DEF CompleteOn

\* Waiting at the head of the node, the consumer holds the blocks of its chain only,
\* with their own logs, and every block with logs: after any reorgs, if each
\* iteration sees one chain, chains never get shorter, and either all headers are
\* sent, restarts included, or the node never goes back to a branch it left and the
\* consumer is not started again.
THEOREM AtHeadConsistent ==
  ASSUME OneChainEach,
         HeaderAlways \/ (MaxRestarts = 0 /\ \E S : OneWay(S))
  PROVE  Spec => []ConsistentAtHead
<1>1. PICK S : HeaderAlways \/ (MaxRestarts = 0 /\ OneWay(S))
  OBVIOUS
<1>2. Init => ChainInv(S)
  BY ChainInit
<1>3. IInv /\ ChainInv(S) /\ [Next]_vars => ChainInv(S)'
  BY <1>1, ChainNext
<1>4. IInv /\ ChainInv(S) => ConsistentAtHead
  BY WaitingIsConsistent
<1> QED
  BY <1>2, <1>3, <1>4, Invariance, PTL DEF Spec

\* When all headers are sent, every block the consumer holds follows its parent.
THEOREM HeldChain ==
  ASSUME OneChainEach, HeaderAlways
  PROVE  Spec => []HeldIsChain
<1>1. Init => ChainInv({})
  BY ChainInit
<1>2. IInv /\ ChainInv({}) /\ [Next]_vars => ChainInv({})'
  BY ChainNext
<1>3. IInv /\ ChainInv({}) => HeldIsChain
  BY HeldFollowsParent
<1> QED
  BY <1>1, <1>2, <1>3, Invariance, PTL DEF Spec

\* A stream that stopped at its ending cursor has sent every block with logs of
\* its chain up to it, when all headers are sent.
THEOREM EndingComplete ==
  ASSUME OneChainEach, HeaderAlways
  PROVE  Spec => []CompleteAtEnding
<1>1. Init => ChainInv({})
  BY ChainInit
<1>2. IInv /\ ChainInv({}) /\ [Next]_vars => ChainInv({})'
  BY ChainNext
<1>3. IInv /\ ChainInv({}) => CompleteAtEnding
  BY EndingIsComplete
<1> QED
  BY <1>1, <1>2, <1>3, Invariance, PTL DEF Spec
=============================================================================
