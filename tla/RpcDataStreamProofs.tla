-------------------------- MODULE RpcDataStreamProofs --------------------------
(***************************************************************************)
(* Theorems about RpcDataStream, for every block tree and every value of   *)
(* the other constants: its types, that the blocks with logs come in order *)
(* across reorgs and restarts, and that what was promised final never is   *)
(* invalidated.  They rest on one inductive invariant, IInv.               *)
(***************************************************************************)
EXTENDS RpcDataStream, BlockTreeProofs

-----------------------------------------------------------------------------
(* The operators of ChainTracker, for every block tree: they keep the        *)
(* canonical map a map, and everything in it at or above the finalized block. *)

\* What the tracker's methods preserve: its types, one canonical block per
\* number, and no canonical block below the finalized one.
GoodTracker(t) ==
  /\ t \in Tracker
  /\ OnePerNumber(t.canonical)
  /\ \A c \in t.canonical : Number[t.finalized] <= Number[c]

\* Map.set keeps the canonical map a map.
LEMMA PutOne ==
  ASSUME NEW S, OnePerNumber(S), NEW b
  PROVE  OnePerNumber(Put(S, b))
BY DEF OnePerNumber, Put

\* The constructor.
LEMMA NewTrackerGood ==
  ASSUME NEW h \in Block, NEW f \in Block, Number[f] <= Number[h]
  PROVE  GoodTracker(NewTracker(h, f))
<1>1. OnePerNumber({f})
  BY DEF OnePerNumber
<1>2. OnePerNumber(Put({f}, h))
  BY <1>1, PutOne
<1> QED
  BY <1>2, NumberNat DEF GoodTracker, NewTracker, Tracker, Put

\* updateFinalized moves the finalized block and nothing below it stays.
LEMMA UpdateFinalizedGood ==
  ASSUME NEW t, GoodTracker(t), NEW f \in Block, ~FinalizedBackwards(t, f)
  PROVE  /\ GoodTracker(UpdateFinalized(t, f))
         /\ UpdateFinalized(t, f).finalized = f
         /\ UpdateFinalized(t, f).head = t.head
<1> DEFINE kept == {c \in t.canonical : \/ Number[c] < Number[t.finalized]
                                        \/ Number[c] >= Number[f]}
<1>1. t \in Tracker /\ OnePerNumber(kept)
  BY DEF GoodTracker, OnePerNumber
<1>2. OnePerNumber(Put(kept, f))
  BY <1>1, PutOne
<1>3. Put(kept, f) \subseteq Block
  BY <1>1 DEF Put, Tracker
<1>4. \A c \in Put(kept, f) : Number[f] <= Number[c]
  BY <1>1, NumberNat DEF Put, Tracker, GoodTracker
<1>5. CASE f = t.finalized
  BY <1>5, <1>1 DEF UpdateFinalized
<1>6. CASE f # t.finalized
  <2>1. UpdateFinalized(t, f) = [t EXCEPT !.finalized = f, !.canonical = Put(kept, f)]
    BY <1>6 DEF UpdateFinalized
  <2> QED
    BY <2>1, <1>1, <1>2, <1>3, <1>4 DEF GoodTracker, Tracker
<1> QED
  BY <1>5, <1>6

\* The walk back from a new head stops, if it does, at a number it looked at.
LEMMA WalkStopIsStop ==
  ASSUME NEW t \in Tracker, NEW h \in Block, WalkStops(t, h) # {}
  PROVE  WalkStop(t, h) \in WalkStops(t, h)
<1>1. WalkStops(t, h) \subseteq Number[t.finalized] + 1 .. Number[h]
  BY DEF WalkStops
<1>2. Number[t.finalized] + 1 \in Int /\ Number[h] \in Int
  BY NumberNat DEF Tracker
<1>3. \E n \in WalkStops(t, h) : \A m \in WalkStops(t, h) : m <= n
  BY <1>1, <1>2, MaxExists
<1> QED
  BY <1>3 DEF WalkStop

\* updateHead, for a head that is not below the finalized block: it keeps the
\* tracker good, never goes back beyond the finalized block, and follows the head
\* it is given unless it reports a reorganization or asks for a join.
LEMMA UpdateHeadGood ==
  ASSUME NEW t, GoodTracker(t), NEW h \in Block, Number[t.finalized] <= Number[h],
         NEW a, a = UpdateHead(t, h)
  PROVE  /\ GoodTracker(a.tracker) /\ a.tracker.finalized = t.finalized
         /\ a.reason \in Reasons
         /\ a.status = "reorg" => Number[t.finalized] <= Number[a.tracker.head]
         /\ a.status \in {"unchanged", "success"} =>
              a.tracker.head = h /\ Number[t.head] <= Number[h]
         /\ a.status = "join" => Number[t.head] < Number[h]
<1> DEFINE canonical == UpToNewHead(t, h)
           n == WalkStop(t, h)
<1>1. t \in Tracker /\ OnePerNumber(t.canonical) /\ t.canonical \subseteq Block
  BY DEF GoodTracker, Tracker
<1>2. Number[h] \in Nat /\ Number[t.head] \in Nat /\ Number[t.finalized] \in Nat
  BY <1>1, NumberNat DEF Tracker
<1>3. CASE h = t.head
  <2>1. a = Answer("unchanged", "none", t)
    BY <1>3, <1>2 DEF UpdateHead, IsNextBlock
  <2>2. a.status = "unchanged" /\ a.reason \in Reasons /\ a.tracker = t
    BY <2>1 DEF Answer, Reasons
  <2> QED
    BY <2>2, <1>2, <1>3
<1>4. CASE h # t.head /\ IsNextBlock(t, h)
  <2>1. a = Answer("success", "none",
                   [t EXCEPT !.head = h, !.canonical = Put(@, h)])
    BY <1>2, <1>4 DEF UpdateHead, IsNextBlock
  <2>2. OnePerNumber(Put(t.canonical, h))
    BY <1>1, PutOne
  <2>3. GoodTracker([t EXCEPT !.head = h, !.canonical = Put(@, h)])
    BY <1>1, <2>2 DEF GoodTracker, Tracker, Put
  <2>4. /\ a.status = "success" /\ a.reason \in Reasons
        /\ a.tracker = [t EXCEPT !.head = h, !.canonical = Put(@, h)]
    BY <2>1 DEF Answer, Reasons
  <2>5. a.tracker.finalized = t.finalized /\ a.tracker.head = h
    BY <2>4, <1>1 DEF Tracker
  <2> QED
    BY <2>3, <2>4, <2>5, <1>2, <1>4 DEF IsNextBlock
<1>5. CASE h # t.head /\ ~IsNextBlock(t, h) /\ Number[h] > Number[t.head]
  <2>1. a = Answer("join", "none", t)
    BY <1>5, <1>2 DEF UpdateHead
  <2>2. a.status = "join" /\ a.reason \in Reasons /\ a.tracker = t
    BY <2>1 DEF Answer, Reasons
  <2> QED
    BY <2>2, <1>2, <1>5
<1>6. CASE h # t.head /\ ~IsNextBlock(t, h) /\ Number[h] <= Number[t.head]
  <2>1. a = Reconcile(t, h)
    BY <1>2, <1>6 DEF UpdateHead
  <2>2. ASSUME NEW b \in Block, Number[t.finalized] <= Number[b],
               NEW S, S \subseteq t.canonical
        PROVE  GoodTracker([t EXCEPT !.head = b, !.canonical = S])
    BY <1>1, <2>2 DEF GoodTracker, Tracker, OnePerNumber
  <2>3. canonical \subseteq t.canonical
    BY DEF UpToNewHead
  <2>4. CASE h \in canonical
    <3>1. a = ReorgTo(t, h, canonical)
      BY <2>1, <2>4 DEF Reconcile
    <3>2. /\ a.status = "reorg" /\ a.reason \in Reasons
          /\ a.tracker = [t EXCEPT !.head = h, !.canonical = canonical]
      BY <3>1 DEF ReorgTo, Reasons
    <3>3. a.tracker.finalized = t.finalized /\ a.tracker.head = h
      BY <3>2, <1>1 DEF Tracker
    <3>4. GoodTracker([t EXCEPT !.head = h, !.canonical = canonical])
      BY <2>2, <2>3
    <3> QED
      BY <3>2, <3>3, <3>4
  <2>5. CASE h \notin canonical /\ WalkStops(t, h) = {}
    <3>1. a = Answer("error", "reconcile", t)
      BY <2>1, <2>5 DEF Reconcile
    <3>2. a.status = "error" /\ a.reason \in Reasons /\ a.tracker = t
      BY <3>1 DEF Answer, Reasons
    <3> QED
      BY <3>2
  <2>6. CASE h \notin canonical /\ WalkStops(t, h) # {} /\ ~Known(canonical, n - 1)
    <3>1. a = Answer("error", "missingParent", t)
      BY <2>1, <2>6 DEF Reconcile
    <3>2. a.status = "error" /\ a.reason \in Reasons /\ a.tracker = t
      BY <3>1 DEF Answer, Reasons
    <3> QED
      BY <3>2
  <2>7. CASE h \notin canonical /\ WalkStops(t, h) # {} /\ Known(canonical, n - 1)
    <3> DEFINE left == {c \in canonical : Number[c] < n \/ Number[c] > Number[h]}
    <3>1. a = ReorgTo(t, At[h][n - 1], left)
      BY <2>1, <2>7 DEF Reconcile
    <3>2. n \in Number[t.finalized] + 1 .. Number[h]
      BY <2>7, <1>1, WalkStopIsStop DEF WalkStops
    <3>3. n - 1 \in 0 .. Number[h] /\ Number[t.finalized] <= n - 1
      BY <3>2, <1>2
    <3>4. At[h][n - 1] \in Block /\ Number[At[h][n - 1]] = n - 1
      BY <3>3, Ancestor
    <3>5. left \subseteq t.canonical
      BY <2>3
    <3>6. GoodTracker([t EXCEPT !.head = At[h][n - 1], !.canonical = left])
      BY <2>2, <3>3, <3>4, <3>5
    <3>7. /\ a.status = "reorg" /\ a.reason \in Reasons
          /\ a.tracker = [t EXCEPT !.head = At[h][n - 1], !.canonical = left]
      BY <3>1 DEF ReorgTo, Reasons
    <3>8. a.tracker.finalized = t.finalized /\ a.tracker.head = At[h][n - 1]
      BY <3>7, <1>1 DEF Tracker
    <3> QED
      BY <3>3, <3>4, <3>6, <3>7, <3>8
  <2> QED
    BY <2>4, <2>5, <2>6, <2>7
<1> QED
  BY <1>2, <1>3, <1>4, <1>5, <1>6

\* One batch of a join links blocks above a canonical one, and ends at the head
\* it was asked for.
LEMMA JoinBatchGood ==
  ASSUME NEW t, GoodTracker(t), NEW target \in Block, NEW last \in Block,
         NEW from \in Nat \ {0}, NEW a, a = JoinBatch(t, target, from, last)
  PROVE  /\ GoodTracker(a.tracker) /\ a.tracker.finalized = t.finalized
         /\ a.reason \in Reasons
         /\ a.status = "success" => a.tracker.head = target
         /\ a.status = "join" => a.tracker.head = t.head
<1> DEFINE upTo == JoinEnd(target, from)
           linked == {c \in t.canonical : Number[c] \notin from .. upTo}
                        \union {At[last][n] : n \in from .. upTo}
<1>1. t \in Tracker /\ OnePerNumber(t.canonical) /\ t.canonical \subseteq Block
  BY DEF GoodTracker, Tracker
<1>2. upTo \in Nat /\ Number[last] \in Nat
  BY NumberNat, BatchSizeAssumption DEF JoinEnd
<1>3. CASE upTo > Number[last] \/ At[last][from - 1] \notin t.canonical
  <2>1. \/ a = Answer("error", "nullBlock", t)
        \/ a = Answer("error", "reorgDetected", t)
    BY <1>3 DEF JoinBatch
  <2>2. a.tracker = t /\ a.status = "error" /\ a.reason \in Reasons
    BY <2>1 DEF Answer, Reasons
  <2> QED
    BY <2>2
<1>4. CASE upTo <= Number[last] /\ At[last][from - 1] \in t.canonical
  <2>1. \A n \in from .. upTo :
           /\ At[last][n] \in Block /\ Number[At[last][n]] = n
           /\ Number[t.finalized] <= n
    <3> SUFFICES ASSUME NEW n \in from .. upTo
                 PROVE  /\ At[last][n] \in Block /\ Number[At[last][n]] = n
                        /\ Number[t.finalized] <= n
      OBVIOUS
    <3>1. n \in 0 .. Number[last] /\ from - 1 \in 0 .. Number[last]
      BY <1>2, <1>4
    <3>2. Number[t.finalized] <= from - 1
      BY <3>1, <1>4, Ancestor DEF GoodTracker
    <3>3. Number[t.finalized] \in Nat
      BY <1>1, NumberNat DEF Tracker
    <3> QED
      BY <3>1, <3>2, <3>3, Ancestor
  <2>2. linked \subseteq Block /\ OnePerNumber(linked)
    BY <1>1, <2>1 DEF OnePerNumber
  <2>3. \A c \in linked : Number[t.finalized] <= Number[c]
    BY <2>1 DEF GoodTracker
  <2>4. GoodTracker([t EXCEPT !.head = target, !.canonical = linked])
    BY <1>1, <2>2, <2>3 DEF GoodTracker, Tracker
  <2>5. GoodTracker([t EXCEPT !.canonical = linked])
    BY <1>1, <2>2, <2>3 DEF GoodTracker, Tracker
  <2>6. CASE a = Answer("success", "none",
                       [t EXCEPT !.head = target, !.canonical = linked])
    <3>1. /\ a.reason \in Reasons /\ a.status = "success"
          /\ a.tracker = [t EXCEPT !.head = target, !.canonical = linked]
      BY <2>6 DEF Answer, Reasons
    <3> QED
      BY <3>1, <2>4, <1>1 DEF Tracker
  <2>7. CASE a = Answer("join", "none", [t EXCEPT !.canonical = linked])
    <3>1. /\ a.reason \in Reasons /\ a.status = "join"
          /\ a.tracker = [t EXCEPT !.canonical = linked]
      BY <2>7 DEF Answer, Reasons
    <3> QED
      BY <3>1, <2>5, <1>1 DEF Tracker
  <2> QED
    BY <1>2, <1>4, <2>6, <2>7 DEF JoinBatch
<1> QED
  BY <1>2, <1>3, <1>4

\* initializeStartingCursor adds a block above the finalized one, or nothing.
LEMMA StartingCursorGood ==
  ASSUME NEW t, GoodTracker(t), NEW b \in Block
  PROVE  /\ GoodTracker(WithStartingCursor(t, b))
         /\ WithStartingCursor(t, b).finalized = t.finalized
         /\ WithStartingCursor(t, b).head = t.head
<1>1. OnePerNumber(Put(t.canonical, b))
  BY PutOne DEF GoodTracker
<1>2. t \in Tracker /\ Number[t.finalized] \in Nat /\ Number[b] \in Nat
  BY NumberNat DEF GoodTracker, Tracker
<1>3. CASE Number[b] > Number[t.finalized]
  <2>1. WithStartingCursor(t, b) = [t EXCEPT !.canonical = Put(@, b)]
    BY <1>3 DEF WithStartingCursor
  <2> QED
    BY <2>1, <1>1, <1>2, <1>3 DEF GoodTracker, Tracker, Put
<1>4. CASE ~(Number[b] > Number[t.finalized])
  BY <1>4 DEF WithStartingCursor
<1> QED
  BY <1>3, <1>4

-----------------------------------------------------------------------------
(* The stream. *)

\* The tracker is good, and the node's head, its finalized block and the
\* tracker's are in order.
TrackerInv ==
  /\ GoodTracker(tracker)
  /\ Number[tracker.finalized] <= Number[final]
  /\ Number[final] <= Number[tip]

\* A running stream, once it has its starting cursor.
Running == pc \notin Stopped \union {"initCursor"}

\* The cursor is not above the chain the tracker knows; the finalized block can
\* be ahead of the head, but not when live blocks are produced.
CursorInv ==
  /\ Running => \/ cursor <= Number[tracker.head]
                \/ cursor <= Number[tracker.finalized]
  /\ pc = "join" => cursor <= Number[joining.target]
  /\ pc \in {"liveBlocks", "liveHeaders"} => cursor <= Number[tracker.head]
  /\ pc = "liveHeaders" => request.to = Number[tracker.head]

\* What is being fetched lies after the cursor and, for a backfill, not above
\* the finalized block.
RequestInv ==
  /\ \A b \in request.logs : Number[b] \in request.from .. request.to
  /\ pc = "backfill" => cursor < Number[tracker.finalized]
  /\ pc = "backfillHeaders" =>
       /\ request.from = cursor + 1 /\ cursor < request.to
       /\ request.to <= Number[tracker.finalized]
  /\ pc = "liveHeaders" => request.from = cursor + 1 /\ ~request.force
  /\ pc = "join" => joining.from > 0

\* No block with logs is above the cursor a consumer resumes from.
ResumesAbove(v) ==
  \A h \in v.held : h.logs # NoBlock =>
    v.resume # NoBlock /\ Number[h.block] <= Number[v.resume]

\* The blocks with logs are not above the cursor.
HeldBelow(v, n) == \A h \in v.held : h.logs # NoBlock => Number[h.block] <= n

HeldInv ==
  /\ ResumesAbove(view) /\ ResumesAbove(client)
  /\ Running => HeldBelow(view, cursor)
  /\ pc \in {"init", "initCursor"} => view = client
  /\ pc = "initCursor" => HasStartingCursor

\* A node that answers from replicas may have forgotten, when the consumer
\* restarts, what it had called finalized.
Steady == ~Lagging \/ MaxRestarts = 0

PromiseInv ==
  Steady =>
    /\ view.promised <= Number[final] /\ client.promised <= Number[final]
    /\ pc \notin Stopped => view.promised <= Number[tracker.finalized]
    /\ Lagging /\ pc = "init" => client.promised = -1

IInv ==
  /\ TypeOK /\ TrackerInv /\ CursorInv /\ RequestInv /\ HeldInv /\ PromiseInv

-----------------------------------------------------------------------------
\* The node answers with blocks: the head is not below the finalized block, and
\* the finalized block is the last one unless the node answers from a replica.
LEMMA NodeAnswers ==
  ASSUME IInv
  PROVE  /\ \A h \in LatestAnswers : h \in Block /\ Number[final] <= Number[h]
         /\ \A f \in FinalizedAnswers :
              /\ f \in Block /\ Number[f] <= Number[final]
              /\ ~Lagging => f = final
<1>1. /\ tip \in Block /\ final \in Block /\ Number[tip] \in Nat
      /\ Number[final] \in Nat /\ Number[final] <= Number[tip]
  BY NumberNat DEF IInv, TypeOK, TrackerInv
<1>2. ASSUME NEW b \in Block, NEW n \in 0 .. Number[b]
      PROVE  At[b][n] \in Block /\ Number[At[b][n]] = n
  BY Ancestor
<1>3. \A h \in Ancestors(tip, Number[final]) : h \in Block /\ Number[final] <= Number[h]
  BY <1>1, <1>2 DEF Ancestors
<1>4. \A f \in Ancestors(final, 0) : f \in Block /\ Number[f] <= Number[final]
  BY <1>1, <1>2 DEF Ancestors
<1> QED
  BY <1>1, <1>3, <1>4 DEF LatestAnswers, FinalizedAnswers

\* The program starts in the invariant.
LEMMA InitInv == Init => IInv
<1> SUFFICES ASSUME Init PROVE IInv
  OBVIOUS
<1>1. Genesis \in Block /\ Number[Genesis] = 0 /\ NoBlock \notin Block
  BY StreamAssumption DEF StreamAssumption
<1>2. GoodTracker(tracker) /\ tracker.finalized = Genesis
  <2>1. GoodTracker(NewTracker(Genesis, Genesis))
    BY <1>1, NewTrackerGood
  <2> QED
    BY <2>1 DEF Init, NewTracker
<1>3. TypeOK
  <2>1. tracker \in Tracker /\ OnePerNumber(tracker.canonical)
    BY <1>2 DEF GoodTracker
  <2>2. view \in View /\ client \in View
    BY DEF Init, EmptyView, View
  <2>3. request \in Request /\ joining \in [target : Block, from : Nat, caller : {"none", "live", "wait"}]
    BY <1>1 DEF Init, NoRequest, NoJoin, Request
  <2> QED
    BY <1>1, <2>1, <2>2, <2>3, StreamAssumption
       DEF Init, TypeOK, StreamAssumption, ControlPoints, Resting, Failures, Reasons
<1>4. TrackerInv
  BY <1>1, <1>2 DEF Init, TrackerInv
<1>5. RequestInv
  BY DEF Init, RequestInv, NoRequest
<1>6. HeldInv
  BY DEF Init, HeldInv, Running, Stopped, ResumesAbove, EmptyView
<1>7. PromiseInv
  BY <1>1 DEF Init, PromiseInv, Stopped, EmptyView
<1>8. CursorInv
  BY DEF Init, CursorInv, Running, Stopped
<1> QED
  BY <1>3, <1>4, <1>5, <1>6, <1>7, <1>8 DEF IInv

-----------------------------------------------------------------------------
\* The node's steps: the finalized block only goes up.
LEMMA NodeInv ==
  ASSUME IInv, NodeStep
  PROVE  IInv'
<1>1. tip' \in Block /\ final' \in Block /\ reorgs' \in 0 .. MaxReorgs
  <2>1. CASE Extend
    BY <2>1 DEF Extend, IInv, TypeOK
  <2>2. CASE Reorg
    BY <2>2, StreamAssumption DEF Reorg, IInv, TypeOK, StreamAssumption
  <2>3. CASE FinalizeBlock
    <3>1. PICK n \in Number[final] + 1 .. Number[tip] : final' = At[tip][n]
      BY <2>3 DEF FinalizeBlock
    <3>2. tip \in Block /\ n \in 0 .. Number[tip]
      BY <3>1, NumberNat DEF IInv, TypeOK
    <3> QED
      BY <2>3, <3>1, <3>2, Ancestor DEF FinalizeBlock, IInv, TypeOK
  <2> QED
    BY <2>1, <2>2, <2>3 DEF NodeStep
<1>2. Number[final] <= Number[final'] /\ Number[final'] <= Number[tip']
  <2>1. tip \in Block /\ final \in Block /\ Number[final] <= Number[tip]
    BY DEF IInv, TypeOK, TrackerInv
  <2>2. CASE Extend
    BY <2>1, <2>2, NumberNat DEF Extend
  <2>3. CASE Reorg
    BY <2>1, <2>3, NumberNat DEF Reorg, OnChain
  <2>4. CASE FinalizeBlock
    <3>1. PICK n \in Number[final] + 1 .. Number[tip] : final' = At[tip][n]
      BY <2>4 DEF FinalizeBlock
    <3>2. n \in 0 .. Number[tip] /\ Number[final] <= n /\ n <= Number[tip]
      BY <3>1, <2>1, NumberNat
    <3>3. Number[final'] = n
      BY <3>1, <3>2, <2>1, Ancestor
    <3> QED
      BY <2>4, <3>2, <3>3 DEF FinalizeBlock
  <2> QED
    BY <2>2, <2>3, <2>4 DEF NodeStep
<1>3. UNCHANGED <<pc, failure, tracker, cursor, lastEmpty, due, request, joining,
                  view, client, restarts>> /\ out' = {}
  BY DEF NodeStep, Extend, Reorg, FinalizeBlock, Quiet, stream
<1>4. /\ Number[final] \in Nat /\ Number[final'] \in Nat
      /\ Number[tracker.finalized] \in Nat
  BY <1>1, NumberNat DEF IInv, TypeOK, Tracker
<1>5. TypeOK'
  BY <1>1, <1>3 DEF IInv, TypeOK
<1>6. TrackerInv'
  BY <1>2, <1>3, <1>4 DEF IInv, TrackerInv
<1>7. RequestInv' /\ HeldInv' /\ CursorInv'
  BY <1>3 DEF IInv, CursorInv, RequestInv, HeldInv, Running, ResumesAbove, HeldBelow,
              HasStartingCursor
<1>8. PromiseInv'
  <2>1. view.promised \in Int /\ client.promised \in Int
    BY DEF IInv, TypeOK, View
  <2> QED
    BY <1>2, <1>3, <1>4, <2>1 DEF IInv, PromiseInv
<1> QED
  BY <1>5, <1>6, <1>7, <1>8 DEF IInv

-----------------------------------------------------------------------------
\* Steps of the stream that only move it to another control point.
LEMMA QuietInv ==
  ASSUME IInv, Quiet, due' \subseteq Timers,
         UNCHANGED <<node, failure, tracker, cursor, lastEmpty, request, joining>>,
         \/ pc' = pc
         \/ /\ Running
            /\ pc' \in {"loop", "wait", "done", "live", "liveBlocks",
                        "refreshFinalized", "backfill"}
            /\ pc' = "liveBlocks" => cursor <= Number[tracker.head]
            /\ pc' = "backfill" => cursor < Number[tracker.finalized]
  PROVE  IInv'
<1>1. TypeOK'
  BY DEF IInv, TypeOK, Quiet, node, ControlPoints, Resting
<1>2. TrackerInv'
  BY DEF IInv, TrackerInv, node
<1>3. RequestInv' /\ CursorInv'
  BY DEF IInv, RequestInv, CursorInv, Running, Stopped
<1>4. HeldInv'
  BY DEF IInv, HeldInv, Quiet, Running, Stopped, ResumesAbove, HeldBelow,
         HasStartingCursor
<1>5. PromiseInv'
  BY DEF IInv, PromiseInv, Quiet, node, Running, Stopped
<1> QED
  BY <1>1, <1>2, <1>3, <1>4, <1>5 DEF IInv

\* An exception.
LEMMA FailInv ==
  ASSUME IInv, NEW reason \in Failures, Fail(reason)
  PROVE  IInv'
<1>1. Genesis \in Block
  BY StreamAssumption DEF StreamAssumption
<1>2. NoRequest \in Request
      /\ NoJoin \in [target : Block, from : Nat, caller : {"none", "live", "wait"}]
  BY <1>1 DEF NoRequest, NoJoin, Request
<1>3. TypeOK'
  BY <1>2 DEF IInv, TypeOK, Fail, node, ControlPoints, Resting
<1>4. TrackerInv'
  BY DEF IInv, TrackerInv, Fail, node
<1>5. RequestInv' /\ CursorInv'
  BY DEF RequestInv, CursorInv, Fail, NoRequest, Running, Stopped
<1>6. HeldInv'
  BY DEF IInv, HeldInv, Fail, Running, Stopped, ResumesAbove
<1>7. PromiseInv'
  BY DEF IInv, PromiseInv, Fail, node, Stopped
<1> QED
  BY <1>3, <1>4, <1>5, <1>6, <1>7 DEF IInv

\* The end of an iteration, whatever it delivers.
LEMMA EndIterationInv ==
  ASSUME IInv, Running, NEW v \in View, EndIteration(v),
         out' \subseteq Message, due' \subseteq Timers,
         GoodTracker(tracker'), tracker'.finalized = tracker.finalized,
         cursor' \in Nat \union {-1}, lastEmpty' \in Nat \union {-1},
         cursor' <= Number[tracker'.head] \/ cursor' <= Number[tracker'.finalized],
         ResumesAbove(v), HeldBelow(v, cursor'),
         Steady => v.promised <= Number[tracker.finalized]
  PROVE  IInv'
<1>1. Genesis \in Block
  BY StreamAssumption DEF StreamAssumption
<1>2. NoRequest \in Request
      /\ NoJoin \in [target : Block, from : Nat, caller : {"none", "live", "wait"}]
  BY <1>1 DEF NoRequest, NoJoin, Request
<1>3. TypeOK'
  BY <1>2 DEF IInv, TypeOK, EndIteration, node, ControlPoints, Resting, GoodTracker
<1>4. TrackerInv'
  BY DEF IInv, TrackerInv, EndIteration, node
<1>5. RequestInv' /\ CursorInv'
  BY DEF RequestInv, CursorInv, EndIteration, NoRequest
<1>6. HeldInv'
  <2>1. pc' = "loop" /\ view' = v /\ client' = v
    BY DEF EndIteration
  <2> QED
    BY <2>1 DEF HeldInv, ResumesAbove, HeldBelow
<1>7. PromiseInv'
  <2>1. /\ pc' = "loop" /\ view' = v /\ client' = v /\ final' = final
    BY DEF EndIteration, node
  <2>2. /\ v.promised \in Int /\ Number[tracker.finalized] \in Int
        /\ Number[final] \in Int /\ Number[tracker.finalized] <= Number[final]
    BY NumberNat DEF View, IInv, TypeOK, TrackerInv, Tracker
  <2> QED
    BY <2>1, <2>2 DEF PromiseInv
<1> QED
  BY <1>3, <1>4, <1>5, <1>6, <1>7 DEF IInv

-----------------------------------------------------------------------------
\* fetchBlockRange: the messages of a range, and where their logs are.
LEMMA FetchedMessages ==
  ASSUME IInv, ~HeadersMissing(request), NEW finality \in {"accepted", "finalized"},
         NEW m \in FetchedData(request, finality)
  PROVE  /\ m \in Message /\ m.type = "data" /\ m.finality = finality
         /\ Number[m.block] \in HeaderNumbers(request)
         /\ m.logs # NoBlock => Number[m.block] \in request.from .. request.to
<1>1. PICK n \in HeaderNumbers(request) :
        m = Data(At[tip][n], LogsAt(request, n), finality)
  BY DEF FetchedData
<1>2. request.from \in Nat /\ request.to \in Nat /\ request.logs \subseteq Block
      /\ tip \in Block
  BY DEF IInv, TypeOK, Request
<1>3. n \in Nat
  BY <1>1, <1>2, NumberNat DEF HeaderNumbers
<1>4. n <= Number[tip] /\ Number[tip] \in Nat
  BY <1>1, <1>2, <1>3, NumberNat DEF HeadersMissing
<1>5. At[tip][n] \in Block /\ Number[At[tip][n]] = n
  BY <1>2, <1>3, <1>4, Ancestor
<1>6. /\ LogsAt(request, n) \in Block \union {NoBlock}
      /\ LogsAt(request, n) # NoBlock => n \in request.from .. request.to
  BY <1>2 DEF LogsAt, IInv, RequestInv
<1> QED
  BY <1>1, <1>5, <1>6 DEF Data, Message

\* What the consumer holds once it has the data of an iteration.
LEMMA AfterDataView ==
  ASSUME NEW v \in View, NEW msgs \in SUBSET Message, NEW last \in msgs,
         NEW n \in Int,
         ResumesAbove(v), HeldBelow(v, n), n <= Number[last.block],
         \A m \in msgs : Number[m.block] <= Number[last.block]
  PROVE  /\ AfterData(v, msgs, last) \in View
         /\ ResumesAbove(AfterData(v, msgs, last))
         /\ HeldBelow(AfterData(v, msgs, last), Number[last.block])
         /\ AfterData(v, msgs, last).promised \in
              {v.promised} \union
                (IF last.finality = "finalized" THEN {Number[last.block]} ELSE {})
<1> DEFINE w == AfterData(v, msgs, last)
<1>1. last \in Message /\ last.block \in Block /\ Number[last.block] \in Nat
  BY NumberNat DEF Message
<1>2. NoBlock \notin Block
  BY StreamAssumption DEF StreamAssumption
<1>3. {[block |-> m.block, logs |-> m.logs] : m \in msgs} \subseteq Item
  BY DEF Message, Item
<1>4. /\ w.held = v.held \union {[block |-> m.block, logs |-> m.logs] : m \in msgs}
      /\ w.resume = last.block
      /\ w.promised = IF last.finality = "finalized" /\ Number[last.block] > v.promised
                      THEN Number[last.block] ELSE v.promised
  BY DEF AfterData
<1>5. w \in View
  BY <1>1, <1>3 DEF AfterData, View
<1>6. \A h \in w.held : h.logs # NoBlock => Number[h.block] <= Number[last.block]
  <2> SUFFICES ASSUME NEW h \in w.held, h.logs # NoBlock
               PROVE  Number[h.block] <= Number[last.block]
    OBVIOUS
  <2>1. CASE h \in v.held
    <3>1. Number[h.block] <= n
      BY <2>1 DEF HeldBelow
    <3>2. Number[h.block] \in Nat
      BY <2>1, NumberNat DEF View, Item
    <3> QED
      BY <3>1, <3>2, <1>1
  <2>2. CASE \E m \in msgs : h = [block |-> m.block, logs |-> m.logs]
    BY <2>2
  <2> QED
    BY <1>4, <2>1, <2>2
<1>7. ResumesAbove(w) /\ HeldBelow(w, Number[last.block])
  BY <1>1, <1>2, <1>4, <1>6 DEF ResumesAbove, HeldBelow
<1> QED
  BY <1>4, <1>5, <1>7

\* What the consumer holds after a reorganization.
LEMMA AfterInvalidateView ==
  ASSUME NEW v \in View, NEW b \in Block
  PROVE  /\ AfterInvalidate(v, b) \in View
         /\ ResumesAbove(AfterInvalidate(v, b))
         /\ HeldBelow(AfterInvalidate(v, b), Number[b])
         /\ AfterInvalidate(v, b).promised = v.promised
<1>1. NoBlock \notin Block
  BY StreamAssumption DEF StreamAssumption
<1> QED
  BY <1>1 DEF AfterInvalidate, View, ResumesAbove, HeldBelow

-----------------------------------------------------------------------------
\* initialize(): the finalized block is not below what the consumer was promised.
LEMMA InitializeInv ==
  ASSUME IInv, Initialize
  PROVE  IInv'
<1>1. PICK h \in LatestAnswers, f \in FinalizedAnswers : tracker' = NewTracker(h, f)
  BY DEF Initialize
<1>2. /\ h \in Block /\ f \in Block /\ Number[final] <= Number[h]
      /\ Number[f] <= Number[final] /\ (~Lagging => f = final)
  BY NodeAnswers
<1>3. Number[h] \in Nat /\ Number[f] \in Nat /\ Number[final] \in Nat
  BY <1>2, NumberNat DEF IInv, TypeOK
<1>4. /\ GoodTracker(tracker') /\ tracker'.finalized = f
      /\ Number[tracker'.head] \in Nat
  <2>1. GoodTracker(NewTracker(h, f))
    BY <1>2, <1>3, NewTrackerGood
  <2> QED
    BY <1>1, <1>3, <2>1 DEF NewTracker
<1>5. /\ pc = "init" /\ pc' \in {"initCursor", "loop"}
      /\ pc' = "initCursor" <=> HasStartingCursor
      /\ cursor' = -1 /\ lastEmpty' = -1 /\ due' = {} /\ out' = {}
      /\ UNCHANGED <<node, failure, request, joining, view, client, restarts>>
  BY DEF Initialize, Quiet
<1>6. TypeOK'
  BY <1>4, <1>5 DEF IInv, TypeOK, GoodTracker, node, ControlPoints, Resting
<1>7. TrackerInv'
  BY <1>2, <1>4, <1>5 DEF IInv, TrackerInv, node
<1>8. RequestInv' /\ CursorInv'
  BY <1>4, <1>5 DEF IInv, RequestInv, CursorInv
<1>9. HeldInv'
  <2>1. client.resume = NoBlock => \A h1 \in client.held : h1.logs = NoBlock
    BY DEF IInv, HeldInv, ResumesAbove
  <2>2. view = client
    BY <1>5 DEF IInv, HeldInv
  <2>3. pc' = "loop" => client.resume = NoBlock
    BY <1>5 DEF HasStartingCursor
  <2>4. HasStartingCursor' <=> HasStartingCursor
    BY <1>5 DEF HasStartingCursor
  <2> QED
    BY <1>5, <2>1, <2>2, <2>3, <2>4
       DEF IInv, HeldInv, Running, Stopped, HeldBelow, ResumesAbove
<1>10. PromiseInv'
  <2>1. view = client /\ client.promised \in Int
    BY <1>5 DEF IInv, HeldInv, TypeOK, View
  <2> QED
    BY <1>2, <1>3, <1>4, <1>5, <2>1 DEF IInv, PromiseInv, node
<1> QED
  BY <1>6, <1>7, <1>8, <1>9, <1>10 DEF IInv

\* initializeStartingCursor(): the stream resumes where the consumer is.
LEMMA InitializeCursorInv ==
  ASSUME IInv, InitializeCursor
  PROVE  IInv'
<1> DEFINE n == StartingNumber
           b == At[tip][n]
<1>1. /\ pc = "initCursor" /\ pc' = "loop" /\ out' = {}
      /\ tracker' = WithStartingCursor(tracker, b) /\ cursor' = n
      /\ UNCHANGED <<node, failure, lastEmpty, due, request, joining, view, client,
                     restarts>>
  BY DEF InitializeCursor, Quiet
<1>2. tip \in Block /\ Number[tip] \in Nat /\ client \in View
  BY NumberNat DEF IInv, TypeOK
<1>3. n \in 0 .. Number[tip]
  <2>1. CASE client.resume # NoBlock
    <3>1. client.resume \in Block /\ Number[client.resume] \in Nat
      BY <1>2, <2>1, NumberNat DEF View
    <3> QED
      BY <1>2, <2>1, <3>1
         DEF InitializeCursor, AcceptsStartingCursor, StartingCursorIsCanonical,
             OnChain, StartingNumber
  <2>2. CASE client.resume = NoBlock
    <3>1. Start >= 0 /\ Start \in Nat \union {-1}
      BY <1>1, <2>2, StreamAssumption
         DEF IInv, HeldInv, HasStartingCursor, StreamAssumption
    <3> QED
      BY <1>2, <2>2, <3>1 DEF InitializeCursor, AcceptsStartingCursor, StartingNumber
  <2> QED
    BY <2>1, <2>2
<1>4. b \in Block
  BY <1>2, <1>3, Ancestor
<1>5. /\ GoodTracker(tracker') /\ tracker'.finalized = tracker.finalized
      /\ tracker'.head = tracker.head
  BY <1>1, <1>4, StartingCursorGood DEF IInv, TrackerInv
<1>6. TypeOK'
  BY <1>1, <1>3, <1>5, <1>2 DEF IInv, TypeOK, GoodTracker, node, ControlPoints, Resting
<1>7. TrackerInv'
  BY <1>1, <1>5 DEF IInv, TrackerInv, node
<1>8. RequestInv' /\ CursorInv'
  <2>1. n <= Number[tracker.head]
    BY DEF InitializeCursor, AcceptsStartingCursor, StartingCursorIsCanonical,
           StartingNumber
  <2> QED
    BY <1>1, <1>5, <2>1 DEF IInv, RequestInv, CursorInv
<1>9. HeldInv'
  <2>1. view = client /\ ResumesAbove(client)
    BY <1>1 DEF IInv, HeldInv
  <2>2. HeldBelow(view, n)
    BY <2>1 DEF HeldBelow, ResumesAbove, StartingNumber
  <2> QED
    BY <1>1, <2>1, <2>2 DEF HeldInv, HeldBelow, ResumesAbove
<1>10. PromiseInv'
  BY <1>1, <1>5 DEF IInv, PromiseInv, Stopped, node
<1> QED
  BY <1>6, <1>7, <1>8, <1>9, <1>10 DEF IInv

\* The top of the loop.
LEMMA LoopInv ==
  ASSUME IInv, StopAtEnding \/ BeginIteration
  PROVE  IInv'
<1>1. CASE StopAtEnding
  BY <1>1, QuietInv DEF StopAtEnding, Running, Stopped, IInv, TypeOK
<1>2. CASE BeginIteration
  <2>1. due' \subseteq Timers
    BY <1>2 DEF BeginIteration, DueAfterHeartbeat, IInv, TypeOK
  <2>2. /\ pc' \in {"wait", "live", "refreshFinalized", "backfill"}
        /\ pc' = "backfill" => cursor < Number[tracker.finalized]
    BY <1>2 DEF BeginIteration, Dispatch
  <2> QED
    BY <1>2, <2>1, <2>2, QuietInv DEF BeginIteration, Running, Stopped
<1> QED
  BY <1>1, <1>2

\* refreshFinalized: what it promises is the finalized block of the tracker.
LEMMA RefreshFinalizedInv ==
  ASSUME IInv, RefreshFinalized
  PROVE  IInv'
<1>1. PICK f \in FinalizedAnswers :
        /\ ~FinalizedBackwards(tracker, f) /\ tracker' = UpdateFinalized(tracker, f)
        /\ out' = IF f # tracker.finalized /\ cursor > Number[f]
                  THEN {Finalize(f)} ELSE {}
        /\ view' = IF out' # {} THEN AfterFinalize(view, f) ELSE view
        /\ pc' = Dispatch(tracker')
  BY DEF RefreshFinalized
<1>2. f \in Block /\ Number[f] <= Number[final] /\ Number[f] \in Nat
  BY NodeAnswers, NumberNat
<1>3. /\ GoodTracker(tracker') /\ tracker'.finalized = f
      /\ tracker'.head = tracker.head
  BY <1>1, <1>2, UpdateFinalizedGood DEF IInv, TrackerInv
<1>4. /\ pc = "refreshFinalized" /\ due' \subseteq Timers
      /\ UNCHANGED <<node, failure, cursor, lastEmpty, request, joining, client,
                     restarts>>
  BY DEF RefreshFinalized, IInv, TypeOK
<1>5. /\ pc' \in {"backfill", "wait", "live"}
      /\ pc' = "backfill" => cursor < Number[tracker'.finalized]
  BY <1>1 DEF Dispatch
<1>6. /\ view \in View /\ view' \in View /\ out' \subseteq Message
      /\ view'.held = view.held /\ view'.resume = view.resume
      /\ view'.promised \in {view.promised, Number[f]}
  <2>1. view \in View
    BY DEF IInv, TypeOK
  <2>2. Finalize(f) \in Message
    BY <1>2 DEF Finalize, Message
  <2>3. /\ AfterFinalize(view, f) \in View
        /\ AfterFinalize(view, f).held = view.held
        /\ AfterFinalize(view, f).resume = view.resume
        /\ AfterFinalize(view, f).promised \in {view.promised, Number[f]}
    BY <2>1, <1>2 DEF AfterFinalize, View
  <2> QED
    BY <1>1, <2>1, <2>2, <2>3
<1>7. TypeOK'
  BY <1>3, <1>4, <1>5, <1>6 DEF IInv, TypeOK, GoodTracker, node, ControlPoints, Resting
<1>8. TrackerInv'
  BY <1>2, <1>3, <1>4 DEF IInv, TrackerInv, node
<1>9. RequestInv' /\ CursorInv'
  <2>1. /\ Number[tracker.finalized] <= Number[f] /\ Number[tracker.finalized] \in Nat
        /\ cursor \in Int
    BY <1>1, <1>2, NumberNat DEF FinalizedBackwards, IInv, TypeOK, Tracker
  <2>2. cursor <= Number[tracker'.head] \/ cursor <= Number[tracker'.finalized]
    BY <1>2, <1>3, <1>4, <2>1 DEF IInv, CursorInv, Running, Stopped
  <2> QED
    BY <1>4, <1>5, <2>2 DEF IInv, RequestInv, CursorInv
<1>10. HeldInv'
  <2>1. ResumesAbove(view) /\ ResumesAbove(client) /\ HeldBelow(view, cursor)
    BY <1>4 DEF IInv, HeldInv, Running, Stopped
  <2>2. ResumesAbove(view') /\ HeldBelow(view', cursor)
    BY <2>1, <1>6 DEF ResumesAbove, HeldBelow
  <2> QED
    BY <2>1, <2>2, <1>4, <1>5 DEF HeldInv, ResumesAbove, HeldBelow
<1>11. PromiseInv'
  <2>1. /\ Number[tracker.finalized] <= Number[f] /\ Number[tracker.finalized] \in Nat
        /\ Number[final] \in Nat /\ view.promised \in Int
    BY <1>1, <1>2, NumberNat
       DEF FinalizedBackwards, IInv, TypeOK, Tracker, View
  <2>2. Steady => view'.promised <= Number[f]
    BY <2>1, <1>2, <1>4, <1>6 DEF IInv, PromiseInv, Stopped
  <2>3. Steady => view'.promised <= Number[final]
    BY <2>1, <2>2, <1>2, <1>6 DEF View
  <2> QED
    BY <2>2, <2>3, <1>3, <1>4, <1>5 DEF IInv, PromiseInv, node, Stopped
<1> QED
  BY <1>7, <1>8, <1>9, <1>10, <1>11 DEF IInv

-----------------------------------------------------------------------------
\* The logs of a range are in it.
LEMMA LogsFetched ==
  ASSUME IInv, NEW from \in Nat, NEW to \in Nat, NEW force \in BOOLEAN,
         FetchLogs(from, to, force)
  PROVE  /\ request' \in Request
         /\ request'.from = from /\ request'.to = to /\ request'.force = force
         /\ \A b \in request'.logs : Number[b] \in from .. to
<1>1. LogsIn(from, to) \subseteq Block
  BY StreamAssumption DEF LogsIn, StreamAssumption
<1>2. \A b \in LogsIn(from, to) : Number[b] \in from .. to
  BY DEF LogsIn
<1> QED
  BY <1>1, <1>2 DEF FetchLogs, Request

\* backfillFinalizedBlocks: the logs of the range.
LEMMA BackfillLogsInv ==
  ASSUME IInv, BackfillLogs
  PROVE  IInv'
<1> DEFINE to == ClampedEnd(cursor + 1, Number[tracker.finalized])
<1>1. PICK force \in BOOLEAN : FetchLogs(cursor + 1, to, force)
  BY DEF BackfillLogs
<1>2. /\ pc = "backfill" /\ pc' = "backfillHeaders" /\ out' = {}
      /\ UNCHANGED <<node, failure, tracker, cursor, lastEmpty, due, joining,
                     view, client, restarts>>
  BY DEF BackfillLogs, Quiet
<1>3. /\ cursor \in Nat \union {-1} /\ Number[tracker.finalized] \in Nat
      /\ cursor < Number[tracker.finalized]
  BY <1>2, NumberNat DEF IInv, TypeOK, Tracker, RequestInv
<1>4. to \in Nat /\ cursor < to /\ to <= Number[tracker.finalized]
  BY <1>3, StreamAssumption DEF ClampedEnd, StreamAssumption
<1>5. /\ request' \in Request /\ request'.from = cursor + 1 /\ request'.to = to
      /\ \A b \in request'.logs : Number[b] \in cursor + 1 .. to
  BY <1>1, <1>3, <1>4, LogsFetched
<1>6. TypeOK'
  BY <1>2, <1>5 DEF IInv, TypeOK, node, ControlPoints
<1>7. TrackerInv'
  BY <1>2 DEF IInv, TrackerInv, node
<1>8. RequestInv' /\ CursorInv'
  BY <1>2, <1>4, <1>5 DEF IInv, RequestInv, CursorInv, Running, Stopped
<1>9. HeldInv'
  BY <1>2 DEF IInv, HeldInv, Running, Stopped, ResumesAbove, HeldBelow
<1>10. PromiseInv'
  BY <1>2 DEF IInv, PromiseInv, Stopped, node
<1> QED
  BY <1>6, <1>7, <1>8, <1>9, <1>10 DEF IInv

\* backfillFinalizedBlocks: what is promised is not above the finalized block.
LEMMA BackfillBlocksInv ==
  ASSUME IInv, BackfillBlocks
  PROVE  IInv'
<1> DEFINE msgs == FetchedData(request, "finalized")
<1>1. /\ pc = "backfillHeaders" /\ ~HeadersMissing(request) /\ cursor' = request.to
      /\ UNCHANGED <<tracker, lastEmpty>>
  BY DEF BackfillBlocks
<1>2. /\ request \in Request /\ request.from = cursor + 1 /\ cursor < request.to
      /\ request.to <= Number[tracker.finalized]
  BY <1>1 DEF IInv, TypeOK, RequestInv
<1>3. /\ view \in View /\ ResumesAbove(view) /\ HeldBelow(view, cursor) /\ Running
      /\ (Steady => view.promised <= Number[tracker.finalized])
  BY <1>1 DEF IInv, TypeOK, HeldInv, Running, Stopped, PromiseInv
<1>4. /\ request.from \in Nat /\ request.to \in Nat /\ cursor \in Int
      /\ Number[tracker.finalized] \in Nat /\ due \subseteq Timers
  BY <1>2, NumberNat DEF Request, IInv, TypeOK, Tracker
<1>5. cursor' \in Nat \union {-1} /\ lastEmpty' \in Nat \union {-1}
  BY <1>1, <1>4 DEF IInv, TypeOK
<1>6. /\ GoodTracker(tracker') /\ tracker'.finalized = tracker.finalized
      /\ cursor' <= Number[tracker'.finalized]
  BY <1>1, <1>2 DEF IInv, TrackerInv
<1>7. \A h \in view.held : Number[h.block] \in Nat
  BY <1>3, NumberNat DEF View, Item
<1>8. CASE DeliverNothing /\ due' = due
  <2>1. HeldBelow(view, cursor')
    BY <1>1, <1>2, <1>3, <1>4, <1>7 DEF HeldBelow
  <2>2. out' = {} /\ EndIteration(view)
    BY <1>8 DEF DeliverNothing
  <2> QED
    BY <1>3, <1>4, <1>5, <1>6, <1>8, <2>1, <2>2, EndIterationInv
<1>9. CASE \E last \in msgs : DeliverData(msgs, last) /\ due' = due \ {"heartbeat"}
  <2>1. PICK last \in msgs : DeliverData(msgs, last) /\ due' = due \ {"heartbeat"}
    BY <1>9
  <2>2. /\ out' = msgs /\ EndIteration(AfterData(view, msgs, last))
        /\ \A m \in msgs : Number[m.block] <= Number[last.block]
    BY <2>1 DEF DeliverData
  <2>3. \A m \in msgs : m \in Message /\ Number[m.block] \in HeaderNumbers(request)
    BY <1>1, FetchedMessages
  <2>4. \A n \in HeaderNumbers(request) : n \in request.from .. request.to
    BY <1>2, <1>4 DEF HeaderNumbers, IInv, RequestInv
  <2>5. Number[last.block] \in request.from .. request.to
    BY <2>3, <2>4
  <2>6. cursor <= Number[last.block] /\ Number[last.block] <= cursor'
        /\ Number[last.block] \in Nat
    BY <1>1, <1>2, <1>4, <2>5
  <2> DEFINE v == AfterData(view, msgs, last)
  <2>7. msgs \in SUBSET Message
    BY <2>3
  <2> HIDE DEF msgs
  <2>8. /\ v \in View /\ ResumesAbove(v) /\ HeldBelow(v, Number[last.block])
        /\ v.promised \in {view.promised, Number[last.block]}
    <3>1. last \in msgs
      BY <2>1
    <3>2. /\ v \in View /\ ResumesAbove(v) /\ HeldBelow(v, Number[last.block])
          /\ v.promised \in
               {view.promised} \union
                 (IF last.finality = "finalized" THEN {Number[last.block]} ELSE {})
      BY <3>1, <1>3, <1>4, <2>2, <2>6, <2>7, AfterDataView
    <3> QED
      BY <3>2
  <2>9. HeldBelow(v, cursor')
    <3> SUFFICES ASSUME NEW h \in v.held, h.logs # NoBlock
                 PROVE  Number[h.block] <= cursor'
      BY DEF HeldBelow
    <3>1. Number[h.block] <= Number[last.block] /\ Number[h.block] \in Nat
      BY <2>8, NumberNat DEF HeldBelow, View, Item
    <3> QED
      BY <3>1, <2>6, <1>1, <1>4
  <2>10. Steady => v.promised <= Number[tracker.finalized]
    BY <1>1, <1>2, <1>3, <1>4, <2>6, <2>8
  <2>11. out' \subseteq Message /\ due' \subseteq Timers
    BY <1>4, <2>1, <2>2, <2>7
  <2> HIDE DEF v
  <2> QED
    BY <1>3, <1>5, <1>6, <2>2, <2>8, <2>9, <2>10, <2>11, EndIterationInv DEF v
<1> QED
  BY <1>8, <1>9 DEF BackfillBlocks

\* The wait for a new head ends.
LEMMA WaitReturnsInv ==
  ASSUME IInv, WaitReturns
  PROVE  IInv'
<1>1. pc = "wait" /\ out' = {} /\ EndIteration(view)
      /\ UNCHANGED <<tracker, cursor, lastEmpty, due>>
  BY DEF WaitReturns, DeliverNothing
<1>2. /\ view \in View /\ ResumesAbove(view) /\ HeldBelow(view, cursor) /\ Running
      /\ (Steady => view.promised <= Number[tracker.finalized])
      /\ due \subseteq Timers
      /\ cursor \in Nat \union {-1} /\ lastEmpty \in Nat \union {-1}
      /\ GoodTracker(tracker)
      /\ cursor <= Number[tracker.head] \/ cursor <= Number[tracker.finalized]
  BY <1>1 DEF IInv, TypeOK, HeldInv, Running, Stopped, PromiseInv, TrackerInv,
              CursorInv
<1> QED
  BY <1>1, <1>2, EndIterationInv DEF HeldBelow

-----------------------------------------------------------------------------
\* A head polled: what the tracker answers keeps it good, and a reorganization
\* goes back to a block that is not below the finalized one.
LEMMA HeadAnswer ==
  ASSUME IInv, NEW h \in LatestAnswers, NEW a, a = UpdateHead(tracker, h)
  PROVE  /\ GoodTracker(a.tracker) /\ a.tracker.finalized = tracker.finalized
         /\ a.tracker.head \in Block /\ a.reason \in Failures
         /\ a.status = "reorg" =>
              Number[tracker.finalized] <= Number[a.tracker.head]
         /\ a.status \in {"unchanged", "success"} => a.tracker.head = h
         /\ a.status \in {"unchanged", "success", "join"} =>
              /\ Number[tracker.head] <= Number[h]
              /\ Number[tracker.finalized] <= Number[h]
<1>1. h \in Block /\ Number[final] <= Number[h]
  BY NodeAnswers
<1>2. /\ GoodTracker(tracker) /\ Number[tracker.finalized] <= Number[final]
      /\ Number[tracker.finalized] \in Nat /\ Number[final] \in Nat
      /\ Number[h] \in Nat
  BY <1>1, NumberNat DEF IInv, TypeOK, TrackerInv, Tracker
<1>3. Number[tracker.finalized] <= Number[h]
  BY <1>1, <1>2
<1>4. /\ GoodTracker(a.tracker) /\ a.tracker.finalized = tracker.finalized
      /\ a.reason \in Reasons
      /\ a.status = "reorg" => Number[tracker.finalized] <= Number[a.tracker.head]
      /\ a.status \in {"unchanged", "success"} =>
           a.tracker.head = h /\ Number[tracker.head] <= Number[h]
      /\ a.status = "join" => Number[tracker.head] < Number[h]
  BY <1>1, <1>2, <1>3, UpdateHeadGood
<1> QED
  <2>1. a.tracker \in Tracker /\ Number[tracker.head] \in Nat
    BY <1>4, NumberNat DEF GoodTracker, IInv, TypeOK, Tracker
  <2> QED
    BY <1>2, <1>3, <1>4, <2>1 DEF Tracker, Failures

\* Where the stream polls, it runs.
LEMMA PollRuns ==
  ASSUME IInv, pc \in {"live", "wait", "join", "liveBlocks", "liveHeaders"}
  PROVE  /\ Running /\ view \in View /\ ResumesAbove(view) /\ ResumesAbove(client)
         /\ HeldBelow(view, cursor)
         /\ Steady => view.promised <= Number[tracker.finalized]
         /\ \/ cursor <= Number[tracker.head]
            \/ cursor <= Number[tracker.finalized]
         /\ GoodTracker(tracker) /\ due \subseteq Timers
         /\ cursor \in Nat \union {-1} /\ lastEmpty \in Nat \union {-1}
BY DEF IInv, TypeOK, TrackerInv, CursorInv, HeldInv, Running, Stopped, PromiseInv

\* The tracker moves, and nothing else but the control point.
LEMMA TrackerMovesInv ==
  ASSUME IInv, pc \in {"live", "wait", "join"},
         pc' \in {"live", "wait", "liveBlocks", "join"},
         GoodTracker(tracker'), tracker'.finalized = tracker.finalized, Quiet,
         joining' \in [target : Block, from : Nat, caller : {"none", "live", "wait"}],
         pc' = "join" => joining'.from > 0,
         UNCHANGED <<node, failure, cursor, lastEmpty, due, request>>,
         CursorInv'
  PROVE  IInv'
<1>1. TypeOK'
  BY DEF IInv, TypeOK, Quiet, node, ControlPoints, Resting, GoodTracker
<1>2. TrackerInv'
  BY DEF IInv, TrackerInv, node
<1>3. RequestInv'
  BY DEF IInv, RequestInv
<1>4. HeldInv'
  BY PollRuns DEF HeldInv, Quiet, ResumesAbove, HeldBelow
<1>5. PromiseInv'
  BY DEF IInv, PromiseInv, Quiet, node, Stopped
<1> QED
  BY <1>1, <1>2, <1>3, <1>4, <1>5 DEF IInv

\* The head is followed, or has not changed.
LEMMA HeadFollowedInv ==
  ASSUME IInv, HeadFollowed
  PROVE  IInv'
<1>1. PICK h \in LatestAnswers :
        /\ UpdateHead(tracker, h).status \in {"unchanged", "success"}
        /\ tracker' = UpdateHead(tracker, h).tracker
  BY DEF HeadFollowed
<1>2. pc \in {"live", "wait"} /\ out' = {} /\ UNCHANGED <<cursor, lastEmpty, due>>
  BY DEF HeadFollowed, Polling
<1>3. GoodTracker(tracker') /\ tracker'.finalized = tracker.finalized
  BY <1>1, HeadAnswer
<1>4. cursor' <= Number[tracker'.head]
  <2>1. /\ tracker'.head = h /\ Number[tracker.head] <= Number[h]
        /\ Number[tracker.finalized] <= Number[h] /\ h \in Block
    BY <1>1, HeadAnswer, NodeAnswers
  <2>2. /\ cursor \in Int /\ Number[h] \in Nat /\ Number[tracker.head] \in Nat
        /\ Number[tracker.finalized] \in Nat
    BY <2>1, NumberNat DEF IInv, TypeOK, Tracker
  <2> QED
    BY <1>2, <2>1, <2>2, PollRuns
<1>5. CASE pc = "live"
  <2>1. /\ pc' = "liveBlocks"
        /\ UNCHANGED <<node, failure, request, joining, view, client, restarts>>
    BY <1>5 DEF HeadFollowed
  <2>2. joining \in [target : Block, from : Nat, caller : {"none", "live", "wait"}]
    BY DEF IInv, TypeOK
  <2>3. CursorInv'
    BY <1>4, <2>1 DEF CursorInv
  <2> QED
    BY <1>2, <1>3, <1>5, <2>1, <2>2, <2>3, TrackerMovesInv DEF Quiet
<1>6. CASE pc = "wait"
  <2>1. EndIteration(view)
    BY <1>6 DEF HeadFollowed
  <2>2. HeldBelow(view, cursor')
    BY <1>2, PollRuns DEF HeldBelow
  <2> QED
    BY <1>2, <1>3, <1>4, <1>6, <2>1, <2>2, PollRuns, EndIterationInv
<1> QED
  BY <1>2, <1>5, <1>6

\* A reorganization that involves blocks already processed.
LEMMA HeadReorgedInv ==
  ASSUME IInv, HeadReorged
  PROVE  IInv'
<1>1. PICK h \in LatestAnswers :
        LET a == UpdateHead(tracker, h) IN
          /\ tracker' = a.tracker
          /\ cursor' = Number[a.tracker.head] /\ lastEmpty' = -1
          /\ out' = {Invalidate(a.tracker.head)}
          /\ IF pc = "live"
             THEN EndIteration(AfterInvalidate(view, a.tracker.head))
             ELSE /\ view' = AfterInvalidate(view, a.tracker.head)
                  /\ UNCHANGED <<node, pc, failure, request, joining, client,
                                 restarts>>
  BY DEF HeadReorged
<1> DEFINE b == tracker'.head
           v == AfterInvalidate(view, b)
<1>2. pc \in {"live", "wait"} /\ UNCHANGED due
  BY DEF HeadReorged, Polling
<1>3. /\ GoodTracker(tracker') /\ tracker'.finalized = tracker.finalized
      /\ b \in Block /\ Number[b] \in Nat
  BY <1>1, HeadAnswer, NumberNat
<1>4. /\ cursor' = Number[b] /\ lastEmpty' = -1 /\ out' = {Invalidate(b)}
      /\ IF pc = "live" THEN EndIteration(v)
         ELSE view' = v /\ UNCHANGED <<node, pc, failure, request, joining, client,
                                       restarts>>
  BY <1>1
<1>5. out' \subseteq Message
  BY <1>3, <1>4 DEF Invalidate, Message
<1>6. /\ v \in View /\ ResumesAbove(v) /\ HeldBelow(v, Number[b])
      /\ v.promised = view.promised
  BY <1>2, <1>3, PollRuns, AfterInvalidateView
<1> HIDE DEF v
<1>7. CASE pc = "live"
  <2>1. Steady => v.promised <= Number[tracker.finalized]
    BY <1>2, <1>6, PollRuns
  <2> QED
    BY <1>2, <1>3, <1>4, <1>5, <1>6, <1>7, <2>1, PollRuns, EndIterationInv
<1>8. CASE pc = "wait"
  <2>1. view' = v /\ UNCHANGED <<node, pc, failure, request, joining, client, restarts>>
    BY <1>4, <1>8
  <2>2. TypeOK'
    BY <1>2, <1>3, <1>4, <1>5, <1>6, <2>1 DEF IInv, TypeOK, node, GoodTracker
  <2>3. TrackerInv'
    BY <1>3, <2>1 DEF IInv, TrackerInv, node
  <2>4. RequestInv'
    BY <1>8, <2>1 DEF IInv, RequestInv
  <2>7. CursorInv'
    BY <1>3, <1>4, <1>8, <2>1 DEF CursorInv
  <2>5. HeldInv'
    <3>1. ResumesAbove(client)
      BY <1>2, PollRuns
    <3> QED
      BY <1>4, <1>6, <1>8, <2>1, <3>1 DEF HeldInv, ResumesAbove, HeldBelow
  <2>6. PromiseInv'
    BY <1>3, <1>6, <1>8, <2>1 DEF IInv, PromiseInv, node, Stopped
  <2> QED
    BY <2>2, <2>3, <2>4, <2>5, <2>6, <2>7 DEF IInv
<1> QED
  BY <1>2, <1>7, <1>8

\* The other answers of the tracker.
LEMMA HeadOtherwiseInv ==
  ASSUME IInv, HeadReorgedAhead \/ HeadNeedsJoin \/ HeadFails
  PROVE  IInv'
<1>1. CASE HeadReorgedAhead
  <2>1. PICK h \in LatestAnswers :
          LET a == UpdateHead(tracker, h) IN
            ~ShouldInvalidate(a.tracker.head) /\ tracker' = a.tracker
    BY <1>1 DEF HeadReorgedAhead
  <2>2. /\ GoodTracker(tracker') /\ tracker'.finalized = tracker.finalized
        /\ tracker'.head \in Block
    BY <2>1, HeadAnswer
  <2>3. joining \in [target : Block, from : Nat, caller : {"none", "live", "wait"}]
    BY DEF IInv, TypeOK
  <2>4. pc \in {"live", "wait"} /\ pc' \in {"liveBlocks", "wait"}
    BY <1>1 DEF HeadReorgedAhead, Polling
  <2>5. UNCHANGED <<cursor, lastEmpty, joining, request>> /\ Quiet
    BY <1>1 DEF HeadReorgedAhead
  <2>6. cursor' <= Number[tracker'.head]
    <3>1. ~(Number[tracker'.head] < cursor)
      BY <2>1 DEF ShouldInvalidate
    <3>2. Number[tracker'.head] \in Nat /\ cursor \in Int
      BY <2>2, NumberNat DEF IInv, TypeOK
    <3> QED
      BY <2>5, <3>1, <3>2
  <2>7. CursorInv'
    BY <2>4, <2>6 DEF CursorInv
  <2> QED
    BY <1>1, <2>2, <2>3, <2>4, <2>7, TrackerMovesInv DEF HeadReorgedAhead
<1>2. CASE HeadNeedsJoin
  <2>1. PICK h \in LatestAnswers :
          /\ UpdateHead(tracker, h).status = "join"
          /\ joining' = [target |-> h, from |-> Number[tracker.head] + 1, caller |-> pc]
    BY <1>2 DEF HeadNeedsJoin
  <2>2. h \in Block /\ Number[tracker.head] \in Nat
    BY NodeAnswers, NumberNat DEF IInv, TypeOK, Tracker
  <2>3. pc \in {"live", "wait"}
    BY <1>2 DEF HeadNeedsJoin, Polling
  <2>4. /\ joining' \in [target : Block, from : Nat, caller : {"none", "live", "wait"}]
        /\ joining'.from > 0
    BY <2>1, <2>2, <2>3
  <2>5. GoodTracker(tracker') /\ tracker'.finalized = tracker.finalized
    BY <1>2 DEF HeadNeedsJoin, IInv, TrackerInv
  <2>6. UNCHANGED <<tracker, cursor>> /\ pc' = "join"
    BY <1>2 DEF HeadNeedsJoin
  <2>7. cursor <= Number[h]
    <3>1. Number[tracker.head] <= Number[h] /\ Number[tracker.finalized] <= Number[h]
      BY <2>1, HeadAnswer
    <3>2. cursor \in Int /\ Number[h] \in Nat /\ Number[tracker.finalized] \in Nat
      BY <2>2, NumberNat DEF IInv, TypeOK, Tracker
    <3> QED
      BY <2>2, <2>3, <3>1, <3>2, PollRuns
  <2>8. CursorInv'
    BY <2>1, <2>3, <2>6, <2>7, PollRuns DEF CursorInv
  <2> QED
    BY <1>2, <2>3, <2>4, <2>5, <2>8, TrackerMovesInv DEF HeadNeedsJoin
<1>3. CASE HeadFails
  <2>1. PICK h \in LatestAnswers :
          \/ Fail(UpdateHead(tracker, h).reason) \/ Fail("missingFetchedParent")
    BY <1>3 DEF HeadFails
  <2>2. UpdateHead(tracker, h).reason \in Failures
    BY HeadAnswer
  <2> QED
    BY <2>1, <2>2, FailInv DEF Failures
<1> QED
  BY <1>1, <1>2, <1>3

-----------------------------------------------------------------------------
\* A batch of a join.
LEMMA JoinInv ==
  ASSUME IInv, JoinFetched \/ JoinDone \/ JoinFails
  PROVE  IInv'
<1> DEFINE a == JoinBatch(tracker, joining.target, joining.from, tip)
<1>1. /\ joining \in [target : Block, from : Nat, caller : {"none", "live", "wait"}]
      /\ pc = "join" /\ joining.from \in Nat \ {0}
      /\ tip \in Block /\ GoodTracker(tracker)
  BY DEF IInv, TypeOK, RequestInv, TrackerInv, JoinFetched, JoinDone, JoinFails
<1>2. /\ GoodTracker(a.tracker) /\ a.tracker.finalized = tracker.finalized
      /\ a.reason \in Reasons
      /\ a.status = "success" => a.tracker.head = joining.target
      /\ a.status = "join" => a.tracker.head = tracker.head
  <2>1. joining.target \in Block
    BY <1>1
  <2> QED
    BY <1>1, <2>1, JoinBatchGood
<1> HIDE DEF a
<1>6. /\ cursor <= Number[joining.target]
      /\ cursor <= Number[tracker.head] \/ cursor <= Number[tracker.finalized]
  BY <1>1, PollRuns DEF IInv, CursorInv
<1>3. CASE JoinFetched
  <2>1. /\ tracker' = a.tracker
        /\ joining' = [joining EXCEPT !.from = JoinEnd(joining.target, @) + 1]
    BY <1>3 DEF JoinFetched, a
  <2>2. JoinEnd(joining.target, joining.from) \in Nat
    BY <1>1, NumberNat, BatchSizeAssumption DEF JoinEnd
  <2>3. /\ joining' \in [target : Block, from : Nat, caller : {"none", "live", "wait"}]
        /\ joining'.from > 0
    BY <1>1, <2>1, <2>2
  <2>4. CursorInv'
    <3>1. /\ UNCHANGED <<pc, cursor>> /\ joining'.target = joining.target
          /\ a.status = "join"
      BY <1>1, <1>3, <2>1 DEF JoinFetched, a
    <3> QED
      BY <1>1, <1>2, <1>6, <2>1, <3>1 DEF CursorInv
  <2> QED
    BY <1>1, <1>2, <1>3, <2>1, <2>3, <2>4, TrackerMovesInv DEF JoinFetched
<1>4. CASE JoinDone
  <2>1. /\ tracker' = a.tracker /\ a.status = "success" /\ out' = {}
        /\ UNCHANGED <<cursor, lastEmpty, due>>
    BY <1>4 DEF JoinDone, a
  <2>4. cursor' <= Number[tracker'.head]
    BY <1>2, <1>6, <2>1
  <2>2. CASE joining.caller = "live"
    <3>1. /\ pc' = "liveBlocks" /\ joining' = NoJoin
          /\ UNCHANGED <<node, failure, request, view, client, restarts>>
      BY <1>4, <2>2 DEF JoinDone
    <3>2. NoJoin \in [target : Block, from : Nat, caller : {"none", "live", "wait"}]
      BY StreamAssumption DEF StreamAssumption, NoJoin
    <3>3. CursorInv'
      BY <2>4, <3>1 DEF CursorInv
    <3> QED
      BY <1>1, <1>2, <2>1, <3>1, <3>2, <3>3, TrackerMovesInv DEF Quiet
  <2>3. CASE joining.caller # "live"
    <3>1. EndIteration(view)
      BY <1>4, <2>3 DEF JoinDone
    <3>2. HeldBelow(view, cursor')
      BY <1>1, <2>1, PollRuns DEF HeldBelow
    <3> QED
      BY <1>1, <1>2, <2>1, <2>4, <3>1, <3>2, PollRuns, EndIterationInv
  <2> QED
    BY <2>2, <2>3
<1>5. CASE JoinFails
  BY <1>2, <1>5, FailInv DEF JoinFails, Failures, a
<1> QED
  BY <1>3, <1>4, <1>5

-----------------------------------------------------------------------------
\* produceLiveBlocks: the logs of the range.
LEMMA LiveLogsInv ==
  ASSUME IInv, LiveLogs
  PROVE  IInv'
<1> DEFINE to == Number[tracker.head]
<1>1. /\ pc = "liveBlocks" /\ pc' = "liveHeaders" /\ out' = {}
      /\ FetchLogs(cursor + 1, to, FALSE) /\ ~LiveRangeIsEmpty
      /\ UNCHANGED <<node, failure, tracker, cursor, lastEmpty, due, joining,
                     view, client, restarts>>
  BY DEF LiveLogs, Quiet
<1>2. cursor + 1 \in Nat /\ to \in Nat
  BY NumberNat DEF IInv, TypeOK, Tracker
<1>3. /\ request' \in Request /\ request'.from = cursor + 1 /\ request'.to = to
      /\ ~request'.force
      /\ \A b \in request'.logs : Number[b] \in request'.from .. request'.to
  BY <1>1, <1>2, LogsFetched
<1>4. TypeOK'
  BY <1>1, <1>3 DEF IInv, TypeOK, node, ControlPoints
<1>5. TrackerInv'
  BY <1>1 DEF IInv, TrackerInv, node
<1>6. RequestInv' /\ CursorInv'
  BY <1>1, <1>3 DEF IInv, RequestInv, CursorInv
<1>7. HeldInv'
  BY <1>1, PollRuns DEF HeldInv, ResumesAbove, HeldBelow
<1>8. PromiseInv'
  BY <1>1 DEF IInv, PromiseInv, Stopped, node
<1> QED
  BY <1>4, <1>5, <1>6, <1>7, <1>8 DEF IInv

\* produceLiveBlocks: the header of the head, without logs.
LEMMA LiveEmptyInv ==
  ASSUME IInv, LiveEmpty
  PROVE  IInv'
<1> DEFINE header == Data(tracker.head, NoBlock, "accepted")
           v == AfterData(view, {header}, header)
<1>1. pc = "liveBlocks" /\ UNCHANGED <<tracker, cursor, due>>
  BY DEF LiveEmpty
<1>2. tracker.head \in Block /\ Number[tracker.head] \in Nat /\ NoBlock \notin Block
      /\ cursor <= Number[tracker.head] /\ cursor \in Int
  BY <1>1, NumberNat, StreamAssumption
     DEF IInv, TypeOK, Tracker, StreamAssumption, CursorInv
<1>3. CASE /\ out' = {header} /\ EndIteration(v)
           /\ lastEmpty' = Number[tracker.head]
           /\ Number[tracker.head] > lastEmpty
  <2>1. header \in Message /\ header.block = tracker.head /\ header.logs = NoBlock
        /\ header.finality = "accepted"
    BY <1>2 DEF Data, Message
  <2>2. /\ v.held = view.held \union {[block |-> tracker.head, logs |-> NoBlock]}
        /\ v.resume = tracker.head /\ v.promised = view.promised /\ v \in View
    BY <1>1, <1>2, <2>1, PollRuns DEF AfterData, View, Item
  <2> HIDE DEF v, header
  <2>3. ASSUME NEW h \in v.held, h.logs # NoBlock
        PROVE  Number[h.block] <= cursor /\ Number[h.block] \in Nat
    <3>1. HeldBelow(view, cursor) /\ view \in View
      BY <1>1, PollRuns
    <3>2. h \in view.held
      BY <2>2, <2>3
    <3> QED
      BY <2>3, <3>1, <3>2, NumberNat DEF HeldBelow, View, Item
  <2>4. HeldBelow(v, cursor')
    BY <1>1, <2>3 DEF HeldBelow
  <2>5. ResumesAbove(v)
    <3> SUFFICES ASSUME NEW h \in v.held, h.logs # NoBlock
                 PROVE  v.resume # NoBlock /\ Number[h.block] <= Number[v.resume]
      BY DEF ResumesAbove
    <3>1. Number[h.block] <= cursor /\ Number[h.block] \in Nat
      BY <2>3
    <3> QED
      BY <1>2, <2>2, <3>1
  <2> QED
    BY <1>1, <1>2, <1>3, <2>1, <2>2, <2>4, <2>5, PollRuns, EndIterationInv
<1>4. CASE out' = {} /\ EndIteration(view) /\ UNCHANGED lastEmpty
  <2>1. HeldBelow(view, cursor')
    BY <1>1, PollRuns DEF HeldBelow
  <2> QED
    BY <1>1, <1>4, <2>1, PollRuns, EndIterationInv
<1> QED
  BY <1>3, <1>4 DEF LiveEmpty, DeliverData, DeliverNothing

\* produceLiveBlocks: the blocks of the range.
LEMMA LiveBlocksInv ==
  ASSUME IInv, LiveBlocks
  PROVE  IInv'
<1> DEFINE msgs == FetchedData(request, "accepted")
<1>1. /\ pc = "liveHeaders" /\ ~HeadersMissing(request)
      /\ due' = due \ {"heartbeat"} /\ UNCHANGED <<tracker, lastEmpty>>
  BY DEF LiveBlocks
<1>2. PICK last \in msgs : DeliverData(msgs, last) /\ cursor' = Number[last.block]
  BY DEF LiveBlocks
<1>3. \A m \in msgs : /\ m \in Message /\ m.finality = "accepted"
                      /\ Number[m.block] \in HeaderNumbers(request)
  BY <1>1, FetchedMessages
<1>4. \A n \in HeaderNumbers(request) : n \in request.from .. request.to
  <2>1. ~request.force /\ \A b \in request.logs : Number[b] \in request.from .. request.to
    BY <1>1 DEF IInv, RequestInv
  <2> QED
    BY <2>1 DEF HeaderNumbers
<1>5. request.from = cursor + 1 /\ request \in Request
  BY <1>1 DEF IInv, TypeOK, RequestInv
<1>6. last \in Message /\ last.block \in Block /\ Number[last.block] \in Nat
      /\ last.finality = "accepted"
  BY <1>2, <1>3, NumberNat DEF Message
<1>7. /\ cursor \in Int /\ cursor <= Number[last.block]
      /\ Number[last.block] <= Number[tracker.head]
  <2>1. Number[last.block] \in request.from .. request.to
    BY <1>2, <1>3, <1>4
  <2> QED
    BY <1>1, <1>5, <1>6, <2>1 DEF Request, IInv, TypeOK, CursorInv
<1>8. /\ out' = msgs /\ EndIteration(AfterData(view, msgs, last))
      /\ \A m \in msgs : Number[m.block] <= Number[last.block]
  BY <1>2 DEF DeliverData
<1>9. msgs \in SUBSET Message /\ last \in msgs
  BY <1>2, <1>3
<1> HIDE DEF msgs
<1> DEFINE v == AfterData(view, msgs, last)
<1>10. /\ v \in View /\ ResumesAbove(v) /\ HeldBelow(v, Number[last.block])
       /\ v.promised \in
            {view.promised} \union
              (IF last.finality = "finalized" THEN {Number[last.block]} ELSE {})
  BY <1>1, <1>7, <1>8, <1>9, PollRuns, AfterDataView
<1>11. v.promised = view.promised
  BY <1>6, <1>10
<1> HIDE DEF v
<1>12. HeldBelow(v, cursor')
  BY <1>2, <1>10
<1>13. out' \subseteq Message /\ due' \subseteq Timers /\ EndIteration(v)
  BY <1>1, <1>8, <1>9, PollRuns DEF v
<1> QED
  BY <1>1, <1>2, <1>6, <1>7, <1>10, <1>11, <1>12, <1>13, PollRuns, EndIterationInv

-----------------------------------------------------------------------------
\* Time, the head that is kept, and the exceptions of the other requests.
LEMMA OtherStepsInv ==
  ASSUME IInv,
         \/ \E t \in Timers : Elapse(t)
         \/ KeepHead \/ RejectStartingCursor \/ RefreshFinalizedFails
         \/ LiveEmptyFails \/ LiveBlocksFail
  PROVE  IInv'
<1>1. ASSUME NEW t \in Timers, Elapse(t)
      PROVE  IInv'
  <2>1. due' \subseteq Timers /\ pc' = pc
    BY <1>1 DEF Elapse, IInv, TypeOK
  <2> QED
    BY <1>1, <2>1, QuietInv DEF Elapse
<1>2. CASE KeepHead
  <2>1. pc = "live" /\ pc' = "liveBlocks" /\ due' = due
    BY <1>2 DEF KeepHead
  <2>2. cursor <= Number[tracker.head]
    <3>1. /\ Number[tracker.head] \in Nat /\ Number[tracker.finalized] \in Nat
          /\ cursor \in Int /\ Number[tracker.finalized] <= Number[tracker.head]
      BY <1>2, NumberNat DEF KeepHead, IInv, TypeOK, Tracker
    <3> QED
      BY <2>1, <3>1, PollRuns
  <2> QED
    BY <1>2, <2>1, <2>2, PollRuns, QuietInv DEF KeepHead
<1>3. CASE \/ RejectStartingCursor \/ RefreshFinalizedFails
           \/ LiveEmptyFails \/ LiveBlocksFail
  <2>1. \E reason \in Failures : Fail(reason)
    BY <1>3
       DEF RejectStartingCursor, RefreshFinalizedFails, LiveEmptyFails,
           LiveBlocksFail, Failures, Reasons
  <2> QED
    BY <2>1, FailInv
<1> QED
  BY <1>1, <1>2, <1>3

\* A restart: what the consumer was promised is still final.
LEMMA RestartInv ==
  ASSUME IInv, Restart
  PROVE  IInv'
<1>1. Genesis \in Block /\ Number[Genesis] = 0
  BY StreamAssumption DEF StreamAssumption
<1>2. GoodTracker(tracker') /\ tracker'.finalized = Genesis
  <2>1. GoodTracker(NewTracker(Genesis, Genesis))
    BY <1>1, NewTrackerGood
  <2> QED
    BY <2>1 DEF Restart, NewTracker
<1>3. /\ pc' = "init" /\ view' = client /\ restarts < MaxRestarts
      /\ UNCHANGED <<node, client>>
  BY DEF Restart
<1>4. /\ MaxRestarts \in Nat /\ restarts \in 0 .. MaxRestarts
      /\ client \in View
  BY StreamAssumption DEF StreamAssumption, IInv, TypeOK
<1>5. TypeOK'
  <2>1. NoRequest \in Request
        /\ NoJoin \in [target : Block, from : Nat, caller : {"none", "live", "wait"}]
    BY <1>1 DEF NoRequest, NoJoin, Request
  <2> QED
    BY <1>2, <1>3, <1>4, <2>1
       DEF IInv, TypeOK, Restart, node, GoodTracker, ControlPoints, Resting,
           Failures, Reasons
<1>6. TrackerInv'
  <2>1. Number[final] \in Nat
    BY NumberNat DEF IInv, TypeOK
  <2> QED
    BY <1>1, <1>2, <1>3, <2>1 DEF IInv, TrackerInv, node
<1>7. RequestInv' /\ CursorInv'
  BY <1>3 DEF RequestInv, CursorInv, Restart, NoRequest, Running, Stopped
<1>8. HeldInv'
  BY <1>3 DEF IInv, HeldInv, Running, Stopped, ResumesAbove
<1>9. PromiseInv'
  BY <1>3, <1>4 DEF IInv, PromiseInv, Steady, Stopped, node
<1> QED
  BY <1>5, <1>6, <1>7, <1>8, <1>9 DEF IInv

-----------------------------------------------------------------------------
\* Every step keeps the invariant.
LEMMA NextInv == IInv /\ [Next]_vars => IInv'
<1> SUFFICES ASSUME IInv, [Next]_vars PROVE IInv'
  OBVIOUS
<1>1. CASE NodeStep
  BY <1>1, NodeInv
<1>2. CASE \/ Initialize \/ InitializeCursor \/ StopAtEnding \/ BeginIteration
           \/ RefreshFinalized
  BY <1>2, InitializeInv, InitializeCursorInv, LoopInv, RefreshFinalizedInv
<1>3. CASE BackfillLogs \/ BackfillBlocks \/ WaitReturns
  BY <1>3, BackfillLogsInv, BackfillBlocksInv, WaitReturnsInv
<1>4. CASE Poll
  BY <1>4, HeadFollowedInv, HeadReorgedInv, HeadOtherwiseInv DEF Poll
<1>5. CASE JoinFetched \/ JoinDone \/ JoinFails
  BY <1>5, JoinInv
<1>6. CASE LiveLogs \/ LiveEmpty \/ LiveBlocks
  BY <1>6, LiveLogsInv, LiveEmptyInv, LiveBlocksInv
<1>7. CASE \/ \E t \in Timers : Elapse(t)
           \/ KeepHead \/ RejectStartingCursor \/ RefreshFinalizedFails
           \/ LiveEmptyFails \/ LiveBlocksFail
  BY <1>7, OtherStepsInv
<1>8. CASE Restart
  BY <1>8, RestartInv
<1>9. CASE UNCHANGED vars
  BY <1>9
     DEF vars, node, stream, consumer, IInv, TypeOK, TrackerInv, CursorInv,
         RequestInv, HeldInv, PromiseInv, Running, ResumesAbove, HeldBelow,
         HasStartingCursor
<1> QED
  BY <1>1, <1>2, <1>3, <1>4, <1>5, <1>6, <1>7, <1>8, <1>9 DEF Next, StreamStep

\* The inductive invariant holds throughout, for every block tree and every
\* value of the constants.
THEOREM Invariance == Spec => []IInv
<1> QED
  BY InitInv, NextInv, PTL DEF Spec

\* The variables keep their types; in particular the canonical map of the
\* tracker holds one block per number, whatever the node answers.
THEOREM TypeCorrect == Spec => []TypeOK
<1>1. IInv => TypeOK
  BY DEF IInv
<1> QED
  BY <1>1, Invariance, PTL

\* A step of the stream other than HeadReorged produces no invalidate message.
LEMMA OnlyReorgsInvalidate ==
  ASSUME IInv, Next, NEW m \in out', m.type = "invalidate"
  PROVE  HeadReorged
<1> SUFFICES ASSUME ~HeadReorged PROVE FALSE
  OBVIOUS
<1>1. CASE out' = {}
  BY <1>1
<1>2. CASE RefreshFinalized
  BY <1>2 DEF RefreshFinalized, Finalize
<1>3. CASE BackfillBlocks
  BY <1>3, FetchedMessages DEF BackfillBlocks, DeliverData, DeliverNothing
<1>4. CASE LiveBlocks
  BY <1>4, FetchedMessages DEF LiveBlocks, DeliverData
<1>5. CASE LiveEmpty
  BY <1>5 DEF LiveEmpty, DeliverData, DeliverNothing, Data
<1>6. CASE NodeStep \/ (\E t \in Timers : Elapse(t)) \/ Restart
  BY <1>1, <1>6 DEF NodeStep, Extend, Reorg, FinalizeBlock, Elapse, Quiet, Restart
<1>7. CASE \/ Initialize \/ InitializeCursor \/ RejectStartingCursor
           \/ StopAtEnding \/ BeginIteration \/ RefreshFinalizedFails
           \/ BackfillLogs
  BY <1>1, <1>7
     DEF Initialize, InitializeCursor, RejectStartingCursor, StopAtEnding,
         BeginIteration, RefreshFinalizedFails, BackfillLogs, Quiet, Fail
<1>8. CASE \/ HeadFollowed \/ HeadReorgedAhead \/ HeadNeedsJoin \/ HeadFails
           \/ JoinFetched \/ JoinDone \/ JoinFails \/ WaitReturns
  BY <1>1, <1>8
     DEF HeadFollowed, HeadReorgedAhead, HeadNeedsJoin, HeadFails, JoinFetched,
         JoinDone, JoinFails, WaitReturns, DeliverNothing, Quiet, Fail
<1>9. CASE KeepHead \/ LiveLogs \/ LiveEmptyFails \/ LiveBlocksFail
  BY <1>1, <1>9 DEF KeepHead, LiveLogs, LiveEmptyFails, LiveBlocksFail, Quiet, Fail
<1> QED
  BY <1>2, <1>3, <1>4, <1>5, <1>6, <1>7, <1>8, <1>9 DEF Next, StreamStep, Poll

\* A block the consumer was told cannot be invalidated never is, for every chain
\* and every order of its events, if the node answers with its last blocks or
\* the consumer is not restarted.
THEOREM PromiseIsKept == Spec /\ Steady => PromiseKept
<1> SUFFICES ASSUME Steady PROVE Spec => PromiseKept
  OBVIOUS
<1>1. ASSUME IInv, [Next]_vars
      PROVE  [\A m \in out' : m.type = "invalidate" =>
                 Number[m.block] >= view.promised]_vars
  <2> SUFFICES ASSUME Next, NEW m \in out', m.type = "invalidate"
               PROVE  Number[m.block] >= view.promised
    BY <1>1
  <2>1. HeadReorged
    BY <1>1, OnlyReorgsInvalidate
  <2>2. PICK h \in LatestAnswers :
          LET a == UpdateHead(tracker, h) IN
            a.status = "reorg" /\ out' = {Invalidate(a.tracker.head)}
    BY <2>1 DEF HeadReorged
  <2> DEFINE a == UpdateHead(tracker, h)
  <2>3. /\ a.tracker.head \in Block
        /\ Number[tracker.finalized] <= Number[a.tracker.head]
    BY <1>1, <2>2, HeadAnswer
  <2>4. m.block = a.tracker.head
    BY <2>2 DEF Invalidate
  <2>5. view.promised <= Number[tracker.finalized]
    BY <1>1, <2>1, PollRuns DEF HeadReorged, Polling
  <2>6. /\ view.promised \in Int /\ Number[tracker.finalized] \in Nat
        /\ Number[a.tracker.head] \in Nat
    BY <1>1, <2>3, NumberNat DEF IInv, TypeOK, View, Tracker
  <2> HIDE DEF a
  <2> QED
    BY <2>3, <2>4, <2>5, <2>6
<1> QED
  BY <1>1, Invariance, PTL DEF Spec, PromiseKept

\* Blocks with logs come from the two fetches of a range only.
LEMMA OnlyFetchesSendLogs ==
  ASSUME IInv, Next, NEW m \in out', m.type = "data", m.logs # NoBlock
  PROVE  BackfillBlocks \/ LiveBlocks
<1> SUFFICES ASSUME ~BackfillBlocks, ~LiveBlocks PROVE FALSE
  OBVIOUS
<1>1. CASE out' = {}
  BY <1>1
<1>2. CASE RefreshFinalized
  BY <1>2 DEF RefreshFinalized, Finalize
<1>3. CASE HeadReorged
  BY <1>3 DEF HeadReorged, Invalidate
<1>4. CASE LiveEmpty
  BY <1>4 DEF LiveEmpty, DeliverData, DeliverNothing, Data
<1>5. CASE NodeStep \/ (\E t \in Timers : Elapse(t)) \/ Restart
  BY <1>1, <1>5 DEF NodeStep, Extend, Reorg, FinalizeBlock, Elapse, Quiet, Restart
<1>6. CASE \/ Initialize \/ InitializeCursor \/ RejectStartingCursor
           \/ StopAtEnding \/ BeginIteration \/ RefreshFinalizedFails
           \/ BackfillLogs
  BY <1>1, <1>6
     DEF Initialize, InitializeCursor, RejectStartingCursor, StopAtEnding,
         BeginIteration, RefreshFinalizedFails, BackfillLogs, Quiet, Fail
<1>7. CASE \/ HeadFollowed \/ HeadReorgedAhead \/ HeadNeedsJoin \/ HeadFails
           \/ JoinFetched \/ JoinDone \/ JoinFails \/ WaitReturns
  BY <1>1, <1>7
     DEF HeadFollowed, HeadReorgedAhead, HeadNeedsJoin, HeadFails, JoinFetched,
         JoinDone, JoinFails, WaitReturns, DeliverNothing, Quiet, Fail
<1>8. CASE KeepHead \/ LiveLogs \/ LiveEmptyFails \/ LiveBlocksFail
  BY <1>1, <1>8 DEF KeepHead, LiveLogs, LiveEmptyFails, LiveBlocksFail, Quiet, Fail
<1> QED
  BY <1>2, <1>3, <1>4, <1>5, <1>6, <1>7, <1>8 DEF Next, StreamStep, Poll

\* The blocks with logs come in the order of their keys, whatever the node does
\* and wherever the stream throws or is restarted.
THEOREM LogsAreOrdered == Spec => LogsOrdered
<1>1. ASSUME IInv, [Next]_vars
      PROVE  [\A m \in out' : m.type = "data" /\ m.logs # NoBlock =>
                 \A h \in view.held :
                   h.logs # NoBlock => Number[h.block] < Number[m.block]]_vars
  <2> SUFFICES ASSUME Next, NEW m \in out', m.type = "data", m.logs # NoBlock,
                      NEW h \in view.held, h.logs # NoBlock
               PROVE  Number[h.block] < Number[m.block]
    BY <1>1
  <2>1. BackfillBlocks \/ LiveBlocks
    BY <1>1, OnlyFetchesSendLogs
  <2>2. pc \in {"backfillHeaders", "liveHeaders"} /\ ~HeadersMissing(request)
    BY <2>1 DEF BackfillBlocks, LiveBlocks
  <2>3. \E finality \in {"accepted", "finalized"} : m \in FetchedData(request, finality)
    BY <2>1 DEF BackfillBlocks, LiveBlocks, DeliverData, DeliverNothing
  <2>4. Number[m.block] \in request.from .. request.to
    BY <1>1, <2>2, <2>3, FetchedMessages
  <2>5. request.from = cursor + 1 /\ request \in Request /\ cursor \in Int
    BY <1>1, <2>2 DEF IInv, TypeOK, RequestInv
  <2>6. Number[h.block] <= cursor /\ Number[h.block] \in Nat
    <3>1. HeldBelow(view, cursor) /\ view \in View
      BY <1>1, <2>2 DEF IInv, TypeOK, HeldInv, Running, Stopped
    <3> QED
      BY <3>1, NumberNat DEF HeldBelow, View, Item
  <2> QED
    BY <2>4, <2>5, <2>6 DEF Request
<1> QED
  BY <1>1, Invariance, PTL DEF Spec, LogsOrdered

=============================================================================
