---------------------------- MODULE RpcDataStream ----------------------------
(***************************************************************************)
(* RpcDataStream (protocol/src/rpc/data-stream.ts) over an EVM node        *)
(* (evm-rpc/src/stream-config.ts), the node itself, and what the consumer  *)
(* of the stream holds.  Every wait for the node is a control point of its *)
(* own (pc), so the node's chain can change between any two requests.      *)
(*                                                                         *)
(* The messages of an iteration of the loop are collected in an array and  *)
(* yielded when it ends.  "view" is what the consumer will hold once it    *)
(* has them, "client" what it holds: an exception loses the difference.    *)
(***************************************************************************)
EXTENDS ChainTracker, FiniteSets

CONSTANTS
  Genesis,        \* the block numbered 0
  Matching,       \* the blocks that hold a log the filter selects
  HeaderAlways,   \* filter.header = "always"
  RangeSize,      \* currentSize of the block range oracle
  Start,          \* order key of the first cursor, -1 when there is none
  Ending,         \* order key of options.endingCursor, NoEnding without one
  NoEnding,
  NoBlock,        \* no starting cursor; the logs of a header-only message
  Switch(_, _),   \* Switch(b, c): the node may move from head b to head c
  MaxReorgs,      \* bound on the reorgs the node performs
  MaxRestarts,    \* bound on the restarts of the consumer
  AtomicReads,    \* the chain stands still while an iteration runs
  Prompt,         \* blocks finalize on the chain the tracker already follows
  FastRequests,   \* no interval elapses within a request
  Lagging         \* the node may answer from a replica that is behind

ASSUME StreamAssumption ==
  /\ Genesis \in Block /\ Number[Genesis] = 0
  /\ \A b \in Block : At[b][0] = Genesis
  /\ Matching \subseteq Block
  /\ NoBlock \notin Block
  /\ RangeSize \in Nat \ {0}
  /\ Start \in Nat \union {-1}
  /\ {HeaderAlways, AtomicReads, Prompt, FastRequests, Lagging} \subseteq BOOLEAN
  /\ MaxReorgs \in Nat /\ MaxRestarts \in Nat
  /\ Ending = NoEnding \/ Ending \in Nat

VARIABLES
  tip, final,         \* the node: its head and its last finalized block
  reorgs,             \* reorgs performed so far
  pc, failure,        \* the stream: where it waits, why it threw
  tracker,            \* state.chainTracker
  cursor,             \* state.cursor.orderKey
  lastEmpty,          \* state.lastEmptyBlockNumber, -1 for undefined
  due,                \* the intervals that have elapsed
  request,            \* the block range being fetched
  joining,            \* the join the tracker is in
  out,                \* the messages the last step produced
  view, client,       \* what the consumer will hold, and holds
  restarts

node == <<tip, final, reorgs>>
stream == <<pc, failure, tracker, cursor, lastEmpty, due, request, joining>>
consumer == <<out, view, client, restarts>>
vars == <<node, stream, consumer>>

\* The intervals the waiting loop and the top of the loop both look at.  Those
\* read at one place only (a head to refresh, a block to force) are a choice
\* there: an interval can have elapsed at any moment.
Timers == {"heartbeat", "finalized"}

\* Control points between iterations of the loop, or outside of it.
Resting == {"init", "loop", "wait", "done", "error"}

\* Control points at which no stream is running.
Stopped == {"init", "done", "error"}

ControlPoints ==
  Resting \union {"initCursor", "refreshFinalized", "backfill",
                  "backfillHeaders", "live", "liveBlocks", "liveHeaders", "join"}

\* Why the stream threw; "none" while it has not.
Failures ==
  Reasons \union {"notCanonical", "finalized", "missingFetchedParent",
                  "invalidRange", "nonCanonicalBlock"}

NoRequest == [from |-> 0, to |-> 0, force |-> FALSE, logs |-> {}]
NoJoin == [target |-> Genesis, from |-> 0, caller |-> "none"]

-----------------------------------------------------------------------------
\* Messages, and what they do to what the consumer holds.

Data(b, logs, finality) ==
  [type |-> "data", block |-> b, logs |-> logs, finality |-> finality]
Invalidate(b) ==
  [type |-> "invalidate", block |-> b, logs |-> NoBlock, finality |-> "accepted"]
Finalize(b) ==
  [type |-> "finalize", block |-> b, logs |-> NoBlock, finality |-> "finalized"]

\* The consumer's data, the cursor it would resume from, and the highest
\* block number it was told cannot be invalidated.
EmptyView == [held |-> {}, resume |-> NoBlock, promised |-> -1]

AfterData(v, msgs, last) ==
  [held |-> v.held \union {[block |-> m.block, logs |-> m.logs] : m \in msgs},
   resume |-> last.block,
   promised |-> IF last.finality = "finalized" /\ Number[last.block] > v.promised
                THEN Number[last.block] ELSE v.promised]

AfterInvalidate(v, b) ==
  [v EXCEPT !.held = {h \in @ : Number[h.block] <= Number[b]},
            !.resume = b]

AfterFinalize(v, b) ==
  [v EXCEPT !.promised = IF Number[b] > @ THEN Number[b] ELSE @]

\* A step that produces no message.
Quiet == out' = {} /\ UNCHANGED <<view, client, restarts>>

-----------------------------------------------------------------------------
\* The node (external).

Ancestors(b, from) == {At[b][n] : n \in from .. Number[b]}

LatestAnswers == IF Lagging THEN Ancestors(tip, Number[final]) ELSE {tip}
FinalizedAnswers == IF Lagging THEN Ancestors(final, 0) ELSE {final}

NodeMayMove == AtomicReads => pc \in Resting

Extend ==
  /\ NodeMayMove
  /\ \E b \in Block : /\ Number[b] = Number[tip] + 1 /\ Parent(b) = tip
                      /\ tip' = b
  /\ Quiet /\ UNCHANGED <<final, reorgs, stream>>

Reorg ==
  /\ NodeMayMove
  /\ reorgs < MaxReorgs
  /\ \E b \in Block : /\ OnChain(final, b) /\ ~OnChain(tip, b) /\ Switch(tip, b)
                      /\ tip' = b
  /\ reorgs' = reorgs + 1
  /\ Quiet /\ UNCHANGED <<final, stream>>

FinalizeBlock ==
  /\ NodeMayMove
  /\ \E n \in Number[final] + 1 .. Number[tip] :
       /\ Prompt /\ pc \notin Stopped => OnChain(At[tip][n], tracker.head)
       /\ final' = At[tip][n]
  /\ Quiet /\ UNCHANGED <<tip, reorgs, stream>>

-----------------------------------------------------------------------------
\* Time: Date.now() passes the end of an interval.

Elapse(t) ==
  /\ t \notin due
  /\ pc \notin Stopped \union {"initCursor"}
  /\ FastRequests => pc \in Resting
  /\ due' = due \union {t}
  /\ Quiet
  /\ UNCHANGED <<node, pc, failure, tracker, cursor, lastEmpty, request, joining>>

-----------------------------------------------------------------------------
\* How a step of the stream ends: an exception, or the end of the iteration,
\* which yields its messages.

Fail(reason) ==
  /\ pc' = "error" /\ failure' = reason
  /\ request' = NoRequest /\ joining' = NoJoin
  /\ out' = {} /\ view' = client /\ due' = {}
  /\ UNCHANGED <<node, tracker, cursor, lastEmpty, client, restarts>>

EndIteration(v) ==
  /\ pc' = "loop" /\ request' = NoRequest /\ joining' = NoJoin
  /\ view' = v /\ client' = v
  /\ UNCHANGED <<node, failure, restarts>>

\* The iteration ends with the data messages in msgs, of which last is the last.
DeliverData(msgs, last) ==
  /\ \A m \in msgs : Number[m.block] <= Number[last.block]
  /\ out' = msgs
  /\ EndIteration(AfterData(view, msgs, last))

DeliverNothing == out' = {} /\ EndIteration(view)

-----------------------------------------------------------------------------
\* initialize(): the head and the finalized block, then the starting cursor.

HasStartingCursor == client.resume # NoBlock \/ Start >= 0

\* Mutation: the stream resumes before the block the consumer has.
MutantStartingNumber ==
  IF client.resume # NoBlock /\ Number[client.resume] > 0
  THEN Number[client.resume] - 1 ELSE 0

StartingNumber == IF client.resume # NoBlock THEN Number[client.resume] ELSE Start

Initialize ==
  /\ pc = "init"
  /\ \E h \in LatestAnswers, f \in FinalizedAnswers : tracker' = NewTracker(h, f)
  /\ pc' = IF HasStartingCursor THEN "initCursor" ELSE "loop"
  /\ cursor' = -1 /\ lastEmpty' = -1 /\ due' = {}
  /\ Quiet
  /\ UNCHANGED <<node, failure, request, joining>>

AcceptsStartingCursor ==
  IF client.resume # NoBlock
  THEN StartingCursorIsCanonical(tracker, client.resume, tip)
  ELSE Start <= Number[tracker.head] /\ Start <= Number[tip]

InitializeCursor ==
  /\ pc = "initCursor"
  /\ AcceptsStartingCursor
  /\ tracker' = WithStartingCursor(tracker, At[tip][StartingNumber])
  /\ cursor' = StartingNumber
  /\ pc' = "loop"
  /\ Quiet
  /\ UNCHANGED <<node, failure, lastEmpty, due, request, joining>>

RejectStartingCursor ==
  /\ pc = "initCursor"
  /\ ~AcceptsStartingCursor
  /\ Fail("notCanonical")

-----------------------------------------------------------------------------
\* The top of the loop.

\* Mutation: the ending cursor is exclusive.
MutantShouldContinue == IF Ending = NoEnding THEN TRUE ELSE cursor + 1 < Ending

ShouldContinue == IF Ending = NoEnding THEN TRUE ELSE cursor < Ending

\* Mutation: a header-only block does not count as the head.
MutantEmptyIsNotHead(t) == Number[t.head] = cursor

IsAtHead(t) == Number[t.head] \in {cursor, lastEmpty}

Dispatch(t) ==
  IF cursor < Number[t.finalized] THEN "backfill"
  ELSE IF IsAtHead(t) THEN "wait" ELSE "live"

StopAtEnding ==
  /\ pc = "loop" /\ ~ShouldContinue
  /\ pc' = "done"
  /\ Quiet
  /\ UNCHANGED <<node, failure, tracker, cursor, lastEmpty, due, request,
                 joining>>

\* Mutation: lastHeartbeat is not set.
MutantDueAfterHeartbeat == due

DueAfterHeartbeat == due \ {"heartbeat"}

\* The heartbeat is the first message of the iteration.
BeginIteration ==
  /\ pc = "loop" /\ ShouldContinue
  /\ pc' = IF "finalized" \in due THEN "refreshFinalized" ELSE Dispatch(tracker)
  /\ due' = DueAfterHeartbeat
  /\ Quiet
  /\ UNCHANGED <<node, failure, tracker, cursor, lastEmpty, request, joining>>

RefreshFinalized ==
  /\ pc = "refreshFinalized"
  /\ \E f \in FinalizedAnswers :
       /\ ~FinalizedBackwards(tracker, f) /\ ~FinalizedDiffers(tracker, f)
       /\ tracker' = UpdateFinalized(tracker, f)
       /\ out' = IF f # tracker.finalized /\ cursor > Number[f]
                 THEN {Finalize(f)} ELSE {}
       /\ view' = IF out' # {} THEN AfterFinalize(view, f) ELSE view
       /\ pc' = Dispatch(tracker')
  /\ due' = due \ {"finalized"}
  /\ UNCHANGED <<node, failure, cursor, lastEmpty, request, joining, client,
                 restarts>>

RefreshFinalizedFails ==
  /\ pc = "refreshFinalized"
  /\ \E f \in FinalizedAnswers :
       FinalizedBackwards(tracker, f) \/ FinalizedDiffers(tracker, f)
  /\ Fail("finalized")

-----------------------------------------------------------------------------
\* fetchBlockRange: the logs of the range, then the headers of its blocks.

LogsIn(from, to) ==
  {b \in Matching : OnChain(b, tip) /\ Number[b] \in from .. to}

\* The numbers whose headers are fetched.
HeaderNumbers(r) ==
  IF HeaderAlways THEN r.from .. r.to
  ELSE IF r.force /\ r.logs = {} THEN {r.to}
  ELSE {Number[b] : b \in r.logs}

LogsAt(r, n) ==
  IF \E b \in r.logs : Number[b] = n
  THEN CHOOSE b \in r.logs : Number[b] = n ELSE NoBlock

\* Mutation: live blocks are marked finalized.
MutantFetchedData(r, finality) ==
  {Data(At[tip][n], LogsAt(r, n), "finalized") : n \in HeaderNumbers(r)}

FetchedData(r, finality) ==
  {Data(At[tip][n], LogsAt(r, n), finality) : n \in HeaderNumbers(r)}

\* Mutation: the range starts at the cursor, not after it.
MutantFetchLogs(from, to, force) ==
  request' = [from |-> from, to |-> to, force |-> force,
              logs |-> LogsIn(from - 1, to)]

FetchLogs(from, to, force) ==
  request' = [from |-> from, to |-> to, force |-> force, logs |-> LogsIn(from, to)]

HeadersMissing(r) == \E n \in HeaderNumbers(r) : n > Number[tip]

-----------------------------------------------------------------------------
\* backfillFinalizedBlocks: the range is clamped by the block range oracle.

ClampedEnd(from, to) ==
  IF from + RangeSize - 1 < to THEN from + RangeSize - 1 ELSE to

BackfillLogs ==
  /\ pc = "backfill"
  /\ \E force \in BOOLEAN :
       FetchLogs(cursor + 1, ClampedEnd(cursor + 1, Number[tracker.finalized]), force)
  /\ pc' = "backfillHeaders"
  /\ Quiet
  /\ UNCHANGED <<node, failure, tracker, cursor, lastEmpty, due, joining>>

\* The range never crosses the finalized block, which the code checks again.
BackfillBlocks ==
  /\ pc = "backfillHeaders"
  /\ ~HeadersMissing(request)
  /\ cursor' = request.to
  /\ LET msgs == FetchedData(request, "finalized") IN
       \/ msgs = {} /\ DeliverNothing /\ due' = due
       \/ \E last \in msgs :
            DeliverData(msgs, last) /\ due' = due \ {"heartbeat"}
  /\ UNCHANGED <<tracker, lastEmpty>>

-----------------------------------------------------------------------------
\* The head: polled by produceLiveBlocks when the interval has elapsed, and by
\* waitForHeadChange until a heartbeat or a refresh of the finalized block is
\* due.  A poll that finds the head unchanged while waiting changes nothing.

Polling ==
  \/ pc = "live"
  \/ pc = "wait" /\ due = {}

\* Mutation: a header-only block is not a processed block.
MutantShouldInvalidate(b) == Number[b] < cursor

ShouldInvalidate(b) == Number[b] < cursor \/ Number[b] < lastEmpty

HeadFollowed ==
  /\ Polling
  /\ \E h \in LatestAnswers :
       /\ UpdateHead(tracker, h).status \in
            IF pc = "live" THEN {"unchanged", "success"} ELSE {"success"}
       /\ tracker' = UpdateHead(tracker, h).tracker
  /\ out' = {}
  /\ IF pc = "live"
     THEN /\ pc' = "liveBlocks"
          /\ UNCHANGED <<node, failure, request, joining, view, client, restarts>>
     ELSE EndIteration(view)
  /\ UNCHANGED <<cursor, lastEmpty, due>>

HeadReorged ==
  /\ Polling
  /\ \E h \in LatestAnswers :
       LET a == UpdateHead(tracker, h) IN
         /\ a.status = "reorg"
         /\ ShouldInvalidate(a.tracker.head)
         /\ tracker' = a.tracker
         /\ cursor' = Number[a.tracker.head] /\ lastEmpty' = -1
         /\ out' = {Invalidate(a.tracker.head)}
         /\ IF pc = "live"
            THEN EndIteration(AfterInvalidate(view, a.tracker.head))
            ELSE /\ view' = AfterInvalidate(view, a.tracker.head)
                 /\ UNCHANGED <<node, pc, failure, request, joining, client,
                                restarts>>
  /\ UNCHANGED due

\* The reorg involves no block already processed.
HeadReorgedAhead ==
  /\ Polling
  /\ \E h \in LatestAnswers :
       LET a == UpdateHead(tracker, h) IN
         /\ a.status = "reorg"
         /\ ~ShouldInvalidate(a.tracker.head)
         /\ tracker' = a.tracker
  /\ pc' = IF pc = "live" THEN "liveBlocks" ELSE pc
  /\ Quiet
  /\ UNCHANGED <<node, failure, cursor, lastEmpty, due, request, joining>>

HeadNeedsJoin ==
  /\ Polling
  /\ \E h \in LatestAnswers :
       /\ UpdateHead(tracker, h).status = "join"
       /\ joining' = [target |-> h, from |-> Number[tracker.head] + 1,
                      caller |-> pc]
  /\ pc' = "join"
  /\ Quiet
  /\ UNCHANGED <<node, failure, tracker, cursor, lastEmpty, due, request>>

\* The tracker throws, or the node has no block with a hash the walk asks for.
HeadFails ==
  /\ Polling
  /\ \E h \in LatestAnswers :
       LET a == UpdateHead(tracker, h) IN
         \/ a.status = "error" /\ Fail(a.reason)
         \/ /\ a.status = "reorg" /\ ~OnChain(h, tip)
            /\ h \notin UpToNewHead(tracker, h) /\ WalkFetches(tracker, h)
            /\ Fail("missingFetchedParent")

JoinFetched ==
  /\ pc = "join"
  /\ LET a == JoinBatch(tracker, joining.target, joining.from, tip) IN
       /\ a.status = "join"
       /\ tracker' = a.tracker
       /\ joining' = [joining EXCEPT !.from = JoinEnd(joining.target, @) + 1]
  /\ Quiet
  /\ UNCHANGED <<node, pc, failure, cursor, lastEmpty, due, request>>

JoinDone ==
  /\ pc = "join"
  /\ LET a == JoinBatch(tracker, joining.target, joining.from, tip) IN
       /\ a.status = "success"
       /\ tracker' = a.tracker
  /\ out' = {}
  /\ IF joining.caller = "live"
     THEN /\ pc' = "liveBlocks" /\ joining' = NoJoin
          /\ UNCHANGED <<node, failure, request, view, client, restarts>>
     ELSE EndIteration(view)
  /\ UNCHANGED <<cursor, lastEmpty, due>>

JoinFails ==
  /\ pc = "join"
  /\ LET a == JoinBatch(tracker, joining.target, joining.from, tip) IN
       a.status = "error" /\ Fail(a.reason)

WaitReturns ==
  /\ pc = "wait"
  /\ due # {}
  /\ DeliverNothing
  /\ UNCHANGED <<tracker, cursor, lastEmpty, due>>

-----------------------------------------------------------------------------
\* produceLiveBlocks, after the head.

\* No block becomes finalized within a head refresh interval: a head below the
\* finalized block was polled longer ago, and is due.
KeepHead ==
  /\ pc = "live" /\ Number[tracker.finalized] <= Number[tracker.head]
  /\ pc' = "liveBlocks"
  /\ Quiet
  /\ UNCHANGED <<node, failure, tracker, cursor, lastEmpty, due, request,
                 joining>>

LiveRange == cursor + 1 .. Number[tracker.head]

LiveRangeIsEmpty ==
  LiveRange = {} \/ (~HeaderAlways /\ LogsIn(cursor + 1, Number[tracker.head]) = {})

LiveLogs ==
  /\ pc = "liveBlocks" /\ ~LiveRangeIsEmpty
  /\ FetchLogs(cursor + 1, Number[tracker.head], FALSE)
  /\ pc' = "liveHeaders"
  /\ Quiet
  /\ UNCHANGED <<node, failure, tracker, cursor, lastEmpty, due, joining>>

\* The header of the head is sent, once; the cursor stays where it is.
LiveEmpty ==
  /\ pc = "liveBlocks" /\ LiveRangeIsEmpty
  /\ IF Number[tracker.head] > lastEmpty
     THEN /\ LET header == Data(tracker.head, NoBlock, "accepted")
             IN  DeliverData({header}, header)
          /\ lastEmpty' = Number[tracker.head]
     ELSE DeliverNothing /\ UNCHANGED lastEmpty
  /\ UNCHANGED <<tracker, cursor, due>>

\* A range that ends before it starts is an error to some nodes, and the head
\* may be gone from the node by the time its header is fetched.
LiveEmptyFails ==
  /\ pc = "liveBlocks" /\ LiveRangeIsEmpty
  /\ \/ LiveRange = {} /\ Fail("invalidRange")
     \/ ~OnChain(tracker.head, tip) /\ Fail("nullBlock")

LiveBlocks ==
  /\ pc = "liveHeaders"
  /\ ~HeadersMissing(request)
  /\ \A n \in HeaderNumbers(request) : IsCanonical(tracker, At[tip][n])
  /\ LET msgs == FetchedData(request, "accepted") IN
       \E last \in msgs : DeliverData(msgs, last) /\ cursor' = Number[last.block]
  /\ due' = due \ {"heartbeat"}
  /\ UNCHANGED <<tracker, lastEmpty>>

LiveBlocksFail ==
  /\ pc = "liveHeaders"
  /\ \/ HeadersMissing(request) /\ Fail("nullBlock")
     \/ /\ ~HeadersMissing(request)
        /\ \E n \in HeaderNumbers(request) : ~IsCanonical(tracker, At[tip][n])
        /\ Fail("nonCanonicalBlock")

-----------------------------------------------------------------------------
\* The consumer stops, or is started again after an exception, and resumes
\* from the cursor it keeps (external).

Restart ==
  /\ pc \notin {"init", "done"} /\ restarts < MaxRestarts
  /\ restarts' = restarts + 1
  /\ pc' = "init" /\ failure' = "none"
  /\ tracker' = NewTracker(Genesis, Genesis) /\ cursor' = -1 /\ lastEmpty' = -1
  /\ due' = {} /\ request' = NoRequest /\ joining' = NoJoin
  /\ out' = {} /\ view' = client
  /\ UNCHANGED <<node, client>>

-----------------------------------------------------------------------------
Init ==
  /\ tip = Genesis /\ final = Genesis /\ reorgs = 0
  /\ pc = "init" /\ failure = "none"
  /\ tracker = NewTracker(Genesis, Genesis) /\ cursor = -1 /\ lastEmpty = -1
  /\ due = {} /\ request = NoRequest /\ joining = NoJoin
  /\ out = {} /\ view = EmptyView /\ client = EmptyView /\ restarts = 0

NodeStep == Extend \/ Reorg \/ FinalizeBlock

Poll == HeadFollowed \/ HeadReorged \/ HeadReorgedAhead \/ HeadNeedsJoin \/ HeadFails

StreamStep ==
  \/ Initialize \/ InitializeCursor \/ RejectStartingCursor
  \/ StopAtEnding \/ BeginIteration \/ RefreshFinalized \/ RefreshFinalizedFails
  \/ BackfillLogs \/ BackfillBlocks
  \/ Poll
  \/ JoinFetched \/ JoinDone \/ JoinFails \/ WaitReturns
  \/ KeepHead \/ LiveLogs \/ LiveEmpty \/ LiveEmptyFails
  \/ LiveBlocks \/ LiveBlocksFail

Next == NodeStep \/ (\E t \in Timers : Elapse(t)) \/ StreamStep \/ Restart

Spec == Init /\ [][Next]_vars

\* The event loop runs the stream, requests are answered, and time passes.
Fairness ==
  /\ WF_vars(StreamStep) /\ SF_vars(Poll /\ pc = "wait")
  /\ \A t \in Timers : WF_vars(Elapse(t))

FairSpec == Spec /\ Fairness

-----------------------------------------------------------------------------
\* What some properties need of the moves of the node.

\* The node never moves to a shorter chain.
NeverShorter == \A b, c \in Block : Switch(b, c) => Number[b] <= Number[c]

\* The node never goes back to a branch it left.  S relates a block to the heads
\* the node may have after it: what the chains of both have in common is on the
\* chain of the node in between.
OneWay(S) ==
  /\ \A b, c \in Block : OnChain(b, c) => <<b, c>> \in S
  /\ \A a, b, c \in Block :
       /\ <<a, b>> \in S
       /\ Switch(b, c) \/ (Number[c] = Number[b] + 1 /\ Parent(c) = b)
       => /\ <<a, c>> \in S
          /\ \A x \in Block : OnChain(x, a) /\ OnChain(x, c) => OnChain(x, b)

-----------------------------------------------------------------------------
\* The types of the variables; the canonical map has one block per number.
Item == [block : Block, logs : Block \union {NoBlock}]
View == [held : SUBSET Item, resume : Block \union {NoBlock}, promised : Nat \union {-1}]
Message == [type : {"data", "invalidate", "finalize"}, block : Block,
            logs : Block \union {NoBlock}, finality : {"accepted", "finalized"}]
Request == [from : Nat, to : Nat, force : BOOLEAN, logs : SUBSET Block]

TypeOK ==
  /\ tip \in Block /\ final \in Block /\ reorgs \in 0 .. MaxReorgs
  /\ pc \in ControlPoints /\ failure \in Failures
  /\ tracker \in Tracker /\ OnePerNumber(tracker.canonical)
  /\ cursor \in Nat \union {-1} /\ lastEmpty \in Nat \union {-1}
  /\ due \subseteq Timers
  /\ request \in Request
  /\ joining \in [target : Block, from : Nat, caller : {"none", "live", "wait"}]
  /\ out \subseteq Message
  /\ view \in View /\ client \in View
  /\ restarts \in 0 .. MaxRestarts

\* The tracker's head is in its own canonical map (ChainTracker.updateHead), so
\* that the next head is linked to the block the stream works with.
HeadIsCanonical == pc \notin Stopped => tracker.head \in tracker.canonical

\* The stream waits at the head the node has.
WaitsAtHead == pc = "wait" /\ tracker.head = tip

\* Once the stream waits at the head the node has, the consumer holds blocks of
\* the node's chain only, each with its own logs, and every block with logs
\* (reorgs handled by produceLiveBlocks and waitForHeadChange).
ConsistentAtHead ==
  WaitsAtHead =>
    /\ \A h \in view.held : OnChain(h.block, tip) /\ h.logs \in {h.block, NoBlock}
    /\ \A b \in Matching : OnChain(b, tip) /\ Number[b] > Start =>
         [block |-> b, logs |-> b] \in view.held

\* When all headers are sent, every block the consumer holds follows its parent
\* by hash, at every moment and across reorgs.
HeldIsChain ==
  \A h \in view.held : Number[h.block] > Start + 1 =>
    \E g \in view.held : g.block = Parent(h.block)

\* A block the consumer was told cannot be invalidated never is (the invalidate
\* messages against the finalize messages and the finalized data).
PromiseKept ==
  [][\A m \in out' : m.type = "invalidate" => Number[m.block] >= view.promised]_vars

\* The blocks with logs come in the order of their keys, across reorgs and
\* restarts, and so no log is delivered twice.
LogsOrdered ==
  [][\A m \in out' : m.type = "data" /\ m.logs # NoBlock =>
       \A h \in view.held : h.logs # NoBlock => Number[h.block] < Number[m.block]]_vars

\* Finality has passed the head the stream follows: its entry is no longer in the
\* canonical map (updateFinalized) and the next join misses the parent, or the
\* head became the finalized block, behind the cursor, and no live block is left.
Overtaken ==
  \/ failure = "reorgDetected" /\ Number[tracker.head] < Number[tracker.finalized]
  \/ failure = "invalidRange" /\ tracker.head = tracker.finalized

\* While the chain only grows, the stream throws for no other reason than that
\* finality passed its head, as it does when a backfill, which does not poll the
\* head, outlasts finality.
GrowthIsHandled == reorgs = 0 => failure = "none" \/ Overtaken

\* At the ending cursor the consumer holds every block with logs up to it.
CompleteAtEnding ==
  pc = "done" =>
    \A b \in Matching : OnChain(b, tracker.head) /\ Number[b] \in Start + 1 .. Ending =>
      [block |-> b, logs |-> b] \in client.held

\* The logs sent with a block are the logs of that block.
LogsOfTheBlock == \A h \in view.held : h.logs \in {h.block, NoBlock}

\* When the chain stops growing the stream follows it to its head, knows its
\* finalized block, and has delivered every block with logs, unless finality
\* passed its head and it threw.
CaughtUp ==
  /\ tracker.head = tip /\ tracker.finalized = final
  /\ \A b \in Matching : OnChain(b, tip) /\ Number[b] > Start =>
       [block |-> b, logs |-> b] \in client.held

EventuallyCaughtUp == <>[]CaughtUp \/ <>[]Overtaken

\* An interval that elapsed is acted upon: a heartbeat is sent, the finalized
\* block is refreshed, also while the stream waits for a new head.
IntervalsAnswered ==
  \A t \in Timers : t \in due ~> t \notin due \/ pc \in Stopped

=============================================================================
