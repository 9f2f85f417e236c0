----------------------------- MODULE ChainTracker -----------------------------
(***************************************************************************)
(* ChainTracker (protocol/src/rpc/chain-tracker.ts): what the RPC stream   *)
(* remembers of the chain.  A tracker is a record with the last finalized  *)
(* block, the last head, and the canonical map.  The map is keyed by block *)
(* number and every value carries its key, so it is modelled by the set of *)
(* its values; Put replaces the value of a key as Map.set does.            *)
(*                                                                         *)
(* The methods that wait for the node are split where they wait: UpdateHead*)
(* answers "join" when the missing blocks must be fetched, and JoinBatch   *)
(* processes one batch of them.                                            *)
(***************************************************************************)
EXTENDS BlockTree

CONSTANT BatchSize   \* blocks fetched per batch, minus one, by a join

ASSUME BatchSizeAssumption == BatchSize \in Nat

Tracker ==
  [finalized : Block, head : Block, canonical : SUBSET Block]

\* The canonical map holds at most one block per number: it is a map.
OnePerNumber(canonical) ==
  \A b, c \in canonical : Number[b] = Number[c] => b = c

\* Mutation: a block is added beside the one that has its number.
MutantPut(canonical, b) == canonical \union {b}

Put(canonical, b) == {c \in canonical : Number[c] # Number[b]} \union {b}

\* canonical.get(n) !== undefined
Known(canonical, n) == \E c \in canonical : Number[c] = n

NewTracker(head, finalized) ==
  [finalized |-> finalized, head |-> head,
   canonical |-> Put({finalized}, head)]

-----------------------------------------------------------------------------
\* updateFinalized(newFinalized): the two throws, then the update.

FinalizedBackwards(t, f) == Number[f] < Number[t.finalized]

FinalizedDiffers(t, f) == Number[f] = Number[t.finalized] /\ f # t.finalized

\* Mutation: the new finalized block is not added to the canonical map.
MutantUpdateFinalized(t, f) ==
  [t EXCEPT !.finalized = f, !.canonical = {c \in @ : Number[c] > Number[f]}]

UpdateFinalized(t, f) ==
  IF f = t.finalized THEN t
  ELSE [t EXCEPT !.finalized = f,
                 !.canonical = Put({c \in @ : \/ Number[c] < Number[t.finalized]
                                              \/ Number[c] >= Number[f]}, f)]

-----------------------------------------------------------------------------
\* updateHead(newHead)

IsNextBlock(t, h) ==
  Number[h] = Number[t.head] + 1 /\ Parent(h) = t.head

\* The canonical map without the blocks above a new head that is not longer.
UpToNewHead(t, h) ==
  {c \in t.canonical : Number[c] <= Number[h] \/ Number[c] > Number[t.head]}

\* The numbers at which the walk back from h stops: its parent number is
\* unknown, or the parent is canonical.
WalkStops(t, h) ==
  {n \in Number[t.finalized] + 1 .. Number[h] :
     \/ ~Known(UpToNewHead(t, h), n - 1)
     \/ At[h][n - 1] \in UpToNewHead(t, h)}

WalkStop(t, h) ==
  CHOOSE n \in WalkStops(t, h) : \A m \in WalkStops(t, h) : m <= n

\* The walk fetches the parent of every block above the one it stops at.
WalkFetches(t, h) == WalkStops(t, h) = {} \/ WalkStop(t, h) < Number[h]

\* Mutation: the head stays on the branch that was left.
MutantReorgTo(t, ancestor, canonical) ==
  [status |-> "reorg", reason |-> "none",
   tracker |-> [t EXCEPT !.canonical = canonical]]

ReorgTo(t, ancestor, canonical) ==
  [status |-> "reorg", reason |-> "none",
   tracker |-> [t EXCEPT !.head = ancestor, !.canonical = canonical]]

\* Why updateHead throws; "none" when it does not.
Reasons == {"none", "reconcile", "missingParent", "nullBlock", "reorgDetected"}

Answer(status, reason, t) == [status |-> status, reason |-> reason, tracker |-> t]

\* The new chain is not longer: it shrank to a known block, or a fork point
\* is looked for, walking back from the new head.
Reconcile(t, h) ==
  LET canonical == UpToNewHead(t, h)
      n == WalkStop(t, h)
  IN  CASE h \in canonical -> ReorgTo(t, h, canonical)
        [] h \notin canonical /\ WalkStops(t, h) = {} ->
             Answer("error", "reconcile", t)
        [] h \notin canonical /\ WalkStops(t, h) # {} ->
             IF Known(canonical, n - 1)
             THEN ReorgTo(t, At[h][n - 1],
                          {c \in canonical : \/ Number[c] < n
                                             \/ Number[c] > Number[h]})
             ELSE Answer("error", "missingParent", t)

UpdateHead(t, h) ==
  CASE h = t.head -> Answer("unchanged", "none", t)
    [] h # t.head /\ IsNextBlock(t, h) ->
         Answer("success", "none",
                [t EXCEPT !.head = h, !.canonical = Put(@, h)])
    [] h # t.head /\ Number[h] <= Number[t.head] -> Reconcile(t, h)
    [] OTHER -> Answer("join", "none", t)

\* One batch of a join to target: the blocks from..upTo of the node's chain
\* (the chain that ends in tip) are linked to the canonical map one by one.
JoinEnd(target, from) ==
  IF from + BatchSize > Number[target] THEN Number[target] ELSE from + BatchSize

JoinBatch(t, target, from, tip) ==
  LET upTo == JoinEnd(target, from)
      linked == {c \in t.canonical : Number[c] \notin from .. upTo}
                  \union {At[tip][n] : n \in from .. upTo}
  IN  IF upTo > Number[tip] THEN Answer("error", "nullBlock", t)
      ELSE IF At[tip][from - 1] \notin t.canonical
      THEN Answer("error", "reorgDetected", t)
      ELSE IF upTo = Number[target]
      THEN Answer("success", "none",
                  [t EXCEPT !.head = target, !.canonical = linked])
      ELSE Answer("join", "none", [t EXCEPT !.canonical = linked])

-----------------------------------------------------------------------------
\* Mutation: the check is dropped.
MutantIsCanonical(t, b) == TRUE

\* isCanonical(cursor): a block whose number is unknown counts as canonical.
IsCanonical(t, b) == \A c \in t.canonical : Number[c] = Number[b] => c = b

\* initializeStartingCursor(cursor), given the block the node has at the
\* number of the cursor.
StartingCursorIsCanonical(t, start, tip) ==
  /\ Number[start] <= Number[t.head]
  /\ OnChain(start, tip)

WithStartingCursor(t, start) ==
  IF Number[start] > Number[t.finalized]
  THEN [t EXCEPT !.canonical = Put(@, start)]
  ELSE t

=============================================================================
