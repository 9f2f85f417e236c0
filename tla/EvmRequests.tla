----------------------------- MODULE EvmRequests -----------------------------
(***************************************************************************)
(* How EvmRpcStream (evm-rpc/src) gets the blocks of a range: the calls of *)
(* LogFetcher in attempts that fail and are repeated, the range oracle and *)
(* the rate limiter that the streams of a client share, and a node that    *)
(* refuses wide ranges, fails and reorganizes.                             *)
(*                                                                         *)
(* A stream asks for the blocks after pos, first up to the final block in  *)
(* ranges the oracle clamps, then up to the latest one in one range.  Of   *)
(* the other streams of the client (a factory's) the model has what they   *)
(* do to the oracle and the limiter.  Time goes in ticks, TicksPerSecond   *)
(* of them; a token is as many units.  The header requests of a range,     *)
(* which run in parallel and are repeated alike, are one request.          *)
(***************************************************************************)
EXTENDS LogFetcher, Integers

CONSTANTS
  Filters,          \* the sequences of log filters streams are started with
  Merge,            \* the values of mergeGetLogsFilter === "always"
  Logs,             \* the logs of the chain, before and after it reorganizes
  Final, Latest,    \* the final block, the last block
  StartingSize,     \* options.getLogsRangeSize
  Limit,            \* the widest range the node takes
  MaxAttempts,      \* maxAttempts of retry
  Rps,              \* the requests per second of the rate limiter
  TicksPerSecond,
  MaxObserved,      \* bound on the ticks of an observed interval
  MaxFaults,        \* bound on restarts, and errors that are not about the range
  MaxOthers         \* bound on the ranges of other streams

ASSUME EvmAssumption ==
  /\ Merge \subseteq BOOLEAN
  /\ Final \in Nat /\ Latest \in Nat /\ Final <= Latest
  /\ StartingSize \in Nat \ {0} /\ Limit \in Nat \ {0} /\ MaxAttempts \in Nat \ {0}
  /\ Rps \in Nat \ {0} /\ TicksPerSecond \in Nat \ {0}
  /\ MaxObserved \in Nat /\ MaxFaults \in Nat /\ MaxOthers \in Nat
  /\ \A fs \in Filters : /\ fs \in Seq({fs[i] : i \in DOMAIN fs})
                         /\ \A i \in DOMAIN fs : ValidFilter(fs[i])

\* What a node has on its two branches, which share the final blocks (external).
Branch == {"old", "new"}
UpTo(logs, n) == {l \in logs : l.block <= n}

ASSUME LogsAssumption ==
  /\ \A b \in Branch : OnePerPlace(Logs[b]) /\ \A l \in Logs[b] : l.block \in Nat
  /\ UpTo(Logs["old"], Final) = UpTo(Logs["new"], Final)

VARIABLES
  filters,   \* the log filters
  merge,     \* mergeGetLogsFilter === "always"
  size,      \* the oracle's currentSize
  tokens,    \* the limiter's tokens, in units
  pc,        \* where the stream is
  pos,       \* the last block it has
  range,     \* the range it asks for
  attempts,  \* the failed attempts of its requests
  calls,     \* the state of each of its requests
  found,     \* the joined logs of the range, until its headers are there
  held,      \* what it delivered
  orphans,   \* requests of failed attempts that still wait for a token
  other,     \* the request of another stream: the width of its range
  chain,     \* the branch the node is on
  observed,  \* the requests sent in an interval, and its ticks
  faults, others

client == <<filters, merge>>
limiter == <<tokens, observed>>
requests == <<pc, range, attempts, calls, found>>
counters == <<faults, others>>
vars == <<filters, merge, size, tokens, pc, pos, range, attempts, calls, found, held,
          orphans, other, chain, observed, faults, others>>

Smaller(a, b) == IF a < b THEN a ELSE b
Larger(a, b) == IF a > b THEN a ELSE b

-----------------------------------------------------------------------------
(* createBlockRangeOracle *)

Clamped(from, to) == Smaller(to, from + size - 1)

Halved(n) == IF n > 1 THEN Larger(n \div 2, 1) ELSE n

HandleError(error) == size' = IF error = "range" THEN Halved(size) ELSE size

-----------------------------------------------------------------------------
(* createRateLimiter *)

Capacity == Rps * TicksPerSecond

\* Mutation: tokens accumulate without a limit.
MutantRefill(n) == n + Rps

\* Mutation: only whole tokens are added.
MutantWholeTokens(n) ==
  Smaller(Capacity, n + TicksPerSecond * (Rps \div TicksPerSecond))

\* refill.  The code adds the tokens when it looks for one, the model at each
\* tick, which makes the same sum.
Refill(n) == Smaller(Capacity, n + Rps)

\* Mutation: no token is enough.
MutantAcquireOne ==
  /\ tokens >= 0
  /\ tokens' = tokens - TicksPerSecond
  /\ observed' = [observed EXCEPT !.sent = @ + 1]

\* acquireOne: part of a token is enough.  Every request that waits looks for one
\* by itself, time and again, in no order.
AcquireOne ==
  /\ tokens > 0
  /\ tokens' = tokens - TicksPerSecond
  /\ observed' = [observed EXCEPT !.sent = @ + 1]

\* A tick; an interval may be observed from here on.
Tick ==
  /\ tokens' = Refill(tokens)
  /\ \/ observed' = [sent |-> 0, ticks |-> 0]
     \/ observed.ticks < MaxObserved /\ observed' = [observed EXCEPT !.ticks = @ + 1]
  /\ UNCHANGED <<client, size, requests, pos, held, orphans, other, chain, counters>>

-----------------------------------------------------------------------------
\* No fetchBlockRange runs, here and in another stream.
NoRange == <<1, 0>>
NoOther == [width |-> 0, sent |-> FALSE]

Init ==
  /\ filters \in Filters
  /\ merge \in Merge
  /\ size = StartingSize
  /\ tokens = Capacity
  /\ pc = "idle"
  /\ pos = 0
  /\ range = NoRange
  /\ attempts = 0
  /\ calls = <<>>
  /\ found = {}
  /\ held = {}
  /\ orphans = 0
  /\ other = NoOther
  /\ chain = "old"
  /\ observed = [sent |-> 0, ticks |-> 0]
  /\ faults = 0
  /\ others = 0

Calls == IF merge THEN MergedCalls(filters) ELSE StandardCalls(filters)

Waiting(n) == [c \in 1 .. n |-> "waiting"]

\* The requests of an attempt, made together.
RequestLogs == pc' = "logs" /\ calls' = Waiting(Len(Calls))

RequestHeaders == pc' = "headers" /\ calls' = Waiting(1)

\* fetchBlockRange begins; only ranges up to the final block are clamped.
FetchBlockRange ==
  /\ pc = "idle"
  /\ pos < Latest
  /\ range' = <<pos + 1, IF pos < Final THEN Clamped(pos + 1, Final) ELSE Latest>>
  /\ RequestLogs
  /\ UNCHANGED <<client, size, limiter, pos, attempts, found, held, orphans, other, chain,
                 counters>>

\* onFetchRequest of request c lets it go.
Send(c) ==
  /\ calls[c] = "waiting"
  /\ AcquireOne
  /\ calls' = [calls EXCEPT ![c] = "sent"]
  /\ UNCHANGED <<client, size, pc, pos, range, attempts, found, held, orphans, other, chain,
                 counters>>

\* So does that of a request nobody waits for any more.
SendOrphan ==
  /\ orphans > 0
  /\ AcquireOne
  /\ orphans' = orphans - 1
  /\ UNCHANGED <<client, size, requests, pos, held, other, chain, counters>>

TooWide == pc = "logs" /\ range[2] - range[1] + 1 > Limit

\* The node answers with its logs or headers at that moment.
Answer(c) ==
  /\ calls[c] = "sent"
  /\ ~TooWide
  /\ calls' = [calls EXCEPT ![c] = chain]
  /\ UNCHANGED <<client, size, limiter, pc, pos, range, attempts, found, held, orphans, other,
                 chain, counters>>

WaitingForToken == {c \in DOMAIN calls : calls[c] = "waiting"}

\* A request fails, and with it the attempt (Promise.all, retry).  The last
\* one throws; that of the logs is shown to the oracle first.
AttemptFails(error) ==
  /\ calls' = <<>>
  /\ orphans' = orphans + Cardinality(WaitingForToken)
  /\ attempts' = attempts + 1
  /\ IF attempts + 1 < MaxAttempts
     THEN /\ pc' = IF pc = "logs" THEN "retryLogs" ELSE "retryHeaders"
          /\ UNCHANGED size
     ELSE /\ pc' = "failed"
          /\ IF pc = "logs" THEN HandleError(error) ELSE UNCHANGED size
  /\ UNCHANGED <<client, limiter, pos, range, found, held, other, chain, others>>

\* "invalid block range params"
Refuse(c) ==
  /\ calls[c] = "sent"
  /\ TooWide
  /\ AttemptFails("range")
  /\ UNCHANGED faults

\* Any other error.
Break(c) ==
  /\ calls[c] = "sent"
  /\ faults < MaxFaults
  /\ AttemptFails("other")
  /\ faults' = faults + 1

\* The node has no such block, as after a reorganization: not repeated.
HeaderMissing(c) ==
  /\ pc = "headers"
  /\ calls[c] = "sent"
  /\ faults < MaxFaults
  /\ faults' = faults + 1
  /\ pc' = "failed"
  /\ calls' = <<>>
  /\ UNCHANGED <<client, size, limiter, pos, range, attempts, found, held, orphans, other,
                 chain, others>>

\* The delay of retry is over.
Retry ==
  /\ \/ pc = "retryLogs" /\ RequestLogs
     \/ pc = "retryHeaders" /\ RequestHeaders
  /\ UNCHANGED <<client, size, limiter, pos, range, attempts, found, held, orphans, other,
                 chain, counters>>

Answered == \A c \in DOMAIN calls : calls[c] \in Branch

\* fetchBlockRange is over.
End ==
  /\ pc' = "idle"
  /\ range' = NoRange
  /\ attempts' = 0
  /\ calls' = <<>>
  /\ found' = {}

\* Mutation: the stream goes on after the range the oracle gives now.
MutantDeliver(logs) ==
  /\ held' = held \union logs
  /\ pos' = IF pos < Final THEN Clamped(pos + 1, Final) ELSE Latest

\* The data stream takes the blocks of the range.
Deliver(logs) == held' = held \union logs /\ pos' = range[2]

JoinedLogs ==
  Joined(filters, Calls,
         [c \in DOMAIN Calls |-> GetLogs(Logs[calls[c]], Calls[c], range[1], range[2])])

\* All calls are answered: the headers of the blocks with logs are requested;
\* if there are none, that of the last block of a backfilled range (force) or
\* no header.
LogsFetched ==
  /\ pc = "logs"
  /\ Answered
  /\ \/ /\ JoinedLogs # {} \/ pos < Final
        /\ RequestHeaders
        /\ found' = JoinedLogs
        /\ attempts' = 0
        /\ UNCHANGED <<held, pos, range>>
     \/ /\ JoinedLogs = {}
        /\ Deliver({})
        /\ End
  /\ UNCHANGED <<client, size, limiter, orphans, other, chain, counters>>

HeadersFetched ==
  /\ pc = "headers"
  /\ Answered
  /\ Deliver(found)
  /\ End
  /\ UNCHANGED <<client, size, limiter, orphans, other, chain, counters>>

\* A consumer asks the same client for a new stream after an exception
\* (external: the indexer does not).
StreamAgain ==
  /\ pc = "failed"
  /\ End
  /\ UNCHANGED <<client, size, limiter, pos, held, orphans, other, chain, counters>>

-----------------------------------------------------------------------------
(* Another stream: its last attempt, for a range clamped before. *)

OtherFetches ==
  /\ other = NoOther
  /\ others < MaxOthers
  /\ \E w \in 1 .. size : other' = [width |-> w, sent |-> FALSE]
  /\ others' = others + 1
  /\ UNCHANGED <<client, size, limiter, requests, pos, held, orphans, chain, faults>>

OtherSends ==
  /\ other # NoOther /\ ~other.sent
  /\ AcquireOne
  /\ other' = [other EXCEPT !.sent = TRUE]
  /\ UNCHANGED <<client, size, requests, pos, held, orphans, chain, counters>>

OtherEnds ==
  /\ other.sent
  /\ IF other.width > Limit THEN HandleError("range") ELSE UNCHANGED size
  /\ other' = NoOther
  /\ UNCHANGED <<client, limiter, requests, pos, held, orphans, chain, counters>>

-----------------------------------------------------------------------------
\* The process starts again, after an exception or at any moment: a new client,
\* with a new oracle and limiter.
Restart ==
  /\ \/ pc = "failed" /\ UNCHANGED faults
     \/ faults < MaxFaults /\ faults' = faults + 1
  /\ size' = StartingSize
  /\ tokens' = Capacity
  /\ observed' = [sent |-> 0, ticks |-> 0]
  /\ End
  /\ orphans' = 0
  /\ other' = NoOther
  /\ UNCHANGED <<client, pos, held, chain, others>>

\* The chain reorganizes above the final block (external).
Reorganize ==
  /\ chain = "old"
  /\ chain' = "new"
  /\ UNCHANGED <<client, size, limiter, requests, pos, held, orphans, other, counters>>

StreamStep ==
  \/ FetchBlockRange
  \/ \E c \in DOMAIN calls : Send(c) \/ Answer(c) \/ Refuse(c) \/ Break(c) \/ HeaderMissing(c)
  \/ Retry
  \/ LogsFetched
  \/ HeadersFetched

Next ==
  \/ StreamStep
  \/ StreamAgain
  \/ SendOrphan
  \/ OtherFetches
  \/ OtherSends
  \/ OtherEnds
  \/ Tick
  \/ Restart
  \/ Reorganize

Spec == Init /\ [][Next]_vars

\* Time goes on, requests are answered, and a request that waits takes a token
\* that stays there for it: those that could take it first are finitely many.
FairSpec == Spec /\ WF_vars(Tick) /\ WF_vars(StreamStep)

-----------------------------------------------------------------------------
Found(logs) == \A h \in logs : h.log \in UNION {Logs[b] : b \in Branch}

\* The variables keep their types; the oracle's range is never empty.
TypeOK ==
  /\ filters \in Filters
  /\ merge \in Merge
  /\ size \in 1 .. StartingSize
  /\ tokens \in 1 - TicksPerSecond .. Capacity
  /\ pc \in {"idle", "logs", "headers", "retryLogs", "retryHeaders", "failed"}
  /\ pos \in 0 .. Latest
  /\ range \in Nat \X (0 .. Latest)
  /\ attempts \in 0 .. MaxAttempts
  /\ calls \in Seq({"waiting", "sent"} \union Branch)
  /\ Found(found) /\ Found(held)
  /\ orphans \in Nat
  /\ other \in [width : 0 .. StartingSize, sent : BOOLEAN]
  /\ chain \in Branch
  /\ observed \in [sent : Nat, ticks : 0 .. MaxObserved]
  /\ faults \in 0 .. MaxFaults
  /\ others \in 0 .. MaxOthers

\* Up to the final block the stream delivered exactly what its filters ask for:
\* merged or not, every log once, with the id of each filter that takes it,
\* although the range shrinks under it, requests fail and are repeated, and
\* the stream and the process start again.
BackfilledExactly ==
  {h \in held : h.log.block <= Final} = Wanted(filters, Logs["old"], 1, Smaller(pos, Final))

\* No log of a block is delivered twice, also when the chain reorganizes
\* between the calls that are joined.
NoLogTwice ==
  \A h, g \in held : h.log.block = g.log.block /\ h.log.index = g.log.index => h = g

\* The limiter keeps its rate over every interval: the capacity, and Rps for
\* each second, however many requests wait, fail or are abandoned.
RateKept ==
  TicksPerSecond * (observed.sent - Rps) < Rps * observed.ticks + TicksPerSecond

\* The stream never stalls: whatever other streams and abandoned attempts take
\* from the limiter, it gets all blocks or throws.
NeverStalls == []<>(pos = Latest \/ pc = "failed")
=============================================================================
