------------------------------ MODULE LogFetcher ------------------------------
(***************************************************************************)
(* fetchLogsForRange (evm-rpc/src/log-fetcher.ts): the eth_getLogs calls   *)
(* that a filter becomes, one per log filter or merged, and how their      *)
(* answers are joined.                                                     *)
(*                                                                         *)
(* A log has a place: its block and its index there.  A topic stands for   *)
(* its 32 bytes, however it is written: refineLog compares topics in a     *)
(* normal form, the node takes them as they are.  The filters are a        *)
(* sequence, as their order decides which answer is read first; filterIds  *)
(* is, for each filter, how often its id was pushed.                       *)
(***************************************************************************)
EXTENDS Naturals, Sequences, FiniteSets

CONSTANT Any  \* a filter without an address, a topic that is null

\* validateFilter
ValidFilter(f) == f.address # Any \/ Len(f.topics) > 0

\* Each topic of the filter is null or the one of the log at that position.
TopicsMatch(topics, log) ==
  /\ Len(topics) <= Len(log.topics)
  /\ \A i \in 1 .. Len(topics) : topics[i] \in {Any, log.topics[i]}

\* refineLog
RefineLog(log, f) ==
  /\ ~log.removed
  /\ f.address \in {Any, log.address}
  /\ f.strict => Len(log.topics) = Len(f.topics)
  /\ TopicsMatch(f.topics, log)

-----------------------------------------------------------------------------
(* The calls: addresses and topics for the node, and the filters the       *)
(* answer is read with.  No addresses means any.                           *)

StandardCalls(fs) ==
  [i \in DOMAIN fs |->
     [addresses |-> {fs[i].address} \ {Any}, topics |-> fs[i].topics, filters |-> {i}]]

\* The call for the filters in the set of indices, if there are any.
MergedCall(fs, indices) ==
  IF indices = {} THEN <<>>
  ELSE << [addresses |-> {fs[i].address : i \in indices} \ {Any}, topics |-> <<>>,
           filters |-> indices] >>

\* One call for the filters with an address, one for those without.
MergedCalls(fs) ==
  LET without == {i \in DOMAIN fs : fs[i].address = Any}
  IN  MergedCall(fs, DOMAIN fs \ without) \o MergedCall(fs, without)

\* A node has one log at a place (external).
OnePerPlace(logs) ==
  \A l, m \in logs : l.block = m.block /\ l.index = m.index => l = m

\* What it answers (external): logs of the addresses, by their first topics.
GetLogs(logs, call, from, to) ==
  {l \in logs : /\ l.block \in from .. to
                /\ call.addresses = {} \/ l.address \in call.addresses
                /\ TopicsMatch(call.topics, l)}

-----------------------------------------------------------------------------
(* Joining the answers *)

\* Mutation: logs are the same only if all of their fields are.
MutantSamePlace(l, m) == l = m

SamePlace(l, m) == l.block = m.block /\ l.index = m.index

\* The filters of call c that take log l.
Takes(fs, c, l) == {i \in c.filters : RefineLog(l, fs[i])}

\* The logs of each answer that a filter of its call takes.
Taken(fs, calls, answers) ==
  [c \in DOMAIN calls |-> {l \in answers[c] : Takes(fs, calls[c], l) # {}}]

\* How often the id of filter i is pushed for the place of l.
Pushes(fs, calls, answers, l, i) ==
  Cardinality({c \in DOMAIN calls :
                 \E m \in answers[c] : SamePlace(l, m) /\ i \in Takes(fs, calls[c], m)})

\* The first log read at a place stays, later ones only push their filters' ids.
Joined(fs, calls, answers) ==
  LET taken == Taken(fs, calls, answers)
      read(c) == {l \in taken[c] :
                    \A d \in 1 .. c - 1 : \A m \in taken[d] : ~SamePlace(l, m)}
  IN  {[log |-> l, filterIds |-> [i \in DOMAIN fs |-> Pushes(fs, calls, answers, l, i)]] :
         l \in UNION {read(c) : c \in DOMAIN calls}}

\* What a filter asks for: every log that one of its log filters takes, once,
\* with the ids of all that do, once each.
Wanted(fs, logs, from, to) ==
  {[log |-> l, filterIds |-> [i \in DOMAIN fs |-> IF RefineLog(l, fs[i]) THEN 1 ELSE 0]] :
     l \in {m \in logs : /\ m.block \in from .. to
                         /\ \E i \in DOMAIN fs : RefineLog(m, fs[i])}}
=============================================================================
