--------------------------- MODULE EvmRequestsProofs ---------------------------
(***************************************************************************)
(* What LogFetcher returns and what EvmRequests keeps, for every filter,   *)
(* chain, node limit, rate and number of faults.                           *)
(***************************************************************************)
EXTENDS EvmRequests, FiniteSetTheorems, SequenceTheorems, WellFoundedInduction, TLAPS

-----------------------------------------------------------------------------
(* What fetchLogsForRange returns, for every filter and every set of logs.  *)

\* The calls divide the filters among them.
Divided(fs, asked) ==
  /\ \A c \in DOMAIN asked : asked[c].filters \subseteq DOMAIN fs
  /\ \A i \in DOMAIN fs : \E c \in DOMAIN asked : i \in asked[c].filters
  /\ \A c, d \in DOMAIN asked :
       \A i \in DOMAIN fs : i \in asked[c].filters /\ i \in asked[d].filters => c = d

\* The node answers each call with all that its filters take.
Complete(fs, asked) ==
  \A c \in DOMAIN asked : \A i \in asked[c].filters : \A l :
    RefineLog(l, fs[i]) =>
      /\ asked[c].addresses = {} \/ l.address \in asked[c].addresses
      /\ TopicsMatch(asked[c].topics, l)

\* A non-empty set of call numbers has a least one.
LEMMA LeastCall ==
  ASSUME NEW S, NEW n \in Nat, S \subseteq 1 .. n, S # {}
  PROVE  \E c \in S : \A d \in S : c <= d
<1>1. S \subseteq Nat
  OBVIOUS
<1>2. PICK c \in S : \A d \in S : ~(<<d, c>> \in OpToRel(<, Nat))
  BY <1>1, NatLessThanWellFounded, WFMin
<1>3. ASSUME NEW d \in S
      PROVE  c <= d
  <2>1. <<d, c>> \in Nat \X Nat
    BY <1>1
  <2>2. ~(<<d, c>>[1] < <<d, c>>[2])
    BY <1>2, <2>1, Zenon DEF OpToRel
  <2> QED
    BY <1>1, <2>2
<1> QED
  BY <1>3

\* No two joined logs have a place, whatever the answers are, if each of them
\* has one log per place: the first answer that has a log there wins.
LEMMA JoinedOnePerPlace ==
  ASSUME NEW fs, NEW asked, NEW answers, NEW n \in Nat, DOMAIN asked = 1 .. n,
         \A c \in DOMAIN asked : OnePerPlace(answers[c]),
         NEW h \in Joined(fs, asked, answers), NEW g \in Joined(fs, asked, answers),
         h.log.block = g.log.block, h.log.index = g.log.index
  PROVE  h = g
<1> DEFINE taken == Taken(fs, asked, answers)
           read(c) == {l \in taken[c] :
                         \A d \in 1 .. c - 1 : \A m \in taken[d] : ~SamePlace(l, m)}
           entry(l) == [log |-> l,
                        filterIds |-> [i \in DOMAIN fs |-> Pushes(fs, asked, answers, l, i)]]
<1>1. PICK c \in DOMAIN asked : h.log \in read(c) /\ h = entry(h.log)
  BY DEF Joined
<1>2. PICK d \in DOMAIN asked : g.log \in read(d) /\ g = entry(g.log)
  BY DEF Joined
<1>3. SamePlace(h.log, g.log) /\ SamePlace(g.log, h.log)
  BY DEF SamePlace
<1>4. ~(d < c)
  BY <1>1, <1>2, <1>3
<1>5. ~(c < d)
  BY <1>1, <1>2, <1>3
<1>6. c = d
  BY <1>4, <1>5
<1>7. h.log \in answers[c] /\ g.log \in answers[c]
  BY <1>1, <1>2, <1>6 DEF Taken
<1>8. h.log = g.log
  BY <1>7 DEF OnePerPlace
<1> QED
  BY <1>1, <1>2, <1>8

\* Joined logs are logs that a call was answered with, and some filter takes.
LEMMA JoinedAreAnswers ==
  ASSUME NEW fs, NEW asked, NEW answers, NEW h \in Joined(fs, asked, answers)
  PROVE  \E c \in DOMAIN asked : h.log \in answers[c]
<1> DEFINE taken == Taken(fs, asked, answers)
           read(c) == {l \in taken[c] :
                         \A d \in 1 .. c - 1 : \A m \in taken[d] : ~SamePlace(l, m)}
<1>1. PICK c \in DOMAIN asked : h.log \in read(c)
  BY DEF Joined
<1> QED
  BY <1>1 DEF Taken

\* When all calls see one chain, the joined logs are exactly what the filters
\* want: every log once, with the id of each filter that takes it, once.
LEMMA JoinedIsWanted ==
  ASSUME NEW fs, NEW asked, NEW n \in Nat, DOMAIN asked = 1 .. n,
         Divided(fs, asked), Complete(fs, asked),
         NEW logs, OnePerPlace(logs), NEW from, NEW to
  PROVE  Joined(fs, asked, [c \in DOMAIN asked |-> GetLogs(logs, asked[c], from, to)])
           = Wanted(fs, logs, from, to)
<1> DEFINE answers == [c \in DOMAIN asked |-> GetLogs(logs, asked[c], from, to)]
           taken == Taken(fs, asked, answers)
           read(c) == {l \in taken[c] :
                         \A d \in 1 .. c - 1 : \A m \in taken[d] : ~SamePlace(l, m)}
           wanted == {m \in logs : /\ m.block \in from .. to
                                   /\ \E i \in DOMAIN fs : RefineLog(m, fs[i])}
<1>1. \A c \in DOMAIN asked : \A l :
        l \in taken[c] <=> /\ l \in logs /\ l.block \in from .. to
                           /\ \E i \in asked[c].filters : RefineLog(l, fs[i])
  <2> SUFFICES ASSUME NEW c \in DOMAIN asked, NEW l
               PROVE  l \in taken[c] <=> /\ l \in logs /\ l.block \in from .. to
                                         /\ \E i \in asked[c].filters : RefineLog(l, fs[i])
    OBVIOUS
  <2>1. l \in taken[c] <=> l \in answers[c] /\ \E i \in asked[c].filters : RefineLog(l, fs[i])
    BY DEF Taken, Takes
  <2>2. l \in answers[c] <=> /\ l \in logs /\ l.block \in from .. to
                             /\ asked[c].addresses = {} \/ l.address \in asked[c].addresses
                             /\ TopicsMatch(asked[c].topics, l)
    BY DEF GetLogs
  <2> QED
    BY <2>1, <2>2 DEF Complete
<1>2. UNION {read(c) : c \in DOMAIN asked} = wanted
  <2>1. ASSUME NEW l \in UNION {read(c) : c \in DOMAIN asked}
        PROVE  l \in wanted
    <3>1. PICK c \in DOMAIN asked : l \in taken[c]
      OBVIOUS
    <3>2. PICK i \in asked[c].filters : RefineLog(l, fs[i])
      BY <1>1, <3>1
    <3>3. i \in DOMAIN fs
      BY <3>2 DEF Divided
    <3>4. l \in logs /\ l.block \in from .. to
      BY <1>1, <3>1
    <3> HIDE DEF taken
    <3> QED
      BY <3>2, <3>3, <3>4
  <2>2. ASSUME NEW l \in wanted
        PROVE  l \in UNION {read(c) : c \in DOMAIN asked}
    <3> DEFINE S == {c \in DOMAIN asked : l \in taken[c]}
    <3>1. PICK i \in DOMAIN fs : RefineLog(l, fs[i])
      OBVIOUS
    <3>2. S # {}
      BY <1>1, <3>1 DEF Divided
    <3>3. PICK c \in S : \A d \in S : c <= d
      BY <3>2, LeastCall
    <3>4. l \in taken[c] /\ c \in DOMAIN asked
      OBVIOUS
    <3>5. ASSUME NEW d \in 1 .. c - 1, NEW m \in taken[d], SamePlace(l, m)
          PROVE  FALSE
      <4>1. d \in DOMAIN asked
        BY <3>4
      <4>2. m \in logs /\ l \in logs
        BY <1>1, <4>1
      <4>3. m = l
        BY <3>5, <4>2 DEF OnePerPlace, SamePlace
      <4>4. d \in S
        BY <3>5, <4>1, <4>3
      <4> HIDE DEF S
      <4> QED
        BY <3>3, <3>4, <4>4
    <3>6. l \in read(c)
      BY <3>4, <3>5
    <3> QED
      BY <3>4, <3>6
  <2> QED
    BY <2>1, <2>2
<1>3. ASSUME NEW l \in wanted, NEW i \in DOMAIN fs
      PROVE  Pushes(fs, asked, answers, l, i) = IF RefineLog(l, fs[i]) THEN 1 ELSE 0
  <2> DEFINE P == {c \in DOMAIN asked :
                     \E m \in answers[c] : SamePlace(l, m) /\ i \in Takes(fs, asked[c], m)}
  <2>1. \A c \in DOMAIN asked : \A m \in answers[c] : SamePlace(l, m) => m = l
    BY DEF GetLogs, SamePlace, OnePerPlace
  <2>2. ASSUME ~RefineLog(l, fs[i])
        PROVE  P = {}
    BY <2>1, <2>2 DEF Takes
  <2>3. ASSUME RefineLog(l, fs[i])
        PROVE  \E c \in DOMAIN asked : P = {c}
    <3>1. PICK c \in DOMAIN asked : i \in asked[c].filters
      BY DEF Divided
    <3>2. l \in answers[c] /\ SamePlace(l, l)
      BY <2>3, <3>1 DEF Complete, GetLogs, SamePlace
    <3>3. c \in P
      BY <2>3, <3>1, <3>2 DEF Takes
    <3>4. \A d \in P : d = c
      BY <3>1 DEF Divided, Takes
    <3> QED
      BY <3>3, <3>4
  <2>4. Pushes(fs, asked, answers, l, i) = Cardinality(P)
    BY DEF Pushes
  <2> HIDE DEF P
  <2> QED
    BY <2>2, <2>3, <2>4, FS_EmptySet, FS_Singleton
<1>4. Joined(fs, asked, answers)
        = {[log |-> l, filterIds |-> [i \in DOMAIN fs |-> Pushes(fs, asked, answers, l, i)]] :
             l \in wanted}
  BY <1>2, Zenon DEF Joined
<1>5. ASSUME NEW l \in wanted
      PROVE  [i \in DOMAIN fs |-> Pushes(fs, asked, answers, l, i)]
               = [i \in DOMAIN fs |-> IF RefineLog(l, fs[i]) THEN 1 ELSE 0]
  BY <1>3
<1> HIDE DEF answers
<1>6. {[log |-> l, filterIds |-> [i \in DOMAIN fs |-> Pushes(fs, asked, answers, l, i)]] :
         l \in wanted}
        = {[log |-> l, filterIds |-> [i \in DOMAIN fs |-> IF RefineLog(l, fs[i]) THEN 1 ELSE 0]] :
             l \in wanted}
  <2> HIDE DEF wanted
  <2> QED
    BY <1>5
<1> QED
  BY <1>4, <1>6, Zenon DEF Wanted, answers

\* One call per filter divides the filters and asks for enough.
LEMMA StandardIsComplete ==
  ASSUME NEW fs
  PROVE  Divided(fs, StandardCalls(fs)) /\ Complete(fs, StandardCalls(fs))
<1>1. Divided(fs, StandardCalls(fs))
  BY DEF Divided, StandardCalls
<1>2. Complete(fs, StandardCalls(fs))
  BY DEF Complete, StandardCalls, RefineLog
<1> QED
  BY <1>1, <1>2

\* The merged calls are those, one or two of them or none.
LEMMA MergedCallsAre ==
  ASSUME NEW fs
  PROVE  LET without == {i \in DOMAIN fs : fs[i].address = Any}
             with == DOMAIN fs \ without
             call(I) == [addresses |-> {fs[i].address : i \in I} \ {Any},
                         topics |-> <<>>, filters |-> I]
         IN  /\ with = {} /\ without = {} => MergedCalls(fs) = <<>>
             /\ with # {} /\ without = {} => MergedCalls(fs) = <<call(with)>>
             /\ with = {} /\ without # {} => MergedCalls(fs) = <<call(without)>>
             /\ with # {} /\ without # {} => MergedCalls(fs) = <<call(with), call(without)>>
<1> DEFINE without == {i \in DOMAIN fs : fs[i].address = Any}
           with == DOMAIN fs \ without
           call(I) == [addresses |-> {fs[i].address : i \in I} \ {Any},
                       topics |-> <<>>, filters |-> I]
<1>1. MergedCalls(fs) = MergedCall(fs, with) \o MergedCall(fs, without)
  BY Zenon DEF MergedCalls
<1>2. \A I : MergedCall(fs, I) = IF I = {} THEN <<>> ELSE <<call(I)>>
  BY Zenon DEF MergedCall
<1> HIDE DEF call, with, without
<1>3. \A x : <<>> \o <<x>> = <<x>> /\ <<x>> \o <<>> = <<x>>
  OBVIOUS
<1>4. <<>> \o <<>> = <<>>
  OBVIOUS
<1>6. ASSUME NEW x, NEW y
      PROVE  <<x>> \o <<y>> = <<x, y>>
  <2>1. <<x>> \in Seq({x, y}) /\ <<y>> \in Seq({x, y})
    OBVIOUS
  <2>2. Len(<<x>>) = 1 /\ Len(<<y>>) = 1 /\ Len(<<x, y>>) = 2
    OBVIOUS
  <2>3. <<x>> \o <<y>> \in Seq({x, y}) /\ Len(<<x>> \o <<y>>) = 2
    BY <2>1, <2>2
  <2>4. (<<x>> \o <<y>>)[1] = x /\ (<<x>> \o <<y>>)[2] = y
    BY <2>1, <2>2
  <2>5. <<x, y>> \in Seq({x, y}) /\ <<x, y>>[1] = x /\ <<x, y>>[2] = y
    OBVIOUS
  <2>6. \A i \in 1 .. Len(<<x>> \o <<y>>) : (<<x>> \o <<y>>)[i] = <<x, y>>[i]
    BY <2>3, <2>4, <2>5
  <2> QED
    BY <2>2, <2>3, <2>5, <2>6, SeqEqual, Zenon
<1>5. /\ with = {} /\ without = {} => MergedCalls(fs) = <<>>
      /\ with # {} /\ without = {} => MergedCalls(fs) = <<call(with)>>
      /\ with = {} /\ without # {} => MergedCalls(fs) = <<call(without)>>
      /\ with # {} /\ without # {} => MergedCalls(fs) = <<call(with), call(without)>>
  BY <1>1, <1>2, <1>3, <1>4, <1>6
<1> QED
  BY <1>5, Zenon DEF call, with, without

\* So are merged calls: those with addresses hold the address of each of their
\* filters, the others none.
LEMMA MergedIsComplete ==
  ASSUME NEW fs
  PROVE  /\ Divided(fs, MergedCalls(fs)) /\ Complete(fs, MergedCalls(fs))
         /\ \E n \in Nat : DOMAIN MergedCalls(fs) = 1 .. n
<1> DEFINE without == {i \in DOMAIN fs : fs[i].address = Any}
           with == DOMAIN fs \ without
           call(I) == [addresses |-> {fs[i].address : i \in I} \ {Any},
                       topics |-> <<>>, filters |-> I]
           asked == MergedCalls(fs)
<1>1. \E n \in 0 .. 2 : DOMAIN asked = 1 .. n
  <2>1. CASE with = {} /\ without = {}
    <3>1. asked = <<>>
      BY <2>1, MergedCallsAre
    <3> QED
      BY <3>1
  <2>2. CASE with # {} /\ without = {}
    <3>1. asked = <<call(with)>>
      BY <2>2, MergedCallsAre, Zenon
    <3> QED
      BY <3>1
  <2>3. CASE with = {} /\ without # {}
    <3>1. asked = <<call(without)>>
      BY <2>3, MergedCallsAre, Zenon
    <3> QED
      BY <3>1
  <2>4. CASE with # {} /\ without # {}
    <3>1. asked = <<call(with), call(without)>>
      BY <2>4, MergedCallsAre, Zenon
    <3> QED
      BY <3>1
  <2> QED
    BY <2>1, <2>2, <2>3, <2>4, Zenon
<1>2. \A c \in DOMAIN asked : asked[c] \in {call(with), call(without)}
  BY MergedCallsAre
<1>3. \A c \in DOMAIN asked : asked[c].filters \in {with, without} \ {{}}
  BY MergedCallsAre
<1>4. \A i \in DOMAIN fs : \E c \in DOMAIN asked : i \in asked[c].filters
  BY MergedCallsAre
<1>5. \A c, d \in DOMAIN asked :
        \A i \in DOMAIN fs : i \in asked[c].filters /\ i \in asked[d].filters => c = d
  BY MergedCallsAre
<1>6. Divided(fs, asked)
  BY <1>3, <1>4, <1>5 DEF Divided
<1>7. ASSUME NEW I \in {with, without}, NEW i \in I, NEW l, RefineLog(l, fs[i])
      PROVE  /\ call(I).addresses = {} \/ l.address \in call(I).addresses
             /\ TopicsMatch(call(I).topics, l)
  <2>1. TopicsMatch(<<>>, l)
    BY <1>7 DEF RefineLog, TopicsMatch
  <2>2. l.address = fs[i].address \/ fs[i].address = Any
    BY <1>7 DEF RefineLog
  <2>3. CASE I = with
    BY <2>1, <2>2, <2>3
  <2>4. CASE I = without
    BY <2>1, <2>2, <2>4
  <2> QED
    BY <2>3, <2>4
<1>8. Complete(fs, asked)
  BY <1>2, <1>7 DEF Complete
<1> QED
  BY <1>1, <1>6, <1>8

\* "returns identical logs for merged and standard getLogs"
\* (evm-rpc/tests/merge-get-logs.integration.test.ts:330): while the chain stays
\* as it is, merging the calls changes nothing, for any filter and any logs.
THEOREM MergedIsStandard ==
  ASSUME NEW fs, fs \in Seq({fs[i] : i \in DOMAIN fs}), NEW logs, OnePerPlace(logs), NEW from, NEW to
  PROVE  \A asked \in {MergedCalls(fs), StandardCalls(fs)} :
           Joined(fs, asked, [c \in DOMAIN asked |-> GetLogs(logs, asked[c], from, to)])
             = Wanted(fs, logs, from, to)
<1>1. \E n \in Nat : DOMAIN StandardCalls(fs) = 1 .. n
  <2>1. DOMAIN fs = 1 .. Len(fs) /\ Len(fs) \in Nat
    OBVIOUS
  <2> QED
    BY <2>1 DEF StandardCalls
<1> QED
  BY <1>1, StandardIsComplete, MergedIsComplete, JoinedIsWanted

-----------------------------------------------------------------------------
(* The rate limiter *)

\* The limiter's variables keep their types.
LimiterTypes ==
  /\ tokens \in 1 - TicksPerSecond .. Capacity
  /\ observed \in [sent : Nat, ticks : Nat]

\* A request that was sent is paid for with a token that the limiter held when
\* the interval began, or got since.
Paid == TicksPerSecond * observed.sent + tokens <= Capacity + Rps * observed.ticks

\* A step leaves the limiter alone, takes a token, is a tick, or starts anew.
LEMMA LimiterStep ==
  ASSUME [Next]_vars
  PROVE  \/ UNCHANGED limiter
         \/ AcquireOne
         \/ Tick
         \/ tokens' = Capacity /\ observed' = [sent |-> 0, ticks |-> 0]
<1>1. CASE StreamStep
  <2>1. CASE FetchBlockRange \/ Retry \/ LogsFetched \/ HeadersFetched
    BY <2>1 DEF FetchBlockRange, Retry, LogsFetched, HeadersFetched, limiter
  <2>2. ASSUME NEW c \in DOMAIN calls,
               Send(c) \/ Answer(c) \/ Refuse(c) \/ Break(c) \/ HeaderMissing(c)
        PROVE  UNCHANGED limiter \/ AcquireOne
    BY <2>2 DEF Send, Answer, Refuse, Break, HeaderMissing, AttemptFails, limiter
  <2> QED
    BY <1>1, <2>1, <2>2 DEF StreamStep
<1>2. CASE StreamAgain \/ SendOrphan \/ OtherFetches \/ OtherSends \/ OtherEnds
  BY <1>2 DEF StreamAgain, SendOrphan, OtherFetches, OtherSends, OtherEnds, limiter
<1>3. CASE Restart \/ Reorganize
  BY <1>3 DEF Restart, Reorganize, limiter
<1>4. CASE UNCHANGED vars
  BY <1>4 DEF vars, limiter
<1> QED
  BY <1>1, <1>2, <1>3, <1>4 DEF Next

\* The limiter's inductive invariant.
LEMMA LimiterInvariance == Spec => [](LimiterTypes /\ Paid)
<1>1. Capacity \in Nat \ {0} /\ Rps \in Nat \ {0} /\ TicksPerSecond \in Nat \ {0}
  BY EvmAssumption DEF EvmAssumption, Capacity
<1>2. Init => LimiterTypes /\ Paid
  <2> SUFFICES ASSUME Init
               PROVE  LimiterTypes /\ Paid
    OBVIOUS
  <2>1. tokens = Capacity /\ observed = [sent |-> 0, ticks |-> 0]
    BY DEF Init
  <2>2. TicksPerSecond * 0 = 0 /\ Rps * 0 = 0
    BY <1>1
  <2> QED
    BY <1>1, <2>1, <2>2 DEF LimiterTypes, Paid
<1>3. LimiterTypes /\ Paid /\ [Next]_vars => (LimiterTypes /\ Paid)'
  <2> SUFFICES ASSUME LimiterTypes, Paid, [Next]_vars
               PROVE  LimiterTypes' /\ Paid'
    OBVIOUS
  <2> USE <1>1 DEF LimiterTypes, Paid
  <2>0. TicksPerSecond * 0 = 0 /\ Rps * 0 = 0
    OBVIOUS
  <2>1. CASE UNCHANGED limiter
    BY <2>1 DEF limiter
  <2>2. CASE AcquireOne
    <3>1. observed'.sent = observed.sent + 1 /\ observed'.ticks = observed.ticks
      BY <2>2 DEF AcquireOne
    <3>2. observed' \in [sent : Nat, ticks : Nat]
      BY <2>2 DEF AcquireOne
    <3>3. TicksPerSecond * (observed.sent + 1) = TicksPerSecond * observed.sent + TicksPerSecond
      OBVIOUS
    <3>4. tokens' = tokens - TicksPerSecond /\ tokens > 0
      BY <2>2 DEF AcquireOne
    <3> QED
      BY <3>1, <3>2, <3>3, <3>4
  <2>3. CASE Tick
    <3>1. tokens' = IF Capacity < tokens + Rps THEN Capacity ELSE tokens + Rps
      BY <2>3 DEF Tick, Refill, Smaller
    <3>4. tokens \in Int /\ 1 - TicksPerSecond <= tokens /\ tokens <= Capacity
      OBVIOUS
    <3>5. tokens' <= tokens + Rps
      BY <3>1, <3>4
    <3>6. tokens' \in 1 - TicksPerSecond .. Capacity
      BY <3>1, <3>4
    <3>2. CASE observed' = [sent |-> 0, ticks |-> 0]
      <4>1. observed'.sent = 0 /\ observed'.ticks = 0 /\ observed' \in [sent : Nat, ticks : Nat]
        BY <3>2
      <4>2. TicksPerSecond * observed'.sent = 0 /\ Rps * observed'.ticks = 0
        BY <2>0, <4>1
      <4>3. tokens' <= Capacity
        BY <3>6
      <4>4. LimiterTypes'
        BY <3>6, <4>1
      <4>5. Paid'
        BY <4>2, <4>3, <3>6
      <4> QED
        BY <4>4, <4>5
    <3>3. CASE observed' = [observed EXCEPT !.ticks = @ + 1]
      <4>1. observed'.sent = observed.sent /\ observed'.ticks = observed.ticks + 1
        BY <3>3
      <4>2. observed' \in [sent : Nat, ticks : Nat]
        BY <3>3
      <4>3. Rps * (observed.ticks + 1) = Rps * observed.ticks + Rps
        OBVIOUS
      <4> QED
        BY <3>5, <3>6, <4>1, <4>2, <4>3
    <3> QED
      BY <2>3, <3>2, <3>3 DEF Tick
  <2>4. CASE tokens' = Capacity /\ observed' = [sent |-> 0, ticks |-> 0]
    BY <2>0, <2>4
  <2> QED
    BY <2>1, <2>2, <2>3, <2>4, LimiterStep
<1> QED
  BY <1>2, <1>3, PTL DEF Spec

\* The limiter keeps its rate over an interval of any length, for any rate and
\* number of requests and streams (createRateLimiter).
THEOREM RateIsKept == Spec => []RateKept
<1>1. LimiterTypes /\ Paid => RateKept
  <2> SUFFICES ASSUME LimiterTypes, Paid
               PROVE  RateKept
    OBVIOUS
  <2>1. Capacity \in Nat \ {0} /\ Rps \in Nat \ {0} /\ TicksPerSecond \in Nat \ {0}
    BY EvmAssumption DEF EvmAssumption, Capacity
  <2>2. TicksPerSecond * (observed.sent - Rps) = TicksPerSecond * observed.sent - Capacity
    BY <2>1 DEF LimiterTypes, Capacity
  <2> QED
    BY <2>1, <2>2 DEF LimiterTypes, Paid, RateKept
<1> QED
  BY <1>1, LimiterInvariance, PTL

-----------------------------------------------------------------------------
(* The stream *)

\* A request is for the blocks that come next, all of them final or the last
\* ones, and its calls are made when it waits for them.
Asking ==
  /\ pc # "idle" => /\ range[1] = pos + 1 /\ range[2] > pos
                    /\ pos < Final => range[2] <= Final
  /\ pc = "logs" => DOMAIN calls = DOMAIN Calls
  /\ pc \in {"logs", "headers"} \/ calls = <<>>
  /\ pc # "failed" => attempts < MaxAttempts

OncePerPlace(logs) ==
  \A h, g \in logs : h.log.block = g.log.block /\ h.log.index = g.log.index => h = g

\* What the answers for a range become: logs of its blocks, one per place, and
\* up to the final block those that are asked for.
Fetched(logs) ==
  /\ Found(logs)
  /\ \A h \in logs : h.log.block \in range[1] .. range[2]
  /\ OncePerPlace(logs)
  /\ range[2] <= Final => logs = Wanted(filters, Logs["old"], range[1], range[2])

FoundIsFetched == pc \in {"headers", "retryHeaders"} => Fetched(found)

HeldIsBehind == \A h \in held : h.log.block \in 0 .. pos

StreamInv ==
  TypeOK /\ Asking /\ FoundIsFetched /\ HeldIsBehind /\ NoLogTwice /\ BackfilledExactly

\* Merged or not, the calls divide the filters and ask for enough.
LEMMA CallsAre ==
  ASSUME TypeOK
  PROVE  /\ Divided(filters, Calls) /\ Complete(filters, Calls)
         /\ Len(Calls) \in Nat /\ DOMAIN Calls = 1 .. Len(Calls)
<1>1. filters \in Seq({filters[i] : i \in DOMAIN filters})
  BY EvmAssumption DEF TypeOK, EvmAssumption
<1>2. CASE merge
  <2>1. Calls = MergedCalls(filters)
    BY <1>2 DEF Calls
  <2> DEFINE without == {i \in DOMAIN filters : filters[i].address = Any}
             with == DOMAIN filters \ without
             call(I) == [addresses |-> {filters[i].address : i \in I} \ {Any},
                         topics |-> <<>>, filters |-> I]
  <2>2. Calls \in {<<>>, <<call(with)>>, <<call(without)>>, <<call(with), call(without)>>}
    <3> HIDE DEF call
    <3>1. /\ with = {} /\ without = {} => Calls = <<>>
          /\ with # {} /\ without = {} => Calls = <<call(with)>>
          /\ with = {} /\ without # {} => Calls = <<call(without)>>
          /\ with # {} /\ without # {} => Calls = <<call(with), call(without)>>
      BY <2>1, MergedCallsAre, Zenon DEF call
    <3> HIDE DEF with, without
    <3> QED
      BY <3>1
  <2>3. Len(Calls) \in Nat /\ DOMAIN Calls = 1 .. Len(Calls)
    <3> HIDE DEF call
    <3> QED
      BY <2>2
  <2> QED
    BY <2>1, <2>3, MergedIsComplete
<1>3. CASE ~merge
  <2>1. Calls = StandardCalls(filters)
    BY <1>3 DEF Calls
  <2>2. DOMAIN filters = 1 .. Len(filters) /\ Len(filters) \in Nat
    BY <1>1
  <2> DEFINE S == {StandardCalls(filters)[i] : i \in 1 .. Len(filters)}
  <2>3. StandardCalls(filters) \in [1 .. Len(filters) -> S]
    BY <2>2 DEF StandardCalls
  <2>4. StandardCalls(filters) \in Seq(S)
    <3> HIDE DEF S
    <3> QED
      BY <2>2, <2>3
  <2>5. Len(Calls) \in Nat /\ DOMAIN Calls = 1 .. Len(Calls)
    <3> HIDE DEF S
    <3> QED
      BY <2>1, <2>4
  <2> QED
    BY <2>1, <2>5, StandardIsComplete
<1> QED
  BY <1>2, <1>3

\* Asking for two ranges one after the other is asking for both.
LEMMA WantedAppend ==
  ASSUME NEW a \in Nat, NEW b \in Nat, NEW logs, \A l \in logs : l.block \in Nat, a <= b
  PROVE  Wanted(filters, logs, 1, a) \union Wanted(filters, logs, a + 1, b)
           = Wanted(filters, logs, 1, b)
<1> DEFINE S(from, to) == {m \in logs : /\ m.block \in from .. to
                                        /\ \E i \in DOMAIN filters : RefineLog(m, filters[i])}
           entry(l) == [log |-> l, filterIds |->
                          [i \in DOMAIN filters |-> IF RefineLog(l, filters[i]) THEN 1 ELSE 0]]
<1>1. S(1, a) \union S(a + 1, b) = S(1, b)
  OBVIOUS
<1>2. \A from, to : Wanted(filters, logs, from, to) = {entry(l) : l \in S(from, to)}
  BY Zenon DEF Wanted
<1> HIDE DEF S, entry
<1>3. {entry(l) : l \in S(1, a)} \union {entry(l) : l \in S(a + 1, b)} = {entry(l) : l \in S(1, b)}
  BY <1>1
<1> QED
  BY <1>2, <1>3, Zenon

\* The logs a filter wants are logs of the chain, in the range.
LEMMA WantedAreLogs ==
  ASSUME NEW logs, NEW from, NEW to, NEW h \in Wanted(filters, logs, from, to)
  PROVE  h.log \in logs /\ h.log.block \in from .. to
BY DEF Wanted

\* Whatever the answers of the calls are, and whichever branch gave each.
LEMMA JoinedIsFetched ==
  ASSUME TypeOK, Asking, pc = "logs", Answered
  PROVE  Fetched(JoinedLogs)
<1> DEFINE answers == [c \in DOMAIN Calls |-> GetLogs(Logs[calls[c]], Calls[c], range[1], range[2])]
           shared == UpTo(Logs["old"], Final)
<1>1. \A c \in DOMAIN Calls : calls[c] \in Branch
  BY DEF Asking, Answered
<1>2. \A b \in Branch : OnePerPlace(Logs[b]) /\ \A l \in Logs[b] : l.block \in Nat
  BY LogsAssumption DEF LogsAssumption
<1>3. \A c \in DOMAIN Calls : OnePerPlace(answers[c])
  BY <1>1, <1>2 DEF GetLogs, OnePerPlace
<1>4. JoinedLogs = Joined(filters, Calls, answers)
  BY Zenon DEF JoinedLogs
<1>5. ASSUME NEW h \in JoinedLogs
      PROVE  h.log \in UNION {Logs[b] : b \in Branch} /\ h.log.block \in range[1] .. range[2]
  <2>1. PICK c \in DOMAIN Calls : h.log \in answers[c]
    BY <1>4, <1>5, JoinedAreAnswers
  <2> QED
    BY <1>1, <2>1 DEF GetLogs
<1>6. OncePerPlace(JoinedLogs)
  <2>1. PICK n \in Nat : DOMAIN Calls = 1 .. n
    BY CallsAre
  <2> HIDE DEF answers
  <2>2. ASSUME NEW h \in JoinedLogs, NEW g \in JoinedLogs,
               h.log.block = g.log.block, h.log.index = g.log.index
        PROVE  h = g
    BY <1>3, <1>4, <2>1, <2>2, JoinedOnePerPlace
  <2> QED
    BY <2>2 DEF OncePerPlace
<1>7. ASSUME range[2] <= Final
      PROVE  JoinedLogs = Wanted(filters, Logs["old"], range[1], range[2])
  <2>1. \A b \in Branch : \A l : l.block \in range[1] .. range[2] => (l \in Logs[b] <=> l \in shared)
    <3>1. UpTo(Logs["old"], Final) = UpTo(Logs["new"], Final)
      BY LogsAssumption DEF LogsAssumption
    <3>2. range[1] \in Nat /\ range[2] \in Nat /\ Final \in Nat
      BY EvmAssumption DEF TypeOK, EvmAssumption
    <3>3. \A l : l.block \in range[1] .. range[2] => l.block <= Final
      BY <1>7, <3>2
    <3> QED
      BY <3>1, <3>3 DEF Branch, UpTo
  <2>2. ASSUME NEW c \in DOMAIN Calls
        PROVE  answers[c] = GetLogs(shared, Calls[c], range[1], range[2])
    <3> HIDE DEF shared
    <3> QED
      BY <1>1, <2>1 DEF GetLogs
  <2>3. answers = [c \in DOMAIN Calls |-> GetLogs(shared, Calls[c], range[1], range[2])]
    BY <2>2
  <2>4. OnePerPlace(shared)
    BY <1>2 DEF UpTo, OnePerPlace, Branch
  <2>5. Joined(filters, Calls, answers) = Wanted(filters, shared, range[1], range[2])
    <3> HIDE DEF answers, shared
    <3> QED
      BY <2>3, <2>4, CallsAre, JoinedIsWanted
  <2>6. {m \in shared : /\ m.block \in range[1] .. range[2]
                        /\ \E i \in DOMAIN filters : RefineLog(m, filters[i])}
          = {m \in Logs["old"] : /\ m.block \in range[1] .. range[2]
                                 /\ \E i \in DOMAIN filters : RefineLog(m, filters[i])}
    <3> HIDE DEF shared
    <3> QED
      BY <2>1 DEF Branch
  <2>7. Wanted(filters, shared, range[1], range[2]) = Wanted(filters, Logs["old"], range[1], range[2])
    <3> HIDE DEF shared
    <3> QED
      BY <2>6, Zenon DEF Wanted
  <2> QED
    BY <1>4, <2>5, <2>7
<1> QED
  BY <1>5, <1>6, <1>7 DEF Fetched, Found

\* The blocks of a range are taken once all of its answers are there.
LEMMA DeliverKeeps ==
  ASSUME StreamInv, pc # "idle", NEW logs, Fetched(logs), Deliver(logs), UNCHANGED client
  PROVE  /\ pos' \in 0 .. Latest /\ Found(held')
         /\ HeldIsBehind' /\ NoLogTwice' /\ BackfilledExactly'
<1>1. /\ pos \in Nat /\ range[1] = pos + 1 /\ range[2] \in 0 .. Latest /\ range[2] > pos
      /\ pos < Final => range[2] <= Final
      /\ Final \in Nat /\ Latest \in Nat
  BY EvmAssumption DEF StreamInv, TypeOK, Asking, EvmAssumption
<1>2. pos' = range[2] /\ held' = held \union logs
  BY DEF Deliver
<1>3. pos' \in 0 .. Latest /\ pos' > pos
  BY <1>1, <1>2
<1>4. Found(held')
  BY <1>2 DEF StreamInv, TypeOK, Fetched, Found
<1>5. HeldIsBehind'
  BY <1>1, <1>2, <1>3 DEF StreamInv, Fetched, HeldIsBehind
<1>6. NoLogTwice'
  <2>1. ASSUME NEW h \in held, NEW g \in logs
        PROVE  h.log.block # g.log.block
    BY <1>1, <2>1 DEF StreamInv, Fetched, HeldIsBehind
  <2> QED
    BY <1>2, <2>1 DEF StreamInv, Fetched, OncePerPlace, NoLogTwice
<1>7. BackfilledExactly'
  <2>1. Wanted(filters, Logs["old"], 1, Smaller(pos, Final))'
          = Wanted(filters, Logs["old"], 1, Smaller(pos', Final))
    BY DEF client, Wanted
  <2>2. CASE range[2] <= Final
    <3>1. Smaller(pos, Final) = pos /\ Smaller(pos', Final) = range[2]
      BY <1>1, <1>2, <2>2 DEF Smaller
    <3>2. {h \in held' : h.log.block <= Final}
            = {h \in held : h.log.block <= Final} \union logs
      BY <1>1, <1>2, <2>2 DEF Fetched
    <3>3. Wanted(filters, Logs["old"], 1, pos)
            \union Wanted(filters, Logs["old"], pos + 1, range[2])
            = Wanted(filters, Logs["old"], 1, range[2])
      <4>1. \A l \in Logs["old"] : l.block \in Nat
        BY LogsAssumption DEF LogsAssumption, Branch
      <4>2. range[2] \in Nat /\ pos <= range[2]
        BY <1>1
      <4> QED
        BY <1>1, <4>1, <4>2, WantedAppend
    <3>4. logs = Wanted(filters, Logs["old"], pos + 1, range[2])
      BY <1>1, <2>2 DEF Fetched
    <3>5. {h \in held : h.log.block <= Final} = Wanted(filters, Logs["old"], 1, pos)
      BY <3>1 DEF StreamInv, BackfilledExactly
    <3> QED
      BY <2>1, <3>1, <3>2, <3>3, <3>4, <3>5 DEF BackfilledExactly
  <2>3. CASE range[2] > Final
    <3>1. pos >= Final
      BY <1>1, <2>3
    <3>2. Smaller(pos, Final) = Final /\ Smaller(pos', Final) = Final
      BY <1>1, <1>2, <2>3, <3>1 DEF Smaller
    <3>3. {h \in held' : h.log.block <= Final} = {h \in held : h.log.block <= Final}
      BY <1>1, <1>2, <3>1 DEF Fetched
    <3> QED
      BY <2>1, <3>2, <3>3 DEF StreamInv, BackfilledExactly
  <2> QED
    BY <1>1, <2>2, <2>3
<1> QED
  BY <1>3, <1>4, <1>5, <1>6, <1>7

\* Halving leaves a size of at least one.
LEMMA HandledSize ==
  ASSUME size \in 1 .. StartingSize, NEW error, HandleError(error) \/ UNCHANGED size
  PROVE  size' \in 1 .. StartingSize
<1>1. StartingSize \in Nat
  BY EvmAssumption DEF EvmAssumption
<1>2. size \div 2 \in 0 .. size
  BY <1>1
<1> QED
  BY <1>1, <1>2 DEF HandleError, Halved, Larger

\* A clamped range is not empty and ends where it may.
LEMMA ClampedRange ==
  ASSUME size \in 1 .. StartingSize, NEW from \in Nat, NEW to \in Nat, from <= to
  PROVE  Clamped(from, to) \in from .. to
<1>1. StartingSize \in Nat
  BY EvmAssumption DEF EvmAssumption
<1> QED
  BY <1>1 DEF Clamped, Smaller

\* A step that leaves what was delivered, and where the stream is, alone.
LEMMA HeldStays ==
  ASSUME StreamInv, UNCHANGED <<client, pos, held>>
  PROVE  HeldIsBehind' /\ NoLogTwice' /\ BackfilledExactly' /\ Found(held')
BY DEF StreamInv, TypeOK, client, HeldIsBehind, NoLogTwice, BackfilledExactly, Wanted, Found

\* One that leaves all of the stream alone.
LEMMA StreamStays ==
  ASSUME StreamInv, UNCHANGED <<client, requests, pos, held>>
  PROVE  Asking' /\ FoundIsFetched' /\ HeldIsBehind' /\ NoLogTwice' /\ BackfilledExactly'
<1>1. Asking'
  BY DEF StreamInv, Asking, client, requests, Calls
<1>2. FoundIsFetched'
  BY DEF StreamInv, FoundIsFetched, Fetched, Found, OncePerPlace, Wanted, client, requests
<1> QED
  BY <1>1, <1>2, HeldStays

\* One that leaves the range and its logs alone.
LEMMA FoundStays ==
  ASSUME StreamInv, UNCHANGED <<client, range, found>>,
         pc' \in {"headers", "retryHeaders"} => pc \in {"headers", "retryHeaders"}
  PROVE  FoundIsFetched'
BY DEF StreamInv, FoundIsFetched, Fetched, Found, OncePerPlace, Wanted, client

\* The limiter's part of the type invariant.
LEMMA LimiterTyped ==
  ASSUME TypeOK, [Next]_vars
  PROVE  /\ tokens' \in 1 - TicksPerSecond .. Capacity
         /\ observed' \in [sent : Nat, ticks : 0 .. MaxObserved]
<1>1. Capacity \in Nat \ {0} /\ Rps \in Nat \ {0} /\ TicksPerSecond \in Nat \ {0}
      /\ MaxObserved \in Nat
  BY EvmAssumption DEF EvmAssumption, Capacity
<1>2. /\ tokens \in 1 - TicksPerSecond .. Capacity
      /\ observed \in [sent : Nat, ticks : 0 .. MaxObserved]
  BY DEF TypeOK
<1>3. CASE UNCHANGED limiter
  BY <1>2, <1>3 DEF limiter
<1>4. CASE AcquireOne
  BY <1>1, <1>2, <1>4 DEF AcquireOne
<1>5. CASE Tick
  <2>1. tokens' = IF Capacity < tokens + Rps THEN Capacity ELSE tokens + Rps
    BY <1>5 DEF Tick, Refill, Smaller
  <2>2. tokens' \in 1 - TicksPerSecond .. Capacity
    BY <1>1, <1>2, <2>1
  <2> QED
    BY <1>1, <1>2, <1>5, <2>2 DEF Tick
<1>6. CASE tokens' = Capacity /\ observed' = [sent |-> 0, ticks |-> 0]
  BY <1>1, <1>6
<1> QED
  BY <1>3, <1>4, <1>5, <1>6, LimiterStep

LEMMA StreamInit == Init => StreamInv
<1> SUFFICES ASSUME Init
             PROVE  StreamInv
  OBVIOUS
<1>1. /\ Capacity \in Nat \ {0} /\ Rps \in Nat \ {0} /\ TicksPerSecond \in Nat \ {0}
      /\ MaxObserved \in Nat /\ MaxAttempts \in Nat \ {0} /\ StartingSize \in Nat \ {0}
      /\ Latest \in Nat /\ Final \in Nat /\ MaxFaults \in Nat /\ MaxOthers \in Nat
      /\ Merge \subseteq BOOLEAN
  BY EvmAssumption DEF EvmAssumption, Capacity
<1>2. TypeOK
  BY <1>1 DEF Init, TypeOK, NoRange, NoOther, Branch, Found
<1>3. Asking /\ FoundIsFetched /\ HeldIsBehind /\ NoLogTwice
  BY <1>1 DEF Init, Asking, FoundIsFetched, HeldIsBehind, NoLogTwice
<1>4. BackfilledExactly
  <2>1. Smaller(pos, Final) = 0 /\ held = {}
    BY <1>1 DEF Init, Smaller
  <2>2. \A l \in Logs["old"] : l.block \in Nat /\ ~(l.block \in 1 .. 0)
    BY LogsAssumption DEF LogsAssumption, Branch
  <2>3. Wanted(filters, Logs["old"], 1, 0) = {}
    BY <2>2 DEF Wanted
  <2> QED
    BY <2>1, <2>3 DEF BackfilledExactly
<1> QED
  BY <1>2, <1>3, <1>4 DEF StreamInv

\* The states of the requests of an attempt.
LEMMA WaitingCalls ==
  ASSUME NEW n \in Nat
  PROVE  /\ Waiting(n) \in Seq({"waiting", "sent"} \union Branch)
         /\ DOMAIN Waiting(n) = 1 .. n
<1>1. Waiting(n) \in [1 .. n -> {"waiting", "sent"} \union Branch]
  BY DEF Waiting
<1> QED
  BY <1>1

LEMMA StreamStepKeeps ==
  ASSUME StreamInv, [Next]_vars, StreamStep \/ StreamAgain
  PROVE  StreamInv'
<1> USE DEF StreamInv
<1>1. /\ tokens' \in 1 - TicksPerSecond .. Capacity
      /\ observed' \in [sent : Nat, ticks : 0 .. MaxObserved]
  BY LimiterTyped
<1>2. Latest \in Nat /\ Final \in Nat /\ Final <= Latest /\ MaxFaults \in Nat
      /\ MaxAttempts \in Nat \ {0}
  BY EvmAssumption DEF EvmAssumption
<1>3. CASE FetchBlockRange
  <2>1. Calls' = Calls
    BY <1>3 DEF FetchBlockRange, client, Calls
  <2>2. calls' = Waiting(Len(Calls)) /\ pc' = "logs"
    BY <1>3 DEF FetchBlockRange, RequestLogs
  <2>3. calls' \in Seq({"waiting", "sent"} \union Branch) /\ DOMAIN calls' = DOMAIN Calls
    BY <2>2, CallsAre, WaitingCalls
  <2>4. /\ range' \in Nat \X (0 .. Latest) /\ range'[1] = pos + 1 /\ range'[2] > pos
        /\ pos < Final => range'[2] <= Final
    <3>1. pos \in Nat /\ pos < Latest
      BY <1>2, <1>3 DEF FetchBlockRange, TypeOK
    <3>2. CASE pos < Final
      <4> DEFINE from == pos + 1
      <4>1. size \in 1 .. StartingSize /\ from \in Nat /\ from <= Final
        BY <1>2, <3>1, <3>2 DEF TypeOK
      <4>2. Clamped(from, Final) \in from .. Final
        <5> HIDE DEF from
        <5> QED
          BY <1>2, <4>1, ClampedRange
      <4>3. Clamped(pos + 1, Final) \in pos + 1 .. Final
        BY <4>2
      <4>4. range' = <<pos + 1, Clamped(pos + 1, Final)>>
        BY <1>3, <3>2 DEF FetchBlockRange
      <4> QED
        BY <1>2, <3>1, <4>3, <4>4
    <3>3. CASE ~(pos < Final)
      BY <1>2, <1>3, <3>1, <3>3 DEF FetchBlockRange
    <3> QED
      BY <3>2, <3>3
  <2>5. TypeOK'
    BY <1>1, <1>3, <2>2, <2>3, <2>4 DEF FetchBlockRange, TypeOK, client, counters, Found
  <2>6. Asking'
    BY <1>3, <2>1, <2>2, <2>3, <2>4 DEF FetchBlockRange, Asking
  <2>7. FoundIsFetched'
    BY <2>2 DEF FoundIsFetched
  <2> QED
    BY <1>3, <2>5, <2>6, <2>7, HeldStays DEF FetchBlockRange
<1>4. ASSUME NEW c \in DOMAIN calls, Send(c) \/ Answer(c)
      PROVE  StreamInv'
  <2>1. PICK v \in {"waiting", "sent"} \union Branch : calls' = [calls EXCEPT ![c] = v]
    BY <1>4 DEF Send, Answer, TypeOK
  <2>2. /\ calls' \in Seq({"waiting", "sent"} \union Branch) /\ DOMAIN calls' = DOMAIN calls
        /\ calls # <<>>
    BY <1>4, <2>1 DEF TypeOK
  <2>3. /\ UNCHANGED <<client, size, pc, pos, range, attempts, found, held, orphans, other,
                       chain, counters>>
    BY <1>4 DEF Send, Answer
  <2>4. Calls' = Calls
    BY <2>3 DEF client, Calls
  <2>5. TypeOK'
    BY <1>1, <2>2, <2>3 DEF TypeOK, client, counters, Found
  <2>6. Asking'
    BY <2>2, <2>3, <2>4 DEF Asking
  <2> QED
    BY <2>3, <2>5, <2>6, FoundStays, HeldStays
<1>5. ASSUME NEW c \in DOMAIN calls, Refuse(c) \/ Break(c)
      PROVE  StreamInv'
  <2>1. pc \in {"logs", "headers"}
    <3>1. calls # <<>>
      BY <1>5
    <3> QED
      BY <3>1 DEF Asking
  <2>2. PICK error : AttemptFails(error)
    BY <1>5 DEF Refuse, Break
  <2>3. /\ calls' = <<>> /\ attempts' = attempts + 1
        /\ UNCHANGED <<client, limiter, pos, range, found, held, other, chain, others>>
    BY <2>2 DEF AttemptFails
  <2>4. pc' = IF attempts + 1 < MaxAttempts
              THEN IF pc = "logs" THEN "retryLogs" ELSE "retryHeaders"
              ELSE "failed"
    BY <2>2 DEF AttemptFails
  <2>5. attempts' \in 0 .. MaxAttempts /\ (pc' # "failed" => attempts' < MaxAttempts)
    BY <1>2, <2>1, <2>3, <2>4 DEF Asking, TypeOK
  <2>6. size' \in 1 .. StartingSize
    <3>1. size \in 1 .. StartingSize /\ (HandleError(error) \/ UNCHANGED size)
      BY <2>2 DEF TypeOK, AttemptFails
    <3> QED
      BY <3>1, HandledSize
  <2>7. orphans' \in Nat
    <3>1. orphans' = orphans + Cardinality(WaitingForToken)
      BY <2>2 DEF AttemptFails
    <3>2. DOMAIN calls = 1 .. Len(calls) /\ Len(calls) \in Nat
      BY DEF TypeOK
    <3>3. IsFiniteSet(1 .. Len(calls))
      BY <3>2, FS_Interval
    <3>4. WaitingForToken \subseteq 1 .. Len(calls)
      BY <3>2 DEF WaitingForToken
    <3>5. Cardinality(WaitingForToken) \in Nat
      BY <3>3, <3>4, FS_Subset, FS_CardinalityType
    <3> QED
      BY <3>1, <3>5 DEF TypeOK
  <2>8. faults' \in 0 .. MaxFaults
    BY <1>2, <1>5 DEF Refuse, Break, TypeOK
  <2>9. <<>> \in Seq({"waiting", "sent"} \union Branch)
    OBVIOUS
  <2>10. TypeOK'
    BY <1>1, <2>3, <2>4, <2>5, <2>6, <2>7, <2>8, <2>9 DEF TypeOK, client, Found
  <2>11. Asking'
    BY <2>1, <2>3, <2>4, <2>5 DEF Asking
  <2>12. FoundIsFetched'
    BY <2>1, <2>3, <2>4, FoundStays
  <2> QED
    BY <2>3, <2>10, <2>11, <2>12, HeldStays
<1>6. ASSUME NEW c \in DOMAIN calls, HeaderMissing(c)
      PROVE  StreamInv'
  <2>1. /\ calls' = <<>> /\ pc = "headers" /\ pc' = "failed"
        /\ UNCHANGED <<client, size, limiter, pos, range, attempts, found, held, orphans, other,
                       chain, others>>
    BY <1>6 DEF HeaderMissing
  <2>2. faults' \in 0 .. MaxFaults
    BY <1>2, <1>6 DEF HeaderMissing, TypeOK
  <2>3. <<>> \in Seq({"waiting", "sent"} \union Branch)
    OBVIOUS
  <2>4. TypeOK'
    BY <1>1, <2>1, <2>2, <2>3 DEF TypeOK, client, Found
  <2>5. Asking' /\ FoundIsFetched'
    BY <2>1 DEF Asking, FoundIsFetched
  <2> QED
    BY <2>1, <2>4, <2>5, HeldStays
<1>7. CASE Retry
  <2>1. /\ UNCHANGED <<client, size, pos, range, attempts, found, held, orphans, other, chain,
                       counters>>
    BY <1>7 DEF Retry
  <2>2. Calls' = Calls
    BY <2>1 DEF client, Calls
  <2>3. \/ pc = "retryLogs" /\ pc' = "logs" /\ calls' = Waiting(Len(Calls))
        \/ pc = "retryHeaders" /\ pc' = "headers" /\ calls' = Waiting(1)
    BY <1>7 DEF Retry, RequestLogs, RequestHeaders
  <2>4. /\ calls' \in Seq({"waiting", "sent"} \union Branch)
        /\ pc' = "logs" => DOMAIN calls' = DOMAIN Calls
    BY <2>3, CallsAre, WaitingCalls
  <2>5. TypeOK'
    BY <1>1, <2>1, <2>3, <2>4 DEF TypeOK, client, counters, Found
  <2>6. Asking'
    BY <2>1, <2>2, <2>3, <2>4 DEF Asking
  <2> QED
    BY <2>1, <2>3, <2>5, <2>6, FoundStays, HeldStays
<1>8. CASE LogsFetched
  <2>1. /\ pc = "logs" /\ Answered
        /\ UNCHANGED <<client, size, limiter, orphans, other, chain, counters>>
    BY <1>8 DEF LogsFetched
  <2>2. Fetched(JoinedLogs)
    BY <2>1, JoinedIsFetched
  <2>3. CASE RequestHeaders /\ found' = JoinedLogs /\ attempts' = 0 /\ UNCHANGED <<held, pos, range>>
    <3>1. pc' = "headers" /\ calls' = Waiting(1) /\ calls' \in Seq({"waiting", "sent"} \union Branch)
      BY <2>3, WaitingCalls DEF RequestHeaders
    <3>2. FoundIsFetched'
      BY <2>1, <2>2, <2>3 DEF FoundIsFetched, Fetched, Found, OncePerPlace, Wanted, client
    <3>3. TypeOK'
      BY <1>1, <1>2, <2>1, <2>2, <2>3, <3>1 DEF TypeOK, client, counters, Found, Fetched
    <3>4. Asking'
      BY <1>2, <2>1, <2>3, <3>1 DEF Asking
    <3> QED
      BY <2>1, <2>3, <3>2, <3>3, <3>4, HeldStays
  <2>4. CASE JoinedLogs = {} /\ Deliver({}) /\ End
    <3>1. /\ pos' \in 0 .. Latest /\ Found(held')
          /\ HeldIsBehind' /\ NoLogTwice' /\ BackfilledExactly'
      BY <2>1, <2>2, <2>4, DeliverKeeps
    <3>2. TypeOK'
      BY <1>1, <1>2, <2>1, <2>4, <3>1 DEF TypeOK, End, NoRange, client, counters, Found
    <3>3. Asking' /\ FoundIsFetched'
      BY <1>2, <2>4 DEF End, Asking, FoundIsFetched
    <3> QED
      BY <3>1, <3>2, <3>3
  <2> QED
    BY <1>8, <2>3, <2>4 DEF LogsFetched
<1>9. CASE HeadersFetched
  <2>1. /\ pc = "headers" /\ Deliver(found) /\ End
        /\ UNCHANGED <<client, size, limiter, orphans, other, chain, counters>>
    BY <1>9 DEF HeadersFetched
  <2>2. /\ pos' \in 0 .. Latest /\ Found(held')
        /\ HeldIsBehind' /\ NoLogTwice' /\ BackfilledExactly'
    BY <2>1, DeliverKeeps DEF FoundIsFetched
  <2>3. TypeOK'
    BY <1>1, <1>2, <2>1, <2>2 DEF TypeOK, End, NoRange, client, counters, Found
  <2>4. Asking' /\ FoundIsFetched'
    BY <1>2, <2>1 DEF End, Asking, FoundIsFetched
  <2> QED
    BY <2>2, <2>3, <2>4
<1>10. CASE StreamAgain
  <2>1. End /\ UNCHANGED <<client, size, limiter, pos, held, orphans, other, chain, counters>>
    BY <1>10 DEF StreamAgain
  <2>2. TypeOK'
    BY <1>1, <1>2, <2>1 DEF TypeOK, End, NoRange, client, counters, Found
  <2>3. Asking' /\ FoundIsFetched'
    BY <1>2, <2>1 DEF End, Asking, FoundIsFetched
  <2> QED
    BY <2>1, <2>2, <2>3, HeldStays
<1> QED
  BY <1>3, <1>4, <1>5, <1>6, <1>7, <1>8, <1>9, <1>10 DEF StreamStep

LEMMA StreamInvariance == Spec => []StreamInv
<1>1. StreamInv /\ [Next]_vars => StreamInv'
  <2> SUFFICES ASSUME StreamInv, [Next]_vars
               PROVE  StreamInv'
    OBVIOUS
  <2>1. /\ tokens' \in 1 - TicksPerSecond .. Capacity
        /\ observed' \in [sent : Nat, ticks : 0 .. MaxObserved]
    BY LimiterTyped DEF StreamInv
  <2>2. MaxFaults \in Nat /\ MaxOthers \in Nat /\ MaxAttempts \in Nat \ {0} /\ Latest \in Nat
        /\ StartingSize \in Nat \ {0}
    BY EvmAssumption DEF EvmAssumption
  <2>3. CASE StreamStep \/ StreamAgain
    BY <2>3, StreamStepKeeps
  <2>4. CASE SendOrphan \/ Tick
    <3>1. UNCHANGED <<client, size, requests, pos, held, other, chain, counters>>
      BY <2>4 DEF SendOrphan, Tick
    <3>2. orphans' \in Nat
      BY <2>4 DEF SendOrphan, Tick, StreamInv, TypeOK
    <3>3. TypeOK'
      BY <2>1, <3>1, <3>2 DEF StreamInv, TypeOK, client, requests, counters, Found
    <3> QED
      BY <2>4, <3>3, StreamStays DEF SendOrphan, Tick, StreamInv
  <2>5. CASE OtherFetches
    <3>1. TypeOK'
      BY <2>1, <2>2, <2>5 DEF OtherFetches, StreamInv, TypeOK, client, requests, limiter, Found
    <3> QED
      BY <2>5, <3>1, StreamStays DEF OtherFetches, StreamInv
  <2>6. CASE OtherSends
    <3>1. TypeOK'
      BY <2>1, <2>6 DEF OtherSends, StreamInv, TypeOK, client, requests, counters, Found
    <3> QED
      BY <2>6, <3>1, StreamStays DEF OtherSends, StreamInv
  <2>7. CASE OtherEnds
    <3>1. size' \in 1 .. StartingSize
      BY <2>7, HandledSize DEF OtherEnds, StreamInv, TypeOK
    <3>2. TypeOK'
      BY <2>1, <2>2, <2>7, <3>1
      DEF OtherEnds, NoOther, StreamInv, TypeOK, client, requests, counters, Found
    <3> QED
      BY <2>7, <3>2, StreamStays DEF OtherEnds, StreamInv
  <2>8. CASE Restart
    <3>1. End /\ UNCHANGED <<client, pos, held, chain, others>>
      BY <2>8 DEF Restart
    <3>2. TypeOK'
      BY <2>1, <2>2, <2>8 DEF Restart, End, NoRange, NoOther, StreamInv, TypeOK, client, Found
    <3>3. Asking' /\ FoundIsFetched'
      BY <2>2, <3>1 DEF End, Asking, FoundIsFetched
    <3> QED
      BY <3>1, <3>2, <3>3, HeldStays DEF StreamInv
  <2>9. CASE Reorganize
    <3>1. TypeOK'
      BY <2>1, <2>9 DEF Reorganize, Branch, StreamInv, TypeOK, client, requests, counters, Found
    <3> QED
      BY <2>9, <3>1, StreamStays DEF Reorganize, StreamInv
  <2>10. CASE UNCHANGED vars
    <3>1. TypeOK'
      BY <2>10 DEF vars, StreamInv, TypeOK, Found
    <3> QED
      BY <2>10, <3>1, StreamStays DEF vars, client, requests, StreamInv
  <2> QED
    BY <2>3, <2>4, <2>5, <2>6, <2>7, <2>8, <2>9, <2>10 DEF Next
<1> QED
  BY <1>1, StreamInit, PTL DEF Spec

\* The variables keep their types, and the range asked for is never empty.
THEOREM RequestTypes == Spec => []TypeOK
BY StreamInvariance, PTL DEF StreamInv

\* Up to the final block, the stream delivers exactly what its filters ask for,
\* whichever calls they became and whatever failed on the way.
THEOREM BackfillIsExact == Spec => []BackfilledExactly
BY StreamInvariance, PTL DEF StreamInv

\* No place of the chain is delivered twice.
THEOREM LogsAreOnce == Spec => []NoLogTwice
BY StreamInvariance, PTL DEF StreamInv
=============================================================================
