---------------------------- MODULE EvmRequestsMC ----------------------------
(* A small chain and filters for EvmRequests. *)
EXTENDS EvmRequests

CONSTANTS A, B, t, u

LogAt(n, i, address, topics, removed) ==
  [block |-> n, index |-> i, address |-> address, topics |-> topics, removed |-> removed]

FinalLogs ==
  {LogAt(1, 0, A, <<t>>, FALSE), LogAt(2, 0, A, <<t, u>>, FALSE),
   LogAt(2, 1, B, <<u>>, FALSE), LogAt(2, 2, B, <<t>>, TRUE)}

\* Block 5 is replaced: another log has the place of its only one.
MCLogs ==
  [old |-> FinalLogs \union {LogAt(5, 0, A, <<t>>, FALSE)},
   new |-> FinalLogs \union {LogAt(5, 0, A, <<u>>, FALSE)}]

LogFilter(address, topics, strict) ==
  [address |-> address, topics |-> topics, strict |-> strict]

\* A strict filter of topics only comes before one of an address and a null
\* topic that takes some of the same logs.
MCFilters == {<<LogFilter(Any, <<t>>, TRUE), LogFilter(A, <<Any>>, FALSE)>>}
=============================================================================
