------------------------------- MODULE IndexerMC -------------------------------
(* A small block tree for Indexer: a block is the path of the branches to it. *)
(* The chain forks at block 2.                                                 *)
EXTENDS Indexer, Sequences

CONSTANTS MaxNumber, poolA, poolB

MCBlock ==
  {p \in UNION {[1 .. n -> {0, 1}] : n \in 0 .. MaxNumber} :
     \A i \in 1 .. Len(p) : p[i] = 1 => i = 2}
MCNumber == [p \in MCBlock |-> Len(p)]
MCAt == [p \in MCBlock |-> [n \in 0 .. Len(p) |-> SubSeq(p, 1, n)]]
MCGenesis == <<>>

\* One contract is created below the fork, one on both branches, at different
\* heights.
MCCreates ==
  [p \in MCBlock |->
     CASE p = <<0>> -> {poolA} [] p \in {<<0, 0>>, <<0, 1, 0>>} -> {poolB} [] OTHER -> {}]

\* The chain goes from branch 0 to branch 1 and not back.
MCNewBranch(p, q) == Len(q) > 1 /\ q[2] = 1
MCLaterEnds ==
  {p \in MCBlock \X MCBlock :
     \/ OnChain(p[1], p[2])
     \/ Len(p[1]) > 1 /\ p[1][2] = 0 /\ Len(p[2]) > 1 /\ p[2][2] = 1}

ASSUME NewBranchAssumption == OneWay(MCLaterEnds)
=============================================================================
