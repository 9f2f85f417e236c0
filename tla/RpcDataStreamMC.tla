--------------------------- MODULE RpcDataStreamMC ---------------------------
(* Small block trees for RpcDataStream: a block is the path of the branches *)
(* taken to it, its hash therefore its whole history.                       *)
EXTENDS RpcDataStream, Sequences

CONSTANTS MaxNumber, Branches

Paths == UNION {[1 .. n -> Branches] : n \in 0 .. MaxNumber}

\* Only the first ForkDepth blocks have more than one child.
CONSTANT ForkDepth

MCBlock == {p \in Paths : \A i \in 1 .. Len(p) : i > ForkDepth => p[i] = 0}
MCNumber == [p \in MCBlock |-> Len(p)]
MCAt == [p \in MCBlock |-> [n \in 0 .. Len(p) |-> SubSeq(p, 1, n)]]
MCGenesis == <<>>

\* Blocks with logs: those that end a branch 1, and those numbered 3.
MCMatching == {p \in MCBlock : Len(p) > 0 /\ (p[Len(p)] = 1 \/ Len(p) = 3)}
\* Only the blocks numbered 1 hold logs.
FirstMatching == {p \in MCBlock : Len(p) = 1}

\* No starting cursor.
FromGenesis == -1

\* Any reorg, and reorgs that never go back to a branch the node left.
AnySwitch(b, c) == TRUE
NewBranches(b, c) ==
  \A i \in 1 .. Len(b) : i <= Len(c) /\ SubSeq(b, 1, i - 1) = SubSeq(c, 1, i - 1)
                           => b[i] <= c[i]
NewBranchesOnly(b, c) == NewBranches(b, c) /\ Len(c) >= Len(b)

\* The runs whose iterations see one chain each move the node to new branches
\* that are not shorter.
LaterHeads == {p \in MCBlock \X MCBlock : NewBranchesOnly(p[1], p[2])}

ASSUME SwitchAssumption == AtomicReads => NeverShorter /\ OneWay(LaterHeads)
=============================================================================
