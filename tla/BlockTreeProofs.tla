---------------------------- MODULE BlockTreeProofs ----------------------------
(***************************************************************************)
(* Lemmas about the chains of a block tree: what OnChain and At say of the *)
(* blocks of one chain.  The stream's proofs and the indexer's cite them.  *)
(***************************************************************************)
EXTENDS BlockTree, WellFoundedInduction, TLAPS

\* A block has an ancestor at every number up to its own.
LEMMA Ancestor ==
  ASSUME NEW b \in Block, NEW n \in 0 .. Number[b]
  PROVE  At[b][n] \in Block /\ Number[At[b][n]] = n
BY BlockTreeAssumption DEF BlockTreeAssumption

\* Block numbers are natural numbers.
LEMMA NumberNat == \A b \in Block : Number[b] \in Nat
BY BlockTreeAssumption DEF BlockTreeAssumption

\* A set of integers that has a member and an upper bound has a greatest member.
LEMMA MaxExists ==
  ASSUME NEW S, NEW lo \in Int, NEW hi \in Int, S \subseteq lo .. hi, S # {}
  PROVE  \E n \in S : \A m \in S : m <= n
<1> DEFINE D == {hi - n : n \in S}
<1>1. D \subseteq Nat /\ D # {}
  OBVIOUS
<1>2. PICK d \in D : \A e \in D : ~(<<e, d>> \in OpToRel(<, Nat))
  BY <1>1, NatLessThanWellFounded, WFMin
<1>3. ASSUME NEW e \in D
      PROVE  d <= e
  <2>1. <<e, d>> \in Nat \X Nat
    BY <1>1
  <2>2. ~(<<e, d>>[1] < <<e, d>>[2])
    BY <1>2, <2>1, Zenon DEF OpToRel
  <2> QED
    BY <1>1, <2>2
<1>4. PICK n \in S : d = hi - n
  OBVIOUS
<1>5. ASSUME NEW m \in S
      PROVE  m <= n
  <2>1. hi - m \in D
    OBVIOUS
  <2>2. d <= hi - m
    BY <2>1, <1>3
  <2> QED
    BY <2>2, <1>4
<1> QED
  BY <1>5

-----------------------------------------------------------------------------
\* Blocks of one chain.

\* A block is on its own chain.
LEMMA OnChainSelf ==
  ASSUME NEW b \in Block
  PROVE  OnChain(b, b)
BY NumberNat, BlockTreeAssumption DEF OnChain, BlockTreeAssumption

\* The chain of a block has, below one of its blocks, the blocks of that one.
LEMMA SameAncestor ==
  ASSUME NEW a \in Block, NEW b \in Block, OnChain(a, b), NEW n \in 0 .. Number[a]
  PROVE  At[a][n] = At[b][n]
<1>1. Number[a] \in 0 .. Number[b] /\ At[b][Number[a]] = a
  BY NumberNat DEF OnChain
<1>2. \A m \in 0 .. Number[a] : At[At[b][Number[a]]][m] = At[b][m]
  BY <1>1, BlockTreeAssumption DEF BlockTreeAssumption
<1> QED
  BY <1>1, <1>2

\* An ancestor of an ancestor is an ancestor.
LEMMA OnChainTransitive ==
  ASSUME NEW a \in Block, NEW b \in Block, NEW c \in Block,
         OnChain(a, b), OnChain(b, c)
  PROVE  OnChain(a, c)
<1>1. Number[a] \in 0 .. Number[b]
  BY NumberNat DEF OnChain
<1>2. At[b][Number[a]] = At[c][Number[a]]
  BY <1>1, SameAncestor
<1> QED
  BY <1>2, NumberNat DEF OnChain

\* Of two blocks of a chain, the lower one is an ancestor of the other.
LEMMA OnChainOrdered ==
  ASSUME NEW a \in Block, NEW b \in Block, NEW c \in Block,
         OnChain(a, c), OnChain(b, c), Number[a] <= Number[b]
  PROVE  OnChain(a, b)
<1>1. Number[a] \in 0 .. Number[b]
  BY NumberNat
<1>2. At[b][Number[a]] = At[c][Number[a]]
  BY <1>1, SameAncestor
<1> QED
  BY <1>2 DEF OnChain

\* A chain has one block per number.
LEMMA OnChainUnique ==
  ASSUME NEW a \in Block, NEW b \in Block, NEW c \in Block,
         OnChain(a, c), OnChain(b, c), Number[a] = Number[b]
  PROVE  a = b
BY DEF OnChain

\* The block at a number of a chain is on it.
LEMMA AncestorOnChain ==
  ASSUME NEW b \in Block, NEW n \in 0 .. Number[b]
  PROVE  /\ At[b][n] \in Block /\ Number[At[b][n]] = n
         /\ OnChain(At[b][n], b)
BY Ancestor, NumberNat DEF OnChain

\* A block follows its parent.
LEMMA ParentOnChain ==
  ASSUME NEW b \in Block, NEW c \in Block,
         Number[c] = Number[b] + 1, Parent(c) = b
  PROVE  OnChain(b, c)
<1>1. Number[c] - 1 = Number[b]
  BY NumberNat
<1> QED
  BY <1>1, NumberNat DEF OnChain, Parent
=============================================================================
