------------------------------- MODULE BlockTree -------------------------------
(***************************************************************************)
(* The blocks an Ethereum-like chain can contain, as the program sees them *)
(* through BlockInfo (protocol/src/rpc/config.ts): a number, a hash and    *)
(* the hash of the parent.  A block stands for its hash.  A hash commits   *)
(* to the whole history below it, so a block determines its ancestor at    *)
(* every lower number: At[b][n].  This is an assumption about the chain,   *)
(* not about the program.                                                  *)
(***************************************************************************)
EXTENDS Integers

CONSTANTS
  Block,      \* every block the environment can produce, on every fork
  Number,     \* Number[b]: the block number (order key) of b
  At          \* At[b][n]: the block numbered n on the chain that ends in b

ASSUME BlockTreeAssumption ==
  /\ \A b \in Block : Number[b] \in Nat
  /\ \A b \in Block : \A n \in 0 .. Number[b] :
       /\ At[b][n] \in Block
       /\ Number[At[b][n]] = n
       /\ \A m \in 0 .. n : At[At[b][n]][m] = At[b][m]
  /\ \A b \in Block : At[b][Number[b]] = b
  /\ \A b, c \in Block : At[b][0] = At[c][0]

\* The parent of a block that is not the genesis block.
Parent(b) == At[b][Number[b] - 1]

\* b is c or one of its ancestors.
OnChain(b, c) == Number[b] <= Number[c] /\ At[c][Number[b]] = b

=============================================================================
