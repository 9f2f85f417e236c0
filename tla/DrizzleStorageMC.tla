---------------------------- MODULE DrizzleStorageMC ----------------------------
(* Small instances of DrizzleStorage. *)
EXTENDS DrizzleStorage, TLC

Symmetry == Permutations(Value)
=============================================================================
