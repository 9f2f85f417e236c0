----------------------------- MODULE MongoStorageMC -----------------------------
(* Small instances of MongoStorage. *)
EXTENDS MongoStorage, TLC

Symmetry == Permutations(Key) \union Permutations(Value)
=============================================================================
