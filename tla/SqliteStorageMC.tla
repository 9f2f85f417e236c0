---------------------------- MODULE SqliteStorageMC ----------------------------
(* Small instances of SqliteStorage. *)
EXTENDS SqliteStorage, TLC

\* No starting cursor.
NoStartingCursor == Undefined

Symmetry == Permutations(Indexer) \union Permutations(Value)
=============================================================================
