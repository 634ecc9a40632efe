--------------------------- MODULE MC_SymbolTrees ---------------------------
(* An instance of SymbolTrees for TLC: the threads are alike. *)
EXTENDS SymbolTrees, TLC

Alike == Permutations(Thread)
=============================================================================
