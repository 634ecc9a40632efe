--------------------------- MODULE MC_SplitTabs ---------------------------
(* Instances of SplitTabs for TLC: tabs are alike, and so are the splits.   *)
EXTENDS SplitTabs, TLC

Alike == Permutations(Tab) \cup Permutations(Split)
=============================================================================
