--------------------------- MODULE MCLangGraphRun ---------------------------
(* LangGraphRun for TLC: the constants come from the cfg files. *)
EXTENDS LangGraphRun, TLC

Symmetry == Permutations(Runs) \cup Permutations(Threads)
=============================================================================
