----------------------------- MODULE MCToolAuthz -----------------------------
(* ToolAuthz for TLC: the constants come from the cfg files. *)
EXTENDS ToolAuthz, TLC
=============================================================================
