---------------------------- MODULE MCLLMGateway ----------------------------
(* LLMGateway for TLC: the constants come from the cfg files. *)
EXTENDS LLMGateway, TLC
=============================================================================
