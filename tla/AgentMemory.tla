---------------------------- MODULE AgentMemory ----------------------------
(***************************************************************************)
(* What both orchestrators do with an AgentMemory (agents/memory.py): a    *)
(* conversation's turns are a sequence, of which the newest are kept and   *)
(* read.                                                                   *)
(***************************************************************************)
EXTENDS Naturals, Sequences

(* The last n elements of s, Python's s[-n:]. *)
Newest(s, n) == SubSeq(s, IF Len(s) > n THEN Len(s) - n + 1 ELSE 1, Len(s))
=============================================================================
