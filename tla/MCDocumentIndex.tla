-------------------------- MODULE MCDocumentIndex --------------------------
(* DocumentIndex for TLC: two uploads reach every way in which the text of *)
(* one can stand beside, replace or interleave with that of another.       *)
EXTENDS DocumentIndex
=============================================================================
