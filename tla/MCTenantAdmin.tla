--------------------------- MODULE MCTenantAdmin ---------------------------
(* The pool of the run is smaller than the connections asked of it: three  *)
(* requests that may each want two share a pool of three.  It takes three  *)
(* connections for one insert to wait for another that waits itself.       *)
EXTENDS TenantAdmin
=============================================================================
