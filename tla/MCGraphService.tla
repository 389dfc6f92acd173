---------------------------- MODULE MCGraphService ----------------------------
(* GraphService for TLC, with two runs, of which one may be delegated:     *)
(* what the supervisor's graph does around a run reads and writes nothing  *)
(* of another delegated run.  Runs on one thread are of one conversation,  *)
(* runs on two also of two or, the first, of none.                         *)
EXTENDS GraphService, TLC

CONSTANTS r1, r2, t1, c1  \* two runs, a thread and a conversation

OneOfEachKind ==
    /\ ServiceInit
    /\ thread[r1] = t1 /\ ~delegated[r2] /\ conversation[r2] = c1
    /\ thread[r2] = t1 => conversation[r1] = c1

OneOfEachKindSpec ==
    /\ OneOfEachKind /\ [][ServiceNext]_allVars
    /\ \A r \in Runs : WF_allVars(Serve(r))
=============================================================================
