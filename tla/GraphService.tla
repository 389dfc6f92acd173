----------------------------- MODULE GraphService -----------------------------
(***************************************************************************)
(* run_agent_for_user (services/agent_service.py) with the LangGraph       *)
(* orchestrator: the service awaits the wrapper's invoke, which is         *)
(* LangGraphRun, records the success or the denial, and answers.  Shown to *)
(* implement RunLifecycle, as the classic AgentRuntime is: the factory     *)
(* keeps "the Agent contract identical for callers" (factory.py:3).        *)
(***************************************************************************)
EXTENDS LangGraphRun

VARIABLES
    reply,   \* reply[r]: how run_agent_for_user ended for r
    audits   \* the rows of record, with the run they are about

serviceVars == <<reply, audits>>
allVars == <<vars, serviceVars>>

-----------------------------------------------------------------------------
Pending(r) == outcome[r] \in {"returned", "rejected"} /\ reply[r] = "none"

AlwaysSuccess(r) == <<r, "success">>
AuditRecord(r) == <<r, IF outcome[r] = "returned" THEN "success" ELSE "denied">>

AuditLands(r) ==
    /\ Pending(r)
    /\ AuditRecord(r) \notin audits
    /\ audits' = audits \cup {AuditRecord(r)}
    /\ UNCHANGED reply

(* The result, or AgentExecutionError after a GuardrailError.              *)
Answer(r) ==
    /\ Pending(r)
    /\ AuditRecord(r) \in audits
    /\ reply' = [reply EXCEPT ![r] = IF outcome[r] = "returned" THEN "replied" ELSE "denied"]
    /\ UNCHANGED audits

(* Any other exception of invoke leaves the service, and so does that of a *)
(* record, whether or not its commit had landed.                           *)
Raise(r) ==
    /\ outcome[r] # "none" /\ reply[r] = "none"
    /\ reply' = [reply EXCEPT ![r] = "failed"]
    /\ UNCHANGED audits

-----------------------------------------------------------------------------
ServiceInit == Init /\ reply = [r \in Runs |-> "none"] /\ audits = {}

Conclude(r) == AuditLands(r) \/ Answer(r) \/ Raise(r)

ServiceNext ==
    \/ Next /\ UNCHANGED serviceVars
    \/ \E r \in Runs : Conclude(r) /\ UNCHANGED vars

ServiceSpec == ServiceInit /\ [][ServiceNext]_allVars

(* The handler is one task of the event loop, from the first node to the   *)
(* answer, and each await in it ends.                                      *)
Serve(r) ==
    \/ Drive(r) /\ UNCHANGED serviceVars
    \/ Conclude(r) /\ UNCHANGED vars

ServiceFairSpec == ServiceSpec /\ \A r \in Runs : WF_allVars(Serve(r))

-----------------------------------------------------------------------------
(* Properties                                                              *)

(* The contract of run_agent_for_user holds with the graphs in place of    *)
(* the classic loop: a reply rests on a run row and a recorded success, a  *)
(* denial on a recorded denial, whichever node or commit fails.            *)
StageOf(r) ==
    IF pc[r] = "waiting" THEN "waiting" ELSE IF reply[r] = "none" THEN "running" ELSE reply[r]

EvidenceOf(r) ==
    {e \in {"run", "success", "denied"} :
        IF e = "run" THEN \E row \in runRows : row.run = r ELSE <<r, e>> \in audits}

Lifecycle == INSTANCE RunLifecycle WITH
    Requests <- Runs,
    stage    <- [r \in Runs |-> StageOf(r)],
    evidence <- [r \in Runs |-> EvidenceOf(r)]

KeepsContract == Lifecycle!Contract

(* Stale tool calls do not keep a request going for ever: the step limit   *)
(* ends its graph (graph.py:126, "bounded tool rounds"), the supervisor's  *)
(* as well, and then the service answers.                                  *)
EveryRunIsAnswered == \A r \in Runs : pc[r] # "waiting" ~> reply[r] # "none"
=============================================================================
