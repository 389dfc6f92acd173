---------------------------- MODULE RunLifecycle ----------------------------
(***************************************************************************)
(* What the agent service promises the caller of run_agent_for_user, with  *)
(* no agent, tool loop or memory in it.  A request waits, runs, and ends   *)
(* in exactly one way.  An answer is given only on top of durable evidence *)
(* of the run and of its success, a denial only on top of the evidence of  *)
(* the denial.  A failure or a restart promises nothing beyond what was    *)
(* written before it.                                                      *)
(***************************************************************************)
CONSTANT Requests

VARIABLES
    stage,     \* stage[r]: where the caller sees request r
    evidence   \* evidence[r]: what is durably recorded about r

contractVars == <<stage, evidence>>

Stages == {"waiting", "running", "replied", "denied", "failed", "lost"}

ContractInit ==
    /\ stage = [r \in Requests |-> "waiting"]
    /\ evidence = [r \in Requests |-> {}]

Enter(r, from, to) ==
    /\ stage[r] = from
    /\ stage' = [stage EXCEPT ![r] = to]
    /\ UNCHANGED evidence

(* A request is taken up by the service. *)
Begin(r) == Enter(r, "waiting", "running")

(* Evidence is only added, success only on top of the run it vouches for,  *)
(* and the two verdicts never stand side by side.                          *)
Record(r, e) ==
    /\ stage[r] = "running"
    /\ e \notin evidence[r]
    /\ e = "run"     => evidence[r] = {}
    /\ e = "success" => evidence[r] = {"run"}
    /\ e = "denied"  => "success" \notin evidence[r]
    /\ evidence' = [evidence EXCEPT ![r] = @ \cup {e}]
    /\ UNCHANGED stage

Answer(r) == evidence[r] = {"run", "success"} /\ Enter(r, "running", "replied")
Deny(r)   == "denied" \in evidence[r]         /\ Enter(r, "running", "denied")
Fail(r)   == Enter(r, "running", "failed")

(* A restart loses every request in flight at once.                        *)
LoseAll ==
    /\ stage' = [r \in Requests |->
                    IF stage[r] = "running" THEN "lost" ELSE stage[r]]
    /\ UNCHANGED evidence

ContractNext ==
    \/ LoseAll
    \/ \E r \in Requests :
          \/ Begin(r) \/ Answer(r) \/ Deny(r) \/ Fail(r)
          \/ \E e \in {"run", "success", "denied"} : Record(r, e)

Contract == ContractInit /\ [][ContractNext]_contractVars
=============================================================================
