-------------------------- MODULE CreationContract --------------------------
(***************************************************************************)
(* What the callers of create_tenant, create_user and create_institution   *)
(* may rely on (api/v1/endpoints/tenants.py), with no pool, session, lock  *)
(* or transaction in it.  A creation takes effect at one moment between    *)
(* its request and its answer, or never.  No two take effect with the same *)
(* value in any unique column, a tenant's name or its slug, and a tenant's *)
(* has been audited by then.  Only "created" says that it took effect:     *)
(* after any other answer to a request it may have.                        *)
(***************************************************************************)
CONSTANTS
    Requests, Kinds,
    RowsOf  \* RowsOf[k]: the rows of kind k, as sets of unique columns with their values

VARIABLES
    asked,    \* asked[r]: what request r wants to create
    audited,  \* the requests with a tenant.create row
    made,     \* the requests whose creation has taken effect
    answer    \* answer[r]: what the caller of r was told

contractVars == <<asked, audited, made, answer>>

NotAsked == [kind |-> "none", unique |-> {}]

Open(r) == asked[r] # NotAsked /\ answer[r] = "none"

Tell(r, a) == answer' = [answer EXCEPT ![r] = a]

ContractInit ==
    /\ asked = [r \in Requests |-> NotAsked]
    /\ audited = {}
    /\ made = {}
    /\ answer = [r \in Requests |-> "none"]

Refuse(r) ==
    /\ asked[r] = NotAsked /\ answer[r] = "none"
    /\ Tell(r, "denied")
    /\ UNCHANGED <<asked, audited, made>>

Ask(r) ==
    /\ asked[r] = NotAsked /\ answer[r] = "none"
    /\ \E k \in Kinds : \E row \in RowsOf[k] :
           asked' = [asked EXCEPT ![r] = [kind |-> k, unique |-> row]]
    /\ UNCHANGED <<audited, made, answer>>

Fail(r) ==
    /\ Open(r)
    /\ Tell(r, "failed")
    /\ UNCHANGED <<asked, audited, made>>

(* The audit row may be all that is left of a tenant's creation. *)
Audit(r) ==
    /\ Open(r) /\ asked[r].kind = "tenant"
    /\ audited' = audited \cup {r}
    /\ Tell(r, "failed") \/ UNCHANGED answer
    /\ UNCHANGED <<asked, made>>

TakeEffect(r) ==
    /\ Open(r) /\ \A q \in made : asked[q].unique \cap asked[r].unique = {}
    /\ asked[r].kind = "tenant" => r \in audited
    /\ made' = made \cup {r}
    /\ Tell(r, "created") \/ Tell(r, "failed")
    /\ UNCHANGED <<asked, audited>>

(* A restart leaves every open request without its answer. *)
LoseAll ==
    /\ answer' = [r \in Requests |-> IF Open(r) THEN "lost" ELSE answer[r]]
    /\ UNCHANGED <<asked, audited, made>>

ContractNext ==
    \/ LoseAll
    \/ \E r \in Requests : Refuse(r) \/ Ask(r) \/ Fail(r) \/ Audit(r) \/ TakeEffect(r)

Contract == ContractInit /\ [][ContractNext]_contractVars
=============================================================================
