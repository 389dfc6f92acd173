------------------------------ MODULE ToolAuthz ------------------------------
(***************************************************************************)
(* One tool call of an agent, from the tool name the LLM returned to the   *)
(* tool's result (tools/authz.py, tools/registry.py, core/security/rbac.py *)
(* and the tools themselves).  The layers of authorize_tool_execution are  *)
(* one action each, in the code's order; a layer that refuses ends the     *)
(* call with its code.  The context is the one the chats endpoint builds,  *)
(* the arguments are the LLM's.  Customers are users: the demo stores, the *)
(* tokens and resource_owner_id share one space of ids.                    *)
(***************************************************************************)
EXTENDS Naturals

CONSTANTS
    Users,      \* user ids, which are also the customer ids of the stores
    OnRecord,   \* the customers the demo stores hold
    Tenants,
    Absent      \* None: an argument that is missing or empty

ASSUME AuthzAssumption == OnRecord \subseteq Users /\ Absent \notin Users \cup Tenants

VARIABLES
    call,     \* the tool, the ToolContext and the arguments
    layer,    \* the layer the call has reached
    outcome,  \* the error code, or how the tool ended
    subject   \* the customer whose record the result holds, or Absent

vars == <<call, layer, outcome, subject>>

-----------------------------------------------------------------------------
(* The registered tools and the default policies                           *)

RequiredPermission ==
    [check_loan_eligibility |-> "loan:read",     get_credit_report |-> "loan:read",
     check_kyc_status       |-> "customer:read", get_customer_profile |-> "customer:read",
     search_documents       |-> "document:read", sanctions_screen |-> "compliance:*"]

Registry == DOMAIN RequiredPermission

Sensitive == {"check_loan_eligibility", "sanctions_screen"}

(* The tools that look the customer_id argument up in a store. *)
RecordTools == {"get_credit_report", "check_kyc_status", "get_customer_profile"}

(* The tools whose run repeats a check of the scope. *)
ScopedTools == {"get_credit_report", "get_customer_profile"}

DefaultRbac ==
    [platform_admin     |-> {"tenant:*", "institution:*", "user:write"},
     institution_admin  |-> {"institution:*", "loan:read", "customer:read", "user:write"},
     loan_officer       |-> {"loan:read", "loan:write", "customer:read"},
     compliance_officer |-> {"compliance:*", "audit:read"},
     fraud_analyst      |-> {"fraud:read", "fraud:write"},
     customer           |-> {"customer:self", "loan:self"}]

Roles == DOMAIN DefaultRbac

StaffRoles == {"institution_admin", "compliance_officer", "fraud_analyst", "loan_officer"}

(* The permission with :read replaced by :self; compliance:* has no :read. *)
SelfPermission ==
    [check_loan_eligibility |-> "loan:self",     get_credit_report |-> "loan:self",
     check_kyc_status       |-> "customer:self", get_customer_profile |-> "customer:self",
     search_documents       |-> "document:self", sanctions_screen |-> "compliance:*"]

Can(roles, permission) == \E role \in roles : permission \in DefaultRbac[role]

Granted(c) == Can(c.roles, RequiredPermission[c.tool])
SelfGranted(c) == Can(c.roles, SelfPermission[c.tool])

IsStaff(roles) == roles \cap StaffRoles # {}

(* The context owns the caller's records, unless the caller is staff. *)
OwnerOfEveryCall(c) == c.user
ResourceOwner(c) == IF IsStaff(c.roles) THEN Absent ELSE c.user

(* arguments.get("customer_id") or arguments.get("resource_owner_id") *)
NamedOwner(c) == IF c.customer # Absent THEN c.customer ELSE c.owner

AnyNamedOwner(c) == ResourceOwner(c) # Absent
OwnsResource(c) == ResourceOwner(c) # Absent /\ NamedOwner(c) = ResourceOwner(c)

(* arguments.get("tenant_id", ctx.tenant_id) against the caller's tenant. *)
SameTenant(c) == c.resourceTenant = Absent \/ c.resourceTenant = c.tenant

(* The policy in force, and the one security/opa/tool_authz.rego states,   *)
(* which nothing consults: it allows staff of its three roles, in their    *)
(* tenant, a sensitive tool that was approved.                             *)
OpaAllows(c) == c.approved \/ "compliance_officer" \in c.roles
OpaPolicyAllows(c) ==
    /\ SameTenant(c)
    /\ c.roles \cap {"compliance_officer", "fraud_analyst", "institution_admin"} # {}
    /\ c.approved

(* "customer:read" is looked for among the roles, and is none. *)
InScope(c) == ResourceOwner(c) = Absent \/ ResourceOwner(c) = c.customer

-----------------------------------------------------------------------------
Calls == [tool : Registry \cup {"unregistered"}, roles : SUBSET Roles, user : Users,
          tenant : Tenants, customer : Users \cup {Absent}, owner : Users \cup {Absent},
          resourceTenant : Tenants \cup {Absent}, ticket : BOOLEAN, approved : BOOLEAN]

Refusals == {"tool_not_found", "insufficient_permission", "ownership_required",
             "policy_denied", "approval_required", "opa_denied"}

Pass(next) == layer' = next /\ UNCHANGED <<call, outcome, subject>>

End(result, record) ==
    /\ layer' = "done"
    /\ outcome' = result
    /\ subject' = record
    /\ UNCHANGED call

FindTool ==
    /\ layer = "registry"
    /\ \/ call.tool \in Registry /\ Pass("rbac")
       \/ call.tool \notin Registry /\ End("tool_not_found", Absent)

CheckPermission ==
    /\ layer = "rbac"
    /\ \/ Granted(call) /\ Pass("abac")
       \/ ~Granted(call) /\ SelfGranted(call) /\ Pass("ownership")
       \/ ~Granted(call) /\ ~SelfGranted(call) /\ End("insufficient_permission", Absent)

CheckOwnership ==
    /\ layer = "ownership"
    /\ \/ OwnsResource(call) /\ Pass("abac")
       \/ ~OwnsResource(call) /\ End("ownership_required", Absent)

CheckAttributes ==
    /\ layer = "abac"
    /\ \/ SameTenant(call) /\ Pass(IF call.tool \in Sensitive THEN "approval" ELSE "run")
       \/ ~SameTenant(call) /\ End("policy_denied", Absent)

CheckApproval ==
    /\ layer = "approval"
    /\ \/ call.ticket /\ Pass("opa")
       \/ ~call.ticket /\ End("approval_required", Absent)

CheckPolicy ==
    /\ layer = "opa"
    /\ \/ OpaAllows(call) /\ Pass("run")
       \/ ~OpaAllows(call) /\ End("opa_denied", Absent)

(* Tools of RecordTools return the record of the customer_id argument; the *)
(* decision, the screening and the search return no customer's record.     *)
RunTool ==
    /\ layer = "run"
    /\ \/ call.tool \notin RecordTools /\ End("success", Absent)
       \/ call.tool \in RecordTools /\ call.customer \notin OnRecord /\ End("failure", Absent)
       \/ /\ call.tool \in RecordTools /\ call.customer \in OnRecord
          /\ IF call.tool \in ScopedTools /\ ~InScope(call)
             THEN End("failure", Absent)
             ELSE End("success", call.customer)

Init ==
    /\ call \in Calls
    /\ layer = "registry"
    /\ outcome = "none"
    /\ subject = Absent

Next == FindTool \/ CheckPermission \/ CheckOwnership \/ CheckAttributes
        \/ CheckApproval \/ CheckPolicy \/ RunTool

Spec == Init /\ [][Next]_vars

-----------------------------------------------------------------------------
(* Properties                                                              *)

(* Every call, layer and result stays within what the code can hold. *)
TypeOK ==
    /\ call \in Calls
    /\ layer \in {"registry", "rbac", "ownership", "abac", "approval", "opa", "run", "done"}
    /\ outcome \in Refusals \cup {"none", "success", "failure"}
    /\ subject \in Users \cup {Absent}

(* Self-service: a customer's record reaches the caller only if a role of  *)
(* the caller holds the tool's read permission, or the record is the       *)
(* caller's own.  Three tools, the :self fallback of the RBAC layer, the   *)
(* ownership layer and the endpoint's choice of resource_owner_id together *)
(* have to make it so: the ownership layer looks at two arguments, the     *)
(* tool at one of them.                                                    *)
RecordsAreOwnOrPermitted == subject # Absent => Granted(call) \/ subject = call.user

(* The policy: a sensitive tool that ran was one the OPA policy allows.    *)
(* It is false of the code: nothing asks OPA, and the fallback in its      *)
(* place takes the role for the approval and the approval for the role.    *)
LocalPolicyIsNoLaxer ==
    outcome \in {"success", "failure"} /\ call.tool \in Sensitive => OpaPolicyAllows(call)

(* The scope check in the tools never refuses what authorization let by:   *)
(* a customer who is permitted to see a stored record gets it.             *)
PermittedRecordsAreReturned ==
    (outcome = "failure") => call.customer \notin OnRecord

=============================================================================
