------------------------------ MODULE ChatEntry -------------------------------
(***************************************************************************)
(* A request on its way from the socket to the agent that answers it: the  *)
(* tenant middleware decodes the token and sets the tenant context, the    *)
(* rate limiter awaits Redis, get_principal decodes the token once more,   *)
(* require_permission looks at the roles, and a chat is routed to an agent *)
(* with the scope the endpoint gives it (middleware/tenant.py,             *)
(* api/dependencies.py, api/v1/endpoints/chats.py).  Composes Sessions,    *)
(* where the tokens come from and the clock runs on between the two looks  *)
(* at a token, with Routing.                                               *)
(***************************************************************************)
EXTENDS Sessions, Routing

CONSTANTS
    Calls,        \* the requests
    Topics,       \* bound: the intents that messages match
    MaxMatches,   \* bound: how often
    Hints,        \* agent_hint
    NoToken,      \* no Authorization header, or one that does not decode
    NoContext     \* a context variable that holds None

ASSUME EntryAssumption ==
    /\ MaxMatches \in Nat
    /\ NoToken \notin Tokens

VARIABLES
    endpoint,   \* endpoint[c]: what c calls
    scheme,     \* scheme[c]: how its Authorization header spells Bearer
    at,         \* at[c]: where c is, or how it was answered
    token,      \* token[c]: the token it bears
    context,    \* context[c]: current_tenant_id and current_user_id
    admitted,   \* admitted[c]: the principal, its scope and when it was let in
    answered    \* answered[c]: the message, the hint and who answers

callVars == <<endpoint, scheme, at, token, context, admitted, answered>>
vars == <<sessionVars, callVars>>

Endpoints == {"chat", "create_user", "create_tenant"}

Schemes == {"Bearer", "bearer"}

Messages == {m \in [IntentSet -> 0..MaxMatches] : \A i \in IntentSet \ Topics : m[i] = 0}

(* The context is what the middleware stores of the claims. *)
Contexts == [tenant : Tenants, sub : Emails] \cup {NoContext}

-----------------------------------------------------------------------------
(* Principals and permissions                                              *)

Bears(t) == t # NoToken /\ Decodes(t)

Staff == {"institution_admin", "compliance_officer", "fraud_analyst", "loan_officer"}
IsStaff(roles) == roles \cap Staff # {}

(* The grants of default_rbac that an endpoint of this API asks for.       *)
Granting == [create_user |-> {"platform_admin", "institution_admin"},
             create_tenant |-> {"platform_admin"}]

Permitted(e, roles) == IF e = "chat" THEN TRUE ELSE roles \cap Granting[e] # {}

-----------------------------------------------------------------------------
(* Steps of a request                                                      *)

(* TenantContextMiddleware clears the context and sets it to the claims of *)
(* a header that starts with "Bearer "; HTTPBearer, which finds the token  *)
(* for get_principal, takes the scheme in any case.                        *)
ContextOf(s, t) ==
    IF s = "Bearer" /\ Bears(t) THEN [tenant |-> t.tenant, sub |-> t.sub] ELSE NoContext

Arrive(c) ==
    /\ at[c] = "new"
    /\ at' = [at EXCEPT ![c] = "limiter"]
    /\ \E t \in tokens \cup {NoToken} :
          /\ token' = [token EXCEPT ![c] = t]
          /\ context' = [context EXCEPT ![c] = ContextOf(scheme[c], t)]
    /\ UNCHANGED <<sessionVars, endpoint, scheme, admitted, answered>>

(* 429 by the limiter, 401 by get_principal, 403 by require_permission.    *)
Refuse(c) ==
    /\ at[c] = "limiter"
    /\ \/ at' = [at EXCEPT ![c] = "429"]
       \/ ~Bears(token[c]) /\ at' = [at EXCEPT ![c] = "401"]
       \/ /\ Bears(token[c]) /\ ~Permitted(endpoint[c], token[c].roles)
          /\ at' = [at EXCEPT ![c] = "403"]
    /\ UNCHANGED <<sessionVars, endpoint, scheme, token, context, admitted, answered>>

Principal(t) ==
    [sub |-> t.sub, tenant |-> t.tenant, roles |-> t.roles, scoped |-> ~IsStaff(t.roles),
     time |-> now]

Admit(c) ==
    /\ at[c] = "limiter"
    /\ Bears(token[c])
    /\ Permitted(endpoint[c], token[c].roles)
    /\ at' = [at EXCEPT ![c] = "admitted"]
    /\ admitted' = [admitted EXCEPT ![c] = {Principal(token[c])}]

(* A chat goes on to route and resolve_agent, which read nothing that any  *)
(* other step changes.                                                     *)
Chat(c) ==
    /\ endpoint[c] = "chat"
    /\ Admit(c)
    /\ \E m \in Messages, hint \in Hints :
          LET agent == Chosen(hint, m)
          IN  answered' = [answered EXCEPT ![c] = {[message |-> m, hint |-> hint, agent |-> agent,
                                                    by |-> Answers(agent, m)]}]
    /\ UNCHANGED <<sessionVars, endpoint, scheme, token, context>>

Administer(c) ==
    /\ endpoint[c] # "chat"
    /\ Admit(c)
    /\ UNCHANGED <<sessionVars, endpoint, scheme, token, context, answered>>

-----------------------------------------------------------------------------
Init ==
    /\ SessionInit
    /\ endpoint \in [Calls -> Endpoints]
    /\ scheme \in [Calls -> Schemes]
    /\ at = [c \in Calls |-> "new"]
    /\ token = [c \in Calls |-> NoToken]
    /\ context = [c \in Calls |-> NoContext]
    /\ admitted = [c \in Calls |-> {}]
    /\ answered = [c \in Calls |-> {}]

Next ==
    \/ SessionNext /\ UNCHANGED callVars
    \/ \E c \in Calls : Arrive(c) \/ Refuse(c) \/ Chat(c) \/ Administer(c)

Spec == Init /\ [][Next]_vars

-----------------------------------------------------------------------------
(* Properties                                                              *)

(* The shape of every variable. *)
TypeOK ==
    /\ now \in 0..MaxTime
    /\ email \in [Logins -> Emails]
    /\ phase \in [Logins -> Phases]
    /\ auditRows \subseteq Logins
    /\ tokens \subseteq Tokens
    /\ endpoint \in [Calls -> Endpoints]
    /\ scheme \in [Calls -> Schemes]
    /\ at \in [Calls -> {"new", "limiter", "admitted", "401", "403", "429"}]
    /\ token \in [Calls -> Tokens \cup {NoToken}]
    /\ context \in [Calls -> Contexts]
    /\ admitted \in [Calls -> SUBSET [sub : Emails, tenant : Tenants, roles : SUBSET Roles,
                                      scoped : BOOLEAN, time : 0..now]]
    /\ answered \in [Calls -> SUBSET [message : Messages, hint : Hints, agent : AgentSet,
                                      by : AgentSet]]

(* A session ends: nobody is let in later than the two lifetimes after the *)
(* login their token goes back to, however the tokens were exchanged and   *)
(* whenever the exchanges were made (auth.py:94).                          *)
SessionsEnd ==
    \A c \in Calls : \A p \in admitted[c] :
        p.time <= token[c].since + REFRESH_TTL + ACCESS_TTL

(* Roles are recent: whoever acts with a role, on an endpoint that asks    *)
(* for one, or in a chat without being held to their own records, has      *)
(* logged in within the lifetime of an access token, to the account that   *)
(* has the role.  Refreshing never prolongs a role, since refresh does not *)
(* look the account up (auth.py:98, chats.py:43).                          *)
RolesAreRecent ==
    \A c \in Calls : \A p \in admitted[c] :
        endpoint[c] # "chat" \/ ~p.scoped \/ p.roles # {} =>
            /\ p.time <= token[c].since + ACCESS_TTL
            /\ p.roles \subseteq RolesOf[AccountOf[p.sub]]

(* "sets the tenant context for the duration of the request"               *)
(* (middleware/tenant.py:2-3): whoever is let in has the context of their  *)
(* own tenant and user.  It is false of the code: the middleware knows one *)
(* spelling of the scheme, get_principal every one.                        *)
AdmittedHaveContext ==
    \A c \in Calls : \A p \in admitted[c] :
        context[c] = [tenant |-> p.tenant, sub |-> p.sub]

(* Every token in circulation goes back to a login with a durable audit    *)
(* row, through failing commits (auth.py:57).                              *)
TokensAreAudited == \A t \in tokens : t.login \in auditRows

(* Nothing in the message asks more for another agent: unless a hint named *)
(* a capability, no intent matches more often than one that the answering  *)
(* agent is capable of (router.py:34, registry.py:24).                     *)
MostMatchedIsServed ==
    \A c \in Calls : \A a \in answered[c] :
        FindByCapability(a.hint) = {} =>
            \A i \in IntentSet : \E k \in Capabilities[a.by] \cap IntentSet :
                a.message[i] <= a.message[k]

=============================================================================
