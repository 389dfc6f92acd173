------------------------------- MODULE Sessions -------------------------------
(***************************************************************************)
(* Logins and tokens (api/v1/endpoints/auth.py, core/security/auth.py).    *)
(* Login checks the password, awaits the audit record and then signs an    *)
(* access and a refresh token; refresh exchanges a refresh token for an    *)
(* access token.  Nothing is stored: a token is good for as long as it     *)
(* says, so what it can be exchanged for decides how long a session lasts. *)
(* Signing is external: only issued tokens decode, and time is in ticks.   *)
(***************************************************************************)
EXTENDS Naturals

CONSTANTS
    Logins,      \* the calls of login
    Emails,      \* e-mail addresses as callers type them
    Accounts,    \* the keys of _DEMO_USERS
    AccountOf,   \* email.lower(), of the addresses that have an account
    TenantOf,    \* an account's tenant_id
    RolesOf,     \* an account's roles
    Tenants, Roles,
    ACCESS_TTL,  \* access_token_ttl_minutes, 15 in the code
    REFRESH_TTL, \* refresh_token_ttl_days, 7 in the code
    MaxTime      \* bound: the ticks

ASSUME SessionsAssumption ==
    /\ ACCESS_TTL \in Nat /\ REFRESH_TTL \in Nat /\ MaxTime \in Nat
    /\ AccountOf \in [Emails -> Accounts]
    /\ TenantOf \in [Accounts -> Tenants]
    /\ RolesOf \in [Accounts -> SUBSET Roles]

VARIABLES
    now,        \* the clock
    email,      \* email[l]: the address l was called with
    phase,      \* phase[l]: how far l has got
    auditRows,  \* the logins with an "auth.login" row in audit_log
    tokens      \* the tokens issued so far

sessionVars == <<now, email, phase, auditRows, tokens>>

(* The claims, and as history the login they go back to and its time.      *)
Tokens == [sub : Emails, tenant : Tenants, roles : SUBSET Roles, exp : Nat,
           refresh : BOOLEAN, login : Logins, since : Nat]

Phases == {"idle", "recording", "recorded", "issued", "failed"}

-----------------------------------------------------------------------------
(* Tokens                                                                  *)

(* decode_token: the library refuses a token once exp lies in the past.    *)
Decodes(t) == t.exp >= now

(* The user id is a hash of the address as it was typed.                   *)
TokenOf(l, roles, lifetime, refresh) ==
    [sub |-> email[l], tenant |-> TenantOf[AccountOf[email[l]]], roles |-> roles,
     exp |-> now + lifetime, refresh |-> refresh, login |-> l, since |-> now]

AccessTokenOf(l) == TokenOf(l, RolesOf[AccountOf[email[l]]], ACCESS_TTL, FALSE)

RefreshTokenWithRoles(l) == TokenOf(l, RolesOf[AccountOf[email[l]]], REFRESH_TTL, TRUE)
RefreshTokenOf(l) == TokenOf(l, {}, REFRESH_TTL, TRUE)

(* claims.get("typ") != "refresh"                                          *)
AnyToken(t) == Decodes(t)
Exchangeable(t) == Decodes(t) /\ t.refresh

(* The new access token takes its roles from the refresh token's claims.   *)
Exchanged(t) ==
    [sub |-> t.sub, tenant |-> t.tenant, roles |-> t.roles, exp |-> now + ACCESS_TTL,
     refresh |-> FALSE, login |-> t.login, since |-> t.since]

-----------------------------------------------------------------------------
(* Handlers                                                                *)

Proceed(l, from, to) == phase[l] = from /\ phase' = [phase EXCEPT ![l] = to]

(* The address has an account and the password is right; any other login   *)
(* is answered 401 and changes nothing.                                    *)
CheckPassword(l) ==
    /\ Proceed(l, "idle", "recording")
    /\ UNCHANGED <<now, email, auditRows, tokens>>

RecordLands(l) ==
    /\ Proceed(l, "recording", "recorded")
    /\ auditRows' = auditRows \cup {l}
    /\ UNCHANGED <<now, email, tokens>>

(* The commit raises, having landed or not: 500, and no tokens.            *)
RecordRaises(l) ==
    /\ \E p \in {"recording", "recorded"} : Proceed(l, p, "failed")
    /\ UNCHANGED <<now, email, auditRows, tokens>>

ReadyBeforeRecord == {"recording", "recorded"}
Ready == {"recorded"}

IssueTokens(l) ==
    /\ \E p \in Ready : Proceed(l, p, "issued")
    /\ tokens' = tokens \cup {AccessTokenOf(l), RefreshTokenOf(l)}
    /\ UNCHANGED <<now, email, auditRows>>

Refresh ==
    /\ \E t \in tokens : Exchangeable(t) /\ tokens' = tokens \cup {Exchanged(t)}
    /\ UNCHANGED <<now, email, phase, auditRows>>

Tick ==
    /\ now < MaxTime
    /\ now' = now + 1
    /\ UNCHANGED <<email, phase, auditRows, tokens>>

SessionInit ==
    /\ now = 0
    /\ email \in [Logins -> Emails]
    /\ phase = [l \in Logins |-> "idle"]
    /\ auditRows = {}
    /\ tokens = {}

SessionNext ==
    \/ Tick \/ Refresh
    \/ \E l \in Logins : CheckPassword(l) \/ RecordLands(l) \/ RecordRaises(l) \/ IssueTokens(l)
=============================================================================
