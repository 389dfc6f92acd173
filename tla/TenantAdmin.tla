---------------------------- MODULE TenantAdmin ----------------------------
(***************************************************************************)
(* Concurrent creations of tenants, users and institutions                 *)
(* (api/v1/endpoints/tenants.py), with the connections they take from the  *)
(* engine's pool (db/session.py) and the audit row that create_tenant      *)
(* writes over a second connection (services/audit.py).  The database is   *)
(* external: an insert enters the unique indexes of its table one by one   *)
(* and waits before each for an uncommitted entry with its value, a call   *)
(* may raise, and a commit that raises may have been applied.  A caller    *)
(* without the permission is Denied.                                       *)
(***************************************************************************)
EXTENDS Naturals, FiniteSets

CONSTANTS
    Requests,
    Names, Slugs, Emails, Codes,  \* the values of the unique columns
    PoolSize,    \* db_pool_size + db_max_overflow
    MaxRestarts  \* bound on the restarts

ASSUME TenantAdminAssumption ==
    /\ IsFiniteSet(Requests)
    /\ PoolSize \in Nat \ {0}
    /\ MaxRestarts \in Nat

VARIABLES
    phase,    \* where each request is, or how it was answered
    kind,     \* what it creates
    unique,   \* the entries of the new row: its unique columns and their values
    held,     \* the sessions that have a connection of the pool checked out
    written,  \* the uncommitted entries of each request in the unique indexes
    rows,     \* the committed rows, by the request that wrote them
    audit,    \* the requests with a committed tenant.create row
    restarts

vars == <<phase, kind, unique, held, written, rows, audit, restarts>>

(* The unique columns of the three tables: a tenant has two. *)
RowsOf ==
    [tenant      |-> {{<<"name", n>>, <<"slug", s>>} : n \in Names, s \in Slugs},
     user        |-> {{<<"email", e>>} : e \in Emails},
     institution |-> {{<<"code", c>>} : c \in Codes}]

Kinds == DOMAIN RowsOf

Entries ==
    ({"name"} \X Names) \cup ({"slug"} \X Slugs) \cup ({"email"} \X Emails) \cup ({"code"} \X Codes)

Waiting == {"connecting", "inserting", "indexing", "auditing", "recording", "committing"}
Answered == {"denied", "created", "failed", "lost"}

(* A request has the session of its endpoint and that of record. *)
Sessions == Requests \X {"endpoint", "record"}
SessionsOf(r) == {r} \X {"endpoint", "record"}

Used == Cardinality(held)

(* The entry an insert makes next: that of the slug comes after the name's. *)
Due(r) == {e \in unique[r] : (e[1] = "slug") = (phase[r] = "indexing")}

Blocked(r) == \E q \in Requests \ {r} : Due(r) \cap written[q] # {}
Duplicate(r) == \E q \in rows : Due(r) \cap unique[q] # {}

-----------------------------------------------------------------------------
Request == UNCHANGED <<kind, unique>>

Goto(r, p) == phase' = [phase EXCEPT ![r] = p]

Denied(r) ==
    /\ phase[r] = "idle"
    /\ Goto(r, "denied")
    /\ Request /\ UNCHANGED <<held, written, rows, audit, restarts>>

Post(r) ==
    /\ phase[r] = "idle"
    /\ \E k \in Kinds : \E row \in RowsOf[k] :
           /\ kind' = [kind EXCEPT ![r] = k]
           /\ unique' = [unique EXCEPT ![r] = row]
    /\ Goto(r, "connecting")
    /\ UNCHANGED <<held, written, rows, audit, restarts>>

(* A connection is checked out when the pool has one left. *)
Checkout(r, session, from, to) ==
    /\ phase[r] = from /\ Used < PoolSize
    /\ held' = held \cup {<<r, session>>}
    /\ Goto(r, to)
    /\ Request /\ UNCHANGED <<written, rows, audit, restarts>>

Connect(r) == Checkout(r, "endpoint", "connecting", "inserting")

(* The flush of create_tenant, or the first half of the other commits: an  *)
(* entry in the first unique index and, for a tenant, one in the second.   *)
Enter(r, from, to) ==
    /\ phase[r] = from /\ ~Duplicate(r)
    /\ written' = [written EXCEPT ![r] = @ \cup Due(r)]
    /\ Goto(r, to)
    /\ Request /\ UNCHANGED <<held, rows, audit, restarts>>

InsertAfterQuery(r) == Enter(r, "inserting", IF kind[r] = "tenant" THEN "indexing" ELSE "committing")
Insert(r) ==
    ~Blocked(r) /\ Enter(r, "inserting", IF kind[r] = "tenant" THEN "indexing" ELSE "committing")

InsertSlugWithoutAudit(r) == ~Blocked(r) /\ Enter(r, "indexing", "committing")
InsertSlug(r) == ~Blocked(r) /\ Enter(r, "indexing", "auditing")

(* record opens a session of its own, inside the transaction. *)
AuditConnect(r) == Checkout(r, "record", "auditing", "recording")

(* Leaving the session returns its connections and ends its transaction. *)
ReleaseKeepingRow(r) ==
    /\ held' = held \ SessionsOf(r)
    /\ UNCHANGED written
Release(r) ==
    /\ held' = held \ SessionsOf(r)
    /\ written' = [written EXCEPT ![r] = {}]

(* record's commit, which may raise once it has been applied. *)
AuditCommits(r) ==
    /\ phase[r] = "recording"
    /\ audit' = audit \cup {r}
    /\ \/ /\ held' = held \ {<<r, "record">>}
          /\ Goto(r, "committing")
          /\ UNCHANGED written
       \/ Release(r) /\ Goto(r, "failed")
    /\ Request /\ UNCHANGED <<rows, restarts>>

Commit(r) ==
    /\ phase[r] = "committing"
    /\ rows' = rows \cup {r}
    /\ Release(r)
    /\ phase' \in {[phase EXCEPT ![r] = "created"], [phase EXCEPT ![r] = "failed"]}
    /\ Request /\ UNCHANGED <<audit, restarts>>

Fail(r) ==
    /\ Release(r)
    /\ Goto(r, "failed")
    /\ Request /\ UNCHANGED <<rows, audit, restarts>>

(* The value is taken: the insert raises. *)
IntegrityError(r) ==
    phase[r] \in {"inserting", "indexing"} /\ ~Blocked(r) /\ Duplicate(r) /\ Fail(r)

(* The pool waits its timeout for a connection, then raises. *)
PoolTimeoutAtFirst(r) == phase[r] = "connecting" /\ Used = PoolSize /\ Fail(r)
PoolTimeout(r) == phase[r] \in {"connecting", "auditing"} /\ Used = PoolSize /\ Fail(r)

DatabaseRaises(r) ==
    phase[r] \in {"inserting", "indexing", "recording", "committing"} /\ Fail(r)

(* The process stops: the database rolls its transactions back. *)
Restart ==
    /\ restarts < MaxRestarts
    /\ restarts' = restarts + 1
    /\ phase' = [r \in Requests |-> IF phase[r] \in Waiting THEN "lost" ELSE phase[r]]
    /\ held' = {}
    /\ written' = [r \in Requests |-> {}]
    /\ Request /\ UNCHANGED <<rows, audit>>

Init ==
    /\ phase = [r \in Requests |-> "idle"]
    /\ kind \in [Requests -> {"none"}]
    /\ unique = [r \in Requests |-> {}]
    /\ held = {}
    /\ written = [r \in Requests |-> {}]
    /\ rows = {}
    /\ audit = {}
    /\ restarts = 0

Serve(r) ==
    \/ Connect(r) \/ Insert(r) \/ InsertSlug(r) \/ AuditConnect(r) \/ AuditCommits(r)
    \/ Commit(r) \/ IntegrityError(r) \/ PoolTimeout(r)

Next ==
    \/ Restart
    \/ \E r \in Requests : Denied(r) \/ Post(r) \/ Serve(r) \/ DatabaseRaises(r)

Spec == Init /\ [][Next]_vars

(* The database answers what it is not blocked on, and the pool gives up   *)
(* after its timeout; that a call raises is never relied on.               *)
FairSpec == Spec /\ \A r \in Requests : WF_vars(Serve(r))

-----------------------------------------------------------------------------
(* Properties                                                              *)

(* The requests, the pool and the tables stay within what they hold. *)
TypeOK ==
    /\ phase \in [Requests -> {"idle"} \cup Waiting \cup Answered]
    /\ kind \in [Requests -> Kinds \cup {"none"}]
    /\ unique \in [Requests -> SUBSET Entries]
    /\ held \subseteq Sessions
    /\ Used <= PoolSize
    /\ written \in [Requests -> SUBSET Entries]
    /\ rows \subseteq Requests /\ audit \subseteq Requests
    /\ restarts \in 0..MaxRestarts

(* A tenant exists only with its audit row, although the two are written   *)
(* by two transactions and either, the process or the pool may fail.       *)
CreatedTenantIsAudited == \A r \in rows : kind[r] = "tenant" => r \in audit

(* A request that has been answered, however it ended, holds no connection *)
(* of the pool and blocks no other insert.                                 *)
AnsweredHoldsNothing ==
    \A r \in Requests : phase[r] \in Answered => held \cap SessionsOf(r) = {} /\ written[r] = {}

(* Waits for index entries end: whoever an insert waits for is under way,  *)
(* and although a tenant that has entered its name may itself wait for a   *)
(* slug, the one it waits for waits for nobody.  So there is no cycle, and *)
(* with the pool's timeout blocked creations cannot deadlock.              *)
WaitsFor(r) ==
    {q \in Requests \ {r} : phase[r] \in {"inserting", "indexing"} /\ Due(r) \cap written[q] # {}}

WaitsEnd ==
    \A r \in Requests : \A q \in WaitsFor(r) :
        /\ phase[q] \in Waiting
        /\ \A p \in WaitsFor(q) : WaitsFor(p) = {}

(* The creations keep the contract of CreationContract, however inserts    *)
(* wait for each other, and audit rows and creations are committed by two  *)
(* transactions: each takes effect at its commit, and every unique value   *)
(* that the insert found free is still free then.                          *)
AskedOf(r) == [kind |-> kind[r], unique |-> unique[r]]
AnswerOf(r) == IF phase[r] \in Answered THEN phase[r] ELSE "none"

Creations == INSTANCE CreationContract WITH
    asked   <- [r \in Requests |-> AskedOf(r)],
    audited <- audit,
    made    <- rows,
    answer  <- [r \in Requests |-> AnswerOf(r)]

KeepsContract == Creations!Contract

(* Every request is answered, though creations of tenants may each hold a  *)
(* connection while they wait for a second one, and others wait for them.  *)
EveryCreationEnds == \A r \in Requests : phase[r] = "connecting" ~> phase[r] \in Answered

=============================================================================
