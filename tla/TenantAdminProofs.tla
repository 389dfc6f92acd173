-------------------------- MODULE TenantAdminProofs --------------------------
(***************************************************************************)
(* The creations of tenants, users and institutions, for any number of     *)
(* requests and values and any size of the pool.  The phase of a request   *)
(* says what it asked for (AskedByPhase), which of its sessions have a     *)
(* connection (ConnectionsByPhase), which unique indexes hold an entry of  *)
(* its uncommitted row (EntriesByPhase), and whether the audit row of its  *)
(* tenant has been committed (AuditComesFirst).                            *)
(***************************************************************************)
EXTENDS TenantAdmin, FiniteSetTheorems, TLAPS

ConnectionsByPhase ==
    \A r \in Requests :
        /\ <<r, "endpoint">> \in held <=>
              phase[r] \in {"inserting", "indexing", "auditing", "recording", "committing"}
        /\ <<r, "record">> \in held <=> phase[r] = "recording"

AskedByPhase ==
    \A r \in Requests :
        /\ IF phase[r] \in {"idle", "denied"} THEN kind[r] = "none" /\ unique[r] = {}
           ELSE kind[r] \in Kinds /\ unique[r] \in RowsOf[kind[r]]
        /\ phase[r] \in {"indexing", "auditing", "recording"} => kind[r] = "tenant"

EntriesByPhase ==
    \A r \in Requests :
        written[r] = IF phase[r] = "indexing" THEN {e \in unique[r] : e[1] # "slug"}
                     ELSE IF phase[r] \in {"auditing", "recording", "committing"} THEN unique[r]
                     ELSE {}

AuditComesFirst ==
    \A r \in Requests :
        /\ phase[r] = "committing" /\ kind[r] = "tenant" => r \in audit
        /\ r \in rows =>
              /\ phase[r] \in {"created", "failed"}
              /\ kind[r] = "tenant" => r \in audit

IInv == TypeOK /\ AskedByPhase /\ ConnectionsByPhase /\ EntriesByPhase /\ AuditComesFirst

-----------------------------------------------------------------------------
(* Connections are finitely many, and fewer sessions hold fewer.           *)
LEMMA SessionsFinite == IsFiniteSet(Sessions)
<1>1. IsFiniteSet({"endpoint", "record"})
  <2>1. IsFiniteSet({"endpoint"}) /\ {"endpoint", "record"} = {"endpoint"} \cup {"record"}
    BY FS_Singleton
  <2> QED BY <2>1, FS_AddElement
<1> QED BY <1>1, FS_Product, TenantAdminAssumption DEF Sessions

LEMMA UsedType == ASSUME held \subseteq Sessions PROVE IsFiniteSet(held) /\ Used \in Nat
<1>1. IsFiniteSet(held)
  BY SessionsFinite, FS_Subset
<1> QED BY <1>1, FS_CardinalityType DEF Used

LEMMA UsedShrinks ==
    ASSUME TypeOK, held' \subseteq held
    PROVE  held' \subseteq Sessions /\ Used' <= PoolSize
<1>1. IsFiniteSet(held) /\ Used \in Nat /\ Used <= PoolSize
  BY UsedType DEF TypeOK
<1>2. IsFiniteSet(held') /\ Cardinality(held') <= Cardinality(held)
  BY <1>1, FS_Subset
<1>3. Cardinality(held') \in Nat
  BY <1>2, FS_CardinalityType
<1> QED BY <1>1, <1>2, <1>3, TenantAdminAssumption DEF Used, TypeOK

LEMMA UsedGrowsByOne ==
    ASSUME TypeOK, NEW s \in Sessions, Used < PoolSize, held' = held \cup {s}
    PROVE  held' \subseteq Sessions /\ Used' <= PoolSize
<1>1. IsFiniteSet(held) /\ Used \in Nat
  BY UsedType DEF TypeOK
<1>2. Cardinality(held') \in {Cardinality(held), Cardinality(held) + 1}
  BY <1>1, FS_AddElement
<1> QED BY <1>1, <1>2, TenantAdminAssumption DEF Used, TypeOK

-----------------------------------------------------------------------------
(* The rows of a table are made of its unique columns.                     *)
LEMMA RowsHaveEntries == ASSUME NEW k \in Kinds PROVE RowsOf[k] \subseteq SUBSET Entries
BY DEF Kinds, RowsOf, Entries

LEMMA OnlyTenantsHaveSlugs ==
    ASSUME NEW k \in Kinds, k # "tenant", NEW row \in RowsOf[k], NEW e \in row
    PROVE  e[1] # "slug"
BY DEF Kinds, RowsOf

LEMMA InitEstablishes == Init => IInv
<1> SUFFICES ASSUME Init PROVE IInv
  OBVIOUS
<1>1. Used = 0
  BY FS_EmptySet DEF Init, Used
<1>2. TypeOK
  BY <1>1, TenantAdminAssumption DEF Init, TypeOK, Sessions
<1> QED BY <1>2 DEF Init, IInv, AskedByPhase, ConnectionsByPhase, EntriesByPhase, AuditComesFirst

(* A checkout leaves the request waiting for the database with one more    *)
(* session connected.                                                      *)
LEMMA CheckoutPreserves ==
    ASSUME IInv, NEW r \in Requests, Connect(r) \/ AuditConnect(r)
    PROVE  IInv'
<1> USE DEF IInv
<1>1. CASE Connect(r)
  <2>1. /\ phase[r] = "connecting" /\ phase' = [phase EXCEPT ![r] = "inserting"]
        /\ held' = held \cup {<<r, "endpoint">>} /\ Used < PoolSize
        /\ UNCHANGED <<kind, unique, written, rows, audit, restarts>>
    BY <1>1 DEF Connect, Checkout, Goto, Request
  <2>2. held' \subseteq Sessions /\ Used' <= PoolSize
    BY <2>1, UsedGrowsByOne DEF Sessions
  <2>3. TypeOK'
    BY <2>1, <2>2 DEF TypeOK, Waiting
  <2>4. ConnectionsByPhase'
    BY <2>1 DEF TypeOK, ConnectionsByPhase
  <2> QED BY <2>1, <2>3, <2>4 DEF TypeOK, AskedByPhase, EntriesByPhase, AuditComesFirst
<1>2. CASE AuditConnect(r)
  <2>1. /\ phase[r] = "auditing" /\ phase' = [phase EXCEPT ![r] = "recording"]
        /\ held' = held \cup {<<r, "record">>} /\ Used < PoolSize
        /\ UNCHANGED <<kind, unique, written, rows, audit, restarts>>
    BY <1>2 DEF AuditConnect, Checkout, Goto, Request
  <2>2. held' \subseteq Sessions /\ Used' <= PoolSize
    BY <2>1, UsedGrowsByOne DEF Sessions
  <2>3. TypeOK'
    BY <2>1, <2>2 DEF TypeOK, Waiting
  <2>4. ConnectionsByPhase'
    BY <2>1 DEF TypeOK, ConnectionsByPhase
  <2> QED BY <2>1, <2>3, <2>4 DEF TypeOK, AskedByPhase, EntriesByPhase, AuditComesFirst
<1> QED BY <1>1, <1>2

(* A request that ends gives back what its phase says it has.  Its row may *)
(* have been committed, if its tenant's audit row has.                     *)
LEMMA EndPreserves ==
    ASSUME IInv, NEW r \in Requests, Release(r),
           phase[r] \in Waiting,
           NEW p \in {"created", "failed"}, phase' = [phase EXCEPT ![r] = p],
           audit \subseteq audit', audit' \subseteq Requests,
           rows' \in {rows, rows \cup {r}},
           rows' # rows /\ kind[r] = "tenant" => r \in audit,
           UNCHANGED <<kind, unique, restarts>>
    PROVE  IInv'
<1> USE DEF IInv
<1>1. held' = held \ SessionsOf(r) /\ written' = [written EXCEPT ![r] = {}]
  BY DEF Release
<1>2. held' \subseteq Sessions /\ Used' <= PoolSize
  BY <1>1, UsedShrinks
<1>3. TypeOK'
  BY <1>1, <1>2 DEF TypeOK, Answered
<1>4. ConnectionsByPhase'
  <2> SUFFICES ASSUME NEW q \in Requests
               PROVE  /\ <<q, "endpoint">> \in held' <=>
                           phase'[q] \in {"inserting", "indexing", "auditing", "recording",
                                          "committing"}
                      /\ <<q, "record">> \in held' <=> phase'[q] = "recording"
    BY DEF ConnectionsByPhase
  <2>1. CASE q = r
    BY <1>1, <2>1 DEF TypeOK, SessionsOf
  <2>2. CASE q # r
    BY <1>1, <2>2 DEF TypeOK, ConnectionsByPhase, SessionsOf
  <2> QED BY <2>1, <2>2
<1>5. EntriesByPhase'
  BY <1>1 DEF TypeOK, EntriesByPhase
<1>6. AuditComesFirst'
  BY DEF TypeOK, AuditComesFirst, Waiting
<1>7. AskedByPhase'
  BY DEF TypeOK, AskedByPhase, Waiting
<1> QED BY <1>3, <1>4, <1>5, <1>6, <1>7

LEMMA AuditPreserves == ASSUME IInv, NEW r \in Requests, AuditCommits(r) PROVE IInv'
<1> USE DEF IInv
<1>1. /\ phase[r] = "recording" /\ audit' = audit \cup {r}
      /\ UNCHANGED <<kind, unique, rows, restarts>>
  BY DEF AuditCommits, Request
<1>2. CASE Release(r) /\ Goto(r, "failed")
  BY <1>1, <1>2, EndPreserves DEF Goto, TypeOK, Waiting
<1>3. CASE /\ held' = held \ {<<r, "record">>}
           /\ Goto(r, "committing") /\ UNCHANGED written
  <2>1. held' \subseteq Sessions /\ Used' <= PoolSize
    BY <1>3, UsedShrinks
  <2>2. TypeOK'
    BY <1>1, <1>3, <2>1 DEF TypeOK, Goto, Waiting
  <2>3. ConnectionsByPhase'
    BY <1>1, <1>3 DEF TypeOK, ConnectionsByPhase, Goto
  <2>4. AskedByPhase' /\ EntriesByPhase' /\ AuditComesFirst'
    BY <1>1, <1>3 DEF TypeOK, AskedByPhase, EntriesByPhase, AuditComesFirst, Goto
  <2> QED BY <2>2, <2>3, <2>4
<1> QED BY <1>2, <1>3 DEF AuditCommits

(* Each insert adds the entries that the next phase has.                   *)
LEMMA InsertPreserves ==
    ASSUME IInv, NEW r \in Requests, Insert(r) \/ InsertSlug(r) PROVE IInv'
<1> USE DEF IInv
<1>1. PICK to \in {"indexing", "auditing", "committing"} :
          /\ phase' = [phase EXCEPT ![r] = to]
          /\ to = "indexing" => phase[r] = "inserting" /\ kind[r] = "tenant"
          /\ to = "auditing" => phase[r] = "indexing"
          /\ to = "committing" => phase[r] = "inserting" /\ kind[r] # "tenant"
  BY DEF Insert, InsertSlug, Enter, Goto
<1>2. /\ written' = [written EXCEPT ![r] = @ \cup Due(r)]
      /\ UNCHANGED <<kind, unique, held, rows, audit, restarts>>
  BY DEF Insert, InsertSlug, Enter, Request
<1>3. phase[r] \in {"inserting", "indexing"}
  BY <1>1
<1>4. kind[r] \in Kinds /\ unique[r] \in RowsOf[kind[r]]
  BY <1>3 DEF AskedByPhase
<1>5. written'[r] = IF to = "indexing" THEN {e \in unique[r] : e[1] # "slug"} ELSE unique[r]
  <2>1. written'[r] = written[r] \cup Due(r)
    BY <1>2 DEF TypeOK
  <2>2. CASE phase[r] = "indexing"
    <3>1. written[r] = {e \in unique[r] : e[1] # "slug"}
      BY <2>2 DEF EntriesByPhase
    <3>2. Due(r) = {e \in unique[r] : e[1] = "slug"}
      BY <2>2 DEF Due
    <3> QED BY <1>1, <2>1, <2>2, <3>1, <3>2
  <2>3. CASE phase[r] = "inserting"
    <3>1. written[r] = {}
      BY <2>3 DEF EntriesByPhase
    <3>2. Due(r) = {e \in unique[r] : e[1] # "slug"}
      BY <2>3 DEF Due
    <3>3. kind[r] # "tenant" => Due(r) = unique[r]
      BY <1>4, <3>2, OnlyTenantsHaveSlugs
    <3> QED BY <1>1, <2>1, <2>3, <3>1, <3>2, <3>3
  <2> QED BY <1>3, <2>2, <2>3
<1>6. \A q \in Requests \ {r} : written'[q] = written[q] /\ phase'[q] = phase[q]
  BY <1>1, <1>2 DEF TypeOK
<1>7. phase'[r] = to
  BY <1>1 DEF TypeOK
<1>8. TypeOK'
  <2>1. held' \subseteq Sessions /\ Used' <= PoolSize
    BY <1>2, UsedShrinks
  <2>2. written' \in [Requests -> SUBSET Entries]
    BY <1>2 DEF TypeOK, Due
  <2>3. phase' \in [Requests -> {"idle"} \cup Waiting \cup Answered]
    BY <1>1 DEF TypeOK, Waiting
  <2> QED BY <1>2, <2>1, <2>2, <2>3 DEF TypeOK
<1>9. AskedByPhase'
  BY <1>1, <1>2, <1>6, <1>7 DEF AskedByPhase
<1>10. EntriesByPhase'
  BY <1>2, <1>5, <1>6, <1>7 DEF EntriesByPhase
<1>11. ConnectionsByPhase'
  BY <1>2, <1>3, <1>6, <1>7 DEF ConnectionsByPhase
<1>12. AuditComesFirst'
  BY <1>1, <1>2, <1>3, <1>6, <1>7 DEF AuditComesFirst
<1> QED BY <1>8, <1>9, <1>10, <1>11, <1>12

LEMMA RestartPreserves == ASSUME IInv, Restart PROVE IInv'
<1> USE DEF IInv
<1>1. held' = {} /\ held' \subseteq Sessions /\ Used' <= PoolSize
  BY UsedShrinks DEF Restart
<1>2. restarts' \in 0..MaxRestarts
  BY TenantAdminAssumption DEF Restart, TypeOK
<1>3. TypeOK'
  BY <1>1, <1>2 DEF TypeOK, Restart, Answered, Request
<1>4. ConnectionsByPhase' /\ EntriesByPhase'
  BY <1>1 DEF Restart, TypeOK, Waiting, ConnectionsByPhase, EntriesByPhase
<1>5. AuditComesFirst' /\ AskedByPhase'
  BY DEF Restart, Request, TypeOK, Waiting, AuditComesFirst, AskedByPhase
<1> QED BY <1>3, <1>4, <1>5

LEMMA Inductive == Spec => []IInv
<1>1. IInv /\ [Next]_vars => IInv'
  <2> SUFFICES ASSUME IInv, [Next]_vars PROVE IInv'
    OBVIOUS
  <2>s. ASSUME UNCHANGED held PROVE held' \subseteq Sessions /\ Used' <= PoolSize
    BY <2>s, UsedShrinks DEF IInv
  <2>1. ASSUME NEW r \in Requests, Denied(r) PROVE IInv'
    BY <2>1, <2>s DEF IInv, Denied, Goto, Request, TypeOK, Answered, Waiting, ConnectionsByPhase,
                      AskedByPhase, EntriesByPhase, AuditComesFirst
  <2>2. ASSUME NEW r \in Requests, Post(r) PROVE IInv'
    <3>1. PICK k \in Kinds, row \in SUBSET Entries :
              /\ row \in RowsOf[k]
              /\ kind' = [kind EXCEPT ![r] = k] /\ unique' = [unique EXCEPT ![r] = row]
      BY <2>2, RowsHaveEntries DEF Post
    <3>2. /\ phase[r] = "idle" /\ phase' = [phase EXCEPT ![r] = "connecting"]
          /\ UNCHANGED <<held, written, rows, audit, restarts>>
      BY <2>2 DEF Post, Goto
    <3>3. TypeOK'
      BY <2>s, <3>1, <3>2 DEF IInv, TypeOK, Waiting
    <3>4. AskedByPhase'
      BY <3>1, <3>2 DEF IInv, TypeOK, AskedByPhase
    <3>5. ConnectionsByPhase' /\ EntriesByPhase' /\ AuditComesFirst'
      BY <3>1, <3>2 DEF IInv, TypeOK, ConnectionsByPhase, EntriesByPhase, AuditComesFirst
    <3> QED BY <3>3, <3>4, <3>5 DEF IInv
  <2>3. ASSUME NEW r \in Requests, Insert(r) \/ InsertSlug(r) PROVE IInv'
    BY <2>3, InsertPreserves
  <2>4. ASSUME NEW r \in Requests, Commit(r) PROVE IInv'
    <3>1. PICK p \in {"created", "failed"} : phase' = [phase EXCEPT ![r] = p]
      BY <2>4 DEF Commit
    <3> QED BY <2>4, <3>1, EndPreserves DEF IInv, Commit, Request, TypeOK, Waiting,
                                      AuditComesFirst
  <2>5. ASSUME NEW r \in Requests, phase[r] \in Waiting, Fail(r) PROVE IInv'
    BY <2>5, EndPreserves DEF IInv, Fail, Goto, Request, TypeOK
  <2>6. ASSUME NEW r \in Requests, IntegrityError(r) \/ PoolTimeout(r) \/ DatabaseRaises(r)
        PROVE  IInv'
    BY <2>5, <2>6 DEF IntegrityError, PoolTimeout, DatabaseRaises, Waiting
  <2>7. CASE UNCHANGED vars
    BY <2>7, <2>s DEF IInv, vars, TypeOK, AskedByPhase, ConnectionsByPhase, EntriesByPhase, AuditComesFirst
  <2>8. ASSUME NEW r \in Requests, Serve(r) PROVE IInv'
    BY <2>3, <2>4, <2>6, <2>8, CheckoutPreserves, AuditPreserves DEF Serve
  <2>9. CASE Restart
    BY <2>9, RestartPreserves
  <2> QED BY <2>1, <2>2, <2>6, <2>7, <2>8, <2>9 DEF Next
<1> QED BY <1>1, InitEstablishes, PTL DEF Spec

(* Requests, rows and connections keep their types, and no more            *)
(* connections are checked out than the pool has, however many creations   *)
(* want two.                                                               *)
THEOREM TypeCorrect == Spec => []TypeOK
BY Inductive, PTL DEF IInv

(* A tenant is committed only after its audit row, whatever raises, times  *)
(* out or restarts between the two transactions.                           *)
THEOREM TenantsAreAudited == Spec => []CreatedTenantIsAudited
<1>1. IInv => CreatedTenantIsAudited
  BY DEF IInv, TypeOK, AuditComesFirst, CreatedTenantIsAudited
<1> QED BY <1>1, Inductive, PTL

(* Every way a creation can end gives its connections back and ends its    *)
(* transaction.                                                            *)
THEOREM NothingIsHeldAfterwards == Spec => []AnsweredHoldsNothing
<1>1. IInv => AnsweredHoldsNothing
  <2> SUFFICES ASSUME IInv, NEW r \in Requests, phase[r] \in Answered
               PROVE  held \cap SessionsOf(r) = {} /\ written[r] = {}
    BY DEF AnsweredHoldsNothing
  <2>1. <<r, "endpoint">> \notin held /\ <<r, "record">> \notin held /\ written[r] = {}
    BY DEF IInv, ConnectionsByPhase, EntriesByPhase, Answered
  <2>2. SessionsOf(r) = {<<r, "endpoint">>, <<r, "record">>}
    BY DEF SessionsOf
  <2> QED BY <2>1, <2>2
<1> QED BY <1>1, Inductive, PTL

(* A request that waits for a slug holds no slug: whoever it waits for has *)
(* both entries and waits for nobody, for any number of creations.         *)
LEMMA WaitsAreShort == IInv => WaitsEnd
<1> SUFFICES ASSUME IInv, NEW r \in Requests, NEW q \in WaitsFor(r)
             PROVE  phase[q] \in Waiting /\ \A p \in WaitsFor(q) : WaitsFor(p) = {}
  BY DEF WaitsEnd
<1>1. q \in Requests /\ written[q] # {}
  BY DEF WaitsFor
<1>2. phase[q] \in {"indexing", "auditing", "recording", "committing"}
  BY <1>1 DEF IInv, EntriesByPhase
<1>3. ASSUME NEW p \in WaitsFor(q) PROVE WaitsFor(p) = {}
  <2>1. PICK e \in Due(q) : e \in written[p]
    BY DEF WaitsFor
  <2>2. p \in Requests /\ phase[q] = "indexing"
    BY <1>2 DEF WaitsFor
  <2>3. e[1] = "slug"
    BY <2>1, <2>2 DEF Due
  <2>4. phase[p] \notin {"inserting", "indexing"}
    BY <2>1, <2>2, <2>3 DEF IInv, EntriesByPhase
  <2> QED BY <2>4 DEF WaitsFor
<1> QED BY <1>2, <1>3 DEF Waiting

(* Waits for index entries end after two requests at most.                 *)
THEOREM LockWaitsEnd == Spec => []WaitsEnd
BY WaitsAreShort, Inductive, PTL
-----------------------------------------------------------------------------
(* The creations implement CreationContract                                *)

(* The claim of an uncommitted row on its values: no other uncommitted row *)
(* and no committed one has them as well.                                  *)
ValuesAreClaimed ==
    \A r \in Requests :
        /\ \A q \in Requests \ {r} : written[q] \cap written[r] = {}
        /\ \A q \in rows : unique[q] \cap written[r] = {}

(* A step that enters nothing and commits nothing keeps every claim.       *)
LEMMA NothingNewClaimed ==
    ASSUME IInv, ValuesAreClaimed, rows' = rows,
           \A q \in rows : unique'[q] = unique[q],
           \A q \in Requests : written'[q] \subseteq written[q]
    PROVE  ValuesAreClaimed'
BY DEF ValuesAreClaimed

(* An insert finds its value neither entered nor committed.                *)
LEMMA InsertClaims ==
    ASSUME IInv, ValuesAreClaimed, NEW r \in Requests, Insert(r) \/ InsertSlug(r)
    PROVE  ValuesAreClaimed'
<1>1. /\ ~Blocked(r) /\ ~Duplicate(r)
      /\ written' = [written EXCEPT ![r] = @ \cup Due(r)]
      /\ UNCHANGED <<unique, rows>>
  BY DEF Insert, InsertSlug, Enter, Request
<1>2. /\ written'[r] = written[r] \cup Due(r)
      /\ \A q \in Requests \ {r} : written'[q] = written[q]
  BY <1>1 DEF IInv, TypeOK
<1>3. \A q \in Requests \ {r} : Due(r) \cap written[q] = {}
  BY <1>1 DEF Blocked
<1>4. \A q \in rows : Due(r) \cap unique[q] = {}
  BY <1>1 DEF Duplicate
<1> QED BY <1>1, <1>2, <1>3, <1>4 DEF ValuesAreClaimed

(* A commit turns the claim of the uncommitted row into a committed one.   *)
LEMMA CommitKeepsClaims ==
    ASSUME IInv, ValuesAreClaimed, NEW r \in Requests, Commit(r)
    PROVE  ValuesAreClaimed'
<1>1. /\ phase[r] = "committing" /\ written' = [written EXCEPT ![r] = {}]
      /\ rows' = rows \cup {r} /\ UNCHANGED unique
  BY DEF Commit, Release, Request
<1>2. written[r] = unique[r]
  BY <1>1 DEF IInv, EntriesByPhase
<1>3. written'[r] = {} /\ \A q \in Requests \ {r} : written'[q] = written[q]
  BY <1>1 DEF IInv, TypeOK
<1> QED BY <1>1, <1>2, <1>3 DEF ValuesAreClaimed

LEMMA Claims == Spec => []ValuesAreClaimed
<1>1. Init => ValuesAreClaimed
  BY DEF Init, ValuesAreClaimed
<1>2. IInv /\ ValuesAreClaimed /\ [Next]_vars => ValuesAreClaimed'
  <2> SUFFICES ASSUME IInv, ValuesAreClaimed, [Next]_vars PROVE ValuesAreClaimed'
    OBVIOUS
  <2>1. ASSUME NEW r \in Requests, UNCHANGED <<unique, rows>>,
               written' \in {written, [written EXCEPT ![r] = {}]}
        PROVE  ValuesAreClaimed'
    <3>1. \A q \in Requests : written'[q] \subseteq written[q]
      BY <2>1 DEF IInv, TypeOK
    <3> QED BY <2>1, <3>1, NothingNewClaimed
  <2>2. ASSUME NEW r \in Requests, Denied(r) \/ Connect(r) \/ AuditConnect(r)
        PROVE  ValuesAreClaimed'
    BY <2>1, <2>2 DEF Denied, Connect, AuditConnect, Checkout, Request
  <2>3. ASSUME NEW r \in Requests, Post(r) PROVE ValuesAreClaimed'
    <3>1. phase[r] = "idle" /\ UNCHANGED <<written, rows>>
      BY <2>3 DEF Post
    <3>2. \A q \in rows : unique'[q] = unique[q]
      BY <2>3, <3>1 DEF Post, IInv, TypeOK, AuditComesFirst
    <3> QED BY <3>1, <3>2, NothingNewClaimed
  <2>4. ASSUME NEW r \in Requests, AuditCommits(r) PROVE ValuesAreClaimed'
    BY <2>1, <2>4 DEF AuditCommits, Release, Request
  <2>5. ASSUME NEW r \in Requests, IntegrityError(r) \/ PoolTimeout(r) \/ DatabaseRaises(r)
        PROVE  ValuesAreClaimed'
    BY <2>1, <2>5 DEF IntegrityError, PoolTimeout, DatabaseRaises, Fail, Release, Request
  <2>6. CASE Restart
    <3>1. \A q \in Requests : written'[q] \subseteq written[q]
      BY <2>6 DEF Restart
    <3> QED BY <2>6, <3>1, NothingNewClaimed DEF Restart, Request
  <2>7. CASE UNCHANGED vars
    BY <2>7, NothingNewClaimed DEF vars
  <2> QED
    BY <2>2, <2>3, <2>4, <2>5, <2>6, <2>7, InsertClaims, CommitKeepsClaims DEF Next, Serve
<1> QED BY <1>1, <1>2, Inductive, PTL DEF Spec

AskedFn == [r \in Requests |-> AskedOf(r)]
AnswerFn == [r \in Requests |-> AnswerOf(r)]

(* A request is open for its caller while it is under way.                 *)
LEMMA OpenWhileWaiting ==
    ASSUME IInv, ValuesAreClaimed, NEW r \in Requests
    PROVE  /\ Creations!Open(r) <=> phase[r] \in Waiting
           /\ AskedFn[r] = Creations!NotAsked /\ AnswerFn[r] = "none" <=> phase[r] = "idle"
<1>1. phase[r] \in {"idle"} \cup Waiting \cup Answered
  BY DEF IInv, TypeOK
<1>2. AskedFn[r] = Creations!NotAsked <=> phase[r] \in {"idle", "denied"}
  <2>1. "none" \notin Kinds
    BY DEF Kinds, RowsOf
  <2>2. AskedFn[r] = [kind |-> kind[r], unique |-> unique[r]]
    BY DEF AskedFn, AskedOf
  <2>3. AskedFn[r] = Creations!NotAsked <=> kind[r] = "none" /\ unique[r] = {}
    BY <2>2 DEF Creations!NotAsked
  <2> QED BY <2>1, <2>3 DEF IInv, AskedByPhase
<1>3. AnswerFn[r] = "none" <=> phase[r] \notin Answered
  BY DEF AnswerFn, AnswerOf, Answered
<1> QED BY <1>1, <1>2, <1>3 DEF Creations!Open, AskedFn, AnswerFn, Waiting, Answered

(* A move of one request changes its answer and no other's.                *)
LEMMA MoveTells ==
    ASSUME IInv, NEW r \in Requests, NEW p, phase' = [phase EXCEPT ![r] = p]
    PROVE  /\ p \in Answered => AnswerFn' = [AnswerFn EXCEPT ![r] = p]
           /\ p \notin Answered /\ phase[r] \notin Answered => AnswerFn' = AnswerFn
<1>1. phase'[r] = p /\ \A q \in Requests \ {r} : phase'[q] = phase[q]
  BY DEF IInv, TypeOK
<1> QED BY <1>1 DEF AnswerFn, AnswerOf

LEMMA ServeRefines ==
    ASSUME IInv, ValuesAreClaimed, NEW r \in Requests, Serve(r) \/ DatabaseRaises(r)
    PROVE  \/ Creations!Fail(r) \/ Creations!Audit(r) \/ Creations!TakeEffect(r)
           \/ UNCHANGED <<AskedFn, audit, rows, AnswerFn>>
<1>1. /\ phase[r] \in Waiting /\ Creations!Open(r) /\ AskedFn' = AskedFn
      /\ phase[r] \notin Answered
  <2>1. phase[r] \in Waiting /\ UNCHANGED <<kind, unique>>
    BY DEF Serve, Connect, AuditConnect, Checkout, Insert, InsertSlug, Enter, AuditCommits, Commit,
           IntegrityError, PoolTimeout, DatabaseRaises, Fail, Request, Waiting
  <2> QED BY <2>1, OpenWhileWaiting DEF AskedFn, AskedOf, Waiting, Answered
<1>2. CASE Connect(r) \/ AuditConnect(r) \/ Insert(r) \/ InsertSlug(r)
  BY <1>1, <1>2, MoveTells DEF Connect, AuditConnect, Checkout, Insert, InsertSlug, Enter, Goto, Answered
<1>3. CASE IntegrityError(r) \/ PoolTimeout(r) \/ DatabaseRaises(r)
  <2>1. phase' = [phase EXCEPT ![r] = "failed"] /\ UNCHANGED <<audit, rows>>
    BY <1>3 DEF IntegrityError, PoolTimeout, DatabaseRaises, Fail, Goto
  <2>2. AnswerFn' = [AnswerFn EXCEPT ![r] = "failed"]
    BY <2>1, MoveTells DEF Answered
  <2> QED BY <1>1, <2>1, <2>2 DEF Creations!Fail, Creations!Tell, AskedFn, AnswerFn
<1>4. CASE AuditCommits(r)
  <2>1. kind[r] = "tenant" /\ audit' = audit \cup {r} /\ rows' = rows
    BY <1>4 DEF AuditCommits, Request, IInv, AskedByPhase
  <2>2. AnswerFn' = [AnswerFn EXCEPT ![r] = "failed"] \/ AnswerFn' = AnswerFn
    BY <1>1, <1>4, MoveTells DEF AuditCommits, Goto, Answered
  <2> QED BY <1>1, <2>1, <2>2 DEF Creations!Audit, Creations!Tell, AskedFn, AnswerFn, AskedOf
<1>5. CASE Commit(r)
  <2>1. /\ phase[r] = "committing" /\ written[r] = unique[r] /\ rows \subseteq Requests
        /\ rows' = rows \cup {r} /\ audit' = audit
    BY <1>5 DEF Commit, IInv, TypeOK, EntriesByPhase
  <2>2. AnswerFn' = [AnswerFn EXCEPT ![r] = "created"]
        \/ AnswerFn' = [AnswerFn EXCEPT ![r] = "failed"]
    BY <1>5, MoveTells DEF Commit, Answered
  <2>3. \A q \in rows : AskedFn[q].unique \cap AskedFn[r].unique = {}
    BY <2>1 DEF ValuesAreClaimed, AskedFn, AskedOf
  <2>4. kind[r] = "tenant" => r \in audit
    BY <2>1 DEF IInv, AuditComesFirst
  <2> QED
    BY <1>1, <2>1, <2>2, <2>3, <2>4
       DEF Creations!TakeEffect, Creations!Tell, AskedFn, AnswerFn, AskedOf
<1> QED BY <1>2, <1>3, <1>4, <1>5 DEF Serve

LEMMA EntryRefines ==
    ASSUME IInv, ValuesAreClaimed, NEW r \in Requests, Denied(r) \/ Post(r)
    PROVE  Creations!Refuse(r) \/ Creations!Ask(r)
<1>1. /\ phase[r] = "idle" /\ UNCHANGED <<audit, rows>>
      /\ AskedFn[r] = Creations!NotAsked /\ AnswerFn[r] = "none"
  BY OpenWhileWaiting DEF Denied, Post
<1>2. CASE Denied(r)
  <2>1. AnswerFn' = [AnswerFn EXCEPT ![r] = "denied"] /\ AskedFn' = AskedFn
    BY <1>2, MoveTells DEF Denied, Goto, Request, Answered, AskedFn, AskedOf
  <2> QED BY <1>1, <2>1 DEF Creations!Refuse, Creations!Tell, AskedFn, AnswerFn
<1>3. CASE Post(r)
  <2>1. PICK k \in Kinds : \E row \in RowsOf[k] :
            kind' = [kind EXCEPT ![r] = k] /\ unique' = [unique EXCEPT ![r] = row]
    BY <1>3 DEF Post
  <2>2. AnswerFn' = AnswerFn
    <3>1. phase' = [phase EXCEPT ![r] = "connecting"]
      BY <1>3 DEF Post, Goto
    <3>2. "connecting" \notin Answered /\ phase[r] \notin Answered
      BY <1>1 DEF Answered
    <3> QED BY <3>1, <3>2, MoveTells
  <2>3. \E row \in RowsOf[k] :
            AskedFn' = [AskedFn EXCEPT ![r] = [kind |-> k, unique |-> row]]
    BY <2>1 DEF AskedFn, AskedOf, IInv, TypeOK
  <2> QED BY <1>1, <2>2, <2>3 DEF Creations!Ask, AskedFn, AnswerFn
<1> QED BY <1>2, <1>3

LEMMA RestartRefines == ASSUME IInv, ValuesAreClaimed, Restart PROVE Creations!LoseAll
<1>1. UNCHANGED <<kind, unique, audit, rows>> /\ AskedFn' = AskedFn
  BY DEF Restart, Request, AskedFn, AskedOf
<1>2. ASSUME NEW r \in Requests
      PROVE  AnswerOf(r)' = IF Creations!Open(r) THEN "lost" ELSE AnswerOf(r)
  <2>1. phase'[r] = IF phase[r] \in Waiting THEN "lost" ELSE phase[r]
    BY DEF Restart
  <2> QED BY <2>1, OpenWhileWaiting DEF AnswerOf, Answered
<1>3. AnswerFn' = [r \in Requests |-> IF Creations!Open(r) THEN "lost" ELSE AnswerFn[r]]
  BY <1>2 DEF AnswerFn
<1> QED BY <1>1, <1>3 DEF Creations!LoseAll, AskedFn, AnswerFn

(* Creations take effect one at a time, each at its commit and on values   *)
(* that are still free, and are answered by what became of them, whatever  *)
(* waits, fails or restarts (tenants.py:31-93, session.py:39).             *)
THEOREM CreationsKeepContract == Spec => KeepsContract
<1>1. Init => Creations!ContractInit
  BY DEF Init, Creations!ContractInit, Creations!NotAsked, AskedOf, AnswerOf, Answered
<1>2. IInv /\ ValuesAreClaimed /\ [Next]_vars => [Creations!ContractNext]_(Creations!contractVars)
  <2> SUFFICES ASSUME IInv, ValuesAreClaimed, [Next]_vars
               PROVE  Creations!ContractNext \/ UNCHANGED <<AskedFn, audit, rows, AnswerFn>>
    BY DEF Creations!contractVars, AskedFn, AnswerFn
  <2>1. CASE UNCHANGED vars
    BY <2>1 DEF vars, AskedFn, AskedOf, AnswerFn, AnswerOf
  <2>2. CASE Next
    BY <2>2, ServeRefines, EntryRefines, RestartRefines DEF Next, Creations!ContractNext
  <2> QED BY <2>1, <2>2
<1> QED BY <1>1, <1>2, Inductive, Claims, PTL DEF Spec, KeepsContract, Creations!Contract
-----------------------------------------------------------------------------
(* Every creation comes to its end                                         *)

(* Whoever waits for a row waits, in the end, for somebody who can go on:  *)
(* as long as any request is under way, one is not blocked in the          *)
(* database.  The wait for a connection the pool ends itself.              *)
SomebodyGoesOn ==
    (\E r \in Requests : phase[r] \in Waiting) =>
        \E r \in Requests : phase[r] \in Waiting /\ WaitsFor(r) = {}

THEOREM NotEveryoneIsBlocked == Spec => []SomebodyGoesOn
<1>1. IInv => SomebodyGoesOn
  <2> SUFFICES ASSUME IInv, NEW r \in Requests, phase[r] \in Waiting
               PROVE  \E q \in Requests : phase[q] \in Waiting /\ WaitsFor(q) = {}
    BY DEF SomebodyGoesOn
  <2>1. CASE WaitsFor(r) = {}
    BY <2>1
  <2>2. ASSUME NEW q \in WaitsFor(r) PROVE \E p \in Requests : phase[p] \in Waiting /\ WaitsFor(p) = {}
    <3>1. q \in Requests /\ phase[q] \in Waiting /\ \A p \in WaitsFor(q) : WaitsFor(p) = {}
      BY WaitsAreShort DEF WaitsEnd, WaitsFor
    <3>2. \A p \in WaitsFor(q) : p \in Requests /\ phase[p] \in Waiting
      BY <3>1, WaitsAreShort DEF WaitsEnd, WaitsFor
    <3> QED BY <3>1, <3>2
  <2> QED BY <2>1, <2>2
<1> QED BY <1>1, Inductive, PTL

Ahead(r) ==
    CASE phase[r] = "idle"       -> 7
      [] phase[r] = "connecting" -> 6
      [] phase[r] = "inserting"  -> 5
      [] phase[r] = "indexing"   -> 4
      [] phase[r] = "auditing"   -> 3
      [] phase[r] = "recording"  -> 2
      [] phase[r] = "committing" -> 1
      [] OTHER                   -> 0

(* Every step but a restart is one creation's and brings it nearer to its  *)
(* answer, and a restart takes none further from it: with the theorem      *)
(* before this, a creation ends however the pool and the rows are shared.  *)
THEOREM CreationsRunOut ==
    Spec =>
        [][\/ /\ restarts' > restarts
              /\ \A r \in Requests : Ahead(r)' <= Ahead(r)
           \/ \E r \in Requests :
                 /\ Ahead(r)' < Ahead(r)
                 /\ \A q \in Requests \ {r} : Ahead(q)' = Ahead(q)]_vars
<1> DEFINE Nearer(r) == /\ Ahead(r)' < Ahead(r)
                        /\ \A q \in Requests \ {r} : Ahead(q)' = Ahead(q)
           OnARestart == /\ restarts' > restarts
                         /\ \A r \in Requests : Ahead(r)' <= Ahead(r)
<1>1. ASSUME TypeOK, NEW r \in Requests, NEW from \in {"idle"} \cup Waiting, NEW to,
             phase[r] = from, phase' = [phase EXCEPT ![r] = to],
             \/ to \in Answered
             \/ <<from, to>> \in
                   {<<"idle", "connecting">>, <<"connecting", "inserting">>,
                    <<"inserting", "indexing">>, <<"inserting", "committing">>,
                    <<"indexing", "auditing">>,
                    <<"auditing", "recording">>, <<"recording", "committing">>}
      PROVE  Nearer(r)
  <2>1. phase'[r] = to /\ \A q \in Requests \ {r} : phase'[q] = phase[q]
    BY <1>1 DEF TypeOK
  <2>2. Ahead(r)' < Ahead(r)
    BY <1>1, <2>1 DEF Ahead, Waiting, Answered
  <2> QED BY <2>1, <2>2 DEF Ahead
<1> HIDE DEF Nearer
<1>2. ASSUME TypeOK, NEW r \in Requests, Denied(r) \/ Post(r) \/ Serve(r) \/ DatabaseRaises(r)
      PROVE  Nearer(r)
  <2>1. CASE Denied(r)
    BY <1>1, <1>2, <2>1 DEF Denied, Goto, Answered
  <2>2. CASE Post(r)
    BY <1>1, <1>2, <2>2 DEF Post, Goto
  <2>3. CASE Connect(r) \/ AuditConnect(r)
    BY <1>1, <1>2, <2>3 DEF Connect, AuditConnect, Checkout, Goto, Waiting
  <2>4. CASE Insert(r) \/ InsertSlug(r)
    BY <1>1, <1>2, <2>4 DEF Insert, InsertSlug, Enter, Goto, Waiting
  <2>5. CASE AuditCommits(r)
    BY <1>1, <1>2, <2>5 DEF AuditCommits, Goto, Waiting, Answered
  <2>6. CASE Commit(r)
    BY <1>1, <1>2, <2>6 DEF Commit, Waiting, Answered
  <2>7. CASE IntegrityError(r) \/ PoolTimeout(r) \/ DatabaseRaises(r)
    BY <1>1, <1>2, <2>7 DEF IntegrityError, PoolTimeout, DatabaseRaises, Fail, Goto, Waiting,
                            Answered
  <2> QED BY <1>2, <2>1, <2>2, <2>3, <2>4, <2>5, <2>6, <2>7 DEF Serve
<1>3. ASSUME TypeOK, Restart PROVE OnARestart
  <2>1. restarts' > restarts
    BY <1>3 DEF Restart, TypeOK
  <2>2. ASSUME NEW r \in Requests PROVE Ahead(r)' <= Ahead(r)
    <3>1. phase'[r] = "lost" \/ phase'[r] = phase[r]
      BY <1>3 DEF Restart
    <3> QED BY <3>1 DEF Ahead
  <2> QED BY <2>1, <2>2
<1>4. TypeOK /\ [Next]_vars => [OnARestart \/ \E r \in Requests : Nearer(r)]_vars
  BY <1>2, <1>3 DEF Next
<1> QED BY <1>4, TypeCorrect, PTL DEF Spec, Nearer
=============================================================================
