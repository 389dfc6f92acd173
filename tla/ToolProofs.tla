----------------------------- MODULE ToolProofs -----------------------------
(***************************************************************************)
(* What a tool may do and what it may say: the layers a call passes, and   *)
(* the deterministic engines, one of which a tool runs.                    *)
(*                                                                         *)
(* ToolAuthz: every set of users, records and tenants.  LayersInv says     *)
(* what a call that has reached a layer has shown to the layers before it. *)
(*                                                                         *)
(* Decisioning: every argument the engines can be called with.  The        *)
(* decision in the state is always the engine's on the arguments in the    *)
(* state; everything else is arithmetic about the engines.                 *)
(***************************************************************************)
EXTENDS ToolAuthz, Decisioning, TLAPS

-----------------------------------------------------------------------------
(* ToolAuthz                                                               *)

PermittedOrOwner == Granted(call) \/ (SelfGranted(call) /\ OwnsResource(call))

Passed ==
    /\ layer = "ownership" => SelfGranted(call)
    /\ layer \in {"abac", "approval", "opa", "run"} => PermittedOrOwner
    /\ layer \in {"approval", "opa", "run"} => SameTenant(call)
    /\ layer \in {"approval", "opa"} => call.tool \in Sensitive
    /\ layer # "registry" /\ layer # "done" => call.tool \in Registry

Delivered ==
    /\ layer # "done" => outcome = "none" /\ subject = Absent
    /\ outcome \in {"success", "failure"} => PermittedOrOwner /\ SameTenant(call)
    /\ subject # Absent => subject = call.customer /\ PermittedOrOwner
    /\ outcome = "failure" => call.customer \notin OnRecord

LayersInv == TypeOK /\ Passed /\ Delivered

(* Whoever holds the read permission is staff, and has no resource owner;  *)
(* whoever owns the resource named it.  So the tools' own check of the     *)
(* scope agrees with the layers before it.                                 *)
LEMMA PermittedIsInScope ==
    ASSUME TypeOK, PermittedOrOwner, call.tool \in ScopedTools, call.customer \in OnRecord
    PROVE  InScope(call)
<1>1. CASE Granted(call)
  <2>1. PICK role \in call.roles : RequiredPermission[call.tool] \in DefaultRbac[role]
    BY <1>1 DEF Granted, Can
  <2>2. role \in Roles
    BY <2>1 DEF TypeOK, Calls
  <2>3. RequiredPermission[call.tool] \in {"loan:read", "customer:read"}
    BY DEF ScopedTools, RequiredPermission
  <2>4. role \in {"institution_admin", "loan_officer"}
    BY <2>1, <2>2, <2>3 DEF Roles, DefaultRbac
  <2>5. IsStaff(call.roles)
    BY <2>1, <2>4 DEF IsStaff, StaffRoles
  <2> QED BY <2>5 DEF InScope, ResourceOwner
<1>2. CASE OwnsResource(call)
  BY <1>2, AuthzAssumption DEF OwnsResource, NamedOwner, InScope
<1> QED BY <1>1, <1>2 DEF PermittedOrOwner

(* Each layer hands the call on with what it checked; a refusal delivers   *)
(* nothing.                                                                *)
LEMMA LayerStep == LayersInv /\ [Next]_vars => LayersInv'
<1> SUFFICES ASSUME LayersInv, [Next]_vars PROVE LayersInv'
  OBVIOUS
<1> USE AuthzAssumption
<1>1. ASSUME UNCHANGED call
      PROVE  /\ SelfGranted(call)' <=> SelfGranted(call)
             /\ PermittedOrOwner' <=> PermittedOrOwner
             /\ SameTenant(call)' <=> SameTenant(call)
  BY <1>1 DEF PermittedOrOwner
<1>2. CASE FindTool
  <2>1. UNCHANGED call
    BY <1>2 DEF FindTool, Pass, End
  <2> QED BY <1>1, <1>2, <2>1 DEF FindTool, Pass, End, LayersInv, TypeOK, Refusals, Passed, Delivered
<1>3. CASE CheckPermission
  <2>1. UNCHANGED call
    BY <1>3 DEF CheckPermission, Pass, End
  <2> QED BY <1>1, <1>3, <2>1
          DEF CheckPermission, Pass, End, LayersInv, TypeOK, Refusals, Passed, Delivered, PermittedOrOwner
<1>4. CASE CheckOwnership
  <2>1. UNCHANGED call
    BY <1>4 DEF CheckOwnership, Pass, End
  <2>2. SelfGranted(call)
    BY <1>4 DEF CheckOwnership, LayersInv, Passed
  <2> QED BY <1>1, <1>4, <2>1, <2>2
          DEF CheckOwnership, Pass, End, LayersInv, TypeOK, Refusals, Passed, Delivered, PermittedOrOwner
<1>5. CASE CheckAttributes
  <2>1. UNCHANGED call
    BY <1>5 DEF CheckAttributes, Pass, End
  <2> QED BY <1>1, <1>5, <2>1
          DEF CheckAttributes, Pass, End, LayersInv, TypeOK, Refusals, Passed, Delivered
<1>6. CASE CheckApproval
  <2>1. UNCHANGED call
    BY <1>6 DEF CheckApproval, Pass, End
  <2> QED BY <1>1, <1>6, <2>1
          DEF CheckApproval, Pass, End, LayersInv, TypeOK, Refusals, Passed, Delivered
<1>7. CASE CheckPolicy
  <2>1. UNCHANGED call
    BY <1>7 DEF CheckPolicy, Pass, End
  <2> QED BY <1>1, <1>7, <2>1
          DEF CheckPolicy, Pass, End, LayersInv, TypeOK, Refusals, Passed, Delivered
<1>8. CASE RunTool
  <2>1. UNCHANGED call /\ layer = "run"
    BY <1>8 DEF RunTool, End
  <2>2. PermittedOrOwner /\ SameTenant(call)
    BY <2>1 DEF LayersInv, Passed
  <2>3. subject' = Absent \/ (subject' = call.customer /\ call.customer \in OnRecord)
    BY <1>8 DEF RunTool, End
  <2>4. layer' = "done" /\ outcome' \in {"success", "failure"}
    BY <1>8 DEF RunTool, End
  <2>5. TypeOK'
    BY <2>1, <2>3, <2>4 DEF LayersInv, TypeOK
  <2>6. Passed'
    BY <2>4 DEF Passed
  <2>7. outcome' = "failure" => call.customer \notin OnRecord
    <3> SUFFICES ASSUME outcome' = "failure", call.customer \in OnRecord PROVE FALSE
      OBVIOUS
    <3>1. call.tool \in ScopedTools /\ ~InScope(call)
      BY <1>8 DEF RunTool, End
    <3> QED BY <3>1, <2>2, PermittedIsInScope DEF LayersInv
  <2>8. Delivered'
    BY <1>1, <2>1, <2>2, <2>3, <2>4, <2>7 DEF Delivered
  <2> QED BY <2>5, <2>6, <2>8 DEF LayersInv
<1>9. CASE UNCHANGED vars
  <2>1. UNCHANGED call
    BY <1>9 DEF vars
  <2> QED BY <1>1, <1>9, <2>1 DEF vars, LayersInv, TypeOK, Passed, Delivered
<1> QED BY <1>2, <1>3, <1>4, <1>5, <1>6, <1>7, <1>8, <1>9 DEF Next

(* What a call has shown so far holds at every layer of every call.        *)
THEOREM LayersHold == Spec => []LayersInv
<1>1. Init => LayersInv
  BY AuthzAssumption DEF Init, LayersInv, TypeOK, Passed, Delivered
<1> QED BY <1>1, LayerStep, PTL DEF Spec

(* Every call, layer and result stays within what the code can hold, and   *)
(* each refusal carries the code of its layer.                             *)
THEOREM TypeCorrect == Spec => []TypeOK
<1>1. LayersInv => TypeOK
  BY DEF LayersInv
<1> QED BY <1>1, LayersHold, PTL

(* A record reaches the caller only by the read permission or as the       *)
(* caller's own: the record's owner is the argument customer_id, which is  *)
(* then the owner the ownership layer compared with the caller.            *)
THEOREM RecordsStayOwnOrPermitted == Spec => []RecordsAreOwnOrPermitted
<1>1. LayersInv => RecordsAreOwnOrPermitted
  <2> SUFFICES ASSUME LayersInv, subject # Absent, ~Granted(call)
               PROVE  subject = call.user
    BY DEF RecordsAreOwnOrPermitted
  <2>1. subject = call.customer /\ OwnsResource(call)
    BY DEF LayersInv, Delivered, PermittedOrOwner
  <2>2. NamedOwner(call) = call.customer
    BY <2>1 DEF NamedOwner
  <2>3. ResourceOwner(call) = call.user
    BY <2>1 DEF OwnsResource, ResourceOwner
  <2> QED BY <2>1, <2>2, <2>3 DEF OwnsResource
<1> QED BY <1>1, LayersHold, PTL

(* The tools' own check of the scope refuses nobody the layers let by: a   *)
(* failure only says that the store has no record.                         *)
THEOREM PermittedRecordsReturned == Spec => []PermittedRecordsAreReturned
<1>1. LayersInv => PermittedRecordsAreReturned
  BY DEF LayersInv, Delivered, PermittedRecordsAreReturned
<1> QED BY <1>1, LayersHold, PTL

-----------------------------------------------------------------------------
(* Decisioning                                                             *)

EngineInv ==
    /\ application \in Applications /\ decision = Assessment(application)
    /\ transaction \in Transactions /\ verdict = Verdict(transaction)

LEMMA EnginesDecide == EngineSpec => []EngineInv
<1>1. EngineInit => EngineInv
  BY DEF EngineInit, EngineInv
<1>2. EngineInv /\ [EngineNext]_engineVars => EngineInv'
  <2> SUFFICES ASSUME EngineInv, [EngineNext]_engineVars PROVE EngineInv'
    OBVIOUS
  <2>1. CASE CheckLoanEligibility
    BY <2>1 DEF CheckLoanEligibility, EngineInv
  <2>2. CASE ScoreTransaction
    BY <2>2 DEF ScoreTransaction, EngineInv
  <2>3. CASE UNCHANGED engineVars
    BY <2>3 DEF engineVars, EngineInv
  <2> QED
    BY <2>1, <2>2, <2>3 DEF EngineNext
<1> QED
  BY <1>1, <1>2, PTL DEF EngineSpec

-----------------------------------------------------------------------------
(* Arithmetic                                                              *)

LEMMA ProductGrows ==
    ASSUME NEW a \in Nat, NEW b \in Nat, NEW c \in Nat, NEW d \in Nat, a <= c, b <= d
    PROVE  a * b <= c * d /\ a * b \in Nat
<1>1. a * b <= c * b
  <2>1. PICK e \in Nat : c = a + e
    BY c - a \in Nat, c = a + (c - a)
  <2>2. c * b = a * b + e * b /\ e * b >= 0
    BY <2>1
  <2> QED
    BY <2>2
<1>2. c * b <= c * d
  <2>1. PICK e \in Nat : d = b + e
    BY d - b \in Nat, d = b + (d - b)
  <2>2. c * d = c * b + c * e /\ c * e >= 0
    BY <2>1
  <2> QED
    BY <2>2
<1> QED
  BY <1>1, <1>2

(* The quotient by a positive number. *)
LEMMA Quotient ==
    ASSUME NEW x \in Nat, NEW y \in Nat, y > 0
    PROVE  /\ x \div y \in Nat
           /\ y * (x \div y) <= x
           /\ x < y * (x \div y) + y
<1>1. x \div y \in Int /\ x % y \in 0..(y - 1) /\ x = y * (x \div y) + (x % y)
  OBVIOUS
<1>2. x \div y >= 0
  BY <1>1
<1> QED
  BY <1>1, <1>2

(* A smaller dividend and a larger divisor give no larger quotient. *)
LEMMA QuotientShrinks ==
    ASSUME NEW x \in Nat, NEW y \in Nat, NEW u \in Nat, NEW v \in Nat,
           y > 0, u <= x, v >= y
    PROVE  u \div v <= x \div y
<1> DEFINE q == x \div y
           p == u \div v
<1>1. q \in Nat /\ x < y * q + y
  BY Quotient
<1>2. p \in Nat /\ v * p <= u
  BY Quotient
<1> HIDE DEF q, p
<1>3. y * p <= v * p
  BY <1>2, ProductGrows
<1>4. y * p < y * q + y
  BY <1>1, <1>2, <1>3
<1>5. ASSUME p >= q + 1 PROVE FALSE
  <2>1. y * (q + 1) <= y * p
    BY <1>1, <1>2, <1>5, ProductGrows
  <2>2. y * (q + 1) = y * q + y
    BY <1>1
  <2> QED
    BY <2>1, <2>2, <1>4, <1>1, <1>2
<1> QED
  BY <1>1, <1>2, <1>5 DEF q, p

-----------------------------------------------------------------------------
(* Eligibility                                                             *)

(* What an application leaves of its income for the new instalment.        *)
LEMMA CapacityIsRoom ==
    ASSUME NEW a \in Application
    PROVE  /\ Obligation(a) \in Nat /\ Capacity(a) \in Nat
           /\ Capacity(a) - Obligation(a)
                  = (9 * a.income - 240 * a.emis) * a.tenure - 24 * a.requested
<1> DEFINE i == a.income
           e == a.emis
           t == a.tenure
           r == a.requested
<1>1. i \in Nat /\ e \in Nat /\ t \in Nat /\ r \in Nat
  BY DEF Application
<1>2. Obligation(a) = 24 * (10 * e * t + r) /\ Capacity(a) = 9 * i * t
  BY DEF Obligation, Capacity
<1> HIDE DEF i, e, t, r
<1>3. (9 * i - 240 * e) * t = 9 * i * t - 240 * (e * t)
  BY <1>1
<1>4. 24 * (10 * e * t + r) = 240 * (e * t) + 24 * r
  BY <1>1
<1>5. e * t \in Nat /\ 9 * i * t \in Nat
  BY <1>1
<1>6. /\ 24 * (10 * e * t + r) \in Nat
      /\ 9 * i * t - 24 * (10 * e * t + r) = (9 * i - 240 * e) * t - 24 * r
  BY <1>1, <1>3, <1>4, <1>5
<1> QED
  BY <1>2, <1>5, <1>6 DEF i, e, t, r

(* The room under the bound only widens. *)
LEMMA RoomWidens ==
    ASSUME NEW a \in Application, NEW b \in Application, AtLeastAsGood(b, a),
           a.tenure > 0, Obligation(a) <= Capacity(a)
    PROVE  Capacity(a) - Obligation(a) <= Capacity(b) - Obligation(b)
<1> DEFINE k == 9 * a.income - 240 * a.emis
           m == 9 * b.income - 240 * b.emis
           t == a.tenure
           s == b.tenure
           r == a.requested
           w == b.requested
<1>1. /\ k \in Int /\ m \in Int /\ t \in Nat /\ s \in Nat /\ r \in Nat /\ w \in Nat
      /\ t > 0 /\ s >= t /\ w <= r /\ m >= k
  BY DEF Application, AtLeastAsGood
<1>2. /\ Capacity(a) - Obligation(a) = k * t - 24 * r
      /\ Capacity(b) - Obligation(b) = m * s - 24 * w
      /\ Capacity(a) - Obligation(a) >= 0
  BY CapacityIsRoom
<1> HIDE DEF k, m, t, s, r, w
<1>3. k \in Nat
  <2> SUFFICES ASSUME k < 0 PROVE FALSE
    BY <1>1
  <2>1. PICK n \in Nat : k = -n /\ n > 0
    BY <1>1, -k \in Nat, k = -(-k)
  <2>2. k * t = -(n * t) /\ n * t > 0
    BY <1>1, <2>1
  <2> QED
    BY <1>1, <1>2, <2>2
<1>4. k * t <= m * s
  BY <1>1, <1>3, ProductGrows
<1>5. k * t \in Int /\ m * s \in Int
  BY <1>1
<1> QED
  BY <1>1, <1>2, <1>4, <1>5

LEMMA CapacityImproves ==
    ASSUME NEW a \in Applications, NEW b \in Application, AtLeastAsGood(b, a), CapacityOk(a)
    PROVE  CapacityOk(b)
<1>1. a \in Application
  BY DecisioningAssumption
<1>2. /\ a.tenure > 0 /\ a.income > 0 /\ Obligation(a) <= Capacity(a)
      /\ Obligation(a) = Capacity(a) => a \notin RatioRoundsUp
  BY DEF CapacityOk
<1>3. b.tenure > 0 /\ b.income > 0
  BY <1>1, <1>2 DEF AtLeastAsGood, Application
<1>4. Capacity(a) - Obligation(a) <= Capacity(b) - Obligation(b)
  BY <1>1, <1>2, RoomWidens
<1>5. /\ Obligation(a) \in Nat /\ Capacity(a) \in Nat
      /\ Obligation(b) \in Nat /\ Capacity(b) \in Nat
  BY <1>1, CapacityIsRoom
<1>6. Obligation(b) <= Capacity(b)
  BY <1>2, <1>4, <1>5
<1>7. Obligation(b) = Capacity(b) => b \notin RatioRoundsUp
  <2>1. Obligation(b) = Capacity(b) => Obligation(a) = Capacity(a)
    BY <1>2, <1>4, <1>5
  <2> QED
    BY <1>2, <2>1, RoundingAssumption
<1> QED
  BY <1>3, <1>6, <1>7 DEF CapacityOk

LEMMA DebtImproves ==
    ASSUME NEW a \in Application, NEW b \in Application, AtLeastAsGood(b, a), DebtOk(a)
    PROVE  DebtOk(b)
BY DEF DebtOk, Application, AtLeastAsGood

LEMMA EligibilityImproves ==
    ASSUME NEW a \in Applications, NEW b \in Application, AtLeastAsGood(b, a), Eligible(a)
    PROVE  Eligible(b)
<1>1. a \in Application
  BY DecisioningAssumption
<1>2. CapacityOk(b) /\ DebtOk(b)
  BY <1>1, CapacityImproves, DebtImproves DEF Eligible
<1>3. CreditOk(b) /\ IncomeOk(b)
  BY <1>1 DEF Eligible, CreditOk, IncomeOk, Application, AtLeastAsGood, MIN_SCORE,
              MIN_ANNUAL_INCOME
<1> QED
  BY <1>2, <1>3 DEF Eligible

(* The penalty stays below the one for too much debt, and shrinks. *)
LEMMA PenaltyBounds ==
    ASSUME NEW a \in Application
    PROVE  /\ DebtPenalty(a) \in 0..80
           /\ DebtOk(a) => DebtPenalty(a) <= 27
<1>1. a.emis \in Nat /\ a.income \in Nat
  BY DEF Application
<1>2. CASE DebtOk(a)
  <2> DEFINE e == a.emis
             i == a.income
             q == (600 * e) \div i
  <2>1. i > 0 /\ 240 * e <= 11 * i /\ e \in Nat /\ i \in Nat
    BY <1>1, <1>2 DEF DebtOk
  <2>2. DebtPenalty(a) = q
    BY <1>2 DEF DebtPenalty
  <2>3. q \in Nat /\ i * q <= 600 * e
    <3> HIDE DEF e, i
    <3> QED
      BY <2>1, Quotient
  <2> HIDE DEF e, i, q
  <2>4. ASSUME q >= 28 PROVE FALSE
    <3>1. i * 28 <= i * q
      BY <2>1, <2>3, <2>4, ProductGrows
    <3>2. i * q \in Nat
      BY <2>1, <2>3
    <3> QED
      BY <3>1, <3>2, <2>1, <2>3
  <2> QED
    BY <2>2, <2>3, <2>4
<1>3. CASE ~DebtOk(a)
  BY <1>3 DEF DebtPenalty
<1> QED
  BY <1>2, <1>3

LEMMA PenaltyShrinks ==
    ASSUME NEW a \in Application, NEW b \in Application, AtLeastAsGood(b, a)
    PROVE  DebtPenalty(b) <= DebtPenalty(a)
<1>1. /\ a.emis \in Nat /\ a.income \in Nat /\ b.emis \in Nat /\ b.income \in Nat
      /\ b.emis <= a.emis /\ b.income >= a.income
  BY DEF Application, AtLeastAsGood
<1>2. CASE DebtOk(a)
  <2>1. DebtOk(b)
    BY <1>2, DebtImproves
  <2>2. a.income > 0
    BY <1>2 DEF DebtOk
  <2>3. (600 * b.emis) \div b.income <= (600 * a.emis) \div a.income
    BY <1>1, <2>2, QuotientShrinks
  <2> QED
    BY <1>2, <2>1, <2>3 DEF DebtPenalty
<1>3. CASE ~DebtOk(a)
  <2>1. DebtPenalty(a) = 80
    BY <1>3 DEF DebtPenalty
  <2>2. DebtPenalty(b) \in 0..80
    BY PenaltyBounds
  <2> QED
    BY <2>1, <2>2
<1> QED
  BY <1>2, <1>3

(* The score never reaches the ends of its scale, and improves. *)
LEMMA ScoreBounds ==
    ASSUME NEW a \in Application
    PROVE  /\ Score(a) = 300 + AtMost(250, a.cibil \div 2) + Bonus(a) - DebtPenalty(a)
           /\ Score(a) \in 270..700
<1>1. a.cibil \div 2 \in Nat /\ a.income \in Nat
  BY DEF Application
<1>2. AtMost(250, a.cibil \div 2) \in 0..250
  BY <1>1 DEF AtMost
<1>3. Bonus(a) \in 50..150
  BY <1>1 DEF Bonus
<1>4. DebtPenalty(a) \in 0..80
  BY PenaltyBounds
<1> DEFINE c == AtMost(250, a.cibil \div 2)
           p == Bonus(a)
           q == DebtPenalty(a)
           n == 300 + c + p - q
<1>5. n \in 270..700
  <2>1. c \in 0..250 /\ p \in 50..150 /\ q \in 0..80
    BY <1>2, <1>3, <1>4
  <2> HIDE DEF c, p, q
  <2>2. /\ c \in Int /\ p \in Int /\ q \in Int
        /\ 0 <= c /\ c <= 250 /\ 50 <= p /\ p <= 150 /\ 0 <= q /\ q <= 80
    BY <2>1
  <2> QED
    BY <2>2
<1>6. Score(a) = AtLeast(0, AtMost(900, n))
  BY DEF Score
<1> HIDE DEF n
<1>7. Score(a) = n
  BY <1>5, <1>6 DEF AtLeast, AtMost
<1> QED
  BY <1>5, <1>7 DEF n

LEMMA ScoreImproves ==
    ASSUME NEW a \in Application, NEW b \in Application, AtLeastAsGood(b, a)
    PROVE  Score(b) >= Score(a)
<1>1. /\ a.cibil \in Nat /\ b.cibil \in Nat /\ b.cibil >= a.cibil
      /\ a.income \in Nat /\ b.income \in Nat /\ b.income >= a.income
  BY DEF Application, AtLeastAsGood
<1>2. AtMost(250, a.cibil \div 2) <= AtMost(250, b.cibil \div 2)
  BY <1>1 DEF AtMost
<1>3. Bonus(a) <= Bonus(b)
  BY <1>1 DEF Bonus
<1>4. AtMost(250, a.cibil \div 2) \in Int /\ AtMost(250, b.cibil \div 2) \in Int
  BY <1>1 DEF AtMost
<1>5. Bonus(a) \in Int /\ Bonus(b) \in Int
  BY DEF Bonus
<1>6. DebtPenalty(a) \in 0..80 /\ DebtPenalty(b) \in 0..80 /\ DebtPenalty(b) <= DebtPenalty(a)
  BY PenaltyBounds, PenaltyShrinks
<1> QED
  BY <1>2, <1>3, <1>4, <1>5, <1>6, ScoreBounds

(* The amount is the exact limit without its fraction, or one less when    *)
(* there is none.                                                          *)
LEMMA AmountOfLimit ==
    ASSUME NEW a \in Application, a.tenure > 0, a.income > 0
    PROVE  /\ Truncated(a) \in Nat
           /\ 240 * Truncated(a) <= Capacity(a)
           /\ Capacity(a) <= 240 * (Truncated(a) + 1)
           /\ <<a.income, a.tenure>> \in AmountRoundsDown
                  => Capacity(a) = 240 * (Truncated(a) + 1)
           /\ <<a.income, a.tenure>> \notin AmountRoundsDown
                  => Capacity(a) < 240 * (Truncated(a) + 1)
<1> DEFINE c == Capacity(a)
           q == c \div 240
<1>1. c \in Nat
  BY CapacityIsRoom
<1>2. q \in Nat /\ 240 * q <= c /\ c < 240 * q + 240
  <2> HIDE DEF c
  <2> QED
    BY <1>1, Quotient
<1>3. CASE <<a.income, a.tenure>> \in AmountRoundsDown
  <2>1. c > 0 /\ c % 240 = 0
    BY <1>3, RoundingAssumption DEF Capacity
  <2>2. Truncated(a) = q - 1
    BY <1>3 DEF Truncated
  <2> HIDE DEF c
  <2>3. c = 240 * q /\ q > 0
    BY <1>1, <1>2, <2>1
  <2> HIDE DEF q
  <2>4. Truncated(a) \in Nat /\ c = 240 * (Truncated(a) + 1) /\ 240 * Truncated(a) <= c
    BY <1>2, <2>2, <2>3
  <2> QED
    BY <1>3, <2>4 DEF c
<1>4. CASE <<a.income, a.tenure>> \notin AmountRoundsDown
  <2>1. Truncated(a) = q - 0
    BY <1>4 DEF Truncated
  <2> HIDE DEF c, q
  <2>2. Truncated(a) \in Nat /\ 240 * Truncated(a) <= c /\ c < 240 * (Truncated(a) + 1)
    BY <1>1, <1>2, <2>1
  <2> QED
    BY <1>1, <1>4, <2>2 DEF c
<1> QED
  BY <1>3, <1>4

LEMMA AmountIsNat ==
    ASSUME NEW a \in Application
    PROVE  MaxAmount(a) \in Nat
<1>1. CASE Eligible(a)
  BY <1>1, AmountOfLimit DEF Eligible, CapacityOk, MaxAmount
<1>2. CASE ~Eligible(a)
  BY <1>2 DEF MaxAmount
<1> QED
  BY <1>1, <1>2

(* Of two amounts the larger is the one with the longer tenure and the     *)
(* higher income, also when it alone is rounded down.                      *)
LEMMA TruncationImproves ==
    ASSUME NEW a \in Application, NEW b \in Application, AtLeastAsGood(b, a),
           a.tenure > 0, a.income > 0
    PROVE  Truncated(b) >= Truncated(a)
<1> DEFINE x == Truncated(a)
           y == Truncated(b)
<1>1. /\ 9 * a.income \in Nat /\ 9 * b.income \in Nat /\ 9 * a.income <= 9 * b.income
      /\ a.tenure \in Nat /\ b.tenure \in Nat /\ a.tenure <= b.tenure
      /\ b.tenure > 0 /\ b.income > 0 /\ a.income \in Nat /\ b.income \in Nat
  BY DEF Application, AtLeastAsGood
<1>2. Capacity(a) <= Capacity(b) /\ Capacity(a) \in Nat /\ Capacity(b) \in Nat
  BY <1>1, ProductGrows, CapacityIsRoom DEF Capacity
<1>3. x \in Nat /\ y \in Nat /\ 240 * x <= Capacity(a) /\ Capacity(b) <= 240 * (y + 1)
  BY <1>1, AmountOfLimit
<1>4. CASE Capacity(b) < 240 * (y + 1)
  <2> HIDE DEF x, y
  <2>1. x <= y
    BY <1>2, <1>3, <1>4
  <2> QED
    BY <2>1, <1>3 DEF x, y
<1>5. CASE Capacity(a) < Capacity(b)
  <2> HIDE DEF x, y
  <2>1. x <= y
    BY <1>2, <1>3, <1>5
  <2> QED
    BY <2>1, <1>3 DEF x, y
<1>6. CASE Capacity(a) = Capacity(b)
  <2> DEFINE i == 9 * a.income
             j == 9 * b.income
             t == a.tenure
             s == b.tenure
  <2>1. i \in Nat /\ j \in Nat /\ t \in Nat /\ s \in Nat /\ i <= j /\ t <= s /\ i * t = j * s
        /\ i > 0 /\ t > 0
    BY <1>1, <1>6 DEF Capacity
  <2> HIDE DEF i, j, t, s
  <2>2. i = j
    <3> SUFFICES ASSUME i + 1 <= j PROVE FALSE
      BY <2>1
    <3>1. (i + 1) * t <= j * s
      BY <2>1, ProductGrows
    <3>2. (i + 1) * t = i * t + t /\ i * t \in Nat
      BY <2>1
    <3> QED
      BY <2>1, <3>1, <3>2
  <2>3. t = s
    <3> SUFFICES ASSUME t + 1 <= s PROVE FALSE
      BY <2>1
    <3>1. i * (t + 1) <= j * s
      BY <2>1, ProductGrows
    <3>2. i * (t + 1) = i * t + i /\ i * t \in Nat
      BY <2>1
    <3> QED
      BY <2>1, <3>1, <3>2
  <2>4. a.income = b.income /\ a.tenure = b.tenure
    BY <2>2, <2>3, <1>1 DEF i, j, t, s
  <2>5. x = y
    BY <2>4, <1>6 DEF Truncated
  <2> QED
    BY <1>3, <2>5
<1> QED
  BY <1>2, <1>4, <1>5, <1>6

LEMMA AmountImproves ==
    ASSUME NEW a \in Applications, NEW b \in Application, AtLeastAsGood(b, a)
    PROVE  MaxAmount(b) >= MaxAmount(a)
<1>1. a \in Application
  BY DecisioningAssumption
<1>2. CASE Eligible(a)
  <2>1. Eligible(b)
    BY <1>2, EligibilityImproves
  <2>2. Truncated(b) >= Truncated(a)
    BY <1>1, <1>2, TruncationImproves DEF Eligible, CapacityOk
  <2> QED
    BY <1>2, <2>1, <2>2 DEF MaxAmount
<1>3. CASE ~Eligible(a)
  <2>1. MaxAmount(b) \in Nat /\ MaxAmount(a) = 0
    BY <1>3, AmountIsNat DEF MaxAmount
  <2> QED
    BY <2>1
<1> QED
  BY <1>2, <1>3

(* What is granted is at most what is left, which is at most the limit. *)
LEMMA RequestIsCovered ==
    ASSUME NEW a \in Application, Eligible(a)
    PROVE  a.requested <= 10 * (MaxAmount(a) + 1)
<1> DEFINE p == a.emis * a.tenure
           r == a.requested
           n == Truncated(a)
<1>1. /\ a.tenure > 0 /\ a.income > 0 /\ 24 * (10 * a.emis * a.tenure + r) <= Capacity(a)
      /\ MaxAmount(a) = n
  BY DEF Eligible, CapacityOk, Obligation, MaxAmount
<1>2. p \in Nat /\ r \in Nat /\ 10 * a.emis * a.tenure = 10 * p
  <2>1. a.emis \in Nat /\ a.tenure \in Nat /\ r \in Nat
    BY DEF Application
  <2> QED
    BY <2>1
<1>3. n \in Nat /\ Capacity(a) <= 240 * (n + 1) /\ Capacity(a) \in Nat
  BY <1>1, AmountOfLimit, CapacityIsRoom
<1>4. 24 * (10 * p + r) <= Capacity(a)
  BY <1>1, <1>2
<1> HIDE DEF p, r, n
<1>5. r <= 10 * (n + 1)
  BY <1>2, <1>3, <1>4
<1> QED
  BY <1>1, <1>5 DEF r

(* Without other instalments, only the amount decides a changed request.   *)
LEMMA EligibleForLess ==
    ASSUME NEW a \in Application, Eligible(a), a.emis = 0, NEW n \in Nat
    PROVE  /\ 24 * n < Capacity(a) => Eligible([a EXCEPT !.requested = n])
           /\ 24 * n > Capacity(a) => ~Eligible([a EXCEPT !.requested = n])
<1> DEFINE b == [a EXCEPT !.requested = n]
<1>1. /\ b.income = a.income /\ b.cibil = a.cibil /\ b.emis = 0 /\ b.tenure = a.tenure
      /\ b.requested = n /\ b \in Application
      /\ a.income \in Nat /\ a.tenure \in Nat
  BY DEF Application
<1> HIDE DEF b
<1>2. a.tenure > 0 /\ a.income > 0 /\ CreditOk(a) /\ IncomeOk(a)
  BY DEF Eligible, CapacityOk
<1>3. CreditOk(b) /\ IncomeOk(b) /\ DebtOk(b)
  BY <1>1, <1>2 DEF CreditOk, IncomeOk, DebtOk
<1>4. Capacity(b) = Capacity(a) /\ Capacity(a) \in Nat
  BY <1>1, CapacityIsRoom DEF Capacity
<1>5. Obligation(b) = 24 * n
  <2>1. 10 * b.emis * b.tenure = 0
    BY <1>1
  <2> QED
    BY <1>1, <2>1 DEF Obligation
<1>6. 24 * n < Capacity(a) => CapacityOk(b)
  BY <1>1, <1>2, <1>4, <1>5 DEF CapacityOk
<1>7. 24 * n > Capacity(a) => ~CapacityOk(b)
  BY <1>4, <1>5 DEF CapacityOk
<1> QED
  BY <1>3, <1>6, <1>7 DEF Eligible, b

-----------------------------------------------------------------------------
(* Fraud                                                                   *)

LEMMA ContributionsGrow ==
    ASSUME NEW t \in Transaction, NEW u \in Transaction, Riskier(u, t)
    PROVE  Contributions(t) \in Nat /\ Contributions(u) \in Nat
           /\ Contributions(u) >= Contributions(t)
<1>1. /\ t.amount \in Nat /\ t.velocity \in Nat /\ t.vsAverage \in Nat
      /\ u.amount \in Nat /\ u.velocity \in Nat /\ u.vsAverage \in Nat
      /\ t.ipNew \in BOOLEAN /\ t.deviceNew \in BOOLEAN /\ t.mismatch \in BOOLEAN
      /\ u.ipNew \in BOOLEAN /\ u.deviceNew \in BOOLEAN /\ u.mismatch \in BOOLEAN
  BY DEF Transaction
<1>2. /\ AtMost(1000000, t.amount) \in Nat /\ AtMost(1000000, u.amount) \in Nat
      /\ AtMost(1000000, t.amount) <= AtMost(1000000, u.amount)
  BY <1>1 DEF AtMost, Riskier
<1>3. /\ AtMost(20, t.velocity) \in Nat /\ AtMost(20, u.velocity) \in Nat
      /\ AtMost(20, t.velocity) <= AtMost(20, u.velocity)
  BY <1>1 DEF AtMost, Riskier
<1>4. /\ AtMost(50, t.vsAverage) \in Nat /\ AtMost(50, u.vsAverage) \in Nat
      /\ AtMost(50, t.vsAverage) <= AtMost(50, u.vsAverage)
  BY <1>1 DEF AtMost, Riskier
<1>5. ASSUME NEW x \in BOOLEAN, NEW y \in BOOLEAN, x => y, NEW w \in Nat
      PROVE  Flag(x, w) \in Nat /\ Flag(y, w) \in Nat /\ Flag(x, w) <= Flag(y, w)
  BY <1>5 DEF Flag
<1>6. /\ Flag(t.ipNew, 1000000) \in Nat /\ Flag(u.ipNew, 1000000) \in Nat
      /\ Flag(t.ipNew, 1000000) <= Flag(u.ipNew, 1000000)
  BY <1>1, <1>5 DEF Riskier
<1>7. /\ Flag(t.deviceNew, 1500000) \in Nat /\ Flag(u.deviceNew, 1500000) \in Nat
      /\ Flag(t.deviceNew, 1500000) <= Flag(u.deviceNew, 1500000)
  BY <1>1, <1>5 DEF Riskier
<1>8. /\ Flag(t.mismatch, 1000000) \in Nat /\ Flag(u.mismatch, 1000000) \in Nat
      /\ Flag(t.mismatch, 1000000) <= Flag(u.mismatch, 1000000)
  BY <1>1, <1>5 DEF Riskier
<1> QED
  BY <1>2, <1>3, <1>4, <1>6, <1>7, <1>8 DEF Contributions

LEMMA VerdictHardens ==
    ASSUME NEW t \in Transaction, NEW u \in Transaction, Riskier(u, t)
    PROVE  Severity[Verdict(u)] >= Severity[Verdict(t)]
<1>1. Risk(t) \in Int /\ Risk(u) \in Int /\ Risk(u) >= Risk(t)
  BY ContributionsGrow DEF Risk
<1> QED
  BY <1>1 DEF Verdict, Severity

-----------------------------------------------------------------------------
(* Decisions are well formed, and no score needs its clamp. *)
THEOREM EngineTypeCorrect == EngineSpec => []EngineTypeOK
<1>1. EngineInv => EngineTypeOK
  <2> SUFFICES ASSUME EngineInv PROVE EngineTypeOK
    OBVIOUS
  <2>1. application \in Application
    BY DecisioningAssumption DEF EngineInv
  <2>2. /\ Eligible(application) \in BOOLEAN
        /\ Score(application) \in 270..700
        /\ MaxAmount(application) \in Nat
    BY <2>1, ScoreBounds, AmountIsNat DEF Eligible, CreditOk, IncomeOk, CapacityOk, DebtOk
  <2>3. decision \in [eligible : BOOLEAN, score : 270..700, maxAmount : Nat]
    BY <2>2 DEF EngineInv, Assessment
  <2>4. verdict \in DOMAIN Severity
    BY DEF EngineInv, Verdict, Severity
  <2> QED
    BY <2>3, <2>4 DEF EngineInv, EngineTypeOK
<1> QED
  BY <1>1, EnginesDecide, PTL

(* The amount of a positive decision falls short of the amount asked for   *)
(* by at most one, the unit that truncating it may cost.                   *)
THEOREM OffersCoverRequests == EngineSpec => []OfferCoversRequest
<1>1. EngineInv => OfferCoversRequest
  <2> SUFFICES ASSUME EngineInv, decision.eligible
               PROVE  application.requested <= 10 * (decision.maxAmount + 1)
    BY DEF OfferCoversRequest
  <2>1. application \in Application /\ Eligible(application)
        /\ decision.maxAmount = MaxAmount(application)
    BY DecisioningAssumption DEF EngineInv, Assessment
  <2> QED
    BY <2>1, RequestIsCovered
<1> QED
  BY <1>1, EnginesDecide, PTL

(* The amount of a decision without other instalments is, to within one,   *)
(* the most that the engine would grant.                                   *)
THEOREM AmountIsWithinOne == EngineSpec => []AmountIsTheLimit
<1>1. EngineInv => AmountIsTheLimit
  <2> SUFFICES ASSUME EngineInv, decision.eligible, application.emis = 0
               PROVE  /\ Eligible([application EXCEPT
                                       !.requested = 10 * (decision.maxAmount - 1)])
                      /\ ~Eligible([application EXCEPT
                                       !.requested = 10 * (decision.maxAmount + 2)])
    BY DEF AmountIsTheLimit
  <2>1. /\ application \in Application /\ Eligible(application)
        /\ decision.maxAmount = Truncated(application)
        /\ application.tenure > 0 /\ application.income > 0
    BY DecisioningAssumption DEF EngineInv, Assessment, MaxAmount, Eligible, CapacityOk
  <2> DEFINE q == Capacity(application)
             m == decision.maxAmount
  <2>2. m \in Nat /\ q \in Nat /\ 240 * m <= q /\ q <= 240 * (m + 1)
    <3>1. /\ Truncated(application) \in Nat
          /\ 240 * Truncated(application) <= q
          /\ q <= 240 * (Truncated(application) + 1)
      BY <2>1, AmountOfLimit
    <3>2. q \in Nat
      BY <2>1, CapacityIsRoom
    <3> QED
      BY <2>1, <3>1, <3>2
  <2>3. q >= 9 * 300000
    <3>1. application.income \in Nat /\ application.tenure \in Nat
          /\ application.income >= 300000
      BY <2>1 DEF Application, Eligible, IncomeOk, MIN_ANNUAL_INCOME
    <3>2. (9 * 300000) * 1 <= (9 * application.income) * application.tenure
      BY <2>1, <3>1, ProductGrows
    <3> QED
      BY <3>2 DEF Capacity
  <2>4. \A n \in Nat :
            /\ 24 * n < q => Eligible([application EXCEPT !.requested = n])
            /\ 24 * n > q => ~Eligible([application EXCEPT !.requested = n])
    BY <2>1, EligibleForLess
  <2> HIDE DEF q, m
  <2>5. /\ 10 * (m - 1) \in Nat /\ 10 * (m + 2) \in Nat
        /\ 24 * (10 * (m - 1)) < q /\ 24 * (10 * (m + 2)) > q
    BY <2>2, <2>3
  <2>6. /\ Eligible([application EXCEPT !.requested = 10 * (m - 1)])
        /\ ~Eligible([application EXCEPT !.requested = 10 * (m + 2)])
    BY <2>4, <2>5
  <2> QED
    BY <2>6 DEF m
<1> QED
  BY <1>1, EnginesDecide, PTL

(* Eligibility, score and amount are monotone in the application. *)
THEOREM EligibilityIsMonotone == EngineSpec => BetterApplicantsFareNoWorse
<1>1. EngineInv /\ EngineInv' /\ AtLeastAsGood(application', application) =>
          /\ decision.eligible => decision'.eligible
          /\ decision'.score >= decision.score
          /\ decision'.maxAmount >= decision.maxAmount
  <2> SUFFICES ASSUME EngineInv, EngineInv', AtLeastAsGood(application', application)
               PROVE  /\ decision.eligible => decision'.eligible
                      /\ decision'.score >= decision.score
                      /\ decision'.maxAmount >= decision.maxAmount
    OBVIOUS
  <2>1. /\ application \in Application /\ application' \in Application
        /\ application \in Applications
    BY DecisioningAssumption DEF EngineInv
  <2>2. /\ Eligible(application) => Eligible(application')
        /\ Score(application') >= Score(application)
        /\ MaxAmount(application') >= MaxAmount(application)
    BY <2>1, EligibilityImproves, ScoreImproves, AmountImproves
  <2>3. decision = Assessment(application) /\ decision' = Assessment(application')
    BY DEF EngineInv, Assessment
  <2> QED
    BY <2>2, <2>3 DEF Assessment
<1> QED
  BY <1>1, EnginesDecide, PTL DEF BetterApplicantsFareNoWorse

(* The fraud verdict is monotone in every signal. *)
THEOREM FraudIsMonotone == EngineSpec => RiskierIsJudgedNoMilder
<1>1. EngineInv /\ EngineInv' /\ Riskier(transaction', transaction) =>
          Severity[verdict'] >= Severity[verdict]
  <2> SUFFICES ASSUME EngineInv, EngineInv', Riskier(transaction', transaction)
               PROVE  Severity[verdict'] >= Severity[verdict]
    OBVIOUS
  <2>1. transaction \in Transaction /\ transaction' \in Transaction
    BY DecisioningAssumption DEF EngineInv
  <2>2. verdict = Verdict(transaction) /\ verdict' = Verdict(transaction')
    BY DEF EngineInv
  <2> QED
    BY <2>1, <2>2, VerdictHardens
<1> QED
  BY <1>1, EnginesDecide, PTL DEF RiskierIsJudgedNoMilder
=============================================================================
