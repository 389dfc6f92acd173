---------------------------- MODULE Decisioning ----------------------------
(***************************************************************************)
(* The deterministic engines: loan eligibility (decisioning/               *)
(* eligibility.py, as the tool calls it, without debt_to_income) and fraud *)
(* scoring (decisioning/fraud.py).  The state is the last call of each     *)
(* engine and its decision.  Incomes and instalments are whole numbers,    *)
(* the amount requested is in tenths.  Floats decide as exact arithmetic   *)
(* does except where the exact result is a boundary itself: there the two  *)
(* last constants say how they are rounded.                                *)
(***************************************************************************)
EXTENDS Integers

CONSTANTS
    Applications,     \* the arguments of assess_eligibility
    Transactions,     \* the arguments of score_transaction
    RatioRoundsUp,    \* applications whose ratio, 0.45, is computed as more
    AmountRoundsDown  \* <<income, tenure>> whose whole amount is computed as less

Application == [income : Nat, cibil : Nat, emis : Nat, requested : Nat, tenure : Nat]

(* b earns and scores at least as much as a, owes and asks for no more,    *)
(* and has as long to repay.                                               *)
AtLeastAsGood(b, a) ==
    /\ b.income >= a.income /\ b.cibil >= a.cibil /\ b.tenure >= a.tenure
    /\ b.emis <= a.emis /\ b.requested <= a.requested

(* What the applicant would repay over the tenure, and what 0.45 of the    *)
(* income over the tenure allows, both in units of 1/240.                  *)
Obligation(a) == 24 * (10 * a.emis * a.tenure + a.requested)
Capacity(a) == 9 * a.income * a.tenure

(* amount_vs_avg is given in tenths. *)
Transaction == [amount : Nat, velocity : Nat, ipNew : BOOLEAN, deviceNew : BOOLEAN,
                vsAverage : Nat, mismatch : BOOLEAN]

ASSUME DecisioningAssumption ==
    Applications \subseteq Application /\ Transactions \subseteq Transaction

(* Every operation of the ratio is monotone, rounding included: of two     *)
(* equal ratios, the one computed from terms at least as good is no larger. *)
ASSUME RoundingAssumption ==
    /\ RatioRoundsUp \subseteq Application
    /\ \A b \in RatioRoundsUp, a \in Applications :
           AtLeastAsGood(b, a) /\ Obligation(a) = Capacity(a) => a \in RatioRoundsUp
    /\ \A p \in AmountRoundsDown :
           /\ p \in Nat \X Nat
           /\ 9 * p[1] * p[2] > 0 /\ (9 * p[1] * p[2]) % 240 = 0

VARIABLES
    application, decision,  \* the last call of assess_eligibility
    transaction, verdict    \* the last call of score_transaction

engineVars == <<application, decision, transaction, verdict>>

AtMost(bound, n) == IF n <= bound THEN n ELSE bound
AtLeast(bound, n) == IF n >= bound THEN n ELSE bound

-----------------------------------------------------------------------------
(* assess_eligibility                                                      *)

MIN_SCORE == 550
MIN_ANNUAL_INCOME == 300000

CreditOk(a) == a.cibil >= MIN_SCORE
IncomeOk(a) == a.income >= MIN_ANNUAL_INCOME

(* (emis + requested / tenure) / (income / 12) <= 0.45 *)
CapacityOk(a) ==
    /\ a.tenure > 0 /\ a.income > 0
    /\ Obligation(a) <= Capacity(a)
    /\ Obligation(a) = Capacity(a) => a \notin RatioRoundsUp

(* emis * 12 / income <= 0.55, and 1.0 without an income. *)
DebtOk(a) == a.income > 0 /\ 240 * a.emis <= 11 * a.income

Bonus(a) == IF a.income >= 1000000 THEN 150 ELSE IF a.income >= 500000 THEN 100 ELSE 50

(* int(dti * 100 / 2), or 80. *)
NoDebtPenalty(a) == IF DebtOk(a) THEN (600 * a.emis) \div a.income ELSE 20
DebtPenalty(a) == IF DebtOk(a) THEN (600 * a.emis) \div a.income ELSE 80

Score(a) ==
    AtLeast(0, AtMost(900, 300 + AtMost(250, a.cibil \div 2) + Bonus(a) - DebtPenalty(a)))

Eligible(a) == CreditOk(a) /\ IncomeOk(a) /\ CapacityOk(a) /\ DebtOk(a)

(* int(income / 12 * 0.45 * tenure) *)
Truncated(a) ==
    (Capacity(a) \div 240) - (IF <<a.income, a.tenure>> \in AmountRoundsDown THEN 1 ELSE 0)

OneInstalmentShort(a) == IF Eligible(a) THEN Truncated([a EXCEPT !.tenure = @ - 1]) ELSE 0
OneInstalmentMore(a) == IF Eligible(a) THEN Truncated([a EXCEPT !.tenure = @ + 1]) ELSE 0
MaxAmount(a) == IF Eligible(a) THEN Truncated(a) ELSE 0

Assessment(a) == [eligible |-> Eligible(a), score |-> Score(a), maxAmount |-> MaxAmount(a)]

-----------------------------------------------------------------------------
(* score_transaction                                                       *)

Flag(b, weight) == IF b THEN weight ELSE 0

(* The sum of the contributions, times 100 000. *)
KnownDeviceContributions(t) ==
    3 * AtMost(1000000, t.amount) + 100000 * AtMost(20, t.velocity) + Flag(t.ipNew, 1000000)
    + Flag(~t.deviceNew, 1500000) + 30000 * AtMost(50, t.vsAverage) + Flag(t.mismatch, 1000000)
Contributions(t) ==
    3 * AtMost(1000000, t.amount) + 100000 * AtMost(20, t.velocity) + Flag(t.ipNew, 1000000)
    + Flag(t.deviceNew, 1500000) + 30000 * AtMost(50, t.vsAverage) + Flag(t.mismatch, 1000000)

(* Rounded to hundredths of a percent. *)
Risk(t) == (Contributions(t) + 500) \div 1000

Severity == [approve |-> 0, review |-> 1, block |-> 2]

Verdict(t) ==
    IF Risk(t) >= 8000 THEN "block" ELSE IF Risk(t) >= 5000 THEN "review" ELSE "approve"

-----------------------------------------------------------------------------
CheckLoanEligibility ==
    /\ application' \in Applications
    /\ decision' = Assessment(application')
    /\ UNCHANGED <<transaction, verdict>>

ScoreTransaction ==
    /\ transaction' \in Transactions
    /\ verdict' = Verdict(transaction')
    /\ UNCHANGED <<application, decision>>

EngineInit ==
    /\ application \in Applications /\ decision = Assessment(application)
    /\ transaction \in Transactions /\ verdict = Verdict(transaction)

EngineNext == CheckLoanEligibility \/ ScoreTransaction

EngineSpec == EngineInit /\ [][EngineNext]_engineVars

-----------------------------------------------------------------------------
(* Properties                                                              *)

(* Decisions are those of the engines, with a score on the scale to 900. *)
EngineTypeOK ==
    /\ application \in Applications /\ transaction \in Transactions
    /\ decision \in [eligible : BOOLEAN, score : 270..700, maxAmount : Nat]
    /\ verdict \in DOMAIN Severity

(* No applicant is told in one decision that the amount asked for is       *)
(* granted and that the most that can be granted is less, by a unit or     *)
(* more: the truncation of the amount costs at most that unit.             *)
OfferCoversRequest ==
    decision.eligible => application.requested <= 10 * (decision.maxAmount + 1)

(* Without other instalments, the amount is to within a unit the limit     *)
(* that the engine itself keeps: asking for one less is granted too, and   *)
(* for two more is refused, however the ratio and the amount are rounded.  *)
AmountIsTheLimit ==
    decision.eligible /\ application.emis = 0 =>
        /\ Eligible([application EXCEPT !.requested = 10 * (decision.maxAmount - 1)])
        /\ ~Eligible([application EXCEPT !.requested = 10 * (decision.maxAmount + 2)])

(* An applicant at least as good in every respect is never treated worse:  *)
(* granted if the other is, with no lower score and no lower amount.       *)
BetterApplicantsFareNoWorse ==
    [][AtLeastAsGood(application', application) =>
           /\ decision.eligible => decision'.eligible
           /\ decision'.score >= decision.score
           /\ decision'.maxAmount >= decision.maxAmount]_engineVars

Riskier(u, t) ==
    /\ u.amount >= t.amount /\ u.velocity >= t.velocity /\ u.vsAverage >= t.vsAverage
    /\ t.ipNew => u.ipNew
    /\ t.deviceNew => u.deviceNew
    /\ t.mismatch => u.mismatch

(* A transaction with every signal at least as strong is judged no milder. *)
RiskierIsJudgedNoMilder ==
    [][Riskier(transaction', transaction) =>
           Severity[verdict'] >= Severity[verdict]]_engineVars

=============================================================================
