------------------------------ MODULE MCTools ------------------------------
(* What a tool may do and what it may say, for TLC: every call through the *)
(* layers, and the engines on the values at both sides of every threshold, *)
(* those where a ratio or an amount falls on its boundary included.  The   *)
(* roundings are those of the engine itself on these applications.  The    *)
(* layers and the two engines share nothing, so one of the three is asked  *)
(* at a time: the others stand at one of their inputs meanwhile.           *)
EXTENDS ToolAuthz, Decisioning, TLC

OnTheEdge ==
    [income : {300001, 300028, 393227}, cibil : {550}, emis : {0},
     requested : {1350000, 1350004, 1350005, 11796810, 40503770, 40503780},
     tenure : {12, 80, 360}]
MCApplications ==
    [income : {0, 299999, 300000, 500000, 1000000}, cibil : {300, 549, 550, 800},
     emis : {0, 5000, 11250, 13750, 14000}, requested : {0, 1350000, 6750000, 6750001},
     tenure : {0, 12, 60}] \union OnTheEdge

(* 0.45000000000000007 and 4050377.9999999995 to the engine. *)
MCRatioRoundsUp ==
    {[income |-> 393227, cibil |-> 550, emis |-> 0, requested |-> 11796810, tenure |-> 80]}
MCAmountRoundsDown == {<<300028, 360>>}

ThatApplication ==
    [income |-> 300000, cibil |-> 550, emis |-> 0, requested |-> 0, tenure |-> 12]

MCTransactions ==
    [amount : {0, 400000, 1000000, 2000000}, velocity : {0, 10, 20, 30},
     ipNew : BOOLEAN, deviceNew : BOOLEAN, vsAverage : {0, 25, 50, 80}, mismatch : BOOLEAN]
ThatTransaction ==
    [amount |-> 0, velocity |-> 0, ipNew |-> FALSE, deviceNew |-> FALSE,
     vsAverage |-> 0, mismatch |-> FALSE]

OneEngineInit == EngineInit /\ (application = ThatApplication \/ transaction = ThatTransaction)

OneEngineNext ==
    \/ transaction = ThatTransaction /\ CheckLoanEligibility
    \/ application = ThatApplication /\ ScoreTransaction

ThatCall ==
    [tool |-> "unregistered", roles |-> {}, user |-> CHOOSE u \in Users : TRUE,
     tenant |-> CHOOSE t \in Tenants : TRUE, customer |-> Absent, owner |-> Absent,
     resourceTenant |-> Absent, ticket |-> FALSE, approved |-> FALSE]

EnginesAtRest == application = ThatApplication /\ transaction = ThatTransaction
CallAtRest == call = ThatCall /\ layer = "registry"

ToolsInit ==
    \/ EnginesAtRest /\ EngineInit /\ Init
    \/ CallAtRest /\ Init /\ OneEngineInit

ToolsNext ==
    \/ EnginesAtRest /\ Next /\ UNCHANGED engineVars
    \/ CallAtRest /\ OneEngineNext /\ UNCHANGED vars

ToolsSpec == ToolsInit /\ [][ToolsNext]_<<vars, engineVars>>
=============================================================================
