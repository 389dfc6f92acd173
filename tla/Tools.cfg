SPECIFICATION ToolsSpec
CONSTANTS
    Users = {u1, u2}
    OnRecord = {u1}
    Tenants = {t1, t2}
    Absent = Absent
    Applications <- MCApplications
    Transactions <- MCTransactions
    RatioRoundsUp <- MCRatioRoundsUp
    AmountRoundsDown <- MCAmountRoundsDown
INVARIANTS
    RecordsAreOwnOrPermitted
    PermittedRecordsAreReturned
    OfferCoversRequest
    AmountIsTheLimit
PROPERTIES
    BetterApplicantsFareNoWorse
    RiskierIsJudgedNoMilder
CHECK_DEADLOCK FALSE
