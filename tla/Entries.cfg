SPECIFICATION Spec
CONSTANTS
    Logins = {l1}
    Emails <- MCEmails
    Accounts <- MCAccounts
    AccountOf <- MCAccountOf
    TenantOf <- MCTenantOf
    RolesOf <- MCRolesOf
    Tenants = {"t1", "t2"}
    Roles <- MCRoles
    ACCESS_TTL = 1
    REFRESH_TTL = 3
    MaxTime = 5
    NoHint = NoHint
    NoIntent = NoIntent
    Calls = {c1}
    Topics <- MCTopics
    MaxMatches = 2
    Hints <- MCHints
    NoToken = NoToken
    NoContext = NoContext
INVARIANTS
    SessionsEnd
    RolesAreRecent
    TokensAreAudited
    MostMatchedIsServed
CHECK_DEADLOCK FALSE
