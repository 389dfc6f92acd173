SPECIFICATION Spec
CONSTANTS
    Users = {u1, u2}
    OnRecord = {u1}
    Tenants = {t1, t2}
    Absent = Absent
INVARIANTS
    LocalPolicyIsNoLaxer
CHECK_DEADLOCK FALSE
