SPECIFICATION Spec
CONSTANTS
    Uploads = {u1, u2}
    Tenants = {t1, t2}
    DocumentIds = {d1}
    MaxChunks = 2
    MaxRestarts = 1
    Absent = Absent
PROPERTY OtherTenantsKeepTheirChunks
CHECK_DEADLOCK FALSE
