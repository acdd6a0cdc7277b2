\* Four requests of one user, in any order and role.
SPECIFICATION FairSpec
CONSTANTS
    u1 = u1  r1 = r1  r2 = r2  r3 = r3  r4 = r4  r5 = r5
    User = {u1}
    Request = {r1, r2, r3, r4}
    Earlier = {r1}
    None = None
    Managed = TRUE
INVARIANTS RotatedBeforeIssue AnsweredIsRevoked RevokedSessionHasNoToken
PROPERTIES RequestsEnd
CHECK_DEADLOCK FALSE
