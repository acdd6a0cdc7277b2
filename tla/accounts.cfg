\* Three requests in any order and role, for one address or two.
SPECIFICATION Spec
CONSTANTS
    u1 = u1  u2 = u2  r1 = r1  r2 = r2  r3 = r3 
    member_role = member_role  admin_role = admin_role
    User = {u1, u2}
    Request = {r1, r2, r3}
    Naming <- NamingOneOrBoth
    Before = {u1}
    May <- MayAnything
    Role = {member_role, admin_role}
    RolesOf <- RolesOfBoth
    Enabled <- AllFlags
    MaxAttempts = 2
    LockFor = 1
    CodeLife = 1
    MaxNow = 1
INVARIANTS LockedOnlyAfterFailures CounterIsStreak CodeUsedOnce AccountHasRole SuccessIsCommitted
CHECK_DEADLOCK FALSE
