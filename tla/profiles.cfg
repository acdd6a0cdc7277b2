\* Three updates and two deletions of one user, with bearer tokens; in local
\* mode, where X-User-ID creates the user on the fly, the updates alone.
SPECIFICATION FairLastingSpec
CONSTANTS
    u1 = u1  c1 = c1  c2 = c2  c3 = c3  d1 = d1  d2 = d2
    User = {u1}
    Request = {c1, c2, c3}
    Deletion = {d1, d2}
    UserOf <- UserOfOne
    NoRow = NoRow
INVARIANTS TypeOK LatestIsActive
PROPERTIES EveryRequestAnswered ImplementsVersionedProfile
CHECK_DEADLOCK FALSE
