\* Three requests of one user, with two profiles and two contents of the job.
SPECIFICATION Spec
CONSTANTS
    u1 = u1  r1 = r1  r2 = r2  r3 = r3  p1 = p1  p2 = p2  none = none
    User = {u1}
    Request = {r1, r2, r3}
    Profile = {p1, p2}
    Owner <- OwnerOf
    Config <- Configs
    Content <- Contents
    Label = {"saved", "applied"}
    Note = {"x", "y"}
    None = none
INVARIANTS SentOnce ExclusionsAbsolute FeedbackIsLast
SYMMETRY Symmetry
CHECK_DEADLOCK FALSE
