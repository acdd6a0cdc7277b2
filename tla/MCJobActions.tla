---------------------------- MODULE MCJobActions ----------------------------
EXTENDS JobActions, TLC

CONSTANTS u1, r1, r2, r3, p1, p2, none

OwnerOf == [p \in Profile |-> u1]

\* Both profiles ask for a skill; the second excludes a term, and is content
\* with any score.
Preferences(excluded, minimum) ==
    [titles |-> {}, must |-> {"python"}, nice |-> {}, exclusions |-> excluded,
     locations |-> {}, companies |-> {}, minimum |-> minimum]
Configs == [p \in Profile |-> IF p = p1 THEN Preferences({}, 40) ELSE Preferences({"unpaid"}, 0)]

\* The second content is excluded by the second profile, and the first one is not.
Posting(hash, terms) ==
    [title |-> {}, description |-> terms, locations |-> {}, company |-> "acme", hash |-> hash]
Contents == {Posting("a", {"python"}), Posting("b", {"unpaid"})}

Symmetry == Permutations(Request)
=============================================================================
