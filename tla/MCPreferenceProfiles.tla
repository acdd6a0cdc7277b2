------------------------ MODULE MCPreferenceProfiles ------------------------
EXTENDS PreferenceProfiles

CONSTANTS u1, c1, c2, c3, d1, d2

\* Everybody asks for the same user.
UserOfOne == [c \in Process |-> u1]
=============================================================================
