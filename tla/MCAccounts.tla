----------------------------- MODULE MCAccounts -----------------------------
EXTENDS Accounts

CONSTANTS u1, u2, r1, r2, r3, member_role, admin_role

\* All requests are about one address, or r1 is about another one, which
\* becomes an administrator.
NamingOneOrBoth == {[r \in Request |-> u1], [r \in Request |-> IF r = r1 THEN u2 ELSE u1]}
RolesOfBoth == [u \in User |-> IF u = u2 THEN <<member_role, admin_role>> ELSE <<member_role>>]
AllFlags == Flag
MayAnything == [r \in Request |-> Op]
=============================================================================
