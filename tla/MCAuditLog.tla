----------------------------- MODULE MCAuditLog -----------------------------
EXTENDS AuditLog, TLC

CONSTANTS w1, w2, none, mixed

Events == 1 .. 3

Symmetry == Permutations(Sweep)
=============================================================================
