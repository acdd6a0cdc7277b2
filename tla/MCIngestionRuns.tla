-------------------------- MODULE MCIngestionRuns --------------------------
(***************************************************************************)
(* Small instances of IngestionRuns.                                       *)
(***************************************************************************)
EXTENDS IngestionRuns, TLC

CONSTANTS s1, u1, r1, r2, r3, w1, w2

\* One user owns the source.
OwnerU1 == [s \in Source |-> u1]

\* Every run belongs to s1.
RunsOfS1 == [r \in Run |-> s1]

\* Runs of one source are interchangeable, and so are processes of a kind.
Interchangeable == Permutations(Run) \cup Permutations(Worker) \cup Permutations(Scheduler)
=============================================================================
