----------------------------- MODULE SourceRuns -----------------------------
(***************************************************************************)
(* What "one active run per source" promises: a run of a source begins     *)
(* only when no other run of it is active, gets one outcome or is given up *)
(* (at once, if its starter fails), and disappears only together with all  *)
(* the runs of its source.                                                 *)
(***************************************************************************)
CONSTANTS Run, Source, SourceOf

VARIABLE phase      \* phase[r]: what has become of run r

Outcome == {"succeeded", "partial", "failed"}

Init == phase = [r \in Run |-> "new"]

Begin(r) ==
    /\ phase[r] = "new"
    /\ \A o \in Run : SourceOf[o] = SourceOf[r] => phase[o] # "active"
    /\ \E p \in {"active", "dropped"} : phase' = [phase EXCEPT ![r] = p]

End(r) ==
    /\ phase[r] = "active"
    /\ \E o \in Outcome \cup {"dropped"} : phase' = [phase EXCEPT ![r] = o]

\* The sources in gone are deleted with every run they had.
Delete(gone) ==
    phase' = [r \in Run |->
                IF SourceOf[r] \in gone /\ phase[r] # "new" THEN "deleted" ELSE phase[r]]

Next ==
    \/ \E r \in Run : Begin(r) \/ End(r)
    \/ \E gone \in SUBSET Source : Delete(gone)

Spec == Init /\ [][Next]_phase
=============================================================================
