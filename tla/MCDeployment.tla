---------------------------- MODULE MCDeployment ----------------------------
EXTENDS Deployment

CONSTANTS b1, d1, d2, t1, t2, none, empty

OneImage == [d \in Deploy |-> "app"]
OwnTag   == [d \in Deploy |-> IF d = d1 THEN t1 ELSE t2]
Schemas  == [t \in Tag |-> IF t = t1 THEN 1 ELSE 2]

\* Once two runs have begun in one second, their files are beyond every
\* property: what they do then is not followed.
OneRunASecond == shared = {}
=============================================================================
