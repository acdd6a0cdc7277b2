----------------------------- MODULE RuleEngine -----------------------------
(***************************************************************************)
(* evaluate_rules: how a job is scored against preferences.  A text is the *)
(* set of the terms that occur in it, letter case aside.                   *)
(***************************************************************************)
EXTENDS Integers, FiniteSets

\* A job: title, description, locations (terms), company, hash.
\* Preferences: titles, must, nice, exclusions, locations, companies, minimum.

Text(job) == job.title \cup job.description

Concerns(job, p) == p.exclusions \cap Text(job)

\* Skills asked for, and of those the ones found; a skill may be in both lists.
Wanted(p) == Cardinality(p.must) + Cardinality(p.nice)

Matched(job, p) == Cardinality(p.must \cap Text(job)) + Cardinality(p.nice \cap Text(job))

AtLeastOne(n) == IF n < 1 THEN 1 ELSE n

AtMost40(n) == IF n < 40 THEN n ELSE 40

Points(condition, n) == IF condition THEN n ELSE 0

Skills(job, p) == AtMost40((Matched(job, p) * 40) \div AtLeastOne(Wanted(p)))

Role(job, p) == Points(p.titles \cap job.title # {}, 10)

Location(job, p) == Points(p.locations \cap job.locations # {}, 15)

Company(job, p) == Points(job.company \in p.companies, 5)

Total(job, p) == Role(job, p) + Location(job, p) + Skills(job, p) + Company(job, p)

\* A variant, no part of the specification: an exclusion that only takes the
\* score away.
EvaluateScoreOnly(job, p) ==
    LET score == Points(Concerns(job, p) = {}, Total(job, p)) IN
    [score |-> score, decision |-> IF score >= p.minimum THEN "notify" ELSE "review"]

Evaluate(job, p) ==
    IF Concerns(job, p) # {} THEN [score |-> 0, decision |-> "reject"]
    ELSE [score |-> Total(job, p),
          decision |-> IF Total(job, p) >= p.minimum THEN "notify" ELSE "review"]
=============================================================================
