---------------------------- MODULE MCJobCatalog ----------------------------
EXTENDS JobCatalog

CONSTANTS s1, s2, x1, x2, j1, j2

OneCompany == [s \in Source |-> "acme"]

\* x1 ingests s1, x2 ingests s2.
SourceOfExecution == [x \in Execution |-> IF x = x2 THEN s2 ELSE s1]

P(ext, url, title, text) == [ext |-> ext, url |-> url, title |-> title, text |-> text]

One(p) == [records |-> <<p>>, malformed |-> 0]

\* A job; the same URL under another external id and with another description;
\* another URL and the other description under the same external id.
Base == P("e1", "u1", "t1", "d1")
Mirror == P("e2", "u1", "t1", "d2")
Moved == P("e1", "u2", "t1", "d2")
Malformed == [records |-> <<>>, malformed |-> 1]

Postings == {Base, Mirror, Moved}
PagesOfEdits == [s \in Source |-> IF s = s1 THEN {One(Base), One(Moved), Malformed}
                                            ELSE {One(Mirror), EmptyPage}]
=============================================================================
