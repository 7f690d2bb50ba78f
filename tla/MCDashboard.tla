---------------------------- MODULE MCDashboard ----------------------------
(* Dashboard for TLC: three modules, two interfaces, two browsers.         *)
EXTENDS Dashboard, TLC

CONSTANTS m1, m2, m3, i1, i2, c1, c2, p1, p2

MCModules == {m1, m2, m3}
MCInterfaces == {i1, i2}
MCClients == {c1, c2}
MCPasswords == {p1, p2}

\* All manifests that provide and require one interface at most, imported in a loop
\* as by uvicorn: m1, whose router raises, and m2, which has a collector as m1 does
\* and whose factory may raise, take every role in turn.
Assignments == [MCModules -> {{}, {i1}, {i2}}]
SmallManifests ==
    {[provides |-> p, requires |-> r, raising |-> f, broken |-> {m1}, collectors |-> {m1, m2},
      loopAtImport |-> TRUE] : p \in Assignments, r \in Assignments, f \in {{}, {m2}}}

\* One with a module that provides two and one that requires two, without a loop.
WideManifests ==
    {[provides |-> [m \in MCModules |-> IF m = m1 THEN {i1, i2} ELSE {}],
      requires |-> [m \in MCModules |-> CASE m = m1 -> {} [] m = m2 -> {i1} [] m = m3 -> {i1, i2}],
      raising |-> {}, broken |-> {m3}, collectors |-> {m2}, loopAtImport |-> FALSE]}

MCSystems == SmallManifests \cup WideManifests

Symmetry == Permutations(MCClients) \cup Permutations(MCPasswords)
=============================================================================
