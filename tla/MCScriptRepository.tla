------------------------- MODULE MCScriptRepository -------------------------
(***************************************************************************)
(* Instances of ScriptRepository: two organizations with a script and an   *)
(* agent each, and a second script in the first of them.                   *)
(***************************************************************************)
EXTENDS ScriptRepository, TLC

CONSTANTS
  org1, org2, s1, s2, s3, d1, a1, a2, v1, v2, l1, l2, n1, n2, j1

First == {s1, s2, d1, a1}

OrgOf(key) == IF key \in First THEN org1 ELSE org2

MCOrgOfScript == [s \in Scripts |-> OrgOf(s)]
MCOrgOfSchedule == [d \in Schedules |-> OrgOf(d)]
MCOrgOfAgent == [a \in Agents |-> OrgOf(a)]

\* Versions, labels and names are alike.
RepositorySymmetry ==
  Permutations(Versions) \union Permutations(Labels) \union Permutations(Names)
==============================================================================
