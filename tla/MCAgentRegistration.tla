------------------------- MODULE MCAgentRegistration -------------------------
(***************************************************************************)
(* Instances of AgentRegistration: e1 and e2 want the same agent, e3       *)
(* another one on the same host, e4 one of that name on another host.      *)
(***************************************************************************)
EXTENDS AgentRegistration

CONSTANTS e1, e2, e3, e4, hostA, hostB, nameA, nameB

MCHostOf == [e \in Enrolments |-> IF e = e4 THEN hostB ELSE hostA]
MCNameOf == [e \in Enrolments |-> IF e = e3 THEN nameB ELSE nameA]
==============================================================================
