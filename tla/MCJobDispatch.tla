---------------------------- MODULE MCJobDispatch ----------------------------
(***************************************************************************)
(* Instances of JobDispatch: two processes under the identity of agent 1,  *)
(* a job of agent 2, which nobody serves, and jobs of agent 1 that are     *)
(* claimed in another order than they were made.                           *)
(***************************************************************************)
EXTENDS JobDispatch, TLC

CONSTANTS p1, p2

MCAgentOfJob == [j \in Jobs |-> IF j = 2 THEN 2 ELSE 1]
MCScheduledFor == [j \in Jobs |-> IF j = 1 THEN 1 ELSE 0]
MCIdentity == [p \in Processes |-> 1]
==============================================================================
