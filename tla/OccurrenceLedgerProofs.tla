------------------------ MODULE OccurrenceLedgerProofs ------------------------
(***************************************************************************)
(* What follows from OccurrenceLedger alone, and so holds of whatever is   *)
(* shown to implement it.                                                  *)
(***************************************************************************)
EXTENDS OccurrenceLedger, TLAPS

\* An occurrence of a schedule is in the ledger once at most (what the unique
\* constraint of schedule_runs is there for).
THEOREM OccurrencesOnce == Spec => []AtMostOnce
<1>1. Init => AtMostOnce
  BY DEF Init, AtMostOnce
<1>2. AtMostOnce /\ [Next]_<<work, time>> => AtMostOnce'
  <2> SUFFICES ASSUME AtMostOnce, [Next]_<<work, time>>,
                      NEW e \in work', NEW f \in work',
                      e.via = "tick", f.via = "tick", e.sched = f.sched, e.for = f.for
               PROVE  e = f
    BY DEF AtMostOnce
  <2>1. CASE e \in work /\ f \in work
    BY <2>1 DEF AtMostOnce
  <2>2. CASE e \notin work \/ f \notin work
    <3>1. Fire
      BY <2>2 DEF Next, Pass, Manual
    <3> QED
      BY <2>2, <3>1 DEF Fire
  <2> QED
    BY <2>1, <2>2
<1> QED
  BY <1>1, <1>2, PTL DEF Spec
===============================================================================
