--------------------------- MODULE OccurrenceLedger ---------------------------
(***************************************************************************)
(* What the scheduler promises to the rest of the system, with nothing of  *)
(* how it keeps the promise: a ledger of the work it has handed out.  Work *)
(* is never withdrawn or changed; an occurrence of a schedule is handed    *)
(* out once at most and never before its time; the work of one transaction *)
(* appears all at once and holds each schedule once.                       *)
(***************************************************************************)
EXTENDS Integers

CONSTANTS
  Schedules,   \* the schedules
  Agents,      \* whom work is for
  MaxClock     \* bound: the last instant of a behaviour

VARIABLES
  work,   \* the work handed out so far
  time    \* the current instant

Entry == [xid : Nat, sched : Schedules, for : Nat, agent : Agents,
          via : {"tick", "manual"}]

Init == work = {} /\ time = 0

Pass == time < MaxClock /\ time' = time + 1 /\ UNCHANGED work

\* The entries a step adds: one transaction, of which nothing is in the ledger.
Posted(new) ==
  /\ work' = work \union new
  /\ new # {}
  /\ new \subseteq Entry
  /\ \A e \in new : e.for <= time
  /\ \A e, f \in new : e.xid = f.xid
  /\ \A e \in new, f \in work : e.xid # f.xid
  /\ UNCHANGED time

\* Occurrences that have come due and are in the ledger for the first time.
Fire ==
  LET new == work' \ work
  IN  /\ Posted(new)
      /\ \A e \in new : e.via = "tick"
      /\ \A e, f \in new : e.sched = f.sched => e = f
      /\ \A e \in new, f \in work :
           f.via = "tick" => e.sched # f.sched \/ e.for # f.for

\* Work somebody asked for: one entry, at any time, of any schedule.
Manual ==
  LET new == work' \ work
  IN  /\ Posted(new)
      /\ \A e \in new : e.via = "manual"
      /\ \A e, f \in new : e = f

Next == Pass \/ Fire \/ Manual

Spec == Init /\ [][Next]_<<work, time>>

AtMostOnce ==
  \A e, f \in work :
    e.via = "tick" /\ f.via = "tick" /\ e.sched = f.sched /\ e.for = f.for => e = f
===============================================================================
