----------------------------- MODULE JobLifecycle -----------------------------
(***************************************************************************)
(* What the dispatch of jobs promises, seen from one job: it is handed to  *)
(* an agent once, its script is started once at most and only after that,  *)
(* and the result recorded for it is final and, when it says success, that *)
(* of a script that was started.                                           *)
(***************************************************************************)
EXTENDS Naturals

CONSTANT Jobs

VARIABLES
  status,   \* per job: the status column, "absent" before the job is made
  starts    \* per job: how often its script was started

Results == {"succeeded", "failed", "cancelled"}

Init ==
  /\ status = [j \in Jobs |-> "absent"]
  /\ starts = [j \in Jobs |-> 0]

Move(j, from, to) == status[j] = from /\ status' = [status EXCEPT ![j] = to]

Make(j) == Move(j, "absent", "pending") /\ UNCHANGED starts

HandOver(j) == Move(j, "pending", "running") /\ UNCHANGED starts

Start(j) ==
  /\ status[j] = "running"
  /\ starts[j] = 0
  /\ starts' = [starts EXCEPT ![j] = 1]
  /\ UNCHANGED status

Finish(j, result) ==
  /\ Move(j, "running", result)
  /\ result = "succeeded" => starts[j] = 1
  /\ UNCHANGED starts

Next ==
  \E j \in Jobs :
    Make(j) \/ HandOver(j) \/ Start(j) \/ \E result \in Results : Finish(j, result)

Spec == Init /\ [][Next]_<<status, starts>>
===============================================================================
