-------------------------- MODULE JobLifecycleProofs --------------------------
(***************************************************************************)
(* What follows from JobLifecycle alone, and so holds of whatever is shown *)
(* to implement it.                                                        *)
(***************************************************************************)
EXTENDS JobLifecycle, TLAPS

\* How often a script has been started, given what its job says of itself.
StartedAsToldInv ==
  \A j \in Jobs :
    /\ status[j] \in {"absent", "pending"} => starts[j] = 0
    /\ status[j] = "succeeded" => starts[j] = 1
    /\ starts[j] \in {0, 1}

Typed == DOMAIN status = Jobs /\ DOMAIN starts = Jobs

\* A script is started once at most, not before its job is handed over, and was
\* started if the job says that it succeeded.
THEOREM StartedAsTold == Spec => []StartedAsToldInv
<1>1. Init => StartedAsToldInv /\ Typed
  BY DEF Init, StartedAsToldInv, Typed
<1>2. StartedAsToldInv /\ Typed /\ [Next]_<<status, starts>> => StartedAsToldInv' /\ Typed'
  <2> SUFFICES ASSUME StartedAsToldInv, Typed, Next
               PROVE  StartedAsToldInv' /\ Typed'
    BY DEF StartedAsToldInv, Typed
  <2>1. PICK j \in Jobs : \/ Make(j) \/ HandOver(j) \/ Start(j)
                          \/ \E result \in Results : Finish(j, result)
    BY DEF Next
  <2>2. /\ \E to : status' = [status EXCEPT ![j] = to] \/ status' = status
        /\ starts' = [starts EXCEPT ![j] = 1] \/ starts' = starts
    BY <2>1 DEF Make, HandOver, Start, Finish, Move
  <2>3. /\ Typed'
        /\ \A i \in Jobs \ {j} : status'[i] = status[i] /\ starts'[i] = starts[i]
    <3>1. DOMAIN status' = Jobs /\ \A i \in Jobs \ {j} : status'[i] = status[i]
      BY <2>2 DEF Typed
    <3>2. DOMAIN starts' = Jobs /\ \A i \in Jobs \ {j} : starts'[i] = starts[i]
      BY <2>2 DEF Typed
    <3> QED
      BY <3>1, <3>2 DEF Typed
  <2>4. /\ status'[j] \in {"absent", "pending"} => starts'[j] = 0
        /\ status'[j] = "succeeded" => starts'[j] = 1
        /\ starts'[j] \in {0, 1}
    BY <2>1 DEF StartedAsToldInv, Typed, Make, HandOver, Start, Finish, Move, Results
  <2> QED
    BY <2>3, <2>4 DEF StartedAsToldInv
<1> QED
  BY <1>1, <1>2, PTL DEF Spec
===============================================================================
