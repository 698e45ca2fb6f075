--------------------------- MODULE JobDispatchProofs ---------------------------
(***************************************************************************)
(* Proofs about JobDispatch, for any jobs, agents, processes, handlers and *)
(* bounds.                                                                 *)
(***************************************************************************)
EXTENDS JobDispatch, FaultAccounting, FiniteSetTheorems, WellFoundedInduction, TLAPS

\* Handlers and processes agree: who waits for a handler waits for that one
\* only and for what it does, and a result comes with its job.
Linked ==
  \A h \in Handlers :
    /\ handler[h].op = "free" => handler[h].at = "arrived" /\ handler[h].client = NoProcess
    /\ handler[h].op = "submit" => handler[h].job # NoJob
    /\ handler[h].client # NoProcess =>
         /\ handler[h].op = "heartbeat" => proc[handler[h].client].at = "beating"
         /\ handler[h].op = "claim" => proc[handler[h].client].at = "claiming"
         /\ handler[h].op = "submit" => proc[handler[h].client].at = "submitting"
         /\ handler[h].agent = Identity[handler[h].client]
         /\ handler[h].op = "submit" => handler[h].job = proc[handler[h].client].job
         /\ \A g \in Handlers : handler[g].client = handler[h].client => g = h

\* A claim has a job from its SELECT on: one of its agent, that it alone has
\* locked and that is still pending.
ClaimsFit ==
  \A h \in Handlers :
    /\ handler[h].op = "claim" /\ handler[h].at \in {"arrived", "admitted"} =>
         handler[h].job = NoJob
    /\ handler[h].op = "claim" /\ handler[h].job # NoJob =>
         AgentOfJob[handler[h].job] = handler[h].agent
    /\ handler[h].at = "locked" =>
         /\ handler[h].op = "claim"
         /\ handler[h].job # NoJob
         /\ job[handler[h].job] = "pending"
         /\ \A g \in Handlers :
              handler[g].at = "locked" /\ handler[g].job = handler[h].job => g = h

\* A process has a job from the response to its claim until its result is sent.
JobsFit ==
  \A p \in Processes :
    /\ proc[p].at = "ready" => proc[p].job = NoJob
    /\ proc[p].at \in {"received", "executing", "finished", "submitting"} =>
         /\ proc[p].job # NoJob
         /\ Identity[p] = AgentOfJob[proc[p].job]
         /\ job[proc[p].job] \notin {"absent", "pending"}

\* A job is in one place: in one request, with one process, or with a process
\* and in its own submission.
OneCarrier ==
  \A j \in Jobs :
    /\ \A h, g \in Handlers : Carries(h, j) /\ Carries(g, j) => h = g
    /\ \A p, q \in Processes : Holds(p, j) /\ Holds(q, j) => p = q
    /\ \A h \in Handlers, p \in Processes :
         Carries(h, j) /\ Holds(p, j) => handler[h].client = p /\ Reporting(h)

\* A job in a place is running, and was started if it comes from a script.
CarriedIsRunning ==
  /\ \A h \in Handlers, j \in Jobs : Carries(h, j) =>
       /\ job[j] = "running"
       /\ Handing(h) => ran[j] = 0
       /\ Reporting(h) /\ handler[h].result = "succeeded" => ran[j] = 1
  /\ \A p \in Processes, j \in Jobs : Holds(p, j) =>
       /\ proc[p].at # "submitting" => job[j] = "running"
       /\ proc[p].at = "received" => ran[j] = 0
       /\ proc[p].at = "executing" => ran[j] = 1
       /\ proc[p].at \in {"finished", "submitting"} /\ proc[p].result = "succeeded" =>
            ran[j] = 1

\* No script is started twice, nor before its job is handed over.
StartedOnce ==
  \A j \in Jobs : ran[j] <= 1 /\ (job[j] \in {"absent", "pending"} => ran[j] = 0)

IInv ==
  /\ TypeOK
  /\ Linked
  /\ ClaimsFit
  /\ JobsFit
  /\ OneCarrier
  /\ CarriedIsRunning
  /\ StartedOnce
  /\ ExecutionsMatchJobs

-----------------------------------------------------------------------------
\* A set of numbers has a smallest one.
LEMMA SmallestOf ==
  ASSUME NEW S, S \subseteq Nat, S # {}
  PROVE  \E n \in S : \A m \in S : n <= m
<1> DEFINE Less == {ss \in Nat \X Nat : ss[1] < ss[2]}
<1>1. IsWellFoundedOn(Less, Nat)
  BY NatLessThanWellFounded DEF OpToRel
<1>2. PICK n \in S : \A m \in S : <<m, n>> \notin Less
  <2> HIDE DEF Less
  <2> QED
    BY <1>1, WFMin
<1>3. \A m \in S : ~(m < n)
  BY <1>2
<1> QED
  BY <1>3

\* ORDER BY ... LIMIT 1 finds a row if there is one.
LEMMA FirstIsOne ==
  ASSUME NEW S, S \subseteq Jobs, S # {}
  PROVE  FirstOf(S) \in S
<1>1. PICK least \in {ScheduledFor[j] : j \in S} :
        \A other \in {ScheduledFor[j] : j \in S} : least <= other
  <2>1. {ScheduledFor[j] : j \in S} \subseteq Nat
    BY DispatchAssumption
  <2>2. PICK j \in S : TRUE
    OBVIOUS
  <2>3. ScheduledFor[j] \in {ScheduledFor[i] : i \in S}
    OBVIOUS
  <2> QED
    BY <2>1, <2>3, SmallestOf
<1>2. PICK j \in {i \in S : ScheduledFor[i] = least} :
        \A i \in {i \in S : ScheduledFor[i] = least} : j <= i
  <2>1. {i \in S : ScheduledFor[i] = least} \subseteq Nat
    BY DispatchAssumption
  <2>2. {i \in S : ScheduledFor[i] = least} # {}
    BY <1>1
  <2> QED
    BY <2>1, <2>2, SmallestOf
<1>3. ASSUME NEW i \in S
      PROVE  \/ ScheduledFor[j] < ScheduledFor[i]
             \/ ScheduledFor[j] = ScheduledFor[i] /\ j <= i
  <2>1. ScheduledFor[j] = least /\ least <= ScheduledFor[i]
    BY <1>1, <1>2
  <2>2. ScheduledFor[i] \in Nat /\ least \in Nat
    BY DispatchAssumption
  <2>3. ScheduledFor[i] = least => j <= i
    BY <1>2
  <2> QED
    BY <2>1, <2>2, <2>3
<1>4. \E first \in S : \A i \in S :
        \/ ScheduledFor[first] < ScheduledFor[i]
        \/ ScheduledFor[first] = ScheduledFor[i] /\ first <= i
  BY <1>2, <1>3
<1> QED
  BY <1>4 DEF FirstOf

\* What a handler with nothing to do and an idle process look like.
LEMMA RestFacts ==
  /\ Free \in Handler
  /\ Free.op = "free" /\ Free.at = "arrived" /\ Free.client = NoProcess /\ Free.job = NoJob
  /\ Idle \in Process
  /\ Idle.at = "idle" /\ Idle.job = NoJob
<1>1. (CHOOSE a \in Agents : TRUE) \in Agents
  BY DispatchAssumption
<1> QED
  BY <1>1 DEF Free, Handler, Idle, Process, Results, Outcomes

\* There is nothing to go wrong at the start.
LEMMA InitIInv == Init => IInv
<1> SUFFICES ASSUME Init PROVE IInv
  OBVIOUS
<1>1. /\ \A h \in Handlers : /\ handler[h].op = "free" /\ handler[h].at = "arrived"
                              /\ handler[h].client = NoProcess /\ handler[h].job = NoJob
      /\ \A p \in Processes : proc[p].at = "idle" /\ proc[p].job = NoJob
      /\ \A j \in Jobs : job[j] = "absent" /\ ran[j] = 0
      /\ execs = {}
  BY RestFacts DEF Init
<1>2. TypeOK
  BY RestFacts, DispatchAssumption DEF Init, TypeOK, Statuses
<1>3. Linked /\ ClaimsFit /\ JobsFit /\ StartedOnce
  BY <1>1 DEF Linked, ClaimsFit, JobsFit, StartedOnce
<1>4. OneCarrier /\ CarriedIsRunning
  BY <1>1 DEF OneCarrier, CarriedIsRunning, Carries, Handing, Reporting, Holds
<1>5. ExecutionsMatchJobs
  BY <1>1 DEF ExecutionsMatchJobs, Of
<1> QED
  BY <1>2, <1>3, <1>4, <1>5 DEF IInv

-----------------------------------------------------------------------------
\* A job is made, an agent is disabled, or nothing happens.
LEMMA OutsideKeeps ==
  ASSUME IInv,
         (\E j \in Jobs : CreateJob(j)) \/ (\E a \in Agents : Disable(a)) \/ UNCHANGED vars
  PROVE  IInv'
<1>1. /\ UNCHANGED <<execs, handler, proc, ran, lost, crashes>>
      /\ disabled' \subseteq Revocable
  BY DEF CreateJob, Disable, vars, IInv, TypeOK
<1>2. /\ job' \in [Jobs -> Statuses]
      /\ \A j \in Jobs : job'[j] = job[j] \/ (job[j] = "absent" /\ job'[j] = "pending")
  <2>1. CASE job' = job
    BY <2>1 DEF IInv, TypeOK
  <2>2. ASSUME NEW j \in Jobs, CreateJob(j)
        PROVE  job[j] = "absent" /\ job' = [job EXCEPT ![j] = "pending"]
    BY <2>2 DEF CreateJob
  <2> QED
    BY <2>1, <2>2 DEF Disable, vars, IInv, TypeOK, Statuses
<1>3. TypeOK' /\ Linked'
  BY <1>1, <1>2 DEF IInv, TypeOK, Linked
<1>4. ClaimsFit'
  <2>1. \A h \in Handlers : handler[h].at = "locked" => handler[h].job \in Jobs
    BY DEF IInv, ClaimsFit, TypeOK, Handler
  <2> QED
    BY <1>1, <1>2, <2>1 DEF IInv, ClaimsFit
<1>5. JobsFit'
  <2>1. \A p \in Processes : proc[p].job # NoJob => proc[p].job \in Jobs
    BY DEF IInv, TypeOK, Process
  <2> QED
    BY <1>1, <1>2, <2>1 DEF IInv, JobsFit
<1>6. OneCarrier'
  BY <1>1 DEF IInv, OneCarrier, Carries, Handing, Reporting, Holds
<1>7. CarriedIsRunning'
  BY <1>1, <1>2 DEF IInv, CarriedIsRunning, Carries, Handing, Reporting, Holds
<1>8. StartedOnce'
  BY <1>1, <1>2 DEF IInv, StartedOnce
<1>9. ExecutionsMatchJobs'
  BY <1>1, <1>2 DEF IInv, ExecutionsMatchJobs, Of
<1> QED
  BY <1>3, <1>4, <1>5, <1>6, <1>7, <1>8, <1>9 DEF IInv

\* Handlers end or lose their clients, and processes begin a new round: less
\* is under way than before.
LEMMA LessKeeps ==
  ASSUME IInv,
         handler' \in [Handlers -> Handler],
         \A h \in Handlers :
           \/ handler'[h] = Free
           \/ /\ handler'[h].client = NoProcess
              /\ handler'[h].op = handler[h].op /\ handler'[h].at = handler[h].at
              /\ handler'[h].agent = handler[h].agent /\ handler'[h].job = handler[h].job
              /\ handler'[h].result = handler[h].result
              /\ handler[h].client # NoProcess => proc'[handler[h].client].job = NoJob
           \/ /\ handler'[h] = handler[h]
              /\ handler[h].client # NoProcess =>
                   proc'[handler[h].client] = proc[handler[h].client],
         proc' \in [Processes -> Process],
         \A p \in Processes :
           \/ proc'[p].at \in {"idle", "ready"} /\ proc'[p].job = NoJob
           \/ proc'[p] = proc[p],
         lost' \in 0..MaxLost, crashes' \in 0..MaxCrashes,
         UNCHANGED <<job, execs, disabled, ran>>
  PROVE  IInv'
<1>1. \A h \in Handlers : handler'[h].client # NoProcess =>
        handler'[h] = handler[h] /\ proc'[handler[h].client] = proc[handler[h].client]
  BY RestFacts
<1>2. TypeOK'
  BY DEF IInv, TypeOK
<1>3. Linked'
  <2>1. ASSUME NEW h \in Handlers
        PROVE  /\ handler'[h].op = "free" =>
                    handler'[h].at = "arrived" /\ handler'[h].client = NoProcess
               /\ handler'[h].op = "submit" => handler'[h].job # NoJob
    BY RestFacts DEF IInv, Linked
  <2>2. ASSUME NEW h \in Handlers, handler'[h].client # NoProcess
        PROVE  \A g \in Handlers : handler'[g].client = handler'[h].client => g = h
    BY <1>1, <2>2 DEF IInv, Linked
  <2>3. ASSUME NEW h \in Handlers, handler'[h].client # NoProcess
        PROVE  /\ handler'[h].op = "heartbeat" => proc'[handler'[h].client].at = "beating"
               /\ handler'[h].op = "claim" => proc'[handler'[h].client].at = "claiming"
               /\ handler'[h].op = "submit" => proc'[handler'[h].client].at = "submitting"
               /\ handler'[h].agent = Identity[handler'[h].client]
               /\ handler'[h].op = "submit" =>
                    handler'[h].job = proc'[handler'[h].client].job
    BY <1>1, <2>3 DEF IInv, Linked
  <2> QED
    BY <2>1, <2>2, <2>3 DEF Linked
<1>4. ClaimsFit'
  <2>1. \A h \in Handlers :
          \/ handler'[h].op = "free" /\ handler'[h].at = "arrived"
          \/ /\ handler'[h].op = handler[h].op /\ handler'[h].at = handler[h].at
             /\ handler'[h].agent = handler[h].agent /\ handler'[h].job = handler[h].job
    BY RestFacts
  <2> QED
    BY <2>1 DEF IInv, ClaimsFit
<1>5. JobsFit'
  BY DEF IInv, JobsFit
<1>6. /\ \A h \in Handlers : Handing(h)' =>
           Handing(h) /\ handler'[h].job = handler[h].job
      /\ \A h \in Handlers : Reporting(h)' =>
           /\ Reporting(h) /\ handler'[h].job = handler[h].job
           /\ handler'[h].result = handler[h].result
           /\ handler'[h].client \in {NoProcess, handler[h].client}
  BY RestFacts DEF Handing, Reporting
<1>7. \A p \in Processes, j \in Jobs : Holds(p, j)' => Holds(p, j) /\ proc'[p] = proc[p]
  BY DEF Holds
<1>8. \A h \in Handlers, j \in Jobs : Carries(h, j)' => Carries(h, j)
  BY <1>6 DEF Carries
<1>9. OneCarrier'
  <2>1. ASSUME NEW j \in Jobs, NEW h \in Handlers, NEW p \in Processes,
               Carries(h, j)', Holds(p, j)'
        PROVE  handler'[h].client = p /\ Reporting(h)'
    <3>1. handler[h].client = p /\ Reporting(h) /\ proc'[p] = proc[p] /\ Holds(p, j)
      BY <1>7, <1>8, <2>1 DEF IInv, OneCarrier
    <3>2. Reporting(h)'
      BY <1>6, <2>1, <3>1 DEF Carries, Handing, Reporting
    <3>3. p # NoProcess /\ proc'[p].job # NoJob
      BY <2>1, DispatchAssumption DEF Holds
    <3>4. handler'[h] = handler[h]
      BY <3>1, <3>2, <3>3, RestFacts DEF Reporting
    <3> QED
      BY <3>1, <3>2, <3>4
  <2> QED
    BY <1>7, <1>8, <2>1 DEF IInv, OneCarrier
<1>10. CarriedIsRunning'
  BY <1>6, <1>7, <1>8 DEF IInv, CarriedIsRunning
<1>11. StartedOnce' /\ ExecutionsMatchJobs'
  BY DEF IInv, StartedOnce, ExecutionsMatchJobs, Of
<1> QED
  BY <1>2, <1>3, <1>4, <1>5, <1>9, <1>10, <1>11 DEF IInv

\* A handler goes on, without a change of its job: it has none if it claims.
LEMMA GoesOnKeeps ==
  ASSUME IInv, NEW h \in Handlers, handler[h].op # "free",
         NEW at \in {"admitted", "answered", "refused"},
         at = "admitted" => handler[h].at = "arrived",
         handler[h].op = "claim" => handler[h].job = NoJob,
         handler' = [handler EXCEPT ![h].at = at],
         UNCHANGED <<job, execs, disabled, proc, ran, lost, crashes>>
  PROVE  IInv'
<1>1. /\ handler' \in [Handlers -> Handler]
      /\ handler'[h].at = at
      /\ \A g \in Handlers :
           /\ g # h => handler'[g] = handler[g]
           /\ handler'[g].op = handler[g].op
           /\ handler'[g].client = handler[g].client
           /\ handler'[g].agent = handler[g].agent
           /\ handler'[g].job = handler[g].job
           /\ handler'[g].result = handler[g].result
  <2>1. handler \in [Handlers -> Handler]
    BY DEF IInv, TypeOK
  <2>2. [handler[h] EXCEPT !.at = at] \in Handler
    BY <2>1 DEF Handler
  <2> QED
    BY <2>1, <2>2 DEF Handler
<1>2. TypeOK'
  BY <1>1 DEF IInv, TypeOK
<1>3. Linked' /\ ClaimsFit' /\ JobsFit'
  <2>1. Linked'
    BY <1>1 DEF IInv, Linked
  <2>2. ClaimsFit'
    <3>1. ASSUME NEW g \in Handlers
          PROVE  /\ handler'[g].op = "claim" /\ handler'[g].at \in {"arrived", "admitted"} =>
                      handler'[g].job = NoJob
                 /\ handler'[g].op = "claim" /\ handler'[g].job # NoJob =>
                      AgentOfJob[handler'[g].job] = handler'[g].agent
      BY <1>1 DEF IInv, ClaimsFit
    <3>2. \A g \in Handlers : handler'[g].at = "locked" => handler[g].at = "locked"
      BY <1>1
    <3> QED
      BY <1>1, <3>1, <3>2 DEF IInv, ClaimsFit
  <2>3. JobsFit'
    BY DEF IInv, JobsFit
  <2> QED
    BY <2>1, <2>2, <2>3
<1>4. \A g \in Handlers, j \in Jobs : Carries(g, j)' =>
        /\ Carries(g, j) /\ (Handing(g)' => Handing(g)) /\ (Reporting(g) <=> Reporting(g)')
  <2>1. ASSUME NEW g \in Handlers, NEW j \in Jobs, Carries(g, j)'
        PROVE  handler[g].job = j /\ j # NoJob
    BY <1>1, <2>1, DispatchAssumption DEF Carries
  <2>2. ASSUME NEW g \in Handlers, NEW j \in Jobs, Carries(g, j)', Handing(g)'
        PROVE  Handing(g)
    BY <1>1, <2>1, <2>2 DEF Handing
  <2>3. ASSUME NEW g \in Handlers, Reporting(g)'
        PROVE  Reporting(g)
    BY <1>1, <2>3 DEF Reporting
  <2> QED
    BY <1>1, <2>1, <2>2, <2>3 DEF Carries, Handing, Reporting
<1>5. \A p \in Processes, j \in Jobs : Holds(p, j)' <=> Holds(p, j)
  BY DEF Holds
<1>6. OneCarrier'
  BY <1>1, <1>4, <1>5 DEF IInv, OneCarrier
<1>7. CarriedIsRunning'
  BY <1>1, <1>4, <1>5 DEF IInv, CarriedIsRunning
<1>8. StartedOnce' /\ ExecutionsMatchJobs'
  BY DEF IInv, StartedOnce, ExecutionsMatchJobs, Of
<1> QED
  BY <1>2, <1>3, <1>6, <1>7, <1>8 DEF IInv

\* get_current_agent.
LEMMA AuthenticateKeeps ==
  ASSUME IInv, NEW h \in Handlers, Authenticate(h)
  PROVE  IInv'
<1>1. \/ handler' = [handler EXCEPT ![h].at = "refused"]
      \/ handler' = [handler EXCEPT ![h].at = "admitted"]
  BY DEF Authenticate
<1>2. handler[h].op = "claim" => handler[h].job = NoJob
  BY DEF IInv, ClaimsFit, Authenticate
<1> QED
  BY <1>1, <1>2, GoesOnKeeps DEF Authenticate

\* The whole of heartbeat, and of update_inventory.
LEMMA HeartbeatKeeps ==
  ASSUME IInv, NEW h \in Handlers, Heartbeat(h)
  PROVE  IInv'
BY GoesOnKeeps DEF Heartbeat, Touched

\* The SELECT of a claim: it locks a row, or answers that there is no job.
LEMMA ClaimSelectKeeps ==
  ASSUME IInv, NEW h \in Handlers, ClaimSelect(h)
  PROVE  IInv'
<1> DEFINE found == Claimable(handler[h].agent)
           j == FirstOf(found)
<1>1. /\ handler \in [Handlers -> Handler]
      /\ handler[h].op = "claim" /\ handler[h].at = "admitted" /\ handler[h].job = NoJob
      /\ UNCHANGED <<job, execs, disabled, proc, ran, lost, crashes>>
  BY DEF ClaimSelect, Touched, IInv, TypeOK, ClaimsFit
<1>2. CASE found = {}
  <2>1. handler' = [handler EXCEPT ![h].at = "answered"]
    BY <1>2 DEF ClaimSelect
  <2> QED
    BY <1>1, <2>1, GoesOnKeeps
<1>3. CASE found # {}
  <2>1. /\ j \in Jobs /\ AgentOfJob[j] = handler[h].agent
        /\ job[j] = "pending" /\ ~Locked(j)
    <3>1. j \in found
      BY <1>3, FirstIsOne DEF Claimable
    <3> QED
      BY <3>1 DEF Claimable
  <2>2. handler' = [handler EXCEPT ![h] = [handler[h] EXCEPT !.at = "locked", !.job = j]]
    BY <1>3 DEF ClaimSelect
  <2> HIDE DEF j
  <2>3. [handler[h] EXCEPT !.at = "locked", !.job = j] \in Handler
    BY <1>1, <2>1 DEF Handler
  <2>4. /\ handler' \in [Handlers -> Handler]
        /\ handler'[h].at = "locked" /\ handler'[h].job = j /\ handler'[h].op = "claim"
        /\ handler'[h].agent = handler[h].agent /\ handler'[h].client = handler[h].client
        /\ \A g \in Handlers \ {h} : handler'[g] = handler[g]
    BY <1>1, <2>2, <2>3 DEF Handler
  <2>5. \A g \in Handlers : /\ handler'[g].op = handler[g].op
                            /\ handler'[g].client = handler[g].client
                            /\ handler'[g].agent = handler[g].agent
                            /\ handler[g].op = "submit" => handler'[g].job = handler[g].job
    BY <1>1, <2>4
  <2>6. TypeOK'
    BY <1>1, <2>4 DEF IInv, TypeOK
  <2>7. Linked'
    BY <1>1, <2>4, <2>5 DEF IInv, Linked
  <2>8. ClaimsFit'
    <3>1. \A g \in Handlers \ {h} : handler[g].at = "locked" => handler[g].job # j
      BY <2>1 DEF Locked
    <3>2. j # NoJob
      BY <2>1, DispatchAssumption
    <3> QED
      BY <1>1, <2>1, <2>4, <3>1, <3>2 DEF IInv, ClaimsFit
  <2>9. JobsFit' /\ StartedOnce' /\ ExecutionsMatchJobs'
    BY <1>1 DEF IInv, JobsFit, StartedOnce, ExecutionsMatchJobs, Of
  <2>10. \A g \in Handlers, i \in Jobs : Carries(g, i)' => Carries(g, i) /\ handler'[g] = handler[g]
    BY <2>4 DEF Carries, Handing, Reporting
  <2>11. \A p \in Processes, i \in Jobs : Holds(p, i)' <=> Holds(p, i)
    BY <1>1 DEF Holds
  <2>12. OneCarrier'
    BY <2>10, <2>11 DEF IInv, OneCarrier, Reporting
  <2>13. CarriedIsRunning'
    BY <1>1, <2>10, <2>11 DEF IInv, CarriedIsRunning, Reporting, Handing
  <2> QED
    BY <2>6, <2>7, <2>8, <2>9, <2>12, <2>13 DEF IInv
<1> QED
  BY <1>2, <1>3

\* The COMMIT of a claim: nobody has the job before, since it was pending.
LEMMA ClaimCommitKeeps ==
  ASSUME IInv, NEW h \in Handlers, ClaimCommit(h)
  PROVE  /\ IInv'
         /\ handler[h].job \in Jobs /\ job[handler[h].job] = "pending"
         /\ AgentOfJob[handler[h].job] = handler[h].agent
<1> DEFINE j == handler[h].job
<1>1. /\ handler \in [Handlers -> Handler] /\ job \in [Jobs -> Statuses]
      /\ handler[h].op = "claim" /\ handler[h].at = "locked"
      /\ UNCHANGED <<disabled, proc, ran, lost, crashes>>
  BY DEF ClaimCommit, Touched, IInv, TypeOK, ClaimsFit
<1>2. /\ j \in Jobs /\ j # NoJob /\ job[j] = "pending" /\ AgentOfJob[j] = handler[h].agent
      /\ \A g \in Handlers \ {h} : handler[g].at = "locked" => handler[g].job # j
  BY <1>1 DEF IInv, ClaimsFit, Handler
<1>3. /\ job' \in [Jobs -> Statuses]
      /\ job'[j] = "running"
      /\ \A i \in Jobs \ {j} : job'[i] = job[i]
  BY <1>1, <1>2 DEF ClaimCommit, Statuses
<1>4. handler' = [handler EXCEPT ![h].at = "answered"]
  BY DEF ClaimCommit
<1>5. /\ handler' \in [Handlers -> Handler]
      /\ handler'[h].at = "answered"
      /\ \A g \in Handlers : /\ g # h => handler'[g] = handler[g]
                             /\ handler'[g].op = handler[g].op
                             /\ handler'[g].client = handler[g].client
                             /\ handler'[g].agent = handler[g].agent
                             /\ handler'[g].job = handler[g].job
                             /\ handler'[g].result = handler[g].result
  <2>1. [handler[h] EXCEPT !.at = "answered"] \in Handler
    BY <1>1 DEF Handler
  <2> QED
    BY <1>1, <1>4, <2>1 DEF Handler
<1>6. Of(j) = {} /\ Attempt(j) = 1
  <2>1. Of(j) = {}
    BY <1>2 DEF IInv, ExecutionsMatchJobs
  <2> QED
    BY <2>1, FS_EmptySet DEF Attempt
<1>7. execs' = execs \union {[job |-> j, attempt |-> 1, status |-> "running"]}
  BY <1>6 DEF ClaimCommit
<1> HIDE DEF j
<1>8. TypeOK'
  BY <1>1, <1>2, <1>3, <1>5, <1>7 DEF IInv, TypeOK, Execution, Statuses
<1>9. Linked'
  BY <1>1, <1>5 DEF IInv, Linked
<1>10. ClaimsFit'
  <2>1. \A g \in Handlers : handler'[g].at = "locked" =>
          g # h /\ handler[g].at = "locked" /\ handler[g].job \in Jobs \ {j}
    BY <1>2, <1>5 DEF IInv, ClaimsFit, TypeOK, Handler
  <2>2. ASSUME NEW g \in Handlers
        PROVE  /\ handler'[g].op = "claim" /\ handler'[g].at \in {"arrived", "admitted"} =>
                    handler'[g].job = NoJob
               /\ handler'[g].op = "claim" /\ handler'[g].job # NoJob =>
                    AgentOfJob[handler'[g].job] = handler'[g].agent
    BY <1>5 DEF IInv, ClaimsFit
  <2> QED
    BY <1>3, <1>5, <2>1, <2>2 DEF IInv, ClaimsFit
<1>11. /\ \A g \in Handlers : ~Carries(g, j)
       /\ \A p \in Processes : ~Holds(p, j)
  BY <1>2 DEF IInv, CarriedIsRunning, JobsFit, Holds
<1>12. JobsFit'
  <2>1. \A p \in Processes :
          proc[p].at \in {"received", "executing", "finished", "submitting"} =>
            proc[p].job \in Jobs \ {j}
    BY <1>11 DEF IInv, JobsFit, TypeOK, Process, Holds
  <2> QED
    BY <1>1, <1>3, <2>1 DEF IInv, JobsFit
<1>13. ASSUME NEW g \in Handlers, NEW i \in Jobs, Carries(g, i)'
       PROVE  \/ g = h /\ i = j /\ Handing(h)' /\ ~Reporting(h)'
              \/ i # j /\ Carries(g, i) /\ handler'[g] = handler[g]
  BY <1>1, <1>5, <1>11, <1>13 DEF Carries, Handing, Reporting, j
<1>14. \A p \in Processes, i \in Jobs : Holds(p, i)' => Holds(p, i) /\ i # j
  BY <1>1, <1>11 DEF Holds
<1>15. OneCarrier'
  <2>1. ASSUME NEW i \in Jobs, NEW g \in Handlers, NEW f \in Handlers,
               Carries(g, i)', Carries(f, i)'
        PROVE  g = f
    BY <1>13, <2>1 DEF IInv, OneCarrier
  <2>2. ASSUME NEW i \in Jobs, NEW g \in Handlers, NEW p \in Processes,
               Carries(g, i)', Holds(p, i)'
        PROVE  handler'[g].client = p /\ Reporting(g)'
    <3>1. Carries(g, i) /\ Holds(p, i) /\ handler'[g] = handler[g]
      BY <1>13, <1>14, <2>2
    <3> QED
      BY <3>1 DEF IInv, OneCarrier, Reporting
  <2> QED
    BY <1>14, <2>1, <2>2 DEF IInv, OneCarrier
<1>16. CarriedIsRunning'
  <2>1. ran[j] = 0
    BY <1>2 DEF IInv, StartedOnce
  <2>2. ASSUME NEW g \in Handlers, NEW i \in Jobs, Carries(g, i)'
        PROVE  /\ job'[i] = "running"
               /\ Handing(g)' => ran'[i] = 0
               /\ Reporting(g)' /\ handler'[g].result = "succeeded" => ran'[i] = 1
    <3>1. CASE g = h /\ i = j /\ Handing(h)' /\ ~Reporting(h)'
      BY <1>1, <1>3, <2>1, <3>1
    <3>2. CASE i # j /\ Carries(g, i) /\ handler'[g] = handler[g]
      <4>1. (Handing(g)' <=> Handing(g)) /\ (Reporting(g)' <=> Reporting(g))
        BY <3>2 DEF Handing, Reporting
      <4> QED
        BY <1>1, <1>3, <3>2, <4>1 DEF IInv, CarriedIsRunning
    <3> QED
      BY <1>13, <2>2, <3>1, <3>2
  <2>3. ASSUME NEW p \in Processes, NEW i \in Jobs, Holds(p, i)'
        PROVE  /\ proc'[p].at # "submitting" => job'[i] = "running"
               /\ proc'[p].at = "received" => ran'[i] = 0
               /\ proc'[p].at = "executing" => ran'[i] = 1
               /\ proc'[p].at \in {"finished", "submitting"} /\ proc'[p].result = "succeeded" =>
                    ran'[i] = 1
    <3>1. Holds(p, i) /\ proc'[p] = proc[p] /\ job'[i] = job[i] /\ ran'[i] = ran[i]
      BY <1>1, <1>3, <1>14, <2>3
    <3> QED
      BY <3>1 DEF IInv, CarriedIsRunning
  <2> QED
    BY <2>2, <2>3 DEF CarriedIsRunning
<1>17. StartedOnce'
  BY <1>1, <1>3 DEF IInv, StartedOnce
<1>18. ExecutionsMatchJobs'
  <2>1. ASSUME NEW i \in Jobs, i = j
        PROVE  Of(i)' = {[job |-> i, attempt |-> 1, status |-> "running"]}
    BY <1>6, <1>7, <2>1 DEF Of
  <2>2. ASSUME NEW i \in Jobs, i # j
        PROVE  Of(i)' = Of(i)
    BY <1>7, <2>2 DEF Of
  <2> QED
    BY <1>3, <2>1, <2>2 DEF IInv, ExecutionsMatchJobs
<1> QED
  BY <1>2, <1>8, <1>9, <1>10, <1>12, <1>15, <1>16, <1>17, <1>18 DEF IInv, j

\* A submission that is not committed yet finds its job running.
LEMMA SubmissionFacts ==
  ASSUME IInv, NEW h \in Handlers, handler[h].op = "submit", handler[h].at = "admitted"
  PROVE  /\ handler[h].job \in Jobs
         /\ Carries(h, handler[h].job)
         /\ job[handler[h].job] = "running"
         /\ handler[h].result = "succeeded" => ran[handler[h].job] = 1
         /\ \A p \in Processes : Holds(p, handler[h].job) => proc[p].at = "submitting"
<1>1. handler[h].job \in Jobs
  BY DEF IInv, Linked, TypeOK, Handler
<1>2. Carries(h, handler[h].job) /\ Reporting(h)
  BY DEF Carries, Reporting
<1>3. \A p \in Processes : Holds(p, handler[h].job) => handler[h].client = p
  BY <1>1, <1>2 DEF IInv, OneCarrier
<1>4. \A p \in Processes : handler[h].client = p => proc[p].at = "submitting"
  BY DispatchAssumption DEF IInv, Linked
<1> QED
  BY <1>1, <1>2, <1>3, <1>4 DEF IInv, CarriedIsRunning

\* The COMMIT of a submission: its job is running and in no other place.
LEMMA SubmitCommitKeeps ==
  ASSUME IInv, NEW h \in Handlers, SubmitCommit(h)
  PROVE  IInv'
<1> DEFINE j == handler[h].job
           result == handler[h].result
<1>1. /\ handler \in [Handlers -> Handler] /\ job \in [Jobs -> Statuses]
      /\ handler[h].op = "submit" /\ handler[h].at = "admitted"
      /\ handler' = [handler EXCEPT ![h].at = "answered"]
      /\ UNCHANGED <<disabled, proc, ran, lost, crashes>>
  BY DEF SubmitCommit, Touched, IInv, TypeOK
<1>2. CASE ~Accepted(h)
  <2>1. UNCHANGED <<job, execs>>
    BY <1>2 DEF SubmitCommit
  <2> QED
    BY <1>1, <2>1, GoesOnKeeps
<1>3. CASE Accepted(h)
  <2>1. /\ j \in Jobs /\ job[j] = "running" /\ Carries(h, j)
        /\ \A p \in Processes : Holds(p, j) => proc[p].at = "submitting"
    BY <1>1, SubmissionFacts
  <2>2. result \in {"succeeded", "failed"}
    BY <1>1 DEF Handler, Results, Outcomes
  <2>3. /\ job' \in [Jobs -> Statuses]
        /\ job'[j] = result
        /\ \A i \in Jobs \ {j} : job'[i] = job[i]
    BY <1>1, <1>3, <2>1, <2>2 DEF SubmitCommit, Statuses, Results, Outcomes
  <2>4. /\ handler' \in [Handlers -> Handler]
        /\ handler'[h].at = "answered"
        /\ \A g \in Handlers : /\ g # h => handler'[g] = handler[g]
                               /\ handler'[g].op = handler[g].op
                               /\ handler'[g].client = handler[g].client
                               /\ handler'[g].agent = handler[g].agent
                               /\ handler'[g].job = handler[g].job
    <3>1. [handler[h] EXCEPT !.at = "answered"] \in Handler
      BY <1>1 DEF Handler
    <3> QED
      BY <1>1, <3>1 DEF Handler
  <2>5. Of(j) = {[job |-> j, attempt |-> 1, status |-> "running"]}
    BY <2>1 DEF IInv, ExecutionsMatchJobs
  <2>6. Latest(j) = [job |-> j, attempt |-> 1, status |-> "running"]
    <3>1. Latest(j) \in Of(j)
      BY <2>5 DEF Latest
    <3> QED
      BY <2>5, <3>1
  <2>7. execs' = (execs \ {[job |-> j, attempt |-> 1, status |-> "running"]})
                   \union {[job |-> j, attempt |-> 1, status |-> result]}
    BY <1>3, <2>6 DEF SubmitCommit, WithResult
  <2> HIDE DEF j, result
  <2>8. TypeOK'
    <3>1. [job |-> j, attempt |-> 1, status |-> result] \in Execution
      BY <2>1, <2>2 DEF Execution, Statuses, Results, Outcomes
    <3> QED
      BY <1>1, <2>3, <2>4, <2>7, <3>1 DEF IInv, TypeOK
  <2>9. Linked'
    BY <1>1, <2>4 DEF IInv, Linked
  <2>10. ClaimsFit'
    <3>1. \A g \in Handlers : handler'[g].at = "locked" =>
            /\ g # h /\ handler[g].at = "locked"
            /\ handler[g].job \in Jobs \ {j}
      BY <2>1, <2>4 DEF IInv, ClaimsFit, TypeOK, Handler
    <3>2. ASSUME NEW g \in Handlers
          PROVE  /\ handler'[g].op = "claim" /\ handler'[g].at \in {"arrived", "admitted"} =>
                      handler'[g].job = NoJob
                 /\ handler'[g].op = "claim" /\ handler'[g].job # NoJob =>
                      AgentOfJob[handler'[g].job] = handler'[g].agent
      BY <2>4 DEF IInv, ClaimsFit
    <3> QED
      BY <2>3, <2>4, <3>1, <3>2 DEF IInv, ClaimsFit
  <2>11. JobsFit'
    <3>1. \A i \in Jobs : job[i] \notin {"absent", "pending"} => job'[i] \notin {"absent", "pending"}
      BY <2>2, <2>3
    <3>2. \A p \in Processes : proc[p].job # NoJob => proc[p].job \in Jobs
      BY DEF IInv, TypeOK, Process
    <3> QED
      BY <1>1, <3>1, <3>2 DEF IInv, JobsFit
  <2>12. \A p \in Processes, i \in Jobs : Holds(p, i)' <=> Holds(p, i)
    BY <1>1 DEF Holds
  <2>13. ASSUME NEW g \in Handlers, NEW i \in Jobs, Carries(g, i)'
         PROVE  g # h /\ i # j /\ Carries(g, i) /\ handler'[g] = handler[g]
    <3>1. g # h
      BY <1>1, <2>4, <2>13 DEF Carries, Handing, Reporting
    <3>2. handler'[g] = handler[g] /\ Carries(g, i)
      BY <2>4, <2>13, <3>1 DEF Carries, Handing, Reporting
    <3> QED
      BY <2>1, <3>1, <3>2 DEF IInv, OneCarrier
  <2>14. OneCarrier'
    BY <2>12, <2>13 DEF IInv, OneCarrier, Reporting
  <2>15. CarriedIsRunning'
    <3>1. ASSUME NEW g \in Handlers, NEW i \in Jobs, Carries(g, i)'
          PROVE  /\ job'[i] = "running"
                 /\ Handing(g)' => ran'[i] = 0
                 /\ Reporting(g)' /\ handler'[g].result = "succeeded" => ran'[i] = 1
      <4>1. /\ i # j /\ Carries(g, i) /\ handler'[g] = handler[g]
            /\ (Handing(g)' <=> Handing(g)) /\ (Reporting(g)' <=> Reporting(g))
        BY <2>13, <3>1 DEF Handing, Reporting
      <4> QED
        BY <1>1, <2>3, <4>1 DEF IInv, CarriedIsRunning
    <3>2. ASSUME NEW p \in Processes, NEW i \in Jobs, Holds(p, i)'
          PROVE  /\ proc'[p].at # "submitting" => job'[i] = "running"
                 /\ proc'[p].at = "received" => ran'[i] = 0
                 /\ proc'[p].at = "executing" => ran'[i] = 1
                 /\ proc'[p].at \in {"finished", "submitting"} /\ proc'[p].result = "succeeded" =>
                      ran'[i] = 1
      <4>1. Holds(p, i) /\ proc'[p] = proc[p] /\ ran'[i] = ran[i]
        BY <1>1, <2>12, <3>2
      <4>2. proc[p].at # "submitting" => job'[i] = job[i]
        BY <2>1, <2>3, <4>1
      <4> QED
        BY <4>1, <4>2 DEF IInv, CarriedIsRunning
    <3> QED
      BY <3>1, <3>2 DEF CarriedIsRunning
  <2>16. StartedOnce'
    BY <1>1, <2>2, <2>3 DEF IInv, StartedOnce
  <2>17. ExecutionsMatchJobs'
    <3>1. ASSUME NEW i \in Jobs, i = j
          PROVE  Of(i)' = {[job |-> i, attempt |-> 1, status |-> result]}
      BY <2>5, <2>7, <3>1 DEF Of
    <3>2. ASSUME NEW i \in Jobs, i # j
          PROVE  Of(i)' = Of(i)
      BY <2>7, <3>2 DEF Of
    <3> QED
      BY <2>2, <2>3, <3>1, <3>2 DEF IInv, ExecutionsMatchJobs
  <2> QED
    BY <2>8, <2>9, <2>10, <2>11, <2>14, <2>15, <2>16, <2>17 DEF IInv
<1> QED
  BY <1>2, <1>3

\* A handler is done and its client, if any, begins a new round or goes on to
\* its claim.
LEMMA RoundEndsKeeps ==
  ASSUME IInv, NEW h \in Handlers,
         handler' = [handler EXCEPT ![h] = Free],
         \/ handler[h].client = NoProcess /\ proc' = proc
         \/ /\ handler[h].client # NoProcess
            /\ \E next \in {Idle, [Idle EXCEPT !.at = "ready"]} :
                 proc' = [proc EXCEPT ![handler[h].client] = next],
         lost' \in 0..MaxLost, crashes' \in 0..MaxCrashes,
         UNCHANGED <<job, execs, disabled, ran>>
  PROVE  IInv'
<1> DEFINE p == handler[h].client
<1>1. /\ handler' \in [Handlers -> Handler]
      /\ handler'[h] = Free
      /\ \A g \in Handlers \ {h} : handler'[g] = handler[g]
  BY RestFacts DEF IInv, TypeOK
<1>2. \A next \in {Idle, [Idle EXCEPT !.at = "ready"]} :
        next \in Process /\ next.at \in {"idle", "ready"} /\ next.job = NoJob
  BY DEF Idle, Process, Results, Outcomes
<1>3. p # NoProcess =>
        p \in Processes /\ \A g \in Handlers : handler[g].client = p => g = h
  BY DEF IInv, TypeOK, Handler, Linked
<1>4. /\ proc' \in [Processes -> Process]
      /\ \A q \in Processes : q # p => proc'[q] = proc[q]
      /\ \A q \in Processes : \/ proc'[q].at \in {"idle", "ready"} /\ proc'[q].job = NoJob
                              \/ proc'[q] = proc[q]
  <2>1. CASE p = NoProcess
    BY <2>1 DEF IInv, TypeOK
  <2>2. CASE p # NoProcess
    <3>1. PICK next \in {Idle, [Idle EXCEPT !.at = "ready"]} :
            proc' = [proc EXCEPT ![p] = next]
      BY <2>2
    <3>2. next \in Process /\ next.at \in {"idle", "ready"} /\ next.job = NoJob
      BY <1>2
    <3>3. p \in Processes /\ proc \in [Processes -> Process]
      BY <1>3, <2>2 DEF IInv, TypeOK
    <3> HIDE DEF p
    <3> QED
      BY <3>1, <3>2, <3>3
  <2> QED
    BY <2>1, <2>2
<1>5. \A g \in Handlers \ {h} : handler[g].client # NoProcess =>
        proc'[handler[g].client] = proc[handler[g].client]
  BY <1>3, <1>4 DEF IInv, TypeOK, Handler
<1> QED
  BY <1>1, <1>4, <1>5, LessKeeps

\* The response to a claim reaches the process that sent it.
LEMMA HandOverKeeps ==
  ASSUME IInv, NEW h \in Handlers, Handing(h), handler[h].job # NoJob,
         handler' = [handler EXCEPT ![h] = Free],
         proc' = [proc EXCEPT ![handler[h].client] =
                    [Idle EXCEPT !.at = "received", !.job = handler[h].job]],
         UNCHANGED <<job, execs, disabled, ran, lost, crashes>>
  PROVE  IInv'
<1> DEFINE p == handler[h].client
           j == handler[h].job
           new == [Idle EXCEPT !.at = "received", !.job = j]
<1>1. /\ p \in Processes /\ p # NoProcess /\ j \in Jobs /\ j # NoJob
      /\ handler[h].op = "claim" /\ handler[h].agent = Identity[p]
      /\ \A g \in Handlers \ {h} : handler[g].client # p
  BY DEF IInv, TypeOK, Handler, Linked, Handing
<1>2. AgentOfJob[j] = Identity[p]
  BY <1>1 DEF IInv, ClaimsFit
<1>3. new \in Process /\ new.at = "received" /\ new.job = j
  BY <1>1 DEF Idle, Process, Results, Outcomes
<1>4. /\ proc' \in [Processes -> Process]
      /\ proc'[p] = new
      /\ \A q \in Processes \ {p} : proc'[q] = proc[q]
  BY <1>1, <1>3 DEF IInv, TypeOK
<1>5. /\ handler' \in [Handlers -> Handler]
      /\ handler'[h] = Free
      /\ \A g \in Handlers \ {h} : handler'[g] = handler[g]
  BY RestFacts DEF IInv, TypeOK
<1>6. /\ job[j] = "running" /\ ran[j] = 0
      /\ \A g \in Handlers \ {h} : ~Carries(g, j)
      /\ \A q \in Processes : ~Holds(q, j)
  <2>1. Carries(h, j) /\ ~Reporting(h)
    BY DEF Carries, Handing, Reporting
  <2>2. \A q \in Processes : ~Holds(q, j)
    BY <1>1, <2>1 DEF IInv, OneCarrier
  <2>3. job[j] = "running" /\ ran[j] = 0
    BY <1>1, <2>1 DEF IInv, CarriedIsRunning
  <2>4. \A g \in Handlers \ {h} : ~Carries(g, j)
    BY <1>1, <2>1 DEF IInv, OneCarrier
  <2> QED
    BY <2>2, <2>3, <2>4
<1> HIDE DEF p, j, new
<1>7. TypeOK'
  BY <1>4, <1>5 DEF IInv, TypeOK
<1>8. Linked'
  <2>1. ASSUME NEW g \in Handlers \ {h}, handler[g].client # NoProcess
        PROVE  /\ proc'[handler[g].client] = proc[handler[g].client]
               /\ \A f \in Handlers : handler'[f].client = handler[g].client => f = g
    <3>1. handler[g].client \in Processes \ {p}
      BY <1>1, <2>1 DEF IInv, TypeOK, Handler
    <3> QED
      BY <1>4, <1>5, <2>1, <3>1, RestFacts DEF IInv, Linked
  <2> QED
    BY <1>5, <2>1, RestFacts DEF IInv, Linked
<1>9. ClaimsFit'
  BY <1>5, RestFacts DEF IInv, ClaimsFit
<1>10. JobsFit'
  <2>1. ASSUME NEW q \in Processes
        PROVE  /\ proc'[q].at = "ready" => proc'[q].job = NoJob
               /\ proc'[q].at \in {"received", "executing", "finished", "submitting"} =>
                    /\ proc'[q].job # NoJob
                    /\ Identity[q] = AgentOfJob[proc'[q].job]
                    /\ job[proc'[q].job] \notin {"absent", "pending"}
    BY <1>1, <1>2, <1>3, <1>4, <1>6 DEF IInv, JobsFit
  <2> QED
    BY <2>1 DEF JobsFit
<1>11. ASSUME NEW g \in Handlers, NEW i \in Jobs, Carries(g, i)'
       PROVE  /\ g # h /\ i # j /\ Carries(g, i) /\ handler'[g] = handler[g]
              /\ (Handing(g)' <=> Handing(g)) /\ (Reporting(g)' <=> Reporting(g))
  <2>1. g # h
    BY <1>5, <1>11, RestFacts DEF Carries, Handing, Reporting
  <2>2. handler'[g] = handler[g]
    BY <1>5, <2>1
  <2>3. Carries(g, i) /\ (Handing(g)' <=> Handing(g)) /\ (Reporting(g)' <=> Reporting(g))
    BY <1>11, <2>2 DEF Carries, Handing, Reporting
  <2> QED
    BY <1>6, <2>1, <2>2, <2>3
<1>12. ASSUME NEW q \in Processes, NEW i \in Jobs, Holds(q, i)'
       PROVE  \/ q = p /\ i = j
              \/ q # p /\ i # j /\ Holds(q, i) /\ proc'[q] = proc[q]
  BY <1>3, <1>4, <1>6, <1>12 DEF Holds
<1>13. OneCarrier'
  <2>1. ASSUME NEW i \in Jobs, NEW g \in Handlers, NEW f \in Handlers,
               Carries(g, i)', Carries(f, i)'
        PROVE  g = f
    BY <1>11, <2>1 DEF IInv, OneCarrier
  <2>2. ASSUME NEW i \in Jobs, NEW q \in Processes, NEW r \in Processes,
               Holds(q, i)', Holds(r, i)'
        PROVE  q = r
    BY <1>12, <2>2 DEF IInv, OneCarrier
  <2>3. ASSUME NEW i \in Jobs, NEW g \in Handlers, NEW q \in Processes,
               Carries(g, i)', Holds(q, i)'
        PROVE  handler'[g].client = q /\ Reporting(g)'
    BY <1>11, <1>12, <2>3 DEF IInv, OneCarrier
  <2> QED
    BY <2>1, <2>2, <2>3 DEF OneCarrier
<1>14. CarriedIsRunning'
  <2>1. ASSUME NEW g \in Handlers, NEW i \in Jobs, Carries(g, i)'
        PROVE  /\ job'[i] = "running"
               /\ Handing(g)' => ran'[i] = 0
               /\ Reporting(g)' /\ handler'[g].result = "succeeded" => ran'[i] = 1
    BY <1>11, <2>1 DEF IInv, CarriedIsRunning
  <2>2. ASSUME NEW q \in Processes, NEW i \in Jobs, Holds(q, i)'
        PROVE  /\ proc'[q].at # "submitting" => job'[i] = "running"
               /\ proc'[q].at = "received" => ran'[i] = 0
               /\ proc'[q].at = "executing" => ran'[i] = 1
               /\ proc'[q].at \in {"finished", "submitting"} /\ proc'[q].result = "succeeded" =>
                    ran'[i] = 1
    <3>1. CASE q = p /\ i = j
      BY <1>3, <1>4, <1>6, <3>1
    <3>2. CASE Holds(q, i) /\ proc'[q] = proc[q]
      BY <3>2 DEF IInv, CarriedIsRunning
    <3> QED
      BY <1>12, <2>2, <3>1, <3>2
  <2> QED
    BY <2>1, <2>2 DEF CarriedIsRunning
<1>15. StartedOnce' /\ ExecutionsMatchJobs'
  BY DEF IInv, StartedOnce, ExecutionsMatchJobs, Of
<1> QED
  BY <1>7, <1>8, <1>9, <1>10, <1>13, <1>14, <1>15 DEF IInv

\* A response is delivered.
LEMMA AnswerKeeps ==
  ASSUME IInv, NEW h \in Handlers, Answer(h)
  PROVE  IInv'
<1>1. /\ handler' = [handler EXCEPT ![h] = Free]
      /\ UNCHANGED <<job, execs, disabled, ran, lost, crashes>>
      /\ lost' \in 0..MaxLost /\ crashes' \in 0..MaxCrashes
  BY DEF Answer, IInv, TypeOK
<1>2. CASE handler[h].client = NoProcess
  BY <1>1, <1>2, RoundEndsKeeps DEF Answer
<1>3. CASE /\ handler[h].client # NoProcess
           /\ handler[h].at = "answered" /\ handler[h].op = "claim" /\ handler[h].job # NoJob
  <2>1. proc' = [proc EXCEPT ![handler[h].client] =
                   [Idle EXCEPT !.at = "received", !.job = handler[h].job]]
    BY <1>3 DEF Answer, Answered
  <2> QED
    BY <1>1, <1>3, <2>1, HandOverKeeps DEF Handing
<1>4. CASE /\ handler[h].client # NoProcess
           /\ ~(/\ handler[h].at = "answered" /\ handler[h].op = "claim"
                /\ handler[h].job # NoJob)
  <2>1. Answered(handler[h]) \in {Idle, [Idle EXCEPT !.at = "ready"]}
    BY <1>4 DEF Answered
  <2> QED
    BY <1>1, <1>4, <2>1, RoundEndsKeeps DEF Answer
<1> QED
  BY <1>2, <1>3, <1>4

\* The server dies.
LEMMA HandlerCrashKeeps ==
  ASSUME IInv, NEW h \in Handlers, HandlerCrash(h)
  PROVE  IInv'
<1>1. lost' \in 0..MaxLost /\ crashes' \in 0..MaxCrashes
  BY DispatchAssumption DEF HandlerCrash, IInv, TypeOK
<1> QED
  BY <1>1, RoundEndsKeeps DEF HandlerCrash

\* A process gives up on its request, or dies: its handler goes on without it,
\* if the request was delivered.
LEMMA AbandonKeeps ==
  ASSUME IInv, NEW p \in Processes, handler' \in {Abandoned(p), Undelivered(p)},
         proc' = [proc EXCEPT ![p] = Idle],
         lost' \in 0..MaxLost, crashes' \in 0..MaxCrashes,
         UNCHANGED <<job, execs, disabled, ran>>
  PROVE  IInv'
<1>1. handler \in [Handlers -> Handler] /\ p # NoProcess
  BY DispatchAssumption DEF IInv, TypeOK
<1>2. /\ proc' \in [Processes -> Process]
      /\ proc'[p] = Idle
      /\ \A q \in Processes \ {p} : proc'[q] = proc[q]
  BY RestFacts DEF IInv, TypeOK
<1>3. ASSUME NEW h \in Handlers
      PROVE  /\ handler'[h] \in Handler
             /\ \/ handler'[h] = Free
                \/ /\ handler[h].client = p
                   /\ handler'[h].client = NoProcess
                   /\ handler'[h].op = handler[h].op /\ handler'[h].at = handler[h].at
                   /\ handler'[h].agent = handler[h].agent /\ handler'[h].job = handler[h].job
                   /\ handler'[h].result = handler[h].result
                \/ handler'[h] = handler[h] /\ handler[h].client # p
  <2>1. \/ handler'[h] = Free
        \/ handler[h].client = p /\ handler'[h] = [handler[h] EXCEPT !.client = NoProcess]
        \/ handler'[h] = handler[h] /\ handler[h].client # p
    BY DEF Abandoned, Undelivered
  <2>2. handler[h] \in Handler
    BY <1>1
  <2> QED
    BY <2>1, <2>2, RestFacts DEF Handler
<1>4. handler' \in [Handlers -> Handler]
  <2>1. handler' = [h \in Handlers |-> handler'[h]]
    BY DEF Abandoned, Undelivered
  <2> QED
    BY <1>3, <2>1
<1>5. \A h \in Handlers : handler[h].client # NoProcess => handler[h].client \in Processes
  BY <1>1 DEF Handler
<1> QED
  BY <1>2, <1>3, <1>4, <1>5, RestFacts, LessKeeps

\* A client that goes takes away what it carried, and adds nothing.
LEMMA GiveUpKeeps ==
  ASSUME IInv, NEW p \in Processes, GiveUp(p) \/ ProcessCrash(p)
  PROVE  IInv'
<1>1. lost' \in 0..MaxLost /\ crashes' \in 0..MaxCrashes
  BY DispatchAssumption DEF GiveUp, ProcessCrash, IInv, TypeOK
<1> QED
  BY <1>1, AbandonKeeps DEF GiveUp, ProcessCrash

\* A process goes on with the job it has, and may start its script.
LEMMA WorkKeeps ==
  ASSUME IInv, NEW p \in Processes, proc[p].at \in {"received", "executing"},
         NEW new \in Process, new.at \in {"executing", "finished"}, new.job = proc[p].job,
         proc' = [proc EXCEPT ![p] = new],
         ran' \in [Jobs -> Nat],
         \A i \in Jobs \ {proc[p].job} : ran'[i] = ran[i],
         ran'[proc[p].job] \in {ran[proc[p].job], 1},
         new.at = "executing" \/ new.result = "succeeded" => ran'[proc[p].job] = 1,
         UNCHANGED <<job, execs, disabled, handler, lost, crashes>>
  PROVE  IInv'
<1> DEFINE j == proc[p].job
<1>1. j \in Jobs /\ j # NoJob /\ Holds(p, j) /\ proc[p].at # "submitting"
  BY DEF IInv, JobsFit, TypeOK, Process, Holds
<1>2. /\ proc' \in [Processes -> Process]
      /\ proc'[p] = new
      /\ \A q \in Processes \ {p} : proc'[q] = proc[q]
  BY DEF IInv, TypeOK
<1>3. /\ \A i \in Jobs \ {j} : ran'[i] = ran[i]
      /\ ran'[j] \in {ran[j], 1}
  OBVIOUS
<1>4. /\ new.at \in {"executing", "finished"} /\ new.job = j
      /\ new.at = "executing" \/ new.result = "succeeded" => ran'[j] = 1
  OBVIOUS
<1>5. /\ job[j] = "running"
      /\ \A h \in Handlers : ~Carries(h, j)
      /\ \A q \in Processes : Holds(q, j) => q = p
  <2>1. \A h \in Handlers : Carries(h, j) => handler[h].client = p /\ handler[h].op = "submit"
    BY <1>1 DEF IInv, OneCarrier, Reporting
  <2>2. \A h \in Handlers : ~Carries(h, j)
    BY <1>1, <2>1, DispatchAssumption DEF IInv, Linked
  <2> QED
    BY <1>1, <2>2 DEF IInv, CarriedIsRunning, OneCarrier
<1>6. \A h \in Handlers : handler[h].op # "free" => handler[h].client # p
  <2>1. \A h \in Handlers : handler[h].op \in {"free", "heartbeat", "claim", "submit"}
    BY DEF IInv, TypeOK, Handler
  <2> QED
    BY <2>1, DispatchAssumption DEF IInv, Linked
<1> HIDE DEF j
<1>7. TypeOK'
  BY <1>2, <1>3 DEF IInv, TypeOK
<1>8. Linked'
  <2>1. \A h \in Handlers : handler[h].client # NoProcess =>
          handler[h].client \in Processes /\ proc'[handler[h].client] = proc[handler[h].client]
    BY <1>2, <1>6 DEF IInv, Linked, TypeOK, Handler
  <2>2. handler' = handler /\ Linked
    BY DEF IInv
  <2>3. ASSUME NEW h \in Handlers, handler[h].client # NoProcess
        PROVE  /\ handler[h].op = "heartbeat" => proc'[handler[h].client].at = "beating"
               /\ handler[h].op = "claim" => proc'[handler[h].client].at = "claiming"
               /\ handler[h].op = "submit" => proc'[handler[h].client].at = "submitting"
               /\ handler[h].agent = Identity[handler[h].client]
               /\ handler[h].op = "submit" => handler[h].job = proc'[handler[h].client].job
               /\ \A g \in Handlers : handler[g].client = handler[h].client => g = h
    BY <2>1, <2>2, <2>3 DEF Linked
  <2> QED
    BY <2>2, <2>3 DEF Linked
<1>9. ClaimsFit'
  BY DEF IInv, ClaimsFit
<1>10. JobsFit'
  <2>1. ASSUME NEW q \in Processes
        PROVE  /\ proc'[q].at = "ready" => proc'[q].job = NoJob
               /\ proc'[q].at \in {"received", "executing", "finished", "submitting"} =>
                    /\ proc'[q].job # NoJob
                    /\ Identity[q] = AgentOfJob[proc'[q].job]
                    /\ job[proc'[q].job] \notin {"absent", "pending"}
    <3>1. CASE q = p
      BY <1>2, <1>4, <3>1 DEF IInv, JobsFit, j
    <3>2. CASE q # p
      BY <1>2, <3>2 DEF IInv, JobsFit
    <3> QED
      BY <3>1, <3>2
  <2> QED
    BY <2>1 DEF JobsFit
<1>11. \A h \in Handlers, i \in Jobs : Carries(h, i)' =>
         /\ i # j /\ Carries(h, i)
         /\ (Handing(h)' <=> Handing(h)) /\ (Reporting(h)' <=> Reporting(h))
  BY <1>5 DEF Carries, Handing, Reporting
<1>12. ASSUME NEW q \in Processes, NEW i \in Jobs, Holds(q, i)'
       PROVE  \/ q = p /\ i = j
              \/ q # p /\ i # j /\ Holds(q, i) /\ proc'[q] = proc[q]
  <2>1. CASE q = p
    BY <1>2, <1>4, <1>12, <2>1 DEF Holds
  <2>2. CASE q # p
    BY <1>2, <1>5, <1>12, <2>2 DEF Holds
  <2> QED
    BY <2>1, <2>2
<1>13. OneCarrier'
  <2>1. ASSUME NEW i \in Jobs, NEW q \in Processes, NEW r \in Processes,
               Holds(q, i)', Holds(r, i)'
        PROVE  q = r
    BY <1>12, <2>1 DEF IInv, OneCarrier
  <2>2. ASSUME NEW i \in Jobs, NEW h \in Handlers, NEW q \in Processes,
               Carries(h, i)', Holds(q, i)'
        PROVE  handler'[h].client = q /\ Reporting(h)'
    BY <1>11, <1>12, <2>2 DEF IInv, OneCarrier
  <2> QED
    BY <1>11, <2>1, <2>2 DEF IInv, OneCarrier
<1>14. CarriedIsRunning'
  <2>1. ASSUME NEW h \in Handlers, NEW i \in Jobs, Carries(h, i)'
        PROVE  /\ job'[i] = "running"
               /\ Handing(h)' => ran'[i] = 0
               /\ Reporting(h)' /\ handler'[h].result = "succeeded" => ran'[i] = 1
    BY <1>3, <1>11, <2>1 DEF IInv, CarriedIsRunning
  <2>2. ASSUME NEW q \in Processes, NEW i \in Jobs, Holds(q, i)'
        PROVE  /\ proc'[q].at # "submitting" => job'[i] = "running"
               /\ proc'[q].at = "received" => ran'[i] = 0
               /\ proc'[q].at = "executing" => ran'[i] = 1
               /\ proc'[q].at \in {"finished", "submitting"} /\ proc'[q].result = "succeeded" =>
                    ran'[i] = 1
    <3>1. CASE q = p /\ i = j
      BY <1>2, <1>4, <1>5, <3>1
    <3>2. CASE i # j /\ Holds(q, i) /\ proc'[q] = proc[q]
      BY <1>3, <3>2 DEF IInv, CarriedIsRunning
    <3> QED
      BY <1>12, <2>2, <3>1, <3>2
  <2> QED
    BY <2>1, <2>2 DEF CarriedIsRunning
<1>15. StartedOnce'
  BY <1>1, <1>3, <1>5 DEF IInv, StartedOnce
<1>16. ExecutionsMatchJobs'
  BY DEF IInv, ExecutionsMatchJobs, Of
<1> QED
  BY <1>7, <1>8, <1>9, <1>10, <1>13, <1>14, <1>15, <1>16 DEF IInv

\* The steps of a process with a job.
LEMMA ScriptKeeps ==
  ASSUME IInv, NEW p \in Processes, StartScript(p) \/ RefuseScript(p) \/ FinishScript(p)
  PROVE  IInv'
<1>1. /\ proc \in [Processes -> Process] /\ ran \in [Jobs -> Nat]
      /\ proc[p].at \in {"received", "executing"}
      /\ proc[p].job \in Jobs /\ Holds(p, proc[p].job)
  BY DEF IInv, TypeOK, JobsFit, Process, Holds, StartScript, RefuseScript, FinishScript
<1>2. /\ proc[p].at = "received" => ran[proc[p].job] = 0
      /\ proc[p].at = "executing" => ran[proc[p].job] = 1
  BY <1>1 DEF IInv, CarriedIsRunning
<1>3. CASE StartScript(p)
  <2> DEFINE new == [proc[p] EXCEPT !.at = "executing"]
  <2>1. proc' = [proc EXCEPT ![p] = new] /\ ran' = [ran EXCEPT ![proc[p].job] = @ + 1]
    BY <1>3 DEF StartScript, Goes
  <2>2. new \in Process /\ new.at = "executing" /\ new.job = proc[p].job
    BY <1>1 DEF Process
  <2>3. /\ ran' \in [Jobs -> Nat]
        /\ \A i \in Jobs \ {proc[p].job} : ran'[i] = ran[i]
        /\ ran'[proc[p].job] = 1
    BY <1>1, <1>2, <1>3, <2>1 DEF StartScript
  <2> HIDE DEF new
  <2> QED
    BY <1>1, <1>3, <2>1, <2>2, <2>3, WorkKeeps DEF StartScript
<1>4. CASE RefuseScript(p) \/ FinishScript(p)
  <2>1. PICK result \in Outcomes :
          /\ proc' = [proc EXCEPT ![p] =
               [proc[p] EXCEPT !.at = "finished", !.result = result]]
          /\ result = "succeeded" => proc[p].at = "executing"
    BY <1>4 DEF RefuseScript, FinishScript, ResultOfRefusal, Results, Outcomes
  <2> DEFINE new == [proc[p] EXCEPT !.at = "finished", !.result = result]
  <2>2. /\ new \in Process /\ new.at = "finished" /\ new.job = proc[p].job
        /\ new.result = result
    BY <1>1 DEF Process
  <2>3. proc' = [proc EXCEPT ![p] = new] /\ ran' = ran
    BY <1>4, <2>1 DEF RefuseScript, FinishScript
  <2> HIDE DEF new
  <2> QED
    BY <1>1, <1>2, <1>4, <2>1, <2>2, <2>3, WorkKeeps DEF RefuseScript, FinishScript
<1> QED
  BY <1>3, <1>4

\* A process sends a request, which has its job if it is a submission.
LEMMA SendKeeps ==
  ASSUME IInv, NEW p \in Processes, SendHeartbeat(p) \/ SendClaim(p) \/ SendResult(p)
  PROVE  IInv'
<1>1. PICK op \in {"heartbeat", "claim", "submit"}, at \in {"beating", "claiming", "submitting"} :
        /\ Send(p, op) /\ Goes(p, at)
        /\ op = "heartbeat" => at = "beating" /\ proc[p].at = "idle"
        /\ op = "claim" => at = "claiming" /\ proc[p].at = "ready"
        /\ op = "submit" => at = "submitting" /\ proc[p].at = "finished"
  BY DEF SendHeartbeat, SendClaim, SendResult
<1>2. UNCHANGED <<job, execs, disabled, ran, lost, crashes>>
  BY DEF SendHeartbeat, SendClaim, SendResult
<1> DEFINE request == [op |-> op, at |-> "arrived", client |-> p, agent |-> Identity[p],
                       job |-> proc[p].job, result |-> proc[p].result]
           asking == [proc[p] EXCEPT !.at = at]
<1>3. PICK h \in Handlers : /\ handler[h].op = "free"
                            /\ handler' = [handler EXCEPT ![h] = request]
                            /\ proc' = [proc EXCEPT ![p] = asking]
  BY <1>1 DEF Send, Goes, FreeHandlers
<1>4. handler \in [Handlers -> Handler] /\ proc \in [Processes -> Process] /\ p # NoProcess
  BY DispatchAssumption DEF IInv, TypeOK
<1>5. /\ request \in Handler
      /\ request.op = op /\ request.at = "arrived" /\ request.client = p
      /\ request.agent = Identity[p] /\ request.job = proc[p].job
      /\ request.result = proc[p].result
  BY <1>4, DispatchAssumption DEF Handler, Process
<1>6. /\ asking \in Process
      /\ asking.at = at /\ asking.job = proc[p].job /\ asking.result = proc[p].result
  BY <1>4 DEF Process
<1> HIDE DEF request, asking
<1>7. /\ handler' \in [Handlers -> Handler]
      /\ handler'[h] = request
      /\ \A g \in Handlers \ {h} : handler'[g] = handler[g]
  BY <1>3, <1>4, <1>5
<1>8. /\ proc' \in [Processes -> Process]
      /\ proc'[p] = asking
      /\ \A q \in Processes \ {p} : proc'[q] = proc[q]
  BY <1>3, <1>4, <1>6
<1>9. \A g \in Handlers : handler[g].client # p
  <2>1. \A g \in Handlers : handler[g].op \in {"free", "heartbeat", "claim", "submit"}
    BY <1>4 DEF Handler
  <2> QED
    BY <1>1, <1>4, <2>1 DEF IInv, Linked
<1>10. /\ op = "claim" => proc[p].job = NoJob
       /\ op = "submit" => proc[p].job # NoJob
  BY <1>1 DEF IInv, JobsFit
<1>11. TypeOK'
  BY <1>2, <1>7, <1>8 DEF IInv, TypeOK
<1>12. Linked'
  <2>1. ASSUME NEW g \in Handlers \ {h}, handler[g].client # NoProcess
        PROVE  /\ proc'[handler[g].client] = proc[handler[g].client]
               /\ \A f \in Handlers : handler'[f].client = handler[g].client => f = g
    <3>1. handler[g].client \in Processes \ {p}
      BY <1>4, <1>9, <2>1 DEF Handler
    <3> QED
      BY <1>5, <1>7, <1>8, <2>1, <3>1 DEF IInv, Linked
  <2>2. \A f \in Handlers : handler'[f].client = p => f = h
    BY <1>7, <1>9
  <2>3. ASSUME NEW g \in Handlers \ {h}
        PROVE  /\ handler[g].op = "free" =>
                    handler[g].at = "arrived" /\ handler[g].client = NoProcess
               /\ handler[g].op = "submit" => handler[g].job # NoJob
               /\ handler[g].client # NoProcess =>
                    /\ handler[g].op = "heartbeat" => proc'[handler[g].client].at = "beating"
                    /\ handler[g].op = "claim" => proc'[handler[g].client].at = "claiming"
                    /\ handler[g].op = "submit" => proc'[handler[g].client].at = "submitting"
                    /\ handler[g].agent = Identity[handler[g].client]
                    /\ handler[g].op = "submit" =>
                         handler[g].job = proc'[handler[g].client].job
    BY <2>1 DEF IInv, Linked
  <2>4. /\ request.op # "free"
        /\ request.op = "submit" => request.job # NoJob /\ request.job = proc'[p].job
        /\ request.op = "heartbeat" => proc'[p].at = "beating"
        /\ request.op = "claim" => proc'[p].at = "claiming"
        /\ request.op = "submit" => proc'[p].at = "submitting"
    BY <1>1, <1>5, <1>6, <1>8, <1>10
  <2> QED
    BY <1>5, <1>7, <2>1, <2>2, <2>3, <2>4 DEF Linked
<1>13. ClaimsFit'
  BY <1>2, <1>5, <1>7, <1>10 DEF IInv, ClaimsFit
<1>14. JobsFit'
  <2>1. ASSUME NEW q \in Processes
        PROVE  /\ proc'[q].at = "ready" => proc'[q].job = NoJob
               /\ proc'[q].at \in {"received", "executing", "finished", "submitting"} =>
                    /\ proc'[q].job # NoJob
                    /\ Identity[q] = AgentOfJob[proc'[q].job]
                    /\ job[proc'[q].job] \notin {"absent", "pending"}
    <3>1. CASE q = p
      BY <1>1, <1>6, <1>8, <3>1 DEF IInv, JobsFit
    <3>2. CASE q # p
      BY <1>8, <3>2 DEF IInv, JobsFit
    <3> QED
      BY <3>1, <3>2
  <2> QED
    BY <1>2, <2>1 DEF JobsFit
<1>15. ASSUME NEW q \in Processes, NEW i \in Jobs, Holds(q, i)'
       PROVE  /\ Holds(q, i) /\ proc'[q].result = proc[q].result
              /\ IF q = p THEN op = "submit" /\ proc[p].at = "finished" /\ proc'[p].at = "submitting"
                          ELSE proc'[q].at = proc[q].at
  <2>1. CASE q = p
    BY <1>1, <1>6, <1>8, <1>15, <2>1 DEF Holds
  <2>2. CASE q # p
    BY <1>8, <1>15, <2>2 DEF Holds
  <2> QED
    BY <2>1, <2>2
<1>16. ASSUME NEW g \in Handlers, NEW i \in Jobs, Carries(g, i)'
       PROVE  \/ /\ g = h /\ op = "submit" /\ Holds(p, i) /\ ~Handing(h)' /\ Reporting(h)'
              \/ /\ g # h /\ Carries(g, i) /\ handler'[g] = handler[g]
                 /\ (Handing(g)' <=> Handing(g)) /\ (Reporting(g)' <=> Reporting(g))
  <2>1. CASE g = h
    BY <1>1, <1>5, <1>7, <1>16, <2>1 DEF Carries, Handing, Reporting, Holds
  <2>2. CASE g # h
    <3>1. handler'[g] = handler[g]
      BY <1>7, <2>2
    <3> QED
      BY <1>16, <2>2, <3>1 DEF Carries, Handing, Reporting
  <2> QED
    BY <2>1, <2>2
<1>17. \A g \in Handlers, i \in Jobs : Carries(g, i) => ~Holds(p, i)
  BY <1>9 DEF IInv, OneCarrier
<1>18. OneCarrier'
  <2>1. ASSUME NEW i \in Jobs, NEW g \in Handlers, NEW f \in Handlers,
               Carries(g, i)', Carries(f, i)'
        PROVE  g = f
    <3>1. CASE g = h \/ f = h
      BY <1>16, <1>17, <2>1, <3>1
    <3>2. CASE g # h /\ f # h
      BY <1>16, <2>1, <3>2 DEF IInv, OneCarrier
    <3> QED
      BY <3>1, <3>2
  <2>2. ASSUME NEW i \in Jobs, NEW g \in Handlers, NEW q \in Processes,
               Carries(g, i)', Holds(q, i)'
        PROVE  handler'[g].client = q /\ Reporting(g)'
    <3>1. CASE g = h
      <4>1. Holds(p, i) /\ Holds(q, i) /\ Reporting(h)'
        BY <1>15, <1>16, <2>2, <3>1
      <4>2. q = p
        BY <4>1 DEF IInv, OneCarrier
      <4> QED
        BY <1>5, <1>7, <3>1, <4>1, <4>2
    <3>2. CASE g # h
      BY <1>15, <1>16, <2>2, <3>2 DEF IInv, OneCarrier
    <3> QED
      BY <3>1, <3>2
  <2> QED
    BY <1>15, <2>1, <2>2 DEF IInv, OneCarrier
<1>19. CarriedIsRunning'
  <2>1. ASSUME NEW g \in Handlers, NEW i \in Jobs, Carries(g, i)'
        PROVE  /\ job'[i] = "running"
               /\ Handing(g)' => ran'[i] = 0
               /\ Reporting(g)' /\ handler'[g].result = "succeeded" => ran'[i] = 1
    <3>1. CASE g = h
      <4>1. Holds(p, i) /\ proc[p].at = "finished" /\ ~Handing(h)'
        BY <1>1, <1>16, <2>1, <3>1
      <4>2. job[i] = "running" /\ (proc[p].result = "succeeded" => ran[i] = 1)
        BY <4>1 DEF IInv, CarriedIsRunning
      <4> QED
        BY <1>2, <1>5, <1>7, <3>1, <4>1, <4>2
    <3>2. CASE g # h
      <4>1. /\ Carries(g, i) /\ handler'[g] = handler[g]
            /\ (Handing(g)' <=> Handing(g)) /\ (Reporting(g)' <=> Reporting(g))
        BY <1>16, <2>1, <3>2
      <4> QED
        BY <1>2, <4>1 DEF IInv, CarriedIsRunning
    <3> QED
      BY <3>1, <3>2
  <2>2. ASSUME NEW q \in Processes, NEW i \in Jobs, Holds(q, i)'
        PROVE  /\ proc'[q].at # "submitting" => job'[i] = "running"
               /\ proc'[q].at = "received" => ran'[i] = 0
               /\ proc'[q].at = "executing" => ran'[i] = 1
               /\ proc'[q].at \in {"finished", "submitting"} /\ proc'[q].result = "succeeded" =>
                    ran'[i] = 1
    BY <1>2, <1>15, <2>2 DEF IInv, CarriedIsRunning
  <2> QED
    BY <2>1, <2>2 DEF CarriedIsRunning
<1>20. StartedOnce' /\ ExecutionsMatchJobs'
  BY <1>2 DEF IInv, StartedOnce, ExecutionsMatchJobs, Of
<1> QED
  BY <1>11, <1>12, <1>13, <1>14, <1>18, <1>19, <1>20 DEF IInv

-----------------------------------------------------------------------------
\* No step breaks the invariant.
LEMMA NextKeeps ==
  ASSUME IInv, [Next]_vars
  PROVE  IInv'
<1>1. CASE \/ \E j \in Jobs : CreateJob(j)
           \/ \E a \in Agents : Disable(a)
           \/ UNCHANGED vars
  BY <1>1, OutsideKeeps
<1>2. ASSUME NEW h \in Handlers, HandlerNext(h) \/ HandlerCrash(h)
      PROVE  IInv'
  BY <1>2, AuthenticateKeeps, HeartbeatKeeps, ClaimSelectKeeps, ClaimCommitKeeps,
     SubmitCommitKeeps, AnswerKeeps, HandlerCrashKeeps DEF HandlerNext
<1>3. ASSUME NEW p \in Processes, ProcessNext(p) \/ GiveUp(p) \/ ProcessCrash(p)
      PROVE  IInv'
  BY <1>3, SendKeeps, ScriptKeeps, GiveUpKeeps DEF ProcessNext, LoopNext
<1> QED
  BY <1>1, <1>2, <1>3 DEF Next

\* The inductive invariant holds in every state.
THEOREM Invariance == Spec => []IInv
<1>1. IInv /\ [Next]_vars => IInv'
  BY NextKeeps
<1> QED
  BY InitIInv, <1>1, PTL DEF Spec

\* Every variable keeps its type.
THEOREM TypeCorrect == Spec => []TypeOK
<1>1. IInv => TypeOK
  BY DEF IInv
<1> QED
  BY <1>1, Invariance, PTL

\* No script is ever started twice, and a job is with one process at most, of
\* its agent.
THEOREM ScriptsRunAtMostOnce == Spec => []RunAtMostOnce
<1>1. IInv => RunAtMostOnce
  BY DEF IInv, RunAtMostOnce, StartedOnce, JobsFit, OneCarrier, Holds
<1> QED
  BY <1>1, Invariance, PTL

\* The tables jobs and executions agree after every commit.
THEOREM ExecutionsAlwaysMatch == Spec => []ExecutionsMatchJobs
<1>1. IInv => ExecutionsMatchJobs
  BY DEF IInv
<1> QED
  BY <1>1, Invariance, PTL

-----------------------------------------------------------------------------
\* What a step can do to the jobs, and what it knew when it did.
LEMMA JobFacts ==
  ASSUME IInv, [Next]_vars
  PROVE  \/ UNCHANGED <<job, execs>>
         \/ \E j \in Jobs : job[j] = "absent" /\ job' = [job EXCEPT ![j] = "pending"]
                           /\ execs' = execs /\ ran' = ran
         \/ \E h \in Handlers, j \in Jobs, to \in Statuses :
              /\ handler[h].at \in {"admitted", "locked"}
              /\ handler[h].agent = AgentOfJob[j]
              /\ job' = [job EXCEPT ![j] = to] /\ ran' = ran
              /\ \A i \in Jobs \ {j} : Of(i)' = Of(i)
              /\ \/ job[j] = "pending" /\ to = "running"
                 \/ /\ job[j] = "running" /\ to \in Results
                    /\ to = "succeeded" => ran[j] = 1
<1>1. ASSUME NEW j \in Jobs, CreateJob(j)
      PROVE  /\ job[j] = "absent" /\ job' = [job EXCEPT ![j] = "pending"]
             /\ execs' = execs /\ ran' = ran
  BY <1>1 DEF CreateJob
<1>2. ASSUME NEW h \in Handlers, ClaimCommit(h)
      PROVE  /\ handler[h].at = "locked" /\ handler[h].job \in Jobs
             /\ handler[h].agent = AgentOfJob[handler[h].job]
             /\ job' = [job EXCEPT ![handler[h].job] = "running"] /\ ran' = ran
             /\ \A i \in Jobs \ {handler[h].job} : Of(i)' = Of(i)
             /\ job[handler[h].job] = "pending"
  <2>1. /\ handler[h].job \in Jobs /\ job[handler[h].job] = "pending"
        /\ AgentOfJob[handler[h].job] = handler[h].agent
    BY <1>2, ClaimCommitKeeps
  <2>2. \A i \in Jobs \ {handler[h].job} : Of(i)' = Of(i)
    BY <1>2 DEF ClaimCommit, Of
  <2> QED
    BY <1>2, <2>1, <2>2 DEF ClaimCommit
<1>3. ASSUME NEW h \in Handlers, SubmitCommit(h), Accepted(h)
      PROVE  /\ handler[h].at = "admitted" /\ handler[h].job \in Jobs
             /\ handler[h].agent = AgentOfJob[handler[h].job]
             /\ job' = [job EXCEPT ![handler[h].job] = handler[h].result] /\ ran' = ran
             /\ \A i \in Jobs \ {handler[h].job} : Of(i)' = Of(i)
             /\ job[handler[h].job] = "running" /\ handler[h].result \in Results
             /\ handler[h].result = "succeeded" => ran[handler[h].job] = 1
  <2> DEFINE j == handler[h].job
  <2>1. /\ handler[h].op = "submit" /\ handler[h].at = "admitted"
        /\ job' = [job EXCEPT ![j] = handler[h].result] /\ ran' = ran
        /\ execs' = WithResult(j, handler[h].result)
        /\ handler[h].agent = AgentOfJob[j]
    BY <1>3 DEF SubmitCommit, Accepted
  <2>2. /\ j \in Jobs /\ job[j] = "running"
        /\ handler[h].result = "succeeded" => ran[j] = 1
    BY <2>1, SubmissionFacts
  <2>3. handler[h].result \in Results
    BY <1>3 DEF Accepted
  <2>4. ASSUME NEW i \in Jobs \ {j}
        PROVE  Of(i)' = Of(i)
    <3>1. Of(j) = {[job |-> j, attempt |-> 1, status |-> "running"]}
      BY <2>2 DEF IInv, ExecutionsMatchJobs
    <3>2. Latest(j) \in Of(j)
      BY <3>1 DEF Latest
    <3>3. Latest(j) = [job |-> j, attempt |-> 1, status |-> "running"]
      BY <3>1, <3>2
    <3> HIDE DEF j
    <3> QED
      BY <2>1, <3>3 DEF WithResult, Of
  <2> QED
    BY <2>1, <2>2, <2>3, <2>4
<1>4. ASSUME NEW h \in Handlers, SubmitCommit(h), ~Accepted(h)
      PROVE  UNCHANGED <<job, execs>>
  BY <1>4 DEF SubmitCommit
<1>5. \/ UNCHANGED <<job, execs>>
      \/ \E j \in Jobs : CreateJob(j)
      \/ \E h \in Handlers : ClaimCommit(h) \/ SubmitCommit(h)
  BY DEF Next, HandlerNext, ProcessNext, LoopNext, Disable, Authenticate, Heartbeat,
         ClaimSelect, Answer, HandlerCrash, SendHeartbeat, SendClaim, SendResult,
         StartScript, RefuseScript, FinishScript, GiveUp, ProcessCrash, vars
<1> QED
  BY <1>1, <1>2, <1>3, <1>4, <1>5 DEF Results, Outcomes, Statuses

\* A result that was recorded is never changed.
THEOREM ResultsAreFinal == Spec => ResultIsFinal
<1>1. ASSUME IInv, [Next]_vars, NEW j \in Jobs, job[j] \in Results
      PROVE  job'[j] = job[j]
  <2>1. job \in [Jobs -> Statuses]
    BY <1>1 DEF IInv, TypeOK
  <2>2. job[j] \notin {"absent", "pending", "running"}
    BY <1>1 DEF Results, Outcomes
  <2> QED
    BY <1>1, <2>1, <2>2, JobFacts
<1>2. IInv /\ [Next]_vars => [\A j \in Jobs : job[j] \in Results => job'[j] = job[j]]_vars
  BY <1>1
<1> QED
  BY <1>2, Invariance, PTL DEF Spec, ResultIsFinal

\* A handler past the check of the status was so before, or finds its agent
\* not disabled.
LEMMA AdmittedFacts ==
  ASSUME IInv, [Next]_vars, NEW h \in Handlers, handler'[h].at \in {"admitted", "locked"}
  PROVE  /\ handler'[h].agent = handler[h].agent
         /\ handler[h].at \in {"admitted", "locked"} \/ handler[h].agent \notin disabled
<1> DEFINE Fact ==
             /\ handler'[h].agent = handler[h].agent
             /\ handler[h].at \in {"admitted", "locked"} \/ handler[h].agent \notin disabled
<1>1. handler \in [Handlers -> Handler]
  BY DEF IInv, TypeOK
<1>2. CASE handler'[h] = handler[h]
  BY <1>2
<1>3. ASSUME NEW g \in Handlers, HandlerNext(g) \/ HandlerCrash(g), handler'[h] # handler[h]
      PROVE  Fact
  <2>1. g = h
    BY <1>1, <1>3 DEF HandlerNext, Authenticate, Heartbeat, ClaimSelect, ClaimCommit,
                      SubmitCommit, Answer, HandlerCrash
  <2>2. CASE Authenticate(h)
    BY <1>1, <2>2 DEF Authenticate, Refused, Handler
  <2>3. CASE ClaimSelect(h)
    BY <1>1, <2>3 DEF ClaimSelect, Handler
  <2>4. CASE Heartbeat(h) \/ ClaimCommit(h) \/ SubmitCommit(h)
    BY <1>1, <2>4 DEF Heartbeat, ClaimCommit, SubmitCommit, Handler
  <2>5. CASE Answer(h) \/ HandlerCrash(h)
    BY <1>1, <2>5, RestFacts DEF Answer, HandlerCrash
  <2> QED
    BY <1>3, <2>1, <2>2, <2>3, <2>4, <2>5 DEF HandlerNext
<1>4. ASSUME NEW p \in Processes,
             SendHeartbeat(p) \/ SendClaim(p) \/ SendResult(p), handler'[h] # handler[h]
      PROVE  Fact
  <2>1. PICK op \in {"heartbeat", "claim", "submit"} : Send(p, op)
    BY <1>4 DEF SendHeartbeat, SendClaim, SendResult
  <2>2. PICK g : handler' = [handler EXCEPT ![g] =
          [op |-> op, at |-> "arrived", client |-> p, agent |-> Identity[p],
           job |-> proc[p].job, result |-> proc[p].result]]
    BY <2>1 DEF Send
  <2>3. handler'[h].at = "arrived"
    BY <1>1, <1>4, <2>2
  <2> QED
    BY <2>3
<1>5. ASSUME NEW p \in Processes, GiveUp(p) \/ ProcessCrash(p)
      PROVE  Fact
  <2>1. \/ handler'[h] = Free
        \/ handler'[h] = [handler[h] EXCEPT !.client = NoProcess]
        \/ handler'[h] = handler[h]
    BY <1>5 DEF GiveUp, ProcessCrash, Abandoned, Undelivered
  <2>2. [handler[h] EXCEPT !.client = NoProcess].at = handler[h].at
        /\ [handler[h] EXCEPT !.client = NoProcess].agent = handler[h].agent
    BY <1>1 DEF Handler
  <2> QED
    BY <2>1, <2>2, RestFacts
<1>6. \/ handler'[h] = handler[h]
      \/ \E g \in Handlers : HandlerNext(g) \/ HandlerCrash(g)
      \/ \E p \in Processes : \/ SendHeartbeat(p) \/ SendClaim(p) \/ SendResult(p)
                             \/ GiveUp(p) \/ ProcessCrash(p)
  BY DEF Next, ProcessNext, LoopNext, CreateJob, Disable, StartScript, RefuseScript,
         FinishScript, vars
<1> QED
  BY <1>2, <1>3, <1>4, <1>5, <1>6

\* A disabled agent stays disabled, and but for requests under way it is given
\* no job and changes none.
THEOREM DisabledStaysFinal == Spec => DisabledIsFinal
<1>1. ASSUME IInv, [Next]_vars
      PROVE  disabled \subseteq disabled'
  BY <1>1 DEF Next, HandlerNext, ProcessNext, LoopNext, CreateJob, Disable, Authenticate,
              Heartbeat, ClaimSelect, ClaimCommit, SubmitCommit, Touched, Answer,
              HandlerCrash, SendHeartbeat, SendClaim, SendResult, StartScript, RefuseScript,
              FinishScript, GiveUp, ProcessCrash, vars
<1>2. ASSUME IInv, [Next]_vars, NEW a \in disabled, ~UnderWay(a)
      PROVE  /\ ~UnderWay(a)'
             /\ \A j \in Jobs : AgentOfJob[j] = a /\ job[j] # "absent" =>
                  job'[j] = job[j] /\ Of(j)' = Of(j)
  <2>1. ~UnderWay(a)'
    <3>1. ASSUME NEW h \in Handlers, handler'[h].agent = a,
                 handler'[h].at \in {"admitted", "locked"}
          PROVE  FALSE
      BY <1>2, <3>1, AdmittedFacts DEF UnderWay
    <3> QED
      BY <3>1 DEF UnderWay
  <2>2. job \in [Jobs -> Statuses]
    BY <1>2 DEF IInv, TypeOK
  <2>3. ASSUME NEW j \in Jobs, AgentOfJob[j] = a, job[j] # "absent"
        PROVE  job'[j] = job[j] /\ Of(j)' = Of(j)
    <3>1. CASE UNCHANGED <<job, execs>>
      BY <3>1 DEF Of
    <3>2. CASE \E i \in Jobs : job[i] = "absent" /\ job' = [job EXCEPT ![i] = "pending"]
                             /\ execs' = execs
      BY <2>2, <2>3, <3>2 DEF Of
    <3>3. ASSUME NEW h \in Handlers, NEW i \in Jobs, NEW to \in Statuses,
                 handler[h].at \in {"admitted", "locked"}, handler[h].agent = AgentOfJob[i],
                 job' = [job EXCEPT ![i] = to],
                 \A k \in Jobs \ {i} : Of(k)' = Of(k)
          PROVE  job'[j] = job[j] /\ Of(j)' = Of(j)
      <4>1. i # j
        BY <1>2, <2>3, <3>3 DEF UnderWay
      <4> QED
        BY <2>2, <3>3, <4>1
    <3> QED
      BY <1>2, <3>1, <3>2, <3>3, JobFacts
  <2> QED
    BY <2>1, <2>3
<1>3. IInv /\ [Next]_vars =>
        [\A a \in disabled :
           /\ a \in disabled'
           /\ ~UnderWay(a) =>
                /\ ~UnderWay(a)'
                /\ \A j \in Jobs : AgentOfJob[j] = a /\ job[j] # "absent" =>
                     job'[j] = job[j] /\ Of(j)' = Of(j)]_vars
  BY <1>1, <1>2
<1> QED
  BY <1>3, Invariance, PTL DEF Spec, DisabledIsFinal

\* Every step is one of the life of a job, or changes neither its status nor
\* the number of its starts.
LEMMA StepImplementsLifecycle ==
  ASSUME IInv, [Next]_vars
  PROVE  [Lifecycle!Next]_<<job, ran>>
<1>1. ASSUME NEW p \in Processes, StartScript(p)
      PROVE  Lifecycle!Next
  <2> DEFINE j == proc[p].job
  <2>1. /\ j \in Jobs /\ Holds(p, j) /\ proc[p].at = "received"
        /\ job' = job /\ ran' = [ran EXCEPT ![j] = @ + 1] /\ ran \in [Jobs -> Nat]
    BY <1>1 DEF StartScript, IInv, TypeOK, JobsFit, Process, Holds
  <2>2. job[j] = "running" /\ ran[j] = 0
    BY <2>1 DEF IInv, CarriedIsRunning
  <2>3. ran' = [ran EXCEPT ![j] = 1]
    BY <2>1, <2>2
  <2> QED
    BY <2>1, <2>2, <2>3 DEF Lifecycle!Start, Lifecycle!Next
<1>2. ran' = ran \/ \E p \in Processes : StartScript(p)
  BY DEF Next, HandlerNext, ProcessNext, LoopNext, CreateJob, Disable, Authenticate,
         Heartbeat, ClaimSelect, ClaimCommit, SubmitCommit, Answer, HandlerCrash,
         SendHeartbeat, SendClaim, SendResult, RefuseScript, FinishScript, GiveUp,
         ProcessCrash, vars
<1>3. CASE ran' = ran
  <2>1. CASE job' = job
    BY <1>3, <2>1
  <2>2. ASSUME NEW j \in Jobs, job[j] = "absent", job' = [job EXCEPT ![j] = "pending"]
        PROVE  Lifecycle!Next
    BY <1>3, <2>2 DEF Lifecycle!Move, Lifecycle!Make, Lifecycle!Next
  <2>3. ASSUME NEW j \in Jobs, job[j] = "pending", job' = [job EXCEPT ![j] = "running"]
        PROVE  Lifecycle!Next
    BY <1>3, <2>3 DEF Lifecycle!Move, Lifecycle!HandOver, Lifecycle!Next
  <2>4. ASSUME NEW j \in Jobs, NEW to \in Results, job[j] = "running",
               job' = [job EXCEPT ![j] = to], to = "succeeded" => ran[j] = 1
        PROVE  Lifecycle!Next
    BY <1>3, <2>4 DEF Lifecycle!Move, Lifecycle!Finish, Lifecycle!Next,
                      Lifecycle!Results, Results, Outcomes
  <2> QED
    BY <2>1, <2>2, <2>3, <2>4, JobFacts
<1> QED
  BY <1>1, <1>2, <1>3

\* Whatever the handlers and processes do, a job lives as JobLifecycle says.
THEOREM ImplementsLifecycle == Spec => LifecycleSpec
<1>1. Init => Lifecycle!Init
  BY DEF Init, Lifecycle!Init
<1> QED
  BY <1>1, Invariance, StepImplementsLifecycle, PTL DEF Spec, LifecycleSpec, Lifecycle!Spec

\* What JobLifecycle promises of any job.
Promised == INSTANCE JobLifecycleProofs WITH status <- job, starts <- ran

\* A job that succeeded has had its script started, exactly once, and a job that
\* has not been handed over has not (the loop of the agent).
THEOREM SuccessMeansStarted ==
  Spec => [](\A j \in Jobs :
               /\ job[j] = "succeeded" => ran[j] = 1
               /\ job[j] \in {"absent", "pending"} => ran[j] = 0)
<1>1. LifecycleSpec => Promised!Spec
  BY DEF LifecycleSpec, Lifecycle!Spec, Promised!Spec, Lifecycle!Init, Promised!Init,
         Lifecycle!Next, Promised!Next, Lifecycle!Make, Promised!Make, Lifecycle!HandOver,
         Promised!HandOver, Lifecycle!Start, Promised!Start, Lifecycle!Finish, Promised!Finish,
         Lifecycle!Move, Promised!Move, Lifecycle!Results, Promised!Results
<1>2. Promised!StartedAsToldInv =>
        \A j \in Jobs :
          /\ job[j] = "succeeded" => ran[j] = 1
          /\ job[j] \in {"absent", "pending"} => ran[j] = 0
  BY DEF Promised!StartedAsToldInv
<1> QED
  BY <1>1, <1>2, ImplementsLifecycle, Promised!StartedAsTold, PTL

-----------------------------------------------------------------------------
(* What faults cost.                                                       *)

\* Claims that nobody waits for any more and that may still take a job.
Doomed ==
  {h \in Handlers : /\ handler[h].op = "claim"
                    /\ handler[h].client = NoProcess
                    /\ handler[h].at \in {"arrived", "admitted", "locked"}}

\* A submission is made in the name of the agent of its job.
SubmissionsFit ==
  \A h \in Handlers : handler[h].op = "submit" =>
    handler[h].job # NoJob /\ AgentOfJob[handler[h].job] = handler[h].agent

\* Each fault has stranded a job, doomed a claim that may strand one, or neither.
CostInv ==
  /\ SubmissionsFit
  /\ Balance(Stranded, Doomed, lost + crashes)

\* The three ways a step can go: without cost, by a fault, or by the COMMIT of a
\* claim that was given up before.
CostsNothing ==
  /\ Stranded' \subseteq Stranded
  /\ Doomed' \subseteq Doomed
  /\ lost' + crashes' = lost + crashes

CostsOne ==
  /\ lost' + crashes' = lost + crashes + 1
  /\ \/ \E j : Stranded' \subseteq Stranded \union {j} /\ Doomed' \subseteq Doomed
     \/ \E h : Stranded' \subseteq Stranded /\ Doomed' \subseteq Doomed \union {h}

WasPaidFor ==
  /\ lost' + crashes' = lost + crashes
  /\ \E j : \E h \in Doomed : /\ Stranded' \subseteq Stranded \union {j}
                             /\ Doomed' \subseteq Doomed \ {h}

\* Whichever it is, the account stays balanced.
LEMMA CostsKeep ==
  ASSUME CostInv, TypeOK, CostsNothing \/ CostsOne \/ WasPaidFor
  PROVE  Balance(Stranded', Doomed', lost' + crashes')
<1>1. lost + crashes \in Nat /\ Balance(Stranded, Doomed, lost + crashes)
  BY DispatchAssumption DEF CostInv, TypeOK
<1>2. Costs(Stranded, Stranded', Doomed, Doomed', lost + crashes, lost' + crashes')
  BY DEF CostsNothing, CostsOne, WasPaidFor, Costs
<1> QED
  BY <1>1, <1>2, Balanced

\* Who loses no carrier is not stranded.
LEMMA StrandedFrom ==
  ASSUME NEW X,
         \A j \in Jobs \ X : job'[j] = "running" =>
           \/ AgentOfJob[j] \in disabled'
           \/ Covered(j)'
           \/ job[j] = "running" /\ ~Covered(j),
         disabled \subseteq disabled'
  PROVE  Stranded' \subseteq Stranded \union X
BY DEF Stranded

\* The carriers of a step that changes one handler.
LEMMA OtherHandlersCarry ==
  ASSUME NEW h \in Handlers, NEW new, handler \in [Handlers -> Handler],
         handler' = [handler EXCEPT ![h] = new], NEW j \in Jobs
  PROVE  /\ \A g \in Handlers \ {h} : Carries(g, j)' <=> Carries(g, j)
         /\ \A g \in Handlers \ {h} : g \in Doomed' <=> g \in Doomed
BY DEF Carries, Handing, Reporting, Doomed

\* A job is made, an agent is disabled, or nothing happens.
LEMMA OutsideCosts ==
  ASSUME IInv,
         (\E j \in Jobs : CreateJob(j)) \/ (\E a \in Agents : Disable(a)) \/ UNCHANGED vars
  PROVE  CostsNothing /\ handler' = handler
<1>1. UNCHANGED <<handler, proc, lost, crashes>> /\ disabled \subseteq disabled'
  BY DEF CreateJob, Disable, vars
<1>2. \A j \in Jobs : job'[j] = "running" => job[j] = "running"
  BY DEF CreateJob, Disable, vars, IInv, TypeOK
<1>3. \A j \in Jobs : Covered(j)' <=> Covered(j)
  BY <1>1 DEF Covered, Carries, Handing, Reporting, Works
<1>4. Stranded' \subseteq Stranded \union {}
  BY <1>1, <1>2, <1>3, StrandedFrom
<1>5. Doomed' = Doomed
  BY <1>1 DEF Doomed
<1> QED
  BY <1>1, <1>4, <1>5 DEF CostsNothing

\* The check of an agent, a heartbeat, and the SELECT of a claim.
LEMMA LookingCosts ==
  ASSUME IInv, SubmissionsFit, NEW h \in Handlers,
         Authenticate(h) \/ Heartbeat(h) \/ ClaimSelect(h)
  PROVE  CostsNothing
<1>1. /\ handler \in [Handlers -> Handler] /\ h \in DOMAIN handler
      /\ UNCHANGED <<job, proc, lost, crashes, disabled>>
  BY DEF Authenticate, Heartbeat, ClaimSelect, Touched, IInv, TypeOK
<1>2. PICK new : /\ handler' = [handler EXCEPT ![h] = new]
                 /\ new.op = handler[h].op /\ new.client = handler[h].client
                 /\ new.op = "submit" => new.job = handler[h].job
                 /\ new.op = "submit" =>
                      \/ handler[h].at = "arrived" /\ new.at = "admitted"
                      \/ new.at = "refused" /\ handler[h].agent \in disabled
                 /\ new.op = "claim" => handler[h].at \in {"arrived", "admitted"}
  <2>1. handler[h] \in Handler
    BY <1>1
  <2>2. CASE Authenticate(h)
    <3> DEFINE at == IF Refused(handler[h].agent) THEN "refused" ELSE "admitted"
               new == [handler[h] EXCEPT !.at = at]
    <3>1. handler' = [handler EXCEPT ![h] = new]
      BY <2>2 DEF Authenticate
    <3>2. new.op = handler[h].op /\ new.client = handler[h].client /\ new.job = handler[h].job
          /\ new.at = at
      BY <2>1 DEF Handler
    <3> QED
      BY <2>2, <3>1, <3>2 DEF Authenticate, Refused
  <2>3. CASE Heartbeat(h)
    <3>1. handler' = [handler EXCEPT ![h] = [handler[h] EXCEPT !.at = "answered"]]
      BY <2>3 DEF Heartbeat
    <3>2. handler[h].op = "heartbeat" /\ [handler[h] EXCEPT !.at = "answered"].op = "heartbeat"
          /\ [handler[h] EXCEPT !.at = "answered"].client = handler[h].client
      BY <2>1, <2>3 DEF Handler, Heartbeat
    <3> QED
      BY <3>1, <3>2
  <2>4. CASE ClaimSelect(h)
    <3>1. PICK new \in {[handler[h] EXCEPT !.at = "answered"],
                        [handler[h] EXCEPT !.at = "locked",
                                           !.job = FirstOf(Claimable(handler[h].agent))]} :
            handler' = [handler EXCEPT ![h] = new]
      BY <2>4 DEF ClaimSelect
    <3>2. new.op = handler[h].op /\ new.client = handler[h].client
      BY <2>1, <3>1 DEF Handler
    <3> QED
      BY <2>4, <3>1, <3>2 DEF ClaimSelect
  <2> QED
    BY <2>2, <2>3, <2>4
<1>3. handler'[h] = new
  BY <1>1, <1>2
<1>4. ASSUME NEW j \in Jobs, Covered(j)
      PROVE  AgentOfJob[j] \in disabled' \/ Covered(j)'
  <2>1. CASE Carries(h, j)
    <3>1. handler[h].op = "submit" /\ handler[h].job = j
      BY <1>1, <1>2, <2>1 DEF Carries, Handing, Reporting, Handler
    <3>2. AgentOfJob[j] = handler[h].agent
      BY <3>1 DEF SubmissionsFit
    <3>3. AgentOfJob[j] \in disabled' \/ Carries(h, j)'
      BY <1>1, <1>2, <1>3, <3>1, <3>2 DEF Carries, Reporting
    <3> QED
      BY <3>3 DEF Covered
  <2>2. ASSUME NEW g \in Handlers \ {h}, Carries(g, j)
        PROVE  Covered(j)'
    BY <1>1, <1>2, <2>2, OtherHandlersCarry DEF Covered
  <2>3. ASSUME NEW p \in Processes, Works(p, j)
        PROVE  Covered(j)'
    BY <1>1, <2>3 DEF Covered, Works
  <2> QED
    BY <1>4, <2>1, <2>2, <2>3 DEF Covered
<1>5. Stranded' \subseteq Stranded \union {}
  BY <1>1, <1>4, StrandedFrom
<1>6. Doomed' \subseteq Doomed
  BY <1>1, <1>2, <1>3 DEF Doomed
<1> QED
  BY <1>1, <1>5, <1>6 DEF CostsNothing

\* The COMMIT of a claim: somebody waits for the job, or the fault that took the
\* client away has been counted.
LEMMA ClaimCommitCosts ==
  ASSUME IInv, NEW h \in Handlers, ClaimCommit(h)
  PROVE  CostsNothing \/ WasPaidFor
<1> DEFINE new == [handler[h] EXCEPT !.at = "answered"]
<1>1. /\ handler \in [Handlers -> Handler] /\ job \in [Jobs -> Statuses]
      /\ handler' = [handler EXCEPT ![h] = new]
      /\ handler[h].op = "claim" /\ handler[h].at = "locked"
      /\ UNCHANGED <<proc, disabled, lost, crashes>>
  BY DEF ClaimCommit, Touched, IInv, TypeOK, ClaimsFit
<1>2. PICK j \in Jobs : j = handler[h].job /\ job' = [job EXCEPT ![j] = "running"]
  BY ClaimCommitKeeps DEF ClaimCommit
<1>3. /\ handler'[h] = new
      /\ new.at = "answered" /\ new.op = "claim" /\ new.job = handler[h].job
      /\ new.client = handler[h].client
  BY <1>1 DEF Handler
<1>4. ASSUME NEW i \in Jobs, Covered(i)
      PROVE  Covered(i)'
  <2>1. ~Carries(h, i)
    BY <1>1 DEF Carries, Handing, Reporting
  <2>2. ASSUME NEW g \in Handlers \ {h}, Carries(g, i)
        PROVE  Covered(i)'
    BY <1>1, <2>2, OtherHandlersCarry DEF Covered
  <2>3. ASSUME NEW p \in Processes, Works(p, i)
        PROVE  Covered(i)'
    BY <1>1, <2>3 DEF Covered, Works
  <2> QED
    BY <1>4, <2>1, <2>2, <2>3 DEF Covered
<1>5. \A i \in Jobs \ {j} : job'[i] = job[i]
  BY <1>1, <1>2
<1>6. Doomed' \subseteq Doomed \ {h}
  BY <1>1, <1>3, OtherHandlersCarry DEF Doomed
<1>7. CASE handler[h].client = NoProcess
  <2>1. h \in Doomed
    BY <1>1, <1>7 DEF Doomed
  <2>2. Stranded' \subseteq Stranded \union {j}
    BY <1>1, <1>4, <1>5, StrandedFrom
  <2> QED
    BY <1>1, <1>6, <2>1, <2>2 DEF WasPaidFor
<1>8. CASE handler[h].client # NoProcess
  <2>1. Carries(h, j)'
    BY <1>2, <1>3, <1>8 DEF Carries, Handing
  <2>2. Covered(j)'
    BY <2>1 DEF Covered
  <2>3. Stranded' \subseteq Stranded \union {}
    BY <1>1, <1>4, <1>5, <2>2, StrandedFrom
  <2> QED
    BY <1>1, <1>6, <2>3 DEF CostsNothing
<1> QED
  BY <1>7, <1>8

\* The COMMIT of a submission: its job gets a result.
LEMMA SubmitCommitCosts ==
  ASSUME IInv, SubmissionsFit, NEW h \in Handlers, SubmitCommit(h)
  PROVE  CostsNothing
<1> DEFINE j == handler[h].job
           new == [handler[h] EXCEPT !.at = "answered"]
<1>1. /\ handler \in [Handlers -> Handler] /\ job \in [Jobs -> Statuses]
      /\ handler' = [handler EXCEPT ![h] = new]
      /\ handler[h].op = "submit" /\ handler[h].at = "admitted"
      /\ UNCHANGED <<proc, disabled, lost, crashes>>
  BY DEF SubmitCommit, Touched, IInv, TypeOK
<1>2. j \in Jobs /\ job[j] = "running" /\ AgentOfJob[j] = handler[h].agent
  BY <1>1, SubmissionFacts DEF SubmissionsFit
<1>3. Accepted(h)
  <2>1. Of(j) # {}
    BY <1>2 DEF IInv, ExecutionsMatchJobs
  <2>2. handler[h].result \in Results
    BY <1>1 DEF Handler, Outcomes, Results
  <2> QED
    BY <1>2, <2>1, <2>2 DEF Accepted
<1>4. job' = [job EXCEPT ![j] = handler[h].result] /\ handler[h].result # "running"
  BY <1>1, <1>3 DEF SubmitCommit, Handler, Results, Outcomes
<1>5. job'[j] # "running" /\ \A i \in Jobs \ {j} : job'[i] = job[i]
  BY <1>1, <1>2, <1>4
<1>6. ASSUME NEW i \in Jobs \ {j}, Covered(i)
      PROVE  Covered(i)'
  <2>1. ~Carries(h, i)
    BY DEF Carries
  <2>2. ASSUME NEW g \in Handlers \ {h}, Carries(g, i)
        PROVE  Covered(i)'
    BY <1>1, <2>2, OtherHandlersCarry DEF Covered
  <2>3. ASSUME NEW p \in Processes, Works(p, i)
        PROVE  Covered(i)'
    BY <1>1, <2>3 DEF Covered, Works
  <2> QED
    BY <1>6, <2>1, <2>2, <2>3 DEF Covered
<1>7. Stranded' \subseteq Stranded \union {}
  <2> HIDE DEF j
  <2> QED
    BY <1>1, <1>5, <1>6, StrandedFrom
<1>8. Doomed' \subseteq Doomed
  BY <1>1, OtherHandlersCarry DEF Doomed, Handler
<1> QED
  BY <1>1, <1>7, <1>8 DEF CostsNothing

\* A process that waits for an answer has no work in hand.
LEMMA WaitingFacts ==
  ASSUME IInv, NEW h \in Handlers, handler[h].client # NoProcess
  PROVE  /\ handler[h].op # "free"
         /\ handler[h].client \in Processes
         /\ \A j \in Jobs : ~Works(handler[h].client, j)
         /\ \A g \in Handlers : handler[g].client = handler[h].client => g = h
<1>1. handler[h] \in Handler
  BY DEF IInv, TypeOK
<1>2. handler[h].op # "free" /\ handler[h].client \in Processes
  BY <1>1 DEF IInv, Linked, Handler
<1>3. proc[handler[h].client].at \in {"beating", "claiming", "submitting"}
  BY <1>1, <1>2 DEF IInv, Linked, Handler
<1> QED
  BY <1>2, <1>3 DEF IInv, Linked, Works

\* A handler is free again, and a client it had goes on: no other job is touched.
LEMMA FreedCarriers ==
  ASSUME IInv, NEW h \in Handlers,
         handler' = [handler EXCEPT ![h] = Free],
         \/ handler[h].client = NoProcess /\ proc' = proc
         \/ /\ handler[h].client # NoProcess
            /\ \E next : proc' = [proc EXCEPT ![handler[h].client] = next]
  PROVE  /\ \A j \in Jobs : Covered(j) => Carries(h, j) \/ Covered(j)'
         /\ Doomed' \subseteq Doomed
<1>1. /\ handler \in [Handlers -> Handler] /\ proc \in [Processes -> Process]
      /\ handler'[h] = Free
  BY DEF IInv, TypeOK
<1>2. ASSUME NEW j \in Jobs, NEW p \in Processes, Works(p, j)
      PROVE  Works(p, j)'
  <2>1. handler[h].client # p
    BY <1>2, WaitingFacts, DispatchAssumption
  <2>2. proc'[p] = proc[p]
    BY <1>1, <2>1
  <2> QED
    BY <1>2, <2>2 DEF Works
<1>3. ASSUME NEW j \in Jobs, NEW g \in Handlers \ {h}, Carries(g, j)
      PROVE  Carries(g, j)'
  BY <1>1, <1>3, OtherHandlersCarry
<1>4. Doomed' \subseteq Doomed
  BY <1>1, RestFacts, OtherHandlersCarry DEF Doomed
<1> QED
  BY <1>2, <1>3, <1>4 DEF Covered

\* A response is delivered: a job that was handed over is with its process.
LEMMA AnswerCosts ==
  ASSUME IInv, NEW h \in Handlers, Answer(h)
  PROVE  CostsNothing
<1>1. /\ handler' = [handler EXCEPT ![h] = Free]
      /\ proc \in [Processes -> Process]
      /\ UNCHANGED <<job, disabled, lost, crashes>>
      /\ \/ handler[h].client = NoProcess /\ proc' = proc
         \/ /\ handler[h].client # NoProcess
            /\ proc' = [proc EXCEPT ![handler[h].client] = Answered(handler[h])]
  BY DEF Answer, IInv, TypeOK
<1>2. /\ \A j \in Jobs : Covered(j) => Carries(h, j) \/ Covered(j)'
      /\ Doomed' \subseteq Doomed
  BY <1>1, FreedCarriers
<1>3. ASSUME NEW j \in Jobs, Carries(h, j)
      PROVE  Covered(j)'
  <2>1. PICK p \in Processes :
          /\ handler[h].client = p /\ handler[h].client # NoProcess
          /\ handler[h].job = j /\ handler[h].op = "claim" /\ handler[h].at = "answered"
          /\ j # NoJob
    BY <1>3, WaitingFacts, DispatchAssumption DEF Answer, Carries, Handing, Reporting
  <2>2. Answered(handler[h]) = [Idle EXCEPT !.at = "received", !.job = j]
    BY <2>1 DEF Answered
  <2>3. proc'[p] = [Idle EXCEPT !.at = "received", !.job = j]
    BY <1>1, <2>1, <2>2
  <2>4. Works(p, j)'
    BY <2>1, <2>3 DEF Works, Idle
  <2> QED
    BY <2>1, <2>4 DEF Covered
<1>4. Stranded' \subseteq Stranded \union {}
  BY <1>1, <1>2, <1>3, StrandedFrom
<1> QED
  BY <1>1, <1>2, <1>4 DEF CostsNothing

\* The server dies: at worst the job of that request is stranded.
LEMMA HandlerCrashCosts ==
  ASSUME IInv, NEW h \in Handlers, HandlerCrash(h)
  PROVE  CostsOne
<1>1. /\ handler' = [handler EXCEPT ![h] = Free]
      /\ UNCHANGED <<job, disabled>>
      /\ lost' + crashes' = lost + crashes + 1
      /\ \/ handler[h].client = NoProcess /\ proc' = proc
         \/ /\ handler[h].client # NoProcess
            /\ proc' = [proc EXCEPT ![handler[h].client] = Idle]
  BY DispatchAssumption DEF HandlerCrash, IInv, TypeOK
<1>2. /\ \A j \in Jobs : Covered(j) => Carries(h, j) \/ Covered(j)'
      /\ Doomed' \subseteq Doomed
  BY <1>1, FreedCarriers
<1>3. \A j \in Jobs \ {handler[h].job} : ~Carries(h, j)
  BY DEF Carries
<1>4. Stranded' \subseteq Stranded \union {handler[h].job}
  BY <1>1, <1>2, <1>3, StrandedFrom
<1> QED
  BY <1>1, <1>2, <1>4 DEF CostsOne

\* A process dies, or gives up on its request: at worst that strands the job it
\* worked on, dooms the claim it waited for, or strands the job of its request.
LEMMA AbandonCosts ==
  ASSUME IInv, NEW p \in Processes, GiveUp(p) \/ ProcessCrash(p)
  PROVE  CostsOne
<1>1. /\ handler \in [Handlers -> Handler] /\ proc \in [Processes -> Process]
      /\ handler' \in {Abandoned(p), Undelivered(p)}
      /\ proc' = [proc EXCEPT ![p] = Idle]
      /\ UNCHANGED <<job, disabled>>
      /\ lost' + crashes' = lost + crashes + 1
      /\ p # NoProcess
  BY DispatchAssumption DEF GiveUp, ProcessCrash, IInv, TypeOK
<1>2. ASSUME NEW g \in Handlers
      PROVE  \/ handler[g].client # p /\ handler'[g] = handler[g]
             \/ /\ handler[g].client = p
                /\ \/ handler'[g] = [handler[g] EXCEPT !.client = NoProcess]
                   \/ handler'[g] = Free
  BY <1>1 DEF Abandoned, Undelivered
<1>3. ASSUME NEW q \in Processes, NEW j \in Jobs, Works(q, j), q # p \/ proc[p].job # j
      PROVE  Works(q, j)'
  <2>1. q # p
    BY <1>3 DEF Works
  <2> QED
    BY <1>1, <1>3, <2>1 DEF Works
<1>4. ASSUME NEW g \in Handlers, handler'[g] = handler[g]
      PROVE  /\ \A j \in Jobs : Carries(g, j)' <=> Carries(g, j)
             /\ g \in Doomed' <=> g \in Doomed
  BY <1>4 DEF Carries, Handing, Reporting, Doomed
<1>5. CASE \A g \in Handlers : handler[g].client # p
  <2>1. \A g \in Handlers : handler'[g] = handler[g]
    BY <1>2, <1>5
  <2>2. Doomed' \subseteq Doomed
    BY <1>4, <2>1 DEF Doomed
  <2>3. \A j \in Jobs \ {proc[p].job} : Covered(j) => Covered(j)'
    BY <1>3, <1>4, <2>1 DEF Covered
  <2>4. Stranded' \subseteq Stranded \union {proc[p].job}
    BY <1>1, <2>3, StrandedFrom
  <2> QED
    BY <1>1, <2>2, <2>4 DEF CostsOne
<1>6. ASSUME NEW h \in Handlers, handler[h].client = p
      PROVE  CostsOne
  <2>1. /\ \A j \in Jobs : ~Works(p, j)
        /\ \A g \in Handlers \ {h} : handler'[g] = handler[g]
    BY <1>1, <1>2, <1>6, WaitingFacts
  <2>2. /\ \A j \in Jobs : Covered(j) => Carries(h, j) \/ Covered(j)'
        /\ \A g \in Handlers \ {h} : g \in Doomed' <=> g \in Doomed
    BY <1>3, <1>4, <2>1 DEF Covered
  <2>3. CASE Handing(h) \/ Reporting(h)
    <3>1. h \notin Doomed'
      <4>1. CASE handler'[h] = Free
        BY <4>1, RestFacts DEF Doomed
      <4>2. CASE handler'[h] = [handler[h] EXCEPT !.client = NoProcess]
        <5>1. handler[h] \in Handler
          BY <1>1
        <5>2. handler'[h].op = handler[h].op /\ handler'[h].at = handler[h].at
          BY <4>2, <5>1 DEF Handler
        <5> QED
          BY <2>3, <5>2 DEF Handing, Reporting, Doomed
      <4> QED
        BY <1>2, <1>6, <4>1, <4>2
    <3>2. Doomed' \subseteq Doomed
      BY <2>2, <3>1 DEF Doomed
    <3>3. \A j \in Jobs \ {handler[h].job} : ~Carries(h, j)
      BY DEF Carries
    <3>4. Stranded' \subseteq Stranded \union {handler[h].job}
      BY <1>1, <2>2, <3>3, StrandedFrom
    <3> QED
      BY <1>1, <3>2, <3>4 DEF CostsOne
  <2>4. CASE ~Handing(h) /\ ~Reporting(h)
    <3>1. \A j \in Jobs : ~Carries(h, j)
      BY <2>4 DEF Carries
    <3>2. Stranded' \subseteq Stranded \union {}
      BY <1>1, <2>2, <3>1, StrandedFrom
    <3>3. Doomed' \subseteq Doomed \union {h}
      BY <2>2 DEF Doomed
    <3> QED
      BY <1>1, <3>2, <3>3 DEF CostsOne
  <2> QED
    BY <2>3, <2>4
<1> QED
  BY <1>5, <1>6

\* The steps of a process with a job: it keeps it.
LEMMA ScriptCosts ==
  ASSUME IInv, NEW p \in Processes, StartScript(p) \/ RefuseScript(p) \/ FinishScript(p)
  PROVE  CostsNothing
<1>1. /\ UNCHANGED <<job, disabled, handler, lost, crashes>>
      /\ proc \in [Processes -> Process]
  BY DEF StartScript, RefuseScript, FinishScript, IInv, TypeOK
<1>2. /\ \A q \in Processes \ {p} : proc'[q] = proc[q]
      /\ proc'[p].at \in {"executing", "finished"} /\ proc'[p].job = proc[p].job
      /\ proc[p].at \in {"received", "executing"}
  <2>1. CASE StartScript(p)
    BY <1>1, <2>1 DEF StartScript, Goes, Process
  <2>2. CASE RefuseScript(p)
    BY <1>1, <2>2 DEF RefuseScript, Process
  <2>3. CASE FinishScript(p)
    BY <1>1, <2>3 DEF FinishScript, Process
  <2> QED
    BY <2>1, <2>2, <2>3
<1>3. ASSUME NEW q \in Processes, NEW j \in Jobs, Works(q, j)
      PROVE  Works(q, j)'
  BY <1>1, <1>2, <1>3 DEF Works
<1>4. \A j \in Jobs : Covered(j) => Covered(j)'
  BY <1>1, <1>3 DEF Covered, Carries, Handing, Reporting
<1>5. Stranded' \subseteq Stranded \union {}
  BY <1>1, <1>4, StrandedFrom
<1>6. Doomed' = Doomed
  BY <1>1 DEF Doomed
<1> QED
  BY <1>1, <1>5, <1>6 DEF CostsNothing

\* A request takes the job of its process along, if it is a submission.
LEMMA SendCosts ==
  ASSUME IInv, NEW p \in Processes, SendHeartbeat(p) \/ SendClaim(p) \/ SendResult(p)
  PROVE  /\ CostsNothing
         /\ \E h \in Handlers : \E new :
              /\ handler' = [handler EXCEPT ![h] = new]
              /\ new.op = "submit" => /\ new.job \in Jobs
                                     /\ AgentOfJob[new.job] = new.agent
<1>1. PICK op, at :
        /\ op \in {"heartbeat", "claim", "submit"}
        /\ Send(p, op) /\ Goes(p, at)
        /\ op # "submit" => proc[p].at \in {"idle", "ready"}
        /\ op = "submit" => proc[p].at = "finished"
  BY DEF SendHeartbeat, SendClaim, SendResult
<1>2. /\ UNCHANGED <<job, disabled, lost, crashes>>
      /\ handler \in [Handlers -> Handler] /\ proc \in [Processes -> Process]
      /\ p # NoProcess
  BY DispatchAssumption DEF SendHeartbeat, SendClaim, SendResult, IInv, TypeOK
<1> DEFINE request == [op |-> op, at |-> "arrived", client |-> p, agent |-> Identity[p],
                       job |-> proc[p].job, result |-> proc[p].result]
<1>3. PICK h \in Handlers : handler[h].op = "free" /\ handler' = [handler EXCEPT ![h] = request]
  BY <1>1 DEF Send, FreeHandlers
<1>4. PICK new : /\ handler' = [handler EXCEPT ![h] = new]
                 /\ new.op = op /\ new.at = "arrived" /\ new.client = p
                 /\ new.agent = Identity[p] /\ new.job = proc[p].job
  <2>1. /\ request.op = op /\ request.at = "arrived" /\ request.client = p
        /\ request.agent = Identity[p] /\ request.job = proc[p].job
    OBVIOUS
  <2> HIDE DEF request
  <2> QED
    BY <1>3, <2>1
<1>5. handler'[h] = new
  BY <1>2, <1>4
<1>6. op = "submit" => proc[p].job \in Jobs /\ AgentOfJob[proc[p].job] = Identity[p]
  BY <1>1, <1>2 DEF IInv, JobsFit, Process
<1>7. ASSUME NEW j \in Jobs, Covered(j)
      PROVE  Covered(j)'
  <2>1. ~Carries(h, j)
    BY <1>3 DEF Carries, Handing, Reporting
  <2>2. ASSUME NEW g \in Handlers \ {h}, Carries(g, j)
        PROVE  Covered(j)'
    BY <1>2, <1>4, <2>2, OtherHandlersCarry DEF Covered
  <2>3. ASSUME Works(p, j)
        PROVE  Carries(h, j)'
    <3>1. op = "submit" /\ proc[p].job = j
      BY <1>1, <2>3 DEF Works
    <3> QED
      BY <1>4, <1>5, <3>1 DEF Carries, Reporting
  <2>4. ASSUME NEW q \in Processes \ {p}, Works(q, j)
        PROVE  Works(q, j)'
    BY <1>1, <1>2, <2>4 DEF Works, Goes
  <2> QED
    BY <1>7, <2>1, <2>2, <2>3, <2>4 DEF Covered
<1>8. Stranded' \subseteq Stranded \union {}
  BY <1>2, <1>7, StrandedFrom
<1>9. Doomed' \subseteq Doomed
  BY <1>2, <1>4, <1>5, OtherHandlersCarry DEF Doomed
<1>10. CostsNothing
  BY <1>2, <1>8, <1>9 DEF CostsNothing
<1> QED
  BY <1>4, <1>6, <1>10

\* Requests keep what they are about, and a new one is the agent's own.
LEMMA SubmissionsKeepFit ==
  ASSUME IInv, SubmissionsFit, [Next]_vars
  PROVE  SubmissionsFit'
<1>1. handler \in [Handlers -> Handler] /\ \A h \in Handlers : handler[h] \in Handler
  BY DEF IInv, TypeOK
<1>2. CASE handler' = handler
  BY <1>2 DEF SubmissionsFit
<1>3. ASSUME NEW h \in Handlers, NEW new, handler' = [handler EXCEPT ![h] = new],
             new.op = "submit" => new.job # NoJob /\ AgentOfJob[new.job] = new.agent
      PROVE  SubmissionsFit'
  BY <1>1, <1>3 DEF SubmissionsFit
<1>4. ASSUME NEW h \in Handlers, NEW at, handler' = [handler EXCEPT ![h].at = at]
      PROVE  SubmissionsFit'
  <2> DEFINE new == [handler[h] EXCEPT !.at = at]
  <2>1. new.op = handler[h].op /\ new.job = handler[h].job /\ new.agent = handler[h].agent
    BY <1>1 DEF Handler
  <2>2. handler' = [handler EXCEPT ![h] = new]
    BY <1>4
  <2> HIDE DEF new
  <2> QED
    BY <1>3, <2>1, <2>2 DEF SubmissionsFit
<1>5. ASSUME NEW h \in Handlers, HandlerNext(h) \/ HandlerCrash(h)
      PROVE  SubmissionsFit'
  <2>1. CASE Answer(h) \/ HandlerCrash(h)
    BY <1>3, <2>1, RestFacts DEF Answer, HandlerCrash
  <2>2. CASE ClaimSelect(h)
    <3>1. PICK new : /\ handler' = [handler EXCEPT ![h] = new]
                     /\ new.op = "claim"
      <4>1. PICK new \in {[handler[h] EXCEPT !.at = "answered"],
                          [handler[h] EXCEPT !.at = "locked",
                                             !.job = FirstOf(Claimable(handler[h].agent))]} :
              handler' = [handler EXCEPT ![h] = new]
        BY <2>2 DEF ClaimSelect
      <4>2. new.op = "claim"
        BY <1>1, <2>2, <4>1 DEF ClaimSelect, Handler
      <4> QED
        BY <4>1, <4>2
    <3> QED
      BY <1>3, <3>1
  <2>3. CASE Authenticate(h) \/ Heartbeat(h) \/ ClaimCommit(h) \/ SubmitCommit(h)
    BY <1>4, <2>3 DEF Authenticate, Heartbeat, ClaimCommit, SubmitCommit
  <2> QED
    BY <1>5, <2>1, <2>2, <2>3 DEF HandlerNext
<1>6. ASSUME NEW p \in Processes, GiveUp(p) \/ ProcessCrash(p)
      PROVE  SubmissionsFit'
  <2>1. ASSUME NEW h \in Handlers
        PROVE  \/ handler'[h] \in {Free, handler[h]}
               \/ handler'[h] = [handler[h] EXCEPT !.client = NoProcess]
    BY <1>6 DEF GiveUp, ProcessCrash, Abandoned, Undelivered
  <2>2. ASSUME NEW h \in Handlers
        PROVE  \/ handler'[h].op = "free"
               \/ /\ handler'[h].op = handler[h].op /\ handler'[h].job = handler[h].job
                  /\ handler'[h].agent = handler[h].agent
    BY <1>1, <2>1, RestFacts DEF Handler
  <2> QED
    BY <2>2 DEF SubmissionsFit
<1>7. ASSUME NEW p \in Processes, ProcessNext(p)
      PROVE  SubmissionsFit'
  <2>1. CASE SendHeartbeat(p) \/ SendClaim(p) \/ SendResult(p)
    BY <1>3, <2>1, SendCosts, DispatchAssumption
  <2>2. CASE StartScript(p) \/ RefuseScript(p) \/ FinishScript(p)
    BY <1>2, <2>2 DEF StartScript, RefuseScript, FinishScript
  <2> QED
    BY <1>7, <2>1, <2>2 DEF ProcessNext, LoopNext
<1> QED
  BY <1>2, <1>5, <1>6, <1>7, OutsideCosts DEF Next

\* A job is left running for ever only by a fault, and each fault costs one job
\* at most (claim_job, submit_job_result and the loop of the agent).
THEOREM FaultsStrandAtMostOne == Spec => []FaultsStrandOneEach
<1>1. Init => CostInv
  <2> SUFFICES ASSUME Init PROVE CostInv
    OBVIOUS
  <2>1. SubmissionsFit
    BY RestFacts DEF Init, SubmissionsFit
  <2>2. Stranded = {} /\ Doomed = {}
    BY RestFacts DEF Init, Stranded, Doomed
  <2>3. lost + crashes = 0
    BY DEF Init
  <2> QED
    BY <2>1, <2>2, <2>3, FS_EmptySet DEF CostInv, Balance
<1>2. IInv /\ CostInv /\ [Next]_vars => CostInv'
  <2> SUFFICES ASSUME IInv, CostInv, [Next]_vars PROVE CostInv'
    OBVIOUS
  <2> USE DEF CostInv
  <2>1. ASSUME NEW h \in Handlers, HandlerNext(h) \/ HandlerCrash(h)
        PROVE  CostsNothing \/ CostsOne \/ WasPaidFor
    BY <2>1, LookingCosts, ClaimCommitCosts, SubmitCommitCosts, AnswerCosts,
       HandlerCrashCosts DEF HandlerNext
  <2>2. ASSUME NEW p \in Processes, ProcessNext(p) \/ GiveUp(p) \/ ProcessCrash(p)
        PROVE  CostsNothing \/ CostsOne \/ WasPaidFor
    BY <2>2, SendCosts, ScriptCosts, AbandonCosts DEF ProcessNext, LoopNext
  <2>3. CostsNothing \/ CostsOne \/ WasPaidFor
    BY <2>1, <2>2, OutsideCosts DEF Next
  <2>4. Balance(Stranded', Doomed', lost' + crashes')
    BY <2>3, CostsKeep DEF IInv
  <2> QED
    BY <2>4, SubmissionsKeepFit
<1>3. IInv /\ CostInv => FaultsStrandOneEach
  <2> SUFFICES ASSUME IInv, CostInv PROVE FaultsStrandOneEach
    OBVIOUS
  <2>1. Cardinality(Stranded) \in Nat /\ Cardinality(Doomed) \in Nat
    BY FS_CardinalityType DEF CostInv, Balance
  <2>2. lost \in Nat /\ crashes \in Nat
    BY DispatchAssumption DEF IInv, TypeOK
  <2> QED
    BY <2>1, <2>2 DEF CostInv, Balance, FaultsStrandOneEach
<1> QED
  BY <1>1, <1>2, <1>3, Invariance, PTL DEF Spec
===============================================================================
