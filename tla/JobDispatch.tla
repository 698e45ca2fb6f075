------------------------------ MODULE JobDispatch ------------------------------
(***************************************************************************)
(* How the jobs reach the Windows agents and their results come back: the  *)
(* handlers heartbeat, claim_job and submit_job_result of the agents API,  *)
(* the loop of BravoScriptMonitor.Agent.ps1, and the HTTP requests between *)
(* them.                                                                   *)
(*                                                                         *)
(* An agent process waits for one request at a time, but gives up after 60 *)
(* seconds; the handler of a request it gave up on goes on.  Several       *)
(* processes may run under the identity of one agent.  The database is     *)
(* READ COMMITTED: a handler first loads and checks the agent, then does   *)
(* its work; a claim is its SELECT FOR UPDATE and its COMMIT.  Of the row  *)
(* of an agent only the status is kept: no decision reads what a handler   *)
(* writes to last_seen_at, version and capabilities.                       *)
(***************************************************************************)
EXTENDS Integers, FiniteSets

CONSTANTS
  Jobs,           \* primary keys of jobs, in the order of created_at
  Agents,         \* primary keys of agents
  Processes,      \* running copies of the agent script
  Handlers,       \* requests the server can be handling at one time
  NoJob, NoProcess,
  AgentOfJob,     \* the column jobs.agent_id
  ScheduledFor,   \* the column jobs.scheduled_for
  Identity,       \* AgentId in the configuration of a process
  Revocable,      \* agents that an operator may disable
  MaxLost,        \* bound: requests a process gives up on
  MaxCrashes      \* bound: crashes of handlers and processes

ASSUME DispatchAssumption ==
  /\ Jobs \subseteq Nat
  /\ NoJob \notin Jobs
  /\ NoProcess \notin Processes
  /\ Agents # {}
  /\ AgentOfJob \in [Jobs -> Agents]
  /\ ScheduledFor \in [Jobs -> Nat]
  /\ Identity \in [Processes -> Agents]
  /\ Revocable \subseteq Agents
  /\ MaxLost \in Nat
  /\ MaxCrashes \in Nat

VARIABLES
  job,       \* per job: its status, "absent" before it is made
  execs,     \* the table executions
  disabled,  \* agents with the status disabled; the others are online
  handler,   \* per handler: the request it deals with and how far it is
  proc,      \* per process: what it is doing, with which job
  ran,       \* per job: how often its script was started on a machine
  lost,      \* requests given up so far
  crashes    \* crashes so far

vars == <<job, execs, disabled, handler, proc, ran, lost, crashes>>

\* The terminal statuses, and those of them that the agent script submits.
Results == {"succeeded", "failed", "cancelled"}
Outcomes == {"succeeded", "failed"}

\* Nothing assigns queued.
Statuses == {"absent", "pending", "running"} \union Results

Execution == [job : Jobs, attempt : Nat, status : Statuses]
Handler == [op : {"free", "heartbeat", "claim", "submit"},
            at : {"arrived", "admitted", "locked", "answered", "refused"},
            client : Processes \union {NoProcess}, agent : Agents,
            job : Jobs \union {NoJob}, result : Outcomes]
Process == [at : {"idle", "beating", "ready", "claiming",
                  "received", "executing", "finished", "submitting"},
            job : Jobs \union {NoJob}, result : Outcomes]

Idle == [at |-> "idle", job |-> NoJob, result |-> "failed"]
Free == [op |-> "free", at |-> "arrived", client |-> NoProcess,
         agent |-> CHOOSE a \in Agents : TRUE, job |-> NoJob, result |-> "failed"]

Init ==
  /\ job = [j \in Jobs |-> "absent"]
  /\ execs = {}
  /\ disabled = {}
  /\ handler = [h \in Handlers |-> Free]
  /\ proc = [p \in Processes |-> Idle]
  /\ ran = [j \in Jobs |-> 0]
  /\ lost = 0
  /\ crashes = 0

Of(j) == {e \in execs : e.job = j}

\* A job made by a tick or by POST /schedules/{id}/run.
CreateJob(j) ==
  /\ job[j] = "absent"
  /\ \A i \in Jobs : i < j => job[i] # "absent"
  /\ job' = [job EXCEPT ![j] = "pending"]
  /\ UNCHANGED <<execs, disabled, handler, proc, ran, lost, crashes>>

-----------------------------------------------------------------------------
(* The server                                                              *)

\* An operator sets agents.status to disabled; no endpoint does.
Disable(a) ==
  /\ a \in Revocable \ disabled
  /\ disabled' = disabled \union {a}
  /\ UNCHANGED <<job, execs, handler, proc, ran, lost, crashes>>

\* Mutant: the status of an agent is not looked at.
RefusedNever(a) == FALSE

Refused(a) == a \in disabled

\* get_current_agent loads the agent before the handler's own statements.
Authenticate(h) ==
  /\ handler[h].op # "free"
  /\ handler[h].at = "arrived"
  /\ handler' = [handler EXCEPT ![h].at =
       IF Refused(handler[h].agent) THEN "refused" ELSE "admitted"]
  /\ UNCHANGED <<job, execs, disabled, proc, ran, lost, crashes>>

\* Mutant: an UPDATE writes the whole row.
TouchedRow(a) == disabled \ {a}

\* agent.status = online, in each handler: the row was loaded as online, and
\* an UPDATE carries the columns that differ from the loaded row only.
Touched(a) == disabled

\* heartbeat, and update_inventory, which no client of the repository calls.
Heartbeat(h) ==
  /\ handler[h].op = "heartbeat"
  /\ handler[h].at = "admitted"
  /\ disabled' = Touched(handler[h].agent)
  /\ handler' = [handler EXCEPT ![h].at = "answered"]
  /\ UNCHANGED <<job, execs, proc, ran, lost, crashes>>

Locked(j) == \E h \in Handlers : handler[h].at = "locked" /\ handler[h].job = j

\* Mutant: the SELECT of a claim takes no lock.
ClaimableUnlocked(a) == {j \in Jobs : AgentOfJob[j] = a /\ job[j] = "pending"}

\* Mutant: the SELECT of a claim does not look at the status.
ClaimableAnyStatus(a) ==
  {j \in Jobs : AgentOfJob[j] = a /\ job[j] # "absent" /\ ~Locked(j)}

\* The WHERE clause of a claim, and SKIP LOCKED.  Nothing sets the status
\* queued, and a job's scheduled_for is never after the time it is made.
Claimable(a) ==
  {j \in Jobs : AgentOfJob[j] = a /\ job[j] = "pending" /\ ~Locked(j)}

\* ORDER BY scheduled_for, created_at LIMIT 1.
FirstOf(S) ==
  CHOOSE j \in S : \A i \in S :
    \/ ScheduledFor[j] < ScheduledFor[i]
    \/ ScheduledFor[j] = ScheduledFor[i] /\ j <= i

ClaimSelect(h) ==
  /\ handler[h].op = "claim"
  /\ handler[h].at = "admitted"
  /\ handler' = [handler EXCEPT ![h] =
       LET found == Claimable(handler[h].agent)
       IN  IF found = {}
           THEN [@ EXCEPT !.at = "answered"]
           ELSE [@ EXCEPT !.at = "locked", !.job = FirstOf(found)]]
  /\ disabled' = IF Claimable(handler[h].agent) = {}
                 THEN Touched(handler[h].agent) ELSE disabled
  /\ UNCHANGED <<job, execs, proc, ran, lost, crashes>>

\* len(job.executions) + 1
Attempt(j) == Cardinality(Of(j)) + 1

\* The job and its new execution are running when the claim commits.
ClaimCommit(h) ==
  LET j == handler[h].job
  IN  /\ handler[h].at = "locked"
      /\ job' = [job EXCEPT ![j] = "running"]
      /\ execs' = execs \union
           {[job |-> j, attempt |-> Attempt(j), status |-> "running"]}
      /\ disabled' = Touched(handler[h].agent)
      /\ handler' = [handler EXCEPT ![h].at = "answered"]
      /\ UNCHANGED <<proc, ran, lost, crashes>>

\* Mutant: a result is refused unless there was an execution before the last.
AcceptedSecond(h) ==
  /\ handler[h].result \in Results
  /\ AgentOfJob[handler[h].job] = handler[h].agent
  /\ \E e \in Of(handler[h].job) : e.attempt > 1

\* The conditions of submit_job_result, else 422, 404 or 409.
Accepted(h) ==
  /\ handler[h].result \in Results
  /\ AgentOfJob[handler[h].job] = handler[h].agent
  /\ Of(handler[h].job) # {}

Latest(j) == CHOOSE e \in Of(j) : \A f \in Of(j) : f.attempt <= e.attempt

\* Mutant: only the job gets the result.
WithResultLost(j, result) == execs

\* The execution with the highest attempt gets the result.
WithResult(j, result) ==
  (execs \ {Latest(j)}) \union {[Latest(j) EXCEPT !.status = result]}

\* What a submission reads cannot change before it commits: a job keeps its
\* agent and its executions.
SubmitCommit(h) ==
  LET j == handler[h].job
  IN  /\ handler[h].op = "submit"
      /\ handler[h].at = "admitted"
      /\ IF Accepted(h)
         THEN /\ job' = [job EXCEPT ![j] = handler[h].result]
              /\ execs' = WithResult(j, handler[h].result)
              /\ disabled' = Touched(handler[h].agent)
         ELSE UNCHANGED <<job, execs, disabled>>
      /\ handler' = [handler EXCEPT ![h].at = "answered"]
      /\ UNCHANGED <<proc, ran, lost, crashes>>

-----------------------------------------------------------------------------
(* The agent script                                                        *)

\* Handlers are alike: a request goes to whichever is free.
FreeHandlers == {h \in Handlers : handler[h].op = "free"}

Send(p, op) ==
  /\ FreeHandlers # {}
  /\ handler' = [handler EXCEPT ![CHOOSE h \in FreeHandlers : TRUE] =
       [op |-> op, at |-> "arrived", client |-> p, agent |-> Identity[p],
        job |-> proc[p].job, result |-> proc[p].result]]

Goes(p, at) == proc' = [proc EXCEPT ![p].at = at]

\* A round of the loop begins.
SendHeartbeat(p) ==
  /\ proc[p].at = "idle"
  /\ Send(p, "heartbeat")
  /\ Goes(p, "beating")
  /\ UNCHANGED <<job, execs, disabled, ran, lost, crashes>>

SendClaim(p) ==
  /\ proc[p].at = "ready"
  /\ Send(p, "claim")
  /\ Goes(p, "claiming")
  /\ UNCHANGED <<job, execs, disabled, ran, lost, crashes>>

\* What a process does with a response: 403 is an exception and ends the round.
Answered(r) ==
  CASE r.at = "answered" /\ r.op = "heartbeat" -> [Idle EXCEPT !.at = "ready"]
    [] r.at = "answered" /\ r.op = "claim" /\ r.job # NoJob ->
         [Idle EXCEPT !.at = "received", !.job = r.job]
    [] OTHER -> Idle

\* The response reaches its process, if that still waits.
Answer(h) ==
  /\ handler[h].at \in {"answered", "refused"}
  /\ handler' = [handler EXCEPT ![h] = Free]
  /\ proc' = IF handler[h].client = NoProcess THEN proc
             ELSE [proc EXCEPT ![handler[h].client] = Answered(handler[h])]
  /\ UNCHANGED <<job, execs, disabled, ran, lost, crashes>>

StartScript(p) ==
  /\ proc[p].at = "received"
  /\ ran' = [ran EXCEPT ![proc[p].job] = @ + 1]
  /\ Goes(p, "executing")
  /\ UNCHANGED <<job, execs, disabled, handler, lost, crashes>>

\* Mutants: the catch block reports success, or a cancelled job.
ResultOfCatch == "succeeded"
ResultOfCancel == "cancelled"

\* The catch block of Invoke-AgentJob.
ResultOfRefusal == "failed"

\* The hash of the script is not the one announced, or it cannot be written.
RefuseScript(p) ==
  /\ proc[p].at = "received"
  /\ proc' = [proc EXCEPT ![p].at = "finished", ![p].result = ResultOfRefusal]
  /\ UNCHANGED <<job, execs, disabled, handler, ran, lost, crashes>>

\* Start-Process -Wait returns, however long the script took.
FinishScript(p) ==
  /\ proc[p].at = "executing"
  /\ \E result \in Outcomes :
       proc' = [proc EXCEPT ![p].at = "finished", ![p].result = result]
  /\ UNCHANGED <<job, execs, disabled, handler, ran, lost, crashes>>

SendResult(p) ==
  /\ proc[p].at = "finished"
  /\ Send(p, "submit")
  /\ Goes(p, "submitting")
  /\ UNCHANGED <<job, execs, disabled, ran, lost, crashes>>

-----------------------------------------------------------------------------
(* Faults                                                                  *)

Abandoned(p) ==
  [h \in Handlers |->
     IF handler[h].client = p THEN [handler[h] EXCEPT !.client = NoProcess]
     ELSE handler[h]]

\* The request that has not been looked at yet did not get there at all.
Undelivered(p) ==
  [h \in Handlers |->
     IF handler[h].client = p /\ handler[h].at = "arrived" THEN Free
     ELSE Abandoned(p)[h]]

\* TimeoutSec, or a broken connection: the catch block of the loop logs the
\* error, and the next round begins.
GiveUp(p) ==
  /\ proc[p].at \in {"beating", "claiming", "submitting"}
  /\ lost < MaxLost
  /\ lost' = lost + 1
  /\ handler' \in {Abandoned(p), Undelivered(p)}
  /\ proc' = [proc EXCEPT ![p] = Idle]
  /\ UNCHANGED <<job, execs, disabled, ran, crashes>>

\* The process or its machine dies and is started again: it keeps nothing.
ProcessCrash(p) ==
  /\ proc[p].at # "idle"
  /\ crashes < MaxCrashes
  /\ crashes' = crashes + 1
  /\ handler' = Abandoned(p)
  /\ proc' = [proc EXCEPT ![p] = Idle]
  /\ UNCHANGED <<job, execs, disabled, ran, lost>>

\* The server dies: the transaction is rolled back, a response that was ready
\* is lost, and the process gets an error.
HandlerCrash(h) ==
  /\ handler[h].op # "free"
  /\ crashes < MaxCrashes
  /\ crashes' = crashes + 1
  /\ handler' = [handler EXCEPT ![h] = Free]
  /\ proc' = IF handler[h].client = NoProcess THEN proc
             ELSE [proc EXCEPT ![handler[h].client] = Idle]
  /\ UNCHANGED <<job, execs, disabled, ran, lost>>

-----------------------------------------------------------------------------
HandlerNext(h) ==
  \/ Authenticate(h) \/ Heartbeat(h)
  \/ ClaimSelect(h) \/ ClaimCommit(h) \/ SubmitCommit(h)
  \/ Answer(h)

LoopNext(p) ==
  \/ SendHeartbeat(p) \/ SendClaim(p) \/ SendResult(p)
  \/ StartScript(p) \/ RefuseScript(p)

ProcessNext(p) == LoopNext(p) \/ FinishScript(p)

Next ==
  \/ \E j \in Jobs : CreateJob(j)
  \/ \E a \in Agents : Disable(a)
  \/ \E h \in Handlers : HandlerNext(h) \/ HandlerCrash(h)
  \/ \E p \in Processes : ProcessNext(p) \/ GiveUp(p) \/ ProcessCrash(p)

Spec == Init /\ [][Next]_vars

\* The server works on the requests it has, and the agent loop goes on.  A
\* script need not end: the agent waits for it without a limit, and nothing
\* reads schedules.timeout_seconds.
Fairness ==
  /\ \A h \in Handlers : WF_vars(HandlerNext(h))
  /\ \A p \in Processes : WF_vars(LoopNext(p))

FairSpec == Spec /\ Fairness

-----------------------------------------------------------------------------
(* What must hold.                                                         *)

\* Every variable has its type.
TypeOK ==
  /\ job \in [Jobs -> Statuses]
  /\ execs \subseteq Execution
  /\ disabled \subseteq Revocable
  /\ handler \in [Handlers -> Handler]
  /\ proc \in [Processes -> Process]
  /\ ran \in [Jobs -> Nat]
  /\ lost \in 0..MaxLost
  /\ crashes \in 0..MaxCrashes

Holds(p, j) ==
  proc[p].job = j /\ proc[p].at \in {"received", "executing", "finished", "submitting"}

\* A script with effects on a machine is started once at most and by the
\* agent the job is for, whatever requests overlap, time out or die, and with
\* two processes under one identity (FOR UPDATE SKIP LOCKED in claim_job).
RunAtMostOnce ==
  /\ \A j \in Jobs : ran[j] <= 1
  /\ \A p, q \in Processes, j \in Jobs :
       Holds(p, j) => /\ Identity[p] = AgentOfJob[j]
                      /\ Holds(q, j) => p = q

\* The two tables a claim and a submission write agree after each commit: a
\* job that was claimed has one execution, the first, with the job's status.
ExecutionsMatchJobs ==
  \A j \in Jobs :
    IF job[j] \in {"absent", "pending"}
    THEN Of(j) = {}
    ELSE Of(j) = {[job |-> j, attempt |-> 1, status |-> job[j]]}

\* A recorded result is never changed, although submit_job_result does not
\* look at the status it overwrites: no late or repeated request reaches it.
ResultIsFinal ==
  [][\A j \in Jobs : job[j] \in Results => job'[j] = job[j]]_vars

\* A request of the agent has passed the check of its status.
UnderWay(a) ==
  \E h \in Handlers : handler[h].agent = a /\ handler[h].at \in {"admitted", "locked"}

\* "Agents authenticate independently using revocable credentials": no handler
\* writes online over the operator's disabled, and but for the requests that
\* were under way a disabled agent is given no job and changes none.
DisabledIsFinal ==
  [][\A a \in disabled :
       /\ a \in disabled'
       /\ ~UnderWay(a) =>
            /\ ~UnderWay(a)'
            /\ \A j \in Jobs : AgentOfJob[j] = a /\ job[j] # "absent" =>
                 job'[j] = job[j] /\ Of(j)' = Of(j)]_vars

\* A request or a machine has failed, or the agent of the job is disabled.
Excused(j) == lost + crashes > 0 \/ AgentOfJob[j] \in disabled

\* Each script that the process starts some day ends.
ScriptsEnd(p) == []<>(proc[p].at # "executing")

Serving(j) == {p \in Processes : Identity[p] = AgentOfJob[j]}

\* A pending job of an agent that is running ends with a result, unless it is
\* excused or a script of the agent's processes never ends: such a script keeps
\* its process, and with it the agent's other jobs, waiting (Start-Process -Wait).
JobIsFinished ==
  \A j \in Jobs : Serving(j) # {} /\ (\A p \in Serving(j) : ScriptsEnd(p)) =>
    (job[j] = "pending" ~> (job[j] \in Results \/ Excused(j)))

\* A handed over job on its way to its process.
Handing(h) ==
  handler[h].op = "claim" /\ handler[h].at = "answered" /\ handler[h].client # NoProcess

\* A result on its way to the table.
Reporting(h) == handler[h].op = "submit" /\ handler[h].at \in {"arrived", "admitted"}

\* The request h has job j, and may yet make something of it.
Carries(h, j) == handler[h].job = j /\ (Handing(h) \/ Reporting(h))

\* A process has the job and has not sent a result.
Works(p, j) == proc[p].job = j /\ proc[p].at \in {"received", "executing", "finished"}

\* Some request or process may yet report on the job.
Covered(j) ==
  \/ \E h \in Handlers : Carries(h, j)
  \/ \E p \in Processes : Works(p, j)

\* Jobs that are running in the table and nowhere else.
Stranded ==
  {j \in Jobs : job[j] = "running" /\ AgentOfJob[j] \notin disabled /\ ~Covered(j)}

\* A job is left running for ever only by a fault, and each fault costs one
\* job at most: what no client waits for any more (claim_job, which hands the
\* job to nobody; a submission, which arrives all the same), what dies with a
\* process, and the rounds that follow strand no other.
FaultsStrandOneEach == Cardinality(Stranded) <= lost + crashes

\* The agent "persists an offline queue, and submits results": the result of
\* a script that has ended is recorded, although a request fails.
ResultArrives ==
  \A p \in Processes, j \in Jobs :
    (proc[p].at = "finished" /\ proc[p].job = j) ~> (job[j] \in Results)

Lifecycle == INSTANCE JobLifecycle WITH status <- job, starts <- ran
LifecycleSpec == Lifecycle!Spec
===============================================================================
