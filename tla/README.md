# Formal model of BRAVO Script Monitor

This directory holds TLA+ specifications of BRAVO Script Monitor, the TLC
configurations that model-check them, and TLAPS proofs of their safety properties. Paths
such as `scheduler/engine.py` are relative to `src/backend/app/` unless they begin with
`src/`.

- [1. The system](#1-the-system)
- [2. The modules](#2-the-modules)
- [3. Scheduler](#3-scheduler)
- [4. Job dispatch](#4-job-dispatch)
- [5. Agent registration](#5-agent-registration)
- [6. Script repository](#6-script-repository)
- [7. Sessions](#7-sessions)
- [8. The runs](#8-the-runs)
- [9. The proofs](#9-the-proofs)
- [10. What the models showed about the code](#10-what-the-models-showed-about-the-code)
- [11. Plan](#11-plan)
- [12. What is not modelled](#12-what-is-not-modelled)

## 1. The system

A FastAPI backend over PostgreSQL decides which scripts run where and when; an
agent on each Windows server asks for its jobs, runs them and reports. Everything
the parts share is in the database: there are no in-process queues, callbacks or
caches. `database.py` gives each request a session of its own (READ COMMITTED, the
PostgreSQL default; `autoflush=False`, `expire_on_commit=False`) and rolls back a
session that is closed without a commit. Hence concurrency here means concurrent
transactions, and an interleaving point is a statement that reads or locks
committed data, or a `COMMIT`.

| Component | State it keeps | Operations | What is hard | What makes it correct |
|---|---|---|---|---|
| Scheduler engine (`scheduler/engine.py`) | `schedules.next_run_at/last_run_at/enabled`, `schedule_runs`, `jobs` | `process_due_schedules`: lock a batch of due rows with `FOR UPDATE SKIP LOCKED`, make a job and a run in a savepoint per row, commit once | several workers, crashes in mid-batch, an insert that fails inside an `except` clause, starvation behind a row that never moves | one job per occurrence; no occurrence lost; a due row is some day handled; the history agrees with the jobs |
| Schedules API (`scheduler/router.py`, `service.py`, `schemas.py`) | the same rows | create, list, get, patch, enable, disable, delete, run now | rows loaded before and written after a tick or another request; an UPDATE carries only the changed columns; checks that are queries of their own | a tick never fires for a row that a committed request has changed; an enabled schedule has a due time; history is not lost |
| Job dispatch (`agents/router.py`) | `jobs.status`, `executions`, `agents.status` | `get_current_agent`, `heartbeat`, `update_inventory`, `claim_job`, `submit_job_result` | claims that overlap or were given up by their client; submissions that come late; an agent that is disabled while its requests are under way | a job is handed out once; both tables agree; a result is final; a disabled agent stays disabled |
| Windows agent (`src/agent/windows/BravoScriptMonitor.Agent.ps1`) | what it is doing, in memory only | heartbeat, claim, check the hash, run, report, sleep | timeouts with a server that goes on, restarts, lost requests | a script is started at most once; its result arrives |
| Agent registration and inventory (`agents/router.py`) | `servers`, `agents` (token hash), `installations` | register; heartbeat and inventory are modelled with job dispatch | two first registrations at once; a response with the token that is lost | one server per host and one agent per server; a token known to its agent |
| Script repository (`scripts/router.py`) | `scripts`, `script_versions` | create, update, delete, add a version, publish | delete against a new version; which versions a schedule may name | a version once created stays; published code is immutable |
| Authentication (`auth/*`) | `users`, `refresh_tokens` | login, refresh, logout, me, create an API key | rotation in two commits; equal tokens; checks that are stale when the token is made | a replaced or logged out token stays so; sessions do not end one another; a deactivated user gets no more tokens |
| Organizations and installations (`api.py`) | `organizations`, `installations` | create, paged list | none: one statement each | unique constraints |
| Database session, settings, application start | none of their own | | decide where transactions begin and end | |
| Missed heartbeats, events, audit, Redis, console | tables or documents only | none in this commit | | |

How they interact: the scheduler engine and `POST /schedules/{id}/run` insert rows
into `jobs`; `claim_job` takes them from there; the agent posts the result to
`submit_job_result`, which writes `executions` and `jobs`. Schedules name a script
version and an agent by foreign key (`RESTRICT`), so neither can go while a
schedule needs it. Nothing in the repository calls `process_due_schedules`: a worker
process that calls it again and again is assumed by its docstring and by this model.

`PROJECT.json` lists the components with their status and every hazard at its line.

## 2. The modules

| Module | What it is |
|---|---|
| `ScheduleRow` | one row of `schedules` and the pure functions on it: first due time, what becomes of an occurrence, what a PATCH makes of a row, what an UPDATE of the changed columns makes of it |
| `Scheduler` | the tables, the ticks of the workers and the handlers of `/api/v1/schedules`; its properties |
| `OccurrenceLedger` | abstract: an append-only ledger of work, each occurrence in it at most once and never early |
| `OccurrenceLedgerProofs` | what follows from the ledger alone |
| `SchedulerProofs` | the proofs about `Scheduler` and the refinement of `OccurrenceLedger` |
| `MCScheduler` | instances of `Scheduler` for TLC |
| `JobDispatch` | the check of an agent, `heartbeat`, `claim_job`, `submit_job_result`, the agent loop, the requests between them and their faults; its properties |
| `JobLifecycle` | abstract: the life of a job as its owner sees it |
| `JobLifecycleProofs` | what follows from the lifecycle alone |
| `FaultAccounting` | lemmas for counting what faults cost, used by the two modules of proofs below |
| `JobDispatchProofs` | the proofs about `JobDispatch` and the refinement of `JobLifecycle` |
| `MCJobDispatch` | instances of `JobDispatch` for TLC |
| `AgentRegistration` | `register_agent` and the check of a token, who enrols agents, and what goes wrong between them |
| `AgentRegistrationProofs` | the proofs about `AgentRegistration` |
| `MCAgentRegistration` | instances of `AgentRegistration` for TLC |
| `ScriptRepository` | `/api/v1/scripts`, and the schedules and jobs that refer to versions |
| `ScriptRepositoryProofs` | the proofs about `ScriptRepository` |
| `MCScriptRepository` | an instance of `ScriptRepository` for TLC |
| `AuthTokens` | login, refresh, logout, the table `refresh_tokens` and the clients that hold the tokens |
| `AuthTokensProofs` | the proofs about `AuthTokens` |
| `MCAuthTokens` | an instance of `AuthTokens` for TLC |

Operators whose comment begins with *Mutant* are deliberate bugs, never used by a
specification: `PROJECT.json` names, for each property, the one that breaks it.

## 3. Scheduler

**State.** `row` is the table `schedules` with the columns that the code decides on
(priority, retry, timeout, parallelism and target filter are stored and never read);
`exists` says whether a key has a row; `runs` is `schedule_runs`, with the cascade of
its foreign key; `jobs` are the jobs made, each with `xid`, the transaction that made
it, so that two jobs for one occurrence are different elements of the set even if all
their columns agree. `tick[w]` is the batch worker `w` holds locked, the rows as
loaded and its `now`. `request[c]` is a request in progress and the row as loaded.

**Steps.** `TickBegin` is the locking SELECT (`ORDER BY next_run_at, id LIMIT
batch_size`, `SKIP LOCKED`). `TickCommit` is the loop over the batch and the COMMIT:
what happens between the two is invisible to other sessions and touches locked rows
only, which `LockedRowsStable` checks and does not assume. Each row of a batch has
one `Outcome`: *skipped* (no agent, or late with the policy `skip`), *materialized*,
*duplicate* (the unique constraint on `schedule_runs` rejects the run and the
savepoint takes the job back; the row stays due), or *raised* (`dict(None)`; a failed
run is written and the row stays due). `TickRaise` is the case in which the insert of
that failed run violates the constraint in turn: the error leaves the function and the
whole batch is rolled back. `TickCrash` is a worker or connection that dies.

The handlers are a load (`Load`, under the guards of the handler) and a commit.
`CommitUpdate` writes the columns that differ from the loaded row over whatever the
table holds by then (`Merged`), waits while a tick holds the row, does nothing on a
deleted row (`StaleDataError`), and is undone if the CHECK constraint rejects the
merged row. A refused request changes nothing and is not a step.

**Abstractions.** A pair (expression, timezone) is an element of `Crons`; croniter and
zoneinfo are the constant `NextFire`, of which only "later than its argument" is
assumed. Time is discrete. The commit of a handler is one step, and a handler whose
UPDATE is waiting or in flight does not itself hide the row from `SKIP LOCKED`; a tick
that starts a moment earlier or later shows the same orders. An UPDATE that waits for a
row lock re-reads the row when the lock is released, which is what `Merged` does with
the row of that state. `null` as a value of the PATCH fields enabled, kind or misfire
policy violates NOT NULL and is a refused request; for `parameters` it does not, since
JSONB stores Python's `None` as JSON `null`: that PATCH commits, although the validation of
its response then fails and answers 500. The skip policy compares `next_run_at` with
the tick's own clock at microsecond precision (`engine.py:72`): a tick at exactly that
instant fires, any later one skips. The model has both cases; that with real clocks the
second is nearly the only one is worth knowing about the default policy, and not a
property of the model.

**Properties.**

| Property | Says |
|---|---|
| `TypeOK` | types, and the CHECK constraint holds of every live row, merged updates included |
| `LockedRowsStable` | what a tick has locked is held by no other worker and is in the table as loaded |
| `NoDuplicateJobs` | two jobs made by ticks are for different occurrences, also when requests make a schedule due again for an occurrence it has had |
| `RunJobAgreement` | one run per occurrence; pending runs and jobs of ticks correspond until the schedule is deleted |
| `EnabledHasNextRun` | an enabled schedule has a due time, whatever ticks commit between the load and the UPDATE of a request; two overlapping requests can lose it (section 10) |
| `OnlyOverlapsUnsettle` | a step parts `enabled` and due time only if it is the UPDATE of a request over a row that has changed since the request loaded it |
| `FiringFollowsRow` | a tick commits a job only for a schedule that the committed tables say is enabled, due for it and assigned to that agent |
| `OccurrenceAccounted` | `last_run_at` moves past an occurrence only with a job or for one of the early returns |
| `DueIsHandled` | a due occurrence is some day dealt with |
| `TicksMoveOn` | a tick that does not crash moves every row of its batch to a later occurrence or to none, which makes room for the rows behind it |
| `LedgerSpec` | the scheduler implements `OccurrenceLedger` |
| `HistoryKept`, `RowsAreIndependent` | statements of the code and its documents that the code does not keep (section 10) |

**Fairness.** `TickFairness` says that time passes and that every worker that can take a
step of its tick some day does: the external worker that keeps calling
`process_due_schedules` is what the function is written for. No fairness is assumed of
requests. `TickCrash` has none and is bounded: a worker that died for ever is no worker.

## 4. Job dispatch

**State.** `job` is `jobs.status` (its value `queued` is assigned nowhere in the repository;
`cancelled` only by `submit_job_result`, which accepts it as a result,
`agents/router.py:204, 217, 223`, though the shipped agent never sends it: `Results` is what the
server accepts, `Outcomes` what the agent reports), `execs` the table `executions`, `disabled` the agents whose
status is `disabled`; the others are `online`, since registration makes them so and
nothing assigns `pending` or `offline`. `handler` are the requests the server is
handling, each *arrived*, *admitted* (the agent was loaded and found good), *locked* (a
claim between its SELECT and its COMMIT), *answered* or *refused*; `proc` are the agent
processes, `ran` counts, per job, how often its script was started on a machine.

**Steps.** `Authenticate` is `get_current_agent`, a query of its own before those of the
handler. `Heartbeat` is `heartbeat`, and `update_inventory` as well, which no client in
the repository calls. `ClaimSelect`/`ClaimCommit` are `claim_job`; its branch for a job
whose version is gone is unreachable, since the foreign key is `RESTRICT`. `SubmitCommit`
is `submit_job_result`. `SendHeartbeat`, `SendClaim`, `Answer`, `StartScript`,
`RefuseScript` (wrong hash or unwritable file), `FinishScript`, `SendResult` follow the
loop of the agent; a heartbeat that is refused or lost ends the round before its claim.
The faults: `GiveUp` is the client's timeout or a broken connection, after which the
handler either never saw the request or goes on without a client; `ProcessCrash` and
`HandlerCrash` lose what was in memory. Several processes may run under one identity: the
script does nothing against being started twice. `Disable` is an operator at the
database: the code tests for `disabled` and assigns it nowhere.

Each handler assigns `agent.status = online` (`agents/router.py:113, 139, 161, 180, 225`)
to a row it loaded before, and does not look again. That a concurrent disable survives
rests on two facts, which `Touched` puts together: the loaded row was `online`, or the
request would have been refused, and SQLAlchemy's UPDATE names only the columns that
differ from the loaded row. Its mutant, an UPDATE of the whole row, breaks
`DisabledIsFinal`; so would a status `offline` that some other code assigned.

**Abstractions.** `last_seen_at`, `version`, `capabilities` and `servers.inventory` are
left out: the last writer wins and no decision depends on them.
A job is made at a time not before its `scheduled_for`, so the test on it always passes
and only the order it gives is kept. `-Once`, a single round of the loop, is a process
that stops; the liveness properties are about the loop.

**Properties.** `RunAtMostOnce`, `ExecutionsMatchJobs`, `ResultIsFinal` (although
`submit_job_result` never looks at the status it overwrites), `DisabledIsFinal` (no
handler makes a disabled agent online again, and but for the requests that were under way
it gets and changes no job), `FaultsStrandOneEach` (a job that is running in the table and
nowhere else is the work of one lost request or crash, and no fault does this to two jobs,
also when the claim it cut off commits much later), `JobIsFinished` (a pending job ends with a
result, unless a request or machine fails, the agent is disabled, or a script that a process of
the agent runs never ends), `LifecycleSpec` (the refinement of
`JobLifecycle`), and `ResultArrives`, which does not hold (section 10).

**Fairness.** `Fairness`: a handler that can go on does, and so does a process in the loop
(`do { ... } while (-not $Once)`, `src/agent/windows/BravoScriptMonitor.Agent.ps1:139-155`,
with a `catch` around its body): the server and the loop do nothing else. A script need not
end: the agent waits for it without a limit (`Start-Process -Wait`, lines 106-107), and
`schedules.timeout_seconds` is stored and never read. So `FinishScript` is a step of
`ProcessNext` and not of `LoopNext`, which alone is fair, and `JobIsFinished` has its
condition `ScriptsEnd`. Deadlock is checked in this module: an idle process can always begin a round.

## 5. Agent registration

**State.** `servers` and `agents` are the two tables as committed, `handler` the
registrations the server is handling, `enrol` what each client was told. A server that a
transaction has flushed and not committed is in its handler only, and a rival INSERT of
the same host waits for it (`Blocked`).

**Steps.** `SelectServer`, `FlushServer` and `CommitAgent` are `register_agent`. The
SELECT for an existing agent and the unique constraint behind it lead to the same 409 and
the same rollback, so they are one test, at the commit. The flush of a server lies outside
the `try` block: a rival that was quicker is answered 500. `Answer` delivers a response,
`GiveUp` is a client that lost its connection while the registration goes on, and
`HandlerCrash` a server that dies. A client repeats a registration after a 500 or no
answer and stops at a 201 or 409.

**Properties.** `TypeOK` (with the unique constraints), `ServersHaveAgents` (all rows of a
registration or none), `CredentialsWork` (who was told of an enrolment can act as that
agent from then on, and nobody else can), `FaultsLockOutOneEach` (an agent whose token
nobody has is the work of one lost response or crash, no fault does this to two agents, and
a 409 is answered for agents that exist only), `EnrolmentEnds` (without a fault, every agent
somebody wants ends up with somebody who holds its token), and `CanBeEnrolled`, which does
not hold (section 10).

**Fairness.** Handlers go on, and a client that was not answered tries again; a
registration API that is called once and never again promises nothing.

**Abstractions.** Versions, capabilities, operating systems and inventories are left out:
no decision reads them. The heartbeat and inventory endpoints are in `JobDispatch`.

## 6. Script repository

**State.** The tables `script`, `version`, `schedule` and `job`, with the columns that
refer to one another, and the three kinds of request that act on what they read earlier:
`deleting` are the scripts a `delete_script` has found without versions, `manual` what a
`run_schedule_now` has loaded, `patching` the PATCHes of schedules between their load
(`UpdateScheduleLoads`, which validates the references against the row it read) and their
UPDATE (`UpdateScheduleCommits`, which writes the columns that differ from that row over
whatever the table holds by then). Two PATCHes of one schedule can so merge into a row that
neither validated. All other requests are single steps, because a constraint
of the database repeats their checks when they write (foreign keys, unique names and
labels) or because nothing changes what they checked (organizations). A key can be used
again when no row and no request remembers it, which makes a finite set of keys stand
for UUIDs.

**Properties.** `TypeOK` (with the unique constraints), `ReferencesHold` (versions have
scripts, schedules and jobs have versions), `OrganizationsAgree` (a job never brings a
script of one organization to an agent of another) and `VersionsAreKept`. The first two are
what makes the branch of `claim_job` for a job without a version dead code. `delete_script` alone does
not achieve this: its test is made before the DELETE, and the foreign keys of schedules and
jobs stop the cascade. Nothing stops it for a version that is not in use yet, so a version whose creation was answered 201 can vanish. `VersionsAreKept` says how far this
goes: a version that was there while no deletion of its script was under way is there for
ever, so only what was made after the test of a pending deletion can be lost.

A version need not be published to be scheduled: `published` is written and returned by
the API and read by no decision of the backend.

## 7. Sessions

**State.** `issued` are the tokens with a row in `refresh_tokens`, `revoked` those whose
row has a `revoked_at`, `active` the users with `is_active`, `handler` the requests the
server is handling, `client` what each client holds. `replaced`, the tokens a pair was
made for, is a history variable: no column records it. A token is the pair of its user and
the second of `iat`, because the string that `issue_token` signs contains nothing else
that varies (`exp` is `iat` plus a setting). Access tokens are in no table and are left
out, with `get_current_user` and the permissions, which only read.

**Steps.** `Check` is what login and refresh read before they write; `Revoke` the first
commit of refresh (`auth/router.py:74`); `CreatePair` is `_create_token_pair`, which
fails, uncaught, when the user has a token of that second (`Collides`). Reading the clock
and the commit are one step there: of several transactions that issue a token in one
second the first to commit is first, and one that has read an earlier second than it
commits in shows the same as one that committed earlier. `Logout` looks for the token
only, neither at its expiry nor at its user, and needs no step of its own for its SELECT:
a row never ceases to be revoked, and writing a later `revoked_at` over an earlier one
changes nothing that is read. `GiveUp` is a client that lost its connection, `HandlerCrash`
a server that dies, also between the two commits. `Deactivate` is an operator at the
database: no endpoint clears `is_active`.

A client is *in* while each refresh it sent was answered with a pair, and *unsure* once
one failed or was not answered. It goes on with the token it has; a login that failed
leaves it without one.

**Properties.**

| Property | Says |
|---|---|
| `TypeOK` | types; no token is of a later second |
| `TokensAreDistinct` | no two clients hold one token, although their strings can be equal |
| `HeldTokenWorks` | a client that is *in* holds a stored token that is not revoked: nobody else's requests end its session |
| `ReplacedIsRevoked` | a token is revoked before another is made for it, wherever refresh is cut off |
| `RevocationHolds` | a revoked token stays revoked and is exchanged by no request that was not under way |
| `DeactivationHolds` | a deactivated user gets tokens through no request that was not under way |

What the exceptions in these formulas stand for is worth knowing. A refresh that is cut
off between its commits, whose response is lost, or that collides with a login or refresh
of the same user in the same second leaves its client without a usable token: `HeldTokenWorks`
says that this is the only way. Two refreshes with one token that have both passed the test
of `revoked_at` both get as far as the new pair, which gives two sessions where they fall
into different seconds; and a logout that commits between the test and the first commit of
a refresh does not keep the pair from being made.

There is no liveness property: a client may log in again at any time or never, and each
request is answered by whatever the handler finds.

## 8. The runs

| Run | Asks | Bounds, and why they are enough |
|---|---|---|
| `scheduler_workers` | Do several workers, over several schedules, keep every safety property, with a worker that may die and a request in between? | 2 schedules, 2 workers, batches of 2, one request at a time, instants 0..2, one crash. Two workers and two rows give overlapping and divided batches; instants 0..2 give early, on time and late and a second cron occurrence. One-time and cron rows; patches that poison the parameters and that move a one-time schedule back to an occurrence it has had |
| `scheduler_requests` | Do two requests that race on one schedule with each other and a tick make a tick fire for what a committed request has changed, or break the ledger? | 1 schedule, 1 worker, 2 clients, one manual run; patches that unassign, move and change the kind, so that two column-wise updates can merge; `OnlyOverlapsUnsettle` says what the merging can and cannot do to `enabled` and the due time |
| `scheduler_progress` | Is every due occurrence handled, and does every tick make progress? | no requests; 2 schedules of five kinds, batches of 1 (so that one waits behind the other), 2 workers, one crash, instants 0..3 |
| `scheduler_history`, `scheduler_reenabled`, `scheduler_poison` | violations, section 10 | the smallest instance that shows them |
| `dispatch` | Do overlapping, lost and crashed requests of two processes keep jobs, executions and scripts right, what does a fault cost, does every job end whose agent's scripts do, and does a disabled agent stay so? | 3 jobs for 2 agents, of which one is served and may be disabled; 2 processes with the same identity; 2 handlers, so that an abandoned request and one of either process overlap; one lost request, one crash; any script may run for ever |
| `dispatch_results` | violation, section 10 | one job, one process |
| `registration` | Do registrations that race for one host and one agent leave whole rows and working tokens, what does a fault cost, and does each end? | three enrolments on one host, two of them of one agent; three handlers; one lost response, one crash. Two rivals for the host and two for the agent is all a pair of unique constraints can tell apart |
| `registration_lost` | violation, section 10 | one enrolment |
| `repository` | Do deletions, versions, schedules, patches, ticks and manual runs keep all references and organizations right, and which versions can a deletion take? | 3 scripts and 2 agents in 2 organizations, 2 versions, 1 schedule, 1 job, 2 names and labels, up to 2 PATCHes under way at once. A violation relates one job, one schedule, one version and one script, and needs a second of each to change to |
| `tokens` | Do sessions of one user stay apart, and do revocation and deactivation hold, when requests overlap, get lost and are cut off? | 2 clients of one user, whose tokens can be equal; 2 handlers; seconds 0..3 and a lifetime of 2, so that tokens collide, differ and expire; one lost request, one crash |

Symmetry: workers in the first run, clients in the second and in `tokens`; versions, labels and names
in `repository`. None of these is compared or named in a definition or a property;
schedules are not symmetric, since `ORDER BY id` compares them. Symmetry is used in runs without liveness properties only. `CHECK_DEADLOCK FALSE`
in the scheduler's runs: the clock has a last instant and schedules are not created
twice, so an instance stops when all is done. A registration that was answered is over,
so its runs stop as well; in `repository` a script can always be renamed or made.

The bounds are the constants `MaxClock`, `MaxManual`, `MaxCrashes`, `MaxLost`, `MaxPatching`, each used
in the guards of the steps it bounds. The properties of a tick relate at most two
workers and two rows, those of a claim at most two processes and the jobs they hold.

Every property of a passing run has a mutant in `PROJECT.json`, a plausible bug in one
mapped definition under which TLC finds the property violated in that same run.

## 9. The proofs

`SchedulerProofs` proves, for any sets of schedules, workers and clients, any payloads,
patches and batch size, and any bound on the time, jobs and crashes:

| Theorem | Property |
|---|---|
| `TypeCorrect` | `TypeOK` |
| `LockedRowsAreStable` | `LockedRowsStable` |
| `JobsAreUnique` | `NoDuplicateJobs` |
| `HistoryAgreesWithJobs` | `RunJobAgreement` |
| `FiringIsCurrent` | `FiringFollowsRow` |
| `OccurrencesAreAccounted` | `OccurrenceAccounted` |
| `ImplementsLedger` | `LedgerSpec` |
| `EnabledAlwaysHasNextRun` | `EnabledHasNextRun`, under `OneUpdate` |
| `OverlapsAloneUnsettle` | `OnlyOverlapsUnsettle` |
| `TicksAlwaysMoveOn` | `TicksMoveOn`, under `OnlyForward` |
| `HistoryIsKept` | `HistoryKept`, under `QuietDeletes` |

*Assumptions.* `NoneAssumption` (NULL is no number, agent or expression),
`ClockAssumption`, `CronAssumption` (the next occurrence is later), `SchedulerAssumption`
(keys are ordered like numbers and finitely many; payloads passed validation; the
batch size is positive). TLC evaluates each of them on every run of the scheduler.

*Argument.* `NoDuplicateJobs` is not inductive: a tick adds jobs for what it finds in
its batch, so one has to know that no other worker holds those rows, that the row in
the table is the one it loaded, that the run it inserts is the first of the occurrence,
and that runs and jobs correspond, or the absence of a run would say nothing about the
absence of a job. The invariant `IInv` is the conjunction of `TypeOK`, `TickInv` (locked
rows are disjoint, unchanged and were due when locked), `RequestInv` (a pending request
was validated against what it loaded) and `WorkInv` (history and jobs agree, transactions
are numbered upwards, and a schedule that was never created has no jobs; without the
last, creating a schedule could break the agreement). Preservation has one lemma per
action and, for the commit of a tick, one per part. The action properties and the
refinement follow from `IInv` in the state before the step.

Three properties do not hold of every behaviour (section 10). Their theorems say under
which condition on the requests they do. Each condition excludes the steps that break the
property and leaves everything else to happen in any order:

- `EnabledHasNextRun` under `OneUpdate`: no two PATCH, enable or disable requests of the
  same schedule overlap. Those of different schedules, ticks, deletions and manual runs may.
  The invariant `DueInv` says what ticks can do to a row between the load and the UPDATE of
  a request: one that was disabled when it was loaded is still as it was. So an UPDATE that
  writes `enabled` and finds no change in `next_run_at` finds the value it computed in the
  table as well. `OverlapsAloneUnsettle` has no condition: it says that no step but such an
  UPDATE ever makes `enabled` and the due time disagree.
- `TicksMoveOn` under `OnlyForward`: no UPDATE leaves a row with `parameters` null, or with a
  due time that has a run or lies before one that has. `AheadInv` says that then a live row
  has usable parameters and is due later than all it has runs for; so no tick raises, and
  none meets the unique constraint of `schedule_runs`. The run `scheduler_progress` has no
  requests, where the condition holds of itself; the theorem covers requests as well.
- `HistoryKept` under `QuietDeletes`: no tick records a run of a schedule between the check
  of a DELETE request and its DELETE. `DeleteInv` says that a schedule about to be deleted
  has no history.

`OccurrenceLedgerProofs` proves of the abstract ledger that no occurrence is in it twice
(`OccurrencesOnce`): the uniqueness of jobs is a consequence of what the ledger's actions
allow, and not an invariant it was given.

`ScriptRepositoryProofs` proves `TypeCorrect`, `ReferencesAlwaysHold` and
`OrganizationsAlwaysAgree`, for any scripts, versions, schedules, jobs, agents and
organizations, from `RepositoryAssumption` (every row belongs to an organization; NULL is
no row). `OrganizationsAgree` is not inductive: a job copies a schedule or what a request
loaded of one, so the invariant carries what `validate_schedule_references` established
for both (`SchedulesValid`, `ManualValid`). It validated a PATCH for the row it had loaded,
and the UPDATE meets another: `PatchesValid` says of each column a pending PATCH will write
that it is valid by itself, for the organization of the schedule, which no PATCH changes. So
any mixture of valid columns is valid.

`VersionsAreAlwaysKept` needs no more than a case distinction on the step.

`JobDispatchProofs` proves `TypeCorrect`, `ScriptsRunAtMostOnce` (`RunAtMostOnce`),
`ExecutionsAlwaysMatch` (`ExecutionsMatchJobs`), `ResultsAreFinal` (`ResultIsFinal`),
`DisabledStaysFinal` (`DisabledIsFinal`) and `ImplementsLifecycle` (`LifecycleSpec`), for any
jobs, agents, processes, handlers and bounds, from `DispatchAssumption`. A script is
started by a process that holds a job, so what has to be inductive is who may hold one:
`OneCarrier` says that a job is in one place, an answered claim whose client still waits,
a process, or a submission on its way (possibly of that process); `ClaimsFit`, that
locked jobs are pending and locked once; `CarriedIsRunning`, that a carried job is
running, so that no claim finds it again and no submission meets a result;
`StartedOnce`, that what was never handed over never ran; `Linked` and `JobsFit`
tie requests to the processes that wait for them. Without the excuse of a client that
left, `OneCarrier` would not hold: an answered claim whose client gave up carries nothing.
That `FirstOf` and the execution with the highest attempt exist uses that a non-empty set of
naturals has a smallest element (`WellFoundedInduction`).

`FaultsStrandAtMostOne` (`FaultsStrandOneEach`) is an account. That as many jobs are stranded
as there were faults is not inductive, because the harm can come long after the fault: a
claim whose client gave up goes on, and strands a job when it commits. `CostInv` therefore
counts such claims (`Doomed`) with the stranded jobs: together they are at most as many as the
faults. Each step either changes neither side, or is a fault that adds one element to one of
the two sets, or is the COMMIT of a doomed claim, which leaves one set for the other.
`FaultAccounting` proves once, over the library's facts on cardinalities, that such steps keep
the account. A claim that is doomed and commits nothing, or a submission that outlives its
client, costs less, hence the inequality.

`SuccessMeansStarted` says that a job recorded as succeeded had its script started exactly
once, and one that was not handed over did not. No run lists it: it is `StartedAsTold`, proved
in `JobLifecycleProofs` of the abstract lifecycle alone, carried over by `ImplementsLifecycle`
through an instance of that module.

`AgentRegistrationProofs` proves `TypeCorrect`, `ServersAlwaysHaveAgents`
(`ServersHaveAgents`) and `CredentialsAlwaysWork` (`CredentialsWork`), for any enrolments,
hosts, names, handlers and bounds. `ServerFits` is what the uncommitted INSERT contributes: a flushed
server differs, in key and host, from every committed and every other flushed one, so
that the commit keeps the unique constraints. `CredentialsFit` says of an answer on its way
what `CredentialsWork` says of one that arrived, and that no two of them are of one agent.
`FaultsLockOutAtMostOne` (`FaultsLockOutOneEach`) is an account like that of job dispatch: the
agents nobody was told the token of, and the registrations that go on without a client, are
together at most as many as the faults. `RefusalsFit` adds that a 409, on its way or
received, is of an agent that exists, which is why a client that stops at it stops rightly.

`AuthTokensProofs` proves `TypeCorrect`, `TokensStayDistinct`, `HeldTokenAlwaysWorks`,
`ReplacedIsAlwaysRevoked`, `RevocationAlwaysHolds` and `DeactivationAlwaysHolds`, for any
users, clients, handlers, lifetimes and bounds, from `TokenAssumption`. `HeldTokenWorks` is
not inductive: a client comes by its token through an answer, so an answer on its way
must be as good (`FreshIsGood`: not revoked, and in no other request or hand), and no
request must carry the token of a client that is in (`InIsQuiet`), or it could revoke it
after the client was answered.

*Only model-checked.* Liveness (`DueIsHandled`, `JobIsFinished`, `EnrolmentEnds`), which
needs fairness and `ENABLED`. What it rests on is proved: for `DueIsHandled`, `TicksMoveOn`;
for the other two, that without a fault no job is stranded and no agent unclaimed, which is
`FaultsStrandOneEach` and `FaultsLockOutOneEach` with no faults. The statements of section 10
are refuted by TLC; what is proved about the same matters is said there.

## 10. What the models showed about the code

Most of what the code and its documents say holds. Five statements do not.

1. *Execution history is not always kept* (`scheduler_history`, `HistoryKept`).
   `delete_schedule` refuses to delete a schedule with runs, by a query of its own. A
   tick that commits between that query and the DELETE has its run cascaded away; its
   job remains. This is the only way to lose a run (`HistoryIsKept`).
2. *A one-time schedule that is enabled again stays due for ever*
   (`scheduler_reenabled`, `DueIsHandled`). Enabling it sets `next_run_at` to the
   `run_at` that has a run already. Every tick undoes its job and leaves the row at the
   head of the queue, where it takes a place in every batch. Only an update that makes a
   recorded occurrence due again, or the null parameters of the next item, can do this
   (`TicksAlwaysMoveOn`).
3. *One bad row stops its neighbours* (`scheduler_poison`, `RowsAreIndependent`).
   `PATCH {"parameters": null}` is accepted. The first tick records a failed run; the
   second fails to record it again, inside the `except` clause, and loses the whole
   batch, as do all that follow.
4. *A result that cannot be delivered is dropped* (`dispatch_results`,
   `ResultArrives`). The agent keeps no queue, the server no timeout of running jobs:
   the job is running for ever. The script is still not run twice, and a fault loses one
   job at most (`FaultsStrandAtMostOne`).

5. *A registration whose response is lost cannot be repeated* (`registration_lost`,
   `CanBeEnrolled`). The response holds the only copy of the token; a second registration
   is answered 409, and no endpoint deletes an agent or replaces its token. A fault locks
   out one agent at most (`FaultsLockOutAtMostOne`).

Two more observations are no violations of a run.

*Overlapping updates of one schedule can leave it enabled without a due time.*
`initialize_next_run_at` is to "Calculate the first due time for an enabled schedule."
(`scheduler/engine.py:42`), and `EnabledHasNextRun` holds while the updates of a schedule do
not overlap (`EnabledAlwaysHasNextRun`), but not otherwise. First, a PATCH of `run_at` loads an
enabled one-time schedule, a disable of it commits, and the PATCH commits its new due time:
the row is disabled and has a due time. Then a PATCH of `run_at` and an enable both load that
row. The PATCH clears the due time, since the row is disabled; the enable computes the due
time the row already had, finds nothing changed in that column and writes `enabled` only. The
row is enabled and has no due time, so no tick will ever select it. TLC finds this with one
schedule and two clients, in the instance of `scheduler_requests`, which therefore lists
`OnlyOverlapsUnsettle` in place of `EnabledHasNextRun`: overlapping updates are the only cause,
for any number of clients and ticks (`OverlapsAloneUnsettle`).

*A script that hangs holds its agent.* The agent waits for each script for ever, and no code
reads `timeout_seconds`. With nothing lost, crashed or disabled, that job stays running and
the process claims no other. `JobIsFinished` promises an end only if the scripts end.

## 11. Plan

Done: every module of section 2, with a proof module for each component and each abstract
specification.

Not done: a composition of `Scheduler` and `JobDispatch` in one specification. Their
interface goes one way and is small: the scheduler inserts pending jobs, whose agent and
`scheduled_for` nothing changes afterwards, and never reads or deletes one. `JobDispatch`
assumes just this (`CreateJob`, and constants for the two columns), and `LedgerSpec`, proved of the
scheduler, says that its jobs are only ever added, once per occurrence and never early. With
`LifecycleSpec`, proved of `JobDispatch`, each occurrence is started at most once; the
product of the two state spaces would add no interleaving to that.

## 12. What is not modelled

- Organizations and installations (`api.py`): two inserts of one statement each under
  unique constraints; they act on nothing read before.
- API keys: `create_api_key` inserts a row that no code of this commit reads.
- Access tokens and permissions: only read, and checked per request.
- Password hashing, token encoding, hashing of script contents: library calls.
- Parsing of cron expressions and timezones, and daylight saving: croniter and
  zoneinfo, which the model takes as a function that goes forward.
- Lists and reads: they change nothing. They page by offset, so a reader that walks the
  pages while rows change can miss or repeat one; nothing in the repository walks them.
- Logging, settings, application start, the alembic skeleton (no migration exists).
- `src/agent/windows/BSMAgent.ps1`: a prototype that posts to a path the backend does
  not have.
- Missed heartbeats, events, audit, Redis and the console: named by the documents, not
  in the code.
