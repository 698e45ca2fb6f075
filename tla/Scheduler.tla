------------------------------ MODULE Scheduler ------------------------------
(***************************************************************************)
(* The scheduler of BRAVO Script Monitor: the tables schedules and         *)
(* schedule_runs, the jobs made from them, the workers that run            *)
(* process_due_schedules, and the handlers of /api/v1/schedules.           *)
(*                                                                         *)
(* PostgreSQL runs every session at READ COMMITTED.  What one session can  *)
(* see of another is therefore a committed statement, and the steps below  *)
(* are cut there: a tick is the locking SELECT and the COMMIT (its writes  *)
(* are invisible in between, and only touch rows it has locked); a handler *)
(* is the session.get that loads the row and the COMMIT that flushes the   *)
(* columns it changed, which waits for a row lock.  A request that is      *)
(* refused (404, 409, 422) changes nothing and is no step.                 *)
(***************************************************************************)
EXTENDS ScheduleRow

CONSTANTS
  Schedules,   \* the UUIDs of schedules, ordered as ORDER BY id orders them
  Workers,     \* processes that call process_due_schedules
  Clients,     \* concurrent requests to the schedules API
  BatchSize,   \* the argument batch_size
  Payloads,    \* bodies of POST /schedules
  Patches,     \* bodies of PATCH /schedules/{id}
  MaxManual,   \* bound: jobs made by POST /schedules/{id}/run
  MaxCrashes   \* bound: ticks cut off before their commit

ASSUME SchedulerAssumption ==
  /\ Schedules \subseteq Nat
  /\ IsFiniteSet(Schedules)
  /\ BatchSize \in Nat \ {0}
  /\ \A r \in Payloads : Payload(r)
  /\ Patches \subseteq Patch
  /\ MaxManual \in Nat
  /\ MaxCrashes \in Nat

VARIABLES
  clock,     \* datetime.now(UTC)
  exists,    \* which schedules have a row: never yet, live, or deleted
  row,       \* the table schedules
  runs,      \* the table schedule_runs
  jobs,      \* the jobs made so far; xid tells the transaction that made one
  xid,       \* the next transaction that makes jobs
  tick,      \* per worker: the batch it has locked, as loaded, and its now
  request,   \* per client: the request it is handling, and the row as loaded
  crashes    \* ticks cut off so far

vars == <<clock, exists, row, runs, jobs, xid, tick, request, crashes>>

Run == [sched : Schedules, for : Nat, status : {"pending", "failed"},
        job : Nat \union {None}]
Job == [xid : Nat, sched : Schedules, for : Nat, agent : Agents,
        via : {"tick", "manual"}]
Tick == [batch : SUBSET Schedules, now : 0..MaxClock,
         loaded : [Schedules -> Row]]
Request == [op : {"none", "update", "delete", "run"}, sched : Schedules \union {None},
            loaded : Row, at : 0..MaxClock, patch : Patch]

NoTick == [batch |-> {}, now |-> 0, loaded |-> [s \in Schedules |-> BlankRow]]
NoPatch == [fields |-> {}, values |-> BlankRow]
NoRequest == [op |-> "none", sched |-> None, loaded |-> BlankRow, at |-> 0,
              patch |-> NoPatch]

Init ==
  /\ clock = 0
  /\ exists = [s \in Schedules |-> "never"]
  /\ row = [s \in Schedules |-> BlankRow]
  /\ runs = {}
  /\ jobs = {}
  /\ xid = 1
  /\ tick = [w \in Workers |-> NoTick]
  /\ request = [c \in Clients |-> NoRequest]
  /\ crashes = 0

Live(s) == exists[s] = "live"
Locked(s) == \E w \in Workers : s \in tick[w].batch

\* Mutant: the SELECT of a tick takes no lock an UPDATE or DELETE would wait for.
WritableAlways(s) == s \in Schedules

\* An UPDATE or DELETE of the row gets past its lock.
Writable(s) == ~Locked(s)

Recorded(s, t) == \E r \in runs : r.sched = s /\ r.for = t

Elapse ==
  /\ clock < MaxClock
  /\ clock' = clock + 1
  /\ UNCHANGED <<exists, row, runs, jobs, xid, tick, request, crashes>>

-----------------------------------------------------------------------------
(* process_due_schedules                                                   *)

\* Mutant: an off-by-one in the comparison with the current time.
DueEarly(s) ==
  /\ Live(s)
  /\ row[s].enabled
  /\ row[s].next # None
  /\ row[s].next <= clock + 1

Due(s) ==
  /\ Live(s)
  /\ row[s].enabled
  /\ row[s].next # None
  /\ row[s].next <= clock

Before(s, u) ==
  \/ row[s].next < row[u].next
  \/ row[s].next = row[u].next /\ s < u

\* ORDER BY next_run_at, id LIMIT batch_size.
IsFirst(batch, candidates) ==
  /\ batch \subseteq candidates
  /\ batch # {}
  /\ \/ Cardinality(batch) = BatchSize
     \/ batch = candidates /\ Cardinality(batch) < BatchSize
  /\ \A s \in batch, u \in candidates \ batch : Before(s, u)

\* Mutant: a plain SELECT.
SelectableUnlocked == {s \in Schedules : Due(s)}

\* FOR UPDATE SKIP LOCKED.
Selectable == {s \in Schedules : Due(s) /\ ~Locked(s)}

\* The SELECT that locks a batch.  A tick that finds nothing is no step.
TickBegin(w) ==
  /\ tick[w].batch = {}
  /\ \E batch \in SUBSET Selectable :
       /\ IsFirst(batch, Selectable)
       /\ tick' = [tick EXCEPT ![w] =
            [batch |-> batch, now |-> clock,
             loaded |-> [s \in Schedules |->
                           IF s \in batch THEN row[s] ELSE BlankRow]]]
  /\ UNCHANGED <<clock, exists, row, runs, jobs, xid, request, crashes>>

\* The schedules of a batch for which the body of the loop has one outcome.
\* The rows of schedule_runs it runs into all belong to a schedule it locked.
WithOutcome(w, outcome) ==
  {s \in tick[w].batch :
     LET r == tick[w].loaded[s]
     IN  Outcome(r, tick[w].now, Recorded(s, r.next)) = outcome}

\* A schedule that raised gets a run with status failed; when its occurrence
\* has a run already, that insert raises inside the except clause.
Unrecordable(w) ==
  {s \in WithOutcome(w, "raised") : Recorded(s, tick[w].loaded[s].next)}

JobOfTick(w, s) ==
  [xid |-> xid, sched |-> s, for |-> tick[w].loaded[s].next,
   agent |-> tick[w].loaded[s].agent, via |-> "tick"]

RunOf(w, s) ==
  [sched |-> s, for |-> tick[w].loaded[s].next, status |-> "pending", job |-> xid]

\* Mutant: the failed run is inserted with the default status.
FailedRunWithoutStatus(w, s) ==
  [sched |-> s, for |-> tick[w].loaded[s].next, status |-> "pending", job |-> None]

FailedRunOf(w, s) ==
  [sched |-> s, for |-> tick[w].loaded[s].next, status |-> "failed", job |-> None]

\* Mutant: a schedule that raised is moved on as well.
MovedWithFailed(w) ==
  WithOutcome(w, "materialized") \union WithOutcome(w, "skipped")
    \union WithOutcome(w, "raised")

\* The schedules of a batch whose row the tick writes.
Moved(w) == WithOutcome(w, "materialized") \union WithOutcome(w, "skipped")

\* The loop over the batch and session.commit().
TickCommit(w) ==
  LET made == WithOutcome(w, "materialized")
  IN  /\ tick[w].batch # {}
      /\ Unrecordable(w) = {}
      /\ row' = [s \in Schedules |->
                   IF s \in Moved(w)
                   THEN LET r == tick[w].loaded[s]
                        IN  Merged(r, Advanced(r), row[s])
                   ELSE row[s]]
      /\ jobs' = jobs \union {JobOfTick(w, s) : s \in made}
      /\ runs' = runs \union {RunOf(w, s) : s \in made}
                      \union {FailedRunOf(w, s) : s \in WithOutcome(w, "raised")}
      /\ xid' = IF made = {} THEN xid ELSE xid + 1
      /\ tick' = [tick EXCEPT ![w] = NoTick]
      /\ UNCHANGED <<clock, exists, request, crashes>>

\* The IntegrityError of the except clause leaves process_due_schedules: the
\* session is closed without a commit and the whole batch is rolled back.
TickRaise(w) ==
  /\ Unrecordable(w) # {}
  /\ tick' = [tick EXCEPT ![w] = NoTick]
  /\ UNCHANGED <<clock, exists, row, runs, jobs, xid, request, crashes>>

\* The worker or its connection dies: PostgreSQL rolls back and unlocks.
TickCrash(w) ==
  /\ tick[w].batch # {}
  /\ crashes < MaxCrashes
  /\ crashes' = crashes + 1
  /\ tick' = [tick EXCEPT ![w] = NoTick]
  /\ UNCHANGED <<clock, exists, row, runs, jobs, xid, request>>

-----------------------------------------------------------------------------
(* The handlers of /api/v1/schedules                                       *)

CreateSchedule(s, p) ==
  /\ exists[s] = "never"
  /\ exists' = [exists EXCEPT ![s] = "live"]
  /\ row' = [row EXCEPT ![s] = [p EXCEPT !.next = InitialNextRunAt(p, clock)]]
  /\ UNCHANGED <<clock, runs, jobs, xid, tick, request, crashes>>

\* get_schedule_or_404, and what the handler goes on to.
Load(c, s, op, patch) ==
  /\ request[c].op = "none"
  /\ Live(s)
  /\ request' = [request EXCEPT ![c] =
       [op |-> op, sched |-> s, loaded |-> row[s], at |-> clock, patch |-> patch]]
  /\ UNCHANGED <<clock, exists, row, runs, jobs, xid, tick, crashes>>

\* PATCH: the merged configuration is validated against the row as loaded.
UpdateSchedule(c, s, p) ==
  /\ KindConfigured(Applied(row[s], p))
  /\ Load(c, s, "update", p)

SetScheduleEnabled(c, s, flag) == Load(c, s, "update", EnabledPatch(flag))

\* DELETE: the check for execution history is a query of its own.
DeleteSchedule(c, s) ==
  /\ ~ \E r \in runs : r.sched = s
  /\ Load(c, s, "delete", NoPatch)

\* run_schedule_now refuses a row without agent, and fails on one whose
\* parameters are JSON null.
ManualWork ==
  Cardinality({j \in jobs : j.via = "manual"})
    + Cardinality({c \in Clients : request[c].op = "run"})

RunSchedule(c, s) ==
  /\ row[s].agent # None
  /\ row[s].params = "object"
  /\ ManualWork < MaxManual
  /\ Load(c, s, "run", NoPatch)

Finished(c) == request' = [request EXCEPT ![c] = NoRequest]

\* The UPDATE of a PATCH, enable or disable request.  Its first due time was
\* computed at some instant after the row was loaded.  Without changed columns
\* there is no UPDATE; on a deleted row it matches nothing (StaleDataError);
\* a merged row that violates the CHECK constraint is rolled back (409).
CommitUpdate(c) ==
  LET q == request[c]
      s == q.sched
  IN  /\ q.op = "update"
      /\ \E now \in q.at..clock :
           LET new    == Patched(q.loaded, q.patch, now)
               result == Merged(q.loaded, new, row[s])
               writes == new # q.loaded /\ Live(s)
           IN  /\ writes => Writable(s)
               /\ row' = IF writes /\ KindConfigured(result)
                         THEN [row EXCEPT ![s] = result]
                         ELSE row
      /\ Finished(c)
      /\ UNCHANGED <<clock, exists, runs, jobs, xid, tick, crashes>>

\* The DELETE statement, and the foreign key's ON DELETE CASCADE.
CommitDelete(c) ==
  LET s == request[c].sched
  IN  /\ request[c].op = "delete"
      /\ Writable(s)
      /\ exists' = [exists EXCEPT ![s] = "deleted"]
      /\ row' = [row EXCEPT ![s] = BlankRow]
      /\ runs' = {r \in runs : r.sched # s}
      /\ Finished(c)
      /\ UNCHANGED <<clock, jobs, xid, tick, crashes>>

\* run_schedule_now inserts a job from the row as loaded; no run is recorded.
CommitRun(c) ==
  LET q == request[c]
  IN  /\ q.op = "run"
      /\ \E now \in q.at..clock :
           jobs' = jobs \union {[xid |-> xid, sched |-> q.sched, for |-> now,
                                 agent |-> q.loaded.agent, via |-> "manual"]}
      /\ xid' = xid + 1
      /\ Finished(c)
      /\ UNCHANGED <<clock, exists, row, runs, tick, crashes>>

-----------------------------------------------------------------------------
WorkerNext(w) == TickBegin(w) \/ TickCommit(w) \/ TickRaise(w) \/ TickCrash(w)

ClientNext(c) ==
  \/ \E s \in Schedules :
       \/ \E p \in Patches : UpdateSchedule(c, s, p)
       \/ \E flag \in BOOLEAN : SetScheduleEnabled(c, s, flag)
       \/ DeleteSchedule(c, s)
       \/ RunSchedule(c, s)
  \/ CommitUpdate(c)
  \/ CommitDelete(c)
  \/ CommitRun(c)

Next ==
  \/ Elapse
  \/ \E s \in Schedules, p \in Payloads : CreateSchedule(s, p)
  \/ \E w \in Workers : WorkerNext(w)
  \/ \E c \in Clients : ClientNext(c)

Spec == Init /\ [][Next]_vars

\* Time passes, and every worker keeps calling process_due_schedules.
TickFairness ==
  /\ WF_vars(Elapse)
  /\ \A w \in Workers : WF_vars(TickBegin(w) \/ TickCommit(w) \/ TickRaise(w))

FairSpec == Spec /\ TickFairness

-----------------------------------------------------------------------------
(* What must hold.                                                         *)

\* Every variable has its type, and a live row is what the CHECK constraint
\* of the table admits.
TypeOK ==
  /\ clock \in 0..MaxClock
  /\ exists \in [Schedules -> {"never", "live", "deleted"}]
  /\ row \in [Schedules -> Row]
  /\ \A s \in Schedules : Live(s) => KindConfigured(row[s])
  /\ runs \subseteq Run
  /\ jobs \subseteq Job
  /\ xid \in Nat
  /\ tick \in [Workers -> Tick]
  /\ request \in [Clients -> Request]
  /\ \A c \in Clients : request[c].op # "none" => request[c].sched \in Schedules
  /\ crashes \in 0..MaxCrashes

\* Between the locking SELECT of a tick and its COMMIT, no other worker holds
\* the same schedule and no handler changes or deletes it: what the tick read
\* is what it writes over (process_due_schedules, FOR UPDATE SKIP LOCKED).
LockedRowsStable ==
  /\ \A w, v \in Workers : w # v => tick[w].batch \intersect tick[v].batch = {}
  /\ \A w \in Workers : \A s \in tick[w].batch :
       /\ Live(s)
       /\ row[s] = tick[w].loaded[s]

TickJobs == {j \in jobs : j.via = "tick"}

\* "without creating duplicate jobs": whatever the workers, the crashes and
\* the requests do, one occurrence of a schedule makes one job at most, also
\* when a request makes a schedule due again for an occurrence it has had.
NoDuplicateJobs ==
  \A j, k \in TickJobs : j.sched = k.sched /\ j.for = k.for => j = k

\* The history agrees with the jobs: an occurrence has one run at most, a
\* pending run belongs to the job of its occurrence, a failed run has none,
\* and the job of an occurrence has a pending run until the schedule is
\* deleted (the two inserts of _materialize_schedule and its savepoint).
RunJobAgreement ==
  /\ \A r, q \in runs : r.sched = q.sched /\ r.for = q.for => r = q
  /\ \A r \in runs :
       /\ Live(r.sched)
       /\ r.status = "failed" => r.job = None
       /\ r.status = "pending" =>
            \E j \in TickJobs : j.xid = r.job /\ j.sched = r.sched /\ j.for = r.for
  /\ \A j \in TickJobs : Live(j.sched) =>
       \E r \in runs : r.sched = j.sched /\ r.for = j.for /\ r.status = "pending"

\* An enabled schedule has a due time, or it would never run again: the
\* column-wise UPDATE of a request that loaded its row before a tick wrote it
\* does not lose it (set_schedule_enabled).  Two such requests can.
EnabledHasNextRun ==
  \A s \in Schedules : Live(s) /\ row[s].enabled => row[s].next # None

Settled(s) == row[s].enabled <=> row[s].next # None

\* An UPDATE of a row that is not the one its request loaded any more.
Overlapped(s) ==
  \E c \in Clients :
    /\ request[c].op = "update"
    /\ request[c].sched = s
    /\ request[c].loaded # row[s]
    /\ request'[c] # request[c]

\* A schedule is enabled exactly while it has a due time, until a PATCH, enable
\* or disable request writes over what a tick or another request has committed
\* since it loaded the row: no step parts the two columns but such a one.
OnlyOverlapsUnsettle ==
  [][\A s \in Schedules :
       Live(s)' /\ ~Settled(s)' => (Live(s) /\ ~Settled(s)) \/ Overlapped(s)]_vars

\* A tick makes a job only for a schedule that, in the tables as they are
\* when it commits, is enabled and due for that occurrence, and hands it to
\* the agent it is then assigned to: an answered disable, reschedule, delete
\* or reassignment is never overtaken by a tick that read the row before.
FiringFollowsRow ==
  [][\A j \in jobs' \ jobs : j.via = "tick" =>
       /\ Due(j.sched)
       /\ j.for = row[j.sched].next
       /\ j.agent = row[j.sched].agent]_vars

\* An occurrence is left behind (last_run_at moves) only when a job was made
\* for it or one of the early returns of _materialize_schedule applies: no
\* crash, conflict or failure loses one.
OccurrenceAccounted ==
  [][\A s \in Schedules :
       Live(s) /\ exists'[s] = "live" /\ row'[s].last # row[s].last =>
         /\ row'[s].last = row[s].next
         /\ \/ PassedOver(row[s], clock)
            \/ \E j \in jobs' : /\ j.via = "tick"
                                /\ j.sched = s
                                /\ j.for = row[s].next]_vars

\* Every schedule with an occurrence is some day due for another one or for
\* none: a tick gets to it and deals with it ("lock and materialize due
\* schedules").
DueIsHandled ==
  \A s \in Schedules, t \in 0..MaxClock :
    (Due(s) /\ row[s].next = t) ~> ~(Due(s) /\ row[s].next = t)

\* What DueIsHandled rests on: a tick that has begun and does not crash commits,
\* and moves each row it has locked to a later occurrence or to none, so that
\* it makes room for the rows behind it (ORDER BY next_run_at LIMIT).
TicksMoveOn ==
  [][\A w \in Workers : tick[w].batch # {} /\ tick'[w].batch = {} /\ crashes' = crashes =>
       \A s \in tick[w].batch :
         /\ row'[s].last = row[s].next
         /\ row'[s].next # None => row'[s].next > row[s].next]_vars

\* The same of the schedules whose own row can be materialised: they do not
\* depend on what the other rows of a batch do ("process independent rows").
Sound(s) == row[s].params = "object" /\ ~Recorded(s, row[s].next)

RowsAreIndependent ==
  \A s \in Schedules, t \in 0..MaxClock :
    (Due(s) /\ row[s].next = t /\ Sound(s))
      ~> ~(Due(s) /\ row[s].next = t /\ Sound(s))

\* "Schedules with execution history cannot be deleted": a recorded run is
\* never lost (the 409 of delete_schedule).
HistoryKept ==
  [][\A r \in runs : \E q \in runs' : q.sched = r.sched /\ q.for = r.for]_vars

Ledger == INSTANCE OccurrenceLedger WITH work <- jobs, time <- clock
LedgerSpec == Ledger!Spec
=============================================================================
