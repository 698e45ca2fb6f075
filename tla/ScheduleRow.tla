----------------------------- MODULE ScheduleRow -----------------------------
(***************************************************************************)
(* One row of the table "schedules" and the pure functions the scheduler   *)
(* applies to it: when it is next due (engine.py), how an occurrence is    *)
(* handled (engine.py), what a PATCH makes of it and which columns of it   *)
(* an UPDATE statement carries (service.py and SQLAlchemy's unit of work). *)
(*                                                                         *)
(* Time is discrete and starts at 0.  A pair (cron expression, timezone)   *)
(* is one element of Crons; what croniter and zoneinfo make of the pair is *)
(* the constant NextFire, of which nothing is known but that it is later.  *)
(* The name, description, priority, target filter, retry, timeout and      *)
(* parallelism columns are left out: nothing in the source reads them.     *)
(***************************************************************************)
EXTENDS Integers, FiniteSets

CONSTANTS
  None,       \* SQL NULL
  Agents,     \* primary keys of the agents table
  Crons,      \* pairs (cron_expression, timezone)
  MaxClock,   \* bound: the last instant of a behaviour
  NextFire    \* NextFire[c][t]: first occurrence of c after instant t

ASSUME NoneAssumption ==
  /\ None \notin Nat
  /\ None \notin Agents
  /\ None \notin Crons

ASSUME ClockAssumption == MaxClock \in Nat

ASSUME CronAssumption ==
  /\ NextFire \in [Crons -> [0..MaxClock -> Nat]]
  /\ \A c \in Crons : \A t \in 0..MaxClock : NextFire[c][t] > t

Kinds == {"cron", "once"}
MisfirePolicies == {"skip", "fire_once"}

\* The JSONB column parameters holds an object or, after a PATCH with
\* "parameters": null, the JSON value null: JSONB stores None as JSON null,
\* which the NOT NULL constraint of the column does not reject.
Parameters == {"object", "null"}

Row ==
  [enabled  : BOOLEAN,
   kind     : Kinds,
   cron     : Crons \union {None},
   runAt    : Nat \union {None},
   next     : Nat \union {None},
   last     : Nat \union {None},
   agent    : Agents \union {None},
   params   : Parameters,
   misfire  : MisfirePolicies]

\* The value of a primary key that has no row.
BlankRow ==
  [enabled |-> FALSE, kind |-> "once", cron |-> None, runAt |-> None,
   next |-> None, last |-> None, agent |-> None, params |-> "object",
   misfire |-> "skip"]

\* The CHECK constraint ck_schedules_kind_configuration; the request schema
\* and update_schedule test the same condition.
KindConfigured(r) ==
  \/ r.kind = "cron" /\ r.cron # None /\ r.runAt = None
  \/ r.kind = "once" /\ r.cron = None /\ r.runAt # None

\* The body of POST /schedules: a row without execution state.
Payload(r) ==
  /\ r \in Row
  /\ KindConfigured(r)
  /\ r.params = "object"
  /\ r.next = None
  /\ r.last = None

-----------------------------------------------------------------------------
(* When a schedule is due, and what becomes of a due one.                  *)

\* The first due time of a row at instant now.
InitialNextRunAt(r, now) ==
  IF ~r.enabled THEN None
  ELSE IF r.kind = "once" THEN r.runAt
  ELSE NextFire[r.cron][now]

\* Mutant: a one-time schedule keeps its due time and stays enabled.
AdvancedOnceKept(r) ==
  IF r.kind = "once"
  THEN [r EXCEPT !.last = r.next]
  ELSE [r EXCEPT !.last = r.next, !.next = NextFire[r.cron][r.next]]

\* The row after its occurrence r.next is dealt with: a one-time schedule
\* switches itself off, a cron schedule moves to the occurrence after the one
\* it was due for (not after the current time).
Advanced(r) ==
  IF r.kind = "once"
  THEN [r EXCEPT !.last = r.next, !.next = None, !.enabled = FALSE]
  ELSE [r EXCEPT !.last = r.next, !.next = NextFire[r.cron][r.next]]

\* Mutant: the test for an assigned agent is missing.
PassedOverWithAgent(r, now) == r.misfire = "skip" /\ r.next < now

\* The early returns of _materialize_schedule that move on without a job.
PassedOver(r, now) ==
  \/ r.agent = None
  \/ r.misfire = "skip" /\ r.next < now

\* Mutant: schedule_runs has no unique constraint.
OutcomeNotUnique(r, now, recorded) ==
  IF PassedOver(r, now) THEN "skipped"
  ELSE IF r.params = "null" THEN "raised"
  ELSE "materialized"

\* What _materialize_schedule and the two except clauses around it do with a
\* row: dict(schedule.parameters) raises on JSON null before anything is
\* written; recorded says that schedule_runs has a row for this occurrence, so
\* that the flush raises IntegrityError and the savepoint undoes the job.
Outcome(r, now, recorded) ==
  IF PassedOver(r, now) THEN "skipped"
  ELSE IF r.params = "null" THEN "raised"
  ELSE IF recorded THEN "duplicate"
  ELSE "materialized"

-----------------------------------------------------------------------------
(* What a PATCH makes of a row.                                            *)

PatchFields ==
  {"enabled", "kind", "cron", "runAt", "agent", "params", "misfire"}

\* exclude_unset: the fields present in the body, and their values.
Patch == [fields : SUBSET PatchFields, values : Row]

Applied(r, p) ==
  LET value(field, old, new) == IF field \in p.fields THEN new ELSE old
  IN  [enabled |-> value("enabled", r.enabled, p.values.enabled),
       kind    |-> value("kind", r.kind, p.values.kind),
       cron    |-> value("cron", r.cron, p.values.cron),
       runAt   |-> value("runAt", r.runAt, p.values.runAt),
       next    |-> r.next,
       last    |-> r.last,
       agent   |-> value("agent", r.agent, p.values.agent),
       params  |-> value("params", r.params, p.values.params),
       misfire |-> value("misfire", r.misfire, p.values.misfire)]

\* Mutant: enabled is not one of the fields that ask for a recalculation.
SchedulingFieldsOfTime == {"kind", "cron", "runAt"}

SchedulingFields == {"enabled", "kind", "cron", "runAt"}

\* The object in memory after the loop of setattr and the recalculation.
Patched(r, p, now) ==
  IF p.fields \intersect SchedulingFields = {}
  THEN Applied(r, p)
  ELSE [Applied(r, p) EXCEPT !.next = InitialNextRunAt(Applied(r, p), now)]

\* /enable and /disable assign enabled and recalculate, as this patch does.
EnabledPatch(flag) ==
  [fields |-> {"enabled"}, values |-> [BlankRow EXCEPT !.enabled = flag]]

-----------------------------------------------------------------------------
(* What an UPDATE statement makes of a row.                                *)

\* SQLAlchemy's UPDATE sets the columns whose value in memory differs from
\* the one loaded; the others keep what the table holds when it runs.
Merged(loaded, new, stored) ==
  LET column(old, val, cur) == IF val = old THEN cur ELSE val
  IN  [enabled |-> column(loaded.enabled, new.enabled, stored.enabled),
       kind    |-> column(loaded.kind, new.kind, stored.kind),
       cron    |-> column(loaded.cron, new.cron, stored.cron),
       runAt   |-> column(loaded.runAt, new.runAt, stored.runAt),
       next    |-> column(loaded.next, new.next, stored.next),
       last    |-> column(loaded.last, new.last, stored.last),
       agent   |-> column(loaded.agent, new.agent, stored.agent),
       params  |-> column(loaded.params, new.params, stored.params),
       misfire |-> column(loaded.misfire, new.misfire, stored.misfire)]
=============================================================================
