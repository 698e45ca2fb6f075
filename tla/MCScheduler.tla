----------------------------- MODULE MCScheduler -----------------------------
(***************************************************************************)
(* Instances of Scheduler for TLC: schedules, payloads and patches small   *)
(* enough to explore, and cron expressions given by their period.          *)
(***************************************************************************)
EXTENDS Scheduler, TLC

CONSTANTS a1, c1

MCAgents == {a1}
MCCrons == {c1}

\* c1 fires at every instant but 0.
MCNextFire == [c \in MCCrons |-> [t \in 0..MaxClock |-> t + 1]]

CronRow(agent, misfire) ==
  [BlankRow EXCEPT !.enabled = TRUE, !.kind = "cron", !.cron = c1,
                   !.agent = agent, !.misfire = misfire]
OnceRow(at, misfire) ==
  [BlankRow EXCEPT !.enabled = TRUE, !.runAt = at, !.agent = a1,
                   !.misfire = misfire]

PatchOf(fields, values) == [fields |-> fields, values |-> values]

SetAgent(agent) == PatchOf({"agent"}, [BlankRow EXCEPT !.agent = agent])
SetRunAt(t) == PatchOf({"runAt"}, [BlankRow EXCEPT !.runAt = t])
SetNull == PatchOf({"params"}, [BlankRow EXCEPT !.params = "null"])
SetObject == PatchOf({"params"}, BlankRow)
ToCron == PatchOf({"kind", "cron", "runAt"},
                  [BlankRow EXCEPT !.kind = "cron", !.cron = c1])
ToOnce(t) == PatchOf({"kind", "cron", "runAt"}, [BlankRow EXCEPT !.runAt = t])

\* For several workers over two schedules.
WorkerPayloads == {OnceRow(1, "fire_once"), CronRow(a1, "fire_once")}
WorkerPatches == {SetNull, SetRunAt(1)}

\* Workers are alike too.
WorkerSymmetry == Permutations(Workers)

\* For concurrent requests to one schedule.
RequestPayloads == {OnceRow(1, "fire_once"), CronRow(a1, "skip")}
RequestPatches == {SetAgent(None), SetRunAt(1), ToCron}

\* Requests are alike: none of them is ordered or named in a property.
ClientSymmetry == Permutations(Clients)

\* For the progress of the workers: every kind of row, late ones included.
ProgressPayloads ==
  {OnceRow(0, "fire_once"), OnceRow(2, "skip"), CronRow(a1, "fire_once"),
   CronRow(a1, "skip"), CronRow(None, "skip")}

\* For the runs that show a violation, which need little.
OncePayloads == {OnceRow(1, "fire_once")}
CronPayloads == {CronRow(a1, "fire_once")}
NoPatches == {}
NullPatches == {SetNull}
===============================================================================
