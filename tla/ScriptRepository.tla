--------------------------- MODULE ScriptRepository ---------------------------
(***************************************************************************)
(* The script repository and what refers to it: scripts and their versions *)
(* (scripts/router.py), the schedules that name a version and an agent     *)
(* (validate_schedule_references), and the jobs made from schedules.       *)
(*                                                                         *)
(* Every request reads, checks and then writes in one commit.  A check     *)
(* that a constraint of the database repeats when the write is made, or    *)
(* whose outcome cannot change, is the guard of a single step.  Three      *)
(* requests act on what they read before: delete_script, whose check for   *)
(* versions no constraint repeats, update_schedule, which writes what      *)
(* differs from the row as loaded, and run_schedule_now, which copies it.  *)
(* A request that is refused or fails changes nothing and is no step.  A   *)
(* key without a row and in no request is as good as a new one, which is   *)
(* how the finite sets of keys stand for UUIDs.                            *)
(***************************************************************************)
EXTENDS Naturals, FiniteSets

CONSTANTS
  Scripts, Versions, Schedules, Jobs,   \* primary keys
  Agents, Organizations,
  Names,        \* the column scripts.name
  Labels,       \* the column script_versions.version
  OrgOfScript, OrgOfSchedule, OrgOfAgent,   \* columns that nothing updates
  None,         \* no row, or SQL NULL
  Keep,         \* a column that an UPDATE does not set
  MaxPatching   \* bound: different PATCHes that are under way at one time

VersionRow == [script : Scripts, label : Labels, published : BOOLEAN]
ReferenceRow == [version : Versions, agent : Agents \union {None}]
Work == [version : Versions, agent : Agents]
Patch == [of : Schedules, version : Versions \union {Keep},
          agent : Agents \union {None, Keep}]

ASSUME RepositoryAssumption ==
  /\ OrgOfScript \in [Scripts -> Organizations]
  /\ OrgOfSchedule \in [Schedules -> Organizations]
  /\ OrgOfAgent \in [Agents -> Organizations]
  /\ None \notin Names \union Agents \union VersionRow \union ReferenceRow \union Work
  /\ Keep \notin Versions \union Agents \union {None}

VARIABLES
  script,    \* the table scripts: the name of each
  version,   \* the table script_versions
  schedule,  \* the table schedules
  job,       \* the table jobs
  deleting,  \* scripts that a delete_script has found to have no versions
  patching,  \* what an update_schedule is going to write
  manual     \* what a run_schedule_now has loaded

vars == <<script, version, schedule, job, deleting, patching, manual>>

Init ==
  /\ script = [s \in Scripts |-> None]
  /\ version = [v \in Versions |-> None]
  /\ schedule = [d \in Schedules |-> None]
  /\ job = [j \in Jobs |-> None]
  /\ deleting = {}
  /\ patching = {}
  /\ manual = {}

VersionsOf(s) == {v \in Versions : version[v] # None /\ version[v].script = s}

-----------------------------------------------------------------------------
(* The handlers of /api/v1/scripts                                         *)

\* The unique constraint on (organization_id, name).
NameTaken(s, n) ==
  \E t \in Scripts \ {s} : OrgOfScript[t] = OrgOfScript[s] /\ script[t] = n

CreateScript(s, n) ==
  /\ script[s] = None
  /\ s \notin deleting
  /\ ~NameTaken(s, n)
  /\ script' = [script EXCEPT ![s] = n]
  /\ UNCHANGED <<version, schedule, job, deleting, patching, manual>>

UpdateScript(s, n) ==
  /\ script[s] # None
  /\ ~NameTaken(s, n)
  /\ script' = [script EXCEPT ![s] = n]
  /\ UNCHANGED <<version, schedule, job, deleting, patching, manual>>

\* Mutant: delete_script tests for published versions only.
WithoutPublished(s) == \A v \in VersionsOf(s) : ~version[v].published

\* script.versions is empty.
WithoutVersions(s) == VersionsOf(s) = {}

\* delete_script up to its test.
DeleteScriptChecks(s) ==
  /\ script[s] # None
  /\ WithoutVersions(s)
  /\ deleting' = deleting \union {s}
  /\ UNCHANGED <<script, version, schedule, job, patching, manual>>

\* Mutant: the foreign key of jobs does not restrict a deletion.
RestrictedBySchedules(s) ==
  \E v \in VersionsOf(s) :
    \E d \in Schedules : schedule[d] # None /\ schedule[d].version = v

\* The foreign keys of schedules and jobs restrict the deletion of a version.
Restricted(s) ==
  \E v \in VersionsOf(s) :
    \/ \E d \in Schedules : schedule[d] # None /\ schedule[d].version = v
    \/ \E j \in Jobs : job[j] # None /\ job[j].version = v

\* The DELETE, with ON DELETE CASCADE for versions made since the test; it
\* fails, with nothing changed, on a restricted version or a deleted script.
\* Another delete_script of the same script may still be under way.
DeleteScriptCommits(s) ==
  /\ s \in deleting
  /\ deleting' \in {deleting, deleting \ {s}}
  /\ IF script[s] = None \/ Restricted(s)
     THEN UNCHANGED <<script, version>>
     ELSE /\ script' = [script EXCEPT ![s] = None]
          /\ version' = [v \in Versions |->
                           IF v \in VersionsOf(s) THEN None ELSE version[v]]
  /\ UNCHANGED <<schedule, job, patching, manual>>

\* Mutant: versions of a script are not unique by label.
LabelNeverTaken(s, l) == FALSE

\* The unique constraint on (script_id, version).
LabelTaken(s, l) == \E v \in VersionsOf(s) : version[v].label = l

CreateScriptVersion(v, s, l) ==
  /\ version[v] = None
  /\ \A w \in manual \union patching : w.version # v
  /\ script[s] # None
  /\ ~LabelTaken(s, l)
  /\ version' = [version EXCEPT ![v] = [script |-> s, label |-> l, published |-> FALSE]]
  /\ UNCHANGED <<script, schedule, job, deleting, patching, manual>>

PublishScriptVersion(v) ==
  /\ version[v] # None
  /\ version' = [version EXCEPT ![v] = [@ EXCEPT !.published = TRUE]]
  /\ UNCHANGED <<script, schedule, job, deleting, patching, manual>>

-----------------------------------------------------------------------------
(* What refers to versions                                                 *)

\* Mutant: a schedule's agent may be of any organization.
ValidVersion(o, v, a) ==
  /\ version[v] # None
  /\ OrgOfScript[version[v].script] = o

\* validate_schedule_references
ValidReferences(o, v, a) ==
  /\ version[v] # None
  /\ OrgOfScript[version[v].script] = o
  /\ a # None => OrgOfAgent[a] = o

CreateSchedule(d, v, a) ==
  /\ schedule[d] = None
  /\ \A p \in patching : p.of # d
  /\ ValidReferences(OrgOfSchedule[d], v, a)
  /\ schedule' = [schedule EXCEPT ![d] = [version |-> v, agent |-> a]]
  /\ UNCHANGED <<script, version, job, deleting, patching, manual>>

Differing(new, old) == IF new = old THEN Keep ELSE new

\* update_schedule up to its validation of the row it is going to make, which
\* has version v and agent a.
UpdateScheduleLoads(d, v, a) ==
  /\ schedule[d] # None
  /\ schedule[d] # [version |-> v, agent |-> a]
  /\ ValidReferences(OrgOfSchedule[d], v, a)
  /\ patching' = patching \union
       {[of |-> d, version |-> Differing(v, schedule[d].version),
                   agent |-> Differing(a, schedule[d].agent)]}
  /\ Cardinality(patching') <= MaxPatching
  /\ UNCHANGED <<script, version, schedule, job, deleting, manual>>

\* An UPDATE leaves a column as it finds it unless it sets it.
Written(old, new) == IF new = Keep THEN old ELSE new

\* The UPDATE carries the columns that differ from the loaded row.  It fails,
\* with nothing changed, if the schedule is gone (StaleDataError) or the
\* version is (its foreign key).  Another PATCH may be about to write the same.
UpdateScheduleCommits(p) ==
  /\ p \in patching
  /\ patching' \in {patching, patching \ {p}}
  /\ IF schedule[p.of] = None \/ (p.version # Keep /\ version[p.version] = None)
     THEN UNCHANGED schedule
     ELSE schedule' = [schedule EXCEPT ![p.of] =
            [version |-> Written(@.version, p.version), agent |-> Written(@.agent, p.agent)]]
  /\ UNCHANGED <<script, version, job, deleting, manual>>

\* Whether the schedule has a history is the concern of Scheduler.
DeleteSchedule(d) ==
  /\ schedule[d] # None
  /\ schedule' = [schedule EXCEPT ![d] = None]
  /\ UNCHANGED <<script, version, job, deleting, patching, manual>>

Assigned(d) == schedule[d] # None /\ schedule[d].agent # None

WorkOf(d) == [version |-> schedule[d].version, agent |-> schedule[d].agent]

\* A tick has locked the schedule: what it copies is in the table.
TickMakesJob(j, d) ==
  /\ job[j] = None
  /\ Assigned(d)
  /\ job' = [job EXCEPT ![j] = WorkOf(d)]
  /\ UNCHANGED <<script, version, schedule, deleting, patching, manual>>

RunScheduleLoads(d) ==
  /\ Assigned(d)
  /\ manual' = manual \union {WorkOf(d)}
  /\ UNCHANGED <<script, version, schedule, job, deleting, patching>>

\* The schedule may be another by now, or gone; without the version the
\* foreign key of the job fails.  Another request may have loaded the same.
RunScheduleCommits(j, w) ==
  /\ w \in manual
  /\ job[j] = None
  /\ manual' \in {manual, manual \ {w}}
  /\ job' = IF version[w.version] = None THEN job ELSE [job EXCEPT ![j] = w]
  /\ UNCHANGED <<script, version, schedule, deleting, patching>>

-----------------------------------------------------------------------------
ScriptNext(s) ==
  \/ \E n \in Names : CreateScript(s, n) \/ UpdateScript(s, n)
  \/ DeleteScriptChecks(s)
  \/ DeleteScriptCommits(s)

VersionNext(v) ==
  \/ \E s \in Scripts, l \in Labels : CreateScriptVersion(v, s, l)
  \/ PublishScriptVersion(v)

ScheduleNext(d) ==
  \/ \E v \in Versions, a \in Agents \union {None} :
       CreateSchedule(d, v, a) \/ UpdateScheduleLoads(d, v, a)
  \/ DeleteSchedule(d)
  \/ RunScheduleLoads(d)

JobNext(j) ==
  \/ \E d \in Schedules : TickMakesJob(j, d)
  \/ \E w \in manual : RunScheduleCommits(j, w)

Next ==
  \/ \E s \in Scripts : ScriptNext(s)
  \/ \E v \in Versions : VersionNext(v)
  \/ \E d \in Schedules : ScheduleNext(d)
  \/ \E p \in patching : UpdateScheduleCommits(p)
  \/ \E j \in Jobs : JobNext(j)

Spec == Init /\ [][Next]_vars

-----------------------------------------------------------------------------
(* What must hold.                                                         *)

\* Every variable has its type, and the tables satisfy their unique
\* constraints.
TypeOK ==
  /\ script \in [Scripts -> Names \union {None}]
  /\ version \in [Versions -> VersionRow \union {None}]
  /\ schedule \in [Schedules -> ReferenceRow \union {None}]
  /\ job \in [Jobs -> Work \union {None}]
  /\ deleting \subseteq Scripts
  /\ patching \subseteq Patch
  /\ manual \subseteq Work
  /\ \A s \in Scripts : script[s] # None => ~NameTaken(s, script[s])
  /\ \A u, v \in Versions :
       (version[u] # None /\ version[v] # None
         /\ version[u].script = version[v].script
         /\ version[u].label = version[v].label) => u = v

\* Every version belongs to a script, and every schedule and every job names a
\* version, although a script is deleted on the strength of a test made
\* before: the branch of claim_job for a job without its version is dead.
ReferencesHold ==
  /\ \A v \in Versions : version[v] # None => script[version[v].script] # None
  /\ \A d \in Schedules : schedule[d] # None => version[schedule[d].version] # None
  /\ \A j \in Jobs : job[j] # None => version[job[j].version] # None

\* A job hands a script to an agent of the script's own organization, whatever
\* patches of a schedule, manual runs and deletions meet on the way
\* (validate_schedule_references).
OrganizationsAgree ==
  \A j \in Jobs : job[j] # None =>
    OrgOfScript[version[job[j].version].script] = OrgOfAgent[job[j].agent]

\* A version that was made while no deletion of its script was under way is
\* there for ever, and so is its script: what is lost to a deletion was made
\* after the test of that deletion (script.versions in delete_script).
VersionsAreKept ==
  [][\A v \in Versions : version[v] # None /\ version[v].script \notin deleting =>
       /\ version'[v] # None
       /\ version'[v].script = version[v].script
       /\ version'[v].script \notin deleting']_vars
===============================================================================
