------------------------ MODULE ScriptRepositoryProofs ------------------------
(***************************************************************************)
(* Proofs about ScriptRepository, for any scripts, versions, schedules,    *)
(* jobs, agents and organizations.                                         *)
(*                                                                         *)
(* That the jobs agree with the organizations is not inductive: a job is   *)
(* copied from a schedule, or from what a request loaded of one, and a     *)
(* schedule is merged from columns that several requests wrote.  The       *)
(* invariant says of each what validate_schedule_references established.   *)
(***************************************************************************)
EXTENDS ScriptRepository, TLAPS

SchedulesValid ==
  \A d \in Schedules : schedule[d] # None =>
    ValidReferences(OrgOfSchedule[d], schedule[d].version, schedule[d].agent)

\* A version a request has loaded may be gone; it is never another one.
ManualValid ==
  \A w \in manual : version[w.version] # None =>
    OrgOfScript[version[w.version].script] = OrgOfAgent[w.agent]

\* Column by column, because what the other column is merged with is not known
\* before the COMMIT.
PatchesValid ==
  \A p \in patching :
    /\ p.version # Keep /\ version[p.version] # None =>
         OrgOfScript[version[p.version].script] = OrgOfSchedule[p.of]
    /\ p.agent \notin {Keep, None} => OrgOfAgent[p.agent] = OrgOfSchedule[p.of]

IInv ==
  /\ TypeOK
  /\ ReferencesHold
  /\ OrganizationsAgree
  /\ SchedulesValid
  /\ ManualValid
  /\ PatchesValid

-----------------------------------------------------------------------------
\* The empty database satisfies the invariant.
LEMMA InitIInv == Init => IInv
BY DEF Init, IInv, TypeOK, ReferencesHold, OrganizationsAgree, SchedulesValid,
       ManualValid, PatchesValid, NameTaken

\* Names of scripts change nothing that refers to them (create_script,
\* update_script).
LEMMA NamingKeeps ==
  ASSUME IInv, NEW s \in Scripts, NEW n \in Names,
         CreateScript(s, n) \/ UpdateScript(s, n)
  PROVE  IInv'
<1> USE DEF IInv, CreateScript, UpdateScript
<1>1. script' = [script EXCEPT ![s] = n] /\ ~NameTaken(s, n)
  OBVIOUS
<1>2. UNCHANGED <<version, schedule, job, deleting, patching, manual>>
  OBVIOUS
<1>3. TypeOK'
  BY <1>1, <1>2, RepositoryAssumption DEF TypeOK, NameTaken
<1>4. ReferencesHold'
  BY <1>1, <1>2, RepositoryAssumption DEF TypeOK, ReferencesHold, VersionRow
<1> QED
  BY <1>2, <1>3, <1>4
     DEF OrganizationsAgree, SchedulesValid, ManualValid, PatchesValid, ValidReferences

\* The test of delete_script writes nothing.
LEMMA DeleteScriptChecksKeeps ==
  ASSUME IInv, NEW s \in Scripts, DeleteScriptChecks(s)
  PROVE  IInv'
BY DEF IInv, DeleteScriptChecks, TypeOK, ReferencesHold, OrganizationsAgree,
       SchedulesValid, ManualValid, PatchesValid, ValidReferences, NameTaken

\* What nothing refers to can go, and what goes with it.
LEMMA DeleteScriptCommitsKeeps ==
  ASSUME IInv, NEW s \in Scripts, DeleteScriptCommits(s)
  PROVE  IInv'
<1> USE DEF IInv, DeleteScriptCommits
<1>1. deleting' \subseteq Scripts /\ UNCHANGED <<schedule, job, patching, manual>>
  BY DEF TypeOK
<1>2. CASE UNCHANGED <<script, version>>
  BY <1>1, <1>2 DEF TypeOK, ReferencesHold, OrganizationsAgree, SchedulesValid,
                    ManualValid, PatchesValid, ValidReferences, NameTaken
<1>3. CASE /\ ~Restricted(s)
           /\ script' = [script EXCEPT ![s] = None]
           /\ version' = [v \in Versions |->
                            IF v \in VersionsOf(s) THEN None ELSE version[v]]
  <2>1. TypeOK'
    BY <1>1, <1>3 DEF TypeOK, NameTaken, VersionRow
  <2>2. \A v \in Versions : version'[v] # None =>
          version'[v] = version[v] /\ version[v] # None /\ version[v].script # s
    BY <1>3 DEF VersionsOf
  <2>3. \A d \in Schedules : schedule[d] # None =>
          /\ schedule[d].version \in Versions
          /\ version'[schedule[d].version] = version[schedule[d].version]
    BY <1>3 DEF Restricted, TypeOK, ReferenceRow
  <2>4. \A j \in Jobs : job[j] # None =>
          /\ job[j].version \in Versions
          /\ version'[job[j].version] = version[job[j].version]
    BY <1>3 DEF Restricted, TypeOK, Work
  <2>5. ReferencesHold'
    <3>1. \A v \in Versions : version'[v] # None => script'[version'[v].script] # None
      BY <1>3, <2>2 DEF ReferencesHold, TypeOK, VersionRow
    <3> QED
      BY <1>1, <2>3, <2>4, <3>1 DEF ReferencesHold
  <2>6. OrganizationsAgree'
    BY <1>1, <2>4 DEF OrganizationsAgree
  <2>7. SchedulesValid'
    BY <1>1, <2>3 DEF SchedulesValid, ValidReferences
  <2>8. ManualValid'
    BY <1>1, <2>2 DEF ManualValid, TypeOK, Work
  <2>9. PatchesValid'
    BY <1>1, <2>2 DEF PatchesValid, TypeOK, Patch
  <2> QED
    BY <2>1, <2>5, <2>6, <2>7, <2>8, <2>9
<1> QED
  BY <1>2, <1>3

\* A new version is one that nothing refers to yet.
LEMMA CreateScriptVersionKeeps ==
  ASSUME IInv, NEW v \in Versions, NEW s \in Scripts, NEW l \in Labels,
         CreateScriptVersion(v, s, l)
  PROVE  IInv'
<1> DEFINE new == [script |-> s, label |-> l, published |-> FALSE]
<1> USE DEF IInv, CreateScriptVersion
<1>1. new \in VersionRow /\ new # None
  <2>1. new \in VersionRow
    BY DEF VersionRow
  <2>2. None \notin VersionRow
    BY RepositoryAssumption
  <2> HIDE DEF new
  <2> QED
    BY <2>1, <2>2
<1>2. version' = [version EXCEPT ![v] = new] /\ version[v] = None
  OBVIOUS
<1>3. UNCHANGED <<script, schedule, job, deleting, patching, manual>>
  OBVIOUS
<1>4. TypeOK'
  <2>1. \A u, x \in Versions :
          (version'[u] # None /\ version'[x] # None
            /\ version'[u].script = version'[x].script
            /\ version'[u].label = version'[x].label) => u = x
    BY <1>2 DEF TypeOK, LabelTaken, VersionsOf
  <2> QED
    BY <1>1, <1>2, <1>3, <2>1 DEF TypeOK, NameTaken
<1>5. \A x \in Versions : version[x] # None => version'[x] = version[x] /\ x # v
  BY <1>2 DEF TypeOK
<1>6. ReferencesHold'
  <2>1. \A x \in Versions : version'[x] # None => script'[version'[x].script] # None
    BY <1>2, <1>3 DEF ReferencesHold, TypeOK
  <2> QED
    BY <1>3, <1>5, <2>1 DEF ReferencesHold, TypeOK, ReferenceRow, Work
<1>7. OrganizationsAgree'
  BY <1>3, <1>5 DEF OrganizationsAgree, ReferencesHold, TypeOK, Work
<1>8. SchedulesValid'
  BY <1>3, <1>5 DEF SchedulesValid, ValidReferences, TypeOK, ReferenceRow
<1>9. ManualValid'
  BY <1>2, <1>3 DEF ManualValid, TypeOK, Work
<1>10. PatchesValid'
  BY <1>2, <1>3 DEF PatchesValid, TypeOK, Patch
<1> QED
  BY <1>4, <1>6, <1>7, <1>8, <1>9, <1>10

\* Publication changes neither the script nor the label of a version.
LEMMA PublishScriptVersionKeeps ==
  ASSUME IInv, NEW v \in Versions, PublishScriptVersion(v)
  PROVE  IInv'
<1> USE DEF IInv, PublishScriptVersion
<1>1. UNCHANGED <<script, schedule, job, deleting, patching, manual>>
  OBVIOUS
<1>2. \A x \in Versions :
        /\ version'[x] \in VersionRow \union {None}
        /\ version'[x] = None <=> version[x] = None
        /\ version[x] # None => /\ version'[x].script = version[x].script
                                /\ version'[x].label = version[x].label
  <2>1. version[v] \in VersionRow /\ None \notin VersionRow
    BY RepositoryAssumption DEF TypeOK
  <2>2. [version[v] EXCEPT !.published = TRUE] \in VersionRow
    BY <2>1 DEF VersionRow
  <2>3. [version[v] EXCEPT !.published = TRUE] # None
    BY <2>1, <2>2
  <2>4. /\ [version[v] EXCEPT !.published = TRUE].script = version[v].script
        /\ [version[v] EXCEPT !.published = TRUE].label = version[v].label
    BY <2>1 DEF VersionRow
  <2>5. \A x \in Versions :
          version'[x] = IF x = v THEN [version[v] EXCEPT !.published = TRUE]
                        ELSE version[x]
    BY DEF TypeOK
  <2> HIDE DEF IInv, PublishScriptVersion
  <2>6. \A x \in Versions : version[x] \in VersionRow \union {None}
    BY DEF IInv, TypeOK
  <2>7. version[v] # None
    BY DEF PublishScriptVersion
  <2> QED
    BY <2>2, <2>3, <2>4, <2>5, <2>6, <2>7
<1>3. version' \in [Versions -> VersionRow \union {None}]
  BY <1>2 DEF TypeOK
<1>4. TypeOK'
  BY <1>1, <1>2, <1>3 DEF TypeOK, NameTaken
<1>5. ReferencesHold'
  BY <1>1, <1>2 DEF ReferencesHold, TypeOK, ReferenceRow, Work
<1>6. OrganizationsAgree'
  BY <1>1, <1>2 DEF OrganizationsAgree, ReferencesHold, TypeOK, Work
<1>7. SchedulesValid'
  BY <1>1, <1>2 DEF SchedulesValid, ValidReferences, TypeOK, ReferenceRow
<1>8. ManualValid'
  BY <1>1, <1>2 DEF ManualValid, TypeOK, Work
<1>9. PatchesValid'
  BY <1>1, <1>2 DEF PatchesValid, TypeOK, Patch
<1> QED
  BY <1>4, <1>5, <1>6, <1>7, <1>8, <1>9

\* What is written to a new schedule was validated in the same step.
LEMMA CreateScheduleKeeps ==
  ASSUME IInv, NEW d \in Schedules, NEW v \in Versions, NEW a \in Agents \union {None},
         CreateSchedule(d, v, a)
  PROVE  IInv'
<1> USE DEF IInv, CreateSchedule
<1>1. /\ ValidReferences(OrgOfSchedule[d], v, a)
      /\ schedule' = [schedule EXCEPT ![d] = [version |-> v, agent |-> a]]
      /\ UNCHANGED <<script, version, job, deleting, patching, manual>>
  OBVIOUS
<1>2. TypeOK'
  BY <1>1 DEF TypeOK, NameTaken, ReferenceRow
<1>3. ReferencesHold'
  BY <1>1 DEF ReferencesHold, TypeOK, ValidReferences
<1>4. SchedulesValid'
  BY <1>1 DEF SchedulesValid, TypeOK, ValidReferences
<1> QED
  BY <1>1, <1>2, <1>3, <1>4 DEF OrganizationsAgree, ManualValid, PatchesValid

\* A PATCH writes what it has validated for the organization of its schedule.
LEMMA UpdateScheduleLoadsKeeps ==
  ASSUME IInv, NEW d \in Schedules, NEW v \in Versions, NEW a \in Agents \union {None},
         UpdateScheduleLoads(d, v, a)
  PROVE  IInv'
<1> DEFINE new == [of |-> d, version |-> Differing(v, schedule[d].version),
                             agent |-> Differing(a, schedule[d].agent)]
<1>1. /\ ValidReferences(OrgOfSchedule[d], v, a)
      /\ patching' = patching \union {new}
      /\ UNCHANGED <<script, version, schedule, job, deleting, manual>>
  BY DEF UpdateScheduleLoads
<1>2. new \in Patch
  BY DEF Patch, Differing
<1>3. /\ new.of = d
      /\ new.version # Keep => new.version = v
      /\ new.agent # Keep => new.agent = a
  BY DEF Differing
<1> HIDE DEF new
<1>4. TypeOK'
  BY <1>1, <1>2 DEF IInv, TypeOK, NameTaken
<1>5. PatchesValid'
  BY <1>1, <1>3 DEF IInv, PatchesValid, ValidReferences
<1> QED
  BY <1>1, <1>4, <1>5
     DEF IInv, ReferencesHold, OrganizationsAgree, SchedulesValid, ManualValid,
         ValidReferences

\* Whatever row a PATCH is merged with, the columns it sets and those it leaves
\* were validated for the same organization.
LEMMA UpdateScheduleCommitsKeeps ==
  ASSUME IInv, NEW p \in patching, UpdateScheduleCommits(p)
  PROVE  IInv'
<1> DEFINE d == p.of
           new == [version |-> Written(schedule[d].version, p.version),
                   agent |-> Written(schedule[d].agent, p.agent)]
<1> USE DEF IInv
<1>1. /\ p \in Patch /\ d \in Schedules
      /\ patching' \subseteq patching
      /\ UNCHANGED <<script, version, job, deleting, manual>>
  BY DEF UpdateScheduleCommits, TypeOK, Patch
<1>2. PatchesValid'
  BY <1>1 DEF PatchesValid
<1>3. CASE UNCHANGED schedule
  BY <1>1, <1>2, <1>3 DEF TypeOK, NameTaken, ReferencesHold, OrganizationsAgree,
                          SchedulesValid, ManualValid, ValidReferences
<1>4. CASE /\ schedule[d] # None
           /\ p.version # Keep => version[p.version] # None
           /\ schedule' = [schedule EXCEPT ![d] = new]
  <2>1. /\ schedule[d] \in ReferenceRow
        /\ ValidReferences(OrgOfSchedule[d], schedule[d].version, schedule[d].agent)
    BY <1>1, <1>4 DEF TypeOK, SchedulesValid
  <2>2. new \in ReferenceRow
    BY <1>1, <2>1 DEF ReferenceRow, Patch, Written
  <2>3. ValidReferences(OrgOfSchedule[d], new.version, new.agent)
    BY <1>1, <1>4, <2>1 DEF PatchesValid, ValidReferences, Written
  <2> HIDE DEF new, d
  <2>4. TypeOK'
    BY <1>1, <1>4, <2>2 DEF TypeOK, NameTaken
  <2>5. ReferencesHold'
    BY <1>1, <1>4, <2>3 DEF ReferencesHold, TypeOK, ValidReferences
  <2>6. SchedulesValid'
    BY <1>1, <1>4, <2>3 DEF SchedulesValid, TypeOK, ValidReferences
  <2> QED
    BY <1>1, <1>2, <2>4, <2>5, <2>6 DEF OrganizationsAgree, ManualValid
<1> QED
  BY <1>3, <1>4 DEF UpdateScheduleCommits

\* Without a schedule there is less to say.
LEMMA DeleteScheduleKeeps ==
  ASSUME IInv, NEW d \in Schedules, DeleteSchedule(d)
  PROVE  IInv'
<1> USE DEF IInv, DeleteSchedule
<1>1. TypeOK'
  BY DEF TypeOK, NameTaken
<1>2. ReferencesHold'
  BY DEF ReferencesHold, TypeOK
<1>3. SchedulesValid'
  BY DEF SchedulesValid, TypeOK, ValidReferences
<1> QED
  BY <1>1, <1>2, <1>3 DEF OrganizationsAgree, ManualValid, PatchesValid

\* The work of an assigned schedule is for an agent of the right organization.
LEMMA WorkFacts ==
  ASSUME IInv, NEW d \in Schedules, Assigned(d)
  PROVE  /\ WorkOf(d) \in Work
         /\ version[WorkOf(d).version] # None
         /\ OrgOfScript[version[WorkOf(d).version].script] = OrgOfAgent[WorkOf(d).agent]
<1>1. schedule[d] \in ReferenceRow /\ schedule[d].agent # None
  BY DEF IInv, TypeOK, Assigned
<1>2. ValidReferences(OrgOfSchedule[d], schedule[d].version, schedule[d].agent)
  BY DEF IInv, SchedulesValid, Assigned
<1> QED
  BY <1>1, <1>2 DEF WorkOf, Work, ReferenceRow, ValidReferences

\* A job made of valid work is valid.
LEMMA MakeJobKeeps ==
  ASSUME IInv, NEW j \in Jobs, NEW w \in Work,
         version[w.version] # None,
         OrgOfScript[version[w.version].script] = OrgOfAgent[w.agent],
         job' = [job EXCEPT ![j] = w],
         manual' \subseteq manual,
         UNCHANGED <<script, version, schedule, deleting, patching>>
  PROVE  IInv'
<1> USE DEF IInv
<1>1. TypeOK'
  BY DEF TypeOK, NameTaken
<1>2. ReferencesHold'
  BY DEF ReferencesHold, TypeOK
<1>3. OrganizationsAgree'
  BY DEF OrganizationsAgree, TypeOK
<1>4. SchedulesValid'
  BY DEF SchedulesValid, ValidReferences
<1>5. ManualValid' /\ PatchesValid'
  BY DEF ManualValid, PatchesValid
<1> QED
  BY <1>1, <1>2, <1>3, <1>4, <1>5

\* A tick makes a job of the schedule as it is (_materialize_schedule).
LEMMA TickMakesJobKeeps ==
  ASSUME IInv, NEW j \in Jobs, NEW d \in Schedules, TickMakesJob(j, d)
  PROVE  IInv'
BY WorkFacts, MakeJobKeeps DEF TickMakesJob

\* A manual run remembers work that is valid when it is loaded.
LEMMA RunScheduleLoadsKeeps ==
  ASSUME IInv, NEW d \in Schedules, RunScheduleLoads(d)
  PROVE  IInv'
<1>1. /\ manual' = manual \union {WorkOf(d)}
      /\ UNCHANGED <<script, version, schedule, job, deleting, patching>>
  BY DEF RunScheduleLoads
<1>2. /\ WorkOf(d) \in Work
      /\ OrgOfScript[version[WorkOf(d).version].script] = OrgOfAgent[WorkOf(d).agent]
  BY WorkFacts DEF RunScheduleLoads
<1>3. TypeOK'
  BY <1>1, <1>2 DEF IInv, TypeOK, NameTaken
<1>4. ManualValid'
  BY <1>1, <1>2 DEF IInv, ManualValid
<1> QED
  BY <1>1, <1>3, <1>4
     DEF IInv, ReferencesHold, OrganizationsAgree, SchedulesValid, PatchesValid,
         ValidReferences

\* A manual run makes its job only if the version is still there.
LEMMA RunScheduleCommitsKeeps ==
  ASSUME IInv, NEW j \in Jobs, NEW w \in manual, RunScheduleCommits(j, w)
  PROVE  IInv'
<1>1. w \in Work /\ manual' \subseteq manual /\ UNCHANGED <<script, version, schedule, deleting, patching>>
  BY DEF IInv, TypeOK, RunScheduleCommits
<1>2. CASE version[w.version] = None
  BY <1>1, <1>2 DEF RunScheduleCommits, IInv, TypeOK, NameTaken, ReferencesHold,
                    OrganizationsAgree, SchedulesValid, ManualValid, PatchesValid,
                    ValidReferences
<1>3. CASE version[w.version] # None
  <2>1. OrgOfScript[version[w.version].script] = OrgOfAgent[w.agent]
    BY <1>3 DEF IInv, ManualValid
  <2>2. job' = [job EXCEPT ![j] = w]
    BY <1>3 DEF RunScheduleCommits
  <2> QED
    BY <1>1, <1>3, <2>1, <2>2, MakeJobKeeps
<1> QED
  BY <1>2, <1>3

\* Every step of the repository keeps the invariant.
LEMMA NextKeeps ==
  ASSUME IInv, [Next]_vars
  PROVE  IInv'
<1>1. CASE UNCHANGED vars
  BY <1>1 DEF vars, IInv, TypeOK, NameTaken, ReferencesHold, OrganizationsAgree,
              SchedulesValid, ManualValid, PatchesValid, ValidReferences
<1>2. ASSUME NEW s \in Scripts, ScriptNext(s)
      PROVE  IInv'
  BY <1>2, NamingKeeps, DeleteScriptChecksKeeps, DeleteScriptCommitsKeeps DEF ScriptNext
<1>3. ASSUME NEW v \in Versions, VersionNext(v)
      PROVE  IInv'
  BY <1>3, CreateScriptVersionKeeps, PublishScriptVersionKeeps DEF VersionNext
<1>4. ASSUME NEW d \in Schedules, ScheduleNext(d)
      PROVE  IInv'
  BY <1>4, CreateScheduleKeeps, UpdateScheduleLoadsKeeps, DeleteScheduleKeeps,
     RunScheduleLoadsKeeps DEF ScheduleNext
<1>5. ASSUME NEW j \in Jobs, JobNext(j)
      PROVE  IInv'
  BY <1>5, TickMakesJobKeeps, RunScheduleCommitsKeeps DEF JobNext
<1> QED
  BY <1>1, <1>2, <1>3, <1>4, <1>5, UpdateScheduleCommitsKeeps DEF Next

-----------------------------------------------------------------------------
\* The inductive invariant holds of every behaviour of the repository.
THEOREM Invariance == Spec => []IInv
<1>1. IInv /\ [Next]_vars => IInv'
  BY NextKeeps
<1> QED
  BY InitIInv, <1>1, PTL DEF Spec

\* Every variable keeps its type, and names and labels stay unique.
THEOREM TypeCorrect == Spec => []TypeOK
BY Invariance, PTL DEF IInv

\* No script is deleted from under a schedule or a job, however the test of
\* delete_script, new versions, schedules and jobs interleave.
THEOREM ReferencesAlwaysHold == Spec => []ReferencesHold
BY Invariance, PTL DEF IInv

\* No job brings a script of one organization to an agent of another.
THEOREM OrganizationsAlwaysAgree == Spec => []OrganizationsAgree
BY Invariance, PTL DEF IInv

\* No step takes a version of a script that no deletion has found empty, nor
\* finds its script empty: only the commit of a deletion removes versions, and
\* the test of a deletion fails on a script that has one.
LEMMA StepKeepsVersion ==
  ASSUME IInv, [Next]_vars, NEW v \in Versions,
         version[v] # None, version[v].script \notin deleting
  PROVE  /\ version'[v] # None
         /\ version'[v].script = version[v].script
         /\ version'[v].script \notin deleting'
<1> DEFINE Kept == /\ version'[v] # None
                   /\ version'[v].script = version[v].script
                   /\ version'[v].script \notin deleting'
<1> SUFFICES Kept
  OBVIOUS
<1>1. version \in [Versions -> VersionRow \union {None}] /\ version[v] \in VersionRow
  BY DEF IInv, TypeOK
<1>2. CASE UNCHANGED <<version, deleting>>
  BY <1>2
<1>3. ASSUME NEW s \in Scripts, DeleteScriptChecks(s)
      PROVE  Kept
  <2>1. v \notin VersionsOf(s)
    BY <1>3 DEF DeleteScriptChecks, WithoutVersions
  <2>2. version[v].script # s
    BY <2>1 DEF VersionsOf
  <2> QED
    BY <1>3, <2>2 DEF DeleteScriptChecks
<1>4. ASSUME NEW s \in Scripts, DeleteScriptCommits(s)
      PROVE  Kept
  <2>1. s # version[v].script
    BY <1>4 DEF DeleteScriptCommits
  <2>2. version'[v] = version[v]
    BY <1>4, <2>1 DEF DeleteScriptCommits, VersionsOf
  <2> QED
    BY <1>4, <2>2 DEF DeleteScriptCommits
<1>5. ASSUME NEW u \in Versions, VersionNext(u)
      PROVE  Kept
  <2>1. deleting' = deleting
    BY <1>5 DEF VersionNext, CreateScriptVersion, PublishScriptVersion
  <2>2. CASE PublishScriptVersion(u)
    <3>1. version'[v] = version[v] \/ version'[v] = [version[v] EXCEPT !.published = TRUE]
      BY <1>1, <2>2 DEF PublishScriptVersion
    <3>2. version'[v] \in VersionRow /\ version'[v].script = version[v].script
      BY <1>1, <3>1 DEF VersionRow
    <3> QED
      BY <2>1, <3>2, RepositoryAssumption
  <2>3. CASE \E s \in Scripts, l \in Labels : CreateScriptVersion(u, s, l)
    BY <1>1, <2>1, <2>3 DEF CreateScriptVersion
  <2> QED
    BY <1>5, <2>2, <2>3 DEF VersionNext
<1>6. ASSUME NEW d \in Schedules, ScheduleNext(d)
      PROVE  UNCHANGED <<version, deleting>>
  BY <1>6 DEF ScheduleNext, CreateSchedule, UpdateScheduleLoads, DeleteSchedule,
              RunScheduleLoads
<1>7. ASSUME NEW j \in Jobs, JobNext(j)
      PROVE  UNCHANGED <<version, deleting>>
  BY <1>7 DEF JobNext, TickMakesJob, RunScheduleCommits
<1>8. ASSUME NEW s \in Scripts, NEW n \in Names, CreateScript(s, n) \/ UpdateScript(s, n)
      PROVE  UNCHANGED <<version, deleting>>
  BY <1>8 DEF CreateScript, UpdateScript
<1>9. ASSUME NEW p \in patching, UpdateScheduleCommits(p)
      PROVE  UNCHANGED <<version, deleting>>
  BY <1>9 DEF UpdateScheduleCommits
<1> QED
  BY <1>2, <1>3, <1>4, <1>5, <1>6, <1>7, <1>8, <1>9 DEF Next, ScriptNext, vars

\* What is lost to a deletion was made after the test of that deletion.
THEOREM VersionsAreAlwaysKept == Spec => VersionsAreKept
<1>1. IInv /\ [Next]_vars =>
        [\A v \in Versions : version[v] # None /\ version[v].script \notin deleting =>
           /\ version'[v] # None
           /\ version'[v].script = version[v].script
           /\ version'[v].script \notin deleting']_vars
  BY StepKeepsVersion
<1> QED
  BY <1>1, Invariance, PTL DEF Spec, VersionsAreKept
===============================================================================
