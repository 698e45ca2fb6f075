---------------------------- MODULE SchedulerProofs ----------------------------
(***************************************************************************)
(* Proofs about Scheduler, for any number of schedules, workers, clients,  *)
(* payloads and patches, any batch size and any bound on time.             *)
(*                                                                         *)
(* The inductive invariant IInv adds to what the runs check: that a locked *)
(* row is due at the instant its tick started, that a pending request was  *)
(* validated, that transactions are numbered upwards, and that a schedule  *)
(* has work and history only after it was created.  The last sections say  *)
(* what requests must not do for the properties that the code breaks when  *)
(* they do it.                                                             *)
(***************************************************************************)
EXTENDS Scheduler, TLAPS

\* What a tick holds is stable and was due when it was selected.
TickInv ==
  /\ \A w, v \in Workers : w # v => tick[w].batch \intersect tick[v].batch = {}
  /\ \A w \in Workers :
       /\ tick[w].now <= clock
       /\ \A s \in tick[w].batch :
            /\ Live(s)
            /\ row[s] = tick[w].loaded[s]
            /\ row[s].enabled
            /\ row[s].next \in Nat
            /\ row[s].next <= tick[w].now

\* What a request is about to write passed the validation of its handler.
RequestInv ==
  \A c \in Clients :
    /\ request[c].at <= clock
    /\ request[c].op = "update" =>
         KindConfigured(Applied(request[c].loaded, request[c].patch))
    /\ request[c].op = "run" => request[c].loaded.agent \in Agents

\* Jobs and history, with what makes them stay in agreement.
WorkInv ==
  /\ \A j \in jobs : j.xid < xid
  /\ \A j \in TickJobs : exists[j.sched] # "never"
  /\ RunJobAgreement
  /\ NoDuplicateJobs

IInv == TypeOK /\ TickInv /\ RequestInv /\ WorkInv

-----------------------------------------------------------------------------
(* The functions on rows.                                                  *)

\* A PATCH applied to a row gives a row (update_schedule's loop of setattr).
LEMMA AppliedType ==
  ASSUME NEW r \in Row, NEW p \in Patch
  PROVE  Applied(r, p) \in Row
BY DEF Row, Patch, Applied

\* The first due time is an instant or NULL (initialize_next_run_at).
LEMMA InitialType ==
  ASSUME NEW r \in Row, KindConfigured(r), NEW now \in 0..MaxClock
  PROVE  InitialNextRunAt(r, now) \in Nat \union {None}
<1>1. CASE r.kind = "once"
  BY <1>1 DEF Row, InitialNextRunAt
<1>2. CASE r.kind # "once"
  <2>1. r.cron \in Crons
    BY <1>2 DEF Row, KindConfigured
  <2>2. NextFire[r.cron][now] \in Nat
    BY <2>1, CronAssumption
  <2> QED
    BY <1>2, <2>2 DEF InitialNextRunAt
<1> QED
  BY <1>1, <1>2

\* What a validated PATCH leaves in memory is a row.
LEMMA PatchedType ==
  ASSUME NEW r \in Row, NEW p \in Patch, KindConfigured(Applied(r, p)),
         NEW now \in 0..MaxClock
  PROVE  Patched(r, p, now) \in Row
<1>1. Applied(r, p) \in Row
  BY AppliedType
<1>2. InitialNextRunAt(Applied(r, p), now) \in Nat \union {None}
  BY <1>1, InitialType
<1>3. [Applied(r, p) EXCEPT !.next = InitialNextRunAt(Applied(r, p), now)] \in Row
  BY <1>1, <1>2 DEF Row
<1> QED
  BY <1>1, <1>3 DEF Patched

\* Moving a schedule past an occurrence gives a row the table admits.
LEMMA AdvancedType ==
  ASSUME NEW r \in Row, KindConfigured(r), r.next \in 0..MaxClock
  PROVE  Advanced(r) \in Row /\ KindConfigured(Advanced(r))
<1>1. CASE r.kind = "once"
  BY <1>1 DEF Row, Advanced, KindConfigured
<1>2. CASE r.kind # "once"
  <2>1. r.cron \in Crons
    BY <1>2 DEF Row, KindConfigured
  <2>2. NextFire[r.cron][r.next] \in Nat
    BY <2>1, CronAssumption
  <2> QED
    BY <1>2, <2>2 DEF Row, Advanced, KindConfigured
<1> QED
  BY <1>1, <1>2

\* An UPDATE of the changed columns of a row gives a row.
LEMMA MergedType ==
  ASSUME NEW a \in Row, NEW b \in Row, NEW c \in Row
  PROVE  Merged(a, b, c) \in Row
BY DEF Row, Merged

\* Written over the row it was loaded from, it gives the row in memory.
LEMMA MergedOverLoaded ==
  ASSUME NEW a \in Row, NEW b \in Row
  PROVE  Merged(a, b, a) = b
BY DEF Row, Merged

\* The value of a key without a row has the type of a row.
LEMMA BlankRowType == BlankRow \in Row
BY DEF BlankRow, Row, Kinds, MisfirePolicies, Parameters

\* A worker without a batch and a client without a request are well typed.
LEMMA NothingPending ==
  /\ NoTick \in Tick
  /\ NoRequest \in Request
  /\ NoPatch \in Patch
BY BlankRowType, ClockAssumption
   DEF NoTick, Tick, NoRequest, Request, NoPatch, Patch, PatchFields

\* /enable and /disable make a patch that keeps the configuration of a row.
LEMMA EnabledPatchKeepsKind ==
  ASSUME NEW r \in Row, KindConfigured(r), NEW flag \in BOOLEAN
  PROVE  /\ EnabledPatch(flag) \in Patch
         /\ KindConfigured(Applied(r, EnabledPatch(flag)))
<1>1. [BlankRow EXCEPT !.enabled = flag] \in Row
  BY DEF BlankRow, Row, Kinds, MisfirePolicies, Parameters
<1>2. EnabledPatch(flag) \in Patch
  BY <1>1 DEF EnabledPatch, Patch, PatchFields
<1>3. KindConfigured(Applied(r, EnabledPatch(flag)))
  BY DEF EnabledPatch, Applied, KindConfigured
<1> QED
  BY <1>2, <1>3

-----------------------------------------------------------------------------
(* The steps, one lemma each.                                              *)

\* The empty database satisfies the invariant.
LEMMA InitIInv == Init => IInv
<1> SUFFICES ASSUME Init PROVE IInv
  OBVIOUS
<1> USE DEF Init
<1>1. TypeOK
  BY BlankRowType, NothingPending, SchedulerAssumption, ClockAssumption
     DEF TypeOK, Live, NoRequest
<1>2. TickInv
  BY ClockAssumption DEF TickInv, NoTick
<1>3. RequestInv
  BY DEF RequestInv, NoRequest
<1>4. WorkInv
  BY DEF WorkInv, RunJobAgreement, NoDuplicateJobs, TickJobs
<1> QED
  BY <1>1, <1>2, <1>3, <1>4 DEF IInv

\* A step that leaves the tables alone keeps what is said of them.
LEMMA WorkUnchanged ==
  ASSUME WorkInv, UNCHANGED <<exists, runs, jobs, xid>>
  PROVE  WorkInv'
BY DEF WorkInv, RunJobAgreement, NoDuplicateJobs, TickJobs, Live

\* The passage of time keeps it: what is due stays due.
LEMMA ElapseKeeps ==
  ASSUME IInv, Elapse
  PROVE  IInv'
<1> USE DEF IInv, Elapse
<1>1. TypeOK'
  BY ClockAssumption DEF TypeOK, Live
<1>2. TickInv'
  <2>1. clock \in Nat /\ tick \in [Workers -> Tick]
    BY ClockAssumption DEF TypeOK
  <2>2. \A w \in Workers : tick[w].now \in Nat
    BY <2>1, ClockAssumption DEF Tick
  <2> QED
    BY <2>1, <2>2 DEF TickInv, Live
<1>3. RequestInv'
  <2>1. clock \in Nat /\ \A c \in Clients : request[c].at \in Nat
    BY ClockAssumption DEF TypeOK, Request
  <2> QED
    BY <2>1 DEF RequestInv
<1>4. WorkInv'
  BY WorkUnchanged
<1> QED
  BY <1>1, <1>2, <1>3, <1>4

\* The locking SELECT takes due rows that no other worker holds.
LEMMA TickBeginKeeps ==
  ASSUME IInv, NEW w \in Workers, TickBegin(w)
  PROVE  IInv'
<1> USE DEF IInv
<1>1. PICK batch \in SUBSET Selectable :
        tick' = [tick EXCEPT ![w] =
          [batch |-> batch, now |-> clock,
           loaded |-> [s \in Schedules |->
                         IF s \in batch THEN row[s] ELSE BlankRow]]]
  BY DEF TickBegin
<1>2. UNCHANGED <<clock, exists, row, runs, jobs, xid, request, crashes>>
  BY DEF TickBegin
<1>3. batch \subseteq Schedules
  BY DEF Selectable
<1>4. TypeOK'
  <2>1. [s \in Schedules |-> IF s \in batch THEN row[s] ELSE BlankRow]
          \in [Schedules -> Row]
    BY BlankRowType DEF TypeOK
  <2>2. tick' \in [Workers -> Tick]
    BY <1>1, <1>3, <2>1 DEF TypeOK, Tick
  <2> QED
    BY <1>2, <2>2 DEF TypeOK, Live
<1>5. TickInv'
  <2>1. \A s \in batch :
          /\ Live(s) /\ ~Locked(s)
          /\ row[s].enabled
          /\ row[s].next \in Nat
          /\ row[s].next <= clock
    BY <1>3 DEF Selectable, Due, TypeOK, Row
  <2>2. /\ tick'[w].batch = batch /\ tick'[w].now = clock
        /\ \A s \in batch : tick'[w].loaded[s] = row[s]
        /\ \A v \in Workers : v # w => tick'[v] = tick[v]
    BY <1>1, <1>3 DEF TypeOK
  <2>3. clock <= clock
    BY ClockAssumption DEF TypeOK
  <2>4. \A v \in Workers : v # w => batch \intersect tick[v].batch = {}
    BY <2>1 DEF Locked
  <2> QED
    BY <1>2, <2>1, <2>2, <2>3, <2>4 DEF TickInv, Live
<1>6. RequestInv'
  BY <1>2 DEF RequestInv
<1>7. WorkInv'
  BY <1>2, WorkUnchanged
<1> QED
  BY <1>4, <1>5, <1>6, <1>7

\* A tick that ends without a commit gives its locks back.
LEMMA TickReleaseKeeps ==
  ASSUME IInv, NEW w \in Workers,
         tick' = [tick EXCEPT ![w] = NoTick],
         crashes' \in 0..MaxCrashes,
         UNCHANGED <<clock, exists, row, runs, jobs, xid, request>>
  PROVE  IInv'
<1> USE DEF IInv
<1>1. TypeOK'
  BY NothingPending DEF TypeOK, Live
<1>2. TickInv'
  BY ClockAssumption DEF TickInv, NoTick, Live, TypeOK
<1>3. RequestInv'
  BY DEF RequestInv
<1>4. WorkInv'
  BY WorkUnchanged
<1> QED
  BY <1>1, <1>2, <1>3, <1>4

\* What the loop of process_due_schedules finds in a batch.
LEMMA BatchFacts ==
  ASSUME IInv, NEW w \in Workers, NEW s \in tick[w].batch
  PROVE  /\ s \in Schedules /\ Live(s)
         /\ row[s] \in Row /\ KindConfigured(row[s])
         /\ tick[w].loaded[s] = row[s]
         /\ row[s].next \in 0..MaxClock
         /\ row[s].next <= clock
<1>1. s \in Schedules /\ tick[w].now \in 0..MaxClock
  BY DEF IInv, TypeOK, Tick
<1>2. /\ Live(s) /\ row[s] = tick[w].loaded[s]
      /\ row[s].next \in Nat
      /\ row[s].next <= tick[w].now
      /\ tick[w].now <= clock
  BY DEF IInv, TickInv
<1>3. row[s].next \in 0..MaxClock /\ row[s].next <= clock
  BY <1>1, <1>2, ClockAssumption DEF IInv, TypeOK
<1> QED
  BY <1>1, <1>2, <1>3 DEF IInv, TypeOK

\* The job of an occurrence goes to an agent, and the run is its first.
LEMMA MaterializedFacts ==
  ASSUME IInv, NEW w \in Workers, NEW s \in WithOutcome(w, "materialized")
  PROVE  /\ s \in tick[w].batch
         /\ row[s].agent \in Agents
         /\ ~Recorded(s, row[s].next)
<1>1. s \in tick[w].batch
  BY DEF WithOutcome
<1>2. /\ s \in Schedules
      /\ row[s] \in Row
      /\ tick[w].loaded[s] = row[s]
  BY <1>1, BatchFacts
<1>3. Outcome(row[s], tick[w].now, Recorded(s, row[s].next)) = "materialized"
  BY <1>2 DEF WithOutcome
<1>4. ~PassedOver(row[s], tick[w].now) /\ ~Recorded(s, row[s].next)
  BY <1>3 DEF Outcome
<1> QED
  BY <1>1, <1>2, <1>4 DEF PassedOver, Row

\* A failed run is the first of its occurrence as well, when the tick commits.
LEMMA RaisedFacts ==
  ASSUME IInv, NEW w \in Workers, Unrecordable(w) = {},
         NEW s \in WithOutcome(w, "raised")
  PROVE  s \in tick[w].batch /\ ~Recorded(s, row[s].next)
<1>1. s \in tick[w].batch
  BY DEF WithOutcome
<1>2. tick[w].loaded[s] = row[s]
  BY <1>1, BatchFacts
<1> QED
  BY <1>1, <1>2 DEF Unrecordable

\* No row has two outcomes.
LEMMA OneOutcome ==
  ASSUME NEW w \in Workers, NEW s \in WithOutcome(w, "materialized")
  PROVE  s \notin WithOutcome(w, "raised")
BY DEF WithOutcome

\* The job and the run of an occurrence, spelled out over the row.
LEMMA TickRecords ==
  ASSUME IInv, NEW w \in Workers, NEW s \in tick[w].batch
  PROVE  /\ JobOfTick(w, s) = [xid |-> xid, sched |-> s, for |-> row[s].next,
                               agent |-> row[s].agent, via |-> "tick"]
         /\ RunOf(w, s) = [sched |-> s, for |-> row[s].next,
                           status |-> "pending", job |-> xid]
         /\ FailedRunOf(w, s) = [sched |-> s, for |-> row[s].next,
                                 status |-> "failed", job |-> None]
BY BatchFacts DEF JobOfTick, RunOf, FailedRunOf

\* The writes of a tick are well typed and admitted by the table.
LEMMA TickCommitTypes ==
  ASSUME IInv, NEW w \in Workers, TickCommit(w)
  PROVE  TypeOK'
<1>1. row' \in [Schedules -> Row] /\ \A s \in Schedules : Live(s)' => KindConfigured(row'[s])
  <2> SUFFICES ASSUME NEW s \in Schedules
               PROVE  row'[s] \in Row /\ (Live(s)' => KindConfigured(row'[s]))
    BY DEF TickCommit
  <2>1. CASE s \in Moved(w)
    <3>1. s \in tick[w].batch
      BY <2>1 DEF Moved, WithOutcome
    <3>2. /\ row[s] \in Row /\ KindConfigured(row[s])
          /\ tick[w].loaded[s] = row[s]
          /\ row[s].next \in 0..MaxClock
      BY <3>1, BatchFacts
    <3>3. Advanced(row[s]) \in Row /\ KindConfigured(Advanced(row[s]))
      BY <3>2, AdvancedType
    <3>4. row'[s] = Advanced(row[s])
      BY <2>1, <3>2, <3>3, MergedOverLoaded DEF TickCommit
    <3> QED
      BY <3>3, <3>4
  <2>2. CASE s \notin Moved(w)
    BY <2>2 DEF TickCommit, IInv, TypeOK, Live
  <2> QED
    BY <2>1, <2>2
<1>2. jobs' \subseteq Job
  <2> SUFFICES ASSUME NEW s \in WithOutcome(w, "materialized")
               PROVE  JobOfTick(w, s) \in Job
    BY DEF TickCommit, IInv, TypeOK
  <2> QED
    BY MaterializedFacts, BatchFacts, TickRecords DEF Job, IInv, TypeOK
<1>3. runs' \subseteq Run
  <2>1. \A s \in WithOutcome(w, "materialized") : RunOf(w, s) \in Run
    BY MaterializedFacts, BatchFacts, TickRecords DEF Run, IInv, TypeOK
  <2>2. \A s \in WithOutcome(w, "raised") : FailedRunOf(w, s) \in Run
    BY RaisedFacts, BatchFacts, TickRecords DEF Run, TickCommit
  <2> QED
    BY <2>1, <2>2 DEF TickCommit, IInv, TypeOK
<1>4. xid' \in Nat
  BY DEF TickCommit, IInv, TypeOK
<1>5. tick' \in [Workers -> Tick]
  BY NothingPending DEF TickCommit, IInv, TypeOK
<1> QED
  BY <1>1, <1>2, <1>3, <1>4, <1>5 DEF TickCommit, IInv, TypeOK

\* The commit of one tick leaves the rows of the others alone.
LEMMA TickCommitTick ==
  ASSUME IInv, NEW w \in Workers, TickCommit(w)
  PROVE  TickInv'
<1>1. /\ tick'[w] = NoTick
      /\ \A v \in Workers : v # w => tick'[v] = tick[v]
      /\ UNCHANGED <<clock, exists>>
  BY DEF TickCommit, IInv, TypeOK
<1>2. \A v \in Workers : v # w => \A s \in tick[v].batch : row'[s] = row[s]
  <2> SUFFICES ASSUME NEW v \in Workers, v # w, NEW s \in tick[v].batch
               PROVE  row'[s] = row[s]
    OBVIOUS
  <2>1. s \in Schedules /\ s \notin tick[w].batch
    BY BatchFacts DEF IInv, TickInv
  <2> QED
    BY <2>1 DEF TickCommit, Moved, WithOutcome
<1>3. \A v \in Workers : tick'[v].now <= clock'
  BY <1>1, ClockAssumption DEF IInv, TickInv, NoTick, TypeOK
<1> QED
  BY <1>1, <1>2, <1>3 DEF IInv, TickInv, NoTick, Live

\* The commit of a tick adds jobs and runs that agree and are new.
LEMMA TickCommitWork ==
  ASSUME IInv, NEW w \in Workers, TickCommit(w)
  PROVE  WorkInv'
<1> DEFINE made   == WithOutcome(w, "materialized")
<1> DEFINE raised == WithOutcome(w, "raised")
<1>1. /\ jobs' = jobs \union {JobOfTick(w, s) : s \in made}
      /\ runs' = runs \union {RunOf(w, s) : s \in made}
                      \union {FailedRunOf(w, s) : s \in raised}
      /\ xid' = IF made = {} THEN xid ELSE xid + 1
      /\ exists' = exists
  BY DEF TickCommit
<1>2. \A s \in made :
        /\ s \in Schedules /\ Live(s)
        /\ s \notin raised
        /\ ~Recorded(s, row[s].next)
        /\ JobOfTick(w, s) = [xid |-> xid, sched |-> s, for |-> row[s].next,
                              agent |-> row[s].agent, via |-> "tick"]
        /\ RunOf(w, s) = [sched |-> s, for |-> row[s].next,
                          status |-> "pending", job |-> xid]
  BY MaterializedFacts, BatchFacts, TickRecords, OneOutcome
<1>3. \A s \in raised :
        /\ s \in Schedules /\ Live(s)
        /\ ~Recorded(s, row[s].next)
        /\ FailedRunOf(w, s) = [sched |-> s, for |-> row[s].next,
                                status |-> "failed", job |-> None]
  BY RaisedFacts, BatchFacts, TickRecords DEF TickCommit
<1>4. xid \in Nat /\ None \notin Nat
  BY NoneAssumption DEF IInv, TypeOK
<1> HIDE DEF made, raised
<1>5. TickJobs' = TickJobs \union {JobOfTick(w, s) : s \in made}
  BY <1>1, <1>2 DEF TickJobs
\* A job that was there is recorded, so the new ones are of other occurrences.
<1>6. \A j \in TickJobs, s \in made : ~(j.sched = s /\ j.for = row[s].next)
  BY <1>2 DEF IInv, WorkInv, RunJobAgreement, Recorded
<1>7. \A j \in jobs' : j.xid < xid'
  <2>1. \A j \in jobs : j.xid \in Nat /\ j.xid < xid
    BY DEF IInv, WorkInv, TypeOK, Job
  <2>2. \A s \in made : JobOfTick(w, s).xid = xid
    BY <1>2
  <2> QED
    BY <1>1, <1>4, <2>1, <2>2
<1>8. \A j \in TickJobs' : exists'[j.sched] # "never"
  BY <1>1, <1>2, <1>5 DEF IInv, WorkInv, Live
<1>9. NoDuplicateJobs'
  BY <1>2, <1>5, <1>6 DEF NoDuplicateJobs, IInv, WorkInv
<1>10. RunJobAgreement'
  <2>1. \A r, q \in runs' : r.sched = q.sched /\ r.for = q.for => r = q
    <3>1. \A r \in runs, s \in made \union raised :
            ~(r.sched = s /\ r.for = row[s].next)
      BY <1>2, <1>3 DEF Recorded
    <3> QED
      BY <1>1, <1>2, <1>3, <3>1 DEF IInv, WorkInv, RunJobAgreement
  <2>2. \A r \in runs' : Live(r.sched)' /\ (r.status = "failed" => r.job = None)
    BY <1>1, <1>2, <1>3 DEF IInv, WorkInv, RunJobAgreement, Live
  <2>3. \A r \in runs' : r.status = "pending" =>
          \E j \in TickJobs' : j.xid = r.job /\ j.sched = r.sched /\ j.for = r.for
    <3> SUFFICES ASSUME NEW r \in runs', r.status = "pending"
                 PROVE  \E j \in TickJobs' :
                          j.xid = r.job /\ j.sched = r.sched /\ j.for = r.for
      OBVIOUS
    <3>1. CASE r \in runs
      BY <1>5, <3>1 DEF IInv, WorkInv, RunJobAgreement
    <3>2. CASE r \notin runs
      <4>1. PICK s \in made : r = RunOf(w, s)
        BY <1>1, <1>3, <3>2
      <4>2. JobOfTick(w, s) \in TickJobs'
        BY <1>5
      <4> QED
        BY <1>2, <4>1, <4>2
    <3> QED
      BY <3>1, <3>2
  <2>4. \A j \in TickJobs' : Live(j.sched)' =>
          \E r \in runs' : r.sched = j.sched /\ r.for = j.for /\ r.status = "pending"
    <3> SUFFICES ASSUME NEW j \in TickJobs', Live(j.sched)'
                 PROVE  \E r \in runs' : /\ r.sched = j.sched
                                         /\ r.for = j.for
                                         /\ r.status = "pending"
      OBVIOUS
    <3>1. CASE j \in TickJobs
      BY <1>1, <3>1 DEF IInv, WorkInv, RunJobAgreement, Live
    <3>2. CASE j \notin TickJobs
      <4>1. PICK s \in made : j = JobOfTick(w, s)
        BY <1>5, <3>2
      <4>2. RunOf(w, s) \in runs'
        BY <1>1
      <4> QED
        BY <1>2, <4>1, <4>2
    <3> QED
      BY <3>1, <3>2
  <2> QED
    BY <2>1, <2>2, <2>3, <2>4 DEF RunJobAgreement
<1> QED
  BY <1>7, <1>8, <1>9, <1>10 DEF WorkInv

\* The three parts together (process_due_schedules, to its commit).
LEMMA TickCommitKeeps ==
  ASSUME IInv, NEW w \in Workers, TickCommit(w)
  PROVE  IInv'
<1>1. RequestInv'
  BY DEF TickCommit, IInv, RequestInv
<1> QED
  BY <1>1, TickCommitTypes, TickCommitTick, TickCommitWork DEF IInv

\* POST /schedules inserts a row that the table admits and nobody holds.
LEMMA CreateScheduleKeeps ==
  ASSUME IInv, NEW s \in Schedules, NEW p \in Payloads, CreateSchedule(s, p)
  PROVE  IInv'
<1>1. /\ exists[s] = "never"
      /\ exists' = [exists EXCEPT ![s] = "live"]
      /\ row' = [row EXCEPT ![s] = [p EXCEPT !.next = InitialNextRunAt(p, clock)]]
      /\ UNCHANGED <<clock, runs, jobs, xid, tick, request, crashes>>
  BY DEF CreateSchedule
<1>2. p \in Row /\ KindConfigured(p)
  BY SchedulerAssumption DEF Payload
<1>3. TypeOK'
  <2>1. InitialNextRunAt(p, clock) \in Nat \union {None}
    BY <1>2, InitialType DEF IInv, TypeOK
  <2>2. /\ [p EXCEPT !.next = InitialNextRunAt(p, clock)] \in Row
        /\ KindConfigured([p EXCEPT !.next = InitialNextRunAt(p, clock)])
    BY <1>2, <2>1 DEF Row, KindConfigured
  <2> QED
    BY <1>1, <2>2 DEF IInv, TypeOK, Live
<1>4. TickInv'
  <2>1. \A w \in Workers : s \notin tick[w].batch
    BY <1>1, BatchFacts DEF Live
  <2> QED
    BY <1>1, <2>1, BatchFacts DEF IInv, TypeOK, TickInv, Live
<1>5. RequestInv'
  BY <1>1 DEF IInv, RequestInv
<1>6. WorkInv'
  <2>1. \A j \in TickJobs : j.sched \in Schedules /\ j.sched # s
    BY <1>1 DEF IInv, TypeOK, WorkInv, TickJobs, Job
  <2>2. \A r \in runs : r.sched \in Schedules /\ r.sched # s
    BY <1>1 DEF IInv, TypeOK, WorkInv, RunJobAgreement, Run, Live
  <2>3. \A u \in Schedules : u # s => exists'[u] = exists[u]
    BY <1>1 DEF IInv, TypeOK
  <2>4. TickJobs' = TickJobs
    BY <1>1 DEF TickJobs
  <2> QED
    BY <1>1, <2>1, <2>2, <2>3, <2>4
       DEF IInv, WorkInv, RunJobAgreement, NoDuplicateJobs, Live
<1> QED
  BY <1>3, <1>4, <1>5, <1>6 DEF IInv

\* A handler that only loads its row keeps the invariant.
LEMMA LoadKeeps ==
  ASSUME IInv, NEW c \in Clients, NEW s \in Schedules,
         NEW op \in {"update", "delete", "run"}, NEW patch \in Patch,
         Load(c, s, op, patch),
         op = "update" => KindConfigured(Applied(row[s], patch)),
         op = "run" => row[s].agent \in Agents
  PROVE  IInv'
<1> DEFINE q == [op |-> op, sched |-> s, loaded |-> row[s], at |-> clock, patch |-> patch]
<1>1. /\ request' = [request EXCEPT ![c] = q]
      /\ UNCHANGED <<clock, exists, row, runs, jobs, xid, tick, crashes>>
  BY DEF Load
<1>2. TypeOK'
  <2>1. q \in Request
    BY DEF IInv, TypeOK, Request
  <2> QED
    BY <1>1, <2>1 DEF IInv, TypeOK, Live
<1>3. TickInv'
  BY <1>1 DEF IInv, TickInv, Live
<1>4. RequestInv'
  BY <1>1, ClockAssumption DEF IInv, RequestInv, TypeOK
<1>5. WorkInv'
  BY <1>1, WorkUnchanged DEF IInv
<1> QED
  BY <1>2, <1>3, <1>4, <1>5 DEF IInv

\* What is known of a request that is being handled.
LEMMA RequestFacts ==
  ASSUME IInv, NEW c \in Clients, request[c].op # "none"
  PROVE  /\ request[c].sched \in Schedules
         /\ request[c].loaded \in Row
         /\ request[c].patch \in Patch
         /\ request[c].at \in 0..MaxClock
         /\ request[c].at <= clock
BY DEF IInv, TypeOK, Request, RequestInv

\* A request that ends leaves the others as they are.
LEMMA FinishedKeeps ==
  ASSUME IInv, NEW c \in Clients, Finished(c), UNCHANGED clock
  PROVE  /\ request' \in [Clients -> Request]
         /\ \A d \in Clients : request'[d].op # "none" => request'[d].sched \in Schedules
         /\ RequestInv'
<1>1. request' \in [Clients -> Request]
  BY NothingPending DEF Finished, IInv, TypeOK
<1>2. \A d \in Clients : request'[d] = NoRequest \/ request'[d] = request[d]
  BY DEF Finished, IInv, TypeOK
<1>3. clock \in 0..MaxClock
  BY DEF IInv, TypeOK
<1> QED
  BY <1>1, <1>2, <1>3, ClockAssumption DEF IInv, TypeOK, NoRequest, RequestInv

\* The UPDATE of a PATCH, enable or disable waits for a locked row.
LEMMA CommitUpdateKeeps ==
  ASSUME IInv, NEW c \in Clients, CommitUpdate(c)
  PROVE  IInv'
<1> DEFINE s == request[c].sched
<1> DEFINE loaded == request[c].loaded
<1>1. /\ request[c].op = "update"
      /\ Finished(c)
      /\ UNCHANGED <<clock, exists, runs, jobs, xid, tick, crashes>>
  BY DEF CommitUpdate
<1>2. PICK now \in request[c].at..clock :
        LET new    == Patched(loaded, request[c].patch, now)
            result == Merged(loaded, new, row[s])
            writes == new # loaded /\ Live(s)
        IN  /\ writes => Writable(s)
            /\ row' = IF writes /\ KindConfigured(result)
                      THEN [row EXCEPT ![s] = result]
                      ELSE row
  BY DEF CommitUpdate
<1> DEFINE result == Merged(loaded, Patched(loaded, request[c].patch, now), row[s])
<1>3. s \in Schedules /\ loaded \in Row /\ request[c].patch \in Patch
  BY <1>1, RequestFacts
<1>4. result \in Row
  <2>1. now \in 0..MaxClock
    BY <1>1, RequestFacts, ClockAssumption DEF IInv, TypeOK
  <2>2. KindConfigured(Applied(loaded, request[c].patch))
    BY <1>1 DEF IInv, RequestInv
  <2>3. Patched(loaded, request[c].patch, now) \in Row
    BY <1>3, <2>1, <2>2, PatchedType
  <2>4. row[s] \in Row
    BY <1>3 DEF IInv, TypeOK
  <2> QED
    BY <1>3, <2>3, <2>4, MergedType
<1>5. \/ row' = row
      \/ /\ row' = [row EXCEPT ![s] = result]
         /\ KindConfigured(result)
         /\ Writable(s)
  BY <1>2
<1> HIDE DEF s, result, loaded
<1>6. TypeOK'
  BY <1>1, <1>3, <1>4, <1>5, FinishedKeeps DEF IInv, TypeOK, Live
<1>7. TickInv'
  <2>1. \A w \in Workers : \A u \in tick[w].batch : row'[u] = row[u]
    BY <1>3, <1>5, BatchFacts DEF Writable, Locked, IInv, TypeOK
  <2> QED
    BY <1>1, <2>1 DEF IInv, TickInv, Live
<1>8. RequestInv'
  BY <1>1, FinishedKeeps
<1>9. WorkInv'
  BY <1>1, WorkUnchanged DEF IInv
<1> QED
  BY <1>6, <1>7, <1>8, <1>9 DEF IInv

\* DELETE waits for a locked row, and takes the history of its own along.
LEMMA CommitDeleteKeeps ==
  ASSUME IInv, NEW c \in Clients, CommitDelete(c)
  PROVE  IInv'
<1> DEFINE s == request[c].sched
<1>1. /\ request[c].op = "delete"
      /\ Writable(s)
      /\ exists' = [exists EXCEPT ![s] = "deleted"]
      /\ row' = [row EXCEPT ![s] = BlankRow]
      /\ runs' = {r \in runs : r.sched # s}
      /\ Finished(c)
      /\ UNCHANGED <<clock, jobs, xid, tick, crashes>>
  BY DEF CommitDelete
<1>2. s \in Schedules
  BY <1>1, RequestFacts
<1> HIDE DEF s
<1>3. /\ exists' \in [Schedules -> {"never", "live", "deleted"}]
      /\ exists'[s] = "deleted"
      /\ \A u \in Schedules : u # s => exists'[u] = exists[u] /\ row'[u] = row[u]
  BY <1>1, <1>2 DEF IInv, TypeOK
<1>4. TypeOK'
  BY <1>1, <1>2, <1>3, BlankRowType, FinishedKeeps DEF IInv, TypeOK, Live
<1>5. TickInv'
  <2>1. \A w \in Workers : s \notin tick[w].batch
    BY <1>1, <1>2 DEF Writable, Locked
  <2>2. \A w \in Workers : \A u \in tick[w].batch : u \in Schedules /\ u # s
    BY <2>1, BatchFacts
  <2> QED
    BY <1>1, <1>3, <2>2 DEF IInv, TickInv, Live
<1>6. RequestInv'
  BY <1>1, FinishedKeeps
<1>7. WorkInv'
  <2>1. TickJobs' = TickJobs
    BY <1>1 DEF TickJobs
  <2>2. /\ \A j \in TickJobs : j.sched \in Schedules
        /\ \A r \in runs : r.sched \in Schedules
    BY DEF IInv, TypeOK, TickJobs, Job, Run
  <2>3. RunJobAgreement'
    BY <1>1, <1>3, <2>1, <2>2 DEF IInv, WorkInv, RunJobAgreement, Live
  <2> QED
    BY <1>1, <1>3, <2>1, <2>2, <2>3 DEF IInv, WorkInv, NoDuplicateJobs
<1> QED
  BY <1>4, <1>5, <1>6, <1>7 DEF IInv

\* A manual job is in a transaction of its own and no occurrence's job.
LEMMA CommitRunKeeps ==
  ASSUME IInv, NEW c \in Clients, CommitRun(c)
  PROVE  IInv'
<1>1. /\ request[c].op = "run"
      /\ xid' = xid + 1
      /\ Finished(c)
      /\ UNCHANGED <<clock, exists, row, runs, tick, crashes>>
  BY DEF CommitRun
<1>2. PICK now \in request[c].at..clock :
        jobs' = jobs \union {[xid |-> xid, sched |-> request[c].sched, for |-> now,
                              agent |-> request[c].loaded.agent, via |-> "manual"]}
  BY DEF CommitRun
<1>3. /\ request[c].sched \in Schedules
      /\ request[c].loaded.agent \in Agents
      /\ now \in Nat
  BY <1>1, RequestFacts, ClockAssumption DEF IInv, RequestInv, TypeOK
<1>4. TypeOK'
  <2>1. jobs' \subseteq Job
    BY <1>2, <1>3 DEF IInv, TypeOK, Job
  <2> QED
    BY <1>1, <2>1, FinishedKeeps DEF IInv, TypeOK, Live
<1>5. TickInv'
  BY <1>1 DEF IInv, TickInv, Live
<1>6. RequestInv'
  BY <1>1, FinishedKeeps
<1>7. WorkInv'
  <2>1. TickJobs' = TickJobs
    BY <1>2 DEF TickJobs
  <2>2. \A j \in jobs' : j.xid < xid'
    BY <1>1, <1>2 DEF IInv, WorkInv, TypeOK, Job
  <2> QED
    BY <1>1, <2>1, <2>2 DEF IInv, WorkInv, RunJobAgreement, NoDuplicateJobs, Live
<1> QED
  BY <1>4, <1>5, <1>6, <1>7 DEF IInv

\* A step that changes nothing keeps the invariant.
LEMMA StutterKeeps ==
  ASSUME IInv, UNCHANGED vars
  PROVE  IInv'
BY DEF vars, IInv, TypeOK, TickInv, RequestInv, WorkInv, RunJobAgreement,
       NoDuplicateJobs, TickJobs, Live

\* Every step of the scheduler keeps the invariant.
LEMMA NextKeeps ==
  ASSUME IInv, [Next]_vars
  PROVE  IInv'
<1>1. CASE Elapse
  BY <1>1, ElapseKeeps
<1>2. ASSUME NEW s \in Schedules, NEW p \in Payloads, CreateSchedule(s, p)
      PROVE  IInv'
  BY <1>2, CreateScheduleKeeps
<1>3. ASSUME NEW w \in Workers, WorkerNext(w)
      PROVE  IInv'
  <2>1. CASE TickBegin(w)
    BY <2>1, TickBeginKeeps
  <2>2. CASE TickCommit(w)
    BY <2>2, TickCommitKeeps
  <2>3. CASE TickRaise(w)
    BY <2>3, TickReleaseKeeps DEF TickRaise, IInv, TypeOK
  <2>4. CASE TickCrash(w)
    <3>1. crashes' \in 0..MaxCrashes
      BY <2>4, SchedulerAssumption DEF TickCrash, IInv, TypeOK
    <3> QED
      BY <2>4, <3>1, TickReleaseKeeps DEF TickCrash
  <2> QED
    BY <1>3, <2>1, <2>2, <2>3, <2>4 DEF WorkerNext
<1>4. ASSUME NEW c \in Clients, ClientNext(c)
      PROVE  IInv'
  <2>1. ASSUME NEW s \in Schedules, NEW p \in Patches, UpdateSchedule(c, s, p)
        PROVE  IInv'
    BY <2>1, LoadKeeps, SchedulerAssumption DEF UpdateSchedule
  <2>2. ASSUME NEW s \in Schedules, NEW flag \in BOOLEAN, SetScheduleEnabled(c, s, flag)
        PROVE  IInv'
    <3>1. row[s] \in Row /\ KindConfigured(row[s])
      BY <2>2 DEF SetScheduleEnabled, Load, IInv, TypeOK
    <3> QED
      BY <2>2, <3>1, EnabledPatchKeepsKind, LoadKeeps DEF SetScheduleEnabled
  <2>3. ASSUME NEW s \in Schedules, DeleteSchedule(c, s)
        PROVE  IInv'
    BY <2>3, LoadKeeps, NothingPending DEF DeleteSchedule
  <2>4. ASSUME NEW s \in Schedules, RunSchedule(c, s)
        PROVE  IInv'
    <3>1. row[s].agent \in Agents
      BY <2>4 DEF RunSchedule, IInv, TypeOK, Row
    <3> QED
      BY <2>4, <3>1, LoadKeeps, NothingPending DEF RunSchedule
  <2>5. CASE CommitUpdate(c)
    BY <2>5, CommitUpdateKeeps
  <2>6. CASE CommitDelete(c)
    BY <2>6, CommitDeleteKeeps
  <2>7. CASE CommitRun(c)
    BY <2>7, CommitRunKeeps
  <2> QED
    BY <1>4, <2>1, <2>2, <2>3, <2>4, <2>5, <2>6, <2>7 DEF ClientNext
<1>5. CASE UNCHANGED vars
  BY <1>5, StutterKeeps
<1> QED
  BY <1>1, <1>2, <1>3, <1>4, <1>5 DEF Next

\* The inductive invariant holds of every behaviour of the scheduler.
THEOREM Invariance == Spec => []IInv
BY InitIInv, NextKeeps, PTL DEF Spec

-----------------------------------------------------------------------------
(* The invariants the runs check.                                          *)

\* Every variable keeps its type, whatever the constants are.
THEOREM TypeCorrect == Spec => []TypeOK
BY Invariance, PTL DEF IInv

\* FOR UPDATE SKIP LOCKED and the row locks that handlers wait for keep what a
\* tick has read stable until its commit.
THEOREM LockedRowsAreStable == Spec => []LockedRowsStable
<1>1. IInv => LockedRowsStable
  BY DEF IInv, TickInv, LockedRowsStable
<1> QED
  BY <1>1, Invariance, PTL

\* No two ticks make a job for one occurrence of a schedule.
THEOREM JobsAreUnique == Spec => []NoDuplicateJobs
<1>1. IInv => NoDuplicateJobs
  BY DEF IInv, WorkInv
<1> QED
  BY <1>1, Invariance, PTL

\* schedule_runs and the jobs of the ticks tell the same story.
THEOREM HistoryAgreesWithJobs == Spec => []RunJobAgreement
<1>1. IInv => RunJobAgreement
  BY DEF IInv, WorkInv
<1> QED
  BY <1>1, Invariance, PTL

-----------------------------------------------------------------------------
(* What a step may do.                                                     *)

\* The only steps that make jobs are the commits of a tick and of a request
\* to run a schedule now.
LEMMA OtherStepsKeepJobs ==
  ASSUME [Next]_vars,
         \A w \in Workers : ~TickCommit(w),
         \A c \in Clients : ~CommitRun(c)
  PROVE  jobs' = jobs
BY DEF Next, vars, Elapse, CreateSchedule, WorkerNext, TickBegin, TickRaise,
       TickCrash, ClientNext, UpdateSchedule, SetScheduleEnabled,
       DeleteSchedule, RunSchedule, Load, CommitUpdate, CommitDelete

\* A tick commits jobs only for schedules that are due in the committed tables.
THEOREM FiringIsCurrent == Spec => FiringFollowsRow
<1>1. ASSUME IInv, [Next]_vars, NEW j \in jobs' \ jobs, j.via = "tick"
      PROVE  /\ Due(j.sched)
             /\ j.for = row[j.sched].next
             /\ j.agent = row[j.sched].agent
  <2>1. ~ \E c \in Clients : CommitRun(c)
    BY <1>1 DEF CommitRun
  <2>2. PICK w \in Workers : TickCommit(w)
    BY <1>1, <2>1, OtherStepsKeepJobs
  <2>3. PICK s \in WithOutcome(w, "materialized") : j = JobOfTick(w, s)
    BY <1>1, <2>2 DEF TickCommit
  <2>4. s \in tick[w].batch
    BY <2>3 DEF WithOutcome
  <2>5. j.sched = s /\ j.for = row[s].next /\ j.agent = row[s].agent
    BY <1>1, <2>3, <2>4, TickRecords
  <2>6. Due(s)
    BY <1>1, <2>4, BatchFacts, NoneAssumption DEF IInv, TickInv, Due
  <2> QED
    BY <2>5, <2>6
<1>2. IInv /\ [Next]_vars =>
        [\A j \in jobs' \ jobs : j.via = "tick" =>
           /\ Due(j.sched)
           /\ j.for = row[j.sched].next
           /\ j.agent = row[j.sched].agent]_vars
  BY <1>1
<1> QED
  BY <1>2, Invariance, PTL DEF Spec, FiringFollowsRow

\* A PATCH never touches last_run_at.
LEMMA PatchedKeepsLast ==
  ASSUME NEW r \in Row, NEW p \in Patch, KindConfigured(Applied(r, p)),
         NEW now \in 0..MaxClock, NEW stored \in Row
  PROVE  Merged(r, Patched(r, p, now), stored).last = stored.last
<1>1. Applied(r, p) \in Row /\ Applied(r, p).last = r.last
  BY AppliedType DEF Applied
<1>2. Patched(r, p, now).last = r.last
  BY <1>1 DEF Patched, Row
<1> QED
  BY <1>2 DEF Merged

\* No occurrence is left behind without a job or one of the early returns.
THEOREM OccurrencesAreAccounted == Spec => OccurrenceAccounted
<1> DEFINE AccountedFor(s) ==
      /\ row'[s].last = row[s].next
      /\ \/ PassedOver(row[s], clock)
         \/ \E j \in jobs' : j.via = "tick" /\ j.sched = s /\ j.for = row[s].next
<1>1. ASSUME IInv, [Next]_vars, NEW s \in Schedules,
             Live(s), exists'[s] = "live", row'[s].last # row[s].last
      PROVE  AccountedFor(s)
  <2>1. CASE \E w \in Workers : TickCommit(w)
    <3>1. PICK w \in Workers : TickCommit(w)
      BY <2>1
    <3>2. s \in Moved(w)
      BY <1>1, <3>1 DEF TickCommit
    <3>3. s \in tick[w].batch
      BY <3>2 DEF Moved, WithOutcome
    <3>4. /\ row[s] \in Row /\ KindConfigured(row[s])
          /\ tick[w].loaded[s] = row[s]
          /\ row[s].next \in 0..MaxClock
      BY <1>1, <3>3, BatchFacts
    <3>5. row'[s] = Advanced(row[s])
      BY <3>1, <3>2, <3>4, AdvancedType, MergedOverLoaded DEF TickCommit
    <3>6. row'[s].last = row[s].next
      BY <3>4, <3>5 DEF Advanced, Row
    <3>7. CASE s \in WithOutcome(w, "materialized")
      <4>1. JobOfTick(w, s) \in jobs'
        BY <3>1, <3>7 DEF TickCommit
      <4>2. JobOfTick(w, s).via = "tick" /\ JobOfTick(w, s).sched = s
            /\ JobOfTick(w, s).for = row[s].next
        BY <1>1, <3>3, TickRecords
      <4> QED
        BY <3>6, <4>1, <4>2
    <3>8. CASE s \notin WithOutcome(w, "materialized")
      <4>1. PassedOver(row[s], tick[w].now)
        BY <3>2, <3>4, <3>8 DEF Moved, WithOutcome, Outcome
      <4>2. tick[w].now \in 0..MaxClock /\ tick[w].now <= clock /\ clock \in 0..MaxClock
        BY <1>1 DEF IInv, TypeOK, TickInv, Tick
      <4>3. PassedOver(row[s], clock)
        BY <3>4, <4>1, <4>2, ClockAssumption DEF PassedOver
      <4> QED
        BY <3>6, <4>3
    <3> QED
      BY <3>7, <3>8
  <2>2. CASE \E c \in Clients : CommitUpdate(c)
    <3>1. PICK c \in Clients : CommitUpdate(c)
      BY <2>2
    <3>2. /\ request[c].op = "update"
          /\ request[c].loaded \in Row
          /\ request[c].patch \in Patch
          /\ request[c].at \in 0..MaxClock
          /\ KindConfigured(Applied(request[c].loaded, request[c].patch))
      BY <1>1, <3>1, RequestFacts DEF CommitUpdate, IInv, RequestInv
    <3>3. PICK now \in request[c].at..clock :
            row' = row \/ row' = [row EXCEPT ![request[c].sched] =
                     Merged(request[c].loaded,
                            Patched(request[c].loaded, request[c].patch, now),
                            row[request[c].sched])]
      BY <3>1 DEF CommitUpdate
    <3>4. now \in 0..MaxClock /\ row[s] \in Row /\ row \in [Schedules -> Row]
      BY <1>1, <3>2, <3>3, ClockAssumption DEF IInv, TypeOK
    <3>5. row'[s] = row[s] \/ row'[s] =
            Merged(request[c].loaded,
                   Patched(request[c].loaded, request[c].patch, now), row[s])
      BY <3>3, <3>4
    <3>6. row'[s].last = row[s].last
      BY <3>2, <3>4, <3>5, PatchedKeepsLast
    <3> QED
      BY <1>1, <3>6
  <2>3. CASE ~(\E w \in Workers : TickCommit(w)) /\ ~(\E c \in Clients : CommitUpdate(c))
    <3>1. row \in [Schedules -> Row] /\ exists \in [Schedules -> {"never", "live", "deleted"}]
      BY <1>1 DEF IInv, TypeOK
    <3>2. \/ row' = row
          \/ \E u \in Schedules, p \in Payloads : CreateSchedule(u, p)
          \/ \E c \in Clients : CommitDelete(c)
      BY <1>1, <2>3
         DEF Next, vars, Elapse, WorkerNext, TickBegin, TickRaise, TickCrash,
             ClientNext, UpdateSchedule, SetScheduleEnabled, DeleteSchedule,
             RunSchedule, Load, CommitRun
    <3>3. row'[s] = row[s]
      BY <1>1, <3>1, <3>2 DEF CreateSchedule, CommitDelete, Live
    <3> QED
      BY <1>1, <3>3
  <2> QED
    BY <2>1, <2>2, <2>3
<1>2. IInv /\ [Next]_vars =>
        [\A s \in Schedules :
           Live(s) /\ exists'[s] = "live" /\ row'[s].last # row[s].last =>
             /\ row'[s].last = row[s].next
             /\ \/ PassedOver(row[s], clock)
                \/ \E j \in jobs' : /\ j.via = "tick"
                                    /\ j.sched = s
                                    /\ j.for = row[s].next]_vars
  BY <1>1
<1> QED
  BY <1>2, Invariance, PTL DEF Spec, OccurrenceAccounted

-----------------------------------------------------------------------------
(* The scheduler implements the ledger of occurrences.                     *)

\* One transaction adds its entries to the ledger at once.
LEMMA TickFires ==
  ASSUME IInv, NEW w \in Workers, TickCommit(w)
  PROVE  Ledger!Fire \/ UNCHANGED <<jobs, clock>>
<1> DEFINE made == WithOutcome(w, "materialized")
<1> DEFINE new  == {JobOfTick(w, s) : s \in made}
<1>1. jobs' = jobs \union new /\ clock' = clock
  BY DEF TickCommit
<1>2. \A s \in made :
        /\ s \in Schedules /\ Live(s)
        /\ ~Recorded(s, row[s].next)
        /\ row[s].next <= clock /\ row[s].next \in Nat
        /\ row[s].agent \in Agents
        /\ JobOfTick(w, s) = [xid |-> xid, sched |-> s, for |-> row[s].next,
                              agent |-> row[s].agent, via |-> "tick"]
  BY MaterializedFacts, BatchFacts, TickRecords
<1>3. xid \in Nat /\ \A j \in jobs : j.xid # xid
  BY DEF IInv, TypeOK, WorkInv, Job
<1>4. CASE made = {}
  BY <1>1, <1>4
<1>5. CASE made # {}
  <2> HIDE DEF made
  <2>1. jobs' \ jobs = new
    BY <1>1, <1>2, <1>3
  <2>2. Ledger!Posted(new)
    BY <1>1, <1>2, <1>3, <1>5 DEF Ledger!Posted, Ledger!Entry
  <2>3. \A e \in new, f \in jobs : f.via = "tick" => e.sched # f.sched \/ e.for # f.for
    BY <1>2 DEF IInv, WorkInv, RunJobAgreement, Recorded, TickJobs
  <2>4. /\ \A e \in new : e.via = "tick"
        /\ \A e, f \in new : e.sched = f.sched => e = f
    BY <1>2
  <2> HIDE DEF new
  <2> QED
    BY <2>1, <2>2, <2>3, <2>4 DEF Ledger!Fire
<1> QED
  BY <1>4, <1>5

\* POST /schedules/{id}/run posts one manual entry.
LEMMA ManualPosts ==
  ASSUME IInv, NEW c \in Clients, CommitRun(c)
  PROVE  Ledger!Manual
<1>1. PICK now \in request[c].at..clock :
        jobs' = jobs \union {[xid |-> xid, sched |-> request[c].sched, for |-> now,
                              agent |-> request[c].loaded.agent, via |-> "manual"]}
  BY DEF CommitRun
<1> DEFINE job == [xid |-> xid, sched |-> request[c].sched, for |-> now,
                   agent |-> request[c].loaded.agent, via |-> "manual"]
<1>2. request[c].op = "run" /\ clock' = clock
  BY DEF CommitRun
<1>3. /\ request[c].sched \in Schedules
      /\ request[c].loaded.agent \in Agents
      /\ now \in Nat /\ now <= clock
  BY <1>2, RequestFacts, ClockAssumption DEF IInv, RequestInv, TypeOK
<1>4. xid \in Nat /\ \A j \in jobs : j.xid # xid
  BY DEF IInv, TypeOK, WorkInv, Job
<1>5. jobs' \ jobs = {job}
  BY <1>1, <1>4
<1>6. Ledger!Posted({job})
  BY <1>1, <1>2, <1>3, <1>4 DEF Ledger!Posted, Ledger!Entry
<1> QED
  BY <1>5, <1>6 DEF Ledger!Manual

\* Every step of the scheduler is a step of the ledger or changes neither.
LEMMA StepImplementsLedger ==
  ASSUME IInv, [Next]_vars
  PROVE  [Ledger!Next]_<<jobs, clock>>
<1>1. CASE Elapse
  BY <1>1 DEF Elapse, Ledger!Next, Ledger!Pass
<1>2. CASE \E w \in Workers : TickCommit(w)
  BY <1>2, TickFires DEF Ledger!Next
<1>3. CASE \E c \in Clients : CommitRun(c)
  BY <1>3, ManualPosts DEF Ledger!Next
<1>4. CASE /\ ~Elapse
           /\ ~ \E w \in Workers : TickCommit(w)
           /\ ~ \E c \in Clients : CommitRun(c)
  <2>1. jobs' = jobs
    BY <1>4, OtherStepsKeepJobs
  <2>2. clock' = clock
    BY <1>4
       DEF Next, vars, CreateSchedule, WorkerNext, TickBegin, TickRaise,
           TickCrash, ClientNext, UpdateSchedule, SetScheduleEnabled,
           DeleteSchedule, RunSchedule, Load, CommitUpdate, CommitDelete
  <2> QED
    BY <2>1, <2>2
<1> QED
  BY <1>1, <1>2, <1>3, <1>4

\* Whatever the workers and requests do, the jobs are a ledger: handed out
\* once per occurrence, never early, never withdrawn.
THEOREM ImplementsLedger == Spec => LedgerSpec
<1>1. Init => Ledger!Init
  BY DEF Init, Ledger!Init
<1> QED
  BY <1>1, Invariance, StepImplementsLedger, PTL DEF Spec, LedgerSpec, Ledger!Spec

-----------------------------------------------------------------------------
(* One PATCH, enable or disable of a schedule at a time.                   *)

OneUpdate ==
  \A c, d \in Clients :
    /\ request[c].op = "update" /\ request[d].op = "update"
    /\ request[c].sched = request[d].sched
    => c = d

\* Ticks, which alone can write a row between its load by such a request and
\* the commit, leave a row that was disabled when it was loaded as it was.
LoadedInv ==
  \A c \in Clients : request[c].op = "update" =>
    LET s == request[c].sched
    IN  /\ exists[s] # "never"
        /\ Live(s) => row[s] = request[c].loaded \/ request[c].loaded.enabled

DueInv == EnabledHasNextRun /\ LoadedInv

\* An enabled schedule that a PATCH recalculates gets a due time.
LEMMA InitialIsDue ==
  ASSUME NEW r \in Row, KindConfigured(r), r.enabled, NEW now \in 0..MaxClock
  PROVE  InitialNextRunAt(r, now) # None
<1>1. CASE r.kind = "once"
  BY <1>1 DEF InitialNextRunAt, KindConfigured
<1>2. CASE r.kind # "once"
  <2>1. r.cron \in Crons
    BY <1>2 DEF Row, KindConfigured
  <2>2. NextFire[r.cron][now] \in Nat
    BY <2>1, CronAssumption
  <2> QED
    BY <1>2, <2>2, NoneAssumption DEF InitialNextRunAt
<1> QED
  BY <1>1, <1>2

\* A schedule that moves on and stays enabled has a further occurrence.
LEMMA AdvancedIsDue ==
  ASSUME NEW r \in Row, KindConfigured(r), r.next \in 0..MaxClock,
         Advanced(r).enabled
  PROVE  Advanced(r).next # None
<1>1. r.kind # "once"
  BY DEF Advanced, Row
<1>2. r.cron \in Crons
  BY <1>1 DEF Row, KindConfigured
<1>3. NextFire[r.cron][r.next] \in Nat
  BY <1>2, CronAssumption
<1> QED
  BY <1>1, <1>3, NoneAssumption DEF Advanced, Row

\* The UPDATE of a recalculated row over one that only ticks have changed.
LEMMA MergedNewIsDue ==
  ASSUME NEW loaded \in Row, NEW new \in Row, NEW stored \in Row,
         new.enabled => new.next # None,
         stored = loaded \/ loaded.enabled,
         stored.enabled => stored.next # None,
         Merged(loaded, new, stored).enabled
  PROVE  Merged(loaded, new, stored).next # None
<1> DEFINE merged == Merged(loaded, new, stored)
<1>1. /\ merged.enabled = IF new.enabled = loaded.enabled THEN stored.enabled ELSE new.enabled
      /\ merged.next = IF new.next = loaded.next THEN stored.next ELSE new.next
  BY DEF Merged
<1>2. /\ loaded.enabled \in BOOLEAN
      /\ stored.enabled \in BOOLEAN
      /\ new.enabled \in BOOLEAN
  BY DEF Row
<1>3. merged.enabled
  OBVIOUS
<1> SUFFICES merged.next # None
  OBVIOUS
<1> HIDE DEF merged
<1>4. CASE new.enabled = loaded.enabled
  <2>1. stored.enabled
    BY <1>1, <1>3, <1>4
  <2>2. new.enabled
    BY <1>2, <1>4, <2>1
  <2> QED
    BY <1>1, <2>1, <2>2
<1>5. CASE new.enabled # loaded.enabled
  <2>1. new.enabled
    BY <1>1, <1>3, <1>5
  <2>2. stored = loaded
    BY <1>2, <1>5, <2>1
  <2> QED
    BY <1>1, <2>1, <2>2
<1> QED
  BY <1>4, <1>5

\* The UPDATE of a PATCH over a row that only ticks have changed since.
LEMMA MergedIsDue ==
  ASSUME NEW loaded \in Row, NEW stored \in Row, NEW p \in Patch,
         NEW now \in 0..MaxClock,
         KindConfigured(Applied(loaded, p)),
         stored = loaded \/ loaded.enabled,
         stored.enabled => stored.next # None,
         Merged(loaded, Patched(loaded, p, now), stored).enabled
  PROVE  Merged(loaded, Patched(loaded, p, now), stored).next # None
<1> DEFINE new == Patched(loaded, p, now)
<1>1. /\ Merged(loaded, new, stored).enabled
           = IF new.enabled = loaded.enabled THEN stored.enabled ELSE new.enabled
      /\ Merged(loaded, new, stored).next
           = IF new.next = loaded.next THEN stored.next ELSE new.next
  BY DEF Merged
<1>2. Applied(loaded, p) \in Row
  BY AppliedType
<1>3. loaded.enabled \in BOOLEAN /\ stored.enabled \in BOOLEAN
  BY DEF Row
<1>4. CASE p.fields \intersect SchedulingFields = {}
  <2>1. new = Applied(loaded, p)
    BY <1>4 DEF Patched
  <2>2. new.enabled = loaded.enabled /\ new.next = loaded.next
    BY <1>4, <2>1 DEF Applied, SchedulingFields
  <2> QED
    BY <1>1, <2>2
<1>5. CASE p.fields \intersect SchedulingFields # {}
  <2>1. /\ new.enabled = Applied(loaded, p).enabled
        /\ new.next = InitialNextRunAt(Applied(loaded, p), now)
    BY <1>2, <1>5 DEF Patched, Row
  <2>2. new.enabled => new.next # None
    BY <1>2, <2>1, InitialIsDue
  <2>3. new \in Row
    BY PatchedType
  <2> QED
    BY <2>2, <2>3, MergedNewIsDue
<1> QED
  BY <1>4, <1>5

\* A tick moves rows on, enabled ones only.
LEMMA TickCommitKeepsDue ==
  ASSUME IInv, DueInv, NEW w \in Workers, TickCommit(w)
  PROVE  DueInv'
<1>1. \A s \in Schedules : row'[s] = row[s] \/
        (row[s].enabled /\ (row'[s].enabled => row'[s].next # None))
  <2> SUFFICES ASSUME NEW s \in Schedules, s \in Moved(w)
               PROVE  row[s].enabled /\ (row'[s].enabled => row'[s].next # None)
    BY DEF TickCommit
  <2>1. s \in tick[w].batch
    BY DEF Moved, WithOutcome
  <2>2. /\ row[s] \in Row /\ KindConfigured(row[s])
        /\ tick[w].loaded[s] = row[s]
        /\ row[s].next \in 0..MaxClock
    BY <2>1, BatchFacts
  <2>3. row'[s] = Advanced(row[s])
    BY <2>2, AdvancedType, MergedOverLoaded DEF TickCommit
  <2>4. row[s].enabled
    BY <2>1 DEF IInv, TickInv
  <2> QED
    BY <2>2, <2>3, <2>4, AdvancedIsDue
<1>2. UNCHANGED <<exists, request>>
  BY DEF TickCommit
<1>3. EnabledHasNextRun'
  BY <1>1, <1>2 DEF DueInv, EnabledHasNextRun, Live
<1>4. LoadedInv'
  <2> SUFFICES ASSUME NEW c \in Clients, request[c].op = "update"
               PROVE  LET s == request[c].sched
                      IN  /\ exists[s] # "never"
                          /\ Live(s) => row'[s] = request[c].loaded \/ request[c].loaded.enabled
    BY <1>2 DEF LoadedInv, Live
  <2>1. request[c].sched \in Schedules
    BY RequestFacts
  <2> QED
    BY <1>1, <2>1 DEF DueInv, LoadedInv
<1> QED
  BY <1>3, <1>4 DEF DueInv

\* A request is done, and no row that another one has loaded was written.
LEMMA FinishedKeepsLoaded ==
  ASSUME IInv, LoadedInv, NEW c \in Clients, Finished(c),
         \A d \in Clients \ {c} : request[d].op = "update" =>
           \/ exists'[request[d].sched] = "deleted"
           \/ /\ exists'[request[d].sched] = exists[request[d].sched]
              /\ row'[request[d].sched] = row[request[d].sched]
  PROVE  LoadedInv'
<1>1. request'[c] = NoRequest /\ \A d \in Clients \ {c} : request'[d] = request[d]
  BY DEF Finished, IInv, TypeOK
<1> QED
  BY <1>1 DEF LoadedInv, NoRequest, Live

\* A PATCH, enable or disable keeps an enabled row due.
LEMMA CommitUpdateKeepsDue ==
  ASSUME IInv, DueInv, OneUpdate, NEW c \in Clients, CommitUpdate(c)
  PROVE  DueInv'
<1> DEFINE s == request[c].sched
<1> DEFINE loaded == request[c].loaded
<1> DEFINE p == request[c].patch
<1>1. request[c].op = "update" /\ Finished(c) /\ exists' = exists
  BY DEF CommitUpdate
<1>2. PICK now \in request[c].at..clock :
        \/ row' = row
        \/ Live(s) /\ row' = [row EXCEPT ![s] = Merged(loaded, Patched(loaded, p, now), row[s])]
  BY DEF CommitUpdate
<1>3. s \in Schedules /\ loaded \in Row /\ p \in Patch /\ row \in [Schedules -> Row]
  BY <1>1, RequestFacts DEF IInv, TypeOK
<1>4. now \in 0..MaxClock
  BY <1>1, RequestFacts, ClockAssumption DEF IInv, TypeOK
<1>5. KindConfigured(Applied(loaded, p))
  BY <1>1 DEF IInv, RequestInv
<1>6. EnabledHasNextRun'
  <2>1. CASE row' = row
    BY <1>1, <2>1 DEF DueInv, EnabledHasNextRun, Live
  <2>2. CASE /\ Live(s)
             /\ row' = [row EXCEPT ![s] = Merged(loaded, Patched(loaded, p, now), row[s])]
    <3>1. row[s] = loaded \/ loaded.enabled
      BY <1>1, <2>2 DEF DueInv, LoadedInv
    <3>2. row[s] \in Row /\ (row[s].enabled => row[s].next # None)
      BY <1>3, <2>2 DEF DueInv, EnabledHasNextRun
    <3>3. row'[s] = Merged(loaded, Patched(loaded, p, now), row[s])
      BY <1>3, <2>2
    <3> HIDE DEF s, loaded, p
    <3>4. row'[s].enabled => row'[s].next # None
      BY <1>3, <1>4, <1>5, <3>1, <3>2, <3>3, MergedIsDue
    <3>5. \A u \in Schedules : u # s => row'[u] = row[u]
      BY <1>3, <2>2
    <3> QED
      BY <1>1, <3>4, <3>5 DEF DueInv, EnabledHasNextRun, Live
  <2> QED
    BY <1>2, <2>1, <2>2
<1>7. ASSUME NEW d \in Clients \ {c}, request[d].op = "update"
      PROVE  row'[request[d].sched] = row[request[d].sched]
  <2>1. request[d].sched \in Schedules /\ request[d].sched # s
    BY <1>1, <1>7, RequestFacts DEF OneUpdate
  <2> HIDE DEF s
  <2> QED
    BY <1>2, <1>3, <2>1
<1>8. LoadedInv'
  BY <1>1, <1>7, FinishedKeepsLoaded DEF DueInv
<1> QED
  BY <1>6, <1>8 DEF DueInv

\* Every step keeps enabled schedules due, if no two updates of it overlap.
LEMMA NextKeepsDue ==
  ASSUME IInv, DueInv, OneUpdate, [Next]_vars
  PROVE  DueInv'
<1> USE DEF DueInv
<1>1. CASE UNCHANGED <<exists, row, request>>
  BY <1>1 DEF EnabledHasNextRun, LoadedInv, Live
<1>2. ASSUME NEW s \in Schedules, NEW p \in Payloads, CreateSchedule(s, p)
      PROVE  DueInv'
  <2>1. /\ exists[s] = "never"
        /\ exists' = [exists EXCEPT ![s] = "live"]
        /\ row' = [row EXCEPT ![s] = [p EXCEPT !.next = InitialNextRunAt(p, clock)]]
        /\ request' = request
    BY <1>2 DEF CreateSchedule
  <2>2. p \in Row /\ KindConfigured(p) /\ clock \in 0..MaxClock
    BY SchedulerAssumption DEF Payload, IInv, TypeOK
  <2>3. p.enabled => InitialNextRunAt(p, clock) # None
    BY <2>2, InitialIsDue
  <2>4. /\ row'[s].enabled = p.enabled
        /\ row'[s].next = InitialNextRunAt(p, clock)
        /\ \A u \in Schedules : u # s => row'[u] = row[u] /\ exists'[u] = exists[u]
    BY <2>1, <2>2 DEF IInv, TypeOK, Row
  <2>5. EnabledHasNextRun'
    BY <2>1, <2>3, <2>4 DEF EnabledHasNextRun, Live
  <2>6. \A c \in Clients : request[c].op = "update" =>
          request[c].sched \in Schedules /\ request[c].sched # s
    BY <2>1, RequestFacts DEF LoadedInv
  <2>7. LoadedInv'
    BY <2>1, <2>4, <2>6 DEF LoadedInv, Live
  <2> QED
    BY <2>5, <2>7
<1>3. ASSUME NEW w \in Workers, WorkerNext(w)
      PROVE  DueInv'
  BY <1>1, <1>3, TickCommitKeepsDue DEF WorkerNext, TickBegin, TickRaise, TickCrash
<1>4. ASSUME NEW c \in Clients, ClientNext(c)
      PROVE  DueInv'
  <2>1. ASSUME NEW s \in Schedules, NEW op, NEW patch, Load(c, s, op, patch)
        PROVE  DueInv'
    <3>1. /\ Live(s) /\ UNCHANGED <<exists, row>>
          /\ request' = [request EXCEPT ![c] =
               [op |-> op, sched |-> s, loaded |-> row[s], at |-> clock, patch |-> patch]]
      BY <2>1 DEF Load
    <3>2. \A d \in Clients : \/ request'[d] = request[d]
                             \/ request'[d].sched = s /\ request'[d].loaded = row[s]
      BY <3>1 DEF IInv, TypeOK
    <3> QED
      BY <3>1, <3>2 DEF EnabledHasNextRun, LoadedInv, Live
  <2>2. CASE CommitUpdate(c)
    BY <2>2, CommitUpdateKeepsDue
  <2>3. CASE CommitDelete(c)
    <3>1. /\ Finished(c)
          /\ exists' = [exists EXCEPT ![request[c].sched] = "deleted"]
          /\ row' = [row EXCEPT ![request[c].sched] = BlankRow]
      BY <2>3 DEF CommitDelete
    <3>2. EnabledHasNextRun'
      BY <3>1 DEF EnabledHasNextRun, Live, IInv, TypeOK
    <3>3. /\ exists'[request[c].sched] = "deleted"
          /\ \A s \in Schedules \ {request[c].sched} :
               row'[s] = row[s] /\ exists'[s] = exists[s]
      BY <2>3, <3>1, RequestFacts DEF CommitDelete, IInv, TypeOK
    <3>4. \A d \in Clients : request[d].op = "update" => request[d].sched \in Schedules
      BY RequestFacts
    <3>5. LoadedInv'
      BY <3>1, <3>3, <3>4, FinishedKeepsLoaded
    <3> QED
      BY <3>2, <3>5
  <2>4. CASE CommitRun(c)
    <3>1. Finished(c) /\ UNCHANGED <<exists, row>>
      BY <2>4 DEF CommitRun
    <3> QED
      BY <3>1, FinishedKeepsLoaded DEF EnabledHasNextRun, Live
  <2> QED
    BY <1>4, <2>1, <2>2, <2>3, <2>4
       DEF ClientNext, UpdateSchedule, SetScheduleEnabled, DeleteSchedule, RunSchedule
<1> QED
  BY <1>1, <1>2, <1>3, <1>4 DEF Next, Elapse, vars

\* If the updates of a schedule come one at a time, it has a due time while it
\* is enabled, whatever ticks and other requests commit between the load and the
\* UPDATE (update_schedule and set_schedule_enabled write the columns that
\* differ from the loaded row).
THEOREM EnabledAlwaysHasNextRun == Spec /\ []OneUpdate => []EnabledHasNextRun
<1>1. Init => DueInv
  BY DEF Init, DueInv, EnabledHasNextRun, LoadedInv, Live, NoRequest
<1>2. IInv /\ DueInv /\ OneUpdate /\ [Next]_vars => DueInv'
  BY NextKeepsDue
<1>3. DueInv => EnabledHasNextRun
  BY DEF DueInv
<1> QED
  BY <1>1, <1>2, <1>3, Invariance, PTL DEF Spec

-----------------------------------------------------------------------------
(* No request makes an occurrence due that was recorded.                   *)

\* A row has usable parameters, and is due later than all it has a run for.
Ahead(s) ==
  /\ row[s].params = "object"
  /\ Live(s) /\ row[s].next # None =>
       \A r \in runs : r.sched = s => r.for < row[s].next

AheadInv == \A s \in Schedules : Ahead(s)

\* An UPDATE sets no parameters to null, and no due time back to an occurrence
\* that has a run or lies before one that has.
ForwardStep ==
  \A c \in Clients, s \in Schedules : CommitUpdate(c) =>
    /\ row'[s].params = row[s].params
    /\ \/ row'[s].next \in {row[s].next, None}
       \/ \A r \in runs : r.sched = s => r.for < row'[s].next

OnlyForward == [][ForwardStep]_vars

\* The next occurrence is later.
LEMMA AdvancedIsLater ==
  ASSUME NEW r \in Row, KindConfigured(r), r.next \in 0..MaxClock
  PROVE  /\ Advanced(r).last = r.next
         /\ Advanced(r).params = r.params
         /\ Advanced(r).next = None \/ (Advanced(r).next \in Nat /\ Advanced(r).next > r.next)
<1>1. CASE r.kind = "once"
  BY <1>1 DEF Row, Advanced
<1>2. CASE r.kind # "once"
  <2>1. r.cron \in Crons
    BY <1>2 DEF Row, KindConfigured
  <2>2. NextFire[r.cron][r.next] \in Nat /\ NextFire[r.cron][r.next] > r.next
    BY <2>1, CronAssumption
  <2> QED
    BY <1>2, <2>2 DEF Row, Advanced
<1> QED
  BY <1>1, <1>2

\* A batch of such rows is materialized or passed over, all of it.
LEMMA AheadMoves ==
  ASSUME IInv, AheadInv, NEW w \in Workers
  PROVE  Moved(w) = tick[w].batch /\ WithOutcome(w, "raised") = {}
<1>1. ASSUME NEW s \in tick[w].batch
      PROVE  Outcome(tick[w].loaded[s], tick[w].now, Recorded(s, tick[w].loaded[s].next))
               \in {"skipped", "materialized"}
  <2>1. s \in Schedules /\ Live(s) /\ tick[w].loaded[s] = row[s] /\ row[s].next \in Nat
    BY BatchFacts, ClockAssumption
  <2>2. row[s].next # None
    BY <2>1, NoneAssumption
  <2>3. row[s].params = "object" /\ \A r \in runs : r.sched = s => r.for < row[s].next
    BY <2>1, <2>2 DEF AheadInv, Ahead
  <2>4. ~Recorded(s, row[s].next)
    BY <2>1, <2>3 DEF Recorded
  <2> QED
    BY <2>1, <2>3, <2>4 DEF Outcome
<1> QED
  BY <1>1 DEF Moved, WithOutcome

\* What the COMMIT of a tick makes of the rows of its batch.
LEMMA MovedRow ==
  ASSUME IInv, NEW w \in Workers, TickCommit(w), NEW s \in Moved(w)
  PROVE  s \in tick[w].batch /\ row'[s] = Advanced(row[s])
<1>1. s \in tick[w].batch
  BY DEF Moved, WithOutcome
<1>2. /\ s \in Schedules /\ row[s] \in Row /\ KindConfigured(row[s])
      /\ tick[w].loaded[s] = row[s]
      /\ row[s].next \in 0..MaxClock
  BY <1>1, BatchFacts
<1> QED
  BY <1>1, <1>2, AdvancedType, MergedOverLoaded DEF TickCommit

\* A tick records an occurrence and goes past it.
LEMMA TickCommitKeepsAhead ==
  ASSUME IInv, AheadInv, NEW w \in Workers, TickCommit(w)
  PROVE  AheadInv'
<1> SUFFICES ASSUME NEW s \in Schedules PROVE Ahead(s)'
  BY DEF AheadInv
<1>1. Ahead(s) /\ exists' = exists
  BY DEF AheadInv, TickCommit
<1>2. \A r \in runs' \ runs : r.sched \in tick[w].batch /\ r.for = row[r.sched].next
  <2>1. runs' = runs \union {RunOf(w, u) : u \in WithOutcome(w, "materialized")}
    BY AheadMoves DEF TickCommit
  <2>2. \A u \in WithOutcome(w, "materialized") :
          u \in tick[w].batch /\ RunOf(w, u).sched = u /\ RunOf(w, u).for = row[u].next
    BY TickRecords DEF WithOutcome
  <2> QED
    BY <2>1, <2>2
<1>3. CASE s \notin tick[w].batch
  <2>1. row'[s] = row[s]
    BY <1>3, AheadMoves DEF TickCommit
  <2> QED
    BY <1>1, <1>2, <1>3, <2>1 DEF Ahead, Live
<1>4. CASE s \in tick[w].batch
  <2>1. /\ row[s] \in Row /\ KindConfigured(row[s]) /\ Live(s)
        /\ row[s].next \in 0..MaxClock /\ row[s].next \in Nat
    BY <1>4, BatchFacts, ClockAssumption
  <2>2. row'[s] = Advanced(row[s])
    BY <1>4, AheadMoves, MovedRow
  <2>3. /\ row'[s].params = row[s].params
        /\ row'[s].next = None \/ (row'[s].next \in Nat /\ row'[s].next > row[s].next)
    BY <2>1, <2>2, AdvancedIsLater
  <2>4. \A r \in runs : r.sched = s => r.for < row[s].next /\ r.for \in Nat
    BY <1>1, <2>1, NoneAssumption DEF Ahead, IInv, TypeOK, Run
  <2>5. \A r \in runs' : r.sched = s => r.for \in Nat /\ r.for <= row[s].next
    BY <1>2, <2>1, <2>4
  <2> QED
    BY <1>1, <2>1, <2>3, <2>5 DEF Ahead, Live
<1> QED
  BY <1>3, <1>4

\* No step of a worker or a request, of that kind, makes a recorded occurrence
\* due.
LEMMA NextKeepsAhead ==
  ASSUME IInv, AheadInv, [ForwardStep]_vars, [Next]_vars
  PROVE  AheadInv'
<1>1. CASE UNCHANGED <<exists, row, runs>>
  BY <1>1 DEF AheadInv, Ahead, Live
<1>2. ASSUME NEW s \in Schedules, NEW p \in Payloads, CreateSchedule(s, p)
      PROVE  AheadInv'
  <2>1. /\ exists[s] = "never" /\ runs' = runs
        /\ exists' = [exists EXCEPT ![s] = "live"]
        /\ row' = [row EXCEPT ![s] = [p EXCEPT !.next = InitialNextRunAt(p, clock)]]
    BY <1>2 DEF CreateSchedule
  <2>2. p \in Row /\ p.params = "object"
    BY SchedulerAssumption DEF Payload
  <2>3. /\ row'[s].params = "object"
        /\ \A u \in Schedules \ {s} : row'[u] = row[u] /\ exists'[u] = exists[u]
    BY <2>1, <2>2 DEF IInv, TypeOK, Row
  <2>4. \A r \in runs : r.sched # s
    BY <2>1 DEF IInv, WorkInv, RunJobAgreement, Live
  <2> QED
    BY <2>1, <2>3, <2>4 DEF AheadInv, Ahead, Live
<1>3. ASSUME NEW w \in Workers, WorkerNext(w)
      PROVE  AheadInv'
  BY <1>1, <1>3, TickCommitKeepsAhead DEF WorkerNext, TickBegin, TickRaise, TickCrash
<1>4. ASSUME NEW c \in Clients, ClientNext(c)
      PROVE  AheadInv'
  <2>1. CASE CommitUpdate(c)
    <3>1. UNCHANGED <<exists, runs>>
      BY <2>1 DEF CommitUpdate
    <3>2. ForwardStep
      <4>1. CASE UNCHANGED vars
        BY <4>1 DEF vars, ForwardStep
      <4> QED
        BY <4>1
    <3>3. ASSUME NEW s \in Schedules
          PROVE  /\ row'[s].params = row[s].params
                 /\ \/ row'[s].next \in {row[s].next, None}
                    \/ \A r \in runs : r.sched = s => r.for < row'[s].next
      BY <2>1, <3>2 DEF ForwardStep
    <3> QED
      BY <3>1, <3>3 DEF AheadInv, Ahead, Live
  <2>2. CASE CommitDelete(c)
    <3>1. /\ request[c].sched \in Schedules
          /\ exists' = [exists EXCEPT ![request[c].sched] = "deleted"]
          /\ row' = [row EXCEPT ![request[c].sched] = BlankRow]
          /\ runs' \subseteq runs
      BY <2>2, RequestFacts DEF CommitDelete
    <3>2. BlankRow.params = "object"
      BY DEF BlankRow
    <3>3. /\ row'[request[c].sched] = BlankRow /\ exists'[request[c].sched] = "deleted"
          /\ \A u \in Schedules \ {request[c].sched} : row'[u] = row[u] /\ exists'[u] = exists[u]
      BY <3>1 DEF IInv, TypeOK
    <3> QED
      BY <3>1, <3>2, <3>3 DEF AheadInv, Ahead, Live
  <2> QED
    BY <1>1, <1>4, <2>1, <2>2
       DEF ClientNext, UpdateSchedule, SetScheduleEnabled, DeleteSchedule, RunSchedule, Load,
           CommitRun
<1> QED
  BY <1>1, <1>2, <1>3, <1>4 DEF Next, Elapse, vars

\* A tick that has begun and does not crash commits, and moves each row it has
\* locked to a later occurrence or to none, as long as no request makes a
\* recorded occurrence due or sets parameters to null: no row stays in the way of
\* those behind it (process_due_schedules).
THEOREM TicksAlwaysMoveOn == Spec /\ OnlyForward => TicksMoveOn
<1> DEFINE MoveOn == \A w \in Workers :
             tick[w].batch # {} /\ tick'[w].batch = {} /\ crashes' = crashes =>
               \A s \in tick[w].batch :
                 /\ row'[s].last = row[s].next
                 /\ row'[s].next # None => row'[s].next > row[s].next
<1>1. Init => AheadInv
  BY DEF Init, AheadInv, Ahead, BlankRow
<1>2. IInv /\ AheadInv /\ [ForwardStep]_vars /\ [Next]_vars => AheadInv'
  BY NextKeepsAhead
<1>3. IInv /\ AheadInv /\ [Next]_vars => [MoveOn]_vars
  <2> SUFFICES ASSUME IInv, AheadInv, [Next]_vars, NEW w \in Workers,
                      tick[w].batch # {}, tick'[w].batch = {}, crashes' = crashes,
                      NEW s \in tick[w].batch
               PROVE  /\ row'[s].last = row[s].next
                      /\ row'[s].next # None => row'[s].next > row[s].next
    OBVIOUS
  <2>1. tick' # tick
    OBVIOUS
  <2>2. PICK v \in Workers : WorkerNext(v)
    BY <2>1 DEF Next, Elapse, CreateSchedule, ClientNext, UpdateSchedule, SetScheduleEnabled,
                DeleteSchedule, RunSchedule, Load, CommitUpdate, CommitDelete, CommitRun, vars
  <2>3. ~TickCrash(v)
    BY SchedulerAssumption DEF TickCrash, IInv, TypeOK
  <2>4. ~TickRaise(v)
    BY AheadMoves DEF TickRaise, Unrecordable
  <2>5. ~TickBegin(v)
    <3>1. ASSUME TickBegin(v)
          PROVE  FALSE
      <4>1. v # w /\ tick'[w] = tick[w]
        BY <3>1 DEF TickBegin, IInv, TypeOK
      <4> QED
        BY <4>1
    <3> QED
      BY <3>1
  <2>6. TickCommit(v)
    BY <2>2, <2>3, <2>4, <2>5 DEF WorkerNext
  <2>7. v = w
    BY <2>6 DEF TickCommit, IInv, TypeOK
  <2>8. row'[s] = Advanced(row[s])
    BY <2>6, <2>7, AheadMoves, MovedRow
  <2>9. row[s] \in Row /\ KindConfigured(row[s]) /\ row[s].next \in 0..MaxClock
    BY BatchFacts
  <2> QED
    BY <2>8, <2>9, AdvancedIsLater
<1> QED
  BY <1>1, <1>2, <1>3, Invariance, PTL DEF Spec, OnlyForward, TicksMoveOn

-----------------------------------------------------------------------------
(* No run is recorded while a schedule is being deleted.                   *)

\* A schedule that a request is going to delete has no history.
DeleteInv ==
  \A c \in Clients : request[c].op = "delete" => \A r \in runs : r.sched # request[c].sched

QuietStep ==
  \A c \in Clients : request[c].op = "delete" =>
    \A r \in runs' \ runs : r.sched # request[c].sched

QuietDeletes == [][QuietStep]_vars

\* A recorded run is never lost, as long as no tick records one between the
\* check for history and the DELETE of the same request (delete_schedule).
THEOREM HistoryIsKept == Spec /\ QuietDeletes => HistoryKept
<1> DEFINE Kept == \A r \in runs : \E q \in runs' : q.sched = r.sched /\ q.for = r.for
<1>1. Init => DeleteInv
  BY DEF Init, DeleteInv
<1>2. IInv /\ DeleteInv /\ [Next]_vars => (runs \subseteq runs')
  <2> SUFFICES ASSUME IInv, DeleteInv, [Next]_vars
               PROVE  runs \subseteq runs'
    OBVIOUS
  <2>1. ASSUME NEW c \in Clients, CommitDelete(c)
        PROVE  runs' = runs
    BY <2>1 DEF CommitDelete, DeleteInv
  <2>2. ASSUME NEW w \in Workers, TickCommit(w)
        PROVE  runs \subseteq runs'
    BY <2>2 DEF TickCommit
  <2> QED
    BY <2>1, <2>2
       DEF Next, Elapse, CreateSchedule, WorkerNext, TickBegin, TickRaise, TickCrash, ClientNext,
           UpdateSchedule, SetScheduleEnabled, DeleteSchedule, RunSchedule, Load, CommitUpdate,
           CommitRun, vars
<1>3. IInv /\ DeleteInv /\ [QuietStep]_vars /\ [Next]_vars => DeleteInv'
  <2> SUFFICES ASSUME IInv, DeleteInv, [QuietStep]_vars, [Next]_vars,
                      NEW c \in Clients, request'[c].op = "delete",
                      NEW r \in runs'
               PROVE  r.sched # request'[c].sched
    BY DEF DeleteInv
  <2>1. CASE request'[c] = request[c]
    <3>1. UNCHANGED vars => runs' = runs
      BY DEF vars
    <3> QED
      BY <2>1, <3>1 DEF DeleteInv, QuietStep
  <2>2. CASE request'[c] # request[c]
    <3>1. PICK d \in Clients : ClientNext(d)
      BY <2>2 DEF Next, Elapse, CreateSchedule, WorkerNext, TickBegin, TickCommit, TickRaise,
                  TickCrash, vars
    <3>2. ~Finished(d)
      BY <2>2 DEF Finished, NoRequest, IInv, TypeOK
    <3>3. PICK s, op, patch :
            /\ Load(d, s, op, patch)
            /\ op = "delete" => \A q \in runs : q.sched # s
      BY <3>1, <3>2 DEF ClientNext, UpdateSchedule, SetScheduleEnabled, DeleteSchedule,
                        RunSchedule, CommitUpdate, CommitDelete, CommitRun
    <3>4. request'[c].op = op /\ request'[c].sched = s /\ runs' = runs
      BY <2>2, <3>3 DEF Load, IInv, TypeOK
    <3> QED
      BY <3>3, <3>4
  <2> QED
    BY <2>1, <2>2
<1>4. IInv /\ DeleteInv /\ [Next]_vars => [Kept]_vars
  BY <1>2
<1> QED
  BY <1>1, <1>3, <1>4, Invariance, PTL DEF Spec, QuietDeletes, HistoryKept
-----------------------------------------------------------------------------
(* What parts enabled from the due time.                                   *)

\* A PATCH, enable or disable request leaves a settled row in memory, if it
\* loaded one (update_schedule, set_schedule_enabled).
LEMMA PatchedIsSettled ==
  ASSUME NEW r \in Row, NEW p \in Patch, NEW now \in 0..MaxClock,
         KindConfigured(Applied(r, p)),
         r.enabled <=> r.next # None
  PROVE  Patched(r, p, now).enabled <=> Patched(r, p, now).next # None
<1> DEFINE new == Patched(r, p, now)
<1>1. Applied(r, p) \in Row
  BY AppliedType
<1>2. CASE p.fields \intersect SchedulingFields = {}
  <2>1. new = Applied(r, p)
    BY <1>2 DEF Patched
  <2>2. new.enabled = r.enabled /\ new.next = r.next
    BY <1>2, <2>1 DEF Applied, SchedulingFields
  <2> QED
    BY <2>2
<1>3. CASE p.fields \intersect SchedulingFields # {}
  <2>1. /\ new.enabled = Applied(r, p).enabled
        /\ new.next = InitialNextRunAt(Applied(r, p), now)
    BY <1>1, <1>3 DEF Patched, Row
  <2>2. CASE Applied(r, p).enabled
    BY <1>1, <2>1, <2>2, InitialIsDue
  <2>3. CASE ~Applied(r, p).enabled
    BY <2>1, <2>3 DEF InitialNextRunAt
  <2> QED
    BY <2>2, <2>3
<1> QED
  BY <1>2, <1>3

\* A tick leaves what it moves settled: a one-time schedule is switched off.
LEMMA AdvancedIsSettled ==
  ASSUME NEW r \in Row, KindConfigured(r), r.enabled, r.next \in 0..MaxClock
  PROVE  Advanced(r).enabled <=> Advanced(r).next # None
<1>1. CASE r.kind = "once"
  BY <1>1 DEF Advanced, Row
<1>2. CASE r.kind # "once"
  <2>1. Advanced(r).enabled
    BY <1>2 DEF Advanced, Row
  <2> QED
    BY <2>1, AdvancedIsDue
<1> QED
  BY <1>1, <1>2

\* The commit of a tick.
LEMMA TickCommitKeepsSettled ==
  ASSUME IInv, NEW w \in Workers, TickCommit(w), NEW s \in Schedules, Settled(s)
  PROVE  Settled(s)'
<1>1. CASE s \in Moved(w)
  <2>1. s \in tick[w].batch /\ row'[s] = Advanced(row[s])
    BY <1>1, MovedRow
  <2>2. /\ row[s] \in Row /\ KindConfigured(row[s]) /\ row[s].next \in 0..MaxClock
        /\ row[s].enabled
    BY <2>1, BatchFacts DEF IInv, TickInv
  <2> QED
    BY <2>1, <2>2, AdvancedIsSettled DEF Settled
<1>2. CASE s \notin Moved(w)
  BY <1>2 DEF TickCommit, Settled
<1> QED
  BY <1>1, <1>2

\* The UPDATE of a request over the row it has loaded.
LEMMA CommitUpdateKeepsSettled ==
  ASSUME IInv, NEW c \in Clients, CommitUpdate(c), NEW s \in Schedules,
         Settled(s), ~Overlapped(s)
  PROVE  Settled(s)'
<1> DEFINE loaded == request[c].loaded
           new(now) == Patched(loaded, request[c].patch, now)
<1>1. /\ request[c].op = "update" /\ request'[c] = NoRequest
      /\ request[c].sched \in Schedules /\ row \in [Schedules -> Row]
  BY RequestFacts DEF CommitUpdate, Finished, IInv, TypeOK
<1>2. PICK now \in request[c].at..clock :
        \/ row' = row
        \/ row' = [row EXCEPT ![request[c].sched] =
                     Merged(loaded, new(now), row[request[c].sched])]
  BY DEF CommitUpdate
<1>3. CASE request[c].sched # s \/ row' = row
  <2>1. row'[s] = row[s]
    BY <1>1, <1>2, <1>3
  <2> QED
    BY <2>1 DEF Settled
<1>4. CASE request[c].sched = s /\ row' # row
  <2>1. row[s] = loaded
    BY <1>1, <1>4 DEF Overlapped, NoRequest
  <2>2. now \in 0..MaxClock
    BY <1>1, RequestFacts, ClockAssumption DEF IInv, TypeOK
  <2>3. /\ loaded \in Row /\ request[c].patch \in Patch
        /\ KindConfigured(Applied(loaded, request[c].patch))
    BY <1>1, RequestFacts DEF IInv, RequestInv
  <2>4. loaded.enabled <=> loaded.next # None
    BY <2>1 DEF Settled
  <2> HIDE DEF loaded
  <2>5. new(now) \in Row /\ (new(now).enabled <=> new(now).next # None)
    BY <2>2, <2>3, <2>4, PatchedType, PatchedIsSettled
  <2>6. row' = [row EXCEPT ![s] = Merged(loaded, new(now), loaded)]
    BY <1>2, <1>4, <2>1
  <2> HIDE DEF new
  <2>7. row'[s] = new(now)
    BY <1>1, <2>3, <2>5, <2>6, MergedOverLoaded
  <2> QED
    BY <2>5, <2>7 DEF Settled
<1> QED
  BY <1>3, <1>4

\* A new schedule is settled.
LEMMA CreateScheduleSettles ==
  ASSUME IInv, NEW s \in Schedules, NEW p \in Payloads, CreateSchedule(s, p)
  PROVE  Settled(s)'
<1>1. row' = [row EXCEPT ![s] = [p EXCEPT !.next = InitialNextRunAt(p, clock)]]
  BY DEF CreateSchedule
<1>2. p \in Row /\ KindConfigured(p) /\ clock \in 0..MaxClock
  BY SchedulerAssumption DEF Payload, IInv, TypeOK
<1>3. row'[s].enabled = p.enabled /\ row'[s].next = InitialNextRunAt(p, clock)
  BY <1>1, <1>2 DEF IInv, TypeOK, Row
<1>4. CASE p.enabled
  BY <1>2, <1>3, <1>4, InitialIsDue DEF Settled
<1>5. CASE ~p.enabled
  BY <1>3, <1>5 DEF Settled, InitialNextRunAt
<1> QED
  BY <1>4, <1>5

\* enabled and next_run_at part only when a PATCH, enable or disable request
\* writes over a row that is not the one it loaded any more.
THEOREM OverlapsAloneUnsettle == Spec => OnlyOverlapsUnsettle
<1>1. ASSUME IInv, [Next]_vars, NEW s \in Schedules, Live(s)',
             Live(s) => Settled(s), ~Overlapped(s)
      PROVE  Settled(s)'
  <2>1. CASE UNCHANGED <<exists, row>>
    BY <1>1, <2>1 DEF Live, Settled
  <2>2. ASSUME NEW u \in Schedules, NEW p \in Payloads, CreateSchedule(u, p)
        PROVE  Settled(s)'
    <3>1. CASE u = s
      BY <1>1, <2>2, <3>1, CreateScheduleSettles
    <3>2. CASE u # s
      BY <1>1, <2>2, <3>2 DEF CreateSchedule, Live, Settled, IInv, TypeOK
    <3> QED
      BY <3>1, <3>2
  <2>3. ASSUME NEW w \in Workers, TickCommit(w)
        PROVE  Settled(s)'
    <3>1. Live(s)
      BY <1>1, <2>3 DEF TickCommit, Live
    <3> QED
      BY <1>1, <2>3, <3>1, TickCommitKeepsSettled
  <2>4. ASSUME NEW c \in Clients, CommitUpdate(c)
        PROVE  Settled(s)'
    <3>1. Live(s)
      BY <1>1, <2>4 DEF CommitUpdate, Live
    <3> QED
      BY <1>1, <2>4, <3>1, CommitUpdateKeepsSettled
  <2>5. ASSUME NEW c \in Clients, CommitDelete(c)
        PROVE  Settled(s)'
    <3>1. /\ exists' = [exists EXCEPT ![request[c].sched] = "deleted"]
          /\ row' = [row EXCEPT ![request[c].sched] = BlankRow]
      BY <2>5 DEF CommitDelete
    <3>2. request[c].sched # s
      BY <1>1, <3>1 DEF Live, IInv, TypeOK
    <3> QED
      BY <1>1, <3>1, <3>2 DEF Live, Settled, IInv, TypeOK
  <2>6. \/ UNCHANGED <<exists, row>>
        \/ \E u \in Schedules, p \in Payloads : CreateSchedule(u, p)
        \/ \E w \in Workers : TickCommit(w)
        \/ \E c \in Clients : CommitUpdate(c) \/ CommitDelete(c)
    BY <1>1 DEF Next, vars, Elapse, WorkerNext, TickBegin, TickRaise, TickCrash, ClientNext,
                UpdateSchedule, SetScheduleEnabled, DeleteSchedule, RunSchedule, Load,
                CommitRun
  <2> QED
    BY <2>1, <2>2, <2>3, <2>4, <2>5, <2>6
<1>2. IInv /\ [Next]_vars =>
        [\A s \in Schedules :
           Live(s)' /\ ~Settled(s)' => (Live(s) /\ ~Settled(s)) \/ Overlapped(s)]_vars
  BY <1>1
<1> QED
  BY <1>2, Invariance, PTL DEF Spec, OnlyOverlapsUnsettle
===============================================================================
