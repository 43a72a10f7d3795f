------------------------ MODULE RepositoryTask_proofs ------------------------
(***************************************************************************)
(* Proofs about RepositoryTask, for any files, plans and options and any   *)
(* number of submissions, decisions and edits.                             *)
(***************************************************************************)
EXTENDS RepositoryTask, TLAPS, SequenceTheorems

Slot == 1 .. RtOpBound

\* The types of the state.
RtTag == [by : Slot, hashed : BOOLEAN]
RtContent == [there : BOOLEAN, edits : SUBSET (1 .. RtEditBound), patches : Seq(RtTag)]
RtWorks == [plan : RtPlan \cup {RtNoPlan.plan}, seen : [RtFile -> RtContent], by : 0 .. RtOpBound]
RtRequest == RtPlanId \cup {"none"}
RtInputs == [dry_run : BOOLEAN, apply : BOOLEAN, require_approval : BOOLEAN]
RtDecision == {"none", "requested", "approved", "rejected"}
RtStatus == {"none", "running", "requires_approval", "yielded", "completed", "completed_with_errors"}
RtPhase == {"none", "planning_patch", "applying_patch", "awaiting_approval", "verifying", "reviewing",
            "yielded", "completed", "completed_with_errors"}
RtRows == [status : RtStatus, phase : RtPhase, passed : BOOLEAN, request : RtRequest]
RtKind == {"none", "task", "continuation", "approved", "rejected", "note", "verification"}
RtStep == {"done", "inspect", "plan", "request", "envelope", "await", "apply", "verify", "review", "decision", "load", "write"}
RtJob == [kind : RtKind, step : RtStep, input : RtInputs, request : RtRequest, work : RtWorks, next : Nat \ {0},
          decision : RtDecision, passed : BOOLEAN, row : RtRows]

\* Every variable has its type.
RtTypeOK ==
    /\ rtFiles \in [RtFile -> RtContent] /\ rtRow \in RtRows
    /\ rtDecision \in [RtPlanId -> RtDecision]
    /\ rtEnvelope \in [RtPlanId -> RtWorks] /\ rtJobs \in [Slot -> RtJob] /\ rtOps \in 0 .. RtOpBound
    /\ rtEdits \in 0 .. RtEditBound /\ rtLost \subseteq RtFile /\ rtEarly \in BOOLEAN /\ rtApproved \subseteq RtPlanId

\* A job that has read the files, or never will.
HasRead(o, jobs) == ~ (jobs[o].kind = "task" /\ jobs[o].step = "inspect")

\* A compared operation is in a content once at most, and after its job read the files.
Sound(c, jobs, ops) ==
    /\ \A k, l \in DOMAIN c.patches : c.patches[k].hashed /\ c.patches[k] = c.patches[l] => k = l
    /\ \A k \in DOMAIN c.patches : c.patches[k].by <= ops /\ HasRead(c.patches[k].by, jobs)

\* What a plan was made from holds nothing of the work.
Founded(work, jobs, ops) ==
    /\ work.by # 0 => work.by <= ops /\ HasRead(work.by, jobs)
    /\ \A f \in RtFile :
        /\ Sound(work.seen[f], jobs, ops)
        /\ \A k \in DOMAIN work.seen[f].patches : work.seen[f].patches[k].by # work.by

\* What an envelope of an id holds, once it was written.
EnvelopeHolds(id, envelope) == envelope.by # 0 /\ envelope.plan \in RtPlan /\ envelope.plan.id = id

\* What a row may say.
RowHolds(row, decision, envelope) ==
    /\ row.phase = "awaiting_approval" =>
        row.request \in RtPlanId /\ decision[row.request] # "none" /\ envelope[row.request].by # 0
    /\ row.status = "completed" => row.passed

\* What a job holds, at each of its steps.
JobHolds(j, jobs, ops, decision, envelope, approved) ==
    /\ Founded(j.work, jobs, ops) /\ RowHolds(j.row, decision, envelope)
    /\ j.kind = "none" => j.step = "done"
    /\ j.kind = "task" /\ j.step # "inspect" => j.work.by # 0
    /\ j.step \in {"request", "envelope", "await", "apply"} /\ j.kind \in {"task", "continuation"} =>
        j.work.by # 0 /\ j.work.plan \in RtPlan /\ j.next \in DOMAIN j.work.plan.ops
    /\ j.kind = "task" /\ j.step \in {"envelope", "await"} => decision[j.work.plan.id] # "none"
    /\ j.kind = "task" /\ j.step = "await" => envelope[j.work.plan.id].by # 0
    /\ j.kind = "task" /\ j.step = "apply" => ~ needsApproval(j.input, j.work.plan)
    /\ j.kind \in {"approved", "rejected", "continuation"} => j.request \in RtPlanId
    /\ j.kind = "continuation" => envelope[j.request].by # 0 /\ j.step \in {"decision", "load", "apply", "verify", "review"}
    /\ j.step \in {"inspect", "plan", "decision", "load"} => j.next = 1
    /\ j.kind = "continuation" /\ j.decision = "approved" => j.request \in approved
    /\ j.kind = "continuation" /\ j.step = "apply" => j.work.plan.id \in approved /\ j.decision = "approved"

\* The inductive invariant.
RtInv ==
    /\ RtTypeOK
    /\ \A o \in Slot : o > rtOps => rtJobs[o] = RtNoJob
    /\ \A f \in RtFile : Sound(rtFiles[f], rtJobs, rtOps)
    /\ \A id \in RtPlanId :
        Founded(rtEnvelope[id], rtJobs, rtOps) /\ (rtEnvelope[id] = RtNoPlan \/ EnvelopeHolds(id, rtEnvelope[id]))
    /\ RowHolds(rtRow, rtDecision, rtEnvelope)
    /\ \A id \in RtPlanId : rtDecision[id] = "approved" => id \in rtApproved
    /\ \A o \in Slot : JobHolds(rtJobs[o], rtJobs, rtOps, rtDecision, rtEnvelope, rtApproved)
    /\ EditsKept /\ ApprovedFirst

-----------------------------------------------------------------------------
(***************************************************************************)
(* What an invariant step needs.                                           *)
(***************************************************************************)

\* Jobs that have read the files stay so, and new ones come after the old.
Later(jobs, jobs2, ops, ops2) ==
    ops <= ops2 /\ \A q \in Slot : q <= ops /\ HasRead(q, jobs) => HasRead(q, jobs2)

\* A content stays sound.
LEMMA SoundLater ==
  ASSUME NEW c \in RtContent, NEW jobs, NEW jobs2, NEW ops \in Nat, NEW ops2 \in Nat,
         Later(jobs, jobs2, ops, ops2), Sound(c, jobs, ops)
  PROVE  Sound(c, jobs2, ops2)
<1>1. \A k \in DOMAIN c.patches : c.patches[k] \in RtTag
  BY ElementOfSeq, LenProperties DEF RtContent
<1>2. \A k \in DOMAIN c.patches : c.patches[k].by \in Slot
  BY <1>1 DEF RtTag
<1>3. \A k \in DOMAIN c.patches : c.patches[k].by \in Nat
  BY <1>2, RtAssumption DEF Slot
<1>4. QED
  BY <1>2, <1>3, RtAssumption DEF Sound, Later, Slot

\* Work stays founded.
LEMMA FoundedLater ==
  ASSUME NEW work \in RtWorks, NEW jobs, NEW jobs2, NEW ops \in Nat, NEW ops2 \in Nat,
         Later(jobs, jobs2, ops, ops2), Founded(work, jobs, ops)
  PROVE  Founded(work, jobs2, ops2)
<1>1. work.by \in 0 .. RtOpBound /\ \A f \in RtFile : work.seen[f] \in RtContent
  BY DEF RtWorks
<1>2. \A f \in RtFile : Sound(work.seen[f], jobs2, ops2)
  BY <1>1, SoundLater DEF Founded
<1>3. work.by # 0 => work.by \in Slot
  BY <1>1, RtAssumption DEF Slot
<1>4. work.by # 0 => work.by <= ops2 /\ HasRead(work.by, jobs2)
  BY <1>1, <1>3, RtAssumption DEF Founded, Later, Slot
<1>5. QED
  BY <1>2, <1>4 DEF Founded

\* What a job holds, it keeps.
LEMMA JobLater ==
  ASSUME NEW j \in RtJob, NEW jobs, NEW jobs2, NEW ops \in Nat, NEW ops2 \in Nat,
         NEW dec, NEW dec2, NEW env, NEW env2, NEW app, NEW app2,
         Later(jobs, jobs2, ops, ops2), \A id \in RtPlanId : dec[id] # "none" => dec2[id] # "none",
         \A id \in RtPlanId : env[id].by # 0 => env2[id].by # 0, app \subseteq app2,
         JobHolds(j, jobs, ops, dec, env, app)
  PROVE  JobHolds(j, jobs2, ops2, dec2, env2, app2)
<1>1. j.work \in RtWorks
  BY DEF RtJob
<1>2. Founded(j.work, jobs2, ops2)
  BY <1>1, FoundedLater DEF JobHolds
<1>3. j.work.plan \in RtPlan => j.work.plan.id \in RtPlanId
  BY RtAssumption
<1>4. RowHolds(j.row, dec2, env2)
  BY DEF JobHolds, RowHolds
<1>5. QED
  BY <1>2, <1>3, <1>4 DEF JobHolds

\* No plan and no job hold anything.
LEMMA NoJob ==
  /\ RtNoJob \in RtJob /\ RtNoPlan \in RtWorks /\ RtNoPlan.by = 0 /\ RtNoPlan.seen \in [RtFile -> RtContent]
  /\ \A f \in RtFile : RtNoPlan.seen[f].patches = <<>>
  /\ RtNoJob.kind = "none" /\ RtNoJob.step = "done" /\ RtNoJob.next = 1 /\ RtNoJob.work = RtNoPlan /\ RtNoJob.decision = "none"
  /\ RtNoJob.row = RtNoRow /\ RtNoRow \in RtRows /\ RtNoRow.phase = "none" /\ RtNoRow.status = "none"
  /\ \A jobs, ops : Founded(RtNoPlan, jobs, ops)
  /\ \A jobs, ops, dec, env, app : JobHolds(RtNoJob, jobs, ops, dec, env, app)
<1>1. <<>> \in Seq(RtTag) /\ DOMAIN <<>> = {}
  OBVIOUS
<1>2. [there |-> TRUE, edits |-> {}, patches |-> <<>>] \in RtContent
  BY <1>1 DEF RtContent
<1>3. RtNoPlan.by = 0 /\ RtNoPlan.seen = [f \in RtFile |-> [there |-> TRUE, edits |-> {}, patches |-> <<>>]]
  BY DEF RtNoPlan
<1>4. RtNoPlan.seen \in [RtFile -> RtContent] /\ \A f \in RtFile : RtNoPlan.seen[f].patches = <<>>
  BY <1>2, <1>3
<1>5. RtNoPlan \in RtWorks
  BY <1>3, <1>4, RtAssumption DEF RtWorks, RtNoPlan
<1>6. \A jobs, ops : Founded(RtNoPlan, jobs, ops)
  BY <1>1, <1>3, <1>4 DEF Founded, Sound
<1>7. RtNoJob \in RtJob
  <2>1. [dry_run |-> TRUE, apply |-> FALSE, require_approval |-> FALSE] \in RtInputs
    BY Zenon DEF RtInputs
  <2>2. RtNoRow \in RtRows
    BY Zenon DEF RtRows, RtStatus, RtPhase, RtRequest, RtNoRow
  <2>3. "none" \in RtRequest /\ "none" \in RtKind /\ "done" \in RtStep /\ 1 \in Nat \ {0} /\ "none" \in RtDecision
    BY DEF RtKind, RtStep, RtDecision, RtRequest
  <2>4. QED
    BY <1>5, <2>1, <2>2, <2>3, Zenon DEF RtNoJob, RtJob
<1>8. /\ RtNoJob.kind = "none" /\ RtNoJob.step = "done" /\ RtNoJob.next = 1 /\ RtNoJob.work = RtNoPlan /\ RtNoJob.decision = "none"
      /\ RtNoJob.row = RtNoRow /\ RtNoRow \in RtRows /\ RtNoRow.phase = "none" /\ RtNoRow.status = "none"
  <2>1. RtNoJob.row \in RtRows /\ RtNoJob.row = RtNoRow
    BY <1>7, Zenon DEF RtJob, RtNoJob
  <2>2. RtNoJob.kind = "none" /\ RtNoJob.step = "done" /\ RtNoJob.work = RtNoPlan /\ RtNoJob.decision = "none"
    BY Zenon DEF RtNoJob
  <2>3. RtNoRow.phase = "none" /\ RtNoRow.status = "none" /\ RtNoJob.next = 1
    BY Zenon DEF RtNoJob, RtNoRow
  <2>4. QED
    BY <2>1, <2>2, <2>3
<1>9. \A jobs, ops, dec, env, app : JobHolds(RtNoJob, jobs, ops, dec, env, app)
  BY <1>6, <1>8 DEF JobHolds, RowHolds
<1>10. QED
  BY <1>3, <1>4, <1>5, <1>6, <1>7, <1>8, <1>9

\* The invariant holds initially.
LEMMA RtInitInv == RtInit => RtInv
<1> SUFFICES ASSUME RtInit PROVE RtInv
  OBVIOUS
<1>1. RtTypeOK
  <2>1. rtJobs \in [Slot -> RtJob]
    BY NoJob DEF RtInit, Slot
  <2>2. rtOps \in 0 .. RtOpBound /\ rtEdits \in 0 .. RtEditBound /\ rtLost \subseteq RtFile
    BY RtAssumption DEF RtInit
  <2>3. rtEarly \in BOOLEAN /\ rtApproved \subseteq RtPlanId
    BY Zenon DEF RtInit
  <2>4. rtDecision \in [RtPlanId -> RtDecision] /\ rtEnvelope \in [RtPlanId -> RtWorks]
    BY NoJob DEF RtInit, RtDecision
  <2>5. QED
    BY <2>1, <2>2, <2>3, <2>4, NoJob DEF RtInit, RtTypeOK
<1>2. \A f \in RtFile : Sound(rtFiles[f], rtJobs, rtOps)
  BY NoJob DEF RtInit, Sound
<1>3. \A o \in Slot : rtJobs[o] = RtNoJob
  BY DEF RtInit, Slot
<1>4. RowHolds(rtRow, rtDecision, rtEnvelope)
  BY NoJob DEF RtInit, RowHolds
<1>5. EditsKept /\ ApprovedFirst
  BY Zenon DEF RtInit, EditsKept, ApprovedFirst
<1>6. QED
  <2>1. \A id \in RtPlanId : Founded(rtEnvelope[id], rtJobs, rtOps) /\ rtEnvelope[id] = RtNoPlan /\ rtDecision[id] = "none"
    BY NoJob DEF RtInit
  <2>2. \A o \in Slot : JobHolds(rtJobs[o], rtJobs, rtOps, rtDecision, rtEnvelope, rtApproved)
    BY <1>3, NoJob
  <2>3. QED
    BY <1>1, <1>2, <1>3, <1>4, <1>5, <2>1, <2>2 DEF RtInv

\* What a step has to show: its types, that time goes on, and what is new.
LEMMA Carry ==
  ASSUME RtInv, RtTypeOK', Later(rtJobs, rtJobs', rtOps, rtOps'),
         \A id \in RtPlanId : rtDecision[id] # "none" => rtDecision'[id] # "none",
         \A id \in RtPlanId : rtEnvelope[id].by # 0 => rtEnvelope'[id].by # 0,
         rtApproved \subseteq rtApproved', \A id \in RtPlanId : rtDecision'[id] = "approved" => id \in rtApproved',
         \A q \in Slot : \/ rtJobs'[q] = rtJobs[q]
                         \/ q <= rtOps' /\ JobHolds(rtJobs'[q], rtJobs', rtOps', rtDecision', rtEnvelope', rtApproved'),
         \A f \in RtFile : rtFiles'[f] = rtFiles[f] \/ Sound(rtFiles'[f], rtJobs', rtOps'),
         \A id \in RtPlanId : \/ rtEnvelope'[id] = rtEnvelope[id]
                              \/ Founded(rtEnvelope'[id], rtJobs', rtOps') /\ EnvelopeHolds(id, rtEnvelope'[id]),
         rtRow' = rtRow \/ RowHolds(rtRow', rtDecision', rtEnvelope'),
         EditsKept', ApprovedFirst'
  PROVE  RtInv'
<1>1. rtOps \in Nat /\ rtOps' \in Nat /\ rtOps <= rtOps' /\ rtEnvelope \in [RtPlanId -> RtWorks] /\ rtJobs \in [Slot -> RtJob]
      /\ rtFiles \in [RtFile -> RtContent]
  BY RtAssumption DEF RtInv, RtTypeOK, Later
<1>2. \A f \in RtFile : Sound(rtFiles'[f], rtJobs', rtOps')
  BY <1>1, SoundLater DEF RtInv
<1>3. \A id \in RtPlanId :
        Founded(rtEnvelope'[id], rtJobs', rtOps') /\ (rtEnvelope'[id] = RtNoPlan \/ EnvelopeHolds(id, rtEnvelope'[id]))
  <2> TAKE id \in RtPlanId
  <2>1. rtEnvelope[id] \in RtWorks /\ Founded(rtEnvelope[id], rtJobs, rtOps)
        /\ (rtEnvelope[id] = RtNoPlan \/ EnvelopeHolds(id, rtEnvelope[id]))
    BY <1>1 DEF RtInv
  <2>2. Founded(rtEnvelope[id], rtJobs', rtOps')
    BY <1>1, <2>1, FoundedLater
  <2>3. QED
    BY <2>1, <2>2
<1>4. RowHolds(rtRow', rtDecision', rtEnvelope')
  BY DEF RtInv, RowHolds
<1>5. \A q \in Slot : JobHolds(rtJobs'[q], rtJobs', rtOps', rtDecision', rtEnvelope', rtApproved')
  <2> TAKE q \in Slot
  <2>1. CASE rtJobs'[q] = rtJobs[q]
    <3>1. rtJobs[q] \in RtJob /\ JobHolds(rtJobs[q], rtJobs, rtOps, rtDecision, rtEnvelope, rtApproved)
      BY <1>1 DEF RtInv
    <3>2. JobHolds(rtJobs[q], rtJobs', rtOps', rtDecision', rtEnvelope', rtApproved')
      BY <1>1, <3>1, JobLater
    <3>3. QED
      BY <2>1, <3>2
  <2>2. QED
    BY <2>1
<1>6. \A q \in Slot : q > rtOps' => rtJobs'[q] = RtNoJob
  BY <1>1, RtAssumption DEF RtInv, Slot
<1>7. QED
  BY <1>2, <1>3, <1>4, <1>5, <1>6 DEF RtInv

-----------------------------------------------------------------------------
(***************************************************************************)
(* The steps of the jobs.                                                  *)
(***************************************************************************)

\* A new job takes the next slot.
LEMMA StartEffect ==
  ASSUME RtInv, NEW job \in RtJob, RtStart(job)
  PROVE  /\ rtOps' = rtOps + 1 /\ rtOps' \in 0 .. RtOpBound /\ rtOps' \in Slot /\ rtJobs' \in [Slot -> RtJob]
         /\ Later(rtJobs, rtJobs', rtOps, rtOps')
         /\ rtJobs'[rtOps'] = job /\ \A q \in Slot : q # rtOps' => rtJobs'[q] = rtJobs[q]
<1>1. rtOps \in Nat /\ rtOps' = rtOps + 1 /\ rtOps < RtOpBound /\ RtOpBound \in Nat /\ rtJobs \in [Slot -> RtJob]
  BY RtAssumption DEF RtInv, RtTypeOK, RtStart
<1>2. rtOps' \in Slot /\ rtOps' \in 0 .. RtOpBound
  BY <1>1 DEF Slot
<1>3. rtJobs' = [rtJobs EXCEPT ![rtOps'] = job]
  BY <1>1 DEF RtStart
<1>4. rtJobs' \in [Slot -> RtJob] /\ rtJobs'[rtOps'] = job /\ \A q \in Slot : q # rtOps' => rtJobs'[q] = rtJobs[q]
  BY <1>1, <1>2, <1>3
<1>5. Later(rtJobs, rtJobs', rtOps, rtOps')
  BY <1>1, <1>4 DEF Later, HasRead, Slot
<1>6. QED
  BY <1>1, <1>2, <1>4, <1>5

\* A job does a step; what it held before, it still holds.
LEMMA GotoEffect ==
  ASSUME RtInv, NEW o \in Slot, NEW job \in RtJob, rtJobs[o].kind # "none", RtGoto(o, job),
         ~ (job.kind = "task" /\ job.step = "inspect")
  PROVE  /\ rtOps' = rtOps /\ o <= rtOps /\ rtJobs' \in [Slot -> RtJob]
         /\ Later(rtJobs, rtJobs', rtOps, rtOps')
         /\ rtJobs'[o] = job /\ \A q \in Slot : q # o => rtJobs'[q] = rtJobs[q]
         /\ Founded(rtJobs[o].work, rtJobs', rtOps') /\ HasRead(o, rtJobs')
<1>1. rtOps \in Nat /\ rtOps' = rtOps /\ rtJobs \in [Slot -> RtJob] /\ o \in Nat
  BY RtAssumption DEF RtInv, RtTypeOK, RtGoto, Slot
<1>2. rtJobs' \in [Slot -> RtJob] /\ rtJobs'[o] = job /\ \A q \in Slot : q # o => rtJobs'[q] = rtJobs[q]
  BY <1>1 DEF RtGoto
<1>3. o <= rtOps
  BY <1>1, NoJob DEF RtInv
<1>4. Later(rtJobs, rtJobs', rtOps, rtOps') /\ HasRead(o, rtJobs')
  BY <1>1, <1>2 DEF Later, HasRead
<1>5. rtJobs[o].work \in RtWorks /\ Founded(rtJobs[o].work, rtJobs, rtOps)
  BY <1>1 DEF RtInv, JobHolds, RtJob
<1>6. Founded(rtJobs[o].work, rtJobs', rtOps')
  BY <1>1, <1>4, <1>5, FoundedLater
<1>7. QED
  BY <1>1, <1>2, <1>3, <1>4, <1>6

\* A goal is submitted.
LEMMA SubmitStep == RtInv /\ submitRepositoryGoal => RtInv'
<1> SUFFICES ASSUME RtInv, submitRepositoryGoal PROVE RtInv'
  OBVIOUS
<1>1. PICK i \in RtInput : RtStart([RtNoJob EXCEPT !.kind = "task", !.step = "inspect", !.input = i])
  BY DEF submitRepositoryGoal
<1> DEFINE job == [RtNoJob EXCEPT !.kind = "task", !.step = "inspect", !.input = i]
<1>2. i \in RtInputs
  BY RtAssumption DEF RtInputs
<1>3. job \in RtJob /\ job.kind = "task" /\ job.step = "inspect" /\ job.work = RtNoPlan /\ job.next = 1 /\ job.row = RtNoJob.row
  BY <1>2, NoJob DEF RtJob, RtKind, RtStep
<1> HIDE DEF job
<1>4. RtStart(job)
  BY <1>1 DEF job
<1>5. UNCHANGED <<rtFiles, rtRow, rtDecision, rtEnvelope, rtEdits, rtLost, rtEarly, rtApproved>>
  BY DEF submitRepositoryGoal
<1>6. RtTypeOK'
  BY <1>3, <1>4, <1>5, StartEffect DEF RtInv, RtTypeOK
<1>7. JobHolds(job, rtJobs', rtOps', rtDecision', rtEnvelope', rtApproved')
  BY <1>3, NoJob DEF JobHolds, RowHolds
<1>8. rtOps' <= rtOps' /\ EditsKept' /\ ApprovedFirst'
  BY <1>5, <1>6, RtAssumption DEF RtInv, EditsKept, ApprovedFirst, RtTypeOK
<1>9. QED
  BY <1>3, <1>4, <1>5, <1>6, <1>7, <1>8, StartEffect, Carry DEF RtInv

\* Somebody decides on a request.
LEMMA DecideStep ==
  ASSUME RtInv, NEW d \in {"approved", "rejected"}, NEW id \in RtPlanId, decide(d, id)
  PROVE  RtInv'
<1> DEFINE job == [RtNoJob EXCEPT !.kind = d, !.step = "envelope", !.request = id]
<1>3. /\ job \in RtJob /\ job.kind = d /\ job.step = "envelope" /\ job.work = RtNoPlan /\ job.next = 1
      /\ job.row = RtNoJob.row /\ job.request = id
  BY NoJob DEF RtJob, RtKind, RtStep, RtRequest
<1> HIDE DEF job
<1>4. RtStart(job)
  BY DEF job, decide
<1>5. /\ UNCHANGED <<rtFiles, rtRow, rtEnvelope, rtEdits, rtLost, rtEarly>>
      /\ rtDecision' = [rtDecision EXCEPT ![id] = d]
      /\ rtApproved' = IF d = "approved" THEN rtApproved \cup {id} ELSE rtApproved
  BY DEF decide
<1>6. rtDecision \in [RtPlanId -> RtDecision] /\ rtDecision' \in [RtPlanId -> RtDecision] /\ rtApproved' \subseteq RtPlanId
  BY <1>5 DEF RtInv, RtTypeOK, RtDecision
<1>7. RtTypeOK'
  BY <1>3, <1>4, <1>5, <1>6, StartEffect DEF RtInv, RtTypeOK
<1>8. JobHolds(job, rtJobs', rtOps', rtDecision', rtEnvelope', rtApproved')
  BY <1>3, NoJob DEF JobHolds, RowHolds
<1>9. rtOps' <= rtOps' /\ EditsKept' /\ ApprovedFirst'
  BY <1>5, <1>7, RtAssumption DEF RtInv, EditsKept, ApprovedFirst, RtTypeOK
<1>10. /\ \A i \in RtPlanId : rtDecision[i] # "none" => rtDecision'[i] # "none"
       /\ rtApproved \subseteq rtApproved'
       /\ \A i \in RtPlanId : rtDecision'[i] = "approved" => i \in rtApproved'
  BY <1>5, <1>6 DEF RtInv
<1>11. QED
  BY <1>3, <1>4, <1>5, <1>7, <1>8, <1>9, <1>10, StartEffect, Carry DEF RtInv

\* A verification is requested, with a note that keeps the row.
LEMMA RequestVerificationStep == RtInv /\ submitVerificationRequest => RtInv'
<1> SUFFICES ASSUME RtInv, submitVerificationRequest PROVE RtInv'
  OBVIOUS
<1> DEFINE note == [RtNoJob EXCEPT !.kind = "note", !.step = "write", !.row = rtRow]
<1> DEFINE verification == [RtNoJob EXCEPT !.kind = "verification", !.step = "verify"]
<1>1. rtRow \in RtRows /\ RowHolds(rtRow, rtDecision, rtEnvelope)
  BY DEF RtInv, RtTypeOK
<1>2. note \in RtJob /\ note.kind = "note" /\ note.step = "write" /\ note.work = RtNoPlan /\ note.next = 1 /\ note.row = rtRow
  BY <1>1, NoJob DEF RtJob, RtKind, RtStep
<1>3. /\ verification \in RtJob /\ verification.kind = "verification" /\ verification.step = "verify"
      /\ verification.work = RtNoPlan /\ verification.next = 1 /\ verification.row = RtNoJob.row
  BY NoJob DEF RtJob, RtKind, RtStep
<1>4. rtJobs' = [rtJobs EXCEPT ![rtOps + 1] = note, ![rtOps + 2] = verification]
  BY DEF submitVerificationRequest
<1> HIDE DEF note, verification
<1>5. /\ rtOps + 2 <= RtOpBound /\ rtOps' = rtOps + 2
      /\ UNCHANGED <<rtFiles, rtRow, rtDecision, rtEnvelope, rtEdits, rtLost, rtEarly, rtApproved>>
  BY DEF submitVerificationRequest
<1>6. rtOps \in Nat /\ RtOpBound \in Nat /\ rtJobs \in [Slot -> RtJob]
  BY RtAssumption DEF RtInv, RtTypeOK
<1>7. rtOps + 1 \in Slot /\ rtOps + 2 \in Slot /\ rtOps' \in 0 .. RtOpBound /\ rtOps + 1 # rtOps + 2
  BY <1>5, <1>6 DEF Slot
<1>8. /\ rtJobs' \in [Slot -> RtJob] /\ rtJobs'[rtOps + 1] = note /\ rtJobs'[rtOps + 2] = verification
      /\ \A q \in Slot : q # rtOps + 1 /\ q # rtOps + 2 => rtJobs'[q] = rtJobs[q]
  BY <1>2, <1>3, <1>4, <1>6, <1>7
<1>9. Later(rtJobs, rtJobs', rtOps, rtOps')
  BY <1>5, <1>6, <1>8 DEF Later, HasRead, Slot
<1>10. RtTypeOK'
  BY <1>5, <1>7, <1>8 DEF RtInv, RtTypeOK
<1>11. /\ JobHolds(note, rtJobs', rtOps', rtDecision', rtEnvelope', rtApproved')
       /\ JobHolds(verification, rtJobs', rtOps', rtDecision', rtEnvelope', rtApproved')
  BY <1>1, <1>2, <1>3, <1>5, NoJob DEF JobHolds, RowHolds
<1>12. rtOps + 1 <= rtOps' /\ rtOps + 2 <= rtOps' /\ EditsKept' /\ ApprovedFirst'
  BY <1>5, <1>6 DEF RtInv, EditsKept, ApprovedFirst
<1>13. QED
  BY <1>5, <1>8, <1>9, <1>10, <1>11, <1>12, Carry DEF RtInv

\* A job does a step that changes nothing but itself and the row.
LEMMA MoveStep ==
  ASSUME RtInv, NEW o \in Slot, NEW job \in RtJob, rtJobs[o].kind # "none", RtGoto(o, job),
         ~ (job.kind = "task" /\ job.step = "inspect"),
         UNCHANGED <<rtFiles, rtDecision, rtEnvelope, rtEdits, rtLost, rtEarly, rtApproved>>,
         rtRow' = rtRow \/ (rtRow' \in RtRows /\ RowHolds(rtRow', rtDecision, rtEnvelope)),
         JobHolds(job, rtJobs', rtOps', rtDecision, rtEnvelope, rtApproved)
  PROVE  RtInv'
<1>1. RtTypeOK'
  BY GotoEffect DEF RtInv, RtTypeOK
<1>2. EditsKept' /\ ApprovedFirst'
  BY DEF RtInv, EditsKept, ApprovedFirst
<1>3. QED
  BY <1>1, <1>2, GotoEffect, Carry DEF RtInv

\* A job ends.
LEMMA EndStep ==
  ASSUME RtInv, NEW o \in Slot, rtJobs[o].kind # "none", RtGoto(o, RtNoJob),
         UNCHANGED <<rtFiles, rtDecision, rtEnvelope, rtEdits, rtLost, rtEarly, rtApproved>>,
         rtRow' = rtRow \/ (rtRow' \in RtRows /\ RowHolds(rtRow', rtDecision, rtEnvelope))
  PROVE  RtInv'
BY NoJob, MoveStep

\* The fields of a job, and what it holds.
LEMMA JobFields ==
  ASSUME RtInv, NEW o \in Slot
  PROVE  LET j == rtJobs[o] IN
         /\ j \in RtJob /\ j.kind \in RtKind /\ j.step \in RtStep /\ j.input \in RtInputs /\ j.work \in RtWorks
         /\ j.next \in Nat \ {0} /\ j.decision \in RtDecision /\ j.passed \in BOOLEAN /\ j.row \in RtRows
         /\ JobHolds(j, rtJobs, rtOps, rtDecision, rtEnvelope, rtApproved)
BY DEF RtInv, RtTypeOK, RtJob

\* A row of a workflow on its way, and a row that gives up.
LEMMA PassingRows ==
  /\ \A status \in RtStatus, phase \in RtPhase, passed \in BOOLEAN : RtRow(status, phase, passed) \in RtRows
  /\ \A phase \in RtPhase : phase # "awaiting_approval" =>
       \A dec, env : /\ RowHolds(RtRow("running", phase, FALSE), dec, env)
                     /\ RowHolds(RtRow("requires_approval", phase, FALSE), dec, env)
                     /\ RowHolds(RtRow("yielded", phase, FALSE), dec, env)
  /\ \A phase \in RtPhase : \A s \in {"running", "requires_approval", "yielded"} : RtRow(s, phase, FALSE) \in RtRows
<1>1. \A status \in RtStatus, phase \in RtPhase, passed \in BOOLEAN : RtRow(status, phase, passed) \in RtRows
  BY DEF RtRow, RtRows, RtRequest
<1>2. \A status, phase, passed : RtRow(status, phase, passed).phase = phase /\ RtRow(status, phase, passed).status = status
  BY DEF RtRow
<1>3. \A phase \in RtPhase : phase # "awaiting_approval" =>
       \A dec, env : /\ RowHolds(RtRow("running", phase, FALSE), dec, env)
                     /\ RowHolds(RtRow("requires_approval", phase, FALSE), dec, env)
                     /\ RowHolds(RtRow("yielded", phase, FALSE), dec, env)
  <2>1. \A s \in {"running", "requires_approval", "yielded"}, phase \in RtPhase : \A passed, dec, env :
          phase # "awaiting_approval" => RowHolds(RtRow(s, phase, passed), dec, env)
    BY <1>2 DEF RowHolds
  <2>2. QED
    BY <2>1, Zenon
<1>4. FALSE \in BOOLEAN
  BY Zenon
<1>5. \A phase \in RtPhase : \A s \in {"running", "requires_approval", "yielded"} : s \in RtStatus
  BY DEF RtStatus
<1>6. \A phase \in RtPhase : \A s \in {"running", "requires_approval", "yielded"} : RtRow(s, phase, FALSE) \in RtRows
  BY <1>1, <1>4, <1>5, Zenon
<1>7. QED
  BY <1>1, <1>3, <1>6

\* The files are read.
LEMMA ReadStep ==
  ASSUME RtInv, NEW o \in Slot, readRepositoryFiles(o)
  PROVE  RtInv'
<1> DEFINE j == rtJobs[o]
<1> DEFINE work == [j.work EXCEPT !.seen = rtFiles, !.by = o]
<1> DEFINE job == [j EXCEPT !.step = "plan", !.work = work]
<1>1. j.kind = "task" /\ j.step = "inspect" /\ RtGoto(o, job)
      /\ rtRow' = RtRow("running", "planning_patch", FALSE)
      /\ UNCHANGED <<rtFiles, rtDecision, rtEnvelope, rtEdits, rtLost, rtEarly, rtApproved>>
  <2>1. [j EXCEPT !.step = "plan", !.work = [@ EXCEPT !.seen = rtFiles, !.by = o]] = job
    BY JobFields DEF RtJob, RtWorks
  <2>2. QED
    BY <2>1 DEF readRepositoryFiles, RtRecord
<1>2. work \in RtWorks /\ work.seen = rtFiles /\ work.by = o /\ work.plan = j.work.plan
  <2>1. j.work \in RtWorks /\ rtFiles \in [RtFile -> RtContent] /\ o \in 0 .. RtOpBound
    BY JobFields, RtAssumption DEF RtInv, RtTypeOK, Slot
  <2>2. QED
    BY <2>1 DEF RtWorks
<1> HIDE DEF work
<1>3. /\ job \in RtJob /\ job.kind = "task" /\ job.step = "plan" /\ job.work = work /\ job.next = j.next
      /\ job.row = j.row /\ job.input = j.input
  BY <1>1, <1>2, JobFields DEF RtJob, RtStep
<1>4. j.next = 1 /\ RowHolds(j.row, rtDecision, rtEnvelope)
  BY <1>1, JobFields DEF JobHolds
<1> HIDE DEF job
<1>5. /\ rtOps' = rtOps /\ o <= rtOps /\ Later(rtJobs, rtJobs', rtOps, rtOps') /\ HasRead(o, rtJobs') /\ rtOps \in Nat
  BY <1>1, <1>3, GotoEffect, RtAssumption DEF RtInv, RtTypeOK
<1>6. Founded(work, rtJobs', rtOps')
  <2>1. ASSUME NEW f \in RtFile
        PROVE  /\ Sound(work.seen[f], rtJobs', rtOps')
               /\ \A k \in DOMAIN work.seen[f].patches : work.seen[f].patches[k].by # work.by
    <3>1. rtFiles[f] \in RtContent /\ Sound(rtFiles[f], rtJobs, rtOps)
      BY DEF RtInv, RtTypeOK
    <3>2. Sound(rtFiles[f], rtJobs', rtOps')
      BY <1>5, <3>1, SoundLater
    <3>3. \A k \in DOMAIN rtFiles[f].patches : rtFiles[f].patches[k].by # o
      BY <1>1, <3>1 DEF Sound, HasRead
    <3>4. QED
      BY <1>2, <3>2, <3>3
  <2>2. QED
    BY <1>2, <1>5, <2>1 DEF Founded
<1>7. JobHolds(job, rtJobs', rtOps', rtDecision, rtEnvelope, rtApproved)
  <2>1. work.by # 0
    BY <1>2 DEF Slot
  <2>2. QED
    BY <1>3, <1>4, <1>6, <2>1 DEF JobHolds
<1>8. rtRow' \in RtRows /\ RowHolds(rtRow', rtDecision, rtEnvelope)
  BY <1>1, PassingRows DEF RtPhase
<1>9. QED
  BY <1>1, <1>3, <1>7, <1>8, MoveStep

\* The patch is planned.
LEMMA GenerateStep ==
  ASSUME RtInv, NEW o \in Slot, generatePatchPlan(o)
  PROVE  RtInv'
<1> DEFINE j == rtJobs[o]
<1>1. PICK plan \in RtPlan :
        IF needsApproval(j.input, plan)
        THEN RtGoto(o, [j EXCEPT !.step = "request", !.work = [@ EXCEPT !.plan = plan]]) /\ UNCHANGED rtRow
        ELSE RtRecord(o, [j EXCEPT !.step = "apply", !.work = [@ EXCEPT !.plan = plan]],
                      RtRow("running", "applying_patch", FALSE))
  BY DEF generatePatchPlan
<1> DEFINE work == [j.work EXCEPT !.plan = plan]
<1>2. /\ j.kind = "task" /\ j.step = "plan"
      /\ UNCHANGED <<rtFiles, rtDecision, rtEnvelope, rtEdits, rtLost, rtEarly, rtApproved>>
  BY DEF generatePatchPlan
<1>3. work \in RtWorks /\ work.plan = plan /\ work.seen = j.work.seen /\ work.by = j.work.by
  BY JobFields DEF RtWorks
<1>4. j.next = 1 /\ RowHolds(j.row, rtDecision, rtEnvelope) /\ j.work.by # 0
  BY <1>2, JobFields DEF JobHolds
<1>5. 1 \in DOMAIN plan.ops
  <2>1. plan.ops \in Seq(RtOp) /\ Len(plan.ops) > 0
    BY RtAssumption
  <2>2. QED
    BY <2>1, LenProperties
<1>6. ASSUME NEW step \in {"request", "apply"}, RtGoto(o, [j EXCEPT !.step = step, !.work = work]),
             step = "apply" => ~ needsApproval(j.input, plan),
             rtRow' = rtRow \/ (rtRow' \in RtRows /\ RowHolds(rtRow', rtDecision, rtEnvelope))
      PROVE  RtInv'
  <2> HIDE DEF work
  <2> DEFINE job == [j EXCEPT !.step = step, !.work = work]
  <2>1. /\ job \in RtJob /\ job.kind = "task" /\ job.step = step /\ job.work = work /\ job.next = j.next
        /\ job.row = j.row /\ job.input = j.input
    BY <1>2, <1>3, JobFields DEF RtJob, RtStep
  <2> HIDE DEF job
  <2>2. RtGoto(o, job)
    BY <1>6 DEF job
  <2>3. Founded(j.work, rtJobs', rtOps')
    BY <1>2, <2>1, <2>2, GotoEffect
  <2>4. Founded(work, rtJobs', rtOps')
    BY <1>3, <2>3 DEF Founded
  <2>5. JobHolds(job, rtJobs', rtOps', rtDecision, rtEnvelope, rtApproved)
    BY <1>3, <1>4, <1>5, <1>6, <2>1, <2>4 DEF JobHolds
  <2>6. QED
    BY <1>2, <1>6, <2>1, <2>2, <2>5, MoveStep
<1> HIDE DEF work
<1>7. CASE needsApproval(j.input, plan)
  <2>1. RtGoto(o, [j EXCEPT !.step = "request", !.work = work]) /\ rtRow' = rtRow
    BY <1>1, <1>7 DEF work
  <2>2. QED
    BY <1>6, <2>1
<1>8. CASE ~ needsApproval(j.input, plan)
  <2>1. RtGoto(o, [j EXCEPT !.step = "apply", !.work = work]) /\ rtRow' = RtRow("running", "applying_patch", FALSE)
    BY <1>1, <1>8 DEF work, RtRecord
  <2>2. rtRow' \in RtRows /\ RowHolds(rtRow', rtDecision, rtEnvelope)
    BY <2>1, PassingRows DEF RtPhase
  <2>3. QED
    BY <1>6, <1>8, <2>1, <2>2
<1>9. QED
  BY <1>7, <1>8

\* The request, its envelope and the row are written.
LEMMA RequestStep ==
  ASSUME RtInv, NEW o \in Slot, requestApproval(o)
  PROVE  RtInv'
<1> DEFINE j == rtJobs[o]
<1> DEFINE p == j.work.plan.id
<1> DEFINE job == [j EXCEPT !.step = afterRequest(j.step)]
<1> DEFINE waiting == [RtRow("requires_approval", "awaiting_approval", FALSE) EXCEPT !.request = p]
<1>1. /\ j.kind = "task" /\ j.step \in {"request", "envelope", "await"} /\ RtGoto(o, job)
      /\ rtDecision' = IF j.step = "request" THEN [rtDecision EXCEPT ![p] = "requested"] ELSE rtDecision
      /\ rtEnvelope' = IF j.step = "envelope" THEN [rtEnvelope EXCEPT ![p] = j.work] ELSE rtEnvelope
      /\ rtRow' = IF j.step = "await" THEN waiting ELSE rtRow
      /\ UNCHANGED <<rtFiles, rtEdits, rtLost, rtEarly, rtApproved>>
  BY DEF requestApproval
<1>2. /\ job \in RtJob /\ job.kind = "task" /\ job.step = afterRequest(j.step) /\ job.work = j.work /\ job.next = j.next
      /\ job.row = j.row /\ job.input = j.input
  BY <1>1, JobFields DEF RtJob, RtStep, afterRequest
<1>3. /\ j.step = "request" => job.step = "envelope"
      /\ j.step = "envelope" => job.step = "await"
      /\ j.step = "await" => job.step = "done"
  BY <1>1, <1>2 DEF afterRequest
<1> HIDE DEF job
<1>4. /\ RowHolds(j.row, rtDecision, rtEnvelope) /\ j.work.by # 0 /\ j.work.plan \in RtPlan
      /\ j.next \in DOMAIN j.work.plan.ops
      /\ j.step \in {"envelope", "await"} => rtDecision[p] # "none"
      /\ j.step = "await" => rtEnvelope[p].by # 0
  BY <1>1, JobFields DEF JobHolds
<1>5. p \in RtPlanId /\ j.work \in RtWorks
  BY <1>4, JobFields, RtAssumption
<1>6. rtDecision \in [RtPlanId -> RtDecision] /\ rtEnvelope \in [RtPlanId -> RtWorks]
  BY DEF RtInv, RtTypeOK
<1>7. /\ rtOps' = rtOps /\ o <= rtOps /\ Later(rtJobs, rtJobs', rtOps, rtOps') /\ rtJobs' \in [Slot -> RtJob]
      /\ rtJobs'[o] = job /\ (\A q \in Slot : q # o => rtJobs'[q] = rtJobs[q]) /\ Founded(j.work, rtJobs', rtOps')
  BY <1>1, <1>2, <1>3, GotoEffect
<1> HIDE DEF p
<1>8. /\ rtDecision' \in [RtPlanId -> RtDecision] /\ rtEnvelope' \in [RtPlanId -> RtWorks]
      /\ \A id \in RtPlanId : /\ rtDecision[id] # "none" => rtDecision'[id] # "none"
                              /\ rtEnvelope[id].by # 0 => rtEnvelope'[id].by # 0
                              /\ rtDecision'[id] = "approved" => id \in rtApproved'
      /\ rtDecision'[p] # "none" /\ (j.step # "request" => rtEnvelope'[p].by # 0)
  BY <1>1, <1>4, <1>5, <1>6 DEF RtInv, RtDecision
<1>9. RowHolds(j.row, rtDecision', rtEnvelope')
  BY <1>4, <1>8 DEF RowHolds
<1>10. JobHolds(job, rtJobs', rtOps', rtDecision', rtEnvelope', rtApproved')
  BY <1>1, <1>2, <1>3, <1>4, <1>7, <1>8, <1>9 DEF JobHolds, p
<1>11. rtRow' = rtRow \/ (rtRow' \in RtRows /\ RowHolds(rtRow', rtDecision', rtEnvelope'))
  <2>1. SUFFICES ASSUME j.step = "await"
                 PROVE  rtRow' \in RtRows /\ RowHolds(rtRow', rtDecision', rtEnvelope')
    BY <1>1
  <2>2. RtRow("requires_approval", "awaiting_approval", FALSE) \in RtRows
    BY PassingRows DEF RtPhase
  <2>3. rtRow' \in RtRows /\ rtRow'.status = "requires_approval" /\ rtRow'.request = p
    BY <1>1, <1>5, <2>1, <2>2 DEF RtRows, RtRequest, RtRow
  <2>4. QED
    BY <1>5, <1>8, <2>1, <2>3 DEF RowHolds
<1>12. RtTypeOK'
  BY <1>1, <1>7, <1>8, <1>11 DEF RtInv, RtTypeOK
<1>13. EditsKept' /\ ApprovedFirst'
  BY <1>1 DEF RtInv, EditsKept, ApprovedFirst
<1>14. \A id \in RtPlanId : \/ rtEnvelope'[id] = rtEnvelope[id]
                            \/ Founded(rtEnvelope'[id], rtJobs', rtOps') /\ EnvelopeHolds(id, rtEnvelope'[id])
  BY <1>1, <1>4, <1>5, <1>6, <1>7 DEF EnvelopeHolds, p
<1>15. QED
  BY <1>1, <1>7, <1>8, <1>10, <1>11, <1>12, <1>13, <1>14, Carry

\* What a patch makes of a sound content, given one that is sound too and holds nothing of
\* the patch: when they were compared the two are one.
LEMMA PatchedSound ==
  ASSUME NEW op \in RtOp, op.kind = "delete" <=> op.body = "none", NEW now \in RtContent, NEW seen \in RtContent,
         NEW tag \in RtTag, tag.hashed = compared(op), hashMatches(op, now, seen), NEW jobs, NEW ops,
         Sound(now, jobs, ops), Sound(seen, jobs, ops), tag.by <= ops, HasRead(tag.by, jobs),
         \A k \in DOMAIN seen.patches : seen.patches[k].by # tag.by
  PROVE  /\ patched(op, now, seen, tag) \in RtContent /\ Sound(patched(op, now, seen, tag), jobs, ops)
         /\ compared(op) => now = seen
<1> DEFINE new == patched(op, now, seen, tag)
<1>1. compared(op) => now = seen
  BY DEF hashMatches
<1>2. ASSUME NEW base \in RtContent, Sound(base, jobs, ops), compared(op) => base = seen
      PROVE  LET c == [there |-> TRUE, edits |-> base.edits, patches |-> Append(base.patches, tag)]
             IN  c \in RtContent /\ Sound(c, jobs, ops)
  <2> DEFINE s == Append(base.patches, tag)
  <2> DEFINE c == [there |-> TRUE, edits |-> base.edits, patches |-> s]
  <2>1. base.patches \in Seq(RtTag) /\ base.edits \in SUBSET (1 .. RtEditBound)
    BY DEF RtContent
  <2>2. /\ s \in Seq(RtTag) /\ DOMAIN base.patches = 1 .. Len(base.patches) /\ DOMAIN s = 1 .. (Len(base.patches) + 1)
        /\ Len(base.patches) \in Nat
        /\ s[Len(base.patches) + 1] = tag /\ \A k \in 1 .. Len(base.patches) : s[k] = base.patches[k]
    BY <2>1, AppendProperties, LenProperties
  <2> HIDE DEF s
  <2>3. c \in RtContent
    <3>1. TRUE \in BOOLEAN
      BY Zenon
    <3>2. QED
      BY <2>1, <2>2, <3>1, Zenon DEF RtContent
  <2>4. c.patches = s
    BY Zenon
  <2>6. tag.hashed => \A k \in 1 .. Len(base.patches) : s[k] # tag
    BY <1>2, <2>2
  <2>7. \A k, l \in DOMAIN s : s[k].hashed /\ s[k] = s[l] => k = l
    <3> SUFFICES ASSUME NEW k \in DOMAIN s, NEW l \in DOMAIN s, s[k].hashed, s[k] = s[l] PROVE k = l
      OBVIOUS
    <3>1. CASE k \in 1 .. Len(base.patches) /\ l \in 1 .. Len(base.patches)
      BY <1>2, <2>2, <3>1 DEF Sound
    <3>2. CASE k = Len(base.patches) + 1 \/ l = Len(base.patches) + 1
      BY <2>2, <2>6, <3>2
    <3>3. QED
      BY <2>2, <3>1, <3>2
  <2>8. \A k \in DOMAIN s : s[k].by <= ops /\ HasRead(s[k].by, jobs)
    BY <1>2, <2>2 DEF Sound
  <2>9. Sound(c, jobs, ops)
    BY <2>4, <2>7, <2>8 DEF Sound
  <2>10. QED
    BY <2>3, <2>9 DEF s
<1>3. CASE op.kind = "delete"
  <2>1. new = deleted
    BY <1>3 DEF patched
  <2> HIDE DEF new
  <2>2. FALSE \in BOOLEAN /\ {} \in SUBSET (1 .. RtEditBound)
    BY Zenon
  <2>3. <<>> \in Seq(RtTag) /\ DOMAIN <<>> = {}
    OBVIOUS
  <2>4. new \in RtContent
    BY <2>1, <2>2, <2>3, Zenon DEF RtContent, deleted
  <2>5. new.patches = <<>>
    BY <2>1, Zenon DEF deleted
  <2>6. Sound(new, jobs, ops)
    BY <2>3, <2>5 DEF Sound
  <2>7. QED
    BY <1>1, <2>4, <2>6 DEF new
<1>4. CASE op.kind # "delete" /\ op.body = "append"
  <2>1. new = [there |-> TRUE, edits |-> now.edits, patches |-> Append(now.patches, tag)]
    BY <1>4 DEF patched
  <2>2. QED
    BY <1>1, <1>2, <2>1
<1>5. CASE op.kind # "delete" /\ op.body = "replace"
  <2>1. new = [there |-> TRUE, edits |-> seen.edits, patches |-> Append(seen.patches, tag)]
    BY <1>5 DEF patched
  <2>2. QED
    BY <1>1, <1>2, <2>1
<1>6. QED
  BY <1>3, <1>4, <1>5 DEF RtOp

\* The patch is applied, one file at a time.
LEMMA ApplyStep ==
  ASSUME RtInv, NEW o \in Slot, applyRepositoryPatch(o)
  PROVE  RtInv'
<1> DEFINE j == rtJobs[o]
<1> DEFINE op == j.work.plan.ops[j.next]
<1> DEFINE now == rtFiles[op.file]
<1> DEFINE seen == j.work.seen[op.file]
<1> DEFINE tag == [by |-> j.work.by, hashed |-> compared(op)]
<1> DEFINE new == patched(op, now, seen, tag)
<1>1. /\ j.kind \in {"task", "continuation"} /\ j.step = "apply"
      /\ UNCHANGED <<rtDecision, rtEnvelope, rtEdits, rtApproved>>
  BY DEF applyRepositoryPatch
<1>2. /\ j \in RtJob /\ j.work \in RtWorks /\ j.next \in Nat \ {0} /\ j.work.by # 0 /\ j.work.plan \in RtPlan
      /\ j.next \in DOMAIN j.work.plan.ops /\ Founded(j.work, rtJobs, rtOps) /\ RowHolds(j.row, rtDecision, rtEnvelope)
      /\ ~ mayNotWrite(j)
  BY <1>1, JobFields DEF JobHolds, mayNotWrite
<1>3. op \in RtOp /\ (op.kind = "delete" <=> op.body = "none")
      /\ DOMAIN j.work.plan.ops = 1 .. Len(j.work.plan.ops) /\ Len(j.work.plan.ops) \in Nat
  <2>1. j.work.plan.ops \in Seq(RtOp) /\ \A k \in DOMAIN j.work.plan.ops : (j.work.plan.ops[k].kind = "delete" <=> j.work.plan.ops[k].body = "none")
    BY <1>2, RtAssumption
  <2>2. QED
    BY <1>2, <2>1, ElementOfSeq, LenProperties
<1>4. op.file \in RtFile /\ now \in RtContent /\ seen \in RtContent
  <2>1. op.file \in RtFile
    BY <1>3 DEF RtOp
  <2>2. j.work.seen \in [RtFile -> RtContent] /\ rtFiles \in [RtFile -> RtContent]
    BY <1>2 DEF RtWorks, RtInv, RtTypeOK
  <2>3. QED
    BY <2>1, <2>2
<1>5. tag \in RtTag /\ tag.by = j.work.by /\ tag.hashed = compared(op)
  <2>1. j.work.by \in Slot
    BY <1>2, RtAssumption DEF RtWorks, Slot
  <2>2. compared(op) \in BOOLEAN
    BY <1>3 DEF compared, RtOp
  <2>3. QED
    BY <2>1, <2>2 DEF RtTag
<1>6. CASE ~ hashMatches(op, now, seen)
  <2>1. RtGoto(o, RtNoJob) /\ UNCHANGED <<rtFiles, rtRow, rtLost, rtEarly>>
    BY <1>6 DEF applyRepositoryPatch
  <2>2. QED
    BY <1>1, <2>1, EndStep
<1>7. CASE hashMatches(op, now, seen)
  <2> DEFINE last == j.next = Len(j.work.plan.ops)
  <2> DEFINE job == IF last THEN [j EXCEPT !.step = "verify"] ELSE [j EXCEPT !.next = @ + 1]
  <2>1. /\ rtFiles' = [rtFiles EXCEPT ![op.file] = new]
        /\ rtLost' = IF compared(op) /\ ~ (now.edits \ seen.edits \subseteq new.edits)
                     THEN rtLost \cup {op.file} ELSE rtLost
        /\ rtEarly' = (rtEarly \/ mayNotWrite(j))
        /\ RtGoto(o, job) /\ rtRow' = IF last THEN progress(j, "verifying") ELSE rtRow
    BY <1>7 DEF applyRepositoryPatch
  <2> HIDE DEF op, new, tag
  <2>2. /\ job \in RtJob /\ job.kind = j.kind /\ job.step = (IF last THEN "verify" ELSE "apply") /\ job.work = j.work
        /\ job.next = (IF last THEN j.next ELSE j.next + 1) /\ job.row = j.row /\ job.input = j.input
        /\ job.request = j.request
    BY <1>1, <1>2 DEF RtJob, RtStep
  <2>3. job.next \in DOMAIN j.work.plan.ops
    BY <1>2, <1>3, <2>2
  <2> HIDE DEF job
  <2>4. /\ rtOps' = rtOps /\ o <= rtOps /\ Later(rtJobs, rtJobs', rtOps, rtOps') /\ rtJobs' \in [Slot -> RtJob]
        /\ rtJobs'[o] = job /\ (\A q \in Slot : q # o => rtJobs'[q] = rtJobs[q]) /\ Founded(j.work, rtJobs', rtOps')
        /\ rtOps \in Nat
    BY <1>1, <2>1, <2>2, GotoEffect, RtAssumption DEF RtInv, RtTypeOK
  <2>5. new \in RtContent /\ Sound(new, rtJobs', rtOps') /\ (compared(op) => now = seen)
    <3>1. Sound(now, rtJobs, rtOps)
      BY <1>4 DEF RtInv
    <3>2. Sound(now, rtJobs', rtOps')
      BY <1>4, <2>4, <3>1, SoundLater
    <3>3. /\ Sound(seen, rtJobs', rtOps') /\ \A k \in DOMAIN seen.patches : seen.patches[k].by # tag.by
          /\ tag.by <= rtOps' /\ HasRead(tag.by, rtJobs')
      BY <1>2, <1>4, <1>5, <2>4 DEF Founded
    <3>4. QED
      BY <1>3, <1>4, <1>5, <1>7, <3>2, <3>3, PatchedSound DEF new
  <2>6. rtLost' = {}
    BY <2>1, <2>5 DEF RtInv, EditsKept
  <2>7. ~ rtEarly' /\ rtEarly' \in BOOLEAN
    BY <1>2, <2>1 DEF RtInv, ApprovedFirst
  <2>8. rtRow' = rtRow \/ (rtRow' \in RtRows /\ RowHolds(rtRow', rtDecision', rtEnvelope'))
    <3>1. rtRow' = rtRow \/ rtRow' = RtRow("running", "verifying", FALSE)
      BY <2>1 DEF progress
    <3>2. QED
      BY <3>1, PassingRows DEF RtPhase
  <2>9. rtFiles' \in [RtFile -> RtContent] /\ \A f \in RtFile : rtFiles'[f] = rtFiles[f] \/ Sound(rtFiles'[f], rtJobs', rtOps')
    <3>1. rtFiles \in [RtFile -> RtContent]
      BY DEF RtInv, RtTypeOK
    <3>2. QED
      BY <1>4, <2>1, <2>5, <3>1
  <2>10. RtTypeOK'
    BY <1>1, <2>4, <2>6, <2>7, <2>8, <2>9 DEF RtInv, RtTypeOK
  <2>11. JobHolds(job, rtJobs', rtOps', rtDecision', rtEnvelope', rtApproved')
    <3>1. JobHolds(j, rtJobs, rtOps, rtDecision, rtEnvelope, rtApproved)
      BY JobFields
    <3>2. job.decision = j.decision
      BY <1>2 DEF job, RtJob
    <3>3. QED
      BY <1>1, <1>2, <2>2, <2>3, <2>4, <3>1, <3>2 DEF JobHolds
  <2>12. EditsKept' /\ ApprovedFirst'
    BY <2>6, <2>7 DEF EditsKept, ApprovedFirst
  <2>13. QED
    BY <1>1, <2>4, <2>8, <2>9, <2>10, <2>11, <2>12, Carry DEF RtInv
<1>8. QED
  BY <1>6, <1>7

\* The changes are verified.
LEMMA VerifyStep ==
  ASSUME RtInv, NEW o \in Slot, runRepositoryVerification(o)
  PROVE  RtInv'
<1> DEFINE j == rtJobs[o]
<1>1. PICK ok \in BOOLEAN : RtRecord(o, [j EXCEPT !.step = "review", !.passed = ok], progress(j, "reviewing"))
  BY DEF runRepositoryVerification
<1> DEFINE job == [j EXCEPT !.step = "review", !.passed = ok]
<1>2. j.step = "verify" /\ UNCHANGED <<rtFiles, rtDecision, rtEnvelope, rtEdits, rtLost, rtEarly, rtApproved>>
  BY DEF runRepositoryVerification
<1>3. /\ job \in RtJob /\ job.kind = j.kind /\ job.step = "review" /\ job.work = j.work /\ job.next = j.next
      /\ job.row = j.row /\ job.input = j.input /\ job.decision = j.decision /\ job.request = j.request
  BY JobFields DEF RtJob, RtStep
<1>4. RtGoto(o, job) /\ rtRow' = progress(j, "reviewing")
  BY <1>1 DEF RtRecord
<1> HIDE DEF job
<1>5. j.kind # "none"
  <2>1. JobHolds(j, rtJobs, rtOps, rtDecision, rtEnvelope, rtApproved)
    BY JobFields
  <2>2. QED
    BY <1>2, <2>1 DEF JobHolds
<1>6. Founded(j.work, rtJobs', rtOps')
  BY <1>3, <1>4, <1>5, GotoEffect
<1>7. JobHolds(job, rtJobs', rtOps', rtDecision, rtEnvelope, rtApproved)
  <2>1. JobHolds(j, rtJobs, rtOps, rtDecision, rtEnvelope, rtApproved)
    BY JobFields
  <2>2. QED
    BY <1>2, <1>3, <1>6, <2>1 DEF JobHolds
<1>8. rtRow' = rtRow \/ (rtRow' \in RtRows /\ RowHolds(rtRow', rtDecision, rtEnvelope))
  <2>1. rtRow' = rtRow \/ rtRow' = RtRow("running", "reviewing", FALSE)
    BY <1>4 DEF progress
  <2>2. QED
    BY <2>1, PassingRows DEF RtPhase
<1>9. QED
  BY <1>2, <1>3, <1>4, <1>5, <1>7, <1>8, MoveStep

\* A workflow ends with its last row.
LEMMA ResultStep ==
  ASSUME RtInv, NEW o \in Slot, recordResult(o)
  PROVE  RtInv'
<1> DEFINE j == rtJobs[o]
<1> DEFINE final == finalStatus(j.passed)
<1>1. /\ j.step = "review" /\ RtGoto(o, RtNoJob) /\ rtRow' = RtRow(toWorkflowStatus(final), final, j.passed)
      /\ UNCHANGED <<rtFiles, rtDecision, rtEnvelope, rtEdits, rtLost, rtEarly, rtApproved>>
  BY DEF recordResult, RtRecord
<1>2. j.kind # "none" /\ j.passed \in BOOLEAN
  <2>1. JobHolds(j, rtJobs, rtOps, rtDecision, rtEnvelope, rtApproved) /\ j.passed \in BOOLEAN
    BY JobFields
  <2>2. QED
    BY <1>1, <2>1 DEF JobHolds
<1>3. /\ final \in {"completed", "completed_with_errors"} /\ (final = "completed" <=> j.passed)
      /\ toWorkflowStatus(final) = final
  BY <1>2 DEF finalStatus, toWorkflowStatus
<1> HIDE DEF final
<1>4. rtRow' \in RtRows
  BY <1>1, <1>2, <1>3, PassingRows DEF RtStatus, RtPhase
<1>5. rtRow'.status = final /\ rtRow'.phase = final /\ rtRow'.passed = j.passed
  BY <1>1, <1>3 DEF RtRow
<1>6. RowHolds(rtRow', rtDecision, rtEnvelope)
  BY <1>3, <1>5 DEF RowHolds
<1>7. QED
  BY <1>1, <1>2, <1>4, <1>6, EndStep

\* An approval starts the continuation, when there is an envelope.
LEMMA ContinueStep ==
  ASSUME RtInv, NEW o \in Slot, continueApprovedRepositoryTask(o)
  PROVE  RtInv'
<1> DEFINE j == rtJobs[o]
<1> DEFINE job == [RtNoJob EXCEPT !.kind = "continuation", !.step = "decision", !.request = j.request]
<1>1. /\ j.kind = "approved" /\ RtGoto(o, IF rtEnvelope[j.request] = RtNoPlan THEN RtNoJob ELSE job)
      /\ UNCHANGED <<rtFiles, rtRow, rtDecision, rtEnvelope, rtEdits, rtLost, rtEarly, rtApproved>>
  BY DEF continueApprovedRepositoryTask
<1>2. /\ job \in RtJob /\ job.kind = "continuation" /\ job.step = "decision" /\ job.work = RtNoPlan /\ job.next = 1
      /\ job.row = RtNoJob.row /\ job.decision = "none" /\ job.request = j.request
  BY NoJob, JobFields DEF RtJob, RtKind, RtStep
<1> HIDE DEF job
<1>3. CASE rtEnvelope[j.request] = RtNoPlan
  BY <1>1, <1>3, EndStep
<1>4. CASE rtEnvelope[j.request] # RtNoPlan
  <2>1. j.request \in RtPlanId /\ rtEnvelope[j.request].by # 0
    BY <1>1, <1>4, JobFields DEF RtInv, JobHolds, EnvelopeHolds
  <2>2. JobHolds(job, rtJobs', rtOps', rtDecision, rtEnvelope, rtApproved)
    BY <1>2, <2>1, NoJob DEF JobHolds, RowHolds
  <2>3. QED
    BY <1>1, <1>2, <1>4, <2>2, MoveStep
<1>5. QED
  BY <1>3, <1>4

\* A rejection ends in a row that yields.
LEMMA RejectionStep ==
  ASSUME RtInv, NEW o \in Slot, recordRepositoryRejection(o)
  PROVE  RtInv'
<1>1. /\ rtJobs[o].kind = "rejected" /\ RtGoto(o, RtNoJob)
      /\ rtRow' = rtRow \/ rtRow' = RtRow("yielded", "yielded", FALSE)
      /\ UNCHANGED <<rtFiles, rtDecision, rtEnvelope, rtEdits, rtLost, rtEarly, rtApproved>>
  BY DEF recordRepositoryRejection, RtRecord
<1>2. rtRow' = rtRow \/ (rtRow' \in RtRows /\ RowHolds(rtRow', rtDecision, rtEnvelope))
  BY <1>1, PassingRows DEF RtPhase
<1>3. QED
  BY <1>1, <1>2, EndStep

\* The continuation reads the decision.
LEMMA LoadDecisionStep ==
  ASSUME RtInv, NEW o \in Slot, loadDecision(o)
  PROVE  RtInv'
<1> DEFINE j == rtJobs[o]
<1> DEFINE job == [j EXCEPT !.step = "load", !.decision = rtDecision[j.request]]
<1>1. /\ j.kind = "continuation" /\ j.step = "decision" /\ RtGoto(o, job)
      /\ UNCHANGED <<rtFiles, rtRow, rtDecision, rtEnvelope, rtEdits, rtLost, rtEarly, rtApproved>>
  BY DEF loadDecision
<1>2. /\ job \in RtJob /\ job.kind = "continuation" /\ job.step = "load" /\ job.work = j.work /\ job.next = j.next
      /\ job.row = j.row /\ job.decision = rtDecision[j.request] /\ job.request = j.request
  <2>1. rtDecision[j.request] \in RtDecision
    BY <1>1, JobFields DEF RtInv, RtTypeOK, JobHolds
  <2>2. QED
    BY <1>1, <2>1, JobFields DEF RtJob, RtStep
<1> HIDE DEF job
<1>3. Founded(j.work, rtJobs', rtOps')
  BY <1>1, <1>2, GotoEffect
<1>4. JobHolds(job, rtJobs', rtOps', rtDecision, rtEnvelope, rtApproved)
  <2>1. JobHolds(j, rtJobs, rtOps, rtDecision, rtEnvelope, rtApproved) 
        /\ (rtDecision[j.request] = "approved" => j.request \in rtApproved)
    BY <1>1, JobFields DEF RtInv, JobHolds
  <2>2. QED
    BY <1>1, <1>2, <1>3, <2>1 DEF JobHolds
<1>5. QED
  BY <1>1, <1>2, <1>4, MoveStep

\* The continuation reads the envelope.
LEMMA LoadEnvelopeStep ==
  ASSUME RtInv, NEW o \in Slot, loadEnvelope(o)
  PROVE  RtInv'
<1> DEFINE j == rtJobs[o]
<1> DEFINE work == rtEnvelope[j.request]
<1> DEFINE job == [j EXCEPT !.step = "apply", !.work = work]
<1>1. /\ j.kind = "continuation" /\ j.step = "load"
      /\ UNCHANGED <<rtFiles, rtDecision, rtEnvelope, rtEdits, rtLost, rtEarly, rtApproved>>
  BY DEF loadEnvelope
<1>2. CASE j.decision # "approved"
  <2>1. RtGoto(o, RtNoJob) /\ rtRow' = RtRow("yielded", "yielded", FALSE)
    BY <1>2 DEF loadEnvelope, RtRecord
  <2>2. rtRow' \in RtRows /\ RowHolds(rtRow', rtDecision, rtEnvelope)
    BY <2>1, PassingRows DEF RtPhase
  <2>3. QED
    BY <1>1, <2>1, <2>2, EndStep
<1>3. CASE j.decision = "approved"
  <2>1. RtGoto(o, job) /\ rtRow' = RtRow("requires_approval", "applying_patch", FALSE)
    BY <1>3 DEF loadEnvelope, RtRecord
  <2>2. JobHolds(j, rtJobs, rtOps, rtDecision, rtEnvelope, rtApproved)
    BY JobFields
  <2>3. j.request \in RtPlanId /\ work.by # 0 /\ j.next = 1 /\ j.request \in rtApproved /\ rtOps \in Nat
    BY <1>1, <1>3, <2>2, RtAssumption DEF JobHolds, RtInv, RtTypeOK
  <2>4. work \in RtWorks /\ Founded(work, rtJobs, rtOps) /\ work.plan \in RtPlan /\ work.plan.id = j.request
    BY <2>3, NoJob DEF RtInv, RtTypeOK, EnvelopeHolds
  <2> HIDE DEF work
  <2>5. /\ job \in RtJob /\ job.kind = "continuation" /\ job.step = "apply" /\ job.work = work /\ job.next = j.next
        /\ job.row = j.row /\ job.decision = j.decision /\ job.request = j.request
    BY <1>1, <2>4, JobFields DEF RtJob, RtStep
  <2> HIDE DEF job
  <2>6. Later(rtJobs, rtJobs', rtOps, rtOps') /\ rtOps' = rtOps
    BY <1>1, <2>1, <2>5, GotoEffect
  <2>7. Founded(work, rtJobs', rtOps')
    BY <2>3, <2>4, <2>6, FoundedLater
  <2>8. 1 \in DOMAIN work.plan.ops
    <3>1. work.plan.ops \in Seq(RtOp) /\ Len(work.plan.ops) > 0
      BY <2>4, RtAssumption
    <3>2. QED
      BY <3>1, LenProperties
  <2>9. JobHolds(job, rtJobs', rtOps', rtDecision, rtEnvelope, rtApproved)
    BY <1>3, <2>2, <2>3, <2>4, <2>5, <2>7, <2>8 DEF JobHolds, work
  <2>10. rtRow' \in RtRows /\ RowHolds(rtRow', rtDecision, rtEnvelope)
    BY <2>1, PassingRows DEF RtPhase
  <2>11. QED
    BY <1>1, <2>1, <2>5, <2>9, <2>10, MoveStep
<1>4. QED
  BY <1>2, <1>3

\* People edit a file.
LEMMA EditStep ==
  ASSUME RtInv, NEW f \in RtFile, EditFile(f)
  PROVE  RtInv'
<1>1. /\ rtEdits < RtEditBound /\ rtEdits' = rtEdits + 1
      /\ rtFiles' = [rtFiles EXCEPT ![f].edits = @ \cup {rtEdits'}, ![f].there = TRUE]
      /\ UNCHANGED <<rtRow, rtDecision, rtEnvelope, rtJobs, rtOps, rtLost, rtEarly, rtApproved>>
  BY DEF EditFile
<1>2. rtFiles \in [RtFile -> RtContent] /\ rtEdits \in 0 .. RtEditBound /\ RtEditBound \in Nat /\ rtOps \in Nat
  BY RtAssumption DEF RtInv, RtTypeOK
<1>3. rtEdits' \in 1 .. RtEditBound /\ rtEdits' \in 0 .. RtEditBound
  BY <1>1, <1>2
<1>4. /\ rtFiles' \in [RtFile -> RtContent]
      /\ \A g \in RtFile : rtFiles'[g].patches = rtFiles[g].patches
  <2>1. rtFiles[f] \in RtContent /\ TRUE \in BOOLEAN
    BY <1>2, Zenon
  <2>2. rtFiles[f].edits \cup {rtEdits'} \in SUBSET (1 .. RtEditBound)
    BY <1>3, <2>1 DEF RtContent
  <2> DEFINE e == rtFiles[f].edits \cup {rtEdits'}
  <2> DEFINE c == [rtFiles[f] EXCEPT !.edits = e, !.there = TRUE]
  <2> HIDE DEF e
  <2>3. c \in RtContent /\ c.patches = rtFiles[f].patches
    BY <2>1, <2>2 DEF RtContent, e
  <2>4. rtFiles' = [rtFiles EXCEPT ![f] = c]
    BY <1>1, <1>2 DEF e
  <2> HIDE DEF c
  <2>5. QED
    BY <1>2, <2>3, <2>4
<1>5. \A g \in RtFile : Sound(rtFiles'[g], rtJobs', rtOps')
  BY <1>1, <1>4 DEF RtInv, Sound
<1>6. RtTypeOK'
  BY <1>1, <1>3, <1>4 DEF RtInv, RtTypeOK
<1>7. Later(rtJobs, rtJobs', rtOps, rtOps') /\ EditsKept' /\ ApprovedFirst'
  BY <1>1, <1>2 DEF Later, RtInv, EditsKept, ApprovedFirst
<1>8. QED
  BY <1>1, <1>5, <1>6, <1>7, Carry DEF RtInv

\* Every step keeps the invariant.
LEMMA RtInvStep == RtInv /\ [RtNext]_rtVars => RtInv'
<1> SUFFICES ASSUME RtInv, [RtNext]_rtVars PROVE RtInv'
  OBVIOUS
<1>1. CASE UNCHANGED rtVars
  <2>1. RtTypeOK' /\ EditsKept' /\ ApprovedFirst' /\ Later(rtJobs, rtJobs', rtOps, rtOps')
    BY <1>1, RtAssumption DEF RtInv, RtTypeOK, EditsKept, ApprovedFirst, Later, rtVars
  <2>2. QED
    BY <1>1, <2>1, Carry DEF RtInv, rtVars
<1>2. CASE \E d \in {"approved", "rejected"}, id \in RtPlanId : decide(d, id)
  BY <1>2, DecideStep
<1>3. ASSUME NEW o \in Slot, recordTaskFrameObservation(o) PROVE RtInv'
  <2>1. /\ rtJobs[o].kind = "note" /\ RtGoto(o, RtNoJob) /\ rtRow' = rtJobs[o].row
        /\ UNCHANGED <<rtFiles, rtDecision, rtEnvelope, rtEdits, rtLost, rtEarly, rtApproved>>
    BY <1>3 DEF recordTaskFrameObservation, RtRecord
  <2>2. rtRow' \in RtRows /\ RowHolds(rtRow', rtDecision, rtEnvelope)
    BY <2>1, JobFields DEF JobHolds
  <2>3. QED
    BY <2>1, <2>2, EndStep
<1>4. ASSUME NEW o \in Slot, childFails(o) PROVE RtInv'
  BY <1>4, EndStep DEF childFails
<1>5. CASE \E o \in Slot :
        \/ readRepositoryFiles(o) \/ generatePatchPlan(o) \/ requestApproval(o) \/ applyRepositoryPatch(o)
        \/ runRepositoryVerification(o) \/ recordResult(o)
        \/ continueApprovedRepositoryTask(o) \/ recordRepositoryRejection(o) \/ loadDecision(o) \/ loadEnvelope(o)
        \/ recordTaskFrameObservation(o) \/ childFails(o)
  BY <1>3, <1>4, <1>5, ReadStep, GenerateStep, RequestStep, ApplyStep, VerifyStep, ResultStep, ContinueStep, RejectionStep,
     LoadDecisionStep, LoadEnvelopeStep
<1>6. CASE \E f \in RtFile : EditFile(f)
  BY <1>6, EditStep
<1>7. QED
  BY <1>1, <1>2, <1>5, <1>6, SubmitStep, RequestVerificationStep DEF RtNext, Slot

\* A repository task is held to its approvals, with any number of submissions, decisions,
\* continuations, requested verifications and edits in any order: no edit made after the
\* files were read is overwritten by an operation whose hash is compared, no such operation
\* is in a file twice, a plan that needs approval is written only after a request of its id
\* was approved and by a continuation that found it so, a row that awaits one names a
\* request with its envelope, and completed means verified.
THEOREM PatchesHeldHolds == RtSpec => []PatchesHeldToApproval
<1>1. RtInv => PatchesHeldToApproval
  <2> SUFFICES ASSUME RtInv PROVE PatchesHeldToApproval
    OBVIOUS
  <2>1. PatchedOnce
    BY DEF RtInv, Sound, PatchedOnce
  <2>2. AwaitingHasEnvelope /\ CompletedPassed
    BY NoJob DEF RtInv, RowHolds, AwaitingHasEnvelope, CompletedPassed
  <2>3. QED
    BY <2>1, <2>2 DEF RtInv, PatchesHeldToApproval
<1>2. QED
  BY RtInitInv, RtInvStep, <1>1, PTL DEF RtSpec

=============================================================================
