--------------------------- MODULE RepositoryTask ---------------------------
(***************************************************************************)
(* The repository task: submission (core user-frame-events.ts), the        *)
(* reconciler that inspects, plans and patches                             *)
(* (workflows/repository-task-reconciler.ts), the continuation of an       *)
(* approved patch (repository-task-continuation.ts), requested             *)
(* verifications (repository-verification-request.ts) and the patch        *)
(* executor (capability-packs/repository/executor.ts).                     *)
(*                                                                         *)
(* One goal in one repository: its task run id is a function of the goal,  *)
(* so submissions and continuations share one row, written whole.  The     *)
(* approval request id is a function of the patch plan's id, which a model *)
(* chooses, or else the goal: plans of one id share one decision and one   *)
(* envelope.                                                               *)
(* People edit files at any time.  A child that throws ends its workflow   *)
(* and leaves the row as it is (retries: 0).                               *)
(***************************************************************************)
EXTENDS Naturals, Sequences, FiniteSets

CONSTANTS
    RtFile,      \* files of the repository
    RtPlanId,    \* ids of patch plans
    RtPlan,      \* patch plans that may be generated: id, requires_approval, operations
    RtInput,     \* options of a submission: dry_run, apply, require_approval
    RtOpBound,   \* submissions, decisions and requests in a behaviour
    RtGoalBound, \* the first operations only, this many, may be submissions
    RtEditBound  \* edits of a file by people

VARIABLES
    rtFiles,     \* file -> content: there, edits by people and patches it holds
    rtRow,       \* the task's row: status, phase, if its verification passed, the request it names
    rtDecision,  \* plan id -> decision of its approval request
    rtEnvelope,  \* plan id -> its continuation envelope: the plan and what it was made from
    rtJobs,      \* operation -> the workflow or request it started
    rtOps,       \* operations so far
    rtEdits,     \* edits by people so far
    rtLost,      \* history: files where an edit by people was overwritten
    rtEarly,     \* history: a plan was written without the approval it needs
    rtApproved   \* history: plan ids whose request was ever approved

RtOp == [file : RtFile, kind : {"create", "modify", "delete"}, body : {"append", "replace", "none"}, hashed : BOOLEAN]

\* A patch plan has an operation, and a body for just the files that it does not delete.
ASSUME RtAssumption ==
    /\ RtPlan \subseteq [id : RtPlanId, requires_approval : BOOLEAN, ops : Seq(RtOp)]
    /\ RtInput \subseteq [dry_run : BOOLEAN, apply : BOOLEAN, require_approval : BOOLEAN]
    /\ \A p \in RtPlan :
        Len(p.ops) > 0 /\ \A k \in DOMAIN p.ops : (p.ops[k].kind = "delete" <=> p.ops[k].body = "none")
    /\ "none" \notin RtPlanId
    /\ RtOpBound \in Nat /\ RtGoalBound \in Nat /\ RtEditBound \in Nat

rtVars == <<rtFiles, rtRow, rtDecision, rtEnvelope, rtJobs, rtOps, rtEdits, rtLost, rtEarly, rtApproved>>

RtNoPlan == [plan |-> [id |-> "none", requires_approval |-> FALSE, ops |-> <<>>],
             seen |-> [f \in RtFile |-> [there |-> TRUE, edits |-> {}, patches |-> <<>>]], by |-> 0]
RtNoRow == [status |-> "none", phase |-> "none", passed |-> FALSE, request |-> "none"]
RtNoJob == [kind |-> "none", step |-> "done", input |-> [dry_run |-> TRUE, apply |-> FALSE, require_approval |-> FALSE],
            request |-> "none", work |-> RtNoPlan, next |-> 1, decision |-> "none", passed |-> FALSE, row |-> RtNoRow]

RtInit ==
    /\ rtFiles = RtNoPlan.seen
    /\ rtRow = RtNoRow
    /\ rtDecision = [id \in RtPlanId |-> "none"] /\ rtEnvelope = [id \in RtPlanId |-> RtNoPlan]
    /\ rtJobs = [o \in 1..RtOpBound |-> RtNoJob] /\ rtOps = 0
    /\ rtEdits = 0 /\ rtLost = {} /\ rtEarly = FALSE /\ rtApproved = {}

-----------------------------------------------------------------------------
(* Steps of a workflow                                                     *)

toWorkflowStatus(phase) ==
    CASE phase = "awaiting_approval" -> "requires_approval"
      [] phase \in {"completed", "completed_with_errors", "yielded", "failed"} -> phase
      [] OTHER -> "running"
RtRow(status, phase, passed) == [status |-> status, phase |-> phase, passed |-> passed, request |-> "none"]

RtStart(job) ==
    /\ rtOps < RtOpBound /\ rtOps' = rtOps + 1
    /\ rtJobs' = [rtJobs EXCEPT ![rtOps + 1] = job]

\* Job o does one step: what it becomes, and the row if it records one.
RtGoto(o, job) ==
    /\ rtJobs' = [rtJobs EXCEPT ![o] = job]
    /\ UNCHANGED rtOps
RtRecord(o, job, row) == rtRow' = row /\ RtGoto(o, job)
\* recordRepoStatus: only the first workflow records the phases it passes.
progress(job, phase) == IF job.kind = "task" THEN RtRow("running", phase, FALSE) ELSE rtRow

\* submitRepositoryGoal, submitRepositoryTask
submitRepositoryGoal ==
    /\ rtOps < RtGoalBound
    /\ \E i \in RtInput : RtStart([RtNoJob EXCEPT !.kind = "task", !.step = "inspect", !.input = i])
    /\ UNCHANGED <<rtFiles, rtRow, rtDecision, rtEnvelope, rtEdits, rtLost, rtEarly, rtApproved>>

\* loadRepositoryWorkspaceTask, discoverRepositoryCapabilitiesTask, readRepositoryFilesTask
readRepositoryFiles(o) ==
    LET j == rtJobs[o] IN
    /\ j.kind = "task" /\ j.step = "inspect"
    /\ RtRecord(o, [j EXCEPT !.step = "plan", !.work = [@ EXCEPT !.seen = rtFiles, !.by = o]],
                RtRow("running", "planning_patch", FALSE))
    /\ UNCHANGED <<rtFiles, rtDecision, rtEnvelope, rtEdits, rtLost, rtEarly, rtApproved>>

\* loadRepositoryWorkspace: a dry run asks for approval whatever the policy file says.
require_approval_for_write(input) == input.dry_run \/ input.require_approval

\* generatePatchPlan, proposeRepositoryPatch
needsApproval(input, plan) ==
    \/ plan.requires_approval
    \/ require_approval_for_write(input)
    \/ \E k \in DOMAIN plan.ops : plan.ops[k].kind = "delete"
    \/ input.require_approval
    \/ ~input.apply /\ input.dry_run
generatePatchPlan(o) ==
    LET j == rtJobs[o] IN
    /\ j.kind = "task" /\ j.step = "plan"
    /\ \E plan \in RtPlan :
        IF needsApproval(j.input, plan)
        THEN RtGoto(o, [j EXCEPT !.step = "request", !.work = [@ EXCEPT !.plan = plan]]) /\ UNCHANGED rtRow
        ELSE RtRecord(o, [j EXCEPT !.step = "apply", !.work = [@ EXCEPT !.plan = plan]],
                      RtRow("running", "applying_patch", FALSE))
    /\ UNCHANGED <<rtFiles, rtDecision, rtEnvelope, rtEdits, rtLost, rtEarly, rtApproved>>

\* The request, its envelope and the row are written in this order, over those of an
\* earlier plan of the same id.
afterRequest(step) == CASE step = "request" -> "envelope" [] step = "envelope" -> "await" [] step = "await" -> "done"
requestApproval(o) ==
    LET j == rtJobs[o]
        id == j.work.plan.id
    IN  /\ j.kind = "task" /\ j.step \in {"request", "envelope", "await"}
        /\ RtGoto(o, [j EXCEPT !.step = afterRequest(j.step)])
        /\ rtDecision' = IF j.step = "request" THEN [rtDecision EXCEPT ![id] = "requested"] ELSE rtDecision
        /\ rtEnvelope' = IF j.step = "envelope" THEN [rtEnvelope EXCEPT ![id] = j.work] ELSE rtEnvelope
        /\ rtRow' = IF j.step = "await"
                    THEN [RtRow("requires_approval", "awaiting_approval", FALSE) EXCEPT !.request = id] ELSE rtRow
        /\ UNCHANGED <<rtFiles, rtEdits, rtLost, rtEarly, rtApproved>>

\* applyRepositoryPatch, one file: a modification or deletion that names the hash it
\* expects fails on any other content; a creation never looks.
compared(op) == op.kind \in {"modify", "delete"} /\ op.hashed

\* Mutant: the expected content is not compared.
ifThere(op, now, seen) == op.kind # "delete" \/ now.there

hashMatches(op, now, seen) ==
    /\ compared(op) => now = seen
    /\ op.kind = "delete" => now.there
deleted == [there |-> FALSE, edits |-> {}, patches |-> <<>>]
patched(op, now, seen, tag) ==
    CASE op.kind = "delete" -> deleted
      [] op.body = "append" -> [there |-> TRUE, edits |-> now.edits, patches |-> Append(now.patches, tag)]
      [] op.body = "replace" -> [there |-> TRUE, edits |-> seen.edits, patches |-> Append(seen.patches, tag)]
\* History: a step of this job would be a write without its approval.
mayNotWrite(j) ==
    \/ (j.kind = "continuation" \/ needsApproval(j.input, j.work.plan)) /\ j.work.plan.id \notin rtApproved
    \/ j.kind = "continuation" /\ j.decision # "approved"
applyRepositoryPatch(o) ==
    LET j == rtJobs[o]
        plan == j.work.plan
        op == plan.ops[j.next]
        now == rtFiles[op.file]
        seen == j.work.seen[op.file]
        next == patched(op, now, seen, [by |-> j.work.by, hashed |-> compared(op)])
    IN  /\ j.kind \in {"task", "continuation"} /\ j.step = "apply"
        /\ IF hashMatches(op, now, seen)
           THEN /\ rtFiles' = [rtFiles EXCEPT ![op.file] = next]
                /\ rtLost' = IF compared(op) /\ ~(now.edits \ seen.edits \subseteq next.edits)
                             THEN rtLost \cup {op.file} ELSE rtLost
                /\ rtEarly' = (rtEarly \/ mayNotWrite(j))
                /\ IF j.next = Len(plan.ops)
                   THEN RtGoto(o, [j EXCEPT !.step = "verify"]) /\ rtRow' = progress(j, "verifying")
                   ELSE RtGoto(o, [j EXCEPT !.next = @ + 1]) /\ UNCHANGED rtRow
           ELSE RtGoto(o, RtNoJob) /\ UNCHANGED <<rtFiles, rtRow, rtLost, rtEarly>>
        /\ UNCHANGED <<rtDecision, rtEnvelope, rtEdits, rtApproved>>

\* runRepositoryVerificationTask with its commands, getRepositoryDiffTask, then
\* generateRepositoryReviewTask and the last row.
runRepositoryVerification(o) ==
    LET j == rtJobs[o] IN
    /\ j.step = "verify"
    /\ \E ok \in BOOLEAN : RtRecord(o, [j EXCEPT !.step = "review", !.passed = ok], progress(j, "reviewing"))
    /\ UNCHANGED <<rtFiles, rtDecision, rtEnvelope, rtEdits, rtLost, rtEarly, rtApproved>>
finalStatus(passed) == IF passed THEN "completed" ELSE "completed_with_errors"
recordResult(o) ==
    LET j == rtJobs[o] IN
    /\ j.step = "review"
    /\ RtRecord(o, RtNoJob, RtRow(toWorkflowStatus(finalStatus(j.passed)), finalStatus(j.passed), j.passed))
    /\ UNCHANGED <<rtFiles, rtDecision, rtEnvelope, rtEdits, rtLost, rtEarly, rtApproved>>

-----------------------------------------------------------------------------
(* Decisions and continuations                                             *)

\* approveTask and rejectTask write the decision, whatever it was, then look at the
\* envelope.  The request is the task's latest, by times that begin with the start of the
\* workflow that made it (in memory: its first), so it may be any that was written.
decide(decision, id) ==
    /\ rtDecision[id] # "none"
    /\ RtStart([RtNoJob EXCEPT !.kind = decision, !.step = "envelope", !.request = id])
    /\ rtDecision' = [rtDecision EXCEPT ![id] = decision]
    /\ rtApproved' = IF decision = "approved" THEN rtApproved \cup {id} ELSE rtApproved
    /\ UNCHANGED <<rtFiles, rtRow, rtEnvelope, rtEdits, rtLost, rtEarly>>
continueApprovedRepositoryTask(o) ==
    LET j == rtJobs[o] IN
    /\ j.kind = "approved"
    /\ RtGoto(o, IF rtEnvelope[j.request] = RtNoPlan THEN RtNoJob
               ELSE [RtNoJob EXCEPT !.kind = "continuation", !.step = "decision", !.request = j.request])
    /\ UNCHANGED <<rtFiles, rtRow, rtDecision, rtEnvelope, rtEdits, rtLost, rtEarly, rtApproved>>
recordRepositoryRejection(o) ==
    LET j == rtJobs[o] IN
    /\ j.kind = "rejected"
    /\ IF rtEnvelope[j.request] = RtNoPlan THEN RtGoto(o, RtNoJob) /\ UNCHANGED rtRow
       ELSE RtRecord(o, RtNoJob, RtRow("yielded", "yielded", FALSE))
    /\ UNCHANGED <<rtFiles, rtDecision, rtEnvelope, rtEdits, rtLost, rtEarly, rtApproved>>

\* loadApprovalContinuationEnvelopeTask reads the decision, then the envelope.  The
\* preview that is made again depends on the plan alone, so it never differs.
loadDecision(o) ==
    LET j == rtJobs[o] IN
    /\ j.kind = "continuation" /\ j.step = "decision"
    /\ RtGoto(o, [j EXCEPT !.step = "load", !.decision = rtDecision[j.request]])
    /\ UNCHANGED <<rtFiles, rtRow, rtDecision, rtEnvelope, rtEdits, rtLost, rtEarly, rtApproved>>
loadEnvelope(o) ==
    LET j == rtJobs[o] IN
    /\ j.kind = "continuation" /\ j.step = "load"
    /\ IF j.decision = "approved"
       THEN RtRecord(o, [j EXCEPT !.step = "apply", !.work = rtEnvelope[j.request]],
                     RtRow("requires_approval", "applying_patch", FALSE))
       ELSE RtRecord(o, RtNoJob, RtRow("yielded", "yielded", FALSE))
    /\ UNCHANGED <<rtFiles, rtDecision, rtEnvelope, rtEdits, rtLost, rtEarly, rtApproved>>

-----------------------------------------------------------------------------
(* Verification on request, failures, people                               *)

\* submitVerificationRequest: the row as it was before the request goes back with an
\* observation; meanwhile repositoryVerificationRequest runs and records its own row.
submitVerificationRequest ==
    /\ rtRow.status # "none" /\ rtOps + 2 <= RtOpBound
    /\ rtOps' = rtOps + 2
    /\ rtJobs' = [rtJobs EXCEPT ![rtOps + 1] = [RtNoJob EXCEPT !.kind = "note", !.step = "write", !.row = rtRow],
                                ![rtOps + 2] = [RtNoJob EXCEPT !.kind = "verification", !.step = "verify"]]
    /\ UNCHANGED <<rtFiles, rtRow, rtDecision, rtEnvelope, rtEdits, rtLost, rtEarly, rtApproved>>
recordTaskFrameObservation(o) ==
    LET j == rtJobs[o] IN
    /\ j.kind = "note"
    /\ RtRecord(o, RtNoJob, j.row)
    /\ UNCHANGED <<rtFiles, rtDecision, rtEnvelope, rtEdits, rtLost, rtEarly, rtApproved>>

\* A child throws or times out, or the process ends.
childFails(o) ==
    /\ rtJobs[o].kind # "none"
    /\ RtGoto(o, RtNoJob)
    /\ UNCHANGED <<rtFiles, rtRow, rtDecision, rtEnvelope, rtEdits, rtLost, rtEarly, rtApproved>>

EditFile(f) ==
    /\ rtEdits < RtEditBound /\ rtEdits' = rtEdits + 1
    /\ rtFiles' = [rtFiles EXCEPT ![f].edits = @ \cup {rtEdits'}, ![f].there = TRUE]
    /\ UNCHANGED <<rtRow, rtDecision, rtEnvelope, rtJobs, rtOps, rtLost, rtEarly, rtApproved>>

RtNext ==
    \/ submitRepositoryGoal \/ submitVerificationRequest
    \/ \E d \in {"approved", "rejected"}, id \in RtPlanId : decide(d, id)
    \/ \E o \in 1..RtOpBound :
        \/ readRepositoryFiles(o) \/ generatePatchPlan(o) \/ requestApproval(o) \/ applyRepositoryPatch(o)
        \/ runRepositoryVerification(o) \/ recordResult(o)
        \/ continueApprovedRepositoryTask(o) \/ recordRepositoryRejection(o) \/ loadDecision(o) \/ loadEnvelope(o)
        \/ recordTaskFrameObservation(o) \/ childFails(o)
    \/ \E f \in RtFile : EditFile(f)

RtSpec == RtInit /\ [][RtNext]_rtVars

-----------------------------------------------------------------------------
(* Properties                                                              *)

\* No modification or deletion that names the content it expects overwrites what people
\* wrote after the files were read, however late it is approved and however often it is applied.
EditsKept == rtLost = {}

\* A modification that names the content it expects is in a file once at most: approving
\* twice, or two continuations at once, do not apply it a second time.
PatchedOnce ==
    \A f \in RtFile : \A k, l \in DOMAIN rtFiles[f].patches :
        rtFiles[f].patches[k].hashed /\ rtFiles[f].patches[k] = rtFiles[f].patches[l] => k = l

\* What needs an approval (a dry run, a deletion, a plan or a policy that asks for one) is
\* written only after a request of that plan's id was approved; and by a continuation only
\* if it found the approval standing, so a rejection or a new request that comes before it
\* reads the decision stops it.  The approval is of the id: a plan submitted again under
\* one id takes the place of the one that was shown, and may be applied by an approval
\* meant for that.
ApprovedFirst == ~rtEarly

\* While the row awaits approval, the request it names can be decided and has an envelope
\* to go on with, in whatever order submissions, decisions and notes overlap.
AwaitingHasEnvelope ==
    rtRow.phase = "awaiting_approval" =>
        rtRow.request \in RtPlanId /\ rtDecision[rtRow.request] # "none" /\ rtEnvelope[rtRow.request] # RtNoPlan

\* A row says completed only when the verification it reports passed, also when a note
\* brings back an older row.
CompletedPassed == rtRow.status = "completed" => rtRow.passed

\* A repository task is held to its approvals: no compared operation lands twice or over
\* an edit, what needs approval waits for one of its request, a row that waits can go on,
\* and completed means verified.
PatchesHeldToApproval ==
  /\ EditsKept
  /\ PatchedOnce
  /\ ApprovedFirst
  /\ AwaitingHasEnvelope
  /\ CompletedPassed
=============================================================================
