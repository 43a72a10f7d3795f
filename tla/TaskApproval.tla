---------------------------- MODULE TaskApproval ----------------------------
(***************************************************************************)
(* Project and task reconciliation with approval continuations:            *)
(* workflows/project-reconciler.ts, workflows/task-reconciler.ts,          *)
(* workflows/task-continuation.ts, and the approval calls of               *)
(* hatchet/workflow-client.ts, over the status and approval tables of      *)
(* storage/sqlite-state-store.ts.                                          *)
(*                                                                         *)
(* A submission is one run of the project workflow; it awaits the task     *)
(* workflow of one planned task after the other.  A call is one            *)
(* approveTask or rejectTask together with the continuation workflow that  *)
(* an approval may start.  Actions end where the code awaits a child       *)
(* workflow or the store.  Project, task run and approval ids are          *)
(* deterministic, so a second submission of the same goal shares the rows  *)
(* of the first.                                                           *)
(*                                                                         *)
(* The language model is external: the plan and the artifact it answers    *)
(* with are arbitrary, and the same for every submission of the goal.      *)
(* Left out: observations, messages, and the defensive branches of the     *)
(* continuation for a missing or foreign context (a continuation is        *)
(* started with the ids of a context that is never deleted).               *)
(***************************************************************************)
EXTENDS Naturals, Sequences, FiniteSets

CONSTANTS
  Submission,   \* submissions of one goal
  Call,         \* approveTask and rejectTask calls
  CallKind,     \* the kinds of calls that clients make
  MaxTasks,     \* bounds.max_tasks_per_project
  MaxIntents,   \* bounds.max_execution_intents_per_task
  MaxAttempts,  \* bounds.max_total_endpoint_attempts
  Plans,        \* the plans the model may answer with
  Artifacts,    \* the artifacts the model may answer with
  MaxAborts     \* bound on workflows and submissions that throw

Task == 1 .. MaxTasks

\* The workflows that execute intents.
Actor == Submission \cup Call

(***************************************************************************)
(* invalid: fails validateIntentForSnapshot.  denied: outside the          *)
(* delegated allowance, scopes or risk.  gated: needs an approval.         *)
(***************************************************************************)
IntentKind == {"invalid", "denied", "gated", "open"}

ASSUME ConstantsAssumption ==
  /\ CallKind \subseteq {"approve", "reject"}
  /\ Submission \cap Call = {}
  /\ MaxTasks \in Nat \ {0}
  /\ {MaxIntents, MaxAttempts, MaxAborts} \subseteq Nat
  /\ Plans \subseteq [valid : BOOLEAN, tasks : Nat]
  /\ Artifacts \subseteq [sound : BOOLEAN, intents : Seq(IntentKind)]

TaskStatus    == {"yielded", "failed", "completed", "completed_with_errors", "requires_approval"}
RowStatus     == {"none", "running"} \cup TaskStatus
ProjectStatus == {"none", "planning", "running"} \cup TaskStatus
Decision      == {"none", "requested", "approved", "rejected"}

VARIABLES
  planned,     \* the ExecutionPlan of the goal
  artifact,    \* the CognitiveArtifact of each task
  expired,     \* has the delegation context expired?
  projectRow,  \* project_statuses
  taskRow,     \* task_statuses, by task run
  decision,    \* approval_decisions, by task run
  context,     \* continuation_contexts: the stored intent, 0 if there is none
  ran,         \* how often each intent reached its endpoint, by the workflow that executed it
  sub,         \* the project workflow runs
  call,        \* the approval calls and their continuations
  aborts

vars == <<planned, artifact, expired, projectRow, taskRow, decision, context, ran, sub, call, aborts>>
world == <<planned, artifact, expired>>
approval == <<decision, context>>

SubPc  == {"idle", "planning", "next", "artifact", "intent", "context", "critic",
           "record", "progress", "done"}
CallPc == {"idle", "approved", "rejected", "queued", "execute", "critic", "record", "done"}

Sub == [pc : SubPc, intent : Nat, executed : Nat, skipped : Nat, late : BOOLEAN,
        outcome : RowStatus, results : Seq(TaskStatus)]
CallState == [pc : CallPc, kind : {"approve", "reject"}, task : Task,
              seen : Decision, outcome : RowStatus]

TypeOK ==
  /\ planned \in Plans
  /\ artifact \in [Task -> Artifacts]
  /\ expired \in BOOLEAN
  /\ projectRow \in ProjectStatus
  /\ taskRow \in [Task -> RowStatus]
  /\ decision \in [Task -> Decision]
  /\ context \in [Task -> Nat]
  /\ ran \in [Task -> [1 .. MaxIntents -> [Actor -> Nat]]]
  /\ sub \in [Submission -> Sub]
  /\ call \in [Call -> CallState]
  /\ aborts \in 0 .. MaxAborts

Init ==
  /\ planned \in Plans
  /\ artifact \in [Task -> Artifacts]
  /\ expired = FALSE
  /\ projectRow = "none"
  /\ taskRow = [t \in Task |-> "none"]
  /\ decision = [t \in Task |-> "none"]
  /\ context = [t \in Task |-> 0]
  /\ ran = [t \in Task |-> [i \in 1 .. MaxIntents |-> [a \in Actor |-> 0]]]
  /\ sub = [s \in Submission |->
              [pc |-> "idle", intent |-> 0, executed |-> 0, skipped |-> 0,
               late |-> FALSE, outcome |-> "none", results |-> <<>>]]
  /\ call = [c \in Call |-> [pc |-> "idle", kind |-> "approve", task |-> 1,
                             seen |-> "none", outcome |-> "none"]]
  /\ aborts = 0

-----------------------------------------------------------------------------
(***************************************************************************)
(* Pure parts.                                                             *)
(***************************************************************************)
\* evaluatePolicy: the first rule that applies decides.
evaluatePolicy(kind, used, late) ==
  IF used >= MaxAttempts THEN "yield"
  ELSE IF late \/ kind = "denied" THEN "deny"
  ELSE IF kind = "gated" THEN "requires_approval" ELSE "allow"

\* Mutant: yielded tasks do not count.
aggregateStatusOptimist(results) ==
  LET some(st) == \E i \in DOMAIN results : results[i] = st
  IN  IF some("requires_approval") THEN "requires_approval"
      ELSE IF some("failed") THEN "failed"
      ELSE IF some("completed_with_errors") THEN "completed_with_errors" ELSE "completed"

aggregateStatus(results) ==
  LET some(st) == \E i \in DOMAIN results : results[i] = st
  IN  IF some("requires_approval") THEN "requires_approval"
      ELSE IF some("failed") THEN "failed"
      ELSE IF some("yielded") THEN "yielded"
      ELSE IF some("completed_with_errors") THEN "completed_with_errors" ELSE "completed"

\* The end of the intent loop.  An error that does not end the task early
\* comes with a skipped intent.
conclusion(executed, skipped) ==
  IF skipped = 0 THEN "completed" ELSE IF executed = 0 THEN "failed" ELSE "completed_with_errors"

-----------------------------------------------------------------------------
(***************************************************************************)
(* The project workflow.                                                   *)
(***************************************************************************)
\* The task that submission s works on.
At(s) == Len(sub[s].results) + 1
Intents(s) == artifact[At(s)].intents

\* submitProjectRun, up to the planning row.
submitProjectRun(s) ==
  /\ sub[s].pc = "idle"
  /\ sub' = [sub EXCEPT ![s].pc = "planning"]
  /\ projectRow' = "planning"
  /\ UNCHANGED <<world, taskRow, approval, ran, call, aborts>>

\* The plan arrives and is checked.  A plan with too many tasks ends the
\* workflow without a status row.
generateExecutionPlan(s) ==
  /\ sub[s].pc = "planning"
  /\ \/ /\ ~planned.valid
        /\ projectRow' = "failed"
        /\ sub' = [sub EXCEPT ![s].pc = "done"]
     \/ /\ planned.valid /\ planned.tasks > MaxTasks
        /\ sub' = [sub EXCEPT ![s].pc = "done"]
        /\ UNCHANGED projectRow
     \/ /\ planned.valid /\ planned.tasks <= MaxTasks
        /\ projectRow' = "running"
        /\ sub' = [sub EXCEPT ![s].pc = "next"]
  /\ UNCHANGED <<world, taskRow, approval, ran, call, aborts>>

\* The task workflow reads the clock and records its running row.
startTask(s) ==
  /\ sub[s].pc = "next"
  /\ At(s) <= planned.tasks
  /\ taskRow' = [taskRow EXCEPT ![At(s)] = "running"]
  /\ sub' = [sub EXCEPT ![s].pc = "artifact", ![s].intent = 1, ![s].executed = 0,
                        ![s].skipped = 0, ![s].late = expired]
  /\ UNCHANGED <<world, projectRow, approval, ran, call, aborts>>

\* The task workflow returns a result to the project workflow.
Return(s, status) ==
  sub' = [sub EXCEPT ![s].pc = "record", ![s].outcome = status]

\* The artifact must parse, name the snapshot and hold 1..max intents.
checkArtifact(s) ==
  /\ sub[s].pc = "artifact"
  /\ \/ /\ ~artifact[At(s)].sound \/ Len(Intents(s)) > MaxIntents
        /\ Return(s, "failed")
     \/ /\ artifact[At(s)].sound /\ Intents(s) = <<>>
        /\ Return(s, "yielded")
     \/ /\ artifact[At(s)].sound /\ Len(Intents(s)) \in 1 .. MaxIntents
        /\ sub' = [sub EXCEPT ![s].pc = "intent"]
  /\ UNCHANGED <<world, projectRow, taskRow, approval, ran, call, aborts>>

\* Mutant: skipped intents are not charged to the attempt budget.
attemptsUsedExecuted(s) == sub[s].executed

attemptsUsed(s) == sub[s].executed + sub[s].skipped

InLoop(s) == sub[s].pc = "intent" /\ sub[s].intent <= Len(Intents(s))
Kind(s)   == Intents(s)[sub[s].intent]
Policy(s) == evaluatePolicy(Kind(s), attemptsUsed(s), sub[s].late)

\* The loop moves on, with the intent listed as skipped.
Skip(s) ==
  sub' = [sub EXCEPT ![s].pc = "intent", ![s].skipped = @ + 1, ![s].intent = @ + 1]

\* An intent that does not validate, or that the policy denies, is skipped.
skipIntent(s) ==
  /\ InLoop(s)
  /\ Kind(s) = "invalid" \/ Policy(s) = "deny"
  /\ Skip(s)
  /\ UNCHANGED <<world, projectRow, taskRow, approval, ran, call, aborts>>

yieldIntent(s) ==
  /\ InLoop(s)
  /\ Kind(s) # "invalid" /\ Policy(s) = "yield"
  /\ Return(s, "yielded")
  /\ UNCHANGED <<world, projectRow, taskRow, approval, ran, call, aborts>>

\* createApprovalRequest overwrites an earlier decision on the same request.
createApprovalRequest(s) ==
  /\ InLoop(s)
  /\ Kind(s) # "invalid" /\ Policy(s) = "requires_approval"
  /\ decision' = [decision EXCEPT ![At(s)] = "requested"]
  /\ sub' = [sub EXCEPT ![s].pc = "context", ![s].skipped = @ + 1]
  /\ UNCHANGED <<world, projectRow, taskRow, context, ran, call, aborts>>

recordContinuationContext(s) ==
  /\ sub[s].pc = "context"
  /\ context' = [context EXCEPT ![At(s)] = sub[s].intent]
  /\ Return(s, "requires_approval")
  /\ UNCHANGED <<world, projectRow, taskRow, decision, ran, call, aborts>>

Reach(a, t, i) == ran' = [ran EXCEPT ![t][i][a] = @ + 1]

\* executeMcpIntent.  A failed execution may or may not have reached the
\* endpoint.
executeIntent(s) ==
  /\ InLoop(s)
  /\ Kind(s) # "invalid" /\ Policy(s) = "allow"
  /\ \/ /\ Reach(s, At(s), sub[s].intent)
        /\ sub' = [sub EXCEPT ![s].pc = "critic", ![s].executed = @ + 1]
     \/ /\ Reach(s, At(s), sub[s].intent) \/ UNCHANGED ran
        /\ Skip(s)
  /\ UNCHANGED <<world, projectRow, taskRow, approval, call, aborts>>

\* The critic passes, yields or asks for a revision, which is unsupported.
runCritic(s) ==
  /\ sub[s].pc = "critic"
  /\ \/ sub' = [sub EXCEPT ![s].pc = "intent", ![s].intent = @ + 1]
     \/ Return(s, "yielded")
  /\ UNCHANGED <<world, projectRow, taskRow, approval, ran, call, aborts>>

endTask(s) ==
  /\ sub[s].pc = "intent" /\ sub[s].intent > Len(Intents(s))
  /\ Return(s, conclusion(sub[s].executed, sub[s].skipped))
  /\ UNCHANGED <<world, projectRow, taskRow, approval, ran, call, aborts>>

\* The project workflow records the task's final row ...
recordTaskResult(s) ==
  /\ sub[s].pc = "record"
  /\ taskRow' = [taskRow EXCEPT ![At(s)] = sub[s].outcome]
  /\ sub' = [sub EXCEPT ![s].pc = "progress", ![s].results = Append(@, sub[s].outcome)]
  /\ UNCHANGED <<world, projectRow, approval, ran, call, aborts>>

\* ... and then its own progress row.
recordProgress(s) ==
  /\ sub[s].pc = "progress"
  /\ projectRow' = "running"
  /\ sub' = [sub EXCEPT ![s].pc = "next"]
  /\ UNCHANGED <<world, taskRow, approval, ran, call, aborts>>

finishProject(s) ==
  /\ sub[s].pc = "next"
  /\ At(s) > planned.tasks
  /\ projectRow' = aggregateStatus(sub[s].results)
  /\ sub' = [sub EXCEPT ![s].pc = "done"]
  /\ UNCHANGED <<world, taskRow, approval, ran, call, aborts>>

-----------------------------------------------------------------------------
(***************************************************************************)
(* Approval calls and the continuation workflow.                           *)
(***************************************************************************)
\* approveTask and rejectTask overwrite whatever decision is stored.
approveTask(c, t) ==
  /\ call[c].pc = "idle" /\ "approve" \in CallKind
  /\ decision[t] # "none"
  /\ decision' = [decision EXCEPT ![t] = "approved"]
  /\ call' = [call EXCEPT ![c].pc = "approved", ![c].kind = "approve", ![c].task = t]
  /\ UNCHANGED <<world, projectRow, taskRow, context, ran, sub, aborts>>

rejectTask(c, t) ==
  /\ call[c].pc = "idle" /\ "reject" \in CallKind
  /\ decision[t] # "none"
  /\ decision' = [decision EXCEPT ![t] = "rejected"]
  /\ call' = [call EXCEPT ![c].pc = "rejected", ![c].kind = "reject", ![c].task = t]
  /\ UNCHANGED <<world, projectRow, taskRow, context, ran, sub, aborts>>

\* A continuation is submitted only if the context is there by now.
continueApprovedTask(c) ==
  /\ call[c].pc = "approved"
  /\ call' = [call EXCEPT ![c].pc = IF context[call[c].task] # 0 THEN "queued" ELSE "done"]
  /\ UNCHANGED <<world, projectRow, taskRow, approval, ran, sub, aborts>>

recordRejection(c) ==
  /\ call[c].pc = "rejected"
  /\ taskRow' = IF context[call[c].task] # 0
                THEN [taskRow EXCEPT ![call[c].task] = "yielded"] ELSE taskRow
  /\ call' = [call EXCEPT ![c].pc = "done"]
  /\ UNCHANGED <<world, projectRow, approval, ran, sub, aborts>>

ContinueWith(c, d, status) ==
  call' = [call EXCEPT ![c].pc = "record", ![c].seen = d, ![c].outcome = status]

\* Mutant: a continuation whose approval was withdrawn never returns.
loadContinuationStuck(c) ==
  /\ call[c].pc = "queued" /\ decision[call[c].task] = "approved"
  /\ call' = [call EXCEPT ![c].pc = "execute", ![c].seen = "approved"]
  /\ UNCHANGED <<world, projectRow, taskRow, approval, ran, sub, aborts>>

\* Mutant: the continuation trusts the call that started it.
loadContinuationTrusting(c) ==
  LET d == decision[call[c].task]
  IN
  /\ call[c].pc = "queued"
  /\ \/ /\ expired
        /\ ContinueWith(c, d, "failed")
     \/ /\ ~expired
        /\ call' = [call EXCEPT ![c].pc = "execute", ![c].seen = d]
  /\ UNCHANGED <<world, projectRow, taskRow, approval, ran, sub, aborts>>

\* The continuation reads the decision again and re-evaluates the policy
\* with a fresh clock and no attempts charged.
loadContinuation(c) ==
  LET d == decision[call[c].task]
      kind == artifact[call[c].task].intents[context[call[c].task]]
      policy == evaluatePolicy(kind, 0, expired)
  IN
  /\ call[c].pc = "queued"
  /\ \/ /\ d # "approved"
        /\ ContinueWith(c, d, "yielded")
     \/ /\ d = "approved" /\ policy = "deny"
        /\ ContinueWith(c, d, "failed")
     \/ /\ d = "approved" /\ policy \in {"allow", "requires_approval"}
        /\ call' = [call EXCEPT ![c].pc = "execute", ![c].seen = d]
  /\ UNCHANGED <<world, projectRow, taskRow, approval, ran, sub, aborts>>

executeApproved(c) ==
  /\ call[c].pc = "execute"
  /\ \/ /\ Reach(c, call[c].task, context[call[c].task])
        /\ call' = [call EXCEPT ![c].pc = "critic"]
     \/ /\ Reach(c, call[c].task, context[call[c].task]) \/ UNCHANGED ran
        /\ ContinueWith(c, call[c].seen, "failed")
  /\ UNCHANGED <<world, projectRow, taskRow, approval, sub, aborts>>

criticApproved(c) ==
  /\ call[c].pc = "critic"
  /\ \E status \in {"completed", "yielded"} : ContinueWith(c, call[c].seen, status)
  /\ UNCHANGED <<world, projectRow, taskRow, approval, ran, sub, aborts>>

\* recordAndReturn
recordContinuation(c) ==
  /\ call[c].pc = "record"
  /\ taskRow' = [taskRow EXCEPT ![call[c].task] = call[c].outcome]
  /\ call' = [call EXCEPT ![c].pc = "done"]
  /\ UNCHANGED <<world, projectRow, approval, ran, sub, aborts>>

-----------------------------------------------------------------------------
(***************************************************************************)
(* The environment: the clock passes expires_at; a child workflow throws   *)
(* or a worker dies (retries: 0), or the submission of a continuation      *)
(* fails after the decision was written.                                   *)
(***************************************************************************)
expire ==
  /\ ~expired
  /\ expired' = TRUE
  /\ UNCHANGED <<planned, artifact, projectRow, taskRow, approval, ran, sub, call, aborts>>

abortProject(s) ==
  /\ aborts < MaxAborts
  /\ sub[s].pc \notin {"idle", "done"}
  /\ sub' = [sub EXCEPT ![s].pc = "done"]
  /\ aborts' = aborts + 1
  /\ UNCHANGED <<world, projectRow, taskRow, approval, ran, call>>

abortCall(c) ==
  /\ aborts < MaxAborts
  /\ call[c].pc \notin {"idle", "done"}
  /\ call' = [call EXCEPT ![c].pc = "done"]
  /\ aborts' = aborts + 1
  /\ UNCHANGED <<world, projectRow, taskRow, approval, ran, sub>>

ProjectStep(s) ==
  \/ generateExecutionPlan(s) \/ startTask(s) \/ checkArtifact(s) \/ skipIntent(s)
  \/ yieldIntent(s) \/ createApprovalRequest(s) \/ recordContinuationContext(s)
  \/ executeIntent(s) \/ runCritic(s) \/ endTask(s) \/ recordTaskResult(s)
  \/ recordProgress(s) \/ finishProject(s)

CallStep(c) ==
  \/ continueApprovedTask(c) \/ recordRejection(c) \/ loadContinuation(c)
  \/ executeApproved(c) \/ criticApproved(c) \/ recordContinuation(c)

Next ==
  \/ \E s \in Submission : submitProjectRun(s) \/ ProjectStep(s) \/ abortProject(s)
  \/ \E c \in Call : CallStep(c) \/ abortCall(c)
  \/ \E c \in Call, t \in Task : approveTask(c, t) \/ rejectTask(c, t)
  \/ expire

Spec == Init /\ [][Next]_vars

(***************************************************************************)
(* A worker that is up finishes the workflow it started, and a control     *)
(* call that began runs to its end.  Clients need not submit or decide.    *)
(***************************************************************************)
FairSpec ==
  /\ Spec
  /\ \A s \in Submission : WF_vars(ProjectStep(s))
  /\ \A c \in Call : WF_vars(CallStep(c))

-----------------------------------------------------------------------------
(***************************************************************************)
(* Properties.                                                             *)
(***************************************************************************)
Intent(t) == {i \in 1 .. MaxIntents : i <= Len(artifact[t].intents)}
Reached(t, i) == \E a \in Actor : ran[t][i][a] > 0
Quiet == /\ \A s \in Submission : sub[s].pc \in {"idle", "done"}
         /\ \A c \in Call : call[c].pc \in {"idle", "done"}

\* An intent that needs an approval reaches its endpoint only by a
\* continuation that itself read the decision "approved", and each of those
\* executes one intent once: an approval withdrawn before its continuation
\* loads runs nothing, and no other path (a second submission, a call that is
\* repeated) executes it.
ApprovalGates ==
  \A t \in Task : \A i \in Intent(t), a \in Actor :
    artifact[t].intents[i] = "gated" /\ ran[t][i][a] > 0 =>
      /\ a \in Call /\ call[a].task = t /\ call[a].seen = "approved"
      /\ ran[t][i][a] = 1 /\ \A j \in Intent(t) : ran[t][j][a] > 0 => j = i

\* What the gate rejects never runs: an invalid or denied intent reaches no
\* endpoint, through the task workflow or through a continuation.
DeniedNeverRuns ==
  \A t \in Task : \A i \in Intent(t) :
    artifact[t].intents[i] \in {"invalid", "denied"} => ~Reached(t, i)

\* One submission makes at most max_total_endpoint_attempts executions for a
\* task, failed attempts included, and no intent twice.
BudgetRespected ==
  \A t \in Task, s \in Submission :
    /\ \A i \in Intent(t) : ran[t][i][s] <= 1
    /\ Cardinality({i \in Intent(t) : ran[t][i][s] > 0}) <= MaxAttempts

\* A task whose row says completed did what it says: every intent of its
\* artifact ran, or the intent it stored for approval did; with errors, at
\* least one intent ran.
CompletedMeansRan ==
  \A t \in Task :
    /\ taskRow[t] = "completed" =>
         \/ \A i \in Intent(t) : Reached(t, i)
         \/ context[t] # 0 /\ Reached(t, context[t])
    /\ taskRow[t] = "completed_with_errors" => \E i \in Intent(t) : Reached(t, i)

\* A task that waits for approval can be decided on: the request exists and
\* the context a continuation needs is stored, so a decision takes effect.
AwaitingIsActionable ==
  \A t \in Task : taskRow[t] = "requires_approval" => decision[t] # "none" /\ context[t] # 0

\* With one submission, the project row never claims more than the rows of
\* its tasks: completed means every planned task completed.
ProjectRowTruthful ==
  projectRow = "completed" => \A t \in 1 .. planned.tasks : taskRow[t] = "completed"

\* Rows at rest tell of the work: after a submission ended normally, no
\* task row is left at running.
NoRowLeftRunning ==
  Quiet /\ aborts = 0 => \A t \in Task : taskRow[t] # "running"

\* Every submission whose workflow starts ends, and its project row is
\* final unless the plan was over the task bound.
ProjectSettles ==
  \A s \in Submission : sub[s].pc # "idle" ~>
    (sub[s].pc = "done" /\ (projectRow \in TaskStatus \/ planned.tasks > MaxTasks))

\* An approval that found the context leads to a continuation result: the
\* call ends having loaded the decision.
ApprovedContinues ==
  \A c \in Call : call[c].pc = "queued" ~> (call[c].pc = "done" /\ call[c].seen # "none")

\* The rows observers read never claim more than was done, nor hide that it
\* ended.
RowsTruthful == ProjectRowTruthful /\ NoRowLeftRunning /\ CompletedMeansRan

\* A task stays within its delegation: its attempts and its policy.
WithinItsBounds == BudgetRespected /\ DeniedNeverRuns

\* Submissions and approved continuations come to an end.
TasksSettle == ProjectSettles /\ ApprovedContinues

\* With overlapping submissions the approvals stay in force: an intent that
\* needs one runs under one, and a row that waits for one can be decided on.
ApprovalsInForce == TypeOK /\ ApprovalGates /\ AwaitingIsActionable

\* docs/run-local.md: "Rejection records the decision and leaves the task
\* yielded safely."  Once everything is at rest, a rejected task is yielded.
RejectionStays ==
  \A t \in Task : Quiet /\ decision[t] = "rejected" => taskRow[t] = "yielded"
=============================================================================
