----------------------------- MODULE DurableRun -----------------------------
(***************************************************************************)
(* The durable run control plane (packages/core/src/planning/              *)
(* control-plane.ts) together with the PlanRunner it drives                *)
(* (planning/plan-runner.ts), over the state store they share.             *)
(*                                                                         *)
(* A ticket is one call of the control API: createRunFromPlanfile, a       *)
(* non-live applyPlanfile, resumeRun, retryRunNode, cancelRun,             *)
(* approvePlan or rejectPlan.  A ticket that                               *)
(* executes something is submitted to a worker: the Hatchet worker process *)
(* or, when the submission fails, the calling process itself.  Every       *)
(* action ends at an await on the store, so that calls and workers of      *)
(* different processes interleave there.  All runs are runs of one plan:   *)
(* the store keeps plan states by plan_id, not by run_id.                  *)
(*                                                                         *)
(* Left out: artifact references (the reuse flag of resetPlanNodeState     *)
(* only keeps a list that markNode overwrites before any node reads it),   *)
(* timestamps and the Markdown projection.                                 *)
(***************************************************************************)
EXTENDS Naturals, FiniteSets

CONSTANTS
  Run,            \* run ids
  Ticket,         \* calls of the control API
  NodeCount,      \* plan.nodes.length
  DependsOn,      \* node.depends_on
  Class,          \* how PlanRunner dispatches the node
  SideEffecting,  \* nodes of risk write, external_side_effect, destructive
  Refreshable,    \* read-risk nodes of a refreshable kind
  Calls,          \* the kinds of calls that clients make
  Overlap,        \* may a call start while another one is in progress?
  Hatchet,        \* is HATCHET_CLIENT_TOKEN set?
  LostReply,      \* kinds of calls whose submission may succeed while its reply is lost
  MaxAborts       \* bound on workers that die or throw

Node == 1 .. NodeCount

CallKind == {"create", "apply", "resume", "retry", "cancel", "approve", "reject"}

ASSUME ConstantsAssumption ==
  /\ Run # {}
  /\ NodeCount \in Nat \ {0}
  /\ DependsOn \in [Node -> SUBSET Node]
  /\ Class \in [Node -> {"structural", "capability", "unhandled"}]
  /\ SideEffecting \subseteq Node
  /\ Refreshable \subseteq Node
  /\ Calls \subseteq CallKind
  /\ {Overlap, Hatchet} \subseteq BOOLEAN
  /\ LostReply \subseteq CallKind
  /\ MaxAborts \in Nat

Lane   == {"hatchet", "local"}
Worker == Ticket \X Lane

ReplayMode == {"reuse_artifacts", "refresh_artifacts", "force_new_idempotency_key"}

(***************************************************************************)
(* The plan state row and the copies of it that calls and workers hold     *)
(* across awaits.                                                          *)
(***************************************************************************)
NodeStatus == {"pending", "ready", "running", "completed", "skipped", "failed", "yielded"}
PlanStatus == {"absent", "pending", "running", "completed", "failed", "yielded"}
Outcome    == {"completed", "failed", "yielded"}
Done       == {"completed", "skipped"}
Begun      == {"running", "completed", "skipped", "failed", "yielded"}

PlanCopy == [status : PlanStatus, node : [Node -> NodeStatus]]

createInitialPlanState(status) ==
  [status |-> status,
   node   |-> [n \in Node |-> IF DependsOn[n] = {} THEN "ready" ELSE "pending"]]

\* Mutant: nodes that are done stay eligible.
readyNodesAgain(c) == {n \in Node : \A d \in DependsOn[n] : c.node[d] \in Done}

\* PlanRunner.readyNodes, and its first element in plan order.
readyNodes(c) ==
  {n \in Node : /\ c.node[n] \in {"pending", "ready"}
                /\ \A d \in DependsOn[n] : c.node[d] \in Done}

firstReady(c) == CHOOSE n \in readyNodes(c) : \A m \in readyNodes(c) : n <= m

\* PlanRunner.markNodeRunning
markNodeRunning(c, n) ==
  [status |-> "running", node |-> [c.node EXCEPT ![n] = "running"]]

\* Mutant: the plan is completed as soon as some node is done.
markNodeSome(c, n, s) ==
  LET nodes == [c.node EXCEPT ![n] = s]
  IN  [node   |-> nodes,
       status |-> IF s \in {"failed", "yielded"} THEN s
                  ELSE IF \E m \in Node : nodes[m] \in Done THEN "completed" ELSE "running"]

\* PlanRunner.markNode: the node's status and the plan status it implies.
markNode(c, n, s) ==
  LET nodes == [c.node EXCEPT ![n] = s]
  IN  [node   |-> nodes,
       status |-> CASE s = "failed"  -> "failed"
                    [] s = "yielded" -> "yielded"
                    [] OTHER -> IF \A m \in Node : nodes[m] \in Done
                                THEN "completed" ELSE "running"]

\* Mutant: one round of the loop, so only direct dependents.
dependentNodeIdsDirect(n) == {n} \cup {k \in Node : n \in DependsOn[k]}

\* dependentNodeIds: the least set that holds n and every node that depends
\* on a member (the fixpoint its while loop reaches).
dependentNodeIds(n) ==
  {m \in Node : \A S \in SUBSET Node :
      (/\ n \in S
       /\ \A k \in Node : DependsOn[k] \cap S # {} => k \in S) => m \in S}

\* Mutant: the retried node is reset only if it yielded or failed.
resetForRetryStopped(c, n) ==
  [status |-> "running",
   node   |-> [m \in Node |-> IF m = n /\ c.node[m] \in {"yielded", "failed"} THEN "ready"
                              ELSE c.node[m]]]

\* The reset that executeRunContinuation applies before it runs the plan.
resetForRetry(c, n) ==
  [status |-> "running",
   node   |-> [m \in Node |-> IF m = n THEN "ready"
                              ELSE IF m \in dependentNodeIds(n) THEN "pending"
                              ELSE c.node[m]]]

\* Mutant: a run status is written into the plan state.
resetForResumeQueued(c) ==
  [status |-> "queued",
   node   |-> [m \in Node |-> IF c.node[m] \in {"yielded", "failed"}
                              THEN "ready" ELSE c.node[m]]]

resetForResume(c) ==
  [status |-> "running",
   node   |-> [m \in Node |-> IF c.node[m] \in {"yielded", "failed"}
                              THEN "ready" ELSE c.node[m]]]

\* evaluateNodeReplayPolicy
replayAllowed(n, m) == m = "refresh_artifacts" => n \in Refreshable
replayNeedsApproval(n, m) == m = "force_new_idempotency_key" /\ n \in SideEffecting

\* The outcomes a node can have, by how runToCompletion dispatches it: a
\* frame node completes, a capability step ends in any status, and a node
\* with neither yields because the live runner registers no handler.
outcomesOf(n) ==
  CASE Class[n] = "structural" -> {"completed"}
    [] Class[n] = "capability" -> Outcome
    [] OTHER                   -> {"yielded"}

-----------------------------------------------------------------------------
VARIABLES
  record,        \* run_executions: status of each run, "absent" before it exists
  plan,          \* plan_states: the one row of the plan
  continuation,  \* run_continuations: status of the continuation of a ticket
  attempts,      \* node_attempts
  terminal,      \* run_events: the last terminal event of each run
  started,       \* run_events: is there a run.started or node.started event?
  req,           \* arguments of each call
  apc,           \* where each call stands
  apiPlan,       \* plan state read by approvePlan and rejectPlan
  number,        \* attempt number computed by retryRunNode
  wpc,           \* where each worker stands
  wplan,         \* the worker's local copy of the plan state
  wnode,         \* node the worker executes
  ran,           \* history: nodes that came to an outcome in the worker's hands
  index,         \* loop counter of runToCompletion
  snap,          \* snapshot.status held by executeStoredRun
  aborts         \* workers lost so far

store   == <<record, plan, continuation, attempts, terminal, started>>
callers == <<req, apc, apiPlan, number>>
local   == <<wplan, wnode, ran, index, snap>>
workers == <<wpc, local, aborts>>
vars    == <<store, callers, workers>>

TerminalStatus == {"completed", "failed", "yielded", "cancelled"}
RunStatus == TerminalStatus \cup {"queued", "running"}
ContinuationStatus == {"absent", "queued", "running", "completed", "failed"}

ApiPc == {"idle", "canonical", "submit", "stamp", "attempt", "queue", "announce", "decide", "done"}
WorkerPc == {"idle", "read", "reset", "begin", "execute", "load", "pick", "exec",
             "conclude", "flush", "snapshot", "finalize", "settle",
             "cancel", "settled", "cancelled", "done", "dead"}

Request == [kind : CallKind, run : Run, node : Node, mode : ReplayMode]
Attempt == [ticket : Ticket, run : Run, node : Node, number : Nat,
            status : {"running", "requires_approval"}]

\* One type invariant: the shape of the store, the calls and the workers.
TypeOK ==
  /\ record \in [Run -> RunStatus \cup {"absent"}]
  /\ plan \in PlanCopy
  /\ continuation \in [Ticket -> ContinuationStatus]
  /\ attempts \subseteq Attempt
  /\ terminal \in [Run -> TerminalStatus \cup {"none"}]
  /\ started \in [Run -> BOOLEAN]
  /\ req \in [Ticket -> Request]
  /\ apc \in [Ticket -> ApiPc]
  /\ apiPlan \in [Ticket -> PlanCopy]
  /\ number \in [Ticket -> Nat]
  /\ wpc \in [Worker -> WorkerPc]
  /\ wplan \in [Worker -> PlanCopy]
  /\ wnode \in [Worker -> Node]
  /\ ran \in [Worker -> SUBSET Node]
  /\ index \in [Worker -> Nat]
  /\ snap \in [Worker -> RunStatus]
  /\ aborts \in 0 .. MaxAborts

BlankPlan == createInitialPlanState("absent")

Init ==
  /\ record = [r \in Run |-> "absent"]
  /\ plan = BlankPlan
  /\ continuation = [t \in Ticket |-> "absent"]
  /\ attempts = {}
  /\ terminal = [r \in Run |-> "none"]
  /\ started = [r \in Run |-> FALSE]
  /\ req = [t \in Ticket |-> [kind |-> "create", run |-> CHOOSE r \in Run : TRUE,
                              node |-> 1, mode |-> "reuse_artifacts"]]
  /\ apc = [t \in Ticket |-> "idle"]
  /\ apiPlan = [t \in Ticket |-> BlankPlan]
  /\ number = [t \in Ticket |-> 0]
  /\ wpc = [w \in Worker |-> "idle"]
  /\ wplan = [w \in Worker |-> BlankPlan]
  /\ wnode = [w \in Worker |-> 1]
  /\ ran = [w \in Worker |-> {}]
  /\ index = [w \in Worker |-> 0]
  /\ snap = [w \in Worker |-> "queued"]
  /\ aborts = 0

WorkerIdle(w) == wpc[w] \in {"idle", "done", "dead"}

\* No call and no worker is in progress.
AtRest ==
  /\ \A t \in Ticket : apc[t] \in {"idle", "done"}
  /\ \A w \in Worker : WorkerIdle(w)

runOf(w)  == req[w[1]].run
kindOf(w) == req[w[1]].kind

\* runStatus of run-snapshot-builder.ts, over the events of run r.
runStatus(r) ==
  CASE terminal[r] # "none" -> terminal[r]
    [] terminal[r] = "none" /\ started[r] -> "running"
    [] OTHER -> IF plan.status \in {"completed", "failed", "yielded", "running"}
                THEN plan.status ELSE "queued"

-----------------------------------------------------------------------------
(***************************************************************************)
(* The control API.                                                        *)
(***************************************************************************)
mayCall(t, kind) == kind \in Calls /\ apc[t] = "idle" /\ (Overlap \/ AtRest)

place(t, kind, r, n, m, pc) ==
  /\ req' = [req EXCEPT ![t] = [kind |-> kind, run |-> r, node |-> n, mode |-> m]]
  /\ apc' = [apc EXCEPT ![t] = pc]

\* createRunFromPlanfile and applyPlanfile, up to the plan state row.
prepareRunState(t, r, kind) ==
  /\ mayCall(t, kind)
  /\ record[r] = "absent"
  /\ \A u \in Ticket : apc[u] # "idle" /\ req[u].run = r => req[u].kind \notin {"create", "apply"}
  /\ place(t, kind, r, 1, "reuse_artifacts", "canonical")
  /\ plan' = createInitialPlanState("pending")
  /\ UNCHANGED <<record, continuation, attempts, terminal, started, apiPlan, number, workers>>

recordCanonicalRun(t) ==
  /\ apc[t] = "canonical"
  /\ record' = [record EXCEPT ![req[t].run] = "queued"]
  /\ apc' = [apc EXCEPT ![t] = IF req[t].kind = "create" THEN "submit" ELSE "done"]
  /\ UNCHANGED <<plan, continuation, attempts, terminal, started, req, apiPlan, number, workers>>

resumeRun(t, r) ==
  /\ mayCall(t, "resume")
  /\ record[r] # "absent"
  /\ place(t, "resume", r, 1, "reuse_artifacts", "submit")
  /\ continuation' = [continuation EXCEPT ![t] = "queued"]
  /\ UNCHANGED <<record, plan, attempts, terminal, started, apiPlan, number, workers>>

\* retryRunNode up to the read of the earlier attempts.
retryRunNode(t, r, n, m) ==
  /\ mayCall(t, "retry")
  /\ record[r] # "absent"
  /\ replayAllowed(n, m)
  /\ place(t, "retry", r, n, m, "attempt")
  /\ number' = [number EXCEPT ![t] =
                  Cardinality({a \in attempts : a.run = r /\ a.node = n}) + 1]
  /\ UNCHANGED <<store, apiPlan, workers>>

recordNodeAttempt(t) ==
  /\ apc[t] = "attempt"
  /\ attempts' = attempts \cup
       {[ticket |-> t, run |-> req[t].run, node |-> req[t].node, number |-> number[t],
         status |-> IF replayNeedsApproval(req[t].node, req[t].mode)
                    THEN "requires_approval" ELSE "running"]}
  /\ continuation' = [continuation EXCEPT ![t] = "queued"]
  /\ apc' = [apc EXCEPT ![t] = "submit"]
  /\ UNCHANGED <<record, plan, terminal, started, req, apiPlan, number, workers>>

cancelRun(t, r) ==
  /\ mayCall(t, "cancel")
  /\ record[r] # "absent"
  /\ place(t, "cancel", r, 1, "reuse_artifacts", "queue")
  /\ record' = [record EXCEPT ![r] = "cancelled"]
  /\ UNCHANGED <<plan, continuation, attempts, terminal, started, apiPlan, number, workers>>

queueCancel(t) ==
  /\ apc[t] = "queue"
  /\ continuation' = [continuation EXCEPT ![t] = "queued"]
  /\ apc' = [apc EXCEPT ![t] = "announce"]
  /\ UNCHANGED <<record, plan, attempts, terminal, started, req, apiPlan, number, workers>>

announceCancel(t) ==
  /\ apc[t] = "announce"
  /\ terminal' = [terminal EXCEPT ![req[t].run] = "cancelled"]
  /\ apc' = [apc EXCEPT ![t] = "submit"]
  /\ UNCHANGED <<record, plan, continuation, attempts, started, req, apiPlan, number, workers>>

\* Where the worker of a ticket enters: executeStoredRun,
\* executeRunContinuation or executeRunCancellation.
entry(t) == CASE req[t].kind = "create" -> "execute"
              [] req[t].kind = "cancel" -> "cancel"
              [] OTHER -> "read"

\* The submission reached Hatchet, and its run id came back.
submitHatchet(t) ==
  /\ Hatchet
  /\ apc[t] = "submit"
  /\ apc' = [apc EXCEPT ![t] = "stamp"]
  /\ wpc' = [wpc EXCEPT ![<<t, "hatchet">>] = entry(t)]
  /\ UNCHANGED <<store, req, apiPlan, number, local, aborts>>

\* The submission failed and was caught: the calling process executes.
submitLocal(t) ==
  /\ apc[t] = "submit"
  /\ apc' = [apc EXCEPT ![t] = "done"]
  /\ wpc' = [wpc EXCEPT ![<<t, "local">>] = entry(t)]
  /\ UNCHANGED <<store, req, apiPlan, number, local, aborts>>

\* The submission reached Hatchet but the reply was lost: both execute.
submitTwice(t) ==
  /\ Hatchet /\ req[t].kind \in LostReply
  /\ apc[t] = "submit"
  /\ apc' = [apc EXCEPT ![t] = "done"]
  /\ wpc' = [wpc EXCEPT ![<<t, "local">>] = entry(t), ![<<t, "hatchet">>] = entry(t)]
  /\ UNCHANGED <<store, req, apiPlan, number, local, aborts>>

\* The record is written again with the Hatchet run id, from the copy made
\* before the submission.
stampHatchetRun(t) ==
  /\ apc[t] = "stamp"
  /\ IF req[t].kind = "create"
     THEN /\ record' = [record EXCEPT ![req[t].run] = "running"]
          /\ UNCHANGED continuation
     ELSE /\ continuation' = [continuation EXCEPT ![t] = "queued"]
          /\ UNCHANGED record
  /\ apc' = [apc EXCEPT ![t] = "done"]
  /\ UNCHANGED <<plan, attempts, terminal, started, req, apiPlan, number, workers>>

\* approvePlan and rejectPlan read the plan state and write it back.
readPlanForDecision(t, kind) ==
  /\ mayCall(t, kind)
  /\ plan.status # "absent"
  /\ place(t, kind, req[t].run, 1, "reuse_artifacts", "decide")
  /\ apiPlan' = [apiPlan EXCEPT ![t] = plan]
  /\ UNCHANGED <<store, number, workers>>

recordPlanDecision(t) ==
  /\ apc[t] = "decide"
  /\ plan' = IF req[t].kind = "reject"
             THEN [apiPlan[t] EXCEPT !.status = "yielded"] ELSE apiPlan[t]
  /\ apc' = [apc EXCEPT ![t] = "done"]
  /\ UNCHANGED <<record, continuation, attempts, terminal, started, req, apiPlan, number, workers>>

Api(t) ==
  \/ \E r \in Run :
       \/ prepareRunState(t, r, "create")
       \/ prepareRunState(t, r, "apply")
       \/ resumeRun(t, r)
       \/ \E n \in Node, m \in ReplayMode : retryRunNode(t, r, n, m)
       \/ cancelRun(t, r)
  \/ readPlanForDecision(t, "approve")
  \/ readPlanForDecision(t, "reject")

\* The calling process dies between two awaits; what it recorded stays.
abandonCall(t) ==
  /\ apc[t] \notin {"idle", "done"}
  /\ aborts < MaxAborts
  /\ aborts' = aborts + 1
  /\ apc' = [apc EXCEPT ![t] = "done"]
  /\ UNCHANGED <<store, req, apiPlan, number, wpc, local>>

ApiStep(t) ==
  \/ recordCanonicalRun(t)
  \/ recordNodeAttempt(t)
  \/ queueCancel(t) \/ announceCancel(t)
  \/ submitHatchet(t) \/ submitLocal(t) \/ submitTwice(t)
  \/ stampHatchetRun(t)
  \/ recordPlanDecision(t)

-----------------------------------------------------------------------------
(***************************************************************************)
(* The worker: executeRunContinuation, executeStoredRun around             *)
(* PlanRunner.runToCompletion, and executeRunCancellation.                 *)
(***************************************************************************)
goto(w, pc) == wpc' = [wpc EXCEPT ![w] = pc]

\* What a worker holds in memory is gone when it returns.
release(w) ==
  /\ wplan' = [wplan EXCEPT ![w] = BlankPlan]
  /\ wnode' = [wnode EXCEPT ![w] = 1]
  /\ ran' = [ran EXCEPT ![w] = {}]
  /\ index' = [index EXCEPT ![w] = 0]
  /\ snap' = [snap EXCEPT ![w] = "queued"]

readContinuation(w) ==
  /\ wpc[w] = "read"
  /\ wplan' = [wplan EXCEPT ![w] = plan]
  /\ goto(w, "reset")
  /\ UNCHANGED <<store, callers, wnode, ran, index, snap, aborts>>

resetPlan(w) ==
  /\ wpc[w] = "reset"
  /\ plan' = IF kindOf(w) = "retry" THEN resetForRetry(wplan[w], req[w[1]].node)
             ELSE resetForResume(wplan[w])
  /\ goto(w, "begin")
  /\ UNCHANGED <<record, continuation, attempts, terminal, started, callers, local, aborts>>

beginContinuation(w) ==
  /\ wpc[w] = "begin"
  /\ continuation' = [continuation EXCEPT ![w[1]] = "running"]
  /\ goto(w, "execute")
  /\ UNCHANGED <<record, plan, attempts, terminal, started, callers, local, aborts>>

executeStoredRun(w) ==
  /\ wpc[w] = "execute"
  /\ record' = [record EXCEPT ![runOf(w)] = "running"]
  /\ goto(w, "load")
  /\ UNCHANGED <<plan, continuation, attempts, terminal, started, callers, local, aborts>>

\* runToCompletion reads the plan state and emits run.started.
loadPlan(w) ==
  /\ wpc[w] = "load"
  /\ wplan' = [wplan EXCEPT ![w] = plan]
  /\ ran' = [ran EXCEPT ![w] = {}]
  /\ index' = [index EXCEPT ![w] = 0]
  /\ started' = [started EXCEPT ![runOf(w)] = TRUE]
  /\ goto(w, "pick")
  /\ UNCHANGED <<record, plan, continuation, attempts, terminal, callers, wnode, snap, aborts>>

LoopBound == NodeCount + 2

startNode(w) ==
  /\ wpc[w] = "pick"
  /\ index[w] < LoopBound
  /\ readyNodes(wplan[w]) # {}
  /\ LET n == firstReady(wplan[w])
         c == markNodeRunning(wplan[w], n)
     IN  /\ wnode' = [wnode EXCEPT ![w] = n]
         /\ wplan' = [wplan EXCEPT ![w] = c]
         /\ plan' = c
  /\ index' = [index EXCEPT ![w] = @ + 1]
  /\ goto(w, "exec")
  /\ UNCHANGED <<record, continuation, attempts, terminal, started, callers, ran, snap, aborts>>

finishNode(w, s) ==
  /\ wpc[w] = "exec"
  /\ s \in outcomesOf(wnode[w])
  /\ LET c == markNode(wplan[w], wnode[w], s)
     IN  /\ wplan' = [wplan EXCEPT ![w] = c]
         /\ plan' = c
         /\ goto(w, IF c.status = "running" THEN "pick" ELSE "conclude")
  /\ ran' = [ran EXCEPT ![w] = @ \cup {wnode[w]}]
  /\ UNCHANGED <<record, continuation, attempts, terminal, started, callers, wnode, index, snap, aborts>>

stopLoop(w) ==
  /\ wpc[w] = "pick"
  /\ readyNodes(wplan[w]) = {} \/ index[w] >= LoopBound
  /\ goto(w, "conclude")
  /\ UNCHANGED <<store, callers, local, aborts>>

\* run.completed, run.failed or run.yielded; nothing for any other status.
conclude(w) ==
  /\ wpc[w] = "conclude"
  /\ terminal' = IF wplan[w].status \in Outcome
                 THEN [terminal EXCEPT ![runOf(w)] = wplan[w].status] ELSE terminal
  /\ goto(w, "flush")
  /\ UNCHANGED <<record, plan, continuation, attempts, started, callers, local, aborts>>

\* The last recordPlanState of executeLiveLocalPlanfile, from the local copy.
flushPlan(w) ==
  /\ wpc[w] = "flush"
  /\ plan' = wplan[w]
  /\ goto(w, "snapshot")
  /\ UNCHANGED <<record, continuation, attempts, terminal, started, callers, local, aborts>>

takeSnapshot(w) ==
  /\ wpc[w] = "snapshot"
  /\ snap' = [snap EXCEPT ![w] = runStatus(runOf(w))]
  /\ goto(w, "finalize")
  /\ UNCHANGED <<store, callers, wplan, wnode, ran, index, aborts>>

\* Mutant: the final status is not written to the run record.
finalizeRecordLost(w) ==
  /\ wpc[w] = "finalize"
  /\ IF kindOf(w) = "create"
     THEN goto(w, "done") /\ release(w)
     ELSE goto(w, "settle") /\ UNCHANGED local
  /\ UNCHANGED <<store, callers, aborts>>

finalizeRecord(w) ==
  /\ wpc[w] = "finalize"
  /\ record' = [record EXCEPT ![runOf(w)] = snap[w]]
  /\ IF kindOf(w) = "create"
     THEN goto(w, "done") /\ release(w)
     ELSE goto(w, "settle") /\ UNCHANGED local
  /\ UNCHANGED <<plan, continuation, attempts, terminal, started, callers, aborts>>

settleContinuation(w) ==
  /\ wpc[w] = "settle"
  /\ continuation' = [continuation EXCEPT ![w[1]] =
                        IF snap[w] = "failed" THEN "failed" ELSE "completed"]
  /\ goto(w, "done")
  /\ release(w)
  /\ UNCHANGED <<record, plan, attempts, terminal, started, callers, aborts>>

executeRunCancellation(w) ==
  /\ wpc[w] = "cancel"
  /\ record' = [record EXCEPT ![runOf(w)] = "cancelled"]
  /\ goto(w, "settled")
  /\ UNCHANGED <<plan, continuation, attempts, terminal, started, callers, local, aborts>>

completeCancellation(w) ==
  /\ wpc[w] = "settled"
  /\ continuation' = [continuation EXCEPT ![w[1]] = "completed"]
  /\ goto(w, "cancelled")
  /\ UNCHANGED <<record, plan, attempts, terminal, started, callers, local, aborts>>

settleCancellation(w) ==
  /\ wpc[w] = "cancelled"
  /\ terminal' = [terminal EXCEPT ![runOf(w)] = "cancelled"]
  /\ goto(w, "done")
  /\ UNCHANGED <<record, plan, continuation, attempts, started, callers, local, aborts>>

\* The worker throws or its process dies: nothing catches it but
\* catch(() => undefined), and the workflows declare no retries.
abortWorker(w) ==
  /\ ~ WorkerIdle(w)
  /\ aborts < MaxAborts
  /\ aborts' = aborts + 1
  /\ goto(w, "dead")
  /\ release(w)
  /\ UNCHANGED <<store, callers>>

WorkerStep(w) ==
  \/ readContinuation(w) \/ resetPlan(w) \/ beginContinuation(w)
  \/ executeStoredRun(w) \/ loadPlan(w)
  \/ startNode(w) \/ stopLoop(w)
  \/ \E s \in Outcome : finishNode(w, s)
  \/ conclude(w) \/ flushPlan(w) \/ takeSnapshot(w)
  \/ finalizeRecord(w) \/ settleContinuation(w)
  \/ executeRunCancellation(w) \/ completeCancellation(w) \/ settleCancellation(w)

Next ==
  \/ \E t \in Ticket : Api(t) \/ ApiStep(t) \/ abandonCall(t)
  \/ \E w \in Worker : WorkerStep(w) \/ abortWorker(w)

Spec == Init /\ [][Next]_vars

\* A call that was accepted goes on to its end and a worker that was handed
\* a job keeps taking steps; nobody has to make a call.
Fairness ==
  /\ \A t \in Ticket : WF_vars(ApiStep(t))
  /\ \A w \in Worker : WF_vars(WorkerStep(w))

FairSpec == Spec /\ Fairness

-----------------------------------------------------------------------------
(***************************************************************************)
(* Properties of every interleaving, crash and lost reply.                 *)
(***************************************************************************)
Ordered(c) ==
  \A n \in Node : c.node[n] \in Begun => \A d \in DependsOn[n] : c.node[d] \in Done

\* Whatever calls and workers overlap, and although each writes back a copy
\* of the whole plan state that may be stale, the stored plan state never
\* shows a node that has begun while a node it depends on is not done.
DependencyOrder == Ordered(plan)

Meaningful(c) ==
  /\ c.status = "completed" => \A n \in Node : c.node[n] \in Done
  /\ c.status = "failed" => \E n \in Node : c.node[n] = "failed"

\* The status of the stored plan state is never stale against its nodes:
\* completed means that every node is done, failed that some node failed.
\* (A yielded plan may also be one that rejectPlan turned down.)
PlanStatusMeaning == Meaningful(plan)

\* The loop bound of runToCompletion (nodes + 2) never ends a run early: a
\* worker takes at most one turn per node.
LoopBoundNeverReached ==
  \A w \in Worker : index[w] <= NodeCount

-----------------------------------------------------------------------------
(***************************************************************************)
(* Properties of requests served one at a time.                            *)
(***************************************************************************)

\* When nothing is in progress and no process was lost, the run record of a
\* run that was started or cancelled agrees with the event log, and a
\* completed run has a plan whose nodes are all done and none left running.
RecordAgreesAtRest ==
  AtRest /\ aborts = 0 =>
    \A r \in Run :
      started[r] \/ terminal[r] # "none" =>
        /\ record[r] = runStatus(r)
        /\ record[r] = "completed" => \A n \in Node : plan.node[n] \in Done
        /\ \A n \in Node : plan.node[n] # "running"

\* A retry runs its node again whenever what the node depends on is done,
\* also when the node was done before or a crash had left it running: by the
\* time its continuation settles, the worker of the retry itself has brought
\* the node to an outcome, unless another node that it ran stopped the run
\* first.  This holds for every mode: with reuse_artifacts the code resets and
\* executes the node too, where docs/node-replay.md:7 says it would not.
RetryReruns ==
  [][\A w \in Worker :
       settleContinuation(w) /\ kindOf(w) = "retry"
         /\ (\A d \in DependsOn[req[w[1]].node] : plan.node[d] \in Done)
       => \/ req[w[1]].node \in ran[w] /\ plan.node[req[w[1]].node] \in Outcome
          \/ \E m \in ran[w] :
               plan.node[m] = plan.status /\ plan.status \in {"failed", "yielded"}]_vars

Lifecycle == INSTANCE PlanLifecycle WITH status <- plan.status, node <- plan.node

\* Every write of the plan state row is a step of the plan life cycle.
ImplementsPlanLifecycle == Lifecycle!Spec

\* A queued continuation ends with a recorded outcome, unless a process is
\* lost: whatever the calls before it left in the store, no plan state makes
\* its worker wait or go round for ever.
ContinuationSettles ==
  \A t \in Ticket :
    continuation[t] = "queued" ~> continuation[t] \in {"completed", "failed"} \/ aborts > 0

\* A run that is running stops running, unless the process that executes it
\* is lost.
RunSettles ==
  \A r \in Run :
    record[r] = "running" ~> record[r] \in TerminalStatus \/ aborts > 0

\* A request that is accepted takes effect: the node of a retry runs again, a
\* run leaves running, and a continuation ends in completed or failed.
RequestsTakeEffect == RetryReruns /\ RunSettles /\ ContinuationSettles

-----------------------------------------------------------------------------
(***************************************************************************)
(* What docs/node-replay.md says of forced retries.                        *)
(***************************************************************************)

\* "require approval for write or external side effects": the node of a
\* retry whose attempt requires approval is not executed.
ForcedRetryWaitsForApproval ==
  \A w \in Worker, a \in attempts :
    wpc[w] = "exec" /\ a.ticket = w[1] /\ a.status = "requires_approval" =>
      wnode[w] # a.node
=============================================================================
