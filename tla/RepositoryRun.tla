---------------------------- MODULE RepositoryRun ----------------------------
(***************************************************************************)
(* Repository plans: RepositoryPlanRunner                                  *)
(* (repository/repository-plan-runner.ts), the commands of                 *)
(* repository-plan-control.ts and the scope expansion that suspends and    *)
(* resumes a run, over one status file, one worktree and the approval      *)
(* tables.                                                                 *)
(*                                                                         *)
(* A process executes one command at a time: apply, resume, approve or     *)
(* reject a scope request, or clean up.  Commands of different processes   *)
(* interleave wherever a command awaits, and between the read and the      *)
(* write of the status file, which no lock protects.  The runner never     *)
(* reads the file again: it writes its own copy over whatever is there.    *)
(*                                                                         *)
(* The language model is external: it may answer with a patch within the   *)
(* evidence, with one that needs more files, with a request for them or    *)
(* with nothing usable; the ids and contents of requests are its choice.   *)
(* The contents of a request are everything that its digest covers: what   *)
(* it asks for, and the node it is bound to.                               *)
(* Left out: artifacts, evidence, telemetry, the export of the patch       *)
(* (which reads only) and the patch approval, which nothing resumes.       *)
(***************************************************************************)
EXTENDS Naturals, Sequences, FiniteSets, SequencesExt

CONSTANTS
  Kinds,        \* the kinds of the plan's nodes, in plan order
  Request,      \* the ids of scope requests
  Content,      \* what a request may ask for: files, capabilities, commands
  Process,      \* processes that execute commands
  MaxCommands,  \* bound on commands
  MaxOverlap,   \* bound on commands that begin while others are in progress
  MaxRequests,  \* bound on the requests of one status file
  MaxAborts     \* bound on processes that die or throw

NodeKind == {"frame", "inspect", "design", "patch", "verify", "repair", "review", "finalize"}

ASSUME ConstantsAssumption ==
  /\ Kinds \in Seq(NodeKind) /\ Kinds # <<>>
  /\ {MaxCommands, MaxOverlap, MaxRequests, MaxAborts} \subseteq Nat
  /\ "none" \notin Request \cup Content

Node == DOMAIN Kinds

(***************************************************************************)
(* The status file.  current: the node last begun, or the one a run starts *)
(* with: frame_goal, the first, or the one a resume names; 0 before any    *)
(* run.  exported: there is a final patch.                                 *)
(***************************************************************************)
NodeStatus == {"pending", "ready", "running", "completed", "skipped", "failed", "yielded"}
PlanStatus == {"running", "completed", "failed", "yielded"}
RequestStatus == {"pending_approval", "approved", "rejected", "expired", "applied"}
Body == [files : Content, node : Node]
NoBody == [files |-> "none", node |-> 0]
Entry == [id : Request, content : Body, status : RequestStatus,
          approval : {"requested", "approved", "rejected"}]
Session == {"none", "running", "retained", "completed", "failed", "cleaned"}
Verification == {"none", "passed", "failed"}
StatusFile ==
  [status : {"pending"} \cup PlanStatus, session : Session,
   plan : [status : PlanStatus, node : [Node -> NodeStatus]],
   requests : Seq(Entry), verification : Verification,
   review : {"none", "ready", "warnings"}, current : Node \cup {0}, exported : BOOLEAN]

\* createInitialPlanState; every node but the first depends on another one.
FreshPlan == [status |-> "running",
              node |-> [n \in Node |-> IF n = 1 THEN "ready" ELSE "pending"]]

createRepositoryPlanStatus ==
  [status |-> "pending", session |-> "none", plan |-> FreshPlan,
   requests |-> <<>>, verification |-> "none", review |-> "none",
   current |-> 0, exported |-> FALSE]

VARIABLES
  file,      \* repository-status.json
  worktree,  \* is it there, which expanded scopes changed it, is it verified?
  row,       \* approval_decisions: decision and content, by request
  envelope,  \* approval_continuation_envelopes: content, by request
  granted,   \* history: the requests and contents that were approved
  revised,   \* history: a request was decided on again
  proc,      \* the commands in progress
  commands,  \* commands started so far
  aborts,
  overlaps   \* history: commands that began while another was in progress

vars == <<file, worktree, row, envelope, granted, revised, proc, commands, aborts, overlaps>>
approvals == <<row, envelope, granted, revised>>
counters == <<commands, aborts, overlaps>>

Pc == {"idle", "envelope", "decision", "start", "next", "node", "attach",
       "enter", "mark", "final", "applied", "note", "save"}

NoScope == [id |-> "none", content |-> NoBody]
Scope == [id : Request, content : Body] \cup {NoScope}

(***************************************************************************)
(* scope: what a resume was approved for.  asked: a request in the making. *)
(* verification: memory.verification.  result: what runNode returned.      *)
(* errors: it returned completed with errors.                              *)
(***************************************************************************)
Proc == [pc : Pc, copy : StatusFile, node : Nat, scope : Scope, asked : Scope,
         verification : Verification, review : {"none", "ready", "warnings"},
         result : NodeStatus, errors : BOOLEAN, decision : {"none", "approved", "rejected"}]

Idle == [pc |-> "idle", copy |-> createRepositoryPlanStatus, node |-> 1, scope |-> NoScope,
         asked |-> NoScope, verification |-> "none", review |-> "none",
         result |-> "pending", errors |-> FALSE, decision |-> "none"]

TypeOK ==
  /\ file \in StatusFile
  /\ worktree \in [present : BOOLEAN, scopes : SUBSET Scope, verified : BOOLEAN]
  /\ row \in [Request -> [decision : {"none", "requested", "approved", "rejected"},
                          content : Body \cup {NoBody}]]
  /\ envelope \in [Request -> Body \cup {NoBody}]
  /\ granted \subseteq Scope
  /\ revised \in BOOLEAN
  /\ proc \in [Process -> Proc]
  /\ commands \in 0 .. MaxCommands
  /\ aborts \in 0 .. MaxAborts
  /\ overlaps \in 0 .. MaxOverlap

\* createRepositoryPlanfile has written the pending status.
Init ==
  /\ file = createRepositoryPlanStatus
  /\ worktree = [present |-> FALSE, scopes |-> {}, verified |-> FALSE]
  /\ row = [r \in Request |-> [decision |-> "none", content |-> NoBody]]
  /\ envelope = [r \in Request |-> NoBody]
  /\ granted = {}
  /\ revised = FALSE
  /\ proc = [p \in Process |-> Idle]
  /\ commands = 0
  /\ aborts = 0
  /\ overlaps = 0

-----------------------------------------------------------------------------
(***************************************************************************)
(* Pure parts.                                                             *)
(***************************************************************************)
Done == {"completed", "skipped"}

\* RepositoryPlanRunner.markNode.  Errors fail the plan even if the node is
\* completed, until the next node is marked.
markNode(plan, n, s, errors) ==
  LET nodes == [plan.node EXCEPT ![n] = s]
  IN  [node |-> nodes,
       status |-> IF s = "yielded" THEN s
                  ELSE IF s = "failed" \/ errors THEN "failed"
                  ELSE IF \A m \in Node : nodes[m] \in Done THEN "completed" ELSE "running"]

\* updateScopeStatus on a status that was read: every entry of the request.
updateScopeStatus(f, id, d) ==
  [f EXCEPT !.requests = [i \in DOMAIN @ |->
     IF @[i].id = id THEN [@[i] EXCEPT !.status = d, !.approval = d] ELSE @[i]]]

\* The end of a resumed run uses up every entry of its request.
markScopeExpansionApplied(f, id) ==
  [f EXCEPT !.requests = [i \in DOMAIN @ |->
     IF @[i].id = id THEN [@[i] EXCEPT !.status = "applied", !.approval = "approved"]
     ELSE @[i]]]

\* The entries that loadApprovedScopeExpansionForResume would pick from.
resumable(f) ==
  {i \in DOMAIN f.requests :
     /\ f.requests[i].status # "applied"
     /\ f.requests[i].status = "pending_approval" \/ f.requests[i].approval = "approved"}

pendingEntry(f) == f.requests[CHOOSE i \in resumable(f) : \A j \in resumable(f) : i <= j]

\* Mutant: the node that asked is taken for done.
nodesForRunAfter(e) == e.content.node + 1

\* A resumed run begins with the node that asked for the scope.
nodesForRun(e) == e.content.node

-----------------------------------------------------------------------------
(***************************************************************************)
(* Commands.                                                               *)
(***************************************************************************)
AtRest == \A p \in Process : proc[p].pc = "idle"

Begin(p, state) ==
  /\ proc[p].pc = "idle"
  /\ commands < MaxCommands
  /\ commands' = commands + 1
  /\ overlaps' = IF AtRest THEN overlaps ELSE overlaps + 1
  /\ overlaps' <= MaxOverlap
  /\ proc' = [proc EXCEPT ![p] = state]
  /\ UNCHANGED aborts

Goto(p, pc) == proc' = [proc EXCEPT ![p].pc = pc]
Return(p) == proc' = [proc EXCEPT ![p] = Idle]

\* A worktree that is there is kept, with what earlier runs did to it.
createWorktreeSession == [worktree EXCEPT !.present = TRUE]

cleanupWorktreeSession == [present |-> FALSE, scopes |-> {}, verified |-> FALSE]

\* applyRepositoryPlanfile up to the first await of the runner.
applyRepositoryPlanfile(p) ==
  LET status == [createRepositoryPlanStatus EXCEPT !.status = "running", !.session = "running", !.current = 1]
  IN
  /\ Begin(p, [Idle EXCEPT !.pc = "next", !.copy = status])
  /\ file' = status
  /\ worktree' = createWorktreeSession
  /\ UNCHANGED approvals

\* loadApprovedScopeExpansionForResume, up to its first await.
resumeRepositoryPlan(p) ==
  /\ file.session # "none"
  /\ resumable(file) # {}
  /\ LET e == pendingEntry(file)
     IN  Begin(p, [Idle EXCEPT !.pc = "envelope", !.node = nodesForRun(e),
                               !.asked = [id |-> e.id, content |-> e.content]])
  /\ UNCHANGED <<file, worktree, approvals>>

\* The payload of the envelope says what was approved.
readEnvelope(p) ==
  LET asked == proc[p].asked
  IN
  /\ proc[p].pc = "envelope"
  /\ IF envelope[asked.id] = NoBody THEN Return(p)
     ELSE proc' = [proc EXCEPT ![p].pc = "decision", ![p].scope =
                     [id |-> asked.id, content |-> envelope[asked.id]]]
  /\ UNCHANGED <<file, worktree, approvals, counters>>

\* The decision, the digest, and the read of updateScopeStatus.
Load(p) ==
  proc' = [proc EXCEPT
    ![p].pc = "start", ![p].asked = NoScope,
    ![p].copy = updateScopeStatus(file, proc[p].scope.id, "approved"),
    ![p].verification = file.verification]

\* Mutant: the decision is not read again.
readDecisionDigestOnly(p) ==
  /\ proc[p].pc = "decision"
  /\ IF proc[p].asked # proc[p].scope THEN Return(p) ELSE Load(p)
  /\ UNCHANGED <<file, worktree, approvals, counters>>

\* Any decision but approved, and a digest that does not match, throw.
readDecision(p) ==
  /\ proc[p].pc = "decision"
  /\ IF row[proc[p].asked.id].decision # "approved" \/ proc[p].asked # proc[p].scope
     THEN Return(p) ELSE Load(p)
  /\ UNCHANGED <<file, worktree, approvals, counters>>

\* updateScopeStatus writes, and so does the constructor of the runner.
startResumed(p) ==
  LET status == [proc[p].copy EXCEPT !.status = "running", !.session = "running",
                                     !.plan.status = "running", !.current = proc[p].node]
  IN
  /\ proc[p].pc = "start"
  /\ file' = status
  /\ proc' = [proc EXCEPT ![p].pc = "next", ![p].copy = status]
  /\ UNCHANGED <<worktree, approvals, counters>>

\* approveRepositoryScopeRequest and rejectRepositoryScopeRequest: first
\* the decision ...
decideScopeRequest(p, r, d) ==
  /\ row[r].decision # "none"
  /\ Begin(p, [Idle EXCEPT !.pc = "note", !.scope = [id |-> r, content |-> row[r].content],
                           !.decision = d])
  /\ row' = [row EXCEPT ![r].decision = d]
  /\ granted' = IF d = "approved" THEN granted \cup {[id |-> r, content |-> row[r].content]}
                ELSE granted
  /\ revised' = (revised \/ row[r].decision # "requested")
  /\ UNCHANGED <<file, worktree, envelope>>

\* ... then the read of the status file, if the envelope is there ...
noteDecision(p) ==
  /\ proc[p].pc = "note"
  /\ IF envelope[proc[p].scope.id] = NoBody THEN Return(p)
     ELSE proc' = [proc EXCEPT ![p].pc = "save", ![p].copy =
                     updateScopeStatus(file, proc[p].scope.id, proc[p].decision)]
  /\ UNCHANGED <<file, worktree, approvals, counters>>

\* ... and the write, for these two and for cleanup.
saveStatus(p) ==
  /\ proc[p].pc = "save"
  /\ file' = proc[p].copy
  /\ Return(p)
  /\ UNCHANGED <<worktree, approvals, counters>>

\* cleanupRepositoryPlan up to its write.
cleanupRepositoryPlan(p) ==
  /\ file.session # "none"
  /\ Begin(p, [Idle EXCEPT !.pc = "save", !.copy = [file EXCEPT !.session = "cleaned"]])
  /\ worktree' = cleanupWorktreeSession
  /\ UNCHANGED <<file, approvals>>

-----------------------------------------------------------------------------
(***************************************************************************)
(* The runner.                                                             *)
(***************************************************************************)
At(p) == proc[p].node
Running(p) == proc[p].pc = "node" /\ (worktree.present \/ Kinds[At(p)] \in {"frame", "design"})

\* The node is marked running.
beginNode(p) ==
  LET status == [proc[p].copy EXCEPT !.status = "running", !.current = At(p),
                                     !.plan = markNode(@, At(p), "running", FALSE)]
  IN
  /\ proc[p].pc = "next"
  /\ file' = status
  /\ proc' = [proc EXCEPT ![p].pc = "node", ![p].copy = status]
  /\ UNCHANGED <<worktree, approvals, counters>>

Result(p, s) == proc' = [proc EXCEPT ![p].pc = "mark", ![p].result = s]

\* Nodes that only complete, and the inspection.
runPlainNode(p) ==
  /\ Running(p)
  /\ Kinds[At(p)] \in {"frame", "inspect", "design", "finalize"}
  /\ Result(p, "completed")
  /\ UNCHANGED <<file, worktree, approvals, counters>>

\* A node that patches: the patch node, and the repair node after a failed
\* verification.
Patching(p) ==
  /\ Running(p)
  /\ \/ Kinds[At(p)] = "patch"
     \/ Kinds[At(p)] = "repair" /\ proc[p].verification = "failed"

skipRepair(p) ==
  /\ Running(p)
  /\ Kinds[At(p)] = "repair" /\ proc[p].verification # "failed"
  /\ Result(p, "skipped")
  /\ UNCHANGED <<file, worktree, approvals, counters>>

\* A resumed run writes its copy of the status once it has the evidence.
writeEvidence(p) ==
  /\ Patching(p)
  /\ proc[p].scope # NoScope
  /\ file' = proc[p].copy
  /\ UNCHANGED <<worktree, approvals, proc, counters>>

\* No usable patch, or one that needs an approval, ends the node.
generatePatchPlan(p) ==
  /\ Patching(p)
  /\ \E s \in {"yielded", "failed"} :
       /\ Kinds[At(p)] = "repair" => s = "yielded"
       /\ Result(p, s)
  /\ UNCHANGED <<file, worktree, approvals, counters>>

\* validateRepositoryPatchPlan: c is what the patch needs beyond the
\* evidence.
validPatch(p, c) == c = "none" \/ c = proc[p].scope.content.files

refusePatch(p, c) ==
  /\ Patching(p)
  /\ ~validPatch(p, c)
  /\ Result(p, IF Kinds[At(p)] = "patch" THEN "failed" ELSE "yielded")
  /\ UNCHANGED <<file, worktree, approvals, counters>>

\* The worktree with a patch in it that nobody verified.
touched(p, c) ==
  [worktree EXCEPT !.verified = FALSE, !.scopes =
     IF c = "none" THEN @ ELSE @ \cup {proc[p].scope}]

\* applyRepositoryPatchPlan; a repair verifies at once.
applyPatch(p, c, v) ==
  LET repair == Kinds[At(p)] = "repair"
  IN
  /\ Patching(p)
  /\ validPatch(p, c)
  /\ worktree' = [touched(p, c) EXCEPT !.verified = repair /\ v = "passed"]
  /\ proc' = [proc EXCEPT ![p].pc = "mark", ![p].result = "completed",
                          ![p].verification = IF repair THEN v ELSE @]
  /\ UNCHANGED <<file, approvals, counters>>

\* A patch that is no longer valid when it is applied changes nothing.  A
\* repair goes on, completed with errors.
failPatch(p, v) ==
  LET repair == Kinds[At(p)] = "repair"
  IN
  /\ Patching(p)
  /\ worktree' = IF repair THEN [worktree EXCEPT !.verified = v = "passed"] ELSE worktree
  /\ proc' = [proc EXCEPT ![p].pc = "mark", ![p].errors = repair,
                          ![p].result = IF repair THEN "completed" ELSE "failed",
                          ![p].verification = IF repair THEN v ELSE @]
  /\ UNCHANGED <<file, approvals, counters>>

\* The verify node completes whatever its report says.
runVerificationPolicy(p, v) ==
  /\ Running(p)
  /\ Kinds[At(p)] = "verify"
  /\ worktree' = [worktree EXCEPT !.verified = v = "passed"]
  /\ proc' = [proc EXCEPT ![p].pc = "mark", ![p].result = "completed",
                          ![p].verification = v]
  /\ UNCHANGED <<file, approvals, counters>>

\* Ready is the verdict of the review, and what its generator is told when
\* there is one.
runReview(p) ==
  /\ Running(p)
  /\ Kinds[At(p)] = "review"
  /\ proc' = [proc EXCEPT ![p].pc = "mark", ![p].result = "completed",
                ![p].review = IF proc[p].verification = "passed" THEN "ready" ELSE "warnings"]
  /\ UNCHANGED <<file, worktree, approvals, counters>>

\* The generator of the review throws.
failReview(p) ==
  /\ Running(p)
  /\ Kinds[At(p)] = "review"
  /\ Result(p, "failed")
  /\ UNCHANGED <<file, worktree, approvals, counters>>

\* handleScopeExpansionIfNeeded: the approval request, which overwrites an
\* earlier decision on the same id ...
createScopeExpansionApproval(p, r, c) ==
  LET body == [files |-> c, node |-> At(p)]
  IN
  /\ Patching(p)
  /\ Len(proc[p].copy.requests) < MaxRequests
  /\ row' = [row EXCEPT ![r] = [decision |-> "requested", content |-> body]]
  /\ proc' = [proc EXCEPT ![p].pc = "attach", ![p].asked = [id |-> r, content |-> body]]
  /\ UNCHANGED <<file, worktree, envelope, granted, revised, counters>>

\* ... its envelope ...
recordEnvelope(p) ==
  /\ proc[p].pc = "attach"
  /\ envelope' = [envelope EXCEPT ![proc[p].asked.id] = proc[p].asked.content]
  /\ Goto(p, "enter")
  /\ UNCHANGED <<file, worktree, row, granted, revised, counters>>

\* ... and the entry in the status file; the status of the request may come
\* with it, and then it is kept.
enterRequest(p, given) ==
  LET status == [proc[p].copy EXCEPT !.requests = Append(@,
        [id |-> proc[p].asked.id, content |-> proc[p].asked.content,
         status |-> given, approval |-> "requested"])]
  IN
  /\ proc[p].pc = "enter"
  /\ file' = status
  /\ proc' = [proc EXCEPT ![p].pc = "mark", ![p].copy = status, ![p].asked = NoScope,
                          ![p].result = "yielded"]
  /\ UNCHANGED <<worktree, approvals, counters>>

\* The result of the node is written, and the loop goes on or stops.
markResult(p) ==
  LET status == [proc[p].copy EXCEPT
        !.plan = markNode(@, At(p), proc[p].result, proc[p].errors),
        !.verification = IF proc[p].verification = "none" THEN @ ELSE proc[p].verification,
        !.review = IF proc[p].review = "none" THEN @ ELSE proc[p].review]
      stops == proc[p].result \in {"failed", "yielded"} \/ At(p) = Len(Kinds)
  IN
  /\ proc[p].pc = "mark"
  /\ file' = status
  /\ proc' = [proc EXCEPT ![p].copy = status, ![p].pc = IF stops THEN "final" ELSE "next",
                          ![p].node = IF stops THEN @ ELSE @ + 1,
                          ![p].result = "pending", ![p].errors = FALSE]
  /\ UNCHANGED <<worktree, approvals, counters>>

\* The final patch and the final status, from the plan state.
finishRun(p) ==
  LET s == proc[p].copy.plan.status
      status == [proc[p].copy EXCEPT !.exported = TRUE,
        !.status = IF s \in {"failed", "yielded"} THEN s ELSE "completed",
        !.session = CASE s = "failed" -> "failed" [] s = "yielded" -> "retained"
                      [] OTHER -> "completed"]
  IN
  /\ proc[p].pc = "final" /\ worktree.present
  /\ file' = status
  /\ IF proc[p].scope = NoScope THEN Return(p)
     ELSE proc' = [proc EXCEPT ![p].pc = "applied", ![p].copy = status]
  /\ UNCHANGED <<worktree, approvals, counters>>

\* The end of resumeRepositoryPlan.
applyScope(p) ==
  /\ proc[p].pc = "applied"
  /\ file' = markScopeExpansionApplied(proc[p].copy, proc[p].scope.id)
  /\ Return(p)
  /\ UNCHANGED <<worktree, approvals, counters>>

\* Without its worktree the runner throws.
missWorktree(p) ==
  /\ ~worktree.present
  /\ proc[p].pc = "final" \/ (proc[p].pc = "node" /\ Kinds[At(p)] \notin {"frame", "design"})
  /\ Return(p)
  /\ UNCHANGED <<file, worktree, approvals, counters>>

\* A patch is written operation by operation: one that throws, or a crash,
\* leaves a part of it in the worktree.
tearPatch(p, c) ==
  /\ Patching(p)
  /\ validPatch(p, c)
  /\ aborts < MaxAborts
  /\ aborts' = aborts + 1
  /\ worktree' = touched(p, c)
  /\ Return(p)
  /\ UNCHANGED <<file, approvals, commands, overlaps>>

\* A process dies, or a step of it throws.
abort(p) ==
  /\ proc[p].pc # "idle"
  /\ aborts < MaxAborts
  /\ aborts' = aborts + 1
  /\ Return(p)
  /\ UNCHANGED <<file, worktree, approvals, commands, overlaps>>

Command(p) ==
  \/ applyRepositoryPlanfile(p) \/ resumeRepositoryPlan(p) \/ cleanupRepositoryPlan(p)
  \/ \E r \in Request, d \in {"approved", "rejected"} : decideScopeRequest(p, r, d)

Step(p) ==
  \/ readEnvelope(p) \/ readDecision(p) \/ startResumed(p)
  \/ noteDecision(p) \/ saveStatus(p)
  \/ beginNode(p) \/ runPlainNode(p) \/ skipRepair(p) \/ writeEvidence(p) \/ generatePatchPlan(p)
  \/ \E c \in Content : refusePatch(p, c)
  \/ \E c \in Content \cup {"none"} : tearPatch(p, c)
  \/ \E c \in Content \cup {"none"}, v \in {"passed", "failed"} : applyPatch(p, c, v)
  \/ \E v \in {"passed", "failed"} : failPatch(p, v) \/ runVerificationPolicy(p, v)
  \/ runReview(p) \/ failReview(p)
  \/ \E r \in Request, c \in Content : createScopeExpansionApproval(p, r, c)
  \/ recordEnvelope(p) \/ markResult(p)
  \/ \E given \in {"pending_approval", "expired"} : enterRequest(p, given)
  \/ finishRun(p) \/ applyScope(p) \/ missWorktree(p)

Next == \E p \in Process : Command(p) \/ Step(p) \/ abort(p)

Spec == Init /\ [][Next]_vars

-----------------------------------------------------------------------------
(***************************************************************************)
(* Properties.                                                             *)
(***************************************************************************)
OneAtATime == overlaps = 0

\* Commands come one at a time, none is cut off, and nobody decides twice on
\* the same request.
Orderly == OneAtATime /\ aborts = 0 /\ ~revised

\* docs/scope-expansion-resume.md: "The model may request that scope, but it
\* cannot receive or use it until the request is approved."  Whatever
\* commands overlap and wherever they are cut off, a scope that changed the
\* worktree belongs to a request that somebody approved.
ScopeNeedsApproval ==
  \A s \in worktree.scopes : \E g \in granted : g.id = s.id

\* While commands are given one at a time and none is cut off, the scope that
\* changed the worktree is the one approved, although the language model may
\* give the id of a request to another one.  (A command cut off between the
\* approval row and the envelope can leave a decision about one request beside
\* the envelope of another of that id; resume compares the request with the
\* envelope alone.)
ScopeAsApproved == OneAtATime /\ aborts = 0 => worktree.scopes \subseteq granted

\* A run that stops and is resumed in the middle of the plan is completed
\* only when every node of the plan is done, in orderly use.  The runner
\* itself writes completed for any plan that neither failed nor yielded: a
\* request that is approved again after it was applied runs the plan from an
\* earlier node, and a node that fails there is hidden by the next resume.
CompletedIsComplete ==
  Orderly /\ file.status = "completed" => \A n \in Node : file.plan.node[n] \in Done

\* With commands one at a time and none cut off, a completed run whose review
\* says ready has a worktree that passed verification after its last patch,
\* also when the run was resumed or repeated.
ReadyMeansVerified ==
  OneAtATime /\ aborts = 0 /\ AtRest
  /\ file.status = "completed" /\ file.review = "ready" /\ worktree.present
    => worktree.verified

\* docs/scope-expansion-resume.md: "On approval, resume loads the immutable
\* execution Planfile [...] and reruns PatchPlan or RepairPatchPlan
\* generation."  With commands one at a time and none cut off, a request that
\* the file shows as approved is not stuck: the request that resume picks
\* passes all of its checks, unless it is an earlier one that still waits for
\* a decision, if the model gives every request of the run its own id.
ApprovedCanResume ==
  OneAtATime /\ aborts = 0 /\ AtRest
  /\ IsInjective([i \in DOMAIN file.requests |-> file.requests[i].id])
    => \A i \in DOMAIN file.requests : file.requests[i].status = "approved" =>
         LET e == pendingEntry(file)
         IN  \/ e.status = "pending_approval"
             \/ /\ row[e.id] = [decision |-> "approved", content |-> e.content]
                /\ envelope[e.id] = e.content

\* A scope expansion is applied only as it was approved, and an approval is
\* never a dead end.
ScopeExpansionSound ==
  /\ TypeOK
  /\ ScopeNeedsApproval
  /\ ScopeAsApproved
  /\ ApprovedCanResume

\* A plan that ends as completed or ready ran its nodes, and its verification
\* saw the last patch.
CompletedIsVerified == CompletedIsComplete /\ ReadyMeansVerified
=============================================================================
