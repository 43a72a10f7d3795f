---------------------------- MODULE RepositoryView ----------------------------
(***************************************************************************)
(* What a user of a repository plan is shown: the run view of              *)
(* repository/repository-run-view.ts and the next actions of               *)
(* repository-next-actions.ts.  Both are functions of the status file, and *)
(* neither reads the approval tables or looks at the worktree, so whether  *)
(* an offered command does anything depends on how the file kept up with   *)
(* them.                                                                   *)
(*                                                                         *)
(* Left out: the artifacts a view lists, and so the completion of the      *)
(* phases that follows from artifacts alone.                               *)
(***************************************************************************)
EXTENDS RepositoryRun

\* The patch node is in one of two phases, by whether there is a patch plan;
\* they are one here.
Phase == {"planning", "inspecting", "collecting_evidence", "applying_patch", "verifying",
          "repairing", "reviewing", "exporting_patch"}

phaseOf(kind) ==
  CASE kind \in {"frame", "design"} -> "planning" [] kind = "inspect" -> "collecting_evidence"
    [] kind = "patch" -> "applying_patch" [] kind = "verify" -> "verifying"
    [] kind = "repair" -> "repairing" [] kind = "finalize" -> "exporting_patch"
    [] OTHER -> "reviewing"

\* A plan that was never run has no current node.
currentPhase(f) ==
  IF f.status = "completed" THEN "completed"
  ELSE IF f.current = 0 THEN IF f.status = "pending" THEN "planning" ELSE "none"
  ELSE phaseOf(Kinds[f.current])

awaiting(f) == {i \in DOMAIN f.requests : f.requests[i].approval = "requested"}

runStatus(f) ==
  IF f.status = "pending" THEN "queued"
  ELSE IF f.status = "yielded" /\ awaiting(f) # {} THEN "requires_approval"
  ELSE f.status

\* Mutant: the requests that may be resumed are the ones to decide on.
repositoryNextActionsResumable(f) ==
  {[type |-> t, target |-> f.requests[i].id, required |-> TRUE] :
     t \in {"approve", "reject"}, i \in resumable(f)}

\* The actions that are offered whatever happened, watch and explain, are
\* left out.
repositoryNextActions(f) ==
  {[type |-> t, target |-> f.requests[i].id, required |-> TRUE] :
     t \in {"approve", "reject"}, i \in awaiting(f)}
  \cup {[type |-> "resume", target |-> "none", required |-> awaiting(f) = {}] :
          s \in {f.status} \cap {"yielded"}}
  \cup {[type |-> "export", target |-> "none", required |-> FALSE] :
          e \in {f.exported} \cap {TRUE}}
  \cup {[type |-> "cleanup", target |-> "none", required |-> FALSE] :
          s \in {f.session} \ {"none", "cleaned"}}

\* "open": completed or pending, by the artifacts.
phaseDone(f, phase) ==
  CASE phase = "planning" -> "completed"
    [] phase = "inspecting" -> IF f.session = "none" THEN "pending" ELSE "completed"
    [] phase = "verifying" -> IF f.verification = "none" THEN "pending" ELSE "completed"
    [] phase = "reviewing" -> IF f.review = "none" THEN "pending" ELSE "completed"
    [] phase = "exporting_patch" -> IF f.exported THEN "completed" ELSE "pending"
    [] OTHER -> "open"

buildRepositoryPhases(f) ==
  [phase \in Phase |->
     IF phase # currentPhase(f) THEN phaseDone(f, phase)
     ELSE IF f.status \in {"failed", "yielded"} THEN f.status ELSE "running"]

buildRepositoryRunViewFromStatus(f) ==
  [status |-> runStatus(f), phases |-> buildRepositoryPhases(f),
   next_actions |-> repositoryNextActions(f)]

View == buildRepositoryRunViewFromStatus(file)

-----------------------------------------------------------------------------
(***************************************************************************)
(* Properties.                                                             *)
(***************************************************************************)
Offered(type) == {a.target : a \in {b \in View.next_actions : b.type = type}}

\* The requests of the file that nobody decided on, by the approval table.
Undecided ==
  {i \in DOMAIN file.requests :
     row[file.requests[i].id] = [decision |-> "requested", content |-> file.requests[i].content]}

\* docs/repository-workbench.md: the command "prints repository status with
\* the run handle, current phase, worktree, changed files, and next actions".
\* They come from the status file, which is written after the approval
\* table.  With commands one at a time, none of them cut off and every
\* request under its own id, the requests it offers to approve and to reject
\* are those that are undecided, and their envelope is for their contents, so
\* that an approval is one that a resume accepts.
OfferedAreUndecided ==
  OneAtATime /\ AtRest /\ aborts = 0
  /\ IsInjective([i \in DOMAIN file.requests |-> file.requests[i].id])
    => /\ Offered("approve") = {file.requests[i].id : i \in Undecided}
       /\ Offered("reject") = Offered("approve")
       /\ \A i \in Undecided : envelope[file.requests[i].id] = file.requests[i].content

\* A worktree on disk can be got rid of: with commands one at a time, and
\* whatever was cut off, the view offers the cleanup of a worktree that is
\* there.
WorktreeCanBeCleaned ==
  OneAtATime /\ worktree.present => Offered("cleanup") # {}

\* A run that stopped shows it on the phase of the node that stopped it and
\* nowhere else, also when an earlier node of it had stopped and was resumed;
\* a completed run shows no phase in progress, and its verification and its
\* review as done, in orderly use: a request approved again leaves what later
\* nodes of the plan said before.
StoppedPhaseShown ==
  Orderly /\ AtRest =>
    /\ \A s \in {"failed", "yielded"} : file.status = s =>
         {ph \in Phase : View.phases[ph] = s} =
           {phaseOf(Kinds[n]) : n \in {m \in Node : file.plan.node[m] = s}}
    /\ file.status = "completed" =>
         \A ph \in Phase : View.phases[ph] \in {"completed", "open"}

\* The status view and the actions it offers agree with the stores they were
\* computed from.
ViewTellsTheTruth == OfferedAreUndecided /\ WorktreeCanBeCleaned /\ StoppedPhaseShown
=============================================================================
