----------------------------- MODULE WorkOrders -----------------------------
(***************************************************************************)
(* The node handlers of a repository plan                                  *)
(* (repository/repository-work-order-handlers.ts) under the plan runner's  *)
(* runReadyNode, in a worktree that somebody else may edit meanwhile.      *)
(*                                                                         *)
(* A plan is a chain of node kinds; the file it patches is the version of  *)
(* its contents, 0 when there is none.  A capability that throws comes     *)
(* back as a failed result without an output, so every handler that parses *)
(* the output throws: the run ends with that error.  The patch handler     *)
(* does not look at what apply_patch returns.                              *)
(***************************************************************************)
EXTENDS Naturals, Sequences, SequencesExt

CONSTANTS
    WoPlan,    \* plans: [kinds, acceptance, producer, commands]
    WoEdits    \* edits and deletions by somebody else

\* PlanNodeKind: the kinds a repository plan is made of.
WoKind == {"frame", "design", "approval", "finalize", "inspect", "patch", "verify", "repair", "review"}

\* Whoever makes a repository plan gives it nodes.
ASSUME WorkOrderAssumption ==
    /\ WoEdits \in Nat
    /\ \A plan \in WoPlan : plan.kinds \in Seq(WoKind) /\ plan.kinds # <<>>

VARIABLES
    woPlan, woDone,  \* the plan that runs, and how many of its nodes are marked
    woStatus,        \* "idle", then the status of the plan state, or "threw"
    woPatching,      \* the validated patch plan that is about to be applied, or NoPlanYet
    woFile,          \* version of the patched file
    woFull,          \* the file has no room for the appended text
    woEvidence, woArtifact, woVerification, woRepairs, \* state of the handlers
    woSince,         \* history: edits made when the patch plan was validated
    woLanded,        \* history: [onto, saw, late] of the patch written last
    woLost,          \* history: apply_patch could not write, for a reason validation does not see
    woTouched        \* edits made

woVars == <<woPlan, woDone, woStatus, woPatching, woFile, woFull, woEvidence, woArtifact,
            woVerification, woRepairs, woSince, woLanded, woLost, woTouched>>

WoNone == [none |-> TRUE]
NoPlanYet == [hash |-> 0, append |-> FALSE, none |-> TRUE]

WoInit ==
    /\ woPlan = WoNone /\ woDone = 0 /\ woStatus = "idle" /\ woPatching = NoPlanYet
    /\ woFile = 1 /\ woFull = FALSE /\ woEvidence = WoNone /\ woArtifact = WoNone
    /\ woVerification = WoNone /\ woRepairs = <<>> /\ woSince = 0 /\ woLanded = WoNone /\ woLost = FALSE /\ woTouched = 0

-----------------------------------------------------------------------------

\* Every write makes contents nobody has seen.
Fresh == 2 * (woTouched + 1) + (IF woLanded = WoNone THEN 0 ELSE 1)

\* A plan starts in a worktree; the file may be missing or filled to the limit.
BeginPlan(plan, file, full) ==
    /\ woStatus = "idle" /\ (full => file # 0)
    /\ woPlan' = plan /\ woFile' = file /\ woFull' = full /\ woStatus' = "running"
    /\ UNCHANGED <<woDone, woPatching, woEvidence, woArtifact, woVerification, woRepairs,
                   woSince, woLanded, woLost, woTouched>>

\* readyNodes: the first node of the chain that is not marked.
Ready(kind) == woStatus = "running" /\ woPatching = NoPlanYet /\ woPlan.kinds[woDone + 1] = kind

\* markNode: the node's status and what becomes of the plan.
markNode(status) ==
    /\ woDone' = woDone + 1
    /\ woStatus' = IF status \in {"failed", "yielded"} THEN status
                   ELSE IF woDone + 1 = Len(woPlan.kinds) THEN "completed" ELSE "running"

\* A handler that rejects: runReadyNode marks nothing.
Threw == woStatus' = "threw" /\ UNCHANGED woDone

worktree == <<woFile, woFull, woTouched>>
history == <<woSince, woLanded, woLost>>
handlers == <<woEvidence, woArtifact, woVerification, woRepairs>>

\* canCompleteStructuralNode and the handlers that only return a status.
Structural ==
    /\ \E k \in {"frame", "design", "approval", "finalize"} :
         Ready(k) /\ markNode(IF k = "approval" THEN "skipped" ELSE "completed")
    /\ UNCHANGED <<woPlan, woPatching, worktree, history, handlers>>

\* inspectRepository lists the files, reads the first ones and searches; the file
\* may lie beyond them.  A file that goes away in between makes it throw.
Inspect(seen) ==
    /\ Ready("inspect")
    /\ woEvidence' = [saw |-> IF seen THEN woFile ELSE 0]
    /\ markNode("completed")
    /\ UNCHANGED <<woPlan, woPatching, worktree, history, woArtifact, woVerification, woRepairs>>

InspectThrows ==
    /\ Ready("inspect") /\ Threw
    /\ UNCHANGED <<woPlan, woPatching, worktree, history, handlers>>

\* deterministicRepositoryPatchPlan appends to the file it saw, or creates one.
deterministicRepositoryPatchPlan == [hash |-> woEvidence.saw, append |-> TRUE]

\* The demo's producer, jsonOutputPatchPlan, replaces the file it saw; without one
\* it throws.
jsonOutputPatchPlan == [hash |-> woEvidence.saw, append |-> FALSE]
producerThrows == woPlan.producer = "demo" /\ woEvidence.saw = 0

createPatchPlan == IF woPlan.producer = "demo" THEN jsonOutputPatchPlan ELSE deterministicRepositoryPatchPlan

\* validateRepositoryPatchPlan: a file that exists is changed only under the hash
\* it has.
validateRepositoryPatchPlan(plan) == woFile # 0 => plan.hash = woFile

\* The first half of the patch handler: everything up to the await of apply_patch.
Patch ==
    /\ Ready("patch")
    /\ \/ /\ woEvidence = WoNone \/ ~woPlan.acceptance
          /\ markNode("failed") /\ UNCHANGED woPatching
       \/ /\ woEvidence # WoNone /\ woPlan.acceptance
          /\ producerThrows /\ Threw /\ UNCHANGED woPatching
       \/ /\ woEvidence # WoNone /\ woPlan.acceptance /\ ~producerThrows
          /\ IF validateRepositoryPatchPlan(createPatchPlan)
             THEN woPatching' = createPatchPlan /\ UNCHANGED <<woDone, woStatus>>
             ELSE markNode("failed") /\ UNCHANGED woPatching
    /\ woSince' = woTouched
    /\ UNCHANGED <<woPlan, worktree, woLanded, woLost, handlers>>

\* Mutant: the hash is not compared again.
neverStale(plan) == FALSE

\* legacyPatchPlanFromRepositoryPlan makes a file that was read a modification,
\* and applyRepositoryPatch compares its hash again before it writes.
staleForApply(plan) == plan.hash # 0 /\ plan.hash # woFile
tooLarge(plan) == plan.append /\ plan.hash # 0 /\ woFull

\* The second half: apply_patch, whose result is not looked at, then the diff and
\* the artifact that says "applied".  A get_diff that fails leaves no output to
\* parse, and the handler throws with the patch written.
ApplyPatch ==
    /\ woStatus = "running" /\ woPatching # NoPlanYet
    /\ IF staleForApply(woPatching) \/ tooLarge(woPatching)
       THEN woLost' = (woLost \/ tooLarge(woPatching)) /\ UNCHANGED <<woFile, woLanded>>
       ELSE /\ woFile' = Fresh
            /\ woLanded' = [onto |-> woFile, saw |-> woPatching.hash, late |-> woTouched # woSince]
            /\ UNCHANGED woLost
    /\ \/ woArtifact' = [apply_status |-> "applied"] /\ markNode("completed")
       \/ Threw /\ UNCHANGED woArtifact
    /\ woPatching' = NoPlanYet
    /\ UNCHANGED <<woPlan, woFull, woTouched, woSince, woEvidence, woVerification, woRepairs>>

\* The node's commands, or the plan's, or else the typecheck.
commandCount == IF woPlan.commands = 0 THEN 1 ELSE woPlan.commands

\* verify: the commands run one after the other; the report passed when every one
\* of them did.  A command that is not allowlisted throws.
Verify(codes) ==
    /\ Ready("verify")
    /\ \/ woArtifact = WoNone /\ markNode("failed") /\ UNCHANGED woVerification
       \/ /\ woArtifact # WoNone /\ Len(codes) = commandCount
          /\ woVerification' = [passed |-> \A i \in DOMAIN codes : codes[i] = 0]
          /\ markNode("completed")
    /\ UNCHANGED <<woPlan, woPatching, worktree, history, woEvidence, woArtifact, woRepairs>>

VerifyThrows ==
    /\ Ready("verify") /\ woArtifact # WoNone /\ Threw
    /\ UNCHANGED <<woPlan, woPatching, worktree, history, handlers>>

\* nextRepairAttempt: at most three, and not the same failure a third time (every
\* attempt of one report has the same summary).
nextRepairAttempt(attempts) ==
    IF Len(attempts) + 1 > 3 \/ Len(attempts) >= 2 THEN "yielded" ELSE "pending"

\* repair: nothing to do after a report that passed; otherwise the attempt is
\* recorded and the plan yields, for no handler produces a second patch.
Repair ==
    /\ Ready("repair")
    /\ IF woArtifact = WoNone \/ woVerification = WoNone THEN markNode("skipped") /\ UNCHANGED woRepairs
       ELSE IF woVerification.passed THEN markNode("skipped") /\ UNCHANGED woRepairs
       ELSE markNode("yielded") /\ woRepairs' = Append(woRepairs, nextRepairAttempt(woRepairs))
    /\ UNCHANGED <<woPlan, woPatching, worktree, history, woEvidence, woArtifact, woVerification>>

\* review: the report of create_review_report is parsed, so a failure throws.
Review ==
    /\ Ready("review")
    /\ IF woArtifact = WoNone \/ woVerification = WoNone THEN markNode("failed") ELSE markNode("completed") \/ Threw
    /\ UNCHANGED <<woPlan, woPatching, worktree, history, handlers>>

\* Somebody else saves the file, or removes it, at any moment.
EditFileMeanwhile(gone) ==
    /\ woStatus = "running" /\ woTouched < WoEdits /\ (gone => woFile # 0)
    /\ woTouched' = woTouched + 1
    /\ woFile' = IF gone THEN 0 ELSE Fresh
    /\ woFull' = (woFull /\ ~gone)
    /\ woLost' = (woLost \/ gone \/ woPatching # NoPlanYet)
    /\ UNCHANGED <<woPlan, woDone, woStatus, woPatching, handlers, woSince, woLanded>>

WoNext ==
    \/ \E plan \in WoPlan, file \in 0..1, full \in BOOLEAN : BeginPlan(plan, file, full)
    \/ Structural \/ Patch \/ ApplyPatch \/ InspectThrows \/ VerifyThrows \/ Repair \/ Review
    \/ \E seen \in BOOLEAN : Inspect(seen)
    \/ \E codes \in TupleOf(0..1, 1) \cup TupleOf(0..1, 2) : Verify(codes)
    \/ \E gone \in BOOLEAN : EditFileMeanwhile(gone)

WoSpec == WoInit /\ [][WoNext]_woVars

-----------------------------------------------------------------------------

(***************************************************************************)
(* A patch made from a text that was read is written onto exactly that     *)
(* text, whatever is saved between the inspection, the validation and the  *)
(* write.  A patch that creates a file has no text to compare: it finds no *)
(* file, or overwrites one that appeared after the plan was validated, and *)
(* that is the only edit ever overwritten.                                 *)
(***************************************************************************)
PatchLandsOnEvidence ==
    woLanded # WoNone /\ woLanded.onto # woLanded.saw => woLanded.saw = 0 /\ woLanded.late

(***************************************************************************)
(* The artifact says "applied" without looking at the result of            *)
(* apply_patch.  It is right all the same, unless the file was removed,    *)
(* changed between validation and write, or had no room for the appended   *)
(* text: the cases validateRepositoryPatchPlan cannot see.                 *)
(***************************************************************************)
AppliedWasWritten == woArtifact # WoNone /\ ~woLost => woLanded # WoNone

(***************************************************************************)
(* The verify node completes whatever the commands say; it is the nodes    *)
(* after it that hold a plan back.  A plan that completes with a review    *)
(* has a patch and a report, and one with a repair node after its last     *)
(* verification has a report that passed.                                  *)
(***************************************************************************)
CompletedWasChecked ==
    woStatus = "completed" =>
        /\ "review" \in Range(woPlan.kinds) => woArtifact # WoNone /\ woVerification # WoNone
        /\ (\E i, j \in DOMAIN woPlan.kinds :
                /\ i < j /\ woPlan.kinds[i] = "verify" /\ woPlan.kinds[j] = "repair"
                /\ \A k \in DOMAIN woPlan.kinds : k > j => woPlan.kinds[k] # "verify")
              => woVerification # WoNone /\ woVerification.passed

\* Work orders rest on evidence: a patch lands on the text that was read, if one
\* was, and \* completed means written and checked.
OrdersRestOnEvidence == PatchLandsOnEvidence /\ AppliedWasWritten /\ CompletedWasChecked
=============================================================================
