--------------------------- MODULE CapabilityStep ---------------------------
(***************************************************************************)
(* One call of runCapabilityStep (core/src/runtime/capability-step-        *)
(* runner.ts): resolve, check the digest and the input, ask the policy     *)
(* gate, execute through the pack registry of the SDK, validate the        *)
(* output, and finish with events.  The event sink and the artifact store  *)
(* are the caller's: each call of either may be rejected, and where it is  *)
(* decides what the step still reports.  The capability's own code is      *)
(* outside: it records any artifacts, the same one again too, sees to a    *)
(* rejection itself or lets it pass, and then returns or throws.           *)
(***************************************************************************)
EXTENDS PolicyGate, SequencesExt

CONSTANTS
    Artifact,   \* ids of the artifacts a capability may record
    MaxCreated  \* bound on the artifact.created events of a step

\* The types of the run events of a step, without that of its artifacts.
StepEvent == {"capability.started", "policy.evaluated", "approval.requested",
              "capability.failed", "capability.completed"}

ASSUME StepAssumption == Artifact \cap StepEvent = {}

VARIABLES
    stepPc,      \* where the call is
    stepIn,      \* what the step was asked: mode, environment, policy input
    stepFacts,   \* what was found out: digest, input schema, decision
    stepEvents,  \* run events accepted by the sink, in order: the type, or
                 \* for artifact.created the artifact that it announces
    stepWritten, \* artifacts accepted by options.record_artifact
    stepFailed,  \* artifacts that a call for was rejected, by store and sink
    stepRefs,    \* outputArtifactRefs, as a set (finish removes duplicates)
    stepResult   \* the result under construction, then returned

stepVars == <<stepPc, stepIn, stepFacts, stepEvents, stepWritten, stepFailed, stepRefs, stepResult>>

Mode == {"live", "dry_run", "fixture", "mock", "test"}
NoFacts == [known |-> FALSE, digest |-> FALSE, schema |-> FALSE, report |-> "none"]
NoStepResult == [status |-> "none", code |-> "none", refs |-> {}]
\* Where the call can end: it returned a result, or its promise was rejected.
Ended == {"returned", "rejected"}

StepInit ==
    /\ stepPc = "idle" /\ stepIn = "none" /\ stepFacts = NoFacts
    /\ stepEvents = <<>> /\ stepWritten = {} /\ stepRefs = {}
    /\ stepFailed = [store |-> {}, sink |-> {}]
    /\ stepResult = NoStepResult

\* scopedTaskFromStep: a call without a task of its own gets one made from the
\* descriptor, which names the capability and has its risk as the bound.
scopedTaskFromStep(p) == [p EXCEPT !.taskNamed = TRUE, !.maxTask = p.risk]

\* executionModeFromDryRun and the defaults of the call.
StepCall ==
    /\ stepPc = "idle"
    /\ \E p \in PolicyInput, mode \in Mode, inTest, sink \in BOOLEAN :
          stepIn' = [policy |-> scopedTaskFromStep(p), mode |-> mode,
                     inTest |-> inTest, sink |-> sink]
    /\ stepPc' = "resolve"
    /\ UNCHANGED <<stepFacts, stepEvents, stepWritten, stepFailed, stepRefs, stepResult>>

-----------------------------------------------------------------------------
(* Helpers                                                                 *)

\* emitRunEvent: nothing without a sink; otherwise the sink takes the event,
\* or throws out of the caller (next is where control goes then).
emitRunEvent(type, then, thrown) ==
    \/ /\ stepPc' = then
       /\ stepEvents' = IF stepIn.sink THEN Append(stepEvents, type) ELSE stepEvents
    \/ /\ stepIn.sink
       /\ stepPc' = thrown
       /\ UNCHANGED stepEvents

\* The events of one of these types, or about one of these artifacts.
EventAt(type) == {k \in DOMAIN stepEvents : stepEvents[k] \in type}

\* finish, first part: the result with its references.  The references collected
\* from the capability are passed only by the returns after the execution.
finish(status, code, refs) ==
    /\ stepResult' = [status |-> status, code |-> code, refs |-> refs]
    /\ stepPc' = "finish"

\* What a result without an output keeps of outputArtifactRefs: all of it.
refsOnFailure == stepRefs

\* The terminal event: a yield or a request for approval is a completion.
terminalEvent(status) ==
    IF status = "failed" THEN "capability.failed" ELSE "capability.completed"

\* normalizeErrorCode: what is not one of the runtime's codes becomes the
\* general one.  The SDK's own codes are among those lost.
normalizeErrorCode(code) ==
    IF code \in {"SCHEMA_VALIDATION_FAILED", "RESULT_VALIDATION_FAILED"}
    THEN code ELSE "MCP_EXECUTION_FAILED"

-----------------------------------------------------------------------------
(* The call, step by step                                                  *)

\* resolveCapabilityForStep and the digest comparison, both before any event.
StepResolve ==
    /\ stepPc = "resolve"
    /\ \E known, digest \in BOOLEAN :
          /\ stepFacts' = [stepFacts EXCEPT !.known = known, !.digest = known /\ digest]
          /\ CASE ~known -> finish("failed", "UNKNOWN_CAPABILITY", {})
               [] known /\ ~digest -> finish("failed", "CAPABILITY_DIGEST_MISMATCH", {})
               [] OTHER -> stepPc' = "start" /\ UNCHANGED stepResult
    /\ UNCHANGED <<stepIn, stepEvents, stepWritten, stepFailed, stepRefs>>

StepStart ==
    /\ stepPc = "start"
    /\ emitRunEvent("capability.started", "input", "rejected")
    /\ UNCHANGED <<stepIn, stepFacts, stepWritten, stepFailed, stepRefs, stepResult>>

StepInput ==
    /\ stepPc = "input"
    /\ \E ok \in BOOLEAN :
          /\ stepFacts' = [stepFacts EXCEPT !.schema = ok]
          /\ IF ok THEN stepPc' = "policy" /\ UNCHANGED stepResult
                   ELSE finish("failed", "SCHEMA_VALIDATION_FAILED", {})
    /\ UNCHANGED <<stepIn, stepEvents, stepWritten, stepFailed, stepRefs>>

StepPolicy ==
    /\ stepPc = "policy"
    /\ stepFacts' = [stepFacts EXCEPT !.report = evaluatePolicy(stepIn.policy)]
    /\ emitRunEvent("policy.evaluated", "decided", "rejected")
    /\ UNCHANGED <<stepIn, stepWritten, stepFailed, stepRefs, stepResult>>

\* What the decision and then the execution mode allow.
StepDecide ==
    /\ stepPc = "decided"
    /\ CASE stepFacts.report = "deny" -> finish("failed", "POLICY_DENIED", {})
         [] stepFacts.report = "yield" -> finish("yielded", "YIELDED", {})
         [] stepFacts.report = "requires_approval" ->
                finish("requires_approval", "APPROVAL_REQUIRED", {})
         [] stepFacts.report = "allow" /\ stepIn.mode = "mock" /\ ~stepIn.inTest ->
                finish("failed", "POLICY_DENIED", {})
         [] stepFacts.report = "allow" /\ stepIn.mode = "dry_run" ->
                finish("yielded", "YIELDED", {})
         [] OTHER -> stepPc' = "execute" /\ UNCHANGED stepResult
    /\ UNCHANGED <<stepIn, stepFacts, stepEvents, stepWritten, stepFailed, stepRefs>>

\* A rejection inside the capability: it is caught there, as the fetching of
\* several research sources does and a retry too, or it ends the capability.
caughtOrNot == stepPc' \in {"execute", "threw"}

\* The announcement of an artifact: the sink takes it, or rejects it.
announce(a) ==
    \/ /\ stepPc' = "execute"
       /\ stepEvents' = IF stepIn.sink THEN Append(stepEvents, a) ELSE stepEvents
       /\ UNCHANGED stepFailed
    \/ /\ stepIn.sink /\ caughtOrNot
       /\ stepFailed' = [stepFailed EXCEPT !.sink = @ \cup {a}]
       /\ UNCHANGED stepEvents

\* recordArtifact, called by the capability, for an id it has recorded before
\* too: the reference is kept first, then the artifact is stored, then announced.
StepRecordArtifact ==
    /\ stepPc = "execute" /\ Cardinality(EventAt(Artifact)) < MaxCreated
    /\ \E a \in Artifact :
          /\ stepRefs' = stepRefs \cup {a}
          /\ \/ /\ stepWritten' = stepWritten \cup {a}
                /\ announce(a)
             \/ /\ caughtOrNot
                /\ stepFailed' = [stepFailed EXCEPT !.store = @ \cup {a}]
                /\ UNCHANGED <<stepWritten, stepEvents>>
    /\ UNCHANGED <<stepIn, stepFacts, stepResult>>

\* executeCapability and executeDefinition: the capability returns an output
\* that fits its schema or not, or throws (its own error, or the rejection of a
\* call above); the runner then builds its result from theirs.
StepExecuted ==
    /\ stepPc \in {"execute", "threw"}
    /\ \/ /\ stepPc = "execute"
          /\ finish("success", "none", stepRefs)
       \/ /\ stepPc = "execute"
          /\ finish("failed", normalizeErrorCode("RESULT_VALIDATION_FAILED"), refsOnFailure)
       \/ finish("failed", normalizeErrorCode("CAPABILITY_EXECUTION_FAILED"), refsOnFailure)
    /\ UNCHANGED <<stepIn, stepFacts, stepEvents, stepWritten, stepFailed, stepRefs>>

\* finish, second part: the approval event, then the terminal event.
StepFinish ==
    /\ stepPc \in {"finish", "asked"}
    /\ IF stepPc = "finish" /\ stepResult.status = "requires_approval"
       THEN emitRunEvent("approval.requested", "asked", "rejected")
       ELSE emitRunEvent(terminalEvent(stepResult.status), "returned", "rejected")
    /\ UNCHANGED <<stepIn, stepFacts, stepWritten, stepFailed, stepRefs, stepResult>>

StepNext ==
    \/ StepCall \/ StepResolve \/ StepStart \/ StepInput \/ StepPolicy
    \/ StepDecide \/ StepRecordArtifact \/ StepExecuted \/ StepFinish

StepSpec == StepInit /\ [][StepNext]_stepVars

-----------------------------------------------------------------------------
(* Properties                                                              *)

Terminal == {"capability.failed", "capability.completed"}

\* The capability's code ran only in a step that found the capability, the
\* digest the plan was checked against and a valid input, never in a dry run,
\* under "mock" only in tests, and within every bound the gate was given: those
\* of the delegation too, although the step's task is made from the capability.
RunsOnlyCleared ==
    stepPc \in {"execute", "threw"} \/ stepWritten # {} =>
        /\ stepFacts.known /\ stepFacts.digest /\ stepFacts.schema
        /\ stepIn.mode # "dry_run" /\ (stepIn.mode = "mock" => stepIn.inTest)
        /\ LET p == stepIn.policy
           IN  /\ p.risk <= p.maxDelegated /\ p.risk <= p.maxWithout
               /\ p.risk \notin p.approvalFor /\ ~p.approval
               /\ ~p.deniedScope /\ ~p.expired /\ ~p.blankKey
               /\ p.used < AttemptBound

\* Every artifact is accounted for, whatever was rejected on the way and whether
\* or not the capability told of it: none is announced before the store has it;
\* what the store has is in the references of the returned result, of a failed
\* one too, and was announced unless the sink rejected that; and a reference to
\* what the store has not is to an artifact that the store rejected.  A
\* successful step may well have both: its references are no proof of a store.
ArtifactsAccountedFor ==
    /\ \A k \in EventAt(Artifact) : stepEvents[k] \in stepWritten
    /\ stepPc = "returned" =>
          /\ stepWritten \subseteq stepResult.refs
          /\ stepResult.refs \subseteq stepWritten \cup stepFailed.store
          /\ stepIn.sink => \A a \in stepWritten \ stepFailed.sink : EventAt({a}) # {}

\* The events tell the story in order and end it once: a terminal event is the
\* last one, there is exactly one of them in a step that returned to a caller
\* with a sink, and it says failed exactly when the result does.
EventsTellTheResult ==
    /\ \A k \in EventAt(Terminal) : k = Len(stepEvents) /\ stepPc \in Ended
    /\ stepPc = "returned" /\ stepIn.sink =>
          /\ EventAt(Terminal) # {}
          /\ Last(stepEvents) = IF stepResult.status = "failed"
                                THEN "capability.failed" ELSE "capability.completed"
          /\ stepResult.status = "requires_approval" <=> EventAt({"approval.requested"}) # {}
    /\ EventAt(Artifact) # {} =>
          SubSeq(stepEvents, 1, 2) = <<"capability.started", "policy.evaluated">>

\* A step runs only what was cleared, and its result and its events account
\* for all that it did.
StepAccounted == RunsOnlyCleared /\ ArtifactsAccountedFor /\ EventsTellTheResult
=============================================================================
