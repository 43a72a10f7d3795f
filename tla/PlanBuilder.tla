----------------------------- MODULE PlanBuilder -----------------------------
(***************************************************************************)
(* A Plan Builder session (planning/plan-builder-loop.ts, plan-builder-    *)
(* session.ts, plan-simulation.ts, plan-revision.ts) and the edits of its  *)
(* Planfile (editable-planfile-reconciler.ts, planfile-diff.ts), as the    *)
(* command line, the terminal UI and the web handlers drive them.          *)
(*                                                                         *)
(* A session is one file.  Every operation reads it, waits (for the        *)
(* profile, the model or artifact writes), works on its copy and writes    *)
(* the whole session: operations of two front ends interleave between the  *)
(* read and the write.  A plan is reduced to what the questions, the       *)
(* simulation and the safety checks look at: the risk of its worst node,   *)
(* whether it searches, its schedule, and whether it validates.  Answers,  *)
(* texts, digests and dates are left out.                                  *)
(***************************************************************************)
EXTENDS Integers, FiniteSets

CONSTANTS
    Actor,         \* front ends at work on the session
    PbPlan,        \* plans a composer, a model or an editor may produce
    PbProfiles,    \* what the runtime may offer: sets of "search", "credentials"
    MaxRevisions, MaxModelCalls,
    PbOpBound      \* operations started

\* What is kept of a plan.
PlanShape ==
    [risk : {"none", "read", "external", "destructive"}, search : BOOLEAN,
     sched : {"none", "no_time", "time"}, valid : BOOLEAN]

ASSUME BuilderAssumption ==
    /\ PbPlan \subseteq PlanShape
    /\ MaxRevisions \in Nat /\ MaxModelCalls \in Nat /\ PbOpBound \in Nat

VARIABLES
    pbDisk,    \* the session file
    pbOp,      \* actor -> operation at work, with its copy
    pbGiven,   \* history: questions answered since the session was made
    pbClash,   \* history: operations overlapped since then
    pbOps

pbVars == <<pbDisk, pbOp, pbGiven, pbClash, pbOps>>

NoPlan == [risk |-> "none", search |-> FALSE, sched |-> "none", valid |-> FALSE]

\* sim and val are the last reports.  unseen: no simulation since a model revised
\* the plan; base: the plan as the composer, the import or the model made it;
\* confirmed: what edits since then were allowed to do.
NoSession == [plan |-> NoPlan, sim |-> "none", val |-> FALSE, pending |-> {}, answered |-> {},
              models |-> 0, status |-> "none", unseen |-> FALSE, base |-> NoPlan, confirmed |-> {}]

NoOp == [phase |-> "idle", copy |-> NoSession, turns |-> 0, calls |-> 0, route |-> FALSE]

PbInit ==
    /\ pbDisk = NoSession /\ pbOp = [a \in Actor |-> NoOp] /\ pbGiven = {}
    /\ pbClash = FALSE /\ pbOps = 0

-----------------------------------------------------------------------------
(* simulatePlanfile                                                        *)

Question == {"schedule_time", "search_provider", "external_side_effect", "destructive_action"}

\* planQuestions; only a side effect is merely to be clarified.
planQuestions(plan, profile) ==
    {q \in Question :
        \/ q = "schedule_time" /\ plan.sched = "no_time"
        \/ q = "search_provider" /\ plan.search /\ "search" \notin profile
        \/ q = "external_side_effect" /\ plan.risk = "external"
        \/ q = "destructive_action" /\ plan.risk = "destructive"}

Blocking(questions) == questions \ {"external_side_effect"}

\* missing_providers, missing_credentials or missing_packs
missing(plan, profile) ==
    \/ plan.search /\ "search" \notin profile
    \/ plan.risk = "external" /\ "credentials" \notin profile

\* valid is the validation the caller hands in, which may be of an older plan.
simulatePlanfile(plan, valid, profile) ==
    CASE ~valid -> "invalid"
      [] valid /\ plan.risk = "destructive" -> "unsafe"
      [] valid /\ plan.risk # "destructive" /\ Blocking(planQuestions(plan, profile)) # {} -> "needs_input"
      [] OTHER -> IF missing(plan, profile) THEN "missing_requirements" ELSE "ready"

-----------------------------------------------------------------------------
(* The steps on a copy of the session                                      *)

yielded(s) == [s EXCEPT !.status = "yielded"]

\* mergeQuestions: what was pending stays, and what was answered is asked again.
mergeQuestions(current, next) == current \cup next

simulatePlan(s, profile) ==
    LET sim == simulatePlanfile(s.plan, s.val, profile)
    IN  IF s.plan = NoPlan THEN yielded(s)
        ELSE [s EXCEPT !.sim = sim, !.unseen = FALSE,
                       !.pending = mergeQuestions(@, planQuestions(s.plan, profile)),
                       !.status = CASE sim = "ready" -> "validating"
                                    [] sim \in {"needs_input", "missing_requirements"} -> "needs_input"
                                    [] OTHER -> "yielded"]

\* Mutant: open questions do not hold a valid plan back.
readyIfValid(s) == IF s.plan.valid THEN "ready" ELSE IF s.pending # {} THEN "needs_input" ELSE "yielded"

\* validatePlan: the last simulation, or no open question, makes a valid plan ready.
validated(s) ==
    CASE s.plan.valid /\ (s.sim = "ready" \/ s.pending = {}) -> "ready"
      [] ~(s.plan.valid /\ s.sim = "ready") /\ s.pending # {} -> "needs_input"
      [] OTHER -> "yielded"

validatePlan(s) ==
    IF s.plan = NoPlan THEN yielded(s) ELSE [s EXCEPT !.val = s.plan.valid, !.status = validated(s)]

\* An answer to a question that is not pending yields the session.
answerQuestion(s, q) ==
    IF q \notin s.pending THEN yielded(s)
    ELSE [s EXCEPT !.pending = @ \ {q}, !.answered = @ \cup {q},
                   !.plan = IF q = "schedule_time" /\ @ # NoPlan THEN [@ EXCEPT !.sched = "time"] ELSE @,
                   !.status = IF Blocking(s.pending \ {q}) # {} THEN "needs_input" ELSE "validating"]

\* acceptDefaultAnswers: the answers one after the other.
acceptDefaultAnswers(s) ==
    IF s.pending = {} THEN s
    ELSE [s EXCEPT !.pending = {}, !.answered = @ \cup s.pending, !.status = "validating",
                   !.plan = IF "schedule_time" \in s.pending /\ @ # NoPlan
                            THEN [@ EXCEPT !.sched = "time"] ELSE @]

\* The bound on model revisions counts those in the history of the copy.
callsLeft(s) == s.models < MaxModelCalls

\* revisePlan: a plan that validates only has its metadata refreshed; otherwise a
\* model is asked, if there is a route and a call left.  next is its answer,
\* NoPlan for an error.
asksModel(s, route) == s.plan # NoPlan /\ ~s.plan.valid /\ route /\ callsLeft(s)

revisePlan(s, route, next) ==
    CASE s.plan # NoPlan /\ s.plan.valid -> validatePlan(s)
      [] asksModel(s, route) /\ next # NoPlan ->
            validatePlan([s EXCEPT !.plan = next, !.models = @ + 1, !.unseen = TRUE,
                                   !.base = next, !.confirmed = {}])
      [] OTHER -> yielded(s)

Settled(s) == s.status \in {"ready", "needs_input"}

-----------------------------------------------------------------------------
(* Operations of the front ends                                            *)

Saved(s) == pbDisk' = s

\* composeInitialPlan: a prompt given again makes the same session anew.
Compose(a) ==
    /\ pbOp[a] = NoOp /\ pbOps < PbOpBound /\ pbOps' = pbOps + 1
    /\ \E plan \in PbPlan, profile \in PbProfiles :
          LET sim     == simulatePlanfile(plan, plan.valid, profile)
              pending == planQuestions(plan, profile)
          IN  Saved([NoSession EXCEPT
                !.plan = plan, !.base = plan, !.sim = sim, !.val = plan.valid, !.pending = pending,
                !.status = CASE sim = "ready" -> "ready"
                             [] sim = "invalid" /\ Blocking(pending) = {} -> "yielded"
                             [] OTHER -> "needs_input"])
    /\ pbGiven' = {} /\ pbClash' = (\E b \in Actor : pbOp[b] # NoOp)
    /\ UNCHANGED pbOp

\* importBuilderPlanfileFromMarkdown; the file may name the session it came from.
\* A plan that is invalid or unsafe is not kept, its questions are.
Import(a) ==
    /\ pbOp[a] = NoOp /\ pbOps < PbOpBound /\ pbOps' = pbOps + 1
    /\ \E plan \in PbPlan, profile \in PbProfiles :
          LET sim    == simulatePlanfile(plan, plan.valid, profile)
              status == CASE sim = "ready" -> "ready"
                          [] sim \in {"needs_input", "missing_requirements"} -> "needs_input"
                          [] OTHER -> "yielded"
          IN  Saved([NoSession EXCEPT
                !.plan = IF status = "yielded" THEN NoPlan ELSE plan, !.base = plan, !.sim = sim,
                !.val = plan.valid, !.pending = planQuestions(plan, profile), !.status = status])
    /\ pbGiven' = {} /\ pbClash' = (\E b \in Actor : pbOp[b] # NoOp)
    /\ UNCHANGED pbOp

\* An operation reads the session and has its copy.
Begin(a, phase, copy, route) ==
    /\ pbOp[a] = NoOp /\ pbDisk # NoSession /\ pbOps < PbOpBound /\ pbOps' = pbOps + 1
    /\ pbOp' = [pbOp EXCEPT ![a] = [NoOp EXCEPT !.phase = phase, !.copy = copy, !.route = route]]
    /\ pbClash' = (pbClash \/ \E b \in Actor : pbOp[b] # NoOp)
    /\ UNCHANGED pbDisk

\* The web answers and stabilizes, the other front ends only answer.  The page or
\* the command may name a question that is no longer pending.
Answer(a) ==
    \E q \in Question, phase \in {"save", "stabilize"} :
        /\ Begin(a, phase, answerQuestion(pbDisk, q), FALSE)
        /\ pbGiven' = IF q \in pbDisk.pending THEN pbGiven \cup {q} ELSE pbGiven

\* The terminal UI then simulates and validates, the others stabilize.
AcceptDefaults(a) ==
    /\ \E phase \in {"check", "stabilize"} : Begin(a, phase, acceptDefaultAnswers(pbDisk), FALSE)
    /\ pbGiven' = pbGiven \cup pbDisk.pending

Validate(a) == Begin(a, "check", pbDisk, FALSE) /\ UNCHANGED pbGiven

Revise(a) == \E route \in BOOLEAN : Begin(a, "revise", pbDisk, route) /\ UNCHANGED pbGiven

Edit(a) == pbDisk.plan # NoPlan /\ Begin(a, "edit", pbDisk, FALSE) /\ UNCHANGED pbGiven

Working(a, phase) ==
    pbOp[a].phase = phase /\ UNCHANGED <<pbGiven, pbClash, pbOps>>

Continue(a, phase, copy, calls, turns) ==
    /\ pbOp' = [pbOp EXCEPT ![a].phase = phase, ![a].copy = copy,
                            ![a].calls = @ + calls, ![a].turns = @ + turns]
    /\ UNCHANGED pbDisk

\* The planner's answers to a copy, with the number of calls they took.
Answers(s, route) == IF asksModel(s, route) THEN PbPlan \cup {NoPlan} ELSE {NoPlan}
Calls(s, route) == IF asksModel(s, route) THEN 1 ELSE 0

ReviseCopy(a) ==
    LET op == pbOp[a]
    IN  /\ Working(a, "revise")
        /\ \E next \in Answers(op.copy, op.route) :
              Continue(a, "stabilize", revisePlan(op.copy, op.route, next), Calls(op.copy, op.route), 0)

\* One turn of stabilizePlan; the turn over the bound gives up.
Stabilize(a) ==
    LET op == pbOp[a]
    IN  /\ Working(a, "stabilize")
        /\ \/ /\ op.turns < MaxRevisions
              /\ \E profile \in PbProfiles :
                    LET s == validatePlan(simulatePlan(op.copy, profile))
                    IN  IF Settled(s) THEN Continue(a, "save", s, 0, 1)
                        ELSE \E next \in Answers(s, op.route) :
                               LET r == revisePlan(s, op.route, next)
                               IN  Continue(a, IF Settled(r) THEN "save" ELSE "stabilize", r,
                                            Calls(s, op.route), 1)
           \/ op.turns >= MaxRevisions /\ Continue(a, "save", yielded(op.copy), 0, 0)

\* simulatePlan and validatePlan, the way the validate commands call them.
CheckCopy(a) ==
    /\ Working(a, "check")
    /\ \E profile \in PbProfiles : Continue(a, "save", validatePlan(simulatePlan(pbOp[a].copy, profile)), 0, 0)

SaveCopy(a) ==
    /\ Working(a, "save")
    /\ Saved(pbOp[a].copy) /\ pbOp' = [pbOp EXCEPT ![a] = NoOp]

-----------------------------------------------------------------------------
(* Edits of the Planfile                                                   *)

Confirmation == {"allow_new_capabilities", "allow_risk_increase", "allow_schedule_change"}

riskRank(risk) == CASE risk = "external" -> 2 [] risk = "destructive" -> 3 [] OTHER -> 0

\* What of diffPlanfiles the safety checks ask for.
diffPlanfiles(previous, next) ==
    {c \in Confirmation :
        \/ c = "allow_new_capabilities" /\ next.search /\ ~previous.search
        \/ c = "allow_risk_increase" /\ riskRank(next.risk) > riskRank(previous.risk)
        \/ c = "allow_schedule_change" /\ next.sched # previous.sched}

\* safetyErrorsFor finds nothing.
safe(previous, next, options) == diffPlanfiles(previous, next) \subseteq options

\* reconcileForSession: the edited plan against the plan of the copy; NoPlan is a
\* text that does not parse.  A rejected edit saves the copy with a history entry.
EditCopy(a) ==
    LET s == pbOp[a].copy
    IN  /\ Working(a, "edit")
        /\ \E next \in PbPlan \cup {NoPlan}, options \in SUBSET Confirmation, profile \in PbProfiles :
              LET sim      == simulatePlanfile(next, TRUE, profile)
                  accepted == next # NoPlan /\ next.valid /\ safe(s.plan, next, options) /\ sim # "unsafe"
              IN  Continue(a, "save",
                    IF accepted
                    THEN [s EXCEPT !.plan = next, !.val = TRUE, !.sim = sim, !.unseen = FALSE,
                                   !.pending = planQuestions(next, profile),
                                   !.confirmed = @ \cup options,
                                   !.status = IF sim = "ready" THEN "ready" ELSE "needs_input"]
                    ELSE s, 0, 0)

PbNext ==
    \E a \in Actor :
        \/ Compose(a) \/ Import(a) \/ Answer(a) \/ AcceptDefaults(a) \/ Validate(a)
        \/ Revise(a) \/ Edit(a) \/ ReviseCopy(a) \/ Stabilize(a) \/ CheckCopy(a)
        \/ SaveCopy(a) \/ EditCopy(a)

PbSpec == PbInit /\ [][PbNext]_pbVars

-----------------------------------------------------------------------------
(* Properties                                                              *)

\* Whoever wrote last and however stale its reports are, a session that is ready
\* has a Planfile that validates.
ReadyIsValid == pbDisk.status = "ready" => pbDisk.plan.valid

\* A ready plan does nothing the user was not asked about: it is destructive only
\* after that question was answered and scheduled only with a time, unless a
\* model revised it after the last simulation.
RiskWasAsked ==
    pbDisk.status = "ready" /\ ~pbDisk.unseen =>
        /\ pbDisk.plan.risk = "destructive" => "destructive_action" \in pbDisk.answered
        /\ pbDisk.plan.sched # "no_time"

\* A stored session has at most the allowed number of model revisions, and one
\* operation asks at most once for each of its turns, failed calls included.
ModelCallsBounded ==
    /\ pbDisk.models <= MaxModelCalls
    /\ \A a \in Actor : pbOp[a].calls <= MaxRevisions + 1

\* While operations do not overlap, no answer is lost: not to a revision, to an
\* edit or to a question that is asked again.
AnswersKept ==
    ~pbClash /\ (\A a \in Actor : pbOp[a] = NoOp) => pbGiven \subseteq pbDisk.answered

\* Over any number of edits, a plan that is riskier, searches or is scheduled
\* otherwise than it was made had that confirmed in some edit since, or has its
\* time from the answer to the schedule question.
DriftConfirmed ==
    pbDisk.plan # NoPlan =>
        diffPlanfiles(pbDisk.base, pbDisk.plan) \subseteq
            pbDisk.confirmed \cup
                (IF "schedule_time" \in pbDisk.answered THEN {"allow_schedule_change"} ELSE {})

\* A session keeps its word: ready stands for a valid plan whose risks were
\* put to the user, within the calls allowed, with the answers given.
BuilderKeepsItsWord ==
  /\ ReadyIsValid
  /\ RiskWasAsked
  /\ ModelCallsBounded
  /\ AnswersKept
  /\ DriftConfirmed
=============================================================================
