------------------------------ MODULE EvalRun -------------------------------
(***************************************************************************)
(* A live benchmark (evals/benchmark-runner.ts, evals/scenario-runner.ts): *)
(* every scenario is run through every model route, in a workspace of its  *)
(* own, and each pair becomes one row of the report.                       *)
(*                                                                         *)
(* A scenario is its success criteria; the plan run inside is the outcome  *)
(* that RepositoryRun models: a status, whether a verification report and  *)
(* errors were recorded, the files changed.  Patterns in the patch text    *)
(* are found or not.  Tokens, times and the other counts of a row are left *)
(* out; that a pair called a model is kept.                                *)
(***************************************************************************)
EXTENDS Naturals, Sequences, FiniteSets, SequencesExt

CONSTANTS
    EvScenarios,  \* sequence of scenarios: [must_verify, required, forbidden, pattern]
    EvRoutes,     \* sequence of routes: [apply, providers]: the roles that have a provider
    EvOutcome     \* what a plan run may come to: [status, reports, errors, changed, pattern]

ASSUME EvalAssumption ==
    EvScenarios \in Seq(Range(EvScenarios)) /\ EvRoutes \in Seq(Range(EvRoutes))

VARIABLES
    evPc,        \* "idle", "next", "plan", "apply", "patch", "done", "rejected"
    evRetain, evMode,
    evTodo,      \* pairs <<scenario, route>> left, the first is current
    evWhole,     \* the pairs the benchmark was asked for
    evOutcome,   \* what applyRepositoryPlanfile returned
    evRows,      \* metrics
    evDirs,      \* workspaces on disk
    evCalled     \* history: pairs that called a model

evVars == <<evPc, evRetain, evMode, evTodo, evWhole, evOutcome, evRows, evDirs, evCalled>>

NoOutcome == [status |-> "none"]

EvInit ==
    /\ evPc = "idle" /\ evRetain = FALSE /\ evMode = "model" /\ evTodo = <<>> /\ evWhole = <<>>
    /\ evOutcome = NoOutcome /\ evRows = <<>> /\ evDirs = {}
    /\ evCalled = {}

scenario == EvScenarios[Head(evTodo)[1]]
route == EvRoutes[Head(evTodo)[2]]

-----------------------------------------------------------------------------

\* The one that has the id, or none.
OneOf(all, id) == IF id \in DOMAIN all THEN <<id>> ELSE <<>>

\* filterScenarios and the route filter: 0 stands for an option not given; an
\* unknown route leaves no route.
filterScenarios(only, max) ==
    LET all == [i \in DOMAIN EvScenarios |-> i]
        chosen == IF only = 0 THEN all ELSE OneOf(all, only)
    IN  IF max = 0 THEN chosen ELSE SubSeq(chosen, 1, IF max < Len(chosen) THEN max ELSE Len(chosen))

routesFor(only) ==
    LET all == [i \in DOMAIN EvRoutes |-> i]
    IN  IF only = 0 THEN all ELSE OneOf(all, only)

\* runModelRoutingBenchmark, runLiveMetrics: scenarios outside, routes inside.
BeginBenchmark(one, max, onlyRoute, retain, mode) ==
    LET ss == filterScenarios(one, max)
        rs == routesFor(onlyRoute)
        row(i) == [j \in DOMAIN rs |-> <<ss[i], rs[j]>>]
        todo == FlattenSeq([i \in DOMAIN ss |-> row(i)])
    IN  /\ evPc = "idle" /\ evPc' = "next"
        /\ evRetain' = retain /\ evMode' = mode /\ evTodo' = todo /\ evWhole' = todo
        /\ UNCHANGED <<evOutcome, evRows, evDirs, evCalled>>

\* Planning uses a model only on a route that applies.
planningMode == IF route.apply THEN evMode ELSE "deterministic"

\* Mutant: only the implementer's provider is looked for.
implementerOnly == ~route.apply \/ "implementer" \in route.providers

\* hasLiveProviderForRoute: every role the route may call has a provider; the
\* planner only when planning needs it.
hasLiveProviderForRoute ==
    ~route.apply \/ ({"implementer", "repair", "reviewer", "escalation"}
                        \cup (IF planningMode = "model" THEN {"planner"} ELSE {})) \subseteq route.providers

Row(status, verification, changed) ==
    [pair |-> Head(evTodo), status |-> status, verified |-> verification, changed |-> changed]

\* cleanup, in the finally block: the workspace goes unless it is to be kept.
cleanup(x) == IF evRetain THEN evDirs ELSE evDirs \ {x}

\* A row is the last thing a pair does.
Push(row) ==
    /\ evRows' = Append(evRows, row) /\ evTodo' = Tail(evTodo)
    /\ evPc' = "next" /\ evOutcome' = NoOutcome

SkipRoute ==
    /\ evPc = "next" /\ evTodo # <<>> /\ ~hasLiveProviderForRoute
    /\ Push(Row("skipped", FALSE, {}))
    /\ UNCHANGED <<evRetain, evMode, evWhole, evDirs, evCalled>>

\* createScenarioWorkspace: copying and git may fail, and this call is before the
\* try: the benchmark rejects, the directory stays and no report is written.
CreateWorkspace ==
    /\ evPc = "next" /\ evTodo # <<>> /\ hasLiveProviderForRoute
    /\ evDirs' = evDirs \cup {Head(evTodo)}
    /\ evPc' \in {"plan", "rejected"}
    /\ UNCHANGED <<evRetain, evMode, evTodo, evWhole, evOutcome, evRows, evCalled>>

\* A role of the current route is called.
Called == evCalled' = evCalled \cup {Head(evTodo)}

Errored ==
    /\ Push(Row("errored", FALSE, {}))
    /\ evDirs' = cleanup(Head(evTodo))

\* createRepositoryPlanfile: a model plans when the mode asks for one; where it
\* cannot, the plan is the deterministic one if the mode allows it, and otherwise
\* the pair has failed.
CreatePlanfile ==
    /\ evPc = "plan"
    /\ IF planningMode = "deterministic" \/ "planner" \notin route.providers THEN UNCHANGED evCalled ELSE Called
    /\ \/ evPc' = "apply" /\ UNCHANGED <<evTodo, evRows, evOutcome, evDirs>>
       \/ planningMode = "model" /\ Errored
    /\ UNCHANGED <<evRetain, evMode, evWhole>>

\* applyRepositoryPlanfile with the route's generators: the patch and the review are
\* a model's, except on the preview route, which calls nobody.
ApplyPlanfile(o) ==
    /\ evPc = "apply" /\ evPc' = "patch" /\ evOutcome' = o
    /\ IF route.apply THEN Called ELSE UNCHANGED evCalled
    /\ UNCHANGED <<evRetain, evMode, evTodo, evWhole, evRows, evDirs>>

\* Anything that throws between the workspace and the row, exportFinalPatch whose
\* patch does not apply to the base included.
Throws ==
    /\ evPc \in {"apply", "patch"} /\ Errored
    /\ UNCHANGED <<evRetain, evMode, evWhole, evCalled>>

forbiddenFiles(s) == s.forbidden

verified(o) == o.reports /\ ~o.errors

\* evaluateSuccessCriteria: an exported patch has passed the check against the base.
evaluateSuccessCriteria(s, o) ==
    /\ s.must_verify => verified(o)
    /\ s.required \subseteq o.changed
    /\ o.changed \cap forbiddenFiles(s) = {}
    /\ s.pattern => o.pattern

\* Yielded before all else; passed needs the criteria and a completed plan.
RowStatus(o) ==
    IF o.status = "yielded" THEN "yielded"
    ELSE IF evaluateSuccessCriteria(scenario, o) /\ o.status = "completed" THEN "passed" ELSE "failed"

FinishRow ==
    /\ evPc = "patch"
    /\ Push(Row(RowStatus(evOutcome), verified(evOutcome), evOutcome.changed))
    /\ evDirs' = cleanup(Head(evTodo))
    /\ UNCHANGED <<evRetain, evMode, evWhole, evCalled>>

\* The report, its three files and the index entries.
WriteReport ==
    /\ evPc = "next" /\ evTodo = <<>> /\ evPc' = "done"
    /\ UNCHANGED <<evRetain, evMode, evTodo, evWhole, evOutcome, evRows, evDirs, evCalled>>

EvNext ==
    \/ \E one \in 0..Len(EvScenarios), max \in 0..1, r \in 0..Len(EvRoutes) + 1, keep \in BOOLEAN,
          mode \in {"deterministic", "model", "fallback"} :
         BeginBenchmark(one, max, r, keep, mode)
    \/ SkipRoute \/ CreateWorkspace \/ CreatePlanfile \/ Throws \/ FinishRow \/ WriteReport
    \/ \E o \in EvOutcome : ApplyPlanfile(o)

EvSpec == EvInit /\ [][EvNext]_evVars

-----------------------------------------------------------------------------

(***************************************************************************)
(* A report has one row for every pair it was asked for, in order, however *)
(* many of them were skipped or threw.                                     *)
(***************************************************************************)
OneRowEach == evPc = "done" => [i \in DOMAIN evRows |-> evRows[i].pair] = evWhole

(***************************************************************************)
(* A row that passed stands for a change that meets the scenario: nothing  *)
(* forbidden was changed, all that is required was, and where the scenario *)
(* asks for a verification one was reported and no error was.              *)
(***************************************************************************)
PassedIsEarned ==
    \A i \in DOMAIN evRows : evRows[i].status = "passed" =>
        LET s == EvScenarios[evRows[i].pair[1]]
        IN  /\ evRows[i].changed \cap s.forbidden = {} /\ s.required \subseteq evRows[i].changed
            /\ s.must_verify => evRows[i].verified

(***************************************************************************)
(* No workspace outlives its pair unless it was to be kept: also when the  *)
(* plan threw.  Only a workspace that could not be set up is left behind,  *)
(* with a benchmark that ends there.                                       *)
(***************************************************************************)
WorkspacesCleaned ==
    evPc \in {"next", "done"} /\ ~evRetain => evDirs = {}

(***************************************************************************)
(* A route that is skipped has called no model, and a route that lacks a   *)
(* provider for a role it may come to need is found out before its first   *)
(* call, not after calls that were paid for.                               *)
(***************************************************************************)
SkippedIsFree ==
    /\ \A i \in DOMAIN evRows : evRows[i].status = "skipped" => evRows[i].pair \notin evCalled
    /\ \A x \in evCalled : {"implementer", "repair", "reviewer", "escalation"} \subseteq EvRoutes[x[2]].providers

\* A benchmark is fair: a row for every pair, passes that were earned, no
\* workspace left and no call for a route that is skipped.
BenchmarkFair == OneRowEach /\ PassedIsEarned /\ WorkspacesCleaned /\ SkippedIsFree
=============================================================================
