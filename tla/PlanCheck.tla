------------------------------ MODULE PlanCheck ------------------------------
(***************************************************************************)
(* runPlanCheck (planning/plan-check.ts) with the requirements it derives  *)
(* (plan-requirements.ts), and what depends on its verdict: runs made from *)
(* a plan file and the schedule records of schedule-records.ts.            *)
(*                                                                         *)
(* A plan is reduced to the facts the check looks at, with one node whose  *)
(* risk, approval flag and execution mode matter.  The runtime profile may *)
(* change at any time.  Labels, suggested commands and digests are left    *)
(* out: a plan is its own digest.                                          *)
(***************************************************************************)
EXTENDS Naturals, FiniteSets

CONSTANTS
    CkPlan,     \* plan files
    CkSecret,   \* names of credentials
    CkProfile,  \* runtime profiles
    SchedBound  \* schedule requests

VARIABLES
    ckPlan, ckProfile,
    ckReport,    \* report of the last check, of that plan and profile
    ckSchedules, \* the schedule index: plan, cadence and time
    ckAsked      \* schedule requests made

ckVars == <<ckPlan, ckProfile, ckReport, ckSchedules, ckAsked>>

NoReport == [status |-> "none", portability |-> "none", missing |-> {}, approvals |-> {},
             actions |-> {}, live |-> FALSE]

\* Without a profile nothing is configured; a check may be made without one.
NoProfile == [name |-> "none", search |-> {}, secrets |-> {}]

NoPlanfile == [caps |-> {}, urls |-> FALSE, provider |-> "none", credentials |-> {}, explicit |-> {},
               root |-> "none", modes |-> {}, template |-> "none", mode |-> "live", demo |-> FALSE,
               risk |-> "none", approval |-> FALSE, destructive_goal |-> FALSE, cyclic |-> FALSE,
               schedule |-> "none"]

CkInit ==
    /\ ckPlan = NoPlanfile /\ ckProfile = NoProfile /\ ckReport = NoReport
    /\ ckSchedules = {} /\ ckAsked = 0

-----------------------------------------------------------------------------
(* derivePlanRequirements                                                  *)

\* A search needs the provider its parameters name, else any; not with urls.
requiredProviders(plan) ==
    (IF "search" \in plan.caps /\ ~plan.urls
     THEN {IF plan.provider = "none" THEN "search" ELSE plan.provider} ELSE {})
        \cup (IF "repo" \in plan.caps THEN {"workspace"} ELSE {}) \cup plan.explicit

Enabled(profile) == {p \in profile.search : p.enabled}

hasLiveSearchProvider(profile) == \E p \in Enabled(profile) : p.kind # "fixture"

missingProviders(plan, profile) ==
    {p \in requiredProviders(plan) \ {"workspace"} :
        IF p = "search" THEN ~hasLiveSearchProvider(profile)
        ELSE \A config \in Enabled(profile) : config.id # p}

missingCredentials(plan, profile) == plan.credentials \ profile.secrets

machineFirst(plan) ==
    CASE plan.root # "none" \/ "workspace" \in requiredProviders(plan) -> "workspace_bound"
      [] OTHER -> "portable"

\* The strongest bond wins.
portabilityFor(plan) ==
    CASE plan.root = "absolute" -> "machine_bound"
      [] plan.root # "absolute"
         /\ (plan.credentials # {} \/ requiredProviders(plan) \ {"workspace"} # {}) -> "profile_bound"
      [] OTHER -> machineFirst(plan)

-----------------------------------------------------------------------------
(* validatePlanfile, as far as the node and its context matter             *)

Writes(risk) == risk \in {"write", "destructive"}

issues(plan) ==
    {i \in {"INVALID_PLAN", "APPROVAL_REQUIRED", "DESTRUCTIVE_GOAL_NOT_EXPLICIT", "CYCLE_DETECTED"} :
        \/ i = "INVALID_PLAN" /\ plan.mode = "fixture" /\ ~plan.demo
        \/ i = "APPROVAL_REQUIRED" /\ Writes(plan.risk) /\ ~plan.approval
        \/ i = "DESTRUCTIVE_GOAL_NOT_EXPLICIT" /\ plan.risk = "destructive"
              /\ (~plan.approval \/ ~plan.destructive_goal)
        \/ i = "CYCLE_DETECTED" /\ plan.cyclic}

\* Mutant: a destructive goal that is not explicit is no hard error either.
structuralErrors(plan) == issues(plan) \ {"APPROVAL_REQUIRED", "DESTRUCTIVE_GOAL_NOT_EXPLICIT"}

\* A missing approval flag is no hard error: the check turns it into an approval.
hardErrors(plan) == issues(plan) \ {"APPROVAL_REQUIRED"}

-----------------------------------------------------------------------------
(* runPlanCheck                                                            *)

\* runtimeRequirements: every profile but "remote" counts as local.
runtimeMissing(plan, profile) ==
    plan.modes # {} /\ (IF profile.name = "remote" THEN "remote" ELSE "local") \notin plan.modes

missingRequired(plan, profile) ==
    missingProviders(plan, profile) \cup missingCredentials(plan, profile)
        \cup (IF runtimeMissing(plan, profile) THEN {"runtime.mode"} ELSE {})
        \cup (IF plan.template = "research.digest" THEN {"template.research.digest"} ELSE {})

fromNodes(plan) == IF plan.approval THEN {"n"} ELSE {}

\* The nodes that say they need approval, and those the validator says so of.
approvalRequirements(plan) ==
    fromNodes(plan) \cup (IF "APPROVAL_REQUIRED" \in issues(plan) THEN {"n"} ELSE {})

\* Every node has a side effect to report, "read" for one, so that no plan with a
\* node is runnable without a warning.
runPlanCheck(plan, profile, live) ==
    LET unsafe == \/ "DESTRUCTIVE_GOAL_NOT_EXPLICIT" \in hardErrors(plan)
                  \/ plan.mode = "fixture" /\ live
        gaps   == missingRequired(plan, profile)
    IN  [status      |-> CASE hardErrors(plan) # {} -> IF unsafe THEN "unsafe" ELSE "invalid"
                           [] hardErrors(plan) = {} /\ gaps # {} -> "missing_requirements"
                           [] OTHER -> "runnable_with_warnings",
         portability |-> portabilityFor(plan), missing |-> gaps,
         approvals   |-> approvalRequirements(plan),
         actions     |-> gaps \cup approvalRequirements(plan)
                            \cup (IF hardErrors(plan) # {} THEN {"edit_plan"} ELSE {}),
         live        |-> live]

planCheckBlocksRun(report) == report.status \in {"invalid", "unsafe", "missing_requirements"}

\* planQuestions of plan-simulation.ts, the blocking ones of a plan that is not
\* destructive: a schedule that is asked for without a time, and a search nothing serves.
simulationQuestions(plan, profile) ==
    {q \in {"schedule_time", "search_provider"} :
        \/ q = "schedule_time" /\ plan.schedule = "untimed"
        \/ q = "search_provider" /\ "search" \in missingProviders(plan, profile)}

\* simulatePlanfile of the same plan and profile, with the plan's own validation.
simulationStatus(plan, profile) ==
    CASE issues(plan) # {} -> "invalid"
      [] issues(plan) = {} /\ plan.risk = "destructive" -> "unsafe"
      [] OTHER -> IF simulationQuestions(plan, profile) # {} THEN "needs_input"
                  ELSE IF missingProviders(plan, profile) \cup missingCredentials(plan, profile) # {}
                       THEN "missing_requirements" ELSE "ready"

-----------------------------------------------------------------------------
(* Actions                                                                 *)

LoadPlan ==
    /\ ckPlan = NoPlanfile /\ ckPlan' \in CkPlan /\ ckProfile' \in CkProfile
    /\ UNCHANGED <<ckReport, ckSchedules, ckAsked>>

\* plan check, and the check before a run is made.
CheckPlan ==
    /\ ckPlan # NoPlanfile
    /\ \E live \in BOOLEAN : ckReport' = runPlanCheck(ckPlan, ckProfile, live)
    /\ UNCHANGED <<ckPlan, ckProfile, ckSchedules, ckAsked>>

ProfileChanges ==
    /\ ckReport # NoReport /\ ckProfile' \in CkProfile /\ ckReport' = NoReport
    /\ UNCHANGED <<ckPlan, ckSchedules, ckAsked>>

\* The plan file is edited: other credentials, another schedule.
EditPlan ==
    /\ ckSchedules # {} /\ ckReport' = NoReport
    /\ \E k \in SUBSET CkSecret, s \in {"none", "timed", "untimed"} :
          ckPlan' = [ckPlan EXCEPT !.credentials = k, !.schedule = s]
    /\ UNCHANGED <<ckProfile, ckSchedules, ckAsked>>

\* The profile a schedule is checked against: no caller hands one in.
scheduleProfile == NoProfile

\* writeScheduleRecord: the same plan at the same time is the same record.
writeScheduleRecord(index, record) ==
    {r \in index : <<r.plan, r.cadence, r.time>> # <<record.plan, record.cadence, record.time>>}
        \cup {record}

\* The cadences told apart, and the times: one may be left out.
Cadence == {"daily", "weekly"}
TimeOfDay == {"none", "08:00"}

\* checkAndCreateScheduleRecord: cadence and time are the request's, not the plan's.
ScheduleCreate ==
    /\ ckPlan # NoPlanfile /\ ckAsked < SchedBound /\ ckAsked' = ckAsked + 1
    /\ \E cadence \in Cadence, time \in TimeOfDay :
          LET report == runPlanCheck(ckPlan, scheduleProfile, TRUE)
          IN  /\ ckReport' = report
              /\ ckSchedules' =
                    IF planCheckBlocksRun(report) THEN ckSchedules
                    ELSE writeScheduleRecord(ckSchedules,
                           [plan |-> ckPlan, cadence |-> cadence, time |-> time, made |-> ckAsked])
    /\ UNCHANGED <<ckPlan, ckProfile>>

CkNext == LoadPlan \/ CheckPlan \/ ProfileChanges \/ EditPlan \/ ScheduleCreate

CkSpec == CkInit /\ [][CkNext]_ckVars

-----------------------------------------------------------------------------
(* Properties                                                              *)

Cleared == ckReport # NoReport /\ ~planCheckBlocksRun(ckReport)

\* A plan that is cleared, in any profile, has no destructive node without an
\* explicit goal, no fixture node outside a demo, and names every node that writes
\* among its approvals, also one that does not ask for approval itself.
ClearedIsSafe ==
    Cleared => /\ ckPlan.risk = "destructive" => ckPlan.destructive_goal /\ ckPlan.approval
               /\ ckPlan.mode = "fixture" => ckPlan.demo
               /\ Writes(ckPlan.risk) => "n" \in ckReport.approvals

\* The Plan Builder's simulation and the check agree: what is ready is cleared in
\* the same profile, but for the runtime mode and templates, which only the check
\* knows; what a simulation finds missing is blocked; and what waits for an answer is
\* blocked too, unless the one question is the time of a schedule, which the check
\* does not ask.
SimulationAgrees ==
    ckPlan # NoPlanfile => \A profile \in CkProfile :
        LET report == runPlanCheck(ckPlan, profile, TRUE)
            sim    == simulationStatus(ckPlan, profile)
        IN  /\ sim = "ready" => \/ ~planCheckBlocksRun(report)
                                \/ report.missing \subseteq {"runtime.mode", "template.research.digest"}
            /\ sim = "missing_requirements" => planCheckBlocksRun(report)
            /\ sim = "needs_input" =>
                  planCheckBlocksRun(report) \/ simulationQuestions(ckPlan, profile) = {"schedule_time"}

\* A plan called portable or workspace-bound is judged alike in all profiles of one
\* runtime mode; and what is cleared without any profile is cleared in all of them.
PortableIsPortable ==
    ckPlan # NoPlanfile => \A profile \in CkProfile \cup {NoProfile} :
        LET here == runPlanCheck(ckPlan, profile, TRUE)
        IN  \A other \in CkProfile \cup {NoProfile} :
              (profile.name = "remote") = (other.name = "remote") =>
                LET there == runPlanCheck(ckPlan, other, TRUE)
                IN  /\ here.portability \in {"portable", "workspace_bound"} => here.status = there.status
                    /\ profile = NoProfile /\ ~planCheckBlocksRun(here) => ~planCheckBlocksRun(there)

\* However the profile and the plan file change in between, each plan has one
\* record for a cadence and a time, or the lack of one, and a scheduled plan needs no
\* provider and no credential: it can run under any local profile.
ScheduleSound ==
    /\ \A r, s \in ckSchedules :
          <<r.plan, r.cadence, r.time>> = <<s.plan, s.cadence, s.time>> => r = s
    /\ \A r \in ckSchedules, profile \in CkProfile :
          profile.name # "remote" => ~planCheckBlocksRun(runPlanCheck(r.plan, profile, TRUE))

\* The verdicts on a plan agree with one another and with the profile: check,
\* simulation, portability and schedule.
VerdictsAgree == ClearedIsSafe /\ SimulationAgrees /\ PortableIsPortable /\ ScheduleSound
=============================================================================
