----------------------------- MODULE TuiSession -----------------------------
(***************************************************************************)
(* A session of the terminal workbench: the input line with its slash      *)
(* commands and suggested flows (apps/tui/src/input-router.ts,             *)
(* slash-commands.ts, core chat-pack/intent-router.ts), the dispatch of    *)
(* typed events (App.tsx, hooks/useUserFrameEvents.ts, core                *)
(* user-frame-events.ts), the run on display with its event stream         *)
(* (App.tsx, platform-client/src/client.ts) and the project on display     *)
(* with its polls (hooks/useProjectStatus.ts).                             *)
(*                                                                         *)
(* Nothing is awaited before the next line of input is taken: dispatches,  *)
(* reads of snapshots and polls overlap and end in any order.  An effect   *)
(* that React runs because a state changed is taken with that change.      *)
(***************************************************************************)
EXTENDS Naturals, Sequences, FiniteSets

CONSTANTS
    TuText,      \* lines of plain text, as the sets of phrases found in them
    TuCommand,   \* slash commands: the events they stand for, "confirm", "pane" or "error"
    TuRun,       \* runs a command may open
    TuProject,   \* projects a goal may be submitted to
    TuTasks,     \* project -> its tasks in the order of the status, each awaiting approval
    TuOpBound,   \* lines of input
    TuReadBound  \* reads and polls under way at once

None == "none"

VARIABLES
    tuFlow,      \* event of the flow that waits for /confirm
    tuShownFlow, \* history: event of the suggestion shown last
    tuJobs,      \* dispatches under way: event, where it came from, argument
    tuStarted,   \* history: how events came to be dispatched
    tuRun,       \* the run on display
    tuOpened,    \* history: the run the last result opened
    tuReads,     \* snapshots being read: run, why, and if the stream they belong to was aborted
    tuAttempt,   \* failed connections of the stream since the last good one
    tuLate,      \* history: a fallback read was under way when the run changed
    tuProject,   \* the project selected
    tuStatus,    \* the project whose status is on display
    tuPolls,     \* projects whose status is being read, by dispatch or poll
    tuOps

tuVars == <<tuFlow, tuShownFlow, tuJobs, tuStarted, tuRun, tuOpened, tuReads, tuAttempt, tuLate, tuProject, tuStatus,
            tuPolls, tuOps>>

TuInit ==
    /\ tuFlow = None /\ tuShownFlow = None /\ tuJobs = {} /\ tuStarted = {}
    /\ tuRun = None /\ tuOpened = None /\ tuReads = {} /\ tuAttempt = 0 /\ tuLate = FALSE
    /\ tuProject = None /\ tuStatus = None /\ tuPolls = {} /\ tuOps = 0

-----------------------------------------------------------------------------
(* From a line of text to an event                                         *)

\* What handling an event may change outside the session.  submitLocalOrRemoteEvent: plan
\* files, builder sessions and runs made from them; then packs, demos, runs and research;
\* what it does not handle goes to the control plane (submitUserFrameEvent).
planEffect(event) ==
    CASE event \in {"plan.compose", "plan_builder.save", "plan_builder.edit"} -> "files"
      [] event \in {"plan_builder.start", "plan_builder.answer", "plan_builder.accept_defaults", "plan_builder.validate",
                    "plan_builder.update_planfile", "plan_builder.import_planfile"} -> "session"
      [] event \in {"plan.apply", "plan_builder.run"} -> "run"
      [] OTHER -> "nothing"
runEffect(event) ==
    CASE event = "research.export" -> "files"
      [] event \in {"pack.build", "demo.run", "research.search", "research.fetch"} -> "artifacts"
      [] event \in {"run.resume", "run.retry", "research.brief", "research.summarize_url"} -> "run"
      [] OTHER -> "nothing"
remoteEffect(event) ==
    CASE event \in {"repo.run", "plan.create", "submit_goal"} -> "project"
      [] event \in {"approval.approve", "approval.reject", "approve", "reject"} -> "decision"
      [] event \in {"refine_goal", "adjust_scope", "ask_explanation"} -> "observation"
      [] event = "request_verification" -> "verification"
      [] OTHER -> "nothing"
effect(event) ==
    LET effects == {planEffect(event), runEffect(event), remoteEffect(event)} \ {"nothing"}
    IN  IF effects = {} THEN "nothing" ELSE CHOOSE e \in effects : TRUE

\* informationalFlow asks for no confirmation, the other makers of flows do.
Informational == {"chat.message", "doctor.run", "status.show"}
requires_confirmation(event) == event \notin Informational

\* routeIntent: the first rule that applies; "several" when none does.
routeIntent(text) ==
    CASE "capabilities" \in text \/ "why" \in text -> "chat.message"
      [] "doctor" \in text -> "doctor.run"
      [] {"show", "pack"} \subseteq text -> "status.show"
      [] "demo" \in text -> "demo.run"
      [] "fetch http" \in text \/ "research" \in text -> "plan.compose"
      [] "skill" \in text -> IF "pack" \in text THEN "pack.build" ELSE "skill.plan"
      [] {"pack", "file"} \subseteq text -> "pack.build"
      [] "run" \in text \/ "apply" \in text -> "repo.run"
      [] "fix" \in text -> "plan.compose"
      [] OTHER -> "several"

Dispatch(event, from, arg) ==
    /\ tuJobs' = tuJobs \cup {[id |-> tuOps, event |-> event, arg |-> arg, project |-> tuProject]}
    /\ tuStarted' = tuStarted \cup {[event |-> event, from |-> from, shown |-> tuShownFlow]}

Line == tuOps < TuOpBound /\ tuOps' = tuOps + 1

\* The first of several alternatives is the one that waits.
firstOfSeveral == "plan.compose"

\* onSubmit with plain text (routeTuiInput): informational flows run, others wait for
\* /confirm in place of the flow that waited.
PlainText(text) ==
    LET event == routeIntent(text) IN
    /\ Line
    /\ \/ /\ event # "several" /\ ~requires_confirmation(event)
          /\ Dispatch(event, "text", <<>>)
          /\ UNCHANGED <<tuFlow, tuShownFlow>>
       \/ /\ event # "several" /\ requires_confirmation(event)
          /\ tuFlow' = event /\ tuShownFlow' = event
          /\ UNCHANGED <<tuJobs, tuStarted>>
       \/ /\ event = "several"
          /\ tuFlow' = firstOfSeveral /\ tuShownFlow' = "plan.compose"
          /\ UNCHANGED <<tuJobs, tuStarted>>
    /\ UNCHANGED <<tuRun, tuOpened, tuReads, tuAttempt, tuLate, tuProject, tuStatus, tuPolls>>

\* Commands about the project selected.
AboutProject == {"request_artifact", "request_verification"}

\* onSubmit with a slash command (parseSlashCommand).  A command about a run names it;
\* a decision goes to the first task of the project on display, if there is one,
\* whatever approval the line names; without a project selected a command about the
\* project only turns to its pane.
slashArgs(command) ==
    CASE command \in {"run.show", "run.resume", "run.retry"} -> {<<run>> : run \in TuRun}
      [] command \in {"approval.approve", "approval.reject"} ->
            IF tuStatus = None THEN {<<>>} ELSE {<<Head(TuTasks[tuStatus])>>}
      [] OTHER -> {<<>>}
SlashCommand(command) ==
    /\ Line
    /\ \/ /\ command = "confirm" /\ tuFlow # None
          /\ Dispatch(tuFlow, "confirm", <<>>)
       \/ /\ command \notin {"confirm", "pane", "error"} /\ (command \in AboutProject => tuProject # None)
          /\ \E arg \in slashArgs(command) : Dispatch(command, "command", arg)
       \/ /\ \/ command \in {"pane", "error"} \/ (command = "confirm" /\ tuFlow = None)
             \/ command \in AboutProject /\ tuProject = None
          /\ UNCHANGED <<tuJobs, tuStarted>>
    /\ UNCHANGED <<tuFlow, tuShownFlow, tuRun, tuOpened, tuReads, tuAttempt, tuLate, tuProject, tuStatus, tuPolls>>

-----------------------------------------------------------------------------
(* Results                                                                 *)

\* setRunSnapshot with another run: the effect aborts the old stream and opens a new one.
Show(run) ==
    /\ tuRun' = run
    /\ IF run = tuRun THEN UNCHANGED <<tuReads, tuAttempt, tuLate>>
       ELSE /\ tuReads' = {[r EXCEPT !.aborted = TRUE] : r \in tuReads}
            /\ tuAttempt' = 0
            /\ tuLate' = (tuLate \/ \E r \in tuReads : r.why = "fallback")

\* dispatch, after submitEvent: an error leaves the waiting flow, a result clears it,
\* whichever it is, and reads the status of the project that was selected when the line
\* was entered.  What was submitted selects its project, a verification the one its line
\* was entered for.  A run that was blocked, missing or asked for as a list opens none.
Refresh(project) == tuPolls' = IF project = None THEN tuPolls ELSE tuPolls \cup {project}
Finish(job) ==
    /\ tuJobs' = tuJobs \ {job}
    /\ \/ UNCHANGED <<tuFlow, tuRun, tuOpened, tuReads, tuAttempt, tuLate, tuProject, tuPolls>>
       \/ /\ tuFlow' = None
          /\ \/ /\ job.event = "run.show" \/ effect(job.event) = "run"
                /\ \E run \in IF job.arg = <<>> THEN TuRun ELSE {job.arg[1]} : Show(run) /\ tuOpened' = run
                /\ Refresh(job.project) /\ UNCHANGED <<tuProject>>
             \/ /\ effect(job.event) \in {"project", "verification"}
                /\ \E p \in IF effect(job.event) = "project" THEN TuProject ELSE {job.project} \ {None} :
                    /\ tuProject' = p
                    /\ tuPolls' = tuPolls \cup {p} \cup ({job.project} \ {None})
                /\ UNCHANGED <<tuRun, tuOpened, tuReads, tuAttempt, tuLate>>
             \/ /\ effect(job.event) # "project"
                /\ Refresh(job.project)
                /\ UNCHANGED <<tuRun, tuOpened, tuReads, tuAttempt, tuLate, tuProject>>
    /\ Cardinality(tuPolls') <= TuReadBound
    /\ UNCHANGED <<tuShownFlow, tuStarted, tuStatus, tuOps>>

-----------------------------------------------------------------------------
(* The run on display                                                      *)

Fewer == Cardinality(tuReads) < TuReadBound

\* onEvent: the event goes into the timeline, then the whole snapshot is read.
OnEvent ==
    /\ tuRun # None /\ Fewer
    /\ tuAttempt' = 0
    /\ tuReads' = tuReads \cup {[run |-> tuRun, why |-> "event", aborted |-> FALSE]}
    /\ UNCHANGED <<tuFlow, tuShownFlow, tuJobs, tuStarted, tuRun, tuOpened, tuLate, tuProject, tuStatus, tuPolls, tuOps>>

\* onError, onReconnect: from the third failure on the snapshot is read instead.
OnReconnect ==
    /\ tuRun # None /\ tuAttempt < 4
    /\ tuAttempt' = tuAttempt + 1
    /\ IF tuAttempt + 1 >= 3
       THEN Fewer /\ tuReads' = tuReads \cup {[run |-> tuRun, why |-> "fallback", aborted |-> FALSE]}
       ELSE UNCHANGED tuReads
    /\ UNCHANGED <<tuFlow, tuShownFlow, tuJobs, tuStarted, tuRun, tuOpened, tuLate, tuProject, tuStatus, tuPolls, tuOps>>

\* Mutant: a read of a stream that was left is shown as well.
anyArrival(read) == TRUE

\* A snapshot arrives: after an event only if the stream was not aborted since; the
\* fallback does not ask.
mayShow(read) == read.why = "fallback" \/ ~read.aborted
Arrive(read) ==
    LET rest == tuReads \ {read} IN
    /\ IF mayShow(read) /\ read.run # tuRun
       THEN /\ tuRun' = read.run /\ tuAttempt' = 0
            /\ tuReads' = {[r EXCEPT !.aborted = TRUE] : r \in rest}
            /\ tuLate' = (tuLate \/ \E r \in rest : r.why = "fallback")
       ELSE tuReads' = rest /\ UNCHANGED <<tuRun, tuAttempt, tuLate>>
    /\ UNCHANGED <<tuFlow, tuShownFlow, tuJobs, tuStarted, tuOpened, tuProject, tuStatus, tuPolls, tuOps>>

-----------------------------------------------------------------------------
(* The project on display                                                  *)

\* The timer of useProjectStatus reads the status of the project selected; what arrives
\* is shown, whether that project is still selected or not.
Poll ==
    /\ tuProject # None /\ Cardinality(tuPolls) < TuReadBound
    /\ Refresh(tuProject)
    /\ UNCHANGED <<tuFlow, tuShownFlow, tuJobs, tuStarted, tuRun, tuOpened, tuReads, tuAttempt, tuLate, tuProject, tuStatus, tuOps>>
StatusArrives(p) ==
    /\ p \in tuPolls
    /\ tuPolls' = tuPolls \ {p}
    /\ tuStatus' \in {p, tuStatus}
    /\ UNCHANGED <<tuFlow, tuShownFlow, tuJobs, tuStarted, tuRun, tuOpened, tuReads, tuAttempt, tuLate, tuProject, tuOps>>

TuNext ==
    \/ \E t \in TuText : PlainText(t)
    \/ \E c \in TuCommand : SlashCommand(c)
    \/ \E j \in tuJobs : Finish(j)
    \/ OnEvent \/ OnReconnect \/ Poll
    \/ \E r \in tuReads : Arrive(r)
    \/ \E p \in TuProject : StatusArrives(p)

TuSpec == TuInit /\ [][TuNext]_tuVars

-----------------------------------------------------------------------------
(* Properties                                                              *)

\* Plain text changes nothing outside the session: whatever phrases it holds, what it
\* dispatches without /confirm only informs.
TextOnlyInforms == \A s \in tuStarted : s.from = "text" => effect(s.event) = "nothing"

\* /confirm runs the flow the user was shown last, though results of earlier lines come
\* in between and clear or leave what waits.
ConfirmRunsWhatWasShown == \A s \in tuStarted : s.from = "confirm" => s.event = s.shown

\* The run on display is the one opened last, unless a fallback read was under way when
\* the run changed: snapshots read for an earlier run are dropped.
SwitchSticks == tuLate \/ tuRun = tuOpened

\* The user of the terminal stays in control: text alone runs nothing that
\* matters, a confirmation runs what was shown, and a switch of runs holds.
SessionKeepsControl == TextOnlyInforms /\ ConfirmRunsWhatWasShown /\ SwitchSticks
=============================================================================
