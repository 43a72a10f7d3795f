# A TLA+ verification of Open Lagrange

Open Lagrange turns a goal into a *Planfile* (a DAG of nodes), checks it,
executes it durably through Hatchet workers or the calling process, and gates
every side effect behind policy and approval.  This directory holds TLA+ models
of the parts of that program whose correctness depends on order, interleaving
and failure, the TLC configurations that check them, and machine-checked proofs.

Paths below are relative to the repository; `core/` abbreviates
`packages/core/src/`.

## 1. The system's parts

| Part | Source | State it keeps | Operations |
| --- | --- | --- | --- |
| Run control plane | `core/planning/control-plane.ts` | `run_executions`, `plan_states`, `run_continuations`, `node_attempts` in the state store | `createRunFromPlanfile`, `applyPlanfile`, `resumeRun`, `retryRunNode`, `cancelRun`, `approvePlan`, `rejectPlan`; worker side `executeStoredRun`, `executeRunContinuation`, `executeRunCancellation` |
| Plan runner | `core/planning/plan-runner.ts` | a local copy of the plan state, outputs of finished nodes | `load`, `readyNodes`, `runReadyNode`, `runToCompletion`, `markNode` |
| Run events and snapshot | `core/runs/` | `run_events` | `append`, `list`, `subscribe`, `buildRunSnapshot`, the web event stream |
| Capability step | `core/runtime/capability-step-runner.ts`, `core/policy/policy-gate.ts` | none of its own; artifacts and events go to the caller's store and sink | `runCapabilityStep`, `evaluatePolicy` |
| Project and task reconcilers | `core/workflows/`, `core/activities/`, `core/approval/`, `core/status/` | `project_status`, `task_status`, `approvals`, `continuation_contexts` | `reconcileProject`, `reconcileTask`, `continueApprovedTask`, `approveTask`, `rejectTask` |
| Repository task | `core/workflows/repository-task-*.ts`, `core/capability-packs/repository/` | the task's row, decision and envelope; files people edit | inspect, propose, approve, patch, verify, review |
| Repository plans | `core/repository/` | plan status file, worktree, patch artifacts, scope-expansion requests | apply, resume, patch, verify, repair, scope expansion, export, cleanup, status view |
| Planfile pipeline | `core/planning/` | plan builder sessions, plan library, schedule records | classify, compose, check, simulate, build, edit, save, schedule |
| Skills and packs | `core/skills/`, `core/packs/`, `capability-sdk/registry.ts` | installed packs and their registry file, the runtime's registry | frame, match, generate, validate, install, load |
| Search and research | `core/search/`, `core/research/`, `core/capability-packs/research/`, `capability-sdk/primitives/` | source sets and briefs as artifacts | select providers, search, fetch, extract, summarise, build the run view |
| Models | `core/models/`, `core/evals/provider-usage.ts` | telemetry files and index entries | `executeModelRoleCall` |
| Artifacts | `core/artifacts/`, `core/capability-packs/output/` | `artifacts.json`, `runs.json`, latest pointers | register, prune, reindex, select, digest, export |
| Stores | `core/storage/` | the SQLite file | read and upsert of rows |
| Front ends | `apps/cli`, `apps/tui`, `apps/web` | UI state, session cookies, rate limits | translate lines and clicks into the operations above |
| Runtime manager | `packages/runtime-manager` | profiles, secrets, processes | init, bootstrap, up, down, profile, model, secrets |
| Demos and benchmarks | `core/demos/`, `core/evals/` | demo directories, index entries, workspaces, reports | run, clean, benchmark |

### How they interact

The CLI, the TUI, the web server and the Hatchet worker are *separate
processes* over one SQLite file (or, in memory mode, callers inside one process).
A control call writes the store, submits a workflow to Hatchet and, when the
submission throws, executes the work in its own process.  Nothing locks a row:
every writer reads a whole record, computes, and writes the whole record back.
Therefore two writers interleave at every `await` on the store.

### What is hard, and what must hold

* **Plan state.**  A plan state is written back from copies held across awaits,
  by several workers and by `approvePlan` and `rejectPlan`.  The stored row must
  never show a node begun before its dependencies, nor a status that its nodes
  contradict.
* **Crashes.**  A process can die between any two writes, thrown errors are
  swallowed by `catch(() => undefined)`, and the workflows declare no retries.
  A later retry must still be able to run a node that was left `running`.
* **Lost replies.**  A Hatchet submission can succeed while its reply is lost;
  the caller then executes the same job as well.
* **Retries.**  A retry invalidates the work of every dependent node, transitively.
* **Two sources of the run status.**  A stored record, and the event log from
  which a snapshot derives a status.  At rest they must agree.
* **Approvals.**  A decision can be overwritten, withdrawn or repeated while the
  continuation of an earlier decision is on its way, and a second submission of a
  goal shares ids and rows with the first.  Nothing gated may run without an
  approval in force.
* **Event delivery.**  Events have several writing processes, a best-effort
  broadcast, a polled replay with a limit, and a client whose connection breaks.
  No event before the client's cursor may be missing.
* **Graph checks.**  What validation accepts, the runner must be able to finish.
* **Repository plans.**  The runner rewrites one status file from a long-lived copy
  while other commands rewrite it too.  A scope request lives in three places (the
  approval row, its continuation envelope, the status file) that are written and
  read one after the other, and a crash may come in between.
* **Files written whole.**  The artifact and run indexes, builder sessions, the
  runtime configuration and the pack registry are JSON files that processes read,
  change and write back without a lock, and not atomically.
* **Several verdicts on one thing.**  A plan is judged by validation, simulation,
  check and schedule; a patch by the validator and by the code that applies it; a
  web request by the middleware and by the route, with a sign-in before both.  They
  must agree.
* **Answers that come late.**  Snapshots, polls, verification children, fetches
  and redirects end in any order, after what they were started for is gone.
* **Things done in steps.**  A step of a capability, a telemetry record, an export,
  an installation, a demo and a benchmark row are each several writes, any of which
  may fail; what remains must still be accounted for.

`PROJECT.json` lists each hazard at its line with the properties that would
catch it.

## 2. The modules

| Module | Models | Checked by |
| --- | --- | --- |
| `DurableRun` | control plane, plan runner, snapshot status | `MCDurableRun`, proved in `DurableRun_proofs` |
| `PlanLifecycle` | abstract specification of the plan state row | through `DurableRun` |
| `TaskApproval` | project, task and continuation workflows, approvals | `MCTaskApproval`, proved in `TaskApproval_proofs` |
| `EventStream` | event store, broadcast, stream route, watching client | `MCEventStream`, proved in `EventStream_proofs` |
| `RepositoryRun` | repository plan runner, scope expansion, worktree | `MCRepositoryRun`, proved in `RepositoryRun_proofs` |
| `RepositoryView` | run view and next actions, over `RepositoryRun`'s state | `MCRepositoryRun`, proved in `RepositoryRun_proofs` |
| `CapabilityStep`, `PolicyGate` | step runner; the gate rule by rule | `MCCapabilities`, proved in `Capability_proofs` |
| `HttpFetch` | fetch, redirects, network policy, retries | `MCCapabilities`, proved in `Capability_proofs` |
| `ResearchFlow` | search coordinator, source sets, briefs | `MCCapabilities`, proved in `Capability_proofs` |
| `ResearchView` | the nodes of the research plan, the view of a research run | `MCCapabilities`, proved in `Operations_proofs` |
| `ModelCall` | role calls, fallback, usage, telemetry | `MCCapabilities`, proved in `Capability_proofs` |
| `ArtifactIndex` | the artifact and run indexes that processes share | `MCCapabilities`, proved in `Capability_proofs` |
| `OutputPack` | commands of the output pack | `MCCapabilities`, proved in `Capability_proofs` |
| `WorkOrders` | node handlers of a repository plan under `runReadyNode` | `MCCapabilities`, proved in `Capability_proofs` |
| `PatchText` | text operations of a patch, its validation and application | `MCCapabilities` |
| `VerificationRun` | verification commands with timers and late ends | `MCCapabilities`, proved in `Capability_proofs` |
| `EvalRun` | live benchmarks | `MCCapabilities`, proved in `Capability_proofs` |
| `PlanGraph` | graph algorithms of validation and retry | `MCAuthoring` |
| `PlanBuilder` | builder sessions and edits of their Planfile | `MCAuthoring`, proved in `Authoring_proofs` |
| `PlanCheck`, `PlanLibrary` | check and schedules; libraries | `MCAuthoring`, proved in `Authoring_proofs` |
| `PlanComposer` | composition from a prompt | `MCAuthoring`, proved in `Authoring_proofs` |
| `SkillBuild`, `PackInstall` | from a skill file to a pack; installation and loading | `MCAuthoring`, proved in `Authoring_proofs` |
| `DemoRun` | demonstrations and their cleaning | `MCAuthoring` |
| `RuntimeManager` | profiles, secrets, start and stop of the local runtime | `MCOperations`, proved in `Operations_proofs` |
| `TuiSession` | a session of the terminal workbench | `MCOperations`, proved in `Operations_proofs` |
| `RepositoryTask` | repository task, its approval, continuation and verification | `MCOperations`, proved in `RepositoryTask_proofs` |
| `WebAccess` | sessions and rate limits of the web server | `MCOperations`, proved in `Operations_proofs` |
| `WebConsole` | the browser's run page | `MCOperations`, proved in `Operations_proofs` |

`MCCapabilities`, `MCAuthoring` and `MCOperations` hold components that share no
state.  Each behaviour follows one of them, which its first step decides (`part`);
the states reached are those of the components taken one by one.

A checked property is a conjunction of named parts (`StepAccounted` is
`RunsOnlyCleared`, `ArtifactsAccountedFor` and `EventsTellTheResult`); each part has
its own comment beside its definition, with the exceptions the code really has.

Definitions with a comment that begins with *Mutant* are deliberate faults; no
specification uses them.  Each shows that a property notices a plausible bug.

### DurableRun

Models `control-plane.ts`, `plan-runner.ts` and `runStatus` of
`run-snapshot-builder.ts`.  A *ticket* is one call of the control API and a
*worker* is a ticket together with the lane that executes it (`hatchet` or
`local`).  Every action covers the code between two awaits on the store.

| Variable | Code |
| --- | --- |
| `record` | `RunExecutionRecord.status` by run |
| `plan` | the row of `plan_states`; one row since it is keyed by `plan_id` |
| `continuation` | `RunContinuationRecord.status`, one per resume, retry, cancel |
| `attempts` | `NodeAttempt` rows |
| `terminal`, `started` | what `runStatus` looks for in `run_events` |
| `req`, `apc`, `apiPlan`, `number` | a call's arguments, position and locals |
| `wpc`, `wplan`, `wnode`, `index`, `snap` | a worker's position and locals |
| `ran` | history: the nodes a worker brought to an outcome |
| `aborts` | how many processes died so far (bounded by `MaxAborts`) |

| Actions | Code |
| --- | --- |
| `prepareRunState`, `recordCanonicalRun` | `createRunFromPlanfile`, non-live `applyPlanfile` |
| `resumeRun`, `retryRunNode`, `recordNodeAttempt`, `cancelRun`, `queueCancel`, `announceCancel` | the calls of the same name, one action per awaited write |
| `submitHatchet`, `submitLocal`, `submitTwice`, `stampHatchetRun` | the submission with its `catch`, and the second write with the Hatchet run id |
| `readPlanForDecision`, `recordPlanDecision` | `approvePlan`, `rejectPlan` |
| `readContinuation`, `resetPlan`, `beginContinuation`, `settleContinuation` | `executeRunContinuation` |
| `executeStoredRun`, `takeSnapshot`, `finalizeRecord` | `executeStoredRun` |
| `loadPlan`, `startNode`, `finishNode`, `stopLoop`, `conclude`, `flushPlan` | `PlanRunner.runToCompletion`, `executeLiveLocalPlanfile` |
| `executeRunCancellation`, `completeCancellation`, `settleCancellation` | `executeRunCancellation` |
| `abandonCall`, `abortWorker` | a process dies or throws |

Abstracted: artifacts, timestamps, the Markdown projection, and what a capability
step does (any outcome).  Not modelled: the branch of `applyPlanfile` that
executes a live plan without a run record.  `runReadyNode` with the handlers of node
kinds, which demos and benchmarks call, is in `WorkOrders`.

### PlanLifecycle

What the plan state row does when requests are served one at a time: a node begins
only when its dependencies are done, only a running node finishes, and a replay
that gives up a node gives up everything begun on top of it.  `DurableRun`
implements it with `status <- plan.status`, `node <- plan.node`.  With overlapping
requests it does not: a stale copy may undo the progress of another worker.
What remains true then are the theorems of section 4 that do not assume it.

### TaskApproval

Models `project-reconciler.ts`, `task-reconciler.ts`, `task-continuation.ts` and
`approveTask`/`rejectTask` of `workflow-client.ts`.  A *submission* is one run of
the project workflow, a *call* one approve or reject call with the continuation
it may start.  `projectRow`, `taskRow`, `decision` and `context` are the tables;
`ran` counts how often each workflow reached the endpoint of each intent (a history
variable); `sub` and `call` are the positions and locals of the workflows.  An intent is one
of four kinds: invalid, denied by policy, gated by an approval, open.

Assumptions: the model answers with the same plan and artifacts for every
submission of the goal (ids are hashes of the goal), the critic answers
arbitrarily, and a failed execution may or may not have reached its endpoint.
The repository branches of `approveTask` and `rejectTask` are in `RepositoryTask`.

### EventStream

Models `appendRunEvent`/`listRunEvents` (SQLite), the broadcast of
`run-event-store.ts`, the server-sent-event route, `streamRunEvents` and
`run watch --follow`.  `seq` and `chosen` are the two statements of an append;
`server`, `channel` and `client` are one stream connection; `origin` says which
process writes each event.  A poll is modelled only when the channel is empty
and there is something to send: other polls repeat frames that the client
suppresses.  The browser console and the terminal's stream are `WebConsole` and
`TuiSession`.  Not modelled: the in-memory store.

### PlanGraph

`hasCycle`, `unreachableNodes` and `dependentNodeIds` as the code computes them
(depth-first search, stack, passes until stable), against definitions by transitive
dependence, and the plan runner's loop on an accepted plan.  It uses `RECURSIVE`
operators, so it is checked and not proved.

### RepositoryRun

Models `repository-plan-runner.ts`, the commands of `repository-plan-control.ts`,
`scope-expansion-approval.ts` and `scope-expansion-resume.ts`.  A process executes
one command at a time; commands of different processes interleave at every await
and between the read and the write of the status file.

| Variable | Code |
| --- | --- |
| `file` | `repository-status.json`: status, session, plan state, scope requests, last verification, review |
| `worktree` | is it there, which expanded scopes changed it, did it pass verification since its last patch |
| `row`, `envelope` | the approval decision and the continuation envelope, by request id |
| `granted` | history: the requests, with contents, that were ever approved |
| `revised` | history: somebody decided again on a request, after which use is not *orderly* |
| `proc` | each process: position, its copy of the status, the memory of the runner |
| `overlaps`, `aborts`, `commands` | counters for bounds and for *one command at a time* |

| Actions | Code |
| --- | --- |
| `applyRepositoryPlanfile`, `cleanupRepositoryPlan` | the commands of these names |
| `decideScopeRequest`, `noteDecision`, `saveStatus` | `approveRepositoryScopeRequest`, `rejectRepositoryScopeRequest`: decision, read of the file, write |
| `resumeRepositoryPlan`, `readEnvelope`, `readDecision`, `startResumed`, `applyScope` | `resumeRepositoryPlan` with `loadApprovedScopeExpansionForResume` and `markScopeExpansionApplied` |
| `beginNode`, `markResult`, `finishRun` | the loop of `RepositoryPlanRunner.run` |
| `runPlainNode`, `skipRepair`, `writeEvidence`, `generatePatchPlan`, `refusePatch`, `applyPatch`, `failPatch`, `runVerificationPolicy`, `runReview`, `failReview` | the branches of `runNode` |
| `createScopeExpansionApproval`, `recordEnvelope`, `enterRequest` | `handleScopeExpansionIfNeeded` in its three writes |
| `missWorktree`, `tearPatch`, `abort` | the runner throws without a worktree; a patch breaks off; a process dies or throws |

The model is external: the patch, the id, the contents and even the status of a
request are its choice.  The contents of a request (`Body`) are what its digest
covers: the files it asks for and the node it belongs to.  Left out: artifacts and telemetry, the rules of the patch validator other
than scope (their refusals are outcomes of `generatePatchPlan`), the patch approval,
which nothing resumes, and the decision of the repair loop, which the runner ignores.

### RepositoryView

`buildRepositoryRunView` and `repositoryNextActions` as functions of the status file,
evaluated in every state of `RepositoryRun`: what is offered is compared with the
approval tables and the worktree, which the code does not look at.  The two phases of the
patch node, by whether there is a patch plan, are one.

### CapabilityStep and PolicyGate

One call of `runCapabilityStep` with an arbitrary capability, policy input, mode and
faults of the event sink and the artifact store.  `stepPc` is the position in the
function, `stepWritten` what the store accepted, `stepEvents` what the sink accepted,
`stepFailed` what either rejected, `stepResult` the returned record.  A capability may
record an id again and may catch a rejection and succeed: the fetching and extracting of
several research sources turns it into a warning, so a successful result can name an
artifact that was never stored, and store one that was never announced.  `Rules` lists the gate's rules in the order the
code applies them; the first that matches decides.

### HttpFetch, ResearchFlow, ResearchView, ModelCall

A fetch is a sequence of hops with arbitrary answers: `httpHop` is the request about
to be sent, `httpWire` the history of what was sent, with or without a credential.
Delays are counted, so the bound on `Retry-After` is checked too.  A search asks the
providers in the coordinator's order until its calls are used up; candidates are
values with a URL and a domain.  `ResearchView` follows the ids of sources through the
nodes of the research plan, where each fetch and extraction may fail, into artifacts
and from there into the run view: `rvIndex` is read by the snapshot and again by the
view, and in between the run may flush or die, another run of the plan may register
and the index may be pruned.  The view is a fold over the artifacts and is compared
with what the readable artifacts say of each source.  A model call ends in an object, in one of the two
errors or in the error of a telemetry write; the JSON scanner of the text fallback is
checked on every text of up to five brackets, quotes, escapes and surrogates.  A text is
the sequence of its UTF-16 units: the code looks for the first bracket among code points
and goes on from there among units.

### ArtifactIndex and OutputPack

Processes hold a list of pending writes (`idxTodo`) computed from the file they read;
the file is torn while a write is under way.  `idxKnown` is what the index should
hold.  A process may hold several stores of artifacts; each is flushed once, by the last
use of it.  Output commands run their steps over an index that others prune meanwhile.

### WorkOrders, PatchText, VerificationRun

The handlers see a file whose versions grow by patches and by somebody's edits; the
history remembers onto which version a patch was written.  `PatchText` goes one level
down: texts of up to three tokens, every operation, and pairs of anchored ones.
`VerificationRun` is the race of a child's end with its timer.

### PlanBuilder, PlanCheck, PlanLibrary, PlanComposer

A session file under two front ends, each with its copy; a plan reduced to its risk,
its needs, its schedule and its validity.  The check and the simulation are functions
of the same plan, compared for every plan and profile.  Libraries are sets of paths
with a manifest.  A schedule may be asked for with or without a time.  The composer is checked for every prompt of up to two tokens and for
two orders of registration.

### SkillBuild and PackInstall

A skill file is a set of words; a model's frame is whatever it answers.  A pack's files
are its manifest and one file of code per capability, with what the static validator
finds in it.  An installation is its sequence of steps, within any of which the process
may die: its copy merges into the files that are there, as `cpSync` does, and the
registry is read only after it.  A runtime loads what it finds.

### DemoRun and EvalRun

Demo processes at times within one second and across it; scenarios and routes with
every outcome a plan may have.

### RuntimeManager

Two commands at a time over one configuration file and one key chain, each reading,
awaiting and writing.

### TuiSession, RepositoryTask, WebAccess, WebConsole

The session keeps the flow that waits for `/confirm`, the dispatches, reads and polls
under way, and the run and project on display.  `effect` says what handling an event may
change outside the session (files, a builder session, artifacts, a run, a project, a
decision, an observation, a verification).  A repository task is one row, and
one decision and one envelope for each patch plan id, under several workflows.  The id is
the model's words or, without a model, a function of the goal, so a plan submitted again
may have the id of an earlier one or another; which request of a task a decision is for
(the latest, by times given at the start of workflows) is left open.  A patch plan has at
least one operation, and a body for just the files it does not delete (`RtAssumption`, from the
`FilePatch` schema), and an expected hash is compared only when a file is modified or
deleted.  Web access is two limiters, two
session checks, a cookie, a clock and restarts; signing in and out pass the limiter of
the middleware as any request does, and the proxy, behind which the API that answers may
have other settings.  The console is a timeline, snapshot
requests in flight, a timer, a stream and control requests, several at once since only
Cancel heeds `busy`; its events are of the types of `run-event.ts`.  `Shows` lists the
parts of a snapshot with the events `buildRunSnapshot` makes each from, and
`WatchedParts` those the page promises to keep fresh.

## 3. The runs

| Run | Question | Bounds, and why they are enough |
| --- | --- | --- |
| `run_one_request_at_a_time` | Do record, event log and plan state agree at rest; is every write a step of `PlanLifecycle`; does a retry rerun its node after a crash; do runs and continuations end? | Three calls (create, then two of any kind), two capability steps whose plan order is not their dependency order, one lost process.  Any pair of follow-up calls on any state the first leaves. |
| `run_overlap` | What survives when calls and workers overlap? | Two calls of all seven kinds with Hatchet and local workers on a chain of three nodes, so that a retry has a transitive dependent.  Its invariants are proved for all bounds. |
| `forced_retry_ignores_approval` | *violation*: `docs/node-replay.md` says a forced retry of a side-effecting node requires approval | |
| `task_one_submission` | What do rows claim, what may run, does everything end? | Two tasks, up to three intents against a budget of two, two calls; plans that are invalid, empty, or too long. |
| `task_two_submissions` | Can anything gated run without an approval in force? | Two submissions and two calls over shared rows, one of which may throw; every class of artifact. |
| `rejection_is_overwritten` | *violation*: `docs/run-local.md` says a rejection leaves the task yielded | |
| `event_delivery` | Is replay order stable, is only stored data shown, and with one writer is nothing missed? | Three events, replay limit two (so a replay can be over it), four broken connections (so that the fallback read is used twice), two repeated appends. |
| `broadcast_overtakes_replay` | *violation*: with two writers, replay is not the recovery contract of `docs/run-event-streaming.md` | |
| `repository_scope_expansion` | Does a scope change the worktree only for a request that was approved, and, with commands one at a time and none cut off, only as approved; is a completed run complete, and verified if its review says so; can an approved request be resumed; does the status view offer only what is undecided? | The whole deterministic plan. Three commands of two processes, any of which may begin while another is in progress, two crashes, two ids with two contents, two requests in the file: a run yields, is approved, resumes, asks again and is approved again; or is restarted while it is resumed. |
| `capabilities` | Does each component behind a capability and a work order account for what it did? | Two artifacts and a failing call anywhere; three hosts, two redirects, two fetches; four candidates, two of one page; three found and two fetched sources that may be one page, a second run and prunings; two processes with three operations on the indexes; chains of up to seven nodes with two edits in between; texts of three tokens; two scenarios by four routes. |
| `authoring` | Do sessions, checks, libraries, templates, skills, installations and demos keep what they promise; do the graph searches agree with transitive dependence, and does the runner finish what validation accepts? | Two front ends and three operations; plans that differ in a few facts, each with every profile; four library commands with two files of one name; prompts of two tokens; five operations on two packs; two demos in three instants; every graph of three nodes with one unknown id, whose frame node is the first, the last or none. |
| `operations` | Do the configuration, the terminal session, the repository task, web access and the console stay sound? | Two commands at a time, three in all, one death; three lines with two runs and two projects, so that results overlap; two goals with plans of two ids and three operations with one edit; two clients, one bucket and three units of time; two events, two snapshot requests and two control requests, one change of token. |

Deadlock checking is off where the modelled system may stop: clients need not
make calls, and bounded calls, breaks and events run out.

### Fairness

Only what the code's scheduling gives: a control call that began and a worker
that was handed a job keep taking steps (`WF` per call and per worker), a workflow
that started runs to its end, an append that chose its sequence inserts, the
stream route polls on a timer, the network delivers while it is up, and the
client reconnects in a loop.  No client has to make a call, submit a goal or
decide an approval; no process has to survive: the liveness properties of
`DurableRun` name the escape `aborts > 0`.

### Findings

Three runs end in a counterexample to a sentence of the documentation; `PROJECT.json`
quotes each sentence and names the line where the code differs.  In short:
a forced retry does not wait for its approval; a rejection that lands before the
task's final row is overwritten; and an API broadcast can move the stream cursor
past a worker's event.

Read from the code and not checked by a run: a `reuse_artifacts` retry executes its
node again, with an empty map of outputs (`plan-runner.ts:108`), where
`docs/node-replay.md:7` speaks of continuing from existing outputs without
re-executing (`RetryReruns` says of every mode that it executes); a client over the replay limit keeps its cursor
and stays over it, where `docs/run-event-streaming.md:45` speaks of refetching; and
`/approve <id>` in the terminal decides the first task of the project on display,
whatever id is given (`docs/tui.md:95`).

Observed while modelling and not covered by a documented promise: the write that
stamps a Hatchet run id can overwrite a final record or continuation status
(`control-plane.ts:105`), which is why `RecordAgreesAtRest` and
`ContinuationSettles` are checked with local workers; and a project whose plan is
over the task bound leaves its row at `planning`.  In the repository runner, a plan
that is restarted while another process resumes it ends as `completed` with nodes
that never ran, so `CompletedIsComplete` is stated for one command at a time; and a
resumed run that asks again under the same request id finds its new request marked
`applied` with the old one, so `ApprovedCanResume` asks for distinct ids.  Two commands
that are cut off between the approval row and the envelope leave the decision about one
request beside the envelope of another with the same id, and the resume of
`scope-expansion-resume.ts:31` compares the envelope with the status file only: the
worktree is then changed by contents nobody approved, where
`docs/scope-expansion-resume.md:12` says that an approval is valid for its exact content.
It takes seven commands, two of them lost, so `ScopeAsApproved` is stated for commands of
which none is cut off.

Further behaviours the models show and their properties name as exceptions:

* *Repository plans*: the decision of the repair loop is ignored; `resume` is offered
  also when every request was rejected, and `export` after a cleanup.
* *Patches*: two operations on one file are validated against the file as it was, so
  the second may fail after the first was written; a range past the last line appends;
  `create_file` overwrites.
* *Verification*: unknown command ids are dropped silently, no command at all passes,
  a child that cannot be started ends the process.
* *Repository task*: a submission replaces the request and the envelope of an earlier plan
  of the same id, so an approval meant for the plan that was shown may apply the new one,
  and a continuation that read `approved` before may go on with it
  (`repository-task-reconciler.ts:71-88`, `workflow-client.ts:139-147`); an append without
  an expected hash is applied twice by two approvals; a child that fails while patching leaves the row at `applying_patch`.
* *Work orders*: the result of `apply_patch` is not looked at; a patch that creates a file
  overwrites one that appears after its validation; a `get_diff` that fails ends the run
  with the patch in the worktree.
* *Artifacts*: overlapping registrations lose entries; a torn index is read as empty
  and the next registration erases it; reindexing gives a file a second id.
* *Models*: a telemetry write that fails after a successful structured call leads to a
  second provider call; the scanner of the text fallback begins one unit early for each
  emoji before the JSON and mostly finds no value then.
* *Research*: `max_provider_calls` of one leaves no room for failover; a fetched error
  page is kept as a source.  In the run view a snapshot names its source nowhere the
  view looks, so all of them count as one fetched source called `source`; a page counts
  once as a candidate and again under the ids derived from its text; two candidates
  that lead to one page can make it both selected and rejected; the brief may be that
  of another run of the plan; and as every `research.` capability contains `search`,
  `phaseFor` shows all its nodes after planning as searching (left out of the model).
* *Plan runner*: outputs of finished nodes live in the call that ran them, so a resumed
  run resolves templates of earlier nodes to nothing (left out of the models).
* *Plan builder*: overlapping front ends lose answers; a plan that a model revised may
  be ready without a new simulation.  *Plan check*: a schedule is checked without a
  runtime profile, so a plan that searches can never be scheduled; and the simulation
  waits for the time of a schedule ("A schedule cannot be saved without an explicit time",
  `plan-simulation.ts:71`), which the check does not ask for and `schedule-records.ts`
  saves without.
* *Skills*: with a model configured its frame is taken whole, so that what the file asks
  and the frame does not say (a script, to bypass approval) is not seen; and a
  destructive skill is never built, since its plan cannot name its goal as destructive.
* *Composer*: `report` contains `repo`; `research.digest` is never selected.
* *Packs*: files of an older version stay in the directory of a new one; a crash between
  the copy of the files and the registry write, or a registry found unreadable then, lets
  the old entry vouch for new files.
* *Runtime manager*: an `openai` provider configured as inactive is pruned by the next
  `up`; overlapping commands overwrite each other's profile changes; a bootstrap reports
  search as pending although its wait never asks for it (`manager.ts:324,434-437`).
* *Terminal*: the result of any dispatch clears a newer suggestion; a fallback read
  that ends after a switch brings the old run back.
* *Web console*: an older snapshot that lands last hides newer events until the next
  one; that a node runs, the errors of a capability and policy reports are in the
  timeline at once but in the snapshot only after the next event of another type
  (`run-console-client.tsx:719-731`, `run-snapshot-builder.ts:115-123,142,157-192`).
* *Demos*: a live demo is registered as completed even when its plan failed; two runs
  of one demo in one second share a directory.

## 4. Proofs

TLC decides a question for the bounds of section 3; the theorems below hold for every
value of the constants that satisfies the named assumptions of the modules.  Each
proof module rests on nothing but those assumptions, the library's lemmas on sets,
functions and sequences, and its own lemmas.  TLC checked each inductive invariant on
a run of its component before it was proved.

| Theorem | States | Holds for |
| --- | --- | --- |
| `DurableRun_proofs` | | |
| `TypeCorrect` | `Spec => []TypeOK` | every plan graph, cyclic ones too; any runs, calls, workers, crashes |
| `DependencyOrderHolds` | `Spec => []DependencyOrder` | the same |
| `PlanStatusMeaningHolds` | `Spec => []PlanStatusMeaning` | the same |
| `LoopBoundHolds` | `Spec => []LoopBoundNeverReached` | the same |
| `Refinement` | `Spec => ImplementsPlanLifecycle` | requests one at a time, local workers |
| `RetryRerunsHolds` | `Spec => RetryReruns` | requests one at a time, local workers |
| `RecordAgreesHolds` | `Spec => []RecordAgreesAtRest` | the same, and one run of the plan |
| `TaskApproval_proofs` | | |
| `ApprovalsInForceHolds` | `Spec => []ApprovalsInForce` | any submissions, calls, overlaps, aborts |
| `WithinItsBoundsHolds` | `Spec => []WithinItsBounds` | the same |
| `RowsTruthfulHolds` | `Spec => []RowsTruthful` | a goal submitted once, any calls |
| `EventStream_proofs` | | |
| `StreamSoundHolds` | `Spec => []StreamSound` | any events, writers, limits, broken connections |
| `OrderStableHolds` | `Spec => OrderStable` | the same |
| `RepositoryRun_proofs` | | |
| `TypeCorrect` | `Spec => []TypeOK` | any plan, processes, commands, crashes |
| `ScopeExpansionSoundHolds` | `Spec => []ScopeExpansionSound` | the same |
| `CompletedIsVerifiedHolds` | `Spec => []CompletedIsVerified` | plans in the order of the deterministic planner (`Layout`) |
| `ViewTellsTheTruthHolds` | `Spec => []ViewTellsTheTruth` | the same plans, if they verify something |
| `RepositoryTask_proofs` | | |
| `PatchesHeldHolds` | `RtSpec => []PatchesHeldToApproval` | any files, patch plans, submissions, decisions, edits |
| `Capability_proofs` | | |
| `StepAccountedHolds` | `StepSpec => []StepAccounted` | any risk levels and artifacts, any fault |
| `FetchInPolicyHolds` | `HttpSpec => []FetchInPolicy` | any hosts, lists, limits and answers |
| `OrdersRestOnEvidenceHolds` | `WoSpec => []OrdersRestOnEvidence` | any sequence of nodes, any edits |
| `VerificationHonestHolds` | `VrSpec => []VerificationHonest` | any scripts and requested ids |
| `IndexTrusted` | `IdxSpec => []IndexTrustworthy` | any processes, artifacts, runs, deaths |
| `CallsAccountedHolds` | `McSpec => []CallsAccounted` | any answers, usage counts and failed writes, texts of any length |
| `BenchmarkFairHolds` | `EvSpec => []BenchmarkFair` | any scenarios, routes and outcomes of their plans |
| `OutputsTraceableHolds` | `OutSpec => []OutputsTraceable` | any artifacts, kinds, limits, failed writes, pruning |
| `ResearchHonestHolds` | `ResSpec => []ResearchHonest` | any candidates, providers, preferences, limits, failed searches and fetches |
| `Authoring_proofs` | | |
| `BuilderKeepsItsWordHolds` | `PbSpec => []BuilderKeepsItsWord` | any front ends, plans, profiles, overlaps |
| `VerdictsAgreeHolds` | `CkSpec => []VerdictsAgree` | any plan files, profiles, secrets and orders of edits |
| `LibraryAccountedHolds` | `LibSpec => []LibraryAccounted` | any libraries, paths of any length |
| `SkillsStaySafeHolds` | `SkSpec => []SkillsStaySafe` | any registry of capabilities, any skill files, any frames of a model |
| `CompositionSoundHolds` | `CpSpec => []CompositionSound` | any prompts and phrases, capabilities, orders of registration, answers of a model |
| `InstalledPacksTrustedHolds` | `PkSpec => []InstalledPacksTrusted` | any packs in any order, files left behind, deaths within a copy or a write |
| `Operations_proofs` | | |
| `RuntimeConfigSoundHolds` | `RmSpec => []RuntimeConfigSound` | any commands at once, profiles, providers, a torn write |
| `SessionKeepsControlHolds` | `TuSpec => []SessionKeepsControl` | any texts, commands, runs, orders of results |
| `ConsoleCatchesUpHolds` | `WcSpec => []ConsoleCatchesUp` | every type of event, any requests in flight |
| `AccessHoldsAlways` | `WaSpec => []AccessHolds` | any clients, limits, requests, sign-ins and sign-outs, restarts |
| `ResearchShownHolds` | `RvSpec => []ResearchShown` | any search results and pages, failures, deaths, pruning between the reads |

### Why a strengthening is needed, and which

* **Plan state** (`IInv`).  A worker or `rejectPlan` may write back a copy read long
  ago, so it is not enough that the stored row is sound: *every* copy of it, the stored
  one, the callers' and the workers', is `Ordered` and `Meaningful`, and the node a
  worker executes is `running` in its own copy.  A lemma per operator that computes a
  plan state (`markNodeRunning`, `markNode`, `resetForRetry`, `resetForResume`, the
  initial state, the rejection) shows that it preserves this.  `resetForRetry` needs that
  `dependentNodeIds` is closed under dependents, hence its definition as a least
  fixpoint, which `PlanGraph` checks against the loop in the code.
* **Loop bound** (`Counted`).  The index of a worker is at most the number of nodes that
  no longer wait in its copy; `startNode` raises both by one.
* **Requests one at a time** (`SeqInv`).  One request is served at a time and the copies
  of whoever serves it equal the row, so every write is computed from the present row;
  then each action is a step or a stutter of `PlanLifecycle`.
* **Record and events** (`RunInv`).  What an execution concludes depends on whether every
  node was done.  Without a cycle, when nothing is ready, running, failed or yielded,
  every node is done; and only a plan without a cycle ever completes (`Founded`: the
  nodes done so far have no cycle).
* **Approvals** (`SubInv`, `CallInv`, `RowInv`).  Where each workflow stands determines
  which intents it may have executed and how its counters compare with them; a stored
  continuation holds the *first* intent of its task that needs an approval, whichever
  submission stored it; what a row claims is a statement about tables that only grow.
* **Event delivery** (`StreamInv`).  With one writer the next sequence is larger than all
  stored ones; what lies between the client's cursor and the server's is exactly the
  channel, in order; and a replay that was read is the sorted list without gaps of what
  follows the server's cursor.  That the list of a set holds each member once, in order,
  is the lemma `InOrderList`: the rank of an event is a bijection.
* **Repository plans** (`Granted`; `Consistent`, `Ordered`, `Checked`).  That a scope needs
  an approval survives everything, since the runner is let in only by the read of an
  approved row.  That it is the approved content needs the file, the rows and the
  envelopes to agree entry by entry while commands come one at a time; that a completed
  run is complete needs besides that the nodes before the one in hand are done; that it
  is verified, that a passed verification is about the worktree as it is.
* **Run view** (`AllTold`, `Cleanable`, `Awaiting`, `Halted`).  The view is computed from the
  file and the rows alone, so the invariant says of the file, and of every copy that will
  be written over it, what the view reads there: a node that is done brought its report
  (`AllTold`); a worktree has a session, also while a command is cut off (`Cleanable`);
  an entry is undecided in the file exactly if its row is, but for the one request in hand
  (`Awaiting`); a run stopped at its current node and at no other, and nothing after it
  was begun (`Halted`).
* **Repository task** (`RtInv`).  A compared operation is in a file once at most and only
  after its job read the files; what a plan was made from holds nothing of the plan.  So
  a content that equals the one read has neither the operation nor an edit since.  An
  envelope holds a plan of its own id, so a continuation that applies has the approval of
  just that id.
* **Capability step** (`StepInv`), **fetch** (`HttpInv`).  Each position of the call
  determines what was checked before it, which events there are and which artifacts they
  name, up to the calls that were rejected; a hop about to be requested was cleared, with the credential only while the
  chain is at its first host; requests so far are bounded by whole attempts plus hops.
* **Work orders** (`WoInv`), **verification** (`VrInv`).  A patch plan fits the file unless
  something happened since its validation; what the nodes done so far say of the
  handlers' state.  The results followed by what is left to run are the selection.
* **Artifact index** (`IdxInv`).  The property speaks of rest, the invariant of what the
  pending writes will make of the files and who still holds which entries.
* **Model calls** (`McInv`).  What the property says of the outcome, the record and the
  counts is kept at every position of a call; besides, a parsed text is what the scanner
  made of it.  Without surrogate pairs in front, the scanner starts at the first bracket.  It is a loop over the text, and what it returns is an invariant of
  this loop: up to the end of the first value its depth is the number of brackets still
  open, and it is at 0 there for the first time.
* **Benchmarks** (`EvInv`).  The rows written and the pairs still to do are, one after the
  other, the pairs asked for; the workspaces that exist are of the pair in hand.
* **Output pack** (`OutInv`).  The steps left of a command are a suffix of its steps, and the
  store holds the results of exactly those before (`Under`); a command that may not proceed
  stands at its first step (`Barred`).  The selection is a loop over the ranked candidates,
  whose invariant (`Considered`) says what was taken and why the others were not.
* **Research** (`ResInv`).  A fixture candidate was found in fixture mode and by a fixture
  provider (`FixtureKnown`); what is kept begins with the selection and has each URL once
  (`ResultSet`); each source is the selected candidate at its place or that place was passed
  over (`SourcesKnown`).  Filtering, removing duplicates and deciding are loops with the
  invariants `Filtered`, `Deduped` and `Decided`.
* **Research view** (`RvInv`).  For the nodes: what was fetched and what failed are together
  the selected candidates up to where the node stands, and so for the extractions
  (`NodesInv`).  For the view: reading one more artifact changes each source as that
  artifact says (`Changed`), so after all of them it is as all of them say (`Shown`).  For
  the brief: the first call registers all or nothing and only when it ends, so what was
  pruned since the snapshot takes with it all that comes before it (`IndexInv`, `InTurn`).
* **Plan builder** (`PbInv`).  A front end writes back the session it read, so every copy,
  and not just the file, is `Kept`: its reports still stand for its plan or say that they
  do not, its questions were asked, and what differs from the first plan was confirmed.
  While operations do not overlap, the answers given are in the file or in the hands of
  the one front end at work.
* **Plan check** (`CkInv`).  A report that is shown is the check of the present file under
  the present profile; a record of the scheduler was made for a plan that nothing blocks
  without a profile, hence under no local one either, and no two have the same plan,
  cadence and time.  An answer the simulation waits for is a missing provider, which
  blocks the check as well, or the time of a schedule.
* **Libraries** (`LibInv`).  Every file has a path without `.` or `..`, which is an invariant
  of the loop that resolves a path: it drops a name for each `..` and refuses at the root.
  An entry that shares its file with another, or has none, was added by hand.
* **Skills** (`SkInv`).  The match is that of the frame in hand, and a frame that no model
  made has the concerns of its text; the property then is about
  `matchCapabilitiesForSkill`, whose loop over the requirements only ever selects what
  scores within the risk of the frame.
* **Composition** (`CpInv`).  The frame is the code's own unless a model made it, and the plan
  is instantiated from the first of the best templates.  That this template fits the frame
  needs bounds on what each template can score: the one a frame is about scores at least
  11 or 12, any other at most 10.
* **Packs** (`PkInv`).  Files of an installed pack were validated when their registry entry
  was written, and the entry outlives neither a newer copy of the files nor a death
  between the two writes (`JobOk`, `EntryBacked`).  Every capability of a manifest has its file
  of code (`Covered`), so a copy over older files replaces all that the manifest speaks
  of, and what was found in those left behind is found in no code of its capabilities.  What the running registry holds, after
  loading any list of packs in any order, is one pack per capability (`RegOk`), an
  invariant of the loop that loads them.
* **Runtime manager** (`RmInv`).  Every configuration a command has read is `GoodConf`, also
  a stale one or one read from a torn file, and so is what each command makes of it.  The
  profile that is started has the key of the one that was read (`SameKey`), which a
  tidied-away default could break: a local profile always names its provider.  That no
  secret is lost needs `Orderly`: one command at work, its copy equal to the file, and
  between the two writes of a secret the keychain already as the reference will say.
* **Terminal** (`TuInv`).  A read that is under way is of the run on display, or its stream
  was aborted and, if it is a fallback read, the switch was noted; a flow that waits is
  the one shown last.
* **Console** (`WcInv`).  What reached the page is in its snapshot, or the timer is set, or
  a request is out that will be answered from at least as much (`Covered`).  That the
  timer is set needs every event type a watched part is made from to be in the code's
  refresh list.
* **Web access** (`WaInv`).  A counter is never above the requests that were made since its
  window began (`CountsTrue`), so nobody is refused early.  For the bound from above, a
  stretch of one window meets at most two windows of a key; `KeyBounded` says of the
  bucket in force, and of a key without one, how many of its requests the stretches that
  end now let through.  A bucket that makes room for another forgets its count, which is
  why that bound holds only while none did.

### Where the hypotheses are needed

They are not for convenience; without them the statements are false, as TLC shows:

* `Refinement` and `RetryRerunsHolds` with overlapping requests or Hatchet workers: a
  stale copy undoes the progress of another worker.
* `RecordAgreesHolds` with two runs of one plan (they share the plan state row), with the
  second write of a Hatchet submission, or with overlap.
* `RowsTruthfulHolds` with two submissions: the second sets the rows of the first back to
  `running`.
* The part of `StreamSound` about the cursor with two writers: that is the run
  `broadcast_overtakes_replay`; the property itself names the hypothesis (`OneWriter`).
* `ScopeAsApproved` after lost commands: see section 3.  `CompletedIsVerifiedHolds` for a
  plan with a patch after its last verification: `Layout` is the order in which
  `repository-plan-control.ts` lays plans out, and the run checks a plan of that order.
* `ViewTellsTheTruthHolds` for a plan of another order or without a verification.  The phase
  of the verification is derived from the report and not from the nodes: a completed run
  that verified nothing shows it as pending.  Where the last node is a repair, its errors
  fail the plan though no node failed, and no phase shows where it stopped.

### Loops

Where the source loops over a list or a text, the model of a component that is proved
about has a function of the turns done (`f[n]` from `f[n - 1]`), and the proof an
invariant of that loop.  The lemma `InductionUpTo` of `Authoring_proofs`,
`Capability_proofs` and `Operations_proofs` takes the invariant as the *set* of turns
after which it holds and rests on the least element of the set of the others (`LeastNat`, from `WFMin` of the
library).  This is how the path resolution of `PlanLibrary`, the choice of capabilities of
`SkillBuild`, the loading of packs, the JSON scanner of `ModelCall`, the selection of
`OutputPack`, the filters of `ResearchFlow` and the view of `ResearchView` are proved for
every input.  Elsewhere the result of a computation is defined in closed form: the order of a
replay by rank (`inOrder`), `dependentNodeIds` as a least fixpoint.

### Model-checked only

* Liveness (`RunSettles`, `ContinuationSettles`, `ProjectSettles`, `ApprovedContinues`,
  `EventShown`), since fairness and `ENABLED` are outside of what the prover handles here.
* `SearchesAgree` of `PlanGraph`: its point is to compare the searches of the code, which
  are `RECURSIVE` as there, with their reference definitions.
* `PatchesLandWhole` of `PatchText`, an argument about where texts occur in lines of texts
  and how often.

## 5. Plan

Every part of section 1 has its module, and every component whose steps interleave, or
whose files outlive a process, has its proof.  What could follow:

1. `PatchesLandWhole` of `PatchText`, by an account of where one text occurs in another.
2. The late second write of a Hatchet submission as an actor of `DurableRun`'s
   overlapping runs.

## 6. Not modelled

External services and models (they appear as arbitrary answers); what texts say
(generated code, Markdown, ranking, reports); redaction, schemas and hashes (ids are
distinct values); the doctor, which only reads; container commands beyond their
outcome; the math, MCP and filesystem adapters, which are one call each; and the
rendering of the front ends.  The wide pages of the web application and most of the
command line translate an input into one call of an operation modelled here.
`PROJECT.json` gives the reason for each part.
