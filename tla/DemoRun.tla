------------------------------ MODULE DemoRun -------------------------------
(***************************************************************************)
(* The demos (demos/demo-runner.ts): what a demo run writes, what it puts  *)
(* into the artifact and run indexes, and what --clean takes away again.   *)
(*                                                                         *)
(* Processes take the steps of runDemo one at a time, may run at the same  *)
(* time and may die between two steps.  Time is counted in instants, two   *)
(* to a second, for a run id is the time to the second while artifact ids  *)
(* hash all of it.  A file is its place and the run that wrote it; a       *)
(* directory is [demo, second] under .open-lagrange/demos, or a chosen one *)
(* ([demo |-> "out"]).  Index updates are atomic here: their races are     *)
(* ArtifactIndex's.                                                        *)
(***************************************************************************)
EXTENDS Naturals, FiniteSets

CONSTANTS DmProc, DmTime, DmRuns   \* processes; last instant; runs started

ASSUME DemoAssumption == DmTime \in Nat /\ DmRuns \in Nat

VARIABLES
    dmNow,
    dmPc, dmInput,   \* process -> next step of runDemo, and its options
    dmFiles,         \* files: [dir, name, by]
    dmRepo,          \* directory -> the run whose fixture repository it holds
    dmIndex,         \* artifact index: [demo, name, at, dir]
    dmRunIndex,      \* run index: [id, demo, dir, at]
    dmStarted,
    dmDisturbed      \* history: two runs overlapped, or a clean was cut off

dmVars == <<dmNow, dmPc, dmInput, dmFiles, dmRepo, dmIndex, dmRunIndex, dmStarted, dmDisturbed>>

Demo == {"repo-json-output", "skills-research-brief"}
runId(now) == (now + 1) \div 2

\* The options of a run: a directory makes no difference to stdout-only, and live
\* none to a skill demo.
Option ==
    {o \in [demo : Demo, live : BOOLEAN, custom : BOOLEAN, stdout : BOOLEAN, clean : BOOLEAN, at : 1..DmTime] :
        ~(o.stdout /\ o.custom) /\ (o.live => o.demo = "repo-json-output")}
NoOption == [demo |-> "none"]
Dir == [demo : Demo, second : 1..runId(DmTime)] \cup {[demo |-> "out", second |-> 0]}

DmInit ==
    /\ dmNow = 1 /\ dmPc = [p \in DmProc |-> "idle"] /\ dmInput = [p \in DmProc |-> NoOption]
    /\ dmFiles = {} /\ dmRepo = [d \in Dir |-> NoOption] /\ dmIndex = {} /\ dmRunIndex = {}
    /\ dmStarted = 0 /\ dmDisturbed = FALSE

-----------------------------------------------------------------------------

\* Mutant: every run of a demo writes to one directory.
sharedDir(o) == IF o.custom THEN [demo |-> "out", second |-> 0] ELSE [demo |-> o.demo, second |-> 1]

\* baseDir: the chosen directory, or one of this demo and this second.
baseDir(o) == IF o.custom THEN [demo |-> "out", second |-> 0] ELSE [demo |-> o.demo, second |-> runId(o.at)]

\* Only the repository demo has a live form: dry_run is false and the demo is it.
isLive(o) == o.live

\* The files a run writes, as far as the properties tell them apart.
repoDemo == {"planfile", "patch-plan"}
liveRepoDemo == {"planfile", "final.patch"}
skillDemo == {"planfile", "brief"}
filenames(o) == IF isLive(o) THEN liveRepoDemo ELSE IF o.demo = "repo-json-output" THEN repoDemo ELSE skillDemo

Goto(p, step) == dmPc' = [dmPc EXCEPT ![p] = step]
EndsWith(p) == Goto(p, "idle") /\ dmInput' = [dmInput EXCEPT ![p] = NoOption]
Make(o) == IF isLive(o) THEN "prepare" ELSE "write"

Tick ==
    /\ dmNow < DmTime /\ dmNow' = dmNow + 1
    /\ UNCHANGED <<dmPc, dmInput, dmFiles, dmRepo, dmIndex, dmRunIndex, dmStarted, dmDisturbed>>

\* runDemo up to its first effect.
StartDemo(p, o) ==
    /\ dmPc[p] = "idle" /\ dmStarted < DmRuns /\ o.at = dmNow
    /\ dmStarted' = dmStarted + 1
    /\ dmInput' = [dmInput EXCEPT ![p] = o]
    /\ Goto(p, IF o.clean THEN "cleanFiles" ELSE Make(o))
    /\ dmDisturbed' = (dmDisturbed \/ \E q \in DmProc : dmPc[q] # "idle")
    /\ UNCHANGED <<dmNow, dmFiles, dmRepo, dmIndex, dmRunIndex>>

\* cleanDemo: the demo's directory, then its artifacts, then its runs.
CleanFiles(p) ==
    /\ dmPc[p] = "cleanFiles" /\ Goto(p, "cleanIndex")
    /\ dmFiles' = {f \in dmFiles : f.dir.demo # dmInput[p].demo}
    /\ dmRepo' = [d \in Dir |-> IF d.demo = dmInput[p].demo THEN NoOption ELSE dmRepo[d]]
    /\ UNCHANGED <<dmNow, dmInput, dmIndex, dmRunIndex, dmStarted, dmDisturbed>>

\* removeArtifactsByDemo: entries of the demo, wherever their files are.
ofThisDemo(o, e) == e.demo = o.demo

CleanIndex(p) ==
    /\ dmPc[p] = "cleanIndex" /\ Goto(p, "cleanRuns")
    /\ dmIndex' = {e \in dmIndex : ~ofThisDemo(dmInput[p], e)}
    /\ UNCHANGED <<dmNow, dmInput, dmFiles, dmRepo, dmRunIndex, dmStarted, dmDisturbed>>

CleanRuns(p) ==
    /\ dmPc[p] = "cleanRuns" /\ Goto(p, Make(dmInput[p]))
    /\ dmRunIndex' = {r \in dmRunIndex : r.demo # dmInput[p].demo}
    /\ UNCHANGED <<dmNow, dmInput, dmFiles, dmRepo, dmIndex, dmStarted, dmDisturbed>>

\* liveRepoDemo refuses stdout-only, after the clean; otherwise it replaces the
\* fixture repository of its directory.
PrepareLive(p) ==
    /\ dmPc[p] = "prepare"
    /\ IF dmInput[p].stdout
       THEN EndsWith(p) /\ UNCHANGED dmRepo
       ELSE /\ Goto(p, "plan") /\ dmRepo' = [dmRepo EXCEPT ![baseDir(dmInput[p])] = dmInput[p]]
            /\ UNCHANGED dmInput
    /\ UNCHANGED <<dmNow, dmFiles, dmIndex, dmRunIndex, dmStarted, dmDisturbed>>

\* The worktree, the plan (see WorkOrders) and exportFinalPatch.  Whatever status
\* the plan ends in the demo goes on; without its repository, or on any error, it
\* throws.
RunLivePlan(p) ==
    /\ dmPc[p] = "plan"
    /\ \/ dmRepo[baseDir(dmInput[p])] # NoOption /\ Goto(p, "write") /\ UNCHANGED dmInput
       \/ EndsWith(p)
    /\ UNCHANGED <<dmNow, dmFiles, dmRepo, dmIndex, dmRunIndex, dmStarted, dmDisturbed>>

\* writeArtifacts: stdout-only gives the summaries and writes nothing, and nothing
\* is registered.
WriteArtifacts(p) ==
    LET o == dmInput[p]
    IN  /\ dmPc[p] = "write"
        /\ IF o.stdout
           THEN EndsWith(p) /\ UNCHANGED dmFiles
           ELSE /\ dmFiles' = {f \in dmFiles : ~(f.dir = baseDir(o) /\ f.name \in filenames(o))}
                              \cup {[dir |-> baseDir(o), name |-> n, by |-> [demo |-> o.demo, at |-> o.at]] : n \in filenames(o)}
                /\ Goto(p, "register") /\ UNCHANGED dmInput
        /\ UNCHANGED <<dmNow, dmRepo, dmIndex, dmRunIndex, dmStarted, dmDisturbed>>

RegisterDemoArtifacts(p) ==
    LET o == dmInput[p]
        id(e) == <<e.demo, e.name, e.at>>
        new == {[demo |-> o.demo, name |-> n, at |-> o.at, dir |-> baseDir(o)] : n \in filenames(o)}
    IN  /\ dmPc[p] = "register" /\ Goto(p, "registerRun")
        /\ dmIndex' = {e \in dmIndex : \A x \in new : id(x) # id(e)} \cup new
        /\ UNCHANGED <<dmNow, dmInput, dmFiles, dmRepo, dmRunIndex, dmStarted, dmDisturbed>>

\* registerRun: one entry for a run id, the newer one; it names its artifacts.
RegisterDemoRun(p) ==
    LET o == dmInput[p]
    IN  /\ dmPc[p] = "registerRun" /\ EndsWith(p)
        /\ dmRunIndex' = {r \in dmRunIndex : r.id # runId(o.at)}
                         \cup {[id |-> runId(o.at), demo |-> o.demo, dir |-> baseDir(o), at |-> o.at, refs |-> filenames(o)]}
        /\ UNCHANGED <<dmNow, dmFiles, dmRepo, dmIndex, dmStarted, dmDisturbed>>

\* A process dies; only a clean leaves something half done.
DemoDies(p) ==
    /\ dmPc[p] # "idle" /\ EndsWith(p)
    /\ dmDisturbed' = (dmDisturbed \/ dmPc[p] \in {"cleanIndex", "cleanRuns"})
    /\ UNCHANGED <<dmNow, dmFiles, dmRepo, dmIndex, dmRunIndex, dmStarted>>

DmNext ==
    \/ Tick
    \/ \E p \in DmProc :
         \/ \E o \in Option : StartDemo(p, o)
         \/ CleanFiles(p) \/ CleanIndex(p) \/ CleanRuns(p) \/ PrepareLive(p) \/ RunLivePlan(p)
         \/ WriteArtifacts(p) \/ RegisterDemoArtifacts(p) \/ RegisterDemoRun(p) \/ DemoDies(p)

-----------------------------------------------------------------------------

Resting == \A p \in DmProc : dmPc[p] = "idle"

(***************************************************************************)
(* Every artifact of the index has its file, whatever was run, cleaned and *)
(* run again, and wherever a run without a clean died: the files come      *)
(* first, and a clean takes entries as well as files.                      *)
(***************************************************************************)
IndexedHasItsFile ==
    Resting /\ ~dmDisturbed =>
        \A e \in dmIndex : \E f \in dmFiles : f.dir = e.dir /\ f.name = e.name

(***************************************************************************)
(* A run listed with a directory of its own shows what was written by its  *)
(* demo in its second, and its artifacts are indexed, although run ids and *)
(* directories know no more than the second: another demo started in it    *)
(* takes over the id, but not the directory.                               *)
(***************************************************************************)
ListedRunShowsItsOwn ==
    Resting /\ ~dmDisturbed =>
        \A r \in dmRunIndex : r.dir.demo # "out" =>
            \A n \in r.refs :
                /\ \E f \in dmFiles : f.dir = r.dir /\ f.name = n /\ f.by.demo = r.demo /\ runId(f.by.at) = r.id
                /\ \E e \in dmIndex : e.demo = r.demo /\ e.name = n /\ e.at = r.at

(***************************************************************************)
(* Even with overlapping runs and crashes, what a demo wrote is removed    *)
(* only by a clean of that demo: never a file of another demo, and never a *)
(* file in a directory the user chose.                                     *)
(***************************************************************************)
CleanTakesItsOwn ==
    [][\A f \in dmFiles :
        (\A g \in dmFiles' : g.dir # f.dir \/ g.name # f.name) =>
            \E p \in DmProc : dmInput[p] # NoOption /\ dmInput[p].clean /\ dmInput[p].demo = f.by.demo /\ f.dir.demo # "out"]_dmVars

\* Demonstrations keep their own: what is listed is there and is theirs, and
\* a clean takes nothing else.
DemosKeepTheirOwn == [](IndexedHasItsFile /\ ListedRunShowsItsOwn) /\ CleanTakesItsOwn
=============================================================================
