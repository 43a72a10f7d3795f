---------------------------- MODULE MCOperations ----------------------------
(***************************************************************************)
(* The components that run beside the plans - the local runtime, a         *)
(* terminal session, the repository task, access to the web application    *)
(* and its console -, each on its own instance. They share no state here,  *)
(* so a behaviour follows one of them: the first call decides which        *)
(* (part), and the others stay as they start.                              *)
(***************************************************************************)
EXTENDS RuntimeManager, TuiSession, RepositoryTask, WebAccess, WebConsole

VARIABLE part

vars == <<part, rmVars, tuVars, rtVars, waVars, wcVars>>

Init ==
    /\ part = "none"
    /\ RmInit
    /\ TuInit
    /\ RtInit
    /\ WaInit
    /\ WcInit

Only(name) == part \in {"none", name} /\ part' = name

Next ==
    \/ Only("manager") /\ RmNext
       /\ UNCHANGED <<tuVars, rtVars, waVars, wcVars>>
    \/ Only("tui") /\ TuNext
       /\ UNCHANGED <<rmVars, rtVars, waVars, wcVars>>
    \/ Only("task") /\ RtNext
       /\ UNCHANGED <<rmVars, tuVars, waVars, wcVars>>
    \/ Only("access") /\ WaNext
       /\ UNCHANGED <<rmVars, tuVars, rtVars, wcVars>>
    \/ Only("console") /\ WcNext
       /\ UNCHANGED <<rmVars, tuVars, rtVars, waVars>>

Spec == Init /\ [][Next]_vars

(* Options of a start: as configured, and docker with a search engine.       *)
MCRmArgs == {[rt |-> "", search |-> FALSE], [rt |-> "docker", search |-> TRUE]}

(* Texts that name one flow, several, or none; commands of each kind.        *)
MCTuText == {{"doctor"}, {"demo"}, {"fix"}, {"skill", "pack"}, {}}
MCTuCommand == {"confirm", "pane", "status.show", "run.show", "repo.run", "plan.apply", "approval.approve", "request_verification"}
MCTuTasks == [p1 |-> <<"a", "b">>, p2 |-> <<"c">>]

(* A patch of two operations, one of which names the content it expects, a   *)
(* replacement, a deletion; a dry run and a run that applies at once.        *)
Op(kind, body, hashed) == [file |-> "f", kind |-> kind, body |-> body, hashed |-> hashed]
MCRtPlan ==
    {[id |-> "p", requires_approval |-> FALSE, ops |-> <<Op("modify", "append", TRUE), Op("modify", "append", FALSE)>>],
     [id |-> "p", requires_approval |-> TRUE, ops |-> <<Op("modify", "replace", TRUE)>>],
     [id |-> "q", requires_approval |-> FALSE, ops |-> <<Op("delete", "none", TRUE)>>]}
MCRtInput == {[dry_run |-> d, apply |-> TRUE, require_approval |-> FALSE] : d \in BOOLEAN}

(* A server, the same with another token, one before a separate API, and one *)
(* whose token was taken away.                                               *)
MCWaFirst == [token |-> "t1", secret |-> "s", production |-> TRUE, proxied |-> FALSE]
MCWaServer ==
    {MCWaFirst, [MCWaFirst EXCEPT !.token = "t2"], [MCWaFirst EXCEPT !.proxied = TRUE],
     [MCWaFirst EXCEPT !.token = "none", !.secret = "none"]}
=============================================================================
