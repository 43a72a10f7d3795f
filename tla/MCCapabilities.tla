--------------------------- MODULE MCCapabilities ---------------------------
(***************************************************************************)
(* The components behind a capability and behind a work order of a         *)
(* repository plan, and the benchmark of such plans, each on its own       *)
(* instance. They share no state here, so a behaviour follows one of them: *)
(* the first call decides which (part), and the others stay as they start. *)
(***************************************************************************)
EXTENDS CapabilityStep, HttpFetch, ResearchFlow, ResearchView, ModelCall, ArtifactIndex,
        OutputPack, WorkOrders, PatchText, VerificationRun, EvalRun

VARIABLE part

vars == <<part, stepVars, httpVars, resVars, rvVars, mcVars, idxVars, outVars, woVars,
          txVars, vrVars, evVars>>

Init ==
    /\ part = "none"
    /\ StepInit
    /\ HttpInit
    /\ ResInit
    /\ RvInit
    /\ McInit
    /\ IdxInit
    /\ OutInit
    /\ WoInit
    /\ TxInit
    /\ VrInit
    /\ EvInit

Only(name) == part \in {"none", name} /\ part' = name

Next ==
    \/ Only("step") /\ StepNext
       /\ UNCHANGED <<httpVars, resVars, rvVars, mcVars, idxVars, outVars, woVars,
                      txVars, vrVars, evVars>>
    \/ Only("http") /\ HttpNext
       /\ UNCHANGED <<stepVars, resVars, rvVars, mcVars, idxVars, outVars, woVars,
                      txVars, vrVars, evVars>>
    \/ Only("research") /\ ResNext
       /\ UNCHANGED <<stepVars, httpVars, rvVars, mcVars, idxVars, outVars, woVars,
                      txVars, vrVars, evVars>>
    \/ Only("view") /\ RvNext
       /\ UNCHANGED <<stepVars, httpVars, resVars, mcVars, idxVars, outVars, woVars,
                      txVars, vrVars, evVars>>
    \/ Only("model") /\ McNext
       /\ UNCHANGED <<stepVars, httpVars, resVars, rvVars, idxVars, outVars, woVars,
                      txVars, vrVars, evVars>>
    \/ Only("index") /\ IdxNext
       /\ UNCHANGED <<stepVars, httpVars, resVars, rvVars, mcVars, outVars, woVars,
                      txVars, vrVars, evVars>>
    \/ Only("output") /\ OutNext
       /\ UNCHANGED <<stepVars, httpVars, resVars, rvVars, mcVars, idxVars, woVars,
                      txVars, vrVars, evVars>>
    \/ Only("orders") /\ WoNext
       /\ UNCHANGED <<stepVars, httpVars, resVars, rvVars, mcVars, idxVars, outVars,
                      txVars, vrVars, evVars>>
    \/ Only("text") /\ TxNext
       /\ UNCHANGED <<stepVars, httpVars, resVars, rvVars, mcVars, idxVars, outVars,
                      woVars, vrVars, evVars>>
    \/ Only("verify") /\ VrNext
       /\ UNCHANGED <<stepVars, httpVars, resVars, rvVars, mcVars, idxVars, outVars,
                      woVars, txVars, evVars>>
    \/ Only("eval") /\ EvNext
       /\ UNCHANGED <<stepVars, httpVars, resVars, rvVars, mcVars, idxVars, outVars,
                      woVars, txVars, vrVars>>

Spec == Init /\ [][Next]_vars

(* Two candidates of one page, one of the same domain, one of another.     *)
MCUrl    == [c1 |-> "u1", c2 |-> "u1", c3 |-> "u2", c4 |-> "u3"]
MCDomain == [c1 |-> "d1", c2 |-> "d1", c3 |-> "d1", c4 |-> "d2"]
On(id)   == [id |-> id, on |-> TRUE]
Off(id)  == [id |-> id, on |-> FALSE]
MCConfigs == {<<>>, <<On("p1")>>, <<Off("p1"), On("p2")>>}
MCPreferences == {<<>>, <<"p1", "research-fixture">>, <<"absent">>}
MCRvFound == {<<>>, <<"k1">>, <<"k1", "k2", "k3">>}

(* An artifact of each kind the selection treats differently.              *)
MCKind == [r1 |-> "research_brief", r2 |-> "planfile", r3 |-> "raw_log", r4 |-> "model_call"]
MCAge  == [r1 |-> 1, r2 |-> 2, r3 |-> 3, r4 |-> 4]

(* Chains of nodes: the demo's, one with a repair, chains that lack what a   *)
(* later node needs, and one that patches twice on the same evidence.        *)
Chain(kinds, acceptance, producer, commands) ==
    [kinds |-> kinds, acceptance |-> acceptance, producer |-> producer, commands |-> commands]
MCWoPlan ==
    {Chain(<<"frame", "inspect", "patch", "verify", "review">>, TRUE, p, 1) : p \in {"fallback", "demo"}}
    \cup {Chain(<<"inspect", "design", "patch", "verify", "repair", "review", "finalize">>, a, "fallback", c) :
              a \in BOOLEAN, c \in {0, 2}}
    \cup {Chain(k, TRUE, "fallback", 1) :
              k \in {<<"patch", "review">>, <<"inspect", "verify", "review">>, <<"inspect", "repair", "review">>,
                     <<"inspect", "patch", "verify", "approval", "patch", "repair">>}}

(* Texts of up to three tokens.  Every operation alone, and pairs of those   *)
(* with anchors, whose contents may repeat an anchor.                        *)
MCTxFile == {NoFile} \cup UNION {[1 .. n -> {"a", "b", "nl"}] : n \in 0 .. 3}
Anchored ==
    {Operation(k, a, "none", 0, 0, c) :
        k \in {"insert_after", "insert_before"}, a \in {"none", "a", "b"}, c \in {<<"c">>, <<"a">>}}
    \cup {Operation("replace_range", a, e, 0, 0, <<"c">>) : a, e \in {"a", "b"}}
Alone ==
    {Operation("replace_range", "none", "none", f, t, c) :
        f, t \in 0 .. 3, c \in {<<>>, <<"c">>, <<"c", "nl">>, <<"c", "nl", "c">>}}
    \cup {Operation(k, "none", "none", 0, 0, <<"c">>) : k \in {"create_file", "full_replacement", "unified_diff"}}
MCTxPlan == {<<o>> : o \in Anchored \cup Alone} \cup (Anchored \X {o \in Anchored : o.anchor = "a"})

(* A strict and a lenient scenario; routes with every provider, without a    *)
(* planner, for preview, and with too few; outcomes that meet a scenario,    *)
(* change too much, or yield.                                                *)
Scenario(verify, required, forbidden, pattern) ==
    [must_verify |-> verify, required |-> required, forbidden |-> forbidden, pattern |-> pattern]
MCScenarios == <<Scenario(TRUE, {"a"}, {"b"}, TRUE), Scenario(FALSE, {"b"}, {}, FALSE)>>
Roles == {"planner", "implementer", "repair", "reviewer", "escalation"}
Route(apply, providers) == [apply |-> apply, providers |-> providers]
MCRoutes == <<Route(TRUE, Roles), Route(TRUE, Roles \ {"planner"}), Route(FALSE, {}), Route(TRUE, {"planner", "implementer"})>>
Came(status, reports, changed) ==
    [status |-> status, reports |-> reports, errors |-> status = "yielded", changed |-> changed, pattern |-> TRUE]
MCOutcome ==
    {Came("completed", TRUE, {"a"}), Came("completed", TRUE, {"a", "b"}), Came("yielded", FALSE, {"a"})}
=============================================================================
