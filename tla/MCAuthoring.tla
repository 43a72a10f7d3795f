----------------------------- MODULE MCAuthoring -----------------------------
(***************************************************************************)
(* The components that make, check, keep and install plans and packs, the  *)
(* searches of the plan graph, and the demonstrations that try plans out,  *)
(* each on its own instance. They share no state here, so a behaviour      *)
(* follows one of them: the first call decides which (part), and the       *)
(* others stay as they start.                                              *)
(***************************************************************************)
EXTENDS PlanBuilder, PlanCheck, PlanLibrary, PlanComposer, SkillBuild, PackInstall,
        DemoRun, PlanGraph, TLC

Symmetry == Permutations(Actor) \cup Permutations(DmProc)

VARIABLE part

vars == <<part, pbVars, ckVars, libVars, cpVars, skVars, pkVars, dmVars, grVars>>

Init ==
    /\ part = "none"
    /\ PbInit
    /\ CkInit
    /\ LibInit
    /\ CpInit
    /\ SkInit
    /\ PkInit
    /\ DmInit
    /\ GrInit

Only(name) == part \in {"none", name} /\ part' = name

Next ==
    \/ Only("builder") /\ PbNext
       /\ UNCHANGED <<ckVars, libVars, cpVars, skVars, pkVars, dmVars, grVars>>
    \/ Only("check") /\ CkNext
       /\ UNCHANGED <<pbVars, libVars, cpVars, skVars, pkVars, dmVars, grVars>>
    \/ Only("library") /\ LibNext
       /\ UNCHANGED <<pbVars, ckVars, cpVars, skVars, pkVars, dmVars, grVars>>
    \/ Only("composer") /\ CpNext
       /\ UNCHANGED <<pbVars, ckVars, libVars, skVars, pkVars, dmVars, grVars>>
    \/ Only("skill") /\ SkNext
       /\ UNCHANGED <<pbVars, ckVars, libVars, cpVars, pkVars, dmVars, grVars>>
    \/ Only("pack") /\ PkNext
       /\ UNCHANGED <<pbVars, ckVars, libVars, cpVars, skVars, dmVars, grVars>>
    \/ Only("demo") /\ DmNext
       /\ UNCHANGED <<pbVars, ckVars, libVars, cpVars, skVars, pkVars, grVars>>
    \/ Only("graph") /\ GrNext
       /\ UNCHANGED <<pbVars, ckVars, libVars, cpVars, skVars, pkVars, dmVars>>

Spec == Init /\ [][Next]_vars

(* Plans: harmless, invalid, with side effects, destructive, searching, to   *)
(* be scheduled.                                                             *)
P(risk, search, sched, valid) == [risk |-> risk, search |-> search, sched |-> sched, valid |-> valid]
MCPlans ==
    {P("read", FALSE, "none", TRUE), P("read", FALSE, "none", FALSE),
     P("external", FALSE, "none", TRUE), P("destructive", FALSE, "none", TRUE),
     P("read", TRUE, "none", TRUE),
     P("read", FALSE, "no_time", TRUE), P("external", TRUE, "no_time", FALSE)}

(* Plan files: those that differ in what they need, and those that differ in *)
(* what they do.                                                             *)
Bare == [NoPlanfile EXCEPT !.risk = "read"]
MCPlanfiles ==
    {[Bare EXCEPT !.caps = c, !.urls = u, !.provider = p] :
        c \in {{"search"}, {"search", "repo"}}, u \in BOOLEAN, p \in {"none", "p1"}}
    \cup {[Bare EXCEPT !.caps = c, !.credentials = {"k1"}] : c \in SUBSET {"search"}}
    \cup {[Bare EXCEPT !.caps = c, !.root = r] :
        c \in SUBSET {"repo"}, r \in {"none", "relative", "absolute"}}
    \cup {[Bare EXCEPT !.cyclic = TRUE]}
    \cup {[Bare EXCEPT !.explicit = e, !.template = t, !.modes = m] :
        e \in SUBSET {"p1"}, t \in {"none", "research.digest"}, m \in {{}, {"local"}, {"remote"}}}
    \cup {[Bare EXCEPT !.caps = c, !.modes = m, !.schedule = s] :
        c \in SUBSET {"search"}, m \in SUBSET {"local"}, s \in {"timed", "untimed"}}
    \cup {[Bare EXCEPT !.risk = r, !.approval = a, !.destructive_goal = g] :
        r \in {"read", "write", "destructive"}, a, g \in BOOLEAN}
    \cup {[Bare EXCEPT !.mode = "fixture", !.demo = d, !.risk = r] :
        d \in BOOLEAN, r \in {"read", "write", "destructive"}}
Search(kind) == [id |-> "p1", kind |-> kind, enabled |-> TRUE]
MCProfiles ==
    {[name |-> "local", search |-> {}, secrets |-> {}],
     [name |-> "local", search |-> {Search("searxng")}, secrets |-> {"k1"}],
     [name |-> "remote", search |-> {Search("fixture")}, secrets |-> {}]}

(* Two files of one name, and paths that lead out of a library.              *)
MCLibFile  == {<<"x">>, <<"d", "x">>, <<"y">>}
MCSavePath == {<<"x">>, <<"d", "x">>, <<"d", "..", "x">>, <<"..", "x">>, <<"d", "..", "..", "x">>}

(* Prompts of up to two tokens, among them words that hide a phrase.         *)
Token == {"research", "summarize", "http", "fix", "report", "skill", "packet", "digest", "address", "daily"}
MCPrompt == {p \in SUBSET Token : Cardinality(p) <= 2}
MCHolds(w) ==
    CASE w = "fix" -> {"fix", "fix_"} [] w = "report" -> {"report", "repo"} [] w = "packet" -> {"packet", "pack"}
      [] w = "address" -> {"add"} [] OTHER -> {w}
AllCaps == UNION {t.required : t \in Range(ById)}
MCInstalled == {AllCaps, AllCaps \ {"get_diff", "create_brief"}}
MCRegistration == {<<1, 2, 3, 4, 5, 6, 7>>, <<7, 6, 5, 4, 3, 2, 1>>}

(* Capabilities that meet one hint, several, or several of a higher risk.    *)
Cap(id, risk, words) == [id |-> id, risk |-> risk, words |-> words]
MCSkillCap ==
    <<Cap("apply_patch", "write", {"repo", "apply", "patch"}), Cap("read_file", "read", {"repo", "read"}),
      Cap("run_verification", "external_side_effect", {"repo", "verification"}),
      Cap("search_text", "read", {"repo", "search", "read", "list"}), Cap("write_report", "read", {"review"})>>
MCSkillGoal == {{}, {"research"}, {"verify"}, {"repo", "patch"}, {"not write", "review"}}
MCSkillIo == {{}, {"report"}}
MCSkillRest == {{}, {"write"}, {"send"}, {"delete"}, {"shell script"}, {"write", "bypass approval"}}

(* Sources: sound, a write without approval, experimental, a claim to a      *)
(* built-in capability, and one that shares a capability id with the first.  *)
PkCap(id, risk, approval) == [id |-> id, risk |-> risk, approval |-> approval]
Source(caps, finding, experimental) == [caps |-> caps, finding |-> finding, experimental |-> experimental]
MCPackSource ==
    {Source({PkCap("x", "write", TRUE), PkCap("y", "read", FALSE)}, "none", FALSE),
     Source({PkCap("x", "write", FALSE)}, "none", FALSE), Source({PkCap("y", "read", FALSE)}, "none", TRUE),
     Source({PkCap("core.read", "read", FALSE), PkCap("x", "read", FALSE)}, "manual_review", FALSE),
     Source({PkCap("x", "read", TRUE)}, "none", FALSE)}
MCPackOrder == <<"local.a", "local.b">>

(* Every graph of three nodes, with one id that no node has; of them the     *)
(* first, the last or none is the frame node.                                *)
NoneOrLast  == {{}, {NodeCount}}
FirstOrLast == {{}, {1}, {NodeCount}}
=============================================================================
