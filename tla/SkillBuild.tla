------------------------------ MODULE SkillBuild ------------------------------
(***************************************************************************)
(* From a skill file to a workflow skill or a generated pack               *)
(* (packages/core/src/skills): the frame (skill-frame.ts), the match with  *)
(* installed capabilities (capability-match.ts), the decision              *)
(* (skill-build-decision.ts), the workflow skill and its validation        *)
(* (workflow-skill-generator.ts, skill-validator.ts) and the plan of a     *)
(* generated pack (generated-pack/pack-generator.ts).                      *)
(*                                                                         *)
(* The text is a set of words; "not write" stands for a verb the file      *)
(* forbids.  With a model configured the frame is the model's from end to  *)
(* end, the text it says the file has included, and need not resemble the  *)
(* file: what is checked later is the frame.                               *)
(***************************************************************************)
EXTENDS Naturals, FiniteSets, SequencesExt

CONSTANTS
    SkillGoal,     \* sets of words of the goal
    SkillIo,       \* sets of words of the inputs and outputs
    SkillRest,     \* sets of words of the other sections
    SkillTool,     \* tools a file may list
    KnownTool,     \* those knownToolHint recognises
    SkillCap       \* installed capabilities by id: id, risk and words of their text

ASSUME SkillAssumption == IsFiniteSet(SkillTool)

VARIABLES skPc, skFrame, skMatch, skResult

skVars == <<skPc, skFrame, skMatch, skResult>>

NoSkill == [kind |-> "none", caps |-> {}, risk |-> "read", approval |-> FALSE, nodes |-> {}]

SkInit ==
    /\ skPc = "idle" /\ skFrame = <<>> /\ skResult = NoSkill
    /\ skMatch = [matches |-> {}, missing |-> {}]

-----------------------------------------------------------------------------
(* The frame                                                               *)

\* RISK_ORDER of the registry
skRank(risk) == CASE risk = "read" -> 0 [] risk = "write" -> 1 [] risk = "external_side_effect" -> 2 [] OTHER -> 3

\* sideEffectsFrom, after "do not <verb>" has been taken out
sideEffectsFrom(text) ==
    (IF text \cap {"write", "modify", "patch", "create", "update"} # {} THEN {"write"} ELSE {})
    \cup (IF text \cap {"delete", "remove", "destroy"} # {} THEN {"delete"} ELSE {})
    \cup (IF text \cap {"send", "email", "post", "publish", "webhook", "external"} # {} THEN {"external_side_effect"} ELSE {})

riskFrom(effects, destructive) ==
    CASE "delete" \in effects \/ destructive -> "destructive"
      [] "external_side_effect" \in effects /\ "delete" \notin effects /\ ~destructive -> "external_side_effect"
      [] effects = {"write"} /\ ~destructive -> "write"
      [] OTHER -> "read"

unsafeConcerns(text) == text \cap {"bypass approval", "raw secret", "shell script"}

skillApproval(risk, effects, given) == given \/ risk # "read" \/ effects # {}

deterministicSkillFrame(f) ==
    LET text    == f.goal \cup f.io \cup f.rest
        effects == sideEffectsFrom(text)
        risk    == riskFrom(effects, f.destructive)
    IN  [text |-> text, goal |-> f.goal, io |-> f.io, effects |-> effects, risk |-> risk, concerns |-> unsafeConcerns(text),
         missing |-> f.tools \ KnownTool, approval |-> skillApproval(risk, effects, f.approval),
         model |-> FALSE, prompt |-> FALSE]

-----------------------------------------------------------------------------
(* Matching                                                                *)

Requirement(key, hints) == [key |-> key, hints |-> hints]

\* capabilityRequirements: substrings of goal, inputs, outputs and side effects, so a
\* forbidden verb counts as one.
capabilityRequirements(frame) ==
    LET text == frame.goal \cup frame.io \cup frame.effects
        found ==
            (IF text \cap {"research", "source", "brief"} # {}
             THEN {Requirement("research", {"research", "source", "citation", "brief", "search"})} ELSE {})
            \cup (IF text \cap {"repo", "file", "read"} # {}
                  THEN {Requirement("inspect", {"list", "read", "search", "repo", "repository"})} ELSE {})
            \cup (IF text \cap {"patch", "modify", "write", "not write"} # {} \/ frame.risk \in {"write", "destructive"}
                  THEN {Requirement("write", {"patch", "apply", "write", "repo"})} ELSE {})
            \cup (IF text \cap {"verify", "test"} # {}
                  THEN {Requirement("verify", {"verify", "verification", "test"})} ELSE {})
            \cup (IF text \cap {"review", "report"} # {} THEN {Requirement("review", {"review", "report"})} ELSE {})
    IN  IF found = {} THEN {Requirement("read", {"read", "search", "list"})} ELSE found

\* Mutant: the risk bound does not filter the capabilities.
wholeRegistry(risk) == DOMAIN SkillCap

\* createCapabilitySnapshotForTask with max_risk_level, as matchesFilter reads it:
\* places in the list of capabilities, whose order it keeps
snapshotFor(risk) == {i \in DOMAIN SkillCap : skRank(SkillCap[i].risk) <= skRank(risk)}

\* The share of the hints (of at most three) found in a capability's text, in percent
scoreCapability(c, hints) ==
    (100 * Cardinality(hints \cap c.words)) \div (IF Cardinality(hints) < 3 THEN Cardinality(hints) ELSE 3)

goodEnough(score) == score >= 35

\* bestMatch: the first of the highest score; none is the empty set.
bestMatch(req, snapshot) ==
    LET score(i) == scoreCapability(SkillCap[i], req.hints)
    IN  {SkillCap[i] : i \in {j \in snapshot : goodEnough(score(j)) /\ \A k \in snapshot :
                                  score(j) > score(k) \/ (score(j) = score(k) /\ j <= k)}}

matchCapabilitiesForSkill(frame, snapshot) ==
    LET reqs == capabilityRequirements(frame)
    IN  [matches |-> UNION {bestMatch(r, snapshot) : r \in reqs},
         missing |-> {r.key : r \in {q \in reqs : bestMatch(q, snapshot) = {}}}]

decideSkillBuild(frame, match) ==
    CASE frame.concerns # {} -> "unsupported"
      [] frame.concerns = {} /\ frame.missing \cup match.missing # {} -> "capability_pack_required"
      [] OTHER -> IF frame.prompt THEN "prompt_template" ELSE "workflow_skill"

-----------------------------------------------------------------------------
(* Results                                                                 *)

SkNode(kind, risk, approval, caps) == [kind |-> kind, risk |-> risk, approval |-> approval, caps |-> caps]

\* planfileTemplate: only the last node has the risk of the skill.
planfileTemplate(frame, caps) ==
    {SkNode("frame", "read", FALSE, {}), SkNode("inspect", "read", FALSE, caps), SkNode("design", "read", FALSE, caps),
     SkNode("review", "read", FALSE, caps), SkNode("finalize", frame.risk, frame.risk # "read", caps)}

workflowSkill(frame, match) ==
    LET caps == {c.id : c \in match.matches}
    IN  [kind |-> "workflow_skill", caps |-> caps, risk |-> frame.risk,
         approval |-> frame.risk # "read" \/ frame.approval, nodes |-> planfileTemplate(frame, caps)]

\* What the skill quotes of its frame: the goal, the outputs, and the text the frame
\* says the file has, as the prompt of its plan.
quoted(frame) == frame.text \cup frame.goal \cup frame.io

\* validateWorkflowSkill: scripts in what the skill quotes, approval, the plan, whose
\* policy names no destructive goal, and capabilities; an error is thrown.
validateWorkflowSkill(skill, quote, snapshot) ==
    /\ "shell script" \notin quote
    /\ (\E n \in skill.nodes : n.risk # "read") => skill.approval
    /\ \A n \in skill.nodes : n.risk # "destructive"
    /\ skill.caps \subseteq {SkillCap[i].id : i \in snapshot}

\* createPackBuildPlan, proposedCapabilities: the first three of what is missing.
proposedCapabilities(frame, missing) ==
    {SkNode("capability", frame.risk, frame.risk # "read", {m}) : m \in missing}

\* generateSkillFrame without a model
FrameFile(goal, io, rest, tools, destructive, approval) ==
    /\ skPc = "idle" /\ skPc' = "framed"
    /\ skFrame' = deterministicSkillFrame([goal |-> goal, io |-> io, rest |-> rest, tools |-> tools,
                                           destructive |-> destructive, approval |-> approval])
    /\ UNCHANGED <<skMatch, skResult>>

\* generateSkillFrame with a model: the whole frame is its answer, parsed only.
FrameByModel(text, goal, io, risk) ==
    /\ skPc = "idle" /\ skPc' = "framed"
    /\ \E effects \in {{}, {"write"}}, concerns \in {{}, {"raw secret"}}, missing \in {{}, SkillTool},
          approval, prompt \in BOOLEAN :
          skFrame' = [text |-> text, goal |-> goal, io |-> io, effects |-> effects, risk |-> risk,
                      concerns |-> concerns, missing |-> missing, approval |-> approval,
                      model |-> TRUE, prompt |-> prompt]
    /\ UNCHANGED <<skMatch, skResult>>

Match ==
    /\ skPc = "framed" /\ skPc' = "matched"
    /\ skMatch' = matchCapabilitiesForSkill(skFrame, snapshotFor(skFrame.risk))
    /\ UNCHANGED <<skFrame, skResult>>

\* generateWorkflowSkill and buildGeneratedPack, after the same decision
BuildSkill ==
    /\ skPc = "matched" /\ skPc' = "built"
    /\ LET decision == decideSkillBuild(skFrame, skMatch)
           skill    == workflowSkill(skFrame, skMatch)
           missing  == skFrame.missing \cup skMatch.missing
       IN  \/ /\ decision = "workflow_skill"
              /\ skResult' = IF validateWorkflowSkill(skill, quoted(skFrame), snapshotFor(skFrame.risk))
                             THEN skill ELSE [NoSkill EXCEPT !.kind = "invalid"]
           \/ /\ decision = "capability_pack_required"
              /\ \E some \in {s \in SUBSET missing : Cardinality(s) = Min({3, Cardinality(missing)})} :
                    skResult' = [NoSkill EXCEPT !.kind = "pack", !.risk = skFrame.risk,
                                    !.nodes = proposedCapabilities(skFrame, some)]
           \/ /\ decision \in {"unsupported", "prompt_template"} /\ skResult' = [NoSkill EXCEPT !.kind = decision]
    /\ UNCHANGED <<skFrame, skMatch>>

SkNext ==
    \/ \E goal \in SkillGoal, io \in SkillIo, rest \in SkillRest, tools \in SUBSET SkillTool,
          destructive, approval \in BOOLEAN : FrameFile(goal, io, rest, tools, destructive, approval)
    \/ \E text \in SkillRest, goal \in SkillGoal, io \in SkillIo,
          risk \in {"read", "write", "external_side_effect", "destructive"} : FrameByModel(text, goal, io, risk)
    \/ Match \/ BuildSkill

SkSpec == SkInit /\ [][SkNext]_skVars

-----------------------------------------------------------------------------
(* Properties                                                              *)

\* Whatever frame a model answered, a skill or a pack never does more than it says:
\* its capabilities are installed and of no higher risk than its own, and whatever
\* is not a read asks for approval.
SkillWithinRisk ==
    skPc = "built" =>
        /\ \A id \in skResult.caps : \E c \in ToSet(SkillCap) : c.id = id /\ skRank(c.risk) <= skRank(skResult.risk)
        /\ \A n \in skResult.nodes : n.risk # "read" => n.approval /\ (skResult.kind = "workflow_skill" => skResult.approval)

\* A file that asks to bypass approval, for raw secrets or for scripts becomes
\* neither a skill nor a pack, in whichever section it asks.  Of a model's frame only
\* what the frame says counts: its concerns, and a script in the text it quotes, which
\* makes no skill; whether it quotes the file is not checked.  And whoever framed it,
\* nothing destructive becomes a skill.
UnsafeNeverBuilt ==
    skPc = "built" =>
        LET asked == skFrame.text \cap {"bypass approval", "raw secret", "shell script"}
        IN  /\ asked # {} /\ ~skFrame.model => skResult.kind = "unsupported"
            /\ skFrame.concerns # {} => skResult.kind = "unsupported"
            /\ "shell script" \in asked \/ skFrame.risk = "destructive" => skResult.kind # "workflow_skill"

\* A workflow skill leaves nothing uncovered: all its tools are known and every
\* requirement of its goal has a capability that meets at least two hints, or one
\* of two; otherwise a pack is planned for what is missing.
NothingLeftUncovered ==
    skPc = "built" =>
        /\ skResult.kind = "workflow_skill" =>
              /\ skFrame.missing = {}
              /\ \A r \in capabilityRequirements(skFrame) : \E c \in ToSet(SkillCap) :
                    /\ c.id \in skResult.caps
                    /\ Cardinality(c.words \cap r.hints) >= (IF Cardinality(r.hints) > 2 THEN 2 ELSE 1)
        /\ skResult.kind = "pack" => skResult.nodes # {} /\ Cardinality(skResult.nodes) <= 3

\* A skill becomes a workflow or a pack only within its risk and only when
\* nothing it needs is left uncovered.
SkillsStaySafe == SkillWithinRisk /\ UnsafeNeverBuilt /\ NothingLeftUncovered
=============================================================================
