----------------------------- MODULE PlanComposer -----------------------------
(***************************************************************************)
(* composePlanfileFromIntent (planning/intent-to-plan-composer.ts): a      *)
(* prompt is classified (intent-classifier.ts), the best template of the   *)
(* registry chosen (plan-template-registry.ts), its capabilities matched   *)
(* (capability-match.ts), and the template made a plan.                    *)
(*                                                                         *)
(* A prompt is a set of tokens; Holds says which of the phrases the        *)
(* code looks for is a substring of a token ("report" holds "repo"); the   *)
(* spaces of a phrase are written "_".  The model, asked only when the     *)
(* prompt is ambiguous, answers any frame.                                 *)
(***************************************************************************)
EXTENDS Naturals, FiniteSets, SequencesExt

CONSTANTS
    Prompt,        \* sets of tokens
    Holds(_),      \* the phrases a token contains
    Installed,     \* sets of capabilities a registry may hold
    Registration   \* orders in which the templates may be registered

VARIABLES
    cpPc,
    cpReq,     \* the request: words, repo_path, schedule_preference, registry
    cpIntent,  \* the IntentFrame
    cpPlan     \* the composed plan, an error, or neither

cpVars == <<cpPc, cpReq, cpIntent, cpPlan>>

NoComposed == [template |-> "none", nodes |-> <<>>, params |-> {}, commands |-> {}, error |-> "none", matches |-> {}]

CpInit == cpPc = "idle" /\ cpReq = <<>> /\ cpIntent = <<>> /\ cpPlan = NoComposed

-----------------------------------------------------------------------------
(* The templates                                                           *)

TNode(kind, cap) == [kind |-> kind, cap |-> cap]

researchCaps == {"plan_search", "search_sources", "select_sources", "fetch_sources", "extract_sources",
                 "create_source_set", "create_brief", "export_markdown"}

\* The two executable research templates; the nodes of a template are a chain.
researchTemplates ==
    [topic |-> [id |-> "research.topic_brief", domains |-> {"research"}, output |-> "markdown_brief",
        patterns |-> {"research", "brief", "cited", "sources", "markdown"},
        required |-> researchCaps, needs |-> {"topic"},
        nodes |-> <<TNode("frame", "none"), TNode("inspect", "plan_search"), TNode("inspect", "search_sources"),
                    TNode("analyze", "select_sources"), TNode("inspect", "fetch_sources"),
                    TNode("analyze", "extract_sources"), TNode("analyze", "create_source_set"),
                    TNode("analyze", "create_brief"), TNode("finalize", "export_markdown")>>],
     url |-> [id |-> "research.url_summary", domains |-> {"research"}, output |-> "markdown_brief",
        patterns |-> {"url", "fetch", "summarize", "summary"},
        required |-> {"fetch_source", "extract_content", "create_brief", "export_markdown"}, needs |-> {"url"},
        nodes |-> <<TNode("frame", "none"), TNode("inspect", "fetch_source"), TNode("analyze", "extract_content"),
                    TNode("analyze", "create_brief"), TNode("finalize", "export_markdown")>>]]

\* research.digest (scaffold_only) and repository.plan_to_patch
digestTemplate ==
    [id |-> "research.digest", domains |-> {"research"}, output |-> "markdown_brief",
     patterns |-> {"digest", "topics", "daily_research", "roundup"}, required |-> researchCaps, needs |-> {"topics"},
     nodes |-> <<TNode("frame", "none"), TNode("analyze", "create_brief"), TNode("finalize", "export_markdown")>>]

patchTemplate ==
    [id |-> "repository.plan_to_patch", domains |-> {"repository"}, output |-> "git_patch",
     patterns |-> {"repo", "repository", "patch", "cli", "json_output", "fix", "add", "update"},
     required |-> {"list_files", "search_text", "read_file", "propose_patch", "run_verification", "get_diff",
                   "create_review_report"},
     needs |-> {},
     nodes |-> <<TNode("frame", "none"), TNode("inspect", "list_files"), TNode("inspect", "search_text"),
                 TNode("design", "none"), TNode("patch", "propose_patch"), TNode("verify", "run_verification"),
                 TNode("review", "create_review_report"), TNode("finalize", "get_diff")>>]

\* The output packets are made from the artifacts of a run.
outputTemplates ==
    [research |-> [id |-> "output.research_packet", domains |-> {"generic", "research"}, output |-> "run_packet",
        patterns |-> {"research_packet", "bundle_research", "export_research", "report", "html", "pdf"},
        required |-> {"select_artifacts", "create_run_packet", "render_html", "export_artifacts"}, needs |-> {"run_id"},
        nodes |-> <<TNode("inspect", "select_artifacts"), TNode("finalize", "create_run_packet"), TNode("finalize", "render_html")>>],
     developer |-> [id |-> "output.developer_packet", domains |-> {"generic", "repository"}, output |-> "run_packet",
        patterns |-> {"developer_handoff", "developer_report", "bundle_patch", "export_patch", "final_patch", "handoff"},
        required |-> {"select_artifacts", "create_run_packet", "export_artifacts"}, needs |-> {"run_id"},
        nodes |-> <<TNode("inspect", "select_artifacts"), TNode("finalize", "create_run_packet"), TNode("finalize", "export_artifacts")>>],
     digest |-> [id |-> "output.digest", domains |-> {"generic", "repository", "research"}, output |-> "run_digest",
        patterns |-> {"digest", "executive_summary", "summary", "summarize_outputs", "important_outputs"},
        required |-> {"select_artifacts", "create_digest"}, needs |-> {"run_id"},
        nodes |-> <<TNode("inspect", "select_artifacts"), TNode("finalize", "create_digest")>>]]

\* PlanTemplateRegistry.list: by template_id, whatever order they were registered in.
ById == <<outputTemplates.developer, outputTemplates.digest, outputTemplates.research, patchTemplate,
          digestTemplate, researchTemplates.topic, researchTemplates.url>>

\* Mutant: the templates come in the order of registration.
asRegistered(order) == [i \in 1..7 |-> ById[order[i]]]

listTemplates(order) == ById

-----------------------------------------------------------------------------
(* Classification                                                          *)

phrases(words) == UNION {Holds(w) : w \in words}

looksLikeResearch(ps) == ps \cap {"research", "brief", "cited", "citation", "summarize", "source"} # {}
looksLikeRepository(ps) ==
    ps \cap {"repo", "cli", "json_output", "patch", "add_", "fix_", "change_", "update_", "implement_"} # {}

scheduled(req) == req.sched \/ phrases(req.words) \cap {"daily", "weekly", "cron", "every_morning"} # {}

domainOf(repository, research, ps) ==
    CASE research -> "research"
      [] repository /\ ~research -> "repository"
      [] ~repository /\ ~research /\ "skill" \in ps -> "skill"
      [] ~repository /\ ~research /\ "skill" \notin ps /\ "pack" \in ps -> "pack"
      [] OTHER -> "generic"

outputFor(domain) ==
    CASE domain = "repository" -> "git_patch" [] domain = "research" -> "markdown_brief" [] OTHER -> "planfile"

\* interpretedGoal puts words of its own in front of the prompt.
interpretedGoal(domain) ==
    CASE domain = "research" -> {"research", "brief", "cited"}
      [] domain = "repository" -> {"repo", "repository", "patch"} [] OTHER -> {}

deterministicIntentFrame(req) ==
    LET ps     == phrases(req.words)
        url    == "http" \in ps
        domain == domainOf(looksLikeRepository(ps) \/ req.repo, url \/ looksLikeResearch(ps), ps)
        blocking == domain = "generic" \/ (domain = "repository" /\ ~req.repo)
    IN  [domain |-> domain, prompt |-> ps, goal |-> interpretedGoal(domain), output |-> outputFor(domain),
         sched |-> scheduled(req), blocking |-> blocking, model |-> FALSE,
         level |-> CASE blocking -> "high"
                     [] ~blocking /\ scheduled(req) /\ "time" \notin ps -> "medium" [] OTHER -> "low"]

-----------------------------------------------------------------------------
(* Selection                                                               *)

isOutputPrompt(text) ==
    text \cap {"pdf", "html", "export", "bundle", "packet", "digest", "executive_summary", "developer_handoff", "report"} # {}

Points(n, condition) == IF condition THEN n ELSE 0

researchBonus(domain, url, id) ==
    Points(5, domain = "research" /\ url /\ id = "research.url_summary")
    + Points(3, domain = "research" /\ ~url /\ id = "research.topic_brief")

templateScore(intent, t) ==
    LET text == intent.prompt \cup intent.goal
        out  == isOutputPrompt(text)
    IN  Points(4, intent.domain \in t.domains) + Points(2, t.output = intent.output)
        + Cardinality(t.patterns \cap text)
        + researchBonus(intent.domain, "http" \in intent.prompt, t.id)
        + Points(3, intent.domain = "repository" /\ t.id = "repository.plan_to_patch")
        + Points(5, out /\ t \in Range(outputTemplates))
        + Points(3, out /\ "research" \in text /\ t.id = "output.research_packet")
        + Points(3, out /\ text \cap {"developer", "patch", "handoff"} # {} /\ t.id = "output.developer_packet")

\* The first of the highest score: the sort is stable.
selectTemplate(intent, list) ==
    LET score(i) == templateScore(intent, list[i])
        best == {i \in DOMAIN list : score(i) > 0 /\ \A j \in DOMAIN list :
                    score(i) > score(j) \/ (score(i) = score(j) /\ i <= j)}
    IN  {list[i] : i \in best}

-----------------------------------------------------------------------------
(* Composition                                                             *)

missingRequiredCapabilities(t, caps) == t.required \ caps # {}

\* matchCapabilitiesForIntent: what the template names, then for the intent's kinds
\* any capability whose text resembles one; a name appears once, at its first match.
capabilityMatches(t, caps, inferred) ==
    {<<c, TRUE>> : c \in t.required \cap caps} \cup {<<c, FALSE>> : c \in (inferred \cap caps) \ t.required}

riskForNode(node) ==
    CASE node.kind = "patch" -> "write" [] node.kind = "verify" -> "external_side_effect" [] OTHER -> "read"

planNodeFromTemplate(node) ==
    [kind |-> node.kind, cap |-> node.cap, risk |-> riskForNode(node),
     approval |-> riskForNode(node) \in {"write", "destructive", "external_side_effect"},
     commands |-> IF node.kind = "verify" THEN {"npm_run_typecheck"} ELSE {}]

templateParameters(intent, req) ==
    {"topic", "objective", "title", "urls", "max_sources", "brief_style", "template_id"}
    \cup (IF "http" \in intent.prompt THEN {"url"} ELSE {}) \cup (IF req.repo THEN {"repo_path"} ELSE {})

planfileFromTemplate(intent, t, req) ==
    [template |-> t.id, nodes |-> [i \in DOMAIN t.nodes |-> planNodeFromTemplate(t.nodes[i])],
     params |-> templateParameters(intent, req), error |-> "none", matches |-> {},
     commands |-> IF t.id = "repository.plan_to_patch" THEN {"npm_run_typecheck"} ELSE {}]

\* deterministicPlanfile: five nodes that only read and name no capability.
deterministicPlanfile ==
    [NoComposed EXCEPT !.template = "generic",
        !.nodes = [i \in 1..5 |-> planNodeFromTemplate(TNode(<<"frame", "inspect", "design", "review", "finalize">>[i], "none"))]]

Refused(error) == [NoComposed EXCEPT !.error = error]

\* composePlanfileFromIntent, first half: classifyIntent without a model
Classify(words, repo, sched, caps, order) ==
    /\ cpPc = "idle"
    /\ cpReq' = [words |-> words, repo |-> repo, sched |-> sched, caps |-> caps, order |-> order]
    /\ cpIntent' = deterministicIntentFrame(cpReq')
    /\ cpPc' = "classified" /\ UNCHANGED cpPlan

\* and with one, asked about a prompt of high ambiguity: every field is its choice.
AskModel ==
    /\ cpPc = "classified" /\ cpIntent.level = "high" /\ ~cpIntent.model
    /\ \E domain \in {"repository", "research", "skill", "pack", "generic"}, blocking \in BOOLEAN, words \in {cpReq.words, {}} :
          cpIntent' = [cpIntent EXCEPT !.domain = domain, !.prompt = phrases(words), !.goal = {}, !.blocking = blocking,
                          !.output = outputFor(domain), !.level = "low", !.model = TRUE]
    /\ UNCHANGED <<cpPc, cpReq, cpPlan>>

ComposeNow ==
    /\ cpPc = "classified" /\ cpPc' = "composed"
    /\ LET selected == selectTemplate(cpIntent, listTemplates(cpReq.order))
       IN  \/ /\ selected = {} /\ cpIntent.blocking /\ cpPlan' = Refused("BLOCKING_AMBIGUITY")
           \/ /\ selected = {} /\ ~cpIntent.blocking /\ cpPlan' = deterministicPlanfile
           \/ \E t \in selected :
                 IF missingRequiredCapabilities(t, cpReq.caps) THEN cpPlan' = Refused("MISSING_CAPABILITY")
                 ELSE \E inferred \in SUBSET {"create_brief", "get_diff"} :
                        cpPlan' = [planfileFromTemplate(cpIntent, t, cpReq)
                                     EXCEPT !.matches = capabilityMatches(t, cpReq.caps, inferred)]
    /\ UNCHANGED <<cpReq, cpIntent>>

CpNext ==
    \/ \E words \in Prompt, repo, sched \in BOOLEAN, caps \in Installed, order \in Registration :
          Classify(words, repo, sched, caps, order)
    \/ AskModel \/ ComposeNow

CpSpec == CpInit /\ [][CpNext]_cpVars

-----------------------------------------------------------------------------
(* Properties                                                              *)

Composed == cpPc = "composed" /\ cpPlan.error = "none"
WritesTo(plan) == \E i \in DOMAIN plan.nodes : plan.nodes[i].risk # "read"

\* Whatever the prompt and the model say, a composed plan passes validatePlanfile:
\* its capabilities are installed, what is not a read asks for approval and its
\* verification commands are in its own policy; a required match is never an
\* inferred one too.
ComposedIsSound ==
    Composed =>
        /\ \A i \in DOMAIN cpPlan.nodes : LET n == cpPlan.nodes[i] IN
              /\ n.cap \in cpReq.caps \cup {"none"} /\ (n.risk # "read" => n.approval)
              /\ n.commands \subseteq cpPlan.commands
        /\ \A m, k \in cpPlan.matches : m[1] = k[1] => m = k

\* Without a model's help, a research or repository prompt that asks for no output
\* document makes a plan that has every parameter its template requires: a URL
\* summary has its URL, and the scaffold with its topics is never chosen.
RequiredParametersKnown ==
    Composed /\ ~cpIntent.model /\ cpIntent.domain \in {"research", "repository"} /\ ~isOutputPrompt(cpIntent.prompt) =>
        \A t \in Range(ById) : t.id = cpPlan.template => t.needs \subseteq cpPlan.params

\* The template of a plan does not depend on the order of registration, and no
\* other has a better score.
SelectionIsCanonical ==
    Composed /\ cpPlan.template # "generic" =>
        \E i \in 1..7 : /\ ById[i].id = cpPlan.template
                        /\ \A j \in 1..7 \ {i} : LET mine == templateScore(cpIntent, ById[i])
                                                   other == templateScore(cpIntent, ById[j])
                                               IN  mine > other \/ (mine = other /\ i < j)

\* A prompt with research words never makes a plan that writes to a repository,
\* however much of a repository it also talks about.
ResearchNeverWrites ==
    Composed /\ ~cpIntent.model /\ looksLikeResearch(phrases(cpReq.words)) => ~WritesTo(cpPlan)

\* A prompt leads to one template, whatever the order of registration, and
\* the composed plan has what it needs.
CompositionSound ==
  /\ ComposedIsSound
  /\ RequiredParametersKnown
  /\ SelectionIsCanonical
  /\ ResearchNeverWrites
=============================================================================
