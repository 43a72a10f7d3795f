---------------------------- MODULE ResearchView ----------------------------
(***************************************************************************)
(* A run of the research plan and the view of it: the node handlers of the *)
(* research pack (core/src/capability-packs/research/executor.ts), the     *)
(* artifacts they record, and buildResearchRunView                         *)
(* (core/src/research/research-run-view.ts), which the web application,    *)
(* the terminal and the command line show.                                 *)
(*                                                                         *)
(* Artifacts are recorded by the call that runs the plan, get that call's  *)
(* start as their time, and enter the index when the call ends.  The view  *)
(* reads the index twice, once for the run snapshot and once for itself.   *)
(* A source has an id as a search candidate, one as a fetched page and one *)
(* as the extracted text of the page; the ids are values, texts are not    *)
(* modelled.  Search and the choice of sources are ResearchFlow's, fetches *)
(* HttpFetch's.                                                            *)
(***************************************************************************)
EXTENDS Naturals, FiniteSets, SequencesExt

CONSTANTS
    RvFound,   \* sequences of candidates a search may return
    RvPage,    \* pages a live fetch may end at
    RvMax      \* max_sources

\* A search returns a page once: the coordinator dedupes its candidates by URL.
ASSUME RvAssumption ==
    /\ RvMax \in Nat \ {0}
    /\ \A found \in RvFound : found \in Seq(ToSet(found)) /\ IsInjective(found)

VARIABLES
    rvPc,
    rvMode,      \* mode of the fetch node
    rvSelected,  \* output of select_sources
    rvFetched,   \* outputs of fetch_sources: [of, id, text], text an artifact or 0
    rvSources,   \* output of extract_sources
    rvTried,     \* fetched sources the extract node is through with
    rvWarned,    \* warnings of the two nodes: [what, of]
    rvArts,      \* artifacts in the order they were recorded
    rvIndex,     \* those in the artifact index
    rvSnap,      \* artifacts of the run snapshot, in order, with their kinds
    rvView       \* the view, none before it is built

rvVars == <<rvPc, rvMode, rvSelected, rvFetched, rvSources, rvTried, rvWarned,
            rvArts, rvIndex, rvSnap, rvView>>
rvNodes == <<rvMode, rvSelected, rvFetched, rvSources, rvTried, rvWarned>>

\* Ids of sources.  A record without source_id, url and title is "source".
AsCandidate(c) == <<"candidate", c>>
AsPage(p)      == <<"page", p>>
AsText(p)      == <<"text", p>>
Nameless       == <<"source", "">>

\* An artifact, what its content names, and which call of the plan recorded it.
Recorded(kind, names, selected, rejected) ==
    [kind |-> kind, names |-> names, selected |-> selected, rejected |-> rejected, call |-> 1]
SearchResults(ids) == Recorded("source_search_results", ids, {}, {})
Snapshot           == Recorded("source_snapshot", {}, {}, {})
Text(id)           == Recorded("source_text", {id}, {}, {})
SourceSet(s, r)    == Recorded("source_set", s \cup r, s, r)
Brief              == Recorded("research_brief", {}, {}, {})
NoSnap == [order |-> <<>>, indexed |-> {}]
NoView == [order |-> <<>>, sources |-> <<>>, brief |-> 0, at |-> {}, built |-> FALSE]

RvInit ==
    /\ rvPc = "search" /\ rvMode = "none" /\ rvSelected = <<>> /\ rvFetched = <<>>
    /\ rvSources = <<>> /\ rvTried = 0 /\ rvWarned = {} /\ rvArts = <<>> /\ rvIndex = {}
    /\ rvSnap = NoSnap /\ rvView = NoView

-----------------------------------------------------------------------------
(* The nodes of the plan                                                   *)

\* search_sources and select_sources; fetch_sources refuses an empty input.
SearchAndSelect ==
    /\ rvPc = "search"
    /\ \E found \in RvFound, mode \in {"live", "fixture", "dry_run"} :
          /\ rvMode' = mode
          /\ rvArts' = Append(rvArts, SearchResults({AsCandidate(c) : c \in ToSet(found)}))
          /\ rvSelected' = SubSeq(found, 1, IF Len(found) < RvMax THEN Len(found) ELSE RvMax)
          /\ rvPc' = IF found = <<>> THEN "flush" ELSE "fetch"
    /\ UNCHANGED <<rvFetched, rvSources, rvTried, rvWarned, rvIndex, rvSnap, rvView>>

Warned(what) == {w.of : w \in {v \in rvWarned : v.what = what}}
Through == Len(rvFetched) + Cardinality(Warned("fetch_failed"))

\* The source fetched_sources gets for c: its id, page and text artifact.
Output(c, page, text) == [of |-> c, page |-> page, text |-> text]

\* fetchFixture: a checked-in source is stored whole, or is not there.
fetchFixture(c) ==
    \/ rvFetched' = Append(rvFetched, Output(c, c, 0)) /\ UNCHANGED rvArts
    \/ /\ rvArts' = rvArts \o <<Snapshot, Text(AsCandidate(c))>>
       /\ rvFetched' = Append(rvFetched, Output(c, c, Len(rvArts')))

\* One source of fetch_sources.  A dry run only answers; a live fetch that fails may
\* have stored its snapshot, and becomes a warning while the node goes on.
FetchOne ==
    /\ rvPc = "fetch" /\ Through < Len(rvSelected)
    /\ LET c == rvSelected[Through + 1]
       IN  \/ /\ rvMode = "dry_run"
              /\ rvFetched' = Append(rvFetched, Output(c, c, 0))
              /\ UNCHANGED <<rvArts, rvWarned>>
           \/ rvMode = "fixture" /\ fetchFixture(c) /\ UNCHANGED rvWarned
           \/ /\ rvMode = "live"
              /\ \E page \in RvPage :
                    /\ rvArts' = rvArts \o <<Snapshot, Text(AsPage(page))>>
                    /\ rvFetched' = Append(rvFetched, Output(c, page, Len(rvArts')))
              /\ UNCHANGED rvWarned
           \/ /\ rvMode = "live"
              /\ rvArts' \in {rvArts, Append(rvArts, Snapshot)}
              /\ rvWarned' = rvWarned \cup {[what |-> "fetch_failed", of |-> c]}
              /\ UNCHANGED rvFetched
    /\ UNCHANGED <<rvPc, rvMode, rvSelected, rvSources, rvTried, rvIndex, rvSnap, rvView>>

\* extract_sources refuses an empty input.
FetchDone ==
    /\ rvPc = "fetch" /\ Through = Len(rvSelected)
    /\ rvPc' = IF rvFetched = <<>> THEN "flush" ELSE "extract"
    /\ UNCHANGED <<rvNodes, rvArts, rvIndex, rvSnap, rvView>>

\* One source of extract_sources, from the text that the fetch stored.  The text is
\* stripped once more, which leaves it as it was or not, and its id with it.
ExtractOne ==
    /\ rvPc = "extract" /\ rvTried < Len(rvFetched)
    /\ rvTried' = rvTried + 1
    /\ LET source == rvFetched[rvTried + 1]
           warn(what) == /\ rvWarned' = rvWarned \cup {[what |-> what, of |-> source.of]}
                         /\ UNCHANGED <<rvArts, rvSources>>
       IN  \/ source.text = 0 /\ warn("missing_text_artifact")
           \/ source.text # 0 /\ warn("extract_failed")
           \/ /\ source.text # 0
              /\ \E id \in {AsPage(source.page), AsText(source.page)} :
                    /\ rvArts' = Append(rvArts, Text(id))
                    /\ rvSources' = Append(rvSources, [of |-> source.of, id |-> id])
              /\ UNCHANGED rvWarned
    /\ UNCHANGED <<rvPc, rvMode, rvSelected, rvFetched, rvIndex, rvSnap, rvView>>

\* create_source_set takes the first source and any of the others.  Two sources may
\* be one page: then one id may be both selected and rejected.
CreateSet ==
    /\ rvPc = "extract" /\ rvTried = Len(rvFetched)
    /\ IF rvSources = <<>>
       THEN rvPc' = "flush" /\ UNCHANGED rvArts
       ELSE \E taken \in {t \in SUBSET DOMAIN rvSources : 1 \in t} :
               LET ids(ks) == {rvSources[k].id : k \in ks}
               IN  /\ rvArts' = Append(rvArts, SourceSet(ids(taken), ids(DOMAIN rvSources \ taken)))
                   /\ rvPc' = "brief"
    /\ UNCHANGED <<rvNodes, rvIndex, rvSnap, rvView>>

\* create_brief; its model call may fail.
WriteBrief ==
    /\ rvPc = "brief"
    /\ rvArts' \in {rvArts, Append(rvArts, Brief)}
    /\ rvPc' = "flush"
    /\ UNCHANGED <<rvNodes, rvIndex, rvSnap, rvView>>

-----------------------------------------------------------------------------
(* The index                                                               *)

Of(call) == {a \in DOMAIN rvArts : rvArts[a].call = call}

\* The call ends, whether its nodes succeeded or not, and registers what it wrote.
FlushRun ==
    /\ rvPc = "flush"
    /\ rvIndex' = rvIndex \cup Of(1)
    /\ rvPc' = "ended"
    /\ UNCHANGED <<rvNodes, rvArts, rvSnap, rvView>>

\* The process dies first: its artifacts are files that no index names.
RunDies ==
    /\ rvPc \notin {"search", "ended"}
    /\ rvPc' = "ended"
    /\ UNCHANGED <<rvNodes, rvArts, rvIndex, rvSnap, rvView>>

\* A later call for the same plan ends; of what it registers only the brief counts
\* here.
AnotherRun ==
    /\ rvPc # "search" /\ Of(2) = {}
    /\ rvArts' = Append(rvArts, [Brief EXCEPT !.call = 2])
    /\ rvIndex' = rvIndex \cup {Len(rvArts')}
    /\ UNCHANGED <<rvPc, rvNodes, rvSnap, rvView>>

\* pruneArtifacts drops what is older than a time: a call's artifacts are of one age.
PruneIndex ==
    /\ rvIndex # {}
    /\ \E call \in {1, 2} : rvIndex' = {a \in rvIndex : rvArts[a].call > call}
    /\ UNCHANGED <<rvPc, rvNodes, rvArts, rvSnap, rvView>>

\* filter: the members of T in a list, in its order.
among(list, T) ==
    LET upTo[n \in 0 .. Len(list)] ==
            IF n = 0 THEN <<>>
            ELSE IF list[n] \in T THEN Append(upTo[n - 1], list[n]) ELSE upTo[n - 1]
    IN  upTo[Len(list)]

\* The index is ordered by the start of the calls, then as it was recorded.
recordedBy(call, arts) == among([a \in DOMAIN rvArts |-> a], arts \cap Of(call))
InIndexOrder(arts) == recordedBy(1, arts) \o recordedBy(2, arts)

-----------------------------------------------------------------------------
(* The view                                                                *)

\* buildRunSnapshot: what the index has of the plan, then what only the events of
\* the run name, which say capability_step_result of every artifact.
TakeSnapshot ==
    /\ rvArts # <<>> /\ rvSnap = NoSnap
    /\ rvSnap' = [order |-> InIndexOrder(rvIndex) \o InIndexOrder(Of(1) \ rvIndex),
                  indexed |-> rvIndex]
    /\ UNCHANGED <<rvPc, rvNodes, rvArts, rvIndex, rvView>>

\* The artifacts of the view: those of the snapshot, then those the index has by
\* now, each once.  One that is in neither index has no research kind.
viewOrder ==
    among(rvSnap.order \o InIndexOrder(rvIndex \ ToSet(rvSnap.order)), rvIndex \cup rvSnap.indexed)

NoFlags == [f \in {"selected", "rejected", "fetched", "extracted"} |-> FALSE]

\* The flags an artifact gives, on or off.
given(on, off) == [f \in on \cup off |-> f \in on]

\* ensureSource for each of ids.
ensureSource(sources, ids) ==
    [s \in DOMAIN sources \cup ids |-> IF s \in DOMAIN sources THEN sources[s] ELSE NoFlags]

\* Mutant: flags that are not given are cleared.
mergeSourceFresh(source, new) == [f \in DOMAIN source |-> f \in DOMAIN new /\ new[f]]

\* mergeSource: flags that are given replace those of the source.
mergeSource(source, new) == [f \in DOMAIN source |-> IF f \in DOMAIN new THEN new[f] ELSE source[f]]

mergeAll(sources, ids, new) ==
    [s \in DOMAIN sources |-> IF s \in ids THEN mergeSource(sources[s], new) ELSE sources[s]]

\* buildResearchArtifactViews: an artifact that is no longer in the index comes
\* without content.
content(a) == IF a \in rvIndex THEN rvArts[a].names ELSE {}

\* ingestArtifact.  A snapshot names its source nowhere the view looks.
ingestArtifact(sources, a) ==
    LET art == rvArts[a]
        names == content(a)
        named == IF names = {} THEN {Nameless} ELSE names
        chosen == names \cap art.selected
    IN  CASE art.kind = "source_search_results" -> mergeAll(ensureSource(sources, names), names, given({}, {}))
          [] art.kind = "source_set" ->
                LET all == mergeAll(ensureSource(sources, names), chosen, given({"selected"}, {}))
                IN  [s \in DOMAIN all |->
                        [all[s] EXCEPT !.rejected = @ \/ s \in names \cap art.rejected]]
          [] art.kind = "source_snapshot" ->
                mergeAll(ensureSource(sources, named), named, given({"fetched"}, {"extracted"}))
          [] art.kind = "source_text" ->
                mergeAll(ensureSource(sources, named), named, given({"extracted"}, {"fetched"}))
          [] OTHER -> sources

\* The artifacts are read one after the other.
ingestAll(order) ==
    LET upTo[n \in 0 .. Len(order)] ==
            IF n = 0 THEN [s \in {} |-> NoFlags] ELSE ingestArtifact(upTo[n - 1], order[n])
    IN  upTo[Len(order)]

IsBrief(a) == rvArts[a].kind = "research_brief"

\* briefView: the last brief among the artifacts.
briefView(order) ==
    LET briefs == {k \in DOMAIN order : IsBrief(order[k])}
    IN  IF briefs = {} THEN 0 ELSE order[Max(briefs)]

\* buildResearchRunView
BuildView ==
    /\ rvSnap # NoSnap /\ ~rvView.built
    /\ rvView' = [order |-> viewOrder, sources |-> ingestAll(viewOrder),
                  brief |-> briefView(viewOrder), at |-> rvIndex, built |-> TRUE]
    /\ UNCHANGED <<rvPc, rvNodes, rvArts, rvIndex, rvSnap>>

RvNext ==
    \/ SearchAndSelect \/ FetchOne \/ FetchDone \/ ExtractOne \/ CreateSet \/ WriteBrief
    \/ FlushRun \/ RunDies \/ AnotherRun \/ PruneIndex \/ TakeSnapshot \/ BuildView

RvSpec == RvInit /\ [][RvNext]_rvVars

-----------------------------------------------------------------------------
(* Properties                                                              *)

\* The nodes lose no source: one that was selected is fetched or warned of, and one
\* that was fetched is extracted or warned of, each exactly once.
SourcesAccounted ==
    LET fetched == {rvFetched[k].of : k \in DOMAIN rvFetched}
        extracted == {rvSources[k].of : k \in DOMAIN rvSources}
        dropped == Warned("missing_text_artifact") \cup Warned("extract_failed")
    IN  rvPc = "brief" =>
        /\ ToSet(rvSelected) = fetched \cup Warned("fetch_failed")
        /\ fetched \cap Warned("fetch_failed") = {}
        /\ fetched = extracted \cup dropped
        /\ extracted \cap dropped = {}

\* What the view says of a source is what the readable artifacts say of it, whatever
\* the order they come in and whoever pruned or registered between the two reads:
\* it is there when one names it, extracted when a text is its text, selected or
\* rejected when a source set says so.
ViewMatchesArtifacts ==
    LET legible == ToSet(rvView.order) \cap rvView.at
        of(kind) == {a \in legible : rvArts[a].kind = kind}
    IN  rvView.built =>
        /\ IsInjective(rvView.order) /\ rvView.at \subseteq ToSet(rvView.order)
        /\ DOMAIN rvView.sources \ {Nameless} = UNION {rvArts[a].names : a \in legible}
        /\ \A s \in DOMAIN rvView.sources \ {Nameless} :
              LET flags == rvView.sources[s]
              IN  /\ flags.extracted <=> \E a \in of("source_text") : s \in rvArts[a].names
                  /\ flags.selected <=> \E a \in of("source_set") : s \in rvArts[a].selected
                  /\ flags.rejected <=> \E a \in of("source_set") : s \in rvArts[a].rejected

\* While the index has a brief of the plan, the view shows one that can be read.
BriefReadable ==
    rvView.built /\ (\E a \in rvView.at : IsBrief(a)) => rvView.brief \in rvView.at

\* The nodes of a research run account for every source, and the view of the run
\* says what its artifacts say.
ResearchShown == SourcesAccounted /\ ViewMatchesArtifacts /\ BriefReadable
=============================================================================
