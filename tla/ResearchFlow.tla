---------------------------- MODULE ResearchFlow ----------------------------
(***************************************************************************)
(* Research: SearchCoordinator (core/src/search/search-coordinator.ts with *)
(* its provider registry and policy) and the brief command that drives it  *)
(* (core/src/capability-packs/research/commands.ts, executor.ts,           *)
(* source-set.ts, research-brief.ts).                                      *)
(*                                                                         *)
(* Providers, web servers and the model are external: a search returns any *)
(* short sequence of candidates or fails, a fetch succeeds or not, and a   *)
(* synthesis cites any ids.  A candidate is a value with a normalized URL  *)
(* and a domain; texts are left out.  The store of a command writes its    *)
(* artifacts to files at once and registers them in the index by flush.    *)
(***************************************************************************)
EXTENDS Naturals, FiniteSets, SequencesExt

CONSTANTS
    Candidate, candUrl, candDomain, \* candidates, normalizedUrl and domain of each
    Configs,        \* configured providers: sequences of [id, on]
    Preferences,    \* provider_preferences: sequences of provider ids
    DomainLists,    \* domain lists, none is the empty set
    MaxQueries, MaxProviderCalls, MaxResults, MaxSources, MinResults

ASSUME ResearchAssumption ==
    /\ {MaxQueries, MaxProviderCalls, MaxResults, MaxSources, MinResults} \subseteq Nat \ {0}
    /\ DOMAIN candUrl = Candidate /\ DOMAIN candDomain = Candidate
    /\ \A list \in Configs : list \in Seq(ToSet(list))
    /\ \A list \in Preferences : list \in Seq(ToSet(list))

VARIABLES
    resPc,
    resIn,     \* the command: mode, urls, registry, preferences, domain lists
    resAt,     \* provider and query the coordinator is at, calls, time used up
    resCalls,  \* statuses of the provider calls
    resCands,  \* candidates collected, each with the mode of its provider
    resSet,    \* the search result set
    resSources,\* sources extracted so far, in order
    resBrief,  \* the brief: citations, coverage, validation
    resFiles,  \* artifacts written to disk
    resIndex,  \* artifacts registered in the index
    resOut     \* how the command ended

resVars == <<resPc, resIn, resAt, resCalls, resCands, resSet, resSources,
             resBrief, resFiles, resIndex, resOut>>

NoSet == [mode |-> "none", kept |-> <<>>, selected |-> <<>>]
NoBrief == [cites |-> {}, covers |-> {}, valid |-> FALSE, 
            set |-> [selected |-> <<>>, rejected |-> <<>>, diverse |-> FALSE]]

ResInit ==
    /\ resPc = "idle" /\ resIn = "none" /\ resAt = [p |-> 1, q |-> 1, calls |-> 0, late |-> FALSE]
    /\ resCalls = <<>> /\ resCands = <<>> /\ resSet = NoSet /\ resSources = <<>>
    /\ resBrief = NoBrief /\ resFiles = {} /\ resIndex = {} /\ resOut = "none"

-----------------------------------------------------------------------------
(* The registry and the choice of providers                                *)

manual  == [id |-> "manual-urls", mode |-> "live", on |-> TRUE]
fixture == [id |-> "research-fixture", mode |-> "fixture", on |-> TRUE]

\* SearchProviderRegistry: manual URLs, the configured ones, and the fixture
\* provider only in fixture mode.
registry(r) ==
    <<manual>> \o [k \in DOMAIN r.configs |->
                      [id |-> r.configs[k].id, mode |-> "live", on |-> r.configs[k].on]]
    \o IF r.mode = "fixture" THEN <<fixture>> ELSE <<>>

\* filter: the members of T in a list, in its order.
those(list, T) ==
    LET upTo[n \in 0 .. Len(list)] ==
            IF n = 0 THEN <<>>
            ELSE IF list[n] \in T THEN Append(upTo[n - 1], list[n]) ELSE upTo[n - 1]
    IN  upTo[Len(list)]

\* chooseProviders: URLs take the manual provider; without a preference the mode
\* decides; preferences take what they name, in their order, each once.
chooseProviders(r) ==
    LET all == ToSet(registry(r)) \ {manual}
        mode == IF r.mode = "fixture" THEN "fixture" ELSE "live"
    IN  IF r.urls THEN <<manual>>
        ELSE IF r.prefer = <<>> THEN those(registry(r), {p \in all : p.mode = mode})
        ELSE FlattenSeq([k \in DOMAIN r.prefer |-> those(registry(r), {p \in all : p.id = r.prefer[k]})])

Providers == chooseProviders(resIn)
Finish(out) == resPc' = "done" /\ resOut' = out

-----------------------------------------------------------------------------
(* SearchCoordinator.execute                                               *)

\* runResearchBriefCommand up to the search; a dry run only reports its steps.
BriefCommand ==
    /\ resPc = "idle"
    /\ \E mode \in {"live", "fixture", "dry_run"}, urls \in BOOLEAN, configs \in Configs,
          prefer \in Preferences, allow, deny \in DomainLists :
          LET r == [mode |-> mode, urls |-> urls, configs |-> configs, prefer |-> prefer,
                    allow |-> allow, deny |-> deny]
          IN  /\ resIn' = r
              /\ IF mode = "dry_run" THEN Finish("preview")
                 ELSE IF chooseProviders(r) = <<>> THEN Finish("yielded")
                 ELSE resPc' = "search" /\ UNCHANGED resOut
    /\ UNCHANGED <<resAt, resCalls, resCands, resSet, resSources, resBrief, resFiles, resIndex>>

enough == Len(resCands) >= MinResults

\* One turn of the two loops: a provider that is not configured is skipped and
\* counts as no call; a call returns candidates or fails; either limit, or enough
\* results, ends the loops.
SearchCall ==
    /\ resPc = "search"
    /\ resAt.p <= Len(Providers) /\ resAt.calls < MaxProviderCalls /\ ~enough
    /\ LET p == Providers[resAt.p]
           after == IF resAt.q < MaxQueries /\ p.on
                    THEN [resAt EXCEPT !.q = @ + 1] ELSE [resAt EXCEPT !.p = @ + 1, !.q = 1]
       IN  \/ /\ ~p.on
              /\ resCalls' = Append(resCalls, "skipped") /\ resAt' = after
              /\ UNCHANGED resCands
           \/ /\ p.on /\ resAt.late
              /\ resAt' = [resAt EXCEPT !.p = @ + 1, !.q = 1]
              /\ UNCHANGED <<resCalls, resCands>>
           \/ /\ p.on /\ ~resAt.late
              /\ resAt' = [after EXCEPT !.calls = @ + 1]
              /\ \/ /\ resCalls' = Append(resCalls, "failed") /\ UNCHANGED resCands
                 \/ /\ resCalls' = Append(resCalls, "success")
                    /\ \E found \in SeqOf(Candidate, MaxResults) :
                          resCands' = resCands \o [k \in DOMAIN found |->
                                                     [c |-> found[k], mode |-> p.mode]]
    /\ UNCHANGED <<resPc, resIn, resSet, resSources, resBrief, resFiles, resIndex, resOut>>

\* max_search_duration_ms passes: configured providers get no further call.
SearchLate ==
    /\ resPc = "search" /\ ~resAt.late
    /\ resAt' = [resAt EXCEPT !.late = TRUE]
    /\ UNCHANGED <<resPc, resIn, resCalls, resCands, resSet, resSources, resBrief,
                   resFiles, resIndex, resOut>>

\* filterCandidates, then dedupeCandidates by normalized URL: the first stays.
inLists(c) == /\ candDomain[c] \notin resIn.deny
              /\ resIn.allow # {} => candDomain[c] \in resIn.allow

filterCandidates(cands) == those(cands, {x \in ToSet(cands) : inLists(x.c)})

sameUrl(kept, x) == \E k \in DOMAIN kept : candUrl[kept[k].c] = candUrl[x.c]

dedupeCandidates(cands) ==
    LET upTo[n \in 0 .. Len(cands)] ==
            IF n = 0 THEN <<>>
            ELSE IF sameUrl(upTo[n - 1], cands[n]) THEN upTo[n - 1] ELSE Append(upTo[n - 1], cands[n])
    IN  upTo[Len(cands)]

allLive == \A k \in DOMAIN Providers : Providers[k].mode = "live"
called(status) == \E k \in DOMAIN resCalls : resCalls[k] = status

resultMode == IF \E k \in DOMAIN Providers : Providers[k].mode = "fixture"
              THEN "fixture" ELSE "live"

\* Mutant: failed calls that find nothing count as an empty answer.
failsSkippedOnly == resCands = <<>> /\ allLive /\ called("skipped")

\* Nothing found by live providers is an error when a call failed or was skipped.
searchFails == resCands = <<>> /\ allLive /\ (called("failed") \/ called("skipped"))

\* The end of execute.  Without URLs the command turns a missing provider into a
\* yielded result; another failure becomes a failed result that it then reads as
\* a result set, which throws.  With URLs nothing is caught.
SearchDone ==
    /\ resPc = "search"
    /\ resAt.p > Len(Providers) \/ resAt.calls >= MaxProviderCalls \/ enough
    /\ IF searchFails
       THEN /\ Finish(IF called("failed") \/ resIn.urls THEN "threw" ELSE "yielded")
            /\ UNCHANGED <<resSet, resFiles>>
       ELSE LET kept == dedupeCandidates(filterCandidates(resCands))
            IN  /\ resSet' = [mode |-> resultMode, kept |-> kept,
                              selected |-> SubSeq(kept, 1, IF Len(kept) < MaxSources
                                                           THEN Len(kept) ELSE MaxSources)]
                /\ resFiles' = resFiles \cup {"search"}
                /\ resPc' = "fetch" /\ UNCHANGED resOut
    /\ UNCHANGED <<resIn, resAt, resCalls, resCands, resSources, resBrief, resIndex>>

-----------------------------------------------------------------------------
(* Sources and the brief                                                   *)

\* One selected candidate.  In fixture mode without URLs its checked-in text is
\* extracted into this command's store.  Otherwise it is fetched by a command of
\* its own, which registers what it stored; a failed fetch, and an invalid URL of
\* the user's, return at once without a flush of this command's store.  Without a
\* text the candidate is passed over.
FetchSelected ==
    /\ resPc = "fetch" /\ Len(resSources) < Len(resSet.selected)
    /\ \E text \in BOOLEAN :
          LET c == IF text THEN resSet.selected[Len(resSources) + 1].c ELSE "none"
          IN  IF resIn.mode = "fixture" /\ ~resIn.urls
              THEN /\ resSources' = Append(resSources, c)
                   /\ resFiles' = IF text THEN resFiles \cup {"text"} ELSE resFiles
                   /\ UNCHANGED <<resPc, resIndex, resOut>>
              ELSE \/ resIn.urls /\ Finish("yielded") /\ UNCHANGED <<resSources, resFiles, resIndex>>
                   \/ Finish("failed") /\ UNCHANGED <<resSources, resFiles, resIndex>>
                   \/ /\ resSources' = Append(resSources, c)
                      /\ resFiles' = resFiles \cup {"text"} /\ resIndex' = resIndex \cup {"text"}
                      /\ UNCHANGED <<resPc, resOut>>
    /\ UNCHANGED <<resIn, resAt, resCalls, resCands, resSet, resBrief>>

Extracted == {resSources[k] : k \in DOMAIN resSources} \ {"none"}

\* require_diverse_domains: a domain is represented once.
domainTaken(chosen, c) == \E k \in DOMAIN chosen : candDomain[chosen[k]] = candDomain[c]

\* createSourceSet: in order, while there is room and, when asked for, while the
\* domain is new; everything else is rejected with a reason.
decide(set, c) ==
    IF Len(set.selected) >= MaxSources \/ (set.diverse /\ domainTaken(set.selected, c))
    THEN [set EXCEPT !.rejected = Append(@, c)]
    ELSE [set EXCEPT !.selected = Append(@, c)]

createSourceSet(sources, diverse) ==
    LET upTo[n \in 0 .. Len(sources)] ==
            IF n = 0 THEN [NoBrief.set EXCEPT !.diverse = diverse]
            ELSE decide(upTo[n - 1], sources[n])
    IN  upTo[Len(sources)]

\* flush registers what this command wrote.
flush(files) == resIndex \cup files

\* A brief is valid when there are citations and some cited id is a source.
briefValid(cites, covers) == cites # {} /\ covers # {}

\* Source set and brief over the extracted sources; the model cites any ids, and
\* those of no source are dropped from the coverage.  The model call may throw.
\* This command asks for no diversity, the node of the plan template does.
CreateBrief ==
    /\ resPc = "fetch" /\ Len(resSources) = Len(resSet.selected)
    /\ IF Extracted = {}
       THEN /\ Finish("yielded") /\ resIndex' = flush(resFiles)
            /\ UNCHANGED <<resBrief, resFiles>>
       ELSE \/ /\ Finish("threw") /\ resFiles' = resFiles \cup {"source_set"}
               /\ UNCHANGED <<resBrief, resIndex>>
            \/ \E cited \in SUBSET (Candidate \cup {"invented"}) \ {{}}, diverse \in BOOLEAN :
                  LET covers == cited \cap Extracted
                  IN  /\ resBrief' = [cites |-> Extracted, covers |-> covers,
                                      valid |-> briefValid(Extracted, covers),
                                      set |-> createSourceSet(those(resSources, Extracted), diverse)]
                      /\ resFiles' = resFiles \cup {"source_set", "brief"}
                      /\ resIndex' = flush(resFiles')
                      /\ Finish("brief")
    /\ UNCHANGED <<resIn, resAt, resCalls, resCands, resSet, resSources>>

ResNext == BriefCommand \/ SearchCall \/ SearchLate \/ SearchDone \/ FetchSelected \/ CreateBrief

ResSpec == ResInit /\ [][ResNext]_resVars

-----------------------------------------------------------------------------
(* Properties                                                              *)

\* A result set that says live holds nothing from the checked-in fixtures, and
\* without fixture mode there are none at all, whatever the preferences name.
LiveMeansLive ==
    \A k \in DOMAIN resSet.kept :
        resSet.kept[k].mode = "fixture" => resSet.mode = "fixture" /\ resIn.mode = "fixture"

\* Selected sources are few, distinct as web pages, inside the domain lists, and
\* nothing found is dropped except for a list or for an earlier duplicate.
SelectionSound ==
    resSet # NoSet =>
        /\ Len(resSet.selected) <= MaxSources
        /\ IsInjective([k \in DOMAIN resSet.kept |-> candUrl[resSet.kept[k].c]])
        /\ \A k \in DOMAIN resSet.kept :
              /\ candDomain[resSet.kept[k].c] \notin resIn.deny
              /\ resIn.allow # {} => candDomain[resSet.kept[k].c] \in resIn.allow
        /\ \A k \in DOMAIN resCands :
              \/ candDomain[resCands[k].c] \in resIn.deny
              \/ resIn.allow # {} /\ candDomain[resCands[k].c] \notin resIn.allow
              \/ \E j \in DOMAIN resSet.kept : candUrl[resSet.kept[j].c] = candUrl[resCands[k].c]

\* An empty answer is told apart from a failure: live providers of which one
\* failed never yield a result set without candidates.
FailureIsNotEmpty ==
    resSet # NoSet /\ resCands = <<>> /\ allLive => ~called("failed")

\* A brief that is returned can be found again: everything the command wrote is
\* in the index.
BriefIndexed == resOut = "brief" => resFiles \subseteq resIndex

\* A source set decides about every extracted source once; when a source was
\* rejected, the set is full or represents its domain already; and a set that was
\* asked to be diverse has no domain twice.
SourceSetDecides ==
    LET set == resBrief.set
    IN  resOut = "brief" =>
        /\ Len(set.selected) + Len(set.rejected) = Cardinality(Extracted)
        /\ ToSet(set.selected) \cup ToSet(set.rejected) = Extracted
        /\ \A k \in DOMAIN set.rejected :
              \/ Len(set.selected) = MaxSources
              \/ \E c \in ToSet(set.selected) : candDomain[c] = candDomain[set.rejected[k]]
        /\ set.diverse => IsInjective([k \in DOMAIN set.selected |-> candDomain[set.selected[k]]])

\* A brief marked valid rests on its sources: a source it was given is cited for
\* something, and no invented id counts.
ValidBriefCites ==
    resBrief.valid => resBrief.covers # {} /\ resBrief.covers \subseteq Extracted

\* What research reports is what happened: live is live, a failure is no
\* empty answer, and a brief rests on the sources that were kept.
ResearchHonest ==
  /\ LiveMeansLive
  /\ SelectionSound
  /\ FailureIsNotEmpty
  /\ BriefIndexed
  /\ SourceSetDecides
  /\ ValidBriefCites
=============================================================================
