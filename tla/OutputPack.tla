------------------------------ MODULE OutputPack ------------------------------
(***************************************************************************)
(* The commands of the output pack (capability-packs/output): selecting    *)
(* artifacts, digests and run packets made of them, rendering, manifests   *)
(* and exports.  A command works through its steps, writes its results     *)
(* into a local store and registers them in the artifact index at the end. *)
(*                                                                         *)
(* A write may fail, and other processes may prune the index between two   *)
(* steps.  Texts, checksums and archive names are left out.                *)
(***************************************************************************)
EXTENDS Naturals, FiniteSets, SequencesExt

CONSTANTS
    OutArtifact,   \* artifacts that were ever indexed
    outKind,       \* artifact -> kind
    outAge,        \* artifact -> place in the order of created_at and id
    OutRestricted, OutUnredacted,
    MaxSelected    \* values of max_artifacts

\* The index is finite, and no two artifacts have one id.
ASSUME OutputAssumption ==
    /\ IsFiniteSet(OutArtifact) /\ MaxSelected \subseteq Nat
    /\ outAge \in [OutArtifact -> Nat]
    /\ \A a, b \in OutArtifact : outAge[a] = outAge[b] => a = b

VARIABLES
    outPc,      \* "idle", "run" or "done"
    outIn,      \* the command and its input
    outTodo,    \* steps left
    outIndex,   \* artifacts in the index
    outSel,     \* selection: candidates, selected in order, excluded with reasons
    outMode,    \* generation_mode, and whether the digest warns
    outAsked,   \* the model was asked
    outStore,   \* kinds of the results written
    outFiles,   \* artifacts copied into the export
    outFlushed, \* kinds registered in the index
    outOut

outVars == <<outPc, outIn, outTodo, outIndex, outSel, outMode, outAsked, outStore,
             outFiles, outFlushed, outOut>>

NoSelection == [candidates |-> {}, selected |-> <<>>, excluded |-> {}]

OutInit ==
    /\ outPc = "idle" /\ outIn = [op |-> "none"] /\ outTodo = <<>> /\ outIndex = {}
    /\ outSel = NoSelection /\ outMode = [mode |-> "none", warns |-> FALSE] /\ outAsked = FALSE
    /\ outStore = {} /\ outFiles = {} /\ outFlushed = {} /\ outOut = "none"

-----------------------------------------------------------------------------
(* selectArtifacts                                                         *)

\* The kinds the model tells apart, of each preset; none means every kind.
presetKinds ==
    [final_outputs |-> {"research_brief"}, research_packet |-> {"research_brief", "planfile"},
     developer_packet |-> {"planfile"}, debug_packet |-> {"model_call", "raw_log"},
     all_safe |-> {}]

defaultExcludedKinds == {"raw_log", "source_text", "model_call"}

score(a) == CASE outKind[a] = "research_brief" -> 90 [] outKind[a] = "planfile" -> 50 [] OTHER -> 10

compareArtifacts(a, b) == score(a) > score(b) \/ (score(a) = score(b) /\ outAge[a] < outAge[b])

allowNoisyKind(kind, r) ==
    CASE kind = "raw_log"    -> r.raw_logs
      [] kind = "model_call" -> r.model_calls
      [] OTHER               -> r.preset = "debug_packet"

allowedByKind(a, r) ==
    ~(outKind[a] \in defaultExcludedKinds /\ ~allowNoisyKind(outKind[a], r))

\* Mutant: a preset that lists logs or model calls lets them through.
allowedByPreset(a, r) == a \notin OutRestricted /\ (r.redacted_only => a \notin OutUnredacted)

\* artifactAllowedForOutput, asked for every kind a preset lets through.
artifactAllowedForOutput(a, r) ==
    /\ a \notin OutRestricted
    /\ outKind[a] = "raw_log" => r.raw_logs
    /\ outKind[a] = "model_call" => r.model_calls
    /\ r.redacted_only => a \notin OutUnredacted

\* The candidates, best first.
ranked(candidates) ==
    [i \in 1 .. Cardinality(candidates) |->
        CHOOSE a \in candidates : Cardinality({b \in candidates : compareArtifacts(b, a)}) = i - 1]

\* Why the loop leaves an artifact out when n are selected.
exclusionReason(a, r, n) ==
    LET include == IF r.include # {} THEN r.include ELSE presetKinds[r.preset]
        kindExcluded ==
            \/ outKind[a] \in r.exclude
            \/ include # {} /\ outKind[a] \notin include
            \/ include = {} /\ ~allowedByKind(a, r)
    IN  IF kindExcluded THEN "kind_excluded"
        ELSE IF ~artifactAllowedForOutput(a, r) THEN "not_allowed"
        ELSE IF n >= r.max THEN "limit_exceeded" ELSE "none"

\* One turn of the loop: the artifact is selected or gets a reason.
consider(sel, a, r) ==
    LET why == exclusionReason(a, r, Len(sel.selected))
    IN  IF why = "none" THEN [sel EXCEPT !.selected = Append(@, a)]
        ELSE [sel EXCEPT !.excluded = @ \cup {<<a, why>>}]

selectArtifacts(candidates, r) ==
    LET order == ranked(candidates)
        upTo[n \in 0 .. Len(order)] ==
            IF n = 0 THEN [NoSelection EXCEPT !.candidates = candidates]
            ELSE consider(upTo[n - 1], order[n], r)
    IN  upTo[Len(order)]

-----------------------------------------------------------------------------
(* The commands                                                            *)

Selecting(preset, include, exclude, raw, calls, redacted, max) ==
    [preset |-> preset, include |-> include, exclude |-> exclude, raw_logs |-> raw,
     model_calls |-> calls, redacted_only |-> redacted, max |-> max]

\* Steps of each command, an export with or without a manifest; runOutputCommand
\* flushes after all of them.
steps(op, manifest) ==
    CASE op = "select"   -> <<"select", "artifact_selection", "flush">>
      [] op = "digest"   -> <<"select", "write_digest", "run_digest", "flush">>
      [] op = "packet"   -> <<"select", "write_digest", "run_packet", "artifact_manifest", "flush">>
      [] op = "manifest" -> <<"resolve", "artifact_manifest", "flush">>
      [] op = "export"   -> IF manifest THEN <<"resolve", "artifact_manifest", "files", "artifact_bundle", "flush">>
                            ELSE <<"resolve", "files", "artifact_bundle", "flush">>
      [] op = "render"   -> <<"source", "markdown_export", "flush">>
      [] op = "pdf"      -> <<"flush">>

\* runOutputCommand with its input.  A digest selects all that is safe, a packet
\* what belongs to its type, both only redacted artifacts; a selection is free.
\* ids: the artifacts named, for export, manifest and render.
OutputCommand ==
    /\ outPc = "idle" /\ outPc' = "run"
    /\ outIndex' \in SUBSET OutArtifact
    /\ \/ \E preset \in DOMAIN presetKinds, include, exclude \in {{}, {"raw_log"}},
             raw, calls, redacted \in BOOLEAN, max \in MaxSelected :
             outIn' = [op |-> "select", ids |-> {}, deterministic |-> TRUE, manifest |-> TRUE,
                       select |-> Selecting(preset, include, exclude, raw, calls, redacted, max)]
       \/ \E det \in BOOLEAN :
             outIn' = [op |-> "digest", ids |-> {}, deterministic |-> det, manifest |-> TRUE,
                       select |-> Selecting("all_safe", {}, {}, FALSE, FALSE, TRUE, 80)]
       \/ \E det, raw, calls \in BOOLEAN, preset \in DOMAIN presetKinds \ {"all_safe"} :
             outIn' = [op |-> "packet", ids |-> {}, deterministic |-> det, manifest |-> TRUE,
                       select |-> Selecting(preset, {}, {}, raw, calls, TRUE, 120)]
       \/ \E op \in {"manifest", "export", "render", "pdf"}, man \in BOOLEAN,
             ids \in {S \in SUBSET OutArtifact : Cardinality(S) \in 1..2} :
             /\ outIn' = [op |-> op, ids |-> ids, deterministic |-> TRUE, manifest |-> man,
                          select |-> Selecting("all_safe", {}, {}, FALSE, FALSE, TRUE, 80)]
             /\ op # "export" => man
    /\ outTodo' = steps(outIn'.op, outIn'.manifest)
    /\ UNCHANGED <<outSel, outMode, outAsked, outStore, outFiles, outFlushed, outOut>>

At(step) == outPc = "run" /\ Head(outTodo) = step

Proceed == outTodo' = Tail(outTodo) /\ UNCHANGED <<outPc, outOut>>

CommandThrows == outPc' = "done" /\ outOut' = "threw" /\ UNCHANGED outTodo

SelectArtifacts ==
    /\ At("select") /\ Proceed
    /\ outSel' = selectArtifacts(outIndex, outIn.select)
    /\ UNCHANGED <<outIn, outIndex, outMode, outAsked, outStore, outFiles, outFlushed>>

\* One id that is unknown or restricted makes the whole call throw.
resolveThrows(ids) == ids \ outIndex # {} \/ ids \cap OutRestricted # {}

ResolveArtifactIds ==
    /\ At("resolve")
    /\ IF resolveThrows(outIn.ids) THEN CommandThrows ELSE Proceed
    /\ UNCHANGED <<outIn, outIndex, outSel, outMode, outAsked, outStore, outFiles, outFlushed>>

\* markdownFromInput: an artifact without readable text throws.
ReadSource ==
    /\ At("source")
    /\ \/ outIn.ids \subseteq outIndex /\ Proceed
       \/ CommandThrows
    /\ UNCHANGED <<outIn, outIndex, outSel, outMode, outAsked, outStore, outFiles, outFlushed>>

\* createRunDigest: what its generation_mode says of an answer or its failure.
generationMode(asked, ok) == IF ok THEN "model" ELSE "deterministic_fallback"

\* A deterministic digest asks no model; a missing route, or any error of the
\* call, falls back to it with a warning.
WriteDigest ==
    /\ At("write_digest") /\ Proceed
    /\ \/ /\ outIn.deterministic /\ UNCHANGED outAsked
          /\ outMode' = [mode |-> "deterministic_requested", warns |-> FALSE]
       \/ /\ ~outIn.deterministic
          /\ \E asked, ok \in BOOLEAN :
                /\ ok => asked
                /\ outAsked' = asked
                /\ outMode' = [mode |-> generationMode(asked, ok), warns |-> ~ok]
    /\ UNCHANGED <<outIn, outIndex, outSel, outStore, outFiles, outFlushed>>

Results == {"artifact_selection", "run_digest", "run_packet", "artifact_manifest",
            "artifact_bundle", "markdown_export"}

\* writeOutputArtifact, or its store refuses.
WriteOutputArtifact ==
    /\ outPc = "run" /\ Head(outTodo) \in Results
    /\ \/ Proceed /\ outStore' = outStore \cup {Head(outTodo)}
       \/ CommandThrows /\ UNCHANGED outStore
    /\ UNCHANGED <<outIn, outIndex, outSel, outMode, outAsked, outFiles, outFlushed>>

\* writeDirectoryExport and writeZipExport: one file for every resolved artifact,
\* empty when its payload is gone by now; an error may leave some of them.
WriteExport ==
    /\ At("files")
    /\ \/ Proceed /\ outFiles' = outIn.ids
       \/ CommandThrows /\ outFiles' \in SUBSET outIn.ids
    /\ UNCHANGED <<outIn, outIndex, outSel, outMode, outAsked, outStore, outFlushed>>

\* store.flush registers all the store holds.
flushAll(kinds) == kinds

FlushResults ==
    /\ At("flush")
    /\ outFlushed' = flushAll(outStore)
    /\ outPc' = "done" /\ outOut' = "ok" /\ outTodo' = <<>>
    /\ UNCHANGED <<outIn, outIndex, outSel, outMode, outAsked, outStore, outFiles>>

\* Another process prunes an entry.
IndexLoses(a) ==
    /\ outPc = "run" /\ a \in outIndex /\ outIndex' = outIndex \ {a}
    /\ UNCHANGED <<outPc, outIn, outTodo, outSel, outMode, outAsked, outStore, outFiles,
                   outFlushed, outOut>>

OutNext ==
    \/ OutputCommand \/ SelectArtifacts \/ ResolveArtifactIds \/ ReadSource \/ WriteDigest
    \/ WriteOutputArtifact \/ WriteExport \/ FlushResults
    \/ \E a \in OutArtifact : IndexLoses(a)

OutSpec == OutInit /\ [][OutNext]_outVars

-----------------------------------------------------------------------------
(* Properties                                                              *)

\* The selection accounts for every candidate once, stays within its limit, drops
\* for the limit only what ranks behind all it took, and whatever the preset and
\* the kinds asked for takes nothing restricted, no raw log or model call unless
\* asked, and with include_redacted_only nothing known to be unredacted.
SelectionAccounted ==
    LET taken == ToSet(outSel.selected)
        left  == {x[1] : x \in outSel.excluded}
    IN  /\ taken \cup left = outSel.candidates /\ taken \cap left = {}
        /\ Cardinality(outSel.excluded) = Cardinality(left)
        /\ outSel.selected # <<>> => Len(outSel.selected) <= outIn.select.max
        /\ \A x \in outSel.excluded, a \in taken :
              x[2] = "limit_exceeded" => compareArtifacts(a, x[1])
        /\ taken \cap OutRestricted = {}
        /\ \A a \in taken : /\ outKind[a] = "raw_log" => outIn.select.raw_logs
                            /\ outKind[a] = "model_call" => outIn.select.model_calls
                            /\ outIn.select.redacted_only => a \notin OutUnredacted

\* A command that returns has all its results in the index; one that throws has
\* none there, however many it wrote before.
ResultsIndexed ==
    /\ outOut = "ok" => outFlushed = ToSet(steps(outIn.op, outIn.manifest)) \cap Results
    /\ outOut = "threw" => outFlushed = {}

\* A restricted artifact never leaves, and its name in a request keeps the other
\* artifacts of the request from being exported or listed, too.
ExportAllOrNothing ==
    outIn.op \in {"export", "manifest"} /\ outIn.ids \cap OutRestricted # {} =>
        outFiles = {} /\ outStore = {}

\* The mode of a digest tells who wrote it: deterministic_requested only without
\* asking a model, model only after an answer, and a fallback always warns.
ModeTellsOrigin ==
    /\ outMode.mode = "deterministic_requested" => ~outAsked /\ outIn.deterministic
    /\ outMode.mode = "model" => outAsked
    /\ outMode.mode = "deterministic_fallback" <=> outMode.warns

\* What the output pack makes can be traced: to the selection, to the index
\* and to who wrote the digest.
OutputsTraceable ==
  /\ SelectionAccounted
  /\ ResultsIndexed
  /\ ExportAllOrNothing
  /\ ModeTellsOrigin
=============================================================================
