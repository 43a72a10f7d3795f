----------------------------- MODULE PackInstall -----------------------------
(***************************************************************************)
(* Generated packs from source to runtime: validation and installation     *)
(* (skills/generated-pack/pack-validator.ts, pack-install.ts), the loader  *)
(* of a runtime (packs/runtime-pack-loader.ts) with the registry it fills  *)
(* (capability-sdk/src/registry.ts), health and smoke tests, which load    *)
(* too (packs/pack-health.ts, pack-smoke.ts).                              *)
(*                                                                         *)
(* One installer and one runtime share the directory of installed packs    *)
(* and its registry file.  The installer may die between two of its steps. *)
(* Sources are written by the generator or by hand, never during an        *)
(* installation.  Compiler and test runner are external.                   *)
(*                                                                         *)
(* Of a pack's directory the model keeps the manifest with its build plan, *)
(* and one file of code per capability with what the static validator      *)
(* finds in it.  Writing a source and installing it copy files over those  *)
(* that are there; files of an older version stay beside the new ones.     *)
(***************************************************************************)
EXTENDS Naturals, SequencesExt

CONSTANTS
    PackOrder,   \* pack ids in the order of the registry file
    PackSource,  \* what a source may be: caps, finding, experimental
    CoreCap,     \* capability ids of the packs built in
    PkOpBound

PackIds == ToSet(PackOrder)
NoPack == [caps |-> {}, experimental |-> FALSE, present |-> FALSE]
NoFiles == [caps |-> {}, experimental |-> FALSE, present |-> FALSE, code |-> {}]
NoEntry == [status |-> "none", experimental |-> FALSE]

Risky == {"write", "destructive", "external_side_effect"}

\* The ids of packs are no words of the model's own.
ASSUME PackAssumption ==
    /\ PackOrder \in Seq(PackIds) /\ {"core", "none"} \cap PackIds = {}
    /\ \A s \in PackSource : /\ s.experimental \in BOOLEAN
                             /\ s.finding \in {"none", "error", "manual_review"}
                             /\ \A c \in s.caps : c.risk \in Risky \cup {"read"}

VARIABLES
    pkSource,   \* id -> the generated source
    pkFiles,    \* id -> the files under trusted-local
    pkEntry,    \* id -> entry of registry.json
    pkTorn,     \* registry.json was left half written
    pkJob,      \* the installation under way: step, id, status, files validated
    pkPacks,    \* id -> what the runtime registered
    pkCaps,     \* capability id -> the pack that serves it in the runtime
    pkSmoke,    \* the last smoke test: status and capability run
    pkStatus,   \* history: id -> what validation said of the installed files
    pkTouched,  \* history: ids whose files are newer than their entry
    pkSeen,     \* history: id -> what the runtime loaded: its validation, if its entry was
                \* its own, and if nothing was found in the code of its capabilities
    pkOps

pkVars == <<pkSource, pkFiles, pkEntry, pkTorn, pkJob, pkPacks, pkCaps, pkSmoke, pkStatus, pkTouched, pkSeen, pkOps>>

NoJob == [step |-> 0, id |-> "none", status |-> "none", files |-> NoFiles]
AllCapIds == CoreCap \cup {c.id : c \in UNION {p.caps : p \in PackSource}}
NoSmoke == [status |-> "none", cap |-> "none"]

PkInit ==
    /\ pkSource = [p \in PackIds |-> NoFiles] /\ pkFiles = pkSource
    /\ pkEntry = [p \in PackIds |-> NoEntry] /\ pkTorn = FALSE /\ pkJob = NoJob
    /\ pkPacks = [p \in PackIds |-> NoPack]
    /\ pkCaps = [c \in AllCapIds |-> IF c \in CoreCap THEN "core" ELSE "none"]
    /\ pkSmoke = NoSmoke /\ pkStatus = [p \in PackIds |-> "none"] /\ pkTouched = {} /\ pkOps = 0
    /\ pkSeen = [p \in PackIds |-> [status |-> "none", own |-> FALSE, sound |-> FALSE]]

PkStep == pkOps < PkOpBound /\ pkOps' = pkOps + 1

-----------------------------------------------------------------------------
(* Sources and validation                                                  *)

\* Files copied over others replace those of their name and leave the rest.
CopiedOver(old, new) == new \cup {f \in old : \A g \in new : g.file # f.file}

generatePackFiles(source) ==
    [caps |-> source.caps, experimental |-> source.experimental, present |-> TRUE,
     code |-> {[file |-> c.id, finding |-> source.finding] : c \in source.caps}]

\* writePackScaffold into the directory of an earlier version; or by hand from nothing.
WriteSource(p, source) ==
    /\ PkStep /\ pkJob.step = 0
    /\ \E old \in {{}, pkSource[p].code} :
          pkSource' = [pkSource EXCEPT ![p] =
             [generatePackFiles(source) EXCEPT !.code = CopiedOver(old, generatePackFiles(source).code)]]
    /\ UNCHANGED <<pkFiles, pkEntry, pkTorn, pkJob, pkPacks, pkCaps, pkSmoke, pkStatus, pkTouched, pkSeen>>

\* Of a manifest's capabilities only the risky without approval are errors; whether a
\* capability_id begins with the pack's own is not asked.
unapproved(caps) == \E c \in caps : c.risk \in Risky /\ ~c.approval

\* runPackChecks: a compile error fails, tests that fail ask for a review.
Checks == {"ok", "compile_failed", "tests_failed"}

Found(files, finding) == \E f \in files.code : f.finding = finding

validateGeneratedPack(files, checks) ==
    IF ~files.present \/ unapproved(files.caps) \/ Found(files, "error") \/ checks = "compile_failed" THEN "fail"
    ELSE IF Found(files, "manual_review") \/ checks = "tests_failed" THEN "requires_manual_review"
    ELSE "pass"

-----------------------------------------------------------------------------
(* Installation                                                            *)

\* Mutant: the entry is written before the files are copied.
recordFirst == <<"record", "copy">>

\* installGeneratedPack copies, then records: the two writes of its disk.
installSteps == <<"copy", "record">>

\* installGeneratedPack, up to the first write: what fails, or needs a review and has
\* no leave, is an error.
StartInstall(p, leave, checks) ==
    /\ PkStep /\ pkJob.step = 0
    /\ LET status == validateGeneratedPack(pkSource[p], checks)
       IN  /\ status # "fail" /\ (status = "requires_manual_review" => leave)
           /\ pkJob' = [step |-> 1, id |-> p, status |-> status, files |-> pkSource[p]]
    /\ UNCHANGED <<pkSource, pkFiles, pkEntry, pkTorn, pkPacks, pkCaps, pkSmoke, pkStatus, pkTouched, pkSeen>>

\* cpSync, recursive and forced
Copy ==
    /\ pkFiles' = [pkFiles EXCEPT ![pkJob.id] =
                     [pkJob.files EXCEPT !.code = CopiedOver(pkFiles[pkJob.id].code, pkJob.files.code)]]
    /\ pkStatus' = [pkStatus EXCEPT ![pkJob.id] = pkJob.status]
    /\ pkTouched' = pkTouched \cup {pkJob.id}
    /\ UNCHANGED <<pkEntry>>

\* The registry is read now, after the copy, and written with the entry of the pack.
Record ==
    /\ ~pkTorn
    /\ pkEntry' = [pkEntry EXCEPT ![pkJob.id] = [status |-> pkJob.status, experimental |-> pkJob.files.experimental]]
    /\ pkTouched' = pkTouched \ {pkJob.id}
    /\ UNCHANGED <<pkFiles, pkStatus>>

\* A registry that cannot be read is an error, with the files copied already.
NoRegistry == pkTorn /\ UNCHANGED <<pkFiles, pkEntry, pkStatus, pkTouched>>

ContinueInstall ==
    /\ pkJob.step > 0
    /\ \/ installSteps[pkJob.step] = "copy" /\ Copy
       \/ installSteps[pkJob.step] = "record" /\ (Record \/ NoRegistry)
    /\ pkJob' = IF pkJob.step = 2 \/ (pkTorn /\ installSteps[pkJob.step] = "record") THEN NoJob
                ELSE [pkJob EXCEPT !.step = 2]
    /\ UNCHANGED <<pkSource, pkTorn, pkPacks, pkCaps, pkSmoke, pkSeen, pkOps>>

\* The installer dies: in the middle of the copy some files are new and others not; in
\* the middle of writing registry.json it leaves no valid JSON.
DieCopying ==
    /\ \E manifest \in BOOLEAN, some \in SUBSET pkJob.files.code :
          pkFiles' = [pkFiles EXCEPT ![pkJob.id] =
             [(IF manifest THEN pkJob.files ELSE pkFiles[pkJob.id])
                 EXCEPT !.code = CopiedOver(pkFiles[pkJob.id].code, some)]]
    /\ pkTouched' = pkTouched \cup {pkJob.id}
    /\ UNCHANGED pkTorn

DieRecording == pkTorn' \in {pkTorn, TRUE} /\ UNCHANGED <<pkFiles, pkTouched>>

Die ==
    /\ pkJob.step > 0 /\ pkJob' = NoJob
    /\ IF installSteps[pkJob.step] = "copy" THEN DieCopying ELSE DieRecording
    /\ UNCHANGED <<pkSource, pkEntry, pkPacks, pkCaps, pkSmoke, pkStatus, pkSeen, pkOps>>

-----------------------------------------------------------------------------
(* The runtime                                                             *)

\* What the entry must say; nothing sets allow_experimental_runtime_load.
mayLoad(entry) == entry.status = "pass" /\ ~entry.experimental

duplicateId(caps, ids) == \E i \in ids : caps[i] # "none"

\* A pack serves what its manifest declares, through code of the loader: its own files
\* are never run.
manifestBackedPack(files) == [caps |-> files.caps, experimental |-> files.experimental, present |-> TRUE]

\* registerPack: all capabilities are looked at before any is registered.
registerPack(reg, p, pack) ==
    LET ids == {c.id : c \in pack.caps}
    IN  IF duplicateId(reg.caps, ids) THEN reg
        ELSE [packs |-> [reg.packs EXCEPT ![p] = pack],
              caps |-> [c \in AllCapIds |-> IF c \in ids THEN p ELSE reg.caps[c]]]

\* A pack already registered is skipped, whatever was installed since.
loadPack(reg, p) ==
    IF reg.packs[p].present \/ ~mayLoad(pkEntry[p]) \/ ~pkFiles[p].present
    THEN reg ELSE registerPack(reg, p, manifestBackedPack(pkFiles[p]))

\* loadInstalledPacksForRuntime: the entries in the order of the registry file.
loadInstalledPacks(reg) ==
    LET after[n \in 0 .. Len(PackOrder)] == IF n = 0 THEN reg ELSE loadPack(after[n - 1], PackOrder[n])
    IN  IF pkTorn THEN reg ELSE after[Len(PackOrder)]

BareRegistry ==
    [packs |-> [p \in PackIds |-> NoPack], caps |-> [c \in AllCapIds |-> IF c \in CoreCap THEN "core" ELSE "none"]]

\* Something was found in the code of a capability the manifest declares.
Flawed(files) == \E f \in files.code : f.finding # "none" /\ \E c \in files.caps : c.id = f.file

LoadInto(before) ==
    LET after == loadInstalledPacks(before)
    IN  /\ pkPacks' = after.packs /\ pkCaps' = after.caps
        /\ pkSeen' = [p \in PackIds |-> IF after.packs[p] = before.packs[p] THEN pkSeen[p]
                                        ELSE [status |-> pkStatus[p], own |-> p \notin pkTouched,
                                              sound |-> ~Flawed(pkFiles[p])]]

Load == LoadInto([packs |-> pkPacks, caps |-> pkCaps])

Restart ==
    /\ PkStep
    /\ LoadInto(BareRegistry)
    /\ UNCHANGED <<pkSource, pkFiles, pkEntry, pkTorn, pkJob, pkSmoke, pkStatus, pkTouched>>

\* getPackHealth: loads; with a torn registry its second read throws.
PackHealth ==
    /\ PkStep /\ Load
    /\ UNCHANGED <<pkSource, pkFiles, pkEntry, pkTorn, pkJob, pkSmoke, pkStatus, pkTouched>>

\* runPackSmoke: a read without approval of the capabilities the registry gives the
\* pack, if it has one.
RunPackSmoke(p) ==
    /\ PkStep /\ Load
    /\ LET caps == pkPacks'[p].caps
           safe == {c \in caps : c.risk = "read" /\ ~c.approval}
       IN  pkSmoke' \in
              IF ~pkPacks'[p].present THEN {[status |-> "fail", cap |-> "none"]}
              ELSE IF safe = {} THEN {[status |-> "skipped", cap |-> "none"]}
              ELSE {[status |-> s, cap |-> c.id] : s \in {"pass", "fail"}, c \in safe}
    /\ UNCHANGED <<pkSource, pkFiles, pkEntry, pkTorn, pkJob, pkStatus, pkTouched>>

PkNext ==
    \/ \E p \in PackIds : \/ \E source \in PackSource : WriteSource(p, source)
                          \/ \E leave \in BOOLEAN, checks \in Checks : StartInstall(p, leave, checks)
                          \/ RunPackSmoke(p)
    \/ ContinueInstall \/ Die \/ Restart \/ PackHealth

PkSpec == PkInit /\ [][PkNext]_pkVars

-----------------------------------------------------------------------------
(* Properties                                                              *)

\* However packs were edited, installed again, interrupted and loaded, no risky
\* capability is served that does not ask for approval.
ApprovalKept == \A p \in PackIds : \A c \in pkPacks[p].caps : c.risk # "read" => c.approval

\* Every pack a runtime holds had passed validation when it was loaded, was not
\* written by experimental code generation, and had no finding in the code of its
\* capabilities, unless its installation had stopped, or was, between copying and
\* recording.  Files of earlier versions beside them may have findings.
TrustedPassed ==
    \A p \in PackIds : pkPacks[p].present /\ pkSeen[p].own =>
        pkSeen[p].status = "pass" /\ pkSeen[p].sound /\ ~pkPacks[p].experimental

\* The runtime's table is whole: a capability id is served by exactly one pack that
\* declares it, every capability of a registered pack is served by that pack, and
\* the built-in ones by the core.
RegistryWhole ==
    /\ \A c \in AllCapIds : LET p == pkCaps[c] IN
          /\ (c \in CoreCap <=> p = "core")
          /\ p \in PackIds => \E k \in pkPacks[p].caps : k.id = c
    /\ \A p \in PackIds : \A k \in pkPacks[p].caps : pkCaps[k.id] = p

\* An entry of the registry has a manifest, and unless a later installation was
\* interrupted it is the one the entry was validated for: one that passed has no
\* finding in the code of a capability it declares, whatever older files lie beside it.
EntryBacked ==
    \A p \in PackIds : pkEntry[p].status # "none" =>
        /\ pkFiles[p].present
        /\ p \notin pkTouched => /\ pkEntry[p].status = pkStatus[p]
                                 /\ pkEntry[p].experimental = pkFiles[p].experimental
                                 /\ pkEntry[p].status = "pass" => ~Flawed(pkFiles[p])

\* A pack that can be called passed its review, is recorded with its files,
\* and takes no other pack's capability.
InstalledPacksTrusted == ApprovalKept /\ TrustedPassed /\ RegistryWhole /\ EntryBacked
=============================================================================
