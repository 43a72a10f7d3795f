---------------------------- MODULE ArtifactIndex ----------------------------
(***************************************************************************)
(* The two index files every command shares (artifacts/artifact-viewer.ts, *)
(* artifacts/run-index.ts) and the store that feeds them                   *)
(* (planning/local-plan-artifacts.ts): each operation reads a whole file,  *)
(* changes its copy and writes the whole file back, without a lock.        *)
(*                                                                         *)
(* Processes interleave between a read and the writes that follow it, and  *)
(* a write is not atomic: until it ends, or after a crash in it, a reader  *)
(* finds a torn file.  An entry is the artifact and whether reindexing     *)
(* made it: that gives a file a second id and a new date.  Contents and    *)
(* all other fields are left out.                                          *)
(***************************************************************************)
EXTENDS Naturals, Sequences, FiniteSets, FiniteSetsExt

CONSTANTS
    Proc, IdxArtifact,
    Old,      \* artifacts created before the cutoff of a prune
    Outside,  \* artifacts whose file is not under .open-lagrange
    DemoArtifact, DemoRun, \* made by the demo that is reset
    RunBound, \* runs are numbered in the order they started
    OpBound,  \* operations started
    Torn      \* contents of a file that cannot be parsed

ASSUME IndexAssumption ==
    Old \subseteq IdxArtifact /\ Outside \subseteq IdxArtifact /\ RunBound \in Nat /\ OpBound \in Nat

Runs == 1..RunBound
IndexEntry == [artifact : IdxArtifact, reindexed : BOOLEAN]
RunList == [runs : SUBSET Runs, latest : 0..RunBound]

\* A file that cannot be parsed is not one that can.
ASSUME TornAssumption ==
    (\A entries \in SUBSET IndexEntry : Torn # entries) /\ (\A list \in RunList : Torn # list)

VARIABLES
    idxDisk,    \* file -> contents, or Torn
    idxStore,   \* artifact files on disk
    idxPending, \* process -> summaries its stores hold and are still to register
    idxTodo,    \* process -> writes left: file and contents
    idxKnown,   \* history: entries registered and not removed since
    idxWritten, \* history: artifact files ever written
    idxClash,   \* history: operations overlapped, or a write was cut off
    idxOps

idxVars == <<idxDisk, idxStore, idxPending, idxTodo, idxKnown, idxWritten, idxClash, idxOps>>

NoRuns == [runs |-> {}, latest |-> 0]

IdxInit ==
    /\ idxDisk = [artifacts |-> {}, runs |-> NoRuns, pointer |-> 0]
    /\ idxStore = {} /\ idxPending = [p \in Proc |-> {}] /\ idxTodo = [p \in Proc |-> <<>>]
    /\ idxKnown = {} /\ idxWritten = {} /\ idxClash = FALSE /\ idxOps = 0

-----------------------------------------------------------------------------

Entry(a, reindexed) == [artifact |-> a, reindexed |-> reindexed]

\* readArtifactIndex: a file that cannot be parsed is an empty index.
readArtifactIndex == IF idxDisk.artifacts = Torn THEN {} ELSE idxDisk.artifacts

Idle(p) == idxTodo[p] = <<>>
Write(file, value) == [file |-> file, value |-> value]

\* Process p has read and knows its writes.
Start(p, writes) ==
    /\ Idle(p) /\ idxOps < OpBound /\ idxOps' = idxOps + 1
    /\ idxTodo' = [idxTodo EXCEPT ![p] = writes]
    /\ idxClash' = (idxClash \/ \E q \in Proc : ~Idle(q))

\* recordArtifact: the file first, its summary only in memory.
RecordArtifact(p, a) ==
    /\ Idle(p) /\ a \notin idxWritten
    /\ idxStore' = idxStore \cup {a} /\ idxWritten' = idxWritten \cup {a}
    /\ idxPending' = [idxPending EXCEPT ![p] = @ \cup {Entry(a, FALSE)}]
    /\ UNCHANGED <<idxDisk, idxTodo, idxKnown, idxClash, idxOps>>

\* Mutant: the entries read are not kept.
onlyNew(read, entries) == entries

\* What is there, with the given entries put in.
merged(read, entries) == read \cup entries

RegisterArtifacts(p, entries) ==
    /\ Start(p, <<Write("artifacts", merged(readArtifactIndex, entries))>>)
    /\ idxKnown' = idxKnown \cup entries

\* flush of a store, which registers all it holds; nothing to register writes nothing.  A
\* process may have several stores (a brief fetches each source with one of its own).  The
\* flush is the last use of each: what it keeps of its summaries is not registered again.
Flush(p, held) ==
    /\ held # {} /\ held \subseteq idxPending[p]
    /\ RegisterArtifacts(p, held)
    /\ idxPending' = [idxPending EXCEPT ![p] = @ \ held]
    /\ UNCHANGED <<idxDisk, idxStore, idxWritten>>

\* reindexArtifacts: every file found under the roots, under an id made from its
\* path and dated now.
ReindexArtifacts(p) ==
    /\ RegisterArtifacts(p, {Entry(a, TRUE) : a \in idxStore \ Outside})
    /\ UNCHANGED <<idxDisk, idxStore, idxPending, idxWritten>>

expired(e) == e.artifact \in Old /\ ~e.reindexed

\* The entries a prune drops from the index.
dropped(e) == expired(e)

\* isOpenLagrangePath
isOpenLagrangePath(a) == a \notin Outside

\* pruneArtifacts: the files of old entries go while it reads, if they are under
\* .open-lagrange; then the entries go with the write.
PruneArtifacts(p) ==
    LET read == readArtifactIndex
    IN  /\ Start(p, <<Write("artifacts", {e \in read : ~dropped(e)})>>)
        /\ idxStore' = idxStore \ {e.artifact : e \in {x \in read : expired(x) /\ isOpenLagrangePath(x.artifact)}}
        /\ idxKnown' = {e \in idxKnown : ~(e \in read /\ dropped(e))}
        /\ UNCHANGED <<idxDisk, idxPending, idxWritten>>

RemoveArtifactsByDemo(p) ==
    /\ Start(p, <<Write("artifacts", {e \in readArtifactIndex : e.artifact \notin DemoArtifact})>>)
    /\ idxKnown' = {e \in idxKnown : e.artifact \notin DemoArtifact}
    /\ UNCHANGED <<idxDisk, idxStore, idxPending, idxWritten>>

\* registerRun: the run index, then the pointer to the latest run.  A file that
\* cannot be parsed is an error here.
RegisterRun(p, r) ==
    /\ idxDisk.runs # Torn
    /\ Start(p, <<Write("runs", [runs |-> idxDisk.runs.runs \cup {r}, latest |-> r]),
                  Write("pointer", r)>>)
    /\ UNCHANGED <<idxDisk, idxStore, idxPending, idxKnown, idxWritten>>

\* The run that started last, 0 without one.
latestOf(runs) == IF runs = {} THEN 0 ELSE Max(runs)

RemoveRunsByDemo(p) ==
    /\ idxDisk.runs # Torn
    /\ LET runs == idxDisk.runs.runs \ DemoRun
       IN  Start(p, <<Write("runs", [runs |-> runs, latest |-> latestOf(runs)]),
                      Write("pointer", latestOf(runs))>>)
    /\ UNCHANGED <<idxDisk, idxStore, idxPending, idxKnown, idxWritten>>

\* writeFileSync truncates the file, then writes it.
WriteBegins(p) ==
    /\ ~Idle(p)
    /\ idxDisk' = [idxDisk EXCEPT ![Head(idxTodo[p]).file] = Torn]
    /\ UNCHANGED <<idxStore, idxPending, idxTodo, idxKnown, idxWritten, idxClash, idxOps>>

WriteEnds(p) ==
    /\ ~Idle(p) /\ idxDisk[Head(idxTodo[p]).file] = Torn
    /\ idxDisk' = [idxDisk EXCEPT ![Head(idxTodo[p]).file] = Head(idxTodo[p]).value]
    /\ idxTodo' = [idxTodo EXCEPT ![p] = Tail(@)]
    /\ UNCHANGED <<idxStore, idxPending, idxKnown, idxWritten, idxClash, idxOps>>

\* The process dies with its writes and with the summaries it held.
ProcessDies(p) ==
    /\ ~Idle(p) \/ idxPending[p] # {}
    /\ idxTodo' = [idxTodo EXCEPT ![p] = <<>>] /\ idxPending' = [idxPending EXCEPT ![p] = {}]
    /\ idxClash' = (idxClash \/ ~Idle(p))
    /\ UNCHANGED <<idxDisk, idxStore, idxKnown, idxWritten, idxOps>>

IdxNext ==
    \E p \in Proc :
        \/ \E a \in IdxArtifact : RecordArtifact(p, a)
        \/ \E r \in Runs : RegisterRun(p, r)
        \/ \E held \in SUBSET idxPending[p] : Flush(p, held)
        \/ ReindexArtifacts(p) \/ PruneArtifacts(p) \/ RemoveArtifactsByDemo(p)
        \/ RemoveRunsByDemo(p) \/ WriteBegins(p) \/ WriteEnds(p) \/ ProcessDies(p)

IdxSpec == IdxInit /\ [][IdxNext]_idxVars

-----------------------------------------------------------------------------
(* Properties                                                              *)

AtRest == ~idxClash /\ \A p \in Proc : Idle(p)

\* As long as operations do not overlap and none dies in its write, the index
\* holds exactly what was registered and not removed.
RegisteredStays == AtRest => idxDisk.artifacts = idxKnown

\* Also when they overlap, no entry precedes its file; and while they do not, an
\* entry whose file is gone is one that reindexing made for a pruned artifact.
EntriesHaveFiles ==
    /\ \A e \in readArtifactIndex : e.artifact \in idxWritten
    /\ AtRest => \A e \in readArtifactIndex : e.artifact \in idxStore \/ e.reindexed

\* Whatever entries the index has, pruning removes no file outside .open-lagrange
\* and none that is younger than the cutoff.
PruneSpares == idxWritten \ idxStore \subseteq Old \ Outside

\* Whoever wrote last, the latest run is one of the runs listed with it; and the
\* pointer names it once the operation is over.
LatestIsListed ==
    /\ idxDisk.runs # Torn => idxDisk.runs.latest \in idxDisk.runs.runs \cup {0}
    /\ AtRest => idxDisk.pointer = idxDisk.runs.latest

\* The index can be relied on while one process at a time writes it: nothing
\* registered is lost, and nothing dangles.
IndexTrustworthy == RegisteredStays /\ EntriesHaveFiles /\ PruneSpares /\ LatestIsListed
=============================================================================
