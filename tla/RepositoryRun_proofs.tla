------------------------ MODULE RepositoryRun_proofs ------------------------
(***************************************************************************)
(* Proofs about RepositoryRun: the status file, the approval rows and the  *)
(* worktree that the commands apply, resume, approve, reject and cleanup   *)
(* share, and about RepositoryView, what the status file tells a user.     *)
(* Invariants, each resting on those before it:                            *)
(*   IInv        the types, and which parts of a command mean something;   *)
(*   Consistent  while commands come one at a time and none is lost, the   *)
(*               copies agree with the file, and its entries with the rows *)
(*               and envelopes;                                            *)
(*   Ordered     when besides no request is revised, one request at most   *)
(*               can be resumed, and the plan is done up to its node;      *)
(*   Checked     in a plan laid out as the deterministic plan is, a        *)
(*               verdict of the verification is about the worktree;        *)
(*   Awaiting    the entries that wait for a decision are those that the   *)
(*               rows leave undecided;                                     *)
(*   Cleanable   with commands one at a time, a worktree has a session;    *)
(*   Halted      in orderly use, a run that stopped did so at its current  *)
(*               node and there alone.                                     *)
(***************************************************************************)
EXTENDS RepositoryView, TLAPS, NaturalsInduction, WellFoundedInduction, SequenceTheorems

\* A plan state, and a request with its content.
PlanOf == [status : PlanStatus, node : [Node -> NodeStatus]]
Asked == [id : Request, content : Body]

\* Which parts of a command's state are meaningful where.
Shape(q) ==
  /\ q.node \in Node
  /\ q.pc \in {"envelope", "decision", "attach", "enter"} => q.asked \in Asked
  /\ q.pc \in {"decision", "start", "note", "applied"} => q.scope \in Asked
  /\ q.pc = "note" => q.decision \in {"approved", "rejected"}

\* The types, and what makes a command and an approval row well formed.
IInv ==
  /\ TypeOK
  /\ \A p \in Process : Shape(proc[p])
  /\ \A r \in Request : row[r].decision # "none" => row[r].content \in Body

-----------------------------------------------------------------------------
(***************************************************************************)
(* The status file.                                                        *)
(***************************************************************************)

\* The plan has a first node.
LEMMA Nodes ==
  /\ Len(Kinds) \in Nat /\ 1 \in Node /\ Len(Kinds) \in Node
  /\ Node = 1 .. Len(Kinds) /\ \A n \in Node : Kinds[n] \in NodeKind
BY ConstantsAssumption DEF Node

\* The fields of a status file.
LEMMA FileFields ==
  ASSUME NEW f \in StatusFile
  PROVE  /\ f.status \in {"pending"} \cup PlanStatus /\ f.session \in Session
         /\ f.plan \in PlanOf /\ f.requests \in Seq(Entry) /\ f.verification \in Verification
         /\ f.review \in {"none", "ready", "warnings"} /\ f.current \in Node \cup {0} /\ f.exported \in BOOLEAN
BY DEF StatusFile, PlanOf

\* A fresh status is a status file.
LEMMA FreshFile == createRepositoryPlanStatus \in StatusFile
<1>1. FreshPlan \in PlanOf
  BY DEF FreshPlan, PlanOf, PlanStatus, NodeStatus
<1>2. <<>> \in Seq(Entry)
  OBVIOUS
<1>3. QED
  BY <1>1, <1>2 DEF createRepositoryPlanStatus, StatusFile, PlanOf, Session, Verification

\* Marking a node keeps a plan a plan.
LEMMA MarkedPlan ==
  ASSUME NEW plan \in PlanOf, NEW n \in Node, NEW s \in NodeStatus, NEW errors \in BOOLEAN
  PROVE  /\ markNode(plan, n, s, errors) \in PlanOf
         /\ markNode(plan, n, s, errors).node[n] = s
         /\ \A m \in Node \ {n} : markNode(plan, n, s, errors).node[m] = plan.node[m]
BY DEF markNode, PlanOf, PlanStatus, NodeStatus

\* The entries of a request are marked in place.
LEMMA MarkedEntries ==
  ASSUME NEW f \in StatusFile, NEW id, NEW d \in {"approved", "rejected"}
  PROVE  LET g == updateScopeStatus(f, id, d)
             h == markScopeExpansionApplied(f, id)
         IN  /\ g \in StatusFile /\ h \in StatusFile
             /\ DOMAIN g.requests = DOMAIN f.requests /\ DOMAIN h.requests = DOMAIN f.requests
             /\ \A i \in DOMAIN f.requests :
                  /\ g.requests[i].id = f.requests[i].id /\ g.requests[i].content = f.requests[i].content
                  /\ h.requests[i].id = f.requests[i].id /\ h.requests[i].content = f.requests[i].content
                  /\ f.requests[i].id # id => g.requests[i] = f.requests[i] /\ h.requests[i] = f.requests[i]
                  /\ f.requests[i].id = id => /\ g.requests[i].status = d /\ g.requests[i].approval = d
                                              /\ h.requests[i].status = "applied" /\ h.requests[i].approval = "approved"
             /\ \A k \in {"status", "session", "plan", "verification", "review", "current", "exported"} :
                  g[k] = f[k] /\ h[k] = f[k]
<1> DEFINE s == f.requests
           gs == [i \in DOMAIN s |-> IF s[i].id = id THEN [s[i] EXCEPT !.status = d, !.approval = d] ELSE s[i]]
           hs == [i \in DOMAIN s |-> IF s[i].id = id THEN [s[i] EXCEPT !.status = "applied", !.approval = "approved"]
                                     ELSE s[i]]
<1>1. s \in Seq(Entry) /\ DOMAIN s = 1 .. Len(s) /\ Len(s) \in Nat /\ \A i \in DOMAIN s : s[i] \in Entry
  BY FileFields
<1>2. \A e \in Entry : /\ [e EXCEPT !.status = d, !.approval = d] \in Entry
                       /\ [e EXCEPT !.status = "applied", !.approval = "approved"] \in Entry
  BY DEF Entry, RequestStatus
<1>3. \A i \in DOMAIN s : gs[i] \in Entry /\ hs[i] \in Entry
  BY <1>1, <1>2
<1>4. gs \in Seq(Entry) /\ hs \in Seq(Entry)
  <2>1. gs \in [1 .. Len(s) -> Entry] /\ hs \in [1 .. Len(s) -> Entry]
    BY <1>1, <1>3
  <2> HIDE DEF gs, hs
  <2>2. QED
    BY <1>1, <2>1, SeqDef
<1>5. /\ updateScopeStatus(f, id, d) = [f EXCEPT !.requests = gs]
      /\ markScopeExpansionApplied(f, id) = [f EXCEPT !.requests = hs]
  BY DEF updateScopeStatus, markScopeExpansionApplied
<1> HIDE DEF gs, hs
<1>6. /\ updateScopeStatus(f, id, d) \in StatusFile /\ updateScopeStatus(f, id, d).requests = gs
      /\ markScopeExpansionApplied(f, id) \in StatusFile /\ markScopeExpansionApplied(f, id).requests = hs
  BY <1>4, <1>5 DEF StatusFile
<1>7. \A k \in {"status", "session", "plan", "verification", "review", "current", "exported"} :
        updateScopeStatus(f, id, d)[k] = f[k] /\ markScopeExpansionApplied(f, id)[k] = f[k]
  BY <1>5 DEF StatusFile
<1>8. DOMAIN gs = DOMAIN s /\ DOMAIN hs = DOMAIN s
  BY DEF gs, hs
<1>9. \A i \in DOMAIN s :
        /\ gs[i].id = s[i].id /\ gs[i].content = s[i].content
        /\ hs[i].id = s[i].id /\ hs[i].content = s[i].content
        /\ s[i].id # id => gs[i] = s[i] /\ hs[i] = s[i]
        /\ s[i].id = id => /\ gs[i].status = d /\ gs[i].approval = d
                           /\ hs[i].status = "applied" /\ hs[i].approval = "approved"
  BY <1>1 DEF gs, hs, Entry
<1>10. QED
  BY <1>6, <1>7, <1>8, <1>9

\* A set of naturals that is not empty has a least element.
LEMMA LeastNumber ==
  ASSUME NEW T, \A x \in T : x \in Nat, T # {}
  PROVE  \E x \in T : \A y \in T : x <= y
<1> DEFINE R == OpToRel(<, Nat)
<1>1. IsWellFoundedOn(R, Nat)
  BY NatLessThanWellFounded
<1>2. \A x, y \in Nat : <<x, y>> \in R <=> x < y
  BY DEF OpToRel
<1> HIDE DEF R
<1>3. PICK x \in T : \A y \in T : ~ (<<y, x>> \in R)
  BY <1>1, WFMin, T \subseteq Nat
<1>4. x \in Nat /\ \A y \in T : ~ (y < x)
  BY <1>2, <1>3
<1>5. \A y \in T : x <= y
  BY <1>4
<1>6. QED
  BY <1>5

\* What resume picks is an entry that may be resumed.
LEMMA PickedEntry ==
  ASSUME NEW f \in StatusFile, resumable(f) # {}
  PROVE  \E i \in resumable(f) : pendingEntry(f) = f.requests[i] /\ pendingEntry(f) \in Entry
<1> DEFINE T == resumable(f)
           k == CHOOSE i \in T : \A j \in T : i <= j
<1>1. \A i \in T : i \in DOMAIN f.requests
  BY DEF resumable
<1>2. f.requests \in Seq(Entry) /\ DOMAIN f.requests = 1 .. Len(f.requests) /\ Len(f.requests) \in Nat
  BY FileFields
<1>3. \A i \in T : i \in Nat
  BY <1>1, <1>2
<1> HIDE DEF T
<1>4. \E i \in T : \A j \in T : i <= j
  BY <1>3, LeastNumber DEF T
<1>5. k \in T
  BY <1>4
<1>6. f.requests[k] \in Entry
  BY <1>1, <1>2, <1>5
<1>7. QED
  BY <1>5, <1>6 DEF pendingEntry, T

\* Nothing is under way at the start.
LEMMA IdleProc == Idle \in Proc /\ Shape(Idle)
<1>1. NoScope \in Scope
  BY DEF Scope
<1>2. QED
  BY <1>1, FreshFile, Nodes DEF Idle, Proc, Pc, Shape, Verification, NodeStatus

\* The initial state satisfies the inductive invariant.
LEMMA InitInv == Init => IInv
<1> SUFFICES ASSUME Init PROVE IInv
  OBVIOUS
<1>1. \A p \in Process : proc[p] = Idle
  BY DEF Init
<1>2. proc \in [Process -> Proc] /\ \A p \in Process : Shape(proc[p])
  BY <1>1, IdleProc DEF Init
<1>3. file \in StatusFile
  BY FreshFile DEF Init
<1>4. /\ row \in [Request -> [decision : {"none", "requested", "approved", "rejected"}, content : Body \cup {NoBody}]]
      /\ \A r \in Request : row[r].decision = "none"
  BY DEF Init
<1>5. commands \in 0 .. MaxCommands /\ aborts \in 0 .. MaxAborts /\ overlaps \in 0 .. MaxOverlap
  BY ConstantsAssumption DEF Init
<1>6. QED
  BY <1>2, <1>3, <1>4, <1>5 DEF Init, IInv, TypeOK

\* A step of a process changes the state of that process only.
LEMMA ProcFrame ==
  ASSUME IInv, NEW p \in Process, Command(p) \/ Step(p) \/ abort(p)
  PROVE  proc' = [q \in Process |-> IF q = p THEN proc'[p] ELSE proc[q]]
<1>0. proc \in [Process -> Proc]
  BY DEF IInv, TypeOK
<1>1. CASE Command(p)
  BY <1>0, <1>1 DEF Command, applyRepositoryPlanfile, resumeRepositoryPlan, cleanupRepositoryPlan, decideScopeRequest, Begin
<1>2. CASE Step(p)
  BY <1>0, <1>2 DEF Step, readEnvelope, readDecision, Load, startResumed, noteDecision, saveStatus, beginNode, runPlainNode, skipRepair,
        writeEvidence, generatePatchPlan, refusePatch, tearPatch, applyPatch, failPatch, runVerificationPolicy, runReview,
        failReview, createScopeExpansionApproval, recordEnvelope, markResult, enterRequest, finishRun, applyScope,
        missWorktree, Return, Result, Goto
<1>3. CASE abort(p)
  BY <1>0, <1>3 DEF abort, Return
<1>4. QED
  BY <1>1, <1>2, <1>3

\* The types of a command's state.
LEMMA ProcFields ==
  ASSUME IInv, NEW p \in Process
  PROVE  /\ proc[p] \in Proc /\ Shape(proc[p])
         /\ proc[p].pc \in Pc /\ proc[p].copy \in StatusFile /\ proc[p].node \in Node
         /\ proc[p].scope \in Scope /\ proc[p].asked \in Scope
         /\ proc[p].verification \in Verification /\ proc[p].review \in {"none", "ready", "warnings"}
         /\ proc[p].result \in NodeStatus /\ proc[p].errors \in BOOLEAN
         /\ proc[p].decision \in {"none", "approved", "rejected"}
<1>1. proc[p] \in Proc /\ Shape(proc[p])
  BY DEF IInv, TypeOK
<1>2. QED
  BY <1>1 DEF Proc, Shape

\* A command begins.
LEMMA CommandInv ==
  ASSUME IInv, NEW p \in Process, Command(p)
  PROVE  IInv'
<1>0. /\ file \in StatusFile /\ proc \in [Process -> Proc] /\ commands \in 0 .. MaxCommands /\ overlaps \in 0 .. MaxOverlap
      /\ {MaxCommands, MaxOverlap} \subseteq Nat /\ aborts \in 0 .. MaxAborts
      /\ worktree \in [present : BOOLEAN, scopes : SUBSET Scope, verified : BOOLEAN]
      /\ row \in [Request -> [decision : {"none", "requested", "approved", "rejected"}, content : Body \cup {NoBody}]]
      /\ envelope \in [Request -> Body \cup {NoBody}] /\ granted \subseteq Scope /\ revised \in BOOLEAN
      /\ \A r \in Request : row[r].decision # "none" => row[r].content \in Body
  BY ConstantsAssumption DEF IInv, TypeOK
<1>1. ASSUME NEW q, q \in Proc, Shape(q), Begin(p, q), file' \in StatusFile,
             worktree' \in [present : BOOLEAN, scopes : SUBSET Scope, verified : BOOLEAN],
             row' \in [Request -> [decision : {"none", "requested", "approved", "rejected"}, content : Body \cup {NoBody}]],
             \A r \in Request : row'[r].decision # "none" => row'[r].content \in Body,
             envelope' = envelope, granted' \subseteq Scope, revised' \in BOOLEAN
      PROVE  IInv'
  <2>1. proc' \in [Process -> Proc] /\ proc'[p] = q /\ \A r \in Process : r # p => proc'[r] = proc[r]
    BY <1>0, <1>1 DEF Begin
  <2>2. \A r \in Process : Shape(proc'[r])
    BY <1>1, <2>1 DEF IInv
  <2>3. commands' \in 0 .. MaxCommands /\ overlaps' \in 0 .. MaxOverlap /\ aborts' = aborts
    BY <1>0, <1>1 DEF Begin
  <2>4. QED
    BY <1>0, <1>1, <2>1, <2>2, <2>3 DEF IInv, TypeOK
<1>2. CASE applyRepositoryPlanfile(p)
  <2> DEFINE status == [createRepositoryPlanStatus EXCEPT !.status = "running", !.session = "running", !.current = 1]
             q == [Idle EXCEPT !.pc = "next", !.copy = status]
  <2>1. status \in StatusFile
    BY FreshFile, Nodes DEF StatusFile, PlanStatus, Session
  <2> HIDE DEF status
  <2>2. q \in Proc /\ Shape(q)
    BY <2>1, IdleProc DEF Proc, Pc, Shape
  <2>3. Begin(p, q) /\ file' = status /\ worktree' = [worktree EXCEPT !.present = TRUE] /\ UNCHANGED approvals
    BY <1>2 DEF applyRepositoryPlanfile, createWorktreeSession, status
  <2> HIDE DEF q
  <2>4. QED
    BY <1>0, <1>1, <2>1, <2>2, <2>3 DEF approvals
<1>3. CASE resumeRepositoryPlan(p)
  <2> DEFINE e == pendingEntry(file)
             q == [Idle EXCEPT !.pc = "envelope", !.node = nodesForRun(e), !.asked = [id |-> e.id, content |-> e.content]]
  <2>1. e \in Entry
    BY <1>0, <1>3, PickedEntry DEF resumeRepositoryPlan
  <2>2. Begin(p, q) /\ UNCHANGED <<file, worktree, approvals>>
    BY <1>3 DEF resumeRepositoryPlan
  <2> HIDE DEF e
  <2>3. nodesForRun(e) \in Node /\ Node \subseteq Nat /\ [id |-> e.id, content |-> e.content] \in Asked
    BY <2>1, Nodes DEF Entry, nodesForRun, Body, Asked
  <2>4. q \in Proc /\ Shape(q)
    BY <2>3, IdleProc DEF Proc, Pc, Shape, Asked, Scope
  <2> HIDE DEF q
  <2>5. QED
    BY <1>0, <1>1, <2>2, <2>4 DEF approvals
<1>4. CASE cleanupRepositoryPlan(p)
  <2> DEFINE g == [file EXCEPT !.session = "cleaned"]
             q == [Idle EXCEPT !.pc = "save", !.copy = g]
  <2>1. g \in StatusFile
    BY <1>0 DEF StatusFile, Session
  <2> HIDE DEF g
  <2>2. q \in Proc /\ Shape(q)
    BY <2>1, IdleProc DEF Proc, Pc, Shape
  <2>3. Begin(p, q) /\ UNCHANGED <<file, approvals>> /\ worktree' = [present |-> FALSE, scopes |-> {}, verified |-> FALSE]
    BY <1>4 DEF cleanupRepositoryPlan, cleanupWorktreeSession, g
  <2> HIDE DEF q
  <2>4. QED
    BY <1>0, <1>1, <2>2, <2>3 DEF approvals
<1>5. ASSUME NEW r \in Request, NEW d \in {"approved", "rejected"}, decideScopeRequest(p, r, d)
      PROVE  IInv'
  <2> DEFINE sc == [id |-> r, content |-> row[r].content]
             q == [Idle EXCEPT !.pc = "note", !.scope = sc, !.decision = d]
  <2>1. row[r].content \in Body
    BY <1>0, <1>5 DEF decideScopeRequest
  <2>2. sc \in Asked /\ sc \in Scope
    BY <2>1 DEF Asked, Scope
  <2>3. /\ Begin(p, q) /\ UNCHANGED <<file, worktree, envelope>> /\ row' = [row EXCEPT ![r].decision = d]
        /\ granted' \in {granted, granted \cup {sc}} /\ revised' = (revised \/ row[r].decision # "requested")
    BY <1>5 DEF decideScopeRequest
  <2> HIDE DEF sc
  <2>4. q \in Proc /\ Shape(q)
    BY <2>2, IdleProc DEF Proc, Pc, Shape, Asked
  <2> HIDE DEF q
  <2>5. row' \in [Request -> [decision : {"none", "requested", "approved", "rejected"}, content : Body \cup {NoBody}]]
    BY <1>0, <2>3
  <2>6. \A u \in Request : row'[u].decision # "none" => row'[u].content \in Body
    BY <1>0, <2>1, <2>3
  <2>7. granted' \subseteq Scope /\ revised' \in BOOLEAN
    BY <1>0, <2>2, <2>3
  <2>8. QED
    BY <1>0, <1>1, <2>3, <2>4, <2>5, <2>6, <2>7
<1>6. QED
  BY <1>2, <1>3, <1>4, <1>5 DEF Command

\* The worktree and the approval rows.
Worktree == [present : BOOLEAN, scopes : SUBSET Scope, verified : BOOLEAN]
Rows == [Request -> [decision : {"none", "requested", "approved", "rejected"}, content : Body \cup {NoBody}]]

\* A step of a command.
LEMMA StepInv ==
  ASSUME IInv, NEW p \in Process, Step(p) \/ abort(p)
  PROVE  IInv'
<1>0. /\ file \in StatusFile /\ proc \in [Process -> Proc] /\ commands \in 0 .. MaxCommands /\ overlaps \in 0 .. MaxOverlap
      /\ MaxAborts \in Nat /\ aborts \in 0 .. MaxAborts /\ worktree \in Worktree /\ row \in Rows
      /\ envelope \in [Request -> Body \cup {NoBody}] /\ granted \subseteq Scope /\ revised \in BOOLEAN
      /\ \A r \in Request : row[r].decision # "none" => row[r].content \in Body
  BY ConstantsAssumption DEF IInv, TypeOK, Worktree, Rows
<1>1. /\ proc[p] \in Proc /\ Shape(proc[p])
      /\ proc[p].pc \in Pc /\ proc[p].copy \in StatusFile /\ proc[p].node \in Node
      /\ proc[p].scope \in Scope /\ proc[p].asked \in Scope
      /\ proc[p].verification \in Verification /\ proc[p].review \in {"none", "ready", "warnings"}
      /\ proc[p].result \in NodeStatus /\ proc[p].errors \in BOOLEAN
      /\ proc[p].decision \in {"none", "approved", "rejected"}
  BY ProcFields
<1>2. proc' = [q \in Process |-> IF q = p THEN proc'[p] ELSE proc[q]]
  BY ProcFrame
<1>3. ASSUME proc'[p] \in Proc, Shape(proc'[p]), file' \in StatusFile, worktree' \in Worktree, row' \in Rows,
             \A r \in Request : row'[r].decision # "none" => row'[r].content \in Body,
             envelope' \in [Request -> Body \cup {NoBody}], UNCHANGED <<granted, revised, commands, overlaps>>,
             aborts' \in 0 .. MaxAborts
      PROVE  IInv'
  <2>1. proc' \in [Process -> Proc]
    BY <1>0, <1>2, <1>3
  <2>2. \A q \in Process : Shape(proc'[q])
    BY <1>2, <1>3 DEF IInv
  <2>3. QED
    BY <1>0, <1>3, <2>1, <2>2 DEF IInv, TypeOK, Worktree, Rows

<1>4. ASSUME proc' = [proc EXCEPT ![p] = Idle]
      PROVE  proc'[p] \in Proc /\ Shape(proc'[p])
  BY <1>0, <1>4, IdleProc
<1>5. CASE readEnvelope(p)
  <2>1. UNCHANGED <<file, worktree, approvals, counters>>
    BY <1>5 DEF readEnvelope
  <2>2. proc[p].asked \in Asked /\ proc[p].asked.id \in Request
    BY <1>1, <1>5 DEF readEnvelope, Shape, Asked
  <2>3. proc'[p] \in Proc /\ Shape(proc'[p])
    <3>1. CASE envelope[proc[p].asked.id] = NoBody
      BY <1>4, <1>5, <3>1 DEF readEnvelope, Return
    <3>2. CASE envelope[proc[p].asked.id] # NoBody
      <4> DEFINE sc == [id |-> proc[p].asked.id, content |-> envelope[proc[p].asked.id]]
      <4>1. sc \in Asked /\ sc \in Scope
        BY <1>0, <2>2, <3>2 DEF Asked, Scope
      <4>2. proc'[p] = [proc[p] EXCEPT !.pc = "decision", !.scope = sc]
        BY <1>0, <1>5, <3>2 DEF readEnvelope
      <4> HIDE DEF sc
      <4>3. QED
        BY <1>1, <2>2, <4>1, <4>2 DEF Proc, Pc, Shape
    <3>3. QED
      BY <3>1, <3>2
  <2>4. QED
    BY <1>0, <1>3, <2>1, <2>3 DEF approvals, counters
<1>6. CASE readDecision(p)
  <2>1. UNCHANGED <<file, worktree, approvals, counters>>
    BY <1>6 DEF readDecision
  <2>2. proc[p].scope \in Asked /\ NoScope \in Scope
    BY <1>1, <1>6 DEF readDecision, Shape, Scope
  <2>3. proc'[p] \in Proc /\ Shape(proc'[p])
    <3>1. CASE Return(p)
      BY <1>4, <3>1 DEF Return
    <3>2. CASE Load(p)
      <4> DEFINE c == updateScopeStatus(file, proc[p].scope.id, "approved")
      <4>1. c \in StatusFile /\ file.verification \in Verification
        BY <1>0, MarkedEntries, FileFields
      <4>2. proc'[p] = [proc[p] EXCEPT !.pc = "start", !.asked = NoScope, !.copy = c, !.verification = file.verification]
        BY <1>0, <3>2 DEF Load
      <4> HIDE DEF c
      <4>3. QED
        BY <1>1, <2>2, <4>1, <4>2 DEF Proc, Pc, Shape
    <3>3. QED
      BY <1>6, <3>1, <3>2 DEF readDecision
  <2>4. QED
    BY <1>0, <1>3, <2>1, <2>3 DEF approvals, counters
<1>7. CASE startResumed(p)
  <2> DEFINE status == [proc[p].copy EXCEPT !.status = "running", !.session = "running", !.plan.status = "running", !.current = proc[p].node]
  <2>1. UNCHANGED <<worktree, approvals, counters>> /\ file' = status /\ proc'[p] = [proc[p] EXCEPT !.pc = "next", !.copy = status]
    BY <1>0, <1>7 DEF startResumed
  <2>2. status \in StatusFile
    BY <1>1 DEF StatusFile, PlanStatus, Session
  <2> HIDE DEF status
  <2>3. proc'[p] \in Proc /\ Shape(proc'[p])
    BY <1>1, <2>1, <2>2 DEF Proc, Pc, Shape
  <2>4. QED
    BY <1>0, <1>3, <2>1, <2>2, <2>3 DEF approvals, counters
<1>8. CASE noteDecision(p)
  <2>1. UNCHANGED <<file, worktree, approvals, counters>>
    BY <1>8 DEF noteDecision
  <2>3. proc'[p] \in Proc /\ Shape(proc'[p])
    <3>1. CASE Return(p)
      BY <1>4, <3>1 DEF Return
    <3>2. CASE ~ Return(p)
      <4> DEFINE c == updateScopeStatus(file, proc[p].scope.id, proc[p].decision)
      <4>1. c \in StatusFile
        BY <1>0, <1>1, <1>8, MarkedEntries DEF noteDecision, Shape
      <4>2. proc'[p] = [proc[p] EXCEPT !.pc = "save", !.copy = c]
        BY <1>0, <1>8, <3>2 DEF noteDecision
      <4> HIDE DEF c
      <4>3. QED
        BY <1>1, <4>1, <4>2 DEF Proc, Pc, Shape
    <3>3. QED
      BY <3>1, <3>2
  <2>4. QED
    BY <1>0, <1>3, <2>1, <2>3 DEF approvals, counters
<1>9. CASE saveStatus(p)
  <2>1. UNCHANGED <<worktree, approvals, counters>> /\ file' \in StatusFile /\ proc'[p] \in Proc /\ Shape(proc'[p])
    BY <1>1, <1>4, <1>9 DEF saveStatus, Return
  <2>2. QED
    BY <1>0, <1>3, <2>1 DEF approvals, counters
<1>10. CASE beginNode(p)
  <2> DEFINE status == [proc[p].copy EXCEPT !.status = "running", !.current = At(p),
                                            !.plan = markNode(@, At(p), "running", FALSE)]
  <2>1. UNCHANGED <<worktree, approvals, counters>> /\ file' = status /\ proc'[p] = [proc[p] EXCEPT !.pc = "node", !.copy = status]
    BY <1>0, <1>10 DEF beginNode
  <2>2. markNode(proc[p].copy.plan, At(p), "running", FALSE) \in PlanOf
    <3>1. proc[p].copy.plan \in PlanOf /\ At(p) \in Node /\ "running" \in NodeStatus
      BY <1>1, FileFields DEF At, NodeStatus
    <3>2. FALSE \in BOOLEAN
      OBVIOUS
    <3>3. QED
      BY <3>1, <3>2, MarkedPlan, Zenon
  <2>3. status \in StatusFile
    BY <1>1, <2>2 DEF StatusFile, PlanStatus, At, PlanOf
  <2> HIDE DEF status
  <2>4. proc'[p] \in Proc /\ Shape(proc'[p])
    BY <1>1, <2>1, <2>3 DEF Proc, Pc, Shape
  <2>5. QED
    BY <1>0, <1>3, <2>1, <2>3, <2>4 DEF approvals, counters
<1>11. CASE writeEvidence(p)
  <2>1. UNCHANGED <<worktree, approvals, counters>> /\ file' \in StatusFile /\ proc'[p] \in Proc /\ Shape(proc'[p])
    BY <1>1, <1>11 DEF writeEvidence
  <2>2. QED
    BY <1>0, <1>3, <2>1 DEF approvals, counters
<1>12. CASE runPlainNode(p) \/ skipRepair(p) \/ generatePatchPlan(p) \/ (\E c \in Content : refusePatch(p, c)) \/ failReview(p)
  <2>1. UNCHANGED <<file, worktree, approvals, counters>>
    BY <1>12 DEF runPlainNode, skipRepair, generatePatchPlan, refusePatch, failReview
  <2>2. PICK s \in NodeStatus : proc' = [proc EXCEPT ![p].pc = "mark", ![p].result = s]
    BY <1>12 DEF runPlainNode, skipRepair, generatePatchPlan, refusePatch, failReview, Result, NodeStatus
  <2>3. proc'[p] = [proc[p] EXCEPT !.pc = "mark", !.result = s]
    BY <1>0, <2>2
  <2>4. proc'[p] \in Proc /\ Shape(proc'[p])
    BY <1>1, <2>3 DEF Proc, Pc, Shape
  <2>5. QED
    BY <1>0, <1>3, <2>1, <2>4 DEF approvals, counters
<1>13. ASSUME NEW c \in Content \cup {"none"}
       PROVE  touched(p, c) \in Worktree
  BY <1>0, <1>1 DEF touched, Worktree
<1>14. ASSUME NEW c \in Content \cup {"none"}, tearPatch(p, c)
       PROVE  IInv'
  <2>1. /\ UNCHANGED <<file, approvals, commands, overlaps>> /\ worktree' \in Worktree /\ proc'[p] \in Proc /\ Shape(proc'[p])
        /\ aborts' \in 0 .. MaxAborts
    BY <1>0, <1>4, <1>13, <1>14 DEF tearPatch, Return
  <2>2. QED
    BY <1>0, <1>3, <2>1 DEF approvals
<1>15. ASSUME NEW c \in Content \cup {"none"}, NEW v \in {"passed", "failed"},
              applyPatch(p, c, v) \/ failPatch(p, v) \/ runVerificationPolicy(p, v)
       PROVE  IInv'
  <2>1. UNCHANGED <<file, approvals, counters>>
    BY <1>15 DEF applyPatch, failPatch, runVerificationPolicy
  <2>2. worktree' \in Worktree
    <3>1. CASE applyPatch(p, c, v)
      <4>1. worktree' = [touched(p, c) EXCEPT !.verified = Kinds[At(p)] = "repair" /\ v = "passed"]
        BY <3>1 DEF applyPatch
      <4>2. QED
        BY <1>13, <4>1 DEF Worktree
    <3>2. CASE failPatch(p, v) \/ runVerificationPolicy(p, v)
      BY <1>0, <3>2 DEF failPatch, runVerificationPolicy, Worktree
    <3>3. QED
      BY <1>15, <3>1, <3>2
  <2>3. PICK s \in NodeStatus, u \in Verification, b \in BOOLEAN :
          proc'[p] = [proc[p] EXCEPT !.pc = "mark", !.errors = b, !.result = s, !.verification = u]
    <3>1. CASE applyPatch(p, c, v)
      <4>1. proc'[p] = [proc[p] EXCEPT !.pc = "mark", !.errors = proc[p].errors, !.result = "completed",
                          !.verification = IF Kinds[At(p)] = "repair" THEN v ELSE proc[p].verification]
        BY <1>0, <1>1, <3>1 DEF applyPatch, Proc
      <4>2. QED
        BY <1>1, <4>1 DEF Verification, NodeStatus
    <3>2. CASE failPatch(p, v)
      <4>1. proc'[p] = [proc[p] EXCEPT !.pc = "mark", !.errors = (Kinds[At(p)] = "repair"),
                          !.result = IF Kinds[At(p)] = "repair" THEN "completed" ELSE "failed",
                          !.verification = IF Kinds[At(p)] = "repair" THEN v ELSE proc[p].verification]
        BY <1>0, <1>1, <3>2 DEF failPatch, Proc
      <4>2. QED
        BY <1>1, <4>1 DEF Verification, NodeStatus
    <3>3. CASE runVerificationPolicy(p, v)
      <4>1. proc'[p] = [proc[p] EXCEPT !.pc = "mark", !.errors = proc[p].errors, !.result = "completed", !.verification = v]
        BY <1>0, <1>1, <3>3 DEF runVerificationPolicy, Proc
      <4>2. QED
        BY <1>1, <4>1 DEF Verification, NodeStatus
    <3>4. QED
      BY <1>15, <3>1, <3>2, <3>3
  <2>4. proc'[p] \in Proc /\ Shape(proc'[p])
    BY <1>1, <2>3 DEF Proc, Pc, Shape
  <2>5. QED
    BY <1>0, <1>3, <2>1, <2>2, <2>4 DEF approvals, counters
<1>16. CASE runReview(p)
  <2>1. UNCHANGED <<file, worktree, approvals, counters>>
    BY <1>16 DEF runReview
  <2>2. PICK v \in {"ready", "warnings"} : proc'[p] = [proc[p] EXCEPT !.pc = "mark", !.result = "completed", !.review = v]
    BY <1>0, <1>16 DEF runReview
  <2>3. proc'[p] \in Proc /\ Shape(proc'[p])
    BY <1>1, <2>2 DEF Proc, Pc, Shape, NodeStatus
  <2>4. QED
    BY <1>0, <1>3, <2>1, <2>3 DEF approvals, counters
<1>17. ASSUME NEW r \in Request, NEW c \in Content, createScopeExpansionApproval(p, r, c)
       PROVE  IInv'
  <2> DEFINE body == [files |-> c, node |-> At(p)]
             sc == [id |-> r, content |-> body]
  <2>1. /\ UNCHANGED <<file, worktree, envelope, granted, revised, counters>>
        /\ row' = [row EXCEPT ![r] = [decision |-> "requested", content |-> body]]
        /\ proc'[p] = [proc[p] EXCEPT !.pc = "attach", !.asked = sc]
    BY <1>0, <1>17 DEF createScopeExpansionApproval
  <2>2. body \in Body /\ sc \in Asked /\ sc \in Scope
    BY <1>1 DEF Body, Asked, Scope, At
  <2> HIDE DEF body, sc
  <2>3. row' \in Rows /\ \A u \in Request : row'[u].decision # "none" => row'[u].content \in Body
    BY <1>0, <2>1, <2>2 DEF Rows
  <2>4. proc'[p] \in Proc /\ Shape(proc'[p])
    BY <1>1, <2>1, <2>2 DEF Proc, Pc, Shape
  <2>5. QED
    BY <1>0, <1>3, <2>1, <2>3, <2>4 DEF counters
<1>18. CASE recordEnvelope(p)
  <2>1. /\ UNCHANGED <<file, worktree, row, granted, revised, counters>>
        /\ envelope' = [envelope EXCEPT ![proc[p].asked.id] = proc[p].asked.content]
        /\ proc'[p] = [proc[p] EXCEPT !.pc = "enter"]
    BY <1>0, <1>18 DEF recordEnvelope, Goto
  <2>2. proc[p].asked \in Asked
    BY <1>1, <1>18 DEF recordEnvelope, Shape
  <2>3. envelope' \in [Request -> Body \cup {NoBody}]
    BY <1>0, <2>1, <2>2 DEF Asked
  <2>4. proc'[p] \in Proc /\ Shape(proc'[p])
    BY <1>1, <2>1, <2>2 DEF Proc, Pc, Shape
  <2>5. QED
    BY <1>0, <1>3, <2>1, <2>3, <2>4 DEF counters
<1>19. ASSUME NEW given \in {"pending_approval", "expired"}, enterRequest(p, given)
       PROVE  IInv'
  <2> DEFINE e == [id |-> proc[p].asked.id, content |-> proc[p].asked.content, status |-> given, approval |-> "requested"]
             status == [proc[p].copy EXCEPT !.requests = Append(@, e)]
  <2>1. /\ UNCHANGED <<worktree, approvals, counters>> /\ file' = status
        /\ proc'[p] = [proc[p] EXCEPT !.pc = "mark", !.copy = status, !.asked = NoScope, !.result = "yielded"]
    BY <1>0, <1>19 DEF enterRequest
  <2>2. e \in Entry
    BY <1>1, <1>19 DEF enterRequest, Shape, Asked, Entry, RequestStatus
  <2> HIDE DEF e
  <2>3. Append(proc[p].copy.requests, e) \in Seq(Entry)
    BY <1>1, <2>2, FileFields
  <2>4. status \in StatusFile
    BY <1>1, <2>3 DEF StatusFile
  <2> HIDE DEF status
  <2>5. proc'[p] \in Proc /\ Shape(proc'[p])
    BY <1>1, <2>1, <2>4 DEF Proc, Pc, Shape, Scope, NodeStatus
  <2>6. QED
    BY <1>0, <1>3, <2>1, <2>4, <2>5 DEF approvals, counters
<1>20. CASE markResult(p)
  <2> DEFINE status == [proc[p].copy EXCEPT
        !.plan = markNode(@, At(p), proc[p].result, proc[p].errors),
        !.verification = IF proc[p].verification = "none" THEN @ ELSE proc[p].verification,
        !.review = IF proc[p].review = "none" THEN @ ELSE proc[p].review]
             stops == proc[p].result \in {"failed", "yielded"} \/ At(p) = Len(Kinds)
  <2>1. /\ UNCHANGED <<worktree, approvals, counters>> /\ file' = status
        /\ proc'[p] = [proc[p] EXCEPT !.copy = status, !.pc = IF stops THEN "final" ELSE "next",
                          !.node = IF stops THEN @ ELSE @ + 1, !.result = "pending", !.errors = FALSE]
    BY <1>0, <1>20 DEF markResult
  <2>2. markNode(proc[p].copy.plan, At(p), proc[p].result, proc[p].errors) \in PlanOf
    BY <1>1, MarkedPlan, FileFields DEF At
  <2>3. status \in StatusFile
    BY <1>1, <2>2, FileFields DEF StatusFile, PlanOf
  <2> HIDE DEF status
  <2>4. stops \/ proc[p].node + 1 \in Node
    BY <1>1, Nodes DEF At
  <2>5. Node \subseteq Nat
    BY Nodes
  <2> HIDE DEF stops
  <2>6. proc'[p] \in Proc /\ Shape(proc'[p])
    <3>1. CASE stops
      BY <1>1, <2>1, <2>3, <2>5, <3>1 DEF Proc, Pc, Shape, NodeStatus
    <3>2. CASE ~ stops
      BY <1>1, <2>1, <2>3, <2>4, <2>5, <3>2 DEF Proc, Pc, Shape, NodeStatus
    <3>3. QED
      BY <3>1, <3>2
  <2>7. QED
    BY <1>0, <1>3, <2>1, <2>3, <2>6 DEF approvals, counters
<1>21. CASE finishRun(p)
  <2> DEFINE s == proc[p].copy.plan.status
             status == [proc[p].copy EXCEPT !.exported = TRUE,
        !.status = IF s \in {"failed", "yielded"} THEN s ELSE "completed",
        !.session = CASE s = "failed" -> "failed" [] s = "yielded" -> "retained"
                      [] OTHER -> "completed"]
  <2>1. /\ UNCHANGED <<worktree, approvals, counters>> /\ file' = status
        /\ \/ proc' = [proc EXCEPT ![p] = Idle]
           \/ proc[p].scope # NoScope /\ proc'[p] = [proc[p] EXCEPT !.pc = "applied", !.copy = status]
    BY <1>0, <1>21 DEF finishRun, Return
  <2>2. status \in StatusFile
    BY <1>1 DEF StatusFile, PlanStatus, Session
  <2> HIDE DEF status
  <2>3. proc[p].scope # NoScope => proc[p].scope \in Asked
    BY <1>1 DEF Scope, Asked
  <2>4. proc'[p] \in Proc /\ Shape(proc'[p])
    <3>1. CASE proc' = [proc EXCEPT ![p] = Idle]
      BY <1>4, <3>1
    <3>2. CASE proc[p].scope # NoScope /\ proc'[p] = [proc[p] EXCEPT !.pc = "applied", !.copy = status]
      BY <1>1, <2>2, <2>3, <3>2 DEF Proc, Pc, Shape
    <3>3. QED
      BY <2>1, <3>1, <3>2
  <2>5. QED
    BY <1>0, <1>3, <2>1, <2>2, <2>4 DEF approvals, counters
<1>22. CASE applyScope(p)
  <2>1. /\ UNCHANGED <<worktree, approvals, counters>> /\ file' \in StatusFile /\ proc'[p] \in Proc /\ Shape(proc'[p])
    BY <1>1, <1>4, <1>22, MarkedEntries DEF applyScope, Return
  <2>2. QED
    BY <1>0, <1>3, <2>1 DEF approvals, counters
<1>23. CASE missWorktree(p)
  <2>1. /\ UNCHANGED <<file, worktree, approvals, counters>> /\ proc'[p] \in Proc /\ Shape(proc'[p])
    BY <1>4, <1>23 DEF missWorktree, Return
  <2>2. QED
    BY <1>0, <1>3, <2>1 DEF approvals, counters
<1>24. CASE abort(p)
  <2>1. /\ UNCHANGED <<file, worktree, approvals, commands, overlaps>> /\ aborts' \in 0 .. MaxAborts
        /\ proc'[p] \in Proc /\ Shape(proc'[p])
    BY <1>0, <1>4, <1>24 DEF abort, Return
  <2>2. QED
    BY <1>0, <1>3, <2>1 DEF approvals
<1>25. QED
  BY <1>5, <1>6, <1>7, <1>8, <1>9, <1>10, <1>11, <1>12, <1>14, <1>15, <1>16, <1>17, <1>18, <1>19, <1>20, <1>21, <1>22,
     <1>23, <1>24 DEF Step

\* Types are kept by every step.
LEMMA InvStep == IInv /\ [Next]_vars => IInv'
<1> SUFFICES ASSUME IInv, [Next]_vars PROVE IInv'
  OBVIOUS
<1>1. CASE UNCHANGED vars
  BY <1>1 DEF IInv, TypeOK, vars
<1>2. QED
  BY <1>1, CommandInv, StepInv DEF Next

\* Every state variable keeps its type: the status file, the approval tables, the worktree
\* and the local state of each command (repository-plan-runner.ts, scope-expansion-*.ts).
THEOREM TypeCorrect == Spec => []TypeOK
<1>1. IInv => TypeOK
  BY DEF IInv
<1>2. QED
  BY InitInv, InvStep, <1>1, PTL DEF Spec

-----------------------------------------------------------------------------
(***************************************************************************)
(* A scope is used only after an approval, whatever overlaps.              *)
(***************************************************************************)
InRun == {"next", "node", "attach", "enter", "mark", "final", "applied"}

\* An approved row was granted as it stands; so was the request of every run that was
\* let in, and of every scope in the worktree.
Granted ==
  /\ \A r \in Request : row[r].decision = "approved" => [id |-> r, content |-> row[r].content] \in granted
  /\ \A p \in Process : proc[p].pc \in InRun \cup {"start"} /\ proc[p].scope # NoScope =>
       \E g \in granted : g.id = proc[p].scope.id
  /\ ScopeNeedsApproval

\* How a run keeps its scope: it is let in by readDecision only.
LEMMA ScopeKept ==
  ASSUME IInv, NEW p \in Process, Step(p) \/ abort(p), proc'[p].pc \in InRun \cup {"start"}
  PROVE  /\ proc'[p].scope = proc[p].scope
         /\ \/ proc[p].pc \in InRun \cup {"start"}
            \/ /\ readDecision(p) /\ proc[p].asked = proc[p].scope /\ proc[p].scope \in Asked
               /\ row[proc[p].scope.id].decision = "approved" /\ proc'[p].pc = "start"
<1>0. proc \in [Process -> Proc] /\ proc[p] \in Proc
  BY DEF IInv, TypeOK
<1>1. ASSUME proc' = [proc EXCEPT ![p] = Idle]
      PROVE  FALSE
  BY <1>0, <1>1 DEF Idle, InRun
<1>2. CASE readDecision(p)
  <2>1. ~ Return(p)
    BY <1>1 DEF Return
  <2>2. Load(p) /\ row[proc[p].asked.id].decision = "approved" /\ proc[p].asked = proc[p].scope
    BY <1>2, <2>1 DEF readDecision
  <2>3. proc[p].scope \in Asked
    BY <1>2, ProcFields DEF readDecision, Shape
  <2>4. proc'[p].scope = proc[p].scope /\ proc'[p].pc = "start"
    BY <1>0, <2>2 DEF Load, Proc
  <2>5. QED
    BY <1>2, <2>2, <2>3, <2>4
<1>3. CASE readEnvelope(p) \/ noteDecision(p) \/ saveStatus(p)
  BY <1>0, <1>1, <1>3 DEF readEnvelope, noteDecision, saveStatus, Return, Proc, InRun
<1>4. CASE startResumed(p) \/ beginNode(p) \/ markResult(p)
  BY <1>0, <1>4 DEF startResumed, beginNode, markResult, Proc, InRun
<1>5. CASE runPlainNode(p) \/ skipRepair(p) \/ generatePatchPlan(p) \/ (\E c \in Content : refusePatch(p, c)) \/ failReview(p)
  BY <1>0, <1>5 DEF runPlainNode, skipRepair, generatePatchPlan, refusePatch, failReview, Result, Proc, InRun, Running, Patching
<1>6. CASE writeEvidence(p) \/ (\E c \in Content \cup {"none"}, v \in {"passed", "failed"} : applyPatch(p, c, v))
             \/ (\E v \in {"passed", "failed"} : failPatch(p, v) \/ runVerificationPolicy(p, v)) \/ runReview(p)
  BY <1>0, <1>6 DEF writeEvidence, applyPatch, failPatch, runVerificationPolicy, runReview, Proc, InRun, Running, Patching
<1>7. CASE (\E r \in Request, c \in Content : createScopeExpansionApproval(p, r, c)) \/ recordEnvelope(p)
             \/ (\E given \in {"pending_approval", "expired"} : enterRequest(p, given))
  BY <1>0, <1>7 DEF createScopeExpansionApproval, recordEnvelope, enterRequest, Goto, Proc, InRun, Running, Patching
<1>8. CASE finishRun(p)
  BY <1>0, <1>1, <1>8 DEF finishRun, Return, Proc, InRun
<1>9. CASE applyScope(p) \/ missWorktree(p) \/ abort(p) \/ (\E c \in Content \cup {"none"} : tearPatch(p, c))
  BY <1>1, <1>9 DEF applyScope, missWorktree, abort, tearPatch, Return
<1>10. QED
  BY <1>2, <1>3, <1>4, <1>5, <1>6, <1>7, <1>8, <1>9 DEF Step

\* A patch adds the scope of the run that applies it, and nothing else does.
LEMMA ScopesGrow ==
  ASSUME IInv, NEW p \in Process, Command(p) \/ Step(p) \/ abort(p)
  PROVE  \/ worktree'.scopes \subseteq worktree.scopes
         \/ /\ proc[p].pc = "node" /\ proc[p].scope # NoScope
            /\ worktree'.scopes \subseteq worktree.scopes \cup {proc[p].scope}
<1>0. worktree \in Worktree /\ worktree = [present |-> worktree.present, scopes |-> worktree.scopes, verified |-> worktree.verified]
  BY DEF IInv, TypeOK, Worktree
<1>1. ASSUME NEW c \in Content \cup {"none"}, Patching(p), validPatch(p, c)
      PROVE  \/ touched(p, c).scopes = worktree.scopes
             \/ /\ proc[p].pc = "node" /\ proc[p].scope # NoScope
                /\ touched(p, c).scopes = worktree.scopes \cup {proc[p].scope}
  <2>1. CASE c = "none"
    BY <1>0, <2>1 DEF touched
  <2>2. CASE c # "none"
    <3>1. proc[p].scope # NoScope
      BY <1>1, <2>2 DEF validPatch, NoScope, NoBody
    <3>2. proc[p].pc = "node"
      BY <1>1 DEF Patching, Running
    <3>3. touched(p, c).scopes = worktree.scopes \cup {proc[p].scope}
      BY <1>0, <2>2 DEF touched
    <3>4. QED
      BY <3>1, <3>2, <3>3
  <2>3. QED
    BY <2>1, <2>2
<1>2. ASSUME NEW c \in Content \cup {"none"}
      PROVE  touched(p, c) \in Worktree
  BY <1>0, ProcFields DEF touched, Worktree
<1>3. ASSUME NEW c \in Content \cup {"none"}, NEW v \in {"passed", "failed"}, applyPatch(p, c, v)
      PROVE  worktree'.scopes = touched(p, c).scopes
  BY <1>2, <1>3 DEF applyPatch, Worktree
<1>4. CASE \E c \in Content \cup {"none"}, v \in {"passed", "failed"} : applyPatch(p, c, v)
  BY <1>1, <1>3, <1>4 DEF applyPatch
<1>5. CASE \E c \in Content \cup {"none"} : tearPatch(p, c)
  <2>1. PICK c \in Content \cup {"none"} : tearPatch(p, c)
    BY <1>5
  <2>2. Patching(p) /\ validPatch(p, c) /\ worktree' = touched(p, c)
    BY <2>1 DEF tearPatch
  <2>3. QED
    BY <1>1, <2>2
<1>6. CASE \E v \in {"passed", "failed"} : failPatch(p, v) \/ runVerificationPolicy(p, v)
  BY <1>0, <1>6 DEF failPatch, runVerificationPolicy
<1>7. CASE Command(p)
  <2>1. worktree' \in {worktree, createWorktreeSession, cleanupWorktreeSession}
    BY <1>7 DEF Command, applyRepositoryPlanfile, resumeRepositoryPlan, cleanupRepositoryPlan, decideScopeRequest
  <2>2. createWorktreeSession.scopes = worktree.scopes /\ cleanupWorktreeSession.scopes = {}
    BY <1>0 DEF createWorktreeSession, cleanupWorktreeSession
  <2>3. QED
    BY <2>1, <2>2
<1>8. CASE abort(p)
  BY <1>8 DEF abort
<1>9. CASE Step(p) /\ ~ (\E c \in Content \cup {"none"}, v \in {"passed", "failed"} : applyPatch(p, c, v))
             /\ ~ (\E c \in Content \cup {"none"} : tearPatch(p, c))
             /\ ~ (\E v \in {"passed", "failed"} : failPatch(p, v) \/ runVerificationPolicy(p, v))
  <2>1. worktree' = worktree
    BY <1>9 DEF Step, readEnvelope, readDecision, startResumed, noteDecision, saveStatus, beginNode, runPlainNode, skipRepair,
        writeEvidence, generatePatchPlan, refusePatch, runReview,
        failReview, createScopeExpansionApproval, recordEnvelope, markResult, enterRequest, finishRun, applyScope, missWorktree
  <2>2. QED
    BY <2>1
<1>10. QED
  BY <1>4, <1>5, <1>6, <1>7, <1>8, <1>9

\* What happens to the approval tables.
LEMMA TablesStep ==
  ASSUME IInv, NEW p \in Process, Command(p) \/ Step(p) \/ abort(p)
  PROVE  \/ UNCHANGED approvals
         \/ \E r \in Request, d \in {"approved", "rejected"} : decideScopeRequest(p, r, d)
         \/ \E r \in Request, c \in Content : createScopeExpansionApproval(p, r, c)
         \/ recordEnvelope(p)
BY DEF Command, Step, abort, applyRepositoryPlanfile, resumeRepositoryPlan, cleanupRepositoryPlan,
        readEnvelope, readDecision, startResumed, noteDecision, saveStatus, beginNode, runPlainNode, skipRepair,
        writeEvidence, generatePatchPlan, refusePatch, tearPatch, applyPatch, failPatch, runVerificationPolicy, runReview,
        failReview, markResult, enterRequest, finishRun, applyScope, missWorktree

\* No step uses a scope that was not granted.
LEMMA GrantedStep ==
  ASSUME IInv, Granted, NEW p \in Process, Command(p) \/ Step(p) \/ abort(p)
  PROVE  Granted'
<1>0. /\ row \in Rows /\ proc \in [Process -> Proc] /\ worktree \in Worktree
      /\ proc' = [q \in Process |-> IF q = p THEN proc'[p] ELSE proc[q]]
  BY ProcFrame DEF IInv, TypeOK, Rows, Worktree
<1>1. granted \subseteq granted'
  BY TablesStep DEF approvals, decideScopeRequest, createScopeExpansionApproval, recordEnvelope
<1>2. \A r \in Request : row'[r].decision = "approved" => [id |-> r, content |-> row'[r].content] \in granted'
  <2>1. CASE UNCHANGED approvals
    BY <2>1 DEF approvals, Granted
  <2>2. CASE \E r \in Request, d \in {"approved", "rejected"} : decideScopeRequest(p, r, d)
    <3>1. PICK r \in Request, d \in {"approved", "rejected"} : decideScopeRequest(p, r, d)
      BY <2>2
    <3>2. /\ row'[r].decision = d /\ row'[r].content = row[r].content
          /\ \A u \in Request : u # r => row'[u] = row[u]
          /\ d = "approved" => [id |-> r, content |-> row[r].content] \in granted'
      BY <1>0, <3>1 DEF decideScopeRequest, Rows
    <3>3. QED
      BY <1>1, <3>2 DEF Granted
  <2>3. CASE \E r \in Request, c \in Content : createScopeExpansionApproval(p, r, c)
    <3>1. PICK r \in Request, c \in Content : createScopeExpansionApproval(p, r, c)
      BY <2>3
    <3>2. row'[r].decision = "requested" /\ \A u \in Request : u # r => row'[u] = row[u]
      BY <1>0, <3>1 DEF createScopeExpansionApproval, Rows
    <3>3. QED
      BY <1>1, <3>2 DEF Granted
  <2>4. CASE recordEnvelope(p)
    BY <2>4 DEF recordEnvelope, Granted
  <2>5. QED
    BY <2>1, <2>2, <2>3, <2>4, TablesStep
<1>3. ASSUME NEW q \in Process, proc'[q].pc \in InRun \cup {"start"}, proc'[q].scope # NoScope
      PROVE  \E g \in granted' : g.id = proc'[q].scope.id
  <2>1. CASE q # p
    BY <1>0, <1>1, <1>3, <2>1 DEF Granted
  <2>2. CASE q = p /\ Command(p)
    <3>1. CASE applyRepositoryPlanfile(p)
      BY <1>0, <1>3, <2>2, <3>1 DEF applyRepositoryPlanfile, Begin, Idle
    <3>2. CASE resumeRepositoryPlan(p)
      BY <1>0, <1>3, <2>2, <3>2 DEF resumeRepositoryPlan, Begin, Idle, InRun
    <3>3. CASE cleanupRepositoryPlan(p)
      BY <1>0, <1>3, <2>2, <3>3 DEF cleanupRepositoryPlan, Begin, Idle, InRun
    <3>4. CASE \E r \in Request, d \in {"approved", "rejected"} : decideScopeRequest(p, r, d)
      BY <1>0, <1>3, <2>2, <3>4 DEF decideScopeRequest, Begin, Idle, InRun
    <3>5. QED
      BY <2>2, <3>1, <3>2, <3>3, <3>4 DEF Command
  <2>3. CASE q = p /\ (Step(p) \/ abort(p))
    <3>1. /\ proc'[p].scope = proc[p].scope
          /\ \/ proc[p].pc \in InRun \cup {"start"}
             \/ proc[p].scope \in Asked /\ row[proc[p].scope.id].decision = "approved"
      BY <1>3, <2>3, ScopeKept
    <3>2. CASE proc[p].pc \in InRun \cup {"start"}
      BY <1>1, <1>3, <2>3, <3>1, <3>2 DEF Granted
    <3>3. CASE proc[p].scope \in Asked /\ row[proc[p].scope.id].decision = "approved"
      <4> DEFINE g == [id |-> proc[p].scope.id, content |-> row[proc[p].scope.id].content]
      <4>1. g \in granted /\ g.id = proc[p].scope.id
        BY <3>3 DEF Granted, Asked
      <4>2. QED
        BY <1>1, <2>3, <3>1, <4>1
    <3>4. QED
      BY <3>1, <3>2, <3>3
  <2>4. QED
    BY <2>1, <2>2, <2>3
<1>4. ScopeNeedsApproval'
  BY <1>1, ScopesGrow DEF Granted, ScopeNeedsApproval, InRun
<1>5. QED
  BY <1>2, <1>3, <1>4 DEF Granted

\* Nothing is granted at the start, and nothing is used.
LEMMA GrantedInit == Init => Granted
<1> SUFFICES ASSUME Init PROVE Granted
  OBVIOUS
<1>1. \A r \in Request : row[r].decision = "none"
  BY DEF Init
<1>2. \A p \in Process : proc[p].scope = NoScope
  BY DEF Init, Idle
<1>3. worktree.scopes = {}
  BY DEF Init
<1>4. QED
  BY <1>1, <1>2, <1>3 DEF Granted, ScopeNeedsApproval

-----------------------------------------------------------------------------
(***************************************************************************)
(* What the actions do to the state of their process, field by field.      *)
(***************************************************************************)

\* A run that is begun anew.
LEMMA ApplyEffect ==
  ASSUME IInv, NEW p \in Process, applyRepositoryPlanfile(p)
  PROVE  /\ proc[p].pc = "idle" /\ UNCHANGED approvals
         /\ worktree'.present = TRUE /\ worktree'.scopes = worktree.scopes
         /\ file' \in StatusFile /\ file'.requests = <<>> /\ file'.status = "running" /\ file'.verification = "none"
         /\ file'.review = "none"
         /\ proc'[p].pc = "next" /\ proc'[p].copy = file' /\ proc'[p].node = 1 /\ proc'[p].scope = NoScope
         /\ proc'[p].verification = "none" /\ proc'[p].review = "none"
<1> DEFINE status == [createRepositoryPlanStatus EXCEPT !.status = "running", !.session = "running", !.current = 1]
<1>1. status \in StatusFile /\ status.requests = <<>> /\ status.status = "running" /\ status.verification = "none" /\ status.review = "none"
  BY FreshFile, Nodes DEF StatusFile, PlanStatus, Session, createRepositoryPlanStatus
<1>2. proc \in [Process -> Proc] /\ worktree \in Worktree
  BY DEF IInv, TypeOK, Worktree
<1>3. /\ file' = status /\ proc'[p] = [Idle EXCEPT !.pc = "next", !.copy = status] /\ proc[p].pc = "idle"
      /\ worktree' = [worktree EXCEPT !.present = TRUE] /\ UNCHANGED approvals
  BY <1>2 DEF applyRepositoryPlanfile, Begin, createWorktreeSession
<1> HIDE DEF status
<1>4. QED
  BY <1>1, <1>2, <1>3 DEF Idle, Worktree

\* A resume picks an entry.
LEMMA ResumeEffect ==
  ASSUME IInv, NEW p \in Process, resumeRepositoryPlan(p)
  PROVE  /\ proc[p].pc = "idle" /\ UNCHANGED <<file, worktree, approvals>>
         /\ proc'[p].pc = "envelope" /\ proc'[p].scope = NoScope /\ proc'[p].review = "none"
         /\ proc'[p].asked \in Asked /\ proc'[p].node = proc'[p].asked.content.node
         /\ \E i \in resumable(file) : /\ file.requests[i].id = proc'[p].asked.id
                                       /\ file.requests[i].content = proc'[p].asked.content
<1> DEFINE e == pendingEntry(file)
<1>1. PICK i \in resumable(file) : e = file.requests[i] /\ e \in Entry
  BY PickedEntry DEF resumeRepositoryPlan, IInv, TypeOK
<1>2. proc \in [Process -> Proc]
  BY DEF IInv, TypeOK
<1>3. /\ proc[p].pc = "idle" /\ UNCHANGED <<file, worktree, approvals>>
      /\ proc'[p] = [Idle EXCEPT !.pc = "envelope", !.node = nodesForRun(e), !.asked = [id |-> e.id, content |-> e.content]]
  BY <1>2 DEF resumeRepositoryPlan, Begin
<1> HIDE DEF e
<1>4. /\ proc'[p].pc = "envelope" /\ proc'[p].scope = NoScope /\ proc'[p].node = e.content.node /\ proc'[p].review = "none"
      /\ proc'[p].asked = [id |-> e.id, content |-> e.content]
  BY <1>3 DEF Idle, nodesForRun
<1>5. [id |-> e.id, content |-> e.content] \in Asked
  BY <1>1 DEF Asked, Entry
<1>6. QED
  BY <1>1, <1>3, <1>4, <1>5

\* A cleanup removes the worktree first.
LEMMA CleanupEffect ==
  ASSUME IInv, NEW p \in Process, cleanupRepositoryPlan(p)
  PROVE  /\ proc[p].pc = "idle" /\ UNCHANGED <<file, approvals>> /\ proc'[p].pc = "save"
         /\ ~ worktree'.present /\ worktree'.scopes = {}
         /\ proc'[p].copy \in StatusFile
         /\ \A k \in {"status", "plan", "requests", "verification", "review"} : proc'[p].copy[k] = file[k]
<1> DEFINE g == [file EXCEPT !.session = "cleaned"]
<1>1. g \in StatusFile /\ \A k \in {"status", "plan", "requests", "verification", "review"} : g[k] = file[k]
  BY DEF StatusFile, Session, IInv, TypeOK
<1>2. proc \in [Process -> Proc]
  BY DEF IInv, TypeOK
<1>3. /\ proc[p].pc = "idle" /\ UNCHANGED <<file, approvals>> /\ worktree' = cleanupWorktreeSession
      /\ proc'[p] = [Idle EXCEPT !.pc = "save", !.copy = g]
  BY <1>2 DEF cleanupRepositoryPlan, Begin
<1> HIDE DEF g
<1>4. QED
  BY <1>1, <1>3 DEF Idle, cleanupWorktreeSession

\* A decision changes the row of its request.
LEMMA DecideEffect ==
  ASSUME IInv, NEW p \in Process, NEW r \in Request, NEW d \in {"approved", "rejected"}, decideScopeRequest(p, r, d)
  PROVE  /\ proc[p].pc = "idle" /\ UNCHANGED <<file, worktree, envelope>>
         /\ row[r].decision # "none" /\ row[r].content \in Body
         /\ row'[r].decision = d /\ row'[r].content = row[r].content
         /\ \A u \in Request : u # r => row'[u] = row[u]
         /\ granted \subseteq granted' /\ revised' = (revised \/ row[r].decision # "requested")
         /\ proc'[p].pc = "note" /\ proc'[p].scope = [id |-> r, content |-> row[r].content] /\ proc'[p].decision = d
<1>1. proc \in [Process -> Proc] /\ row \in Rows
  BY DEF IInv, TypeOK, Rows
<1>2. /\ proc[p].pc = "idle"
      /\ proc'[p] = [Idle EXCEPT !.pc = "note", !.scope = [id |-> r, content |-> row[r].content], !.decision = d]
  BY <1>1 DEF decideScopeRequest, Begin
<1>3. /\ UNCHANGED <<file, worktree, envelope>> /\ row[r].decision # "none" /\ granted \subseteq granted'
      /\ row' = [row EXCEPT ![r].decision = d] /\ revised' = (revised \/ row[r].decision # "requested")
  BY DEF decideScopeRequest
<1>4. row[r].content \in Body
  BY <1>3 DEF IInv
<1>5. row'[r].decision = d /\ row'[r].content = row[r].content /\ \A u \in Request : u # r => row'[u] = row[u]
  BY <1>1, <1>3 DEF Rows
<1>6. proc'[p].pc = "note" /\ proc'[p].scope = [id |-> r, content |-> row[r].content] /\ proc'[p].decision = d
  BY <1>2 DEF Idle
<1>7. QED
  BY <1>2, <1>3, <1>4, <1>5, <1>6

\* The checks of a resume, and the read of the status file.
LEMMA ResumeChecks ==
  ASSUME IInv, NEW p \in Process
  PROVE  /\ readEnvelope(p) =>
              /\ proc[p].pc = "envelope" /\ UNCHANGED <<file, worktree, approvals, counters>>
              /\ \/ proc'[p].pc = "idle"
                 \/ /\ proc'[p].pc = "decision" /\ proc'[p].asked = proc[p].asked /\ proc'[p].node = proc[p].node
                    /\ proc'[p].review = proc[p].review
                    /\ proc'[p].scope = [id |-> proc[p].asked.id, content |-> envelope[proc[p].asked.id]]
         /\ readDecision(p) =>
              /\ proc[p].pc = "decision" /\ UNCHANGED <<file, worktree, approvals, counters>>
              /\ \/ proc'[p].pc = "idle"
                 \/ /\ proc'[p].pc = "start" /\ proc'[p].scope = proc[p].scope /\ proc'[p].node = proc[p].node
                    /\ proc'[p].copy = updateScopeStatus(file, proc[p].scope.id, "approved")
                    /\ proc'[p].verification = file.verification /\ proc'[p].review = proc[p].review
                    /\ proc[p].asked = proc[p].scope /\ row[proc[p].scope.id].decision = "approved"
         /\ noteDecision(p) =>
              /\ proc[p].pc = "note" /\ UNCHANGED <<file, worktree, approvals, counters>>
              /\ \/ proc'[p].pc = "idle" /\ envelope[proc[p].scope.id] = NoBody
                 \/ /\ proc'[p].pc = "save"
                    /\ proc'[p].copy = updateScopeStatus(file, proc[p].scope.id, proc[p].decision)
         /\ saveStatus(p) =>
              /\ proc[p].pc = "save" /\ UNCHANGED <<worktree, approvals, counters>>
              /\ file' = proc[p].copy /\ proc'[p].pc = "idle"
<1>0. proc \in [Process -> Proc] /\ proc[p] \in Proc
  BY DEF IInv, TypeOK
<1>1. ASSUME Return(p)
      PROVE  proc'[p].pc = "idle"
  BY <1>0, <1>1 DEF Return, Idle
<1>2. ASSUME readEnvelope(p), ~ Return(p)
      PROVE  proc'[p] = [proc[p] EXCEPT !.pc = "decision", !.scope =
                           [id |-> proc[p].asked.id, content |-> envelope[proc[p].asked.id]]]
  BY <1>0, <1>2 DEF readEnvelope
<1>3. ASSUME readDecision(p), ~ Return(p)
      PROVE  /\ proc'[p] = [proc[p] EXCEPT !.pc = "start", !.asked = NoScope,
                              !.copy = updateScopeStatus(file, proc[p].scope.id, "approved"), !.verification = file.verification]
             /\ proc[p].asked = proc[p].scope /\ row[proc[p].asked.id].decision = "approved"
  BY <1>0, <1>3 DEF readDecision, Load
<1>4. ASSUME noteDecision(p), ~ Return(p)
      PROVE  proc'[p] = [proc[p] EXCEPT !.pc = "save", !.copy = updateScopeStatus(file, proc[p].scope.id, proc[p].decision)]
  BY <1>0, <1>4 DEF noteDecision
<1>5. noteDecision(p) /\ Return(p) => envelope[proc[p].scope.id] = NoBody \/ proc'[p].pc = "save"
  BY <1>0 DEF noteDecision, Proc
<1>6. ASSUME readEnvelope(p), ~ Return(p)
      PROVE  /\ proc'[p].pc = "decision" /\ proc'[p].asked = proc[p].asked /\ proc'[p].node = proc[p].node
             /\ proc'[p].review = proc[p].review
             /\ proc'[p].scope = [id |-> proc[p].asked.id, content |-> envelope[proc[p].asked.id]]
  BY <1>0, <1>2, <1>6 DEF Proc
<1>7. ASSUME readDecision(p), ~ Return(p)
      PROVE  /\ proc'[p].pc = "start" /\ proc'[p].scope = proc[p].scope /\ proc'[p].node = proc[p].node
             /\ proc'[p].copy = updateScopeStatus(file, proc[p].scope.id, "approved")
             /\ proc'[p].verification = file.verification /\ proc'[p].review = proc[p].review
             /\ proc[p].asked = proc[p].scope /\ row[proc[p].scope.id].decision = "approved"
  BY <1>0, <1>3, <1>7 DEF Proc
<1>8. ASSUME noteDecision(p), ~ Return(p)
      PROVE  proc'[p].pc = "save" /\ proc'[p].copy = updateScopeStatus(file, proc[p].scope.id, proc[p].decision)
  BY <1>0, <1>4, <1>8 DEF Proc
<1>9. CASE readEnvelope(p)
  BY <1>1, <1>6, <1>9 DEF readEnvelope, readDecision, noteDecision, saveStatus
<1>10. CASE readDecision(p)
  BY <1>1, <1>7, <1>10 DEF readEnvelope, readDecision, noteDecision, saveStatus
<1>11. CASE noteDecision(p)
  <2>1. CASE Return(p)
    BY <1>1, <1>5, <1>11, <2>1 DEF readEnvelope, readDecision, noteDecision, saveStatus
  <2>2. CASE ~ Return(p)
    BY <1>8, <1>11, <2>2 DEF readEnvelope, readDecision, noteDecision, saveStatus
  <2>3. QED
    BY <2>1, <2>2
<1>12. CASE saveStatus(p)
  BY <1>1, <1>12 DEF readEnvelope, readDecision, noteDecision, saveStatus
<1>13. QED
  BY <1>9, <1>10, <1>11, <1>12

\* The start of a resumed run and of a node.
LEMMA BeginEffect ==
  ASSUME IInv, NEW p \in Process, startResumed(p) \/ beginNode(p)
  PROVE  /\ UNCHANGED <<worktree, approvals, counters>>
         /\ proc'[p].copy = file' /\ file' \in StatusFile
         /\ \A k \in {"requests", "verification", "review"} : file'[k] = proc[p].copy[k]
         /\ file'.status = "running"
         /\ \A k \in {"node", "scope", "asked", "verification", "review"} : proc'[p][k] = proc[p][k]
         /\ startResumed(p) => /\ proc[p].pc = "start" /\ proc'[p].pc = "next"
                               /\ \A n \in Node : file'.plan.node[n] = proc[p].copy.plan.node[n]
         /\ beginNode(p) => /\ proc[p].pc = "next" /\ proc'[p].pc = "node"
                            /\ \A n \in Node \ {proc[p].node} : file'.plan.node[n] = proc[p].copy.plan.node[n]
<1>0. proc \in [Process -> Proc] /\ proc[p] \in Proc /\ proc[p].copy \in StatusFile /\ proc[p].node \in Node
  BY ProcFields DEF IInv, TypeOK
<1>1. CASE startResumed(p)
  <2> DEFINE status == [proc[p].copy EXCEPT !.status = "running", !.session = "running", !.plan.status = "running", !.current = proc[p].node]
  <2>1. /\ UNCHANGED <<worktree, approvals, counters>> /\ file' = status /\ proc[p].pc = "start"
        /\ proc'[p] = [proc[p] EXCEPT !.pc = "next", !.copy = status]
    BY <1>0, <1>1 DEF startResumed
  <2>2. /\ status \in StatusFile /\ status.status = "running"
        /\ \A k \in {"requests", "verification", "review"} : status[k] = proc[p].copy[k]
        /\ \A n \in Node : status.plan.node[n] = proc[p].copy.plan.node[n]
    BY <1>0 DEF StatusFile, PlanStatus, Session
  <2> HIDE DEF status
  <2>3. /\ proc'[p].pc = "next" /\ proc'[p].copy = status
        /\ \A k \in {"node", "scope", "asked", "verification", "review"} : proc'[p][k] = proc[p][k]
    BY <1>0, <2>1 DEF Proc
  <2>4. ~ beginNode(p)
    BY <2>1 DEF beginNode
  <2>5. QED
    BY <2>1, <2>2, <2>3, <2>4
<1>2. CASE beginNode(p)
  <2> DEFINE plan == markNode(proc[p].copy.plan, At(p), "running", FALSE)
             status == [proc[p].copy EXCEPT !.status = "running", !.current = At(p), !.plan = plan]
  <2>1. /\ UNCHANGED <<worktree, approvals, counters>> /\ file' = status /\ proc[p].pc = "next"
        /\ proc'[p] = [proc[p] EXCEPT !.pc = "node", !.copy = status]
    BY <1>0, <1>2 DEF beginNode
  <2>2. plan \in PlanOf /\ \A n \in Node \ {proc[p].node} : plan.node[n] = proc[p].copy.plan.node[n]
    <3>1. proc[p].copy.plan \in PlanOf /\ At(p) \in Node /\ "running" \in NodeStatus /\ At(p) = proc[p].node
      BY <1>0, FileFields DEF At, NodeStatus
    <3>2. FALSE \in BOOLEAN
      OBVIOUS
    <3>3. plan \in PlanOf /\ \A n \in Node \ {At(p)} : plan.node[n] = proc[p].copy.plan.node[n]
      BY <3>1, <3>2, MarkedPlan, Zenon
    <3>4. QED
      BY <3>3 DEF At
  <2> HIDE DEF plan
  <2>3. /\ status \in StatusFile /\ status.status = "running" /\ status.plan = plan
        /\ \A k \in {"requests", "verification", "review"} : status[k] = proc[p].copy[k]
    BY <1>0, <2>2 DEF StatusFile, PlanStatus, At, PlanOf
  <2> HIDE DEF status
  <2>4. /\ proc'[p].pc = "node" /\ proc'[p].copy = status
        /\ \A k \in {"node", "scope", "asked", "verification", "review"} : proc'[p][k] = proc[p][k]
    BY <1>0, <2>1 DEF Proc
  <2>5. ~ startResumed(p)
    BY <2>1 DEF startResumed
  <2>6. QED
    BY <2>1, <2>2, <2>3, <2>4, <2>5
<1>3. QED
  BY <1>1, <1>2

\* The ways a node ends, but for a request.
NodeEnds(p) ==
  \/ runPlainNode(p) \/ skipRepair(p) \/ generatePatchPlan(p) \/ (\E c \in Content : refusePatch(p, c))
  \/ \E c \in Content \cup {"none"}, v \in {"passed", "failed"} : applyPatch(p, c, v)
  \/ \E v \in {"passed", "failed"} : failPatch(p, v) \/ runVerificationPolicy(p, v)
  \/ runReview(p) \/ failReview(p)

\* The end of a node leaves the file and the tables alone.
LEMMA NodeEndEffect ==
  ASSUME IInv, NEW p \in Process, NodeEnds(p)
  PROVE  /\ proc[p].pc = "node" /\ UNCHANGED <<file, approvals, counters>> /\ proc'[p].pc = "mark"
         /\ \A k \in {"copy", "node", "scope", "asked"} : proc'[p][k] = proc[p][k]
         /\ proc'[p].result \in {"completed", "skipped", "failed", "yielded"}
         /\ worktree'.present = worktree.present
<1>0. proc \in [Process -> Proc] /\ proc[p] \in Proc /\ worktree \in Worktree
  BY DEF IInv, TypeOK, Worktree
<1>1. proc[p].pc = "node"
  BY DEF NodeEnds, runPlainNode, skipRepair, generatePatchPlan, refusePatch, applyPatch, failPatch, runVerificationPolicy, runReview,
        failReview, Patching, Running
<1>2. UNCHANGED <<file, approvals, counters>>
  BY DEF NodeEnds, runPlainNode, skipRepair, generatePatchPlan, refusePatch, applyPatch, failPatch, runVerificationPolicy, runReview,
        failReview
<1>3. CASE runPlainNode(p) \/ skipRepair(p) \/ generatePatchPlan(p) \/ (\E c \in Content : refusePatch(p, c)) \/ failReview(p)
  <2>1. PICK s \in {"completed", "skipped", "failed", "yielded"} : proc' = [proc EXCEPT ![p].pc = "mark", ![p].result = s]
    BY <1>3 DEF runPlainNode, skipRepair, generatePatchPlan, refusePatch, failReview, Result
  <2>2. worktree' = worktree
    BY <1>3 DEF runPlainNode, skipRepair, generatePatchPlan, refusePatch, failReview
  <2>3. QED
    BY <1>0, <1>1, <1>2, <2>1, <2>2 DEF Proc
<1>4. CASE runReview(p)
  BY <1>0, <1>1, <1>2, <1>4 DEF runReview, Proc
<1>5. ASSUME NEW c \in Content \cup {"none"}, NEW v \in {"passed", "failed"}, applyPatch(p, c, v)
      PROVE  /\ proc'[p].pc = "mark" /\ \A k \in {"copy", "node", "scope", "asked"} : proc'[p][k] = proc[p][k]
             /\ proc'[p].result \in {"completed", "skipped", "failed", "yielded"}
             /\ worktree'.present = worktree.present
  <2>1. worktree' = [touched(p, c) EXCEPT !.verified = (Kinds[At(p)] = "repair" /\ v = "passed")]
    BY <1>5 DEF applyPatch
  <2>2. touched(p, c) \in Worktree /\ touched(p, c).present = worktree.present
    BY <1>0, ProcFields DEF touched, Worktree
  <2>3. worktree'.present = worktree.present
    BY <2>1, <2>2 DEF Worktree
  <2>4. QED
    BY <1>0, <1>5, <2>3 DEF applyPatch, Proc
<1>6. ASSUME NEW v \in {"passed", "failed"}, failPatch(p, v)
      PROVE  /\ proc'[p].pc = "mark" /\ \A k \in {"copy", "node", "scope", "asked"} : proc'[p][k] = proc[p][k]
             /\ proc'[p].result \in {"completed", "skipped", "failed", "yielded"}
             /\ worktree'.present = worktree.present
  BY <1>0, <1>6 DEF failPatch, Proc, Worktree
<1>7. ASSUME NEW v \in {"passed", "failed"}, runVerificationPolicy(p, v)
      PROVE  /\ proc'[p].pc = "mark" /\ \A k \in {"copy", "node", "scope", "asked"} : proc'[p][k] = proc[p][k]
             /\ proc'[p].result \in {"completed", "skipped", "failed", "yielded"}
             /\ worktree'.present = worktree.present
  BY <1>0, <1>7 DEF runVerificationPolicy, Proc, Worktree
<1>8. QED
  BY <1>1, <1>2, <1>3, <1>4, <1>5, <1>6, <1>7 DEF NodeEnds

\* A request is written to the approval tables and entered in the file.
LEMMA RequestEffect ==
  ASSUME IInv, NEW p \in Process
  PROVE  /\ \A r \in Request, c \in Content : createScopeExpansionApproval(p, r, c) =>
              /\ proc[p].pc = "node" /\ UNCHANGED <<file, worktree, envelope, granted, revised, counters>>
              /\ Kinds[proc[p].node] \in {"patch", "repair"} /\ worktree.present
              /\ proc'[p].pc = "attach" /\ proc'[p].asked = [id |-> r, content |-> [files |-> c, node |-> proc[p].node]]
              /\ \A k \in {"copy", "node", "scope", "verification", "review"} : proc'[p][k] = proc[p][k]
              /\ row'[r] = [decision |-> "requested", content |-> [files |-> c, node |-> proc[p].node]]
              /\ \A u \in Request : u # r => row'[u] = row[u]
         /\ recordEnvelope(p) =>
              /\ proc[p].pc = "attach" /\ UNCHANGED <<file, worktree, row, granted, revised, counters>>
              /\ proc[p].asked \in Asked
              /\ envelope'[proc[p].asked.id] = proc[p].asked.content
              /\ \A u \in Request : u # proc[p].asked.id => envelope'[u] = envelope[u]
              /\ proc'[p].pc = "enter"
              /\ \A k \in {"copy", "node", "scope", "asked", "verification", "review"} : proc'[p][k] = proc[p][k]
         /\ \A given \in {"pending_approval", "expired"} : enterRequest(p, given) =>
              /\ proc[p].pc = "enter" /\ UNCHANGED <<worktree, approvals, counters>> /\ proc[p].asked \in Asked
              /\ proc'[p].pc = "mark" /\ proc'[p].copy = file' /\ proc'[p].result = "yielded"
              /\ file'.requests = Append(proc[p].copy.requests,
                    [id |-> proc[p].asked.id, content |-> proc[p].asked.content, status |-> given, approval |-> "requested"])
              /\ \A k \in {"status", "plan", "verification", "review"} : file'[k] = proc[p].copy[k]
              /\ \A k \in {"node", "scope", "verification", "review"} : proc'[p][k] = proc[p][k]
<1>0. /\ proc \in [Process -> Proc] /\ proc[p] \in Proc /\ row \in Rows /\ envelope \in [Request -> Body \cup {NoBody}]
      /\ proc[p].copy \in StatusFile /\ Shape(proc[p])
  BY ProcFields DEF IInv, TypeOK, Rows
<1>1. ASSUME NEW r \in Request, NEW c \in Content, createScopeExpansionApproval(p, r, c)
      PROVE  /\ proc[p].pc = "node" /\ UNCHANGED <<file, worktree, envelope, granted, revised, counters>>
             /\ Kinds[proc[p].node] \in {"patch", "repair"} /\ worktree.present
             /\ proc'[p].pc = "attach" /\ proc'[p].asked = [id |-> r, content |-> [files |-> c, node |-> proc[p].node]]
             /\ \A k \in {"copy", "node", "scope", "verification", "review"} : proc'[p][k] = proc[p][k]
             /\ row'[r] = [decision |-> "requested", content |-> [files |-> c, node |-> proc[p].node]]
             /\ \A u \in Request : u # r => row'[u] = row[u]
  <2>1. /\ proc[p].pc = "node" /\ UNCHANGED <<file, worktree, envelope, granted, revised, counters>>
        /\ Kinds[proc[p].node] \in {"patch", "repair"} /\ worktree.present
    BY <1>1 DEF createScopeExpansionApproval, Patching, Running, At
  <2>2. /\ row' = [row EXCEPT ![r] = [decision |-> "requested", content |-> [files |-> c, node |-> proc[p].node]]]
        /\ proc'[p] = [proc[p] EXCEPT !.pc = "attach", !.asked = [id |-> r, content |-> [files |-> c, node |-> proc[p].node]]]
    BY <1>0, <1>1 DEF createScopeExpansionApproval, At
  <2>3. QED
    BY <1>0, <2>1, <2>2 DEF Proc, Rows
<1>2. ASSUME recordEnvelope(p)
      PROVE  /\ proc[p].pc = "attach" /\ UNCHANGED <<file, worktree, row, granted, revised, counters>>
             /\ proc[p].asked \in Asked
             /\ envelope'[proc[p].asked.id] = proc[p].asked.content
             /\ \A u \in Request : u # proc[p].asked.id => envelope'[u] = envelope[u]
             /\ proc'[p].pc = "enter"
             /\ \A k \in {"copy", "node", "scope", "asked", "verification", "review"} : proc'[p][k] = proc[p][k]
  <2>1. /\ proc[p].pc = "attach" /\ UNCHANGED <<file, worktree, row, granted, revised, counters>>
        /\ proc'[p] = [proc[p] EXCEPT !.pc = "enter"]
        /\ envelope' = [envelope EXCEPT ![proc[p].asked.id] = proc[p].asked.content]
    BY <1>0, <1>2 DEF recordEnvelope, Goto
  <2>2. proc[p].asked \in Asked /\ proc[p].asked.id \in Request
    BY <1>0, <2>1 DEF Shape, Asked
  <2>3. QED
    BY <1>0, <2>1, <2>2 DEF Proc
<1>3. ASSUME NEW given \in {"pending_approval", "expired"}, enterRequest(p, given)
      PROVE  /\ proc[p].pc = "enter" /\ UNCHANGED <<worktree, approvals, counters>> /\ proc[p].asked \in Asked
             /\ proc'[p].pc = "mark" /\ proc'[p].copy = file' /\ proc'[p].result = "yielded"
             /\ file'.requests = Append(proc[p].copy.requests,
                   [id |-> proc[p].asked.id, content |-> proc[p].asked.content, status |-> given, approval |-> "requested"])
             /\ \A k \in {"status", "plan", "verification", "review"} : file'[k] = proc[p].copy[k]
             /\ \A k \in {"node", "scope", "verification", "review"} : proc'[p][k] = proc[p][k]
  <2> DEFINE reqs == Append(proc[p].copy.requests,
                [id |-> proc[p].asked.id, content |-> proc[p].asked.content, status |-> given, approval |-> "requested"])
             status == [proc[p].copy EXCEPT !.requests = reqs]
  <2>1. /\ proc[p].pc = "enter" /\ UNCHANGED <<worktree, approvals, counters>> /\ file' = status
        /\ proc'[p] = [proc[p] EXCEPT !.pc = "mark", !.copy = status, !.asked = NoScope, !.result = "yielded"]
    BY <1>0, <1>3 DEF enterRequest
  <2> HIDE DEF reqs
  <2>2. status.requests = reqs /\ \A k \in {"status", "plan", "verification", "review"} : status[k] = proc[p].copy[k]
    BY <1>0 DEF StatusFile
  <2> HIDE DEF status
  <2>3. proc[p].asked \in Asked
    BY <1>0, <2>1 DEF Shape
  <2>4. /\ proc'[p].pc = "mark" /\ proc'[p].copy = status /\ proc'[p].result = "yielded"
        /\ \A k \in {"node", "scope", "verification", "review"} : proc'[p][k] = proc[p][k]
    BY <1>0, <2>1 DEF Proc
  <2>5. QED
    BY <2>1, <2>2, <2>3, <2>4 DEF reqs
<1>4. QED
  BY <1>1, <1>2, <1>3

\* The result of a node is written.
LEMMA MarkEffect ==
  ASSUME IInv, NEW p \in Process, markResult(p)
  PROVE  /\ proc[p].pc = "mark" /\ UNCHANGED <<worktree, approvals, counters>>
         /\ proc'[p].copy = file' /\ file' \in StatusFile
         /\ \A k \in {"requests", "status"} : file'[k] = proc[p].copy[k]
         /\ file'.plan = markNode(proc[p].copy.plan, proc[p].node, proc[p].result, proc[p].errors)
         /\ file'.plan.node[proc[p].node] = proc[p].result
         /\ \A n \in Node \ {proc[p].node} : file'.plan.node[n] = proc[p].copy.plan.node[n]
         /\ file'.verification = IF proc[p].verification = "none" THEN proc[p].copy.verification ELSE proc[p].verification
         /\ file'.review = IF proc[p].review = "none" THEN proc[p].copy.review ELSE proc[p].review
         /\ \A k \in {"scope", "asked", "verification", "review"} : proc'[p][k] = proc[p][k]
         /\ \/ /\ proc'[p].pc = "final" /\ proc'[p].node = proc[p].node
               /\ proc[p].result \in {"failed", "yielded"} \/ proc[p].node = Len(Kinds)
            \/ /\ proc'[p].pc = "next" /\ proc'[p].node = proc[p].node + 1 /\ proc'[p].node \in Node
               /\ proc[p].result \notin {"failed", "yielded"}
<1>0. /\ proc \in [Process -> Proc] /\ proc[p] \in Proc /\ proc[p].copy \in StatusFile /\ proc[p].node \in Node
      /\ proc[p].result \in NodeStatus /\ proc[p].errors \in BOOLEAN /\ proc[p].verification \in Verification
      /\ proc[p].review \in {"none", "ready", "warnings"}
  BY ProcFields DEF IInv, TypeOK
<1> DEFINE plan == markNode(proc[p].copy.plan, proc[p].node, proc[p].result, proc[p].errors)
           veri == IF proc[p].verification = "none" THEN proc[p].copy.verification ELSE proc[p].verification
           revi == IF proc[p].review = "none" THEN proc[p].copy.review ELSE proc[p].review
           status == [proc[p].copy EXCEPT !.plan = plan, !.verification = veri, !.review = revi]
           stops == proc[p].result \in {"failed", "yielded"} \/ proc[p].node = Len(Kinds)
<1>1. /\ proc[p].pc = "mark" /\ UNCHANGED <<worktree, approvals, counters>> /\ file' = status
      /\ proc'[p] = [proc[p] EXCEPT !.copy = status, !.pc = IF stops THEN "final" ELSE "next",
                       !.node = IF stops THEN @ ELSE @ + 1, !.result = "pending", !.errors = FALSE]
  BY <1>0 DEF markResult, At
<1>2. /\ plan \in PlanOf /\ plan.node[proc[p].node] = proc[p].result
      /\ \A n \in Node \ {proc[p].node} : plan.node[n] = proc[p].copy.plan.node[n]
  BY <1>0, FileFields, MarkedPlan
<1>3. veri \in Verification /\ revi \in {"none", "ready", "warnings"}
  BY <1>0, FileFields
<1> HIDE DEF plan, veri, revi
<1>4. /\ status \in StatusFile /\ status.plan = plan /\ status.verification = veri /\ status.review = revi
      /\ \A k \in {"requests", "status"} : status[k] = proc[p].copy[k]
  BY <1>0, <1>2, <1>3 DEF StatusFile, PlanOf
<1> HIDE DEF status
<1>5. stops \/ proc[p].node + 1 \in Node
  BY <1>0, Nodes
<1>6. ~ stops => proc[p].result \notin {"failed", "yielded"}
  OBVIOUS
<1>7. stops => proc[p].result \in {"failed", "yielded"} \/ proc[p].node = Len(Kinds)
  OBVIOUS
<1> HIDE DEF stops
<1>8. /\ proc'[p].copy = status
      /\ \A k \in {"scope", "asked", "verification", "review"} : proc'[p][k] = proc[p][k]
      /\ stops => proc'[p].pc = "final" /\ proc'[p].node = proc[p].node
      /\ ~ stops => proc'[p].pc = "next" /\ proc'[p].node = proc[p].node + 1
  BY <1>0, <1>1 DEF Proc
<1>9. /\ file'.plan = plan /\ file'.verification = veri /\ file'.review = revi /\ file' \in StatusFile /\ proc'[p].copy = file'
      /\ \A k \in {"requests", "status"} : file'[k] = proc[p].copy[k]
  BY <1>1, <1>4, <1>8
<1>10. \/ /\ proc'[p].pc = "final" /\ proc'[p].node = proc[p].node
          /\ proc[p].result \in {"failed", "yielded"} \/ proc[p].node = Len(Kinds)
       \/ /\ proc'[p].pc = "next" /\ proc'[p].node = proc[p].node + 1 /\ proc'[p].node \in Node
          /\ proc[p].result \notin {"failed", "yielded"}
  BY <1>5, <1>6, <1>7, <1>8
<1>11. QED
  BY <1>1, <1>2, <1>8, <1>9, <1>10 DEF plan, veri, revi

\* The end of a run.
LEMMA EndEffect ==
  ASSUME IInv, NEW p \in Process
  PROVE  /\ finishRun(p) =>
              /\ proc[p].pc = "final" /\ worktree.present /\ UNCHANGED <<worktree, approvals, counters>>
              /\ file' \in StatusFile
              /\ \A k \in {"plan", "requests", "verification", "review"} : file'[k] = proc[p].copy[k]
              /\ file'.status = IF proc[p].copy.plan.status \in {"failed", "yielded"} THEN proc[p].copy.plan.status ELSE "completed"
              /\ \/ proc'[p].pc = "idle" /\ proc[p].scope = NoScope
                 \/ /\ proc'[p].pc = "applied" /\ proc'[p].copy = file' /\ proc[p].scope # NoScope
                    /\ \A k \in {"node", "scope", "verification", "review"} : proc'[p][k] = proc[p][k]
         /\ applyScope(p) =>
              /\ proc[p].pc = "applied" /\ UNCHANGED <<worktree, approvals, counters>> /\ proc'[p].pc = "idle"
              /\ file' = markScopeExpansionApplied(proc[p].copy, proc[p].scope.id)
         /\ missWorktree(p) =>
              /\ proc[p].pc \in {"final", "node"} /\ ~ worktree.present /\ proc'[p].pc = "idle"
              /\ UNCHANGED <<file, worktree, approvals, counters>>
         /\ writeEvidence(p) =>
              /\ proc[p].pc = "node" /\ UNCHANGED <<worktree, approvals, proc, counters>> /\ file' = proc[p].copy
<1>0. proc \in [Process -> Proc] /\ proc[p] \in Proc /\ proc[p].copy \in StatusFile
  BY ProcFields DEF IInv, TypeOK
<1>1. ASSUME Return(p)
      PROVE  proc'[p].pc = "idle"
  BY <1>0, <1>1 DEF Return, Idle
<1>2. applyScope(p) =>
        /\ proc[p].pc = "applied" /\ UNCHANGED <<worktree, approvals, counters>> /\ proc'[p].pc = "idle"
        /\ file' = markScopeExpansionApplied(proc[p].copy, proc[p].scope.id)
  BY <1>1 DEF applyScope
<1>3. missWorktree(p) =>
        /\ proc[p].pc \in {"final", "node"} /\ ~ worktree.present /\ proc'[p].pc = "idle"
        /\ UNCHANGED <<file, worktree, approvals, counters>>
  BY <1>1 DEF missWorktree
<1>4. writeEvidence(p) => /\ proc[p].pc = "node" /\ UNCHANGED <<worktree, approvals, proc, counters>> /\ file' = proc[p].copy
  BY DEF writeEvidence, Patching, Running
<1>5. ASSUME finishRun(p)
      PROVE  /\ proc[p].pc = "final" /\ worktree.present /\ UNCHANGED <<worktree, approvals, counters>>
             /\ file' \in StatusFile
             /\ \A k \in {"plan", "requests", "verification", "review"} : file'[k] = proc[p].copy[k]
             /\ file'.status = IF proc[p].copy.plan.status \in {"failed", "yielded"} THEN proc[p].copy.plan.status ELSE "completed"
             /\ \/ proc'[p].pc = "idle" /\ proc[p].scope = NoScope
                \/ /\ proc'[p].pc = "applied" /\ proc'[p].copy = file' /\ proc[p].scope # NoScope
                   /\ \A k \in {"node", "scope", "verification", "review"} : proc'[p][k] = proc[p][k]
  <2> DEFINE s == proc[p].copy.plan.status
             end == IF s \in {"failed", "yielded"} THEN s ELSE "completed"
             ses == CASE s = "failed" -> "failed" [] s = "yielded" -> "retained" [] OTHER -> "completed"
             status == [proc[p].copy EXCEPT !.exported = TRUE, !.status = end, !.session = ses]
  <2>1. /\ proc[p].pc = "final" /\ worktree.present /\ UNCHANGED <<worktree, approvals, counters>> /\ file' = status
        /\ IF proc[p].scope = NoScope THEN Return(p) ELSE proc'[p] = [proc[p] EXCEPT !.pc = "applied", !.copy = status]
    BY <1>0, <1>5 DEF finishRun
  <2>2. end \in PlanStatus /\ ses \in Session
    BY DEF PlanStatus, Session
  <2> HIDE DEF end, ses
  <2>3. /\ status \in StatusFile /\ status.status = end
        /\ \A k \in {"plan", "requests", "verification", "review"} : status[k] = proc[p].copy[k]
    BY <1>0, <2>2 DEF StatusFile
  <2> HIDE DEF status
  <2>4. proc[p].scope # NoScope =>
          /\ proc'[p].pc = "applied" /\ proc'[p].copy = status
          /\ \A k \in {"node", "scope", "verification", "review"} : proc'[p][k] = proc[p][k]
    BY <1>0, <2>1 DEF Proc
  <2>5. proc[p].scope = NoScope => proc'[p].pc = "idle"
    BY <1>1, <2>1
  <2>6. QED
    BY <2>1, <2>3, <2>4, <2>5 DEF end
<1>6. QED
  BY <1>2, <1>3, <1>4, <1>5

-----------------------------------------------------------------------------
(***************************************************************************)
(* Commands one at a time, none cut off.                                   *)
(***************************************************************************)
Quiet == overlaps = 0 /\ aborts = 0

\* Commands one at a time: at most one is in progress.
Alone == overlaps = 0 => \A p, q \in Process : proc[p].pc # "idle" /\ proc[q].pc # "idle" => p = q

\* A step belongs to a command in progress.
LEMMA StepIsBusy ==
  ASSUME IInv, NEW p \in Process, Step(p) \/ abort(p)
  PROVE  proc[p].pc # "idle" /\ UNCHANGED <<commands, overlaps>>
<1>1. proc[p].pc # "idle"
  BY DEF Step, readEnvelope, readDecision, startResumed, noteDecision, saveStatus, beginNode, runPlainNode, skipRepair,
        writeEvidence, generatePatchPlan, refusePatch, tearPatch, applyPatch, failPatch, runVerificationPolicy, runReview,
        failReview, createScopeExpansionApproval, recordEnvelope, markResult, enterRequest, finishRun, applyScope,
        missWorktree, abort, Patching, Running
<1>2. UNCHANGED <<commands, overlaps>>
  BY DEF Step, readEnvelope, readDecision, startResumed, noteDecision, saveStatus, beginNode, runPlainNode, skipRepair,
        writeEvidence, generatePatchPlan, refusePatch, tearPatch, applyPatch, failPatch, runVerificationPolicy, runReview,
        failReview, createScopeExpansionApproval, recordEnvelope, markResult, enterRequest, finishRun, applyScope,
        missWorktree, abort, counters
<1>3. QED
  BY <1>1, <1>2

\* With commands one at a time, a command begins when nothing is in progress.
LEMMA CommandAtRest ==
  ASSUME IInv, NEW p \in Process, Command(p), overlaps' = 0
  PROVE  AtRest /\ overlaps = 0 /\ aborts' = aborts
<1>1. /\ overlaps' = IF AtRest THEN overlaps ELSE overlaps + 1
      /\ aborts' = aborts
  BY DEF Command, applyRepositoryPlanfile, resumeRepositoryPlan, cleanupRepositoryPlan, decideScopeRequest, Begin
<1>2. overlaps \in Nat
  BY DEF IInv, TypeOK
<1>3. QED
  BY <1>1, <1>2

\* At most one command remains in progress.
LEMMA AloneStep ==
  ASSUME IInv, Alone, NEW p \in Process, Command(p) \/ Step(p) \/ abort(p)
  PROVE  Alone'
<1> SUFFICES ASSUME overlaps' = 0, NEW q \in Process, NEW s \in Process, proc'[q].pc # "idle", proc'[s].pc # "idle"
             PROVE  q = s
  BY DEF Alone
<1>1. \A u \in Process : u # p => proc'[u] = proc[u]
  BY ProcFrame
<1>2. CASE Command(p)
  <2>1. AtRest
    BY <1>2, CommandAtRest
  <2>2. QED
    BY <1>1, <2>1 DEF AtRest
<1>3. CASE Step(p) \/ abort(p)
  <2>1. overlaps = 0 /\ proc[p].pc # "idle"
    BY <1>3, StepIsBusy
  <2>2. QED
    BY <1>1, <2>1 DEF Alone
<1>4. QED
  BY <1>2, <1>3

\* The actions that neither begin a command nor cut one off.
Advance(p) ==
  \/ readEnvelope(p) \/ readDecision(p) \/ noteDecision(p) \/ saveStatus(p)
  \/ startResumed(p) \/ beginNode(p) \/ NodeEnds(p) \/ writeEvidence(p)
  \/ \E r \in Request, c \in Content : createScopeExpansionApproval(p, r, c)
  \/ recordEnvelope(p) \/ (\E given \in {"pending_approval", "expired"} : enterRequest(p, given))
  \/ markResult(p) \/ finishRun(p) \/ applyScope(p) \/ missWorktree(p)

\* In quiet use a step is that of the only command in progress.
LEMMA QuietFrame ==
  ASSUME IInv, Alone, NEW p \in Process, Command(p) \/ Step(p) \/ abort(p), Quiet'
  PROVE  /\ Quiet /\ (Command(p) \/ Advance(p))
         /\ \A q \in Process : q # p => proc[q].pc = "idle" /\ proc'[q] = proc[q]
         /\ AtRest' <=> proc'[p].pc = "idle"
         /\ Command(p) => AtRest
         /\ Advance(p) => proc[p].pc # "idle"
<1>0. aborts \in Nat
  BY DEF IInv, TypeOK
<1>1. \A q \in Process : q # p => proc'[q] = proc[q]
  BY ProcFrame
<1>2. ~ abort(p) /\ \A c : ~ tearPatch(p, c)
  BY <1>0 DEF abort, tearPatch, Quiet
<1>3. Command(p) \/ (Step(p) /\ Advance(p))
  BY <1>2 DEF Step, Advance, NodeEnds
<1>4. CASE Command(p)
  <2>1. AtRest /\ Quiet
    BY <1>4, CommandAtRest DEF Quiet
  <2>2. ~ Advance(p)
    <3>1. proc[p].pc = "idle"
      BY <2>1 DEF AtRest
    <3>2. QED
      BY <3>1 DEF Advance, NodeEnds, readEnvelope, readDecision, startResumed, noteDecision, saveStatus, beginNode, runPlainNode, skipRepair,
        writeEvidence, generatePatchPlan, refusePatch, applyPatch, failPatch, runVerificationPolicy, runReview,
        failReview, createScopeExpansionApproval, recordEnvelope, markResult, enterRequest, finishRun, applyScope,
        missWorktree, Patching, Running
  <2>3. QED
    BY <1>1, <1>4, <2>1, <2>2 DEF AtRest
<1>5. CASE Step(p) /\ Advance(p)
  <2>1. proc[p].pc # "idle" /\ overlaps = 0
    BY <1>5, StepIsBusy DEF Quiet
  <2>2. aborts = 0
    BY <1>5, <1>2 DEF Quiet, Advance, NodeEnds, readEnvelope, readDecision, startResumed, noteDecision, saveStatus, beginNode,
        runPlainNode, skipRepair,
        writeEvidence, generatePatchPlan, refusePatch, applyPatch, failPatch, runVerificationPolicy, runReview,
        failReview, createScopeExpansionApproval, recordEnvelope, markResult, enterRequest, finishRun, applyScope,
        missWorktree, counters
  <2>3. ~ Command(p)
    BY <2>1 DEF Command, applyRepositoryPlanfile, resumeRepositoryPlan, cleanupRepositoryPlan, decideScopeRequest, Begin
  <2>4. \A q \in Process : q # p => proc[q].pc = "idle"
    BY <2>1 DEF Alone
  <2>5. QED
    BY <1>1, <1>5, <2>1, <2>2, <2>3, <2>4 DEF Quiet, AtRest
<1>6. QED
  BY <1>3, <1>4, <1>5

-----------------------------------------------------------------------------
(***************************************************************************)
(* The status file against the approval tables.                            *)
(***************************************************************************)
\* The envelopes, and the ids of the requests a file lists.
Tables == [Request -> Body \cup {NoBody}]
Ids(f) == [i \in DOMAIN f.requests |-> f.requests[i].id]

\* The entries of f say what the rows rw and the envelopes env say, but for the contents and
\* the decision of request x and the decision on request y.
Good(f, rw, env, x, y) ==
  /\ \A i \in DOMAIN f.requests :
       f.requests[i].approval = "approved" <=> f.requests[i].status \in {"approved", "applied"}
  /\ IsInjective(Ids(f)) => \A i \in DOMAIN f.requests :
       f.requests[i].id # x =>
         /\ f.requests[i].content = env[f.requests[i].id]
         /\ f.requests[i].id # y /\ f.requests[i].status = "approved" => rw[f.requests[i].id].decision = "approved"

\* The entries decide.
LEMMA GoodSame ==
  ASSUME NEW f, NEW g, NEW rw, NEW env, NEW x, NEW y, Good(f, rw, env, x, y), g.requests = f.requests
  PROVE  Good(g, rw, env, x, y)
BY DEF Good, Ids

\* A file without entries.
LEMMA GoodEmpty ==
  ASSUME NEW f, NEW rw, NEW env, NEW x, NEW y, f.requests = <<>>
  PROVE  Good(f, rw, env, x, y)
<1>1. DOMAIN f.requests = {}
  OBVIOUS
<1>2. QED
  BY <1>1 DEF Good

\* The entries of a request are brought in line with a decision.
LEMMA GoodMarked ==
  ASSUME NEW f \in StatusFile, NEW rw, NEW env, NEW id, NEW d \in {"approved", "rejected"},
         Good(f, rw, env, "none", id), d = "approved" => rw[id].decision = "approved"
  PROVE  Good(updateScopeStatus(f, id, d), rw, env, "none", "none")
<1> DEFINE g == updateScopeStatus(f, id, d)
<1>1. /\ DOMAIN g.requests = DOMAIN f.requests
      /\ \A i \in DOMAIN f.requests :
           /\ g.requests[i].id = f.requests[i].id /\ g.requests[i].content = f.requests[i].content
           /\ f.requests[i].id # id => g.requests[i] = f.requests[i]
           /\ f.requests[i].id = id => g.requests[i].status = d /\ g.requests[i].approval = d
  BY MarkedEntries
<1> HIDE DEF g
<1>2. IsInjective(Ids(g)) => IsInjective(Ids(f))
  BY <1>1 DEF IsInjective, Ids
<1>3. Good(g, rw, env, "none", "none")
  BY <1>1, <1>2 DEF Good
<1>4. QED
  BY <1>3 DEF g

\* The entries of a request are used up.
LEMMA GoodApplied ==
  ASSUME NEW f \in StatusFile, NEW rw, NEW env, NEW id, Good(f, rw, env, "none", "none")
  PROVE  Good(markScopeExpansionApplied(f, id), rw, env, "none", "none")
<1> DEFINE g == markScopeExpansionApplied(f, id)
<1>1. /\ DOMAIN g.requests = DOMAIN f.requests
      /\ \A i \in DOMAIN f.requests :
           /\ g.requests[i].id = f.requests[i].id /\ g.requests[i].content = f.requests[i].content
           /\ f.requests[i].id # id => g.requests[i] = f.requests[i]
           /\ f.requests[i].id = id => g.requests[i].status = "applied" /\ g.requests[i].approval = "approved"
  <2>1. "approved" \in {"approved", "rejected"}
    OBVIOUS
  <2>2. QED
    BY <2>1, MarkedEntries
<1> HIDE DEF g
<1>2. IsInjective(Ids(g)) => IsInjective(Ids(f))
  BY <1>1 DEF IsInjective, Ids
<1>3. Good(g, rw, env, "none", "none")
  BY <1>1, <1>2 DEF Good
<1>4. QED
  BY <1>3 DEF g

\* A request is entered under its envelope.
LEMMA GoodEntered ==
  ASSUME NEW f \in StatusFile, NEW g, NEW rw, NEW env, NEW e \in Entry, Good(f, rw, env, e.id, "none"),
         env[e.id] = e.content, e.approval = "requested", e.status \in {"pending_approval", "expired"},
         g.requests = Append(f.requests, e)
  PROVE  Good(g, rw, env, "none", "none")
<1>1. /\ f.requests \in Seq(Entry) /\ Len(f.requests) \in Nat /\ DOMAIN f.requests = 1 .. Len(f.requests)
  BY FileFields
<1>2. /\ DOMAIN g.requests = 1 .. (Len(f.requests) + 1) /\ g.requests[Len(f.requests) + 1] = e
      /\ \A i \in 1 .. Len(f.requests) : g.requests[i] = f.requests[i]
  BY <1>1
<1>3. \A i \in DOMAIN g.requests : i \in DOMAIN f.requests \/ i = Len(f.requests) + 1
  BY <1>1, <1>2
<1>4. \A i \in DOMAIN f.requests : i \in DOMAIN g.requests /\ i # Len(f.requests) + 1 /\ g.requests[i] = f.requests[i]
  BY <1>1, <1>2
<1>5. Len(f.requests) + 1 \in DOMAIN g.requests
  BY <1>1, <1>2
<1>6. ASSUME IsInjective(Ids(g))
      PROVE  /\ IsInjective(Ids(f))
             /\ \A i \in DOMAIN f.requests : f.requests[i].id # e.id
  <2>1. \A i, j \in DOMAIN g.requests : g.requests[i].id = g.requests[j].id => i = j
    BY <1>6 DEF IsInjective, Ids
  <2>2. \A i, j \in DOMAIN f.requests : f.requests[i].id = f.requests[j].id => i = j
    BY <1>4, <2>1
  <2>3. \A i \in DOMAIN f.requests : f.requests[i].id # e.id
    BY <1>2, <1>4, <1>5, <2>1
  <2>4. QED
    BY <2>2, <2>3 DEF IsInjective, Ids
<1>7. \A i \in DOMAIN g.requests :
        g.requests[i].approval = "approved" <=> g.requests[i].status \in {"approved", "applied"}
  BY <1>2, <1>3, <1>4 DEF Good
<1>8. ASSUME IsInjective(Ids(g)), NEW i \in DOMAIN g.requests
      PROVE  /\ g.requests[i].content = env[g.requests[i].id]
             /\ g.requests[i].status = "approved" => rw[g.requests[i].id].decision = "approved"
  <2>1. CASE i = Len(f.requests) + 1
    BY <1>2, <2>1
  <2>2. CASE i \in DOMAIN f.requests
    <3>1. f.requests[i].id # e.id /\ IsInjective(Ids(f)) /\ g.requests[i] = f.requests[i]
      BY <1>4, <1>6, <1>8, <2>2
    <3>2. f.requests[i].id # "none"
      <4>1. f.requests[i] \in Entry
        BY <1>1, <2>2
      <4>2. f.requests[i].id \in Request
        BY <4>1 DEF Entry
      <4>3. QED
        BY <4>2, ConstantsAssumption
    <3>3. QED
      BY <2>2, <3>1, <3>2 DEF Good
  <2>3. QED
    BY <1>3, <1>8, <2>1, <2>2
<1>9. QED
  BY <1>7, <1>8 DEF Good

\* What a command in progress knows.
Now(q) ==
  /\ q.pc \in {"envelope", "decision"} => Good(file, row, envelope, "none", "none")
  /\ q.pc = "decision" => q.scope = [id |-> q.asked.id, content |-> envelope[q.asked.id]]
  /\ q.pc \in InRun \cup {"start"} /\ q.scope # NoScope => q.scope \in granted
  /\ q.pc \in InRun => q.copy = file
  /\ q.pc \in {"start", "save", "next", "node", "mark", "final", "applied"} =>
       Good(q.copy, row, envelope, "none", "none")
  /\ q.pc \in {"attach", "enter"} =>
       /\ Good(q.copy, row, envelope, q.asked.id, "none")
       /\ row[q.asked.id] = [decision |-> "requested", content |-> q.asked.content]
  /\ q.pc = "note" => /\ Good(file, row, envelope, "none", q.scope.id)
                      /\ row[q.scope.id].decision = q.decision

\* The tables agree but for a request in the making, the file agrees with the tables, and
\* the worktree has the scopes that were granted.
Consistent ==
  /\ \A r \in Request : \/ row[r].content = envelope[r]
                        \/ \E p \in Process : proc[p].pc = "attach" /\ proc[p].asked.id = r
  /\ AtRest => Good(file, row, envelope, "none", "none")
  /\ \A p \in Process : proc[p].pc # "idle" => Now(proc[p])
  /\ worktree.scopes \subseteq granted

\* Nothing has happened yet.
LEMMA ConsistentInit == Init => Consistent
<1> SUFFICES ASSUME Init PROVE Consistent
  OBVIOUS
<1>1. \A p \in Process : proc[p].pc = "idle"
  BY DEF Init, Idle
<1>2. \A r \in Request : row[r].content = envelope[r]
  BY DEF Init
<1>3. file.requests = <<>>
  BY DEF Init, createRepositoryPlanStatus
<1>4. Good(file, row, envelope, "none", "none")
  BY <1>3, GoodEmpty
<1>5. worktree.scopes \subseteq granted
  BY DEF Init
<1>6. QED
  BY <1>1, <1>2, <1>4, <1>5 DEF Consistent

\* A step in quiet use keeps the file and the tables in agreement.
LEMMA ConsistentStep ==
  ASSUME IInv, IInv', Alone, Granted, Quiet => Consistent, NEW p \in Process, Command(p) \/ Step(p) \/ abort(p), Quiet'
  PROVE  Consistent'
<1>0. /\ Quiet /\ (Command(p) \/ Advance(p)) /\ Consistent
      /\ \A q \in Process : q # p => proc[q].pc = "idle" /\ proc'[q] = proc[q]
      /\ AtRest' <=> proc'[p].pc = "idle"
      /\ Command(p) => AtRest
      /\ Advance(p) => proc[p].pc # "idle"
  BY QuietFrame
<1>1. /\ file \in StatusFile /\ row \in Rows /\ envelope \in Tables /\ Shape(proc[p]) /\ proc[p].copy \in StatusFile
      /\ proc[p].scope \in Scope
  BY ProcFields DEF IInv, TypeOK, Rows, Tables
<1>2. granted \subseteq granted'
  BY TablesStep DEF approvals, decideScopeRequest, createScopeExpansionApproval, recordEnvelope
<1>3. ASSUME \A r \in Request : row'[r].content = envelope'[r] \/ (proc'[p].pc = "attach" /\ proc'[p].asked.id = r),
             proc'[p].pc = "idle" => Good(file', row', envelope', "none", "none"),
             proc'[p].pc # "idle" => Now(proc[p])'
      PROVE  Consistent'
  <2>1. worktree'.scopes \subseteq granted'
    <3>1. CASE worktree'.scopes \subseteq worktree.scopes
      BY <1>0, <1>2, <3>1 DEF Consistent
    <3>2. CASE /\ proc[p].pc = "node" /\ proc[p].scope # NoScope
               /\ worktree'.scopes \subseteq worktree.scopes \cup {proc[p].scope}
      <4>1. proc[p].scope \in granted
        BY <1>0, <3>2 DEF Consistent, Now, InRun
      <4>2. QED
        BY <1>0, <1>2, <3>2, <4>1 DEF Consistent
    <3>3. QED
      BY <3>1, <3>2, ScopesGrow
  <2>2. \A q \in Process : proc'[q].pc # "idle" => Now(proc[q])'
    BY <1>0, <1>3
  <2>3. AtRest' => Good(file', row', envelope', "none", "none")
    BY <1>0, <1>3
  <2>4. \A r \in Request : \/ row'[r].content = envelope'[r]
                           \/ \E q \in Process : proc'[q].pc = "attach" /\ proc'[q].asked.id = r
    BY <1>3
  <2>5. QED
    BY <2>1, <2>2, <2>3, <2>4 DEF Consistent
<1>4. \A r \in Request : row[r].content = envelope[r] \/ (proc[p].pc = "attach" /\ proc[p].asked.id = r)
  BY <1>0 DEF Consistent
<1>5. proc[p].pc # "idle" => Now(proc[p])
  BY <1>0 DEF Consistent
<1>6. proc[p].pc = "idle" => Good(file, row, envelope, "none", "none") /\ \A r \in Request : row[r].content = envelope[r]
  BY <1>0, <1>4 DEF Consistent, AtRest
<1>7. ASSUME UNCHANGED approvals, proc[p].pc # "attach"
      PROVE  \A r \in Request : row'[r].content = envelope'[r]
  BY <1>4, <1>7 DEF approvals
<1>8. CASE applyRepositoryPlanfile(p)
  <2>1. /\ UNCHANGED approvals /\ proc[p].pc = "idle" /\ file'.requests = <<>> /\ proc'[p].pc = "next"
        /\ proc'[p].copy = file' /\ proc'[p].scope = NoScope
    BY <1>8, ApplyEffect
  <2>2. Good(proc'[p].copy, row', envelope', "none", "none")
    BY <2>1, GoodEmpty
  <2>3. Now(proc[p])'
    BY <2>1, <2>2 DEF Now
  <2>4. QED
    BY <1>3, <1>7, <2>1, <2>3
<1>9. CASE resumeRepositoryPlan(p)
  <2>1. UNCHANGED <<file, approvals>> /\ proc[p].pc = "idle" /\ proc'[p].pc = "envelope"
    BY <1>9, ResumeEffect
  <2>2. Now(proc[p])'
    BY <1>6, <2>1 DEF Now, InRun, approvals
  <2>3. QED
    BY <1>3, <1>7, <2>1, <2>2
<1>10. CASE cleanupRepositoryPlan(p)
  <2>1. UNCHANGED <<file, approvals>> /\ proc[p].pc = "idle" /\ proc'[p].pc = "save" /\ proc'[p].copy.requests = file.requests
    BY <1>10, CleanupEffect
  <2>2. Good(proc'[p].copy, row', envelope', "none", "none")
    BY <1>6, <2>1, GoodSame DEF approvals
  <2>3. Now(proc[p])'
    BY <2>1, <2>2 DEF Now, InRun
  <2>4. QED
    BY <1>3, <1>7, <2>1, <2>3
<1>11. ASSUME NEW r \in Request, NEW d \in {"approved", "rejected"}, decideScopeRequest(p, r, d)
       PROVE  Consistent'
  <2>1. /\ proc[p].pc = "idle" /\ UNCHANGED <<file, envelope>>
        /\ row'[r].decision = d /\ row'[r].content = row[r].content
        /\ \A u \in Request : u # r => row'[u] = row[u]
        /\ proc'[p].pc = "note" /\ proc'[p].scope = [id |-> r, content |-> row[r].content] /\ proc'[p].decision = d
    BY <1>11, DecideEffect
  <2>2. Good(file, row, envelope, "none", "none")
    BY <1>6, <2>1
  <2>3. \A i \in DOMAIN file.requests : file.requests[i].id \in Request /\ file.requests[i].id # "none"
    <3>1. \A i \in DOMAIN file.requests : file.requests[i] \in Entry
      BY <1>1, FileFields
    <3>2. QED
      BY <3>1, ConstantsAssumption DEF Entry
  <2>4. Good(file', row', envelope', "none", r)
    BY <2>1, <2>2, <2>3 DEF Good, Ids
  <2>5. Now(proc[p])'
    BY <2>1, <2>4 DEF Now, InRun
  <2>6. \A u \in Request : row'[u].content = envelope'[u]
    BY <1>6, <2>1
  <2>7. QED
    BY <1>3, <2>1, <2>5, <2>6
<1>12. CASE readEnvelope(p)
  <2>1. /\ proc[p].pc = "envelope" /\ UNCHANGED <<file, approvals>>
        /\ \/ proc'[p].pc = "idle"
           \/ /\ proc'[p].pc = "decision" /\ proc'[p].asked = proc[p].asked
              /\ proc'[p].scope = [id |-> proc[p].asked.id, content |-> envelope[proc[p].asked.id]]
    BY <1>12, ResumeChecks
  <2>2. Good(file', row', envelope', "none", "none")
    BY <1>5, <2>1 DEF Now, approvals
  <2>3. proc'[p].pc # "idle" => Now(proc[p])'
    BY <2>1, <2>2 DEF Now, InRun, approvals
  <2>4. QED
    BY <1>3, <1>7, <2>1, <2>2, <2>3
<1>13. CASE readDecision(p)
  <2>1. /\ proc[p].pc = "decision" /\ UNCHANGED <<file, approvals>>
        /\ \/ proc'[p].pc = "idle"
           \/ /\ proc'[p].pc = "start" /\ proc'[p].scope = proc[p].scope
              /\ proc'[p].copy = updateScopeStatus(file, proc[p].scope.id, "approved")
              /\ proc[p].asked = proc[p].scope /\ row[proc[p].scope.id].decision = "approved"
    BY <1>13, ResumeChecks
  <2>2. Good(file, row, envelope, "none", "none") /\ proc[p].scope \in Asked
        /\ proc[p].scope = [id |-> proc[p].asked.id, content |-> envelope[proc[p].asked.id]]
    BY <1>1, <1>5, <2>1 DEF Now, Shape
  <2>3. ASSUME proc'[p].pc # "idle"
        PROVE  Now(proc[p])'
    <3>1. proc[p].scope.id \in Request /\ row[proc[p].scope.id].content = envelope[proc[p].scope.id]
      BY <1>4, <2>1, <2>2 DEF Asked
    <3>2. proc[p].scope = [id |-> proc[p].scope.id, content |-> row[proc[p].scope.id].content]
      BY <2>1, <2>2, <2>3, <3>1
    <3>3. proc[p].scope \in granted
      BY <2>1, <2>3, <3>1, <3>2 DEF Granted
    <3>4. Good(file, row, envelope, "none", proc[p].scope.id)
      BY <2>2 DEF Good
    <3>5. Good(proc'[p].copy, row, envelope, "none", "none")
      BY <1>1, <2>1, <2>3, <3>4, GoodMarked
    <3>6. QED
      BY <1>2, <2>1, <2>3, <3>3, <3>5 DEF Now, InRun, approvals
  <2>4. QED
    BY <1>3, <1>7, <2>1, <2>2, <2>3 DEF approvals
<1>14. CASE noteDecision(p)
  <2>1. /\ proc[p].pc = "note" /\ UNCHANGED <<file, approvals>>
        /\ \/ proc'[p].pc = "idle" /\ envelope[proc[p].scope.id] = NoBody
           \/ /\ proc'[p].pc = "save"
              /\ proc'[p].copy = updateScopeStatus(file, proc[p].scope.id, proc[p].decision)
    BY <1>14, ResumeChecks
  <2>2. /\ Good(file, row, envelope, "none", proc[p].scope.id) /\ row[proc[p].scope.id].decision = proc[p].decision
        /\ proc[p].decision \in {"approved", "rejected"} /\ proc[p].scope.id \in Request
    BY <1>1, <1>5, <2>1 DEF Now, Shape, Asked
  <2>3. envelope[proc[p].scope.id] # NoBody
    <3>1. row[proc[p].scope.id].content \in Body /\ row[proc[p].scope.id].content = envelope[proc[p].scope.id]
      BY <1>4, <2>1, <2>2 DEF IInv
    <3>2. NoBody \notin Body
      BY Nodes DEF Body, NoBody
    <3>3. QED
      BY <3>1, <3>2
  <2>4. Good(proc'[p].copy, row, envelope, "none", "none")
    BY <1>1, <2>1, <2>2, <2>3, GoodMarked
  <2>5. Now(proc[p])'
    BY <2>1, <2>3, <2>4 DEF Now, InRun, approvals
  <2>6. QED
    BY <1>3, <1>7, <2>1, <2>3, <2>5
<1>15. CASE saveStatus(p)
  <2>1. proc[p].pc = "save" /\ UNCHANGED approvals /\ file' = proc[p].copy /\ proc'[p].pc = "idle"
    BY <1>15, ResumeChecks
  <2>2. Good(file', row', envelope', "none", "none")
    BY <1>5, <2>1 DEF Now, approvals
  <2>3. QED
    BY <1>3, <1>7, <2>1, <2>2
<1>16. CASE startResumed(p) \/ beginNode(p)
  <2>1. /\ UNCHANGED approvals /\ proc'[p].copy = file' /\ file'.requests = proc[p].copy.requests
        /\ proc'[p].scope = proc[p].scope /\ proc[p].pc \in {"start", "next"} /\ proc'[p].pc \in {"next", "node"}
    BY <1>16, BeginEffect
  <2>2. Good(proc[p].copy, row, envelope, "none", "none") /\ (proc[p].scope # NoScope => proc[p].scope \in granted)
    BY <1>5, <2>1 DEF Now, InRun
  <2>3. Good(file', row, envelope, "none", "none")
    BY <2>1, <2>2, GoodSame
  <2>4. Now(proc[p])'
    BY <2>1, <2>2, <2>3 DEF Now, InRun, approvals
  <2>5. QED
    BY <1>3, <1>7, <2>1, <2>4
<1>17. CASE NodeEnds(p)
  <2>1. /\ proc[p].pc = "node" /\ UNCHANGED <<file, approvals>> /\ proc'[p].pc = "mark"
        /\ proc'[p].copy = proc[p].copy /\ proc'[p].scope = proc[p].scope
    BY <1>17, NodeEndEffect
  <2>2. Now(proc[p])'
    BY <1>5, <2>1 DEF Now, InRun, approvals
  <2>3. QED
    BY <1>3, <1>7, <2>1, <2>2
<1>18. CASE writeEvidence(p)
  <2>1. proc[p].pc = "node" /\ UNCHANGED <<approvals, proc>> /\ file' = proc[p].copy
    BY <1>18, EndEffect
  <2>2. Now(proc[p])'
    BY <1>5, <2>1 DEF Now, InRun, approvals
  <2>3. QED
    BY <1>3, <1>7, <2>1, <2>2
<1>19. ASSUME NEW r \in Request, NEW c \in Content, createScopeExpansionApproval(p, r, c)
       PROVE  Consistent'
  <2> DEFINE body == [files |-> c, node |-> proc[p].node]
  <2>1. /\ proc[p].pc = "node" /\ UNCHANGED <<file, envelope, granted>>
        /\ proc'[p].pc = "attach" /\ proc'[p].asked = [id |-> r, content |-> body]
        /\ proc'[p].copy = proc[p].copy /\ proc'[p].scope = proc[p].scope
        /\ row'[r] = [decision |-> "requested", content |-> body]
        /\ \A u \in Request : u # r => row'[u] = row[u]
    BY <1>19, RequestEffect
  <2> HIDE DEF body
  <2>2. Good(proc[p].copy, row, envelope, "none", "none")
    BY <1>5, <2>1 DEF Now
  <2>3. \A i \in DOMAIN proc[p].copy.requests : proc[p].copy.requests[i].id \in Request /\ proc[p].copy.requests[i].id # "none"
    <3>1. \A i \in DOMAIN proc[p].copy.requests : proc[p].copy.requests[i] \in Entry
      BY <1>1, FileFields
    <3>2. QED
      BY <3>1, ConstantsAssumption DEF Entry
  <2>4. Good(proc[p].copy, row', envelope, r, "none")
    BY <2>1, <2>2, <2>3 DEF Good
  <2>5. Now(proc[p])'
    BY <1>5, <2>1, <2>4 DEF Now, InRun
  <2>6. \A u \in Request : row'[u].content = envelope'[u] \/ (proc'[p].pc = "attach" /\ proc'[p].asked.id = u)
    BY <1>4, <2>1
  <2>7. QED
    BY <1>3, <2>1, <2>5, <2>6
<1>20. CASE recordEnvelope(p)
  <2> DEFINE r == proc[p].asked.id
  <2>1. /\ proc[p].pc = "attach" /\ UNCHANGED <<file, row, granted>> /\ proc[p].asked \in Asked
        /\ envelope'[r] = proc[p].asked.content /\ \A u \in Request : u # r => envelope'[u] = envelope[u]
        /\ proc'[p].pc = "enter" /\ proc'[p].asked = proc[p].asked
        /\ proc'[p].copy = proc[p].copy /\ proc'[p].scope = proc[p].scope
    BY <1>20, RequestEffect
  <2>2. r \in Request
    BY <2>1 DEF Asked
  <2> HIDE DEF r
  <2>3. /\ Good(proc[p].copy, row, envelope, r, "none")
        /\ row[r] = [decision |-> "requested", content |-> proc[p].asked.content]
    BY <1>5, <2>1 DEF Now, r
  <2>4. \A i \in DOMAIN proc[p].copy.requests : proc[p].copy.requests[i].id \in Request
    <3>1. \A i \in DOMAIN proc[p].copy.requests : proc[p].copy.requests[i] \in Entry
      BY <1>1, FileFields
    <3>2. QED
      BY <3>1 DEF Entry
  <2>5. Good(proc[p].copy, row, envelope', r, "none")
    BY <2>1, <2>3, <2>4 DEF Good
  <2>6. Now(proc[p])'
    BY <1>5, <2>1, <2>3, <2>5 DEF Now, InRun, r
  <2>7. \A u \in Request : row'[u].content = envelope'[u]
    BY <1>4, <2>1, <2>3 DEF r
  <2>8. QED
    BY <1>3, <2>1, <2>6, <2>7
<1>21. ASSUME NEW given \in {"pending_approval", "expired"}, enterRequest(p, given)
       PROVE  Consistent'
  <2> DEFINE e == [id |-> proc[p].asked.id, content |-> proc[p].asked.content, status |-> given, approval |-> "requested"]
  <2>1. /\ proc[p].pc = "enter" /\ UNCHANGED approvals /\ proc[p].asked \in Asked
        /\ proc'[p].pc = "mark" /\ proc'[p].copy = file' /\ proc'[p].scope = proc[p].scope
        /\ file'.requests = Append(proc[p].copy.requests, e)
    BY <1>21, RequestEffect
  <2>2. /\ Good(proc[p].copy, row, envelope, proc[p].asked.id, "none")
        /\ row[proc[p].asked.id] = [decision |-> "requested", content |-> proc[p].asked.content]
    BY <1>5, <2>1 DEF Now
  <2>3. e \in Entry /\ e.id = proc[p].asked.id /\ e.content = proc[p].asked.content /\ e.status = given /\ e.approval = "requested"
    BY <2>1 DEF Asked, Entry, RequestStatus
  <2> HIDE DEF e
  <2>4. envelope[e.id] = e.content
    BY <1>4, <2>1, <2>2, <2>3 DEF Asked
  <2>5. Good(file', row, envelope, "none", "none")
    BY <1>1, <2>1, <2>2, <2>3, <2>4, GoodEntered
  <2>6. Now(proc[p])'
    BY <1>5, <2>1, <2>5 DEF Now, InRun, approvals
  <2>7. QED
    BY <1>3, <1>7, <2>1, <2>6
<1>22. CASE markResult(p)
  <2>1. /\ proc[p].pc = "mark" /\ UNCHANGED approvals /\ proc'[p].copy = file' /\ file'.requests = proc[p].copy.requests
        /\ proc'[p].scope = proc[p].scope /\ proc'[p].pc \in {"final", "next"}
    BY <1>22, MarkEffect
  <2>2. Good(file', row, envelope, "none", "none")
    BY <1>5, <2>1, GoodSame DEF Now
  <2>3. Now(proc[p])'
    BY <1>5, <2>1, <2>2 DEF Now, InRun, approvals
  <2>4. QED
    BY <1>3, <1>7, <2>1, <2>3
<1>23. CASE finishRun(p)
  <2>1. /\ proc[p].pc = "final" /\ UNCHANGED approvals /\ file'.requests = proc[p].copy.requests
        /\ \/ proc'[p].pc = "idle"
           \/ proc'[p].pc = "applied" /\ proc'[p].copy = file' /\ proc'[p].scope = proc[p].scope
    BY <1>23, EndEffect
  <2>2. Good(file', row', envelope', "none", "none")
    BY <1>5, <2>1, GoodSame DEF Now, approvals
  <2>3. proc'[p].pc # "idle" => Now(proc[p])'
    BY <1>5, <2>1, <2>2 DEF Now, InRun, approvals
  <2>4. QED
    BY <1>3, <1>7, <2>1, <2>2, <2>3
<1>24. CASE applyScope(p)
  <2>1. /\ proc[p].pc = "applied" /\ UNCHANGED approvals /\ proc'[p].pc = "idle"
        /\ file' = markScopeExpansionApplied(proc[p].copy, proc[p].scope.id)
    BY <1>24, EndEffect
  <2>2. Good(file', row', envelope', "none", "none")
    BY <1>1, <1>5, <2>1, GoodApplied DEF Now, approvals
  <2>3. QED
    BY <1>3, <1>7, <2>1, <2>2
<1>25. CASE missWorktree(p)
  <2>1. proc[p].pc \in {"final", "node"} /\ UNCHANGED <<file, approvals>> /\ proc'[p].pc = "idle"
    BY <1>25, EndEffect
  <2>2. Good(file', row', envelope', "none", "none")
    BY <1>5, <2>1 DEF Now, InRun, approvals
  <2>3. QED
    BY <1>3, <1>7, <2>1, <2>2
<1>26. QED
  BY <1>0, <1>8, <1>9, <1>10, <1>11, <1>12, <1>13, <1>14, <1>15, <1>16, <1>17, <1>18, <1>19, <1>20, <1>21, <1>22, <1>23, <1>24,
     <1>25 DEF Command, Advance

\* Everything about the approvals.
ApprovalInv == IInv /\ Granted /\ Alone /\ (Quiet => Consistent)

\* It holds in every state.
LEMMA ApprovalsKept ==
  /\ Init => ApprovalInv
  /\ ApprovalInv /\ [Next]_vars => ApprovalInv'
<1>1. Init => ApprovalInv
  <2> SUFFICES ASSUME Init PROVE ApprovalInv
    OBVIOUS
  <2>1. \A p \in Process : proc[p].pc = "idle"
    BY DEF Init, Idle
  <2>2. QED
    BY <2>1, InitInv, GrantedInit, ConsistentInit DEF ApprovalInv, Alone
<1>2. ASSUME ApprovalInv, [Next]_vars
      PROVE  ApprovalInv'
  <2>1. CASE UNCHANGED vars
    <3>1. IInv'
      BY <1>2, InvStep DEF ApprovalInv
    <3>2. Granted' /\ Alone'
      BY <1>2, <2>1 DEF ApprovalInv, vars, Granted, Alone, ScopeNeedsApproval
    <3>3. Quiet' => Consistent'
      BY <1>2, <2>1 DEF ApprovalInv, vars, Quiet, Consistent, Now, AtRest
    <3>4. QED
      BY <3>1, <3>2, <3>3 DEF ApprovalInv
  <2>2. ASSUME NEW p \in Process, Command(p) \/ Step(p) \/ abort(p)
        PROVE  ApprovalInv'
    <3>1. IInv'
      BY <1>2, InvStep DEF ApprovalInv
    <3>2. Granted' /\ Alone'
      BY <1>2, <2>2, GrantedStep, AloneStep DEF ApprovalInv
    <3>3. Quiet' => Consistent'
      BY <1>2, <2>2, <3>1, ConsistentStep DEF ApprovalInv
    <3>4. QED
      BY <3>1, <3>2, <3>3 DEF ApprovalInv
  <2>3. QED
    BY <1>2, <2>1, <2>2 DEF Next
<1>3. QED
  BY <1>1, <1>2

\* A request that the file shows as approved passes the checks of resume.
LEMMA ApprovedPasses == ApprovalInv => ApprovedCanResume
<1> SUFFICES ASSUME ApprovalInv, OneAtATime, aborts = 0, AtRest, IsInjective(Ids(file)),
                    NEW i \in DOMAIN file.requests, file.requests[i].status = "approved"
             PROVE  \/ pendingEntry(file).status = "pending_approval"
                    \/ /\ row[pendingEntry(file).id] = [decision |-> "approved", content |-> pendingEntry(file).content]
                       /\ envelope[pendingEntry(file).id] = pendingEntry(file).content
  BY DEF ApprovedCanResume, Ids
<1>1. IInv /\ Consistent /\ Good(file, row, envelope, "none", "none") /\ file \in StatusFile /\ row \in Rows
  BY DEF ApprovalInv, Quiet, OneAtATime, Consistent, IInv, TypeOK, Rows
<1>2. i \in resumable(file)
  BY <1>1 DEF Good, resumable
<1>3. PICK j \in resumable(file) : pendingEntry(file) = file.requests[j] /\ pendingEntry(file) \in Entry
  BY <1>1, <1>2, PickedEntry
<1> DEFINE e == pendingEntry(file)
<1>4. /\ j \in DOMAIN file.requests /\ e.status # "applied"
      /\ e.status = "pending_approval" \/ e.approval = "approved"
      /\ e = file.requests[j] /\ e \in Entry
  BY <1>3 DEF resumable
<1> HIDE DEF e
<1>5. e.id \in Request /\ e.id # "none"
  BY <1>4, ConstantsAssumption DEF Entry
<1>6. CASE e.status # "pending_approval"
  <2>1. e.status = "approved"
    BY <1>1, <1>4, <1>6 DEF Good
  <2>2. e.content = envelope[e.id] /\ row[e.id].decision = "approved"
    BY <1>1, <1>4, <1>5, <2>1 DEF Good
  <2>3. row[e.id].content = envelope[e.id]
    BY <1>1, <1>5 DEF Consistent, AtRest
  <2>4. row[e.id] = [decision |-> "approved", content |-> e.content]
    BY <1>1, <1>5, <2>2, <2>3 DEF Rows
  <2>5. QED
    BY <2>2, <2>4 DEF e
<1>7. QED
  BY <1>6 DEF e

\* repository/scope-expansion-resume.ts: whatever commands overlap and wherever they are cut off, a
\* scope changes the worktree only after its request was approved; with commands one at a time and
\* none cut off it is the very scope approved, and an approved request can be resumed.
THEOREM ScopeExpansionSoundHolds == Spec => []ScopeExpansionSound
<1>1. ApprovalInv => ScopeExpansionSound
  <2> SUFFICES ASSUME ApprovalInv PROVE ScopeExpansionSound
    OBVIOUS
  <2>1. TypeOK /\ ScopeNeedsApproval
    BY DEF ApprovalInv, IInv, Granted
  <2>2. ScopeAsApproved
    BY DEF ApprovalInv, ScopeAsApproved, OneAtATime, Quiet, Consistent
  <2>3. QED
    BY <2>1, <2>2, ApprovedPasses DEF ScopeExpansionSound
<1>2. QED
  BY ApprovalsKept, <1>1, PTL DEF Spec

-----------------------------------------------------------------------------
(***************************************************************************)
(* Orderly use: the plan is done up to the node that a run starts from.    *)
(***************************************************************************)
\* Entries that a resume may start from: now, or once their request is decided on.
Live(f, rw, env, y) ==
  {i \in DOMAIN f.requests :
     /\ f.requests[i].content = env[f.requests[i].id]
     /\ \/ rw[f.requests[i].id].decision = "requested"
        \/ /\ rw[f.requests[i].id].decision = "approved"
           /\ f.requests[i].status # "applied" \/ f.requests[i].id = y}

\* The plan is done up to node n.
DoneBefore(f, n) == \A m \in Node : m < n => f.plan.node[m] \in Done

\* They are of one request, and the plan is done up to its node.
Chain(f, rw, env, y) ==
  /\ \A i, j \in Live(f, rw, env, y) : f.requests[i].id = f.requests[j].id
  /\ \A i \in Live(f, rw, env, y) : DoneBefore(f, f.requests[i].content.node)

\* What a completed run says of its nodes.
Complete(f) == f.status = "completed" => \A n \in Node : f.plan.node[n] \in Done

\* The run in progress is the only one that an entry can start.
RunOrder(q) ==
  LET f == q.copy
      live == Live(q.copy, row, envelope, "none")
  IN
  /\ DoneBefore(f, q.node)
  /\ q.pc # "applied" => f.status # "completed"
  /\ q.pc # "attach" => \A i \in live : f.requests[i].content.node <= q.node
  /\ q.pc \in {"next", "node"} =>
       /\ \A i \in live : f.requests[i].id = q.scope.id
       /\ q.scope # NoScope => row[q.scope.id].decision = "approved"
  /\ q.pc \in {"attach", "enter"} =>
       /\ \A i \in live : f.requests[i].id # q.asked.id => f.requests[i].id = q.scope.id /\ f.requests[i].content.node <= q.node
       /\ q.asked.id # q.scope.id /\ q.scope # NoScope => row[q.scope.id].decision = "approved"
       /\ q.asked.content.node = q.node /\ worktree.present
  /\ q.pc \in {"mark", "final", "applied"} =>
       /\ \A i, j \in live : f.requests[i].id # q.scope.id /\ f.requests[j].id # q.scope.id => f.requests[i].id = f.requests[j].id
       /\ \A i \in live : f.requests[i].id # q.scope.id =>
            worktree.present /\ (q.scope # NoScope => row[q.scope.id].decision = "approved")
  /\ q.pc = "mark" =>
       /\ q.result \in {"completed", "skipped", "failed", "yielded"}
       /\ q.result # "yielded" => /\ \A i \in live : f.requests[i].id = q.scope.id
                                  /\ q.scope # NoScope => row[q.scope.id].decision = "approved"
  /\ q.pc = "final" => f.plan.status \in {"failed", "yielded"} \/ \A n \in Node : f.plan.node[n] \in Done

\* Where a command stands in the plan.
Order(q) ==
  /\ q.pc \in {"envelope", "decision"} =>
       /\ q.node = q.asked.content.node /\ Chain(file, row, envelope, "none")
       /\ \E i \in DOMAIN file.requests :
            /\ file.requests[i].id = q.asked.id /\ file.requests[i].content = q.asked.content
            /\ file.requests[i].status # "applied"
  /\ q.pc = "note" => Chain(file, row, envelope, q.scope.id)
  /\ q.pc = "save" => Chain(q.copy, row, envelope, "none") /\ Complete(q.copy)
  /\ q.pc = "start" =>
       /\ \A i \in Live(q.copy, row, envelope, "none") :
            q.copy.requests[i].id = q.scope.id /\ q.copy.requests[i].content.node <= q.node
       /\ DoneBefore(q.copy, q.node) /\ row[q.scope.id].decision = "approved"
  /\ q.pc \in InRun => RunOrder(q)

\* The plan is done up to every node that a resume may start from.
Ordered ==
  /\ Complete(file)
  /\ AtRest => Chain(file, row, envelope, "none")
  /\ \A p \in Process : proc[p].pc # "idle" => Order(proc[p])

\* The entries decide.
LEMMA LiveSame ==
  ASSUME NEW f, NEW g, NEW rw, NEW env, NEW y, g.requests = f.requests
  PROVE  Live(g, rw, env, y) = Live(f, rw, env, y)
BY DEF Live

\* The entries of a file without entries.
LEMMA LiveEmpty ==
  ASSUME NEW f, NEW rw, NEW env, NEW y, f.requests = <<>>
  PROVE  Live(f, rw, env, y) = {}
<1>1. DOMAIN f.requests = {}
  OBVIOUS
<1>2. QED
  BY <1>1 DEF Live

\* The entries and the plan decide.
LEMMA ChainSame ==
  ASSUME NEW f, NEW g, NEW rw, NEW env, NEW y, g.requests = f.requests, g.plan = f.plan, Chain(f, rw, env, y)
  PROVE  Chain(g, rw, env, y)
<1>1. Live(g, rw, env, y) = Live(f, rw, env, y)
  BY LiveSame
<1>2. \A n : DoneBefore(f, n) => DoneBefore(g, n)
  BY DEF DoneBefore
<1>3. QED
  BY <1>1, <1>2 DEF Chain

\* An entry has a request and a body.
LEMMA EntryFields ==
  ASSUME NEW f \in StatusFile
  PROVE  \A i \in DOMAIN f.requests :
           /\ f.requests[i].id \in Request /\ f.requests[i].id # "none" /\ f.requests[i].content \in Body
           /\ f.requests[i].content.node \in Node
<1>1. \A i \in DOMAIN f.requests : f.requests[i] \in Entry
  BY FileFields
<1>2. QED
  BY <1>1, ConstantsAssumption DEF Entry, Body

\* The state of a run is in order at the start of the program.
LEMMA OrderedInit == Init => Ordered
<1> SUFFICES ASSUME Init PROVE Ordered
  OBVIOUS
<1>1. \A p \in Process : proc[p].pc = "idle"
  BY DEF Init, Idle
<1>2. file.requests = <<>> /\ file.status = "pending"
  BY DEF Init, createRepositoryPlanStatus
<1>3. Live(file, row, envelope, "none") = {}
  BY <1>2, LiveEmpty
<1>4. QED
  BY <1>1, <1>2, <1>3 DEF Ordered, Complete, Chain

\* The commands in orderly use.
LEMMA OrderedCommand ==
  ASSUME IInv, Ordered, NEW p \in Process, Command(p), AtRest, ~ revised'
  PROVE  /\ Complete(file')
         /\ proc'[p].pc = "idle" => Chain(file', row', envelope', "none")
         /\ proc'[p].pc # "idle" => Order(proc[p])'
<1>0. file \in StatusFile /\ row \in Rows
  BY DEF IInv, TypeOK, Rows
<1>1. Complete(file) /\ Chain(file, row, envelope, "none")
  BY DEF Ordered
<1>2. CASE applyRepositoryPlanfile(p)
  <2>1. /\ file' \in StatusFile /\ file'.requests = <<>> /\ file'.status = "running"
        /\ proc'[p].pc = "next" /\ proc'[p].copy = file' /\ proc'[p].node = 1 /\ proc'[p].scope = NoScope
    BY <1>2, ApplyEffect
  <2>2. Live(proc'[p].copy, row', envelope', "none") = {}
    BY <2>1, LiveEmpty
  <2>3. DoneBefore(proc'[p].copy, proc'[p].node)
    BY <2>1, Nodes DEF DoneBefore
  <2>4. RunOrder(proc[p])'
    BY <2>1, <2>2, <2>3 DEF RunOrder
  <2>5. QED
    BY <2>1, <2>4 DEF Order, Complete
<1>3. CASE resumeRepositoryPlan(p)
  <2>1. /\ UNCHANGED <<file, approvals>> /\ proc'[p].pc = "envelope" /\ proc'[p].node = proc'[p].asked.content.node
    BY <1>3, ResumeEffect
  <2>2. PICK i \in resumable(file) : file.requests[i].id = proc'[p].asked.id /\ file.requests[i].content = proc'[p].asked.content
    BY <1>3, ResumeEffect
  <2>3. i \in DOMAIN file.requests /\ file.requests[i].status # "applied"
    BY DEF resumable
  <2>4. Chain(file', row', envelope', "none") /\ Complete(file')
    BY <1>1, <2>1 DEF approvals
  <2>5. Order(proc[p])'
    BY <2>1, <2>2, <2>3, <2>4 DEF Order, InRun
  <2>6. QED
    BY <2>1, <2>4, <2>5
<1>4. CASE cleanupRepositoryPlan(p)
  <2>1. /\ UNCHANGED <<file, approvals>> /\ proc'[p].pc = "save"
        /\ proc'[p].copy.requests = file.requests /\ proc'[p].copy.plan = file.plan /\ proc'[p].copy.status = file.status
    BY <1>4, CleanupEffect
  <2>2. Chain(proc'[p].copy, row', envelope', "none")
    BY <1>1, <2>1, ChainSame DEF approvals
  <2>3. Complete(proc'[p].copy) /\ Complete(file')
    BY <1>1, <2>1 DEF Complete
  <2>4. Order(proc[p])'
    BY <2>1, <2>2, <2>3 DEF Order, InRun
  <2>5. QED
    BY <2>1, <2>3, <2>4
<1>5. ASSUME NEW r \in Request, NEW d \in {"approved", "rejected"}, decideScopeRequest(p, r, d)
      PROVE  /\ Complete(file')
             /\ proc'[p].pc = "note" /\ Order(proc[p])'
  <2>1. /\ UNCHANGED <<file, envelope>> /\ row'[r].decision = d /\ \A u \in Request : u # r => row'[u] = row[u]
        /\ revised' = (revised \/ row[r].decision # "requested")
        /\ proc'[p].pc = "note" /\ proc'[p].scope = [id |-> r, content |-> row[r].content]
    BY <1>5, DecideEffect
  <2>2. row[r].decision = "requested"
    BY <2>1
  <2>3. Live(file, row', envelope, r) \subseteq Live(file, row, envelope, "none")
    BY <1>0, <2>1, <2>2, EntryFields DEF Live
  <2>4. Chain(file, row', envelope, r)
    BY <1>1, <2>3 DEF Chain
  <2>5. Order(proc[p])'
    BY <2>1, <2>4 DEF Order, InRun
  <2>6. QED
    BY <1>1, <2>1, <2>5
<1>6. QED
  BY <1>2, <1>3, <1>4, <1>5 DEF Command

\* A resume on its way to its run, and the end of a decision.
LEMMA OrderedResume ==
  ASSUME IInv, Consistent, Ordered, NEW p \in Process, proc[p].pc # "idle", \A q \in Process : q # p => proc[q].pc = "idle",
         readEnvelope(p) \/ readDecision(p) \/ noteDecision(p) \/ saveStatus(p) \/ startResumed(p)
  PROVE  /\ Complete(file')
         /\ proc'[p].pc = "idle" => Chain(file', row', envelope', "none")
         /\ proc'[p].pc # "idle" => Order(proc[p])'
<1>0. /\ file \in StatusFile /\ row \in Rows /\ Shape(proc[p]) /\ proc[p].copy \in StatusFile /\ proc[p].node \in Node
      /\ Complete(file) /\ Order(proc[p]) /\ Now(proc[p])
  BY ProcFields DEF IInv, TypeOK, Rows, Ordered, Consistent
<1>1. CASE readEnvelope(p)
  <2>1. /\ proc[p].pc = "envelope" /\ UNCHANGED <<file, approvals>>
        /\ \/ proc'[p].pc = "idle"
           \/ proc'[p].pc = "decision" /\ proc'[p].asked = proc[p].asked /\ proc'[p].node = proc[p].node
    BY <1>1, ResumeChecks
  <2>2. Chain(file', row', envelope', "none") /\ Complete(file')
    BY <1>0, <2>1 DEF Order, approvals
  <2>3. proc'[p].pc # "idle" => Order(proc[p])'
    BY <1>0, <2>1, <2>2 DEF Order, InRun
  <2>4. QED
    BY <2>2, <2>3
<1>2. CASE readDecision(p)
  <2>1. /\ proc[p].pc = "decision" /\ UNCHANGED <<file, approvals>>
        /\ \/ proc'[p].pc = "idle"
           \/ /\ proc'[p].pc = "start" /\ proc'[p].scope = proc[p].scope /\ proc'[p].node = proc[p].node
              /\ proc'[p].copy = updateScopeStatus(file, proc[p].scope.id, "approved")
              /\ proc[p].asked = proc[p].scope /\ row[proc[p].scope.id].decision = "approved"
    BY <1>2, ResumeChecks
  <2>2. Chain(file, row, envelope, "none") /\ proc[p].node = proc[p].asked.content.node
    BY <1>0, <2>1 DEF Order
  <2>3. PICK i \in DOMAIN file.requests : /\ file.requests[i].id = proc[p].asked.id
                                          /\ file.requests[i].content = proc[p].asked.content
                                          /\ file.requests[i].status # "applied"
    BY <1>0, <2>1 DEF Order
  <2>4. proc[p].scope = [id |-> proc[p].asked.id, content |-> envelope[proc[p].asked.id]]
    BY <1>0, <2>1 DEF Now
  <2>5. ASSUME proc'[p].pc # "idle"
        PROVE  Order(proc[p])'
    <3> DEFINE g == updateScopeStatus(file, proc[p].scope.id, "approved")
               id == proc[p].scope.id
    <3>1. /\ g \in StatusFile /\ DOMAIN g.requests = DOMAIN file.requests /\ g["plan"] = file["plan"]
          /\ \A k \in DOMAIN file.requests :
               /\ g.requests[k].id = file.requests[k].id /\ g.requests[k].content = file.requests[k].content
               /\ file.requests[k].id # id => g.requests[k] = file.requests[k]
      <4>1. "approved" \in {"approved", "rejected"}
        OBVIOUS
      <4>2. QED
        BY <1>0, <4>1, MarkedEntries
    <3>2. proc'[p].copy = g /\ row[id].decision = "approved" /\ proc[p].asked = proc[p].scope
      BY <2>1, <2>5
    <3> HIDE DEF g
    <3>3. proc[p].asked.id = id /\ proc[p].asked.content = envelope[id]
      BY <2>4, <3>2
    <3> HIDE DEF id
    <3>4. i \in Live(file, row, envelope, "none") /\ file.requests[i].id = id
      BY <2>3, <3>2, <3>3 DEF Live
    <3>5. ASSUME NEW k \in Live(g, row, envelope, "none")
          PROVE  g.requests[k].id = id /\ g.requests[k].content = envelope[id]
      <4>1. k \in DOMAIN g.requests /\ g.requests[k].content = envelope[g.requests[k].id]
        BY <3>5 DEF Live
      <4>2. CASE g.requests[k].id # id
        <5>1. g.requests[k] = file.requests[k]
          BY <3>1, <4>1, <4>2
        <5>2. k \in Live(file, row, envelope, "none")
          BY <3>1, <3>5, <5>1 DEF Live
        <5>3. QED
          BY <2>2, <3>4, <4>2, <5>1, <5>2 DEF Chain
      <4>3. QED
        BY <4>1, <4>2
    <3>6. DoneBefore(g, proc[p].node)
      <4>1. DoneBefore(file, file.requests[i].content.node)
        BY <2>2, <3>4 DEF Chain
      <4>2. DoneBefore(file, proc[p].node)
        BY <2>2, <2>3, <4>1
      <4>3. QED
        BY <3>1, <4>2 DEF DoneBefore
    <3>7. \A k \in Live(g, row, envelope, "none") : g.requests[k].id = id /\ g.requests[k].content.node <= proc[p].node
      <4>1. envelope[id].node = proc[p].node /\ proc[p].node \in Nat
        BY <1>0, <2>2, <3>3, Nodes
      <4>2. QED
        BY <3>5, <4>1
    <3>8. proc'[p].pc = "start" /\ proc'[p].scope.id = id /\ proc'[p].node = proc[p].node /\ UNCHANGED approvals
      BY <2>1, <2>5 DEF id
    <3>9. QED
      BY <3>2, <3>6, <3>7, <3>8 DEF Order, InRun, approvals
  <2>6. QED
    BY <1>0, <2>1, <2>2, <2>5 DEF approvals
<1>3. CASE noteDecision(p)
  <2>1. /\ proc[p].pc = "note" /\ UNCHANGED <<file, approvals>>
        /\ \/ proc'[p].pc = "idle" /\ envelope[proc[p].scope.id] = NoBody
           \/ /\ proc'[p].pc = "save"
              /\ proc'[p].copy = updateScopeStatus(file, proc[p].scope.id, proc[p].decision)
    BY <1>3, ResumeChecks
  <2>2. /\ row[proc[p].scope.id].decision = proc[p].decision
        /\ proc[p].decision \in {"approved", "rejected"} /\ proc[p].scope.id \in Request
    BY <1>0, <2>1 DEF Now, Shape, Asked
  <2>3. envelope[proc[p].scope.id] # NoBody
    <3>1. row[proc[p].scope.id].content \in Body /\ row[proc[p].scope.id].content = envelope[proc[p].scope.id]
      BY <2>1, <2>2 DEF IInv, Consistent
    <3>2. NoBody \notin Body
      BY Nodes DEF Body, NoBody
    <3>3. QED
      BY <3>1, <3>2
  <2> DEFINE id == proc[p].scope.id
             d == proc[p].decision
             g == updateScopeStatus(file, id, d)
  <2>4. /\ g \in StatusFile /\ DOMAIN g.requests = DOMAIN file.requests /\ g["plan"] = file["plan"] /\ g["status"] = file["status"]
        /\ \A k \in DOMAIN file.requests :
             /\ g.requests[k].id = file.requests[k].id /\ g.requests[k].content = file.requests[k].content
             /\ file.requests[k].id # id => g.requests[k] = file.requests[k]
    BY <1>0, <2>2, MarkedEntries
  <2>5. proc'[p].pc = "save" /\ proc'[p].copy = g
    BY <2>1, <2>3
  <2>6. Chain(file, row, envelope, id) /\ row[id].decision = d /\ d \in {"approved", "rejected"}
    BY <1>0, <2>1, <2>2 DEF Order
  <2> HIDE DEF g, id, d
  <2>7. Live(g, row, envelope, "none") \subseteq Live(file, row, envelope, id)
    BY <1>0, <2>4, <2>6, EntryFields DEF Live
  <2>8. \A n : DoneBefore(file, n) => DoneBefore(g, n)
    BY <2>4 DEF DoneBefore
  <2>9. \A k \in Live(g, row, envelope, "none") : k \in DOMAIN file.requests
    BY <2>4 DEF Live
  <2>10. Chain(g, row, envelope, "none")
    BY <2>4, <2>6, <2>7, <2>8, <2>9 DEF Chain
  <2>11. Complete(g)
    BY <1>0, <2>4 DEF Complete
  <2>12. QED
    BY <1>0, <2>1, <2>5, <2>10, <2>11 DEF Order, InRun, approvals
<1>4. CASE saveStatus(p)
  <2>1. proc[p].pc = "save" /\ UNCHANGED approvals /\ file' = proc[p].copy /\ proc'[p].pc = "idle"
    BY <1>4, ResumeChecks
  <2>2. QED
    BY <1>0, <2>1 DEF Order, approvals
<1>5. CASE startResumed(p)
  <2>1. /\ UNCHANGED approvals /\ proc'[p].copy = file' /\ file'.requests = proc[p].copy.requests
        /\ proc'[p].scope = proc[p].scope /\ proc'[p].node = proc[p].node /\ proc[p].pc = "start" /\ proc'[p].pc = "next"
        /\ file'.status = "running" /\ \A n \in Node : file'.plan.node[n] = proc[p].copy.plan.node[n]
    BY <1>5, BeginEffect
  <2>2. Live(file', row', envelope', "none") = Live(proc[p].copy, row, envelope, "none")
    BY <2>1, LiveSame DEF approvals
  <2>3. /\ \A i \in Live(proc[p].copy, row, envelope, "none") :
            proc[p].copy.requests[i].id = proc[p].scope.id /\ proc[p].copy.requests[i].content.node <= proc[p].node
        /\ DoneBefore(proc[p].copy, proc[p].node) /\ row[proc[p].scope.id].decision = "approved"
    BY <1>0, <2>1 DEF Order
  <2>4. DoneBefore(file', proc[p].node)
    BY <2>1, <2>3 DEF DoneBefore
  <2>5. RunOrder(proc[p])'
    BY <2>1, <2>2, <2>3, <2>4 DEF RunOrder, approvals
  <2>6. QED
    BY <2>1, <2>5 DEF Order, Complete
<1>6. QED
  BY <1>1, <1>2, <1>3, <1>4, <1>5

\* A run from its first node to its end.
LEMMA OrderedRun ==
  ASSUME IInv, IInv', Consistent, Ordered, NEW p \in Process, proc[p].pc # "idle",
         \/ beginNode(p) \/ NodeEnds(p) \/ writeEvidence(p)
         \/ \E r \in Request, c \in Content : createScopeExpansionApproval(p, r, c)
         \/ recordEnvelope(p) \/ (\E given \in {"pending_approval", "expired"} : enterRequest(p, given))
         \/ markResult(p) \/ finishRun(p) \/ applyScope(p) \/ missWorktree(p)
  PROVE  /\ Complete(file')
         /\ proc'[p].pc = "idle" => Chain(file', row', envelope', "none")
         /\ proc'[p].pc # "idle" => Order(proc[p])'
<1> DEFINE f == proc[p].copy
           s == proc[p].scope
           live == Live(f, row, envelope, "none")
<1>0. /\ file \in StatusFile /\ row \in Rows /\ Shape(proc[p]) /\ f \in StatusFile /\ proc[p].node \in Node
      /\ Complete(file) /\ Order(proc[p]) /\ Now(proc[p]) /\ s \in Scope /\ proc[p].node \in Nat
  BY ProcFields, Nodes DEF IInv, TypeOK, Rows, Ordered, Consistent
<1>1. ASSUME proc[p].pc \in InRun
      PROVE  RunOrder(proc[p]) /\ f = file
  BY <1>0, <1>1 DEF Order, Now
<1>2. \A i \in live : /\ i \in DOMAIN f.requests /\ f.requests[i].id \in Request /\ f.requests[i].id # "none"
                      /\ f.requests[i].content.node \in Nat
  BY <1>0, EntryFields, Nodes DEF Live
<1>3. ASSUME RunOrder(proc[p])', proc'[p].pc \in InRun, proc'[p].copy = file', file'.status # "completed"
      PROVE  /\ Complete(file')
             /\ proc'[p].pc = "idle" => Chain(file', row', envelope', "none")
             /\ proc'[p].pc # "idle" => Order(proc[p])'
  BY <1>3 DEF Order, InRun, Complete
<1>4. CASE beginNode(p)
  <2>1. /\ UNCHANGED approvals /\ proc'[p].copy = file' /\ file'.requests = f.requests
        /\ proc'[p].scope = s /\ proc'[p].node = proc[p].node /\ proc[p].pc = "next" /\ proc'[p].pc = "node"
        /\ file'.status = "running" /\ \A n \in Node \ {proc[p].node} : file'.plan.node[n] = f.plan.node[n]
    BY <1>4, BeginEffect
  <2>2. Live(file', row', envelope', "none") = live
    BY <2>1, LiveSame DEF approvals
  <2>3. /\ \A i \in live : f.requests[i].id = s.id /\ f.requests[i].content.node <= proc[p].node
        /\ DoneBefore(f, proc[p].node) /\ (s # NoScope => row[s.id].decision = "approved")
    BY <1>1, <2>1 DEF RunOrder, InRun
  <2>4. DoneBefore(file', proc[p].node)
    BY <1>0, <2>1, <2>3 DEF DoneBefore
  <2> HIDE DEF live, f, s
  <2>5. RunOrder(proc[p])'
    BY <2>1, <2>2, <2>3, <2>4 DEF RunOrder, approvals
  <2>6. QED
    BY <1>3, <2>1, <2>5 DEF InRun
<1>5. CASE NodeEnds(p)
  <2>1. /\ proc[p].pc = "node" /\ UNCHANGED <<file, approvals>> /\ proc'[p].pc = "mark"
        /\ proc'[p].copy = f /\ proc'[p].scope = s /\ proc'[p].node = proc[p].node
        /\ proc'[p].result \in {"completed", "skipped", "failed", "yielded"}
    BY <1>5, NodeEndEffect
  <2>2. Live(f, row', envelope', "none") = live
    BY <2>1 DEF approvals
  <2>3. /\ \A i \in live : f.requests[i].id = s.id /\ f.requests[i].content.node <= proc[p].node
        /\ DoneBefore(f, proc[p].node) /\ (s # NoScope => row[s.id].decision = "approved")
        /\ f = file /\ f.status # "completed"
    BY <1>1, <2>1 DEF RunOrder, InRun
  <2> HIDE DEF live, f, s
  <2>4. RunOrder(proc[p])'
    BY <2>1, <2>2, <2>3 DEF RunOrder, approvals
  <2>5. QED
    BY <1>3, <2>1, <2>3, <2>4 DEF InRun
<1>6. CASE writeEvidence(p)
  <2>1. proc[p].pc = "node" /\ UNCHANGED <<worktree, approvals, proc>> /\ file' = f
    BY <1>6, EndEffect
  <2>2. RunOrder(proc[p]) /\ f.status # "completed"
    BY <1>1, <2>1 DEF RunOrder, InRun
  <2>3. RunOrder(proc[p])'
    BY <2>1, <2>2 DEF RunOrder, approvals
  <2>4. QED
    BY <1>3, <2>1, <2>2, <2>3 DEF InRun
<1>7. ASSUME NEW r \in Request, NEW c \in Content, createScopeExpansionApproval(p, r, c)
      PROVE  Complete(file') /\ proc'[p].pc = "attach" /\ Order(proc[p])'
  <2>1. /\ proc[p].pc = "node" /\ UNCHANGED <<file, envelope, worktree>> /\ worktree.present
        /\ proc'[p].pc = "attach" /\ proc'[p].asked = [id |-> r, content |-> [files |-> c, node |-> proc[p].node]]
        /\ proc'[p].copy = f /\ proc'[p].scope = s /\ proc'[p].node = proc[p].node
        /\ \A u \in Request : u # r => row'[u] = row[u]
    BY <1>7, RequestEffect
  <2>2. /\ \A i \in live : f.requests[i].id = s.id /\ f.requests[i].content.node <= proc[p].node
        /\ DoneBefore(f, proc[p].node) /\ (s # NoScope => row[s.id].decision = "approved")
        /\ f = file /\ f.status # "completed"
    BY <1>1, <2>1 DEF RunOrder, InRun
  <2>3. \A i \in Live(f, row', envelope', "none") : f.requests[i].id # r => i \in live
    BY <1>0, <2>1, EntryFields DEF Live
  <2>4. s # NoScope => s.id \in Request
    BY <1>0 DEF Scope
  <2>5. r # s.id /\ s # NoScope => row'[s.id].decision = "approved"
    BY <2>1, <2>2, <2>4
  <2> HIDE DEF live, f, s
  <2>6. proc'[p].asked.id = r /\ proc'[p].asked.content.node = proc[p].node
    BY <2>1
  <2>7. RunOrder(proc[p])'
    BY <2>1, <2>2, <2>3, <2>5, <2>6 DEF RunOrder
  <2>8. QED
    BY <1>3, <2>1, <2>2, <2>7 DEF InRun
<1>8. CASE recordEnvelope(p)
  <2> DEFINE r == proc[p].asked.id
  <2>1. /\ proc[p].pc = "attach" /\ UNCHANGED <<file, row, worktree>> /\ proc[p].asked \in Asked
        /\ envelope'[r] = proc[p].asked.content /\ \A u \in Request : u # r => envelope'[u] = envelope[u]
        /\ proc'[p].pc = "enter" /\ proc'[p].asked = proc[p].asked
        /\ proc'[p].copy = f /\ proc'[p].scope = s /\ proc'[p].node = proc[p].node
    BY <1>8, RequestEffect
  <2>2. /\ \A i \in live : f.requests[i].id # r => f.requests[i].id = s.id /\ f.requests[i].content.node <= proc[p].node
        /\ r # s.id /\ s # NoScope => row[s.id].decision = "approved"
        /\ proc[p].asked.content.node = proc[p].node /\ worktree.present
        /\ DoneBefore(f, proc[p].node) /\ f = file /\ f.status # "completed"
    BY <1>1, <2>1 DEF RunOrder, InRun
  <2>3. \A i \in Live(f, row', envelope', "none") :
          IF f.requests[i].id = r THEN f.requests[i].content = proc[p].asked.content ELSE i \in live
    BY <1>0, <2>1, EntryFields DEF Live
  <2>4. \A i \in Live(f, row', envelope', "none") : f.requests[i].content.node <= proc[p].node
    BY <1>0, <2>2, <2>3
  <2> HIDE DEF live, f, s
  <2>5. RunOrder(proc[p])'
    BY <2>1, <2>2, <2>3, <2>4 DEF RunOrder
  <2>6. QED
    BY <1>3, <2>1, <2>2, <2>5 DEF InRun
<1>9. ASSUME NEW given \in {"pending_approval", "expired"}, enterRequest(p, given)
      PROVE  Complete(file') /\ proc'[p].pc = "mark" /\ Order(proc[p])'
  <2> DEFINE e == [id |-> proc[p].asked.id, content |-> proc[p].asked.content, status |-> given, approval |-> "requested"]
             r == proc[p].asked.id
             n == Len(f.requests) + 1
  <2>1. /\ proc[p].pc = "enter" /\ UNCHANGED <<worktree, approvals>> /\ proc[p].asked \in Asked
        /\ proc'[p].pc = "mark" /\ proc'[p].copy = file' /\ proc'[p].result = "yielded"
        /\ file'.requests = Append(f.requests, e) /\ file'["status"] = f["status"] /\ file'["plan"] = f["plan"]
        /\ proc'[p].scope = s /\ proc'[p].node = proc[p].node
    BY <1>9, RequestEffect
  <2>2. /\ \A i \in live : f.requests[i].id # r => f.requests[i].id = s.id
        /\ \A i \in live : f.requests[i].content.node <= proc[p].node
        /\ r # s.id /\ s # NoScope => row[s.id].decision = "approved"
        /\ proc[p].asked.content.node = proc[p].node /\ worktree.present
        /\ DoneBefore(f, proc[p].node) /\ f = file /\ f.status # "completed"
    BY <1>1, <2>1 DEF RunOrder, InRun
  <2>3. e.id = r /\ e.content.node = proc[p].node
    BY <2>2
  <2> HIDE DEF e
  <2>4. /\ DOMAIN file'.requests = 1 .. n /\ file'.requests[n] = e
        /\ DOMAIN f.requests = 1 .. Len(f.requests) /\ Len(f.requests) \in Nat
        /\ \A i \in 1 .. Len(f.requests) : file'.requests[i] = f.requests[i]
    BY <1>0, <2>1, FileFields
  <2>5. \A i \in DOMAIN file'.requests : i = n \/ (i \in DOMAIN f.requests /\ file'.requests[i] = f.requests[i])
    BY <2>4
  <2>6. \A i \in Live(file', row', envelope', "none") :
          file'.requests[i] = e \/ (i \in live /\ file'.requests[i] = f.requests[i])
    BY <2>1, <2>4, <2>5 DEF Live, approvals
  <2>7. DoneBefore(file', proc[p].node)
    BY <2>1, <2>2 DEF DoneBefore
  <2> HIDE DEF live, s, r, n
  <2>8. /\ \A i \in Live(file', row', envelope', "none") :
             /\ file'.requests[i].content.node <= proc[p].node
             /\ file'.requests[i].id # r => file'.requests[i].id = s.id
    BY <1>0, <2>2, <2>3, <2>6
  <2>9. file'.status # "completed"
    BY <2>1, <2>2
  <2>10. \A i \in Live(file', row', envelope', "none") : file'.requests[i].id # s.id =>
           /\ file'.requests[i].id = r /\ worktree'.present
           /\ s # NoScope => row'[s.id].decision = "approved"
    BY <2>1, <2>2, <2>8 DEF approvals
  <2>11. /\ proc'[p].pc = "mark" /\ proc'[p].copy = file' /\ proc'[p].result = "yielded"
         /\ proc'[p].scope = s /\ proc'[p].node = proc[p].node
    BY <2>1
  <2> HIDE DEF f
  <2>12. RunOrder(proc[p])'
    BY <2>7, <2>8, <2>9, <2>10, <2>11 DEF RunOrder
  <2>13. QED
    BY <1>3, <2>9, <2>11, <2>12 DEF InRun
<1>10. CASE markResult(p)
  <2>1. /\ proc[p].pc = "mark" /\ UNCHANGED <<worktree, approvals>> /\ proc'[p].copy = file'
        /\ file'["requests"] = f["requests"] /\ file'["status"] = f["status"]
        /\ file'.plan = markNode(f.plan, proc[p].node, proc[p].result, proc[p].errors)
        /\ file'.plan.node[proc[p].node] = proc[p].result
        /\ \A n \in Node \ {proc[p].node} : file'.plan.node[n] = f.plan.node[n]
        /\ proc'[p]["scope"] = s
        /\ \/ /\ proc'[p].pc = "final" /\ proc'[p].node = proc[p].node
              /\ proc[p].result \in {"failed", "yielded"} \/ proc[p].node = Len(Kinds)
           \/ /\ proc'[p].pc = "next" /\ proc'[p].node = proc[p].node + 1 /\ proc'[p].node \in Node
              /\ proc[p].result \notin {"failed", "yielded"}
    BY <1>10, MarkEffect
  <2>2. /\ RunOrder(proc[p]) /\ f = file /\ f.status # "completed" /\ DoneBefore(f, proc[p].node)
        /\ \A i \in live : f.requests[i].content.node <= proc[p].node
        /\ proc[p].result \in {"completed", "skipped", "failed", "yielded"}
        /\ proc[p].result # "yielded" => /\ \A i \in live : f.requests[i].id = s.id
                                         /\ s # NoScope => row[s.id].decision = "approved"
        /\ \A i, j \in live : f.requests[i].id # s.id /\ f.requests[j].id # s.id => f.requests[i].id = f.requests[j].id
        /\ \A i \in live : f.requests[i].id # s.id =>
             worktree.present /\ (s # NoScope => row[s.id].decision = "approved")
    BY <1>1, <2>1 DEF RunOrder, InRun
  <2>3. Live(file', row', envelope', "none") = live
    BY <2>1, LiveSame DEF approvals
  <2>4. DoneBefore(file', proc[p].node)
    BY <1>0, <2>1, <2>2 DEF DoneBefore
  <2>5. proc[p].result \in Done => DoneBefore(file', proc[p].node + 1)
    <3>1. \A m \in Node : m < proc[p].node + 1 => m < proc[p].node \/ m = proc[p].node
      BY <1>0, Nodes
    <3>2. QED
      BY <2>1, <2>4, <3>1 DEF DoneBefore
  <2>6. file'.status # "completed"
    BY <2>1, <2>2
  <2>7. CASE proc'[p].pc = "next"
    <3>1. proc[p].result \in Done /\ proc[p].result # "yielded" /\ proc'[p].node = proc[p].node + 1
      BY <2>1, <2>2, <2>7 DEF Done
    <3>2. DoneBefore(file', proc'[p].node)
      BY <2>5, <3>1
    <3>3. \A i \in live : f.requests[i].content.node <= proc[p].node + 1
      BY <1>0, <1>2, <2>2
    <3> HIDE DEF live, f, s
    <3>4. RunOrder(proc[p])'
      BY <2>1, <2>2, <2>3, <2>6, <2>7, <3>1, <3>2, <3>3 DEF RunOrder, approvals
    <3>5. QED
      BY <1>3, <2>1, <2>6, <2>7, <3>4 DEF InRun
  <2>8. CASE proc'[p].pc = "final"
    <3>1. proc'[p].node = proc[p].node
      BY <2>1, <2>8
    <3>2. file'.plan.status \in {"failed", "yielded"} \/ \A n \in Node : file'.plan.node[n] \in Done
      <4>1. CASE proc[p].result = "yielded"
        BY <2>1, <4>1 DEF markNode
      <4>2. CASE proc[p].result = "failed"
        BY <2>1, <4>2 DEF markNode
      <4>3. CASE proc[p].result \in Done
        <5>1. proc[p].node = Len(Kinds)
          BY <2>1, <2>8, <4>3 DEF Done
        <5>2. \A n \in Node : n < proc[p].node + 1
          BY <5>1, Nodes
        <5>3. QED
          BY <2>5, <4>3, <5>2 DEF DoneBefore
      <4>4. QED
        BY <2>2, <4>1, <4>2, <4>3 DEF Done
    <3> HIDE DEF live, f, s
    <3>3. RunOrder(proc[p])'
      BY <2>1, <2>2, <2>3, <2>4, <2>6, <2>8, <3>1, <3>2 DEF RunOrder, approvals
    <3>4. QED
      BY <1>3, <2>1, <2>6, <2>8, <3>3 DEF InRun
  <2>9. QED
    BY <2>1, <2>7, <2>8
<1>11. CASE finishRun(p)
  <2>1. /\ proc[p].pc = "final" /\ UNCHANGED <<worktree, approvals>>
        /\ file'["plan"] = f["plan"] /\ file'["requests"] = f["requests"]
        /\ file'.status = IF f.plan.status \in {"failed", "yielded"} THEN f.plan.status ELSE "completed"
        /\ \/ proc'[p].pc = "idle" /\ s = NoScope
           \/ /\ proc'[p].pc = "applied" /\ proc'[p].copy = file' /\ s # NoScope
              /\ proc'[p]["node"] = proc[p].node /\ proc'[p]["scope"] = s
    BY <1>11, EndEffect
  <2>2. /\ RunOrder(proc[p]) /\ DoneBefore(f, proc[p].node)
        /\ \A i \in live : f.requests[i].content.node <= proc[p].node
        /\ \A i, j \in live : f.requests[i].id # s.id /\ f.requests[j].id # s.id => f.requests[i].id = f.requests[j].id
        /\ \A i \in live : f.requests[i].id # s.id =>
             worktree.present /\ (s # NoScope => row[s.id].decision = "approved")
        /\ f.plan.status \in {"failed", "yielded"} \/ \A n \in Node : f.plan.node[n] \in Done
    BY <1>1, <2>1 DEF RunOrder, InRun
  <2>3. Live(file', row', envelope', "none") = live
    BY <2>1, LiveSame DEF approvals
  <2>4. DoneBefore(file', proc[p].node)
    BY <2>1, <2>2 DEF DoneBefore
  <2>5. Complete(file')
    BY <2>1, <2>2 DEF Complete
  <2>6. CASE proc'[p].pc = "idle"
    <3>1. s.id = "none"
      BY <2>1, <2>6 DEF NoScope
    <3>2. \A i \in live : DoneBefore(file', f.requests[i].content.node)
      BY <1>0, <1>2, <2>2, <2>4, Nodes DEF DoneBefore
    <3>3. Chain(file', row', envelope', "none")
      BY <1>2, <2>1, <2>2, <2>3, <3>1, <3>2 DEF Chain
    <3>4. QED
      BY <2>5, <2>6, <3>3
  <2>7. CASE proc'[p].pc = "applied"
    <3> HIDE DEF live, f, s
    <3>1. RunOrder(proc[p])'
      BY <2>1, <2>2, <2>3, <2>4, <2>7 DEF RunOrder, approvals
    <3>2. QED
      BY <2>5, <2>7, <3>1 DEF Order
  <2>8. QED
    BY <2>1, <2>6, <2>7
<1>12. CASE applyScope(p)
  <2> DEFINE g == markScopeExpansionApplied(f, s.id)
  <2>1. proc[p].pc = "applied" /\ UNCHANGED approvals /\ proc'[p].pc = "idle" /\ file' = g
    BY <1>12, EndEffect
  <2>2. /\ g \in StatusFile /\ DOMAIN g.requests = DOMAIN f.requests /\ g["plan"] = f["plan"] /\ g["status"] = f["status"]
        /\ \A k \in DOMAIN f.requests :
             /\ g.requests[k].id = f.requests[k].id /\ g.requests[k].content = f.requests[k].content
             /\ f.requests[k].id # s.id => g.requests[k] = f.requests[k]
             /\ f.requests[k].id = s.id => g.requests[k].status = "applied"
    <3>1. "approved" \in {"approved", "rejected"}
      OBVIOUS
    <3>2. QED
      BY <1>0, <3>1, MarkedEntries
  <2> HIDE DEF g
  <2>3. /\ RunOrder(proc[p]) /\ DoneBefore(f, proc[p].node) /\ s \in Asked /\ f = file
        /\ \A i \in live : f.requests[i].content.node <= proc[p].node
        /\ \A i, j \in live : f.requests[i].id # s.id /\ f.requests[j].id # s.id => f.requests[i].id = f.requests[j].id
        /\ \A i \in live : f.requests[i].id # s.id => (s # NoScope => row[s.id].decision = "approved")
    BY <1>0, <1>1, <2>1 DEF RunOrder, InRun, Shape
  <2>4. s # NoScope
    BY <2>3, ConstantsAssumption DEF Asked, NoScope
  <2>5. \A i \in Live(g, row, envelope, "none") :
          i \in live /\ g.requests[i].id = f.requests[i].id /\ g.requests[i].content = f.requests[i].content
    BY <1>0, <2>2, EntryFields DEF Live
  <2>6. \A i \in Live(g, row, envelope, "none") : f.requests[i].id = s.id => row[s.id].decision = "requested"
    BY <1>0, <2>2, EntryFields DEF Live
  <2>7. \A i \in live : DoneBefore(g, f.requests[i].content.node)
    BY <1>0, <1>2, <2>2, <2>3, Nodes DEF DoneBefore
  <2> HIDE DEF live, f, s
  <2>8. Chain(g, row, envelope, "none")
    BY <2>3, <2>4, <2>5, <2>6, <2>7 DEF Chain
  <2>9. Complete(g)
    BY <1>0, <2>2, <2>3 DEF Complete
  <2>10. QED
    BY <2>1, <2>8, <2>9 DEF approvals
<1>13. CASE missWorktree(p)
  <2>1. proc[p].pc \in {"final", "node"} /\ UNCHANGED <<file, approvals>> /\ proc'[p].pc = "idle" /\ ~ worktree.present
    BY <1>13, EndEffect
  <2>2. /\ DoneBefore(f, proc[p].node) /\ f = file
        /\ \A i \in live : f.requests[i].content.node <= proc[p].node /\ f.requests[i].id = s.id
    BY <1>1, <2>1 DEF RunOrder, InRun
  <2>3. \A i \in live : DoneBefore(f, f.requests[i].content.node)
    BY <1>0, <1>2, <2>2, Nodes DEF DoneBefore
  <2>4. Chain(f, row, envelope, "none")
    BY <2>2, <2>3 DEF Chain
  <2>5. QED
    BY <1>0, <2>1, <2>2, <2>4 DEF approvals
<1>14. QED
  BY <1>4, <1>5, <1>6, <1>7, <1>8, <1>9, <1>10, <1>11, <1>12, <1>13

\* A step in orderly use keeps the runs in order.
LEMMA OrderedStep ==
  ASSUME IInv, IInv', Alone, Quiet => Consistent, Orderly => Ordered, NEW p \in Process,
         Command(p) \/ Step(p) \/ abort(p), Orderly'
  PROVE  Ordered'
<1>1. /\ Quiet /\ (Command(p) \/ Advance(p))
      /\ \A q \in Process : q # p => proc[q].pc = "idle" /\ proc'[q] = proc[q]
      /\ AtRest' <=> proc'[p].pc = "idle"
      /\ Command(p) => AtRest
      /\ Advance(p) => proc[p].pc # "idle"
  BY QuietFrame DEF Orderly, OneAtATime, Quiet
<1>2. ~ revised
  BY TablesStep DEF Orderly, approvals, decideScopeRequest, createScopeExpansionApproval, recordEnvelope
<1>3. Consistent /\ Ordered /\ ~ revised'
  BY <1>1, <1>2 DEF Orderly, OneAtATime, Quiet
<1>4. /\ Complete(file')
      /\ proc'[p].pc = "idle" => Chain(file', row', envelope', "none")
      /\ proc'[p].pc # "idle" => Order(proc[p])'
  <2>1. CASE Command(p)
    BY <1>1, <1>3, <2>1, OrderedCommand
  <2>2. CASE readEnvelope(p) \/ readDecision(p) \/ noteDecision(p) \/ saveStatus(p) \/ startResumed(p)
    BY <1>1, <1>3, <2>2, OrderedResume DEF Advance
  <2>3. CASE \/ beginNode(p) \/ NodeEnds(p) \/ writeEvidence(p)
             \/ \E r \in Request, c \in Content : createScopeExpansionApproval(p, r, c)
             \/ recordEnvelope(p) \/ (\E given \in {"pending_approval", "expired"} : enterRequest(p, given))
             \/ markResult(p) \/ finishRun(p) \/ applyScope(p) \/ missWorktree(p)
    BY <1>1, <1>3, <2>3, OrderedRun DEF Advance
  <2>4. QED
    BY <1>1, <2>1, <2>2, <2>3 DEF Advance
<1>5. \A q \in Process : proc'[q].pc # "idle" => Order(proc[q])'
  BY <1>1, <1>4
<1>6. QED
  BY <1>1, <1>4, <1>5 DEF Ordered

-----------------------------------------------------------------------------
(***************************************************************************)
(* The verdict of the review and the state of the worktree.                *)
(***************************************************************************)
Reviewed(n) == \E m \in Node : m < n /\ Kinds[m] = "review"

\* repository-plan-control.ts: the order of the deterministic plan.
Layout ==
  /\ \A n \in Node : Kinds[n] = "patch" => n + 1 \in Node /\ Kinds[n + 1] = "verify"
  /\ \E n \in Node : Kinds[n] = "review"
  /\ \A n \in Node : Reviewed(n) => Kinds[n] \in {"frame", "inspect", "design", "review", "finalize"}

\* The verdicts of a file that no run is working on, and the nodes that asked.
Trusted(f) ==
  /\ worktree.present /\ f.verification = "passed" => worktree.verified
  /\ f.status = "completed" /\ f.review = "ready" => f.verification = "passed"
\* Only patches and repairs ask for more scope.
Asks(f) == \A i \in DOMAIN f.requests : Kinds[f.requests[i].content.node] \in {"patch", "repair"}

\* A patch waits for its verification.
Unverified(q) ==
  \/ q.pc \in {"next", "node"} /\ Kinds[q.node] = "verify"
  \/ q.pc = "mark" /\ Kinds[q.node] = "patch" /\ q.result = "completed"

\* The verdicts that a run in progress holds.
RunCheck(q) ==
  /\ q.pc # "applied" => q.copy.status = "running"
  /\ IF q.pc = "mark" THEN q.verification = "none" => q.copy.verification = "none"
     ELSE q.verification = q.copy.verification
  /\ ~ Unverified(q) /\ worktree.present /\ q.verification = "passed" => worktree.verified
  /\ Reviewed(q.node) => q.review # "none"
  /\ Reviewed(q.node) /\ q.pc # "mark" => q.copy.review = q.review
  /\ q.review = "ready" => q.verification = "passed"
  /\ q.review # "none" => Reviewed(q.node) \/ (Kinds[q.node] = "review" /\ q.pc \in {"mark", "final", "applied"})
  /\ q.pc \in {"attach", "enter"} => /\ Kinds[q.node] \in {"patch", "repair"} /\ q.asked.content.node = q.node
  /\ q.pc = "mark" /\ Kinds[q.node] = "review" /\ q.result \notin {"failed", "yielded"} => q.review # "none"
  /\ q.pc = "mark" => q.result \in {"completed", "skipped", "failed", "yielded"}
  /\ q.pc = "final" => \/ q.copy.plan.status \in {"failed", "yielded"}
                       \/ q.review # "none" /\ q.copy.review = q.review

\* The verdicts that a command holds, and those of the file it leaves alone.
Check(q) ==
  /\ q.pc \in {"envelope", "decision", "note"} => Trusted(file) /\ Asks(file)
  /\ q.pc \in {"start", "save", "applied"} => Trusted(q.copy)
  /\ q.pc \in InRun \cup {"start", "save"} => Asks(q.copy)
  /\ q.pc \in {"envelope", "decision", "start"} => Kinds[q.node] \in {"patch", "repair"} /\ q.review = "none"
  /\ q.pc = "start" => q.verification = q.copy.verification
  /\ q.pc \in InRun => RunCheck(q)

\* At rest the file tells; otherwise the command does.
Checked ==
  /\ AtRest => Trusted(file) /\ Asks(file)
  /\ \A p \in Process : proc[p].pc # "idle" => Check(proc[p])

\* What the end of a node says of the verification.
LEMMA NodeEndVerdict ==
  ASSUME IInv, NEW p \in Process, NodeEnds(p)
  PROVE  \/ /\ proc'[p].verification = proc[p].verification /\ proc'[p].review = proc[p].review /\ worktree' = worktree
            /\ Kinds[proc[p].node] # "verify" /\ (Kinds[proc[p].node] = "patch" => proc'[p].result # "completed")
            /\ Kinds[proc[p].node] = "review" => proc'[p].result = "failed"
         \/ /\ Kinds[proc[p].node] = "patch" /\ proc'[p].result = "completed"
            /\ proc'[p].verification = proc[p].verification /\ proc'[p].review = proc[p].review
         \/ /\ Kinds[proc[p].node] \in {"verify", "repair"} /\ proc'[p].verification \in {"passed", "failed"}
            /\ proc'[p].verification = "passed" => worktree'.verified
            /\ proc'[p].review = proc[p].review
         \/ /\ Kinds[proc[p].node] = "review" /\ proc'[p].verification = proc[p].verification /\ worktree' = worktree
            /\ proc'[p].review = IF proc[p].verification = "passed" THEN "ready" ELSE "warnings"
<1>0. proc \in [Process -> Proc] /\ proc[p] \in Proc /\ worktree \in Worktree
  BY DEF IInv, TypeOK, Worktree
<1>1. CASE runPlainNode(p) \/ skipRepair(p) \/ generatePatchPlan(p) \/ (\E c \in Content : refusePatch(p, c)) \/ failReview(p)
  <2>1. PICK s : /\ proc' = [proc EXCEPT ![p].pc = "mark", ![p].result = s]
                 /\ Kinds[proc[p].node] # "verify" /\ (Kinds[proc[p].node] = "patch" => s # "completed")
                 /\ Kinds[proc[p].node] = "review" => s = "failed"
    <3>1. CASE runPlainNode(p) \/ skipRepair(p) \/ failReview(p)
      BY <3>1 DEF runPlainNode, skipRepair, failReview, Result, At
    <3>2. CASE generatePatchPlan(p) \/ (\E c \in Content : refusePatch(p, c))
      BY <3>2 DEF generatePatchPlan, refusePatch, Result, At, Patching
    <3>3. QED
      BY <1>1, <3>1, <3>2
  <2>2. proc'[p] = [proc[p] EXCEPT !.pc = "mark", !.result = s]
    BY <1>0, <2>1
  <2>3. proc'[p].verification = proc[p].verification /\ proc'[p].review = proc[p].review /\ proc'[p].result = s
    BY <1>0, <2>2 DEF Proc
  <2>4. worktree' = worktree
    BY <1>1 DEF runPlainNode, skipRepair, generatePatchPlan, refusePatch, failReview
  <2>5. QED
    BY <2>1, <2>3, <2>4
<1>2. CASE runReview(p)
  <2>1. /\ proc'[p] = [proc[p] EXCEPT !.pc = "mark", !.result = "completed",
                         !.review = IF proc[p].verification = "passed" THEN "ready" ELSE "warnings"]
        /\ worktree' = worktree /\ Kinds[proc[p].node] = "review"
    BY <1>0, <1>2 DEF runReview, At
  <2>2. QED
    BY <1>0, <2>1 DEF Proc
<1>3. ASSUME NEW c \in Content \cup {"none"}, NEW v \in {"passed", "failed"}, applyPatch(p, c, v)
      PROVE  \/ /\ Kinds[proc[p].node] = "patch" /\ proc'[p].result = "completed"
                /\ proc'[p].verification = proc[p].verification /\ proc'[p].review = proc[p].review
             \/ /\ Kinds[proc[p].node] \in {"verify", "repair"} /\ proc'[p].verification \in {"passed", "failed"}
                /\ proc'[p].verification = "passed" => worktree'.verified
                /\ proc'[p].review = proc[p].review
  <2>1. /\ proc'[p] = [proc[p] EXCEPT !.pc = "mark", !.result = "completed",
                          !.verification = IF Kinds[proc[p].node] = "repair" THEN v ELSE @]
        /\ worktree' = [touched(p, c) EXCEPT !.verified = (Kinds[proc[p].node] = "repair" /\ v = "passed")]
        /\ Kinds[proc[p].node] \in {"patch", "repair"}
    BY <1>0, <1>3 DEF applyPatch, At, Patching
  <2>2. touched(p, c) \in Worktree
    BY <1>0, ProcFields DEF touched, Worktree
  <2>3. worktree'.verified = (Kinds[proc[p].node] = "repair" /\ v = "passed")
    BY <2>1, <2>2 DEF Worktree
  <2>4. CASE Kinds[proc[p].node] = "repair"
    BY <1>0, <2>1, <2>3, <2>4 DEF Proc
  <2>5. CASE Kinds[proc[p].node] = "patch"
    BY <1>0, <2>1, <2>5 DEF Proc
  <2>6. QED
    BY <2>1, <2>4, <2>5
<1>4. ASSUME NEW v \in {"passed", "failed"}, runVerificationPolicy(p, v)
      PROVE  /\ Kinds[proc[p].node] \in {"verify", "repair"} /\ proc'[p].verification \in {"passed", "failed"}
             /\ proc'[p].verification = "passed" => worktree'.verified
             /\ proc'[p].review = proc[p].review
  BY <1>0, <1>4 DEF runVerificationPolicy, At, Proc, Worktree
<1>5. ASSUME NEW v \in {"passed", "failed"}, failPatch(p, v)
      PROVE  \/ /\ proc'[p].verification = proc[p].verification /\ proc'[p].review = proc[p].review /\ worktree' = worktree
                /\ Kinds[proc[p].node] = "patch" /\ proc'[p].result # "completed"
             \/ /\ Kinds[proc[p].node] \in {"verify", "repair"} /\ proc'[p].verification \in {"passed", "failed"}
                /\ proc'[p].verification = "passed" => worktree'.verified
                /\ proc'[p].review = proc[p].review
  <2>1. CASE Kinds[proc[p].node] = "repair"
    BY <1>0, <1>5, <2>1 DEF failPatch, At, Proc, Worktree
  <2>2. CASE Kinds[proc[p].node] = "patch"
    BY <1>0, <1>5, <2>2 DEF failPatch, At, Proc
  <2>3. QED
    BY <1>5, <2>1, <2>2 DEF failPatch, Patching, At
<1>6. QED
  BY <1>1, <1>2, <1>3, <1>4, <1>5 DEF NodeEnds

\* The verdicts at the start of the program.
LEMMA CheckedInit == Init => Checked
<1> SUFFICES ASSUME Init PROVE Checked
  OBVIOUS
<1>1. \A p \in Process : proc[p].pc = "idle"
  BY DEF Init, Idle
<1>2. file.requests = <<>> /\ file.status = "pending" /\ file.verification = "none"
  BY DEF Init, createRepositoryPlanStatus
<1>3. DOMAIN file.requests = {}
  BY <1>2
<1>4. QED
  BY <1>1, <1>2, <1>3 DEF Checked, Trusted, Asks

\* A command or a step outside the runs keeps the verdicts.
LEMMA CheckedOutside ==
  ASSUME Layout, IInv, Checked, NEW p \in Process, proc[p].pc = "idle" => AtRest,
         \/ Command(p) \/ readEnvelope(p) \/ readDecision(p) \/ noteDecision(p) \/ saveStatus(p) \/ startResumed(p)
  PROVE  /\ proc'[p].pc = "idle" => Trusted(file)' /\ Asks(file')
         /\ proc'[p].pc # "idle" => Check(proc[p])'
<1>0. /\ file \in StatusFile /\ Shape(proc[p]) /\ proc[p].copy \in StatusFile /\ proc[p].node \in Node
      /\ proc[p].pc # "idle" => Check(proc[p])
      /\ proc[p].pc = "idle" => Trusted(file) /\ Asks(file)
  BY ProcFields DEF IInv, TypeOK, Checked
<1>1. CASE applyRepositoryPlanfile(p)
  <2>1. /\ file'.requests = <<>> /\ file'.status = "running" /\ file'.verification = "none"
        /\ proc'[p].pc = "next" /\ proc'[p].copy = file' /\ proc'[p].node = 1
        /\ proc'[p].verification = "none" /\ proc'[p].review = "none"
    BY <1>1, ApplyEffect
  <2>2. ~ Reviewed(1)
    BY Nodes DEF Reviewed
  <2>3. Asks(proc'[p].copy)
    BY <2>1 DEF Asks
  <2>4. RunCheck(proc[p])'
    BY <2>1, <2>2 DEF RunCheck
  <2>5. QED
    BY <2>1, <2>3, <2>4 DEF Check
<1>2. CASE resumeRepositoryPlan(p)
  <2>1. /\ proc[p].pc = "idle" /\ UNCHANGED <<file, worktree, approvals>> /\ proc'[p].pc = "envelope"
        /\ proc'[p].node = proc'[p].asked.content.node /\ proc'[p].review = "none"
    BY <1>2, ResumeEffect
  <2>2. PICK i \in resumable(file) : file.requests[i].content = proc'[p].asked.content
    BY <1>2, ResumeEffect
  <2>3. Kinds[proc'[p].node] \in {"patch", "repair"}
    BY <1>0, <2>1, <2>2 DEF Asks, resumable
  <2>4. Trusted(file)' /\ Asks(file')
    BY <1>0, <2>1 DEF Trusted
  <2>5. QED
    BY <2>1, <2>3, <2>4 DEF Check, InRun
<1>3. CASE cleanupRepositoryPlan(p)
  <2>1. /\ proc[p].pc = "idle" /\ proc'[p].pc = "save" /\ ~ worktree'.present
        /\ proc'[p].copy["status"] = file["status"] /\ proc'[p].copy["requests"] = file["requests"]
        /\ proc'[p].copy["verification"] = file["verification"] /\ proc'[p].copy["review"] = file["review"]
    BY <1>3, CleanupEffect
  <2>2. Trusted(proc[p].copy)'
    BY <1>0, <2>1 DEF Trusted
  <2>3. Asks(proc'[p].copy)
    BY <1>0, <2>1 DEF Asks
  <2>4. QED
    BY <2>1, <2>2, <2>3 DEF Check, InRun
<1>4. ASSUME NEW r \in Request, NEW d \in {"approved", "rejected"}, decideScopeRequest(p, r, d)
      PROVE  proc'[p].pc = "note" /\ Check(proc[p])'
  <2>1. proc[p].pc = "idle" /\ UNCHANGED <<file, worktree>> /\ proc'[p].pc = "note"
    BY <1>4, DecideEffect
  <2>2. Trusted(file)' /\ Asks(file')
    BY <1>0, <2>1 DEF Trusted
  <2>3. QED
    BY <2>1, <2>2 DEF Check, InRun
<1>5. CASE readEnvelope(p)
  <2>1. /\ proc[p].pc = "envelope" /\ UNCHANGED <<file, worktree>>
        /\ \/ proc'[p].pc = "idle"
           \/ proc'[p].pc = "decision" /\ proc'[p].node = proc[p].node /\ proc'[p].review = proc[p].review
    BY <1>5, ResumeChecks
  <2>2. Trusted(file)' /\ Asks(file') /\ Kinds[proc[p].node] \in {"patch", "repair"} /\ proc[p].review = "none"
    BY <1>0, <2>1 DEF Check, Trusted
  <2>3. QED
    BY <2>1, <2>2 DEF Check, InRun
<1>6. ASSUME NEW id, NEW d \in {"approved", "rejected"}, Trusted(file), Asks(file), UNCHANGED worktree,
             proc'[p].copy = updateScopeStatus(file, id, d)
      PROVE  Trusted(proc[p].copy)' /\ Asks(proc'[p].copy) /\ proc'[p].copy.verification = file.verification
  <2> DEFINE g == updateScopeStatus(file, id, d)
  <2>1. /\ DOMAIN g.requests = DOMAIN file.requests
        /\ \A i \in DOMAIN file.requests : g.requests[i].content = file.requests[i].content
        /\ \A k \in {"status", "session", "plan", "verification", "review", "current", "exported"} : g[k] = file[k]
    BY <1>0, MarkedEntries
  <2> HIDE DEF g
  <2>2. g.status = file.status /\ g.verification = file.verification /\ g.review = file.review
    BY <2>1
  <2>3. proc'[p].copy = g
    BY <1>6 DEF g
  <2>4. QED
    BY <1>6, <2>1, <2>2, <2>3 DEF Trusted, Asks
<1>7. CASE readDecision(p)
  <2>1. /\ proc[p].pc = "decision" /\ UNCHANGED <<file, worktree>>
        /\ \/ proc'[p].pc = "idle"
           \/ /\ proc'[p].pc = "start" /\ proc'[p].node = proc[p].node
              /\ proc'[p].copy = updateScopeStatus(file, proc[p].scope.id, "approved")
              /\ proc'[p].verification = file.verification /\ proc'[p].review = proc[p].review
    BY <1>7, ResumeChecks
  <2>2. Trusted(file) /\ Asks(file) /\ Kinds[proc[p].node] \in {"patch", "repair"} /\ proc[p].review = "none"
    BY <1>0, <2>1 DEF Check
  <2>3. "approved" \in {"approved", "rejected"}
    OBVIOUS
  <2>4. proc'[p].pc = "start" =>
          Trusted(proc[p].copy)' /\ Asks(proc'[p].copy) /\ proc'[p].copy.verification = file.verification
    BY <1>6, <2>1, <2>2, <2>3
  <2>5. Trusted(file)' /\ Asks(file')
    BY <2>1, <2>2 DEF Trusted
  <2>6. QED
    BY <2>1, <2>2, <2>4, <2>5 DEF Check, InRun
<1>8. CASE noteDecision(p)
  <2>1. /\ proc[p].pc = "note" /\ UNCHANGED <<file, worktree>>
        /\ \/ proc'[p].pc = "idle"
           \/ /\ proc'[p].pc = "save"
              /\ proc'[p].copy = updateScopeStatus(file, proc[p].scope.id, proc[p].decision)
    BY <1>8, ResumeChecks
  <2>2. Trusted(file) /\ Asks(file) /\ proc[p].decision \in {"approved", "rejected"}
    BY <1>0, <2>1 DEF Check, Shape
  <2>3. proc'[p].pc = "save" => Trusted(proc[p].copy)' /\ Asks(proc'[p].copy)
    BY <1>6, <2>1, <2>2
  <2>4. Trusted(file)' /\ Asks(file')
    BY <2>1, <2>2 DEF Trusted
  <2>5. QED
    BY <2>1, <2>3, <2>4 DEF Check, InRun
<1>9. CASE saveStatus(p)
  <2>1. proc[p].pc = "save" /\ UNCHANGED worktree /\ file' = proc[p].copy /\ proc'[p].pc = "idle"
    BY <1>9, ResumeChecks
  <2>2. Trusted(proc[p].copy) /\ Asks(proc[p].copy)
    BY <1>0, <2>1 DEF Check
  <2>3. QED
    BY <2>1, <2>2 DEF Trusted
<1>10. CASE startResumed(p)
  <2>1. /\ UNCHANGED worktree /\ proc'[p].copy = file' /\ file'["requests"] = proc[p].copy["requests"]
        /\ file'["verification"] = proc[p].copy["verification"] /\ file'.status = "running"
        /\ proc'[p]["node"] = proc[p]["node"] /\ proc'[p]["verification"] = proc[p]["verification"]
        /\ proc'[p]["review"] = proc[p]["review"] /\ proc[p].pc = "start" /\ proc'[p].pc = "next"
    BY <1>10, BeginEffect
  <2>2. /\ Trusted(proc[p].copy) /\ Asks(proc[p].copy) /\ Kinds[proc[p].node] \in {"patch", "repair"} /\ proc[p].review = "none"
        /\ proc[p].verification = proc[p].copy.verification
    BY <1>0, <2>1 DEF Check
  <2>3. ~ Reviewed(proc[p].node)
    BY <1>0, <2>2 DEF Layout
  <2>4. RunCheck(proc[p])'
    BY <2>1, <2>2, <2>3 DEF RunCheck, Trusted
  <2>5. Asks(file')
    BY <2>1, <2>2 DEF Asks
  <2>6. QED
    BY <2>1, <2>4, <2>5 DEF Check
<1>11. QED
  BY <1>1, <1>2, <1>3, <1>4, <1>5, <1>7, <1>8, <1>9, <1>10 DEF Command

\* A run keeps the verdicts.
LEMMA CheckedRun ==
  ASSUME Layout, IInv, IInv', Consistent, Checked, NEW p \in Process, proc[p].pc # "idle",
         \/ beginNode(p) \/ NodeEnds(p) \/ writeEvidence(p)
         \/ \E r \in Request, c \in Content : createScopeExpansionApproval(p, r, c)
         \/ recordEnvelope(p) \/ (\E given \in {"pending_approval", "expired"} : enterRequest(p, given))
         \/ markResult(p) \/ finishRun(p) \/ applyScope(p) \/ missWorktree(p)
  PROVE  /\ proc'[p].pc = "idle" => Trusted(file)' /\ Asks(file')
         /\ proc'[p].pc # "idle" => Check(proc[p])'
<1> DEFINE f == proc[p].copy
           n == proc[p].node
<1>0. /\ f \in StatusFile /\ n \in Node /\ n \in Nat /\ Check(proc[p]) /\ Now(proc[p]) /\ Shape(proc[p])
      /\ proc[p].verification \in Verification /\ Kinds[n] \in NodeKind
  BY ProcFields, Nodes DEF Checked, Consistent
<1>1. ASSUME proc[p].pc \in InRun
      PROVE  RunCheck(proc[p]) /\ Asks(f) /\ f = file
  BY <1>0, <1>1 DEF Check, Now
<1>2. ASSUME RunCheck(proc[p])', proc'[p].pc \in InRun \ {"applied"}, Asks(proc'[p].copy)
      PROVE  proc'[p].pc # "idle" /\ Check(proc[p])'
  BY <1>2 DEF Check, InRun
<1>3. CASE beginNode(p)
  <2>1. /\ UNCHANGED worktree /\ proc'[p].copy = file' /\ file'["requests"] = f["requests"]
        /\ file'["verification"] = f["verification"] /\ file'["review"] = f["review"] /\ file'.status = "running"
        /\ proc'[p]["node"] = n /\ proc'[p]["verification"] = proc[p]["verification"]
        /\ proc'[p]["review"] = proc[p]["review"] /\ proc[p].pc = "next" /\ proc'[p].pc = "node"
    BY <1>3, BeginEffect
  <2>2. RunCheck(proc[p]) /\ Asks(f)
    BY <1>1, <2>1 DEF InRun
  <2>3. Asks(proc'[p].copy)
    BY <2>1, <2>2 DEF Asks
  <2>4. RunCheck(proc[p])'
    BY <2>1, <2>2 DEF RunCheck, Unverified
  <2>5. QED
    BY <1>2, <2>1, <2>3, <2>4 DEF InRun
<1>4. CASE NodeEnds(p)
  <2>1. /\ proc[p].pc = "node" /\ proc'[p].pc = "mark" /\ proc'[p]["copy"] = f /\ proc'[p]["node"] = n
        /\ proc'[p].result \in {"completed", "skipped", "failed", "yielded"}
        /\ worktree'.present = worktree.present
    BY <1>4, NodeEndEffect
  <2>2. RunCheck(proc[p]) /\ Asks(f)
    BY <1>1, <2>1 DEF InRun
  <2>3. proc[p].review # "none" => Kinds[n] \in {"frame", "inspect", "design", "review", "finalize"}
    BY <1>0, <2>1, <2>2 DEF RunCheck, Layout
  <2>4. RunCheck(proc[p])'
    <3>1. CASE /\ proc'[p].verification = proc[p].verification /\ proc'[p].review = proc[p].review /\ worktree' = worktree
               /\ Kinds[n] # "verify" /\ (Kinds[n] = "patch" => proc'[p].result # "completed")
               /\ Kinds[n] = "review" => proc'[p].result = "failed"
      BY <2>1, <2>2, <3>1 DEF RunCheck, Unverified
    <3>2. CASE /\ Kinds[n] = "patch" /\ proc'[p].result = "completed"
               /\ proc'[p].verification = proc[p].verification /\ proc'[p].review = proc[p].review
      BY <2>1, <2>2, <2>3, <3>2 DEF RunCheck, Unverified
    <3>3. CASE /\ Kinds[n] \in {"verify", "repair"} /\ proc'[p].verification \in {"passed", "failed"}
               /\ proc'[p].verification = "passed" => worktree'.verified
               /\ proc'[p].review = proc[p].review
      BY <2>1, <2>2, <2>3, <3>3 DEF RunCheck, Unverified
    <3>4. CASE /\ Kinds[n] = "review" /\ proc'[p].verification = proc[p].verification /\ worktree' = worktree
               /\ proc'[p].review = IF proc[p].verification = "passed" THEN "ready" ELSE "warnings"
      BY <2>1, <2>2, <3>4 DEF RunCheck, Unverified
    <3>5. QED
      BY <1>4, <3>1, <3>2, <3>3, <3>4, NodeEndVerdict
  <2>5. QED
    BY <1>2, <2>1, <2>2, <2>4 DEF InRun
<1>5. CASE writeEvidence(p)
  <2>1. proc[p].pc = "node" /\ UNCHANGED <<worktree, proc>>
    BY <1>5, EndEffect
  <2>2. RunCheck(proc[p]) /\ Asks(f)
    BY <1>1, <2>1 DEF InRun
  <2>3. RunCheck(proc[p])'
    BY <2>1, <2>2 DEF RunCheck, Unverified
  <2>4. QED
    BY <1>2, <2>1, <2>2, <2>3 DEF InRun
<1>6. ASSUME NEW r \in Request, NEW c \in Content, createScopeExpansionApproval(p, r, c)
      PROVE  proc'[p].pc # "idle" /\ Check(proc[p])'
  <2>1. /\ proc[p].pc = "node" /\ UNCHANGED worktree /\ Kinds[n] \in {"patch", "repair"}
        /\ proc'[p].pc = "attach" /\ proc'[p].asked = [id |-> r, content |-> [files |-> c, node |-> n]]
        /\ proc'[p]["copy"] = f /\ proc'[p]["node"] = n
        /\ proc'[p]["verification"] = proc[p]["verification"] /\ proc'[p]["review"] = proc[p]["review"]
    BY <1>6, RequestEffect
  <2>2. RunCheck(proc[p]) /\ Asks(f)
    BY <1>1, <2>1 DEF InRun
  <2>3. proc'[p].asked.content.node = n
    BY <2>1
  <2>4. RunCheck(proc[p])'
    BY <2>1, <2>2, <2>3 DEF RunCheck, Unverified
  <2>5. QED
    BY <1>2, <2>1, <2>2, <2>4 DEF InRun
<1>7. CASE recordEnvelope(p)
  <2>1. /\ proc[p].pc = "attach" /\ UNCHANGED worktree /\ proc'[p].pc = "enter"
        /\ proc'[p]["copy"] = f /\ proc'[p]["node"] = n /\ proc'[p]["asked"] = proc[p]["asked"]
        /\ proc'[p]["verification"] = proc[p]["verification"] /\ proc'[p]["review"] = proc[p]["review"]
    BY <1>7, RequestEffect
  <2>2. RunCheck(proc[p]) /\ Asks(f)
    BY <1>1, <2>1 DEF InRun
  <2>3. RunCheck(proc[p])'
    BY <2>1, <2>2 DEF RunCheck, Unverified
  <2>4. QED
    BY <1>2, <2>1, <2>2, <2>3 DEF InRun
<1>8. ASSUME NEW given \in {"pending_approval", "expired"}, enterRequest(p, given)
      PROVE  proc'[p].pc # "idle" /\ Check(proc[p])'
  <2> DEFINE e == [id |-> proc[p].asked.id, content |-> proc[p].asked.content, status |-> given, approval |-> "requested"]
  <2>1. /\ proc[p].pc = "enter" /\ UNCHANGED worktree
        /\ proc'[p].pc = "mark" /\ proc'[p].copy = file' /\ proc'[p].result = "yielded"
        /\ file'.requests = Append(f.requests, e)
        /\ file'["status"] = f["status"] /\ file'["verification"] = f["verification"] /\ file'["review"] = f["review"]
        /\ proc'[p]["node"] = n
        /\ proc'[p]["verification"] = proc[p]["verification"] /\ proc'[p]["review"] = proc[p]["review"]
    BY <1>8, RequestEffect
  <2>2. RunCheck(proc[p]) /\ Asks(f)
    BY <1>1, <2>1 DEF InRun
  <2>3. e.content.node = n /\ Kinds[n] \in {"patch", "repair"}
    BY <2>1, <2>2 DEF RunCheck
  <2> HIDE DEF e
  <2>4. Asks(proc'[p].copy)
    <3>1. /\ DOMAIN file'.requests = 1 .. (Len(f.requests) + 1) /\ file'.requests[Len(f.requests) + 1] = e
          /\ DOMAIN f.requests = 1 .. Len(f.requests) /\ Len(f.requests) \in Nat
          /\ \A i \in 1 .. Len(f.requests) : file'.requests[i] = f.requests[i]
      BY <1>0, <2>1, FileFields
    <3>2. \A i \in DOMAIN file'.requests : file'.requests[i] = e \/ (i \in DOMAIN f.requests /\ file'.requests[i] = f.requests[i])
      BY <3>1
    <3>3. QED
      BY <2>1, <2>2, <2>3, <3>2 DEF Asks
  <2>5. RunCheck(proc[p])'
    BY <2>1, <2>2, <2>3 DEF RunCheck, Unverified
  <2>6. QED
    BY <1>2, <2>1, <2>4, <2>5 DEF InRun
<1>9. CASE markResult(p)
  <2>1. /\ proc[p].pc = "mark" /\ UNCHANGED worktree /\ proc'[p].copy = file'
        /\ file'["requests"] = f["requests"] /\ file'["status"] = f["status"]
        /\ file'.plan = markNode(f.plan, n, proc[p].result, proc[p].errors)
        /\ file'.verification = IF proc[p].verification = "none" THEN f.verification ELSE proc[p].verification
        /\ file'.review = IF proc[p].review = "none" THEN f.review ELSE proc[p].review
        /\ proc'[p]["verification"] = proc[p]["verification"] /\ proc'[p]["review"] = proc[p]["review"]
        /\ \/ /\ proc'[p].pc = "final" /\ proc'[p].node = n
              /\ proc[p].result \in {"failed", "yielded"} \/ n = Len(Kinds)
           \/ /\ proc'[p].pc = "next" /\ proc'[p].node = n + 1 /\ proc'[p].node \in Node
              /\ proc[p].result \notin {"failed", "yielded"}
    BY <1>9, MarkEffect
  <2>2. RunCheck(proc[p]) /\ Asks(f)
    BY <1>1, <2>1 DEF InRun
  <2>3. Asks(proc'[p].copy)
    BY <2>1, <2>2 DEF Asks
  <2>4. proc[p].verification = file'.verification
    BY <2>1, <2>2 DEF RunCheck
  <2>5. Reviewed(n + 1) => Reviewed(n) \/ Kinds[n] = "review"
    <3>1. \A m \in Node : m < n + 1 => m < n \/ m = n
      BY <1>0, Nodes
    <3>2. QED
      BY <3>1 DEF Reviewed
  <2>6. Reviewed(n) \/ Kinds[n] = "review" => Reviewed(n + 1)
    BY <1>0, Nodes DEF Reviewed
  <2>7. proc[p].result \notin {"failed", "yielded"} /\ Reviewed(n + 1) => proc[p].review # "none"
    BY <2>1, <2>2, <2>5 DEF RunCheck
  <2>8. f.status = "running"
    BY <2>1, <2>2 DEF RunCheck
  <2>9. CASE proc'[p].pc = "next"
    <3>1. ~ Unverified(proc[p]) \/ Kinds[n + 1] = "verify"
      BY <1>0, <2>1 DEF Unverified, Layout
    <3>2. worktree.present /\ proc[p].verification = "passed" /\ Kinds[n + 1] # "verify" => worktree.verified
      BY <2>2, <3>1 DEF RunCheck
    <3>3. proc[p].review # "none" => Reviewed(n + 1)
      BY <2>2, <2>6 DEF RunCheck
    <3>4. proc'[p].node = n + 1 /\ proc[p].result \notin {"failed", "yielded"}
      BY <2>1, <2>9
    <3>5. proc[p].review = "ready" => proc[p].verification = "passed"
      BY <2>2 DEF RunCheck
    <3>6. proc[p].review # "none" => file'.review = proc[p].review
      BY <2>1
    <3> HIDE DEF f, n
    <3>7. RunCheck(proc[p])'
      BY <2>1, <2>4, <2>7, <2>8, <2>9, <3>2, <3>3, <3>4, <3>5, <3>6 DEF RunCheck, Unverified
    <3>8. QED
      BY <1>2, <2>3, <2>9, <3>7 DEF InRun
  <2>10. CASE proc'[p].pc = "final"
    <3>1. proc'[p].node = n /\ (proc[p].result \in {"failed", "yielded"} \/ n = Len(Kinds))
      BY <2>1, <2>10
    <3>2. ~ Unverified(proc[p])
      <4>1. Len(Kinds) + 1 \notin Node
        BY Nodes
      <4>2. QED
        BY <1>0, <2>1, <3>1, <4>1 DEF Unverified, Layout
    <3>3. worktree.present /\ proc[p].verification = "passed" => worktree.verified
      BY <2>2, <3>2 DEF RunCheck
    <3>4. \/ file'.plan.status \in {"failed", "yielded"}
          \/ proc[p].review # "none"
      <4>1. CASE proc[p].result \in {"failed", "yielded"}
        BY <2>1, <4>1 DEF markNode
      <4>2. CASE proc[p].result \notin {"failed", "yielded"}
        <5>1. PICK m \in Node : Kinds[m] = "review"
          BY DEF Layout
        <5>2. m < n + 1
          BY <1>0, <3>1, <4>2, Nodes
        <5>3. Reviewed(n + 1)
          BY <5>1, <5>2 DEF Reviewed
        <5>4. QED
          BY <2>7, <4>2, <5>3
      <4>3. QED
        BY <4>1, <4>2
    <3>5. proc[p].review # "none" => file'.review = proc[p].review
      BY <2>1
    <3>6. /\ Reviewed(n) => proc[p].review # "none"
          /\ proc[p].review # "none" => Reviewed(n) \/ Kinds[n] = "review"
          /\ proc[p].review = "ready" => proc[p].verification = "passed"
      BY <2>2 DEF RunCheck
    <3> HIDE DEF f, n
    <3>7. RunCheck(proc[p])'
      BY <2>1, <2>4, <2>8, <2>10, <3>1, <3>3, <3>4, <3>5, <3>6 DEF RunCheck, Unverified
    <3>8. QED
      BY <1>2, <2>3, <2>10, <3>7 DEF InRun
  <2>11. QED
    BY <2>1, <2>9, <2>10
<1>10. CASE finishRun(p)
  <2>1. /\ proc[p].pc = "final" /\ UNCHANGED worktree
        /\ file'["requests"] = f["requests"] /\ file'["verification"] = f["verification"] /\ file'["review"] = f["review"]
        /\ file'.status = IF f.plan.status \in {"failed", "yielded"} THEN f.plan.status ELSE "completed"
        /\ \/ proc'[p].pc = "idle"
           \/ /\ proc'[p].pc = "applied" /\ proc'[p].copy = file' /\ proc'[p]["node"] = n
              /\ proc'[p]["verification"] = proc[p]["verification"] /\ proc'[p]["review"] = proc[p]["review"]
    BY <1>10, EndEffect
  <2>2. RunCheck(proc[p]) /\ Asks(f)
    BY <1>1, <2>1 DEF InRun
  <2>3. Asks(file')
    BY <2>1, <2>2 DEF Asks
  <2>4. ~ Unverified(proc[p])
    BY <2>1 DEF Unverified
  <2>5. Trusted(file)'
    BY <2>1, <2>2, <2>4 DEF RunCheck, Trusted
  <2>6. CASE proc'[p].pc = "applied"
    <3>1. RunCheck(proc[p])'
      BY <2>1, <2>2, <2>4, <2>6 DEF RunCheck, Unverified
    <3>2. Trusted(proc[p].copy)'
      BY <2>1, <2>5, <2>6 DEF Trusted
    <3>3. QED
      BY <2>1, <2>3, <2>6, <3>1, <3>2 DEF Check
  <2>7. QED
    BY <2>1, <2>3, <2>5, <2>6
<1>11. CASE applyScope(p)
  <2> DEFINE g == markScopeExpansionApplied(f, proc[p].scope.id)
  <2>1. proc[p].pc = "applied" /\ UNCHANGED worktree /\ proc'[p].pc = "idle" /\ file' = g
    BY <1>11, EndEffect
  <2>2. /\ DOMAIN g.requests = DOMAIN f.requests
        /\ \A k \in DOMAIN f.requests : g.requests[k].content = f.requests[k].content
        /\ \A k \in {"status", "session", "plan", "verification", "review", "current", "exported"} : g[k] = f[k]
    <3>1. "approved" \in {"approved", "rejected"}
      OBVIOUS
    <3>2. QED
      BY <1>0, <3>1, MarkedEntries
  <2> HIDE DEF g
  <2>3. Trusted(f) /\ Asks(f)
    BY <1>0, <2>1 DEF Check, InRun
  <2>4. g.status = f.status /\ g.verification = f.verification /\ g.review = f.review
    BY <2>2
  <2>5. Trusted(file)' /\ Asks(file')
    BY <2>1, <2>2, <2>3, <2>4 DEF Trusted, Asks
  <2>6. QED
    BY <2>1, <2>5
<1>12. CASE missWorktree(p)
  <2>1. proc[p].pc \in {"final", "node"} /\ UNCHANGED <<file, worktree>> /\ proc'[p].pc = "idle" /\ ~ worktree.present
    BY <1>12, EndEffect
  <2>2. RunCheck(proc[p]) /\ Asks(f) /\ f = file
    BY <1>1, <2>1 DEF InRun
  <2>3. Trusted(file)' /\ Asks(file')
    BY <2>1, <2>2 DEF RunCheck, Trusted
  <2>4. QED
    BY <2>1, <2>3
<1>13. QED
  BY <1>3, <1>4, <1>5, <1>6, <1>7, <1>8, <1>9, <1>10, <1>11, <1>12

\* A step in quiet use keeps the verdicts.
LEMMA CheckedStep ==
  ASSUME Layout, IInv, IInv', Alone, Quiet => Consistent, Quiet => Checked, NEW p \in Process,
         Command(p) \/ Step(p) \/ abort(p), Quiet'
  PROVE  Checked'
<1>1. /\ Quiet /\ (Command(p) \/ Advance(p))
      /\ \A q \in Process : q # p => proc[q].pc = "idle" /\ proc'[q] = proc[q]
      /\ AtRest' <=> proc'[p].pc = "idle"
      /\ Command(p) => AtRest
      /\ Advance(p) => proc[p].pc # "idle"
  BY QuietFrame
<1>2. Consistent /\ Checked
  BY <1>1
<1>3. proc[p].pc = "idle" => AtRest
  BY <1>1 DEF AtRest
<1>4. /\ proc'[p].pc = "idle" => Trusted(file)' /\ Asks(file')
      /\ proc'[p].pc # "idle" => Check(proc[p])'
  <2>1. CASE \/ Command(p) \/ readEnvelope(p) \/ readDecision(p) \/ noteDecision(p) \/ saveStatus(p) \/ startResumed(p)
    BY <1>2, <1>3, <2>1, CheckedOutside
  <2>2. CASE \/ beginNode(p) \/ NodeEnds(p) \/ writeEvidence(p)
             \/ \E r \in Request, c \in Content : createScopeExpansionApproval(p, r, c)
             \/ recordEnvelope(p) \/ (\E given \in {"pending_approval", "expired"} : enterRequest(p, given))
             \/ markResult(p) \/ finishRun(p) \/ applyScope(p) \/ missWorktree(p)
    BY <1>1, <1>2, <2>2, CheckedRun DEF Advance
  <2>3. QED
    BY <1>1, <2>1, <2>2 DEF Advance
<1>5. \A q \in Process : proc'[q].pc # "idle" => Check(proc[q])'
  BY <1>1, <1>4
<1>6. QED
  BY <1>1, <1>4, <1>5 DEF Checked

\* repository-plan-control.ts lays a plan out with a verification after the patch and a review after
\* both.  For every such plan: in orderly use a run is completed only when every node is done; with
\* commands one at a time and none cut off, a completed run whose review says ready left a worktree
\* that passed verification after its last patch.
THEOREM CompletedIsVerifiedHolds ==
  ASSUME Layout
  PROVE  Spec => []CompletedIsVerified
<1> DEFINE All == ApprovalInv /\ (Orderly => Ordered) /\ (Quiet => Checked)
<1>1. Init => All
  BY ApprovalsKept, OrderedInit, CheckedInit
<1>2. ASSUME All, [Next]_vars
      PROVE  All'
  <2>1. ApprovalInv' /\ IInv' /\ IInv /\ Alone /\ (Quiet => Consistent)
    BY <1>2, ApprovalsKept DEF ApprovalInv
  <2>2. CASE UNCHANGED vars
    <3>1. Orderly' => Ordered'
      BY <1>2, <2>2 DEF vars, Orderly, OneAtATime, Ordered, Order, RunOrder, AtRest
    <3>2. Quiet' => Checked'
      BY <1>2, <2>2 DEF vars, Quiet, Checked, Check, RunCheck, Unverified, Trusted, AtRest
    <3>3. QED
      BY <2>1, <3>1, <3>2
  <2>3. ASSUME NEW p \in Process, Command(p) \/ Step(p) \/ abort(p)
        PROVE  All'
    <3>1. Orderly' => Ordered'
      BY <1>2, <2>1, <2>3, OrderedStep
    <3>2. Quiet' => Checked'
      BY <1>2, <2>1, <2>3, CheckedStep
    <3>3. QED
      BY <2>1, <3>1, <3>2
  <2>4. QED
    BY <1>2, <2>2, <2>3 DEF Next
<1>3. All => CompletedIsVerified
  <2> SUFFICES ASSUME All PROVE CompletedIsVerified
    OBVIOUS
  <2>1. CompletedIsComplete
    BY DEF CompletedIsComplete, Ordered, Complete
  <2>2. ReadyMeansVerified
    BY DEF ReadyMeansVerified, OneAtATime, Quiet, Checked, Trusted
  <2>3. QED
    BY <2>1, <2>2 DEF CompletedIsVerified
<1> HIDE DEF All
<1>4. QED
  BY <1>1, <1>2, <1>3, PTL DEF Spec

-----------------------------------------------------------------------------
(***************************************************************************)
(* What the view shows.                                                    *)
(***************************************************************************)
\* What a status file says of its verification, its review and its end.
Told(f) ==
  /\ \A m \in Node : f.plan.node[m] \in Done =>
       (Kinds[m] = "verify" => f.verification # "none") /\ (Kinds[m] = "review" => f.review # "none")
  /\ f.status = "completed" => f.exported = TRUE /\ f.session # "none"

\* What the end of a node brings for the file to say.
Brings(q) ==
  q.pc = "mark" /\ q.result \in Done =>
    (Kinds[q.node] = "verify" => q.verification # "none") /\ (Kinds[q.node] = "review" => q.review # "none")

\* Every copy of the file says it.
AllTold ==
  /\ Told(file)
  /\ \A p \in Process : /\ proc[p].pc \in InRun \cup {"start", "save"} => Told(proc[p].copy)
                        /\ Brings(proc[p])

\* A cleanup is offered.
Kept(f) == f.session \notin {"none", "cleaned"}

\* With commands one at a time, a worktree has a session in the file and its copies.
Cleanable ==
  overlaps = 0 =>
    /\ worktree.present => Kept(file)
    /\ \A p \in Process : /\ proc[p].pc \in InRun => Kept(proc[p].copy)
                          /\ proc[p].pc = "save" /\ worktree.present => Kept(proc[p].copy)

\* The entries that wait for a decision are those that the rows leave undecided, but for
\* the entries of request x.
Waits(f, rw, x) ==
  IsInjective(Ids(f)) => \A i \in DOMAIN f.requests : f.requests[i].id # x =>
    (f.requests[i].approval = "requested" <=> rw[f.requests[i].id].decision = "requested")

\* The request of a resume is an entry, which was approved.
Used(f, id) ==
  /\ \E i \in DOMAIN f.requests : f.requests[i].id = id
  /\ IsInjective(Ids(f)) => \A i \in DOMAIN f.requests : f.requests[i].id = id => f.requests[i].approval = "approved"

\* What a command in progress knows of the entries.
Awaits(q) ==
  /\ q.pc \in {"envelope", "decision"} =>
       Waits(file, row, "none") /\ \E i \in DOMAIN file.requests : file.requests[i].id = q.asked.id
  /\ q.pc \in {"start", "save", "next", "node", "mark", "final", "applied"} => Waits(q.copy, row, "none")
  /\ q.pc \in {"attach", "enter"} => Waits(q.copy, row, q.asked.id)
  /\ q.pc = "note" => Waits(file, row, q.scope.id)
  /\ q.pc \in InRun \cup {"start"} /\ q.scope # NoScope => Used(q.copy, q.scope.id)

\* The file and the rows agree on what is undecided.
Awaiting ==
  /\ AtRest => Waits(file, row, "none")
  /\ \A p \in Process : proc[p].pc # "idle" => Awaits(proc[p])

\* A run that stopped did so at its current node, and there alone.
Stopped(f) ==
  f.status \in {"failed", "yielded"} =>
    f.current \in Node /\ \A m \in Node : f.plan.node[m] = f.status <=> m = f.current

\* No later node was begun.
Untouched(f, n) == \A m \in Node : m > n => f.plan.node[m] \in {"pending", "ready"}

\* No node after one that a resume may start from was begun.
Ahead(f, rw, env, y) == \A i \in Live(f, rw, env, y) : Untouched(f, f.requests[i].content.node)

\* Where a run in progress stands.
Stands(q) ==
  LET live == Live(q.copy, row, envelope, "none")
  IN
  /\ Untouched(q.copy, q.node)
  /\ \/ worktree.present
     \/ /\ q.pc \in {"next", "node"} /\ Kinds[q.node] \notin {"frame", "design"}
        /\ \A i \in live : q.copy.requests[i].content.node = q.node
  /\ q.pc # "next" => q.copy.current = q.node
  /\ q.errors = TRUE => q.pc = "mark" /\ Kinds[q.node] = "repair"
  /\ q.pc \in {"mark", "final", "applied"} => \A i \in live :
       \/ q.copy.requests[i].content.node = q.node
       \/ q.copy.requests[i].id = q.scope.id /\ row[q.scope.id].decision # "requested"
  /\ q.pc = "final" /\ q.copy.plan.status \in {"failed", "yielded"} => q.copy.plan.node[q.node] = q.copy.plan.status
  /\ q.pc = "applied" => Stopped(q.copy)

\* What a command in progress knows of the nodes that stopped.
Halts(q) ==
  /\ q.pc \in {"envelope", "decision"} => Ahead(file, row, envelope, "none") /\ Stopped(file)
  /\ q.pc = "note" => Ahead(file, row, envelope, q.scope.id) /\ Stopped(file)
  /\ q.pc = "save" => Ahead(q.copy, row, envelope, "none") /\ Stopped(q.copy)
  /\ q.pc = "start" =>
       /\ Untouched(q.copy, q.node)
       /\ \A i \in Live(q.copy, row, envelope, "none") : q.copy.requests[i].content.node = q.node
  /\ q.pc \in {"envelope", "decision", "start"} => q.errors = FALSE
  /\ q.pc \in InRun => Stands(q)

\* In orderly use the file shows where the run stopped.
Halted ==
  /\ AtRest => Ahead(file, row, envelope, "none") /\ Stopped(file)
  /\ \A p \in Process : proc[p].pc # "idle" => Halts(proc[p])

\* The rest of what the commands do to the file.
LEMMA CommandView ==
  ASSUME IInv, NEW p \in Process
  PROVE  /\ applyRepositoryPlanfile(p) =>
              /\ file'.plan = FreshPlan /\ file'.session = "running" /\ proc'[p].errors = FALSE
         /\ resumeRepositoryPlan(p) => proc'[p].errors = FALSE
         /\ cleanupRepositoryPlan(p) => proc'[p].copy.current = file.current /\ proc'[p].copy.exported = file.exported
                                        /\ proc'[p].copy.session = "cleaned"
<1>0. proc \in [Process -> Proc] /\ file \in StatusFile
  BY DEF IInv, TypeOK
<1>1. ASSUME applyRepositoryPlanfile(p)
      PROVE  file'.plan = FreshPlan /\ file'.session = "running" /\ proc'[p].errors = FALSE
  <2> DEFINE status == [createRepositoryPlanStatus EXCEPT !.status = "running", !.session = "running", !.current = 1]
  <2>1. status.plan = FreshPlan /\ status.session = "running"
    BY DEF createRepositoryPlanStatus
  <2>2. file' = status /\ proc'[p] = [Idle EXCEPT !.pc = "next", !.copy = status]
    BY <1>0, <1>1 DEF applyRepositoryPlanfile, Begin
  <2> HIDE DEF status
  <2>3. QED
    BY <2>1, <2>2 DEF Idle
<1>2. ASSUME resumeRepositoryPlan(p)
      PROVE  proc'[p].errors = FALSE
  <2> DEFINE e == pendingEntry(file)
  <2>1. proc'[p] = [Idle EXCEPT !.pc = "envelope", !.node = nodesForRun(e), !.asked = [id |-> e.id, content |-> e.content]]
    BY <1>0, <1>2 DEF resumeRepositoryPlan, Begin
  <2> HIDE DEF e
  <2>2. QED
    BY <2>1 DEF Idle
<1>3. ASSUME cleanupRepositoryPlan(p)
      PROVE  /\ proc'[p].copy.current = file.current /\ proc'[p].copy.exported = file.exported
             /\ proc'[p].copy.session = "cleaned"
  <2> DEFINE g == [file EXCEPT !.session = "cleaned"]
  <2>1. g.current = file.current /\ g.exported = file.exported /\ g.session = "cleaned"
    BY <1>0 DEF StatusFile
  <2>2. proc'[p] = [Idle EXCEPT !.pc = "save", !.copy = g]
    BY <1>0, <1>3 DEF cleanupRepositoryPlan, Begin
  <2> HIDE DEF g
  <2>3. QED
    BY <2>1, <2>2 DEF Idle
<1>4. QED
  BY <1>1, <1>2, <1>3

\* The rest of what the start of a run does.
LEMMA BeginView ==
  ASSUME IInv, NEW p \in Process
  PROVE  /\ readEnvelope(p) \/ readDecision(p) => proc'[p].pc = "idle" \/ proc'[p].errors = proc[p].errors
         /\ startResumed(p) => /\ file'.session = "running" /\ file'.current = proc[p].node
                               /\ file'.exported = proc[p].copy.exported /\ proc'[p].errors = proc[p].errors
         /\ beginNode(p) => /\ file'.session = proc[p].copy.session /\ file'.current = proc[p].node
                            /\ file'.exported = proc[p].copy.exported /\ file'.plan.node[proc[p].node] = "running"
                            /\ proc'[p].errors = proc[p].errors
<1>0. proc \in [Process -> Proc] /\ proc[p] \in Proc /\ proc[p].copy \in StatusFile /\ proc[p].node \in Node
  BY ProcFields DEF IInv, TypeOK
<1>1. ASSUME readEnvelope(p) \/ readDecision(p)
      PROVE  proc'[p].pc = "idle" \/ proc'[p].errors = proc[p].errors
  <2>1. CASE Return(p)
    BY <1>0, <2>1 DEF Return, Idle
  <2>2. CASE readEnvelope(p) /\ ~ Return(p)
    <3> DEFINE sc == [id |-> proc[p].asked.id, content |-> envelope[proc[p].asked.id]]
    <3>1. proc'[p] = [proc[p] EXCEPT !.pc = "decision", !.scope = sc]
      BY <1>0, <2>2 DEF readEnvelope
    <3> HIDE DEF sc
    <3>2. QED
      BY <1>0, <3>1 DEF Proc
  <2>3. CASE readDecision(p) /\ ~ Return(p)
    <3> DEFINE g == updateScopeStatus(file, proc[p].scope.id, "approved")
    <3>1. proc'[p] = [proc[p] EXCEPT !.pc = "start", !.asked = NoScope, !.copy = g, !.verification = file.verification]
      BY <1>0, <2>3 DEF readDecision, Load
    <3> HIDE DEF g
    <3>2. QED
      BY <1>0, <3>1 DEF Proc
  <2>4. QED
    BY <1>1, <2>1, <2>2, <2>3
<1>2. ASSUME startResumed(p)
      PROVE  /\ file'.session = "running" /\ file'.current = proc[p].node
             /\ file'.exported = proc[p].copy.exported /\ proc'[p].errors = proc[p].errors
  <2> DEFINE status == [proc[p].copy EXCEPT !.status = "running", !.session = "running", !.plan.status = "running", !.current = proc[p].node]
  <2>1. file' = status /\ proc'[p] = [proc[p] EXCEPT !.pc = "next", !.copy = status]
    BY <1>0, <1>2 DEF startResumed
  <2>2. status.session = "running" /\ status.current = proc[p].node /\ status.exported = proc[p].copy.exported
    BY <1>0 DEF StatusFile
  <2> HIDE DEF status
  <2>3. QED
    BY <1>0, <2>1, <2>2 DEF Proc
<1>3. ASSUME beginNode(p)
      PROVE  /\ file'.session = proc[p].copy.session /\ file'.current = proc[p].node
             /\ file'.exported = proc[p].copy.exported /\ file'.plan.node[proc[p].node] = "running"
             /\ proc'[p].errors = proc[p].errors
  <2> DEFINE plan == markNode(proc[p].copy.plan, proc[p].node, "running", FALSE)
             status == [proc[p].copy EXCEPT !.status = "running", !.current = proc[p].node, !.plan = plan]
  <2>1. file' = status /\ proc'[p] = [proc[p] EXCEPT !.pc = "node", !.copy = status]
    BY <1>0, <1>3 DEF beginNode, At
  <2>2. plan.node[proc[p].node] = "running"
    <3>1. proc[p].copy.plan \in PlanOf /\ "running" \in NodeStatus /\ FALSE \in BOOLEAN
      BY <1>0, FileFields DEF NodeStatus
    <3>2. QED
      BY <1>0, <3>1, MarkedPlan
  <2> HIDE DEF plan
  <2>3. /\ status.session = proc[p].copy.session /\ status.current = proc[p].node
        /\ status.exported = proc[p].copy.exported /\ status.plan = plan
    BY <1>0 DEF StatusFile
  <2> HIDE DEF status
  <2>4. proc'[p].errors = proc[p].errors
    BY <1>0, <2>1 DEF Proc
  <2>5. QED
    BY <2>1, <2>2, <2>3, <2>4
<1>4. QED
  BY <1>1, <1>2, <1>3

\* The rest of what the end of a node does.
LEMMA NodeView ==
  ASSUME IInv, NEW p \in Process, NodeEnds(p)
  PROVE  /\ proc'[p].errors \in {FALSE, proc[p].errors} \/ Kinds[proc[p].node] = "repair"
         /\ worktree.present \/ Kinds[proc[p].node] \in {"frame", "design"}
<1>0. proc \in [Process -> Proc] /\ proc[p] \in Proc
  BY DEF IInv, TypeOK
<1>1. worktree.present \/ Kinds[proc[p].node] \in {"frame", "design"}
  BY DEF NodeEnds, runPlainNode, skipRepair, generatePatchPlan, refusePatch, applyPatch, failPatch, runVerificationPolicy, runReview,
        failReview, Patching, Running, At
<1>2. CASE runPlainNode(p) \/ skipRepair(p) \/ generatePatchPlan(p) \/ (\E c \in Content : refusePatch(p, c)) \/ failReview(p)
  <2>1. PICK s : proc' = [proc EXCEPT ![p].pc = "mark", ![p].result = s]
    BY <1>2 DEF runPlainNode, skipRepair, generatePatchPlan, refusePatch, failReview, Result
  <2>2. QED
    BY <1>0, <1>1, <2>1 DEF Proc
<1>3. CASE runReview(p)
  BY <1>0, <1>1, <1>3 DEF runReview, Proc
<1>4. ASSUME NEW c \in Content \cup {"none"}, NEW v \in {"passed", "failed"}, applyPatch(p, c, v)
      PROVE  proc'[p].errors = proc[p].errors
  BY <1>0, <1>4 DEF applyPatch, Proc
<1>5. ASSUME NEW v \in {"passed", "failed"}, failPatch(p, v)
      PROVE  proc'[p].errors = FALSE \/ Kinds[proc[p].node] = "repair"
  <2>1. Kinds[proc[p].node] \in {"patch", "repair"}
    BY <1>5 DEF failPatch, Patching, Running, At
  <2>2. CASE Kinds[proc[p].node] = "patch"
    <3> DEFINE repair == Kinds[proc[p].node] = "repair"
    <3>1. repair = FALSE
      BY <2>2
    <3>2. proc'[p].errors = repair
      BY <1>0, <1>5 DEF failPatch, At, Proc
    <3>3. QED
      BY <3>1, <3>2
  <2>3. QED
    BY <2>1, <2>2
<1>6. ASSUME NEW v \in {"passed", "failed"}, runVerificationPolicy(p, v)
      PROVE  proc'[p].errors = proc[p].errors
  BY <1>0, <1>6 DEF runVerificationPolicy, Proc
<1>7. QED
  BY <1>1, <1>2, <1>3, <1>4, <1>5, <1>6 DEF NodeEnds

\* The rest of what a request does.
LEMMA RequestView ==
  ASSUME IInv, NEW p \in Process
  PROVE  /\ \A r \in Request, c \in Content : createScopeExpansionApproval(p, r, c) => proc'[p].errors = proc[p].errors
         /\ recordEnvelope(p) => proc'[p].errors = proc[p].errors
         /\ \A given \in {"pending_approval", "expired"} : enterRequest(p, given) =>
              /\ proc'[p].errors = proc[p].errors
              /\ file'.session = proc[p].copy.session /\ file'.current = proc[p].copy.current
              /\ file'.exported = proc[p].copy.exported
<1>0. proc \in [Process -> Proc] /\ proc[p] \in Proc /\ proc[p].copy \in StatusFile
  BY ProcFields DEF IInv, TypeOK
<1>1. ASSUME NEW r \in Request, NEW c \in Content, createScopeExpansionApproval(p, r, c)
      PROVE  proc'[p].errors = proc[p].errors
  <2> DEFINE body == [id |-> r, content |-> [files |-> c, node |-> proc[p].node]]
  <2>1. proc'[p] = [proc[p] EXCEPT !.pc = "attach", !.asked = body]
    BY <1>0, <1>1 DEF createScopeExpansionApproval, At
  <2> HIDE DEF body
  <2>2. QED
    BY <1>0, <2>1 DEF Proc
<1>2. ASSUME recordEnvelope(p)
      PROVE  proc'[p].errors = proc[p].errors
  BY <1>0, <1>2 DEF recordEnvelope, Goto, Proc
<1>3. ASSUME NEW given \in {"pending_approval", "expired"}, enterRequest(p, given)
      PROVE  /\ proc'[p].errors = proc[p].errors
             /\ file'.session = proc[p].copy.session /\ file'.current = proc[p].copy.current
             /\ file'.exported = proc[p].copy.exported
  <2> DEFINE reqs == Append(proc[p].copy.requests,
                [id |-> proc[p].asked.id, content |-> proc[p].asked.content, status |-> given, approval |-> "requested"])
             status == [proc[p].copy EXCEPT !.requests = reqs]
  <2>1. /\ file' = status
        /\ proc'[p] = [proc[p] EXCEPT !.pc = "mark", !.copy = status, !.asked = NoScope, !.result = "yielded"]
    BY <1>0, <1>3 DEF enterRequest
  <2> HIDE DEF reqs
  <2>2. /\ status.session = proc[p].copy.session /\ status.current = proc[p].copy.current
        /\ status.exported = proc[p].copy.exported
    BY <1>0 DEF StatusFile
  <2> HIDE DEF status
  <2>3. QED
    BY <1>0, <2>1, <2>2 DEF Proc
<1>4. QED
  BY <1>1, <1>2, <1>3

\* The rest of what the write of a result does.
LEMMA MarkView ==
  ASSUME IInv, NEW p \in Process, markResult(p)
  PROVE  /\ file'.session = proc[p].copy.session /\ file'.current = proc[p].copy.current
         /\ file'.exported = proc[p].copy.exported /\ proc'[p].errors = FALSE
<1>0. proc \in [Process -> Proc] /\ proc[p] \in Proc /\ proc[p].copy \in StatusFile
  BY ProcFields DEF IInv, TypeOK
<1> DEFINE plan == markNode(proc[p].copy.plan, proc[p].node, proc[p].result, proc[p].errors)
           veri == IF proc[p].verification = "none" THEN proc[p].copy.verification ELSE proc[p].verification
           revi == IF proc[p].review = "none" THEN proc[p].copy.review ELSE proc[p].review
           status == [proc[p].copy EXCEPT !.plan = plan, !.verification = veri, !.review = revi]
           stops == proc[p].result \in {"failed", "yielded"} \/ proc[p].node = Len(Kinds)
<1>1. /\ file' = status
      /\ proc'[p] = [proc[p] EXCEPT !.copy = status, !.pc = IF stops THEN "final" ELSE "next",
                       !.node = IF stops THEN @ ELSE @ + 1, !.result = "pending", !.errors = FALSE]
  BY <1>0 DEF markResult, At
<1> HIDE DEF plan, veri, revi
<1>2. /\ status.session = proc[p].copy.session /\ status.current = proc[p].copy.current
      /\ status.exported = proc[p].copy.exported
  BY <1>0 DEF StatusFile
<1> HIDE DEF status, stops
<1>3. proc'[p].errors = FALSE
  BY <1>0, <1>1 DEF Proc
<1>4. QED
  BY <1>1, <1>2, <1>3

\* The rest of what the end of a run does.
LEMMA EndView ==
  ASSUME IInv, NEW p \in Process
  PROVE  /\ finishRun(p) => /\ file'.exported = TRUE /\ file'.current = proc[p].copy.current
                            /\ file'.session \in {"failed", "retained", "completed"}
                            /\ proc'[p].pc = "idle" \/ proc'[p].errors = proc[p].errors
         /\ missWorktree(p) => proc[p].pc = "final" \/ Kinds[proc[p].node] \notin {"frame", "design"}
<1>0. proc \in [Process -> Proc] /\ proc[p] \in Proc /\ proc[p].copy \in StatusFile
  BY ProcFields DEF IInv, TypeOK
<1>1. ASSUME finishRun(p)
      PROVE  /\ file'.exported = TRUE /\ file'.current = proc[p].copy.current
             /\ file'.session \in {"failed", "retained", "completed"}
             /\ proc'[p].pc = "idle" \/ proc'[p].errors = proc[p].errors
  <2> DEFINE s == proc[p].copy.plan.status
             end == IF s \in {"failed", "yielded"} THEN s ELSE "completed"
             ses == CASE s = "failed" -> "failed" [] s = "yielded" -> "retained" [] OTHER -> "completed"
             status == [proc[p].copy EXCEPT !.exported = TRUE, !.status = end, !.session = ses]
  <2>1. /\ file' = status
        /\ IF proc[p].scope = NoScope THEN Return(p) ELSE proc'[p] = [proc[p] EXCEPT !.pc = "applied", !.copy = status]
    BY <1>0, <1>1 DEF finishRun
  <2>2. ses \in {"failed", "retained", "completed"}
    OBVIOUS
  <2> HIDE DEF end, ses
  <2>3. status.exported = TRUE /\ status.current = proc[p].copy.current /\ status.session = ses
    BY <1>0 DEF StatusFile
  <2> HIDE DEF status
  <2>4. CASE Return(p)
    <3>1. proc'[p].pc = "idle"
      BY <1>0, <2>4 DEF Return, Idle
    <3>2. QED
      BY <2>1, <2>2, <2>3, <3>1
  <2>5. CASE proc'[p] = [proc[p] EXCEPT !.pc = "applied", !.copy = status]
    <3>1. proc'[p].errors = proc[p].errors
      BY <1>0, <2>5 DEF Proc
    <3>2. QED
      BY <2>1, <2>2, <2>3, <3>1
  <2>6. QED
    BY <2>1, <2>4, <2>5
<1>2. missWorktree(p) => proc[p].pc = "final" \/ Kinds[proc[p].node] \notin {"frame", "design"}
  BY DEF missWorktree, At
<1>3. QED
  BY <1>1, <1>2

\* The fields that a decision on a request leaves alone.
LEMMA MarkedRest ==
  ASSUME NEW f \in StatusFile, NEW id, NEW d \in {"approved", "rejected"}
  PROVE  /\ LET g == updateScopeStatus(f, id, d)
            IN  /\ g.status = f.status /\ g.session = f.session /\ g.plan = f.plan /\ g.verification = f.verification
                /\ g.review = f.review /\ g.current = f.current /\ g.exported = f.exported
         /\ LET h == markScopeExpansionApplied(f, id)
            IN  /\ h.status = f.status /\ h.session = f.session /\ h.plan = f.plan /\ h.verification = f.verification
                /\ h.review = f.review /\ h.current = f.current /\ h.exported = f.exported
<1> DEFINE g == updateScopeStatus(f, id, d)
           h == markScopeExpansionApplied(f, id)
<1>1. \A k \in {"status", "session", "plan", "verification", "review", "current", "exported"} : g[k] = f[k] /\ h[k] = f[k]
  BY MarkedEntries
<1> HIDE DEF g, h
<1>2. /\ g["status"] = f["status"] /\ g["session"] = f["session"] /\ g["plan"] = f["plan"]
      /\ g["verification"] = f["verification"] /\ g["review"] = f["review"] /\ g["current"] = f["current"]
      /\ g["exported"] = f["exported"]
  BY <1>1
<1>3. /\ h["status"] = f["status"] /\ h["session"] = f["session"] /\ h["plan"] = f["plan"]
      /\ h["verification"] = f["verification"] /\ h["review"] = f["review"] /\ h["current"] = f["current"]
      /\ h["exported"] = f["exported"]
  BY <1>1
<1>4. QED
  BY <1>2, <1>3 DEF g, h

\* What a file says is not unsaid while no node is done and no run completed.
LEMMA ToldSame ==
  ASSUME NEW f, NEW g, Told(f), \A m \in Node : g.plan.node[m] \in Done => f.plan.node[m] \in Done,
         g.verification = f.verification, g.review = f.review, g.exported = f.exported,
         g.session # "none" \/ g.session = f.session, g.status = "completed" => f.status = "completed"
  PROVE  Told(g)
BY DEF Told

\* A fresh file and a step that begins nothing say nothing.
LEMMA ToldFresh ==
  ASSUME NEW f, f.plan = FreshPlan, f.status # "completed"
  PROVE  Told(f)
<1>1. \A m \in Node : FreshPlan.node[m] \in {"ready", "pending"}
  BY DEF FreshPlan
<1>2. QED
  BY <1>1 DEF Told, Done

\* No step makes a file that says too little.
LEMMA ToldStep ==
  ASSUME IInv, AllTold, NEW p \in Process, Command(p) \/ Step(p) \/ abort(p)
  PROVE  AllTold'
<1> DEFINE f == proc[p].copy
<1>0. /\ file \in StatusFile /\ f \in StatusFile /\ proc[p].node \in Node /\ proc[p].pc \in Pc
      /\ proc[p].verification \in Verification /\ Shape(proc[p])
      /\ Told(file) /\ Brings(proc[p])
      /\ proc[p].pc \in InRun \cup {"start", "save"} => Told(f)
  BY ProcFields DEF IInv, TypeOK, AllTold
<1>1. \A q \in Process : q # p => proc'[q] = proc[q]
  BY ProcFrame
<1>2. ASSUME Told(file'), proc'[p].pc \in InRun \cup {"start", "save"} => Told(proc'[p].copy), Brings(proc'[p])
      PROVE  AllTold'
  <2>1. \A q \in Process : /\ proc'[q].pc \in InRun \cup {"start", "save"} => Told(proc'[q].copy)
                           /\ Brings(proc'[q])
    BY <1>1, <1>2 DEF AllTold
  <2>2. QED
    BY <1>2, <2>1 DEF AllTold
<1>3. ASSUME proc'[p].pc # "mark"
      PROVE  Brings(proc'[p])
  BY <1>3 DEF Brings
<1>4. ASSUME file' = file, proc'[p].pc \notin InRun \cup {"start", "save"}
      PROVE  AllTold'
  <2>1. Told(file')
    BY <1>0, <1>4
  <2>2. Brings(proc'[p])
    BY <1>3, <1>4 DEF InRun
  <2>3. QED
    BY <1>2, <1>4, <2>1, <2>2
<1>5. CASE applyRepositoryPlanfile(p)
  <2>1. proc'[p].pc = "next" /\ proc'[p].copy = file' /\ file'.plan = FreshPlan /\ file'.status = "running"
    BY <1>5, ApplyEffect, CommandView
  <2>2. Told(file')
    BY <2>1, ToldFresh
  <2>3. QED
    BY <1>2, <1>3, <2>1, <2>2
<1>6. CASE resumeRepositoryPlan(p)
  BY <1>4, <1>6, ResumeEffect DEF InRun
<1>7. CASE cleanupRepositoryPlan(p)
  <2> DEFINE g == proc'[p].copy
  <2>1. file' = file /\ proc'[p].pc = "save" /\ \A k \in {"status", "plan", "requests", "verification", "review"} : g[k] = file[k]
    BY <1>7, CleanupEffect
  <2>2. g.exported = file.exported /\ g.session = "cleaned"
    BY <1>7, CommandView
  <2> HIDE DEF g
  <2>3. g["status"] = file["status"] /\ g["plan"] = file["plan"] /\ g["verification"] = file["verification"]
        /\ g["review"] = file["review"]
    BY <2>1
  <2>4. Told(g)
    BY <1>0, <2>2, <2>3, ToldSame
  <2>5. QED
    BY <1>0, <1>2, <1>3, <2>1, <2>4 DEF g
<1>8. ASSUME NEW r \in Request, NEW d \in {"approved", "rejected"}, decideScopeRequest(p, r, d)
      PROVE  AllTold'
  <2>1. file' = file /\ proc'[p].pc = "note"
    BY <1>8, DecideEffect
  <2>2. QED
    BY <1>4, <2>1 DEF InRun
<1>9. CASE readEnvelope(p)
  BY <1>4, <1>9, ResumeChecks DEF InRun
<1>10. ASSUME NEW id, NEW d \in {"approved", "rejected"}
       PROVE  /\ Told(updateScopeStatus(file, id, d))
              /\ Told(f) => Told(markScopeExpansionApplied(f, id))
  <2> DEFINE g == updateScopeStatus(file, id, d)
             h == markScopeExpansionApplied(f, id)
  <2>1. /\ g.status = file.status /\ g.session = file.session /\ g.plan = file.plan /\ g.verification = file.verification
        /\ g.review = file.review /\ g.exported = file.exported
        /\ h.status = f.status /\ h.session = f.session /\ h.plan = f.plan /\ h.verification = f.verification
        /\ h.review = f.review /\ h.exported = f.exported
    BY <1>0, MarkedRest
  <2> HIDE DEF g, h, f
  <2>2. Told(g)
    BY <1>0, <2>1, ToldSame
  <2>3. Told(f) => Told(h)
    BY <2>1, ToldSame
  <2>4. QED
    BY <2>2, <2>3 DEF g, h
<1>11. CASE readDecision(p)
  <2>1. /\ file' = file
        /\ \/ proc'[p].pc = "idle"
           \/ proc'[p].pc = "start" /\ proc'[p].copy = updateScopeStatus(file, proc[p].scope.id, "approved")
    BY <1>11, ResumeChecks
  <2>2. "approved" \in {"approved", "rejected"}
    OBVIOUS
  <2>3. Told(updateScopeStatus(file, proc[p].scope.id, "approved"))
    BY <1>10, <2>2
  <2>4. QED
    BY <1>0, <1>2, <1>3, <2>1, <2>3 DEF InRun
<1>12. CASE noteDecision(p)
  <2>1. /\ file' = file /\ proc[p].pc = "note"
        /\ \/ proc'[p].pc = "idle"
           \/ proc'[p].pc = "save" /\ proc'[p].copy = updateScopeStatus(file, proc[p].scope.id, proc[p].decision)
    BY <1>12, ResumeChecks
  <2>2. proc[p].decision \in {"approved", "rejected"}
    BY <1>0, <2>1 DEF Shape
  <2>3. Told(updateScopeStatus(file, proc[p].scope.id, proc[p].decision))
    BY <1>10, <2>2
  <2>4. QED
    BY <1>0, <1>2, <1>3, <2>1, <2>3 DEF InRun
<1>13. CASE saveStatus(p)
  <2>1. proc[p].pc = "save" /\ file' = f /\ proc'[p].pc = "idle"
    BY <1>13, ResumeChecks
  <2>2. QED
    BY <1>0, <1>2, <1>3, <2>1 DEF InRun
<1>14. CASE startResumed(p)
  <2> DEFINE g == file'
  <2>1. /\ proc[p].pc = "start" /\ proc'[p].pc = "next" /\ proc'[p].copy = g /\ g.status = "running"
        /\ g["verification"] = f["verification"] /\ g["review"] = f["review"]
        /\ \A n \in Node : g.plan.node[n] = f.plan.node[n]
    BY <1>14, BeginEffect
  <2>2. g.session = "running" /\ g.exported = f.exported /\ Told(f)
    BY <1>0, <1>14, <2>1, BeginView
  <2> HIDE DEF g, f
  <2>3. Told(g)
    BY <2>1, <2>2, ToldSame
  <2>4. QED
    BY <1>2, <1>3, <2>1, <2>3 DEF g
<1>15. CASE beginNode(p)
  <2> DEFINE g == file'
  <2>1. /\ proc[p].pc = "next" /\ proc'[p].pc = "node" /\ proc'[p].copy = g /\ g.status = "running"
        /\ g["verification"] = f["verification"] /\ g["review"] = f["review"]
        /\ \A n \in Node \ {proc[p].node} : g.plan.node[n] = f.plan.node[n]
    BY <1>15, BeginEffect
  <2>2. g.session = f.session /\ g.exported = f.exported /\ g.plan.node[proc[p].node] = "running" /\ Told(f)
    BY <1>0, <1>15, <2>1, BeginView DEF InRun
  <2> HIDE DEF g, f
  <2>3. \A n \in Node : g.plan.node[n] \in Done => f.plan.node[n] \in Done
    BY <2>1, <2>2 DEF Done
  <2>4. Told(g)
    BY <2>1, <2>2, <2>3, ToldSame
  <2>5. QED
    BY <1>2, <1>3, <2>1, <2>4 DEF g
<1>16. CASE NodeEnds(p)
  <2>1. /\ proc[p].pc = "node" /\ file' = file /\ proc'[p].pc = "mark" /\ proc'[p]["copy"] = f
        /\ proc'[p]["node"] = proc[p]["node"]
    BY <1>16, NodeEndEffect
  <2>2. Brings(proc'[p])
    BY <1>0, <1>16, <2>1, NodeEndVerdict DEF Brings, Done
  <2>3. QED
    BY <1>0, <1>2, <2>1, <2>2 DEF InRun
<1>17. CASE writeEvidence(p)
  <2>1. proc[p].pc = "node" /\ UNCHANGED proc /\ file' = f
    BY <1>17, EndEffect
  <2>2. QED
    BY <1>0, <1>2, <2>1 DEF InRun
<1>18. ASSUME NEW r \in Request, NEW c \in Content, createScopeExpansionApproval(p, r, c)
       PROVE  AllTold'
  <2>1. proc[p].pc = "node" /\ file' = file /\ proc'[p].pc = "attach" /\ proc'[p]["copy"] = f
    BY <1>18, RequestEffect
  <2>2. QED
    BY <1>0, <1>2, <1>3, <2>1 DEF InRun
<1>19. CASE recordEnvelope(p)
  <2>1. proc[p].pc = "attach" /\ file' = file /\ proc'[p].pc = "enter" /\ proc'[p]["copy"] = f
    BY <1>19, RequestEffect
  <2>2. QED
    BY <1>0, <1>2, <1>3, <2>1 DEF InRun
<1>20. ASSUME NEW given \in {"pending_approval", "expired"}, enterRequest(p, given)
       PROVE  AllTold'
  <2> DEFINE g == file'
  <2>1. /\ proc[p].pc = "enter" /\ proc'[p].pc = "mark" /\ proc'[p].copy = g /\ proc'[p].result = "yielded"
        /\ g["status"] = f["status"] /\ g["plan"] = f["plan"] /\ g["verification"] = f["verification"]
        /\ g["review"] = f["review"]
    BY <1>20, RequestEffect
  <2>2. g.session = f.session /\ g.exported = f.exported /\ Told(f)
    BY <1>0, <1>20, <2>1, RequestView DEF InRun
  <2> HIDE DEF g, f
  <2>3. Told(g)
    BY <2>1, <2>2, ToldSame
  <2>4. Brings(proc'[p])
    BY <2>1 DEF Brings, Done
  <2>5. QED
    BY <1>2, <2>1, <2>3, <2>4 DEF g
<1>21. CASE markResult(p)
  <2> DEFINE g == file'
  <2>1. /\ proc[p].pc = "mark" /\ proc'[p].copy = g /\ proc'[p].pc # "mark" /\ g["status"] = f["status"]
        /\ g.plan.node[proc[p].node] = proc[p].result
        /\ \A n \in Node \ {proc[p].node} : g.plan.node[n] = f.plan.node[n]
        /\ g.verification = IF proc[p].verification = "none" THEN f.verification ELSE proc[p].verification
        /\ g.review = IF proc[p].review = "none" THEN f.review ELSE proc[p].review
    BY <1>21, MarkEffect
  <2>2. g.session = f.session /\ g.exported = f.exported /\ Told(f)
    BY <1>0, <1>21, <2>1, MarkView DEF InRun
  <2> HIDE DEF g, f
  <2>3. /\ f.verification # "none" \/ proc[p].verification # "none" => g.verification # "none"
        /\ f.review # "none" \/ proc[p].review # "none" => g.review # "none"
    BY <2>1
  <2>4. ASSUME NEW m \in Node, g.plan.node[m] \in Done
        PROVE  (Kinds[m] = "verify" => g.verification # "none") /\ (Kinds[m] = "review" => g.review # "none")
    <3>1. CASE m = proc[p].node
      BY <1>0, <2>1, <2>3, <2>4, <3>1 DEF Brings
    <3>2. CASE m # proc[p].node
      BY <2>1, <2>2, <2>3, <2>4, <3>2 DEF Told
    <3>3. QED
      BY <3>1, <3>2
  <2>5. Told(g)
    BY <2>1, <2>2, <2>4 DEF Told
  <2>6. QED
    BY <1>2, <1>3, <2>1, <2>5 DEF g
<1>22. CASE finishRun(p)
  <2> DEFINE g == file'
  <2>1. /\ proc[p].pc = "final" /\ g["plan"] = f["plan"] /\ g["verification"] = f["verification"] /\ g["review"] = f["review"]
        /\ proc'[p].pc = "idle" \/ (proc'[p].pc = "applied" /\ proc'[p].copy = g)
    BY <1>22, EndEffect
  <2>2. g.exported = TRUE /\ g.session # "none" /\ Told(f)
    BY <1>0, <1>22, <2>1, EndView DEF InRun
  <2> HIDE DEF g, f
  <2>3. Told(g)
    BY <2>1, <2>2 DEF Told
  <2>4. QED
    BY <1>2, <1>3, <2>1, <2>3 DEF g, InRun
<1>23. CASE applyScope(p)
  <2>1. proc[p].pc = "applied" /\ proc'[p].pc = "idle" /\ file' = markScopeExpansionApplied(f, proc[p].scope.id)
    BY <1>23, EndEffect
  <2>2. "approved" \in {"approved", "rejected"} /\ Told(f)
    BY <1>0, <2>1 DEF InRun
  <2>3. Told(markScopeExpansionApplied(f, proc[p].scope.id))
    BY <1>10, <2>2
  <2>4. QED
    BY <1>2, <1>3, <2>1, <2>3 DEF InRun
<1>24. CASE missWorktree(p)
  BY <1>4, <1>24, EndEffect DEF InRun
<1>25. CASE abort(p) \/ \E c \in Content \cup {"none"} : tearPatch(p, c)
  <2>1. file' = file /\ Return(p)
    BY <1>25 DEF abort, tearPatch
  <2>2. proc'[p].pc = "idle"
    BY <2>1 DEF Return, Idle, IInv, TypeOK
  <2>3. QED
    BY <1>4, <2>1, <2>2 DEF InRun
<1>26. CASE Command(p)
  BY <1>5, <1>6, <1>7, <1>8, <1>26 DEF Command
<1>27. CASE Advance(p)
  BY <1>9, <1>11, <1>12, <1>13, <1>14, <1>15, <1>16, <1>17, <1>18, <1>19, <1>20, <1>21, <1>22, <1>23, <1>24, <1>27 DEF Advance
<1>28. Command(p) \/ Advance(p) \/ abort(p) \/ \E c \in Content \cup {"none"} : tearPatch(p, c)
  BY DEF Step, Advance, NodeEnds
<1>29. QED
  BY <1>25, <1>26, <1>27, <1>28

\* A step keeps the cleanup on offer while there is a worktree.
LEMMA CleanableStep ==
  ASSUME IInv, Alone, Cleanable, NEW p \in Process, Command(p) \/ Step(p) \/ abort(p)
  PROVE  Cleanable'
<1> SUFFICES ASSUME overlaps' = 0 PROVE Cleanable'
  BY DEF Cleanable
<1> DEFINE f == proc[p].copy
<1>0. file \in StatusFile /\ f \in StatusFile /\ proc[p].pc \in Pc /\ Shape(proc[p]) /\ proc \in [Process -> Proc] /\ worktree \in Worktree
  BY ProcFields DEF IInv, TypeOK, Worktree
<1>1. overlaps = 0 /\ \A q \in Process : q # p => proc'[q].pc = "idle"
  <2>1. \A q \in Process : q # p => proc'[q] = proc[q]
    BY ProcFrame
  <2>2. CASE Command(p)
    BY <2>1, <2>2, CommandAtRest DEF AtRest
  <2>3. CASE Step(p) \/ abort(p)
    <3>1. overlaps = 0 /\ proc[p].pc # "idle"
      BY <2>3, StepIsBusy
    <3>2. QED
      BY <2>1, <3>1 DEF Alone
  <2>4. QED
    BY <2>2, <2>3
<1>2. /\ worktree.present => Kept(file)
      /\ proc[p].pc \in InRun => Kept(f)
      /\ proc[p].pc = "save" /\ worktree.present => Kept(f)
  BY <1>1 DEF Cleanable
<1>3. ASSUME worktree'.present => Kept(file'), proc'[p].pc \in InRun => Kept(proc'[p].copy),
             proc'[p].pc = "save" /\ worktree'.present => Kept(proc'[p].copy)
      PROVE  Cleanable'
  <2>1. "idle" \notin InRun /\ "idle" # "save"
    BY DEF InRun
  <2>2. \A q \in Process : /\ proc'[q].pc \in InRun => Kept(proc'[q].copy)
                           /\ proc'[q].pc = "save" /\ worktree'.present => Kept(proc'[q].copy)
    BY <1>1, <1>3, <2>1
  <2>3. QED
    BY <1>3, <2>2 DEF Cleanable
<1>4. ASSUME NEW g, NEW h, g.session = h.session
      PROVE  Kept(g) <=> Kept(h)
  BY <1>4 DEF Kept
<1>5. ASSUME file' = file, worktree'.present = worktree.present, proc'[p].pc \notin InRun \cup {"save"}
      PROVE  Cleanable'
  <2>1. worktree'.present => Kept(file')
    BY <1>2, <1>5
  <2>2. QED
    BY <1>3, <1>5, <2>1
<1>6. ASSUME proc'[p].pc # "save", Kept(file'), proc'[p].pc \in InRun => proc'[p].copy = file'
      PROVE  Cleanable'
  BY <1>3, <1>6
<1>7. CASE applyRepositoryPlanfile(p)
  <2>1. proc'[p].pc = "next" /\ proc'[p].copy = file' /\ file'.session = "running"
    BY <1>7, ApplyEffect, CommandView
  <2>2. Kept(file')
    BY <2>1 DEF Kept
  <2>3. QED
    BY <1>6, <2>1, <2>2
<1>8. CASE resumeRepositoryPlan(p)
  <2>1. file' = file /\ worktree' = worktree /\ proc'[p].pc = "envelope"
    BY <1>8, ResumeEffect
  <2>2. QED
    BY <1>5, <2>1 DEF InRun
<1>9. CASE cleanupRepositoryPlan(p)
  <2>1. ~ worktree'.present /\ proc'[p].pc = "save"
    BY <1>9, CleanupEffect
  <2>2. QED
    BY <1>3, <2>1 DEF InRun
<1>10. ASSUME NEW r \in Request, NEW d \in {"approved", "rejected"}, decideScopeRequest(p, r, d)
       PROVE  Cleanable'
  <2>1. file' = file /\ worktree' = worktree /\ proc'[p].pc = "note"
    BY <1>10, DecideEffect
  <2>2. QED
    BY <1>5, <2>1 DEF InRun
<1>11. CASE readEnvelope(p) \/ readDecision(p)
  <2>1. file' = file /\ worktree' = worktree /\ proc'[p].pc \in {"idle", "decision", "start"}
    BY <1>11, ResumeChecks
  <2>2. QED
    BY <1>5, <2>1 DEF InRun
<1>12. CASE noteDecision(p)
  <2>1. /\ file' = file /\ worktree' = worktree /\ proc[p].pc = "note"
        /\ \/ proc'[p].pc = "idle"
           \/ proc'[p].pc = "save" /\ proc'[p].copy = updateScopeStatus(file, proc[p].scope.id, proc[p].decision)
    BY <1>12, ResumeChecks
  <2>2. proc[p].decision \in {"approved", "rejected"}
    BY <1>0, <2>1 DEF Shape
  <2> DEFINE g == updateScopeStatus(file, proc[p].scope.id, proc[p].decision)
  <2>3. g.session = file.session
    BY <1>0, <2>2, MarkedRest
  <2> HIDE DEF g
  <2>4. Kept(g) <=> Kept(file)
    BY <1>4, <2>3
  <2>5. CASE proc'[p].pc = "idle"
    BY <1>5, <2>1, <2>5 DEF InRun
  <2>6. CASE proc'[p].pc = "save" /\ proc'[p].copy = g
    BY <1>2, <1>3, <2>1, <2>4, <2>6 DEF InRun
  <2>7. QED
    BY <2>1, <2>5, <2>6 DEF g
<1>13. CASE saveStatus(p)
  <2>1. proc[p].pc = "save" /\ file' = f /\ worktree' = worktree /\ proc'[p].pc = "idle"
    BY <1>13, ResumeChecks
  <2>2. worktree'.present => Kept(file')
    BY <1>2, <2>1
  <2>3. QED
    BY <1>3, <2>1, <2>2 DEF InRun
<1>14. CASE startResumed(p)
  <2>1. proc'[p].pc = "next" /\ proc'[p].copy = file' /\ file'.session = "running"
    BY <1>14, BeginEffect, BeginView
  <2>2. Kept(file')
    BY <2>1 DEF Kept
  <2>3. QED
    BY <1>6, <2>1, <2>2
<1>15. ASSUME proc[p].pc \in InRun, file'.session = f.session, proc'[p].pc # "save", proc'[p].pc \in InRun => proc'[p].copy = file'
       PROVE  Cleanable'
  <2>1. Kept(file') <=> Kept(f)
    BY <1>4, <1>15
  <2>2. QED
    BY <1>2, <1>6, <1>15, <2>1
<1>16. CASE beginNode(p)
  <2>1. /\ proc[p].pc = "next" /\ proc'[p].pc = "node" /\ proc'[p].copy = file' /\ file'.session = f.session
    BY <1>16, BeginEffect, BeginView
  <2>2. QED
    BY <1>15, <2>1 DEF InRun
<1>17. ASSUME proc[p].pc \in InRun, file' = file, worktree'.present = worktree.present, proc'[p].pc # "save", proc'[p].copy = f
       PROVE  Cleanable'
  <2>1. worktree'.present => Kept(file')
    BY <1>2, <1>17
  <2>2. Kept(proc'[p].copy)
    BY <1>2, <1>17
  <2>3. QED
    BY <1>3, <1>17, <2>1, <2>2
<1>18. CASE NodeEnds(p)
  <2>1. /\ proc[p].pc = "node" /\ file' = file /\ proc'[p].pc = "mark" /\ proc'[p]["copy"] = f
        /\ worktree'.present = worktree.present
    BY <1>18, NodeEndEffect
  <2>2. QED
    BY <1>17, <2>1 DEF InRun
<1>19. CASE writeEvidence(p)
  <2>1. proc[p].pc = "node" /\ UNCHANGED proc /\ file' = f
    BY <1>19, EndEffect
  <2>2. QED
    BY <1>15, <2>1 DEF InRun
<1>20. ASSUME NEW r \in Request, NEW c \in Content, createScopeExpansionApproval(p, r, c)
       PROVE  Cleanable'
  <2>1. proc[p].pc = "node" /\ file' = file /\ worktree' = worktree /\ proc'[p].pc = "attach" /\ proc'[p]["copy"] = f
    BY <1>20, RequestEffect
  <2>2. QED
    BY <1>17, <2>1 DEF InRun
<1>21. CASE recordEnvelope(p)
  <2>1. proc[p].pc = "attach" /\ file' = file /\ worktree' = worktree /\ proc'[p].pc = "enter" /\ proc'[p]["copy"] = f
    BY <1>21, RequestEffect
  <2>2. QED
    BY <1>17, <2>1 DEF InRun
<1>22. ASSUME NEW given \in {"pending_approval", "expired"}, enterRequest(p, given)
       PROVE  Cleanable'
  <2>1. proc[p].pc = "enter" /\ proc'[p].pc = "mark" /\ proc'[p].copy = file' /\ file'.session = f.session
    BY <1>22, RequestEffect, RequestView
  <2>2. QED
    BY <1>15, <2>1 DEF InRun
<1>23. CASE markResult(p)
  <2>1. proc[p].pc = "mark" /\ proc'[p].pc \in {"final", "next"} /\ proc'[p].copy = file' /\ file'.session = f.session
    BY <1>23, MarkEffect, MarkView
  <2>2. QED
    BY <1>15, <2>1 DEF InRun
<1>24. CASE finishRun(p)
  <2>1. /\ proc'[p].pc = "idle" \/ (proc'[p].pc = "applied" /\ proc'[p].copy = file')
        /\ file'.session \in {"failed", "retained", "completed"}
    BY <1>24, EndEffect, EndView
  <2>2. Kept(file')
    BY <2>1 DEF Kept
  <2>3. QED
    BY <1>6, <2>1, <2>2 DEF InRun
<1>25. CASE applyScope(p)
  <2>1. proc[p].pc = "applied" /\ proc'[p].pc = "idle" /\ file' = markScopeExpansionApplied(f, proc[p].scope.id)
    BY <1>25, EndEffect
  <2>2. "approved" \in {"approved", "rejected"}
    OBVIOUS
  <2>3. file'.session = f.session
    BY <1>0, <2>1, <2>2, MarkedRest
  <2>4. QED
    BY <1>15, <2>1, <2>3 DEF InRun
<1>26. CASE missWorktree(p)
  <2>1. file' = file /\ worktree' = worktree /\ proc'[p].pc = "idle"
    BY <1>26, EndEffect
  <2>2. QED
    BY <1>5, <2>1 DEF InRun
<1>27. CASE abort(p) \/ \E c \in Content \cup {"none"} : tearPatch(p, c)
  <2>1. file' = file /\ Return(p)
    BY <1>27 DEF abort, tearPatch
  <2>2. proc'[p].pc = "idle"
    BY <1>0, <2>1 DEF Return, Idle
  <2>3. worktree'.present = worktree.present
    <3>1. CASE abort(p)
      BY <3>1 DEF abort
    <3>2. ASSUME NEW c \in Content \cup {"none"}, tearPatch(p, c)
          PROVE  worktree'.present = worktree.present
      BY <1>0, <3>2 DEF tearPatch, touched, Worktree
    <3>3. QED
      BY <1>27, <3>1, <3>2
  <2>4. QED
    BY <1>5, <2>1, <2>2, <2>3 DEF InRun
<1>28. CASE Command(p)
  BY <1>7, <1>8, <1>9, <1>10, <1>28 DEF Command
<1>29. CASE Advance(p)
  BY <1>11, <1>12, <1>13, <1>14, <1>16, <1>18, <1>19, <1>20, <1>21, <1>22, <1>23, <1>24, <1>25, <1>26, <1>29 DEF Advance
<1>30. Command(p) \/ Advance(p) \/ abort(p) \/ \E c \in Content \cup {"none"} : tearPatch(p, c)
  BY DEF Step, Advance, NodeEnds
<1>31. QED
  BY <1>27, <1>28, <1>29, <1>30

\* The entries decide.
LEMMA WaitsSame ==
  ASSUME NEW f, NEW g, NEW rw, NEW x, g.requests = f.requests
  PROVE  /\ Waits(f, rw, x) => Waits(g, rw, x)
         /\ \A id : Used(f, id) => Used(g, id)
BY DEF Waits, Used, Ids

\* A file without entries.
LEMMA WaitsEmpty ==
  ASSUME NEW f, NEW rw, NEW x, f.requests = <<>>
  PROVE  Waits(f, rw, x)
<1>1. DOMAIN f.requests = {}
  OBVIOUS
<1>2. QED
  BY <1>1 DEF Waits

\* A row is left out of account.
LEMMA WaitsBut ==
  ASSUME NEW f \in StatusFile, NEW rw, NEW rx, NEW x, Waits(f, rw, "none"), \A u \in Request : u # x => rx[u] = rw[u]
  PROVE  Waits(f, rx, x)
BY EntryFields DEF Waits

\* The entries of a request are brought in line with a decision.
LEMMA WaitsMarked ==
  ASSUME NEW f \in StatusFile, NEW rw, NEW id, NEW d \in {"approved", "rejected"}, Waits(f, rw, id), rw[id].decision = d
  PROVE  Waits(updateScopeStatus(f, id, d), rw, "none")
<1> DEFINE g == updateScopeStatus(f, id, d)
<1>1. /\ DOMAIN g.requests = DOMAIN f.requests
      /\ \A i \in DOMAIN f.requests :
           /\ g.requests[i].id = f.requests[i].id
           /\ f.requests[i].id # id => g.requests[i] = f.requests[i]
           /\ f.requests[i].id = id => g.requests[i].approval = d
  BY MarkedEntries
<1> HIDE DEF g
<1>2. IsInjective(Ids(g)) => IsInjective(Ids(f))
  <2>1. DOMAIN g.requests = DOMAIN f.requests /\ \A i \in DOMAIN f.requests : g.requests[i].id = f.requests[i].id
    BY <1>1
  <2>2. Ids(g) = Ids(f)
    BY <2>1 DEF Ids
  <2>3. QED
    BY <2>2
<1>3. d # "requested"
  OBVIOUS
<1>4. Waits(g, rw, "none")
  BY <1>1, <1>2, <1>3 DEF Waits
<1>5. QED
  BY <1>4 DEF g

\* The request of a resume is marked as approved.
LEMMA UsedMarked ==
  ASSUME NEW f \in StatusFile, NEW id, \E i \in DOMAIN f.requests : f.requests[i].id = id
  PROVE  Used(updateScopeStatus(f, id, "approved"), id)
<1> DEFINE g == updateScopeStatus(f, id, "approved")
<1>1. /\ DOMAIN g.requests = DOMAIN f.requests
      /\ \A i \in DOMAIN f.requests : /\ g.requests[i].id = f.requests[i].id
                                      /\ f.requests[i].id = id => g.requests[i].approval = "approved"
  <2>1. "approved" \in {"approved", "rejected"}
    OBVIOUS
  <2>2. QED
    BY <2>1, MarkedEntries
<1> HIDE DEF g
<1>2. Used(g, id)
  BY <1>1 DEF Used
<1>3. QED
  BY <1>2 DEF g

\* The entries of a request are used up.
LEMMA WaitsApplied ==
  ASSUME NEW f \in StatusFile, NEW rw, NEW id, Waits(f, rw, "none"), Used(f, id)
  PROVE  Waits(markScopeExpansionApplied(f, id), rw, "none")
<1> DEFINE g == markScopeExpansionApplied(f, id)
<1>1. /\ DOMAIN g.requests = DOMAIN f.requests
      /\ \A i \in DOMAIN f.requests :
           /\ g.requests[i].id = f.requests[i].id
           /\ f.requests[i].id # id => g.requests[i] = f.requests[i]
           /\ f.requests[i].id = id => g.requests[i].approval = "approved"
  <2>1. "approved" \in {"approved", "rejected"}
    OBVIOUS
  <2>2. QED
    BY <2>1, MarkedEntries
<1> HIDE DEF g
<1>2. IsInjective(Ids(g)) => IsInjective(Ids(f))
  <2>1. DOMAIN g.requests = DOMAIN f.requests /\ \A i \in DOMAIN f.requests : g.requests[i].id = f.requests[i].id
    BY <1>1
  <2>2. Ids(g) = Ids(f)
    BY <2>1 DEF Ids
  <2>3. QED
    BY <2>2
<1>3. PICK k \in DOMAIN f.requests : f.requests[k].id = id
  BY DEF Used
<1>4. IsInjective(Ids(f)) => rw[id].decision # "requested"
  BY <1>3, EntryFields DEF Used, Waits
<1>5. Waits(g, rw, "none")
  BY <1>1, <1>2, <1>4 DEF Waits
<1>6. QED
  BY <1>5 DEF g

\* A request is entered while its row waits for a decision.
LEMMA WaitsEntered ==
  ASSUME NEW f \in StatusFile, NEW g, NEW rw, NEW e \in Entry, Waits(f, rw, e.id), rw[e.id].decision = "requested",
         e.approval = "requested", g.requests = Append(f.requests, e)
  PROVE  /\ Waits(g, rw, "none")
         /\ \A id : Used(f, id) => Used(g, id)
<1>1. /\ f.requests \in Seq(Entry) /\ Len(f.requests) \in Nat /\ DOMAIN f.requests = 1 .. Len(f.requests)
  BY FileFields
<1>2. /\ DOMAIN g.requests = 1 .. (Len(f.requests) + 1) /\ g.requests[Len(f.requests) + 1] = e
      /\ \A i \in 1 .. Len(f.requests) : g.requests[i] = f.requests[i]
  BY <1>1
<1>3. \A i \in DOMAIN g.requests : i \in DOMAIN f.requests \/ i = Len(f.requests) + 1
  BY <1>1, <1>2
<1>4. \A i \in DOMAIN f.requests : i \in DOMAIN g.requests /\ i # Len(f.requests) + 1 /\ g.requests[i] = f.requests[i]
  BY <1>1, <1>2
<1>5. Len(f.requests) + 1 \in DOMAIN g.requests
  BY <1>1, <1>2
<1>6. ASSUME IsInjective(Ids(g))
      PROVE  /\ IsInjective(Ids(f))
             /\ \A i \in DOMAIN f.requests : f.requests[i].id # e.id
  <2>1. \A i, j \in DOMAIN g.requests : g.requests[i].id = g.requests[j].id => i = j
    BY <1>6 DEF IsInjective, Ids
  <2>2. \A i, j \in DOMAIN f.requests : f.requests[i].id = f.requests[j].id => i = j
    BY <1>4, <2>1
  <2>3. \A i \in DOMAIN f.requests : f.requests[i].id # e.id
    BY <1>2, <1>4, <1>5, <2>1
  <2>4. QED
    BY <2>2, <2>3 DEF IsInjective, Ids
<1>7. ASSUME IsInjective(Ids(g)), NEW i \in DOMAIN g.requests
      PROVE  g.requests[i].approval = "requested" <=> rw[g.requests[i].id].decision = "requested"
  <2>1. CASE i = Len(f.requests) + 1
    BY <1>2, <2>1
  <2>2. CASE i \in DOMAIN f.requests
    <3>1. f.requests[i].id # e.id /\ IsInjective(Ids(f)) /\ g.requests[i] = f.requests[i]
      BY <1>4, <1>6, <1>7, <2>2
    <3>2. QED
      BY <2>2, <3>1 DEF Waits
  <2>3. QED
    BY <1>3, <1>7, <2>1, <2>2
<1>8. ASSUME NEW id, Used(f, id)
      PROVE  Used(g, id)
  <2>1. PICK k \in DOMAIN f.requests : f.requests[k].id = id
    BY <1>8 DEF Used
  <2>2. k \in DOMAIN g.requests /\ g.requests[k].id = id
    BY <1>4, <2>1
  <2>3. ASSUME IsInjective(Ids(g)), NEW i \in DOMAIN g.requests, g.requests[i].id = id
        PROVE  g.requests[i].approval = "approved"
    <3>1. i # Len(f.requests) + 1
      BY <1>2, <1>6, <2>1, <2>3
    <3>2. i \in DOMAIN f.requests /\ g.requests[i] = f.requests[i]
      BY <1>3, <1>4, <2>3, <3>1
    <3>3. QED
      BY <1>6, <1>8, <2>3, <3>2 DEF Used
  <2>4. QED
    BY <2>2, <2>3 DEF Used
<1>9. QED
  BY <1>7, <1>8 DEF Waits

\* A step in quiet use keeps the file and the rows in agreement on what is undecided.
LEMMA AwaitingStep ==
  ASSUME IInv, IInv', Alone, Quiet => Consistent, Quiet => Awaiting, NEW p \in Process,
         Command(p) \/ Step(p) \/ abort(p), Quiet'
  PROVE  Awaiting'
<1> DEFINE f == proc[p].copy
           s == proc[p].scope
<1>0. /\ Quiet /\ (Command(p) \/ Advance(p)) /\ Consistent /\ Awaiting
      /\ \A q \in Process : q # p => proc[q].pc = "idle" /\ proc'[q] = proc[q]
      /\ AtRest' <=> proc'[p].pc = "idle"
      /\ Command(p) => AtRest
      /\ Advance(p) => proc[p].pc # "idle"
  BY QuietFrame
<1>1. /\ file \in StatusFile /\ row \in Rows /\ Shape(proc[p]) /\ f \in StatusFile /\ s \in Scope
      /\ proc[p].pc # "idle" => Awaits(proc[p]) /\ Now(proc[p])
      /\ proc[p].pc = "idle" /\ AtRest => Waits(file, row, "none")
  BY <1>0, ProcFields DEF IInv, TypeOK, Rows, Awaiting, Consistent
<1>2. ASSUME proc'[p].pc = "idle" => Waits(file', row', "none"),
             proc'[p].pc # "idle" => Awaits(proc[p])'
      PROVE  Awaiting'
  <2>1. \A q \in Process : proc'[q].pc # "idle" => Awaits(proc[q])'
    BY <1>0, <1>2
  <2>2. AtRest' => Waits(file', row', "none")
    BY <1>0, <1>2
  <2>3. QED
    BY <2>1, <2>2 DEF Awaiting
<1>3. ASSUME AtRest
      PROVE  Waits(file, row, "none")
  BY <1>0, <1>3 DEF Awaiting
<1>4. CASE applyRepositoryPlanfile(p)
  <2>1. file'.requests = <<>> /\ proc'[p].pc = "next" /\ proc'[p].copy = file' /\ proc'[p].scope = NoScope
    BY <1>4, ApplyEffect
  <2>2. Waits(proc'[p].copy, row', "none")
    BY <2>1, WaitsEmpty
  <2>3. Awaits(proc[p])'
    BY <2>1, <2>2 DEF Awaits
  <2>4. QED
    BY <1>2, <2>1, <2>3
<1>5. CASE resumeRepositoryPlan(p)
  <2>1. AtRest
    BY <1>0, <1>5 DEF Command
  <2>2. UNCHANGED <<file, approvals>> /\ proc'[p].pc = "envelope"
    BY <1>5, ResumeEffect
  <2>3. PICK i \in resumable(file) : file.requests[i].id = proc'[p].asked.id
    BY <1>5, ResumeEffect
  <2>4. \E k \in DOMAIN file'.requests : file'.requests[k].id = proc'[p].asked.id
    BY <2>2, <2>3 DEF resumable
  <2>5. Waits(file', row', "none")
    BY <1>3, <2>1, <2>2 DEF approvals
  <2>6. Awaits(proc[p])'
    BY <2>2, <2>4, <2>5 DEF Awaits, InRun
  <2>7. QED
    BY <1>2, <2>2, <2>6
<1>6. CASE cleanupRepositoryPlan(p)
  <2>1. AtRest
    BY <1>0, <1>6 DEF Command
  <2>2. UNCHANGED <<file, approvals>> /\ proc'[p].pc = "save" /\ proc'[p].copy.requests = file.requests
    BY <1>6, CleanupEffect
  <2>3. Waits(proc'[p].copy, row', "none")
    BY <1>3, <2>1, <2>2, WaitsSame DEF approvals
  <2>4. Awaits(proc[p])'
    BY <2>2, <2>3 DEF Awaits, InRun
  <2>5. QED
    BY <1>2, <2>2, <2>4
<1>7. ASSUME NEW r \in Request, NEW d \in {"approved", "rejected"}, decideScopeRequest(p, r, d)
      PROVE  Awaiting'
  <2>1. AtRest
    BY <1>0, <1>7 DEF Command
  <2>2. /\ file' = file /\ \A u \in Request : u # r => row'[u] = row[u]
        /\ proc'[p].pc = "note" /\ proc'[p].scope = [id |-> r, content |-> row[r].content]
    BY <1>7, DecideEffect
  <2>3. Waits(file, row', r)
    BY <1>1, <1>3, <2>1, <2>2, WaitsBut
  <2>4. Awaits(proc[p])'
    BY <2>2, <2>3 DEF Awaits, InRun
  <2>5. QED
    BY <1>2, <2>2, <2>4
<1>8. CASE readEnvelope(p)
  <2>1. /\ proc[p].pc = "envelope" /\ UNCHANGED <<file, approvals>>
        /\ \/ proc'[p].pc = "idle"
           \/ proc'[p].pc = "decision" /\ proc'[p].asked = proc[p].asked
    BY <1>8, ResumeChecks
  <2>2. Waits(file', row', "none") /\ \E i \in DOMAIN file'.requests : file'.requests[i].id = proc[p].asked.id
    BY <1>1, <2>1 DEF Awaits, approvals
  <2>3. proc'[p].pc # "idle" => Awaits(proc[p])'
    BY <2>1, <2>2 DEF Awaits, InRun
  <2>4. QED
    BY <1>2, <2>2, <2>3
<1>9. CASE readDecision(p)
  <2>1. /\ proc[p].pc = "decision" /\ UNCHANGED <<file, approvals>>
        /\ \/ proc'[p].pc = "idle"
           \/ /\ proc'[p].pc = "start" /\ proc'[p].scope = s
              /\ proc'[p].copy = updateScopeStatus(file, s.id, "approved")
              /\ proc[p].asked = s /\ row[s.id].decision = "approved"
    BY <1>9, ResumeChecks
  <2>2. Waits(file, row, "none") /\ \E i \in DOMAIN file.requests : file.requests[i].id = proc[p].asked.id
    BY <1>1, <2>1 DEF Awaits
  <2>3. ASSUME proc'[p].pc # "idle"
        PROVE  Awaits(proc[p])'
    <3>1. Waits(file, row, s.id)
      BY <1>1, <2>2, WaitsBut
    <3>2. "approved" \in {"approved", "rejected"}
      OBVIOUS
    <3>3. Waits(proc'[p].copy, row, "none")
      BY <1>1, <2>1, <2>3, <3>1, <3>2, WaitsMarked
    <3>4. Used(proc'[p].copy, s.id)
      BY <1>1, <2>1, <2>2, <2>3, UsedMarked
    <3>5. QED
      BY <2>1, <2>3, <3>3, <3>4 DEF Awaits, InRun, approvals
  <2>4. QED
    BY <1>2, <2>1, <2>2, <2>3 DEF approvals
<1>10. CASE noteDecision(p)
  <2>1. /\ proc[p].pc = "note" /\ UNCHANGED <<file, approvals>>
        /\ \/ proc'[p].pc = "idle" /\ envelope[s.id] = NoBody
           \/ /\ proc'[p].pc = "save"
              /\ proc'[p].copy = updateScopeStatus(file, s.id, proc[p].decision)
    BY <1>10, ResumeChecks
  <2>2. /\ Waits(file, row, s.id) /\ row[s.id].decision = proc[p].decision
        /\ proc[p].decision \in {"approved", "rejected"} /\ s.id \in Request
    BY <1>1, <2>1 DEF Now, Awaits, Shape, Asked
  <2>3. envelope[s.id] # NoBody
    <3>1. \A q \in Process : proc[q].pc # "attach"
      BY <1>0, <2>1
    <3>2. row[s.id].content = envelope[s.id]
      BY <1>0, <2>2, <3>1 DEF Consistent
    <3>3. row[s.id].content \in Body
      BY <2>1, <2>2 DEF IInv
    <3>4. NoBody \notin Body
      BY Nodes DEF Body, NoBody
    <3>5. QED
      BY <3>2, <3>3, <3>4
  <2>4. Waits(proc'[p].copy, row, "none")
    BY <1>1, <2>1, <2>2, <2>3, WaitsMarked
  <2>5. Awaits(proc[p])'
    BY <2>1, <2>3, <2>4 DEF Awaits, InRun, approvals
  <2>6. QED
    BY <1>2, <2>1, <2>3, <2>5
<1>11. CASE saveStatus(p)
  <2>1. proc[p].pc = "save" /\ UNCHANGED approvals /\ file' = f /\ proc'[p].pc = "idle"
    BY <1>11, ResumeChecks
  <2>2. Waits(file', row', "none")
    BY <1>1, <2>1 DEF Awaits, approvals
  <2>3. QED
    BY <1>2, <2>1, <2>2
<1>12. CASE startResumed(p) \/ beginNode(p)
  <2>1. /\ UNCHANGED approvals /\ proc'[p].copy = file' /\ file'.requests = f.requests
        /\ proc'[p].scope = s /\ proc[p].pc \in {"start", "next"} /\ proc'[p].pc \in {"next", "node"}
    BY <1>12, BeginEffect
  <2>2. Waits(f, row, "none") /\ (s # NoScope => Used(f, s.id))
    BY <1>1, <2>1 DEF Awaits, InRun
  <2>3. Waits(file', row, "none") /\ (s # NoScope => Used(file', s.id))
    BY <2>1, <2>2, WaitsSame
  <2>4. Awaits(proc[p])'
    BY <2>1, <2>3 DEF Awaits, InRun, approvals
  <2>5. QED
    BY <1>2, <2>1, <2>4
<1>13. CASE NodeEnds(p)
  <2>1. /\ proc[p].pc = "node" /\ UNCHANGED <<file, approvals>> /\ proc'[p].pc = "mark"
        /\ proc'[p]["copy"] = f /\ proc'[p]["scope"] = s
    BY <1>13, NodeEndEffect
  <2>2. Waits(f, row, "none") /\ (s # NoScope => Used(f, s.id))
    BY <1>1, <2>1 DEF Awaits, InRun
  <2>3. Awaits(proc[p])'
    BY <2>1, <2>2 DEF Awaits, InRun, approvals
  <2>4. QED
    BY <1>2, <2>1, <2>3
<1>14. CASE writeEvidence(p)
  <2>1. proc[p].pc = "node" /\ UNCHANGED <<approvals, proc>> /\ file' = f
    BY <1>14, EndEffect
  <2>2. Waits(f, row, "none") /\ (s # NoScope => Used(f, s.id))
    BY <1>1, <2>1 DEF Awaits, InRun
  <2>3. Awaits(proc[p])'
    BY <2>1, <2>2 DEF Awaits, InRun, approvals
  <2>4. QED
    BY <1>2, <2>1, <2>3
<1>15. ASSUME NEW r \in Request, NEW c \in Content, createScopeExpansionApproval(p, r, c)
       PROVE  Awaiting'
  <2>1. /\ proc[p].pc = "node" /\ proc'[p].pc = "attach"
        /\ proc'[p].asked = [id |-> r, content |-> [files |-> c, node |-> proc[p].node]]
        /\ proc'[p]["copy"] = f /\ proc'[p]["scope"] = s
        /\ \A u \in Request : u # r => row'[u] = row[u]
    BY <1>15, RequestEffect
  <2>2. Waits(f, row, "none") /\ (s # NoScope => Used(f, s.id))
    BY <1>1, <2>1 DEF Awaits, InRun
  <2>3. Waits(f, row', r) /\ proc'[p].asked.id = r
    BY <1>1, <2>1, <2>2, WaitsBut
  <2>4. Awaits(proc[p])'
    BY <2>1, <2>2, <2>3 DEF Awaits, InRun
  <2>5. QED
    BY <1>2, <2>1, <2>4
<1>16. CASE recordEnvelope(p)
  <2>1. /\ proc[p].pc = "attach" /\ UNCHANGED row /\ proc'[p].pc = "enter"
        /\ proc'[p]["asked"] = proc[p]["asked"] /\ proc'[p]["copy"] = f /\ proc'[p]["scope"] = s
    BY <1>16, RequestEffect
  <2>2. Waits(f, row, proc[p].asked.id) /\ (s # NoScope => Used(f, s.id))
    BY <1>1, <2>1 DEF Awaits, InRun
  <2>3. Awaits(proc[p])'
    BY <2>1, <2>2 DEF Awaits, InRun
  <2>4. QED
    BY <1>2, <2>1, <2>3
<1>17. ASSUME NEW given \in {"pending_approval", "expired"}, enterRequest(p, given)
       PROVE  Awaiting'
  <2> DEFINE e == [id |-> proc[p].asked.id, content |-> proc[p].asked.content, status |-> given, approval |-> "requested"]
  <2>1. /\ proc[p].pc = "enter" /\ UNCHANGED approvals /\ proc[p].asked \in Asked
        /\ proc'[p].pc = "mark" /\ proc'[p].copy = file' /\ proc'[p]["scope"] = s
        /\ file'.requests = Append(f.requests, e)
    BY <1>17, RequestEffect
  <2>2. /\ Waits(f, row, proc[p].asked.id) /\ (s # NoScope => Used(f, s.id))
        /\ row[proc[p].asked.id].decision = "requested"
    BY <1>1, <2>1 DEF Now, Awaits, InRun
  <2>3. e \in Entry /\ e.id = proc[p].asked.id /\ e.approval = "requested"
    BY <2>1 DEF Asked, Entry, RequestStatus
  <2> HIDE DEF e
  <2>4. Waits(file', row, "none") /\ (s # NoScope => Used(file', s.id))
    <3>1. Waits(f, row, e.id) /\ row[e.id].decision = "requested"
      BY <2>2, <2>3
    <3>2. Waits(file', row, "none") /\ \A id : Used(f, id) => Used(file', id)
      BY <1>1, <2>1, <2>3, <3>1, WaitsEntered
    <3>3. QED
      BY <2>2, <3>2
  <2>5. Awaits(proc[p])'
    BY <2>1, <2>4 DEF Awaits, InRun, approvals
  <2>6. QED
    BY <1>2, <2>1, <2>5
<1>18. CASE markResult(p)
  <2>1. /\ proc[p].pc = "mark" /\ UNCHANGED approvals /\ proc'[p].copy = file' /\ file'["requests"] = f["requests"]
        /\ proc'[p]["scope"] = s /\ proc'[p].pc \in {"final", "next"}
    BY <1>18, MarkEffect
  <2>2. Waits(f, row, "none") /\ (s # NoScope => Used(f, s.id))
    BY <1>1, <2>1 DEF Awaits, InRun
  <2>3. Waits(file', row, "none") /\ (s # NoScope => Used(file', s.id))
    BY <2>1, <2>2, WaitsSame
  <2>4. Awaits(proc[p])'
    BY <2>1, <2>3 DEF Awaits, InRun, approvals
  <2>5. QED
    BY <1>2, <2>1, <2>4
<1>19. CASE finishRun(p)
  <2>1. /\ proc[p].pc = "final" /\ UNCHANGED approvals /\ file'["requests"] = f["requests"]
        /\ \/ proc'[p].pc = "idle"
           \/ proc'[p].pc = "applied" /\ proc'[p].copy = file' /\ proc'[p]["scope"] = s
    BY <1>19, EndEffect
  <2>2. Waits(f, row, "none") /\ (s # NoScope => Used(f, s.id))
    BY <1>1, <2>1 DEF Awaits, InRun
  <2>3. Waits(file', row', "none") /\ (s # NoScope => Used(file', s.id))
    BY <2>1, <2>2, WaitsSame DEF approvals
  <2>4. proc'[p].pc # "idle" => Awaits(proc[p])'
    BY <2>1, <2>3 DEF Awaits, InRun
  <2>5. QED
    BY <1>2, <2>3, <2>4
<1>20. CASE applyScope(p)
  <2>1. proc[p].pc = "applied" /\ UNCHANGED approvals /\ proc'[p].pc = "idle" /\ file' = markScopeExpansionApplied(f, s.id)
    BY <1>20, EndEffect
  <2>2. s # NoScope
    BY <1>1, <2>1, ConstantsAssumption DEF Shape, Asked, NoScope
  <2>3. Waits(f, row, "none") /\ Used(f, s.id)
    BY <1>1, <2>1, <2>2 DEF Awaits, InRun
  <2>4. Waits(file', row', "none")
    BY <1>1, <2>1, <2>3, WaitsApplied DEF approvals
  <2>5. QED
    BY <1>2, <2>1, <2>4
<1>21. CASE missWorktree(p)
  <2>1. proc[p].pc \in {"final", "node"} /\ UNCHANGED <<file, approvals>> /\ proc'[p].pc = "idle"
    BY <1>21, EndEffect
  <2>2. Waits(file', row', "none")
    BY <1>1, <2>1 DEF Now, Awaits, InRun, approvals
  <2>3. QED
    BY <1>2, <2>1, <2>2
<1>22. QED
  BY <1>0, <1>4, <1>5, <1>6, <1>7, <1>8, <1>9, <1>10, <1>11, <1>12, <1>13, <1>14, <1>15, <1>16, <1>17, <1>18, <1>19, <1>20, <1>21
     DEF Command, Advance

\* The entries and the plan decide.
LEMMA AheadSame ==
  ASSUME NEW f, NEW g, NEW rw, NEW env, NEW y, g.requests = f.requests, g.plan = f.plan, Ahead(f, rw, env, y)
  PROVE  Ahead(g, rw, env, y)
<1>1. Live(g, rw, env, y) = Live(f, rw, env, y)
  BY LiveSame
<1>2. \A n : Untouched(f, n) => Untouched(g, n)
  BY DEF Untouched
<1>3. QED
  BY <1>1, <1>2 DEF Ahead

\* The status, the plan and the current node decide.
LEMMA StoppedSame ==
  ASSUME NEW f, NEW g, g.status = f.status, g.plan = f.plan, g.current = f.current, Stopped(f)
  PROVE  Stopped(g)
BY DEF Stopped

\* A plan does not end with a repair.
LEMMA LastNode ==
  ASSUME Layout
  PROVE  Kinds[Len(Kinds)] # "repair"
<1>1. PICK n \in Node : Kinds[n] = "review"
  BY DEF Layout
<1>2. Len(Kinds) \in Node /\ (n < Len(Kinds) \/ n = Len(Kinds))
  BY <1>1, Nodes
<1>3. CASE n < Len(Kinds)
  <2>1. Reviewed(Len(Kinds))
    BY <1>1, <1>3 DEF Reviewed
  <2>2. QED
    BY <1>2, <2>1 DEF Layout
<1>4. QED
  BY <1>1, <1>2, <1>3

\* Nobody has stopped at the start of the program.
LEMMA HaltedInit == Init => Halted
<1> SUFFICES ASSUME Init PROVE Halted
  OBVIOUS
<1>1. \A p \in Process : proc[p].pc = "idle"
  BY DEF Init, Idle
<1>2. file.requests = <<>> /\ file.status = "pending"
  BY DEF Init, createRepositoryPlanStatus
<1>3. Live(file, row, envelope, "none") = {}
  BY <1>2, LiveEmpty
<1>4. QED
  BY <1>1, <1>2, <1>3 DEF Halted, Ahead, Stopped

\* The commands in orderly use.
LEMMA HaltedCommand ==
  ASSUME IInv, Halted, NEW p \in Process, Command(p), AtRest, ~ revised'
  PROVE  /\ proc'[p].pc = "idle" => Ahead(file', row', envelope', "none") /\ Stopped(file')
         /\ proc'[p].pc # "idle" => Halts(proc[p])'
<1>0. file \in StatusFile /\ row \in Rows
  BY DEF IInv, TypeOK, Rows
<1>1. Ahead(file, row, envelope, "none") /\ Stopped(file)
  BY DEF Halted
<1>2. CASE applyRepositoryPlanfile(p)
  <2>1. /\ worktree'.present = TRUE /\ proc'[p].pc = "next" /\ proc'[p].copy = file' /\ proc'[p].node = 1
        /\ file'.plan = FreshPlan /\ proc'[p].errors = FALSE
    BY <1>2, ApplyEffect, CommandView
  <2>2. \A m \in Node : m > 1 => FreshPlan.node[m] \in {"pending", "ready"}
    BY DEF FreshPlan
  <2>3. Untouched(proc'[p].copy, proc'[p].node)
    BY <2>1, <2>2 DEF Untouched
  <2>4. Stands(proc[p])'
    BY <2>1, <2>3 DEF Stands
  <2>5. QED
    BY <2>1, <2>4 DEF Halts
<1>3. CASE resumeRepositoryPlan(p)
  <2>1. UNCHANGED <<file, approvals>> /\ proc'[p].pc = "envelope" /\ proc'[p].errors = FALSE
    BY <1>3, ResumeEffect, CommandView
  <2>2. Ahead(file', row', envelope', "none") /\ Stopped(file')
    BY <1>1, <2>1 DEF approvals
  <2>3. QED
    BY <2>1, <2>2 DEF Halts, InRun
<1>4. CASE cleanupRepositoryPlan(p)
  <2> DEFINE g == proc'[p].copy
  <2>1. UNCHANGED <<file, approvals>> /\ proc'[p].pc = "save" /\ g["requests"] = file["requests"] /\ g["plan"] = file["plan"]
        /\ g["status"] = file["status"]
    BY <1>4, CleanupEffect
  <2>2. g.current = file.current
    BY <1>4, CommandView
  <2> HIDE DEF g
  <2>3. Ahead(g, row, envelope, "none")
    BY <1>1, <2>1, AheadSame
  <2>4. Stopped(g)
    BY <1>1, <2>1, <2>2, StoppedSame
  <2>5. Ahead(g, row', envelope', "none")
    BY <2>1, <2>3 DEF approvals
  <2>6. QED
    BY <2>1, <2>4, <2>5 DEF Halts, InRun, g
<1>5. ASSUME NEW r \in Request, NEW d \in {"approved", "rejected"}, decideScopeRequest(p, r, d)
      PROVE  proc'[p].pc = "note" /\ Halts(proc[p])'
  <2>1. /\ UNCHANGED <<file, envelope>> /\ row'[r].decision = d /\ \A u \in Request : u # r => row'[u] = row[u]
        /\ revised' = (revised \/ row[r].decision # "requested")
        /\ proc'[p].pc = "note" /\ proc'[p].scope = [id |-> r, content |-> row[r].content]
    BY <1>5, DecideEffect
  <2>2. row[r].decision = "requested"
    BY <2>1
  <2>3. Live(file, row', envelope, r) \subseteq Live(file, row, envelope, "none")
    BY <1>0, <2>1, <2>2, EntryFields DEF Live
  <2>4. Ahead(file, row', envelope, r)
    BY <1>1, <2>3 DEF Ahead
  <2>5. QED
    BY <1>1, <2>1, <2>4 DEF Halts, InRun
<1>6. QED
  BY <1>2, <1>3, <1>4, <1>5 DEF Command

\* A resume on its way to its run, and the end of a decision.
LEMMA HaltedResume ==
  ASSUME IInv, Consistent, Ordered, Checked, Halted, NEW p \in Process, proc[p].pc # "idle",
         \A q \in Process : q # p => proc[q].pc = "idle",
         readEnvelope(p) \/ readDecision(p) \/ noteDecision(p) \/ saveStatus(p) \/ startResumed(p)
  PROVE  /\ proc'[p].pc = "idle" => Ahead(file', row', envelope', "none") /\ Stopped(file')
         /\ proc'[p].pc # "idle" => Halts(proc[p])'
<1>0. /\ file \in StatusFile /\ row \in Rows /\ Shape(proc[p]) /\ proc[p].copy \in StatusFile /\ proc[p].node \in Node
      /\ Order(proc[p]) /\ Now(proc[p]) /\ Halts(proc[p]) /\ Check(proc[p])
  BY ProcFields DEF IInv, TypeOK, Rows, Ordered, Consistent, Halted, Checked
<1>1. CASE readEnvelope(p)
  <2>1. /\ proc[p].pc = "envelope" /\ UNCHANGED <<file, approvals>>
        /\ proc'[p].pc \in {"idle", "decision"}
    BY <1>1, ResumeChecks
  <2>2. proc[p].errors = FALSE /\ (proc'[p].pc = "idle" \/ proc'[p].errors = proc[p].errors)
    BY <1>0, <1>1, <2>1, BeginView DEF Halts
  <2>3. Ahead(file', row', envelope', "none") /\ Stopped(file')
    BY <1>0, <2>1 DEF Halts, approvals
  <2>4. QED
    BY <2>1, <2>2, <2>3 DEF Halts, InRun
<1>2. CASE readDecision(p)
  <2>1. /\ proc[p].pc = "decision" /\ UNCHANGED <<file, approvals>>
        /\ \/ proc'[p].pc = "idle"
           \/ /\ proc'[p].pc = "start" /\ proc'[p].scope = proc[p].scope /\ proc'[p].node = proc[p].node
              /\ proc'[p].copy = updateScopeStatus(file, proc[p].scope.id, "approved")
              /\ proc[p].asked = proc[p].scope /\ row[proc[p].scope.id].decision = "approved"
    BY <1>2, ResumeChecks
  <2>2. Chain(file, row, envelope, "none") /\ proc[p].node = proc[p].asked.content.node
    BY <1>0, <2>1 DEF Order
  <2>3. PICK i \in DOMAIN file.requests : /\ file.requests[i].id = proc[p].asked.id
                                          /\ file.requests[i].content = proc[p].asked.content
                                          /\ file.requests[i].status # "applied"
    BY <1>0, <2>1 DEF Order
  <2>4. proc[p].scope = [id |-> proc[p].asked.id, content |-> envelope[proc[p].asked.id]]
    BY <1>0, <2>1 DEF Now
  <2>5. Ahead(file, row, envelope, "none") /\ Stopped(file) /\ proc[p].errors = FALSE
    BY <1>0, <2>1 DEF Halts
  <2>6. ASSUME proc'[p].pc # "idle"
        PROVE  Halts(proc[p])'
    <3> DEFINE g == updateScopeStatus(file, proc[p].scope.id, "approved")
               id == proc[p].scope.id
    <3>1. /\ g \in StatusFile /\ DOMAIN g.requests = DOMAIN file.requests /\ g["plan"] = file["plan"]
          /\ \A k \in DOMAIN file.requests :
               /\ g.requests[k].id = file.requests[k].id /\ g.requests[k].content = file.requests[k].content
               /\ file.requests[k].id # id => g.requests[k] = file.requests[k]
      <4>1. "approved" \in {"approved", "rejected"}
        OBVIOUS
      <4>2. QED
        BY <1>0, <4>1, MarkedEntries
    <3>2. proc'[p].copy = g /\ row[id].decision = "approved" /\ proc[p].asked = proc[p].scope
      BY <2>1, <2>6
    <3> HIDE DEF g
    <3>3. proc[p].asked.id = id /\ proc[p].asked.content = envelope[id]
      BY <2>4, <3>2
    <3> HIDE DEF id
    <3>4. i \in Live(file, row, envelope, "none") /\ file.requests[i].id = id
      BY <2>3, <3>2, <3>3 DEF Live
    <3>5. ASSUME NEW k \in Live(g, row, envelope, "none")
          PROVE  g.requests[k].content = envelope[id]
      <4>1. k \in DOMAIN g.requests /\ g.requests[k].content = envelope[g.requests[k].id]
        BY <3>5 DEF Live
      <4>2. CASE g.requests[k].id # id
        <5>1. g.requests[k] = file.requests[k]
          BY <3>1, <4>1, <4>2
        <5>2. k \in Live(file, row, envelope, "none")
          BY <3>1, <3>5, <5>1 DEF Live
        <5>3. QED
          BY <2>2, <3>4, <4>2, <5>1, <5>2 DEF Chain
      <4>3. QED
        BY <4>1, <4>2
    <3>6. Untouched(g, proc[p].node)
      <4>1. Untouched(file, file.requests[i].content.node)
        BY <2>5, <3>4 DEF Ahead
      <4>2. Untouched(file, proc[p].node)
        BY <2>2, <2>3, <4>1
      <4>3. QED
        BY <3>1, <4>2 DEF Untouched
    <3>7. \A k \in Live(g, row, envelope, "none") : g.requests[k].content.node = proc[p].node
      BY <2>2, <3>3, <3>5
    <3>8. proc'[p].pc = "start" /\ proc'[p].node = proc[p].node /\ UNCHANGED approvals
      BY <2>1, <2>6
    <3>9. proc'[p].errors = FALSE
      BY <1>2, <2>5, <2>6, BeginView
    <3>10. QED
      BY <3>2, <3>6, <3>7, <3>8, <3>9 DEF Halts, InRun, approvals
  <2>7. QED
    BY <2>1, <2>5, <2>6 DEF approvals
<1>3. CASE noteDecision(p)
  <2>1. /\ proc[p].pc = "note" /\ UNCHANGED <<file, approvals>>
        /\ \/ proc'[p].pc = "idle" /\ envelope[proc[p].scope.id] = NoBody
           \/ /\ proc'[p].pc = "save"
              /\ proc'[p].copy = updateScopeStatus(file, proc[p].scope.id, proc[p].decision)
    BY <1>3, ResumeChecks
  <2>2. /\ row[proc[p].scope.id].decision = proc[p].decision
        /\ proc[p].decision \in {"approved", "rejected"} /\ proc[p].scope.id \in Request
    BY <1>0, <2>1 DEF Now, Shape, Asked
  <2>3. envelope[proc[p].scope.id] # NoBody
    <3>1. \A q \in Process : proc[q].pc # "attach"
      BY <2>1
    <3>2. row[proc[p].scope.id].content = envelope[proc[p].scope.id]
      BY <2>2, <3>1 DEF Consistent
    <3>3. row[proc[p].scope.id].content \in Body
      BY <2>1, <2>2 DEF IInv
    <3>4. NoBody \notin Body
      BY Nodes DEF Body, NoBody
    <3>5. QED
      BY <3>2, <3>3, <3>4
  <2> DEFINE id == proc[p].scope.id
             d == proc[p].decision
             g == updateScopeStatus(file, id, d)
  <2>4. /\ DOMAIN g.requests = DOMAIN file.requests /\ g["plan"] = file["plan"] /\ g["status"] = file["status"]
        /\ g["current"] = file["current"]
        /\ \A k \in DOMAIN file.requests :
             /\ g.requests[k].id = file.requests[k].id /\ g.requests[k].content = file.requests[k].content
             /\ file.requests[k].id # id => g.requests[k] = file.requests[k]
    BY <1>0, <2>2, MarkedEntries
  <2>5. proc'[p].pc = "save" /\ proc'[p].copy = g
    BY <2>1, <2>3
  <2>6. Ahead(file, row, envelope, id) /\ Stopped(file) /\ row[id].decision = d /\ d \in {"approved", "rejected"}
    BY <1>0, <2>1, <2>2 DEF Halts
  <2> HIDE DEF g, id, d
  <2>7. Live(g, row, envelope, "none") \subseteq Live(file, row, envelope, id)
    BY <1>0, <2>4, <2>6, EntryFields DEF Live
  <2>8. \A n : Untouched(file, n) => Untouched(g, n)
    BY <2>4 DEF Untouched
  <2>9. \A k \in Live(g, row, envelope, "none") : k \in DOMAIN file.requests
    BY <2>4 DEF Live
  <2>10. Ahead(g, row, envelope, "none")
    BY <2>4, <2>6, <2>7, <2>8, <2>9 DEF Ahead
  <2>11. Stopped(g)
    BY <2>4, <2>6, StoppedSame
  <2>12. QED
    BY <2>1, <2>5, <2>10, <2>11 DEF Halts, InRun, approvals
<1>4. CASE saveStatus(p)
  <2>1. proc[p].pc = "save" /\ UNCHANGED approvals /\ file' = proc[p].copy /\ proc'[p].pc = "idle"
    BY <1>4, ResumeChecks
  <2>2. QED
    BY <1>0, <2>1 DEF Halts, approvals
<1>5. CASE startResumed(p)
  <2> DEFINE f == proc[p].copy
             live == Live(f, row, envelope, "none")
  <2>1. /\ UNCHANGED <<worktree, approvals>> /\ proc'[p].copy = file' /\ file'["requests"] = f["requests"]
        /\ proc'[p]["node"] = proc[p]["node"] /\ proc[p].pc = "start" /\ proc'[p].pc = "next"
        /\ \A n \in Node : file'.plan.node[n] = f.plan.node[n]
    BY <1>5, BeginEffect
  <2>2. proc'[p].errors = proc[p].errors
    BY <1>5, BeginView
  <2>3. Live(file', row', envelope', "none") = live
    BY <2>1, LiveSame DEF approvals
  <2>4. Untouched(f, proc[p].node) /\ (\A i \in live : f.requests[i].content.node = proc[p].node) /\ proc[p].errors = FALSE
    BY <1>0, <2>1 DEF Halts
  <2>5. Kinds[proc[p].node] \notin {"frame", "design"}
    BY <1>0, <2>1 DEF Check
  <2>6. Untouched(file', proc[p].node)
    BY <2>1, <2>4 DEF Untouched
  <2> HIDE DEF live, f
  <2>7. Stands(proc[p])'
    BY <2>1, <2>2, <2>3, <2>4, <2>5, <2>6 DEF Stands
  <2>8. QED
    BY <2>1, <2>7 DEF Halts
<1>6. QED
  BY <1>1, <1>2, <1>3, <1>4, <1>5

\* A run from its first node to its end.
LEMMA HaltedRun ==
  ASSUME Layout, IInv, IInv', Consistent, Ordered, Checked, Halted, NEW p \in Process, proc[p].pc # "idle",
         \A q \in Process : q # p => proc[q].pc = "idle",
         \/ beginNode(p) \/ NodeEnds(p) \/ writeEvidence(p)
         \/ \E r \in Request, c \in Content : createScopeExpansionApproval(p, r, c)
         \/ recordEnvelope(p) \/ (\E given \in {"pending_approval", "expired"} : enterRequest(p, given))
         \/ markResult(p) \/ finishRun(p) \/ applyScope(p) \/ missWorktree(p)
  PROVE  /\ proc'[p].pc = "idle" => Ahead(file', row', envelope', "none") /\ Stopped(file')
         /\ proc'[p].pc # "idle" => Halts(proc[p])'
<1> DEFINE f == proc[p].copy
           s == proc[p].scope
           live == Live(f, row, envelope, "none")
<1>0. /\ file \in StatusFile /\ row \in Rows /\ Shape(proc[p]) /\ f \in StatusFile /\ proc[p].node \in Node
      /\ Order(proc[p]) /\ Now(proc[p]) /\ Halts(proc[p]) /\ Check(proc[p]) /\ s \in Scope /\ proc[p].node \in Nat
      /\ proc[p].errors \in BOOLEAN
  BY ProcFields, Nodes DEF IInv, TypeOK, Rows, Ordered, Consistent, Halted, Checked
<1>1. ASSUME proc[p].pc \in InRun
      PROVE  RunOrder(proc[p]) /\ f = file /\ Stands(proc[p]) /\ RunCheck(proc[p])
  BY <1>0, <1>1 DEF Order, Now, Halts, Check
<1>2. \A i \in live : /\ i \in DOMAIN f.requests /\ f.requests[i].id \in Request /\ f.requests[i].id # "none"
                      /\ f.requests[i].content.node \in Nat
  BY <1>0, EntryFields, Nodes DEF Live
<1>3. ASSUME Stands(proc[p])', proc'[p].pc \in InRun
      PROVE  /\ proc'[p].pc = "idle" => Ahead(file', row', envelope', "none") /\ Stopped(file')
             /\ proc'[p].pc # "idle" => Halts(proc[p])'
  BY <1>3 DEF Halts, InRun
<1>4. CASE beginNode(p)
  <2>1. /\ UNCHANGED <<worktree, approvals>> /\ proc'[p].copy = file' /\ file'["requests"] = f["requests"]
        /\ proc'[p]["node"] = proc[p]["node"] /\ proc[p].pc = "next" /\ proc'[p].pc = "node"
        /\ \A n \in Node \ {proc[p].node} : file'.plan.node[n] = f.plan.node[n]
    BY <1>4, BeginEffect
  <2>2. file'.current = proc[p].node /\ proc'[p].errors = proc[p].errors
    BY <1>4, BeginView
  <2>3. Live(file', row', envelope', "none") = live
    BY <2>1, LiveSame DEF approvals
  <2>4. /\ Untouched(f, proc[p].node) /\ proc[p].errors # TRUE
        /\ worktree.present \/ (Kinds[proc[p].node] \notin {"frame", "design"} /\ \A i \in live : f.requests[i].content.node = proc[p].node)
    BY <1>1, <2>1 DEF Stands, InRun
  <2>5. Untouched(file', proc[p].node)
    BY <1>0, <2>1, <2>4 DEF Untouched
  <2> HIDE DEF live, f, s
  <2>6. Stands(proc[p])'
    BY <2>1, <2>2, <2>3, <2>4, <2>5 DEF Stands
  <2>7. QED
    BY <1>3, <2>1, <2>6 DEF InRun
<1>5. CASE NodeEnds(p)
  <2>1. /\ proc[p].pc = "node" /\ UNCHANGED <<file, approvals>> /\ proc'[p].pc = "mark"
        /\ proc'[p]["copy"] = f /\ proc'[p]["scope"] = s /\ proc'[p]["node"] = proc[p]["node"]
        /\ worktree'.present = worktree.present
    BY <1>5, NodeEndEffect
  <2>2. /\ proc'[p].errors \in {FALSE, proc[p].errors} \/ Kinds[proc[p].node] = "repair"
        /\ worktree.present \/ Kinds[proc[p].node] \in {"frame", "design"}
    BY <1>5, NodeView
  <2>3. Live(f, row', envelope', "none") = live
    BY <2>1 DEF approvals
  <2>4. /\ Untouched(f, proc[p].node) /\ proc[p].errors # TRUE /\ f.current = proc[p].node
        /\ worktree.present \/ Kinds[proc[p].node] \notin {"frame", "design"}
    BY <1>1, <2>1 DEF Stands, InRun
  <2>5. (\A i \in live : f.requests[i].id = s.id) /\ (s # NoScope => row[s.id].decision = "approved")
    BY <1>1, <2>1 DEF RunOrder, InRun
  <2>6. \A i \in live : f.requests[i].id = s.id /\ row[s.id].decision # "requested"
    BY <1>2, <2>5 DEF NoScope
  <2> HIDE DEF live, f, s
  <2>7. Stands(proc[p])'
    BY <2>1, <2>2, <2>3, <2>4, <2>6 DEF Stands, approvals
  <2>8. QED
    BY <1>3, <2>1, <2>7 DEF InRun
<1>6. CASE writeEvidence(p)
  <2>1. proc[p].pc = "node" /\ UNCHANGED <<worktree, approvals, proc>>
    BY <1>6, EndEffect
  <2>2. Stands(proc[p])
    BY <1>1, <2>1 DEF InRun
  <2>3. Stands(proc[p])'
    BY <2>1, <2>2 DEF Stands, approvals
  <2>4. QED
    BY <1>3, <2>1, <2>3 DEF InRun
<1>7. ASSUME NEW r \in Request, NEW c \in Content, createScopeExpansionApproval(p, r, c)
      PROVE  proc'[p].pc = "attach" /\ Halts(proc[p])'
  <2>1. /\ proc[p].pc = "node" /\ UNCHANGED worktree /\ worktree.present
        /\ proc'[p].pc = "attach" /\ proc'[p]["copy"] = f /\ proc'[p]["node"] = proc[p]["node"]
    BY <1>7, RequestEffect
  <2>2. proc'[p].errors = proc[p].errors
    BY <1>7, RequestView
  <2>3. Untouched(f, proc[p].node) /\ proc[p].errors # TRUE /\ f.current = proc[p].node
    BY <1>1, <2>1 DEF Stands, InRun
  <2> HIDE DEF live, f, s
  <2>4. Stands(proc[p])'
    BY <2>1, <2>2, <2>3 DEF Stands
  <2>5. QED
    BY <1>3, <2>1, <2>4 DEF InRun
<1>8. CASE recordEnvelope(p)
  <2>1. /\ proc[p].pc = "attach" /\ UNCHANGED worktree /\ proc'[p].pc = "enter"
        /\ proc'[p]["copy"] = f /\ proc'[p]["node"] = proc[p]["node"]
    BY <1>8, RequestEffect
  <2>2. proc'[p].errors = proc[p].errors
    BY <1>8, RequestView
  <2>3. Untouched(f, proc[p].node) /\ proc[p].errors # TRUE /\ f.current = proc[p].node /\ worktree.present
    BY <1>1, <2>1 DEF Stands, InRun
  <2> HIDE DEF live, f, s
  <2>4. Stands(proc[p])'
    BY <2>1, <2>2, <2>3 DEF Stands
  <2>5. QED
    BY <1>3, <2>1, <2>4 DEF InRun
<1>9. ASSUME NEW given \in {"pending_approval", "expired"}, enterRequest(p, given)
      PROVE  proc'[p].pc = "mark" /\ Halts(proc[p])'
  <2> DEFINE e == [id |-> proc[p].asked.id, content |-> proc[p].asked.content, status |-> given, approval |-> "requested"]
             r == proc[p].asked.id
             n == Len(f.requests) + 1
  <2>1. /\ proc[p].pc = "enter" /\ UNCHANGED <<worktree, approvals>> /\ proc[p].asked \in Asked
        /\ proc'[p].pc = "mark" /\ proc'[p].copy = file'
        /\ file'.requests = Append(f.requests, e) /\ file'["plan"] = f["plan"]
        /\ proc'[p]["scope"] = s /\ proc'[p]["node"] = proc[p]["node"]
    BY <1>9, RequestEffect
  <2>2. proc'[p].errors = proc[p].errors /\ file'.current = f.current
    BY <1>9, RequestView
  <2>3. Untouched(f, proc[p].node) /\ proc[p].errors # TRUE /\ f.current = proc[p].node /\ worktree.present
    BY <1>1, <2>1 DEF Stands, InRun
  <2>4. /\ \A i \in live : f.requests[i].id # r => f.requests[i].id = s.id
        /\ r # s.id /\ s # NoScope => row[s.id].decision = "approved"
        /\ proc[p].asked.content.node = proc[p].node
    BY <1>1, <2>1 DEF RunOrder, InRun
  <2>5. row[r] = [decision |-> "requested", content |-> proc[p].asked.content] /\ r \in Request
    BY <1>0, <2>1 DEF Now, Asked
  <2>6. envelope[r] = proc[p].asked.content
    <3>1. \A q \in Process : proc[q].pc # "attach"
      BY <2>1
    <3>2. row[r].content = envelope[r]
      BY <2>5, <3>1 DEF Consistent
    <3>3. QED
      BY <2>5, <3>2
  <2>7. e.id = r /\ e.content = proc[p].asked.content
    OBVIOUS
  <2> HIDE DEF e
  <2>8. /\ DOMAIN file'.requests = 1 .. n /\ file'.requests[n] = e
        /\ DOMAIN f.requests = 1 .. Len(f.requests) /\ Len(f.requests) \in Nat
        /\ \A i \in 1 .. Len(f.requests) : file'.requests[i] = f.requests[i]
    BY <1>0, <2>1, FileFields
  <2>9. \A i \in DOMAIN file'.requests : i = n \/ (i \in DOMAIN f.requests /\ file'.requests[i] = f.requests[i])
    BY <2>8
  <2>10. \A i \in Live(file', row', envelope', "none") :
           file'.requests[i] = e \/ (i \in live /\ file'.requests[i] = f.requests[i])
    BY <2>1, <2>8, <2>9 DEF Live, approvals
  <2>11. \A i \in live : f.requests[i].content = envelope[f.requests[i].id]
    BY DEF Live
  <2>12. ASSUME NEW i \in live
         PROVE  \/ f.requests[i].content.node = proc[p].node
                \/ f.requests[i].id = s.id /\ row[s.id].decision # "requested"
    <3>1. CASE f.requests[i].id = r
      BY <2>4, <2>6, <2>11, <3>1
    <3>2. CASE f.requests[i].id # r
      <4>1. f.requests[i].id = s.id /\ f.requests[i].id # "none"
        BY <1>2, <2>4, <3>2
      <4>2. s # NoScope
        BY <4>1 DEF NoScope
      <4>3. QED
        BY <2>4, <3>2, <4>1, <4>2
    <3>3. QED
      BY <3>1, <3>2
  <2>13. Untouched(file', proc[p].node)
    BY <2>1, <2>3 DEF Untouched
  <2> HIDE DEF live, s, r, n, f
  <2>14. \A i \in Live(file', row', envelope', "none") :
           \/ file'.requests[i].content.node = proc[p].node
           \/ file'.requests[i].id = s.id /\ row'[s.id].decision # "requested"
    BY <2>1, <2>4, <2>7, <2>10, <2>12 DEF approvals
  <2>15. Stands(proc[p])'
    BY <2>1, <2>2, <2>3, <2>13, <2>14 DEF Stands
  <2>16. QED
    BY <1>3, <2>1, <2>15 DEF InRun
<1>10. CASE markResult(p)
  <2>1. /\ proc[p].pc = "mark" /\ UNCHANGED <<worktree, approvals>> /\ proc'[p].copy = file'
        /\ file'["requests"] = f["requests"]
        /\ file'.plan = markNode(f.plan, proc[p].node, proc[p].result, proc[p].errors)
        /\ file'.plan.node[proc[p].node] = proc[p].result
        /\ \A n \in Node \ {proc[p].node} : file'.plan.node[n] = f.plan.node[n]
        /\ proc'[p]["scope"] = s
        /\ \/ /\ proc'[p].pc = "final" /\ proc'[p].node = proc[p].node
              /\ proc[p].result \in {"failed", "yielded"} \/ proc[p].node = Len(Kinds)
           \/ /\ proc'[p].pc = "next" /\ proc'[p].node = proc[p].node + 1 /\ proc'[p].node \in Node
              /\ proc[p].result \notin {"failed", "yielded"}
    BY <1>10, MarkEffect
  <2>2. file'.current = f.current /\ proc'[p].errors = FALSE
    BY <1>10, MarkView
  <2>3. /\ Untouched(f, proc[p].node) /\ f.current = proc[p].node /\ worktree.present
        /\ proc[p].errors = TRUE => Kinds[proc[p].node] = "repair"
        /\ \A i \in live : \/ f.requests[i].content.node = proc[p].node
                           \/ f.requests[i].id = s.id /\ row[s.id].decision # "requested"
    BY <1>1, <2>1 DEF Stands, InRun
  <2>4. Live(file', row', envelope', "none") = live
    BY <2>1, LiveSame DEF approvals
  <2>5. Untouched(file', proc[p].node)
    BY <1>0, <2>1, <2>3 DEF Untouched
  <2>6. CASE proc'[p].pc = "next"
    <3>1. proc'[p].node = proc[p].node + 1
      BY <2>1, <2>6
    <3>2. \A m \in Node : m > proc[p].node + 1 => m > proc[p].node
      BY <1>0, Nodes
    <3>3. Untouched(file', proc'[p].node)
      BY <2>5, <3>1, <3>2 DEF Untouched
    <3> HIDE DEF live, f, s
    <3>4. Stands(proc[p])'
      BY <2>1, <2>2, <2>3, <2>6, <3>3 DEF Stands
    <3>5. QED
      BY <1>3, <2>6, <3>4 DEF InRun
  <2>7. CASE proc'[p].pc = "final"
    <3>1. proc'[p].node = proc[p].node
      BY <2>1, <2>7
    <3>2. ASSUME file'.plan.status \in {"failed", "yielded"}
          PROVE  file'.plan.node[proc[p].node] = file'.plan.status
      <4>1. CASE proc[p].result = "yielded"
        BY <2>1, <4>1 DEF markNode
      <4>2. CASE proc[p].result = "failed"
        BY <2>1, <4>2 DEF markNode
      <4>3. CASE proc[p].result \notin {"failed", "yielded"}
        <5>1. proc[p].node = Len(Kinds)
          BY <2>1, <2>7, <4>3
        <5>2. proc[p].errors = FALSE
          BY <1>0, <2>3, <5>1, LastNode
        <5>3. file'.plan.status \in {"completed", "running"}
          BY <2>1, <4>3, <5>2 DEF markNode
        <5>4. QED
          BY <3>2, <5>3
      <4>4. QED
        BY <4>1, <4>2, <4>3
    <3> HIDE DEF live, f, s
    <3>3. /\ proc'[p].pc = "final" /\ proc'[p].copy = file' /\ proc'[p].node = proc[p].node /\ proc'[p].scope = s
          /\ proc'[p].errors = FALSE /\ worktree'.present /\ file'.current = proc[p].node
      BY <2>1, <2>2, <2>3, <2>7, <3>1
    <3>4. \A i \in Live(file', row', envelope', "none") :
            \/ file'.requests[i].content.node = proc[p].node
            \/ file'.requests[i].id = s.id /\ row'[s.id].decision # "requested"
      BY <2>1, <2>3, <2>4 DEF approvals
    <3>5. Stands(proc[p])'
      BY <2>5, <3>2, <3>3, <3>4 DEF Stands
    <3>6. QED
      BY <1>3, <2>7, <3>5 DEF InRun
  <2>8. QED
    BY <2>1, <2>6, <2>7
<1>11. CASE finishRun(p)
  <2>1. /\ proc[p].pc = "final" /\ UNCHANGED <<worktree, approvals>>
        /\ file'["plan"] = f["plan"] /\ file'["requests"] = f["requests"]
        /\ file'.status = IF f.plan.status \in {"failed", "yielded"} THEN f.plan.status ELSE "completed"
        /\ \/ proc'[p].pc = "idle" /\ s = NoScope
           \/ /\ proc'[p].pc = "applied" /\ proc'[p].copy = file' /\ s # NoScope
              /\ proc'[p]["node"] = proc[p].node /\ proc'[p]["scope"] = s
    BY <1>11, EndEffect
  <2>2. file'.current = f.current /\ (proc'[p].pc = "idle" \/ proc'[p].errors = proc[p].errors)
    BY <1>11, EndView
  <2>3. /\ Untouched(f, proc[p].node) /\ f.current = proc[p].node /\ worktree.present /\ proc[p].errors # TRUE
        /\ f.plan.status \in {"failed", "yielded"} => f.plan.node[proc[p].node] = f.plan.status
        /\ \A i \in live : \/ f.requests[i].content.node = proc[p].node
                           \/ f.requests[i].id = s.id /\ row[s.id].decision # "requested"
    BY <1>1, <2>1 DEF Stands, InRun
  <2>4. DoneBefore(f, proc[p].node)
    BY <1>1, <2>1 DEF RunOrder, InRun
  <2>5. Live(file', row', envelope', "none") = live
    BY <2>1, LiveSame DEF approvals
  <2>6. Untouched(file', proc[p].node)
    BY <2>1, <2>3 DEF Untouched
  <2>7. Stopped(file')
    <3>1. ASSUME file'.status \in {"failed", "yielded"}, NEW m \in Node
          PROVE  file'.plan.node[m] = file'.status <=> m = file'.current
      <4>1. file'.status = f.plan.status /\ f.plan.status \in {"failed", "yielded"} /\ file'.current = proc[p].node
        BY <2>1, <2>2, <2>3, <3>1
      <4>2. m < proc[p].node \/ m = proc[p].node \/ m > proc[p].node
        BY <1>0, Nodes
      <4>3. CASE m < proc[p].node
        <5>1. file'.plan.node[m] \in Done
          BY <2>1, <2>4, <4>3 DEF DoneBefore
        <5>2. m # proc[p].node
          BY <1>0, <4>3, Nodes
        <5>3. QED
          BY <4>1, <5>1, <5>2 DEF Done
      <4>4. CASE m = proc[p].node
        BY <2>1, <2>3, <4>1, <4>4
      <4>5. CASE m > proc[p].node
        <5>1. file'.plan.node[m] \in {"pending", "ready"}
          BY <2>6, <4>5 DEF Untouched
        <5>2. m # proc[p].node
          BY <1>0, <4>5, Nodes
        <5>3. QED
          BY <4>1, <5>1, <5>2
      <4>6. QED
        BY <4>2, <4>3, <4>4, <4>5
    <3>2. file'.current \in Node
      BY <1>0, <2>2, <2>3
    <3>3. QED
      BY <3>1, <3>2 DEF Stopped
  <2>8. CASE proc'[p].pc = "idle"
    <3>1. s.id = "none"
      BY <2>1, <2>8 DEF NoScope
    <3>2. \A i \in live : f.requests[i].content.node = proc[p].node
      BY <1>2, <2>3, <3>1
    <3>3. Ahead(file', row', envelope', "none")
      BY <2>1, <2>5, <2>6, <3>2 DEF Ahead
    <3>4. QED
      BY <2>7, <2>8, <3>3
  <2>9. CASE proc'[p].pc = "applied"
    <3> HIDE DEF live, f, s
    <3>1. /\ proc'[p].pc = "applied" /\ proc'[p].copy = file' /\ proc'[p].node = proc[p].node /\ proc'[p].scope = s
          /\ proc'[p].errors # TRUE /\ worktree'.present /\ file'.current = proc[p].node
      BY <2>1, <2>2, <2>3, <2>9
    <3>2. \A i \in Live(file', row', envelope', "none") :
            \/ file'.requests[i].content.node = proc[p].node
            \/ file'.requests[i].id = s.id /\ row'[s.id].decision # "requested"
      BY <2>1, <2>3, <2>5 DEF approvals
    <3>3. Stands(proc[p])'
      BY <2>6, <2>7, <3>1, <3>2 DEF Stands
    <3>4. QED
      BY <1>3, <2>9, <3>3 DEF InRun
  <2>10. QED
    BY <2>1, <2>8, <2>9
<1>12. CASE applyScope(p)
  <2> DEFINE g == markScopeExpansionApplied(f, s.id)
  <2>1. proc[p].pc = "applied" /\ UNCHANGED approvals /\ proc'[p].pc = "idle" /\ file' = g
    BY <1>12, EndEffect
  <2>2. /\ DOMAIN g.requests = DOMAIN f.requests /\ g["plan"] = f["plan"] /\ g["status"] = f["status"] /\ g["current"] = f["current"]
        /\ \A k \in DOMAIN f.requests :
             /\ g.requests[k].id = f.requests[k].id /\ g.requests[k].content = f.requests[k].content
             /\ f.requests[k].id # s.id => g.requests[k] = f.requests[k]
             /\ f.requests[k].id = s.id => g.requests[k].status = "applied"
    <3>1. "approved" \in {"approved", "rejected"}
      OBVIOUS
    <3>2. QED
      BY <1>0, <3>1, MarkedEntries
  <2> HIDE DEF g
  <2>3. /\ Untouched(f, proc[p].node) /\ Stopped(f)
        /\ \A i \in live : \/ f.requests[i].content.node = proc[p].node
                           \/ f.requests[i].id = s.id /\ row[s.id].decision # "requested"
    BY <1>1, <2>1 DEF Stands, InRun
  <2>4. \A i \in Live(g, row, envelope, "none") : i \in live /\ g.requests[i].content = f.requests[i].content
    BY <1>0, <2>2, EntryFields DEF Live
  <2>5. \A i \in Live(g, row, envelope, "none") : f.requests[i].id = s.id => row[s.id].decision = "requested"
    BY <1>0, <2>2, EntryFields DEF Live
  <2>6. Untouched(g, proc[p].node)
    BY <2>2, <2>3 DEF Untouched
  <2> HIDE DEF live, f, s
  <2>7. Ahead(g, row, envelope, "none")
    BY <2>3, <2>4, <2>5, <2>6 DEF Ahead
  <2>8. Stopped(g)
    BY <2>2, <2>3, StoppedSame
  <2>9. QED
    BY <2>1, <2>7, <2>8 DEF approvals
<1>13. CASE missWorktree(p)
  <2>1. proc[p].pc \in {"final", "node"} /\ UNCHANGED <<file, approvals>> /\ proc'[p].pc = "idle" /\ ~ worktree.present
    BY <1>13, EndEffect
  <2>2. /\ Untouched(f, proc[p].node) /\ \A i \in live : f.requests[i].content.node = proc[p].node
    BY <1>1, <2>1 DEF Stands, InRun
  <2>3. Ahead(f, row, envelope, "none")
    BY <2>2 DEF Ahead
  <2>4. f = file /\ f.status = "running"
    BY <1>1, <2>1 DEF RunCheck, InRun
  <2>5. Stopped(file)
    BY <2>4 DEF Stopped
  <2>6. QED
    BY <2>1, <2>3, <2>4, <2>5 DEF approvals
<1>14. QED
  BY <1>4, <1>5, <1>6, <1>7, <1>8, <1>9, <1>10, <1>11, <1>12, <1>13

\* A step in orderly use keeps the file telling where the run stopped.
LEMMA HaltedStep ==
  ASSUME Layout, IInv, IInv', Alone, Quiet => Consistent, Orderly => Ordered, Quiet => Checked, Orderly => Halted,
         NEW p \in Process, Command(p) \/ Step(p) \/ abort(p), Orderly'
  PROVE  Halted'
<1>1. /\ Quiet /\ (Command(p) \/ Advance(p))
      /\ \A q \in Process : q # p => proc[q].pc = "idle" /\ proc'[q] = proc[q]
      /\ AtRest' <=> proc'[p].pc = "idle"
      /\ Command(p) => AtRest
      /\ Advance(p) => proc[p].pc # "idle"
  BY QuietFrame DEF Orderly, OneAtATime, Quiet
<1>2. ~ revised
  BY TablesStep DEF Orderly, approvals, decideScopeRequest, createScopeExpansionApproval, recordEnvelope
<1>3. Consistent /\ Ordered /\ Checked /\ Halted /\ ~ revised'
  BY <1>1, <1>2 DEF Orderly, OneAtATime, Quiet
<1>4. /\ proc'[p].pc = "idle" => Ahead(file', row', envelope', "none") /\ Stopped(file')
      /\ proc'[p].pc # "idle" => Halts(proc[p])'
  <2>1. CASE Command(p)
    BY <1>1, <1>3, <2>1, HaltedCommand
  <2>2. CASE readEnvelope(p) \/ readDecision(p) \/ noteDecision(p) \/ saveStatus(p) \/ startResumed(p)
    BY <1>1, <1>3, <2>2, HaltedResume DEF Advance
  <2>3. CASE \/ beginNode(p) \/ NodeEnds(p) \/ writeEvidence(p)
             \/ \E r \in Request, c \in Content : createScopeExpansionApproval(p, r, c)
             \/ recordEnvelope(p) \/ (\E given \in {"pending_approval", "expired"} : enterRequest(p, given))
             \/ markResult(p) \/ finishRun(p) \/ applyScope(p) \/ missWorktree(p)
    BY <1>1, <1>3, <2>3, HaltedRun DEF Advance
  <2>4. QED
    BY <1>1, <2>1, <2>2, <2>3 DEF Advance
<1>5. \A q \in Process : proc'[q].pc # "idle" => Halts(proc[q])'
  BY <1>1, <1>4
<1>6. QED
  BY <1>1, <1>4, <1>5 DEF Halted

\* The decisions that are offered are those on the entries that wait.
LEMMA OfferedDecisions ==
  ASSUME NEW t \in {"approve", "reject"}
  PROVE  Offered(t) = {file.requests[i].id : i \in awaiting(file)}
<1> DEFINE act(u, i) == [type |-> u, target |-> file.requests[i].id, required |-> TRUE]
           rest == {[type |-> "resume", target |-> "none", required |-> awaiting(file) = {}] : s \in {file.status} \cap {"yielded"}}
                     \cup {[type |-> "export", target |-> "none", required |-> FALSE] : e \in {file.exported} \cap {TRUE}}
                     \cup {[type |-> "cleanup", target |-> "none", required |-> FALSE] : s \in {file.session} \ {"none", "cleaned"}}
<1>1. View.next_actions = {act(u, i) : u \in {"approve", "reject"}, i \in awaiting(file)} \cup rest
  BY DEF View, buildRepositoryRunViewFromStatus, repositoryNextActions
<1>2. \A b \in rest : b.type # t
  OBVIOUS
<1>3. \A u, i : act(u, i).type = u /\ act(u, i).target = file.requests[i].id
  OBVIOUS
<1> HIDE DEF act, rest
<1>4. ASSUME NEW i \in awaiting(file)
      PROVE  file.requests[i].id \in Offered(t)
  <2>1. act(t, i) \in View.next_actions
    BY <1>1
  <2>2. QED
    BY <1>3, <2>1 DEF Offered
<1>5. ASSUME NEW x \in Offered(t)
      PROVE  \E i \in awaiting(file) : x = file.requests[i].id
  <2>1. PICK b \in View.next_actions : b.type = t /\ x = b.target
    BY DEF Offered
  <2>2. b \in {act(u, i) : u \in {"approve", "reject"}, i \in awaiting(file)}
    BY <1>1, <1>2, <2>1
  <2>3. PICK u \in {"approve", "reject"}, i \in awaiting(file) : b = act(u, i)
    BY <2>2
  <2>4. QED
    BY <1>3, <2>1, <2>3
<1>6. QED
  BY <1>4, <1>5

\* The file and the tables agree on what to offer.
LEMMA OffersAgree == ApprovalInv /\ (Quiet => Awaiting) => OfferedAreUndecided
<1> SUFFICES ASSUME ApprovalInv, Quiet => Awaiting, OneAtATime, AtRest, aborts = 0,
                    IsInjective([i \in DOMAIN file.requests |-> file.requests[i].id])
             PROVE  /\ Offered("approve") = {file.requests[i].id : i \in Undecided}
                    /\ Offered("reject") = Offered("approve")
                    /\ \A i \in Undecided : envelope[file.requests[i].id] = file.requests[i].content
  BY DEF OfferedAreUndecided
<1>1. /\ file \in StatusFile /\ row \in Rows /\ Waits(file, row, "none") /\ Good(file, row, envelope, "none", "none")
      /\ IsInjective(Ids(file)) /\ Consistent
  BY DEF ApprovalInv, IInv, TypeOK, Rows, Quiet, OneAtATime, Awaiting, Consistent, Ids
<1>2. ASSUME NEW i \in DOMAIN file.requests
      PROVE  /\ file.requests[i].content = envelope[file.requests[i].id]
             /\ row[file.requests[i].id].content = file.requests[i].content
             /\ file.requests[i].approval = "requested" <=> row[file.requests[i].id].decision = "requested"
             /\ file.requests[i].id \in Request
  <2>1. file.requests[i].id \in Request /\ file.requests[i].id # "none"
    BY <1>1, EntryFields
  <2>2. \A q \in Process : proc[q].pc # "attach"
    BY DEF AtRest
  <2>3. row[file.requests[i].id].content = envelope[file.requests[i].id]
    BY <1>1, <2>1, <2>2 DEF Consistent
  <2>4. QED
    BY <1>1, <2>1, <2>3 DEF Good, Waits
<1>3. ASSUME NEW i \in DOMAIN file.requests
      PROVE  file.requests[i].approval = "requested"
               <=> row[file.requests[i].id] = [decision |-> "requested", content |-> file.requests[i].content]
  <2> DEFINE w == row[file.requests[i].id]
  <2>1. w \in [decision : {"none", "requested", "approved", "rejected"}, content : Body \cup {NoBody}]
    BY <1>1, <1>2 DEF Rows
  <2>2. w = [decision |-> w.decision, content |-> w.content]
    BY <2>1
  <2>3. w.content = file.requests[i].content /\ (file.requests[i].approval = "requested" <=> w.decision = "requested")
    BY <1>2
  <2>4. QED
    BY <2>2, <2>3
<1>4. awaiting(file) = Undecided
  BY <1>3 DEF awaiting, Undecided
<1>5. "approve" \in {"approve", "reject"} /\ "reject" \in {"approve", "reject"}
  OBVIOUS
<1>6. Offered("approve") = {file.requests[i].id : i \in Undecided} /\ Offered("reject") = {file.requests[i].id : i \in Undecided}
  BY <1>4, <1>5, OfferedDecisions
<1>7. \A i \in Undecided : envelope[file.requests[i].id] = file.requests[i].content
  BY <1>2 DEF Undecided
<1>8. QED
  BY <1>6, <1>7

\* The cleanup of a worktree is offered.
LEMMA CleanupOffered == Cleanable => WorktreeCanBeCleaned
<1> SUFFICES ASSUME Cleanable, OneAtATime, worktree.present = TRUE PROVE Offered("cleanup") # {}
  BY DEF WorktreeCanBeCleaned
<1>1. Kept(file)
  BY DEF Cleanable, OneAtATime
<1> DEFINE act == [type |-> "cleanup", target |-> "none", required |-> FALSE]
<1>2. file.session \in {file.session} \ {"none", "cleaned"}
  BY <1>1 DEF Kept
<1>3. act \in {act : s \in {file.session} \ {"none", "cleaned"}}
  BY <1>2
<1>4. act \in View.next_actions
  BY <1>3 DEF View, buildRepositoryRunViewFromStatus, repositoryNextActions
<1>5. act.type = "cleanup"
  OBVIOUS
<1>6. act.target \in Offered("cleanup")
  BY <1>4, <1>5 DEF Offered
<1>7. QED
  BY <1>6

\* The phases show where the run stopped.
LEMMA PhasesShown ==
  ASSUME Layout, \E n \in Node : Kinds[n] = "verify", AllTold, Orderly => Ordered, Orderly => Halted
  PROVE  StoppedPhaseShown
<1> SUFFICES ASSUME Orderly, AtRest
             PROVE  /\ \A s \in {"failed", "yielded"} : file.status = s =>
                         {ph \in Phase : View.phases[ph] = s} =
                           {phaseOf(Kinds[n]) : n \in {m \in Node : file.plan.node[m] = s}}
                    /\ file.status = "completed" =>
                         \A ph \in Phase : View.phases[ph] \in {"completed", "open"}
  BY DEF StoppedPhaseShown
<1>1. Stopped(file) /\ Complete(file) /\ Told(file)
  BY DEF Halted, Ordered, AllTold
<1>2. \A ph \in Phase : View.phases[ph] =
        IF ph # currentPhase(file) THEN phaseDone(file, ph)
        ELSE IF file.status \in {"failed", "yielded"} THEN file.status ELSE "running"
  BY DEF View, buildRepositoryRunViewFromStatus, buildRepositoryPhases
<1>3. ASSUME NEW s \in {"failed", "yielded"}, file.status = s
      PROVE  {ph \in Phase : View.phases[ph] = s} = {phaseOf(Kinds[n]) : n \in {m \in Node : file.plan.node[m] = s}}
  <2> DEFINE c == file.current
  <2>1. c \in Node /\ \A m \in Node : file.plan.node[m] = s <=> m = c
    BY <1>1, <1>3 DEF Stopped
  <2>2. c # 0
    BY <2>1, Nodes
  <2>3. currentPhase(file) = phaseOf(Kinds[c])
    BY <1>3, <2>2 DEF currentPhase
  <2>4. phaseOf(Kinds[c]) \in Phase
    BY DEF phaseOf, Phase
  <2>5. \A ph \in Phase : phaseDone(file, ph) \in {"completed", "pending", "open"}
    BY DEF phaseDone, Phase
  <2> HIDE DEF c
  <2>6. \A ph \in Phase : View.phases[ph] = s <=> ph = phaseOf(Kinds[c])
    BY <1>2, <1>3, <2>3, <2>5
  <2>7. {m \in Node : file.plan.node[m] = s} = {c}
    BY <2>1
  <2>8. {phaseOf(Kinds[n]) : n \in {c}} = {phaseOf(Kinds[c])}
    OBVIOUS
  <2>9. {ph \in Phase : View.phases[ph] = s} = {phaseOf(Kinds[c])}
    BY <2>4, <2>6
  <2>10. QED
    BY <2>7, <2>8, <2>9
<1>4. ASSUME file.status = "completed", NEW ph \in Phase
      PROVE  View.phases[ph] \in {"completed", "open"}
  <2>1. currentPhase(file) = "completed" /\ ph # "completed"
    BY <1>4 DEF currentPhase, Phase
  <2>2. View.phases[ph] = phaseDone(file, ph)
    BY <1>2, <2>1
  <2>3. file.exported = TRUE /\ file.session # "none"
    BY <1>1, <1>4 DEF Told
  <2>4. \A n \in Node : file.plan.node[n] \in Done
    BY <1>1, <1>4 DEF Complete
  <2>5. file.verification # "none"
    BY <1>1, <2>4 DEF Told
  <2>6. file.review # "none"
    BY <1>1, <2>4 DEF Told, Layout
  <2>7. phaseDone(file, ph) \in {"completed", "open"}
    BY <2>3, <2>5, <2>6 DEF phaseDone, Phase
  <2>8. QED
    BY <2>2, <2>7
<1>5. QED
  BY <1>3, <1>4

\* For every plan of the layout of repository-plan-control.ts that verifies something: with commands one
\* at a time, none of them cut off and every request under its own id, the view offers a decision on
\* exactly the requests that wait for one; while there is a worktree it offers a cleanup, whatever was
\* cut off; and in orderly use a run that stopped shows it on the phase of the node that stopped it.
THEOREM ViewTellsTheTruthHolds ==
  ASSUME Layout, \E n \in Node : Kinds[n] = "verify"
  PROVE  Spec => []ViewTellsTheTruth
<1> DEFINE All == /\ ApprovalInv /\ AllTold /\ Cleanable /\ (Quiet => Awaiting)
                  /\ (Orderly => Ordered) /\ (Quiet => Checked) /\ (Orderly => Halted)
<1>1. ASSUME Init
      PROVE  All
  <2>1. /\ file = createRepositoryPlanStatus /\ worktree.present = FALSE
        /\ \A p \in Process : proc[p].pc = "idle"
    BY <1>1 DEF Init, Idle
  <2>2. file.plan = FreshPlan /\ file.status = "pending" /\ file.requests = <<>>
    BY <2>1 DEF createRepositoryPlanStatus
  <2>3. AllTold
    BY <2>1, <2>2, ToldFresh DEF AllTold, Brings, InRun
  <2>4. Cleanable
    BY <2>1 DEF Cleanable, InRun
  <2>5. Awaiting
    BY <2>1, <2>2, WaitsEmpty DEF Awaiting
  <2>6. QED
    BY <1>1, <2>3, <2>4, <2>5, ApprovalsKept, OrderedInit, CheckedInit, HaltedInit
<1>2. ASSUME All, [Next]_vars
      PROVE  All'
  <2>1. ApprovalInv' /\ IInv' /\ IInv /\ Alone /\ (Quiet => Consistent)
    BY <1>2, ApprovalsKept DEF ApprovalInv
  <2>2. CASE UNCHANGED vars
    <3>1. Orderly' => Ordered'
      BY <1>2, <2>2 DEF vars, Orderly, OneAtATime, Ordered, Order, RunOrder, AtRest
    <3>2. Quiet' => Checked'
      BY <1>2, <2>2 DEF vars, Quiet, Checked, Check, RunCheck, Unverified, Trusted, AtRest
    <3>3. AllTold' /\ Cleanable'
      BY <1>2, <2>2 DEF vars, AllTold, Cleanable
    <3>4. Quiet' => Awaiting'
      BY <1>2, <2>2 DEF vars, Quiet, Awaiting, Awaits, AtRest
    <3>5. Orderly' => Halted'
      BY <1>2, <2>2 DEF vars, Orderly, OneAtATime, Halted, Halts, Stands, AtRest
    <3>6. QED
      BY <2>1, <3>1, <3>2, <3>3, <3>4, <3>5
  <2>3. ASSUME NEW p \in Process, Command(p) \/ Step(p) \/ abort(p)
        PROVE  All'
    <3>1. Orderly' => Ordered'
      BY <1>2, <2>1, <2>3, OrderedStep
    <3>2. Quiet' => Checked'
      BY <1>2, <2>1, <2>3, CheckedStep
    <3>3. AllTold'
      BY <1>2, <2>1, <2>3, ToldStep
    <3>4. Cleanable'
      BY <1>2, <2>1, <2>3, CleanableStep
    <3>5. Quiet' => Awaiting'
      BY <1>2, <2>1, <2>3, AwaitingStep
    <3>6. Orderly' => Halted'
      BY <1>2, <2>1, <2>3, HaltedStep
    <3>7. QED
      BY <2>1, <3>1, <3>2, <3>3, <3>4, <3>5, <3>6
  <2>4. QED
    BY <1>2, <2>2, <2>3 DEF Next
<1>3. All => ViewTellsTheTruth
  BY OffersAgree, CleanupOffered, PhasesShown DEF ViewTellsTheTruth
<1> HIDE DEF All
<1>4. QED
  BY <1>1, <1>2, <1>3, PTL DEF Spec

=============================================================================
