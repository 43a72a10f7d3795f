------------------------- MODULE DurableRun_proofs -------------------------
(***************************************************************************)
(* Proofs about DurableRun, for every plan, every number of runs, calls    *)
(* and workers, and every overlap, crash and lost reply.                   *)
(***************************************************************************)
EXTENDS DurableRun, TLAPS, FiniteSetTheorems, WellFoundedInduction

\* The facts about one copy of the plan state that every write preserves.
Sound(c) == Ordered(c) /\ Meaningful(c)

-----------------------------------------------------------------------------
(***************************************************************************)
(* The operators that compute plan states.                                 *)
(***************************************************************************)

\* The plan state that prepareRunState records is well-formed, and no node
\* of it has begun.
LEMMA InitialPlan ==
  ASSUME NEW s \in {"absent", "pending"}
  PROVE  /\ createInitialPlanState(s) \in PlanCopy
         /\ Sound(createInitialPlanState(s))
BY ConstantsAssumption DEF createInitialPlanState, PlanCopy, PlanStatus, NodeStatus,
     Sound, Ordered, Meaningful, Begun, Node

\* The first ready node in plan order is one of the ready nodes.
LEMMA FirstReady ==
  ASSUME NEW c \in PlanCopy, readyNodes(c) # {}
  PROVE  firstReady(c) \in readyNodes(c)
<1>1. readyNodes(c) \subseteq Nat
  BY ConstantsAssumption DEF readyNodes, Node
<1> DEFINE Less == {ss \in Nat \X Nat : ss[1] < ss[2]}
<1>2. PICK n \in readyNodes(c) : \A m \in readyNodes(c) : ~ (<<m, n>> \in Less)
  <2>1. IsWellFoundedOn(Less, Nat)
    BY NatLessThanWellFounded DEF OpToRel
  <2> HIDE DEF Less
  <2>2. QED
    BY <1>1, <2>1, WFMin
<1>3. \A m \in readyNodes(c) : n <= m
  <2> SUFFICES ASSUME NEW m \in readyNodes(c) PROVE n <= m
    OBVIOUS
  <2>1. n \in Nat /\ m \in Nat /\ ~ (m < n)
    BY <1>1, <1>2
  <2>2. QED
    BY <2>1
<1>4. QED
  BY <1>3 DEF firstReady

\* markNodeRunning on a ready node keeps the copy sound.
LEMMA MarkRunning ==
  ASSUME NEW c \in PlanCopy, Sound(c), NEW n \in readyNodes(c)
  PROVE  /\ n \in Node
         /\ markNodeRunning(c, n) \in PlanCopy
         /\ Sound(markNodeRunning(c, n))
         /\ markNodeRunning(c, n).node[n] = "running"
<1> DEFINE d == markNodeRunning(c, n)
<1>1. /\ n \in Node
      /\ c.node[n] \in {"pending", "ready"}
      /\ \A k \in DependsOn[n] : c.node[k] \in Done
  BY DEF readyNodes
<1>2. /\ c.node \in [Node -> NodeStatus]
      /\ d.status = "running"
      /\ d.node = [c.node EXCEPT ![n] = "running"]
  BY DEF markNodeRunning, PlanCopy
<1>3. /\ d \in PlanCopy
      /\ d.node[n] = "running"
      /\ \A m \in Node : m # n => d.node[m] = c.node[m]
  BY <1>1, <1>2 DEF PlanCopy, PlanStatus, NodeStatus, markNodeRunning
<1>4. Ordered(d)
  <2> SUFFICES ASSUME NEW m \in Node, d.node[m] \in Begun, NEW k \in DependsOn[m]
               PROVE  d.node[k] \in Done
    BY DEF Ordered
  <2>0. k \in Node
    BY ConstantsAssumption
  <2>1. c.node[k] \in Done
    BY <1>1, <1>3 DEF Sound, Ordered
  <2>2. k # n
    BY <1>1, <2>1 DEF Done
  <2>3. QED
    BY <1>3, <2>0, <2>1, <2>2
<1>5. Meaningful(d)
  BY <1>2 DEF Meaningful
<1>6. QED
  BY <1>1, <1>3, <1>4, <1>5 DEF Sound

\* markNode on the node that runs keeps the copy sound, whatever the outcome.
LEMMA MarkNode ==
  ASSUME NEW c \in PlanCopy, Sound(c), NEW n \in Node, c.node[n] = "running",
         NEW s \in Outcome
  PROVE  markNode(c, n, s) \in PlanCopy /\ Sound(markNode(c, n, s))
<1> DEFINE d == markNode(c, n, s)
<1>1. /\ c.node \in [Node -> NodeStatus]
      /\ d.node = [c.node EXCEPT ![n] = s]
  BY DEF markNode, PlanCopy
<1>2. /\ d.node \in [Node -> NodeStatus]
      /\ d.node[n] = s
      /\ \A m \in Node : m # n => d.node[m] = c.node[m]
  BY <1>1 DEF NodeStatus, Outcome
<1>3. d.status = IF s \in {"failed", "yielded"} THEN s
                 ELSE IF \A m \in Node : d.node[m] \in Done THEN "completed" ELSE "running"
  BY <1>1 DEF markNode, Outcome
<1>4. d \in PlanCopy
  BY <1>2, <1>3 DEF PlanCopy, PlanStatus, Outcome, markNode
<1>5. Ordered(d)
  <2> SUFFICES ASSUME NEW m \in Node, d.node[m] \in Begun, NEW k \in DependsOn[m]
               PROVE  d.node[k] \in Done
    BY DEF Ordered
  <2>0. k \in Node
    BY ConstantsAssumption
  <2>1. c.node[k] \in Done
    BY <1>2 DEF Sound, Ordered, Begun
  <2>2. k # n
    BY <2>1 DEF Done
  <2>3. QED
    BY <1>2, <2>0, <2>1, <2>2
<1>6. Meaningful(d)
  BY <1>2, <1>3 DEF Meaningful, Outcome
<1>7. QED
  BY <1>4, <1>5, <1>6 DEF Sound

\* A node that depends on a member of dependentNodeIds(n) is a member, and
\* so is n itself.
LEMMA DependentsClosed ==
  ASSUME NEW n \in Node
  PROVE  /\ n \in dependentNodeIds(n)
         /\ \A k \in Node : DependsOn[k] \cap dependentNodeIds(n) # {} => k \in dependentNodeIds(n)
<1>1. n \in dependentNodeIds(n)
  BY DEF dependentNodeIds
<1>2. ASSUME NEW k \in Node, NEW d \in DependsOn[k], d \in dependentNodeIds(n)
      PROVE  k \in dependentNodeIds(n)
  <2> SUFFICES ASSUME NEW S \in SUBSET Node, n \in S,
                      \A j \in Node : DependsOn[j] \cap S # {} => j \in S
               PROVE  k \in S
    BY DEF dependentNodeIds
  <2>1. d \in S
    BY <1>2 DEF dependentNodeIds
  <2>2. QED
    BY <2>1
<1>3. QED
  BY <1>1, <1>2

\* The reset of a retry gives up the node and everything that depends on it.
LEMMA RetryReset ==
  ASSUME NEW c \in PlanCopy, Sound(c), NEW n \in Node
  PROVE  resetForRetry(c, n) \in PlanCopy /\ Sound(resetForRetry(c, n))
<1> DEFINE d == resetForRetry(c, n)
           D == dependentNodeIds(n)
<1>1. c.node \in [Node -> NodeStatus]
  BY DEF PlanCopy
<1>2. /\ d.status = "running"
      /\ \A m \in Node : d.node[m] = IF m = n THEN "ready" ELSE IF m \in D THEN "pending" ELSE c.node[m]
  BY DEF resetForRetry
<1>3. d \in PlanCopy
  BY <1>1 DEF resetForRetry, PlanCopy, PlanStatus, NodeStatus
<1>4. Ordered(d)
  <2> SUFFICES ASSUME NEW m \in Node, d.node[m] \in Begun, NEW k \in DependsOn[m]
               PROVE  d.node[k] \in Done
    BY DEF Ordered
  <2>0. k \in Node
    BY ConstantsAssumption
  <2>1. m # n /\ m \notin D /\ d.node[m] = c.node[m]
    BY <1>2 DEF Begun
  <2>2. k \notin D /\ k # n
    BY <2>1, DependentsClosed
  <2>3. c.node[k] \in Done
    BY <2>1 DEF Sound, Ordered
  <2>4. QED
    BY <1>2, <2>0, <2>2, <2>3
<1>5. Meaningful(d)
  BY <1>2 DEF Meaningful
<1>6. QED
  BY <1>3, <1>4, <1>5 DEF Sound

\* The reset of a resume touches only nodes nothing begun can depend on.
LEMMA ResumeReset ==
  ASSUME NEW c \in PlanCopy, Sound(c)
  PROVE  resetForResume(c) \in PlanCopy /\ Sound(resetForResume(c))
<1> DEFINE d == resetForResume(c)
<1>1. c.node \in [Node -> NodeStatus]
  BY DEF PlanCopy
<1>2. /\ d.status = "running"
      /\ \A m \in Node : d.node[m] = IF c.node[m] \in {"yielded", "failed"} THEN "ready" ELSE c.node[m]
  BY DEF resetForResume
<1>3. d \in PlanCopy
  BY <1>1 DEF resetForResume, PlanCopy, PlanStatus, NodeStatus
<1>4. Ordered(d)
  <2> SUFFICES ASSUME NEW m \in Node, d.node[m] \in Begun, NEW k \in DependsOn[m]
               PROVE  d.node[k] \in Done
    BY DEF Ordered
  <2>0. k \in Node
    BY ConstantsAssumption
  <2>1. c.node[m] \in Begun
    BY <1>2 DEF Begun
  <2>2. c.node[k] \in Done
    BY <2>1 DEF Sound, Ordered
  <2>3. QED
    BY <1>2, <2>0, <2>2 DEF Done
<1>5. Meaningful(d)
  BY <1>2 DEF Meaningful
<1>6. QED
  BY <1>3, <1>4, <1>5 DEF Sound

-----------------------------------------------------------------------------
(***************************************************************************)
(* The inductive invariant: every copy of the plan state, not only the     *)
(* stored one, is sound, because any of them may become the stored one.    *)
(***************************************************************************)
SoundCopies ==
  /\ Sound(plan)
  /\ \A t \in Ticket : Sound(apiPlan[t])
  /\ \A w \in Worker : Sound(wplan[w])
  /\ \A w \in Worker : wpc[w] = "exec" => wplan[w].node[wnode[w]] = "running"

\* The inductive invariant of the dependency order.
IInv == TypeOK /\ SoundCopies /\ IsFiniteSet(attempts)

\* The initial state satisfies the inductive invariant.
LEMMA InitInv == Init => IInv
<1> SUFFICES ASSUME Init PROVE IInv
  OBVIOUS
<1>1. BlankPlan \in PlanCopy /\ Sound(BlankPlan)
  BY InitialPlan DEF BlankPlan
<1>2. 1 \in Node
  BY ConstantsAssumption DEF Node
<1>3. (CHOOSE r \in Run : TRUE) \in Run
  BY ConstantsAssumption
<1>4. TypeOK
  <2> HIDE DEF PlanCopy, BlankPlan
  <2>1. req \in [Ticket -> Request]
    BY <1>2, <1>3 DEF Init, Request, CallKind, ReplayMode
  <2>2. QED
    BY <1>1, <1>2, <2>1, ConstantsAssumption DEF Init, TypeOK, RunStatus, ContinuationStatus, TerminalStatus, ApiPc, WorkerPc
<1>5. SoundCopies
  BY <1>1 DEF Init, SoundCopies
<1>6. IsFiniteSet(attempts)
  BY FS_EmptySet DEF Init
<1>7. QED
  BY <1>4, <1>5, <1>6 DEF IInv

\* A call that is placed or moves on keeps the arguments and program
\* counters of calls typed.
LEMMA PlaceType ==
  ASSUME TypeOK, NEW t \in Ticket, NEW kind \in CallKind, NEW r \in Run,
         NEW n \in Node, NEW m \in ReplayMode, NEW pc \in ApiPc,
         place(t, kind, r, n, m, pc)
  PROVE  req' \in [Ticket -> Request] /\ apc' \in [Ticket -> ApiPc]
BY DEF TypeOK, place, Request

\* The steps of the control API preserve the inductive invariant.
LEMMA ApiInv ==
  ASSUME IInv, NEW t \in Ticket, Api(t) \/ ApiStep(t) \/ abandonCall(t)
  PROVE  IInv'
<1> USE DEF IInv
<1>n. 1 \in Node /\ "reuse_artifacts" \in ReplayMode
  BY ConstantsAssumption DEF Node, ReplayMode
<1>1. ASSUME NEW r \in Run, NEW kind \in {"create", "apply"}, prepareRunState(t, r, kind)
      PROVE  IInv'
  <2>1. plan' \in PlanCopy /\ Sound(plan)'
    BY <1>1, InitialPlan DEF prepareRunState
  <2>2. req' \in [Ticket -> Request] /\ apc' \in [Ticket -> ApiPc]
    BY <1>1, <1>n, PlaceType DEF prepareRunState, CallKind, ApiPc
  <2>3. TypeOK'
    BY <1>1, <2>1, <2>2 DEF prepareRunState, TypeOK, workers, local
  <2>4. SoundCopies' /\ IsFiniteSet(attempts')
    BY <1>1, <2>1 DEF prepareRunState, SoundCopies, store, workers, local
  <2>5. QED
    BY <2>3, <2>4
<1>2. ASSUME recordCanonicalRun(t)
      PROVE  IInv'
  <2>1. TypeOK'
    BY <1>2 DEF recordCanonicalRun, TypeOK, workers, local, Request, RunStatus, ApiPc
  <2>2. SoundCopies' /\ IsFiniteSet(attempts')
    BY <1>2 DEF recordCanonicalRun, SoundCopies, store, workers, local
  <2>3. QED
    BY <2>1, <2>2
<1>3. ASSUME NEW r \in Run, resumeRun(t, r)
      PROVE  IInv'
  <2>1. req' \in [Ticket -> Request] /\ apc' \in [Ticket -> ApiPc]
    BY <1>3, <1>n, PlaceType DEF resumeRun, CallKind, ApiPc
  <2>3. TypeOK'
    BY <1>3, <2>1 DEF resumeRun, TypeOK, store, workers, local, ContinuationStatus, RunStatus, TerminalStatus
  <2>4. SoundCopies' /\ IsFiniteSet(attempts')
    BY <1>3 DEF resumeRun, SoundCopies, store, workers, local
  <2>5. QED
    BY <2>3, <2>4
<1>4. ASSUME NEW r \in Run, NEW n \in Node, NEW m \in ReplayMode, retryRunNode(t, r, n, m)
      PROVE  IInv'
  <2>1. req' \in [Ticket -> Request] /\ apc' \in [Ticket -> ApiPc]
    BY <1>4, <1>n, PlaceType DEF retryRunNode, CallKind, ApiPc
  <2>2. number' \in [Ticket -> Nat]
    <3>1. IsFiniteSet({a \in attempts : a.run = r /\ a.node = n})
      BY FS_Subset DEF IInv
    <3>2. QED
      BY <1>4, <3>1, FS_CardinalityType DEF retryRunNode, TypeOK
  <2>3. TypeOK'
    BY <1>4, <2>1, <2>2 DEF retryRunNode, TypeOK, store, workers, local, ContinuationStatus, RunStatus, TerminalStatus
  <2>4. SoundCopies' /\ IsFiniteSet(attempts')
    BY <1>4 DEF retryRunNode, SoundCopies, store, workers, local
  <2>5. QED
    BY <2>3, <2>4
<1>5. ASSUME recordNodeAttempt(t)
      PROVE  IInv'
  <2>1. TypeOK'
    BY <1>5 DEF recordNodeAttempt, TypeOK, workers, local, Request, Attempt, ContinuationStatus, ApiPc
  <2>2. SoundCopies' /\ IsFiniteSet(attempts')
    BY <1>5, FS_AddElement DEF recordNodeAttempt, SoundCopies, store, workers, local
  <2>3. QED
    BY <2>1, <2>2
<1>6. ASSUME NEW r \in Run, cancelRun(t, r)
      PROVE  IInv'
  <2>1. req' \in [Ticket -> Request] /\ apc' \in [Ticket -> ApiPc]
    BY <1>6, <1>n, PlaceType DEF cancelRun, CallKind, ApiPc
  <2>3. TypeOK'
    BY <1>6, <2>1 DEF cancelRun, TypeOK, store, workers, local, ContinuationStatus, RunStatus, TerminalStatus
  <2>4. SoundCopies' /\ IsFiniteSet(attempts')
    BY <1>6 DEF cancelRun, SoundCopies, store, workers, local
  <2>5. QED
    BY <2>3, <2>4
<1>7. ASSUME announceCancel(t)
      PROVE  IInv'
  <2>1. TypeOK'
    BY <1>7 DEF announceCancel, TypeOK, workers, local, Request, TerminalStatus, ContinuationStatus, ApiPc
  <2>2. SoundCopies' /\ IsFiniteSet(attempts')
    BY <1>7 DEF announceCancel, SoundCopies, store, workers, local
  <2>3. QED
    BY <2>1, <2>2
<1>7a. ASSUME queueCancel(t)
      PROVE  IInv'
  <2>1. TypeOK'
    BY <1>7a DEF queueCancel, TypeOK, workers, local, Request, TerminalStatus, ContinuationStatus, ApiPc
  <2>2. SoundCopies' /\ IsFiniteSet(attempts')
    BY <1>7a DEF queueCancel, SoundCopies, store, workers, local
  <2>3. QED
    BY <2>1, <2>2
<1>8. ASSUME submitHatchet(t)
      PROVE  IInv'
  <2>1. TypeOK'
    BY <1>8 DEF submitHatchet, TypeOK, store, local, entry, Worker, Lane, ApiPc, WorkerPc
  <2>2. SoundCopies' /\ IsFiniteSet(attempts')
    BY <1>8 DEF submitHatchet, TypeOK, SoundCopies, entry, Worker, Lane, store, workers, local
  <2>3. QED
    BY <2>1, <2>2
<1>9. ASSUME submitLocal(t)
      PROVE  IInv'
  <2>1. TypeOK'
    BY <1>9 DEF submitLocal, TypeOK, store, local, entry, Worker, Lane, ApiPc, WorkerPc
  <2>2. SoundCopies' /\ IsFiniteSet(attempts')
    BY <1>9 DEF submitLocal, TypeOK, SoundCopies, entry, Worker, Lane, store, workers, local
  <2>3. QED
    BY <2>1, <2>2
<1>10. ASSUME submitTwice(t)
      PROVE  IInv'
  <2>1. TypeOK'
    BY <1>10 DEF submitTwice, TypeOK, store, local, entry, Worker, Lane, ApiPc, WorkerPc
  <2>2. SoundCopies' /\ IsFiniteSet(attempts')
    BY <1>10 DEF submitTwice, TypeOK, SoundCopies, entry, Worker, Lane, store, workers, local
  <2>3. QED
    BY <2>1, <2>2
<1>11. ASSUME stampHatchetRun(t)
      PROVE  IInv'
  <2>1. TypeOK'
    BY <1>11 DEF stampHatchetRun, TypeOK, workers, local, Request, RunStatus, ContinuationStatus, ApiPc
  <2>2. SoundCopies' /\ IsFiniteSet(attempts')
    BY <1>11 DEF stampHatchetRun, SoundCopies, store, workers, local
  <2>3. QED
    BY <2>1, <2>2
<1>12. ASSUME NEW kind \in {"approve", "reject"}, readPlanForDecision(t, kind)
      PROVE  IInv'
  <2>1. req[t].run \in Run
    BY DEF TypeOK, Request
  <2>2. req' \in [Ticket -> Request] /\ apc' \in [Ticket -> ApiPc]
    BY <1>12, <1>n, <2>1, PlaceType DEF readPlanForDecision, CallKind, ApiPc
  <2>3. TypeOK'
    BY <1>12, <2>2 DEF readPlanForDecision, TypeOK, store, workers, local
  <2>4. SoundCopies' /\ IsFiniteSet(attempts')
    BY <1>12 DEF readPlanForDecision, TypeOK, SoundCopies, store, workers, local
  <2>5. QED
    BY <2>3, <2>4
<1>13. ASSUME recordPlanDecision(t)
      PROVE  IInv'
  <2>1. plan' \in PlanCopy /\ Sound(plan)'
    <3>1. apiPlan[t] \in PlanCopy /\ Sound(apiPlan[t])
      BY DEF TypeOK, SoundCopies
    <3>2. CASE req[t].kind = "reject"
      <4> DEFINE d == [apiPlan[t] EXCEPT !.status = "yielded"]
      <4>1. d \in PlanCopy /\ d.node = apiPlan[t].node /\ d.status = "yielded"
        BY <3>1 DEF PlanCopy, PlanStatus
      <4>2. Sound(d)
        BY <3>1, <4>1 DEF Sound, Ordered, Meaningful
      <4>3. QED
        BY <1>13, <3>2, <4>1, <4>2 DEF recordPlanDecision
    <3>3. CASE req[t].kind # "reject"
      BY <1>13, <3>1, <3>3 DEF recordPlanDecision
    <3>4. QED
      BY <3>2, <3>3
  <2>2. TypeOK'
    BY <1>13, <2>1 DEF recordPlanDecision, TypeOK, workers, local, ApiPc
  <2>3. SoundCopies' /\ IsFiniteSet(attempts')
    BY <1>13, <2>1 DEF recordPlanDecision, SoundCopies, store, workers, local
  <2>4. QED
    BY <2>2, <2>3
<1>14. ASSUME abandonCall(t)
      PROVE  IInv'
  <2>1. TypeOK'
    BY <1>14, ConstantsAssumption DEF abandonCall, TypeOK, store, local, ApiPc
  <2>2. SoundCopies' /\ IsFiniteSet(attempts')
    BY <1>14 DEF abandonCall, SoundCopies, store, workers, local
  <2>3. QED
    BY <2>1, <2>2
<1>15. QED
  BY <1>1, <1>2, <1>3, <1>4, <1>5, <1>6, <1>7, <1>7a, <1>8, <1>9, <1>10, <1>11, <1>12, <1>13, <1>14
     DEF Api, ApiStep

\* The steps of a worker preserve the inductive invariant.
LEMMA WorkerInv ==
  ASSUME IInv, NEW w \in Worker, WorkerStep(w) \/ abortWorker(w)
  PROVE  IInv'
<1> USE DEF IInv
<1>n. /\ w[1] \in Ticket
      /\ runOf(w) \in Run
      /\ req[w[1]].node \in Node
      /\ plan \in PlanCopy /\ Sound(plan)
      /\ wplan[w] \in PlanCopy /\ Sound(wplan[w])
  BY DEF TypeOK, SoundCopies, Worker, runOf, Request
<1>b. ASSUME release(w)
      PROVE  /\ wplan' \in [Worker -> PlanCopy] /\ \A v \in Worker : Sound(wplan'[v])
             /\ wnode' \in [Worker -> Node]
             /\ ran' \in [Worker -> SUBSET Node]
             /\ index' \in [Worker -> Nat]
             /\ snap' \in [Worker -> RunStatus]
  <2>1. BlankPlan \in PlanCopy /\ Sound(BlankPlan)
    BY InitialPlan DEF BlankPlan
  <2>2. 1 \in Node
    BY ConstantsAssumption DEF Node
  <2>3. QED
    BY <1>b, <2>1, <2>2 DEF release, TypeOK, SoundCopies, RunStatus
<1>1. ASSUME readContinuation(w)
      PROVE  IInv'
  <2>1. TypeOK'
    BY <1>1, <1>n DEF readContinuation, goto, TypeOK, store, callers, workers, local, WorkerPc
  <2>2. SoundCopies' /\ IsFiniteSet(attempts')
    BY <1>1, <1>n DEF readContinuation, goto, TypeOK, SoundCopies, store, callers, workers, local
  <2>3. QED
    BY <2>1, <2>2
<1>2. ASSUME resetPlan(w)
      PROVE  IInv'
  <2>0. plan' \in PlanCopy /\ Sound(plan')
    BY <1>2, <1>n, RetryReset, ResumeReset DEF resetPlan
  <2>1. TypeOK'
    BY <1>2, <1>n, <2>0 DEF resetPlan, goto, TypeOK, store, callers, workers, local, WorkerPc
  <2>2. SoundCopies' /\ IsFiniteSet(attempts')
    BY <1>2, <1>n, <2>0 DEF resetPlan, goto, TypeOK, SoundCopies, store, callers, workers, local
  <2>3. QED
    BY <2>1, <2>2
<1>3. ASSUME beginContinuation(w)
      PROVE  IInv'
  <2>1. TypeOK'
    BY <1>3, <1>n DEF beginContinuation, goto, TypeOK, store, callers, workers, local, ContinuationStatus, WorkerPc
  <2>2. SoundCopies' /\ IsFiniteSet(attempts')
    BY <1>3, <1>n DEF beginContinuation, goto, TypeOK, SoundCopies, store, callers, workers, local
  <2>3. QED
    BY <2>1, <2>2
<1>4. ASSUME executeStoredRun(w)
      PROVE  IInv'
  <2>1. TypeOK'
    BY <1>4, <1>n DEF executeStoredRun, goto, TypeOK, store, callers, workers, local, RunStatus, WorkerPc
  <2>2. SoundCopies' /\ IsFiniteSet(attempts')
    BY <1>4, <1>n DEF executeStoredRun, goto, TypeOK, SoundCopies, store, callers, workers, local
  <2>3. QED
    BY <2>1, <2>2
<1>5. ASSUME loadPlan(w)
      PROVE  IInv'
  <2>1. TypeOK'
    BY <1>5, <1>n DEF loadPlan, goto, TypeOK, store, callers, workers, local, WorkerPc
  <2>2. SoundCopies' /\ IsFiniteSet(attempts')
    BY <1>5, <1>n DEF loadPlan, goto, TypeOK, SoundCopies, store, callers, workers, local
  <2>3. QED
    BY <2>1, <2>2
<1>6. ASSUME startNode(w)
      PROVE  IInv'
  <2> DEFINE n == firstReady(wplan[w])
             c == markNodeRunning(wplan[w], n)
  <2>0. n \in Node /\ c \in PlanCopy /\ Sound(c) /\ c.node[n] = "running"
    BY <1>6, <1>n, FirstReady, MarkRunning DEF startNode
  <2> HIDE DEF c, n
  <2>a. /\ wnode' = [wnode EXCEPT ![w] = n]
        /\ wplan' = [wplan EXCEPT ![w] = c]
        /\ plan' = c
    BY <1>6 DEF startNode, c, n
  <2>1. TypeOK'
    BY <1>6, <1>n, <2>0, <2>a DEF startNode, goto, TypeOK, store, callers, workers, local, WorkerPc
  <2>2. SoundCopies' /\ IsFiniteSet(attempts')
    BY <1>6, <1>n, <2>0, <2>a DEF startNode, goto, TypeOK, SoundCopies, store, callers, workers, local
  <2>3. QED
    BY <2>1, <2>2
<1>7. ASSUME NEW s \in Outcome, finishNode(w, s)
      PROVE  IInv'
  <2> DEFINE c == markNode(wplan[w], wnode[w], s)
  <2>0. c \in PlanCopy /\ Sound(c)
    BY <1>7, <1>n, MarkNode DEF finishNode, TypeOK, SoundCopies
  <2> HIDE DEF c
  <2>a. /\ wplan' = [wplan EXCEPT ![w] = c]
        /\ plan' = c
        /\ wpc' = [wpc EXCEPT ![w] = IF c.status = "running" THEN "pick" ELSE "conclude"]
    BY <1>7 DEF finishNode, c, goto
  <2>1. TypeOK'
    BY <1>7, <1>n, <2>0, <2>a DEF finishNode, goto, TypeOK, store, callers, workers, local, WorkerPc
  <2>2. SoundCopies' /\ IsFiniteSet(attempts')
    BY <1>7, <1>n, <2>0, <2>a DEF finishNode, goto, TypeOK, SoundCopies, store, callers, workers, local
  <2>3. QED
    BY <2>1, <2>2
<1>8. ASSUME stopLoop(w)
      PROVE  IInv'
  <2>1. TypeOK'
    BY <1>8, <1>n DEF stopLoop, goto, TypeOK, store, callers, workers, local, WorkerPc
  <2>2. SoundCopies' /\ IsFiniteSet(attempts')
    BY <1>8, <1>n DEF stopLoop, goto, TypeOK, SoundCopies, store, callers, workers, local
  <2>3. QED
    BY <2>1, <2>2
<1>9. ASSUME conclude(w)
      PROVE  IInv'
  <2>1. TypeOK'
    BY <1>9, <1>n DEF conclude, goto, TypeOK, store, callers, workers, local, Outcome, TerminalStatus, WorkerPc
  <2>2. SoundCopies' /\ IsFiniteSet(attempts')
    BY <1>9, <1>n DEF conclude, goto, TypeOK, SoundCopies, store, callers, workers, local
  <2>3. QED
    BY <2>1, <2>2
<1>10. ASSUME flushPlan(w)
      PROVE  IInv'
  <2>1. TypeOK'
    BY <1>10, <1>n DEF flushPlan, goto, TypeOK, store, callers, workers, local, WorkerPc
  <2>2. SoundCopies' /\ IsFiniteSet(attempts')
    BY <1>10, <1>n DEF flushPlan, goto, TypeOK, SoundCopies, store, callers, workers, local
  <2>3. QED
    BY <2>1, <2>2
<1>11. ASSUME takeSnapshot(w)
      PROVE  IInv'
  <2>1. TypeOK'
    BY <1>11, <1>n DEF takeSnapshot, goto, TypeOK, store, callers, workers, local, runStatus, RunStatus, TerminalStatus, PlanCopy, WorkerPc
  <2>2. SoundCopies' /\ IsFiniteSet(attempts')
    BY <1>11, <1>n DEF takeSnapshot, goto, TypeOK, SoundCopies, store, callers, workers, local
  <2>3. QED
    BY <2>1, <2>2
<1>12. ASSUME finalizeRecord(w)
      PROVE  IInv'
  <2>1. TypeOK'
    BY <1>12, <1>n, <1>b DEF finalizeRecord, goto, TypeOK, store, callers, workers, local, WorkerPc
  <2>2. SoundCopies' /\ IsFiniteSet(attempts')
    <3>1. ASSUME NEW v \in Worker, wpc'[v] = "exec"
          PROVE  wplan'[v].node[wnode'[v]] = "running"
      BY <1>12, <3>1 DEF finalizeRecord, goto, release, local, TypeOK, SoundCopies
    <3>2. \A v \in Worker : Sound(wplan'[v])
      BY <1>12, <1>b DEF finalizeRecord, SoundCopies, local
    <3>3. QED
      BY <1>12, <3>1, <3>2 DEF finalizeRecord, SoundCopies, store, callers
  <2>3. QED
    BY <2>1, <2>2
<1>13. ASSUME settleContinuation(w)
      PROVE  IInv'
  <2>1. TypeOK'
    BY <1>13, <1>n, <1>b DEF settleContinuation, goto, TypeOK, store, callers, workers, local, ContinuationStatus, WorkerPc
  <2>2. SoundCopies' /\ IsFiniteSet(attempts')
    <3>1. ASSUME NEW v \in Worker, wpc'[v] = "exec"
          PROVE  wplan'[v].node[wnode'[v]] = "running"
      BY <1>13, <3>1 DEF settleContinuation, goto, release, local, TypeOK, SoundCopies
    <3>2. \A v \in Worker : Sound(wplan'[v])
      BY <1>13, <1>b DEF settleContinuation, SoundCopies, local
    <3>3. QED
      BY <1>13, <3>1, <3>2 DEF settleContinuation, SoundCopies, store, callers
  <2>3. QED
    BY <2>1, <2>2
<1>14. ASSUME executeRunCancellation(w)
      PROVE  IInv'
  <2>1. TypeOK'
    BY <1>14, <1>n DEF executeRunCancellation, goto, TypeOK, store, callers, workers, local, RunStatus, TerminalStatus, WorkerPc
  <2>2. SoundCopies' /\ IsFiniteSet(attempts')
    BY <1>14, <1>n DEF executeRunCancellation, goto, TypeOK, SoundCopies, store, callers, workers, local
  <2>3. QED
    BY <2>1, <2>2
<1>15. ASSUME settleCancellation(w)
      PROVE  IInv'
  <2>1. TypeOK'
    BY <1>15, <1>n DEF settleCancellation, goto, TypeOK, store, callers, workers, local, ContinuationStatus, TerminalStatus, WorkerPc
  <2>2. SoundCopies' /\ IsFiniteSet(attempts')
    BY <1>15, <1>n DEF settleCancellation, goto, TypeOK, SoundCopies, store, callers, workers, local
  <2>3. QED
    BY <2>1, <2>2
<1>15a. ASSUME completeCancellation(w)
      PROVE  IInv'
  <2>1. TypeOK'
    BY <1>15a, <1>n DEF completeCancellation, goto, TypeOK, store, callers, workers, local, ContinuationStatus, TerminalStatus, WorkerPc
  <2>2. SoundCopies' /\ IsFiniteSet(attempts')
    BY <1>15a, <1>n DEF completeCancellation, goto, TypeOK, SoundCopies, store, callers, workers, local
  <2>3. QED
    BY <2>1, <2>2
<1>16. ASSUME abortWorker(w)
      PROVE  IInv'
  <2>0. wpc' \in [Worker -> WorkerPc] /\ aborts' \in 0 .. MaxAborts
    BY <1>16, ConstantsAssumption DEF abortWorker, goto, TypeOK, WorkerPc
  <2>1. TypeOK'
    BY <1>16, <1>b, <2>0 DEF abortWorker, TypeOK, store, callers
  <2>2. SoundCopies' /\ IsFiniteSet(attempts')
    <3>1. ASSUME NEW v \in Worker, wpc'[v] = "exec"
          PROVE  wplan'[v].node[wnode'[v]] = "running"
      BY <1>16, <3>1 DEF abortWorker, goto, release, local, TypeOK, SoundCopies
    <3>2. \A v \in Worker : Sound(wplan'[v])
      BY <1>16, <1>b DEF abortWorker, SoundCopies, local
    <3>3. QED
      BY <1>16, <3>1, <3>2 DEF abortWorker, SoundCopies, store, callers
  <2>3. QED
    BY <2>1, <2>2
<1>17. QED
  BY <1>1, <1>2, <1>3, <1>4, <1>5, <1>6, <1>7, <1>8, <1>9, <1>10, <1>11, <1>12, <1>13, <1>14, <1>15, <1>15a, <1>16
     DEF WorkerStep

\* Every step preserves the inductive invariant.
LEMMA InvStep == IInv /\ [Next]_vars => IInv'
<1> SUFFICES ASSUME IInv, [Next]_vars PROVE IInv'
  OBVIOUS
<1>1. CASE Next
  BY <1>1, ApiInv, WorkerInv DEF Next
<1>2. CASE UNCHANGED vars
  BY <1>2 DEF vars, store, callers, workers, local, IInv, TypeOK, SoundCopies
<1>3. QED
  BY <1>1, <1>2

\* The inductive invariant holds in every reachable state.
THEOREM Invariance == Spec => []IInv
BY InitInv, InvStep, PTL DEF Spec

\* The types of the store, the calls and the workers.
THEOREM TypeCorrect == Spec => []TypeOK
BY Invariance, PTL DEF IInv

\* No overlap of calls and workers, no crash and no lost reply ever makes
\* the stored plan state show a begun node whose dependencies are not done.
THEOREM DependencyOrderHolds == Spec => []DependencyOrder
<1>1. IInv => DependencyOrder
  BY DEF IInv, SoundCopies, Sound, DependencyOrder
<1>2. QED
  BY Invariance, <1>1, PTL

\* Nor does it make the plan's status disagree with its nodes.
THEOREM PlanStatusMeaningHolds == Spec => []PlanStatusMeaning
<1>1. IInv => PlanStatusMeaning
  BY DEF IInv, SoundCopies, Sound, PlanStatusMeaning
<1>2. QED
  BY Invariance, <1>1, PTL

-----------------------------------------------------------------------------
(***************************************************************************)
(* The loop of runToCompletion.                                            *)
(***************************************************************************)
\* The nodes a worker has started.
Waiting == {"pending", "ready"}
Taken(c) == {n \in Node : c.node[n] \notin Waiting}

\* The steps before a call is submitted, and before its worker loads the plan.
Unsubmitted == {"idle", "canonical", "attempt", "queue", "announce", "submit", "decide"}
Unloaded == {"idle", "read", "reset", "begin", "execute", "load"}

\* Before it is submitted a call has no worker, and before it loads the plan a
\* worker has counted no turn; after that it has counted at most one for every
\* node that is no longer waiting in its copy.
Counted ==
  /\ \A t \in Ticket, l \in Lane : apc[t] \in Unsubmitted => wpc[<<t, l>>] = "idle"
  /\ \A w \in Worker : index[w] <= Cardinality(Taken(wplan[w]))
  /\ \A w \in Worker : wpc[w] \in Unloaded => index[w] = 0

\* The nodes taken from a copy can be counted, and there are at most NodeCount.
LEMMA TakenFinite ==
  ASSUME NEW c
  PROVE  /\ IsFiniteSet(Taken(c)) /\ Cardinality(Taken(c)) \in Nat
         /\ Cardinality(Taken(c)) <= NodeCount
<1>1. NodeCount \in Nat /\ NodeCount >= 1
  BY ConstantsAssumption
<1>2. IsFiniteSet(Node) /\ Cardinality(Node) = NodeCount
  BY <1>1, FS_Interval DEF Node
<1>3. Taken(c) \in SUBSET Node
  BY DEF Taken
<1>4. IsFiniteSet(Taken(c)) /\ Cardinality(Taken(c)) <= Cardinality(Node)
  BY <1>2, <1>3, FS_Subset
<1>5. Cardinality(Taken(c)) \in Nat
  BY <1>4, FS_CardinalityType
<1>6. QED
  BY <1>2, <1>4, <1>5

\* Starting a ready node takes one node more; finishing it takes none.
LEMMA TurnTaken ==
  ASSUME NEW c \in PlanCopy, NEW n \in Node
  PROVE  /\ c.node[n] \in Waiting => Cardinality(Taken(markNodeRunning(c, n))) = Cardinality(Taken(c)) + 1
         /\ \A s \in Outcome : c.node[n] = "running" => Taken(markNode(c, n, s)) = Taken(c)
<1>1. c.node \in [Node -> NodeStatus]
  BY DEF PlanCopy
<1>2. ASSUME c.node[n] \in Waiting
      PROVE  Cardinality(Taken(markNodeRunning(c, n))) = Cardinality(Taken(c)) + 1
  <2>1. Taken(markNodeRunning(c, n)) = Taken(c) \cup {n}
    BY <1>1 DEF Taken, markNodeRunning, Waiting
  <2>2. n \notin Taken(c)
    BY <1>2 DEF Taken
  <2>3. QED
    BY <2>1, <2>2, TakenFinite, FS_AddElement
<1>3. ASSUME NEW s \in Outcome, c.node[n] = "running"
      PROVE  Taken(markNode(c, n, s)) = Taken(c)
  <2>1. markNode(c, n, s).node = [c.node EXCEPT ![n] = s]
    BY DEF markNode
  <2>2. QED
    BY <1>1, <1>3, <2>1 DEF Taken, Waiting, Outcome
<1>4. QED
  BY <1>2, <1>3

\* Every step keeps the count.
LEMMA CountedStep ==
  ASSUME IInv, Counted, [Next]_vars
  PROVE  Counted'
<1> USE DEF IInv
<1>z. \A c : 0 <= Cardinality(Taken(c))
  BY TakenFinite
<1>1. ASSUME NEW t \in Ticket, Api(t) \/ abandonCall(t) \/ recordCanonicalRun(t) \/ recordNodeAttempt(t)
               \/ queueCancel(t) \/ announceCancel(t) \/ stampHatchetRun(t) \/ recordPlanDecision(t)
      PROVE  Counted'
  <2>1. UNCHANGED <<wpc, wplan, index>>
    BY <1>1 DEF Api, abandonCall, recordCanonicalRun, recordNodeAttempt, queueCancel, announceCancel, stampHatchetRun,
                recordPlanDecision, prepareRunState, resumeRun, retryRunNode, cancelRun,
                readPlanForDecision, workers, local
  <2>2. \A u \in Ticket : apc'[u] \in Unsubmitted => apc[u] \in Unsubmitted
    BY <1>1 DEF Api, abandonCall, recordCanonicalRun, recordNodeAttempt, queueCancel, announceCancel, stampHatchetRun,
                recordPlanDecision, prepareRunState, resumeRun, retryRunNode, cancelRun,
                readPlanForDecision, mayCall, place, TypeOK, Unsubmitted
  <2>3. QED
    BY <2>1, <2>2 DEF Counted
<1>2. ASSUME NEW t \in Ticket, submitHatchet(t) \/ submitLocal(t) \/ submitTwice(t)
      PROVE  Counted'
  <2>1. /\ UNCHANGED <<wplan, index>> /\ apc[t] = "submit" /\ apc'[t] \notin Unsubmitted
        /\ \A u \in Ticket : u # t => apc'[u] = apc[u]
        /\ \A u \in Ticket, l \in Lane : wpc'[<<u, l>>] = wpc[<<u, l>>] \/ (u = t /\ wpc[<<u, l>>] = "idle")
    BY <1>2 DEF submitHatchet, submitLocal, submitTwice, Counted, TypeOK, Worker, Lane, Unsubmitted, local
  <2>2. \A w \in Worker : wpc'[w] = wpc[w] \/ wpc[w] = "idle"
    BY <2>1 DEF Worker
  <2>3. \A w \in Worker : index[w] = 0 \/ wpc'[w] = wpc[w]
    BY <2>2 DEF Counted, Unloaded
  <2>4. QED
    BY <2>1, <2>3 DEF Counted
<1>3. ASSUME NEW w \in Worker, WorkerStep(w) \/ abortWorker(w)
      PROVE  Counted'
  <2>0. /\ wplan[w] \in PlanCopy /\ index[w] \in Nat /\ wnode[w] \in Node
        /\ index[w] <= Cardinality(Taken(wplan[w]))
        /\ wpc[w] \in Unloaded => index[w] = 0
    BY DEF TypeOK, Counted
  <2>1. wpc[w] # "idle" /\ apc' = apc
    BY <1>3 DEF WorkerStep, abortWorker, readContinuation, resetPlan, beginContinuation, executeStoredRun, loadPlan,
         startNode, stopLoop, finishNode, conclude, flushPlan, takeSnapshot, finalizeRecord, settleContinuation,
         executeRunCancellation, completeCancellation, settleCancellation, WorkerIdle, callers
  <2>2. \A v \in Worker : v # w => wpc'[v] = wpc[v] /\ wplan'[v] = wplan[v] /\ index'[v] = index[v]
    BY <1>3 DEF WorkerStep, abortWorker, readContinuation, resetPlan, beginContinuation, executeStoredRun, loadPlan,
         startNode, stopLoop, finishNode, conclude, flushPlan, takeSnapshot, finalizeRecord, settleContinuation,
         executeRunCancellation, completeCancellation, settleCancellation, goto, release, local, TypeOK
  <2>3. index'[w] <= Cardinality(Taken(wplan'[w])) /\ (wpc'[w] \in Unloaded => index'[w] = 0)
    <3>1. ASSUME startNode(w) PROVE index'[w] <= Cardinality(Taken(wplan'[w])) /\ wpc'[w] \notin Unloaded
      <4> DEFINE n == firstReady(wplan[w])
      <4>1. n \in readyNodes(wplan[w])
        BY <2>0, <3>1, FirstReady DEF startNode
      <4>2. n \in Node /\ wplan[w].node[n] \in Waiting
        BY <4>1 DEF readyNodes, Waiting
      <4>3. wplan'[w] = markNodeRunning(wplan[w], n) /\ index'[w] = index[w] + 1 /\ wpc'[w] = "exec"
        BY <3>1 DEF startNode, goto, TypeOK
      <4> HIDE DEF n
      <4>4. Cardinality(Taken(markNodeRunning(wplan[w], n))) = Cardinality(Taken(wplan[w])) + 1
        BY <2>0, <4>2, TurnTaken
      <4>5. QED
        BY <2>0, <4>3, <4>4, TakenFinite DEF Unloaded
    <3>2. ASSUME NEW s \in Outcome, finishNode(w, s)
          PROVE  index'[w] <= Cardinality(Taken(wplan'[w])) /\ wpc'[w] \notin Unloaded
      <4>1. wplan[w].node[wnode[w]] = "running"
        BY <3>2 DEF finishNode, SoundCopies
      <4>2. /\ wplan'[w] = markNode(wplan[w], wnode[w], s) /\ index' = index
            /\ wpc'[w] \in {"pick", "conclude"}
        BY <3>2 DEF finishNode, goto, TypeOK
      <4>3. Taken(markNode(wplan[w], wnode[w], s)) = Taken(wplan[w])
        BY <2>0, <4>1, TurnTaken
      <4>4. QED
        BY <2>0, <4>2, <4>3 DEF Unloaded
    <3>3. ASSUME finalizeRecord(w) \/ settleContinuation(w) \/ abortWorker(w)
          PROVE  index'[w] = 0 \/ (wpc'[w] \notin Unloaded /\ index' = index /\ wplan' = wplan)
      BY <3>3 DEF finalizeRecord, settleContinuation, abortWorker, goto, release, local, TypeOK, Unloaded
    <3>4. ASSUME readContinuation(w) \/ loadPlan(w)
          PROVE  index'[w] = 0
      BY <2>0, <3>4 DEF readContinuation, loadPlan, TypeOK, Unloaded
    <3>5. ASSUME resetPlan(w) \/ beginContinuation(w) \/ executeStoredRun(w) \/ stopLoop(w) \/ conclude(w) \/ flushPlan(w)
                   \/ takeSnapshot(w) \/ executeRunCancellation(w) \/ completeCancellation(w) \/ settleCancellation(w)
          PROVE  index' = index /\ wplan' = wplan /\ (wpc'[w] \in Unloaded => wpc[w] \in Unloaded)
      BY <3>5 DEF resetPlan, beginContinuation, executeStoredRun, stopLoop, conclude, flushPlan, takeSnapshot,
                  executeRunCancellation, completeCancellation, settleCancellation, goto, local, TypeOK, Unloaded
    <3>6. QED
      BY <1>3, <2>0, <1>z, <3>1, <3>2, <3>3, <3>4, <3>5 DEF WorkerStep
  <2>4. ASSUME NEW t \in Ticket, NEW l \in Lane, apc'[t] \in Unsubmitted
        PROVE  wpc'[<<t, l>>] = "idle"
    <3>1. <<t, l>> \in Worker /\ wpc[<<t, l>>] = "idle"
      BY <2>1, <2>4 DEF Counted, Worker
    <3>2. QED
      BY <2>1, <2>2, <3>1
  <2>5. QED
    BY <2>2, <2>3, <2>4 DEF Counted
<1>4. CASE UNCHANGED vars
  BY <1>4 DEF vars, callers, workers, local, Counted
<1>5. QED
  BY <1>1, <1>2, <1>3, <1>4 DEF Next, ApiStep

\* Nobody has counted a turn at the start.
LEMMA InitCounted == Init => Counted
<1> SUFFICES ASSUME Init PROVE Counted
  OBVIOUS
<1>1. \A t \in Ticket, l \in Lane : wpc[<<t, l>>] = "idle"
  BY DEF Init, Worker
<1>2. \A w \in Worker : index[w] = 0
  BY DEF Init
<1>3. QED
  BY <1>1, <1>2, TakenFinite DEF Counted

\* What is counted stays within the number of nodes.
LEMMA CountedBound == IInv /\ Counted => LoopBoundNeverReached
<1> SUFFICES ASSUME IInv, Counted, NEW w \in Worker PROVE index[w] <= NodeCount
  BY DEF LoopBoundNeverReached
<1>1. index[w] \in Nat /\ index[w] <= Cardinality(Taken(wplan[w]))
  BY DEF IInv, TypeOK, Counted
<1>2. QED
  BY <1>1, TakenFinite, ConstantsAssumption

\* Each worker takes at most one turn per node, so that the bound of the loop never
\* ends a run: for every plan, and whatever overlaps or crashes.
THEOREM LoopBoundHolds == Spec => []LoopBoundNeverReached
BY InitCounted, CountedBound, CountedStep, Invariance, PTL DEF Spec

-----------------------------------------------------------------------------
(***************************************************************************)
(* Requests served one at a time, in the process that makes them.          *)
(***************************************************************************)
\* A request is served by one call or worker, and only one request is.
Engaged(t) == apc[t] \notin {"idle", "done"} \/ ~ WorkerIdle(<<t, "local">>)

OneAtATime ==
  /\ \A t \in Ticket : wpc[<<t, "hatchet">>] = "idle" /\ apc[t] # "stamp"
  /\ \A t, u \in Ticket : Engaged(t) /\ Engaged(u) => t = u

\* So no copy of the plan state is stale when it is written back.
Loaded == {"reset", "pick", "exec", "conclude", "flush"}

InStep ==
  /\ \A t \in Ticket : apc[t] = "decide" => apiPlan[t] = plan
  /\ \A w \in Worker : wpc[w] \in Loaded => wplan[w] = plan

\* What holds while requests are served one at a time.
SeqInv == IInv /\ Counted /\ OneAtATime /\ InStep

\* At the start nothing is under way.
LEMMA SeqInit == Init => SeqInv
<1> SUFFICES ASSUME Init PROVE SeqInv
  OBVIOUS
<1>1. IInv /\ Counted
  BY InitInv, InitCounted
<1>2. OneAtATime
  BY DEF Init, OneAtATime, Engaged, WorkerIdle, Worker, Lane
<1>3. InStep
  BY DEF Init, InStep, Loaded
<1>4. QED
  BY <1>1, <1>2, <1>3 DEF SeqInv

\* While a worker is busy, no other worker and no call is.
LEMMA WorkerAlone ==
  ASSUME SeqInv, NEW w \in Worker, ~ WorkerIdle(w)
  PROVE  /\ w = <<w[1], "local">> /\ w[1] \in Ticket
         /\ \A v \in Worker : v # w => WorkerIdle(v)
         /\ \A t \in Ticket : apc[t] \in {"idle", "done"}
<1>1. PICK t \in Ticket, l \in Lane : w = <<t, l>>
  BY DEF Worker
<1>2. w = <<t, "local">> /\ Engaged(t)
  BY <1>1 DEF SeqInv, OneAtATime, WorkerIdle, Lane, Engaged
<1>3. \A u \in Ticket : u # t => ~ Engaged(u)
  BY <1>2 DEF SeqInv, OneAtATime
<1>4. ASSUME NEW v \in Worker, v # w
      PROVE  WorkerIdle(v)
  <2>1. PICK u \in Ticket, k \in Lane : v = <<u, k>>
    BY DEF Worker
  <2>2. CASE k = "hatchet"
    BY <2>1, <2>2 DEF SeqInv, OneAtATime, WorkerIdle
  <2>3. CASE k = "local"
    BY <1>2, <1>3, <1>4, <2>1, <2>3 DEF Engaged
  <2>4. QED
    BY <2>2, <2>3 DEF Lane
<1>5. \A u \in Ticket : u # t => apc[u] \in {"idle", "done"}
  BY <1>3 DEF Engaged
<1>6. apc[t] \in {"idle", "done"}
  <2>1. apc[t] \notin Unsubmitted \/ wpc[<<t, "local">>] = "idle"
    BY DEF SeqInv, Counted, Lane
  <2>2. apc[t] \in ApiPc /\ apc[t] # "stamp" /\ wpc[w] # "idle"
    BY DEF SeqInv, IInv, TypeOK, OneAtATime, WorkerIdle
  <2>3. QED
    BY <1>2, <2>1, <2>2 DEF ApiPc, Unsubmitted
<1>7. QED
  BY <1>2, <1>4, <1>5, <1>6

\* While a call is under way, no worker and no other call is.
LEMMA CallAlone ==
  ASSUME SeqInv, NEW t \in Ticket, apc[t] \notin {"idle", "done"}
  PROVE  /\ \A u \in Ticket : u # t => apc[u] \in {"idle", "done"}
         /\ \A w \in Worker : WorkerIdle(w)
         /\ \A l \in Lane : wpc[<<t, l>>] = "idle"
<1>1. \A u \in Ticket : u # t => apc[u] \in {"idle", "done"}
  BY DEF SeqInv, OneAtATime, Engaged
<1>2. \A w \in Worker : WorkerIdle(w)
  BY WorkerAlone
<1>3. apc[t] \in Unsubmitted
  BY DEF SeqInv, IInv, TypeOK, OneAtATime, ApiPc, Unsubmitted
<1>4. QED
  BY <1>1, <1>2, <1>3 DEF SeqInv, Counted

\* A step of a worker leaves the calls and the other workers alone.
LEMMA WorkerFrame ==
  ASSUME IInv, NEW w \in Worker, WorkerStep(w) \/ abortWorker(w)
  PROVE  /\ ~ WorkerIdle(w) /\ UNCHANGED callers
         /\ \A v \in Worker : v # w => /\ wpc'[v] = wpc[v] /\ wplan'[v] = wplan[v] /\ wnode'[v] = wnode[v]
                                       /\ snap'[v] = snap[v] /\ WorkerIdle(v)' = WorkerIdle(v)
<1>1. ~ WorkerIdle(w) /\ UNCHANGED callers
  BY DEF WorkerStep, abortWorker, readContinuation, resetPlan, beginContinuation, executeStoredRun, loadPlan,
         startNode, stopLoop, finishNode, conclude, flushPlan, takeSnapshot, finalizeRecord, settleContinuation,
         executeRunCancellation, completeCancellation, settleCancellation, WorkerIdle, callers
<1>2. \A v \in Worker : v # w => wpc'[v] = wpc[v] /\ wplan'[v] = wplan[v] /\ wnode'[v] = wnode[v] /\ snap'[v] = snap[v]
  BY DEF WorkerStep, abortWorker, readContinuation, resetPlan, beginContinuation, executeStoredRun, loadPlan,
         startNode, stopLoop, finishNode, conclude, flushPlan, takeSnapshot, finalizeRecord, settleContinuation,
         executeRunCancellation, completeCancellation, settleCancellation, goto, release, local, IInv, TypeOK
<1>3. QED
  BY <1>1, <1>2 DEF WorkerIdle

\* What a worker holds after its step is what it wrote or read.
LEMMA WorkerInStep ==
  ASSUME IInv, NEW w \in Worker, WorkerStep(w) \/ abortWorker(w), wpc[w] \in Loaded => wplan[w] = plan
  PROVE  wpc'[w] \in Loaded => wplan'[w] = plan'
<1>0. w \in DOMAIN wpc /\ w \in DOMAIN wplan
  BY DEF IInv, TypeOK
<1>1. CASE readContinuation(w) \/ loadPlan(w)
  BY <1>0, <1>1 DEF readContinuation, loadPlan, goto, store
<1>2. CASE resetPlan(w) \/ beginContinuation(w) \/ executeStoredRun(w) \/ flushPlan(w) \/ takeSnapshot(w)
             \/ finalizeRecord(w) \/ settleContinuation(w) \/ executeRunCancellation(w)
             \/ completeCancellation(w) \/ settleCancellation(w) \/ abortWorker(w)
  BY <1>0, <1>2 DEF resetPlan, beginContinuation, executeStoredRun, flushPlan, takeSnapshot,
         finalizeRecord, settleContinuation, executeRunCancellation, completeCancellation, settleCancellation, abortWorker, goto, Loaded
<1>3. CASE startNode(w) \/ \E s \in Outcome : finishNode(w, s)
  BY <1>0, <1>3 DEF startNode, finishNode
<1>4. CASE stopLoop(w) \/ conclude(w)
  BY <1>0, <1>4 DEF stopLoop, conclude, goto, store, local, Loaded
<1>5. QED
  BY <1>1, <1>2, <1>3, <1>4 DEF WorkerStep

\* Every step keeps requests one at a time and the copies in step.
LEMMA SeqStep ==
  ASSUME ~ Overlap, ~ Hatchet, SeqInv, [Next]_vars
  PROVE  SeqInv'
<1> USE DEF SeqInv
<1>a. IInv' /\ Counted'
  <2>1. IInv'
    BY InvStep
  <2>2. QED
    BY <2>1, CountedStep
<1>1. ASSUME NEW t \in Ticket, Api(t)
      PROVE  OneAtATime' /\ InStep'
  <2>1. /\ AtRest /\ apc[t] = "idle" /\ UNCHANGED <<wpc, wplan>>
        /\ apc'[t] \notin {"stamp"} /\ \A u \in Ticket : u # t => apc'[u] = apc[u]
        /\ apc'[t] = "decide" => apiPlan'[t] = plan /\ plan' = plan
    BY <1>1 DEF Api, prepareRunState, resumeRun, retryRunNode, cancelRun, readPlanForDecision, mayCall, place,
                workers, local, store, IInv, TypeOK
  <2>2. \A w \in Worker : WorkerIdle(w) /\ WorkerIdle(w)'
    BY <2>1 DEF AtRest, WorkerIdle
  <2>3. \A u \in Ticket : u # t => ~ Engaged(u)' /\ apc'[u] # "decide"
    BY <2>1, <2>2 DEF AtRest, Engaged, Worker, Lane
  <2>4. OneAtATime'
    BY <2>1, <2>3 DEF OneAtATime
  <2>5. InStep'
    BY <2>1, <2>2, <2>3 DEF InStep, Loaded, WorkerIdle
  <2>6. QED
    BY <2>4, <2>5
<1>2. ASSUME NEW t \in Ticket, ApiStep(t) \/ abandonCall(t)
      PROVE  OneAtATime' /\ InStep'
  <2>1. apc[t] \notin {"idle", "done"}
    BY <1>2 DEF ApiStep, abandonCall, recordCanonicalRun, recordNodeAttempt, queueCancel, announceCancel, submitHatchet,
                submitLocal, submitTwice, stampHatchetRun, recordPlanDecision
  <2>2. /\ \A u \in Ticket : u # t => apc[u] \in {"idle", "done"}
        /\ \A w \in Worker : WorkerIdle(w)
        /\ \A l \in Lane : wpc[<<t, l>>] = "idle"
    BY <2>1, CallAlone
  <2>3. /\ \A u \in Ticket : u # t => apc'[u] = apc[u]
        /\ apc'[t] \notin {"stamp", "decide"}
        /\ \A w \in Worker : wpc'[w] = wpc[w] \/ (w = <<t, "local">> /\ wpc'[w] \notin Loaded)
    <3>0. apc \in [Ticket -> ApiPc] /\ wpc \in [Worker -> WorkerPc]
      BY DEF IInv, TypeOK
    <3>1. CASE submitLocal(t)
      <4>1. /\ apc' = [apc EXCEPT ![t] = "done"] /\ wpc' = [wpc EXCEPT ![<<t, "local">>] = entry(t)]
            /\ entry(t) \notin Loaded
        BY <3>1 DEF submitLocal, entry, Loaded
      <4>2. QED
        BY <3>0, <4>1
    <3>2. CASE ~ submitLocal(t)
      BY <1>2, <3>0, <3>2 DEF ApiStep, abandonCall, recordCanonicalRun, recordNodeAttempt, queueCancel, announceCancel, submitHatchet,
                submitTwice, stampHatchetRun, recordPlanDecision, workers, OneAtATime
    <3>3. QED
      BY <3>1, <3>2
  <2>4. \A u \in Ticket : u # t => ~ Engaged(u)'
    <3> SUFFICES ASSUME NEW u \in Ticket, u # t PROVE ~ Engaged(u)'
      OBVIOUS
    <3>1. <<u, "local">> \in Worker /\ <<u, "local">> # <<t, "local">>
      BY DEF Worker, Lane
    <3>2. WorkerIdle(<<u, "local">>)'
      BY <2>2, <2>3, <3>1 DEF WorkerIdle
    <3>3. QED
      BY <2>2, <2>3, <3>2 DEF Engaged
  <2>5. \A u \in Ticket : wpc'[<<u, "hatchet">>] = "idle"
    BY <2>3 DEF OneAtATime, Worker, Lane
  <2>6. OneAtATime'
    BY <2>2, <2>3, <2>4, <2>5 DEF OneAtATime
  <2>7. InStep'
    BY <2>2, <2>3 DEF InStep, Loaded, WorkerIdle
  <2>8. QED
    BY <2>6, <2>7
<1>3. ASSUME NEW w \in Worker, WorkerStep(w) \/ abortWorker(w)
      PROVE  OneAtATime' /\ InStep'
  <2>1. /\ ~ WorkerIdle(w) /\ UNCHANGED callers
        /\ \A v \in Worker : v # w => /\ wpc'[v] = wpc[v] /\ wplan'[v] = wplan[v] /\ WorkerIdle(v)' = WorkerIdle(v)
    BY <1>3, WorkerFrame
  <2>2. /\ w = <<w[1], "local">> /\ w[1] \in Ticket
        /\ \A v \in Worker : v # w => WorkerIdle(v)
        /\ \A t \in Ticket : apc[t] \in {"idle", "done"}
    BY <2>1, WorkerAlone
  <2>3. \A u \in Ticket : u # w[1] => ~ Engaged(u)'
    BY <2>1, <2>2 DEF Engaged, Worker, Lane, callers
  <2>4. \A u \in Ticket : wpc'[<<u, "hatchet">>] = "idle"
    <3> SUFFICES ASSUME NEW u \in Ticket PROVE wpc'[<<u, "hatchet">>] = "idle"
      OBVIOUS
    <3>1. <<u, "hatchet">> \in Worker /\ <<u, "hatchet">> # <<w[1], "local">>
      BY DEF Worker, Lane
    <3>2. QED
      BY <2>1, <2>2, <3>1 DEF OneAtATime
  <2>5. OneAtATime'
    BY <2>1, <2>2, <2>3, <2>4 DEF OneAtATime, callers
  <2>6. wpc'[w] \in Loaded => wplan'[w] = plan'
    BY <1>3, WorkerInStep DEF InStep
  <2>7. InStep'
    BY <2>1, <2>2, <2>6 DEF InStep, callers, WorkerIdle, Loaded
  <2>8. QED
    BY <2>5, <2>7
<1>4. CASE UNCHANGED vars
  BY <1>4, <1>a DEF vars, callers, workers, local, store, OneAtATime, InStep, Engaged, WorkerIdle
<1>5. QED
  BY <1>a, <1>1, <1>2, <1>3, <1>4 DEF Next

\* Every write of the plan state is a step of the plan life cycle.
LEMMA LifecycleStep ==
  ASSUME ~ Overlap, ~ Hatchet, SeqInv, [Next]_vars
  PROVE  [Lifecycle!Next]_(Lifecycle!vars)
<1> USE DEF SeqInv
<1>0. plan \in PlanCopy /\ plan.node \in [Node -> NodeStatus] /\ Ordered(plan)
  BY DEF IInv, TypeOK, PlanCopy, SoundCopies, Sound
<1>a. ASSUME plan' = plan
      PROVE  [Lifecycle!Next]_(Lifecycle!vars)
  BY <1>a DEF Lifecycle!vars
<1>1. ASSUME NEW t \in Ticket, NEW r \in Run, NEW kind, prepareRunState(t, r, kind)
      PROVE  Lifecycle!Next
  BY <1>1 DEF prepareRunState, createInitialPlanState, Lifecycle!Next, Lifecycle!Prepare, Lifecycle!Fresh
<1>2. ASSUME NEW t \in Ticket, recordPlanDecision(t)
      PROVE  plan' = plan \/ Lifecycle!Next
  <2>1. apiPlan[t] = plan
    BY <1>2 DEF recordPlanDecision, InStep
  <2>2. CASE req[t].kind = "reject"
    BY <1>0, <1>2, <2>1, <2>2 DEF recordPlanDecision, Lifecycle!Next, Lifecycle!Reject, PlanCopy
  <2>3. CASE req[t].kind # "reject"
    BY <1>2, <2>1, <2>3 DEF recordPlanDecision
  <2>4. QED
    BY <2>2, <2>3
<1>3. ASSUME NEW w \in Worker, resetPlan(w)
      PROVE  Lifecycle!Next
  <2>1. wplan[w] = plan /\ req[w[1]].node \in Node
    BY <1>3 DEF resetPlan, InStep, Loaded, IInv, TypeOK, Worker, Request
  <2>2. CASE kindOf(w) = "retry"
    <3> DEFINE n == req[w[1]].node
               S == dependentNodeIds(n)
    <3>1. S \in SUBSET Node /\ n \in S
      BY <2>1, DependentsClosed DEF dependentNodeIds
    <3>2. \A m \in Node : m \notin S => DependsOn[m] \cap S = {}
      BY <2>1, DependentsClosed
    <3>3. plan' = resetForRetry(plan, n)
      BY <1>3, <2>1, <2>2 DEF resetPlan
    <3> HIDE DEF S, n
    <3>4. plan'.status = "running"
          /\ plan'.node = [m \in Node |-> IF m = n THEN "ready" ELSE IF m \in S THEN "pending" ELSE plan.node[m]]
      BY <3>3 DEF resetForRetry, S
    <3>5. Lifecycle!Replay(S)
      BY <3>1, <3>2, <3>4 DEF Lifecycle!Replay, Lifecycle!Waiting
    <3>6. QED
      BY <3>1, <3>5 DEF Lifecycle!Next
  <2>3. CASE kindOf(w) # "retry"
    <3> DEFINE S == {m \in Node : plan.node[m] \in {"yielded", "failed"}}
    <3>1. plan'.status = "running"
          /\ plan'.node = [m \in Node |-> IF m \in S THEN "ready" ELSE plan.node[m]]
      BY <1>3, <2>1, <2>3 DEF resetPlan, resetForResume
    <3>2. ASSUME NEW m \in Node, plan.node[m] \notin {"pending", "ready"}
          PROVE  DependsOn[m] \cap S = {}
      <4>1. plan.node[m] \in Begun
        BY <1>0, <3>2 DEF NodeStatus, Begun
      <4>2. QED
        BY <1>0, <4>1 DEF Ordered, Done
    <3> HIDE DEF S
    <3>3. Lifecycle!Replay(S)
      BY <3>1, <3>2 DEF Lifecycle!Replay, Lifecycle!Waiting
    <3>4. S \in SUBSET Node
      BY DEF S
    <3>5. QED
      BY <3>3, <3>4 DEF Lifecycle!Next
  <2>4. QED
    BY <2>2, <2>3
<1>4. ASSUME NEW w \in Worker, startNode(w)
      PROVE  Lifecycle!Next
  <2> DEFINE n == firstReady(plan)
  <2>1. wplan[w] = plan
    BY <1>4 DEF startNode, InStep, Loaded
  <2>2. n \in readyNodes(plan)
    BY <1>0, <1>4, <2>1, FirstReady DEF startNode
  <2>3. plan' = markNodeRunning(plan, n)
    BY <1>4, <2>1 DEF startNode
  <2> HIDE DEF n
  <2>4. n \in Node /\ Lifecycle!Begin(n)
    BY <2>2, <2>3 DEF readyNodes, markNodeRunning, Lifecycle!Begin, Lifecycle!Waiting, Lifecycle!Done, Done
  <2>5. QED
    BY <2>4 DEF Lifecycle!Next
<1>5. ASSUME NEW w \in Worker, NEW s \in Outcome, finishNode(w, s)
      PROVE  Lifecycle!Next
  <2>1. wplan[w] = plan /\ wnode[w] \in Node /\ plan.node[wnode[w]] = "running"
    BY <1>5 DEF finishNode, InStep, Loaded, IInv, TypeOK, SoundCopies
  <2>2. plan' = markNode(plan, wnode[w], s)
    BY <1>5, <2>1 DEF finishNode
  <2>3. /\ plan'.node = [plan.node EXCEPT ![wnode[w]] = s]
        /\ plan'.status = IF s \in {"failed", "yielded"} THEN s
                          ELSE IF \A m \in Node : plan'.node[m] \in Done THEN "completed" ELSE "running"
    BY <2>2 DEF markNode, Outcome
  <2>4. Lifecycle!Finish(wnode[w], s)
    BY <2>1, <2>3 DEF Lifecycle!Finish, Lifecycle!Verdict, Lifecycle!Done, Done
  <2>5. QED
    BY <2>1, <2>4 DEF Lifecycle!Next, Outcome
<1>6. ASSUME NEW w \in Worker, flushPlan(w)
      PROVE  plan' = plan
  BY <1>6 DEF flushPlan, InStep, Loaded
<1>7. ASSUME NEW t \in Ticket, Api(t) \/ ApiStep(t) \/ abandonCall(t)
      PROVE  plan' = plan \/ Lifecycle!Next
  <2>1. CASE Api(t) /\ ~ \E r \in Run, kind \in CallKind : prepareRunState(t, r, kind)
    BY <2>1 DEF Api, resumeRun, retryRunNode, cancelRun, readPlanForDecision, store, CallKind
  <2>2. CASE \E r \in Run, kind \in CallKind : prepareRunState(t, r, kind)
    BY <1>1, <2>2
  <2>3. CASE ApiStep(t) \/ abandonCall(t)
    BY <1>2, <2>3 DEF ApiStep, abandonCall, recordCanonicalRun, recordNodeAttempt, queueCancel, announceCancel, submitHatchet,
              submitLocal, submitTwice, stampHatchetRun, store
  <2>4. QED
    BY <1>7, <2>1, <2>2, <2>3
<1>8. ASSUME NEW w \in Worker, WorkerStep(w) \/ abortWorker(w)
      PROVE  plan' = plan \/ Lifecycle!Next
  BY <1>3, <1>4, <1>5, <1>6, <1>8 DEF WorkerStep, abortWorker, readContinuation, beginContinuation, executeStoredRun,
         loadPlan, stopLoop, conclude, takeSnapshot, finalizeRecord, settleContinuation,
         executeRunCancellation, completeCancellation, settleCancellation, store
<1>9. CASE UNCHANGED vars
  BY <1>9, <1>a DEF vars, store
<1>10. QED
  BY <1>a, <1>7, <1>8, <1>9 DEF Next

\* Served one at a time and by the process that makes them, requests write the plan
\* state only by steps of PlanLifecycle: for every plan, any number of runs and
\* calls, and wherever a process dies.
THEOREM Refinement ==
  ASSUME ~ Overlap, ~ Hatchet
  PROVE  Spec => ImplementsPlanLifecycle
<1>2. Init => Lifecycle!Init
  BY DEF Init, BlankPlan, createInitialPlanState, Lifecycle!Init, Lifecycle!Fresh
<1>3. SeqInv /\ [Next]_vars => SeqInv' /\ [Lifecycle!Next]_(Lifecycle!vars)
  BY SeqStep, LifecycleStep
<1>4. QED
  BY SeqInit, <1>2, <1>3, PTL DEF Spec, ImplementsPlanLifecycle, Lifecycle!Spec

-----------------------------------------------------------------------------
(***************************************************************************)
(* What a retry does.                                                      *)
(***************************************************************************)

\* The statuses a retry resets.
Stopped == {"failed", "yielded"}

\* Between the reset and the end of its continuation, the node of a retry waits to
\* be picked, is being executed or has an outcome that this worker brought it to; if
\* the loop ended before it was picked, a node that this worker ran stopped it or a
\* dependency is not done.
Rerun(w) ==
  LET n == req[w[1]].node
  IN  kindOf(w) = "retry" =>
        /\ wpc[w] \in {"begin", "execute", "load"} => plan.node[n] = "ready"
        /\ wpc[w] = "pick" => plan.node[n] = "ready" \/ (n \in ran[w] /\ plan.node[n] = "completed")
        /\ wpc[w] = "exec" => \/ plan.node[n] = "ready" \/ wnode[w] = n
                              \/ n \in ran[w] /\ plan.node[n] = "completed"
        /\ wpc[w] \in {"conclude", "flush", "snapshot", "finalize", "settle"} =>
             \/ \E d \in DependsOn[n] : plan.node[d] \notin Done
             \/ n \in ran[w] /\ plan.node[n] \in Outcome
             \/ \E m \in ran[w] : plan.node[m] = plan.status /\ plan.status \in {"failed", "yielded"}

\* Every step keeps what is known of a retry.
LEMMA RerunStep ==
  ASSUME ~ Overlap, ~ Hatchet, SeqInv, \A w \in Worker : Rerun(w), [Next]_vars
  PROVE  \A w \in Worker : Rerun(w)'
<1> USE DEF SeqInv
<1>1. ASSUME \A w \in Worker : WorkerIdle(w)', NEW w \in Worker
      PROVE  Rerun(w)'
  BY <1>1 DEF Rerun, WorkerIdle
<1>2. ASSUME NEW t \in Ticket, Api(t) \/ abandonCall(t) \/ recordCanonicalRun(t) \/ recordNodeAttempt(t)
               \/ queueCancel(t) \/ announceCancel(t) \/ stampHatchetRun(t) \/ recordPlanDecision(t)
      PROVE  \A w \in Worker : Rerun(w)'
  <2>1. \A w \in Worker : WorkerIdle(w)
    <3>1. CASE Api(t)
      BY <3>1 DEF Api, prepareRunState, resumeRun, retryRunNode, cancelRun, readPlanForDecision, mayCall, AtRest
    <3>2. CASE apc[t] \notin {"idle", "done"}
      BY <3>2, CallAlone
    <3>3. QED
      BY <1>2, <3>1, <3>2 DEF abandonCall, recordCanonicalRun, recordNodeAttempt, queueCancel, announceCancel, stampHatchetRun,
                recordPlanDecision
  <2>2. wpc' = wpc
    BY <1>2 DEF Api, abandonCall, recordCanonicalRun, recordNodeAttempt, queueCancel, announceCancel, stampHatchetRun,
                recordPlanDecision, prepareRunState, resumeRun, retryRunNode, cancelRun,
                readPlanForDecision, workers
  <2>3. QED
    BY <1>1, <2>1, <2>2 DEF WorkerIdle
<1>3. ASSUME NEW t \in Ticket, submitHatchet(t) \/ submitLocal(t) \/ submitTwice(t)
      PROVE  \A w \in Worker : Rerun(w)'
  <2>1. submitLocal(t)
    BY <1>3 DEF submitHatchet, submitTwice
  <2>2. \A w \in Worker : WorkerIdle(w)
    BY <2>1, CallAlone DEF submitLocal
  <2>3. /\ req' = req /\ \A w \in Worker : wpc'[w] = wpc[w] \/ (w = <<t, "local">> /\ wpc'[w] = entry(t))
    BY <2>1 DEF submitLocal, IInv, TypeOK
  <2>4. req[t].kind = "retry" => entry(t) = "read"
    BY DEF entry
  <2>5. QED
    BY <2>2, <2>3, <2>4 DEF Rerun, WorkerIdle, kindOf
<1>4. ASSUME NEW w \in Worker, WorkerStep(w) \/ abortWorker(w)
      PROVE  \A v \in Worker : Rerun(v)'
  <2>1. /\ ~ WorkerIdle(w) /\ UNCHANGED callers
        /\ \A v \in Worker : v # w => /\ wpc'[v] = wpc[v] /\ WorkerIdle(v)' = WorkerIdle(v)
    BY <1>4, WorkerFrame
  <2>2. \A v \in Worker : v # w => WorkerIdle(v)'
    BY <2>1, WorkerAlone
  <2>3. \A v \in Worker : v # w => Rerun(v)'
    BY <2>2 DEF Rerun, WorkerIdle
  <2> DEFINE n == req[w[1]].node
  <2>4. /\ n \in Node /\ plan \in PlanCopy /\ plan.node \in [Node -> NodeStatus] /\ wnode[w] \in Node
        /\ w \in DOMAIN wpc /\ w \in DOMAIN wnode /\ UNCHANGED req
        /\ wpc[w] = "exec" => plan.node[wnode[w]] = "running"
        /\ ran \in [Worker -> SUBSET Node]
    BY <2>1 DEF IInv, TypeOK, PlanCopy, Worker, Request, callers, SoundCopies, InStep, Loaded
  <2>5. ASSUME kindOf(w) = "retry"
        PROVE  Rerun(w)'
    <3>1. CASE resetPlan(w)
      <4>1. plan' = resetForRetry(wplan[w], n) /\ wpc'[w] = "begin"
        BY <2>4, <2>5, <3>1 DEF resetPlan, goto
      <4>2. plan'.node[n] = "ready"
        BY <2>4, <4>1 DEF resetForRetry
      <4>3. QED
        BY <2>4, <4>1, <4>2 DEF Rerun
    <3>2. CASE beginContinuation(w) \/ executeStoredRun(w) \/ loadPlan(w) \/ conclude(w) \/ takeSnapshot(w)
      BY <2>4, <3>2 DEF Rerun, kindOf, beginContinuation, executeStoredRun, loadPlan, conclude, takeSnapshot, goto, store, local
    <3>3. CASE startNode(w)
      <4> DEFINE k == firstReady(plan)
      <4>1. k \in readyNodes(plan) /\ plan' = markNodeRunning(plan, k) /\ wnode'[w] = k /\ wpc'[w] = "exec"
        BY <2>4, <3>3, FirstReady DEF startNode, goto, InStep, Loaded
      <4> HIDE DEF k
      <4>2. k \in Node /\ plan'.node = [plan.node EXCEPT ![k] = "running"]
        BY <4>1 DEF readyNodes, markNodeRunning
      <4>3. k # n => plan'.node[n] = plan.node[n]
        BY <2>4, <4>2
      <4>4. ran'[w] = ran[w] /\ wpc[w] = "pick"
        BY <3>3 DEF startNode
      <4>5. QED
        BY <2>4, <2>5, <4>1, <4>3, <4>4 DEF Rerun, kindOf
    <3>4. CASE \E s \in Outcome : finishNode(w, s)
      <4>1. PICK s \in Outcome : finishNode(w, s)
        BY <3>4
      <4>2. /\ plan' = markNode(plan, wnode[w], s) /\ wpc[w] = "exec"
            /\ wpc'[w] = IF plan'.status = "running" THEN "pick" ELSE "conclude"
        BY <2>4, <4>1 DEF finishNode, goto, InStep, Loaded
      <4>3. /\ plan'.node = [plan.node EXCEPT ![wnode[w]] = s]
            /\ plan'.status = IF s \in Stopped THEN s
                              ELSE IF \A m \in Node : plan'.node[m] \in Done THEN "completed" ELSE "running"
        BY <4>2 DEF markNode, Outcome, Stopped
      <4>4. plan'.node[wnode[w]] = s /\ (wnode[w] # n => plan'.node[n] = plan.node[n])
        BY <2>4, <4>3
      <4>r. ran'[w] = ran[w] \cup {wnode[w]}
        BY <2>4, <4>1 DEF finishNode
      <4>5. CASE wnode[w] = n
        BY <2>4, <4>2, <4>3, <4>4, <4>5, <4>r DEF Rerun, Outcome, Stopped
      <4>6. CASE wnode[w] # n
        <5>1. plan'.node[n] = "ready" \/ (n \in ran'[w] /\ plan'.node[n] = "completed")
          BY <2>5, <4>2, <4>4, <4>6, <4>r DEF Rerun
        <5>2. ASSUME plan'.status # "running", plan'.node[n] = "ready"
              PROVE  wnode[w] \in ran'[w] /\ plan'.node[wnode[w]] = plan'.status /\ plan'.status \in {"failed", "yielded"}
          BY <2>4, <4>3, <4>4, <4>r, <5>2 DEF Stopped, Done
        <5>3. QED
          BY <2>4, <4>2, <4>6, <5>1, <5>2 DEF Rerun, Outcome
      <4>7. QED
        BY <4>5, <4>6
    <3>5. CASE stopLoop(w)
      <4>1. /\ wplan[w] = plan /\ index[w] <= NodeCount /\ index[w] \in Nat /\ wpc[w] = "pick"
            /\ plan' = plan /\ wpc'[w] = "conclude" /\ ran' = ran
        BY <2>4, <3>5, CountedBound DEF stopLoop, goto, store, local, InStep, Loaded, IInv, TypeOK, LoopBoundNeverReached
      <4>2. readyNodes(plan) = {}
        BY <3>5, <4>1, ConstantsAssumption DEF stopLoop, LoopBound
      <4>3. plan.node[n] = "ready" => \E d \in DependsOn[n] : plan.node[d] \notin Done
        BY <2>4, <4>2 DEF readyNodes
      <4>4. QED
        BY <2>4, <2>5, <4>1, <4>3 DEF Rerun, Outcome, kindOf
    <3>6. CASE flushPlan(w) \/ finalizeRecord(w)
      <4>1. plan' = plan /\ ran' = ran
        BY <2>5, <3>6 DEF flushPlan, finalizeRecord, InStep, Loaded, local, kindOf
      <4>2. QED
        BY <2>4, <2>5, <3>6, <4>1 DEF Rerun, flushPlan, finalizeRecord, goto, kindOf
    <3>7. CASE readContinuation(w) \/ settleContinuation(w) \/ executeRunCancellation(w) \/ completeCancellation(w) \/ settleCancellation(w)
                 \/ abortWorker(w)
      BY <2>4, <3>7 DEF Rerun, readContinuation, settleContinuation, executeRunCancellation, completeCancellation, settleCancellation, abortWorker, goto
    <3>8. QED
      BY <1>4, <3>1, <3>2, <3>3, <3>4, <3>5, <3>6, <3>7 DEF WorkerStep
  <2>6. Rerun(w)'
    BY <2>4, <2>5 DEF Rerun, kindOf
  <2>7. QED
    BY <2>3, <2>6
<1>5. CASE UNCHANGED vars
  BY <1>5 DEF vars, store, callers, workers, local, Rerun, kindOf
<1>6. QED
  BY <1>2, <1>3, <1>4, <1>5 DEF Next, ApiStep

\* A retry served alone runs its node again, whatever the node was before: for
\* every plan, also after crashes.
THEOREM RetryRerunsHolds ==
  ASSUME ~ Overlap, ~ Hatchet
  PROVE  Spec => RetryReruns
<1> DEFINE Reran == \A w \in Worker : Rerun(w)
<1>1. Init => Reran
  BY DEF Init, Rerun
<1>2. SeqInv /\ Reran /\ [Next]_vars => Reran'
  BY RerunStep
<1>3. SeqInv /\ Reran =>
        \A w \in Worker :
          settleContinuation(w) /\ kindOf(w) = "retry"
            /\ (\A d \in DependsOn[req[w[1]].node] : plan.node[d] \in Done)
          => \/ req[w[1]].node \in ran[w] /\ plan.node[req[w[1]].node] \in Outcome
             \/ \E m \in ran[w] :
                  plan.node[m] = plan.status /\ plan.status \in {"failed", "yielded"}
  BY DEF Rerun, settleContinuation
<1> HIDE DEF Reran
<1>4. QED
  BY SeqInit, SeqStep, <1>1, <1>2, <1>3, PTL DEF Spec, RetryReruns

-----------------------------------------------------------------------------
(***************************************************************************)
(* What the record, the events and the nodes of a run say of each other.   *)
(***************************************************************************)

\* No dependency goes round among the nodes of S.
Acyclic(S) == \A T \in SUBSET S : T # {} => \E n \in T : DependsOn[n] \cap T = {}

\* The steps of a worker that executes the plan.
Executing == {"load", "pick", "exec", "conclude", "flush", "snapshot", "finalize"}

\* Only a plan without a cycle completes.
Founded(r) ==
  /\ Acyclic(Taken(plan))
  /\ terminal[r] = "completed" => Acyclic(Node)

\* A run has a record before it has events or a worker.
Recorded(r) ==
  /\ record[r] = "absent" => ~ started[r] /\ terminal[r] = "none"
  /\ \A t \in Ticket : apc[t] = "canonical" => record[r] = "absent"
  /\ \A t \in Ticket : apc[t] \in {"submit", "attempt"} => record[r] # "absent"
  /\ \A t \in Ticket : apc[t] = "attempt" => req[t].kind # "cancel"
  /\ \A t \in Ticket : apc[t] \in {"queue", "announce"} => record[r] = "cancelled"
  /\ \A t \in Ticket : apc[t] = "submit" /\ req[t].kind = "cancel" =>
                          record[r] = "cancelled" /\ terminal[r] = "cancelled"
  /\ \A w \in Worker : wpc[w] \in {"read", "reset", "begin", "execute"} \cup Executing => record[r] # "absent"
  /\ \A w \in Worker : wpc[w] \in Executing \ {"load"} => started[r]
  /\ \A w \in Worker : wpc[w] \in {"cancel", "settled", "cancelled"} => record[r] = "cancelled" /\ terminal[r] = "cancelled"
  /\ \A w \in Worker : wpc[w] = "finalize" => snap[w] = runStatus(r)

\* Outside of an execution the record says what the events say.
Agreed(r) ==
  \/ started[r] \/ terminal[r] # "none" => record[r] = runStatus(r)
  \/ \E w \in Worker : wpc[w] \in Executing
  \/ \E t \in Ticket : apc[t] \in {"queue", "announce"}

\* Unless a process was lost, a node runs only while a worker executes it; and what
\* completed is done, until a replay gives it up or a worker finds otherwise.
Told(r) ==
  /\ \A n \in Node : plan.node[n] = "running" => \E w \in Worker : wpc[w] = "exec" /\ wnode[w] = n
  /\ terminal[r] = "completed" =>
       \/ \E w \in Worker : wpc[w] = "conclude" /\ plan.status \in Stopped
       \/ /\ \A n \in Node : plan.node[n] \notin Stopped
          /\ \/ \A n \in Node : plan.node[n] \in Done
             \/ \E w \in Worker : wpc[w] \in {"begin", "execute", "load", "pick", "exec"}

\* What the record, the events and the nodes of run r say.
RunInv(r) == Founded(r) /\ Recorded(r) /\ (aborts = 0 => Agreed(r) /\ Told(r))

\* A set whose nodes depend on nothing of it that goes round has none either when a
\* node joins whose dependencies were all there before it.
LEMMA AcyclicJoin ==
  ASSUME NEW S \in SUBSET Node, Acyclic(S), NEW n \in Node, n \notin S,
         DependsOn[n] \subseteq S, \A m \in S : DependsOn[m] \subseteq S
  PROVE  Acyclic(S \cup {n})
<1> SUFFICES ASSUME NEW T \in SUBSET (S \cup {n}), T # {}
             PROVE  \E m \in T : DependsOn[m] \cap T = {}
  BY DEF Acyclic
<1>1. CASE T \subseteq {n}
  <2>1. T = {n} /\ n \notin DependsOn[n]
    BY <1>1
  <2>2. QED
    BY <2>1
<1>2. CASE ~ (T \subseteq {n})
  <2> DEFINE U == T \ {n}
  <2>1. U \in SUBSET S /\ U # {}
    BY <1>2
  <2>2. PICK m \in U : DependsOn[m] \cap U = {}
    BY <2>1 DEF Acyclic
  <2>3. n \notin DependsOn[m]
    BY <2>1, <2>2
  <2>4. QED
    BY <2>2, <2>3
<1>3. QED
  BY <1>1, <1>2

\* A part of a set without a cycle has none.
LEMMA AcyclicPart ==
  ASSUME NEW S, Acyclic(S), NEW U \in SUBSET S
  PROVE  Acyclic(U)
BY DEF Acyclic

\* Without a cycle, nodes that wait are not all that keeps a plan from completion:
\* when nothing is ready, runs or has stopped, every node is done.
LEMMA NothingReady ==
  ASSUME NEW c \in PlanCopy, Acyclic(Node), readyNodes(c) = {},
         \A n \in Node : c.node[n] \notin Stopped \cup {"running"}
  PROVE  \A n \in Node : c.node[n] \in Done
<1> DEFINE T == {n \in Node : c.node[n] \notin Done}
<1> SUFFICES ASSUME T # {} PROVE FALSE
  OBVIOUS
<1>1. PICK n \in T : DependsOn[n] \cap T = {}
  BY DEF Acyclic
<1>2. DependsOn[n] \subseteq Node
  BY ConstantsAssumption
<1>3. c.node[n] \in {"pending", "ready"}
  BY DEF PlanCopy, NodeStatus, Done, Stopped
<1>4. n \in readyNodes(c)
  BY <1>1, <1>2, <1>3 DEF readyNodes
<1>5. QED
  BY <1>4

\* Which nodes of a copy are taken, and what they depend on.
LEMMA TakenBegun ==
  ASSUME NEW c \in PlanCopy, Ordered(c)
  PROVE  \A m \in Taken(c) : DependsOn[m] \subseteq Taken(c)
<1> SUFFICES ASSUME NEW m \in Taken(c), NEW d \in DependsOn[m] PROVE d \in Taken(c)
  OBVIOUS
<1>1. m \in Node /\ c.node[m] \in Begun
  BY DEF Taken, PlanCopy, NodeStatus, Waiting, Begun
<1>2. d \in Node /\ c.node[d] \in Done
  BY <1>1, ConstantsAssumption DEF Ordered
<1>3. QED
  BY <1>2 DEF Taken, Done, Waiting

\* Only a plan without a cycle completes: kept by every step.
LEMMA FoundedStep ==
  ASSUME ~ Overlap, ~ Hatchet, SeqInv, NEW r \in Run, Founded(r), [Next]_vars
  PROVE  Founded(r)'
<1> USE DEF SeqInv
<1>0. /\ plan \in PlanCopy /\ plan.node \in [Node -> NodeStatus] /\ Ordered(plan) /\ Meaningful(plan)
      /\ terminal \in [Run -> TerminalStatus \cup {"none"}]
  BY DEF IInv, TypeOK, PlanCopy, SoundCopies, Sound
<1>1. ASSUME Taken(plan)' \subseteq Taken(plan), terminal'[r] \in {terminal[r], "cancelled"}
      PROVE  Founded(r)'
  BY <1>1, AcyclicPart DEF Founded
<1>2. ASSUME NEW w \in Worker, startNode(w)
      PROVE  Founded(r)'
  <2> DEFINE n == firstReady(plan)
  <2>1. wplan[w] = plan
    BY <1>2 DEF startNode, InStep, Loaded
  <2>2. n \in readyNodes(plan) /\ plan' = markNodeRunning(plan, n) /\ terminal' = terminal
    BY <1>0, <1>2, <2>1, FirstReady DEF startNode
  <2> HIDE DEF n
  <2>3. n \in Node /\ n \notin Taken(plan) /\ DependsOn[n] \subseteq Taken(plan)
    BY <2>2, ConstantsAssumption DEF readyNodes, Taken, Waiting, Done
  <2>4. Taken(plan') = Taken(plan) \cup {n}
    BY <1>0, <2>2, <2>3 DEF Taken, markNodeRunning, Waiting
  <2>5. Acyclic(Taken(plan'))
    BY <1>0, <2>3, <2>4, TakenBegun, AcyclicJoin DEF Founded, Taken
  <2>6. QED
    BY <2>2, <2>5 DEF Founded
<1>3. ASSUME NEW w \in Worker, NEW s \in Outcome, finishNode(w, s)
      PROVE  Founded(r)'
  <2>1. wplan[w] = plan /\ wnode[w] \in Node /\ plan.node[wnode[w]] = "running"
    BY <1>3 DEF finishNode, InStep, Loaded, IInv, TypeOK, SoundCopies
  <2>2. plan' = markNode(plan, wnode[w], s) /\ terminal' = terminal
    BY <1>3, <2>1 DEF finishNode
  <2>3. Taken(plan') = Taken(plan)
    BY <1>0, <2>1, <2>2, TurnTaken
  <2>4. QED
    BY <1>1, <2>2, <2>3
<1>4. ASSUME NEW w \in Worker, conclude(w)
      PROVE  Founded(r)'
  <2>1. plan' = plan /\ wplan[w] = plan
    BY <1>4 DEF conclude, InStep, Loaded
  <2>2. terminal'[r] = terminal[r] \/ (terminal'[r] = plan.status)
    BY <1>0, <1>4, <2>1 DEF conclude
  <2>3. ASSUME plan.status = "completed"
        PROVE  Acyclic(Node)
    <3>1. Taken(plan) = Node
      BY <1>0, <2>3 DEF Taken, Meaningful, Done, Waiting
    <3>2. QED
      BY <3>1 DEF Founded
  <2>4. QED
    BY <2>1, <2>2, <2>3 DEF Founded
<1>5. ASSUME NEW w \in Worker, resetPlan(w)
      PROVE  Founded(r)'
  <2>1. wplan[w] = plan /\ terminal' = terminal
    BY <1>5 DEF resetPlan, InStep, Loaded
  <2>2. plan' = resetForRetry(plan, req[w[1]].node) \/ plan' = resetForResume(plan)
    BY <1>5, <2>1 DEF resetPlan
  <2>3. Taken(plan') \subseteq Taken(plan)
    BY <2>2 DEF Taken, resetForRetry, resetForResume, Waiting
  <2>4. QED
    BY <1>1, <2>1, <2>3
<1>6. ASSUME NEW t \in Ticket, NEW q \in Run, NEW kind, prepareRunState(t, q, kind)
      PROVE  Founded(r)'
  <2>1. Taken(plan') = {} /\ terminal' = terminal
    BY <1>6 DEF prepareRunState, Taken, createInitialPlanState, Waiting
  <2>2. QED
    BY <1>1, <2>1
<1>7. ASSUME NEW t \in Ticket, recordPlanDecision(t)
      PROVE  Founded(r)'
  <2>1. apiPlan[t] = plan /\ terminal' = terminal
    BY <1>7 DEF recordPlanDecision, InStep
  <2>2. plan'.node = plan.node
    BY <1>0, <1>7, <2>1 DEF recordPlanDecision, PlanCopy
  <2>3. QED
    BY <1>1, <2>1, <2>2 DEF Taken
<1>8. ASSUME plan' = plan, terminal'[r] \in {terminal[r], "cancelled"}
      PROVE  Founded(r)'
  BY <1>1, <1>8
<1>9. ASSUME NEW t \in Ticket, Api(t)
      PROVE  Founded(r)'
  <2>1. CASE \E q \in Run, kind \in CallKind : prepareRunState(t, q, kind)
    BY <1>6, <2>1
  <2>2. CASE ~ \E q \in Run, kind \in CallKind : prepareRunState(t, q, kind)
    BY <1>8, <1>9, <2>2 DEF Api, resumeRun, retryRunNode, cancelRun, readPlanForDecision, store, CallKind
  <2>3. QED
    BY <2>1, <2>2
<1>10. ASSUME NEW t \in Ticket, ApiStep(t) \/ abandonCall(t)
       PROVE  Founded(r)'
  BY <1>0, <1>7, <1>8, <1>10 DEF ApiStep, abandonCall, recordCanonicalRun, recordNodeAttempt, queueCancel, announceCancel, submitHatchet,
              submitLocal, submitTwice, stampHatchetRun, store
<1>11. ASSUME NEW w \in Worker, WorkerStep(w) \/ abortWorker(w)
       PROVE  Founded(r)'
  <2>1. CASE flushPlan(w)
    BY <1>8, <2>1 DEF flushPlan, InStep, Loaded
  <2>2. CASE readContinuation(w) \/ beginContinuation(w) \/ executeStoredRun(w) \/ loadPlan(w) \/ stopLoop(w)
               \/ takeSnapshot(w) \/ finalizeRecord(w) \/ settleContinuation(w)
               \/ executeRunCancellation(w) \/ completeCancellation(w) \/ settleCancellation(w) \/ abortWorker(w)
    BY <1>0, <1>8, <2>2 DEF readContinuation, beginContinuation, executeStoredRun, loadPlan, stopLoop,
         takeSnapshot, finalizeRecord, settleContinuation, executeRunCancellation, completeCancellation, settleCancellation, abortWorker, store
  <2>3. QED
    BY <1>2, <1>3, <1>4, <1>5, <1>11, <2>1, <2>2 DEF WorkerStep
<1>12. CASE UNCHANGED vars
  BY <1>8, <1>12 DEF vars, store
<1>13. QED
  BY <1>9, <1>10, <1>11, <1>12 DEF Next

\* A call is placed only when nothing is under way.
LEMMA CallAtRest ==
  ASSUME ~ Overlap, SeqInv, NEW t \in Ticket, Api(t)
  PROVE  /\ apc[t] = "idle" /\ \A u \in Ticket : apc[u] \in {"idle", "done"}
         /\ \A w \in Worker : WorkerIdle(w)
         /\ UNCHANGED <<workers, terminal, started>>
         /\ \A u \in Ticket : u # t => apc'[u] = apc[u] /\ req'[u] = req[u]
<1>1. AtRest /\ apc[t] = "idle"
  BY DEF Api, prepareRunState, resumeRun, retryRunNode, cancelRun, readPlanForDecision, mayCall
<1>2. UNCHANGED <<workers, terminal, started>>
  BY DEF Api, prepareRunState, resumeRun, retryRunNode, cancelRun, readPlanForDecision, store
<1>3. \A u \in Ticket : u # t => apc'[u] = apc[u] /\ req'[u] = req[u]
  BY DEF Api, prepareRunState, resumeRun, retryRunNode, cancelRun, readPlanForDecision, place, SeqInv, IInv, TypeOK
<1>4. QED
  BY <1>1, <1>2, <1>3 DEF AtRest

\* The status computed from events depends on nothing else once there is one.
LEMMA StatusOfEvents ==
  ASSUME IInv, NEW r \in Run, started[r] \/ terminal[r] # "none",
         started'[r] = started[r], terminal'[r] = terminal[r]
  PROVE  runStatus(r)' = runStatus(r)
BY DEF runStatus, IInv, TypeOK

\* A step of a call keeps what is known of the one run.
LEMMA RecordedCall ==
  ASSUME ~ Overlap, ~ Hatchet, \A q, s \in Run : q = s, SeqInv, NEW r \in Run, Recorded(r), aborts = 0 => Agreed(r),
         NEW t \in Ticket, Api(t) \/ ApiStep(t) \/ abandonCall(t)
  PROVE  Recorded(r)' /\ (aborts' = 0 => Agreed(r)')
<1> USE DEF SeqInv
<1>0. /\ req \in [Ticket -> Request] /\ apc \in [Ticket -> ApiPc] /\ req[t].run = r /\ aborts \in Nat
      /\ record \in [Run -> RunStatus \cup {"absent"}] /\ wpc \in [Worker -> WorkerPc]
      /\ terminal \in [Run -> TerminalStatus \cup {"none"}] /\ started \in [Run -> BOOLEAN]
  BY ConstantsAssumption DEF IInv, TypeOK, Request
<1>1. CASE Api(t)
  <2>1. /\ apc[t] = "idle" /\ \A u \in Ticket : apc[u] \in {"idle", "done"}
        /\ \A w \in Worker : WorkerIdle(w)
        /\ UNCHANGED <<workers, terminal, started>>
        /\ \A u \in Ticket : u # t => apc'[u] = apc[u] /\ req'[u] = req[u]
    BY <1>1, CallAtRest
  <2>2. /\ aborts' = aborts
        /\ \A w \in Worker : WorkerIdle(w)'
        /\ \A u \in Ticket : u # t => apc'[u] \in {"idle", "done"}
    BY <2>1 DEF WorkerIdle, workers
  <2>3. aborts = 0 => (started[r] \/ terminal[r] # "none" => record[r] = runStatus(r))
    BY <2>1 DEF Agreed, WorkerIdle, Executing
  <2>4. CASE record' = record /\ apc'[t] \in {"canonical", "submit", "attempt", "decide"}
             /\ (apc'[t] = "canonical" => record[r] = "absent")
             /\ (apc'[t] \in {"submit", "attempt"} => record[r] # "absent" /\ req'[t].kind # "cancel")
    <3>1. Recorded(r)'
      BY <2>1, <2>2, <2>4 DEF Recorded, WorkerIdle, Executing
    <3>2. (started[r] \/ terminal[r] # "none") => runStatus(r)' = runStatus(r)
      BY <2>1, StatusOfEvents
    <3>a. started' = started /\ terminal' = terminal /\ record' = record /\ aborts' = aborts
      BY <2>1, <2>2, <2>4
    <3>b. aborts = 0 => (started'[r] \/ terminal'[r] # "none" => record'[r] = runStatus(r)')
      BY <2>3, <3>2, <3>a
    <3>3. aborts' = 0 => Agreed(r)'
      BY <3>a, <3>b DEF Agreed
    <3>4. QED
      BY <3>1, <3>3
  <2>5. CASE record'[r] = "cancelled" /\ apc'[t] = "queue" /\ record[r] # "absent"
    <3>1. Recorded(r)'
      BY <2>1, <2>2, <2>5 DEF Recorded, WorkerIdle, Executing
    <3>2. QED
      BY <2>5, <3>1 DEF Agreed
  <2>6. CASE \E q \in Run : cancelRun(t, q)
    BY <1>0, <2>5, <2>6 DEF cancelRun, place
  <2>7. CASE \E q \in Run : prepareRunState(t, q, "create") \/ prepareRunState(t, q, "apply") \/ resumeRun(t, q)
                 \/ \E n \in Node, m \in ReplayMode : retryRunNode(t, q, n, m)
    <3>1. PICK q \in Run : prepareRunState(t, q, "create") \/ prepareRunState(t, q, "apply") \/ resumeRun(t, q)
                 \/ \E n \in Node, m \in ReplayMode : retryRunNode(t, q, n, m)
      BY <2>7
    <3>2. q = r
      OBVIOUS
    <3>3. CASE prepareRunState(t, r, "create") \/ prepareRunState(t, r, "apply")
      <4>1. record' = record /\ apc'[t] = "canonical" /\ record[r] = "absent"
        BY <1>0, <3>3 DEF prepareRunState, place
      <4>2. QED
        BY <2>4, <4>1
    <3>4. CASE resumeRun(t, r)
      <4>1. record' = record /\ apc'[t] = "submit" /\ record[r] # "absent" /\ req'[t].kind = "resume"
        BY <1>0, <3>4 DEF resumeRun, place
      <4>2. QED
        BY <2>4, <4>1
    <3>5. CASE \E n \in Node, m \in ReplayMode : retryRunNode(t, r, n, m)
      <4>1. record' = record /\ apc'[t] = "attempt" /\ record[r] # "absent" /\ req'[t].kind = "retry"
        BY <1>0, <3>5 DEF retryRunNode, place, store
      <4>2. QED
        BY <2>4, <4>1
    <3>6. QED
      BY <3>1, <3>2, <3>3, <3>4, <3>5
  <2>8. CASE readPlanForDecision(t, "approve") \/ readPlanForDecision(t, "reject")
    BY <1>0, <2>4, <2>8 DEF readPlanForDecision, place, store
  <2>9. QED
    BY <1>1, <2>6, <2>7, <2>8 DEF Api
<1>2. CASE ApiStep(t) \/ abandonCall(t)
  <2>1. apc[t] \notin {"idle", "done"}
    BY <1>2 DEF ApiStep, abandonCall, recordCanonicalRun, recordNodeAttempt, queueCancel, announceCancel, submitHatchet,
                submitLocal, submitTwice, stampHatchetRun, recordPlanDecision
  <2>2. /\ \A u \in Ticket : u # t => apc[u] \in {"idle", "done"}
        /\ \A w \in Worker : WorkerIdle(w)
        /\ \A l \in Lane : wpc[<<t, l>>] = "idle"
    BY <2>1, CallAlone
  <2>3. /\ req' = req /\ started' = started /\ \A u \in Ticket : u # t => apc'[u] \in {"idle", "done"}
    BY <1>0, <1>2, <2>2 DEF ApiStep, abandonCall, recordCanonicalRun, recordNodeAttempt, queueCancel, announceCancel, submitHatchet,
                submitLocal, submitTwice, stampHatchetRun, recordPlanDecision, store
  <2>4. CASE recordCanonicalRun(t)
    <3>1. record[r] = "absent" /\ ~ started[r] /\ terminal[r] = "none"
      BY <2>4 DEF recordCanonicalRun, Recorded
    <3>2. /\ record'[r] = "queued" /\ terminal' = terminal /\ wpc' = wpc /\ apc'[t] \in {"submit", "done"}
          /\ (apc'[t] = "submit" => req[t].kind = "create")
      BY <1>0, <2>4 DEF recordCanonicalRun, workers
    <3>3. QED
      BY <2>2, <2>3, <3>1, <3>2 DEF Recorded, Agreed, WorkerIdle, Executing
  <2>5a. CASE queueCancel(t)
    <3>1. /\ record[r] = "cancelled" /\ record' = record /\ wpc' = wpc /\ apc'[t] = "announce" /\ terminal' = terminal
      BY <1>0, <2>5a DEF queueCancel, Recorded, workers
    <3>2. apc'[t] \in {"queue", "announce"} /\ aborts' = aborts
      BY <3>1, <2>5a DEF queueCancel, workers
    <3>3. QED
      BY <2>2, <2>3, <3>1, <3>2 DEF Recorded, Agreed, WorkerIdle, Executing
  <2>5. CASE announceCancel(t)
    <3>1. /\ record[r] = "cancelled" /\ record' = record /\ wpc' = wpc /\ apc'[t] = "submit" /\ terminal'[r] = "cancelled"
      BY <1>0, <2>5 DEF announceCancel, Recorded, workers
    <3>2. runStatus(r)' = "cancelled"
      BY <3>1 DEF runStatus
    <3>3. QED
      BY <2>2, <2>3, <3>1, <3>2 DEF Recorded, Agreed, WorkerIdle, Executing
  <2>6. CASE submitLocal(t)
    <3>1. /\ UNCHANGED <<record, terminal, aborts, snap>> /\ apc'[t] = "done" /\ record[r] # "absent"
          /\ \A w \in Worker : wpc'[w] = IF w = <<t, "local">> THEN entry(t) ELSE wpc[w]
      BY <1>0, <2>6 DEF submitLocal, store, local, Recorded
    <3>2. entry(t) \in {"execute", "read"} \/ (entry(t) = "cancel" /\ req[t].kind = "cancel")
      BY DEF entry
    <3>3. req[t].kind = "cancel" => record[r] = "cancelled" /\ terminal[r] = "cancelled"
      BY <2>6 DEF submitLocal, Recorded
    <3>4. Recorded(r)'
      BY <2>2, <2>3, <3>1, <3>2, <3>3 DEF Recorded, WorkerIdle, Executing
    <3>5. (started[r] \/ terminal[r] # "none") => runStatus(r)' = runStatus(r)
      BY <2>3, <3>1, StatusOfEvents
    <3>6. aborts' = 0 => Agreed(r)'
      BY <2>2, <2>3, <2>6, <3>1, <3>5 DEF Agreed, WorkerIdle, Executing, submitLocal
    <3>7. QED
      BY <3>4, <3>6
  <2>7. CASE recordNodeAttempt(t) \/ recordPlanDecision(t) \/ abandonCall(t)
    <3>1. /\ UNCHANGED <<record, terminal, wpc, snap>> /\ apc'[t] \in {"submit", "done"}
          /\ aborts' = 0 => aborts = 0 /\ apc[t] \notin {"queue", "announce"}
          /\ apc'[t] = "submit" => record[r] # "absent" /\ req[t].kind # "cancel"
      BY <1>0, <2>7 DEF recordNodeAttempt, recordPlanDecision, abandonCall, store, workers, local, Recorded
    <3>2. Recorded(r)'
      BY <2>2, <2>3, <3>1 DEF Recorded, WorkerIdle, Executing
    <3>3. (started[r] \/ terminal[r] # "none") => runStatus(r)' = runStatus(r)
      BY <2>3, <3>1, StatusOfEvents
    <3>4. aborts' = 0 => Agreed(r)'
      BY <2>2, <2>3, <3>1, <3>3 DEF Agreed, WorkerIdle, Executing
    <3>5. QED
      BY <3>2, <3>4
  <2>8. QED
    BY <1>2, <2>4, <2>5, <2>5a, <2>6, <2>7 DEF ApiStep, submitHatchet, submitTwice, stampHatchetRun, OneAtATime
<1>3. QED
  BY <1>1, <1>2

\* A step of a worker keeps what is known of the one run.
LEMMA RecordedWorker ==
  ASSUME \A q, s \in Run : q = s, SeqInv, NEW r \in Run, Recorded(r), aborts = 0 => Agreed(r),
         NEW w \in Worker, WorkerStep(w) \/ abortWorker(w)
  PROVE  Recorded(r)' /\ (aborts' = 0 => Agreed(r)')
<1> USE DEF SeqInv
<1>0. /\ runOf(w) = r /\ wpc \in [Worker -> WorkerPc] /\ snap \in [Worker -> RunStatus] /\ aborts \in Nat
      /\ record \in [Run -> RunStatus \cup {"absent"}]
      /\ terminal \in [Run -> TerminalStatus \cup {"none"}] /\ started \in [Run -> BOOLEAN]
  BY DEF IInv, TypeOK, Request, runOf, Worker
<1>1. /\ ~ WorkerIdle(w) /\ UNCHANGED callers
      /\ \A v \in Worker : v # w => wpc'[v] = wpc[v] /\ snap'[v] = snap[v] /\ WorkerIdle(v)'
      /\ \A t \in Ticket : apc[t] \in {"idle", "done"} /\ apc'[t] \in {"idle", "done"}
      /\ \A v \in Worker : v # w => WorkerIdle(v)
  BY WorkerFrame, WorkerAlone DEF callers
<1>2. ASSUME record'[r] = "absent" => ~ started'[r] /\ terminal'[r] = "none",
             wpc'[w] \in {"read", "reset", "begin", "execute"} \cup Executing => record'[r] # "absent",
             wpc'[w] \in Executing \ {"load"} => started'[r],
             wpc'[w] \in {"cancel", "settled", "cancelled"} => record'[r] = "cancelled" /\ terminal'[r] = "cancelled",
             wpc'[w] = "finalize" => snap'[w] = runStatus(r)'
      PROVE  Recorded(r)'
  BY <1>1, <1>2 DEF Recorded, WorkerIdle, Executing
<1>3. aborts = 0 => \/ started[r] \/ terminal[r] # "none" => record[r] = runStatus(r)
                    \/ wpc[w] \in Executing
  BY <1>1 DEF Agreed, WorkerIdle, Executing
<1>4. /\ record[r] = "absent" => ~ started[r] /\ terminal[r] = "none"
      /\ wpc[w] \in {"read", "reset", "begin", "execute"} \cup Executing => record[r] # "absent"
      /\ wpc[w] \in Executing \ {"load"} => started[r]
      /\ wpc[w] \in {"cancel", "settled", "cancelled"} => record[r] = "cancelled" /\ terminal[r] = "cancelled"
      /\ wpc[w] = "finalize" => snap[w] = runStatus(r)
  BY DEF Recorded
<1>5. CASE readContinuation(w) \/ resetPlan(w) \/ beginContinuation(w)
  <2>1. /\ UNCHANGED <<record, terminal, started, aborts>> /\ wpc[w] \in {"read", "reset", "begin"}
        /\ wpc'[w] \in {"reset", "begin", "execute"}
    BY <1>0, <1>5 DEF readContinuation, resetPlan, beginContinuation, goto, store
  <2>2. Recorded(r)'
    BY <1>2, <1>4, <2>1 DEF Executing
  <2>3. started[r] \/ terminal[r] # "none" => runStatus(r)' = runStatus(r)
    BY <2>1, StatusOfEvents
  <2>4. QED
    BY <1>3, <2>1, <2>2, <2>3 DEF Agreed, Executing
<1>6. CASE executeStoredRun(w)
  <2>1. /\ UNCHANGED <<terminal, started>> /\ record'[r] = "running" /\ wpc'[w] = "load"
    BY <1>0, <1>6 DEF executeStoredRun, goto
  <2>2. QED
    BY <1>2, <2>1 DEF Agreed, Executing
<1>7. CASE loadPlan(w)
  <2>1. /\ UNCHANGED <<record, terminal>> /\ started'[r] /\ wpc'[w] = "pick" /\ wpc[w] = "load"
    BY <1>0, <1>7 DEF loadPlan, goto
  <2>2. QED
    BY <1>2, <1>4, <2>1 DEF Agreed, Executing
<1>8. CASE startNode(w) \/ stopLoop(w) \/ (\E s \in Outcome : finishNode(w, s)) \/ flushPlan(w)
  <2>1. /\ UNCHANGED <<record, terminal, started>> /\ wpc'[w] \in {"exec", "pick", "conclude", "snapshot"}
        /\ wpc[w] \in Executing \ {"load"}
    BY <1>0, <1>8 DEF startNode, stopLoop, finishNode, flushPlan, goto, store, Executing
  <2>2. QED
    BY <1>2, <1>4, <2>1 DEF Agreed, Executing
<1>9. CASE conclude(w)
  <2>1. /\ UNCHANGED <<record, started>> /\ wpc'[w] = "flush" /\ wpc[w] = "conclude"
    BY <1>0, <1>9 DEF conclude, goto
  <2>2. QED
    BY <1>2, <1>4, <2>1 DEF Agreed, Executing
<1>10. CASE takeSnapshot(w)
  <2>1. /\ UNCHANGED <<record, started, terminal, plan>> /\ wpc'[w] = "finalize" /\ wpc[w] = "snapshot" /\ snap'[w] = runStatus(r)
    BY <1>0, <1>10 DEF takeSnapshot, goto, store
  <2>2. runStatus(r)' = runStatus(r)
    BY <2>1 DEF runStatus
  <2>3. QED
    BY <1>2, <1>4, <2>1, <2>2 DEF Agreed, Executing
<1>11. CASE finalizeRecord(w)
  <2>1. /\ UNCHANGED <<started, terminal, plan>> /\ wpc'[w] \in {"done", "settle"} /\ wpc[w] = "finalize"
        /\ record'[r] = snap[w] /\ snap[w] \in RunStatus
    BY <1>0, <1>11 DEF finalizeRecord, goto
  <2>2. runStatus(r)' = runStatus(r)
    BY <2>1 DEF runStatus
  <2>3. QED
    BY <1>2, <1>4, <2>1, <2>2 DEF Agreed, Executing, RunStatus, TerminalStatus
<1>12. CASE settleContinuation(w) \/ executeRunCancellation(w) \/ completeCancellation(w) \/ settleCancellation(w) \/ abortWorker(w)
  <2>1. /\ UNCHANGED started /\ wpc'[w] \in {"done", "settled", "cancelled", "dead"} /\ record'[r] = record[r] /\ terminal'[r] = terminal[r]
        /\ wpc'[w] \in {"settled", "cancelled"} => wpc[w] \in {"cancel", "settled"}
        /\ aborts' = 0 => aborts = 0 /\ wpc[w] \in {"settle", "cancel", "settled", "cancelled"}
    BY <1>0, <1>4, <1>12 DEF settleContinuation, executeRunCancellation, completeCancellation, settleCancellation, abortWorker, goto, store
  <2>2. Recorded(r)'
    BY <1>2, <1>4, <2>1 DEF Executing
  <2>3. started[r] \/ terminal[r] # "none" => runStatus(r)' = runStatus(r)
    BY <2>1, StatusOfEvents
  <2>4. QED
    BY <1>3, <2>1, <2>2, <2>3 DEF Agreed, Executing
<1>13. QED
  BY <1>5, <1>6, <1>7, <1>8, <1>9, <1>10, <1>11, <1>12 DEF WorkerStep

\* When no worker is busy nothing runs, and what completed is done.
LEMMA ToldAtRest ==
  ASSUME NEW r \in Run, Told(r), \A w \in Worker : WorkerIdle(w)
  PROVE  /\ \A n \in Node : plan.node[n] # "running"
         /\ terminal[r] = "completed" => \A n \in Node : plan.node[n] \in Done
BY DEF Told, WorkerIdle

\* A step of a call keeps what is told of the nodes of the one run.
LEMMA ToldCall ==
  ASSUME ~ Overlap, ~ Hatchet, \A q, s \in Run : q = s, SeqInv, NEW r \in Run, Recorded(r), Told(r),
         NEW t \in Ticket, Api(t) \/ ApiStep(t) \/ abandonCall(t)
  PROVE  Told(r)'
<1> USE DEF SeqInv
<1>0. /\ plan \in PlanCopy /\ plan.node \in [Node -> NodeStatus] /\ req[t].run = r
      /\ terminal \in [Run -> TerminalStatus \cup {"none"}] /\ apc[t] # "stamp"
  BY DEF IInv, TypeOK, PlanCopy, Request, OneAtATime
<1>1. \A w \in Worker : WorkerIdle(w)
  <2>1. CASE Api(t)
    BY <2>1, CallAtRest
  <2>2. CASE ApiStep(t) \/ abandonCall(t)
    <3>1. apc[t] \notin {"idle", "done"}
      BY <2>2 DEF ApiStep, abandonCall, recordCanonicalRun, recordNodeAttempt, queueCancel, announceCancel, submitHatchet,
                submitLocal, submitTwice, stampHatchetRun, recordPlanDecision
    <3>2. QED
      BY <3>1, CallAlone
  <2>3. QED
    BY <2>1, <2>2
<1>2. /\ \A n \in Node : plan.node[n] # "running"
      /\ terminal[r] = "completed" => \A n \in Node : plan.node[n] \in Done
  BY <1>1, ToldAtRest
<1>3. ASSUME plan'.node = plan.node, terminal'[r] \in {terminal[r], "cancelled"}
      PROVE  Told(r)'
  BY <1>2, <1>3 DEF Told, Done, Stopped
<1>4. CASE \E q \in Run, kind \in CallKind : prepareRunState(t, q, kind)
  <2>1. PICK kind \in CallKind : prepareRunState(t, r, kind)
    BY <1>4
  <2>2. terminal'[r] = "none"
    BY <2>1 DEF prepareRunState, Recorded
  <2>3. \A n \in Node : plan'.node[n] # "running"
    BY <2>1 DEF prepareRunState, createInitialPlanState
  <2>4. QED
    BY <2>2, <2>3 DEF Told
<1>5. CASE recordPlanDecision(t)
  <2>1. apiPlan[t] = plan /\ terminal' = terminal
    BY <1>5 DEF recordPlanDecision, InStep
  <2>2. plan'.node = plan.node
    BY <1>0, <1>5, <2>1 DEF recordPlanDecision, PlanCopy
  <2>3. QED
    BY <1>3, <2>1, <2>2
<1>6. CASE ~ recordPlanDecision(t) /\ ~ \E q \in Run, kind \in CallKind : prepareRunState(t, q, kind)
  <2>1. plan' = plan /\ terminal'[r] \in {terminal[r], "cancelled"}
    BY <1>0, <1>6 DEF Api, ApiStep, abandonCall, resumeRun, retryRunNode, cancelRun, readPlanForDecision, CallKind,
          recordCanonicalRun, recordNodeAttempt, queueCancel, announceCancel, submitHatchet, submitLocal, submitTwice, stampHatchetRun, store
  <2>2. QED
    BY <1>3, <2>1
<1>7. QED
  BY <1>4, <1>5, <1>6

\* A step of a worker keeps it too, unless the worker is lost.
LEMMA ToldWorker ==
  ASSUME \A q, s \in Run : q = s, SeqInv, NEW r \in Run, Founded(r), Told(r),
         NEW w \in Worker, WorkerStep(w)
  PROVE  Told(r)'
<1> USE DEF SeqInv
<1>0. /\ runOf(w) = r /\ wpc \in [Worker -> WorkerPc] /\ wnode \in [Worker -> Node] /\ wnode[w] \in Node
      /\ plan \in PlanCopy /\ plan.node \in [Node -> NodeStatus] /\ Meaningful(plan)
      /\ terminal \in [Run -> TerminalStatus \cup {"none"}]
  BY DEF IInv, TypeOK, PlanCopy, Request, SoundCopies, Sound, runOf, Worker
<1>1. /\ ~ WorkerIdle(w)
      /\ \A v \in Worker : v # w => WorkerIdle(v) /\ WorkerIdle(v)'
  BY WorkerFrame, WorkerAlone
<1>2. /\ \A n \in Node : plan.node[n] = "running" => wpc[w] = "exec" /\ wnode[w] = n
      /\ terminal[r] = "completed" =>
           \/ wpc[w] = "conclude" /\ plan.status \in Stopped
           \/ /\ \A n \in Node : plan.node[n] \notin Stopped
              /\ \/ \A n \in Node : plan.node[n] \in Done
                 \/ wpc[w] \in {"begin", "execute", "load", "pick", "exec"}
  BY <1>1 DEF Told, WorkerIdle
<1>3. ASSUME \A n \in Node : plan'.node[n] = "running" => wpc'[w] = "exec" /\ wnode'[w] = n,
             terminal'[r] = "completed" =>
               \/ wpc'[w] = "conclude" /\ plan'.status \in Stopped
               \/ /\ \A n \in Node : plan'.node[n] \notin Stopped
                  /\ \/ \A n \in Node : plan'.node[n] \in Done
                     \/ wpc'[w] \in {"begin", "execute", "load", "pick", "exec"}
      PROVE  Told(r)'
  BY <1>3 DEF Told
<1>4. wpc[w] \in Loaded => wplan[w] = plan
  BY DEF InStep
<1>5. CASE readContinuation(w) \/ beginContinuation(w) \/ executeStoredRun(w) \/ loadPlan(w)
  <2>1. /\ plan' = plan /\ terminal' = terminal
        /\ wpc[w] \in {"read", "begin", "execute", "load"}
        /\ wpc[w] # "read" => wpc'[w] \in {"execute", "load", "pick"}
    BY <1>0, <1>5 DEF readContinuation, beginContinuation, executeStoredRun, loadPlan, goto, store
  <2>2. QED
    BY <1>2, <1>3, <2>1
<1>6. CASE resetPlan(w)
  <2>1. plan' = resetForRetry(plan, req[w[1]].node) \/ plan' = resetForResume(plan)
    BY <1>4, <1>6 DEF resetPlan, Loaded
  <2>2. terminal' = terminal /\ wpc[w] = "reset" /\ wpc'[w] = "begin"
    BY <1>0, <1>6 DEF resetPlan, goto
  <2>3. \A n \in Node : plan'.node[n] \in {plan.node[n], "ready", "pending"}
    BY <2>1 DEF resetForRetry, resetForResume
  <2>4. QED
    BY <1>2, <1>3, <2>2, <2>3 DEF Done, Stopped
<1>7. CASE startNode(w)
  <2> DEFINE n == firstReady(plan)
  <2>1. wplan[w] = plan
    BY <1>4, <1>7 DEF startNode, Loaded
  <2>2. /\ n \in readyNodes(plan) /\ plan' = markNodeRunning(plan, n) /\ terminal' = terminal
        /\ wpc[w] = "pick" /\ wpc'[w] = "exec" /\ wnode'[w] = n
    BY <1>0, <1>7, <2>1, FirstReady DEF startNode, goto
  <2> HIDE DEF n
  <2>3. /\ n \in Node /\ plan'.node[n] = "running"
        /\ \A m \in Node : m # n => plan'.node[m] = plan.node[m]
    BY <1>0, <2>2 DEF readyNodes, markNodeRunning
  <2>4. QED
    BY <1>2, <1>3, <2>2, <2>3 DEF Stopped
<1>8. CASE stopLoop(w)
  <2>1. plan' = plan /\ terminal' = terminal /\ wpc[w] = "pick" /\ wplan[w] = plan
    BY <1>4, <1>8 DEF stopLoop, Loaded, store
  <2>2. index[w] <= NodeCount /\ index[w] \in Nat /\ NodeCount \in Nat
    BY CountedBound, ConstantsAssumption DEF LoopBoundNeverReached, IInv, TypeOK
  <2>3. readyNodes(plan) = {}
    BY <1>8, <2>1, <2>2 DEF stopLoop, LoopBound
  <2>4. ASSUME terminal[r] = "completed"
        PROVE  \A n \in Node : plan.node[n] \in Done
    <3>1. Acyclic(Node) /\ \A n \in Node : plan.node[n] \notin Stopped \cup {"running"}
      BY <1>2, <2>1, <2>4 DEF Founded
    <3>2. QED
      BY <1>0, <2>3, <3>1, NothingReady
  <2>5. QED
    BY <1>2, <1>3, <2>1, <2>4 DEF Stopped, Done
<1>9. CASE \E s \in Outcome : finishNode(w, s)
  <2>1. PICK s \in Outcome : finishNode(w, s)
    BY <1>9
  <2>2. /\ plan' = markNode(plan, wnode[w], s) /\ terminal' = terminal /\ wpc[w] = "exec"
        /\ wpc'[w] = IF plan'.status = "running" THEN "pick" ELSE "conclude"
    BY <1>0, <1>4, <2>1 DEF finishNode, Loaded, goto
  <2>3. /\ plan'.node[wnode[w]] = s
        /\ \A m \in Node : m # wnode[w] => plan'.node[m] = plan.node[m]
        /\ s \in Stopped => plan'.status = s
        /\ s \notin Stopped => \/ plan'.status = "running"
                               \/ \A m \in Node : plan'.node[m] \in Done
    BY <1>0, <2>2 DEF markNode, Stopped
  <2>4. CASE s \in Stopped
    BY <1>2, <1>3, <2>2, <2>3, <2>4 DEF Stopped
  <2>5. CASE s \notin Stopped
    BY <1>2, <1>3, <2>2, <2>3, <2>5 DEF Stopped, Outcome
  <2>6. QED
    BY <2>4, <2>5
<1>10. CASE conclude(w)
  <2>1. plan' = plan /\ wpc[w] = "conclude" /\ wplan[w] = plan
    BY <1>4, <1>10 DEF conclude, Loaded
  <2>2. terminal'[r] = IF plan.status \in Outcome THEN plan.status ELSE terminal[r]
    BY <1>0, <1>10, <2>1 DEF conclude
  <2>3. terminal'[r] = "completed" => \A n \in Node : plan.node[n] \in Done
    BY <1>0, <1>2, <2>1, <2>2 DEF Meaningful, Outcome, Stopped
  <2>4. QED
    BY <1>2, <1>3, <2>1, <2>3 DEF Done, Stopped
<1>11. CASE flushPlan(w) \/ takeSnapshot(w) \/ finalizeRecord(w) \/ settleContinuation(w)
             \/ executeRunCancellation(w) \/ completeCancellation(w) \/ settleCancellation(w)
  <2>1. /\ plan' = plan /\ terminal'[r] \in {terminal[r], "cancelled"}
        /\ wpc[w] \in {"flush", "snapshot", "finalize", "settle", "cancel", "settled", "cancelled"}
    BY <1>0, <1>4, <1>11 DEF flushPlan, takeSnapshot, finalizeRecord, settleContinuation,
         executeRunCancellation, completeCancellation, settleCancellation, Loaded, store
  <2>2. QED
    BY <1>2, <1>3, <2>1
<1>12. QED
  BY <1>5, <1>6, <1>7, <1>8, <1>9, <1>10, <1>11 DEF WorkerStep

\* When nothing is under way the record of the one run says what its events say.
LEMMA RunInvStep ==
  ASSUME ~ Overlap, ~ Hatchet, \A q, s \in Run : q = s, SeqInv, NEW r \in Run, RunInv(r), [Next]_vars
  PROVE  RunInv(r)'
<1>0. Founded(r)' /\ aborts \in Nat
  BY FoundedStep DEF RunInv, SeqInv, IInv, TypeOK
<1>1. ASSUME NEW t \in Ticket, Api(t) \/ ApiStep(t) \/ abandonCall(t)
      PROVE  RunInv(r)'
  <2>1. Recorded(r)' /\ (aborts' = 0 => Agreed(r)')
    BY <1>1, RecordedCall DEF RunInv
  <2>2. aborts' = 0 => aborts = 0
    <3>1. CASE abandonCall(t)
      BY <1>0, <3>1 DEF abandonCall
    <3>2. CASE Api(t)
      BY <3>2, CallAtRest DEF workers
    <3>3. CASE ApiStep(t)
      BY <3>3 DEF ApiStep, recordCanonicalRun, recordNodeAttempt, queueCancel, announceCancel, submitHatchet, submitLocal, submitTwice,
            stampHatchetRun, recordPlanDecision, workers
    <3>4. QED
      BY <1>1, <3>1, <3>2, <3>3
  <2>3. aborts' = 0 => Told(r)'
    BY <1>1, <2>2, ToldCall DEF RunInv
  <2>4. QED
    BY <1>0, <2>1, <2>3 DEF RunInv
<1>2. ASSUME NEW w \in Worker, WorkerStep(w) \/ abortWorker(w)
      PROVE  RunInv(r)'
  <2>1. Recorded(r)' /\ (aborts' = 0 => Agreed(r)')
    BY <1>2, RecordedWorker DEF RunInv
  <2>2. aborts' = 0 => aborts = 0 /\ WorkerStep(w)
    BY <1>0, <1>2 DEF WorkerStep, abortWorker, readContinuation, resetPlan, beginContinuation, executeStoredRun, loadPlan,
         startNode, stopLoop, finishNode, conclude, flushPlan, takeSnapshot, finalizeRecord, settleContinuation,
         executeRunCancellation, completeCancellation, settleCancellation
  <2>3. aborts' = 0 => Told(r)'
    BY <1>2, <2>2, ToldWorker DEF RunInv
  <2>4. QED
    BY <1>0, <2>1, <2>3 DEF RunInv
<1>3. CASE UNCHANGED vars
  BY <1>3 DEF RunInv, Founded, Recorded, Agreed, Told, runStatus, Taken, vars, store, callers, workers, local
<1>4. QED
  BY <1>1, <1>2, <1>3 DEF Next

\* RecordAgreesAtRest: the record, the events and the nodes agree whenever nothing is
\* under way, for every plan and every sequence of calls on one run.
THEOREM RecordAgreesHolds ==
  ASSUME ~ Overlap, ~ Hatchet, \A q, s \in Run : q = s
  PROVE  Spec => []RecordAgreesAtRest
<1> DEFINE Inv == SeqInv /\ \A r \in Run : RunInv(r)
<1>1. Init => Inv
  <2> SUFFICES ASSUME Init PROVE Inv
    OBVIOUS
  <2>1. Taken(plan) = {}
    BY DEF Init, BlankPlan, createInitialPlanState, Taken, Waiting
  <2>2. ASSUME NEW r \in Run
        PROVE  RunInv(r)
    <3>1. Founded(r)
      BY <2>1 DEF Founded, Acyclic, Init
    <3>2. Recorded(r) /\ Agreed(r)
      BY DEF Init, Recorded, Agreed, Executing
    <3>3. Told(r)
      BY DEF Init, Told, BlankPlan, createInitialPlanState
    <3>4. QED
      BY <3>1, <3>2, <3>3 DEF RunInv
  <2>3. QED
    BY <2>2, SeqInit
<1>2. Inv /\ [Next]_vars => Inv'
  BY SeqStep, RunInvStep
<1>3. Inv => RecordAgreesAtRest
  <2> SUFFICES ASSUME Inv, AtRest, aborts = 0, NEW r \in Run, started[r] \/ terminal[r] # "none"
               PROVE  /\ record[r] = runStatus(r)
                      /\ record[r] = "completed" => \A n \in Node : plan.node[n] \in Done
                      /\ \A n \in Node : plan.node[n] # "running"
    BY DEF RecordAgreesAtRest
  <2>1. Agreed(r) /\ Told(r)
    BY DEF RunInv
  <2>2. record[r] = runStatus(r)
    BY <2>1 DEF Agreed, AtRest, WorkerIdle, Executing
  <2>3. runStatus(r) = "completed" => terminal[r] = "completed"
    BY DEF runStatus
  <2>4. QED
    BY <2>1, <2>2, <2>3, ToldAtRest DEF AtRest
<1>4. QED
  BY <1>1, <1>2, <1>3, PTL DEF Spec

=============================================================================
