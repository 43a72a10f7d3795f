-------------------------- MODULE Capability_proofs --------------------------
(***************************************************************************)
(* Proofs about the components that a capability and a work order rest on, *)
(* for every value of their constants: the steps of CapabilityStep, the    *)
(* fetches of HttpFetch, the chain of WorkOrders, the verification of      *)
(* VerificationRun, the shared files of ArtifactIndex, the model calls of  *)
(* ModelCall, the benchmarks of EvalRun, the commands of OutputPack and    *)
(* the briefs of ResearchFlow.                                             *)
(***************************************************************************)
EXTENDS CapabilityStep, HttpFetch, WorkOrders, VerificationRun, ArtifactIndex,
        ModelCall, EvalRun, OutputPack, ResearchFlow,
        FiniteSetTheorems, SequenceTheorems, WellFoundedInduction, TLAPS

-----------------------------------------------------------------------------
(* Loops, written in the models as functions of the turns done            *)

\* Every set of naturals that is not empty has a least element; a least
\* counterexample is how the facts about loops below are proved.
Less == {x \in Nat \X Nat : x[1] < x[2]}

\* No set of numbers goes down without end.
LEMMA LessWellFounded == IsWellFoundedOn(Less, Nat)
  BY NatLessThanWellFounded, Zenon DEF OpToRel, Less

\* A set of numbers that is not empty has a least one.
LEMMA LeastNat ==
    ASSUME NEW T, T \subseteq Nat, T # {}
    PROVE  \E m \in T : \A k \in T : m <= k
<1>1. PICK m \in T : \A k \in T : ~ (<<k, m>> \in Less)
  BY LessWellFounded, WFMin
<1>2. \A k, n \in Nat : k < n => <<k, n>> \in Less
  BY DEF Less
<1>3. ASSUME NEW k \in T PROVE m <= k
  <2>1. k \in Nat /\ m \in Nat
    OBVIOUS
  <2>2. ~ (k < m)
    BY <1>1, <1>2, <2>1
  <2> QED BY <2>1, <2>2
<1> QED BY <1>3

\* Induction up to N, for a set of numbers.
LEMMA InductionUpTo ==
    ASSUME NEW N \in Nat, NEW P, 0 \in P, \A n \in 1 .. N : n - 1 \in P => n \in P
    PROVE  0 .. N \subseteq P
<1> DEFINE T == {n \in 0 .. N : n \notin P}
<1>1. SUFFICES ASSUME T # {} PROVE FALSE
  OBVIOUS
<1>2. T \subseteq Nat
  OBVIOUS
<1>3. PICK m \in T : \A k \in T : m <= k
  BY <1>1, <1>2, LeastNat
<1>4. m \in 1 .. N /\ m - 1 \in 0 .. N
  OBVIOUS
<1>5. m - 1 \notin T
  BY <1>3, <1>4
<1> QED BY <1>4, <1>5

\* A loop over 1 .. N, each turn of which is a function of the state before.
Loop(f, N, base, turn) ==
    f = [n \in 0 .. N |-> IF n = 0 THEN base ELSE turn[n][f[n - 1]]]

\* There is a loop with any first state and any turns.
LEMMA LoopExists ==
    ASSUME NEW N \in Nat, NEW base, NEW turn
    PROVE  \E f : Loop(f, N, base, turn)
<1> DEFINE P == {k \in 0 .. N : \E f : Loop(f, k, base, turn)}
<1>1. 0 \in P
  <2> DEFINE f == [n \in 0 .. 0 |-> base]
  <2>1. f = [n \in 0 .. 0 |-> IF n = 0 THEN base ELSE turn[n][f[n - 1]]]
    OBVIOUS
  <2>2. Loop(f, 0, base, turn)
    BY <2>1 DEF Loop
  <2> HIDE DEF f
  <2> QED BY <2>2
<1>2. ASSUME NEW k \in 1 .. N, k - 1 \in P PROVE k \in P
  <2>1. PICK g : Loop(g, k - 1, base, turn)
    BY <1>2
  <2> DEFINE f == [n \in 0 .. k |-> IF n = k THEN turn[k][g[k - 1]] ELSE g[n]]
  <2>2. k - 1 \in Nat /\ k # 0
    OBVIOUS
  <2>3. ASSUME NEW n \in 0 .. k
        PROVE  f[n] = IF n = 0 THEN base ELSE turn[n][f[n - 1]]
    <3>1. CASE n = 0
      BY <2>1, <2>2, <3>1 DEF Loop
    <3>2. CASE n = k
      <4>1. f[k - 1] = g[k - 1]
        BY <2>2
      <4> QED BY <2>2, <3>2, <4>1
    <3>3. CASE n # 0 /\ n # k
      <4>1. n \in 0 .. (k - 1) /\ n - 1 \in 0 .. (k - 1) /\ n - 1 # k /\ n - 1 \in 0 .. k
        BY <3>3
      <4>2. g[n] = turn[n][g[n - 1]]
        BY <2>1, <3>3, <4>1 DEF Loop
      <4>3. f[n] = g[n] /\ f[n - 1] = g[n - 1]
        BY <3>3, <4>1
      <4> QED BY <3>3, <4>2, <4>3
    <3> QED BY <3>1, <3>2, <3>3
  <2>4. f = [n \in 0 .. k |-> IF n = 0 THEN base ELSE turn[n][f[n - 1]]]
    <3>1. f = [n \in 0 .. k |-> f[n]]
      OBVIOUS
    <3> HIDE DEF f
    <3> QED BY <2>3, <3>1
  <2>5. Loop(f, k, base, turn)
    BY <2>4 DEF Loop
  <2> HIDE DEF f
  <2> QED BY <2>5
<1>3. 0 .. N \subseteq P
  <2> HIDE DEF P
  <2> QED BY <1>1, <1>2, InductionUpTo
<1>4. N \in 0 .. N
  OBVIOUS
<1> QED BY <1>3, <1>4

\* Every state of a loop has its type.
LEMMA LoopTyped ==
    ASSUME NEW N \in Nat, NEW base, NEW turn, NEW f, Loop(f, N, base, turn), NEW S, base \in S,
           \A n \in 1 .. N, v \in S : turn[n][v] \in S
    PROVE  f \in [0 .. N -> S] /\ f[0] = base /\ \A n \in 1 .. N : f[n] = turn[n][f[n - 1]]
<1> DEFINE P == {n \in 0 .. N : f[n] \in S}
<1>1. f = [n \in 0 .. N |-> f[n]]
  BY DEF Loop
<1>2. 0 \in 0 .. N /\ f[0] = base
  BY DEF Loop
<1>3. ASSUME NEW n \in 1 .. N PROVE f[n] = turn[n][f[n - 1]]
  BY DEF Loop
<1>4. ASSUME NEW n \in 1 .. N, n - 1 \in P PROVE n \in P
  BY <1>3, <1>4
<1>5. 0 \in P
  BY <1>2
<1>6. 0 .. N \subseteq P
  <2> HIDE DEF P
  <2> QED BY <1>4, <1>5, InductionUpTo
<1> QED BY <1>1, <1>2, <1>3, <1>6

\* Sequences with an element more, and with one less.
LEMMA AppendOk ==
    ASSUME NEW Name, NEW s \in Seq(Name), NEW name \in Name
    PROVE /\ Append(s, name) \in Seq(Name) /\ Len(Append(s, name)) = Len(s) + 1 /\ Len(s) \in Nat
        /\ \A i \in 1 .. Len(s) : Append(s, name)[i] = s[i]
        /\ Append(s, name)[Len(s) + 1] = name
  BY AppendProperties

\* A sequence without its last element.
LEMMA FrontOk ==
    ASSUME NEW Name, NEW s \in Seq(Name), s # <<>>
    PROVE /\ SubSeq(s, 1, Len(s) - 1) \in Seq(Name) /\ Len(SubSeq(s, 1, Len(s) - 1)) = Len(s) - 1
        /\ \A i \in 1 .. (Len(s) - 1) : SubSeq(s, 1, Len(s) - 1)[i] = s[i]
<1>1. Len(s) \in Nat /\ Len(s) # 0
  BY EmptySeq
<1>2. 1 \in 1 .. Len(s) + 1 /\ Len(s) - 1 \in (1 - 1) .. Len(s)
  BY <1>1
<1>3. SubSeq(s, 1, Len(s) - 1) \in Seq(Name)
  BY <1>1
<1>4. Len(SubSeq(s, 1, Len(s) - 1)) = Len(s) - 1
  BY <1>1
<1>5. \A i \in 1 .. (Len(s) - 1) : SubSeq(s, 1, Len(s) - 1)[i] = s[i]
  BY <1>1
<1> QED BY <1>3, <1>4, <1>5

-----------------------------------------------------------------------------
(* PolicyGate                                                              *)

\* The gate allows only what no rule stops.
LEMMA AllowedIsClear ==
  ASSUME NEW p \in PolicyInput, evaluatePolicy(p) = "allow"
  PROVE  /\ p.used < AttemptBound /\ ~p.expired /\ ~p.deniedScope /\ ~p.blankKey /\ ~p.approval
         /\ p.risk <= p.maxDelegated /\ p.risk <= p.maxTask /\ p.risk \notin p.approvalFor
         /\ p.risk <= p.maxWithout
<1>1. \A k \in DOMAIN Rules(p) : Rules(p)[k].out # "allow"
  BY DEF Rules
<1>2. \A k \in DOMAIN Rules(p) : ~Rules(p)[k].stops
  <2> DEFINE stopping == {k \in DOMAIN Rules(p) : Rules(p)[k].stops}
             first == CHOOSE k \in stopping : \A j \in stopping : k <= j
  <2>1. SUFFICES ASSUME stopping # {} PROVE FALSE
    OBVIOUS
  <2>2. stopping \subseteq 1..7
    BY DEF Rules
  <2>3. \E k \in stopping : \A j \in stopping : k <= j
    BY <2>1, <2>2, SMTT(30)
  <2>4. first \in stopping
    BY <2>3
  <2>5. evaluatePolicyWithReport(p) = [decision |-> Rules(p)[first].out, matched |-> first - 1]
    BY <2>1 DEF evaluatePolicyWithReport
  <2> HIDE DEF first
  <2>6. evaluatePolicy(p) = Rules(p)[first].out
    BY <2>5 DEF evaluatePolicy
  <2> QED BY <1>1, <2>4, <2>6
<1>3. /\ ~(p.used >= AttemptBound) /\ ~p.expired /\ ~p.deniedScope /\ ~p.blankKey /\ ~riskExceeds(p)
      /\ ~(p.approval \/ p.risk \in p.approvalFor \/ p.risk > p.maxWithout)
  <2>1. 1..7 = DOMAIN Rules(p)
    BY DEF Rules
  <2>2. ~Rules(p)[1].stops /\ ~Rules(p)[2].stops /\ ~Rules(p)[4].stops /\ ~Rules(p)[5].stops
        /\ ~Rules(p)[6].stops /\ ~Rules(p)[7].stops
    BY <1>2, <2>1
  <2> QED BY <2>2 DEF Rules
<1>4. p.used \in 0..AttemptBound /\ p.risk \in Risk /\ p.maxDelegated \in Risk /\ p.maxTask \in Risk /\ p.maxWithout \in Risk
  BY DEF PolicyInput
<1>5. p.used \in Nat /\ p.risk \in Nat /\ p.maxDelegated \in Nat /\ p.maxTask \in Nat /\ p.maxWithout \in Nat
  <2>1. \A r \in Risk : r \in Nat
    BY RiskAssumption
  <2>2. \A n \in 0..AttemptBound : n \in Nat
    BY AttemptAssumption
  <2> QED BY <1>4, <2>1, <2>2, Zenon
<1> QED BY <1>3, <1>5, AttemptAssumption DEF riskExceeds

-----------------------------------------------------------------------------
(* CapabilityStep                                                          *)

EventType == StepEvent \cup Artifact

StepCode == {"none", "UNKNOWN_CAPABILITY", "CAPABILITY_DIGEST_MISMATCH", "SCHEMA_VALIDATION_FAILED", "POLICY_DENIED",
             "YIELDED", "APPROVAL_REQUIRED", "RESULT_VALIDATION_FAILED", "MCP_EXECUTION_FAILED"}

\* The places of a call after each of its checks.
Resolved == {"start", "input", "policy", "decided", "execute", "threw"}
Checked  == {"policy", "decided", "execute", "threw"}
Running  == {"execute", "threw"}
Closing  == {"finish", "asked", "returned"}

StepType ==
    /\ stepPc \in {"idle", "resolve", "rejected"} \cup Resolved \cup Closing
    /\ stepPc # "idle" => stepIn \in [policy : PolicyInput, mode : Mode, inTest : BOOLEAN, sink : BOOLEAN]
    /\ stepFacts \in [known : BOOLEAN, digest : BOOLEAN, schema : BOOLEAN,
                      report : {"none", "deny", "yield", "requires_approval", "allow"}]
    /\ stepEvents \in Seq(EventType)
    /\ stepRefs \subseteq Artifact /\ stepWritten \subseteq stepRefs
    /\ stepFailed \in [store : SUBSET Artifact, sink : SUBSET Artifact]
    /\ stepResult \in [status : {"none", "failed", "yielded", "requires_approval", "success"},
                       code : StepCode, refs : SUBSET stepRefs]

\* What is known where, and that the code of the capability is reached only when
\* all of it is as it should be.
Cleared ==
    /\ stepFacts.known /\ stepFacts.digest /\ stepFacts.schema
    /\ stepIn.mode # "dry_run" /\ (stepIn.mode = "mock" => stepIn.inTest)
    /\ evaluatePolicy(stepIn.policy) = "allow"

ClearedOnTheWay ==
    /\ stepPc \in Resolved => stepFacts.known /\ stepFacts.digest
    /\ stepPc \in Checked => stepFacts.schema
    /\ stepPc = "decided" => stepFacts.report = evaluatePolicy(stepIn.policy)
    /\ stepPc \in Running \/ stepRefs # {} => stepPc \in Running \cup Closing \cup {"rejected"} /\ Cleared

\* What the result and the events keep of the artifacts.
StepArtifacts ==
    /\ stepPc \in Closing => stepResult.refs = stepRefs
    /\ stepPc \notin Closing \cup {"rejected"} => stepResult.status = "none"
    /\ stepRefs \subseteq stepWritten \cup stepFailed.store
    /\ \A k \in DOMAIN stepEvents : stepEvents[k] \in Artifact => stepEvents[k] \in stepWritten
    /\ stepPc # "idle" =>
          (stepIn.sink => \A a \in stepWritten \ stepFailed.sink : \E k \in DOMAIN stepEvents : stepEvents[k] = a)

\* The first two events of a step that got as far as its execution.
Opened == Len(stepEvents) >= 2 /\ stepEvents[1] = "capability.started" /\ stepEvents[2] = "policy.evaluated"

\* The story so far.
Story ==
    /\ stepPc \in {"idle", "resolve", "start"} => stepEvents = <<>>
    /\ stepPc # "idle" => (~stepIn.sink => stepEvents = <<>>)
    /\ stepPc \in {"input", "policy"} => (stepIn.sink => stepEvents = <<"capability.started">>)
    /\ stepPc \in {"decided"} \cup Running => (stepIn.sink => Opened)
    /\ \A k \in DOMAIN stepEvents :
          /\ stepEvents[k] \in Terminal => k = Len(stepEvents) /\ stepPc = "returned"
          /\ stepEvents[k] = "approval.requested" => /\ stepPc \in {"asked", "returned", "rejected"}
                                                     /\ stepResult.status = "requires_approval"
          /\ stepEvents[k] \in Artifact => Opened /\ stepPc \in Running \cup Closing \cup {"rejected"}
    /\ stepPc = "asked" => stepResult.status = "requires_approval"
    /\ stepPc = "asked" \/ (stepPc = "returned" /\ stepResult.status = "requires_approval") =>
          (stepIn.sink => \E k \in DOMAIN stepEvents : stepEvents[k] = "approval.requested")
    /\ stepPc = "returned" =>
          (stepIn.sink => Len(stepEvents) > 0 /\ stepEvents[Len(stepEvents)] = terminalEvent(stepResult.status))

StepInv == StepType /\ ClearedOnTheWay /\ StepArtifacts /\ Story

\* An event that the sink accepted is the last one, and the others stay.
LEMMA Emitted ==
  ASSUME NEW s \in Seq(EventType), NEW e \in EventType
  PROVE  /\ Append(s, e) \in Seq(EventType) /\ Len(Append(s, e)) = Len(s) + 1 /\ Len(s) \in Nat
         /\ DOMAIN Append(s, e) = DOMAIN s \cup {Len(s) + 1} /\ Len(s) + 1 \notin DOMAIN s
         /\ Append(s, e)[Len(s) + 1] = e /\ \A k \in DOMAIN s : Append(s, e)[k] = s[k] /\ k <= Len(s) /\ k \in Nat
  BY AppendProperties

\* The list t is s, possibly with e at its end.
Longer(s, e, t) ==
    /\ t \in Seq(EventType) /\ \A k \in DOMAIN s : k \in DOMAIN t /\ t[k] = s[k]
    /\ \A k \in DOMAIN t : (k \in DOMAIN s /\ t[k] = s[k]) \/ (t # s /\ t[k] = e)
    /\ t = Append(s, e) => \E k \in DOMAIN t : t[k] = e

\* The events after one more or none.
LEMMA OneMore ==
  ASSUME NEW s \in Seq(EventType), NEW e \in EventType, NEW t, t = s \/ t = Append(s, e)
  PROVE  Longer(s, e, t)
<1>1. CASE t = Append(s, e)
  <2>1. /\ t \in Seq(EventType) /\ DOMAIN t = DOMAIN s \cup {Len(s) + 1} /\ Len(s) + 1 \notin DOMAIN s
        /\ t[Len(s) + 1] = e /\ \A k \in DOMAIN s : t[k] = s[k]
    BY <1>1, Emitted
  <2>2. t # s
    BY <2>1
  <2> QED BY <2>1, <2>2, Zenon DEF Longer
<1>2. CASE t = s
  <2>1. t # Append(s, e)
    <3>1. Len(Append(s, e)) = Len(s) + 1 /\ Len(s) \in Nat
      BY Emitted
    <3> QED BY <1>2, <3>1
  <2> QED BY <1>2, <2>1, Zenon DEF Longer
<1> QED BY <1>1, <1>2

\* One event and two events, as sequences.
LEMMA OneOrTwo ==
  ASSUME NEW S, NEW a \in S, NEW b \in S
  PROVE  <<a>> \in Seq(S) /\ <<a, b>> \in Seq(S) /\ Append(<<a>>, b) = <<a, b>>
<1>1. <<a>> \in Seq(S) /\ Len(<<a>>) = 1 /\ <<a>>[1] = a
  OBVIOUS
<1>2. <<a, b>> \in Seq(S) /\ Len(<<a, b>>) = 2 /\ <<a, b>>[1] = a /\ <<a, b>>[2] = b
  OBVIOUS
<1>3. Append(<<a>>, b) \in Seq(S) /\ Len(Append(<<a>>, b)) = 2 /\ Append(<<a>>, b)[1] = a /\ Append(<<a>>, b)[2] = b
  BY <1>1, AppendProperties
<1>4. PICK s \in Seq(S), t \in Seq(S) : s = Append(<<a>>, b) /\ t = <<a, b>>
  BY <1>2, <1>3
<1>5. Len(s) = Len(t) /\ \A i \in 1..Len(s) : s[i] = t[i]
  BY <1>2, <1>3, <1>4
<1> QED BY <1>1, <1>2, <1>4, <1>5, SeqEqual

\* The invariant says what the property says.
LEMMA StepInvSuffices == StepInv => StepAccounted
<1> SUFFICES ASSUME StepInv PROVE StepAccounted
  OBVIOUS
<1>1. RunsOnlyCleared
  <2> SUFFICES ASSUME stepPc \in {"execute", "threw"} \/ stepWritten # {} PROVE RunsOnlyCleared
    BY DEF RunsOnlyCleared
  <2>1. Cleared /\ stepPc # "idle"
    BY DEF StepInv, StepType, ClearedOnTheWay, Running, Closing
  <2>2. stepIn.policy \in PolicyInput
    BY <2>1 DEF StepInv, StepType
  <2>3. PICK p \in PolicyInput : p = stepIn.policy /\ evaluatePolicy(p) = "allow"
    BY <2>1, <2>2 DEF Cleared
  <2> QED BY <2>1, <2>3, AllowedIsClear DEF RunsOnlyCleared, Cleared
<1>2. ArtifactsAccountedFor
  <2>1. stepPc = "returned" => stepPc \in Closing /\ stepPc # "idle"
    BY DEF Closing
  <2> QED BY <2>1 DEF StepInv, StepType, StepArtifacts, ArtifactsAccountedFor, EventAt
<1>3. EventsTellTheResult
  <2>1. \A k \in EventAt(Terminal) : k = Len(stepEvents) /\ stepPc \in Ended
    BY DEF StepInv, Story, EventAt, Ended
  <2>2. ASSUME stepPc = "returned" /\ stepIn.sink
        PROVE  /\ EventAt(Terminal) # {}
               /\ Last(stepEvents) = IF stepResult.status = "failed" THEN "capability.failed" ELSE "capability.completed"
               /\ stepResult.status = "requires_approval" <=> EventAt({"approval.requested"}) # {}
    <3>1. stepEvents \in Seq(EventType) /\ Len(stepEvents) > 0 /\ stepEvents[Len(stepEvents)] = terminalEvent(stepResult.status)
      BY <2>2 DEF StepInv, StepType, Story
    <3>2. Len(stepEvents) \in DOMAIN stepEvents /\ terminalEvent(stepResult.status) \in Terminal
      BY <3>1 DEF terminalEvent, Terminal
    <3>3. stepResult.status = "requires_approval" <=> EventAt({"approval.requested"}) # {}
      BY <2>2 DEF StepInv, Story, EventAt
    <3> QED BY <3>1, <3>2, <3>3 DEF EventAt, Last, terminalEvent
  <2>3. ASSUME EventAt(Artifact) # {}
        PROVE  SubSeq(stepEvents, 1, 2) = <<"capability.started", "policy.evaluated">>
    <3>1. Opened /\ stepEvents \in Seq(EventType)
      BY <2>3 DEF StepInv, StepType, Story, EventAt
    <3>2. SubSeq(stepEvents, 1, 2) = [i \in 1..2 |-> stepEvents[i]]
      BY <3>1, SubSeqProperties DEF Opened
    <3>3. [i \in 1..2 |-> stepEvents[i]] = <<stepEvents[1], stepEvents[2]>>
      OBVIOUS
    <3> QED BY <3>1, <3>2, <3>3 DEF Opened
  <2> QED BY <2>1, <2>2, <2>3 DEF EventsTellTheResult
<1> QED BY <1>1, <1>2, <1>3 DEF StepAccounted

LEMMA PolicyOutcome == \A p : evaluatePolicy(p) \in {"deny", "yield", "requires_approval", "allow"}
<1> SUFFICES ASSUME NEW p PROVE evaluatePolicy(p) \in {"deny", "yield", "requires_approval", "allow"}
  OBVIOUS
<1> DEFINE stopping == {k \in DOMAIN Rules(p) : Rules(p)[k].stops}
           first == CHOOSE k \in stopping : \A j \in stopping : k <= j
<1>1. CASE stopping = {}
  BY <1>1 DEF evaluatePolicy, evaluatePolicyWithReport
<1>2. CASE stopping # {}
  <2>1. stopping \subseteq 1..7
    BY DEF Rules
  <2>2. \E k \in stopping : \A j \in stopping : k <= j
    BY <1>2, <2>1, SMTT(30)
  <2>3. first \in stopping
    BY <2>2
  <2>4. evaluatePolicyWithReport(p) = [decision |-> Rules(p)[first].out, matched |-> first - 1]
    BY <1>2 DEF evaluatePolicyWithReport
  <2> HIDE DEF first
  <2>5. evaluatePolicy(p) = Rules(p)[first].out
    BY <2>4 DEF evaluatePolicy
  <2>6. \A k \in DOMAIN Rules(p) : Rules(p)[k].out \in {"deny", "yield", "requires_approval", "allow"}
    BY DEF Rules
  <2> QED BY <2>3, <2>5, <2>6
<1> QED BY <1>1, <1>2

\* The types of events are no artifacts.
LEMMA TypesAreNoArtifacts == \A e \in StepEvent : e \in EventType /\ e \notin Artifact
  BY StepAssumption DEF EventType

\* Events other than those of artifacts change nothing in what is told of these.
LEMMA OtherEvent ==
  ASSUME StepInv, NEW e \in StepEvent, stepEvents' = stepEvents \/ stepEvents' = Append(stepEvents, e),
         UNCHANGED <<stepIn, stepWritten, stepFailed, stepRefs>>, stepPc # "idle", stepPc' # "idle",
         stepPc' \in Closing => stepResult'.refs = stepRefs,
         stepPc' \notin Closing \cup {"rejected"} => stepResult'.status = "none"
  PROVE  StepArtifacts'
<1>1. stepEvents \in Seq(EventType) /\ e \in EventType /\ e \notin Artifact
  BY TypesAreNoArtifacts DEF StepInv, StepType
<1>2. /\ \A k \in DOMAIN stepEvents' : stepEvents'[k] \in Artifact => k \in DOMAIN stepEvents /\ stepEvents'[k] = stepEvents[k]
      /\ \A k \in DOMAIN stepEvents : k \in DOMAIN stepEvents' /\ stepEvents'[k] = stepEvents[k]
  <2>1. CASE stepEvents' = stepEvents
    BY <2>1
  <2>2. CASE stepEvents' = Append(stepEvents, e)
    BY <1>1, <2>2, Emitted
  <2> QED BY <2>1, <2>2
<1> QED BY <1>2 DEF StepInv, StepArtifacts

\* emitRunEvent, whatever it is called with.
LEMMA EmitCases ==
  ASSUME StepType, NEW type \in EventType, NEW then, NEW thrown, emitRunEvent(type, then, thrown), stepPc # "idle"
  PROVE  \/ stepPc' = then /\ stepIn.sink = TRUE /\ stepEvents' = Append(stepEvents, type)
         \/ stepPc' = then /\ stepIn.sink = FALSE /\ stepEvents' = stepEvents
         \/ stepPc' = thrown /\ stepIn.sink = TRUE /\ stepEvents' = stepEvents
  BY DEF emitRunEvent, StepType

LEMMA StepCallKeeps == StepInv /\ StepCall => StepInv'
<1> SUFFICES ASSUME StepInv, StepCall PROVE StepInv'
  OBVIOUS
<1>1. PICK p \in PolicyInput, mode \in Mode, inTest \in BOOLEAN, sink \in BOOLEAN :
        stepIn' = [policy |-> scopedTaskFromStep(p), mode |-> mode, inTest |-> inTest, sink |-> sink]
  BY DEF StepCall
<1>2. /\ stepPc = "idle" /\ stepPc' = "resolve"
      /\ UNCHANGED <<stepFacts, stepEvents, stepWritten, stepFailed, stepRefs, stepResult>>
  BY DEF StepCall
<1>3. scopedTaskFromStep(p) \in PolicyInput
  <2>1. p.risk \in Risk
    BY DEF PolicyInput
  <2> QED BY <2>1 DEF scopedTaskFromStep, PolicyInput
<1>4. stepIn' \in [policy : PolicyInput, mode : Mode, inTest : BOOLEAN, sink : BOOLEAN]
  BY <1>1, <1>3
<1>5. stepRefs = {} /\ stepWritten = {} /\ stepEvents = <<>> /\ stepResult.status = "none"
  BY <1>2 DEF StepInv, StepType, ClearedOnTheWay, Story, StepArtifacts, Running, Closing
<1>6. StepType'
  BY <1>2, <1>4 DEF StepInv, StepType
<1>7. ClearedOnTheWay' /\ StepArtifacts'
  BY <1>2, <1>5 DEF ClearedOnTheWay, StepArtifacts, Resolved, Checked, Running, Closing
<1>8. Story'
  BY <1>2, <1>5 DEF Story, Running, Closing
<1> QED BY <1>6, <1>7, <1>8 DEF StepInv

\* A result before the execution: nothing was written, and the events are as they were.
LEMMA FinishEarly ==
  ASSUME StepInv, stepPc \in {"resolve", "input", "decided"}, NEW status \in {"failed", "yielded", "requires_approval"},
         NEW code \in StepCode, finish(status, code, {}),
         UNCHANGED <<stepIn, stepEvents, stepWritten, stepFailed, stepRefs>>,
         stepFacts' \in [known : BOOLEAN, digest : BOOLEAN, schema : BOOLEAN,
                         report : {"none", "deny", "yield", "requires_approval", "allow"}]
  PROVE  StepInv'
<1>1. /\ stepPc' = "finish" /\ stepResult' = [status |-> status, code |-> code, refs |-> {}]
      /\ stepResult'.status = status /\ stepResult'.refs = {}
  BY DEF finish
<1>2. stepRefs = {} /\ stepWritten = {}
  BY DEF StepInv, StepType, ClearedOnTheWay, Running, Closing
<1>3. StepType'
  BY <1>1, <1>2 DEF StepInv, StepType, Closing
<1>4. ClearedOnTheWay' /\ StepArtifacts'
  <2>1. ClearedOnTheWay'
    BY <1>1, <1>2 DEF ClearedOnTheWay, Resolved, Checked, Running, Closing
  <2>2. "capability.failed" \in StepEvent /\ stepPc' \in Closing
    BY <1>1 DEF StepEvent, Closing
  <2>3. StepArtifacts'
    BY <1>1, <1>2, <2>2, OtherEvent
  <2> QED BY <2>1, <2>3
<1>5. Story'
  BY <1>1 DEF StepInv, Story, Opened, Running, Closing
<1> QED BY <1>3, <1>4, <1>5 DEF StepInv

LEMMA StepResolveKeeps == StepInv /\ StepResolve => StepInv'
<1> SUFFICES ASSUME StepInv, StepResolve PROVE StepInv'
  OBVIOUS
<1>1. stepPc = "resolve" /\ UNCHANGED <<stepIn, stepEvents, stepWritten, stepFailed, stepRefs>>
  BY DEF StepResolve
<1>2. PICK known, digest \in BOOLEAN :
        /\ stepFacts' = [stepFacts EXCEPT !.known = known, !.digest = known /\ digest]
        /\ CASE ~known -> finish("failed", "UNKNOWN_CAPABILITY", {})
             [] known /\ ~digest -> finish("failed", "CAPABILITY_DIGEST_MISMATCH", {})
             [] OTHER -> stepPc' = "start" /\ UNCHANGED stepResult
  BY DEF StepResolve
<1>3. PICK both \in BOOLEAN : both = (known /\ digest)
  OBVIOUS
<1>4. stepFacts' = [stepFacts EXCEPT !.known = known, !.digest = both]
  BY <1>2, <1>3
<1>5. stepFacts' \in [known : BOOLEAN, digest : BOOLEAN, schema : BOOLEAN,
                      report : {"none", "deny", "yield", "requires_approval", "allow"}]
      /\ stepFacts'.known = known /\ stepFacts'.digest = both
  BY <1>4 DEF StepInv, StepType
<1>6. CASE ~known
  <2>1. finish("failed", "UNKNOWN_CAPABILITY", {})
    BY <1>2, <1>6
  <2>2. "UNKNOWN_CAPABILITY" \in StepCode
    BY DEF StepCode
  <2> QED BY <1>1, <1>5, <2>1, <2>2, FinishEarly
<1>7. CASE known /\ ~digest
  <2>1. finish("failed", "CAPABILITY_DIGEST_MISMATCH", {})
    BY <1>2, <1>7
  <2>2. "CAPABILITY_DIGEST_MISMATCH" \in StepCode
    BY DEF StepCode
  <2> QED BY <1>1, <1>5, <2>1, <2>2, FinishEarly
<1>8. CASE known /\ digest
  <2>1. stepPc' = "start" /\ UNCHANGED stepResult
    BY <1>2, <1>8
  <2>2. stepFacts'.known /\ stepFacts'.digest
    BY <1>3, <1>5, <1>8
  <2>3. stepRefs = {} /\ stepWritten = {} /\ stepEvents = <<>> /\ stepResult.status = "none"
    BY <1>1 DEF StepInv, StepType, ClearedOnTheWay, Story, StepArtifacts, Running, Closing
  <2>4. StepType'
    BY <1>1, <1>5, <2>1 DEF StepInv, StepType, Resolved
  <2>5. ClearedOnTheWay' /\ StepArtifacts'
    BY <1>1, <2>1, <2>2, <2>3 DEF ClearedOnTheWay, StepArtifacts, Resolved, Checked, Running, Closing
  <2>6. Story'
    BY <1>1, <2>1, <2>3 DEF Story, Running, Closing
  <2> QED BY <2>4, <2>5, <2>6 DEF StepInv
<1> QED BY <1>6, <1>7, <1>8

\* A sink that throws outside the capability ends the call where it is.
LEMMA Rejects ==
  ASSUME StepInv, stepPc \in {"start", "policy", "finish", "asked"}, stepPc' = "rejected",
         UNCHANGED <<stepIn, stepEvents, stepWritten, stepFailed, stepRefs, stepResult>>,
         stepFacts' \in [known : BOOLEAN, digest : BOOLEAN, schema : BOOLEAN,
                         report : {"none", "deny", "yield", "requires_approval", "allow"}],
         stepFacts' = stepFacts \/ stepPc = "policy"
  PROVE  StepInv'
<1>1. StepType'
  BY DEF StepInv, StepType
<1>2. ClearedOnTheWay'
  BY DEF StepInv, ClearedOnTheWay, Cleared, Resolved, Checked, Running, Closing
<1>3. StepArtifacts'
  BY DEF StepInv, StepArtifacts, Closing, EventAt
<1>4. Story'
  BY DEF StepInv, Story, Opened, Running, Closing, Terminal
<1> QED BY <1>1, <1>2, <1>3, <1>4 DEF StepInv

LEMMA StepStartKeeps == StepInv /\ StepStart => StepInv'
<1> SUFFICES ASSUME StepInv, StepStart PROVE StepInv'
  OBVIOUS
<1>1. /\ stepPc = "start" /\ UNCHANGED <<stepIn, stepFacts, stepWritten, stepFailed, stepRefs, stepResult>>
      /\ emitRunEvent("capability.started", "input", "rejected")
  BY DEF StepStart
<1>2. /\ stepRefs = {} /\ stepWritten = {} /\ stepEvents = <<>> /\ stepResult.status = "none"
      /\ stepFacts.known /\ stepFacts.digest
  BY <1>1 DEF StepInv, StepType, ClearedOnTheWay, Story, StepArtifacts, Resolved, Running, Closing
<1>3. CASE stepPc' = "rejected" /\ stepEvents' = stepEvents
  BY <1>1, <1>3, Rejects DEF StepInv, StepType
<1>4. CASE \/ stepPc' = "input" /\ stepEvents' = <<"capability.started">> /\ stepIn.sink = TRUE
           \/ stepPc' = "input" /\ stepEvents' = <<>> /\ stepIn.sink = FALSE
  <2>1. stepEvents' \in Seq(EventType)
    <3>1. "capability.started" \in EventType
      BY DEF EventType, StepEvent
    <3>2. <<"capability.started">> \in Seq(EventType) /\ <<>> \in Seq(EventType)
      BY <3>1, OneOrTwo
    <3> QED BY <1>4, <3>2
  <2>2. StepType'
    BY <1>1, <1>4, <2>1 DEF StepInv, StepType, Resolved
  <2>4. \A k \in DOMAIN stepEvents' : stepEvents'[k] = "capability.started" /\ stepEvents'[k] \notin Artifact
    <3>1. "capability.started" \notin Artifact
      BY StepAssumption DEF StepEvent
    <3> QED BY <1>4, <3>1
  <2>3. ClearedOnTheWay' /\ StepArtifacts'
    BY <1>1, <1>2, <1>4, <2>4 DEF ClearedOnTheWay, StepArtifacts, Resolved, Checked, Running, Closing
  <2>5. Story'
    BY <1>1, <1>2, <1>4, <2>4 DEF Story, Running, Closing, Terminal
  <2> QED BY <2>2, <2>3, <2>5 DEF StepInv
<1>5. "capability.started" \in EventType
  BY DEF EventType, StepEvent
<1>6. \/ stepPc' = "input" /\ stepIn.sink = TRUE /\ stepEvents' = Append(stepEvents, "capability.started")
      \/ stepPc' = "input" /\ stepIn.sink = FALSE /\ stepEvents' = stepEvents
      \/ stepPc' = "rejected" /\ stepIn.sink = TRUE /\ stepEvents' = stepEvents
  BY <1>1, <1>5, EmitCases DEF StepInv
<1>7. Append(<<>>, "capability.started") = <<"capability.started">>
  OBVIOUS
<1> QED BY <1>2, <1>3, <1>4, <1>6, <1>7

LEMMA StepInputKeeps == StepInv /\ StepInput => StepInv'
<1> SUFFICES ASSUME StepInv, StepInput PROVE StepInv'
  OBVIOUS
<1>1. stepPc = "input" /\ UNCHANGED <<stepIn, stepEvents, stepWritten, stepFailed, stepRefs>>
  BY DEF StepInput
<1>2. PICK ok \in BOOLEAN :
        /\ stepFacts' = [stepFacts EXCEPT !.schema = ok]
        /\ IF ok THEN stepPc' = "policy" /\ UNCHANGED stepResult ELSE finish("failed", "SCHEMA_VALIDATION_FAILED", {})
  BY DEF StepInput
<1>3. stepFacts' \in [known : BOOLEAN, digest : BOOLEAN, schema : BOOLEAN,
                      report : {"none", "deny", "yield", "requires_approval", "allow"}]
      /\ stepFacts'.schema = ok /\ stepFacts'.known = stepFacts.known /\ stepFacts'.digest = stepFacts.digest
  BY <1>2 DEF StepInv, StepType
<1>4. CASE ~ok
  <2>1. finish("failed", "SCHEMA_VALIDATION_FAILED", {})
    BY <1>2, <1>4
  <2>2. "SCHEMA_VALIDATION_FAILED" \in StepCode
    BY DEF StepCode
  <2> QED BY <1>1, <1>3, <2>1, <2>2, FinishEarly
<1>5. CASE ok
  <2>1. stepPc' = "policy" /\ UNCHANGED stepResult
    BY <1>2, <1>5
  <2>2. /\ stepRefs = {} /\ stepWritten = {} /\ stepResult.status = "none"
        /\ stepFacts.known /\ stepFacts.digest
    BY <1>1 DEF StepInv, StepType, ClearedOnTheWay, StepArtifacts, Resolved, Running, Closing
  <2>3. StepType'
    BY <1>1, <1>3, <2>1 DEF StepInv, StepType, Resolved
  <2>4. ClearedOnTheWay' /\ StepArtifacts'
    BY <1>1, <1>3, <1>5, <2>1, <2>2
    DEF StepInv, ClearedOnTheWay, StepArtifacts, Resolved, Checked, Running, Closing
  <2>5. Story'
    BY <1>1, <2>1 DEF StepInv, Story, Opened, Running, Closing
  <2> QED BY <2>3, <2>4, <2>5 DEF StepInv
<1> QED BY <1>4, <1>5

LEMMA StepPolicyKeeps == StepInv /\ StepPolicy => StepInv'
<1> SUFFICES ASSUME StepInv, StepPolicy PROVE StepInv'
  OBVIOUS
<1>1. /\ stepPc = "policy" /\ UNCHANGED <<stepIn, stepWritten, stepFailed, stepRefs, stepResult>>
      /\ emitRunEvent("policy.evaluated", "decided", "rejected")
      /\ stepFacts' = [stepFacts EXCEPT !.report = evaluatePolicy(stepIn.policy)]
  BY DEF StepPolicy
<1>2. PICK out \in {"deny", "yield", "requires_approval", "allow"} : out = evaluatePolicy(stepIn.policy)
  BY PolicyOutcome
<1>3. stepFacts' \in [known : BOOLEAN, digest : BOOLEAN, schema : BOOLEAN,
                      report : {"none", "deny", "yield", "requires_approval", "allow"}]
      /\ stepFacts'.report = out /\ stepFacts'.schema = stepFacts.schema
      /\ stepFacts'.known = stepFacts.known /\ stepFacts'.digest = stepFacts.digest
  BY <1>1, <1>2 DEF StepInv, StepType
<1>4. /\ stepRefs = {} /\ stepWritten = {} /\ stepResult.status = "none" /\ stepFacts.known /\ stepFacts.digest /\ stepFacts.schema
      /\ (stepIn.sink => stepEvents = <<"capability.started">>) /\ (~stepIn.sink => stepEvents = <<>>)
  BY <1>1 DEF StepInv, StepType, ClearedOnTheWay, Story, StepArtifacts, Resolved, Checked, Running, Closing
<1>5. CASE stepPc' = "rejected" /\ stepEvents' = stepEvents
  BY <1>1, <1>3, <1>5, Rejects
<1>6. CASE \/ stepPc' = "decided" /\ stepEvents' = <<"capability.started", "policy.evaluated">> /\ stepIn.sink = TRUE
           \/ stepPc' = "decided" /\ stepEvents' = <<>> /\ stepIn.sink = FALSE
  <2>1. stepEvents' \in Seq(EventType)
    <3>1. "capability.started" \in EventType /\ "policy.evaluated" \in EventType
      BY DEF EventType, StepEvent
    <3>2. <<"capability.started", "policy.evaluated">> \in Seq(EventType) /\ <<>> \in Seq(EventType)
      BY <3>1, OneOrTwo
    <3> QED BY <1>6, <3>2
  <2>2. StepType'
    BY <1>1, <1>3, <1>6, <2>1 DEF StepInv, StepType, Resolved
  <2>4. \A k \in DOMAIN stepEvents' : /\ stepEvents'[k] \in {"capability.started", "policy.evaluated"}
                                      /\ stepEvents'[k] \notin Artifact
    <3>1. "capability.started" \notin Artifact /\ "policy.evaluated" \notin Artifact
      BY StepAssumption DEF StepEvent
    <3> QED BY <1>6, <3>1
  <2>3. ClearedOnTheWay' /\ StepArtifacts'
    BY <1>1, <1>2, <1>3, <1>4, <1>6, <2>4 DEF ClearedOnTheWay, StepArtifacts, Resolved, Checked, Running, Closing
  <2>5. stepIn.sink => Opened'
    BY <1>6 DEF Opened
  <2>6. Story'
    BY <1>1, <1>4, <1>6, <2>4, <2>5 DEF Story, Running, Closing, Terminal
  <2> QED BY <2>2, <2>3, <2>6 DEF StepInv
<1>7. "policy.evaluated" \in EventType
  BY DEF EventType, StepEvent
<1>8. \/ stepPc' = "decided" /\ stepIn.sink = TRUE /\ stepEvents' = Append(stepEvents, "policy.evaluated")
      \/ stepPc' = "decided" /\ stepIn.sink = FALSE /\ stepEvents' = stepEvents
      \/ stepPc' = "rejected" /\ stepIn.sink = TRUE /\ stepEvents' = stepEvents
  BY <1>1, <1>7, EmitCases DEF StepInv
<1>9. Append(<<"capability.started">>, "policy.evaluated") = <<"capability.started", "policy.evaluated">>
  <2>1. "capability.started" \in EventType
    BY DEF EventType, StepEvent
  <2> QED BY <1>7, <2>1, OneOrTwo
<1> QED BY <1>4, <1>5, <1>6, <1>8, <1>9

LEMMA StepDecideKeeps == StepInv /\ StepDecide => StepInv'
<1> SUFFICES ASSUME StepInv, StepDecide PROVE StepInv'
  OBVIOUS
<1>1. stepPc = "decided" /\ UNCHANGED <<stepIn, stepFacts, stepEvents, stepWritten, stepFailed, stepRefs>>
  BY DEF StepDecide
<1>2. stepFacts' \in [known : BOOLEAN, digest : BOOLEAN, schema : BOOLEAN,
                      report : {"none", "deny", "yield", "requires_approval", "allow"}]
  BY <1>1 DEF StepInv, StepType
<1>3. /\ stepFacts.report = evaluatePolicy(stepIn.policy)
      /\ stepFacts.report \in {"deny", "yield", "requires_approval", "allow"}
      /\ stepFacts.known /\ stepFacts.digest /\ stepFacts.schema
      /\ stepRefs = {} /\ stepWritten = {} /\ stepResult.status = "none"
  BY <1>1, PolicyOutcome DEF StepInv, StepType, ClearedOnTheWay, StepArtifacts, Resolved, Checked, Running, Closing
<1>4. \/ finish("failed", "POLICY_DENIED", {}) \/ finish("yielded", "YIELDED", {})
      \/ finish("requires_approval", "APPROVAL_REQUIRED", {})
      \/ /\ stepFacts.report = "allow" /\ ~(stepIn.mode = "mock" /\ ~stepIn.inTest) /\ stepIn.mode # "dry_run"
         /\ stepPc' = "execute" /\ UNCHANGED stepResult
  BY <1>3 DEF StepDecide
<1> {"POLICY_DENIED", "YIELDED", "APPROVAL_REQUIRED"} \subseteq StepCode
  BY DEF StepCode
<1>5. CASE finish("failed", "POLICY_DENIED", {})
  BY <1>1, <1>2, <1>5, FinishEarly
<1>6. CASE finish("yielded", "YIELDED", {})
  BY <1>1, <1>2, <1>6, FinishEarly
<1>7. CASE finish("requires_approval", "APPROVAL_REQUIRED", {})
  BY <1>1, <1>2, <1>7, FinishEarly
<1>8. CASE /\ stepFacts.report = "allow" /\ ~(stepIn.mode = "mock" /\ ~stepIn.inTest) /\ stepIn.mode # "dry_run"
           /\ stepPc' = "execute" /\ UNCHANGED stepResult
  <2>1. Cleared'
    BY <1>1, <1>3, <1>8 DEF Cleared
  <2>2. StepType'
    BY <1>1, <1>8 DEF StepInv, StepType, Resolved
  <2>3. ClearedOnTheWay'
    BY <1>1, <1>3, <1>8, <2>1 DEF ClearedOnTheWay, Resolved, Checked, Running, Closing
  <2>4. StepArtifacts'
    <3>1. "capability.failed" \in StepEvent /\ stepPc' \notin Closing \cup {"rejected"}
      BY <1>8 DEF StepEvent, Closing
    <3> QED BY <1>1, <1>3, <1>8, <3>1, OtherEvent
  <2>5. Story'
    BY <1>1, <1>8 DEF StepInv, Story, Opened, Running, Closing, Terminal
  <2> QED BY <2>2, <2>3, <2>4, <2>5 DEF StepInv
<1> QED BY <1>4, <1>5, <1>6, <1>7, <1>8

\* The artifact a is recorded: the store takes it, and the sink may.
LEMMA StepRecordArtifactKeeps == StepInv /\ StepRecordArtifact => StepInv'
<1> SUFFICES ASSUME StepInv, StepRecordArtifact PROVE StepInv'
  OBVIOUS
<1>1. stepPc = "execute" /\ UNCHANGED <<stepIn, stepFacts, stepResult>>
  BY DEF StepRecordArtifact
<1>2. PICK a \in Artifact :
        /\ stepRefs' = stepRefs \cup {a} /\ stepPc' \in {"execute", "threw"}
        /\ \/ /\ stepWritten' = stepWritten \cup {a} /\ stepIn.sink
              /\ stepEvents' = Append(stepEvents, a) /\ stepFailed' = stepFailed
           \/ /\ stepWritten' = stepWritten \cup {a} /\ ~stepIn.sink
              /\ stepEvents' = stepEvents /\ stepFailed' = stepFailed
           \/ /\ stepWritten' = stepWritten \cup {a} /\ stepEvents' = stepEvents
              /\ stepFailed' = [stepFailed EXCEPT !.sink = @ \cup {a}]
           \/ /\ stepWritten' = stepWritten /\ stepEvents' = stepEvents
              /\ stepFailed' = [stepFailed EXCEPT !.store = @ \cup {a}]
  BY DEF StepRecordArtifact, announce, caughtOrNot
<1>3. /\ Cleared /\ stepResult.status = "none" /\ stepEvents \in Seq(EventType) /\ (stepIn.sink => Opened)
      /\ (~stepIn.sink => stepEvents = <<>>)
      /\ stepRefs \subseteq Artifact /\ stepWritten \subseteq stepRefs
      /\ stepFailed \in [store : SUBSET Artifact, sink : SUBSET Artifact]
  BY <1>1 DEF StepInv, StepType, ClearedOnTheWay, StepArtifacts, Story, Running, Closing
<1>4. a \in EventType /\ a \notin StepEvent
  BY <1>2, StepAssumption DEF EventType
<1>5. Cleared' /\ stepFacts'.known /\ stepFacts'.digest /\ stepFacts'.schema
  BY <1>1, <1>3 DEF Cleared
<1>6. /\ stepFailed' \in [store : SUBSET Artifact, sink : SUBSET Artifact]
      /\ stepFailed.store \subseteq stepFailed'.store /\ stepFailed.sink \subseteq stepFailed'.sink
      /\ a \in stepWritten' \cup stepFailed'.store
      /\ a \in stepWritten' /\ stepIn.sink => a \in stepFailed'.sink \/ a \in stepWritten \/ stepEvents' = Append(stepEvents, a)
      /\ stepWritten \subseteq stepWritten' /\ stepWritten' \subseteq stepWritten \cup {a}
      /\ stepEvents' # stepEvents => stepIn.sink /\ stepEvents' = Append(stepEvents, a) /\ a \in stepWritten'
  BY <1>2, <1>3
<1>7. stepRefs' \subseteq Artifact /\ stepWritten' \subseteq stepRefs'
  BY <1>2, <1>3, <1>6
<1>8. /\ stepEvents' \in Seq(EventType)
      /\ \A k \in DOMAIN stepEvents : k \in DOMAIN stepEvents' /\ stepEvents'[k] = stepEvents[k]
      /\ \A k \in DOMAIN stepEvents' : \/ k \in DOMAIN stepEvents /\ stepEvents'[k] = stepEvents[k]
                                       \/ stepEvents'[k] = a /\ a \in stepWritten'
      /\ stepEvents' = Append(stepEvents, a) => \E k \in DOMAIN stepEvents' : stepEvents'[k] = a
  <2>1. stepEvents' = stepEvents \/ stepEvents' = Append(stepEvents, a)
    BY <1>6
  <2>2. Longer(stepEvents, a, stepEvents')
    BY <1>3, <1>4, <2>1, OneMore, Zenon
  <2>3. stepEvents' # stepEvents => a \in stepWritten'
    BY <1>6
  <2> QED BY <2>2, <2>3, Zenon DEF Longer
<1>9. StepType'
  <2>1. stepResult.refs \subseteq stepRefs'
    BY <1>2 DEF StepInv, StepType
  <2> QED BY <1>1, <1>2, <1>6, <1>7, <1>8, <2>1 DEF StepInv, StepType, Resolved
<1>10. ClearedOnTheWay'
  BY <1>1, <1>2, <1>5 DEF ClearedOnTheWay, Resolved, Checked, Running, Closing
<1>11. StepArtifacts'
  <2>1. stepPc' \notin Closing \cup {"rejected"} /\ stepPc' # "idle"
    BY <1>2 DEF Closing
  <2>2. stepRefs' \subseteq stepWritten' \cup stepFailed'.store
    BY <1>2, <1>6 DEF StepInv, StepArtifacts
  <2>3. \A k \in DOMAIN stepEvents' : stepEvents'[k] \in Artifact => stepEvents'[k] \in stepWritten'
    BY <1>6, <1>8 DEF StepInv, StepArtifacts
  <2>4. ASSUME stepIn.sink, NEW b \in stepWritten' \ stepFailed'.sink
        PROVE  \E k \in DOMAIN stepEvents' : stepEvents'[k] = b
    <3>1. CASE b \in stepWritten
      <4>1. \E k \in DOMAIN stepEvents : stepEvents[k] = b
        BY <1>1, <1>6, <2>4, <3>1 DEF StepInv, StepArtifacts
      <4> QED BY <1>8, <4>1
    <3>2. CASE b \notin stepWritten
      BY <1>6, <1>8, <2>4, <3>2
    <3> QED BY <3>1, <3>2
  <2> QED BY <1>1, <1>3, <2>1, <2>2, <2>3, <2>4 DEF StepArtifacts
<1>12. Story'
  <2>1. stepIn.sink => Opened'
    <3>1. ASSUME stepIn.sink PROVE Opened'
      <4>1. Opened /\ Len(stepEvents) \in Nat /\ 1 \in DOMAIN stepEvents /\ 2 \in DOMAIN stepEvents
        BY <1>3, <3>1 DEF Opened
      <4>2. 1 \in DOMAIN stepEvents' /\ 2 \in DOMAIN stepEvents' /\ Len(stepEvents') \in Nat
        BY <1>8, <4>1
      <4>3. Len(stepEvents') >= 2
        BY <1>8, <4>2
      <4> QED BY <1>8, <4>1, <4>3 DEF Opened
    <3> QED BY <3>1
  <2>2. stepEvents' # <<>> => stepIn.sink
    BY <1>3, <1>6
  <2>3. \A k \in DOMAIN stepEvents : stepEvents[k] \notin Terminal /\ stepEvents[k] # "approval.requested"
    BY <1>1 DEF StepInv, Story
  <2>4. a \notin Terminal /\ a # "approval.requested"
    BY <1>4 DEF Terminal, StepEvent
  <2>5. \A k \in DOMAIN stepEvents' : stepEvents'[k] \notin Terminal /\ stepEvents'[k] # "approval.requested"
    BY <1>8, <2>3, <2>4
  <2>6. \A k \in DOMAIN stepEvents' : Opened'
    BY <1>8, <2>1, <2>2
  <2> QED BY <1>1, <1>2, <2>1, <2>2, <2>5, <2>6 DEF Story, Running, Closing
<1> QED BY <1>9, <1>10, <1>11, <1>12 DEF StepInv

LEMMA StepExecutedKeeps == StepInv /\ StepExecuted => StepInv'
<1> SUFFICES ASSUME StepInv, StepExecuted PROVE StepInv'
  OBVIOUS
<1>1. stepPc \in {"execute", "threw"} /\ UNCHANGED <<stepIn, stepFacts, stepEvents, stepWritten, stepFailed, stepRefs>>
  BY DEF StepExecuted
<1>2. PICK status \in {"success", "failed"}, code \in StepCode :
        stepPc' = "finish" /\ stepResult' = [status |-> status, code |-> code, refs |-> stepRefs]
        /\ (status = "success" => stepPc = "execute")
  <2>1. \/ stepPc = "execute" /\ finish("success", "none", stepRefs)
        \/ finish("failed", "RESULT_VALIDATION_FAILED", stepRefs)
        \/ finish("failed", "MCP_EXECUTION_FAILED", stepRefs)
    BY DEF StepExecuted, normalizeErrorCode, refsOnFailure
  <2>2. {"none", "RESULT_VALIDATION_FAILED", "MCP_EXECUTION_FAILED"} \subseteq StepCode
    BY DEF StepCode
  <2> QED BY <2>1, <2>2 DEF finish
<1>3. stepResult'.status = status /\ stepResult'.refs = stepRefs
  BY <1>2
<1>4. StepType'
  BY <1>1, <1>2 DEF StepInv, StepType, Closing
<1>5. ClearedOnTheWay'
  BY <1>1, <1>2 DEF StepInv, ClearedOnTheWay, Cleared, Resolved, Checked, Running, Closing
<1>7. StepArtifacts'
  <2>1. "capability.failed" \in StepEvent /\ stepPc' \in Closing /\ stepPc # "idle"
    BY <1>1, <1>2 DEF StepEvent, Closing
  <2> QED BY <1>1, <1>2, <1>3, <2>1, OtherEvent
<1>8. Story'
  BY <1>1, <1>2, <1>3 DEF StepInv, Story, Opened, Running, Closing, Terminal
<1> QED BY <1>4, <1>5, <1>7, <1>8 DEF StepInv

\* The last events of a call.
LEMMA StepFinishKeeps == StepInv /\ StepFinish => StepInv'
<1> SUFFICES ASSUME StepInv, StepFinish PROVE StepInv'
  OBVIOUS
<1>1. stepPc \in {"finish", "asked"} /\ UNCHANGED <<stepIn, stepFacts, stepWritten, stepFailed, stepRefs, stepResult>>
  BY DEF StepFinish
<1>2. PICK type \in {"approval.requested", "capability.failed", "capability.completed"}, then \in {"asked", "returned"} :
        /\ emitRunEvent(type, then, "rejected")
        /\ \/ /\ then = "asked" /\ type = "approval.requested" /\ stepPc = "finish"
              /\ stepResult.status = "requires_approval"
           \/ /\ then = "returned" /\ type = terminalEvent(stepResult.status) /\ type \in Terminal
              /\ (stepPc = "asked" \/ stepResult.status # "requires_approval")
  BY <1>1 DEF StepFinish, terminalEvent, Terminal
<1>3. type \in StepEvent /\ type \in EventType /\ type \notin Artifact
  BY TypesAreNoArtifacts DEF StepEvent
<1>4. \/ stepPc' = then /\ stepIn.sink = TRUE /\ stepEvents' = Append(stepEvents, type)
      \/ stepPc' = then /\ stepIn.sink = FALSE /\ stepEvents' = stepEvents
      \/ stepPc' = "rejected" /\ stepIn.sink = TRUE /\ stepEvents' = stepEvents
  BY <1>1, <1>2, <1>3, EmitCases DEF StepInv
<1>5. CASE stepPc' = "rejected" /\ stepEvents' = stepEvents
  BY <1>1, <1>5, Rejects DEF StepInv, StepType
<1>6. CASE \/ stepPc' = then /\ stepIn.sink = TRUE /\ stepEvents' = Append(stepEvents, type)
           \/ stepPc' = then /\ stepIn.sink = FALSE /\ stepEvents' = stepEvents
  <2>1. stepEvents \in Seq(EventType) /\ (~stepIn.sink => stepEvents = <<>>)
    BY <1>1 DEF StepInv, StepType, Story
  <2>2. stepEvents' \in Seq(EventType)
    BY <1>3, <1>6, <2>1, Emitted
  <2>3. StepType'
    BY <1>1, <1>6, <2>2 DEF StepInv, StepType, Closing
  <2>4. ClearedOnTheWay'
    BY <1>1, <1>6 DEF StepInv, ClearedOnTheWay, Cleared, Resolved, Checked, Running, Closing
  <2>6. StepArtifacts'
    <3>1. stepPc' \in Closing /\ stepPc' # "idle" /\ stepPc # "idle" /\ stepPc \in Closing
      BY <1>1, <1>6 DEF Closing
    <3>2. stepResult'.refs = stepRefs
      BY <1>1, <3>1 DEF StepInv, StepArtifacts
    <3> QED BY <1>1, <1>3, <1>6, <3>1, <3>2, OtherEvent
  <2>7. CASE stepIn.sink = FALSE /\ stepEvents' = stepEvents
    <3>1. stepEvents' = <<>>
      BY <2>1, <2>7
    <3> QED BY <1>1, <1>2, <1>6, <2>3, <2>4, <2>6, <2>7, <3>1 DEF StepInv, Story, Running, Closing
  <2>8. CASE stepIn.sink = TRUE /\ stepEvents' = Append(stepEvents, type)
    <3>1. /\ Len(stepEvents) \in Nat /\ Len(stepEvents') = Len(stepEvents) + 1
          /\ DOMAIN stepEvents' = DOMAIN stepEvents \cup {Len(stepEvents) + 1}
          /\ stepEvents'[Len(stepEvents) + 1] = type
          /\ \A k \in DOMAIN stepEvents : stepEvents'[k] = stepEvents[k] /\ k <= Len(stepEvents) /\ k \in Nat
      BY <1>3, <2>1, <2>8, Emitted
    <3>2. \A k \in DOMAIN stepEvents :
            /\ stepEvents[k] \notin Terminal
            /\ stepEvents[k] = "approval.requested" => stepPc = "asked" /\ stepResult.status = "requires_approval"
            /\ stepEvents[k] \in Artifact => Opened
      BY <1>1 DEF StepInv, Story
    <3>3. Opened => Opened'
      <4>1. Opened => 1 \in DOMAIN stepEvents /\ 2 \in DOMAIN stepEvents
        BY <2>1 DEF Opened
      <4> QED BY <3>1, <4>1 DEF Opened
    <3>4. \A k \in DOMAIN stepEvents' :
            /\ stepEvents'[k] \in Terminal => k = Len(stepEvents') /\ stepPc' = "returned"
            /\ stepEvents'[k] = "approval.requested" => /\ stepPc' \in {"asked", "returned"}
                                                        /\ stepResult'.status = "requires_approval"
            /\ stepEvents'[k] \in Artifact => Opened'
      <4>1. \A k \in DOMAIN stepEvents :
            /\ stepEvents'[k] \notin Terminal
            /\ stepEvents'[k] = "approval.requested" => stepResult'.status = "requires_approval"
            /\ stepEvents'[k] \in Artifact => Opened'
        BY <1>1, <3>1, <3>2, <3>3
      <4>2. stepPc' = then /\ stepResult'.status = stepResult.status
        BY <1>1, <1>6
      <4>3. /\ type \in Terminal => stepPc' = "returned"
            /\ type = "approval.requested" => stepPc' = "asked" /\ stepResult'.status = "requires_approval"
            /\ type \notin Artifact
        BY <1>2, <1>3, <4>2 DEF Terminal
      <4> QED BY <1>6, <3>1, <4>1, <4>2, <4>3
    <3>5. stepPc' = "asked" => stepResult'.status = "requires_approval" /\ stepEvents'[Len(stepEvents) + 1] = "approval.requested"
      BY <1>1, <1>2, <1>6, <3>1
    <3>6. stepPc' = "returned" /\ stepResult'.status = "requires_approval" =>
            \E k \in DOMAIN stepEvents' : stepEvents'[k] = "approval.requested"
      <4>1. stepPc = "asked" => \E k \in DOMAIN stepEvents : stepEvents[k] = "approval.requested"
        BY <2>8 DEF StepInv, Story
      <4> QED BY <1>1, <1>2, <1>6, <3>1, <4>1
    <3>7. stepPc' = "returned" => stepEvents'[Len(stepEvents')] = terminalEvent(stepResult.status)
      BY <1>2, <1>6, <3>1
    <3>8. Story'
      BY <1>1, <1>6, <2>8, <3>1, <3>4, <3>5, <3>6, <3>7 DEF Story, Running, Closing, terminalEvent
    <3> QED BY <2>3, <2>4, <2>6, <3>8 DEF StepInv
  <2> QED BY <1>6, <2>7, <2>8
<1> QED BY <1>4, <1>5, <1>6

LEMMA StepInvInit == StepInit => StepInv
<1> SUFFICES ASSUME StepInit PROVE StepInv
  OBVIOUS
<1>1. stepResult.status = "none" /\ stepEvents \in Seq(EventType)
  BY DEF StepInit, NoStepResult
<1>2. StepType
  <2>1. PICK no \in BOOLEAN : no = FALSE
    OBVIOUS
  <2>2. stepFacts = [known |-> no, digest |-> no, schema |-> no, report |-> "none"]
    BY <2>1, Zenon DEF StepInit, NoFacts
  <2>3. "none" \in StepCode
    BY DEF StepCode
  <2> QED BY <1>1, <2>2, <2>3 DEF StepInit, NoStepResult, StepType
<1>3. ClearedOnTheWay /\ StepArtifacts /\ Story
  BY <1>1 DEF StepInit, ClearedOnTheWay, StepArtifacts, Story, Resolved, Checked, Running, Closing
<1> QED BY <1>2, <1>3 DEF StepInv

\* For every policy input, mode, capability and fault of the sink and of the
\* store, and any number of artifacts: the capability's code runs only in a step
\* that was cleared, the result and the events account for every artifact except
\* where a call of the store or the sink was rejected, and the events tell the
\* result.
THEOREM StepAccountedHolds == StepSpec => []StepAccounted
<1>1. StepInv /\ [StepNext]_stepVars => StepInv'
  <2> SUFFICES ASSUME StepInv, [StepNext]_stepVars PROVE StepInv'
    OBVIOUS
  <2>1. CASE UNCHANGED stepVars
    BY <2>1 DEF stepVars, StepInv, StepType, ClearedOnTheWay, Cleared, StepArtifacts, EventAt, Story, Opened
  <2>2. CASE StepNext
    BY <2>2, StepCallKeeps, StepResolveKeeps, StepStartKeeps, StepInputKeeps, StepPolicyKeeps, StepDecideKeeps,
       StepRecordArtifactKeeps, StepExecutedKeeps, StepFinishKeeps DEF StepNext
  <2> QED BY <2>1, <2>2
<1> QED BY <1>1, StepInvInit, StepInvSuffices, PTL DEF StepSpec

-----------------------------------------------------------------------------
(* HttpFetch                                                               *)

\* The delays that retryDelay can compute.
Delay == {retryDelay(after, n) : after \in {{}} \cup {{s} : s \in RetryAfter}, n \in Nat}

\* The most requests that n whole attempts can make.
Chunk(n) == n * (RedirectLimit + 1)

HttpType ==
    /\ httpPc \in {"idle", "attempt", "send", "wait", "extract", "done"}
    /\ httpPc \in {"attempt", "send", "wait", "extract"} => httpReq \in Request
    /\ httpHop \in [host : Host \cup {"none"}, redirects : Nat, cred : BOOLEAN]
    /\ httpWire \in [host : Host \cup {"none"}, cred : BOOLEAN, count : Nat]
    /\ httpLeft \in BOOLEAN
    /\ httpAttempt \in Nat /\ httpAttempt <= MaxFetches
    /\ httpDelays \in Seq(Delay)
    /\ httpStore \subseteq {"raw", "text"}

\* How far the call is: which attempt, and what it has used up of its bounds.
HttpProgress ==
    /\ httpPc = "idle" => /\ httpAttempt = 0 /\ httpDelays = <<>> /\ httpWire = NoWire
                          /\ httpStore = {} /\ httpOut = "none"
    /\ httpPc # "idle" => httpAttempt >= 1 /\ Len(httpDelays) = httpAttempt - 1
    /\ httpPc = "attempt" => httpWire.count <= Chunk(httpAttempt - 1)
    /\ httpPc = "send" => /\ httpHop.redirects <= RedirectLimit + 1
                          /\ httpWire.count <= Chunk(httpAttempt - 1) + httpHop.redirects
    /\ httpPc = "wait" => /\ httpHop.redirects <= RedirectLimit
                          /\ httpWire.count <= Chunk(httpAttempt - 1) + httpHop.redirects + 1
    /\ httpWire.count <= Chunk(httpAttempt)
    /\ httpPc = "extract" => "raw" \in httpStore
    /\ httpPc # "done" => httpOut = "none"

\* The hop that is about to be requested, or was: cleared by the network policy,
\* and with the credential only while the chain has stayed at its first host.
HopCleared ==
    httpPc \in {"send", "wait"} =>
        /\ httpHop.host \in Host /\ evaluateNetwork(httpReq, httpHop.host) = "allow"
        /\ httpHop.cred => httpHop.host = httpReq.host /\ ~httpLeft
        /\ httpPc = "wait" => httpWire.host = httpHop.host /\ httpWire.cred = httpHop.cred

HttpInv == HttpType /\ HttpProgress /\ HopCleared /\ WireInPolicy /\ CredentialStaysHome /\ SourceHasBoth

LEMMA ChunkNat == \A n \in Nat : /\ Chunk(n) \in Nat
                                 /\ Chunk(n + 1) = Chunk(n) + RedirectLimit + 1
  BY HttpAssumption DEF Chunk

\* No delay is longer than the configured maximum.
LEMMA DelayBounded == \A d \in Delay : d <= MaxDelay
<1> SUFFICES ASSUME NEW after \in {{}} \cup {{s} : s \in RetryAfter}, NEW n \in Nat
             PROVE  retryDelay(after, n) <= MaxDelay
  BY DEF Delay
<1>1. MaxDelay <= MaxDelay
  BY HttpAssumption
<1>2. computeDelay(n) <= MaxDelay
  BY <1>1 DEF computeDelay
<1> QED BY <1>1, <1>2 DEF retryDelay

\* An error ends the attempt: either the next begins after a delay, with a
\* whole chain used up at most, or the call throws.
LEMMA AttemptFails ==
  ASSUME HttpInv, httpPc \in {"attempt", "send", "wait"}, UNCHANGED <<httpReq, httpHop, httpLeft, httpWire>>,
         NEW after \in {{}} \cup {{s} : s \in RetryAfter}, Failed(after),
         httpStore' \in {httpStore, httpStore \cup {"raw"}}
  PROVE  HttpInv'
<1>1. httpPc \notin {"idle", "done"} /\ httpAttempt \in Nat /\ httpAttempt >= 1 /\ Len(httpDelays) = httpAttempt - 1
      /\ httpOut = "none" /\ httpWire.count \in Nat /\ httpWire.count <= Chunk(httpAttempt) /\ httpReq \in Request
  BY DEF HttpInv, HttpType, HttpProgress
<1>2. httpStore' \subseteq {"raw", "text"}
  BY DEF HttpInv, HttpType
<1>3. CASE httpAttempt < MaxFetches
  <2>1. /\ httpPc' = "attempt" /\ httpAttempt' = httpAttempt + 1 /\ httpOut' = "none"
        /\ httpDelays' = Append(httpDelays, retryDelay(after, httpAttempt))
    BY <1>1, <1>3 DEF Failed
  <2>2. retryDelay(after, httpAttempt) \in Delay
    BY <1>1 DEF Delay
  <2>3. httpDelays' \in Seq(Delay) /\ Len(httpDelays') = httpAttempt' - 1
    BY <1>1, <2>1, <2>2, AppendProperties DEF HttpInv, HttpType
  <2>4. httpAttempt' \in Nat /\ httpAttempt' <= MaxFetches /\ httpAttempt' >= 1 /\ httpAttempt' - 1 = httpAttempt
    BY <1>1, <1>3, <2>1, HttpAssumption
  <2>5. httpWire'.count <= Chunk(httpAttempt' - 1) /\ httpWire'.count <= Chunk(httpAttempt')
    <3>1. Chunk(httpAttempt) \in Nat /\ Chunk(httpAttempt') = Chunk(httpAttempt) + RedirectLimit + 1
      BY <1>1, <2>1, ChunkNat
    <3>2. RedirectLimit \in Nat
      BY HttpAssumption
    <3>3. Chunk(httpAttempt' - 1) = Chunk(httpAttempt) /\ httpWire'.count = httpWire.count
      BY <2>4
    <3> QED BY <1>1, <3>1, <3>2, <3>3
  <2>6. HttpType'
    BY <1>1, <1>2, <2>1, <2>3, <2>4 DEF HttpInv, HttpType
  <2>7. HttpProgress'
    BY <2>1, <2>3, <2>4, <2>5 DEF HttpProgress
  <2>8. HopCleared' /\ WireInPolicy' /\ CredentialStaysHome' /\ SourceHasBoth'
    BY <2>1 DEF HttpInv, HopCleared, WireInPolicy, CredentialStaysHome, SourceHasBoth
  <2> QED BY <2>6, <2>7, <2>8 DEF HttpInv
<1>4. CASE ~(httpAttempt < MaxFetches)
  <2>1. httpPc' = "done" /\ httpOut' = "threw" /\ httpAttempt' = httpAttempt /\ httpDelays' = httpDelays
    BY <1>4 DEF Failed, End
  <2>2. HttpType'
    BY <1>2, <2>1 DEF HttpInv, HttpType
  <2>3. HttpProgress'
    BY <1>1, <2>1 DEF HttpProgress
  <2>4. HopCleared' /\ WireInPolicy' /\ CredentialStaysHome' /\ SourceHasBoth'
    BY <2>1 DEF HttpInv, HopCleared, WireInPolicy, CredentialStaysHome, SourceHasBoth
  <2> QED BY <2>2, <2>3, <2>4 DEF HttpInv
<1> QED BY <1>3, <1>4

LEMMA FetchSourceKeeps == HttpInv /\ FetchSource => HttpInv'
<1> SUFFICES ASSUME HttpInv, FetchSource PROVE HttpInv'
  OBVIOUS
<1>1. /\ httpPc = "idle" /\ httpAttempt = 0 /\ httpDelays = <<>> /\ httpWire = NoWire /\ httpStore = {}
      /\ httpOut = "none" /\ httpAttempt' = 1 /\ UNCHANGED <<httpHop, httpLeft, httpDelays, httpWire>>
  BY DEF FetchSource, HttpInv, HttpProgress
<1>2. httpWire.count = 0 /\ httpWire.cred = FALSE /\ Len(httpDelays) = 0
  BY <1>1 DEF NoWire
<1>3. Chunk(0) \in Nat /\ Chunk(1) \in Nat /\ 1 <= MaxFetches /\ 1 - 1 = 0
  BY ChunkNat, HttpAssumption
<1>4. \/ httpPc' = "done" /\ httpOut' \in {"preview", "not_found"} /\ httpStore' = {}
      \/ httpPc' = "done" /\ httpOut' = "source" /\ httpStore' = {"raw", "text"}
      \/ httpPc' = "attempt" /\ httpOut' = "none" /\ httpStore' = {} /\ httpReq' \in Request
  BY <1>1 DEF FetchSource, End
<1>5. HttpType'
  BY <1>1, <1>3, <1>4 DEF HttpInv, HttpType
<1>6. HttpProgress'
  BY <1>1, <1>2, <1>3, <1>4 DEF HttpProgress
<1>7. HopCleared' /\ WireInPolicy' /\ CredentialStaysHome' /\ SourceHasBoth'
  BY <1>1, <1>2, <1>4 DEF HopCleared, WireInPolicy, CredentialStaysHome, SourceHasBoth
<1> QED BY <1>5, <1>6, <1>7 DEF HttpInv

LEMMA HttpBeginKeeps == HttpInv /\ HttpBegin => HttpInv'
<1> SUFFICES ASSUME HttpInv, HttpBegin PROVE HttpInv'
  OBVIOUS
<1>1. httpPc = "attempt" /\ UNCHANGED <<httpReq, httpWire, httpStore>> /\ httpReq \in Request
  BY DEF HttpBegin, HttpInv, HttpType
<1>2. CASE Failed({}) /\ UNCHANGED <<httpHop, httpLeft>>
  BY <1>1, <1>2, AttemptFails
<1>3. CASE /\ evaluateNetwork(httpReq, httpReq.host) = "allow" /\ httpPc' = "send"
           /\ httpHop' = [host |-> httpReq.host, redirects |-> 0, cred |-> httpReq.cred]
           /\ httpLeft' = FALSE /\ UNCHANGED <<httpAttempt, httpDelays, httpOut>>
  <2>1. httpReq.host \in Host /\ httpReq.cred \in BOOLEAN
    BY <1>1 DEF Request
  <2>2. httpHop'.host = httpReq.host /\ httpHop'.redirects = 0 /\ httpHop'.cred = httpReq.cred
    BY <1>3
  <2>3. HttpType'
    BY <1>1, <1>3, <2>1 DEF HttpInv, HttpType
  <2>4. httpWire.count \in Nat /\ httpWire.count <= Chunk(httpAttempt - 1) /\ httpAttempt \in Nat /\ httpAttempt >= 1
    BY <1>1 DEF HttpInv, HttpType, HttpProgress
  <2>5. Chunk(httpAttempt - 1) \in Nat /\ httpWire.count <= Chunk(httpAttempt - 1) + 0
    BY <2>4, ChunkNat
  <2>6. HttpProgress'
    BY <1>1, <1>3, <2>2, <2>5, HttpAssumption DEF HttpInv, HttpProgress
  <2>7. HopCleared' /\ WireInPolicy' /\ CredentialStaysHome' /\ SourceHasBoth'
    BY <1>1, <1>3, <2>1, <2>2 DEF HttpInv, HopCleared, evaluateNetwork, WireInPolicy, CredentialStaysHome, SourceHasBoth
  <2> QED BY <2>3, <2>6, <2>7 DEF HttpInv
<1> QED BY <1>2, <1>3 DEF HttpBegin

LEMMA HttpSendKeeps == HttpInv /\ HttpSend => HttpInv'
<1> SUFFICES ASSUME HttpInv, HttpSend PROVE HttpInv'
  OBVIOUS
<1>1. httpPc = "send" /\ UNCHANGED <<httpReq, httpHop, httpLeft, httpStore>>
  BY DEF HttpSend
<1>2. CASE Failed({}) /\ UNCHANGED httpWire
  BY <1>1, <1>2, AttemptFails
<1>3. CASE /\ redirectsLeft(httpHop.redirects) /\ assertDnsPolicy(httpReq, httpHop.host) /\ httpPc' = "wait"
           /\ httpWire' = [host |-> httpHop.host, cred |-> httpHop.cred, count |-> httpWire.count + 1]
           /\ UNCHANGED <<httpAttempt, httpDelays, httpOut>>
  <2>1. PICK c \in Nat, a \in Nat, r \in Nat : c = httpWire.count /\ a = httpAttempt /\ r = httpHop.redirects
    BY DEF HttpInv, HttpType
  <2>2. httpWire'.host = httpHop.host /\ httpWire'.cred = httpHop.cred /\ httpWire'.count = c + 1
    BY <1>3, <2>1
  <2>3. a >= 1 /\ r <= RedirectLimit /\ c <= Chunk(a - 1) + r
    BY <1>1, <1>3, <2>1 DEF HttpInv, HttpProgress, redirectsLeft
  <2>4. Chunk(a - 1) \in Nat /\ Chunk(a) = Chunk(a - 1) + RedirectLimit + 1
    <3>1. a - 1 \in Nat /\ (a - 1) + 1 = a
      BY <2>3
    <3> QED BY <3>1, ChunkNat
  <2>5. c + 1 <= Chunk(a - 1) + r + 1 /\ c + 1 <= Chunk(a)
    BY <2>3, <2>4, HttpAssumption
  <2>6. HttpType'
    BY <1>1, <1>3, <2>1 DEF HttpInv, HttpType
  <2>7. HttpProgress'
    BY <1>1, <1>3, <2>1, <2>2, <2>3, <2>5 DEF HttpInv, HttpProgress
  <2>8. HopCleared' /\ SourceHasBoth'
    BY <1>1, <1>3, <2>2 DEF HttpInv, HopCleared, evaluateNetwork, HttpProgress, SourceHasBoth
  <2>9. WireInPolicy'
    BY <1>1, <1>3, <2>2 DEF HttpInv, HopCleared, evaluateNetwork, assertDnsPolicy, WireInPolicy
  <2>10. CredentialStaysHome'
    BY <1>1, <1>3, <2>2 DEF HttpInv, HopCleared, CredentialStaysHome
  <2> QED BY <2>6, <2>7, <2>8, <2>9, <2>10 DEF HttpInv
<1> QED BY <1>2, <1>3 DEF HttpSend

LEMMA HttpRedirectKeeps == HttpInv /\ HttpRedirect => HttpInv'
<1> SUFFICES ASSUME HttpInv, HttpRedirect PROVE HttpInv'
  OBVIOUS
<1>1. httpPc = "wait" /\ UNCHANGED <<httpReq, httpWire, httpStore>>
  BY DEF HttpRedirect
<1>2. CASE Failed({}) /\ UNCHANGED <<httpHop, httpLeft>>
  BY <1>1, <1>2, AttemptFails
<1>3. ASSUME NEW h \in Host, evaluateNetwork(httpReq, h) = "allow", httpPc' = "send",
             httpHop' = [host |-> h, redirects |-> httpHop.redirects + 1, cred |-> keepsCredential(h)],
             httpLeft' = (httpLeft \/ h # httpReq.host), UNCHANGED <<httpAttempt, httpDelays, httpOut>>
      PROVE  HttpInv'
  <2>1. PICK c \in Nat, a \in Nat, r \in Nat : c = httpWire.count /\ a = httpAttempt /\ r = httpHop.redirects
    BY DEF HttpInv, HttpType
  <2>2. keepsCredential(h) \in BOOLEAN /\ (keepsCredential(h) => httpHop.cred /\ h = httpHop.host)
    BY DEF keepsCredential
  <2>3. httpHop'.host = h /\ httpHop'.redirects = r + 1 /\ httpHop'.cred = keepsCredential(h)
    BY <1>3, <2>1
  <2>4. a >= 1 /\ r <= RedirectLimit /\ c <= Chunk(a - 1) + r + 1 /\ Chunk(a - 1) \in Nat
    <3>1. a >= 1
      BY <1>1, <2>1 DEF HttpInv, HttpProgress
    <3>2. a - 1 \in Nat
      BY <3>1
    <3> QED BY <1>1, <2>1, <3>1, <3>2, ChunkNat DEF HttpInv, HttpProgress
  <2>5. r + 1 <= RedirectLimit + 1 /\ c <= Chunk(a - 1) + (r + 1)
    BY <2>4, HttpAssumption
  <2>6. httpHop' \in [host : Host \cup {"none"}, redirects : Nat, cred : BOOLEAN]
    BY <1>3, <2>1, <2>2
  <2>7. HttpType'
    BY <1>1, <1>3, <2>6 DEF HttpInv, HttpType
  <2>8. HttpProgress'
    BY <1>1, <1>3, <2>1, <2>3, <2>5 DEF HttpInv, HttpProgress
  <2>9. HopCleared'
    BY <1>1, <1>3, <2>2, <2>3 DEF HttpInv, HopCleared, evaluateNetwork
  <2>10. WireInPolicy' /\ CredentialStaysHome' /\ SourceHasBoth'
    BY <1>1, <1>3 DEF HttpInv, WireInPolicy, CredentialStaysHome, SourceHasBoth
  <2> QED BY <2>7, <2>8, <2>9, <2>10 DEF HttpInv
<1> QED BY <1>2, <1>3 DEF HttpRedirect

LEMMA HttpEndKeeps == HttpInv /\ (HttpError \/ HttpResponse \/ FetchExtract) => HttpInv'
<1> SUFFICES ASSUME HttpInv PROVE HttpError \/ HttpResponse \/ FetchExtract => HttpInv'
  OBVIOUS
<1>1. ASSUME HttpError PROVE HttpInv'
  BY <1>1, AttemptFails DEF HttpError
<1>2. ASSUME HttpResponse PROVE HttpInv'
  <2>1. httpPc = "wait" /\ UNCHANGED <<httpReq, httpHop, httpLeft, httpWire>>
    BY <1>2 DEF HttpResponse
  <2>2. PICK retryable, stored \in BOOLEAN, after \in {{}} \cup {{s} : s \in RetryAfter} :
          /\ httpStore' = IF stored THEN httpStore \cup {"raw"} ELSE httpStore
          /\ IF artifactThrows(stored) \/ (retryable /\ httpAttempt < MaxFetches)
             THEN Failed(IF stored THEN after ELSE {})
             ELSE httpPc' = "extract" /\ UNCHANGED <<httpAttempt, httpDelays, httpOut>>
    BY <1>2 DEF HttpResponse
  <2>3. CASE Failed(IF stored THEN after ELSE {})
    BY <2>1, <2>2, <2>3, AttemptFails
  <2>4. CASE stored /\ httpPc' = "extract" /\ UNCHANGED <<httpAttempt, httpDelays, httpOut>>
    <3>1. httpStore' = httpStore \cup {"raw"}
      BY <2>2, <2>4
    <3>2. HttpType'
      BY <2>1, <2>4, <3>1 DEF HttpInv, HttpType
    <3>3. HttpProgress'
      BY <2>1, <2>4, <3>1 DEF HttpInv, HttpProgress
    <3>4. HopCleared' /\ WireInPolicy' /\ CredentialStaysHome' /\ SourceHasBoth'
      BY <2>1, <2>4 DEF HttpInv, HttpProgress, HopCleared, WireInPolicy, CredentialStaysHome, SourceHasBoth
    <3> QED BY <3>2, <3>3, <3>4 DEF HttpInv
  <2> QED BY <2>2, <2>3, <2>4 DEF artifactThrows
<1>3. ASSUME FetchExtract PROVE HttpInv'
  <2>1. /\ httpPc = "extract" /\ httpPc' = "done" /\ httpOut' \in {"source", "threw"}
        /\ httpStore' \in {httpStore, httpStore \cup {"text"}} /\ (httpOut' = "source" => httpStore' = httpStore \cup {"text"})
        /\ UNCHANGED <<httpReq, httpHop, httpLeft, httpAttempt, httpDelays, httpWire>>
    BY <1>3 DEF FetchExtract, End
  <2>2. "raw" \in httpStore /\ httpStore \subseteq {"raw", "text"}
    BY <2>1 DEF HttpInv, HttpType, HttpProgress
  <2>3. HttpType'
    BY <2>1, <2>2 DEF HttpInv, HttpType
  <2>4. HttpProgress'
    BY <2>1 DEF HttpInv, HttpProgress
  <2>5. httpStore \cup {"text"} = {"raw", "text"}
    BY <2>2
  <2>6. HopCleared' /\ WireInPolicy' /\ CredentialStaysHome' /\ SourceHasBoth'
    BY <2>1, <2>5 DEF HttpInv, HopCleared, WireInPolicy, CredentialStaysHome, SourceHasBoth
  <2> QED BY <2>3, <2>4, <2>6 DEF HttpInv
<1> QED BY <1>1, <1>2, <1>3

LEMMA HttpInvInit == HttpInit => HttpInv
<1> SUFFICES ASSUME HttpInit PROVE HttpInv
  OBVIOUS
<1>1. httpWire.count = 0 /\ httpWire.cred = FALSE /\ httpDelays \in Seq(Delay)
  BY DEF HttpInit, NoWire
<1>2. HttpType
  <2>1. PICK no \in BOOLEAN : no = FALSE
    OBVIOUS
  <2>2. NoWire = [host |-> "none", cred |-> no, count |-> 0] /\ NoHop = [host |-> "none", redirects |-> 0, cred |-> no]
    BY <2>1, Zenon DEF NoWire, NoHop
  <2>3. NoWire \in [host : Host \cup {"none"}, cred : BOOLEAN, count : Nat]
        /\ NoHop \in [host : Host \cup {"none"}, redirects : Nat, cred : BOOLEAN]
    BY <2>2
  <2>4. MaxFetches \in Nat /\ 0 <= MaxFetches
    BY HttpAssumption
  <2> QED BY <1>1, <2>3, <2>4 DEF HttpInit, HttpType
<1>3. HttpProgress
  BY <1>1, ChunkNat DEF HttpInit, HttpProgress
<1>4. HopCleared /\ WireInPolicy /\ CredentialStaysHome /\ SourceHasBoth
  BY <1>1 DEF HttpInit, HopCleared, WireInPolicy, CredentialStaysHome, SourceHasBoth
<1> QED BY <1>2, <1>3, <1>4 DEF HttpInv

LEMMA HttpInvStep == HttpInv /\ [HttpNext]_httpVars => HttpInv'
<1> SUFFICES ASSUME HttpInv, [HttpNext]_httpVars PROVE HttpInv'
  OBVIOUS
<1>1. CASE UNCHANGED httpVars
  BY <1>1 DEF httpVars, HttpInv, HttpType, HttpProgress, HopCleared, evaluateNetwork, WireInPolicy,
              CredentialStaysHome, SourceHasBoth
<1>2. CASE HttpNext
  BY <1>2, FetchSourceKeeps, HttpBeginKeeps, HttpSendKeeps, HttpRedirectKeeps, HttpEndKeeps DEF HttpNext
<1> QED BY <1>1, <1>2

\* For every policy, every number of hops and attempts and every answer of the
\* servers, fetchSource puts a request only where the policy permits, sends a
\* known credential to no other host, stays within its bounds and returns a
\* source only with both of its artifacts.
THEOREM FetchInPolicyHolds == HttpSpec => []FetchInPolicy
<1>1. HttpInv => FetchInPolicy
  <2> SUFFICES ASSUME HttpInv PROVE FetchBounded
    BY DEF HttpInv, FetchInPolicy
  <2>1. httpAttempt \in Nat /\ httpAttempt <= MaxFetches /\ httpDelays \in Seq(Delay)
        /\ (httpAttempt >= 1 => Len(httpDelays) = httpAttempt - 1) /\ (httpAttempt = 0 => Len(httpDelays) = 0)
    BY DEF HttpInv, HttpType, HttpProgress
  <2>2. Len(httpDelays) < MaxFetches
    BY <2>1, HttpAssumption
  <2>3. \A k \in DOMAIN httpDelays : httpDelays[k] \in Delay
    BY <2>1, ElementOfSeq
  <2> QED BY <2>2, <2>3, DelayBounded DEF HttpInv, HttpProgress, FetchBounded, Chunk
<1> QED BY <1>1, HttpInvInit, HttpInvStep, PTL DEF HttpSpec

-----------------------------------------------------------------------------
(* WorkOrders.                                                              *)

\* The last report of the verify handler says passed.
ChecksPassed == woVerification # WoNone /\ woVerification.passed

WoType ==
    /\ woDone \in Nat /\ woFile \in Nat /\ woTouched \in Nat /\ woLost \in BOOLEAN
    /\ woSince \in Nat /\ woSince <= woTouched
    /\ woStatus \in {"idle", "running", "completed", "failed", "yielded", "threw"}

\* The run is somewhere in the chain of its plan.
Place ==
    /\ woStatus = "idle" => woDone = 0 /\ woEvidence = WoNone /\ woPatching = NoPlanYet
    /\ woStatus # "idle" => woPlan \in WoPlan
    /\ woStatus = "running" => woDone < Len(woPlan.kinds)
    /\ woStatus = "completed" => woDone = Len(woPlan.kinds)

\* While nothing happened that validation cannot see, a file that is missing was
\* missing in the evidence too.
EvidenceShows == woEvidence # WoNone /\ ~woLost /\ woFile = 0 => woEvidence.saw = 0

\* A patch plan that is about to be applied comes from the evidence, and fits the
\* file unless something happened since it was validated.
PlanFits ==
    woPatching # NoPlanYet =>
        /\ woStatus \in {"running"} => woPlan.kinds[woDone + 1] = "patch"
        /\ woEvidence # WoNone /\ woPatching.hash = woEvidence.saw
        /\ ~woLost /\ woFile # 0 => woPatching.hash = woFile
        /\ woSince = woTouched /\ woFile # 0 => woPatching.hash = woFile

\* What the nodes that are done say of the handlers' state.
ChainChecked ==
    woStatus \in {"running", "completed"} =>
        \A i \in 1..woDone :
            /\ woPlan.kinds[i] \in {"verify", "review"} => woArtifact # WoNone /\ woVerification # WoNone
            /\ woPlan.kinds[i] = "verify" =>
                 \A j \in 1..woDone :
                    /\ i < j /\ woPlan.kinds[j] = "repair"
                    /\ \A k \in 1..woDone : k > j => woPlan.kinds[k] # "verify"
                    => ChecksPassed

WoInv ==
    /\ WoType /\ Place /\ EvidenceShows /\ PlanFits /\ ChainChecked
    /\ PatchLandsOnEvidence /\ AppliedWasWritten

\* The records of the handlers are no missing values.
LEMMA NotNone ==
  /\ \A v : [saw |-> v] # WoNone
  /\ \A v : [apply_status |-> v] # WoNone
  /\ \A v : [passed |-> v] # WoNone
  /\ \A v, w, x : [onto |-> v, saw |-> w, late |-> x] # WoNone
<1>1. DOMAIN WoNone = {"none"}
  BY DEF WoNone
<1>2. \A v : DOMAIN [saw |-> v] = {"saw"}
  OBVIOUS
<1>3. \A v : DOMAIN [apply_status |-> v] = {"apply_status"}
  OBVIOUS
<1>4. \A v : DOMAIN [passed |-> v] = {"passed"}
  OBVIOUS
<1>5. \A v, w, x : DOMAIN [onto |-> v, saw |-> w, late |-> x] = {"onto", "saw", "late"}
  OBVIOUS
<1>6. /\ {"none"} # {"saw"} /\ {"none"} # {"apply_status"} /\ {"none"} # {"passed"}
      /\ {"none"} # {"onto", "saw", "late"}
  OBVIOUS
<1> QED BY <1>1, <1>2, <1>3, <1>4, <1>5, <1>6, Zenon

\* Every write makes contents that are not missing.
LEMMA FreshIsContents ==
  ASSUME WoType
  PROVE  Fresh \in Nat /\ Fresh # 0
BY DEF WoType, Fresh

\* A node that is marked: where the run is then, and what the nodes done say, given
\* what its handler did.
LEMMA MarkedNode ==
  ASSUME WoInv, woStatus = "running", NEW status, markNode(status), woPlan' = woPlan,
         woPatching' = NoPlanYet \/ woPatching' = woPatching,
         woArtifact # WoNone => woArtifact' # WoNone,
         woVerification # WoNone => woVerification' # WoNone,
         woPlan.kinds[woDone + 1] = "verify" \/ woVerification' = woVerification,
         /\ woPlan.kinds[woDone + 1] \in {"verify", "review"} /\ status \notin {"failed", "yielded"}
         => woArtifact' # WoNone /\ woVerification' # WoNone,
         /\ woPlan.kinds[woDone + 1] = "repair" /\ status \notin {"failed", "yielded"}
         /\ woArtifact # WoNone /\ woVerification # WoNone
         => ChecksPassed
  PROVE  ChainChecked' /\ Place' /\ woDone' \in Nat /\ woStatus' \in {"running", "completed", "failed", "yielded"}
<1> DEFINE kinds == woPlan.kinds
<1>1. /\ woDone \in Nat /\ woPlan \in WoPlan /\ woDone < Len(kinds)
  BY DEF WoInv, WoType, Place
<1>2. kinds \in Seq(WoKind) /\ Len(kinds) \in Nat
  BY <1>1, WorkOrderAssumption, LenProperties
<1>3. woDone' = woDone + 1 /\ woDone' \in Nat
  BY <1>1 DEF markNode
<1>4. \/ status \in {"failed", "yielded"} /\ woStatus' = status
      \/ /\ status \notin {"failed", "yielded"}
         /\ \/ woDone + 1 = Len(kinds) /\ woStatus' = "completed"
            \/ woDone + 1 # Len(kinds) /\ woStatus' = "running"
  BY DEF markNode
<1> HIDE DEF kinds
<1>5. Place'
  <2>1. woStatus' = "running" => woDone' < Len(kinds)
    BY <1>1, <1>2, <1>3, <1>4
  <2>2. woStatus' = "completed" => woDone' = Len(kinds)
    BY <1>3, <1>4
  <2>3. woStatus' # "idle"
    BY <1>4
  <2> QED BY <1>1, <2>1, <2>2, <2>3 DEF Place, kinds
<1>6. ASSUME woStatus' \in {"running", "completed"}
      PROVE  status \notin {"failed", "yielded"}
  BY <1>4, <1>6
<1>7. /\ \A i \in 1..woDone : kinds[i] \in {"verify", "review"} => woArtifact # WoNone /\ woVerification # WoNone
      /\ \A i, j \in 1..woDone :
            /\ kinds[i] = "verify" /\ i < j /\ kinds[j] = "repair"
            /\ \A k \in 1..woDone : k > j => kinds[k] # "verify"
            => ChecksPassed
  BY DEF WoInv, ChainChecked, kinds
<1>8. \A i \in 1..(woDone + 1) : i \in 1..woDone \/ i = woDone + 1
  BY <1>1
<1>9. woDone + 1 \in 1..(woDone + 1) /\ \A i \in 1..woDone : i < woDone + 1 /\ i \in 1..(woDone + 1)
  BY <1>1
<1>10. ASSUME woStatus' \in {"running", "completed"}, NEW i \in 1..(woDone + 1), kinds[i] \in {"verify", "review"}
       PROVE  woArtifact' # WoNone /\ woVerification' # WoNone
  <2>1. CASE i \in 1..woDone
    BY <2>1, <1>7, <1>10
  <2>2. CASE i = woDone + 1
    BY <2>2, <1>6, <1>10 DEF kinds
  <2> QED BY <2>1, <2>2, <1>8
<1>11. ASSUME woStatus' \in {"running", "completed"}, NEW i \in 1..(woDone + 1), NEW j \in 1..(woDone + 1),
              kinds[i] = "verify", i < j, kinds[j] = "repair",
              \A k \in 1..(woDone + 1) : k > j => kinds[k] # "verify"
       PROVE  ChecksPassed'
  <2>1. i \in 1..woDone
    BY <1>8, <1>11, <1>1
  <2>2. woArtifact # WoNone /\ woVerification # WoNone
    BY <2>1, <1>7, <1>11
  <2>3. CASE j = woDone + 1
    <3>1. ChecksPassed /\ woVerification' = woVerification
      BY <2>2, <2>3, <1>6, <1>11 DEF kinds
    <3> QED BY <3>1, Zenon DEF ChecksPassed
  <2>4. CASE j \in 1..woDone
    <3>1. woDone + 1 > j /\ kinds[woDone + 1] # "verify"
      BY <2>4, <1>1, <1>9, <1>11
    <3>2. \A k \in 1..woDone : k > j => kinds[k] # "verify"
      BY <1>9, <1>11
    <3>3. ChecksPassed
      BY <2>1, <2>4, <3>2, <1>7, <1>11
    <3>4. woVerification' = woVerification
      BY <3>1 DEF kinds
    <3> QED BY <3>3, <3>4, Zenon DEF ChecksPassed
  <2> QED BY <2>3, <2>4, <1>8
<1>12. ChainChecked'
  BY <1>3, <1>10, <1>11 DEF ChainChecked, kinds
<1> QED BY <1>3, <1>4, <1>5, <1>12

\* A handler that rejects leaves the chain where it is.
LEMMA ThrewKeeps ==
  ASSUME WoInv, woStatus = "running", woStatus' = "threw", woDone' = woDone, woPlan' = woPlan
  PROVE  Place' /\ ChainChecked' /\ woDone' \in Nat
BY DEF WoInv, WoType, Place, ChainChecked

\* A step that leaves the file, its histories, the evidence and the patch plan alone.
LEMMA FileKept ==
  ASSUME WoInv, UNCHANGED <<woFile, woTouched, woLost, woEvidence, woLanded, woPatching>>,
         woSince' \in {woSince, woTouched},
         woPatching = NoPlanYet, woArtifact' = woArtifact,
         woDone' \in Nat, woStatus' \in {"running", "completed", "failed", "yielded", "threw"},
         Place', ChainChecked'
  PROVE  WoInv'
BY DEF WoInv, WoType, EvidenceShows, PlanFits, PatchLandsOnEvidence, AppliedWasWritten

LEMMA WoStep ==
  ASSUME WoInv, [WoNext]_woVars
  PROVE  WoInv'
<1>1. ASSUME NEW plan \in WoPlan, NEW file \in 0..1, NEW full \in BOOLEAN, BeginPlan(plan, file, full)
      PROVE  WoInv'
  <2>1. /\ woStatus = "idle" /\ woStatus' = "running" /\ woPlan' = plan /\ woFile' = file
        /\ woDone' = woDone /\ woPatching' = woPatching /\ woEvidence' = woEvidence /\ woArtifact' = woArtifact
        /\ woLanded' = woLanded /\ woLost' = woLost /\ woTouched' = woTouched
        /\ woSince' = woSince
    BY <1>1 DEF BeginPlan
  <2>2. woDone = 0 /\ woEvidence = WoNone /\ woPatching = NoPlanYet
    BY <2>1 DEF WoInv, Place
  <2>3. plan.kinds \in Seq(WoKind) /\ plan.kinds # <<>> /\ Len(plan.kinds) \in Nat /\ Len(plan.kinds) # 0
    BY <1>1, WorkOrderAssumption, LenProperties, EmptySeq
  <2>4. Place'
    BY <2>1, <2>2, <2>3, <1>1 DEF Place
  <2>5. ChainChecked'
    BY <2>1, <2>2 DEF ChainChecked
  <2>6. file \in Nat
    BY <1>1
  <2> QED BY <2>1, <2>2, <2>4, <2>5, <2>6
        DEF WoInv, WoType, EvidenceShows, PlanFits, PatchLandsOnEvidence, AppliedWasWritten
<1>2. CASE Structural
  <2>1. PICK k \in {"frame", "design", "approval", "finalize"} :
           Ready(k) /\ markNode(IF k = "approval" THEN "skipped" ELSE "completed")
    BY <1>2 DEF Structural
  <2>2. /\ woStatus = "running" /\ woPatching = NoPlanYet /\ woPlan.kinds[woDone + 1] = k
        /\ woPlan' = woPlan /\ UNCHANGED <<woFile, woTouched, woSince, woLost, woEvidence, woLanded, woPatching>>
        /\ woArtifact' = woArtifact /\ woVerification' = woVerification
    BY <1>2, <2>1 DEF Structural, Ready, worktree, history, handlers
  <2>3. PICK status : status = IF k = "approval" THEN "skipped" ELSE "completed"
    OBVIOUS
  <2>4. ChainChecked' /\ Place' /\ woDone' \in Nat /\ woStatus' \in {"running", "completed", "failed", "yielded"}
    BY <2>1, <2>2, <2>3, MarkedNode
  <2> QED BY <2>2, <2>4, FileKept
<1>3. ASSUME NEW seen \in BOOLEAN, Inspect(seen)
      PROVE  WoInv'
  <2>1. /\ woStatus = "running" /\ woPatching = NoPlanYet /\ woPlan.kinds[woDone + 1] = "inspect"
        /\ markNode("completed") /\ woPlan' = woPlan /\ woPatching' = woPatching /\ woLanded' = woLanded
        /\ woFile' = woFile /\ woTouched' = woTouched /\ woLost' = woLost /\ woSince' = woSince
        /\ woArtifact' = woArtifact /\ woVerification' = woVerification
        /\ woEvidence' = [saw |-> IF seen THEN woFile ELSE 0]
    BY <1>3 DEF Inspect, Ready, worktree, history
  <2>2. ChainChecked' /\ Place' /\ woDone' \in Nat /\ woStatus' \in {"running", "completed", "failed", "yielded"}
    BY <2>1, MarkedNode
  <2>3. EvidenceShows'
    BY <2>1 DEF EvidenceShows
  <2> QED BY <2>1, <2>2, <2>3 DEF WoInv, WoType, PlanFits, PatchLandsOnEvidence, AppliedWasWritten
<1>4. CASE InspectThrows \/ VerifyThrows
  <2>1. /\ woStatus = "running" /\ woPatching = NoPlanYet /\ woStatus' = "threw" /\ woDone' = woDone
        /\ woPlan' = woPlan /\ UNCHANGED <<woFile, woTouched, woSince, woLost, woEvidence, woLanded, woPatching>>
        /\ woArtifact' = woArtifact
    BY <1>4 DEF InspectThrows, VerifyThrows, Threw, Ready, worktree, history, handlers
  <2>2. Place' /\ ChainChecked' /\ woDone' \in Nat
    BY <2>1, ThrewKeeps
  <2> QED BY <2>1, <2>2, FileKept
<1>5. CASE Patch
  <2>1. /\ woStatus = "running" /\ woPatching = NoPlanYet /\ woPlan.kinds[woDone + 1] = "patch"
        /\ woPlan' = woPlan /\ UNCHANGED <<woFile, woTouched, woLost, woEvidence, woLanded>>
        /\ woArtifact' = woArtifact /\ woVerification' = woVerification /\ woSince' = woTouched
    BY <1>5 DEF Patch, Ready, worktree, history, handlers
  <2>2. \/ markNode("failed") /\ woPatching' = woPatching
        \/ woStatus' = "threw" /\ woDone' = woDone /\ woPatching' = woPatching
        \/ /\ woEvidence # WoNone /\ validateRepositoryPatchPlan(createPatchPlan)
           /\ woPatching' = createPatchPlan /\ woDone' = woDone /\ woStatus' = woStatus
    BY <1>5, Zenon DEF Patch, Threw
  <2>3. CASE markNode("failed") /\ woPatching' = woPatching
    <3>1. ChainChecked' /\ Place' /\ woDone' \in Nat /\ woStatus' \in {"running", "completed", "failed", "yielded"}
      BY <2>1, <2>3, MarkedNode
    <3> QED BY <2>1, <2>3, <3>1, FileKept
  <2>4. CASE woStatus' = "threw" /\ woDone' = woDone /\ woPatching' = woPatching
    <3>1. Place' /\ ChainChecked' /\ woDone' \in Nat
      BY <2>1, <2>4, ThrewKeeps
    <3> QED BY <2>1, <2>4, <3>1, FileKept
  <2>5. CASE /\ woEvidence # WoNone /\ validateRepositoryPatchPlan(createPatchPlan)
             /\ woPatching' = createPatchPlan /\ woDone' = woDone /\ woStatus' = woStatus
    <3>1. createPatchPlan.hash = woEvidence.saw
      BY DEF createPatchPlan, jsonOutputPatchPlan, deterministicRepositoryPatchPlan
    <3>2. woFile # 0 => createPatchPlan.hash = woFile
      BY <2>5 DEF validateRepositoryPatchPlan
    <3>3. PlanFits'
      BY <2>1, <2>5, <3>1, <3>2 DEF PlanFits
    <3>4. Place' /\ ChainChecked'
      BY <2>1, <2>5, Zenon DEF WoInv, Place, ChainChecked, ChecksPassed
    <3> QED BY <2>1, <2>5, <3>3, <3>4
          DEF WoInv, WoType, EvidenceShows, PatchLandsOnEvidence, AppliedWasWritten
  <2> QED BY <2>2, <2>3, <2>4, <2>5
<1>6. CASE ApplyPatch
  <2>1. /\ woStatus = "running" /\ woPatching # NoPlanYet /\ woPatching' = NoPlanYet
        /\ woPlan' = woPlan /\ woTouched' = woTouched /\ woSince' = woSince /\ woEvidence' = woEvidence
        /\ woVerification' = woVerification
        /\ \/ woArtifact' = [apply_status |-> "applied"] /\ markNode("completed")
           \/ woStatus' = "threw" /\ woDone' = woDone /\ woArtifact' = woArtifact
    BY <1>6 DEF ApplyPatch, Threw
  <2>2. woPlan.kinds[woDone + 1] = "patch"
    BY <2>1 DEF WoInv, PlanFits
  <2>3. /\ ChainChecked' /\ Place' /\ woDone' \in Nat
        /\ woStatus' \in {"running", "completed", "failed", "yielded", "threw"}
    <3>1. CASE woArtifact' = [apply_status |-> "applied"] /\ markNode("completed")
      <4>1. woArtifact' # WoNone
        BY <3>1, NotNone
      <4> QED BY <2>1, <2>2, <3>1, <4>1, MarkedNode
    <3>2. CASE woStatus' = "threw" /\ woDone' = woDone /\ woArtifact' = woArtifact
      BY <2>1, <3>2, ThrewKeeps
    <3> QED BY <2>1, <3>1, <3>2
  <2>4. PlanFits'
    BY <2>1 DEF PlanFits
  <2>5. \/ /\ staleForApply(woPatching) \/ tooLarge(woPatching)
           /\ woLost' = (woLost \/ tooLarge(woPatching)) /\ woFile' = woFile /\ woLanded' = woLanded
        \/ /\ ~staleForApply(woPatching) /\ woFile' = Fresh
           /\ woLanded' = [onto |-> woFile, saw |-> woPatching.hash, late |-> woTouched # woSince] /\ woLost' = woLost
    BY <1>6 DEF ApplyPatch
  <2>6. CASE /\ staleForApply(woPatching) \/ tooLarge(woPatching)
             /\ woLost' = (woLost \/ tooLarge(woPatching)) /\ woFile' = woFile /\ woLanded' = woLanded
    <3>1. woLost' \in BOOLEAN /\ (~woLost' => ~woLost /\ ~tooLarge(woPatching))
      BY <2>6, Zenon
    <3>2. ~woLost => ~staleForApply(woPatching)
      <4> SUFFICES ASSUME ~woLost, woPatching.hash # 0, woPatching.hash # woFile
                   PROVE  FALSE
        BY DEF staleForApply
      <4>1. woEvidence # WoNone /\ woPatching.hash = woEvidence.saw /\ (woFile # 0 => woPatching.hash = woFile)
        BY <2>1 DEF WoInv, PlanFits
      <4>2. woFile = 0 => woEvidence.saw = 0
        BY <4>1 DEF WoInv, EvidenceShows
      <4> QED BY <4>1, <4>2
    <3>3. woLost'
      BY <3>1, <3>2, <2>6, Zenon
    <3>4. EvidenceShows' /\ PatchLandsOnEvidence' /\ AppliedWasWritten'
      BY <3>3, <2>6 DEF WoInv, EvidenceShows, PatchLandsOnEvidence, AppliedWasWritten
    <3> QED BY <2>1, <2>3, <2>4, <2>6, <3>1, <3>4 DEF WoInv, WoType
  <2>7. CASE /\ ~staleForApply(woPatching) /\ woFile' = Fresh
             /\ woLanded' = [onto |-> woFile, saw |-> woPatching.hash, late |-> woTouched # woSince] /\ woLost' = woLost
    <3>1. woFile' \in Nat /\ woFile' # 0
      BY <2>7, FreshIsContents DEF WoInv
    <3>2. /\ woLanded' # WoNone /\ woLanded'.onto = woFile /\ woLanded'.saw = woPatching.hash
          /\ woTouched # woSince => woLanded'.late
      BY <2>7, NotNone
    <3>3. /\ woPatching.hash # 0 => woPatching.hash = woFile
          /\ woTouched = woSince /\ woFile # 0 => woPatching.hash = woFile
      BY <2>1, <2>7 DEF staleForApply, WoInv, PlanFits
    <3>4. EvidenceShows' /\ PatchLandsOnEvidence' /\ AppliedWasWritten'
      BY <3>1, <3>2, <3>3 DEF EvidenceShows, PatchLandsOnEvidence, AppliedWasWritten
    <3> QED BY <2>1, <2>3, <2>4, <2>7, <3>1, <3>4 DEF WoInv, WoType
  <2> QED BY <2>5, <2>6, <2>7
<1>7. ASSUME NEW codes, Verify(codes)
      PROVE  WoInv'
  <2>1. /\ woStatus = "running" /\ woPatching = NoPlanYet /\ woPlan.kinds[woDone + 1] = "verify"
        /\ woPlan' = woPlan /\ UNCHANGED <<woFile, woTouched, woSince, woLost, woEvidence, woLanded, woPatching>>
        /\ woArtifact' = woArtifact
    BY <1>7 DEF Verify, Ready, worktree, history
  <2>2. \/ markNode("failed") /\ woVerification' = woVerification
        \/ /\ woArtifact # WoNone /\ markNode("completed")
           /\ woVerification' = [passed |-> \A i \in DOMAIN codes : codes[i] = 0]
    BY <1>7, Zenon DEF Verify
  <2>3. CASE markNode("failed") /\ woVerification' = woVerification
    <3>1. ChainChecked' /\ Place' /\ woDone' \in Nat /\ woStatus' \in {"running", "completed", "failed", "yielded"}
      BY <2>1, <2>3, MarkedNode
    <3> QED BY <2>1, <3>1, FileKept
  <2>4. CASE /\ woArtifact # WoNone /\ markNode("completed")
             /\ woVerification' = [passed |-> \A i \in DOMAIN codes : codes[i] = 0]
    <3>1. woVerification' # WoNone
      BY <2>4, NotNone, Zenon
    <3>2. woArtifact # WoNone /\ markNode("completed")
      BY <2>4
    <3>3. ChainChecked' /\ Place' /\ woDone' \in Nat /\ woStatus' \in {"running", "completed", "failed", "yielded"}
      BY <2>1, <3>1, <3>2, MarkedNode
    <3> QED BY <2>1, <3>3, FileKept
  <2> QED BY <2>2, <2>3, <2>4
<1>8. CASE Repair \/ Review
  <2>1. /\ woStatus = "running" /\ woPatching = NoPlanYet /\ woPlan.kinds[woDone + 1] \in {"repair", "review"}
        /\ woPlan' = woPlan /\ UNCHANGED <<woFile, woTouched, woSince, woLost, woEvidence, woLanded, woPatching>>
        /\ woArtifact' = woArtifact /\ woVerification' = woVerification
    BY <1>8 DEF Repair, Review, Ready, worktree, history, handlers
  <2>2. \/ /\ markNode("skipped") /\ woPlan.kinds[woDone + 1] = "repair"
           /\ woArtifact # WoNone /\ woVerification # WoNone => ChecksPassed
        \/ markNode("yielded") \/ markNode("failed") \/ Threw
        \/ /\ markNode("completed") /\ woPlan.kinds[woDone + 1] = "review"
           /\ woArtifact # WoNone /\ woVerification # WoNone
    BY <1>8, Zenon DEF Repair, Review, Ready, ChecksPassed
  <2>3. /\ ChainChecked' /\ Place' /\ woDone' \in Nat
        /\ woStatus' \in {"running", "completed", "failed", "yielded", "threw"}
    <3>1. CASE /\ markNode("skipped") /\ woPlan.kinds[woDone + 1] = "repair"
               /\ woArtifact # WoNone /\ woVerification # WoNone => ChecksPassed
      BY <2>1, <3>1, MarkedNode
    <3>2. CASE markNode("yielded")
      BY <2>1, <3>2, MarkedNode
    <3>3. CASE markNode("failed")
      BY <2>1, <3>3, MarkedNode
    <3>4. CASE /\ markNode("completed") /\ woPlan.kinds[woDone + 1] = "review"
               /\ woArtifact # WoNone /\ woVerification # WoNone
      BY <2>1, <3>4, MarkedNode
    <3>5. CASE Threw
      BY <2>1, <3>5, ThrewKeeps DEF Threw
    <3> QED BY <2>2, <3>1, <3>2, <3>3, <3>4, <3>5
  <2> QED BY <2>1, <2>3, FileKept
<1>9. ASSUME NEW gone \in BOOLEAN, EditFileMeanwhile(gone)
      PROVE  WoInv'
  <2>1. /\ woStatus = "running" /\ woTouched' = woTouched + 1
        /\ woLost' = (woLost \/ gone \/ woPatching # NoPlanYet)
        /\ woPlan' = woPlan /\ woDone' = woDone /\ woStatus' = woStatus /\ woPatching' = woPatching
        /\ woEvidence' = woEvidence /\ woArtifact' = woArtifact /\ woVerification' = woVerification
        /\ woLanded' = woLanded /\ woSince' = woSince
    BY <1>9 DEF EditFileMeanwhile, handlers
  <2>2. woLost' \in BOOLEAN /\ (~woLost' => ~woLost /\ ~gone /\ woPatching = NoPlanYet)
    BY <2>1, Zenon
  <2>3. woFile' \in Nat /\ (~gone => woFile' # 0) /\ woTouched' \in Nat
    <3>1. Fresh \in Nat /\ Fresh # 0 /\ woTouched \in Nat
      BY FreshIsContents DEF WoInv, WoType
    <3>2. woFile' = IF gone THEN 0 ELSE Fresh
      BY <1>9 DEF EditFileMeanwhile
    <3> QED BY <2>1, <3>1, <3>2
  <2>4. Place' /\ ChainChecked'
    BY <2>1, Zenon DEF WoInv, Place, ChainChecked, ChecksPassed
  <2>6. woSince' <= woTouched' /\ woSince' # woTouched'
    BY <2>1 DEF WoInv, WoType
  <2>5. EvidenceShows' /\ PlanFits' /\ PatchLandsOnEvidence' /\ AppliedWasWritten'
    BY <2>1, <2>2, <2>3, <2>6 DEF WoInv, EvidenceShows, PlanFits, PatchLandsOnEvidence, AppliedWasWritten
  <2> QED BY <2>1, <2>2, <2>3, <2>4, <2>5, <2>6 DEF WoInv, WoType
<1>10. CASE UNCHANGED woVars
  <2>1. /\ woPlan' = woPlan /\ woDone' = woDone /\ woStatus' = woStatus /\ woPatching' = woPatching
        /\ woFile' = woFile /\ woEvidence' = woEvidence /\ woArtifact' = woArtifact
        /\ woVerification' = woVerification /\ woLanded' = woLanded /\ woLost' = woLost /\ woTouched' = woTouched
        /\ woSince' = woSince
    BY <1>10 DEF woVars
  <2>2. ChainChecked'
    BY <2>1, Zenon DEF WoInv, ChainChecked, ChecksPassed
  <2> QED BY <2>1, <2>2
        DEF WoInv, WoType, Place, EvidenceShows, PlanFits, PatchLandsOnEvidence, AppliedWasWritten
<1> QED BY <1>1, <1>2, <1>3, <1>4, <1>5, <1>6, <1>7, <1>8, <1>9, <1>10 DEF WoNext

\* What the chain says of a completed plan.
LEMMA WoChecked ==
  ASSUME WoInv
  PROVE  CompletedWasChecked
<1> SUFFICES ASSUME woStatus = "completed"
             PROVE  /\ "review" \in Range(woPlan.kinds) => woArtifact # WoNone /\ woVerification # WoNone
                    /\ (\E i, j \in DOMAIN woPlan.kinds :
                            /\ i < j /\ woPlan.kinds[i] = "verify" /\ woPlan.kinds[j] = "repair"
                            /\ \A k \in DOMAIN woPlan.kinds : k > j => woPlan.kinds[k] # "verify")
                          => woVerification # WoNone /\ woVerification.passed
  BY DEF CompletedWasChecked
<1>1. woPlan \in WoPlan /\ woDone = Len(woPlan.kinds)
  BY DEF WoInv, Place
<1>2. DOMAIN woPlan.kinds = 1..woDone
  BY <1>1, WorkOrderAssumption, LenProperties
<1>3. \A i \in 1..woDone :
        /\ woPlan.kinds[i] \in {"verify", "review"} => woArtifact # WoNone /\ woVerification # WoNone
        /\ woPlan.kinds[i] = "verify" =>
             \A j \in 1..woDone :
                /\ i < j /\ woPlan.kinds[j] = "repair"
                /\ \A k \in 1..woDone : k > j => woPlan.kinds[k] # "verify"
                => ChecksPassed
  BY DEF WoInv, ChainChecked
<1>4. "review" \in Range(woPlan.kinds) => woArtifact # WoNone /\ woVerification # WoNone
  <2>1. "review" \in Range(woPlan.kinds) => \E i \in 1..woDone : woPlan.kinds[i] = "review"
    BY <1>2 DEF Range
  <2> QED BY <2>1, <1>3
<1>5. ASSUME NEW i \in DOMAIN woPlan.kinds, NEW j \in DOMAIN woPlan.kinds,
             i < j, woPlan.kinds[i] = "verify", woPlan.kinds[j] = "repair",
             \A k \in DOMAIN woPlan.kinds : k > j => woPlan.kinds[k] # "verify"
      PROVE  ChecksPassed
  BY <1>2, <1>3, <1>5
<1> QED BY <1>4, <1>5, Zenon DEF ChecksPassed

\* For every plan and any number of edits by others: a patch lands on the contents
\* its evidence shows, or creates a file and overwrites at most one that appeared
\* after the plan was validated, an artifact that says applied was written unless something
\* happened that validation cannot see, and a plan that completes with a review or a
\* repair was patched, verified and, after a repair, verified with success
\* (repository-work-order-handlers.ts under runReadyNode).
THEOREM OrdersRestOnEvidenceHolds == WoSpec => []OrdersRestOnEvidence
<1>1. WoInit => WoInv
  <2> SUFFICES ASSUME WoInit PROVE WoInv
    OBVIOUS
  <2>1. woLost \in BOOLEAN
    BY Zenon DEF WoInit
  <2>2. /\ woDone = 0 /\ woStatus = "idle" /\ woPatching = NoPlanYet /\ woFile = 1 /\ woTouched = 0 /\ woSince = 0
        /\ woEvidence = WoNone /\ woArtifact = WoNone /\ woLanded = WoNone
    BY DEF WoInit
  <2> QED BY <2>1, <2>2 DEF WoInv, WoType, Place, EvidenceShows, PlanFits, ChainChecked,
                            PatchLandsOnEvidence, AppliedWasWritten
<1>2. WoInv /\ [WoNext]_woVars => WoInv'
  BY WoStep
<1>3. WoInv => OrdersRestOnEvidence
  BY WoChecked DEF WoInv, OrdersRestOnEvidence
<1> QED BY <1>1, <1>2, <1>3, PTL DEF WoSpec

-----------------------------------------------------------------------------
(* VerificationRun.                                                         *)

VrResult == [id : VrCommand, status : {"passed", "failed", "timeout"}]

\* The record of a child that ended with 0 before its timer.
InTime(id) == [id |-> id, code |-> 0, late |-> FALSE]

VrType ==
    /\ vrPc \in {"idle", "next", "running", "reported", "crashed"}
    /\ vrTodo \in Seq(VrCommand) /\ vrAsked \in Seq(VrCommand) /\ vrResults \in Seq(VrResult)
    /\ vrReport \in {"none", "passed", "failed"}

\* The results, followed by what is left to run, are the selection.
ResultsThenTodo ==
    /\ Len(vrResults) + Len(vrTodo) = Len(vrAsked)
    /\ \A i \in 1..Len(vrResults) : vrResults[i].id = vrAsked[i]
    /\ \A i \in 1..Len(vrTodo) : vrTodo[i] = vrAsked[Len(vrResults) + i]

\* A result that says passed has its child's end, in time.
PassedHaveEnd ==
    \A i \in 1..Len(vrResults) : vrResults[i].status = "passed" => InTime(vrResults[i].id) \in vrExit

\* Where the loop is, and what the report was computed from.
VrProgress ==
    /\ vrPc = "idle" => vrResults = <<>>
    /\ vrPc = "running" => vrTodo # <<>>
    /\ vrPc = "reported" => vrTodo = <<>>
    /\ vrReport # "none" => vrPc = "reported"
    /\ vrReport = "passed" =>
          vrResults # <<>> /\ \A i \in 1..Len(vrResults) : vrResults[i].status = "passed"

VrInv == VrType /\ ResultsThenTodo /\ PassedHaveEnd /\ VrProgress

\* The selection is a list of commands of the policy.
LEMMA SelectionIsAList ==
  ASSUME NEW names
  PROVE  inPolicyOrder(names) \in Seq(VrCommand)
<1> DEFINE only(c) == IF c \in names THEN <<c>> ELSE <<>>
<1>1. \A c \in VrCommand : only(c) \in Seq(VrCommand)
  OBVIOUS
<1>2. {"typecheck", "test", "lint", "build"} \subseteq VrCommand
  BY DEF VrCommand
<1> HIDE DEF only
<1>3. only("typecheck") \o only("test") \in Seq(VrCommand)
  BY <1>1, <1>2, ConcatProperties
<1>4. (only("typecheck") \o only("test")) \o only("lint") \in Seq(VrCommand)
  BY <1>1, <1>2, <1>3, ConcatProperties
<1>5. ((only("typecheck") \o only("test")) \o only("lint")) \o only("build") \in Seq(VrCommand)
  BY <1>1, <1>2, <1>4, ConcatProperties
<1> QED BY <1>5 DEF inPolicyOrder, only

\* A result that is added to the list, for the command at the head of what is
\* left, keeps list and selection in step.
LEMMA ResolveKeepsPace ==
  ASSUME VrInv, vrPc = "running", NEW status \in {"passed", "failed", "timeout"}, Resolve(status),
         UNCHANGED <<vrAsked, vrReport>>
  PROVE  /\ VrType' /\ ResultsThenTodo' /\ VrProgress'
         /\ Head(vrTodo) \in VrCommand
         /\ Len(vrResults') = Len(vrResults) + 1
         /\ \A i \in 1..Len(vrResults) : vrResults'[i] = vrResults[i]
         /\ vrResults'[Len(vrResults) + 1].id = Head(vrTodo)
         /\ vrResults'[Len(vrResults) + 1].status = status
<1>1. vrTodo \in Seq(VrCommand) /\ vrTodo # <<>> /\ vrResults \in Seq(VrResult) /\ vrAsked \in Seq(VrCommand)
  BY DEF VrInv, VrType, VrProgress
<1>2. /\ Head(vrTodo) \in VrCommand /\ Tail(vrTodo) \in Seq(VrCommand)
      /\ Len(Tail(vrTodo)) = Len(vrTodo) - 1 /\ Len(vrTodo) \in Nat /\ Len(vrTodo) > 0
      /\ Head(vrTodo) = vrTodo[1]
      /\ \A i \in 1..Len(Tail(vrTodo)) : Tail(vrTodo)[i] = vrTodo[i + 1]
  BY <1>1, HeadTailProperties, LenProperties, EmptySeq
<1>3. PICK r \in VrResult : r = [id |-> Head(vrTodo), status |-> status]
  BY <1>2 DEF VrResult
<1>4. r.id = Head(vrTodo) /\ r.status = status
  BY <1>3
<1>5. vrResults' = Append(vrResults, r) /\ vrTodo' = Tail(vrTodo) /\ vrPc' = "next"
  BY <1>3 DEF Resolve
<1>6. /\ vrResults' \in Seq(VrResult) /\ Len(vrResults') = Len(vrResults) + 1 /\ Len(vrResults) \in Nat
      /\ \A i \in 1..Len(vrResults) : vrResults'[i] = vrResults[i]
      /\ vrResults'[Len(vrResults) + 1] = r
  BY <1>1, <1>5, AppendProperties, LenProperties
<1>7. VrType'
  BY <1>2, <1>5, <1>6 DEF VrInv, VrType
<1>8. vrReport = "none"
  BY DEF VrInv, VrProgress
<1>9. VrProgress'
  BY <1>5, <1>8 DEF VrProgress
<1>10. /\ Len(vrResults) + Len(vrTodo) = Len(vrAsked)
       /\ \A i \in 1..Len(vrResults) : vrResults[i].id = vrAsked[i]
       /\ \A i \in 1..Len(vrTodo) : vrTodo[i] = vrAsked[Len(vrResults) + i]
  BY DEF VrInv, ResultsThenTodo
<1>11. Len(vrResults') + Len(vrTodo') = Len(vrAsked')
  BY <1>2, <1>5, <1>6, <1>10
<1>12. \A i \in 1..Len(vrResults') : vrResults'[i].id = vrAsked'[i]
  <2> TAKE i \in 1..Len(vrResults')
  <2>1. CASE i \in 1..Len(vrResults)
    BY <2>1, <1>6, <1>10
  <2>2. CASE i = Len(vrResults) + 1
    <3>1. vrTodo[1] = vrAsked[Len(vrResults) + 1]
      BY <1>2, <1>10
    <3> QED BY <2>2, <3>1, <1>2, <1>4, <1>6
  <2> QED BY <2>1, <2>2, <1>6
<1>13. \A i \in 1..Len(vrTodo') : vrTodo'[i] = vrAsked'[Len(vrResults') + i]
  <2> TAKE i \in 1..Len(vrTodo')
  <2>1. i + 1 \in 1..Len(vrTodo) /\ i \in 1..Len(Tail(vrTodo))
    BY <1>2, <1>5
  <2>2. vrTodo'[i] = vrTodo[i + 1]
    BY <2>1, <1>2, <1>5
  <2>3. vrTodo[i + 1] = vrAsked[Len(vrResults) + (i + 1)]
    BY <2>1, <1>10
  <2>4. Len(vrResults) + (i + 1) = Len(vrResults') + i
    BY <2>1, <1>6
  <2> QED BY <2>2, <2>3, <2>4
<1>14. ResultsThenTodo'
  BY <1>11, <1>12, <1>13 DEF ResultsThenTodo
<1> QED BY <1>2, <1>4, <1>6, <1>7, <1>9, <1>14

LEMMA VrStep ==
  ASSUME VrInv, [VrNext]_vrVars
  PROVE  VrInv'
<1>1. ASSUME NEW scripts, NEW asked, BeginVerification(scripts, asked)
      PROVE  VrInv'
  <2> DEFINE names == ToSet(detectVerificationPolicy(scripts)) \cap commandIds(detectVerificationPolicy(scripts), asked)
  <2>1. /\ vrPc = "idle" /\ vrPc' = "next" /\ vrTodo' = inPolicyOrder(names) /\ vrAsked' = inPolicyOrder(names)
        /\ vrResults' = vrResults /\ vrExit' = vrExit /\ vrReport' = vrReport
    BY <1>1 DEF BeginVerification
  <2> HIDE DEF names
  <2>2. PICK s \in Seq(VrCommand) : s = inPolicyOrder(names)
    BY SelectionIsAList
  <2>3. vrResults = <<>> /\ vrReport = "none" /\ Len(vrResults) = 0
    BY <2>1 DEF VrInv, VrProgress
  <2>4. VrType'
    BY <2>1, <2>2 DEF VrInv, VrType
  <2>5. ResultsThenTodo'
    BY <2>1, <2>2, <2>3, LenProperties DEF ResultsThenTodo
  <2>6. PassedHaveEnd' /\ VrProgress'
    BY <2>1, <2>3 DEF PassedHaveEnd, VrProgress
  <2> QED BY <2>4, <2>5, <2>6 DEF VrInv
<1>2. CASE Spawn \/ SpawnFails
  <2>1. /\ vrPc = "next" /\ vrTodo # <<>> /\ vrPc' \in {"running", "crashed"}
        /\ vrTodo' = vrTodo /\ vrAsked' = vrAsked /\ vrResults' = vrResults
        /\ vrExit' = vrExit /\ vrReport' = vrReport
    BY <1>2 DEF Spawn, SpawnFails
  <2> QED BY <2>1 DEF VrInv, VrType, ResultsThenTodo, PassedHaveEnd, VrProgress
<1>3. ASSUME NEW code \in {0, 1}, Close(code)
      PROVE  VrInv'
  <2> DEFINE status == IF code = 0 THEN "passed" ELSE "failed"
  <2>1. /\ vrPc = "running" /\ Resolve(status) /\ UNCHANGED <<vrAsked, vrReport>>
        /\ vrExit' = vrExit \cup {[id |-> Head(vrTodo), code |-> code, late |-> FALSE]}
    BY <1>3 DEF Close
  <2>2. status \in {"passed", "failed", "timeout"} /\ (status = "passed" => code = 0)
    BY <1>3
  <2> HIDE DEF status
  <2>3. /\ VrType' /\ ResultsThenTodo' /\ VrProgress'
        /\ Len(vrResults') = Len(vrResults) + 1
        /\ \A i \in 1..Len(vrResults) : vrResults'[i] = vrResults[i]
        /\ vrResults'[Len(vrResults) + 1].id = Head(vrTodo)
        /\ vrResults'[Len(vrResults) + 1].status = status
    BY <2>1, <2>2, ResolveKeepsPace
  <2>4. vrExit \subseteq vrExit' /\ (code = 0 => InTime(Head(vrTodo)) \in vrExit')
    BY <2>1, Zenon DEF InTime
  <2>5. vrResults \in Seq(VrResult) /\ Len(vrResults) \in Nat
    BY LenProperties DEF VrInv, VrType
  <2>6. ASSUME NEW i \in 1..Len(vrResults'), vrResults'[i].status = "passed"
        PROVE  InTime(vrResults'[i].id) \in vrExit'
    <3>1. CASE i \in 1..Len(vrResults)
      BY <3>1, <2>3, <2>4, <2>6 DEF VrInv, PassedHaveEnd
    <3>2. CASE i = Len(vrResults) + 1
      BY <3>2, <2>2, <2>3, <2>4, <2>6
    <3> QED BY <3>1, <3>2, <2>3, <2>5
  <2> QED BY <2>3, <2>6 DEF VrInv, PassedHaveEnd
<1>4. CASE Timeout
  <2>1. vrPc = "running" /\ Resolve("timeout") /\ UNCHANGED <<vrAsked, vrReport>> /\ vrExit' = vrExit
    BY <1>4 DEF Timeout
  <2>2. /\ VrType' /\ ResultsThenTodo' /\ VrProgress'
        /\ Len(vrResults') = Len(vrResults) + 1
        /\ \A i \in 1..Len(vrResults) : vrResults'[i] = vrResults[i]
        /\ vrResults'[Len(vrResults) + 1].status = "timeout"
    BY <2>1, ResolveKeepsPace
  <2>3. vrResults \in Seq(VrResult) /\ Len(vrResults) \in Nat
    BY LenProperties DEF VrInv, VrType
  <2>4. ASSUME NEW i \in 1..Len(vrResults'), vrResults'[i].status = "passed"
        PROVE  InTime(vrResults'[i].id) \in vrExit'
    <3>1. i \in 1..Len(vrResults)
      BY <2>2, <2>3, <2>4
    <3> QED BY <3>1, <2>1, <2>2, <2>4 DEF VrInv, PassedHaveEnd
  <2> QED BY <2>2, <2>4 DEF VrInv, PassedHaveEnd
<1>5. ASSUME NEW id \in vrLinger, NEW code \in {0, 1}, LateClose(id, code)
      PROVE  VrInv'
  <2>1. /\ vrPc' = vrPc /\ vrTodo' = vrTodo /\ vrAsked' = vrAsked /\ vrResults' = vrResults
        /\ vrReport' = vrReport /\ vrExit \subseteq vrExit'
    BY <1>5 DEF LateClose
  <2> QED BY <2>1 DEF VrInv, VrType, ResultsThenTodo, PassedHaveEnd, VrProgress
<1>6. CASE Report
  <2>1. /\ vrPc = "next" /\ vrTodo = <<>> /\ vrPc' = "reported"
        /\ vrTodo' = vrTodo /\ vrAsked' = vrAsked /\ vrResults' = vrResults /\ vrExit' = vrExit
        /\ vrReport' \in {"passed", "failed"}
        /\ vrReport' = "passed" =>
              vrResults # <<>> /\ \A i \in DOMAIN vrResults : vrResults[i].status = "passed"
    BY <1>6 DEF Report
  <2>2. DOMAIN vrResults = 1..Len(vrResults)
    BY LenProperties DEF VrInv, VrType
  <2>3. VrType' /\ ResultsThenTodo' /\ PassedHaveEnd'
    BY <2>1 DEF VrInv, VrType, ResultsThenTodo, PassedHaveEnd
  <2>4. VrProgress'
    BY <2>1, <2>2 DEF VrProgress
  <2> QED BY <2>3, <2>4 DEF VrInv
<1>7. CASE UNCHANGED vrVars
  BY <1>7 DEF vrVars, VrInv, VrType, ResultsThenTodo, PassedHaveEnd, VrProgress
<1> QED BY <1>1, <1>2, <1>3, <1>4, <1>5, <1>6, <1>7 DEF VrNext

LEMMA VrHonest ==
  ASSUME VrInv
  PROVE  VerificationHonest
<1>1. /\ DOMAIN vrResults = 1..Len(vrResults) /\ DOMAIN vrAsked = 1..Len(vrAsked)
      /\ Len(vrResults) \in Nat /\ Len(vrAsked) \in Nat /\ vrAsked \in Seq(VrCommand)
      /\ vrResults \in Seq(VrResult)
  BY LenProperties DEF VrInv, VrType
<1>2. /\ Len(vrResults) + Len(vrTodo) = Len(vrAsked)
      /\ \A i \in 1..Len(vrResults) : vrResults[i].id = vrAsked[i]
  BY DEF VrInv, ResultsThenTodo
<1>3. vrPc = "reported" => Len(vrResults) = Len(vrAsked)
  <2>1. vrPc = "reported" => vrTodo = <<>>
    BY DEF VrInv, VrProgress
  <2>2. Len(<<>>) = 0
    OBVIOUS
  <2>3. vrPc = "reported" => Len(vrTodo) = 0
    BY <2>1, <2>2, Zenon
  <2>4. PICK m \in Nat, n \in Nat : m = Len(vrResults) /\ n = Len(vrAsked)
    BY <1>1, Zenon
  <2>5. m + Len(vrTodo) = n
    BY <2>4, <1>2, Zenon
  <2> QED BY <2>3, <2>4, <2>5
<1>4. ReportCoversSelection
  <2> SUFFICES ASSUME vrPc = "reported"
               PROVE  [i \in DOMAIN vrResults |-> vrResults[i].id] = vrAsked
    BY DEF ReportCoversSelection
  <2>1. vrAsked = [i \in 1..Len(vrAsked) |-> vrAsked[i]]
    BY <1>1
  <2> QED BY <2>1, <1>1, <1>2, <1>3
<1>5. PassedEndedInTime
  <2> SUFFICES ASSUME vrReport = "passed"
               PROVE  /\ vrAsked # <<>>
                      /\ \A id \in ToSet(vrAsked) : [id |-> id, code |-> 0, late |-> FALSE] \in vrExit
    BY DEF PassedEndedInTime
  <2>1. /\ vrPc = "reported" /\ vrResults # <<>>
        /\ \A i \in 1..Len(vrResults) : vrResults[i].status = "passed"
    BY DEF VrInv, VrProgress
  <2>2. Len(vrAsked) # 0
    BY <2>1, <1>1, <1>3, EmptySeq
  <2>3. vrAsked # <<>>
    BY <2>2
  <2>4. ASSUME NEW id \in ToSet(vrAsked)
        PROVE  InTime(id) \in vrExit
    <3>1. PICK i \in 1..Len(vrAsked) : id = vrAsked[i]
      BY <2>4, <1>1 DEF ToSet
    <3> QED BY <3>1, <2>1, <1>2, <1>3 DEF VrInv, PassedHaveEnd
  <2>5. \A id \in ToSet(vrAsked) : [id |-> id, code |-> 0, late |-> FALSE] \in vrExit
    BY <2>4, Zenon DEF InTime
  <2> QED BY <2>3, <2>5
<1> QED BY <1>4, <1>5 DEF VerificationHonest

\* A verification report has one result per selected command in the order of the
\* policy, and says passed only if each of them ended with 0 before its timer:
\* for every package.json, every request and every order in which children that
\* were killed end (runVerificationPolicy, runCommand).
THEOREM VerificationHonestHolds == VrSpec => []VerificationHonest
<1>1. VrInit => VrInv
  <2> SUFFICES ASSUME VrInit PROVE VrInv
    OBVIOUS
  <2>1. <<>> \in Seq(VrCommand) /\ <<>> \in Seq(VrResult) /\ Len(<<>>) = 0
    OBVIOUS
  <2> QED BY <2>1 DEF VrInit, VrInv, VrType, ResultsThenTodo, PassedHaveEnd, VrProgress
<1>2. VrInv /\ [VrNext]_vrVars => VrInv'
  BY VrStep
<1>3. VrInv => VerificationHonest
  BY VrHonest
<1> QED BY <1>1, <1>2, <1>3, PTL DEF VrSpec

-----------------------------------------------------------------------------
(***************************************************************************)
(* ArtifactIndex, for any number of processes, artifacts and runs, and     *)
(* every overlap and every death in a write.  The property says what holds *)
(* at rest; the invariant says what the writes under way will make of the  *)
(* files, and who still holds what.                                        *)
(***************************************************************************)

\* The file process p writes next.
Writes(p, file) == ~Idle(p) /\ idxTodo[p][1].file = file

\* The latest run of a run index is one of its runs.
Listed(index) == index \in RunList /\ index.latest \in index.runs \cup {0}

\* What is stored, what is pending, and what a process has left to write.
IdxType ==
    /\ idxStore \subseteq idxWritten /\ idxWritten \subseteq IdxArtifact
    /\ idxKnown \subseteq IndexEntry /\ idxClash \in BOOLEAN
    /\ idxPending \in [Proc -> SUBSET IndexEntry]
    /\ DOMAIN idxTodo = Proc
    /\ \A p \in Proc :
          LET todo == idxTodo[p]
          IN  \/ Idle(p)
              \/ \E v \in SUBSET IndexEntry : todo = <<Write("artifacts", v)>>
              \/ \E v \in RunList : Listed(v) /\ todo = <<Write("runs", v), Write("pointer", v.latest)>>
              \/ \E v \in 0..RunBound : todo = <<Write("pointer", v)>>
    /\ DOMAIN idxDisk = {"artifacts", "runs", "pointer"}
    /\ idxDisk.artifacts # Torn => idxDisk.artifacts \in SUBSET IndexEntry
    /\ idxDisk.runs # Torn => Listed(idxDisk.runs)

\* Every entry that is in the index, or will be, is of a file that was written.
EntriesWritten ==
    /\ \A e \in idxKnown \cup readArtifactIndex : e.artifact \in idxWritten
    /\ \A p \in Proc : Writes(p, "artifacts") => \A e \in idxTodo[p][1].value : e.artifact \in idxWritten

\* What a process has not registered yet has its file, and no one else has it.
PendingFresh ==
    \A p \in Proc : \A e \in idxPending[p] :
        /\ e.artifact \in idxStore /\ ~e.reindexed
        /\ e \notin idxKnown \cup readArtifactIndex
        /\ \A q \in Proc : Writes(q, "artifacts") => e \notin idxTodo[q][1].value
        /\ \A q \in Proc : q # p => e \notin idxPending[q]

\* Without a clash one operation is under way at most; the files it does not write
\* are whole, and what it writes is what they should hold.
InOrder ==
    ~idxClash =>
        /\ \A p, q \in Proc : ~Idle(p) /\ ~Idle(q) => p = q
        /\ (\A p \in Proc : ~Writes(p, "artifacts")) => idxDisk.artifacts = idxKnown
        /\ (\A p \in Proc : ~Writes(p, "runs")) => idxDisk.runs # Torn
        /\ (\A p \in Proc : ~Writes(p, "runs") /\ ~Writes(p, "pointer")) =>
               idxDisk.pointer = idxDisk.runs.latest
        /\ \A p \in Proc : Writes(p, "artifacts") => idxTodo[p][1].value = idxKnown
        /\ \A p \in Proc : Writes(p, "pointer") => idxTodo[p][1].value = idxDisk.runs.latest
        /\ \A e \in idxKnown : e.artifact \in idxStore \/ e.reindexed

\* The inductive invariant.
IdxInv == IdxType /\ EntriesWritten /\ PendingFresh /\ InOrder /\ PruneSpares

-----------------------------------------------------------------------------

\* The empty index and the empty files satisfy the invariant.
LEMMA InitInv == IdxInit => IdxInv
<1> SUFFICES ASSUME IdxInit PROVE IdxInv
  OBVIOUS
<1> USE IndexAssumption, TornAssumption DEF IdxInit, NoRuns
<1>1. idxDisk.artifacts # Torn /\ idxDisk.artifacts = {} /\ Listed(idxDisk.runs) /\ idxDisk.runs # Torn
  BY DEF RunList, Runs, Listed, IndexEntry
<1>2. IdxType
  BY <1>1 DEF IdxType, Idle
<1>3. EntriesWritten
  BY DEF EntriesWritten, readArtifactIndex, Idle, Writes
<1>4. PendingFresh
  BY DEF PendingFresh
<1>5. InOrder
  BY <1>1 DEF InOrder, Writes, Idle
<1>6. PruneSpares
  BY DEF PruneSpares
<1> QED BY <1>2, <1>3, <1>4, <1>5, <1>6 DEF IdxInv

\* recordArtifact keeps the invariant: the new file is nobody's entry yet.
LEMMA Record ==
  ASSUME IdxInv, NEW p \in Proc, NEW a \in IdxArtifact, RecordArtifact(p, a)
  PROVE IdxInv'
<1> USE DEF RecordArtifact
<1>0. Entry(a, FALSE) \in IndexEntry
  BY DEF Entry, IndexEntry
<1>1. IdxType'
  BY <1>0 DEF IdxInv, IdxType, Idle
<1>2. EntriesWritten'
  BY DEF IdxInv, IdxType, EntriesWritten, readArtifactIndex, Writes, Idle
<1>3. PendingFresh'
  <2> SUFFICES ASSUME NEW q \in Proc, NEW e \in idxPending'[q]
               PROVE /\ e.artifact \in idxStore' /\ ~e.reindexed
                     /\ e \notin idxKnown' \cup readArtifactIndex'
                     /\ (\A r \in Proc : Writes(r, "artifacts") => e \notin idxTodo[r][1].value)'
                     /\ \A r \in Proc : r # q => e \notin idxPending'[r]
    BY DEF PendingFresh
  <2>1. CASE e \in idxPending[q]
    BY <2>1 DEF IdxInv, IdxType, PendingFresh, readArtifactIndex, Writes, Idle, Entry
  <2>2. CASE e = Entry(a, FALSE) /\ q = p
    BY <2>2 DEF IdxInv, IdxType, PendingFresh, EntriesWritten, readArtifactIndex, Writes, Idle, Entry
  <2> QED BY <2>1, <2>2 DEF IdxInv, IdxType
<1>4. InOrder'
  BY DEF IdxInv, IdxType, InOrder, Writes, Idle
<1>5. PruneSpares'
  BY DEF IdxInv, IdxType, PruneSpares
<1> QED BY <1>1, <1>2, <1>3, <1>4, <1>5 DEF IdxInv


\* Truncating a file loses what was in it, and the invariant speaks of nothing
\* that is written by an operation under way.
LEMMA Begins ==
  ASSUME IdxInv, NEW p \in Proc, WriteBegins(p)
  PROVE IdxInv'
<1> USE DEF WriteBegins, Head
<1>1. IdxType'
  BY DEF IdxInv, IdxType, Idle, Write, Listed
<1>2. EntriesWritten'
  BY DEF IdxInv, IdxType, EntriesWritten, readArtifactIndex, Writes, Idle, Write
<1>3. PendingFresh'
  BY DEF IdxInv, IdxType, PendingFresh, readArtifactIndex, Writes, Idle, Write
<1>4. InOrder'
  BY DEF IdxInv, IdxType, InOrder, Writes, Idle, Write
<1>5. PruneSpares'
  BY DEF IdxInv, IdxType, PruneSpares
<1> QED BY <1>1, <1>2, <1>3, <1>4, <1>5 DEF IdxInv

\* The end of a write puts in place what the operation had computed; one case per
\* kind of write.
LEMMA Ends ==
  ASSUME IdxInv, NEW p \in Proc, WriteEnds(p)
  PROVE IdxInv'
<1> DEFINE todo == idxTodo[p]
<1>1. /\ ~Idle(p) /\ idxDisk[Head(todo).file] = Torn
      /\ idxDisk' = [idxDisk EXCEPT ![Head(todo).file] = Head(todo).value]
      /\ idxTodo' = [idxTodo EXCEPT ![p] = Tail(todo)]
      /\ UNCHANGED <<idxStore, idxPending, idxKnown, idxWritten, idxClash, idxOps>>
  BY DEF WriteEnds
<1>2. PruneSpares'
  BY <1>1 DEF IdxInv, IdxType, PruneSpares
<1>3. ASSUME NEW v \in SUBSET IndexEntry, todo = <<Write("artifacts", v)>>
      PROVE IdxInv'
  <2>1. /\ Head(todo) = Write("artifacts", v) /\ Tail(todo) = <<>>
        /\ todo[1].file = "artifacts" /\ todo[1].value = v
    BY <1>3 DEF Write
  <2>2. /\ idxDisk'.artifacts = v /\ idxDisk'.runs = idxDisk.runs /\ idxDisk'.pointer = idxDisk.pointer
        /\ DOMAIN idxDisk' = DOMAIN idxDisk
        /\ idxTodo'[p] = <<>> /\ DOMAIN idxTodo' = Proc
        /\ \A q \in Proc : q # p => idxTodo'[q] = idxTodo[q]
    BY <1>1, <2>1 DEF IdxInv, IdxType, Write
  <2>3. Idle(p)' /\ Writes(p, "artifacts") /\ v # Torn
    BY <1>1, <2>1, <2>2, TornAssumption DEF Idle, Writes
  <2>4. \A q \in Proc : q # p => (Idle(q)' = Idle(q) /\ \A f : Writes(q, f)' = Writes(q, f))
    BY <2>2 DEF Idle, Writes
  <2>5. IdxType'
    BY <1>1, <2>2, <2>3, <2>4 DEF IdxInv, IdxType, Idle
  <2>6. EntriesWritten'
    BY <1>1, <2>1, <2>2, <2>3, <2>4 DEF IdxInv, EntriesWritten, readArtifactIndex, Writes
  <2>7. PendingFresh'
    BY <1>1, <2>1, <2>2, <2>3, <2>4 DEF IdxInv, PendingFresh, readArtifactIndex, Writes
  <2>8. InOrder'
    BY <1>1, <2>1, <2>2, <2>3, <2>4 DEF IdxInv, InOrder, Writes
  <2> QED BY <1>2, <2>5, <2>6, <2>7, <2>8 DEF IdxInv
<1>4. ASSUME NEW v \in RunList, Listed(v), todo = <<Write("runs", v), Write("pointer", v.latest)>>
      PROVE IdxInv'
  <2>1. /\ Head(todo) = Write("runs", v) /\ Tail(todo) = <<Write("pointer", v.latest)>>
        /\ todo[1].file = "runs" /\ todo[1].value = v
    BY <1>4 DEF Write
  <2>2. /\ idxDisk'.artifacts = idxDisk.artifacts /\ idxDisk'.runs = v /\ idxDisk'.pointer = idxDisk.pointer
        /\ DOMAIN idxDisk' = DOMAIN idxDisk
        /\ idxTodo'[p] = <<Write("pointer", v.latest)>> /\ DOMAIN idxTodo' = Proc
        /\ \A q \in Proc : q # p => idxTodo'[q] = idxTodo[q]
    BY <1>1, <2>1 DEF IdxInv, IdxType, Write
  <2>3. /\ ~Idle(p)' /\ Writes(p, "pointer")' /\ Writes(p, "runs") /\ v # Torn
        /\ ~Writes(p, "runs")' /\ ~Writes(p, "artifacts")' /\ idxTodo'[p][1].value = v.latest
        /\ ~Writes(p, "artifacts")
    <3>1. idxTodo'[p][1] = Write("pointer", v.latest) /\ idxTodo'[p] # <<>>
      BY <2>2
    <3> QED BY <1>1, <2>1, <3>1, TornAssumption DEF Idle, Writes, Write
  <2>4. \A q \in Proc : q # p => (Idle(q)' = Idle(q) /\ \A f : Writes(q, f)' = Writes(q, f))
    BY <2>2 DEF Idle, Writes
  <2>5. IdxType'
    BY <1>1, <1>4, <2>2, <2>3, <2>4 DEF IdxInv, IdxType, Idle, RunList
  <2>6. EntriesWritten'
    BY <1>1, <2>1, <2>2, <2>3, <2>4 DEF IdxInv, EntriesWritten, readArtifactIndex, Writes
  <2>7. PendingFresh'
    BY <1>1, <2>1, <2>2, <2>3, <2>4 DEF IdxInv, PendingFresh, readArtifactIndex, Writes
  <2>8. InOrder'
    BY <1>1, <2>1, <2>2, <2>3, <2>4 DEF IdxInv, InOrder, Writes
  <2> QED BY <1>2, <2>5, <2>6, <2>7, <2>8 DEF IdxInv
<1>5. ASSUME NEW v \in 0..RunBound, todo = <<Write("pointer", v)>>
      PROVE IdxInv'
  <2>1. /\ Head(todo) = Write("pointer", v) /\ Tail(todo) = <<>>
        /\ todo[1].file = "pointer" /\ todo[1].value = v
    BY <1>5 DEF Write
  <2>2. /\ idxDisk'.artifacts = idxDisk.artifacts /\ idxDisk'.runs = idxDisk.runs /\ idxDisk'.pointer = v
        /\ DOMAIN idxDisk' = DOMAIN idxDisk
        /\ idxTodo'[p] = <<>> /\ DOMAIN idxTodo' = Proc
        /\ \A q \in Proc : q # p => idxTodo'[q] = idxTodo[q]
    BY <1>1, <2>1 DEF IdxInv, IdxType, Write
  <2>3. Idle(p)' /\ Writes(p, "pointer") /\ ~Writes(p, "runs") /\ ~Writes(p, "artifacts")
    BY <1>1, <2>1, <2>2 DEF Idle, Writes
  <2>4. \A q \in Proc : q # p => (Idle(q)' = Idle(q) /\ \A f : Writes(q, f)' = Writes(q, f))
    BY <2>2 DEF Idle, Writes
  <2>5. IdxType'
    BY <1>1, <2>2, <2>3, <2>4 DEF IdxInv, IdxType, Idle
  <2>6. EntriesWritten'
    BY <1>1, <2>1, <2>2, <2>3, <2>4 DEF IdxInv, EntriesWritten, readArtifactIndex, Writes
  <2>7. PendingFresh'
    BY <1>1, <2>1, <2>2, <2>3, <2>4 DEF IdxInv, PendingFresh, readArtifactIndex, Writes
  <2>8. InOrder'
    BY <1>1, <2>1, <2>2, <2>3, <2>4 DEF IdxInv, InOrder, Writes
  <2> QED BY <1>2, <2>5, <2>6, <2>7, <2>8 DEF IdxInv
<1> QED BY <1>1, <1>3, <1>4, <1>5 DEF IdxInv, IdxType, Idle

\* A process that dies in its write has clashed; otherwise only its memory is lost.
LEMMA Dies ==
  ASSUME IdxInv, NEW p \in Proc, ProcessDies(p)
  PROVE IdxInv'
<1> USE DEF ProcessDies
<1>1. IdxType'
  BY DEF IdxInv, IdxType, Idle, Write, Listed
<1>2. EntriesWritten'
  BY DEF IdxInv, IdxType, EntriesWritten, readArtifactIndex, Writes, Idle
<1>3. PendingFresh'
  BY DEF IdxInv, IdxType, PendingFresh, readArtifactIndex, Writes, Idle
<1>4. InOrder'
  BY DEF IdxInv, IdxType, InOrder, Writes, Idle
<1>5. PruneSpares'
  BY DEF IdxInv, IdxType, PruneSpares
<1> QED BY <1>1, <1>2, <1>3, <1>4, <1>5 DEF IdxInv

\* Where an operation starts: its own writes are new, all others as before; if it
\* does not clash, all files are whole and the index is what is known.
LEMMA Started ==
  ASSUME IdxInv, NEW p \in Proc, NEW w, Start(p, w)
  PROVE  /\ Idle(p) /\ idxTodo'[p] = w /\ DOMAIN idxTodo' = Proc
         /\ \A q \in Proc : q # p => /\ idxTodo'[q] = idxTodo[q] /\ Idle(q)' = Idle(q)
                                     /\ \A f : Writes(q, f)' = Writes(q, f)
         /\ idxClash' \in BOOLEAN
         /\ ~idxClash' => /\ ~idxClash /\ \A q \in Proc : Idle(q)
                          /\ \A q \in Proc : \A f : ~Writes(q, f)
                          /\ idxDisk.artifacts = idxKnown /\ readArtifactIndex = idxKnown
                          /\ idxDisk.runs # Torn /\ idxDisk.pointer = idxDisk.runs.latest
<1>1. Idle(p) /\ idxTodo' = [idxTodo EXCEPT ![p] = w] /\ idxClash' = (idxClash \/ \E q \in Proc : ~Idle(q))
  BY DEF Start
<1>2. idxTodo'[p] = w /\ DOMAIN idxTodo' = Proc /\ \A q \in Proc : q # p => idxTodo'[q] = idxTodo[q]
  BY <1>1 DEF IdxInv, IdxType
<1>3. \A q \in Proc : q # p => Idle(q)' = Idle(q) /\ \A f : Writes(q, f)' = Writes(q, f)
  BY <1>2 DEF Idle, Writes
<1>4. ASSUME ~idxClash'
      PROVE  /\ ~idxClash /\ \A q \in Proc : Idle(q)
             /\ \A q \in Proc : \A f : ~Writes(q, f)
             /\ idxDisk.artifacts = idxKnown /\ readArtifactIndex = idxKnown
             /\ idxDisk.runs # Torn /\ idxDisk.pointer = idxDisk.runs.latest
  <2>1. ~idxClash /\ \A q \in Proc : Idle(q)
    BY <1>1, <1>4
  <2>2. \A q \in Proc : \A f : ~Writes(q, f)
    BY <2>1 DEF Writes
  <2>3. /\ idxDisk.artifacts = idxKnown /\ idxDisk.runs # Torn
        /\ idxDisk.pointer = idxDisk.runs.latest
    BY <2>1, <2>2 DEF IdxInv, InOrder
  <2>4. idxKnown # Torn
    BY TornAssumption DEF IdxInv, IdxType
  <2> QED BY <2>1, <2>2, <2>3, <2>4 DEF readArtifactIndex
<1>5. idxClash' \in BOOLEAN
  BY <1>1 DEF IdxInv, IdxType
<1> QED BY <1>1, <1>2, <1>3, <1>4, <1>5

\* An operation that computes a new artifact index keeps the invariant if what it
\* writes is of files written, holds nothing pending, and is what becomes known.
LEMMA ArtifactsStart ==
  ASSUME IdxInv, NEW p \in Proc, NEW v \in SUBSET IndexEntry,
         Start(p, <<Write("artifacts", v)>>), UNCHANGED <<idxDisk, idxWritten>>,
         idxStore' \subseteq idxStore, idxPending' \in [Proc -> SUBSET IndexEntry],
         idxKnown' \subseteq IndexEntry,
         \A e \in v \cup idxKnown' : e.artifact \in idxWritten,
         \A q \in Proc : idxPending'[q] \subseteq idxPending[q],
         \A q \in Proc : \A e \in idxPending'[q] : e \notin idxKnown' \cup v /\ e.artifact \in idxStore',
         idxKnown = readArtifactIndex => idxKnown' = v,
         InOrder => \A e \in idxKnown' : e.artifact \in idxStore' \/ e.reindexed \/ idxClash',
         PruneSpares'
  PROVE IdxInv'
<1> DEFINE w == <<Write("artifacts", v)>>
<1>1. /\ Idle(p) /\ idxTodo'[p] = w /\ DOMAIN idxTodo' = Proc
      /\ \A q \in Proc : q # p => /\ idxTodo'[q] = idxTodo[q] /\ Idle(q)' = Idle(q)
                                  /\ \A f : Writes(q, f)' = Writes(q, f)
      /\ idxClash' \in BOOLEAN
      /\ ~idxClash' => /\ ~idxClash /\ \A q \in Proc : Idle(q)
                       /\ \A q \in Proc : \A f : ~Writes(q, f)
                       /\ idxDisk.artifacts = idxKnown /\ readArtifactIndex = idxKnown
                       /\ idxDisk.runs # Torn /\ idxDisk.pointer = idxDisk.runs.latest
  BY Started
<1>2. idxTodo'[p][1].file = "artifacts" /\ idxTodo'[p][1].value = v /\ idxTodo'[p] # <<>>
  BY <1>1 DEF Write
<1>3. ~Idle(p)' /\ Writes(p, "artifacts")' /\ ~Writes(p, "runs")' /\ ~Writes(p, "pointer")'
  BY <1>2 DEF Idle, Writes
<1>4. IdxType'
  BY <1>1 DEF IdxInv, IdxType, Idle
<1>5. EntriesWritten'
  BY <1>1, <1>2, <1>3 DEF IdxInv, EntriesWritten, readArtifactIndex, Writes
<1>6. PendingFresh'
  <2> SUFFICES ASSUME NEW r \in Proc, NEW e \in idxPending'[r]
               PROVE /\ e.artifact \in idxStore' /\ ~e.reindexed
                     /\ e \notin idxKnown' \cup readArtifactIndex'
                     /\ \A q \in Proc : Writes(q, "artifacts")' => e \notin idxTodo'[q][1].value
                     /\ \A q \in Proc : q # r => e \notin idxPending'[q]
    BY DEF PendingFresh
  <2>1. e \in idxPending[r]
    OBVIOUS
  <2> QED BY <1>1, <1>2, <1>3, <2>1 DEF IdxInv, PendingFresh, readArtifactIndex
<1>7. InOrder'
  BY <1>1, <1>2, <1>3 DEF IdxInv, InOrder
<1> QED BY <1>4, <1>5, <1>6, <1>7 DEF IdxInv

\* An operation that computes a new run index keeps the invariant if its latest run
\* is listed.
LEMMA RunsStart ==
  ASSUME IdxInv, NEW p \in Proc, NEW v \in RunList, Listed(v),
         Start(p, <<Write("runs", v), Write("pointer", v.latest)>>),
         UNCHANGED <<idxDisk, idxStore, idxPending, idxKnown, idxWritten>>
  PROVE IdxInv'
<1> DEFINE w == <<Write("runs", v), Write("pointer", v.latest)>>
<1>1. /\ Idle(p) /\ idxTodo'[p] = w /\ DOMAIN idxTodo' = Proc
      /\ \A q \in Proc : q # p => /\ idxTodo'[q] = idxTodo[q] /\ Idle(q)' = Idle(q)
                                  /\ \A f : Writes(q, f)' = Writes(q, f)
      /\ idxClash' \in BOOLEAN
      /\ ~idxClash' => /\ ~idxClash /\ \A q \in Proc : Idle(q)
                       /\ \A q \in Proc : \A f : ~Writes(q, f)
                       /\ idxDisk.artifacts = idxKnown /\ readArtifactIndex = idxKnown
                       /\ idxDisk.runs # Torn /\ idxDisk.pointer = idxDisk.runs.latest
  BY Started
<1>2. idxTodo'[p][1].file = "runs" /\ idxTodo'[p][1].value = v /\ idxTodo'[p] # <<>>
  BY <1>1 DEF Write
<1>3. ~Idle(p)' /\ Writes(p, "runs")' /\ ~Writes(p, "artifacts")' /\ ~Writes(p, "pointer")'
  BY <1>2 DEF Idle, Writes
<1>4. IdxType'
  BY <1>1 DEF IdxInv, IdxType, Idle
<1>5. EntriesWritten'
  BY <1>1, <1>2, <1>3 DEF IdxInv, EntriesWritten, readArtifactIndex, Writes
<1>6. PendingFresh'
  BY <1>1, <1>2, <1>3 DEF IdxInv, PendingFresh, readArtifactIndex
<1>7. InOrder'
  BY <1>1, <1>2, <1>3 DEF IdxInv, InOrder
<1>8. PruneSpares'
  BY DEF IdxInv, PruneSpares
<1> QED BY <1>4, <1>5, <1>6, <1>7, <1>8 DEF IdxInv

\* What readArtifactIndex returns is a set of entries, also from a torn file.
LEMMA ReadTyped ==
  ASSUME IdxInv
  PROVE  readArtifactIndex \in SUBSET IndexEntry
BY DEF IdxInv, IdxType, readArtifactIndex

\* Flush registers what the store held, and only that process held it.
LEMMA FlushStep ==
  ASSUME IdxInv, NEW p \in Proc, NEW held \in SUBSET idxPending[p], Flush(p, held)
  PROVE  IdxInv'
<1> DEFINE v == readArtifactIndex \cup held
<1>1. /\ Start(p, <<Write("artifacts", v)>>) /\ idxKnown' = idxKnown \cup held
      /\ idxPending' = [idxPending EXCEPT ![p] = @ \ held]
      /\ UNCHANGED <<idxDisk, idxStore, idxWritten>>
  BY DEF Flush, RegisterArtifacts, merged
<1>2. v \in SUBSET IndexEntry /\ idxKnown' \subseteq IndexEntry
  BY <1>1, ReadTyped DEF IdxInv, IdxType
<1>3. /\ idxPending' \in [Proc -> SUBSET IndexEntry] /\ idxPending'[p] = idxPending[p] \ held
      /\ \A q \in Proc : q # p => idxPending'[q] = idxPending[q]
  BY <1>1 DEF IdxInv, IdxType
<1>4. \A e \in v \cup idxKnown' : e.artifact \in idxWritten
  BY <1>1 DEF IdxInv, IdxType, EntriesWritten, PendingFresh
<1>5. \A q \in Proc : \A e \in idxPending'[q] : e \notin idxKnown' \cup v /\ e.artifact \in idxStore'
  BY <1>1, <1>3 DEF IdxInv, PendingFresh
<1>6. \A e \in idxKnown' : e.artifact \in idxStore' \/ e.reindexed \/ idxClash'
  BY <1>1, Started DEF IdxInv, InOrder, PendingFresh
<1>7. PruneSpares'
  BY <1>1 DEF IdxInv, PruneSpares
<1> HIDE DEF v
<1>8. idxKnown = readArtifactIndex => idxKnown' = v
  BY <1>1 DEF v
<1> QED BY <1>1, <1>2, <1>3, <1>4, <1>5, <1>6, <1>7, <1>8, ArtifactsStart

\* Reindexing makes entries of files that are on disk.
LEMMA ReindexStep ==
  ASSUME IdxInv, NEW p \in Proc, ReindexArtifacts(p)
  PROVE  IdxInv'
<1> DEFINE new == {Entry(a, TRUE) : a \in idxStore \ Outside}
           v == readArtifactIndex \cup new
<1>1. /\ Start(p, <<Write("artifacts", v)>>) /\ idxKnown' = idxKnown \cup new
      /\ UNCHANGED <<idxDisk, idxStore, idxPending, idxWritten>>
  BY DEF ReindexArtifacts, RegisterArtifacts, merged
<1>2. \A e \in new : e \in IndexEntry /\ e.artifact \in idxStore /\ e.artifact \in idxWritten /\ e.reindexed
  <2> SUFFICES ASSUME NEW a \in idxStore
               PROVE  LET e == Entry(a, TRUE)
                      IN  e \in IndexEntry /\ e.artifact \in idxStore /\ e.artifact \in idxWritten /\ e.reindexed
    OBVIOUS
  <2> QED BY DEF IdxInv, IdxType, Entry, IndexEntry
<1> HIDE DEF new
<1>3. v \in SUBSET IndexEntry /\ idxKnown' \subseteq IndexEntry
  BY <1>1, <1>2, ReadTyped DEF IdxInv, IdxType
<1>4. \A e \in v \cup idxKnown' : e.artifact \in idxWritten
  BY <1>1, <1>2 DEF IdxInv, EntriesWritten
<1>5. \A q \in Proc : \A e \in idxPending'[q] : e \notin idxKnown' \cup v /\ e.artifact \in idxStore'
  BY <1>1, <1>2 DEF IdxInv, PendingFresh
<1>6. \A e \in idxKnown' : e.artifact \in idxStore' \/ e.reindexed \/ idxClash'
  BY <1>1, <1>2, Started DEF IdxInv, InOrder
<1>7. PruneSpares' /\ idxPending' \in [Proc -> SUBSET IndexEntry]
  BY <1>1 DEF IdxInv, IdxType, PruneSpares
<1> HIDE DEF v
<1>8. idxKnown = readArtifactIndex => idxKnown' = v
  BY <1>1 DEF v
<1> QED BY <1>1, <1>2, <1>3, <1>4, <1>5, <1>6, <1>7, <1>8, ArtifactsStart

\* Pruning deletes a file only with the entry that names it, so no entry pending or
\* kept, unless reindexing made it, loses its file.
LEMMA PruneStep ==
  ASSUME IdxInv, NEW p \in Proc, PruneArtifacts(p)
  PROVE  IdxInv'
<1> DEFINE read == readArtifactIndex
           v == {e \in read : ~dropped(e)}
           gone == {e.artifact : e \in {x \in read : expired(x) /\ isOpenLagrangePath(x.artifact)}}
<1>1. /\ Start(p, <<Write("artifacts", v)>>) /\ idxStore' = idxStore \ gone
      /\ idxKnown' = {e \in idxKnown : ~(e \in read /\ dropped(e))}
      /\ UNCHANGED <<idxDisk, idxPending, idxWritten>>
  BY DEF PruneArtifacts
<1>2. /\ read \in SUBSET IndexEntry
      /\ \A a \in gone : a \in Old \ Outside /\ \E e \in read : e.artifact = a /\ ~e.reindexed /\ dropped(e)
      /\ \A e \in read : ~dropped(e) => e.reindexed \/ e.artifact \notin gone
  BY ReadTyped DEF expired, dropped, isOpenLagrangePath
<1>3. \A e \in IndexEntry, f \in IndexEntry :
         e.artifact = f.artifact /\ ~e.reindexed /\ ~f.reindexed => e = f
  BY DEF IndexEntry
<1> HIDE DEF gone, read
<1>4. v \in SUBSET IndexEntry /\ idxKnown' \subseteq IndexEntry /\ idxKnown' \subseteq idxKnown
  BY <1>1, <1>2 DEF IdxInv, IdxType
<1>5. \A e \in v \cup idxKnown' : e.artifact \in idxWritten
  BY <1>1, <1>4 DEF IdxInv, EntriesWritten, read
<1>6. \A q \in Proc : \A e \in idxPending'[q] : e \notin idxKnown' \cup v /\ e.artifact \in idxStore'
  <2> SUFFICES ASSUME NEW q \in Proc, NEW e \in idxPending[q]
               PROVE  e \notin idxKnown \cup v /\ e.artifact \in idxStore /\ e.artifact \notin gone
    BY <1>1, <1>4
  <2>1. e \notin idxKnown \cup read /\ e.artifact \in idxStore /\ ~e.reindexed /\ e \in IndexEntry
    BY DEF IdxInv, IdxType, PendingFresh, read
  <2> QED BY <2>1, <1>2, <1>3
<1>7. \A e \in idxKnown' : e.artifact \in idxStore' \/ e.reindexed \/ idxClash'
  <2> SUFFICES ASSUME NEW e \in idxKnown', ~idxClash'
               PROVE  e.artifact \in idxStore' \/ e.reindexed
    OBVIOUS
  <2>1. ~idxClash /\ read = idxKnown
    BY <1>1, Started DEF read
  <2> QED BY <1>1, <1>2, <2>1 DEF IdxInv, InOrder
<1>8. PruneSpares' /\ idxPending' \in [Proc -> SUBSET IndexEntry]
  BY <1>1, <1>2 DEF IdxInv, IdxType, PruneSpares
<1>9. idxKnown = readArtifactIndex => idxKnown' = v
  BY <1>1 DEF read
<1> HIDE DEF v
<1> QED BY <1>1, <1>4, <1>5, <1>6, <1>7, <1>8, <1>9, ArtifactsStart

\* Removing a demo's entries leaves the others as they are.
LEMMA RemoveArtifactsStep ==
  ASSUME IdxInv, NEW p \in Proc, RemoveArtifactsByDemo(p)
  PROVE  IdxInv'
<1> DEFINE v == {e \in readArtifactIndex : e.artifact \notin DemoArtifact}
<1>1. /\ Start(p, <<Write("artifacts", v)>>)
      /\ idxKnown' = {e \in idxKnown : e.artifact \notin DemoArtifact}
      /\ UNCHANGED <<idxDisk, idxStore, idxPending, idxWritten>>
  BY DEF RemoveArtifactsByDemo
<1>2. v \in SUBSET IndexEntry /\ idxKnown' \subseteq IndexEntry
  BY <1>1, ReadTyped DEF IdxInv, IdxType
<1>3. \A e \in v \cup idxKnown' : e.artifact \in idxWritten
  BY <1>1 DEF IdxInv, EntriesWritten
<1>4. \A q \in Proc : \A e \in idxPending'[q] : e \notin idxKnown' \cup v /\ e.artifact \in idxStore'
  BY <1>1 DEF IdxInv, PendingFresh
<1>5. \A e \in idxKnown' : e.artifact \in idxStore' \/ e.reindexed \/ idxClash'
  BY <1>1, Started DEF IdxInv, InOrder
<1>6. PruneSpares' /\ idxPending' \in [Proc -> SUBSET IndexEntry]
  BY <1>1 DEF IdxInv, IdxType, PruneSpares
<1>7. idxKnown = readArtifactIndex => idxKnown' = v
  BY <1>1
<1> HIDE DEF v
<1> QED BY <1>1, <1>2, <1>3, <1>4, <1>5, <1>6, <1>7, ArtifactsStart

\* The run latestOf finds is one of the runs, or 0 without any.
LEMMA LatestOf ==
  ASSUME NEW runs \in SUBSET Runs
  PROVE  latestOf(runs) \in 0..RunBound /\ latestOf(runs) \in runs \cup {0}
<1>1. CASE runs = {}
  BY <1>1, IndexAssumption DEF latestOf
<1>2. CASE runs # {}
  <2> DEFINE T == {k \in Nat : \E x \in runs : k = RunBound - x}
  <2>1. PICK z \in runs : TRUE
    BY <1>2
  <2>2. RunBound - z \in T
    BY <2>1, IndexAssumption DEF Runs
  <2>3. PICK t \in T : \A k \in T : t <= k
    BY <2>2, LeastNat
  <2>4. PICK x \in runs : t = RunBound - x
    BY <2>3
  <2>5. ASSUME NEW y \in runs PROVE x >= y
    <3>1. RunBound - y \in T
      BY IndexAssumption DEF Runs
    <3>2. t <= RunBound - y
      BY <2>3, <3>1
    <3> QED BY <2>4, <3>2, IndexAssumption DEF Runs
  <2>6. Max(runs) \in runs
    BY <2>4, <2>5 DEF Max
  <2>7. latestOf(runs) = Max(runs)
    BY <1>2 DEF latestOf
  <2>8. \A y \in runs : y \in 0..RunBound
    BY IndexAssumption DEF Runs
  <2> QED BY <2>6, <2>7, <2>8
<1> QED BY <1>1, <1>2

\* registerRun writes a list that holds its latest run.
LEMMA RegisterRunStep ==
  ASSUME IdxInv, NEW p \in Proc, NEW r \in Runs, RegisterRun(p, r)
  PROVE  IdxInv'
<1> DEFINE v == [runs |-> idxDisk.runs.runs \cup {r}, latest |-> r]
<1>1. /\ idxDisk.runs # Torn
      /\ Start(p, <<Write("runs", v), Write("pointer", v.latest)>>)
      /\ UNCHANGED <<idxDisk, idxStore, idxPending, idxKnown, idxWritten>>
  BY DEF RegisterRun
<1>2. v \in RunList /\ Listed(v)
  BY <1>1, IndexAssumption DEF IdxInv, IdxType, Listed, RunList, Runs
<1> HIDE DEF v
<1> QED BY <1>1, <1>2, RunsStart

\* Removing a demo's runs writes a list that holds its latest run.
LEMMA RemoveRunsStep ==
  ASSUME IdxInv, NEW p \in Proc, RemoveRunsByDemo(p)
  PROVE  IdxInv'
<1> DEFINE runs == idxDisk.runs.runs \ DemoRun
           v == [runs |-> runs, latest |-> latestOf(runs)]
<1>1. /\ idxDisk.runs # Torn
      /\ Start(p, <<Write("runs", v), Write("pointer", v.latest)>>)
      /\ UNCHANGED <<idxDisk, idxStore, idxPending, idxKnown, idxWritten>>
  BY DEF RemoveRunsByDemo
<1>2. runs \in SUBSET Runs
  BY <1>1 DEF IdxInv, IdxType, Listed, RunList
<1> HIDE DEF runs
<1>3. v \in RunList /\ Listed(v)
  BY <1>2, LatestOf DEF Listed, RunList
<1> HIDE DEF v
<1> QED BY <1>1, <1>3, RunsStart

\* Every step keeps the invariant.
LEMMA NextInv == IdxInv /\ [IdxNext]_idxVars => IdxInv'
<1> SUFFICES ASSUME IdxInv, [IdxNext]_idxVars PROVE IdxInv'
  OBVIOUS
<1>1. CASE UNCHANGED idxVars
  BY <1>1 DEF idxVars, IdxInv, IdxType, EntriesWritten, PendingFresh, InOrder, PruneSpares,
              readArtifactIndex, Idle, Writes
<1>2. ASSUME NEW p \in Proc, \E a \in IdxArtifact : RecordArtifact(p, a) PROVE IdxInv'
  BY <1>2, Record
<1>3. ASSUME NEW p \in Proc, \E r \in Runs : RegisterRun(p, r) PROVE IdxInv'
  BY <1>3, RegisterRunStep
<1> QED BY <1>1, <1>2, <1>3, FlushStep, ReindexStep, PruneStep, RemoveArtifactsStep, RemoveRunsStep,
           Begins, Ends, Dies DEF IdxNext

\* At rest the invariant says what the property does.
LEMMA InvImplies == IdxInv => IndexTrustworthy
<1> SUFFICES ASSUME IdxInv PROVE IndexTrustworthy
  OBVIOUS
<1>1. ASSUME AtRest PROVE /\ idxDisk.artifacts = idxKnown /\ idxDisk.pointer = idxDisk.runs.latest
                          /\ readArtifactIndex = idxKnown
                          /\ \A e \in idxKnown : e.artifact \in idxStore \/ e.reindexed
  <2>1. ~idxClash /\ \A p \in Proc : \A f : ~Writes(p, f)
    BY <1>1 DEF AtRest, Writes
  <2> QED BY <2>1, TornAssumption DEF IdxInv, IdxType, InOrder, readArtifactIndex
<1>2. RegisteredStays
  BY <1>1 DEF RegisteredStays
<1>3. EntriesHaveFiles
  BY <1>1 DEF EntriesHaveFiles, IdxInv, EntriesWritten
<1>4. LatestIsListed
  BY <1>1 DEF LatestIsListed, IdxInv, IdxType, Listed
<1> QED BY <1>2, <1>3, <1>4 DEF IndexTrustworthy, IdxInv

\* For every number of processes, artifacts, runs and operations, the shared index
\* files hold exactly what was registered while operations do not overlap, no entry
\* ever precedes its file, pruning spares what it must, and the latest run is listed.
THEOREM IndexTrusted == IdxSpec => []IndexTrustworthy
BY InitInv, NextInv, InvImplies, PTL DEF IdxSpec

-----------------------------------------------------------------------------
(* ModelCall: the scanner of the text request and its reference            *)

\* The states of the scanner and of the reference reader.
Sym == {"brace", "bracket", "bad"}
ScanState == [at : Nat, depth : Int, inString : BOOLEAN, escaped : BOOLEAN, end : Nat]
ReadState == [stack : Seq(Sym), inString : BOOLEAN, escaped : BOOLEAN]

\* Where both begin.
ScanStart(from) == [at |-> from, depth |-> 0, inString |-> FALSE, escaped |-> FALSE, end |-> 0]
ReadStart == [stack |-> <<>>, inString |-> FALSE, escaped |-> FALSE]

\* How many brackets of a kind are open.
OpenCount(open, stack) == Cardinality({i \in 1 .. Len(stack) : stack[i] = open})

\* A bracket that closes none.
Spoilt(stack) == \E i \in 1 .. Len(stack) : stack[i] = "bad"

\* Whether a character counts, and the depth behind it.
Counts(st, c) == ~st.escaped /\ ~st.inString /\ c \notin {"escape", "quote"}
Depth(open, st, c) ==
    st.depth + (IF Counts(st, c) /\ c = open THEN 1 ELSE 0) - (IF Counts(st, c) /\ c = closerOf(open) THEN 1 ELSE 0)

\* One character more for the scanner.
LEMMA ScanCases ==
    ASSUME NEW open, NEW st \in ScanState, NEW c
    PROVE  /\ scanStep(open, st, c) \in ScanState
           /\ st.end # 0 => scanStep(open, st, c) = st
           /\ st.end = 0 =>
                 /\ scanStep(open, st, c).at = st.at + 1 /\ scanStep(open, st, c).depth = Depth(open, st, c)
                 /\ scanStep(open, st, c).inString <=> IF st.escaped \/ c # "quote" THEN st.inString ELSE ~st.inString
                 /\ scanStep(open, st, c).escaped <=> ~st.escaped /\ st.inString /\ c = "escape"
                 /\ scanStep(open, st, c).end = IF Counts(st, c) /\ Depth(open, st, c) = 0 THEN st.at + 1 ELSE 0
<1> DEFINE next   == scanStep(open, st, c)
           counts == Counts(st, c)
           depth  == Depth(open, st, c)
           end    == IF counts /\ depth = 0 THEN st.at + 1 ELSE 0
           quoted == IF st.escaped \/ c # "quote" THEN st.inString ELSE ~st.inString
           escapes == ~st.escaped /\ st.inString /\ c = "escape"
<1>1. CASE st.end # 0
  <2>1. next = st
    BY <1>1 DEF scanStep
  <2> HIDE DEF next
  <2> QED BY <1>1, <2>1 DEF next
<1>2. CASE st.end = 0
  <2>1. next = [at |-> st.at + 1, depth |-> depth, inString |-> quoted, escaped |-> escapes, end |-> end]
    BY <1>2 DEF scanStep, Counts, Depth
  <2>2. depth \in Int /\ end \in Nat /\ st.at + 1 \in Nat
    BY DEF ScanState, Depth
  <2>3. PICK q \in BOOLEAN : q <=> quoted
    OBVIOUS
  <2>4. PICK x \in BOOLEAN : x <=> escapes
    OBVIOUS
  <2>5. quoted \in BOOLEAN
    BY DEF ScanState
  <2>6. q = quoted /\ x = escapes
    BY <2>3, <2>4, <2>5, Zenon
  <2> HIDE DEF next, depth, end, quoted, escapes
  <2>7. next = [at |-> st.at + 1, depth |-> depth, inString |-> q, escaped |-> x, end |-> end]
    BY <2>1, <2>6, Zenon
  <2>8. next \in ScanState /\ next.at = st.at + 1 /\ next.depth = depth /\ next.inString = q /\ next.escaped = x /\ next.end = end
    BY <2>2, <2>7 DEF ScanState
  <2> QED BY <1>2, <2>3, <2>4, <2>8 DEF next, depth, end, quoted, escapes
<1> QED BY <1>1, <1>2

\* One character more for the reader; a stack that is spoilt stays so.
LEMMA NestsOk ==
    ASSUME NEW stack \in Seq(Sym), NEW c \in Char
    PROVE  /\ nests(stack, c) \in Seq(Sym)
           /\ Spoilt(stack) => Spoilt(nests(stack, c))
<1>1. CASE opener(c)
  <2>1. nests(stack, c) = Append(stack, c) /\ c \in Sym
    BY <1>1 DEF nests, opener, Sym
  <2> QED BY <2>1, AppendOk DEF Spoilt
<1>2. CASE ~opener(c) /\ stack # <<>> /\ opener(Last(stack)) /\ c = closerOf(Last(stack))
  <2>1. nests(stack, c) = SubSeq(stack, 1, Len(stack) - 1)
    BY <1>2 DEF nests, Front
  <2>2. stack[Len(stack)] # "bad"
    BY <1>2 DEF opener, Last
  <2>3. ASSUME Spoilt(stack) PROVE Spoilt(SubSeq(stack, 1, Len(stack) - 1))
    <3>1. PICK i \in 1 .. Len(stack) : stack[i] = "bad"
      BY <2>3 DEF Spoilt
    <3>2. i \in 1 .. (Len(stack) - 1)
      BY <2>2, <3>1
    <3> QED BY <1>2, <3>1, <3>2, FrontOk DEF Spoilt
  <2> QED BY <1>2, <2>1, <2>3, FrontOk
<1>3. CASE ~opener(c) /\ ~(stack # <<>> /\ opener(Last(stack)) /\ c = closerOf(Last(stack)))
  <2>1. nests(stack, c) = Append(stack, "bad") /\ "bad" \in Sym
    BY <1>3 DEF nests, Sym
  <2> QED BY <2>1, AppendOk DEF Spoilt
<1> QED BY <1>1, <1>2, <1>3

\* The fields of the reader's next state.
LEMMA ReadCases ==
    ASSUME NEW st \in ReadState, NEW c \in Char
    PROVE  LET next == readChar(st, c)
           IN  /\ next \in ReadState
               /\ next.stack = IF ~st.inString /\ c \in {"brace", "bracket", "unbrace", "unbracket"} THEN nests(st.stack, c) ELSE st.stack
               /\ next.inString <=> IF st.escaped THEN st.inString ELSE (st.inString <=> c # "quote")
               /\ next.escaped <=> st.inString /\ ~st.escaped /\ c = "escape"
<1> DEFINE next == readChar(st, c)
           stack == IF ~st.inString /\ c \in {"brace", "bracket", "unbrace", "unbracket"} THEN nests(st.stack, c) ELSE st.stack
           quoted == IF st.escaped THEN st.inString ELSE st.inString # (c = "quote")
           escapes == st.inString /\ ~st.escaped /\ c = "escape"
<1>1. next = [stack |-> stack, inString |-> quoted, escaped |-> escapes]
  BY DEF readChar
<1>2. stack \in Seq(Sym) /\ st.inString \in BOOLEAN
  BY NestsOk DEF ReadState
<1>3. PICK q \in BOOLEAN : q <=> quoted
  OBVIOUS
<1>4. PICK x \in BOOLEAN : x <=> escapes
  OBVIOUS
<1>5. (c = "quote") \in BOOLEAN
  BY Zenon
<1>6. quoted \in BOOLEAN /\ (quoted <=> IF st.escaped THEN st.inString ELSE (st.inString <=> c # "quote"))
  BY <1>2, <1>5, Zenon
<1>7. q = quoted /\ x = escapes
  BY <1>3, <1>4, <1>6, Zenon
<1> HIDE DEF next, stack, quoted, escapes
<1>8. next = [stack |-> stack, inString |-> q, escaped |-> x]
  BY <1>1, <1>7, Zenon
<1>9. next \in ReadState /\ next.stack = stack /\ next.inString = q /\ next.escaped = x
  BY <1>2, <1>8 DEF ReadState
<1> QED BY <1>3, <1>4, <1>6, <1>9 DEF next, stack, escapes

\* The count of open brackets, as the stack grows and shrinks.
LEMMA CountPush ==
    ASSUME NEW open, NEW stack \in Seq(Sym), NEW c \in Sym
    PROVE  OpenCount(open, Append(stack, c)) = OpenCount(open, stack) + (IF c = open THEN 1 ELSE 0)
<1> DEFINE n == Len(stack)
           longer == Append(stack, c)
           Places == {i \in 1 .. n : stack[i] = open}
           More == {i \in 1 .. Len(longer) : longer[i] = open}
<1>1. /\ n \in Nat /\ Len(longer) = n + 1 /\ longer[n + 1] = c /\ \A i \in 1 .. n : longer[i] = stack[i]
  BY AppendOk
<1> HIDE DEF n, longer
<1>2. IsFiniteSet(Places) /\ n + 1 \notin Places
  <2>1. IsFiniteSet(1 .. n)
    BY <1>1, FS_Interval
  <2> QED BY <1>1, <2>1, FS_Subset
<1>3. CASE c = open
  <2>1. More = Places \cup {n + 1}
    BY <1>1, <1>3
  <2> HIDE DEF More, Places
  <2>2. Cardinality(Places \cup {n + 1}) = Cardinality(Places) + 1
    BY <1>2, FS_AddElement
  <2> QED BY <1>3, <2>1, <2>2 DEF OpenCount, More, Places, n, longer
<1>4. CASE c # open
  <2>1. More = Places
    BY <1>1, <1>4
  <2>2. Cardinality(Places) \in Nat
    <3> HIDE DEF Places
    <3> QED BY <1>2, FS_CardinalityType
  <2>3. OpenCount(open, longer) = Cardinality(More) /\ OpenCount(open, stack) = Cardinality(Places)
    BY DEF OpenCount, n
  <2> HIDE DEF More, Places
  <2>4. OpenCount(open, longer) = OpenCount(open, stack) + 0
    BY <2>1, <2>2, <2>3
  <2> QED BY <1>4, <2>4 DEF longer
<1> QED BY <1>3, <1>4

\* The count is a number, and not zero under an open bracket.
LEMMA CountNat ==
    ASSUME NEW open, NEW stack \in Seq(Sym)
    PROVE  /\ OpenCount(open, stack) \in Nat
           /\ stack # <<>> /\ stack[1] = open => OpenCount(open, stack) >= 1
<1> DEFINE Places == {i \in 1 .. Len(stack) : stack[i] = open}
<1>1. IsFiniteSet(Places)
  <2>1. Len(stack) \in Nat
    OBVIOUS
  <2>2. IsFiniteSet(1 .. Len(stack))
    BY <2>1, FS_Interval
  <2> QED BY <2>2, FS_Subset
<1>2. stack # <<>> /\ stack[1] = open => Places # {}
  BY EmptySeq
<1> HIDE DEF Places
<1>3. Cardinality(Places) \in Nat /\ (Places # {} => Cardinality(Places) # 0)
  BY <1>1, FS_CardinalityType, FS_EmptySet
<1> QED BY <1>2, <1>3 DEF OpenCount, Places

\* The count when the last bracket is closed.
LEMMA CountPop ==
    ASSUME NEW open, NEW stack \in Seq(Sym), stack # <<>>
    PROVE  OpenCount(open, SubSeq(stack, 1, Len(stack) - 1)) =
               OpenCount(open, stack) - (IF stack[Len(stack)] = open THEN 1 ELSE 0)
<1> DEFINE front == SubSeq(stack, 1, Len(stack) - 1)
           top == stack[Len(stack)]
<1>1. front \in Seq(Sym) /\ top \in Sym /\ Len(front) = Len(stack) - 1 /\ \A i \in 1 .. Len(front) : front[i] = stack[i]
  BY FrontOk
<1>2. stack = Append(front, top)
  <2>1. Append(front, top) \in Seq(Sym) /\ Len(Append(front, top)) = Len(stack)
    BY <1>1, AppendOk
  <2>2. ASSUME NEW i \in 1 .. Len(stack) PROVE stack[i] = Append(front, top)[i]
    <3>1. CASE i = Len(stack)
      BY <1>1, <3>1, AppendOk
    <3>2. CASE i # Len(stack)
      BY <1>1, <3>2, AppendOk
    <3> QED BY <3>1, <3>2
  <2> HIDE DEF front, top
  <2> QED BY <2>1, <2>2, SeqEqual
<1> HIDE DEF front, top
<1>3. OpenCount(open, stack) = OpenCount(open, front) + (IF top = open THEN 1 ELSE 0)
  BY <1>1, <1>2, CountPush
<1>4. OpenCount(open, front) \in Nat
  BY <1>1, CountNat
<1> QED BY <1>3, <1>4 DEF front, top

\* While the value is open, the scanner and the reader are in step.
Same(open, n, s, r) ==
    /\ s \in ScanState /\ r \in ReadState
    /\ s.at = n /\ s.end = 0
    /\ s.inString = r.inString /\ s.escaped = r.escaped
    /\ r.stack # <<>> /\ r.stack[1] = open
    /\ s.depth = OpenCount(open, r.stack)

\* A bracket that the reader pushes or pops; "other" does neither.
LEMMA NestsCounts ==
    ASSUME NEW open \in {"brace", "bracket"}, NEW stack \in Seq(Sym), stack # <<>>, stack[1] = open,
           NEW c \in {"brace", "bracket", "unbrace", "unbracket"}, ~Spoilt(nests(stack, c))
    PROVE  /\ OpenCount(open, nests(stack, c)) =
                   OpenCount(open, stack) + (IF c = open THEN 1 ELSE 0) - (IF c = closerOf(open) THEN 1 ELSE 0)
           /\ nests(stack, c) # <<>> => nests(stack, c)[1] = open
<1>1. CASE opener(c)
  <2>1. nests(stack, c) = Append(stack, c) /\ c \in Sym /\ c # closerOf(open)
    BY <1>1 DEF nests, opener, Sym, closerOf
  <2>2. Append(stack, c)[1] = open
    <3>1. \A i \in 1 .. Len(stack) : Append(stack, c)[i] = stack[i]
      BY <2>1, AppendOk
    <3>2. 1 \in 1 .. Len(stack)
      BY EmptySeq
    <3> QED BY <3>1, <3>2
  <2>3. OpenCount(open, stack) \in Nat
    BY CountNat
  <2>4. OpenCount(open, Append(stack, c)) = OpenCount(open, stack) + (IF c = open THEN 1 ELSE 0)
    BY <2>1, CountPush
  <2> QED BY <2>1, <2>2, <2>3, <2>4
<1>2. CASE ~opener(c)
  <2>1. stack # <<>> /\ opener(Last(stack)) /\ c = closerOf(Last(stack))
    <3> SUFFICES ASSUME ~(stack # <<>> /\ opener(Last(stack)) /\ c = closerOf(Last(stack))) PROVE FALSE
      OBVIOUS
    <3>1. nests(stack, c) = Append(stack, "bad") /\ "bad" \in Sym
      BY <1>2 DEF nests, Sym
    <3>2. /\ Len(stack) \in Nat /\ Len(Append(stack, "bad")) = Len(stack) + 1
          /\ Append(stack, "bad")[Len(stack) + 1] = "bad"
      BY <3>1, AppendOk
    <3>3. Spoilt(Append(stack, "bad"))
      BY <3>2 DEF Spoilt
    <3> QED BY <3>1, <3>3
  <2>2. nests(stack, c) = SubSeq(stack, 1, Len(stack) - 1) /\ Last(stack) = stack[Len(stack)]
    BY <1>2, <2>1 DEF nests, Front, Last
  <2>3. c # open /\ (stack[Len(stack)] = open <=> c = closerOf(open))
    BY <1>2, <2>1, <2>2 DEF opener, closerOf
  <2>4. SubSeq(stack, 1, Len(stack) - 1) # <<>> => SubSeq(stack, 1, Len(stack) - 1)[1] = open
    <3> DEFINE front == SubSeq(stack, 1, Len(stack) - 1)
    <3>1. front \in Seq(Sym) /\ Len(front) = Len(stack) - 1 /\ \A i \in 1 .. (Len(stack) - 1) : front[i] = stack[i]
      BY FrontOk
    <3> HIDE DEF front
    <3>2. front # <<>> => 1 \in 1 .. (Len(stack) - 1)
      BY <3>1, EmptySeq
    <3>3. front # <<>> => front[1] = open
      BY <3>1, <3>2
    <3> QED BY <3>3 DEF front
  <2>5. OpenCount(open, stack) \in Nat
    BY CountNat
  <2>6. OpenCount(open, SubSeq(stack, 1, Len(stack) - 1)) =
            OpenCount(open, stack) - (IF stack[Len(stack)] = open THEN 1 ELSE 0)
    BY CountPop
  <2> QED BY <2>2, <2>3, <2>4, <2>5, <2>6
<1> QED BY <1>1, <1>2

\* In step before a character that leaves the value open, in step behind it.
LEMMA SameKeeps ==
    ASSUME NEW open \in {"brace", "bracket"}, NEW n \in Nat, NEW s, NEW r, Same(open, n, s, r), NEW c \in Char,
           ~Spoilt(readChar(r, c).stack), r.escaped => r.inString
    PROVE  /\ readChar(r, c).stack # <<>> => Same(open, n + 1, scanStep(open, s, c), readChar(r, c))
           /\ readChar(r, c).stack = <<>> => scanStep(open, s, c).end = n + 1
<1> DEFINE s2 == scanStep(open, s, c)
           r2 == readChar(r, c)
           counts == Counts(s, c)
           depth  == Depth(open, s, c)
<1>1. /\ s \in ScanState /\ r \in ReadState /\ s.at = n /\ s.end = 0 /\ s.inString = r.inString /\ s.escaped = r.escaped
      /\ r.stack \in Seq(Sym) /\ r.stack # <<>> /\ r.stack[1] = open /\ s.depth = OpenCount(open, r.stack)
      /\ s.inString \in BOOLEAN /\ s.escaped \in BOOLEAN
  BY DEF Same, ScanState, ReadState
<1>2. /\ s2 \in ScanState /\ s2.at = n + 1 /\ s2.depth = depth
      /\ s2.inString <=> IF s.escaped \/ c # "quote" THEN s.inString ELSE ~s.inString
      /\ s2.escaped <=> ~s.escaped /\ s.inString /\ c = "escape"
      /\ s2.end = IF counts /\ depth = 0 THEN n + 1 ELSE 0
  BY <1>1, ScanCases
<1>3. /\ r2 \in ReadState
      /\ r2.stack = IF ~r.inString /\ c \in {"brace", "bracket", "unbrace", "unbracket"} THEN nests(r.stack, c) ELSE r.stack
      /\ r2.inString <=> IF r.escaped THEN r.inString ELSE (r.inString <=> c # "quote")
      /\ r2.escaped <=> r.inString /\ ~r.escaped /\ c = "escape"
  BY <1>1, ReadCases
<1>4. s2.inString = r2.inString /\ s2.escaped = r2.escaped
  <2>1. s2.inString \in BOOLEAN /\ r2.inString \in BOOLEAN /\ s2.escaped \in BOOLEAN /\ r2.escaped \in BOOLEAN
    BY <1>2, <1>3 DEF ScanState, ReadState
  <2> HIDE DEF s2, r2, depth, counts
  <2>2. (s2.inString <=> r2.inString) /\ (s2.escaped <=> r2.escaped)
    BY <1>1, <1>2, <1>3, Zenon
  <2> QED BY <2>1, <2>2, Zenon
<1>5. depth = OpenCount(open, r2.stack) /\ (r2.stack # <<>> => r2.stack[1] = open)
  <2>1. OpenCount(open, r.stack) \in Nat
    BY <1>1, CountNat
  <2>2. CASE ~r.inString /\ c \in {"brace", "bracket", "unbrace", "unbracket"}
    <3>1. counts /\ r2.stack = nests(r.stack, c) /\ ~Spoilt(nests(r.stack, c))
      BY <1>1, <1>3, <2>2 DEF Counts
    <3> DEFINE stack == r.stack
    <3>2. stack \in Seq(Sym) /\ stack # <<>> /\ stack[1] = open /\ ~Spoilt(nests(stack, c))
      BY <1>1, <3>1
    <3> HIDE DEF stack
    <3>3. /\ OpenCount(open, nests(stack, c)) =
                  OpenCount(open, stack) + (IF c = open THEN 1 ELSE 0) - (IF c = closerOf(open) THEN 1 ELSE 0)
          /\ nests(stack, c) # <<>> => nests(stack, c)[1] = open
      BY <2>2, <3>2, NestsCounts
    <3>4. depth = OpenCount(open, stack) + (IF c = open THEN 1 ELSE 0) - (IF c = closerOf(open) THEN 1 ELSE 0)
      <4> HIDE DEF counts
      <4> QED BY <1>1, <3>1 DEF stack, counts, Depth
    <3> HIDE DEF r2, depth
    <3>5. r2.stack = nests(stack, c)
      BY <3>1 DEF stack
    <3> QED BY <3>3, <3>4, <3>5
  <2>3. CASE r.inString \/ c \notin {"brace", "bracket", "unbrace", "unbracket"}
    <3>1. r2.stack = r.stack
      BY <1>3, <2>3
    <3>2. c = open \/ c = closerOf(open) => ~counts
      BY <1>1, <2>3 DEF closerOf, Counts
    <3> HIDE DEF r2
    <3> QED BY <1>1, <2>1, <3>1, <3>2 DEF Depth
  <2> QED BY <2>2, <2>3
<1> HIDE DEF s2, r2, depth
<1>6. CASE r2.stack # <<>>
  <2>1. r2.stack \in Seq(Sym)
    BY <1>3 DEF ReadState
  <2>2. depth >= 1 /\ depth \in Nat
    BY <1>5, <1>6, <2>1, CountNat
  <2>3. s2.end = 0
    <3>1. s2.end = IF counts /\ depth = 0 THEN n + 1 ELSE 0
      BY <1>2
    <3>2. depth # 0
      BY <2>2
    <3> QED BY <3>1, <3>2, Zenon
  <2>4. Same(open, n + 1, s2, r2)
    BY <1>2, <1>3, <1>4, <1>5, <1>6, <2>3 DEF Same
  <2> QED BY <1>6, <2>4 DEF s2, r2
<1>7. CASE r2.stack = <<>>
  <2>1. {i \in 1 .. Len(r2.stack) : r2.stack[i] = open} = {}
    <3>1. Len(r2.stack) = 0
      BY <1>7
    <3> QED BY <3>1
  <2>2. depth = 0
    BY <1>5, <2>1, FS_EmptySet DEF OpenCount
  <2>3. counts
    BY <1>1, <1>3, <1>7 DEF Counts
  <2> QED BY <1>2, <1>7, <2>2, <2>3 DEF s2, r2
<1> QED BY <1>6, <1>7 DEF s2, r2

\* Where the reader has read a whole value, the scanner stops.
LEMMA SameEnds ==
    ASSUME NEW open \in {"brace", "bracket"}, NEW n \in Nat, NEW s, NEW r, Same(open, n, s, r), NEW c \in Char,
           r.escaped => r.inString, readChar(r, c).stack = <<>>
    PROVE  scanStep(open, s, c).end = n + 1
<1>1. ~Spoilt(readChar(r, c).stack)
  <2>1. ~Spoilt(<<>>)
    BY DEF Spoilt
  <2> QED BY <2>1
<1>2. readChar(r, c).stack = <<>> => scanStep(open, s, c).end = n + 1
  BY <1>1, SameKeeps
<1> QED BY <1>2

\* The reader escapes only inside a string.
LEMMA EscapesInside ==
    ASSUME NEW r \in ReadState, NEW c \in Char, r.escaped => r.inString
    PROVE  readChar(r, c).escaped => readChar(r, c).inString
<1>1. /\ readChar(r, c).inString <=> IF r.escaped THEN r.inString ELSE (r.inString <=> c # "quote")
      /\ readChar(r, c).escaped <=> r.inString /\ ~r.escaped /\ c = "escape"
  BY ReadCases
<1> QED BY <1>1

\* A spoilt stack stays so, whatever is read.
LEMMA ReadSpoilt ==
    ASSUME NEW r \in ReadState, NEW c \in Char, Spoilt(r.stack)
    PROVE  Spoilt(readChar(r, c).stack)
<1>1. r.stack \in Seq(Sym)
  BY DEF ReadState
<1>2. readChar(r, c).stack = nests(r.stack, c) \/ readChar(r, c).stack = r.stack
  BY ReadCases
<1> QED BY <1>1, <1>2, NestsOk

\* The scan of N characters and the reading of the first M of them, which are a value.
ReadsValue(N, M, open, char, from, scan, read) ==
    /\ N \in Nat /\ M \in 1 .. N /\ from \in Nat /\ open \in {"brace", "bracket"}
    /\ char \in [1 .. N -> Char] /\ char[1] = open
    /\ scan \in [0 .. N -> ScanState] /\ scan[0] = ScanStart(from)
    /\ \A n \in 1 .. N : scan[n] = scanStep(open, scan[n - 1], char[n])
    /\ read \in [0 .. M -> ReadState] /\ read[0] = ReadStart
    /\ \A n \in 1 .. M : read[n] = readChar(read[n - 1], char[n])
    /\ read[M].stack = <<>>
    /\ \A n \in 1 .. (M - 1) : read[n].stack # <<>>

\* The scan ends where the value does.
LEMMA ScanEnds ==
    ASSUME NEW N, NEW M, NEW open, NEW char, NEW from, NEW scan, NEW read,
           ReadsValue(N, M, open, char, from, scan, read)
    PROVE  scan[N].end = from + M
<1> SUFFICES ASSUME N \in Nat, M \in 1 .. N, from \in Nat, open \in {"brace", "bracket"},
                    char \in [1 .. N -> Char], char[1] = open,
                    scan \in [0 .. N -> ScanState], scan[0] = ScanStart(from),
                    \A n \in 1 .. N : scan[n] = scanStep(open, scan[n - 1], char[n]),
                    read \in [0 .. M -> ReadState], read[0] = ReadStart,
                    \A n \in 1 .. M : read[n] = readChar(read[n - 1], char[n]),
                    read[M].stack = <<>>, \A n \in 1 .. (M - 1) : read[n].stack # <<>>
             PROVE  scan[N].end = from + M
  BY DEF ReadsValue
<1>1. \A n \in 1 .. M : n \in 1 .. N /\ n - 1 \in 0 .. M /\ n - 1 \in 0 .. N /\ char[n] \in Char
  <2>1. ASSUME NEW n \in 1 .. M PROVE n \in 1 .. N /\ n - 1 \in 0 .. M /\ n - 1 \in 0 .. N
    OBVIOUS
  <2>2. \A n \in 1 .. N : char[n] \in Char
    OBVIOUS
  <2> QED BY <2>1, <2>2, Zenon
\* Nothing is spoilt: it would be at the end.
<1>2. ASSUME NEW k \in 0 .. M PROVE ~Spoilt(read[k].stack)
  <2> SUFFICES ASSUME Spoilt(read[k].stack) PROVE FALSE
    OBVIOUS
  <2> DEFINE P == {n \in 0 .. (M - k) : Spoilt(read[k + n].stack)}
  <2>1. M - k \in Nat /\ 0 \in P /\ k + (M - k) = M /\ M - k \in 0 .. (M - k)
    OBVIOUS
  <2>2. ASSUME NEW n \in 1 .. (M - k), n - 1 \in P PROVE n \in P
    <3>1. k + n \in 1 .. M /\ (k + n) - 1 = k + (n - 1) /\ k + (n - 1) \in 0 .. M
      OBVIOUS
    <3>2. Spoilt(read[k + (n - 1)].stack) /\ read[k + (n - 1)] \in ReadState
      BY <2>2, <3>1
    <3>3. read[k + n] = readChar(read[k + (n - 1)], char[k + n]) /\ char[k + n] \in Char
      BY <1>1, <3>1
    <3>4. Spoilt(read[k + n].stack)
      BY <3>2, <3>3, ReadSpoilt
    <3> QED BY <3>4
  <2>3. 0 .. (M - k) \subseteq P
    <3> HIDE DEF P
    <3> QED BY <2>1, <2>2, InductionUpTo
  <2>4. Spoilt(read[M].stack)
    BY <2>1, <2>3
  <2> QED BY <2>4 DEF Spoilt
\* The first character opens the value.
<1>3. 1 \in 1 .. M /\ 1 \in 1 .. N /\ 0 \in 0 .. N /\ 0 \in 0 .. M /\ 1 - 1 = 0
  OBVIOUS
<1>4. Same(open, from + 1, scan[1], read[1]) /\ (read[1].escaped => read[1].inString)
  <2>1. scan[1] = scanStep(open, scan[0], open) /\ read[1] = readChar(read[0], open) /\ open \in Char
    BY <1>3 DEF Char
  <2>2. PICK no \in BOOLEAN : no = FALSE
    OBVIOUS
  <2>3. scan[0] = [at |-> from, depth |-> 0, inString |-> no, escaped |-> no, end |-> 0]
    BY <2>2, Zenon DEF ScanStart
  <2>4. read[0] = [stack |-> <<>>, inString |-> no, escaped |-> no]
    BY <2>2, Zenon DEF ReadStart
  <2>5. scan[0] \in ScanState /\ read[0] \in ReadState
    BY <1>3
  <2>6. scan[0].at = from /\ scan[0].depth = 0 /\ ~scan[0].inString /\ ~scan[0].escaped /\ scan[0].end = 0
    BY <2>2, <2>3
  <2>7. read[0].stack = <<>> /\ ~read[0].inString /\ ~read[0].escaped
    BY <2>2, <2>4
  <2>8. open # closerOf(open) /\ opener(open) /\ open \notin {"escape", "quote"} /\ open \in Sym
    BY DEF closerOf, opener, Sym
  <2>9. /\ scan[1] \in ScanState /\ scan[1].at = from + 1 /\ scan[1].depth = 1 /\ ~scan[1].inString
        /\ ~scan[1].escaped /\ scan[1].end = 0
    <3>1. Counts(scan[0], open) /\ Depth(open, scan[0], open) = 1
      BY <2>6, <2>8 DEF Counts, Depth
    <3> QED BY <2>1, <2>5, <2>6, <2>8, <3>1, ScanCases
  <2>10. read[1] \in ReadState /\ read[1].stack = nests(<<>>, open) /\ ~read[1].inString /\ ~read[1].escaped
    BY <2>1, <2>5, <2>7, <2>8, ReadCases
  <2>11. read[1].stack = Append(<<>>, open)
    BY <2>8, <2>10 DEF nests
  <2>12. <<>> \in Seq(Sym) /\ Len(<<>>) = 0 /\ OpenCount(open, <<>>) = 0
    BY FS_EmptySet DEF OpenCount
  <2>13. OpenCount(open, Append(<<>>, open)) = 1
    <3> DEFINE none == <<>>
    <3>1. none \in Seq(Sym) /\ OpenCount(open, none) = 0 /\ open \in Sym
      BY <2>8, <2>12
    <3> HIDE DEF none
    <3>2. \A c \in Sym : OpenCount(open, Append(none, c)) = OpenCount(open, none) + (IF c = open THEN 1 ELSE 0)
      BY <3>1, CountPush
    <3> QED BY <3>1, <3>2 DEF none
  <2>14. Append(<<>>, open)[1] = open /\ Append(<<>>, open) # <<>>
    BY <2>8
  <2>15. scan[1].inString = read[1].inString /\ scan[1].escaped = read[1].escaped
    BY <2>9, <2>10 DEF ScanState, ReadState
  <2> QED BY <2>9, <2>10, <2>11, <2>13, <2>14, <2>15 DEF Same
<1>5. M # 1
  BY <1>4 DEF Same
<1>6. \A n \in 1 .. (M - 1) : Same(open, from + n, scan[n], read[n]) /\ (read[n].escaped => read[n].inString)
  <2> DEFINE P == {n \in 0 .. (M - 2) : Same(open, from + (n + 1), scan[n + 1], read[n + 1])
                                       /\ (read[n + 1].escaped => read[n + 1].inString)}
  <2>1. M - 2 \in Nat /\ 0 \in P
    BY <1>4, <1>5
  <2>2. ASSUME NEW n \in 1 .. (M - 2), n - 1 \in P PROVE n \in P
    <3>1. /\ (n - 1) + 1 = n /\ n + 1 \in 1 .. M /\ (n + 1) - 1 = n /\ n \in 0 .. M /\ n + 1 \in 1 .. (M - 1)
          /\ from + (n + 1) = (from + n) + 1 /\ from + n \in Nat /\ n + 1 \in 0 .. M
      <4>1. n \in Int /\ 1 <= n /\ n <= M - 2 /\ M \in Int
        OBVIOUS
      <4>2. n + 1 \in 1 .. (M - 1) /\ n + 1 \in 1 .. M /\ n \in 0 .. M /\ n + 1 \in 0 .. M
        BY <4>1
      <4>3. (n - 1) + 1 = n /\ (n + 1) - 1 = n /\ from + (n + 1) = (from + n) + 1 /\ from + n \in Nat
        BY <4>1
      <4> QED BY <4>2, <4>3
    <3>2. Same(open, from + n, scan[n], read[n]) /\ (read[n].escaped => read[n].inString)
      BY <2>2, <3>1
    <3>3. /\ scan[n + 1] = scanStep(open, scan[n], char[n + 1]) /\ read[n + 1] = readChar(read[n], char[n + 1])
          /\ char[n + 1] \in Char /\ read[n] \in ReadState
      BY <1>1, <3>1
    <3>4. read[n + 1].stack # <<>> /\ ~Spoilt(read[n + 1].stack)
      BY <1>2, <3>1
    <3>5. Same(open, (from + n) + 1, scan[n + 1], read[n + 1])
      BY <3>1, <3>2, <3>3, <3>4, SameKeeps
    <3>6. read[n + 1].escaped => read[n + 1].inString
      BY <3>2, <3>3, EscapesInside
    <3> QED BY <3>1, <3>5, <3>6
  <2>3. 0 .. (M - 2) \subseteq P
    <3> HIDE DEF P
    <3> QED BY <2>1, <2>2, InductionUpTo
  <2> SUFFICES ASSUME NEW n \in 1 .. (M - 1)
               PROVE  Same(open, from + n, scan[n], read[n]) /\ (read[n].escaped => read[n].inString)
    OBVIOUS
  <2>4. n - 1 \in 0 .. (M - 2) /\ (n - 1) + 1 = n
    OBVIOUS
  <2> QED BY <2>3, <2>4
\* The last one closes it.
<1>7. scan[M].end = from + M
  <2>1. M - 1 \in 1 .. (M - 1) /\ M \in 1 .. M /\ from + (M - 1) \in Nat /\ (from + (M - 1)) + 1 = from + M /\ M \in 0 .. M
    BY <1>5
  <2>2. Same(open, from + (M - 1), scan[M - 1], read[M - 1]) /\ (read[M - 1].escaped => read[M - 1].inString)
    BY <1>6, <2>1
  <2>3. /\ scan[M] = scanStep(open, scan[M - 1], char[M]) /\ read[M] = readChar(read[M - 1], char[M])
        /\ char[M] \in Char /\ ~Spoilt(read[M].stack)
    BY <1>1, <1>2, <2>1
  <2>4. scan[M].end = (from + (M - 1)) + 1
    <3> DEFINE n == from + (M - 1)
    <3>1. n \in Nat /\ Same(open, n, scan[M - 1], read[M - 1]) /\ readChar(read[M - 1], char[M]).stack = <<>>
      BY <2>1, <2>2, <2>3
    <3> HIDE DEF n
    <3>2. scanStep(open, scan[M - 1], char[M]).end = n + 1
      BY <2>2, <2>3, <3>1, SameEnds
    <3> QED BY <2>3, <3>2 DEF n
  <2> QED BY <2>1, <2>4
\* Nothing behind it matters.
<1>8. \A n \in 0 .. (N - M) : scan[M + n].end = from + M
  <2> DEFINE P == {n \in 0 .. (N - M) : scan[M + n].end = from + M}
  <2>1. N - M \in Nat /\ 0 \in P
    BY <1>7
  <2>2. ASSUME NEW n \in 1 .. (N - M), n - 1 \in P PROVE n \in P
    <3>1. M + n \in 1 .. N /\ (M + n) - 1 = M + (n - 1) /\ M + (n - 1) \in 0 .. N /\ from + M # 0
      OBVIOUS
    <3>2. scan[M + n] = scanStep(open, scan[M + (n - 1)], char[M + n]) /\ scan[M + (n - 1)] \in ScanState
      BY <3>1
    <3>3. scan[M + (n - 1)].end = from + M
      BY <2>2
    <3>4. scan[M + n] = scan[M + (n - 1)]
      <4> DEFINE st == scan[M + (n - 1)]
      <4>1. st \in ScanState /\ st.end # 0 /\ scan[M + n] = scanStep(open, st, char[M + n])
        BY <3>1, <3>2, <3>3
      <4> HIDE DEF st
      <4>2. scanStep(open, st, char[M + n]) = st
        BY <4>1, ScanCases
      <4> QED BY <4>1, <4>2 DEF st
    <3> QED BY <3>3, <3>4
  <2>3. 0 .. (N - M) \subseteq P
    <3> HIDE DEF P
    <3> QED BY <2>1, <2>2, InductionUpTo
  <2> QED BY <2>3
<1>9. N - M \in 0 .. (N - M) /\ M + (N - M) = N
  OBVIOUS
<1> QED BY <1>8, <1>9

\* The scanner returns the value that begins at the first bracket.
LEMMA ScannerReturns ==
    ASSUME NEW text \in Seq(Char)
    PROVE  LET start == firstBracket(text)
           IN  start > 0 /\ pairsBefore(text, start) = {} =>
                   \A n \in start .. Len(text) :
                       isValue(SubSeq(text, start, n)) => extractFirstJsonValue(text) = SubSeq(text, start, n)
<1> DEFINE start == firstBracket(text)
           L == Len(text)
<1>1. L \in Nat /\ \A k \in 1 .. L : text[k] \in Char
  OBVIOUS
<1>2. start > 0 => start \in 1 .. L /\ opener(text[start])
  <2> DEFINE I == {i \in 1 .. L : opener(text[i])}
  <2>1. start = IF I # {} THEN Min(I) ELSE 0
    BY DEF SelectInSeq, firstBracket
  <2>2. CASE I # {}
    <3>1. I \subseteq Nat
      OBVIOUS
    <3>2. \E m \in I : \A k \in I : m <= k
      <4> HIDE DEF I
      <4> QED BY <2>2, <3>1, LeastNat
    <3>3. Min(I) \in I
      BY <3>2 DEF Min
    <3> QED BY <2>1, <2>2, <3>3
  <2>3. CASE I = {}
    BY <2>1, <2>3
  <2> QED BY <2>2, <2>3
<1> SUFFICES ASSUME start > 0, pairsBefore(text, start) = {}, NEW n \in start .. L, isValue(SubSeq(text, start, n))
             PROVE  extractFirstJsonValue(text) = SubSeq(text, start, n)
  OBVIOUS
<1>3. start \in 1 .. L /\ opener(text[start])
  BY <1>2
<1> DEFINE value == SubSeq(text, start, n)
           open == text[start]
           N == (L - start) + 1
           M == (n - start) + 1
           st0 == [at |-> start - 1, depth |-> 0, inString |-> FALSE, escaped |-> FALSE, end |-> 0]
           rd0 == [stack |-> <<>>, inString |-> FALSE, escaped |-> FALSE]
           DefS(f) == f = [k \in 0 .. L |-> IF k < start THEN st0 ELSE scanStep(open, f[k - 1], text[k])]
           DefR(f) == f = [k \in 0 .. M |-> IF k = 0 THEN rd0 ELSE readChar(f[k - 1], value[k])]
           scan == CHOOSE f : DefS(f)
           read == CHOOSE f : DefR(f)
<1>4. Len(value) = M /\ M \in 1 .. N /\ N \in Nat /\ \A k \in 1 .. M : value[k] = text[start + k - 1]
  <2>1. start \in 1 .. Len(text) + 1 /\ n \in (start - 1) .. Len(text) /\ n \in Nat
    BY <1>1, <1>3
  <2> HIDE DEF start
  <2>2. /\ Len(SubSeq(text, start, n)) = n - start + 1
        /\ \A k \in 1 .. (n - start + 1) : SubSeq(text, start, n)[k] = text[start + k - 1]
    BY <2>1, SubSeqProperties
  <2> QED BY <1>1, <1>3, <2>2
<1>5. extractFirstJsonValue(text) = IF start = 0 \/ scan[L].end = 0 THEN <<>> ELSE SubSeq(text, start, scan[L].end)
  <2>1. Cardinality(pairsBefore(text, start)) = 0
    BY FS_EmptySet, Zenon
  <2>2. start - 0 = start /\ start # 0
    BY <1>3
  <2>3. extractFirstJsonValue(text) = scanFrom(text, IF start = 0 THEN 0 ELSE start - Cardinality(pairsBefore(text, start)))
    BY Zenon DEF extractFirstJsonValue
  <2>4. extractFirstJsonValue(text) = scanFrom(text, start)
    BY <2>1, <2>2, <2>3, Zenon
  <2> HIDE DEF start
  <2> QED BY <2>4 DEF scanFrom
<1>6. /\ read[M].stack = <<>>
      /\ \A k \in 1 .. (M - 1) : read[k].stack # <<>>
  <2> HIDE DEF M, value
  <2>1. isValue(value) <=> LET after == CHOOSE f : f = [k \in 0 .. Len(value) |-> IF k = 0 THEN rd0 ELSE readChar(f[k - 1], value[k])]
                           IN  /\ after[Len(value)].stack = <<>> /\ ~after[Len(value)].inString
                               /\ \A k \in 1 .. (Len(value) - 1) : after[k].stack # <<>>
    BY DEF isValue
  <2>2. isValue(value)
    BY DEF value
  <2> QED BY <1>4, <2>1, <2>2
<1>7. st0 \in ScanState /\ rd0 \in ReadState
  BY <1>3 DEF ScanState, ReadState
<1> HIDE DEF st0, rd0, value, open, start, L
<1>8. start \in Int /\ n \in Int /\ L \in Int /\ 1 <= start /\ start <= L /\ n <= L
  BY <1>1, <1>3
<1>9. M = (n - start) + 1 /\ N = (L - start) + 1
  OBVIOUS
<1>10. ASSUME NEW k \in 1 .. M PROVE value[k] \in Char /\ value[k] = text[(start - 1) + k]
  <2> HIDE DEF M, N
  <2>1. k \in Int /\ 1 <= k /\ k <= (n - start) + 1
    BY <1>8, <1>9
  <2>2. start + k - 1 \in 1 .. L /\ start + k - 1 = (start - 1) + k
    BY <1>8, <2>1
  <2>3. value[k] = text[start + k - 1]
    BY <1>4
  <2> QED BY <1>1, <2>2, <2>3
<1>11. \E f : DefS(f)
  <2> DEFINE turn == [k \in 1 .. L |-> [v \in ScanState |-> IF k < start THEN st0 ELSE scanStep(open, v, text[k])]]
  <2>1. \A k \in 1 .. L, v \in ScanState : turn[k][v] = IF k < start THEN st0 ELSE scanStep(open, v, text[k])
    OBVIOUS
  <2>2. \A k \in 1 .. L, v \in ScanState : turn[k][v] \in ScanState
    <3> HIDE DEF turn
    <3> QED BY <1>7, <2>1, ScanCases
  <2> HIDE DEF turn
  <2>3. PICK f : Loop(f, L, st0, turn)
    BY <1>1, LoopExists
  <2>4. f \in [0 .. L -> ScanState] /\ f[0] = st0 /\ \A k \in 1 .. L : f[k] = turn[k][f[k - 1]]
    BY <1>1, <1>7, <2>2, <2>3, LoopTyped
  <2>5. \A k \in 1 .. L : k - 1 \in 0 .. L
    BY <1>1
  <2>6. \A k \in 1 .. L : f[k] = IF k < start THEN st0 ELSE scanStep(open, f[k - 1], text[k])
    BY <2>1, <2>4, <2>5
  <2>7. \A k \in 0 .. L : f[k] = IF k < start THEN st0 ELSE scanStep(open, f[k - 1], text[k])
    BY <1>1, <1>3, <2>4, <2>6
  <2>8. f = [k \in 0 .. L |-> f[k]]
    BY <2>4
  <2> QED BY <2>7, <2>8
<1>12. \E f : DefR(f)
  <2> DEFINE turn == [k \in 1 .. M |-> [v \in ReadState |-> readChar(v, value[k])]]
  <2>1. \A k \in 1 .. M, v \in ReadState : turn[k][v] = readChar(v, value[k])
    OBVIOUS
  <2>2. \A k \in 1 .. M : value[k] \in Char
    <3> HIDE DEF M, N
    <3> QED BY <1>10
  <2>3. \A k \in 1 .. M, v \in ReadState : turn[k][v] \in ReadState
    <3>1. \A v \in ReadState, c \in Char : readChar(v, c) \in ReadState
      BY ReadCases
    <3> HIDE DEF turn, M
    <3> QED BY <2>1, <2>2, <3>1
  <2> HIDE DEF turn, M
  <2>4. PICK f : Loop(f, M, rd0, turn)
    BY <1>4, LoopExists
  <2>5. f \in [0 .. M -> ReadState] /\ f[0] = rd0 /\ \A k \in 1 .. M : f[k] = turn[k][f[k - 1]]
    BY <1>4, <1>7, <2>3, <2>4, LoopTyped
  <2>6. \A k \in 1 .. M : k - 1 \in 0 .. M
    BY <1>4
  <2>7. \A k \in 1 .. M : f[k] = readChar(f[k - 1], value[k])
    BY <2>1, <2>5, <2>6
  <2>8. \A k \in 0 .. M : f[k] = IF k = 0 THEN rd0 ELSE readChar(f[k - 1], value[k])
    BY <1>4, <2>5, <2>7
  <2>9. f = [k \in 0 .. M |-> f[k]]
    BY <2>5
  <2> QED BY <2>8, <2>9
<1>13. DefS(scan) /\ DefR(read)
  BY <1>11, <1>12
<1>14. scan \in [0 .. L -> ScanState]
  <2> DEFINE P == {k \in 0 .. L : scan[k] \in ScanState}
  <2> HIDE DEF scan
  <2>1. 0 \in P
    BY <1>1, <1>3, <1>7, <1>13
  <2>2. ASSUME NEW k \in 1 .. L, k - 1 \in P PROVE k \in P
    BY <1>1, <1>7, <1>13, <2>2, ScanCases
  <2>3. 0 .. L \subseteq P
    <3> HIDE DEF P
    <3> QED BY <1>1, <2>1, <2>2, InductionUpTo
  <2>4. scan = [k \in 0 .. L |-> scan[k]]
    BY <1>13
  <2> QED BY <2>3, <2>4
<1>15. read \in [0 .. M -> ReadState]
  <2> DEFINE P == {k \in 0 .. M : read[k] \in ReadState}
  <2> HIDE DEF read, M
  <2>1. 0 \in P
    BY <1>4, <1>7, <1>13
  <2>2. ASSUME NEW k \in 1 .. M, k - 1 \in P PROVE k \in P
    <3>1. value[k] \in Char
      BY <1>10
    <3>2. read[k] = readChar(read[k - 1], value[k]) /\ read[k - 1] \in ReadState /\ k \in 0 .. M
      BY <1>4, <1>13, <2>2
    <3> QED BY <3>1, <3>2, ReadCases
  <2>3. 0 .. M \subseteq P
    <3> HIDE DEF P
    <3>1. M \in Nat
      BY <1>4
    <3> QED BY <2>1, <2>2, <3>1, InductionUpTo
  <2>4. read = [k \in 0 .. M |-> read[k]]
    BY <1>13
  <2> QED BY <2>3, <2>4
<1> HIDE DEF scan, read, N, M
<1> DEFINE scanned == [k \in 0 .. N |-> scan[(start - 1) + k]]
           char == [k \in 1 .. N |-> text[(start - 1) + k]]
<1>16. scanned[N].end = (start - 1) + M
  <2>1. /\ start - 1 \in Nat /\ (start - 1) + N = L /\ start - 1 \in 0 .. L
        /\ \A k \in 0 .. N : (start - 1) + k \in 0 .. L
        /\ \A k \in 1 .. N : (start - 1) + k \in start .. L /\ (start - 1) + k \in 1 .. L
                            /\ ((start - 1) + k) - 1 = (start - 1) + (k - 1) /\ k - 1 \in 0 .. N /\ ~((start - 1) + k < start)
    BY <1>1, <1>3 DEF N
  <2>2. scanned \in [0 .. N -> ScanState]
    BY <1>14, <2>1
  <2>3. scanned[0] = st0
    <3>1. scan[start - 1] = st0
      BY <1>3, <1>13, <2>1
    <3>2. scanned[0] = scan[(start - 1) + 0] /\ (start - 1) + 0 = start - 1
      BY <1>4, <2>1
    <3> QED BY <3>1, <3>2
  <2>4. char \in [1 .. N -> Char] /\ char[1] = open
    <3>1. char \in [1 .. N -> Char]
      BY <1>1, <2>1
    <3>2. 1 \in 1 .. N /\ (start - 1) + 1 = start
      BY <1>3, <1>4
    <3> QED BY <3>1, <3>2 DEF open
  <2>5. ASSUME NEW k \in 1 .. N PROVE scanned[k] = scanStep(open, scanned[k - 1], char[k])
    <3>1. scan[(start - 1) + k] = scanStep(open, scan[((start - 1) + k) - 1], text[(start - 1) + k])
      BY <1>13, <2>1
    <3> QED BY <2>1, <3>1
  <2>6. read[0] = rd0 /\ \A k \in 1 .. M : read[k] = readChar(read[k - 1], char[k])
    <3>1. read[0] = rd0 /\ \A k \in 1 .. M : read[k] = readChar(read[k - 1], value[k])
      BY <1>4, <1>13
    <3>2. \A k \in 1 .. M : k \in 1 .. N /\ char[k] = text[(start - 1) + k]
      <4>1. \A k \in 1 .. M : k \in 1 .. N
        BY <1>4
      <4> QED BY <4>1
    <3>3. \A k \in 1 .. M : value[k] = text[(start - 1) + k]
      BY <1>10
    <3> HIDE DEF char
    <3> QED BY <3>1, <3>2, <3>3
  <2>7. open \in {"brace", "bracket"}
    BY <1>3 DEF opener, open
  <2> DEFINE from == start - 1
  <2>8. from \in Nat /\ scanned[0] = ScanStart(from)
    BY <2>1, <2>3 DEF st0, ScanStart
  <2>9. read[0] = ReadStart
    BY <2>6 DEF rd0, ReadStart
  <2> HIDE DEF from, scanned, char
  <2>10. scanned[N].end = from + M
    <3>1. \A k \in 1 .. M : read[k] = readChar(read[k - 1], char[k])
      BY <2>6
    <3> HIDE DEF value
    <3>2. N \in Nat /\ M \in 1 .. N
      BY <1>4
    <3>3. ReadsValue(N, M, open, char, from, scanned, read)
      BY <1>6, <1>15, <2>2, <2>4, <2>5, <2>7, <2>8, <2>9, <3>1, <3>2 DEF ReadsValue
    <3> QED BY <3>3, ScanEnds
  <2> QED BY <2>10 DEF from
<1>17. scanned[N] = scan[L] /\ (start - 1) + M = n
  <2>1. (start - 1) + N = L /\ (start - 1) + M = n
    BY <1>8, <1>9
  <2>2. N \in 0 .. N
    BY <1>4
  <2> QED BY <2>1, <2>2
<1>18. scan[L].end = n /\ n # 0 /\ start # 0
  <2>1. start \in Int /\ 1 <= start /\ n \in start .. L
    BY <1>8
  <2>2. n # 0 /\ start # 0
    BY <1>8, <2>1
  <2> HIDE DEF scanned
  <2>3. scan[L].end = n
    BY <1>16, <1>17
  <2> QED BY <2>2, <2>3
<1> QED BY <1>5, <1>18


-----------------------------------------------------------------------------
(* ModelCall: the call and its telemetry                                   *)

\* What holds before and after every step of a call.
McInv ==
    /\ mcPc \in {"idle", "object", "text", "failed", "unavailable", "done", "parsed"}
    /\ mcPc # "done" => mcIndex = {}
    /\ TelemetryTellsOutcome /\ RecordComplete /\ UsageAddsUp
    /\ mcPc = "parsed" => mcText \in Seq(Char) /\ mcOut = extractFirstJsonValue(mcText)

\* The greatest of one to three numbers.
LEMMA MaxIs ==
    ASSUME NEW T, T \subseteq Nat, NEW m \in T, \A k \in T : k <= m
    PROVE  Max(T) = m
<1>1. \A x \in T : (\A y \in T : x >= y) => x = m
  OBVIOUS
<1>2. \A y \in T : m >= y
  OBVIOUS
<1> QED BY <1>1, <1>2 DEF Max

\* What is reported is taken as it is, and what is not reported is the default.
LEMMA OrIs ==
    ASSUME NEW S \in Reported, NEW d \in Nat
    PROVE  /\ Or(S, d) \in Nat
           /\ S = {} => Or(S, d) = d
           /\ S # {} => S = {Or(S, d)}
<1>1. S = {} \/ \E n \in Tokens : S = {n}
  BY DEF Reported
<1>2. CASE S = {}
  BY <1>2 DEF Or
<1>3. CASE S # {}
  <2>1. PICK n \in Tokens : S = {n}
    BY <1>1, <1>3
  <2>2. n \in Nat
    BY <2>1, ModelCallAssumption
  <2>3. \E k \in S : TRUE
    BY <2>1
  <2>4. (CHOOSE k \in S : TRUE) \in S
    BY <2>3
  <2>5. Or(S, d) = (CHOOSE k \in S : TRUE)
    BY <1>3 DEF Or
  <2>6. Or(S, d) = n
    BY <2>1, <2>4, <2>5
  <2> QED BY <1>3, <2>1, <2>2, <2>6
<1> QED BY <1>2, <1>3

\* The counts of a usage record are no less than zero, and where one of them is
\* not reported the parts make up the greatest number reported.
AddsUp(u) ==
    /\ u.input >= 0 /\ u.output >= 0
    /\ (\E k \in 1 .. 3 : u.reported[k] = {}) =>
           u.input + u.output = Max({u.total} \cup u.reported[1] \cup u.reported[2])

\* A usage record adds up, whatever was left out.
LEMMA RecordAddsUp ==
    ASSUME NEW i \in Reported, NEW o \in Reported, NEW t \in Reported, NEW status,
           NEW u, u = usageRecordFromProvider(i, o, t, status)
    PROVE  AddsUp(u)
<1>3. \A k \in Nat, j \in Nat : restOf(k, j) \in Nat /\ restOf(k, j) = IF k < j THEN 0 ELSE k - j
  BY DEF restOf, AtLeastZero
<1>4. u.reported = <<i, o, t>>
  BY DEF usageRecordFromProvider
<1> DEFINE R == {u.total} \cup i \cup o
<1>5. /\ u.input >= 0 /\ u.output >= 0
      /\ i = {} \/ o = {} \/ t = {} => u.input + u.output = Max(R)
      => AddsUp(u)
  <2>1. (\E k \in 1 .. 3 : u.reported[k] = {}) <=> i = {} \/ o = {} \/ t = {}
    <3>1. \A k \in 1 .. 3 : k = 1 \/ k = 2 \/ k = 3
      OBVIOUS
    <3>2. 1 \in 1 .. 3 /\ 2 \in 1 .. 3 /\ 3 \in 1 .. 3
      OBVIOUS
    <3>3. u.reported[1] = i /\ u.reported[2] = o /\ u.reported[3] = t
      BY <1>4
    <3> HIDE DEF R
    <3> QED BY <3>1, <3>2, <3>3
  <2>2. {u.total} \cup u.reported[1] \cup u.reported[2] = R
    BY <1>4
  <2> HIDE DEF R
  <2> QED BY <2>1, <2>2 DEF AddsUp
<1>6. CASE i = {} /\ o = {} /\ t = {}
  <2>1. u.input = 1 /\ u.output = 1 /\ u.total = 2
    BY <1>6 DEF usageRecordFromProvider
  <2>2. R = {2}
    BY <1>6, <2>1
  <2>3. Max(R) = 2
    BY <2>2, MaxIs
  <2> HIDE DEF R
  <2> QED BY <1>5, <2>1, <2>3
<1>7. CASE ~(i = {} /\ o = {} /\ t = {})
  <2> DEFINE T == Or(t, 0)
             O == Or(o, 0)
             input == Or(i, restOf(T, O))
             output == Or(o, restOf(T, input))
             total == Or(t, input + output)
  <2>1. u.input = input /\ u.output = output /\ u.total = total
    BY <1>7 DEF usageRecordFromProvider
  <2>2. T \in Nat /\ (t = {} => T = 0) /\ (t # {} => t = {T})
    BY OrIs
  <2>3. O \in Nat /\ (o = {} => O = 0) /\ (o # {} => o = {O})
    BY OrIs
  <2> HIDE DEF T, O
  <2>4. restOf(T, O) \in Nat /\ restOf(T, O) = IF T < O THEN 0 ELSE T - O
    BY <1>3, <2>2, <2>3
  <2>5. input \in Nat /\ (i = {} => input = restOf(T, O)) /\ (i # {} => i = {input})
    BY <2>4, OrIs
  <2> HIDE DEF input
  <2>6. restOf(T, input) \in Nat /\ restOf(T, input) = IF T < input THEN 0 ELSE T - input
    BY <1>3, <2>2, <2>5
  <2>7. output \in Nat /\ (o = {} => output = restOf(T, input)) /\ (o # {} => o = {output})
    BY <2>6, OrIs
  <2>8. o # {} => output = O
    BY <2>3, <2>7
  <2> HIDE DEF output
  <2>9. total \in Nat /\ (t = {} => total = input + output) /\ (t # {} => t = {total})
    <3>1. input + output \in Nat
      BY <2>5, <2>7
    <3> QED BY <3>1, OrIs
  <2>10. t # {} => total = T
    BY <2>2, <2>9
  <2> HIDE DEF total
  <2>11. R = {total} \cup i \cup o
    BY <2>1
  <2> HIDE DEF R
  <2>12. CASE i = {} /\ o = {}
    <3>1. t # {}
      BY <1>7, <2>12
    <3>2. total = T /\ input = T /\ output = 0
      BY <2>2, <2>3, <2>4, <2>5, <2>6, <2>7, <2>10, <2>12, <3>1
    <3>3. R = {T}
      BY <2>11, <2>12, <3>2
    <3>4. Max(R) = T
      BY <2>2, <3>3, MaxIs
    <3> QED BY <1>5, <2>1, <2>2, <3>2, <3>4
  <2>13. CASE i = {} /\ o # {}
    <3>1. R = {total, O} /\ output = O
      BY <2>7, <2>8, <2>11, <2>13
    <3>2. input = IF T < O THEN 0 ELSE T - O
      BY <2>4, <2>5, <2>13
    <3>3. total = IF t = {} THEN O ELSE T
      BY <2>2, <2>3, <2>9, <2>10, <3>1, <3>2
    <3>4. t = {} => T = 0
      BY <2>2
    <3>5. Max(R) = IF T < O THEN O ELSE T
      <4>1. total <= O \/ O <= total
        BY <2>2, <2>3, <3>3
      <4>2. CASE T < O
        BY <2>2, <2>3, <3>1, <3>3, <4>2, MaxIs
      <4>3. CASE ~(T < O)
        <5>1. total = T /\ O <= T
          BY <2>2, <2>3, <3>3, <3>4, <4>3
        <5> QED BY <2>2, <2>3, <3>1, <4>3, <5>1, MaxIs
      <4> QED BY <4>2, <4>3
    <3> QED BY <1>5, <2>1, <2>2, <2>3, <3>1, <3>2, <3>5
  <2>14. CASE i # {} /\ o = {}
    <3>1. R = {total, input}
      BY <2>5, <2>11, <2>14
    <3>2. output = IF T < input THEN 0 ELSE T - input
      BY <2>6, <2>7, <2>14
    <3>3. total = IF t = {} THEN input ELSE T
      BY <2>2, <2>5, <2>9, <2>10, <3>2
    <3>4. t = {} => T = 0
      BY <2>2
    <3>5. Max(R) = IF T < input THEN input ELSE T
      <4>2. CASE T < input
        BY <2>2, <2>5, <3>1, <3>3, <4>2, MaxIs
      <4>3. CASE ~(T < input)
        <5>1. total = T /\ input <= T
          BY <2>2, <2>5, <3>3, <3>4, <4>3
        <5> QED BY <2>2, <2>5, <3>1, <4>3, <5>1, MaxIs
      <4> QED BY <4>2, <4>3
    <3> QED BY <1>5, <2>1, <2>2, <2>5, <3>2, <3>5
  <2>15. CASE i # {} /\ o # {}
    <3>1. CASE t # {}
      BY <1>5, <2>1, <2>5, <2>7, <2>15, <3>1
    <3>2. CASE t = {}
      <4>1. R = {input + output, input, output}
        BY <2>5, <2>7, <2>9, <2>11, <2>15, <3>2
      <4>2. Max(R) = input + output
        BY <2>5, <2>7, <4>1, MaxIs
      <4> QED BY <1>5, <2>1, <2>5, <2>7, <4>2
    <3> QED BY <3>1, <3>2
  <2> QED BY <2>12, <2>13, <2>14, <2>15
<1> QED BY <1>6, <1>7

\* The property of the state is the one of its record.
LEMMA UsageOfRecord == UsageAddsUp <=> AddsUp(mcUsage)
BY DEF UsageAddsUp, AddsUp

\* What a sequence of telemetry writes leaves when it stops after n of them.
LEMMA PersistLeaves ==
    ASSUME NEW status, NEW n \in WritesDone, persist(status, n)
    PROVE  /\ mcFiles \subseteq mcFiles'
           /\ ~mcIn.persist \/ n # 4 => mcIndex' = mcIndex
           /\ mcIn.persist /\ n = 4 => /\ mcIndex' = mcIndex \cup {status}
                                       /\ \A p \in {"prompt", "response", "call"} : <<status, p>> \in mcFiles'
<1>1. n \in 0 .. 4
  BY DEF WritesDone
<1>2. CASE ~mcIn.persist
  BY <1>2 DEF persist
<1>3. CASE mcIn.persist
  <2> DEFINE done == {writeOrder[k] : k \in 1 .. n}
  <2>1. /\ mcFiles' = mcFiles \cup {<<status, p>> : p \in done \ {"index"}}
        /\ mcIndex' = IF "index" \in done THEN mcIndex \cup {status} ELSE mcIndex
    BY <1>3 DEF persist
  <2>2. /\ writeOrder[1] = "prompt" /\ writeOrder[2] = "response" /\ writeOrder[3] = "call"
        /\ writeOrder[4] = "index"
    BY DEF writeOrder
  <2>3. CASE n # 4
    <3>1. \A k \in 1 .. n : k \in {1, 2, 3}
      BY <1>1, <2>3
    <3>2. "index" \notin done
      BY <2>2, <3>1
    <3> QED BY <2>1, <2>3, <3>2
  <2>4. CASE n = 4
    <3>1. 1 \in 1 .. n /\ 2 \in 1 .. n /\ 3 \in 1 .. n /\ 4 \in 1 .. n
      BY <2>4
    <3>2. {"prompt", "response", "call", "index"} \subseteq done
      BY <2>2, <3>1
    <3> QED BY <1>3, <2>1, <2>4, <3>2
  <2> QED BY <2>3, <2>4
<1> QED BY <1>2, <1>3

\* The index names no record whose files are missing, whatever is written.
LEMMA RecordsStayComplete ==
    ASSUME RecordComplete, NEW status, NEW n \in WritesDone, persist(status, n)
    PROVE  RecordComplete'
<1>1. mcFiles \subseteq mcFiles'
  BY PersistLeaves
<1>2. CASE ~mcIn.persist \/ n # 4
  <2>1. mcIndex' = mcIndex
    BY <1>2, PersistLeaves
  <2> QED BY <1>1, <2>1 DEF RecordComplete
<1>3. CASE mcIn.persist /\ n = 4
  <2>1. /\ mcIndex' = mcIndex \cup {status}
        /\ \A p \in {"prompt", "response", "call"} : <<status, p>> \in mcFiles'
    BY <1>3, PersistLeaves
  <2>2. \A q \in mcIndex, p \in {"prompt", "response", "call"} : <<q, p>> \in mcFiles
    BY DEF RecordComplete
  <2>3. \A q \in mcIndex', p \in {"prompt", "response", "call"} : <<q, p>> \in mcFiles'
    BY <1>1, <2>1, <2>2
  <2> QED BY <2>3 DEF RecordComplete
<1> QED BY <1>2, <1>3

\* The first state.
LEMMA McInitInv == McInit => McInv
<1> SUFFICES ASSUME McInit PROVE McInv
  OBVIOUS
<1>1. UsageAddsUp
  <2>1. mcUsage.input = 0 /\ mcUsage.output = 0 /\ mcUsage.total = 0 /\ mcUsage.reported = <<{}, {}, {}>>
    BY DEF McInit, NoUsage
  <2>2. {mcUsage.total} \cup mcUsage.reported[1] \cup mcUsage.reported[2] = {0}
    BY <2>1
  <2>3. Max({0}) = 0
    BY MaxIs
  <2> QED BY <2>1, <2>2, <2>3 DEF UsageAddsUp
<1> QED BY <1>1 DEF McInit, McInv, TelemetryTellsOutcome, RecordComplete

\* An answer that fits is returned with its usage, or the next request is made.
LEMMA AcceptedKeeps ==
    ASSUME McInv, NEW from, NEW status, NEW next \in {"text", "failed"}, Accepted(from, status, next),
           mcPc \in {"object", "text"}, UNCHANGED <<mcIn, mcText>>
    PROVE  McInv'
<1>1. PICK n \in WritesDone : /\ persist("success", n)
                          /\ IF n = 4 THEN Returned(from, status)
                             ELSE mcPc' = next /\ UNCHANGED <<mcOut, mcObject, mcUsage>>
  BY DEF Accepted
<1>2. RecordComplete' /\ mcIndex = {}
  BY <1>1, RecordsStayComplete DEF McInv
<1>3. CASE n = 4
  <2>1. mcPc' = "done" /\ mcOut' = "object" /\ \E i, o, t \in Reported : mcUsage' = usageRecordFromProvider(i, o, t, status)
    BY <1>1, <1>3 DEF Returned
  <2>2. UsageAddsUp'
    <3>1. PICK i \in Reported, o \in Reported, t \in Reported : mcUsage' = usageRecordFromProvider(i, o, t, status)
      BY <2>1
    <3>2. AddsUp(mcUsage')
      BY <3>1, RecordAddsUp
    <3> QED BY <3>2 DEF UsageAddsUp, AddsUp
  <2>3. mcIn.persist => mcIndex' = {"success"}
    BY <1>1, <1>2, <1>3, PersistLeaves
  <2>4. TelemetryTellsOutcome'
    BY <2>1, <2>3 DEF TelemetryTellsOutcome
  <2> QED BY <1>2, <2>1, <2>2, <2>4 DEF McInv
<1>4. CASE n # 4
  <2>1. mcPc' = next /\ UNCHANGED <<mcOut, mcObject, mcUsage>>
    BY <1>1, <1>4
  <2>2. mcIndex' = {}
    BY <1>1, <1>2, <1>4, PersistLeaves
  <2> QED BY <1>2, <2>1, <2>2 DEF McInv, TelemetryTellsOutcome, UsageAddsUp
<1> QED BY <1>3, <1>4

\* A call that fails leaves its record, or the error of the write that failed.
LEMMA FailedKeeps ==
    ASSUME McInv, mcPc # "done", NEW status, NEW out,
           \/ status = "failed" /\ out = "MODEL_ROLE_CALL_FAILED"
           \/ status = "provider_unavailable" /\ out = "MODEL_PROVIDER_UNAVAILABLE",
           NEW n \in WritesDone, persist(status, n), mcOut' = IF n = 4 THEN out ELSE "raw_error",
           mcPc' = "done", UNCHANGED <<mcIn, mcSent, mcObject, mcUsage, mcText>>
    PROVE  McInv'
<1>1. RecordComplete' /\ mcIndex = {} /\ UsageAddsUp'
  BY RecordsStayComplete DEF McInv, UsageAddsUp
<1>2. CASE n = 4
  <2>1. mcIn.persist => mcIndex' = {status}
    BY <1>1, <1>2, PersistLeaves
  <2>2. TelemetryTellsOutcome'
    BY <1>2, <2>1 DEF TelemetryTellsOutcome
  <2> QED BY <1>1, <2>2 DEF McInv
<1>3. CASE n # 4
  <2>1. mcIndex' = {}
    BY <1>1, <1>3, PersistLeaves
  <2>2. TelemetryTellsOutcome'
    BY <1>3, <2>1 DEF TelemetryTellsOutcome
  <2> QED BY <1>1, <2>2 DEF McInv
<1> QED BY <1>2, <1>3

\* Every step.
LEMMA McStepInv == McInv /\ [McNext]_mcVars => McInv'
<1> SUFFICES ASSUME McInv, [McNext]_mcVars PROVE McInv'
  OBVIOUS
<1>1. CASE ModelBegin
  BY <1>1 DEF ModelBegin, McInv, TelemetryTellsOutcome, RecordComplete, UsageAddsUp
<1>2. CASE ProviderUnavailable
  <2>1. PICK n \in WritesDone : /\ persist("provider_unavailable", n)
                            /\ mcOut' = IF n = 4 THEN "MODEL_PROVIDER_UNAVAILABLE" ELSE "raw_error"
    BY <1>2 DEF ProviderUnavailable
  <2> QED BY <1>2, <2>1, FailedKeeps DEF ProviderUnavailable
<1>3. CASE GenerateObject
  <2>1. CASE Accepted("object", "completed", "text")
    BY <1>3, <2>1, AcceptedKeeps DEF GenerateObject
  <2>2. CASE mcPc' = "text" /\ UNCHANGED <<mcObject, mcUsage, mcFiles, mcIndex, mcOut>>
    BY <1>3, <2>2 DEF GenerateObject, McInv, TelemetryTellsOutcome, RecordComplete, UsageAddsUp
  <2> QED BY <1>3, <2>1, <2>2 DEF GenerateObject
<1>4. CASE GenerateText
  <2>1. CASE Accepted("text", "fallback", "failed")
    BY <1>4, <2>1, AcceptedKeeps DEF GenerateText
  <2>2. CASE mcPc' = "failed" /\ UNCHANGED <<mcObject, mcUsage, mcFiles, mcIndex, mcOut>>
    BY <1>4, <2>2 DEF GenerateText, McInv, TelemetryTellsOutcome, RecordComplete, UsageAddsUp
  <2> QED BY <1>4, <2>1, <2>2 DEF GenerateText
<1>5. CASE RoleCallFailed
  <2>1. PICK n \in WritesDone : /\ persist("failed", n)
                            /\ mcOut' = IF n = 4 THEN "MODEL_ROLE_CALL_FAILED" ELSE "raw_error"
    BY <1>5 DEF RoleCallFailed
  <2> QED BY <1>5, <2>1, FailedKeeps DEF RoleCallFailed
<1>6. CASE ParseText
  <2>1. mcText' \in Seq(Char)
    <3>1. mcText' \in SeqOf(Char, TextBound)
      BY <1>6 DEF ParseText
    <3>2. PICK m \in 0 .. TextBound : mcText' \in [1 .. m -> Char]
      BY <3>1 DEF SeqOf
    <3> QED BY <3>2, ModelCallAssumption
  <2> QED BY <1>6, <2>1 DEF ParseText, McInv, TelemetryTellsOutcome, RecordComplete, UsageAddsUp
<1>7. CASE UNCHANGED mcVars
  BY <1>7 DEF mcVars, McInv, TelemetryTellsOutcome, RecordComplete, UsageAddsUp
<1> QED BY <1>1, <1>2, <1>3, <1>4, <1>5, <1>6, <1>7 DEF McNext

\* Every model call is accounted for: the index tells its outcome with the files of
\* the record, its token counts add up, and the value the scanner of the fallback
\* returns, short of an emoji before it, is the whole first one (model-route-executor.ts, model-call-indexing.ts,
\* provider-usage.ts).
THEOREM CallsAccountedHolds == McSpec => []CallsAccounted
<1>1. McInv => CallsAccounted
  <2> SUFFICES ASSUME McInv PROVE CallsAccounted
    OBVIOUS
  <2>1. ScannerFindsValue
    <3> SUFFICES ASSUME mcPc = "parsed" PROVE ScannerFindsValue
      BY DEF ScannerFindsValue
    <3>1. mcText \in Seq(Char) /\ mcOut = extractFirstJsonValue(mcText)
      BY DEF McInv
    <3> QED BY <3>1, ScannerReturns DEF ScannerFindsValue
  <2> QED BY <2>1 DEF CallsAccounted, McInv
<1> QED BY <1>1, McInitInv, McStepInv, PTL DEF McSpec

-----------------------------------------------------------------------------
(* EvalRun: a benchmark runs each pair of a scenario and a route once       *)

\* Sequences of sequences, flattened, are a sequence.
LEMMA FlattenOk ==
    ASSUME NEW S, NEW ss \in Seq(Seq(S))
    PROVE  FlattenSeq(ss) \in Seq(S)
<1> DEFINE N == Len(ss)
           Flat(f) == f = [i \in 1 .. N |-> IF i = 1 THEN ss[i] ELSE f[i - 1] \o ss[i]]
           flat == CHOOSE f : Flat(f)
           turn == [i \in 1 .. N |-> [v \in Seq(S) |-> IF i = 1 THEN ss[i] ELSE v \o ss[i]]]
<1>1. N \in Nat /\ \A i \in 1 .. N : ss[i] \in Seq(S)
  OBVIOUS
<1>2. CASE N = 0
  <2>1. ss = <<>>
    BY <1>2, EmptySeq
  <2>2. FlattenSeq(ss) = ss
    BY <1>2 DEF FlattenSeq
  <2>3. <<>> \in Seq(S)
    OBVIOUS
  <2> HIDE DEF N
  <2> QED BY <2>1, <2>2, <2>3
<1>3. CASE N # 0
  <2>1. \A i \in 1 .. N, v \in Seq(S) : turn[i][v] = IF i = 1 THEN ss[i] ELSE v \o ss[i]
    OBVIOUS
  <2>2. \A i \in 1 .. N, v \in Seq(S) : turn[i][v] \in Seq(S)
    <3> HIDE DEF turn, N
    <3>1. \A v, w \in Seq(S) : v \o w \in Seq(S)
      OBVIOUS
    <3> QED BY <1>1, <2>1, <3>1
  <2>3. <<>> \in Seq(S)
    OBVIOUS
  <2> HIDE DEF turn, N
  <2>4. PICK g : Loop(g, N, <<>>, turn)
    BY <1>1, LoopExists
  <2>5. g \in [0 .. N -> Seq(S)] /\ g[0] = <<>> /\ \A i \in 1 .. N : g[i] = turn[i][g[i - 1]]
    <3>1. N \in Nat
      BY <1>1
    <3> DEFINE X == Seq(S)
               e == <<>>
    <3>2. e \in X
      BY <2>3
    <3>4. Loop(g, N, e, turn)
      BY <2>4
    <3>5. \A i \in 1 .. N, v \in X : turn[i][v] \in X
      BY <2>2
    <3> HIDE DEF X, e, Flat, flat
    <3>3. g \in [0 .. N -> X] /\ g[0] = e /\ \A i \in 1 .. N : g[i] = turn[i][g[i - 1]]
      BY <3>1, <3>2, <3>4, <3>5, LoopTyped, SMTT(60)
    <3> QED BY <3>3 DEF X, e
  <2>6. \A i \in 1 .. N : g[i] \in Seq(S) /\ g[i - 1] \in Seq(S)
    <3>1. \A i \in 1 .. N : i \in 0 .. N /\ i - 1 \in 0 .. N
      BY <1>1
    <3> QED BY <2>5, <3>1
  <2> DEFINE h == [i \in 1 .. N |-> g[i]]
  <2>7. Flat(h)
    <3>1. ASSUME NEW i \in 1 .. N PROVE g[i] = IF i = 1 THEN ss[i] ELSE h[i - 1] \o ss[i]
      <4>1. g[i] = IF i = 1 THEN ss[i] ELSE g[i - 1] \o ss[i]
        BY <2>1, <2>5, <2>6
      <4>2. i # 1 => i - 1 \in 1 .. N
        BY <1>1
      <4> QED BY <4>1, <4>2
    <3> QED BY <3>1
  <2>8. Flat(flat)
    <3> HIDE DEF Flat, h
    <3> QED BY <2>7
  <2> HIDE DEF flat, h
  <2>9. FlattenSeq(ss) = flat[N]
    BY <1>3 DEF FlattenSeq, flat, N
  <2> DEFINE P == {i \in 0 .. N : i # 0 => flat[i] \in Seq(S)}
  <2>10. 0 \in P
    BY <1>1
  <2>11. ASSUME NEW i \in 1 .. N, i - 1 \in P PROVE i \in P
    <3>1. flat[i] = IF i = 1 THEN ss[i] ELSE flat[i - 1] \o ss[i]
      BY <2>8
    <3>2. i \in 0 .. N /\ (i # 1 => i - 1 # 0)
      BY <1>1
    <3>3. i # 1 => flat[i - 1] \in Seq(S)
      BY <2>11, <3>2
    <3>4. ss[i] \in Seq(S)
      BY <1>1
    <3>5. flat[i] \in Seq(S)
      BY <3>1, <3>3, <3>4
    <3> QED BY <3>2, <3>5
  <2>12. 0 .. N \subseteq P
    <3> HIDE DEF P
    <3> QED BY <1>1, <2>10, <2>11, InductionUpTo
  <2> QED BY <1>1, <1>3, <2>9, <2>12
<1> QED BY <1>2, <1>3

\* A pair that may call models: a route that applies with all its providers.
Live(x) ==
    \/ ~EvRoutes[x[2]].apply
    \/ ({"implementer", "repair", "reviewer", "escalation"}
          \cup (IF EvRoutes[x[2]].apply /\ evMode = "model" THEN {"planner"} ELSE {})) \subseteq EvRoutes[x[2]].providers

\* A row that is what it says.
RowOk(r) ==
    /\ r.status = "passed" =>
          LET s == EvScenarios[r.pair[1]]
          IN  /\ r.changed \cap s.forbidden = {} /\ s.required \subseteq r.changed
              /\ s.must_verify => r.verified
    /\ r.status = "skipped" => ~Live(r.pair)

\* What holds between the steps of a benchmark.
EvInv ==
    /\ evPc \in {"idle", "next", "plan", "apply", "patch", "done", "rejected"}
    /\ evTodo \in Seq(Nat \X Nat) /\ evWhole \in Seq(Nat \X Nat)
    /\ Len(evRows) \in Nat /\ evRows = [i \in 1 .. Len(evRows) |-> evRows[i]]
    /\ Len(evRows) + Len(evTodo) = Len(evWhole)
    /\ \A i \in 1 .. Len(evRows) : evRows[i].pair = evWhole[i] /\ RowOk(evRows[i])
    /\ \A i \in 1 .. Len(evTodo) : evTodo[i] = evWhole[Len(evRows) + i]
    /\ evPc \in {"plan", "apply", "patch"} => evTodo # <<>> /\ Live(Head(evTodo))
    /\ evPc = "done" => evTodo = <<>>
    /\ evPc = "idle" => evRows = <<>> /\ evDirs = {} /\ evCalled = {}
    /\ evPc \in {"next", "done"} /\ ~evRetain => evDirs = {}
    /\ evPc \in {"plan", "apply", "patch"} /\ ~evRetain => evDirs \subseteq {Head(evTodo)}
    /\ \A x \in evCalled : Live(x) /\ EvRoutes[x[2]].apply

\* A chosen part of the scenarios, and of the routes, is a sequence of numbers.
LEMMA ChosenOk ==
    /\ \A only, max \in Nat : filterScenarios(only, max) \in Seq(Nat)
    /\ \A only \in Nat : routesFor(only) \in Seq(Nat)
<1>1. ASSUME NEW S, NEW s \in Seq(S) PROVE [i \in DOMAIN s |-> i] \in Seq(Nat) /\ DOMAIN s = 1 .. Len(s) /\ Len(s) \in Nat
  <2>1. DOMAIN s = 1 .. Len(s) /\ Len(s) \in Nat
    OBVIOUS
  <2>2. [i \in 1 .. Len(s) |-> i] \in Seq(Nat)
    BY <2>1
  <2> QED BY <2>1, <2>2
<1>2. [i \in DOMAIN EvScenarios |-> i] \in Seq(Nat) /\ [i \in DOMAIN EvRoutes |-> i] \in Seq(Nat)
  BY <1>1, EvalAssumption
<1>3. \A all, id \in Nat : OneOf(all, id) \in Seq(Nat)
  <2>1. \A id \in Nat : <<id>> \in Seq(Nat) /\ <<>> \in Seq(Nat)
    OBVIOUS
  <2> QED BY <2>1 DEF OneOf
<1>4. \A only \in Nat : routesFor(only) \in Seq(Nat)
  BY <1>2, <1>3 DEF routesFor, OneOf
<1>5. ASSUME NEW only \in Nat, NEW max \in Nat PROVE filterScenarios(only, max) \in Seq(Nat)
  <2> DEFINE all == [i \in DOMAIN EvScenarios |-> i]
             chosen == IF only = 0 THEN all ELSE OneOf(all, only)
             k == IF max < Len(chosen) THEN max ELSE Len(chosen)
  <2>1. chosen \in Seq(Nat)
    BY <1>2, <1>3 DEF OneOf
  <2>2. filterScenarios(only, max) = IF max = 0 THEN chosen ELSE SubSeq(chosen, 1, k)
    BY DEF filterScenarios
  <2> HIDE DEF chosen
  <2>3. k \in 0 .. Len(chosen)
    BY <2>1
  <2> HIDE DEF k
  <2>4. SubSeq(chosen, 1, k) \in Seq(Nat)
    BY <2>1, <2>3
  <2> QED BY <2>1, <2>2, <2>4
<1> QED BY <1>4, <1>5

\* The pairs of a benchmark.
LEMMA PairsOk ==
    ASSUME NEW ss \in Seq(Nat), NEW rs \in Seq(Nat)
    PROVE  FlattenSeq([i \in DOMAIN ss |-> [j \in DOMAIN rs |-> <<ss[i], rs[j]>>]]) \in Seq(Nat \X Nat)
<1> DEFINE row(i) == [j \in DOMAIN rs |-> <<ss[i], rs[j]>>]
<1>1. \A i \in DOMAIN ss : row(i) \in Seq(Nat \X Nat)
  <2>1. DOMAIN rs = 1 .. Len(rs) /\ Len(rs) \in Nat /\ \A j \in DOMAIN rs : rs[j] \in Nat
    OBVIOUS
  <2>2. \A i \in DOMAIN ss : ss[i] \in Nat
    OBVIOUS
  <2>3. \A i \in DOMAIN ss : row(i) \in [1 .. Len(rs) -> Nat \X Nat]
    BY <2>1, <2>2
  <2> QED BY <2>1, <2>3
<1> HIDE DEF row
<1>2. [i \in DOMAIN ss |-> row(i)] \in Seq(Seq(Nat \X Nat))
  <2>1. DOMAIN ss = 1 .. Len(ss) /\ Len(ss) \in Nat
    OBVIOUS
  <2>2. [i \in 1 .. Len(ss) |-> row(i)] \in [1 .. Len(ss) -> Seq(Nat \X Nat)]
    BY <1>1, <2>1
  <2> DEFINE X == Seq(Nat \X Nat)
  <2>3. [i \in 1 .. Len(ss) |-> row(i)] \in [1 .. Len(ss) -> X]
    BY <2>2
  <2> HIDE DEF X
  <2>4. [i \in 1 .. Len(ss) |-> row(i)] \in Seq(X)
    BY <2>1, <2>3
  <2> QED BY <2>1, <2>4 DEF X
<1> QED BY <1>2, FlattenOk DEF row

\* The first state.
LEMMA EvInitInv == EvInit => EvInv
BY DEF EvInit, EvInv

\* A pair becomes a row, and the next one is up.
LEMMA PushKeeps ==
    ASSUME EvInv, evPc \in {"next", "plan", "apply", "patch"}, evTodo # <<>>, NEW row, Push(row), row.pair = Head(evTodo),
           RowOk(row), UNCHANGED <<evRetain, evMode, evWhole>>,
           ~evRetain => evDirs' = {}, \A x \in evCalled' : Live(x) /\ EvRoutes[x[2]].apply
    PROVE  EvInv'
<1>1. /\ evRows' = Append(evRows, row) /\ evTodo' = Tail(evTodo) /\ evPc' = "next"
  BY DEF Push
<1> DEFINE n == Len(evRows)
<1>2. Len(evTodo) \in Nat /\ Len(evTodo) # 0 /\ n \in Nat /\ evTodo \in Seq(Nat \X Nat)
      /\ n + Len(evTodo) = Len(evWhole)
  BY EmptySeq DEF EvInv
<1>3. evTodo' \in Seq(Nat \X Nat) /\ Len(evTodo') = Len(evTodo) - 1 /\ \A i \in 1 .. Len(evTodo') : evTodo'[i] = evTodo[i + 1]
  BY <1>1, <1>2
<1>4. Head(evTodo) = evTodo[1] /\ evTodo[1] = evWhole[n + 1]
  <2>1. 1 \in 1 .. Len(evTodo)
    BY <1>2
  <2>2. evTodo[1] = evWhole[Len(evRows) + 1]
    BY <2>1 DEF EvInv
  <2> QED BY <1>2, <2>2
<1>5. evRows \in Seq({evRows[i] : i \in 1 .. n})
  <2>1. evRows = [i \in 1 .. n |-> evRows[i]]
    BY DEF EvInv
  <2> HIDE DEF n
  <2>2. evRows \in [1 .. n -> {evRows[i] : i \in 1 .. n}]
    BY <2>1
  <2> QED BY <1>2, <2>2
<1>6. /\ Len(evRows') = n + 1 /\ evRows' = [i \in 1 .. (n + 1) |-> evRows'[i]] /\ evRows'[n + 1] = row
      /\ \A i \in 1 .. n : evRows'[i] = evRows[i]
  <2> DEFINE R == {evRows[i] : i \in 1 .. n} \cup {row}
  <2>1. evRows \in Seq(R) /\ row \in R
    BY <1>5
  <2> HIDE DEF R
  <2>2. Append(evRows, row) \in Seq(R)
    BY <2>1, AppendProperties
  <2>3. /\ Len(Append(evRows, row)) = n + 1 /\ Append(evRows, row)[n + 1] = row
        /\ \A i \in 1 .. n : Append(evRows, row)[i] = evRows[i]
    BY <2>1, AppendProperties
  <2>4. evRows' = [i \in 1 .. Len(evRows') |-> evRows'[i]]
    <3>1. \A t \in Seq(R) : t = [i \in 1 .. Len(t) |-> t[i]]
      OBVIOUS
    <3> QED BY <1>1, <2>2, <3>1
  <2> QED BY <1>1, <2>3, <2>4
<1>8. \A x : Live(x)' <=> Live(x)
  BY DEF Live
<1>9. \A i \in 1 .. (n + 1) : evRows'[i].pair = evWhole'[i] /\ RowOk(evRows[i])'
  <2>1. \A i \in 1 .. n : evRows[i].pair = evWhole[i] /\ RowOk(evRows[i])
    BY DEF EvInv
  <2>2. \A i \in 1 .. (n + 1) : i = n + 1 \/ i \in 1 .. n
    BY <1>2
  <2>3. evWhole' = evWhole /\ evRows'[n + 1].pair = evWhole[n + 1]
    BY <1>4, <1>6
  <2>4. \A i \in 1 .. n : RowOk(evRows'[i])
    BY <1>6, <2>1
  <2>5. \A i \in 1 .. (n + 1) : RowOk(evRows'[i])
    BY <1>6, <2>2, <2>4
  <2>6. \A i \in 1 .. (n + 1) : RowOk(evRows[i])'
    BY <2>5 DEF RowOk, Live
  <2> QED BY <1>6, <2>1, <2>2, <2>3, <2>6
<1>10. \A i \in 1 .. Len(evTodo') : evTodo'[i] = evWhole'[(n + 1) + i]
  <2>1. \A i \in 1 .. Len(evTodo') : i + 1 \in 1 .. Len(evTodo) /\ n + (i + 1) = (n + 1) + i
    BY <1>2, <1>3
  <2>2. \A i \in 1 .. Len(evTodo) : evTodo[i] = evWhole[n + i]
    BY DEF EvInv
  <2> QED BY <1>3, <2>1, <2>2
<1>11. Len(evRows') + Len(evTodo') = Len(evWhole')
  <2>1. evWhole' = evWhole
    OBVIOUS
  <2> HIDE DEF n
  <2> QED BY <1>2, <1>3, <1>6, <2>1
<1>12. \A x \in evCalled' : Live(x)' /\ EvRoutes[x[2]].apply
  BY <1>8
<1> HIDE DEF n
<1>13. Len(evRows') \in Nat /\ evRows' = [i \in 1 .. Len(evRows') |-> evRows'[i]]
  BY <1>2, <1>6
<1>14. /\ \A i \in 1 .. Len(evRows') : evRows'[i].pair = evWhole'[i] /\ RowOk(evRows[i])'
       /\ \A i \in 1 .. Len(evTodo') : evTodo'[i] = evWhole'[Len(evRows') + i]
  BY <1>6, <1>9, <1>10
<1>15. evWhole' \in Seq(Nat \X Nat) /\ (~evRetain' => evDirs' = {})
  BY DEF EvInv
<1> QED BY <1>1, <1>3, <1>11, <1>12, <1>13, <1>14, <1>15 DEF EvInv

\* A step between two rows.
LEMMA BetweenKeeps ==
    ASSUME EvInv, UNCHANGED <<evRetain, evMode, evTodo, evWhole, evRows>>,
           evPc' \in {"next", "plan", "apply", "patch", "done", "rejected"},
           evPc' \in {"plan", "apply", "patch"} => evTodo # <<>> /\ Live(Head(evTodo)),
           evPc' = "done" => evTodo = <<>>,
           evPc' \in {"next", "done"} /\ ~evRetain => evDirs' = {},
           evPc' \in {"plan", "apply", "patch"} /\ ~evRetain => evDirs' \subseteq {Head(evTodo)},
           \A x \in evCalled' : Live(x) /\ EvRoutes[x[2]].apply
    PROVE  EvInv'
<1>1. \A x : Live(x) => Live(x)'
  BY DEF Live
<1>2. \A r : RowOk(r) => RowOk(r)'
  BY <1>1 DEF RowOk, Live
<1>3. \A i \in 1 .. Len(evRows) : evRows[i].pair = evWhole[i] /\ RowOk(evRows[i])
  BY DEF EvInv
<1>4. \A i \in 1 .. Len(evRows) : RowOk(evRows[i])'
  BY <1>3 DEF RowOk, Live
<1>5. \A i \in 1 .. Len(evRows') : evRows'[i].pair = evWhole'[i] /\ RowOk(evRows[i])'
  BY <1>3, <1>4
<1>6. \A x \in evCalled' : Live(x)' /\ EvRoutes[x[2]].apply
  BY <1>1
<1>7. evPc' \in {"plan", "apply", "patch"} => evTodo' # <<>> /\ Live(Head(evTodo))'
  BY DEF Live
<1>8. /\ evTodo' \in Seq(Nat \X Nat) /\ evWhole' \in Seq(Nat \X Nat)
      /\ Len(evRows') \in Nat /\ evRows' = [i \in 1 .. Len(evRows') |-> evRows'[i]]
      /\ Len(evRows') + Len(evTodo') = Len(evWhole')
      /\ \A i \in 1 .. Len(evTodo') : evTodo'[i] = evWhole'[Len(evRows') + i]
  BY DEF EvInv
<1> QED BY <1>5, <1>6, <1>7, <1>8 DEF EvInv

\* A benchmark begins with its pairs.
LEMMA BeginKeeps ==
    ASSUME EvInv, NEW one \in Nat, NEW max \in Nat, NEW r \in Nat, NEW keep, NEW mode, BeginBenchmark(one, max, r, keep, mode)
    PROVE  EvInv'
<1> DEFINE todo == FlattenSeq([i \in DOMAIN filterScenarios(one, max) |->
                                  [j \in DOMAIN routesFor(r) |-> <<filterScenarios(one, max)[i], routesFor(r)[j]>>]])
<1>1. evPc = "idle" /\ evPc' = "next" /\ evTodo' = todo /\ evWhole' = todo /\ UNCHANGED <<evRows, evDirs, evCalled>>
  BY DEF BeginBenchmark
<1>2. todo \in Seq(Nat \X Nat)
  BY ChosenOk, PairsOk
<1> HIDE DEF todo
<1>3. evRows = <<>> /\ evDirs = {} /\ evCalled = {}
  BY <1>1 DEF EvInv
<1>4. Len(evRows') = 0 /\ evRows' = [i \in 1 .. Len(evRows') |-> evRows'[i]] /\ Len(evTodo') \in Nat /\ Len(evWhole') = Len(evTodo')
  BY <1>1, <1>2, <1>3
<1>5. \A i \in 1 .. Len(evTodo') : evTodo'[i] = evWhole'[Len(evRows') + i]
  BY <1>1, <1>4
<1> QED BY <1>1, <1>2, <1>3, <1>4, <1>5 DEF EvInv

\* A pair whose scenario passed has met it.
LEMMA FinishedRowOk ==
    ASSUME evTodo # <<>>, Live(Head(evTodo)), NEW o
    PROVE  RowOk(Row(RowStatus(o), verified(o), o.changed)) /\ Row(RowStatus(o), verified(o), o.changed).pair = Head(evTodo)
<1>1. PICK q \in BOOLEAN : q <=> verified(o)
  OBVIOUS
<1>2. q = verified(o)
  BY <1>1, Zenon DEF verified
<1> DEFINE r == Row(RowStatus(o), verified(o), o.changed)
<1>3. r = [pair |-> Head(evTodo), status |-> RowStatus(o), verified |-> q, changed |-> o.changed]
  BY <1>2, Zenon DEF Row
<1> HIDE DEF r
<1>4. r.pair = Head(evTodo) /\ r.status = RowStatus(o) /\ r.verified = q /\ r.changed = o.changed
  BY <1>3
<1>5. r.status # "skipped"
  BY <1>4 DEF RowStatus
<1>6. r.status = "passed" => evaluateSuccessCriteria(scenario, o)
  BY <1>4 DEF RowStatus
<1>7. r.status = "passed" => LET s == EvScenarios[r.pair[1]]
                             IN  /\ r.changed \cap s.forbidden = {} /\ s.required \subseteq r.changed
                                 /\ s.must_verify => r.verified
  BY <1>1, <1>4, <1>6 DEF evaluateSuccessCriteria, scenario, forbiddenFiles
<1> QED BY <1>4, <1>5, <1>7 DEF RowOk, r

\* A pair that threw left its workspace.
LEMMA ErroredKeeps ==
    ASSUME EvInv, evPc \in {"plan", "apply", "patch"}, Errored, UNCHANGED <<evRetain, evMode, evWhole>>,
           \A x \in evCalled' : Live(x) /\ EvRoutes[x[2]].apply
    PROVE  EvInv'
<1> DEFINE r == Row("errored", FALSE, {})
<1>1. r.pair = Head(evTodo) /\ r.status = "errored"
  BY DEF Row
<1>2. RowOk(r)
  BY <1>1 DEF RowOk
<1>3. Push(r) /\ evDirs' = cleanup(Head(evTodo)) /\ evTodo # <<>>
  BY DEF Errored, EvInv
<1>4. ~evRetain => evDirs' = {}
  BY <1>3 DEF cleanup, EvInv
<1> HIDE DEF r
<1> QED BY <1>1, <1>2, <1>3, <1>4, PushKeeps

\* A model is called on a route that applies.
LEMMA CalledOk ==
    ASSUME EvInv, evPc \in {"plan", "apply"}, route.apply, Called
    PROVE  \A x \in evCalled' : Live(x) /\ EvRoutes[x[2]].apply
<1>1. Live(Head(evTodo)) /\ EvRoutes[Head(evTodo)[2]].apply
  BY DEF EvInv, route
<1> QED BY <1>1 DEF EvInv, Called

\* Every step.
LEMMA EvStepInv == EvInv /\ [EvNext]_evVars => EvInv'
<1> SUFFICES ASSUME EvInv, [EvNext]_evVars PROVE EvInv'
  OBVIOUS
<1>1. ASSUME NEW one \in 0 .. Len(EvScenarios), NEW max \in 0 .. 1, NEW r \in 0 .. (Len(EvRoutes) + 1), NEW keep \in BOOLEAN,
             NEW mode \in {"deterministic", "model", "fallback"}, BeginBenchmark(one, max, r, keep, mode)
      PROVE  EvInv'
  <2>1. one \in Nat /\ max \in Nat /\ r \in Nat
    <3>1. Len(EvScenarios) \in Nat /\ Len(EvRoutes) \in Nat
      BY EvalAssumption
    <3> QED BY <3>1
  <2> QED BY <1>1, <2>1, BeginKeeps
<1>2. CASE SkipRoute
  <2> DEFINE r == Row("skipped", FALSE, {})
  <2>1. r.pair = Head(evTodo) /\ r.status = "skipped"
    BY DEF Row
  <2>2. RowOk(r)
    BY <1>2, <2>1 DEF SkipRoute, hasLiveProviderForRoute, planningMode, route, RowOk, Live
  <2>3. Push(r) /\ evTodo # <<>> /\ evPc = "next" /\ UNCHANGED <<evRetain, evMode, evWhole, evDirs, evCalled>>
    BY <1>2 DEF SkipRoute
  <2>4. ~evRetain => evDirs' = {}
    BY <2>3 DEF EvInv
  <2>5. \A x \in evCalled' : Live(x) /\ EvRoutes[x[2]].apply
    BY <2>3 DEF EvInv
  <2> HIDE DEF r
  <2> QED BY <2>1, <2>2, <2>3, <2>4, <2>5, PushKeeps
<1>3. CASE CreateWorkspace
  <2>1. Live(Head(evTodo))
    BY <1>3 DEF CreateWorkspace, hasLiveProviderForRoute, planningMode, route, Live
  <2>2. /\ evPc = "next" /\ evTodo # <<>> /\ evDirs' = evDirs \cup {Head(evTodo)} /\ evPc' \in {"plan", "rejected"}
        /\ UNCHANGED <<evRetain, evMode, evTodo, evWhole, evOutcome, evRows, evCalled>>
    BY <1>3 DEF CreateWorkspace
  <2>3. ~evRetain => evDirs' \subseteq {Head(evTodo)}
    BY <2>2 DEF EvInv
  <2>5. \A x \in evCalled' : Live(x) /\ EvRoutes[x[2]].apply
    BY <2>2 DEF EvInv
  <2> QED BY <2>1, <2>2, <2>3, <2>5, BetweenKeeps
<1>4. CASE CreatePlanfile
  <2>1. \A x \in evCalled' : Live(x) /\ EvRoutes[x[2]].apply
    <3>1. CASE UNCHANGED evCalled
      BY <3>1 DEF EvInv
    <3>2. CASE ~(UNCHANGED evCalled)
      <4>1. Called /\ planningMode # "deterministic"
        BY <1>4, <3>2 DEF CreatePlanfile
      <4> QED BY <1>4, <4>1, CalledOk DEF CreatePlanfile, planningMode
    <3> QED BY <3>1, <3>2
  <2>2. evPc = "plan" /\ UNCHANGED <<evRetain, evMode, evWhole>>
    BY <1>4 DEF CreatePlanfile
  <2>3. CASE Errored
    BY <2>1, <2>2, <2>3, ErroredKeeps
  <2>4. CASE evPc' = "apply" /\ UNCHANGED <<evTodo, evRows, evOutcome, evDirs>>
    <3>1. evTodo # <<>> /\ Live(Head(evTodo)) /\ (~evRetain => evDirs' \subseteq {Head(evTodo)})
      BY <2>2, <2>4 DEF EvInv
    <3> QED BY <2>1, <2>2, <2>4, <3>1, BetweenKeeps
  <2> QED BY <1>4, <2>3, <2>4 DEF CreatePlanfile
<1>5. CASE Throws
  <2>1. \A x \in evCalled' : Live(x) /\ EvRoutes[x[2]].apply
    BY <1>5 DEF Throws, EvInv
  <2> QED BY <1>5, <2>1, ErroredKeeps DEF Throws
<1>6. CASE FinishRow
  <2> DEFINE r == Row(RowStatus(evOutcome), verified(evOutcome), evOutcome.changed)
  <2>1. evTodo # <<>> /\ Live(Head(evTodo)) /\ evPc = "patch" /\ Push(r) /\ evDirs' = cleanup(Head(evTodo))
        /\ UNCHANGED <<evRetain, evMode, evWhole, evCalled>>
    BY <1>6 DEF FinishRow, EvInv
  <2>2. RowOk(r) /\ r.pair = Head(evTodo)
    BY <2>1, FinishedRowOk
  <2> HIDE DEF r
  <2>3. ~evRetain => evDirs' = {}
    BY <2>1 DEF cleanup, EvInv
  <2>4. \A x \in evCalled' : Live(x) /\ EvRoutes[x[2]].apply
    BY <2>1 DEF EvInv
  <2> QED BY <2>1, <2>2, <2>3, <2>4, PushKeeps
<1>7. CASE WriteReport
  <2>1. /\ evPc = "next" /\ evTodo = <<>> /\ evPc' = "done"
        /\ UNCHANGED <<evRetain, evMode, evTodo, evWhole, evOutcome, evRows, evDirs, evCalled>>
    BY <1>7 DEF WriteReport
  <2>2. (~evRetain => evDirs' = {}) /\ \A x \in evCalled' : Live(x) /\ EvRoutes[x[2]].apply
    BY <2>1 DEF EvInv
  <2> QED BY <2>1, <2>2, BetweenKeeps
<1>8. ASSUME NEW o \in EvOutcome, ApplyPlanfile(o) PROVE EvInv'
  <2>1. \A x \in evCalled' : Live(x) /\ EvRoutes[x[2]].apply
    <3>1. CASE UNCHANGED evCalled
      BY <3>1 DEF EvInv
    <3>2. CASE ~(UNCHANGED evCalled)
      BY <1>8, <3>2, CalledOk DEF ApplyPlanfile
    <3> QED BY <3>1, <3>2
  <2>2. evPc = "apply" /\ evPc' = "patch" /\ UNCHANGED <<evRetain, evMode, evTodo, evWhole, evRows, evDirs>>
    BY <1>8 DEF ApplyPlanfile
  <2>3. evTodo # <<>> /\ Live(Head(evTodo)) /\ (~evRetain => evDirs' \subseteq {Head(evTodo)})
    BY <2>2 DEF EvInv
  <2> QED BY <2>1, <2>2, <2>3, BetweenKeeps
<1>9. CASE UNCHANGED evVars
  <2>1. CASE evPc = "idle"
    BY <1>9, <2>1 DEF evVars, EvInv, RowOk, Live
  <2>2. CASE evPc # "idle"
    <3>1. /\ UNCHANGED <<evRetain, evMode, evTodo, evWhole, evRows>> /\ evPc' = evPc /\ evDirs' = evDirs
          /\ evCalled' = evCalled
      BY <1>9 DEF evVars
    <3> QED BY <2>2, <3>1, BetweenKeeps DEF EvInv
  <2> QED BY <2>1, <2>2
<1> QED BY <1>1, <1>2, <1>3, <1>4, <1>5, <1>6, <1>7, <1>8, <1>9 DEF EvNext

\* A benchmark is fair: its report has one row for every pair it was asked for, in
\* order, a row that passed met its scenario, no workspace outlives its pair, and a
\* route that lacks a provider is found out before its first call
\* (benchmark-runner.ts, scenario-runner.ts).
THEOREM BenchmarkFairHolds == EvSpec => []BenchmarkFair
<1>1. EvInv => BenchmarkFair
  <2> SUFFICES ASSUME EvInv PROVE BenchmarkFair
    OBVIOUS
  <2>1. OneRowEach
    <3> SUFFICES ASSUME evPc = "done" PROVE [i \in DOMAIN evRows |-> evRows[i].pair] = evWhole
      BY DEF OneRowEach
    <3>1. evTodo = <<>> /\ Len(evTodo) = 0
      BY DEF EvInv
    <3>2. DOMAIN evRows = 1 .. Len(evWhole)
      BY <3>1 DEF EvInv
    <3>3. \A i \in DOMAIN evRows : evRows[i].pair = evWhole[i]
      BY DEF EvInv
    <3>4. evWhole = [i \in 1 .. Len(evWhole) |-> evWhole[i]]
      BY DEF EvInv
    <3> QED BY <3>2, <3>3, <3>4
  <2>2. PassedIsEarned
    BY DEF EvInv, RowOk, PassedIsEarned
  <2>3. WorkspacesCleaned
    BY DEF EvInv, WorkspacesCleaned
  <2>4. SkippedIsFree
    <3>1. \A i \in DOMAIN evRows : evRows[i].status = "skipped" => evRows[i].pair \notin evCalled
      BY DEF EvInv, RowOk
    <3>2. \A x \in evCalled : {"implementer", "repair", "reviewer", "escalation"} \subseteq EvRoutes[x[2]].providers
      BY DEF EvInv, Live
    <3> QED BY <3>1, <3>2 DEF SkippedIsFree
  <2> QED BY <2>1, <2>2, <2>3, <2>4 DEF BenchmarkFair
<1> QED BY <1>1, EvInitInv, EvStepInv, PTL DEF EvSpec

-----------------------------------------------------------------------------
(* OutputPack: the selection                                               *)

\* The ages of artifacts are numbers that tell them apart.
LEMMA AgesOk == /\ \A a \in OutArtifact : outAge[a] \in Nat
                /\ \A a, b \in OutArtifact : outAge[a] = outAge[b] => a = b
  BY OutputAssumption

\* The order of candidates is total.
LEMMA RankingOk ==
    /\ \A a \in OutArtifact : ~compareArtifacts(a, a)
    /\ \A a, b \in OutArtifact : a = b \/ compareArtifacts(a, b) \/ compareArtifacts(b, a)
    /\ \A a, b, c \in OutArtifact : compareArtifacts(a, b) /\ compareArtifacts(b, c) => compareArtifacts(a, c)
<1>1. \A a : score(a) \in Nat
  BY DEF score
<1>2. \A a, b : compareArtifacts(a, b) <=> score(a) > score(b) \/ (score(a) = score(b) /\ outAge[a] < outAge[b])
  BY DEF compareArtifacts
<1>3. \A a \in OutArtifact : ~compareArtifacts(a, a)
  BY <1>1, <1>2, AgesOk
<1>4. ASSUME NEW a \in OutArtifact, NEW b \in OutArtifact
      PROVE  a = b \/ compareArtifacts(a, b) \/ compareArtifacts(b, a)
  <2>1. score(a) \in Nat /\ score(b) \in Nat /\ outAge[a] \in Nat /\ outAge[b] \in Nat
    BY <1>1, AgesOk
  <2>2. outAge[a] = outAge[b] => a = b
    BY AgesOk
  <2> QED BY <1>2, <2>1, <2>2
<1>5. ASSUME NEW a \in OutArtifact, NEW b \in OutArtifact, NEW c \in OutArtifact,
             compareArtifacts(a, b), compareArtifacts(b, c)
      PROVE  compareArtifacts(a, c)
  <2>1. /\ score(a) \in Nat /\ score(b) \in Nat /\ score(c) \in Nat
        /\ outAge[a] \in Nat /\ outAge[b] \in Nat /\ outAge[c] \in Nat
    BY <1>1, AgesOk
  <2> QED BY <1>2, <1>5, <2>1
<1> QED BY <1>3, <1>4, <1>5

\* The candidates in order are each of them once, the better one first.
LEMMA RankedOk ==
    ASSUME NEW C \in SUBSET OutArtifact
    PROVE  /\ ranked(C) \in Seq(C)
           /\ {ranked(C)[i] : i \in 1 .. Len(ranked(C))} = C
           /\ \A i, j \in 1 .. Len(ranked(C)) : i < j => compareArtifacts(ranked(C)[i], ranked(C)[j])
<1> DEFINE above(a) == {b \in C : compareArtifacts(b, a)}
           n == Cardinality(C)
           rank == [a \in C |-> Cardinality(above(a)) + 1]
<1>1. IsFiniteSet(C) /\ n \in Nat
  BY OutputAssumption, FS_Subset, FS_CardinalityType
<1>2. \A a \in C : above(a) \in SUBSET C /\ IsFiniteSet(above(a)) /\ Cardinality(above(a)) \in Nat
  BY <1>1, FS_Subset, FS_CardinalityType
<1>3. \A a \in C : Cardinality(above(a)) < n
  <2> TAKE a \in C
  <2>1. a \notin above(a) /\ above(a) # C
    BY RankingOk
  <2>2. Cardinality(above(a)) <= n /\ (n = Cardinality(above(a)) => C = above(a))
    BY <1>1, <1>2, FS_Subset
  <2>3. Cardinality(above(a)) # n
    BY <2>1, <2>2
  <2>4. Cardinality(above(a)) \in Nat
    BY <1>2
  <2> HIDE DEF above, n
  <2> QED BY <2>2, <2>3, <2>4, <1>1
<1>4. \A a, b \in C : compareArtifacts(a, b) => Cardinality(above(a)) < Cardinality(above(b))
  <2> SUFFICES ASSUME NEW a \in C, NEW b \in C, compareArtifacts(a, b)
               PROVE  Cardinality(above(a)) < Cardinality(above(b))
    OBVIOUS
  <2>1. above(a) \subseteq above(b) /\ a \in above(b) /\ a \notin above(a)
    BY RankingOk
  <2>2. Cardinality(above(a)) <= Cardinality(above(b))
        /\ (Cardinality(above(b)) = Cardinality(above(a)) => above(b) = above(a))
    BY <2>1, <1>2, FS_Subset
  <2> QED BY <2>1, <2>2, <1>2
<1> HIDE DEF above
<1>5. rank \in [C -> 1 .. n] /\ \A a \in C : rank[a] = Cardinality(above(a)) + 1
  BY <1>1, <1>2, <1>3
<1>6. \A a, b \in C : compareArtifacts(a, b) => rank[a] < rank[b]
  BY <1>2, <1>4, <1>5
<1> HIDE DEF rank
<1>7. \A a \in C : rank[a] \in Nat
  BY <1>1, <1>5
<1>8. \A a, b \in C : rank[a] = rank[b] => a = b
  <2> TAKE a, b \in C
  <2>1. a = b \/ compareArtifacts(a, b) \/ compareArtifacts(b, a)
    BY RankingOk
  <2> QED BY <2>1, <1>6, <1>7
<1>9. rank \in Injection(C, 1 .. n)
  BY <1>5, <1>8 DEF Injection, IsInjective
<1>10. IsFiniteSet(1 .. n) /\ Cardinality(1 .. n) = n
  BY <1>1, FS_Interval
<1>11. rank \in Surjection(C, 1 .. n)
  BY <1>9, <1>10, FS_Injection
<1>12. \A i \in 1 .. n : \E a \in C : rank[a] = i
  BY <1>11 DEF Surjection
<1>13. \A i \in 1 .. n : \A a \in C : (Cardinality(above(a)) = i - 1 <=> rank[a] = i)
  BY <1>1, <1>2, <1>5
<1> DEFINE s == ranked(C)
<1>14. s = [i \in 1 .. n |-> CHOOSE a \in C : Cardinality(above(a)) = i - 1]
  BY DEF ranked, above
<1> HIDE DEF s, n
<1>15. \A i \in 1 .. n : s[i] \in C /\ rank[s[i]] = i
  <2> TAKE i \in 1 .. n
  <2>1. s[i] = CHOOSE a \in C : Cardinality(above(a)) = i - 1
    BY <1>14
  <2>2. \E a \in C : Cardinality(above(a)) = i - 1
    BY <1>12, <1>13
  <2>3. s[i] \in C /\ Cardinality(above(s[i])) = i - 1
    BY <2>1, <2>2
  <2> QED BY <2>3, <1>13
<1>16. s \in Seq(C) /\ Len(s) = n
  <2>1. s \in [1 .. n -> C]
    BY <1>14, <1>15
  <2> QED BY <2>1, <1>1
<1>17. \A a \in C : \E i \in 1 .. n : s[i] = a
  BY <1>5, <1>8, <1>15
<1>18. \A i, j \in 1 .. n : i < j => compareArtifacts(s[i], s[j])
  <2> SUFFICES ASSUME NEW i \in 1 .. n, NEW j \in 1 .. n, i < j PROVE compareArtifacts(s[i], s[j])
    OBVIOUS
  <2>1. s[i] \in C /\ s[j] \in C /\ rank[s[i]] = i /\ rank[s[j]] = j /\ i \in Nat /\ j \in Nat
    BY <1>1, <1>15
  <2>2. s[i] = s[j] \/ compareArtifacts(s[i], s[j]) \/ compareArtifacts(s[j], s[i])
    BY <2>1, RankingOk
  <2> QED BY <2>1, <2>2, <1>6
<1>19. {s[i] : i \in 1 .. n} = C
  BY <1>15, <1>17
<1> QED BY <1>16, <1>18, <1>19 DEF s

\* Why an artifact is left out.
Reason == {"kind_excluded", "not_allowed", "limit_exceeded"}

\* An artifact is selected only if it is allowed and there is room, and left out for
\* the limit only if there is none.
LEMMA ReasonOk ==
    ASSUME NEW a, NEW r, NEW n
    PROVE  /\ exclusionReason(a, r, n) \in Reason \cup {"none"}
           /\ exclusionReason(a, r, n) = "none" => artifactAllowedForOutput(a, r) /\ ~ (n >= r.max)
           /\ exclusionReason(a, r, n) = "limit_exceeded" => n >= r.max
<1> DEFINE include == IF r.include # {} THEN r.include ELSE presetKinds[r.preset]
           x == \/ outKind[a] \in r.exclude
                \/ include # {} /\ outKind[a] \notin include
                \/ include = {} /\ ~allowedByKind(a, r)
<1>1. exclusionReason(a, r, n) = IF x THEN "kind_excluded" ELSE IF ~artifactAllowedForOutput(a, r) THEN "not_allowed"
                                 ELSE IF n >= r.max THEN "limit_exceeded" ELSE "none"
  BY DEF exclusionReason
<1> HIDE DEF x
<1> QED BY <1>1 DEF Reason

-----------------------------------------------------------------------------
(* OutputPack: the loop of the selection                                   *)

\* What is selected, and what is left out.
Taken(sel) == ToSet(sel.selected)
Left(sel) == {x[1] : x \in sel.excluded}

\* A selection that has considered the artifacts D.
Considered(sel, D, r) ==
    /\ sel = [candidates |-> sel.candidates, selected |-> sel.selected, excluded |-> sel.excluded]
    /\ sel.selected \in Seq(OutArtifact) /\ Len(sel.selected) <= r.max
    /\ sel.excluded \subseteq OutArtifact \X Reason
    /\ Taken(sel) \cup Left(sel) = D /\ Taken(sel) \cap Left(sel) = {}
    /\ \A x, y \in sel.excluded : x[1] = y[1] => x = y
    /\ \A x \in sel.excluded : x[2] = "limit_exceeded" =>
          Len(sel.selected) >= r.max /\ \A a \in Taken(sel) : compareArtifacts(a, x[1])
    /\ \A a \in Taken(sel) : artifactAllowedForOutput(a, r)

\* A turn of the loop considers one artifact more.
LEMMA TurnConsiders ==
    ASSUME NEW r, r.max \in Nat, NEW sel, NEW D \in SUBSET OutArtifact, Considered(sel, D, r),
           NEW a \in OutArtifact, a \notin D, \A d \in D : compareArtifacts(d, a)
    PROVE  /\ Considered(consider(sel, a, r), D \cup {a}, r)
           /\ consider(sel, a, r).candidates = sel.candidates
<1> DEFINE why == exclusionReason(a, r, Len(sel.selected))
           new == consider(sel, a, r)
<1>1. /\ sel = [candidates |-> sel.candidates, selected |-> sel.selected, excluded |-> sel.excluded]
      /\ sel.selected \in Seq(OutArtifact) /\ Len(sel.selected) \in Nat /\ Len(sel.selected) <= r.max
      /\ sel.excluded \subseteq OutArtifact \X Reason
      /\ Taken(sel) \cup Left(sel) = D /\ Taken(sel) \cap Left(sel) = {}
  BY DEF Considered
<1>2. /\ \A x, y \in sel.excluded : x[1] = y[1] => x = y
      /\ \A x \in sel.excluded : x[2] = "limit_exceeded" =>
            Len(sel.selected) >= r.max /\ \A b \in Taken(sel) : compareArtifacts(b, x[1])
      /\ \A b \in Taken(sel) : artifactAllowedForOutput(b, r)
  BY DEF Considered
<1>3. CASE why = "none"
  <2>1. new = [sel EXCEPT !.selected = Append(sel.selected, a)]
    BY <1>3 DEF consider
  <2>2. /\ new = [candidates |-> sel.candidates, selected |-> Append(sel.selected, a), excluded |-> sel.excluded]
        /\ new.candidates = sel.candidates /\ new.selected = Append(sel.selected, a)
        /\ new.excluded = sel.excluded
    BY <1>1, <2>1
  <2> HIDE DEF new
  <2>3. /\ new.selected \in Seq(OutArtifact) /\ Len(new.selected) = Len(sel.selected) + 1
        /\ \A i \in 1 .. Len(sel.selected) : new.selected[i] = sel.selected[i]
        /\ new.selected[Len(sel.selected) + 1] = a
    BY <1>1, <2>2, AppendOk
  <2>4. Taken(new) = Taken(sel) \cup {a}
    BY <1>1, <2>3 DEF Taken, ToSet
  <2>5. Left(new) = Left(sel)
    BY <2>2 DEF Left
  <2>6. artifactAllowedForOutput(a, r) /\ ~ (Len(sel.selected) >= r.max)
    BY <1>3, ReasonOk
  <2>7. Len(new.selected) <= r.max
    BY <1>1, <2>3, <2>6
  <2>8. \A x \in sel.excluded : x[2] # "limit_exceeded"
    BY <1>2, <2>6
  <2>9. Taken(new) \cup Left(new) = D \cup {a} /\ Taken(new) \cap Left(new) = {}
    BY <1>1, <2>4, <2>5
  <2>10. Considered(new, D \cup {a}, r)
    BY <1>1, <1>2, <2>2, <2>3, <2>4, <2>6, <2>7, <2>8, <2>9 DEF Considered
  <2> QED BY <2>2, <2>10 DEF new
<1>4. CASE why # "none"
  <2>1. new = [sel EXCEPT !.excluded = sel.excluded \cup {<<a, why>>}]
    BY <1>4 DEF consider
  <2>0. why \in Reason /\ (why = "limit_exceeded" => Len(sel.selected) >= r.max)
    BY <1>4, ReasonOk
  <2> HIDE DEF why
  <2>2. /\ new = [candidates |-> sel.candidates, selected |-> sel.selected, excluded |-> sel.excluded \cup {<<a, why>>}]
        /\ new.candidates = sel.candidates /\ new.selected = sel.selected
        /\ new.excluded = sel.excluded \cup {<<a, why>>}
    BY <1>1, <2>1
  <2> HIDE DEF new
  <2>3. Taken(new) = Taken(sel)
    BY <2>2 DEF Taken
  <2>4. Left(new) = Left(sel) \cup {a}
    <3>1. <<a, why>>[1] = a
      OBVIOUS
    <3>2. \A x : x \in new.excluded <=> x \in sel.excluded \/ x = <<a, why>>
      BY <2>2
    <3>3. \A y : y \in Left(new) <=> \E x \in new.excluded : y = x[1]
      BY DEF Left
    <3>4. \A y : y \in Left(sel) <=> \E x \in sel.excluded : y = x[1]
      BY DEF Left
    <3>5. \A y : y \in Left(new) <=> y \in Left(sel) \/ y = a
      BY <3>1, <3>2, <3>3, <3>4
    <3> QED BY <3>5
  <2>5. Taken(new) \cup Left(new) = D \cup {a} /\ Taken(new) \cap Left(new) = {}
    BY <1>1, <2>3, <2>4
  <2>6. new.excluded \subseteq OutArtifact \X Reason
    BY <1>1, <2>0, <2>2
  <2>7. \A x \in sel.excluded : x[1] # a
    BY <1>1 DEF Left
  <2>8. \A x, y \in new.excluded : x[1] = y[1] => x = y
    BY <1>2, <2>2, <2>7
  <2>9. ASSUME NEW x \in new.excluded, x[2] = "limit_exceeded"
        PROVE  Len(new.selected) >= r.max /\ \A b \in Taken(new) : compareArtifacts(b, x[1])
    <3>1. CASE x \in sel.excluded
      BY <1>2, <2>2, <2>3, <2>9, <3>1
    <3>2. CASE x = <<a, why>>
      <4>1. x[1] = a /\ x[2] = why
        BY <3>2
      <4> QED BY <1>1, <2>0, <2>2, <2>3, <2>9, <4>1
    <3> QED BY <2>2, <3>1, <3>2
  <2>10. Considered(new, D \cup {a}, r)
    BY <1>1, <1>2, <2>2, <2>3, <2>5, <2>6, <2>8, <2>9 DEF Considered
  <2> QED BY <2>2, <2>10 DEF new
<1> QED BY <1>3, <1>4

\* Every candidate is considered in the end.
LEMMA SelectionOk ==
    ASSUME NEW C \in SUBSET OutArtifact, NEW r, r.max \in Nat
    PROVE  Considered(selectArtifacts(C, r), C, r) /\ selectArtifacts(C, r).candidates = C
<1> DEFINE order == ranked(C)
           N == Len(order)
           none == [NoSelection EXCEPT !.candidates = C]
           step(sel, n) == consider(sel, order[n], r)
           all == [n \in 0 .. N |-> {order[i] : i \in 1 .. n}]
           Sel == [candidates : {C}, selected : Seq(OutArtifact), excluded : SUBSET (OutArtifact \X Reason)]
<1>1. /\ order \in Seq(C) /\ N \in Nat /\ {order[i] : i \in 1 .. N} = C
      /\ \A i, j \in 1 .. N : i < j => compareArtifacts(order[i], order[j])
  BY RankedOk
<1>2. none = [candidates |-> C, selected |-> <<>>, excluded |-> {}]
  <2>1. none = [NoSelection EXCEPT !.candidates = C]
    OBVIOUS
  <2>2. NoSelection = [candidates |-> {}, selected |-> <<>>, excluded |-> {}]
    BY DEF NoSelection
  <2> DEFINE empty == <<>>
             nothing == {}
  <2>3. NoSelection = [candidates |-> nothing, selected |-> empty, excluded |-> nothing]
    BY <2>2
  <2> HIDE DEF none, empty, nothing, order, N, step, all, Sel
  <2>4. none = [candidates |-> C, selected |-> empty, excluded |-> nothing]
    BY <2>1, <2>3
  <2> QED BY <2>4 DEF empty, nothing
<1>3. Considered(none, {}, r) /\ none.candidates = C
  <2>1. none.candidates = C /\ none.selected = <<>> /\ none.excluded = {}
    BY <1>2
  <2>2. none = [candidates |-> none.candidates, selected |-> none.selected, excluded |-> none.excluded]
    BY <1>2
  <2> HIDE DEF none
  <2>3. Taken(none) = {} /\ Left(none) = {}
    BY <2>1 DEF Taken, Left, ToSet
  <2>4. none.selected \in Seq(OutArtifact) /\ Len(none.selected) <= r.max
    BY <2>1
  <2> QED BY <2>1, <2>2, <2>3, <2>4 DEF Considered
<1> HIDE DEF none
<1>4. none \in Sel
  <2> HIDE DEF order, N, step, all, none
  <2> QED BY <1>2
<1> HIDE DEF none
<1>5. ASSUME NEW n \in 1 .. N, NEW s, Considered(s, all[n - 1], r)
      PROVE  Considered(step(s, n), all[n], r) /\ step(s, n).candidates = s.candidates
  <2> HIDE DEF order, N
  <2>1. /\ n \in 0 .. N /\ n - 1 \in 0 .. N /\ n \in Nat /\ 1 .. n = (1 .. (n - 1)) \cup {n}
        /\ 1 .. (n - 1) \subseteq 1 .. N /\ \A i \in 1 .. (n - 1) : i < n
    BY <1>1
  <2>2. all[n] = all[n - 1] \cup {order[n]}
    BY <2>1
  <2>3. order[n] \in OutArtifact /\ all[n - 1] \in SUBSET OutArtifact
    BY <1>1, <2>1
  <2>4. \A d \in all[n - 1] : compareArtifacts(d, order[n])
    BY <1>1, <2>1
  <2>5. order[n] \notin all[n - 1]
    BY <2>3, <2>4, RankingOk
  <2> HIDE DEF all
  <2> QED BY <1>5, <2>2, <2>3, <2>4, <2>5, TurnConsiders
<1>6. ASSUME NEW n \in 1 .. N, NEW s \in Sel PROVE step(s, n) \in Sel
  <2> DEFINE why == exclusionReason(order[n], r, Len(s.selected))
  <2>1. order[n] \in OutArtifact
    BY <1>1
  <2>2. why \in Reason \cup {"none"}
    BY ReasonOk
  <2>3. step(s, n) = IF why = "none" THEN [s EXCEPT !.selected = Append(s.selected, order[n])]
                     ELSE [s EXCEPT !.excluded = s.excluded \cup {<<order[n], why>>}]
    BY DEF consider
  <2> HIDE DEF why, order, N, step, all
  <2>4. s.selected \in Seq(OutArtifact) /\ s.excluded \in SUBSET (OutArtifact \X Reason) /\ s.candidates = C
        /\ s = [candidates |-> s.candidates, selected |-> s.selected, excluded |-> s.excluded]
    OBVIOUS
  <2>5. CASE why = "none"
    <3>1. Append(s.selected, order[n]) \in Seq(OutArtifact)
      BY <2>1, <2>4, AppendOk
    <3>2. step(s, n) = [candidates |-> C, selected |-> Append(s.selected, order[n]), excluded |-> s.excluded]
      BY <2>3, <2>4, <2>5
    <3> QED BY <2>4, <3>1, <3>2
  <2>6. CASE why # "none"
    <3>1. s.excluded \cup {<<order[n], why>>} \in SUBSET (OutArtifact \X Reason)
      BY <2>1, <2>2, <2>4, <2>6
    <3>2. step(s, n) = [candidates |-> C, selected |-> s.selected, excluded |-> s.excluded \cup {<<order[n], why>>}]
      BY <2>3, <2>4, <2>6
    <3> QED BY <2>4, <3>1, <3>2
  <2> QED BY <2>5, <2>6
<1> DEFINE Looped(f) == f = [n \in 0 .. N |-> IF n = 0 THEN none ELSE step(f[n - 1], n)]
           up == CHOOSE f : Looped(f)
<1>7. PICK g : Looped(g) /\ g \in [0 .. N -> Sel]
  <2> DEFINE turn == [n \in 1 .. N |-> [s \in Sel |-> step(s, n)]]
  <2> HIDE DEF order, N, step, Sel
  <2>1. \A n \in 1 .. N, s \in Sel : turn[n][s] = step(s, n)
    OBVIOUS
  <2>2. \A n \in 1 .. N, s \in Sel : turn[n][s] \in Sel
    BY <1>6, <2>1
  <2> HIDE DEF turn
  <2>3. PICK f : Loop(f, N, none, turn)
    BY <1>1, LoopExists
  <2>4. f \in [0 .. N -> Sel] /\ f[0] = none /\ \A n \in 1 .. N : f[n] = turn[n][f[n - 1]]
    BY <1>1, <1>4, <2>2, <2>3, LoopTyped
  <2>5. \A n \in 1 .. N : n - 1 \in 0 .. N
    BY <1>1
  <2>6. \A n \in 1 .. N : f[n] = step(f[n - 1], n)
    BY <2>1, <2>4, <2>5
  <2>7. ASSUME NEW n \in 0 .. N PROVE f[n] = IF n = 0 THEN none ELSE step(f[n - 1], n)
    <3>1. n = 0 \/ n \in 1 .. N
      BY <1>1
    <3>2. CASE n = 0
      BY <2>4, <3>2
    <3>3. CASE n \in 1 .. N
      <4>1. n # 0
        BY <1>1, <3>3
      <4> QED BY <2>6, <3>3, <4>1
    <3> QED BY <3>1, <3>2, <3>3
  <2>8. f = [n \in 0 .. N |-> f[n]]
    BY <2>4
  <2>9. Looped(f)
    BY <2>7, <2>8
  <2> QED BY <2>4, <2>9
<1>8. selectArtifacts(C, r) = up[N]
  BY DEF selectArtifacts, none
<1>9. Looped(up)
  <2> HIDE DEF Looped
  <2> QED BY <1>7
<1>10. up[0] = none /\ \A n \in 1 .. N : up[n] = step(up[n - 1], n)
  <2> HIDE DEF up, step, order, N
  <2> QED BY <1>1, <1>9
<1> HIDE DEF up, step, Looped, order, N, Sel
<1> DEFINE P == {n \in 0 .. N : Considered(up[n], all[n], r) /\ up[n].candidates = C}
<1>11. 0 \in P
  <2>1. all[0] = {} /\ 0 \in 0 .. N
    BY <1>1
  <2> HIDE DEF all
  <2> QED BY <1>3, <1>10, <2>1
<1>13. ASSUME NEW n \in 1 .. N, n - 1 \in P PROVE n \in P
  <2>1. n \in 0 .. N /\ up[n] = step(up[n - 1], n)
    BY <1>1, <1>10
  <2>2. Considered(up[n - 1], all[n - 1], r) /\ up[n - 1].candidates = C
    BY <1>13
  <2> HIDE DEF all
  <2> QED BY <1>5, <2>1, <2>2
<1>14. N \in P
  <2>1. 0 .. N \subseteq P
    <3> HIDE DEF P
    <3> QED BY <1>1, <1>11, <1>13, InductionUpTo
  <2>2. N \in 0 .. N
    BY <1>1
  <2> HIDE DEF P
  <2> QED BY <2>1, <2>2
<1>15. all[N] = C
  BY <1>1
<1> QED BY <1>8, <1>14, <1>15

\* As many artifacts are left out as reasons are given.
LEMMA LeftOnce ==
    ASSUME NEW E, E \subseteq OutArtifact \X Reason, \A x, y \in E : x[1] = y[1] => x = y
    PROVE  Cardinality(E) = Cardinality({x[1] : x \in E})
<1> DEFINE T == {x[1] : x \in E}
           f == [x \in E |-> x[1]]
<1>1. IsFiniteSet(OutArtifact)
  BY OutputAssumption
<1>2. IsFiniteSet(Reason)
  <2>1. IsFiniteSet({}) /\ \A S : IsFiniteSet(S) => \A x : IsFiniteSet(S \cup {x})
    BY FS_EmptySet, FS_AddElement
  <2>2. Reason = (({} \cup {"kind_excluded"}) \cup {"not_allowed"}) \cup {"limit_exceeded"}
    BY DEF Reason
  <2>3. IsFiniteSet((({} \cup {"kind_excluded"}) \cup {"not_allowed"}) \cup {"limit_exceeded"})
    BY <2>1, Zenon
  <2> QED BY <2>2, <2>3
<1>3. IsFiniteSet(OutArtifact \X Reason)
  BY <1>1, <1>2, FS_Product
<1>4. IsFiniteSet(E)
  BY <1>3, FS_Subset
<1>5. f \in [E -> T] /\ \A x \in E : f[x] = x[1]
  OBVIOUS
<1>6. \A t \in T : \E x \in E : f[x] = t
  OBVIOUS
<1> HIDE DEF f, T
<1>7. \A x, y \in E : f[x] = f[y] => x = y
  BY <1>5
<1>8. f \in Bijection(E, T)
  BY <1>5, <1>6, <1>7 DEF Bijection, Injection, Surjection, IsInjective
<1>9. ExistsBijection(E, T)
  BY <1>8 DEF ExistsBijection
<1> QED BY <1>4, <1>9, FS_Bijection DEF T

-----------------------------------------------------------------------------
(* OutputPack: the commands                                                *)

\* The commands and their steps.
OutOp == {"select", "digest", "packet", "manifest", "export", "render", "pdf"}
OutStep == Results \cup {"select", "write_digest", "resolve", "files", "source", "flush"}

\* The steps S as far as todo is left of them, with the results written.
Under(S, todo, store) ==
    /\ todo \in Seq(OutStep) /\ Len(todo) \in 1 .. Len(S)
    /\ \A i \in 1 .. Len(todo) : todo[i] = S[(Len(S) - Len(todo)) + i]
    /\ store = {S[i] : i \in 1 .. (Len(S) - Len(todo))} \cap Results

\* A command that names what is restricted.
Barred(in) == in.op \in {"export", "manifest"} /\ in.ids \cap OutRestricted # {}

\* What holds of a command between its steps.
OutInv ==
    /\ outPc \in {"idle", "run", "done"}
    /\ outIndex \subseteq OutArtifact
    /\ outPc = "idle" =>
         /\ outSel = NoSelection /\ outMode.mode = "none" /\ ~outAsked /\ outStore = {} /\ outFiles = {}
         /\ outIn = [op |-> "none"]
    /\ outPc # "done" => outFlushed = {} /\ outOut = "none"
    /\ outPc = "run" =>
         /\ outIn.op \in OutOp /\ outIn.manifest \in BOOLEAN /\ outIn.select.max \in Nat
         /\ outIn.deterministic => ~outAsked
         /\ Under(steps(outIn.op, outIn.manifest), outTodo, outStore)
         /\ Barred(outIn) => Len(outTodo) = Len(steps(outIn.op, outIn.manifest)) /\ outFiles = {}
    /\ outPc = "done" => ResultsIndexed /\ ExportAllOrNothing
    /\ SelectionAccounted /\ ModeTellsOrigin

\* Steps of which the last, and no other, is the flush.
EndsInFlush(s) ==
    /\ s \in Seq(OutStep) /\ Len(s) \in Nat /\ Len(s) > 0
    /\ \A i \in 1 .. Len(s) : s[i] = "flush" <=> i = Len(s)

\* The flush is a step.
LEMMA FlushIsStep == "flush" \in OutStep
  BY DEF OutStep

\* One step: there are no other steps.
LEMMA Steps1 == EndsInFlush(<<"flush">>)
<1> DEFINE s == <<"flush">>
<1>1. s \in Seq(OutStep)
  BY FlushIsStep
<1>2. Len(s) = 1 /\ s[1] = "flush"
  OBVIOUS
<1> HIDE DEF s
<1>3. \A i \in 1 .. Len(s) : i = 1
  BY <1>2
<1>4. \A i \in 1 .. Len(s) : s[i] = "flush" <=> i = Len(s)
  BY <1>2, <1>3
<1>5. EndsInFlush(s)
  BY <1>1, <1>2, <1>4 DEF EndsInFlush
<1> QED BY <1>5 DEF s

\* Three steps.
LEMMA Steps3 ==
    ASSUME NEW a \in OutStep \ {"flush"}, NEW b \in OutStep \ {"flush"}
    PROVE  EndsInFlush(<<a, b, "flush">>) /\ <<a, b, "flush">>[1] = a
<1> DEFINE s == <<a, b, "flush">>
<1>1. s \in Seq(OutStep)
  BY FlushIsStep
<1>2. Len(s) = 3 /\ s[1] = a /\ s[2] = b /\ s[3] = "flush"
  OBVIOUS
<1> HIDE DEF s
<1>3. \A i \in 1 .. Len(s) : i = 1 \/ i = 2 \/ i = 3
  BY <1>2
<1>4. \A i \in 1 .. Len(s) : s[i] = "flush" <=> i = Len(s)
  BY <1>2, <1>3
<1>5. EndsInFlush(s) /\ s[1] = a
  BY <1>1, <1>2, <1>4 DEF EndsInFlush
<1> QED BY <1>5 DEF s

\* Four steps.
LEMMA Steps4 ==
    ASSUME NEW a \in OutStep \ {"flush"}, NEW b \in OutStep \ {"flush"}, NEW c \in OutStep \ {"flush"}
    PROVE  EndsInFlush(<<a, b, c, "flush">>) /\ <<a, b, c, "flush">>[1] = a
<1> DEFINE s == <<a, b, c, "flush">>
<1>1. s \in Seq(OutStep)
  BY FlushIsStep
<1>2. Len(s) = 4 /\ s[1] = a /\ s[2] = b /\ s[3] = c /\ s[4] = "flush"
  OBVIOUS
<1> HIDE DEF s
<1>3. \A i \in 1 .. Len(s) : i = 1 \/ i = 2 \/ i = 3 \/ i = 4
  BY <1>2
<1>4. \A i \in 1 .. Len(s) : s[i] = "flush" <=> i = Len(s)
  BY <1>2, <1>3
<1>5. EndsInFlush(s) /\ s[1] = a
  BY <1>1, <1>2, <1>4 DEF EndsInFlush
<1> QED BY <1>5 DEF s

\* Five steps.
LEMMA Steps5 ==
    ASSUME NEW a \in OutStep \ {"flush"}, NEW b \in OutStep \ {"flush"}, NEW c \in OutStep \ {"flush"}, NEW d \in OutStep \ {"flush"}
    PROVE  EndsInFlush(<<a, b, c, d, "flush">>) /\ <<a, b, c, d, "flush">>[1] = a
<1> DEFINE s == <<a, b, c, d, "flush">>
<1>1. s \in Seq(OutStep)
  BY FlushIsStep
<1>2. Len(s) = 5 /\ s[1] = a /\ s[2] = b /\ s[3] = c /\ s[4] = d /\ s[5] = "flush"
  OBVIOUS
<1> HIDE DEF s
<1>3. \A i \in 1 .. Len(s) : i = 1 \/ i = 2 \/ i = 3 \/ i = 4 \/ i = 5
  BY <1>2
<1>4. \A i \in 1 .. Len(s) : s[i] = "flush" <=> i = Len(s)
  BY <1>2, <1>3
<1>5. EndsInFlush(s) /\ s[1] = a
  BY <1>1, <1>2, <1>4 DEF EndsInFlush
<1> QED BY <1>5 DEF s

\* The steps of a command end with the flush and have no other; an export or a manifest
\* begins by resolving its artifacts.
LEMMA StepsOk ==
    ASSUME NEW op \in OutOp, NEW m \in BOOLEAN
    PROVE  /\ EndsInFlush(steps(op, m))
           /\ op \in {"export", "manifest"} => steps(op, m)[1] = "resolve"
<1>1. CASE op = "select"
  <2>1. steps(op, m) = <<"select", "artifact_selection", "flush">>
    BY <1>1 DEF steps
  <2>2. "select" \in OutStep \ {"flush"} /\ "artifact_selection" \in OutStep \ {"flush"}
    BY DEF OutStep, Results
  <2>3. EndsInFlush(<<"select", "artifact_selection", "flush">>) /\ <<"select", "artifact_selection", "flush">>[1] = "select"
    BY <2>2, Steps3
  <2> QED BY <1>1, <2>1, <2>3
<1>2. CASE op = "digest"
  <2>1. steps(op, m) = <<"select", "write_digest", "run_digest", "flush">>
    BY <1>2 DEF steps
  <2>2. "select" \in OutStep \ {"flush"} /\ "write_digest" \in OutStep \ {"flush"} /\ "run_digest" \in OutStep \ {"flush"}
    BY DEF OutStep, Results
  <2>3. EndsInFlush(<<"select", "write_digest", "run_digest", "flush">>) /\ <<"select", "write_digest", "run_digest", "flush">>[1] = "select"
    BY <2>2, Steps4
  <2> QED BY <1>2, <2>1, <2>3
<1>3. CASE op = "packet"
  <2>1. steps(op, m) = <<"select", "write_digest", "run_packet", "artifact_manifest", "flush">>
    BY <1>3 DEF steps
  <2>2. "select" \in OutStep \ {"flush"} /\ "write_digest" \in OutStep \ {"flush"} /\ "run_packet" \in OutStep \ {"flush"} /\ "artifact_manifest" \in OutStep \ {"flush"}
    BY DEF OutStep, Results
  <2>3. EndsInFlush(<<"select", "write_digest", "run_packet", "artifact_manifest", "flush">>) /\ <<"select", "write_digest", "run_packet", "artifact_manifest", "flush">>[1] = "select"
    BY <2>2, Steps5
  <2> QED BY <1>3, <2>1, <2>3
<1>4. CASE op = "manifest"
  <2>1. steps(op, m) = <<"resolve", "artifact_manifest", "flush">>
    BY <1>4 DEF steps
  <2>2. "resolve" \in OutStep \ {"flush"} /\ "artifact_manifest" \in OutStep \ {"flush"}
    BY DEF OutStep, Results
  <2>3. EndsInFlush(<<"resolve", "artifact_manifest", "flush">>) /\ <<"resolve", "artifact_manifest", "flush">>[1] = "resolve"
    BY <2>2, Steps3
  <2> QED BY <1>4, <2>1, <2>3
<1>5. CASE op = "export" /\ m
  <2>1. steps(op, m) = <<"resolve", "artifact_manifest", "files", "artifact_bundle", "flush">>
    BY <1>5 DEF steps
  <2>2. "resolve" \in OutStep \ {"flush"} /\ "artifact_manifest" \in OutStep \ {"flush"} /\ "files" \in OutStep \ {"flush"} /\ "artifact_bundle" \in OutStep \ {"flush"}
    BY DEF OutStep, Results
  <2>3. EndsInFlush(<<"resolve", "artifact_manifest", "files", "artifact_bundle", "flush">>) /\ <<"resolve", "artifact_manifest", "files", "artifact_bundle", "flush">>[1] = "resolve"
    BY <2>2, Steps5
  <2> QED BY <1>5, <2>1, <2>3
<1>6. CASE op = "export" /\ ~m
  <2>1. steps(op, m) = <<"resolve", "files", "artifact_bundle", "flush">>
    BY <1>6 DEF steps
  <2>2. "resolve" \in OutStep \ {"flush"} /\ "files" \in OutStep \ {"flush"} /\ "artifact_bundle" \in OutStep \ {"flush"}
    BY DEF OutStep, Results
  <2>3. EndsInFlush(<<"resolve", "files", "artifact_bundle", "flush">>) /\ <<"resolve", "files", "artifact_bundle", "flush">>[1] = "resolve"
    BY <2>2, Steps4
  <2> QED BY <1>6, <2>1, <2>3
<1>7. CASE op = "render"
  <2>1. steps(op, m) = <<"source", "markdown_export", "flush">>
    BY <1>7 DEF steps
  <2>2. "source" \in OutStep \ {"flush"} /\ "markdown_export" \in OutStep \ {"flush"}
    BY DEF OutStep, Results
  <2>3. EndsInFlush(<<"source", "markdown_export", "flush">>) /\ <<"source", "markdown_export", "flush">>[1] = "source"
    BY <2>2, Steps3
  <2> QED BY <1>7, <2>1, <2>3
<1>8. CASE op = "pdf"
  <2>1. steps(op, m) = <<"flush">>
    BY <1>8 DEF steps
  <2> QED BY <1>8, <2>1, Steps1
<1> QED BY <1>1, <1>2, <1>3, <1>4, <1>5, <1>6, <1>7, <1>8 DEF OutOp

\* A step is done, and another is left.
LEMMA Advances ==
    ASSUME NEW S, EndsInFlush(S), NEW todo, NEW store, Under(S, todo, store)
    PROVE  /\ Head(todo) = "flush" <=> Len(todo) = 1
           /\ Head(todo) = S[(Len(S) - Len(todo)) + 1]
           /\ Head(todo) # "flush" => Under(S, Tail(todo), store \cup ({Head(todo)} \cap Results))
<1> DEFINE d == Len(S) - Len(todo)
<1>0. Len(S) \in Nat /\ \A i \in 1 .. Len(S) : S[i] = "flush" <=> i = Len(S)
  BY DEF EndsInFlush
<1>1. todo \in Seq(OutStep) /\ Len(todo) \in 1 .. Len(S) /\ Len(todo) \in Nat /\ d \in Nat /\ d + 1 \in 1 .. Len(S)
  BY <1>0 DEF Under
<1>2. \A i \in 1 .. Len(todo) : todo[i] = S[d + i]
  BY DEF Under
<1>3. store = {S[i] : i \in 1 .. d} \cap Results
  BY DEF Under
<1>4. todo # <<>> /\ Head(todo) = todo[1] /\ 1 \in 1 .. Len(todo)
  BY <1>1
<1>5. Head(todo) = S[d + 1]
  BY <1>2, <1>4
<1>6. d + 1 = Len(S) <=> Len(todo) = 1
  <2>1. \A x, y \in Int : (x - y) + 1 = x <=> y = 1
    OBVIOUS
  <2>2. Len(S) \in Int /\ Len(todo) \in Int
    BY <1>0, <1>1
  <2> QED BY <2>1, <2>2
<1>7. Head(todo) = "flush" <=> Len(todo) = 1
  BY <1>0, <1>1, <1>5, <1>6
<1>8. ASSUME Head(todo) # "flush"
      PROVE  Under(S, Tail(todo), store \cup ({Head(todo)} \cap Results))
  <2>1. /\ Tail(todo) \in Seq(OutStep) /\ Len(Tail(todo)) = Len(todo) - 1
        /\ \A i \in 1 .. Len(Tail(todo)) : Tail(todo)[i] = todo[i + 1]
    BY <1>1, <1>4
  <2>2. Len(Tail(todo)) \in 1 .. Len(S) /\ Len(S) - Len(Tail(todo)) = d + 1
    BY <1>0, <1>1, <1>7, <1>8, <2>1
  <2>3. \A i \in 1 .. Len(Tail(todo)) : i + 1 \in 1 .. Len(todo) /\ d + (i + 1) = (d + 1) + i
    BY <1>1, <2>1
  <2> HIDE DEF d
  <2>4. \A i \in 1 .. Len(Tail(todo)) : Tail(todo)[i] = S[(d + 1) + i]
    BY <1>2, <2>1, <2>3
  <2>5. 1 .. (d + 1) = (1 .. d) \cup {d + 1}
    BY <1>1
  <2>6. {S[i] : i \in 1 .. (d + 1)} = {S[i] : i \in 1 .. d} \cup {Head(todo)}
    BY <1>5, <2>5
  <2>7. store \cup ({Head(todo)} \cap Results) = {S[i] : i \in 1 .. (d + 1)} \cap Results
    BY <1>3, <2>6
  <2> QED BY <2>1, <2>2, <2>4, <2>7 DEF Under
<1> QED BY <1>5, <1>7, <1>8

\* A selection that was made accounts for its candidates.
LEMMA SelectedAccounted ==
    ASSUME outIndex \subseteq OutArtifact, outIn.select.max \in Nat, outIn' = outIn,
           outSel' = selectArtifacts(outIndex, outIn.select)
    PROVE  SelectionAccounted'
<1> DEFINE sel == selectArtifacts(outIndex, outIn.select)
           r == outIn.select
<1>1. Considered(sel, outIndex, r) /\ sel.candidates = outIndex
  BY SelectionOk
<1> HIDE DEF sel, r
<1>2. /\ sel.selected \in Seq(OutArtifact) /\ Len(sel.selected) <= r.max
      /\ Taken(sel) \cup Left(sel) = outIndex /\ Taken(sel) \cap Left(sel) = {}
      /\ sel.excluded \subseteq OutArtifact \X Reason
  BY <1>1 DEF Considered
<1>3. /\ \A x, y \in sel.excluded : x[1] = y[1] => x = y
      /\ \A x \in sel.excluded : x[2] = "limit_exceeded" =>
            Len(sel.selected) >= r.max /\ \A a \in Taken(sel) : compareArtifacts(a, x[1])
      /\ \A a \in Taken(sel) : artifactAllowedForOutput(a, r)
  BY <1>1 DEF Considered
<1>4. Cardinality(sel.excluded) = Cardinality(Left(sel))
  BY <1>2, <1>3, LeftOnce DEF Left
<1>5. \A a \in Taken(sel) :
         a \notin OutRestricted /\ (outKind[a] = "raw_log" => r.raw_logs)
         /\ (outKind[a] = "model_call" => r.model_calls) /\ (r.redacted_only => a \notin OutUnredacted)
  BY <1>3 DEF artifactAllowedForOutput
<1>6. /\ Taken(sel) \cup Left(sel) = sel.candidates /\ Taken(sel) \cap Left(sel) = {}
      /\ Cardinality(sel.excluded) = Cardinality(Left(sel))
      /\ sel.selected # <<>> => Len(sel.selected) <= r.max
      /\ \A x \in sel.excluded, a \in Taken(sel) : x[2] = "limit_exceeded" => compareArtifacts(a, x[1])
      /\ Taken(sel) \cap OutRestricted = {}
  BY <1>1, <1>2, <1>3, <1>4, <1>5
<1>7. outSel' = sel /\ outIn'.select = r
  BY DEF sel, r
<1>8. ToSet(outSel'.selected) = Taken(sel) /\ {x[1] : x \in outSel'.excluded} = Left(sel)
  BY <1>7 DEF Taken, Left
<1> QED BY <1>5, <1>6, <1>7, <1>8 DEF SelectionAccounted

\* Nothing selected is accounted for.
LEMMA NothingAccounted == outSel' = NoSelection => SelectionAccounted'
<1> SUFFICES ASSUME outSel' = NoSelection PROVE SelectionAccounted'
  OBVIOUS
<1>1. outSel'.candidates = {} /\ outSel'.selected = <<>> /\ outSel'.excluded = {}
  BY DEF NoSelection
<1>2. ToSet(outSel'.selected) = {} /\ {x[1] : x \in outSel'.excluded} = {}
  BY <1>1 DEF ToSet
<1> QED BY <1>1, <1>2 DEF SelectionAccounted

\* A step that leaves the selection, its command and the mode alone leaves what holds of them.
LEMMA OutKeeps ==
    /\ SelectionAccounted /\ UNCHANGED <<outSel, outIn>> => SelectionAccounted'
    /\ ModeTellsOrigin /\ UNCHANGED <<outMode, outAsked, outIn>> => ModeTellsOrigin'
    /\ ResultsIndexed /\ UNCHANGED <<outOut, outFlushed, outIn>> => ResultsIndexed'
    /\ ExportAllOrNothing /\ UNCHANGED <<outFiles, outStore, outIn>> => ExportAllOrNothing'
<1>1. SelectionAccounted /\ UNCHANGED <<outSel, outIn>> => SelectionAccounted'
  BY DEF SelectionAccounted
<1>2. ModeTellsOrigin /\ UNCHANGED <<outMode, outAsked, outIn>> => ModeTellsOrigin'
  BY DEF ModeTellsOrigin
<1>3. ResultsIndexed /\ UNCHANGED <<outOut, outFlushed, outIn>> => ResultsIndexed'
  BY DEF ResultsIndexed
<1>4. ExportAllOrNothing /\ UNCHANGED <<outFiles, outStore, outIn>> => ExportAllOrNothing'
  BY DEF ExportAllOrNothing
<1> QED BY <1>1, <1>2, <1>3, <1>4

\* The invariant holds initially.
LEMMA OutInitOk == OutInit => OutInv
<1> SUFFICES ASSUME OutInit PROVE OutInv
  OBVIOUS
<1>1. /\ outPc = "idle" /\ outIn = [op |-> "none"] /\ outTodo = <<>> /\ outIndex = {}
      /\ outSel = NoSelection /\ outMode = [mode |-> "none", warns |-> FALSE] /\ outAsked = FALSE
      /\ outStore = {} /\ outFiles = {} /\ outFlushed = {} /\ outOut = "none"
  BY DEF OutInit
<1>2. outSel.candidates = {} /\ outSel.selected = <<>> /\ outSel.excluded = {}
  BY <1>1 DEF NoSelection
<1>3. ToSet(outSel.selected) = {} /\ {x[1] : x \in outSel.excluded} = {}
  BY <1>2 DEF ToSet
<1>4. SelectionAccounted
  BY <1>2, <1>3 DEF SelectionAccounted
<1>5. ModeTellsOrigin
  BY <1>1 DEF ModeTellsOrigin
<1> QED BY <1>1, <1>4, <1>5 DEF OutInv

\* A command begins with all of its steps to do.
LEMMA CommandBegins ==
    ASSUME OutInv, OutputCommand
    PROVE  OutInv'
<1>1. /\ outPc = "idle" /\ outPc' = "run" /\ outIndex' \subseteq OutArtifact
      /\ outTodo' = steps(outIn'.op, outIn'.manifest)
      /\ UNCHANGED <<outSel, outMode, outAsked, outStore, outFiles, outFlushed, outOut>>
  BY DEF OutputCommand
<1>2. /\ outSel = NoSelection /\ outMode.mode = "none" /\ ~outAsked /\ outStore = {} /\ outFiles = {}
      /\ outFlushed = {} /\ outOut = "none" /\ ModeTellsOrigin
  BY <1>1 DEF OutInv
<1>3. outIn'.op \in OutOp /\ outIn'.manifest \in BOOLEAN /\ outIn'.select.max \in Nat
  <2>0. \A preset, include, exclude, raw, calls, redacted, max :
           Selecting(preset, include, exclude, raw, calls, redacted, max).max = max
    BY DEF Selecting
  <2>1. \/ \E preset \in DOMAIN presetKinds, include, exclude \in {{}, {"raw_log"}},
              raw, calls, redacted \in BOOLEAN, max \in MaxSelected :
              outIn' = [op |-> "select", ids |-> {}, deterministic |-> TRUE, manifest |-> TRUE,
                        select |-> Selecting(preset, include, exclude, raw, calls, redacted, max)]
        \/ \E det \in BOOLEAN :
              outIn' = [op |-> "digest", ids |-> {}, deterministic |-> det, manifest |-> TRUE,
                        select |-> Selecting("all_safe", {}, {}, FALSE, FALSE, TRUE, 80)]
        \/ \E det, raw, calls \in BOOLEAN, preset \in DOMAIN presetKinds \ {"all_safe"} :
              outIn' = [op |-> "packet", ids |-> {}, deterministic |-> det, manifest |-> TRUE,
                        select |-> Selecting(preset, {}, {}, raw, calls, TRUE, 120)]
        \/ \E op \in {"manifest", "export", "render", "pdf"}, man \in BOOLEAN,
              ids \in {S \in SUBSET OutArtifact : Cardinality(S) \in 1..2} :
              /\ outIn' = [op |-> op, ids |-> ids, deterministic |-> TRUE, manifest |-> man,
                           select |-> Selecting("all_safe", {}, {}, FALSE, FALSE, TRUE, 80)]
              /\ op # "export" => man
    BY Zenon DEF OutputCommand
  <2>2. ASSUME NEW op \in OutOp, NEW ids, NEW det, NEW man \in BOOLEAN, NEW select, select.max \in Nat,
               outIn' = [op |-> op, ids |-> ids, deterministic |-> det, manifest |-> man, select |-> select]
        PROVE  outIn'.op \in OutOp /\ outIn'.manifest \in BOOLEAN /\ outIn'.select.max \in Nat
    <3>1. outIn'.op = op /\ outIn'.manifest = man /\ outIn'.select = select
      BY <2>2
    <3> QED BY <2>2, <3>1
  <2>3. 80 \in Nat /\ 120 \in Nat /\ \A max \in MaxSelected : max \in Nat
    BY OutputAssumption
  <2>4. /\ "select" \in OutOp /\ "digest" \in OutOp /\ "packet" \in OutOp
        /\ \A op \in {"manifest", "export", "render", "pdf"} : op \in OutOp
    BY DEF OutOp
  <2>5. TRUE \in BOOLEAN
    OBVIOUS
  <2>6. CASE \E preset \in DOMAIN presetKinds, include, exclude \in {{}, {"raw_log"}},
              raw, calls, redacted \in BOOLEAN, max \in MaxSelected :
              outIn' = [op |-> "select", ids |-> {}, deterministic |-> TRUE, manifest |-> TRUE,
                        select |-> Selecting(preset, include, exclude, raw, calls, redacted, max)]
    <3>1. PICK preset \in DOMAIN presetKinds, include \in {{}, {"raw_log"}}, exclude \in {{}, {"raw_log"}},
              raw \in BOOLEAN, calls \in BOOLEAN, redacted \in BOOLEAN, max \in MaxSelected :
              outIn' = [op |-> "select", ids |-> {}, deterministic |-> TRUE, manifest |-> TRUE,
                        select |-> Selecting(preset, include, exclude, raw, calls, redacted, max)]
      BY <2>6
    <3> DEFINE s == Selecting(preset, include, exclude, raw, calls, redacted, max)
    <3>2. s.max \in Nat
      BY <2>0, <2>3
    <3>3. outIn' = [op |-> "select", ids |-> {}, deterministic |-> TRUE, manifest |-> TRUE, select |-> s]
      BY <3>1
    <3> HIDE DEF s
    <3> QED BY <2>2, <2>4, <2>5, <3>2, <3>3
  <2>7. CASE \E det \in BOOLEAN :
              outIn' = [op |-> "digest", ids |-> {}, deterministic |-> det, manifest |-> TRUE,
                        select |-> Selecting("all_safe", {}, {}, FALSE, FALSE, TRUE, 80)]
    <3> DEFINE s == Selecting("all_safe", {}, {}, FALSE, FALSE, TRUE, 80)
    <3>2. s.max \in Nat
      <4>1. s.max = 80
        BY DEF Selecting
      <4> QED BY <2>3, <4>1
    <3>3. PICK det \in BOOLEAN :
             outIn' = [op |-> "digest", ids |-> {}, deterministic |-> det, manifest |-> TRUE, select |-> s]
      BY <2>7
    <3> HIDE DEF s
    <3> QED BY <2>2, <2>4, <2>5, <3>2, <3>3
  <2>8. CASE \E det, raw, calls \in BOOLEAN, preset \in DOMAIN presetKinds \ {"all_safe"} :
              outIn' = [op |-> "packet", ids |-> {}, deterministic |-> det, manifest |-> TRUE,
                        select |-> Selecting(preset, {}, {}, raw, calls, TRUE, 120)]
    <3>1. PICK det \in BOOLEAN, raw \in BOOLEAN, calls \in BOOLEAN, preset \in DOMAIN presetKinds \ {"all_safe"} :
              outIn' = [op |-> "packet", ids |-> {}, deterministic |-> det, manifest |-> TRUE,
                        select |-> Selecting(preset, {}, {}, raw, calls, TRUE, 120)]
      BY <2>8
    <3> DEFINE s == Selecting(preset, {}, {}, raw, calls, TRUE, 120)
    <3>2. s.max \in Nat
      <4>1. s.max = 120
        BY DEF Selecting
      <4> QED BY <2>3, <4>1
    <3>3. outIn' = [op |-> "packet", ids |-> {}, deterministic |-> det, manifest |-> TRUE, select |-> s]
      BY <3>1
    <3> HIDE DEF s
    <3> QED BY <2>2, <2>4, <2>5, <3>2, <3>3
  <2>9. CASE \E op \in {"manifest", "export", "render", "pdf"}, man \in BOOLEAN,
              ids \in {S \in SUBSET OutArtifact : Cardinality(S) \in 1..2} :
              /\ outIn' = [op |-> op, ids |-> ids, deterministic |-> TRUE, manifest |-> man,
                           select |-> Selecting("all_safe", {}, {}, FALSE, FALSE, TRUE, 80)]
              /\ op # "export" => man
    <3> DEFINE s == Selecting("all_safe", {}, {}, FALSE, FALSE, TRUE, 80)
    <3>2. s.max \in Nat
      <4>1. s.max = 80
        BY DEF Selecting
      <4> QED BY <2>3, <4>1
    <3>3. PICK op \in {"manifest", "export", "render", "pdf"}, man \in BOOLEAN,
              ids \in {S \in SUBSET OutArtifact : Cardinality(S) \in 1..2} :
              outIn' = [op |-> op, ids |-> ids, deterministic |-> TRUE, manifest |-> man, select |-> s]
      BY <2>9
    <3> HIDE DEF s
    <3> QED BY <2>2, <2>4, <3>2, <3>3
  <2> QED BY <2>1, <2>6, <2>7, <2>8, <2>9
<1> DEFINE S == steps(outIn'.op, outIn'.manifest)
<1>4. EndsInFlush(S)
  BY <1>3, StepsOk
<1> HIDE DEF S
<1>5. Under(S, S, {})
  <2>1. S \in Seq(OutStep) /\ Len(S) \in Nat /\ Len(S) \in 1 .. Len(S) /\ Len(S) - Len(S) = 0
    BY <1>4 DEF EndsInFlush
  <2>2. \A i \in 1 .. Len(S) : S[i] = S[(Len(S) - Len(S)) + i]
    BY <2>1
  <2>3. 1 .. 0 = {}
    OBVIOUS
  <2>4. {S[i] : i \in 1 .. (Len(S) - Len(S))} \cap Results = {}
    BY <2>1, <2>3
  <2> QED BY <2>1, <2>2, <2>4 DEF Under
<1>6. Under(steps(outIn'.op, outIn'.manifest), outTodo', outStore') /\ Len(outTodo') = Len(steps(outIn'.op, outIn'.manifest))
  BY <1>1, <1>2, <1>5 DEF S
<1>7. SelectionAccounted'
  BY <1>1, <1>2, NothingAccounted
<1>8. ModeTellsOrigin'
  <2>1. outMode' = outMode /\ outMode.mode = "none"
    BY <1>1, <1>2
  <2> QED BY <1>2, <2>1 DEF ModeTellsOrigin
<1> QED BY <1>1, <1>2, <1>3, <1>6, <1>7, <1>8 DEF OutInv

\* What holds while a command runs.
OutRuns ==
    /\ outIn.op \in OutOp /\ outIn.manifest \in BOOLEAN /\ outIn.select.max \in Nat
    /\ outIn.deterministic => ~outAsked
    /\ Under(steps(outIn.op, outIn.manifest), outTodo, outStore)
    /\ Barred(outIn) => Len(outTodo) = Len(steps(outIn.op, outIn.manifest)) /\ outFiles = {}
    /\ EndsInFlush(steps(outIn.op, outIn.manifest))
    /\ outFlushed = {} /\ outOut = "none"

\* A running command satisfies it.
LEMMA OutRunning == OutInv /\ outPc = "run" => OutRuns
<1> SUFFICES ASSUME OutInv, outPc = "run" PROVE OutRuns
  OBVIOUS
<1>1. outIn.op \in OutOp /\ outIn.manifest \in BOOLEAN
  BY DEF OutInv
<1>2. EndsInFlush(steps(outIn.op, outIn.manifest))
  BY <1>1, StepsOk
<1> QED BY <1>2 DEF OutInv, OutRuns

\* A step of a command that is not the last, what it leaves alone, and what it writes.
LEMMA StepProceeds ==
    ASSUME OutInv, outPc = "run", Head(outTodo) # "flush", Proceed, UNCHANGED <<outIn, outFlushed>>,
           outIndex' \subseteq OutArtifact,
           outStore' = outStore \cup ({Head(outTodo)} \cap Results),
           outIn.deterministic => ~outAsked',
           Barred(outIn) => Head(outTodo) # "resolve",
           SelectionAccounted', ModeTellsOrigin'
    PROVE  OutInv'
<1> DEFINE S == steps(outIn.op, outIn.manifest)
<1>1. OutRuns
  BY OutRunning
<1>2. EndsInFlush(S) /\ Under(S, outTodo, outStore)
  BY <1>1 DEF OutRuns
<1>3. Head(outTodo) = S[(Len(S) - Len(outTodo)) + 1] /\ Under(S, Tail(outTodo), outStore')
  BY <1>2, Advances
<1>4. ~Barred(outIn)
  <2> SUFFICES ASSUME Barred(outIn) PROVE FALSE
    OBVIOUS
  <2>1. Len(outTodo) = Len(S) /\ Len(S) \in Nat
    BY <1>1, <1>2 DEF OutRuns, EndsInFlush
  <2>2. (Len(S) - Len(outTodo)) + 1 = 1
    BY <2>1
  <2>3. S[1] = "resolve"
    <3>1. outIn.op \in {"export", "manifest"} /\ outIn.op \in OutOp /\ outIn.manifest \in BOOLEAN
      BY <1>1 DEF Barred, OutRuns
    <3> QED BY <3>1, StepsOk
  <2> HIDE DEF S
  <2> QED BY <1>3, <2>2, <2>3
<1>5. outTodo' = Tail(outTodo) /\ outPc' = "run" /\ outOut' = outOut
  BY DEF Proceed
<1>6. outIn' = outIn /\ outFlushed' = outFlushed
  OBVIOUS
<1>7. outIn'.op \in OutOp /\ outIn'.manifest \in BOOLEAN /\ outIn'.select.max \in Nat
      /\ outFlushed' = {} /\ outOut' = "none"
  BY <1>1, <1>5, <1>6 DEF OutRuns
<1>8. Under(steps(outIn'.op, outIn'.manifest), outTodo', outStore')
  BY <1>3, <1>5, <1>6 DEF S
<1>9. ~Barred(outIn') /\ (outIn'.deterministic => ~outAsked')
  BY <1>4, <1>6
<1> QED BY <1>5, <1>7, <1>8, <1>9 DEF OutInv

\* A command that throws registers nothing, and what a restricted name barred stays.
LEMMA StepThrows ==
    ASSUME OutInv, outPc = "run", CommandThrows, UNCHANGED <<outIn, outFlushed, outIndex, outStore, outSel, outMode, outAsked>>,
           Barred(outIn) => outFiles' = {}
    PROVE  OutInv'
<1>1. OutRuns
  BY OutRunning
<1>2. outPc' = "done" /\ outOut' = "threw"
  BY DEF CommandThrows
<1>3. ResultsIndexed'
  BY <1>1, <1>2 DEF OutRuns, ResultsIndexed
<1>4. Barred(outIn) => outStore = {}
  <2> SUFFICES ASSUME Barred(outIn) PROVE outStore = {}
    OBVIOUS
  <2> DEFINE S == steps(outIn.op, outIn.manifest)
  <2>1. Len(outTodo) = Len(S) /\ Len(S) \in Nat
    BY <1>1 DEF OutRuns, EndsInFlush
  <2>2. Len(S) - Len(outTodo) = 0 /\ 1 .. 0 = {}
    BY <2>1
  <2>3. outStore = {S[i] : i \in 1 .. (Len(S) - Len(outTodo))} \cap Results
    BY <1>1 DEF OutRuns, Under
  <2> HIDE DEF S
  <2> QED BY <2>2, <2>3
<1>5. ExportAllOrNothing'
  BY <1>4 DEF ExportAllOrNothing, Barred
<1>6. SelectionAccounted' /\ ModeTellsOrigin'
  BY OutKeeps DEF OutInv
<1>7. outIndex' \subseteq OutArtifact
  BY DEF OutInv
<1> QED BY <1>2, <1>3, <1>5, <1>6, <1>7 DEF OutInv

\* Every step of the output pack keeps the invariant.
LEMMA OutStepOk == OutInv /\ [OutNext]_outVars => OutInv'
<1> SUFFICES ASSUME OutInv, [OutNext]_outVars PROVE OutInv'
  OBVIOUS
<1>0. SelectionAccounted /\ ModeTellsOrigin /\ outIndex \subseteq OutArtifact
  BY DEF OutInv
<1>1. CASE OutputCommand
  BY <1>1, CommandBegins
<1>2. CASE SelectArtifacts
  <2>1. /\ outPc = "run" /\ Head(outTodo) = "select" /\ Proceed
        /\ outSel' = selectArtifacts(outIndex, outIn.select)
        /\ UNCHANGED <<outIn, outIndex, outMode, outAsked, outStore, outFiles, outFlushed>>
    BY <1>2 DEF SelectArtifacts, At
  <2>2. OutRuns
    BY <2>1, OutRunning
  <2>3. SelectionAccounted' /\ ModeTellsOrigin'
    <3>1. outIn.select.max \in Nat
      BY <2>2 DEF OutRuns
    <3> QED BY <1>0, <2>1, <3>1, SelectedAccounted, OutKeeps
  <2>4. outStore' = outStore \cup ({Head(outTodo)} \cap Results)
    BY <2>1 DEF Results
  <2> QED BY <1>0, <2>1, <2>2, <2>3, <2>4, StepProceeds DEF OutRuns
<1>3. CASE ResolveArtifactIds
  <2>1. /\ outPc = "run" /\ Head(outTodo) = "resolve"
        /\ IF resolveThrows(outIn.ids) THEN CommandThrows ELSE Proceed
        /\ UNCHANGED <<outIn, outIndex, outSel, outMode, outAsked, outStore, outFiles, outFlushed>>
    BY <1>3 DEF ResolveArtifactIds, At
  <2>2. OutRuns
    BY <2>1, OutRunning
  <2>3. CASE resolveThrows(outIn.ids)
    <3>1. Barred(outIn) => outFiles' = {}
      BY <2>1, <2>2 DEF OutRuns
    <3> QED BY <2>1, <2>3, <3>1, StepThrows
  <2>4. CASE ~resolveThrows(outIn.ids)
    <3>1. ~Barred(outIn)
      BY <2>4 DEF Barred, resolveThrows
    <3>2. outStore' = outStore \cup ({Head(outTodo)} \cap Results)
      BY <2>1 DEF Results
    <3>3. SelectionAccounted' /\ ModeTellsOrigin'
      BY <1>0, <2>1, OutKeeps
    <3> QED BY <1>0, <2>1, <2>2, <2>4, <3>1, <3>2, <3>3, StepProceeds DEF OutRuns
  <2> QED BY <2>3, <2>4
<1>4. CASE ReadSource
  <2>1. /\ outPc = "run" /\ Head(outTodo) = "source" /\ (Proceed \/ CommandThrows)
        /\ UNCHANGED <<outIn, outIndex, outSel, outMode, outAsked, outStore, outFiles, outFlushed>>
    BY <1>4 DEF ReadSource, At
  <2>2. OutRuns
    BY <2>1, OutRunning
  <2>3. CASE CommandThrows
    <3>1. Barred(outIn) => outFiles' = {}
      BY <2>1, <2>2 DEF OutRuns
    <3> QED BY <2>1, <2>3, <3>1, StepThrows
  <2>4. CASE Proceed
    <3>2. outStore' = outStore \cup ({Head(outTodo)} \cap Results)
      BY <2>1 DEF Results
    <3>3. SelectionAccounted' /\ ModeTellsOrigin'
      BY <1>0, <2>1, OutKeeps
    <3> QED BY <1>0, <2>1, <2>2, <2>4, <3>2, <3>3, StepProceeds DEF OutRuns
  <2> QED BY <2>1, <2>3, <2>4
<1>5. CASE WriteDigest
  <2>1. /\ outPc = "run" /\ Head(outTodo) = "write_digest" /\ Proceed
        /\ UNCHANGED <<outIn, outIndex, outSel, outStore, outFiles, outFlushed>>
    BY <1>5 DEF WriteDigest, At
  <2>2. OutRuns
    BY <2>1, OutRunning
  <2>3. \/ outIn.deterministic /\ outAsked' = outAsked /\ outMode' = [mode |-> "deterministic_requested", warns |-> FALSE]
        \/ /\ ~outIn.deterministic
           /\ \E asked, ok \in BOOLEAN :
                 /\ ok => asked
                 /\ outAsked' = asked
                 /\ outMode' = [mode |-> generationMode(asked, ok), warns |-> ~ok]
    BY <1>5 DEF WriteDigest
  <2>4. ModeTellsOrigin' /\ (outIn.deterministic => ~outAsked')
    <3>1. CASE outIn.deterministic
      <4>1. outAsked' = outAsked /\ outMode' = [mode |-> "deterministic_requested", warns |-> FALSE] /\ ~outAsked
        BY <2>2, <2>3, <3>1 DEF OutRuns
      <4>2. outMode'.mode = "deterministic_requested" /\ ~outMode'.warns /\ ~outAsked' /\ outIn' = outIn
        BY <2>1, <4>1
      <4> QED BY <3>1, <4>2 DEF ModeTellsOrigin
    <3>2. CASE ~outIn.deterministic
      <4>1. PICK asked \in BOOLEAN, ok \in BOOLEAN :
               (ok => asked) /\ outAsked' = asked /\ outMode' = [mode |-> generationMode(asked, ok), warns |-> ~ok]
        BY <2>3, <3>2
      <4>2. outMode'.mode = generationMode(asked, ok) /\ (outMode'.warns <=> ~ok)
        BY <4>1
      <4>3. CASE ok
        <5>1. outMode'.mode = "model" /\ outAsked' /\ ~outMode'.warns
          BY <4>1, <4>2, <4>3 DEF generationMode
        <5> QED BY <3>2, <5>1 DEF ModeTellsOrigin
      <4>4. CASE ~ok
        <5>1. outMode'.mode = "deterministic_fallback" /\ outMode'.warns
          BY <4>1, <4>2, <4>4 DEF generationMode
        <5> QED BY <3>2, <5>1 DEF ModeTellsOrigin
      <4> QED BY <4>3, <4>4
    <3> QED BY <3>1, <3>2
  <2>5. outStore' = outStore \cup ({Head(outTodo)} \cap Results)
    BY <2>1 DEF Results
  <2>6. SelectionAccounted'
    BY <1>0, <2>1, OutKeeps
  <2> QED BY <1>0, <2>1, <2>4, <2>5, <2>6, StepProceeds
<1>6. CASE WriteOutputArtifact
  <2>1. /\ outPc = "run" /\ Head(outTodo) \in Results
        /\ \/ Proceed /\ outStore' = outStore \cup {Head(outTodo)}
           \/ CommandThrows /\ UNCHANGED outStore
        /\ UNCHANGED <<outIn, outIndex, outSel, outMode, outAsked, outFiles, outFlushed>>
    BY <1>6 DEF WriteOutputArtifact
  <2>2. OutRuns
    BY <2>1, OutRunning
  <2>3. CASE CommandThrows /\ UNCHANGED outStore
    <3>1. Barred(outIn) => outFiles' = {}
      BY <2>1, <2>2 DEF OutRuns
    <3> QED BY <2>1, <2>3, <3>1, StepThrows
  <2>4. CASE Proceed /\ outStore' = outStore \cup {Head(outTodo)}
    <3>1. Head(outTodo) # "flush" /\ Head(outTodo) # "resolve"
      BY <2>1 DEF Results
    <3>2. outStore' = outStore \cup ({Head(outTodo)} \cap Results)
      BY <2>1, <2>4
    <3>3. SelectionAccounted' /\ ModeTellsOrigin'
      BY <1>0, <2>1, OutKeeps
    <3> QED BY <1>0, <2>1, <2>2, <2>4, <3>1, <3>2, <3>3, StepProceeds DEF OutRuns
  <2> QED BY <2>1, <2>3, <2>4
<1>7. CASE WriteExport
  <2>1. /\ outPc = "run" /\ Head(outTodo) = "files"
        /\ \/ Proceed /\ outFiles' = outIn.ids
           \/ CommandThrows /\ outFiles' \in SUBSET outIn.ids
        /\ UNCHANGED <<outIn, outIndex, outSel, outMode, outAsked, outStore, outFlushed>>
    BY <1>7 DEF WriteExport, At
  <2>2. OutRuns
    BY <2>1, OutRunning
  <2>3. CASE CommandThrows /\ outFiles' \in SUBSET outIn.ids
    <3>1. ~Barred(outIn)
      <4> SUFFICES ASSUME Barred(outIn) PROVE FALSE
        OBVIOUS
      <4> DEFINE S == steps(outIn.op, outIn.manifest)
      <4>1. Len(outTodo) = Len(S) /\ Len(S) \in Nat /\ EndsInFlush(S) /\ Under(S, outTodo, outStore)
        BY <2>2 DEF OutRuns, EndsInFlush
      <4>2. S[1] = "resolve"
        <5>1. outIn.op \in {"export", "manifest"} /\ outIn.op \in OutOp /\ outIn.manifest \in BOOLEAN
          BY <2>2 DEF Barred, OutRuns
        <5> QED BY <5>1, StepsOk
      <4> HIDE DEF S
      <4>3. Head(outTodo) = S[(Len(S) - Len(outTodo)) + 1]
        BY <4>1, Advances
      <4>4. (Len(S) - Len(outTodo)) + 1 = 1
        BY <4>1
      <4> QED BY <2>1, <4>2, <4>3, <4>4
    <3> QED BY <2>1, <2>3, <3>1, StepThrows
  <2>4. CASE Proceed /\ outFiles' = outIn.ids
    <3>2. outStore' = outStore \cup ({Head(outTodo)} \cap Results)
      BY <2>1 DEF Results
    <3>3. SelectionAccounted' /\ ModeTellsOrigin'
      BY <1>0, <2>1, OutKeeps
    <3> QED BY <1>0, <2>1, <2>2, <2>4, <3>2, <3>3, StepProceeds DEF OutRuns
  <2> QED BY <2>1, <2>3, <2>4
<1>8. CASE FlushResults
  <2>1. /\ outPc = "run" /\ Head(outTodo) = "flush" /\ outFlushed' = outStore
        /\ outPc' = "done" /\ outOut' = "ok"
        /\ UNCHANGED <<outIn, outIndex, outSel, outMode, outAsked, outStore, outFiles>>
    BY <1>8 DEF FlushResults, At, flushAll
  <2>2. OutRuns
    BY <2>1, OutRunning
  <2> DEFINE S == steps(outIn.op, outIn.manifest)
  <2>3. EndsInFlush(S) /\ Under(S, outTodo, outStore)
    BY <2>2 DEF OutRuns
  <2>4. Len(outTodo) = 1 /\ Len(S) \in Nat /\ Len(S) > 0 /\ S[Len(S)] = "flush" /\ S \in Seq(OutStep)
    <3> HIDE DEF S
    <3>1. Len(outTodo) = 1
      BY <2>1, <2>3, Advances
    <3>2. /\ S \in Seq(OutStep) /\ Len(S) \in Nat /\ Len(S) > 0
          /\ \A i \in 1 .. Len(S) : S[i] = "flush" <=> i = Len(S)
      BY <2>3 DEF EndsInFlush
    <3>3. Len(S) \in 1 .. Len(S)
      BY <3>2
    <3> QED BY <3>1, <3>2, <3>3
  <2>5. outStore = ToSet(S) \cap Results
    <3> HIDE DEF S
    <3>1. outStore = {S[i] : i \in 1 .. (Len(S) - 1)} \cap Results
      BY <2>3, <2>4 DEF Under
    <3>2. 1 .. Len(S) = (1 .. (Len(S) - 1)) \cup {Len(S)} /\ DOMAIN S = 1 .. Len(S)
      BY <2>4
    <3>3. ToSet(S) = {S[i] : i \in 1 .. (Len(S) - 1)} \cup {"flush"}
      BY <2>4, <3>2 DEF ToSet
    <3>4. "flush" \notin Results
      BY DEF Results
    <3> QED BY <3>1, <3>3, <3>4
  <2>6. ResultsIndexed'
    <3>1. outIn' = outIn /\ outOut' = "ok" /\ outFlushed' = outStore
      BY <2>1
    <3>2. outFlushed' = ToSet(steps(outIn'.op, outIn'.manifest)) \cap Results
      BY <2>5, <3>1
    <3> QED BY <3>1, <3>2 DEF ResultsIndexed
  <2>7. ~Barred(outIn)
    <3> SUFFICES ASSUME Barred(outIn) PROVE FALSE
      OBVIOUS
    <3>1. Len(outTodo) = Len(S)
      BY <2>2 DEF OutRuns
    <3>2. S[1] = "resolve"
      <4>1. outIn.op \in {"export", "manifest"} /\ outIn.op \in OutOp /\ outIn.manifest \in BOOLEAN
        BY <2>2 DEF Barred, OutRuns
      <4> QED BY <4>1, StepsOk
    <3> HIDE DEF S
    <3> QED BY <2>4, <3>1, <3>2
  <2>8. ExportAllOrNothing'
    BY <2>1, <2>7 DEF ExportAllOrNothing, Barred
  <2>9. SelectionAccounted' /\ ModeTellsOrigin' /\ outIndex' \subseteq OutArtifact
    BY <1>0, <2>1, OutKeeps
  <2> QED BY <2>1, <2>6, <2>8, <2>9 DEF OutInv
<1>9. ASSUME NEW a \in OutArtifact, IndexLoses(a) PROVE OutInv'
  <2>1. /\ outPc = "run" /\ outIndex' = outIndex \ {a}
        /\ UNCHANGED <<outPc, outIn, outTodo, outSel, outMode, outAsked, outStore, outFiles, outFlushed, outOut>>
    BY <1>9 DEF IndexLoses
  <2>2. outIndex' \subseteq OutArtifact /\ SelectionAccounted' /\ ModeTellsOrigin'
    BY <1>0, <2>1, OutKeeps
  <2> QED BY <2>1, <2>2 DEF OutInv
<1>10. CASE UNCHANGED outVars
  <2>1. UNCHANGED <<outPc, outIn, outTodo, outIndex, outSel, outMode, outAsked, outStore, outFiles, outFlushed, outOut>>
    BY <1>10 DEF outVars
  <2>2. SelectionAccounted' /\ ModeTellsOrigin'
    BY <1>0, <2>1, OutKeeps
  <2>3. (ResultsIndexed => ResultsIndexed') /\ (ExportAllOrNothing => ExportAllOrNothing')
    BY <2>1, OutKeeps
  <2> QED BY <2>1, <2>2, <2>3 DEF OutInv
<1> QED BY <1>1, <1>2, <1>3, <1>4, <1>5, <1>6, <1>7, <1>8, <1>9, <1>10 DEF OutNext

\* What holds of a command implies the property.
LEMMA OutFollows == OutInv => OutputsTraceable
<1> SUFFICES ASSUME OutInv PROVE OutputsTraceable
  OBVIOUS
<1>1. SelectionAccounted /\ ModeTellsOrigin
  BY DEF OutInv
<1>2. CASE outPc = "done"
  BY <1>1, <1>2 DEF OutInv, OutputsTraceable
<1>3. CASE outPc = "idle"
  <2>1. outStore = {} /\ outFiles = {} /\ outOut = "none"
    BY <1>3 DEF OutInv
  <2> QED BY <1>1, <2>1 DEF OutputsTraceable, ResultsIndexed, ExportAllOrNothing
<1>4. CASE outPc = "run"
  <2>1. OutRuns
    BY <1>4, OutRunning
  <2>2. ResultsIndexed
    BY <2>1 DEF OutRuns, ResultsIndexed
  <2>3. Barred(outIn) => outStore = {} /\ outFiles = {}
    <3> SUFFICES ASSUME Barred(outIn) PROVE outStore = {} /\ outFiles = {}
      OBVIOUS
    <3> DEFINE S == steps(outIn.op, outIn.manifest)
    <3>1. Len(outTodo) = Len(S) /\ Len(S) \in Nat /\ outFiles = {}
      BY <2>1 DEF OutRuns, EndsInFlush
    <3>2. Len(S) - Len(outTodo) = 0 /\ 1 .. 0 = {}
      BY <3>1
    <3>3. outStore = {S[i] : i \in 1 .. (Len(S) - Len(outTodo))} \cap Results
      BY <2>1 DEF OutRuns, Under
    <3> HIDE DEF S
    <3> QED BY <3>1, <3>2, <3>3
  <2> QED BY <1>1, <2>2, <2>3 DEF OutputsTraceable, ExportAllOrNothing, Barred
<1> QED BY <1>2, <1>3, <1>4 DEF OutInv

\* What the output pack makes can be traced: a selection accounts for every candidate and
\* takes nothing it was not to take, a command registers all of its results or none, a
\* restricted artifact keeps the whole of an export back, and the mode of a digest tells
\* who wrote it (capability-packs/output).
THEOREM OutputsTraceableHolds == OutSpec => []OutputsTraceable
<1>1. OutInit => OutInv
  BY OutInitOk
<1>2. OutInv /\ [OutNext]_outVars => OutInv'
  BY OutStepOk
<1>3. OutInv => OutputsTraceable
  BY OutFollows
<1> QED BY <1>1, <1>2, <1>3, PTL DEF OutSpec

-----------------------------------------------------------------------------
(* ResearchFlow: the loops over candidates and sources                     *)

\* What a filter of the first n elements of a list by T holds.
Filtered(v, s, T, n) ==
    /\ \A i \in 1 .. Len(v) : \E k \in 1 .. n : s[k] \in T /\ v[i] = s[k]
    /\ \A k \in 1 .. n : s[k] \in T => \E i \in 1 .. Len(v) : v[i] = s[k]
    /\ (\A k, l \in 1 .. n : s[k] \in T /\ s[k] = s[l] => k = l)
       => \A i, j \in 1 .. Len(v) : v[i] = v[j] => i = j

\* One more element, in T or not.
LEMMA FilteredTurn ==
    ASSUME NEW X, NEW s \in Seq(X), NEW T, NEW n \in 1 .. Len(s), NEW v \in Seq(X), Filtered(v, s, T, n - 1)
    PROVE  Filtered(IF s[n] \in T THEN Append(v, s[n]) ELSE v, s, T, n)
<1>0. Len(v) \in Nat /\ n \in Nat /\ n \in 1 .. n /\ s[n] \in X /\ n - 1 \in Nat
      /\ \A k \in 1 .. n : k = n \/ k \in 1 .. (n - 1)
  OBVIOUS
<1>00. \A k \in 1 .. (n - 1) : k \in 1 .. n /\ k # n
  OBVIOUS
<1>1. CASE s[n] \notin T
  <2>1. \A k \in 1 .. n : s[k] \in T => k \in 1 .. (n - 1)
    BY <1>0, <1>1
  <2>2. \A i \in 1 .. Len(v) : \E k \in 1 .. n : s[k] \in T /\ v[i] = s[k]
    BY <1>00 DEF Filtered
  <2>3. \A k \in 1 .. n : s[k] \in T => \E i \in 1 .. Len(v) : v[i] = s[k]
    BY <2>1 DEF Filtered
  <2>4. ASSUME \A k, l \in 1 .. n : s[k] \in T /\ s[k] = s[l] => k = l
        PROVE  \A i, j \in 1 .. Len(v) : v[i] = v[j] => i = j
    BY <1>00, <2>4 DEF Filtered
  <2> QED BY <1>1, <2>2, <2>3, <2>4 DEF Filtered
<1>2. CASE s[n] \in T
  <2> DEFINE w == Append(v, s[n])
  <2>1. /\ Len(w) = Len(v) + 1 /\ \A i \in 1 .. Len(v) : w[i] = v[i]
        /\ w[Len(v) + 1] = s[n]
    BY <1>0, AppendOk
  <2>2. \A i \in 1 .. Len(w) : i = Len(v) + 1 \/ i \in 1 .. Len(v)
    BY <1>0, <2>1
  <2>3. (Len(v) + 1 \in 1 .. Len(w)) /\ \A i \in 1 .. Len(v) : i \in 1 .. Len(w)
    BY <1>0, <2>1
  <2> HIDE DEF w
  <2>4. ASSUME NEW i \in 1 .. Len(w) PROVE \E k \in 1 .. n : s[k] \in T /\ w[i] = s[k]
    <3>1. CASE i = Len(v) + 1
      BY <1>0, <1>2, <2>1, <3>1
    <3>2. CASE i \in 1 .. Len(v)
      BY <1>00, <2>1, <3>2 DEF Filtered
    <3> QED BY <2>2, <3>1, <3>2
  <2>5. ASSUME NEW k \in 1 .. n, s[k] \in T PROVE \E i \in 1 .. Len(w) : w[i] = s[k]
    <3>1. CASE k = n
      BY <2>1, <2>3, <3>1
    <3>2. CASE k \in 1 .. (n - 1)
      <4>1. PICK i \in 1 .. Len(v) : v[i] = s[k]
        BY <2>5, <3>2 DEF Filtered
      <4> QED BY <2>1, <2>3, <4>1
    <3> QED BY <1>0, <3>1, <3>2
  <2>6. ASSUME \A k, l \in 1 .. n : s[k] \in T /\ s[k] = s[l] => k = l
        PROVE  \A i, j \in 1 .. Len(w) : w[i] = w[j] => i = j
    <3>1. \A i, j \in 1 .. Len(v) : v[i] = v[j] => i = j
      BY <1>00, <2>6 DEF Filtered
    <3>2. ASSUME NEW i \in 1 .. Len(v) PROVE w[i] # s[n]
      <4>1. PICK k \in 1 .. (n - 1) : s[k] \in T /\ v[i] = s[k]
        BY DEF Filtered
      <4> QED BY <1>0, <1>00, <2>1, <2>6, <4>1
    <3> QED BY <2>1, <2>2, <3>1, <3>2
  <2> QED BY <1>2, <2>4, <2>5, <2>6 DEF Filtered, w
<1> QED BY <1>1, <1>2

\* A filter keeps a sequence, what it keeps is of the list and of T, and all of that is kept.
LEMMA ThoseOk ==
    ASSUME NEW X, NEW s \in Seq(X), NEW T
    PROVE  those(s, T) \in Seq(X) /\ Filtered(those(s, T), s, T, Len(s))
<1> DEFINE N == Len(s)
           none == <<>>
           S == Seq(X)
           step(v, n) == IF s[n] \in T THEN Append(v, s[n]) ELSE v
<1>1. N \in Nat /\ \A n \in 1 .. N : s[n] \in X
  OBVIOUS
<1>2. none \in S
  OBVIOUS
<1>3. ASSUME NEW n \in 1 .. N, NEW v \in S PROVE step(v, n) \in S
  BY <1>1, AppendOk
<1> DEFINE Looped(f) == f = [n \in 0 .. N |-> IF n = 0 THEN none ELSE step(f[n - 1], n)]
           up == CHOOSE f : Looped(f)
<1>7. PICK g : Looped(g) /\ g \in [0 .. N -> S]
  <2> DEFINE turn == [n \in 1 .. N |-> [v \in S |-> step(v, n)]]
  <2> HIDE DEF N, step, S, none
  <2>1. \A n \in 1 .. N, v \in S : turn[n][v] = step(v, n)
    OBVIOUS
  <2>2. \A n \in 1 .. N, v \in S : turn[n][v] \in S
    BY <1>3, <2>1
  <2> HIDE DEF turn
  <2>3. PICK f : Loop(f, N, none, turn)
    BY <1>1, LoopExists
  <2>4. f \in [0 .. N -> S] /\ f[0] = none /\ \A n \in 1 .. N : f[n] = turn[n][f[n - 1]]
    BY <1>1, <1>2, <2>2, <2>3, LoopTyped
  <2>5. \A n \in 1 .. N : n - 1 \in 0 .. N
    BY <1>1
  <2>6. \A n \in 1 .. N : f[n] = step(f[n - 1], n)
    BY <2>1, <2>4, <2>5
  <2>7. ASSUME NEW n \in 0 .. N PROVE f[n] = IF n = 0 THEN none ELSE step(f[n - 1], n)
    <3>1. n = 0 \/ n \in 1 .. N
      BY <1>1
    <3>2. CASE n = 0
      BY <2>4, <3>2
    <3>3. CASE n \in 1 .. N
      <4>1. n # 0
        BY <1>1, <3>3
      <4> QED BY <2>6, <3>3, <4>1
    <3> QED BY <3>1, <3>2, <3>3
  <2>8. f = [n \in 0 .. N |-> f[n]]
    BY <2>4
  <2>9. Looped(f)
    BY <2>7, <2>8
  <2> QED BY <2>4, <2>9
<1>8. those(s, T) = up[N]
  BY DEF those
<1>9. Looped(up)
  <2> HIDE DEF Looped
  <2> QED BY <1>7
<1>10. up[0] = none /\ \A n \in 1 .. N : up[n] = step(up[n - 1], n)
  <2> HIDE DEF up, step, N, none
  <2> QED BY <1>1, <1>9
<1> HIDE DEF up, Looped
<1> DEFINE P == {n \in 0 .. N : up[n] \in S /\ Filtered(up[n], s, T, n)}
<1>11. 0 \in P
  <2>1. Len(none) = 0 /\ 1 .. 0 = {}
    OBVIOUS
  <2> HIDE DEF none
  <2>2. Filtered(none, s, T, 0)
    BY <2>1 DEF Filtered
  <2> QED BY <1>1, <1>2, <1>10, <2>2
<1>12. ASSUME NEW n \in 1 .. N, n - 1 \in P PROVE n \in P
  <2>1. n \in 0 .. N /\ up[n] = step(up[n - 1], n)
    <3> HIDE DEF step
    <3> QED BY <1>1, <1>10
  <2>2. up[n - 1] \in S /\ Filtered(up[n - 1], s, T, n - 1)
    BY <1>12
  <2>3. Filtered(step(up[n - 1], n), s, T, n)
    BY <2>2, FilteredTurn
  <2>4. step(up[n - 1], n) \in S
    <3> HIDE DEF step, S
    <3> QED BY <1>3, <2>2
  <2> HIDE DEF step, S, N
  <2> QED BY <2>1, <2>3, <2>4
<1>13. N \in P
  <2>1. 0 .. N \subseteq P
    <3> HIDE DEF P, N
    <3> QED BY <1>1, <1>11, <1>12, InductionUpTo
  <2>2. N \in 0 .. N
    BY <1>1
  <2> HIDE DEF P, N
  <2> QED BY <2>1, <2>2
<1> QED BY <1>8, <1>13

\* The candidates that a coordinator collects.
ResCand == [c : Candidate, mode : {"live", "fixture"}]

\* What removing duplicates from the first n candidates leaves.
Deduped(v, cands, n) ==
    /\ \A i \in 1 .. Len(v) : \E k \in 1 .. n : v[i] = cands[k]
    /\ \A k \in 1 .. n : \E i \in 1 .. Len(v) : candUrl[v[i].c] = candUrl[cands[k].c]
    /\ \A i, j \in 1 .. Len(v) : candUrl[v[i].c] = candUrl[v[j].c] => i = j

\* One more candidate, of a known URL or not.
LEMMA DedupedTurn ==
    ASSUME NEW X, NEW s \in Seq(X), NEW n \in 1 .. Len(s), NEW v \in Seq(X), Deduped(v, s, n - 1)
    PROVE  Deduped(IF sameUrl(v, s[n]) THEN v ELSE Append(v, s[n]), s, n)
<1>0. Len(v) \in Nat /\ n \in Nat /\ n \in 1 .. n /\ s[n] \in X /\ n - 1 \in Nat /\ DOMAIN v = 1 .. Len(v)
      /\ \A k \in 1 .. n : k = n \/ k \in 1 .. (n - 1)
  OBVIOUS
<1>00. \A k \in 1 .. (n - 1) : k \in 1 .. n
  OBVIOUS
<1>1. CASE sameUrl(v, s[n])
  <2>1. PICK j \in 1 .. Len(v) : candUrl[v[j].c] = candUrl[s[n].c]
    BY <1>0, <1>1 DEF sameUrl
  <2>2. \A i \in 1 .. Len(v) : \E k \in 1 .. n : v[i] = s[k]
    BY <1>00 DEF Deduped
  <2>3. \A k \in 1 .. n : \E i \in 1 .. Len(v) : candUrl[v[i].c] = candUrl[s[k].c]
    BY <1>0, <2>1 DEF Deduped
  <2> QED BY <1>1, <2>2, <2>3 DEF Deduped
<1>2. CASE ~sameUrl(v, s[n])
  <2> DEFINE w == Append(v, s[n])
  <2>1. /\ Len(w) = Len(v) + 1 /\ \A i \in 1 .. Len(v) : w[i] = v[i]
        /\ w[Len(v) + 1] = s[n]
    BY <1>0, AppendOk
  <2>2. \A i \in 1 .. Len(w) : i = Len(v) + 1 \/ i \in 1 .. Len(v)
    BY <1>0, <2>1
  <2>3. (Len(v) + 1 \in 1 .. Len(w)) /\ \A i \in 1 .. Len(v) : i \in 1 .. Len(w)
    BY <1>0, <2>1
  <2>0. \A i \in 1 .. Len(v) : candUrl[v[i].c] # candUrl[s[n].c]
    BY <1>0, <1>2 DEF sameUrl
  <2> HIDE DEF w
  <2>4. ASSUME NEW i \in 1 .. Len(w) PROVE \E k \in 1 .. n : w[i] = s[k]
    <3>1. CASE i = Len(v) + 1
      BY <1>0, <2>1, <3>1
    <3>2. CASE i \in 1 .. Len(v)
      <4>1. PICK k \in 1 .. (n - 1) : v[i] = s[k]
        BY <3>2 DEF Deduped
      <4>2. w[i] = v[i] /\ k \in 1 .. n
        BY <2>1, <3>2
      <4> QED BY <4>1, <4>2
    <3> QED BY <2>2, <3>1, <3>2
  <2>5. ASSUME NEW k \in 1 .. n PROVE \E i \in 1 .. Len(w) : candUrl[w[i].c] = candUrl[s[k].c]
    <3>1. CASE k = n
      BY <2>1, <2>3, <3>1
    <3>2. CASE k \in 1 .. (n - 1)
      <4>1. PICK i \in 1 .. Len(v) : candUrl[v[i].c] = candUrl[s[k].c]
        BY <3>2 DEF Deduped
      <4> QED BY <2>1, <2>3, <4>1
    <3> QED BY <1>0, <3>1, <3>2
  <2>6. \A i, j \in 1 .. Len(w) : candUrl[w[i].c] = candUrl[w[j].c] => i = j
    <3>1. \A i, j \in 1 .. Len(v) : candUrl[v[i].c] = candUrl[v[j].c] => i = j
      BY DEF Deduped
    <3>2. \A i \in 1 .. Len(v) : candUrl[w[i].c] # candUrl[s[n].c]
      BY <2>0, <2>1
    <3> QED BY <2>1, <2>2, <3>1, <3>2
  <2> QED BY <1>2, <2>4, <2>5, <2>6 DEF Deduped, w
<1> QED BY <1>1, <1>2

\* Removing duplicates keeps the first candidate of each URL.
LEMMA DedupeOk ==
    ASSUME NEW X, NEW s \in Seq(X)
    PROVE  dedupeCandidates(s) \in Seq(X) /\ Deduped(dedupeCandidates(s), s, Len(s))
<1> DEFINE N == Len(s)
           none == <<>>
           S == Seq(X)
           step(v, n) == IF sameUrl(v, s[n]) THEN v ELSE Append(v, s[n])
<1>1. N \in Nat /\ \A n \in 1 .. N : s[n] \in X
  OBVIOUS
<1>2. none \in S
  OBVIOUS
<1>3. ASSUME NEW n \in 1 .. N, NEW v \in S PROVE step(v, n) \in S
  BY <1>1, AppendOk
<1> DEFINE Looped(f) == f = [n \in 0 .. N |-> IF n = 0 THEN none ELSE step(f[n - 1], n)]
           up == CHOOSE f : Looped(f)
<1>7. PICK g : Looped(g) /\ g \in [0 .. N -> S]
  <2> DEFINE turn == [n \in 1 .. N |-> [v \in S |-> step(v, n)]]
  <2> HIDE DEF N, step, S, none
  <2>1. \A n \in 1 .. N, v \in S : turn[n][v] = step(v, n)
    OBVIOUS
  <2>2. \A n \in 1 .. N, v \in S : turn[n][v] \in S
    BY <1>3, <2>1
  <2> HIDE DEF turn
  <2>3. PICK f : Loop(f, N, none, turn)
    BY <1>1, LoopExists
  <2>4. f \in [0 .. N -> S] /\ f[0] = none /\ \A n \in 1 .. N : f[n] = turn[n][f[n - 1]]
    BY <1>1, <1>2, <2>2, <2>3, LoopTyped
  <2>5. \A n \in 1 .. N : n - 1 \in 0 .. N
    BY <1>1
  <2>6. \A n \in 1 .. N : f[n] = step(f[n - 1], n)
    BY <2>1, <2>4, <2>5
  <2>7. ASSUME NEW n \in 0 .. N PROVE f[n] = IF n = 0 THEN none ELSE step(f[n - 1], n)
    <3>1. n = 0 \/ n \in 1 .. N
      BY <1>1
    <3>2. CASE n = 0
      BY <2>4, <3>2
    <3>3. CASE n \in 1 .. N
      <4>1. n # 0
        BY <1>1, <3>3
      <4> QED BY <2>6, <3>3, <4>1
    <3> QED BY <3>1, <3>2, <3>3
  <2>8. f = [n \in 0 .. N |-> f[n]]
    BY <2>4
  <2>9. Looped(f)
    BY <2>7, <2>8
  <2> QED BY <2>4, <2>9
<1>8. dedupeCandidates(s) = up[N]
  BY DEF dedupeCandidates
<1>9. Looped(up)
  <2> HIDE DEF Looped
  <2> QED BY <1>7
<1>10. up[0] = none /\ \A n \in 1 .. N : up[n] = step(up[n - 1], n)
  <2> HIDE DEF up, step, N, none
  <2> QED BY <1>1, <1>9
<1> HIDE DEF up, Looped
<1> DEFINE P == {n \in 0 .. N : up[n] \in S /\ Deduped(up[n], s, n)}
<1>11. 0 \in P
  <2>1. Len(none) = 0 /\ 1 .. 0 = {}
    OBVIOUS
  <2> HIDE DEF none
  <2>2. Deduped(none, s, 0)
    BY <2>1 DEF Deduped
  <2> QED BY <1>1, <1>2, <1>10, <2>2
<1>12. ASSUME NEW n \in 1 .. N, n - 1 \in P PROVE n \in P
  <2>1. n \in 0 .. N /\ up[n] = step(up[n - 1], n)
    <3> HIDE DEF step
    <3> QED BY <1>1, <1>10
  <2>2. up[n - 1] \in S /\ Deduped(up[n - 1], s, n - 1)
    BY <1>12
  <2>3. Deduped(step(up[n - 1], n), s, n)
    BY <2>2, DedupedTurn
  <2>4. step(up[n - 1], n) \in S
    <3> HIDE DEF step, S
    <3> QED BY <1>3, <2>2
  <2> HIDE DEF step, S, N
  <2> QED BY <2>1, <2>3, <2>4
<1>13. N \in P
  <2>1. 0 .. N \subseteq P
    <3> HIDE DEF P, N
    <3> QED BY <1>1, <1>11, <1>12, InductionUpTo
  <2>2. N \in 0 .. N
    BY <1>1
  <2> HIDE DEF P, N
  <2> QED BY <2>1, <2>2
<1> QED BY <1>8, <1>13

\* A source set under decision, after n of its sources.
SourceSet(X, d) == [selected : Seq(X), rejected : Seq(X), diverse : {d}]

\* What is decided of the first n sources.
Decided(set, s, n) ==
    /\ Len(set.selected) + Len(set.rejected) = n
    /\ Len(set.selected) <= MaxSources
    /\ \A i \in 1 .. Len(set.selected) : \E k \in 1 .. n : set.selected[i] = s[k]
    /\ \A i \in 1 .. Len(set.rejected) : \E k \in 1 .. n : set.rejected[i] = s[k]
    /\ \A k \in 1 .. n : \/ \E i \in 1 .. Len(set.selected) : set.selected[i] = s[k]
                         \/ \E i \in 1 .. Len(set.rejected) : set.rejected[i] = s[k]
    /\ \A i \in 1 .. Len(set.rejected) :
          \/ Len(set.selected) >= MaxSources
          \/ \E j \in 1 .. Len(set.selected) : candDomain[set.selected[j]] = candDomain[set.rejected[i]]
    /\ set.diverse => \A i, j \in 1 .. Len(set.selected) :
                         candDomain[set.selected[i]] = candDomain[set.selected[j]] => i = j

\* One more source, chosen or rejected.
LEMMA DecidedTurn ==
    ASSUME NEW X, NEW d, NEW s \in Seq(X), NEW n \in 1 .. Len(s), NEW v \in SourceSet(X, d),
           Decided(v, s, n - 1)
    PROVE  decide(v, s[n]) \in SourceSet(X, d) /\ Decided(decide(v, s[n]), s, n)
<1> DEFINE A == v.selected
           R == v.rejected
           a == Append(A, s[n])
           r == Append(R, s[n])
<1>0. MaxSources \in Nat
  BY ResearchAssumption
<1>1. A \in Seq(X) /\ R \in Seq(X) /\ v.diverse = d /\ v = [selected |-> A, rejected |-> R, diverse |-> d]
  BY DEF SourceSet
<1>2. Len(A) \in Nat /\ Len(R) \in Nat /\ n \in Nat /\ n \in 1 .. n /\ s[n] \in X /\ n - 1 \in Nat
      /\ (\A k \in 1 .. n : k = n \/ k \in 1 .. (n - 1)) /\ DOMAIN A = 1 .. Len(A)
  BY <1>1
<1>3. \A k \in 1 .. (n - 1) : k \in 1 .. n
  OBVIOUS
<1>4. /\ a \in Seq(X) /\ Len(a) = Len(A) + 1 /\ \A i \in 1 .. Len(A) : a[i] = A[i]
      /\ a[Len(A) + 1] = s[n]
  BY <1>1, <1>2, AppendOk
<1>5. /\ r \in Seq(X) /\ Len(r) = Len(R) + 1 /\ \A i \in 1 .. Len(R) : r[i] = R[i]
      /\ r[Len(R) + 1] = s[n]
  BY <1>1, <1>2, AppendOk
<1>6. (\A i \in 1 .. Len(a) : i = Len(A) + 1 \/ i \in 1 .. Len(A)) /\ (Len(A) + 1 \in 1 .. Len(a))
      /\ \A i \in 1 .. Len(A) : i \in 1 .. Len(a)
  BY <1>2, <1>4
<1>7. (\A i \in 1 .. Len(r) : i = Len(R) + 1 \/ i \in 1 .. Len(R)) /\ (Len(R) + 1 \in 1 .. Len(r))
      /\ \A i \in 1 .. Len(R) : i \in 1 .. Len(r)
  BY <1>2, <1>5
<1> DEFINE no == Len(A) >= MaxSources \/ (d /\ domainTaken(A, s[n]))
<1>8. decide(v, s[n]) = IF no THEN [selected |-> A, rejected |-> r, diverse |-> d]
                        ELSE [selected |-> a, rejected |-> R, diverse |-> d]
  <2>1. decide(v, s[n]) = IF no THEN [v EXCEPT !.rejected = r] ELSE [v EXCEPT !.selected = a]
    BY <1>1 DEF decide
  <2> HIDE DEF A, R, a, r, no
  <2> QED BY <1>1, <2>1
<1>9. /\ Len(A) + Len(R) = n - 1
      /\ Len(A) <= MaxSources
      /\ \A i \in 1 .. Len(A) : \E k \in 1 .. (n - 1) : A[i] = s[k]
      /\ \A i \in 1 .. Len(R) : \E k \in 1 .. (n - 1) : R[i] = s[k]
      /\ \A k \in 1 .. (n - 1) : \/ \E i \in 1 .. Len(A) : A[i] = s[k]
                                 \/ \E i \in 1 .. Len(R) : R[i] = s[k]
      /\ \A i \in 1 .. Len(R) :
            \/ Len(A) >= MaxSources
            \/ \E j \in 1 .. Len(A) : candDomain[A[j]] = candDomain[R[i]]
      /\ d => \A i, j \in 1 .. Len(A) : candDomain[A[i]] = candDomain[A[j]] => i = j
  BY <1>1 DEF Decided
<1> HIDE DEF A, R, a, r
<1>10. CASE no
  <2> DEFINE w == [selected |-> A, rejected |-> r, diverse |-> d]
  <2>1. w.selected = A /\ w.rejected = r /\ w.diverse = d
    OBVIOUS
  <2>2. w \in SourceSet(X, d)
    BY <1>1, <1>5 DEF SourceSet
  <2>3. Len(A) + Len(r) = n
    BY <1>2, <1>5, <1>9
  <2>4. \A i \in 1 .. Len(A) : \E k \in 1 .. n : A[i] = s[k]
    BY <1>3, <1>9
  <2>5. \A i \in 1 .. Len(r) : \E k \in 1 .. n : r[i] = s[k]
    <3> SUFFICES ASSUME NEW i \in 1 .. Len(r) PROVE \E k \in 1 .. n : r[i] = s[k]
      OBVIOUS
    <3>1. CASE i = Len(R) + 1
      BY <1>2, <1>5, <3>1
    <3>2. CASE i \in 1 .. Len(R)
      <4>1. PICK k \in 1 .. (n - 1) : R[i] = s[k]
        BY <1>9, <3>2
      <4>2. r[i] = R[i] /\ k \in 1 .. n
        BY <1>5, <3>2
      <4> QED BY <4>1, <4>2
    <3> QED BY <1>7, <3>1, <3>2
  <2>6. ASSUME NEW k \in 1 .. n
        PROVE  \/ \E i \in 1 .. Len(A) : A[i] = s[k]
               \/ \E i \in 1 .. Len(r) : r[i] = s[k]
    <3>1. CASE k = n
      BY <1>5, <1>7, <3>1
    <3>2. CASE k \in 1 .. (n - 1)
      <4>1. CASE \E i \in 1 .. Len(A) : A[i] = s[k]
        BY <4>1
      <4>2. CASE \E i \in 1 .. Len(R) : R[i] = s[k]
        <5>1. PICK i \in 1 .. Len(R) : R[i] = s[k]
          BY <4>2
        <5> QED BY <1>5, <1>7, <5>1
      <4> QED BY <1>9, <3>2, <4>1, <4>2
    <3> QED BY <1>2, <3>1, <3>2
  <2>7. ASSUME NEW i \in 1 .. Len(r)
        PROVE  \/ Len(A) >= MaxSources
               \/ \E j \in 1 .. Len(A) : candDomain[A[j]] = candDomain[r[i]]
    <3>1. CASE i = Len(R) + 1
      <4>1. CASE Len(A) >= MaxSources
        BY <4>1
      <4>2. CASE d /\ domainTaken(A, s[n])
        BY <1>2, <1>5, <3>1, <4>2 DEF domainTaken
      <4> QED BY <1>10, <4>1, <4>2
    <3>2. CASE i \in 1 .. Len(R)
      BY <1>5, <1>9, <3>2
    <3> QED BY <1>7, <3>1, <3>2
  <2> HIDE DEF w, no
  <2>8. Decided(w, s, n)
    <3>1. Len(w.selected) + Len(w.rejected) = n /\ Len(w.selected) <= MaxSources
      BY <1>9, <2>1, <2>3
    <3>2. (\A i \in 1 .. Len(w.selected) : \E k \in 1 .. n : w.selected[i] = s[k])
          /\ \A i \in 1 .. Len(w.rejected) : \E k \in 1 .. n : w.rejected[i] = s[k]
      BY <2>1, <2>4, <2>5
    <3>3. ASSUME NEW k \in 1 .. n
          PROVE  \/ \E i \in 1 .. Len(w.selected) : w.selected[i] = s[k]
                 \/ \E i \in 1 .. Len(w.rejected) : w.rejected[i] = s[k]
      BY <2>1, <2>6
    <3>4. \A i \in 1 .. Len(w.rejected) :
             \/ Len(w.selected) >= MaxSources
             \/ \E j \in 1 .. Len(w.selected) : candDomain[w.selected[j]] = candDomain[w.rejected[i]]
      BY <2>1, <2>7
    <3>5. w.diverse => \A i, j \in 1 .. Len(w.selected) :
                          candDomain[w.selected[i]] = candDomain[w.selected[j]] => i = j
      BY <1>9, <2>1
    <3> QED BY <3>1, <3>2, <3>3, <3>4, <3>5 DEF Decided
  <2>9. decide(v, s[n]) = w
    BY <1>8, <1>10 DEF w
  <2> QED BY <2>2, <2>8, <2>9
<1>11. CASE ~no
  <2> DEFINE w == [selected |-> a, rejected |-> R, diverse |-> d]
  <2>1. w.selected = a /\ w.rejected = R /\ w.diverse = d
    OBVIOUS
  <2>2. w \in SourceSet(X, d)
    BY <1>1, <1>4 DEF SourceSet
  <2>3. Len(a) + Len(R) = n
    BY <1>2, <1>4, <1>9
  <2>31. Len(a) <= MaxSources
    BY <1>0, <1>2, <1>4, <1>11
  <2>4. \A i \in 1 .. Len(R) : \E k \in 1 .. n : R[i] = s[k]
    BY <1>3, <1>9
  <2>5. \A i \in 1 .. Len(a) : \E k \in 1 .. n : a[i] = s[k]
    <3> SUFFICES ASSUME NEW i \in 1 .. Len(a) PROVE \E k \in 1 .. n : a[i] = s[k]
      OBVIOUS
    <3>1. CASE i = Len(A) + 1
      BY <1>2, <1>4, <3>1
    <3>2. CASE i \in 1 .. Len(A)
      <4>1. PICK k \in 1 .. (n - 1) : A[i] = s[k]
        BY <1>9, <3>2
      <4>2. a[i] = A[i] /\ k \in 1 .. n
        BY <1>4, <3>2
      <4> QED BY <4>1, <4>2
    <3> QED BY <1>6, <3>1, <3>2
  <2>6. ASSUME NEW k \in 1 .. n
        PROVE  \/ \E i \in 1 .. Len(a) : a[i] = s[k]
               \/ \E i \in 1 .. Len(R) : R[i] = s[k]
    <3>1. CASE k = n
      BY <1>4, <1>6, <3>1
    <3>2. CASE k \in 1 .. (n - 1)
      <4>1. CASE \E i \in 1 .. Len(R) : R[i] = s[k]
        BY <4>1
      <4>2. CASE \E i \in 1 .. Len(A) : A[i] = s[k]
        <5>1. PICK i \in 1 .. Len(A) : A[i] = s[k]
          BY <4>2
        <5> QED BY <1>4, <1>6, <5>1
      <4> QED BY <1>9, <3>2, <4>1, <4>2
    <3> QED BY <1>2, <3>1, <3>2
  <2>7. ASSUME NEW i \in 1 .. Len(R)
        PROVE  \E j \in 1 .. Len(a) : candDomain[a[j]] = candDomain[R[i]]
    <3>1. ~(Len(A) >= MaxSources)
      BY <1>11
    <3>2. PICK j \in 1 .. Len(A) : candDomain[A[j]] = candDomain[R[i]]
      BY <1>9, <3>1
    <3> QED BY <1>4, <1>6, <3>2
  <2>71. ASSUME d, NEW i \in 1 .. Len(a), NEW j \in 1 .. Len(a), candDomain[a[i]] = candDomain[a[j]]
         PROVE  i = j
    <3>1. \A l \in 1 .. Len(A) : candDomain[A[l]] # candDomain[s[n]]
      BY <1>2, <1>11, <2>71 DEF domainTaken
    <3>2. \A l \in 1 .. Len(A) : candDomain[a[l]] # candDomain[a[Len(A) + 1]]
      BY <1>4, <3>1
    <3>3. \A k, l \in 1 .. Len(A) : candDomain[a[k]] = candDomain[a[l]] => k = l
      BY <1>4, <1>9, <2>71
    <3> QED BY <1>6, <2>71, <3>2, <3>3
  <2> HIDE DEF w, no
  <2>8. Decided(w, s, n)
    <3>1. Len(w.selected) + Len(w.rejected) = n /\ Len(w.selected) <= MaxSources
      BY <2>1, <2>3, <2>31
    <3>2. (\A i \in 1 .. Len(w.selected) : \E k \in 1 .. n : w.selected[i] = s[k])
          /\ \A i \in 1 .. Len(w.rejected) : \E k \in 1 .. n : w.rejected[i] = s[k]
      BY <2>1, <2>4, <2>5
    <3>3. ASSUME NEW k \in 1 .. n
          PROVE  \/ \E i \in 1 .. Len(w.selected) : w.selected[i] = s[k]
                 \/ \E i \in 1 .. Len(w.rejected) : w.rejected[i] = s[k]
      BY <2>1, <2>6
    <3>4. \A i \in 1 .. Len(w.rejected) :
             \/ Len(w.selected) >= MaxSources
             \/ \E j \in 1 .. Len(w.selected) : candDomain[w.selected[j]] = candDomain[w.rejected[i]]
      BY <2>1, <2>7
    <3>5. w.diverse => \A i, j \in 1 .. Len(w.selected) :
                          candDomain[w.selected[i]] = candDomain[w.selected[j]] => i = j
      BY <2>1, <2>71
    <3> QED BY <3>1, <3>2, <3>3, <3>4, <3>5 DEF Decided
  <2>9. decide(v, s[n]) = w
    BY <1>8, <1>11 DEF w
  <2> QED BY <2>2, <2>8, <2>9
<1> QED BY <1>10, <1>11

\* Whatever is decided, the set stays one.
LEMMA DecideTyped ==
    ASSUME NEW X, NEW d, NEW v \in SourceSet(X, d), NEW c \in X
    PROVE  decide(v, c) \in SourceSet(X, d)
<1> DEFINE A == v.selected
           R == v.rejected
           a == Append(A, c)
           r == Append(R, c)
           no == Len(A) >= MaxSources \/ (d /\ domainTaken(A, c))
<1>1. A \in Seq(X) /\ R \in Seq(X) /\ v.diverse = d /\ v = [selected |-> A, rejected |-> R, diverse |-> d]
  BY DEF SourceSet
<1>2. a \in Seq(X) /\ r \in Seq(X)
  BY <1>1, AppendOk
<1>3. decide(v, c) = IF no THEN [v EXCEPT !.rejected = r] ELSE [v EXCEPT !.selected = a]
  BY <1>1 DEF decide
<1> HIDE DEF A, R, a, r, no
<1>4. CASE no
  BY <1>1, <1>2, <1>3, <1>4 DEF SourceSet
<1>5. CASE ~no
  BY <1>1, <1>2, <1>3, <1>5 DEF SourceSet
<1> QED BY <1>4, <1>5

\* A source set decides about each of its sources.
LEMMA SourceSetOk ==
    ASSUME NEW X, NEW s \in Seq(X), NEW d \in BOOLEAN
    PROVE  createSourceSet(s, d) \in SourceSet(X, d) /\ Decided(createSourceSet(s, d), s, Len(s))
<1> DEFINE N == Len(s)
           none == [NoBrief.set EXCEPT !.diverse = d]
           S == SourceSet(X, d)
           step(v, n) == decide(v, s[n])
<1>1. N \in Nat /\ \A n \in 1 .. N : s[n] \in X
  OBVIOUS
<1>0. none.selected = <<>> /\ none.rejected = <<>> /\ none \in S
  <2> DEFINE e == <<>>
  <2>1. NoBrief.set = [selected |-> e, rejected |-> e, diverse |-> FALSE]
    BY DEF NoBrief
  <2>2. e \in Seq(X)
    OBVIOUS
  <2> HIDE DEF e
  <2>3. none = [selected |-> e, rejected |-> e, diverse |-> d]
    BY <2>1
  <2> HIDE DEF none
  <2>4. none.selected = e /\ none.rejected = e /\ none \in S
    BY <2>2, <2>3 DEF SourceSet
  <2> QED BY <2>4 DEF e
<1> HIDE DEF none, S
<1>2. none \in S
  BY <1>0
<1>3. ASSUME NEW n \in 1 .. N, NEW v \in S PROVE step(v, n) \in S
  <2>1. v \in SourceSet(X, d) /\ s[n] \in X
    BY <1>1 DEF S
  <2> QED BY <2>1, DecideTyped DEF S
<1> DEFINE Looped(f) == f = [n \in 0 .. N |-> IF n = 0 THEN none ELSE step(f[n - 1], n)]
           up == CHOOSE f : Looped(f)
<1>7. PICK g : Looped(g) /\ g \in [0 .. N -> S]
  <2> DEFINE turn == [n \in 1 .. N |-> [v \in S |-> step(v, n)]]
  <2> HIDE DEF N, step, S, none
  <2>1. \A n \in 1 .. N, v \in S : turn[n][v] = step(v, n)
    OBVIOUS
  <2>2. \A n \in 1 .. N, v \in S : turn[n][v] \in S
    BY <1>3, <2>1
  <2> HIDE DEF turn
  <2>3. PICK f : Loop(f, N, none, turn)
    BY <1>1, LoopExists
  <2>4. f \in [0 .. N -> S] /\ f[0] = none /\ \A n \in 1 .. N : f[n] = turn[n][f[n - 1]]
    BY <1>1, <1>2, <2>2, <2>3, LoopTyped
  <2>5. \A n \in 1 .. N : n - 1 \in 0 .. N
    BY <1>1
  <2>6. \A n \in 1 .. N : f[n] = step(f[n - 1], n)
    BY <2>1, <2>4, <2>5
  <2>7. ASSUME NEW n \in 0 .. N PROVE f[n] = IF n = 0 THEN none ELSE step(f[n - 1], n)
    <3>1. n = 0 \/ n \in 1 .. N
      BY <1>1
    <3>2. CASE n = 0
      BY <2>4, <3>2
    <3>3. CASE n \in 1 .. N
      <4>1. n # 0
        BY <1>1, <3>3
      <4> QED BY <2>6, <3>3, <4>1
    <3> QED BY <3>1, <3>2, <3>3
  <2>8. f = [n \in 0 .. N |-> f[n]]
    BY <2>4
  <2>9. Looped(f)
    BY <2>7, <2>8
  <2> QED BY <2>4, <2>9
<1>8. createSourceSet(s, d) = up[N]
  BY DEF createSourceSet, none
<1>9. Looped(up)
  <2> HIDE DEF Looped
  <2> QED BY <1>7
<1>10. up[0] = none /\ \A n \in 1 .. N : up[n] = step(up[n - 1], n)
  <2> HIDE DEF up, step, N, none
  <2> QED BY <1>1, <1>9
<1> HIDE DEF up, Looped
<1> DEFINE P == {n \in 0 .. N : up[n] \in S /\ Decided(up[n], s, n)}
<1>11. 0 \in P
  <2>1. Len(none.selected) = 0 /\ Len(none.rejected) = 0 /\ 1 .. 0 = {} /\ MaxSources \in Nat
    BY <1>0, ResearchAssumption
  <2>2. Decided(none, s, 0)
    <3>1. Len(none.selected) + Len(none.rejected) = 0 /\ Len(none.selected) <= MaxSources
          /\ 1 .. Len(none.selected) = {} /\ 1 .. Len(none.rejected) = {}
      BY <2>1
    <3> QED BY <2>1, <3>1 DEF Decided
  <2> QED BY <1>1, <1>2, <1>10, <2>2
<1>12. ASSUME NEW n \in 1 .. N, n - 1 \in P PROVE n \in P
  <2>1. n \in 0 .. N /\ up[n] = step(up[n - 1], n)
    <3> HIDE DEF step
    <3> QED BY <1>1, <1>10
  <2>2. up[n - 1] \in S /\ Decided(up[n - 1], s, n - 1)
    BY <1>12
  <2>3. step(up[n - 1], n) \in S /\ Decided(step(up[n - 1], n), s, n)
    BY <2>2, DecidedTurn DEF S
  <2> HIDE DEF step, N
  <2> QED BY <2>1, <2>3
<1>13. N \in P
  <2>1. 0 .. N \subseteq P
    <3> HIDE DEF P, N
    <3> QED BY <1>1, <1>11, <1>12, InductionUpTo
  <2>2. N \in 0 .. N
    BY <1>1
  <2> HIDE DEF P, N
  <2> QED BY <2>1, <2>2
<1> QED BY <1>8, <1>13 DEF S

\* A sequence without repetitions has as many elements as it holds.
LEMMA DistinctLength ==
    ASSUME NEW X, NEW s \in Seq(X), \A i, j \in 1 .. Len(s) : s[i] = s[j] => i = j
    PROVE  Cardinality({s[i] : i \in 1 .. Len(s)}) = Len(s)
<1> DEFINE D == 1 .. Len(s)
           T == {s[i] : i \in D}
           f == [i \in D |-> s[i]]
<1>1. Len(s) \in Nat
  OBVIOUS
<1>2. f \in [D -> T] /\ (\A i \in D : f[i] = s[i]) /\ \A t \in T : \E i \in D : f[i] = t
  OBVIOUS
<1> HIDE DEF f, T, D
<1>3. \A i, j \in D : f[i] = f[j] => i = j
  BY <1>2 DEF D
<1>4. f \in Bijection(D, T)
  BY <1>2, <1>3 DEF Bijection, Injection, Surjection, IsInjective
<1>5. ExistsBijection(D, T)
  BY <1>4 DEF ExistsBijection
<1> QED BY <1>1, <1>5, FS_CountingElements DEF T, D

\* What the registry of a command offers.
Offered(r) ==
    {manual}
    \cup {[id |-> r.configs[k].id, mode |-> "live", on |-> r.configs[k].on] : k \in DOMAIN r.configs}
    \cup (IF r.mode = "fixture" THEN {fixture} ELSE {})

\* The configurations and preferences of a command are lists.
GoodCommand(r) == r.configs \in Seq(ToSet(r.configs)) /\ r.prefer \in Seq(ToSet(r.prefer))

\* A registry is a list of what it offers.
LEMMA RegistryOk ==
    ASSUME NEW r, GoodCommand(r)
    PROVE  registry(r) \in Seq(Offered(r))
<1> DEFINE R == Offered(r)
           a == <<manual>>
           b == [k \in DOMAIN r.configs |->
                    [id |-> r.configs[k].id, mode |-> "live", on |-> r.configs[k].on]]
           c == IF r.mode = "fixture" THEN <<fixture>> ELSE <<>>
<1>1. a \in Seq(R)
  <2>1. manual \in R
    BY DEF Offered
  <2> HIDE DEF R
  <2> QED BY <2>1
<1>2. b \in Seq(R)
  <2>1. DOMAIN r.configs = 1 .. Len(r.configs) /\ Len(r.configs) \in Nat
    BY DEF GoodCommand
  <2>2. \A k \in DOMAIN r.configs : [id |-> r.configs[k].id, mode |-> "live", on |-> r.configs[k].on] \in R
    BY DEF Offered
  <2>3. b \in [1 .. Len(r.configs) -> R]
    <3> HIDE DEF R
    <3> QED BY <2>1, <2>2
  <2> HIDE DEF R, b
  <2> QED BY <2>1, <2>3
<1>3. c \in Seq(R)
  <2>1. CASE r.mode = "fixture"
    <3>1. fixture \in R /\ c = <<fixture>>
      BY <2>1 DEF Offered
    <3> HIDE DEF R, c
    <3> QED BY <3>1
  <2>2. CASE r.mode # "fixture"
    <3>1. c = <<>>
      BY <2>2
    <3> HIDE DEF R, c
    <3> QED BY <3>1
  <2> QED BY <2>1, <2>2
<1>4. registry(r) = (a \o b) \o c
  BY DEF registry
<1> HIDE DEF R, a, b, c
<1>5. (a \o b) \in Seq(R)
  BY <1>1, <1>2, ConcatProperties
<1>6. (a \o b) \o c \in Seq(R)
  BY <1>3, <1>5, ConcatProperties
<1> QED BY <1>4, <1>6 DEF R

\* The providers chosen are offered, so a fixture provider only in fixture mode.
LEMMA ChosenProviders ==
    ASSUME NEW r, GoodCommand(r)
    PROVE  /\ chooseProviders(r) \in Seq(Offered(r))
           /\ \A p \in Offered(r) : p.mode \in {"live", "fixture"} /\ (p.mode = "fixture" => r.mode = "fixture")
<1> DEFINE R == Offered(r)
<1>1. registry(r) \in Seq(R)
  BY RegistryOk
<1>2. \A p \in R : p.mode \in {"live", "fixture"} /\ (p.mode = "fixture" => r.mode = "fixture")
  BY DEF Offered, manual, fixture
<1>3. manual \in R
  BY DEF Offered
<1> HIDE DEF R
<1>4. <<manual>> \in Seq(R)
  BY <1>3
<1>5. \A T : those(registry(r), T) \in Seq(R)
  BY <1>1, ThoseOk
<1> DEFINE all == ToSet(registry(r)) \ {manual}
           T(k) == {p \in all : p.id = r.prefer[k]}
           lists == [k \in DOMAIN r.prefer |-> those(registry(r), T(k))]
<1>6. FlattenSeq(lists) \in Seq(R)
  <2>1. DOMAIN r.prefer = 1 .. Len(r.prefer) /\ Len(r.prefer) \in Nat
    BY DEF GoodCommand
  <2> HIDE DEF T
  <2>2. lists \in [1 .. Len(r.prefer) -> Seq(R)]
    BY <1>5, <2>1
  <2>3. lists \in Seq(Seq(R))
    <3> HIDE DEF lists
    <3> QED BY <2>1, <2>2
  <2> HIDE DEF lists
  <2> QED BY <2>3, FlattenOk
<1> DEFINE mode == IF r.mode = "fixture" THEN "fixture" ELSE "live"
           some == those(registry(r), {p \in all : p.mode = mode})
<1>7. some \in Seq(R)
  <2> HIDE DEF all, mode
  <2> QED BY <1>5
<1>8. chooseProviders(r) = IF r.urls THEN <<manual>> ELSE IF r.prefer = <<>> THEN some ELSE FlattenSeq(lists)
  BY DEF chooseProviders
<1> HIDE DEF some, lists
<1>9. chooseProviders(r) \in Seq(R)
  BY <1>4, <1>6, <1>7, <1>8
<1> QED BY <1>2, <1>9 DEF R

-----------------------------------------------------------------------------
(* ResearchFlow: the invariant                                             *)

\* A candidate of a fixture was found in fixture mode, by a fixture provider.
FixtureKnown ==
    \A k \in 1 .. Len(resCands) :
        resCands[k].mode = "fixture" =>
            resIn.mode = "fixture" /\ \E j \in DOMAIN Providers : Providers[j].mode = "fixture"

\* The selection starts what was kept, and what was kept are different pages.
ResultSet ==
    /\ resSet.kept \in Seq(ResCand) /\ resSet.selected \in Seq(ResCand)
    /\ Len(resSet.selected) <= Len(resSet.kept)
    /\ \A k \in 1 .. Len(resSet.selected) : resSet.selected[k] = resSet.kept[k]
    /\ \A i, j \in 1 .. Len(resSet.kept) : candUrl[resSet.kept[i].c] = candUrl[resSet.kept[j].c] => i = j

\* Every source so far is the selected candidate at its place, or was passed over.
SourcesKnown ==
    /\ resSources \in Seq(Candidate \cup {"none"}) /\ Len(resSources) <= Len(resSet.selected)
    /\ \A k \in 1 .. Len(resSources) : resSources[k] \in {resSet.selected[k].c, "none"}

\* The inductive invariant of the command.
ResInv ==
    /\ resPc \in {"idle", "search", "fetch", "done"}
    /\ resAt.p \in Nat \ {0}
    /\ resAt = [p |-> resAt.p, q |-> resAt.q, calls |-> resAt.calls, late |-> resAt.late]
    /\ resCands \in Seq(ResCand)
    /\ resPc = "search" => GoodCommand(resIn) /\ FixtureKnown
    /\ resPc \in {"idle", "search"} => resSet = NoSet /\ resSources = <<>>
    /\ resPc = "idle" => resCands = <<>>
    /\ resPc # "done" => resBrief = NoBrief /\ resOut = "none"
    /\ resPc = "fetch" => ResultSet /\ SourcesKnown
    /\ ResearchHonest

\* Without a result set nothing is said about it.
LEMMA NoSetSound == resSet = NoSet => LiveMeansLive /\ SelectionSound /\ FailureIsNotEmpty
<1> SUFFICES ASSUME resSet = NoSet PROVE LiveMeansLive /\ SelectionSound /\ FailureIsNotEmpty
  OBVIOUS
<1>1. DOMAIN resSet.kept = {}
  BY DEF NoSet
<1>2. LiveMeansLive
  BY <1>1 DEF LiveMeansLive
<1> QED BY <1>2 DEF SelectionSound, FailureIsNotEmpty

\* Without a brief nothing is said about it.
LEMMA NoBriefSound == resOut # "brief" /\ resBrief = NoBrief => BriefIndexed /\ SourceSetDecides /\ ValidBriefCites
<1> SUFFICES ASSUME resOut # "brief", resBrief = NoBrief PROVE BriefIndexed /\ SourceSetDecides /\ ValidBriefCites
  OBVIOUS
<1>1. ~resBrief.valid
  BY DEF NoBrief
<1> QED BY <1>1 DEF BriefIndexed, SourceSetDecides, ValidBriefCites

\* What is said of a result set stays true while the set and the search stay as they are.
LEMMA SetKept ==
    UNCHANGED <<resIn, resCalls, resCands, resSet>> =>
        /\ LiveMeansLive => LiveMeansLive'
        /\ SelectionSound => SelectionSound'
        /\ FailureIsNotEmpty => FailureIsNotEmpty'
<1> SUFFICES ASSUME UNCHANGED <<resIn, resCalls, resCands, resSet>>
             PROVE  /\ LiveMeansLive => LiveMeansLive'
                    /\ SelectionSound => SelectionSound'
                    /\ FailureIsNotEmpty => FailureIsNotEmpty'
  OBVIOUS
<1>1. LiveMeansLive => LiveMeansLive'
  BY DEF LiveMeansLive
<1>2. SelectionSound => SelectionSound'
  BY DEF SelectionSound
<1>3. FailureIsNotEmpty => FailureIsNotEmpty'
  BY DEF FailureIsNotEmpty, allLive, called, Providers
<1> QED BY <1>1, <1>2, <1>3

\* The first state satisfies the invariant.
LEMMA ResInitOk == ResInit => ResInv
<1> SUFFICES ASSUME ResInit PROVE ResInv
  OBVIOUS
<1>1. /\ resPc = "idle" /\ resAt = [p |-> 1, q |-> 1, calls |-> 0, late |-> FALSE]
      /\ resCands = <<>> /\ resSet = NoSet /\ resSources = <<>> /\ resBrief = NoBrief /\ resOut = "none"
  BY DEF ResInit
<1>2. resAt.p = 1 /\ resAt = [p |-> resAt.p, q |-> resAt.q, calls |-> resAt.calls, late |-> resAt.late]
  BY <1>1
<1>3. resCands \in Seq(ResCand)
  BY <1>1
<1>4. ResearchHonest
  BY <1>1, NoSetSound, NoBriefSound DEF ResearchHonest
<1> QED BY <1>1, <1>2, <1>3, <1>4 DEF ResInv

\* A command begins, or ends before it searches.
LEMMA BriefCommandOk == ResInv /\ BriefCommand => ResInv'
<1> SUFFICES ASSUME ResInv, BriefCommand PROVE ResInv'
  OBVIOUS
<1>1. PICK mode \in {"live", "fixture", "dry_run"}, urls \in BOOLEAN, configs \in Configs,
           prefer \in Preferences, allow \in DomainLists, deny \in DomainLists :
          LET r == [mode |-> mode, urls |-> urls, configs |-> configs, prefer |-> prefer,
                    allow |-> allow, deny |-> deny]
          IN  /\ resIn' = r
              /\ IF mode = "dry_run" THEN Finish("preview")
                 ELSE IF chooseProviders(r) = <<>> THEN Finish("yielded")
                 ELSE resPc' = "search" /\ UNCHANGED resOut
  BY Zenon DEF BriefCommand
<1> DEFINE r == [mode |-> mode, urls |-> urls, configs |-> configs, prefer |-> prefer,
                 allow |-> allow, deny |-> deny]
<1>2. GoodCommand(r)
  <2>1. r.configs = configs /\ r.prefer = prefer
    OBVIOUS
  <2>2. configs \in Seq(ToSet(configs)) /\ prefer \in Seq(ToSet(prefer))
    BY ResearchAssumption
  <2> HIDE DEF r
  <2> QED BY <2>1, <2>2 DEF GoodCommand
<1>3. resIn' = r /\ \/ resPc' = "done" /\ resOut' \in {"preview", "yielded"}
                    \/ resPc' = "search" /\ resOut' = resOut
  <2> HIDE DEF r
  <2>1. /\ resIn' = r
        /\ IF mode = "dry_run" THEN Finish("preview")
           ELSE IF chooseProviders(r) = <<>> THEN Finish("yielded")
           ELSE resPc' = "search" /\ UNCHANGED resOut
    BY <1>1 DEF r
  <2> QED BY <2>1 DEF Finish
<1> HIDE DEF r
<1>4. resPc = "idle" /\ UNCHANGED <<resAt, resCalls, resCands, resSet, resSources, resBrief, resFiles, resIndex>>
  BY DEF BriefCommand
<1>5. resCands = <<>> /\ resSet = NoSet /\ resSources = <<>> /\ resBrief = NoBrief /\ resOut = "none"
  BY <1>4 DEF ResInv
<1>6. GoodCommand(resIn)'
  BY <1>2, <1>3 DEF GoodCommand
<1>7. FixtureKnown'
  <2>1. Len(resCands') = 0 /\ 1 .. 0 = {}
    BY <1>4, <1>5
  <2> QED BY <2>1 DEF FixtureKnown
<1>8. ResearchHonest'
  <2>1. (resSet = NoSet)' /\ (resOut # "brief" /\ resBrief = NoBrief)'
    BY <1>3, <1>4, <1>5 DEF NoSet, NoBrief
  <2>2. (LiveMeansLive /\ SelectionSound /\ FailureIsNotEmpty)'
    BY <2>1, NoSetSound, PTL
  <2>3. (BriefIndexed /\ SourceSetDecides /\ ValidBriefCites)'
    BY <2>1, NoBriefSound, PTL
  <2> QED BY <2>2, <2>3 DEF ResearchHonest
<1>9. resAt'.p \in Nat \ {0} /\ resAt' = [p |-> resAt'.p, q |-> resAt'.q, calls |-> resAt'.calls, late |-> resAt'.late]
  BY <1>4 DEF ResInv
<1> QED BY <1>3, <1>4, <1>5, <1>6, <1>7, <1>8, <1>9 DEF ResInv

\* While the command searches, there is no set and no brief to speak of.
LEMMA SearchingSound == (resSet = NoSet /\ resOut # "brief" /\ resBrief = NoBrief)' => ResearchHonest'
<1> SUFFICES ASSUME (resSet = NoSet /\ resOut # "brief" /\ resBrief = NoBrief)' PROVE ResearchHonest'
  OBVIOUS
<1>2. (LiveMeansLive /\ SelectionSound /\ FailureIsNotEmpty)'
  BY NoSetSound, PTL
<1>3. (BriefIndexed /\ SourceSetDecides /\ ValidBriefCites)'
  BY NoBriefSound, PTL
<1> QED BY <1>2, <1>3 DEF ResearchHonest

\* Short sequences are sequences.
LEMMA ShortSeq == ASSUME NEW X, NEW n \in Nat, NEW s \in SeqOf(X, n) PROVE s \in Seq(X)
<1>1. PICK m \in 0 .. n : s \in [1 .. m -> X]
  BY DEF SeqOf
<1> QED BY <1>1

\* A turn of the coordinator: what was found is of the mode of its provider.
LEMMA SearchCallOk == ResInv /\ SearchCall => ResInv'
<1> SUFFICES ASSUME ResInv, SearchCall PROVE ResInv'
  OBVIOUS
<1> DEFINE p == Providers[resAt.p]
           next == [resAt EXCEPT !.q = @ + 1]
           skip == [resAt EXCEPT !.p = @ + 1, !.q = 1]
           after == IF resAt.q < MaxQueries /\ p.on THEN next ELSE skip
           Placed(at) == at.p \in Nat \ {0} /\ at = [p |-> at.p, q |-> at.q, calls |-> at.calls, late |-> at.late]
<1>1. /\ resPc = "search" /\ resAt.p <= Len(Providers)
      /\ \/ resAt' = after /\ resCands' = resCands
         \/ resAt' = skip /\ resCands' = resCands
         \/ /\ resAt' = [after EXCEPT !.calls = @ + 1]
            /\ \/ resCands' = resCands
               \/ \E found \in SeqOf(Candidate, MaxResults) :
                     resCands' = resCands \o [k \in DOMAIN found |-> [c |-> found[k], mode |-> p.mode]]
      /\ UNCHANGED <<resPc, resIn, resSet, resSources, resBrief, resOut>>
  BY DEF SearchCall
<1>2. /\ GoodCommand(resIn) /\ FixtureKnown /\ resSet = NoSet /\ resSources = <<>> /\ resBrief = NoBrief
      /\ resOut = "none" /\ resCands \in Seq(ResCand)
  BY <1>1 DEF ResInv
<1>3. Placed(resAt)
  BY DEF ResInv
<1>4. Placed(next) /\ Placed(skip)
  <2>1. next = [p |-> resAt.p, q |-> resAt.q + 1, calls |-> resAt.calls, late |-> resAt.late]
    BY <1>3
  <2>2. skip = [p |-> resAt.p + 1, q |-> 1, calls |-> resAt.calls, late |-> resAt.late]
    <3> DEFINE mid == [resAt EXCEPT !.p = @ + 1]
    <3>1. mid = [p |-> resAt.p + 1, q |-> resAt.q, calls |-> resAt.calls, late |-> resAt.late]
      BY <1>3
    <3>2. skip = [mid EXCEPT !.q = 1]
      BY <1>3
    <3> HIDE DEF mid, skip
    <3> QED BY <3>1, <3>2
  <2>3. resAt.p + 1 \in Nat \ {0}
    BY <1>3
  <2> HIDE DEF next, skip
  <2> QED BY <1>3, <2>1, <2>2, <2>3
<1>5. Placed(after)
  <2> HIDE DEF Placed, next, skip
  <2> QED BY <1>4
<1> HIDE DEF after, next, skip
<1>6. Placed([after EXCEPT !.calls = @ + 1])
  BY <1>5
<1>7. Placed(resAt')
  <2> HIDE DEF Placed
  <2> QED BY <1>1, <1>4, <1>5, <1>6
<1>8. /\ p \in Offered(resIn) /\ p.mode \in {"live", "fixture"} /\ (p.mode = "fixture" => resIn.mode = "fixture")
      /\ resAt.p \in DOMAIN Providers
  <2>1. Providers \in Seq(Offered(resIn))
    BY <1>2, ChosenProviders DEF Providers
  <2>2. resAt.p \in DOMAIN Providers
    <3>1. DOMAIN Providers = 1 .. Len(Providers) /\ Len(Providers) \in Nat
      BY <2>1
    <3> QED BY <1>1, <1>3, <3>1
  <2>3. p \in Offered(resIn)
    BY <2>1, <2>2
  <2> HIDE DEF p
  <2> QED BY <1>2, <2>2, <2>3, ChosenProviders
<1>9. resCands' \in Seq(ResCand) /\ FixtureKnown'
  <2>1. CASE resCands' = resCands
    <3>1. Providers' = Providers
      BY <1>1 DEF Providers
    <3> QED BY <1>1, <1>2, <2>1, <3>1 DEF FixtureKnown
  <2>2. CASE \E found \in SeqOf(Candidate, MaxResults) :
                resCands' = resCands \o [k \in DOMAIN found |-> [c |-> found[k], mode |-> p.mode]]
    <3>1. PICK found \in SeqOf(Candidate, MaxResults) :
             resCands' = resCands \o [k \in DOMAIN found |-> [c |-> found[k], mode |-> p.mode]]
      BY <2>2
    <3>2. found \in Seq(Candidate)
      BY ShortSeq, ResearchAssumption
    <3> DEFINE new == [k \in DOMAIN found |-> [c |-> found[k], mode |-> p.mode]]
    <3>3. new \in Seq(ResCand) /\ \A k \in 1 .. Len(new) : new[k].mode = p.mode
      <4>1. DOMAIN found = 1 .. Len(found) /\ Len(found) \in Nat
        BY <3>2
      <4>2. \A k \in DOMAIN found : [c |-> found[k], mode |-> p.mode] \in ResCand
        <5> HIDE DEF p
        <5> QED BY <1>8, <3>2 DEF ResCand
      <4> HIDE DEF p
      <4>3. new \in [1 .. Len(found) -> ResCand]
        BY <4>1, <4>2
      <4>4. Len(new) = Len(found) /\ new \in Seq(ResCand)
        <5> HIDE DEF new
        <5> QED BY <4>1, <4>3
      <4>5. \A k \in DOMAIN found : new[k].mode = p.mode
        OBVIOUS
      <4> HIDE DEF new
      <4> QED BY <4>1, <4>4, <4>5
    <3>4. resCands' = resCands \o new
      BY <3>1
    <3> HIDE DEF new, p
    <3>5. /\ resCands' \in Seq(ResCand) /\ Len(resCands') = Len(resCands) + Len(new)
          /\ \A k \in 1 .. Len(resCands') : resCands'[k] = IF k <= Len(resCands) THEN resCands[k] ELSE new[k - Len(resCands)]
      BY <1>2, <3>3, <3>4, ConcatProperties
    <3>6. Providers' = Providers /\ Providers[resAt.p] = p
      BY <1>1 DEF Providers, p
    <3>7. ASSUME NEW k \in 1 .. Len(resCands'), resCands'[k].mode = "fixture"
          PROVE  resIn'.mode = "fixture" /\ \E j \in DOMAIN Providers' : Providers'[j].mode = "fixture"
      <4>1. Len(resCands) \in Nat /\ Len(new) \in Nat
        BY <1>2, <3>3
      <4>2. CASE k <= Len(resCands)
        <5>1. k \in 1 .. Len(resCands) /\ resCands[k].mode = "fixture"
          BY <3>5, <3>7, <4>1, <4>2
        <5>2. resIn.mode = "fixture" /\ \E j \in DOMAIN Providers : Providers[j].mode = "fixture"
          BY <1>2, <5>1 DEF FixtureKnown
        <5> QED BY <1>1, <3>6, <5>2
      <4>3. CASE ~(k <= Len(resCands))
        <5>1. k - Len(resCands) \in 1 .. Len(new) /\ resCands'[k] = new[k - Len(resCands)]
          BY <3>5, <4>1, <4>3
        <5>2. p.mode = "fixture"
          BY <3>3, <3>7, <5>1
        <5> QED BY <1>1, <1>8, <3>6, <5>2
      <4> QED BY <4>2, <4>3
    <3> QED BY <3>5, <3>7 DEF FixtureKnown
  <2> QED BY <1>1, <2>1, <2>2
<1>10. ResearchHonest'
  <2>1. (resSet = NoSet /\ resOut # "brief" /\ resBrief = NoBrief)'
    BY <1>1, <1>2 DEF NoSet, NoBrief
  <2> QED BY <2>1, SearchingSound
<1>11. GoodCommand(resIn)'
  BY <1>1, <1>2 DEF GoodCommand
<1>12. /\ resPc' = "search" /\ resSet' = NoSet /\ resSources' = <<>> /\ resBrief' = NoBrief /\ resOut' = "none"
  BY <1>1, <1>2
<1> HIDE DEF p
<1> QED BY <1>7, <1>9, <1>10, <1>11, <1>12 DEF ResInv

\* The time for searching passes.
LEMMA SearchLateOk == ResInv /\ SearchLate => ResInv'
<1> SUFFICES ASSUME ResInv, SearchLate PROVE ResInv'
  OBVIOUS
<1>1. /\ resPc = "search" /\ resAt' = [resAt EXCEPT !.late = TRUE]
      /\ UNCHANGED <<resPc, resIn, resCalls, resCands, resSet, resSources, resBrief, resOut>>
  BY DEF SearchLate
<1>2. /\ GoodCommand(resIn) /\ FixtureKnown /\ resSet = NoSet /\ resSources = <<>> /\ resBrief = NoBrief
      /\ resOut = "none" /\ resCands \in Seq(ResCand)
  BY <1>1 DEF ResInv
<1>3. resAt'.p \in Nat \ {0} /\ resAt' = [p |-> resAt'.p, q |-> resAt'.q, calls |-> resAt'.calls, late |-> resAt'.late]
  <2>1. resAt.p \in Nat \ {0} /\ resAt = [p |-> resAt.p, q |-> resAt.q, calls |-> resAt.calls, late |-> resAt.late]
    BY DEF ResInv
  <2> QED BY <1>1, <2>1
<1>4. GoodCommand(resIn)'
  BY <1>1, <1>2 DEF GoodCommand
<1>5. FixtureKnown'
  BY <1>1, <1>2 DEF FixtureKnown, Providers
<1>6. ResearchHonest'
  <2>1. (resSet = NoSet /\ resOut # "brief" /\ resBrief = NoBrief)'
    BY <1>1, <1>2 DEF NoSet, NoBrief
  <2> QED BY <2>1, SearchingSound
<1>7. /\ resPc' = "search" /\ resSet' = NoSet /\ resSources' = <<>> /\ resBrief' = NoBrief /\ resOut' = "none"
      /\ resCands' \in Seq(ResCand)
  BY <1>1, <1>2
<1> QED BY <1>3, <1>4, <1>5, <1>6, <1>7 DEF ResInv

\* The end of a search: what was collected, filtered and without duplicates.
LEMMA SearchDoneOk == ResInv /\ SearchDone => ResInv'
<1> SUFFICES ASSUME ResInv, SearchDone PROVE ResInv'
  OBVIOUS
<1>1. resPc = "search" /\ UNCHANGED <<resIn, resAt, resCalls, resCands, resSources, resBrief, resIndex>>
  BY DEF SearchDone
<1>2. /\ GoodCommand(resIn) /\ FixtureKnown /\ resSet = NoSet /\ resSources = <<>> /\ resBrief = NoBrief
      /\ resOut = "none" /\ resCands \in Seq(ResCand)
  BY <1>1 DEF ResInv
<1>3. resAt'.p \in Nat \ {0} /\ resAt' = [p |-> resAt'.p, q |-> resAt'.q, calls |-> resAt'.calls, late |-> resAt'.late]
  BY <1>1 DEF ResInv
<1>4. resCands' \in Seq(ResCand) /\ resBrief' = NoBrief
  BY <1>1, <1>2
<1>5. CASE searchFails
  <2>1. resPc' = "done" /\ resOut' \in {"threw", "yielded"} /\ resSet' = resSet
    BY <1>5 DEF SearchDone, Finish
  <2>2. ResearchHonest'
    <3>1. (resSet = NoSet /\ resOut # "brief" /\ resBrief = NoBrief)'
      BY <1>1, <1>2, <2>1 DEF NoSet, NoBrief
    <3> QED BY <3>1, SearchingSound
  <2> QED BY <1>3, <1>4, <2>1, <2>2 DEF ResInv
<1>6. CASE ~searchFails
  <2> DEFINE T == {x \in ToSet(resCands) : inLists(x.c)}
             F == those(resCands, T)
             kept == dedupeCandidates(F)
             few == IF Len(kept) < MaxSources THEN Len(kept) ELSE MaxSources
             sel == SubSeq(kept, 1, few)
  <2>1. /\ resSet' = [mode |-> resultMode, kept |-> dedupeCandidates(filterCandidates(resCands)),
                      selected |-> SubSeq(dedupeCandidates(filterCandidates(resCands)), 1,
                                          IF Len(dedupeCandidates(filterCandidates(resCands))) < MaxSources
                                          THEN Len(dedupeCandidates(filterCandidates(resCands))) ELSE MaxSources)]
        /\ resPc' = "fetch" /\ resOut' = resOut
    BY <1>6 DEF SearchDone
  <2>2. dedupeCandidates(filterCandidates(resCands)) = kept
    BY DEF filterCandidates
  <2>3. resSet' = [mode |-> resultMode, kept |-> kept, selected |-> sel]
    <3> HIDE DEF kept
    <3> QED BY <2>1, <2>2
  <2>4. F \in Seq(ResCand) /\ Filtered(F, resCands, T, Len(resCands))
    <3> HIDE DEF T
    <3> QED BY <1>2, ThoseOk
  <2>5. \A k \in 1 .. Len(resCands) : resCands[k] \in T <=> inLists(resCands[k].c)
    <3>1. \A k \in 1 .. Len(resCands) : resCands[k] \in ToSet(resCands)
      BY <1>2 DEF ToSet
    <3> QED BY <3>1
  <2> HIDE DEF T, F
  <2>6. kept \in Seq(ResCand) /\ Deduped(kept, F, Len(F))
    BY <2>4, DedupeOk
  <2> HIDE DEF kept
  <2>7. ASSUME NEW i \in 1 .. Len(kept)
        PROVE  \E l \in 1 .. Len(resCands) : kept[i] = resCands[l] /\ inLists(resCands[l].c)
    <3>1. PICK k \in 1 .. Len(F) : kept[i] = F[k]
      BY <2>6 DEF Deduped
    <3>2. PICK l \in 1 .. Len(resCands) : resCands[l] \in T /\ F[k] = resCands[l]
      BY <2>4 DEF Filtered
    <3> QED BY <2>5, <3>1, <3>2
  <2>8. ASSUME NEW l \in 1 .. Len(resCands), inLists(resCands[l].c)
        PROVE  \E j \in 1 .. Len(kept) : candUrl[kept[j].c] = candUrl[resCands[l].c]
    <3>1. PICK k \in 1 .. Len(F) : F[k] = resCands[l]
      BY <2>4, <2>5, <2>8 DEF Filtered
    <3>2. PICK j \in 1 .. Len(kept) : candUrl[kept[j].c] = candUrl[F[k].c]
      BY <2>6 DEF Deduped
    <3> QED BY <3>1, <3>2
  <2>9. \A i, j \in 1 .. Len(kept) : candUrl[kept[i].c] = candUrl[kept[j].c] => i = j
    BY <2>6 DEF Deduped
  <2>10. /\ sel \in Seq(ResCand) /\ Len(sel) <= Len(kept) /\ Len(sel) <= MaxSources
         /\ \A k \in 1 .. Len(sel) : sel[k] = kept[k]
    <3>1. MaxSources \in Nat /\ Len(kept) \in Nat
      BY <2>6, ResearchAssumption
    <3>2. few \in 0 .. Len(kept) /\ few <= MaxSources
      BY <3>1
    <3> HIDE DEF few
    <3>3. few \in Nat
      BY <3>1, <3>2
    <3>4. Len(sel) = few /\ sel \in Seq(ResCand) /\ \A k \in 1 .. few : sel[k] = kept[k]
      BY <2>6, <3>1, <3>2, <3>3, SubSeqProperties
    <3> QED BY <3>1, <3>2, <3>4
  <2> HIDE DEF sel
  <2>11. resSet'.kept = kept /\ resSet'.selected = sel /\ resSet'.mode = resultMode
    BY <2>3
  <2>12. ResultSet'
    BY <2>6, <2>9, <2>10, <2>11 DEF ResultSet
  <2>13. SourcesKnown'
    <3>1. resSources' = <<>> /\ Len(resSet'.selected) \in Nat
      BY <1>1, <1>2, <2>10, <2>11
    <3>2. resSources' \in Seq(Candidate \cup {"none"}) /\ Len(resSources') = 0 /\ 1 .. 0 = {}
      BY <3>1
    <3> QED BY <3>1, <3>2 DEF SourcesKnown
  <2>14. DOMAIN kept = 1 .. Len(kept) /\ DOMAIN resCands = 1 .. Len(resCands)
    BY <1>2, <2>6
  <2>15. LiveMeansLive'
    <3> SUFFICES ASSUME NEW k \in DOMAIN kept, kept[k].mode = "fixture"
                 PROVE  resultMode = "fixture" /\ resIn.mode = "fixture"
      BY <1>1, <2>11 DEF LiveMeansLive
    <3>1. PICK l \in 1 .. Len(resCands) : kept[k] = resCands[l]
      BY <2>7, <2>14
    <3>2. resIn.mode = "fixture" /\ \E j \in DOMAIN Providers : Providers[j].mode = "fixture"
      BY <1>2, <3>1 DEF FixtureKnown
    <3> QED BY <3>2 DEF resultMode
  <2>16. SelectionSound'
    <3>1. Len(resSet'.selected) <= MaxSources
      BY <2>10, <2>11
    <3>2. IsInjective([k \in DOMAIN resSet'.kept |-> candUrl[resSet'.kept[k].c]])
      BY <2>9, <2>11, <2>14 DEF IsInjective
    <3>3. ASSUME NEW k \in DOMAIN resSet'.kept
          PROVE  /\ candDomain[resSet'.kept[k].c] \notin resIn'.deny
                 /\ resIn'.allow # {} => candDomain[resSet'.kept[k].c] \in resIn'.allow
      <4>1. k \in 1 .. Len(kept)
        BY <2>11, <2>14, <3>3
      <4>2. inLists(kept[k].c)
        BY <2>7, <4>1
      <4> QED BY <1>1, <2>11, <4>2 DEF inLists
    <3>4. ASSUME NEW k \in DOMAIN resCands'
          PROVE  \/ candDomain[resCands'[k].c] \in resIn'.deny
                 \/ resIn'.allow # {} /\ candDomain[resCands'[k].c] \notin resIn'.allow
                 \/ \E j \in DOMAIN resSet'.kept : candUrl[resSet'.kept[j].c] = candUrl[resCands'[k].c]
      <4>1. k \in 1 .. Len(resCands) /\ resCands' = resCands
        BY <1>1, <2>14, <3>4
      <4>2. CASE inLists(resCands[k].c)
        BY <2>8, <2>11, <2>14, <4>1, <4>2
      <4>3. CASE ~inLists(resCands[k].c)
        BY <1>1, <4>1, <4>3 DEF inLists
      <4> QED BY <4>2, <4>3
    <3> QED BY <3>1, <3>2, <3>3, <3>4 DEF SelectionSound
  <2>17. FailureIsNotEmpty'
    <3>1. ~(resCands = <<>> /\ allLive /\ called("failed"))
      BY <1>6 DEF searchFails
    <3>2. (allLive <=> allLive') /\ (called("failed") <=> called("failed")')
      BY <1>1 DEF allLive, called, Providers
    <3> QED BY <1>1, <3>1, <3>2 DEF FailureIsNotEmpty
  <2>18. ResearchHonest'
    <3>1. (resOut # "brief" /\ resBrief = NoBrief)'
      BY <1>2, <1>4, <2>1 DEF NoBrief
    <3>2. (BriefIndexed /\ SourceSetDecides /\ ValidBriefCites)'
      BY <3>1, NoBriefSound, PTL
    <3> QED BY <2>15, <2>16, <2>17, <3>2 DEF ResearchHonest
  <2>19. resPc' = "fetch" /\ resOut' = "none"
    BY <1>2, <2>1
  <2> QED BY <1>3, <1>4, <2>12, <2>13, <2>18, <2>19 DEF ResInv
<1> QED BY <1>5, <1>6

\* One selected candidate is read, or the command ends.
LEMMA FetchSelectedOk == ResInv /\ FetchSelected => ResInv'
<1> SUFFICES ASSUME ResInv, FetchSelected PROVE ResInv'
  OBVIOUS
<1> DEFINE next == resSet.selected[Len(resSources) + 1].c
<1>1. /\ resPc = "fetch" /\ Len(resSources) < Len(resSet.selected)
      /\ UNCHANGED <<resIn, resAt, resCalls, resCands, resSet, resBrief>>
  BY DEF FetchSelected
<1>2. \/ resPc' = "done" /\ resOut' \in {"yielded", "failed"}
      \/ \E c \in {next, "none"} :
            resSources' = Append(resSources, c) /\ resPc' = resPc /\ resOut' = resOut
  <2>1. PICK text \in BOOLEAN :
          LET c == IF text THEN resSet.selected[Len(resSources) + 1].c ELSE "none"
          IN  IF resIn.mode = "fixture" /\ ~resIn.urls
              THEN /\ resSources' = Append(resSources, c)
                   /\ resFiles' = IF text THEN resFiles \cup {"text"} ELSE resFiles
                   /\ UNCHANGED <<resPc, resIndex, resOut>>
              ELSE \/ resIn.urls /\ Finish("yielded") /\ UNCHANGED <<resSources, resFiles, resIndex>>
                   \/ Finish("failed") /\ UNCHANGED <<resSources, resFiles, resIndex>>
                   \/ /\ resSources' = Append(resSources, c)
                      /\ resFiles' = resFiles \cup {"text"} /\ resIndex' = resIndex \cup {"text"}
                      /\ UNCHANGED <<resPc, resOut>>
    BY Zenon DEF FetchSelected
  <2> DEFINE c == IF text THEN next ELSE "none"
  <2>2. c \in {next, "none"}
    OBVIOUS
  <2>3. \/ resPc' = "done" /\ resOut' \in {"yielded", "failed"}
        \/ resSources' = Append(resSources, c) /\ resPc' = resPc /\ resOut' = resOut
    BY <2>1 DEF Finish
  <2> HIDE DEF c, next
  <2> QED BY <2>2, <2>3
<1>3. ResultSet /\ SourcesKnown /\ resBrief = NoBrief /\ resOut = "none"
  BY <1>1 DEF ResInv
<1>4. /\ resAt'.p \in Nat \ {0} /\ resCands' \in Seq(ResCand)
      /\ resAt' = [p |-> resAt'.p, q |-> resAt'.q, calls |-> resAt'.calls, late |-> resAt'.late]
  BY <1>1 DEF ResInv
<1>5. ResearchHonest'
  <2>1. LiveMeansLive' /\ SelectionSound' /\ FailureIsNotEmpty'
    BY <1>1, SetKept DEF ResInv, ResearchHonest
  <2>2. (resOut # "brief" /\ resBrief = NoBrief)'
    BY <1>1, <1>2, <1>3 DEF NoBrief
  <2>3. (BriefIndexed /\ SourceSetDecides /\ ValidBriefCites)'
    BY <2>2, NoBriefSound, PTL
  <2> QED BY <2>1, <2>3 DEF ResearchHonest
<1>6. CASE resPc' = "done" /\ resOut' \in {"yielded", "failed"}
  BY <1>4, <1>5, <1>6 DEF ResInv
<1>7. CASE \E c \in {next, "none"} :
              resSources' = Append(resSources, c) /\ resPc' = resPc /\ resOut' = resOut
  <2>1. PICK c \in {next, "none"} :
           resSources' = Append(resSources, c) /\ resPc' = resPc /\ resOut' = resOut
    BY <1>7
  <2> DEFINE sel == resSet.selected
             s == resSources
  <2>2. /\ sel \in Seq(ResCand) /\ s \in Seq(Candidate \cup {"none"}) /\ Len(s) < Len(sel)
        /\ \A k \in 1 .. Len(s) : s[k] \in {sel[k].c, "none"}
    BY <1>1, <1>3 DEF ResultSet, SourcesKnown
  <2>3. next = sel[Len(s) + 1].c
    OBVIOUS
  <2> HIDE DEF next, sel, s
  <2>4. Len(s) \in Nat /\ Len(sel) \in Nat /\ (Len(s) + 1 \in 1 .. Len(sel))
    BY <2>2
  <2>5. next \in Candidate
    <3>1. sel[Len(s) + 1] \in ResCand
      BY <2>2, <2>4
    <3> QED BY <2>3, <3>1 DEF ResCand
  <2> DEFINE t == Append(s, c)
  <2>6. /\ t \in Seq(Candidate \cup {"none"}) /\ Len(t) = Len(s) + 1
        /\ (\A i \in 1 .. Len(s) : t[i] = s[i]) /\ t[Len(s) + 1] = c
    <3>1. c \in Candidate \cup {"none"}
      BY <2>5
    <3> QED BY <2>2, <3>1, AppendOk
  <2> HIDE DEF t
  <2>7. \A k \in 1 .. Len(t) : t[k] \in {sel[k].c, "none"}
    <3> SUFFICES ASSUME NEW k \in 1 .. Len(t) PROVE t[k] \in {sel[k].c, "none"}
      OBVIOUS
    <3>1. k = Len(s) + 1 \/ k \in 1 .. Len(s)
      BY <2>4, <2>6
    <3>2. CASE k = Len(s) + 1
      BY <2>3, <2>6, <3>2
    <3>3. CASE k \in 1 .. Len(s)
      BY <2>2, <2>6, <3>3
    <3> QED BY <3>1, <3>2, <3>3
  <2>8. Len(t) <= Len(sel)
    BY <2>4, <2>6
  <2>9. resSources' = t /\ resSet'.selected = sel
    BY <1>1, <2>1 DEF t, s, sel
  <2>10. SourcesKnown'
    BY <2>6, <2>7, <2>8, <2>9 DEF SourcesKnown
  <2>11. ResultSet'
    BY <1>1, <1>3 DEF ResultSet
  <2>12. resPc' = "fetch" /\ resBrief' = NoBrief /\ resOut' = "none"
    BY <1>1, <1>3, <2>1
  <2> QED BY <1>4, <1>5, <2>10, <2>11, <2>12 DEF ResInv
<1> QED BY <1>2, <1>6, <1>7

\* The brief over the sources that were read, or its failure.
LEMMA CreateBriefOk == ResInv /\ CreateBrief => ResInv'
<1> SUFFICES ASSUME ResInv, CreateBrief PROVE ResInv'
  OBVIOUS
<1>1. /\ resPc = "fetch" /\ UNCHANGED <<resIn, resAt, resCalls, resCands, resSet, resSources>>
  BY DEF CreateBrief
<1>2. \/ Finish("yielded") /\ UNCHANGED resBrief
      \/ Finish("threw") /\ UNCHANGED resBrief
      \/ /\ Extracted # {}
         /\ \E cited \in SUBSET (Candidate \cup {"invented"}) \ {{}}, diverse \in BOOLEAN :
                  LET covers == cited \cap Extracted
                  IN  /\ resBrief' = [cites |-> Extracted, covers |-> covers,
                                      valid |-> briefValid(Extracted, covers),
                                      set |-> createSourceSet(those(resSources, Extracted), diverse)]
                      /\ resFiles' = resFiles \cup {"source_set", "brief"}
                      /\ resIndex' = flush(resFiles')
                      /\ Finish("brief")
  BY Zenon DEF CreateBrief
<1>3. ResultSet /\ SourcesKnown /\ resBrief = NoBrief /\ resOut = "none"
  BY <1>1 DEF ResInv
<1>4. /\ resAt'.p \in Nat \ {0} /\ resCands' \in Seq(ResCand)
      /\ resAt' = [p |-> resAt'.p, q |-> resAt'.q, calls |-> resAt'.calls, late |-> resAt'.late]
  BY <1>1 DEF ResInv
<1>5. LiveMeansLive' /\ SelectionSound' /\ FailureIsNotEmpty'
  BY <1>1, SetKept DEF ResInv, ResearchHonest
<1>6. SUFFICES resPc' = "done" /\ BriefIndexed' /\ SourceSetDecides' /\ ValidBriefCites'
  BY <1>4, <1>5 DEF ResInv, ResearchHonest
<1>7. CASE (Finish("yielded") \/ Finish("threw")) /\ UNCHANGED resBrief
  <2>1. (resOut # "brief" /\ resBrief = NoBrief)'
    BY <1>3, <1>7 DEF Finish, NoBrief
  <2>2. (BriefIndexed /\ SourceSetDecides /\ ValidBriefCites)'
    BY <2>1, NoBriefSound, PTL
  <2> QED BY <1>7, <2>2 DEF Finish
<1>8. CASE /\ Extracted # {}
           /\ \E cited \in SUBSET (Candidate \cup {"invented"}) \ {{}}, diverse \in BOOLEAN :
                  LET covers == cited \cap Extracted
                  IN  /\ resBrief' = [cites |-> Extracted, covers |-> covers,
                                      valid |-> briefValid(Extracted, covers),
                                      set |-> createSourceSet(those(resSources, Extracted), diverse)]
                      /\ resFiles' = resFiles \cup {"source_set", "brief"}
                      /\ resIndex' = flush(resFiles')
                      /\ Finish("brief")
  <2>1. PICK cited \in SUBSET (Candidate \cup {"invented"}) \ {{}}, diverse \in BOOLEAN :
                  LET covers == cited \cap Extracted
                  IN  /\ resBrief' = [cites |-> Extracted, covers |-> covers,
                                      valid |-> briefValid(Extracted, covers),
                                      set |-> createSourceSet(those(resSources, Extracted), diverse)]
                      /\ resFiles' = resFiles \cup {"source_set", "brief"}
                      /\ resIndex' = flush(resFiles')
                      /\ Finish("brief")
    BY <1>8
  <2> DEFINE E == Extracted
             s == those(resSources, E)
             set == createSourceSet(s, diverse)
             covers == cited \cap E
             X == Candidate \cup {"none"}
             src == resSources
  <2>2. /\ resBrief'.covers = covers /\ resBrief'.set = set
        /\ resBrief'.valid <=> briefValid(E, covers)
    <3> DEFINE ok == briefValid(E, covers)
    <3>1. resBrief' = [cites |-> E, covers |-> covers, valid |-> ok, set |-> set]
      BY <2>1
    <3> HIDE DEF E, covers, set, ok
    <3>2. resBrief'.covers = covers /\ resBrief'.set = set /\ resBrief'.valid = ok
      BY <3>1
    <3> QED BY <3>2 DEF ok
  <2>3. resPc' = "done" /\ resOut' = "brief"
    BY <2>1 DEF Finish
  <2>4. BriefIndexed'
    <3>1. resIndex' = resIndex \cup resFiles'
      BY <2>1 DEF flush
    <3> QED BY <3>1 DEF BriefIndexed
  <2>5. E' = E
    BY <1>1 DEF Extracted
  <2>6. ValidBriefCites'
    <3>1. resBrief'.valid => covers # {}
      BY <2>2 DEF briefValid
    <3>2. covers \subseteq E
      OBVIOUS
    <3> HIDE DEF covers
    <3> QED BY <2>2, <2>5, <3>1, <3>2 DEF ValidBriefCites
  <2>7. src \in Seq(X) /\ DOMAIN src = 1 .. Len(src) /\ Len(src) \in Nat
    BY <1>3 DEF SourcesKnown
  <2>8. E = {src[k] : k \in 1 .. Len(src)} \ {"none"}
    BY <2>7 DEF Extracted
  <2>9. s \in Seq(X) /\ Filtered(s, src, E, Len(src))
    <3> HIDE DEF E, X
    <3> QED BY <2>7, ThoseOk
  <2>10. \A k, l \in 1 .. Len(src) : src[k] \in E /\ src[k] = src[l] => k = l
    <3> SUFFICES ASSUME NEW k \in 1 .. Len(src), NEW l \in 1 .. Len(src), src[k] \in E, src[k] = src[l]
                 PROVE  k = l
      OBVIOUS
    <3>1. src[k] # "none"
      BY <2>8
    <3>2. src[k] = resSet.selected[k].c /\ src[l] = resSet.selected[l].c
      BY <1>3, <3>1 DEF SourcesKnown
    <3>3. k \in 1 .. Len(resSet.selected) /\ l \in 1 .. Len(resSet.selected)
      <4>1. Len(resSet.selected) \in Nat /\ Len(src) <= Len(resSet.selected)
        BY <1>3 DEF SourcesKnown, ResultSet
      <4> QED BY <2>7, <4>1
    <3>4. k \in 1 .. Len(resSet.kept) /\ l \in 1 .. Len(resSet.kept)
      <4>1. Len(resSet.selected) \in Nat /\ Len(resSet.kept) \in Nat /\ Len(resSet.selected) <= Len(resSet.kept)
        BY <1>3 DEF ResultSet
      <4> QED BY <3>3, <4>1
    <3>5. src[k] = resSet.kept[k].c /\ src[l] = resSet.kept[l].c
      BY <1>3, <3>2, <3>3 DEF ResultSet
    <3> QED BY <1>3, <3>4, <3>5 DEF ResultSet
  <2> HIDE DEF E, X, src
  <2>11. \A i, j \in 1 .. Len(s) : s[i] = s[j] => i = j
    BY <2>9, <2>10 DEF Filtered
  <2>12. E = {s[i] : i \in 1 .. Len(s)}
    <3>1. ASSUME NEW e \in E PROVE \E i \in 1 .. Len(s) : s[i] = e
      <4>1. PICK k \in 1 .. Len(src) : src[k] = e
        BY <2>8
      <4> QED BY <2>9, <4>1 DEF Filtered
    <3>2. ASSUME NEW i \in 1 .. Len(s) PROVE s[i] \in E
      BY <2>9 DEF Filtered
    <3> HIDE DEF s
    <3> QED BY <3>1, <3>2
  <2> HIDE DEF s
  <2>13. Cardinality(E) = Len(s)
    BY <2>9, <2>11, <2>12, DistinctLength
  <2>14. set \in SourceSet(X, diverse) /\ Decided(set, s, Len(s))
    BY <2>9, SourceSetOk
  <2> HIDE DEF set
  <2>15. SourceSetDecides'
    <3> DEFINE A == set.selected
               R == set.rejected
    <3>1. A \in Seq(X) /\ R \in Seq(X) /\ DOMAIN A = 1 .. Len(A) /\ DOMAIN R = 1 .. Len(R)
          /\ Len(A) \in Nat /\ Len(R) \in Nat /\ Len(s) \in Nat
      BY <2>9, <2>14 DEF SourceSet
    <3>2. Len(A) + Len(R) = Cardinality(E)
      BY <2>13, <2>14 DEF Decided
    <3>3. ToSet(A) = {A[i] : i \in 1 .. Len(A)} /\ ToSet(R) = {R[i] : i \in 1 .. Len(R)}
      BY <3>1 DEF ToSet
    <3>4. ToSet(A) \cup ToSet(R) = E
      <4>1. ASSUME NEW i \in 1 .. Len(A) PROVE A[i] \in E
        BY <2>12, <2>14 DEF Decided
      <4>2. ASSUME NEW i \in 1 .. Len(R) PROVE R[i] \in E
        BY <2>12, <2>14 DEF Decided
      <4>3. ASSUME NEW e \in E PROVE e \in ToSet(A) \cup ToSet(R)
        <5>1. PICK k \in 1 .. Len(s) : s[k] = e
          BY <2>12
        <5>2. (\E i \in 1 .. Len(A) : A[i] = e) \/ (\E i \in 1 .. Len(R) : R[i] = e)
          BY <2>14, <5>1 DEF Decided
        <5> QED BY <3>3, <5>2
      <4> HIDE DEF A, R
      <4> QED BY <3>3, <4>1, <4>2, <4>3
    <3>5. ASSUME NEW k \in DOMAIN R
          PROVE  \/ Len(A) = MaxSources
                 \/ \E c \in ToSet(A) : candDomain[c] = candDomain[R[k]]
      <4>1. MaxSources \in Nat /\ k \in 1 .. Len(R)
        BY <3>1, ResearchAssumption
      <4>2. \/ Len(A) >= MaxSources
            \/ \E j \in 1 .. Len(A) : candDomain[A[j]] = candDomain[R[k]]
        BY <2>14, <4>1 DEF Decided
      <4>3. Len(A) <= MaxSources
        BY <2>14 DEF Decided
      <4> HIDE DEF A, R
      <4>4. CASE Len(A) >= MaxSources
        <5>1. Len(A) \in Nat /\ MaxSources \in Nat
          BY <3>1, <4>1
        <5>2. Len(A) = MaxSources
          BY <4>3, <4>4, <5>1
        <5> QED BY <5>2
      <4>5. CASE \E j \in 1 .. Len(A) : candDomain[A[j]] = candDomain[R[k]]
        <5>1. PICK j \in 1 .. Len(A) : candDomain[A[j]] = candDomain[R[k]]
          BY <4>5
        <5>2. A[j] \in ToSet(A)
          BY <3>3
        <5> QED BY <5>1, <5>2
      <4> QED BY <4>2, <4>4, <4>5
    <3>6. set.diverse => IsInjective([k \in DOMAIN A |-> candDomain[A[k]]])
      <4>1. set.diverse => \A i, j \in 1 .. Len(A) : candDomain[A[i]] = candDomain[A[j]] => i = j
        BY <2>14 DEF Decided
      <4> HIDE DEF A, R
      <4> QED BY <3>1, <4>1 DEF IsInjective
    <3> HIDE DEF A, R
    <3>7. resBrief'.set = set
      BY <2>2
    <3>8. Extracted' = E
      BY <2>5 DEF E
    <3> QED BY <3>2, <3>4, <3>5, <3>6, <3>7, <3>8 DEF SourceSetDecides, A, R
  <2> QED BY <2>3, <2>4, <2>6, <2>15
<1> QED BY <1>2, <1>7, <1>8

\* A step of the command keeps the invariant.
LEMMA ResStepOk == ResInv /\ [ResNext]_resVars => ResInv'
<1> SUFFICES ASSUME ResInv, [ResNext]_resVars PROVE ResInv'
  OBVIOUS
<1>1. CASE UNCHANGED resVars
  <2>1. UNCHANGED <<resPc, resIn, resAt, resCalls, resCands, resSet, resSources, resBrief, resFiles, resIndex, resOut>>
    BY <1>1 DEF resVars
  <2>2. LiveMeansLive' /\ SelectionSound' /\ FailureIsNotEmpty'
    BY <2>1, SetKept DEF ResInv, ResearchHonest
  <2>3. BriefIndexed'
    BY <2>1 DEF ResInv, ResearchHonest, BriefIndexed
  <2>4. Extracted' = Extracted
    BY <2>1 DEF Extracted
  <2>5. SourceSetDecides' /\ ValidBriefCites'
    BY <2>1, <2>4 DEF ResInv, ResearchHonest, SourceSetDecides, ValidBriefCites
  <2>6. (resPc = "search" => GoodCommand(resIn) /\ FixtureKnown)'
    BY <2>1 DEF ResInv, GoodCommand, FixtureKnown, Providers
  <2>7. (resPc = "fetch" => ResultSet /\ SourcesKnown)'
    BY <2>1 DEF ResInv, ResultSet, SourcesKnown
  <2>8. ResearchHonest'
    BY <2>2, <2>3, <2>5 DEF ResearchHonest
  <2>9. /\ resPc' \in {"idle", "search", "fetch", "done"}
        /\ resAt'.p \in Nat \ {0}
        /\ resAt' = [p |-> resAt'.p, q |-> resAt'.q, calls |-> resAt'.calls, late |-> resAt'.late]
        /\ resCands' \in Seq(ResCand)
        /\ resPc' \in {"idle", "search"} => resSet' = NoSet /\ resSources' = <<>>
        /\ resPc' = "idle" => resCands' = <<>>
        /\ resPc' # "done" => resBrief' = NoBrief /\ resOut' = "none"
    BY <2>1 DEF ResInv
  <2> QED BY <2>6, <2>7, <2>8, <2>9 DEF ResInv
<1> QED BY <1>1, BriefCommandOk, SearchCallOk, SearchLateOk, SearchDoneOk, FetchSelectedOk, CreateBriefOk DEF ResNext

\* What research reports is what happened: a live answer holds no fixture, what was found is
\* dropped for a list or a duplicate only, a failure is no empty answer, and a brief rests on
\* the sources that were kept (search-coordinator.ts, source-set.ts, research/commands.ts).
THEOREM ResearchHonestHolds == ResSpec => []ResearchHonest
<1>1. ResInit => ResInv
  BY ResInitOk
<1>2. ResInv /\ [ResNext]_resVars => ResInv'
  BY ResStepOk
<1>3. ResInv => ResearchHonest
  BY DEF ResInv
<1> QED BY <1>1, <1>2, <1>3, PTL DEF ResSpec
=============================================================================
