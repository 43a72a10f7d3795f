-------------------------- MODULE Authoring_proofs --------------------------
(***************************************************************************)
(* Proofs about PlanBuilder, PlanCheck, PlanLibrary, SkillBuild,           *)
(* PackInstall and PlanComposer, for any number of front ends, any plan,   *)
(* skill and pack files, any paths and prompts and every order of the      *)
(* operations on them.                                                     *)
(*                                                                         *)
(* BuilderKeepsItsWord speaks of the session file.  Since every operation  *)
(* writes back a whole copy, the invariant says of every copy what the     *)
(* property says of the file, and of the reports in it what they still     *)
(* show.  The other components keep files between their operations, and    *)
(* their invariants say what each file was made from.  A loop of the code  *)
(* is a function of the prefix it has read; facts about it are proved by   *)
(* a least counterexample (InductionUpTo, LoopTyped).                      *)
(***************************************************************************)
EXTENDS PlanBuilder, PlanCheck, PlanLibrary, SkillBuild, PackInstall, PlanComposer,
        FiniteSetTheorems, SequenceTheorems, WellFoundedInduction, TLAPS

-----------------------------------------------------------------------------
(* Loops. *)

\* Every set of naturals that is not empty has a least element; a least
\* counterexample is how the facts about loops below are proved.
Less == {x \in Nat \X Nat : x[1] < x[2]}

\* The order of the naturals has no infinite descent.
LEMMA LessWellFounded == IsWellFoundedOn(Less, Nat)
  BY NatLessThanWellFounded, Zenon DEF OpToRel, Less

\* The least element of a set of naturals.
LEMMA LeastNat ==
    ASSUME NEW T, T \subseteq Nat, T # {}
    PROVE  \E m \in T : \A k \in T : m <= k
<1>1. PICK m \in T : \A k \in T : ~ (<<k, m>> \in Less)
  BY LessWellFounded, WFMin
<1>2. \A k, n \in Nat : k < n => <<k, n>> \in Less
  BY DEF Less
<1>3. ASSUME NEW k \in T PROVE m <= k
  <2>1. k \in Nat /\ m \in Nat
    OBVIOUS
  <2>2. ~ (k < m)
    BY <1>1, <1>2, <2>1
  <2> QED BY <2>1, <2>2
<1> QED BY <1>3

\* Induction up to N, for a set of numbers.
LEMMA InductionUpTo ==
    ASSUME NEW N \in Nat, NEW P, 0 \in P, \A n \in 1 .. N : n - 1 \in P => n \in P
    PROVE  0 .. N \subseteq P
<1> DEFINE T == {n \in 0 .. N : n \notin P}
<1>1. SUFFICES ASSUME T # {} PROVE FALSE
  OBVIOUS
<1>2. T \subseteq Nat
  OBVIOUS
<1>3. PICK m \in T : \A k \in T : m <= k
  BY <1>1, <1>2, LeastNat
<1>4. m \in 1 .. N /\ m - 1 \in 0 .. N
  OBVIOUS
<1>5. m - 1 \notin T
  BY <1>3, <1>4
<1> QED BY <1>4, <1>5

\* A loop over 1 .. N, each turn of which is a function of the state before.
Loop(f, N, base, turn) ==
    f = [n \in 0 .. N |-> IF n = 0 THEN base ELSE turn[n][f[n - 1]]]

\* A loop has a function of its states.
LEMMA LoopExists ==
    ASSUME NEW N \in Nat, NEW base, NEW turn
    PROVE  \E f : Loop(f, N, base, turn)
<1> DEFINE P == {k \in 0 .. N : \E f : Loop(f, k, base, turn)}
<1>1. 0 \in P
  <2> DEFINE f == [n \in 0 .. 0 |-> base]
  <2>1. f = [n \in 0 .. 0 |-> IF n = 0 THEN base ELSE turn[n][f[n - 1]]]
    OBVIOUS
  <2>2. Loop(f, 0, base, turn)
    BY <2>1 DEF Loop
  <2> HIDE DEF f
  <2> QED BY <2>2
<1>2. ASSUME NEW k \in 1 .. N, k - 1 \in P PROVE k \in P
  <2>1. PICK g : Loop(g, k - 1, base, turn)
    BY <1>2
  <2> DEFINE f == [n \in 0 .. k |-> IF n = k THEN turn[k][g[k - 1]] ELSE g[n]]
  <2>2. k - 1 \in Nat /\ k # 0
    OBVIOUS
  <2>3. ASSUME NEW n \in 0 .. k
        PROVE  f[n] = IF n = 0 THEN base ELSE turn[n][f[n - 1]]
    <3>1. CASE n = 0
      BY <2>1, <2>2, <3>1 DEF Loop
    <3>2. CASE n = k
      <4>1. f[k - 1] = g[k - 1]
        BY <2>2
      <4> QED BY <2>2, <3>2, <4>1
    <3>3. CASE n # 0 /\ n # k
      <4>1. n \in 0 .. (k - 1) /\ n - 1 \in 0 .. (k - 1) /\ n - 1 # k /\ n - 1 \in 0 .. k
        BY <3>3
      <4>2. g[n] = turn[n][g[n - 1]]
        BY <2>1, <3>3, <4>1 DEF Loop
      <4>3. f[n] = g[n] /\ f[n - 1] = g[n - 1]
        BY <3>3, <4>1
      <4> QED BY <3>3, <4>2, <4>3
    <3> QED BY <3>1, <3>2, <3>3
  <2>4. f = [n \in 0 .. k |-> IF n = 0 THEN base ELSE turn[n][f[n - 1]]]
    <3>1. f = [n \in 0 .. k |-> f[n]]
      OBVIOUS
    <3> HIDE DEF f
    <3> QED BY <2>3, <3>1
  <2>5. Loop(f, k, base, turn)
    BY <2>4 DEF Loop
  <2> HIDE DEF f
  <2> QED BY <2>5
<1>3. 0 .. N \subseteq P
  <2> HIDE DEF P
  <2> QED BY <1>1, <1>2, InductionUpTo
<1>4. N \in 0 .. N
  OBVIOUS
<1> QED BY <1>3, <1>4

\* Every state of a loop is in the set its turns keep.
LEMMA LoopTyped ==
    ASSUME NEW N \in Nat, NEW base, NEW turn, NEW f, Loop(f, N, base, turn), NEW S, base \in S,
           \A n \in 1 .. N, v \in S : turn[n][v] \in S
    PROVE  f \in [0 .. N -> S] /\ f[0] = base /\ \A n \in 1 .. N : f[n] = turn[n][f[n - 1]]
<1> DEFINE P == {n \in 0 .. N : f[n] \in S}
<1>1. f = [n \in 0 .. N |-> f[n]]
  BY DEF Loop
<1>2. 0 \in 0 .. N /\ f[0] = base
  BY DEF Loop
<1>3. ASSUME NEW n \in 1 .. N PROVE f[n] = turn[n][f[n - 1]]
  BY DEF Loop
<1>4. ASSUME NEW n \in 1 .. N, n - 1 \in P PROVE n \in P
  BY <1>3, <1>4
<1>5. 0 \in P
  BY <1>2
<1>6. 0 .. N \subseteq P
  <2> HIDE DEF P
  <2> QED BY <1>4, <1>5, InductionUpTo
<1> QED BY <1>1, <1>2, <1>3, <1>6

-----------------------------------------------------------------------------
(* PlanBuilder: a session and its copies. *)

\* The fields of a session.
SessionShape ==
    [plan : PlanShape, sim : {"none", "invalid", "unsafe", "needs_input", "missing_requirements", "ready"},
     val : BOOLEAN, pending : SUBSET Question, answered : SUBSET Question, models : Nat,
     status : {"none", "yielded", "validating", "needs_input", "ready"}, unseen : BOOLEAN,
     base : PlanShape, confirmed : SUBSET Confirmation]

OpShape ==
    [phase : {"idle", "save", "stabilize", "check", "revise", "edit"}, copy : SessionShape,
     turns : Nat, calls : Nat, route : BOOLEAN]

\* Unless a model revised the plan since, its risks are asked about or answered, a
\* schedule without a time is asked about, and a simulation that said ready saw neither.
Asked(s) ==
    s.plan # NoPlan /\ ~s.unseen =>
        /\ s.plan.risk = "destructive" => "destructive_action" \in s.pending \cup s.answered
        /\ s.plan.sched = "no_time" => "schedule_time" \in s.pending
        /\ s.sim = "ready" => s.plan.risk # "destructive" /\ s.plan.sched # "no_time"

\* What ready stands for.
ReadyStands(s) ==
    s.status = "ready" =>
        /\ s.plan.valid /\ s.plan # NoPlan
        /\ ~s.unseen => /\ s.plan.risk = "destructive" => "destructive_action" \in s.answered
                        /\ s.plan.sched # "no_time"

\* What the plan may differ in from the one it was made as.
Drift(s) ==
    s.plan # NoPlan =>
        diffPlanfiles(s.base, s.plan) \subseteq
            s.confirmed \cup (IF "schedule_time" \in s.answered THEN {"allow_schedule_change"} ELSE {})

\* What holds of a session, in the file or in a copy.
Kept(s) ==
    /\ s \in SessionShape
    /\ Asked(s) /\ ReadyStands(s) /\ Drift(s) /\ s.models <= MaxModelCalls

\* What an operation edits is a plan, and how many calls it made by now.
OpCounted(op) ==
    /\ op.phase = "edit" => op.copy.plan # NoPlan
    /\ op.phase \in {"check", "revise", "edit"} => op.turns = 0 /\ op.calls = 0
    /\ op.calls <= op.turns + 1 /\ op.turns <= MaxRevisions

\* While operations do not overlap, one at most is under way, and its copy has the
\* answers; if none is, the file has them.
AnswersHeld ==
    ~pbClash =>
        /\ \A a, b \in Actor : pbOp[a] # NoOp /\ pbOp[b] # NoOp => a = b
        /\ \A a \in Actor : pbOp[a] # NoOp => pbGiven \subseteq pbOp[a].copy.answered
        /\ (\A a \in Actor : pbOp[a] = NoOp) => pbGiven \subseteq pbDisk.answered

\* The inductive invariant.
PbInv ==
    /\ Kept(pbDisk) /\ pbOp \in [Actor -> OpShape]
    /\ \A a \in Actor : Kept(pbOp[a].copy) /\ OpCounted(pbOp[a])
    /\ pbGiven \subseteq Question /\ pbClash \in BOOLEAN /\ AnswersHeld

-----------------------------------------------------------------------------
(* The steps on a copy.                                                    *)

LEMMA NoSessionKept == Kept(NoSession) /\ NoSession \in SessionShape /\ NoOp \in OpShape /\ NoOp.copy = NoSession
BY BuilderAssumption DEF Kept, NoSession, NoOp, SessionShape, OpShape, NoPlan, PlanShape, Asked, ReadyStands, Drift

\* What a simulation that says ready saw.
LEMMA SimulationSays ==
  ASSUME NEW plan \in PlanShape, NEW valid \in BOOLEAN, NEW profile
  PROVE  LET sim == simulatePlanfile(plan, valid, profile)
         IN  /\ sim \in {"invalid", "unsafe", "needs_input", "missing_requirements", "ready"}
             /\ sim = "ready" => valid /\ plan.risk # "destructive" /\ plan.sched # "no_time"
             /\ valid /\ plan.risk = "destructive" => sim = "unsafe"
<1>1. plan.sched = "no_time" => Blocking(planQuestions(plan, profile)) # {}
  <2> SUFFICES ASSUME plan.sched = "no_time" PROVE "schedule_time" \in Blocking(planQuestions(plan, profile))
    OBVIOUS
  <2> QED BY DEF Blocking, planQuestions, Question
<1> QED BY <1>1 DEF simulatePlanfile

\* What the questions of a plan are.
LEMMA QuestionsSay ==
  ASSUME NEW plan, NEW profile
  PROVE  /\ planQuestions(plan, profile) \subseteq Question
         /\ plan.risk = "destructive" => "destructive_action" \in planQuestions(plan, profile)
         /\ plan.sched = "no_time" => "schedule_time" \in planQuestions(plan, profile)
BY DEF planQuestions, Question

\* An edit adds no more to the drift than it needs confirmed.
LEMMA DriftAdds ==
  ASSUME NEW p \in PlanShape, NEW q \in PlanShape, NEW r \in PlanShape
  PROVE  /\ diffPlanfiles(p, r) \subseteq diffPlanfiles(p, q) \cup diffPlanfiles(q, r)
         /\ diffPlanfiles(p, p) = {}
<1>1. riskRank(p.risk) \in Nat /\ riskRank(q.risk) \in Nat /\ riskRank(r.risk) \in Nat
  BY DEF riskRank, PlanShape
<1>2. \A c \in diffPlanfiles(p, r) : c \in diffPlanfiles(p, q) \cup diffPlanfiles(q, r)
  BY <1>1 DEF diffPlanfiles
<1>3. \A c \in Confirmation : c \notin diffPlanfiles(p, p)
  BY <1>1 DEF diffPlanfiles, Confirmation
<1> QED BY <1>2, <1>3 DEF diffPlanfiles

\* A session that yields.
LEMMA YieldedKept ==
  ASSUME NEW s, Kept(s)
  PROVE  Kept(yielded(s)) /\ yielded(s).answered = s.answered
BY DEF Kept, yielded, SessionShape, Asked, ReadyStands, Drift

\* validatePlan
LEMMA ValidatedKept ==
  ASSUME NEW s \in SessionShape, Asked(s), Drift(s), s.models <= MaxModelCalls
  PROVE  Kept(validatePlan(s)) /\ validatePlan(s).answered = s.answered
<1>1. CASE s.plan = NoPlan
  <2>1. Kept([s EXCEPT !.status = "yielded"])
    BY <1>1 DEF Kept, SessionShape, Asked, ReadyStands, Drift
  <2> QED BY <1>1, <2>1 DEF validatePlan, yielded, SessionShape
<1>2. CASE s.plan # NoPlan
  <2> DEFINE t == [s EXCEPT !.val = s.plan.valid, !.status = validated(s)]
  <2>1. validated(s) \in {"ready", "needs_input", "yielded"}
        /\ (validated(s) = "ready" => s.plan.valid /\ (s.sim = "ready" \/ s.pending = {}))
    BY DEF validated
  <2>2. s.plan.valid \in BOOLEAN
    BY Zenon DEF SessionShape, PlanShape
  <2>3. /\ t.plan = s.plan /\ t.sim = s.sim /\ t.pending = s.pending /\ t.answered = s.answered
        /\ t.unseen = s.unseen /\ t.base = s.base /\ t.confirmed = s.confirmed /\ t.models = s.models
        /\ t.status = validated(s) /\ t \in SessionShape
    BY <2>1, <2>2 DEF SessionShape
  <2>4. ReadyStands(t)
    BY <1>2, <2>1, <2>3 DEF ReadyStands, Asked
  <2>5. Asked(t) /\ Drift(t)
    BY <2>3 DEF Asked, Drift
  <2> HIDE DEF t
  <2>6. Kept(t)
    BY <2>3, <2>4, <2>5 DEF Kept
  <2> QED BY <1>2, <2>3, <2>6 DEF validatePlan, t
<1> QED BY <1>1, <1>2

\* simulatePlan
LEMMA SimulatedKept ==
  ASSUME NEW s, Kept(s), NEW profile
  PROVE  Kept(simulatePlan(s, profile)) /\ simulatePlan(s, profile).answered = s.answered
<1>1. CASE s.plan = NoPlan
  BY <1>1, YieldedKept DEF simulatePlan
<1>2. CASE s.plan # NoPlan
  <2> DEFINE sim == simulatePlanfile(s.plan, s.val, profile)
             asks == planQuestions(s.plan, profile)
             t == simulatePlan(s, profile)
  <2>1. s.val \in BOOLEAN
    BY Zenon DEF Kept, SessionShape
  <2>2. /\ sim \in {"invalid", "unsafe", "needs_input", "missing_requirements", "ready"}
        /\ sim = "ready" => s.plan.risk # "destructive" /\ s.plan.sched # "no_time"
    BY <2>1, SimulationSays DEF Kept, SessionShape
  <2>3. /\ asks \subseteq Question
        /\ s.plan.risk = "destructive" => "destructive_action" \in asks
        /\ s.plan.sched = "no_time" => "schedule_time" \in asks
    BY QuestionsSay
  <2> HIDE DEF sim, asks
  <2>4. PICK st \in {"validating", "needs_input", "yielded"} :
          t = [s EXCEPT !.sim = sim, !.unseen = FALSE, !.pending = s.pending \cup asks, !.status = st]
    BY <1>2 DEF simulatePlan, mergeQuestions, sim, asks, Kept, SessionShape
  <2> HIDE DEF t
  <2>5. PICK no \in BOOLEAN : no = FALSE
    OBVIOUS
  <2>6. t = [s EXCEPT !.sim = sim, !.unseen = no, !.pending = s.pending \cup asks, !.status = st]
    BY <2>4, <2>5
  <2>7. /\ t \in SessionShape /\ t.plan = s.plan /\ t.sim = sim /\ t.pending = s.pending \cup asks
        /\ t.answered = s.answered /\ t.base = s.base /\ t.confirmed = s.confirmed /\ t.models = s.models
        /\ t.status = st
    BY <2>2, <2>3, <2>6 DEF Kept, SessionShape
  <2>8. Asked(t)
    BY <2>2, <2>3, <2>7 DEF Asked
  <2>9. ReadyStands(t)
    BY <2>7 DEF ReadyStands
  <2>10. Drift(t)
    BY <2>7 DEF Drift, Kept
  <2> QED BY <2>7, <2>8, <2>9, <2>10 DEF Kept, t
<1> QED BY <1>1, <1>2

\* Answers are given to the questions qs, and with the schedule question the plan has a time.
LEMMA AnsweredKept ==
  ASSUME NEW s, Kept(s), NEW qs \in SUBSET Question, NEW plan,
         NEW st \in {"validating", "needs_input"},
         plan = IF "schedule_time" \in qs /\ s.plan # NoPlan THEN [s.plan EXCEPT !.sched = "time"] ELSE s.plan
  PROVE  LET t == [s EXCEPT !.pending = @ \ qs, !.answered = @ \cup qs, !.status = st, !.plan = plan]
         IN  Kept(t) /\ t.answered = s.answered \cup qs
<1> DEFINE t == [s EXCEPT !.pending = @ \ qs, !.answered = @ \cup qs, !.status = st, !.plan = plan]
<1>1. s.plan \in PlanShape
  BY DEF Kept, SessionShape
<1>2. /\ plan \in PlanShape /\ plan.risk = s.plan.risk /\ plan.search = s.plan.search
      /\ plan = NoPlan <=> s.plan = NoPlan
      /\ "schedule_time" \in qs \/ s.plan = NoPlan => plan.sched # "no_time"
      /\ "schedule_time" \notin qs => plan = s.plan
  BY <1>1 DEF PlanShape, NoPlan
<1>3. /\ t \in SessionShape /\ t.plan = plan /\ t.sim = s.sim /\ t.pending = s.pending \ qs
      /\ t.answered = s.answered \cup qs /\ t.base = s.base /\ t.confirmed = s.confirmed /\ t.models = s.models
      /\ t.status = st /\ t.unseen = s.unseen
  BY <1>2 DEF Kept, SessionShape
<1> HIDE DEF t
<1>4. Asked(t)
  BY <1>2, <1>3 DEF Kept, Asked
<1>5. ReadyStands(t)
  BY <1>3 DEF ReadyStands
<1>6. Drift(t)
  <2> SUFFICES ASSUME t.plan # NoPlan, NEW c \in diffPlanfiles(t.base, t.plan), c \notin t.confirmed
               PROVE  "schedule_time" \in t.answered /\ c = "allow_schedule_change"
    BY DEF Drift
  <2>1. CASE c \in diffPlanfiles(s.base, s.plan)
    BY <1>2, <1>3, <2>1 DEF Kept, Drift
  <2>2. CASE c \notin diffPlanfiles(s.base, s.plan)
    BY <1>2, <1>3, <2>2 DEF diffPlanfiles
  <2> QED BY <2>1, <2>2
<1> QED BY <1>3, <1>4, <1>5, <1>6 DEF Kept, t

\* answerQuestion and acceptDefaultAnswers
LEMMA AnswerKept ==
  ASSUME NEW s, Kept(s), NEW q \in Question
  PROVE  LET t == answerQuestion(s, q)
         IN  Kept(t) /\ t.answered = IF q \in s.pending THEN s.answered \cup {q} ELSE s.answered
<1>1. CASE q \notin s.pending
  BY <1>1, YieldedKept DEF answerQuestion
<1>2. CASE q \in s.pending
  <2>1. PICK st \in {"validating", "needs_input"} :
          st = IF Blocking(s.pending \ {q}) # {} THEN "needs_input" ELSE "validating"
    OBVIOUS
  <2>2. PICK plan : plan = IF "schedule_time" \in {q} /\ s.plan # NoPlan THEN [s.plan EXCEPT !.sched = "time"] ELSE s.plan
    OBVIOUS
  <2>3. answerQuestion(s, q) = [s EXCEPT !.pending = @ \ {q}, !.answered = @ \cup {q}, !.status = st, !.plan = plan]
    BY <1>2, <2>1, <2>2 DEF answerQuestion, Kept, SessionShape
  <2> DEFINE t == [s EXCEPT !.pending = @ \ {q}, !.answered = @ \cup {q}, !.status = st, !.plan = plan]
  <2>4. Kept(t) /\ t.answered = s.answered \cup {q}
    <3>1. {q} \in SUBSET Question
      OBVIOUS
    <3> QED BY <2>2, <3>1, AnsweredKept
  <2> QED BY <1>2, <2>3, <2>4
<1> QED BY <1>1, <1>2

LEMMA DefaultsKept ==
  ASSUME NEW s, Kept(s)
  PROVE  LET t == acceptDefaultAnswers(s) IN Kept(t) /\ t.answered = s.answered \cup s.pending
<1>0. s.pending \in SUBSET Question
  BY DEF Kept, SessionShape
<1>1. CASE s.pending = {}
  BY <1>1 DEF acceptDefaultAnswers
<1>2. CASE s.pending # {}
  <2>1. PICK qs \in SUBSET Question : qs = s.pending
    BY <1>0
  <2>2. PICK plan : plan = IF "schedule_time" \in qs /\ s.plan # NoPlan THEN [s.plan EXCEPT !.sched = "time"] ELSE s.plan
    OBVIOUS
  <2>3. PICK st \in {"validating", "needs_input"} : st = "validating"
    OBVIOUS
  <2> DEFINE t == [s EXCEPT !.pending = @ \ qs, !.answered = @ \cup qs, !.status = st, !.plan = plan]
  <2>4. acceptDefaultAnswers(s) = t
    BY <1>2, <2>1, <2>2, <2>3 DEF acceptDefaultAnswers, Kept, SessionShape
  <2>5. Kept(t) /\ t.answered = s.answered \cup qs
    BY <2>2, AnsweredKept
  <2> QED BY <2>1, <2>4, <2>5
<1> QED BY <1>1, <1>2

\* revisePlan
LEMMA RevisedKept ==
  ASSUME NEW s, Kept(s), NEW route \in BOOLEAN, NEW next \in Answers(s, route)
  PROVE  LET t == revisePlan(s, route, next) IN Kept(t) /\ t.answered = s.answered
<1>1. Kept(validatePlan(s)) /\ validatePlan(s).answered = s.answered
  BY ValidatedKept DEF Kept
<1>2. Kept(yielded(s)) /\ yielded(s).answered = s.answered
  BY YieldedKept
<1>3. CASE s.plan # NoPlan /\ s.plan.valid
  <2>1. revisePlan(s, route, next) = validatePlan(s)
    BY <1>3 DEF revisePlan, asksModel
  <2> QED BY <1>1, <2>1
<1>4. CASE ~(s.plan # NoPlan /\ s.plan.valid) /\ asksModel(s, route) /\ next # NoPlan
  <2> DEFINE t == [s EXCEPT !.plan = next, !.models = @ + 1, !.unseen = TRUE, !.base = next, !.confirmed = {}]
  <2>1. next \in PlanShape
    BY <1>4, BuilderAssumption DEF Answers
  <2>2. PICK yes \in BOOLEAN : yes = TRUE
    OBVIOUS
  <2>3. PICK n \in Nat : n = s.models + 1
    BY DEF Kept, SessionShape
  <2>a. t = [s EXCEPT !.plan = next, !.models = n, !.unseen = yes, !.base = next, !.confirmed = {}]
    BY <2>2, <2>3
  <2> HIDE DEF t
  <2>b. s \in SessionShape /\ {} \in SUBSET Confirmation
    BY DEF Kept
  <2>4. /\ t \in SessionShape /\ t.plan = next /\ t.base = next /\ t.models = n /\ t.unseen = yes
        /\ t.answered = s.answered
    BY <2>1, <2>a, <2>b DEF SessionShape
  <2>5. Asked(t)
    BY <2>2, <2>4, Zenon DEF Asked
  <2>6. Drift(t)
    BY <2>1, <2>4, DriftAdds DEF Drift
  <2>7. t.models <= MaxModelCalls
    BY <1>4, <2>3, <2>4, BuilderAssumption DEF asksModel, callsLeft, Kept, SessionShape
  <2>8. Kept(validatePlan(t)) /\ validatePlan(t).answered = t.answered
    BY <2>4, <2>5, <2>6, <2>7, ValidatedKept
  <2>9. revisePlan(s, route, next) = validatePlan(t)
    BY <1>4 DEF revisePlan, t
  <2> QED BY <2>4, <2>8, <2>9
<1>5. CASE ~(s.plan # NoPlan /\ s.plan.valid) /\ ~(asksModel(s, route) /\ next # NoPlan)
  BY <1>2, <1>5 DEF revisePlan
<1> QED BY <1>3, <1>4, <1>5

\* reconcileForSession: what an accepted edit makes of a copy.
Edited(s, next, options, profile) ==
    LET sim == simulatePlanfile(next, TRUE, profile)
    IN  [s EXCEPT !.plan = next, !.val = TRUE, !.sim = sim, !.unseen = FALSE,
                  !.pending = planQuestions(next, profile), !.confirmed = @ \cup options,
                  !.status = IF sim = "ready" THEN "ready" ELSE "needs_input"]
Accepted(s, next, options, profile) ==
    next # NoPlan /\ next.valid /\ safe(s.plan, next, options) /\ simulatePlanfile(next, TRUE, profile) # "unsafe"

LEMMA EditedKept ==
  ASSUME NEW s, Kept(s), s.plan # NoPlan, NEW next \in PbPlan, NEW options \in SUBSET Confirmation, NEW profile,
         Accepted(s, next, options, profile)
  PROVE  LET t == Edited(s, next, options, profile) IN Kept(t) /\ t.answered = s.answered
<1>0. /\ next # NoPlan /\ next.valid /\ safe(s.plan, next, options)
      /\ simulatePlanfile(next, TRUE, profile) # "unsafe"
  BY DEF Accepted
<1> DEFINE sim == simulatePlanfile(next, TRUE, profile)
           asks == planQuestions(next, profile)
           t == [s EXCEPT !.plan = next, !.val = TRUE, !.sim = sim, !.unseen = FALSE,
                          !.pending = asks, !.confirmed = @ \cup options,
                          !.status = IF sim = "ready" THEN "ready" ELSE "needs_input"]
<1>1. next \in PlanShape /\ s.plan \in PlanShape /\ s.base \in PlanShape
  BY BuilderAssumption DEF Kept, SessionShape
<1>2. PICK yes \in BOOLEAN : yes = TRUE
  OBVIOUS
<1>3. PICK no \in BOOLEAN : no = FALSE
  OBVIOUS
<1>4. /\ sim \in {"invalid", "unsafe", "needs_input", "missing_requirements", "ready"}
      /\ sim = "ready" => next.sched # "no_time"
      /\ next.risk # "destructive"
  <2>1. LET m == simulatePlanfile(next, yes, profile)
        IN  /\ m \in {"invalid", "unsafe", "needs_input", "missing_requirements", "ready"}
            /\ m = "ready" => yes /\ next.risk # "destructive" /\ next.sched # "no_time"
            /\ yes /\ next.risk = "destructive" => m = "unsafe"
    BY <1>1, SimulationSays
  <2> QED BY <1>0, <1>2, <2>1
<1>5. asks \subseteq Question /\ (next.sched = "no_time" => "schedule_time" \in asks)
  BY QuestionsSay
<1>6. PICK st \in {"ready", "needs_input"} : st = IF sim = "ready" THEN "ready" ELSE "needs_input"
  OBVIOUS
<1> HIDE DEF sim, asks
<1>7. t = [s EXCEPT !.plan = next, !.val = yes, !.sim = sim, !.unseen = no,
                    !.pending = asks, !.confirmed = @ \cup options, !.status = st]
  BY <1>2, <1>3, <1>6
<1>8. /\ t \in SessionShape /\ t.plan = next /\ t.sim = sim /\ t.pending = asks /\ t.answered = s.answered
      /\ t.base = s.base /\ t.confirmed = s.confirmed \cup options /\ t.models = s.models /\ t.status = st
  BY <1>1, <1>4, <1>5, <1>7 DEF Kept, SessionShape
<1> HIDE DEF t
<1>9. Asked(t)
  BY <1>4, <1>5, <1>8 DEF Asked
<1>10. ReadyStands(t)
  BY <1>0, <1>4, <1>6, <1>8 DEF ReadyStands
<1>11. Drift(t)
  <2>1. diffPlanfiles(s.base, next) \subseteq diffPlanfiles(s.base, s.plan) \cup options
    BY <1>0, <1>1, DriftAdds DEF safe
  <2>2. diffPlanfiles(s.base, s.plan) \subseteq
           s.confirmed \cup (IF "schedule_time" \in s.answered THEN {"allow_schedule_change"} ELSE {})
    BY DEF Kept, Drift
  <2> QED BY <1>8, <2>1, <2>2 DEF Drift
<1> QED BY <1>8, <1>9, <1>10, <1>11 DEF Kept, Edited, t, sim, asks

-----------------------------------------------------------------------------
(* The operations.                                                         *)

\* An operation at work is not the idle one.
LEMMA Busy ==
  ASSUME NEW op \in OpShape, op.phase # "idle"
  PROVE  op # NoOp
BY DEF NoOp

\* A session is made anew.
LEMMA MadeAnew ==
  ASSUME PbInv, Kept(pbDisk'), pbGiven' = {}, pbClash' = (\E b \in Actor : pbOp[b] # NoOp), UNCHANGED pbOp
  PROVE  PbInv'
<1>1. pbClash' \in BOOLEAN
  BY Zenon
<1>2. AnswersHeld'
  BY DEF AnswersHeld
<1> QED BY <1>1, <1>2 DEF PbInv, Kept, Asked, ReadyStands, Drift, OpCounted

\* An operation begins with a copy that has the answers of the file, and those it gives.
LEMMA Begins ==
  ASSUME PbInv, NEW a \in Actor, NEW phase \in {"save", "stabilize", "check", "revise", "edit"},
         NEW copy, Kept(copy), NEW route \in BOOLEAN, Begin(a, phase, copy, route),
         pbGiven' \subseteq Question, phase = "edit" => copy.plan # NoPlan,
         pbGiven \subseteq pbDisk.answered => pbGiven' \subseteq copy.answered
  PROVE  PbInv'
<1> DEFINE op == [NoOp EXCEPT !.phase = phase, !.copy = copy, !.route = route]
<1>1. /\ pbOp[a] = NoOp /\ pbOp' = [pbOp EXCEPT ![a] = op] /\ pbDisk' = pbDisk
      /\ pbClash' = (pbClash \/ \E b \in Actor : pbOp[b] # NoOp)
  BY DEF Begin
<1>2. op \in OpShape /\ op.copy = copy /\ op.phase = phase /\ op.turns = 0 /\ op.calls = 0 /\ op # NoOp
  BY DEF NoOp, OpShape, Kept
<1> HIDE DEF op
<1>3. OpCounted(op)
  BY <1>2, BuilderAssumption DEF OpCounted
<1>4. pbOp' \in [Actor -> OpShape] /\ pbOp'[a] = op /\ \A b \in Actor : b # a => pbOp'[b] = pbOp[b]
  BY <1>1, <1>2 DEF PbInv
<1>5. \A b \in Actor : Kept(pbOp'[b].copy) /\ OpCounted(pbOp'[b])
  BY <1>2, <1>3, <1>4 DEF PbInv
<1>6. pbClash' \in BOOLEAN
  BY <1>1, Zenon
<1>7. AnswersHeld'
  <2> SUFFICES ASSUME ~pbClash'
               PROVE  /\ \A b, c \in Actor : pbOp'[b] # NoOp /\ pbOp'[c] # NoOp => b = c
                      /\ \A b \in Actor : pbOp'[b] # NoOp => pbGiven' \subseteq pbOp'[b].copy.answered
                      /\ (\A b \in Actor : pbOp'[b] = NoOp) => pbGiven' \subseteq pbDisk'.answered
    BY DEF AnswersHeld
  <2>1. ~pbClash /\ \A b \in Actor : pbOp[b] = NoOp
    BY <1>1
  <2>2. pbGiven' \subseteq copy.answered
    BY <2>1 DEF PbInv, AnswersHeld
  <2> QED BY <1>2, <1>4, <2>1, <2>2
<1> QED BY <1>1, <1>4, <1>5, <1>6, <1>7 DEF PbInv

\* An operation continues with a copy that has the answers it had.
LEMMA Continues ==
  ASSUME PbInv, NEW a \in Actor, pbOp[a].phase # "idle", NEW phase \in {"save", "stabilize"},
         NEW copy, Kept(copy), pbOp[a].copy.answered \subseteq copy.answered, NEW calls \in 0..1, NEW turns \in 0..1,
         pbOp[a].calls + calls <= pbOp[a].turns + turns + 1, pbOp[a].turns + turns <= MaxRevisions,
         Continue(a, phase, copy, calls, turns), UNCHANGED <<pbGiven, pbClash, pbOps>>
  PROVE  PbInv'
<1> DEFINE op == [pbOp[a] EXCEPT !.phase = phase, !.copy = copy, !.calls = @ + calls, !.turns = @ + turns]
<1>1. pbOp' = [pbOp EXCEPT ![a] = op] /\ pbDisk' = pbDisk
  BY DEF Continue, PbInv, OpShape
<1>2. pbOp[a] \in OpShape
  BY DEF PbInv
<1>3. PICK n \in Nat : n = pbOp[a].calls + calls
  BY <1>2 DEF OpShape
<1>4. PICK m \in Nat : m = pbOp[a].turns + turns
  BY <1>2 DEF OpShape
<1>5. copy \in SessionShape
  BY DEF Kept
<1>6. op = [pbOp[a] EXCEPT !.phase = phase, !.copy = copy, !.calls = n, !.turns = m]
  BY <1>3, <1>4
<1> HIDE DEF op
<1>7. op \in OpShape /\ op.copy = copy /\ op.phase = phase /\ op.calls = n /\ op.turns = m
  BY <1>2, <1>5, <1>6 DEF OpShape
<1>8. OpCounted(op) /\ op # NoOp /\ pbOp[a] # NoOp
  BY <1>2, <1>3, <1>4, <1>7, Busy DEF OpCounted
<1>9. pbOp' \in [Actor -> OpShape] /\ pbOp'[a] = op /\ \A b \in Actor : b # a => pbOp'[b] = pbOp[b]
  BY <1>1, <1>7 DEF PbInv
<1>10. \A b \in Actor : Kept(pbOp'[b].copy) /\ OpCounted(pbOp'[b])
  BY <1>7, <1>8, <1>9 DEF PbInv
<1>11. AnswersHeld'
  <2> SUFFICES ASSUME ~pbClash
               PROVE  /\ \A b, c \in Actor : pbOp'[b] # NoOp /\ pbOp'[c] # NoOp => b = c
                      /\ \A b \in Actor : pbOp'[b] # NoOp => pbGiven \subseteq pbOp'[b].copy.answered
                      /\ (\A b \in Actor : pbOp'[b] = NoOp) => pbGiven \subseteq pbDisk.answered
    BY <1>1 DEF AnswersHeld
  <2>1. /\ \A b, c \in Actor : pbOp[b] # NoOp /\ pbOp[c] # NoOp => b = c
        /\ \A b \in Actor : pbOp[b] # NoOp => pbGiven \subseteq pbOp[b].copy.answered
    BY DEF PbInv, AnswersHeld
  <2> QED BY <1>7, <1>8, <1>9, <2>1
<1> QED BY <1>1, <1>9, <1>10, <1>11 DEF PbInv

\* A new session with the plan that was made, or without one.
LEMMA NewSessionKept ==
  ASSUME NEW made \in PbPlan, NEW profile, NEW plan \in {made, NoPlan},
         NEW st \in {"ready", "needs_input", "yielded"},
         st = "ready" => simulatePlanfile(made, made.valid, profile) = "ready" /\ plan = made
  PROVE  Kept([NoSession EXCEPT !.plan = plan, !.base = made,
                                !.sim = simulatePlanfile(made, made.valid, profile),
                                !.val = made.valid, !.pending = planQuestions(made, profile), !.status = st])
<1> DEFINE sim == simulatePlanfile(made, made.valid, profile)
           asks == planQuestions(made, profile)
           t == [NoSession EXCEPT !.plan = plan, !.base = made, !.sim = sim, !.val = made.valid,
                                  !.pending = asks, !.status = st]
<1>1. made \in PlanShape /\ NoPlan \in PlanShape
  BY BuilderAssumption DEF PlanShape, NoPlan
<1>2. made.valid \in BOOLEAN
  BY <1>1, Zenon DEF PlanShape
<1>3. /\ sim \in {"invalid", "unsafe", "needs_input", "missing_requirements", "ready"}
      /\ sim = "ready" => made.valid /\ made.risk # "destructive" /\ made.sched # "no_time"
  BY <1>1, <1>2, SimulationSays
<1>4. /\ asks \subseteq Question
      /\ made.risk = "destructive" => "destructive_action" \in asks
      /\ made.sched = "no_time" => "schedule_time" \in asks
  BY QuestionsSay
<1>5. NoPlan.valid = FALSE
  BY DEF NoPlan
<1> HIDE DEF sim, asks
<1>6. PICK v \in BOOLEAN : v = made.valid
  BY <1>2
<1>7. t = [NoSession EXCEPT !.plan = plan, !.base = made, !.sim = sim, !.val = v, !.pending = asks, !.status = st]
  BY <1>6
<1>8. NoSession \in SessionShape /\ NoSession.answered = {} /\ NoSession.models = 0
  BY NoSessionKept DEF NoSession
<1> HIDE DEF t
<1>9. /\ t \in SessionShape /\ t.plan = plan /\ t.base = made /\ t.sim = sim /\ t.pending = asks
      /\ t.models = NoSession.models /\ t.answered = NoSession.answered /\ t.status = st
  BY <1>1, <1>3, <1>4, <1>7, <1>8 DEF SessionShape
<1>10. Asked(t)
  BY <1>3, <1>4, <1>9 DEF Asked
<1>11. ReadyStands(t)
  <2> SUFFICES ASSUME st = "ready" PROVE ReadyStands(t)
    BY <1>9 DEF ReadyStands
  <2>1. plan = made /\ made.valid /\ made.risk # "destructive" /\ made.sched # "no_time"
    BY <1>3 DEF sim
  <2>2. plan # NoPlan
    BY <1>5, <2>1
  <2> QED BY <1>9, <2>1, <2>2 DEF ReadyStands
<1>12. Drift(t)
  BY <1>1, <1>9, DriftAdds DEF Drift
<1> QED BY <1>8, <1>9, <1>10, <1>11, <1>12, BuilderAssumption DEF Kept, t, sim, asks

LEMMA ComposeInv == ASSUME PbInv, NEW a \in Actor, Compose(a) PROVE PbInv'
<1>1. PICK plan \in PbPlan, profile \in PbProfiles :
        LET sim     == simulatePlanfile(plan, plan.valid, profile)
            pending == planQuestions(plan, profile)
        IN  pbDisk' = [NoSession EXCEPT
                !.plan = plan, !.base = plan, !.sim = sim, !.val = plan.valid, !.pending = pending,
                !.status = CASE sim = "ready" -> "ready"
                             [] sim = "invalid" /\ Blocking(pending) = {} -> "yielded"
                             [] OTHER -> "needs_input"]
  BY DEF Compose, Saved
<1> DEFINE sim == simulatePlanfile(plan, plan.valid, profile)
           pending == planQuestions(plan, profile)
           st == CASE sim = "ready" -> "ready"
                   [] sim = "invalid" /\ Blocking(pending) = {} -> "yielded"
                   [] OTHER -> "needs_input"
<1>2. st \in {"ready", "needs_input", "yielded"} /\ (st = "ready" => sim = "ready")
  OBVIOUS
<1>3. pbDisk' = [NoSession EXCEPT !.plan = plan, !.base = plan, !.sim = sim, !.val = plan.valid,
                                  !.pending = pending, !.status = st]
  BY <1>1
<1> HIDE DEF st
<1>4. Kept(pbDisk')
  BY <1>2, <1>3, NewSessionKept
<1> QED BY <1>4, MadeAnew DEF Compose

LEMMA ImportInv == ASSUME PbInv, NEW a \in Actor, Import(a) PROVE PbInv'
<1>1. PICK made \in PbPlan, profile \in PbProfiles :
        LET sim    == simulatePlanfile(made, made.valid, profile)
            status == CASE sim = "ready" -> "ready"
                        [] sim \in {"needs_input", "missing_requirements"} -> "needs_input"
                        [] OTHER -> "yielded"
        IN  pbDisk' = [NoSession EXCEPT
                !.plan = IF status = "yielded" THEN NoPlan ELSE made, !.base = made, !.sim = sim,
                !.val = made.valid, !.pending = planQuestions(made, profile), !.status = status]
  BY DEF Import, Saved
<1> DEFINE sim == simulatePlanfile(made, made.valid, profile)
           st == CASE sim = "ready" -> "ready"
                   [] sim \in {"needs_input", "missing_requirements"} -> "needs_input"
                   [] OTHER -> "yielded"
<1>2. st \in {"ready", "needs_input", "yielded"} /\ (st = "ready" => sim = "ready")
  OBVIOUS
<1>3. pbDisk' = [NoSession EXCEPT !.plan = IF st = "yielded" THEN NoPlan ELSE made, !.base = made, !.sim = sim,
                                  !.val = made.valid, !.pending = planQuestions(made, profile), !.status = st]
  BY <1>1
<1> HIDE DEF st
<1>4. PICK plan \in {made, NoPlan} : plan = IF st = "yielded" THEN NoPlan ELSE made
  OBVIOUS
<1>5. Kept(pbDisk')
  BY <1>2, <1>3, <1>4, NewSessionKept
<1> QED BY <1>5, MadeAnew DEF Import

LEMMA BeginInv ==
  ASSUME PbInv, NEW a \in Actor, Answer(a) \/ AcceptDefaults(a) \/ Validate(a) \/ Revise(a) \/ Edit(a)
  PROVE  PbInv'
<1>0. Kept(pbDisk) /\ pbGiven \subseteq Question /\ pbDisk.pending \subseteq Question
  BY DEF PbInv, Kept, SessionShape
<1>f. PICK no \in BOOLEAN : no = FALSE
  OBVIOUS
<1>1. CASE Answer(a)
  <2>1. PICK q \in Question, phase \in {"save", "stabilize"} :
          /\ Begin(a, phase, answerQuestion(pbDisk, q), FALSE)
          /\ pbGiven' = IF q \in pbDisk.pending THEN pbGiven \cup {q} ELSE pbGiven
    BY <1>1 DEF Answer
  <2> DEFINE copy == answerQuestion(pbDisk, q)
  <2>2. Kept(copy) /\ copy.answered = IF q \in pbDisk.pending THEN pbDisk.answered \cup {q} ELSE pbDisk.answered
    BY <1>0, AnswerKept
  <2>3. Begin(a, phase, copy, no)
    BY <1>f, <2>1
  <2> HIDE DEF copy
  <2>4. pbGiven' \subseteq Question /\ (pbGiven \subseteq pbDisk.answered => pbGiven' \subseteq copy.answered)
    BY <1>0, <2>1, <2>2
  <2> QED BY <2>2, <2>3, <2>4, Begins
<1>2. CASE AcceptDefaults(a)
  <2>1. PICK phase \in {"check", "stabilize"} : Begin(a, phase, acceptDefaultAnswers(pbDisk), FALSE)
    BY <1>2 DEF AcceptDefaults
  <2> DEFINE copy == acceptDefaultAnswers(pbDisk)
  <2>2. Kept(copy) /\ copy.answered = pbDisk.answered \cup pbDisk.pending
    BY <1>0, DefaultsKept
  <2>3. Begin(a, phase, copy, no)
    BY <1>f, <2>1
  <2> HIDE DEF copy
  <2>4. pbGiven' \subseteq Question /\ (pbGiven \subseteq pbDisk.answered => pbGiven' \subseteq copy.answered)
    BY <1>0, <1>2, <2>2 DEF AcceptDefaults
  <2> QED BY <2>2, <2>3, <2>4, Begins
<1>3. CASE Validate(a) \/ Revise(a) \/ Edit(a)
  <2>1. pbGiven' = pbGiven /\ \E phase \in {"check", "revise", "edit"}, route \in BOOLEAN :
                                  Begin(a, phase, pbDisk, route) /\ (phase = "edit" => pbDisk.plan # NoPlan)
    BY <1>3, <1>f DEF Validate, Revise, Edit
  <2>2. PICK phase \in {"check", "revise", "edit"}, route \in BOOLEAN :
          Begin(a, phase, pbDisk, route) /\ (phase = "edit" => pbDisk.plan # NoPlan)
    BY <2>1
  <2> QED BY <1>0, <2>1, <2>2, Begins
<1> QED BY <1>1, <1>2, <1>3

\* The planner is called once at most.
LEMMA CallsOnce == ASSUME NEW s, NEW route PROVE Calls(s, route) \in 0..1
BY DEF Calls

LEMMA ReviseCopyInv == ASSUME PbInv, NEW a \in Actor, ReviseCopy(a) PROVE PbInv'
<1> DEFINE s == pbOp[a].copy
           route == pbOp[a].route
<1>1. /\ pbOp[a].phase = "revise" /\ UNCHANGED <<pbGiven, pbClash, pbOps>>
      /\ \E next \in Answers(s, route) :
            Continue(a, "stabilize", revisePlan(s, route, next), Calls(s, route), 0)
  BY DEF ReviseCopy, Working
<1>2. PICK next \in Answers(s, route) : Continue(a, "stabilize", revisePlan(s, route, next), Calls(s, route), 0)
  BY <1>1
<1>3. route \in BOOLEAN /\ pbOp[a] \in OpShape
  BY Zenon DEF PbInv, OpShape
<1>4. Kept(s) /\ OpCounted(pbOp[a])
  BY DEF PbInv
<1> DEFINE t == revisePlan(s, route, next)
<1>5. Kept(t) /\ t.answered = s.answered
  BY <1>3, <1>4, RevisedKept
<1>6. Calls(s, route) \in 0..1
  BY CallsOnce
<1>7. pbOp[a].calls = 0 /\ pbOp[a].turns = 0
  BY <1>1, <1>4 DEF OpCounted
<1> HIDE DEF t, route
<1>8. pbOp[a].calls + Calls(s, route) <= pbOp[a].turns + 0 + 1 /\ pbOp[a].turns + 0 <= MaxRevisions
  BY <1>6, <1>7, BuilderAssumption
<1>9. Continue(a, "stabilize", t, Calls(s, route), 0)
  BY <1>2 DEF t
<1> QED BY <1>1, <1>5, <1>6, <1>8, <1>9, Continues

LEMMA StabilizeInv == ASSUME PbInv, NEW a \in Actor, Stabilize(a) PROVE PbInv'
<1> DEFINE op == pbOp[a]
<1>1. op.phase = "stabilize" /\ UNCHANGED <<pbGiven, pbClash, pbOps>>
  BY DEF Stabilize, Working
<1>2. op.route \in BOOLEAN
  BY Zenon DEF PbInv, OpShape
<1>3. Kept(op.copy) /\ op.calls \in Nat /\ op.turns \in Nat /\ op.calls <= op.turns + 1 /\ op.turns <= MaxRevisions
  BY DEF PbInv, OpCounted, OpShape
<1>4. CASE op.turns >= MaxRevisions /\ Continue(a, "save", yielded(op.copy), 0, 0)
  <2>1. Kept(yielded(op.copy)) /\ yielded(op.copy).answered = op.copy.answered
    BY <1>3, YieldedKept
  <2>2. pbOp[a].calls + 0 <= pbOp[a].turns + 0 + 1 /\ pbOp[a].turns + 0 <= MaxRevisions
    BY <1>3
  <2> QED BY <1>1, <1>4, <2>1, <2>2, Continues
<1>5. ASSUME op.turns < MaxRevisions, NEW profile \in PbProfiles,
             LET s == validatePlan(simulatePlan(op.copy, profile))
             IN  IF Settled(s) THEN Continue(a, "save", s, 0, 1)
                 ELSE \E next \in Answers(s, op.route) :
                        LET r == revisePlan(s, op.route, next)
                        IN  Continue(a, IF Settled(r) THEN "save" ELSE "stabilize", r, Calls(s, op.route), 1)
      PROVE  PbInv'
  <2> DEFINE s0 == simulatePlan(op.copy, profile)
             s == validatePlan(s0)
  <2>1. Kept(s0) /\ s0.answered = op.copy.answered
    BY <1>3, SimulatedKept
  <2>2. Kept(s) /\ s.answered = s0.answered
    BY <2>1, ValidatedKept DEF Kept
  <2>3. IF Settled(s) THEN Continue(a, "save", s, 0, 1)
        ELSE \E next \in Answers(s, op.route) :
               Continue(a, IF Settled(revisePlan(s, op.route, next)) THEN "save" ELSE "stabilize",
                        revisePlan(s, op.route, next), Calls(s, op.route), 1)
    BY <1>5
  <2> HIDE DEF s, s0
  <2>4. CASE Settled(s)
    <3>1. pbOp[a].calls + 0 <= pbOp[a].turns + 1 + 1 /\ pbOp[a].turns + 1 <= MaxRevisions
      BY <1>3, <1>5, BuilderAssumption
    <3>2. Continue(a, "save", s, 0, 1)
      BY <2>3, <2>4
    <3> QED BY <1>1, <2>1, <2>2, <3>1, <3>2, Continues
  <2>5. CASE ~Settled(s)
    <3>1. PICK next \in Answers(s, op.route) :
            Continue(a, IF Settled(revisePlan(s, op.route, next)) THEN "save" ELSE "stabilize",
                     revisePlan(s, op.route, next), Calls(s, op.route), 1)
      BY <2>3, <2>5
    <3> DEFINE t == revisePlan(s, op.route, next)
               n == Calls(s, op.route)
    <3>2. Kept(t) /\ t.answered = s.answered
      BY <1>2, <2>2, RevisedKept
    <3>3. n \in 0..1
      BY CallsOnce
    <3>4. PICK phase \in {"save", "stabilize"} : phase = IF Settled(t) THEN "save" ELSE "stabilize"
      OBVIOUS
    <3>5. Continue(a, phase, t, n, 1)
      BY <3>1, <3>4
    <3> HIDE DEF t, n
    <3>6. pbOp[a].calls + n <= pbOp[a].turns + 1 + 1 /\ pbOp[a].turns + 1 <= MaxRevisions
      BY <1>3, <1>5, <3>3, BuilderAssumption
    <3> QED BY <1>1, <2>1, <2>2, <3>2, <3>3, <3>5, <3>6, Continues
  <2> QED BY <2>4, <2>5
<1> QED BY <1>4, <1>5 DEF Stabilize

LEMMA CheckCopyInv == ASSUME PbInv, NEW a \in Actor, CheckCopy(a) PROVE PbInv'
<1>1. pbOp[a].phase = "check" /\ UNCHANGED <<pbGiven, pbClash, pbOps>>
  BY DEF CheckCopy, Working
<1>2. PICK profile \in PbProfiles : Continue(a, "save", validatePlan(simulatePlan(pbOp[a].copy, profile)), 0, 0)
  BY DEF CheckCopy
<1> DEFINE s0 == simulatePlan(pbOp[a].copy, profile)
           s == validatePlan(s0)
<1>3. Kept(s0) /\ s0.answered = pbOp[a].copy.answered
  BY SimulatedKept DEF PbInv
<1>4. Kept(s) /\ s.answered = s0.answered
  BY <1>3, ValidatedKept DEF Kept
<1>5. Continue(a, "save", s, 0, 0)
  BY <1>2
<1> HIDE DEF s, s0
<1>6. pbOp[a].calls + 0 <= pbOp[a].turns + 0 + 1 /\ pbOp[a].turns + 0 <= MaxRevisions
  BY <1>1, BuilderAssumption DEF PbInv, OpCounted
<1> QED BY <1>1, <1>3, <1>4, <1>5, <1>6, Continues

LEMMA EditCopyInv == ASSUME PbInv, NEW a \in Actor, EditCopy(a) PROVE PbInv'
<1> DEFINE s == pbOp[a].copy
<1>1. pbOp[a].phase = "edit" /\ UNCHANGED <<pbGiven, pbClash, pbOps>>
  BY DEF EditCopy, Working
<1>2. PICK next \in PbPlan \cup {NoPlan}, options \in SUBSET Confirmation, profile \in PbProfiles :
        LET sim      == simulatePlanfile(next, TRUE, profile)
            accepted == next # NoPlan /\ next.valid /\ safe(s.plan, next, options) /\ sim # "unsafe"
        IN  Continue(a, "save",
                IF accepted
                THEN [s EXCEPT !.plan = next, !.val = TRUE, !.sim = sim, !.unseen = FALSE,
                               !.pending = planQuestions(next, profile),
                               !.confirmed = @ \cup options,
                               !.status = IF sim = "ready" THEN "ready" ELSE "needs_input"]
                ELSE s, 0, 0)
  BY DEF EditCopy
<1>3. Kept(s) /\ OpCounted(pbOp[a]) /\ s.plan # NoPlan
  BY <1>1 DEF PbInv, OpCounted
<1>4. pbOp[a].calls + 0 <= pbOp[a].turns + 0 + 1 /\ pbOp[a].turns + 0 <= MaxRevisions
  BY <1>1, <1>3, BuilderAssumption DEF OpCounted
<1> DEFINE accepted == Accepted(s, next, options, profile)
           t == Edited(s, next, options, profile)
<1>5. CASE accepted
  <2>1. Kept(t) /\ t.answered = s.answered
    <3>1. next \in PbPlan
      BY <1>5 DEF Accepted
    <3> QED BY <1>3, <1>5, <3>1, EditedKept
  <2>2. Continue(a, "save", t, 0, 0)
    BY <1>2, <1>5 DEF Edited, Accepted
  <2> HIDE DEF t
  <2> QED BY <1>1, <1>4, <2>1, <2>2, Continues
<1>6. CASE ~accepted
  <2>1. Continue(a, "save", s, 0, 0)
    BY <1>2, <1>6 DEF Accepted
  <2> QED BY <1>1, <1>3, <1>4, <2>1, Continues
<1> QED BY <1>5, <1>6

LEMMA SaveCopyInv == ASSUME PbInv, NEW a \in Actor, SaveCopy(a) PROVE PbInv'
<1>1. /\ pbOp[a].phase = "save" /\ UNCHANGED <<pbGiven, pbClash, pbOps>>
      /\ pbDisk' = pbOp[a].copy /\ pbOp' = [pbOp EXCEPT ![a] = NoOp]
  BY DEF SaveCopy, Working, Saved
<1>2. pbOp' \in [Actor -> OpShape] /\ pbOp'[a] = NoOp /\ \A b \in Actor : b # a => pbOp'[b] = pbOp[b]
  BY <1>1, NoSessionKept DEF PbInv
<1>3. OpCounted(NoOp)
  BY BuilderAssumption DEF OpCounted, NoOp
<1>4. \A b \in Actor : Kept(pbOp'[b].copy) /\ OpCounted(pbOp'[b])
  BY <1>2, <1>3, NoSessionKept DEF PbInv
<1>5. pbOp[a] # NoOp
  BY <1>1, Busy DEF PbInv
<1>6. AnswersHeld'
  <2> SUFFICES ASSUME ~pbClash
               PROVE  /\ \A b, c \in Actor : pbOp'[b] # NoOp /\ pbOp'[c] # NoOp => b = c
                      /\ \A b \in Actor : pbOp'[b] # NoOp => pbGiven \subseteq pbOp'[b].copy.answered
                      /\ (\A b \in Actor : pbOp'[b] = NoOp) => pbGiven \subseteq pbDisk'.answered
    BY <1>1 DEF AnswersHeld
  <2>1. /\ \A b, c \in Actor : pbOp[b] # NoOp /\ pbOp[c] # NoOp => b = c
        /\ \A b \in Actor : pbOp[b] # NoOp => pbGiven \subseteq pbOp[b].copy.answered
    BY DEF PbInv, AnswersHeld
  <2> QED BY <1>1, <1>2, <1>5, <2>1
<1> QED BY <1>1, <1>2, <1>4, <1>6 DEF PbInv

-----------------------------------------------------------------------------

\* Whatever front ends answer, validate, revise, edit or compose anew, in any overlap and
\* with any answers of the model: a session that is ready has a valid plan whose risks
\* were put to the user, model calls stay within their bounds, answers are kept while
\* operations do not overlap, and what edits changed was confirmed (plan-builder-loop.ts,
\* plan-builder-session.ts, editable-planfile-reconciler.ts).
THEOREM BuilderKeepsItsWordHolds == PbSpec => []BuilderKeepsItsWord
<1>1. PbInit => PbInv
  <2> SUFFICES ASSUME PbInit PROVE PbInv
    OBVIOUS
  <2>1. OpCounted(NoOp)
    BY BuilderAssumption DEF OpCounted, NoOp
  <2>2. pbClash \in BOOLEAN
    BY Zenon DEF PbInit
  <2> QED BY <2>1, <2>2, NoSessionKept DEF PbInit, PbInv, AnswersHeld
<1>2. PbInv /\ [PbNext]_pbVars => PbInv'
  <2> SUFFICES ASSUME PbInv, [PbNext]_pbVars PROVE PbInv'
    OBVIOUS
  <2>1. CASE UNCHANGED pbVars
    BY <2>1 DEF pbVars, PbInv, AnswersHeld, Kept, Asked, ReadyStands, Drift, OpCounted
  <2>2. CASE PbNext
    BY <2>2, ComposeInv, ImportInv, BeginInv, ReviseCopyInv, StabilizeInv, CheckCopyInv, EditCopyInv, SaveCopyInv
       DEF PbNext
  <2> QED BY <2>1, <2>2
<1>3. PbInv => BuilderKeepsItsWord
  <2> SUFFICES ASSUME PbInv PROVE BuilderKeepsItsWord
    OBVIOUS
  <2>1. ReadyIsValid /\ RiskWasAsked /\ DriftConfirmed
    BY DEF PbInv, Kept, ReadyStands, Drift, ReadyIsValid, RiskWasAsked, DriftConfirmed
  <2>2. ModelCallsBounded
    <3> SUFFICES ASSUME NEW a \in Actor PROVE pbOp[a].calls <= MaxRevisions + 1
      BY DEF PbInv, Kept, ModelCallsBounded
    <3> QED BY BuilderAssumption DEF PbInv, OpCounted, OpShape
  <2>3. AnswersKept
    BY DEF PbInv, AnswersHeld, AnswersKept
  <2> QED BY <2>1, <2>2, <2>3 DEF BuilderKeepsItsWord
<1> QED BY <1>1, <1>2, <1>3, PTL DEF PbSpec

-----------------------------------------------------------------------------
(* PlanCheck: the verdicts on a plan file. *)

\* The report is one of the present plan, and what is scheduled was cleared without
\* a profile.
ReportCurrent ==
    ckReport # NoReport =>
        \E profile \in CkProfile \cup {NoProfile}, live \in BOOLEAN : ckReport = runPlanCheck(ckPlan, profile, live)

\* A record of the scheduler was made for a plan nothing blocks without a profile.
RecordCleared(r) == ~planCheckBlocksRun(runPlanCheck(r.plan, NoProfile, TRUE))

\* Two records with the same plan, cadence and time are one.
OneRecordEach ==
    \A r, s \in ckSchedules :
        <<r.plan, r.cadence, r.time>> = <<s.plan, s.cadence, s.time>> => r = s

\* What holds of the plan file, its report and the schedules at every step.
CkInv ==
    /\ ckProfile \in CkProfile \cup {NoProfile}
    /\ ReportCurrent
    /\ ckPlan = NoPlanfile => ckReport = NoReport
    /\ \A r \in ckSchedules : RecordCleared(r)
    /\ OneRecordEach

\* What blocks a plan is what is missing or a hard error.
LEMMA BlockedBy ==
    ASSUME NEW plan, NEW profile, NEW live
    PROVE  /\ planCheckBlocksRun(runPlanCheck(plan, profile, live))
                <=> hardErrors(plan) # {} \/ missingRequired(plan, profile) # {}
           /\ runPlanCheck(plan, profile, live).missing = missingRequired(plan, profile)
           /\ runPlanCheck(plan, profile, live).portability = portabilityFor(plan)
           /\ runPlanCheck(plan, profile, live).approvals = approvalRequirements(plan)
           /\ runPlanCheck(plan, profile, live).status \in
                {"unsafe", "invalid", "missing_requirements", "runnable_with_warnings"}
  BY DEF planCheckBlocksRun, runPlanCheck

\* A report is not the missing one.
LEMMA ReportExists ==
    ASSUME NEW plan, NEW profile, NEW live
    PROVE  runPlanCheck(plan, profile, live) # NoReport
<1>1. NoReport.status = "none"
  BY DEF NoReport
<1> QED BY <1>1, BlockedBy

\* A plan without hard errors.
LEMMA CleanIsSafe ==
    ASSUME NEW plan, hardErrors(plan) = {}
    PROVE  /\ plan.risk = "destructive" => plan.destructive_goal /\ plan.approval
           /\ plan.mode = "fixture" => plan.demo
           /\ Writes(plan.risk) => "n" \in approvalRequirements(plan)
<1>1. /\ "DESTRUCTIVE_GOAL_NOT_EXPLICIT" \notin issues(plan)
      /\ "INVALID_PLAN" \notin issues(plan)
  BY DEF hardErrors, issues
<1>2. plan.risk = "destructive" => plan.destructive_goal /\ plan.approval
  BY <1>1 DEF issues
<1>3. plan.mode = "fixture" => plan.demo
  BY <1>1 DEF issues
<1>4. Writes(plan.risk) => "n" \in approvalRequirements(plan)
  BY DEF issues, approvalRequirements, fromNodes
<1> QED BY <1>2, <1>3, <1>4

\* A plan that needs no provider and no credential lacks none in any profile.
LEMMA NothingNeeded ==
    ASSUME NEW plan, NEW profile, requiredProviders(plan) \ {"workspace"} = {}, plan.credentials = {}
    PROVE  missingProviders(plan, profile) = {} /\ missingCredentials(plan, profile) = {}
  BY DEF missingProviders, missingCredentials

\* Without a profile everything that is needed is missing.
LEMMA NothingThere ==
    ASSUME NEW plan
    PROVE  /\ missingProviders(plan, NoProfile) = requiredProviders(plan) \ {"workspace"}
           /\ missingCredentials(plan, NoProfile) = plan.credentials
<1>1. Enabled(NoProfile) = {} /\ NoProfile.secrets = {}
  BY DEF Enabled, NoProfile
<1>2. ~hasLiveSearchProvider(NoProfile)
  BY <1>1 DEF hasLiveSearchProvider
<1>3. missingProviders(plan, NoProfile) = requiredProviders(plan) \ {"workspace"}
  BY <1>1, <1>2 DEF missingProviders
<1> QED BY <1>1, <1>3 DEF missingCredentials

\* What a runtime lacks depends on its mode alone.
LEMMA SameMode ==
    ASSUME NEW plan, NEW here, NEW there, (here.name = "remote") = (there.name = "remote")
    PROVE  runtimeMissing(plan, here) = runtimeMissing(plan, there)
  BY DEF runtimeMissing

\* What is cleared without a profile is cleared in every local one.
LEMMA ClearedEverywhere ==
    ASSUME NEW plan, NEW profile, profile.name # "remote",
           ~planCheckBlocksRun(runPlanCheck(plan, NoProfile, TRUE))
    PROVE  ~planCheckBlocksRun(runPlanCheck(plan, profile, TRUE))
<1>1. hardErrors(plan) = {} /\ missingRequired(plan, NoProfile) = {}
  BY BlockedBy
<1>2. missingProviders(plan, NoProfile) = {} /\ missingCredentials(plan, NoProfile) = {}
  BY <1>1 DEF missingRequired
<1>3. missingProviders(plan, profile) = {} /\ missingCredentials(plan, profile) = {}
  BY <1>2, NothingThere, NothingNeeded
<1>4. NoProfile.name # "remote"
  BY DEF NoProfile
<1>5. runtimeMissing(plan, profile) <=> runtimeMissing(plan, NoProfile)
  BY <1>4 DEF runtimeMissing
<1>6. missingRequired(plan, profile) = {}
  BY <1>1, <1>2, <1>3, <1>5 DEF missingRequired
<1> QED BY <1>1, <1>6, BlockedBy

\* The simulation and the check of one plan in one profile.
LEMMA SimulationLemma ==
    ASSUME NEW plan, NEW profile
    PROVE  LET report == runPlanCheck(plan, profile, TRUE)
               sim    == simulationStatus(plan, profile)
           IN  /\ sim = "ready" => \/ ~planCheckBlocksRun(report)
                                   \/ report.missing \subseteq {"runtime.mode", "template.research.digest"}
               /\ sim = "missing_requirements" => planCheckBlocksRun(report)
               /\ sim = "needs_input" =>
                     planCheckBlocksRun(report) \/ simulationQuestions(plan, profile) = {"schedule_time"}
<1>1. CASE simulationStatus(plan, profile) = "ready"
  <2>1. missingProviders(plan, profile) = {} /\ missingCredentials(plan, profile) = {}
    BY <1>1 DEF simulationStatus
  <2>2. missingRequired(plan, profile) \subseteq {"runtime.mode", "template.research.digest"}
    BY <2>1 DEF missingRequired
  <2> QED BY <1>1, <2>2, BlockedBy
<1>2. CASE simulationStatus(plan, profile) = "missing_requirements"
  <2>1. missingProviders(plan, profile) \cup missingCredentials(plan, profile) # {}
    BY <1>2 DEF simulationStatus
  <2>2. missingRequired(plan, profile) # {}
    BY <2>1 DEF missingRequired
  <2> QED BY <1>2, <2>2, BlockedBy
<1>3. CASE simulationStatus(plan, profile) = "needs_input"
  <2>1. simulationQuestions(plan, profile) # {}
    BY <1>3 DEF simulationStatus
  <2>2. CASE "search_provider" \in simulationQuestions(plan, profile)
    <3>1. "search" \in missingProviders(plan, profile)
      BY <2>2 DEF simulationQuestions
    <3>2. missingRequired(plan, profile) # {}
      BY <3>1 DEF missingRequired
    <3> QED BY <1>3, <3>2, BlockedBy
  <2>3. CASE "search_provider" \notin simulationQuestions(plan, profile)
    <3>1. simulationQuestions(plan, profile) = {"schedule_time"}
      BY <2>1, <2>3 DEF simulationQuestions
    <3> QED BY <1>3, <3>1
  <2> QED BY <2>2, <2>3
<1> QED BY <1>1, <1>2, <1>3

\* A plan that is not bound to a profile or a machine is judged alike.
LEMMA PortableLemma ==
    ASSUME NEW plan, NEW profile, NEW other, (profile.name = "remote") = (other.name = "remote"),
           portabilityFor(plan) \in {"portable", "workspace_bound"}
    PROVE  runPlanCheck(plan, profile, TRUE).status = runPlanCheck(plan, other, TRUE).status
<1>1. plan.credentials = {} /\ requiredProviders(plan) \ {"workspace"} = {}
  BY DEF portabilityFor
<1>2. runtimeMissing(plan, profile) = runtimeMissing(plan, other)
  BY SameMode
<1>3. missingRequired(plan, profile) = missingRequired(plan, other)
  BY <1>1, <1>2, NothingNeeded DEF missingRequired
<1> QED BY <1>3 DEF runPlanCheck

\* The verdicts of a state follow from the invariant.
LEMMA VerdictsFollow == CkInv => VerdictsAgree
<1> SUFFICES ASSUME CkInv PROVE VerdictsAgree
  OBVIOUS
<1>1. ClearedIsSafe
  <2> SUFFICES ASSUME Cleared
               PROVE  /\ ckPlan.risk = "destructive" => ckPlan.destructive_goal /\ ckPlan.approval
                      /\ ckPlan.mode = "fixture" => ckPlan.demo
                      /\ Writes(ckPlan.risk) => "n" \in ckReport.approvals
    BY DEF ClearedIsSafe
  <2>1. PICK profile \in CkProfile \cup {NoProfile}, live \in BOOLEAN : ckReport = runPlanCheck(ckPlan, profile, live)
    BY DEF CkInv, ReportCurrent, Cleared
  <2>2. hardErrors(ckPlan) = {} /\ ckReport.approvals = approvalRequirements(ckPlan)
    BY <2>1, BlockedBy DEF Cleared
  <2> QED BY <2>2, CleanIsSafe
<1>2. SimulationAgrees
  BY SimulationLemma DEF SimulationAgrees
<1>3. PortableIsPortable
  <2> SUFFICES ASSUME NEW profile \in CkProfile \cup {NoProfile}, NEW other \in CkProfile \cup {NoProfile},
                      (profile.name = "remote") = (other.name = "remote")
               PROVE  /\ runPlanCheck(ckPlan, profile, TRUE).portability \in {"portable", "workspace_bound"}
                           => runPlanCheck(ckPlan, profile, TRUE).status = runPlanCheck(ckPlan, other, TRUE).status
                      /\ profile = NoProfile /\ ~planCheckBlocksRun(runPlanCheck(ckPlan, profile, TRUE))
                           => ~planCheckBlocksRun(runPlanCheck(ckPlan, other, TRUE))
    BY DEF PortableIsPortable
  <2>1. NoProfile.name # "remote"
    BY DEF NoProfile
  <2>2. profile = NoProfile => other.name # "remote"
    BY <2>1
  <2>3. runPlanCheck(ckPlan, profile, TRUE).portability = portabilityFor(ckPlan)
    BY BlockedBy
  <2>4. portabilityFor(ckPlan) \in {"portable", "workspace_bound"}
           => runPlanCheck(ckPlan, profile, TRUE).status = runPlanCheck(ckPlan, other, TRUE).status
    BY PortableLemma
  <2>5. profile = NoProfile /\ ~planCheckBlocksRun(runPlanCheck(ckPlan, profile, TRUE))
           => ~planCheckBlocksRun(runPlanCheck(ckPlan, other, TRUE))
    BY <2>2, ClearedEverywhere
  <2> QED BY <2>3, <2>4, <2>5
<1>4. ScheduleSound
  BY ClearedEverywhere DEF CkInv, RecordCleared, OneRecordEach, ScheduleSound
<1> QED BY <1>1, <1>2, <1>3, <1>4 DEF VerdictsAgree

\* The first state.
LEMMA CkInitInv == CkInit => CkInv
  BY DEF CkInit, CkInv, ReportCurrent, OneRecordEach

\* Every step: load, edit, check, schedule, and a change of profile.
LEMMA CkStepInv == CkInv /\ [CkNext]_ckVars => CkInv'
<1> SUFFICES ASSUME CkInv, [CkNext]_ckVars PROVE CkInv'
  OBVIOUS
<1>1. CASE LoadPlan
  <2>1. ckReport = NoReport
    BY <1>1 DEF LoadPlan, CkInv
  <2> QED BY <1>1, <2>1 DEF LoadPlan, CkInv, ReportCurrent, OneRecordEach
<1>2. CASE CheckPlan
  <2>1. PICK live \in BOOLEAN : ckReport' = runPlanCheck(ckPlan, ckProfile, live)
    BY <1>2 DEF CheckPlan
  <2>2. ckPlan' = ckPlan /\ ckSchedules' = ckSchedules
    BY <1>2 DEF CheckPlan
  <2> QED BY <1>2, <2>1, <2>2 DEF CkInv, ReportCurrent, CheckPlan, OneRecordEach
<1>3. CASE ProfileChanges
  BY <1>3 DEF ProfileChanges, CkInv, ReportCurrent, OneRecordEach
<1>4. CASE EditPlan
  BY <1>4 DEF EditPlan, CkInv, ReportCurrent, OneRecordEach
<1>5. CASE ScheduleCreate
  <2> DEFINE report == runPlanCheck(ckPlan, NoProfile, TRUE)
             record(c, t) == [plan |-> ckPlan, cadence |-> c, time |-> t, made |-> ckAsked]
  <2>1. PICK c \in Cadence, t \in TimeOfDay :
          /\ ckReport' = report
          /\ ckSchedules' = IF planCheckBlocksRun(report) THEN ckSchedules
                            ELSE writeScheduleRecord(ckSchedules, record(c, t))
    BY <1>5 DEF ScheduleCreate, scheduleProfile
  <2>2. ckPlan' = ckPlan
    BY <1>5 DEF ScheduleCreate
  <2>3. ReportCurrent' /\ ckProfile' \in CkProfile \cup {NoProfile}
    <3>1. TRUE \in BOOLEAN
      OBVIOUS
    <3> QED BY <1>5, <3>1, <2>1, <2>2 DEF ReportCurrent, CkInv, ScheduleCreate
  <2>4. CASE planCheckBlocksRun(report)
    <3>1. ckSchedules' = ckSchedules
      BY <2>1, <2>4
    <3> QED BY <1>5, <2>2, <2>3, <3>1 DEF CkInv, ScheduleCreate, OneRecordEach
  <2>5. CASE ~planCheckBlocksRun(report)
    <3>1. ckSchedules' =
            {r \in ckSchedules : <<r.plan, r.cadence, r.time>> # <<ckPlan, c, t>>} \cup {record(c, t)}
      BY <2>1, <2>5 DEF writeScheduleRecord
    <3>2. record(c, t).plan = ckPlan /\ record(c, t).cadence = c /\ record(c, t).time = t
      OBVIOUS
    <3>3. RecordCleared(record(c, t))
      BY <2>5, <3>2 DEF RecordCleared
    <3>4. \A r \in ckSchedules' : RecordCleared(r)
      BY <3>1, <3>3 DEF CkInv
    <3>6. OneRecordEach'
      <4> HIDE DEF record
      <4> QED BY <3>1, <3>2 DEF CkInv, OneRecordEach
    <3> QED BY <1>5, <2>2, <2>3, <3>4, <3>6 DEF CkInv, ScheduleCreate, OneRecordEach
  <2> QED BY <2>4, <2>5
<1>6. CASE UNCHANGED ckVars
  BY <1>6 DEF ckVars, CkInv, ReportCurrent, OneRecordEach
<1> QED BY <1>1, <1>2, <1>3, <1>4, <1>5, <1>6 DEF CkNext

\* Check, simulation, portability and schedule agree on a plan: what a check clears
\* is safe and complete, it simulates, a portable plan is judged alike elsewhere, and
\* a scheduled plan runs under any local profile (plan-check.ts, plan-simulation.ts,
\* plan-requirements.ts, schedule-records.ts).
THEOREM VerdictsAgreeHolds == CkSpec => []VerdictsAgree
<1>1. CkInv /\ [CkNext]_ckVars => CkInv'
  BY CkStepInv
<1>2. CkInit => CkInv
  BY CkInitInv
<1>3. CkInv => VerdictsAgree
  BY VerdictsFollow
<1> QED BY <1>1, <1>2, <1>3, PTL DEF CkSpec

-----------------------------------------------------------------------------
(* PlanLibrary: where plan files are kept. *)

\* Sequences with an element more, and with one less.
LEMMA AppendOk ==
    ASSUME NEW Name, NEW s \in Seq(Name), NEW name \in Name
    PROVE /\ Append(s, name) \in Seq(Name) /\ Len(Append(s, name)) = Len(s) + 1 /\ Len(s) \in Nat
        /\ \A i \in 1 .. Len(s) : Append(s, name)[i] = s[i]
        /\ Append(s, name)[Len(s) + 1] = name
  BY AppendProperties

\* A sequence without its last element.
LEMMA FrontOk ==
    ASSUME NEW Name, NEW s \in Seq(Name), s # <<>>
    PROVE /\ SubSeq(s, 1, Len(s) - 1) \in Seq(Name) /\ Len(SubSeq(s, 1, Len(s) - 1)) = Len(s) - 1
        /\ \A i \in 1 .. (Len(s) - 1) : SubSeq(s, 1, Len(s) - 1)[i] = s[i]
<1>1. Len(s) \in Nat /\ Len(s) # 0
  BY EmptySeq
<1>2. 1 \in 1 .. Len(s) + 1 /\ Len(s) - 1 \in (1 - 1) .. Len(s)
  BY <1>1
<1>3. SubSeq(s, 1, Len(s) - 1) \in Seq(Name)
  BY <1>1
<1>4. Len(SubSeq(s, 1, Len(s) - 1)) = Len(s) - 1
  BY <1>1
<1>5. \A i \in 1 .. (Len(s) - 1) : SubSeq(s, 1, Len(s) - 1)[i] = s[i]
  BY <1>1
<1> QED BY <1>3, <1>4, <1>5

\* ".." comes only at the head of a path.
DotsFirst(s) == \A i \in 1 .. Len(s) : s[i] = ".." => \A j \in 1 .. i : s[j] = ".."

\* A name more: it is pushed, or drops the last one.
LEMMA ResolveNameOk ==
    ASSUME NEW s \in Seq(PathName), DotsFirst(s), NEW name \in PathName
    PROVE  resolveName(s, name) \in Seq(PathName) /\ DotsFirst(resolveName(s, name))
<1>1. CASE name = ".." /\ s # <<>> /\ s[Len(s)] # ".."
  <2>1. resolveName(s, name) = SubSeq(s, 1, Len(s) - 1)
    BY <1>1 DEF resolveName
  <2>2. Len(s) \in Nat /\ Len(s) # 0
    BY <1>1
  <2>3. /\ SubSeq(s, 1, Len(s) - 1) \in Seq(PathName) /\ Len(SubSeq(s, 1, Len(s) - 1)) = Len(s) - 1
        /\ \A i \in 1 .. (Len(s) - 1) : SubSeq(s, 1, Len(s) - 1)[i] = s[i]
    BY <1>1, FrontOk
  <2> QED BY <2>1, <2>2, <2>3 DEF DotsFirst
<1>2. CASE ~ (name = ".." /\ s # <<>> /\ s[Len(s)] # "..")
  <2>1. resolveName(s, name) = Append(s, name)
    BY <1>2 DEF resolveName
  <2>2. /\ Append(s, name) \in Seq(PathName) /\ Len(Append(s, name)) = Len(s) + 1 /\ Len(s) \in Nat
        /\ \A i \in 1 .. Len(s) : Append(s, name)[i] = s[i]
        /\ Append(s, name)[Len(s) + 1] = name
    BY AppendOk
  <2>3. ASSUME NEW i \in 1 .. (Len(s) + 1), Append(s, name)[i] = "..", NEW j \in 1 .. i
        PROVE  Append(s, name)[j] = ".."
    <3>1. CASE i \in 1 .. Len(s)
      BY <2>2, <2>3, <3>1 DEF DotsFirst
    <3>2. CASE i = Len(s) + 1
      <4>1. name = ".."
        BY <2>2, <2>3, <3>2
      <4>2. CASE j = Len(s) + 1
        BY <2>2, <4>1, <4>2
      <4>3. CASE j # Len(s) + 1
        <5>1. j \in 1 .. Len(s) /\ s # <<>> /\ Len(s) \in 1 .. Len(s)
          BY <2>2, <3>2, <4>3
        <5>2. s[Len(s)] = ".."
          BY <1>2, <4>1, <5>1
        <5> QED BY <2>2, <5>1, <5>2 DEF DotsFirst
      <4> QED BY <4>2, <4>3
    <3> QED BY <2>2, <3>1, <3>2
  <2> QED BY <2>1, <2>2, <2>3 DEF DotsFirst
<1> QED BY <1>1, <1>2

\* A path, name by name.
LEMMA ResolvePathOk ==
    ASSUME NEW path \in Seq(PathName)
    PROVE  resolvePath(path) \in Seq(PathName) /\ DotsFirst(resolvePath(path))
<1> DEFINE N == Len(path)
           S == {s \in Seq(PathName) : DotsFirst(s)}
           turn == [n \in 1 .. N |-> [v \in S |-> resolveName(v, path[n])]]
           Def(f) == f = [n \in 0 .. N |-> IF n = 0 THEN <<>> ELSE resolveName(f[n - 1], path[n])]
           upTo == CHOOSE f : Def(f)
<1>1. N \in Nat /\ \A n \in 1 .. N : path[n] \in PathName
  OBVIOUS
<1>2. <<>> \in S
  BY DEF DotsFirst
<1>3. \A v \in S, n \in 1 .. N : resolveName(v, path[n]) \in S
  BY <1>1, ResolveNameOk
<1>4. resolvePath(path) = upTo[N]
  BY DEF resolvePath
<1> HIDE DEF N, S
<1>5. \E f : Def(f)
  <2>1. \A n \in 1 .. N, v \in S : turn[n][v] = resolveName(v, path[n])
    OBVIOUS
  <2> HIDE DEF turn
  <2>2. PICK f : Loop(f, N, <<>>, turn)
    BY <1>1, LoopExists
  <2>3. f \in [0 .. N -> S] /\ f[0] = <<>> /\ \A n \in 1 .. N : f[n] = turn[n][f[n - 1]]
    <3>1. \A n \in 1 .. N, v \in S : turn[n][v] \in S
      BY <1>3, <2>1
    <3> HIDE DEF Def
    <3> QED BY <1>1, <1>2, <2>2, <3>1, LoopTyped
  <2>4. \A n \in 1 .. N : n - 1 \in 0 .. N
    BY <1>1
  <2>5. \A n \in 1 .. N : f[n] = resolveName(f[n - 1], path[n])
    BY <2>1, <2>3, <2>4
  <2>6. \A n \in 0 .. N : f[n] = IF n = 0 THEN <<>> ELSE resolveName(f[n - 1], path[n])
    BY <1>1, <2>3, <2>5
  <2>7. f = [n \in 0 .. N |-> f[n]]
    BY <2>3
  <2> QED BY <2>6, <2>7
<1>6. Def(upTo)
  BY <1>5
<1> HIDE DEF upTo
<1>7. upTo[N] \in S
  <2> DEFINE P == {n \in 0 .. N : upTo[n] \in S}
  <2>1. 0 \in P
    BY <1>1, <1>2, <1>6
  <2>2. ASSUME NEW n \in 1 .. N, n - 1 \in P PROVE n \in P
    BY <1>1, <1>3, <1>6, <2>2
  <2>3. 0 .. N \subseteq P
    <3> HIDE DEF P
    <3> QED BY <1>1, <2>1, <2>2, InductionUpTo
  <2> QED BY <1>1, <2>3
<1> QED BY <1>4, <1>7 DEF S

\* A path of plain names.
PlainPath(f) == f \in Seq(PathName) /\ f # <<>> /\ ".." \notin ToSet(f)

\* What stays inside is a path of plain names.
LEMMA InsideIsPlain ==
    ASSUME NEW path \in Seq(PathName), staysInside(path)
    PROVE  PlainPath(resolvePath(path))
<1> DEFINE f == resolvePath(path)
<1>1. f \in Seq(PathName) /\ DotsFirst(f) /\ f # <<>> /\ f[1] # ".."
  BY ResolvePathOk DEF staysInside
<1> HIDE DEF f
<1>2. ASSUME NEW i \in 1 .. Len(f) PROVE f[i] # ".."
  <2>1. 1 \in 1 .. i
    OBVIOUS
  <2> QED BY <1>1, <2>1 DEF DotsFirst
<1>3. PlainPath(f)
  BY <1>1, <1>2 DEF PlainPath, ToSet
<1> QED BY <1>3 DEF f

\* The manifest of a library, with what was done by hand.
ManifestAccounts(l) ==
    /\ \A e, d \in libManifest[l] : e.file = d.file /\ e # d => <<l, e.file>> \in libAdded
    /\ \A e \in libManifest[l] : e.file \in libFiles[l] \/ <<l, e.file>> \in libAdded

\* What holds of the libraries.
LibInv ==
    /\ libRoots \subseteq Roots
    /\ libFiles \in [Roots -> SUBSET Seq(PathName)] /\ DOMAIN libManifest = Roots
    /\ \A l \in Roots : \A f \in libFiles[l] : PlainPath(f)
    /\ \A l \in Roots : ManifestAccounts(l)
    /\ SavedListedOnce

\* The property follows from the invariant.
LEMMA LibraryFollows == LibInv => LibraryAccounted
<1> SUFFICES ASSUME LibInv PROVE LibraryAccounted
  OBVIOUS
<1>1. \A n, f : LibEntry(n, f).name = n /\ LibEntry(n, f).file = f
  BY DEF LibEntry
<1>2. ASSUME NEW l \in Roots, NEW f \in libFiles[l] PROVE \E e \in listRoot(l) : e.file = f
  <2>1. CASE \E e \in libManifest[l] : e.file = f
    BY <2>1 DEF listRoot
  <2>2. CASE ~ \E e \in libManifest[l] : e.file = f
    <3>1. LibEntry(nameOf(f), f) \in listRoot(l)
      BY <2>2 DEF listRoot
    <3> QED BY <1>1, <3>1
  <2> QED BY <2>1, <2>2
<1>3. ASSUME NEW l \in Roots, NEW e \in listRoot(l)
      PROVE  \/ e \in libManifest[l]
             \/ /\ e.file \in libFiles[l] /\ e = LibEntry(nameOf(e.file), e.file)
                /\ \A d \in libManifest[l] : d.file # e.file
  <2>1. CASE e \in libManifest[l]
    BY <2>1
  <2>2. CASE e \notin libManifest[l]
    <3>1. PICK f \in libFiles[l] \ {d.file : d \in libManifest[l]} : e = LibEntry(nameOf(f), f)
      BY <2>2 DEF listRoot
    <3> QED BY <1>1, <3>1
  <2> QED BY <2>1, <2>2
<1>4. ListingAccounts
  <2>1. ASSUME NEW l \in Roots, NEW e \in listRoot(l), NEW d \in listRoot(l), e.file = d.file, e # d
        PROVE  <<l, e.file>> \in libAdded
    BY <1>3, <2>1 DEF LibInv, ManifestAccounts
  <2>2. ASSUME NEW l \in Roots, NEW e \in listRoot(l)
        PROVE  e.file \in libFiles[l] \/ <<l, e.file>> \in libAdded
    BY <1>3, <2>2 DEF LibInv, ManifestAccounts
  <2> QED BY <1>2, <2>1, <2>2 DEF ListingAccounts
<1>5. SavesInside
  BY DEF LibInv, PlainPath, SavesInside
<1> QED BY <1>4, <1>5 DEF LibInv, LibraryAccounted

\* The first state.
LEMMA LibInitInv == LibInit => LibInv
  BY DEF LibInit, LibInv, Roots, ManifestAccounts, SavedListedOnce

\* A plan is saved into a library, or refused.
LEMMA SaveKeeps ==
    ASSUME LibInv, NEW l \in Roots, NEW path \in SavePath, Save(l, path)
    PROVE  LibInv'
<1> DEFINE file == resolvePath(path)
           entry == LibEntry(nameOf(file), file)
<1>1. PlainPath(file)
  BY LibraryAssumption, InsideIsPlain DEF Save
<1>2. /\ libFiles' = [libFiles EXCEPT ![l] = libFiles[l] \cup {file}]
      /\ libManifest' = [libManifest EXCEPT ![l] = {e \in libManifest[l] : e.file # file} \cup {entry}]
      /\ libSaved' = <<l, file>> /\ libRoots' = libRoots /\ libAdded' = libAdded
  BY DEF Save, recordSavedPlan
<1>3. entry.file = file
  BY DEF LibEntry
<1> HIDE DEF file
<1>4. /\ libFiles' \in [Roots -> SUBSET Seq(PathName)] /\ DOMAIN libManifest' = Roots
      /\ libFiles'[l] = libFiles[l] \cup {file}
      /\ libManifest'[l] = {e \in libManifest[l] : e.file # file} \cup {entry}
      /\ \A k \in Roots \ {l} : libFiles'[k] = libFiles[k] /\ libManifest'[k] = libManifest[k]
  BY <1>1, <1>2 DEF LibInv, PlainPath
<1> HIDE DEF entry
<1>5. \A k \in Roots : \A f \in libFiles'[k] : PlainPath(f)
  BY <1>1, <1>4 DEF LibInv
<1>6. ASSUME NEW k \in Roots PROVE ManifestAccounts(k)'
  <2>1. CASE k = l
    BY <1>2, <1>3, <1>4, <2>1 DEF LibInv, ManifestAccounts
  <2>2. CASE k # l
    BY <1>2, <1>4, <2>2 DEF LibInv, ManifestAccounts
  <2> QED BY <2>1, <2>2
<1>7. SavedListedOnce'
  <2>1. libSaved'[1] = l /\ libSaved'[2] = file
    BY <1>2
  <2>2. file \in libFiles'[l]
    BY <1>4
  <2>3. \A n, f : LibEntry(n, f).file = f
    BY DEF LibEntry
  <2>4. {e \in listRoot(l)' : e.file = file} = {entry}
    <3>1. listRoot(l)' = libManifest'[l] \cup
            {LibEntry(nameOf(f), f) : f \in libFiles'[l] \ {e.file : e \in libManifest'[l]}}
      BY DEF listRoot
    <3>2. entry \in libManifest'[l] /\ \A e \in libManifest'[l] : e.file = file => e = entry
      BY <1>4
    <3>3. ASSUME NEW e \in {LibEntry(nameOf(f), f) : f \in libFiles'[l] \ {d.file : d \in libManifest'[l]}}
          PROVE  e.file # file
      BY <1>3, <2>3, <3>2
    <3> QED BY <1>3, <3>1, <3>2, <3>3
  <2> QED BY <2>1, <2>2, <2>4 DEF SavedListedOnce, entry
<1> QED BY <1>2, <1>4, <1>5, <1>6, <1>7 DEF LibInv

\* An entry is added by hand.
LEMMA AddEntryKeeps ==
    ASSUME LibInv, NEW l \in Roots, NEW name, NEW file, AddEntry(l, name, file)
    PROVE  LibInv'
<1> DEFINE entry == LibEntry(name, file)
<1>1. /\ libManifest' = [libManifest EXCEPT ![l] = {e \in libManifest[l] : e.name # name} \cup {entry}]
      /\ libAdded' = libAdded \cup {<<l, file>>} /\ libSaved' = NoSave
      /\ libRoots' = libRoots /\ libFiles' = libFiles
  BY DEF AddEntry
<1>2. entry.file = file
  BY DEF LibEntry
<1> HIDE DEF entry
<1>3. /\ DOMAIN libManifest' = Roots
      /\ libManifest'[l] = {e \in libManifest[l] : e.name # name} \cup {entry}
      /\ \A k \in Roots \ {l} : libManifest'[k] = libManifest[k]
  BY <1>1 DEF LibInv
<1>4. ASSUME NEW k \in Roots PROVE ManifestAccounts(k)'
  <2>1. CASE k = l
    BY <1>1, <1>2, <1>3, <2>1 DEF LibInv, ManifestAccounts
  <2>2. CASE k # l
    BY <1>1, <1>3, <2>2 DEF LibInv, ManifestAccounts
  <2> QED BY <2>1, <2>2
<1> QED BY <1>1, <1>3, <1>4 DEF LibInv, SavedListedOnce

\* A plan is removed.
LEMMA RemovePlanKeeps ==
    ASSUME LibInv, NEW from, NEW name, RemovePlan(from, name)
    PROVE  LibInv'
<1>1. PICK r \in selected(from) : \E e \in listRoot(r) :
          /\ libFiles' = [libFiles EXCEPT ![r] = libFiles[r] \ {e.file}]
          /\ libAdded' = libAdded \cup {<<r, e.file>>}
  BY DEF RemovePlan
<1>2. PICK e \in listRoot(r) :
          /\ libFiles' = [libFiles EXCEPT ![r] = libFiles[r] \ {e.file}]
          /\ libAdded' = libAdded \cup {<<r, e.file>>}
  BY <1>1
<1>3. r \in Roots /\ libManifest' = libManifest /\ libRoots' = libRoots /\ libSaved' = NoSave
  BY DEF LibInv, selected, RemovePlan
<1>4. /\ libFiles' \in [Roots -> SUBSET Seq(PathName)]
      /\ libFiles'[r] = libFiles[r] \ {e.file} /\ \A k \in Roots \ {r} : libFiles'[k] = libFiles[k]
  BY <1>2, <1>3 DEF LibInv
<1>5. ASSUME NEW k \in Roots PROVE ManifestAccounts(k)'
  <2>1. CASE k = r
    BY <1>2, <1>3, <1>4, <2>1 DEF LibInv, ManifestAccounts
  <2>2. CASE k # r
    BY <1>2, <1>3, <1>4, <2>2 DEF LibInv, ManifestAccounts
  <2> QED BY <2>1, <2>2
<1> QED BY <1>3, <1>4, <1>5 DEF LibInv, SavedListedOnce

\* A file appears beside the manifest.
LEMMA FileAppearsKeeps ==
    ASSUME LibInv, NEW l \in Roots, NEW f \in LibFile, FileAppears(l, f)
    PROVE  LibInv'
<1>1. PlainPath(f)
  BY LibraryAssumption DEF PlainPath
<1>2. /\ libFiles' = [libFiles EXCEPT ![l] = libFiles[l] \cup {f}] /\ libSaved' = NoSave
      /\ libManifest' = libManifest /\ libRoots' = libRoots /\ libAdded' = libAdded
  BY DEF FileAppears
<1>3. /\ libFiles' \in [Roots -> SUBSET Seq(PathName)]
      /\ libFiles'[l] = libFiles[l] \cup {f} /\ \A k \in Roots \ {l} : libFiles'[k] = libFiles[k]
  BY <1>1, <1>2 DEF LibInv, PlainPath
<1>4. ASSUME NEW k \in Roots PROVE ManifestAccounts(k)'
  BY <1>2, <1>3 DEF LibInv, ManifestAccounts
<1>5. \A k \in Roots : \A g \in libFiles'[k] : PlainPath(g)
  BY <1>1, <1>3 DEF LibInv
<1> QED BY <1>2, <1>3, <1>4, <1>5 DEF LibInv, SavedListedOnce

\* A library is registered or forgotten.
LEMMA RootsKeep ==
    ASSUME LibInv, libRoots' \subseteq Roots, UNCHANGED <<libFiles, libManifest, libAdded>>,
           libSaved' \in {NoSave, libSaved}
    PROVE  LibInv'
<1>1. \A k \in Roots : ManifestAccounts(k)'
  BY DEF LibInv, ManifestAccounts
<1>2. SavedListedOnce'
  BY DEF LibInv, SavedListedOnce, listRoot
<1> QED BY <1>1, <1>2 DEF LibInv

\* A library lists each plan it holds once, what it lists is there unless it was put
\* there by hand, and no save leaves it, whatever path it was given
\* (plan-library.ts).
THEOREM LibraryAccountedHolds == LibSpec => []LibraryAccounted
<1>1. LibInv /\ [LibNext]_libVars => LibInv'
  <2> SUFFICES ASSUME LibInv, [LibNext]_libVars PROVE LibInv'
    OBVIOUS
  <2>1. ASSUME NEW l \in Roots, NEW path \in SavePath, Save(l, path) PROVE LibInv'
    BY <2>1, SaveKeeps
  <2>2. ASSUME NEW l \in Roots, NEW f \in LibFile, FileAppears(l, f) PROVE LibInv'
    BY <2>2, FileAppearsKeeps
  <2>3. ASSUME NEW l \in Roots, NEW f \in LibFile, NEW g \in LibFile, AddEntry(l, nameOf(g), f) PROVE LibInv'
    BY <2>3, AddEntryKeeps
  <2>4. ASSUME NEW l \in Roots, AddLibrary(l) \/ RemoveLibrary(l) PROVE LibInv'
    BY <2>4, RootsKeep DEF AddLibrary, RemoveLibrary, LibInv
  <2>5. ASSUME NEW l \in Roots, NEW f \in LibFile, NEW from \in {l, "all"}, RemovePlan(from, nameOf(f))
        PROVE  LibInv'
    BY <2>5, RemovePlanKeeps
  <2>6. CASE UNCHANGED libVars
    BY <2>6, RootsKeep DEF libVars, LibInv
  <2> QED BY <2>1, <2>2, <2>3, <2>4, <2>5, <2>6 DEF LibNext
<1>2. LibInit => LibInv
  BY LibInitInv
<1>3. LibInv => LibraryAccounted
  BY LibraryFollows
<1> QED BY <1>1, <1>2, <1>3, PTL DEF LibSpec

-----------------------------------------------------------------------------
(* SkillBuild: a skill file becomes a workflow, a pack or nothing. *)

\* The frame of a file, or a model's in its place.
FrameOk ==
    /\ skFrame = [text |-> skFrame.text, goal |-> skFrame.goal, io |-> skFrame.io, effects |-> skFrame.effects, risk |-> skFrame.risk,
                  concerns |-> skFrame.concerns, missing |-> skFrame.missing, approval |-> skFrame.approval,
                  model |-> skFrame.model, prompt |-> skFrame.prompt]
    /\ skFrame.missing \subseteq SkillTool /\ skFrame.approval \in BOOLEAN /\ skFrame.model \in BOOLEAN
    /\ ~skFrame.model => skFrame.concerns = unsafeConcerns(skFrame.text)

\* The match is the one of the frame, and only a match decides.
SkInv ==
    /\ skPc \in {"idle", "framed", "matched", "built"}
    /\ skPc # "idle" => FrameOk
    /\ skPc \in {"matched", "built"} => skMatch = matchCapabilitiesForSkill(skFrame, snapshotFor(skFrame.risk))
    /\ SkillsStaySafe

\* The requirements a frame can give rise to.
Key == {"research", "inspect", "write", "verify", "review", "read"}

\* A set that is listed is finite.
LEMMA FewAreFinite == \A a, b, c, d, e, f : IsFiniteSet({a, b, c, d, e, f})
<1> SUFFICES ASSUME NEW a, NEW b, NEW c, NEW d, NEW e, NEW f PROVE IsFiniteSet({a, b, c, d, e, f})
  OBVIOUS
<1>1. IsFiniteSet({a})
  BY FS_Singleton
<1>2. IsFiniteSet({a} \cup {b})
  BY <1>1, FS_AddElement
<1>3. IsFiniteSet(({a} \cup {b}) \cup {c})
  BY <1>2, FS_AddElement
<1>4. IsFiniteSet((({a} \cup {b}) \cup {c}) \cup {d})
  BY <1>3, FS_AddElement
<1>5. IsFiniteSet(((({a} \cup {b}) \cup {c}) \cup {d}) \cup {e})
  BY <1>4, FS_AddElement
<1>6. IsFiniteSet((((({a} \cup {b}) \cup {c}) \cup {d}) \cup {e}) \cup {f})
  BY <1>5, FS_AddElement
<1>7. {a, b, c, d, e, f} = (((({a} \cup {b}) \cup {c}) \cup {d}) \cup {e}) \cup {f}
  OBVIOUS
<1> QED BY <1>6, <1>7

\* So are the requirements.
LEMMA KeyFinite == IsFiniteSet(Key)
  BY FewAreFinite DEF Key

\* A frame has a requirement, and each has its hints.
LEMMA RequirementShape ==
    ASSUME NEW frame
    PROVE  /\ capabilityRequirements(frame) # {}
           /\ \A r \in capabilityRequirements(frame) :
                r.key \in Key /\ IsFiniteSet(r.hints) /\ r.hints # {}
<1> DEFINE h1 == {"research", "source", "citation", "brief", "search"}
           h2 == {"list", "read", "search", "repo", "repository"}
           h3 == {"patch", "apply", "write", "repo"}
           h4 == {"verify", "verification", "test"}
           h5 == {"review", "report"}
           h6 == {"read", "search", "list"}
<1>1. /\ h1 = {"research", "source", "citation", "brief", "search", "search"}
      /\ h2 = {"list", "read", "search", "repo", "repository", "list"}
      /\ h3 = {"patch", "apply", "write", "repo", "repo", "repo"}
      /\ h4 = {"verify", "verification", "test", "test", "test", "test"}
      /\ h5 = {"review", "report", "report", "report", "report", "report"}
      /\ h6 = {"read", "search", "list", "list", "list", "list"}
  OBVIOUS
<1>2. /\ h1 # {} /\ h2 # {} /\ h3 # {} /\ h4 # {} /\ h5 # {} /\ h6 # {}
  OBVIOUS
<1>3. \A r \in capabilityRequirements(frame) :
         \/ r = Requirement("research", h1) \/ r = Requirement("inspect", h2) \/ r = Requirement("write", h3)
         \/ r = Requirement("verify", h4) \/ r = Requirement("review", h5) \/ r = Requirement("read", h6)
  BY DEF capabilityRequirements
<1>4. capabilityRequirements(frame) # {}
  BY DEF capabilityRequirements
<1> HIDE DEF h1, h2, h3, h4, h5, h6
<1>5. /\ IsFiniteSet(h1) /\ IsFiniteSet(h2) /\ IsFiniteSet(h3) /\ IsFiniteSet(h4) /\ IsFiniteSet(h5)
      /\ IsFiniteSet(h6)
  BY <1>1, FewAreFinite
<1>6. \A key, hints : Requirement(key, hints).key = key /\ Requirement(key, hints).hints = hints
  BY DEF Requirement
<1> QED BY <1>2, <1>3, <1>4, <1>5, <1>6 DEF Key

\* A score of 35 percent takes two hints of three or more, or one of two.
LEMMA ScoreNeeds ==
    ASSUME NEW c, NEW hints, IsFiniteSet(hints), hints # {}, goodEnough(scoreCapability(c, hints))
    PROVE  Cardinality(c.words \cap hints) >= (IF Cardinality(hints) > 2 THEN 2 ELSE 1)
<1> DEFINE h == Cardinality(hints)
           n == Cardinality(hints \cap c.words)
<1>1. IsFiniteSet(hints \cap c.words) /\ h \in Nat /\ h # 0
  BY FS_Subset, FS_CardinalityType, FS_EmptySet
<1>2. n \in Nat
  BY <1>1, FS_CardinalityType
<1>3. (100 * n) \div (IF h < 3 THEN h ELSE 3) >= 35
  BY DEF goodEnough, scoreCapability
<1>4. c.words \cap hints = hints \cap c.words
  OBVIOUS
<1> HIDE DEF h, n
<1>5. n >= (IF h > 2 THEN 2 ELSE 1)
  <2>1. CASE h = 1
    BY <1>2, <1>3, <2>1
  <2>2. CASE h = 2
    BY <1>2, <1>3, <2>2
  <2>3. CASE h > 2
    <3>1. (100 * n) \div 3 >= 35
      BY <1>1, <1>3, <2>3
    <3>2. n # 0 /\ n # 1
      BY <1>2, <3>1
    <3> QED BY <1>2, <2>3, <3>2
  <2> QED BY <1>1, <2>1, <2>2, <2>3
<1> QED BY <1>4, <1>5 DEF h, n

\* What a match of a snapshot holds.
LEMMA MatchOf ==
    ASSUME NEW frame, NEW risk
    PROVE  LET match == matchCapabilitiesForSkill(frame, snapshotFor(risk))
           IN  /\ \A c \in match.matches : \E i \in DOMAIN SkillCap : c = SkillCap[i] /\ skRank(c.risk) <= skRank(risk)
               /\ match.missing \subseteq Key
               /\ \A r \in capabilityRequirements(frame) : r.key \notin match.missing =>
                     \E c \in match.matches : \E i \in DOMAIN SkillCap :
                        c = SkillCap[i] /\ goodEnough(scoreCapability(c, r.hints))
<1> DEFINE match == matchCapabilitiesForSkill(frame, snapshotFor(risk))
           reqs == capabilityRequirements(frame)
<1>1. /\ match.matches = UNION {bestMatch(r, snapshotFor(risk)) : r \in reqs}
      /\ match.missing = {r.key : r \in {q \in reqs : bestMatch(q, snapshotFor(risk)) = {}}}
  BY DEF matchCapabilitiesForSkill
<1>2. ASSUME NEW r \in reqs, NEW c \in bestMatch(r, snapshotFor(risk))
      PROVE  \E i \in snapshotFor(risk) : c = SkillCap[i] /\ goodEnough(scoreCapability(c, r.hints))
  BY DEF bestMatch
<1>3. \A i \in snapshotFor(risk) : i \in DOMAIN SkillCap /\ skRank(SkillCap[i].risk) <= skRank(risk)
  BY DEF snapshotFor
<1> HIDE DEF match
<1>4. \A c \in match.matches : \E i \in DOMAIN SkillCap : c = SkillCap[i] /\ skRank(c.risk) <= skRank(risk)
  <2> SUFFICES ASSUME NEW c \in match.matches
               PROVE  \E i \in DOMAIN SkillCap : c = SkillCap[i] /\ skRank(c.risk) <= skRank(risk)
    OBVIOUS
  <2>1. PICK r \in reqs : c \in bestMatch(r, snapshotFor(risk))
    BY <1>1
  <2>2. PICK i \in snapshotFor(risk) : c = SkillCap[i]
    BY <1>2, <2>1
  <2> QED BY <1>3, <2>2
<1>5. match.missing \subseteq Key
  BY <1>1, RequirementShape
<1>6. ASSUME NEW r \in reqs, r.key \notin match.missing
      PROVE  \E c \in match.matches : \E i \in DOMAIN SkillCap :
                c = SkillCap[i] /\ goodEnough(scoreCapability(c, r.hints))
  <2>1. bestMatch(r, snapshotFor(risk)) # {}
    BY <1>1, <1>6
  <2>2. PICK c : c \in bestMatch(r, snapshotFor(risk))
    BY <2>1
  <2>3. c \in match.matches
    BY <1>1, <2>2
  <2> QED BY <1>2, <1>3, <2>2, <2>3
<1> QED BY <1>4, <1>5, <1>6 DEF match

\* The first state.
LEMMA SkInitInv == SkInit => SkInv
  BY DEF SkInit, SkInv, SkillsStaySafe, SkillWithinRisk, UnsafeNeverBuilt, NothingLeftUncovered

\* The frame of a file, with the concerns of its text.
LEMMA FrameFileKeeps ==
    ASSUME SkInv, NEW goal \in SkillGoal, NEW io \in SkillIo, NEW rest \in SkillRest,
           NEW tools \in SUBSET SkillTool, NEW destructive \in BOOLEAN, NEW approval \in BOOLEAN,
           FrameFile(goal, io, rest, tools, destructive, approval)
    PROVE  SkInv'
<1> DEFINE file == [goal |-> goal, io |-> io, rest |-> rest, tools |-> tools,
                    destructive |-> destructive, approval |-> approval]
<1>1. skPc' = "framed" /\ skFrame' = deterministicSkillFrame(file)
  BY DEF FrameFile
<1>2. /\ file.goal = goal /\ file.io = io /\ file.rest = rest /\ file.tools = tools
      /\ file.destructive = destructive /\ file.approval = approval
  BY Zenon
<1> HIDE DEF file
<1> DEFINE text == file.goal \cup file.io \cup file.rest
           effects == sideEffectsFrom(text)
           risk == riskFrom(effects, file.destructive)
           asks == skillApproval(risk, effects, file.approval)
<1>3. PICK no \in BOOLEAN : no = FALSE
  OBVIOUS
<1>4. skFrame' = [text |-> text, goal |-> file.goal, io |-> file.io, effects |-> effects, risk |-> risk,
                  concerns |-> unsafeConcerns(text), missing |-> file.tools \ KnownTool, approval |-> asks,
                  model |-> no, prompt |-> no]
  BY <1>1, <1>3, Zenon DEF deterministicSkillFrame
<1>5. asks \in BOOLEAN
  BY <1>2 DEF skillApproval
<1> HIDE DEF asks, risk, effects, text
<1>6. FrameOk'
  BY <1>2, <1>3, <1>4, <1>5 DEF FrameOk
<1> QED BY <1>1, <1>6 DEF SkInv, SkillsStaySafe, SkillWithinRisk, UnsafeNeverBuilt, NothingLeftUncovered

\* A model's frame, whatever it says.
LEMMA FrameByModelKeeps ==
    ASSUME SkInv, NEW text \in SkillRest, NEW goal \in SkillGoal, NEW io \in SkillIo, NEW risk,
           FrameByModel(text, goal, io, risk)
    PROVE  SkInv'
<1>1. PICK effects \in {{}, {"write"}}, concerns \in {{}, {"raw secret"}}, lack \in {{}, SkillTool},
           approval \in BOOLEAN, prompt \in BOOLEAN :
         skFrame' = [text |-> text, goal |-> goal, io |-> io, effects |-> effects, risk |-> risk,
                     concerns |-> concerns, missing |-> lack, approval |-> approval,
                     model |-> TRUE, prompt |-> prompt]
  BY DEF FrameByModel
<1>2. PICK yes \in BOOLEAN : yes = TRUE
  OBVIOUS
<1>3. skFrame' = [text |-> text, goal |-> goal, io |-> io, effects |-> effects, risk |-> risk,
                     concerns |-> concerns, missing |-> lack, approval |-> approval,
                     model |-> yes, prompt |-> prompt]
  BY <1>1, <1>2, Zenon
<1>4. skPc' = "framed"
  BY DEF FrameByModel
<1>5. FrameOk'
  BY <1>2, <1>3 DEF FrameOk
<1> QED BY <1>4, <1>5 DEF SkInv, SkillsStaySafe, SkillWithinRisk, UnsafeNeverBuilt, NothingLeftUncovered

\* A frame is matched against the snapshot for its risk.
LEMMA MatchKeeps ==
    ASSUME SkInv, Match
    PROVE  SkInv'
<1>1. /\ FrameOk /\ skPc' = "matched" /\ UNCHANGED <<skFrame, skResult>>
      /\ skMatch' = matchCapabilitiesForSkill(skFrame, snapshotFor(skFrame.risk))
  BY DEF SkInv, Match
<1>2. FrameOk'
  BY <1>1 DEF FrameOk
<1> QED BY <1>1, <1>2 DEF SkInv, SkillsStaySafe, SkillWithinRisk, UnsafeNeverBuilt, NothingLeftUncovered

\* The least of three and a number.
LEMMA LeastOfThree ==
    ASSUME NEW n \in Nat
    PROVE  Min({3, n}) \in Nat /\ Min({3, n}) <= 3 /\ (n # 0 => Min({3, n}) # 0)
<1>1. \E x \in {3, n} : \A y \in {3, n} : x <= y
  <2>1. CASE n <= 3
    BY <2>1
  <2>2. CASE n > 3
    BY <2>2
  <2> QED BY <2>1, <2>2
<1>2. Min({3, n}) \in {3, n} /\ \A y \in {3, n} : Min({3, n}) <= y
  BY <1>1 DEF Min
<1> QED BY <1>2

\* A pack is planned for three things at most.
LEMMA PackOfThree ==
    ASSUME NEW lack, IsFiniteSet(lack), lack # {}, NEW frame,
           NEW some \in SUBSET lack, Cardinality(some) = Min({3, Cardinality(lack)})
    PROVE  /\ proposedCapabilities(frame, some) # {} /\ Cardinality(proposedCapabilities(frame, some)) <= 3
<1>1. Cardinality(lack) \in Nat /\ Cardinality(lack) # 0 /\ IsFiniteSet(some)
  BY FS_CardinalityType, FS_EmptySet, FS_Subset
<1>2. Cardinality(some) \in Nat /\ Cardinality(some) <= 3 /\ Cardinality(some) # 0
  BY <1>1, LeastOfThree
<1>3. some # {}
  BY <1>2, FS_EmptySet
<1> DEFINE node(m) == SkNode("capability", frame.risk, frame.risk # "read", {m})
           image == {node(m) : m \in some}
<1>4. proposedCapabilities(frame, some) = image
  BY DEF proposedCapabilities
<1>5. image # {}
  BY <1>3
<1>6. IsFiniteSet(image) /\ Cardinality(image) <= Cardinality(some)
  <2> DEFINE g == [m \in some |-> node(m)]
             T == {x \in image : \E m \in some : x = g[m]}
  <2>1. T = image
    OBVIOUS
  <2>2. g \in Surjection(some, image)
    BY DEF Surjection
  <2> HIDE DEF g, image
  <2> QED BY <1>1, <2>2, FS_Surjection
<1>7. Cardinality(image) \in Nat
  BY <1>6, FS_CardinalityType
<1> HIDE DEF image
<1>8. Cardinality(image) <= 3
  BY <1>2, <1>6, <1>7
<1> QED BY <1>4, <1>5, <1>8

\* What is built of a match.
LEMMA BuildSkillKeeps ==
    ASSUME SkInv, BuildSkill
    PROVE  SkInv'
<1> DEFINE match == matchCapabilitiesForSkill(skFrame, snapshotFor(skFrame.risk))
           decision == decideSkillBuild(skFrame, skMatch)
           skill == workflowSkill(skFrame, skMatch)
           lack == skFrame.missing \cup skMatch.missing
           quote == quoted(skFrame)
<1>1. /\ FrameOk /\ skMatch = match /\ skPc' = "built"
      /\ skFrame' = skFrame /\ skMatch' = skMatch
  BY DEF SkInv, BuildSkill
<1>2. FrameOk'
  BY <1>1 DEF FrameOk
<1>3. /\ \A c \in skMatch.matches :
            \E i \in DOMAIN SkillCap : c = SkillCap[i] /\ skRank(c.risk) <= skRank(skFrame.risk)
      /\ skMatch.missing \subseteq Key
      /\ \A r \in capabilityRequirements(skFrame) : r.key \notin skMatch.missing =>
            \E c \in skMatch.matches : \E i \in DOMAIN SkillCap :
               c = SkillCap[i] /\ goodEnough(scoreCapability(c, r.hints))
  BY <1>1, MatchOf
<1>4. \A i \in DOMAIN SkillCap : SkillCap[i] \in ToSet(SkillCap)
  BY DEF ToSet
<1>5. /\ NoSkill.caps = {} /\ NoSkill.nodes = {} 
      /\ \A k : [NoSkill EXCEPT !.kind = k].caps = {} /\ [NoSkill EXCEPT !.kind = k].nodes = {}
                /\ [NoSkill EXCEPT !.kind = k].kind = k
  BY DEF NoSkill
<1>6. skFrame.concerns # {} => decision = "unsupported"
  BY DEF decideSkillBuild
<1>7. skFrame.text \cap {"bypass approval", "raw secret", "shell script"} # {} /\ ~skFrame.model => decision = "unsupported"
  BY <1>1, <1>6 DEF FrameOk, unsafeConcerns
<1>8. CASE /\ decision = "workflow_skill"
           /\ skResult' = IF validateWorkflowSkill(skill, quote, snapshotFor(skFrame.risk))
                          THEN skill ELSE [NoSkill EXCEPT !.kind = "invalid"]
  <2>1. CASE ~validateWorkflowSkill(skill, quote, snapshotFor(skFrame.risk))
    <3>1. skResult' = [NoSkill EXCEPT !.kind = "invalid"]
      BY <1>8, <2>1
    <3>2. skResult'.kind = "invalid" /\ skResult'.caps = {} /\ skResult'.nodes = {}
      BY <1>5, <3>1
    <3> QED BY <1>1, <1>2, <1>6, <1>7, <1>8, <3>2
            DEF SkInv, SkillsStaySafe, SkillWithinRisk, UnsafeNeverBuilt, NothingLeftUncovered
  <2>2. CASE validateWorkflowSkill(skill, quote, snapshotFor(skFrame.risk))
    <3>1. skResult' = skill
      BY <1>8, <2>2
    <3> DEFINE caps == {c.id : c \in skMatch.matches}
               asks == skFrame.risk # "read" \/ skFrame.approval
    <3>2. skill = [kind |-> "workflow_skill", caps |-> caps, risk |-> skFrame.risk, approval |-> asks,
                   nodes |-> planfileTemplate(skFrame, caps)]
      BY DEF workflowSkill
    <3>3. PICK ok \in BOOLEAN : ok = asks
      BY <1>1 DEF FrameOk
    <3>4. skill = [kind |-> "workflow_skill", caps |-> caps, risk |-> skFrame.risk, approval |-> ok,
                   nodes |-> planfileTemplate(skFrame, caps)]
      BY <3>2, <3>3, Zenon
    <3>5. /\ skResult'.kind = "workflow_skill" /\ skResult'.caps = caps /\ skResult'.risk = skFrame.risk
          /\ skResult'.approval = ok /\ skResult'.nodes = planfileTemplate(skFrame, caps)
      BY <3>1, <3>4
    <3>6. SkillWithinRisk'
      <4>1. ASSUME NEW id \in caps
            PROVE  \E c \in ToSet(SkillCap) : c.id = id /\ skRank(c.risk) <= skRank(skFrame.risk)
        BY <1>3, <1>4
      <4>2. ASSUME NEW n \in planfileTemplate(skFrame, caps), n.risk # "read"
            PROVE  n.approval /\ ok
        <5>1. PICK no \in BOOLEAN : no = FALSE
          OBVIOUS
        <5>2. PICK writes \in BOOLEAN : writes <=> skFrame.risk # "read"
          OBVIOUS
        <5>3. writes = (skFrame.risk # "read")
          BY <5>2
        <5>4. planfileTemplate(skFrame, caps) =
                {SkNode("frame", "read", no, {}), SkNode("inspect", "read", no, caps),
                 SkNode("design", "read", no, caps), SkNode("review", "read", no, caps),
                 SkNode("finalize", skFrame.risk, writes, caps)}
          BY <5>1, <5>3, Zenon DEF planfileTemplate
        <5>5. \A k, r, a, s : SkNode(k, r, a, s).risk = r /\ SkNode(k, r, a, s).approval = a
          BY DEF SkNode
        <5> HIDE DEF caps, asks
        <5>6. n.approval = writes /\ n.risk = skFrame.risk
          BY <4>2, <5>4, <5>5
        <5> QED BY <3>3, <4>2, <5>2, <5>6 DEF asks
      <4> HIDE DEF caps
      <4> QED BY <1>1, <3>5, <4>1, <4>2 DEF SkillWithinRisk
    <3>7. UnsafeNeverBuilt'
      <4>1. "shell script" \notin skFrame.text
        BY <2>2 DEF validateWorkflowSkill, quoted
      <4>2. SkNode("finalize", skFrame.risk, skFrame.risk # "read", caps) \in skill.nodes
        BY <3>2 DEF planfileTemplate
      <4>3. \A a : SkNode("finalize", skFrame.risk, a, caps).risk = skFrame.risk
        BY DEF SkNode
      <4>4. skFrame.risk # "destructive"
        <5> HIDE DEF skill
        <5> QED BY <2>2, <4>2, <4>3, Zenon DEF validateWorkflowSkill
      <4> QED BY <1>1, <1>6, <1>7, <1>8, <4>1, <4>4 DEF UnsafeNeverBuilt
    <3>8. NothingLeftUncovered'
      <4>1. lack = {}
        BY <1>8 DEF decideSkillBuild
      <4>2. ASSUME NEW r \in capabilityRequirements(skFrame)
            PROVE  \E c \in ToSet(SkillCap) :
                      /\ c.id \in caps
                      /\ Cardinality(c.words \cap r.hints) >= (IF Cardinality(r.hints) > 2 THEN 2 ELSE 1)
        <5>1. PICK c \in skMatch.matches : \E i \in DOMAIN SkillCap :
                 c = SkillCap[i] /\ goodEnough(scoreCapability(c, r.hints))
          BY <1>3, <4>1
        <5>2. IsFiniteSet(r.hints) /\ r.hints # {}
          BY RequirementShape
        <5>3. Cardinality(c.words \cap r.hints) >= (IF Cardinality(r.hints) > 2 THEN 2 ELSE 1)
          BY <5>1, <5>2, ScoreNeeds
        <5>4. c \in ToSet(SkillCap) /\ c.id \in caps
          BY <1>4, <5>1
        <5> QED BY <5>3, <5>4
      <4>3. skFrame.missing = {}
        BY <4>1
      <4> HIDE DEF caps
      <4> QED BY <1>1, <3>5, <4>2, <4>3 DEF NothingLeftUncovered
    <3> QED BY <1>1, <1>2, <3>6, <3>7, <3>8 DEF SkInv, SkillsStaySafe
  <2> QED BY <2>1, <2>2
<1>9. CASE /\ decision = "capability_pack_required"
           /\ \E some \in {s \in SUBSET lack : Cardinality(s) = Min({3, Cardinality(lack)})} :
                 skResult' = [NoSkill EXCEPT !.kind = "pack", !.risk = skFrame.risk,
                                 !.nodes = proposedCapabilities(skFrame, some)]
  <2>1. PICK some \in SUBSET lack :
          /\ Cardinality(some) = Min({3, Cardinality(lack)})
          /\ skResult' = [NoSkill EXCEPT !.kind = "pack", !.risk = skFrame.risk,
                              !.nodes = proposedCapabilities(skFrame, some)]
    BY <1>9
  <2>2. /\ skResult'.kind = "pack" /\ skResult'.caps = {} /\ skResult'.risk = skFrame.risk
        /\ skResult'.nodes = proposedCapabilities(skFrame, some)
    BY <2>1 DEF NoSkill
  <2>3. lack # {}
    BY <1>9 DEF decideSkillBuild
  <2>4. IsFiniteSet(lack)
    <3>1. IsFiniteSet(skFrame.missing)
      BY <1>1, SkillAssumption, FS_Subset DEF FrameOk
    <3>2. IsFiniteSet(skMatch.missing)
      BY <1>3, KeyFinite, FS_Subset
    <3> QED BY <3>1, <3>2, FS_Union
  <2>5. /\ proposedCapabilities(skFrame, some) # {} /\ Cardinality(proposedCapabilities(skFrame, some)) <= 3
    <3> HIDE DEF lack
    <3> QED BY <2>1, <2>3, <2>4, PackOfThree
  <2>6. ASSUME NEW n \in proposedCapabilities(skFrame, some), n.risk # "read"
        PROVE  n.approval
    <3>1. PICK writes \in BOOLEAN : writes <=> skFrame.risk # "read"
      OBVIOUS
    <3>2. writes = (skFrame.risk # "read")
      BY <3>1
    <3>3. proposedCapabilities(skFrame, some) = {SkNode("capability", skFrame.risk, writes, {m}) : m \in some}
      BY <3>2, Zenon DEF proposedCapabilities
    <3>4. \A k, r, a, s : SkNode(k, r, a, s).risk = r /\ SkNode(k, r, a, s).approval = a
      BY DEF SkNode
    <3>5. PICK m \in some : n = SkNode("capability", skFrame.risk, writes, {m})
      BY <2>6, <3>3
    <3>6. n.approval = writes /\ n.risk = skFrame.risk
      BY <3>4, <3>5
    <3> QED BY <2>6, <3>1, <3>6
  <2>7. SkillWithinRisk'
    BY <2>2, <2>6 DEF SkillWithinRisk
  <2>8. UnsafeNeverBuilt'
    BY <1>1, <1>6, <1>7, <1>9, <2>2 DEF UnsafeNeverBuilt
  <2>9. NothingLeftUncovered'
    BY <2>2, <2>5 DEF NothingLeftUncovered
  <2> QED BY <1>1, <1>2, <2>7, <2>8, <2>9 DEF SkInv, SkillsStaySafe
<1>10. CASE decision \in {"unsupported", "prompt_template"} /\ skResult' = [NoSkill EXCEPT !.kind = decision]
  <2>1. skResult'.kind = decision /\ skResult'.caps = {} /\ skResult'.nodes = {}
    BY <1>5, <1>10
  <2> QED BY <1>1, <1>2, <1>6, <1>7, <1>10, <2>1
          DEF SkInv, SkillsStaySafe, SkillWithinRisk, UnsafeNeverBuilt, NothingLeftUncovered
<1> QED BY <1>8, <1>9, <1>10 DEF BuildSkill

\* A skill becomes a workflow of capabilities within its risk that cover what it
\* needs, or a pack of what is missing, or nothing when its frame is unsafe, and
\* never a workflow that is destructive; for any frame of a model and any
\* registry of capabilities (capability-match.ts, skill-build-decision.ts).
THEOREM SkillsStaySafeHolds == SkSpec => []SkillsStaySafe
<1>1. SkInv /\ [SkNext]_skVars => SkInv'
  <2> SUFFICES ASSUME SkInv, [SkNext]_skVars PROVE SkInv'
    OBVIOUS
  <2>1. ASSUME NEW goal \in SkillGoal, NEW io \in SkillIo, NEW rest \in SkillRest,
               NEW tools \in SUBSET SkillTool, NEW destructive \in BOOLEAN, NEW approval \in BOOLEAN,
               FrameFile(goal, io, rest, tools, destructive, approval)
        PROVE  SkInv'
    BY <2>1, FrameFileKeeps
  <2>2. CASE UNCHANGED skVars
    BY <2>2 DEF skVars, SkInv, FrameOk, SkillsStaySafe, SkillWithinRisk, UnsafeNeverBuilt, NothingLeftUncovered
  <2>3. ASSUME NEW text \in SkillRest, NEW goal \in SkillGoal, NEW io \in SkillIo,
               NEW risk \in {"read", "write", "external_side_effect", "destructive"},
               FrameByModel(text, goal, io, risk)
        PROVE  SkInv'
    BY <2>3, FrameByModelKeeps
  <2> QED BY <2>1, <2>2, <2>3, MatchKeeps, BuildSkillKeeps DEF SkNext
<1>2. SkInit => SkInv
  BY SkInitInv
<1>3. SkInv => SkillsStaySafe
  BY DEF SkInv
<1> QED BY <1>1, <1>2, <1>3, PTL DEF SkSpec

-----------------------------------------------------------------------------
(* PackInstall: packs are installed and loaded. *)

\* A pack as it is registered.
PackShape ==
    [caps : SUBSET (UNION {s.caps : s \in PackSource}), experimental : BOOLEAN, present : BOOLEAN]

\* The manifest among the files of a pack.
Manifest(f) == [caps |-> f.caps, experimental |-> f.experimental, present |-> f.present]

\* The files of a pack: a manifest, and code.
FilesShape(f) ==
    /\ f = [caps |-> f.caps, experimental |-> f.experimental, present |-> f.present, code |-> f.code]
    /\ Manifest(f) \in PackShape

\* A pack with no risky capability without approval; what is not there has none.
PackOk(f) == f \in PackShape /\ ~unapproved(f.caps) /\ (~f.present => f.caps = {})

\* Files that are installed, and whose manifest is sound.
FilesOk(f) == FilesShape(f) /\ PackOk(Manifest(f))

\* Each capability a source declares has its file of code.
Covered(f) == \A c \in f.caps : \E g \in f.code : g.file = c.id

\* The table of a registry is whole.
Whole(reg) ==
    /\ \A c \in AllCapIds :
          /\ (c \in CoreCap <=> reg.caps[c] = "core")
          /\ reg.caps[c] \in PackIds => \E k \in reg.packs[reg.caps[c]].caps : k.id = c
    /\ \A p \in PackIds : \A k \in reg.packs[p].caps : reg.caps[k.id] = p

\* A registry is sound: approved packs and a whole table.
RegOk(reg) ==
    /\ reg \in [packs : [PackIds -> PackShape], caps : [AllCapIds -> PackIds \cup {"core", "none"}]]
    /\ \A p \in PackIds : PackOk(reg.packs[p])
    /\ Whole(reg)

\* A pack of a registry was there before, or is the installed one and may be loaded.
LoadedFrom(before, reg) ==
    \A p \in PackIds : \/ reg.packs[p] = before.packs[p]
                       \/ /\ reg.packs[p] = manifestBackedPack(pkFiles[p])
                          /\ mayLoad(pkEntry[p]) /\ pkFiles[p].present

\* An installation under way was approved, and holds the files it validated; after the
\* copy they lie where they belong.
JobOk ==
    \/ pkJob = NoJob
    \/ /\ pkJob.step \in {1, 2} /\ pkJob.id \in PackIds /\ pkJob.status \in {"pass", "requires_manual_review"}
       /\ pkJob = [step |-> pkJob.step, id |-> pkJob.id, status |-> pkJob.status, files |-> pkJob.files]
       /\ FilesOk(pkJob.files) /\ pkJob.files.present /\ Covered(pkJob.files)
       /\ pkJob.status = "pass" => \A g \in pkJob.files.code : g.finding = "none"
       /\ pkJob.step = 2 =>
             /\ pkFiles[pkJob.id].present /\ pkFiles[pkJob.id].experimental = pkJob.files.experimental
             /\ pkJob.status = "pass" => ~Flawed(pkFiles[pkJob.id])
             /\ pkStatus[pkJob.id] = pkJob.status /\ pkJob.id \in pkTouched

\* What the validator finds in a file.
KnownFindings(code) == \A g \in code : g.finding \in {"none", "error", "manual_review"}

\* What is remembered of the packs the runtime holds.
SeenShape == [status : {"none", "pass", "requires_manual_review"}, own : BOOLEAN, sound : BOOLEAN]

\* What holds of sources, files, registry file and the running registry.
PkInv ==
    /\ pkSource = [p \in PackIds |-> pkSource[p]]
    /\ \A p \in PackIds : /\ FilesShape(pkSource[p]) /\ Covered(pkSource[p])
                          /\ ~pkSource[p].present => pkSource[p].caps = {}
                          /\ KnownFindings(pkSource[p].code)
    /\ pkFiles = [p \in PackIds |-> pkFiles[p]] /\ \A p \in PackIds : FilesOk(pkFiles[p])
    /\ pkEntry \in [PackIds -> [status : {"none", "pass", "requires_manual_review"}, experimental : BOOLEAN]]
    /\ pkStatus \in [PackIds -> {"none", "pass", "requires_manual_review"}]
    /\ pkTouched \subseteq PackIds
    /\ pkSeen \in [PackIds -> SeenShape]
    /\ JobOk
    /\ RegOk([packs |-> pkPacks, caps |-> pkCaps])
    /\ TrustedPassed /\ EntryBacked

\* A capability that asks for no approval only reads.
LEMMA FilesApproved ==
    ASSUME NEW f, PackOk(f)
    PROVE  \A c \in f.caps : c.risk # "read" => c.approval
<1> SUFFICES ASSUME NEW c \in f.caps, c.risk # "read" PROVE c.approval
  OBVIOUS
<1>1. c \in UNION {s.caps : s \in PackSource}
  BY DEF PackOk, PackShape
<1>2. c.risk \in Risky
  BY <1>1, PackAssumption
<1> QED BY <1>2 DEF PackOk, unapproved

\* What a pack offers has a known id.
LEMMA IdsKnown ==
    ASSUME NEW f \in PackShape
    PROVE  \A k \in f.caps : k.id \in AllCapIds
<1> SUFFICES ASSUME NEW k \in f.caps PROVE k.id \in AllCapIds
  OBVIOUS
<1>1. k \in UNION {s.caps : s \in PackSource}
  BY DEF PackShape
<1> QED BY <1>1 DEF AllCapIds

\* One pack registered.
LEMMA RegisterPackOk ==
    ASSUME NEW reg, RegOk(reg), NEW p \in PackIds, NEW f, PackOk(f), ~reg.packs[p].present
    PROVE  /\ RegOk(registerPack(reg, p, f))
           /\ \A q \in PackIds : \/ registerPack(reg, p, f).packs[q] = reg.packs[q]
                                 \/ q = p /\ registerPack(reg, p, f).packs[q] = f
<1> DEFINE ids == {c.id : c \in f.caps}
           new == [packs |-> [reg.packs EXCEPT ![p] = f],
                   caps |-> [c \in AllCapIds |-> IF c \in ids THEN p ELSE reg.caps[c]]]
<1>1. CASE duplicateId(reg.caps, ids)
  <2>1. registerPack(reg, p, f) = reg
    BY <1>1 DEF registerPack
  <2> QED BY <2>1
<1>2. CASE ~duplicateId(reg.caps, ids)
  <2>1. registerPack(reg, p, f) = new
    BY <1>2 DEF registerPack
  <2>2. /\ reg.packs \in [PackIds -> PackShape] /\ reg.caps \in [AllCapIds -> PackIds \cup {"core", "none"}]
        /\ \A q \in PackIds : PackOk(reg.packs[q])
    BY DEF RegOk
  <2>3. /\ \A q \in PackIds : new.packs[q] = IF q = p THEN f ELSE reg.packs[q]
        /\ \A c \in AllCapIds : new.caps[c] = IF c \in ids THEN p ELSE reg.caps[c]
    BY <2>2
  <2>4. new \in [packs : [PackIds -> PackShape], caps : [AllCapIds -> PackIds \cup {"core", "none"}]]
    BY <2>2 DEF PackOk
  <2>5. \A q \in PackIds : PackOk(new.packs[q])
    BY <2>2, <2>3
  <2>6. reg.packs[p].caps = {} /\ f \in PackShape
    BY <2>2 DEF PackOk
  <2>7. \A c \in ids : c \in AllCapIds /\ reg.caps[c] = "none"
    BY <1>2, <2>6, IdsKnown DEF duplicateId
  <2>8. p # "core" /\ p # "none"
    BY PackAssumption
  <2>9. \A k \in f.caps : k.id \in ids
    OBVIOUS
  <2>10. \A c \in ids : \E k \in f.caps : k.id = c
    OBVIOUS
  <2>11. \A q \in PackIds : \A k \in reg.packs[q].caps : k.id \in AllCapIds /\ reg.caps[k.id] = q
    BY <2>2, IdsKnown DEF RegOk, Whole
  <2>12. Whole(new)
    <3> HIDE DEF new, ids
    <3>1. ASSUME NEW c \in AllCapIds PROVE c \in CoreCap <=> new.caps[c] = "core"
      BY <2>3, <2>7, <2>8 DEF RegOk, Whole
    <3>2. ASSUME NEW c \in AllCapIds, new.caps[c] \in PackIds
          PROVE  \E k \in new.packs[new.caps[c]].caps : k.id = c
      <4>1. CASE c \in ids
        BY <2>3, <2>10, <4>1
      <4>2. CASE c \notin ids
        <5>1. new.caps[c] = reg.caps[c]
          BY <2>3, <4>2
        <5>2. \E k \in reg.packs[reg.caps[c]].caps : k.id = c
          BY <3>2, <5>1 DEF RegOk, Whole
        <5>3. reg.caps[c] # p
          BY <2>6, <5>2
        <5> QED BY <2>3, <3>2, <5>1, <5>2, <5>3
      <4> QED BY <4>1, <4>2
    <3>3. ASSUME NEW q \in PackIds, NEW k \in new.packs[q].caps PROVE new.caps[k.id] = q
      <4>1. CASE q = p
        BY <2>3, <2>7, <2>9, <4>1
      <4>2. CASE q # p
        <5>1. k \in reg.packs[q].caps
          BY <2>3, <4>2
        <5>2. k.id \in AllCapIds /\ reg.caps[k.id] = q
          BY <2>11, <5>1
        <5>3. q # "none"
          BY PackAssumption
        <5> QED BY <2>3, <2>7, <5>2, <5>3
      <4> QED BY <4>1, <4>2
    <3> QED BY <3>1, <3>2, <3>3 DEF Whole
  <2> HIDE DEF new
  <2> QED BY <2>1, <2>3, <2>4, <2>5, <2>12 DEF RegOk
<1> QED BY <1>1, <1>2

\* The pack of a manifest.
LEMMA ManifestPack ==
    ASSUME NEW f, FilesOk(f), f.present
    PROVE  PackOk(manifestBackedPack(f)) /\ manifestBackedPack(f) = Manifest(f)
<1>1. f.present \in BOOLEAN
  BY DEF FilesOk, FilesShape, Manifest, PackShape
<1>2. f.present = TRUE
  BY <1>1
<1> QED BY <1>2 DEF FilesOk, Manifest, manifestBackedPack

\* One turn of the loader.
LEMMA LoadPackOk ==
    ASSUME NEW before, NEW reg, RegOk(reg), LoadedFrom(before, reg), NEW p \in PackIds,
           \A q \in PackIds : FilesOk(pkFiles[q])
    PROVE  RegOk(loadPack(reg, p)) /\ LoadedFrom(before, loadPack(reg, p))
<1>1. CASE reg.packs[p].present \/ ~mayLoad(pkEntry[p]) \/ ~pkFiles[p].present
  BY <1>1 DEF loadPack
<1>2. CASE ~ (reg.packs[p].present \/ ~mayLoad(pkEntry[p]) \/ ~pkFiles[p].present)
  <2> DEFINE pack == manifestBackedPack(pkFiles[p])
  <2>1. loadPack(reg, p) = registerPack(reg, p, pack)
    BY <1>2 DEF loadPack
  <2>2. PackOk(pack)
    BY <1>2, ManifestPack
  <2> HIDE DEF pack
  <2>3. /\ RegOk(registerPack(reg, p, pack))
        /\ \A q \in PackIds : \/ registerPack(reg, p, pack).packs[q] = reg.packs[q]
                              \/ q = p /\ registerPack(reg, p, pack).packs[q] = pack
    BY <1>2, <2>2, RegisterPackOk
  <2> QED BY <1>2, <2>1, <2>3 DEF LoadedFrom, pack
<1> QED BY <1>1, <1>2

\* The loader as a whole.
LEMMA LoadInstalledOk ==
    ASSUME NEW before, RegOk(before), \A q \in PackIds : FilesOk(pkFiles[q])
    PROVE  RegOk(loadInstalledPacks(before)) /\ LoadedFrom(before, loadInstalledPacks(before))
<1> DEFINE N == Len(PackOrder)
           S == {reg \in [packs : [PackIds -> PackShape], caps : [AllCapIds -> PackIds \cup {"core", "none"}]] :
                   RegOk(reg) /\ LoadedFrom(before, reg)}
           turn == [n \in 1 .. N |-> [v \in S |-> loadPack(v, PackOrder[n])]]
           Def(f) == f = [n \in 0 .. N |-> IF n = 0 THEN before ELSE loadPack(f[n - 1], PackOrder[n])]
           after == CHOOSE f : Def(f)
<1>1. N \in Nat /\ \A n \in 1 .. N : PackOrder[n] \in PackIds
  BY PackAssumption
<1>2. before \in S
  BY DEF RegOk, LoadedFrom
<1>3. \A v \in S, n \in 1 .. N : loadPack(v, PackOrder[n]) \in S
  BY <1>1, LoadPackOk DEF RegOk
<1>4. loadInstalledPacks(before) = IF pkTorn THEN before ELSE after[N]
  BY DEF loadInstalledPacks
<1> HIDE DEF N, S
<1>5. \E f : Def(f)
  <2>1. \A n \in 1 .. N, v \in S : turn[n][v] = loadPack(v, PackOrder[n])
    OBVIOUS
  <2> HIDE DEF turn
  <2>2. PICK f : Loop(f, N, before, turn)
    BY <1>1, LoopExists
  <2>3. f \in [0 .. N -> S] /\ f[0] = before /\ \A n \in 1 .. N : f[n] = turn[n][f[n - 1]]
    BY <1>1, <1>2, <1>3, <2>1, <2>2, LoopTyped
  <2>4. \A n \in 1 .. N : n - 1 \in 0 .. N
    BY <1>1
  <2>5. \A n \in 1 .. N : f[n] = loadPack(f[n - 1], PackOrder[n])
    BY <2>1, <2>3, <2>4
  <2>6. \A n \in 0 .. N : f[n] = IF n = 0 THEN before ELSE loadPack(f[n - 1], PackOrder[n])
    BY <1>1, <2>3, <2>5
  <2>7. f = [n \in 0 .. N |-> f[n]]
    BY <2>3
  <2> QED BY <2>6, <2>7
<1>6. Def(after)
  BY <1>5
<1> HIDE DEF after
<1>7. after[N] \in S
  <2> DEFINE P == {n \in 0 .. N : after[n] \in S}
  <2>1. 0 \in P
    BY <1>1, <1>2, <1>6
  <2>2. ASSUME NEW n \in 1 .. N, n - 1 \in P PROVE n \in P
    BY <1>1, <1>3, <1>6, <2>2
  <2>3. 0 .. N \subseteq P
    <3> HIDE DEF P
    <3> QED BY <1>1, <2>1, <2>2, InductionUpTo
  <2> QED BY <1>1, <2>3
<1> QED BY <1>2, <1>4, <1>7 DEF S

\* No pack is a pack of no capability, and no files are no pack.
LEMMA NoPackShape ==
    /\ NoPack \in PackShape /\ NoPack.caps = {} /\ NoPack.present = FALSE /\ PackOk(NoPack)
    /\ FilesOk(NoFiles) /\ NoFiles.caps = {} /\ NoFiles.code = {} /\ Covered(NoFiles)
<1>1. NoPack \in PackShape /\ NoPack.caps = {} /\ NoPack.present = FALSE
  BY DEF NoPack, PackShape
<1>2. PackOk(NoPack)
  BY <1>1 DEF PackOk, unapproved
<1>3. PICK no \in BOOLEAN : no = FALSE
  OBVIOUS
<1>4. /\ NoFiles = [caps |-> {}, experimental |-> no, present |-> no, code |-> {}]
      /\ NoPack = [caps |-> {}, experimental |-> no, present |-> no]
  BY <1>3, Zenon DEF NoFiles, NoPack
<1>5. /\ NoFiles.caps = {} /\ NoFiles.experimental = no /\ NoFiles.present = no /\ NoFiles.code = {}
      /\ NoFiles = [caps |-> NoFiles.caps, experimental |-> NoFiles.experimental,
                    present |-> NoFiles.present, code |-> NoFiles.code]
  BY <1>4
<1>6. Manifest(NoFiles) = NoPack
  BY <1>4, <1>5 DEF Manifest
<1> QED BY <1>1, <1>2, <1>5, <1>6 DEF FilesOk, FilesShape, Covered

\* A registry of core capabilities is sound.
LEMMA BareOk == RegOk(BareRegistry) /\ BareRegistry.packs = [p \in PackIds |-> NoPack]
<1>1. BareRegistry \in [packs : [PackIds -> PackShape], caps : [AllCapIds -> PackIds \cup {"core", "none"}]]
  BY NoPackShape DEF BareRegistry
<1>2. /\ \A p \in PackIds : BareRegistry.packs[p] = NoPack
      /\ \A c \in AllCapIds : BareRegistry.caps[c] = IF c \in CoreCap THEN "core" ELSE "none"
      /\ BareRegistry.packs = [p \in PackIds |-> NoPack]
  BY DEF BareRegistry
<1>3. Whole(BareRegistry)
  BY <1>2, NoPackShape, PackAssumption DEF Whole
<1> QED BY <1>1, <1>2, <1>3, NoPackShape DEF RegOk

\* The property follows from the invariant.
LEMMA TrustFollows == PkInv => InstalledPacksTrusted
<1> SUFFICES ASSUME PkInv PROVE InstalledPacksTrusted
  OBVIOUS
<1> DEFINE reg == [packs |-> pkPacks, caps |-> pkCaps]
<1>1. RegOk(reg) /\ reg.packs = pkPacks /\ reg.caps = pkCaps
  BY DEF PkInv
<1>2. ApprovalKept
  BY <1>1, FilesApproved DEF RegOk, ApprovalKept
<1>3. RegistryWhole
  <2> HIDE DEF reg
  <2> QED BY <1>1 DEF RegOk, Whole, RegistryWhole
<1> QED BY <1>2, <1>3 DEF PkInv, InstalledPacksTrusted

\* The first state.
LEMMA PkInitInv == PkInit => PkInv
<1> SUFFICES ASSUME PkInit PROVE PkInv
  OBVIOUS
<1>1. pkSource = [p \in PackIds |-> NoFiles] /\ pkFiles = [p \in PackIds |-> NoFiles]
  BY DEF PkInit
<1>2. /\ pkSource = [p \in PackIds |-> pkSource[p]]
      /\ \A p \in PackIds : /\ FilesShape(pkSource[p]) /\ Covered(pkSource[p])
                            /\ ~pkSource[p].present => pkSource[p].caps = {}
                            /\ KnownFindings(pkSource[p].code)
      /\ pkFiles = [p \in PackIds |-> pkFiles[p]] /\ \A p \in PackIds : FilesOk(pkFiles[p])
  BY <1>1, NoPackShape DEF FilesOk, KnownFindings
<1>3. /\ pkEntry \in [PackIds -> [status : {"none", "pass", "requires_manual_review"}, experimental : BOOLEAN]]
      /\ \A p \in PackIds : pkEntry[p].status = "none"
  BY DEF PkInit, NoEntry
<1>4. /\ pkStatus \in [PackIds -> {"none", "pass", "requires_manual_review"}] /\ pkTouched \subseteq PackIds
      /\ pkSeen \in [PackIds -> SeenShape] /\ JobOk
  BY DEF PkInit, JobOk, SeenShape
<1>5. [packs |-> pkPacks, caps |-> pkCaps] = BareRegistry
  BY DEF PkInit, BareRegistry
<1>6. \A p \in PackIds : pkPacks[p] = NoPack
  BY DEF PkInit
<1>7. TrustedPassed /\ EntryBacked
  BY <1>3, <1>6, NoPackShape DEF TrustedPassed, EntryBacked
<1> QED BY <1>2, <1>3, <1>4, <1>5, <1>7, BareOk DEF PkInv

\* Loading into a registry whose packs are trusted already.
LEMMA LoadIntoKeeps ==
    ASSUME PkInv, NEW before, RegOk(before), LoadInto(before),
           UNCHANGED <<pkSource, pkFiles, pkEntry, pkTorn, pkJob, pkStatus, pkTouched>>,
           \A p \in PackIds : before.packs[p].present => before.packs[p] = pkPacks[p]
    PROVE  PkInv'
<1> DEFINE reg == loadInstalledPacks(before)
<1>1. RegOk(reg) /\ LoadedFrom(before, reg)
  BY LoadInstalledOk DEF PkInv
<1>2. /\ pkPacks' = reg.packs /\ pkCaps' = reg.caps
      /\ pkSeen' = [p \in PackIds |-> IF reg.packs[p] = before.packs[p] THEN pkSeen[p]
                                      ELSE [status |-> pkStatus[p], own |-> p \notin pkTouched,
                                            sound |-> ~Flawed(pkFiles[p])]]
  BY DEF LoadInto
<1> HIDE DEF reg
<1>3. reg = [packs |-> reg.packs, caps |-> reg.caps]
  BY <1>1 DEF RegOk
<1>4. RegOk([packs |-> pkPacks, caps |-> pkCaps])'
  <2>1. RegOk(reg) <=> RegOk([packs |-> pkPacks', caps |-> pkCaps'])
    BY <1>2, <1>3
  <2> QED BY <1>1, <2>1 DEF RegOk, PackOk, Whole
<1>5. ASSUME NEW p \in PackIds, pkPacks'[p].present, pkSeen'[p].own
      PROVE  pkSeen'[p].status = "pass" /\ pkSeen'[p].sound /\ ~pkPacks'[p].experimental
  <2>1. CASE reg.packs[p] = before.packs[p]
    <3>1. pkSeen'[p] = pkSeen[p] /\ pkPacks'[p] = pkPacks[p]
      BY <1>2, <1>5, <2>1
    <3> QED BY <1>5, <3>1 DEF PkInv, TrustedPassed
  <2>2. CASE reg.packs[p] # before.packs[p]
    <3>1. pkPacks'[p] = manifestBackedPack(pkFiles[p]) /\ mayLoad(pkEntry[p])
      BY <1>1, <1>2, <2>2 DEF LoadedFrom
    <3>2. PICK now \in BOOLEAN, ok \in BOOLEAN : (now <=> p \notin pkTouched) /\ (ok <=> ~Flawed(pkFiles[p]))
      OBVIOUS
    <3>3. now = (p \notin pkTouched) /\ ok = ~Flawed(pkFiles[p])
      BY <3>2
    <3>4. pkSeen'[p] = [status |-> pkStatus[p], own |-> now, sound |-> ok]
      BY <1>2, <2>2, <3>3, Zenon
    <3>5. p \notin pkTouched
      BY <1>5, <3>2, <3>4
    <3>6. /\ pkEntry[p].status = "pass" /\ ~pkEntry[p].experimental /\ pkEntry[p].status = pkStatus[p]
          /\ pkEntry[p].experimental = pkFiles[p].experimental /\ ~Flawed(pkFiles[p])
      BY <3>1, <3>5 DEF PkInv, EntryBacked, mayLoad
    <3>7. manifestBackedPack(pkFiles[p]).experimental = pkFiles[p].experimental
      BY DEF manifestBackedPack
    <3> QED BY <3>1, <3>2, <3>4, <3>6, <3>7
  <2> QED BY <2>1, <2>2
<1>6. pkSeen' \in [PackIds -> SeenShape]
  <2>1. ASSUME NEW p \in PackIds
        PROVE  [status |-> pkStatus[p], own |-> p \notin pkTouched, sound |-> ~Flawed(pkFiles[p])] \in SeenShape
    <3>1. PICK now \in BOOLEAN, ok \in BOOLEAN : (now <=> p \notin pkTouched) /\ (ok <=> ~Flawed(pkFiles[p]))
      OBVIOUS
    <3>2. now = (p \notin pkTouched) /\ ok = ~Flawed(pkFiles[p])
      BY <3>1
    <3>3. [status |-> pkStatus[p], own |-> now, sound |-> ok] \in SeenShape
      BY DEF PkInv, SeenShape
    <3> QED BY <3>2, <3>3, Zenon
  <2> DEFINE seen(p) == [status |-> pkStatus[p], own |-> p \notin pkTouched, sound |-> ~Flawed(pkFiles[p])]
  <2>2. \A p \in PackIds : seen(p) \in SeenShape
    BY <2>1
  <2>3. \A p \in PackIds : pkSeen[p] \in SeenShape
    BY DEF PkInv
  <2>4. pkSeen' = [p \in PackIds |-> IF reg.packs[p] = before.packs[p] THEN pkSeen[p] ELSE seen(p)]
    BY <1>2, Zenon
  <2> HIDE DEF seen
  <2> QED BY <2>2, <2>3, <2>4
<1>7. TrustedPassed'
  BY <1>5 DEF TrustedPassed
<1>8. JobOk' /\ EntryBacked'
  BY DEF PkInv, JobOk, EntryBacked, Flawed
<1> QED BY <1>4, <1>6, <1>7, <1>8 DEF PkInv

\* The runtime's registry and what was seen of it are left alone.
LEMMA RuntimeKept ==
    ASSUME PkInv, UNCHANGED <<pkPacks, pkCaps, pkSeen>>
    PROVE  /\ RegOk([packs |-> pkPacks, caps |-> pkCaps])' /\ TrustedPassed'
           /\ pkSeen' \in [PackIds -> SeenShape]
<1>1. RegOk([packs |-> pkPacks, caps |-> pkCaps])'
  BY DEF PkInv, RegOk, PackOk, Whole
<1> QED BY <1>1 DEF PkInv, TrustedPassed

\* Files copied over others are there, and cover what they declare.
LEMMA CopyCovers ==
    ASSUME NEW f, NEW old, FilesShape(f), Covered(f), NEW g,
           g = [f EXCEPT !.code = CopiedOver(old, f.code)]
    PROVE  /\ FilesShape(g) /\ Covered(g) /\ Manifest(g) = Manifest(f)
           /\ g.caps = f.caps /\ g.experimental = f.experimental /\ g.present = f.present
           /\ (\A h \in f.code : h.finding = "none") => ~Flawed(g)
<1>1. f = [caps |-> f.caps, experimental |-> f.experimental, present |-> f.present, code |-> f.code]
  BY DEF FilesShape
<1>2. /\ g = [caps |-> f.caps, experimental |-> f.experimental, present |-> f.present,
              code |-> CopiedOver(old, f.code)]
      /\ g.caps = f.caps /\ g.experimental = f.experimental /\ g.present = f.present
      /\ g.code = CopiedOver(old, f.code)
  BY <1>1
<1>3. Manifest(g) = Manifest(f)
  BY <1>2 DEF Manifest
<1>4. f.code \subseteq g.code
  BY <1>2 DEF CopiedOver
<1>5. FilesShape(g)
  BY <1>2, <1>3 DEF FilesShape
<1>6. Covered(g)
  BY <1>2, <1>4 DEF Covered
<1>7. ASSUME \A h \in f.code : h.finding = "none", NEW h \in g.code, h.finding # "none", NEW c \in g.caps, c.id = h.file
      PROVE  FALSE
  <2>1. PICK k \in f.code : k.file = c.id
    BY <1>2 DEF Covered
  <2>2. h \in f.code \/ k.file # h.file
    BY <1>2, <2>1 DEF CopiedOver
  <2> QED BY <1>7, <2>1, <2>2
<1> QED BY <1>2, <1>3, <1>5, <1>6, <1>7 DEF Flawed

\* Files of a mixed copy have the one manifest or the other.
LEMMA MixedCopy ==
    ASSUME NEW f, FilesOk(f), NEW code, NEW g, g = [f EXCEPT !.code = code]
    PROVE  FilesOk(g) /\ g.present = f.present
<1>1. f = [caps |-> f.caps, experimental |-> f.experimental, present |-> f.present, code |-> f.code]
  BY DEF FilesOk, FilesShape
<1>2. /\ g = [caps |-> f.caps, experimental |-> f.experimental, present |-> f.present, code |-> code]
      /\ g.caps = f.caps /\ g.experimental = f.experimental /\ g.present = f.present /\ g.code = code
  BY <1>1
<1>3. Manifest(g) = Manifest(f)
  BY <1>2 DEF Manifest
<1> QED BY <1>2, <1>3 DEF FilesOk, FilesShape

\* What the generator writes has a manifest and covers it.
LEMMA GeneratedOk ==
    ASSUME NEW source \in PackSource
    PROVE  FilesShape(generatePackFiles(source)) /\ Covered(generatePackFiles(source))
           /\ generatePackFiles(source).present
<1> DEFINE code == {[file |-> c.id, finding |-> source.finding] : c \in source.caps}
           f == generatePackFiles(source)
<1>1. f = [caps |-> source.caps, experimental |-> source.experimental, present |-> TRUE, code |-> code]
  BY DEF generatePackFiles
<1>2. PICK yes \in BOOLEAN : yes = TRUE
  OBVIOUS
<1>3. f = [caps |-> source.caps, experimental |-> source.experimental, present |-> yes, code |-> code]
  BY <1>1, <1>2, Zenon
<1>4. ASSUME NEW c \in source.caps
      PROVE  \E g \in code : g.file = c.id
  <2> DEFINE g == [file |-> c.id, finding |-> source.finding]
  <2>1. g \in code /\ g.file = c.id
    OBVIOUS
  <2> HIDE DEF g, code
  <2> QED BY <2>1
<1> HIDE DEF f, code
<1>5. f.caps = source.caps /\ f.experimental = source.experimental /\ f.present = yes /\ f.code = code
  BY <1>3
<1>6. source.experimental \in BOOLEAN /\ source.caps \in SUBSET (UNION {s.caps : s \in PackSource})
  BY PackAssumption
<1>7. Manifest(f) = [caps |-> source.caps, experimental |-> source.experimental, present |-> yes]
  BY <1>5 DEF Manifest
<1>8. Manifest(f) \in PackShape
  BY <1>6, <1>7 DEF PackShape
<1>9. f = [caps |-> f.caps, experimental |-> f.experimental, present |-> f.present, code |-> f.code]
  BY <1>3, <1>5
<1>10. FilesShape(f) /\ Covered(f) /\ f.present
  BY <1>2, <1>4, <1>5, <1>8, <1>9 DEF FilesShape, Covered
<1> QED BY <1>10 DEF f

\* A source is written or changed.
LEMMA WriteSourceKeeps ==
    ASSUME PkInv, NEW p \in PackIds, NEW source \in PackSource, WriteSource(p, source)
    PROVE  PkInv'
<1> DEFINE made == generatePackFiles(source)
<1>1. PICK old \in {{}, pkSource[p].code} :
        pkSource' = [pkSource EXCEPT ![p] = [made EXCEPT !.code = CopiedOver(old, made.code)]]
  BY DEF WriteSource
<1> DEFINE new == [made EXCEPT !.code = CopiedOver(old, made.code)]
<1>2. FilesShape(new) /\ Covered(new) /\ new.present /\ KnownFindings(new.code)
  <2>1. FilesShape(made) /\ Covered(made) /\ made.present
    BY GeneratedOk
  <2>2. KnownFindings(made.code)
    BY PackAssumption DEF generatePackFiles, KnownFindings
  <2>3. KnownFindings(old)
    BY DEF PkInv, KnownFindings
  <2> HIDE DEF made
  <2>4. new.code = CopiedOver(old, made.code)
    BY <2>1 DEF FilesShape
  <2>5. KnownFindings(new.code)
    BY <2>2, <2>3, <2>4 DEF KnownFindings, CopiedOver
  <2> QED BY <2>1, <2>5, CopyCovers
<1> HIDE DEF made, new
<1>3. pkSource' = [pkSource EXCEPT ![p] = new]
  BY <1>1 DEF new
<1>4. /\ pkSource' = [q \in PackIds |-> pkSource'[q]]
      /\ \A q \in PackIds : pkSource'[q] = IF q = p THEN new ELSE pkSource[q]
  BY <1>3 DEF PkInv
<1>5. \A q \in PackIds : /\ FilesShape(pkSource'[q]) /\ Covered(pkSource'[q])
                         /\ ~pkSource'[q].present => pkSource'[q].caps = {}
                         /\ KnownFindings(pkSource'[q].code)
  BY <1>2, <1>4 DEF PkInv
<1>6. JobOk' /\ EntryBacked'
  BY DEF PkInv, JobOk, EntryBacked, WriteSource, Flawed
<1> QED BY <1>4, <1>5, <1>6, RuntimeKept DEF PkInv, WriteSource

\* An installation validates, and is refused or goes on.
LEMMA StartInstallKeeps ==
    ASSUME PkInv, NEW p \in PackIds, NEW leave \in BOOLEAN, NEW checks \in Checks, StartInstall(p, leave, checks)
    PROVE  PkInv'
<1> DEFINE status == validateGeneratedPack(pkSource[p], checks)
           job == [step |-> 1, id |-> p, status |-> status, files |-> pkSource[p]]
<1>1. status # "fail" /\ pkJob' = job
  BY DEF StartInstall
<1>2. status \in {"pass", "requires_manual_review"} /\ pkSource[p].present /\ ~unapproved(pkSource[p].caps)
  BY <1>1 DEF validateGeneratedPack
<1>3. FilesOk(pkSource[p]) /\ Covered(pkSource[p])
  BY <1>2 DEF FilesOk, PackOk, Manifest, FilesShape, PkInv
<1>4. status = "pass" => ~Found(pkSource[p], "error") /\ ~Found(pkSource[p], "manual_review")
  BY DEF validateGeneratedPack
<1>5. \A g \in pkSource[p].code : g.finding \in {"none", "error", "manual_review"}
  BY DEF PkInv, KnownFindings
<1> HIDE DEF status
<1>6. status = "pass" => \A g \in pkSource[p].code : g.finding = "none"
  BY <1>4, <1>5 DEF Found
<1>7. JobOk'
  <2>1. /\ job.step = 1 /\ job.id = p /\ job.status = status /\ job.files = pkSource[p]
        /\ job = [step |-> job.step, id |-> job.id, status |-> job.status, files |-> job.files]
    OBVIOUS
  <2> HIDE DEF job
  <2> QED BY <1>1, <1>2, <1>3, <1>6, <2>1 DEF JobOk
<1>8. EntryBacked'
  BY DEF PkInv, EntryBacked, StartInstall, Flawed
<1> QED BY <1>7, <1>8, RuntimeKept DEF PkInv, StartInstall

\* An entry that keeps its files keeps what it vouches for.
LEMMA EntryKept ==
    ASSUME PkInv, NEW p \in PackIds, pkEntry'[p] = pkEntry[p], pkEntry'[p].status # "none",
           \/ p \in pkTouched' /\ pkFiles'[p].present
           \/ pkFiles'[p] = pkFiles[p] /\ pkStatus'[p] = pkStatus[p] /\ (p \in pkTouched => p \in pkTouched')
    PROVE  /\ pkFiles'[p].present
           /\ p \notin pkTouched' => /\ pkEntry'[p].status = pkStatus'[p]
                                     /\ pkEntry'[p].experimental = pkFiles'[p].experimental
                                     /\ pkEntry'[p].status = "pass" => ~Flawed(pkFiles'[p])
  BY DEF PkInv, EntryBacked

\* An installation copies the files, then writes the registry file.
LEMMA ContinueInstallKeeps ==
    ASSUME PkInv, ContinueInstall
    PROVE  PkInv'
<1>1. pkJob # NoJob
  BY DEF ContinueInstall, NoJob
<1>2. /\ pkJob.step \in {1, 2} /\ pkJob.id \in PackIds /\ pkJob.status \in {"pass", "requires_manual_review"}
      /\ pkJob = [step |-> pkJob.step, id |-> pkJob.id, status |-> pkJob.status, files |-> pkJob.files]
      /\ FilesOk(pkJob.files) /\ pkJob.files.present /\ Covered(pkJob.files)
      /\ pkJob.status = "pass" => \A g \in pkJob.files.code : g.finding = "none"
      /\ pkJob.step = 2 =>
            /\ pkFiles[pkJob.id].present /\ pkFiles[pkJob.id].experimental = pkJob.files.experimental
            /\ pkJob.status = "pass" => ~Flawed(pkFiles[pkJob.id])
            /\ pkStatus[pkJob.id] = pkJob.status /\ pkJob.id \in pkTouched
  BY <1>1 DEF PkInv, JobOk
<1>3. installSteps[1] = "copy" /\ installSteps[2] = "record"
  BY DEF installSteps
<1>4. CASE pkJob.step = 1
  <2> DEFINE new == [pkJob.files EXCEPT !.code = CopiedOver(pkFiles[pkJob.id].code, pkJob.files.code)]
  <2>1. Copy /\ pkJob' = [pkJob EXCEPT !.step = 2]
    BY <1>3, <1>4 DEF ContinueInstall
  <2>2. /\ FilesShape(new) /\ Manifest(new) = Manifest(pkJob.files)
        /\ new.experimental = pkJob.files.experimental /\ new.present
        /\ pkJob.status = "pass" => ~Flawed(new)
    BY <1>2, CopyCovers DEF FilesOk
  <2>3. FilesOk(new)
    BY <1>2, <2>2 DEF FilesOk
  <2>4. /\ pkFiles' = [pkFiles EXCEPT ![pkJob.id] = new]
        /\ pkStatus' = [pkStatus EXCEPT ![pkJob.id] = pkJob.status]
        /\ pkTouched' = pkTouched \cup {pkJob.id} /\ pkEntry' = pkEntry
    BY <2>1 DEF Copy
  <2> HIDE DEF new
  <2>5. /\ pkFiles' = [p \in PackIds |-> pkFiles'[p]]
        /\ \A p \in PackIds : pkFiles'[p] = IF p = pkJob.id THEN new ELSE pkFiles[p]
        /\ pkStatus' \in [PackIds -> {"none", "pass", "requires_manual_review"}] /\ pkTouched' \subseteq PackIds
        /\ \A p \in PackIds : pkStatus'[p] = IF p = pkJob.id THEN pkJob.status ELSE pkStatus[p]
    BY <1>2, <2>4 DEF PkInv
  <2>6. \A p \in PackIds : FilesOk(pkFiles'[p])
    BY <2>3, <2>5 DEF PkInv
  <2>7. /\ pkJob'.step = 2 /\ pkJob'.id = pkJob.id /\ pkJob'.status = pkJob.status /\ pkJob'.files = pkJob.files
        /\ pkJob' = [step |-> 2, id |-> pkJob.id, status |-> pkJob.status, files |-> pkJob.files]
    BY <1>2, <2>1
  <2>8. pkFiles'[pkJob.id] = new /\ pkStatus'[pkJob.id] = pkJob.status /\ pkJob.id \in pkTouched'
    BY <1>2, <2>4, <2>5
  <2>9. JobOk'
    <3>1. /\ FilesOk(pkJob'.files) /\ Covered(pkJob'.files)
          /\ pkJob'.status = "pass" => ~Flawed(pkFiles'[pkJob'.id])
      BY <1>2, <2>2, <2>7, <2>8
    <3>2. pkFiles'[pkJob'.id].present /\ pkFiles'[pkJob'.id].experimental = pkJob'.files.experimental
      BY <2>2, <2>7, <2>8
    <3> HIDE DEF new
    <3> QED BY <1>2, <2>7, <2>8, <3>1, <3>2 DEF JobOk, FilesOk, FilesShape, PackOk, Manifest, Covered, Flawed
  <2>10. EntryBacked'
    <3> SUFFICES ASSUME NEW p \in PackIds, pkEntry'[p].status # "none"
                 PROVE  /\ pkFiles'[p].present
                        /\ p \notin pkTouched' => /\ pkEntry'[p].status = pkStatus'[p]
                                                  /\ pkEntry'[p].experimental = pkFiles'[p].experimental
                                                  /\ pkEntry'[p].status = "pass" => ~Flawed(pkFiles'[p])
      BY DEF EntryBacked, Flawed
    <3> QED BY <2>2, <2>4, <2>5, <2>8, EntryKept
  <2> QED BY <2>4, <2>5, <2>6, <2>9, <2>10, RuntimeKept
          DEF PkInv, ContinueInstall, FilesOk, FilesShape, PackOk, Manifest
<1>5. CASE pkJob.step = 2 /\ Record
  <2> DEFINE entry == [status |-> pkJob.status, experimental |-> pkJob.files.experimental]
  <2>1. pkJob' = NoJob
    BY <1>5 DEF ContinueInstall
  <2>2. /\ pkEntry' = [pkEntry EXCEPT ![pkJob.id] = entry]
        /\ pkTouched' = pkTouched \ {pkJob.id} /\ pkFiles' = pkFiles /\ pkStatus' = pkStatus
    BY <1>5 DEF Record
  <2>3. /\ entry \in [status : {"none", "pass", "requires_manual_review"}, experimental : BOOLEAN]
        /\ entry.status = pkJob.status /\ entry.experimental = pkJob.files.experimental
    BY <1>2 DEF FilesOk, FilesShape, Manifest, PackShape
  <2> HIDE DEF entry
  <2>4. /\ pkEntry' \in [PackIds -> [status : {"none", "pass", "requires_manual_review"}, experimental : BOOLEAN]]
        /\ \A p \in PackIds : pkEntry'[p] = IF p = pkJob.id THEN entry ELSE pkEntry[p]
    BY <2>2, <2>3 DEF PkInv
  <2>5. EntryBacked'
    <3> SUFFICES ASSUME NEW p \in PackIds, pkEntry'[p].status # "none"
                 PROVE  /\ pkFiles'[p].present
                        /\ p \notin pkTouched' => /\ pkEntry'[p].status = pkStatus'[p]
                                                  /\ pkEntry'[p].experimental = pkFiles'[p].experimental
                                                  /\ pkEntry'[p].status = "pass" => ~Flawed(pkFiles'[p])
      BY DEF EntryBacked, Flawed
    <3>1. CASE p = pkJob.id
      BY <1>2, <1>5, <2>2, <2>3, <2>4, <3>1
    <3>2. CASE p # pkJob.id
      BY <2>2, <2>4, <3>2, EntryKept
    <3> QED BY <3>1, <3>2
  <2>6. JobOk'
    BY <2>1 DEF JobOk
  <2> QED BY <2>2, <2>4, <2>5, <2>6, RuntimeKept DEF PkInv, ContinueInstall
<1>6. CASE pkJob.step = 2 /\ NoRegistry
  <2>1. pkJob' = NoJob /\ UNCHANGED <<pkFiles, pkEntry, pkStatus, pkTouched>>
    BY <1>6 DEF ContinueInstall, NoRegistry
  <2>2. JobOk' /\ EntryBacked'
    BY <2>1 DEF PkInv, JobOk, EntryBacked, Flawed
  <2> QED BY <2>1, <2>2, RuntimeKept DEF PkInv, ContinueInstall
<1> QED BY <1>2, <1>3, <1>4, <1>5, <1>6 DEF ContinueInstall

\* The process dies in the copy, or between the two, or in the write of the registry.
LEMMA DieKeeps ==
    ASSUME PkInv, Die
    PROVE  PkInv'
<1>1. pkJob # NoJob
  BY DEF Die, NoJob
<1>2. pkJob.id \in PackIds /\ FilesOk(pkJob.files) /\ pkJob.files.present
  BY <1>1 DEF PkInv, JobOk
<1>3. JobOk'
  BY DEF Die, JobOk
<1>4. CASE DieRecording
  <2>1. EntryBacked'
    BY <1>4 DEF PkInv, EntryBacked, Die, DieRecording, Flawed
  <2> QED BY <1>3, <1>4, <2>1, RuntimeKept DEF PkInv, Die, DieRecording
<1>5. CASE DieCopying
  <2>1. PICK manifest \in BOOLEAN, some \in SUBSET pkJob.files.code :
          pkFiles' = [pkFiles EXCEPT ![pkJob.id] =
             [(IF manifest THEN pkJob.files ELSE pkFiles[pkJob.id])
                 EXCEPT !.code = CopiedOver(pkFiles[pkJob.id].code, some)]]
    BY <1>5 DEF DieCopying
  <2> DEFINE base == IF manifest THEN pkJob.files ELSE pkFiles[pkJob.id]
             new == [base EXCEPT !.code = CopiedOver(pkFiles[pkJob.id].code, some)]
  <2>2. FilesOk(base) /\ (pkFiles[pkJob.id].present => base.present)
    BY <1>2 DEF PkInv
  <2>3. FilesOk(new) /\ (pkFiles[pkJob.id].present => new.present)
    <3> HIDE DEF base
    <3> QED BY <2>2, MixedCopy
  <2>4. pkFiles' = [pkFiles EXCEPT ![pkJob.id] = new]
    BY <2>1
  <2> HIDE DEF new, base
  <2>5. /\ pkFiles' = [p \in PackIds |-> pkFiles'[p]]
        /\ \A p \in PackIds : pkFiles'[p] = IF p = pkJob.id THEN new ELSE pkFiles[p]
    BY <1>2, <2>4 DEF PkInv
  <2>6. \A p \in PackIds : FilesOk(pkFiles'[p])
    BY <2>3, <2>5 DEF PkInv
  <2>7. pkTouched' = pkTouched \cup {pkJob.id} /\ pkEntry' = pkEntry /\ pkStatus' = pkStatus
    BY <1>5 DEF Die, DieCopying
  <2>8. EntryBacked'
    <3> SUFFICES ASSUME NEW p \in PackIds, pkEntry'[p].status # "none"
                 PROVE  /\ pkFiles'[p].present
                        /\ p \notin pkTouched' => /\ pkEntry'[p].status = pkStatus'[p]
                                                  /\ pkEntry'[p].experimental = pkFiles'[p].experimental
                                                  /\ pkEntry'[p].status = "pass" => ~Flawed(pkFiles'[p])
      BY DEF EntryBacked, Flawed
    <3>1. pkFiles[p].present
      BY <2>7 DEF PkInv, EntryBacked
    <3>2. \/ p \in pkTouched' /\ pkFiles'[p].present
          \/ pkFiles'[p] = pkFiles[p] /\ pkStatus'[p] = pkStatus[p] /\ (p \in pkTouched => p \in pkTouched')
      BY <2>3, <2>5, <2>7, <3>1
    <3> QED BY <2>7, <3>2, EntryKept
  <2> QED BY <1>2, <1>3, <2>5, <2>6, <2>7, <2>8, RuntimeKept
          DEF PkInv, Die, DieCopying, FilesOk, FilesShape, PackOk, Manifest
<1> QED BY <1>4, <1>5 DEF Die

\* A load by whatever asks for one.
LEMMA LoadKeeps ==
    ASSUME PkInv, Load, UNCHANGED <<pkSource, pkFiles, pkEntry, pkTorn, pkJob, pkStatus, pkTouched>>
    PROVE  PkInv'
<1> DEFINE before == [packs |-> pkPacks, caps |-> pkCaps]
<1>1. RegOk(before) /\ LoadInto(before) /\ before.packs = pkPacks
  BY DEF PkInv, Load
<1> HIDE DEF before
<1> QED BY <1>1, LoadIntoKeeps

\* A process starts with the core capabilities and loads.
LEMMA RestartKeeps ==
    ASSUME PkInv, Restart
    PROVE  PkInv'
<1>1. \A p \in PackIds : ~BareRegistry.packs[p].present
  BY BareOk, NoPackShape
<1>2. /\ LoadInto(BareRegistry)
      /\ UNCHANGED <<pkSource, pkFiles, pkEntry, pkTorn, pkJob, pkStatus, pkTouched>>
  BY DEF Restart
<1> QED BY <1>1, <1>2, BareOk, LoadIntoKeeps

\* Every step.
LEMMA PkStepInv == PkInv /\ [PkNext]_pkVars => PkInv'
<1> SUFFICES ASSUME PkInv, [PkNext]_pkVars PROVE PkInv'
  OBVIOUS
<1>1. ASSUME NEW p \in PackIds, NEW source \in PackSource, WriteSource(p, source) PROVE PkInv'
  BY <1>1, WriteSourceKeeps
<1>2. ASSUME NEW p \in PackIds, NEW leave \in BOOLEAN, NEW checks \in Checks, StartInstall(p, leave, checks)
      PROVE  PkInv'
  BY <1>2, StartInstallKeeps
<1>3. ASSUME NEW p \in PackIds, RunPackSmoke(p) PROVE PkInv'
  <2>1. Load /\ UNCHANGED <<pkSource, pkFiles, pkEntry, pkTorn, pkJob, pkStatus, pkTouched>>
    BY <1>3 DEF RunPackSmoke
  <2> QED BY <2>1, LoadKeeps
<1>4. CASE ContinueInstall
  BY <1>4, ContinueInstallKeeps
<1>5. CASE Die
  BY <1>5, DieKeeps
<1>6. CASE Restart
  BY <1>6, RestartKeeps
<1>7. CASE PackHealth
  <2>1. Load /\ UNCHANGED <<pkSource, pkFiles, pkEntry, pkTorn, pkJob, pkStatus, pkTouched>>
    BY <1>7 DEF PackHealth
  <2> QED BY <2>1, LoadKeeps
<1>8. CASE UNCHANGED pkVars
  <2>1. JobOk' /\ EntryBacked'
    BY <1>8 DEF pkVars, PkInv, JobOk, EntryBacked, Flawed
  <2> QED BY <1>8, <2>1, RuntimeKept DEF PkInv, pkVars
<1> QED BY <1>1, <1>2, <1>3, <1>4, <1>5, <1>6, <1>7, <1>8 DEF PkNext

\* A pack that can be called passed its validation or review and is recorded with its
\* files, its risky capabilities ask for approval, and no pack takes over another's
\* capability, for any packs in any order and a process that dies between the copy
\* and the registry file (pack-install.ts, runtime-pack-loader.ts, registry.ts).
THEOREM InstalledPacksTrustedHolds == PkSpec => []InstalledPacksTrusted
<1>1. PkInit => PkInv
  BY PkInitInv
<1>2. PkInv /\ [PkNext]_pkVars => PkInv'
  BY PkStepInv
<1>3. PkInv => InstalledPacksTrusted
  BY TrustFollows
<1> QED BY <1>1, <1>2, <1>3, PTL DEF PkSpec

-----------------------------------------------------------------------------
(* PlanComposer.  The selection is settled by scores: what the best one    *)
(* scores at least, and what the others score at most.                     *)

\* At most so many elements.
AtMost(S, n) == IsFiniteSet(S) /\ Cardinality(S) \in Nat /\ Cardinality(S) <= n

\* One element more.
LEMMA AtMostAdded ==
    ASSUME NEW S, NEW n \in Nat, AtMost(S, n), NEW x, NEW T, T = S \cup {x}
    PROVE  AtMost(T, n + 1)
<1>1. IsFiniteSet(S) /\ Cardinality(S) \in Nat /\ Cardinality(S) <= n
  BY DEF AtMost
<1>2. IsFiniteSet(T) /\ Cardinality(T) = IF x \in S THEN Cardinality(S) ELSE Cardinality(S) + 1
  BY <1>1, FS_AddElement
<1> QED BY <1>1, <1>2 DEF AtMost

\* A set of up to eight elements, however many of them are equal.
LEMMA AtMostEight ==
    ASSUME NEW a, NEW b, NEW c, NEW d, NEW e, NEW f, NEW g, NEW h
    PROVE  /\ AtMost({a, b, c, d}, 4) /\ AtMost({a, b, c, d, e}, 5) /\ AtMost({a, b, c, d, e, f}, 6)
           /\ AtMost({a, b, c, d, e, f, g, h}, 8)
<1>0. AtMost({}, 0)
  BY FS_EmptySet DEF AtMost
<1>1. AtMost({a}, 1)
  BY FS_Singleton DEF AtMost
<1>2. AtMost({a, b}, 2)
  <2>1. {a, b} = {a} \cup {b}
    OBVIOUS
  <2>2. AtMost({a, b}, 1 + 1)
    BY <1>1, <2>1, AtMostAdded, Zenon
  <2>3. 1 + 1 = 2
    OBVIOUS
  <2> QED BY <2>2, <2>3, Zenon
<1>3. AtMost({a, b, c}, 3)
  <2>1. {a, b, c} = {a, b} \cup {c}
    OBVIOUS
  <2>2. AtMost({a, b, c}, 2 + 1)
    BY <1>2, <2>1, AtMostAdded, Zenon
  <2>3. 2 + 1 = 3
    OBVIOUS
  <2> QED BY <2>2, <2>3, Zenon
<1>4. AtMost({a, b, c, d}, 4)
  <2>1. {a, b, c, d} = {a, b, c} \cup {d}
    OBVIOUS
  <2>2. AtMost({a, b, c, d}, 3 + 1)
    BY <1>3, <2>1, AtMostAdded, Zenon
  <2>3. 3 + 1 = 4
    OBVIOUS
  <2> QED BY <2>2, <2>3, Zenon
<1>5. AtMost({a, b, c, d, e}, 5)
  <2>1. {a, b, c, d, e} = {a, b, c, d} \cup {e}
    OBVIOUS
  <2>2. AtMost({a, b, c, d, e}, 4 + 1)
    BY <1>4, <2>1, AtMostAdded, Zenon
  <2>3. 4 + 1 = 5
    OBVIOUS
  <2> QED BY <2>2, <2>3, Zenon
<1>6. AtMost({a, b, c, d, e, f}, 6)
  <2>1. {a, b, c, d, e, f} = {a, b, c, d, e} \cup {f}
    OBVIOUS
  <2>2. AtMost({a, b, c, d, e, f}, 5 + 1)
    BY <1>5, <2>1, AtMostAdded, Zenon
  <2>3. 5 + 1 = 6
    OBVIOUS
  <2> QED BY <2>2, <2>3, Zenon
<1>7. AtMost({a, b, c, d, e, f, g}, 7)
  <2>1. {a, b, c, d, e, f, g} = {a, b, c, d, e, f} \cup {g}
    OBVIOUS
  <2>2. AtMost({a, b, c, d, e, f, g}, 6 + 1)
    BY <1>6, <2>1, AtMostAdded, Zenon
  <2>3. 6 + 1 = 7
    OBVIOUS
  <2> QED BY <2>2, <2>3, Zenon
<1>8. AtMost({a, b, c, d, e, f, g, h}, 8)
  <2>1. {a, b, c, d, e, f, g, h} = {a, b, c, d, e, f, g} \cup {h}
    OBVIOUS
  <2>2. AtMost({a, b, c, d, e, f, g, h}, 7 + 1)
    BY <1>7, <2>1, AtMostAdded, Zenon
  <2>3. 7 + 1 = 8
    OBVIOUS
  <2> QED BY <2>2, <2>3, Zenon
<1> QED BY <1>4, <1>5, <1>6, <1>8

\* No part of a set has more.
LEMMA AtMostOf ==
    ASSUME NEW S, NEW n \in Nat, AtMost(S, n), NEW X
    PROVE  AtMost(S \cap X, n)
<1>1. IsFiniteSet(S) /\ Cardinality(S) \in Nat /\ Cardinality(S) <= n /\ S \cap X \subseteq S
  BY DEF AtMost
<1>2. IsFiniteSet(S \cap X) /\ Cardinality(S \cap X) <= Cardinality(S)
  BY <1>1, FS_Subset
<1>3. Cardinality(S \cap X) \in Nat
  BY <1>2, FS_CardinalityType
<1> QED BY <1>1, <1>2, <1>3 DEF AtMost

\* Three words that are all there.
LEMMA ThreeFound ==
    ASSUME NEW S, NEW n \in Nat, AtMost(S, n), NEW a, NEW b, NEW c, a # b, b # c, a # c, {a, b, c} \subseteq S
    PROVE  Cardinality(S) >= 3 /\ Cardinality(S) \in Nat
<1>1. IsFiniteSet(S) /\ Cardinality(S) \in Nat
  BY DEF AtMost
<1>2. IsFiniteSet({a}) /\ Cardinality({a}) = 1
  BY FS_Singleton
<1>3. IsFiniteSet({a} \cup {b}) /\ Cardinality({a} \cup {b}) = 2
  BY <1>2, FS_AddElement
<1>4. Cardinality(({a} \cup {b}) \cup {c}) = 3
  BY <1>3, FS_AddElement
<1>5. ({a} \cup {b}) \cup {c} \subseteq S
  OBVIOUS
<1>6. Cardinality(({a} \cup {b}) \cup {c}) <= Cardinality(S)
  BY <1>1, <1>5, FS_Subset
<1> QED BY <1>1, <1>4, <1>6

\* The score of a template, by the parts of it.
LEMMA ScoreIs ==
    ASSUME NEW intent, NEW t
    PROVE  LET text == intent.prompt \cup intent.goal
               out  == isOutputPrompt(text)
           IN  templateScore(intent, t)
               = (IF intent.domain \in t.domains THEN 4 ELSE 0) + (IF t.output = intent.output THEN 2 ELSE 0)
                 + Cardinality(t.patterns \cap text)
                 + ((IF intent.domain = "research" /\ "http" \in intent.prompt /\ t.id = "research.url_summary" THEN 5 ELSE 0)
                    + (IF intent.domain = "research" /\ ~("http" \in intent.prompt) /\ t.id = "research.topic_brief" THEN 3 ELSE 0))
                 + (IF intent.domain = "repository" /\ t.id = "repository.plan_to_patch" THEN 3 ELSE 0)
                 + (IF out /\ t \in Range(outputTemplates) THEN 5 ELSE 0)
                 + (IF out /\ "research" \in text /\ t.id = "output.research_packet" THEN 3 ELSE 0)
                 + (IF out /\ text \cap {"developer", "patch", "handoff"} # {} /\ t.id = "output.developer_packet" THEN 3 ELSE 0)
  BY Zenon DEF templateScore, researchBonus, Points

\* What is said of a template: what it is for, and who may be chosen for it.
Described(t, id, domains, output) == t.id = id /\ t.domains = domains /\ t.output = output

\* The templates in the order of their ids.
LEMMA ListedTemplates ==
    /\ DOMAIN ById = 1 .. 7
    /\ ById[1] = outputTemplates.developer /\ ById[2] = outputTemplates.digest /\ ById[3] = outputTemplates.research
    /\ ById[4] = patchTemplate /\ ById[5] = digestTemplate
    /\ ById[6] = researchTemplates.topic /\ ById[7] = researchTemplates.url
<1> DEFINE a == outputTemplates.developer
           b == outputTemplates.digest
           c == outputTemplates.research
           d == researchTemplates.topic
           e == researchTemplates.url
<1>1. ById = <<a, b, c, patchTemplate, digestTemplate, d, e>>
  BY Zenon DEF ById
<1> HIDE DEF a, b, c, d, e
<1>2. /\ DOMAIN ById = 1 .. 7 /\ ById[1] = a /\ ById[2] = b /\ ById[3] = c /\ ById[4] = patchTemplate
      /\ ById[5] = digestTemplate /\ ById[6] = d /\ ById[7] = e
  BY <1>1
<1> QED BY <1>2 DEF a, b, c, d, e

\* What each is.
LEMMA TemplatesAre ==
    /\ Described(ById[1], "output.developer_packet", {"generic", "repository"}, "run_packet")
    /\ Described(ById[2], "output.digest", {"generic", "repository", "research"}, "run_digest")
    /\ Described(ById[3], "output.research_packet", {"generic", "research"}, "run_packet")
    /\ Described(ById[4], "repository.plan_to_patch", {"repository"}, "git_patch")
    /\ Described(ById[5], "research.digest", {"research"}, "markdown_brief")
    /\ Described(ById[6], "research.topic_brief", {"research"}, "markdown_brief")
    /\ Described(ById[7], "research.url_summary", {"research"}, "markdown_brief")
  BY ListedTemplates DEF Described, outputTemplates, researchTemplates, patchTemplate, digestTemplate

\* Only the first three are made from outputs.
LEMMA OutputTemplatesAre ==
    ASSUME NEW i \in {4, 5, 6, 7}
    PROVE  ById[i] \notin Range(outputTemplates)
<1>1. DOMAIN outputTemplates = {"research", "developer", "digest"}
  BY DEF outputTemplates
<1>2. \A k \in DOMAIN outputTemplates : outputTemplates[k] \in {ById[1], ById[2], ById[3]}
  BY <1>1, ListedTemplates
<1>3. \A t \in {ById[1], ById[2], ById[3]} : t.id # ById[i].id
  BY TemplatesAre DEF Described
<1> QED BY <1>2, <1>3 DEF Range

\* How many words each looks for.
LEMMA PatternsAre ==
    /\ AtMost(ById[1].patterns, 6) /\ AtMost(ById[2].patterns, 5) /\ AtMost(ById[3].patterns, 6)
    /\ AtMost(ById[4].patterns, 8) /\ AtMost(ById[5].patterns, 4)
    /\ AtMost(ById[6].patterns, 5) /\ AtMost(ById[7].patterns, 4)
<1>1. /\ ById[1].patterns = {"developer_handoff", "developer_report", "bundle_patch", "export_patch", "final_patch", "handoff"}
      /\ ById[2].patterns = {"digest", "executive_summary", "summary", "summarize_outputs", "important_outputs"}
      /\ ById[3].patterns = {"research_packet", "bundle_research", "export_research", "report", "html", "pdf"}
      /\ ById[4].patterns = {"repo", "repository", "patch", "cli", "json_output", "fix", "add", "update"}
      /\ ById[5].patterns = {"digest", "topics", "daily_research", "roundup"}
      /\ ById[6].patterns = {"research", "brief", "cited", "sources", "markdown"}
      /\ ById[7].patterns = {"url", "fetch", "summarize", "summary"}
  BY ListedTemplates DEF outputTemplates, researchTemplates, patchTemplate, digestTemplate
<1>2. AtMost(ById[1].patterns, 6)
  <2>1. AtMost({"developer_handoff", "developer_report", "bundle_patch", "export_patch", "final_patch", "handoff"}, 6)
    BY AtMostEight, Zenon
  <2>2. ById[1].patterns = {"developer_handoff", "developer_report", "bundle_patch", "export_patch", "final_patch", "handoff"}
    BY <1>1
  <2> QED BY <2>1, <2>2, Zenon
<1>3. AtMost(ById[2].patterns, 5)
  <2>1. AtMost({"digest", "executive_summary", "summary", "summarize_outputs", "important_outputs"}, 5)
    BY AtMostEight, Zenon
  <2>2. ById[2].patterns = {"digest", "executive_summary", "summary", "summarize_outputs", "important_outputs"}
    BY <1>1
  <2> QED BY <2>1, <2>2, Zenon
<1>4. AtMost(ById[3].patterns, 6)
  <2>1. AtMost({"research_packet", "bundle_research", "export_research", "report", "html", "pdf"}, 6)
    BY AtMostEight, Zenon
  <2>2. ById[3].patterns = {"research_packet", "bundle_research", "export_research", "report", "html", "pdf"}
    BY <1>1
  <2> QED BY <2>1, <2>2, Zenon
<1>5. AtMost(ById[4].patterns, 8)
  <2>1. AtMost({"repo", "repository", "patch", "cli", "json_output", "fix", "add", "update"}, 8)
    BY AtMostEight, Zenon
  <2>2. ById[4].patterns = {"repo", "repository", "patch", "cli", "json_output", "fix", "add", "update"}
    BY <1>1
  <2> QED BY <2>1, <2>2, Zenon
<1>6. AtMost(ById[5].patterns, 4)
  <2>1. AtMost({"digest", "topics", "daily_research", "roundup"}, 4)
    BY AtMostEight, Zenon
  <2>2. ById[5].patterns = {"digest", "topics", "daily_research", "roundup"}
    BY <1>1
  <2> QED BY <2>1, <2>2, Zenon
<1>7. AtMost(ById[6].patterns, 5)
  <2>1. AtMost({"research", "brief", "cited", "sources", "markdown"}, 5)
    BY AtMostEight, Zenon
  <2>2. ById[6].patterns = {"research", "brief", "cited", "sources", "markdown"}
    BY <1>1
  <2> QED BY <2>1, <2>2, Zenon
<1>8. AtMost(ById[7].patterns, 4)
  <2>1. AtMost({"url", "fetch", "summarize", "summary"}, 4)
    BY AtMostEight, Zenon
  <2>2. ById[7].patterns = {"url", "fetch", "summarize", "summary"}
    BY <1>1
  <2> QED BY <2>1, <2>2, Zenon
<1> QED BY <1>2, <1>3, <1>4, <1>5, <1>6, <1>7, <1>8

\* The words found of each.
Hits(intent, i) == Cardinality(ById[i].patterns \cap (intent.prompt \cup intent.goal))

\* They are at most what it looks for.
LEMMA HitsAre ==
    ASSUME NEW intent
    PROVE  /\ \A i \in 1 .. 7 : Hits(intent, i) \in Nat
           /\ Hits(intent, 1) <= 6 /\ Hits(intent, 2) <= 5 /\ Hits(intent, 3) <= 6 /\ Hits(intent, 4) <= 8
           /\ Hits(intent, 5) <= 4 /\ Hits(intent, 6) <= 5 /\ Hits(intent, 7) <= 4
<1> DEFINE text == intent.prompt \cup intent.goal
<1>1. /\ AtMost(ById[1].patterns \cap text, 6) /\ AtMost(ById[2].patterns \cap text, 5)
      /\ AtMost(ById[3].patterns \cap text, 6) /\ AtMost(ById[4].patterns \cap text, 8)
      /\ AtMost(ById[5].patterns \cap text, 4) /\ AtMost(ById[6].patterns \cap text, 5)
      /\ AtMost(ById[7].patterns \cap text, 4)
  BY PatternsAre, AtMostOf
<1> QED BY <1>1 DEF AtMost, Hits

\* An intent that the code itself framed, for one of its two domains.
Framed(intent, domain) ==
    /\ intent.domain = domain /\ intent.output = outputFor(domain) /\ intent.goal = interpretedGoal(domain)

\* Of a research prompt that names no page, the topic brief scores twelve or more.
LEMMA TopicScores ==
    ASSUME NEW intent, Framed(intent, "research"), "http" \notin intent.prompt
    PROVE  templateScore(intent, ById[6]) >= 12
<1> DEFINE text == intent.prompt \cup intent.goal
<1>1. {"research", "brief", "cited"} \subseteq ById[6].patterns \cap text
  BY ListedTemplates DEF researchTemplates, Framed, interpretedGoal
<1>2. AtMost(ById[6].patterns \cap text, 5)
  BY PatternsAre, AtMostOf
<1>3. Hits(intent, 6) >= 3 /\ Hits(intent, 6) \in Nat
  BY <1>1, <1>2, ThreeFound DEF Hits
<1>4. templateScore(intent, ById[6]) = 4 + 2 + Hits(intent, 6) + (0 + 3) + 0 + 0 + 0 + 0
  <2>1. /\ intent.domain = "research" /\ intent.domain \in ById[6].domains /\ ById[6].output = intent.output
        /\ ById[6].id = "research.topic_brief" /\ ById[6] \notin Range(outputTemplates)
    BY TemplatesAre, OutputTemplatesAre DEF Described, Framed, outputFor
  <2> QED BY <2>1, ScoreIs DEF Hits
<1> QED BY <1>3, <1>4

\* Of one that names a page, the summary of the page scores eleven or more.
LEMMA UrlScores ==
    ASSUME NEW intent, Framed(intent, "research"), "http" \in intent.prompt
    PROVE  templateScore(intent, ById[7]) >= 11
<1>3. Hits(intent, 7) >= 0 /\ Hits(intent, 7) \in Nat
  BY HitsAre
<1>4. templateScore(intent, ById[7]) = 4 + 2 + Hits(intent, 7) + (5 + 0) + 0 + 0 + 0 + 0
  <2>1. /\ intent.domain = "research" /\ intent.domain \in ById[7].domains /\ ById[7].output = intent.output
        /\ ById[7].id = "research.url_summary" /\ ById[7] \notin Range(outputTemplates)
    BY TemplatesAre, OutputTemplatesAre DEF Described, Framed, outputFor
  <2> QED BY <2>1, ScoreIs DEF Hits
<1> QED BY <1>3, <1>4

\* Of a repository prompt, the patch scores twelve or more.
LEMMA PatchScores ==
    ASSUME NEW intent, Framed(intent, "repository")
    PROVE  templateScore(intent, ById[4]) >= 12
<1> DEFINE text == intent.prompt \cup intent.goal
<1>1. {"repo", "repository", "patch"} \subseteq ById[4].patterns \cap text
  BY ListedTemplates DEF patchTemplate, Framed, interpretedGoal
<1>2. AtMost(ById[4].patterns \cap text, 8)
  BY PatternsAre, AtMostOf
<1>3. Hits(intent, 4) >= 3 /\ Hits(intent, 4) \in Nat
  BY <1>1, <1>2, ThreeFound DEF Hits
<1>4. templateScore(intent, ById[4]) = 4 + 2 + Hits(intent, 4) + (0 + 0) + 3 + 0 + 0 + 0
  <2>1. /\ intent.domain = "repository" /\ intent.domain \in ById[4].domains /\ ById[4].output = intent.output
        /\ ById[4].id = "repository.plan_to_patch" /\ ById[4] \notin Range(outputTemplates)
    BY TemplatesAre, OutputTemplatesAre DEF Described, Framed, outputFor
  <2> QED BY <2>1, ScoreIs DEF Hits
<1> QED BY <1>3, <1>4

\* Every other template scores less: the templates of outputs as long as no output
\* is asked for, the one that patches in any research prompt.
LEMMA OthersScore ==
    ASSUME NEW intent
    PROVE  /\ Framed(intent, "research") => templateScore(intent, ById[4]) <= 8 /\ templateScore(intent, ById[5]) <= 10
           /\ Framed(intent, "research") /\ "http" \notin intent.prompt => templateScore(intent, ById[7]) <= 10
           /\ Framed(intent, "research") /\ ~isOutputPrompt(intent.prompt \cup intent.goal) =>
                 /\ templateScore(intent, ById[1]) <= 10 /\ templateScore(intent, ById[2]) <= 10
                 /\ templateScore(intent, ById[3]) <= 10
           /\ Framed(intent, "repository") /\ ~isOutputPrompt(intent.prompt \cup intent.goal) =>
                 \A i \in 1 .. 7 \ {4} : templateScore(intent, ById[i]) <= 10
<1> DEFINE out == isOutputPrompt(intent.prompt \cup intent.goal)
           s(i) == templateScore(intent, ById[i])
           h(i) == Hits(intent, i)
<1>1. /\ \A i \in 1 .. 7 : h(i) \in Nat
      /\ h(1) <= 6 /\ h(2) <= 5 /\ h(3) <= 6 /\ h(4) <= 8 /\ h(5) <= 4 /\ h(6) <= 5 /\ h(7) <= 4
  BY HitsAre
<1>2. CASE Framed(intent, "research")
  <2>1. intent.domain = "research" /\ intent.output = "markdown_brief"
    BY <1>2 DEF Framed, outputFor
  <2>2. s(4) = 0 + 0 + h(4) + (0 + 0) + 0 + 0 + 0 + 0
    <3>1. /\ ~(intent.domain \in ById[4].domains) /\ ~(ById[4].output = intent.output)
          /\ ById[4].id = "repository.plan_to_patch" /\ ById[4] \notin Range(outputTemplates)
      BY <2>1, TemplatesAre, OutputTemplatesAre DEF Described
    <3> QED BY <2>1, <3>1, ScoreIs DEF Hits
  <2>3. s(5) = 4 + 2 + h(5) + (0 + 0) + 0 + 0 + 0 + 0
    <3>1. /\ intent.domain \in ById[5].domains /\ ById[5].output = intent.output
          /\ ById[5].id = "research.digest" /\ ById[5] \notin Range(outputTemplates)
      BY <2>1, TemplatesAre, OutputTemplatesAre DEF Described
    <3> QED BY <2>1, <3>1, ScoreIs DEF Hits
  <2>4. ASSUME "http" \notin intent.prompt PROVE s(7) = 4 + 2 + h(7) + (0 + 0) + 0 + 0 + 0 + 0
    <3>1. /\ intent.domain \in ById[7].domains /\ ById[7].output = intent.output
          /\ ById[7].id = "research.url_summary" /\ ById[7] \notin Range(outputTemplates)
      BY <2>1, TemplatesAre, OutputTemplatesAre DEF Described
    <3> QED BY <2>1, <2>4, <3>1, ScoreIs DEF Hits
  <2>5. ASSUME ~out
        PROVE  /\ s(1) = 0 + 0 + h(1) + (0 + 0) + 0 + 0 + 0 + 0
               /\ s(2) = 4 + 0 + h(2) + (0 + 0) + 0 + 0 + 0 + 0
               /\ s(3) = 4 + 0 + h(3) + (0 + 0) + 0 + 0 + 0 + 0
    <3>1. /\ ~(intent.domain \in ById[1].domains) /\ ~(ById[1].output = intent.output)
          /\ ById[1].id = "output.developer_packet"
          /\ intent.domain \in ById[2].domains /\ ~(ById[2].output = intent.output) /\ ById[2].id = "output.digest"
          /\ intent.domain \in ById[3].domains /\ ~(ById[3].output = intent.output)
          /\ ById[3].id = "output.research_packet"
      BY <2>1, TemplatesAre DEF Described
    <3> HIDE DEF out
    <3>2. s(1) = 0 + 0 + h(1) + (0 + 0) + 0 + 0 + 0 + 0
      BY <2>1, <2>5, <3>1, ScoreIs DEF Hits, out
    <3>3. s(2) = 4 + 0 + h(2) + (0 + 0) + 0 + 0 + 0 + 0
      BY <2>1, <2>5, <3>1, ScoreIs DEF Hits, out
    <3>4. s(3) = 4 + 0 + h(3) + (0 + 0) + 0 + 0 + 0 + 0
      BY <2>1, <2>5, <3>1, ScoreIs DEF Hits, out
    <3> QED BY <3>2, <3>3, <3>4
  <2>6. ~Framed(intent, "repository")
    BY <2>1 DEF Framed
  <2> HIDE DEF s, h, out
  <2>7. s(4) <= 8 /\ s(5) <= 10
    BY <1>1, <2>2, <2>3
  <2>8. "http" \notin intent.prompt => s(7) <= 10
    BY <1>1, <2>4
  <2>9. ~out => s(1) <= 10 /\ s(2) <= 10 /\ s(3) <= 10
    BY <1>1, <2>5
  <2> QED BY <2>6, <2>7, <2>8, <2>9 DEF s, out
<1>3. CASE Framed(intent, "repository")
  <2>1. intent.domain = "repository" /\ intent.output = "git_patch"
    BY <1>3 DEF Framed, outputFor
  <2>2. ~Framed(intent, "research")
    BY <2>1 DEF Framed
  <2>3. ASSUME NEW i \in 1 .. 7 \ {4}, ~out
        PROVE  s(i) = (IF intent.domain \in ById[i].domains THEN 4 ELSE 0) + 0 + h(i) + (0 + 0) + 0 + 0 + 0 + 0
    <3>1. ~(ById[i].output = intent.output) /\ ~(ById[i].id = "repository.plan_to_patch")
      BY <2>1, TemplatesAre DEF Described
    <3> QED BY <2>1, <2>3, <3>1, ScoreIs DEF Hits
  <2>4. /\ \A i \in {3, 5, 6, 7} : ~(intent.domain \in ById[i].domains)
    BY <2>1, TemplatesAre DEF Described
  <2> HIDE DEF s, h, out
  <2>5. ASSUME NEW i \in 1 .. 7 \ {4}, ~out PROVE s(i) <= 10
    <3>1. i \in {1, 2, 3, 5, 6, 7}
      OBVIOUS
    <3>2. h(i) \in Nat /\ h(i) <= 6
      BY <1>1, <3>1
    <3>3. CASE i \in {1, 2}
      BY <1>1, <2>3, <2>5, <3>3
    <3>4. CASE i \in {3, 5, 6, 7}
      BY <1>1, <2>3, <2>4, <2>5, <3>4
    <3> QED BY <3>1, <3>3, <3>4
  <2> QED BY <2>2, <2>5 DEF s, out
<1> QED BY <1>2, <1>3

\* What every template promises of its nodes: they use what it requires, and only
\* the one that patches patches or verifies.
NodesPromise(t) ==
    \A i \in DOMAIN t.nodes :
        /\ t.nodes[i].cap \in t.required \cup {"none"}
        /\ t.nodes[i].kind \in {"patch", "verify"} => t.id = "repository.plan_to_patch"

\* A chain of nodes that neither patch nor verify keeps the promise.
LEMMA NodesOk == \A i \in 1 .. 7 : NodesPromise(ById[i])
<1>1. NodesPromise(ById[1])
  BY ListedTemplates DEF NodesPromise, outputTemplates, TNode
<1>2. NodesPromise(ById[2])
  BY ListedTemplates DEF NodesPromise, outputTemplates, TNode
<1>3. NodesPromise(ById[3])
  BY ListedTemplates DEF NodesPromise, outputTemplates, TNode
<1>4. NodesPromise(ById[4])
  BY ListedTemplates DEF NodesPromise, patchTemplate, TNode
<1>5. NodesPromise(ById[5])
  BY ListedTemplates DEF NodesPromise, digestTemplate, researchCaps, TNode
<1>6. NodesPromise(ById[6])
  BY ListedTemplates DEF NodesPromise, researchTemplates, researchCaps, TNode
<1>7. NodesPromise(ById[7])
  BY ListedTemplates DEF NodesPromise, researchTemplates, TNode
<1> QED BY <1>1, <1>2, <1>3, <1>4, <1>5, <1>6, <1>7

\* The template that is chosen is the first of the best.
Chosen(intent, i) ==
    /\ i \in 1 .. 7
    /\ \A j \in 1 .. 7 : LET mine == templateScore(intent, ById[i])
                             other == templateScore(intent, ById[j])
                         IN  mine > other \/ (mine = other /\ i <= j)

\* selectTemplate chooses it.
LEMMA ChosenIs ==
    ASSUME NEW intent, NEW order, NEW t \in selectTemplate(intent, listTemplates(order))
    PROVE  \E i \in 1 .. 7 : t = ById[i] /\ Chosen(intent, i)
  BY ListedTemplates DEF selectTemplate, listTemplates, Chosen

\* What a composed plan is: of the chosen template, or of none.
PlanFrom(i) ==
    /\ Chosen(cpIntent, i) /\ ById[i].required \subseteq cpReq.caps
    /\ \E inferred :
          cpPlan = [planfileFromTemplate(cpIntent, ById[i], cpReq)
                       EXCEPT !.matches = capabilityMatches(ById[i], cpReq.caps, inferred)]

\* The intent is the code's own unless a model made it.
FrameKnown ==
    /\ "model" \in DOMAIN cpIntent
    /\ ~cpIntent.model => cpIntent = deterministicIntentFrame(cpReq)

\* The invariant: the frame of a classified prompt, and where its plan comes from.
CpInv ==
    /\ cpPc \in {"idle", "classified", "composed"}
    /\ cpPc # "idle" => FrameKnown
    /\ cpPc = "composed" => \/ cpPlan.error # "none"
                            \/ cpPlan = deterministicPlanfile
                            \/ \E i \in 1 .. 7 : PlanFrom(i)

\* What a plan of a template holds.
LEMMA PlanHolds ==
    ASSUME NEW i \in 1 .. 7, PlanFrom(i)
    PROVE  /\ cpPlan.template = ById[i].id
           /\ cpPlan.params = templateParameters(cpIntent, cpReq)
           /\ cpPlan.nodes = [k \in DOMAIN ById[i].nodes |-> planNodeFromTemplate(ById[i].nodes[k])]
           /\ cpPlan.commands = IF ById[i].id = "repository.plan_to_patch" THEN {"npm_run_typecheck"} ELSE {}
           /\ \E inferred : cpPlan.matches = capabilityMatches(ById[i], cpReq.caps, inferred)
<1>1. PICK inferred :
          cpPlan = [planfileFromTemplate(cpIntent, ById[i], cpReq)
                       EXCEPT !.matches = capabilityMatches(ById[i], cpReq.caps, inferred)]
  BY DEF PlanFrom
<1> DEFINE m == capabilityMatches(ById[i], cpReq.caps, inferred)
<1> HIDE DEF m
<1>2. cpPlan = [planfileFromTemplate(cpIntent, ById[i], cpReq) EXCEPT !.matches = m]
  BY <1>1 DEF m
<1>3. /\ cpPlan.template = ById[i].id
      /\ cpPlan.params = templateParameters(cpIntent, cpReq)
      /\ cpPlan.nodes = [k \in DOMAIN ById[i].nodes |-> planNodeFromTemplate(ById[i].nodes[k])]
      /\ cpPlan.commands = IF ById[i].id = "repository.plan_to_patch" THEN {"npm_run_typecheck"} ELSE {}
      /\ cpPlan.matches = m
  BY <1>2 DEF planfileFromTemplate
<1> QED BY <1>3 DEF m

\* The ids are distinct.
LEMMA IdsApart == \A i, j \in 1 .. 7 : ById[i].id = ById[j].id => i = j
<1>1. /\ ById[1].id = "output.developer_packet" /\ ById[2].id = "output.digest" /\ ById[3].id = "output.research_packet"
      /\ ById[4].id = "repository.plan_to_patch" /\ ById[5].id = "research.digest"
      /\ ById[6].id = "research.topic_brief" /\ ById[7].id = "research.url_summary"
  BY TemplatesAre DEF Described
<1>2. \A i \in 1 .. 7 : i \in {1, 2, 3, 4, 5, 6, 7}
  OBVIOUS
<1> QED BY <1>1, <1>2

\* What a template's node becomes.
LEMMA NodeIs ==
    ASSUME NEW node
    PROVE  LET n == planNodeFromTemplate(node)
           IN  /\ n.cap = node.cap /\ (n.risk # "read" => n.approval)
               /\ n.risk # "read" => node.kind \in {"patch", "verify"}
               /\ n.commands = IF node.kind = "verify" THEN {"npm_run_typecheck"} ELSE {}
<1> DEFINE n == planNodeFromTemplate(node)
<1>1. /\ n.cap = node.cap /\ n.risk = riskForNode(node)
      /\ n.approval = (riskForNode(node) \in {"write", "destructive", "external_side_effect"})
      /\ n.commands = IF node.kind = "verify" THEN {"npm_run_typecheck"} ELSE {}
  BY DEF planNodeFromTemplate
<1>2. riskForNode(node) = IF node.kind = "patch" THEN "write" ELSE IF node.kind = "verify" THEN "external_side_effect" ELSE "read"
  BY DEF riskForNode
<1> HIDE DEF n
<1> QED BY <1>1, <1>2 DEF n

\* The plan of no template only reads.
LEMMA GenericIs ==
    /\ deterministicPlanfile.template = "generic" /\ deterministicPlanfile.matches = {}
    /\ DOMAIN deterministicPlanfile.nodes = 1 .. 5
    /\ \A k \in 1 .. 5 : LET n == deterministicPlanfile.nodes[k]
                         IN  n.cap = "none" /\ n.risk = "read" /\ n.commands = {}
<1> DEFINE node(k) == TNode(<<"frame", "inspect", "design", "review", "finalize">>[k], "none")
<1>1. \A k \in 1 .. 5 : node(k).cap = "none" /\ node(k).kind \in {"frame", "inspect", "design", "review", "finalize"}
  BY DEF TNode
<1>2. /\ deterministicPlanfile.template = "generic" /\ deterministicPlanfile.matches = {}
      /\ deterministicPlanfile.nodes = [k \in 1 .. 5 |-> planNodeFromTemplate(node(k))]
  BY DEF deterministicPlanfile, NoComposed
<1>3. ASSUME NEW k \in 1 .. 5
      PROVE  LET n == deterministicPlanfile.nodes[k] IN n.cap = "none" /\ n.risk = "read" /\ n.commands = {}
  <2>1. deterministicPlanfile.nodes[k] = planNodeFromTemplate(node(k))
    BY <1>2
  <2>2. node(k).cap = "none" /\ node(k).kind # "verify" /\ node(k).kind # "patch"
    BY <1>1
  <2> HIDE DEF node
  <2> QED BY <2>1, <2>2, NodeIs
<1> HIDE DEF node
<1> QED BY <1>2, <1>3

\* A composed plan passes the checks of validatePlanfile.
LEMMA ComposedOk == CpInv => ComposedIsSound
<1>1. SUFFICES ASSUME CpInv, Composed PROVE ComposedIsSound
  BY DEF ComposedIsSound
<1>2. cpPlan = deterministicPlanfile \/ \E i \in 1 .. 7 : PlanFrom(i)
  BY <1>1 DEF CpInv, Composed
<1>3. CASE cpPlan = deterministicPlanfile
  BY <1>3, GenericIs DEF ComposedIsSound
<1>4. ASSUME NEW i \in 1 .. 7, PlanFrom(i) PROVE ComposedIsSound
  <2> DEFINE t == ById[i]
  <2>1. /\ cpPlan.nodes = [k \in DOMAIN t.nodes |-> planNodeFromTemplate(t.nodes[k])]
        /\ cpPlan.commands = IF t.id = "repository.plan_to_patch" THEN {"npm_run_typecheck"} ELSE {}
    BY <1>4, PlanHolds
  <2>2. PICK inferred : cpPlan.matches = capabilityMatches(t, cpReq.caps, inferred)
    BY <1>4, PlanHolds
  <2>3. NodesPromise(t) /\ t.required \subseteq cpReq.caps
    BY <1>4, NodesOk DEF PlanFrom
  <2> HIDE DEF t
  <2>4. ASSUME NEW k \in DOMAIN cpPlan.nodes
        PROVE  LET n == cpPlan.nodes[k]
               IN  /\ n.cap \in cpReq.caps \cup {"none"} /\ (n.risk # "read" => n.approval)
                   /\ n.commands \subseteq cpPlan.commands
    <3>1. k \in DOMAIN t.nodes /\ cpPlan.nodes[k] = planNodeFromTemplate(t.nodes[k])
      BY <2>1
    <3>2. /\ t.nodes[k].cap \in t.required \cup {"none"}
          /\ t.nodes[k].kind \in {"patch", "verify"} => t.id = "repository.plan_to_patch"
      BY <2>3, <3>1 DEF NodesPromise
    <3> QED BY <2>1, <2>3, <3>1, <3>2, NodeIs
  <2>5. \A m, k \in cpPlan.matches : m[1] = k[1] => m = k
    <3> DEFINE caps == cpReq.caps
               A == {<<c, TRUE>> : c \in t.required \cap caps}
               B == {<<c, FALSE>> : c \in (inferred \cap caps) \ t.required}
    <3>1. cpPlan.matches = A \cup B
      BY <2>2 DEF capabilityMatches
    <3>2. ASSUME NEW m \in A PROVE m = <<m[1], TRUE>> /\ m[1] \in t.required
      <4>1. PICK c \in t.required \cap caps : m = <<c, TRUE>>
        OBVIOUS
      <4>2. m[1] = c
        BY <4>1
      <4> QED BY <4>1, <4>2
    <3>3. ASSUME NEW m \in B PROVE m = <<m[1], FALSE>> /\ m[1] \notin t.required
      <4>1. PICK c \in (inferred \cap caps) \ t.required : m = <<c, FALSE>>
        OBVIOUS
      <4>2. m[1] = c
        BY <4>1
      <4> QED BY <4>1, <4>2
    <3> HIDE DEF A, B
    <3> QED BY <3>1, <3>2, <3>3
  <2> QED BY <2>4, <2>5 DEF ComposedIsSound
<1> QED BY <1>2, <1>3, <1>4

\* Its template is the first of the best.
LEMMA CanonicalOk == CpInv => SelectionIsCanonical
<1>1. SUFFICES ASSUME CpInv, Composed, cpPlan.template # "generic"
               PROVE  \E i \in 1 .. 7 : /\ ById[i].id = cpPlan.template
                        /\ \A j \in 1 .. 7 \ {i} : LET mine == templateScore(cpIntent, ById[i])
                                                       other == templateScore(cpIntent, ById[j])
                                                   IN  mine > other \/ (mine = other /\ i < j)
  BY DEF SelectionIsCanonical
<1>2. PICK i \in 1 .. 7 : PlanFrom(i)
  BY <1>1, GenericIs DEF CpInv, Composed
<1>3. cpPlan.template = ById[i].id /\ Chosen(cpIntent, i)
  BY <1>2, PlanHolds DEF PlanFrom
<1>4. \A j \in 1 .. 7 \ {i} : i <= j => i < j
  OBVIOUS
<1> QED BY <1>3, <1>4 DEF Chosen

\* A frame that the code made is its own.
LEMMA IntentOk ==
    ASSUME NEW req
    PROVE  LET intent == deterministicIntentFrame(req)
               ps == phrases(req.words)
           IN  /\ intent.model = FALSE /\ "model" \in DOMAIN intent /\ intent.prompt = ps
               /\ intent.domain = domainOf(looksLikeRepository(ps) \/ req.repo, "http" \in ps \/ looksLikeResearch(ps), ps)
               /\ \A domain : intent.domain = domain => Framed(intent, domain)
  BY DEF deterministicIntentFrame, Framed

\* The goal that the code puts in front asks for no output.
LEMMA GoalAsksNothing ==
    ASSUME NEW intent, NEW domain \in {"research", "repository"}, Framed(intent, domain)
    PROVE  isOutputPrompt(intent.prompt \cup intent.goal) = isOutputPrompt(intent.prompt)
<1> DEFINE O == {"pdf", "html", "export", "bundle", "packet", "digest", "executive_summary", "developer_handoff", "report"}
<1>1. intent.goal \cap O = {}
  <2>1. intent.goal \subseteq {"research", "brief", "cited", "repo", "repository", "patch"}
    BY DEF Framed, interpretedGoal
  <2> QED BY <2>1
<1> HIDE DEF O
<1>2. (intent.prompt \cup intent.goal) \cap O = intent.prompt \cap O
  BY <1>1
<1> QED BY <1>2 DEF isOutputPrompt, O

\* The chosen template scores no less than another.
LEMMA ChosenScores ==
    ASSUME NEW intent, NEW i, Chosen(intent, i), NEW j \in 1 .. 7
    PROVE  templateScore(intent, ById[i]) > templateScore(intent, ById[j])
           \/ templateScore(intent, ById[i]) = templateScore(intent, ById[j])
  BY DEF Chosen

\* A score is a number.
LEMMA ScoreNat ==
    ASSUME NEW intent, NEW i \in 1 .. 7
    PROVE  templateScore(intent, ById[i]) \in Nat
<1>1. Hits(intent, i) \in Nat
  BY HitsAre
<1> DEFINE t == ById[i]
           text == intent.prompt \cup intent.goal
           out == isOutputPrompt(text)
           url == "http" \in intent.prompt
           p == Points(4, intent.domain \in t.domains)
           q == Points(2, t.output = intent.output)
           r == researchBonus(intent.domain, url, t.id)
           u == Points(3, intent.domain = "repository" /\ t.id = "repository.plan_to_patch")
           v == Points(5, out /\ t \in Range(outputTemplates))
           w == Points(3, out /\ "research" \in text /\ t.id = "output.research_packet")
           x == Points(3, out /\ text \cap {"developer", "patch", "handoff"} # {} /\ t.id = "output.developer_packet")
<1>3. templateScore(intent, t) = p + q + Hits(intent, i) + r + u + v + w + x
  BY Zenon DEF templateScore, Hits
<1>4. p \in Nat /\ q \in Nat /\ u \in Nat /\ v \in Nat /\ w \in Nat /\ x \in Nat
  BY DEF Points
<1>5. r \in Nat
  BY DEF researchBonus, Points
<1> HIDE DEF p, q, r, u, v, w, x
<1> QED BY <1>1, <1>3, <1>4, <1>5

\* Which templates a prompt that the code framed can lead to.
LEMMA ChoiceIs ==
    ASSUME NEW intent, NEW i, Chosen(intent, i)
    PROVE  /\ Framed(intent, "research") => i # 4 /\ i # 5
           /\ Framed(intent, "research") /\ "http" \notin intent.prompt => i # 7
           /\ Framed(intent, "research") /\ ~isOutputPrompt(intent.prompt) => i \in {6, 7}
           /\ Framed(intent, "repository") /\ ~isOutputPrompt(intent.prompt) => i = 4
<1> DEFINE s(k) == templateScore(intent, ById[k])
<1>1. i \in 1 .. 7 /\ \A k \in 1 .. 7 : s(k) \in Nat
  BY ScoreNat DEF Chosen
<1>2. \A k \in 1 .. 7 : s(i) >= s(k)
  BY <1>1, ChosenScores
<1>3. CASE Framed(intent, "research")
  <2>1. s(4) <= 8 /\ s(5) <= 10
    BY <1>3, OthersScore
  <2>2. s(6) >= 11 \/ s(7) >= 11
    <3>1. CASE "http" \in intent.prompt
      BY <1>3, <3>1, UrlScores
    <3>2. CASE "http" \notin intent.prompt
      <4>1. s(6) >= 12
        BY <1>3, <3>2, TopicScores
      <4> HIDE DEF s
      <4> QED BY <1>1, <4>1
    <3> QED BY <3>1, <3>2
  <2>3. ~isOutputPrompt(intent.prompt) => s(1) <= 10 /\ s(2) <= 10 /\ s(3) <= 10
    BY <1>3, OthersScore, GoalAsksNothing
  <2>4. "http" \notin intent.prompt => s(6) >= 12 /\ s(7) <= 10
    BY <1>3, OthersScore, TopicScores
  <2>5. ~Framed(intent, "repository")
    BY <1>3 DEF Framed
  <2> HIDE DEF s
  <2>6. s(i) >= 11
    BY <1>1, <1>2, <2>2
  <2>7. i # 4 /\ i # 5
    BY <1>1, <2>1, <2>6
  <2>8. "http" \notin intent.prompt => i # 7
    BY <1>1, <2>4, <2>6
  <2>9. ~isOutputPrompt(intent.prompt) => i # 1 /\ i # 2 /\ i # 3
    BY <1>1, <2>3, <2>6
  <2>10. i \in {1, 2, 3, 4, 5, 6, 7}
    BY <1>1
  <2> QED BY <2>5, <2>7, <2>8, <2>9, <2>10
<1>4. CASE Framed(intent, "repository")
  <2>1. s(4) >= 12
    BY <1>4, PatchScores
  <2>2. ~isOutputPrompt(intent.prompt) => \A k \in 1 .. 7 \ {4} : s(k) <= 10
    BY <1>4, OthersScore, GoalAsksNothing
  <2>3. ~Framed(intent, "research")
    BY <1>4 DEF Framed
  <2> HIDE DEF s
  <2>4. s(i) >= 12
    BY <1>1, <1>2, <2>1
  <2>5. ~isOutputPrompt(intent.prompt) => i = 4
    <3>1. SUFFICES ASSUME ~isOutputPrompt(intent.prompt), i # 4 PROVE FALSE
      OBVIOUS
    <3>2. s(i) <= 10 /\ s(i) \in Nat
      BY <1>1, <2>2, <3>1
    <3> QED BY <2>4, <3>2
  <2> QED BY <2>3, <2>5
<1> QED BY <1>3, <1>4

\* A plan for a framed prompt has what its template needs.
LEMMA ParametersOk == CpInv => RequiredParametersKnown
<1>1. SUFFICES ASSUME CpInv, Composed, ~cpIntent.model, cpIntent.domain \in {"research", "repository"},
                      ~isOutputPrompt(cpIntent.prompt), NEW t \in Range(ById), t.id = cpPlan.template
               PROVE  t.needs \subseteq cpPlan.params
  BY DEF RequiredParametersKnown
<1>2. PICK j \in 1 .. 7 : t = ById[j]
  BY <1>1, ListedTemplates DEF Range
<1>3. t.id # "generic"
  BY <1>2, TemplatesAre DEF Described
<1>4. PICK i \in 1 .. 7 : PlanFrom(i)
  BY <1>1, <1>3, GenericIs DEF CpInv, Composed
<1>5. /\ cpPlan.template = ById[i].id /\ cpPlan.params = templateParameters(cpIntent, cpReq)
      /\ Chosen(cpIntent, i)
  BY <1>4, PlanHolds DEF PlanFrom
<1>6. t = ById[i]
  BY <1>1, <1>2, <1>5, IdsApart
<1>7. Framed(cpIntent, cpIntent.domain)
  <2>1. cpIntent = deterministicIntentFrame(cpReq)
    BY <1>1 DEF CpInv, FrameKnown, Composed
  <2> QED BY <2>1, IntentOk
<1>8. {"topic"} \subseteq cpPlan.params /\ ("http" \in cpIntent.prompt => {"url"} \subseteq cpPlan.params)
  BY <1>5 DEF templateParameters
<1>9. ById[4].needs = {} /\ ById[6].needs = {"topic"} /\ ById[7].needs = {"url"}
  BY ListedTemplates DEF patchTemplate, researchTemplates
<1>10. CASE cpIntent.domain = "research"
  <2>1. i \in {6, 7} /\ ("http" \notin cpIntent.prompt => i # 7)
    BY <1>1, <1>5, <1>7, <1>10, ChoiceIs
  <2> QED BY <1>6, <1>8, <1>9, <2>1
<1>11. CASE cpIntent.domain = "repository"
  <2>1. i = 4
    BY <1>1, <1>5, <1>7, <1>11, ChoiceIs
  <2> QED BY <1>6, <1>9, <2>1
<1> QED BY <1>1, <1>10, <1>11

\* A plan for a prompt of research writes nothing.
LEMMA ResearchOk == CpInv => ResearchNeverWrites
<1>1. SUFFICES ASSUME CpInv, Composed, ~cpIntent.model, looksLikeResearch(phrases(cpReq.words)),
                      NEW k \in DOMAIN cpPlan.nodes, cpPlan.nodes[k].risk # "read"
               PROVE  FALSE
  BY DEF ResearchNeverWrites, WritesTo
<1>2. cpIntent = deterministicIntentFrame(cpReq)
  BY <1>1 DEF CpInv, FrameKnown, Composed
<1>3. Framed(cpIntent, "research")
  <2>1. cpIntent.domain = "research"
    <3> DEFINE ps == phrases(cpReq.words)
               repository == looksLikeRepository(ps) \/ cpReq.repo
               research == "http" \in ps \/ looksLikeResearch(ps)
    <3>1. cpIntent.domain = domainOf(repository, research, ps)
      BY <1>2, IntentOk
    <3>2. research
      BY <1>1
    <3> HIDE DEF research, repository, ps
    <3> QED BY <3>1, <3>2 DEF domainOf
  <2> QED BY <1>2, <2>1, IntentOk
<1>4. cpPlan # deterministicPlanfile
  BY <1>1, GenericIs
<1>5. PICK i \in 1 .. 7 : PlanFrom(i)
  BY <1>1, <1>4 DEF CpInv, Composed
<1>6. /\ cpPlan.nodes = [m \in DOMAIN ById[i].nodes |-> planNodeFromTemplate(ById[i].nodes[m])]
      /\ Chosen(cpIntent, i)
  BY <1>5, PlanHolds DEF PlanFrom
<1>7. i # 4
  BY <1>3, <1>6, ChoiceIs
<1>8. k \in DOMAIN ById[i].nodes /\ ById[i].nodes[k].kind \in {"patch", "verify"}
  <2>1. k \in DOMAIN ById[i].nodes /\ cpPlan.nodes[k] = planNodeFromTemplate(ById[i].nodes[k])
    BY <1>1, <1>6
  <2> QED BY <1>1, <2>1, NodeIs
<1>9. ById[i].id = "repository.plan_to_patch"
  BY <1>8, NodesOk DEF NodesPromise
<1>10. ById[4].id = "repository.plan_to_patch"
  BY TemplatesAre DEF Described
<1> QED BY <1>7, <1>9, <1>10, IdsApart

\* Every step keeps the invariant.
LEMMA CpKept == CpInv /\ [CpNext]_cpVars => CpInv'
<1> SUFFICES ASSUME CpInv, [CpNext]_cpVars PROVE CpInv'
  OBVIOUS
<1>1. ASSUME NEW words \in Prompt, NEW repo \in BOOLEAN, NEW sched \in BOOLEAN, NEW caps \in Installed,
             NEW order \in Registration, Classify(words, repo, sched, caps, order)
      PROVE  CpInv'
  <2>1. cpIntent' = deterministicIntentFrame(cpReq') /\ cpPc' = "classified"
    BY <1>1 DEF Classify
  <2>2. FrameKnown'
    BY <2>1, IntentOk DEF FrameKnown
  <2> QED BY <2>1, <2>2 DEF CpInv
<1>2. ASSUME AskModel PROVE CpInv'
  <2>1. PICK domain \in {"repository", "research", "skill", "pack", "generic"}, blocking \in BOOLEAN,
             words \in {cpReq.words, {}} :
          cpIntent' = [cpIntent EXCEPT !.domain = domain, !.prompt = phrases(words), !.goal = {}, !.blocking = blocking,
                          !.output = outputFor(domain), !.level = "low", !.model = TRUE]
    BY <1>2 DEF AskModel
  <2>2. "model" \in DOMAIN cpIntent /\ cpPc = "classified" /\ cpPc' = cpPc
    BY <1>2 DEF AskModel, CpInv, FrameKnown
  <2> DEFINE ps == phrases(words)
             o == outputFor(domain)
  <2> HIDE DEF ps, o
  <2>3. cpIntent' = [cpIntent EXCEPT !.domain = domain, !.prompt = ps, !.goal = {}, !.blocking = blocking,
                        !.output = o, !.level = "low", !.model = TRUE]
    BY <2>1 DEF ps, o
  <2>4. DOMAIN cpIntent' = DOMAIN cpIntent /\ cpIntent'.model = TRUE
    BY <2>2, <2>3
  <2> QED BY <2>2, <2>4 DEF CpInv, FrameKnown
<1>3. ASSUME ComposeNow PROVE CpInv'
  <2>1. cpPc' = "composed" /\ cpReq' = cpReq /\ cpIntent' = cpIntent /\ cpPc = "classified"
    BY <1>3 DEF ComposeNow
  <2>2. FrameKnown'
    BY <2>1 DEF CpInv, FrameKnown
  <2> DEFINE favoured == selectTemplate(cpIntent, listTemplates(cpReq.order))
  <2>3. \A error : error # "none" => Refused(error).error # "none"
    BY DEF Refused, NoComposed
  <2>4. \/ cpPlan' = Refused("BLOCKING_AMBIGUITY") \/ cpPlan' = Refused("MISSING_CAPABILITY")
        \/ cpPlan' = deterministicPlanfile
        \/ \E t \in favoured :
              /\ ~missingRequiredCapabilities(t, cpReq.caps)
              /\ \E inferred \in SUBSET {"create_brief", "get_diff"} :
                    cpPlan' = [planfileFromTemplate(cpIntent, t, cpReq)
                                 EXCEPT !.matches = capabilityMatches(t, cpReq.caps, inferred)]
    BY <1>3, Zenon DEF ComposeNow
  <2>5. ASSUME NEW t \in favoured, ~missingRequiredCapabilities(t, cpReq.caps),
               NEW inferred \in SUBSET {"create_brief", "get_diff"},
               cpPlan' = [planfileFromTemplate(cpIntent, t, cpReq)
                            EXCEPT !.matches = capabilityMatches(t, cpReq.caps, inferred)]
        PROVE  (\E i \in 1 .. 7 : PlanFrom(i))'
    <3>1. PICK i \in 1 .. 7 : t = ById[i] /\ Chosen(cpIntent, i)
      BY <2>5, ChosenIs
    <3>2. ById[i].required \subseteq cpReq.caps
      BY <2>5, <3>1 DEF missingRequiredCapabilities
    <3>3. \E x : cpPlan' = [planfileFromTemplate(cpIntent, ById[i], cpReq)
                              EXCEPT !.matches = capabilityMatches(ById[i], cpReq.caps, x)]
      BY <2>5, <3>1, Zenon
    <3>4. PlanFrom(i)'
      BY <2>1, <3>1, <3>2, <3>3, Zenon DEF PlanFrom
    <3> QED BY <3>4
  <2>6. cpPlan'.error # "none" \/ cpPlan' = deterministicPlanfile \/ (\E i \in 1 .. 7 : PlanFrom(i))'
    <3>1. CASE cpPlan' = Refused("BLOCKING_AMBIGUITY") \/ cpPlan' = Refused("MISSING_CAPABILITY")
      BY <2>3, <3>1
    <3> HIDE DEF favoured
    <3> QED BY <2>4, <2>5, <3>1, Zenon
  <2> QED BY <2>1, <2>2, <2>6, Zenon DEF CpInv
<1>4. CASE UNCHANGED cpVars
  <2>1. cpPc' = cpPc /\ cpReq' = cpReq /\ cpIntent' = cpIntent /\ cpPlan' = cpPlan
    BY <1>4 DEF cpVars
  <2>2. (\E i \in 1 .. 7 : PlanFrom(i)) => (\E i \in 1 .. 7 : PlanFrom(i))'
    BY <2>1, Zenon DEF PlanFrom
  <2>3. FrameKnown' <=> FrameKnown
    BY <2>1 DEF FrameKnown
  <2> QED BY <2>1, <2>2, <2>3, Zenon DEF CpInv
<1> QED BY <1>1, <1>2, <1>3, <1>4 DEF CpNext

\* CompositionSound, for any prompts and whatever phrases their words hold, any
\* capabilities installed, any order of registration and any answer of the model
\* (composePlanfileFromIntent).
THEOREM CompositionSoundHolds == CpSpec => []CompositionSound
<1>1. CpInit => CpInv
  BY DEF CpInit, CpInv
<1>2. CpInv /\ [CpNext]_cpVars => CpInv'
  BY CpKept
<1>3. CpInv => CompositionSound
  BY ComposedOk, ParametersOk, CanonicalOk, ResearchOk DEF CompositionSound
<1> QED BY <1>1, <1>2, <1>3, PTL DEF CpSpec
=============================================================================
