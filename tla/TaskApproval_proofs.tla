------------------------- MODULE TaskApproval_proofs -------------------------
(***************************************************************************)
(* Proofs about TaskApproval, for any plans and artifacts and any number   *)
(* of submissions, calls and aborts.  The inductive invariant says where   *)
(* each project workflow stands and what it ran (SubInv), what each        *)
(* approval call read and ran (CallInv), and what the rows of a task rest  *)
(* on (RowInv).                                                            *)
(***************************************************************************)
EXTENDS TaskApproval, TLAPS, FiniteSetTheorems, SequenceTheorems

Index == 1 .. MaxIntents

\* The steps of a project workflow within a task, and within its loop.
Working == {"artifact", "intent", "context", "critic", "record"}
Looping == {"intent", "context", "critic"}

\* The intents of task t that workflow a executed.
RanBy(t, a) == {i \in Index : ran[t][i][a] > 0}

\* Intent i is the first of its task that needs an approval: the only one that is ever
\* stored for a continuation, because the loop stops there.
FirstGated(t, i, art) ==
  /\ i \in Index /\ i <= Len(art[t].intents) /\ art[t].intents[i] = "gated"
  /\ \A j \in Index : j < i => art[t].intents[j] # "gated"

\* Where a project workflow stands.
Place(s) ==
  LET q == sub[s] IN
  /\ q.pc \in {"idle", "planning"} => q.results = <<>>
  /\ q.pc \in Working => At(s) <= planned.tasks /\ planned.tasks <= MaxTasks
  /\ q.pc = "artifact" => q.intent = 1 /\ q.executed = 0 /\ q.skipped = 0
  /\ q.pc \in {"next", "progress"} => Len(q.results) <= planned.tasks /\ planned.tasks <= MaxTasks
  /\ q.pc \in Looping => Len(Intents(s)) \in Index /\ q.intent \in 1 .. (Len(Intents(s)) + 1)
  /\ q.pc \in {"context", "critic"} => q.intent <= Len(Intents(s))

\* What it executed: open intents, once each, up to where it stands.
Executed(s) ==
  LET q == sub[s] IN
  \A t \in Task, i \in Index : ran[t][i][s] > 0 =>
    /\ ran[t][i][s] = 1 /\ i <= Len(artifact[t].intents) /\ artifact[t].intents[i] = "open"
    /\ q.pc # "done" =>
         \/ t < At(s)
         \/ /\ t = At(s) /\ q.pc \in {"intent", "context", "critic", "record"}
            /\ q.pc \in {"intent", "context"} => i < q.intent
            /\ q.pc = "critic" => i <= q.intent

\* Its attempts are counted.
Budget(s) ==
  /\ \A t \in Task : Cardinality(RanBy(t, s)) <= MaxAttempts
  /\ sub[s].pc \in Looping => Cardinality(RanBy(At(s), s)) <= attemptsUsed(s)

\* What its counters say of the intents it passed.
Counters(s) ==
  LET q == sub[s] IN
  /\ q.pc \in Looping => /\ q.executed > 0 => RanBy(At(s), s) # {}
                         /\ ~ q.late => \A i \in Index : i < q.intent => Intents(s)[i] # "gated"
  /\ q.pc = "intent" /\ q.skipped = 0 => \A i \in Index : i < q.intent => i \in RanBy(At(s), s)
  /\ q.pc = "critic" /\ q.skipped = 0 => \A i \in Index : i <= q.intent => i \in RanBy(At(s), s)
  /\ q.pc = "critic" => Intents(s)[q.intent] = "open"
  /\ q.pc = "context" => ~ q.late /\ Intents(s)[q.intent] = "gated" /\ decision[At(s)] # "none"

\* What a status claims of task t, by the tables.
Hit(t, i, rn) == \E a \in Actor : rn[t][i][a] > 0
Listed(t, art) == {i \in Index : i <= Len(art[t].intents)}
Claim(t, status, art, dec, ctx, rn) ==
  /\ status = "completed" => \/ \A i \in Listed(t, art) : Hit(t, i, rn)
                             \/ ctx[t] # 0 /\ Hit(t, ctx[t], rn)
  /\ status = "completed_with_errors" => \E i \in Listed(t, art) : Hit(t, i, rn)
  /\ status = "requires_approval" => dec[t] # "none" /\ ctx[t] # 0

\* What holds of a project workflow.
SubInv(s) ==
  /\ Place(s) /\ Executed(s) /\ Budget(s) /\ Counters(s)
  /\ sub[s].pc = "record" => sub[s].outcome \in TaskStatus /\ Claim(At(s), sub[s].outcome, artifact, decision, context, ran)

\* What holds of an approval call: it executes once at most, what it read an approval for.
CallInv(c) ==
  LET q == call[c] IN
  /\ q.pc # "idle" => decision[q.task] # "none"
  /\ q.pc \in {"queued", "execute", "critic", "record"} => context[q.task] # 0
  /\ q.pc \in {"idle", "approved", "rejected", "queued", "execute"} => \A t \in Task : RanBy(t, c) = {}
  /\ q.pc \in {"execute", "critic"} => q.seen = "approved"
  /\ q.pc = "critic" => Hit(q.task, context[q.task], ran)
  /\ q.pc = "record" => q.outcome \in {"completed", "yielded", "failed"} /\ Claim(q.task, q.outcome, artifact, decision, context, ran)
  /\ \A t \in Task, i \in Index : ran[t][i][c] > 0 =>
       ran[t][i][c] = 1 /\ q.task = t /\ q.seen = "approved" /\ FirstGated(t, i, artifact)

\* What the rows of a task rest on.
RowInv(t) ==
  /\ context[t] # 0 => FirstGated(t, context[t], artifact) /\ decision[t] # "none"
  /\ Claim(t, taskRow[t], artifact, decision, context, ran)
  /\ taskRow[t] = "running" => aborts > 0 \/ \E s \in Submission : sub[s].pc \in Working /\ At(s) = t

\* The inductive invariant.
IInv ==
  /\ TypeOK
  /\ \A s \in Submission : SubInv(s)
  /\ \A c \in Call : CallInv(c)
  /\ \A t \in Task : RowInv(t)

\* With one submission: the tasks it did not come to have no request yet, ...
NoRequestYet(s) ==
  \A t \in Task : sub[s].pc # "done" /\ (t > At(s) \/ (t = At(s) /\ sub[s].pc \notin {"context", "record"})) => decision[t] = "none"

\* ... a task that completed never had one, so no call writes its row, ...
ResultsStand(s) ==
  /\ sub[s].pc = "record" /\ sub[s].outcome = "completed" => decision[At(s)] = "none"
  /\ \A t \in Task : t <= Len(sub[s].results) /\ sub[s].results[t] = "completed" => decision[t] = "none" /\ taskRow[t] = "completed"

\* ... and the project completes when every planned task did.
ProjectStands(s) ==
  projectRow = "completed" => /\ sub[s].pc = "done" /\ Len(sub[s].results) = planned.tasks /\ planned.tasks <= MaxTasks
                              /\ \A t \in Task : t <= planned.tasks => sub[s].results[t] = "completed"

OneInv == \A s \in Submission : NoRequestYet(s) /\ ResultsStand(s) /\ ProjectStands(s)

-----------------------------------------------------------------------------
(***************************************************************************)
(* What an invariant step needs.                                           *)
(***************************************************************************)

\* The fields of the state.
LEMMA Fields ==
  ASSUME TypeOK
  PROVE  /\ planned.tasks \in Nat /\ MaxTasks \in Nat /\ MaxIntents \in Nat /\ MaxAttempts \in Nat
         /\ \A t \in Task : /\ artifact[t].intents \in Seq(IntentKind) /\ Len(artifact[t].intents) \in Nat
                            /\ taskRow[t] \in RowStatus /\ decision[t] \in Decision /\ context[t] \in Nat
                            /\ \A i \in Index, a \in Actor : ran[t][i][a] \in Nat
         /\ \A s \in Submission : /\ sub[s] \in Sub /\ sub[s].pc \in SubPc /\ sub[s].intent \in Nat /\ sub[s].executed \in Nat
                                  /\ sub[s].skipped \in Nat /\ sub[s].late \in BOOLEAN /\ sub[s].outcome \in RowStatus
                                  /\ sub[s].results \in Seq(TaskStatus) /\ Len(sub[s].results) \in Nat
                                  /\ At(s) = Len(sub[s].results) + 1 /\ At(s) \in Nat
         /\ \A c \in Call : /\ call[c] \in CallState /\ call[c].pc \in CallPc /\ call[c].task \in Task
                            /\ call[c].seen \in Decision /\ call[c].outcome \in RowStatus
<1>1. planned \in [valid : BOOLEAN, tasks : Nat] /\ \A t \in Task : artifact[t] \in [sound : BOOLEAN, intents : Seq(IntentKind)]
  BY ConstantsAssumption DEF TypeOK
<1>2. MaxTasks \in Nat /\ MaxIntents \in Nat /\ MaxAttempts \in Nat
  BY ConstantsAssumption
<1>3. \A t \in Task : artifact[t].intents \in Seq(IntentKind) /\ Len(artifact[t].intents) \in Nat
  BY <1>1, LenProperties
<1>4. \A t \in Task : ran[t] \in [Index -> [Actor -> Nat]]
  BY DEF TypeOK, Index
<1>5. \A t \in Task : \A i \in Index, a \in Actor : ran[t][i][a] \in Nat
  BY <1>4
<1>6. \A s \in Submission : /\ sub[s] \in Sub /\ sub[s].pc \in SubPc /\ sub[s].intent \in Nat /\ sub[s].executed \in Nat
                            /\ sub[s].skipped \in Nat /\ sub[s].late \in BOOLEAN /\ sub[s].outcome \in RowStatus
                            /\ sub[s].results \in Seq(TaskStatus)
  BY DEF TypeOK, Sub
<1>7. \A s \in Submission : Len(sub[s].results) \in Nat /\ At(s) = Len(sub[s].results) + 1 /\ At(s) \in Nat
  BY <1>6, LenProperties DEF At
<1>8. \A c \in Call : /\ call[c] \in CallState /\ call[c].pc \in CallPc /\ call[c].task \in Task
                      /\ call[c].seen \in Decision /\ call[c].outcome \in RowStatus
  BY DEF TypeOK, CallState
<1>9. \A t \in Task : taskRow[t] \in RowStatus /\ decision[t] \in Decision /\ context[t] \in Nat
  BY DEF TypeOK
<1>10. QED
  BY <1>1, <1>2, <1>3, <1>5, <1>6, <1>7, <1>8, <1>9

\* Requests are not withdrawn, a stored context stays and what ran has run.
Grows ==
  /\ planned' = planned /\ artifact' = artifact /\ aborts <= aborts'
  /\ \A t \in Task : /\ decision[t] # "none" => decision'[t] # "none"
                     /\ context[t] # 0 => context'[t] = context[t]
                     /\ \A i \in Index, a \in Actor : ran[t][i][a] > 0 => ran'[t][i][a] > 0


\* A claim stays true.
LEMMA ClaimGrows ==
  ASSUME NEW t, NEW status, NEW art, NEW dec, NEW dec2, NEW ctx, NEW ctx2, NEW rn, NEW rn2,
         Claim(t, status, art, dec, ctx, rn), dec[t] # "none" => dec2[t] # "none",
         ctx[t] # 0 => ctx2[t] = ctx[t] /\ ctx[t] \in Index,
         \A i \in Index, a \in Actor : rn[t][i][a] > 0 => rn2[t][i][a] > 0
  PROVE  Claim(t, status, art, dec2, ctx2, rn2)
<1>1. \A i \in Index : Hit(t, i, rn) => Hit(t, i, rn2)
  BY DEF Hit
<1>2. Listed(t, art) \subseteq Index
  BY DEF Listed
<1>3. QED
  BY <1>1, <1>2 DEF Claim

\* So in a state of the invariant, when the tables grow.
LEMMA ClaimLater ==
  ASSUME IInv, Grows, NEW t \in Task
  PROVE  \A status : Claim(t, status, artifact, decision, context, ran) => Claim(t, status, artifact', decision', context', ran')
<1>1. context[t] # 0 => context'[t] = context[t] /\ context[t] \in Index
  BY DEF IInv, Grows, RowInv, FirstGated
<1>2. artifact' = artifact /\ (decision[t] # "none" => decision'[t] # "none")
      /\ \A i \in Index, a \in Actor : ran[t][i][a] > 0 => ran'[t][i][a] > 0
  BY DEF Grows
<1>3. QED
  BY <1>1, <1>2, ClaimGrows

\* A project workflow that does nothing keeps what holds of it.
LEMMA SubKeeps ==
  ASSUME IInv, Grows, NEW s \in Submission, sub'[s] = sub[s], \A t \in Task, i \in Index : ran'[t][i][s] = ran[t][i][s]
  PROVE  SubInv(s)'
<1>1. At(s)' = At(s) /\ Intents(s)' = Intents(s) /\ attemptsUsed(s)' = attemptsUsed(s) /\ artifact' = artifact /\ planned' = planned
  BY DEF At, Intents, Grows, attemptsUsed
<1>2. \A t \in Task : RanBy(t, s)' = RanBy(t, s)
  BY DEF RanBy
<1>3. Place(s)' /\ Executed(s)'
  BY <1>1 DEF IInv, SubInv, Place, Executed
<1>4. sub[s].pc \in Working => At(s) \in Task
  BY Fields DEF IInv, SubInv, Place, Task
<1>5. Budget(s)' /\ Counters(s)'
  <2>1. \A t \in Task : decision[t] # "none" => decision'[t] # "none"
    BY DEF Grows
  <2>2. Looping \subseteq Working /\ "context" \in Working /\ "intent" \in Working /\ "critic" \in Working
    BY DEF Looping, Working
  <2>3. Budget(s)'
    BY <1>1, <1>2, <1>4, <2>2 DEF IInv, SubInv, Budget
  <2>4. Counters(s)'
    BY <1>1, <1>2, <1>4, <2>1, <2>2 DEF IInv, SubInv, Counters
  <2>5. QED
    BY <2>3, <2>4
<1>6. sub'[s].pc = "record" =>
        sub'[s].outcome \in TaskStatus /\ Claim(At(s)', sub'[s].outcome, artifact', decision', context', ran')
  <2>1. SUFFICES ASSUME sub[s].pc = "record"
                 PROVE  sub[s].outcome \in TaskStatus /\ Claim(At(s), sub[s].outcome, artifact', decision', context', ran')
    BY <1>1
  <2>2. At(s) \in Task /\ sub[s].outcome \in TaskStatus /\ Claim(At(s), sub[s].outcome, artifact, decision, context, ran)
    BY <1>4, <2>1 DEF IInv, SubInv, Working
  <2>3. QED
    BY <2>2, ClaimLater
<1>7. QED
  BY <1>3, <1>5, <1>6 DEF SubInv

\* An approval call that does nothing keeps what holds of it.
LEMMA CallKeeps ==
  ASSUME IInv, Grows, NEW c \in Call, call'[c] = call[c], \A t \in Task, i \in Index : ran'[t][i][c] = ran[t][i][c]
  PROVE  CallInv(c)'
<1> DEFINE q == call[c]
<1>1. q.task \in Task /\ CallInv(c) /\ RowInv(q.task) /\ artifact' = artifact
  BY Fields DEF IInv, Grows
<1>2. /\ decision[q.task] # "none" => decision'[q.task] # "none"
      /\ context[q.task] # 0 => context'[q.task] = context[q.task] /\ context[q.task] \in Index
  BY <1>1 DEF Grows, RowInv, FirstGated
<1>3. \A t \in Task : RanBy(t, c)' = RanBy(t, c)
  BY DEF RanBy
<1>4. \A i \in Index : Hit(q.task, i, ran) => Hit(q.task, i, ran')
  BY <1>1 DEF Grows, Hit
<1>5. \A status : Claim(q.task, status, artifact, decision, context, ran) => Claim(q.task, status, artifact', decision', context', ran')
  BY <1>1, ClaimLater
<1>6. QED
  BY <1>1, <1>2, <1>3, <1>4, <1>5 DEF CallInv

\* What the rows rest on stays, where nothing else is written.
LEMMA RowKeeps ==
  ASSUME IInv, Grows, NEW t \in Task,
         taskRow'[t] = taskRow[t] \/ Claim(t, taskRow'[t], artifact', decision', context', ran'),
         context'[t] = context[t] \/ (FirstGated(t, context'[t], artifact) /\ decision'[t] # "none"),
         taskRow'[t] = "running" => aborts' > 0 \/ \E s \in Submission : sub'[s].pc \in Working /\ At(s)' = t
  PROVE  RowInv(t)'
<1>1. artifact' = artifact /\ (decision[t] # "none" => decision'[t] # "none")
  BY DEF Grows
<1>2. context'[t] # 0 => FirstGated(t, context'[t], artifact') /\ decision'[t] # "none"
  BY <1>1 DEF IInv, RowInv
<1>3. Claim(t, taskRow'[t], artifact', decision', context', ran')
  BY ClaimLater DEF IInv, RowInv
<1>4. QED
  BY <1>2, <1>3 DEF RowInv

\* A step of project workflow s: what it has to show.
LEMMA SubStep ==
  ASSUME IInv, TypeOK', Grows, NEW s \in Submission, SubInv(s)',
         \A u \in Submission : u # s => sub'[u] = sub[u], call' = call,
         \A t \in Task, i \in Index, a \in Actor : a # s => ran'[t][i][a] = ran[t][i][a],
         \A t \in Task : /\ taskRow'[t] = taskRow[t] \/ Claim(t, taskRow'[t], artifact', decision', context', ran')
                         /\ context'[t] = context[t] \/ (FirstGated(t, context'[t], artifact) /\ decision'[t] # "none")
                         /\ taskRow'[t] = "running" =>
                              \/ aborts' > 0 \/ (sub'[s].pc \in Working /\ At(s)' = t)
                              \/ taskRow[t] = "running" /\ ~ (sub[s].pc \in Working /\ At(s) = t)
  PROVE  IInv'
<1>1. \A u \in Submission : SubInv(u)'
  <2> TAKE u \in Submission
  <2>1. CASE u # s
    <3>1. \A t \in Task, i \in Index : ran'[t][i][u] = ran[t][i][u]
      BY <2>1 DEF Actor
    <3>2. QED
      BY <2>1, <3>1, SubKeeps
  <2>2. QED
    BY <2>1
<1>2. \A c \in Call : CallInv(c)'
  <2> TAKE c \in Call
  <2>1. c # s /\ c \in Actor
    BY ConstantsAssumption DEF Actor
  <2>2. QED
    BY <2>1, CallKeeps
<1>3. \A t \in Task : RowInv(t)'
  <2> TAKE t \in Task
  <2>1. taskRow'[t] = "running" => aborts' > 0 \/ \E u \in Submission : sub'[u].pc \in Working /\ At(u)' = t
    <3>1. SUFFICES ASSUME taskRow[t] = "running", ~ (sub[s].pc \in Working /\ At(s) = t), ~ (aborts' > 0)
                   PROVE  \E u \in Submission : sub'[u].pc \in Working /\ At(u)' = t
      OBVIOUS
    <3>2. aborts \in Nat /\ aborts' \in Nat /\ aborts <= aborts'
      BY ConstantsAssumption DEF IInv, TypeOK, Grows
    <3>3. PICK u \in Submission : sub[u].pc \in Working /\ At(u) = t
      BY <3>1, <3>2 DEF IInv, RowInv
    <3>4. sub'[u] = sub[u]
      BY <3>1, <3>3
    <3>5. QED
      BY <3>3, <3>4 DEF At
  <2>2. QED
    BY <2>1, RowKeeps
<1>4. QED
  BY <1>1, <1>2, <1>3 DEF IInv

\* A step of approval call c: what it has to show.
LEMMA CallStepInv ==
  ASSUME IInv, TypeOK', Grows, NEW c \in Call, CallInv(c)', sub' = sub,
         \A d \in Call : d # c => call'[d] = call[d],
         \A t \in Task, i \in Index, a \in Actor : a # c => ran'[t][i][a] = ran[t][i][a],
         context' = context,
         \A t \in Task : taskRow'[t] = taskRow[t] \/ (taskRow'[t] # "running" /\ Claim(t, taskRow'[t], artifact', decision', context', ran'))
  PROVE  IInv'
<1>1. \A u \in Submission : SubInv(u)'
  <2> TAKE u \in Submission
  <2>1. u # c /\ u \in Actor
    BY ConstantsAssumption DEF Actor
  <2>2. QED
    BY <2>1, SubKeeps
<1>2. \A d \in Call : CallInv(d)'
  <2> TAKE d \in Call
  <2>1. CASE d # c
    <3>1. \A t \in Task, i \in Index : ran'[t][i][d] = ran[t][i][d]
      BY <2>1 DEF Actor
    <3>2. QED
      BY <2>1, <3>1, CallKeeps
  <2>2. QED
    BY <2>1
<1>3. \A t \in Task : RowInv(t)'
  <2> TAKE t \in Task
  <2>1. taskRow'[t] = "running" => aborts' > 0 \/ \E u \in Submission : sub'[u].pc \in Working /\ At(u)' = t
    <3>1. aborts \in Nat /\ aborts' \in Nat /\ aborts <= aborts'
      BY ConstantsAssumption DEF IInv, TypeOK, Grows
    <3>2. taskRow'[t] = "running" => taskRow[t] = "running"
      OBVIOUS
    <3>3. QED
      BY <3>1, <3>2 DEF IInv, RowInv, At
  <2>2. QED
    BY <2>1, RowKeeps
<1>4. QED
  BY <1>1, <1>2, <1>3 DEF IInv

-----------------------------------------------------------------------------
(***************************************************************************)
(* The project workflow.                                                   *)
(***************************************************************************)

\* A project workflow becomes q.
LEMMA SubGoto ==
  ASSUME TypeOK, NEW s \in Submission, NEW q \in Sub, sub' = [sub EXCEPT ![s] = q]
  PROVE  /\ sub' \in [Submission -> Sub] /\ sub'[s] = q /\ \A u \in Submission : u # s => sub'[u] = sub[u]
         /\ At(s)' = Len(q.results) + 1
BY DEF TypeOK, At

\* While it works on a task, the task is one of the plan.
LEMMA AtTask ==
  ASSUME IInv, NEW s \in Submission
  PROVE  /\ sub[s].pc \in Working \cup {"next"} /\ At(s) <= planned.tasks => At(s) \in Task
         /\ sub[s].pc \in Working => At(s) \in Task /\ At(s) <= planned.tasks /\ planned.tasks <= MaxTasks
BY Fields DEF IInv, SubInv, Place, Task, Working

\* A step that changes nothing but the workflow and the project row.
LEMMA QuietStep ==
  ASSUME IInv, NEW s \in Submission, NEW q \in Sub, sub' = [sub EXCEPT ![s] = q], SubInv(s)',
         projectRow' \in ProjectStatus, UNCHANGED <<world, taskRow, approval, ran, call>>,
         aborts' \in 0 .. MaxAborts, aborts <= aborts',
         sub[s].pc \in Working => aborts' > 0 \/ (q.pc \in Working /\ q.results = sub[s].results)
  PROVE  IInv'
<1>1. TypeOK /\ TypeOK'
  BY SubGoto DEF IInv, TypeOK, world, approval
<1>2. Grows
  BY DEF Grows, world, approval
<1>3. /\ sub'[s] = q /\ (\A u \in Submission : u # s => sub'[u] = sub[u]) /\ At(s)' = Len(q.results) + 1
      /\ At(s) = Len(sub[s].results) + 1
  BY <1>1, SubGoto DEF At
<1>4. \A t \in Task : taskRow'[t] = "running" =>
           \/ aborts' > 0 \/ (sub'[s].pc \in Working /\ At(s)' = t)
           \/ taskRow[t] = "running" /\ ~ (sub[s].pc \in Working /\ At(s) = t)
  BY <1>3
<1>5. QED
  BY <1>1, <1>2, <1>3, <1>4, SubStep DEF world, approval

\* A workflow that ends has nothing left to show but what it ran.
LEMMA DoneInv ==
  ASSUME IInv, NEW s \in Submission, sub'[s].pc = "done", UNCHANGED <<world, ran>>
  PROVE  SubInv(s)'
<1>1. Executed(s) /\ Budget(s)
  BY DEF IInv, SubInv
<1>2. \A t \in Task : RanBy(t, s)' = RanBy(t, s)
  BY DEF RanBy
<1>3. Executed(s)' /\ Budget(s)'
  BY <1>1, <1>2 DEF Executed, Budget, Looping, world
<1>4. Place(s)' /\ Counters(s)'
  BY DEF Place, Counters, Looping, Working
<1>5. QED
  BY <1>3, <1>4 DEF SubInv

\* A workflow that has a result for its task has stayed within its bounds.
LEMMA RecordInv ==
  ASSUME IInv, NEW s \in Submission, sub[s].pc \in {"artifact", "intent", "context", "critic"},
         sub'[s].pc = "record", sub'[s].results = sub[s].results,
         sub'[s].outcome \in TaskStatus, UNCHANGED <<world, ran>>,
         Claim(At(s), sub'[s].outcome, artifact', decision', context', ran')
  PROVE  SubInv(s)'
<1>1. Place(s) /\ Executed(s) /\ Budget(s) /\ At(s)' = At(s)
  BY DEF IInv, SubInv, At
<1>2. \A t \in Task : RanBy(t, s)' = RanBy(t, s)
  BY DEF RanBy
<1>3. Executed(s)'
  BY <1>1 DEF Executed, world
<1>4. Budget(s)'
  BY <1>1, <1>2 DEF Budget, Looping
<1>5. Place(s)'
  BY <1>1 DEF Place, Looping, Working, world
<1>6. Counters(s)'
  BY DEF Counters, Looping
<1>7. QED
  BY <1>1, <1>3, <1>4, <1>5, <1>6 DEF SubInv

\* Returning a status for the task.
LEMMA ReturnEffect ==
  ASSUME IInv, NEW s \in Submission, NEW status \in TaskStatus, Return(s, status)
  PROVE  \E q \in Sub : /\ sub' = [sub EXCEPT ![s] = q] /\ sub'[s] = q
                        /\ q.pc = "record" /\ q.outcome = status /\ q.results = sub[s].results
<1> DEFINE q == [sub[s] EXCEPT !.pc = "record", !.outcome = status]
<1>1. sub[s] \in Sub /\ TypeOK
  BY Fields DEF IInv
<1>2. q \in Sub /\ q.pc = "record" /\ q.outcome = status /\ q.results = sub[s].results
  BY <1>1 DEF Sub, SubPc, RowStatus
<1>3. sub' = [sub EXCEPT ![s] = q]
  BY <1>1 DEF Return, TypeOK
<1>4. QED
  BY <1>1, <1>2, <1>3, SubGoto

\* A status that claims nothing.
LEMMA NoClaim ==
  \A t, status, art, dec, ctx, rn :
    status \notin {"completed", "completed_with_errors", "requires_approval"} => Claim(t, status, art, dec, ctx, rn)
BY DEF Claim

\* A task that returns without a claim.
LEMMA ReturnStep ==
  ASSUME IInv, NEW s \in Submission, sub[s].pc \in {"artifact", "intent", "context", "critic"},
         NEW status \in TaskStatus, Return(s, status), Claim(At(s), status, artifact, decision, context, ran),
         UNCHANGED <<world, projectRow, taskRow, approval, ran, call, aborts>>
  PROVE  IInv'
<1>1. PICK q \in Sub : /\ sub' = [sub EXCEPT ![s] = q] /\ sub'[s] = q
                       /\ q.pc = "record" /\ q.outcome = status /\ q.results = sub[s].results
  BY ReturnEffect
<1>2. SubInv(s)'
  BY <1>1, RecordInv DEF world, approval
<1>3. projectRow' \in ProjectStatus /\ aborts' \in 0 .. MaxAborts /\ aborts <= aborts'
  BY ConstantsAssumption DEF IInv, TypeOK
<1>4. q.pc \in Working
  BY <1>1 DEF Working
<1>5. QED
  BY <1>1, <1>2, <1>3, <1>4, QuietStep

\* A goal is submitted.
LEMMA SubmitInv ==
  ASSUME IInv, NEW s \in Submission, submitProjectRun(s)
  PROVE  IInv'
<1> DEFINE q == [sub[s] EXCEPT !.pc = "planning"]
<1>1. sub[s] \in Sub /\ TypeOK /\ Place(s) /\ Executed(s) /\ Budget(s)
  BY Fields DEF IInv, SubInv
<1>2. /\ sub[s].pc = "idle" /\ projectRow' = "planning" /\ UNCHANGED <<world, taskRow, approval, ran, call, aborts>>
      /\ sub' = [sub EXCEPT ![s] = q]
  BY DEF submitProjectRun
<1>3. q \in Sub /\ q.pc = "planning" /\ q.results = sub[s].results
  BY <1>1 DEF Sub, SubPc
<1> HIDE DEF q
<1>4. sub'[s] = q /\ At(s)' = At(s)
  BY <1>1, <1>2, <1>3, SubGoto DEF At
<1>5. \A t \in Task : RanBy(t, s)' = RanBy(t, s)
  BY <1>2 DEF RanBy
<1>6. Place(s)' /\ Executed(s)'
  BY <1>1, <1>2, <1>3, <1>4 DEF Place, Executed, Working, Looping, world
<1>7. Budget(s)' /\ Counters(s)'
  BY <1>1, <1>3, <1>4, <1>5 DEF Budget, Counters, Looping
<1>8. SubInv(s)'
  BY <1>3, <1>4, <1>6, <1>7 DEF SubInv
<1>9. projectRow' \in ProjectStatus /\ aborts' \in 0 .. MaxAborts /\ aborts <= aborts' /\ sub[s].pc \notin Working
  BY <1>2, ConstantsAssumption DEF IInv, TypeOK, ProjectStatus, Working
<1>10. QED
  BY <1>2, <1>3, <1>8, <1>9, QuietStep

\* The workflow ends, with a last project row or without.
LEMMA EndInv ==
  ASSUME IInv, NEW s \in Submission, sub' = [sub EXCEPT ![s].pc = "done"], projectRow' \in ProjectStatus,
         UNCHANGED <<world, taskRow, approval, ran, call>>, aborts' \in 0 .. MaxAborts, aborts <= aborts',
         sub[s].pc \in Working => aborts' > 0
  PROVE  IInv'
<1> DEFINE q == [sub[s] EXCEPT !.pc = "done"]
<1>1. sub[s] \in Sub /\ TypeOK
  BY Fields DEF IInv
<1>2. q \in Sub /\ q.pc = "done"
  BY <1>1 DEF Sub, SubPc
<1>3. sub' = [sub EXCEPT ![s] = q]
  OBVIOUS
<1> HIDE DEF q
<1>4. sub'[s].pc = "done"
  BY <1>1, <1>2, <1>3, SubGoto
<1>5. QED
  BY <1>2, <1>3, <1>4, DoneInv, QuietStep

\* The plan arrives.
LEMMA PlanInv ==
  ASSUME IInv, NEW s \in Submission, generateExecutionPlan(s)
  PROVE  IInv'
<1> DEFINE q == [sub[s] EXCEPT !.pc = "next"]
<1>1. sub[s] \in Sub /\ TypeOK /\ Place(s) /\ Executed(s) /\ Budget(s)
  BY Fields DEF IInv, SubInv
<1>2. sub[s].pc = "planning" /\ UNCHANGED <<world, taskRow, approval, ran, call, aborts>>
  BY DEF generateExecutionPlan
<1>3. aborts' \in 0 .. MaxAborts /\ aborts <= aborts' /\ sub[s].pc \notin Working /\ projectRow \in ProjectStatus
  BY <1>2, ConstantsAssumption DEF IInv, TypeOK, ProjectStatus, Working
<1>4. CASE sub' = [sub EXCEPT ![s].pc = "done"] /\ (projectRow' = projectRow \/ projectRow' = "failed")
  <2>1. projectRow' \in ProjectStatus
    BY <1>3, <1>4 DEF ProjectStatus, TaskStatus
  <2>2. QED
    BY <1>2, <1>3, <1>4, <2>1, EndInv
<1>5. CASE planned.tasks <= MaxTasks /\ projectRow' = "running" /\ sub' = [sub EXCEPT ![s].pc = "next"]
  <2>1. q \in Sub /\ q.pc = "next" /\ q.results = sub[s].results /\ sub' = [sub EXCEPT ![s] = q]
    BY <1>1, <1>5 DEF Sub, SubPc
  <2> HIDE DEF q
  <2>2. sub'[s] = q /\ At(s)' = At(s) /\ At(s) = 1 /\ Len(q.results) = 0 /\ planned.tasks \in Nat
    <3>1. q.results = <<>> /\ Len(<<>>) = 0
      BY <1>1, <1>2, <2>1 DEF Place
    <3>2. sub'[s] = q /\ At(s)' = Len(q.results) + 1 /\ At(s) = Len(sub[s].results) + 1
      BY <1>1, <2>1, SubGoto DEF At
    <3>3. QED
      BY <1>1, <2>1, <3>1, <3>2, Fields
  <2>3. \A t \in Task : RanBy(t, s)' = RanBy(t, s)
    BY <1>2 DEF RanBy
  <2>4. Place(s)' /\ Executed(s)'
    BY <1>1, <1>2, <1>5, <2>1, <2>2 DEF Place, Executed, Working, Looping, world
  <2>5. Budget(s)' /\ Counters(s)'
    BY <1>1, <2>1, <2>2, <2>3 DEF Budget, Counters, Looping
  <2>6. SubInv(s)'
    BY <2>1, <2>2, <2>4, <2>5 DEF SubInv
  <2>7. projectRow' \in ProjectStatus
    BY <1>5 DEF ProjectStatus
  <2>8. QED
    BY <1>2, <1>3, <2>1, <2>6, <2>7, QuietStep
<1>6. QED
  BY <1>4, <1>5 DEF generateExecutionPlan

\* A task starts.
LEMMA StartInv ==
  ASSUME IInv, NEW s \in Submission, startTask(s)
  PROVE  IInv'
<1> DEFINE q == [sub[s] EXCEPT !.pc = "artifact", !.intent = 1, !.executed = 0, !.skipped = 0, !.late = expired]
<1>1. sub[s] \in Sub /\ TypeOK /\ Place(s) /\ Executed(s) /\ Budget(s)
  BY Fields DEF IInv, SubInv
<1>2. /\ sub[s].pc = "next" /\ At(s) <= planned.tasks /\ taskRow' = [taskRow EXCEPT ![At(s)] = "running"]
      /\ UNCHANGED <<world, projectRow, approval, ran, call, aborts>>
  BY DEF startTask
<1>3. sub' = [sub EXCEPT ![s] = q]
  BY <1>1 DEF startTask, TypeOK, Sub
<1>4. q \in Sub /\ q.pc = "artifact" /\ q.results = sub[s].results /\ q.intent = 1 /\ q.executed = 0 /\ q.skipped = 0
  BY <1>1 DEF Sub, SubPc, TypeOK
<1> HIDE DEF q
<1>5. /\ sub'[s] = q /\ At(s)' = At(s) /\ sub' \in [Submission -> Sub] /\ At(s) \in Task
      /\ \A u \in Submission : u # s => sub'[u] = sub[u]
  BY <1>1, <1>2, <1>3, <1>4, SubGoto, AtTask DEF At
<1>6. Place(s)'
  BY <1>1, <1>2, <1>4, <1>5 DEF Place, Working, Looping, world
<1>7. Executed(s)'
  BY <1>1, <1>2, <1>4, <1>5 DEF Executed, world
<1>8. \A t \in Task : RanBy(t, s)' = RanBy(t, s)
  BY <1>2 DEF RanBy
<1>9. Budget(s)' /\ Counters(s)'
  BY <1>1, <1>4, <1>5, <1>8 DEF Budget, Counters, Looping
<1>10. SubInv(s)'
  BY <1>4, <1>5, <1>6, <1>7, <1>9 DEF SubInv
<1>11. TypeOK' /\ \A t \in Task : taskRow'[t] = taskRow[t] \/ (taskRow'[t] = "running" /\ At(s)' = t)
  <2>1. taskRow \in [Task -> RowStatus] /\ "running" \in RowStatus
    BY <1>1 DEF TypeOK, RowStatus
  <2>2. taskRow' \in [Task -> RowStatus] /\ \A t \in Task : taskRow'[t] = taskRow[t] \/ (taskRow'[t] = "running" /\ At(s) = t)
    BY <1>2, <1>5, <2>1
  <2>3. QED
    BY <1>1, <1>2, <1>5, <2>2 DEF TypeOK, world, approval
<1>12. Grows
  BY <1>2, ConstantsAssumption DEF Grows, world, approval, IInv, TypeOK
<1>13. \A t, art, dec, ctx, rn : Claim(t, "running", art, dec, ctx, rn)
  BY NoClaim
<1>14. sub'[s].pc \in Working /\ sub[s].pc \notin Working
  BY <1>2, <1>4, <1>5 DEF Working
<1>15. QED
  BY <1>2, <1>5, <1>10, <1>11, <1>12, <1>13, <1>14, SubStep DEF approval

\* The artifact arrives.
LEMMA ArtifactInv ==
  ASSUME IInv, NEW s \in Submission, checkArtifact(s)
  PROVE  IInv'
<1> DEFINE q == [sub[s] EXCEPT !.pc = "intent"]
<1>1. sub[s] \in Sub /\ TypeOK /\ Place(s) /\ Executed(s) /\ Budget(s)
  BY Fields DEF IInv, SubInv
<1>2. sub[s].pc = "artifact" /\ UNCHANGED <<world, projectRow, taskRow, approval, ran, call, aborts>>
  BY DEF checkArtifact
<1>3. CASE Return(s, "failed") \/ Return(s, "yielded")
  <2>1. "failed" \in TaskStatus /\ "yielded" \in TaskStatus
    BY DEF TaskStatus
  <2>2. QED
    BY <1>2, <1>3, <2>1, NoClaim, ReturnStep
<1>4. CASE Len(Intents(s)) \in 1 .. MaxIntents /\ sub' = [sub EXCEPT ![s].pc = "intent"]
  <2>1. /\ q \in Sub /\ q.pc = "intent" /\ q.results = sub[s].results /\ sub' = [sub EXCEPT ![s] = q]
        /\ q.intent = 1 /\ q.executed = 0 /\ q.skipped = 0
    BY <1>1, <1>2, <1>4 DEF Sub, SubPc, Place
  <2> HIDE DEF q
  <2>2. /\ sub'[s] = q /\ At(s)' = At(s) /\ At(s) \in Task /\ Intents(s)' = Intents(s) /\ At(s) <= planned.tasks
        /\ planned.tasks <= MaxTasks
    BY <1>1, <1>2, <2>1, SubGoto, AtTask DEF At, Intents, Working, world
  <2>3. \A t \in Task : RanBy(t, s)' = RanBy(t, s)
    BY <1>2 DEF RanBy
  <2>4. RanBy(At(s), s) = {}
    BY <1>1, <1>2, <2>2 DEF Executed, RanBy, Task, Index
  <2>5. Place(s)'
    <3>1. Len(Intents(s)) \in Index /\ 1 \in 1 .. (Len(Intents(s)) + 1)
      BY <1>4, ConstantsAssumption DEF Index
    <3>2. QED
      BY <1>2, <2>1, <2>2, <3>1 DEF Place, Working, Looping, world
  <2>6. Executed(s)'
    BY <1>1, <1>2, <2>1, <2>2 DEF Executed, world
  <2>7. Budget(s)'
    <3>1. Cardinality({}) = 0
      BY FS_EmptySet
    <3>2. attemptsUsed(s)' = 0
      BY <2>1, <2>2 DEF attemptsUsed
    <3>3. QED
      BY <1>1, <2>2, <2>3, <2>4, <3>1, <3>2 DEF Budget
  <2>8. Counters(s)'
    BY <2>1, <2>2 DEF Counters, Looping, Index
  <2>9. SubInv(s)'
    BY <2>1, <2>2, <2>5, <2>6, <2>7, <2>8 DEF SubInv
  <2>10. projectRow' \in ProjectStatus /\ aborts' \in 0 .. MaxAborts /\ aborts <= aborts' /\ q.pc \in Working
    BY <1>1, <1>2, <2>1, ConstantsAssumption DEF TypeOK, Working
  <2>11. QED
    BY <1>2, <2>1, <2>9, <2>10, QuietStep
<1>5. QED
  BY <1>3, <1>4 DEF checkArtifact

\* Where the loop stands.
LEMMA LoopFacts ==
  ASSUME IInv, NEW s \in Submission, sub[s].pc \in Looping
  PROVE  /\ At(s) \in Task /\ At(s) <= planned.tasks /\ planned.tasks <= MaxTasks /\ Len(Intents(s)) \in Index
         /\ sub[s].intent \in 1 .. (Len(Intents(s)) + 1) /\ sub[s].intent \in Nat
         /\ Index \subseteq Nat /\ Len(Intents(s)) \in Nat
         /\ sub[s].intent <= Len(Intents(s)) => sub[s].intent \in Index /\ Intents(s)[sub[s].intent] \in IntentKind
<1>1. /\ At(s) \in Task /\ At(s) <= planned.tasks /\ planned.tasks <= MaxTasks /\ Len(Intents(s)) \in Index
      /\ sub[s].intent \in 1 .. (Len(Intents(s)) + 1) /\ sub[s].intent \in Nat
  <2>1. sub[s].pc \in Working
    BY DEF Looping, Working
  <2>2. QED
    BY <2>1, AtTask, Fields DEF IInv, SubInv, Place
<1>2. Intents(s) \in Seq(IntentKind) /\ Len(Intents(s)) \in Nat /\ MaxIntents \in Nat
  BY <1>1, Fields DEF IInv, Intents
<1>3. ASSUME sub[s].intent <= Len(Intents(s))
      PROVE  sub[s].intent \in Index /\ Intents(s)[sub[s].intent] \in IntentKind
  <2>1. sub[s].intent \in 1 .. Len(Intents(s)) /\ Len(Intents(s)) <= MaxIntents
    BY <1>1, <1>2, <1>3 DEF Index
  <2>2. QED
    BY <1>2, <2>1, ElementOfSeq DEF Index
<1>4. QED
  BY <1>1, <1>2, <1>3 DEF Index

\* The loop goes on: workflow s passes its intent, or waits for the critic.
LEMMA LoopStep ==
  ASSUME IInv, NEW s \in Submission, sub[s].pc \in Looping, NEW q \in Sub, sub' = [sub EXCEPT ![s] = q],
         q.pc \in {"intent", "critic", "context"}, q.results = sub[s].results, q.late = sub[s].late,
         q.intent \in 1 .. (Len(Intents(s)) + 1), q.pc # "intent" => q.intent <= Len(Intents(s)),
         Executed(s)', Budget(s)', Counters(s)', UNCHANGED <<world, projectRow, taskRow, context, call, aborts>>,
         decision' \in [Task -> Decision], ran' \in [Task -> [Index -> [Actor -> Nat]]], Grows,
         \A t \in Task, i \in Index, a \in Actor : a # s => ran'[t][i][a] = ran[t][i][a]
  PROVE  IInv'
<1>1. TypeOK' /\ sub'[s] = q /\ (\A u \in Submission : u # s => sub'[u] = sub[u]) /\ At(s)' = At(s) /\ Intents(s)' = Intents(s)
  <2>1. TypeOK
    BY DEF IInv
  <2>2. sub' \in [Submission -> Sub] /\ sub'[s] = q /\ \A u \in Submission : u # s => sub'[u] = sub[u]
    BY <2>1, SubGoto
  <2>3. QED
    BY <2>1, <2>2 DEF TypeOK, world, Index, At, Intents
<1>2. Place(s)'
  BY <1>1, LoopFacts DEF Place, Working, Looping, world
<1>3. SubInv(s)'
  BY <1>1, <1>2 DEF SubInv
<1>4. sub'[s].pc \in Working
  BY <1>1 DEF Working
<1>5. QED
  BY <1>1, <1>3, <1>4, SubStep

\* A workflow's record when a counter moves on.
LEMMA LoopRecords ==
  ASSUME TypeOK, NEW s \in Submission
  PROVE  /\ \E q \in Sub : /\ [sub EXCEPT ![s].pc = "intent", ![s].skipped = @ + 1, ![s].intent = @ + 1] = [sub EXCEPT ![s] = q]
                          /\ q.pc = "intent" /\ q.results = sub[s].results /\ q.late = sub[s].late /\ q.intent = sub[s].intent + 1
                          /\ q.executed = sub[s].executed /\ q.skipped = sub[s].skipped + 1
         /\ \E q \in Sub : /\ [sub EXCEPT ![s].pc = "context", ![s].skipped = @ + 1] = [sub EXCEPT ![s] = q]
                          /\ q.pc = "context" /\ q.results = sub[s].results /\ q.late = sub[s].late /\ q.intent = sub[s].intent
                          /\ q.executed = sub[s].executed /\ q.skipped = sub[s].skipped + 1
         /\ \E q \in Sub : /\ [sub EXCEPT ![s].pc = "critic", ![s].executed = @ + 1] = [sub EXCEPT ![s] = q]
                          /\ q.pc = "critic" /\ q.results = sub[s].results /\ q.late = sub[s].late /\ q.intent = sub[s].intent
                          /\ q.executed = sub[s].executed + 1 /\ q.skipped = sub[s].skipped
         /\ \E q \in Sub : /\ [sub EXCEPT ![s].pc = "intent", ![s].intent = @ + 1] = [sub EXCEPT ![s] = q]
                          /\ q.pc = "intent" /\ q.results = sub[s].results /\ q.late = sub[s].late /\ q.intent = sub[s].intent + 1
                          /\ q.executed = sub[s].executed /\ q.skipped = sub[s].skipped
<1> DEFINE r == sub[s]
<1>1. r \in Sub /\ r.skipped \in Nat /\ r.executed \in Nat /\ r.intent \in Nat /\ sub \in [Submission -> Sub]
  BY Fields DEF TypeOK
<1>2. PICK sk \in Nat, ex \in Nat, it \in Nat : sk = r.skipped + 1 /\ ex = r.executed + 1 /\ it = r.intent + 1
  BY <1>1
<1>3. \A p \in SubPc :
        /\ [r EXCEPT !.pc = p, !.skipped = sk, !.intent = it] \in Sub /\ [r EXCEPT !.pc = p, !.skipped = sk] \in Sub
        /\ [r EXCEPT !.pc = p, !.executed = ex] \in Sub /\ [r EXCEPT !.pc = p, !.intent = it] \in Sub
  BY <1>1 DEF Sub
<1>4. "intent" \in SubPc /\ "context" \in SubPc /\ "critic" \in SubPc
  BY DEF SubPc
<1>5. /\ [sub EXCEPT ![s].pc = "intent", ![s].skipped = @ + 1, ![s].intent = @ + 1]
           = [sub EXCEPT ![s] = [r EXCEPT !.pc = "intent", !.skipped = sk, !.intent = it]]
      /\ [sub EXCEPT ![s].pc = "context", ![s].skipped = @ + 1] = [sub EXCEPT ![s] = [r EXCEPT !.pc = "context", !.skipped = sk]]
      /\ [sub EXCEPT ![s].pc = "critic", ![s].executed = @ + 1] = [sub EXCEPT ![s] = [r EXCEPT !.pc = "critic", !.executed = ex]]
      /\ [sub EXCEPT ![s].pc = "intent", ![s].intent = @ + 1] = [sub EXCEPT ![s] = [r EXCEPT !.pc = "intent", !.intent = it]]
  BY <1>1, <1>2 DEF Sub
<1> DEFINE q1 == [r EXCEPT !.pc = "intent", !.skipped = sk, !.intent = it]
<1> DEFINE q2 == [r EXCEPT !.pc = "context", !.skipped = sk]
<1> DEFINE q3 == [r EXCEPT !.pc = "critic", !.executed = ex]
<1> DEFINE q4 == [r EXCEPT !.pc = "intent", !.intent = it]
<1>6. /\ q1 \in Sub /\ q1.pc = "intent" /\ q1.results = r.results /\ q1.late = r.late /\ q1.intent = it
      /\ q1.executed = r.executed /\ q1.skipped = sk
  BY <1>1, <1>3, <1>4 DEF Sub
<1>7. /\ q2 \in Sub /\ q2.pc = "context" /\ q2.results = r.results /\ q2.late = r.late /\ q2.intent = r.intent
      /\ q2.executed = r.executed /\ q2.skipped = sk
  BY <1>1, <1>3, <1>4 DEF Sub
<1>8. /\ q3 \in Sub /\ q3.pc = "critic" /\ q3.results = r.results /\ q3.late = r.late /\ q3.intent = r.intent
      /\ q3.executed = ex /\ q3.skipped = r.skipped
  BY <1>1, <1>3, <1>4 DEF Sub
<1>9. /\ q4 \in Sub /\ q4.pc = "intent" /\ q4.results = r.results /\ q4.late = r.late /\ q4.intent = it
      /\ q4.executed = r.executed /\ q4.skipped = r.skipped
  BY <1>1, <1>3, <1>4 DEF Sub
<1> HIDE DEF q1, q2, q3, q4
<1>10. QED
  BY <1>2, <1>6, <1>7, <1>8, <1>9, <1>5 DEF q1, q2, q3, q4

\* An intent is skipped: it was not gated, unless the task started too late.
LEMMA SkipInv ==
  ASSUME IInv, NEW s \in Submission, skipIntent(s)
  PROVE  IInv'
<1>1. sub[s] \in Sub /\ TypeOK /\ Executed(s) /\ Budget(s) /\ Counters(s) /\ sub[s].skipped \in Nat /\ sub[s].executed \in Nat
  BY Fields DEF IInv, SubInv
<1>2. /\ sub[s].pc = "intent" /\ sub[s].intent <= Len(Intents(s)) /\ UNCHANGED <<world, projectRow, taskRow, approval, ran, call, aborts>>
      /\ Kind(s) = "invalid" \/ Policy(s) = "deny"
  BY DEF skipIntent, InLoop
<1>3. sub[s].pc \in Looping
  BY <1>2 DEF Looping
<1>4. PICK q \in Sub : /\ sub' = [sub EXCEPT ![s] = q] /\ q.pc = "intent" /\ q.results = sub[s].results /\ q.late = sub[s].late
                       /\ q.intent = sub[s].intent + 1 /\ q.executed = sub[s].executed /\ q.skipped = sub[s].skipped + 1
  BY <1>1, LoopRecords DEF skipIntent, Skip
<1>6. sub'[s] = q /\ At(s)' = At(s) /\ Intents(s)' = Intents(s)
  BY <1>1, <1>2, <1>4, SubGoto DEF At, Intents, world
<1>7. At(s) \in Task /\ sub[s].intent \in Nat /\ Len(Intents(s)) \in Nat /\ Index \subseteq Nat
  BY <1>3, LoopFacts
<1>8. \A t \in Task : RanBy(t, s)' = RanBy(t, s)
  BY <1>2 DEF RanBy
<1>9. Executed(s)'
  BY <1>1, <1>2, <1>4, <1>6, <1>7 DEF Executed, world
<1>10. Budget(s)'
  <2>1. attemptsUsed(s) \in Nat /\ attemptsUsed(s)' = attemptsUsed(s) + 1
    BY <1>1, <1>4, <1>6 DEF attemptsUsed
  <2>2. Cardinality(RanBy(At(s), s)) \in Nat
    <3>1. IsFiniteSet(Index) /\ RanBy(At(s), s) \subseteq Index
      BY FS_Interval, ConstantsAssumption DEF Index, RanBy
    <3>2. QED
      BY <3>1, FS_Subset, FS_CardinalityType
  <2>3. QED
    BY <1>1, <1>3, <1>4, <1>6, <1>7, <1>8, <2>1, <2>2 DEF Budget
<1>11. Counters(s)'
  <2>1. ~ sub[s].late => Intents(s)[sub[s].intent] # "gated"
    BY <1>2 DEF Policy, evaluatePolicy, Kind
  <2>2. QED
    BY <1>1, <1>3, <1>4, <1>6, <1>7, <1>8, <2>1 DEF Counters, Looping
<1>12. Grows
  BY <1>2, ConstantsAssumption DEF Grows, world, approval, IInv, TypeOK
<1>13. decision' \in [Task -> Decision] /\ ran' \in [Task -> [Index -> [Actor -> Nat]]]
  BY <1>1, <1>2 DEF TypeOK, Index, approval
<1>14. q.intent \in 1 .. (Len(Intents(s)) + 1)
  BY <1>2, <1>4, <1>7
<1>15. QED
  BY <1>2, <1>3, <1>4, <1>9, <1>10, <1>11, <1>12, <1>13, <1>14, LoopStep DEF approval

\* An approval is asked for.
LEMMA AskInv ==
  ASSUME IInv, NEW s \in Submission, createApprovalRequest(s)
  PROVE  IInv'
<1>1. sub[s] \in Sub /\ TypeOK /\ Executed(s) /\ Budget(s) /\ Counters(s) /\ sub[s].skipped \in Nat /\ sub[s].executed \in Nat
  BY Fields DEF IInv, SubInv
<1>2. /\ sub[s].pc = "intent" /\ sub[s].intent <= Len(Intents(s)) /\ UNCHANGED <<world, projectRow, taskRow, context, ran, call, aborts>>
      /\ Policy(s) = "requires_approval" /\ decision' = [decision EXCEPT ![At(s)] = "requested"]
  BY DEF createApprovalRequest, InLoop
<1>3. sub[s].pc \in Looping
  BY <1>2 DEF Looping
<1>4. PICK q \in Sub : /\ sub' = [sub EXCEPT ![s] = q] /\ q.pc = "context" /\ q.results = sub[s].results /\ q.late = sub[s].late
                       /\ q.intent = sub[s].intent /\ q.executed = sub[s].executed /\ q.skipped = sub[s].skipped + 1
  BY <1>1, LoopRecords DEF createApprovalRequest
<1>6. sub'[s] = q /\ At(s)' = At(s) /\ Intents(s)' = Intents(s)
  BY <1>1, <1>2, <1>4, SubGoto DEF At, Intents, world
<1>7. At(s) \in Task /\ sub[s].intent \in Nat /\ Len(Intents(s)) \in Nat /\ Index \subseteq Nat
      /\ sub[s].intent \in 1 .. (Len(Intents(s)) + 1)
  BY <1>3, LoopFacts
<1>8. \A t \in Task : RanBy(t, s)' = RanBy(t, s)
  BY <1>2 DEF RanBy
<1>9. Executed(s)'
  BY <1>1, <1>2, <1>4, <1>6, <1>7 DEF Executed, world
<1>10. Budget(s)'
  <2>1. attemptsUsed(s) \in Nat /\ attemptsUsed(s)' = attemptsUsed(s) + 1
    BY <1>1, <1>4, <1>6 DEF attemptsUsed
  <2>2. Cardinality(RanBy(At(s), s)) \in Nat
    <3>1. IsFiniteSet(Index) /\ RanBy(At(s), s) \subseteq Index
      BY FS_Interval, ConstantsAssumption DEF Index, RanBy
    <3>2. QED
      BY <3>1, FS_Subset, FS_CardinalityType
  <2>3. QED
    BY <1>1, <1>3, <1>4, <1>6, <1>7, <1>8, <2>1, <2>2 DEF Budget
<1>11. decision' \in [Task -> Decision] /\ decision'[At(s)] = "requested" /\ \A t \in Task : t # At(s) => decision'[t] = decision[t]
  <2>1. decision \in [Task -> Decision] /\ "requested" \in Decision
    BY <1>1 DEF TypeOK, Decision
  <2>2. QED
    BY <1>2, <1>7, <2>1
<1>12. Counters(s)'
  <2>1. ~ sub[s].late /\ Intents(s)[sub[s].intent] = "gated"
    BY <1>2 DEF Policy, evaluatePolicy, Kind
  <2>2. QED
    BY <1>1, <1>3, <1>4, <1>6, <1>7, <1>8, <1>11, <2>1 DEF Counters, Looping
<1>13. Grows
  BY <1>2, <1>7, <1>11, ConstantsAssumption DEF Grows, world, IInv, TypeOK
<1>14. ran' \in [Task -> [Index -> [Actor -> Nat]]]
  BY <1>1, <1>2 DEF TypeOK, Index
<1>15. QED
  BY <1>2, <1>3, <1>4, <1>7, <1>9, <1>10, <1>11, <1>12, <1>13, <1>14, LoopStep

\* What it would continue with is stored: the first intent that needs an approval, as before.
LEMMA StoreInv ==
  ASSUME IInv, NEW s \in Submission, recordContinuationContext(s)
  PROVE  IInv'
<1>1. sub[s] \in Sub /\ TypeOK /\ Counters(s)
  BY Fields DEF IInv, SubInv
<1>2. /\ sub[s].pc = "context" /\ context' = [context EXCEPT ![At(s)] = sub[s].intent] /\ Return(s, "requires_approval")
      /\ UNCHANGED <<world, projectRow, taskRow, decision, ran, call, aborts>>
  BY DEF recordContinuationContext
<1>3. sub[s].pc \in Looping /\ sub[s].pc \in Working
  BY <1>2 DEF Looping, Working
<1>4. sub[s].intent <= Len(Intents(s))
  BY <1>2 DEF IInv, SubInv, Place
<1>5. At(s) \in Task /\ sub[s].intent \in Index /\ sub[s].intent \in Nat /\ sub[s].intent # 0
  BY <1>3, <1>4, LoopFacts
<1>6. FirstGated(At(s), sub[s].intent, artifact) /\ decision[At(s)] # "none"
  BY <1>1, <1>2, <1>3, <1>4, <1>5 DEF Counters, FirstGated, Intents
<1>7. context' \in [Task -> Nat] /\ context'[At(s)] = sub[s].intent /\ \A t \in Task : t # At(s) => context'[t] = context[t]
  BY <1>1, <1>2, <1>5 DEF TypeOK
<1>8. context[At(s)] # 0 => context[At(s)] = sub[s].intent
  <2>1. SUFFICES ASSUME context[At(s)] # 0 PROVE context[At(s)] = sub[s].intent
    OBVIOUS
  <2>2. FirstGated(At(s), context[At(s)], artifact)
    BY <1>5, <2>1 DEF IInv, RowInv
  <2>3. context[At(s)] \in Nat
    BY <1>1, <1>5 DEF TypeOK
  <2>4. QED
    BY <1>5, <1>6, <2>2, <2>3 DEF FirstGated
<1>9. Grows
  BY <1>2, <1>5, <1>7, <1>8, ConstantsAssumption DEF Grows, world, IInv, TypeOK
<1>10. PICK q \in Sub : /\ sub' = [sub EXCEPT ![s] = q] /\ sub'[s] = q
                        /\ q.pc = "record" /\ q.outcome = "requires_approval" /\ q.results = sub[s].results
  <2>1. "requires_approval" \in TaskStatus
    BY DEF TaskStatus
  <2>2. QED
    BY <1>2, <2>1, ReturnEffect
<1>11. Claim(At(s), "requires_approval", artifact', decision', context', ran')
  BY <1>2, <1>5, <1>6, <1>7 DEF Claim
<1>12. SubInv(s)'
  BY <1>2, <1>10, <1>11, RecordInv DEF TaskStatus
<1>13. TypeOK' /\ At(s)' = At(s) /\ sub'[s].pc \in Working /\ \A u \in Submission : u # s => sub'[u] = sub[u]
  BY <1>1, <1>2, <1>7, <1>10, SubGoto DEF TypeOK, world, At, Working
<1>14. \A t \in Task : context'[t] = context[t] \/ (FirstGated(t, context'[t], artifact) /\ decision'[t] # "none")
  BY <1>2, <1>6, <1>7
<1>15. QED
  BY <1>2, <1>9, <1>12, <1>13, <1>14, SubStep

\* A workflow that reaches an intent for the first time.
LEMMA ReachEffect ==
  ASSUME IInv, NEW a \in Actor, NEW t \in Task, NEW i \in Index, Reach(a, t, i)
  PROVE  /\ ran' \in [Task -> [Index -> [Actor -> Nat]]] /\ ran'[t][i][a] = ran[t][i][a] + 1
         /\ \A u \in Task, j \in Index, b \in Actor : ~ (u = t /\ j = i /\ b = a) => ran'[u][j][b] = ran[u][j][b]
<1>1. ran \in [Task -> [Index -> [Actor -> Nat]]]
  BY DEF IInv, TypeOK, Index
<1>2. QED
  BY <1>1 DEF Reach

\* The attempts of a workflow when it reaches one more intent.
LEMMA CountReached ==
  ASSUME NEW S, NEW T, NEW i, IsFiniteSet(S), i \notin S, T = S \cup {i}
  PROVE  IsFiniteSet(T) /\ Cardinality(T) = Cardinality(S) + 1 /\ Cardinality(S) \in Nat
BY FS_AddElement, FS_CardinalityType

\* An open intent is executed, and fails or goes to the critic.
LEMMA ExecuteInv ==
  ASSUME IInv, NEW s \in Submission, executeIntent(s)
  PROVE  IInv'
<1>0. sub[s].pc \in Looping /\ sub[s].intent <= Len(Intents(s))
  BY DEF executeIntent, InLoop, Looping
<1> PICK t \in Task, n \in Index : t = At(s) /\ n = sub[s].intent
  BY <1>0, LoopFacts
<1>1. sub[s] \in Sub /\ TypeOK /\ Executed(s) /\ Budget(s) /\ Counters(s) /\ sub[s].skipped \in Nat /\ sub[s].executed \in Nat
  BY Fields DEF IInv, SubInv
<1>2. /\ sub[s].pc = "intent" /\ n <= Len(Intents(s)) /\ UNCHANGED <<world, projectRow, taskRow, approval, call, aborts>>
      /\ Kind(s) # "invalid" /\ Policy(s) = "allow"
  BY DEF executeIntent, InLoop
<1>3. sub[s].pc \in Looping
  BY <1>2 DEF Looping
<1>4. t \in Task /\ n \in Nat /\ n \in Index /\ Len(Intents(s)) \in Nat /\ Index \subseteq Nat /\ Intents(s)[n] \in IntentKind /\ s \in Actor
      /\ n \in 1 .. (Len(Intents(s)) + 1)
  BY <1>2, <1>3, LoopFacts DEF Actor
<1>5. attemptsUsed(s) < MaxAttempts /\ Intents(s)[n] = "open"
  <2>1. ~ (attemptsUsed(s) >= MaxAttempts) /\ Kind(s) # "denied" /\ Kind(s) # "gated"
    BY <1>2 DEF Policy, evaluatePolicy
  <2>2. Kind(s) = "open"
    BY <1>2, <1>4, <2>1 DEF Kind, IntentKind
  <2>3. attemptsUsed(s) \in Nat /\ MaxAttempts \in Nat
    BY <1>1, ConstantsAssumption DEF attemptsUsed
  <2>4. QED
    BY <2>1, <2>2, <2>3 DEF Kind
<1>6. ran[t][n][s] = 0
  <2>1. ran[t][n][s] \in Nat
    BY <1>1, <1>4, Fields
  <2>2. ~ (ran[t][n][s] > 0)
    <3>1. SUFFICES ASSUME ran[t][n][s] > 0 PROVE FALSE
      OBVIOUS
    <3>2. t < At(s) \/ n < sub[s].intent
      BY <1>1, <1>2, <3>1 DEF Executed
    <3>3. t \in Nat /\ n \in Nat
      BY <1>4 DEF Task
    <3>4. QED
      BY <3>2, <3>3
  <2>3. QED
    BY <2>1, <2>2
<1>7. \E q \in Sub :
       /\ sub' = [sub EXCEPT ![s] = q] /\ q.results = sub[s].results /\ q.late = sub[s].late
       /\ q.executed \in Nat /\ q.skipped \in Nat /\ q.executed + q.skipped = attemptsUsed(s) + 1
       /\ \/ /\ q.pc = "critic" /\ q.intent = n /\ q.executed = sub[s].executed + 1 /\ q.skipped = sub[s].skipped /\ Reach(s, t, n)
          \/ /\ q.pc = "intent" /\ q.intent = n + 1 /\ q.executed = sub[s].executed /\ q.skipped = sub[s].skipped + 1
             /\ (Reach(s, t, n) \/ ran' = ran)
  <2>1. CASE Reach(s, At(s), sub[s].intent) /\ sub' = [sub EXCEPT ![s].pc = "critic", ![s].executed = @ + 1]
    <3>1. PICK q \in Sub : /\ sub' = [sub EXCEPT ![s] = q] /\ q.pc = "critic" /\ q.results = sub[s].results /\ q.late = sub[s].late
                           /\ q.intent = sub[s].intent /\ q.executed = sub[s].executed + 1 /\ q.skipped = sub[s].skipped
      BY <1>1, <2>1, LoopRecords
    <3>2. q.executed \in Nat /\ q.skipped \in Nat /\ q.executed + q.skipped = attemptsUsed(s) + 1 /\ Reach(s, t, n)
      BY <1>1, <2>1, <3>1 DEF attemptsUsed
    <3>3. QED
      BY <3>1, <3>2
  <2>2. CASE (Reach(s, At(s), sub[s].intent) \/ UNCHANGED ran) /\ Skip(s)
    <3>1. PICK q \in Sub : /\ sub' = [sub EXCEPT ![s] = q] /\ q.pc = "intent" /\ q.results = sub[s].results /\ q.late = sub[s].late
                           /\ q.intent = sub[s].intent + 1 /\ q.executed = sub[s].executed /\ q.skipped = sub[s].skipped + 1
      BY <1>1, <2>2, LoopRecords DEF Skip
    <3>2. q.executed \in Nat /\ q.skipped \in Nat /\ q.executed + q.skipped = attemptsUsed(s) + 1 /\ (Reach(s, t, n) \/ ran' = ran)
      BY <1>1, <2>2, <3>1 DEF attemptsUsed
    <3>3. QED
      BY <3>1, <3>2
  <2>3. QED
    BY <2>1, <2>2 DEF executeIntent
<1>8. PICK q \in Sub :
       /\ sub' = [sub EXCEPT ![s] = q] /\ q.results = sub[s].results /\ q.late = sub[s].late
       /\ q.executed \in Nat /\ q.skipped \in Nat /\ q.executed + q.skipped = attemptsUsed(s) + 1
       /\ \/ /\ q.pc = "critic" /\ q.intent = n /\ q.executed = sub[s].executed + 1 /\ q.skipped = sub[s].skipped /\ Reach(s, t, n)
          \/ /\ q.pc = "intent" /\ q.intent = n + 1 /\ q.executed = sub[s].executed /\ q.skipped = sub[s].skipped + 1
             /\ (Reach(s, t, n) \/ ran' = ran)
  BY <1>7
<1>9. Reach(s, t, n) \/ ran' = ran
  BY <1>8
<1>10. /\ q.pc \in {"intent", "critic"} /\ attemptsUsed(s) \in Nat
       /\ q.pc = "critic" => q.intent = n /\ q.executed = sub[s].executed + 1 /\ q.skipped = sub[s].skipped /\ Reach(s, t, n)
       /\ q.pc = "intent" => q.intent = n + 1 /\ q.executed = sub[s].executed /\ q.skipped # 0
  BY <1>1, <1>8 DEF attemptsUsed
<1>11. sub'[s] = q /\ At(s)' = t /\ Intents(s)' = Intents(s)
  BY <1>1, <1>2, <1>9, <1>8, <1>10, SubGoto DEF At, Intents, world
<1>12. /\ ran' \in [Task -> [Index -> [Actor -> Nat]]] /\ ran'[t][n][s] \in {0, 1} /\ (Reach(s, t, n) => ran'[t][n][s] = 1)
       /\ \A u \in Task, j \in Index, b \in Actor : ~ (u = t /\ j = n /\ b = s) => ran'[u][j][b] = ran[u][j][b]
  <2>1. ran \in [Task -> [Index -> [Actor -> Nat]]]
    BY <1>1 DEF TypeOK, Index
  <2>2. CASE Reach(s, t, n)
    BY <1>4, <1>6, <2>2, ReachEffect
  <2>3. CASE ran' = ran /\ ~ Reach(s, t, n)
    BY <1>6, <2>1, <2>3
  <2>4. QED
    BY <1>9, <2>2, <2>3
<1>13. /\ \A u \in Task : u # t => RanBy(u, s)' = RanBy(u, s)
       /\ RanBy(t, s)' = RanBy(t, s) \/ RanBy(t, s)' = RanBy(t, s) \cup {n}
       /\ n \notin RanBy(t, s) /\ RanBy(t, s) \subseteq RanBy(t, s)' /\ (Reach(s, t, n) => n \in RanBy(t, s)')
  <2>1. \A u \in Task, j \in Index : ~ (u = t /\ j = n) => ran'[u][j][s] = ran[u][j][s]
    BY <1>4, <1>12
  <2>2. \A u \in Task : u # t => RanBy(u, s)' = RanBy(u, s)
    BY <2>1 DEF RanBy
  <2>3. n \notin RanBy(t, s) /\ (n \in RanBy(t, s)' <=> ran'[t][n][s] = 1)
    BY <1>6, <1>12 DEF RanBy
  <2>4. \A j \in Index : j # n => (j \in RanBy(t, s)' <=> j \in RanBy(t, s))
    BY <2>1 DEF RanBy
  <2>5. RanBy(t, s) \subseteq Index /\ RanBy(t, s)' \subseteq Index
    BY DEF RanBy, Index
  <2>6. CASE n \in RanBy(t, s)'
    <3>1. RanBy(t, s)' = RanBy(t, s) \cup {n}
      BY <2>4, <2>5, <2>6
    <3>2. QED
      BY <2>2, <2>3, <2>6, <3>1
  <2>7. CASE n \notin RanBy(t, s)'
    <3>1. RanBy(t, s)' = RanBy(t, s)
      BY <2>3, <2>4, <2>5, <2>7
    <3>2. QED
      BY <1>12, <2>2, <2>3, <2>7, <3>1
  <2>8. QED
    BY <2>6, <2>7
<1>14. Executed(s)'
  <2> SUFFICES ASSUME NEW u \in Task, NEW i \in Index, ran'[u][i][s] > 0
               PROVE  /\ ran'[u][i][s] = 1 /\ i <= Len(artifact'[u].intents) /\ artifact'[u].intents[i] = "open"
                      /\ sub'[s].pc # "done" =>
                           \/ u < At(s)'
                           \/ /\ u = At(s)' /\ sub'[s].pc \in {"intent", "context", "critic", "record"}
                              /\ sub'[s].pc \in {"intent", "context"} => i < sub'[s].intent
                              /\ sub'[s].pc = "critic" => i <= sub'[s].intent
    BY DEF Executed
  <2>1. CASE u = t /\ i = n
    BY <1>2, <1>4, <1>5, <1>8, <1>10, <1>11, <1>12, <2>1 DEF Intents, world
  <2>2. CASE ~ (u = t /\ i = n)
    <3>1. ran'[u][i][s] = ran[u][i][s]
      BY <1>4, <1>12, <2>2
    <3>2. QED
      BY <1>1, <1>2, <1>4, <1>8, <1>10, <1>11, <3>1 DEF Executed, world
  <2>3. QED
    BY <2>1, <2>2
<1>15. Budget(s)'
  <2>1. IsFiniteSet(RanBy(t, s))
    <3>1. IsFiniteSet(Index) /\ RanBy(t, s) \subseteq Index
      BY FS_Interval, ConstantsAssumption DEF Index, RanBy
    <3>2. QED
      BY <3>1, FS_Subset
  <2>2. Cardinality(RanBy(t, s)) \in Nat /\ Cardinality(RanBy(t, s) \cup {n}) = Cardinality(RanBy(t, s)) + 1
    BY <1>13, <2>1, CountReached
  <2>3. Cardinality(RanBy(t, s)) <= attemptsUsed(s)
    BY <1>1, <1>3 DEF Budget
  <2>4. attemptsUsed(s)' = attemptsUsed(s) + 1 /\ MaxAttempts \in Nat
    BY <1>8, <1>10, <1>11, ConstantsAssumption DEF attemptsUsed
  <2>5. \/ Cardinality(RanBy(t, s)') = Cardinality(RanBy(t, s))
        \/ Cardinality(RanBy(t, s)') = Cardinality(RanBy(t, s)) + 1
    <3>1. CASE RanBy(t, s)' = RanBy(t, s)
      BY <3>1
    <3>2. CASE RanBy(t, s)' = RanBy(t, s) \cup {n}
      BY <2>2, <3>2
    <3>3. QED
      BY <1>13, <3>1, <3>2
  <2>6. Cardinality(RanBy(t, s)') \in Nat /\ Cardinality(RanBy(t, s)') <= Cardinality(RanBy(t, s)) + 1
    BY <2>2, <2>5
  <2>7. Cardinality(RanBy(t, s)') <= MaxAttempts /\ Cardinality(RanBy(t, s)') <= attemptsUsed(s)'
    BY <1>5, <1>8, <1>10, <2>2, <2>3, <2>4, <2>5, <2>6
  <2>8. QED
    BY <1>1, <1>11, <1>13, <2>7 DEF Budget
<1>16. Counters(s)'
  <2>1. \A i \in Index : i < n + 1 => i < n \/ i = n
    BY <1>4
  <2>2. \A i \in Index : i <= n => i < n \/ i = n
    BY <1>4
  <2>3. /\ sub[s].executed > 0 => RanBy(t, s) # {}
        /\ ~ sub[s].late => \A i \in Index : i < n => Intents(s)[i] # "gated"
        /\ sub[s].skipped = 0 => \A i \in Index : i < n => i \in RanBy(t, s)
    BY <1>1, <1>2, <1>3 DEF Counters
  <2>4. CASE q.pc = "critic"
    BY <1>5, <1>8, <1>10, <1>11, <1>13, <2>2, <2>3, <2>4 DEF Counters
  <2>5. CASE q.pc = "intent"
    BY <1>5, <1>8, <1>10, <1>11, <1>13, <2>1, <2>3, <2>5 DEF Counters
  <2>6. QED
    BY <1>10, <2>4, <2>5
<1>17. Grows
  <2>1. \A u \in Task, i \in Index, a \in Actor : ran[u][i][a] > 0 => ran'[u][i][a] > 0
    BY <1>6, <1>12
  <2>2. aborts <= aborts'
    BY <1>1, <1>2, ConstantsAssumption DEF TypeOK
  <2>3. QED
    BY <1>2, <2>1, <2>2 DEF Grows, world, approval
<1>18. decision' \in [Task -> Decision] /\ q.intent \in 1 .. (Len(Intents(s)) + 1) /\ (q.pc # "intent" => q.intent <= Len(Intents(s)))
  BY <1>1, <1>2, <1>4, <1>8, <1>10 DEF TypeOK, approval
<1>19. QED
  BY <1>2, <1>3, <1>9, <1>8, <1>10, <1>12, <1>14, <1>15, <1>16, <1>17, <1>18, LoopStep DEF approval

\* The attempts are spent: the task yields.
LEMMA YieldInv ==
  ASSUME IInv, NEW s \in Submission, yieldIntent(s)
  PROVE  IInv'
<1>1. "yielded" \in TaskStatus /\ sub[s].pc = "intent" /\ Return(s, "yielded")
      /\ UNCHANGED <<world, projectRow, taskRow, approval, ran, call, aborts>>
  BY DEF yieldIntent, InLoop, TaskStatus
<1>2. Claim(At(s), "yielded", artifact, decision, context, ran)
  BY NoClaim
<1>3. QED
  BY <1>1, <1>2, ReturnStep

\* The critic passes the intent, or the task yields.
LEMMA CriticInv ==
  ASSUME IInv, NEW s \in Submission, runCritic(s)
  PROVE  IInv'
<1>1. sub[s].pc = "critic" /\ UNCHANGED <<world, projectRow, taskRow, approval, ran, call, aborts>>
  BY DEF runCritic
<1>2. CASE Return(s, "yielded")
  <2>1. "yielded" \in TaskStatus
    BY DEF TaskStatus
  <2>2. Claim(At(s), "yielded", artifact, decision, context, ran)
    BY NoClaim
  <2>3. QED
    BY <1>1, <1>2, <2>1, <2>2, ReturnStep
<1>3. CASE sub' = [sub EXCEPT ![s].pc = "intent", ![s].intent = @ + 1]
  <2>1. sub[s] \in Sub /\ TypeOK /\ Executed(s) /\ Budget(s) /\ Counters(s) /\ sub[s].pc \in Looping
    BY <1>1, Fields DEF IInv, SubInv, Looping
  <2>2. /\ At(s) \in Task /\ sub[s].intent \in Nat /\ Len(Intents(s)) \in Nat /\ Index \subseteq Nat
        /\ sub[s].intent <= Len(Intents(s)) /\ sub[s].intent \in Index
    <3>1. sub[s].intent <= Len(Intents(s))
      BY <1>1 DEF IInv, SubInv, Place
    <3>2. QED
      BY <2>1, <3>1, LoopFacts
  <2>3. PICK q \in Sub : /\ sub' = [sub EXCEPT ![s] = q] /\ q.pc = "intent" /\ q.results = sub[s].results /\ q.late = sub[s].late
                         /\ q.intent = sub[s].intent + 1 /\ q.executed = sub[s].executed /\ q.skipped = sub[s].skipped
    BY <1>3, <2>1, LoopRecords
  <2>4. sub'[s] = q /\ At(s)' = At(s) /\ Intents(s)' = Intents(s) /\ artifact' = artifact /\ decision' = decision
    BY <1>1, <2>1, <2>3, SubGoto DEF At, Intents, world, approval
  <2>5. \A t \in Task : RanBy(t, s)' = RanBy(t, s)
    BY <1>1 DEF RanBy
  <2>6. \A i \in Index : (i < sub[s].intent + 1 <=> i <= sub[s].intent) /\ (i < sub[s].intent + 1 => i < sub[s].intent \/ i = sub[s].intent)
    BY <2>2
  <2>7. Executed(s)'
    BY <1>1, <2>1, <2>3, <2>4, <2>6 DEF Executed
  <2>8. Budget(s)'
    BY <2>1, <2>2, <2>3, <2>4, <2>5 DEF Budget, attemptsUsed
  <2>9. Counters(s)'
    <3>1. /\ sub[s].executed > 0 => RanBy(At(s), s) # {}
          /\ ~ sub[s].late => \A i \in Index : i < sub[s].intent => Intents(s)[i] # "gated"
          /\ sub[s].skipped = 0 => \A i \in Index : i <= sub[s].intent => i \in RanBy(At(s), s)
          /\ Intents(s)[sub[s].intent] = "open"
      BY <1>1, <2>1 DEF Counters
    <3>2. RanBy(At(s), s)' = RanBy(At(s), s)
      BY <2>2, <2>4, <2>5
    <3>3. ~ sub[s].late => \A i \in Index : i < sub[s].intent + 1 => Intents(s)[i] # "gated"
      BY <2>6, <3>1
    <3>4. QED
      BY <2>3, <2>4, <2>6, <3>1, <3>2, <3>3 DEF Counters
  <2>10. Grows /\ decision' \in [Task -> Decision] /\ ran' \in [Task -> [Index -> [Actor -> Nat]]]
    BY <1>1, <2>1, ConstantsAssumption DEF Grows, world, approval, TypeOK, Index
  <2>11. q.intent \in 1 .. (Len(Intents(s)) + 1)
    BY <2>2, <2>3
  <2>12. QED
    BY <1>1, <2>1, <2>3, <2>7, <2>8, <2>9, <2>10, <2>11, LoopStep DEF approval
<1>4. QED
  BY <1>2, <1>3 DEF runCritic

\* The loop is over: the status claims no more than was executed.
LEMMA EndTaskInv ==
  ASSUME IInv, NEW s \in Submission, endTask(s)
  PROVE  IInv'
<1> DEFINE status == conclusion(sub[s].executed, sub[s].skipped)
<1>1. /\ sub[s].pc = "intent" /\ sub[s].intent > Len(Intents(s)) /\ Return(s, status)
      /\ UNCHANGED <<world, projectRow, taskRow, approval, ran, call, aborts>>
  BY DEF endTask
<1>2. status \in TaskStatus /\ status # "requires_approval"
  BY DEF conclusion, TaskStatus
<1>3. sub[s].pc \in Looping
  BY <1>1 DEF Looping
<1>4. At(s) \in Task /\ sub[s].intent \in Nat /\ Len(Intents(s)) \in Nat /\ Index \subseteq Nat
  BY <1>3, LoopFacts
<1>5. \A i \in RanBy(At(s), s) : i \in Listed(At(s), artifact) /\ Hit(At(s), i, ran)
  <2>1. Executed(s) /\ s \in Actor
    BY DEF IInv, SubInv, Actor
  <2>2. QED
    BY <1>4, <2>1 DEF Executed, RanBy, Listed, Hit
<1>6. sub[s].skipped \in Nat /\ sub[s].executed \in Nat /\ Counters(s)
  BY Fields DEF IInv, SubInv
<1>7. status = "completed" => \A i \in Listed(At(s), artifact) : Hit(At(s), i, ran)
  <2>1. SUFFICES ASSUME status = "completed", NEW i \in Listed(At(s), artifact) PROVE Hit(At(s), i, ran)
    OBVIOUS
  <2>2. sub[s].skipped = 0
    BY <2>1 DEF conclusion
  <2>3. i \in Index /\ i < sub[s].intent
    BY <1>1, <1>4, <2>1 DEF Listed, Intents
  <2>4. QED
    BY <1>1, <1>5, <1>6, <2>2, <2>3 DEF Counters
<1>8. status = "completed_with_errors" => \E i \in Listed(At(s), artifact) : Hit(At(s), i, ran)
  <2>1. SUFFICES ASSUME status = "completed_with_errors" PROVE \E i \in Listed(At(s), artifact) : Hit(At(s), i, ran)
    OBVIOUS
  <2>2. sub[s].executed > 0
    BY <1>6, <2>1 DEF conclusion
  <2>3. RanBy(At(s), s) # {}
    BY <1>3, <1>6, <2>2 DEF Counters
  <2>4. QED
    BY <1>5, <2>3
<1> HIDE DEF status
<1>9. Claim(At(s), status, artifact, decision, context, ran)
  BY <1>2, <1>7, <1>8 DEF Claim
<1>10. QED
  BY <1>1, <1>2, <1>9, ReturnStep

\* The result of a task is recorded.
LEMMA ResultInv ==
  ASSUME IInv, NEW s \in Submission, recordTaskResult(s)
  PROVE  IInv'
<1> DEFINE q == [sub[s] EXCEPT !.pc = "progress", !.results = Append(sub[s].results, sub[s].outcome)]
<1>1. sub[s] \in Sub /\ TypeOK /\ SubInv(s) /\ sub[s].results \in Seq(TaskStatus) /\ Len(sub[s].results) \in Nat
  BY Fields DEF IInv
<1>2. /\ sub[s].pc = "record" /\ taskRow' = [taskRow EXCEPT ![At(s)] = sub[s].outcome]
      /\ UNCHANGED <<world, projectRow, approval, ran, call, aborts>>
  BY DEF recordTaskResult
<1>3. sub' = [sub EXCEPT ![s] = q]
  BY <1>1 DEF recordTaskResult, TypeOK, Sub
<1>4. sub[s].outcome \in TaskStatus /\ Claim(At(s), sub[s].outcome, artifact, decision, context, ran)
  BY <1>1, <1>2 DEF SubInv
<1>5. /\ Append(sub[s].results, sub[s].outcome) \in Seq(TaskStatus)
      /\ Len(Append(sub[s].results, sub[s].outcome)) = Len(sub[s].results) + 1
  BY <1>1, <1>4, AppendProperties
<1>6. q \in Sub /\ q.pc = "progress" /\ Len(q.results) = Len(sub[s].results) + 1
  BY <1>1, <1>5 DEF Sub, SubPc
<1> HIDE DEF q
<1>7. /\ sub'[s] = q /\ At(s)' = At(s) + 1 /\ sub' \in [Submission -> Sub] /\ At(s) \in Task /\ At(s) <= planned.tasks
      /\ planned.tasks <= MaxTasks /\ At(s) = Len(sub[s].results) + 1 /\ At(s) \in Nat
      /\ \A u \in Submission : u # s => sub'[u] = sub[u]
  <2>1. At(s) = Len(sub[s].results) + 1 /\ sub[s].pc \in Working
    BY <1>2 DEF At, Working
  <2>2. /\ sub' \in [Submission -> Sub] /\ sub'[s] = q /\ (\A u \in Submission : u # s => sub'[u] = sub[u])
        /\ At(s)' = Len(q.results) + 1
    BY <1>1, <1>3, <1>6, SubGoto
  <2>3. At(s) \in Task /\ At(s) <= planned.tasks /\ planned.tasks <= MaxTasks
    BY <2>1, AtTask
  <2>4. QED
    BY <1>1, <1>6, <2>1, <2>2, <2>3
<1>8. Place(s)'
  BY <1>2, <1>6, <1>7 DEF Place, Working, Looping, world
<1>9. Executed(s)'
  <2>1. Task \subseteq Nat
    BY DEF Task
  <2>2. QED
    BY <1>1, <1>2, <1>6, <1>7, <2>1 DEF SubInv, Executed, world
<1>10. \A t \in Task : RanBy(t, s)' = RanBy(t, s)
  BY <1>2 DEF RanBy
<1>11. Budget(s)' /\ Counters(s)'
  BY <1>1, <1>6, <1>7, <1>10 DEF SubInv, Budget, Counters, Looping
<1>12. SubInv(s)'
  BY <1>6, <1>7, <1>8, <1>9, <1>11 DEF SubInv
<1>13. /\ TypeOK' /\ taskRow'[At(s)] = sub[s].outcome /\ sub[s].outcome # "running"
       /\ \A t \in Task : t # At(s) => taskRow'[t] = taskRow[t]
  <2>1. taskRow \in [Task -> RowStatus] /\ sub[s].outcome \in RowStatus /\ sub[s].outcome # "running"
    BY <1>1, <1>4 DEF TypeOK, RowStatus, TaskStatus
  <2>2. /\ taskRow' \in [Task -> RowStatus] /\ taskRow'[At(s)] = sub[s].outcome
        /\ \A t \in Task : t # At(s) => taskRow'[t] = taskRow[t]
    BY <1>2, <1>7, <2>1
  <2>3. QED
    BY <1>1, <1>2, <1>7, <2>1, <2>2 DEF TypeOK, world, approval
<1>14. Grows
  BY <1>1, <1>2, ConstantsAssumption DEF Grows, world, approval, TypeOK
<1>15. \A t \in Task : taskRow'[t] = taskRow[t] \/ Claim(t, taskRow'[t], artifact', decision', context', ran')
  BY <1>2, <1>4, <1>13 DEF world, approval
<1>16. QED
  BY <1>2, <1>7, <1>12, <1>13, <1>14, <1>15, SubStep DEF approval

\* The project row follows.
LEMMA ProgressInv ==
  ASSUME IInv, NEW s \in Submission, recordProgress(s)
  PROVE  IInv'
<1> DEFINE q == [sub[s] EXCEPT !.pc = "next"]
<1>1. sub[s] \in Sub /\ TypeOK /\ Place(s) /\ Executed(s) /\ Budget(s)
  BY Fields DEF IInv, SubInv
<1>2. /\ sub[s].pc = "progress" /\ projectRow' = "running" /\ UNCHANGED <<world, taskRow, approval, ran, call, aborts>>
      /\ sub' = [sub EXCEPT ![s] = q]
  BY DEF recordProgress
<1>3. q \in Sub /\ q.pc = "next" /\ q.results = sub[s].results
  BY <1>1 DEF Sub, SubPc
<1> HIDE DEF q
<1>4. sub'[s] = q /\ At(s)' = At(s)
  BY <1>1, <1>2, <1>3, SubGoto DEF At
<1>5. \A t \in Task : RanBy(t, s)' = RanBy(t, s)
  BY <1>2 DEF RanBy
<1>6. Place(s)' /\ Executed(s)'
  BY <1>1, <1>2, <1>3, <1>4 DEF Place, Executed, Working, Looping, world
<1>7. Budget(s)' /\ Counters(s)'
  BY <1>1, <1>3, <1>4, <1>5 DEF Budget, Counters, Looping
<1>8. SubInv(s)'
  BY <1>3, <1>4, <1>6, <1>7 DEF SubInv
<1>9. projectRow' \in ProjectStatus /\ aborts' \in 0 .. MaxAborts /\ aborts <= aborts' /\ sub[s].pc \notin Working
  BY <1>1, <1>2, ConstantsAssumption DEF TypeOK, ProjectStatus, Working
<1>10. QED
  BY <1>2, <1>3, <1>8, <1>9, QuietStep

\* The project ends, or is abandoned.
LEMMA FinishInv ==
  ASSUME IInv, NEW s \in Submission, finishProject(s) \/ abortProject(s)
  PROVE  IInv'
<1>1. TypeOK /\ projectRow \in ProjectStatus /\ aborts \in Nat /\ MaxAborts \in Nat /\ aborts <= MaxAborts
  BY ConstantsAssumption DEF IInv, TypeOK
<1>2. CASE finishProject(s)
  <2>1. aggregateStatus(sub[s].results) \in ProjectStatus
    BY DEF aggregateStatus, ProjectStatus, TaskStatus
  <2>2. /\ sub' = [sub EXCEPT ![s].pc = "done"] /\ projectRow' \in ProjectStatus /\ aborts' = aborts
        /\ UNCHANGED <<world, taskRow, approval, ran, call>> /\ sub[s].pc \notin Working
    BY <1>2, <2>1 DEF finishProject, Working
  <2>3. aborts' \in 0 .. MaxAborts /\ aborts <= aborts'
    BY <1>1, <2>2
  <2>4. QED
    BY <2>2, <2>3, EndInv
<1>3. CASE abortProject(s)
  <2>1. aborts' \in 0 .. MaxAborts /\ aborts <= aborts' /\ aborts' > 0
    BY <1>1, <1>3 DEF abortProject
  <2>2. QED
    BY <1>1, <1>3, <2>1, EndInv DEF abortProject
<1>4. QED
  BY <1>2, <1>3

-----------------------------------------------------------------------------
(***************************************************************************)
(* Approval calls.                                                         *)
(***************************************************************************)

\* A call becomes q.
LEMMA CallGoto ==
  ASSUME TypeOK, NEW c \in Call, NEW q \in CallState, call' = [call EXCEPT ![c] = q]
  PROVE  call' \in [Call -> CallState] /\ call'[c] = q /\ \A d \in Call : d # c => call'[d] = call[d]
BY DEF TypeOK

\* A step of a call that writes no table but its own record.
LEMMA CallQuiet ==
  ASSUME IInv, NEW c \in Call, NEW q \in CallState, call' = [call EXCEPT ![c] = q], CallInv(c)',
         UNCHANGED <<world, projectRow, taskRow, approval, ran, sub>>, aborts' \in 0 .. MaxAborts, aborts <= aborts'
  PROVE  IInv'
<1>1. TypeOK /\ TypeOK'
  BY CallGoto DEF IInv, TypeOK, world, approval
<1>2. Grows
  BY DEF Grows, world, approval
<1>3. call'[c] = q /\ \A d \in Call : d # c => call'[d] = call[d]
  BY <1>1, CallGoto
<1>4. QED
  BY <1>1, <1>2, <1>3, CallStepInv DEF approval

\* A decision is written.
LEMMA DecideInv ==
  ASSUME IInv, NEW c \in Call, NEW t \in Task, approveTask(c, t) \/ rejectTask(c, t)
  PROVE  IInv'
<1>1. call[c] \in CallState /\ TypeOK /\ CallInv(c)
  BY Fields DEF IInv
<1>2. /\ call[c].pc = "idle" /\ decision[t] # "none" /\ UNCHANGED <<world, projectRow, taskRow, context, ran, sub, aborts>>
  BY DEF approveTask, rejectTask
<1>3. PICK d \in {"approved", "rejected"}, k \in {"approve", "reject"} :
         /\ decision' = [decision EXCEPT ![t] = d]
         /\ call' = [call EXCEPT ![c].pc = d, ![c].kind = k, ![c].task = t]
  BY DEF approveTask, rejectTask
<1> DEFINE q == [call[c] EXCEPT !.pc = d, !.kind = k, !.task = t]
<1>4. q \in CallState /\ q.pc = d /\ q.task = t /\ call' = [call EXCEPT ![c] = q]
  BY <1>1, <1>3 DEF CallState, CallPc, TypeOK
<1> HIDE DEF q
<1>5. decision' \in [Task -> Decision] /\ decision'[t] = d /\ \A u \in Task : u # t => decision'[u] = decision[u]
  <2>1. decision \in [Task -> Decision] /\ d \in Decision
    BY <1>1 DEF TypeOK, Decision
  <2>2. QED
    BY <1>3, <2>1
<1>6. call' \in [Call -> CallState] /\ call'[c] = q /\ \A e \in Call : e # c => call'[e] = call[e]
  BY <1>1, <1>4, CallGoto
<1>7. TypeOK'
  BY <1>1, <1>2, <1>5, <1>6 DEF TypeOK, world
<1>8. Grows
  BY <1>1, <1>2, <1>5, ConstantsAssumption DEF Grows, world, TypeOK
<1>9. \A u \in Task : RanBy(u, c)' = RanBy(u, c) /\ RanBy(u, c) = {}
  BY <1>1, <1>2 DEF RanBy, CallInv
<1>10. \A u \in Task, i \in Index : ~ (ran'[u][i][c] > 0)
  BY <1>9 DEF RanBy
<1>11. CallInv(c)'
  BY <1>4, <1>5, <1>6, <1>9, <1>10 DEF CallInv
<1>12. QED
  BY <1>2, <1>6, <1>7, <1>8, <1>11, CallStepInv

\* A call ends.
LEMMA CallEnds ==
  ASSUME IInv, NEW c \in Call, NEW q \in CallState, q.pc = "done", q.task = call[c].task, q.seen = call[c].seen,
         call[c].pc # "idle"
  PROVE  call' = [call EXCEPT ![c] = q] /\ UNCHANGED <<world, approval, ran>> => CallInv(c)'
<1> SUFFICES ASSUME call' = [call EXCEPT ![c] = q], UNCHANGED <<world, approval, ran>> PROVE CallInv(c)'
  OBVIOUS
<1>1. call'[c] = q
  BY CallGoto DEF IInv
<1>2. CallInv(c) /\ artifact' = artifact /\ decision' = decision /\ context' = context
  BY DEF IInv, world, approval
<1>3. QED
  BY <1>1, <1>2 DEF CallInv

\* A call moves to step p; it moves there with the decision it read.
Moves(c, p) == call' = [call EXCEPT ![c].pc = p]
Reads(c, p, d) == call' = [call EXCEPT ![c].pc = p, ![c].seen = d]

\* What that changes.
LEMMA CallMoves ==
  ASSUME TypeOK, NEW c \in Call, NEW p \in CallPc, Moves(c, p)
  PROVE  \E q \in CallState : /\ call' = [call EXCEPT ![c] = q] /\ q.pc = p /\ q.task = call[c].task
                              /\ q.seen = call[c].seen /\ q.outcome = call[c].outcome
<1> DEFINE q == [call[c] EXCEPT !.pc = p]
<1>1. q \in CallState /\ q.pc = p /\ q.task = call[c].task /\ q.seen = call[c].seen /\ q.outcome = call[c].outcome
  BY Fields DEF CallState
<1>2. call' = [call EXCEPT ![c] = q]
  BY DEF TypeOK, Moves
<1>3. QED
  BY <1>1, <1>2

\* It moves on with the decision it read.
LEMMA CallReads ==
  ASSUME TypeOK, NEW c \in Call, NEW p \in CallPc, NEW d \in Decision, Reads(c, p, d)
  PROVE  \E q \in CallState : call' = [call EXCEPT ![c] = q] /\ q.pc = p /\ q.task = call[c].task /\ q.seen = d
<1> DEFINE q == [call[c] EXCEPT !.pc = p, !.seen = d]
<1>1. q \in CallState /\ q.pc = p /\ q.task = call[c].task /\ q.seen = d
  BY Fields DEF CallState
<1>2. call' = [call EXCEPT ![c] = q]
  BY DEF TypeOK, CallState, Reads
<1>3. QED
  BY <1>1, <1>2

\* It has a result.
LEMMA CallReturns ==
  ASSUME TypeOK, NEW c \in Call, NEW d \in Decision, NEW status \in RowStatus, ContinueWith(c, d, status)
  PROVE  \E q \in CallState : /\ call' = [call EXCEPT ![c] = q] /\ q.pc = "record" /\ q.task = call[c].task
                              /\ q.seen = d /\ q.outcome = status
<1> DEFINE q == [call[c] EXCEPT !.pc = "record", !.seen = d, !.outcome = status]
<1>1. q \in CallState /\ q.pc = "record" /\ q.task = call[c].task /\ q.seen = d /\ q.outcome = status
  BY Fields DEF CallState, CallPc
<1>2. call' = [call EXCEPT ![c] = q]
  BY DEF TypeOK, CallState, ContinueWith
<1>3. QED
  BY <1>1, <1>2

\* What stays the same when a step writes no more than the record of a call.
LEMMA Bounds ==
  ASSUME IInv, aborts' = aborts
  PROVE  aborts' \in 0 .. MaxAborts /\ aborts <= aborts'
BY ConstantsAssumption DEF IInv, TypeOK

\* The approval call submits the continuation, or ends.
LEMMA ContinueInv ==
  ASSUME IInv, NEW c \in Call, continueApprovedTask(c)
  PROVE  IInv'
<1>1. TypeOK /\ CallInv(c) /\ "queued" \in CallPc /\ "done" \in CallPc
  BY DEF IInv, CallPc
<1>2. call[c].pc = "approved" /\ UNCHANGED <<world, projectRow, taskRow, approval, ran, sub, aborts>>
  BY DEF continueApprovedTask
<1>3. CASE context[call[c].task] # 0
  <2>1. PICK q \in CallState : /\ call' = [call EXCEPT ![c] = q]
                               /\ q.pc = "queued" /\ q.task = call[c].task /\ q.seen = call[c].seen
    <3>1. Moves(c, "queued")
      BY <1>3 DEF continueApprovedTask, Moves
    <3>2. QED
      BY <1>1, <3>1, CallMoves
  <2>2. call'[c] = q
    BY <1>1, <2>1, CallGoto
  <2>3. \A t \in Task : RanBy(t, c)' = RanBy(t, c)
    BY <1>2 DEF RanBy
  <2>4. CallInv(c)'
    BY <1>1, <1>2, <1>3, <2>1, <2>2, <2>3 DEF CallInv, world, approval
  <2>5. QED
    BY <1>2, <2>1, <2>4, Bounds, CallQuiet
<1>4. CASE ~ (context[call[c].task] # 0)
  <2>1. PICK q \in CallState : /\ call' = [call EXCEPT ![c] = q]
                               /\ q.pc = "done" /\ q.task = call[c].task /\ q.seen = call[c].seen
    <3>1. Moves(c, "done")
      BY <1>4 DEF continueApprovedTask, Moves
    <3>2. QED
      BY <1>1, <3>1, CallMoves
  <2>2. CallInv(c)'
    BY <1>2, <2>1, CallEnds
  <2>3. QED
    BY <1>2, <2>1, <2>2, Bounds, CallQuiet
<1>5. QED
  BY <1>3, <1>4

\* A call ends with a row for its task.
LEMMA CallRow ==
  ASSUME IInv, NEW c \in Call, call[c].pc # "idle", Moves(c, "done"), NEW status \in RowStatus,
         status # "running", Claim(call[c].task, status, artifact, decision, context, ran),
         taskRow' = [taskRow EXCEPT ![call[c].task] = status], UNCHANGED <<world, projectRow, approval, ran, sub, aborts>>
  PROVE  IInv'
<1>1. TypeOK /\ call[c].task \in Task /\ "done" \in CallPc
  BY Fields DEF IInv, CallPc
<1>2. PICK q \in CallState : /\ call' = [call EXCEPT ![c] = q]
                             /\ q.pc = "done" /\ q.task = call[c].task /\ q.seen = call[c].seen
  BY <1>1, CallMoves
<1>3. CallInv(c)'
  BY <1>2, CallEnds
<1>4. /\ taskRow' \in [Task -> RowStatus] /\ taskRow'[call[c].task] = status
      /\ \A t \in Task : t # call[c].task => taskRow'[t] = taskRow[t]
  BY <1>1 DEF TypeOK
<1>5. call' \in [Call -> CallState] /\ \A d \in Call : d # c => call'[d] = call[d]
  BY <1>1, <1>2, CallGoto
<1>6. TypeOK' /\ Grows
  BY <1>1, <1>4, <1>5, ConstantsAssumption DEF TypeOK, Grows, world, approval
<1>7. QED
  BY <1>3, <1>4, <1>5, <1>6, CallStepInv DEF world, approval

\* A rejection that finds the context writes the row.
LEMMA RejectionInv ==
  ASSUME IInv, NEW c \in Call, recordRejection(c)
  PROVE  IInv'
<1>1. call[c].pc = "rejected" /\ UNCHANGED <<world, projectRow, approval, ran, sub, aborts>> /\ Moves(c, "done")
  BY DEF recordRejection, Moves
<1>2. CASE taskRow' = [taskRow EXCEPT ![call[c].task] = "yielded"]
  <2>1. "yielded" \in RowStatus /\ Claim(call[c].task, "yielded", artifact, decision, context, ran)
    BY NoClaim DEF RowStatus, TaskStatus
  <2>2. QED
    BY <1>1, <1>2, <2>1, CallRow
<1>3. CASE taskRow' = taskRow
  <2>1. TypeOK /\ "done" \in CallPc
    BY DEF IInv, CallPc
  <2>2. PICK q \in CallState : /\ call' = [call EXCEPT ![c] = q]
                               /\ q.pc = "done" /\ q.task = call[c].task /\ q.seen = call[c].seen
    BY <1>1, <2>1, CallMoves
  <2>3. CallInv(c)'
    BY <1>1, <2>2, CallEnds
  <2>4. QED
    BY <1>1, <1>3, <2>2, <2>3, Bounds, CallQuiet
<1>4. QED
  BY <1>2, <1>3 DEF recordRejection

\* The continuation's own row.
LEMMA ContinuationRowInv ==
  ASSUME IInv, NEW c \in Call, recordContinuation(c)
  PROVE  IInv'
<1>1. /\ call[c].pc = "record" /\ UNCHANGED <<world, projectRow, approval, ran, sub, aborts>>
      /\ Moves(c, "done") /\ taskRow' = [taskRow EXCEPT ![call[c].task] = call[c].outcome]
  BY DEF recordContinuation, Moves
<1>2. /\ call[c].outcome \in {"completed", "yielded", "failed"}
      /\ Claim(call[c].task, call[c].outcome, artifact, decision, context, ran)
  BY <1>1 DEF IInv, CallInv
<1>3. call[c].outcome \in RowStatus /\ call[c].outcome # "running"
  BY <1>2 DEF RowStatus, TaskStatus
<1>4. QED
  BY <1>1, <1>2, <1>3, CallRow

\* A call is abandoned.
LEMMA AbortCallInv ==
  ASSUME IInv, NEW c \in Call, abortCall(c)
  PROVE  IInv'
<1>1. TypeOK /\ "done" \in CallPc /\ aborts \in Nat /\ MaxAborts \in Nat
  BY ConstantsAssumption DEF IInv, TypeOK, CallPc
<1>2. /\ call[c].pc # "idle" /\ aborts < MaxAborts /\ aborts' = aborts + 1 /\ Moves(c, "done")
      /\ UNCHANGED <<world, projectRow, taskRow, approval, ran, sub>>
  BY DEF abortCall, Moves
<1>3. aborts' \in 0 .. MaxAborts /\ aborts <= aborts'
  BY <1>1, <1>2
<1>4. PICK q \in CallState : /\ call' = [call EXCEPT ![c] = q]
                             /\ q.pc = "done" /\ q.task = call[c].task /\ q.seen = call[c].seen
  BY <1>1, <1>2, CallMoves
<1>5. CallInv(c)'
  BY <1>2, <1>4, CallEnds
<1>6. QED
  BY <1>2, <1>3, <1>4, <1>5, CallQuiet

\* The continuation reads the decision.
LEMMA LoadInv ==
  ASSUME IInv, NEW c \in Call, loadContinuation(c)
  PROVE  IInv'
<1> PICK d \in Decision : d = decision[call[c].task]
  BY Fields DEF IInv
<1>1. TypeOK /\ CallInv(c) /\ "execute" \in CallPc /\ "yielded" \in RowStatus /\ "failed" \in RowStatus
  BY DEF IInv, CallPc, RowStatus, TaskStatus
<1>2. call[c].pc = "queued" /\ UNCHANGED <<world, projectRow, taskRow, approval, ran, sub, aborts>>
  BY DEF loadContinuation
<1>3. \A t \in Task : RanBy(t, c)' = RanBy(t, c) /\ RanBy(t, c) = {}
  BY <1>1, <1>2 DEF RanBy, CallInv
<1>4. \A t \in Task, i \in Index : ~ (ran'[t][i][c] > 0)
  BY <1>3 DEF RanBy
<1>5. context[call[c].task] # 0 /\ decision[call[c].task] # "none" /\ context' = context /\ decision' = decision
  BY <1>1, <1>2 DEF CallInv, approval
<1>6. CASE ContinueWith(c, d, "yielded") \/ ContinueWith(c, d, "failed")
  <2>1. PICK status \in {"yielded", "failed"} : ContinueWith(c, d, status) /\ status \in RowStatus
    BY <1>1, <1>6
  <2>2. PICK q \in CallState : call' = [call EXCEPT ![c] = q] /\ q.pc = "record" /\ q.task = call[c].task /\ q.outcome = status
    BY <1>1, <2>1, CallReturns
  <2>3. call'[c] = q
    BY <1>1, <2>2, CallGoto
  <2>4. Claim(q.task, q.outcome, artifact', decision', context', ran')
    BY <2>2, NoClaim
  <2>5. CallInv(c)'
    BY <1>4, <1>5, <2>2, <2>3, <2>4 DEF CallInv
  <2>6. QED
    BY <1>2, <2>2, <2>5, Bounds, CallQuiet
<1>7. CASE d = "approved" /\ Reads(c, "execute", d)
  <2>1. PICK q \in CallState : call' = [call EXCEPT ![c] = q] /\ q.pc = "execute" /\ q.task = call[c].task /\ q.seen = "approved"
    BY <1>1, <1>7, CallReads
  <2>2. call'[c] = q
    BY <1>1, <2>1, CallGoto
  <2>3. CallInv(c)'
    BY <1>3, <1>4, <1>5, <2>1, <2>2 DEF CallInv
  <2>4. QED
    BY <1>2, <2>1, <2>3, Bounds, CallQuiet
<1>8. QED
  BY <1>6, <1>7 DEF loadContinuation, Reads

\* The approved intent is executed, once.
LEMMA ExecuteApprovedInv ==
  ASSUME IInv, NEW c \in Call, executeApproved(c)
  PROVE  IInv'
<1>1. TypeOK /\ CallInv(c) /\ call[c].task \in Task /\ RowInv(call[c].task) /\ call[c].seen \in Decision /\ c \in Actor
      /\ "critic" \in CallPc /\ "failed" \in RowStatus
  BY Fields DEF IInv, CallPc, RowStatus, TaskStatus, Actor
<1>2. call[c].pc = "execute" /\ UNCHANGED <<world, projectRow, taskRow, approval, sub, aborts>>
  BY DEF executeApproved
<1>3. /\ context[call[c].task] # 0 /\ decision[call[c].task] # "none" /\ call[c].seen = "approved"
      /\ \A u \in Task : RanBy(u, c) = {}
  BY <1>1, <1>2 DEF CallInv
<1> PICK t \in Task, n \in Index : t = call[c].task /\ n = context[call[c].task] /\ FirstGated(t, n, artifact)
  BY <1>1, <1>3 DEF RowInv, FirstGated
<1>4. \A u \in Task, i \in Index : ran[u][i][c] = 0
  BY <1>1, <1>3, Fields DEF RanBy
<1>5. \E q \in CallState :
        /\ call' = [call EXCEPT ![c] = q] /\ q.task = t /\ q.seen = "approved"
        /\ \/ q.pc = "critic" /\ Reach(c, t, n)
           \/ q.pc = "record" /\ q.outcome = "failed" /\ (Reach(c, t, n) \/ ran' = ran)
  <2>1. CASE Reach(c, t, n) /\ Moves(c, "critic")
    BY <1>1, <1>3, <2>1, CallMoves
  <2>2. CASE (Reach(c, t, n) \/ ran' = ran) /\ ContinueWith(c, call[c].seen, "failed")
    BY <1>1, <1>3, <2>2, CallReturns
  <2>3. QED
    BY <2>1, <2>2 DEF executeApproved, Moves
<1>6. PICK q \in CallState :
        /\ call' = [call EXCEPT ![c] = q] /\ q.task = t /\ q.seen = "approved"
        /\ \/ q.pc = "critic" /\ Reach(c, t, n)
           \/ q.pc = "record" /\ q.outcome = "failed" /\ (Reach(c, t, n) \/ ran' = ran)
  BY <1>5
<1>7. /\ ran' \in [Task -> [Index -> [Actor -> Nat]]] /\ ran'[t][n][c] \in {0, 1} /\ (Reach(c, t, n) => ran'[t][n][c] = 1)
      /\ \A u \in Task, j \in Index, b \in Actor : ~ (u = t /\ j = n /\ b = c) => ran'[u][j][b] = ran[u][j][b]
  <2>1. ran \in [Task -> [Index -> [Actor -> Nat]]]
    BY <1>1 DEF TypeOK, Index
  <2>2. CASE Reach(c, t, n)
    <3>1. /\ ran' \in [Task -> [Index -> [Actor -> Nat]]] /\ ran'[t][n][c] = ran[t][n][c] + 1
          /\ \A u \in Task, j \in Index, b \in Actor : ~ (u = t /\ j = n /\ b = c) => ran'[u][j][b] = ran[u][j][b]
      BY <1>1, <2>2, ReachEffect
    <3>2. ran[t][n][c] = 0
      BY <1>4
    <3>3. QED
      BY <3>1, <3>2
  <2>3. CASE ran' = ran /\ ~ Reach(c, t, n)
    BY <1>4, <2>1, <2>3
  <2>4. QED
    BY <1>6, <2>2, <2>3
<1>8. call' \in [Call -> CallState] /\ call'[c] = q /\ \A e \in Call : e # c => call'[e] = call[e]
  BY <1>1, <1>6, CallGoto
<1>9. TypeOK'
  BY <1>1, <1>2, <1>7, <1>8 DEF TypeOK, world, approval, Index
<1>10. Grows
  <2>1. \A u \in Task, i \in Index, a \in Actor : ran[u][i][a] > 0 => ran'[u][i][a] > 0
    BY <1>4, <1>7
  <2>2. aborts <= aborts'
    BY <1>1, <1>2, ConstantsAssumption DEF TypeOK
  <2>3. QED
    BY <1>2, <2>1, <2>2 DEF Grows, world, approval
<1>11. CallInv(c)'
  <2>1. artifact' = artifact /\ decision' = decision /\ context' = context
    BY <1>2 DEF world, approval
  <2>2. \A u \in Task, i \in Index : ran'[u][i][c] > 0 => ran'[u][i][c] = 1 /\ u = t /\ i = n
    BY <1>1, <1>4, <1>7
  <2>3. q.pc = "critic" => Hit(t, n, ran')
    BY <1>1, <1>6, <1>7 DEF Hit
  <2>4. Claim(t, "failed", artifact', decision', context', ran')
    BY NoClaim
  <2>5. context[t] # 0 /\ decision[t] # "none" /\ context[t] = n
    BY <1>3
  <2>6. CASE q.pc = "critic"
    BY <1>6, <1>8, <2>1, <2>2, <2>3, <2>5, <2>6 DEF CallInv
  <2>7. CASE q.pc = "record" /\ q.outcome = "failed"
    BY <1>6, <1>8, <2>1, <2>2, <2>4, <2>5, <2>7 DEF CallInv
  <2>8. QED
    BY <1>6, <2>6, <2>7
<1>12. QED
  BY <1>2, <1>7, <1>8, <1>9, <1>10, <1>11, CallStepInv DEF approval

\* The critic passes the approved intent, or the task yields.
LEMMA CriticApprovedInv ==
  ASSUME IInv, NEW c \in Call, criticApproved(c)
  PROVE  IInv'
<1>1. TypeOK /\ CallInv(c) /\ call[c].seen \in Decision /\ "completed" \in RowStatus /\ "yielded" \in RowStatus
  BY Fields DEF IInv, RowStatus, TaskStatus
<1>2. call[c].pc = "critic" /\ UNCHANGED <<world, projectRow, taskRow, approval, ran, sub, aborts>>
  BY DEF criticApproved
<1>3. PICK status \in {"completed", "yielded"} : ContinueWith(c, call[c].seen, status) /\ status \in RowStatus
  BY <1>1 DEF criticApproved
<1>4. PICK q \in CallState : /\ call' = [call EXCEPT ![c] = q] /\ q.pc = "record" /\ q.task = call[c].task
                             /\ q.seen = call[c].seen /\ q.outcome = status
  BY <1>1, <1>3, CallReturns
<1>5. call'[c] = q /\ artifact' = artifact /\ decision' = decision /\ context' = context
  BY <1>1, <1>2, <1>4, CallGoto DEF world, approval
<1>6. context[call[c].task] # 0 /\ Hit(call[c].task, context[call[c].task], ran) /\ decision[call[c].task] # "none"
  BY <1>1, <1>2 DEF CallInv
<1>7. Claim(call[c].task, status, artifact, decision, context, ran)
  BY <1>6 DEF Claim
<1>8. CallInv(c)'
  BY <1>1, <1>2, <1>4, <1>5, <1>6, <1>7 DEF CallInv
<1>9. QED
  BY <1>2, <1>4, <1>8, Bounds, CallQuiet

\* The delegation expires.
LEMMA ExpireInv ==
  ASSUME IInv, expire
  PROVE  IInv'
<1>1. /\ TypeOK /\ UNCHANGED <<planned, artifact, projectRow, taskRow, approval, ran, sub, call, aborts>> /\ expired' = TRUE
  BY DEF IInv, expire
<1>2. Grows
  BY <1>1, ConstantsAssumption DEF Grows, approval, TypeOK
<1>3. expired' \in BOOLEAN
  BY <1>1
<1>4. TypeOK'
  BY <1>1, <1>3 DEF TypeOK, approval
<1>5. \A s \in Submission : SubInv(s)'
  BY <1>1, <1>2, SubKeeps
<1>6. \A c \in Call : CallInv(c)'
  BY <1>1, <1>2, CallKeeps
<1>7. \A t \in Task : RowInv(t)'
  <2> TAKE t \in Task
  <2>1. taskRow'[t] = "running" => aborts' > 0 \/ \E s \in Submission : sub'[s].pc \in Working /\ At(s)' = t
    BY <1>1 DEF IInv, RowInv, At
  <2>2. QED
    BY <1>1, <1>2, <2>1, RowKeeps DEF approval
<1>8. QED
  BY <1>4, <1>5, <1>6, <1>7 DEF IInv

\* Nothing changes.
LEMMA StutterInv ==
  ASSUME IInv, UNCHANGED vars
  PROVE  IInv'
<1>1. Grows
  BY ConstantsAssumption DEF IInv, TypeOK, Grows, vars
<1>2. TypeOK'
  BY DEF IInv, TypeOK, vars
<1>3. \A s \in Submission : SubInv(s)'
  BY <1>1, SubKeeps DEF vars
<1>4. \A c \in Call : CallInv(c)'
  BY <1>1, CallKeeps DEF vars
<1>5. \A t \in Task : RowInv(t)'
  <2> TAKE t \in Task
  <2>1. taskRow'[t] = "running" => aborts' > 0 \/ \E s \in Submission : sub'[s].pc \in Working /\ At(s)' = t
    BY DEF IInv, RowInv, At, vars
  <2>2. QED
    BY <1>1, <2>1, RowKeeps DEF vars
<1>6. QED
  BY <1>2, <1>3, <1>4, <1>5 DEF IInv

\* The invariant holds at the start.
LEMMA InitInv ==
  ASSUME Init
  PROVE  IInv
<1>1. TypeOK
  <2>1. MaxTasks \in Nat \ {0} /\ MaxAborts \in Nat
    BY ConstantsAssumption
  <2>2. aborts \in 0 .. MaxAborts
    BY <2>1 DEF Init
  <2>3. projectRow \in ProjectStatus /\ taskRow \in [Task -> RowStatus] /\ decision \in [Task -> Decision] /\ context \in [Task -> Nat]
    BY DEF Init, ProjectStatus, RowStatus, Decision
  <2>4. ran \in [Task -> [1 .. MaxIntents -> [Actor -> Nat]]]
    BY DEF Init
  <2>5. sub \in [Submission -> Sub]
    <3>1. <<>> \in Seq(TaskStatus) /\ "idle" \in SubPc /\ "none" \in RowStatus /\ 0 \in Nat
      BY DEF SubPc, RowStatus
    <3>2. FALSE \in BOOLEAN
      OBVIOUS
    <3>3. PICK no \in BOOLEAN : no = FALSE
      BY <3>2
    <3>4. [pc |-> "idle", intent |-> 0, executed |-> 0, skipped |-> 0, late |-> no, outcome |-> "none", results |-> <<>>] \in Sub
      BY <3>1 DEF Sub
    <3>5. QED
      BY <3>3, <3>4 DEF Init
  <2>6. call \in [Call -> CallState]
    <3>1. 1 \in Task /\ "idle" \in CallPc /\ "none" \in Decision /\ "none" \in RowStatus
      BY <2>1 DEF Task, CallPc, Decision, RowStatus
    <3>2. [pc |-> "idle", kind |-> "approve", task |-> 1, seen |-> "none", outcome |-> "none"] \in CallState
      BY <3>1 DEF CallState
    <3>3. QED
      BY <3>2 DEF Init
  <2>7. planned \in Plans /\ artifact \in [Task -> Artifacts] /\ expired = FALSE
    BY DEF Init
  <2>8. expired \in BOOLEAN
    BY <2>7
  <2>9. QED
    BY <2>2, <2>3, <2>4, <2>5, <2>6, <2>7, <2>8 DEF TypeOK
<1>2. \A t \in Task, i \in Index, a \in Actor : ran[t][i][a] = 0
  BY DEF Init, Index
<1>3. \A a \in Actor : \A t \in Task : RanBy(t, a) = {}
  BY <1>2 DEF RanBy
<1>4. \A t \in Task : taskRow[t] = "none" /\ decision[t] = "none" /\ context[t] = 0
  BY DEF Init
<1>5. ASSUME NEW s \in Submission PROVE SubInv(s)
  <2>1. sub[s].pc = "idle" /\ sub[s].results = <<>> /\ s \in Actor
    BY DEF Init, Actor
  <2>2. Place(s) /\ Executed(s) /\ Counters(s)
    BY <1>2, <2>1 DEF Place, Executed, Counters, Working, Looping
  <2>3. Budget(s)
    <3>1. Cardinality({}) = 0 /\ MaxAttempts \in Nat
      BY FS_EmptySet, ConstantsAssumption
    <3>2. \A t \in Task : Cardinality(RanBy(t, s)) = 0
      BY <1>3, <2>1, <3>1
    <3>3. QED
      BY <2>1, <3>1, <3>2 DEF Budget, Looping
  <2>4. QED
    BY <2>1, <2>2, <2>3 DEF SubInv
<1>6. ASSUME NEW c \in Call PROVE CallInv(c)
  <2>1. call[c].pc = "idle" /\ c \in Actor
    BY DEF Init, Actor
  <2>2. QED
    BY <1>2, <1>3, <2>1 DEF CallInv
<1>7. ASSUME NEW t \in Task PROVE RowInv(t)
  BY <1>4 DEF RowInv, Claim
<1>8. QED
  BY <1>1, <1>5, <1>6, <1>7 DEF IInv

\* Every step keeps the invariant.
LEMMA StepInv ==
  ASSUME IInv, [Next]_vars
  PROVE  IInv'
<1>1. ASSUME NEW s \in Submission, submitProjectRun(s) \/ ProjectStep(s) \/ abortProject(s) PROVE IInv'
  BY <1>1, SubmitInv, PlanInv, StartInv, ArtifactInv, SkipInv, YieldInv, AskInv, StoreInv, ExecuteInv, CriticInv,
     EndTaskInv, ResultInv, ProgressInv, FinishInv DEF ProjectStep
<1>2. ASSUME NEW c \in Call, CallStep(c) \/ abortCall(c) PROVE IInv'
  BY <1>2, ContinueInv, RejectionInv, LoadInv, ExecuteApprovedInv, CriticApprovedInv, ContinuationRowInv, AbortCallInv DEF CallStep
<1>3. ASSUME NEW c \in Call, NEW t \in Task, approveTask(c, t) \/ rejectTask(c, t) PROVE IInv'
  BY <1>3, DecideInv
<1>4. QED
  BY <1>1, <1>2, <1>3, ExpireInv, StutterInv DEF Next

\* The invariant holds throughout.
LEMMA Invariant == Spec => []IInv
BY InitInv, StepInv, PTL DEF Spec

-----------------------------------------------------------------------------
(***************************************************************************)
(* What it gives.                                                          *)
(***************************************************************************)

\* Approvals stay in force, with any number of overlapping submissions and calls: the
\* continuation of task-continuation.ts is the only way to the endpoint for an intent that
\* needs an approval, it takes it only if the decision it read itself was "approved", and it
\* takes it once; and a row that waits for an approval has the request and the stored intent
\* that a decision needs.
THEOREM ApprovalsInForceHolds == Spec => []ApprovalsInForce
<1>1. IInv => ApprovalsInForce
  <2> SUFFICES ASSUME IInv PROVE ApprovalsInForce
    OBVIOUS
  <2>1. TypeOK
    BY DEF IInv
  <2>2. ApprovalGates
    <3> SUFFICES ASSUME NEW t \in Task, NEW i \in Intent(t), NEW a \in Actor, artifact[t].intents[i] = "gated", ran[t][i][a] > 0
                 PROVE  /\ a \in Call /\ call[a].task = t /\ call[a].seen = "approved"
                        /\ ran[t][i][a] = 1 /\ \A j \in Intent(t) : ran[t][j][a] > 0 => j = i
      BY DEF ApprovalGates
    <3>1. i \in Index /\ i \in Nat
      BY DEF Intent, Index
    <3>2. a \in Call
      BY <3>1 DEF IInv, SubInv, Executed, Actor
    <3>3. /\ call[a].task = t /\ call[a].seen = "approved" /\ ran[t][i][a] = 1 /\ FirstGated(t, i, artifact)
          /\ \A j \in Index : ran[t][j][a] > 0 => FirstGated(t, j, artifact)
      BY <3>1, <3>2 DEF IInv, CallInv
    <3>4. ASSUME NEW j \in Intent(t), ran[t][j][a] > 0 PROVE j = i
      <4>1. j \in Index /\ j \in Nat
        BY DEF Intent, Index
      <4>2. FirstGated(t, j, artifact)
        BY <3>3, <3>4, <4>1
      <4>3. QED
        BY <3>1, <3>3, <4>1, <4>2 DEF FirstGated
    <3>5. QED
      BY <3>2, <3>3, <3>4
  <2>3. AwaitingIsActionable
    BY DEF IInv, RowInv, Claim, AwaitingIsActionable
  <2>4. QED
    BY <2>1, <2>2, <2>3 DEF ApprovalsInForce
<1>2. QED
  BY <1>1, Invariant, PTL

\* A task stays within its delegation, with any number of overlapping submissions: what
\* evaluatePolicy of task-reconciler.ts denies or what does not validate reaches no endpoint
\* on any path, and one submission executes an intent at most once and makes at most
\* max_total_endpoint_attempts executions for a task.
THEOREM WithinItsBoundsHolds == Spec => []WithinItsBounds
<1>1. IInv => WithinItsBounds
  <2> SUFFICES ASSUME IInv PROVE WithinItsBounds
    OBVIOUS
  <2>1. ASSUME NEW t \in Task, NEW s \in Submission
        PROVE  /\ \A i \in Intent(t) : ran[t][i][s] <= 1
               /\ Cardinality({i \in Intent(t) : ran[t][i][s] > 0}) <= MaxAttempts
    <3>1. Executed(s) /\ Budget(s) /\ s \in Actor
      BY DEF IInv, SubInv, Actor
    <3>2. \A i \in Intent(t) : i \in Index /\ ran[t][i][s] \in Nat
      BY <3>1, Fields DEF IInv, Intent, Index
    <3>3. \A i \in Intent(t) : ran[t][i][s] > 0 => ran[t][i][s] = 1
      BY <3>1, <3>2 DEF Executed
    <3>4. {i \in Intent(t) : ran[t][i][s] > 0} = RanBy(t, s)
      BY <3>1 DEF Executed, RanBy, Intent, Index
    <3>5. Cardinality(RanBy(t, s)) <= MaxAttempts
      BY <3>1 DEF Budget
    <3>6. QED
      BY <3>2, <3>3, <3>4, <3>5
  <2>2. DeniedNeverRuns
    <3> SUFFICES ASSUME NEW t \in Task, NEW i \in Intent(t), artifact[t].intents[i] \in {"invalid", "denied"},
                        NEW a \in Actor, ran[t][i][a] > 0
                 PROVE  FALSE
      BY DEF DeniedNeverRuns, Reached
    <3>1. i \in Index
      BY DEF Intent, Index
    <3>2. a \in Submission => artifact[t].intents[i] = "open"
      BY <3>1 DEF IInv, SubInv, Executed
    <3>3. a \in Call => artifact[t].intents[i] = "gated"
      BY <3>1 DEF IInv, CallInv, FirstGated
    <3>4. QED
      BY <3>2, <3>3 DEF Actor
  <2>3. QED
    BY <2>1, <2>2 DEF WithinItsBounds, BudgetRespected
<1>2. QED
  BY <1>1, Invariant, PTL

-----------------------------------------------------------------------------
(***************************************************************************)
(* One submission: the project row.                                        *)
(***************************************************************************)

\* No project workflow moves, and no row without a request is written.
LEMMA OneKeeps ==
  ASSUME OneInv, sub' = sub, projectRow' = projectRow, planned' = planned,
         \A t \in Task : decision[t] = "none" => decision'[t] = "none" /\ taskRow'[t] = taskRow[t],
         IInv
  PROVE  OneInv'
<1> SUFFICES ASSUME NEW s \in Submission PROVE NoRequestYet(s)' /\ ResultsStand(s)' /\ ProjectStands(s)'
  BY DEF OneInv
<1>1. NoRequestYet(s) /\ ResultsStand(s) /\ ProjectStands(s) /\ At(s)' = At(s)
  BY DEF OneInv, At
<1>2. NoRequestYet(s)' /\ ProjectStands(s)'
  BY <1>1 DEF NoRequestYet, ProjectStands
<1>3. sub[s].pc = "record" => At(s) \in Task
  BY AtTask DEF Working
<1>4. ResultsStand(s)'
  BY <1>1, <1>3 DEF ResultsStand
<1>5. QED
  BY <1>2, <1>4

\* The workflow moves on within a task, or between two.
LEMMA OneMoves ==
  ASSUME OneInv, IInv, NEW s \in Submission, \A u \in Submission : u = s, sub[s].pc # "done",
         sub'[s].results = sub[s].results, UNCHANGED <<world, taskRow, decision>>,
         projectRow' # "completed" \/ projectRow' = projectRow,
         sub'[s].pc \notin {"context", "record", "done"} => sub[s].pc \notin {"context", "record"},
         sub'[s].pc = "record" /\ sub'[s].outcome = "completed" => sub[s].pc = "intent"
  PROVE  OneInv'
<1> SUFFICES NoRequestYet(s)' /\ ResultsStand(s)' /\ ProjectStands(s)'
  BY DEF OneInv
<1>1. NoRequestYet(s) /\ ResultsStand(s) /\ ProjectStands(s) /\ At(s)' = At(s)
  BY DEF OneInv, At
<1>2. NoRequestYet(s)'
  BY <1>1 DEF NoRequestYet
<1>3. ProjectStands(s)'
  BY <1>1 DEF ProjectStands, world
<1>4. ResultsStand(s)'
  <2>1. sub[s].pc = "intent" => At(s) \in Task
    BY AtTask DEF Working
  <2>2. QED
    BY <1>1, <2>1 DEF ResultsStand, NoRequestYet
<1>5. QED
  BY <1>2, <1>3, <1>4

\* A task starts, or asks for an approval.
LEMMA OneStarts ==
  ASSUME OneInv, IInv, NEW s \in Submission, \A u \in Submission : u = s, startTask(s) \/ createApprovalRequest(s)
  PROVE  OneInv'
<1> SUFFICES NoRequestYet(s)' /\ ResultsStand(s)' /\ ProjectStands(s)'
  BY DEF OneInv
<1>1. NoRequestYet(s) /\ ResultsStand(s) /\ ProjectStands(s) /\ TypeOK
  BY DEF OneInv, IInv
<1>2. /\ sub'[s].pc \in {"artifact", "context"} /\ sub'[s].results = sub[s].results /\ projectRow' = projectRow /\ planned' = planned
      /\ sub[s].pc \notin {"context", "record", "done"} /\ (sub'[s].pc = "artifact" => decision' = decision)
  BY <1>1 DEF startTask, createApprovalRequest, InLoop, TypeOK, Sub, world, approval
<1>3. At(s)' = At(s) /\ At(s) = Len(sub[s].results) + 1 /\ Len(sub[s].results) \in Nat /\ At(s) \in Nat
  BY <1>1, <1>2, Fields DEF At
<1>4. \A t \in Task : t # At(s) => decision'[t] = decision[t] /\ taskRow'[t] = taskRow[t]
  BY <1>1 DEF startTask, createApprovalRequest, TypeOK, approval
<1>5. Task \subseteq Nat
  BY DEF Task
<1>6. NoRequestYet(s)'
  <2>1. SUFFICES ASSUME NEW t \in Task, t > At(s) \/ (t = At(s) /\ sub'[s].pc = "artifact") PROVE decision'[t] = "none"
    BY <1>2, <1>3 DEF NoRequestYet
  <2>2. decision[t] = "none"
    BY <1>1, <1>2, <2>1 DEF NoRequestYet
  <2>3. t > At(s) => t # At(s)
    BY <1>3, <1>5
  <2>4. QED
    BY <1>2, <1>4, <2>1, <2>2, <2>3
<1>7. ResultsStand(s)'
  <2>1. \A t \in Task : t <= Len(sub[s].results) => t # At(s)
    BY <1>3, <1>5
  <2>2. QED
    BY <1>1, <1>2, <1>4, <2>1 DEF ResultsStand
<1>8. ProjectStands(s)'
  BY <1>1, <1>2 DEF ProjectStands
<1>9. QED
  BY <1>6, <1>7, <1>8

\* The result of a task is recorded.
LEMMA OneRecords ==
  ASSUME OneInv, IInv, NEW s \in Submission, \A u \in Submission : u = s, recordTaskResult(s)
  PROVE  OneInv'
<1> SUFFICES NoRequestYet(s)' /\ ResultsStand(s)' /\ ProjectStands(s)'
  BY DEF OneInv
<1>1. NoRequestYet(s) /\ ResultsStand(s) /\ ProjectStands(s) /\ TypeOK /\ sub[s].outcome \in TaskStatus /\ sub[s].pc = "record"
      /\ sub[s].results \in Seq(TaskStatus) /\ Len(sub[s].results) \in Nat
  BY Fields DEF OneInv, IInv, SubInv, recordTaskResult
<1>2. /\ sub'[s].pc = "progress" /\ sub'[s].results = Append(sub[s].results, sub[s].outcome)
      /\ projectRow' = projectRow /\ planned' = planned /\ decision' = decision
      /\ taskRow' = [taskRow EXCEPT ![At(s)] = sub[s].outcome]
  BY <1>1 DEF recordTaskResult, TypeOK, Sub, world, approval
<1>3. /\ Len(sub'[s].results) = Len(sub[s].results) + 1 /\ sub'[s].results[At(s)] = sub[s].outcome
      /\ \A i \in 1 .. Len(sub[s].results) : sub'[s].results[i] = sub[s].results[i]
  BY <1>1, <1>2, AppendProperties DEF At
<1>4. At(s)' = At(s) + 1 /\ At(s) = Len(sub[s].results) + 1 /\ At(s) \in Task /\ At(s) \in Nat /\ Task \subseteq Nat
  <2>1. At(s) \in Task /\ Task \subseteq Nat
    BY <1>1, AtTask DEF Working, Task
  <2>2. QED
    BY <1>3, <2>1 DEF At
<1>5. taskRow'[At(s)] = sub[s].outcome /\ \A t \in Task : t # At(s) => taskRow'[t] = taskRow[t]
  BY <1>1, <1>2, <1>4 DEF TypeOK
<1>6. NoRequestYet(s)'
  <2>1. SUFFICES ASSUME NEW t \in Task, t > At(s)' \/ t = At(s)' PROVE decision[t] = "none"
    BY <1>2 DEF NoRequestYet
  <2>2. t > At(s)
    BY <1>4, <2>1
  <2>3. QED
    BY <1>1, <2>2 DEF NoRequestYet
<1>7. ResultsStand(s)'
  <2>1. ASSUME NEW t \in Task, t <= Len(sub'[s].results), sub'[s].results[t] = "completed"
        PROVE  decision'[t] = "none" /\ taskRow'[t] = "completed"
    <3>1. CASE t = At(s)
      BY <1>1, <1>2, <1>3, <1>5, <2>1, <3>1 DEF ResultsStand
    <3>2. CASE t # At(s)
      <4>1. t \in 1 .. Len(sub[s].results)
        BY <1>1, <1>3, <1>4, <2>1, <3>2 DEF Task
      <4>2. QED
        BY <1>1, <1>2, <1>3, <1>5, <2>1, <3>2, <4>1 DEF ResultsStand
    <3>3. QED
      BY <3>1, <3>2
  <2>2. QED
    BY <1>2, <2>1 DEF ResultsStand
<1>8. ProjectStands(s)'
  BY <1>1, <1>2 DEF ProjectStands
<1>9. QED
  BY <1>6, <1>7, <1>8

\* The project ends: it completed only if each of its tasks did.
LEMMA OneFinishes ==
  ASSUME OneInv, IInv, NEW s \in Submission, \A u \in Submission : u = s, finishProject(s)
  PROVE  OneInv'
<1> SUFFICES NoRequestYet(s)' /\ ResultsStand(s)' /\ ProjectStands(s)'
  BY DEF OneInv
<1>1. NoRequestYet(s) /\ ResultsStand(s) /\ ProjectStands(s) /\ TypeOK /\ Place(s)
      /\ sub[s].results \in Seq(TaskStatus) /\ Len(sub[s].results) \in Nat /\ planned.tasks \in Nat
  BY Fields DEF OneInv, IInv, SubInv
<1>2. /\ sub[s].pc = "next" /\ At(s) > planned.tasks /\ sub'[s].pc = "done" /\ sub'[s].results = sub[s].results
      /\ planned' = planned /\ decision' = decision /\ taskRow' = taskRow /\ projectRow' = aggregateStatus(sub[s].results)
  BY <1>1 DEF finishProject, TypeOK, Sub, world, approval
<1>3. Len(sub[s].results) = planned.tasks /\ planned.tasks <= MaxTasks
  BY <1>1, <1>2 DEF Place, At
<1>4. projectRow' = "completed" => \A t \in Task : t <= planned.tasks => sub[s].results[t] = "completed"
  <2>1. SUFFICES ASSUME aggregateStatus(sub[s].results) = "completed", NEW t \in Task, t <= planned.tasks
                 PROVE  sub[s].results[t] = "completed"
    BY <1>2
  <2>2. t \in 1 .. Len(sub[s].results) /\ t \in DOMAIN sub[s].results
    BY <1>1, <1>3, <2>1 DEF Task
  <2>3. sub[s].results[t] \in TaskStatus
    BY <1>1, <2>2, ElementOfSeq
  <2>4. sub[s].results[t] \notin {"requires_approval", "failed", "yielded", "completed_with_errors"}
    BY <2>1, <2>2 DEF aggregateStatus
  <2>5. QED
    BY <2>3, <2>4 DEF TaskStatus
<1>5. ProjectStands(s)'
  BY <1>2, <1>3, <1>4 DEF ProjectStands
<1>6. NoRequestYet(s)' /\ ResultsStand(s)'
  BY <1>1, <1>2 DEF NoRequestYet, ResultsStand
<1>7. QED
  BY <1>5, <1>6

\* The other steps of the workflow.
LEMMA OneElse ==
  ASSUME OneInv, IInv, NEW s \in Submission, \A u \in Submission : u = s,
         \/ submitProjectRun(s) \/ generateExecutionPlan(s) \/ checkArtifact(s) \/ skipIntent(s) \/ yieldIntent(s)
         \/ recordContinuationContext(s) \/ executeIntent(s) \/ runCritic(s) \/ endTask(s) \/ recordProgress(s) \/ abortProject(s)
  PROVE  OneInv'
<1>1. TypeOK
  BY DEF IInv
<1>2. CASE submitProjectRun(s) \/ generateExecutionPlan(s) \/ recordProgress(s) \/ abortProject(s)
  <2>1. /\ sub[s].pc # "done" /\ sub'[s].results = sub[s].results /\ UNCHANGED <<world, taskRow, decision>>
        /\ projectRow' # "completed" \/ projectRow' = projectRow
        /\ sub'[s].pc \notin {"context", "record", "done"} => sub[s].pc \notin {"context", "record"}
        /\ sub'[s].pc # "record"
    BY <1>1, <1>2 DEF TypeOK, Sub, submitProjectRun, generateExecutionPlan, recordProgress, abortProject, approval
  <2>2. QED
    BY <2>1, OneMoves
<1>3. CASE skipIntent(s) \/ executeIntent(s) \/ runCritic(s) \/ checkArtifact(s)
  <2>1. /\ sub[s].pc \in {"artifact", "intent", "critic"} /\ sub'[s].results = sub[s].results /\ UNCHANGED <<world, taskRow, decision>>
        /\ projectRow' = projectRow /\ (sub'[s].pc = "record" => sub'[s].outcome # "completed")
    <3>1. CASE skipIntent(s) \/ executeIntent(s)
      BY <1>1, <3>1 DEF TypeOK, Sub, skipIntent, executeIntent, InLoop, Skip, approval
    <3>2. CASE runCritic(s) \/ checkArtifact(s)
      BY <1>1, <3>2 DEF TypeOK, Sub, runCritic, checkArtifact, Return, approval
    <3>3. QED
      BY <1>3, <3>1, <3>2
  <2>2. QED
    BY <2>1, OneMoves
<1>4. CASE yieldIntent(s) \/ recordContinuationContext(s) \/ endTask(s)
  <2>1. /\ sub[s].pc \in {"intent", "context"} /\ sub'[s].pc = "record" /\ sub'[s].results = sub[s].results
        /\ UNCHANGED <<world, taskRow, decision>> /\ projectRow' = projectRow
        /\ sub[s].pc = "context" => sub'[s].outcome # "completed"
    BY <1>1, <1>4 DEF TypeOK, Sub, yieldIntent, recordContinuationContext, endTask, InLoop, Return, approval
  <2>2. QED
    BY <2>1, OneMoves
<1>5. QED
  BY <1>2, <1>3, <1>4

\* Calls and the clock.
LEMMA OneCalls ==
  ASSUME OneInv, IInv, NEW c \in Call, CallStep(c) \/ abortCall(c) \/ \E t \in Task : approveTask(c, t) \/ rejectTask(c, t)
  PROVE  OneInv'
<1>1. TypeOK /\ CallInv(c) /\ call[c].task \in Task
  BY Fields DEF IInv
<1>2. sub' = sub /\ projectRow' = projectRow /\ planned' = planned
  BY DEF CallStep, continueApprovedTask, recordRejection, loadContinuation, executeApproved, criticApproved,
         recordContinuation, abortCall, approveTask, rejectTask, world
<1>3. CASE taskRow' = taskRow /\ decision' = decision
  BY <1>2, <1>3, OneKeeps
<1>4. CASE recordRejection(c) \/ recordContinuation(c)
  <2>1. decision[call[c].task] # "none" /\ decision' = decision
    BY <1>1, <1>4 DEF CallInv, recordRejection, recordContinuation, approval
  <2>2. \A t \in Task : t # call[c].task => taskRow'[t] = taskRow[t]
    BY <1>1, <1>4 DEF recordRejection, recordContinuation, TypeOK
  <2>3. QED
    BY <1>2, <2>1, <2>2, OneKeeps
<1>5. ASSUME NEW t \in Task, approveTask(c, t) \/ rejectTask(c, t) PROVE OneInv'
  <2>1. decision[t] # "none" /\ taskRow' = taskRow /\ \A u \in Task : u # t => decision'[u] = decision[u]
    BY <1>1, <1>5 DEF approveTask, rejectTask, TypeOK
  <2>2. QED
    BY <1>2, <2>1, OneKeeps
<1>6. continueApprovedTask(c) \/ loadContinuation(c) \/ executeApproved(c) \/ criticApproved(c) \/ abortCall(c) =>
        taskRow' = taskRow /\ decision' = decision
  BY DEF continueApprovedTask, loadContinuation, executeApproved, criticApproved, abortCall, approval
<1>7. QED
  BY <1>3, <1>4, <1>5, <1>6 DEF CallStep

\* The rows tell the truth for a goal that is submitted once (workflow-client.ts and
\* project-reconciler.ts): a project row that says completed has every planned task
\* completed, whatever calls and continuations wrote since; no task row is left at running
\* once the workflows ended normally; and a completed task has executed what its row says.
\* The first part is false for a goal that is submitted twice, because the second submission
\* sets the rows of the first back to running.
THEOREM RowsTruthfulHolds ==
  ASSUME \E s : Submission = {s}
  PROVE  Spec => []RowsTruthful
<1>1. Init => OneInv
  <2> SUFFICES ASSUME Init, NEW s \in Submission PROVE NoRequestYet(s) /\ ResultsStand(s) /\ ProjectStands(s)
    BY DEF OneInv
  <2>1. /\ sub[s].pc = "idle" /\ sub[s].results = <<>> /\ projectRow = "none" /\ \A t \in Task : decision[t] = "none"
    BY DEF Init
  <2>2. \A t \in Task : ~ (t <= 0)
    BY DEF Task
  <2>3. Len(sub[s].results) = 0
    BY <2>1
  <2>4. QED
    BY <2>1, <2>2, <2>3 DEF NoRequestYet, ResultsStand, ProjectStands
<1>2. OneInv /\ IInv /\ [Next]_vars => OneInv'
  <2> SUFFICES ASSUME OneInv, IInv, [Next]_vars PROVE OneInv'
    OBVIOUS
  <2>1. ASSUME NEW s \in Submission, submitProjectRun(s) \/ ProjectStep(s) \/ abortProject(s) PROVE OneInv'
    <3>1. \A u \in Submission : u = s
      OBVIOUS
    <3>2. QED
      BY <2>1, <3>1, OneStarts, OneRecords, OneFinishes, OneElse DEF ProjectStep
  <2>2. ASSUME NEW c \in Call, CallStep(c) \/ abortCall(c) \/ \E t \in Task : approveTask(c, t) \/ rejectTask(c, t) PROVE OneInv'
    BY <2>2, OneCalls
  <2>3. CASE expire \/ UNCHANGED vars
    <3>1. sub' = sub /\ projectRow' = projectRow /\ planned' = planned /\ decision' = decision /\ taskRow' = taskRow
      BY <2>3 DEF expire, vars, approval
    <3>2. QED
      BY <3>1, OneKeeps
  <2>4. QED
    BY <2>1, <2>2, <2>3 DEF Next
<1>3. IInv /\ OneInv => RowsTruthful
  <2> SUFFICES ASSUME IInv, OneInv PROVE RowsTruthful
    OBVIOUS
  <2>1. ProjectRowTruthful
    <3> SUFFICES ASSUME projectRow = "completed", NEW t \in 1 .. planned.tasks PROVE taskRow[t] = "completed"
      BY DEF ProjectRowTruthful
    <3>1. PICK s \in Submission : NoRequestYet(s) /\ ResultsStand(s) /\ ProjectStands(s)
      BY DEF OneInv
    <3>2. planned.tasks <= MaxTasks /\ Len(sub[s].results) = planned.tasks /\ planned.tasks \in Nat /\ MaxTasks \in Nat
      BY <3>1, Fields DEF ProjectStands, IInv
    <3>3. t \in Task /\ t <= planned.tasks
      BY <3>2 DEF Task
    <3>4. QED
      BY <3>1, <3>2, <3>3 DEF ProjectStands, ResultsStand
  <2>2. NoRowLeftRunning
    <3> SUFFICES ASSUME Quiet, aborts = 0, NEW t \in Task, taskRow[t] = "running" PROVE FALSE
      BY DEF NoRowLeftRunning
    <3>1. PICK s \in Submission : sub[s].pc \in Working
      BY DEF IInv, RowInv
    <3>2. QED
      BY <3>1 DEF Quiet, Working
  <2>3. CompletedMeansRan
    <3> SUFFICES ASSUME NEW t \in Task
                 PROVE  /\ taskRow[t] = "completed" =>
                             \/ \A i \in Intent(t) : Reached(t, i)
                             \/ context[t] # 0 /\ Reached(t, context[t])
                        /\ taskRow[t] = "completed_with_errors" => \E i \in Intent(t) : Reached(t, i)
      BY DEF CompletedMeansRan
    <3>1. Claim(t, taskRow[t], artifact, decision, context, ran)
      BY DEF IInv, RowInv
    <3>2. Intent(t) = Listed(t, artifact) /\ \A i : Hit(t, i, ran) <=> Reached(t, i)
      BY DEF Intent, Listed, Index, Hit, Reached
    <3>3. QED
      BY <3>1, <3>2 DEF Claim
  <2>4. QED
    BY <2>1, <2>2, <2>3 DEF RowsTruthful
<1>4. QED
  BY <1>1, <1>2, <1>3, Invariant, PTL DEF Spec

=============================================================================
