----------------------------- MODULE PolicyGate -----------------------------
(***************************************************************************)
(* The policy gate (core/src/policy/policy-gate.ts) rule by rule.          *)
(*                                                                         *)
(* A gate input keeps of its delegation, task, capability and intent what  *)
(* the rules compare: whether a list names the capability, whether a task  *)
(* scope is denied, the risk levels and what asks for approval.            *)
(***************************************************************************)
EXTENDS Naturals, FiniteSets, Sequences

CONSTANTS Risk,        \* risk levels, by their rank in RISK_ORDER
          AttemptBound \* bounds.max_total_endpoint_attempts

ASSUME RiskAssumption == Risk \subseteq Nat /\ 0 \in Risk
ASSUME AttemptAssumption == AttemptBound \in Nat

PolicyInput ==
    [used : 0..AttemptBound, expired : BOOLEAN,
     named : BOOLEAN,          \* delegation_context.allowed_capabilities
     taskNamed : BOOLEAN,      \* scoped_task.allowed_capabilities
     deniedScope : BOOLEAN, blankKey : BOOLEAN,
     risk : Risk, maxDelegated : Risk, maxTask : Risk,
     approval : BOOLEAN,       \* the capability's or the intent's own flag
     approvalFor : {{}} \cup {{r} : r \in Risk},
     maxWithout : Risk]

\* Mutant: the delegation's bound is not compared.
riskExceedsTask(p) == p.risk > p.maxTask

\* The intent's risk against the delegation's and the task's.
riskExceeds(p) == p.risk > p.maxDelegated \/ p.risk > p.maxTask

\* The rules in the order the gate tries them: the condition under which a
\* rule stops the evaluation, and the outcome it then returns.
Rules(p) ==
    << [stops |-> p.used >= AttemptBound,               out |-> "yield"],
       [stops |-> p.expired,                            out |-> "deny"],
       [stops |-> ~(p.named \/ p.taskNamed),            out |-> "deny"],
       [stops |-> p.deniedScope,                        out |-> "deny"],
       [stops |-> p.blankKey,                           out |-> "deny"],
       [stops |-> riskExceeds(p),                       out |-> "deny"],
       [stops |-> p.approval \/ p.risk \in p.approvalFor
                    \/ p.risk > p.maxWithout,           out |-> "requires_approval"] >>

\* evaluatePolicyWithReport: the decision, and matched_rules as the number of
\* rules passed before it.
evaluatePolicyWithReport(p) ==
    LET stopping == {k \in DOMAIN Rules(p) : Rules(p)[k].stops}
    IN  IF stopping = {}
        THEN [decision |-> "allow", matched |-> Len(Rules(p))]
        ELSE LET k == CHOOSE k \in stopping : \A j \in stopping : k <= j
             IN  [decision |-> Rules(p)[k].out, matched |-> k - 1]

evaluatePolicy(p) == evaluatePolicyWithReport(p).decision

=============================================================================
