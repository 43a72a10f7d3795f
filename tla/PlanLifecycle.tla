--------------------------- MODULE PlanLifecycle ---------------------------
(***************************************************************************)
(* What the plan state of a durable run promises when one request is       *)
(* served at a time: a node begins only when everything it depends on is   *)
(* done, only a node that runs can finish, and finished work is given up   *)
(* only by a replay, which also gives up everything built on it.           *)
(***************************************************************************)
CONSTANTS Node, DependsOn

VARIABLES status, node

vars == <<status, node>>

Done    == {"completed", "skipped"}
Waiting == {"pending", "ready"}
Fresh   == [n \in Node |-> IF DependsOn[n] = {} THEN "ready" ELSE "pending"]

Init == status = "absent" /\ node = Fresh

Prepare ==
  /\ status' = "pending"
  /\ node' = Fresh

Begin(n) ==
  /\ node[n] \in Waiting
  /\ \A d \in DependsOn[n] : node[d] \in Done
  /\ node' = [node EXCEPT ![n] = "running"]
  /\ status' = "running"

\* The status that the outcome of the node just finished implies.
Verdict(outcome, nodes) ==
  IF outcome \in {"failed", "yielded"} THEN outcome
  ELSE IF \A n \in Node : nodes[n] \in Done THEN "completed" ELSE "running"

Finish(n, outcome) ==
  /\ node[n] = "running"
  /\ node' = [node EXCEPT ![n] = outcome]
  /\ status' = Verdict(outcome, node')

\* Give up the nodes of S; what stays begun must not depend on them.
Replay(S) ==
  /\ \A n \in Node :
       IF n \in S
       THEN node'[n] \in Waiting
       ELSE /\ node'[n] = node[n]
            /\ node[n] \notin Waiting => DependsOn[n] \cap S = {}
  /\ DOMAIN node' = Node
  /\ status' = "running"

Reject ==
  /\ status' = "yielded"
  /\ UNCHANGED node

Next ==
  \/ Prepare
  \/ \E n \in Node : Begin(n)
  \/ \E n \in Node, o \in {"completed", "failed", "yielded"} : Finish(n, o)
  \/ \E S \in SUBSET Node : Replay(S)
  \/ Reject

Spec == Init /\ [][Next]_vars
=============================================================================
