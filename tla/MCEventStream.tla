---------------------------- MODULE MCEventStream ----------------------------
(***************************************************************************)
(* Instances of EventStream for TLC.                                       *)
(***************************************************************************)
EXTENDS EventStream

\* One worker writes everything.
WorkerOnly == {[e \in Event |-> "worker"]}
\* A worker writes the odd events, the API process the even ones.
Mixed      == {[e \in Event |-> IF e % 2 = 1 THEN "worker" ELSE "api"]}
Both       == WorkerOnly \cup Mixed
=============================================================================
