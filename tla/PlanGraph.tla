------------------------------ MODULE PlanGraph ------------------------------
(***************************************************************************)
(* The graph algorithms of the plan: hasCycle and unreachableNodes of      *)
(* planning/planfile-validator.ts and dependentNodeIds of                  *)
(* planning/control-plane.ts, each against a reference definition, and     *)
(* what the verdict of validatePlanfile is worth to PlanRunner, whose      *)
(* loop runs one ready node after the other.                               *)
(*                                                                         *)
(* The behaviours validate an arbitrary plan and, if the graph is          *)
(* accepted, run it with nodes that all complete.  Node ids are numbers in *)
(* plan order; an id in Missing is the id of no node.  Left out: the       *)
(* checks of validatePlanfile that are not about the graph.                *)
(***************************************************************************)
EXTENDS Naturals, Sequences, SequencesExt

CONSTANTS
  NodeCount,   \* plan.nodes.length
  Missing,     \* ids outside the plan that depends_on may name
  FrameSets,   \* the sets of nodes of kind "frame" to consider
  Optionals    \* the sets of optional nodes to consider

Node == 1 .. NodeCount
Id   == Node \cup Missing

ASSUME ConstantsAssumption ==
  /\ NodeCount \in Nat \ {0}
  /\ Missing \cap Node = {}
  /\ FrameSets \subseteq SUBSET Node
  /\ Optionals \subseteq SUBSET Node

VARIABLES
  depends_on,  \* of each node
  frames,      \* the nodes of kind "frame"
  optional,    \* the optional nodes
  verdict,     \* "unset", "none", "accepted" or "refused"
  done         \* the nodes that PlanRunner completed

grVars == <<depends_on, frames, optional, verdict, done>>

InOrder(S) == SetToSortSeq(S, <)

-----------------------------------------------------------------------------
(***************************************************************************)
(* hasCycle: depth-first search with the sets visiting and visited.        *)
(***************************************************************************)
RECURSIVE visit(_, _)

\* Mutant: a node that is left stays in visiting.
visitSticky(id, st) ==
  CASE id \in st.visiting -> [st EXCEPT !.cycle = TRUE]
    [] id \notin st.visiting /\ id \notin Node -> st
    [] OTHER -> FoldLeft(LAMBDA s, d : IF s.cycle THEN s ELSE visit(d, s),
                         [st EXCEPT !.visiting = @ \cup {id}], InOrder(depends_on[id]))

visit(id, st) ==
  CASE id \in st.visited  -> st
    [] id \notin st.visited /\ id \in st.visiting -> [st EXCEPT !.cycle = TRUE]
    [] id \notin st.visited \cup st.visiting /\ id \notin Node -> st
    [] OTHER ->
         LET entered == [st EXCEPT !.visiting = @ \cup {id}]
             after == FoldLeft(LAMBDA s, d : IF s.cycle THEN s ELSE visit(d, s),
                               entered, InOrder(depends_on[id]))
         IN  IF after.cycle THEN after
             ELSE [after EXCEPT !.visiting = @ \ {id}, !.visited = @ \cup {id}]

hasCycle ==
  FoldLeft(LAMBDA s, n : IF s.cycle THEN s ELSE visit(n, s),
           [cycle |-> FALSE, visiting |-> {}, visited |-> {}], InOrder(Node)).cycle

-----------------------------------------------------------------------------
(***************************************************************************)
(* unreachableNodes: a stack of ids from the frame nodes, or from the      *)
(* nodes without dependencies when there is no frame node.                 *)
(***************************************************************************)
children(id) == InOrder({n \in Node : id \in depends_on[n]})

RECURSIVE reach(_, _)
reach(stack, reached) ==
  IF stack = <<>> THEN reached
  ELSE LET id == Last(stack)
       IN  IF id \in reached THEN reach(Front(stack), reached)
           ELSE reach(Front(stack) \o children(id), reached \cup {id})

start == IF frames # {} THEN frames ELSE {n \in Node : depends_on[n] = {}}

unreachableNodes == Node \ reach(InOrder(start), {})

-----------------------------------------------------------------------------
(***************************************************************************)
(* dependentNodeIds: passes over the plan until nothing changes.           *)
(***************************************************************************)
pass(result) ==
  FoldLeft(LAMBDA r, n : IF depends_on[n] \cap r # {} THEN r \cup {n} ELSE r,
           result, InOrder(Node))

RECURSIVE untilStable(_)

untilStable(result) == IF pass(result) = result THEN result ELSE untilStable(pass(result))

dependentNodeIds(n) == untilStable({n})

-----------------------------------------------------------------------------
(***************************************************************************)
(* The reference definitions.                                              *)
(***************************************************************************)
\* m depends on n through one or more steps: n is in every set that holds
\* the dependencies of m and those of its members.
Needs(m, n) ==
  \A S \in SUBSET Id :
    (/\ depends_on[m] \subseteq S
     /\ \A k \in S \cap Node : depends_on[k] \subseteq S) => n \in S

\* Frame nodes are the roots; without any, the nodes that need nothing.
Root(n) == n \in frames \/ (frames = {} /\ depends_on[n] = {})

-----------------------------------------------------------------------------
(***************************************************************************)
(* Validation and the run.                                                 *)
(***************************************************************************)
\* The graph issues that make validatePlanfile refuse.
graphIssues ==
  \/ \E n \in Node : depends_on[n] \cap Missing # {}
  \/ hasCycle
  \/ unreachableNodes \ optional # {}

GrInit ==
  /\ depends_on = [n \in Node |-> {}]
  /\ frames = {}
  /\ optional = {}
  /\ verdict = "unset"
  /\ done = {}

\* Any plan reaches the validator: its schema says nothing of the graph.
submitPlan ==
  /\ verdict = "unset"
  /\ verdict' = "none"
  /\ depends_on' \in [Node -> SUBSET Id]
  /\ frames' \in FrameSets
  /\ optional' \in Optionals
  /\ UNCHANGED done

validatePlanfile ==
  /\ verdict = "none"
  /\ verdict' = IF graphIssues THEN "refused" ELSE "accepted"
  /\ UNCHANGED <<depends_on, frames, optional, done>>

readyNodes == {n \in Node \ done : depends_on[n] \subseteq done}

runReadyNode ==
  /\ verdict = "accepted"
  /\ readyNodes # {}
  /\ done' = done \cup {Head(InOrder(readyNodes))}
  /\ UNCHANGED <<depends_on, frames, optional, verdict>>

GrNext == submitPlan \/ validatePlanfile \/ runReadyNode

-----------------------------------------------------------------------------
(***************************************************************************)
(* Properties.                                                             *)
(***************************************************************************)
\* hasCycle answers true exactly when some node depends on itself through
\* one or more steps, whatever the order of the search.
CycleFound == verdict = "none" => (hasCycle <=> \E n \in Node : Needs(n, n))

\* unreachableNodes returns exactly the nodes that are no root and depend,
\* through one or more steps, on no root.
UnreachableFound ==
  verdict = "none" =>
    unreachableNodes = {n \in Node : ~Root(n) /\ ~\E r \in Node : Root(r) /\ Needs(n, r)}

\* dependentNodeIds returns a node and everything that depends on it through
\* one or more steps: what a retry resets is neither more nor less.
DependentsFound ==
  verdict = "none" =>
    \A n \in Node : dependentNodeIds(n) = {n} \cup {m \in Node : Needs(m, n)}

\* A plan that validation accepts never leaves PlanRunner without a ready
\* node while some node is not done.
AcceptedNeverWedges == verdict = "accepted" /\ readyNodes = {} => done = Node

\* The three searches of the plan graph compute what their names say, for
\* every graph, and what validation accepts by them the runner can finish.
SearchesAgree == CycleFound /\ UnreachableFound /\ DependentsFound /\ AcceptedNeverWedges
=============================================================================
