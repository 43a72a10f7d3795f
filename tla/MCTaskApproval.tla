--------------------------- MODULE MCTaskApproval ---------------------------
(***************************************************************************)
(* Instances of TaskApproval for TLC.                                      *)
(***************************************************************************)
EXTENDS TaskApproval, TLC

\* Plans: unparsable, over the task bound, and every legal length.
EveryPlan == {[valid |-> FALSE, tasks |-> 0]}
             \cup {[valid |-> TRUE, tasks |-> n] : n \in 0 .. MaxTasks + 1}
OneTask   == {[valid |-> TRUE, tasks |-> 1]}

Sound(S) == {[sound |-> TRUE, intents |-> x] : x \in S}

\* Artifacts whose tasks differ in what an approval does to them, and the
\* ones that are turned down at once: unsound, empty, too long.
Telling == Sound({<<"gated">>, <<"open">>, <<"open", "gated">>, <<"gated", "open">>,
                  <<"denied", "open">>, <<"invalid">>, <<>>, <<"open", "open", "open">>})
           \cup {[sound |-> FALSE, intents |-> <<>>]}

\* One artifact that waits, one that is denied in part, and one with more
\* intents than the attempt budget.
Mixed == Sound({<<"gated">>, <<"denied", "open">>, <<"open", "open", "open">>})
Gated == Sound({<<"gated">>})

BothSymmetry == Permutations(Call) \cup Permutations(Submission)
=============================================================================
