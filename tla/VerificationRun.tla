--------------------------- MODULE VerificationRun ---------------------------
(***************************************************************************)
(* Verification of a worktree (repository/verification-runner.ts): the     *)
(* commands of the policy that were asked for run one after the other,     *)
(* each as a child process with a timer.                                   *)
(*                                                                         *)
(* A child that is killed may go on for a while, or for ever, and its end  *)
(* comes late.  A child that cannot be started emits an error that nobody  *)
(* listens to, which ends the whole process.  Output and its truncation    *)
(* are left out.                                                           *)
(***************************************************************************)
EXTENDS Naturals, Sequences, SequencesExt, FiniteSets

CONSTANTS
    VrScripts,  \* the scripts of package.json, sets of names
    VrAsked     \* the command ids that a node asks for

VARIABLES
    vrPc,       \* "idle", "next", "running", "reported", "crashed"
    vrTodo,     \* selected commands that have not run, the first is current
    vrAsked,    \* history: what was selected
    vrResults,  \* commandResults: [id, status]
    vrLinger,   \* killed children that have not ended
    vrExit,     \* history: [id, code, late] of the children that ended
    vrReport    \* "none", "passed", "failed"

vrVars == <<vrPc, vrTodo, vrAsked, vrResults, vrLinger, vrExit, vrReport>>

VrInit ==
    /\ vrPc = "idle" /\ vrTodo = <<>> /\ vrAsked = <<>> /\ vrResults = <<>>
    /\ vrLinger = {} /\ vrExit = {} /\ vrReport = "none"

VrCommand == {"typecheck", "test", "lint", "build"}

\* The list of commands, filtered.
inPolicyOrder(names) ==
    LET only(c) == IF c \in names THEN <<c>> ELSE <<>>
    IN  only("typecheck") \o only("test") \o only("lint") \o only("build")

detectVerificationPolicy(scripts) == inPolicyOrder(scripts)

\* A node that asks for nothing gets the first command of the policy; an id
\* that the policy does not have selects nothing.
commandIds(policy, asked) ==
    IF asked # {} THEN asked ELSE ToSet(SubSeq(policy, 1, IF policy = <<>> THEN 0 ELSE 1))

BeginVerification(scripts, asked) ==
    LET policy == detectVerificationPolicy(scripts)
        selected == inPolicyOrder(ToSet(policy) \cap commandIds(policy, asked))
    IN  /\ vrPc = "idle" /\ vrPc' = "next"
        /\ vrTodo' = selected /\ vrAsked' = selected
        /\ UNCHANGED <<vrResults, vrLinger, vrExit, vrReport>>

\* runCommand: spawn and setTimeout.
Spawn ==
    /\ vrPc = "next" /\ vrTodo # <<>>
    /\ vrPc' = "running"
    /\ UNCHANGED <<vrTodo, vrAsked, vrResults, vrLinger, vrExit, vrReport>>

SpawnFails ==
    /\ vrPc = "next" /\ vrTodo # <<>>
    /\ vrPc' = "crashed"
    /\ UNCHANGED <<vrTodo, vrAsked, vrResults, vrLinger, vrExit, vrReport>>

Resolve(status) ==
    /\ vrResults' = Append(vrResults, [id |-> Head(vrTodo), status |-> status])
    /\ vrTodo' = Tail(vrTodo) /\ vrPc' = "next"

\* close before the timer: null, a child ended by a signal, counts as 1.
Close(code) ==
    /\ vrPc = "running"
    /\ Resolve(IF code = 0 THEN "passed" ELSE "failed")
    /\ vrExit' = vrExit \cup {[id |-> Head(vrTodo), code |-> code, late |-> FALSE]}
    /\ UNCHANGED <<vrAsked, vrLinger, vrReport>>

Timeout ==
    /\ vrPc = "running"
    /\ Resolve("timeout")
    /\ vrLinger' = vrLinger \cup {Head(vrTodo)}
    /\ UNCHANGED <<vrAsked, vrExit, vrReport>>

\* Mutant: the end of a killed child is taken for its result.
LateCloseCounts(id, code) ==
    /\ id \in vrLinger /\ vrPc # "crashed"
    /\ vrLinger' = vrLinger \ {id}
    /\ vrExit' = vrExit \cup {[id |-> id, code |-> code, late |-> TRUE]}
    /\ vrResults' = [i \in DOMAIN vrResults |->
                       IF vrResults[i].id = id /\ code = 0 THEN [id |-> id, status |-> "passed"] ELSE vrResults[i]]
    /\ UNCHANGED <<vrPc, vrTodo, vrAsked, vrReport>>

\* The end of a killed child finds the promise resolved.
LateClose(id, code) ==
    /\ id \in vrLinger /\ vrPc # "crashed"
    /\ vrLinger' = vrLinger \ {id}
    /\ vrExit' = vrExit \cup {[id |-> id, code |-> code, late |-> TRUE]}
    /\ UNCHANGED <<vrPc, vrTodo, vrAsked, vrResults, vrReport>>

\* A report without a result does not pass.
Report ==
    /\ vrPc = "next" /\ vrTodo = <<>>
    /\ vrPc' = "reported"
    /\ vrReport' = IF vrResults # <<>> /\ \A i \in DOMAIN vrResults : vrResults[i].status = "passed"
                   THEN "passed" ELSE "failed"
    /\ UNCHANGED <<vrTodo, vrAsked, vrResults, vrLinger, vrExit>>

VrNext ==
    \/ \E scripts \in VrScripts, asked \in VrAsked : BeginVerification(scripts, asked)
    \/ Spawn \/ SpawnFails \/ Timeout \/ Report
    \/ \E code \in {0, 1} : Close(code)
    \/ \E id \in vrLinger, code \in {0, 1} : LateClose(id, code)

VrSpec == VrInit /\ [][VrNext]_vrVars

-----------------------------------------------------------------------------
(* Properties.                                                              *)

\* A verification passes only if it selected something and every command of
\* it ended with 0 in time: the late end of a child that was killed, which
\* may come while the next command runs or after it, does not count.
PassedEndedInTime ==
    vrReport = "passed" =>
        /\ vrAsked # <<>>
        /\ \A id \in ToSet(vrAsked) : [id |-> id, code |-> 0, late |-> FALSE] \in vrExit

\* A report has one result for every selected command, in the order of the
\* policy, whichever of them failed or ran out of time.
ReportCoversSelection ==
    vrPc = "reported" => [i \in DOMAIN vrResults |-> vrResults[i].id] = vrAsked

\* A verification report covers what was selected, and passed stands for
\* commands that ended in time.
VerificationHonest == PassedEndedInTime /\ ReportCoversSelection
=============================================================================
