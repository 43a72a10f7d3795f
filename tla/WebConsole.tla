----------------------------- MODULE WebConsole -----------------------------
(***************************************************************************)
(* The run page of the web application: run-console-client.tsx, and with   *)
(* it the research and repository run pages, which share its shape.  One   *)
(* page shows a snapshot of the run that it fetches whole, and the events  *)
(* that it streams; both answer when they like.                            *)
(*                                                                         *)
(* The stream delivers events in the order of their numbers, perhaps one   *)
(* again; what the server side may leave out is the subject of             *)
(* EventStream.  Events of a snapshot carry no sequence number, those of   *)
(* the stream do.                                                          *)
(***************************************************************************)
EXTENDS Naturals, Sequences, FiniteSets

CONSTANTS
    WcType,       \* event types the run emits
    WcLogBound,   \* events of the run
    WcGetBound,   \* snapshot requests in flight at once
    WcPostBound,  \* control requests in flight at once
    WcTokenBound  \* changes of the token field

\* All types of RunEvent.
RunEventType == {"run.created", "run.started", "run.completed", "run.failed", "run.yielded", "run.cancelled",
    "node.started", "node.completed", "node.failed", "node.yielded", "capability.started", "capability.completed",
    "capability.failed", "policy.evaluated", "approval.requested", "approval.resolved", "artifact.created",
    "model_call.completed", "verification.started", "verification.completed", "repair.started", "repair.completed"}

ASSUME ConsoleAssumption == WcType \subseteq RunEventType /\ WcGetBound \in Nat /\ WcPostBound \in Nat

VARIABLES
    wcLog,      \* the run's events, by type
    wcTimeline, \* the timeline on the page: event numbers, and if a sequence came along
    wcUpTo,     \* number of events the snapshot was built from; 0: no snapshot yet
    wcStream,   \* the stream loop: connection, cursor (lastEventId), the request it awaits
    wcTimer,    \* snapshotRefreshTimeout is set
    wcGets,     \* snapshot requests: step and what they were answered from
    wcPosts,    \* control requests in flight
    wcBusy,     \* busy
    wcTokens,   \* changes of the token so far
    wcSeen,     \* history: the last event delivered that changes a watched part of the snapshot
    wcPosted,   \* history: length of the run when the last control request was handled
    wcExcused   \* history: an old snapshot is excused

wcVars == <<wcLog, wcTimeline, wcUpTo, wcStream, wcTimer, wcGets, wcPosts, wcBusy, wcTokens, wcSeen, wcPosted,
            wcExcused>>

NoGet == [step |-> "none", version |-> 0]
WcSlot == 1..WcGetBound
WcPost == 1..WcPostBound
\* Mounting the page asks for a snapshot and starts the stream.
WcInit ==
    /\ wcLog = <<"run.created">> /\ wcTimeline = <<>> /\ wcUpTo = 0
    /\ wcStream = [conn |-> "connecting", cursor |-> 0, get |-> 0]
    /\ wcTimer = FALSE /\ wcGets = [g \in WcSlot |-> IF g = 1 THEN [NoGet EXCEPT !.step = "sent"] ELSE NoGet]
    /\ wcPosts = [p \in WcPost |-> "none"] /\ wcBusy = TRUE /\ wcTokens = 0
    /\ wcSeen = 0 /\ wcPosted = 0 /\ wcExcused = FALSE

Max2(a, b) == IF a > b THEN a ELSE b
\* History: from here on the page may be behind, and nothing more is remembered.
Excuse(now) ==
    /\ wcExcused' = (wcExcused \/ now)
    /\ wcSeen' = IF now THEN 0 ELSE wcSeen
    /\ wcPosted' = IF now THEN 0 ELSE wcPosted

\* buildRunSnapshot: the parts of a snapshot, with the events each is made from.
Shows ==
    [approvals |-> {"approval.requested", "approval.resolved"},
     model_calls |-> {"model_call.completed"},
     created_artifacts |-> {"artifact.created"},
     outcome |-> {"run.completed", "run.failed", "run.yielded", "run.cancelled"},
     ended_nodes |-> {"node.completed", "node.failed", "node.yielded"},
     running |-> {"run.started", "node.started"},
     referenced_artifacts |-> {"run.completed", "node.completed", "capability.completed", "model_call.completed"},
     capabilities |-> {"capability.started", "capability.completed", "capability.failed"},
     errors |-> {"run.failed", "node.failed", "capability.failed"},
     policy_reports |-> {"policy.evaluated"}]
\* The parts a reader decides by; the others may lag behind the timeline.
WatchedParts == {"approvals", "model_calls", "created_artifacts", "outcome", "ended_nodes"}
changesWatched(type) == \E part \in WatchedParts : type \in Shows[part]

\* The run is over for good; a failed one may be retried.
runOver(log) == \E i \in DOMAIN log : log[i] \in {"run.completed", "run.cancelled"}
\* What the page takes for over: failed, and not begun again, too.
terminalStatus(log) ==
    \/ runOver(log)
    \/ \E i \in DOMAIN log : log[i] = "run.failed" /\ \A j \in DOMAIN log : j > i => log[j] # "node.started"

\* The run goes on.
Emit(type) ==
    /\ Len(wcLog) < WcLogBound /\ ~runOver(wcLog)
    /\ wcLog' = Append(wcLog, type)
    /\ UNCHANGED <<wcTimeline, wcUpTo, wcStream, wcTimer, wcGets, wcPosts, wcBusy, wcTokens, wcSeen, wcPosted, wcExcused>>

-----------------------------------------------------------------------------
(* Snapshots                                                               *)

\* refresh: the next free request is sent.
FreeGet(g) == wcGets[g] = NoGet /\ \A h \in WcSlot : h < g => wcGets[h] # NoGet
Sent(g) == [wcGets EXCEPT ![g].step = "sent"]

ServeSnapshot(g) ==
    /\ wcGets[g].step = "sent"
    /\ wcGets' = [wcGets EXCEPT ![g] = [step |-> "answered", version |-> Len(wcLog)]]
    /\ UNCHANGED <<wcLog, wcTimeline, wcUpTo, wcStream, wcTimer, wcPosts, wcBusy, wcTokens, wcSeen, wcPosted,
                   wcExcused>>

\* The answer replaces what the page shows, whatever it showed.
LandSnapshot(g) ==
    /\ wcGets[g].step = "answered"
    /\ wcGets' = [wcGets EXCEPT ![g] = NoGet] /\ wcBusy' = FALSE
    /\ wcUpTo' = wcGets[g].version
    /\ wcTimeline' = [i \in 1..wcGets[g].version |-> [n |-> i, numbered |-> FALSE]]
    /\ Excuse(wcGets[g].version < wcUpTo)
    /\ UNCHANGED <<wcLog, wcStream, wcTimer, wcPosts, wcTokens>>
LoseSnapshot(g) ==
    /\ wcGets[g] # NoGet
    /\ wcGets' = [wcGets EXCEPT ![g] = NoGet] /\ wcBusy' = FALSE
    /\ Excuse(TRUE)
    /\ UNCHANGED <<wcLog, wcTimeline, wcUpTo, wcStream, wcTimer, wcPosts, wcTokens>>

PressRefresh(g) ==
    /\ ~wcBusy /\ FreeGet(g)
    /\ wcGets' = Sent(g) /\ wcBusy' = TRUE
    /\ UNCHANGED <<wcLog, wcTimeline, wcUpTo, wcStream, wcTimer, wcPosts, wcTokens, wcSeen, wcPosted, wcExcused>>
TimerFires(g) ==
    /\ wcTimer /\ FreeGet(g)
    /\ wcTimer' = FALSE /\ wcGets' = Sent(g) /\ wcBusy' = TRUE
    /\ UNCHANGED <<wcLog, wcTimeline, wcUpTo, wcStream, wcPosts, wcTokens, wcSeen, wcPosted, wcExcused>>

-----------------------------------------------------------------------------
(* The stream                                                              *)

Connect ==
    /\ wcStream.conn = "connecting"
    /\ wcStream' = [wcStream EXCEPT !.conn = "open"]
    /\ UNCHANGED <<wcLog, wcTimeline, wcUpTo, wcTimer, wcGets, wcPosts, wcBusy, wcTokens, wcSeen, wcPosted, wcExcused>>
StreamEnds ==
    /\ wcStream.conn = "open"
    /\ wcStream' = [wcStream EXCEPT !.conn = "connecting"]
    /\ UNCHANGED <<wcLog, wcTimeline, wcUpTo, wcTimer, wcGets, wcPosts, wcBusy, wcTokens, wcSeen, wcPosted, wcExcused>>
\* A failure fetches a snapshot and, when that is over, sleeps before the next try.
StreamFails(g) ==
    /\ wcStream.conn \in {"connecting", "open"} /\ FreeGet(g)
    /\ wcStream' = [wcStream EXCEPT !.conn = "retry", !.get = g]
    /\ wcGets' = Sent(g) /\ wcBusy' = TRUE
    /\ UNCHANGED <<wcLog, wcTimeline, wcUpTo, wcTimer, wcPosts, wcTokens, wcSeen, wcPosted, wcExcused>>
StreamRetries ==
    /\ wcStream.conn = "retry" /\ wcGets[wcStream.get] = NoGet
    /\ wcStream' = [wcStream EXCEPT !.conn = "connecting", !.get = 0]
    /\ UNCHANGED <<wcLog, wcTimeline, wcUpTo, wcTimer, wcGets, wcPosts, wcBusy, wcTokens, wcSeen, wcPosted, wcExcused>>

\* Mutant: events of nodes do not refresh the snapshot.
withoutNodes(type) == type \in {"run.completed", "run.failed", "run.yielded", "run.cancelled", "artifact.created",
    "approval.requested", "approval.resolved", "model_call.completed"}

shouldRefreshSnapshotForEvent(type) == type \in {"run.completed", "run.failed", "run.yielded", "run.cancelled",
    "node.completed", "node.failed", "node.yielded", "artifact.created", "approval.requested", "approval.resolved",
    "model_call.completed"}

\* An event that came with a number goes behind the others that have one, and before
\* those of the snapshot, which have none; the timeline is in this order already.
inserted(timeline, e) ==
    LET before == Cardinality({i \in DOMAIN timeline : timeline[i].numbered /\ timeline[i].n <= e})
    IN  SubSeq(timeline, 1, before) \o <<[n |-> e, numbered |-> TRUE]>>
            \o SubSeq(timeline, before + 1, Len(timeline))
applyRunEventToSnapshot(timeline, e) ==
    IF \E i \in DOMAIN timeline : timeline[i].n = e THEN timeline ELSE inserted(timeline, e)

\* handleSseFrame
Frame(e) ==
    /\ wcStream.conn = "open" /\ e >= wcStream.cursor
    /\ wcStream' = [wcStream EXCEPT !.cursor = e]
    /\ wcSeen' = IF changesWatched(wcLog[e]) /\ ~wcExcused THEN Max2(wcSeen, e) ELSE wcSeen
    /\ wcTimeline' = IF wcUpTo > 0 THEN applyRunEventToSnapshot(wcTimeline, e) ELSE wcTimeline
    /\ wcTimer' = (wcTimer \/ shouldRefreshSnapshotForEvent(wcLog[e]))
    /\ UNCHANGED <<wcLog, wcUpTo, wcGets, wcPosts, wcBusy, wcTokens, wcPosted, wcExcused>>
ErrorFrame(g) ==
    /\ wcStream.conn = "open" /\ FreeGet(g)
    /\ wcGets' = Sent(g) /\ wcBusy' = TRUE
    /\ UNCHANGED <<wcLog, wcTimeline, wcUpTo, wcStream, wcTimer, wcPosts, wcTokens, wcSeen, wcPosted, wcExcused>>

\* Typing in the token field, signing in or out: the old stream is aborted, its timer
\* cleared, and a new one starts behind the last event.
ChangeToken ==
    /\ wcTokens < WcTokenBound /\ wcTokens' = wcTokens + 1
    /\ wcStream' = [conn |-> "connecting", cursor |-> wcStream.cursor, get |-> 0]
    /\ wcTimer' = FALSE
    /\ Excuse(wcTimer)
    /\ \/ UNCHANGED <<wcGets, wcBusy>>
       \/ \E g \in WcSlot : FreeGet(g) /\ wcGets' = Sent(g) /\ wcBusy' = TRUE   \* after a sign-in
    /\ UNCHANGED <<wcLog, wcTimeline, wcUpTo, wcPosts>>

-----------------------------------------------------------------------------
(* Controls                                                                *)

\* The buttons are those the snapshot offers; only Cancel heeds busy, so a second request
\* may go out before the first was answered.
offered(event) ==
    LET shown == SubSeq(wcLog, 1, wcUpTo)
        has(types) == \E i \in DOMAIN shown : shown[i] \in types
    IN  \/ event = "run.cancelled" /\ wcUpTo > 0 /\ ~wcBusy /\ ~terminalStatus(shown)
        \/ event = "approval.resolved" /\ has({"approval.requested"})
        \/ event = "node.started" /\ has({"run.failed", "run.yielded", "node.failed", "node.yielded"})
\* cancel, resolveApproval, and runAction with retryWithMode, after which a node starts again.
PressControl(p, event) ==
    /\ wcPosts[p] = "none" /\ (\A q \in WcPost : q < p => wcPosts[q] # "none") /\ offered(event)
    /\ wcPosts' = [wcPosts EXCEPT ![p] = event] /\ wcBusy' = TRUE
    /\ UNCHANGED <<wcLog, wcTimeline, wcUpTo, wcStream, wcTimer, wcGets, wcTokens, wcSeen, wcPosted, wcExcused>>
\* The server does as asked, or finds nothing to do.
handleControl(p) ==
    /\ wcPosts[p] \in {"run.cancelled", "approval.resolved", "node.started"}
    /\ \/ wcLog' = wcLog
       \/ Len(wcLog) < WcLogBound + 1 /\ ~runOver(wcLog) /\ wcLog' = Append(wcLog, wcPosts[p])
    /\ wcPosts' = [wcPosts EXCEPT ![p] = "accepted"]
    /\ wcPosted' = IF wcExcused THEN wcPosted ELSE Len(wcLog')
    /\ UNCHANGED <<wcTimeline, wcUpTo, wcStream, wcTimer, wcGets, wcBusy, wcTokens, wcSeen, wcExcused>>
\* mutate: an accepted request is followed by a snapshot.
ControlAnswered(p, g) ==
    /\ wcPosts[p] = "accepted" /\ FreeGet(g)
    /\ wcPosts' = [wcPosts EXCEPT ![p] = "none"] /\ wcGets' = Sent(g) /\ wcBusy' = TRUE
    /\ UNCHANGED <<wcLog, wcTimeline, wcUpTo, wcStream, wcTimer, wcTokens, wcSeen, wcPosted, wcExcused>>
ControlFails(p) ==
    /\ wcPosts[p] # "none"
    /\ wcPosts' = [wcPosts EXCEPT ![p] = "none"] /\ wcBusy' = FALSE /\ Excuse(TRUE)
    /\ UNCHANGED <<wcLog, wcTimeline, wcUpTo, wcStream, wcTimer, wcGets, wcTokens>>

WcNext ==
    \/ \E t \in WcType : Emit(t)
    \/ \E g \in WcSlot :
        \/ ServeSnapshot(g) \/ LandSnapshot(g) \/ LoseSnapshot(g) \/ PressRefresh(g) \/ TimerFires(g)
        \/ StreamFails(g) \/ ErrorFrame(g)
    \/ Connect \/ StreamEnds \/ StreamRetries \/ ChangeToken
    \/ \E e \in 1..Len(wcLog) : Frame(e)
    \/ \E p \in WcPost :
        \/ \E e \in {"run.cancelled", "approval.resolved", "node.started"} : PressControl(p, e)
        \/ handleControl(p) \/ ControlFails(p)
        \/ \E g \in WcSlot : ControlAnswered(p, g)

WcSpec == WcInit /\ [][WcNext]_wcVars

-----------------------------------------------------------------------------
(* Properties                                                              *)

\* An event is on the timeline once, however snapshots, streams and reconnections
\* bring it.
TimelineOnce == \A i, j \in DOMAIN wcTimeline : wcTimeline[i].n = wcTimeline[j].n => i = j

Settled ==
    /\ wcUpTo > 0 /\ ~wcExcused /\ ~wcTimer
    /\ \A p \in WcPost : wcPosts[p] = "none"
    /\ \A g \in WcSlot : wcGets[g] = NoGet

\* When nothing is in flight, the page shows every approval, model call and created
\* artifact, and the end of every node and of the run, that an event which reached it
\* told of: the types the page fetches a snapshot for are all that buildRunSnapshot makes
\* those from.  Excused are a request that failed, an older answer that came in last, and
\* a token that changed in between.  That a node runs, a capability's errors and policy
\* reports are no such parts: they wait for the next of these events.
SettledIsFresh == Settled => wcSeen <= wcUpTo

\* Nor is it older than any control request that was accepted, also when several were
\* on their way at once.
ControlIsShown == Settled => wcPosted <= wcUpTo

\* The console shows each event once and, when everything has settled, what
\* the server has.
ConsoleCatchesUp == TimelineOnce /\ SettledIsFresh /\ ControlIsShown
=============================================================================
