----------------------------- MODULE EventStream -----------------------------
(***************************************************************************)
(* Delivery of run events: appendRunEvent and listRunEvents of             *)
(* storage/sqlite-state-store.ts, the in-process broadcast of              *)
(* runs/run-event-store.ts, the server-sent-event route                    *)
(* apps/web/app/api/runs/[runId]/events/stream/route.ts, and the client    *)
(* that follows it, streamRunEvents of platform-client/src/client.ts under *)
(* the `run watch --follow` command of apps/cli/src/index.ts.              *)
(*                                                                         *)
(* Events of one run are numbered in the order of (timestamp, event_id),   *)
(* by which the store breaks ties.  Each is written by one process: the    *)
(* API process, which also serves the stream and broadcasts what it        *)
(* writes, or another one (a worker, a command), whose broadcasts reach    *)
(* nobody.  Within a process the two SQL statements of an append are       *)
(* synchronous; another process may run in between.  A replay is read in   *)
(* one step and sent in a later one, as route.ts awaits the store.         *)
(*                                                                         *)
(* Left out: payloads, redaction, heartbeats and the retry delay.          *)
(***************************************************************************)
EXTENDS Naturals, Sequences, FiniteSetsExt, SequencesExt

CONSTANTS
  EventCount,    \* the events of the run
  Origins,       \* the ways the events may be spread over writing processes
  ReplayLimit,   \* replayLimit
  FallbackAfter, \* failed attempts before getRunEvents is used
  MaxBreaks,     \* bound on broken connections and failed attempts
  MaxRepeats     \* bound on appends of an event that is already stored

Event == 1 .. EventCount

ASSUME ConstantsAssumption ==
  /\ EventCount \in Nat \ {0}
  /\ \A origin \in Origins : DOMAIN origin = Event
  /\ {ReplayLimit, FallbackAfter, MaxBreaks, MaxRepeats} \subseteq Nat

Nobody == 0       \* no cursor
ErrorFrame == 0   \* a run.error frame in the channel

VARIABLES
  origin,   \* the process that writes each event
  seq,      \* run_events.sequence, 0 for an event that is not stored
  chosen,   \* the sequence an append computed before it inserts
  server,   \* the stream of the current connection
  channel,  \* frames on their way to the client
  client,   \* the watching client
  breaks,
  repeats

vars == <<origin, seq, chosen, server, channel, client, breaks, repeats>>
store == <<origin, seq, chosen>>

Server == [state : {"closed", "opening", "live"}, cursor : Event \cup {Nobody},
           reading : BOOLEAN, list : Seq(Event)]
Client == [state : {"apart", "connected", "ended"}, cursor : Event \cup {Nobody},
           seen : SUBSET Event, shown : SUBSET Event,
           last : Event \cup {Nobody}, attempt : Nat]

TypeOK ==
  /\ origin \in Origins
  /\ seq \in [Event -> 0 .. EventCount]
  /\ chosen \in [Event -> 0 .. EventCount]
  /\ server \in Server
  /\ channel \in Seq(Event \cup {ErrorFrame})
  /\ client \in Client
  /\ breaks \in 0 .. MaxBreaks
  /\ repeats \in 0 .. MaxRepeats

Closed == [state |-> "closed", cursor |-> Nobody, reading |-> FALSE, list |-> <<>>]

Init ==
  /\ origin \in Origins
  /\ seq = [e \in Event |-> 0]
  /\ chosen = [e \in Event |-> 0]
  /\ server = Closed
  /\ channel = <<>>
  /\ client = [state |-> "apart", cursor |-> Nobody, seen |-> {}, shown |-> {},
               last |-> Nobody, attempt |-> 0]
  /\ breaks = 0
  /\ repeats = 0

-----------------------------------------------------------------------------
(***************************************************************************)
(* The store.                                                              *)
(***************************************************************************)
Stored == {e \in Event : seq[e] # 0}

\* order by sequence, timestamp, event_id
Before(e, f) == seq[e] < seq[f] \/ (seq[e] = seq[f] /\ e < f)

\* A set of events as the list in that order.
inOrder(S) ==
  [i \in 1 .. Cardinality(S) |-> CHOOSE e \in S : Cardinality({f \in S : Before(f, e)}) = i - 1]

\* What is stored after a cursor: an unknown cursor replays everything.
StoredAfter(cursor) == {e \in Stored : cursor \in Stored => Before(cursor, e)}

\* Mutant: the events from the cursor's successor's successor on.
eventsAfterSkipping(cursor) ==
  LET after == inOrder(StoredAfter(cursor))
  IN  IF cursor \notin Stored \/ after = <<>> THEN after ELSE Tail(after)

eventsAfter(cursor) == inOrder(StoredAfter(cursor))

\* limitEnvelopes
limitEnvelopes(s, limit) == SubSeq(s, 1, Min({Len(s), limit}))

InAppend(p) == \E e \in Event : origin[e] = p /\ chosen[e] # 0 /\ seq[e] = 0

\* A process runs one append at a time; the API process does nothing else
\* meanwhile.
ApiFree == ~InAppend("api")

\* select coalesce(max(sequence), 0) + 1
nextSequence == Max({seq[e] : e \in Event}) + 1

chooseSequence(e) ==
  /\ seq[e] = 0 /\ chosen[e] = 0
  /\ ~InAppend(origin[e])
  /\ chosen' = [chosen EXCEPT ![e] = nextSequence]
  /\ UNCHANGED <<origin, seq, server, channel, client, breaks, repeats>>

\* publishRunEventEnvelope, to the route's subscriber of the API process.
publish(e) ==
  IF origin[e] = "api" /\ server.state = "live" /\ server.cursor # e
  THEN /\ server' = [server EXCEPT !.cursor = e]
       /\ channel' = Append(channel, e)
  ELSE UNCHANGED <<server, channel>>

\* The insert, and the broadcast that follows it.
insertEvent(e) ==
  /\ chosen[e] # 0 /\ seq[e] = 0
  /\ seq' = [seq EXCEPT ![e] = chosen[e]]
  /\ publish(e)
  /\ UNCHANGED <<origin, chosen, client, breaks, repeats>>

\* An append of a stored event keeps its sequence and broadcasts it again.
appendAgain(e) ==
  /\ repeats < MaxRepeats /\ ApiFree
  /\ e \in Stored /\ origin[e] = "api"
  /\ publish(e)
  /\ repeats' = repeats + 1
  /\ UNCHANGED <<store, client, breaks>>

-----------------------------------------------------------------------------
(***************************************************************************)
(* The route.                                                              *)
(***************************************************************************)
\* GET .../events/stream?after=<cursor>
openStream ==
  /\ ApiFree
  /\ client.state = "apart"
  /\ server' = [Closed EXCEPT !.state = "opening", !.cursor = client.cursor]
  /\ client' = [client EXCEPT !.state = "connected", !.attempt = 0]
  /\ UNCHANGED <<store, channel, breaks, repeats>>

\* The read of sendReplay: once on opening, then on every poll.  A poll is
\* modelled when the channel is empty and there is something to replay.
readReplay ==
  /\ ApiFree
  /\ server.state # "closed" /\ ~server.reading
  /\ server.state = "live" => channel = <<>> /\ eventsAfter(server.cursor) # <<>>
  /\ server' = [server EXCEPT !.reading = TRUE,
                              !.list = limitEnvelopes(eventsAfter(server.cursor), ReplayLimit + 1)]
  /\ UNCHANGED <<store, channel, client, breaks, repeats>>

\* The rest of sendReplay; the opening replay is followed by the
\* subscription to the broadcast.
sendReplay ==
  LET tooMany == Len(server.list) > ReplayLimit
      sent == IF tooMany THEN <<>> ELSE server.list
  IN
  /\ ApiFree
  /\ server.reading
  /\ channel' = channel \o (IF tooMany THEN <<ErrorFrame>> ELSE sent)
  /\ server' = [state |-> "live", reading |-> FALSE, list |-> <<>>,
                cursor |-> IF sent = <<>> THEN server.cursor ELSE Last(sent)]
  /\ UNCHANGED <<store, client, breaks, repeats>>

-----------------------------------------------------------------------------
(***************************************************************************)
(* The client.                                                             *)
(***************************************************************************)
\* print of `run watch`, which suppresses what it has shown.
print(c, e) ==
  IF e \in c.shown THEN c ELSE [c EXCEPT !.shown = @ \cup {e}, !.last = e]

\* Mutant: the cursor is advanced to the end of what is on its way.
receiveAhead ==
  LET e == Head(channel)
  IN
  /\ channel # <<>>
  /\ channel' = Tail(channel)
  /\ client' = IF e = ErrorFrame \/ e \in client.seen THEN client
               ELSE print([client EXCEPT !.seen = @ \cup {e}, !.cursor = Last(channel)], e)
  /\ UNCHANGED <<store, server, breaks, repeats>>

\* One frame.  A run.error frame is reported and otherwise ignored.
receive ==
  LET e == Head(channel)
  IN
  /\ channel # <<>>
  /\ channel' = Tail(channel)
  /\ client' = IF e = ErrorFrame \/ e \in client.seen THEN client
               ELSE print([client EXCEPT !.seen = @ \cup {e}, !.cursor = e], e)
  /\ UNCHANGED <<store, server, breaks, repeats>>

\* getRunEvents and the loop of onReconnect, which prints one event after another.
fallback(c) ==
  LET new == inOrder(StoredAfter(c.last) \ c.shown)
  IN  [c EXCEPT !.shown = @ \cup Range(new), !.last = IF new = <<>> THEN @ ELSE Last(new)]

\* The client counts a failed attempt.  From the third one on it replays
\* through getRunEvents; if that fails too, the watch ends with its error.
afterFailure(c) ==
  IF c.attempt < FallbackAfter THEN {c}
  ELSE {fallback(c), [c EXCEPT !.state = "ended"]}

\* The connection breaks: frames on their way are lost.  The client sees
\* the end of the body, or a read error.
breakConnection ==
  LET gone == [client EXCEPT !.state = "apart"]
  IN
  /\ breaks < MaxBreaks
  /\ client.state = "connected"
  /\ channel' = <<>>
  /\ server' = Closed
  /\ client' \in {gone} \cup afterFailure([gone EXCEPT !.attempt = @ + 1])
  /\ breaks' = breaks + 1
  /\ UNCHANGED <<store, repeats>>

connectFails ==
  /\ breaks < MaxBreaks
  /\ client.state = "apart"
  /\ client' \in afterFailure([client EXCEPT !.attempt = @ + 1])
  /\ breaks' = breaks + 1
  /\ UNCHANGED <<store, server, channel, repeats>>

AppendStep(e) == chooseSequence(e) \/ insertEvent(e)
StreamStep == openStream \/ readReplay \/ sendReplay \/ receive

Next ==
  \/ \E e \in Event : AppendStep(e) \/ appendAgain(e)
  \/ StreamStep \/ breakConnection \/ connectFails

Spec == Init /\ [][Next]_vars

(***************************************************************************)
(* An append runs to its end; the route polls on a timer, the network      *)
(* delivers while it is up, and the client reconnects in a loop.           *)
(***************************************************************************)
FairSpec ==
  /\ Spec
  /\ \A e \in Event : WF_vars(insertEvent(e))
  /\ WF_vars(openStream) /\ WF_vars(readReplay) /\ WF_vars(sendReplay) /\ WF_vars(receive)

-----------------------------------------------------------------------------
(***************************************************************************)
(* Properties.                                                             *)
(***************************************************************************)
InFlight == Range(channel) \cup Range(server.list)

\* One process, not the one that serves the stream, writes all events.
OneWriter == \E p \in {"worker", "cli"} : \A e \in Event : origin[e] = p

\* run-event-streaming.md: "persisted replay is the recovery contract".  A
\* stored event that sorts before the cursor the client reconnects with has
\* been shown to it or is still coming on this connection: otherwise no
\* later replay delivers it.
RecoveryContract ==
  client.state # "ended" /\ client.cursor # Nobody =>
    \A e \in Stored : Before(e, client.cursor) => e \in client.shown \cup InFlight

\* The recovery contract holds while one worker process writes the run,
\* across broken connections, fallback reads and replays over the limit.
RecoveryWithOneWriter == OneWriter => RecoveryContract

\* run-event-streaming.md: "The projection store persists events before
\* broadcasting."  Nothing is shown or on its way, and no cursor names an
\* event, before the event can be replayed.
ShownArePersisted ==
  client.shown \cup (Range(channel) \ {ErrorFrame}) \cup Range(server.list)
    \cup ({client.cursor, server.cursor} \ {Nobody}) \subseteq Stored

\* With one writing process the store numbers the events of a run uniquely,
\* so that a cursor has one place in the replay order.
SequencesUnique == OneWriter => \A e, f \in Stored : e # f => seq[e] # seq[f]

\* An event once replayed in some order keeps its place: no append changes
\* the relative order of events already stored.
OrderStable == [][\A e, f \in Stored : Before(e, f) <=> Before(e, f)']_vars

\* Every event that one worker stores is shown in the end to a client that
\* keeps watching, unless a replay is over the limit.
EventShown ==
  \A e \in Event :
    OneWriter /\ seq[e] # 0 ~>
      \/ e \in client.shown \/ client.state = "ended"
      \/ Len(eventsAfter(server.cursor)) > ReplayLimit

\* What a watcher has seen and the cursor it would come back with are always
\* covered by the stored events, across reconnects and fallback reads.
StreamSound == TypeOK /\ RecoveryWithOneWriter /\ ShownArePersisted /\ SequencesUnique

\* Stored events keep their order, and a watcher that stays is shown them.
EventsArrive == OrderStable /\ EventShown
=============================================================================
