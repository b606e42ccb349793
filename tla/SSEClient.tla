------------------------------- MODULE SSEClient -------------------------------
(***************************************************************************)
(* The relay as an SSE client sees it: a blank line dispatches the event   *)
(* collected since the last one, if it has a content line; comments do not *)
(* count; what the stream's end leaves collected is discarded.  Both ends  *)
(* of the gateway are read this way, the backend's stream and the client's.*)
(***************************************************************************)
EXTENDS SSERelay

\* The events of a text with blank lines at these positions: the lines from an event's
\* first one to its last, which is followed by a blank one.
Events(text, blanks) ==
    { SubSeq(text, e[1], e[2]) : e \in
        { p \in (DOMAIN text) \X (DOMAIN text) :
            /\ p[1] <= p[2] /\ p[2] + 1 \in blanks
            /\ p[1] = 1 \/ p[1] - 1 \in blanks
            /\ \A i \in p[1]..p[2] : i \notin blanks } }

\* The backend's text is its lines; a heartbeat is a comment and a blank line.
Lines == [n \in DOMAIN stream |-> n]

Blanks == {n \in DOMAIN stream : stream[n] = "blank"}

ClientBlanks == {i \in DOMAIN out : out[i] = Beat \/ stream[out[i]] = "blank"}

\* The events the client has dispatched, each as the positions of its lines.
ClientEvents == Events(out, ClientBlanks)

\* The backend's events, complete ones only.
CompleteEvents == Events(Lines, Blanks)

\* The backend's events, with the one it is in the middle of.
BackendEvents ==
    {e \in Events(Lines, Blanks \cup {Len(stream) + 1}) :
        \A i \in DOMAIN e : stream[e[i]] # "part"}

\* Whatever the heartbeats do to the backend's events, they never join two: every
\* event the client dispatches is made of successive lines of one event.
EventsNeverMerged ==
    \A e \in ClientEvents :
        \A i \in 1..(Len(e) - 1) : e[i + 1] = e[i] + 1

\* The client never dispatches an event that the backend did not send: none is
\* split by a heartbeat, none is put together of two, none is half a line.
EventsUnbroken == ClientEvents \subseteq BackendEvents

\* "Writes each event to the client": once a stream the backend has ended is
\* relayed, a client that stayed has dispatched all its events.
AllEventsRelayed ==
    status = "ok" /\ handler = "finished" /\ ending = "closed" /\ ~gone =>
        ClientEvents = CompleteEvents

\* The complete events before the terminator and before an oversized line.
DueEvents == {e \in CompleteEvents : Relayable(e[Len(e)] + 1)}

\* A client that stayed has dispatched every event that was due when the relay ends.
EventsDelivered ==
    status = "ok" /\ handler \in {"returned", "finished"} /\ ~gone =>
        DueEvents \subseteq ClientEvents

BeatFree == \A i \in DOMAIN out : out[i] # Beat

\* A client whose stream had no heartbeat dispatches the backend's events, none else
\* and all that are due: a heartbeat is the only thing that can split one.
BeatsAloneSplit == BeatFree => EventsUnbroken /\ EventsDelivered
================================================================================
