-------------------------------- MODULE LineFeed --------------------------------
(***************************************************************************)
(* What the relay of a stream promises, with neither goroutines, channel   *)
(* nor ticker: the client is fed the backend's lines one by one from the   *)
(* first one on, with heartbeats among them, up to the terminator, to a    *)
(* line too long to be read, or to the stream's end, and to no other point.*)
(***************************************************************************)
EXTENDS Naturals, Sequences

CONSTANT Beat   \* what a heartbeat leaves in the client's stream

VARIABLES stream,  \* the kinds of the backend's lines so far
          ending,  \* the backend's stream: "open", "closed" or "cut"
          feed,    \* "before", "on" or "over"
          fed,     \* the lines the client has been fed, if it stayed
          out,     \* what the client has: lines, and beats among them
          gone     \* the client has left

vars == <<stream, ending, feed, fed, out, gone>>

Init ==
    /\ stream = <<>> /\ ending = "open"
    /\ feed = "before" /\ fed = 0
    /\ out = <<>> /\ gone = FALSE

\* The backend's next line, or the piece of a line at which its stream is cut.
Grow ==
    /\ ending = "open" /\ feed # "before"
    /\ \E kind \in {"data", "blank", "done", "long", "part"} :
          /\ stream' = Append(stream, kind)
          /\ ending' = IF kind = "part" THEN "cut" ELSE "open"
    /\ UNCHANGED <<feed, fed, out, gone>>

\* The backend's stream ends between two lines.
Stop ==
    /\ ending = "open" /\ feed # "before"
    /\ ending' \in {"closed", "cut"}
    /\ UNCHANGED <<stream, feed, fed, out, gone>>

\* The backend has answered: with a stream, or with something else.
Open ==
    /\ feed = "before"
    /\ feed' \in {"on", "over"}
    /\ UNCHANGED <<stream, ending, fed, out, gone>>

ToClient(text) == out' = IF gone THEN out ELSE Append(out, text)

\* The next line; with the terminator the feed is over.
Feed ==
    /\ feed = "on"
    /\ fed < Len(stream) /\ stream[fed + 1] # "long"
    /\ fed' = fed + 1
    /\ ToClient(fed + 1)
    /\ feed' = IF stream[fed + 1] = "done" THEN "over" ELSE "on"
    /\ UNCHANGED <<stream, ending, gone>>

Heartbeat ==
    /\ feed = "on"
    /\ ToClient(Beat)
    /\ UNCHANGED <<stream, ending, feed, fed, gone>>

\* There is no more that could be read.
Finish ==
    /\ feed = "on"
    /\ IF fed = Len(stream) THEN ending # "open" ELSE stream[fed + 1] = "long"
    /\ feed' = "over"
    /\ UNCHANGED <<stream, ending, fed, out, gone>>

Leave ==
    /\ ~gone
    /\ gone' = TRUE
    /\ UNCHANGED <<stream, ending, feed, fed, out>>

Next == Grow \/ Stop \/ Open \/ Feed \/ Heartbeat \/ Finish \/ Leave

Spec == Init /\ [][Next]_vars
=================================================================================
