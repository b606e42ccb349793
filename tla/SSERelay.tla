------------------------------- MODULE SSERelay -------------------------------
(***************************************************************************)
(* internal/proxy/sse.go with its caller proxyStreaming (internal/handler/ *)
(* chat.go): the reader goroutine that scans the backend's stream, the     *)
(* relay loop that selects between its lines and a heartbeat ticker, the   *)
(* unbuffered channel between them, and the ways a streamed chat ends.     *)
(*                                                                         *)
(* A line is its position in the backend's stream; what matters of its     *)
(* text is its kind.  The backend, the client's connection and the ticker  *)
(* are modelled from how this code uses them.                              *)
(***************************************************************************)
EXTENDS Naturals, Sequences

CONSTANTS Kinds,         \* the kinds of line the backend may send
          EventLines,    \* how many content lines an event of the backend may have
          PartialLines,  \* whether a broken stream may end within a line
          MaxLines,      \* bound: the lines of a stream
          MaxBeats       \* bound: the ticks of the heartbeat ticker

ASSUME StreamAssumption ==
    /\ Kinds \subseteq {"data", "blank", "done", "long"}
    /\ EventLines \in Nat \ {0}
    /\ PartialLines \in BOOLEAN
    /\ MaxLines \in Nat /\ MaxBeats \in Nat

\* What a heartbeat leaves in the client's stream: a comment and a blank line.
Beat == 0

VARIABLES stream,   \* the kinds of the lines that have reached the gateway
          ending,   \* the backend's stream: "open", "closed" or "cut" by an error
          reader,   \* the reader goroutine: "none", "scan", "send" or "exit"
          scanned,  \* the lines it has scanned; in "send" it offers the last one
          handler,  \* "connect", "copy", "select", "write", "returned" or "finished"
          status,   \* what the client was answered: "none", "ok", "copied", "502"
          line,     \* the line the relay received last
          out,      \* the client's stream: lines, and beats among them
          pending,  \* the tick in the ticker's channel, of capacity one
          beats,    \* the ticks so far
          gone      \* the client's connection is broken

vars == <<stream, ending, reader, scanned, handler, status, line, out, pending, beats, gone>>

backend == <<stream, ending>>
ticker == <<pending, beats>>

Init ==
    /\ stream = <<>> /\ ending = "open"
    /\ reader = "none" /\ scanned = 0
    /\ handler = "connect" /\ status = "none"
    /\ line = 0 /\ out = <<>>
    /\ pending = FALSE /\ beats = 0
    /\ gone = FALSE

-------------------------------------------------------------------------------
(* The handler before and after the relay: proxyStreaming.                    *)

\* doBackendRequest fails: the client is answered 502.
Refused ==
    /\ handler = "connect"
    /\ handler' = "finished" /\ status' = "502"
    /\ UNCHANGED <<backend, reader, scanned, line, out, ticker, gone>>

\* A status other than 200 is copied.
Rejected ==
    /\ handler = "connect"
    /\ handler' = "copy" /\ status' = "copied"
    /\ UNCHANGED <<backend, reader, scanned, line, out, ticker, gone>>

\* And the body with it: the copy ends with the body, with the backend's connection
\* or the client's timeout, or with a write that fails, and no error is looked at.
CopyRejection ==
    /\ handler = "copy"
    /\ handler' = "finished"
    /\ UNCHANGED <<backend, reader, scanned, status, line, out, ticker, gone>>

\* Status 200: the relay starts, and with it the reader goroutine.
Accepted ==
    /\ handler = "connect"
    /\ handler' = "select" /\ status' = "ok"
    /\ reader' = "scan"
    /\ UNCHANGED <<backend, scanned, line, out, ticker, gone>>

\* The relay has returned and closed `done`; the deferred Body.Close is next.
CloseBody ==
    /\ handler = "returned"
    /\ handler' = "finished"
    /\ UNCHANGED <<backend, reader, scanned, status, line, out, ticker, gone>>

-------------------------------------------------------------------------------
(* The reader goroutine.                                                      *)

\* Mutant: the end of the stream is noticed one line late.
Scan_Late ==
    /\ reader = "scan"
    /\ scanned <= Len(stream)
    /\ scanned = Len(stream) \/ stream[scanned + 1] # "long"
    /\ scanned' = scanned + 1 /\ reader' = "send"
    /\ UNCHANGED <<backend, handler, status, line, out, ticker, gone>>

\* scanner.Scan finds a line that fits its buffer.
Scan ==
    /\ reader = "scan"
    /\ scanned < Len(stream) /\ stream[scanned + 1] # "long"
    /\ scanned' = scanned + 1 /\ reader' = "send"
    /\ UNCHANGED <<backend, handler, status, line, out, ticker, gone>>

\* Mutant: once the stream has ended, what is still buffered is not scanned.
ScanEnds_Undrained ==
    /\ reader = "scan"
    /\ \/ scanned < Len(stream) /\ stream[scanned + 1] = "long"
       \/ ending # "open" \/ handler = "finished"
    /\ reader' = "exit"
    /\ UNCHANGED <<backend, scanned, handler, status, line, out, ticker, gone>>

\* scanner.Scan ends: at a line longer than its buffer, at the end of the
\* stream, at a read error or once the body is closed.  All only close `lines`.
ScanEnds ==
    /\ reader = "scan"
    /\ \/ scanned < Len(stream) /\ stream[scanned + 1] = "long"
       \/ scanned = Len(stream) /\ (ending # "open" \/ handler = "finished")
    /\ reader' = "exit"
    /\ UNCHANGED <<backend, scanned, handler, status, line, out, ticker, gone>>

\* Mutant: the send does not wait for the relay, a line it is not ready for is lost.
ReaderDone_Default ==
    /\ reader = "send"
    /\ reader' = IF handler \in {"returned", "finished"} THEN "exit" ELSE "scan"
    /\ UNCHANGED <<backend, scanned, handler, status, line, out, ticker, gone>>

\* Mutant: the send has no `done` case.
ReaderDone_Never == FALSE

\* `done` is closed and nobody receives the line on offer.
ReaderDone ==
    /\ reader = "send" /\ handler \in {"returned", "finished"}
    /\ reader' = "exit"
    /\ UNCHANGED <<backend, scanned, handler, status, line, out, ticker, gone>>

-------------------------------------------------------------------------------
(* The relay loop.                                                            *)

\* lines <- scanner.Text() meets line := <-lines.
Receive ==
    /\ handler = "select" /\ reader = "send"
    /\ handler' = "write" /\ line' = scanned
    /\ reader' = "scan"
    /\ UNCHANGED <<backend, scanned, status, out, ticker, gone>>

\* Mutant: every data line is taken for the terminator.
isDone_Prefix(n) == stream[n] \in {"data", "done"}

isDone(n) == stream[n] = "done"

\* Mutant: a blank line is not worth a write.
WriteLine_SkipBlank ==
    /\ handler = "write"
    /\ out' = IF gone \/ stream[line] = "blank" THEN out ELSE Append(out, line)
    /\ handler' = IF isDone(line) THEN "returned" ELSE "select"
    /\ UNCHANGED <<backend, reader, scanned, status, line, ticker, gone>>

\* The line goes to the client, a write error is ignored; the relay returns
\* after the terminator, with the blank line that ends its event still unread.
WriteLine ==
    /\ handler = "write"
    /\ out' = IF gone THEN out ELSE Append(out, line)
    /\ handler' = IF isDone(line) THEN "returned" ELSE "select"
    /\ UNCHANGED <<backend, reader, scanned, status, line, ticker, gone>>

\* `lines` is closed.
LinesClosed ==
    /\ handler = "select" /\ reader = "exit"
    /\ handler' = "returned"
    /\ UNCHANGED <<backend, reader, scanned, status, line, out, ticker, gone>>

\* A tick is waiting: the heartbeat goes out between two lines, whichever they are.
WriteBeat ==
    /\ handler = "select" /\ pending
    /\ pending' = FALSE
    /\ out' = IF gone THEN out ELSE Append(out, Beat)
    /\ UNCHANGED <<backend, reader, scanned, handler, status, line, beats, gone>>

-------------------------------------------------------------------------------
(* The surroundings.                                                          *)

\* The event the backend is in the middle of may have one more content line.
MayContinue ==
    Len(stream) >= EventLines =>
        \E i \in DOMAIN stream : i > Len(stream) - EventLines /\ stream[i] = "blank"

\* The backend's next line arrives.
Arrive(kind) ==
    /\ status = "ok" /\ ending = "open" /\ handler # "finished"
    /\ Len(stream) < MaxLines
    /\ kind # "blank" => MayContinue
    /\ stream' = Append(stream, kind)
    /\ UNCHANGED <<ending, reader, scanned, handler, status, line, out, ticker, gone>>

\* The backend closes its stream.
BackendCloses ==
    /\ status = "ok" /\ ending = "open"
    /\ ending' = "closed"
    /\ UNCHANGED <<stream, reader, scanned, handler, status, line, out, ticker, gone>>

\* Mutant: a client without a timeout, and a connection that never breaks.
Cut_Never(within) == FALSE

\* The connection breaks, or the client's timeout ends the reading of the body:
\* the scanner still hands out the part of a line it has got, as a line.
Cut(within) ==
    /\ status = "ok" /\ ending = "open" /\ handler # "finished"
    /\ ending' = "cut"
    /\ IF within = "line"
       THEN /\ PartialLines /\ Len(stream) < MaxLines /\ MayContinue
            /\ stream' = Append(stream, "part")
       ELSE UNCHANGED stream
    /\ UNCHANGED <<reader, scanned, handler, status, line, out, ticker, gone>>

\* heartbeat.C ticks; a tick that finds the last one waiting is dropped.
TickerTicks ==
    /\ handler \in {"select", "write"} /\ ~pending /\ beats < MaxBeats
    /\ pending' = TRUE /\ beats' = beats + 1
    /\ UNCHANGED <<backend, reader, scanned, handler, status, line, out, gone>>

\* The client goes away; the backend request has no context that would tell it.
ClientLeaves ==
    /\ ~gone /\ handler # "finished"
    /\ gone' = TRUE
    /\ UNCHANGED <<backend, reader, scanned, handler, status, line, out, ticker>>

Reader == Scan \/ ScanEnds \/ ReaderDone

Relay == Refused \/ Rejected \/ Accepted \/ Receive \/ LinesClosed \/ CloseBody

\* What writes to the client, and waits for it.
Deliver == WriteLine \/ WriteBeat \/ CopyRejection

Next ==
    \/ Reader
    \/ Relay
    \/ Deliver
    \/ \E kind \in Kinds : Arrive(kind)
    \/ BackendCloses
    \/ \E within \in {"line", "stream"} : Cut(within)
    \/ TickerTicks
    \/ ClientLeaves

Spec == Init /\ [][Next]_vars

\* Both goroutines run, and the client's 120s timeout ends a stream that does not
\* end by itself.  The ticker and the two peers owe nothing.
FairSpec == Spec /\ WF_vars(Reader) /\ WF_vars(Relay) /\ WF_vars(Cut("stream"))

\* No write waits for ever: the client goes on reading, or its connection breaks.  The
\* server sets no WriteTimeout, so this is an assumption of one property only.
ReadingClient == WF_vars(Deliver)
-------------------------------------------------------------------------------
TypeOK ==
    /\ stream \in Seq({"data", "blank", "done", "long", "part"})
    /\ ending \in {"open", "closed", "cut"}
    /\ reader \in {"none", "scan", "send", "exit"}
    /\ scanned \in 0..Len(stream)
    /\ handler \in {"connect", "copy", "select", "write", "returned", "finished"}
    /\ status \in {"none", "ok", "copied", "502"}
    /\ line \in 0..Len(stream)
    /\ out \in Seq(Nat)
    /\ pending \in BOOLEAN /\ beats \in 0..MaxBeats
    /\ gone \in BOOLEAN

\* Heartbeats apart, the client has the backend's lines from the first one on,
\* each once and in order, whatever the two goroutines' interleaving.
LinesInOrder ==
    \A i \in DOMAIN out :
        /\ \A j \in 1..(i - 1) : out[i] # Beat => out[j] < out[i]
        /\ \A n \in 1..(out[i] - 1) : \E j \in 1..(i - 1) : out[j] = n

\* A line that no terminator and no line beyond the scanner's buffer precedes.
Relayable(n) ==
    /\ stream[n] # "long"
    /\ \A m \in 1..(n - 1) : stream[m] \notin {"done", "long"}

\* The relay does not return while the backend's stream lasts, unless at a
\* terminator or an oversized line, and a client that stayed has every line
\* up to there.
NothingLost ==
    status = "ok" /\ handler \in {"returned", "finished"} =>
        /\ ending = "open" => \E n \in DOMAIN stream : stream[n] \in {"done", "long"}
        /\ ~gone => \A n \in DOMAIN stream : Relayable(n) => \E i \in DOMAIN out : out[i] = n

\* The lines the relay is done with.
Relayed == IF handler = "write" THEN line - 1 ELSE line

\* How far a handler has come with status, as LineFeed sees it.
feedMapping ==
    IF status = "none" THEN "before"
    ELSE IF handler \in {"select", "write"} THEN "on"
    ELSE "over"

Feed == INSTANCE LineFeed WITH feed <- feedMapping, fed <- Relayed

\* The relay keeps the promise of LineFeed: goroutines, channel and ticker do not show,
\* and it ends at the terminator, at an oversized line or at the end, nowhere else.
FeedSpec == Feed!Spec

\* Every streamed chat ends, even when its client has left and its backend hangs,
\* unless its client stays without reading.
HandlerReturns == ReadingClient => (handler # "finished" ~> handler = "finished")

\* The reader goroutine does not outlive the handler for good, though the relay
\* may return while the reader holds a line or waits for one.
ReaderExits == handler = "finished" ~> reader \in {"none", "exit"}
===============================================================================
