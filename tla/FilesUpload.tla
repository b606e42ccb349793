------------------------------ MODULE FilesUpload ------------------------------
(***************************************************************************)
(* internal/handler/files.go: POST /v1/files.  The handler validates the   *)
(* head of a multipart body, then a pump goroutine re-encodes the parts    *)
(* into a pipe that the HTTP transport drains towards the agent, while the *)
(* handler waits for the transport's result under a deadline.              *)
(*                                                                         *)
(* A body is a sequence of items, each as large as the next: the head of a *)
(* form field ("field"), of a file of an allowed type ("file") or of a     *)
(* forbidden one ("bad"), or a piece of a part's content ("chunk").  The   *)
(* transport, the agent and the client are modelled from how the code uses *)
(* them; of net/http's request body, that Close waits for a pending Read,  *)
(* may itself wait for more of the body, and stops what comes after it.    *)
(***************************************************************************)
EXTENDS Naturals, Sequences

CONSTANTS Requests,   \* the requests: [form, declared, parts]
          MaxBytes,   \* the cap, in items; 0 for none
          Eager       \* whether the agent may accept before the body's end

Forms == {"multipart", "no_boundary", "other"}

Items == {"field", "file", "bad", "chunk"}

Answers == {"none", "400", "413", "415", "502", "504", "accepted", "refused"}

ASSUME RequestAssumption ==
    /\ \A q \in Requests : /\ q.form \in Forms
                           /\ q.declared \in BOOLEAN
                           /\ q.parts \in Seq(Items)
    /\ MaxBytes \in Nat
    /\ Eager \in BOOLEAN

VARIABLES request,     \* what the client means to send; declared: with a length
          sent,        \* the items the client has sent
          broken,      \* the client's connection, or the syntax of its body, is broken
          handler,     \* "check", "prefix", "roundtrip", "answered" or "finished"
          answer,      \* the response the handler has written
          taken,       \* the items read from the inbound body
          pump,        \* "none", "copy", "finish", "close", "abort", "fail" or "exit"
          fault,       \* streamRest's error: "none", "413", "415" or "other"
          pipeClosed,  \* the transport has closed the reading end of the pipe
          forwarded,   \* the items the agent has received
          boundary,    \* the agent has received the closing boundary
          bodyEnd,     \* the body towards the agent: "open" or "eof"
          agent,       \* the agent's answer: "none", "accepted" or "refused"
          expired      \* the deadline of the upstream request has passed

client == <<request, sent, broken>>
upstream == <<forwarded, boundary, bodyEnd, agent>>
pumping == <<taken, pump, fault>>

vars == <<client, handler, answer, pumping, pipeClosed, upstream, expired>>

Init ==
    /\ request \in Requests
    /\ sent = 0 /\ broken = FALSE
    /\ handler = "check" /\ answer = "none"
    /\ taken = 0 /\ pump = "none" /\ fault = "none" /\ pipeClosed = FALSE
    /\ forwarded = 0 /\ boundary = FALSE /\ bodyEnd = "open" /\ agent = "none"
    /\ expired = FALSE

parts == request.parts

-------------------------------------------------------------------------------
(* The handler.                                                               *)

\* http.Error: the response stays in the server's buffer until the handler returns.
Respond(status) ==
    /\ handler' = "answered" /\ answer' = status
    /\ UNCHANGED <<client, pumping, pipeClosed, upstream, expired>>

OverCap == MaxBytes > 0 /\ Len(parts) > MaxBytes

\* The checks of the request's headers: no byte of the body has been read.
CheckHeaders ==
    /\ handler = "check"
    /\ \/ request.form = "other" /\ Respond("415")
       \/ request.form = "no_boundary" /\ Respond("400")
       \/ request.form = "multipart" /\ request.declared /\ OverCap /\ Respond("413")
       \/ /\ request.form = "multipart" /\ ~(request.declared /\ OverCap)
          /\ handler' = "prefix"
          /\ UNCHANGED <<client, answer, pumping, pipeClosed, upstream, expired>>

\* The next item has arrived and the MaxBytesReader lets it through.
Readable == taken < sent /\ ~(MaxBytes > 0 /\ taken = MaxBytes)

\* The next item has arrived, beyond the cap: the read ends in a MaxBytesError.
TooLarge == taken < sent /\ MaxBytes > 0 /\ taken = MaxBytes

\* collectPrefix: a form field, its head or its content, is buffered.
BufferField ==
    /\ handler = "prefix" /\ Readable /\ parts[taken + 1] \in {"field", "chunk"}
    /\ taken' = taken + 1
    /\ UNCHANGED <<client, handler, answer, pump, fault, pipeClosed, upstream, expired>>

\* Mutant: the first file is not looked at.
AcceptFile_Any ==
    /\ handler = "prefix" /\ Readable /\ parts[taken + 1] \in {"file", "bad"}
    /\ taken' = taken + 1
    /\ handler' = "roundtrip" /\ pump' = "copy"
    /\ UNCHANGED <<client, answer, fault, pipeClosed, upstream, expired>>

\* The head of the first file: its type is allowed, the upstream request and the
\* pump start, and with them the deadline.
AcceptFile ==
    /\ handler = "prefix" /\ Readable /\ parts[taken + 1] = "file"
    /\ taken' = taken + 1
    /\ handler' = "roundtrip" /\ pump' = "copy"
    /\ UNCHANGED <<client, answer, fault, pipeClosed, upstream, expired>>

\* collectPrefix fails: nothing has been sent to the agent, and nothing will be.
RejectPrefix ==
    /\ handler = "prefix"
    /\ \/ Readable /\ parts[taken + 1] = "bad" /\ Respond("415")
       \/ TooLarge /\ Respond("413")
       \/ taken = Len(parts) /\ Respond("400")
       \/ taken = sent /\ broken /\ Respond("400")

\* Do returns the agent's response, and the handler copies it.
RelayAnswer ==
    /\ handler = "roundtrip" /\ agent # "none"
    /\ Respond(agent)

\* Mutant: every error of the pump is taken for an overflow.
PumpError_TooLarge ==
    /\ handler = "roundtrip" /\ pump = "fail"
    /\ Respond("413")

\* Do returns the error the pump closed the pipe with.
PumpError ==
    /\ handler = "roundtrip" /\ pump = "fail"
    /\ Respond(IF fault \in {"413", "415"} THEN fault ELSE "502")

\* Mutant: there is no return after an earlier answer.
DeadlineError_Again ==
    /\ handler \in {"roundtrip", "answered"} /\ expired
    /\ Respond("504")

\* Do returns because the deadline has passed.
DeadlineError ==
    /\ handler = "roundtrip" /\ expired
    /\ Respond("504")

\* Mutant: any failure of the transport is taken for a timeout.
TransportError_Timeout ==
    /\ handler = "roundtrip"
    /\ Respond("504")

\* The agent cannot be reached, its connection breaks or the client's has.
TransportError ==
    /\ handler = "roundtrip"
    /\ Respond("502")

\* The transport's own limit on dialling passes, with the upload's deadline still to
\* come.  The error is a context.DeadlineExceeded all the same; with no connection, the
\* transport has closed the pipe.
DialTimeout ==
    /\ handler = "roundtrip" /\ forwarded = 0 /\ agent = "none"
    /\ handler' = "answered" /\ answer' = "504" /\ pipeClosed' = TRUE
    /\ UNCHANGED <<client, pumping, upstream, expired>>

\* The pump is waiting for the client, inside a Read of the inbound body.
PumpReads == pump = "copy" /\ forwarded = taken /\ taken = sent /\ taken < Len(parts) /\ ~broken

\* Mutant: the handler returns without closing the inbound body.
Return_LeaveBody ==
    /\ handler = "answered"
    /\ handler' = "finished"
    /\ UNCHANGED <<request, sent, broken, answer, pumping, pipeClosed, upstream, expired>>

\* The deferred body.Close waits for a Read in progress; then the handler returns and
\* the server sends the response.  The pump reads no more than is in its buffer.
Return ==
    /\ handler = "answered" /\ ~PumpReads
    /\ handler' = "finished" /\ broken' = TRUE
    /\ \E buffered \in taken..sent : sent' = buffered
    /\ UNCHANGED <<request, answer, pumping, pipeClosed, upstream, expired>>

-------------------------------------------------------------------------------
(* The pump goroutine: streamRest, then the closing of writer and pipe.       *)

\* Mutant: the pump does not wait for its own read.
Write_Ahead ==
    /\ pump = "copy" /\ forwarded <= taken /\ ~pipeClosed
    /\ forwarded' = forwarded + 1
    /\ UNCHANGED <<client, handler, answer, pumping, pipeClosed, boundary, bodyEnd, agent, expired>>

\* The item in hand is written to the pipe, which waits for the transport.
Write ==
    /\ pump = "copy" /\ forwarded < taken /\ ~pipeClosed
    /\ forwarded' = forwarded + 1
    /\ UNCHANGED <<client, handler, answer, pumping, pipeClosed, boundary, bodyEnd, agent, expired>>

\* Mutant: only the first file's type is checked.
Read_AnyType ==
    /\ pump = "copy" /\ forwarded = taken
    /\ Readable
    /\ taken' = taken + 1
    /\ UNCHANGED <<client, handler, answer, pump, fault, pipeClosed, upstream, expired>>

\* NextPart, or io.Copy's read of a part, gives the next item.
Read ==
    /\ pump = "copy" /\ forwarded = taken
    /\ Readable /\ parts[taken + 1] # "bad"
    /\ taken' = taken + 1
    /\ UNCHANGED <<client, handler, answer, pump, fault, pipeClosed, upstream, expired>>

\* streamRest returns nil at the end of the inbound body.
ReadEnd ==
    /\ pump = "copy" /\ forwarded = taken /\ taken = Len(parts)
    /\ pump' = "finish"
    /\ UNCHANGED <<client, handler, answer, taken, fault, pipeClosed, upstream, expired>>

Fail(error) ==
    /\ pump' = "abort" /\ fault' = error
    /\ UNCHANGED <<client, handler, answer, taken, pipeClosed, upstream, expired>>

\* Mutant: what the inbound body fails with is taken for its end.
ReadError_AsEnd ==
    /\ pump = "copy" /\ forwarded = taken
    /\ TooLarge \/ (taken = sent /\ broken)
    /\ pump' = "finish"
    /\ UNCHANGED <<client, handler, answer, taken, fault, pipeClosed, upstream, expired>>

\* streamRest returns an error of the inbound side.
ReadError ==
    /\ pump = "copy" /\ forwarded = taken
    /\ \/ TooLarge /\ Fail("413")
       \/ Readable /\ parts[taken + 1] = "bad" /\ Fail("415")
       \/ taken = sent /\ taken < Len(parts) /\ broken /\ Fail("other")

\* streamRest returns io.ErrClosedPipe.
WriteError ==
    /\ pump = "copy" /\ forwarded < taken /\ pipeClosed
    /\ Fail("other")

\* mw.Close writes the closing boundary, after an error as after the last part.
WriteBoundary ==
    /\ pump \in {"finish", "abort"} /\ ~pipeClosed
    /\ boundary' = TRUE
    /\ pump' = IF pump = "finish" THEN "close" ELSE "fail"
    /\ UNCHANGED <<client, handler, answer, taken, fault, pipeClosed, forwarded, bodyEnd, agent, expired>>

\* pw.Close: the transport ends the body towards the agent.
CloseWriter ==
    /\ pump = "close"
    /\ pump' = "exit"
    /\ bodyEnd' = IF pipeClosed THEN bodyEnd ELSE "eof"
    /\ UNCHANGED <<client, handler, answer, taken, fault, pipeClosed, forwarded, boundary, agent, expired>>

\* mw.Close fails, or the transport has taken the error of pw.CloseWithError.
PumpGivesUp ==
    /\ \/ pump \in {"finish", "abort"} /\ pipeClosed
       \/ pump = "fail" /\ handler # "roundtrip"
    /\ pump' = "exit"
    /\ UNCHANGED <<client, handler, answer, taken, fault, pipeClosed, upstream, expired>>

-------------------------------------------------------------------------------
(* The surroundings.                                                          *)

ClientSends ==
    /\ sent < Len(parts) /\ ~broken
    /\ sent' = sent + 1
    /\ UNCHANGED <<request, broken, handler, answer, pumping, pipeClosed, upstream, expired>>

\* The client disconnects, or its body is not multipart from here on.
ClientBreaks ==
    /\ sent < Len(parts) /\ ~broken
    /\ broken' = TRUE
    /\ UNCHANGED <<request, sent, handler, answer, pumping, pipeClosed, upstream, expired>>

\* RoundTrip closes the request's body once it has returned, if not at once.
ClosePipe ==
    /\ handler \in {"answered", "finished"} /\ pump # "none" /\ ~pipeClosed
    /\ pipeClosed' = TRUE
    /\ UNCHANGED <<client, handler, answer, pumping, upstream, expired>>

\* Mutant: no deadline.
Expire_Never == FALSE

\* The deadline, which runs from the start of the upstream request.
Expire ==
    /\ handler = "roundtrip" /\ ~expired
    /\ expired' = TRUE
    /\ UNCHANGED <<client, handler, answer, pumping, pipeClosed, upstream>>

\* The agent accepts the upload when its body has ended, or, if eager, as soon as
\* it has the closing boundary; it may refuse at any moment.
AgentAnswers ==
    /\ handler = "roundtrip" /\ agent = "none"
    /\ \/ agent' = "accepted" /\ (bodyEnd = "eof" \/ (Eager /\ boundary))
       \/ agent' = "refused"
    /\ UNCHANGED <<client, handler, answer, pumping, pipeClosed, forwarded, boundary, bodyEnd, expired>>

Handler ==
    \/ CheckHeaders \/ BufferField \/ AcceptFile \/ RejectPrefix
    \/ RelayAnswer \/ PumpError \/ DeadlineError
    \/ Return

Pump ==
    \/ Write \/ Read \/ ReadEnd \/ ReadError \/ WriteError
    \/ WriteBoundary \/ CloseWriter \/ PumpGivesUp

Next ==
    \/ Handler
    \/ Pump
    \/ TransportError \/ DialTimeout
    \/ ClientSends
    \/ ClientBreaks
    \/ ClosePipe
    \/ Expire
    \/ AgentAnswers

Spec == Init /\ [][Next]_vars

\* body.Close reads on, up to a limit, if the client has not sent the whole body: until
\* it has, or is gone, the handler need not return.
Released == handler = "answered" => sent = Len(parts) \/ broken

\* The goroutines run, the transport closes the pipe and the deadline passes.
FairSpec ==
    /\ Spec
    /\ WF_vars(Handler /\ Released) /\ WF_vars(Pump)
    /\ WF_vars(ClosePipe) /\ WF_vars(Expire)

\* The client goes on sending, or disconnects: an assumption of one property only.
LivelyClient == WF_vars(ClientSends \/ ClientBreaks)
-------------------------------------------------------------------------------
TypeOK ==
    /\ request \in Requests
    /\ sent \in 0..Len(parts) /\ broken \in BOOLEAN
    /\ handler \in {"check", "prefix", "roundtrip", "answered", "finished"}
    /\ answer \in Answers
    /\ taken \in 0..sent
    /\ pump \in {"none", "copy", "finish", "close", "abort", "fail", "exit"}
    /\ fault \in {"none", "413", "415", "other"}
    /\ pipeClosed \in BOOLEAN
    /\ forwarded \in 0..taken
    /\ boundary \in BOOLEAN /\ bodyEnd \in {"open", "eof"}
    /\ agent \in {"none", "accepted", "refused"}
    /\ expired \in BOOLEAN

\* The agent never sees the head of a file of a forbidden type, whichever file of
\* the upload it is, nor more than the cap, whatever length was declared.
OnlyAllowedForwarded ==
    /\ \A i \in 1..forwarded : parts[i] # "bad"
    /\ MaxBytes > 0 => forwarded <= MaxBytes

\* The agent is only contacted for an upload whose first file is of an allowed
\* type: until then a rejection costs it nothing.
FirstFileAllowed ==
    pump # "none" =>
        \E i \in 1..Len(parts) :
            parts[i] = "file" /\ \A j \in 1..(i - 1) : parts[j] # "bad"

\* A client that is told its upload was accepted has sent it all, and the agent
\* has it all: no cap, forbidden part or broken body went unnoticed in between.
SuccessMeansWhole ==
    answer = "accepted" => forwarded = Len(parts) /\ \A i \in 1..Len(parts) : parts[i] # "bad"

\* A client is told 413 or 415 for its own upload's fault only, even if the error
\* comes back through the pipe, the transport and Do; and 504 if the deadline has passed,
\* or if the agent was never reached, and then has nothing and gets nothing.
RejectionsTruthful ==
    /\ answer = "413" => OverCap
    /\ answer = "415" => request.form = "other" \/ \E i \in 1..Len(parts) : parts[i] = "bad"
    /\ answer = "504" => expired \/ (forwarded = 0 /\ pipeClosed)

Promise == INSTANCE Upload WITH contacted <- pump # "none", got <- forwarded

\* An upload keeps the promise of Upload: one answer, with its cause, and nothing to
\* the agent but a prefix of what it may have, whichever of handler, pump, transport
\* and agent ends first.
UploadSpec == Promise!Spec

\* The pump does not outlive the handler for good: the pipe and the inbound body
\* it may be blocked on are both closed.
PumpExits == handler = "finished" ~> pump \in {"none", "exit"}

\* The steps that are left to the pump once it can read no more, at most.
PumpSteps ==
    CASE pump \in {"none", "exit"} -> 0
      [] pump \in {"close", "fail"} -> 1
      [] pump \in {"finish", "abort"} -> 2
      [] pump = "copy" -> 3 + 2 * (sent - taken) + (taken - forwarded)

\* From the handler's return on, the pump only winds down: each of its steps is one
\* of finitely many, and no other goroutine or peer gives it more to do.
PumpWindsDown ==
    [][handler = "finished" =>
          /\ PumpSteps' <= PumpSteps
          /\ Pump => PumpSteps' < PumpSteps]_vars

\* Every upload is answered, if its client goes on sending or leaves.
UploadAnswered == LivelyClient => (handler # "finished" ~> handler = "finished")

\* "Per-request timeout for backend POST /v1/files": once the agent is contacted,
\* the client has its answer, be it 504.  Not while the client itself stalls.
TimeoutAnswers == handler = "roundtrip" ~> handler = "finished"
===============================================================================
