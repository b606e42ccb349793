--------------------------- MODULE FilesUploadProofs ---------------------------
(***************************************************************************)
(* Proofs about FilesUpload, for bodies of any length and any cap.  Only   *)
(* what a success means depends on the agent: it must not be eager.        *)
(***************************************************************************)
EXTENDS FilesUpload, TLAPS

\* What has been read may be forwarded: nothing forbidden, nothing beyond the cap.
TakenAllowed ==
    /\ \A i \in 1..taken : parts[i] # "bad"
    /\ MaxBytes > 0 => taken <= MaxBytes

FileTaken == \E n \in 1..taken : parts[n] = "file"

\* How far the handler is, and what there is of pump and answer by then.
Stages ==
    /\ handler \in {"check", "prefix"} => pump = "none"
    /\ handler = "roundtrip" => pump # "none"
    /\ pump = "none" => forwarded = 0 /\ agent = "none" /\ bodyEnd = "open"
    /\ pump # "none" => FileTaken
    /\ answer = "none" <=> handler \in {"check", "prefix", "roundtrip"}

Whole == taken = Len(parts) /\ forwarded = Len(parts)

\* Whoever takes the upload for finished has it all; an eager agent guesses.
Ends ==
    /\ pump \in {"finish", "close"} => Whole
    /\ bodyEnd = "eof" => Whole
    /\ ~Eager /\ agent = "accepted" => Whole
    /\ answer = "accepted" => agent = "accepted" /\ pump # "none"

\* The pump's error is the client's fault, and so is what comes of it.
Blames ==
    /\ fault = "413" => OverCap
    /\ fault = "415" => \E i \in 1..Len(parts) : parts[i] = "bad"
    /\ RejectionsTruthful

Inv == TypeOK /\ TakenAllowed /\ Stages /\ Ends /\ Blames
-------------------------------------------------------------------------------
LEMMA PartsType == ASSUME request \in Requests
                   PROVE  parts \in Seq(Items) /\ Len(parts) \in Nat
BY RequestAssumption DEF parts

LEMMA InitInv == Init => Inv
<1> SUFFICES ASSUME Init PROVE Inv
  OBVIOUS
<1>1. request \in Requests /\ Len(parts) \in Nat
  BY PartsType DEF Init
<1>2. TypeOK
  <2>1. sent \in 0..Len(parts) /\ taken \in 0..sent /\ forwarded \in 0..taken
    BY <1>1 DEF Init
  <2>2. QED
    BY <2>1, Zenon DEF Init, TypeOK, Answers
<1>3. TakenAllowed
  BY RequestAssumption DEF Init, TakenAllowed
<1>4. Stages /\ Ends /\ Blames
  BY DEF Init, Stages, Ends, Blames, RejectionsTruthful
<1>5. QED
  BY <1>2, <1>3, <1>4 DEF Inv

\* An answer that has its cause disturbs nothing else.
LEMMA RespondInv ==
    ASSUME Inv, NEW status \in Answers \ {"none"}, Respond(status),
           handler \in {"check", "prefix", "roundtrip"},
           status = "413" => OverCap,
           status = "415" => request.form = "other" \/ \E i \in 1..Len(parts) : parts[i] = "bad",
           status = "504" => expired \/ (forwarded = 0 /\ pipeClosed),
           status = "accepted" => agent = "accepted" /\ pump # "none"
    PROVE  Inv'
<1> USE DEF Respond, client, pumping, upstream
<1>1. TypeOK'
  BY DEF Inv, TypeOK, parts
<1>2. TakenAllowed' /\ Stages'
  BY DEF Inv, TakenAllowed, Stages, FileTaken, parts
<1>3. Ends'
  BY DEF Inv, Ends, Whole, parts
<1>4. Blames'
  BY DEF Inv, Blames, RejectionsTruthful, OverCap, parts
<1>5. QED
  BY <1>1, <1>2, <1>3, <1>4 DEF Inv

\* Reading the next item: it is there, within the cap and not forbidden.
LEMMA TakeInv ==
    ASSUME Inv, Readable, parts[taken + 1] # "bad", taken' = taken + 1,
           UNCHANGED <<client, answer, fault, pipeClosed, upstream, expired>>,
           \/ UNCHANGED <<handler, pump>>
           \/ /\ handler = "prefix" /\ handler' = "roundtrip" /\ pump' = "copy"
              /\ parts[taken + 1] = "file"
    PROVE  Inv'
<1> USE DEF client, upstream, Readable
<1>0. /\ Len(parts) \in Nat /\ parts' = parts /\ MaxBytes \in Nat
      /\ sent \in 0..Len(parts) /\ taken \in 0..sent /\ forwarded \in 0..taken /\ ~Whole
  BY PartsType, RequestAssumption DEF Inv, TypeOK, parts, Whole
<1>1. TypeOK'
  BY <1>0 DEF Inv, TypeOK
<1>2. TakenAllowed'
  <2>1. \A i \in 1..(taken + 1) : i \in 1..taken \/ i = taken + 1
    BY <1>0
  <2>2. QED
    BY <1>0, <2>1 DEF Inv, TakenAllowed
<1>3. Stages'
  <2>1. pump' # "none" => FileTaken'
    BY <1>0 DEF Inv, Stages, FileTaken
  <2>2. QED
    BY <2>1 DEF Inv, Stages
<1>4. Ends'
  BY <1>0 DEF Inv, Ends, Stages
<1>5. Blames'
  BY <1>0 DEF Inv, Blames, RejectionsTruthful, OverCap
<1>6. QED
  BY <1>1, <1>2, <1>3, <1>4, <1>5 DEF Inv

\* The pump's further steps, which forward at most what has been read.
LEMMA PumpInv ==
    ASSUME Inv, pump # "none", pump' \in {"copy", "finish", "close", "abort", "fail", "exit"},
           fault' \in {"none", "413", "415", "other"},
           forwarded' \in forwarded..taken, forwarded' # forwarded => ~pipeClosed,
           boundary' \in BOOLEAN, bodyEnd' \in {"open", "eof"},
           pump' \in {"finish", "close"} \/ bodyEnd' = "eof" => Whole,
           fault' = "413" => OverCap,
           fault' = "415" => \E i \in 1..Len(parts) : parts[i] = "bad",
           UNCHANGED <<client, handler, answer, taken, pipeClosed, agent, expired>>
    PROVE  Inv'
<1> USE DEF client
<1>0. /\ Len(parts) \in Nat /\ parts' = parts
      /\ sent \in 0..Len(parts) /\ taken \in 0..sent /\ forwarded \in 0..taken
  BY PartsType DEF Inv, TypeOK, parts
<1>1. TypeOK'
  BY <1>0 DEF Inv, TypeOK
<1>2. TakenAllowed' /\ Stages'
  BY <1>0 DEF Inv, TakenAllowed, Stages, FileTaken
<1>3. Ends'
  <2>1. Whole => Whole'
    BY <1>0 DEF Whole
  <2>2. QED
    BY <2>1 DEF Inv, Ends
<1>4. Blames'
  BY <1>0 DEF Inv, Blames, RejectionsTruthful, OverCap
<1>5. QED
  BY <1>1, <1>2, <1>3, <1>4 DEF Inv

LEMMA HandlerInv == Inv /\ Handler => Inv'
<1> SUFFICES ASSUME Inv, Handler PROVE Inv'
  OBVIOUS
<1>0. /\ Len(parts) \in Nat /\ MaxBytes \in Nat /\ request \in Requests
      /\ sent \in 0..Len(parts) /\ taken \in 0..sent
  BY PartsType, RequestAssumption DEF Inv, TypeOK
<1>1. CASE CheckHeaders
  <2>1. CASE handler' = "prefix"
    <3> USE DEF CheckHeaders, Respond, client, pumping, upstream
    <3>1. handler = "check" /\ UNCHANGED <<client, answer, pumping, pipeClosed, upstream, expired>>
      BY <1>1, <2>1
    <3>2. TypeOK'
      BY <2>1, <3>1 DEF Inv, TypeOK, parts
    <3>3. TakenAllowed' /\ Stages'
      BY <2>1, <3>1 DEF Inv, TakenAllowed, Stages, FileTaken, parts
    <3>4. Ends'
      BY <2>1, <3>1 DEF Inv, Ends, Whole, parts
    <3>5. Blames'
      BY <2>1, <3>1 DEF Inv, Blames, RejectionsTruthful, OverCap, parts
    <3>6. QED
      BY <3>2, <3>3, <3>4, <3>5 DEF Inv
  <2>2. CASE \/ request.form = "other" /\ Respond("415")
             \/ Respond("400")
             \/ OverCap /\ Respond("413")
    BY <1>1, <2>2, RespondInv DEF CheckHeaders, Answers
  <2>3. QED
    BY <1>1, <2>1, <2>2 DEF CheckHeaders
<1>2. CASE BufferField
  BY <1>2, TakeInv DEF BufferField
<1>3. CASE AcceptFile
  BY <1>3, TakeInv DEF AcceptFile
<1>4. CASE RejectPrefix
  <2>1. Readable => taken + 1 \in 1..Len(parts)
    BY <1>0 DEF Readable
  <2>2. TooLarge => OverCap
    BY <1>0 DEF TooLarge, OverCap
  <2>3. QED
    BY <1>4, <2>1, <2>2, RespondInv DEF RejectPrefix, Answers
<1>5. CASE RelayAnswer
  BY <1>5, RespondInv DEF RelayAnswer, Answers, Inv, TypeOK, Stages
<1>6. CASE PumpError
  <2>1. fault \in {"413", "415"} => Respond(fault)
    BY <1>6 DEF PumpError
  <2>2. fault \notin {"413", "415"} => Respond("502")
    BY <1>6 DEF PumpError
  <2>3. QED
    BY <1>6, <2>1, <2>2, RespondInv DEF PumpError, Answers, Inv, Blames
<1>7. CASE DeadlineError
  BY <1>7, RespondInv DEF DeadlineError, Answers
<1>8. CASE Return
  <2> USE DEF Return, pumping, upstream
  <2>1. parts' = parts
    BY <1>8 DEF parts
  <2>2. TypeOK'
    <3>1. sent' \in taken..sent
      BY <1>8
    <3>2. QED
      BY <1>0, <1>8, <2>1, <3>1 DEF Inv, TypeOK
  <2>3. TakenAllowed' /\ Stages'
    BY <1>8, <2>1 DEF Inv, TakenAllowed, Stages, FileTaken
  <2>4. Ends'
    BY <1>8, <2>1 DEF Inv, Ends, Whole
  <2>5. Blames'
    BY <1>8, <2>1 DEF Inv, Blames, RejectionsTruthful, OverCap
  <2>6. QED
    BY <2>2, <2>3, <2>4, <2>5 DEF Inv
<1>9. QED
  BY <1>1, <1>2, <1>3, <1>4, <1>5, <1>6, <1>7, <1>8 DEF Handler

LEMMA PumpStepInv == Inv /\ Pump => Inv'
<1> SUFFICES ASSUME Inv, Pump PROVE Inv'
  OBVIOUS
<1> USE DEF pumping, upstream, client
<1>0. /\ Len(parts) \in Nat /\ MaxBytes \in Nat
      /\ sent \in 0..Len(parts) /\ taken \in 0..sent /\ forwarded \in 0..taken
      /\ boundary \in BOOLEAN /\ bodyEnd \in {"open", "eof"}
      /\ fault \in {"none", "413", "415", "other"}
      /\ pump \in {"finish", "close"} \/ bodyEnd = "eof" => Whole
      /\ fault = "413" => OverCap
      /\ fault = "415" => \E i \in 1..Len(parts) : parts[i] = "bad"
  BY PartsType, RequestAssumption DEF Inv, TypeOK, Ends, Blames
<1>1. CASE Write
  BY <1>0, <1>1, PumpInv DEF Write
<1>2. CASE Read
  BY <1>2, TakeInv DEF Read
<1>3. CASE ReadEnd
  BY <1>0, <1>3, PumpInv DEF ReadEnd, Whole
<1>4. CASE ReadError
  <2>1. TooLarge => OverCap
    BY <1>0 DEF TooLarge, OverCap
  <2>2. Readable => taken + 1 \in 1..Len(parts)
    BY <1>0 DEF Readable
  <2>3. QED
    BY <1>0, <1>4, <2>1, <2>2, PumpInv DEF ReadError, Fail
<1>5. CASE WriteError
  BY <1>0, <1>5, PumpInv DEF WriteError, Fail
<1>6. CASE WriteBoundary
  BY <1>0, <1>6, PumpInv DEF WriteBoundary
<1>7. CASE CloseWriter
  BY <1>0, <1>7, PumpInv DEF CloseWriter
<1>8. CASE PumpGivesUp
  <2>1. pump # "none"
    BY <1>8 DEF PumpGivesUp, Inv, Stages
  <2>2. QED
    BY <1>0, <1>8, <2>1, PumpInv DEF PumpGivesUp
<1>9. QED
  BY <1>1, <1>2, <1>3, <1>4, <1>5, <1>6, <1>7, <1>8 DEF Pump

\* Client, transport, agent and clock leave alone what has been read and forwarded.
LEMMA SurroundingsInv ==
    ASSUME Inv, ClientSends \/ ClientBreaks \/ ClosePipe \/ Expire \/ AgentAnswers
    PROVE  Inv'
<1> USE DEF ClientSends, ClientBreaks, ClosePipe, Expire, AgentAnswers, pumping, upstream, client
<1>0. /\ Len(parts) \in Nat /\ parts' = parts
      /\ sent \in 0..Len(parts) /\ taken \in 0..sent
  BY PartsType DEF Inv, TypeOK, parts
<1>1. TypeOK'
  <2> USE DEF Inv, TypeOK
  <2>1. CASE ClientSends
    BY <1>0, <2>1
  <2>2. CASE ClientBreaks
    BY <1>0, <2>2
  <2>3. CASE ClosePipe
    BY <1>0, <2>3
  <2>4. CASE Expire
    BY <1>0, <2>4
  <2>5. CASE AgentAnswers
    BY <1>0, <2>5
  <2>6. QED
    BY <2>1, <2>2, <2>3, <2>4, <2>5
<1>2. TakenAllowed'
  BY <1>0 DEF Inv, TakenAllowed
<1>3. Stages'
  BY <1>0 DEF Inv, Stages, FileTaken
<1>4. Ends'
  BY <1>0 DEF Inv, Ends, Stages, Whole
<1>5. Blames'
  BY <1>0 DEF Inv, Blames, RejectionsTruthful, OverCap
<1>6. QED
  BY <1>1, <1>2, <1>3, <1>4, <1>5 DEF Inv

LEMMA NextInv == Inv /\ [Next]_vars => Inv'
<1> SUFFICES ASSUME Inv, [Next]_vars PROVE Inv'
  OBVIOUS
<1>1. CASE TransportError
  BY <1>1, RespondInv DEF TransportError, Answers
<1>2. CASE DialTimeout
  <2> USE DEF DialTimeout, client, pumping, upstream
  <2>1. parts' = parts
    BY <1>2 DEF parts
  <2>2. TypeOK'
    BY <1>2, <2>1 DEF Inv, TypeOK, Answers
  <2>3. TakenAllowed' /\ Stages' /\ Ends'
    BY <1>2, <2>1 DEF Inv, TakenAllowed, Stages, FileTaken, Ends, Whole
  <2>4. Blames'
    BY <1>2, <2>1 DEF Inv, Blames, RejectionsTruthful, OverCap
  <2>5. QED
    BY <2>2, <2>3, <2>4 DEF Inv
<1>3. CASE UNCHANGED vars
  <2> USE DEF vars, client, pumping, upstream
  <2>1. parts' = parts
    BY <1>3 DEF parts
  <2>2. QED
    BY <1>3, <2>1 DEF Inv, TypeOK, TakenAllowed, Stages, FileTaken, Ends, Whole, Blames,
                      RejectionsTruthful, OverCap
<1>4. QED
  BY <1>1, <1>2, <1>3, HandlerInv, PumpStepInv, SurroundingsInv DEF Next

\* The inductive invariant of the upload: what has been read may be forwarded, an
\* end that anybody has seen is the whole body's, and each blame has its cause.
THEOREM Invariance == Spec => []Inv
BY InitInv, NextInv, PTL DEF Spec

\* Every variable of the upload has its type, for bodies of any length.
THEOREM TypeCorrect == Spec => []TypeOK
<1>1. Inv => TypeOK
  BY DEF Inv
<1>2. QED
  BY <1>1, Invariance, PTL

\* No forbidden file and nothing beyond the cap reaches the agent: the pump forwards
\* what has been read, and what must not be forwarded is not read.
THEOREM OnlyAllowed == Spec => []OnlyAllowedForwarded
<1>1. Inv => OnlyAllowedForwarded
  <2> SUFFICES ASSUME Inv PROVE OnlyAllowedForwarded
    OBVIOUS
  <2>1. taken \in Nat /\ forwarded \in 0..taken /\ MaxBytes \in Nat
    BY PartsType, RequestAssumption DEF Inv, TypeOK
  <2>2. QED
    BY <2>1 DEF Inv, TakenAllowed, OnlyAllowedForwarded
<1>2. QED
  BY <1>1, Invariance, PTL

\* The pump only starts, and with it the agent is only asked, behind a file of an
\* allowed type with nothing forbidden before it.
THEOREM FirstFile == Spec => []FirstFileAllowed
<1>1. Inv => FirstFileAllowed
  <2> SUFFICES ASSUME Inv, pump # "none"
               PROVE  \E i \in 1..Len(parts) :
                         parts[i] = "file" /\ \A j \in 1..(i - 1) : parts[j] # "bad"
    BY DEF FirstFileAllowed
  <2>1. PICK n \in 1..taken : parts[n] = "file"
    BY DEF Inv, Stages, FileTaken
  <2>2. /\ taken \in 0..sent /\ sent \in 0..Len(parts) /\ Len(parts) \in Nat
        /\ \A i \in 1..taken : parts[i] # "bad"
    BY PartsType DEF Inv, TypeOK, TakenAllowed
  <2>3. n \in 1..Len(parts) /\ \A j \in 1..(n - 1) : parts[j] # "bad"
    BY <2>2
  <2>4. QED
    BY <2>1, <2>3
<1>2. QED
  BY <1>1, Invariance, PTL

\* A client that is told of success has its whole upload at the agent, unless the
\* agent accepts before the body's end.
THEOREM WholeUploads == ASSUME ~Eager PROVE Spec => []SuccessMeansWhole
<1>1. Inv => SuccessMeansWhole
  BY DEF Inv, Ends, Whole, TakenAllowed, SuccessMeansWhole
<1>2. QED
  BY <1>1, Invariance, PTL

\* 413 and 415 are only said for the reasons they stand for; 504 for the deadline, or for
\* an agent that could not be reached, and gets nothing of the upload later either.
THEOREM TruthfulRejections == Spec => []RejectionsTruthful
<1>1. Inv => RejectionsTruthful
  BY DEF Inv, Blames
<1>2. QED
  BY <1>1, Invariance, PTL
-------------------------------------------------------------------------------
(* The refinement of Upload.                                                  *)

\* The promise allows the agent whatever the pump has read.
LEMMA TakenPromised ==
    ASSUME Inv, NEW n \in 1..taken
    PROVE  Promise!Allowed(n)
<1>1. /\ taken \in 0..sent /\ sent \in 0..Len(parts) /\ Len(parts) \in Nat /\ MaxBytes \in Nat
      /\ \A i \in 1..taken : parts[i] # "bad"
      /\ MaxBytes > 0 => taken <= MaxBytes
  BY PartsType, RequestAssumption DEF Inv, TypeOK, TakenAllowed
<1>2. QED
  BY <1>1 DEF Promise!Allowed, Promise!parts, parts

LEMMA InitPromise == Init => Promise!Init
BY DEF Init, Promise!Init

\* The handler's answers are the promise's.
LEMMA RespondPromise ==
    ASSUME Inv, ~Eager, Inv', NEW status \in Answers \ {"none"}, Respond(status),
           handler \in {"check", "prefix", "roundtrip"},
           status = "400" => handler # "roundtrip",
           status \in {"502", "504", "refused", "accepted"} => handler = "roundtrip",
           status = "accepted" => agent = "accepted"
    PROVE  Promise!Next
<1>1. /\ answer = "none" /\ answer' = status /\ UNCHANGED <<request, pump, forwarded>>
      /\ status = "400" => pump = "none"
      /\ status \in {"502", "504", "refused", "accepted"} => pump # "none"
  BY DEF Respond, Inv, Stages, client, pumping, upstream
<1>2. status = "accepted" => forwarded = Len(parts)
  BY DEF Inv, Ends, Whole
<1>3. status = "413" => OverCap
  BY <1>1 DEF Inv, Blames, RejectionsTruthful, OverCap, parts
<1>4. status = "415" => request.form = "other" \/ \E i \in 1..Len(parts) : parts[i] = "bad"
  BY <1>1 DEF Inv, Blames, RejectionsTruthful, parts
<1>5. Promise!Justified(status)
  BY <1>1, <1>2, <1>3, <1>4
  DEF Answers, Promise!Justified, Promise!TooLarge, Promise!Forbidden, Promise!parts, parts, OverCap
<1>6. Promise!Respond(status)
  BY <1>1, <1>5 DEF Promise!Respond
<1>7. QED
  BY <1>6 DEF Promise!Next, Answers

LEMMA NextPromise == Inv /\ Inv' /\ ~Eager /\ [Next]_vars => [Promise!Next]_(Promise!vars)
<1> SUFFICES ASSUME Inv, Inv', ~Eager, [Next]_vars
             PROVE  Promise!Next \/ UNCHANGED Promise!vars
  OBVIOUS
<1> USE DEF Promise!vars, client, pumping, upstream
<1>1. CASE CheckHeaders
  <2>1. CASE handler' = "prefix"
    BY <1>1, <2>1 DEF CheckHeaders, Respond
  <2>2. CASE Respond("415") \/ Respond("400") \/ Respond("413")
    BY <1>1, <2>2, RespondPromise DEF CheckHeaders, Answers
  <2>3. QED
    BY <1>1, <2>1, <2>2 DEF CheckHeaders
<1>2. CASE BufferField
  BY <1>2 DEF BufferField
<1>3. CASE AcceptFile
  <2>1. /\ pump = "none" /\ pump' = "copy" /\ answer = "none"
        /\ UNCHANGED <<request, forwarded, answer>>
    BY <1>3 DEF AcceptFile, Inv, Stages
  <2>2. taken' = taken + 1 /\ parts[taken + 1] = "file" /\ taken \in Nat
        /\ taken + 1 \in 1..Len(parts) /\ parts' = parts
    BY <1>3, PartsType DEF AcceptFile, Readable, Inv, TypeOK, parts
  <2>3. Promise!Allowed(taken + 1)
    <3>1. /\ Len(parts) \in Nat /\ MaxBytes \in Nat
          /\ \A i \in 1..(taken + 1) : parts[i] # "bad"
          /\ MaxBytes > 0 => taken + 1 <= MaxBytes
      BY <2>2, PartsType, RequestAssumption DEF Inv, TypeOK, TakenAllowed
    <3>2. QED
      BY <2>2, <3>1 DEF Promise!Allowed, Promise!parts, parts
  <2>4. QED
    BY <2>1, <2>2, <2>3 DEF Promise!Next, Promise!Contact, Promise!parts, parts
<1>4. CASE RejectPrefix
  BY <1>4, RespondPromise DEF RejectPrefix, Answers
<1>5. CASE RelayAnswer
  BY <1>5, RespondPromise DEF RelayAnswer, Answers, Inv, TypeOK
<1>6. CASE PumpError
  <2>1. fault \in {"413", "415"} => Respond(fault)
    BY <1>6 DEF PumpError
  <2>2. fault \notin {"413", "415"} => Respond("502")
    BY <1>6 DEF PumpError
  <2>3. QED
    BY <1>6, <2>1, <2>2, RespondPromise DEF PumpError, Answers
<1>7. CASE DeadlineError
  BY <1>7, RespondPromise DEF DeadlineError, Answers
<1>8. CASE TransportError
  BY <1>8, RespondPromise DEF TransportError, Answers
<1>9. CASE Return
  BY <1>9 DEF Return
<1>10. CASE DialTimeout
  <2>1. /\ pump # "none" /\ answer = "none" /\ answer' = "504"
        /\ UNCHANGED <<request, pump, forwarded>>
    BY <1>10 DEF DialTimeout, Inv, Stages
  <2>2. Promise!Respond("504")
    BY <2>1 DEF Promise!Respond, Promise!Justified
  <2>3. QED
    BY <2>2 DEF Promise!Next
<1>11. CASE Write
  <2>1. /\ pump = "copy" /\ forwarded' = forwarded + 1 /\ forwarded + 1 \in 1..taken
        /\ UNCHANGED <<request, pump, answer>>
    BY <1>11, PartsType DEF Write, Inv, TypeOK
  <2>2. Promise!Allowed(forwarded + 1)
    BY <2>1, TakenPromised
  <2>3. QED
    BY <2>1, <2>2 DEF Promise!Next, Promise!Deliver
<1>12. CASE Pump /\ ~Write
  <2>1. pump # "none" /\ pump' # "none" /\ UNCHANGED <<request, forwarded, answer>>
    BY <1>12 DEF Pump, Read, ReadEnd, ReadError, WriteError, Fail, WriteBoundary, CloseWriter,
                 PumpGivesUp, Inv, Stages
  <2>2. QED
    BY <2>1
<1>13. CASE ClientSends \/ ClientBreaks \/ ClosePipe \/ Expire \/ AgentAnswers
  BY <1>13 DEF ClientSends, ClientBreaks, ClosePipe, Expire, AgentAnswers
<1>14. CASE UNCHANGED vars
  BY <1>14 DEF vars
<1>15. QED
  BY <1>1, <1>2, <1>3, <1>4, <1>5, <1>6, <1>7, <1>8, <1>9, <1>10, <1>11, <1>12, <1>13,
     <1>14
  DEF Next, Handler

\* The upload implements what Upload promises: pump, pipe and deadline are invisible
\* to client and agent, unless the agent accepts before the body's end.
THEOREM ImplementsUpload == ASSUME ~Eager PROVE Spec => UploadSpec
BY InitPromise, NextPromise, Invariance, PTL DEF Spec, UploadSpec, Promise!Spec
-------------------------------------------------------------------------------
(* An agent that accepts too early.                                           *)

\* The closing boundary is only written behind the whole body or an error of the pump's.
Boundaries ==
    /\ pump \in {"abort", "fail"} => fault # "none"
    /\ fault # "none" => pump \in {"abort", "fail", "exit"}
    /\ boundary \/ bodyEnd = "eof" \/ agent = "accepted" => Whole \/ fault # "none"

LEMMA NextKeepsBoundaries == Inv /\ Boundaries /\ [Next]_vars => Boundaries'
<1> SUFFICES ASSUME Inv, Boundaries, [Next]_vars PROVE Boundaries'
  OBVIOUS
<1> USE DEF client, pumping, upstream, Boundaries, Whole, parts
<1>1. /\ taken \in Nat /\ forwarded \in 0..taken /\ taken <= Len(parts) /\ Len(parts) \in Nat
      /\ Readable => taken < Len(parts)
      /\ pump = "none" => fault = "none"
      /\ pump \in {"finish", "close"} => Whole
  BY PartsType DEF Inv, TypeOK, Ends, Readable
<1>2. CASE Handler \/ TransportError \/ DialTimeout
  <2>1. CASE BufferField \/ AcceptFile
    BY <1>1, <2>1 DEF BufferField, AcceptFile, Inv, Stages
  <2>2. CASE ~(BufferField \/ AcceptFile)
    <3>1. UNCHANGED <<pumping, forwarded, boundary, bodyEnd, agent, request>>
      BY <1>2, <2>2 DEF Handler, TransportError, DialTimeout, CheckHeaders, RejectPrefix, RelayAnswer,
         PumpError, DeadlineError, Return, Respond
    <3>2. QED
      BY <3>1
  <2>3. QED
    BY <2>1, <2>2
<1>3. CASE Write \/ Read
  BY <1>1, <1>3 DEF Write, Read, Readable, Inv, TypeOK
<1>4. CASE ReadEnd \/ ReadError \/ WriteError
  BY <1>1, <1>4 DEF ReadEnd, ReadError, WriteError, Fail
<1>5. CASE WriteBoundary \/ CloseWriter \/ PumpGivesUp
  BY <1>1, <1>5 DEF WriteBoundary, CloseWriter, PumpGivesUp
<1>6. CASE ClientSends \/ ClientBreaks \/ ClosePipe \/ Expire \/ UNCHANGED vars
  BY <1>6 DEF ClientSends, ClientBreaks, ClosePipe, Expire, vars
<1>7. CASE AgentAnswers
  BY <1>7 DEF AgentAnswers
<1>8. QED
  BY <1>2, <1>3, <1>4, <1>5, <1>6, <1>7 DEF Next, Pump

\* However early the agent accepts, a client that is told of success has its whole upload
\* at the agent, or the pump had already met the error the handler does not look at.
THEOREM TruncationNoticed ==
    Spec => [](answer = "accepted" => forwarded = Len(parts) \/ fault # "none")
<1>1. Init => Boundaries
  BY DEF Init, Boundaries
<1>2. Inv /\ Boundaries => (answer = "accepted" => forwarded = Len(parts) \/ fault # "none")
  BY DEF Inv, Ends, Boundaries, Whole
<1>3. QED
  BY <1>1, <1>2, NextKeepsBoundaries, Invariance, PTL DEF Spec
-------------------------------------------------------------------------------
(* The end of the pump, but for fairness.                                     *)

\* The handler returns with the inbound body closed: no more arrives of it.
BodyClosed == handler = "finished" => broken

LEMMA NextKeepsBodyClosed == Inv /\ BodyClosed /\ [Next]_vars => BodyClosed'
<1> SUFFICES ASSUME Inv, BodyClosed, [Next]_vars PROVE BodyClosed'
  OBVIOUS
<1> USE DEF client, pumping, upstream, BodyClosed
<1>1. CASE Handler \/ TransportError \/ DialTimeout
  BY <1>1 DEF Handler, TransportError, DialTimeout, CheckHeaders, BufferField, AcceptFile, RejectPrefix,
     RelayAnswer, PumpError, DeadlineError, Return, Respond
<1>2. CASE Pump
  BY <1>2 DEF Pump, Write, Read, Readable, ReadEnd, ReadError, WriteError, Fail, WriteBoundary,
     CloseWriter, PumpGivesUp, Inv, TypeOK
<1>3. CASE ClientSends \/ ClientBreaks \/ ClosePipe \/ Expire \/ AgentAnswers \/ UNCHANGED vars
  BY <1>3 DEF ClientSends, ClientBreaks, ClosePipe, Expire, AgentAnswers, vars
<1>4. QED
  BY <1>1, <1>2, <1>3 DEF Next

LEMMA BodyClosedHolds == Spec => []BodyClosed
<1>1. Init => BodyClosed
  BY DEF Init, BodyClosed
<1>2. QED
  BY <1>1, NextKeepsBodyClosed, Invariance, PTL DEF Spec

\* One step of the pump's is possible: to write, or to see the pipe closed; to read what
\* has arrived, to see the inbound body's end or that it is closed; to close the writer
\* and the pipe.
PumpCanMove ==
    \/ pump = "copy" /\ forwarded < taken
    \/ pump = "copy" /\ forwarded = taken
          /\ (taken = Len(parts) \/ taken < sent \/ broken)
    \/ pump \in {"finish", "abort", "close"}
    \/ pump = "fail" /\ handler # "roundtrip"

\* Once the handler has returned the pump is never blocked, on the pipe, on the body or
\* on the transport: as long as it has steps left it can take one.
THEOREM PumpNeverBlocked ==
    Spec => [](handler = "finished" => PumpSteps = 0 \/ PumpCanMove)
<1>1. Inv /\ BodyClosed => (handler = "finished" => PumpSteps = 0 \/ PumpCanMove)
  <2> SUFFICES ASSUME Inv, BodyClosed, handler = "finished", PumpSteps # 0
               PROVE  PumpCanMove
    OBVIOUS
  <2>1. /\ pump \in {"copy", "finish", "close", "abort", "fail"}
        /\ taken \in 0..Len(parts) /\ forwarded \in 0..taken /\ Len(parts) \in Nat
    BY PartsType DEF Inv, TypeOK, PumpSteps
  <2>2. broken
    BY DEF BodyClosed
  <2>3. QED
    BY <2>1, <2>2 DEF PumpCanMove
<1>2. QED
  BY <1>1, BodyClosedHolds, Invariance, PTL

\* And each step it takes brings it nearer to its end, while nobody else's takes it back.
THEOREM PumpRunsOut == Spec => PumpWindsDown
<1>1. ASSUME Inv, BodyClosed, [Next]_vars, handler = "finished"
      PROVE  PumpSteps' <= PumpSteps /\ (Pump => PumpSteps' < PumpSteps)
  <2> USE DEF client, pumping, upstream
  <2>1. /\ taken \in Nat /\ forwarded \in 0..taken /\ taken - forwarded \in Nat
        /\ sent \in Nat /\ sent - taken \in Nat /\ broken
        /\ pump \in {"none", "copy", "finish", "close", "abort", "fail", "exit"}
    BY <1>1, PartsType DEF Inv, TypeOK, BodyClosed
  <2>2. CASE Write
    BY <2>1, <2>2 DEF Write, PumpSteps
  <2>3. CASE Read
    BY <2>1, <2>3 DEF Read, Readable, PumpSteps
  <2>4. CASE ReadEnd \/ ReadError \/ WriteError
    <3>1. pump = "copy" /\ pump' \in {"finish", "abort"}
      BY <2>4 DEF ReadEnd, ReadError, WriteError, Fail
    <3>2. PumpSteps \in Nat /\ PumpSteps >= 3
      BY <2>1, <3>1 DEF PumpSteps
    <3>3. PumpSteps' = 2
      BY <3>1 DEF PumpSteps
    <3>4. QED
      BY <3>2, <3>3
  <2>5. CASE WriteBoundary \/ CloseWriter \/ PumpGivesUp
    <3>1. \/ pump \in {"finish", "abort"} /\ pump' \in {"close", "fail", "exit"}
          \/ pump \in {"close", "fail"} /\ pump' = "exit"
      BY <2>5 DEF WriteBoundary, CloseWriter, PumpGivesUp
    <3>2. QED
      BY <3>1 DEF PumpSteps
  <2>6. CASE UNCHANGED <<pump, sent, taken, forwarded>> /\ ~Pump
    BY <2>1, <2>6 DEF PumpSteps
  <2>7. ~Handler /\ ~TransportError /\ ~DialTimeout
    BY <1>1 DEF Handler, TransportError, DialTimeout, CheckHeaders, BufferField, AcceptFile, RejectPrefix,
       RelayAnswer, PumpError, DeadlineError, Return
  <2>8. CASE ~Pump
    <3>1. UNCHANGED <<pump, sent, taken, forwarded>>
      BY <1>1, <2>1, <2>7, <2>8 DEF Next, ClientSends, ClientBreaks, ClosePipe, Expire, AgentAnswers, vars
    <3>2. QED
      BY <2>6, <2>8, <3>1
  <2>9. QED
    BY <2>2, <2>3, <2>4, <2>5, <2>8 DEF Pump
<1>2. QED
  BY <1>1, BodyClosedHolds, Invariance, PTL DEF Spec, PumpWindsDown
================================================================================
