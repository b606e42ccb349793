----------------------------- MODULE GatewayProofs -----------------------------
(***************************************************************************)
(* Proofs about Gateway, for any number of requests, any tokens, users,    *)
(* configurations and inbound headers.                                     *)
(***************************************************************************)
EXTENDS Gateway, TLAPS

\* The credentials of r satisfy the configured strategy.
Credentialed(r) ==
    /\ cfg.mode = "proxy" => inbound[r].header.forwardedUser # None
    /\ cfg.mode = "jwt" => /\ inbound[r].header.authorization \in Bearer
                           /\ sub[inbound[r].header.authorization] # None

\* The headers h tell an upstream who sent r, and nothing of its credentials.
Vouched(r, h) ==
    /\ h.auth = Caller(r)
    /\ h.authorization # None => /\ cfg.mode = "jwt" /\ cfg.exchange
                                 /\ h.authorization \in Swapped
                                 /\ h.authorization.owner = inbound[r].header.authorization
    /\ cfg.mode = "jwt" /\ cfg.exchange => h.authorization # None
    /\ h.trace = inbound[r].header.trace

\* Until they are projected, the headers are the client's but for X-Auth-*.
Stripped(r) ==
    /\ header[r].authorization = inbound[r].header.authorization
    /\ header[r].forwardedUser = inbound[r].header.forwardedUser
    /\ header[r].trace = inbound[r].header.trace

\* What each stage knows of its request.
StageKnows(r) ==
    /\ step[r] \in {"enter", "auth", "swap"} => Stripped(r)
    /\ step[r] \in {"auth", "swap"} => route(r) \notin Exempt
    /\ step[r] = "swap" => cfg.mode = "jwt" /\ cfg.exchange /\ call[r] = "pending"
    /\ step[r] \in {"handle", "body"} /\ route(r) \notin Exempt =>
          Credentialed(r) /\ Vouched(r, header[r])
    /\ step[r] = "body" => route(r) \in Selecting

\* An exchange is only begun for a token that validates, and is about that token.
ExchangeKnows(r) ==
    /\ step[r] \in {"idle", "enter", "auth"} => call[r] = "idle"
    /\ call[r] # "idle" => /\ cfg.mode = "jwt" /\ Credentialed(r)
                           /\ subject[r] = inbound[r].header.authorization

\* An upstream has been asked only once the handler has run, for a request with
\* credentials and with headers that are vouched for, or with none for readiness.
HopKnows(r) ==
    /\ step[r] \in {"idle", "enter", "auth", "swap", "handle", "body"} => hop[r] = None
    /\ hop[r] # None /\ route(r) # "readyz" => Credentialed(r)
    /\ hop[r] # None /\ hop[r].header # Nothing => Vouched(r, hop[r].header)

\* An answer is there when it is sent.
AnswerKnows(r) == step[r] \notin {"copy", "done"} => status[r] = "none"

Sound(r) == StageKnows(r) /\ ExchangeKnows(r) /\ HopKnows(r) /\ AnswerKnows(r)

Inv == TypeOK /\ \A r \in Request : Sound(r)
-----------------------------------------------------------------------------
\* The steps of a client that do not send or read.
ClientMoves(r) == ClientStalls(r) \/ ClientResumes(r) \/ ClientLeaves(r)

\* The steps of one request.
StepOf(r) ==
    \/ \E q \in Inbound : Receive(r, q)
    \/ Enter(r)
    \/ AuthenticateAnonymous(r) \/ AuthenticateProxy(r)
    \/ BearerMissing(r) \/ KeysUnavailable(r) \/ TokenInvalid(r) \/ Validate(r)
    \/ ExchangeAnswers(r) \/ ExchangeFails(r)
    \/ AnswerLocally(r) \/ ReadBody(r) \/ Reject(r) \/ Forward(r)
    \/ UpstreamFails(r) \/ Ready(r) \/ RelayHead(r) \/ RelayBody(r) \/ BodyBreaks(r)
    \/ ClientMoves(r)

LEMMA NextSteps == Next => (\E r \in Request : StepOf(r)) \/ KeysFetched
BY DEF Next, Proceed, Interrupt, StepOf, ClientMoves

LEMMA SwapTyped ==
    Swap!TypeOK <=> /\ call \in [Request -> {"idle", "pending", "minted", "done", "failed"}]
                    /\ subject \in [Request -> Bearer \cup {None}]
                    /\ result \in [Request -> Swapped \cup {None}]
BY DEF Swap!TypeOK, Swap!Token, Swapped

LEMMA NothingTyped == Nothing \in Headers
BY DEF Nothing, Headers

LEMMA InitInv == Init => Inv
<1>1. SUFFICES ASSUME Init PROVE Inv
  OBVIOUS
<1>2. Swap!TypeOK
  BY <1>1 DEF Init, Swap!Init, Swap!TypeOK
<1>3. inbound \in [Request -> [route : Routes, header : Headers]]
  BY <1>1, NothingTyped DEF Init, Routes, Exempt
<1>4. TypeOK
  BY <1>1, <1>2, <1>3, NothingTyped DEF Init, TypeOK
<1>5. ASSUME NEW r \in Request PROVE Sound(r)
  BY <1>1 DEF Init, Swap!Init, Sound, StageKnows, ExchangeKnows, HopKnows, AnswerKnows
<1>6. QED
  BY <1>4, <1>5 DEF Inv

\* A request's step leaves every other request as it is.
LEMMA OthersUntouched ==
    ASSUME TypeOK, NEW r \in Request, StepOf(r), NEW p \in Request \ {r}
    PROVE  /\ step'[p] = step[p] /\ inbound'[p] = inbound[p] /\ header'[p] = header[p]
           /\ hop'[p] = hop[p] /\ status'[p] = status[p]
           /\ call'[p] = call[p] /\ subject'[p] = subject[p]
           /\ cfg' = cfg
<1> USE DEF world, response, swap
<1>1. CASE \E q \in Inbound : Receive(r, q)
  BY <1>1 DEF Receive, TypeOK
<1>2. CASE Enter(r) \/ ClientMoves(r) \/ ReadBody(r) \/ Forward(r) \/ RelayHead(r)
  BY <1>2 DEF Enter, ClientMoves, ClientStalls, ClientResumes, ClientLeaves, ClientTurns, ReadBody,
     Forward, RelayHead, TypeOK
<1>3. CASE AuthenticateAnonymous(r) \/ AuthenticateProxy(r)
  BY <1>3 DEF AuthenticateAnonymous, AuthenticateProxy, Project, Answer, TypeOK
<1>4. CASE BearerMissing(r) \/ KeysUnavailable(r) \/ TokenInvalid(r)
  BY <1>4 DEF BearerMissing, KeysUnavailable, TokenInvalid, Answer, TypeOK
<1>5. CASE Validate(r)
  BY <1>5, SwapTyped DEF Validate, Project, Answer, Swap!Invoke, TypeOK
<1>6. CASE ExchangeAnswers(r)
  BY <1>6, SwapTyped DEF ExchangeAnswers, Project, Swap!Answer, TypeOK
<1>7. CASE ExchangeFails(r)
  BY <1>7, SwapTyped DEF ExchangeFails, Answer, Swap!Fail, TypeOK
<1>8. CASE AnswerLocally(r) \/ Reject(r) \/ UpstreamFails(r) \/ Ready(r)
  BY <1>8 DEF AnswerLocally, Reject, UpstreamFails, Ready, Answer, TypeOK
<1>9. CASE RelayBody(r) \/ BodyBreaks(r)
  BY <1>9 DEF RelayBody, BodyBreaks, EndCopy, TypeOK
<1>10. QED
  BY <1>1, <1>2, <1>3, <1>4, <1>5, <1>6, <1>7, <1>8, <1>9 DEF StepOf

\* What Sound says depends on these values only.
LEMMA SameSound ==
    ASSUME NEW p \in Request, Sound(p),
           step'[p] = step[p], inbound'[p] = inbound[p], header'[p] = header[p],
           hop'[p] = hop[p], status'[p] = status[p],
           call'[p] = call[p], subject'[p] = subject[p], cfg' = cfg
    PROVE  Sound(p)'
<1>1. Caller(p)' = Caller(p)
  BY DEF Caller
<1>2. QED
  BY <1>1 DEF Sound, StageKnows, ExchangeKnows, HopKnows, AnswerKnows, Stripped, route,
              Credentialed, Vouched

\* What Project makes of the headers.
LEMMA ProjectHeader ==
    ASSUME TypeOK, NEW r \in Request, NEW identity \in Identity,
           NEW bearer \in Swapped \cup {None}, Project(r, identity, bearer)
    PROVE  /\ header' \in [Request -> Headers]
           /\ header'[r].auth = identity /\ header'[r].authorization = bearer
           /\ header'[r].trace = header[r].trace
<1>1. header[r] \in Headers
  BY DEF TypeOK
<1> DEFINE p == [header[r] EXCEPT !.auth = identity, !.authorization = bearer]
<1>2. header' = [header EXCEPT ![r] = p]
  BY DEF Project
<1>3. /\ p \in Headers /\ p.auth = identity /\ p.authorization = bearer
      /\ p.trace = header[r].trace
  BY <1>1 DEF Headers
<1> HIDE DEF p
<1>4. header'[r] = p
  BY <1>2 DEF TypeOK
<1>5. QED
  BY <1>2, <1>3, <1>4 DEF TypeOK

LEMMA StrippedHeader ==
    ASSUME NEW h \in Headers
    PROVE  LET s == stripCanonicalHeaders(h)
           IN  /\ s \in Headers /\ s.authorization = h.authorization
               /\ s.forwardedUser = h.forwardedUser /\ s.trace = h.trace
BY DEF Headers, stripCanonicalHeaders

\* A selection of the headers keeps the identity, the token and the trace.
LEMMA OutboundHeader ==
    ASSUME TypeOK, NEW r \in Request
    PROVE  /\ Outbound(r) \in Headers
           /\ route(r) \in Selecting \cup Reversing =>
                 /\ Outbound(r).auth = header[r].auth
                 /\ Outbound(r).authorization = header[r].authorization
                 /\ Outbound(r).trace = header[r].trace
                 /\ route(r) \notin Exempt
           /\ route(r) \notin Selecting \cup Reversing => Outbound(r) = Nothing
<1>1. header[r] \in Headers
  BY DEF TypeOK
<1>2. CASE route(r) \in Selecting
  <2> DEFINE o == [Nothing EXCEPT !.auth = header[r].auth,
                                  !.authorization = header[r].authorization,
                                  !.trace = header[r].trace]
  <2>1. Outbound(r) = o
    BY <1>2 DEF Outbound, Selecting, Reversing
  <2>2. /\ o \in Headers /\ o.auth = header[r].auth
        /\ o.authorization = header[r].authorization /\ o.trace = header[r].trace
    BY <1>1, NothingTyped DEF Headers, Nothing
  <2>3. route(r) \notin Exempt
    BY <1>2 DEF Selecting, Exempt
  <2>4. QED
    BY <1>2, <2>1, <2>2, <2>3
<1>3. CASE route(r) \in Reversing
  <2>1. Outbound(r) = header[r] /\ route(r) \notin Exempt
    BY <1>3 DEF Outbound, Selecting, Reversing, Exempt
  <2>2. QED
    BY <1>1, <1>3, <2>1
<1>4. CASE route(r) \notin Selecting \cup Reversing
  <2>1. Outbound(r) = Nothing
    BY <1>4 DEF Outbound, Selecting, Reversing
  <2>2. QED
    BY <1>4, <2>1, NothingTyped
<1>5. QED
  BY <1>2, <1>3, <1>4

LEMMA AnswerTyped ==
    ASSUME TypeOK, NEW r \in Request, NEW code \in Codes,
           Answer(r, code), Swap!TypeOK'
    PROVE  TypeOK'
BY DEF Answer, TypeOK, world

LEMMA ProjectTyped ==
    ASSUME TypeOK, NEW r \in Request, NEW identity \in Identity,
           NEW bearer \in Swapped \cup {None}, Project(r, identity, bearer), Swap!TypeOK'
    PROVE  TypeOK'
<1>1. header' \in [Request -> Headers]
  BY ProjectHeader
<1>2. QED
  BY <1>1 DEF Project, TypeOK, world, response

LEMMA CodesOfHandlers ==
    ASSUME NEW r \in Request
    PROVE  /\ Rejections(r) \subseteq Codes \ {"401"} /\ Failures(r) \subseteq Codes \ {"401"}
           /\ route(r) # "readyz" => "503" \notin Rejections(r) \cup Failures(r)
<1>1. /\ Rejections(r) \subseteq Codes \ {"401"}
      /\ route(r) # "readyz" => "503" \notin Rejections(r)
  BY DEF Rejections, Codes
<1>2. /\ Failures(r) \subseteq Codes \ {"401"}
      /\ route(r) # "readyz" => "503" \notin Failures(r)
  BY DEF Failures, Codes
<1>3. QED
  BY <1>1, <1>2

LEMMA SameSwapTyped == TypeOK /\ UNCHANGED swap => Swap!TypeOK'
BY SwapTyped DEF TypeOK, swap, Swap!TypeOK
\* A token that validates names a user.
LEMMA SubOfBearer == \A t \in Bearer : sub[t] # None => sub[t] \in User
BY GatewayAssumption

LEMMA TypeStep ==
    ASSUME Inv, NEW r \in Request, StepOf(r)
    PROVE  TypeOK'
<1>1. TypeOK /\ Sound(r)
  BY DEF Inv
<1> USE <1>1
<1>2. CASE \E q \in Inbound : Receive(r, q)
  <2>1. Swap!TypeOK'
    BY <1>2, SameSwapTyped DEF Receive
  <2>2. Inbound \subseteq [route : Routes, header : Headers]
    BY GatewayAssumption
  <2>3. \A q \in Inbound : q \in [route : Routes, header : Headers] /\ q.header \in Headers
    BY <2>2
  <2>4. QED
    BY <1>2, <2>1, <2>3 DEF Receive, TypeOK, world, response
<1>3. CASE Enter(r)
  <2>1. Swap!TypeOK'
    BY <1>3, SameSwapTyped DEF Enter
  <2>2. stripCanonicalHeaders(header[r]) \in Headers
    BY StrippedHeader DEF TypeOK
  <2>3. QED
    BY <1>3, <2>1, <2>2 DEF Enter, TypeOK, world, response
<1>4. CASE AuthenticateAnonymous(r)
  <2>1. Swap!TypeOK'
    BY <1>4, SameSwapTyped DEF AuthenticateAnonymous
  <2>2. [mode |-> "anonymous", subject |-> "anonymous"] \in Identity
    BY DEF Identity
  <2>3. QED
    BY <1>4, <2>1, <2>2, ProjectTyped DEF AuthenticateAnonymous
<1>5. CASE AuthenticateProxy(r)
  <2>1. Swap!TypeOK'
    BY <1>5, SameSwapTyped DEF AuthenticateProxy
  <2>2. CASE Answer(r, "503")
    BY <2>1, <2>2, AnswerTyped DEF Codes
  <2>3. CASE header[r].forwardedUser # None
             /\ Project(r, [mode |-> "proxy", subject |-> header[r].forwardedUser], None)
    <3>1. [mode |-> "proxy", subject |-> header[r].forwardedUser] \in Identity
      BY <2>3 DEF TypeOK, Headers, Identity
    <3>2. QED
      BY <2>1, <2>3, <3>1, ProjectTyped
  <2>4. QED
    BY <1>5, <2>2, <2>3 DEF AuthenticateProxy
<1>6. CASE BearerMissing(r) \/ KeysUnavailable(r) \/ TokenInvalid(r)
  <2>1. Swap!TypeOK'
    BY <1>6, SameSwapTyped DEF BearerMissing, KeysUnavailable, TokenInvalid
  <2>2. QED
    BY <1>6, <2>1, AnswerTyped DEF BearerMissing, KeysUnavailable, TokenInvalid, Codes
<1>7. CASE Validate(r)
  <2> DEFINE token == header[r].authorization
  <2>1. token \in Bearer /\ sub[token] # None
    BY <1>7 DEF Validate
  <2>2. CASE /\ UNCHANGED swap
             /\ Project(r, [mode |-> "jwt", subject |-> sub[token]], None)
    <3>1. [mode |-> "jwt", subject |-> sub[token]] \in Identity
      BY <2>1, <2>2, SubOfBearer DEF Identity
    <3>2. QED
      BY <2>2, <3>1, SameSwapTyped, ProjectTyped
  <2>3. CASE /\ Swap!Invoke(r, token)
             /\ step' = [step EXCEPT ![r] = "swap"]
             /\ UNCHANGED <<world, inbound, header, hop, response, client>>
    <3>1. Swap!TypeOK'
      BY <2>1, <2>3, SwapTyped DEF Swap!Invoke, TypeOK, Swap!TypeOK, Swap!Token
    <3>2. QED
      BY <2>3, <3>1 DEF TypeOK, world, response
  <2>4. QED
    BY <1>7, <2>2, <2>3 DEF Validate
<1>8. CASE ExchangeAnswers(r)
  <2> DEFINE t == [owner |-> subject[r], left |-> 1]
  <2>1. /\ step[r] = "swap" /\ subject[r] = inbound[r].header.authorization
        /\ header[r].authorization = inbound[r].header.authorization
        /\ subject[r] \in Bearer /\ sub[subject[r]] # None
    BY <1>8 DEF ExchangeAnswers, Sound, StageKnows, ExchangeKnows, Stripped, Credentialed
  <2>2. t \in Swapped
    BY <2>1 DEF Swapped
  <2>3. result' = [result EXCEPT ![r] = t] /\ result'[r] = t
    BY <1>8, SwapTyped DEF ExchangeAnswers, TypeOK
  <2>4. Swap!TypeOK'
    BY <1>8, <2>2, <2>3, SwapTyped DEF ExchangeAnswers, Swap!Answer, TypeOK, Swap!TypeOK,
       Swap!Token, Swapped
  <2>5. [mode |-> "jwt", subject |-> sub[header[r].authorization]] \in Identity
    BY <2>1, SubOfBearer DEF Identity
  <2>6. QED
    BY <1>8, <2>2, <2>3, <2>4, <2>5, ProjectTyped DEF ExchangeAnswers
<1>9. CASE ExchangeFails(r)
  <2>1. Swap!TypeOK'
    BY <1>9, SwapTyped DEF ExchangeFails, Swap!Fail, TypeOK, Swap!TypeOK
  <2>2. QED
    BY <1>9, <2>1, AnswerTyped DEF ExchangeFails, Codes
<1>10. CASE AnswerLocally(r) \/ Reject(r) \/ UpstreamFails(r) \/ Ready(r)
  <2>1. Swap!TypeOK'
    BY <1>10, SameSwapTyped DEF AnswerLocally, Reject, UpstreamFails, Ready
  <2>2. \E code \in Codes : Answer(r, code)
    BY <1>10, CodesOfHandlers DEF AnswerLocally, Reject, UpstreamFails, Ready, Codes
  <2>3. QED
    BY <2>1, <2>2, AnswerTyped DEF Codes
<1>11. CASE Forward(r)
  <2>1. Swap!TypeOK'
    BY <1>11, SameSwapTyped DEF Forward
  <2>2. [target |-> Target(r), header |-> Outbound(r)]
           \in [target : {"agent", "platform"}, header : Headers]
    BY OutboundHeader DEF Target
  <2>3. QED
    BY <1>11, <2>1, <2>2 DEF Forward, TypeOK, world, response
<1>12. CASE ReadBody(r) \/ RelayHead(r) \/ RelayBody(r) \/ BodyBreaks(r)
  <2>1. Swap!TypeOK'
    BY <1>12, SameSwapTyped DEF ReadBody, RelayHead, RelayBody, BodyBreaks, EndCopy
  <2>2. CASE ReadBody(r)
    BY <2>1, <2>2 DEF ReadBody, TypeOK, world, response
  <2>3. CASE RelayHead(r)
    BY <2>1, <2>3 DEF RelayHead, TypeOK, world
  <2>4. CASE RelayBody(r)
    BY <2>1, <2>4 DEF RelayBody, EndCopy, TypeOK, world
  <2>5. CASE BodyBreaks(r)
    BY <2>1, <2>5 DEF BodyBreaks, EndCopy, TypeOK, world
  <2>6. QED
    BY <1>12, <2>2, <2>3, <2>4, <2>5
<1>13. CASE ClientMoves(r)
  <2>1. /\ client' \in [Request -> {"lively", "stalled", "gone"}]
        /\ UNCHANGED <<world, step, inbound, header, hop, response, swap>>
    BY <1>13 DEF ClientMoves, ClientStalls, ClientResumes, ClientLeaves, ClientTurns, TypeOK
  <2>2. Swap!TypeOK'
    BY <2>1, SameSwapTyped
  <2>3. QED
    BY <2>1, <2>2 DEF TypeOK, world, response
<1>14. QED
  BY <1>2, <1>3, <1>4, <1>5, <1>6, <1>7, <1>8, <1>9, <1>10, <1>11, <1>12, <1>13 DEF StepOf
\* An answer keeps what is known of its request.
LEMMA AnswerSound ==
    ASSUME TypeOK, NEW r \in Request, Sound(r), NEW code, Answer(r, code),
           subject'[r] = subject[r], call'[r] = call[r] \/ (step[r] = "swap" /\ call'[r] = "failed")
    PROVE  Sound(r)'
<1>1. /\ step'[r] = "done" /\ status'[r] = code /\ inbound' = inbound /\ header' = header
      /\ hop' = hop /\ cfg' = cfg
  BY DEF Answer, TypeOK, world
<1>2. Caller(r)' = Caller(r)
  BY <1>1 DEF Caller
<1>3. /\ Credentialed(r)' <=> Credentialed(r)
      /\ route(r)' = route(r)
      /\ hop[r] # None => (Vouched(r, hop[r].header)' <=> Vouched(r, hop[r].header))
  BY <1>1, <1>2 DEF Credentialed, route, Vouched
<1>4. StageKnows(r)' /\ HopKnows(r)'
  BY <1>1, <1>2, <1>3 DEF Sound, StageKnows, HopKnows, Vouched
<1>5. ExchangeKnows(r)'
  BY <1>1, <1>3 DEF Sound, ExchangeKnows, StageKnows
<1>6. AnswerKnows(r)'
  BY <1>1, <1>3 DEF AnswerKnows
<1>7. QED
  BY <1>4, <1>5, <1>6 DEF Sound

\* Projection makes headers that are vouched for.
LEMMA ProjectSound ==
    ASSUME TypeOK, NEW r \in Request, Sound(r),
           NEW identity \in Identity, NEW bearer \in Swapped \cup {None},
           Project(r, identity, bearer), step[r] \in {"auth", "swap"},
           subject'[r] = subject[r], call'[r] = call[r] \/ step[r] = "swap",
           Credentialed(r), identity = Caller(r),
           bearer # None => /\ cfg.mode = "jwt" /\ cfg.exchange
                            /\ bearer.owner = inbound[r].header.authorization,
           cfg.mode = "jwt" /\ cfg.exchange => bearer # None
    PROVE  Sound(r)'
<1>1. /\ step'[r] = "handle" /\ status' = status /\ inbound' = inbound /\ hop' = hop /\ cfg' = cfg
      /\ hop[r] = None
  BY DEF Project, TypeOK, world, response, Sound, HopKnows
<1>2. /\ header'[r].auth = identity /\ header'[r].authorization = bearer
      /\ header'[r].trace = header[r].trace
  BY ProjectHeader
<1>3. Caller(r)' = Caller(r)
  BY <1>1 DEF Caller
<1>4. (Credentialed(r)' <=> Credentialed(r)) /\ route(r)' = route(r)
  BY <1>1 DEF Credentialed, route
<1>5. header[r].trace = inbound[r].header.trace
  BY DEF Sound, StageKnows, Stripped
<1>6. bearer # None => bearer \in Swapped
  OBVIOUS
<1>7. Vouched(r, header[r])'
  BY <1>1, <1>2, <1>3, <1>5, <1>6 DEF Vouched
<1>8. StageKnows(r)' /\ HopKnows(r)'
  BY <1>1, <1>4, <1>7 DEF StageKnows, HopKnows
<1>9. ExchangeKnows(r)'
  BY <1>1, <1>4 DEF Sound, StageKnows, ExchangeKnows
<1>10. AnswerKnows(r)'
  BY <1>1, <1>4 DEF Sound, AnswerKnows
<1>11. QED
  BY <1>8, <1>9, <1>10 DEF Sound

\* After the handler has begun, only its step and the response change.
LEMMA RelaySound ==
    ASSUME TypeOK, NEW r \in Request, Sound(r),
           ReadBody(r) \/ RelayHead(r) \/ RelayBody(r) \/ BodyBreaks(r) \/ ClientMoves(r)
    PROVE  Sound(r)'
<1>1. /\ inbound' = inbound /\ header' = header /\ hop' = hop /\ cfg' = cfg
      /\ call' = call /\ subject' = subject
  BY DEF ReadBody, RelayHead, RelayBody, BodyBreaks, EndCopy, ClientMoves, ClientStalls,
     ClientResumes, ClientLeaves, ClientTurns, world, swap
<1>2. \/ step'[r] \in {"copy", "done"} /\ status'[r] \in {"backend", status[r]}
      \/ /\ step[r] = "handle" /\ step'[r] = "body" /\ route(r) \in Selecting
         /\ status'[r] = status[r]
      \/ step'[r] = step[r] /\ status'[r] = status[r]
  BY DEF ReadBody, RelayHead, RelayBody, BodyBreaks, EndCopy, ClientMoves, ClientStalls,
     ClientResumes, ClientLeaves, ClientTurns, TypeOK, response
<1>3. Caller(r)' = Caller(r)
  BY <1>1 DEF Caller
<1>4. (Credentialed(r)' <=> Credentialed(r)) /\ route(r)' = route(r)
  BY <1>1 DEF Credentialed, route
<1>5. StageKnows(r)' /\ HopKnows(r)'
  BY <1>1, <1>2, <1>3, <1>4 DEF Sound, StageKnows, HopKnows, Vouched, Stripped
<1>6. ExchangeKnows(r)' /\ AnswerKnows(r)'
  BY <1>1, <1>2, <1>4 DEF Sound, ExchangeKnows, AnswerKnows
<1>7. QED
  BY <1>5, <1>6 DEF Sound
LEMMA SoundStep ==
    ASSUME Inv, NEW r \in Request, StepOf(r)
    PROVE  Sound(r)'
<1>1. TypeOK /\ Sound(r)
  BY DEF Inv
<1> USE <1>1
<1>2. CASE \E q \in Inbound : Receive(r, q)
  <2>1. /\ step'[r] = "enter" /\ header'[r] = inbound'[r].header /\ step[r] = "idle"
        /\ hop' = hop /\ status' = status /\ call' = call
    BY <1>2 DEF Receive, TypeOK, response, swap
  <2>2. hop'[r] = None /\ call'[r] = "idle" /\ status'[r] = "none"
    BY <2>1 DEF Sound, HopKnows, ExchangeKnows, AnswerKnows
  <2>3. StageKnows(r)' /\ HopKnows(r)'
    BY <2>1, <2>2 DEF StageKnows, HopKnows, Stripped
  <2>4. ExchangeKnows(r)' /\ AnswerKnows(r)'
    BY <2>1, <2>2 DEF ExchangeKnows, AnswerKnows
  <2>5. QED
    BY <2>3, <2>4 DEF Sound
<1>3. CASE Enter(r)
  <2>1. header[r] \in Headers
    BY DEF TypeOK
  <2>2. /\ header'[r] = stripCanonicalHeaders(header[r]) /\ step[r] = "enter"
        /\ step'[r] = (IF route(r) \in Exempt THEN "handle" ELSE "auth")
        /\ hop' = hop /\ status' = status /\ call' = call /\ subject' = subject
        /\ inbound' = inbound /\ cfg' = cfg
    BY <1>3 DEF Enter, TypeOK, world, response, swap
  <2>3. /\ header'[r].authorization = header[r].authorization
        /\ header'[r].forwardedUser = header[r].forwardedUser
        /\ header'[r].trace = header[r].trace
    BY <2>1, <2>2, StrippedHeader
  <2>4. Stripped(r)'
    BY <2>2, <2>3 DEF Sound, StageKnows, Stripped
  <2>5. route(r)' = route(r)
    BY <2>2 DEF route
  <2>6. hop[r] = None /\ call[r] = "idle" /\ status[r] = "none"
    BY <2>2 DEF Sound, HopKnows, ExchangeKnows, AnswerKnows
  <2>7. StageKnows(r)' /\ HopKnows(r)'
    BY <2>2, <2>4, <2>5, <2>6 DEF StageKnows, HopKnows
  <2>8. ExchangeKnows(r)' /\ AnswerKnows(r)'
    BY <2>2, <2>6 DEF ExchangeKnows, AnswerKnows
  <2>9. QED
    BY <2>7, <2>8 DEF Sound
<1>4. CASE AuthenticateAnonymous(r)
  <2>1. [mode |-> "anonymous", subject |-> "anonymous"] \in Identity
    BY DEF Identity
  <2>2. Credentialed(r) /\ Caller(r) = [mode |-> "anonymous", subject |-> "anonymous"]
    BY <1>4 DEF AuthenticateAnonymous, Credentialed, Caller
  <2>3. QED
    BY <1>4, <2>1, <2>2, ProjectSound DEF AuthenticateAnonymous, swap
<1>5. CASE AuthenticateProxy(r)
  <2> DEFINE user == header[r].forwardedUser
  <2>1. step[r] = "auth" /\ cfg.mode = "proxy" /\ UNCHANGED <<call, subject>>
    BY <1>5 DEF AuthenticateProxy, swap
  <2>2. user = inbound[r].header.forwardedUser
    BY <2>1 DEF Sound, StageKnows, Stripped
  <2>3. CASE user = None /\ Answer(r, "503")
    BY <2>1, <2>2, <2>3, AnswerSound DEF Credentialed
  <2>4. CASE user # None /\ Project(r, [mode |-> "proxy", subject |-> user], None)
    <3>1. [mode |-> "proxy", subject |-> user] \in Identity
      BY <2>4 DEF TypeOK, Headers, Identity
    <3>2. Credentialed(r) /\ Caller(r) = [mode |-> "proxy", subject |-> user]
      BY <2>1, <2>2, <2>4 DEF Credentialed, Caller
    <3>3. QED
      BY <2>1, <2>4, <3>1, <3>2, ProjectSound
  <2>5. QED
    BY <1>5, <2>3, <2>4 DEF AuthenticateProxy
<1>6. CASE BearerMissing(r) \/ KeysUnavailable(r) \/ TokenInvalid(r)
  <2>1. step[r] = "auth" /\ cfg.mode = "jwt" /\ UNCHANGED <<call, subject>>
    BY <1>6 DEF BearerMissing, KeysUnavailable, TokenInvalid, swap
  <2>2. header[r].authorization = inbound[r].header.authorization /\ route(r) \notin Exempt
    BY <2>1 DEF Sound, StageKnows, Stripped
  <2>3. CASE BearerMissing(r)
    BY <2>1, <2>2, <2>3, AnswerSound DEF BearerMissing, Credentialed
  <2>4. CASE KeysUnavailable(r)
    BY <2>1, <2>2, <2>4, AnswerSound DEF KeysUnavailable
  <2>5. CASE TokenInvalid(r)
    BY <2>1, <2>2, <2>5, AnswerSound DEF TokenInvalid, Credentialed
  <2>6. QED
    BY <1>6, <2>3, <2>4, <2>5
<1>7. CASE Validate(r)
  <2> DEFINE token == header[r].authorization
  <2>1. step[r] = "auth" /\ cfg.mode = "jwt" /\ token \in Bearer /\ sub[token] # None
    BY <1>7 DEF Validate
  <2>2. token = inbound[r].header.authorization /\ route(r) \notin Exempt /\ Stripped(r)
    BY <2>1 DEF Sound, StageKnows, Stripped
  <2>3. CASE /\ ~cfg.exchange /\ UNCHANGED swap
             /\ Project(r, [mode |-> "jwt", subject |-> sub[token]], None)
    <3>1. [mode |-> "jwt", subject |-> sub[token]] \in Identity
      BY <2>1, <2>3, SubOfBearer DEF Identity
    <3>2. Credentialed(r) /\ Caller(r) = [mode |-> "jwt", subject |-> sub[token]]
      BY <2>1, <2>2, <2>3 DEF Credentialed, Caller
    <3>3. QED
      BY <2>1, <2>3, <3>1, <3>2, ProjectSound DEF swap
  <2>4. CASE /\ cfg.exchange /\ Swap!Invoke(r, token)
             /\ step' = [step EXCEPT ![r] = "swap"]
             /\ UNCHANGED <<world, inbound, header, hop, response, client>>
    <3>1. /\ step'[r] = "swap" /\ call'[r] = "pending" /\ subject'[r] = token
          /\ inbound' = inbound /\ header' = header /\ hop' = hop /\ status' = status /\ cfg' = cfg
      BY <2>4, SwapTyped DEF Swap!Invoke, TypeOK, world, response
    <3>2. /\ Stripped(r)' /\ route(r)' = route(r)
          /\ Credentialed(r)' <=> Credentialed(r)
      BY <2>2, <3>1 DEF Stripped, route, Credentialed
    <3>3. Credentialed(r) /\ hop[r] = None /\ status[r] = "none"
      BY <2>1, <2>2, <2>4 DEF Credentialed, Sound, HopKnows, AnswerKnows
    <3>4. StageKnows(r)' /\ HopKnows(r)'
      BY <2>1, <2>2, <2>4, <3>1, <3>2, <3>3 DEF StageKnows, HopKnows
    <3>5. ExchangeKnows(r)' /\ AnswerKnows(r)'
      BY <2>1, <2>2, <3>1, <3>2, <3>3 DEF ExchangeKnows, AnswerKnows
    <3>6. QED
      BY <3>4, <3>5 DEF Sound
  <2>5. QED
    BY <1>7, <2>3, <2>4 DEF Validate
<1>8. CASE ExchangeAnswers(r)
  <2> DEFINE token == header[r].authorization
             t == [owner |-> subject[r], left |-> 1]
  <2>1. /\ step[r] = "swap" /\ call[r] # "idle" /\ token = inbound[r].header.authorization
        /\ cfg.mode = "jwt" /\ cfg.exchange
    BY <1>8 DEF ExchangeAnswers, Sound, StageKnows, Stripped
  <2>2. Credentialed(r) /\ subject[r] = token /\ token \in Bearer /\ sub[token] # None
    BY <2>1 DEF Sound, ExchangeKnows, Credentialed
  <2>3. t \in Swapped /\ t.owner = token
    BY <2>2 DEF Swapped
  <2>4. result'[r] = t /\ subject' = subject
    BY <1>8, SwapTyped DEF ExchangeAnswers, Swap!Answer, TypeOK
  <2>5. [mode |-> "jwt", subject |-> sub[token]] \in Identity
    BY <2>2, SubOfBearer DEF Identity
  <2>6. Caller(r) = [mode |-> "jwt", subject |-> sub[token]]
    BY <2>1 DEF Caller
  <2>7. t # None
    BY <2>3, ValueAssumption
  <2> HIDE DEF t
  <2>8. Project(r, [mode |-> "jwt", subject |-> sub[token]], t)
    BY <1>8, <2>4 DEF ExchangeAnswers
  <2>9. QED
    BY <2>1, <2>2, <2>3, <2>4, <2>5, <2>6, <2>7, <2>8, ProjectSound
<1>9. CASE ExchangeFails(r)
  <2>1. step[r] = "swap" /\ cfg.mode = "jwt" /\ call[r] # "idle"
    BY <1>9 DEF ExchangeFails, Sound, StageKnows
  <2>2. inbound[r].header.authorization \in Bearer
    BY <2>1 DEF Sound, ExchangeKnows, Credentialed
  <2>3. subject'[r] = subject[r] /\ call'[r] = "failed"
    BY <1>9, SwapTyped DEF ExchangeFails, Swap!Fail, TypeOK
  <2>4. QED
    BY <1>9, <2>1, <2>2, <2>3, AnswerSound DEF ExchangeFails
<1>10. CASE AnswerLocally(r) \/ Reject(r) \/ UpstreamFails(r) \/ Ready(r)
  <2>1. \E code \in Codes \ {"401"} :
           Answer(r, code) /\ (code = "503" => route(r) = "readyz")
    BY <1>10, CodesOfHandlers DEF Codes, AnswerLocally, Reject, UpstreamFails, Ready
  <2>2. UNCHANGED <<call, subject>>
    BY <1>10 DEF AnswerLocally, Reject, UpstreamFails, Ready, swap
  <2>3. QED
    BY <2>1, <2>2, AnswerSound
<1>11. CASE Forward(r)
  <2> DEFINE o == Outbound(r)
  <2>1. /\ step[r] \in {"handle", "body"} /\ step'[r] = "sent" /\ hop'[r] = [target |-> Target(r), header |-> o]
        /\ inbound' = inbound /\ header' = header /\ status' = status /\ cfg' = cfg
        /\ call' = call /\ subject' = subject
        /\ route(r) \notin {"healthz", "agent.json"}
    BY <1>11 DEF Forward, Unheld, TypeOK, world, response, swap
  <2>2. Caller(r)' = Caller(r)
    BY <2>1 DEF Caller
  <2>3. /\ Credentialed(r)' <=> Credentialed(r)
        /\ route(r)' = route(r)
    BY <2>1 DEF Credentialed, route
  <2>4. route(r) # "readyz" => Credentialed(r) /\ Vouched(r, header[r])
    BY <2>1 DEF Sound, StageKnows, Exempt
  <2>5. o # Nothing => Vouched(r, header[r]) /\ Vouched(r, o)
    BY <2>4, OutboundHeader DEF Vouched, Exempt
  <2>6. hop'[r].header = o
    BY <2>1
  <2> HIDE DEF o
  <2>7. o # Nothing => Vouched(r, hop[r].header)'
    BY <2>1, <2>2, <2>5, <2>6 DEF Vouched
  <2>8. HopKnows(r)' /\ StageKnows(r)'
    BY <2>1, <2>3, <2>4, <2>6, <2>7 DEF HopKnows, StageKnows
  <2>9. ExchangeKnows(r)' /\ AnswerKnows(r)'
    BY <2>1, <2>3 DEF Sound, ExchangeKnows, AnswerKnows
  <2>10. QED
    BY <2>8, <2>9 DEF Sound
<1>12. CASE ReadBody(r) \/ RelayHead(r) \/ RelayBody(r) \/ BodyBreaks(r) \/ ClientMoves(r)
  BY <1>12, RelaySound
<1>13. QED
  BY <1>2, <1>3, <1>4, <1>5, <1>6, <1>7, <1>8, <1>9, <1>10, <1>11, <1>12 DEF StepOf
\* A fetch of the keys touches no request.
LEMMA KeysStep ==
    ASSUME Inv, KeysFetched \/ UNCHANGED vars
    PROVE  Inv'
<1>1. TypeOK /\ \A r \in Request : Sound(r)
  BY DEF Inv
<1>2. /\ cfg' = cfg /\ step' = step /\ inbound' = inbound /\ header' = header /\ hop' = hop
      /\ status' = status /\ copied' = copied /\ ended' = ended /\ client' = client
      /\ UNCHANGED swap /\ jwks' \in {jwks, "warm"}
  BY DEF KeysFetched, vars, world, response, swap
<1>3. Swap!TypeOK'
  BY <1>1, <1>2, SameSwapTyped
<1>4. TypeOK'
  BY <1>1, <1>2, <1>3 DEF TypeOK
<1>5. ASSUME NEW p \in Request PROVE Sound(p)'
  BY <1>1, <1>2, SameSound DEF swap
<1>6. QED
  BY <1>4, <1>5 DEF Inv

LEMMA NextInv == Inv /\ [Next]_vars => Inv'
<1>1. SUFFICES ASSUME Inv, [Next]_vars PROVE Inv'
  OBVIOUS
<1>2. CASE KeysFetched \/ UNCHANGED vars
  BY <1>1, <1>2, KeysStep
<1>3. ASSUME NEW r \in Request, StepOf(r) PROVE Inv'
  <2>1. TypeOK'
    BY <1>1, <1>3, TypeStep
  <2>2. Sound(r)'
    BY <1>1, <1>3, SoundStep
  <2>3. ASSUME NEW p \in Request \ {r} PROVE Sound(p)'
    <3>1. TypeOK /\ Sound(p)
      BY <1>1 DEF Inv
    <3>2. QED
      BY <1>3, <3>1, OthersUntouched, SameSound
  <2>4. QED
    BY <2>1, <2>2, <2>3 DEF Inv
<1>4. QED
  BY <1>1, <1>2, <1>3, NextSteps

\* The inductive invariant: at every stage of its way, what a request's headers, its
\* exchange, its upstream request and its answer say of its credentials is true.
THEOREM Invariance == Spec => []Inv
<1>1. Init => Inv
  BY InitInv
<1>2. Inv /\ [Next]_vars => Inv'
  BY NextInv
<1>3. QED
  BY <1>1, <1>2, PTL DEF Spec

\* The variables keep their types, whatever is configured and sent.
THEOREM TypeCorrect == Spec => []TypeOK
<1>1. Inv => TypeOK
  BY DEF Inv
<1>2. QED
  BY <1>1, Invariance, PTL

\* No upstream is told another identity than the strategy's for this very request.
THEOREM IdentitiesVouched == Spec => []IdentityVouched
<1>1. Inv => IdentityVouched
  <2>1. Nothing.auth = None
    BY DEF Nothing
  <2>2. QED
    BY <2>1 DEF Inv, Sound, HopKnows, Vouched, IdentityVouched
<1>2. QED
  BY <1>1, Invariance, PTL

\* No upstream sees a client's Authorization, or an exchanged token not its own.
THEOREM BearersVouched == Spec => []BearerVouched
<1>1. Inv => BearerVouched
  <2>1. Nothing.auth = None /\ Nothing.authorization = None
    BY DEF Nothing
  <2>2. QED
    BY <2>1 DEF Inv, Sound, HopKnows, Vouched, BearerVouched
<1>2. QED
  BY <1>1, Invariance, PTL

\* No upstream but readiness's is asked for a request without credentials.
THEOREM Closed == Spec => []FailsClosed
<1>1. Inv => FailsClosed
  BY DEF Inv, Sound, HopKnows, Credentialed, FailsClosed
<1>2. QED
  BY <1>1, Invariance, PTL

\* An answer of the middleware's own is a 401 or 503 for the reason it stands for.
LEMMA MiddlewareBlames ==
    ASSUME Inv, NEW r \in Request,
           \/ AuthenticateProxy(r) \/ BearerMissing(r) \/ KeysUnavailable(r) \/ TokenInvalid(r)
           \/ ExchangeFails(r),
           status'[r] # status[r]
    PROVE  BlamesTruly(r)
<1>1. /\ TypeOK /\ Sound(r) /\ step[r] \in {"auth", "swap"} /\ route(r) \notin Exempt
      /\ header[r].authorization = inbound[r].header.authorization
      /\ header[r].forwardedUser = inbound[r].header.forwardedUser
  BY DEF Inv, AuthenticateProxy, BearerMissing, KeysUnavailable, TokenInvalid, ExchangeFails,
     Sound, StageKnows, Stripped
<1>2. CASE AuthenticateProxy(r)
  <2>1. cfg.mode = "proxy" /\ header[r].forwardedUser = None /\ status'[r] = "503"
    BY <1>1, <1>2 DEF AuthenticateProxy, Project, Answer, TypeOK, response
  <2>2. QED
    BY <1>1, <2>1 DEF BlamesTruly, CallerAtFault, OthersAtFault
<1>3. CASE BearerMissing(r) \/ TokenInvalid(r)
  <2>1. /\ cfg.mode = "jwt" /\ status'[r] = "401"
        /\ header[r].authorization \notin Bearer \/ sub[header[r].authorization] = None
    BY <1>1, <1>3 DEF BearerMissing, TokenInvalid, Answer, TypeOK
  <2>2. QED
    BY <1>1, <2>1 DEF BlamesTruly, CallerAtFault
<1>4. CASE KeysUnavailable(r)
  <2>1. Keyless(r) /\ cfg.mode = "jwt" /\ status'[r] = IF cfg.worded THEN "503" ELSE "401"
    BY <1>1, <1>4 DEF KeysUnavailable, Answer, Keyless, TypeOK
  <2>2. QED
    BY <1>1, <2>1 DEF BlamesTruly, CallerAtFault, OthersAtFault
<1>5. CASE ExchangeFails(r)
  <2>1. step[r] = "swap" /\ status'[r] = "503" /\ call'[r] = "failed"
    BY <1>1, <1>5, SwapTyped DEF ExchangeFails, Answer, Swap!Fail, TypeOK
  <2>2. cfg.mode = "jwt" /\ call[r] = "pending"
    BY <1>1, <2>1 DEF Sound, StageKnows
  <2>3. Credentialed(r)
    BY <1>1, <2>2 DEF Sound, ExchangeKnows
  <2>4. QED
    BY <2>1, <2>2, <2>3 DEF BlamesTruly, OthersAtFault, Credentialed
<1>6. QED
  BY <1>2, <1>3, <1>4, <1>5

\* Whoever is blamed when a request is answered is to blame at that very step.
THEOREM BlamesRight == Spec => BlameIsRight
<1>1. ASSUME Inv, [Next]_vars, NEW p \in Request, status'[p] # status[p]
      PROVE  BlamesTruly(p)
  <2>1. TypeOK
    BY <1>1 DEF Inv
  <2>2. ~(KeysFetched \/ UNCHANGED vars)
    BY <1>1 DEF KeysFetched, vars, response
  <2>3. PICK r \in Request : StepOf(r)
    BY <1>1, <2>2, NextSteps
  <2>4. p = r
    BY <1>1, <2>1, <2>3, OthersUntouched
  <2>5. CASE \/ AuthenticateProxy(r) \/ BearerMissing(r) \/ KeysUnavailable(r)
             \/ TokenInvalid(r) \/ ExchangeFails(r)
    BY <1>1, <2>4, <2>5, MiddlewareBlames
  <2>6. CASE AnswerLocally(r) \/ Reject(r) \/ UpstreamFails(r) \/ Ready(r)
    <3>1. PICK code \in Codes \ {"401"} :
             Answer(r, code) /\ (code = "503" => route(r) = "readyz")
      BY <2>6, CodesOfHandlers DEF Codes, AnswerLocally, Reject, UpstreamFails, Ready
    <3>2. status'[r] = code
      BY <2>1, <3>1 DEF Answer, TypeOK
    <3>3. QED
      BY <2>4, <3>1, <3>2 DEF BlamesTruly
  <2>7. CASE RelayHead(r)
    BY <2>1, <2>4, <2>7 DEF RelayHead, TypeOK, BlamesTruly
  <2>8. CASE \/ \E q \in Inbound : Receive(r, q)
             \/ Enter(r) \/ AuthenticateAnonymous(r) \/ Validate(r) \/ ExchangeAnswers(r)
             \/ ReadBody(r) \/ Forward(r) \/ RelayBody(r) \/ BodyBreaks(r) \/ ClientMoves(r)
    BY <1>1, <2>4, <2>8
    DEF Receive, Enter, AuthenticateAnonymous, Validate, ExchangeAnswers, Project, ReadBody,
        Forward, RelayBody, BodyBreaks, EndCopy, ClientMoves, ClientStalls, ClientResumes,
        ClientLeaves, ClientTurns, response
  <2>9. QED
    BY <2>3, <2>5, <2>6, <2>7, <2>8 DEF StepOf
<1>2. Inv /\ [Next]_vars =>
         [\A r \in Request : status'[r] # status[r] => BlamesTruly(r)]_vars
  BY <1>1
<1>3. QED
  BY <1>2, Invariance, PTL DEF Spec, BlameIsRight

\* The trace goes wherever the identity goes.
THEOREM TracesJoined == Spec => []TraceJoined
<1>1. Inv => TraceJoined
  <2>1. Nothing.auth = None
    BY DEF Nothing
  <2>2. QED
    BY <2>1 DEF Inv, Sound, HopKnows, Vouched, TraceJoined
<1>2. QED
  BY <1>1, Invariance, PTL
===============================================================================
