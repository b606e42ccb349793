------------------------------ MODULE AccessProofs ------------------------------
(***************************************************************************)
(* Gateway implements Access: proofs for any number of requests, any       *)
(* tokens, users, configurations and inbound headers.                      *)
(***************************************************************************)
EXTENDS GatewayProofs

\* From the moment an upstream is asked until the response is over, there is a hop.
Asked ==
    \A r \in Request :
        step[r] \in {"sent", "copy"} =>
            hop[r] # None /\ route(r) \notin {"healthz", "agent.json"}
-------------------------------------------------------------------------------
(* The invariant.                                                             *)

LEMMA HopThere ==
    ASSUME TypeOK, NEW r \in Request, Forward(r)
    PROVE  /\ hop'[r] = [target |-> Target(r), header |-> Outbound(r)]
           /\ hop'[r] # None
<1>1. hop'[r] = [target |-> Target(r), header |-> Outbound(r)]
  BY DEF Forward, TypeOK
<1>2. Target(r) \in {"agent", "platform"} /\ Outbound(r) \in Headers
  BY OutboundHeader DEF Target
<1>3. [target |-> Target(r), header |-> Outbound(r)]
         \in [target : {"agent", "platform"}, header : Headers]
  BY <1>2
<1>4. QED
  BY <1>1, <1>3, ValueAssumption

LEMMA NextKeepsAsked == Inv /\ Asked /\ [Next]_vars => Asked'
<1> SUFFICES ASSUME Inv, Asked, [Next]_vars, NEW p \in Request,
                    step'[p] \in {"sent", "copy"}
             PROVE  hop'[p] # None /\ route(p)' \notin {"healthz", "agent.json"}
  BY DEF Asked
<1>1. TypeOK
  BY DEF Inv
<1>2. ASSUME step'[p] = step[p], inbound'[p] = inbound[p], hop'[p] = hop[p]
      PROVE  hop'[p] # None /\ route(p)' \notin {"healthz", "agent.json"}
  BY <1>2 DEF Asked, route
<1>3. CASE KeysFetched \/ UNCHANGED vars
  BY <1>2, <1>3 DEF KeysFetched, vars, world
<1>4. ASSUME NEW r \in Request, StepOf(r)
      PROVE  hop'[p] # None /\ route(p)' \notin {"healthz", "agent.json"}
  <2>1. CASE p # r
    <3>1. step'[p] = step[p] /\ inbound'[p] = inbound[p] /\ hop'[p] = hop[p]
      BY <1>1, <1>4, <2>1, OthersUntouched
    <3>2. QED
      BY <1>2, <3>1
  <2>2. CASE p = r
    <3>1. CASE Forward(r)
      BY <1>1, <2>2, <3>1, HopThere DEF Forward, route
    <3>2. CASE RelayHead(r)
      BY <1>1, <2>2, <3>2 DEF RelayHead, route, TypeOK, Asked
    <3>3. CASE ClientMoves(r)
      BY <1>2, <2>2, <3>3 DEF ClientMoves, ClientStalls, ClientResumes, ClientLeaves, ClientTurns
    <3>4. CASE ~(Forward(r) \/ RelayHead(r) \/ ClientMoves(r))
      <4>1. step'[r] \in {"enter", "handle", "body", "auth", "swap", "done"}
        BY <1>1, <1>4, <3>4 DEF StepOf, TypeOK, Receive, Enter, AuthenticateAnonymous,
           AuthenticateProxy, BearerMissing, KeysUnavailable, TokenInvalid, Validate,
           ExchangeAnswers, ExchangeFails, AnswerLocally, ReadBody, Reject, UpstreamFails, Ready,
           RelayBody, BodyBreaks, Project, Answer, EndCopy
      <4>2. QED
        BY <2>2, <4>1
    <3>5. QED
      BY <3>1, <3>2, <3>3, <3>4
  <2>3. QED
    BY <2>1, <2>2
<1>5. QED
  BY <1>3, <1>4, NextSteps

LEMMA AskedHolds == Spec => []Asked
<1>1. Init => Asked
  BY DEF Init, Asked
<1>2. QED
  BY <1>1, NextKeepsAsked, Invariance, PTL DEF Spec
-------------------------------------------------------------------------------
(* The refinement.                                                            *)

\* What Access sees of a request that has been received.
LEMMA Seen ==
    ASSUME TypeOK, NEW r \in Request, step[r] # "idle"
    PROVE  /\ queryMapping[r] = inbound[r] /\ queryMapping[r] # None
           /\ Promise!Credentialed(r) <=> Credentialed(r)
           /\ Promise!Keyless(r) <=> Keyless(r)
           /\ Promise!Admitted(r) <=> route(r) \notin Exempt /\ Credentialed(r)
<1>1. queryMapping[r] = inbound[r]
  BY DEF queryMapping
<1>2. inbound[r] \in [route : Routes, header : Headers]
  BY DEF TypeOK
<1>3. Promise!Credentialed(r) <=> Credentialed(r)
  BY <1>1 DEF Promise!Credentialed, Credentialed
<1>4. Promise!Keyless(r) <=> Keyless(r)
  BY <1>1 DEF Promise!Keyless, Keyless
<1>5. QED
  BY <1>1, <1>2, <1>3, <1>4, ValueAssumption DEF Promise!Admitted, route

\* A step of a request that has been received changes nothing of what was received.
LEMMA QueryStays ==
    ASSUME TypeOK, NEW r \in Request, step[r] # "idle", inbound' = inbound,
           NEW s, s # "idle", step' = [step EXCEPT ![r] = s]
    PROVE  queryMapping' = queryMapping
<1>1. \A p \in Request : step'[p] = "idle" <=> step[p] = "idle"
  BY DEF TypeOK
<1>2. QED
  BY <1>1 DEF queryMapping

\* An answer of the gateway's own is a reply, if it is justified.
LEMMA Replies ==
    ASSUME TypeOK, NEW r \in Request, NEW code, Answer(r, code),
           step[r] # "idle", status[r] = "none", Promise!Justified(r, code)
    PROVE  Promise!Reply(r)
<1>1. queryMapping' = queryMapping
  BY QueryStays DEF Answer
<1>2. status' = [status EXCEPT ![r] = code] /\ status'[r] = code
  BY DEF Answer, TypeOK
<1>3. queryMapping[r] # None
  BY Seen
<1>4. QED
  BY <1>1, <1>2, <1>3 DEF Promise!Reply, Answer, world

LEMMA InitAccess == Init => Promise!Init
BY DEF Init, Promise!Init, queryMapping

LEMMA ReceiveArrives ==
    ASSUME TypeOK, NEW r \in Request, NEW q \in Inbound, Receive(r, q)
    PROVE  Promise!Arrive(r)
<1>1. queryMapping[r] = None /\ queryMapping' = [queryMapping EXCEPT ![r] = q]
  BY DEF Receive, TypeOK, queryMapping
<1>2. QED
  BY <1>1 DEF Promise!Arrive, Receive, world, response

\* Headers that are vouched for by the middleware are what Access promises.
LEMMA VouchedVouches ==
    ASSUME TypeOK, NEW r \in Request, step[r] # "idle", NEW h, Vouched(r, h)
    PROVE  Promise!Vouches(r, h)
<1>1. queryMapping[r] = inbound[r]
  BY Seen
<1>2. QED
  BY <1>1 DEF Vouched, Caller, Promise!Vouches

LEMMA ForwardAsks ==
    ASSUME Inv, NEW r \in Request, Forward(r)
    PROVE  Promise!Ask(r)
<1>1. /\ TypeOK /\ step[r] \in {"handle", "body"}
      /\ route(r) \in Routes \ {"healthz", "agent.json"}
      /\ hop[r] = None /\ status[r] = "none"
      /\ route(r) \notin Exempt => Credentialed(r) /\ Vouched(r, header[r])
  BY DEF Inv, TypeOK, route, Forward, Unheld, Sound, HopKnows, AnswerKnows, StageKnows
<1>2. /\ queryMapping[r] = inbound[r] /\ queryMapping[r] # None
      /\ Promise!Admitted(r) <=> route(r) \notin Exempt /\ Credentialed(r)
  BY <1>1, Seen
<1>3. queryMapping' = queryMapping /\ cfg' = cfg /\ jwks' = jwks /\ status' = status
  BY <1>1, QueryStays DEF Forward, world, response
<1>4. /\ hop' = [hop EXCEPT ![r] = hop'[r]] /\ hop'[r] # None
      /\ hop'[r].target = Target(r) /\ hop'[r].header = Outbound(r)
  <2>1. hop'[r] = [target |-> Target(r), header |-> Outbound(r)] /\ hop'[r] # None
    BY <1>1, HopThere
  <2>2. hop' = [hop EXCEPT ![r] = hop'[r]]
    BY <2>1 DEF Forward
  <2>3. QED
    BY <2>1, <2>2
<1>5. queryMapping[r].route = "readyz" \/ Promise!Admitted(r)
  BY <1>1, <1>2 DEF Exempt, route
<1>6. hop'[r].target = IF queryMapping[r].route \in cfg.platform THEN "platform" ELSE "agent"
  BY <1>2, <1>4 DEF Target, route
<1>7. CASE route(r) \in {"readyz", "agent-info"}
  <2>1. Outbound(r) = Nothing
    BY <1>1, <1>7, OutboundHeader DEF Selecting, Reversing
  <2>2. hop'[r].header = Nothing /\ queryMapping[r].route \in {"readyz", "agent-info"}
    BY <1>2, <1>4, <1>7, <2>1 DEF route
  <2>3. QED
    BY <1>1, <1>2, <1>3, <1>4, <1>5, <1>6, <2>2 DEF Promise!Ask
<1>8. CASE route(r) \notin {"readyz", "agent-info"}
  <2>1. route(r) \in Selecting \cup Reversing /\ route(r) \notin Exempt
    BY <1>1, <1>8 DEF Routes, Selecting, Reversing, Exempt
  <2>2. Vouched(r, Outbound(r))
    BY <1>1, <2>1, OutboundHeader DEF Vouched
  <2>3. Promise!Vouches(r, hop'[r].header)
    BY <1>1, <1>4, <2>2, VouchedVouches
  <2>4. queryMapping[r].route \notin {"readyz", "agent-info"}
    BY <1>2, <1>8 DEF route
  <2>5. QED
    BY <1>1, <1>2, <1>3, <1>4, <1>5, <1>6, <2>3, <2>4 DEF Promise!Ask
<1>9. QED
  BY <1>7, <1>8

\* The middleware's own answers: nobody has been asked, and the fault is where they say.
LEMMA MiddlewareReplies ==
    ASSUME Inv, NEW r \in Request,
           \/ AuthenticateProxy(r) /\ Answer(r, "503")
           \/ BearerMissing(r) \/ KeysUnavailable(r) \/ TokenInvalid(r) \/ ExchangeFails(r)
    PROVE  Promise!Reply(r)
<1>1. TypeOK /\ Sound(r) /\ step[r] \in {"auth", "swap"}
  BY DEF Inv, AuthenticateProxy, BearerMissing, KeysUnavailable, TokenInvalid, ExchangeFails
<1>2. /\ hop[r] = None /\ status[r] = "none" /\ route(r) \notin Exempt
      /\ header[r].authorization = inbound[r].header.authorization
      /\ header[r].forwardedUser = inbound[r].header.forwardedUser
  BY <1>1 DEF Sound, HopKnows, AnswerKnows, StageKnows, Stripped
<1>3. /\ queryMapping[r] = inbound[r]
      /\ Promise!Credentialed(r) <=> Credentialed(r)
      /\ Promise!Keyless(r) <=> Keyless(r)
      /\ queryMapping[r].route \notin Exempt
  BY <1>1, <1>2, Seen DEF route
<1>4. CASE BearerMissing(r) \/ TokenInvalid(r)
  <2>1. cfg.mode = "jwt" /\ ~Credentialed(r) /\ Answer(r, "401")
    BY <1>2, <1>4 DEF BearerMissing, TokenInvalid, Credentialed
  <2>2. Promise!Justified(r, "401")
    BY <1>2, <1>3, <2>1 DEF Promise!Justified
  <2>3. QED
    BY <1>1, <1>2, <2>1, <2>2, Replies
<1>5. ASSUME Answer(r, "503"),
             \/ cfg.mode = "proxy" /\ ~Credentialed(r)
             \/ Keyless(r) /\ cfg.worded
             \/ cfg.mode = "jwt" /\ cfg.exchange /\ Credentialed(r)
      PROVE  Promise!Reply(r)
  <2>1. Promise!Justified(r, "503")
    BY <1>2, <1>3, <1>5 DEF Promise!Justified
  <2>2. QED
    BY <1>1, <1>2, <1>5, <2>1, Replies
<1>6. CASE AuthenticateProxy(r) /\ Answer(r, "503")
  <2>1. cfg.mode = "proxy"
    BY <1>6 DEF AuthenticateProxy
  <2>2. step'[r] = "done"
    BY <1>1, <1>6 DEF Answer, TypeOK
  <2>3. header[r].forwardedUser = None
    BY <1>1, <1>6, <2>2 DEF AuthenticateProxy, Project, TypeOK
  <2>4. QED
    BY <1>2, <1>5, <1>6, <2>1, <2>3 DEF Credentialed
<1>7. CASE KeysUnavailable(r)
  <2>1. Keyless(r) /\ cfg.mode = "jwt"
    BY <1>2, <1>7 DEF KeysUnavailable, Keyless
  <2>2. CASE cfg.worded
    BY <1>5, <1>7, <2>1, <2>2 DEF KeysUnavailable
  <2>3. CASE ~cfg.worded
    <3>1. Answer(r, "401")
      BY <1>7, <2>3 DEF KeysUnavailable
    <3>2. Promise!Justified(r, "401")
      BY <1>2, <1>3, <2>1, <2>3 DEF Promise!Justified
    <3>3. QED
      BY <1>1, <1>2, <3>1, <3>2, Replies
  <2>4. QED
    BY <2>2, <2>3
<1>8. CASE ExchangeFails(r)
  <2>1. cfg.mode = "jwt" /\ cfg.exchange /\ call[r] = "pending"
    BY <1>1, <1>8 DEF ExchangeFails, Sound, StageKnows
  <2>2. Credentialed(r)
    BY <1>1, <2>1 DEF Sound, ExchangeKnows
  <2>3. QED
    BY <1>5, <1>8, <2>1, <2>2 DEF ExchangeFails
<1>9. QED
  BY <1>4, <1>6, <1>7, <1>8

\* The handlers' own answers, before they have asked an upstream and after.
LEMMA HandlerReplies ==
    ASSUME Inv, Asked, NEW r \in Request,
           AnswerLocally(r) \/ Reject(r) \/ UpstreamFails(r) \/ Ready(r)
    PROVE  Promise!Reply(r)
<1>1. TypeOK /\ Sound(r) /\ step[r] \in {"handle", "body", "sent"}
  BY DEF Inv, AnswerLocally, Reject, Unheld, UpstreamFails, Ready
<1>2. /\ status[r] = "none"
      /\ step[r] \in {"handle", "body"} /\ route(r) \notin Exempt => Credentialed(r)
      /\ step[r] = "body" => route(r) \in Selecting
      /\ step[r] = "sent" => hop[r] # None /\ route(r) \notin {"healthz", "agent.json"}
      /\ hop[r] # None /\ route(r) # "readyz" => Credentialed(r)
  BY <1>1 DEF Sound, HopKnows, AnswerKnows, StageKnows, Asked
<1>3. /\ queryMapping[r].route = route(r)
      /\ Promise!Admitted(r) <=> route(r) \notin Exempt /\ Credentialed(r)
  BY <1>1, Seen DEF route
<1>4. ASSUME NEW code, Answer(r, code), Promise!Justified(r, code) PROVE Promise!Reply(r)
  BY <1>1, <1>2, <1>4, Replies
<1>5. CASE AnswerLocally(r)
  <2>1. Promise!Justified(r, "200")
    BY <1>3, <1>5 DEF AnswerLocally, Promise!Justified, Exempt
  <2>2. QED
    BY <1>4, <1>5, <2>1 DEF AnswerLocally
<1>6. CASE Ready(r)
  <2>1. Promise!Justified(r, "200")
    BY <1>2, <1>3, <1>6 DEF Ready, Promise!Justified, Exempt
  <2>2. QED
    BY <1>4, <1>6, <2>1 DEF Ready
<1>7. CASE Reject(r)
  <2>1. PICK code \in Rejections(r) : Answer(r, code)
    BY <1>7 DEF Reject
  <2>2. \/ code = "503" /\ route(r) = "readyz"
        \/ /\ code \in {"400", "405", "413", "415", "500", "502"}
           /\ route(r) \notin Exempt
    <3>1. CASE step[r] = "handle"
      BY <2>1, <3>1 DEF Rejections, Exempt
    <3>2. CASE step[r] = "body"
      BY <1>2, <2>1, <3>2 DEF Rejections, Exempt, Selecting
    <3>3. QED
      BY <1>7, <3>1, <3>2 DEF Reject, Unheld
  <2>3. step[r] \in {"handle", "body"}
    BY <1>7 DEF Reject, Unheld
  <2>4. Promise!Justified(r, code)
    BY <1>2, <1>3, <2>2, <2>3 DEF Promise!Justified
  <2>5. QED
    BY <1>4, <2>1, <2>4
<1>8. CASE UpstreamFails(r)
  <2>1. PICK code \in Failures(r) : Answer(r, code)
    BY <1>8 DEF UpstreamFails
  <2>2. step[r] = "sent"
    BY <1>8 DEF UpstreamFails
  <2>3. \/ code = "503" /\ route(r) = "readyz"
        \/ code \in {"413", "415", "502", "504"} /\ route(r) \notin Exempt
    BY <1>2, <2>1, <2>2 DEF Failures, Exempt
  <2>4. Promise!Justified(r, code)
    BY <1>2, <1>3, <2>2, <2>3 DEF Promise!Justified, Exempt
  <2>5. QED
    BY <1>4, <2>1, <2>4
<1>9. QED
  BY <1>5, <1>6, <1>7, <1>8

LEMMA HeadReplies ==
    ASSUME Inv, Asked, NEW r \in Request, RelayHead(r)
    PROVE  Promise!Reply(r)
<1>1. /\ TypeOK /\ step[r] = "sent" /\ route(r) # "readyz" /\ hop[r] # None
      /\ status[r] = "none"
  BY DEF Inv, RelayHead, Asked, Sound, AnswerKnows
<1>2. queryMapping[r].route = route(r) /\ queryMapping[r] # None
  BY <1>1, Seen DEF route
<1>3. queryMapping' = queryMapping
  BY <1>1, QueryStays DEF RelayHead
<1>4. status' = [status EXCEPT ![r] = "backend"] /\ status'[r] = "backend"
  BY <1>1 DEF RelayHead, TypeOK
<1>5. Promise!Justified(r, "backend")
  BY <1>1, <1>2 DEF Promise!Justified
<1>6. QED
  BY <1>1, <1>2, <1>3, <1>4, <1>5 DEF Promise!Reply, RelayHead, world

\* Authentication, the reading and copying of bodies and what becomes of a client do not
\* show.
LEMMA Stutters ==
    ASSUME TypeOK, NEW r \in Request,
           \/ Enter(r) \/ AuthenticateAnonymous(r) \/ Validate(r) \/ ExchangeAnswers(r)
           \/ AuthenticateProxy(r) /\ ~Answer(r, "503")
           \/ ReadBody(r) \/ RelayBody(r) \/ BodyBreaks(r) \/ ClientMoves(r)
    PROVE  UNCHANGED Promise!vars
<1> USE DEF ClientMoves, ClientStalls, ClientResumes, ClientLeaves, ClientTurns
<1>1. cfg' = cfg /\ jwks' = jwks /\ inbound' = inbound /\ hop' = hop /\ status' = status
  BY DEF Enter, AuthenticateAnonymous, Validate, ExchangeAnswers, AuthenticateProxy,
     ReadBody, RelayBody, BodyBreaks, Project, EndCopy, world, response
<1>2. CASE ClientMoves(r)
  BY <1>1, <1>2 DEF queryMapping, Promise!vars
<1>3. CASE ~ClientMoves(r)
  <2>1. step[r] # "idle" /\ \E s : s # "idle" /\ step' = [step EXCEPT ![r] = s]
    <3>1. CASE Enter(r)
      BY <3>1 DEF Enter
    <3>2. CASE AuthenticateAnonymous(r) \/ AuthenticateProxy(r) \/ ExchangeAnswers(r)
      BY <3>2 DEF AuthenticateAnonymous, AuthenticateProxy, ExchangeAnswers, Project, Answer
    <3>3. CASE Validate(r)
      BY <3>3 DEF Validate, Project
    <3>4. CASE ReadBody(r) \/ RelayBody(r) \/ BodyBreaks(r)
      BY <3>4 DEF ReadBody, RelayBody, BodyBreaks, EndCopy
    <3>5. QED
      BY <1>3, <3>1, <3>2, <3>3, <3>4
  <2>2. queryMapping' = queryMapping
    BY <1>1, <2>1, QueryStays
  <2>3. QED
    BY <1>1, <2>2 DEF Promise!vars
<1>4. QED
  BY <1>2, <1>3

LEMMA NextAccess == Inv /\ Asked /\ [Next]_vars => [Promise!Next]_(Promise!vars)
<1> SUFFICES ASSUME Inv, Asked, [Next]_vars PROVE [Promise!Next]_(Promise!vars)
  OBVIOUS
<1>1. TypeOK
  BY DEF Inv
<1>2. CASE KeysFetched \/ UNCHANGED vars
  <2>1. /\ cfg' = cfg /\ step' = step /\ inbound' = inbound /\ hop' = hop /\ status' = status
        /\ (jwks = "cold" /\ jwks' = "warm") \/ jwks' = jwks
    BY <1>2 DEF KeysFetched, vars, world, response
  <2>2. queryMapping' = queryMapping
    BY <2>1 DEF queryMapping
  <2>3. QED
    BY <2>1, <2>2 DEF Promise!Next, Promise!KeysCome, Promise!vars
<1>3. ASSUME NEW r \in Request, StepOf(r)
      PROVE  Promise!Next \/ UNCHANGED Promise!vars
  <2>1. CASE \E q \in Inbound : Receive(r, q)
    BY <1>1, <2>1, ReceiveArrives DEF Promise!Next
  <2>2. CASE Forward(r)
    BY <2>2, ForwardAsks DEF Promise!Next
  <2>3. CASE \/ AuthenticateProxy(r) /\ Answer(r, "503")
             \/ BearerMissing(r) \/ KeysUnavailable(r) \/ TokenInvalid(r) \/ ExchangeFails(r)
    BY <2>3, MiddlewareReplies DEF Promise!Next
  <2>4. CASE AnswerLocally(r) \/ Reject(r) \/ UpstreamFails(r) \/ Ready(r)
    BY <2>4, HandlerReplies DEF Promise!Next
  <2>5. CASE RelayHead(r)
    BY <2>5, HeadReplies DEF Promise!Next
  <2>6. CASE \/ Enter(r) \/ AuthenticateAnonymous(r) \/ Validate(r) \/ ExchangeAnswers(r)
             \/ AuthenticateProxy(r) /\ ~Answer(r, "503")
             \/ ReadBody(r) \/ RelayBody(r) \/ BodyBreaks(r) \/ ClientMoves(r)
    BY <1>1, <2>6, Stutters
  <2>7. QED
    BY <1>3, <2>1, <2>2, <2>3, <2>4, <2>5, <2>6 DEF StepOf
<1>4. QED
  BY <1>2, <1>3, NextSteps

\* The gateway implements Access: with respect to requests, hops and answers, every
\* behaviour of middleware, key cache, exchange and handlers is one that Access allows.
THEOREM ImplementsAccess == Spec => AccessSpec
<1>1. Spec => Promise!Spec
  BY InitAccess, NextAccess, Invariance, AskedHolds, PTL DEF Spec, Promise!Spec
<1>2. QED
  BY <1>1 DEF AccessSpec
-------------------------------------------------------------------------------
(* The gateway's use of the exchanger.                                        *)

\* Only the middleware's jwt branch touches the exchange.
LEMMA SwapStays ==
    ASSUME NEW r \in Request, StepOf(r),
           ~(Validate(r) \/ ExchangeAnswers(r) \/ ExchangeFails(r))
    PROVE  UNCHANGED Swap!vars
BY DEF StepOf, Receive, Enter, AuthenticateAnonymous, AuthenticateProxy, BearerMissing,
   KeysUnavailable, TokenInvalid, AnswerLocally, ReadBody, Reject, Forward, UpstreamFails, Ready,
   RelayHead, RelayBody, BodyBreaks, EndCopy, ClientMoves, ClientStalls, ClientResumes,
   ClientLeaves, ClientTurns, swap, Swap!vars

LEMMA NextSwap == Inv /\ [Next]_vars => [Swap!Next]_(Swap!vars)
<1> SUFFICES ASSUME Inv, [Next]_vars PROVE Swap!Next \/ UNCHANGED Swap!vars
  OBVIOUS
<1>1. TypeOK /\ call \in [Request -> {"idle", "pending", "minted", "done", "failed"}]
             /\ result \in [Request -> Swapped \cup {None}]
  BY SwapTyped DEF Inv, TypeOK
<1>2. CASE KeysFetched \/ UNCHANGED vars
  BY <1>2 DEF KeysFetched, vars, swap, Swap!vars
<1>3. ASSUME NEW r \in Request, StepOf(r)
      PROVE  Swap!Next \/ UNCHANGED Swap!vars
  <2>1. CASE Validate(r)
    BY <2>1 DEF Validate, swap, Swap!vars, Swap!Next
  <2>2. CASE ExchangeAnswers(r)
    BY <2>2 DEF ExchangeAnswers, Swap!Next
  <2>3. CASE ExchangeFails(r)
    BY <2>3 DEF ExchangeFails, Swap!Next
  <2>4. QED
    BY <1>3, <2>1, <2>2, <2>3, SwapStays
<1>4. QED
  BY <1>2, <1>3, NextSteps

\* The middleware drives the exchanger as TokenSwap allows, one call of a request at a
\* time: with ImplementsPlainSwap of TokenExchangerProofs, both sides keep to it.
THEOREM DrivesTokenSwap == Spec => Swap!Spec
<1>1. Init => Swap!Init
  BY DEF Init
<1>2. QED
  BY <1>1, NextSwap, Invariance, PTL DEF Spec, Swap!Spec
-------------------------------------------------------------------------------
(* How far two violations reach.                                              *)

\* Hop-by-hop headers go beyond their hop, and a broken body ends its response with the
\* client's connection, only where the reverse proxy is at work.
Reach(r) ==
    /\ hop[r] # None /\ hop[r].header.hopByHop => route(r) \in Reversing
    /\ step[r] # "done" => copied[r] = "none" /\ ended[r] = "open"
    /\ step[r] = "copy" => status[r] = "backend"
    /\ status[r] = "backend" /\ step[r] = "done" =>
          \/ copied[r] = "whole" /\ ended[r] = "complete"
          \/ copied[r] = "part"
             /\ ended[r] = IF route(r) \in Reversing THEN "aborted" ELSE "complete"

LEMMA OutboundHops ==
    ASSUME NEW r \in Request, Outbound(r).hopByHop PROVE route(r) \in Reversing
<1>1. ~Nothing.hopByHop
  BY DEF Nothing
<1>2. ~[Nothing EXCEPT !.auth = header[r].auth,
                       !.authorization = header[r].authorization,
                       !.trace = header[r].trace].hopByHop
  BY DEF Nothing
<1>3. QED
  BY <1>1, <1>2 DEF Outbound

LEMMA ReachOthers ==
    ASSUME TypeOK, NEW r \in Request, StepOf(r), NEW p \in Request \ {r}
    PROVE  copied'[p] = copied[p] /\ ended'[p] = ended[p]
<1> USE DEF response
<1>1. CASE \/ \E q \in Inbound : Receive(r, q)
           \/ Enter(r) \/ AuthenticateAnonymous(r) \/ Validate(r) \/ ExchangeAnswers(r)
           \/ ReadBody(r) \/ Forward(r) \/ RelayHead(r) \/ ClientMoves(r)
  BY <1>1 DEF Receive, Enter, AuthenticateAnonymous, Validate, ExchangeAnswers, ReadBody, Forward,
     RelayHead, ClientMoves, ClientStalls, ClientResumes, ClientLeaves, ClientTurns, Project
<1>2. CASE \/ AuthenticateProxy(r) \/ BearerMissing(r) \/ KeysUnavailable(r) \/ TokenInvalid(r)
           \/ ExchangeFails(r) \/ AnswerLocally(r) \/ Reject(r) \/ UpstreamFails(r) \/ Ready(r)
  BY <1>2 DEF AuthenticateProxy, BearerMissing, KeysUnavailable, TokenInvalid, ExchangeFails,
     AnswerLocally, Reject, UpstreamFails, Ready, Project, Answer, TypeOK
<1>3. CASE RelayBody(r) \/ BodyBreaks(r)
  BY <1>3 DEF RelayBody, BodyBreaks, EndCopy, TypeOK
<1>4. QED
  BY <1>1, <1>2, <1>3 DEF StepOf

LEMMA ReachStep ==
    ASSUME Inv, NEW r \in Request, StepOf(r), Reach(r)
    PROVE  Reach(r)'
<1>1. /\ TypeOK
      /\ status[r] # "none" => step[r] \in {"copy", "done"}
      /\ step[r] = "idle" => hop[r] = None
  BY DEF Inv, Sound, AnswerKnows, HopKnows
<1> USE DEF response, Reach, route
<1>2. CASE \E q \in Inbound : Receive(r, q)
  BY <1>1, <1>2 DEF Receive, TypeOK
<1>3. CASE Enter(r) \/ AuthenticateAnonymous(r) \/ Validate(r) \/ ExchangeAnswers(r)
           \/ ReadBody(r) \/ ClientMoves(r)
  BY <1>1, <1>3 DEF Enter, AuthenticateAnonymous, Validate, ExchangeAnswers, ReadBody,
     ClientMoves, ClientStalls, ClientResumes, ClientLeaves, ClientTurns, Project, TypeOK
<1>4. ASSUME NEW code \in Codes, Answer(r, code) PROVE Reach(r)'
  <2>1. /\ step'[r] = "done" /\ status'[r] = code /\ code # "backend"
        /\ hop' = hop /\ inbound' = inbound
    BY <1>1, <1>4 DEF Answer, TypeOK, Codes
  <2>2. QED
    BY <2>1
<1>5. CASE AuthenticateProxy(r)
  <2>1. CASE Answer(r, "503")
    BY <1>4, <2>1 DEF Codes
  <2>2. CASE ~Answer(r, "503")
    BY <1>1, <1>5, <2>2 DEF AuthenticateProxy, Project, TypeOK
  <2>3. QED
    BY <2>1, <2>2
<1>6. CASE \/ BearerMissing(r) \/ KeysUnavailable(r) \/ TokenInvalid(r)
           \/ ExchangeFails(r) \/ AnswerLocally(r) \/ Reject(r) \/ UpstreamFails(r) \/ Ready(r)
  <2>1. \E code \in Codes : Answer(r, code)
    BY <1>6, CodesOfHandlers DEF BearerMissing, KeysUnavailable, TokenInvalid, ExchangeFails,
       AnswerLocally, Reject, UpstreamFails, Ready, Codes
  <2>2. QED
    BY <1>4, <2>1
<1>7. CASE Forward(r)
  <2>1. hop'[r].header = Outbound(r)
    <3>1. hop'[r] = [target |-> Target(r), header |-> Outbound(r)]
      BY <1>1, <1>7, HopThere
    <3>2. QED
      BY <3>1
  <2>2. hop'[r].header.hopByHop => route(r) \in Reversing
    BY <2>1, OutboundHops
  <2>3. /\ step'[r] = "sent" /\ step[r] \in {"handle", "body"} /\ inbound' = inbound
        /\ UNCHANGED response
    BY <1>1, <1>7 DEF Forward, Unheld, TypeOK
  <2>4. QED
    BY <1>1, <2>2, <2>3
<1>8. CASE RelayHead(r)
  BY <1>1, <1>8 DEF RelayHead, TypeOK
<1>9. CASE RelayBody(r) \/ BodyBreaks(r)
  BY <1>1, <1>9 DEF RelayBody, BodyBreaks, EndCopy, TypeOK
<1>10. QED
  BY <1>2, <1>3, <1>5, <1>6, <1>7, <1>8, <1>9 DEF StepOf

LEMMA NextReach ==
    Inv /\ (\A r \in Request : Reach(r)) /\ [Next]_vars => (\A r \in Request : Reach(r))'
<1> SUFFICES ASSUME Inv, \A r \in Request : Reach(r), [Next]_vars, NEW p \in Request
             PROVE  Reach(p)'
  OBVIOUS
<1>1. ASSUME step'[p] = step[p], inbound'[p] = inbound[p], hop'[p] = hop[p],
             status'[p] = status[p], copied'[p] = copied[p], ended'[p] = ended[p]
      PROVE  Reach(p)'
  BY <1>1 DEF Reach, route
<1>2. CASE KeysFetched \/ UNCHANGED vars
  BY <1>1, <1>2 DEF KeysFetched, vars, response
<1>3. ASSUME NEW r \in Request, StepOf(r) PROVE Reach(p)'
  <2>1. CASE p = r
    BY <1>3, <2>1, ReachStep
  <2>2. CASE p # r
    <3>1. TypeOK
      BY DEF Inv
    <3>2. QED
      BY <1>1, <1>3, <2>2, <3>1, OthersUntouched, ReachOthers
  <2>3. QED
    BY <2>1, <2>2
<1>4. QED
  BY <1>2, <1>3, NextSteps

LEMMA ReachHolds == Spec => [](\A r \in Request : Reach(r))
<1>1. ASSUME Init PROVE \A r \in Request : Reach(r)
  <2>1. TAKE r \in Request
  <2>2. hop[r] = None /\ step[r] = "idle" /\ copied[r] = "none" /\ ended[r] = "open"
    BY <1>1 DEF Init
  <2>3. QED
    BY <2>2 DEF Reach
<1>2. QED
  BY <1>1, NextReach, Invariance, PTL DEF Spec

\* Hop-by-hop headers reach an upstream on the reverse proxy's routes and no other.
THEOREM HopByHopReach ==
    Spec => [](\A r \in Request :
                  hop[r] # None /\ hop[r].header.hopByHop => route(r) \in Reversing)
<1>1. (\A r \in Request : Reach(r)) =>
         \A r \in Request :
            hop[r] # None /\ hop[r].header.hopByHop => route(r) \in Reversing
  BY DEF Reach
<1>2. QED
  BY <1>1, ReachHolds, PTL

\* Behind the reverse proxy a response that ends as complete is whole: only the handlers
\* that copy bodies themselves end a part like a whole.
THEOREM FullResponseReach ==
    Spec => [](\A r \in Request :
                  status[r] = "backend" /\ ended[r] = "complete" /\ route(r) \in Reversing
                     => copied[r] = "whole")
<1>1. (\A r \in Request : Reach(r)) =>
         \A r \in Request :
            status[r] = "backend" /\ ended[r] = "complete" /\ route(r) \in Reversing
               => copied[r] = "whole"
  BY DEF Reach
<1>2. QED
  BY <1>1, ReachHolds, PTL
===============================================================================
