-------------------------------- MODULE Gateway --------------------------------
(***************************************************************************)
(* A request's way through the gateway: the authentication middleware with *)
(* its three strategies (internal/auth), the routes of cmd/server/main.go  *)
(* and what their handlers (internal/handler) send upstream and relay back.*)
(*                                                                         *)
(* Of the exchange of tokens only the promise of TokenSwap is used, which  *)
(* TokenExchanger implements; uploads and streams have modules of their    *)
(* own, here they are one response like any other.  Headers are grouped by *)
(* how the code treats them, tokens are opaque: `sub` says who a token     *)
(* that validates names.  keyfunc's cache of the JWKS is modelled from how *)
(* jwt.go uses it: cold until a fetch succeeds, then good for all lookups; *)
(* what its errors say while it is cold is a parameter, `worded`.  Nothing *)
(* makes a client send the rest of its body or read the response.          *)
(***************************************************************************)
EXTENDS Naturals

CONSTANTS Request,   \* the concurrent requests
          Bearer,    \* the bearer tokens clients hold
          sub,       \* sub[t]: the subject claim of t; None if t does not validate
          User,      \* the users named in claims and by the upstream proxy
          Configs,   \* the configurations: [mode, exchange, platform, worded]
          Inbound,   \* the requests' routes and headers as clients send them
          Spoofed,   \* what a client writes into X-Auth-* headers
          Opaque,    \* an Authorization header that is no bearer token
          None       \* the absent value

\* The routes by handler; "files" is the upload, "meta" every other /v1/files route.
Selecting == {"chat", "feedback", "files"}
Reversing == {"sessions", "usage", "traces", "meta"}
Exempt == {"healthz", "readyz", "agent.json"}
Routes == Selecting \cup Reversing \cup Exempt \cup {"agent-info"}

Identity == [mode : {"anonymous", "proxy", "jwt"}, subject : User \cup {"anonymous"}]

Swapped == [owner : Bearer, left : Nat]

\* A request's headers: X-Auth-*, Authorization, the upstream proxy's user header,
\* Traceparent, the hop-by-hop headers and all the rest.
Headers == [auth : Identity \cup {None, Spoofed},
            authorization : Bearer \cup Swapped \cup {None, Opaque},
            forwardedUser : User \cup {None},
            trace : BOOLEAN, hopByHop : BOOLEAN, other : BOOLEAN]

ASSUME GatewayAssumption ==
    /\ sub \in [Bearer -> User \cup {None}]
    /\ Configs \subseteq [mode : {"anonymous", "proxy", "jwt"}, exchange : BOOLEAN,
                          platform : SUBSET {"feedback", "sessions", "traces"},
                          worded : BOOLEAN]
    /\ Inbound \subseteq [route : Routes, header : Headers]
    /\ \A q \in Inbound : /\ q.header.auth \in {None, Spoofed}
                          /\ q.header.authorization \in Bearer \cup {None, Opaque}

ASSUME ValueAssumption ==
    /\ None \notin Identity /\ None \notin Swapped /\ None \notin Bearer /\ None \notin User
    /\ None \notin [route : Routes, header : Headers]
    /\ None \notin [target : {"agent", "platform"}, header : Headers]
    /\ Spoofed \notin Identity /\ Spoofed # None
    /\ Opaque \notin Bearer /\ Opaque \notin Swapped /\ Opaque # None
    /\ Bearer \cap Swapped = {}

\* The statuses of the gateway's own answers.
Codes == {"200", "400", "401", "405", "413", "415", "500", "502", "503", "504"}

VARIABLES cfg,      \* the configuration
          jwks,     \* keyfunc's key cache: "cold" or "warm"
          step,     \* step[r]: where r is
          inbound,  \* inbound[r]: r as its client sent it
          header,   \* header[r]: r.Header, which the middleware rewrites in place
          hop,      \* hop[r]: the upstream request: [target, header], or None
          status,   \* status[r]: the answer's status; "backend" for the upstream's
          copied,   \* copied[r]: the upstream's body: "none", "part" or "whole"
          ended,    \* ended[r]: how the response ends: "open", "complete", "aborted"
          client,   \* client[r]: r's client: "lively", "stalled" or "gone"
          call, subject, result    \* the token exchanges, as TokenSwap has them

swap == <<call, subject, result>>
response == <<status, copied, ended>>
world == <<cfg, jwks>>

vars == <<world, step, inbound, header, hop, response, client, swap>>

\* The exchanger, by what it promises.
Swap == INSTANCE TokenSwap WITH Subject <- Bearer, Slack <- 0

Nothing == [auth |-> None, authorization |-> None, forwardedUser |-> None,
            trace |-> FALSE, hopByHop |-> FALSE, other |-> FALSE]

Init ==
    /\ cfg \in Configs
    /\ jwks = "cold"
    /\ step = [r \in Request |-> "idle"]
    /\ inbound = [r \in Request |-> [route |-> "healthz", header |-> Nothing]]
    /\ header = [r \in Request |-> Nothing]
    /\ hop = [r \in Request |-> None]
    /\ status = [r \in Request |-> "none"]
    /\ copied = [r \in Request |-> "none"]
    /\ ended = [r \in Request |-> "open"]
    /\ client = [r \in Request |-> "lively"]
    /\ Swap!Init

route(r) == inbound[r].route

-------------------------------------------------------------------------------
(* The middleware.                                                            *)

Receive(r, q) ==
    /\ step[r] = "idle"
    /\ step' = [step EXCEPT ![r] = "enter"]
    /\ inbound' = [inbound EXCEPT ![r] = q]
    /\ header' = [header EXCEPT ![r] = q.header]
    /\ UNCHANGED <<world, hop, response, client, swap>>

stripCanonicalHeaders(h) == [h EXCEPT !.auth = None]

\* Every request loses its X-Auth-* headers; probes and agent card skip the strategy.
Enter(r) ==
    /\ step[r] = "enter"
    /\ header' = [header EXCEPT ![r] = stripCanonicalHeaders(@)]
    /\ step' = [step EXCEPT ![r] = IF route(r) \in Exempt THEN "handle" ELSE "auth"]
    /\ UNCHANGED <<world, inbound, hop, response, client, swap>>

\* An answer of the gateway's own, complete as it stands.
Answer(r, code) ==
    /\ step' = [step EXCEPT ![r] = "done"]
    /\ status' = [status EXCEPT ![r] = code]
    /\ ended' = [ended EXCEPT ![r] = "complete"]
    /\ UNCHANGED <<world, inbound, header, hop, copied, client>>

\* Mutant: Authorization is replaced if there is a token of one's own, but not removed.
Project_KeepBearer(r, identity, bearer) ==
    /\ header' = [header EXCEPT ![r] =
                     [@ EXCEPT !.auth = identity,
                               !.authorization = IF bearer = None THEN @ ELSE bearer]]
    /\ step' = [step EXCEPT ![r] = "handle"]
    /\ UNCHANGED <<world, inbound, hop, response, client>>

\* setCanonicalHeaders and projectAuthorization: who the request is from, and the
\* bearer token of the gateway's own making, if there is one, in place of the client's.
Project(r, identity, bearer) ==
    /\ header' = [header EXCEPT ![r] = [@ EXCEPT !.auth = identity, !.authorization = bearer]]
    /\ step' = [step EXCEPT ![r] = "handle"]
    /\ UNCHANGED <<world, inbound, hop, response, client>>

AuthenticateAnonymous(r) ==
    /\ step[r] = "auth" /\ cfg.mode = "anonymous"
    /\ Project(r, [mode |-> "anonymous", subject |-> "anonymous"], None)
    /\ UNCHANGED swap

\* Mutant: a missing user header makes an identity without a subject.
AuthenticateProxy_Open(r) ==
    /\ step[r] = "auth" /\ cfg.mode = "proxy"
    /\ Project(r, [mode |-> "proxy", subject |-> header[r].forwardedUser], None)
    /\ UNCHANGED swap

\* ProxyAuth trusts the upstream's user header; without one it fails closed.
AuthenticateProxy(r) ==
    /\ step[r] = "auth" /\ cfg.mode = "proxy"
    /\ LET user == header[r].forwardedUser
       IN  IF user = None THEN Answer(r, "503")
           ELSE Project(r, [mode |-> "proxy", subject |-> user], None)
    /\ UNCHANGED swap

\* JWTAuth finds no bearer token in the request.
BearerMissing(r) ==
    /\ step[r] = "auth" /\ cfg.mode = "jwt" /\ header[r].authorization \notin Bearer
    /\ Answer(r, "401")
    /\ UNCHANGED swap

\* Mutant: a key that a filled cache does not have counts as unavailable, too.
KeysUnavailable_Warm(r) ==
    /\ step[r] = "auth" /\ cfg.mode = "jwt" /\ header[r].authorization \in Bearer
    /\ jwks = "cold" \/ sub[header[r].authorization] = None
    /\ Answer(r, IF cfg.worded THEN "503" ELSE "401")
    /\ UNCHANGED swap

\* keyfunc has no keys at all: isJWKSColdCacheError tells that from a bad token if the
\* error is worded as it expects.
KeysUnavailable(r) ==
    /\ step[r] = "auth" /\ cfg.mode = "jwt" /\ header[r].authorization \in Bearer
    /\ jwks = "cold"
    /\ Answer(r, IF cfg.worded THEN "503" ELSE "401")
    /\ UNCHANGED swap

\* The token does not validate.  A malformed one needs no key to be rejected, one that
\* names a key not in a filled cache is as bad as any other.
TokenInvalid(r) ==
    /\ step[r] = "auth" /\ cfg.mode = "jwt" /\ header[r].authorization \in Bearer
    /\ sub[header[r].authorization] = None
    /\ Answer(r, "401")
    /\ UNCHANGED swap

\* The token validates, and is exchanged if an exchanger is configured.
Validate(r) ==
    /\ step[r] = "auth" /\ cfg.mode = "jwt" /\ header[r].authorization \in Bearer
    /\ jwks = "warm" /\ sub[header[r].authorization] # None
    /\ LET token == header[r].authorization
       IN  \/ /\ ~cfg.exchange
              /\ Project(r, [mode |-> "jwt", subject |-> sub[token]], None)
              /\ UNCHANGED swap
           \/ /\ cfg.exchange
              /\ Swap!Invoke(r, token)
              /\ step' = [step EXCEPT ![r] = "swap"]
              /\ UNCHANGED <<world, inbound, header, hop, response, client>>

\* Exchange returns a token: some token the promise allows.
ExchangeAnswers(r) ==
    /\ step[r] = "swap"
    /\ result' = [result EXCEPT ![r] = [owner |-> subject[r], left |-> 1]]
    /\ Swap!Answer(r)
    /\ Project(r, [mode |-> "jwt", subject |-> sub[header[r].authorization]], result'[r])

\* Exchange returns an error, which is none of the caller's token.
ExchangeFails(r) ==
    /\ step[r] = "swap"
    /\ Swap!Fail(r)
    /\ Answer(r, "503")

-------------------------------------------------------------------------------
(* The handlers.                                                              *)

\* Liveness and agent card are answered without an upstream.
AnswerLocally(r) ==
    /\ step[r] = "handle" /\ route(r) \in {"healthz", "agent.json"}
    /\ Answer(r, "200")
    /\ UNCHANGED swap

\* A handler that wants the client's body starts to read it: chat and upload always,
\* feedback for the methods that have one.
ReadBody(r) ==
    /\ step[r] = "handle" /\ route(r) \in Selecting
    /\ step' = [step EXCEPT ![r] = "body"]
    /\ UNCHANGED <<world, inbound, header, hop, response, client, swap>>

\* The answers a handler gives with no upstream asked: before it reads a body, to the
\* request's head or for an upstream URL that does not parse; then, to the body.
Rejections(r) ==
    IF step[r] = "handle"
    THEN CASE route(r) = "chat" -> {"405"}
           [] route(r) = "feedback" -> {"400", "405", "500"}
           [] route(r) = "files" -> {"400", "405", "413", "415"}
           [] route(r) = "agent-info" -> {"502"}
           [] route(r) = "readyz" -> {"503"}
           [] OTHER -> {}
    ELSE CASE route(r) = "chat" -> {"400", "502"}
           [] route(r) = "feedback" -> {"400", "500"}
           [] OTHER -> {"400", "413", "415", "500"}

\* The handler is not held up by the client: it reads no body, or gets what it reads.
Unheld(r) == step[r] = "handle" \/ (step[r] = "body" /\ client[r] # "stalled")

Reject(r) ==
    /\ Unheld(r)
    /\ \E code \in Rejections(r) : Answer(r, code)
    /\ UNCHANGED swap

\* Where a route leads: to the agent, or to the platform if its prefix is routed there.
Target(r) == IF route(r) \in cfg.platform THEN "platform" ELSE "agent"

\* Mutant: the trace headers are left to the reverse proxy.
Outbound_NoTrace(r) ==
    CASE route(r) \in Selecting ->
            [Nothing EXCEPT !.auth = header[r].auth,
                            !.authorization = header[r].authorization]
      [] route(r) \in Reversing -> header[r]
      [] OTHER -> Nothing

\* Mutant: agent-info clones the headers as they came in.
Outbound_Inbound(r) ==
    CASE route(r) \in Selecting ->
            [Nothing EXCEPT !.auth = header[r].auth,
                            !.authorization = header[r].authorization,
                            !.trace = header[r].trace]
      [] route(r) \in Reversing -> inbound[r].header
      [] OTHER -> Nothing

\* The headers that go upstream: a selection; with the reverse proxy, a clone of the
\* request's, made after the proxy has removed the hop-by-hop ones from its own copy;
\* for readiness and agent info none at all.
Outbound(r) ==
    CASE route(r) \in Selecting ->
            [Nothing EXCEPT !.auth = header[r].auth,
                            !.authorization = header[r].authorization,
                            !.trace = header[r].trace]
      [] route(r) \in Reversing -> header[r]
      [] OTHER -> Nothing

\* The upstream request is sent, by chat and upload with a body of the client's.
Forward(r) ==
    /\ Unheld(r) /\ route(r) \notin {"healthz", "agent.json"}
    /\ step[r] = "handle" => route(r) \notin {"chat", "files"}
    /\ hop' = [hop EXCEPT ![r] = [target |-> Target(r), header |-> Outbound(r)]]
    /\ step' = [step EXCEPT ![r] = "sent"]
    /\ UNCHANGED <<world, inbound, header, response, client, swap>>

\* The answers to an upstream request that fails before there is a response: no
\* connection, a timeout, a cancelled context, or an upload's body that is at fault.
Failures(r) ==
    CASE route(r) = "readyz" -> {"503"}
      [] route(r) = "files" -> {"413", "415", "502", "504"}
      [] OTHER -> {"502"}

UpstreamFails(r) ==
    /\ step[r] = "sent"
    /\ \E code \in Failures(r) : Answer(r, code)
    /\ UNCHANGED swap

\* Mutant: readiness does not wait for the upstream.
Ready_Unasked(r) ==
    /\ step[r] \in {"handle", "sent"} /\ route(r) = "readyz"
    /\ Answer(r, "200")
    /\ UNCHANGED swap

\* Readiness only asks whether there is a response.
Ready(r) ==
    /\ step[r] = "sent" /\ route(r) = "readyz"
    /\ Answer(r, "200")
    /\ UNCHANGED swap

\* The response's head is relayed, its body is next.
RelayHead(r) ==
    /\ step[r] = "sent" /\ route(r) # "readyz"
    /\ step' = [step EXCEPT ![r] = "copy"]
    /\ status' = [status EXCEPT ![r] = "backend"]
    /\ UNCHANGED <<world, inbound, header, hop, copied, ended, client, swap>>

EndCopy(r, amount, how) ==
    /\ step' = [step EXCEPT ![r] = "done"]
    /\ copied' = [copied EXCEPT ![r] = amount]
    /\ ended' = [ended EXCEPT ![r] = how]
    /\ UNCHANGED <<world, inbound, header, hop, status, client, swap>>

RelayBody(r) ==
    /\ step[r] = "copy"
    /\ EndCopy(r, "whole", "complete")

\* The upstream's body breaks off, or a timeout ends it.  The reverse proxy aborts the
\* client's connection; the handlers that copy log the error and end the response.
BodyBreaks(r) ==
    /\ step[r] = "copy"
    /\ EndCopy(r, "part", IF route(r) \in Reversing THEN "aborted" ELSE "complete")

-------------------------------------------------------------------------------
(* Time and surroundings.                                                     *)

\* The upstream requests that end when their client leaves, having its context.
Contextual == (Routes \ {"chat", "agent-info"})

\* Mutant: the upload's client, which has no timeout of its own, has no deadline either.
Timed_NoFiles == Routes \ (Reversing \cup {"files"})

\* The upstream requests that a timeout ends; the reverse proxy's have none.
Timed == Routes \ Reversing

Interrupted(r) == route(r) \in Timed \/ (client[r] = "gone" /\ route(r) \in Contextual)

\* What the handler does next is up to its client, which sends the body or takes the
\* response; an upload does not end, however it goes, while its body is being read.
AwaitsClient(r) ==
    step[r] \in {"body", "copy"} \/ (step[r] = "sent" /\ route(r) = "files")

\* What ends an upstream request that does not end by itself.  No timeout of the
\* gateway's ends the wait for a client.
Interrupt(r) ==
    /\ Interrupted(r)
    /\ AwaitsClient(r) => client[r] # "stalled"
    /\ UpstreamFails(r) \/ BodyBreaks(r)

ClientTurns(r, state) ==
    /\ client' = [client EXCEPT ![r] = state]
    /\ UNCHANGED <<world, step, inbound, header, hop, response, swap>>

\* The client stops sending or reading, and may go on later or never.
ClientStalls(r) ==
    /\ client[r] = "lively" /\ AwaitsClient(r)
    /\ ClientTurns(r, "stalled")

ClientResumes(r) ==
    /\ client[r] = "stalled"
    /\ ClientTurns(r, "lively")

ClientLeaves(r) ==
    /\ step[r] \notin {"idle", "done"} /\ client[r] # "gone"
    /\ ClientTurns(r, "gone")

\* A fetch of the JWKS succeeds.
KeysFetched ==
    /\ jwks = "cold"
    /\ jwks' = "warm"
    /\ UNCHANGED <<cfg, step, inbound, header, hop, response, client, swap>>

\* The steps of the middleware and the handlers; upstreams and clients may take their time.
Proceed(r) ==
    \/ Enter(r)
    \/ AuthenticateAnonymous(r) \/ AuthenticateProxy(r)
    \/ BearerMissing(r) \/ KeysUnavailable(r) \/ TokenInvalid(r) \/ Validate(r)
    \/ ExchangeAnswers(r) \/ ExchangeFails(r)
    \/ AnswerLocally(r) \/ ReadBody(r) \/ Reject(r) \/ Forward(r)
    \/ Interrupt(r)

Next ==
    \/ \E r \in Request :
          \/ \E q \in Inbound : Receive(r, q)
          \/ Proceed(r)
          \/ UpstreamFails(r) \/ Ready(r) \/ RelayHead(r) \/ RelayBody(r) \/ BodyBreaks(r)
          \/ ClientStalls(r) \/ ClientResumes(r) \/ ClientLeaves(r)
    \/ KeysFetched

Spec == Init /\ [][Next]_vars

\* Goroutines run, exchanges return (ExchangeReturns of TokenExchanger), timeouts pass,
\* and a read or write of a client's that does not stall returns: a client that does,
\* stalls (the server has no ReadTimeout).  No upstream owes an answer, and no stalled
\* client owes its return.
FairSpec == Spec /\ \A r \in Request : WF_vars(Proceed(r))
-------------------------------------------------------------------------------
TypeOK ==
    /\ cfg \in Configs /\ jwks \in {"cold", "warm"}
    /\ step \in [Request -> {"idle", "enter", "auth", "swap", "handle", "body", "sent", "copy", "done"}]
    /\ inbound \in [Request -> [route : Routes, header : Headers]]
    /\ header \in [Request -> Headers]
    /\ hop \in [Request -> {None} \cup [target : {"agent", "platform"}, header : Headers]]
    /\ status \in [Request -> Codes \cup {"none", "backend"}]
    /\ copied \in [Request -> {"none", "part", "whole"}]
    /\ ended \in [Request -> {"open", "complete", "aborted"}]
    /\ client \in [Request -> {"lively", "stalled", "gone"}]
    /\ Swap!TypeOK

\* Who the request is from, by the configured strategy and the request's credentials.
Caller(r) ==
    [mode |-> cfg.mode,
     subject |-> CASE cfg.mode = "anonymous" -> "anonymous"
                   [] cfg.mode = "proxy" -> inbound[r].header.forwardedUser
                   [] cfg.mode = "jwt" -> sub[inbound[r].header.authorization]]

\* An upstream that is told an identity is told the one the strategy finds in this
\* request's own credentials: not what the client claims in X-Auth-* headers, and not
\* another request's, however they interleave.
IdentityVouched ==
    \A r \in Request :
        hop[r] # None /\ hop[r].header.auth # None => hop[r].header.auth = Caller(r)

\* The client's Authorization never goes upstream.  What does is a token exchanged for
\* this request's own, and if exchange is on, no identity goes without one.
BearerVouched ==
    \A r \in Request : hop[r] # None =>
        LET bearer == hop[r].header.authorization
        IN  /\ bearer # None => cfg.exchange /\ bearer \in Swapped
                                /\ bearer.owner = inbound[r].header.authorization
            /\ cfg.mode = "jwt" /\ cfg.exchange /\ hop[r].header.auth # None => bearer # None

\* Apart from readiness, no upstream is asked for a request without credentials.
FailsClosed ==
    \A r \in Request : hop[r] # None /\ route(r) # "readyz" =>
        /\ cfg.mode = "proxy" => inbound[r].header.forwardedUser # None
        /\ cfg.mode = "jwt" =>
              /\ inbound[r].header.authorization \in Bearer
              /\ sub[inbound[r].header.authorization] # None

\* There is a token and no key to check it with.
Keyless(r) ==
    cfg.mode = "jwt" /\ inbound[r].header.authorization \in Bearer /\ jwks = "cold"

\* The caller's token is missing or bad, or keyfunc has no keys and says so in words that
\* are not those looked for.
CallerAtFault(r) ==
    LET credential == inbound[r].header.authorization
    IN  /\ cfg.mode = "jwt" /\ route(r) \notin Exempt
        /\ \/ credential \notin Bearer \/ sub[credential] = None
           \/ Keyless(r) /\ ~cfg.worded

\* The proxy named no user, or there are no keys, or a good token's exchange fails now.
OthersAtFault(r) ==
    LET credential == inbound[r].header.authorization
    IN  \/ cfg.mode = "proxy" /\ inbound[r].header.forwardedUser = None
        \/ Keyless(r) /\ cfg.worded
        \/ /\ cfg.mode = "jwt" /\ call[r] # "failed" /\ call'[r] = "failed"
           /\ credential \in Bearer /\ sub[credential] # None

BlamesTruly(r) ==
    /\ status'[r] = "401" => CallerAtFault(r)
    /\ status'[r] = "503" /\ route(r) # "readyz" => OthersAtFault(r)

\* Whoever is blamed when a request is answered is to blame at that moment: a bad token
\* gets a 401 and, once there are keys, no 503; a good one gets a 401 only if there are no
\* keys and keyfunc words that otherwise; a 503 is for what the caller cannot help.
BlameIsRight ==
    [][\A r \in Request : status'[r] # status[r] => BlamesTruly(r)]_vars

\* An upstream that is told who the caller is can also join its trace.
TraceJoined ==
    \A r \in Request :
        hop[r] # None /\ hop[r].header.auth # None =>
            hop[r].header.trace = inbound[r].header.trace

\* A request is there for Access once it has been received.
queryMapping == [r \in Request |-> IF step[r] = "idle" THEN None ELSE inbound[r]]

Promise == INSTANCE Access WITH query <- queryMapping, answer <- status, Bare <- Nothing

\* The gateway keeps the promise of Access, whatever requests, key cache and exchanges do:
\* each request has at most one hop, before its one answer, and both are justified.
AccessSpec == Promise!Spec

\* Every request ends, unless its client stalls and stays; but a reverse-proxied one may
\* last as long as its client waits: its upstream request has no timeout.
RequestsEnd ==
    \A r \in Request :
        step[r] # "idle" ~>
            \/ step[r] = "done"
            \/ client[r] = "stalled"
            \/ step[r] \in {"sent", "copy"} /\ route(r) \in Reversing /\ client[r] # "gone"

\* "httputil strips hop-by-hop automatically": those headers stay on their hop.
HopByHopStripped == \A r \in Request : hop[r] # None => ~hop[r].header.hopByHop

\* "Forwards the request and returns the full backend response": a response that
\* ends as complete has all of the upstream's body.
FullResponse ==
    \A r \in Request : status[r] = "backend" /\ ended[r] = "complete" => copied[r] = "whole"
===============================================================================
