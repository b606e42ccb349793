--------------------------------- MODULE Access ---------------------------------
(***************************************************************************)
(* What the gateway promises about who gets through, with neither          *)
(* middleware, handlers, clients nor exchange: a request is answered       *)
(* once; before that an upstream is asked at most once, on the request's   *)
(* own credentials; and the answer says no more than what has happened.    *)
(***************************************************************************)
EXTENDS Naturals

CONSTANTS Request,   \* the concurrent requests
          Bearer,    \* the bearer tokens clients hold
          sub,       \* sub[t]: whom t names; None if it does not validate
          Configs,   \* the configurations: [mode, exchange, platform, worded]
          Inbound,   \* the requests' routes and headers as clients send them
          Exempt,    \* the routes that need no credentials
          Swapped,   \* the tokens an exchange can return: [owner, left]
          Bare,      \* headers that say nothing
          None       \* the absent value

VARIABLES cfg,      \* the configuration
          jwks,     \* "cold" until the keys for tokens have been fetched, then "warm"
          query,    \* query[r]: r as its client sent it; None before that
          hop,      \* hop[r]: the upstream request: [target, header], or None
          answer    \* answer[r]: a status of the gateway's own, "backend" or "none"

vars == <<cfg, jwks, query, hop, answer>>

Init ==
    /\ cfg \in Configs
    /\ jwks = "cold"
    /\ query = [r \in Request |-> None]
    /\ hop = [r \in Request |-> None]
    /\ answer = [r \in Request |-> "none"]

Arrive(r) ==
    /\ query[r] = None
    /\ \E q \in Inbound : query' = [query EXCEPT ![r] = q]
    /\ UNCHANGED <<cfg, jwks, hop, answer>>

Credentialed(r) ==
    /\ cfg.mode = "proxy" => query[r].header.forwardedUser # None
    /\ cfg.mode = "jwt" => /\ query[r].header.authorization \in Bearer
                           /\ sub[query[r].header.authorization] # None

Admitted(r) == query[r].route \notin Exempt /\ Credentialed(r)

\* The headers h tell who r is from, and carry no token but one exchanged for r's own.
Vouches(r, h) ==
    /\ h.auth = [mode |-> cfg.mode,
                 subject |-> CASE cfg.mode = "anonymous" -> "anonymous"
                               [] cfg.mode = "proxy" -> query[r].header.forwardedUser
                               [] cfg.mode = "jwt" -> sub[query[r].header.authorization]]
    /\ h.trace = query[r].header.trace
    /\ IF cfg.mode = "jwt" /\ cfg.exchange
       THEN h.authorization \in Swapped
            /\ h.authorization.owner = query[r].header.authorization
       ELSE h.authorization = None

KeysCome ==
    /\ jwks = "cold"
    /\ jwks' = "warm"
    /\ UNCHANGED <<cfg, query, hop, answer>>

\* An upstream is asked: whether it is up, who it is, or something for a request that is
\* admitted, and only then with headers, which vouch for it.
Ask(r) ==
    /\ query[r] # None /\ hop[r] = None /\ answer[r] = "none"
    /\ query[r].route = "readyz" \/ Admitted(r)
    /\ hop' = [hop EXCEPT ![r] = hop'[r]] /\ hop'[r] # None
    /\ hop'[r].target = IF query[r].route \in cfg.platform THEN "platform" ELSE "agent"
    /\ IF query[r].route \in {"readyz", "agent-info"}
       THEN hop'[r].header = Bare
       ELSE Vouches(r, hop'[r].header)
    /\ UNCHANGED <<cfg, jwks, query, answer>>

\* There is a token and no key to check it with.
Keyless(r) ==
    cfg.mode = "jwt" /\ query[r].header.authorization \in Bearer /\ jwks = "cold"

\* The answers that hold: 401 for bad credentials, 503 for what is not the client's
\* fault, and one of the two where keys are wanting; the upstream's own if it was asked,
\* 504 likewise; all others on credentials.
Justified(r, code) ==
    CASE code = "backend" -> hop[r] # None /\ query[r].route # "readyz"
      [] code = "200" -> /\ query[r].route \in Exempt
                         /\ query[r].route = "readyz" => hop[r] # None
      [] code = "401" -> /\ cfg.mode = "jwt" /\ hop[r] = None
                         /\ query[r].route \notin Exempt
                         /\ ~Credentialed(r) \/ (Keyless(r) /\ ~cfg.worded)
      [] code = "503" -> \/ query[r].route = "readyz"
                         \/ /\ query[r].route \notin Exempt /\ hop[r] = None
                            /\ \/ cfg.mode = "proxy" /\ ~Credentialed(r)
                               \/ Keyless(r) /\ cfg.worded
                               \/ cfg.mode = "jwt" /\ cfg.exchange /\ Credentialed(r)
      [] code = "504" -> Admitted(r) /\ hop[r] # None
      [] OTHER -> code \in {"400", "405", "413", "415", "500", "502"} /\ Admitted(r)

Reply(r) ==
    /\ query[r] # None /\ answer[r] = "none"
    /\ answer' = [answer EXCEPT ![r] = answer'[r]]
    /\ Justified(r, answer'[r])
    /\ UNCHANGED <<cfg, jwks, query, hop>>

Next == (\E r \in Request : Arrive(r) \/ Ask(r) \/ Reply(r)) \/ KeysCome

Spec == Init /\ [][Next]_vars
=================================================================================
