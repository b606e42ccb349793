------------------------------- MODULE MCGateway -------------------------------
(***************************************************************************)
(* Two requests, one route of each handler, and clients that send every    *)
(* kind of credential; every one of them also sends X-Auth-* headers of    *)
(* its own, a trace and hop-by-hop headers.                                *)
(***************************************************************************)
EXTENDS Gateway

CONSTANTS r1, r2, t1, t2, bad, u1, u2

MCRequest == {r1, r2}
MCBearer == {t1, t2, bad}
MCUser == {u1, u2}
MCsub == [t \in MCBearer |-> CASE t = t1 -> u1 [] t = t2 -> u2 [] t = bad -> None]

MCConfigs ==
    [mode : {"anonymous", "proxy"}, exchange : {FALSE}, platform : {{"feedback", "sessions"}},
     worded : {TRUE}]
        \cup [mode : {"jwt"}, exchange : {TRUE}, platform : {{}}, worded : {TRUE}]
        \cup [mode : {"jwt"}, exchange : {FALSE}, platform : {{}}, worded : BOOLEAN]

Sent(authorization, user) ==
    [auth |-> Spoofed, authorization |-> authorization, forwardedUser |-> user,
     trace |-> TRUE, hopByHop |-> TRUE, other |-> TRUE]

\* Both good credentials on the routes that pass them on, the others on one of a kind.
MCInbound ==
    [route : {"chat", "sessions"}, header : {Sent(t1, u1), Sent(t2, u2)}]
        \cup [route : {"feedback", "usage", "agent-info", "readyz"}, header : {Sent(t1, u1)}]
        \cup [route : {"files"}, header : {Sent(None, None), Sent(Opaque, u2), Sent(bad, None)}]
        \cup [route : {"healthz"}, header : {Sent(None, None)}]
================================================================================
