-------------------------------- MODULE Server --------------------------------
(***************************************************************************)
(* cmd/server/main.go with internal/middleware/logging.go: the life of the *)
(* gateway process.  main loads the configuration and wires the handlers,  *)
(* starts ListenAndServe in a goroutine, waits for a signal, drains what   *)
(* is in flight for ten seconds and exits.  Both goroutines may end the    *)
(* process.  Requests are seen as the log sees them: the status the        *)
(* client is sent, the one statusWriter records, and the line.             *)
(*                                                                         *)
(* Of net/http's server: a listener fails or is closed by Shutdown, which  *)
(* waits until no connection is left, closing those without a request.     *)
(***************************************************************************)
EXTENDS Config

CONSTANTS Environments,  \* the environments the process may be started in
          Conn,          \* the connections there may be at a time
          ContentTypes,  \* the types uploaded files may have
          None           \* the absent value

Statuses == {0, 200, 502}

MIMETypes == [type : STRING, sub : STRING, upper : BOOLEAN, param : BOOLEAN]

ASSUME EnvironmentAssumption ==
    /\ \A e \in Environments :
          /\ e.maxBytes.n \in Int /\ e.maxBytes.suffix \in {"", "k", "m", "g"}
          /\ e.timeout.n \in Int
          /\ e.mime \subseteq MIMETypes
    /\ ContentTypes \subseteq MIMETypes
    /\ None \notin Statuses

\* What a request is to the log: refused by the authentication outside of it, a probe,
\* answered by a handler that writes a status, a stream, or a reverse-proxied one.
Kinds == {"refused", "probe", "reply", "stream", "proxy"}

VARIABLES env,        \* the environment
          config,     \* what Load made of it
          exchanger,  \* whether tokens are exchanged
          main,       \* main: "load", "wire", "wait", "drain" or "gone"
          server,     \* the goroutine: "none", "listen", "serve", "failed" or "closed"
          signalled,  \* the context of NotifyContext is done
          expired,    \* the deadline of Shutdown has passed
          code,       \* the exit code; "killed" by an unhandled signal
          conn,       \* conn[c]: "none", "new", "active" or "idle"
          req         \* req[c]: the last request of c

process == <<env, config, exchanger, main, server, signalled, expired, code>>

vars == <<process, conn, req>>

NoRequest == [kind |-> "probe", sent |-> 0, recorded |-> 0, body |-> FALSE,
              state |-> "returned", line |-> None]

Init ==
    /\ env \in Environments /\ config = None /\ exchanger = FALSE
    /\ main = "load" /\ server = "none"
    /\ signalled = FALSE /\ expired = FALSE /\ code = "none"
    /\ conn = [c \in Conn |-> "none"] /\ req = [c \in Conn |-> NoRequest]

-------------------------------------------------------------------------------
(* main.                                                                      *)

Exit(status) ==
    /\ main # "gone"
    /\ main' = "gone" /\ code' = status
    /\ UNCHANGED <<env, config, exchanger, server, signalled, expired, conn, req>>

LoadConfig ==
    /\ main = "load"
    /\ \E c \in Load(env) : config' = c
    /\ main' = "wire"
    /\ UNCHANGED <<env, exchanger, server, signalled, expired, code, conn, req>>

\* The URLs that a reverse proxy is made for; feedback's is parsed with its requests.
Forwarded == {TargetURL(config, p) : p \in Prefixes \ {"feedback"}} \cup {config.backend}

\* What the two constructors check again after Load.
NewTokenExchanger == config.exchange = ExchangeVars

NewJWTAuth == config.jwt = JWTVars

Wireable ==
    /\ JWTExchangeEnabled(config) => NewTokenExchanger
    /\ config.mode \in {"anonymous", "proxy", "jwt"}
    /\ config.mode = "jwt" => NewJWTAuth
    /\ "malformed" \notin Forwarded

\* Exchanger, authenticator and handlers are made; the signal is awaited and the
\* goroutine started.
Wire ==
    /\ main = "wire" /\ Wireable
    /\ exchanger' = (config.mode = "jwt" /\ JWTExchangeEnabled(config))
    /\ main' = "wait" /\ server' = "listen"
    /\ UNCHANGED <<env, config, signalled, expired, code, conn, req>>

\* Mutant: a configuration error is only logged.
StartFails_Logged ==
    /\ main = "load" /\ Load(env) = {}
    /\ main' = "wire"
    /\ UNCHANGED <<env, config, exchanger, server, signalled, expired, code, conn, req>>

\* Load or one of the constructors returns an error; in jwt mode keyfunc's may.
StartFails ==
    /\ \/ main = "load" /\ Load(env) = {}
       \/ main = "wire" /\ (~Wireable \/ config.mode = "jwt")
    /\ Exit("1")

\* Before NotifyContext a signal kills; in the drain it finds the context done.
Signal ==
    \/ main \in {"load", "wire"} /\ Exit("killed")
    \/ /\ main = "wait" /\ ~signalled
       /\ signalled' = TRUE
       /\ UNCHANGED <<env, config, exchanger, main, server, expired, code, conn, req>>

\* Shutdown begins: nothing is accepted any more.
BeginDrain ==
    /\ main = "wait" /\ signalled
    /\ main' = "drain"
    /\ UNCHANGED <<env, config, exchanger, server, signalled, expired, code, conn, req>>

\* Mutant: Shutdown is given a context without a deadline.
Deadline_Never == FALSE

Deadline ==
    /\ main = "drain" /\ ~expired
    /\ expired' = TRUE
    /\ UNCHANGED <<env, config, exchanger, main, server, signalled, code, conn, req>>

\* Shutdown finds no connection left and returns nil, also after the deadline.
Drained ==
    /\ main = "drain" /\ \A c \in Conn : conn[c] = "none"
    /\ Exit("0")

\* Mutant: Shutdown's error is only logged.
DrainFails_Logged ==
    /\ main = "drain" /\ expired
    /\ Exit("0")

\* Shutdown returns the context's error, also if the last connection has just gone.
DrainFails ==
    /\ main = "drain" /\ expired
    /\ Exit("1")

-------------------------------------------------------------------------------
(* The goroutine of ListenAndServe.                                           *)

Goroutine(from, to) ==
    /\ main # "gone" /\ server = from
    /\ server' = to
    /\ UNCHANGED <<env, config, exchanger, main, signalled, expired, code, conn, req>>

\* A Shutdown that comes first makes ListenAndServe return at once.
Listen == main = "wait" /\ Goroutine("listen", "serve")

\* The port cannot be bound, or Accept fails for good.
ListenFails == main = "wait" /\ \E from \in {"listen", "serve"} : Goroutine(from, "failed")

\* ErrServerClosed, which is none.
ServerClosed == main = "drain" /\ \E from \in {"listen", "serve"} : Goroutine(from, "closed")

\* Mutant: ErrServerClosed is taken for a failure.
ServerExits_Any ==
    /\ server \in {"failed", "closed"}
    /\ Exit("1")

\* os.Exit, whatever main and the handlers are at.
ServerExits ==
    /\ server = "failed"
    /\ Exit("1")

-------------------------------------------------------------------------------
(* Connections and requests.                                                  *)

Connect(c, from, to) ==
    /\ main # "gone" /\ conn[c] \in from
    /\ conn' = [conn EXCEPT ![c] = to]
    /\ UNCHANGED <<process, req>>

Accept(c) == main = "wait" /\ server = "serve" /\ Connect(c, {"none"}, "new")

\* The client's close, ReadHeaderTimeout, or Shutdown's.
CloseUnused(c) == Connect(c, {"new", "idle"}, "none")

\* A request's header is read and its handler called, also during the drain.
Begin(c, kind) ==
    /\ main # "gone" /\ conn[c] \in {"new", "idle"}
    /\ kind = "refused" => config.mode # "anonymous"
    /\ conn' = [conn EXCEPT ![c] = "active"]
    /\ req' = [req EXCEPT ![c] = [NoRequest EXCEPT !.kind = kind, !.state = "open"]]
    /\ UNCHANGED process

Open(c) == main # "gone" /\ conn[c] = "active"

\* What LogRequests wraps: it is called inside of the authentication, probes pass it.
Logged(c) == req[c].kind \notin {"refused", "probe"} /\ config.log

\* Every handler but a stream's writes the status first.
WriteHeader(c, status) ==
    /\ Open(c) /\ req[c].sent = 0 /\ req[c].kind # "stream"
    /\ req' = [req EXCEPT ![c] = [@ EXCEPT !.sent = status, !.recorded = status]]
    /\ UNCHANGED <<process, conn>>

\* The status of an answer that has none yet.
OrOK(status) == IF status = 0 THEN 200 ELSE status

\* Mutant: a Write records no status.
Write_NoDefault(c) ==
    /\ Open(c) /\ ~req[c].body /\ (req[c].kind = "stream" \/ req[c].sent # 0)
    /\ req' = [req EXCEPT ![c] = [@ EXCEPT !.sent = OrOK(req[c].sent), !.body = TRUE]]
    /\ UNCHANGED <<process, conn>>

\* The first Write: statusWriter and the server take the status for 200 if none is set.
Write(c) ==
    /\ Open(c) /\ ~req[c].body /\ (req[c].kind = "stream" \/ req[c].sent # 0)
    /\ req' = [req EXCEPT ![c] = [@ EXCEPT !.sent = OrOK(req[c].sent),
                                           !.recorded = OrOK(req[c].recorded),
                                           !.body = TRUE]]
    /\ UNCHANGED <<process, conn>>

\* The handler returns, the line is logged, and the server sends 200 if nothing was
\* written.  No connection is kept alive once the drain has begun.
Return(c) ==
    /\ Open(c) /\ (req[c].kind = "stream" \/ req[c].sent # 0)
    /\ req' = [req EXCEPT ![c] = [@ EXCEPT !.sent = OrOK(req[c].sent),
                                           !.state = "returned",
                                           !.line = IF Logged(c) THEN req[c].recorded ELSE None]]
    /\ \E after \in {"none"} \cup (IF main = "drain" THEN {} ELSE {"idle"}) :
          conn' = [conn EXCEPT ![c] = after]
    /\ UNCHANGED process

\* The reverse proxy's copy breaks off: it panics through LogRequests.
Panic(c) ==
    /\ Open(c) /\ req[c].kind = "proxy" /\ req[c].sent # 0
    /\ req' = [req EXCEPT ![c] = [@ EXCEPT !.state = "panicked"]]
    /\ conn' = [conn EXCEPT ![c] = "none"]
    /\ UNCHANGED process

Main == LoadConfig \/ Wire \/ StartFails \/ BeginDrain \/ Drained \/ DrainFails

ServerRoutine == Listen \/ ListenFails \/ ServerClosed \/ ServerExits

Next ==
    \/ Main \/ Signal \/ Deadline \/ ServerRoutine
    \/ \E c \in Conn :
          \/ Accept(c) \/ CloseUnused(c)
          \/ \E kind \in Kinds : Begin(c, kind)
          \/ \E status \in Statuses \ {0} : WriteHeader(c, status)
          \/ Write(c) \/ Return(c) \/ Panic(c)

Spec == Init /\ [][Next]_vars

\* main and the goroutine run, and the deadline passes.  No request owes an end.
FairSpec == Spec /\ WF_vars(Main) /\ WF_vars(ServerRoutine) /\ WF_vars(Deadline)
-------------------------------------------------------------------------------
TypeOK ==
    /\ env \in Environments
    /\ main = "load" => config = None
    /\ main \in {"wire", "wait", "drain"} => config \in Load(env)
    /\ exchanger \in BOOLEAN
    /\ main \in {"load", "wire", "wait", "drain", "gone"}
    /\ server \in {"none", "listen", "serve", "failed", "closed"}
    /\ signalled \in BOOLEAN /\ expired \in BOOLEAN
    /\ code \in {"none", "0", "1", "killed"}
    /\ conn \in [Conn -> {"none", "new", "active", "idle"}]
    /\ req \in [Conn -> [kind : Kinds, sent : Statuses, recorded : Statuses, body : BOOLEAN,
                         state : {"open", "returned", "panicked"}, line : Statuses \cup {None}]]

\* A configuration the documentation rejects never serves a request: jwt mode with a
\* variable missing, an exchange set in part (which would drop the swap unnoticed), an
\* unknown mode, an upload without a deadline or an upstream its handlers cannot ask.
ConfigEnforced ==
    \A c \in Conn : conn[c] # "none" =>
        /\ config.mode \in {"anonymous", "proxy", "jwt"}
        /\ env.mode = "jwt" => env.jwt = JWTVars /\ (env.exchange # {} => exchanger)
        /\ env.exchange # ExchangeVars \/ env.mode # "jwt" => ~exchanger
        /\ env.backend \notin {"", "malformed"} /\ config.timeout > 0

\* A size serves as it was written if the product of number and suffix fits int64, and
\* without one the default does.  One that does not fit serves as less than was written,
\* which may be nothing, and so no cap at all: the check for a positive size comes first.
CapAsWritten ==
    main \in {"wait", "drain"} =>
        LET written == env.maxBytes.n * Multiplier(env.maxBytes.suffix)
        IN  IF env.maxBytes.form = "unset" THEN config.cap = DefaultBytes
            ELSE /\ written <= MaxInt => config.cap = written /\ config.cap > 0
                 /\ written > MaxInt => config.cap < written

\* The types an operator's list means: those it names, in any case, a wildcard all
\* types it begins, and without an entry all.
Listed(raw, mime) ==
    LET entries == {e \in raw : e.type # ""}
    IN  \/ entries = {}
        \/ mime.type # "" /\ \E e \in entries :
              ~e.param /\ e.type = mime.type /\ e.sub \in {"*", mime.sub}

\* An uploaded file's type is let through if and only if the operator's list means it.
AllowlistMatches ==
    main \in {"wait", "drain"} =>
        \A mime \in ContentTypes : MIMEAllowed(config.mime, mime) <=> Listed(env.mime, mime)

\* A process that exits with 0 has cut no request and no connection that might have
\* had one, although both goroutines may end it.
DrainComplete ==
    code = "0" => \A c \in Conn : conn[c] = "none" /\ req[c].state # "open"

\* Requests are only cut by the deadline of the drain or a listener that has failed.
CutOnlyAtDeadline ==
    main = "gone" /\ (\E c \in Conn : conn[c] = "active") =>
        expired \/ server = "failed"

\* The log is true: a line stands for a request whose handler has returned, and each
\* that passes the log has one; it tells the status the client was sent, or 0 if the
\* handler wrote nothing at all.
LogTruthful ==
    \A c \in Conn :
        /\ req[c].line # None <=> req[c].state = "returned" /\ Logged(c)
        /\ req[c].line # None =>
              req[c].line = req[c].sent \/ (req[c].line = 0 /\ ~req[c].body)

\* Once a signal has come the process ends, whatever requests and clients do.
ShutdownEnds == signalled ~> main = "gone"

\* "Empty disables email projection": a header set to the empty name is not read.
EmptyDisablesEmail ==
    main = "wait" /\ env.mode = "proxy" /\ env.email = "" => config.email = ""
===============================================================================
