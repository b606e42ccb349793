------------------------------ MODULE ServerProofs ------------------------------
(***************************************************************************)
(* Proofs about Server, for any environments, any number of connections    *)
(* and any width of integers.                                              *)
(***************************************************************************)
EXTENDS Server, TLAPS

\* What ConfigEnforced says of a server that has connections.
Enforced ==
    /\ config.mode \in {"anonymous", "proxy", "jwt"}
    /\ env.mode = "jwt" => env.jwt = JWTVars /\ (env.exchange # {} => exchanger)
    /\ env.exchange # ExchangeVars \/ env.mode # "jwt" => ~exchanger
    /\ env.backend \notin {"", "malformed"} /\ config.timeout > 0

\* The goroutine starts with a configuration that serves; before it nothing happens.
Started ==
    /\ main \in {"load", "wire"} => server = "none"
    /\ main \in {"wait", "drain"} => server # "none"
    /\ server # "none" => Enforced
    /\ server = "none" => \A c \in Conn : conn[c] = "none" /\ req[c] = NoRequest

\* A request is open as long as its connection is active, and not logged before.
Requests ==
    \A c \in Conn :
        /\ req[c].state = "open" <=> conn[c] = "active"
        /\ req[c].state = "open" => req[c].recorded = req[c].sent /\ req[c].line = None
        /\ req[c].body => req[c].sent # 0

\* Each way to exit has its cause.
Exits ==
    /\ code = "none" <=> main # "gone"
    /\ DrainComplete
    /\ CutOnlyAtDeadline

Inv == TypeOK /\ Started /\ Requests /\ Exits /\ LogTruthful
-------------------------------------------------------------------------------
(* The configuration.                                                         *)

\* What Load lets through.
LEMMA LoadFacts ==
    ASSUME NEW e \in Environments, NEW c \in Load(e)
    PROVE  /\ c.backend = e.backend /\ e.backend # ""
           /\ c.mode = envOrDefault(e.mode, "anonymous")
           /\ c.exchange = e.exchange
           /\ c.mode = "jwt" => e.jwt = JWTVars /\ e.exchange \in {{}, ExchangeVars}
           /\ c.timeout \in envDurationDefault(e.timeout, DefaultTimeout)
           /\ c.cap \in envBytesDefault(e.maxBytes, DefaultBytes)
           /\ c.mime = parseMIMEList(e.mime)
<1>1. /\ c.backend = e.backend /\ e.backend # ""
      /\ c.mode = envOrDefault(e.mode, "anonymous")
      /\ c.exchange = e.exchange /\ c.jwt = e.jwt
      /\ c.timeout \in envDurationDefault(e.timeout, DefaultTimeout)
      /\ c.cap \in envBytesDefault(e.maxBytes, DefaultBytes)
      /\ c.mime = parseMIMEList(e.mime)
  BY DEF Load
<1>2. c.mode = "jwt" => c.jwt = JWTVars /\ validateExchangeConfig(c)
  BY DEF Load
<1>3. QED
  BY <1>1, <1>2 DEF validateExchangeConfig

\* An upload has a deadline.
LEMMA TimeoutPositive ==
    ASSUME NEW e \in Environments, NEW d \in envDurationDefault(e.timeout, DefaultTimeout)
    PROVE  d > 0
<1>1. DefaultTimeout > 0
  BY ConfigAssumption
<1>2. d = DefaultTimeout \/ (d = e.timeout.n /\ e.timeout.n > 0)
  BY Zenon DEF envDurationDefault
<1>3. QED
  BY <1>1, <1>2

LEMMA WireEnforces == ASSUME TypeOK, Wire PROVE Enforced'
<1>1. /\ env \in Environments /\ config \in Load(env)
      /\ config.mode \in {"anonymous", "proxy", "jwt"} /\ "malformed" # config.backend
      /\ env' = env /\ config' = config
      /\ exchanger' = (config.mode = "jwt" /\ JWTExchangeEnabled(config))
  BY DEF TypeOK, Wire, Wireable, Forwarded
<1>2. /\ config.backend = env.backend /\ env.backend # ""
      /\ config.mode = envOrDefault(env.mode, "anonymous")
      /\ config.exchange = env.exchange
      /\ config.mode = "jwt" => env.jwt = JWTVars /\ env.exchange \in {{}, ExchangeVars}
      /\ config.timeout \in envDurationDefault(env.timeout, DefaultTimeout)
  BY <1>1, LoadFacts
<1>3. config.timeout > 0
  BY <1>1, <1>2, TimeoutPositive
<1>4. config.mode = "jwt" <=> env.mode = "jwt"
  BY <1>2 DEF envOrDefault
<1>5. QED
  BY <1>1, <1>2, <1>3, <1>4 DEF Enforced, JWTExchangeEnabled
-------------------------------------------------------------------------------
(* Steps.                                                                     *)

LEMMA InitInv == Init => Inv
<1> SUFFICES ASSUME Init PROVE Inv
  OBVIOUS
<1>1. TypeOK
  BY DEF Init, TypeOK, NoRequest, Kinds, Statuses
<1>2. Started /\ Requests
  BY DEF Init, Started, Requests, NoRequest
<1>3. Exits
  BY DEF Init, Exits, DrainComplete, CutOnlyAtDeadline
<1>4. LogTruthful
  BY DEF Init, LogTruthful, NoRequest, Logged
<1>5. QED
  BY <1>1, <1>2, <1>3, <1>4 DEF Inv

\* The process may exit if it has cut nothing, or for a reason.
LEMMA ExitInv ==
    ASSUME Inv, NEW status \in {"0", "1", "killed"}, Exit(status),
           status = "0" => \A c \in Conn : conn[c] = "none",
           (\E c \in Conn : conn[c] = "active") => expired \/ server = "failed"
    PROVE  Inv'
<1> USE DEF Exit
<1>1. TypeOK'
  BY DEF Inv, TypeOK
<1>2. Started' /\ Requests'
  BY DEF Inv, Started, Enforced, Requests
<1>3. Exits'
  BY DEF Inv, Exits, Requests, DrainComplete, CutOnlyAtDeadline
<1>4. LogTruthful'
  BY DEF Inv, LogTruthful, Logged
<1>5. QED
  BY <1>1, <1>2, <1>3, <1>4 DEF Inv

LEMMA StartInv == ASSUME Inv, LoadConfig \/ Wire PROVE Inv'
<1>1. TypeOK'
  BY DEF Inv, TypeOK, LoadConfig, Wire
<1>2. Started'
  <2>1. CASE LoadConfig
    BY <2>1 DEF Inv, Started, LoadConfig
  <2>2. CASE Wire
    BY <2>2, WireEnforces DEF Inv, Started, Wire
  <2>3. QED
    BY <2>1, <2>2
<1>3. Requests'
  BY DEF Inv, Requests, LoadConfig, Wire
<1>4. Exits'
  BY DEF Inv, Exits, DrainComplete, CutOnlyAtDeadline, LoadConfig, Wire
<1>5. LogTruthful'
  <2>1. \A c \in Conn : req'[c] = NoRequest
    BY DEF Inv, Started, LoadConfig, Wire
  <2>2. QED
    BY <2>1 DEF LogTruthful, NoRequest, Logged
<1>6. QED
  BY <1>1, <1>2, <1>3, <1>4, <1>5 DEF Inv

\* Signal, deadline and listener leave configuration and requests alone.
LEMMA ProcessInv ==
    ASSUME Inv, UNCHANGED <<env, config, exchanger, code, conn, req>>,
           main # "gone",
           main' = main \/ (main = "wait" /\ main' = "drain"),
           server' = server \/ (server # "none" /\ server' \in {"serve", "failed", "closed"}),
           signalled' \in BOOLEAN, expired' \in BOOLEAN
    PROVE  Inv'
<1>1. TypeOK'
  BY DEF Inv, TypeOK
<1>2. Started' /\ Requests'
  BY DEF Inv, Started, Enforced, Requests
<1>3. Exits'
  BY DEF Inv, Exits, DrainComplete, CutOnlyAtDeadline
<1>4. LogTruthful'
  BY DEF Inv, LogTruthful, Logged
<1>5. QED
  BY <1>1, <1>2, <1>3, <1>4 DEF Inv

LEMMA MainInv ==
    ASSUME Inv, Main \/ Signal \/ Deadline \/ ServerRoutine PROVE Inv'
<1>0. signalled \in BOOLEAN /\ expired \in BOOLEAN
  BY DEF Inv, TypeOK
<1>1. CASE LoadConfig \/ Wire
  BY <1>1, StartInv
<1>2. CASE StartFails
  BY <1>2, ExitInv DEF StartFails, Inv, Started
<1>3. CASE Signal
  <2>1. CASE main \in {"load", "wire"}
    BY <1>3, <2>1, ExitInv DEF Signal, Inv, Started
  <2>2. CASE main \notin {"load", "wire"}
    <3>1. /\ main = "wait" /\ signalled' = TRUE
          /\ UNCHANGED <<env, config, exchanger, main, server, expired, code, conn, req>>
      BY <1>3, <2>2 DEF Signal
    <3>2. QED
      BY <1>0, <3>1, ProcessInv
  <2>3. QED
    BY <1>3, <2>1, <2>2 DEF Signal
<1>4. CASE BeginDrain
  BY <1>0, <1>4, ProcessInv DEF BeginDrain
<1>5. CASE Deadline
  BY <1>0, <1>5, ProcessInv DEF Deadline
<1>6. CASE Drained
  BY <1>6, ExitInv DEF Drained
<1>7. CASE DrainFails
  BY <1>7, ExitInv DEF DrainFails
<1>8. CASE ServerExits
  BY <1>8, ExitInv DEF ServerExits
<1>9. CASE Listen \/ ListenFails \/ ServerClosed
  <2>1. /\ main \in {"wait", "drain"} /\ server # "none"
        /\ server' \in {"serve", "failed", "closed"}
        /\ UNCHANGED <<env, config, exchanger, main, signalled, expired, code, conn, req>>
    BY <1>9 DEF Listen, ListenFails, ServerClosed, Goroutine
  <2>2. QED
    BY <1>0, <2>1, ProcessInv
<1>10. QED
  BY <1>1, <1>2, <1>3, <1>4, <1>5, <1>6, <1>7, <1>8, <1>9 DEF Main, ServerRoutine

RequestRecord == [kind : Kinds, sent : Statuses, recorded : Statuses, body : BOOLEAN,
                  state : {"open", "returned", "panicked"}, line : Statuses \cup {None}]

\* A step of one connection and its request; the process goes on.
LEMMA RequestInv ==
    ASSUME Inv, NEW c \in Conn, main # "gone", server # "none", UNCHANGED process,
           NEW to \in {"none", "new", "active", "idle"}, NEW q,
           conn' = [conn EXCEPT ![c] = to], req' = [req EXCEPT ![c] = q],
           q \in RequestRecord,
           q.state = "open" <=> to = "active",
           q.state = "open" => q.recorded = q.sent /\ q.line = None,
           q.body => q.sent # 0,
           q.line # None <=> q.state = "returned" /\ q.kind \notin {"refused", "probe"} /\ config.log,
           q.line # None => q.line = q.sent \/ (q.line = 0 /\ ~q.body)
    PROVE  Inv'
<1> USE DEF process
<1>0. /\ conn'[c] = to /\ req'[c] = q
      /\ \A d \in Conn \ {c} : conn'[d] = conn[d] /\ req'[d] = req[d]
  BY DEF Inv, TypeOK
<1>1. TypeOK'
  BY DEF Inv, TypeOK, RequestRecord
<1>2. Started'
  BY DEF Inv, Started, Enforced
<1>3. Requests'
  BY <1>0 DEF Inv, Requests
<1>4. Exits'
  BY DEF Inv, Exits, DrainComplete, CutOnlyAtDeadline
<1>5. LogTruthful'
  BY <1>0 DEF Inv, LogTruthful, Logged
<1>6. QED
  BY <1>1, <1>2, <1>3, <1>4, <1>5 DEF Inv

\* A connection without a request comes or goes.
LEMMA ConnectInv ==
    ASSUME Inv, NEW c \in Conn, Accept(c) \/ CloseUnused(c) PROVE Inv'
<1>1. PICK to \in {"none", "new"} :
        /\ main # "gone" /\ conn[c] # "active" /\ server # "none"
        /\ conn' = [conn EXCEPT ![c] = to] /\ UNCHANGED <<process, req>>
  BY DEF Accept, CloseUnused, Connect, Inv, Started
<1> USE <1>1 DEF process
<1>2. \A d \in Conn : conn'[d] = conn[d] \/ (conn'[d] = to /\ conn[d] # "active")
  BY DEF Inv, TypeOK
<1>3. TypeOK'
  BY DEF Inv, TypeOK
<1>4. Started'
  BY DEF Inv, Started, Enforced
<1>5. Requests'
  BY <1>2 DEF Inv, Requests
<1>6. Exits'
  BY DEF Inv, Exits, DrainComplete, CutOnlyAtDeadline
<1>7. LogTruthful'
  BY DEF Inv, LogTruthful, Logged
<1>8. QED
  BY <1>3, <1>4, <1>5, <1>6, <1>7 DEF Inv

\* What an open request is like.
LEMMA OpenFacts ==
    ASSUME Inv, NEW c \in Conn, Open(c)
    PROVE  /\ main # "gone" /\ server # "none" /\ None \notin Statuses
           /\ req[c] \in RequestRecord /\ conn = [conn EXCEPT ![c] = "active"]
           /\ req[c].state = "open" /\ req[c].recorded = req[c].sent /\ req[c].line = None
           /\ req[c].body => req[c].sent # 0
<1>1. req[c] \in RequestRecord /\ conn = [conn EXCEPT ![c] = "active"] /\ main # "gone"
  BY DEF Inv, TypeOK, Open, RequestRecord
<1>2. /\ server # "none" /\ req[c].state = "open" /\ req[c].recorded = req[c].sent
      /\ req[c].line = None
      /\ req[c].body => req[c].sent # 0
  BY DEF Inv, Started, Requests, Open
<1>3. None \notin Statuses
  BY EnvironmentAssumption, Zenon
<1>4. QED
  BY <1>1, <1>2, <1>3

LEMMA BeginInv == ASSUME Inv, NEW c \in Conn, NEW kind \in Kinds, Begin(c, kind) PROVE Inv'
<1> DEFINE q == [NoRequest EXCEPT !.kind = kind, !.state = "open"]
<1>1. /\ main # "gone" /\ server # "none" /\ UNCHANGED process
      /\ conn' = [conn EXCEPT ![c] = "active"] /\ req' = [req EXCEPT ![c] = q]
  BY DEF Begin, Inv, Started
<1>2. /\ q \in RequestRecord /\ q.state = "open" /\ q.recorded = q.sent /\ q.line = None
      /\ ~q.body
  BY DEF NoRequest, RequestRecord, Statuses
<1> HIDE DEF q
<1>3. QED
  BY <1>1, <1>2, RequestInv

LEMMA WriteInv ==
    ASSUME Inv, NEW c \in Conn,
           Write(c) \/ \E status \in Statuses \ {0} : WriteHeader(c, status)
    PROVE  Inv'
<1>1. PICK n \in Statuses, body \in BOOLEAN :
        /\ n # 0 /\ Open(c) /\ UNCHANGED <<process, conn>>
        /\ req' = [req EXCEPT ![c] = [req[c] EXCEPT !.sent = n, !.recorded = n, !.body = body]]
  <2>1. CASE Write(c)
    <3>1. Open(c)
      BY <2>1 DEF Write
    <3>2. req[c] \in RequestRecord /\ req[c].recorded = req[c].sent
      BY <3>1, OpenFacts
    <3> DEFINE n == OrOK(req[c].sent)
    <3>3. n \in Statuses /\ n # 0
      BY <3>2 DEF RequestRecord, Statuses, OrOK
    <3>4. req' = [req EXCEPT ![c] = [req[c] EXCEPT !.sent = n, !.recorded = n, !.body = TRUE]]
      BY <2>1, <3>2 DEF Write
    <3>5. UNCHANGED <<process, conn>>
      BY <2>1 DEF Write
    <3> HIDE DEF n
    <3>6. QED
      BY <3>1, <3>3, <3>4, <3>5
  <2>2. CASE \E status \in Statuses \ {0} : WriteHeader(c, status)
    <3>1. PICK status \in Statuses \ {0} : WriteHeader(c, status)
      BY <2>2
    <3>2. req[c] \in RequestRecord
      BY <3>1, OpenFacts DEF WriteHeader
    <3>3. [req[c] EXCEPT !.sent = status, !.recorded = status] =
          [req[c] EXCEPT !.sent = status, !.recorded = status, !.body = req[c].body]
      BY <3>2 DEF RequestRecord
    <3>4. QED
      BY <3>1, <3>2, <3>3 DEF WriteHeader, RequestRecord
  <2>3. QED
    BY <2>1, <2>2
<1> DEFINE q == [req[c] EXCEPT !.sent = n, !.recorded = n, !.body = body]
<1>2. /\ main # "gone" /\ server # "none" /\ req[c] \in RequestRecord
      /\ conn = [conn EXCEPT ![c] = "active"] /\ req[c].state = "open" /\ req[c].line = None
  BY <1>1, OpenFacts
<1>3. /\ q \in RequestRecord /\ q.state = "open" /\ q.recorded = q.sent /\ q.line = None
      /\ q.sent # 0
  BY <1>1, <1>2 DEF RequestRecord
<1>4. req' = [req EXCEPT ![c] = q] /\ conn' = [conn EXCEPT ![c] = "active"]
  BY <1>1, <1>2
<1> HIDE DEF q
<1>5. QED
  BY <1>1, <1>2, <1>3, <1>4, RequestInv

LEMMA EndInv == ASSUME Inv, NEW c \in Conn, Return(c) \/ Panic(c) PROVE Inv'
<1>0. Open(c) /\ UNCHANGED process
  BY DEF Return, Panic
<1>1. /\ main # "gone" /\ server # "none" /\ None \notin Statuses /\ req[c] \in RequestRecord
      /\ req[c].state = "open" /\ req[c].recorded = req[c].sent /\ req[c].line = None
      /\ req[c].body => req[c].sent # 0
  BY <1>0, OpenFacts
<1>2. CASE Return(c)
  <2> DEFINE n == OrOK(req[c].sent)
  <2> DEFINE line == IF Logged(c) THEN req[c].recorded ELSE None
  <2> DEFINE q == [req[c] EXCEPT !.sent = n, !.state = "returned", !.line = line]
  <2>1. PICK to \in {"none", "idle"} : conn' = [conn EXCEPT ![c] = to]
    BY <1>2 DEF Return
  <2>2. req' = [req EXCEPT ![c] = q]
    BY <1>2 DEF Return
  <2>3. /\ q \in RequestRecord /\ q.state = "returned" /\ q.sent # 0 /\ q.kind = req[c].kind
        /\ q.line = line /\ q.body = req[c].body /\ (req[c].sent = 0 \/ q.sent = req[c].sent)
    <3>1. n \in Statuses /\ n # 0 /\ (req[c].sent = 0 \/ n = req[c].sent)
      BY <1>1 DEF RequestRecord, Statuses, OrOK
    <3>2. line \in Statuses \cup {None}
      BY <1>1 DEF RequestRecord
    <3> HIDE DEF n, line
    <3>3. QED
      BY <1>1, <3>1, <3>2 DEF RequestRecord
  <2>4. q.line # None <=> q.kind \notin {"refused", "probe"} /\ config.log
    BY <1>1, <2>3 DEF Logged, RequestRecord
  <2>5. q.line # None => q.line = q.sent \/ (q.line = 0 /\ ~q.body)
    BY <1>1, <2>3
  <2> HIDE DEF q
  <2>6. QED
    BY <1>0, <1>1, <2>1, <2>2, <2>3, <2>4, <2>5, RequestInv
<1>3. CASE Panic(c)
  <2> DEFINE q == [req[c] EXCEPT !.state = "panicked"]
  <2>1. req' = [req EXCEPT ![c] = q] /\ conn' = [conn EXCEPT ![c] = "none"]
    BY <1>3 DEF Panic
  <2>2. /\ q \in RequestRecord /\ q.state = "panicked" /\ q.line = None
        /\ q.body => q.sent # 0
    BY <1>1 DEF RequestRecord
  <2> HIDE DEF q
  <2>3. QED
    BY <1>0, <1>1, <2>1, <2>2, RequestInv
<1>4. QED
  BY <1>2, <1>3

LEMMA UnchangedInv == ASSUME Inv, UNCHANGED vars PROVE Inv'
<1> USE DEF vars, process
<1>1. TypeOK'
  BY DEF Inv, TypeOK
<1>2. Started' /\ Requests'
  BY DEF Inv, Started, Enforced, Requests
<1>3. Exits'
  BY DEF Inv, Exits, DrainComplete, CutOnlyAtDeadline
<1>4. LogTruthful'
  BY DEF Inv, LogTruthful, Logged
<1>5. QED
  BY <1>1, <1>2, <1>3, <1>4 DEF Inv

LEMMA NextInv == Inv /\ [Next]_vars => Inv'
<1> SUFFICES ASSUME Inv, [Next]_vars PROVE Inv'
  OBVIOUS
<1>1. CASE UNCHANGED vars
  BY <1>1, UnchangedInv
<1>2. CASE Main \/ Signal \/ Deadline \/ ServerRoutine
  BY <1>2, MainInv
<1>3. ASSUME NEW c \in Conn, Accept(c) \/ CloseUnused(c) PROVE Inv'
  BY <1>3, ConnectInv
<1>4. ASSUME NEW c \in Conn, NEW kind \in Kinds, Begin(c, kind) PROVE Inv'
  BY <1>4, BeginInv
<1>5. ASSUME NEW c \in Conn, Write(c) \/ \E status \in Statuses \ {0} : WriteHeader(c, status)
      PROVE  Inv'
  BY <1>5, WriteInv
<1>6. ASSUME NEW c \in Conn, Return(c) \/ Panic(c) PROVE Inv'
  BY <1>6, EndInv
<1>7. QED
  BY <1>1, <1>2, <1>3, <1>4, <1>5, <1>6 DEF Next

\* The inductive invariant of the process: connections only exist under a configuration
\* that serves, requests are open as long as their connection is active.
THEOREM Invariance == Spec => []Inv
BY InitInv, NextInv, PTL DEF Spec

\* Every variable of the process has its type; main's configuration is one Load allows.
THEOREM TypeCorrect == Spec => []TypeOK
<1>1. Inv => TypeOK
  BY DEF Inv
<1>2. QED
  BY <1>1, Invariance, PTL

\* Whoever connects meets a server whose configuration the documentation allows.
THEOREM ConfigsEnforced == Spec => []ConfigEnforced
<1>1. Inv => ConfigEnforced
  BY DEF Inv, Started, Enforced, ConfigEnforced
<1>2. QED
  BY <1>1, Invariance, PTL

\* The exit code 0 stands for a drain that cut nothing, for any number of connections.
THEOREM DrainsComplete == Spec => []DrainComplete
<1>1. Inv => DrainComplete
  BY DEF Inv, Exits
<1>2. QED
  BY <1>1, Invariance, PTL

\* What is cut is cut by the drain's deadline or with a failed listener.
THEOREM CutsAtDeadline == Spec => []CutOnlyAtDeadline
<1>1. Inv => CutOnlyAtDeadline
  BY DEF Inv, Exits
<1>2. QED
  BY <1>1, Invariance, PTL

\* Lines and statuses of the log are the requests', however these interleave.
THEOREM LogsTruthful == Spec => []LogTruthful
<1>1. Inv => LogTruthful
  BY DEF Inv
<1>2. QED
  BY <1>1, Invariance, PTL
-------------------------------------------------------------------------------
(* What the parses compute, of any environment.                               *)

\* A product that fits is left as it is.
LEMMA WrapFits == ASSUME NEW n \in 1..MaxInt PROVE Wrap(n) = n
<1> DEFINE d == MaxInt + 1
<1>1. d \in Nat \ {0} /\ n + d \in 0..(2 * d - 1)
  BY ConfigAssumption
<1>2. (n + d) % (2 * d) = n + d
  <2> HIDE DEF d
  <2>1. \A x, y \in Nat : x < y => x % y = x
    OBVIOUS
  <2>2. QED
    BY <1>1, <2>1
<1>3. n + MaxInt + 1 = n + d
  BY ConfigAssumption
<1>4. QED
  BY <1>2, <1>3, ConfigAssumption DEF Wrap

LEMMA ProductPositive ==
    ASSUME NEW x \in Nat \ {0}, NEW y \in Nat \ {0} PROVE x * y \in Nat \ {0}
OBVIOUS

LEMMA OnePositive == 1 \in Nat \ {0}
OBVIOUS

LEMMA MultiplierPositive ==
    ASSUME NEW suffix \in {"", "k", "m", "g"} PROVE Multiplier(suffix) \in Nat \ {0}
<1>1. Kilo \in Nat \ {0}
  BY ConfigAssumption
<1>2. Kilo * Kilo \in Nat \ {0}
  BY <1>1, ProductPositive
<1>3. Kilo * Kilo * Kilo \in Nat \ {0}
  BY <1>1, <1>2, ProductPositive
<1>4. /\ Multiplier("") = 1 /\ Multiplier("k") = Kilo
      /\ Multiplier("m") = Kilo * Kilo /\ Multiplier("g") = Kilo * Kilo * Kilo
  BY DEF Multiplier
<1>5. /\ Multiplier("") \in Nat \ {0} /\ Multiplier("k") \in Nat \ {0}
      /\ Multiplier("m") \in Nat \ {0} /\ Multiplier("g") \in Nat \ {0}
  BY <1>1, <1>2, <1>3, <1>4, OnePositive, Zenon
<1>6. QED
  BY <1>5, Zenon

\* A sum of any size is brought back into the range of int64.
LEMMA WrapBounded == ASSUME NEW n \in Nat PROVE Wrap(n) <= MaxInt
<1> DEFINE d == MaxInt + 1
<1>1. d \in Nat \ {0} /\ 2 * d \in Nat \ {0} /\ n + d \in Nat
  BY ConfigAssumption
<1>2. (n + d) % (2 * d) \in 0..(2 * d - 1)
  <2> HIDE DEF d
  <2>1. \A x \in Nat, y \in Nat \ {0} : x % y \in 0..(y - 1)
    OBVIOUS
  <2>2. QED
    BY <1>1, <2>1
<1>3. n + MaxInt + 1 = n + d
  BY ConfigAssumption
<1>4. QED
  BY <1>2, <1>3, ConfigAssumption DEF Wrap

\* A size is the number it is written as, for any width of integers, if it fits; if not,
\* it never serves as written: the cap is what is left of the product.
THEOREM CapsAsWritten == Spec => []CapAsWritten
<1>1. TypeOK => CapAsWritten
  <2> SUFFICES ASSUME TypeOK, main \in {"wait", "drain"}
               PROVE  LET written == env.maxBytes.n * Multiplier(env.maxBytes.suffix)
                      IN  IF env.maxBytes.form = "unset" THEN config.cap = DefaultBytes
                          ELSE /\ written <= MaxInt => config.cap = written /\ config.cap > 0
                               /\ written > MaxInt => config.cap < written
    BY DEF CapAsWritten
  <2> DEFINE factor == Multiplier(env.maxBytes.suffix)
  <2> DEFINE written == env.maxBytes.n * factor
  <2>1. env \in Environments /\ config.cap \in envBytesDefault(env.maxBytes, DefaultBytes)
    BY LoadFacts DEF TypeOK
  <2>2. \/ env.maxBytes.form = "unset" /\ config.cap = DefaultBytes
        \/ /\ env.maxBytes.form # "unset" /\ env.maxBytes.n \in 1..MaxInt
           /\ config.cap = Wrap(written)
    BY <2>1, Zenon DEF envBytesDefault
  <2>3. factor \in Nat \ {0}
    BY <2>1, EnvironmentAssumption, MultiplierPositive, Zenon
  <2> HIDE DEF factor
  <2>4. ASSUME env.maxBytes.n \in 1..MaxInt PROVE written \in Nat /\ written > 0
    <3>1. env.maxBytes.n \in Nat \ {0}
      BY <2>4, ConfigAssumption
    <3>2. written \in Nat \ {0}
      BY <2>3, <3>1, ProductPositive, Zenon
    <3> HIDE DEF written
    <3>3. QED
      BY <3>2
  <2> HIDE DEF written
  <2>5. ASSUME env.maxBytes.n \in 1..MaxInt, written <= MaxInt PROVE Wrap(written) = written
    BY <2>4, <2>5, WrapFits, ConfigAssumption
  <2>6. ASSUME env.maxBytes.n \in 1..MaxInt, written > MaxInt PROVE Wrap(written) < written
    <3>1. Wrap(written) <= MaxInt
      BY <2>4, <2>6, WrapBounded
    <3>2. Wrap(written) \in Int
      BY <2>4, <2>6, ConfigAssumption DEF Wrap
    <3>3. QED
      BY <2>4, <2>6, <3>1, <3>2, ConfigAssumption
  <2>7. QED
    BY <2>2, <2>4, <2>5, <2>6 DEF written, factor
<1>2. QED
  BY <1>1, TypeCorrect, PTL

\* An allowlist means what it says, whatever its entries' case and parameters.
LEMMA ListMeaning ==
    ASSUME NEW raw \in SUBSET MIMETypes, NEW mime \in MIMETypes
    PROVE  MIMEAllowed(parseMIMEList(raw), mime) <=> Listed(raw, mime)
<1> DEFINE entries == {e \in raw : e.type # ""}
<1> DEFINE allowed == parseMIMEList(raw)
<1> DEFINE ct == [Lower(mime) EXCEPT !.param = FALSE]
<1>1. allowed = {Lower(e) : e \in entries}
  BY DEF parseMIMEList
<1>2. \A e \in entries :
        /\ Lower(e) \in MIMETypes /\ Lower(e).type = e.type /\ Lower(e).sub = e.sub
        /\ Lower(e).param = e.param /\ ~Lower(e).upper
  BY DEF Lower, MIMETypes
<1>3. /\ ct \in MIMETypes /\ ct.type = mime.type /\ ct.sub = mime.sub
      /\ ~ct.param /\ ~ct.upper
  BY DEF Lower, MIMETypes
<1>4. \A e \in entries : Lower(e) = ct <=> ~e.param /\ e.type = mime.type /\ e.sub = mime.sub
  BY <1>2, <1>3 DEF MIMETypes
<1>5. ct \in allowed <=>
        \E e \in entries : ~e.param /\ e.type = mime.type /\ e.sub = mime.sub
  BY <1>1, <1>4
<1>6. (\E entry \in allowed :
          entry.sub = "*" /\ ~entry.param /\ ~entry.upper /\ entry.type = ct.type)
        <=> \E e \in entries : e.sub = "*" /\ ~e.param /\ e.type = mime.type
  <2> HIDE DEF ct, allowed, entries
  <2>1. \A e \in entries :
          /\ Lower(e) \in allowed
          /\ (Lower(e).sub = "*" /\ ~Lower(e).param /\ ~Lower(e).upper /\ Lower(e).type = ct.type)
               <=> (e.sub = "*" /\ ~e.param /\ e.type = mime.type)
    BY <1>1, <1>2, <1>3
  <2>2. \A entry \in allowed : \E e \in entries : entry = Lower(e)
    BY <1>1
  <2>3. QED
    BY <2>1, <2>2
<1>7. allowed = {} <=> entries = {}
  BY <1>1
<1>8. MIMEAllowed(allowed, mime) <=>
        \/ allowed = {}
        \/ /\ ct.type # ""
           /\ \/ ct \in allowed
              \/ \E entry \in allowed :
                    entry.sub = "*" /\ ~entry.param /\ ~entry.upper /\ entry.type = ct.type
  BY DEF MIMEAllowed
<1>9. Listed(raw, mime) <=>
        \/ entries = {}
        \/ mime.type # "" /\ \E e \in entries :
              ~e.param /\ e.type = mime.type /\ e.sub \in {"*", mime.sub}
  BY DEF Listed
<1> HIDE DEF ct, allowed, entries
<1>10. QED
  BY <1>3, <1>5, <1>6, <1>7, <1>8, <1>9 DEF allowed

\* Uploads are let through if and only if the operator's list means their type.
THEOREM AllowlistsMatch == Spec => []AllowlistMatches
<1>1. TypeOK => AllowlistMatches
  <2> SUFFICES ASSUME TypeOK, main \in {"wait", "drain"}, NEW mime \in ContentTypes
               PROVE  MIMEAllowed(config.mime, mime) <=> Listed(env.mime, mime)
    BY DEF AllowlistMatches
  <2>1. env \in Environments /\ config.mime = parseMIMEList(env.mime)
    BY LoadFacts DEF TypeOK
  <2>2. env.mime \in SUBSET MIMETypes /\ mime \in MIMETypes
    BY <2>1, EnvironmentAssumption, Zenon
  <2>3. QED
    BY <2>1, <2>2, ListMeaning
<1>2. QED
  BY <1>1, TypeCorrect, PTL
===============================================================================
