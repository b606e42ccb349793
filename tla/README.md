# Verification of gateway-template

TLA+ models of the gateway in `src/`, the TLC runs that check them, and proofs of
their main safety properties. Every action names the code it models in
`PROJECT.json` (`map`); the findings, the hazards and which property covers which are
there too. Run any of it with

    tlc -config MCGateway.cfg MCGateway        # a run
    tlapm GatewayProofs.tla                    # a proof

## The system

The gateway is one Go process between clients and an agent (and, optionally, a
platform service). Every request passes the authentication middleware, then the log,
then a route's handler, which asks one upstream and relays its answer.

| Component | Code | State it keeps | Operations | What is hard about it |
|---|---|---|---|---|
| Token exchanger | `internal/auth/exchange.go` | a `sync.Map` from SHA-256 of the subject token to (token, expires) | `Exchange`: load, check expiry, delete, fetch, store | no lock and no single flight between its steps; expiry is dated from the answer, not from the minting; timeouts |
| Authentication | `internal/auth/{middleware,auth,jwt}.go` | keyfunc's key cache; `r.Header`, rewritten in place | strip, authenticate (anonymous, proxy, jwt), project or refuse | order of rewriting, refusal codes, a cold key cache, a failed exchange |
| Routing and forwarding | `cmd/server/main.go`, `internal/handler/{forward,propagation}.go` | the configuration | the target of a route; the outbound headers; the reverse proxy | three ways to build outbound headers and to end a broken response |
| Synchronous chat, feedback | `internal/handler/{chat,feedback}.go` | none | read the body, ask upstream, copy the answer | upstream failing before or within its answer |
| SSE relay, streamed chat | `internal/proxy/sse.go`, `internal/handler/chat.go` | reader goroutine, `lines` and `done` channels, ticker | scan, relay, heartbeat, return | two goroutines and a ticker; clients that leave; streams that break, hang or have oversized lines |
| File upload | `internal/handler/files.go` | pump goroutine, pipe, deadline | check headers, buffer the prefix, start upstream, pump parts, answer | handler, pump, transport and agent run beside each other and each may end first |
| Health, readiness, agent card | `internal/handler/{health,wellknown}.go` | none | answer, or probe the agent | reachable without credentials |
| Server life cycle | `cmd/server/main.go` | server, signal context | start, drain, exit | `ListenAndServe`'s error against the signal; 10s of drain against 120s streams |
| Configuration | `internal/config/config.go` | none | parse sizes, durations, MIME lists; validate; choose targets | overflow, boundaries, partly configured exchange |
| Request log | `internal/middleware/logging.go` | `statusWriter` | record status and bytes, flush | requests that leave no line; statuses nobody wrote |

Interactions: the middleware calls the exchanger within a request; handlers read the
headers the middleware has rewritten; streamed chat hands its upstream response to the
relay; the upload handler and its pump share the pipe and the request's body. The
exchanger's cache and keyfunc's are the only state requests share.

What makes the components correct: a caller gets tokens of its own only, and live ones
(exchanger); upstreams are told who a request is from by the gateway alone, refusals
blame whom they should (authentication, forwarding); lines arrive whole, in order, each
once (relay); a client told "accepted" has its whole upload at the agent, and forbidden
parts never leave the gateway (upload); a server serves only configurations the
documentation allows, an exit with code 0 has cut nothing, the log tells what clients
were sent (server); whatever the peers do, every request and every goroutine ends (all).

## Modules

| Module | Role | Code |
|---|---|---|
| `TokenSwap` | what an exchange promises: one answer per call, a token of the call's own subject | `Exchange`, from outside |
| `TokenExchanger` | the exchanger: cache, expiry, timeouts, concurrent calls | `exchange.go` |
| `Access` | what the gateway promises: one hop, one answer, both on the request's own credentials | `auth/`, `handler/`, from outside |
| `Gateway` | a request's way: middleware, strategies, routes, headers, response; composes `TokenSwap` | `auth/`, `handler/`, `main.go` |
| `LineFeed` | what the relay of a stream promises: line by line to an end with a reason, heartbeats between | `sse.go`, from outside |
| `SSERelay` | reader, relay loop, ticker and the streaming handler | `sse.go`, `chat.go` |
| `SSEClient` | the event parsing of an SSE client, over what `SSERelay` wrote | external |
| `Upload` | what an upload promises: one answer, with its cause, and nothing to the agent it must not have | `files.go`, from outside |
| `FilesUpload` | handler, pump, pipe, transport, agent | `files.go` |
| `Config` | the parses and checks of the environment, as operators | `config.go` |
| `Server` | the process: `Load`, wiring, listener goroutine, signal, drain, exits, connections, log | `main.go`, `logging.go` |
| `MC*` | TLC instances of the above | |
| `*Proofs` | theorems and proofs about `TokenExchanger`, `Gateway`, `SSERelay`, `SSEClient`, `FilesUpload`, `Server`; `AccessProofs` extends `GatewayProofs` with the refinements | |

`Gateway` is built on the abstract `TokenSwap`, which `TokenExchanger` implements (a
checked property and a theorem), so what `Gateway` shows of exchanged tokens holds of
the cache too: neither module has to be explored inside the other. Both halves are
proved of the same instance, with slack 0: `ImplementsPlainSwap` of the exchanger,
`DrivesTokenSwap` of the gateway. `Server` starts in an
environment and uses `Config` to load it, so what the properties say of a parsed value is
said of a process that serves with it. `FilesUpload` implements `Upload`, `SSERelay`
implements `LineFeed` and `Gateway` implements `Access`, each by a checked property and
a theorem.

### TokenExchanger

One request is at `load`, `check`, `miss`, `fetch` or `store`; each is a step of its
own, so other requests and the clock come between them. Time is discrete and no
absolute time is kept: tokens and entries hold what they have left, `Tick` lowers it.
The timeout may end the reading of an answer without harm: `fetch` discards that error, and
an answer read whole by then counts (`Receive` beside `Timeout`).
The key is a record that wraps the subject token, as injective as SHA-256 is taken to
be. `Issue` is the authorization server: any lifetime, stated or not. `FetchFails`
stands for every error path of `fetch`; `Timeout` is the same at the end of the client's
10 seconds. `Load` and the reading of the clock are two steps; `Delete` goes by key.
The expiry check is merged with `Delete`: only another request's store can come between,
and the model has it between `Load` and the check.

Assumption `DurationAssumption`: the client's timeout plus the longest pause between
receiving an answer and dating its entry fit into the 30s margin (10s in the code, so
the process may pause for 20s). Without it the cache could serve expired tokens; the
mutants `cacheTTL_NoMargin` and `Fetch_SlowClient` show so.

### Gateway

A request moves `idle, enter, auth, swap, handle, body, sent, copy, done`. Headers are grouped
as the code treats them: the four `X-Auth-*`, `Authorization`, the upstream proxy's user
header, trace context, hop-by-hop, the rest. A token that validates has a subject
`sub[t]`. Signature, issuer, audience, dates and a missing subject claim all collapse
into `sub[t] = None`, as the code collapses them into `ErrInvalidToken`. keyfunc is
external: its cache is cold until some fetch succeeds. While it is cold a token gets 503,
or 401 if it is malformed, and once it is warm a bad one gets 401 and no 503, also if it
names a key the cache does not have: so `jwt.go:22`, `README.md:74` and the test at
`jwt_test.go:240`. That the 503 is told by fragments of keyfunc's error texts
(`isJWKSColdCacheError`), which are not in the repository, is the parameter `worded` of a
configuration: where it is false the texts are others, and a cold cache gives 401 even to a
good token. `BlameIsRight` allows that 401 there and nowhere else, so it does not rest on
the texts.

A handler that wants the client's body reads it before it asks upstream or answers
(`body`): chat and upload always, feedback for three of its methods. A client is `lively`,
`stalled` or `gone`, and one that stalls while it is waited for (`AwaitsClient`: in `body`,
in `copy`, and in an upload until its body is closed) holds its handler, which no timeout of
the gateway's ends (`Unheld`, `Interrupt`).

The four ways of asking upstream are told apart by `Outbound` and `BodyBreaks`: handlers
that select headers (chat, feedback, upload), the reverse proxy that clones them
(sessions, usage, traces, files' metadata), and readiness and agent-info, which send
none. Uploads and streams are one response like any other here. The token an exchange
answers with has `left = 1`, one of the values the promise allows; nothing reads it.
A request is used once, so `Request` bounds the number of requests, not only their
concurrency; the state they share (`jwks`, `cfg`) is small. URLs, queries and bodies are
not modelled, nor are the mux's own 404, 405 and redirects.

`Access` has neither stages, clients nor exchange: a request arrives, an upstream is
asked for it at most once, it is answered once. The hop is asked on the request's own
credentials, and tells them (`Vouches`), except on agent-info and the probe, where it is
bare; of the key cache it keeps whether it is empty. `Justified` says of each status what
must have happened and what must not. `Gateway`
implements it with the request as its client sent it, hidden until it arrives
(`queryMapping`), its `hop` and its `status`.

### SSERelay and SSEClient

A line is its position in the backend's stream; `stream` holds the kinds of the lines
that have reached the scanner. `lines` is unbuffered, so a send and a receive are one
step (`Receive`); `done` is closed by the relay's return. `Cut` is a broken connection
or the client's 120s timeout; the scanner then hands out what it has of a line as if it
were one (`"part"`). The backend request has no context, so `ClientLeaves` ends nothing,
as in the code. An answer other than 200 is copied in a step of its own (`CopyRejection`),
which like the relay's writes waits for the client.

`LineFeed` has neither goroutines, channel nor ticker: the backend's stream grows, the
client is fed its next line or a heartbeat, and the feed ends at the terminator, before a
line too long to be read, or when a stream that has ended is used up. `SSERelay`
implements it with the lines the relay is done with for the fed ones (`Relayed`).

`SSEClient` reads both streams by the dispatch rules of SSE: an event is a run of lines
between blank ones (`Events`), a heartbeat is a comment with a blank line of its own.
`EventsNeverMerged` says what heartbeats never do, `BeatsAloneSplit` that without one
the client's events are the backend's, the due ones and no others.

### FilesUpload

A body is a sequence of items of one size (the head of a field, of an allowed or of a
forbidden file, a piece of content), and the cap counts items. The pump holds at most
one item it has not forwarded, as `io.Copy` through a pipe does. `Respond` writes to the
server's buffer, `Return` sends it: in between lies the deferred `body.Close`, which in
`net/http` waits for a `Read` of the same body in progress (`PumpReads`) and itself reads
on, up to a limit (`Released`); the pump may then still find items in the buffer of its
`multipart.Reader`. A 504 has two causes, which `files.go:160` does not tell apart: the
upload's deadline, and the transport's own limit on dialling (`DialTimeout`: the client of
`main.go:125` has the default transport), with which nothing reaches the agent. That the
transport closes the request body's pipe once it has returned is the contract of
`http.RoundTripper` (`ClosePipe`). `Eager` is whether an agent may accept on the closing
boundary before the HTTP body has ended.

`Upload` has neither pump, pipe, clock nor stages: the agent is contacted once, for a
first file of an allowed type; it gets a prefix of what it may have; the client is told
one thing, which is justified when it is said. `FilesUpload` implements it with `pump #
"none"` for contacted and `forwarded` for what the agent has got, unless the agent is
eager. That a 413 or 415 may be told after parts have been delivered, and that items may
follow the answer, are part of the promise because they are part of the code.

### Config and Server

An environment is a record of raw values in groups, as `Load` treats them: a size is a
form (`"unset"`, `"blank"`, `"junk"`, `"number"`), a number and a suffix; a MIME type says
whether any letter of it is upper-case and whether a parameter follows; the four exchange
variables and the three of jwt mode are the sets of those that are set. A parse gives the
set of its results, `{}` for an error, so `Load(env)` is the set with the configuration or
empty. `Wrap` is the product in `int64` at a width of the constants' choice.

`Server` has two threads that may end the process. `main` is at `load, wire, wait, drain,
gone`, the goroutine of `ListenAndServe` at `none, listen, serve, failed, closed`. A
configuration error, a mode nobody knows, a URL the reverse proxy cannot be made for and
keyfunc's failure end the start with code 1. A signal before `NotifyContext` kills; after
it, it makes `main` drain, and a second one does nothing. `Shutdown` is modelled from its
contract: it closes the listener, closes connections without a request, returns nil when
none is left and the context's error after the deadline. `os.Exit` of the goroutine ends
everything at once (`ServerExits`).

A request is what the log can tell apart: refused by the authentication, which wraps the
log; a probe, which the log skips; a reply whose handler writes a status first; a stream,
whose first `Write` implies 200; a reverse-proxied one, whose copy may panic through
`LogRequests`. `sent` is the client's status, `recorded` the one of `statusWriter`.
A status is 200 or 502, as one that is not the default is enough.

## Runs

| Run | Question | Verdict |
|---|---|---|
| `exchanger` | owners, expiries, refinement of `TokenSwap`, every exchange returns | passes, 940 000 states |
| `gateway` | identity, bearer, refusals, trace, refinement of `Access`, requests end unless their clients stall | passes, 470 000 states |
| `gateway_hops` | are hop-by-hop headers stripped? | not by the reverse proxy: `Rewrite` puts them back |
| `gateway_truncated` | is a response that ends as complete complete? | not if the backend's breaks off on a route that copies it |
| `sse` | order, loss, joined and split events, refinement of `LineFeed`, both goroutines end | passes, 220 000 states |
| `sse_split_event` | does the client dispatch only the backend's events? | no: a heartbeat can split one |
| `sse_long` | does it dispatch all of a finished stream? | no: a line beyond 64 KiB ends the stream silently |
| `files` | forbidden parts, cap, truth of answers, refinement of `Upload`, the pump winds down, ends | passes, 18 000 states |
| `files_eager` | `SuccessMeansWhole` with an eager agent | no: the boundary is written after an error too |
| `files_stalled` | is the timeout's 504 sent while the client stalls? | no: it waits for the client's next byte |
| `server` | what serves, what is cut at the end, is the log true, does a signal end the process | passes, 750 000 states |
| `server_email` | does an empty variable disable the email header? | no: it counts as unset |

The disagreements with the repository's own words are `findings` in `PROJECT.json`, each
with the sentence it contradicts.

**Bounds.** `exchanger`: two requests are what every race here takes (one reads, the
other writes); each may call again without limit, so longer histories are covered; two
subjects, one cache entry each. Margin 3, timeout 2, pause 1 make the assumption tight,
so every tick counts; of the lifetimes 4 and 7 the first is cached below the cap of 3,
the second capped, an unstated one not cached. `gateway`: two requests, each with a route
of every kind, good and bad credentials on the routes that pass them on; configurations
with and without exchange and platform, and with the words of keyfunc's errors expected or
not. `sse`: four lines hold two events of one line or
one of two and the start of the next, a terminator before, between or after, an oversized
line; two heartbeats reach every pair of gaps. `files`: nine bodies, declared and chunked,
against a cap of four items: a forbidden file first and second, a cap that falls into a
file and into the prefix, fields before and after files, no file at all. `server`: eight
environments that serve and 36 that do not, each of these off in one group (every subset
of the jwt variables and of the exchange variables); sizes at, above and wrapped around a
largest integer of 127, with `k` as 4, so that `2g` is negative and `4g` is zero; MIME
lists with case, parameters, blanks and wildcards against all 17 content types of two
types and subtypes; two connections, used again without limit, so that one is idle or
cut while the other's handler runs.

**Fairness.** Weak fairness of goroutines' own steps is Go's scheduler. On timeouts it is
the `http.Client`'s: `Timeout`, `Cut("stream")`, `Expire`, `Interrupt`. `Tick` gets strong
fairness as it is disabled while a request is at the end of its allowed pause.
The server sets only `ReadHeaderTimeout` (`main.go:158-162`), so a read of a request's body
and a write to the client return only if the client sends or reads, or its connection
breaks. In `Gateway` this is part of the state: a client may stall whenever it is waited
for, a stalled one owes nothing, neither to resume nor to leave, and `Forward`, `Reject`
and `Interrupt` of a request that waits for it are disabled; the fairness of `Proceed`
therefore says of a client only that one which does not stall sends or reads.
`RequestsEnd` claims no end for a request whose client stalls. In
`SSERelay` what writes to the client (`Deliver`) has no fairness; `HandlerReturns` alone
assumes it, in its own formula (`ReadingClient`), and `ReaderExits` begins when the handler
is done. In `FilesUpload` the handler's return is fair only when the client has sent its
body or is gone (`Released`). `ClosePipe` is the transport's contract.
In `Server`, `main`, the goroutine and the deadline's timer are fair; no request, client
or signal is, so `ShutdownEnds` holds against handlers that never return.
No fairness is given to peers: agents, authorization servers, clients may stop anywhere.
`UploadAnswered` alone assumes, in its own formula, that the client sends on or leaves
(`LivelyClient`), because `files_stalled` shows it is false without. `RequestsEnd` also
leaves out reverse-proxied requests whose client waits: they have no timeout in the code. Runs
with `CHECK_DEADLOCK FALSE` model one stream, one upload, requests used once, or a
process, which end.

## Proofs

All theorems hold for every value of the constants that satisfies the named
assumptions, and have no unproved leaves.

`TokenExchangerProofs`. `OwnTokenOnly`, `EntryEndsBeforeToken`, `AnswerAgeBounded`,
`HitIsFresh` and `TypeOK`, for any number of requests and subjects and any durations of
`DurationAssumption`. A served token's owner depends on where it came from, so the
invariant adds that the cache keeps owners (`CacheKeepsOwner`, where the injective key is
used), that whoever holds a token holds its own (`HoldsOwnToken`), that a loaded copy is as
sound as the entry was (`LoadedEndsBeforeToken`), and that fetches are timed
(`FetchIsTimed`), which `AnswerAgeBounded` counts down from. `ImplementsTokenSwap`: every
step maps to a step of `TokenSwap` or a stutter; answering from the cache is an `Answer`
from `pending`, for which the slack of the margin is needed. `ImplementsPlainSwap`
forgets the slack and so gives the specification `Gateway` is built on.

`GatewayProofs`. `IdentityVouched`, `BearerVouched`, `FailsClosed`, `BlameIsRight`,
`TraceJoined` and `TypeOK`, for any clients, tokens and configurations. The invariant says
of each request what its stage knows: until projection the headers are the client's
except `X-Auth-*` (`Stripped`); at a handler that is not exempt the credentials are good
and the headers vouched for (`StageKnows`); an exchange is only begun for a token that
validates, and is about it (`ExchangeKnows`); an upstream that has been asked was asked
with such headers or with none (`HopKnows`); until it is answered it has no status
(`AnswerKnows`). `BlameIsRight` is about the step that answers, as the keys may come right
after it: `MiddlewareBlames` looks at each strategy's refusals.
`OthersUntouched` shows that a request's step changes no other request, so each action is
only looked at for its own.

`AccessProofs`. `ImplementsAccess`: each action is an arrival, a hop, an answer or a
stutter of `Access`. The invariant above justifies most of them; it is joined by what the
answers need and no safety property did: a request that waits for its upstream has asked
it, on a route that may (`Asked`). For a hop that vouches the
headers must also be those of this request as it arrived, which is `Vouched` again.
`DrivesTokenSwap`: the middleware calls at most one exchange per request and takes its
answer as it is. `HopByHopReach` and `FullResponseReach` (from `Reach`) say how far the
two findings go: hop-by-hop headers pass on the reverse proxy's routes only, and a broken
response passes for a complete one on the copying routes only.

`SSERelayProofs`. `LinesInOrder`, `NothingLost` and `TypeOK`, for streams of any length.
The reader is at most one line ahead of the relay (`Handshake`), what the client has is
what the relay is done with (`Written`), and each goroutine has left for a reason
(`Causes`); `NothingLost` follows from these at the return. `ImplementsLineFeed` maps
`WriteLine` to `Feed`, `LinesClosed` to `Finish`, and everything between reader and relay
to a stutter; that the relay ends for a reason is `Causes` once more.

`SSEClientProofs`, for streams and heartbeats of any number. `NeverMerged` rests on the
shape of the client's stream (`ClientInvariance`): what it has between two heartbeats is
successive lines of the backend's (`Runs`), so that an event, which no heartbeat
interrupts, is too. `OnlyBeatsSplit`: without heartbeats the
client's stream is a prefix of the backend's, so their events are the same up to there,
and with `NothingLost` all due ones are. `OneLineEvents` is the extent of the finding of
`sse_split_event`: as long as the backend sends events of one content line and its stream
does not break within a line, no heartbeat can split an event or lose one.

`FilesUploadProofs`. `OnlyAllowedForwarded`, `FirstFileAllowed`, `RejectionsTruthful` and
`TypeOK`, for bodies of any length and any cap; `SuccessMeansWhole` and the refinement of
`Upload` under `~Eager`. What may be forwarded is a fact of reading, not of forwarding
(`TakenAllowed`); whoever takes the upload for finished has all of it (`Ends`: the pump
past its copy, the end of the agent's body, a lazy agent's acceptance); a fault the pump
holds is the client's (`Blames`), so it is still so when it comes back through pipe and
transport. `RespondInv` is the argument all answers share. `TruncationNoticed` needs no
`~Eager`: whatever the agent does, a success over half an upload implies that the pump
already held an error (`fault`), which the handler does not look at.

`ServerProofs`. All seven invariants of the run, for any set of environments of
`EnvironmentAssumption`, any number of connections and any integer width. `Started`: a
listener exists only under a configuration that serves (`WireEnforces`, from `LoadFacts`);
`Requests`: a request is open exactly as long as its connection is active, and not logged
before, from which `DrainComplete` and `LogTruthful` follow; `Exits`: each exit has its
cause. `CapsAsWritten` and `AllowlistsMatch` are about the parses: a product that fits is
not wrapped, one that does not is brought below what was written (`WrapBounded`), and
lower-casing an entry and stripping a type commute with meaning
(`ListMeaning`), for all lists and types.

**Towards the ends.** Liveness needs fairness and `ENABLED`, which the prover does not
reach, but the argument without them is proved for the two goroutines that can be left
behind. Once the handler has returned, each step of the upload's pump and of the relay's
reader is one of finitely many, and no other actor gives them more (`PumpRunsOut`,
`ReaderRunsOut`); what the pump may be blocked on has been closed (`PumpNeverBlocked`). What
is left to TLC is that they do move: `PumpExits`, `ReaderExits`.

The inductive invariants were first checked by TLC on the runs' instances.

Model-checked only: the liveness properties `ExchangeReturns`, `RequestsEnd`,
`HandlerReturns`, `ReaderExits`, `PumpExits`, `UploadAnswered` and `ShutdownEnds`.
Every invariant, action property and refinement of a passing run is a theorem, under
`~Eager` where the run has it. The violated properties have TLC's counterexamples;
`HopByHopReach`, `FullResponseReach`, `OneLineEvents` and `TruncationNoticed` bound them.

## Observed, without a run of their own

- `Exchange` deletes by key, not by the entry it found expired (`exchange.go:135`): a request
  that loaded an expired entry may delete the fresh one another has stored since. It costs
  one further exchange.
- A size whose product with its suffix exceeds `int64` is taken as it wraps
  (`config.go:351`): `17179869184g` is zero, which is no cap at all, though the number has
  just been checked to be positive. `CapAsWritten` says what is left: less than was written.
- The transport's dial timeout of 30s answers an upload with 504 long before its deadline.
- A bad token is only told from missing keys if keyfunc words its errors as `jwt.go:228`
  expects; with other words a cold cache answers 401 to good tokens, too.
- An allowlist entry with a parameter matches nothing, and `*/*` only a type named `*`:
  the wildcard is a prefix. `Listed` defines their meaning so.
- A stream that ends before its first line is logged with status 0, its client is sent 200
  (`LogTruthful` allows for it). A reverse proxy's copy that panics leaves no line.
- A malformed platform URL for feedback alone passes the start, and each request gets 500;
  for sessions or traces it ends the start.
- Exchange variables in other modes than jwt are not checked, and the start logs
  `jwt_token_exchange` as true if all four are set, though nothing is exchanged.
- After the deadline `Shutdown` may report it although the last request has just ended: the
  exit code 1 does not imply that something was cut.
- A stream cut within a line, followed by a heartbeat, dispatches half an event, and the
  relay returns at `[DONE]` before the blank line that ends its event: both are in the
  model of `sse_split_event` and excluded there by its parameters. `NothingLost` and
  `LineFeed` take the return at the terminator for the stream's end, as the code does.
- A stream that breaks off ends the client's response as a finished one does (`sse.go:52`);
  in `Gateway` that is the chat route's `BodyBreaks`, which `gateway_truncated` refutes
  `FullResponse` with on the routes that copy.
- A forbidden second file, or a cap reached in mid-upload, is rejected with 415 or 413
  after the agent has had the parts before it: `OnlyAllowedForwarded` claims no more.
- `/v1/agent-info` and `/readyz` send upstream neither identity nor trace, while the
  repository's README speaks of all `/v1/*` endpoints and of every backend hop; the
  comment at `middleware.go:30` says exempt handlers call no backend, `/readyz` does.
- `RawPath` is cleared by `Rewrite`, so an escaped slash reaches the upstream as a plain one.

## Not modelled

URLs, queries and path joining; JSON and form encodings, MIME syntax (a part's verdict by
`MIMEAllowed` stands for it); JWT cryptography; refresh of the key set for unknown keys;
the moment a server notices that a stalled client has gone; connections that a reverse
proxy has upgraded, for which `Shutdown` does not wait; the bytes and durations of log
lines; variables that are only copied; the Helm chart and scripts. `components` gives the
reason for each.

## Plan

Done, in this order: `TokenSwap`, `TokenExchanger` with proofs (the only shared mutable
state, and the one a wrong step of which hands out a caller's identity); `SSERelay` with
proofs; `FilesUpload`; `Gateway` with proofs; `Upload` and the proofs of `FilesUpload`;
`Config` and `Server` with proofs; then `Access` and `LineFeed` with the refinements, the
proofs about `SSEClient`, and the extents of the findings. What could follow:

1. The reverse proxy's URL rewriting: `singleJoiningSlash`, `RawPath` and target paths, as
   operators over segments.
2. Uploads whose parts have several sizes, so that a cap falls within an item.
