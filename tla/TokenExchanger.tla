---------------------------- MODULE TokenExchanger ----------------------------
(***************************************************************************)
(* internal/auth/exchange.go: the RFC 8693 exchange of an inbound subject  *)
(* token for a downstream one, with its in-process cache (a sync.Map, no   *)
(* lock, no single flight), as concurrent requests drive it.               *)
(*                                                                         *)
(* Time is discrete.  No clock is kept: a token holds the ticks it has     *)
(* left to live, a cache entry the ticks until its `expires`, a request    *)
(* the ticks its present step may still take, and Tick lowers them all.    *)
(* The authorization server is modelled from how fetch uses it.            *)
(***************************************************************************)
EXTENDS Integers

CONSTANTS Request,       \* the concurrent calls of Exchange
          Subject,       \* the inbound subject tokens
          Lifetimes,     \* the lifetimes the authorization server grants
          Margin,        \* the safety margin, 30s in the code
          CacheCap,      \* cacheCap, 5min in the code
          FetchTimeout,  \* the HTTP client's Timeout, 10s in the code
          MaxPause,      \* the longest pause from the answer's receipt to its storing
          None           \* the absent value

\* The parameters are durations, and the margin covers the time a token can
\* age between its minting and the reading of the clock that dates its entry.
ASSUME DurationAssumption ==
    /\ Lifetimes \subseteq Nat
    /\ Margin \in Nat /\ CacheCap \in Nat /\ FetchTimeout \in Nat /\ MaxPause \in Nat
    /\ FetchTimeout + MaxPause <= Margin

Token == [owner : Subject, left : Nat]

\* cachedToken: `expires` is kept as the ticks until it.
Entry == [token : Token, ttl : Nat]

ASSUME NoneAssumption == None \notin Token /\ None \notin Entry /\ None \notin Subject

VARIABLES cache,    \* cache[k]: the entry stored under k, or None
          pc,       \* pc[r]: where r is in Exchange
          subject,  \* subject[r]: the argument subjectToken
          token,    \* token[r]: the token r holds: ct.token, swapped, or returned
          ttl,      \* ttl[r]: the time left to ct.expires, or the ttl fetch returned
          timer     \* timer[r]: what is left of the step's time

vars == <<cache, pc, subject, token, ttl, timer>>

\* Mutant: the key names what is asked for, not who asks.
cacheKey_Audience(s) == [sha256 |-> "audience"]

\* The cache never holds a subject token, only its digest.
cacheKey(s) == [sha256 |-> s]

Key == {cacheKey(s) : s \in Subject}

\* Mutant: the margin is forgotten.
cacheTTL_NoMargin(d) == IF d > CacheCap THEN CacheCap ELSE d

\* How long an answer good for d ticks is cached, if that is positive.
cacheTTL(d) == IF d - Margin > CacheCap THEN CacheCap ELSE d - Margin

Less(n) == IF n = 0 THEN 0 ELSE n - 1

Older(t) == [t EXCEPT !.left = Less(@)]

Finished == {"idle", "served", "failed"}

Step == Finished \cup {"load", "check", "miss", "fetch", "store"}
-------------------------------------------------------------------------------
Init ==
    /\ cache = [k \in Key |-> None]
    /\ pc = [r \in Request |-> "idle"]
    /\ subject = [r \in Request |-> None]
    /\ token = [r \in Request |-> None]
    /\ ttl = [r \in Request |-> 0]
    /\ timer = [r \in Request |-> 0]

\* r moves on to step, holding t with duration d, with n ticks to complete it.
Goto(r, step, t, d, n) ==
    /\ pc' = [pc EXCEPT ![r] = step]
    /\ token' = [token EXCEPT ![r] = t]
    /\ ttl' = [ttl EXCEPT ![r] = d]
    /\ timer' = [timer EXCEPT ![r] = n]

Call(r, s) ==
    /\ pc[r] \in Finished
    /\ subject' = [subject EXCEPT ![r] = s]
    /\ Goto(r, "load", None, 0, 0)
    /\ UNCHANGED cache

\* e.cache.Load(key) finds nothing.
LoadMiss(r) ==
    /\ pc[r] = "load"
    /\ cache[cacheKey(subject[r])] = None
    /\ Goto(r, "miss", None, 0, 0)
    /\ UNCHANGED <<cache, subject>>

\* e.cache.Load(key) copies the entry; the expiry check is a later step.
LoadHit(r) ==
    /\ pc[r] = "load"
    /\ cache[cacheKey(subject[r])] # None
    /\ LET ct == cache[cacheKey(subject[r])]
       IN  Goto(r, "check", ct.token, ct.ttl, 0)
    /\ UNCHANGED <<cache, subject>>

\* Mutant: an entry is served without a look at its expiry.
ServeHit_Unchecked(r) ==
    /\ pc[r] = "check"
    /\ Goto(r, "served", token[r], 0, 0)
    /\ UNCHANGED <<cache, subject>>

\* now() is before the copy's expiry: its token is the answer.
ServeHit(r) ==
    /\ pc[r] = "check"
    /\ ttl[r] > 0
    /\ Goto(r, "served", token[r], 0, 0)
    /\ UNCHANGED <<cache, subject>>

\* The copy has expired: whatever is now under the key is deleted.
Evict(r) ==
    /\ pc[r] = "check"
    /\ ttl[r] = 0
    /\ cache' = [cache EXCEPT ![cacheKey(subject[r])] = None]
    /\ Goto(r, "miss", None, 0, 0)
    /\ UNCHANGED subject

\* Mutant: the exchange uses a client with a longer timeout.
Fetch_SlowClient(r) ==
    /\ pc[r] = "miss"
    /\ Goto(r, "fetch", None, 0, FetchTimeout + 1)
    /\ UNCHANGED <<cache, subject>>

\* fetch posts the subject token to the authorization server.
Fetch(r) ==
    /\ pc[r] = "miss"
    /\ Goto(r, "fetch", None, 0, FetchTimeout)
    /\ UNCHANGED <<cache, subject>>

\* The authorization server mints a token that lives l ticks and states
\* this lifetime as expires_in, or leaves it out and fetch reads 0.
Issue(r, l, stated) ==
    /\ pc[r] = "fetch" /\ token[r] = None /\ timer[r] > 0
    /\ Goto(r, "fetch", [owner |-> subject[r], left |-> l], IF stated THEN l ELSE 0, timer[r])
    /\ UNCHANGED <<cache, subject>>

\* fetch has read and decoded the answer.  It may be the client's timeout that ends
\* the reading: its error is discarded, and what was read decodes if it is whole.
Receive(r) ==
    /\ pc[r] = "fetch" /\ token[r] # None
    /\ Goto(r, "store", token[r], ttl[r], MaxPause)
    /\ UNCHANGED <<cache, subject>>

\* Mutant: the error is dropped and the empty token returned.
FetchFails_Open(r) ==
    /\ pc[r] = "fetch"
    /\ Goto(r, "served", None, 0, 0)
    /\ UNCHANGED <<cache, subject>>

\* A transport error, a status other than 200, a body that does not decode or
\* has no access_token, a cancelled context: any of them, at any moment.
FetchFails(r) ==
    /\ pc[r] = "fetch"
    /\ Goto(r, "failed", None, 0, 0)
    /\ UNCHANGED <<cache, subject>>

\* Mutant: the timeout covers the body of an answer, not the wait for one.
Timeout_BodyOnly(r) == timer[r] = 0 /\ token[r] # None /\ FetchFails(r)

\* The client's timeout: Do, or the reading of the body, ends in an error.
Timeout(r) == timer[r] = 0 /\ FetchFails(r)

\* Mutant: a duration that is not positive is stored too.
Store_Always(r) ==
    /\ pc[r] = "store"
    /\ cache' = [cache EXCEPT ![cacheKey(subject[r])] =
                    [token |-> token[r], ttl |-> cacheTTL(ttl[r])]]
    /\ Goto(r, "served", token[r], 0, 0)
    /\ UNCHANGED subject

\* The answer is worth caching; `expires` is dated from now.
Store(r) ==
    /\ pc[r] = "store"
    /\ cacheTTL(ttl[r]) > 0
    /\ cache' = [cache EXCEPT ![cacheKey(subject[r])] =
                    [token |-> token[r], ttl |-> cacheTTL(ttl[r])]]
    /\ Goto(r, "served", token[r], 0, 0)
    /\ UNCHANGED subject

\* The answer is too short-lived to cache: it is returned all the same.
SkipStore(r) ==
    /\ pc[r] = "store"
    /\ cacheTTL(ttl[r]) <= 0
    /\ Goto(r, "served", token[r], 0, 0)
    /\ UNCHANGED <<cache, subject>>

\* A tick of time.  No answer is read beyond the client's timeout, and a request that
\* has read its own takes at most MaxPause ticks to read the clock; a token is no
\* longer followed once it has been returned.
Tick ==
    /\ \A r \in Request :
          pc[r] = "store" \/ (pc[r] = "fetch" /\ token[r] # None) => timer[r] > 0
    /\ cache' = [k \in Key |->
                    IF cache[k] = None THEN None
                    ELSE [token |-> Older(cache[k].token), ttl |-> Less(cache[k].ttl)]]
    /\ token' = [r \in Request |->
                    IF token[r] = None \/ pc[r] = "served" THEN token[r] ELSE Older(token[r])]
    /\ ttl' = [r \in Request |-> IF pc[r] = "check" THEN Less(ttl[r]) ELSE ttl[r]]
    /\ timer' = [r \in Request |-> Less(timer[r])]
    /\ UNCHANGED <<pc, subject>>

\* The steps the code itself takes, with the client's timeout among them.
Proceed(r) ==
    \/ LoadMiss(r)
    \/ LoadHit(r)
    \/ ServeHit(r)
    \/ Evict(r)
    \/ Fetch(r)
    \/ Receive(r)
    \/ Timeout(r)
    \/ Store(r)
    \/ SkipStore(r)

Next ==
    \/ \E r \in Request :
          \/ \E s \in Subject : Call(r, s)
          \/ Proceed(r)
          \/ \E l \in Lifetimes, stated \in BOOLEAN : Issue(r, l, stated)
          \/ FetchFails(r)
    \/ Tick

Spec == Init /\ [][Next]_vars

\* Goroutines are scheduled and time passes; that a Tick waits for a request
\* at the end of its read or of its pause makes the second a strong fairness.  Neither callers
\* nor the authorization server owe a step.
FairSpec == Spec /\ (\A r \in Request : WF_vars(Proceed(r))) /\ SF_vars(Tick)
-------------------------------------------------------------------------------
TypeOK ==
    /\ cache \in [Key -> Entry \cup {None}]
    /\ pc \in [Request -> Step]
    /\ subject \in [Request -> Subject \cup {None}]
    /\ token \in [Request -> Token \cup {None}]
    /\ ttl \in [Request -> Nat]
    /\ timer \in [Request -> Nat]

\* What a token that is served from the cache has left beyond its entry's ttl.
Slack == Margin - FetchTimeout - MaxPause

\* A caller is only ever given a token that was minted for its own subject
\* token, whoever filled the cache and whatever request overtook it.
OwnTokenOnly ==
    \A r \in Request : pc[r] = "served" => token[r] # None /\ token[r].owner = subject[r]

\* An entry ends before its token does, by the slack the margin leaves once the
\* answer's way back and the pause before `now()` are taken off, and no entry
\* is good for longer than the cap.
EntryEndsBeforeToken ==
    \A k \in Key :
        cache[k] # None => /\ cache[k].ttl <= CacheCap
                           /\ cache[k].ttl > 0 => cache[k].ttl + Slack <= cache[k].token.left

\* The answer a request holds has lost to time, of the lifetime stated for it, at
\* most what the client's timeout has used up and the pause since then: this is
\* what a `expires` dated from now(), not from the minting, relies on.
AnswerAgeBounded ==
    \A r \in Request :
        /\ pc[r] = "fetch" /\ token[r] # None =>
              ttl[r] <= token[r].left + (FetchTimeout - timer[r])
        /\ pc[r] = "store" =>
              ttl[r] <= token[r].left + FetchTimeout + (MaxPause - timer[r])

\* A request that loaded an entry, lost the processor and then found its copy
\* unexpired returns a token that is still good, with the slack to spare.
HitIsFresh ==
    [][\A r \in Request :
          pc[r] = "check" /\ pc'[r] = "served" => token'[r].left > Slack]_vars

\* Every call of Exchange returns, even if the authorization server is silent.
ExchangeReturns == \A r \in Request : pc[r] \notin Finished ~> pc[r] \in Finished

\* How far a request at step, holding t, has come as TokenSwap sees it.
callState(step, t) ==
    IF step = "served" THEN "done"
    ELSE IF step \in {"idle", "failed"} THEN step
    ELSE IF step \in {"fetch", "store"} /\ t # None THEN "minted"
    ELSE "pending"

callMapping == [r \in Request |-> callState(pc[r], token[r])]

resultMapping == [r \in Request |-> IF pc[r] = "served" THEN token[r] ELSE None]

Swap == INSTANCE TokenSwap WITH call <- callMapping, result <- resultMapping

\* The exchanger keeps the promise of TokenSwap: the cache, the timeouts and the
\* races between requests do not show.
SwapSpec == Swap!Spec
===============================================================================
