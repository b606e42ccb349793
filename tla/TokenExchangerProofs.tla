------------------------ MODULE TokenExchangerProofs ------------------------
(***************************************************************************)
(* Proofs about TokenExchanger, for any number of requests and subjects    *)
(* and any durations that satisfy DurationAssumption.                      *)
(***************************************************************************)
EXTENDS TokenExchanger, TLAPS

\* A request past its first step has a subject, one that looks at an entry, has
\* an answer or has returned one holds a token, and nobody holds another's.
HoldsOwnToken ==
    \A r \in Request :
        /\ pc[r] # "idle" => subject[r] \in Subject
        /\ pc[r] \in {"check", "store", "served"} => token[r] # None
        /\ token[r] # None => pc[r] # "idle" /\ token[r].owner = subject[r]

\* What is stored under a subject token's key was minted for it.
CacheKeepsOwner ==
    \A s \in Subject :
        cache[cacheKey(s)] # None => cache[cacheKey(s)].token.owner = s

\* The copy a request loaded is as sound as the entry was.
LoadedEndsBeforeToken ==
    \A r \in Request :
        pc[r] = "check" /\ ttl[r] > 0 => ttl[r] + Slack <= token[r].left

\* No fetch has longer to go than the client's timeout.
FetchIsTimed ==
    \A r \in Request : pc[r] = "fetch" => timer[r] <= FetchTimeout

Inv ==
    /\ TypeOK
    /\ HoldsOwnToken
    /\ FetchIsTimed
    /\ CacheKeepsOwner
    /\ EntryEndsBeforeToken
    /\ AnswerAgeBounded
    /\ LoadedEndsBeforeToken
-----------------------------------------------------------------------------
LEMMA KeyOfSubject ==
    /\ \A s \in Subject : cacheKey(s) \in Key
    /\ \A s, t \in Subject : cacheKey(s) = cacheKey(t) => s = t
    /\ \A k \in Key : \E s \in Subject : k = cacheKey(s)
<1>1. \A s : cacheKey(s).sha256 = s
  BY DEF cacheKey
<1>2. QED
  BY <1>1 DEF Key

LEMMA OlderToken ==
    ASSUME NEW t \in Token
    PROVE  /\ Older(t) \in Token
           /\ Older(t).owner = t.owner
           /\ Older(t).left = Less(t.left)
BY DEF Older, Token, Less

LEMMA CacheTTLBound ==
    ASSUME NEW d \in Nat, cacheTTL(d) > 0
    PROVE  cacheTTL(d) \in Nat /\ cacheTTL(d) <= CacheCap /\ cacheTTL(d) + Margin <= d
BY DurationAssumption DEF cacheTTL

LEMMA SlackIsNat == Slack \in Nat /\ Slack + FetchTimeout + MaxPause = Margin
BY DurationAssumption DEF Slack

LEMMA InitInv == Init => Inv
BY DurationAssumption
DEF Init, Inv, TypeOK, HoldsOwnToken, CacheKeepsOwner, EntryEndsBeforeToken,
    AnswerAgeBounded, LoadedEndsBeforeToken, FetchIsTimed, Step, Finished, Key

\* The typing of everything but the cache, which a request's own step and Tick
\* disturb differently.
RequestsTyped ==
    /\ pc \in [Request -> Step]
    /\ subject \in [Request -> Subject \cup {None}]
    /\ token \in [Request -> Token \cup {None}]
    /\ ttl \in [Request -> Nat]
    /\ timer \in [Request -> Nat]

\* The parts of Inv about the requests, and those about the cache.
RequestsInv ==
    /\ RequestsTyped
    /\ HoldsOwnToken
    /\ FetchIsTimed
    /\ AnswerAgeBounded
    /\ LoadedEndsBeforeToken

CacheInv == cache \in [Key -> Entry \cup {None}] /\ CacheKeepsOwner /\ EntryEndsBeforeToken

LEMMA InvParts == Inv <=> RequestsInv /\ CacheInv
BY DEF Inv, RequestsInv, CacheInv, TypeOK, RequestsTyped

\* A request's step keeps its part of the invariant when what it moves on with
\* satisfies it; the other requests are not touched.
LEMMA GotoKeepsRequestsInv ==
    ASSUME RequestsInv, NEW r \in Request, NEW s \in Subject,
           NEW step \in Step \ {"idle"}, NEW t \in Token \cup {None},
           NEW d \in Nat, NEW n \in Nat,
           Goto(r, step, t, d, n),
           subject' = [subject EXCEPT ![r] = s],
           t # None => t.owner = s,
           step \in {"check", "store", "served"} => t # None,
           step = "check" /\ d > 0 => d + Slack <= t.left,
           step = "fetch" => n <= FetchTimeout,
           step = "fetch" /\ t # None => d <= t.left + (FetchTimeout - n),
           step = "store" => d <= t.left + FetchTimeout + (MaxPause - n)
    PROVE  RequestsInv'
<1>1. RequestsTyped'
  BY DEF RequestsInv, RequestsTyped, Goto
<1>2. \A q \in Request : q # r =>
         /\ pc'[q] = pc[q] /\ subject'[q] = subject[q] /\ token'[q] = token[q]
         /\ ttl'[q] = ttl[q] /\ timer'[q] = timer[q]
  BY DEF RequestsInv, RequestsTyped, Goto
<1>3. /\ pc'[r] = step /\ subject'[r] = s /\ token'[r] = t
      /\ ttl'[r] = d /\ timer'[r] = n
  BY DEF RequestsInv, RequestsTyped, Goto
<1>4. HoldsOwnToken'
  BY <1>2, <1>3 DEF RequestsInv, HoldsOwnToken
<1>5. AnswerAgeBounded'
  BY <1>2, <1>3 DEF RequestsInv, AnswerAgeBounded
<1>6. LoadedEndsBeforeToken'
  BY <1>2, <1>3 DEF RequestsInv, LoadedEndsBeforeToken, Slack
<1>7. FetchIsTimed'
  BY <1>2, <1>3 DEF RequestsInv, FetchIsTimed
<1>8. QED
  BY <1>1, <1>4, <1>5, <1>6, <1>7 DEF RequestsInv

LEMMA SameCache == CacheInv /\ UNCHANGED cache => CacheInv'
BY DEF CacheInv, CacheKeepsOwner, EntryEndsBeforeToken, Slack

\* A subject that does not change is the same as one set to what it was.
LEMMA SameSubject ==
    ASSUME RequestsInv, NEW r \in Request, pc[r] # "idle", UNCHANGED subject
    PROVE  subject[r] \in Subject /\ subject' = [subject EXCEPT ![r] = subject[r]]
BY DEF RequestsInv, RequestsTyped, HoldsOwnToken

LEMMA RequestStepKeepsInv ==
    ASSUME Inv, NEW r \in Request,
           \/ \E s \in Subject : Call(r, s)
           \/ Proceed(r)
           \/ \E l \in Lifetimes, stated \in BOOLEAN : Issue(r, l, stated)
           \/ FetchFails(r)
    PROVE  Inv'
<1> USE DurationAssumption, NoneAssumption
<1>1. RequestsInv /\ CacheInv
  BY InvParts
<1>2. SUFFICES RequestsInv' /\ CacheInv'
  BY InvParts, PTL
<1>3. CASE \E s \in Subject : Call(r, s)
  <2>1. PICK s \in Subject : Call(r, s)
    BY <1>3
  <2>2. RequestsInv'
    BY <1>1, <2>1, GotoKeepsRequestsInv DEF Call, Step, Finished, RequestsInv, RequestsTyped
  <2>3. QED
    BY <1>1, <2>1, <2>2, SameCache DEF Call
<1>4. CASE LoadMiss(r)
  BY <1>1, <1>4, SameSubject, SameCache, GotoKeepsRequestsInv DEF LoadMiss, Step, Finished
<1>5. CASE LoadHit(r)
  <2> DEFINE ct == cache[cacheKey(subject[r])]
  <2>1. subject[r] \in Subject /\ subject' = [subject EXCEPT ![r] = subject[r]]
    BY <1>1, <1>5, SameSubject DEF LoadHit
  <2>2. ct \in Entry /\ ct.token.owner = subject[r] /\ (ct.ttl > 0 => ct.ttl + Slack <= ct.token.left)
    BY <1>1, <1>5, <2>1, KeyOfSubject DEF LoadHit, CacheInv, CacheKeepsOwner, EntryEndsBeforeToken
  <2>3. Goto(r, "check", ct.token, ct.ttl, 0) /\ ct.token \in Token /\ ct.ttl \in Nat
    BY <1>5, <2>2 DEF LoadHit, Entry
  <2>4. RequestsInv'
    <3> HIDE DEF ct
    <3> QED
      BY <1>1, <2>1, <2>2, <2>3, GotoKeepsRequestsInv DEF Step, Finished
  <2>5. QED
    BY <1>1, <1>5, <2>4, SameCache DEF LoadHit
<1>6. CASE ServeHit(r)
  <2>1. token[r] \in Token /\ token[r].owner = subject[r]
    BY <1>1, <1>6 DEF ServeHit, RequestsInv, RequestsTyped, HoldsOwnToken
  <2>2. QED
    BY <1>1, <1>6, <2>1, SameSubject, SameCache, GotoKeepsRequestsInv DEF ServeHit, Step, Finished
<1>7. CASE Evict(r)
  <2>1. RequestsInv'
    BY <1>1, <1>7, SameSubject, GotoKeepsRequestsInv DEF Evict, Step, Finished
  <2>2. CacheInv'
    BY <1>1, <1>7, KeyOfSubject DEF Evict, CacheInv, CacheKeepsOwner, EntryEndsBeforeToken, Slack
  <2>3. QED
    BY <2>1, <2>2
<1>8. CASE Fetch(r)
  BY <1>1, <1>8, SameSubject, SameCache, GotoKeepsRequestsInv DEF Fetch, Step, Finished
<1>9. CASE Receive(r)
  <2>1. token[r] \in Token /\ token[r].owner = subject[r] /\ ttl[r] \in Nat /\ timer[r] \in Nat
    BY <1>1, <1>9 DEF Receive, RequestsInv, RequestsTyped, HoldsOwnToken
  <2>2. ttl[r] <= token[r].left + FetchTimeout + (MaxPause - MaxPause)
    BY <1>1, <1>9, <2>1 DEF Receive, RequestsInv, AnswerAgeBounded, Token
  <2>3. QED
    BY <1>1, <1>9, <2>1, <2>2, SameSubject, SameCache, GotoKeepsRequestsInv
    DEF Receive, Step, Finished
<1>10. CASE FetchFails(r)
  BY <1>1, <1>10, SameSubject, SameCache, GotoKeepsRequestsInv DEF FetchFails, Step, Finished
<1>11. CASE Store(r)
  <2> DEFINE kept == cacheTTL(ttl[r])
             entry == [token |-> token[r], ttl |-> kept]
  <2>1. /\ token[r] \in Token /\ token[r].owner = subject[r]
        /\ ttl[r] \in Nat /\ timer[r] \in Nat
        /\ ttl[r] <= token[r].left + FetchTimeout + (MaxPause - timer[r])
    BY <1>1, <1>11 DEF Store, RequestsInv, RequestsTyped, HoldsOwnToken, AnswerAgeBounded
  <2>2. kept \in Nat /\ kept <= CacheCap /\ kept + Margin <= ttl[r]
    BY <1>11, <2>1, CacheTTLBound DEF Store
  <2>3. entry \in Entry /\ entry.ttl <= CacheCap /\ entry.ttl + Slack <= entry.token.left
    <3> HIDE DEF kept
    <3> QED
      BY <2>1, <2>2, SlackIsNat DEF Entry, Token
  <2>4. RequestsInv'
    BY <1>1, <1>11, <2>1, SameSubject, GotoKeepsRequestsInv DEF Store, Step, Finished
  <2>5. subject[r] \in Subject /\ cache' = [cache EXCEPT ![cacheKey(subject[r])] = entry]
    BY <1>1, <1>11, SameSubject DEF Store
  <2>6. CacheInv'
    <3> HIDE DEF entry
    <3>1. cache' \in [Key -> Entry \cup {None}]
      BY <1>1, <2>3, <2>5, KeyOfSubject DEF CacheInv
    <3>2. CacheKeepsOwner'
      <4> SUFFICES ASSUME NEW s \in Subject, cache'[cacheKey(s)] # None
                   PROVE  cache'[cacheKey(s)].token.owner = s
        BY DEF CacheKeepsOwner
      <4>1. CASE s = subject[r]
        BY <1>1, <2>1, <2>5, <4>1, KeyOfSubject DEF CacheInv, entry
      <4>2. CASE s # subject[r]
        BY <1>1, <2>5, <4>2, KeyOfSubject DEF CacheInv, CacheKeepsOwner
      <4>3. QED
        BY <4>1, <4>2
    <3>3. EntryEndsBeforeToken'
      BY <1>1, <2>3, <2>5, KeyOfSubject DEF CacheInv, EntryEndsBeforeToken, Slack
    <3>4. QED
      BY <3>1, <3>2, <3>3 DEF CacheInv
  <2>7. QED
    BY <2>4, <2>6
<1>12. CASE SkipStore(r)
  <2>1. token[r] \in Token /\ token[r].owner = subject[r]
    BY <1>1, <1>12 DEF SkipStore, RequestsInv, RequestsTyped, HoldsOwnToken
  <2>2. QED
    BY <1>1, <1>12, <2>1, SameSubject, SameCache, GotoKeepsRequestsInv
    DEF SkipStore, Step, Finished
<1>13. ASSUME NEW l \in Lifetimes, NEW stated \in BOOLEAN, Issue(r, l, stated)
       PROVE  RequestsInv' /\ CacheInv'
  <2> DEFINE t == [owner |-> subject[r], left |-> l]
             d == IF stated THEN l ELSE 0
  <2>1. subject[r] \in Subject /\ subject' = [subject EXCEPT ![r] = subject[r]]
    BY <1>1, <1>13, SameSubject DEF Issue
  <2>2. t \in Token /\ t.owner = subject[r] /\ t.left = l /\ d \in Nat /\ d <= l
    BY <2>1 DEF Token
  <2>3. pc[r] = "fetch" /\ timer[r] \in Nat /\ timer[r] <= FetchTimeout
    BY <1>1, <1>13 DEF Issue, RequestsInv, RequestsTyped, FetchIsTimed
  <2>4. RequestsInv'
    <3>1. Goto(r, "fetch", t, d, timer[r])
      BY <1>13 DEF Issue
    <3>2. d <= t.left + (FetchTimeout - timer[r])
      <4> HIDE DEF d
      <4> QED
        BY <2>2, <2>3, DurationAssumption
    <3> HIDE DEF t, d
    <3>3. QED
      BY <1>1, <2>1, <2>2, <2>3, <3>1, <3>2, GotoKeepsRequestsInv DEF Step, Finished
  <2>5. QED
    BY <1>1, <1>13, <2>4, SameCache DEF Issue
<1>14. QED
  BY <1>3, <1>4, <1>5, <1>6, <1>7, <1>8, <1>9, <1>10, <1>11, <1>12, <1>13 DEF Proceed, Timeout

\* Time lowers both sides of every bound together: a token may reach 0 first
\* only where the bound leaves no time to the other side either.
LEMMA TickKeepsInv == Inv /\ Tick => Inv'
<1> SUFFICES ASSUME Inv, Tick PROVE RequestsInv' /\ CacheInv'
  BY InvParts, PTL
<1> USE DurationAssumption, NoneAssumption
<1>1. RequestsInv /\ CacheInv
  BY InvParts
<1>2. RequestsInv'
  <2>1. RequestsTyped'
    <3>1. \A n \in Nat : Less(n) \in Nat
      BY DEF Less
    <3>2. \A r \in Request : token[r] # None => Older(token[r]) \in Token
      BY <1>1, OlderToken DEF RequestsInv, RequestsTyped
    <3>3. token' \in [Request -> Token \cup {None}]
      BY <1>1, <3>2 DEF RequestsInv, RequestsTyped, Tick
    <3>4. ttl' \in [Request -> Nat] /\ timer' \in [Request -> Nat]
      BY <1>1, <3>1 DEF RequestsInv, RequestsTyped, Tick
    <3>5. QED
      BY <1>1, <3>3, <3>4 DEF RequestsInv, RequestsTyped, Tick
  <2>2. \A r \in Request :
           /\ pc'[r] = pc[r] /\ subject'[r] = subject[r]
           /\ token'[r] = IF token[r] = None \/ pc[r] = "served" THEN token[r] ELSE Older(token[r])
           /\ ttl'[r] = IF pc[r] = "check" THEN Less(ttl[r]) ELSE ttl[r]
           /\ timer'[r] = Less(timer[r])
           /\ token[r] # None => token[r] \in Token
           /\ ttl[r] \in Nat /\ timer[r] \in Nat
    BY <1>1 DEF RequestsInv, RequestsTyped, Tick
  <2>3. HoldsOwnToken'
    BY <1>1, <2>2, OlderToken DEF RequestsInv, HoldsOwnToken
  <2>4. FetchIsTimed'
    BY <1>1, <2>2 DEF RequestsInv, FetchIsTimed, Less
  <2>5. AnswerAgeBounded'
    <3> SUFFICES ASSUME NEW r \in Request
                 PROVE  /\ pc'[r] = "fetch" /\ token'[r] # None =>
                              ttl'[r] <= token'[r].left + (FetchTimeout - timer'[r])
                        /\ pc'[r] = "store" =>
                              ttl'[r] <= token'[r].left + FetchTimeout + (MaxPause - timer'[r])
      BY DEF AnswerAgeBounded
    <3>1. CASE token[r] = None
      BY <1>1, <2>2, <3>1 DEF RequestsInv, HoldsOwnToken
    <3>2. CASE token[r] # None /\ pc[r] \in {"fetch", "store"}
      <4>1. token[r].left \in Nat /\ token'[r].left = Less(token[r].left)
        BY <2>2, <3>2, OlderToken DEF Token
      <4>2. timer[r] > 0
        BY <3>2 DEF Tick
      <4>3. QED
        BY <1>1, <2>2, <3>2, <4>1, <4>2 DEF RequestsInv, AnswerAgeBounded, Less
    <3>3. QED
      BY <2>2, <3>1, <3>2
  <2>6. LoadedEndsBeforeToken'
    <3> SUFFICES ASSUME NEW r \in Request, pc'[r] = "check", ttl'[r] > 0
                 PROVE  ttl'[r] + Slack <= token'[r].left
      BY DEF LoadedEndsBeforeToken, Slack
    <3>1. token[r] \in Token /\ token[r].left \in Nat /\ token'[r].left = Less(token[r].left)
      BY <1>1, <2>2, OlderToken DEF RequestsInv, HoldsOwnToken, Token
    <3>2. QED
      BY <1>1, <2>2, <3>1, SlackIsNat DEF RequestsInv, LoadedEndsBeforeToken, Less
  <2>7. QED
    BY <2>1, <2>3, <2>4, <2>5, <2>6 DEF RequestsInv
<1>3. CacheInv'
  <2>1. ASSUME NEW k \in Key
        PROVE  /\ cache[k] = None => cache'[k] = None
               /\ cache[k] # None =>
                     /\ cache[k] \in Entry /\ cache'[k] \in Entry
                     /\ cache'[k].ttl = Less(cache[k].ttl)
                     /\ cache'[k].token.owner = cache[k].token.owner
                     /\ cache'[k].token.left = Less(cache[k].token.left)
    <3>1. CASE cache[k] = None
      BY <3>1 DEF Tick
    <3>2. CASE cache[k] # None
      <4>1. cache'[k] = [token |-> Older(cache[k].token), ttl |-> Less(cache[k].ttl)]
        BY <3>2 DEF Tick
      <4>2. cache[k] \in Entry /\ cache[k].token \in Token /\ cache[k].ttl \in Nat
        BY <1>1, <3>2 DEF CacheInv, Entry
      <4>3. Less(cache[k].ttl) \in Nat
        BY <4>2 DEF Less
      <4>4. QED
        BY <3>2, <4>1, <4>2, <4>3, OlderToken DEF Entry
    <3>3. QED
      BY <3>1, <3>2
  <2>2. cache' \in [Key -> Entry \cup {None}]
    <3>1. \A k \in Key : cache'[k] \in Entry \cup {None}
      BY <2>1
    <3>2. cache' = [k \in Key |-> cache'[k]]
      BY DEF Tick
    <3>3. QED
      BY <3>1, <3>2
  <2>3. CacheKeepsOwner'
    BY <1>1, <2>1, KeyOfSubject DEF CacheInv, CacheKeepsOwner
  <2>4. EntryEndsBeforeToken'
    <3> SUFFICES ASSUME NEW k \in Key, cache'[k] # None
                 PROVE  /\ cache'[k].ttl <= CacheCap
                        /\ cache'[k].ttl > 0 => cache'[k].ttl + Slack <= cache'[k].token.left
      BY DEF EntryEndsBeforeToken, Slack
    <3>1. cache[k] # None /\ cache[k].ttl \in Nat /\ cache[k].token.left \in Nat
      BY <2>1 DEF Entry, Token
    <3>2. QED
      BY <1>1, <2>1, <3>1, SlackIsNat DEF CacheInv, EntryEndsBeforeToken, Less
  <2>5. QED
    BY <2>2, <2>3, <2>4 DEF CacheInv
<1>4. QED
  BY <1>2, <1>3

LEMMA NextKeepsInv == Inv /\ [Next]_vars => Inv'
<1> SUFFICES ASSUME Inv, [Next]_vars PROVE Inv'
  OBVIOUS
<1>1. CASE Next
  BY <1>1, RequestStepKeepsInv, TickKeepsInv DEF Next
<1>2. CASE UNCHANGED vars
  BY <1>2 DEF vars, Inv, TypeOK, HoldsOwnToken, FetchIsTimed, CacheKeepsOwner,
              EntryEndsBeforeToken, AnswerAgeBounded, LoadedEndsBeforeToken, Slack
<1>3. QED
  BY <1>1, <1>2

THEOREM Invariance == Spec => []Inv
BY InitInv, NextKeepsInv, PTL DEF Spec

\* TypeOK, in every reachable state and for all parameters.
THEOREM TypeCorrect == Spec => []TypeOK
BY Invariance, PTL DEF Inv

\* No interleaving of calls, however the answers of the authorization server are
\* ordered and whoever fills the cache, gives a caller another caller's token.
THEOREM OwnTokens == Spec => []OwnTokenOnly
<1>1. Inv => OwnTokenOnly
  BY DEF Inv, HoldsOwnToken, OwnTokenOnly
<1>2. QED
  BY <1>1, Invariance, PTL

\* Every cache entry ends before its token does, by the slack of the margin.
THEOREM EntriesEnd == Spec => []EntryEndsBeforeToken
BY Invariance, PTL DEF Inv

\* What a request's answer may have aged when its entry is dated.
THEOREM AnswerAges == Spec => []AnswerAgeBounded
BY Invariance, PTL DEF Inv

\* A token served from the cache still has more than the slack to live.
THEOREM HitsAreFresh == Spec => HitIsFresh
<1>1. ASSUME Inv, [Next]_vars, NEW r \in Request, pc[r] = "check", pc'[r] = "served"
      PROVE  token'[r].left > Slack
  <2>1. ServeHit(r)
    <3>1. \A q \in Request : \A step, t, d, n :
             Goto(q, step, t, d, n) => pc' = [pc EXCEPT ![q] = step]
      BY DEF Goto
    <3>2. pc \in [Request -> Step]
      BY <1>1 DEF Inv, TypeOK
    <3>3. PICK q \in Request :
             \/ \E s \in Subject : Call(q, s)
             \/ Proceed(q)
             \/ \E l \in Lifetimes, stated \in BOOLEAN : Issue(q, l, stated)
             \/ FetchFails(q)
      BY <1>1 DEF Next, Tick, vars
    <3>4. q = r
      BY <1>1, <3>1, <3>2, <3>3 DEF Call, Proceed, LoadMiss, LoadHit, ServeHit, Evict, Fetch,
         Issue, Receive, Timeout, FetchFails, Store, SkipStore
    <3>5. QED
      BY <1>1, <3>1, <3>2, <3>3, <3>4 DEF Call, Proceed, LoadMiss, LoadHit, Evict, Fetch,
         Issue, Receive, Timeout, FetchFails, Store, SkipStore, Finished
  <2>2. token[r] \in Token /\ token'[r] = token[r] /\ ttl[r] \in Nat /\ ttl[r] > 0
    BY <1>1, <2>1 DEF Inv, TypeOK, HoldsOwnToken, ServeHit, Goto
  <2>3. ttl[r] + Slack <= token[r].left
    BY <1>1, <2>2 DEF Inv, LoadedEndsBeforeToken
  <2>4. QED
    BY <2>2, <2>3, SlackIsNat DEF Token
<1>2. Inv /\ [Next]_vars =>
         [\A r \in Request : pc[r] = "check" /\ pc'[r] = "served" => token'[r].left > Slack]_vars
  BY <1>1
<1>3. QED
  BY <1>2, Invariance, PTL DEF Spec, HitIsFresh
-----------------------------------------------------------------------------
\* What a request's step is to TokenSwap: a change of its own entries only.
LEMMA GotoMaps ==
    ASSUME TypeOK, NEW r \in Request, NEW step, NEW t, NEW d, NEW n,
           Goto(r, step, t, d, n)
    PROVE  /\ callMapping' = [callMapping EXCEPT ![r] = callState(step, t)]
           /\ resultMapping' =
                 [resultMapping EXCEPT ![r] = IF step = "served" THEN t ELSE None]
<1>1. /\ pc' = [pc EXCEPT ![r] = step] /\ pc \in [Request -> Step]
      /\ token' = [token EXCEPT ![r] = t] /\ token \in [Request -> Token \cup {None}]
  BY DEF Goto, TypeOK
<1>2. callMapping' = [callMapping EXCEPT ![r] = callState(step, t)]
  BY <1>1 DEF callMapping, callState
<1>3. resultMapping' = [resultMapping EXCEPT ![r] = IF step = "served" THEN t ELSE None]
  BY <1>1 DEF resultMapping
<1>4. QED
  BY <1>2, <1>3

LEMMA InitMaps == Init => Swap!Init
BY DEF Init, Swap!Init, callMapping, callState, resultMapping

\* Each step of the exchanger is a step of TokenSwap or leaves its state alone.
LEMMA NextMaps ==
    ASSUME Inv, [Next]_vars
    PROVE  [Swap!Next]_(Swap!vars)
<1> USE DEF callState, Swap!vars
<1>0. /\ TypeOK
      /\ \A r \in Request : /\ callMapping[r] = callState(pc[r], token[r])
                            /\ resultMapping[r] = IF pc[r] = "served" THEN token[r] ELSE None
  BY DEF Inv, callMapping, resultMapping
<1>a. ASSUME NEW r \in Request, pc[r] # "served", UNCHANGED subject, NEW step, NEW t, NEW d, NEW n,
              Goto(r, step, t, d, n), step # "served",
              callState(step, t) = callState(pc[r], token[r])
       PROVE  UNCHANGED Swap!vars
  <2>1. callMapping[r] = callState(step, t) /\ resultMapping[r] = None
    BY <1>0, <1>a
  <2>2. /\ callMapping' = [callMapping EXCEPT ![r] = callState(step, t)]
        /\ resultMapping' = [resultMapping EXCEPT ![r] = None]
    BY <1>0, <1>a, GotoMaps
  <2>3. callMapping' = callMapping
    <3> HIDE DEF callState
    <3>1. \A f, x : f[r] = x /\ f = [q \in Request |-> f[q]] => [f EXCEPT ![r] = x] = f
      OBVIOUS
    <3>2. QED
      BY <2>1, <2>2, <3>1 DEF callMapping
  <2>4. resultMapping' = resultMapping
    BY <2>1, <2>2 DEF resultMapping
  <2>5. QED
    BY <1>a, <2>3, <2>4
<1>1. ASSUME NEW r \in Request, NEW s \in Subject, Call(r, s)
      PROVE  Swap!Next
  <2>1. Swap!Invoke(r, s)
    BY <1>0, <1>1, GotoMaps DEF Call, Swap!Invoke, Finished, Inv, TypeOK
  <2>2. QED
    BY <2>1 DEF Swap!Next
<1>2. ASSUME NEW r \in Request, LoadMiss(r)
      PROVE  UNCHANGED Swap!vars
  BY <1>a, <1>2 DEF LoadMiss
<1>3. ASSUME NEW r \in Request, LoadHit(r)
      PROVE  UNCHANGED Swap!vars
  BY <1>a, <1>3 DEF LoadHit
<1>4. ASSUME NEW r \in Request, ServeHit(r)
      PROVE  Swap!Answer(r)
  <2>1. /\ token[r] \in Token /\ token[r].owner = subject[r]
        /\ ttl[r] \in Nat /\ ttl[r] + Slack <= token[r].left
    BY <1>4 DEF Inv, TypeOK, HoldsOwnToken, LoadedEndsBeforeToken, ServeHit
  <2>2. token[r] \in [owner : {subject[r]}, left : Nat] /\ token[r].left > Slack
    BY <1>4, <2>1, SlackIsNat DEF Token, ServeHit
  <2>3. /\ callMapping' = [callMapping EXCEPT ![r] = "done"]
        /\ resultMapping' = [resultMapping EXCEPT ![r] = token[r]]
        /\ UNCHANGED subject
    BY <1>0, <1>4, GotoMaps DEF ServeHit
  <2>4. QED
    BY <1>0, <1>4, <2>2, <2>3 DEF Swap!Answer, ServeHit, resultMapping
<1>5. ASSUME NEW r \in Request, Evict(r)
      PROVE  UNCHANGED Swap!vars
  BY <1>a, <1>5 DEF Evict
<1>6. ASSUME NEW r \in Request, Fetch(r)
      PROVE  UNCHANGED Swap!vars
  BY <1>a, <1>6 DEF Fetch
<1>7. ASSUME NEW r \in Request, Receive(r)
      PROVE  UNCHANGED Swap!vars
  BY <1>a, <1>7 DEF Receive
<1>8. ASSUME NEW r \in Request, FetchFails(r)
      PROVE  Swap!Fail(r)
  <2>1. /\ callMapping' = [callMapping EXCEPT ![r] = "failed"]
        /\ resultMapping' = [resultMapping EXCEPT ![r] = None]
        /\ UNCHANGED subject
    BY <1>0, <1>8, GotoMaps DEF FetchFails
  <2>2. QED
    BY <1>0, <1>8, <2>1 DEF Swap!Fail, FetchFails, resultMapping
<1>9. ASSUME NEW r \in Request, Store(r) \/ SkipStore(r)
      PROVE  Swap!Answer(r)
  <2>1. token[r] \in Token /\ token[r] # None /\ token[r].owner = subject[r]
    BY <1>9 DEF Inv, TypeOK, HoldsOwnToken, Store, SkipStore
  <2>2. token[r] \in [owner : {subject[r]}, left : Nat]
    BY <2>1 DEF Token
  <2>3. /\ callMapping' = [callMapping EXCEPT ![r] = "done"]
        /\ resultMapping' = [resultMapping EXCEPT ![r] = token[r]]
        /\ UNCHANGED subject
    BY <1>0, <1>9, GotoMaps DEF Store, SkipStore
  <2>4. callMapping[r] = "minted" /\ resultMapping'[r] = token[r]
    BY <1>0, <1>9, <2>1, <2>3 DEF Store, SkipStore, resultMapping
  <2>5. QED
    BY <2>2, <2>3, <2>4 DEF Swap!Answer
<1>10. ASSUME NEW r \in Request, NEW l \in Lifetimes, NEW stated \in BOOLEAN, Issue(r, l, stated)
       PROVE  Swap!Mint(r)
  <2>1. [owner |-> subject[r], left |-> l] # None
    BY <1>10, DurationAssumption, NoneAssumption DEF Issue, Inv, HoldsOwnToken, Token
  <2>2. /\ callMapping' = [callMapping EXCEPT ![r] = "minted"]
        /\ resultMapping' = [resultMapping EXCEPT ![r] = None]
        /\ UNCHANGED subject
    BY <1>0, <1>10, <2>1, GotoMaps DEF Issue
  <2>3. QED
    BY <1>0, <1>10, <2>2 DEF Swap!Mint, Issue, resultMapping
<1>11. ASSUME Tick PROVE UNCHANGED Swap!vars
  <2>1. \A r \in Request : /\ token[r] # None => token'[r] # None
                           /\ token[r] = None => token'[r] = None
                           /\ pc[r] = "served" => token'[r] = token[r]
    BY <1>11, OlderToken, NoneAssumption DEF Tick, Inv, TypeOK
  <2>2. QED
    BY <1>11, <2>1 DEF Tick, callMapping, resultMapping
<1>12. CASE UNCHANGED vars
  BY <1>12 DEF vars, callMapping, resultMapping
<1>13. QED
  BY <1>1, <1>2, <1>3, <1>4, <1>5, <1>6, <1>7, <1>8, <1>9, <1>10, <1>11, <1>12
  DEF Next, Proceed, Timeout, Swap!Next

\* The exchanger implements TokenSwap: the cache and the clock are invisible to
\* its callers, except that a cached token has more than the slack to live.
THEOREM ImplementsTokenSwap == Spec => SwapSpec
BY InitMaps, NextMaps, Invariance, PTL DEF Spec, SwapSpec, Swap!Spec
-------------------------------------------------------------------------------
(* The promise as the gateway uses it.                                        *)

\* TokenSwap with the slack forgotten: what Gateway takes the exchanger for.
Plain == INSTANCE TokenSwap WITH call <- callMapping, result <- resultMapping, Slack <- 0

LEMMA StepIsPlain == Swap!Next => Plain!Next
<1>1. SUFFICES ASSUME NEW r \in Request,
                      (\E s \in Subject : Swap!Invoke(r, s)) \/ Swap!Mint(r)
                         \/ Swap!Answer(r) \/ Swap!Fail(r)
               PROVE  Plain!Next
  BY DEF Swap!Next
<1>2. ASSUME NEW s \in Subject, Swap!Invoke(r, s) PROVE Plain!Invoke(r, s)
  BY <1>2 DEF Swap!Invoke, Plain!Invoke
<1>3. CASE Swap!Mint(r)
  BY <1>3 DEF Swap!Mint, Plain!Mint, Plain!Next
<1>4. CASE Swap!Answer(r)
  <2>1. ASSUME resultMapping'[r] \in [owner : {subject[r]}, left : Nat],
               resultMapping'[r].left > Slack
        PROVE  resultMapping'[r].left > 0
    <3>1. resultMapping'[r].left \in Nat
      BY <2>1
    <3>2. QED
      BY <2>1, <3>1, SlackIsNat
  <2>2. Plain!Answer(r)
    BY <1>4, <2>1 DEF Swap!Answer, Plain!Answer
  <2>3. QED
    BY <2>2 DEF Plain!Next
<1>5. CASE Swap!Fail(r)
  BY <1>5 DEF Swap!Fail, Plain!Fail, Plain!Next
<1>6. QED
  BY <1>1, <1>2, <1>3, <1>4, <1>5 DEF Plain!Next

\* The exchanger also implements the instance of TokenSwap that Gateway is built on: the
\* same specification that DrivesTokenSwap of AccessProofs shows the middleware to keep to.
THEOREM ImplementsPlainSwap == Spec => Plain!Spec
<1>1. Swap!Init => Plain!Init
  BY DEF Swap!Init, Plain!Init
<1>2. [Swap!Next]_(Swap!vars) => [Plain!Next]_(Plain!vars)
  BY StepIsPlain DEF Swap!vars, Plain!vars
<1>3. QED
  BY <1>1, <1>2, ImplementsTokenSwap, PTL DEF SwapSpec, Swap!Spec, Plain!Spec
=============================================================================
