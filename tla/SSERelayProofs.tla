---------------------------- MODULE SSERelayProofs ----------------------------
(***************************************************************************)
(* Proofs about SSERelay, for streams of any length, any kinds of line and *)
(* any number of heartbeats.                                               *)
(***************************************************************************)
EXTENDS SSERelay, TLAPS

\* The status follows the handler, and the reader exists with the relay.
Phases ==
    /\ handler = "connect" => status = "none"
    /\ handler = "copy" => status = "copied"
    /\ handler \in {"select", "write", "returned"} => status = "ok"
    /\ reader = "none" <=> status # "ok"
    /\ reader = "none" => scanned = 0 /\ line = 0

\* The reader is at most one line ahead of the relay, and only while it offers
\* that line or has given it up.
Handshake ==
    /\ reader = "scan" => scanned = line
    /\ reader = "send" => scanned = line + 1
    /\ reader = "exit" =>
          scanned = line \/ (scanned = line + 1 /\ handler \in {"returned", "finished"})
    /\ handler = "write" => line > 0

\* The client has had no line beyond those, and every one of them if it stayed.
Written ==
    /\ \A i \in DOMAIN out : out[i] <= Relayed
    /\ ~gone => \A n \in 1..Relayed : \E i \in DOMAIN out : out[i] = n

\* The scanner can give no more: the next line is oversized, or the stream is over.
ScannedOut ==
    \/ scanned < Len(stream) /\ stream[scanned + 1] = "long"
    \/ scanned = Len(stream) /\ ending # "open"

\* Why the reader has left, and why the relay has.
Causes ==
    /\ reader = "exit" /\ handler \in {"select", "write"} => ScannedOut
    /\ status = "ok" /\ handler \in {"returned", "finished"} =>
          \/ line > 0 /\ stream[line] = "done"
          \/ scanned = line /\ ScannedOut

Inv == TypeOK /\ Phases /\ Handshake /\ Written /\ LinesInOrder /\ Causes
-------------------------------------------------------------------------------
LEMMA InitInv == Init => Inv
<1> SUFFICES ASSUME Init PROVE Inv
  OBVIOUS
<1>1. TypeOK
  <2>1. stream \in Seq({"data", "blank", "done", "long", "part"}) /\ out \in Seq(Nat)
    BY DEF Init
  <2>2. Len(stream) = 0
    BY DEF Init
  <2>3. beats \in 0..MaxBeats /\ scanned \in 0..Len(stream) /\ line \in 0..Len(stream)
    BY <2>2, StreamAssumption DEF Init
  <2>4. QED
    BY <2>1, <2>3, Zenon DEF Init, TypeOK
<1>2. Phases /\ Handshake /\ Causes
  BY DEF Init, Phases, Handshake, Causes
<1>3. Written /\ LinesInOrder
  BY DEF Init, Written, Relayed, LinesInOrder
<1>4. QED
  BY <1>1, <1>2, <1>3 DEF Inv

\* The end of the client's stream is where the order can break.
LEMMA AppendLine ==
    ASSUME Inv, handler = "write", ~gone,
           out' = Append(out, line), UNCHANGED <<stream, gone, line>>,
           handler' \in {"select", "returned"}
    PROVE  out' \in Seq(Nat) /\ LinesInOrder' /\ Written'
<1>1. /\ out \in Seq(Nat) /\ line \in Nat /\ line > 0
      /\ \A i \in DOMAIN out : out[i] < line
      /\ \A n \in 1..(line - 1) : \E i \in DOMAIN out : out[i] = n
  BY DEF Inv, TypeOK, Handshake, Written, Relayed
<1>2. /\ DOMAIN out = 1..Len(out) /\ Len(out) \in Nat
      /\ DOMAIN out' = 1..(Len(out) + 1)
      /\ \A i \in 1..Len(out) : out'[i] = out[i]
      /\ out'[Len(out) + 1] = line
      /\ out' \in Seq(Nat)
  BY <1>1
<1>3. LinesInOrder'
  <2> SUFFICES ASSUME NEW i \in DOMAIN out'
               PROVE  /\ \A j \in 1..(i - 1) : out'[i] # Beat => out'[j] < out'[i]
                      /\ \A n \in 1..(out'[i] - 1) : \E j \in 1..(i - 1) : out'[j] = n
    BY DEF LinesInOrder
  <2>1. CASE i \in DOMAIN out
    <3>1. /\ \A j \in 1..(i - 1) : out[i] # Beat => out[j] < out[i]
          /\ \A n \in 1..(out[i] - 1) : \E j \in 1..(i - 1) : out[j] = n
      BY <2>1 DEF Inv, LinesInOrder
    <3>2. out'[i] = out[i] /\ \A j \in 1..(i - 1) : out'[j] = out[j]
      BY <1>2, <2>1
    <3>3. QED
      BY <3>1, <3>2
  <2>2. CASE i = Len(out) + 1
    <3>1. out'[i] = line /\ \A j \in 1..(i - 1) : j \in DOMAIN out /\ out'[j] = out[j]
      BY <1>2, <2>2
    <3>2. \A j \in 1..(i - 1) : out'[j] < out'[i]
      BY <1>1, <3>1
    <3>3. \A n \in 1..(line - 1) : \E j \in 1..(i - 1) : out'[j] = n
      BY <1>1, <1>2, <2>2
    <3>4. QED
      BY <3>1, <3>2, <3>3
  <2>3. QED
    BY <1>2, <2>1, <2>2
<1>4. Written'
  BY <1>1, <1>2 DEF Written, Relayed
<1>5. QED
  BY <1>2, <1>3, <1>4

LEMMA AppendBeat ==
    ASSUME Inv, out' = Append(out, Beat), UNCHANGED <<stream, gone, line, handler>>
    PROVE  out' \in Seq(Nat) /\ LinesInOrder' /\ Written'
<1>1. out \in Seq(Nat) /\ Beat = 0
  BY DEF Inv, TypeOK, Beat
<1>2. /\ DOMAIN out = 1..Len(out) /\ Len(out) \in Nat
      /\ DOMAIN out' = 1..(Len(out) + 1)
      /\ \A i \in 1..Len(out) : out'[i] = out[i]
      /\ out'[Len(out) + 1] = 0
      /\ out' \in Seq(Nat)
  BY <1>1
<1>3. LinesInOrder'
  BY <1>1, <1>2 DEF Inv, LinesInOrder
<1>4. Written'
  <2>1. Relayed' = Relayed /\ Relayed \in Nat
    BY DEF Inv, TypeOK, Handshake, Relayed
  <2>2. QED
    BY <1>1, <1>2, <2>1 DEF Inv, Written
<1>5. QED
  BY <1>2, <1>3, <1>4

\* A line that arrives changes nothing about those before it, nor does the end.
LEMMA StreamGrows ==
    ASSUME Inv, NEW kind \in {"data", "blank", "done", "long", "part"},
           ending = "open", stream' = Append(stream, kind),
           UNCHANGED <<reader, scanned, handler, status, line, out, gone>>
    PROVE  /\ stream' \in Seq({"data", "blank", "done", "long", "part"})
           /\ scanned \in 0..Len(stream') /\ line \in 0..Len(stream')
           /\ Written' /\ Causes'
<1>1. /\ Len(stream') = Len(stream) + 1 /\ Len(stream) \in Nat
      /\ \A n \in 1..Len(stream) : stream'[n] = stream[n]
      /\ stream' \in Seq({"data", "blank", "done", "long", "part"})
      /\ scanned \in 0..Len(stream) /\ line \in 0..Len(stream)
  BY DEF Inv, TypeOK
<1>2. ScannedOut => ScannedOut'
  BY <1>1 DEF ScannedOut
<1>3. Causes'
  BY <1>1, <1>2 DEF Inv, Causes
<1>4. Written'
  BY DEF Inv, Written, Relayed
<1>5. QED
  BY <1>1, <1>3, <1>4

\* A step that leaves both streams, the relay's position and the client alone.
LEMMA StreamsStay ==
    Inv /\ UNCHANGED <<stream, out, line, gone>> /\ Relayed' = Relayed =>
        Written' /\ LinesInOrder'
BY DEF Inv, Written, LinesInOrder

LEMMA NextKeepsInv == Inv /\ [Next]_vars => Inv'
<1> SUFFICES ASSUME Inv, [Next]_vars PROVE Inv'
  OBVIOUS
<1> USE DEF backend, ticker
<1>0. TypeOK /\ Phases /\ Handshake /\ Written /\ LinesInOrder /\ Causes
  BY DEF Inv
<1>1. CASE Refused \/ Rejected \/ CopyRejection \/ Accepted \/ CloseBody
  <2> USE <1>0, <1>1 DEF Refused, Rejected, CopyRejection, Accepted, CloseBody
  <2>1. TypeOK'
    BY DEF TypeOK
  <2>2. Phases' /\ Handshake'
    BY DEF Phases, Handshake
  <2>3. Written' /\ LinesInOrder'
    BY StreamsStay DEF Relayed
  <2>4. Causes'
    BY DEF Causes, ScannedOut, Phases
  <2>5. QED
    BY <2>1, <2>2, <2>3, <2>4 DEF Inv
<1>2. CASE Scan \/ ScanEnds \/ ReaderDone
  <2> USE <1>0, <1>2 DEF Scan, ScanEnds, ReaderDone
  <2>1. TypeOK'
    BY DEF TypeOK
  <2>2. Phases' /\ Handshake'
    BY DEF Phases, Handshake, TypeOK
  <2>3. Written' /\ LinesInOrder'
    BY StreamsStay DEF Relayed
  <2>4. Causes'
    BY DEF Causes, ScannedOut, Handshake, TypeOK
  <2>5. QED
    BY <2>1, <2>2, <2>3, <2>4 DEF Inv
<1>3. CASE Receive
  <2> USE <1>0, <1>3 DEF Receive
  <2>1. TypeOK'
    BY DEF TypeOK
  <2>2. Phases' /\ Handshake'
    BY DEF Phases, Handshake, TypeOK
  <2>3. Written' /\ LinesInOrder'
    <3>1. Relayed' = Relayed
      BY DEF Relayed, Handshake, TypeOK
    <3>2. QED
      BY <3>1 DEF Written, LinesInOrder
  <2>4. Causes'
    BY DEF Causes
  <2>5. QED
    BY <2>1, <2>2, <2>3, <2>4 DEF Inv
<1>4. CASE WriteLine
  <2> USE <1>0, <1>4 DEF WriteLine
  <2>1. out' \in Seq(Nat) /\ Written' /\ LinesInOrder'
    <3>1. CASE gone
      BY <3>1 DEF TypeOK, Written, LinesInOrder, Relayed, Handshake
    <3>2. CASE ~gone
      BY <3>2, AppendLine
    <3>3. QED
      BY <3>1, <3>2
  <2>2. TypeOK'
    BY <2>1 DEF TypeOK
  <2>3. Phases' /\ Handshake'
    BY DEF Phases, Handshake
  <2>4. Causes'
    BY DEF Causes, ScannedOut, Handshake, isDone
  <2>5. QED
    BY <2>1, <2>2, <2>3, <2>4 DEF Inv
<1>5. CASE LinesClosed
  <2> USE <1>0, <1>5 DEF LinesClosed
  <2>1. TypeOK'
    BY DEF TypeOK
  <2>2. Phases' /\ Handshake'
    BY DEF Phases, Handshake
  <2>3. Written' /\ LinesInOrder'
    BY StreamsStay DEF Relayed
  <2>4. Causes'
    BY DEF Causes, ScannedOut, Handshake
  <2>5. QED
    BY <2>1, <2>2, <2>3, <2>4 DEF Inv
<1>6. CASE WriteBeat
  <2> USE <1>0, <1>6 DEF WriteBeat
  <2>1. out' \in Seq(Nat) /\ Written' /\ LinesInOrder'
    <3>1. CASE gone
      BY <3>1, StreamsStay DEF Relayed, TypeOK
    <3>2. CASE ~gone
      BY <3>2, AppendBeat
    <3>3. QED
      BY <3>1, <3>2
  <2>2. TypeOK'
    BY <2>1 DEF TypeOK
  <2>3. Phases' /\ Handshake' /\ Causes'
    BY DEF Phases, Handshake, Causes, ScannedOut
  <2>4. QED
    BY <2>1, <2>2, <2>3 DEF Inv
<1>7. ASSUME NEW kind \in Kinds, Arrive(kind)
      PROVE  Inv'
  <2> USE <1>0, <1>7 DEF Arrive
  <2>1. kind \in {"data", "blank", "done", "long", "part"}
    BY StreamAssumption
  <2>2. TypeOK' /\ Written' /\ Causes'
    BY <2>1, StreamGrows DEF TypeOK
  <2>3. Phases' /\ Handshake' /\ LinesInOrder'
    BY DEF Phases, Handshake, LinesInOrder
  <2>4. QED
    BY <2>2, <2>3 DEF Inv
<1>8. ASSUME NEW within \in {"line", "stream"}, Cut(within)
      PROVE  Inv'
  <2> USE <1>0, <1>8 DEF Cut
  <2>1. TypeOK' /\ Written' /\ Causes'
    <3>1. CASE within = "line"
      <4>1. stream' = Append(stream, "part")
        BY <3>1
      <4>2. QED
        BY <4>1, StreamGrows DEF TypeOK
    <3>2. CASE within # "line"
      BY <3>2 DEF TypeOK, Written, Relayed, Causes, ScannedOut
    <3>3. QED
      BY <3>1, <3>2
  <2>2. Phases' /\ Handshake' /\ LinesInOrder'
    BY DEF Phases, Handshake, LinesInOrder
  <2>3. QED
    BY <2>1, <2>2 DEF Inv
<1>9. CASE BackendCloses \/ TickerTicks \/ ClientLeaves \/ UNCHANGED vars
  <2> USE <1>0, <1>9 DEF BackendCloses, TickerTicks, ClientLeaves, vars
  <2>1. TypeOK'
    <3>1. beats' \in 0..MaxBeats
      BY StreamAssumption DEF TypeOK
    <3>2. QED
      BY <3>1 DEF TypeOK
  <2>2. Phases' /\ Handshake' /\ LinesInOrder'
    BY DEF Phases, Handshake, LinesInOrder
  <2>3. Written'
    BY DEF Written, Relayed
  <2>4. Causes'
    BY DEF Causes, ScannedOut
  <2>5. QED
    BY <2>1, <2>2, <2>3, <2>4 DEF Inv
<1>10. QED
  BY <1>1, <1>2, <1>3, <1>4, <1>5, <1>6, <1>7, <1>8, <1>9 DEF Next, Reader, Relay, Deliver

THEOREM Invariance == Spec => []Inv
BY InitInv, NextKeepsInv, PTL DEF Spec

\* TypeOK, in every reachable state.
THEOREM TypeCorrect == Spec => []TypeOK
BY Invariance, PTL DEF Inv

\* The client's stream is the backend's, from the first line on, heartbeats apart.
THEOREM InOrder == Spec => []LinesInOrder
BY Invariance, PTL DEF Inv

LEMMA InvLosesNothing == Inv => NothingLost
<1> SUFFICES ASSUME Inv, status = "ok", handler \in {"returned", "finished"}
             PROVE  /\ ending = "open" => \E n \in DOMAIN stream : stream[n] \in {"done", "long"}
                    /\ ~gone => \A n \in DOMAIN stream :
                                   Relayable(n) => \E i \in DOMAIN out : out[i] = n
  BY DEF NothingLost
<1>1. /\ DOMAIN stream = 1..Len(stream) /\ Len(stream) \in Nat
      /\ line \in 0..Len(stream) /\ scanned \in 0..Len(stream)
  BY DEF Inv, TypeOK
<1>2. \/ line > 0 /\ stream[line] = "done"
      \/ scanned = line /\ ScannedOut
  BY DEF Inv, Causes
<1>3. ~gone => \A n \in 1..line : \E i \in DOMAIN out : out[i] = n
  BY DEF Inv, Written, Relayed
<1>4. ending = "open" => \E n \in DOMAIN stream : stream[n] \in {"done", "long"}
  BY <1>1, <1>2 DEF ScannedOut
<1>5. ASSUME NEW n \in DOMAIN stream, Relayable(n)
      PROVE  n \in 1..line
  <2>1. stream[n] # "long" /\ \A m \in 1..(n - 1) : stream[m] # "done" /\ stream[m] # "long"
    BY <1>5 DEF Relayable
  <2>2. CASE line > 0 /\ stream[line] = "done"
    <3>1. n \in 1..Len(stream) /\ ~(line \in 1..(n - 1))
      BY <1>1, <2>1, <2>2
    <3>2. QED
      BY <1>1, <2>2, <3>1
  <2>3. CASE scanned = line /\ ScannedOut
    <3>1. line = Len(stream) \/ (line < Len(stream) /\ stream[line + 1] = "long")
      BY <2>3 DEF ScannedOut
    <3>2. n \in 1..Len(stream)
      BY <1>1
    <3>3. stream[line + 1] = "long" => ~(line + 1 \in 1..n)
      BY <1>1, <2>1, <3>2
    <3>4. n \in Nat /\ line \in Nat /\ Len(stream) \in Nat /\ 1 <= n /\ n <= Len(stream)
      BY <1>1, <3>2
    <3>5. CASE line = Len(stream)
      BY <3>4, <3>5
    <3>6. CASE stream[line + 1] = "long"
      BY <3>3, <3>4, <3>6
    <3>7. QED
      BY <3>1, <3>5, <3>6
  <2>4. QED
    BY <1>2, <2>2, <2>3
<1>6. QED
  BY <1>3, <1>4, <1>5

\* A relay that has returned has not swallowed a line it could have relayed.
THEOREM NoLoss == Spec => []NothingLost
BY InvLosesNothing, Invariance, PTL
-------------------------------------------------------------------------------
(* SSERelay implements LineFeed.                                              *)

\* The scanner has read no line beyond its buffer.
Readables == \A n \in 1..scanned : stream[n] # "long"

LEMMA ReadablesHold == Spec => []Readables
<1>1. Init => Readables
  BY DEF Init, Readables
<1>2. Inv /\ Readables /\ [Next]_vars => Readables'
  <2> SUFFICES ASSUME Inv, Readables, [Next]_vars PROVE Readables'
    OBVIOUS
  <2>1. scanned \in Nat /\ scanned <= Len(stream) /\ Len(stream) \in Nat
    BY DEF Inv, TypeOK
  <2>2. CASE Scan
    BY <2>1, <2>2 DEF Scan, Readables, backend
  <2>3. CASE UNCHANGED <<stream, scanned>>
    BY <2>3 DEF Readables
  <2>4. ASSUME NEW kind \in {"data", "blank", "done", "long", "part"},
               stream' = Append(stream, kind), scanned' = scanned
        PROVE  Readables'
    <3>1. \A n \in 1..scanned : stream'[n] = stream[n]
      BY <2>1, <2>4 DEF Inv, TypeOK
    <3>2. QED
      BY <2>4, <3>1 DEF Readables
  <2>5. ASSUME NEW kind \in Kinds, Arrive(kind) PROVE Readables'
    BY <2>4, <2>5, StreamAssumption DEF Arrive
  <2>6. ASSUME NEW within \in {"line", "stream"}, Cut(within) PROVE Readables'
    BY <2>3, <2>4, <2>6 DEF Cut
  <2>7. CASE ~ \/ Scan
               \/ \E kind \in Kinds : Arrive(kind)
               \/ \E within \in {"line", "stream"} : Cut(within)
    <3>1. UNCHANGED <<stream, scanned>>
      BY <2>7 DEF Next, Reader, Relay, Deliver, ScanEnds, ReaderDone, Refused, Rejected,
         CopyRejection, Accepted, Receive, LinesClosed, CloseBody, WriteLine, WriteBeat, BackendCloses,
         TickerTicks, ClientLeaves, vars, backend
    <3>2. QED
      BY <2>3, <3>1
  <2>8. QED
    BY <2>2, <2>5, <2>6, <2>7
<1>3. QED
  BY <1>1, <1>2, Invariance, PTL DEF Spec

LEMMA InitFeed == Init => Feed!Init
BY DEF Init, Feed!Init, feedMapping, Relayed

\* A line of the relay's: the next one of the feed, and one the scanner could read.
LEMMA WriteFeeds == ASSUME Inv, Readables, WriteLine PROVE Feed!Feed
<1>1. /\ handler = "write" /\ status = "ok" /\ line \in Nat /\ line > 0 /\ line <= Len(stream)
      /\ stream[line] # "long"
  BY DEF Inv, TypeOK, Phases, Handshake, Readables, WriteLine
<1>2. Relayed = line - 1 /\ Relayed' = line /\ feedMapping = "on"
  BY <1>1 DEF WriteLine, Relayed, feedMapping
<1>3. feedMapping' = IF stream[line] = "done" THEN "over" ELSE "on"
  BY <1>1 DEF WriteLine, feedMapping, isDone
<1>4. Relayed + 1 = line /\ Relayed < Len(stream)
  BY <1>1, <1>2
<1>5. QED
  BY <1>1, <1>2, <1>3, <1>4, Zenon DEF WriteLine, Feed!Feed, Feed!ToClient, backend

\* The relay sees its lines closed when the reader has read all it could.
LEMMA ClosedFinishes == ASSUME Inv, LinesClosed PROVE Feed!Finish
<1>1. /\ handler = "select" /\ status = "ok" /\ reader = "exit" /\ scanned = line /\ ScannedOut
      /\ line \in Nat /\ line <= Len(stream) /\ Len(stream) \in Nat
  BY DEF Inv, TypeOK, Phases, Handshake, Causes, LinesClosed
<1>2. Relayed = line /\ Relayed' = line /\ feedMapping = "on" /\ feedMapping' = "over"
  BY <1>1 DEF LinesClosed, Relayed, feedMapping
<1>3. IF line = Len(stream) THEN ending # "open" ELSE stream[line + 1] = "long"
  BY <1>1 DEF ScannedOut
<1>4. QED
  BY <1>2, <1>3 DEF LinesClosed, Feed!Finish, backend

\* The backend's stream grows as that of LineFeed does.
LEMMA StreamFeeds ==
    ASSUME Inv,
           \/ \E kind \in Kinds : Arrive(kind)
           \/ BackendCloses
           \/ \E within \in {"line", "stream"} : Cut(within)
    PROVE  Feed!Grow \/ Feed!Stop
<1>1. /\ status = "ok" /\ ending = "open"
      /\ UNCHANGED <<handler, status, line, out, gone>>
  BY DEF Arrive, BackendCloses, Cut, ticker
<1>2. feedMapping # "before" /\ UNCHANGED <<feedMapping, Relayed, out, gone>>
  BY <1>1 DEF feedMapping, Relayed
<1>3. ASSUME NEW kind \in Kinds, Arrive(kind) PROVE Feed!Grow
  <2>1. /\ kind \in {"data", "blank", "done", "long", "part"} /\ kind # "part"
        /\ stream' = Append(stream, kind) /\ ending' = "open"
    BY <1>1, <1>3, StreamAssumption DEF Arrive
  <2>2. QED
    BY <1>1, <1>2, <2>1 DEF Feed!Grow
<1>4. CASE BackendCloses
  BY <1>1, <1>2, <1>4 DEF BackendCloses, Feed!Stop
<1>5. ASSUME NEW within \in {"line", "stream"}, Cut(within) PROVE Feed!Grow \/ Feed!Stop
  <2>1. CASE within = "line"
    BY <1>1, <1>2, <1>5, <2>1 DEF Cut, Feed!Grow
  <2>2. CASE within # "line"
    BY <1>1, <1>2, <1>5, <2>2 DEF Cut, Feed!Stop
  <2>3. QED
    BY <2>1, <2>2
<1>6. QED
  BY <1>3, <1>4, <1>5

\* Every step maps to a step of LineFeed or to none.
LEMMA NextFeeds == Inv /\ Readables /\ [Next]_vars => [Feed!Next]_(Feed!vars)
<1> SUFFICES ASSUME Inv, Readables, [Next]_vars PROVE Feed!Next \/ UNCHANGED Feed!vars
  OBVIOUS
<1> USE DEF backend, ticker
<1>1. CASE Refused \/ Rejected \/ Accepted
  <2>1. feedMapping = "before" /\ feedMapping' \in {"on", "over"} /\ UNCHANGED Relayed
    BY <1>1 DEF Inv, Phases, Refused, Rejected, Accepted, feedMapping, Relayed
  <2>2. Feed!Open
    BY <1>1, <2>1 DEF Refused, Rejected, Accepted, Feed!Open
  <2>3. QED
    BY <2>2 DEF Feed!Next
<1>2. CASE Scan \/ ScanEnds \/ ReaderDone \/ CopyRejection \/ CloseBody \/ TickerTicks
  BY <1>2 DEF Inv, Phases, Scan, ScanEnds, ReaderDone, CopyRejection, CloseBody, TickerTicks,
              feedMapping, Relayed, Feed!vars
<1>3. CASE Receive
  <2>1. scanned = line + 1 /\ line \in Nat
    BY <1>3 DEF Receive, Inv, TypeOK, Handshake
  <2>2. Relayed' = Relayed
    BY <1>3, <2>1 DEF Receive, Relayed
  <2>3. QED
    BY <1>3, <2>2 DEF Receive, feedMapping, Feed!vars
<1>4. CASE WriteLine
  BY <1>4, WriteFeeds DEF Feed!Next
<1>5. CASE LinesClosed
  BY <1>5, ClosedFinishes DEF Feed!Next
<1>6. CASE WriteBeat
  <2>1. feedMapping = "on" /\ UNCHANGED <<feedMapping, Relayed>>
    BY <1>6 DEF WriteBeat, Inv, Phases, feedMapping, Relayed
  <2>2. Feed!Heartbeat
    BY <1>6, <2>1 DEF WriteBeat, Feed!Heartbeat, Feed!ToClient
  <2>3. QED
    BY <2>2 DEF Feed!Next
<1>7. CASE \/ \E kind \in Kinds : Arrive(kind)
           \/ BackendCloses
           \/ \E within \in {"line", "stream"} : Cut(within)
  BY <1>7, StreamFeeds DEF Feed!Next
<1>8. CASE ClientLeaves
  <2>1. Feed!Leave
    BY <1>8 DEF ClientLeaves, Feed!Leave, feedMapping, Relayed
  <2>2. QED
    BY <2>1 DEF Feed!Next
<1>9. CASE UNCHANGED vars
  BY <1>9 DEF vars, Feed!vars, feedMapping, Relayed
<1>10. QED
  BY <1>1, <1>2, <1>3, <1>4, <1>5, <1>6, <1>7, <1>8, <1>9 DEF Next, Reader, Relay, Deliver

\* The relay implements LineFeed: the client is fed line by line, to an end with a reason.
THEOREM ImplementsLineFeed == Spec => FeedSpec
<1>1. Spec => [](Inv /\ Readables)
  BY Invariance, ReadablesHold, PTL
<1>2. QED
  BY <1>1, InitFeed, NextFeeds, PTL DEF Spec, FeedSpec, Feed!Spec
-------------------------------------------------------------------------------
(* The end of the reader, but for fairness.                                   *)

\* The steps that are left to the reader once the handler has returned, at most: a line
\* that is still in its buffer, and the way out.
ReaderSteps ==
    CASE reader \in {"none", "exit"} -> 0
      [] reader = "send" -> 1
      [] reader = "scan" -> 2

\* Once the handler has returned, the reader takes two more steps at most, whatever the
\* backend goes on to send.
THEOREM ReaderRunsOut ==
    Spec => [][handler = "finished" =>
                  /\ ReaderSteps' <= ReaderSteps
                  /\ Reader => ReaderSteps' < ReaderSteps]_vars
<1>1. ASSUME Inv, [Next]_vars, handler = "finished"
      PROVE  ReaderSteps' <= ReaderSteps /\ (Reader => ReaderSteps' < ReaderSteps)
  <2>1. reader \in {"none", "scan", "send", "exit"}
    BY <1>1 DEF Inv, TypeOK
  <2>2. CASE Reader
    BY <2>1, <2>2 DEF Reader, Scan, ScanEnds, ReaderDone, ReaderSteps
  <2>3. CASE ~Reader
    <3>1. reader' = reader
      BY <1>1, <2>3 DEF Next, Relay, Deliver, Refused, Rejected, CopyRejection, Accepted, Receive,
         LinesClosed, CloseBody, WriteLine, WriteBeat, Arrive, BackendCloses, Cut, TickerTicks, ClientLeaves, vars
    <3>2. QED
      BY <2>1, <2>3, <3>1 DEF ReaderSteps
  <2>4. QED
    BY <2>2, <2>3
<1>2. QED
  BY <1>1, Invariance, PTL DEF Spec
===============================================================================
