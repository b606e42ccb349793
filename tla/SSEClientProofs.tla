---------------------------- MODULE SSEClientProofs ----------------------------
(***************************************************************************)
(* Proofs about what a client makes of the relayed stream, for streams of  *)
(* any length and any number of heartbeats.                                *)
(***************************************************************************)
EXTENDS SSEClient, SSERelayProofs

\* Between two heartbeats the client has successive lines.
Runs ==
    \A i, j \in DOMAIN out :
        i <= j /\ (\A k \in i..j : out[k] # Beat) => out[j] = out[i] + (j - i)

\* Half a line comes last; where an event has one content line, a blank one precedes it.
Shape ==
    /\ \A n \in DOMAIN stream :
          stream[n] = "part" => n = Len(stream) /\ ending = "cut" /\ PartialLines
    /\ EventLines = 1 =>
          \A n \in 2..Len(stream) : stream[n] # "blank" => stream[n - 1] = "blank"

InvClient == Inv /\ Runs /\ Shape
-------------------------------------------------------------------------------
(* The invariant.                                                             *)

\* What a client that stayed had last, if it is no heartbeat, is the relay's last line.
LEMMA LastIsRelayed ==
    ASSUME Inv, ~gone, Len(out) > 0, out[Len(out)] # Beat
    PROVE  out[Len(out)] = Relayed
<1>1. /\ out \in Seq(Nat) /\ DOMAIN out = 1..Len(out) /\ Len(out) \in DOMAIN out
      /\ Relayed \in Nat
  BY DEF Inv, TypeOK, Handshake, Relayed
<1>2. out[Len(out)] \in Nat /\ out[Len(out)] > 0 /\ out[Len(out)] <= Relayed
  BY <1>1 DEF Inv, Written, Beat
<1>3. PICK i \in DOMAIN out : out[i] = Relayed
  BY <1>1, <1>2 DEF Inv, Written
<1>4. i < Len(out) => out[i] < out[Len(out)]
  <2>1. LinesInOrder
    BY DEF Inv
  <2>2. i < Len(out) => i \in 1..(Len(out) - 1)
    BY <1>1
  <2>3. QED
    BY <1>1, <2>1, <2>2 DEF LinesInOrder
<1>5. QED
  BY <1>1, <1>2, <1>3, <1>4

\* A text that grows by the line after its last one keeps its runs, as by a heartbeat.
LEMMA RunsGrow ==
    ASSUME Runs, out \in Seq(Nat), NEW n \in Nat, out' = Append(out, n),
           n = Beat \/ (Len(out) > 0 /\ out[Len(out)] # Beat => n = out[Len(out)] + 1)
    PROVE  Runs'
<1>1. /\ DOMAIN out = 1..Len(out) /\ Len(out) \in Nat
      /\ DOMAIN out' = 1..(Len(out) + 1) /\ Len(out') = Len(out) + 1
      /\ \A i \in 1..Len(out) : out'[i] = out[i] /\ out[i] \in Nat
      /\ out'[Len(out) + 1] = n
  OBVIOUS
<1>2. SUFFICES ASSUME NEW i \in DOMAIN out', NEW j \in DOMAIN out',
                      i <= j, \A k \in i..j : out'[k] # Beat
               PROVE  out'[j] = out'[i] + (j - i)
  BY DEF Runs
<1>3. CASE j <= Len(out)
  <2>1. i \in DOMAIN out /\ j \in DOMAIN out /\ \A k \in i..j : k \in 1..Len(out)
    BY <1>1, <1>2, <1>3
  <2>2. \A k \in i..j : out[k] # Beat
    BY <1>1, <1>2, <2>1
  <2>3. out[j] = out[i] + (j - i)
    BY <1>2, <2>1, <2>2 DEF Runs
  <2>4. QED
    BY <1>1, <2>1, <2>3
<1>4. CASE j = Len(out) + 1 /\ i = j
  BY <1>1, <1>4
<1>5. CASE j = Len(out) + 1 /\ i < j
  <2> DEFINE l == Len(out)
  <2>1. i \in 1..l /\ l \in i..j /\ l > 0 /\ j \in i..j
    BY <1>1, <1>5
  <2>2. n # Beat /\ out[l] # Beat
    BY <1>1, <1>2, <1>5, <2>1
  <2>3. n = out[l] + 1
    BY <2>1, <2>2
  <2>4. \A k \in i..l : out[k] # Beat
    BY <1>1, <1>2, <1>5, <2>1
  <2>5. out[l] = out[i] + (l - i)
    <3>1. i \in DOMAIN out /\ l \in DOMAIN out /\ i <= l
      BY <1>1, <2>1
    <3> HIDE DEF l
    <3>2. QED
      BY <2>4, <3>1 DEF Runs
  <2>6. out'[j] = n /\ out'[i] = out[i] /\ out[i] \in Nat /\ i \in Nat /\ l \in Nat /\ j = l + 1
    BY <1>1, <1>5, <2>1
  <2> HIDE DEF l
  <2>7. n = out[i] + (l + 1 - i)
    BY <2>3, <2>5, <2>6
  <2>8. QED
    BY <2>6, <2>7
<1>6. QED
  BY <1>1, <1>2, <1>3, <1>4, <1>5

LEMMA ShapeGrows ==
    ASSUME Inv, Shape, ending = "open", NEW kind, stream' = Append(stream, kind),
           kind = "part" => ending' = "cut" /\ PartialLines,
           kind # "blank" => MayContinue
    PROVE  Shape'
<1>1. /\ Len(stream') = Len(stream) + 1 /\ Len(stream) \in Nat
      /\ DOMAIN stream = 1..Len(stream) /\ DOMAIN stream' = 1..(Len(stream) + 1)
      /\ \A n \in 1..Len(stream) : stream'[n] = stream[n]
      /\ stream'[Len(stream) + 1] = kind
  BY DEF Inv, TypeOK
<1>2. \A n \in DOMAIN stream : stream[n] # "part"
  BY DEF Shape
<1>3. \A n \in DOMAIN stream' :
         stream'[n] = "part" => n = Len(stream') /\ ending' = "cut" /\ PartialLines
  BY <1>1, <1>2
<1>4. ASSUME EventLines = 1, NEW n \in 2..Len(stream'), stream'[n] # "blank"
      PROVE  stream'[n - 1] = "blank"
  <2>1. CASE n <= Len(stream)
    <3>1. n \in 2..Len(stream) /\ n - 1 \in 1..Len(stream)
      BY <1>1, <2>1
    <3>2. QED
      BY <1>1, <1>4, <3>1 DEF Shape
  <2>2. CASE n = Len(stream) + 1
    <3>1. kind # "blank" /\ Len(stream) >= 1
      BY <1>1, <1>4, <2>2
    <3>2. PICK i \in DOMAIN stream : i > Len(stream) - 1 /\ stream[i] = "blank"
      BY <1>4, <3>1 DEF MayContinue
    <3>3. i = Len(stream)
      BY <1>1, <3>2
    <3>4. QED
      BY <1>1, <2>2, <3>1, <3>2, <3>3
  <2>3. QED
    BY <1>1, <2>1, <2>2
<1>5. QED
  BY <1>3, <1>4 DEF Shape

LEMMA InitClient == Init => Runs /\ Shape
BY DEF Init, Runs, Shape

LEMMA NextKeepsClient == InvClient /\ [Next]_vars => Runs' /\ Shape'
<1> SUFFICES ASSUME Inv, Runs, Shape, [Next]_vars PROVE Runs' /\ Shape'
  BY DEF InvClient
<1> USE DEF backend, ticker
<1>1. out \in Seq(Nat)
  BY DEF Inv, TypeOK
<1>2. UNCHANGED out => Runs'
  BY DEF Runs
<1>3. UNCHANGED backend => Shape'
  BY DEF Shape
<1>4. CASE WriteLine
  <2>1. CASE gone
    BY <1>2, <1>3, <1>4, <2>1 DEF WriteLine
  <2>2. CASE ~gone
    <3>1. out' = Append(out, line) /\ line \in Nat /\ line > 0 /\ Relayed = line - 1
      BY <1>4, <2>2 DEF WriteLine, Inv, TypeOK, Handshake, Relayed
    <3>2. Len(out) > 0 /\ out[Len(out)] # Beat => line = out[Len(out)] + 1
      BY <2>2, <3>1, LastIsRelayed
    <3>3. Runs'
      BY <1>1, <3>1, <3>2, RunsGrow
    <3>4. QED
      BY <1>3, <1>4, <3>3 DEF WriteLine
  <2>3. QED
    BY <2>1, <2>2
<1>5. CASE WriteBeat
  <2>1. CASE gone
    BY <1>2, <1>3, <1>5, <2>1 DEF WriteBeat
  <2>2. CASE ~gone
    <3>1. Runs'
      BY <1>1, <1>5, <2>2, RunsGrow DEF WriteBeat, Beat
    <3>2. QED
      BY <1>3, <1>5, <3>1 DEF WriteBeat
  <2>3. QED
    BY <2>1, <2>2
<1>6. ASSUME NEW kind \in Kinds, Arrive(kind) PROVE Runs' /\ Shape'
  <2>1. kind # "part"
    BY StreamAssumption
  <2>2. QED
    BY <1>2, <1>6, <2>1, ShapeGrows DEF Arrive
<1>7. ASSUME NEW within \in {"line", "stream"}, Cut(within) PROVE Runs' /\ Shape'
  <2>1. CASE within = "line"
    BY <1>2, <1>7, <2>1, ShapeGrows DEF Cut
  <2>2. CASE within # "line"
    BY <1>2, <1>7, <2>2 DEF Cut, Shape
  <2>3. QED
    BY <2>1, <2>2
<1>8. CASE BackendCloses
  BY <1>2, <1>8 DEF BackendCloses, Shape
<1>9. CASE ~ \/ WriteLine \/ WriteBeat \/ BackendCloses
             \/ \E kind \in Kinds : Arrive(kind)
             \/ \E within \in {"line", "stream"} : Cut(within)
  <2>1. UNCHANGED <<out, backend>>
    BY <1>9 DEF Next, Reader, Relay, Deliver, Scan, ScanEnds, ReaderDone, Refused, Rejected,
       CopyRejection, Accepted, Receive, LinesClosed, CloseBody, TickerTicks, ClientLeaves, vars
  <2>2. QED
    BY <1>2, <1>3, <2>1
<1>10. QED
  BY <1>4, <1>5, <1>6, <1>7, <1>8, <1>9

LEMMA ClientInvariance == Spec => []InvClient
<1>1. Inv /\ InvClient /\ [Next]_vars /\ Inv' => InvClient'
  BY NextKeepsClient DEF InvClient
<1>2. Inv /\ Init => InvClient
  BY InitClient DEF InvClient
<1>3. QED
  BY <1>1, <1>2, Invariance, PTL DEF Spec
-------------------------------------------------------------------------------
(* Events.                                                                    *)

\* An event of a text, by its first line and its last one.
IsEvent(text, blanks, a, b) ==
    /\ a \in 1..Len(text) /\ b \in 1..Len(text) /\ a <= b
    /\ b + 1 \in blanks /\ (a = 1 \/ a - 1 \in blanks)
    /\ \A i \in a..b : i \notin blanks

LEMMA Piece ==
    ASSUME NEW text \in Seq(Nat), NEW a \in 1..Len(text), NEW b \in 1..Len(text), a <= b
    PROVE  /\ SubSeq(text, a, b) \in Seq(Nat) /\ Len(SubSeq(text, a, b)) = b - a + 1
           /\ \A i \in 1..(b - a + 1) : SubSeq(text, a, b)[i] = text[a + i - 1]
OBVIOUS

LEMMA EventsAre ==
    ASSUME NEW text \in Seq(Nat), NEW blanks
    PROVE  /\ \A e \in Events(text, blanks) :
                 \E a, b \in 1..Len(text) : IsEvent(text, blanks, a, b) /\ e = SubSeq(text, a, b)
           /\ \A a, b \in 1..Len(text) :
                 IsEvent(text, blanks, a, b) => SubSeq(text, a, b) \in Events(text, blanks)
<1>1. DOMAIN text = 1..Len(text)
  OBVIOUS
<1> DEFINE P == { p \in (DOMAIN text) \X (DOMAIN text) :
                    /\ p[1] <= p[2] /\ p[2] + 1 \in blanks
                    /\ p[1] = 1 \/ p[1] - 1 \in blanks
                    /\ \A i \in p[1]..p[2] : i \notin blanks }
<1>2. Events(text, blanks) = { SubSeq(text, e[1], e[2]) : e \in P }
  BY DEF Events
<1>3. ASSUME NEW e \in Events(text, blanks)
      PROVE  \E a, b \in 1..Len(text) : IsEvent(text, blanks, a, b) /\ e = SubSeq(text, a, b)
  <2>1. PICK p \in P : e = SubSeq(text, p[1], p[2])
    BY <1>2, <1>3
  <2>2. p[1] \in 1..Len(text) /\ p[2] \in 1..Len(text)
    BY <1>1, <2>1
  <2>3. IsEvent(text, blanks, p[1], p[2])
    BY <2>1, <2>2 DEF IsEvent
  <2>4. QED
    BY <2>1, <2>2, <2>3
<1>4. ASSUME NEW a \in 1..Len(text), NEW b \in 1..Len(text), IsEvent(text, blanks, a, b)
      PROVE  SubSeq(text, a, b) \in Events(text, blanks)
  <2>1. <<a, b>> \in P
    BY <1>1, <1>4 DEF IsEvent
  <2>2. <<a, b>>[1] = a /\ <<a, b>>[2] = b
    OBVIOUS
  <2> HIDE DEF P
  <2>3. QED
    BY <1>2, <2>1, <2>2
<1>5. QED
  BY <1>3, <1>4

LEMMA LinesAre ==
    ASSUME TypeOK
    PROVE  /\ Lines \in Seq(Nat) /\ Len(Lines) = Len(stream)
           /\ \A n \in 1..Len(stream) : Lines[n] = n
           /\ DOMAIN stream = 1..Len(stream) /\ Len(stream) \in Nat
BY DEF TypeOK, Lines

\* A stretch of the backend's lines, wherever it comes from, is the sequence of them.
LEMMA Stretch ==
    ASSUME TypeOK, NEW x \in 1..Len(stream), NEW y \in 1..Len(stream), x <= y,
           NEW e \in Seq(Nat), Len(e) = y - x + 1,
           \A i \in 1..(y - x + 1) : e[i] = x + i - 1
    PROVE  e = SubSeq(Lines, x, y)
<1>1. /\ Lines \in Seq(Nat) /\ Len(Lines) = Len(stream)
      /\ \A n \in 1..Len(stream) : Lines[n] = n
  BY LinesAre
<1> DEFINE t == SubSeq(Lines, x, y)
<1>2. t \in Seq(Nat) /\ Len(t) = y - x + 1 /\ \A i \in 1..(y - x + 1) : t[i] = Lines[x + i - 1]
  BY <1>1, Piece
<1>3. \A i \in 1..(y - x + 1) : x + i - 1 \in 1..Len(stream)
  BY LinesAre
<1>4. \A i \in 1..(y - x + 1) : t[i] = e[i]
  BY <1>1, <1>2, <1>3
<1> HIDE DEF t
<1>5. t = e
  BY <1>2, <1>4, SMTT(30)
<1>6. QED
  BY <1>5 DEF t

\* An event of the client's, at a to b of its stream, is lines x to y of the backend's.
Relays(e, a, b, x, y) ==
    /\ IsEvent(out, ClientBlanks, a, b)
    /\ out[a] = x /\ out[b] = y /\ x <= y
    /\ e \in Seq(Nat) /\ Len(e) = y - x + 1
    /\ \A i \in 1..(y - x + 1) : e[i] = x + i - 1
    /\ \A n \in x..y : stream[n] # "blank"

LEMMA ClientEventIs ==
    ASSUME InvClient, NEW e \in ClientEvents
    PROVE  \E a, b \in 1..Len(out), x, y \in 1..Len(stream) : Relays(e, a, b, x, y)
<1>1. /\ out \in Seq(Nat) /\ DOMAIN out = 1..Len(out) /\ Len(out) \in Nat
      /\ \A i \in DOMAIN out : out[i] <= line
      /\ line <= Len(stream) /\ Len(stream) \in Nat /\ line \in Nat
  BY DEF InvClient, Inv, TypeOK, Written, Handshake, Relayed
<1>2. PICK a \in 1..Len(out), b \in 1..Len(out) :
         IsEvent(out, ClientBlanks, a, b) /\ e = SubSeq(out, a, b)
  <2>1. out \in Seq(Nat) /\ e \in Events(out, ClientBlanks)
    BY <1>1 DEF ClientEvents
  <2>2. \A f \in Events(out, ClientBlanks) :
           \E a, b \in 1..Len(out) : IsEvent(out, ClientBlanks, a, b) /\ f = SubSeq(out, a, b)
    BY <2>1, EventsAre
  <2>3. QED
    BY <2>1, <2>2
<1>3. a <= b /\ \A i \in a..b : i \in DOMAIN out /\ i \notin ClientBlanks
  BY <1>1, <1>2 DEF IsEvent
<1>4. \A i \in a..b : out[i] # Beat /\ stream[out[i]] # "blank"
  BY <1>3 DEF ClientBlanks
<1> DEFINE x == out[a]
           y == out[b]
<1>5. ASSUME NEW i \in a..b
      PROVE  out[i] = x + (i - a)
  <2>1. i \in DOMAIN out /\ a \in DOMAIN out /\ a <= i /\ \A k \in a..i : k \in a..b
    BY <1>1
  <2>2. \A k \in a..i : out[k] # Beat
    BY <1>4, <2>1
  <2>3. QED
    BY <2>1, <2>2 DEF InvClient, Runs
<1>6. y = x + (b - a) /\ x \in 1..Len(stream) /\ y \in 1..Len(stream)
  <2>1. a \in a..b /\ b \in a..b /\ a \in DOMAIN out /\ b \in DOMAIN out
    BY <1>1, <1>3
  <2>2. out[a] \in Nat /\ out[b] \in Nat /\ out[a] # 0 /\ out[b] # 0
    BY <1>1, <1>4, <2>1 DEF Beat
  <2>3. out[a] <= Len(stream) /\ out[b] <= Len(stream)
    BY <1>1, <2>1, <2>2
  <2>4. out[b] = out[a] + (b - a)
    BY <1>5, <2>1
  <2>5. QED
    BY <1>1, <2>2, <2>3, <2>4
<1>7. e \in Seq(Nat) /\ Len(e) = b - a + 1 /\ \A i \in 1..(b - a + 1) : e[i] = out[a + i - 1]
  BY <1>1, <1>2, <1>3, Piece
<1>8. b - a + 1 = y - x + 1 /\ x <= y
  BY <1>3, <1>6
<1>9. \A i \in 1..(y - x + 1) : e[i] = x + i - 1
  <2>1. TAKE i \in 1..(y - x + 1)
  <2>2. a + i - 1 \in a..b /\ i \in 1..(b - a + 1)
    BY <1>8
  <2>3. out[a + i - 1] = x + ((a + i - 1) - a)
    BY <1>5, <2>2
  <2>4. QED
    BY <1>6, <1>7, <2>2, <2>3
<1>10. \A n \in x..y : stream[n] # "blank"
  <2>1. TAKE n \in x..y
  <2>2. a + (n - x) \in a..b /\ n \in Nat
    BY <1>6, <1>8, SMTT(30)
  <2>3. out[a + (n - x)] = n
    BY <1>5, <1>6, <2>2
  <2>4. QED
    BY <1>4, <2>2, <2>3
<1> HIDE DEF x, y
<1>11. out[a] = x /\ out[b] = y
  BY DEF x, y
<1>12. Relays(e, a, b, x, y)
  BY <1>2, <1>7, <1>8, <1>9, <1>10, <1>11 DEF Relays
<1>13. QED
  BY <1>6, <1>12

\* Heartbeats join no events: in each the client has successive lines.
THEOREM NeverMerged == Spec => []EventsNeverMerged
<1>1. ASSUME InvClient, NEW e \in ClientEvents, NEW i \in 1..(Len(e) - 1)
      PROVE  e[i + 1] = e[i] + 1
  <2>1. PICK x \in 1..Len(stream), y \in 1..Len(stream) :
           Len(e) = y - x + 1 /\ \A k \in 1..(y - x + 1) : e[k] = x + k - 1
    BY <1>1, ClientEventIs DEF Relays
  <2>2. i \in 1..(y - x + 1) /\ i + 1 \in 1..(y - x + 1)
    BY <2>1
  <2>3. e[i] = x + i - 1 /\ e[i + 1] = x + (i + 1) - 1
    BY <2>1, <2>2
  <2>4. QED
    BY <2>2, <2>3
<1>2. InvClient => EventsNeverMerged
  BY <1>1 DEF EventsNeverMerged
<1>3. QED
  BY <1>2, ClientInvariance, PTL

\* If the line before x is blank, and the one after y or not there yet, and none of them
\* is half a line, then x to y is an event of the backend's.
LEMMA BackendEventIs ==
    ASSUME InvClient, NEW e \in ClientEvents, NEW a \in 1..Len(out), NEW b \in 1..Len(out),
           NEW x \in 1..Len(stream), NEW y \in 1..Len(stream), Relays(e, a, b, x, y),
           x = 1 \/ stream[x - 1] = "blank",
           y = Len(stream) \/ stream[y + 1] = "blank",
           \A n \in x..y : stream[n] # "part"
    PROVE  e \in BackendEvents
<1>1. TypeOK
  BY DEF InvClient, Inv
<1>2. /\ Lines \in Seq(Nat) /\ Len(Lines) = Len(stream)
      /\ DOMAIN stream = 1..Len(stream) /\ Len(stream) \in Nat
  BY <1>1, LinesAre
<1> DEFINE B == Blanks \cup {Len(stream) + 1}
<1>3. IsEvent(Lines, B, x, y)
  <2>1. x <= y /\ \A n \in x..y : stream[n] # "blank" /\ n \in 1..Len(stream)
    BY <1>2, SMTT(30) DEF Relays
  <2>2. \A n \in x..y : n \notin B
    BY <1>2, <2>1 DEF Blanks
  <2>3. y + 1 \in B
    BY <1>2 DEF Blanks
  <2>4. x = 1 \/ x - 1 \in B
    BY <1>2 DEF Blanks
  <2>5. QED
    BY <1>2, <2>1, <2>2, <2>3, <2>4 DEF IsEvent
<1>4. e = SubSeq(Lines, x, y)
  BY <1>1, Stretch DEF Relays
<1> HIDE DEF B
<1>5. e \in Events(Lines, B)
  BY <1>2, <1>3, <1>4, EventsAre
<1>6. \A i \in DOMAIN e : stream[e[i]] # "part"
  <2>1. TAKE i \in DOMAIN e
  <2>2. i \in 1..(y - x + 1)
    BY DEF Relays
  <2>3. e[i] = x + i - 1
    BY <2>2 DEF Relays
  <2>4. x + i - 1 \in x..y
    BY <2>2
  <2>5. QED
    BY <2>3, <2>4
<1>7. QED
  BY <1>5, <1>6 DEF BackendEvents, B

\* Without heartbeats the client has the line after a line next to it.
LEMMA NextLine ==
    ASSUME InvClient, BeatFree, NEW i \in DOMAIN out, i + 1 \in DOMAIN out
    PROVE  out[i + 1] = out[i] + 1
<1>1. out \in Seq(Nat) /\ DOMAIN out = 1..Len(out) /\ Len(out) \in Nat
  BY DEF InvClient, Inv, TypeOK
<1>2. \A k \in i..(i + 1) : out[k] # Beat
  <2>1. TAKE k \in i..(i + 1)
  <2>2. k = i \/ k = i + 1
    BY <1>1
  <2>3. QED
    BY <2>2 DEF BeatFree
<1>3. out[i + 1] = out[i] + ((i + 1) - i)
  BY <1>1, <1>2 DEF InvClient, Runs
<1>4. QED
  BY <1>1, <1>3

\* A client's event between lines, not heartbeats, is one of the backend's.
LEMMA UnbrokenBetweenLines ==
    ASSUME InvClient, BeatFree, NEW e \in ClientEvents
    PROVE  e \in BackendEvents
<1>1. PICK a \in 1..Len(out), b \in 1..Len(out), x \in 1..Len(stream), y \in 1..Len(stream) :
         Relays(e, a, b, x, y)
  BY ClientEventIs
<1>2. /\ out \in Seq(Nat) /\ DOMAIN out = 1..Len(out) /\ Len(out) \in Nat
      /\ DOMAIN stream = 1..Len(stream) /\ Len(stream) \in Nat
      /\ \A i \in DOMAIN out : out[i] <= line
      /\ line <= Len(stream) /\ line \in Nat
      /\ \A i \in DOMAIN out : out[i] # Beat
  BY DEF InvClient, Inv, TypeOK, Written, Handshake, Relayed, BeatFree
<1>3. /\ out[a] = x /\ out[b] = y /\ a <= b
      /\ a = 1 \/ a - 1 \in ClientBlanks
      /\ b + 1 \in ClientBlanks
  BY <1>1 DEF Relays, IsEvent
<1>4. x = 1 \/ stream[x - 1] = "blank"
  <2>1. CASE a = 1
    <3>1. \A n \in 1..(x - 1) : \E j \in 1..(a - 1) : out[j] = n
      BY <1>2, <1>3 DEF InvClient, Inv, LinesInOrder
    <3>2. QED
      BY <2>1, <3>1
  <2>2. CASE a - 1 \in ClientBlanks
    <3>1. a - 1 \in DOMAIN out /\ (a - 1) + 1 = a /\ (a - 1) + 1 \in DOMAIN out
      BY <1>2, <2>2 DEF ClientBlanks
    <3>2. out[a] = out[a - 1] + 1
      BY <3>1, NextLine
    <3>3. out[a - 1] \in Nat /\ x \in Nat /\ x = out[a - 1] + 1
      BY <1>2, <1>3, <3>1, <3>2, SMTT(30)
    <3>4. stream[out[a - 1]] = "blank"
      BY <1>2, <2>2, <3>1 DEF ClientBlanks
    <3>5. out[a - 1] = x - 1
      BY <3>3
    <3>6. QED
      BY <3>4, <3>5
  <2>3. QED
    BY <1>3, <2>1, <2>2
<1>5. y + 1 \in 1..Len(stream) /\ stream[y + 1] = "blank"
  <2>1. b + 1 \in DOMAIN out /\ b \in DOMAIN out
    BY <1>2, <1>3 DEF ClientBlanks
  <2>2. out[b + 1] = out[b] + 1
    BY <2>1, NextLine
  <2>3. out[b + 1] = y + 1 /\ stream[out[b + 1]] = "blank" /\ out[b + 1] <= Len(stream)
    BY <1>2, <1>3, <2>1, <2>2 DEF ClientBlanks
  <2>4. QED
    BY <2>3
<1>6. \A n \in x..y : stream[n] # "part"
  <2>1. TAKE n \in x..y
  <2>2. x \in Nat /\ x >= 1 /\ y \in Nat /\ y + 1 <= Len(stream) /\ x <= n /\ n <= y /\ n \in Nat
    BY <1>2, <1>5, <2>1
  <2>3. Len(stream) \in Nat
    BY <1>2
  <2>4. n \in 1..Len(stream) /\ n # Len(stream)
    BY <2>2, <2>3
  <2>5. QED
    BY <1>2, <2>4 DEF InvClient, Shape
<1>7. QED
  BY <1>1, <1>4, <1>5, <1>6, BackendEventIs

\* A heartbeat does not matter to events that have only one line to come in between.
LEMMA UnbrokenOneLine ==
    ASSUME InvClient, EventLines = 1, ~PartialLines, NEW e \in ClientEvents
    PROVE  e \in BackendEvents
<1>1. PICK a \in 1..Len(out), b \in 1..Len(out), x \in 1..Len(stream), y \in 1..Len(stream) :
         Relays(e, a, b, x, y)
  BY ClientEventIs
<1>2. /\ DOMAIN stream = 1..Len(stream) /\ Len(stream) \in Nat
      /\ \A n \in 2..Len(stream) : stream[n] # "blank" => stream[n - 1] = "blank"
      /\ \A n \in DOMAIN stream : stream[n] # "part"
  BY DEF InvClient, Inv, TypeOK, Shape
<1>3. x <= y /\ stream[x] # "blank" /\ stream[y] # "blank"
  BY <1>1 DEF Relays
<1>4. x = 1 \/ stream[x - 1] = "blank"
  BY <1>2, <1>3
<1>5. y = Len(stream) \/ stream[y + 1] = "blank"
  <2>1. ASSUME y # Len(stream), stream[y + 1] # "blank"
        PROVE  FALSE
    <3> y \in Nat /\ y >= 1 /\ y <= Len(stream)
      BY <1>2
    <3> Len(stream) \in Nat /\ y # Len(stream)
      BY <1>2, <2>1
    <3>1. y + 1 \in 2..Len(stream) /\ (y + 1) - 1 = y
      OBVIOUS
    <3>2. QED
      BY <1>2, <1>3, <2>1, <3>1
  <2>2. QED
    BY <2>1
<1>6. \A n \in x..y : stream[n] # "part"
  BY <1>2
<1>7. QED
  BY <1>1, <1>4, <1>5, <1>6, BackendEventIs

-------------------------------------------------------------------------------
(* What is due is delivered.                                                  *)

\* A due event, by its lines, and that the client has every line as far as the blank
\* one after it.
LEMMA DueEventIs ==
    ASSUME InvClient, NEW e \in DueEvents,
           status = "ok", handler \in {"returned", "finished"}, ~gone
    PROVE  \E x, y \in 1..Len(stream) :
              /\ IsEvent(Lines, Blanks, x, y)
              /\ e = SubSeq(Lines, x, y)
              /\ y + 1 \in 1..Len(stream)
              /\ \A n \in 1..(y + 1) : \E i \in DOMAIN out : out[i] = n
<1>1. TypeOK /\ NothingLost
  BY InvLosesNothing DEF InvClient, Inv
<1>2. /\ Lines \in Seq(Nat) /\ Len(Lines) = Len(stream)
      /\ \A n \in 1..Len(stream) : Lines[n] = n
      /\ DOMAIN stream = 1..Len(stream) /\ Len(stream) \in Nat
  BY <1>1, LinesAre
<1>3. PICK x \in 1..Len(Lines), y \in 1..Len(Lines) :
         IsEvent(Lines, Blanks, x, y) /\ e = SubSeq(Lines, x, y)
  BY <1>2, EventsAre DEF DueEvents, CompleteEvents
<1>4. x \in 1..Len(stream) /\ y \in 1..Len(stream) /\ x <= y /\ y + 1 \in 1..Len(stream)
  BY <1>2, <1>3 DEF IsEvent, Blanks
<1>5. e[Len(e)] = y
  <2>1. Len(e) = y - x + 1 /\ \A i \in 1..(y - x + 1) : e[i] = Lines[x + i - 1]
    BY <1>2, <1>3, <1>4, Piece
  <2>2. y - x + 1 \in 1..(y - x + 1) /\ x + (y - x + 1) - 1 = y
    BY <1>2, <1>4
  <2>3. QED
    BY <1>2, <1>4, <2>1, <2>2
<1>6. Relayable(y + 1)
  BY <1>5 DEF DueEvents
<1>7. ASSUME NEW n \in 1..(y + 1)
      PROVE  \E i \in DOMAIN out : out[i] = n
  <2>1. n \in DOMAIN stream /\ \A m \in 1..(n - 1) : m \in 1..((y + 1) - 1)
    BY <1>2, <1>4
  <2>2. n = y + 1 \/ n \in 1..((y + 1) - 1)
    BY <1>4
  <2>3. Relayable(n)
    BY <1>6, <2>1, <2>2 DEF Relayable
  <2>4. QED
    BY <1>1, <2>1, <2>3 DEF NothingLost
<1>8. QED
  BY <1>3, <1>4, <1>7

\* Without heartbeats each line is at its own place.
LEMMA InPlace ==
    ASSUME InvClient, BeatFree, NEW i \in DOMAIN out
    PROVE  out[i] = i
<1>1. out \in Seq(Nat) /\ DOMAIN out = 1..Len(out) /\ Len(out) \in Nat
  BY DEF InvClient, Inv, TypeOK
<1>2. 1 \in DOMAIN out /\ i \in Nat /\ 1 <= i /\ \A k \in 1..i : k \in DOMAIN out
  BY <1>1
<1>3. out[1] \in Nat /\ out[1] # 0
  BY <1>1, <1>2 DEF BeatFree, Beat
<1>4. \A n \in 1..(out[1] - 1) : FALSE
  <2>1. \A n \in 1..(out[1] - 1) : \E j \in 1..(1 - 1) : out[j] = n
    BY <1>2 DEF InvClient, Inv, LinesInOrder
  <2>2. QED
    BY <2>1
<1>5. out[1] = 1
  BY <1>3, <1>4
<1>6. out[i] = out[1] + (i - 1)
  BY <1>2 DEF InvClient, Runs, BeatFree
<1>7. QED
  BY <1>2, <1>5, <1>6

LEMMA DeliveredBetweenLines == InvClient /\ BeatFree => EventsDelivered
<1> SUFFICES ASSUME InvClient, BeatFree,
                    status = "ok", handler \in {"returned", "finished"}, ~gone,
                    NEW e \in DueEvents
             PROVE  e \in ClientEvents
  BY DEF EventsDelivered
<1>1. TypeOK /\ out \in Seq(Nat) /\ DOMAIN out = 1..Len(out) /\ Len(out) \in Nat
  BY DEF InvClient, Inv, TypeOK
<1>2. PICK x \in 1..Len(stream), y \in 1..Len(stream) :
         /\ IsEvent(Lines, Blanks, x, y) /\ e = SubSeq(Lines, x, y)
         /\ y + 1 \in 1..Len(stream)
         /\ \A n \in 1..(y + 1) : \E i \in DOMAIN out : out[i] = n
  BY DueEventIs
<1>3. x \in Nat /\ y \in Nat /\ 1 <= x /\ x <= y
  BY <1>1, <1>2, LinesAre DEF IsEvent
<1>4. \A n \in 1..(y + 1) : n \in DOMAIN out /\ out[n] = n
  BY <1>2, InPlace
<1>5. \A n \in 1..(y + 1) : n \in ClientBlanks <=> n \in Blanks
  <2>1. TAKE n \in 1..(y + 1)
  <2>2. n \in DOMAIN stream /\ n \in DOMAIN out /\ out[n] = n /\ n # Beat
    BY <1>1, <1>2, <1>4, LinesAre, SMTT(30) DEF Beat
  <2>3. QED
    BY <2>2 DEF ClientBlanks, Blanks
<1>6. x \in 1..Len(out) /\ y \in 1..Len(out)
  BY <1>1, <1>3, <1>4
<1>7. IsEvent(out, ClientBlanks, x, y)
  <2>1. y + 1 \in ClientBlanks
    BY <1>2, <1>3, <1>5 DEF IsEvent
  <2>2. x = 1 \/ x - 1 \in ClientBlanks
    <3>1. x = 1 \/ x - 1 \in 1..(y + 1)
      BY <1>3
    <3>2. QED
      BY <1>2, <1>5, <3>1 DEF IsEvent
  <2>3. \A i \in x..y : i \notin ClientBlanks
    <3>1. \A i \in x..y : i \in 1..(y + 1)
      BY <1>3
    <3>2. QED
      BY <1>2, <1>5, <3>1 DEF IsEvent
  <2>4. QED
    BY <1>3, <1>6, <2>1, <2>2, <2>3 DEF IsEvent
<1>8. SubSeq(out, x, y) \in ClientEvents
  BY <1>1, <1>6, <1>7, EventsAre DEF ClientEvents
<1>9. SubSeq(out, x, y) = e
  <2> DEFINE t == SubSeq(out, x, y)
  <2>1. t \in Seq(Nat) /\ Len(t) = y - x + 1 /\ \A i \in 1..(y - x + 1) : t[i] = out[x + i - 1]
    BY <1>1, <1>3, <1>6, Piece
  <2>2. \A i \in 1..(y - x + 1) : x + i - 1 \in 1..(y + 1)
    BY <1>3
  <2>3. \A i \in 1..(y - x + 1) : t[i] = x + i - 1
    BY <1>4, <2>1, <2>2
  <2> HIDE DEF t
  <2>4. t = SubSeq(Lines, x, y)
    BY <1>1, <1>3, <2>1, <2>3, Stretch
  <2>5. QED
    BY <1>2, <2>4 DEF t
<1>10. QED
  BY <1>8, <1>9

\* A heartbeat is the only thing that can split an event.
THEOREM OnlyBeatsSplit == Spec => []BeatsAloneSplit
<1>1. InvClient => BeatsAloneSplit
  BY UnbrokenBetweenLines, DeliveredBetweenLines DEF BeatsAloneSplit, EventsUnbroken
<1>2. QED
  BY <1>1, ClientInvariance, PTL

\* Where an event has one content line, the heartbeats around that line are to the client
\* what the blank lines are.
LEMMA DeliveredOneLine ==
    ASSUME InvClient, EventLines = 1 PROVE EventsDelivered
<1> SUFFICES ASSUME status = "ok", handler \in {"returned", "finished"}, ~gone,
                    NEW e \in DueEvents
             PROVE  e \in ClientEvents
  BY DEF EventsDelivered
<1>1. TypeOK /\ out \in Seq(Nat) /\ DOMAIN out = 1..Len(out) /\ Len(out) \in Nat
  BY DEF InvClient, Inv, TypeOK
<1>2. PICK x \in 1..Len(stream), y \in 1..Len(stream) :
         /\ IsEvent(Lines, Blanks, x, y) /\ e = SubSeq(Lines, x, y)
         /\ y + 1 \in 1..Len(stream)
         /\ \A n \in 1..(y + 1) : \E i \in DOMAIN out : out[i] = n
  BY DueEventIs
<1>3. /\ DOMAIN stream = 1..Len(stream) /\ Len(stream) \in Nat
      /\ \A n \in 2..Len(stream) : stream[n] # "blank" => stream[n - 1] = "blank"
  BY <1>1, LinesAre DEF InvClient, Shape
<1>4. x \in Nat /\ y \in Nat /\ 1 <= x /\ x <= y /\ y <= Len(stream)
  BY <1>2, <1>3 DEF IsEvent
<1>5. \A n \in x..y : n \in 1..Len(stream) /\ stream[n] # "blank"
  BY <1>2, <1>3, <1>4 DEF IsEvent, Blanks
<1>6. y = x
  <2>1. SUFFICES ASSUME x < y PROVE FALSE
    BY <1>4
  <2>2. y \in 2..Len(stream) /\ y \in x..y /\ y - 1 \in x..y
    BY <1>3, <1>4, <2>1
  <2>3. QED
    BY <1>3, <1>5, <2>2
<1>7. stream[x] # "blank" /\ stream[x + 1] = "blank" /\ (x = 1 \/ stream[x - 1] = "blank")
  BY <1>2, <1>4, <1>5, <1>6 DEF IsEvent, Blanks
<1>8. PICK i \in DOMAIN out : out[i] = x
  BY <1>2, <1>4
<1>9. PICK j \in DOMAIN out : out[j] = x + 1
  <2>1. x + 1 \in 1..(y + 1)
    BY <1>4, <1>6
  <2>2. QED
    BY <1>2, <2>1
<1>10. i \in Nat /\ 1 <= i /\ j \in Nat /\ 1 <= j /\ j <= Len(out)
  BY <1>1
\* The lines are in order, with every one of them before its successors.
<1>11. /\ \A k \in DOMAIN out : \A l \in 1..(k - 1) : out[k] # Beat => out[l] < out[k]
       /\ \A k \in DOMAIN out : \A n \in 1..(out[k] - 1) : \E l \in 1..(k - 1) : out[l] = n
  BY DEF InvClient, Inv, LinesInOrder
<1>12. i < j
  <2>1. CASE j < i
    <3>1. j \in 1..(i - 1) /\ out[i] # Beat
      BY <1>4, <1>8, <1>10, <2>1 DEF Beat
    <3>2. out[j] < out[i]
      BY <1>11, <3>1
    <3>3. QED
      BY <1>4, <1>8, <1>9, <3>2
  <2>2. i # j
    BY <1>4, <1>8, <1>9
  <2>3. QED
    BY <1>10, <2>1, <2>2
<1>13. i + 1 \in ClientBlanks
  <2>1. i + 1 \in DOMAIN out
    BY <1>1, <1>10, <1>12
  <2>2. CASE i + 1 = j
    BY <1>7, <1>9, <2>1, <2>2 DEF ClientBlanks
  <2>3. CASE i + 1 # j
    <3>1. i + 1 \in 1..(j - 1) /\ i \in 1..((i + 1) - 1) /\ out[j] # Beat
      BY <1>4, <1>9, <1>10, <1>12, <2>3 DEF Beat
    <3>2. out[i + 1] < out[j]
      BY <1>11, <3>1
    <3>3. out[i + 1] # Beat => out[i] < out[i + 1]
      BY <1>11, <2>1, <3>1
    <3>4. out[i + 1] \in Nat
      BY <1>1, <2>1
    <3>5. out[i + 1] = Beat
      BY <1>4, <1>8, <1>9, <3>2, <3>3, <3>4
    <3>6. QED
      BY <2>1, <3>5 DEF ClientBlanks
  <2>4. QED
    BY <2>2, <2>3
<1>14. i = 1 \/ i - 1 \in ClientBlanks
  <2>1. SUFFICES ASSUME i # 1, out[i - 1] # Beat PROVE i - 1 \in ClientBlanks
    BY <1>1, <1>10 DEF ClientBlanks
  <2>2. i - 1 \in DOMAIN out /\ i - 1 \in 1..(i - 1) /\ out[i] # Beat
    BY <1>1, <1>4, <1>8, <1>10, <2>1 DEF Beat
  <2>3. out[i - 1] \in Nat /\ out[i - 1] # 0 /\ out[i - 1] < x
    BY <1>1, <1>8, <1>11, <2>1, <2>2 DEF Beat
  <2>4. x - 1 \in 1..(out[i] - 1) /\ x - 1 \in Nat
    BY <1>4, <1>8, <2>3
  <2>5. PICK l \in 1..(i - 1) : out[l] = x - 1
    BY <1>11, <2>4
  <2>6. l = i - 1
    <3>1. SUFFICES ASSUME l # i - 1 PROVE FALSE
      OBVIOUS
    <3>2. l \in 1..((i - 1) - 1)
      BY <1>10, <2>5, <3>1
    <3>3. out[l] < out[i - 1]
      BY <1>11, <2>1, <2>2, <3>2
    <3>4. QED
      BY <1>4, <2>3, <2>4, <2>5, <3>3
  <2>7. x # 1
    BY <2>3
  <2>8. QED
    BY <1>7, <2>2, <2>5, <2>6, <2>7 DEF ClientBlanks
<1>15. IsEvent(out, ClientBlanks, i, i)
  <2>1. i \in 1..Len(out) /\ \A k \in i..i : k = i
    BY <1>1, <1>10
  <2>2. i \notin ClientBlanks
    BY <1>4, <1>7, <1>8 DEF ClientBlanks, Beat
  <2>3. QED
    BY <1>10, <1>13, <1>14, <2>1, <2>2 DEF IsEvent
<1>16. SubSeq(out, i, i) \in ClientEvents
  BY <1>1, <1>15, EventsAre DEF ClientEvents
<1>17. SubSeq(out, i, i) = e
  <2> DEFINE t == SubSeq(out, i, i)
  <2>1. t \in Seq(Nat) /\ Len(t) = i - i + 1 /\ \A k \in 1..(i - i + 1) : t[k] = out[i + k - 1]
    BY <1>1, <1>10, Piece, SMTT(30)
  <2>2. x - x + 1 = 1 /\ i - i + 1 = 1 /\ i + 1 - 1 = i /\ x + 1 - 1 = x
    BY <1>4, <1>10
  <2>3. Len(t) = x - x + 1 /\ \A k \in 1..(x - x + 1) : t[k] = x + k - 1
    BY <1>8, <2>1, <2>2
  <2> HIDE DEF t
  <2>4. t = SubSeq(Lines, x, x)
    <3>1. t \in Seq(Nat) /\ x <= x /\ TypeOK
      BY <1>1, <1>4, <2>1
    <3>2. QED
      BY <2>3, <3>1, Stretch
  <2>5. QED
    BY <1>2, <1>6, <2>4 DEF t
<1>18. QED
  BY <1>16, <1>17

\* As long as the backend sends events of one content line, as those in the tests do, and
\* its stream does not break within a line, no number of heartbeats splits an event and
\* every due event is delivered.
THEOREM OneLineEvents ==
    ASSUME EventLines = 1, ~PartialLines
    PROVE  Spec => [](EventsUnbroken /\ EventsDelivered)
<1>1. InvClient => EventsUnbroken /\ EventsDelivered
  BY UnbrokenOneLine, DeliveredOneLine DEF EventsUnbroken
<1>2. QED
  BY <1>1, ClientInvariance, PTL
===============================================================================
