--------------------------- MODULE TelemetryProofs ---------------------------
(* Proofs about Receivers and Telemetry, for every set of clients, every    *)
(* assignment of sensors, all bounds and all tables stored before.          *)
EXTENDS Telemetry, QueriesProofs

(* The table is only ever appended to.                                      *)
Grown == rows' = rows \/ \E row : rows' = Append(rows, row)

LEMMA StoreGrows ==
    ASSUME NEW l, NEW n, NEW unit, NEW ending, Store(l, n, unit, ending)
    PROVE  Grown
BY DEF Store, Grown

LEMMA RNextGrows ==
    ASSUME RNext
    PROVE  Grown
<1>1. ASSUME NEW l \in on, Serve(l) PROVE Grown
  <2>1. ASSUME NEW k \in 1..Len(wire[l]), Recv(l, k) PROVE Grown
    BY <2>1 DEF Recv, Grown
  <2>2. CASE HandleLine(l)
    BY <2>2, StoreGrows DEF HandleLine
  <2>3. CASE Finish(l)
    BY <2>3 DEF Finish, Grown
  <2>4. ASSUME NEW i \in DOMAIN wire["udp"], ReceiveDatagram(i) PROVE Grown
    BY <2>4, StoreGrows DEF ReceiveDatagram
  <2>5. CASE ReceiveFrame
    BY <2>5, StoreGrows DEF ReceiveFrame
  <2>6. ASSUME NEW k \in DOMAIN wire["uart"], ReadLine(k) PROVE Grown
    BY <2>6, StoreGrows DEF ReadLine
  <2>7. CASE Forward \/ OnConnect
    BY <2>7 DEF Forward, OnConnect, Grown
  <2>8. CASE OnMessage
    BY <2>8, StoreGrows DEF OnMessage
  <2> QED
    BY <1>1, <2>1, <2>2, <2>3, <2>4, <2>5, <2>6, <2>7, <2>8 DEF Serve
<1>2. ASSUME NEW l, NEW kind, NEW parts, NEW well, Send(l, kind, parts, well) PROVE Grown
  BY <1>2 DEF Send, Grown
<1>3. ASSUME NEW l \in Connections, NEW kind, SendLine(l, kind) PROVE Grown
  BY <1>2, <1>3 DEF SendLine
<1>4. ASSUME NEW kind, SendSerial(kind) PROVE Grown
  BY <1>2, <1>4 DEF SendSerial
<1>5. ASSUME NEW kind, NEW copies, SendDatagram(kind, copies) PROVE Grown
  BY <1>2, <1>5 DEF SendDatagram
<1>6. ASSUME NEW kind, SendFrame(kind) PROVE Grown
  BY <1>2, <1>6 DEF SendFrame
<1>7. ASSUME NEW kind, Publish(kind) PROVE Grown
  BY <1>2, <1>7 DEF Publish
<1>8. ASSUME NEW l \in Connections, Connect(l) \/ HangUp(l) \/ Break(l) PROVE Grown
  BY <1>8 DEF Connect, HangUp, Break, Grown
<1>9. CASE BreakPublisher
  BY <1>9 DEF BreakPublisher, Grown
<1>10. ASSUME NEW p \in Processes, Crash(p) \/ Start(p) PROVE Grown
  BY <1>10 DEF Crash, Start, Grown
<1> QED
  BY <1>1, <1>3, <1>4, <1>5, <1>6, <1>7, <1>8, <1>9, <1>10 DEF RNext

LEMMA GrownTable ==
    ASSUME rows \in Seq(Range(rows)), Grown
    PROVE  /\ rows' \in Seq(Range(rows'))
           /\ Len(rows) \in Nat /\ Len(rows') \in Nat /\ Len(rows) <= Len(rows')
           /\ \A i \in 1 .. Len(rows) : rows'[i] = rows[i]
           /\ \A i \in 0 .. Len(rows) : SubSeq(rows', 1, i) = SubSeq(rows, 1, i)
<1>1. CASE rows' = rows
  BY <1>1
<1>2. ASSUME NEW row, rows' = Append(rows, row)
      PROVE  /\ rows' \in Seq(Range(rows'))
             /\ Len(rows) \in Nat /\ Len(rows') = Len(rows) + 1
             /\ \A i \in 1 .. Len(rows) : rows'[i] = rows[i]
             /\ \A i \in 0 .. Len(rows) : SubSeq(rows', 1, i) = SubSeq(rows, 1, i)
  <2> DEFINE S == Range(rows) \cup {row}
  <2>1. rows \in Seq(S) /\ row \in S
    OBVIOUS
  <2>2. /\ rows' \in Seq(S) /\ Len(rows) \in Nat /\ Len(rows') = Len(rows) + 1
        /\ \A i \in 1 .. Len(rows) : rows'[i] = rows[i]
    BY <1>2, <2>1
  <2>3. rows' \in Seq(Range(rows'))
    <3>1. DOMAIN rows' = 1 .. Len(rows')
      BY <2>2
    <3>2. \A i \in 1 .. Len(rows') : rows'[i] \in Range(rows')
      BY <3>1 DEF Range
    <3> QED
      BY <2>2, <3>2
  <2>4. ASSUME NEW i \in 0 .. Len(rows) PROVE SubSeq(rows', 1, i) = SubSeq(rows, 1, i)
    BY <2>1, <2>2
  <2> QED
    BY <2>2, <2>3, <2>4
<1> QED
  BY <1>1, <1>2 DEF Grown

-----------------------------------------------------------------------------
(* Between the two selects, what the first one saw is a prefix of the table.*)
SummaryInv ==
    /\ rows \in Seq(Range(rows))
    /\ summary.step = "select_latest" =>
         \E i \in 0 .. Len(rows) :
           summary.stats = SummaryStats(SubSeq(rows, 1, i), summary.sensor)
    /\ SummaryConsistent

LEMMA SummaryInit == TInit => SummaryInv
BY StartsAssumption DEF TInit, Init, Idle, SummaryInv, SummaryConsistent

LEMMA SummaryRNext ==
    ASSUME SummaryInv, Grown, summary' = summary
    PROVE  SummaryInv'
<1>1. /\ rows' \in Seq(Range(rows'))
      /\ Len(rows) \in Nat /\ Len(rows') \in Nat /\ Len(rows) <= Len(rows')
      /\ \A i \in 0 .. Len(rows) : SubSeq(rows', 1, i) = SubSeq(rows, 1, i)
  BY GrownTable DEF SummaryInv
<1>2. \A i \in 0 .. Len(rows) : i \in 0 .. Len(rows')
  BY <1>1
<1>3. \A i \in 0 .. Len(rows) : \A k \in i .. Len(rows) : k \in i .. Len(rows') /\ k \in 0 .. Len(rows)
  BY <1>1
<1>4. ASSUME summary.step = "select_latest"
      PROVE  \E i \in 0 .. Len(rows') :
               summary'.stats = SummaryStats(SubSeq(rows', 1, i), summary'.sensor)
  BY <1>1, <1>2, <1>4 DEF SummaryInv
<1>5. SummaryConsistent'
  <2> SUFFICES ASSUME summary.step = "answered" PROVE SummaryConsistent'
    BY DEF SummaryConsistent
  <2>1. PICK i \in 0 .. Len(rows) : \E k \in i .. Len(rows) :
          /\ summary.stats = SummaryStats(SubSeq(rows, 1, i), summary.sensor)
          /\ summary.latest = LatestReading(SubSeq(rows, 1, k), summary.sensor)
    BY DEF SummaryInv, SummaryConsistent
  <2>0. PICK k \in i .. Len(rows) :
          /\ summary.stats = SummaryStats(SubSeq(rows, 1, i), summary.sensor)
          /\ summary.latest = LatestReading(SubSeq(rows, 1, k), summary.sensor)
    BY <2>1
  <2>2. /\ i \in 0 .. Len(rows') /\ k \in i .. Len(rows')
        /\ SubSeq(rows', 1, i) = SubSeq(rows, 1, i) /\ SubSeq(rows', 1, k) = SubSeq(rows, 1, k)
    BY <1>1, <1>2, <1>3
  <2> QED
    BY <2>0, <2>2 DEF SummaryConsistent
<1> QED
  BY <1>1, <1>4, <1>5 DEF SummaryInv

LEMMA SummaryRequest ==
    ASSUME SummaryInv, Request
    PROVE  SummaryInv'
<1>1. rows' = rows /\ SensorSummary
  BY DEF Request, rvars
<1>2. /\ Len(rows) \in Nat /\ SubSeq(rows, 1, Len(rows)) = rows
      /\ Len(rows) \in 0 .. Len(rows)
  BY DEF SummaryInv
<1>3. ASSUME NEW s \in Asked,
             summary' = [step |-> "select_latest", sensor |-> s, stats |-> SummaryStats(rows, s)]
      PROVE  SummaryInv'
  BY <1>1, <1>2, <1>3 DEF SummaryInv, SummaryConsistent
<1>4. CASE /\ summary.step = "select_latest"
           /\ summary' = [step |-> "answered", sensor |-> summary.sensor, stats |-> summary.stats,
                          latest |-> LatestReading(rows, summary.sensor)]
  <2>1. PICK i \in 0 .. Len(rows) :
          summary.stats = SummaryStats(SubSeq(rows, 1, i), summary.sensor)
    BY <1>4 DEF SummaryInv
  <2>2. Len(rows) \in i .. Len(rows)
    BY <1>2
  <2>3. /\ summary'.step = "answered" /\ summary'.sensor = summary.sensor
        /\ summary'.stats = summary.stats
        /\ summary'.latest = LatestReading(SubSeq(rows, 1, Len(rows)), summary.sensor)
    BY <1>2, <1>4
  <2> QED
    BY <1>1, <2>1, <2>2, <2>3 DEF SummaryInv, SummaryConsistent
<1> QED
  BY <1>1, <1>3, <1>4 DEF SensorSummary

(* sensor_summary never shows a latest reading older than its statistics,   *)
(* nor none beside a count, whatever the receivers insert between its two   *)
(* selects.                                                                 *)
THEOREM SummaryCorrect == TInit /\ [][Next]_vars => []SummaryConsistent
<1>1. TInit => SummaryInv
  BY SummaryInit
<1>2. SummaryInv /\ [Next]_vars => SummaryInv'
  <2> SUFFICES ASSUME SummaryInv, [Next]_vars PROVE SummaryInv'
    OBVIOUS
  <2>1. CASE RNext /\ UNCHANGED summary
    BY <2>1, RNextGrows, SummaryRNext
  <2>2. CASE Request
    BY <2>2, SummaryRequest
  <2>3. CASE UNCHANGED vars
    BY <2>3, SummaryRNext DEF vars, rvars, Grown
  <2> QED
    BY <2>1, <2>2, <2>3 DEF Next
<1>3. SummaryInv => SummaryConsistent
  BY DEF SummaryInv
<1> QED
  BY <1>1, <1>2, <1>3, PTL

-----------------------------------------------------------------------------
(* Sequences.                                                               *)
LEMMA NewlineFound ==
    ASSUME NEW S, NEW s \in Seq(S)
    PROVE  /\ FirstNewline(s) \in 0 .. Len(s)
           /\ FirstNewline(s) > 0 => /\ s[FirstNewline(s)] = Newline
                                     /\ \A i \in 1 .. (FirstNewline(s) - 1) : s[i] # Newline
           /\ FirstNewline(s) = 0 => \A i \in 1 .. Len(s) : s[i] # Newline
<1> DEFINE I == {i \in 1 .. Len(s) : s[i] = Newline}
<1>1. FirstNewline(s) = IF I # {} THEN Min(I) ELSE 0
  BY DEF FirstNewline, SelectInSeq
<1>2. CASE I = {}
  BY <1>1, <1>2
<1>3. CASE I # {}
  <2>1. I \subseteq Nat
    OBVIOUS
  <2>2. \E x \in I : \A y \in I : x <= y
    BY <1>3, <2>1, LeastElement, Zenon
  <2>3. Min(I) \in I /\ \A y \in I : Min(I) <= y
    BY <2>2 DEF Min
  <2> DEFINE m == Min(I)
  <2>4. m \in 1 .. Len(s) /\ s[m] = Newline /\ FirstNewline(s) = m
    BY <1>1, <1>3, <2>3
  <2>5. ASSUME NEW i \in 1 .. (m - 1) PROVE s[i] # Newline
    <3>1. i \in 1 .. Len(s) /\ ~ (m <= i)
      BY <2>4
    <3> QED
      BY <2>3, <3>1
  <2> HIDE DEF m
  <2> QED
    BY <2>4, <2>5
<1> QED
  BY <1>2, <1>3

LEMMA Suffix ==
    ASSUME NEW S, NEW s \in Seq(S), NEW k \in 0 .. Len(s)
    PROVE  /\ From(s, k + 1) \in Seq(S)
           /\ Len(From(s, k + 1)) = Len(s) - k
           /\ \A i \in 1 .. (Len(s) - k) : From(s, k + 1)[i] = s[k + i]
<1> DEFINE t == SubSeq(s, k + 1, Len(s))
<1>1. From(s, k + 1) = t
  BY DEF From
<1>2. Len(s) \in Nat /\ k \in Nat
  OBVIOUS
<1>3. Len(t) = Len(s) - k /\ t = [i \in 1 .. (Len(s) - k) |-> s[k + i]]
  BY <1>2
<1>4. t \in Seq(S)
  BY <1>2, <1>3
<1> QED
  BY <1>1, <1>3, <1>4

LEMMA Prefix ==
    ASSUME NEW S, NEW s \in Seq(S), NEW k \in 0 .. Len(s)
    PROVE  /\ SubSeq(s, 1, k) \in Seq(S)
           /\ Len(SubSeq(s, 1, k)) = k
           /\ \A i \in 1 .. k : SubSeq(s, 1, k)[i] = s[i]
OBVIOUS

LEMMA Concatenation ==
    ASSUME NEW S, NEW b \in Seq(S), NEW w \in Seq(S)
    PROVE  /\ b \o w \in Seq(S) /\ Len(b \o w) = Len(b) + Len(w)
           /\ Len(b) \in Nat /\ Len(w) \in Nat
           /\ \A i \in 1 .. Len(b) : (b \o w)[i] = b[i]
           /\ \A i \in 1 .. Len(w) : (b \o w)[Len(b) + i] = w[i]
           /\ \A i \in (Len(b) + 1) .. (Len(b) + Len(w)) : (b \o w)[i] = w[i - Len(b)]
OBVIOUS

LEMMA SameElements ==
    ASSUME NEW S, NEW s \in Seq(S), NEW t \in Seq(S), Len(s) = Len(t),
           \A i \in 1 .. Len(s) : s[i] = t[i]
    PROVE  s = t
OBVIOUS

(* A cut through a stream that moves parts from one side to the other.      *)
LEMMA Rechunked ==
    ASSUME NEW S, NEW b \in Seq(S), NEW w \in Seq(S), NEW k \in 0 .. Len(w)
    PROVE  (b \o SubSeq(w, 1, k)) \o From(w, k + 1) = b \o w
<1> DEFINE x == SubSeq(w, 1, k)
           y == From(w, k + 1)
<1>1. x \in Seq(S) /\ Len(x) = k /\ \A i \in 1 .. k : x[i] = w[i]
  BY Prefix
<1>2. y \in Seq(S) /\ Len(y) = Len(w) - k /\ \A i \in 1 .. (Len(w) - k) : y[i] = w[k + i]
  BY Suffix
<1> HIDE DEF x, y
<1>3. Len(w) \in Nat /\ k \in Nat
  OBVIOUS
<1>4. /\ x \o y \in Seq(S) /\ Len(x \o y) = Len(x) + Len(y)
      /\ \A i \in 1 .. Len(x) : (x \o y)[i] = x[i]
      /\ \A i \in (Len(x) + 1) .. (Len(x) + Len(y)) : (x \o y)[i] = y[i - Len(x)]
  <2>1. x \in Seq(S) /\ y \in Seq(S)
    BY <1>1, <1>2
  <2> QED
    BY <2>1, Concatenation, SMTT(30)
<1>5. ASSUME NEW i \in 1 .. Len(w) PROVE (x \o y)[i] = w[i]
  <2>1. CASE i <= k
    BY <1>1, <1>3, <1>4, <2>1
  <2>2. CASE i > k
    <3>1. /\ i - k \in 1 .. (Len(w) - k) /\ k + (i - k) = i
          /\ i \in (Len(x) + 1) .. (Len(x) + Len(y))
      BY <1>1, <1>2, <1>3, <2>2
    <3>2. y[i - k] = w[i]
      BY <1>2, <3>1
    <3> QED
      BY <1>1, <1>4, <3>1, <3>2
  <2>3. i <= k \/ i > k
    BY <1>3
  <2> QED
    BY <2>1, <2>2, <2>3
<1>6. Len(x \o y) = Len(w)
  BY <1>1, <1>2, <1>3, <1>4
<1>7. x \o y = w
  BY <1>4, <1>5, <1>6, SameElements
<1>8. (b \o x) \o y = b \o (x \o y)
  BY <1>1, <1>2, ConcatAssociative, SMTT(30)
<1> QED
  BY <1>7, <1>8 DEF x, y

-----------------------------------------------------------------------------
(* The stream of a link: what has arrived, before what is on its way.       *)
(* Connections and the serial line carry lines, the others messages.        *)
Streamed == Connections \cup {"uart"}

Stream(l) == buf[l] \o wire[l]

PartsOf(l) == IF l \in Streamed THEN ((DOMAIN sent[l]) \X (1 .. 3)) \cup {Newline}
                                ELSE (DOMAIN sent[l]) \X {0}

Before(p, q) == p[1] < q[1] \/ (p[1] = q[1] /\ p[2] < q[2])

\* Parts are in the order they were sent in.
Ordered(s) == \A i, j \in 1 .. Len(s) :
                i < j /\ s[i] # Newline /\ s[j] # Newline => Before(s[i], s[j])

\* What comes next in lines.
Follows(p, q) == \/ p = Newline /\ q[2] = 1
                 \/ p[2] \in {1, 2} /\ q = <<p[1], p[2] + 1>>
                 \/ p[2] = 3 /\ q = Newline

Linked(s) == \A i \in 1 .. Len(s) : i < Len(s) => Follows(s[i], s[i + 1])

Complete(s) == s = <<>> \/ s[Len(s)] = Newline

FromStart(s) == s = <<>> \/ s[1][2] = 1

\* Datagrams are in order until one is doubled or overtaken.
InOrder(l) == l # "udp" \/ l \notin disturbed

\* What has been stored is not on its way any more, but for the rest of a cut unit.
Fresh(l) ==
    \A i \in 1 .. Len(rows) : rows[i].from = l =>
      \A j \in 1 .. Len(Stream(l)) :
        \/ Stream(l)[j] = Newline
        \/ Stream(l)[j][1] > rows[i].value
        \/ l = "uart" /\ Stream(l)[j][1] = rows[i].value /\ Stream(l)[j][2] = 3

Typed(l) ==
    /\ sent[l] \in Seq(Kinds(l))
    /\ buf[l] \in Seq(PartsOf(l)) /\ wire[l] \in Seq(PartsOf(l))
    /\ l \in {"udp", "can", "uart"} => buf[l] = <<>>
    /\ l \in Connections =>
         /\ link[l] \in {"none", "open", "closing", "closed"}
         /\ link[l] \in {"none", "closed"} => buf[l] = <<>> /\ wire[l] = <<>>
         /\ link[l] = "none" => sent[l] = <<>>

Ordering(l) == InOrder(l) => Ordered(Stream(l)) /\ Fresh(l)

Framed(l) ==
    l \in Streamed =>
      /\ Linked(Stream(l))
      /\ l = "uart" \/ l \notin disturbed \/ link[l] # "closing" => Complete(Stream(l))
      /\ l \notin disturbed => FromStart(Stream(l))

\* StoredAsSent of the rows that came over l.
RowsOf(l) ==
    \A i \in 1 .. Len(rows) : rows[i].from = l =>
      /\ rows[i].value \in Good(l)
      /\ rows[i].unit = "cut" => l = "uart" /\ l \in disturbed
      /\ InOrder(l) => \A j \in 1 .. (i - 1) : rows[j].from = l => rows[j].value < rows[i].value

\* NothingLostUndisturbed of l.
Kept(l) ==
    l \notin disturbed =>
      \A n \in Expected(l) :
        \/ \E i \in 1 .. Len(rows) : rows[i].from = l /\ rows[i].value = n
        \/ \E j \in 1 .. Len(Stream(l)) : Stream(l)[j][1] = n

LinkInv(l) == Typed(l) /\ Ordering(l) /\ Framed(l) /\ RowsOf(l) /\ Kept(l)

ReceiversInv ==
    /\ on \subseteq Links
    /\ rows \in Seq(Range(rows))
    /\ DOMAIN sent = Links /\ DOMAIN wire = Links /\ DOMAIN buf = Links /\ DOMAIN link = Links
    /\ \A l \in Links : LinkInv(l)

LEMMA PartShape ==
    ASSUME NEW l, sent[l] \in Seq(Kinds(l)), NEW p \in PartsOf(l)
    PROVE  /\ p[1] \in Nat /\ p[2] \in 0 .. 3 /\ p = <<p[1], p[2]>>
           /\ p # Newline => p[1] \in 1 .. Len(sent[l])
           /\ l \in Streamed => (p = Newline <=> p[2] = 0)
           /\ l \notin Streamed => p # Newline /\ p[2] = 0
<1>1. DOMAIN sent[l] = 1 .. Len(sent[l]) /\ Len(sent[l]) \in Nat
  OBVIOUS
<1>2. CASE l \in Streamed
  BY <1>1, <1>2 DEF PartsOf, Newline
<1>3. CASE l \notin Streamed
  BY <1>1, <1>3 DEF PartsOf, Newline
<1> QED
  BY <1>2, <1>3

LEMMA StreamParts ==
    ASSUME NEW l, Typed(l)
    PROVE  /\ Stream(l) \in Seq(PartsOf(l)) /\ Len(Stream(l)) \in Nat
           /\ \A j \in 1 .. Len(Stream(l)) : Stream(l)[j] \in PartsOf(l)
<1>1. Stream(l) \in Seq(PartsOf(l))
  BY Concatenation DEF Typed, Stream
<1> HIDE DEF Stream
<1> QED
  BY <1>1

-----------------------------------------------------------------------------
(* t is s with some parts left out.                                         *)
Thins(t, s) ==
    \E h \in [1 .. Len(t) -> 1 .. Len(s)] :
      \A i \in 1 .. Len(t) : /\ t[i] = s[h[i]]
                             /\ \A j \in 1 .. Len(t) : i < j => h[i] < h[j]

LEMMA ThinsItself ==
    ASSUME NEW S, NEW s \in Seq(S)
    PROVE  Thins(s, s)
<1> DEFINE h == [i \in 1 .. Len(s) |-> i]
<1>1. h \in [1 .. Len(s) -> 1 .. Len(s)] /\ \A i \in 1 .. Len(s) : h[i] = i
  OBVIOUS
<1> HIDE DEF h
<1> QED
  BY <1>1 DEF Thins

LEMMA ThinsSuffix ==
    ASSUME NEW S, NEW s \in Seq(S), NEW k \in 0 .. Len(s)
    PROVE  Thins(From(s, k + 1), s)
<1> DEFINE t == From(s, k + 1)
           h == [i \in 1 .. Len(t) |-> k + i]
<1>0. Len(s) \in Nat /\ k \in Nat
  OBVIOUS
<1>1. Len(t) = Len(s) - k /\ \A i \in 1 .. (Len(s) - k) : t[i] = s[k + i]
  BY Suffix, Zenon
<1>2. h \in [1 .. Len(t) -> 1 .. Len(s)] /\ \A i \in 1 .. Len(t) : h[i] = k + i
  BY <1>0, <1>1
<1> HIDE DEF h, t
<1>3. \A i \in 1 .. Len(t) : /\ t[i] = s[h[i]]
                             /\ \A j \in 1 .. Len(t) : i < j => h[i] < h[j]
  BY <1>0, <1>1, <1>2
<1> QED
  BY <1>2, <1>3 DEF Thins, t

LEMMA ThinsPrefix ==
    ASSUME NEW S, NEW b \in Seq(S), NEW w \in Seq(S)
    PROVE  Thins(b, b \o w)
<1> DEFINE h == [i \in 1 .. Len(b) |-> i]
           t == b \o w
<1>1. /\ Len(b) \in Nat /\ Len(w) \in Nat /\ Len(t) = Len(b) + Len(w)
      /\ \A i \in 1 .. Len(b) : t[i] = b[i]
  OBVIOUS
<1> HIDE DEF t
<1>2. h \in [1 .. Len(b) -> 1 .. Len(t)] /\ \A i \in 1 .. Len(b) : h[i] = i
  BY <1>1
<1> HIDE DEF h
<1>3. \A i \in 1 .. Len(b) : /\ b[i] = t[h[i]]
                             /\ \A j \in 1 .. Len(b) : i < j => h[i] < h[j]
  BY <1>1, <1>2
<1>4. Thins(b, t)
  BY <1>2, <1>3, Zenon DEF Thins
<1> QED
  BY <1>4 DEF t

LEMMA ThinsMiddle ==
    ASSUME NEW S, NEW b \in Seq(S), NEW w \in Seq(S), w # <<>>
    PROVE  Thins(b \o Tail(w), b \o w)
<1> DEFINE t == b \o Tail(w)
           h == [i \in 1 .. Len(t) |-> IF i <= Len(b) THEN i ELSE i + 1]
<1>1. /\ Len(b) \in Nat /\ Len(w) \in Nat /\ Len(w) > 0 /\ Len(b \o w) = Len(b) + Len(w)
      /\ Tail(w) \in Seq(S) /\ Len(Tail(w)) = Len(w) - 1
      /\ \A i \in 1 .. (Len(w) - 1) : Tail(w)[i] = w[i + 1]
  OBVIOUS
<1>2. /\ \A i \in 1 .. Len(b) : (b \o w)[i] = b[i]
      /\ \A i \in (Len(b) + 1) .. (Len(b) + Len(w)) : (b \o w)[i] = w[i - Len(b)]
  OBVIOUS
<1>3. /\ Len(t) = Len(b) + Len(w) - 1
      /\ \A i \in 1 .. Len(b) : t[i] = b[i]
      /\ \A i \in (Len(b) + 1) .. (Len(b) + Len(w) - 1) : t[i] = Tail(w)[i - Len(b)]
  <2> DEFINE r == Tail(w)
  <2>1. r \in Seq(S) /\ Len(r) = Len(w) - 1
    BY <1>1
  <2> HIDE DEF r
  <2>2. /\ Len(b \o r) = Len(b) + Len(r)
        /\ \A i \in 1 .. Len(b) : (b \o r)[i] = b[i]
        /\ \A i \in (Len(b) + 1) .. (Len(b) + Len(r)) : (b \o r)[i] = r[i - Len(b)]
    BY <2>1
  <2> QED
    BY <1>1, <2>1, <2>2 DEF r
<1>4. /\ h \in [1 .. Len(t) -> 1 .. Len(b \o w)]
      /\ \A i \in 1 .. Len(t) : h[i] = IF i <= Len(b) THEN i ELSE i + 1
  BY <1>1, <1>3
<1> HIDE DEF h, t
<1>5. ASSUME NEW i \in 1 .. Len(t) PROVE t[i] = (b \o w)[h[i]]
  <2>1. CASE i <= Len(b)
    BY <1>1, <1>2, <1>3, <1>4, <2>1
  <2>2. CASE i > Len(b)
    <3>1. /\ i \in (Len(b) + 1) .. (Len(b) + Len(w) - 1) /\ i - Len(b) \in 1 .. (Len(w) - 1)
          /\ i + 1 \in (Len(b) + 1) .. (Len(b) + Len(w)) /\ i + 1 - Len(b) = i - Len(b) + 1
      BY <1>1, <1>3, <2>2
    <3>2. t[i] = w[i - Len(b) + 1]
      BY <1>1, <1>3, <3>1
    <3>3. h[i] = i + 1
      BY <1>1, <1>4, <2>2
    <3> QED
      BY <1>2, <3>1, <3>2, <3>3
  <2>3. i \in Nat /\ Len(b) \in Nat
    BY <1>1
  <2>4. i <= Len(b) \/ i > Len(b)
    BY <2>3
  <2> QED
    BY <2>1, <2>2, <2>4
<1>6. ASSUME NEW i \in 1 .. Len(t), NEW j \in 1 .. Len(t), i < j PROVE h[i] < h[j]
  BY <1>1, <1>4, <1>6
<1> QED
  BY <1>4, <1>5, <1>6 DEF Thins, t

LEMMA OrderedThins ==
    ASSUME NEW t, NEW s, Len(s) \in Nat, Len(t) \in Nat, Thins(t, s), Ordered(s)
    PROVE  Ordered(t)
<1>1. PICK h \in [1 .. Len(t) -> 1 .. Len(s)] :
        \A i \in 1 .. Len(t) : /\ t[i] = s[h[i]]
                               /\ \A j \in 1 .. Len(t) : i < j => h[i] < h[j]
  BY DEF Thins
<1>2. ASSUME NEW i \in 1 .. Len(t), NEW j \in 1 .. Len(t), i < j,
             t[i] # Newline, t[j] # Newline
      PROVE  Before(t[i], t[j])
  <2>1. h[i] \in 1 .. Len(s) /\ h[j] \in 1 .. Len(s) /\ h[i] < h[j]
        /\ t[i] = s[h[i]] /\ t[j] = s[h[j]]
    BY <1>1, <1>2
  <2> QED
    BY <1>2, <2>1 DEF Ordered
<1> QED
  BY <1>2 DEF Ordered

-----------------------------------------------------------------------------
(* A step that stores nothing over l, and one that stores n.                *)
RowsKept(l) == rows' = rows \/ \E row : row.from # l /\ rows' = Append(rows, row)

RowsTaken(l, n) ==
    \E row : /\ row.from = l /\ row.value = n
             /\ row.unit = "cut" => l = "uart" /\ l \in disturbed'
             /\ rows' = Append(rows, row)

StillDisturbed(l) == l \in disturbed => l \in disturbed'

LEMMA KeptRows ==
    ASSUME NEW l, rows \in Seq(Range(rows)), RowsKept(l)
    PROVE  /\ Len(rows) \in Nat /\ Len(rows') \in Nat /\ Len(rows) <= Len(rows')
           /\ \A i \in 1 .. Len(rows) : rows'[i] = rows[i]
           /\ \A i \in 1 .. Len(rows') : rows'[i].from = l => i \in 1 .. Len(rows)
<1>1. CASE rows' = rows
  BY <1>1
<1>2. ASSUME NEW row, row.from # l, rows' = Append(rows, row)
      PROVE  /\ Len(rows) \in Nat /\ Len(rows') = Len(rows) + 1
             /\ \A i \in 1 .. Len(rows) : rows'[i] = rows[i]
             /\ rows'[Len(rows) + 1] = row
  BY <1>2
<1>3. ASSUME NEW row, row.from # l, rows' = Append(rows, row)
      PROVE  \A i \in 1 .. Len(rows') : rows'[i].from = l => i \in 1 .. Len(rows)
  BY <1>2, <1>3
<1> QED
  BY <1>1, <1>2, <1>3 DEF RowsKept

LEMMA TakenRows ==
    ASSUME NEW l, NEW n, rows \in Seq(Range(rows)), RowsTaken(l, n)
    PROVE  /\ Len(rows) \in Nat /\ Len(rows') = Len(rows) + 1
           /\ \A i \in 1 .. Len(rows) : rows'[i] = rows[i]
           /\ rows'[Len(rows) + 1].from = l /\ rows'[Len(rows) + 1].value = n
           /\ rows'[Len(rows) + 1].unit = "cut" => l = "uart" /\ l \in disturbed'
BY DEF RowsTaken

LEMMA OrderingKept ==
    ASSUME NEW l, rows \in Seq(Range(rows)), Typed(l), Typed(l)', Ordering(l),
           RowsKept(l), StillDisturbed(l), Thins(Stream(l)', Stream(l))
    PROVE  Ordering(l)'
<1> SUFFICES ASSUME InOrder(l)' PROVE Ordered(Stream(l)') /\ Fresh(l)'
  BY DEF Ordering
<1>1. Ordered(Stream(l)) /\ Fresh(l)
  BY DEF Ordering, InOrder, StillDisturbed
<1>2. Len(Stream(l)) \in Nat /\ Len(Stream(l)') \in Nat
  BY StreamParts
<1>3. Ordered(Stream(l)')
  BY <1>1, <1>2, OrderedThins
<1>4. ASSUME NEW i \in 1 .. Len(rows'), rows'[i].from = l, NEW j \in 1 .. Len(Stream(l)')
      PROVE  \/ Stream(l)'[j] = Newline
             \/ Stream(l)'[j][1] > rows'[i].value
             \/ l = "uart" /\ Stream(l)'[j][1] = rows'[i].value /\ Stream(l)'[j][2] = 3
  <2>1. i \in 1 .. Len(rows) /\ rows'[i] = rows[i]
    BY <1>4, KeptRows
  <2>2. PICK q \in 1 .. Len(Stream(l)) : Stream(l)'[j] = Stream(l)[q]
    BY DEF Thins
  <2> QED
    BY <1>1, <1>4, <2>1, <2>2 DEF Fresh
<1> QED
  BY <1>3, <1>4 DEF Fresh

LEMMA GoodGrows ==
    ASSUME NEW l, sent[l] \in Seq(Kinds(l)),
           sent'[l] = sent[l] \/ \E kind : sent'[l] = Append(sent[l], kind)
    PROVE  Good(l) \subseteq Good(l)'
<1>1. DOMAIN sent[l] = 1 .. Len(sent[l])
  OBVIOUS
<1>2. ASSUME NEW kind, sent'[l] = Append(sent[l], kind)
      PROVE  Good(l) \subseteq Good(l)'
  <2>1. DOMAIN sent'[l] = 1 .. (Len(sent[l]) + 1) /\ \A n \in 1 .. Len(sent[l]) : sent'[l][n] = sent[l][n]
    BY <1>2
  <2> QED
    BY <1>1, <2>1 DEF Good
<1> QED
  BY <1>2 DEF Good

LEMMA RowsOfKept ==
    ASSUME NEW l, rows \in Seq(Range(rows)), RowsOf(l), RowsKept(l), StillDisturbed(l),
           Good(l) \subseteq Good(l)'
    PROVE  RowsOf(l)'
<1> SUFFICES ASSUME NEW i \in 1 .. Len(rows'), rows'[i].from = l
             PROVE  /\ rows'[i].value \in Good(l)'
                    /\ rows'[i].unit = "cut" => l = "uart" /\ l \in disturbed'
                    /\ InOrder(l)' => \A j \in 1 .. (i - 1) :
                         rows'[j].from = l => rows'[j].value < rows'[i].value
  BY DEF RowsOf
<1>1. i \in 1 .. Len(rows) /\ rows'[i] = rows[i] /\ Len(rows) \in Nat
  BY KeptRows
<1>2. rows'[i].value \in Good(l)' /\ (rows'[i].unit = "cut" => l = "uart" /\ l \in disturbed')
  BY <1>1 DEF RowsOf, StillDisturbed
<1>3. ASSUME InOrder(l)', NEW j \in 1 .. (i - 1), rows'[j].from = l
      PROVE  rows'[j].value < rows'[i].value
  <2>1. j \in 1 .. Len(rows)
    BY <1>1
  <2>2. rows'[j] = rows[j]
    BY <2>1, KeptRows
  <2>3. InOrder(l)
    BY <1>3 DEF InOrder, StillDisturbed
  <2> QED
    BY <1>1, <1>3, <2>2, <2>3 DEF RowsOf
<1> QED
  BY <1>2, <1>3

-----------------------------------------------------------------------------
(* What a step may do to a link that it takes nothing from.                 *)
LinkKept(l) ==
    l \in Connections => \/ link'[l] = link[l] \/ link'[l] = "closing"
                        \/ link[l] # "closing" \/ Stream(l) = <<>>

LEMMA SameLink ==
    ASSUME NEW l, rows \in Seq(Range(rows)), LinkInv(l), Typed(l)', LinkKept(l),
           RowsKept(l), StillDisturbed(l), sent'[l] = sent[l], Stream(l)' = Stream(l)
    PROVE  LinkInv(l)'
<1>1. Typed(l) /\ Ordering(l) /\ Framed(l) /\ RowsOf(l) /\ Kept(l)
  BY DEF LinkInv
<1>2. Thins(Stream(l)', Stream(l))
  BY <1>1, StreamParts, ThinsItself
<1>3. Ordering(l)'
  BY <1>1, <1>2, OrderingKept
<1>4. Framed(l)'
  BY <1>1 DEF Framed, LinkKept, StillDisturbed, Streamed, Complete
<1>5. Good(l) \subseteq Good(l)' /\ Expected(l)' \subseteq Expected(l)
  BY DEF Good, Expected
<1>6. RowsOf(l)'
  BY <1>1, <1>5, RowsOfKept
<1>7. Kept(l)'
  <2> SUFFICES ASSUME l \notin disturbed', NEW n \in Expected(l)',
                      ~ \E j \in 1 .. Len(Stream(l)') : Stream(l)'[j][1] = n
               PROVE  \E i \in 1 .. Len(rows') : rows'[i].from = l /\ rows'[i].value = n
    BY DEF Kept
  <2>1. PICK i \in 1 .. Len(rows) : rows[i].from = l /\ rows[i].value = n
    BY <1>1, <1>5 DEF Kept, StillDisturbed
  <2>2. i \in 1 .. Len(rows') /\ rows'[i] = rows[i]
    BY KeptRows
  <2> QED
    BY <2>1, <2>2
<1> QED
  BY <1>3, <1>4, <1>6, <1>7 DEF LinkInv

\* Something is lost, and known to be.
LEMMA LostOverLink ==
    ASSUME NEW l, rows \in Seq(Range(rows)), LinkInv(l), Typed(l)', Framed(l)',
           RowsKept(l), l \in disturbed', Thins(Stream(l)', Stream(l)),
           Good(l) \subseteq Good(l)'
    PROVE  LinkInv(l)'
<1>1. Typed(l) /\ Ordering(l) /\ RowsOf(l) /\ StillDisturbed(l)
  BY DEF LinkInv, StillDisturbed
<1>2. Ordering(l)'
  BY <1>1, OrderingKept
<1>3. RowsOf(l)'
  BY <1>1, RowsOfKept
<1>4. Kept(l)'
  BY DEF Kept
<1> QED
  BY <1>2, <1>3, <1>4 DEF LinkInv

LEMMA NothingLeft ==
    ASSUME NEW l, buf'[l] = <<>>, wire'[l] = <<>>, sent'[l] \in Seq(Kinds(l)),
           l \in Connections => link'[l] = "closed"
    PROVE  /\ Stream(l)' = <<>> /\ Framed(l)' /\ Typed(l)'
           /\ \A s : Thins(Stream(l)', s)
<1>1. Stream(l)' = <<>> /\ Len(Stream(l)') = 0
  BY DEF Stream
<1>2. Framed(l)'
  BY <1>1 DEF Framed, Linked, Complete, FromStart
<1>3. Typed(l)'
  BY DEF Typed, Kinds
<1>4. ASSUME NEW s PROVE Thins(<<>>, s)
  <2> DEFINE h == [i \in 1 .. Len(<<>>) |-> i]
  <2>1. 1 .. Len(<<>>) = {}
    OBVIOUS
  <2>2. h \in [1 .. Len(<<>>) -> 1 .. Len(s)]
    BY <2>1
  <2> HIDE DEF h
  <2> QED
    BY <2>1, <2>2 DEF Thins
<1> QED
  BY <1>1, <1>2, <1>3, <1>4

(* The first message of the stream is a value that is no number.  It ends   *)
(* the thread or the process, and what came after it is not expected.       *)
Killed(l) ==
    /\ l # "mqtt" /\ Stream(l) # <<>> /\ Stream(l)[1] # Newline
    /\ sent[l][Stream(l)[1][1]] = "null"

LEMMA KilledOverLink ==
    ASSUME NEW l, rows \in Seq(Range(rows)), LinkInv(l), Typed(l)', Framed(l)', rows' = rows,
           sent'[l] = sent[l], Stream(l)' = <<>>, Thins(Stream(l)', Stream(l)),
           StillDisturbed(l), l \notin disturbed' => Killed(l)
    PROVE  LinkInv(l)'
<1>1. Typed(l) /\ Ordering(l) /\ RowsOf(l) /\ Kept(l) /\ RowsKept(l) /\ Good(l) \subseteq Good(l)'
  BY DEF LinkInv, RowsKept, Good
<1>2. Ordering(l)'
  BY <1>1, OrderingKept
<1>3. RowsOf(l)'
  BY <1>1, RowsOfKept
<1>4. Kept(l)'
  <2> SUFFICES ASSUME l \notin disturbed', NEW a \in Expected(l)'
               PROVE  \E i \in 1 .. Len(rows) : rows[i].from = l /\ rows[i].value = a
    BY DEF Kept
  <2> DEFINE s == Stream(l)
             n == s[1][1]
  <2>1. a \in Expected(l) /\ l \notin disturbed /\ Killed(l)
    BY DEF Expected, Good, StillDisturbed
  <2>2. a \in Nat \ {0} /\ sent[l][a] = "ok" /\ \A m \in 1 .. a : sent[l][m] # "null"
    BY <1>1, <2>1 DEF Expected, Good, Typed, Killed
  <2>3. s \in Seq(PartsOf(l)) /\ Len(s) \in Nat /\ s # <<>> /\ sent[l] \in Seq(Kinds(l))
    BY <1>1, <2>1, StreamParts DEF Typed, Killed
  <2>4. Ordered(s) /\ s[1] # Newline /\ sent[l][n] = "null"
    BY <1>1, <2>1 DEF Ordering, InOrder, Killed
  <2> HIDE DEF s
  <2>5. 1 \in 1 .. Len(s) /\ s[1] \in PartsOf(l)
    BY <2>3
  <2>6. n \in 1 .. Len(sent[l])
    BY <2>3, <2>4, <2>5, PartShape
  <2>7. ASSUME NEW j \in 1 .. Len(s), s[j][1] = a PROVE FALSE
    <3>1. s[j] # Newline
      BY <2>2, <2>7 DEF Newline
    <3>2. n # a
      BY <2>2, <2>4
    <3>3. j # 1
      BY <2>7, <3>2
    <3>4. 1 < j
      BY <3>3
    <3>5. Before(s[1], s[j])
      BY <2>4, <2>5, <3>1, <3>4 DEF Ordered
    <3>6. n < a
      BY <2>7, <3>2, <3>5 DEF Before
    <3>7. n \in 1 .. a
      BY <2>2, <2>6, <3>6
    <3> QED
      BY <2>2, <2>4, <3>7
  <2> QED
    BY <1>1, <2>1, <2>7 DEF Kept, s
<1> QED
  BY <1>2, <1>3, <1>4 DEF LinkInv

-----------------------------------------------------------------------------
(* Sending.                                                                 *)
SentOver(l, kind, parts) ==
    /\ sent'[l] = Append(sent[l], kind) /\ kind \in Kinds(l)
    /\ wire'[l] = wire[l] \o parts /\ parts \in Seq(PartsOf(l)')
    /\ l \in Connections => link[l] = "open"
    /\ UNCHANGED <<rows, buf, link>>

\* t is s with parts behind.
Extends(t, s, parts) ==
    /\ Len(s) \in Nat /\ Len(parts) \in Nat /\ Len(t) = Len(s) + Len(parts)
    /\ \A i \in 1 .. Len(s) : t[i] = s[i]
    /\ \A i \in 1 .. Len(parts) : t[Len(s) + i] = parts[i]

LEMMA MorePartsOf ==
    ASSUME NEW l, NEW kind, sent[l] \in Seq(Kinds(l)), sent'[l] = Append(sent[l], kind)
    PROVE  /\ PartsOf(l) \subseteq PartsOf(l)'
           /\ DOMAIN sent[l] = 1 .. Len(sent[l]) /\ Len(sent[l]) \in Nat
           /\ DOMAIN sent'[l] = 1 .. (Len(sent[l]) + 1)
           /\ \A n \in 1 .. Len(sent[l]) : sent'[l][n] = sent[l][n]
<1>1. /\ DOMAIN sent[l] = 1 .. Len(sent[l]) /\ Len(sent[l]) \in Nat
      /\ DOMAIN sent'[l] = 1 .. (Len(sent[l]) + 1)
      /\ \A n \in 1 .. Len(sent[l]) : sent'[l][n] = sent[l][n]
  OBVIOUS
<1>2. DOMAIN sent[l] \subseteq DOMAIN sent'[l]
  BY <1>1
<1> QED
  BY <1>1, <1>2 DEF PartsOf

LEMMA SentStream ==
    ASSUME NEW l, NEW kind, NEW parts, Typed(l), SentOver(l, kind, parts)
    PROVE  /\ Typed(l)'
           /\ Stream(l)' = Stream(l) \o parts
           /\ Extends(Stream(l)', Stream(l), parts)
<1> DEFINE P == PartsOf(l)'
<1>1. buf[l] \in Seq(P) /\ wire[l] \in Seq(P) /\ parts \in Seq(P)
  <2>1. PartsOf(l) \subseteq P
    BY MorePartsOf DEF SentOver, Typed
  <2> HIDE DEF P
  <2>2. buf[l] \in Seq(PartsOf(l)) /\ wire[l] \in Seq(PartsOf(l))
    BY DEF Typed
  <2>3. ASSUME NEW s \in Seq(PartsOf(l)) PROVE s \in Seq(P)
    <3>1. \A i \in 1 .. Len(s) : s[i] \in P
      BY <2>1
    <3> QED
      BY <3>1
  <2> QED
    BY <2>2, <2>3 DEF SentOver, P
<1>2. sent'[l] \in Seq(Kinds(l))
  BY DEF SentOver, Typed
<1> HIDE DEF P
<1>3. Typed(l)'
  <2>1. wire'[l] \in Seq(P) /\ buf'[l] = buf[l] /\ link' = link
    BY <1>1 DEF SentOver
  <2>2. Kinds(l)' = Kinds(l)
    BY DEF Kinds
  <2> QED
    BY <1>1, <1>2, <2>1, <2>2 DEF P, Typed, SentOver
<1>4. Stream(l)' = Stream(l) \o parts
  <2>0. \A b, w, p \in Seq(P) : (b \o w) \o p = b \o (w \o p)
    BY ConcatAssociative
  <2>1. (buf[l] \o wire[l]) \o parts = buf[l] \o (wire[l] \o parts)
    BY <1>1, <2>0, Zenon
  <2> QED
    BY <2>1 DEF Stream, SentOver
<1>5. /\ Len(Stream(l)) \in Nat /\ Stream(l) \in Seq(P)
      /\ \A i \in 1 .. Len(Stream(l)) : Stream(l)[i] \in PartsOf(l)
  <2>1. Stream(l) \in Seq(P)
    BY <1>1, Concatenation DEF Stream
  <2> QED
    BY <2>1, StreamParts
<1>6. /\ Len(Stream(l) \o parts) = Len(Stream(l)) + Len(parts) /\ Len(parts) \in Nat
      /\ \A i \in 1 .. Len(Stream(l)) : (Stream(l) \o parts)[i] = Stream(l)[i]
      /\ \A i \in 1 .. Len(parts) : (Stream(l) \o parts)[Len(Stream(l)) + i] = parts[i]
  BY <1>1, <1>5, Concatenation
<1> QED
  BY <1>3, <1>4, <1>5, <1>6 DEF Extends

\* The parts of the new message come after all that is on its way or stored.
LEMMA SentInOrder ==
    ASSUME NEW l, NEW kind, NEW parts, rows \in Seq(Range(rows)),
           Typed(l), Ordering(l), RowsOf(l), SentOver(l, kind, parts), StillDisturbed(l),
           Ordered(parts), \A i \in 1 .. Len(parts) : parts[i] = Newline \/ parts[i][1] = Number(l)
    PROVE  Ordering(l)'
<1> SUFFICES ASSUME InOrder(l)' PROVE Ordered(Stream(l)') /\ Fresh(l)'
  BY DEF Ordering
<1> DEFINE s == Stream(l)
           t == Stream(l)'
           n == Number(l)
<1>1. Ordered(s) /\ Fresh(l)
  BY DEF Ordering, InOrder, StillDisturbed
<1>2. /\ Len(s) \in Nat /\ Len(parts) \in Nat /\ Len(t) = Len(s) + Len(parts)
      /\ \A i \in 1 .. Len(s) : t[i] = s[i] /\ s[i] \in PartsOf(l)
      /\ \A i \in 1 .. Len(parts) : t[Len(s) + i] = parts[i]
  <2>1. Extends(t, s, parts)
    BY SentStream
  <2>2. \A i \in 1 .. Len(s) : s[i] \in PartsOf(l)
    BY StreamParts
  <2> QED
    BY <2>1, <2>2 DEF Extends
<1>3. \A i \in 1 .. Len(s) : s[i] # Newline => s[i][1] \in Nat /\ s[i][1] < n
  <2>1. ASSUME NEW i \in 1 .. Len(s), s[i] # Newline PROVE s[i][1] \in Nat /\ s[i][1] < n
    <3>1. s[i][1] \in 1 .. Len(sent[l]) /\ Len(sent[l]) \in Nat
      BY <1>2, <2>1, PartShape DEF Typed
    <3> QED
      BY <3>1 DEF Number
  <2> QED
    BY <2>1
<1>4. rows' = rows
  BY DEF SentOver
<1> HIDE DEF s, t, n
<1>5. ASSUME NEW i \in 1 .. Len(t), NEW j \in 1 .. Len(t), i < j, t[i] # Newline, t[j] # Newline
      PROVE  Before(t[i], t[j])
  <2>1. CASE j <= Len(s)
    <3>1. i \in 1 .. Len(s) /\ j \in 1 .. Len(s)
      BY <1>2, <1>5, <2>1
    <3>2. t[i] = s[i] /\ t[j] = s[j]
      BY <1>2, <3>1
    <3> QED
      BY <1>1, <1>5, <3>1, <3>2 DEF Ordered
  <2>2. CASE i <= Len(s) /\ j > Len(s)
    <3>1. i \in 1 .. Len(s) /\ j - Len(s) \in 1 .. Len(parts) /\ Len(s) + (j - Len(s)) = j
      BY <1>2, <1>5, <2>2
    <3>2. t[i] = s[i] /\ t[j] = parts[j - Len(s)]
      BY <1>2, <3>1
    <3>3. t[j][1] = n
      BY <1>5, <3>1, <3>2 DEF n
    <3>4. t[i][1] < t[j][1]
      BY <1>3, <1>5, <3>1, <3>2, <3>3
    <3> QED
      BY <3>4 DEF Before
  <2>3. CASE i > Len(s)
    <3>1. /\ i - Len(s) \in 1 .. Len(parts) /\ Len(s) + (i - Len(s)) = i
          /\ j - Len(s) \in 1 .. Len(parts) /\ Len(s) + (j - Len(s)) = j
          /\ i - Len(s) < j - Len(s)
      BY <1>2, <1>5, <2>3
    <3>2. t[i] = parts[i - Len(s)] /\ t[j] = parts[j - Len(s)]
      BY <1>2, <3>1
    <3> QED
      BY <1>5, <3>1, <3>2 DEF Ordered
  <2>4. i \in Nat /\ j \in Nat
    BY <1>2
  <2>5. j <= Len(s) \/ (i <= Len(s) /\ j > Len(s)) \/ i > Len(s)
    BY <1>2, <2>4
  <2> QED
    BY <2>1, <2>2, <2>3, <2>5
<1>6. Ordered(t)
  BY <1>5 DEF Ordered
<1>7. ASSUME NEW i \in 1 .. Len(rows), rows[i].from = l, NEW j \in 1 .. Len(t)
      PROVE  \/ t[j] = Newline
             \/ t[j][1] > rows[i].value
             \/ l = "uart" /\ t[j][1] = rows[i].value /\ t[j][2] = 3
  <2>1. rows[i].value \in 1 .. Len(sent[l]) /\ Len(sent[l]) \in Nat
    <3>1. rows[i].value \in Good(l)
      BY <1>7 DEF RowsOf
    <3> QED
      BY <3>1 DEF Good, Typed
  <2>2. CASE j <= Len(s)
    <3>1. j \in 1 .. Len(s)
      BY <1>2, <2>2
    <3>2. t[j] = s[j]
      BY <1>2, <3>1
    <3> QED
      BY <1>1, <1>7, <3>1, <3>2 DEF Fresh, s
  <2>3. CASE j > Len(s)
    <3>1. j - Len(s) \in 1 .. Len(parts) /\ Len(s) + (j - Len(s)) = j
      BY <1>2, <2>3
    <3>2. t[j] = parts[j - Len(s)]
      BY <1>2, <3>1
    <3>3. t[j] = Newline \/ t[j][1] = n
      BY <3>1, <3>2 DEF n
    <3>4. n > rows[i].value
      BY <2>1 DEF n, Number
    <3> QED
      BY <3>3, <3>4
  <2>4. j <= Len(s) \/ j > Len(s)
    BY <1>2
  <2> QED
    BY <2>2, <2>3, <2>4
<1> QED
  BY <1>4, <1>6, <1>7 DEF Fresh, t

LEMMA SentKept ==
    ASSUME NEW l, NEW kind, NEW parts, rows \in Seq(Range(rows)),
           Typed(l), Kept(l), SentOver(l, kind, parts), StillDisturbed(l),
           \E i \in 1 .. Len(parts) : parts[i][1] = Number(l)
    PROVE  Kept(l)'
<1> SUFFICES ASSUME l \notin disturbed', NEW m \in Expected(l)'
             PROVE  \/ \E i \in 1 .. Len(rows') : rows'[i].from = l /\ rows'[i].value = m
                    \/ \E j \in 1 .. Len(Stream(l)') : Stream(l)'[j][1] = m
  BY DEF Kept
<1> DEFINE s == Stream(l)
           t == Stream(l)'
<1>1. /\ Len(s) \in Nat /\ Len(parts) \in Nat /\ Len(t) = Len(s) + Len(parts)
      /\ \A i \in 1 .. Len(s) : t[i] = s[i]
      /\ \A i \in 1 .. Len(parts) : t[Len(s) + i] = parts[i]
  <2>1. Extends(t, s, parts)
    BY SentStream
  <2> QED
    BY <2>1 DEF Extends
<1>2. rows' = rows
  BY DEF SentOver
<1>3. m \in Expected(l) \/ m = Number(l)
  <2> SUFFICES ASSUME m # Number(l) PROVE m \in Expected(l)
    OBVIOUS
  <2>1. /\ DOMAIN sent[l] = 1 .. Len(sent[l]) /\ Len(sent[l]) \in Nat
        /\ DOMAIN sent'[l] = 1 .. (Len(sent[l]) + 1)
        /\ \A i \in 1 .. Len(sent[l]) : sent'[l][i] = sent[l][i]
    BY DEF Typed, SentOver
  <2>2. m \in 1 .. Len(sent[l]) /\ sent'[l][m] = "ok"
    BY <2>1 DEF Number, Expected, Good
  <2>3. l = "mqtt" \/ \A i \in 1 .. m : sent'[l][i] # "null"
    BY DEF Expected
  <2>4. \A i \in 1 .. m : sent'[l][i] = sent[l][i]
    BY <2>1, <2>2
  <2>5. m \in Good(l)
    BY <2>1, <2>2 DEF Good
  <2>6. l = "mqtt" \/ \A i \in 1 .. m : sent[l][i] # "null"
    BY <2>3, <2>4
  <2> QED
    BY <2>5, <2>6 DEF Expected
<1> HIDE DEF s, t
<1>4. CASE m = Number(l)
  <2>1. PICK i \in 1 .. Len(parts) : parts[i][1] = Number(l)
    OBVIOUS
  <2>2. Len(s) + i \in 1 .. Len(t)
    BY <1>1
  <2>3. t[Len(s) + i][1] = m
    BY <1>1, <1>4, <2>1
  <2> QED
    BY <2>2, <2>3 DEF t
<1>5. CASE m \in Expected(l)
  <2>1. \/ \E i \in 1 .. Len(rows) : rows[i].from = l /\ rows[i].value = m
        \/ \E j \in 1 .. Len(s) : s[j][1] = m
    BY <1>5 DEF Kept, StillDisturbed, s
  <2>2. \A j \in 1 .. Len(s) : j \in 1 .. Len(t) /\ t[j] = s[j]
    BY <1>1
  <2> QED
    BY <1>2, <2>1, <2>2 DEF t
<1> QED
  BY <1>3, <1>4, <1>5

LEMMA LineParts ==
    ASSUME NEW l \in Streamed, NEW kind, sent[l] \in Seq(Kinds(l)), sent'[l] = Append(sent[l], kind),
           NEW parts, parts = Append(Line(Number(l)), Newline)
    PROVE  /\ parts \in Seq(PartsOf(l)') /\ Len(parts) = 4
           /\ parts[1] = <<Number(l), 1>> /\ parts[2] = <<Number(l), 2>>
           /\ parts[3] = <<Number(l), 3>> /\ parts[4] = Newline
           /\ Number(l) \in Nat \ {0}
<1> DEFINE n == Number(l)
<1>1. n \in DOMAIN sent'[l] /\ n \in Nat \ {0}
  BY MorePartsOf DEF Number
<1>2. {<<n, 1>>, <<n, 2>>, <<n, 3>>, Newline} \subseteq PartsOf(l)'
  BY <1>1 DEF PartsOf
<1> DEFINE P == PartsOf(l)'
<1> HIDE DEF n, P
<1>3. parts = <<<<n, 1>>, <<n, 2>>, <<n, 3>>, Newline>>
  <2>1. ASSUME NEW a, NEW b, NEW c, NEW d PROVE Append(<<a, b, c>>, d) = <<a, b, c, d>>
    <3> DEFINE x == Append(<<a, b, c>>, d)
               y == <<a, b, c, d>>
    <3>1. /\ x \in Seq({a, b, c, d}) /\ Len(x) = 4
          /\ x[1] = a /\ x[2] = b /\ x[3] = c /\ x[4] = d
      OBVIOUS
    <3>2. /\ y \in Seq({a, b, c, d}) /\ Len(y) = 4
          /\ y[1] = a /\ y[2] = b /\ y[3] = c /\ y[4] = d
      OBVIOUS
    <3> HIDE DEF x, y
    <3>3. Len(x) = Len(y) /\ \A i \in 1 .. Len(x) : x[i] = y[i]
      BY <3>1, <3>2
    <3>4. x = y
      BY <3>1, <3>2, <3>3, SameElements, Zenon
    <3> QED
      BY <3>4 DEF x, y
  <2> QED
    BY <2>1, Zenon DEF Line, n
<1>4. /\ parts \in Seq(P) /\ Len(parts) = 4
      /\ parts[1] = <<n, 1>> /\ parts[2] = <<n, 2>> /\ parts[3] = <<n, 3>> /\ parts[4] = Newline
  BY <1>2, <1>3 DEF P
<1> QED
  BY <1>1, <1>4 DEF n, P

LEMMA SentLine ==
    ASSUME NEW l \in Streamed, NEW kind, NEW parts, rows \in Seq(Range(rows)), LinkInv(l),
           SentOver(l, kind, parts), StillDisturbed(l), Len(parts) = 4,
           parts[1] = <<Number(l), 1>>, parts[2] = <<Number(l), 2>>,
           parts[3] = <<Number(l), 3>>, parts[4] = Newline
    PROVE  LinkInv(l)'
<1> DEFINE s == Stream(l)
           t == Stream(l)'
           n == Number(l)
<1>1. Typed(l) /\ Ordering(l) /\ Framed(l) /\ RowsOf(l) /\ Kept(l)
  BY DEF LinkInv
<1>2. /\ Len(parts) = 4 /\ parts[1] = <<n, 1>> /\ parts[2] = <<n, 2>> /\ parts[3] = <<n, 3>>
      /\ parts[4] = Newline /\ n \in Nat \ {0}
  BY <1>1 DEF Typed, Number
<1>3. /\ Typed(l)' /\ Len(s) \in Nat /\ Len(t) = Len(s) + 4 /\ s \in Seq(PartsOf(l))
      /\ \A i \in 1 .. Len(s) : t[i] = s[i]
      /\ \A i \in 1 .. 4 : t[Len(s) + i] = parts[i]
  <2>1. Typed(l)' /\ Extends(t, s, parts)
    BY <1>1, SentStream
  <2>2. s \in Seq(PartsOf(l))
    BY <1>1, StreamParts
  <2> QED
    BY <1>2, <2>1, <2>2 DEF Extends
<1>4. Ordering(l)'
  <2>1. Ordered(parts)
    BY <1>2 DEF Ordered, Before
  <2>2. \A i \in 1 .. Len(parts) : parts[i] = Newline \/ parts[i][1] = Number(l)
    BY <1>2
  <2> QED
    BY <1>1, <2>1, <2>2, SentInOrder
<1>5. RowsOf(l)'
  <2>1. Good(l) \subseteq Good(l)'
    BY <1>1, GoodGrows DEF SentOver, Typed
  <2> QED
    BY <1>1, <2>1, RowsOfKept DEF RowsKept, SentOver
<1>6. Kept(l)'
  <2>1. parts[1][1] = Number(l) /\ 1 \in 1 .. Len(parts)
    BY <1>2
  <2> QED
    BY <1>1, <2>1, SentKept
<1>7. /\ t[Len(s) + 1] = <<n, 1>> /\ t[Len(s) + 2] = <<n, 2>> /\ t[Len(s) + 3] = <<n, 3>>
      /\ t[Len(s) + 4] = Newline
  BY <1>2, <1>3
<1>8. Linked(s) /\ Complete(s) /\ (l \notin disturbed => FromStart(s))
  <2>1. l = "uart" \/ link[l] # "closing"
    BY DEF SentOver, Streamed
  <2> QED
    BY <1>1, <2>1 DEF Framed
<1> HIDE DEF s, t, n
<1>9. Linked(t)
  <2> SUFFICES ASSUME NEW i \in 1 .. Len(t), i < Len(t) PROVE Follows(t[i], t[i + 1])
    BY DEF Linked
  <2>1. CASE i < Len(s)
    <3>1. i \in 1 .. Len(s) /\ i + 1 \in 1 .. Len(s)
      BY <1>3, <2>1
    <3> QED
      BY <1>3, <1>8, <2>1, <3>1 DEF Linked
  <2>2. CASE i = Len(s)
    <3>1. s[Len(s)] = Newline /\ i \in 1 .. Len(s)
      BY <1>3, <1>8, <2>2 DEF Complete
    <3>2. t[i] = Newline /\ t[i + 1] = <<n, 1>>
      BY <1>3, <1>7, <2>2, <3>1
    <3> QED
      BY <3>2 DEF Follows
  <2>3. CASE i = Len(s) + 1
    <3>1. t[i] = <<n, 1>> /\ t[i + 1] = <<n, 2>>
      <4>1. i + 1 = Len(s) + 2
        BY <1>3, <2>3
      <4> QED
        BY <1>7, <2>3, <4>1
    <3> QED
      BY <3>1 DEF Follows
  <2>4. CASE i = Len(s) + 2
    <3>1. t[i] = <<n, 2>> /\ t[i + 1] = <<n, 3>>
      <4>1. i + 1 = Len(s) + 3
        BY <1>3, <2>4
      <4> QED
        BY <1>7, <2>4, <4>1
    <3> QED
      BY <3>1 DEF Follows
  <2>5. CASE i = Len(s) + 3
    <3>1. t[i] = <<n, 3>> /\ t[i + 1] = Newline
      <4>1. i + 1 = Len(s) + 4
        BY <1>3, <2>5
      <4> QED
        BY <1>7, <2>5, <4>1
    <3> QED
      BY <3>1 DEF Follows
  <2>6. i < Len(s) \/ i = Len(s) \/ i = Len(s) + 1 \/ i = Len(s) + 2 \/ i = Len(s) + 3
    BY <1>3, SMTT(30)
  <2> QED
    BY <2>1, <2>2, <2>3, <2>4, <2>5, <2>6
<1>10. Complete(t)
  BY <1>3, <1>7 DEF Complete
<1>11. ASSUME l \notin disturbed PROVE FromStart(t)
  <2>1. CASE s = <<>>
    <3>1. Len(s) = 0
      BY <2>1
    <3> QED
      BY <1>7, <3>1 DEF FromStart
  <2>2. CASE s # <<>>
    <3>1. 1 \in 1 .. Len(s)
      BY <1>3, <2>2
    <3>2. t[1] = s[1]
      BY <1>3, <3>1
    <3> QED
      BY <1>8, <1>11, <2>2, <3>2 DEF FromStart
  <2> QED
    BY <2>1, <2>2
<1>12. Framed(l)'
  BY <1>9, <1>10, <1>11 DEF Framed, StillDisturbed, t
<1> QED
  BY <1>3, <1>4, <1>5, <1>6, <1>12 DEF LinkInv

LEMMA SentMessage ==
    ASSUME NEW l, l \notin Streamed, NEW kind, NEW parts, rows \in Seq(Range(rows)), LinkInv(l),
           SentOver(l, kind, parts), parts = <<Message(Number(l))>>, StillDisturbed(l)
    PROVE  LinkInv(l)'
<1>1. Typed(l) /\ Ordering(l) /\ Framed(l) /\ RowsOf(l) /\ Kept(l)
  BY DEF LinkInv
<1>2. Len(parts) = 1 /\ parts[1] = <<Number(l), 0>>
  BY DEF Message
<1>3. Typed(l)'
  BY <1>1, SentStream
<1>4. Ordering(l)'
  <2>1. Ordered(parts)
    BY <1>2 DEF Ordered
  <2>2. \A i \in 1 .. Len(parts) : parts[i] = Newline \/ parts[i][1] = Number(l)
    BY <1>2
  <2> QED
    BY <1>1, <2>1, <2>2, SentInOrder
<1>5. RowsOf(l)'
  <2>1. Good(l) \subseteq Good(l)'
    BY <1>1, GoodGrows DEF SentOver, Typed
  <2> QED
    BY <1>1, <2>1, RowsOfKept DEF RowsKept, SentOver
<1>6. Kept(l)'
  <2>1. parts[1][1] = Number(l) /\ 1 \in 1 .. Len(parts)
    BY <1>2
  <2> QED
    BY <1>1, <2>1, SentKept
<1>7. Framed(l)'
  BY DEF Framed, Streamed
<1> QED
  BY <1>3, <1>4, <1>5, <1>6, <1>7 DEF LinkInv

\* A message that never arrives, or arrives twice.
LEMMA SentBadly ==
    ASSUME NEW l, NEW kind, NEW parts, rows \in Seq(Range(rows)), LinkInv(l),
           SentOver(l, kind, parts), l \in disturbed', parts = <<>> \/ l = "udp", l \notin Connections
    PROVE  LinkInv(l)'
<1>1. Typed(l) /\ Ordering(l) /\ Framed(l) /\ RowsOf(l) /\ StillDisturbed(l)
  BY DEF LinkInv, StillDisturbed
<1>2. Typed(l)' /\ Stream(l)' = Stream(l) \o parts /\ Stream(l) \in Seq(PartsOf(l))
  BY <1>1, SentStream, StreamParts
<1>3. Good(l) \subseteq Good(l)'
  BY <1>1, GoodGrows DEF SentOver, Typed
<1>4. RowsOf(l)' /\ Kept(l)'
  BY <1>1, <1>3, RowsOfKept DEF RowsKept, SentOver, Kept
<1>5. CASE parts = <<>>
  <2>1. Stream(l)' = Stream(l)
    BY <1>2, <1>5
  <2>2. Thins(Stream(l)', Stream(l))
    BY <1>2, <2>1, ThinsItself
  <2>3. Ordering(l)'
    BY <1>1, <1>2, <2>2, OrderingKept DEF RowsKept, SentOver
  <2>4. Framed(l)'
    BY <1>1, <2>1 DEF Framed, Streamed
  <2> QED
    BY <1>2, <1>4, <2>3, <2>4 DEF LinkInv
<1>6. CASE l = "udp"
  <2>1. Ordering(l)'
    BY <1>6 DEF Ordering, InOrder
  <2>2. Framed(l)'
    BY <1>6 DEF Framed, Streamed
  <2> QED
    BY <1>2, <1>4, <2>1, <2>2 DEF LinkInv
<1> QED
  BY <1>5, <1>6

-----------------------------------------------------------------------------
(* Taking the first k parts of the stream, and storing n or nothing.        *)
TakenFrom(l, k) ==
    /\ k \in 1 .. Len(Stream(l)) /\ Stream(l)' = From(Stream(l), k + 1)
    /\ sent'[l] = sent[l] /\ Typed(l)' /\ StillDisturbed(l)
    /\ l \in Connections => link'[l] = link[l]

LEMMA TakenStream ==
    ASSUME NEW l, NEW k, Typed(l), TakenFrom(l, k)
    PROVE  /\ Thins(Stream(l)', Stream(l)) /\ k \in Nat
           /\ Len(Stream(l)) \in Nat /\ Len(Stream(l)') = Len(Stream(l)) - k
           /\ \A j \in 1 .. Len(Stream(l)') : Stream(l)'[j] = Stream(l)[k + j]
<1> DEFINE s == Stream(l)
<1>1. s \in Seq(PartsOf(l)) /\ Len(s) \in Nat
  BY StreamParts
<1>2. k \in 0 .. Len(s) /\ k \in Nat /\ Stream(l)' = From(s, k + 1)
  BY <1>1 DEF TakenFrom
<1> HIDE DEF s
<1>3. Thins(From(s, k + 1), s)
  BY <1>1, <1>2, ThinsSuffix
<1>4. /\ Len(From(s, k + 1)) = Len(s) - k
      /\ \A j \in 1 .. (Len(s) - k) : From(s, k + 1)[j] = s[k + j]
  BY <1>1, <1>2, Suffix
<1> QED
  BY <1>1, <1>2, <1>3, <1>4 DEF s

LEMMA RowsOfTaken ==
    ASSUME NEW l, NEW n \in Good(l), rows \in Seq(Range(rows)), RowsOf(l), RowsTaken(l, n),
           StillDisturbed(l), sent'[l] = sent[l],
           InOrder(l)' => \A i \in 1 .. Len(rows) : rows[i].from = l => rows[i].value < n
    PROVE  RowsOf(l)'
<1>1. /\ Len(rows) \in Nat /\ Len(rows') = Len(rows) + 1
      /\ \A i \in 1 .. Len(rows) : rows'[i] = rows[i]
      /\ rows'[Len(rows) + 1].value = n
      /\ rows'[Len(rows) + 1].unit = "cut" => l = "uart" /\ l \in disturbed'
  BY TakenRows
<1>2. Good(l)' = Good(l)
  BY DEF Good
<1>3. InOrder(l)' => InOrder(l)
  BY DEF InOrder, StillDisturbed
<1> SUFFICES ASSUME NEW i \in 1 .. Len(rows'), rows'[i].from = l
             PROVE  /\ rows'[i].value \in Good(l)'
                    /\ rows'[i].unit = "cut" => l = "uart" /\ l \in disturbed'
                    /\ InOrder(l)' => \A j \in 1 .. (i - 1) :
                         rows'[j].from = l => rows'[j].value < rows'[i].value
  BY DEF RowsOf
<1>4. CASE i <= Len(rows)
  <2>1. i \in 1 .. Len(rows) /\ rows'[i] = rows[i]
    BY <1>1, <1>4
  <2>2. \A j \in 1 .. (i - 1) : rows'[j] = rows[j]
    BY <1>1, <2>1
  <2>3. /\ rows[i].value \in Good(l)
        /\ rows[i].unit = "cut" => l = "uart" /\ l \in disturbed
        /\ InOrder(l) => \A j \in 1 .. (i - 1) : rows[j].from = l => rows[j].value < rows[i].value
    BY <2>1 DEF RowsOf
  <2> QED
    BY <1>2, <1>3, <2>1, <2>2, <2>3 DEF StillDisturbed
<1>5. CASE i = Len(rows) + 1
  <2>1. \A j \in 1 .. (i - 1) : j \in 1 .. Len(rows) /\ rows'[j] = rows[j]
    BY <1>1, <1>5
  <2> QED
    BY <1>1, <1>2, <1>5, <2>1
<1>6. i <= Len(rows) \/ i = Len(rows) + 1
  BY <1>1
<1> QED
  BY <1>4, <1>5, <1>6

\* What is taken ends with part m of n, and no more is stored of n.
LEMMA OrderingTaken ==
    ASSUME NEW l, NEW k, NEW n \in Good(l), NEW m \in 1 .. k,
           rows \in Seq(Range(rows)), Typed(l), Ordering(l), TakenFrom(l, k), RowsTaken(l, n),
           RowsOf(l),
           Stream(l)[1] # Newline, Stream(l)[1][1] = n, Stream(l)[1][2] # 3,
           Stream(l)[m] # Newline, Stream(l)[m][1] = n,
           l \in Streamed => Stream(l)[m][2] = 3 \/ (l = "uart" /\ Stream(l)[m][2] = 2)
    PROVE  Ordering(l)' /\ RowsOf(l)'
<1> DEFINE s == Stream(l)
           t == Stream(l)'
<1>1. /\ Thins(t, s) /\ k \in Nat /\ Len(s) \in Nat /\ Len(t) = Len(s) - k
      /\ \A j \in 1 .. Len(t) : t[j] = s[k + j]
  BY TakenStream
<1>2. \A j \in 1 .. Len(s) : s[j] \in PartsOf(l)
  BY StreamParts
<1>3. k \in 1 .. Len(s) /\ StillDisturbed(l) /\ sent'[l] = sent[l]
  BY DEF TakenFrom
<1>4. n \in Nat
  BY DEF Good, Typed
<1> HIDE DEF s, t
<1>5. InOrder(l)' => Ordered(s) /\ Fresh(l)
  BY <1>3 DEF Ordering, InOrder, StillDisturbed, s
<1>6. Fresh(l) => \A i \in 1 .. Len(rows) : rows[i].from = l => rows[i].value < n
  <2>1. 1 \in 1 .. Len(s)
    BY <1>1, <1>3
  <2> SUFFICES ASSUME Fresh(l), NEW i \in 1 .. Len(rows), rows[i].from = l
               PROVE  rows[i].value < n
    OBVIOUS
  <2>2. s[1][1] > rows[i].value
    BY <2>1 DEF Fresh, s
  <2>3. rows[i].value \in Nat
    BY DEF RowsOf, Good, Typed
  <2> QED
    BY <1>4, <2>2, <2>3 DEF s
<1>7. RowsOf(l)'
  BY <1>3, <1>5, <1>6, RowsOfTaken
<1>8. ASSUME InOrder(l)' PROVE Ordered(t) /\ Fresh(l)'
  <2>1. Ordered(s) /\ Fresh(l)
    BY <1>5, <1>8
  <2>2. Ordered(t)
    <3>1. Len(t) \in Nat
      BY <1>1, <1>3
    <3> QED
      BY <1>1, <2>1, <3>1, OrderedThins
  <2>3. ASSUME NEW j \in 1 .. Len(t), t[j] # Newline
        PROVE  \/ t[j][1] > n
               \/ l = "uart" /\ t[j][1] = n /\ t[j][2] = 3
    <3>1. k + j \in 1 .. Len(s) /\ m \in 1 .. Len(s) /\ m < k + j /\ t[j] = s[k + j]
      BY <1>1, <1>3
    <3>2. Before(s[m], t[j])
      BY <2>1, <2>3, <3>1 DEF Ordered, s
    <3>3. /\ t[j][1] \in Nat /\ t[j][2] \in 0 .. 3
          /\ s[m][1] = n /\ s[m][2] \in 0 .. 3
          /\ l \notin Streamed => t[j][2] = 0 /\ s[m][2] = 0
      <4>1. t[j] \in PartsOf(l) /\ s[m] \in PartsOf(l) /\ sent[l] \in Seq(Kinds(l))
        BY <1>2, <3>1 DEF Typed
      <4> QED
        BY <4>1, PartShape DEF s
    <3> QED
      BY <1>4, <3>2, <3>3 DEF Before, s
  <2>4. ASSUME NEW i \in 1 .. Len(rows'), rows'[i].from = l, NEW j \in 1 .. Len(t)
        PROVE  \/ t[j] = Newline
               \/ t[j][1] > rows'[i].value
               \/ l = "uart" /\ t[j][1] = rows'[i].value /\ t[j][2] = 3
    <3>1. /\ Len(rows) \in Nat /\ Len(rows') = Len(rows) + 1
          /\ \A q \in 1 .. Len(rows) : rows'[q] = rows[q]
          /\ rows'[Len(rows) + 1].value = n
      BY TakenRows
    <3>2. CASE i = Len(rows) + 1
      BY <2>3, <3>1, <3>2
    <3>3. CASE i <= Len(rows)
      <4>1. i \in 1 .. Len(rows) /\ rows'[i] = rows[i]
        BY <3>1, <3>3
      <4>2. k + j \in 1 .. Len(s) /\ t[j] = s[k + j]
        BY <1>1, <1>3
      <4> QED
        BY <2>1, <2>4, <4>1, <4>2 DEF Fresh, s
    <3>4. i = Len(rows) + 1 \/ i <= Len(rows)
      BY <3>1
    <3> QED
      BY <3>2, <3>3, <3>4
  <2> QED
    BY <2>2, <2>4 DEF Fresh, t
<1> QED
  BY <1>7, <1>8 DEF Ordering, t

LEMMA FramedTaken ==
    ASSUME NEW l, NEW k, Typed(l), Framed(l), TakenFrom(l, k),
           l \in Streamed /\ l \notin disturbed' => Stream(l)[k] = Newline
    PROVE  Framed(l)'
<1> SUFFICES ASSUME l \in Streamed PROVE Framed(l)'
  BY DEF Framed
<1> DEFINE s == Stream(l)
           t == Stream(l)'
<1>1. /\ k \in Nat /\ Len(s) \in Nat /\ Len(t) = Len(s) - k
      /\ \A j \in 1 .. Len(t) : t[j] = s[k + j]
  BY TakenStream
<1>2. k \in 1 .. Len(s) /\ StillDisturbed(l) /\ (l \in Connections => link'[l] = link[l])
  BY DEF TakenFrom
<1>3. /\ Linked(s)
      /\ l = "uart" \/ l \notin disturbed \/ link[l] # "closing" => Complete(s)
  BY DEF Framed
<1>4. t \in Seq(PartsOf(l)')
  BY Concatenation DEF TakenFrom, Typed, Stream
<1> HIDE DEF t
<1>5. Linked(t)
  <2> SUFFICES ASSUME NEW i \in 1 .. Len(t), i < Len(t) PROVE Follows(t[i], t[i + 1])
    BY DEF Linked
  <2>1. /\ k + i \in 1 .. Len(s) /\ k + i < Len(s) /\ i + 1 \in 1 .. Len(t)
        /\ k + (i + 1) = k + i + 1
    BY <1>1, <1>2
  <2>2. t[i] = s[k + i] /\ t[i + 1] = s[k + i + 1]
    BY <1>1, <2>1
  <2> QED
    BY <1>3, <2>1, <2>2 DEF Linked
<1>6. ASSUME Complete(s) PROVE Complete(t)
  <2> SUFFICES ASSUME t # <<>> PROVE t[Len(t)] = Newline
    BY DEF Complete
  <2>1. Len(t) \in 1 .. Len(t) /\ k + Len(t) = Len(s) /\ s # <<>>
    BY <1>1, <1>2, <1>4
  <2> QED
    BY <1>1, <1>6, <2>1 DEF Complete
<1>7. ASSUME l \notin disturbed' PROVE FromStart(t)
  <2> SUFFICES ASSUME t # <<>> PROVE t[1][2] = 1
    BY DEF FromStart
  <2>1. 1 \in 1 .. Len(t) /\ k < Len(s)
    BY <1>1, <1>2, <1>4
  <2>2. t[1] = s[k + 1] /\ Follows(s[k], s[k + 1])
    BY <1>1, <1>2, <1>3, <2>1 DEF Linked
  <2>3. s[k] = Newline
    BY <1>7
  <2> QED
    BY <2>2, <2>3 DEF Follows, Newline
<1>8. l = "uart" \/ l \notin disturbed' \/ link'[l] # "closing" => Complete(t)
  BY <1>2, <1>3, <1>6 DEF StillDisturbed, Streamed
<1> QED
  BY <1>5, <1>7, <1>8 DEF Framed, t

\* All of n is taken, and it is stored if it is good.
LEMMA KeptTaken ==
    ASSUME NEW l, NEW k, NEW n, rows \in Seq(Range(rows)), Typed(l), Kept(l), TakenFrom(l, k),
           RowsKept(l) \/ RowsTaken(l, n),
           l \notin disturbed' =>
             /\ \A j \in 1 .. k : Stream(l)[j] = Newline \/ Stream(l)[j][1] = n
             /\ n \in Good(l) => RowsTaken(l, n)
    PROVE  Kept(l)'
<1> SUFFICES ASSUME l \notin disturbed', NEW a \in Expected(l)',
                    ~ \E j \in 1 .. Len(Stream(l)') : Stream(l)'[j][1] = a
             PROVE  \E i \in 1 .. Len(rows') : rows'[i].from = l /\ rows'[i].value = a
  BY DEF Kept
<1>1. a \in Expected(l) /\ a \in Good(l) /\ l \notin disturbed
  BY DEF Expected, Good, TakenFrom, StillDisturbed
<1>2. \A i \in 1 .. Len(rows) : i \in 1 .. Len(rows') /\ rows'[i] = rows[i]
  <2>1. CASE RowsKept(l)
    BY <2>1, KeptRows
  <2>2. CASE RowsTaken(l, n)
    BY <2>2, TakenRows
  <2> QED
    BY <2>1, <2>2
<1>3. CASE \E i \in 1 .. Len(rows) : rows[i].from = l /\ rows[i].value = a
  BY <1>2, <1>3
<1>4. CASE \E j \in 1 .. Len(Stream(l)) : Stream(l)[j][1] = a
  <2> DEFINE s == Stream(l)
             t == Stream(l)'
  <2>1. PICK j \in 1 .. Len(s) : s[j][1] = a
    BY <1>4
  <2>2. /\ k \in Nat /\ Len(s) \in Nat /\ Len(t) = Len(s) - k
        /\ \A i \in 1 .. Len(t) : t[i] = s[k + i]
    BY TakenStream
  <2>3. a \in Nat \ {0}
    BY <1>1 DEF Good, Typed
  <2>4. s[j] # Newline
    BY <2>1, <2>3 DEF Newline
  <2>5. CASE j <= k
    <3>1. j \in 1 .. k
      BY <2>2, <2>5
    <3>2. a = n
      BY <2>1, <2>4, <3>1
    <3>3. RowsTaken(l, n)
      BY <1>1, <3>2
    <3> QED
      <4>1. /\ Len(rows) \in Nat /\ Len(rows') = Len(rows) + 1
            /\ rows'[Len(rows) + 1].from = l /\ rows'[Len(rows) + 1].value = n
        BY <3>3, TakenRows
      <4>2. Len(rows) + 1 \in 1 .. Len(rows')
        BY <4>1
      <4> QED
        BY <3>2, <4>1, <4>2
  <2>6. CASE j > k
    <3>1. j - k \in 1 .. Len(t) /\ k + (j - k) = j
      BY <2>2, <2>6
    <3>2. t[j - k] = s[j]
      BY <2>2, <3>1
    <3> QED
      BY <2>1, <3>1, <3>2
  <2>7. j <= k \/ j > k
    BY <2>2
  <2> QED
    BY <2>5, <2>6, <2>7
<1> QED
  BY <1>1, <1>3, <1>4 DEF Kept

-----------------------------------------------------------------------------
(* What a step does to the other links.                                     *)
Untouched(l) ==
    /\ sent'[l] = sent[l] /\ wire'[l] = wire[l] /\ buf'[l] = buf[l]
    /\ l \in Connections => \/ link'[l] = link[l] \/ link'[l] = "closing"
                           \/ (link[l] = "none" /\ link'[l] = "open")
    /\ RowsKept(l) /\ StillDisturbed(l)

LEMMA UntouchedLink ==
    ASSUME NEW l, rows \in Seq(Range(rows)), LinkInv(l), Untouched(l)
    PROVE  LinkInv(l)'
<1>1. Typed(l)
  BY DEF LinkInv
<1>2. Typed(l)'
  <2>1. Kinds(l)' = Kinds(l) /\ PartsOf(l)' = PartsOf(l)
    BY DEF Kinds, PartsOf, Untouched
  <2> QED
    BY <1>1, <2>1 DEF Typed, Untouched
<1>3. Stream(l)' = Stream(l)
  BY DEF Stream, Untouched
<1>4. LinkKept(l)
  BY DEF Untouched, LinkKept
<1> QED
  BY <1>2, <1>3, <1>4, SameLink DEF Untouched

(* The rest of the invariant follows for every step.                        *)
LinksNext ==
    /\ DOMAIN sent' = Links /\ DOMAIN wire' = Links /\ DOMAIN buf' = Links /\ DOMAIN link' = Links
    /\ \A l \in Links : LinkInv(l)'

LEMMA OneLink ==
    ASSUME ReceiversInv, NEW l \in Links, LinkInv(l)',
           \A q \in Links : q # l => Untouched(q)
    PROVE  \A q \in Links : LinkInv(q)'
BY UntouchedLink DEF ReceiversInv

LEMMA SendStep ==
    ASSUME ReceiversInv, NEW l \in Links, NEW kind, NEW parts, NEW well, Send(l, kind, parts, well),
           LinkInv(l)'
    PROVE  LinksNext
<1>1. ASSUME NEW q \in Links, q # l PROVE Untouched(q)
  BY <1>1 DEF Send, Untouched, RowsKept, StillDisturbed, ReceiversInv
<1>2. /\ DOMAIN sent' = Links /\ DOMAIN wire' = Links /\ DOMAIN buf' = Links /\ DOMAIN link' = Links
  BY DEF Send, ReceiversInv
<1> QED
  BY <1>1, <1>2, OneLink DEF LinksNext

LEMMA SendsOver ==
    ASSUME ReceiversInv, NEW l \in Links, NEW kind \in Kinds(l), NEW parts, NEW well,
           Send(l, kind, parts, well), parts \in Seq(PartsOf(l)'), l \in Connections => link[l] = "open"
    PROVE  /\ SentOver(l, kind, parts) /\ StillDisturbed(l) /\ (~ well => l \in disturbed')
           /\ rows \in Seq(Range(rows)) /\ LinkInv(l)
<1>1. sent'[l] = Append(sent[l], kind) /\ wire'[l] = wire[l] \o parts
  BY DEF Send, ReceiversInv
<1> QED
  BY <1>1 DEF Send, SentOver, StillDisturbed, ReceiversInv

LEMMA LineSent ==
    ASSUME ReceiversInv, NEW l \in Links, l \in Streamed, NEW kind \in Kinds(l),
           Send(l, kind, Append(Line(Number(l)), Newline), TRUE), l \in Connections => link[l] = "open"
    PROVE  LinksNext
<1> DEFINE parts == Append(Line(Number(l)), Newline)
<1>1. sent[l] \in Seq(Kinds(l)) /\ sent'[l] = Append(sent[l], kind)
  BY DEF Send, ReceiversInv, LinkInv, Typed
<1>2. /\ parts \in Seq(PartsOf(l)') /\ Len(parts) = 4
      /\ parts[1] = <<Number(l), 1>> /\ parts[2] = <<Number(l), 2>>
      /\ parts[3] = <<Number(l), 3>> /\ parts[4] = Newline
  BY <1>1, LineParts
<1> HIDE DEF parts
<1>3. Send(l, kind, parts, TRUE)
  BY DEF parts
<1>4. /\ SentOver(l, kind, parts) /\ StillDisturbed(l)
      /\ rows \in Seq(Range(rows)) /\ LinkInv(l)
  BY <1>2, <1>3, SendsOver
<1>5. LinkInv(l)'
  BY <1>2, <1>4, SentLine
<1> QED
  BY <1>3, <1>5, SendStep

LEMMA MessagePart ==
    ASSUME NEW l, l \notin Streamed, NEW kind, sent[l] \in Seq(Kinds(l)),
           sent'[l] = Append(sent[l], kind)
    PROVE  Message(Number(l)) \in PartsOf(l)'
<1>1. Number(l) \in DOMAIN sent'[l]
  BY MorePartsOf DEF Number
<1> QED
  BY <1>1 DEF PartsOf, Message

LEMMA MessageSent ==
    ASSUME ReceiversInv, NEW l \in Links, l \notin Streamed, NEW kind \in Kinds(l), NEW parts,
           parts = <<Message(Number(l))>>, Send(l, kind, parts, TRUE)
    PROVE  LinksNext
<1>1. sent[l] \in Seq(Kinds(l)) /\ sent'[l] = Append(sent[l], kind) /\ l \notin Connections
  BY DEF Send, ReceiversInv, LinkInv, Typed, Streamed
<1>2. parts \in Seq(PartsOf(l)')
  <2>1. Message(Number(l)) \in PartsOf(l)'
    BY <1>1, MessagePart
  <2> QED
    BY <2>1
<1>4. /\ SentOver(l, kind, parts) /\ StillDisturbed(l)
      /\ rows \in Seq(Range(rows)) /\ LinkInv(l)
  BY <1>1, <1>2, SendsOver
<1>5. LinkInv(l)'
  BY <1>4, SentMessage
<1> QED
  BY <1>5, SendStep

LEMMA BadlySent ==
    ASSUME ReceiversInv, NEW l \in Links, l \notin Connections, NEW kind \in Kinds(l), NEW parts,
           parts \in Seq(PartsOf(l)'), parts = <<>> \/ l = "udp", Send(l, kind, parts, FALSE)
    PROVE  LinksNext
<1>1. /\ SentOver(l, kind, parts) /\ l \in disturbed'
      /\ rows \in Seq(Range(rows)) /\ LinkInv(l)
  BY SendsOver
<1>2. LinkInv(l)'
  BY <1>1, SentBadly
<1> QED
  BY <1>2, SendStep

LEMMA Sending ==
    ASSUME ReceiversInv,
           \/ \E l \in Connections : \E kind \in Kinds(l) : SendLine(l, kind)
           \/ \E kind \in Kinds("uart") : SendSerial(kind)
           \/ \E kind \in Kinds("udp"), copies \in 0 .. 2 : SendDatagram(kind, copies)
           \/ \E kind \in Kinds("can") : SendFrame(kind)
           \/ \E kind \in Kinds("mqtt") : Publish(kind)
    PROVE  LinksNext
<1>1. /\ {"udp", "can", "uart", "mqtt"} \subseteq Links /\ Connections \subseteq Links
      /\ {"udp", "can", "mqtt"} \cap Streamed = {} /\ "uart" \in Streamed /\ Connections \subseteq Streamed
      /\ {"udp", "can", "uart", "mqtt"} \cap Connections = {}
  BY ConnectionsAssumption DEF Links, Processes, Streamed
<1>2. ASSUME NEW l \in Connections, NEW kind \in Kinds(l), SendLine(l, kind)
      PROVE  LinksNext
  BY <1>1, <1>2, LineSent DEF SendLine
<1>3. ASSUME NEW kind \in Kinds("uart"), SendSerial(kind) PROVE LinksNext
  <2>1. CASE proc["uart"] = "up"
    BY <1>1, <1>3, <2>1, LineSent DEF SendSerial
  <2>2. CASE proc["uart"] # "up"
    <3>1. Send("uart", kind, <<>>, FALSE)
      BY <1>3, <2>2 DEF SendSerial
    <3>2. <<>> \in Seq(PartsOf("uart")')
      OBVIOUS
    <3> QED
      BY <1>1, <3>1, <3>2, BadlySent
  <2> QED
    BY <2>1, <2>2
<1>4. ASSUME NEW kind \in Kinds("udp"), NEW copies \in 0 .. 2, SendDatagram(kind, copies)
      PROVE  LinksNext
  <2> DEFINE parts == [i \in 1 .. copies |-> Message(Number("udp"))]
  <2>1. Send("udp", kind, parts, copies = 1)
    BY <1>4 DEF SendDatagram
  <2>2. sent["udp"] \in Seq(Kinds("udp")) /\ sent'["udp"] = Append(sent["udp"], kind)
    BY <1>1, <2>1 DEF Send, ReceiversInv, LinkInv, Typed
  <2>3. Message(Number("udp")) \in PartsOf("udp")'
    BY <1>1, <2>2, MessagePart
  <2>4. parts \in Seq(PartsOf("udp")')
    BY <2>3
  <2>5. CASE copies = 1
    <3>1. parts = <<Message(Number("udp"))>>
      BY <2>5
    <3>2. Send("udp", kind, parts, TRUE)
      <4>1. (copies = 1) = TRUE
        BY <2>5
      <4> QED
        BY <2>1, <4>1
    <3> HIDE DEF parts
    <3> QED
      BY <1>1, <3>1, <3>2, MessageSent
  <2>6. CASE copies # 1
    <3>1. Send("udp", kind, parts, FALSE)
      <4>1. (copies = 1) = FALSE
        BY <2>6
      <4> QED
        BY <2>1, <4>1
    <3> HIDE DEF parts
    <3> QED
      BY <1>1, <2>4, <3>1, BadlySent
  <2> QED
    BY <2>5, <2>6
<1>5. ASSUME NEW kind \in Kinds("can"), SendFrame(kind) PROVE LinksNext
  <2>1. CASE proc["can"] = "up"
    BY <1>1, <1>5, <2>1, MessageSent DEF SendFrame
  <2>2. CASE proc["can"] # "up"
    <3>1. Send("can", kind, <<>>, FALSE)
      BY <1>5, <2>2 DEF SendFrame
    <3>2. <<>> \in Seq(PartsOf("can")')
      OBVIOUS
    <3> QED
      BY <1>1, <3>1, <3>2, BadlySent
  <2> QED
    BY <2>1, <2>2
<1>6. ASSUME NEW kind \in Kinds("mqtt"), Publish(kind) PROVE LinksNext
  BY <1>1, <1>6, MessageSent DEF Publish
<1> QED
  BY <1>2, <1>3, <1>4, <1>5, <1>6

-----------------------------------------------------------------------------
(* Connections that begin and end, and streams that move on.                *)
LEMMA AllUntouched ==
    ASSUME ReceiversInv, UNCHANGED <<sent, wire, buf>>, DOMAIN link' = Links,
           \A l \in Links : Untouched(l)
    PROVE  LinksNext
BY UntouchedLink DEF ReceiversInv, LinksNext

LEMMA LostStep ==
    ASSUME ReceiversInv, NEW l \in Links, UNCHANGED <<rows, sent>>, disturbed' = disturbed \cup {l},
           DOMAIN wire' = Links, DOMAIN buf' = Links, DOMAIN link' = Links,
           Typed(l)', Framed(l)', Thins(Stream(l)', Stream(l)),
           \A q \in Links : q # l =>
             wire'[q] = wire[q] /\ buf'[q] = buf[q] /\ (q \in Connections => link'[q] = link[q])
    PROVE  LinksNext
<1>1. LinkInv(l)'
  <2>1. Good(l) \subseteq Good(l)' /\ RowsKept(l) /\ l \in disturbed'
    BY DEF Good, RowsKept
  <2> QED
    BY <2>1, LostOverLink DEF ReceiversInv
<1>2. ASSUME NEW q \in Links, q # l PROVE Untouched(q)
  BY <1>2 DEF Untouched, RowsKept, StillDisturbed
<1> QED
  BY <1>1, <1>2, OneLink DEF LinksNext, ReceiversInv

LEMMA Connecting ==
    ASSUME ReceiversInv, NEW l \in Connections, Connect(l) \/ HangUp(l)
    PROVE  LinksNext
<1>1. UNCHANGED <<sent, wire, buf, rows, disturbed>>
  BY DEF Connect, HangUp
<1>2. DOMAIN link' = Links
  BY DEF Connect, HangUp, ReceiversInv
<1>3. ASSUME NEW q \in Links PROVE Untouched(q)
  <2>1. \/ link'[q] = link[q] \/ link'[q] = "closing"
        \/ (link[q] = "none" /\ link'[q] = "open")
    BY DEF Connect, HangUp, Unmade, ReceiversInv
  <2> QED
    BY <1>1, <2>1 DEF Untouched, RowsKept, StillDisturbed
<1> QED
  BY <1>1, <1>2, <1>3, AllUntouched

LEMMA LinkedPrefix ==
    ASSUME NEW S, NEW b \in Seq(S), NEW w \in Seq(S), Linked(b \o w)
    PROVE  Linked(b)
<1>1. /\ Len(b \o w) = Len(b) + Len(w) /\ Len(b) \in Nat /\ Len(w) \in Nat
      /\ \A j \in 1 .. Len(b) : (b \o w)[j] = b[j]
  OBVIOUS
<1> SUFFICES ASSUME NEW i \in 1 .. Len(b), i < Len(b) PROVE Follows(b[i], b[i + 1])
  BY DEF Linked
<1>2. i \in 1 .. Len(b \o w) /\ i < Len(b \o w) /\ i + 1 \in 1 .. Len(b)
  BY <1>1
<1>3. Follows((b \o w)[i], (b \o w)[i + 1])
  BY <1>2 DEF Linked
<1> QED
  BY <1>1, <1>2, <1>3

LEMMA Breaking ==
    ASSUME ReceiversInv, NEW l \in Connections, Break(l)
    PROVE  LinksNext
<1>1. l \in Links /\ l \in Streamed /\ l # "uart" /\ l \notin {"udp", "can", "uart"}
  BY ConnectionsAssumption DEF Links, Processes, Streamed
<1>2. /\ UNCHANGED <<rows, sent, buf>> /\ disturbed' = disturbed \cup {l}
      /\ link' = [link EXCEPT ![l] = "closing"] /\ wire' = [wire EXCEPT ![l] = <<>>]
  BY DEF Break
<1>3. wire'[l] = <<>> /\ link'[l] = "closing" /\ buf'[l] = buf[l]
  BY <1>1, <1>2 DEF ReceiversInv
<1>4. Typed(l) /\ Framed(l)
  BY <1>1 DEF ReceiversInv, LinkInv
<1>5. buf[l] \in Seq(PartsOf(l)) /\ wire[l] \in Seq(PartsOf(l))
  BY <1>4 DEF Typed
<1>6. Stream(l)' = buf[l]
  BY <1>3, <1>5 DEF Stream
<1>7. Typed(l)'
  <2>1. Kinds(l)' = Kinds(l) /\ PartsOf(l)' = PartsOf(l)
    BY <1>2 DEF Kinds, PartsOf
  <2> QED
    BY <1>1, <1>2, <1>3, <1>4, <2>1 DEF Typed
<1>8. Thins(Stream(l)', Stream(l))
  BY <1>5, <1>6, ThinsPrefix DEF Stream
<1>9. Framed(l)'
  <2>1. Linked(Stream(l)) /\ l \in disturbed'
    BY <1>1, <1>2, <1>4 DEF Framed
  <2>2. Linked(buf[l])
    BY <1>5, <2>1, LinkedPrefix DEF Stream
  <2> QED
    BY <1>1, <1>3, <1>6, <2>1, <2>2 DEF Framed
<1>10. /\ DOMAIN wire' = Links /\ DOMAIN buf' = Links /\ DOMAIN link' = Links
       /\ \A q \in Links : q # l =>
            wire'[q] = wire[q] /\ buf'[q] = buf[q] /\ (q \in Connections => link'[q] = link[q])
  BY <1>2 DEF ReceiversInv
<1> QED
  BY <1>1, <1>2, <1>7, <1>8, <1>9, <1>10, LostStep

LEMMA PublisherBreaking ==
    ASSUME ReceiversInv, BreakPublisher
    PROVE  LinksNext
<1> DEFINE l == "mqtt"
<1>1. l \in Links /\ l \notin Streamed /\ l \notin Connections
  BY ConnectionsAssumption DEF Links, Processes, Streamed
<1>2. /\ UNCHANGED <<rows, sent, buf>> /\ disturbed' = disturbed \cup {l}
      /\ link' = [link EXCEPT ![l] = "closed"] /\ wire' = [wire EXCEPT ![l] = <<>>]
  BY DEF BreakPublisher
<1>3. wire'[l] = <<>> /\ buf'[l] = buf[l]
  BY <1>1, <1>2 DEF ReceiversInv
<1>4. Typed(l)
  BY <1>1 DEF ReceiversInv, LinkInv
<1>5. buf[l] \in Seq(PartsOf(l)) /\ wire[l] \in Seq(PartsOf(l))
  BY <1>4 DEF Typed
<1>6. Stream(l)' = buf[l]
  BY <1>3, <1>5 DEF Stream
<1>7. Typed(l)'
  <2>1. Kinds(l)' = Kinds(l) /\ PartsOf(l)' = PartsOf(l)
    BY <1>2 DEF Kinds, PartsOf
  <2> QED
    BY <1>1, <1>2, <1>3, <1>4, <2>1 DEF Typed
<1>8. Thins(Stream(l)', Stream(l))
  BY <1>5, <1>6, ThinsPrefix DEF Stream
<1>9. Framed(l)'
  BY <1>1 DEF Framed
<1>10. /\ DOMAIN wire' = Links /\ DOMAIN buf' = Links /\ DOMAIN link' = Links
       /\ \A q \in Links : q # l =>
            wire'[q] = wire[q] /\ buf'[q] = buf[q] /\ (q \in Connections => link'[q] = link[q])
  BY <1>2 DEF ReceiversInv
<1> HIDE DEF l
<1> QED
  BY <1>1, <1>2, <1>7, <1>8, <1>9, <1>10, LostStep

LEMMA Receiving ==
    ASSUME ReceiversInv, NEW l \in Links, NEW k \in 1 .. Len(wire[l]), Recv(l, k)
    PROVE  LinksNext
<1>1. /\ l \in Connections /\ UNCHANGED <<rows, sent, link, disturbed>>
      /\ buf' = [buf EXCEPT ![l] = @ \o SubSeq(wire[l], 1, k)]
      /\ wire' = [wire EXCEPT ![l] = From(@, k + 1)]
  BY DEF Recv
<1>2. l \notin {"udp", "can", "uart"}
  BY <1>1, ConnectionsAssumption DEF Processes
<1>3. buf'[l] = buf[l] \o SubSeq(wire[l], 1, k) /\ wire'[l] = From(wire[l], k + 1)
  BY <1>1 DEF ReceiversInv
<1> DEFINE P == PartsOf(l)
           b == buf[l]
           w == wire[l]
<1>4. b \in Seq(P) /\ w \in Seq(P) /\ Typed(l)
  BY DEF ReceiversInv, LinkInv, Typed
<1> HIDE DEF P, b, w
<1>5. k \in 0 .. Len(w) /\ w # <<>>
  BY <1>4 DEF w
<1>6. (b \o SubSeq(w, 1, k)) \o From(w, k + 1) = b \o w
  BY <1>4, <1>5, Rechunked
<1>7. Stream(l)' = Stream(l)
  BY <1>3, <1>6 DEF Stream, b, w
<1>8. b \o SubSeq(w, 1, k) \in Seq(P) /\ From(w, k + 1) \in Seq(P)
  <2>1. SubSeq(w, 1, k) \in Seq(P) /\ From(w, k + 1) \in Seq(P)
    BY <1>4, <1>5, Prefix, Suffix
  <2> QED
    BY <1>4, <2>1, Concatenation
<1>9. Typed(l)'
  <2>1. Kinds(l)' = Kinds(l) /\ PartsOf(l)' = P
    BY <1>1 DEF Kinds, PartsOf, P
  <2>2. link'[l] \notin {"none", "closed"}
    BY <1>1, <1>4, <1>5 DEF Typed, w
  <2> QED
    BY <1>1, <1>2, <1>3, <1>4, <1>8, <2>1, <2>2 DEF Typed, b, w
<1>10. LinkInv(l)'
  BY <1>1, <1>7, <1>9, SameLink DEF ReceiversInv, LinkKept, RowsKept, StillDisturbed
<1>11. ASSUME NEW q \in Links, q # l PROVE Untouched(q)
  BY <1>1, <1>11 DEF ReceiversInv, Untouched, RowsKept, StillDisturbed
<1>12. DOMAIN sent' = Links /\ DOMAIN wire' = Links /\ DOMAIN buf' = Links /\ DOMAIN link' = Links
  BY <1>1 DEF ReceiversInv
<1> QED
  BY <1>10, <1>11, <1>12, OneLink DEF LinksNext

\* A connection ends: what is left of an undisturbed stream is nothing.
LEMMA Finishing ==
    ASSUME ReceiversInv, NEW l \in Links, Finish(l)
    PROVE  LinksNext
<1>1. /\ l \in Connections /\ UNCHANGED <<rows, sent, disturbed>>
      /\ wire[l] = <<>> /\ FirstNewline(buf[l]) = 0
      /\ link' = [link EXCEPT ![l] = "closed"] /\ wire' = [wire EXCEPT ![l] = <<>>]
      /\ buf' = [buf EXCEPT ![l] = <<>>]
  BY DEF Finish, EndThread
<1>2. wire'[l] = <<>> /\ buf'[l] = <<>>
  BY <1>1 DEF ReceiversInv
<1>3. Typed(l) /\ Framed(l) /\ LinkInv(l)
  BY DEF ReceiversInv, LinkInv
<1>4. /\ Stream(l)' = <<>> /\ Framed(l)' /\ Typed(l)' /\ Thins(Stream(l)', Stream(l))
  <2>1. sent'[l] \in Seq(Kinds(l))
    BY <1>1, <1>3 DEF Typed
  <2>2. link'[l] = "closed"
    BY <1>1 DEF ReceiversInv
  <2> QED
    BY <1>2, <2>1, <2>2, NothingLeft
<1>5. ASSUME l \in disturbed PROVE LinkInv(l)'
  <2>1. Good(l) \subseteq Good(l)' /\ RowsKept(l) /\ l \in disturbed'
    BY <1>1, <1>5 DEF Good, RowsKept
  <2> QED
    BY <1>3, <1>4, <2>1, LostOverLink DEF ReceiversInv
<1>6. ASSUME l \notin disturbed PROVE LinkInv(l)'
  <2>1. buf[l] \in Seq(PartsOf(l)) /\ Stream(l) = buf[l]
    BY <1>1, <1>3 DEF Typed, Stream
  <2>2. Complete(buf[l])
    BY <1>1, <1>6, <2>1, <1>3 DEF Framed, Streamed
  <2>3. Stream(l) = <<>>
    <3> SUFFICES ASSUME buf[l] # <<>> PROVE FALSE
      BY <2>1
    <3>1. Len(buf[l]) \in 1 .. Len(buf[l])
      BY <2>1
    <3>2. buf[l][Len(buf[l])] # Newline
      BY <1>1, <2>1, <3>1, NewlineFound
    <3> QED
      BY <2>2, <3>2 DEF Complete
  <2>4. Stream(l)' = Stream(l) /\ LinkKept(l)
    BY <1>4, <2>3 DEF LinkKept
  <2> QED
    BY <1>1, <1>3, <1>4, <2>4, SameLink DEF ReceiversInv, RowsKept, StillDisturbed
<1>7. ASSUME NEW q \in Links, q # l PROVE Untouched(q)
  BY <1>1, <1>7 DEF ReceiversInv, Untouched, RowsKept, StillDisturbed
<1>8. DOMAIN sent' = Links /\ DOMAIN wire' = Links /\ DOMAIN buf' = Links /\ DOMAIN link' = Links
  BY <1>1 DEF ReceiversInv
<1> QED
  BY <1>5, <1>6, <1>7, <1>8, OneLink DEF LinksNext

LEMMA ThinsBack ==
    ASSUME NEW S, NEW b \in Seq(S), NEW w \in Seq(S)
    PROVE  Thins(w, b \o w)
<1> DEFINE h == [i \in 1 .. Len(w) |-> Len(b) + i]
<1>1. /\ Len(b) \in Nat /\ Len(w) \in Nat /\ Len(b \o w) = Len(b) + Len(w)
      /\ \A i \in 1 .. Len(w) : (b \o w)[Len(b) + i] = w[i]
  BY Concatenation
<1>2. h \in [1 .. Len(w) -> 1 .. Len(b \o w)] /\ \A i \in 1 .. Len(w) : h[i] = Len(b) + i
  BY <1>1
<1> HIDE DEF h
<1>3. \A i \in 1 .. Len(w) : /\ w[i] = (b \o w)[h[i]]
                             /\ \A j \in 1 .. Len(w) : i < j => h[i] < h[j]
  BY <1>1, <1>2
<1> QED
  BY <1>2, <1>3 DEF Thins

LEMMA GoingDown ==
    ASSUME ReceiversInv, NEW p \in Processes, Down(p), rows' = rows, disturbed \subseteq disturbed',
           \A q \in Links : Process(q) = p =>
             q \in disturbed' \/ Killed(q) \/ Unmade(q)
    PROVE  LinksNext
<1>1. /\ sent' = sent
      /\ link' = [q \in Links |-> IF p = "tcp" /\ q \in Served THEN "closed" ELSE link[q]]
      /\ wire' = [q \in Links |-> IF Process(q) = p /\ p # "mqtt" THEN <<>> ELSE wire[q]]
      /\ buf' = [q \in Links |-> IF Process(q) = p THEN <<>> ELSE buf[q]]
  BY DEF Down
<1>2. ASSUME NEW q \in Links PROVE StillDisturbed(q) /\ Good(q) \subseteq Good(q)' /\ RowsKept(q)
  BY <1>1 DEF StillDisturbed, Good, RowsKept
<1>3. ASSUME NEW q \in Links, Process(q) = p, p = "mqtt" PROVE LinkInv(q)'
  <2>1. LinkInv(q) /\ Typed(q) /\ rows \in Seq(Range(rows))
    BY DEF ReceiversInv, LinkInv
  <2>2. /\ q \notin Streamed /\ q \notin Connections /\ q \notin {"udp", "can", "uart"}
        /\ q = "mqtt"
    BY <1>3 DEF Process, Streamed
  <2>3. wire'[q] = wire[q] /\ buf'[q] = <<>>
    BY <1>1, <1>3
  <2>4. buf[q] \in Seq(PartsOf(q)) /\ wire[q] \in Seq(PartsOf(q))
    BY <2>1 DEF Typed
  <2>5. Stream(q)' = wire[q]
    BY <2>3, <2>4 DEF Stream
  <2>6. Thins(Stream(q)', Stream(q))
    BY <2>4, <2>5, ThinsBack DEF Stream
  <2>7. Typed(q)'
    <3>1. Kinds(q)' = Kinds(q) /\ PartsOf(q)' = PartsOf(q)
      BY <1>1 DEF Kinds, PartsOf
    <3> QED
      BY <1>1, <2>1, <2>2, <2>3, <3>1 DEF Typed
  <2>8. q \in disturbed' /\ Framed(q)'
    BY <1>3, <2>2 DEF Killed, Unmade, Framed
  <2> QED
    BY <1>2, <2>1, <2>6, <2>7, <2>8, LostOverLink
<1>4. ASSUME NEW q \in Links, Process(q) = p, p # "mqtt", q \in Connections => q \in Served
      PROVE  LinkInv(q)'
  <2>1. LinkInv(q) /\ Typed(q) /\ rows \in Seq(Range(rows))
    BY DEF ReceiversInv, LinkInv
  <2>2. wire'[q] = <<>> /\ buf'[q] = <<>> /\ sent'[q] = sent[q] /\ sent'[q] \in Seq(Kinds(q))
    BY <1>1, <1>4, <2>1 DEF Typed
  <2>3. q \in Connections => link'[q] = "closed"
    BY <1>1, <1>4 DEF Process
  <2>4. Stream(q)' = <<>> /\ Typed(q)' /\ Framed(q)' /\ Thins(Stream(q)', Stream(q))
    BY <2>2, <2>3, NothingLeft
  <2>5. q \notin disturbed' => Killed(q)
    BY <1>4 DEF Served, Unmade
  <2> QED
    BY <1>2, <2>1, <2>2, <2>4, <2>5, KilledOverLink
<1>5. ASSUME NEW q \in Links, Process(q) # p \/ (q \in Connections /\ q \notin Served)
      PROVE  LinkInv(q)'
  <2>1. Typed(q)
    BY DEF ReceiversInv, LinkInv
  <2>2. q \in Connections /\ q \notin Served => buf[q] = <<>> /\ wire[q] = <<>>
    BY <2>1 DEF Typed, Served
  <2>3. q \in Connections => link'[q] = link[q]
    BY <1>1, <1>5 DEF Process
  <2>4. wire'[q] = wire[q] /\ buf'[q] = buf[q]
    BY <1>1, <1>5, <2>2
  <2>5. Untouched(q)
    BY <1>1, <1>2, <2>3, <2>4 DEF Untouched
  <2> QED
    BY <2>5, UntouchedLink DEF ReceiversInv
<1>6. DOMAIN sent' = Links /\ DOMAIN wire' = Links /\ DOMAIN buf' = Links /\ DOMAIN link' = Links
  BY <1>1 DEF ReceiversInv
<1> QED
  BY <1>3, <1>4, <1>5, <1>6 DEF LinksNext

LEMMA Starting ==
    ASSUME ReceiversInv, UNCHANGED <<rows, network, disturbed>>
    PROVE  LinksNext
<1>1. \A l \in Links : Untouched(l)
  BY DEF Untouched, RowsKept, StillDisturbed, network
<1>2. DOMAIN link' = Links
  BY DEF ReceiversInv, network
<1> QED
  BY <1>1, <1>2, AllUntouched DEF network

LEMMA CutByOne ==
    ASSUME NEW S, NEW w \in Seq(S), w # <<>>
    PROVE  /\ Tail(w) = From(w, 2) /\ <<Head(w)>> = SubSeq(w, 1, 1)
           /\ Len(w) \in Nat \ {0} /\ Head(w) = w[1] /\ w[1] \in S
<1>1. /\ Len(w) \in Nat \ {0} /\ Head(w) = w[1] /\ w[1] \in S
      /\ Tail(w) \in Seq(S) /\ Len(Tail(w)) = Len(w) - 1
      /\ \A i \in 1 .. (Len(w) - 1) : Tail(w)[i] = w[i + 1]
  OBVIOUS
<1>2. Tail(w) = From(w, 2)
  <2>1. /\ From(w, 1 + 1) \in Seq(S) /\ Len(From(w, 1 + 1)) = Len(w) - 1
        /\ \A i \in 1 .. (Len(w) - 1) : From(w, 1 + 1)[i] = w[1 + i]
    <3>1. 1 \in 0 .. Len(w)
      BY <1>1
    <3> QED
      BY <3>1, Suffix, Zenon
  <2>2. /\ From(w, 2) \in Seq(S) /\ Len(From(w, 2)) = Len(w) - 1
        /\ \A i \in 1 .. (Len(w) - 1) : From(w, 2)[i] = w[i + 1]
    <3>1. 1 + 1 = 2 /\ \A i \in 1 .. (Len(w) - 1) : 1 + i = i + 1
      BY <1>1
    <3> QED
      BY <2>1, <3>1
  <2> QED
    BY <1>1, <2>2, SameElements
<1>3. <<Head(w)>> = SubSeq(w, 1, 1)
  BY <1>1
<1> QED
  BY <1>1, <1>2, <1>3

LEMMA Forwarding ==
    ASSUME ReceiversInv, Forward
    PROVE  LinksNext
<1> DEFINE l == "mqtt"
<1>1. l \in Links /\ l \notin Streamed /\ l \notin Connections /\ l \notin {"udp", "can", "uart"}
  BY ConnectionsAssumption DEF Links, Processes, Streamed
<1>2. /\ UNCHANGED <<rows, sent, link>> /\ wire[l] # <<>>
      /\ wire' = [wire EXCEPT ![l] = Tail(@)]
      /\ \/ buf' = [buf EXCEPT ![l] = Append(@, Head(wire[l]))] /\ disturbed' = disturbed
         \/ buf' = buf /\ disturbed' = disturbed \cup {l}
  BY DEF Forward
<1> HIDE DEF l
<1>3. Typed(l) /\ LinkInv(l) /\ rows \in Seq(Range(rows))
  BY <1>1 DEF ReceiversInv, LinkInv
<1> DEFINE P == PartsOf(l)
           b == buf[l]
           w == wire[l]
<1>4. b \in Seq(P) /\ w \in Seq(P) /\ w # <<>> /\ sent[l] \in Seq(Kinds(l))
  BY <1>2, <1>3 DEF Typed
<1>5. wire'[l] = Tail(w)
  BY <1>1, <1>2 DEF ReceiversInv
<1>6. Kinds(l)' = Kinds(l) /\ PartsOf(l)' = P
  BY <1>2 DEF Kinds, PartsOf
<1>7. buf'[l] = Append(b, Head(w)) \/ buf'[l] = b
  BY <1>1, <1>2 DEF ReceiversInv
<1> HIDE DEF P, b, w
<1>8. Tail(w) \in Seq(P) /\ Append(b, Head(w)) \in Seq(P)
  BY <1>4
<1>9. Typed(l)'
  BY <1>1, <1>2, <1>3, <1>4, <1>5, <1>6, <1>7, <1>8 DEF Typed
<1>10. Framed(l)' /\ Good(l) \subseteq Good(l)' /\ RowsKept(l) /\ LinkKept(l)
  BY <1>1, <1>2 DEF Framed, Good, RowsKept, LinkKept
<1>11. ASSUME buf' = [buf EXCEPT ![l] = Append(@, Head(wire[l]))], disturbed' = disturbed
       PROVE  LinkInv(l)'
  <2>1. buf'[l] = Append(b, Head(w))
    BY <1>1, <1>11 DEF ReceiversInv, b, w
  <2>2. Append(b, Head(w)) = b \o SubSeq(w, 1, 1)
    <3>1. <<Head(w)>> = SubSeq(w, 1, 1) /\ Head(w) \in P
      BY <1>4, CutByOne
    <3>2. Append(b, Head(w)) = b \o <<Head(w)>>
      BY <1>4, <3>1
    <3> QED
      BY <3>1, <3>2
  <2>3. Tail(w) = From(w, 1 + 1) /\ 1 \in 0 .. Len(w)
    BY <1>4, CutByOne
  <2>4. (b \o SubSeq(w, 1, 1)) \o From(w, 1 + 1) = b \o w
    BY <1>4, <2>3, Rechunked
  <2>5. Stream(l)' = Stream(l)
    BY <1>5, <2>1, <2>2, <2>3, <2>4 DEF Stream, b, w
  <2> QED
    BY <1>2, <1>3, <1>9, <1>10, <1>11, <2>5, SameLink DEF StillDisturbed
<1>12. ASSUME buf' = buf, disturbed' = disturbed \cup {l} PROVE LinkInv(l)'
  <2>1. Stream(l)' = b \o Tail(w) /\ Stream(l) = b \o w
    BY <1>5, <1>12 DEF Stream, b, w
  <2>2. Thins(Stream(l)', Stream(l))
    BY <1>4, <2>1, ThinsMiddle
  <2> QED
    BY <1>3, <1>9, <1>10, <1>12, <2>2, LostOverLink
<1>13. ASSUME NEW q \in Links, q # l PROVE Untouched(q)
  BY <1>2, <1>13 DEF ReceiversInv, Untouched, RowsKept, StillDisturbed
<1>14. DOMAIN sent' = Links /\ DOMAIN wire' = Links /\ DOMAIN buf' = Links /\ DOMAIN link' = Links
  BY <1>2 DEF ReceiversInv
<1> QED
  BY <1>1, <1>2, <1>11, <1>12, <1>13, <1>14, OneLink DEF LinksNext

-----------------------------------------------------------------------------
(* Messages and lines that are received.                                    *)
LEMMA StoreRows ==
    ASSUME NEW l, NEW n, NEW unit, NEW ending, Store(l, n, unit, ending)
    PROVE  /\ \A q : q # l => RowsKept(q)
           /\ ending # "store" => rows' = rows
           /\ ending = "store" /\ (unit = "cut" => l = "uart" /\ l \in disturbed') => RowsTaken(l, n)
<1> DEFINE row == [from |-> l, value |-> n, unit |-> unit, sensor |-> SensorOf[l], at |-> Now]
<1>1. rows' = rows \/ rows' = Append(rows, row)
  BY DEF Store
<1>2. row.from = l /\ row.value = n /\ row.unit = unit
  OBVIOUS
<1>3. ending # "store" => rows' = rows
  BY DEF Store
<1>4. ending = "store" => rows' = Append(rows, row)
  BY DEF Store
<1> HIDE DEF row
<1> QED
  BY <1>1, <1>2, <1>3, <1>4 DEF RowsKept, RowsTaken

LEMMA EndingOf ==
    ASSUME NEW outcome \in {TcpOutcome, UdpOutcome, CanOutcome, UartOutcome, MqttOutcome},
           NEW kind \in {"ok", "unknown", "malformed", "null", "blank"},
           kind = "null" => outcome # CanOutcome, kind = "blank" => outcome = TcpOutcome,
           NEW failed \in {"die", "ignore"}, NEW ending \in Endings(outcome, kind, failed)
    PROVE  /\ ending = "store" => kind = "ok"
           /\ kind = "ok" => ending \in {"store", failed}
           /\ ending = "die" => kind \in {"ok", "null"} /\ (kind = "null" => outcome # MqttOutcome)
BY DEF Endings, TcpOutcome, UdpOutcome, CanOutcome, UartOutcome, MqttOutcome

LEMMA CutFront ==
    ASSUME NEW S, NEW b \in Seq(S), NEW w \in Seq(S), NEW k \in 0 .. Len(b)
    PROVE  From(b, k + 1) \o w = From(b \o w, k + 1)
<1> DEFINE x == From(b, k + 1)
           s == b \o w
           t == From(s, k + 1)
<1>1. Len(b) \in Nat /\ Len(w) \in Nat /\ k \in Nat
  OBVIOUS
<1>2. x \in Seq(S) /\ Len(x) = Len(b) - k /\ \A i \in 1 .. (Len(b) - k) : x[i] = b[k + i]
  BY Suffix
<1>3. /\ s \in Seq(S) /\ Len(s) = Len(b) + Len(w)
      /\ \A i \in 1 .. Len(b) : s[i] = b[i]
      /\ \A i \in (Len(b) + 1) .. (Len(b) + Len(w)) : s[i] = w[i - Len(b)]
  BY Concatenation
<1> HIDE DEF x, s
<1>4. t \in Seq(S) /\ Len(t) = Len(s) - k /\ \A i \in 1 .. (Len(s) - k) : t[i] = s[k + i]
  <2>1. k \in 0 .. Len(s) /\ s \in Seq(S)
    BY <1>1, <1>3
  <2> QED
    BY <2>1, Suffix, Zenon
<1> HIDE DEF t
<1>5. /\ x \o w \in Seq(S) /\ Len(x \o w) = Len(x) + Len(w)
      /\ \A i \in 1 .. Len(x) : (x \o w)[i] = x[i]
      /\ \A i \in (Len(x) + 1) .. (Len(x) + Len(w)) : (x \o w)[i] = w[i - Len(x)]
  <2>1. x \in Seq(S)
    BY <1>2
  <2> QED
    BY <2>1, Concatenation, SMTT(30)
<1>6. Len(x \o w) = Len(t)
  BY <1>1, <1>2, <1>3, <1>4, <1>5
<1>7. ASSUME NEW i \in 1 .. Len(t) PROVE (x \o w)[i] = t[i]
  <2>1. CASE i <= Len(b) - k
    <3>1. i \in 1 .. Len(x) /\ i \in 1 .. (Len(b) - k) /\ k + i \in 1 .. Len(b) /\ i \in 1 .. (Len(s) - k)
      BY <1>1, <1>2, <1>3, <1>4, <2>1
    <3> QED
      BY <1>2, <1>3, <1>4, <1>5, <3>1
  <2>2. CASE i > Len(b) - k
    <3>1. /\ i \in (Len(x) + 1) .. (Len(x) + Len(w)) /\ i \in 1 .. (Len(s) - k)
          /\ k + i \in (Len(b) + 1) .. (Len(b) + Len(w)) /\ k + i - Len(b) = i - Len(x)
      BY <1>1, <1>2, <1>3, <1>4, <2>2
    <3>2. (x \o w)[i] = w[i - Len(x)]
      BY <1>5, <3>1
    <3>3. t[i] = s[k + i]
      BY <1>4, <3>1
    <3>4. s[k + i] = w[k + i - Len(b)]
      BY <1>3, <3>1
    <3> QED
      BY <3>1, <3>2, <3>3, <3>4
  <2>3. i <= Len(b) - k \/ i > Len(b) - k
    BY <1>1
  <2> QED
    BY <2>1, <2>2, <2>3
<1>8. x \o w = t
  BY <1>4, <1>5, <1>6, <1>7, SameElements
<1> QED
  BY <1>8 DEF x, s, t

LEMMA MessageTaken ==
    ASSUME NEW l, l \notin Streamed, NEW n, rows \in Seq(Range(rows)), LinkInv(l),
           Stream(l) # <<>>, n = Stream(l)[1][1], TakenFrom(l, 1),
           \/ n \in Good(l) /\ RowsTaken(l, n)
           \/ RowsKept(l) /\ (l \notin disturbed' => n \notin Good(l))
    PROVE  LinkInv(l)'
<1>1. Typed(l) /\ Ordering(l) /\ Framed(l) /\ RowsOf(l) /\ Kept(l)
  BY DEF LinkInv
<1>2. Typed(l)' /\ StillDisturbed(l) /\ sent'[l] = sent[l] /\ 1 \in 1 .. Len(Stream(l))
  BY DEF TakenFrom
<1>3. Stream(l)[1] # Newline /\ Stream(l)[1][2] = 0
  <2>1. Stream(l)[1] \in PartsOf(l) /\ sent[l] \in Seq(Kinds(l))
    BY <1>1, <1>2, StreamParts DEF Typed
  <2> QED
    BY <2>1, PartShape
<1>4. Framed(l)'
  BY DEF Framed
<1>5. Kept(l)'
  <2>1. \A j \in 1 .. 1 : j = 1
    OBVIOUS
  <2> QED
    BY <1>1, <2>1, KeptTaken
<1>6. CASE n \in Good(l) /\ RowsTaken(l, n)
  <2>1. 1 \in 1 .. 1
    OBVIOUS
  <2>2. Ordering(l)' /\ RowsOf(l)'
    BY <1>1, <1>3, <1>6, <2>1, OrderingTaken
  <2> QED
    BY <1>2, <1>4, <1>5, <2>2 DEF LinkInv
<1>7. CASE RowsKept(l)
  <2>1. Thins(Stream(l)', Stream(l))
    BY <1>1, TakenStream
  <2>2. Ordering(l)'
    BY <1>1, <1>2, <1>7, <2>1, OrderingKept
  <2>3. RowsOf(l)'
    BY <1>1, <1>2, <1>7, RowsOfKept DEF Good
  <2> QED
    BY <1>2, <1>4, <1>5, <2>2, <2>3 DEF LinkInv
<1> QED
  BY <1>6, <1>7

LEMMA OnMessageStep ==
    ASSUME ReceiversInv, OnMessage
    PROVE  LinksNext
<1> DEFINE l == "mqtt"
           n == Head(buf[l])[1]
           kind == sent[l][n]
           b == buf[l]
           w == wire[l]
           P == PartsOf(l)
<1>1. l \in Links /\ l \notin Streamed /\ l \notin Connections /\ l \notin {"udp", "can", "uart"}
  BY ConnectionsAssumption DEF Links, Processes, Streamed
<1>2. PICK ending \in Endings(MqttOutcome, kind, "ignore") :
        /\ Store(l, n, "whole", ending)
        /\ disturbed' = disturbed \cup Failing(l, kind, ending)
  BY DEF OnMessage
<1>3. b # <<>> /\ buf' = [buf EXCEPT ![l] = Tail(@)] /\ UNCHANGED <<sent, wire, link>>
  BY DEF OnMessage
<1>4. Typed(l) /\ LinkInv(l) /\ rows \in Seq(Range(rows))
  BY <1>1 DEF ReceiversInv, LinkInv
<1>5. b \in Seq(P) /\ w \in Seq(P) /\ sent[l] \in Seq(Kinds(l))
  BY <1>4 DEF Typed
<1> HIDE DEF l, P, b, w
<1>6. /\ Tail(b) = From(b, 1 + 1) /\ Head(b) = b[1] /\ b[1] \in P /\ 1 \in 0 .. Len(b)
      /\ 1 \in 1 .. Len(b) /\ Tail(b) \in Seq(P)
  BY <1>3, <1>5, CutByOne
<1>7. buf'[l] = Tail(b) /\ wire'[l] = w
  BY <1>1, <1>3 DEF ReceiversInv, b, w
<1>8. Stream(l)' = From(Stream(l), 1 + 1)
  <2>1. From(b, 1 + 1) \o w = From(b \o w, 1 + 1)
    BY <1>5, <1>6, CutFront
  <2> QED
    BY <1>6, <1>7, <2>1 DEF Stream, b, w
<1>9. Stream(l) # <<>> /\ 1 \in 1 .. Len(Stream(l)) /\ Stream(l)[1] = b[1]
  <2>1. Len(b \o w) = Len(b) + Len(w) /\ Len(w) \in Nat /\ (b \o w)[1] = b[1]
    BY <1>5, <1>6
  <2>2. 1 \in 1 .. Len(b \o w)
    BY <1>6, <2>1
  <2>3. b \o w # <<>>
    BY <2>2
  <2> QED
    BY <2>1, <2>2, <2>3 DEF Stream, b, w
<1>10. n = Stream(l)[1][1] /\ n \in DOMAIN sent[l] /\ kind \in Kinds(l)
  <2>1. n = b[1][1]
    BY <1>6 DEF b
  <2>2. n \in DOMAIN sent[l]
    BY <1>1, <1>5, <1>6, <2>1 DEF P, PartsOf
  <2> QED
    BY <1>5, <1>9, <2>1, <2>2
<1> HIDE DEF n
<1>11. Typed(l)'
  <2>1. Kinds(l)' = Kinds(l) /\ PartsOf(l)' = P
    BY <1>3 DEF Kinds, PartsOf, P
  <2> QED
    BY <1>1, <1>3, <1>5, <1>6, <1>7, <2>1 DEF Typed
<1>12. TakenFrom(l, 1)
  BY <1>1, <1>2, <1>3, <1>8, <1>9, <1>11 DEF TakenFrom, StillDisturbed
<1>13. /\ ending = "store" => kind = "ok"
       /\ kind = "ok" => ending \in {"store", "ignore"}
  <2>1. kind \in {"ok", "unknown", "malformed", "null"} /\ MqttOutcome # CanOutcome
    BY <1>1, <1>10 DEF Kinds, MqttOutcome, CanOutcome
  <2> HIDE DEF kind
  <2> QED
    BY <1>2, <2>1, EndingOf
<1>14. LinkInv(l)'
  <2>1. CASE ending = "store"
    <3>1. n \in Good(l) /\ RowsTaken(l, n)
      BY <1>2, <1>10, <1>13, <2>1, StoreRows DEF Good
    <3> QED
      BY <1>1, <1>4, <1>9, <1>10, <1>12, <3>1, MessageTaken
  <2>2. CASE ending # "store"
    <3>1. RowsKept(l)
      BY <1>2, <2>2, StoreRows DEF RowsKept
    <3>2. l \notin disturbed' => n \notin Good(l)
      BY <1>2, <2>2 DEF Good, Failing
    <3> QED
      BY <1>1, <1>4, <1>9, <1>10, <1>12, <3>1, <3>2, MessageTaken
  <2> QED
    BY <2>1, <2>2
<1>15. ASSUME NEW q \in Links, q # l PROVE Untouched(q)
  <2>1. RowsKept(q)
    BY <1>2, <1>15, StoreRows
  <2> QED
    BY <1>2, <1>3, <1>15, <2>1 DEF ReceiversInv, Untouched, StillDisturbed
<1>16. DOMAIN sent' = Links /\ DOMAIN wire' = Links /\ DOMAIN buf' = Links /\ DOMAIN link' = Links
  BY <1>3 DEF ReceiversInv
<1> QED
  BY <1>1, <1>14, <1>15, <1>16, OneLink DEF LinksNext

\* Where there is no buffer, the stream is what is on its way.
LEMMA Unbuffered ==
    ASSUME NEW l, Typed(l), l \in {"udp", "can", "uart"}
    PROVE  buf[l] = <<>> /\ Stream(l) = wire[l] /\ wire[l] \in Seq(PartsOf(l))
<1> DEFINE P == PartsOf(l)
<1>1. buf[l] = <<>> /\ wire[l] \in Seq(P)
  BY DEF Typed
<1> HIDE DEF P
<1>2. <<>> \o wire[l] = wire[l]
  BY <1>1
<1> QED
  BY <1>1, <1>2 DEF Stream, P

LEMMA UnbufferedNext ==
    ASSUME NEW l, l \in {"udp", "can", "uart"}, Typed(l), l \notin Connections,
           NEW w, wire'[l] = w, w \in Seq(PartsOf(l)), buf' = buf, sent' = sent
    PROVE  Typed(l)' /\ Stream(l)' = w
<1>1. buf'[l] = <<>>
  BY DEF Typed
<1>2. Kinds(l)' = Kinds(l) /\ PartsOf(l)' = PartsOf(l)
  BY DEF Kinds, PartsOf
<1>3. Typed(l)'
  BY <1>1, <1>2 DEF Typed
<1>4. Stream(l)' = w
  BY <1>1 DEF Stream
<1> QED
  BY <1>3, <1>4

LEMMA FrameStep ==
    ASSUME ReceiversInv, ReceiveFrame
    PROVE  LinksNext
<1> DEFINE l == "can"
           n == Head(wire[l])[1]
           kind == sent[l][n]
           w == wire[l]
           P == PartsOf(l)
<1>1. /\ l \in Links /\ l \notin Streamed /\ l \notin Connections /\ l \in {"udp", "can", "uart"}
      /\ l \in Processes
  BY ConnectionsAssumption DEF Links, Processes, Streamed
<1>2. PICK ending \in Endings(CanOutcome, kind, "die") :
        /\ Store(l, n, "whole", ending)
        /\ disturbed' = disturbed \cup Failing(l, kind, ending)
        /\ IF ending = "die" THEN Down(l)
           ELSE wire' = [wire EXCEPT ![l] = Tail(@)] /\ UNCHANGED <<sent, buf, link>>
  BY DEF ReceiveFrame
<1>3. w # <<>>
  BY DEF ReceiveFrame
<1>4. Typed(l) /\ LinkInv(l) /\ rows \in Seq(Range(rows)) /\ sent[l] \in Seq(Kinds(l))
  BY <1>1 DEF ReceiversInv, LinkInv, Typed
<1>5. w \in Seq(P) /\ Stream(l) = w
  BY <1>1, <1>4, Unbuffered
<1> HIDE DEF l, P, w
<1>6. /\ Tail(w) = From(w, 1 + 1) /\ Head(w) = w[1] /\ w[1] \in P /\ 1 \in 1 .. Len(w)
      /\ Tail(w) \in Seq(P)
  BY <1>3, <1>5, CutByOne
<1>10. n = Stream(l)[1][1] /\ n \in DOMAIN sent[l] /\ kind \in Kinds(l)
  <2>1. n = w[1][1]
    BY <1>6 DEF w
  <2>2. n \in DOMAIN sent[l]
    BY <1>1, <1>5, <1>6, <2>1 DEF P, PartsOf
  <2> QED
    BY <1>4, <1>5, <2>1, <2>2
<1> HIDE DEF n
<1>13. /\ ending = "store" => kind = "ok"
       /\ kind = "ok" => ending \in {"store", "die"}
       /\ ending = "die" => kind = "ok"
  <2>1. kind \in {"ok", "unknown", "malformed"}
    BY <1>1, <1>10 DEF Kinds, l
  <2> HIDE DEF kind
  <2> QED
    BY <1>2, <2>1, EndingOf
<1>14. CASE ending = "die"
  <2>1. rows' = rows /\ Down(l) /\ disturbed \subseteq disturbed' /\ l \in disturbed'
    BY <1>2, <1>13, <1>14, StoreRows DEF Failing
  <2>2. \A q \in Links : Process(q) = l => q = l
    BY <1>1 DEF Process, l
  <2> QED
    BY <1>1, <2>1, <2>2, GoingDown
<1>15. CASE ending # "die"
  <2>1. /\ wire' = [wire EXCEPT ![l] = Tail(@)] /\ UNCHANGED <<sent, buf, link>>
        /\ disturbed' = disturbed \cup Failing(l, kind, ending)
    BY <1>2, <1>15
  <2>2. wire'[l] = Tail(w)
    BY <1>1, <2>1 DEF ReceiversInv, w
  <2>3. Typed(l)' /\ Stream(l)' = Tail(w)
    BY <1>1, <1>4, <1>6, <2>1, <2>2, UnbufferedNext DEF P
  <2>4. TakenFrom(l, 1)
    BY <1>1, <1>5, <1>6, <2>1, <2>3 DEF TakenFrom, StillDisturbed
  <2>5. LinkInv(l)'
    <3>1. CASE ending = "store"
      <4>1. n \in Good(l) /\ RowsTaken(l, n)
        BY <1>2, <1>10, <1>13, <3>1, StoreRows DEF Good
      <4> QED
        BY <1>1, <1>3, <1>4, <1>5, <1>10, <2>4, <4>1, MessageTaken
    <3>2. CASE ending # "store"
      <4>1. RowsKept(l)
        BY <1>2, <3>2, StoreRows DEF RowsKept
      <4>2. n \notin Good(l)
        BY <1>13, <1>15, <3>2 DEF Good
      <4> QED
        BY <1>1, <1>3, <1>4, <1>5, <1>10, <2>4, <4>1, <4>2, MessageTaken
    <3> QED
      BY <3>1, <3>2
  <2>6. ASSUME NEW q \in Links, q # l PROVE Untouched(q)
    <3>1. RowsKept(q)
      BY <1>2, <2>6, StoreRows
    <3> QED
      BY <2>1, <2>6, <3>1 DEF ReceiversInv, Untouched, StillDisturbed
  <2>7. DOMAIN sent' = Links /\ DOMAIN wire' = Links /\ DOMAIN buf' = Links /\ DOMAIN link' = Links
    BY <2>1 DEF ReceiversInv
  <2> QED
    BY <1>1, <2>5, <2>6, <2>7, OneLink DEF LinksNext
<1> QED
  BY <1>14, <1>15

\* The first datagram, or one that overtakes others.
LEMMA DatagramStep ==
    ASSUME ReceiversInv, NEW i \in DOMAIN wire["udp"], ReceiveDatagram(i)
    PROVE  LinksNext
<1> DEFINE l == "udp"
           n == wire[l][i][1]
           kind == sent[l][n]
           w == wire[l]
           P == PartsOf(l)
<1>1. /\ l \in Links /\ l \notin Streamed /\ l \notin Connections /\ l \in {"udp", "can", "uart"}
      /\ l \in Processes
  BY ConnectionsAssumption DEF Links, Processes, Streamed
<1>2. PICK ending \in Endings(UdpOutcome, kind, "die") :
        /\ Store(l, n, "whole", ending)
        /\ disturbed' = disturbed \cup Failing(l, kind, ending) \cup (IF i = 1 THEN {} ELSE {l})
        /\ IF ending = "die" THEN Down(l)
           ELSE wire' = [wire EXCEPT ![l] = RemoveAt(@, i)] /\ UNCHANGED <<sent, buf, link>>
  BY DEF ReceiveDatagram
<1>4. Typed(l) /\ LinkInv(l) /\ rows \in Seq(Range(rows)) /\ sent[l] \in Seq(Kinds(l))
  BY <1>1 DEF ReceiversInv, LinkInv, Typed
<1>5. w \in Seq(P) /\ Stream(l) = w
  BY <1>1, <1>4, Unbuffered
<1> HIDE DEF P
<1>6. i \in 1 .. Len(w) /\ w[i] \in P /\ Len(w) \in Nat
  BY <1>5
<1> HIDE DEF l, w
<1>10. n = w[i][1] /\ n \in DOMAIN sent[l] /\ kind \in Kinds(l)
  <2>1. n = w[i][1]
    BY DEF w
  <2>2. n \in DOMAIN sent[l]
    BY <1>1, <1>5, <1>6, <2>1 DEF P, PartsOf
  <2> QED
    BY <1>4, <1>5, <2>1, <2>2
<1> HIDE DEF n
<1>13. /\ ending = "store" => kind = "ok"
       /\ kind = "ok" => ending \in {"store", "die"}
       /\ ending = "die" => kind \in {"ok", "null"}
  <2>1. kind \in {"ok", "unknown", "malformed", "null"} /\ UdpOutcome # CanOutcome
    BY <1>1, <1>10 DEF Kinds, UdpOutcome, CanOutcome
  <2> HIDE DEF kind
  <2> QED
    BY <1>2, <2>1, EndingOf
<1>14. CASE ending = "die"
  <2>1. rows' = rows /\ Down(l) /\ disturbed \subseteq disturbed'
    BY <1>2, <1>14, StoreRows
  <2>2. \A q \in Links : Process(q) = l => q = l
    BY <1>1 DEF Process, l
  <2>3. ASSUME l \notin disturbed' PROVE Killed(l)
    <3>1. i = 1 /\ kind = "null"
      BY <1>2, <1>13, <1>14, <2>3 DEF Failing
    <3>2. w[1] # Newline
      BY <1>1, <1>4, <1>6, <3>1, PartShape DEF P
    <3>3. w # <<>> /\ l # "mqtt"
      BY <1>6 DEF l
    <3> QED
      BY <1>5, <1>10, <3>1, <3>2, <3>3 DEF Killed
  <2> QED
    BY <1>1, <2>1, <2>2, <2>3, GoingDown
<1>15. CASE ending # "die"
  <2>1. /\ wire' = [wire EXCEPT ![l] = RemoveAt(@, i)] /\ UNCHANGED <<sent, buf, link>>
        /\ disturbed' = disturbed \cup Failing(l, kind, ending) \cup (IF i = 1 THEN {} ELSE {l})
    BY <1>2, <1>15
  <2>2. wire'[l] = RemoveAt(w, i) /\ StillDisturbed(l)
    BY <1>1, <2>1 DEF ReceiversInv, w, StillDisturbed
  <2>3. RemoveAt(w, i) \in Seq(P)
    <3>1. SubSeq(w, 1, i - 1) \in Seq(P)
      BY <1>5, <1>6
    <3>2. SubSeq(w, i + 1, Len(w)) \in Seq(P)
      BY <1>5, <1>6, Suffix DEF From
    <3> QED
      BY <3>1, <3>2 DEF RemoveAt
  <2>4. Typed(l)' /\ Stream(l)' = RemoveAt(w, i)
    BY <1>1, <1>4, <2>1, <2>2, <2>3, UnbufferedNext DEF P
  <2>5. ASSUME i = 1 PROVE LinkInv(l)'
    <3>1. RemoveAt(w, 1) = From(w, 1 + 1)
      <4>1. SubSeq(w, 1, 1 - 1) = <<>> /\ From(w, 1 + 1) \in Seq(P)
        <5>1. 1 \in 0 .. Len(w)
          BY <1>6, <2>5
        <5> QED
          BY <1>5, <5>1, Suffix
      <4>2. <<>> \o From(w, 1 + 1) = From(w, 1 + 1)
        BY <4>1
      <4> QED
        BY <4>1, <4>2 DEF RemoveAt, From
    <3>2. 1 \in 1 .. Len(w) /\ w # <<>>
      BY <1>5, <1>6, <2>5
    <3>3. TakenFrom(l, 1)
      BY <1>1, <1>5, <2>1, <2>2, <2>4, <2>5, <3>1, <3>2 DEF TakenFrom
    <3>4. n = Stream(l)[1][1]
      BY <1>5, <1>10, <2>5
    <3>5. ASSUME ending = "store" PROVE LinkInv(l)'
      <4>1. n \in Good(l) /\ RowsTaken(l, n)
        BY <1>2, <1>10, <1>13, <3>5, StoreRows DEF Good
      <4> QED
        BY <1>1, <1>4, <1>5, <3>2, <3>3, <3>4, <4>1, MessageTaken
    <3>6. ASSUME ending # "store" PROVE LinkInv(l)'
      <4>1. RowsKept(l)
        BY <1>2, <3>6, StoreRows DEF RowsKept
      <4>2. n \notin Good(l)
        BY <1>13, <1>15, <3>6 DEF Good
      <4> QED
        BY <1>1, <1>4, <1>5, <3>2, <3>3, <3>4, <4>1, <4>2, MessageTaken
    <3> QED
      BY <3>5, <3>6
  <2>6. ASSUME i # 1 PROVE LinkInv(l)'
    <3>1. l \in disturbed' /\ ~ InOrder(l)'
      BY <2>1, <2>6 DEF InOrder, l
    <3>2. Ordering(l)' /\ Framed(l)' /\ Kept(l)'
      BY <1>1, <3>1 DEF Ordering, Framed, Kept
    <3>3. RowsOf(l)
      BY <1>4 DEF LinkInv
    <3>4. Good(l)' = Good(l)
      BY <2>1 DEF Good
    <3>5. RowsOf(l)'
      <4>1. ASSUME ending = "store" PROVE RowsOf(l)'
        <5>1. n \in Good(l) /\ RowsTaken(l, n)
          BY <1>2, <1>10, <1>13, <4>1, StoreRows DEF Good
        <5> QED
          BY <1>4, <2>1, <2>2, <3>1, <3>3, <5>1, RowsOfTaken
      <4>2. ASSUME ending # "store" PROVE RowsOf(l)'
        <5>1. RowsKept(l)
          BY <1>2, <4>2, StoreRows DEF RowsKept
        <5> QED
          BY <1>4, <2>2, <3>3, <3>4, <5>1, RowsOfKept
      <4> QED
        BY <4>1, <4>2
    <3> QED
      BY <2>4, <3>2, <3>5 DEF LinkInv
  <2>8. ASSUME NEW q \in Links, q # l PROVE Untouched(q)
    <3>1. RowsKept(q)
      BY <1>2, <2>8, StoreRows
    <3> QED
      BY <2>1, <2>8, <3>1 DEF ReceiversInv, Untouched, StillDisturbed
  <2>9. DOMAIN sent' = Links /\ DOMAIN wire' = Links /\ DOMAIN buf' = Links /\ DOMAIN link' = Links
    BY <2>1 DEF ReceiversInv
  <2> QED
    BY <1>1, <2>5, <2>6, <2>8, <2>9, OneLink DEF LinksNext
<1> QED
  BY <1>14, <1>15

-----------------------------------------------------------------------------
LEMMA LineTexts ==
    ASSUME NEW l, NEW text
    PROVE  /\ text \in Whole(l) => \E n \in DOMAIN sent[l] :
                /\ text = Line(n) /\ Len(text) = 3
                /\ text[1] = <<n, 1>> /\ text[2] = <<n, 2>> /\ text[3] = <<n, 3>>
           /\ text \in CutInUnit(l) => \E n \in DOMAIN sent[l] :
                Len(text) = 2 /\ text[1] = <<n, 1>> /\ text[2] = <<n, 2>>
<1>1. ASSUME NEW n \in DOMAIN sent[l], text = Line(n)
      PROVE  Len(text) = 3 /\ text[1] = <<n, 1>> /\ text[2] = <<n, 2>> /\ text[3] = <<n, 3>>
  BY <1>1 DEF Line
<1>2. ASSUME NEW n \in DOMAIN sent[l], text = Front(Line(n))
      PROVE  Len(text) = 2 /\ text[1] = <<n, 1>> /\ text[2] = <<n, 2>>
  <2> DEFINE a == <<n, 1>>
             b == <<n, 2>>
             c == <<n, 3>>
             s == <<a, b, c>>
  <2>1. text = SubSeq(s, 1, 3 - 1)
    BY <1>2 DEF Front, Line
  <2> HIDE DEF a, b, c
  <2>2. Len(text) = 2 /\ text[1] = a /\ text[2] = b
    BY <2>1
  <2> QED
    BY <2>2 DEF a, b
<1> QED
  BY <1>1, <1>2 DEF Whole, CutInUnit

\* A whole line of a stream that begins with one.
LEMMA FirstLine ==
    ASSUME NEW l, sent[l] \in Seq(Kinds(l)), NEW s \in Seq(PartsOf(l)), NEW end \in 1 .. Len(s),
           s[end] = Newline, \A i \in 1 .. (end - 1) : s[i] # Newline, Linked(s), FromStart(s)
    PROVE  /\ end = 4 /\ s[1] = <<s[1][1], 1>> /\ s[2] = <<s[1][1], 2>>
           /\ s[3] = <<s[1][1], 3>> /\ s[1][1] \in DOMAIN sent[l]
<1> DEFINE n == s[1][1]
<1>1. /\ end \in Nat /\ Len(s) \in Nat /\ 1 \in 1 .. Len(s) /\ s # <<>>
      /\ \A i \in 1 .. Len(s) : s[i] \in PartsOf(l)
  OBVIOUS
<1>2. s[1][2] = 1 /\ s[1] = <<n, 1>> /\ s[1] # Newline
  <2>1. s[1][2] = 1
    BY <1>1 DEF FromStart
  <2>2. s[1] = <<s[1][1], s[1][2]>>
    BY <1>1, PartShape
  <2> QED
    BY <2>1, <2>2 DEF Newline
<1>3. n \in DOMAIN sent[l]
  <2>1. n \in 1 .. Len(sent[l])
    BY <1>1, <1>2, PartShape
  <2> QED
    BY <2>1
<1> HIDE DEF n
<1>4. end # 1
  BY <1>2
<1>5. s[2] = <<n, 2>> /\ end # 2
  <2>1. Follows(s[1], s[1 + 1])
    BY <1>1, <1>4 DEF Linked
  <2>2. s[2] = <<n, 2>>
    BY <1>2, <2>1 DEF Follows
  <2> QED
    BY <2>2 DEF Newline
<1>6. s[3] = <<n, 3>> /\ end # 3
  <2>1. Follows(s[2], s[2 + 1])
    BY <1>1, <1>4, <1>5 DEF Linked
  <2>2. s[3] = <<n, 3>>
    BY <1>5, <2>1 DEF Follows, Newline
  <2> QED
    BY <2>2 DEF Newline
<1>7. s[4] = Newline
  <2>0. 3 \in 1 .. Len(s) /\ 3 < Len(s)
    BY <1>1, <1>4, <1>5, <1>6
  <2>1. Follows(s[3], s[3 + 1])
    BY <2>0 DEF Linked
  <2> QED
    BY <1>6, <2>1 DEF Follows, Newline
<1>8. end = 4
  <2> SUFFICES ASSUME end # 4 PROVE FALSE
    OBVIOUS
  <2>1. 4 \in 1 .. (end - 1)
    BY <1>1, <1>4, <1>5, <1>6
  <2> QED
    BY <1>7, <2>1
<1> QED
  BY <1>2, <1>3, <1>5, <1>6, <1>8 DEF n

\* The first k parts, up to the end of a line or, on the serial line, before it.
LEMMA LineTaken ==
    ASSUME NEW l \in Streamed, NEW k, NEW end, NEW n, rows \in Seq(Range(rows)), LinkInv(l),
           TakenFrom(l, k), end \in 1 .. Len(Stream(l)), k \in 1 .. end,
           Stream(l)[end] = Newline, \A i \in 1 .. (end - 1) : Stream(l)[i] # Newline,
           k < end => l \in disturbed', n = Stream(l)[1][1],
           \/ /\ RowsTaken(l, n) /\ n \in Good(l) /\ Stream(l)[1] = <<n, 1>>
              /\ \E m \in 1 .. k : Stream(l)[m] = <<n, m>> /\ (m = 3 \/ (l = "uart" /\ m = 2))
           \/ RowsKept(l) /\ (l \notin disturbed' => n \notin Good(l))
    PROVE  LinkInv(l)'
<1> DEFINE s == Stream(l)
<1>1. Typed(l) /\ Ordering(l) /\ Framed(l) /\ RowsOf(l) /\ Kept(l) /\ sent[l] \in Seq(Kinds(l))
  BY DEF LinkInv, Typed
<1>2. Typed(l)' /\ StillDisturbed(l) /\ sent'[l] = sent[l] /\ k \in 1 .. Len(s)
  BY DEF TakenFrom
<1>3. s \in Seq(PartsOf(l))
  BY <1>1, StreamParts
<1>4. ASSUME l \notin disturbed' PROVE k = end
  BY <1>4
<1>5. Framed(l)'
  BY <1>1, <1>4, FramedTaken
<1>6. ASSUME l \notin disturbed'
      PROVE  \A j \in 1 .. k : s[j] = Newline \/ s[j][1] = n
  <2>1. Linked(s) /\ FromStart(s)
    BY <1>1, <1>2, <1>6 DEF Framed, StillDisturbed
  <2> HIDE DEF s
  <2>2. end = 4 /\ s[1] = <<n, 1>> /\ s[2] = <<n, 2>> /\ s[3] = <<n, 3>> /\ s[4] = Newline
    BY <1>1, <1>3, <2>1, FirstLine DEF s
  <2>3. \A j \in 1 .. k : j = 1 \/ j = 2 \/ j = 3 \/ j = 4
    BY <1>4, <1>6, <2>2
  <2> QED
    BY <2>2, <2>3
<1>7. CASE RowsKept(l) /\ (l \notin disturbed' => n \notin Good(l))
  <2>1. Thins(Stream(l)', Stream(l))
    BY <1>1, TakenStream
  <2>2. Ordering(l)'
    BY <1>1, <1>2, <1>7, <2>1, OrderingKept
  <2>3. RowsOf(l)'
    BY <1>1, <1>2, <1>7, RowsOfKept DEF Good
  <2>4. Kept(l)'
    BY <1>1, <1>6, <1>7, KeptTaken
  <2> QED
    BY <1>2, <1>5, <2>2, <2>3, <2>4 DEF LinkInv
<1>8. ASSUME RowsTaken(l, n), n \in Good(l), s[1] = <<n, 1>>,
             NEW m \in 1 .. k, s[m] = <<n, m>>, m = 3 \/ (l = "uart" /\ m = 2)
      PROVE  LinkInv(l)'
  <2>1. s[1] # Newline /\ s[1][1] = n /\ s[1][2] # 3
    BY <1>8 DEF Newline
  <2>2. /\ s[m] # Newline /\ s[m][1] = n
        /\ s[m][2] = 3 \/ (l = "uart" /\ s[m][2] = 2)
    BY <1>8 DEF Newline
  <2>3. Ordering(l)' /\ RowsOf(l)'
    BY <1>1, <1>8, <2>1, <2>2, OrderingTaken
  <2>4. Kept(l)'
    BY <1>1, <1>6, <1>8, KeptTaken
  <2> QED
    BY <1>2, <1>5, <2>3, <2>4 DEF LinkInv
<1> QED
  BY <1>7, <1>8

LEMMA LineStep ==
    ASSUME ReceiversInv, NEW l \in Links, HandleLine(l)
    PROVE  LinksNext
<1> DEFINE P == PartsOf(l)
           b == buf[l]
           w == wire[l]
           end == FirstNewline(b)
           text == SubSeq(b, 1, end - 1)
           kind == TcpKind(l, text)
           n == Stream(l)[1][1]
<1>1. l \in Connections /\ l \in Streamed /\ l \notin {"udp", "can", "uart"} /\ end > 0
  BY ConnectionsAssumption DEF HandleLine, HasLine, Streamed, Processes
<1>2. PICK ending \in Endings(TcpOutcome, kind, "die") :
        /\ Store(l, text[1][1], "whole", ending)
        /\ disturbed' = disturbed \cup Failing(l, kind, ending)
        /\ IF ending = "die" THEN EndThread(l)
           ELSE buf' = [buf EXCEPT ![l] = AfterLine(@)] /\ UNCHANGED <<wire, link>>
  BY DEF HandleLine
<1>3. sent' = sent
  BY DEF HandleLine
<1>4. /\ Typed(l) /\ LinkInv(l) /\ rows \in Seq(Range(rows)) /\ sent[l] \in Seq(Kinds(l))
      /\ Framed(l)
  BY DEF ReceiversInv, LinkInv, Typed
<1>5. b \in Seq(P) /\ w \in Seq(P)
  BY <1>4 DEF Typed
<1> HIDE DEF P, b, w
<1>6. /\ end \in 1 .. Len(b) /\ b[end] = Newline
      /\ \A i \in 1 .. (end - 1) : b[i] # Newline
  BY <1>1, <1>5, NewlineFound
<1> HIDE DEF end
<1>7. /\ Len(b) \in Nat /\ end \in Nat /\ Stream(l) = b \o w /\ Len(Stream(l)) \in Nat
      /\ Len(b) <= Len(Stream(l)) /\ \A i \in 1 .. Len(b) : Stream(l)[i] = b[i]
  <2>1. Stream(l) = b \o w
    BY DEF Stream, b, w
  <2>2. /\ Len(b \o w) = Len(b) + Len(w) /\ Len(b) \in Nat /\ Len(w) \in Nat
        /\ \A i \in 1 .. Len(b) : (b \o w)[i] = b[i]
    BY <1>5, Concatenation
  <2> QED
    BY <1>6, <2>1, <2>2
<1>8. Len(text) = end - 1 /\ \A i \in 1 .. (end - 1) : text[i] = b[i]
  BY <1>5, <1>6
<1>9. end \in 1 .. Len(Stream(l)) /\ Stream(l)[end] = Newline
      /\ \A i \in 1 .. (end - 1) : Stream(l)[i] # Newline
  BY <1>6, <1>7
<1> HIDE DEF text
<1>10. text \in Whole(l) =>
         /\ end = 4 /\ n \in DOMAIN sent[l] /\ kind = sent[l][n] /\ text[1][1] = n
         /\ Stream(l)[1] = <<n, 1>> /\ Stream(l)[3] = <<n, 3>>
  <2> SUFFICES ASSUME text \in Whole(l)
               PROVE  /\ end = 4 /\ n \in DOMAIN sent[l] /\ kind = sent[l][n] /\ text[1][1] = n
                      /\ Stream(l)[1] = <<n, 1>> /\ Stream(l)[3] = <<n, 3>>
    OBVIOUS
  <2>1. PICK a \in DOMAIN sent[l] : /\ Len(text) = 3
                                    /\ text[1] = <<a, 1>> /\ text[2] = <<a, 2>> /\ text[3] = <<a, 3>>
    BY LineTexts
  <2>2. end = 4
    <3>1. end - 1 = 3
      BY <1>8, <2>1
    <3> QED
      BY <1>7, <3>1
  <2>3. Stream(l)[1] = text[1] /\ Stream(l)[3] = text[3]
    BY <1>6, <1>7, <1>8, <2>2
  <2>4. n = a /\ text[1][1] = n
    BY <2>1, <2>3
  <2>5. kind = sent[l][n]
    BY <2>4 DEF TcpKind
  <2> HIDE DEF n
  <2> QED
    BY <2>1, <2>2, <2>3, <2>4, <2>5
<1>11. text \notin Whole(l) => kind = "malformed"
  BY DEF TcpKind
<1>12. l \notin disturbed => text \in Whole(l)
  <2> SUFFICES ASSUME l \notin disturbed PROVE text \in Whole(l)
    OBVIOUS
  <2>1. Linked(Stream(l)) /\ FromStart(Stream(l)) /\ Stream(l) \in Seq(PartsOf(l))
    BY <1>1, <1>4, StreamParts DEF Framed
  <2>2. /\ end = 4 /\ Stream(l)[1] = <<n, 1>> /\ Stream(l)[2] = <<n, 2>>
        /\ Stream(l)[3] = <<n, 3>> /\ n \in DOMAIN sent[l]
    BY <1>4, <1>9, <2>1, FirstLine
  <2> HIDE DEF n
  <2>3. Len(text) = 3 /\ text[1] = <<n, 1>> /\ text[2] = <<n, 2>> /\ text[3] = <<n, 3>>
    BY <1>6, <1>7, <1>8, <2>2
  <2>4. text \in Seq(P)
    BY <1>5, <1>6, Prefix DEF text
  <2>5. text = <<<<n, 1>>, <<n, 2>>, <<n, 3>>>>
    <3> DEFINE x == <<n, 1>>
               y == <<n, 2>>
               z == <<n, 3>>
    <3>1. Len(text) = 3 /\ text[1] = x /\ text[2] = y /\ text[3] = z
      BY <2>3
    <3> HIDE DEF x, y, z
    <3>2. text = <<x, y, z>>
      BY <2>4, <3>1
    <3> QED
      BY <3>2 DEF x, y, z
  <2> QED
    BY <2>2, <2>5 DEF Whole, Line
<1> HIDE DEF n
<1>13. /\ ending = "store" => kind = "ok"
       /\ kind = "ok" => ending \in {"store", "die"}
       /\ ending = "die" => kind \in {"ok", "null"}
  <2>1. kind \in {"ok", "unknown", "malformed", "null", "blank"} /\ TcpOutcome # CanOutcome
    <3>1. \A a \in DOMAIN sent[l] : sent[l][a] \in Kinds(l)
      BY <1>4
    <3> QED
      BY <1>10, <1>11, <3>1 DEF Kinds, TcpOutcome, CanOutcome
  <2> HIDE DEF kind
  <2> QED
    BY <1>2, <2>1, EndingOf
<1> HIDE DEF kind
<1>14. CASE ending = "die"
  <2>1. /\ rows' = rows /\ disturbed' = disturbed \cup Failing(l, kind, ending)
        /\ link' = [link EXCEPT ![l] = "closed"] /\ wire' = [wire EXCEPT ![l] = <<>>]
        /\ buf' = [buf EXCEPT ![l] = <<>>]
    BY <1>2, <1>14, StoreRows DEF EndThread
  <2>2. /\ wire'[l] = <<>> /\ buf'[l] = <<>> /\ sent'[l] \in Seq(Kinds(l))
        /\ link'[l] = "closed"
    BY <1>3, <1>4, <2>1 DEF ReceiversInv
  <2>3. /\ Framed(l)' /\ Typed(l)' /\ Stream(l)' = <<>> /\ Thins(Stream(l)', Stream(l))
    BY <2>2, NothingLeft
  <2>4. ASSUME l \notin disturbed' PROVE Killed(l)
    <3>1. l \notin disturbed /\ kind = "null"
      BY <1>13, <1>14, <2>1, <2>4 DEF Failing
    <3>2. n \in DOMAIN sent[l] /\ sent[l][n] = "null" /\ Stream(l)[1] = <<n, 1>>
      BY <1>10, <1>12, <3>1
    <3>3. Stream(l)[1] # Newline /\ n = Stream(l)[1][1]
      BY <3>2 DEF Newline
    <3>4. l # "mqtt" /\ Stream(l) # <<>>
      BY <1>1, <1>9, ConnectionsAssumption DEF Processes
    <3> QED
      BY <3>2, <3>3, <3>4 DEF Killed
  <2>5. LinkInv(l)'
    <3>1. sent'[l] = sent[l] /\ StillDisturbed(l)
      BY <1>3, <2>1 DEF StillDisturbed
    <3> QED
      BY <1>4, <2>1, <2>3, <2>4, <3>1, KilledOverLink
  <2>6. ASSUME NEW q \in Links, q # l PROVE Untouched(q)
    BY <1>3, <2>1, <2>6 DEF ReceiversInv, Untouched, RowsKept, StillDisturbed
  <2>7. DOMAIN sent' = Links /\ DOMAIN wire' = Links /\ DOMAIN buf' = Links /\ DOMAIN link' = Links
    BY <1>3, <2>1 DEF ReceiversInv
  <2> QED
    BY <2>5, <2>6, <2>7, OneLink DEF LinksNext
<1>15. CASE ending # "die"
  <2>1. /\ buf' = [buf EXCEPT ![l] = AfterLine(@)] /\ UNCHANGED <<wire, link>>
        /\ disturbed' = disturbed \cup Failing(l, kind, ending)
    BY <1>2, <1>15
  <2>2. buf'[l] = From(b, end + 1) /\ wire'[l] = w
    BY <2>1 DEF ReceiversInv, AfterLine, b, w, end
  <2>3. end \in 0 .. Len(b)
    BY <1>6
  <2>4. Stream(l)' = From(Stream(l), end + 1)
    <3>1. From(b, end + 1) \o w = From(b \o w, end + 1)
      BY <1>5, <2>3, CutFront
    <3>2. Stream(l)' = From(b, end + 1) \o w
      BY <2>2 DEF Stream
    <3> QED
      BY <1>7, <3>1, <3>2
  <2>5. Typed(l)'
    <3>1. Kinds(l)' = Kinds(l) /\ PartsOf(l)' = P
      BY <1>3 DEF Kinds, PartsOf, P
    <3>2. From(b, end + 1) \in Seq(P)
      BY <1>5, <2>3, Suffix
    <3>3. link'[l] \in {"none", "open", "closing", "closed"} /\ link'[l] \notin {"none", "closed"}
      <4>1. b # <<>>
        BY <1>6
      <4> QED
        BY <1>1, <1>4, <2>1, <4>1 DEF Typed, b
    <3>4. sent'[l] \in Seq(Kinds(l)') /\ wire'[l] \in Seq(PartsOf(l)') /\ buf'[l] \in Seq(PartsOf(l)')
      BY <1>3, <1>4, <1>5, <2>2, <3>1, <3>2
    <3>5. l \notin {"udp", "can", "uart"}
      BY <1>1, ConnectionsAssumption DEF Processes
    <3> QED
      BY <3>3, <3>4, <3>5 DEF Typed
  <2>6. TakenFrom(l, end)
    BY <1>3, <1>9, <2>1, <2>4, <2>5 DEF TakenFrom, StillDisturbed
  <2>7. end \in 1 .. end /\ ~ (end < end) /\ n = Stream(l)[1][1]
    BY <1>6 DEF n
  <2>8. LinkInv(l)'
    <3>1. ASSUME ending = "store" PROVE LinkInv(l)'
      <4>1. text \in Whole(l)
        BY <1>11, <1>13, <3>1
      <4>2. /\ end = 4 /\ n \in Good(l) /\ text[1][1] = n
            /\ Stream(l)[1] = <<n, 1>> /\ Stream(l)[3] = <<n, 3>>
        BY <1>10, <1>13, <3>1, <4>1 DEF Good
      <4>3. RowsTaken(l, n)
        BY <1>2, <3>1, <4>2, StoreRows
      <4>4. 3 \in 1 .. end
        BY <4>2
      <4>5. \E m \in 1 .. end : Stream(l)[m] = <<n, m>> /\ (m = 3 \/ (l = "uart" /\ m = 2))
        BY <4>2, <4>4
      <4> QED
        BY <1>1, <1>4, <1>9, <2>6, <2>7, <4>2, <4>3, <4>5, LineTaken
    <3>2. ASSUME ending # "store" PROVE LinkInv(l)'
      <4>1. RowsKept(l)
        BY <1>2, <3>2, StoreRows DEF RowsKept
      <4>2. l \notin disturbed' => n \notin Good(l)
        BY <1>10, <1>12, <1>13, <1>15, <2>1, <3>2 DEF Good, Failing
      <4> QED
        BY <1>1, <1>4, <1>9, <2>6, <2>7, <4>1, <4>2, LineTaken
    <3> QED
      BY <3>1, <3>2
  <2>9. ASSUME NEW q \in Links, q # l PROVE Untouched(q)
    <3>1. RowsKept(q)
      BY <1>2, <2>9, StoreRows
    <3> QED
      BY <1>3, <2>1, <2>9, <3>1 DEF ReceiversInv, Untouched, StillDisturbed
  <2>10. DOMAIN sent' = Links /\ DOMAIN wire' = Links /\ DOMAIN buf' = Links /\ DOMAIN link' = Links
    BY <1>3, <2>1 DEF ReceiversInv
  <2> QED
    BY <2>8, <2>9, <2>10, OneLink DEF LinksNext
<1> QED
  BY <1>14, <1>15

LEMMA ReadLineStep ==
    ASSUME ReceiversInv, NEW k \in DOMAIN wire["uart"], ReadLine(k)
    PROVE  LinksNext
<1> DEFINE l == "uart"
           P == PartsOf(l)
           w == wire[l]
           end == FirstNewline(w)
           text == SubSeq(w, 1, IF k = end THEN k - 1 ELSE k)
           kind == UartKind(text)
           unit == IF Len(text) = 3 THEN "whole" ELSE "cut"
           n == Stream(l)[1][1]
<1>1. /\ l \in Links /\ l \in Streamed /\ l \notin Connections /\ l \in {"udp", "can", "uart"}
      /\ l \in Processes
  BY ConnectionsAssumption DEF Links, Processes, Streamed
<1>2. PICK ending \in Endings(UartOutcome, kind, "die") :
        /\ Store(l, text[1][1], unit, ending)
        /\ disturbed' = disturbed \cup Failing(l, kind, ending) \cup (IF k < end THEN {l} ELSE {})
        /\ IF ending = "die" THEN Down(l)
           ELSE wire' = [wire EXCEPT ![l] = From(@, k + 1)] /\ UNCHANGED <<sent, buf, link>>
  BY DEF ReadLine
<1>3. k \in 1 .. end
  BY DEF ReadLine
<1>4. /\ Typed(l) /\ LinkInv(l) /\ rows \in Seq(Range(rows)) /\ sent[l] \in Seq(Kinds(l))
      /\ Framed(l)
  BY <1>1 DEF ReceiversInv, LinkInv, Typed
<1>5. w \in Seq(P) /\ Stream(l) = w
  BY <1>1, <1>4, Unbuffered
<1> HIDE DEF P, w
<1>0. l = "uart"
  OBVIOUS
<1> HIDE DEF l
<1>6. /\ end \in 1 .. Len(w) /\ w[end] = Newline
      /\ \A i \in 1 .. (end - 1) : w[i] # Newline
  <2>1. end > 0
    <3>1. end \in 0 .. Len(w)
      BY <1>5, NewlineFound
    <3> QED
      BY <1>3, <3>1
  <2> QED
    BY <1>5, <2>1, NewlineFound
<1> HIDE DEF end
<1>7. end \in Nat /\ k \in Nat /\ Len(w) \in Nat /\ k \in 1 .. Len(w)
  BY <1>3, <1>5, <1>6
<1> DEFINE q == IF k = end THEN k - 1 ELSE k
<1>8. q \in 0 .. Len(w) /\ Len(text) = q /\ \A i \in 1 .. q : text[i] = w[i]
  <2>1. q \in 0 .. Len(w)
    BY <1>7
  <2> HIDE DEF q
  <2>2. Len(SubSeq(w, 1, q)) = q /\ \A i \in 1 .. q : SubSeq(w, 1, q)[i] = w[i]
    BY <1>5, <2>1, Prefix
  <2> QED
    BY <2>1, <2>2 DEF q
<1>9. /\ end \in 1 .. Len(Stream(l)) /\ Stream(l)[end] = Newline
      /\ \A i \in 1 .. (end - 1) : Stream(l)[i] # Newline
  BY <1>5, <1>6
<1> HIDE DEF text
\* A unit cut short where the line ends would have to be followed by its end.
<1>10. text \in Whole(l) \cup CutInUnit(l) =>
         /\ n \in DOMAIN sent[l] /\ kind = sent[l][n] /\ text[1][1] = n /\ Stream(l)[1] = <<n, 1>>
         /\ \E m \in 1 .. k : Stream(l)[m] = <<n, m>> /\ (m = 3 \/ (l = "uart" /\ m = 2))
         /\ unit = "cut" => k < end
  <2> SUFFICES ASSUME text \in Whole(l) \cup CutInUnit(l)
               PROVE  /\ n \in DOMAIN sent[l] /\ kind = sent[l][n] /\ text[1][1] = n
                      /\ Stream(l)[1] = <<n, 1>>
                      /\ \E m \in 1 .. k : Stream(l)[m] = <<n, m>> /\ (m = 3 \/ (l = "uart" /\ m = 2))
                      /\ unit = "cut" => k < end
    OBVIOUS
  <2>1. PICK a \in DOMAIN sent[l] :
          /\ Len(text) \in {2, 3} /\ text[1] = <<a, 1>> /\ text[2] = <<a, 2>>
          /\ Len(text) = 3 => text[3] = <<a, 3>>
    BY LineTexts
  <2>2. q \in {2, 3} /\ q <= k
    BY <1>7, <1>8, <2>1
  <2>3. /\ w[1] = text[1] /\ w[2] = text[2]
        /\ q = 3 => w[3] = text[3]
    BY <1>8, <2>2
  <2>4. n = a /\ text[1][1] = n /\ Stream(l)[1] = <<n, 1>> /\ n \in DOMAIN sent[l]
    BY <1>5, <2>1, <2>3
  <2>5. kind = sent[l][n]
    BY <1>0, <2>4 DEF UartKind
  <2> HIDE DEF n
  <2>6. q \in 1 .. k /\ Stream(l)[q] = <<n, q>> /\ (q = 3 \/ q = 2)
    <3>1. q \in 1 .. k
      BY <1>7, <2>2
    <3>2. w[2] = <<n, 2>> /\ (q = 3 => w[3] = <<n, 3>>)
      BY <1>8, <2>1, <2>3, <2>4
    <3> HIDE DEF q
    <3> QED
      BY <1>5, <2>2, <3>1, <3>2
  <2>7. ASSUME unit = "cut" PROVE k < end
    <3>1. Len(text) = 2 /\ q = 2
      BY <1>8, <2>1, <2>7
    <3>2. k # end
      <4> SUFFICES ASSUME k = end PROVE FALSE
        OBVIOUS
      <4>1. end = 3
        BY <1>7, <3>1
      <4>2. Linked(w) /\ w[2] = <<n, 2>> /\ w[3] = Newline /\ 2 \in 1 .. Len(w) /\ 2 < Len(w)
        BY <1>1, <1>4, <1>5, <1>6, <1>7, <2>1, <2>3, <2>4, <4>1 DEF Framed
      <4>3. Follows(w[2], w[2 + 1])
        BY <4>2 DEF Linked
      <4> QED
        BY <4>2, <4>3 DEF Follows, Newline
    <3> QED
      BY <1>3, <1>7, <3>2
  <2> HIDE DEF q, unit
  <2> QED
    BY <1>0, <2>4, <2>5, <2>6, <2>7
<1>11. text \notin Whole(l) \cup CutInUnit(l) => kind = "malformed"
  BY <1>0 DEF UartKind
<1>12. l \notin disturbed /\ k = end => text \in Whole(l)
  <2> SUFFICES ASSUME l \notin disturbed, k = end PROVE text \in Whole(l)
    OBVIOUS
  <2>1. Linked(Stream(l)) /\ FromStart(Stream(l)) /\ Stream(l) \in Seq(PartsOf(l))
    BY <1>1, <1>4, StreamParts DEF Framed
  <2>2. /\ end = 4 /\ Stream(l)[1] = <<n, 1>> /\ Stream(l)[2] = <<n, 2>>
        /\ Stream(l)[3] = <<n, 3>> /\ n \in DOMAIN sent[l]
    BY <1>4, <1>9, <2>1, FirstLine
  <2> HIDE DEF n
  <2>3. Len(text) = 3 /\ text[1] = <<n, 1>> /\ text[2] = <<n, 2>> /\ text[3] = <<n, 3>>
    <3>1. q = 3
      BY <2>2
    <3> HIDE DEF q
    <3> QED
      BY <1>5, <1>8, <2>2, <3>1
  <2>4. text \in Seq(P)
    <3>1. text = SubSeq(w, 1, q)
      BY DEF text
    <3> HIDE DEF q
    <3> QED
      BY <1>5, <1>8, <3>1, Prefix
  <2>5. text = <<<<n, 1>>, <<n, 2>>, <<n, 3>>>>
    <3> DEFINE x == <<n, 1>>
               y == <<n, 2>>
               z == <<n, 3>>
    <3>1. Len(text) = 3 /\ text[1] = x /\ text[2] = y /\ text[3] = z
      BY <2>3
    <3> HIDE DEF x, y, z
    <3>2. text = <<x, y, z>>
      BY <2>4, <3>1
    <3> QED
      BY <3>2 DEF x, y, z
  <2> QED
    BY <2>2, <2>5 DEF Whole, Line
<1>20. n = Stream(l)[1][1]
  OBVIOUS
<1> HIDE DEF n, q, unit
<1>13. /\ ending = "store" => kind = "ok"
       /\ kind = "ok" => ending \in {"store", "die"}
       /\ ending = "die" => kind \in {"ok", "null"}
  <2>1. kind \in {"ok", "unknown", "malformed", "null"} /\ UartOutcome # CanOutcome
    <3>1. \A a \in DOMAIN sent[l] : sent[l][a] \in Kinds(l)
      BY <1>4
    <3> QED
      BY <1>1, <1>10, <1>11, <3>1 DEF Kinds, UartOutcome, CanOutcome
  <2> HIDE DEF kind
  <2> QED
    BY <1>2, <2>1, EndingOf
<1> HIDE DEF kind
<1>14. CASE ending = "die"
  <2>1. rows' = rows /\ Down(l) /\ disturbed \subseteq disturbed'
    BY <1>2, <1>14, StoreRows
  <2>2. \A r \in Links : Process(r) = l => r = l
    BY <1>0, <1>1 DEF Process
  <2>3. ASSUME l \notin disturbed' PROVE Killed(l)
    <3>1. l \notin disturbed /\ kind = "null" /\ k = end
      BY <1>2, <1>3, <1>7, <1>13, <1>14, <2>3 DEF Failing
    <3>2. sent[l][n] = "null" /\ Stream(l)[1] = <<n, 1>>
      BY <1>10, <1>12, <3>1
    <3>3. Stream(l)[1] # Newline /\ Stream(l) # <<>> /\ l # "mqtt"
      BY <1>0, <1>9, <3>2 DEF Newline
    <3> QED
      BY <1>20, <3>2, <3>3 DEF Killed
  <2> QED
    BY <1>1, <2>1, <2>2, <2>3, GoingDown
<1>15. CASE ending # "die"
  <2>1. /\ wire' = [wire EXCEPT ![l] = From(@, k + 1)] /\ UNCHANGED <<sent, buf, link>>
        /\ disturbed' = disturbed \cup Failing(l, kind, ending) \cup (IF k < end THEN {l} ELSE {})
    BY <1>2, <1>15
  <2>2. wire'[l] = From(w, k + 1) /\ StillDisturbed(l) /\ (k < end => l \in disturbed')
    BY <1>1, <2>1 DEF ReceiversInv, w, StillDisturbed
  <2>3. From(w, k + 1) \in Seq(P)
    <3>1. k \in 0 .. Len(w)
      BY <1>7
    <3> QED
      BY <1>5, <3>1, Suffix
  <2>4. Typed(l)' /\ Stream(l)' = From(w, k + 1)
    BY <1>1, <1>4, <2>1, <2>2, <2>3, UnbufferedNext DEF P
  <2>5. TakenFrom(l, k)
    BY <1>1, <1>5, <1>7, <2>1, <2>2, <2>4 DEF TakenFrom
  <2>8. LinkInv(l)'
    <3>1. ASSUME ending = "store" PROVE LinkInv(l)'
      <4>1. text \in Whole(l) \cup CutInUnit(l) /\ kind = "ok"
        BY <1>11, <1>13, <3>1
      <4>2. /\ n \in Good(l) /\ text[1][1] = n /\ Stream(l)[1] = <<n, 1>>
            /\ \E m \in 1 .. k : Stream(l)[m] = <<n, m>> /\ (m = 3 \/ (l = "uart" /\ m = 2))
            /\ unit = "cut" => l \in disturbed'
        BY <1>10, <2>2, <4>1 DEF Good
      <4>3. RowsTaken(l, n)
        BY <1>0, <1>2, <3>1, <4>2, StoreRows
      <4> QED
        BY <1>1, <1>3, <1>4, <1>9, <1>20, <2>2, <2>5, <4>2, <4>3, LineTaken
    <3>2. ASSUME ending # "store" PROVE LinkInv(l)'
      <4>1. RowsKept(l)
        BY <1>2, <3>2, StoreRows DEF RowsKept
      <4>2. ASSUME l \notin disturbed' PROVE n \notin Good(l)
        <5>1. l \notin disturbed /\ k = end
          BY <1>3, <1>7, <2>1, <2>2, <4>2 DEF StillDisturbed
        <5> QED
          BY <1>10, <1>12, <1>13, <1>15, <3>2, <5>1 DEF Good
      <4> QED
        BY <1>1, <1>3, <1>4, <1>9, <1>20, <2>2, <2>5, <4>1, <4>2, LineTaken
    <3> QED
      BY <3>1, <3>2
  <2>9. ASSUME NEW r \in Links, r # l PROVE Untouched(r)
    <3>1. RowsKept(r)
      BY <1>2, <2>9, StoreRows
    <3> QED
      BY <2>1, <2>9, <3>1 DEF ReceiversInv, Untouched, StillDisturbed
  <2>10. DOMAIN sent' = Links /\ DOMAIN wire' = Links /\ DOMAIN buf' = Links /\ DOMAIN link' = Links
    BY <2>1 DEF ReceiversInv
  <2> QED
    BY <1>1, <2>8, <2>9, <2>10, OneLink DEF LinksNext
<1> QED
  BY <1>14, <1>15

-----------------------------------------------------------------------------
LEMMA ReceiversInit == TInit => ReceiversInv
<1> SUFFICES ASSUME TInit PROVE ReceiversInv
  OBVIOUS
<1>1. PICK s \in Starts : on = s.on /\ rows = s.rows
  BY DEF TInit, Init
<1>2. /\ on \subseteq Links /\ rows \in Seq(Range(rows))
      /\ \A i \in DOMAIN rows : rows[i].from \notin Links
  BY <1>1, StartsAssumption
<1>3. /\ sent = [l \in Links |-> <<>>] /\ wire = [l \in Links |-> <<>>]
      /\ buf = [l \in Links |-> <<>>]
      /\ link = [l \in Links |-> IF l \in Connections THEN "none" ELSE "open"]
  BY DEF TInit, Init
<1>4. ASSUME NEW l \in Links PROVE LinkInv(l)
  <2>1. sent[l] = <<>> /\ wire[l] = <<>> /\ buf[l] = <<>> /\ Stream(l) = <<>>
    BY <1>3 DEF Stream
  <2>2. Len(Stream(l)) = 0 /\ DOMAIN sent[l] = {}
    BY <2>1
  <2>3. \A i \in 1 .. Len(rows) : rows[i].from # l
    BY <1>2
  <2>4. Typed(l)
    BY <1>3, <2>1 DEF Typed
  <2>5. Ordering(l) /\ RowsOf(l)
    BY <2>2, <2>3 DEF Ordering, Ordered, Fresh, RowsOf
  <2>6. Framed(l) /\ Kept(l)
    BY <2>1, <2>2 DEF Framed, Linked, Complete, FromStart, Kept, Good, Expected
  <2> QED
    BY <2>4, <2>5, <2>6 DEF LinkInv
<1> QED
  BY <1>2, <1>3, <1>4 DEF ReceiversInv

LEMMA LinksInUse == RNext => on' = on
<1> SUFFICES ASSUME RNext PROVE on' = on
  OBVIOUS
<1>1. ASSUME NEW l \in on, Serve(l) PROVE on' = on
  BY <1>1 DEF Serve, Recv, HandleLine, Finish, ReceiveDatagram, ReceiveFrame, ReadLine,
              Forward, OnMessage, OnConnect
<1>2. ASSUME \/ \E l \in Connections : \E kind \in Kinds(l) : SendLine(l, kind)
             \/ \E kind \in Kinds("uart") : SendSerial(kind)
             \/ \E kind \in Kinds("udp"), copies \in 0 .. 2 : SendDatagram(kind, copies)
             \/ \E kind \in Kinds("can") : SendFrame(kind)
             \/ \E kind \in Kinds("mqtt") : Publish(kind)
      PROVE  on' = on
  BY <1>2 DEF SendLine, SendSerial, SendDatagram, SendFrame, Publish, Send
<1>3. ASSUME \/ \E l \in Connections : Connect(l) \/ HangUp(l) \/ Break(l)
             \/ BreakPublisher
             \/ \E p \in Processes : Crash(p) \/ Start(p)
      PROVE  on' = on
  BY <1>3 DEF Connect, HangUp, Break, BreakPublisher, Crash, Start
<1> QED
  BY <1>1, <1>2, <1>3 DEF RNext

LEMMA ReceiversRNext ==
    ASSUME ReceiversInv, RNext
    PROVE  ReceiversInv'
<1>1. on' = on
  BY LinksInUse
<1>2. rows' \in Seq(Range(rows'))
  BY RNextGrows, GrownTable DEF ReceiversInv
<1>3. LinksNext
  <2>1. ASSUME NEW l \in on, Serve(l) PROVE LinksNext
    <3>1. l \in Links
      BY DEF ReceiversInv
    <3>2. ASSUME NEW k \in 1 .. Len(wire[l]), Recv(l, k) PROVE LinksNext
      BY <3>1, <3>2, Receiving
    <3>3. CASE HandleLine(l)
      BY <3>1, <3>3, LineStep
    <3>4. CASE Finish(l)
      BY <3>1, <3>4, Finishing
    <3>5. ASSUME NEW i \in DOMAIN wire["udp"], ReceiveDatagram(i) PROVE LinksNext
      BY <3>5, DatagramStep
    <3>6. CASE ReceiveFrame
      BY <3>6, FrameStep
    <3>7. ASSUME NEW k \in DOMAIN wire["uart"], ReadLine(k) PROVE LinksNext
      BY <3>7, ReadLineStep
    <3>8. CASE Forward
      BY <3>8, Forwarding
    <3>9. CASE OnMessage
      BY <3>9, OnMessageStep
    <3>10. CASE OnConnect
      BY <3>10, Starting DEF OnConnect
    <3> QED
      BY <2>1, <3>2, <3>3, <3>4, <3>5, <3>6, <3>7, <3>8, <3>9, <3>10 DEF Serve
  <2>2. ASSUME NEW l \in Connections, Connect(l) \/ HangUp(l) PROVE LinksNext
    BY <2>2, Connecting
  <2>3. ASSUME NEW l \in Connections, Break(l) PROVE LinksNext
    BY <2>3, Breaking
  <2>4. CASE BreakPublisher
    BY <2>4, PublisherBreaking
  <2>5. ASSUME NEW p \in Processes, Crash(p) PROVE LinksNext
    <3>1. Down(p) /\ rows' = rows /\ disturbed \subseteq disturbed'
      BY <2>5 DEF Crash
    <3>2. ASSUME NEW q \in Links, Process(q) = p
          PROVE  q \in disturbed' \/ Unmade(q)
      BY <2>5, <3>2 DEF Crash
    <3> QED
      BY <3>1, <3>2, GoingDown
  <2>6. ASSUME NEW p \in Processes, Start(p) PROVE LinksNext
    BY <2>6, Starting DEF Start
  <2> QED
    BY <2>1, <2>2, <2>3, <2>4, <2>5, <2>6, Sending DEF RNext
<1> QED
  BY <1>1, <1>2, <1>3 DEF ReceiversInv, LinksNext

LEMMA ReceiversNext == ReceiversInv /\ [Next]_vars => ReceiversInv'
<1> SUFFICES ASSUME ReceiversInv, [Next]_vars PROVE ReceiversInv'
  OBVIOUS
<1>1. CASE RNext
  BY <1>1, ReceiversRNext
<1>2. ASSUME UNCHANGED rvars PROVE ReceiversInv'
  <2>1. LinksNext
    BY <1>2, Starting DEF rvars, network
  <2> QED
    BY <1>2, <2>1 DEF ReceiversInv, LinksNext, rvars
<1> QED
  BY <1>1, <1>2 DEF Next, Request, vars

LEMMA ReceiversHold == TInit /\ [][Next]_vars => []ReceiversInv
BY ReceiversInit, ReceiversNext, PTL

(* What the receivers store is what was sent: good readings of existing     *)
(* sensors only, each once and, of one connection or one other link, in the *)
(* order they were sent, through breaks, crashes and restarts, lines cut    *)
(* into chunks, lost and cut messages; only the network may double or       *)
(* reorder datagrams, and only a stalled serial line leaves a unit short.   *)
THEOREM StoredCorrect == TInit /\ [][Next]_vars => []StoredAsSent
<1>1. ReceiversInv => StoredAsSent
  <2> SUFFICES ASSUME ReceiversInv, NEW i \in DOMAIN rows, rows[i].from \in Links
               PROVE  /\ rows[i].value \in Good(rows[i].from)
                      /\ rows[i].unit = "cut" => rows[i].from = "uart" /\ "uart" \in disturbed
                      /\ \A j \in 1 .. (i - 1) :
                           rows[j].from = rows[i].from /\ rows[j].value >= rows[i].value =>
                             rows[i].from = "udp" /\ "udp" \in disturbed
    BY DEF StoredAsSent
  <2> DEFINE l == rows[i].from
  <2>1. RowsOf(l) /\ Typed(l) /\ rows \in Seq(Range(rows))
    BY DEF ReceiversInv, LinkInv
  <2>2. i \in 1 .. Len(rows) /\ Len(rows) \in Nat
    BY <2>1
  <2>3. /\ rows[i].value \in Good(l)
        /\ rows[i].unit = "cut" => l = "uart" /\ l \in disturbed
    BY <2>1, <2>2 DEF RowsOf
  <2>4. ASSUME NEW j \in 1 .. (i - 1), rows[j].from = l, rows[j].value >= rows[i].value
        PROVE  l = "udp" /\ "udp" \in disturbed
    <3>1. j \in 1 .. Len(rows)
      BY <2>2
    <3>2. rows[i].value \in Nat /\ rows[j].value \in Nat
      <4>1. rows[i].value \in Good(l) /\ rows[j].value \in Good(l)
        BY <2>1, <2>2, <2>4, <3>1 DEF RowsOf
      <4>2. Good(l) \subseteq Nat
        BY <2>1 DEF Good, Typed
      <4> QED
        BY <4>1, <4>2
    <3>3. ~ (rows[j].value < rows[i].value)
      BY <2>4, <3>2
    <3>4. ~ InOrder(l)
      BY <2>1, <2>2, <2>4, <3>3 DEF RowsOf
    <3> QED
      BY <3>4 DEF InOrder
  <2> QED
    BY <2>3, <2>4
<1> QED
  BY <1>1, ReceiversHold, PTL

(* A receiver loses a good reading only to a value that is no number: over  *)
(* a link that neither the network nor a crash nor a failed commit has      *)
(* disturbed, each good reading that no such value came before is stored or *)
(* on its way, however the stream was cut into chunks and however many bad, *)
(* blank and unknown messages came before it.                               *)
THEOREM NothingLostCorrect == TInit /\ [][Next]_vars => []NothingLostUndisturbed
<1>1. ReceiversInv => NothingLostUndisturbed
  <2> SUFFICES ASSUME ReceiversInv, NEW l \in on, l \notin disturbed, NEW n \in Expected(l),
                      n \notin StoredOver(l)
               PROVE  OnItsWay(l, n)
    BY DEF NothingLostUndisturbed
  <2> DEFINE b == buf[l]
             w == wire[l]
  <2>1. Kept(l) /\ Typed(l) /\ rows \in Seq(Range(rows))
    BY DEF ReceiversInv, LinkInv
  <2>2. ~ \E i \in 1 .. Len(rows) : rows[i].from = l /\ rows[i].value = n
    BY <2>1 DEF StoredOver
  <2>3. PICK j \in 1 .. Len(b \o w) : (b \o w)[j][1] = n
    BY <2>1, <2>2 DEF Kept, Stream
  <2>4. b \in Seq(PartsOf(l)) /\ w \in Seq(PartsOf(l))
    BY <2>1 DEF Typed
  <2> HIDE DEF b, w
  <2>5. /\ Len(b \o w) = Len(b) + Len(w) /\ Len(b) \in Nat /\ Len(w) \in Nat
        /\ \A i \in 1 .. Len(b) : (b \o w)[i] = b[i]
        /\ \A i \in (Len(b) + 1) .. (Len(b) + Len(w)) : (b \o w)[i] = w[i - Len(b)]
    BY <2>4, Concatenation
  <2>6. CASE j <= Len(b)
    <3>1. j \in DOMAIN b /\ b[j][1] = n
      BY <2>3, <2>4, <2>5, <2>6
    <3> QED
      BY <3>1 DEF OnItsWay, Range, b
  <2>7. CASE j > Len(b)
    <3>1. j - Len(b) \in 1 .. Len(w) /\ j \in (Len(b) + 1) .. (Len(b) + Len(w))
      BY <2>5, <2>7
    <3>2. j - Len(b) \in DOMAIN w /\ w[j - Len(b)][1] = n
      BY <2>3, <2>4, <2>5, <3>1
    <3> QED
      BY <3>2 DEF OnItsWay, Range, w
  <2>8. j <= Len(b) \/ j > Len(b)
    BY <2>5
  <2> QED
    BY <2>6, <2>7, <2>8
<1> QED
  BY <1>1, ReceiversHold, PTL

-----------------------------------------------------------------------------
(* The counters of the receivers that have some, and the messages they have *)
(* been through.                                                            *)
Tallied == {"tcp", "udp", "can"}

Counters == [opened : Nat, closed : Nat, active : Nat, received : Nat, errors : Nat]

StoredRows(p) == {i \in DOMAIN rows : i > since[p] /\ Process(rows[i].from) = p}

\* The messages of l that count, and of which nothing is on its way any more.
HandledOver(l) ==
    {n \in DOMAIN sent[l] : /\ sent[l][n] # "blank"
                            /\ \A j \in 1 .. Len(Stream(l)) : Stream(l)[j][1] # n}

HandledBy(p) == UNION {{l} \X HandledOver(l) : l \in LinksOf(p)}

\* A value that is no number was sent over l.
Nulled(l) == \E n \in DOMAIN sent[l] : sent[l][n] = "null"

\* What was sent over l need not all have been counted.
Faulted(l) == l \in disturbed \/ Nulled(l)

Tally(p) ==
    /\ p # "can" => count[p].received = Cardinality(StoredRows(p))
    /\ p = "can" => count[p].received >= Cardinality(StoredRows(p))
    /\ (\A l \in LinksOf(p) : ~ Faulted(l)) =>
         count[p].received + count[p].errors = Cardinality(HandledBy(p))

\* Nothing reaches a process that is down.
Resting(p) ==
    proc[p] = "down" =>
      /\ count[p] = Zero
      /\ p = "tcp" => Served = {}
      /\ p # "tcp" => wire[p] = <<>>

ThreadCounts ==
    /\ count["tcp"].active = Cardinality(Served)
    /\ count["tcp"].active = count["tcp"].opened - count["tcp"].closed

\* The buffered frames came before all that are on the bus.
Frames ==
    /\ recent \in Seq(Nat)
    /\ Len(recent) = IF count["can"].received > BufferSize THEN BufferSize
                                                           ELSE count["can"].received
    /\ \A i, j \in 1 .. Len(recent) : i < j => recent[i] < recent[j]
    /\ \A i \in 1 .. Len(recent) :
         /\ recent[i] <= Len(sent["can"])
         /\ \A j \in 1 .. Len(Stream("can")) : recent[i] < Stream("can")[j][1]

\* BufferHoldsNewest of the frame of one row.
Buffered(frames, n) ==
    \/ \E j \in 1 .. Len(frames) : frames[j] = n
    \/ Len(frames) = BufferSize /\ \A j \in 1 .. Len(frames) : n < frames[j]

NewestRecorded ==
    \A i \in 1 .. Len(rows) : i > since["can"] /\ rows[i].from = "can" => Buffered(recent, rows[i].value)

CountsOf(p) ==
    /\ count[p] \in Counters /\ since[p] \in 0 .. Len(rows)
    /\ Tally(p) /\ Resting(p)
    /\ p = "tcp" => ThreadCounts
    /\ p = "can" => Frames /\ NewestRecorded

CountersInv ==
    /\ DOMAIN proc = Processes /\ DOMAIN count = Processes /\ DOMAIN since = Processes
    /\ \A p \in Tallied : CountsOf(p)

LEMMA TalliedLinks ==
    ASSUME on \subseteq Links
    PROVE  /\ Tallied \subseteq Processes
           /\ \A p : LinksOf(p) \subseteq Links /\ IsFiniteSet(LinksOf(p))
           /\ IsFiniteSet(Served)
           /\ \A l \in Links : Process(l) \in Processes
           /\ \A l \in Links : Process(l) = "tcp" <=> l \in Connections
           /\ \A l \in Links, p \in {"udp", "can", "uart", "mqtt"} : Process(l) = p <=> l = p
<1>1. IsFiniteSet(Links)
  <2>1. IsFiniteSet({"udp", "can", "uart", "mqtt"})
    <3> DEFINE a == {"udp"}
               b == a \cup {"can"}
               c == b \cup {"uart"}
               d == c \cup {"mqtt"}
    <3>1. IsFiniteSet(a)
      BY FS_Singleton
    <3>2. IsFiniteSet(b)
      BY <3>1, FS_AddElement, Zenon
    <3>3. IsFiniteSet(c)
      BY <3>2, FS_AddElement, Zenon
    <3>4. IsFiniteSet(d)
      BY <3>3, FS_AddElement, Zenon
    <3>5. d = {"udp", "can", "uart", "mqtt"}
      OBVIOUS
    <3> QED
      BY <3>4, <3>5
  <2> QED
    BY <2>1, FS_Union, ConnectionsAssumption DEF Links
<1>2. \A p : LinksOf(p) \subseteq Links /\ IsFiniteSet(LinksOf(p))
  <2> TAKE p
  <2>1. LinksOf(p) \subseteq Links
    BY DEF LinksOf
  <2> QED
    BY <1>1, <2>1, FS_Subset
<1>3. IsFiniteSet(Served)
  <2>1. Served \in SUBSET Connections
    BY DEF Served
  <2> QED
    BY <2>1, FS_Subset, ConnectionsAssumption
<1>4. ASSUME NEW l \in Links
      PROVE  /\ Process(l) \in Processes /\ (Process(l) = "tcp" <=> l \in Connections)
             /\ \A p \in {"udp", "can", "uart", "mqtt"} : Process(l) = p <=> l = p
  BY ConnectionsAssumption DEF Links, Processes, Process
<1> QED
  BY <1>2, <1>3, <1>4 DEF Tallied, Processes

LEMMA HandledFinite ==
    ASSUME ReceiversInv
    PROVE  /\ \A l \in Links : IsFiniteSet(HandledOver(l))
           /\ \A p : IsFiniteSet(HandledBy(p))
<1>1. ASSUME NEW l \in Links PROVE IsFiniteSet(HandledOver(l))
  <2>1. sent[l] \in Seq(Kinds(l))
    BY DEF ReceiversInv, LinkInv, Typed
  <2>2. DOMAIN sent[l] = 1 .. Len(sent[l]) /\ Len(sent[l]) \in Nat
    BY <2>1
  <2>3. IsFiniteSet(1 .. Len(sent[l]))
    BY <2>2, FS_Interval
  <2>4. HandledOver(l) \in SUBSET (1 .. Len(sent[l]))
    BY <2>2 DEF HandledOver
  <2> QED
    BY <2>3, <2>4, FS_Subset
<1>2. ASSUME NEW p PROVE IsFiniteSet(HandledBy(p))
  <2> DEFINE pairs(l) == {l} \X HandledOver(l)
             f == [l \in LinksOf(p) |-> pairs(l)]
  <2>1. IsFiniteSet(LinksOf(p)) /\ LinksOf(p) \subseteq Links
    BY TalliedLinks DEF ReceiversInv
  <2>2. \A l \in LinksOf(p) : IsFiniteSet(pairs(l))
    <3> TAKE l \in LinksOf(p)
    <3>1. IsFiniteSet({l}) /\ IsFiniteSet(HandledOver(l))
      BY <1>1, <2>1, FS_Singleton
    <3> QED
      BY <3>1, FS_Product
  <2>3. IsFiniteSet({pairs(l) : l \in LinksOf(p)})
    <3>1. f \in Surjection(LinksOf(p), {pairs(l) : l \in LinksOf(p)})
      BY DEF Surjection
    <3> QED
      BY <2>1, <3>1, FS_Surjection
  <2> HIDE DEF f
  <2>4. \A S \in {pairs(l) : l \in LinksOf(p)} : IsFiniteSet(S)
    BY <2>2
  <2>5. IsFiniteSet(UNION {pairs(l) : l \in LinksOf(p)})
    BY <2>3, <2>4, FS_UNION
  <2> QED
    BY <2>5 DEF HandledBy
<1> QED
  BY <1>1, <1>2

LEMMA StoredFinite ==
    ASSUME rows \in Seq(Range(rows))
    PROVE  \A p : IsFiniteSet(StoredRows(p)) /\ Cardinality(StoredRows(p)) \in Nat
<1> TAKE p
<1>1. StoredRows(p) \in SUBSET (1 .. Len(rows)) /\ Len(rows) \in Nat
  BY DEF StoredRows
<1>2. IsFiniteSet(1 .. Len(rows))
  BY <1>1, FS_Interval
<1> QED
  BY <1>1, <1>2, FS_Subset, FS_CardinalityType

-----------------------------------------------------------------------------
(* What a step may do to the counters of a process and to its links.        *)
StillFaulted(l) == Faulted(l) => Faulted(l)'

\* Nothing that counts is handled over l, or what is sent over it counts no more.
Passed(l) == Faulted(l)' \/ HandledOver(l)' = HandledOver(l)

LEMMA FaultKept ==
    ASSUME NEW l, StillDisturbed(l), sent'[l] = sent[l]
    PROVE  StillFaulted(l)
BY DEF StillDisturbed, StillFaulted, Faulted, Nulled

LEMMA FaultSent ==
    ASSUME NEW l, NEW kind, sent[l] \in Seq(Kinds(l)), StillDisturbed(l),
           sent'[l] = Append(sent[l], kind)
    PROVE  StillFaulted(l)
<1>1. ASSUME Nulled(l) PROVE Nulled(l)'
  <2>1. PICK n \in DOMAIN sent[l] : sent[l][n] = "null"
    BY <1>1 DEF Nulled
  <2>2. n \in DOMAIN sent'[l] /\ sent'[l][n] = sent[l][n]
    BY <2>1
  <2> QED
    BY <2>1, <2>2 DEF Nulled
<1> QED
  BY <1>1 DEF StillDisturbed, StillFaulted, Faulted

TallySame(p) ==
    /\ count'[p].received = count[p].received /\ count'[p].errors = count[p].errors
    /\ since'[p] = since[p]
    /\ rows' = rows \/ \E row : Process(row.from) # p /\ rows' = Append(rows, row)
    /\ \A l \in LinksOf(p) : Passed(l) /\ StillFaulted(l)

\* Message n of l is handled, and counted.
TallyTaken(p, l, n) ==
    /\ l \in LinksOf(p)
    /\ Faulted(l)' \/ (n \notin HandledOver(l) /\ HandledOver(l)' = HandledOver(l) \cup {n})
    /\ \A q \in LinksOf(p) : StillFaulted(q) /\ (q # l => Passed(q))
    /\ since'[p] = since[p]
    /\ \/ /\ count'[p].received = count[p].received + 1 /\ count'[p].errors = count[p].errors
          /\ \/ \E row : Process(row.from) = p /\ rows' = Append(rows, row)
             \/ p = "can" /\ rows' = rows
       \/ /\ count'[p].received = count[p].received /\ count'[p].errors = count[p].errors + 1
          /\ rows' = rows

TallyReset(p) ==
    /\ count'[p] = Zero /\ since'[p] = Len(rows) /\ rows' = rows
    /\ \A l \in LinksOf(p) : Faulted(l)' \/ HandledOver(l)' = {}

TallyStart(p) ==
    /\ count'[p] = Zero /\ count[p] = Zero /\ since'[p] = Len(rows) /\ rows' = rows
    /\ \A l \in LinksOf(p) : Passed(l) /\ StillFaulted(l)

LEMMA StoredNext ==
    ASSUME rows \in Seq(Range(rows)), NEW p, since[p] \in 0 .. Len(rows)
    PROVE  /\ since'[p] = since[p] /\ rows' = rows => StoredRows(p)' = StoredRows(p)
           /\ \A row : since'[p] = since[p] /\ rows' = Append(rows, row) =>
                /\ Process(row.from) # p => StoredRows(p)' = StoredRows(p)
                /\ Process(row.from) = p =>
                     Cardinality(StoredRows(p)') = Cardinality(StoredRows(p)) + 1
           /\ since'[p] = Len(rows) /\ rows' = rows => Cardinality(StoredRows(p)') = 0
<1>1. Len(rows) \in Nat /\ DOMAIN rows = 1 .. Len(rows)
  OBVIOUS
<1>2. since'[p] = since[p] /\ rows' = rows => StoredRows(p)' = StoredRows(p)
  BY DEF StoredRows
<1>3. ASSUME NEW row, since'[p] = since[p], rows' = Append(rows, row)
      PROVE  /\ Process(row.from) # p => StoredRows(p)' = StoredRows(p)
             /\ Process(row.from) = p =>
                  Cardinality(StoredRows(p)') = Cardinality(StoredRows(p)) + 1
  <2> DEFINE m == Len(rows) + 1
  <2>1. /\ DOMAIN rows' = 1 .. m /\ rows'[m] = row
        /\ \A i \in 1 .. Len(rows) : rows'[i] = rows[i]
    BY <1>1, <1>3
  <2>2. m \in 1 .. m /\ m \notin 1 .. Len(rows) /\ m > since[p]
    BY <1>1
  <2>3. \A i \in 1 .. m : i = m \/ i \in 1 .. Len(rows)
    BY <1>1
  <2>4. 1 .. Len(rows) \subseteq 1 .. m
    BY <1>1
  <2> HIDE DEF m
  <2>5. Process(row.from) # p => StoredRows(p)' = StoredRows(p)
    BY <1>1, <1>3, <2>1, <2>3, <2>4 DEF StoredRows
  <2>6. ASSUME Process(row.from) = p
        PROVE  Cardinality(StoredRows(p)') = Cardinality(StoredRows(p)) + 1
    <3>1. StoredRows(p)' = StoredRows(p) \cup {m} /\ m \notin StoredRows(p)
      BY <1>1, <1>3, <2>1, <2>2, <2>3, <2>4, <2>6 DEF StoredRows
    <3>2. IsFiniteSet(StoredRows(p))
      BY StoredFinite
    <3> QED
      BY <3>1, <3>2, FS_AddElement
  <2> QED
    BY <2>5, <2>6
<1>4. ASSUME since'[p] = Len(rows), rows' = rows PROVE Cardinality(StoredRows(p)') = 0
  <2>1. StoredRows(p)' = {}
    BY <1>1, <1>4 DEF StoredRows
  <2> QED
    BY <2>1, FS_EmptySet
<1> QED
  BY <1>2, <1>3, <1>4

LEMMA HandledNext ==
    ASSUME ReceiversInv, on' = on, NEW p
    PROVE  /\ (\A l \in LinksOf(p) : HandledOver(l)' = HandledOver(l)) => HandledBy(p)' = HandledBy(p)
           /\ \A l \in LinksOf(p) : \A n :
                /\ n \notin HandledOver(l) /\ HandledOver(l)' = HandledOver(l) \cup {n}
                /\ \A q \in LinksOf(p) : q # l => HandledOver(q)' = HandledOver(q)
                => Cardinality(HandledBy(p)') = Cardinality(HandledBy(p)) + 1
           /\ (\A l \in LinksOf(p) : HandledOver(l)' = {}) => Cardinality(HandledBy(p)') = 0
<1>1. LinksOf(p)' = LinksOf(p)
  BY DEF LinksOf
<1>2. \A l \in LinksOf(p) : l \in Links
  BY DEF LinksOf, ReceiversInv
<1>3. (\A l \in LinksOf(p) : HandledOver(l)' = HandledOver(l)) => HandledBy(p)' = HandledBy(p)
  BY <1>1 DEF HandledBy
<1>4. ASSUME NEW l \in LinksOf(p), NEW n,
             n \notin HandledOver(l), HandledOver(l)' = HandledOver(l) \cup {n},
             \A q \in LinksOf(p) : q # l => HandledOver(q)' = HandledOver(q)
      PROVE  Cardinality(HandledBy(p)') = Cardinality(HandledBy(p)) + 1
  <2>1. HandledBy(p)' = HandledBy(p) \cup {<<l, n>>}
    BY <1>1, <1>4 DEF HandledBy
  <2>2. <<l, n>> \notin HandledBy(p)
    BY <1>4 DEF HandledBy
  <2>3. IsFiniteSet(HandledBy(p))
    BY HandledFinite
  <2> QED
    BY <2>1, <2>2, <2>3, FS_AddElement
<1>5. ASSUME \A l \in LinksOf(p) : HandledOver(l)' = {} PROVE Cardinality(HandledBy(p)') = 0
  <2>1. HandledBy(p)' = {}
    BY <1>1, <1>5 DEF HandledBy
  <2> QED
    BY <2>1, FS_EmptySet
<1> QED
  BY <1>3, <1>4, <1>5

LEMMA TallyNext ==
    ASSUME ReceiversInv, on' = on, NEW p, count[p] \in Counters, since[p] \in 0 .. Len(rows),
           Tally(p), TallySame(p) \/ (\E l, n : TallyTaken(p, l, n)) \/ TallyReset(p) \/ TallyStart(p)
    PROVE  Tally(p)' /\ since'[p] \in 0 .. Len(rows')
<1>1. rows \in Seq(Range(rows)) /\ Len(rows) \in Nat /\ LinksOf(p)' = LinksOf(p)
  BY DEF ReceiversInv, LinksOf
<1>2. /\ IsFiniteSet(HandledBy(p)) /\ Cardinality(StoredRows(p)) \in Nat
      /\ Cardinality(HandledBy(p)) \in Nat
  BY <1>1, HandledFinite, StoredFinite, FS_CardinalityType
<1>3. count[p].received \in Nat /\ count[p].errors \in Nat
  BY DEF Counters
<1>4. ASSUME Grown, since'[p] = since[p] PROVE since'[p] \in 0 .. Len(rows')
  BY <1>1, <1>4, GrownTable
<1>5. CASE TallySame(p)
  <2>1. StoredRows(p)' = StoredRows(p)
    BY <1>1, <1>5, StoredNext DEF TallySame
  <2>2. ASSUME \A l \in LinksOf(p) : ~ Faulted(l)'
        PROVE  (\A l \in LinksOf(p) : ~ Faulted(l)) /\ HandledBy(p)' = HandledBy(p)
    <3>1. \A l \in LinksOf(p) : ~ Faulted(l) /\ HandledOver(l)' = HandledOver(l)
      BY <1>5, <2>2 DEF TallySame, Passed, StillFaulted
    <3> QED
      BY <3>1, HandledNext
  <2>3. Tally(p)'
    BY <1>1, <1>5, <2>1, <2>2 DEF Tally, TallySame
  <2> QED
    BY <1>4, <1>5, <2>3 DEF TallySame, Grown
<1>6. ASSUME NEW l, NEW n, TallyTaken(p, l, n) PROVE Tally(p)' /\ since'[p] \in 0 .. Len(rows')
  <2>1. ASSUME \A q \in LinksOf(p) : ~ Faulted(q)'
        PROVE  /\ \A q \in LinksOf(p) : ~ Faulted(q)
               /\ Cardinality(HandledBy(p)') = Cardinality(HandledBy(p)) + 1
    <3>1. /\ l \in LinksOf(p) /\ n \notin HandledOver(l) /\ HandledOver(l)' = HandledOver(l) \cup {n}
          /\ \A q \in LinksOf(p) : /\ ~ Faulted(q)
                                   /\ q # l => HandledOver(q)' = HandledOver(q)
      BY <1>6, <2>1 DEF TallyTaken, Passed, StillFaulted
    <3> QED
      BY <3>1, HandledNext
  <2>2. /\ since'[p] = since[p] /\ Grown
        /\ count'[p].received + count'[p].errors = count[p].received + count[p].errors + 1
    BY <1>3, <1>6 DEF TallyTaken, Grown
  <2>3. /\ p # "can" => count'[p].received = Cardinality(StoredRows(p)')
        /\ p = "can" => count'[p].received >= Cardinality(StoredRows(p)')
    <3>1. ASSUME NEW row, Process(row.from) = p, rows' = Append(rows, row),
                 count'[p].received = count[p].received + 1
          PROVE  /\ p # "can" => count'[p].received = Cardinality(StoredRows(p)')
                 /\ p = "can" => count'[p].received >= Cardinality(StoredRows(p)')
      <4>1. Cardinality(StoredRows(p)') = Cardinality(StoredRows(p)) + 1
        BY <1>1, <2>2, <3>1, StoredNext
      <4> QED
        BY <1>2, <1>3, <3>1, <4>1 DEF Tally
    <3>2. ASSUME rows' = rows,
                 \/ count'[p].received = count[p].received
                 \/ p = "can" /\ count'[p].received = count[p].received + 1
          PROVE  /\ p # "can" => count'[p].received = Cardinality(StoredRows(p)')
                 /\ p = "can" => count'[p].received >= Cardinality(StoredRows(p)')
      <4>1. StoredRows(p)' = StoredRows(p)
        BY <1>1, <2>2, <3>2, StoredNext
      <4> QED
        BY <1>2, <1>3, <3>2, <4>1 DEF Tally
    <3> QED
      BY <1>6, <3>1, <3>2 DEF TallyTaken
  <2>4. Tally(p)'
    BY <1>1, <1>2, <2>1, <2>2, <2>3 DEF Tally
  <2> QED
    BY <1>4, <2>2, <2>4
<1>7. CASE TallyReset(p)
  <2>1. Cardinality(StoredRows(p)') = 0 /\ count'[p].received = 0 /\ count'[p].errors = 0
    BY <1>1, <1>7, StoredNext DEF TallyReset, Zero
  <2>2. (\A l \in LinksOf(p) : ~ Faulted(l)') => Cardinality(HandledBy(p)') = 0
    BY <1>7, HandledNext DEF TallyReset
  <2>3. Tally(p)'
    BY <1>1, <2>1, <2>2 DEF Tally
  <2> QED
    BY <1>1, <1>7, <2>3 DEF TallyReset
<1>8. CASE TallyStart(p)
  <2>1. Cardinality(StoredRows(p)') = 0 /\ count'[p].received = 0 /\ count'[p].errors = 0
    BY <1>1, <1>8, StoredNext DEF TallyStart, Zero
  <2>2. ASSUME \A l \in LinksOf(p) : ~ Faulted(l)' PROVE Cardinality(HandledBy(p)') = 0
    <3>1. \A l \in LinksOf(p) : ~ Faulted(l) /\ HandledOver(l)' = HandledOver(l)
      BY <1>8, <2>2 DEF TallyStart, Passed, StillFaulted
    <3>2. (\A l \in LinksOf(p) : ~ Faulted(l)) /\ HandledBy(p)' = HandledBy(p)
      BY <3>1, HandledNext
    <3> QED
      BY <1>8, <3>2 DEF Tally, TallyStart, Zero
  <2>3. Tally(p)'
    BY <1>1, <2>1, <2>2 DEF Tally
  <2> QED
    BY <1>1, <1>8, <2>3 DEF TallyStart
<1> QED
  BY <1>5, <1>6, <1>7, <1>8

\* What a step does to the other processes.
Elsewhere(p) ==
    /\ count'[p] = count[p] /\ since'[p] = since[p] /\ proc'[p] = proc[p]
    /\ rows' = rows \/ \E row : Process(row.from) # p /\ rows' = Append(rows, row)
    /\ \A l \in Links : Process(l) = p =>
         /\ sent'[l] = sent[l] /\ wire'[l] = wire[l] /\ buf'[l] = buf[l]
         /\ StillDisturbed(l) /\ (l \in Connections => link'[l] = link[l])
    /\ p = "can" => recent' = recent

LEMMA RecordedKept ==
    ASSUME rows \in Seq(Range(rows)), NewestRecorded, since'["can"] = since["can"], recent' = recent,
           rows' = rows \/ \E row : row.from # "can" /\ rows' = Append(rows, row)
    PROVE  NewestRecorded'
<1>1. \A n : Buffered(recent', n) = Buffered(recent, n)
  BY DEF Buffered
<1>2. CASE rows' = rows
  BY <1>1, <1>2 DEF NewestRecorded
<1>3. ASSUME NEW row, row.from # "can", rows' = Append(rows, row) PROVE NewestRecorded'
  <2>1. /\ Len(rows) \in Nat /\ Len(rows') = Len(rows) + 1 /\ rows'[Len(rows) + 1] = row
        /\ \A i \in 1 .. Len(rows) : rows'[i] = rows[i]
    BY <1>3
  <2>2. ASSUME NEW i \in 1 .. Len(rows'), i > since'["can"], rows'[i].from = "can"
        PROVE  Buffered(recent', rows'[i].value)
    <3>1. i \in 1 .. Len(rows)
      BY <1>3, <2>1, <2>2
    <3> QED
      BY <1>1, <2>1, <2>2, <3>1 DEF NewestRecorded
  <2> QED
    BY <2>2 DEF NewestRecorded
<1> QED
  BY <1>2, <1>3

LEMMA ElsewhereKept ==
    ASSUME ReceiversInv, on' = on, NEW p \in Tallied, CountsOf(p), Elsewhere(p)
    PROVE  CountsOf(p)'
<1>1. /\ Tally(p) /\ Resting(p) /\ count[p] \in Counters /\ since[p] \in 0 .. Len(rows)
      /\ p = "tcp" => ThreadCounts
      /\ p = "can" => Frames /\ NewestRecorded
  BY DEF CountsOf
<1>2. /\ count'[p] = count[p] /\ since'[p] = since[p] /\ proc'[p] = proc[p]
      /\ rows' = rows \/ \E row : Process(row.from) # p /\ rows' = Append(rows, row)
      /\ p = "can" => recent' = recent
  BY DEF Elsewhere
<1>3. ASSUME NEW l \in Links, Process(l) = p
      PROVE  /\ HandledOver(l)' = HandledOver(l) /\ StillFaulted(l) /\ Stream(l)' = Stream(l)
             /\ wire'[l] = wire[l] /\ sent'[l] = sent[l] /\ (l \in Connections => link'[l] = link[l])
  <2>1. /\ sent'[l] = sent[l] /\ wire'[l] = wire[l] /\ buf'[l] = buf[l]
        /\ StillDisturbed(l) /\ (l \in Connections => link'[l] = link[l])
    BY <1>3 DEF Elsewhere
  <2>2. Stream(l)' = Stream(l)
    BY <2>1 DEF Stream
  <2> QED
    BY <2>1, <2>2, FaultKept DEF HandledOver
<1>4. \A l \in LinksOf(p) : l \in Links /\ Process(l) = p
  BY DEF LinksOf, ReceiversInv
<1>5. TallySame(p)
  BY <1>2, <1>3, <1>4 DEF TallySame, Passed
<1>6. Tally(p)' /\ since'[p] \in 0 .. Len(rows')
  BY <1>1, <1>5, TallyNext
<1>7. /\ Connections \subseteq Links /\ \A l \in Connections : Process(l) = "tcp"
      /\ p # "tcp" => p \in Links /\ Process(p) = p
  BY ConnectionsAssumption DEF Links, Processes, Process, Tallied
<1>8. Resting(p)'
  <2>1. p = "tcp" => Served' = Served
    BY <1>3, <1>7 DEF Served
  <2>2. p # "tcp" => wire'[p] = wire[p]
    BY <1>3, <1>7
  <2> QED
    BY <1>1, <1>2, <2>1, <2>2 DEF Resting
<1>9. ASSUME p = "tcp" PROVE ThreadCounts'
  <2>1. Served' = Served
    BY <1>3, <1>7, <1>9 DEF Served
  <2> QED
    BY <1>1, <1>2, <1>9, <2>1 DEF ThreadCounts
<1>10. ASSUME p = "can" PROVE Frames' /\ NewestRecorded'
  <2>1. Stream("can")' = Stream("can") /\ sent'["can"] = sent["can"]
    BY <1>3, <1>7, <1>10
  <2>2. NewestRecorded'
    <3>1. "can" \in Links /\ Process("can") = "can"
      BY <1>7, <1>10
    <3>2. rows' = rows \/ \E row : row.from # "can" /\ rows' = Append(rows, row)
      BY <1>2, <1>10, <3>1
    <3> QED
      BY <1>1, <1>2, <1>10, <3>2, RecordedKept DEF ReceiversInv
  <2> QED
    BY <1>1, <1>2, <1>10, <2>1, <2>2 DEF Frames
<1> QED
  BY <1>1, <1>2, <1>6, <1>8, <1>9, <1>10 DEF CountsOf

LEMMA OneProcess ==
    ASSUME ReceiversInv, CountersInv, on' = on, NEW p, p \in Tallied => CountsOf(p)',
           DOMAIN proc' = Processes, DOMAIN count' = Processes, DOMAIN since' = Processes,
           \A q \in Tallied : q # p => Elsewhere(q)
    PROVE  CountersInv'
BY ElsewhereKept DEF CountersInv

\* A step of a link whose counts are those of TallyNext, but for what is its own.
LEMMA OwnCounts ==
    ASSUME ReceiversInv, on' = on, NEW p \in Tallied, CountsOf(p), count'[p] \in Counters,
           TallySame(p) \/ (\E l, n : TallyTaken(p, l, n)) \/ TallyReset(p) \/ TallyStart(p),
           Resting(p)', p = "tcp" => ThreadCounts', p = "can" => Frames' /\ NewestRecorded'
    PROVE  CountsOf(p)'
BY TallyNext DEF CountsOf

\* The fields of the counters after each operation on them.
LEMMA CounterFields ==
    ASSUME NEW c \in Counters
    PROVE  /\ c.opened \in Nat /\ c.closed \in Nat /\ c.active \in Nat
           /\ c.received \in Nat /\ c.errors \in Nat
BY DEF Counters

LEMMA CounterOpened ==
    ASSUME NEW c \in Counters, NEW d, d = [c EXCEPT !.opened = @ + 1, !.active = @ + 1]
    PROVE  /\ d \in Counters /\ d.received = c.received /\ d.errors = c.errors
           /\ d.active = c.active + 1 /\ d.opened = c.opened + 1 /\ d.closed = c.closed
<1>1. d = [opened |-> c.opened + 1, closed |-> c.closed, active |-> c.active + 1,
           received |-> c.received, errors |-> c.errors]
  BY DEF Counters
<1>2. c.opened + 1 \in Nat /\ c.active + 1 \in Nat
  BY CounterFields
<1> QED
  BY <1>1, <1>2, CounterFields DEF Counters

LEMMA CounterClosed ==
    ASSUME NEW c \in Counters, NEW d, d = Closed(c), c.active > 0
    PROVE  /\ d \in Counters /\ d.received = c.received /\ d.errors = c.errors
           /\ d.active = c.active - 1 /\ d.opened = c.opened /\ d.closed = c.closed + 1
<1>1. d = [opened |-> c.opened, closed |-> c.closed + 1, active |-> c.active - 1,
           received |-> c.received, errors |-> c.errors]
  BY DEF Closed, Counters
<1>2. c.closed + 1 \in Nat /\ c.active - 1 \in Nat
  BY CounterFields
<1> QED
  BY <1>1, <1>2, CounterFields DEF Counters

LEMMA CounterCounted ==
    ASSUME NEW c \in Counters, NEW ending, NEW d, d = Counted(c, ending)
    PROVE  /\ d \in Counters
           /\ d.received = IF ending = "store" THEN c.received + 1 ELSE c.received
           /\ d.errors = IF ending = "error" THEN c.errors + 1 ELSE c.errors
           /\ d.active = c.active /\ d.opened = c.opened /\ d.closed = c.closed
<1> DEFINE r == IF ending = "store" THEN c.received + 1 ELSE c.received
           e == IF ending = "error" THEN c.errors + 1 ELSE c.errors
<1>1. d = [opened |-> c.opened, closed |-> c.closed, active |-> c.active,
           received |-> r, errors |-> e]
  BY DEF Counted, Counters
<1>2. r \in Nat /\ e \in Nat
  BY CounterFields
<1> HIDE DEF r, e
<1>3. /\ d \in Counters /\ d.received = r /\ d.errors = e
      /\ d.active = c.active /\ d.opened = c.opened /\ d.closed = c.closed
  BY <1>1, <1>2, CounterFields DEF Counters
<1> QED
  BY <1>3 DEF r, e

-----------------------------------------------------------------------------
(* Sending adds a message that is on its way.                               *)
LEMMA HandledSent ==
    ASSUME NEW l, NEW kind, NEW parts, Typed(l), SentOver(l, kind, parts),
           \A j \in 1 .. Len(parts) : parts[j][1] \in {0, Number(l)},
           \E j \in 1 .. Len(parts) : parts[j][1] = Number(l)
    PROVE  HandledOver(l)' = HandledOver(l)
<1> DEFINE s == Stream(l)
           t == Stream(l)'
           m == Number(l)
<1>1. /\ DOMAIN sent[l] = 1 .. Len(sent[l]) /\ Len(sent[l]) \in Nat
      /\ DOMAIN sent'[l] = 1 .. m /\ m = Len(sent[l]) + 1
      /\ \A n \in 1 .. Len(sent[l]) : sent'[l][n] = sent[l][n]
  BY MorePartsOf DEF SentOver, Typed, Number
<1>2. /\ Len(s) \in Nat /\ Len(parts) \in Nat /\ Len(t) = Len(s) + Len(parts)
      /\ \A i \in 1 .. Len(s) : t[i] = s[i]
      /\ \A i \in 1 .. Len(parts) : t[Len(s) + i] = parts[i]
  BY SentStream DEF Extends
<1>3. HandledOver(l) = {n \in 1 .. Len(sent[l]) : /\ sent[l][n] # "blank"
                                                   /\ \A j \in 1 .. Len(s) : s[j][1] # n}
  BY <1>1 DEF HandledOver
<1>4. HandledOver(l)' = {n \in 1 .. m : /\ sent'[l][n] # "blank"
                                         /\ \A j \in 1 .. Len(t) : t[j][1] # n}
  BY <1>1 DEF HandledOver
<1> HIDE DEF s, t, m
<1>5. ASSUME NEW n \in HandledOver(l)' PROVE n \in HandledOver(l)
  <2>1. n \in 1 .. m /\ sent'[l][n] # "blank" /\ \A j \in 1 .. Len(t) : t[j][1] # n
    BY <1>4
  <2>2. n # m
    <3>1. PICK j \in 1 .. Len(parts) : parts[j][1] = m
      BY DEF m
    <3>2. Len(s) + j \in 1 .. Len(t) /\ t[Len(s) + j] = parts[j]
      BY <1>2
    <3> QED
      BY <2>1, <3>1, <3>2
  <2>3. n \in 1 .. Len(sent[l])
    BY <1>1, <2>1, <2>2
  <2>4. ASSUME NEW j \in 1 .. Len(s) PROVE s[j][1] # n
    <3>1. j \in 1 .. Len(t) /\ t[j] = s[j]
      BY <1>2
    <3> QED
      BY <2>1, <3>1
  <2> QED
    BY <1>1, <1>3, <2>1, <2>3, <2>4
<1>6. ASSUME NEW n \in HandledOver(l) PROVE n \in HandledOver(l)'
  <2>1. /\ n \in 1 .. Len(sent[l]) /\ sent[l][n] # "blank"
        /\ \A j \in 1 .. Len(s) : s[j][1] # n
    BY <1>3
  <2>2. n \in 1 .. m /\ n # m /\ n # 0
    BY <1>1, <2>1
  <2>3. ASSUME NEW j \in 1 .. Len(t) PROVE t[j][1] # n
    <3>1. CASE j <= Len(s)
      <4>1. j \in 1 .. Len(s)
        BY <1>2, <3>1
      <4> QED
        BY <1>2, <2>1, <4>1
    <3>2. CASE j > Len(s)
      <4>1. j - Len(s) \in 1 .. Len(parts) /\ Len(s) + (j - Len(s)) = j
        BY <1>2, <3>2
      <4>2. t[j] = parts[j - Len(s)]
        BY <1>2, <4>1
      <4>3. parts[j - Len(s)][1] \in {0, m}
        BY <4>1 DEF m
      <4> QED
        BY <2>2, <4>2, <4>3
    <3>3. j <= Len(s) \/ j > Len(s)
      BY <1>2
    <3> QED
      BY <3>1, <3>2, <3>3
  <2> QED
    BY <1>1, <1>4, <2>1, <2>2, <2>3
<1> QED
  BY <1>5, <1>6

LEMMA FramesSent ==
    ASSUME NEW kind, NEW parts, Typed("can"), Frames, SentOver("can", kind, parts),
           \A j \in 1 .. Len(parts) : parts[j][1] = Number("can"),
           recent' = recent, count' = count
    PROVE  Frames'
<1> DEFINE s == Stream("can")
           t == Stream("can")'
           m == Number("can")
<1>1. Len(sent["can"]) \in Nat /\ Len(sent'["can"]) = m /\ m = Len(sent["can"]) + 1
  BY DEF SentOver, Typed, Number
<1>2. /\ Len(s) \in Nat /\ Len(parts) \in Nat /\ Len(t) = Len(s) + Len(parts)
      /\ \A i \in 1 .. Len(s) : t[i] = s[i]
      /\ \A i \in 1 .. Len(parts) : t[Len(s) + i] = parts[i]
  BY SentStream DEF Extends
<1>3. /\ recent \in Seq(Nat)
      /\ \A i \in 1 .. Len(recent) :
           recent[i] <= Len(sent["can"]) /\ \A j \in 1 .. Len(s) : recent[i] < s[j][1]
  BY DEF Frames
<1>4. \A j \in 1 .. Len(parts) : parts[j][1] = m
  OBVIOUS
<1> HIDE DEF s, t, m
<1>5. ASSUME NEW i \in 1 .. Len(recent)
      PROVE  recent[i] <= m /\ \A j \in 1 .. Len(t) : recent[i] < t[j][1]
  <2>1. recent[i] \in Nat /\ recent[i] < m
    BY <1>1, <1>3
  <2>2. ASSUME NEW j \in 1 .. Len(t) PROVE recent[i] < t[j][1]
    <3>1. CASE j <= Len(s)
      <4>1. j \in 1 .. Len(s)
        BY <1>2, <3>1
      <4> QED
        BY <1>2, <1>3, <4>1
    <3>2. CASE j > Len(s)
      <4>1. j - Len(s) \in 1 .. Len(parts) /\ Len(s) + (j - Len(s)) = j
        BY <1>2, <3>2
      <4>2. t[j] = parts[j - Len(s)]
        BY <1>2, <4>1
      <4> QED
        BY <1>4, <2>1, <4>1, <4>2
    <3>3. j <= Len(s) \/ j > Len(s)
      BY <1>2
    <3> QED
      BY <3>1, <3>2, <3>3
  <2> QED
    BY <1>1, <2>1, <2>2
<1> QED
  BY <1>1, <1>5 DEF Frames, t, m

LEMMA SendCounts ==
    ASSUME ReceiversInv, CountersInv, NEW l \in Links, NEW kind \in Kinds(l), NEW parts, NEW well,
           Send(l, kind, parts, well), parts \in Seq(PartsOf(l)'),
           l \in Connections => link[l] = "open",
           l \notin Connections /\ proc[l] = "down" => parts = <<>>,
           well => /\ \A j \in 1 .. Len(parts) : parts[j][1] \in {0, Number(l)}
                   /\ \E j \in 1 .. Len(parts) : parts[j][1] = Number(l),
           l = "can" => \A j \in 1 .. Len(parts) : parts[j][1] = Number(l)
    PROVE  CountersInv'
<1> DEFINE p == Process(l)
<1>1. /\ UNCHANGED <<on, rows, buf, link, proc, count, recent, since>>
      /\ sent' = [sent EXCEPT ![l] = Append(@, kind)] /\ wire' = [wire EXCEPT ![l] = @ \o parts]
      /\ disturbed' = IF well THEN disturbed ELSE disturbed \cup {l}
  BY DEF Send, statistics
<1>2. /\ SentOver(l, kind, parts) /\ (~ well => l \in disturbed') /\ Typed(l)
  BY SendsOver DEF LinkInv
<1>3. Passed(l)
  BY <1>2, HandledSent DEF Passed, Faulted
<1>4. ASSUME NEW q \in Links, q # l
      PROVE  /\ sent'[q] = sent[q] /\ wire'[q] = wire[q] /\ buf'[q] = buf[q]
             /\ HandledOver(q)' = HandledOver(q)
  <2>1. sent'[q] = sent[q] /\ wire'[q] = wire[q] /\ buf'[q] = buf[q]
    BY <1>1, <1>4 DEF ReceiversInv
  <2>2. Stream(q)' = Stream(q)
    BY <2>1 DEF Stream
  <2> QED
    BY <2>1, <2>2 DEF HandledOver
<1>5. \A q : StillDisturbed(q)
  BY <1>1 DEF StillDisturbed
<1>6. \A q \in Tallied : q # p => Elsewhere(q)
  BY <1>1, <1>4, <1>5 DEF Elsewhere
<1>7. ASSUME p \in Tallied PROVE CountsOf(p)'
  <2>1. CountsOf(p)
    BY <1>7 DEF CountersInv
  <2>2. TallySame(p)
    <3>1. \A q \in LinksOf(p) : q \in Links
      BY DEF LinksOf, ReceiversInv
    <3>2. StillFaulted(l)
      BY <1>2, <1>5, FaultSent DEF SentOver, Typed
    <3>3. \A q \in Links : StillFaulted(q)
      BY <1>4, <1>5, <3>2, FaultKept
    <3> QED
      BY <1>1, <1>3, <1>4, <3>1, <3>3 DEF TallySame, Passed
  <2>3. Resting(p)'
    <3>1. CASE l \in Connections
      <4>1. p = "tcp" /\ l \in Served
        BY <3>1 DEF Process, Served
      <4>2. proc["tcp"] # "down"
        BY <2>1, <3>1, <4>1 DEF CountsOf, Resting
      <4> QED
        BY <1>1, <4>1, <4>2 DEF Resting
    <3>2. CASE l \notin Connections
      <4>1. p = l /\ l # "tcp"
        BY <3>2, ConnectionsAssumption DEF Process, Links, Processes
      <4>2. ASSUME proc'[l] = "down" PROVE wire'[l] = <<>> /\ count'[l] = Zero
        <5>1. proc[l] = "down" /\ wire[l] = <<>> /\ count[l] = Zero
          BY <1>1, <2>1, <4>1, <4>2 DEF CountsOf, Resting
        <5>2. wire'[l] = <<>> \o <<>>
          BY <1>1, <3>2, <5>1 DEF ReceiversInv
        <5> QED
          BY <1>1, <5>1, <5>2
      <4> QED
        BY <4>1, <4>2 DEF Resting
    <3> QED
      BY <3>1, <3>2
  <2>4. p = "tcp" => ThreadCounts'
    BY <1>1, <2>1 DEF CountsOf, ThreadCounts, Served
  <2>5. ASSUME p = "can" PROVE Frames' /\ NewestRecorded'
    <3>1. l = "can"
      BY <2>5, ConnectionsAssumption DEF Process, Links
    <3>2. Frames'
      BY <1>1, <1>2, <2>1, <2>5, <3>1, FramesSent DEF CountsOf
    <3>3. NewestRecorded'
      BY <1>1, <2>1, <2>5, RecordedKept DEF CountsOf, ReceiversInv
    <3> QED
      BY <3>2, <3>3
  <2>6. count'[p] \in Counters
    BY <1>1, <2>1 DEF CountsOf
  <2> QED
    BY <1>1, <1>7, <2>1, <2>2, <2>3, <2>4, <2>5, <2>6, OwnCounts
<1>8. DOMAIN proc' = Processes /\ DOMAIN count' = Processes /\ DOMAIN since' = Processes
  BY <1>1 DEF CountersInv
<1> HIDE DEF p
<1> QED
  BY <1>1, <1>6, <1>7, <1>8, OneProcess

LEMMA SendingCounts ==
    ASSUME ReceiversInv, CountersInv,
           \/ \E l \in Connections : \E kind \in Kinds(l) : SendLine(l, kind)
           \/ \E kind \in Kinds("uart") : SendSerial(kind)
           \/ \E kind \in Kinds("udp"), copies \in 0 .. 2 : SendDatagram(kind, copies)
           \/ \E kind \in Kinds("can") : SendFrame(kind)
           \/ \E kind \in Kinds("mqtt") : Publish(kind)
    PROVE  CountersInv'
<1>1. /\ {"udp", "can", "uart", "mqtt"} \subseteq Links /\ Connections \subseteq Links
      /\ {"udp", "can", "mqtt"} \cap Streamed = {} /\ "uart" \in Streamed /\ Connections \subseteq Streamed
      /\ {"udp", "can", "uart", "mqtt"} \cap Connections = {}
  BY ConnectionsAssumption DEF Links, Processes, Streamed
<1>2. ASSUME NEW l \in Links, NEW kind, NEW parts, NEW well, Send(l, kind, parts, well)
      PROVE  sent[l] \in Seq(Kinds(l)) /\ sent'[l] = Append(sent[l], kind)
  BY <1>2 DEF Send, ReceiversInv, LinkInv, Typed
<1>3. ASSUME NEW l \in Links, l \in Streamed, NEW kind \in Kinds(l),
             l \in Connections => link[l] = "open", l \in Connections \/ proc[l] # "down",
             Send(l, kind, Append(Line(Number(l)), Newline), TRUE)
      PROVE  CountersInv'
  <2> DEFINE parts == Append(Line(Number(l)), Newline)
  <2>1. /\ parts \in Seq(PartsOf(l)') /\ Len(parts) = 4
        /\ parts[1] = <<Number(l), 1>> /\ parts[2] = <<Number(l), 2>>
        /\ parts[3] = <<Number(l), 3>> /\ parts[4] = Newline
    BY <1>2, <1>3, LineParts
  <2>2. Send(l, kind, parts, TRUE)
    BY <1>3
  <2> HIDE DEF parts
  <2>3. /\ \A j \in 1 .. Len(parts) : parts[j][1] \in {0, Number(l)}
        /\ \E j \in 1 .. Len(parts) : parts[j][1] = Number(l)
    <3>1. \A j \in 1 .. 4 : j = 1 \/ j = 2 \/ j = 3 \/ j = 4
      OBVIOUS
    <3>2. 1 \in 1 .. Len(parts)
      BY <2>1
    <3> QED
      BY <2>1, <3>1, <3>2 DEF Newline
  <2>4. l # "can"
    BY <1>1, <1>3
  <2> QED
    BY <1>3, <2>1, <2>2, <2>3, <2>4, SendCounts
<1>4. ASSUME NEW l \in {"udp", "can", "mqtt"}, NEW kind \in Kinds(l), NEW copies \in Nat,
             NEW well, well => copies # 0, copies # 0 => l = "mqtt" \/ proc[l] # "down",
             NEW parts, parts = [i \in 1 .. copies |-> Message(Number(l))],
             Send(l, kind, parts, well)
      PROVE  CountersInv'
  <2>1. l \in Links /\ l \notin Streamed /\ l \notin Connections
    BY <1>1
  <2>2. parts \in Seq(PartsOf(l)')
    <3>1. Message(Number(l)) \in PartsOf(l)'
      BY <1>2, <1>4, <2>1, MessagePart
    <3> QED
      BY <1>4, <3>1
  <2>3. /\ Len(parts) = copies /\ \A j \in 1 .. copies : parts[j][1] = Number(l)
        /\ copies = 0 => parts = <<>>
    BY <1>4 DEF Message
  <2>4. well => /\ \A j \in 1 .. Len(parts) : parts[j][1] \in {0, Number(l)}
                /\ \E j \in 1 .. Len(parts) : parts[j][1] = Number(l)
    <3>1. copies # 0 => 1 \in 1 .. copies
      OBVIOUS
    <3> QED
      BY <1>4, <2>3, <3>1
  <2>5. l # "mqtt" => (proc[l] = "down" => parts = <<>>)
    BY <1>4, <2>3
  <2>6. ASSUME l = "mqtt" PROVE CountersInv'
    <3>1. /\ UNCHANGED <<on, rows, buf, link, proc, count, recent, since>>
          /\ sent' = [sent EXCEPT ![l] = Append(@, kind)] /\ wire' = [wire EXCEPT ![l] = @ \o parts]
          /\ disturbed' = IF well THEN disturbed ELSE disturbed \cup {l}
      BY <1>4 DEF Send, statistics
    <3>2. \A q \in Tallied : Elsewhere(q)
      <4>1. Process(l) = "mqtt"
        BY <2>1, <2>6 DEF Process
      <4>2. \A q \in Links : Process(q) \in Tallied => q # l
        BY <4>1 DEF Tallied
      <4> QED
        BY <3>1, <4>2 DEF Elsewhere, ReceiversInv, StillDisturbed
    <3>3. DOMAIN proc' = Processes /\ DOMAIN count' = Processes /\ DOMAIN since' = Processes
      BY <3>1 DEF CountersInv
    <3>4. "mqtt" \notin Tallied
      BY DEF Tallied
    <3> QED
      BY <3>1, <3>2, <3>3, <3>4, OneProcess
  <2>7. ASSUME l # "mqtt" PROVE CountersInv'
    <3>1. l = "can" => \A j \in 1 .. Len(parts) : parts[j][1] = Number(l)
      BY <2>3
    <3> QED
      BY <1>4, <2>1, <2>2, <2>4, <2>5, <2>7, <3>1, SendCounts
  <2> QED
    BY <2>6, <2>7
<1>5. ASSUME NEW kind \in Kinds("uart"), Send("uart", kind, <<>>, FALSE) PROVE CountersInv'
  <2>1. <<>> \in Seq(PartsOf("uart")')
    OBVIOUS
  <2> QED
    BY <1>1, <1>5, <2>1, SendCounts
<1>6. ASSUME NEW l \in Connections, NEW kind \in Kinds(l), SendLine(l, kind)
      PROVE  CountersInv'
  BY <1>1, <1>3, <1>6 DEF SendLine
<1>7. ASSUME NEW kind \in Kinds("uart"), SendSerial(kind) PROVE CountersInv'
  BY <1>1, <1>3, <1>5, <1>7 DEF SendSerial
<1>8. ASSUME NEW kind \in Kinds("udp"), NEW copies \in 0 .. 2, SendDatagram(kind, copies)
      PROVE  CountersInv'
  <2> DEFINE parts == [i \in 1 .. copies |-> Message(Number("udp"))]
  <2>1. /\ Send("udp", kind, parts, copies = 1)
        /\ copies # 0 => proc["udp"] # "down"
    BY <1>8 DEF SendDatagram
  <2>2. copies \in Nat /\ (copies = 1 => copies # 0)
    OBVIOUS
  <2>3. "udp" \in {"udp", "can", "mqtt"}
    OBVIOUS
  <2> QED
    BY <1>4, <2>1, <2>2, <2>3
<1>9. ASSUME NEW l \in {"can", "mqtt"}, NEW kind \in Kinds(l), l = "mqtt" \/ proc[l] # "down",
             Send(l, kind, <<Message(Number(l))>>, TRUE)
      PROVE  CountersInv'
  <2> DEFINE parts == [i \in 1 .. 1 |-> Message(Number(l))]
  <2>1. <<Message(Number(l))>> = parts
    OBVIOUS
  <2>2. Send(l, kind, parts, TRUE)
    BY <1>9, <2>1
  <2>3. l \in {"udp", "can", "mqtt"} /\ 1 # 0 /\ 1 \in Nat
    BY <1>9
  <2> HIDE DEF parts
  <2>4. parts = [i \in 1 .. 1 |-> Message(Number(l))]
    BY DEF parts
  <2> QED
    BY <1>4, <1>9, <2>2, <2>3, <2>4
<1>10. ASSUME NEW kind \in Kinds("can"), SendFrame(kind) PROVE CountersInv'
  <2>1. CASE proc["can"] = "up"
    BY <1>9, <1>10, <2>1 DEF SendFrame
  <2>2. CASE proc["can"] # "up"
    <3> DEFINE parts == [i \in 1 .. 0 |-> Message(Number("can"))]
    <3>0. Send("can", kind, <<>>, FALSE)
      BY <1>10, <2>2 DEF SendFrame
    <3>1. parts = <<>>
      OBVIOUS
    <3>2. "can" \in {"udp", "can", "mqtt"} /\ 0 \in Nat
      OBVIOUS
    <3>3. Send("can", kind, parts, FALSE)
      BY <3>0, <3>1
    <3> QED
      BY <1>4, <3>2, <3>3
  <2> QED
    BY <2>1, <2>2
<1>11. ASSUME NEW kind \in Kinds("mqtt"), Publish(kind) PROVE CountersInv'
  BY <1>9, <1>11 DEF Publish
<1> QED
  BY <1>6, <1>7, <1>8, <1>10, <1>11

-----------------------------------------------------------------------------
(* Connections.                                                             *)
LEMMA ConnectCounts ==
    ASSUME ReceiversInv, CountersInv, NEW l \in Connections, Connect(l) \/ HangUp(l) \/ Break(l)
    PROVE  CountersInv'
<1>1. /\ UNCHANGED <<on, rows, sent, buf, proc, recent, since>>
      /\ \A q \in Links : StillDisturbed(q)
      /\ \A q \in Links : q # l => wire'[q] = wire[q] /\ link'[q] = link[q]
      /\ wire'[l] = wire[l] \/ l \in disturbed'
      /\ \A q \in Processes : q # "tcp" => count'[q] = count[q]
      /\ DOMAIN count' = Processes
  BY DEF Connect, HangUp, Break, statistics, StillDisturbed, ReceiversInv, CountersInv
<1>2. l \in Links /\ Process(l) = "tcp" /\ "tcp" \in Tallied /\ Tallied \subseteq Processes
  BY DEF Links, Process, Tallied, Processes
<1>3. CountsOf("tcp") /\ count["tcp"] \in Counters /\ ThreadCounts
  BY <1>2 DEF CountersInv, CountsOf
<1>4. ASSUME NEW q \in Tallied, q # "tcp" PROVE Elsewhere(q)
  <2>1. \A k \in Links : Process(k) = q => k # l
    BY <1>2, <1>4
  <2> QED
    BY <1>1, <1>2, <1>4, <2>1 DEF Elsewhere
<1>5. \A q \in Links : Passed(q)
  <2>1. ASSUME NEW q \in Links, wire'[q] = wire[q] PROVE HandledOver(q)' = HandledOver(q)
    <3>1. Stream(q)' = Stream(q)
      BY <1>1, <2>1 DEF Stream
    <3> QED
      BY <1>1, <3>1 DEF HandledOver
  <2> QED
    BY <1>1, <2>1 DEF Passed, Faulted
<1>6. IsFiniteSet(Served) /\ Cardinality(Served) \in Nat
  BY TalliedLinks, FS_CardinalityType DEF ReceiversInv
<1>7. ASSUME Connect(l)
      PROVE  /\ count'["tcp"] \in Counters /\ count'["tcp"].received = count["tcp"].received
             /\ count'["tcp"].errors = count["tcp"].errors /\ ThreadCounts' /\ Resting("tcp")'
  <2>1. /\ link[l] = "none" /\ proc["tcp"] = "up" /\ proc' = proc /\ link'[l] = "open"
        /\ count'["tcp"] = [count["tcp"] EXCEPT !.opened = @ + 1, !.active = @ + 1]
    BY <1>2, <1>7 DEF Connect, Unmade, ReceiversInv, CountersInv
  <2>2. /\ count'["tcp"] \in Counters /\ count'["tcp"].received = count["tcp"].received
        /\ count'["tcp"].errors = count["tcp"].errors
        /\ count'["tcp"].active = count["tcp"].active + 1
        /\ count'["tcp"].opened = count["tcp"].opened + 1
        /\ count'["tcp"].closed = count["tcp"].closed
    BY <1>3, <2>1, CounterOpened
  <2>3. Served' = Served \cup {l} /\ l \notin Served
    BY <1>1, <2>1 DEF Served, Links
  <2>4. Cardinality(Served') = Cardinality(Served) + 1
    BY <1>6, <2>3, FS_AddElement
  <2>5. count["tcp"].opened \in Nat /\ count["tcp"].closed \in Nat /\ count["tcp"].active \in Nat
    BY <1>3, CounterFields
  <2>6. ThreadCounts'
    <3>1. count'["tcp"].active = Cardinality(Served')
      BY <1>3, <1>6, <2>2, <2>4 DEF ThreadCounts
    <3>2. count["tcp"].active = count["tcp"].opened - count["tcp"].closed
      BY <1>3 DEF ThreadCounts
    <3>3. count'["tcp"].active = count'["tcp"].opened - count'["tcp"].closed
      BY <2>2, <2>5, <3>2
    <3> QED
      BY <3>1, <3>3 DEF ThreadCounts
  <2> QED
    BY <2>1, <2>2, <2>6 DEF Resting
<1>8. ASSUME HangUp(l) \/ Break(l)
      PROVE  /\ count'["tcp"] \in Counters /\ count'["tcp"].received = count["tcp"].received
             /\ count'["tcp"].errors = count["tcp"].errors /\ ThreadCounts' /\ Resting("tcp")'
  <2>1. l \in Served /\ link'[l] = "closing" /\ proc' = proc /\ count' = count
    BY <1>2, <1>8 DEF HangUp, Break, statistics, ReceiversInv, Served
  <2>2. Served' = Served
    BY <1>1, <2>1 DEF Served, Links
  <2>3. proc["tcp"] # "down"
    BY <1>3, <2>1 DEF CountsOf, Resting
  <2> QED
    BY <1>3, <2>1, <2>2, <2>3 DEF ThreadCounts, Resting
<1>9. TallySame("tcp")
  <2>1. LinksOf("tcp") \subseteq Links
    BY DEF LinksOf, ReceiversInv
  <2>2. \A q \in Links : StillFaulted(q)
    BY <1>1, FaultKept
  <2> QED
    BY <1>1, <1>5, <1>7, <1>8, <2>1, <2>2 DEF TallySame
<1>10. CountsOf("tcp")'
  BY <1>1, <1>2, <1>3, <1>7, <1>8, <1>9, OwnCounts
<1> QED
  BY <1>1, <1>4, <1>10, OneProcess DEF CountersInv

LEMMA ReceiveCounts ==
    ASSUME ReceiversInv, CountersInv, NEW l \in Links, NEW k \in 1 .. Len(wire[l]), Recv(l, k)
    PROVE  CountersInv'
<1>1. /\ UNCHANGED <<on, rows, sent, link, proc, count, recent, since, disturbed>> /\ l \in Connections
      /\ buf' = [buf EXCEPT ![l] = @ \o SubSeq(wire[l], 1, k)]
      /\ wire' = [wire EXCEPT ![l] = From(@, k + 1)]
  BY DEF Recv, statistics
<1>2. Process(l) = "tcp" /\ "tcp" \in Tallied
  BY <1>1 DEF Process, Tallied
<1>3. \A q \in Links : q # l => wire'[q] = wire[q] /\ buf'[q] = buf[q]
  BY <1>1 DEF ReceiversInv
<1>4. Stream(l)' = Stream(l)
  <2>1. buf[l] \in Seq(PartsOf(l)) /\ wire[l] \in Seq(PartsOf(l))
    BY DEF ReceiversInv, LinkInv, Typed
  <2>2. buf'[l] = buf[l] \o SubSeq(wire[l], 1, k) /\ wire'[l] = From(wire[l], k + 1)
    BY <1>1 DEF ReceiversInv
  <2>3. k \in 0 .. Len(wire[l])
    OBVIOUS
  <2>4. Stream(l)' = (buf[l] \o SubSeq(wire[l], 1, k)) \o From(wire[l], k + 1)
    BY <2>2 DEF Stream
  <2> QED
    BY <2>1, <2>3, <2>4, Rechunked DEF Stream
<1>5. \A q \in Links : Passed(q) /\ StillDisturbed(q) /\ StillFaulted(q)
  <2>1. \A q \in Links : Stream(q)' = Stream(q)
    BY <1>3, <1>4 DEF Stream
  <2>2. \A q \in Links : StillDisturbed(q)
    BY <1>1 DEF StillDisturbed
  <2> QED
    BY <1>1, <2>1, <2>2, FaultKept DEF Passed, HandledOver
<1>6. CountsOf("tcp")
  BY <1>2 DEF CountersInv
<1>7. TallySame("tcp")
  <2>1. LinksOf("tcp") \subseteq Links
    BY DEF LinksOf, ReceiversInv
  <2> QED
    BY <1>1, <1>5, <2>1 DEF TallySame
<1>8. CountsOf("tcp")'
  <2>1. count'["tcp"] \in Counters /\ Resting("tcp")' /\ ThreadCounts'
    BY <1>1, <1>6 DEF CountsOf, Resting, ThreadCounts, Served
  <2> QED
    BY <1>1, <1>2, <1>6, <1>7, <2>1, OwnCounts
<1>9. \A q \in Tallied : q # "tcp" => Elsewhere(q)
  BY <1>1, <1>2, <1>3, <1>5 DEF Elsewhere
<1> QED
  BY <1>1, <1>8, <1>9, OneProcess DEF CountersInv

\* The finally clause of a thread, whatever ended it.
LEMMA ThreadEnds ==
    ASSUME ReceiversInv, CountersInv, NEW l \in Served, EndThread(l),
           UNCHANGED <<on, rows, sent, proc, recent, since>>,
           \A q \in Links : StillDisturbed(q), Passed(l)
    PROVE  CountersInv'
<1>1. /\ link' = [link EXCEPT ![l] = "closed"]
      /\ wire' = [wire EXCEPT ![l] = <<>>] /\ buf' = [buf EXCEPT ![l] = <<>>]
      /\ count' = [count EXCEPT !["tcp"] = Closed(@)]
  BY DEF EndThread
<1>2. /\ l \in Links /\ l \in Connections /\ Process(l) = "tcp"
      /\ "tcp" \in Tallied /\ Tallied \subseteq Processes
  BY DEF Served, Links, Process, Tallied, Processes
<1>3. CountsOf("tcp") /\ count["tcp"] \in Counters /\ ThreadCounts
  BY <1>2 DEF CountersInv, CountsOf
<1>4. ASSUME NEW q \in Links, q # l
      PROVE  wire'[q] = wire[q] /\ buf'[q] = buf[q] /\ link'[q] = link[q] /\ Passed(q)
  <2>1. wire'[q] = wire[q] /\ buf'[q] = buf[q] /\ link'[q] = link[q]
    BY <1>1, <1>4 DEF ReceiversInv
  <2>2. Stream(q)' = Stream(q)
    BY <2>1 DEF Stream
  <2> QED
    BY <2>1, <2>2 DEF Passed, HandledOver
<1>5. /\ DOMAIN count' = Processes /\ count'["tcp"] = Closed(count["tcp"])
      /\ \A q \in Processes : q # "tcp" => count'[q] = count[q]
  BY <1>1, <1>2 DEF CountersInv
<1>6. link'[l] = "closed"
  BY <1>1, <1>2 DEF ReceiversInv
<1>7. IsFiniteSet(Served) /\ Cardinality(Served) \in Nat
  BY TalliedLinks, FS_CardinalityType DEF ReceiversInv
<1>8. Served' = Served \ {l} /\ l \in Served
  BY <1>4, <1>6 DEF Served, Links
<1>9. Cardinality(Served') = Cardinality(Served) - 1 /\ Cardinality(Served) # 0
  BY <1>7, <1>8, FS_RemoveElement, FS_EmptySet
<1>10. /\ count'["tcp"] \in Counters /\ count'["tcp"].received = count["tcp"].received
       /\ count'["tcp"].errors = count["tcp"].errors
       /\ count'["tcp"].active = count["tcp"].active - 1
       /\ count'["tcp"].opened = count["tcp"].opened
       /\ count'["tcp"].closed = count["tcp"].closed + 1
  <2>1. count["tcp"].active \in Nat /\ count["tcp"].active > 0
    BY <1>3, <1>7, <1>9 DEF ThreadCounts
  <2> QED
    BY <1>3, <1>5, <2>1, CounterClosed
<1>11. ThreadCounts'
  <2>1. count["tcp"].opened \in Nat /\ count["tcp"].closed \in Nat /\ count["tcp"].active \in Nat
    BY <1>3, CounterFields
  <2> QED
    <3>1. count'["tcp"].active = Cardinality(Served')
      BY <1>3, <1>7, <1>9, <1>10 DEF ThreadCounts
    <3>2. count["tcp"].active = count["tcp"].opened - count["tcp"].closed
      BY <1>3 DEF ThreadCounts
    <3>3. count'["tcp"].active = count'["tcp"].opened - count'["tcp"].closed
      BY <1>10, <2>1, <3>2
    <3> QED
      BY <3>1, <3>3 DEF ThreadCounts
<1>12. Resting("tcp")'
  <2>1. proc["tcp"] # "down"
    BY <1>3 DEF CountsOf, Resting
  <2> QED
    BY <2>1 DEF Resting
<1>13. TallySame("tcp")
  <2>1. LinksOf("tcp") \subseteq Links
    BY DEF LinksOf, ReceiversInv
  <2>2. \A q \in Links : StillFaulted(q)
    BY FaultKept
  <2> QED
    BY <1>4, <1>10, <2>1, <2>2 DEF TallySame
<1>14. CountsOf("tcp")'
  BY <1>2, <1>3, <1>10, <1>11, <1>12, <1>13, OwnCounts
<1>15. ASSUME NEW q \in Tallied, q # "tcp" PROVE Elsewhere(q)
  <2>1. \A k \in Links : Process(k) = q => k # l
    BY <1>2, <1>15
  <2> QED
    BY <1>2, <1>4, <1>5, <1>15, <2>1 DEF Elsewhere
<1> QED
  BY <1>5, <1>14, <1>15, OneProcess DEF CountersInv

LEMMA FinishCounts ==
    ASSUME ReceiversInv, CountersInv, NEW l \in Links, Finish(l)
    PROVE  CountersInv'
<1>1. /\ l \in Connections /\ UNCHANGED <<on, rows, sent, proc, recent, since, disturbed>>
      /\ link[l] = "closing" /\ wire[l] = <<>> /\ FirstNewline(buf[l]) = 0
      /\ EndThread(l)
  BY DEF Finish
<1>2. Typed(l) /\ Framed(l)
  BY DEF ReceiversInv, LinkInv
<1>3. ASSUME l \notin disturbed PROVE HandledOver(l)' = HandledOver(l)
  <2>1. buf[l] \in Seq(PartsOf(l)) /\ Stream(l) = buf[l]
    BY <1>1, <1>2 DEF Typed, Stream
  <2>2. Complete(buf[l])
    BY <1>1, <1>2, <1>3, <2>1 DEF Framed, Streamed
  <2>3. Stream(l) = <<>>
    <3> SUFFICES ASSUME buf[l] # <<>> PROVE FALSE
      BY <2>1
    <3>1. Len(buf[l]) \in 1 .. Len(buf[l])
      BY <2>1
    <3>2. buf[l][Len(buf[l])] # Newline
      BY <1>1, <2>1, <3>1, NewlineFound
    <3> QED
      BY <2>2, <3>2 DEF Complete
  <2>4. Stream(l)' = <<>>
    BY <1>1 DEF EndThread, Stream, ReceiversInv
  <2> QED
    BY <1>1, <2>3, <2>4 DEF HandledOver
<1>4. Passed(l) /\ l \in Served /\ \A q \in Links : StillDisturbed(q)
  BY <1>1, <1>3 DEF Passed, Faulted, Served, StillDisturbed
<1> QED
  BY <1>1, <1>4, ThreadEnds

-----------------------------------------------------------------------------
(* Handling a message takes all its parts from the stream.                  *)
LEMMA HandledTaken ==
    ASSUME NEW l, NEW k, NEW n \in DOMAIN sent[l], Typed(l), Ordered(Stream(l)), TakenFrom(l, k),
           \A j \in 1 .. k : Stream(l)[j] = Newline \/ Stream(l)[j][1] = n,
           NEW m \in 1 .. k, Stream(l)[m] # Newline, Stream(l)[m][1] = n,
           Stream(l)[m][2] = 3 \/ l \notin Streamed
    PROVE  /\ sent[l][n] # "blank" =>
                n \notin HandledOver(l) /\ HandledOver(l)' = HandledOver(l) \cup {n}
           /\ sent[l][n] = "blank" => HandledOver(l)' = HandledOver(l)
<1> DEFINE s == Stream(l)
           t == Stream(l)'
<1>1. /\ sent[l] \in Seq(Kinds(l)) /\ DOMAIN sent[l] = 1 .. Len(sent[l]) /\ Len(sent[l]) \in Nat
      /\ sent'[l] = sent[l] /\ n \in Nat /\ n # 0
  <2>1. sent[l] \in Seq(Kinds(l)) /\ sent'[l] = sent[l]
    BY DEF Typed, TakenFrom
  <2> QED
    BY <2>1
<1>2. /\ k \in Nat /\ Len(s) \in Nat /\ Len(t) = Len(s) - k /\ k <= Len(s)
      /\ \A j \in 1 .. Len(t) : t[j] = s[k + j]
  BY TakenStream DEF TakenFrom
<1>3. ASSUME NEW j \in 1 .. Len(s)
      PROVE  s[j][1] \in Nat /\ s[j][2] \in 0 .. 3 /\ (l \notin Streamed => s[j][2] = 0)
  <2>1. s[j] \in PartsOf(l)
    BY StreamParts
  <2> HIDE DEF s
  <2> QED
    BY <1>1, <2>1, PartShape
<1>4. /\ m \in 1 .. Len(s) /\ s[m] # Newline /\ s[m][1] = n /\ (s[m][2] = 3 \/ l \notin Streamed)
      /\ \A j \in 1 .. k : s[j] = Newline \/ s[j][1] = n
  BY <1>2
<1>5. \A i, j \in 1 .. Len(s) : i < j /\ s[i] # Newline /\ s[j] # Newline => Before(s[i], s[j])
  BY DEF Ordered
<1>6. HandledOver(l) = {a \in DOMAIN sent[l] : /\ sent[l][a] # "blank"
                                              /\ \A j \in 1 .. Len(s) : s[j][1] # a}
  BY DEF HandledOver
<1>7. HandledOver(l)' = {a \in DOMAIN sent[l] : /\ sent[l][a] # "blank"
                                               /\ \A j \in 1 .. Len(t) : t[j][1] # a}
  BY <1>1 DEF HandledOver
<1> HIDE DEF s, t
<1>8. n \notin HandledOver(l)
  BY <1>4, <1>6
<1>9. ASSUME NEW j \in 1 .. Len(t) PROVE t[j][1] # n
  <2> DEFINE i == k + j
  <2>1. i \in 1 .. Len(s) /\ m < i /\ t[j] = s[i]
    BY <1>2
  <2> HIDE DEF i
  <2>2. CASE s[i] = Newline
    BY <1>1, <2>1, <2>2 DEF Newline
  <2>3. CASE s[i] # Newline
    <3>1. Before(s[m], s[i])
      BY <1>4, <1>5, <2>1, <2>3
    <3>2. s[i][1] \in Nat /\ s[i][2] \in 0 .. 3 /\ (l \notin Streamed => s[i][2] = 0 /\ s[m][2] = 0)
      BY <1>3, <1>4, <2>1
    <3>3. ~ (s[m][2] < s[i][2])
      BY <1>4, <3>2
    <3>4. n < s[i][1]
      BY <1>4, <3>1, <3>3 DEF Before
    <3> QED
      BY <1>1, <2>1, <3>2, <3>4
  <2> QED
    BY <2>2, <2>3
<1>10. ASSUME NEW a \in DOMAIN sent[l], a # n
       PROVE  (\A j \in 1 .. Len(s) : s[j][1] # a) <=> (\A j \in 1 .. Len(t) : t[j][1] # a)
  <2>1. ASSUME \A j \in 1 .. Len(s) : s[j][1] # a, NEW j \in 1 .. Len(t) PROVE t[j][1] # a
    <3>1. k + j \in 1 .. Len(s)
      BY <1>2
    <3> QED
      BY <1>2, <2>1, <3>1
  <2>2. ASSUME \A j \in 1 .. Len(t) : t[j][1] # a, NEW j \in 1 .. Len(s) PROVE s[j][1] # a
    <3>1. CASE j <= k
      <4>1. j \in 1 .. k
        BY <1>2, <3>1
      <4>2. s[j][1] = 0 \/ s[j][1] = n
        BY <1>4, <4>1 DEF Newline
      <4> QED
        BY <1>1, <1>10, <4>2
    <3>2. CASE j > k
      <4>1. j - k \in 1 .. Len(t) /\ k + (j - k) = j
        BY <1>2, <3>2
      <4>2. t[j - k] = s[j]
        BY <1>2, <4>1
      <4> QED
        BY <2>2, <4>1, <4>2
    <3>3. j <= k \/ j > k
      BY <1>2
    <3> QED
      BY <3>1, <3>2, <3>3
  <2> QED
    BY <2>1, <2>2
<1>11. sent[l][n] # "blank" => HandledOver(l)' = HandledOver(l) \cup {n}
  BY <1>6, <1>7, <1>9, <1>10
<1>12. sent[l][n] = "blank" => HandledOver(l)' = HandledOver(l)
  BY <1>6, <1>7, <1>10
<1> QED
  BY <1>8, <1>11, <1>12

\* Every ending is counted, but for that of a blank line.
LEMMA EndingCounted ==
    ASSUME NEW kind \in {"ok", "unknown", "malformed", "null", "blank"}, NEW ending
    PROVE  /\ ending \in Endings(TcpOutcome, kind, "die") =>
                /\ ending \in {"store", "ignore", "error", "die"}
                /\ ending = "ignore" <=> kind = "blank"
                /\ ending = "die" => kind \in {"ok", "null"}
           /\ kind # "blank" /\ ending \in Endings(UdpOutcome, kind, "die") =>
                /\ ending \in {"store", "error", "die"}
                /\ ending = "die" => kind \in {"ok", "null"}
           /\ kind \notin {"null", "blank"} /\ ending \in Endings(CanOutcome, kind, "die") =>
                /\ ending \in {"store", "ignore", "error", "die"}
                /\ ending = "die" => kind = "ok"
BY DEF Endings, TcpOutcome, UdpOutcome, CanOutcome

\* How an ending is counted and stored.
LEMMA EndingTally ==
    ASSUME ReceiversInv, NEW p, NEW l \in LinksOf(p), NEW n, NEW m, NEW unit,
           NEW ending \in {"store", "ignore", "error"}, NEW counted,
           counted = IF ending = "error" THEN "error" ELSE "store",
           ending = "ignore" => p = "can",
           count[p] \in Counters, count'[p] = Counted(count[p], counted),
           Store(l, m, unit, ending), since'[p] = since[p],
           Faulted(l)' \/ (n \notin HandledOver(l) /\ HandledOver(l)' = HandledOver(l) \cup {n}),
           \A q \in LinksOf(p) : StillFaulted(q) /\ (q # l => Passed(q))
    PROVE  count'[p] \in Counters /\ TallyTaken(p, l, n)
<1>1. /\ count'[p] \in Counters
      /\ count'[p].received = IF counted = "store" THEN count[p].received + 1 ELSE count[p].received
      /\ count'[p].errors = IF counted = "error" THEN count[p].errors + 1 ELSE count[p].errors
  BY CounterCounted
<1>2. Process(l) = p
  BY DEF LinksOf
<1>3. ending = "store" => \E row : Process(row.from) = p /\ rows' = Append(rows, row)
  <2> DEFINE row == [from |-> l, value |-> m, unit |-> unit, sensor |-> SensorOf[l], at |-> Now]
  <2>1. ending = "store" => rows' = Append(rows, row)
    BY DEF Store
  <2>2. row.from = l
    OBVIOUS
  <2> HIDE DEF row
  <2> QED
    BY <1>2, <2>1, <2>2
<1>4. ending # "store" => rows' = rows
  BY DEF Store
<1>5. \/ /\ count'[p].received = count[p].received + 1 /\ count'[p].errors = count[p].errors
         /\ \/ \E row : Process(row.from) = p /\ rows' = Append(rows, row)
            \/ p = "can" /\ rows' = rows
      \/ /\ count'[p].received = count[p].received /\ count'[p].errors = count[p].errors + 1
         /\ rows' = rows
  BY <1>1, <1>3, <1>4
<1> QED
  BY <1>1, <1>5 DEF TallyTaken

\* A row that is stored is of the process that stores it.
LEMMA StoredElsewhere ==
    ASSUME NEW l, NEW n, NEW unit, NEW ending, Store(l, n, unit, ending), NEW q, Process(l) # q
    PROVE  rows' = rows \/ \E row : Process(row.from) # q /\ rows' = Append(rows, row)
<1> DEFINE row == [from |-> l, value |-> n, unit |-> unit, sensor |-> SensorOf[l], at |-> Now]
<1>1. rows' = rows \/ rows' = Append(rows, row)
  BY DEF Store
<1>2. row.from = l
  OBVIOUS
<1> HIDE DEF row
<1> QED
  BY <1>1, <1>2

LEMMA DownCounts ==
    ASSUME ReceiversInv, CountersInv, NEW p \in Processes, Down(p), rows' = rows, on' = on,
           disturbed \subseteq disturbed',
           p \in Tallied => \A q \in LinksOf(p) : Faulted(q)' \/ Unmade(q)
    PROVE  CountersInv'
<1>1. /\ sent' = sent /\ proc' = [proc EXCEPT ![p] = "down"]
      /\ link' = [q \in Links |-> IF p = "tcp" /\ q \in Served THEN "closed" ELSE link[q]]
      /\ wire' = [q \in Links |-> IF Process(q) = p /\ p # "mqtt" THEN <<>> ELSE wire[q]]
      /\ buf' = [q \in Links |-> IF Process(q) = p THEN <<>> ELSE buf[q]]
      /\ count' = [count EXCEPT ![p] = Zero] /\ since' = [since EXCEPT ![p] = Len(rows)]
      /\ p = "can" => recent' = <<>>
      /\ p # "can" => recent' = recent
  BY DEF Down
<1>2. /\ DOMAIN proc' = Processes /\ DOMAIN count' = Processes /\ DOMAIN since' = Processes
      /\ count'[p] = Zero /\ since'[p] = Len(rows)
      /\ \A q \in Processes : q # p => /\ count'[q] = count[q] /\ since'[q] = since[q]
                                       /\ proc'[q] = proc[q]
  BY <1>1 DEF CountersInv
<1>3. ASSUME NEW q \in Tallied, q # p PROVE Elsewhere(q)
  <2>1. q \in Processes
    BY DEF Tallied, Processes
  <2>2. ASSUME NEW l \in Links, Process(l) = q
        PROVE  /\ sent'[l] = sent[l] /\ wire'[l] = wire[l] /\ buf'[l] = buf[l]
               /\ StillDisturbed(l) /\ (l \in Connections => link'[l] = link[l])
    BY <1>1, <1>3, <2>2 DEF StillDisturbed, Process
  <2>3. q = "can" => recent' = recent
    BY <1>1, <1>3
  <2> QED
    BY <1>2, <1>3, <2>1, <2>2, <2>3 DEF Elsewhere
<1>4. ASSUME p \in Tallied PROVE CountsOf(p)'
  <2>1. CountsOf(p)
    BY <1>4 DEF CountersInv
  <2>2. TallyReset(p)
    <3>1. ASSUME NEW l \in LinksOf(p), Unmade(l) PROVE HandledOver(l)' = {}
      <4>1. l \in Connections /\ link[l] = "none" /\ l \in Links
        BY <3>1 DEF Unmade, LinksOf, ReceiversInv
      <4>2. sent'[l] = <<>>
        BY <1>1, <4>1 DEF ReceiversInv, LinkInv, Typed
      <4> QED
        BY <4>2 DEF HandledOver
    <3>2. \A l \in LinksOf(p) : Faulted(l)' \/ HandledOver(l)' = {}
      BY <1>4, <3>1
    <3> QED
      BY <1>2, <3>2 DEF TallyReset
  <2>3. Connections \subseteq Links /\ \A l \in Connections : Process(l) = "tcp"
    BY DEF Links, Process
  <2>4. p # "tcp" => p \in Links /\ Process(p) = p /\ p # "mqtt"
    BY <1>4, ConnectionsAssumption DEF Links, Process, Tallied, Processes
  <2>9. ASSUME p = "tcp" PROVE Served' = {}
    <3>1. ASSUME NEW l \in Connections PROVE link'[l] \notin {"open", "closing"}
      BY <1>1, <2>3, <2>9, <3>1 DEF Served
    <3> QED
      BY <3>1 DEF Served
  <2>5. Resting(p)'
    BY <1>1, <1>2, <2>4, <2>9 DEF Resting
  <2>6. ASSUME p = "tcp" PROVE ThreadCounts'
    <3>1. Served' = {}
      BY <2>6, <2>9
    <3>2. Cardinality(Served') = 0
      BY <3>1, FS_EmptySet
    <3> QED
      BY <1>2, <2>6, <3>2 DEF ThreadCounts, Zero
  <2>7. ASSUME p = "can" PROVE Frames' /\ NewestRecorded'
    <3>1. recent' = <<>> /\ count'["can"].received = 0 /\ Len(recent') = 0
      BY <1>1, <1>2, <2>7 DEF Zero
    <3>2. ~ (0 > BufferSize) /\ <<>> \in Seq(Nat)
      BY BoundsAssumption
    <3>3. NewestRecorded'
      BY <1>2, <2>7 DEF NewestRecorded, ReceiversInv
    <3> QED
      BY <3>1, <3>2, <3>3 DEF Frames
  <2>8. count'[p] \in Counters
    BY <1>2 DEF Counters, Zero
  <2> QED
    BY <1>4, <2>1, <2>2, <2>5, <2>6, <2>7, <2>8, OwnCounts
<1> QED
  BY <1>2, <1>3, <1>4, OneProcess

LEMMA StartCounts ==
    ASSUME ReceiversInv, CountersInv, NEW p \in Processes, Start(p)
    PROVE  CountersInv'
<1>1. /\ UNCHANGED <<on, rows, sent, wire, buf, link, count, recent, disturbed>>
      /\ proc[p] = "down"
      /\ proc' = [proc EXCEPT ![p] = "up"] /\ since' = [since EXCEPT ![p] = Len(rows)]
  BY DEF Start, network
<1>2. /\ DOMAIN proc' = Processes /\ DOMAIN count' = Processes /\ DOMAIN since' = Processes
      /\ since'[p] = Len(rows) /\ proc'[p] = "up"
      /\ \A q \in Processes : q # p => since'[q] = since[q] /\ proc'[q] = proc[q]
  BY <1>1 DEF CountersInv
<1>3. ASSUME NEW q \in Tallied, q # p PROVE Elsewhere(q)
  <2>1. q \in Processes
    BY DEF Tallied, Processes
  <2> QED
    BY <1>1, <1>2, <1>3, <2>1 DEF Elsewhere, StillDisturbed
<1>4. ASSUME p \in Tallied PROVE CountsOf(p)'
  <2>1. CountsOf(p)
    BY <1>4 DEF CountersInv
  <2>2. count[p] = Zero /\ count'[p] = Zero
    BY <1>1, <2>1 DEF CountsOf, Resting
  <2>3. \A l : HandledOver(l)' = HandledOver(l)
    BY <1>1 DEF HandledOver, Stream
  <2>4. TallyStart(p)
    BY <1>1, <1>2, <2>2, <2>3, FaultKept DEF TallyStart, Passed, StillDisturbed
  <2>5. Resting(p)'
    BY <1>2 DEF Resting
  <2>6. p = "tcp" => ThreadCounts'
    BY <1>1, <2>1 DEF CountsOf, ThreadCounts, Served
  <2>7. ASSUME p = "can" PROVE Frames' /\ NewestRecorded'
    <3>1. Frames'
      BY <1>1, <2>1, <2>7 DEF CountsOf, Frames, Stream
    <3>2. NewestRecorded'
      BY <1>1, <1>2, <2>7 DEF NewestRecorded, ReceiversInv
    <3> QED
      BY <3>1, <3>2
  <2>8. count'[p] \in Counters
    BY <2>2 DEF Counters, Zero
  <2> QED
    BY <1>1, <1>4, <2>1, <2>4, <2>5, <2>6, <2>7, <2>8, OwnCounts
<1> QED
  BY <1>1, <1>2, <1>3, <1>4, OneProcess

-----------------------------------------------------------------------------
(* The frame buffer.                                                        *)
LEMMA RecordedFrames ==
    ASSUME NEW n \in Nat, recent \in Seq(Nat), Len(recent) <= BufferSize,
           \A i, j \in 1 .. Len(recent) : i < j => recent[i] < recent[j],
           \A i \in 1 .. Len(recent) : recent[i] < n
    PROVE  /\ Record(n) \in Seq(Nat)
           /\ Len(Record(n)) = IF Len(recent) = BufferSize THEN BufferSize ELSE Len(recent) + 1
           /\ \A i, j \in 1 .. Len(Record(n)) : i < j => Record(n)[i] < Record(n)[j]
           /\ \A i \in 1 .. Len(Record(n)) :
                Record(n)[i] = n \/ \E j \in 1 .. Len(recent) : Record(n)[i] = recent[j]
           /\ \E i \in 1 .. Len(Record(n)) : Record(n)[i] = n
           /\ \A i \in 1 .. Len(recent) :
                \/ \E j \in 1 .. Len(Record(n)) : Record(n)[j] = recent[i]
                \/ /\ Len(Record(n)) = BufferSize
                   /\ \A j \in 1 .. Len(Record(n)) : recent[i] < Record(n)[j]
<1> DEFINE all == Append(recent, n)
           r == Record(n)
<1>1. /\ all \in Seq(Nat) /\ Len(recent) \in Nat /\ Len(all) = Len(recent) + 1
      /\ all[Len(recent) + 1] = n /\ \A i \in 1 .. Len(recent) : all[i] = recent[i]
  OBVIOUS
<1>2. r = IF Len(all) > BufferSize THEN Tail(all) ELSE all
  BY DEF Record
<1> HIDE DEF all, r
<1>3. BufferSize \in Nat \ {0}
  BY BoundsAssumption
<1>4. ASSUME NEW i \in 1 .. Len(all)
      PROVE  /\ i \in 1 .. Len(recent) \/ i = Len(recent) + 1
             /\ all[i] = n \/ \E j \in 1 .. Len(recent) : all[i] = recent[j]
  <2>1. i \in 1 .. Len(recent) \/ i = Len(recent) + 1
    BY <1>1
  <2> QED
    BY <1>1, <2>1
<1>5. \A i, j \in 1 .. Len(all) : i < j => all[i] < all[j]
  <2> SUFFICES ASSUME NEW i \in 1 .. Len(all), NEW j \in 1 .. Len(all), i < j PROVE all[i] < all[j]
    OBVIOUS
  <2>1. i \in 1 .. Len(recent)
    BY <1>1
  <2>2. CASE j \in 1 .. Len(recent)
    BY <1>1, <2>1, <2>2
  <2>3. CASE j = Len(recent) + 1
    BY <1>1, <2>1, <2>3
  <2> QED
    BY <1>4, <2>2, <2>3
<1>6. CASE Len(all) > BufferSize
  <2>1. Len(recent) = BufferSize /\ r = Tail(all)
    BY <1>1, <1>2, <1>3, <1>6
  <2>2. /\ r \in Seq(Nat) /\ Len(r) = Len(recent)
        /\ \A i \in 1 .. Len(r) : r[i] = all[i + 1] /\ i + 1 \in 1 .. Len(all)
    BY <1>1, <2>1
  <2>3. \A i, j \in 1 .. Len(r) : i < j => r[i] < r[j]
    <3> SUFFICES ASSUME NEW i \in 1 .. Len(r), NEW j \in 1 .. Len(r), i < j PROVE r[i] < r[j]
      OBVIOUS
    <3>1. i + 1 < j + 1
      BY <2>2
    <3> QED
      BY <1>5, <2>2, <3>1
  <2>4. \A i \in 1 .. Len(r) : r[i] = n \/ \E j \in 1 .. Len(recent) : r[i] = recent[j]
    BY <1>4, <2>2
  <2>5. Len(r) \in 1 .. Len(r) /\ r[Len(r)] = n
    BY <1>1, <1>3, <2>1, <2>2
  <2>6. ASSUME NEW i \in 1 .. Len(recent)
        PROVE  \/ \E j \in 1 .. Len(r) : r[j] = recent[i]
               \/ Len(r) = BufferSize /\ \A j \in 1 .. Len(r) : recent[i] < r[j]
    <3>1. CASE i = 1
      <4>1. ASSUME NEW j \in 1 .. Len(r) PROVE recent[i] < r[j]
        <5>1. i \in 1 .. Len(all) /\ j + 1 \in 1 .. Len(all) /\ i < j + 1 /\ recent[i] = all[i]
          BY <1>1, <2>2, <3>1
        <5> QED
          BY <1>5, <2>2, <5>1
      <4> QED
        BY <2>1, <2>2, <4>1
    <3>2. CASE i # 1
      <4>1. i - 1 \in 1 .. Len(r) /\ (i - 1) + 1 = i
        BY <1>1, <2>2, <3>2
      <4>2. r[i - 1] = recent[i]
        BY <1>1, <2>2, <4>1
      <4> QED
        BY <4>1, <4>2
    <3> QED
      BY <3>1, <3>2
  <2> QED
    BY <2>1, <2>2, <2>3, <2>4, <2>5, <2>6 DEF r
<1>7. CASE ~ (Len(all) > BufferSize)
  <2>1. Len(recent) # BufferSize /\ r = all
    BY <1>1, <1>2, <1>3, <1>7
  <2>2. Len(recent) + 1 \in 1 .. Len(r) /\ r[Len(recent) + 1] = n
    BY <1>1, <2>1
  <2>3. \A i \in 1 .. Len(recent) : i \in 1 .. Len(r) /\ r[i] = recent[i]
    BY <1>1, <2>1
  <2> QED
    BY <1>1, <1>4, <1>5, <2>1, <2>2, <2>3 DEF r
<1> QED
  BY <1>6, <1>7

\* The frame that is recorded drops none that is newer than those it leaves.
LEMMA RecordedTaken ==
    ASSUME rows \in Seq(Range(rows)), RowsOf("can"), Typed("can"), Frames, NewestRecorded,
           since'["can"] = since["can"], count["can"].received \in Nat,
           NEW n \in Nat, \A i \in 1 .. Len(recent) : recent[i] < n,
           \/ recent' = recent /\ rows' = rows
           \/ /\ recent' = Record(n)
              /\ rows' = rows \/ \E row : row.value = n /\ rows' = Append(rows, row)
    PROVE  NewestRecorded'
<1>1. CASE recent' = recent /\ rows' = rows
  BY <1>1 DEF NewestRecorded, Buffered
<1>2. CASE /\ recent' = Record(n)
           /\ rows' = rows \/ \E row : row.value = n /\ rows' = Append(rows, row)
  <2>1. /\ recent \in Seq(Nat) /\ Len(recent) <= BufferSize /\ BufferSize \in Nat \ {0}
        /\ \A i, j \in 1 .. Len(recent) : i < j => recent[i] < recent[j]
    BY BoundsAssumption DEF Frames
  <2> DEFINE q == recent'
  <2>2. /\ Len(q) = IF Len(recent) = BufferSize THEN BufferSize ELSE Len(recent) + 1
        /\ \A i \in 1 .. Len(q) : q[i] = n \/ \E j \in 1 .. Len(recent) : q[i] = recent[j]
        /\ \E i \in 1 .. Len(q) : q[i] = n
        /\ \A i \in 1 .. Len(recent) :
             \/ \E j \in 1 .. Len(q) : q[j] = recent[i]
             \/ Len(q) = BufferSize /\ \A j \in 1 .. Len(q) : recent[i] < q[j]
    BY <1>2, <2>1, RecordedFrames
  <2>3. \A v : Buffered(recent', v) <=>
          \/ \E j \in 1 .. Len(q) : q[j] = v
          \/ Len(q) = BufferSize /\ \A j \in 1 .. Len(q) : v < q[j]
    BY DEF Buffered
  <2> HIDE DEF q
  <2>4. Buffered(recent', n)
    BY <2>2, <2>3
  <2>5. ASSUME NEW v \in Nat, Buffered(recent, v) PROVE Buffered(recent', v)
    <3>1. ASSUME NEW i \in 1 .. Len(recent), recent[i] = v PROVE Buffered(recent', v)
      BY <2>2, <2>3, <3>1
    <3>2. ASSUME Len(recent) = BufferSize, \A j \in 1 .. Len(recent) : v < recent[j]
          PROVE  Buffered(recent', v)
      <4>1. 1 \in 1 .. Len(recent) /\ recent[1] \in Nat
        BY <2>1, <3>2
      <4>2. v < recent[1] /\ recent[1] < n
        BY <3>2, <4>1
      <4>3. v < n
        BY <4>1, <4>2
      <4>4. \A j \in 1 .. Len(q) : v < q[j]
        BY <2>2, <3>2, <4>3
      <4> QED
        BY <2>2, <2>3, <3>2, <4>4
    <3> QED
      BY <2>5, <3>1, <3>2 DEF Buffered
  <2>6. ASSUME NEW i \in 1 .. Len(rows), i > since["can"], rows[i].from = "can"
        PROVE  Buffered(recent', rows[i].value)
    <3>1. rows[i].value \in Nat
      <4>1. rows[i].value \in Good("can")
        BY <2>6 DEF RowsOf
      <4>2. Good("can") \subseteq Nat
        BY DEF Good, Typed
      <4> QED
        BY <4>1, <4>2
    <3>2. Buffered(recent, rows[i].value)
      BY <2>6 DEF NewestRecorded
    <3> QED
      BY <2>5, <3>1, <3>2
  <2>7. CASE rows' = rows
    BY <2>6, <2>7 DEF NewestRecorded
  <2>8. ASSUME NEW row, row.value = n, rows' = Append(rows, row) PROVE NewestRecorded'
    <3>1. /\ Len(rows) \in Nat /\ Len(rows') = Len(rows) + 1 /\ rows'[Len(rows) + 1] = row
          /\ \A i \in 1 .. Len(rows) : rows'[i] = rows[i]
      BY <2>8
    <3>2. ASSUME NEW i \in 1 .. Len(rows'), i > since'["can"], rows'[i].from = "can"
          PROVE  Buffered(recent', rows'[i].value)
      <4>1. CASE i \in 1 .. Len(rows)
        <5>1. rows'[i] = rows[i]
          BY <3>1, <4>1
        <5>2. i > since["can"] /\ rows[i].from = "can"
          BY <3>2, <5>1
        <5> QED
          BY <2>6, <4>1, <5>1, <5>2
      <4>2. CASE i \notin 1 .. Len(rows)
        <5>1. i = Len(rows) + 1
          BY <3>1, <4>2
        <5>2. rows'[i].value = n
          BY <2>8, <3>1, <5>1
        <5> QED
          BY <2>4, <5>2
      <4> QED
        BY <4>1, <4>2
    <3> QED
      BY <3>2 DEF NewestRecorded
  <2> QED
    BY <1>2, <2>7, <2>8
<1> QED
  BY <1>1, <1>2

LEMMA FramesTaken ==
    ASSUME Typed("can"), Ordered(Stream("can")), Frames, TakenFrom("can", 1), "can" \notin Streamed,
           NEW n, n = Stream("can")[1][1], count["can"].received \in Nat,
           \/ recent' = recent /\ count'["can"].received = count["can"].received
           \/ recent' = Record(n) /\ count'["can"].received = count["can"].received + 1
    PROVE  Frames'
<1> DEFINE s == Stream("can")
           t == Stream("can")'
           m == Len(sent["can"])
           c == count["can"].received
<1>1. /\ Len(s) \in Nat /\ 1 \in 1 .. Len(s) /\ Len(t) = Len(s) - 1 /\ sent'["can"] = sent["can"]
      /\ \A j \in 1 .. Len(t) : t[j] = s[1 + j]
  BY TakenStream DEF TakenFrom
<1>2. ASSUME NEW j \in 1 .. Len(s)
      PROVE  s[j] # Newline /\ s[j][1] \in 1 .. m /\ s[j][2] = 0
  <2>1. s[j] \in PartsOf("can") /\ sent["can"] \in Seq(Kinds("can"))
    BY StreamParts DEF Typed
  <2> HIDE DEF s
  <2> QED
    BY <2>1, PartShape
<1>3. /\ recent \in Seq(Nat)
      /\ Len(recent) = IF c > BufferSize THEN BufferSize ELSE c
      /\ \A i, j \in 1 .. Len(recent) : i < j => recent[i] < recent[j]
      /\ \A i \in 1 .. Len(recent) : recent[i] <= m /\ \A j \in 1 .. Len(s) : recent[i] < s[j][1]
  BY DEF Frames
<1>4. \A i, j \in 1 .. Len(s) : i < j /\ s[i] # Newline /\ s[j] # Newline => Before(s[i], s[j])
  BY DEF Ordered
<1>5. m \in Nat /\ n = s[1][1] /\ c \in Nat /\ BufferSize \in Nat
  BY BoundsAssumption DEF Typed
<1> HIDE DEF s, t, m, c
<1>6. \A j \in 1 .. Len(t) : n < t[j][1] /\ 1 + j \in 1 .. Len(s)
  <2> TAKE j \in 1 .. Len(t)
  <2>1. 1 + j \in 1 .. Len(s) /\ 1 < 1 + j
    BY <1>1
  <2>2. Before(s[1], s[1 + j])
    BY <1>1, <1>2, <1>4, <2>1
  <2>3. s[1][1] < s[1 + j][1]
    BY <1>1, <1>2, <2>1, <2>2 DEF Before
  <2> QED
    BY <1>1, <1>5, <2>1, <2>3
<1>7. CASE recent' = recent /\ count'["can"].received = c
  <2>1. \A i \in 1 .. Len(recent) : \A j \in 1 .. Len(t) : recent[i] < t[j][1]
    BY <1>1, <1>3, <1>6
  <2> QED
    BY <1>1, <1>3, <1>7, <2>1 DEF Frames, t, m, c
<1>8. CASE recent' = Record(n) /\ count'["can"].received = c + 1
  <2>1. n \in Nat /\ n <= m /\ Len(recent) <= BufferSize /\ \A i \in 1 .. Len(recent) : recent[i] < n
    BY <1>1, <1>2, <1>3, <1>5
  <2>2. /\ recent' \in Seq(Nat)
        /\ Len(recent') = IF Len(recent) = BufferSize THEN BufferSize ELSE Len(recent) + 1
        /\ \A i, j \in 1 .. Len(recent') : i < j => recent'[i] < recent'[j]
        /\ \A i \in 1 .. Len(recent') :
             recent'[i] = n \/ \E j \in 1 .. Len(recent) : recent'[i] = recent[j]
    <3> DEFINE q == Record(n)
    <3>1. /\ q \in Seq(Nat)
          /\ Len(q) = IF Len(recent) = BufferSize THEN BufferSize ELSE Len(recent) + 1
          /\ \A i, j \in 1 .. Len(q) : i < j => q[i] < q[j]
          /\ \A i \in 1 .. Len(q) : q[i] = n \/ \E j \in 1 .. Len(recent) : q[i] = recent[j]
      <4>1. /\ recent \in Seq(Nat)
            /\ \A i, j \in 1 .. Len(recent) : i < j => recent[i] < recent[j]
        BY <1>3
      <4> QED
        BY ONLY <2>1, <4>1, RecordedFrames
    <3>2. recent' = q
      BY <1>8
    <3> HIDE DEF q
    <3> QED
      BY <3>1, <3>2
  <2>3. Len(recent') = IF c + 1 > BufferSize THEN BufferSize ELSE c + 1
    BY <1>3, <1>5, <2>2
  <2>4. ASSUME NEW i \in 1 .. Len(recent')
        PROVE  recent'[i] <= m /\ \A j \in 1 .. Len(t) : recent'[i] < t[j][1]
    <3>1. CASE recent'[i] = n
      BY <1>6, <2>1, <3>1
    <3>2. ASSUME NEW a \in 1 .. Len(recent), recent'[i] = recent[a]
          PROVE  recent'[i] <= m /\ \A j \in 1 .. Len(t) : recent'[i] < t[j][1]
      BY <1>1, <1>3, <1>6, <3>2
    <3> QED
      BY <2>2, <3>1, <3>2
  <2> QED
    BY <1>1, <1>8, <2>2, <2>3, <2>4 DEF Frames, t, m
<1> QED
  BY <1>7, <1>8 DEF c

LEMMA FrameCounts ==
    ASSUME ReceiversInv, LinksNext, CountersInv, ReceiveFrame, "can" \in on
    PROVE  CountersInv'
<1> DEFINE l == "can"
           n == Head(wire[l])[1]
           kind == sent[l][n]
           w == wire[l]
           P == PartsOf(l)
<1>1. /\ l \in Links /\ l \notin Streamed /\ l \notin Connections /\ l \in {"udp", "can", "uart"}
      /\ l \in Processes /\ l \in Tallied /\ Process(l) = l /\ l # "tcp"
  BY ConnectionsAssumption DEF Links, Processes, Streamed, Tallied, Process
<1>2. PICK ending \in Endings(CanOutcome, kind, "die") :
        /\ Store(l, n, "whole", ending)
        /\ disturbed' = disturbed \cup Failing(l, kind, ending)
        /\ IF ending = "die" THEN Down(l)
           ELSE /\ wire' = [wire EXCEPT ![l] = Tail(@)]
                /\ count' = [count EXCEPT ![l] =
                               Counted(@, IF ending = "error" THEN "error" ELSE "store")]
                /\ recent' = IF ending = "error" THEN recent ELSE Record(n)
                /\ UNCHANGED <<sent, buf, link, proc, since>>
  BY DEF ReceiveFrame
<1>3. w # <<>> /\ on' = on
  BY DEF ReceiveFrame
<1>4. /\ Typed(l) /\ Ordered(Stream(l)) /\ RowsOf(l) /\ rows \in Seq(Range(rows))
      /\ sent[l] \in Seq(Kinds(l))
  BY <1>1 DEF ReceiversInv, LinkInv, Typed, Ordering, InOrder
<1>5. w \in Seq(P) /\ Stream(l) = w
  BY <1>1, <1>4, Unbuffered
<1>6. CountsOf(l)
  BY <1>1 DEF CountersInv
<1>7. "can" = l
  OBVIOUS
<1> HIDE DEF l, P, w
<1>8. /\ Tail(w) = From(w, 1 + 1) /\ Head(w) = w[1] /\ w[1] \in P /\ 1 \in 1 .. Len(w)
      /\ Tail(w) \in Seq(P)
  BY <1>3, <1>5, CutByOne
<1>9. n = Stream(l)[1][1] /\ n \in DOMAIN sent[l] /\ kind \in Kinds(l)
  <2>1. n = w[1][1]
    BY <1>8 DEF w
  <2>2. n \in DOMAIN sent[l]
    BY <1>1, <1>5, <1>8, <2>1 DEF P, PartsOf
  <2> QED
    BY <1>4, <1>5, <2>1, <2>2
<1> HIDE DEF n
<1>10. ending \in {"store", "ignore", "error", "die"} /\ (ending = "die" => kind = "ok")
  <2>1. kind \in {"ok", "unknown", "malformed"}
    BY <1>1, <1>9 DEF Kinds, l
  <2> HIDE DEF kind
  <2> QED
    BY <1>2, <2>1, EndingCounted
<1> HIDE DEF kind
<1>16. disturbed \subseteq disturbed'
  BY <1>2
<1>11. CASE ending = "die"
  <2>1. rows' = rows /\ Down(l)
    BY <1>2, <1>11, StoreRows
  <2>2. l \in disturbed'
    BY <1>2, <1>10, <1>11 DEF Failing
  <2>3. \A q \in LinksOf(l) : q = l
    BY <1>1, <1>7 DEF LinksOf, Process, ReceiversInv
  <2> QED
    BY <1>1, <1>3, <1>16, <2>1, <2>2, <2>3, DownCounts DEF Faulted
<1>12. CASE ending # "die"
  <2> DEFINE counted == IF ending = "error" THEN "error" ELSE "store"
  <2>1. /\ wire' = [wire EXCEPT ![l] = Tail(@)] /\ UNCHANGED <<sent, buf, link, proc, since>>
        /\ count' = [count EXCEPT ![l] = Counted(@, counted)]
        /\ recent' = IF ending = "error" THEN recent ELSE Record(n)
    BY <1>2, <1>12
  <2>2. wire'[l] = Tail(w)
    BY <1>1, <2>1 DEF ReceiversInv, w
  <2>3. /\ DOMAIN count' = Processes /\ count'[l] = Counted(count[l], counted)
        /\ \A q \in Processes : q # l => count'[q] = count[q]
    BY <1>1, <2>1 DEF CountersInv
  <2> HIDE DEF counted
  <2>4. Typed(l)' /\ Stream(l)' = Tail(w)
    BY <1>1, <1>4, <1>8, <2>1, <2>2, UnbufferedNext DEF P
  <2>5. TakenFrom(l, 1)
    BY <1>1, <1>5, <1>8, <1>16, <2>1, <2>4 DEF TakenFrom, StillDisturbed
  <2>6. n \notin HandledOver(l) /\ HandledOver(l)' = HandledOver(l) \cup {n}
    <3>1. Stream(l)[1] # Newline
      <4>1. Stream(l)[1] \in PartsOf(l)
        BY <1>5, <1>8 DEF P
      <4> QED
        BY <1>1, <1>4, <4>1, PartShape
    <3>2. \A j \in 1 .. 1 : Stream(l)[j] = Newline \/ Stream(l)[j][1] = n
      BY <1>9
    <3>3. 1 \in 1 .. 1
      OBVIOUS
    <3>4. sent[l][n] # "blank"
      BY <1>4, <1>9, ConnectionsAssumption DEF Kinds, l, Processes
    <3> QED
      BY <1>1, <1>4, <1>9, <2>5, <3>1, <3>2, <3>3, <3>4, HandledTaken
  <2>7. \A q : StillDisturbed(q) /\ StillFaulted(q)
    BY <1>16, <2>1, FaultKept DEF StillDisturbed
  <2>8. ASSUME NEW q \in Links, q # l
        PROVE  wire'[q] = wire[q] /\ buf'[q] = buf[q] /\ sent'[q] = sent[q] /\ Passed(q)
    <3>1. wire'[q] = wire[q] /\ buf'[q] = buf[q] /\ sent'[q] = sent[q]
      BY <2>1, <2>8 DEF ReceiversInv
    <3>2. Stream(q)' = Stream(q)
      BY <3>1 DEF Stream
    <3> QED
      BY <3>1, <3>2 DEF Passed, HandledOver
  <2>9. count[l] \in Counters /\ since'[l] = since[l]
    BY <1>6, <2>1 DEF CountsOf
  <2>10. l \in LinksOf(l) /\ LinksOf(l) \subseteq Links
    BY <1>1, <1>7 DEF LinksOf, ReceiversInv
  <2>11. count'[l] \in Counters /\ TallyTaken(l, l, n)
    <3>1. ending \in {"store", "ignore", "error"}
      BY <1>10, <1>12
    <3>2. Store(l, n, "whole", ending)
      BY <1>2
    <3>3. counted = IF ending = "error" THEN "error" ELSE "store"
      BY DEF counted
    <3>4. ending = "ignore" => l = "can"
      BY <1>7
    <3>5. Faulted(l)' \/ (n \notin HandledOver(l) /\ HandledOver(l)' = HandledOver(l) \cup {n})
      BY <2>6
    <3>6. \A q \in LinksOf(l) : StillFaulted(q) /\ (q # l => Passed(q))
      BY <2>7, <2>8, <2>10
    <3> QED
      BY ONLY ReceiversInv, <2>3, <2>9, <2>10, <3>1, <3>2, <3>3, <3>4, <3>5, <3>6, EndingTally
  <2>12. Resting(l)'
    <3>1. proc[l] # "down"
      BY <1>1, <1>3, <1>6 DEF CountsOf, Resting, w
    <3> QED
      BY <2>1, <3>1 DEF Resting
  <2>13. Frames' /\ NewestRecorded'
    <3>1. Frames /\ NewestRecorded
      BY <1>6, <1>7 DEF CountsOf
    <3>2. count'[l].received = IF counted = "store" THEN count[l].received + 1 ELSE count[l].received
      BY <2>3, <2>9, CounterCounted
    <3>3. count[l].received \in Nat
      BY <2>9, CounterFields
    <3>4. \/ recent' = recent /\ count'[l].received = count[l].received
          \/ recent' = Record(n) /\ count'[l].received = count[l].received + 1
      BY <2>1, <3>2 DEF counted
    <3>5. Frames'
      BY <1>1, <1>4, <1>7, <1>9, <2>5, <3>1, <3>3, <3>4, FramesTaken
    <3>6. n \in Nat /\ \A i \in 1 .. Len(recent) : recent[i] < n
      <4>1. 1 \in 1 .. Len(Stream("can")) /\ n = Stream("can")[1][1]
        BY <1>5, <1>7, <1>8, <1>9
      <4>2. n \in Nat
        BY <1>4, <1>9
      <4>3. ASSUME NEW i \in 1 .. Len(recent) PROVE recent[i] < Stream("can")[1][1]
        BY <3>1, <4>1 DEF Frames
      <4> QED
        BY <4>1, <4>2, <4>3
    <3>7. \/ recent' = recent /\ rows' = rows
          \/ /\ recent' = Record(n)
             /\ rows' = rows \/ \E row : row.value = n /\ rows' = Append(rows, row)
      <4>1. rows' = rows \/ \E row : row.value = n /\ rows' = Append(rows, row)
        <5> DEFINE row == [from |-> l, value |-> n, unit |-> "whole", sensor |-> SensorOf[l], at |-> Now]
        <5>1. rows' = rows \/ rows' = Append(rows, row)
          BY <1>2 DEF Store
        <5>2. row.value = n
          OBVIOUS
        <5> HIDE DEF row
        <5> QED
          BY <5>1, <5>2
      <4>2. ending = "error" => rows' = rows
        BY <1>2, StoreRows
      <4> QED
        BY <2>1, <4>1, <4>2
    <3>8. NewestRecorded'
      BY <1>4, <1>7, <2>9, <3>1, <3>3, <3>6, <3>7, RecordedTaken
    <3> QED
      BY <3>5, <3>8
  <2>14. CountsOf(l)'
    BY <1>1, <1>3, <1>6, <2>11, <2>12, <2>13, OwnCounts
  <2>15. ASSUME NEW q \in Tallied, q # l PROVE Elsewhere(q)
    <3>1. q \in Processes /\ q # "can"
      BY <1>7, <2>15 DEF Tallied, Processes
    <3>2. rows' = rows \/ \E row : Process(row.from) # q /\ rows' = Append(rows, row)
      BY <1>1, <1>2, <2>15, StoredElsewhere
    <3>3. \A k \in Links : Process(k) = q => k # l
      BY <1>1, <2>15
    <3>4. \A k \in Links : Process(k) = q =>
            /\ sent'[k] = sent[k] /\ wire'[k] = wire[k] /\ buf'[k] = buf[k]
            /\ StillDisturbed(k) /\ (k \in Connections => link'[k] = link[k])
      BY <2>1, <2>7, <2>8, <3>3
    <3>5. count'[q] = count[q] /\ since'[q] = since[q] /\ proc'[q] = proc[q]
      BY <2>1, <2>3, <2>15, <3>1
    <3> QED
      BY <3>1, <3>2, <3>4, <3>5 DEF Elsewhere
  <2> QED
    BY <1>3, <2>1, <2>3, <2>14, <2>15, OneProcess DEF CountersInv
<1> QED
  BY <1>11, <1>12

-----------------------------------------------------------------------------
(* Datagrams and lines.                                                     *)
LEMMA DatagramCounts ==
    ASSUME ReceiversInv, LinksNext, CountersInv, NEW i \in DOMAIN wire["udp"], ReceiveDatagram(i),
           "udp" \in on
    PROVE  CountersInv'
<1> DEFINE l == "udp"
           n == wire[l][i][1]
           kind == sent[l][n]
           w == wire[l]
           P == PartsOf(l)
<1>1. /\ l \in Links /\ l \notin Streamed /\ l \notin Connections /\ l \in {"udp", "can", "uart"}
      /\ l \in Processes /\ l \in Tallied /\ Process(l) = l /\ l # "tcp" /\ l # "can"
  BY ConnectionsAssumption DEF Links, Processes, Streamed, Tallied, Process
<1>2. PICK ending \in Endings(UdpOutcome, kind, "die") :
        /\ Store(l, n, "whole", ending)
        /\ disturbed' = disturbed \cup Failing(l, kind, ending) \cup (IF i = 1 THEN {} ELSE {l})
        /\ IF ending = "die" THEN Down(l)
           ELSE /\ wire' = [wire EXCEPT ![l] = RemoveAt(@, i)]
                /\ count' = [count EXCEPT ![l] = Counted(@, ending)]
                /\ UNCHANGED <<sent, buf, link, proc, recent, since>>
  BY DEF ReceiveDatagram
<1>3. on' = on
  BY DEF ReceiveDatagram
<1>4. Typed(l) /\ Ordering(l) /\ rows \in Seq(Range(rows)) /\ sent[l] \in Seq(Kinds(l))
  BY <1>1 DEF ReceiversInv, LinkInv, Typed
<1>5. w \in Seq(P) /\ Stream(l) = w
  BY <1>1, <1>4, Unbuffered
<1>6. CountsOf(l) /\ l \in LinksOf(l)
  BY <1>1 DEF CountersInv, LinksOf
<1>7. "udp" = l
  OBVIOUS
<1> HIDE DEF P
<1>8. i \in 1 .. Len(w) /\ w[i] \in P /\ Len(w) \in Nat
  BY <1>5
<1> HIDE DEF l, w
<1>9. n = w[i][1] /\ n \in DOMAIN sent[l] /\ kind \in Kinds(l)
  <2>1. n = w[i][1]
    BY DEF w
  <2>2. n \in DOMAIN sent[l]
    BY <1>1, <1>5, <1>8, <2>1 DEF P, PartsOf
  <2> QED
    BY <1>4, <1>5, <2>1, <2>2
<1> HIDE DEF n
<1>10. /\ ending \in {"store", "error", "die"} /\ kind # "blank" /\ kind = sent[l][n]
       /\ ending = "die" => kind \in {"ok", "null"}
  <2>1. kind \in {"ok", "unknown", "malformed", "null"} /\ kind = sent[l][n]
    BY <1>1, <1>9 DEF Kinds
  <2> HIDE DEF kind
  <2> QED
    BY <1>2, <2>1, EndingCounted
<1> HIDE DEF kind
<1>13. disturbed \subseteq disturbed'
  BY <1>2
<1>11. CASE ending = "die"
  <2>1. rows' = rows /\ Down(l)
    BY <1>2, <1>11, StoreRows
  <2>2. Faulted(l)'
    <3>1. CASE kind = "ok"
      BY <1>2, <1>11, <3>1 DEF Failing, Faulted
    <3>2. CASE kind = "null"
      <4>1. sent' = sent
        BY <2>1 DEF Down
      <4> QED
        BY <1>9, <1>10, <3>2, <4>1 DEF Faulted, Nulled
    <3> QED
      BY <1>10, <1>11, <3>1, <3>2
  <2>3. \A q \in LinksOf(l) : q = l
    BY <1>1, <1>7 DEF LinksOf, Process, ReceiversInv
  <2> QED
    BY <1>1, <1>3, <1>13, <2>1, <2>2, <2>3, DownCounts
<1>12. CASE ending # "die"
  <2>1. /\ wire' = [wire EXCEPT ![l] = RemoveAt(@, i)]
        /\ UNCHANGED <<sent, buf, link, proc, recent, since>>
        /\ count' = [count EXCEPT ![l] = Counted(@, ending)]
        /\ disturbed' = disturbed \cup Failing(l, kind, ending) \cup (IF i = 1 THEN {} ELSE {l})
    BY <1>2, <1>12
  <2>2. wire'[l] = RemoveAt(w, i) /\ \A q : StillDisturbed(q) /\ StillFaulted(q)
    BY <1>1, <1>13, <2>1, FaultKept DEF ReceiversInv, w, StillDisturbed
  <2>3. /\ DOMAIN count' = Processes /\ count'[l] = Counted(count[l], ending)
        /\ \A q \in Processes : q # l => count'[q] = count[q]
    BY <1>1, <2>1 DEF CountersInv
  <2>4. ASSUME l \notin disturbed'
        PROVE  n \notin HandledOver(l) /\ HandledOver(l)' = HandledOver(l) \cup {n}
    <3>1. i = 1 /\ l \notin disturbed
      BY <2>1, <2>4
    <3>2. RemoveAt(w, 1) = From(w, 1 + 1)
      <4>1. SubSeq(w, 1, 1 - 1) = <<>> /\ From(w, 1 + 1) \in Seq(P)
        <5>1. 1 \in 0 .. Len(w)
          BY <1>8, <3>1
        <5> QED
          BY <1>5, <5>1, Suffix
      <4>2. <<>> \o From(w, 1 + 1) = From(w, 1 + 1)
        BY <4>1
      <4> QED
        BY <4>1, <4>2 DEF RemoveAt, From
    <3>3. Typed(l)'
      BY <1>1 DEF LinksNext, LinkInv
    <3>4. Stream(l)' = RemoveAt(w, i)
      <4>1. buf'[l] = <<>>
        BY <1>1, <1>4, <2>1 DEF Typed
      <4>2. wire'[l] \in Seq(PartsOf(l)')
        BY <3>3 DEF Typed
      <4> QED
        BY <2>2, <4>1, <4>2 DEF Stream
    <3>5. TakenFrom(l, 1)
      BY <1>1, <1>5, <1>8, <2>1, <2>2, <3>1, <3>2, <3>3, <3>4 DEF TakenFrom
    <3>6. Ordered(Stream(l))
      BY <1>4, <3>1 DEF Ordering, InOrder
    <3>7. Stream(l)[1] # Newline /\ Stream(l)[1][1] = n
      <4>1. Stream(l)[1] \in PartsOf(l)
        BY <1>5, <1>8, <3>1 DEF P
      <4> QED
        BY <1>1, <1>4, <1>5, <1>9, <3>1, <4>1, PartShape
    <3>8. /\ 1 \in 1 .. 1
          /\ \A j \in 1 .. 1 : Stream(l)[j] = Newline \/ Stream(l)[j][1] = n
      BY <3>7
    <3> QED
      BY <1>1, <1>4, <1>9, <1>10, <3>5, <3>6, <3>7, <3>8, HandledTaken
  <2>5. ASSUME NEW q \in Links, q # l
        PROVE  wire'[q] = wire[q] /\ buf'[q] = buf[q] /\ sent'[q] = sent[q] /\ Passed(q)
    <3>1. wire'[q] = wire[q] /\ buf'[q] = buf[q] /\ sent'[q] = sent[q]
      BY <2>1, <2>5 DEF ReceiversInv
    <3>2. Stream(q)' = Stream(q)
      BY <3>1 DEF Stream
    <3> QED
      BY <3>1, <3>2 DEF Passed, HandledOver
  <2>6. count[l] \in Counters /\ since'[l] = since[l]
    BY <1>6, <2>1 DEF CountsOf
  <2>7. LinksOf(l) \subseteq Links
    BY DEF LinksOf, ReceiversInv
  <2>8. count'[l] \in Counters /\ TallyTaken(l, l, n)
    <3> DEFINE counted == IF ending = "error" THEN "error" ELSE "store"
    <3>1. ending \in {"store", "ignore", "error"} /\ ending # "ignore" /\ counted = ending
      BY <1>10, <1>12
    <3>2. Store(l, n, "whole", ending)
      BY <1>2
    <3>3. counted = IF ending = "error" THEN "error" ELSE "store"
      OBVIOUS
    <3>4. Faulted(l)' \/ (n \notin HandledOver(l) /\ HandledOver(l)' = HandledOver(l) \cup {n})
      BY <2>4 DEF Faulted
    <3>5. \A q \in LinksOf(l) : StillFaulted(q) /\ (q # l => Passed(q))
      BY <2>2, <2>5, <2>7
    <3>6. count'[l] = Counted(count[l], counted)
      BY <2>3, <3>1
    <3>7. ending \in {"store", "ignore", "error"} /\ (ending = "ignore" => l = "can")
      BY <3>1
    <3> HIDE DEF counted
    <3> QED
      BY ONLY ReceiversInv, <1>6, <2>6, <3>2, <3>3, <3>4, <3>5, <3>6, <3>7, EndingTally
  <2>9. Resting(l)'
    <3>1. w # <<>>
      BY <1>8
    <3>2. proc[l] # "down"
      BY <1>1, <1>6, <3>1 DEF CountsOf, Resting, w
    <3> QED
      BY <2>1, <3>2 DEF Resting
  <2>10. CountsOf(l)'
    BY <1>1, <1>3, <1>6, <2>8, <2>9, OwnCounts
  <2>11. ASSUME NEW q \in Tallied, q # l PROVE Elsewhere(q)
    <3>1. q \in Processes
      BY DEF Tallied, Processes
    <3>2. rows' = rows \/ \E row : Process(row.from) # q /\ rows' = Append(rows, row)
      BY <1>1, <1>2, <2>11, StoredElsewhere
    <3>3. \A k \in Links : Process(k) = q => k # l
      BY <1>1, <2>11
    <3>4. \A k \in Links : Process(k) = q =>
            /\ sent'[k] = sent[k] /\ wire'[k] = wire[k] /\ buf'[k] = buf[k]
            /\ StillDisturbed(k) /\ (k \in Connections => link'[k] = link[k])
      BY <2>1, <2>2, <2>5, <3>3
    <3>5. /\ count'[q] = count[q] /\ since'[q] = since[q] /\ proc'[q] = proc[q]
          /\ recent' = recent
      BY <2>1, <2>3, <2>11, <3>1
    <3> QED
      BY <3>2, <3>4, <3>5 DEF Elsewhere
  <2> QED
    BY <1>3, <2>1, <2>3, <2>10, <2>11, OneProcess DEF CountersInv
<1> QED
  BY <1>11, <1>12

\* A line of an undisturbed stream is the whole of one message.
LEMMA UndisturbedLine ==
    ASSUME ReceiversInv, NEW l \in Connections, HasLine(l), l \notin disturbed,
           NEW n, n = Stream(l)[1][1]
    PROVE  /\ FirstNewline(buf[l]) = 4 /\ n \in DOMAIN sent[l]
           /\ Stream(l)[1] = <<n, 1>> /\ Stream(l)[2] = <<n, 2>>
           /\ Stream(l)[3] = <<n, 3>> /\ Stream(l)[4] = Newline
           /\ TcpKind(l, SubSeq(buf[l], 1, FirstNewline(buf[l]) - 1)) = sent[l][n]
<1> DEFINE b == buf[l]
           w == wire[l]
           end == FirstNewline(b)
           text == SubSeq(b, 1, end - 1)
           P == PartsOf(l)
<1>1. l \in Links /\ l \in Streamed /\ Typed(l) /\ Framed(l)
  BY DEF Links, Streamed, ReceiversInv, LinkInv
<1>2. b \in Seq(PartsOf(l)) /\ w \in Seq(PartsOf(l)) /\ sent[l] \in Seq(Kinds(l)) /\ Stream(l) = b \o w
  BY <1>1 DEF Typed, Stream
<1>3. end > 0 /\ end = FirstNewline(b)
  BY DEF HasLine
<1> HIDE DEF b, w, end
<1>4. /\ end \in 1 .. Len(b) /\ b[end] = Newline
      /\ \A i \in 1 .. (end - 1) : b[i] # Newline
  BY <1>2, <1>3, NewlineFound
<1>5. /\ Len(b \o w) = Len(b) + Len(w) /\ Len(b) \in Nat /\ Len(w) \in Nat
      /\ \A i \in 1 .. Len(b) : (b \o w)[i] = b[i]
  BY <1>2, Concatenation
<1>6. /\ end \in 1 .. Len(Stream(l)) /\ Stream(l)[end] = Newline
      /\ \A i \in 1 .. (end - 1) : Stream(l)[i] # Newline
  BY <1>2, <1>4, <1>5
<1>7. Linked(Stream(l)) /\ FromStart(Stream(l)) /\ Stream(l) \in Seq(PartsOf(l))
  BY <1>1, StreamParts DEF Framed
<1>8. /\ end = 4 /\ Stream(l)[1] = <<n, 1>> /\ Stream(l)[2] = <<n, 2>>
      /\ Stream(l)[3] = <<n, 3>> /\ n \in DOMAIN sent[l]
  BY <1>2, <1>6, <1>7, FirstLine
<1>9. /\ text = SubSeq(b, 1, 3) /\ 3 \in 0 .. Len(b)
      /\ b[1] = <<n, 1>> /\ b[2] = <<n, 2>> /\ b[3] = <<n, 3>>
  <2>1. 1 \in 1 .. Len(b) /\ 2 \in 1 .. Len(b) /\ 3 \in 1 .. Len(b) /\ 3 \in 0 .. Len(b)
    BY <1>4, <1>8
  <2>2. b[1] = Stream(l)[1] /\ b[2] = Stream(l)[2] /\ b[3] = Stream(l)[3]
    BY <1>2, <1>5, <2>1
  <2>3. end - 1 = 3
    BY <1>8
  <2> QED
    BY <1>8, <2>1, <2>2, <2>3
<1>10. /\ text \in Seq(P)
       /\ Len(text) = 3 /\ text[1] = <<n, 1>> /\ text[2] = <<n, 2>> /\ text[3] = <<n, 3>>
  <2> DEFINE t == SubSeq(b, 1, 3)
  <2>1. t \in Seq(P) /\ Len(t) = 3 /\ \A i \in 1 .. 3 : t[i] = b[i]
    BY <1>2, <1>9, Prefix
  <2>2. text = t
    BY <1>9
  <2>3. b[1] = <<n, 1>> /\ b[2] = <<n, 2>> /\ b[3] = <<n, 3>>
    BY <1>9
  <2> HIDE DEF t, text, b, P
  <2>4. text \in Seq(P) /\ Len(text) = 3 /\ \A i \in 1 .. 3 : text[i] = b[i]
    BY ONLY <2>1, <2>2
  <2>5. text[1] = b[1] /\ text[2] = b[2] /\ text[3] = b[3]
    BY ONLY <2>4
  <2> QED
    BY ONLY <2>3, <2>4, <2>5
<1> HIDE DEF text, P
<1>12. text = <<<<n, 1>>, <<n, 2>>, <<n, 3>>>>
  <2> DEFINE x == <<n, 1>>
             y == <<n, 2>>
             z == <<n, 3>>
  <2>1. Len(text) = 3 /\ text[1] = x /\ text[2] = y /\ text[3] = z
    BY <1>10
  <2> HIDE DEF x, y, z
  <2>2. text = <<x, y, z>>
    BY <1>10, <2>1
  <2> QED
    BY <2>2 DEF x, y, z
<1>13. TcpKind(l, text) = sent[l][n]
  <2>1. text \in Whole(l)
    BY <1>8, <1>12 DEF Whole, Line
  <2>2. text[1][1] = n
    BY <1>10
  <2> QED
    BY <2>1, <2>2 DEF TcpKind
<1> QED
  BY <1>6, <1>8, <1>13 DEF end, b, text

LEMMA LineCounts ==
    ASSUME ReceiversInv, LinksNext, CountersInv, NEW l \in on, HandleLine(l)
    PROVE  CountersInv'
<1> DEFINE b == buf[l]
           w == wire[l]
           end == FirstNewline(b)
           text == SubSeq(b, 1, end - 1)
           kind == TcpKind(l, text)
           n == Stream(l)[1][1]
<1>1. /\ l \in Connections /\ l \in Links /\ HasLine(l) /\ end > 0 /\ Process(l) = "tcp"
      /\ "tcp" \in Tallied /\ Tallied \subseteq Processes
  BY DEF HandleLine, HasLine, Links, Process, Tallied, Processes
<1>2. PICK ending \in Endings(TcpOutcome, kind, "die") :
        /\ Store(l, text[1][1], "whole", ending)
        /\ disturbed' = disturbed \cup Failing(l, kind, ending)
        /\ IF ending = "die" THEN EndThread(l)
           ELSE /\ buf' = [buf EXCEPT ![l] = AfterLine(@)]
                /\ count' = [count EXCEPT !["tcp"] = Counted(@, ending)]
                /\ UNCHANGED <<wire, link>>
  BY DEF HandleLine
<1>3. UNCHANGED <<on, sent, proc, recent, since>>
  BY DEF HandleLine
<1>4. /\ Typed(l) /\ Ordered(Stream(l)) /\ sent[l] \in Seq(Kinds(l))
      /\ buf[l] \in Seq(PartsOf(l)) /\ wire[l] \in Seq(PartsOf(l))
  <2>1. l # "udp"
    BY <1>1, ConnectionsAssumption DEF Processes
  <2> QED
    BY <1>1, <2>1 DEF ReceiversInv, LinkInv, Typed, Ordering, InOrder
<1>5. CountsOf("tcp") /\ l \in LinksOf("tcp") /\ count["tcp"] \in Counters
  BY <1>1 DEF CountersInv, CountsOf, LinksOf
<1>6. /\ ending \in {"store", "ignore", "error", "die"} /\ (ending = "ignore" <=> kind = "blank")
      /\ ending = "die" => kind \in {"ok", "null"}
      /\ kind = "null" => Nulled(l)
  <2>1. kind \in {"ok", "unknown", "malformed", "null", "blank"} /\ (kind = "null" => Nulled(l))
    <3>1. CASE text \in Whole(l)
      <4> HIDE DEF text
      <4>1. PICK a \in DOMAIN sent[l] : text[1] = <<a, 1>>
        BY <3>1, LineTexts
      <4>2. kind = sent[l][text[1][1]] /\ text[1][1] = a
        BY <3>1, <4>1 DEF TcpKind
      <4>3. sent[l][a] \in Kinds(l)
        BY <1>4
      <4> QED
        BY <4>2, <4>3 DEF Kinds, Nulled
    <3>2. CASE text \notin Whole(l)
      BY <3>2 DEF TcpKind
    <3> QED
      BY <3>1, <3>2
  <2> HIDE DEF kind
  <2> QED
    BY <1>2, <2>1, EndingCounted
<1>7. l \in Served
  <2>1. buf[l] # <<>>
    <3>1. end \in 0 .. Len(b)
      BY <1>4, NewlineFound
    <3> QED
      BY <1>1, <3>1
  <2> QED
    BY <1>1, <1>4, <2>1 DEF Typed, Served
<1>10. l \notin disturbed => kind = sent[l][n]
  BY <1>1, UndisturbedLine
<1> HIDE DEF kind, text
<1>11. disturbed \subseteq disturbed'
  BY <1>2
<1>8. CASE ending = "die"
  <2>1. rows' = rows /\ EndThread(l)
    BY <1>2, <1>8, StoreRows
  <2>2. Passed(l) /\ \A q \in Links : StillDisturbed(q)
    <3>1. kind = "ok" => l \in disturbed'
      BY <1>2, <1>8 DEF Failing
    <3>2. kind = "null" => Nulled(l)'
      BY <1>3, <1>6 DEF Nulled
    <3> QED
      BY <1>6, <1>8, <1>11, <3>1, <3>2 DEF Passed, Faulted, StillDisturbed
  <2> QED
    BY <1>1, <1>3, <1>7, <2>1, <2>2, ThreadEnds
<1>9. CASE ending # "die"
  <2>1. /\ buf' = [buf EXCEPT ![l] = AfterLine(@)] /\ UNCHANGED <<wire, link>>
        /\ count' = [count EXCEPT !["tcp"] = Counted(@, ending)]
    BY <1>2, <1>9
  <2>2. buf'[l] = From(b, end + 1) /\ wire'[l] = w
    BY <1>1, <2>1 DEF ReceiversInv, AfterLine
  <2>3. /\ DOMAIN count' = Processes /\ count'["tcp"] = Counted(count["tcp"], ending)
        /\ \A q \in Processes : q # "tcp" => count'[q] = count[q]
    BY <1>1, <2>1 DEF CountersInv
  <2>4. ASSUME l \notin disturbed'
        PROVE  /\ kind # "blank" =>
                    n \notin HandledOver(l) /\ HandledOver(l)' = HandledOver(l) \cup {n}
               /\ kind = "blank" => HandledOver(l)' = HandledOver(l)
    <3>1. l \notin disturbed /\ kind = sent[l][n]
      BY <1>10, <1>11, <2>4
    <3>2. n = Stream(l)[1][1]
      OBVIOUS
    <3> HIDE DEF n
    <3>3. /\ end = 4 /\ n \in DOMAIN sent[l]
          /\ Stream(l)[1] = <<n, 1>> /\ Stream(l)[2] = <<n, 2>>
          /\ Stream(l)[3] = <<n, 3>> /\ Stream(l)[4] = Newline
      BY <1>1, <3>1, <3>2, UndisturbedLine
    <3>4. end \in 0 .. Len(b)
      BY <1>4, NewlineFound
    <3> HIDE DEF b, w, end
    <3>5. b \in Seq(PartsOf(l)) /\ w \in Seq(PartsOf(l)) /\ Stream(l) = b \o w
      BY <1>4 DEF b, w, Stream
    <3>6. Stream(l)' = From(Stream(l), 4 + 1)
      <4>1. From(b, end + 1) \o w = From(b \o w, end + 1)
        BY <3>4, <3>5, CutFront
      <4>2. Stream(l)' = From(b, end + 1) \o w
        BY <2>2 DEF Stream
      <4> QED
        BY <3>3, <3>5, <4>1, <4>2
    <3>7. TakenFrom(l, 4)
      <4>1. 4 \in 1 .. Len(Stream(l))
        <5>1. Len(b \o w) = Len(b) + Len(w) /\ Len(b) \in Nat /\ Len(w) \in Nat
          BY <3>5, Concatenation
        <5> QED
          BY <3>3, <3>4, <3>5, <5>1
      <4>2. Typed(l)'
        BY <1>1 DEF LinksNext, LinkInv
      <4> QED
        BY <1>3, <1>11, <2>1, <3>6, <4>1, <4>2 DEF TakenFrom, StillDisturbed
    <3>8. \A j \in 1 .. 4 : Stream(l)[j] = Newline \/ Stream(l)[j][1] = n
      <4>1. \A j \in 1 .. 4 : j = 1 \/ j = 2 \/ j = 3 \/ j = 4
        OBVIOUS
      <4> QED
        BY <3>3, <4>1
    <3>9. /\ 3 \in 1 .. 4 /\ Stream(l)[3] # Newline /\ Stream(l)[3][1] = n
          /\ Stream(l)[3][2] = 3 \/ l \notin Streamed
      BY <3>3 DEF Newline
    <3>10. Typed(l) /\ Ordered(Stream(l)) /\ n \in DOMAIN sent[l]
      BY <1>4, <3>3
    <3> QED
      BY <3>1, <3>7, <3>8, <3>9, <3>10, HandledTaken
  <2>5. ASSUME NEW q \in Links, q # l
        PROVE  wire'[q] = wire[q] /\ buf'[q] = buf[q] /\ sent'[q] = sent[q] /\ Passed(q)
    <3>1. wire'[q] = wire[q] /\ buf'[q] = buf[q] /\ sent'[q] = sent[q]
      BY <1>3, <2>1, <2>5 DEF ReceiversInv
    <3>2. Stream(q)' = Stream(q)
      BY <3>1 DEF Stream
    <3> QED
      BY <3>1, <3>2 DEF Passed, HandledOver
  <2>6. \A q : StillDisturbed(q) /\ StillFaulted(q)
    BY <1>3, <1>11, FaultKept DEF StillDisturbed
  <2>7. LinksOf("tcp") \subseteq Links /\ since'["tcp"] = since["tcp"]
    BY <1>3 DEF LinksOf, ReceiversInv
  <2>8. count'["tcp"] \in Counters /\ (TallyTaken("tcp", l, n) \/ TallySame("tcp"))
    <3>1. ASSUME ending # "ignore" PROVE count'["tcp"] \in Counters /\ TallyTaken("tcp", l, n)
      <4> DEFINE counted == IF ending = "error" THEN "error" ELSE "store"
      <4>1. /\ ending \in {"store", "ignore", "error"} /\ ending # "ignore" /\ counted = ending
            /\ kind # "blank"
        BY <1>6, <1>9, <3>1
      <4>2. Store(l, text[1][1], "whole", ending)
        BY <1>2
      <4>3. counted = IF ending = "error" THEN "error" ELSE "store"
        OBVIOUS
      <4>4. Faulted(l)' \/ (n \notin HandledOver(l) /\ HandledOver(l)' = HandledOver(l) \cup {n})
        BY <2>4, <4>1 DEF Faulted
      <4>5. \A q \in LinksOf("tcp") : StillFaulted(q) /\ (q # l => Passed(q))
        BY <2>5, <2>6, <2>7
      <4>6. count'["tcp"] = Counted(count["tcp"], counted) /\ since'["tcp"] = since["tcp"]
        BY <2>3, <2>7, <4>1
      <4>7. ending \in {"store", "ignore", "error"} /\ (ending = "ignore" => "tcp" = "can")
        BY <4>1
      <4> HIDE DEF counted, n
      <4> QED
        BY ONLY ReceiversInv, <1>5, <4>2, <4>3, <4>4, <4>5, <4>6, <4>7, EndingTally
    <3>2. ASSUME ending = "ignore" PROVE count'["tcp"] \in Counters /\ TallySame("tcp")
      <4>1. kind = "blank" /\ rows' = rows
        BY <1>2, <1>6, <3>2, StoreRows
      <4>2. Passed(l)
        BY <2>4, <4>1 DEF Passed, Faulted
      <4>3. /\ count'["tcp"] \in Counters
            /\ count'["tcp"].received = count["tcp"].received
            /\ count'["tcp"].errors = count["tcp"].errors
        BY <1>5, <2>3, <3>2, CounterCounted
      <4> QED
        BY <2>5, <2>6, <2>7, <4>1, <4>2, <4>3 DEF TallySame
    <3> QED
      BY <3>1, <3>2
  <2>9. Resting("tcp")'
    <3>1. proc["tcp"] # "down"
      BY <1>1, <1>5, <1>7 DEF CountsOf, Resting
    <3> QED
      BY <1>3, <3>1 DEF Resting
  <2>10. ThreadCounts'
    <3>1. /\ count'["tcp"].active = count["tcp"].active /\ count'["tcp"].opened = count["tcp"].opened
          /\ count'["tcp"].closed = count["tcp"].closed
      BY <1>5, <2>3, CounterCounted
    <3>2. Served' = Served
      BY <2>1 DEF Served
    <3> QED
      BY <1>5, <3>1, <3>2 DEF CountsOf, ThreadCounts
  <2>11. CountsOf("tcp")'
    BY <1>1, <1>3, <1>5, <2>8, <2>9, <2>10, OwnCounts
  <2>12. ASSUME NEW q \in Tallied, q # "tcp" PROVE Elsewhere(q)
    <3>1. q \in Processes
      BY <1>1
    <3>2. rows' = rows \/ \E row : Process(row.from) # q /\ rows' = Append(rows, row)
      BY <1>1, <1>2, <2>12, StoredElsewhere
    <3>3. \A k \in Links : Process(k) = q => k # l
      BY <1>1, <2>12
    <3>4. \A k \in Links : Process(k) = q =>
            /\ sent'[k] = sent[k] /\ wire'[k] = wire[k] /\ buf'[k] = buf[k]
            /\ StillDisturbed(k) /\ (k \in Connections => link'[k] = link[k])
      BY <2>1, <2>5, <2>6, <3>3
    <3>5. /\ count'[q] = count[q] /\ since'[q] = since[q] /\ proc'[q] = proc[q]
          /\ recent' = recent
      BY <1>3, <2>3, <2>12, <3>1
    <3> QED
      BY <3>2, <3>4, <3>5 DEF Elsewhere
  <2> QED
    BY <1>3, <2>3, <2>11, <2>12, OneProcess DEF CountersInv
<1> QED
  BY <1>8, <1>9

-----------------------------------------------------------------------------
(* The serial line and MQTT, whose receivers have no counters.              *)
LEMMA ApartCounts ==
    ASSUME ReceiversInv, CountersInv, NEW l \in {"uart", "mqtt"}, l \in Links, on' = on,
           UNCHANGED <<sent, count, recent, since>>, DOMAIN proc' = Processes,
           \A q \in Processes : q # l => proc'[q] = proc[q],
           rows' = rows \/ (\E n, unit, ending : Store(l, n, unit, ending)),
           \A q \in Links : q # l =>
             /\ wire'[q] = wire[q] /\ buf'[q] = buf[q] /\ link'[q] = link[q]
             /\ StillDisturbed(q)
    PROVE  CountersInv'
<1>1. Process(l) = l /\ l \notin Tallied /\ l # "can" /\ Tallied \subseteq Processes
  BY ConnectionsAssumption DEF Process, Tallied, Processes
<1>2. ASSUME NEW q \in Tallied PROVE Elsewhere(q)
  <2>1. q # l /\ q \in Processes
    BY <1>1
  <2>2. rows' = rows \/ \E row : Process(row.from) # q /\ rows' = Append(rows, row)
    BY <1>1, <2>1, StoredElsewhere
  <2>3. \A k \in Links : Process(k) = q => k # l
    BY <1>1, <2>1
  <2>4. \A k \in Links : Process(k) = q =>
          /\ sent'[k] = sent[k] /\ wire'[k] = wire[k] /\ buf'[k] = buf[k]
          /\ StillDisturbed(k) /\ (k \in Connections => link'[k] = link[k])
    BY <2>3
  <2>5. proc'[q] = proc[q]
    BY <2>1
  <2> QED
    BY <2>2, <2>4, <2>5 DEF Elsewhere
<1> QED
  BY <1>1, <1>2, OneProcess DEF CountersInv

LEMMA ReadLineCounts ==
    ASSUME ReceiversInv, CountersInv, NEW k \in DOMAIN wire["uart"], ReadLine(k)
    PROVE  CountersInv'
<1> DEFINE l == "uart"
           w == wire[l]
           end == FirstNewline(w)
           text == SubSeq(w, 1, IF k = end THEN k - 1 ELSE k)
           kind == UartKind(text)
           unit == IF Len(text) = 3 THEN "whole" ELSE "cut"
<1>1. l \in Links /\ l \in Processes /\ l \in {"uart", "mqtt"}
  BY DEF Links, Processes
<1>2. PICK ending \in Endings(UartOutcome, kind, "die") :
        /\ Store(l, text[1][1], unit, ending)
        /\ disturbed' = disturbed \cup Failing(l, kind, ending) \cup (IF k < end THEN {l} ELSE {})
        /\ IF ending = "die" THEN Down(l)
           ELSE /\ wire' = [wire EXCEPT ![l] = From(@, k + 1)]
                /\ UNCHANGED <<sent, buf, link, proc, count, recent, since>>
  BY DEF ReadLine, statistics
<1>3. on' = on
  BY DEF ReadLine
<1> HIDE DEF l, w, end, text, kind, unit
<1>4. CASE ending = "die"
  <2>1. rows' = rows /\ Down(l)
    BY <1>2, <1>4, StoreRows
  <2>2. l \notin Tallied /\ disturbed \subseteq disturbed'
    BY <1>2 DEF Tallied, l
  <2> QED
    BY <1>1, <1>3, <2>1, <2>2, DownCounts
<1>5. CASE ending # "die"
  <2>1. /\ wire' = [wire EXCEPT ![l] = From(@, k + 1)]
        /\ disturbed \subseteq disturbed'
        /\ UNCHANGED <<sent, buf, link, proc, count, recent, since>>
    BY <1>2, <1>5
  <2>2. \A q \in Links : q # l =>
          /\ wire'[q] = wire[q] /\ buf'[q] = buf[q] /\ link'[q] = link[q] /\ StillDisturbed(q)
    BY <2>1 DEF ReceiversInv, StillDisturbed
  <2>3. \E n, u, e : Store(l, n, u, e)
    BY <1>2
  <2>4. DOMAIN proc' = Processes
    BY <2>1 DEF CountersInv
  <2> QED
    BY <1>1, <1>3, <2>1, <2>2, <2>3, <2>4, ApartCounts
<1> QED
  BY <1>4, <1>5

LEMMA MqttCounts ==
    ASSUME ReceiversInv, CountersInv, Forward \/ OnMessage \/ OnConnect \/ BreakPublisher
    PROVE  CountersInv'
<1> DEFINE l == "mqtt"
<1>1. l \in Links /\ l \in Processes /\ l \in {"uart", "mqtt"}
  BY DEF Links, Processes
<1>2. on' = on /\ UNCHANGED <<sent, count, recent, since>>
  BY DEF Forward, OnMessage, OnConnect, BreakPublisher, network, statistics
<1>3. DOMAIN proc' = Processes /\ \A q \in Processes : q # l => proc'[q] = proc[q]
  BY DEF Forward, OnMessage, OnConnect, BreakPublisher, CountersInv
<1>4. rows' = rows \/ (\E n, unit, ending : Store(l, n, unit, ending))
  BY DEF Forward, OnMessage, OnConnect, BreakPublisher
<1>5. disturbed \subseteq disturbed'
  <2>1. CASE Forward
    BY <2>1 DEF Forward
  <2>2. CASE OnMessage
    BY <2>2 DEF OnMessage
  <2>3. CASE OnConnect \/ BreakPublisher
    BY <2>3 DEF OnConnect, BreakPublisher
  <2> QED
    BY <2>1, <2>2, <2>3
<1>6. \A q \in Links : q # l => wire'[q] = wire[q] /\ buf'[q] = buf[q] /\ link'[q] = link[q]
  <2>1. CASE Forward
    BY <2>1 DEF Forward, ReceiversInv
  <2>2. CASE OnMessage
    BY <2>2 DEF OnMessage, ReceiversInv
  <2>3. CASE OnConnect \/ BreakPublisher
    BY <2>3 DEF OnConnect, BreakPublisher, network, ReceiversInv
  <2> QED
    BY <2>1, <2>2, <2>3
<1>7. \A q \in Links : StillDisturbed(q)
  BY <1>5 DEF StillDisturbed
<1> HIDE DEF l
<1> QED
  BY <1>1, <1>2, <1>3, <1>4, <1>6, <1>7, ApartCounts

-----------------------------------------------------------------------------
LEMMA CountersInit == TInit => CountersInv
<1> SUFFICES ASSUME TInit PROVE CountersInv
  OBVIOUS
<1>1. ReceiversInv
  BY ReceiversInit
<1>2. /\ sent = [l \in Links |-> <<>>] /\ wire = [l \in Links |-> <<>>]
      /\ buf = [l \in Links |-> <<>>]
      /\ link = [l \in Links |-> IF l \in Connections THEN "none" ELSE "open"]
      /\ proc = [p \in Processes |-> IF p = "mqtt" THEN "subscribed" ELSE "up"]
      /\ count = [p \in Processes |-> Zero] /\ recent = <<>>
      /\ since = [p \in Processes |-> Len(rows)]
  BY DEF TInit, Init
<1>3. Tallied \subseteq Processes /\ "mqtt" \notin Tallied /\ "tcp" \in Processes /\ "can" \in Processes
  BY DEF Tallied, Processes
<1>4. rows \in Seq(Range(rows)) /\ Len(rows) \in Nat /\ DOMAIN rows = 1 .. Len(rows)
  BY <1>1 DEF ReceiversInv
<1>5. Zero \in Counters
  BY DEF Zero, Counters
<1>6. ASSUME NEW p \in Tallied PROVE CountsOf(p)
  <2>1. count[p] = Zero /\ since[p] = Len(rows) /\ proc[p] = "up" /\ p \in Processes
    BY <1>2, <1>3
  <2>2. Cardinality(StoredRows(p)) = 0
    <3>1. StoredRows(p) = {}
      BY <1>4, <2>1 DEF StoredRows
    <3> QED
      BY <3>1, FS_EmptySet
  <2>3. Cardinality(HandledBy(p)) = 0
    <3>1. \A l \in LinksOf(p) : l \in Links
      BY <1>1 DEF LinksOf, ReceiversInv
    <3>2. \A l \in Links : HandledOver(l) = {}
      BY <1>2 DEF HandledOver
    <3>3. HandledBy(p) = {}
      BY <3>1, <3>2 DEF HandledBy
    <3> QED
      BY <3>3, FS_EmptySet
  <2>4. Tally(p)
    BY <2>1, <2>2, <2>3 DEF Tally, Zero
  <2>9. NewestRecorded
    <3>1. since["can"] = Len(rows)
      BY <1>2, <1>3
    <3> QED
      BY <1>4, <3>1 DEF NewestRecorded
  <2>5. Resting(p)
    BY <2>1 DEF Resting
  <2>6. ThreadCounts
    <3>1. Served = {}
      BY <1>2 DEF Served, Links
    <3>2. Cardinality(Served) = 0
      BY <3>1, FS_EmptySet
    <3>3. count["tcp"] = Zero
      BY <1>2, <1>3
    <3> QED
      BY <3>2, <3>3 DEF ThreadCounts, Zero
  <2>7. Frames
    <3>1. count["can"].received = 0 /\ Len(recent) = 0 /\ recent \in Seq(Nat)
      BY <1>2, <1>3 DEF Zero
    <3>2. ~ (0 > BufferSize)
      BY BoundsAssumption
    <3> QED
      BY <3>1, <3>2 DEF Frames
  <2>8. since[p] \in 0 .. Len(rows)
    BY <1>4, <2>1
  <2> QED
    BY <1>5, <2>1, <2>4, <2>5, <2>6, <2>7, <2>8, <2>9 DEF CountsOf
<1> QED
  BY <1>2, <1>6 DEF CountersInv

LEMMA CountersRNext ==
    ASSUME ReceiversInv, LinksNext, CountersInv, RNext
    PROVE  CountersInv'
<1>1. ASSUME NEW l \in on, Serve(l) PROVE CountersInv'
  <2>1. l \in Links
    BY DEF ReceiversInv
  <2>2. ASSUME NEW k \in 1 .. Len(wire[l]), Recv(l, k) PROVE CountersInv'
    BY <2>1, <2>2, ReceiveCounts
  <2>3. CASE HandleLine(l)
    BY <2>3, LineCounts
  <2>4. CASE Finish(l)
    BY <2>1, <2>4, FinishCounts
  <2>5. ASSUME l = "udp", NEW i \in DOMAIN wire["udp"], ReceiveDatagram(i) PROVE CountersInv'
    BY <2>5, DatagramCounts
  <2>6. CASE l = "can" /\ ReceiveFrame
    BY <2>6, FrameCounts
  <2>7. ASSUME NEW k \in DOMAIN wire["uart"], ReadLine(k) PROVE CountersInv'
    BY <2>7, ReadLineCounts
  <2>8. CASE Forward \/ OnMessage \/ OnConnect
    BY <2>8, MqttCounts
  <2> QED
    BY <1>1, <2>2, <2>3, <2>4, <2>5, <2>6, <2>7, <2>8 DEF Serve
<1>2. ASSUME NEW p \in Processes, Crash(p) PROVE CountersInv'
  <2>1. /\ Down(p) /\ UNCHANGED <<on, rows>>
        /\ disturbed' = disturbed \cup {l \in Links : Process(l) = p /\ ~ Unmade(l)}
    BY <1>2 DEF Crash
  <2>2. \A q \in LinksOf(p) : Faulted(q)' \/ Unmade(q)
    BY <2>1 DEF LinksOf, ReceiversInv, Faulted
  <2> QED
    BY <2>1, <2>2, DownCounts
<1>3. ASSUME NEW p \in Processes, Start(p) PROVE CountersInv'
  BY <1>3, StartCounts
<1>4. CASE BreakPublisher
  BY <1>4, MqttCounts
<1>5. ASSUME NEW l \in Connections, Connect(l) \/ HangUp(l) \/ Break(l) PROVE CountersInv'
  BY <1>5, ConnectCounts
<1> QED
  BY <1>1, <1>2, <1>3, <1>4, <1>5, SendingCounts DEF RNext

LEMMA CountersNext == ReceiversInv /\ CountersInv /\ [Next]_vars => CountersInv'
<1> SUFFICES ASSUME ReceiversInv, CountersInv, [Next]_vars PROVE CountersInv'
  OBVIOUS
<1>1. ReceiversInv'
  BY ReceiversNext
<1>2. LinksNext
  BY <1>1 DEF ReceiversInv, LinksNext
<1>3. CASE RNext
  BY <1>2, <1>3, CountersRNext
<1>4. ASSUME UNCHANGED rvars PROVE CountersInv'
  <2>1. UNCHANGED <<on, rows, sent, wire, buf, link, proc, count, recent, since, disturbed>>
    BY <1>4 DEF rvars, network, statistics
  <2>2. \A p : HandledOver(p)' = HandledOver(p) /\ Stream(p)' = Stream(p)
    BY <2>1 DEF HandledOver, Stream
  <2>3. \A q \in Tallied : Elsewhere(q)
    BY <2>1 DEF Elsewhere, StillDisturbed
  <2> QED
    BY <2>1, <2>3, ElsewhereKept DEF CountersInv
<1> QED
  BY <1>3, <1>4 DEF Next, Request, vars

LEMMA CountersHold == TInit /\ [][Next]_vars => [](ReceiversInv /\ CountersInv)
<1>1. TInit => ReceiversInv /\ CountersInv
  BY ReceiversInit, CountersInit
<1>2. ReceiversInv /\ CountersInv /\ [Next]_vars => ReceiversInv' /\ CountersInv'
  BY ReceiversNext, CountersNext
<1> QED
  BY <1>1, <1>2, PTL

\* Where nothing is on its way, what was sent has been handled.
LEMMA AllHandled ==
    ASSUME ReceiversInv, NEW p, \A l \in LinksOf(p) : wire[l] \o buf[l] = <<>>
    PROVE  HandledBy(p) = SentTo(p)
<1>1. ASSUME NEW l \in LinksOf(p)
      PROVE  HandledOver(l) = {n \in DOMAIN sent[l] : sent[l][n] # "blank"}
  <2>1. buf[l] \in Seq(PartsOf(l)) /\ wire[l] \in Seq(PartsOf(l))
    BY DEF LinksOf, ReceiversInv, LinkInv, Typed
  <2>2. wire[l] \o buf[l] = <<>>
    OBVIOUS
  <2> DEFINE b == buf[l]
             w == wire[l]
  <2>3. Len(w \o b) = Len(w) + Len(b) /\ Len(b) \in Nat /\ Len(w) \in Nat
    BY <2>1, Concatenation
  <2>4. Len(b \o w) = Len(b) + Len(w)
    BY <2>1, Concatenation
  <2>5. Len(w \o b) = 0
    BY <2>2
  <2> HIDE DEF b, w
  <2>6. Len(b \o w) = 0
    BY <2>3, <2>4, <2>5
  <2> QED
    BY <2>6 DEF HandledOver, Stream, b, w
<1> QED
  BY <1>1 DEF HandledBy, SentTo

(* The counters add up through errors, broken connections and restarts:     *)
(* active connections are those whose thread runs, however it ended; a      *)
(* reading is counted once it is stored; where all has been handled, each   *)
(* message is counted as received or as an error.                           *)
THEOREM CountersCorrect == TInit /\ [][Next]_vars => []CountersAddUp
<1>1. ReceiversInv /\ CountersInv => CountersAddUp
  <2> SUFFICES ASSUME ReceiversInv, CountersInv PROVE CountersAddUp
    OBVIOUS
  <2>1. CountsOf("tcp") /\ CountsOf("udp") /\ CountsOf("can")
    BY DEF CountersInv, Tallied
  <2>2. ThreadCounts
    BY <2>1 DEF CountsOf
  <2>3. ASSUME NEW p \in {"tcp", "udp"} PROVE count[p].received = StoredSince(p)
    <3>1. Tally(p) /\ p # "can"
      BY <2>1 DEF CountsOf
    <3> QED
      BY <3>1 DEF Tally, StoredSince, StoredRows
  <2>4. count["can"].received >= StoredSince("can")
    BY <2>1 DEF CountsOf, Tally, StoredSince, StoredRows
  <2>5. ASSUME NEW p \in {"tcp", "udp", "can"}, Handled(p)
        PROVE  count[p].received + count[p].errors = Cardinality(SentTo(p))
    <3>1. HandledBy(p) = SentTo(p)
      BY <2>5, AllHandled DEF Handled
    <3>2. \A l \in LinksOf(p) : ~ Faulted(l)
      BY <2>5 DEF Handled, Faulted, Nulled
    <3>3. Tally(p)
      BY <2>1 DEF CountsOf
    <3> QED
      BY <3>1, <3>2, <3>3 DEF Tally
  <2> QED
    BY <2>2, <2>3, <2>4, <2>5 DEF CountersAddUp, ThreadCounts
<1> QED
  BY <1>1, CountersHold, PTL

(* The frame buffer holds the newest frames, in order, as many as it has    *)
(* room for: a frame that was stored since the receiver's start and is not  *)
(* in the buffer is older than all that are.                                *)
THEOREM BufferCorrect == TInit /\ [][Next]_vars => []BufferHoldsNewest
<1>1. ReceiversInv /\ CountersInv => BufferHoldsNewest
  <2> SUFFICES ASSUME ReceiversInv, CountersInv PROVE BufferHoldsNewest
    OBVIOUS
  <2>1. Frames /\ NewestRecorded
    BY DEF CountersInv, CountsOf, Tallied
  <2>2. DOMAIN recent = 1 .. Len(recent) /\ DOMAIN rows = 1 .. Len(rows)
    BY <2>1 DEF Frames, ReceiversInv
  <2>3. ASSUME NEW i \in DOMAIN rows, i > since["can"], rows[i].from = "can"
        PROVE  \/ rows[i].value \in Range(recent)
               \/ Len(recent) = BufferSize /\ \A n \in Range(recent) : rows[i].value < n
    <3>1. Buffered(recent, rows[i].value)
      BY <2>1, <2>2, <2>3 DEF NewestRecorded
    <3> QED
      BY <2>2, <3>1 DEF Buffered, Range
  <2>4. /\ Len(recent) = IF count["can"].received > BufferSize THEN BufferSize
                                                               ELSE count["can"].received
        /\ \A i, j \in DOMAIN recent : i < j => recent[i] < recent[j]
    BY <2>1, <2>2 DEF Frames
  <2> QED
    BY <2>3, <2>4 DEF BufferHoldsNewest
<1> QED
  BY <1>1, CountersHold, PTL

-----------------------------------------------------------------------------
(* Without a link in use the table stays as it was.                         *)
RestInv == AtRest =>
    /\ IsTable(rows)
    /\ \A i \in DOMAIN rows : rows[i].sensor \in Sensors

LEMMA RestInit == TInit => RestInv
<1> SUFFICES ASSUME TInit PROVE RestInv
  OBVIOUS
<1>1. PICK start \in Starts : rows = start.rows
  BY DEF TInit, Init
<1>2. \A i \in DOMAIN rows : /\ rows[i] # None /\ rows[i].sensor \in Sensors
                             /\ rows[i].at \in Int /\ rows[i].value \in Int
  BY <1>1, TablesAssumption
<1>3. rows \in Seq(Range(rows))
  BY <1>1, StartsAssumption
<1> QED
  BY <1>2, <1>3 DEF RestInv, IsTable

LEMMA RestNext ==
    ASSUME RestInv, [Next]_vars
    PROVE  RestInv'
<1>1. CASE RNext
  <2>1. on' = on
    BY <1>1, LinksInUse
  <2>2. ASSUME on = {} PROVE rows' = rows
    <3>1. ASSUME \/ \E l \in Connections : \E kind \in Kinds(l) : SendLine(l, kind)
                 \/ \E kind \in Kinds("uart") : SendSerial(kind)
                 \/ \E kind \in Kinds("udp"), copies \in 0 .. 2 : SendDatagram(kind, copies)
                 \/ \E kind \in Kinds("can") : SendFrame(kind)
                 \/ \E kind \in Kinds("mqtt") : Publish(kind)
          PROVE  rows' = rows
      BY <3>1 DEF SendLine, SendSerial, SendDatagram, SendFrame, Publish, Send
    <3>2. ASSUME \/ \E l \in Connections : Connect(l) \/ HangUp(l) \/ Break(l)
                 \/ BreakPublisher
                 \/ \E p \in Processes : Crash(p) \/ Start(p)
          PROVE  rows' = rows
      BY <3>2 DEF Connect, HangUp, Break, BreakPublisher, Crash, Start
    <3> QED
      BY <1>1, <2>2, <3>1, <3>2 DEF RNext
  <2> QED
    BY <2>1, <2>2 DEF RestInv, AtRest, IsTable
<1>2. CASE Request \/ UNCHANGED vars
  BY <1>2 DEF Request, vars, rvars, RestInv, AtRest, IsTable
<1> QED
  BY <1>1, <1>2 DEF Next

LEMMA RestCorrect == TInit /\ [][Next]_vars => []RestInv
BY RestInit, RestNext, PTL

-----------------------------------------------------------------------------
(* Activity, in the rows rs of a sensor.                                    *)
LEMMA ActiveByLast ==
    ASSUME NEW t, IsTable(t), NEW S, NEW s \in S, NEW now \in Int
    PROVE  LET rs == Of(t, s) IN
           /\ rs # <<>> => /\ Len(rs) \in Nat \ {0} /\ DOMAIN rs = 1 .. Len(rs)
                           /\ rs[Len(rs)].at \in Int
                           /\ LatestReading(t, s) = rs[Len(rs)]
           /\ s \in ActiveSensors(t, S, now) <=>
                rs # <<>> /\ rs[Len(rs)].at >= now - ActiveMinutes
           /\ s \in InactiveSensors(t, S, ActiveMinutes, now) <=>
                ~ (rs # <<>> /\ rs[Len(rs)].at >= now - ActiveMinutes)
<1> DEFINE rs == Of(t, s)
<1>1. IsTable(rs)
  BY OfTable
<1> HIDE DEF rs
<1>2. CASE rs = <<>>
  BY <1>2 DEF ActiveSensors, InactiveSensors, LatestReading, rs
<1>3. CASE rs # <<>>
  <2>1. Len(rs) \in Nat \ {0} /\ DOMAIN rs = 1 .. Len(rs) /\ Len(rs) \in DOMAIN rs
    BY <1>1, <1>3 DEF IsTable
  <2>2. LatestReading(t, s) = rs[Len(rs)]
    BY <1>3 DEF LatestReading, Last, rs
  <2>3. rs[Len(rs)].at \in Int /\ rs[Len(rs)] # None
    BY <1>1, <2>1 DEF IsTable
  <2>4. now - ActiveMinutes \in Int
    BY MinutesAssumption
  <2>5. s \in ActiveSensors(t, S, now) <=> rs[Len(rs)].at >= now - ActiveMinutes
    BY <2>2, <2>3 DEF ActiveSensors
  <2>6. s \in InactiveSensors(t, S, ActiveMinutes, now) <=> rs[Len(rs)].at < now - ActiveMinutes
    BY <2>2, <2>3 DEF InactiveSensors
  <2>7. rs[Len(rs)].at < now - ActiveMinutes <=> ~ (rs[Len(rs)].at >= now - ActiveMinutes)
    BY <2>3, <2>4
  <2> QED
    BY <1>3, <2>1, <2>2, <2>3, <2>5, <2>6, <2>7 DEF rs
<1> QED
  BY <1>2, <1>3

LEMMA FleetUnhealthy ==
    ASSUME NEW total \in Nat, NEW active \in Nat, NEW inactive \in Nat, NEW uptodate \in Nat,
           active + inactive = total
    PROVE  FleetStatus(total, active, uptodate) = "unhealthy" <=> inactive > active
BY DEF FleetStatus

(* The health of a sensor, from its last rows.                              *)
LEMMA HealthByLast ==
    ASSUME NEW t, IsTable(t), NEW s, NEW now \in Int
    PROVE  LET rs == Of(t, s)
               health == SensorHealth(t, s, now)
               current == rs # <<>> /\ rs[Len(rs)].at >= now - ActiveMinutes
           IN  /\ rs = <<>> <=> health = "no-data"
               /\ current <=> health \in {"healthy", "stuck"}
               /\ health = "stuck" <=> /\ current /\ Len(rs) >= StuckRows
                                       /\ DetectStuck(t, s, Min({Len(rs), HealthRows}))
<1> DEFINE rs == Of(t, s)
           newest == Newest(rs, HealthRows)
           n == IF HealthRows < Len(rs) THEN HealthRows ELSE Len(rs)
           last == rs[Len(rs)]
           health == SensorHealth(t, s, now)
           equal == Cardinality(Range(ValuesOf(newest))) = 1
<1>1. IsTable(rs)
  BY OfTable
<1>2. /\ HealthRows \in Nat \ {0} /\ StuckRows \in Nat \ {0} /\ StuckRows <= HealthRows
      /\ now - ActiveMinutes \in Int
  BY RowsAssumption, MinutesAssumption
<1>3. health = IF newest = <<>> THEN "no-data"
               ELSE IF Head(newest).at < now - ActiveMinutes THEN "stale"
               ELSE IF equal /\ Len(newest) >= StuckRows THEN "stuck" ELSE "healthy"
  BY DEF SensorHealth
<1>4. \A samples : DetectStuck(t, s, samples) <=>
        /\ Len(ValuesOf(Newest(rs, samples))) = samples
        /\ Cardinality(Range(ValuesOf(Newest(rs, samples)))) = 1
  BY DEF DetectStuck
<1> HIDE DEF rs, health
<1>5. rs \in Seq(Range(rs))
  BY <1>1 DEF IsTable
<1>6. /\ newest \in Seq(Range(rs)) /\ Len(newest) = n
      /\ \A i \in 1..n : newest[i] = rs[Len(rs) - i + 1]
  BY <1>2, <1>5, NewestRows
<1> HIDE DEF newest
<1>7. CASE rs = <<>>
  <2>1. newest = <<>>
    BY <1>2, <1>6, <1>7
  <2> QED
    BY <1>3, <1>7, <2>1 DEF health, rs
<1>8. CASE rs # <<>>
  <2> DEFINE fewer == Min({Len(rs), HealthRows})
  <2>1. Len(rs) \in Nat \ {0} /\ n \in 1 .. Len(rs) /\ Len(rs) \in DOMAIN rs
    BY <1>2, <1>5, <1>8
  <2>2. newest # <<>> /\ Head(newest) = last
    BY <1>6, <2>1
  <2>3. last.at \in Int
    BY <1>1, <2>1 DEF IsTable
  <2>4. fewer = n /\ Newest(rs, fewer) = newest
    BY <1>2, <1>5, <1>8, NewestOfMore DEF newest
  <2>5. Len(ValuesOf(newest)) = n
    <3>1. ValuesOf(newest) = [i \in 1 .. n |-> newest[i].value]
      BY <1>6 DEF ValuesOf
    <3> QED
      BY <2>1, <3>1
  <2>6. DetectStuck(t, s, fewer) <=> equal
    BY <1>4, <2>4, <2>5
  <2>7. Len(newest) >= StuckRows <=> Len(rs) >= StuckRows
    BY <1>2, <1>6, <2>1
  <2> HIDE DEF fewer, equal, last
  <2>8. /\ health # "no-data"
        /\ last.at >= now - ActiveMinutes <=> health \in {"healthy", "stuck"}
        /\ health = "stuck" <=> /\ last.at >= now - ActiveMinutes /\ Len(rs) >= StuckRows
                                /\ DetectStuck(t, s, fewer)
    BY <1>2, <1>3, <2>2, <2>3, <2>6, <2>7
  <2> QED
    BY <1>8, <2>8 DEF health, rs, fewer, last
<1> QED
  BY <1>7, <1>8

(* The rate counts the readings after the cutoff and those just at it.      *)
LEMMA RateByCutoff ==
    ASSUME NEW t, IsTable(t), NEW s, NEW minutes \in Int, NEW now \in Int
    PROVE  LET rs == Of(t, s)
               cutoff == now - minutes
           IN  SensorRate(t, s, minutes, now) =
                 Len(ReadingsWindow(t, s, cutoff, Len(t)))
                   + Cardinality({i \in DOMAIN rs : rs[i].at = cutoff})
<1> DEFINE rs == Of(t, s)
           cutoff == now - minutes
           After == {i \in DOMAIN rs : rs[i].at > cutoff}
           Just == {i \in DOMAIN rs : rs[i].at = cutoff}
           Late == {i \in DOMAIN rs : rs[i].at >= cutoff}
           key == [i \in After |-> rs[i].at]
           own == {i \in DOMAIN t : t[i].sensor = s}
<1>1. IsTable(rs) /\ Len(rs) = Cardinality(own)
  BY ByIdTable DEF Of
<1>2. Cardinality(own) <= Len(t) /\ Len(t) \in Nat
  <2>1. t \in Seq(Range(t)) /\ own \in SUBSET DOMAIN t
    BY DEF IsTable
  <2> HIDE DEF own
  <2> QED
    BY <2>1, PositionsFinite
<1> HIDE DEF rs, own
<1>3. /\ IsFiniteSet(After) /\ Cardinality(After) \in Nat /\ Cardinality(After) <= Len(rs)
      /\ IsFiniteSet(Just) /\ Len(rs) \in Nat
  BY <1>1, PositionsFinite DEF IsTable
<1>4. After \cup Just = Late /\ After \cap Just = {}
  BY <1>1 DEF IsTable
<1>5. Cardinality(Late) = Cardinality(After) + Cardinality(Just)
  <2>1. Cardinality(After \cup Just)
          = Cardinality(After) + Cardinality(Just) - Cardinality(After \cap Just)
    BY <1>3, FS_Union
  <2>2. Cardinality(Just) \in Nat
    BY <1>3, FS_CardinalityType
  <2> HIDE DEF After, Just, Late
  <2> QED
    <3>1. Cardinality(After \cap Just) = 0
      BY <1>4, FS_EmptySet
    <3>2. Cardinality(Late) = Cardinality(After) + Cardinality(Just) - 0
      BY <1>4, <2>1, <3>1, Zenon
    <3> QED
      BY <1>3, <2>2, <3>2
<1>6. key \in [After -> Int]
  BY <1>1 DEF IsTable
<1>7. IsTable(Arranged(rs, key)) /\ Len(Arranged(rs, key)) = Cardinality(After)
  <2>1. After \in SUBSET DOMAIN rs
    OBVIOUS
  <2> HIDE DEF After, key
  <2> QED
    BY <1>1, <1>6, <2>1, ArrangedTable
<1>8. ReadingsWindow(t, s, cutoff, Len(t)) = Oldest(Arranged(rs, key), Len(t))
  BY DEF ReadingsWindow, rs
<1>9. Len(Oldest(Arranged(rs, key), Len(t))) = Cardinality(After)
  <2> DEFINE a == Arranged(rs, key)
  <2>1. a \in Seq(Range(a)) /\ Len(a) <= Len(t) /\ Len(a) = Cardinality(After)
    BY <1>1, <1>2, <1>3, <1>7 DEF IsTable
  <2> HIDE DEF a, After
  <2>2. Len(Oldest(a, Len(t))) = Len(a)
    BY <1>2, <2>1 DEF Oldest
  <2> QED
    BY <2>1, <2>2 DEF a
<1>10. SensorRate(t, s, minutes, now) = Cardinality(Late)
  BY DEF SensorRate, rs
<1> QED
  BY <1>5, <1>8, <1>9, <1>10 DEF rs

(* In a table in the order of times, the last row of a sensor is its latest.*)
LEMMA RateByLast ==
    ASSUME NEW t, IsTable(t), NEW s, NEW minutes \in Int, NEW now \in Int, InTimeOrder(Of(t, s))
    PROVE  LET rs == Of(t, s)
           IN  rs # <<>> /\ rs[Len(rs)].at >= now - minutes
                 <=> SensorRate(t, s, minutes, now) > 0
<1> DEFINE rs == Of(t, s)
           Late == {i \in DOMAIN rs : rs[i].at >= now - minutes}
<1>1. IsTable(rs)
  BY OfTable
<1>2. SensorRate(t, s, minutes, now) = Cardinality(Late)
  BY DEF SensorRate
<1>3. InTimeOrder(rs)
  OBVIOUS
<1> HIDE DEF rs
<1>4. /\ DOMAIN rs = 1 .. Len(rs) /\ Len(rs) \in Nat /\ rs = <<>> <=> Len(rs) = 0
      /\ \A i \in DOMAIN rs : rs[i].at \in Int
  BY <1>1 DEF IsTable
<1>5. IsFiniteSet(Late)
  BY <1>1, PositionsFinite DEF IsTable
<1>6. Late # {} <=> rs # <<>> /\ rs[Len(rs)].at >= now - minutes
  <2>1. ASSUME NEW i \in Late PROVE rs # <<>> /\ rs[Len(rs)].at >= now - minutes
    <3>1. i \in 1 .. Len(rs) /\ Len(rs) \in DOMAIN rs
      BY <1>4
    <3>2. rs[i].at <= rs[Len(rs)].at
      BY <1>3, <1>4, <3>1 DEF InTimeOrder
    <3>3. rs[i].at \in Int /\ rs[Len(rs)].at \in Int /\ rs[i].at >= now - minutes
      BY <1>4, <3>1
    <3> QED
      BY <1>4, <3>1, <3>2, <3>3
  <2>2. ASSUME rs # <<>>, rs[Len(rs)].at >= now - minutes PROVE Len(rs) \in Late
    BY <1>4, <2>2
  <2> QED
    BY <2>1, <2>2
<1>7. Cardinality(Late) > 0 <=> Late # {}
  <2> HIDE DEF Late
  <2>1. Cardinality(Late) \in Nat /\ (Cardinality(Late) = 0 <=> Late = {})
    BY <1>5, FS_CardinalityType, FS_EmptySet
  <2> QED
    BY <2>1
<1> HIDE DEF Late
<1> QED
  BY <1>2, <1>6, <1>7 DEF rs

LEMMA NewestListed ==
    ASSUME NEW t, IsTable(t), NEW s, Of(t, s) # <<>>, InTimeOrder(Of(t, s))
    PROVE  ListReadings(t, s, None, None, 1)[1].at = LatestReading(t, s).at
<1> DEFINE rs == Of(t, s)
           key == [i \in DOMAIN rs |-> -rs[i].at]
           a == Arranged(rs, key)
<1>1. IsTable(rs)
  BY OfTable
<1>2. ListReadings(t, s, None, None, 1) = Oldest(a, 1)
  BY DEF ListReadings
<1>3. LatestReading(t, s) = rs[Len(rs)]
  BY DEF LatestReading, Last
<1>4. InTimeOrder(rs) /\ rs # <<>>
  OBVIOUS
<1> HIDE DEF rs
<1> DEFINE n == Len(rs)
<1>5. /\ DOMAIN rs = 1 .. n /\ n \in Nat \ {0}
      /\ \A i \in 1 .. n : rs[i].at \in Int
  BY <1>1, <1>4 DEF IsTable
<1>6. key \in [DOMAIN rs -> Int]
  BY <1>5
<1>7. /\ DOMAIN rs \in SUBSET Int /\ IsFiniteSet(DOMAIN rs) /\ Cardinality(DOMAIN rs) = n
  BY <1>1, PositionsFinite DEF IsTable
<1> DEFINE k == Cardinality(UpTo(key, n))
           i == Placed(key, 1)
<1>8. /\ IsTable(a) /\ Len(a) = n /\ i \in DOMAIN rs /\ a[1] = rs[i]
  <2> HIDE DEF key
  <2>1. DOMAIN rs \in SUBSET DOMAIN rs
    OBVIOUS
  <2>2. /\ IsTable(a) /\ Len(a) = Cardinality(DOMAIN rs)
        /\ \A m \in 1 .. Cardinality(DOMAIN rs) : /\ Placed(key, m) \in DOMAIN rs
                                                  /\ a[m] = rs[Placed(key, m)]
    BY <1>1, <1>6, <2>1, ArrangedTable
  <2> QED
    BY <1>5, <1>7, <2>2
<1>9. i = n \/ key[i] <= key[n]
  <2> HIDE DEF key
  <2>1. n \in DOMAIN rs /\ 1 \in 1 .. n
    BY <1>5
  <2>2. k \in 1 .. n /\ Placed(key, k) = n
    BY <1>6, <1>7, <2>1, RankRange, Places
  <2>3. CASE k = 1
    BY <2>2, <2>3
  <2>4. CASE 1 < k
    <3>1. key[i] < key[n] \/ (key[i] = key[n] /\ i < n)
      BY <1>6, <1>7, <2>1, <2>2, <2>4, Places
    <3>2. key[i] \in Int /\ key[n] \in Int
      BY <1>6, <1>8, <2>1
    <3> QED
      BY <3>1, <3>2
  <2> HIDE DEF k
  <2> QED
    BY <2>2, <2>3, <2>4
<1>10. rs[i].at = rs[n].at
  <2> HIDE DEF i
  <2>1. i \in 1 .. n /\ n \in 1 .. n /\ rs[i].at \in Int /\ rs[n].at \in Int
    BY <1>5, <1>8
  <2>2. i = n \/ -rs[i].at <= -rs[n].at
    BY <1>5, <1>9, <2>1
  <2>3. ASSUME i < n PROVE rs[i].at <= rs[n].at
    BY <1>4, <1>5, <2>1, <2>3 DEF InTimeOrder
  <2> QED
    BY <2>1, <2>2, <2>3
<1>11. Oldest(a, 1)[1] = a[1]
  <2> HIDE DEF a
  <2>1. a \in Seq(Range(a)) /\ Len(a) \in Nat \ {0}
    BY <1>5, <1>8 DEF IsTable
  <2>2. Oldest(a, 1) = SubSeq(a, 1, 1)
    BY <2>1 DEF Oldest
  <2> QED
    BY <2>1, <2>2
<1> HIDE DEF a, i
<1> QED
  BY <1>2, <1>3, <1>8, <1>10, <1>11

LEMMA ExportedLast ==
    ASSUME NEW t, IsTable(t), NEW S, NEW s \in S, Of(t, s) # <<>>
    PROVE  LatestPerSensor(t, S)[s] = Last(ExportCsv(t, s, Len(Of(t, s))))
<1> DEFINE rs == Of(t, s)
<1>1. IsTable(rs)
  BY OfTable
<1>2. LatestPerSensor(t, S)[s] = Last(rs)
  BY DEF LatestPerSensor, LatestReading
<1>3. ExportCsv(t, s, Len(rs)) = Oldest(rs, Len(rs))
  BY DEF ExportCsv
<1> HIDE DEF rs
<1>4. Oldest(rs, Len(rs)) = rs
  BY <1>1 DEF Oldest, IsTable
<1> QED
  BY <1>2, <1>3, <1>4 DEF rs

LEMMA ActivityOfTable == RestInv => ActivityAgrees
<1> SUFFICES ASSUME IsTable(rows) PROVE ActivityAgrees
  BY DEF RestInv, ActivityAgrees
<1> DEFINE active == ActiveSensors(rows, Sensors, Now)
           inactive == InactiveSensors(rows, Sensors, ActiveMinutes, Now)
           current(s) == Of(rows, s) # <<>> /\ Of(rows, s)[Len(Of(rows, s))].at >= Now - ActiveMinutes
<1>1. Now \in Int /\ ActiveMinutes \in Int
  BY BoundsAssumption, MinutesAssumption
<1>2. \A s \in Sensors : (s \in active <=> current(s)) /\ (s \in inactive <=> ~ current(s))
  BY <1>1, ActiveByLast
<1>3. active \subseteq Sensors /\ inactive \subseteq Sensors
  BY DEF ActiveSensors, InactiveSensors
<1>4. active \cup inactive = Sensors /\ active \cap inactive = {}
  <2> HIDE DEF active, inactive, current
  <2> QED
    BY <1>2, <1>3
<1>5. ASSUME NEW uptodate \in 0 .. Cardinality(Sensors)
      PROVE  FleetStatus(Cardinality(Sensors), Cardinality(active), uptodate) = "unhealthy"
               <=> Cardinality(inactive) > Cardinality(active)
  <2> HIDE DEF active, inactive
  <2>1. IsFiniteSet(Sensors) /\ IsFiniteSet(active) /\ IsFiniteSet(inactive)
    BY <1>3, ArgumentsAssumption, FS_Subset
  <2>2. /\ Cardinality(Sensors) \in Nat /\ Cardinality(active) \in Nat
        /\ Cardinality(inactive) \in Nat
    BY <2>1, FS_CardinalityType
  <2>3. Cardinality(active) + Cardinality(inactive) = Cardinality(Sensors)
    <3>1. Cardinality(active \cup inactive)
            = Cardinality(active) + Cardinality(inactive) - Cardinality(active \cap inactive)
      BY <2>1, FS_Union
    <3> QED
      BY <1>4, <2>2, <3>1, FS_EmptySet
  <2>4. uptodate \in Nat
    BY <2>2
  <2> QED
    BY <2>2, <2>3, <2>4, FleetUnhealthy
<1>6. ASSUME NEW s \in Sensors
      PROVE  LET rs == Of(rows, s)
                 health == SensorHealth(rows, s, Now)
             IN
             /\ s \in active <=> health \in {"healthy", "stuck"}
             /\ rs = <<>> <=> health = "no-data"
             /\ health = "stuck" <=>
                  /\ s \in active /\ Len(rs) >= StuckRows
                  /\ DetectStuck(rows, s, Min({Len(rs), HealthRows}))
  <2> DEFINE rs == Of(rows, s)
             health == SensorHealth(rows, s, Now)
             stuck == DetectStuck(rows, s, Min({Len(rs), HealthRows}))
  <2>1. /\ rs = <<>> <=> health = "no-data"
        /\ current(s) <=> health \in {"healthy", "stuck"}
        /\ health = "stuck" <=> /\ current(s) /\ Len(rs) >= StuckRows /\ stuck
    BY <1>1, HealthByLast
  <2>2. s \in active <=> current(s)
    BY <1>2
  <2> HIDE DEF rs, health, stuck, active, current
  <2>3. /\ s \in active <=> health \in {"healthy", "stuck"}
        /\ rs = <<>> <=> health = "no-data"
        /\ health = "stuck" <=> /\ s \in active /\ Len(rs) >= StuckRows /\ stuck
    BY <2>1, <2>2
  <2> QED
    BY <2>3 DEF rs, health, stuck
<1>7. ASSUME NEW s \in Sensors
      PROVE  LET rs == Of(rows, s)
                 cutoff == Now - ActiveMinutes
             IN
             /\ SensorRate(rows, s, ActiveMinutes, Now) =
                  Len(ReadingsWindow(rows, s, cutoff, Len(rows)))
                    + Cardinality({i \in DOMAIN rs : rs[i].at = cutoff})
             /\ InTimeOrder(rs) =>
                  (s \in active <=> SensorRate(rows, s, ActiveMinutes, Now) > 0)
  <2>1. ASSUME InTimeOrder(Of(rows, s))
        PROVE  s \in active <=> SensorRate(rows, s, ActiveMinutes, Now) > 0
    <3>1. current(s) <=> SensorRate(rows, s, ActiveMinutes, Now) > 0
      BY <1>1, <2>1, RateByLast
    <3> HIDE DEF active, current
    <3> QED
      BY <1>2, <3>1
  <2> HIDE DEF active
  <2> QED
    BY <1>1, <2>1, RateByCutoff
<1>8. ASSUME NEW s \in Sensors, Of(rows, s) # <<>>
      PROVE  LET rs == Of(rows, s) IN
             /\ LatestPerSensor(rows, Sensors)[s] = Last(ExportCsv(rows, s, Len(rs)))
             /\ InTimeOrder(rs) => ListReadings(rows, s, None, None, 1)[1].at
                                     = LatestReading(rows, s).at
  BY <1>8, ExportedLast, NewestListed
<1> HIDE DEF active, inactive, current
<1> QED
  BY <1>4, <1>5, <1>6, <1>7, <1>8 DEF ActivityAgrees, active, inactive

(* The endpoints that say whether a sensor is active agree, over every      *)
(* table, and for every set of sensors, cutoff and number of rows looked at.*)
THEOREM ActivityCorrect == TInit /\ [][Next]_vars => []ActivityAgrees
BY RestCorrect, ActivityOfTable, PTL

LEMMA SplitsOfTable == RestInv => SplitsAreExact
<1> SUFFICES ASSUME IsTable(rows), \A i \in DOMAIN rows : rows[i].sensor \in Sensors
             PROVE  SplitsAreExact
  BY DEF RestInv, SplitsAreExact
<1>1. Windows \subseteq Nat \ {0} /\ Bounds \subseteq Int \cup {None}
  BY ArgumentsAssumption
<1>2. ASSUME NEW s \in Sensors, NEW window \in Windows, NEW bucket \in 1 .. window
      PROVE  ChunksAddUp(s, window, bucket)
  <2>1. window \in Nat \ {0} /\ bucket \in Nat \ {0}
    BY <1>1
  <2> QED
    BY <2>1, AggregateAddsUp DEF ChunksAddUp, InTimeOrder
<1>3. ASSUME NEW s \in Sensors, NEW window \in Windows, NEW bins \in 2 .. window
      PROVE  BinsAddUp(s, window, bins)
  <2>1. window \in Nat \ {0} /\ bins \in Nat \ {0, 1}
    BY <1>1
  <2> DEFINE vs == ValuesOf(Newest(Of(rows, s), window))
  <2>2. ASSUME NEW off \in Offs(vs)
        PROVE  LET counts == Distribution(rows, s, bins, window, off)
               IN  /\ Total(counts) = Len(vs)
                   /\ Len(counts) = bins => \A b \in 1 .. bins :
                        /\ counts[b] >= Cardinality(Reached(vs, b, bins, -Error))
                        /\ counts[b] <= Cardinality(Reached(vs, b, bins, Error))
    BY <2>1, DistributionAddsUp
  <2>3. \A b, slack : Reached(vs, b, bins, slack) = InBin(vs, b, bins, slack)
    BY DEF Reached, InBin
  <2> HIDE DEF vs
  <2> QED
    BY <2>2, <2>3 DEF BinsAddUp, vs
<1>4. ASSUME NEW s \in Sensors, NEW window \in Windows,
             NEW minValue \in Bounds, NEW maxValue \in Bounds
      PROVE  ViolationsAddUp(s, window, minValue, maxValue)
  <2>1. window \in Nat \ {0}
    BY <1>1
  <2>2. minValue \in Int \cup {None} /\ maxValue \in Int \cup {None}
    BY <1>1
  <2>3. ViolationsOnce(rows, s, window, minValue, maxValue)
    BY <2>1, <2>2, ViolationsExact
  <2> QED
    BY <2>3 DEF ViolationsOnce, ViolationsAddUp
<1>5. \A s, q \in Sensors : s # q =>
        GroupStats(rows, {s, q}).count = SummaryStats(rows, s).count + SummaryStats(rows, q).count
  BY GroupAddsUp
<1>6. ASSUME NEW n \in Windows, n <= Len(rows)
      PROVE  RecentReadings(rows, Sensors, n) = Reverse(ReadingsSince(rows, Len(rows) - n, n))
  <2>1. n \in Nat \ {0}
    BY <1>1
  <2> QED
    BY <1>6, <2>1, RecentFollows
<1> QED
  BY <1>2, <1>3, <1>4, <1>5, <1>6 DEF SplitsAreExact

(* No endpoint that splits the readings of a window loses or doubles one,   *)
(* over every table, and for every window, bucket, number of bins, bounds,  *)
(* length of the list of violations and rounding error of at most Error,    *)
(* which may move a reading of a histogram across a bound it is as near to. *)
THEOREM SplitsCorrect == TInit /\ [][Next]_vars => []SplitsAreExact
BY RestCorrect, SplitsOfTable, PTL

LEMMA PercentilesOfTable ==
    ASSUME IsTable(rows), NEW s, NEW window \in Nat \ {0},
           Len(ValuesOf(Window(Of(rows, s), window))) > 0
    PROVE  PercentilesAgree(s, window, ValuesOf(Window(Of(rows, s), window)))
<1> DEFINE vs == ValuesOf(Window(Of(rows, s), window))
           n == Len(vs)
           P(p) == Percentile(rows, s, window, p)
<1>1. n \in Nat \ {0}
  <2>1. n \in Nat
    BY NewestValues
  <2> QED
    BY <2>1
<1>2. ASSUME NEW p \in {50, 90, 95, 99}
      PROVE  \E rank \in 0 .. (n - 1) :
               /\ -50 <= 100 * rank - p * (n - 1) /\ 100 * rank - p * (n - 1) <= 50
               /\ Cardinality({i \in 1 .. n : vs[i] < P(p)}) <= rank
               /\ Cardinality({i \in 1 .. n : vs[i] <= P(p)}) > rank
  <2>1. p \in 0 .. 100 /\ p \in p .. 100
    OBVIOUS
  <2>2. PercentileAt(rows, s, window, p, RankOf(n, p))
    BY <1>1, <2>1, PercentileRank
  <2>3. /\ Cardinality({i \in 1 .. n : vs[i] < P(p)}) <= RankOf(n, p)
        /\ Cardinality({i \in 1 .. n : vs[i] <= P(p)}) > RankOf(n, p)
    BY <2>2 DEF PercentileAt
  <2> HIDE DEF n
  <2>4. NearTo(RankOf(n, p), n, p)
    BY <1>1, <2>1, RankNearest
  <2> HIDE DEF vs, P
  <2> QED
    BY <2>3, <2>4 DEF NearTo
<1>3. ASSUME NEW p \in 0 .. 100, NEW q \in p .. 100
      PROVE  P(p) <= P(q)
  BY <1>1, PercentileRank
<1>4. P(50) <= P(90) /\ P(90) <= P(95) /\ P(95) <= P(99)
  <2> HIDE DEF P
  <2> QED
    BY <1>3
<1> QED
  BY <1>2, <1>4 DEF PercentilesAgree

LEMMA StatisticsOfTable == RestInv => StatisticsAgree
<1> SUFFICES ASSUME IsTable(rows), NEW s \in Sensors, NEW window \in Windows
             PROVE  LET vs == ValuesOf(Window(Of(rows, s), window))
                        n == Len(vs)
                    IN
                    /\ n > 0 => PercentilesAgree(s, window, vs) /\ Compare(rows, s, s, window)[1] = 0
                    /\ n >= 3 => TrendAgrees(s, window, vs)
                    /\ n >= EnoughRows => \A sigma \in Sigmas : AnomaliesAgree(s, window, vs, sigma)
                    /\ DetectStuck(rows, s, window) =>
                         \A off \in Offs(vs) : Distribution(rows, s, 2, window, off) = <<window>>
                    /\ \A period \in 2 .. window : MovingAverageAgrees(s, window, vs, period)
  BY DEF RestInv, StatisticsAgree
<1> DEFINE vs == ValuesOf(Window(Of(rows, s), window))
           n == Len(vs)
<1>1. window \in Nat \ {0} /\ Sigmas \subseteq Nat
  BY ArgumentsAssumption
<1>2. ASSUME n > 0 PROVE PercentilesAgree(s, window, vs) /\ Compare(rows, s, s, window)[1] = 0
  BY <1>1, <1>2, PercentilesOfTable, CompareWithItself
<1>3. ASSUME n >= 3 PROVE TrendAgrees(s, window, vs)
  <2>1. ASSUME NEW off \in -Error .. Error
        PROVE  LET trend == Trend(rows, s, window, off)
               IN  /\ 8 * (RiseOver(vs) - StepsOver(vs)) > Error => trend = "rising"
                   /\ trend = "rising" => 8 * (RiseOver(vs) - StepsOver(vs)) > -Error
                   /\ 8 * (RiseOver(vs) + StepsOver(vs)) < -Error => trend = "falling"
                   /\ trend = "falling" => 8 * (RiseOver(vs) + StepsOver(vs)) < Error
    BY <1>1, <1>3, TrendByPairs
  <2> HIDE DEF vs
  <2> QED
    BY <2>1 DEF TrendAgrees, SumOverPairs, RiseOver, StepsOver
<1>4. ASSUME n >= EnoughRows, NEW sigma \in Sigmas PROVE AnomaliesAgree(s, window, vs, sigma)
  <2>1. sigma \in Nat
    BY <1>1
  <2>2. ASSUME NEW off \in Offs(vs)
        PROVE  LET found == Anomalies(rows, s, window, sigma, off)
               IN  /\ Beyond(vs, sigma, Error) \subseteq found
                   /\ found \subseteq Beyond(vs, sigma, -Error)
    BY <1>1, <1>4, <2>1, AnomaliesByPairs
  <2> HIDE DEF vs
  <2> QED
    BY <2>2 DEF AnomaliesAgree, Beyond, AwayOver, SpreadOver, SumOverPairs
<1>5. ASSUME DetectStuck(rows, s, window)
      PROVE  \A off \in Offs(vs) : Distribution(rows, s, 2, window, off) = <<window>>
  BY <1>1, <1>5, StuckStatistics
<1>6. ASSUME NEW period \in 2 .. window PROVE MovingAverageAgrees(s, window, vs, period)
  <2>1. period \in Nat \ {0}
    BY <1>1
  <2>2. LET ma == MovingAverage(rows, s, period, window)
        IN  /\ n >= period => ma[n] = SensorStats(rows, s, period).sum
            /\ MovedBy(vs, ma, period)
    BY <1>1, <2>1, MovingAverageMoves
  <2> HIDE DEF vs
  <2> QED
    BY <2>2 DEF MovingAverageAgrees, MovedBy
<1> HIDE DEF vs
<1> QED
  BY <1>2, <1>3, <1>4, <1>5, <1>6 DEF vs

(* Percentiles have the rank nearest to p and are ordered; the moving       *)
(* average is the mean of the last period; the trend and the anomalies are  *)
(* those that the sums over all pairs of readings give wherever these lie   *)
(* farther from the threshold than a rounding error of at most Error        *)
(* reaches: over every table, and for every window, period and sigma.       *)
THEOREM StatisticsCorrect == TInit /\ [][Next]_vars => []StatisticsAgree
BY RestCorrect, StatisticsOfTable, PTL
==============================================================================
