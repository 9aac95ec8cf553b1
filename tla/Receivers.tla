----------------------------- MODULE Receivers -----------------------------
(***************************************************************************)
(* The processes that receive readings without HTTP and store them: the    *)
(* TCP server and the UDP receiver (app/net), the CAN receiver with its    *)
(* frame buffer (app/can), the UART receiver (app/serial) and the MQTT     *)
(* subscriber (app/mqtt), with the networks that bring them messages.      *)
(*                                                                         *)
(* A receiver handles its messages one after the other, a TCP connection   *)
(* has a thread of its own, and the counters they share have a lock.  So   *)
(* handling one message is one step.  The insert beside other writers of   *)
(* the tables is the subject of SensorStore.                               *)
(***************************************************************************)
EXTENDS Integers, FiniteSets, SequencesExt

CONSTANTS
    Connections,  \* the TCP connections that devices make, each of them once
    SensorOf,     \* SensorOf[l]: the sensor that sends over link l
    MaxSent,      \* bound: MaxSent[l] messages are sent over link l
    BufferSize,   \* max_size of the frame buffer
    Now,          \* the time at which messages are handled
    Starts        \* the links in use and the rows stored before, one choice per behaviour

Links == Connections \cup {"udp", "can", "uart", "mqtt"}
Processes == {"tcp", "udp", "can", "uart", "mqtt"}

Process(l) == IF l \in Connections THEN "tcp" ELSE l

ASSUME ConnectionsAssumption == IsFiniteSet(Connections) /\ Connections \cap Processes = {}
ASSUME BoundsAssumption ==
    MaxSent \in [Links -> Nat] /\ BufferSize \in Nat \ {0} /\ Now \in Int
ASSUME StartsAssumption ==
    \A s \in Starts :
      /\ s.on \subseteq Links
      /\ s.rows \in Seq(Range(s.rows))
      /\ \A i \in DOMAIN s.rows : s.rows[i].from \notin Links

VARIABLES
    on,         \* the links in use
    rows,       \* table reading, in the order of ids
    sent,       \* sent[l]: the kinds of the messages sent over l
    wire,       \* wire[l]: what is on its way
    buf,        \* buf of the TCP threads; for "mqtt" the broker's queue for the subscriber
    link,       \* the state of a TCP connection; of the connection of the MQTT device
    proc,       \* the receivers' processes
    count,      \* their counters
    recent,     \* the CAN frame buffer
    since,      \* history, since[p]: length of rows when process p began
    disturbed   \* history: links of which a message was lost, cut, doubled or delayed by
                \*   the network, by a crash or by a commit that failed

network == <<sent, wire, buf, link>>
statistics == <<count, recent, since>>
rvars == <<on, rows, network, proc, statistics, disturbed>>

(* What a device may send: a good reading of an existing sensor, one of an  *)
(* unknown sensor, something that is no reading, a reading whose value is   *)
(* no number (null in JSON, 1.2.3 on the serial line), a blank line.        *)
Kinds(l) == {"ok", "unknown", "malformed"} \cup (IF l = "can" THEN {} ELSE {"null"})
                                           \cup (IF l \in Connections THEN {"blank"} ELSE {})

Zero == [opened |-> 0, closed |-> 0, active |-> 0, received |-> 0, errors |-> 0]

Init ==
    /\ \E s \in Starts : on = s.on /\ rows = s.rows
    /\ sent = [l \in Links |-> <<>>]
    /\ wire = [l \in Links |-> <<>>]
    /\ buf = [l \in Links |-> <<>>]
    /\ link = [l \in Links |-> IF l \in Connections THEN "none" ELSE "open"]
    /\ proc = [p \in Processes |-> IF p = "mqtt" THEN "subscribed" ELSE "up"]
    /\ count = [p \in Processes |-> Zero]
    /\ recent = <<>>
    /\ since = [p \in Processes |-> Len(rows)]
    /\ disturbed = {}

-----------------------------------------------------------------------------
(* Faulty variants, for comparison.                                         *)

\* Lines are handled while the device is connected.
HasLineWhileOpen(l) ==
    l \in Connections /\ link[l] = "open" /\ SelectInSeq(buf[l], LAMBDA part : part = <<0, 0>>) > 0

\* What follows the line is kept with it.
AfterLineKept(text) == text

\* The frame buffer keeps the oldest frames.
RecordOldest(n) == IF Len(recent) < BufferSize THEN Append(recent, n) ELSE recent

\* A connection that has ended stays active.
ClosedOnly(c) == [c EXCEPT !.closed = @ + 1]

\* A chunk replaces what was left of the one before.
RecvAfresh(l, k) ==
    /\ l \in Connections /\ SelectInSeq(buf[l], LAMBDA part : part = <<0, 0>>) = 0
    /\ buf' = [buf EXCEPT ![l] = SubSeq(wire[l], 1, k)]
    /\ wire' = [wire EXCEPT ![l] = SubSeq(@, k + 1, Len(@))]
    /\ UNCHANGED <<on, rows, sent, link, proc, statistics, disturbed>>

-----------------------------------------------------------------------------
(* Messages and lines.  A message that is not a line is <<n, 0>>.  A line   *)
(* has three parts: a cut before the second leaves no reading, one before   *)
(* the third leaves a reading whose unit is incomplete, where a receiver    *)
(* has no other sign of completeness than the pattern of the text.          *)
Newline == <<0, 0>>
Line(n) == <<<<n, 1>>, <<n, 2>>, <<n, 3>>>>
Message(n) == <<n, 0>>

Whole(l) == {Line(n) : n \in DOMAIN sent[l]}
CutInUnit(l) == {Front(Line(n)) : n \in DOMAIN sent[l]}

\* parse_line of the TCP server: JSON is complete or no JSON.
TcpKind(l, text) == IF text \in Whole(l) THEN sent[l][text[1][1]] ELSE "malformed"

\* parse_line of the UART receiver.
UartKind(text) == IF text \in Whole("uart") \cup CutInUnit("uart")
                    THEN sent["uart"][text[1][1]] ELSE "malformed"

FirstNewline(text) == SelectInSeq(text, LAMBDA part : part = Newline)

From(text, i) == SubSeq(text, i, Len(text))

-----------------------------------------------------------------------------
(* What becomes of a message of each kind.  "die": the exception leaves the *)
(* loop and ends the thread of the connection, or the process.              *)
TcpOutcome == [ok |-> "store", unknown |-> "error", malformed |-> "error", null |-> "die",
               blank |-> "ignore"]
UdpOutcome == [ok |-> "store", unknown |-> "error", malformed |-> "error", null |-> "die"]
CanOutcome == [ok |-> "store", unknown |-> "ignore", malformed |-> "error"]
UartOutcome == [ok |-> "store", unknown |-> "ignore", malformed |-> "ignore", null |-> "die"]
MqttOutcome == [ok |-> "store", unknown |-> "ignore", malformed |-> "ignore", null |-> "ignore"]

(* A commit may fail, when the database is locked for too long; on_message  *)
(* catches that too.                                                        *)
Endings(outcome, kind, failed) ==
    IF outcome[kind] = "store" THEN {"store", failed} ELSE {outcome[kind]}

\* The link whose good message is lost with a commit that fails.
Failing(l, kind, ending) == IF kind = "ok" /\ ending # "store" THEN {l} ELSE {}

Store(l, n, unit, ending) ==
    rows' = IF ending # "store" THEN rows
            ELSE Append(rows, [from |-> l, value |-> n, unit |-> unit,
                               sensor |-> SensorOf[l], at |-> Now])

Counted(c, ending) ==
    [c EXCEPT !.received = IF ending = "store" THEN @ + 1 ELSE @,
              !.errors = IF ending = "error" THEN @ + 1 ELSE @]

\* conn_closed
Closed(c) == [c EXCEPT !.closed = @ + 1, !.active = IF @ > 0 THEN @ - 1 ELSE 0]

\* The connections that a thread of the TCP server serves.
Served == {l \in Connections : link[l] \in {"open", "closing"}}

Unmade(l) == l \in Connections /\ link[l] = "none"

\* A process ends, and its sockets and counters with it.
Down(p) ==
    /\ proc' = [proc EXCEPT ![p] = "down"]
    /\ link' = [l \in Links |-> IF p = "tcp" /\ l \in Served THEN "closed" ELSE link[l]]
    /\ wire' = [l \in Links |-> IF Process(l) = p /\ p # "mqtt" THEN <<>> ELSE wire[l]]
    /\ buf' = [l \in Links |-> IF Process(l) = p THEN <<>> ELSE buf[l]]
    /\ count' = [count EXCEPT ![p] = Zero]
    /\ recent' = IF p = "can" THEN <<>> ELSE recent
    /\ since' = [since EXCEPT ![p] = Len(rows)]
    /\ UNCHANGED sent

-----------------------------------------------------------------------------
(* The devices and the networks.                                            *)
MaySend(l) == l \in on /\ Len(sent[l]) < MaxSent[l]

Send(l, kind, parts, well) ==
    /\ MaySend(l)
    /\ sent' = [sent EXCEPT ![l] = Append(@, kind)]
    /\ wire' = [wire EXCEPT ![l] = @ \o parts]
    /\ disturbed' = IF well THEN disturbed ELSE disturbed \cup {l}
    /\ UNCHANGED <<on, rows, buf, link, proc, statistics>>

Number(l) == Len(sent[l]) + 1

SendLine(l, kind) ==
    /\ l \in Connections /\ link[l] = "open"
    /\ Send(l, kind, Append(Line(Number(l)), Newline), TRUE)

\* Nobody reads the serial line while the receiver is down.
SendSerial(kind) ==
    IF proc["uart"] = "up" THEN Send("uart", kind, Append(Line(Number("uart")), Newline), TRUE)
                           ELSE Send("uart", kind, <<>>, FALSE)

\* A datagram arrives once, twice or never.
SendDatagram(kind, copies) ==
    /\ proc["udp"] = "up" \/ copies = 0
    /\ Send("udp", kind, [i \in 1..copies |-> Message(Number("udp"))], copies = 1)

\* send_frame writes to the bus, whoever listens.
SendFrame(kind) ==
    IF proc["can"] = "up" THEN Send("can", kind, <<Message(Number("can"))>>, TRUE)
                          ELSE Send("can", kind, <<>>, FALSE)

\* publish_reading, when it returns true: the device counts a success.
Publish(kind) ==
    /\ link["mqtt"] = "open"
    /\ Send("mqtt", kind, <<Message(Number("mqtt"))>>, TRUE)

\* The device's connection to the broker breaks, with what it has not sent:
\* a clean session, no persistence and no automatic reconnection.
BreakPublisher ==
    /\ "mqtt" \in on /\ link["mqtt"] = "open"
    /\ link' = [link EXCEPT !["mqtt"] = "closed"]
    /\ wire' = [wire EXCEPT !["mqtt"] = <<>>]
    /\ disturbed' = disturbed \cup {"mqtt"}
    /\ UNCHANGED <<on, rows, sent, buf, proc, statistics>>

-----------------------------------------------------------------------------
(* TCP.  The server accepts a connection whatever becomes of others: that a *)
(* device makes anew beside the one it made before, whose thread may still  *)
(* be at work on what it had received.                                      *)
Connect(l) ==
    /\ l \in on /\ Unmade(l) /\ proc["tcp"] = "up"
    /\ link' = [link EXCEPT ![l] = "open"]
    /\ count' = [count EXCEPT !["tcp"].opened = @ + 1, !["tcp"].active = @ + 1]
    /\ UNCHANGED <<on, rows, sent, wire, buf, proc, recent, since, disturbed>>

\* recv returns what has arrived, cut anywhere.
Recv(l, k) ==
    /\ l \in Connections /\ FirstNewline(buf[l]) = 0
    /\ buf' = [buf EXCEPT ![l] = @ \o SubSeq(wire[l], 1, k)]
    /\ wire' = [wire EXCEPT ![l] = From(@, k + 1)]
    /\ UNCHANGED <<on, rows, sent, link, proc, statistics, disturbed>>

\* The thread ends: the finally clause.
EndThread(l) ==
    /\ link' = [link EXCEPT ![l] = "closed"]
    /\ wire' = [wire EXCEPT ![l] = <<>>]
    /\ buf' = [buf EXCEPT ![l] = <<>>]
    /\ count' = [count EXCEPT !["tcp"] = Closed(@)]

HasLine(l) == l \in Connections /\ FirstNewline(buf[l]) > 0

AfterLine(text) == From(text, FirstNewline(text) + 1)

HandleLine(l) ==
    LET text == SubSeq(buf[l], 1, FirstNewline(buf[l]) - 1)
        kind == TcpKind(l, text)
    IN
    /\ HasLine(l)
    /\ \E ending \in Endings(TcpOutcome, kind, "die") :
         /\ Store(l, text[1][1], "whole", ending)
         /\ disturbed' = disturbed \cup Failing(l, kind, ending)
         /\ IF ending = "die" THEN EndThread(l)
            ELSE /\ buf' = [buf EXCEPT ![l] = AfterLine(@)]
                 /\ count' = [count EXCEPT !["tcp"] = Counted(@, ending)]
                 /\ UNCHANGED <<wire, link>>
    /\ UNCHANGED <<on, sent, proc, recent, since>>

\* The device closes the connection; what it has sent still arrives.
HangUp(l) ==
    /\ l \in Connections /\ link[l] = "open"
    /\ link' = [link EXCEPT ![l] = "closing"]
    /\ UNCHANGED <<on, rows, sent, wire, buf, proc, statistics, disturbed>>

\* The connection is reset, and what has not been received is lost.
Break(l) ==
    /\ l \in Served
    /\ link' = [link EXCEPT ![l] = "closing"]
    /\ wire' = [wire EXCEPT ![l] = <<>>]
    /\ disturbed' = disturbed \cup {l}
    /\ UNCHANGED <<on, rows, sent, buf, proc, statistics>>

\* recv returns nothing, or raises an error.
Finish(l) ==
    /\ l \in Connections /\ link[l] = "closing" /\ wire[l] = <<>> /\ FirstNewline(buf[l]) = 0
    /\ EndThread(l)
    /\ UNCHANGED <<on, rows, sent, proc, recent, since, disturbed>>

-----------------------------------------------------------------------------
(* UDP: datagrams in any order.                                             *)
ReceiveDatagram(i) ==
    LET n == wire["udp"][i][1] IN
    /\ i \in DOMAIN wire["udp"]
    /\ \E ending \in Endings(UdpOutcome, sent["udp"][n], "die") :
         /\ Store("udp", n, "whole", ending)
         /\ disturbed' = disturbed \cup Failing("udp", sent["udp"][n], ending)
                                   \cup (IF i = 1 THEN {} ELSE {"udp"})
         /\ IF ending = "die" THEN Down("udp")
            ELSE /\ wire' = [wire EXCEPT !["udp"] = RemoveAt(@, i)]
                 /\ count' = [count EXCEPT !["udp"] = Counted(@, ending)]
                 /\ UNCHANGED <<sent, buf, link, proc, recent, since>>
    /\ UNCHANGED on

-----------------------------------------------------------------------------
(* CAN: a frame is recorded, or counted as an error, before its sensor is   *)
(* looked up.                                                               *)
Record(n) ==
    LET all == Append(recent, n) IN
    IF Len(all) > BufferSize THEN Tail(all) ELSE all

ReceiveFrame ==
    LET n == Head(wire["can"])[1]
        kind == sent["can"][n]
    IN
    /\ wire["can"] # <<>>
    /\ \E ending \in Endings(CanOutcome, kind, "die") :
         /\ Store("can", n, "whole", ending)
         /\ disturbed' = disturbed \cup Failing("can", kind, ending)
         /\ IF ending = "die" THEN Down("can")
            ELSE /\ wire' = [wire EXCEPT !["can"] = Tail(@)]
                 /\ count' = [count EXCEPT !["can"] =
                                Counted(@, IF ending = "error" THEN "error" ELSE "store")]
                 /\ recent' = IF ending = "error" THEN recent ELSE Record(n)
                 /\ UNCHANGED <<sent, buf, link, proc, since>>
    /\ UNCHANGED on

-----------------------------------------------------------------------------
(* UART: readline returns a line, or after a second without its end what    *)
(* there is of it.                                                          *)
ReadLine(k) ==
    LET end == FirstNewline(wire["uart"])
        text == SubSeq(wire["uart"], 1, IF k = end THEN k - 1 ELSE k)
        kind == UartKind(text)
    IN
    /\ wire["uart"] # <<>> /\ k \in 1..end
    /\ \E ending \in Endings(UartOutcome, kind, "die") :
         /\ Store("uart", text[1][1], IF Len(text) = 3 THEN "whole" ELSE "cut", ending)
         /\ disturbed' = disturbed \cup Failing("uart", kind, ending)
                                   \cup (IF k < end THEN {"uart"} ELSE {})
         /\ IF ending = "die" THEN Down("uart")
            ELSE /\ wire' = [wire EXCEPT !["uart"] = From(@, k + 1)]
                 /\ UNCHANGED <<sent, buf, link, proc, statistics>>
    /\ UNCHANGED on

-----------------------------------------------------------------------------
(* MQTT.  The broker passes messages on to a subscriber that is subscribed, *)
(* and keeps none for one that is not: its session is clean, too.           *)
Forward ==
    /\ wire["mqtt"] # <<>>
    /\ wire' = [wire EXCEPT !["mqtt"] = Tail(@)]
    /\ IF proc["mqtt"] = "subscribed"
         THEN buf' = [buf EXCEPT !["mqtt"] = Append(@, Head(wire["mqtt"]))] /\ UNCHANGED disturbed
         ELSE disturbed' = disturbed \cup {"mqtt"} /\ UNCHANGED buf
    /\ UNCHANGED <<on, rows, sent, link, proc, statistics>>

\* A message is acknowledged after on_message, which catches all exceptions.
OnMessage ==
    LET n == Head(buf["mqtt"])[1]
        kind == sent["mqtt"][n]
    IN
    /\ buf["mqtt"] # <<>>
    /\ \E ending \in Endings(MqttOutcome, kind, "ignore") :
         /\ Store("mqtt", n, "whole", ending)
         /\ disturbed' = disturbed \cup Failing("mqtt", kind, ending)
    /\ buf' = [buf EXCEPT !["mqtt"] = Tail(@)]
    /\ UNCHANGED <<on, sent, wire, link, proc, statistics>>

OnConnect ==
    /\ proc["mqtt"] = "up"
    /\ proc' = [proc EXCEPT !["mqtt"] = "subscribed"]
    /\ UNCHANGED <<on, rows, network, statistics, disturbed>>

-----------------------------------------------------------------------------
(* A receiver is killed, or the subscriber loses its connection; and starts *)
(* or connects again.                                                       *)
InUse(p) == p \in {Process(l) : l \in on}

Crash(p) ==
    /\ InUse(p) /\ proc[p] # "down"
    /\ Down(p)
    /\ disturbed' = disturbed \cup {l \in Links : Process(l) = p /\ ~ Unmade(l)}
    /\ UNCHANGED <<on, rows>>

Start(p) ==
    /\ proc[p] = "down"
    /\ proc' = [proc EXCEPT ![p] = "up"]
    /\ since' = [since EXCEPT ![p] = Len(rows)]
    /\ UNCHANGED <<on, rows, network, count, recent, disturbed>>

Serve(l) ==
    \/ \E k \in 1..Len(wire[l]) : Recv(l, k)
    \/ HandleLine(l) \/ Finish(l)
    \/ l = "udp" /\ \E i \in DOMAIN wire["udp"] : ReceiveDatagram(i)
    \/ l = "can" /\ ReceiveFrame
    \/ l = "uart" /\ \E k \in DOMAIN wire["uart"] : ReadLine(k)
    \/ l = "mqtt" /\ (Forward \/ OnMessage \/ OnConnect)

RNext ==
    \/ \E l \in on : Serve(l)
    \/ \E l \in Connections : \E kind \in Kinds(l) : SendLine(l, kind)
    \/ \E kind \in Kinds("uart") : SendSerial(kind)
    \/ \E kind \in Kinds("udp"), copies \in 0..2 : SendDatagram(kind, copies)
    \/ \E kind \in Kinds("can") : SendFrame(kind)
    \/ \E kind \in Kinds("mqtt") : Publish(kind)
    \/ \E l \in Connections : Connect(l) \/ HangUp(l) \/ Break(l)
    \/ BreakPublisher
    \/ \E p \in Processes : Crash(p) \/ Start(p)

RSpec == Init /\ [][RNext]_rvars

-----------------------------------------------------------------------------
StoredOver(l) == {rows[i].value : i \in {i \in DOMAIN rows : rows[i].from = l}}

OnItsWay(l, n) ==
    \E part \in Range(wire[l]) \cup Range(buf[l]) : part[1] = n

Good(l) == {n \in DOMAIN sent[l] : sent[l][n] = "ok"}

(* A value that is no number ends the thread of its connection, or the      *)
(* process, with all that has arrived after it; on_message survives it.     *)
Expected(l) == {n \in Good(l) : l = "mqtt" \/ \A m \in 1..n : sent[l][m] # "null"}

(* What the receivers store is what was sent: good readings of existing     *)
(* sensors only, each once and, of one connection or one other link, in the *)
(* order they were sent, through breaks and restarts; except that the       *)
(* network may double or reorder datagrams, and that a serial line that     *)
(* stalls may leave a unit cut short.  Of two connections of one device the *)
(* threads may store in either order.                                       *)
StoredAsSent ==
    \A i \in DOMAIN rows : LET r == rows[i] IN r.from \in Links =>
        /\ r.value \in Good(r.from)
        /\ r.unit = "cut" => r.from = "uart" /\ "uart" \in disturbed
        /\ \A j \in 1..(i - 1) : rows[j].from = r.from /\ rows[j].value >= r.value =>
                                   r.from = "udp" /\ "udp" \in disturbed

(* A receiver loses a good reading only to a value that is no number: over  *)
(* a link that neither the network nor a crash nor a failed commit has      *)
(* disturbed, each good reading that no such value came before is stored or *)
(* on its way, however the stream was cut into chunks and however many bad, *)
(* blank and unknown messages came before it.                               *)
NothingLostUndisturbed ==
    \A l \in on \ disturbed : \A n \in Expected(l) : n \in StoredOver(l) \/ OnItsWay(l, n)

(* docs/mqtt_protocol.md: a reading published with QoS 1 will never be      *)
(* silently lost.                                                           *)
NeverSilentlyLost ==
    \A n \in Good("mqtt") : n \in StoredOver("mqtt") \/ OnItsWay("mqtt", n)

StoredSince(p) ==
    Cardinality({i \in DOMAIN rows : i > since[p] /\ Process(rows[i].from) = p})

LinksOf(p) == {l \in on : Process(l) = p}

\* Blank lines do not count.
SentTo(p) == UNION {{l} \X {n \in DOMAIN sent[l] : sent[l][n] # "blank"} : l \in LinksOf(p)}

\* All that was sent to p has been handled: nothing is on its way, and nothing was
\* lost or doubled, nor left behind by a value that is no number.
Handled(p) == \A l \in LinksOf(p) :
    l \notin disturbed /\ wire[l] \o buf[l] = <<>> /\ \A n \in DOMAIN sent[l] : sent[l][n] # "null"

(* The counters add up through errors, broken connections and restarts:     *)
(* active connections are those whose thread runs, however it ended; a      *)
(* reading is counted once it is stored; where all has been handled, each   *)
(* message is counted as received or as an error.                           *)
CountersAddUp ==
    /\ count["tcp"].active = Cardinality(Served)
    /\ count["tcp"].active = count["tcp"].opened - count["tcp"].closed
    /\ \A p \in {"tcp", "udp"} : count[p].received = StoredSince(p)
    /\ count["can"].received >= StoredSince("can")
    /\ \A p \in {"tcp", "udp", "can"} :
         Handled(p) => count[p].received + count[p].errors = Cardinality(SentTo(p))

(* The frame buffer holds the newest frames, in order, as many as it has    *)
(* room for: a frame that was stored since the receiver's start and is not  *)
(* in the buffer is older than all that are.                                *)
BufferHoldsNewest ==
    /\ Len(recent) = IF count["can"].received > BufferSize THEN BufferSize
                                                           ELSE count["can"].received
    /\ \A i, j \in DOMAIN recent : i < j => recent[i] < recent[j]
    /\ \A i \in DOMAIN rows : i > since["can"] /\ rows[i].from = "can" =>
         \/ rows[i].value \in Range(recent)
         \/ Len(recent) = BufferSize /\ \A n \in Range(recent) : rows[i].value < n
=============================================================================
