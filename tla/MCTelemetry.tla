---- MODULE MCTelemetry ----
(***************************************************************************)
(* Instances of Telemetry: one transport in use at a time, or tables that  *)
(* hold readings from before.                                              *)
(***************************************************************************)
EXTENDS Telemetry

CONSTANTS c1, c2, c3

MCSensorOf == [l \in Links |-> 1]

\* Three frames, for a buffer of two; two messages over a connection, or one over each of
\* two connections at the same time.
MCMaxSent == [l \in Links |-> IF l = "can" THEN 3 ELSE IF l \in {c1, c2} THEN 1 ELSE 2]

Row(sensor, value, at) ==
    [from |-> "before", unit |-> "whole", sensor |-> sensor, value |-> value, at |-> at]

\* One sensor, a reading per minute until Now.
Series(length, values) ==
    {[i \in 1..length |-> Row(1, vs[i], Now - length + i)] : vs \in [1..length -> values]}

\* Two sensors, readings on both sides of the cutoff and in any order.
Mixed(length) ==
    [1..length -> {Row(s, v, at) : s \in {1, 2}, v \in {0, 1},
                                   at \in {Now - ActiveMinutes - 1, Now - ActiveMinutes}}]

Using(links) == [on |-> links, rows |-> <<>>]
Holding(table) == [on |-> {}, rows |-> table]

MCStarts ==
    {Using(links) : links \in {{c1, c2}, {c3}, {"udp"}, {"can"}, {"uart"}, {"mqtt"}}}
    \cup {Holding(table) : table \in UNION {Series(n, 0..3) : n \in 1..3} \cup Series(4, {0, 1, 3})}
    \cup {Holding(table) : table \in UNION {Mixed(n) : n \in 0..3}}

MCStartsMqtt == {Using({"mqtt"})}
====
