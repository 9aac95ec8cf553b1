---------------------------- MODULE ReadingStream ----------------------------
(***************************************************************************)
(* The server-sent events stream of stream_readings (app/main.py): a       *)
(* generator that keeps a cursor, the id of the last reading sent, selects *)
(* the readings above it once a second and sends them one by one, while    *)
(* other requests and processes insert and delete readings and sensors.    *)
(* SQLite gives a new reading the id above the largest in use, so the ids  *)
(* of deleted last readings are used again.                                *)
(***************************************************************************)
EXTENDS Naturals, FiniteSets

CONSTANTS
    Sensors,       \* sensor ids
    MaxReadingId,  \* bound: largest reading id
    MaxStamp       \* bound: readings ever committed

ASSUME BoundsAssumption == MaxReadingId \in Nat /\ MaxStamp \in Nat

VARIABLES
    sensors,   \* table sensor: the ids in use
    readings,  \* table reading
    stamp,     \* number of the next reading to be committed
    open,      \* whether a client is connected
    last_id,   \* the generator's cursor
    new_rows,  \* selected and not yet sent
    sent,      \* readings sent on this connection
    count,     \* events sent on this connection
    since,     \* value of stamp when the connection was opened
    disturbed  \* whether since then anything was deleted, or a reading was
               \* committed for a sensor already deleted

table == <<sensors, readings, stamp>>
stream == <<open, last_id, new_rows, sent, count, since>>
vars == <<table, stream, disturbed>>

Reading == [id : Nat, sensor_id : Sensors, stamp : Nat]

\* The primary key SQLite gives the next row of a table.
IsNextId(rows, n) ==
    /\ \A r \in rows : r.id < n
    /\ n = 1 \/ \E r \in rows : r.id = n - 1

Init ==
    /\ sensors = Sensors
    /\ readings = {}
    /\ stamp = 1
    /\ open = FALSE
    /\ last_id = 0
    /\ new_rows = {}
    /\ sent = {}
    /\ count = 0
    /\ since = 1
    /\ disturbed = FALSE

-----------------------------------------------------------------------------
(* Faulty variants of definitions below: bugs this code could well have.    *)

\* Faulty: the rows are sent in the order the database returns them.
FirstUnordered(r) == r \in new_rows

\* Faulty: the query asks for ids from the cursor on.
SelectFromCursor == {r \in readings : r.id >= last_id /\ r.sensor_id \in sensors}

\* Faulty: an outer join, which gives orphans no sensor.
SelectOuter ==
    {IF r.sensor_id \in sensors THEN r ELSE [r EXCEPT !.sensor_id = "null"]
        : r \in {x \in readings : x.id > last_id}}

\* Faulty: after a batch the cursor is taken from the table's last row.
CursorAtEnd(r) ==
    IF new_rows = {r} THEN CHOOSE n \in 0..MaxReadingId :
                             IsNextId(readings, n + 1)
    ELSE r.id

\* Faulty: the query gives up on readings while any of them is an orphan.
SelectWhole ==
    IF \A r \in readings : r.sensor_id \in sensors
      THEN {r \in readings : r.id > last_id} ELSE {}

-----------------------------------------------------------------------------
(* The rest of the program: commits of new readings, also of handlers that  *)
(* loaded a sensor since deleted; deletions of readings, and of a sensor    *)
(* with those of its readings that were selected in time; registrations.    *)
InsertReading(s) ==
    /\ stamp <= MaxStamp
    /\ \E n \in 1..MaxReadingId :
         /\ IsNextId(readings, n)
         /\ readings' = readings \cup {[id |-> n, sensor_id |-> s, stamp |-> stamp]}
    /\ stamp' = stamp + 1
    /\ disturbed' = (disturbed \/ s \notin sensors)
    /\ UNCHANGED <<sensors, stream>>

DeleteReadings(rows) ==
    /\ rows # {}
    /\ readings' = readings \ rows
    /\ disturbed' = TRUE
    /\ UNCHANGED <<sensors, stamp, stream>>

DeleteSensor(s, rows) ==
    /\ s \in sensors
    /\ \A r \in rows : r.sensor_id = s
    /\ sensors' = sensors \ {s}
    /\ readings' = readings \ rows
    /\ disturbed' = TRUE
    /\ UNCHANGED <<stamp, stream>>

RegisterSensor(s) ==
    /\ s \notin sensors
    /\ sensors' = sensors \cup {s}
    /\ UNCHANGED <<readings, stamp, stream, disturbed>>

-----------------------------------------------------------------------------
(* gen() starts with the cursor at the table's last row.                    *)
IsLastId(n) ==
    IF readings = {} THEN n = 0
    ELSE \E r \in readings : r.id = n /\ \A x \in readings : x.id <= n

Connect ==
    /\ ~open
    /\ open' = TRUE
    /\ \E n \in 0..MaxReadingId : IsLastId(n) /\ last_id' = n
    /\ new_rows' = {}
    /\ sent' = {}
    /\ count' = 0
    /\ since' = stamp
    /\ disturbed' = FALSE
    /\ UNCHANGED table

(* SELECT ... JOIN sensor WHERE reading.id > last_id ORDER BY reading.id.   *)
SelectNew == {r \in readings : r.id > last_id /\ r.sensor_id \in sensors}

Query ==
    /\ open
    /\ new_rows = {}
    /\ new_rows' = SelectNew
    /\ UNCHANGED <<table, open, last_id, sent, count, since, disturbed>>

First(r) == r \in new_rows /\ \A x \in new_rows : r.id <= x.id

Cursor(r) == r.id

(* yield the first row, then move the cursor to it.                         *)
Send ==
    /\ open
    /\ \E r \in new_rows :
         /\ First(r)
         /\ new_rows' = new_rows \ {r}
         /\ last_id' = Cursor(r)
         /\ sent' = sent \cup {r}
    /\ count' = count + 1
    /\ UNCHANGED <<table, open, since, disturbed>>

Disconnect ==
    /\ open
    /\ open' = FALSE
    /\ UNCHANGED <<table, last_id, new_rows, sent, count, since, disturbed>>

Next ==
    \/ \E s \in Sensors : InsertReading(s)
    \/ \E rows \in SUBSET readings : DeleteReadings(rows)
    \/ \E s \in sensors : \E rows \in SUBSET readings : DeleteSensor(s, rows)
    \/ \E s \in Sensors : RegisterSensor(s)
    \/ Connect
    \/ Query
    \/ Send
    \/ Disconnect

Spec == Init /\ [][Next]_vars

(* The generator goes on while its client is connected.                     *)
FairSpec == Spec /\ WF_vars(Query) /\ WF_vars(Send)

-----------------------------------------------------------------------------
(* Rows, cursor and counters have their types.                              *)
TypeOK ==
    /\ sensors \subseteq Sensors
    /\ readings \subseteq Reading
    /\ stamp \in Nat
    /\ open \in BOOLEAN
    /\ last_id \in Nat
    /\ new_rows \subseteq Reading
    /\ sent \subseteq Reading
    /\ count \in Nat
    /\ since \in Nat
    /\ disturbed \in BOOLEAN

(* A connection gets readings in the order of their commits, even when the  *)
(* ids of deleted readings are used again between two of its queries.       *)
SentInOrder ==
    [][\A old \in sent, new \in sent' \ sent : old.stamp < new.stamp]_vars

(* No reading is sent twice on a connection.                                *)
SentOnce == count = Cardinality(sent)

(* A reading committed since the connection was opened that the cursor has  *)
(* passed was sent, unless rows were deleted meanwhile: only then can an id *)
(* at or below the cursor be new, or the join leave a reading out.          *)
PassedWereSent ==
    open /\ ~disturbed =>
      \A r \in readings : r.stamp >= since /\ r.id <= last_id => r \in sent

(* A reading of a live sensor above the cursor is sent, if the client stays *)
(* and the reading and its sensor stay.                                     *)
AboveCursorSent ==
    \A n \in 1..MaxStamp :
      (open /\ \E r \in readings : r.stamp = n /\ r.id > last_id /\ r.sensor_id \in sensors)
        ~> \/ \E r \in sent : r.stamp = n
           \/ ~open \/ disturbed
=============================================================================
