---------------------------- MODULE SensorStore ----------------------------
(***************************************************************************)
(* The SQLite tables of sensorhub (app/models.py) and the HTTP handlers of *)
(* app/main.py and receiver processes (MQTT, TCP, UDP, CAN, UART) that     *)
(* read and write them.                                                    *)
(*                                                                         *)
(* A `def` endpoint runs on a thread of the server's pool, so two requests *)
(* interleave between any two database statements.  SELECTs hold no        *)
(* transaction; a commit is atomic.  Each handler is therefore a short     *)
(* sequence of steps: load the sensor and check its key, read rows, write. *)
(* An ORM object read by one step may be stale in the next: deletes and    *)
(* updates go by primary key, and SQLite gives a new row the key one above *)
(* the largest in use, so the key of a deleted last row is used again.     *)
(***************************************************************************)
EXTENDS Naturals, FiniteSets

CONSTANTS
    Threads,       \* request threads of the API process
    Receivers,     \* ingest processes, each `python -m app....`
    Names,         \* sensor names
    Assignments,   \* which handlers the processes may be exercising
    MaxSensorId,   \* bound: largest sensor id
    MaxReadingId,  \* bound: largest reading id
    MaxKey,        \* bound: API keys ever issued
    MaxStamp,      \* bound: readings ever committed
    MaxDay,        \* bound: days that pass
    MaxBatch       \* bound: rows one batch or bulk request creates

Procs == Threads \cup Receivers

\* Handlers that write the "state" tag, the last two with "state" as their key.
StateOps == {"enable_sensor", "disable_sensor", "add_sensor_tag", "remove_sensor_tag"}
\* Handlers whose sensor is named by the path and whose key is checked.
KeyedOps == {"clear_sensor_readings", "delete_sensor", "reset_sensor_key",
             "update_sensor"} \cup StateOps
\* Handlers behind require_signed_sensor: the payload names the sensor again.
SignedOps == {"submit_reading", "submit_batch_readings"}
\* Handlers that load the sensor by id alone.
OpenOps == {"copy_sensor", "ingest"}
\* Handlers that load no sensor.
AdminOps == {"register_sensor", "cleanup_old_readings"}

HttpOps == (KeyedOps \cup SignedOps \cup OpenOps \cup AdminOps) \ {"ingest"}

ASSUME ProcsAssumption == Threads \cap Receivers = {}
\* A request thread serves any of the handlers; a receiver only ingests.
ASSUME AssignmentsAssumption ==
    \A does \in Assignments :
      /\ DOMAIN does = Procs
      /\ \A t \in Threads : does[t] \subseteq HttpOps
      /\ \A r \in Receivers : does[r] \subseteq {"ingest"}
ASSUME BoundsAssumption ==
    {MaxSensorId, MaxReadingId, MaxKey, MaxStamp, MaxDay, MaxBatch} \subseteq Nat

SensorIds == 1..MaxSensorId

VARIABLES
    sensors,   \* table sensor
    readings,  \* table reading
    state,     \* tag_registry: the value of each sensor id's "state" tag
    keys,      \* the next API key token_urlsafe has not returned yet
    stamp,     \* number of the next reading to be committed
    day,       \* the clock, in days
    does,      \* does[p]: the handlers process p exercises
    req,       \* req[p]: the request process p is serving
    stale      \* history: an insert or a deletion was committed after what its
               \* request had read was no longer so

vars == <<sensors, readings, state, keys, stamp, day, does, req, stale>>

\* `born` is the key the row was created with: it tells apart two sensors
\* that have had the same id.  The program does not store it.
Sensor == [id : Nat, name : Names, key : Nat, born : Nat]

\* recorded_at is `at`.  `stamp` numbers the commits and `owner` is the sensor
\* object the handler held; the program stores neither.
Reading == [id : Nat, sensor_id : Nat, at : Nat, stamp : Nat, owner : Nat]

NoSensor == [id |-> 0, name |-> "none", key |-> 0, born |-> 0]

Idle == [pc |-> "idle", op |-> "none", sensor |-> NoSensor,
         sensor_id |-> 0, rows |-> {}]

-----------------------------------------------------------------------------
(* Faulty variants of definitions below, each a bug this code could well    *)
(* have.  No specification uses them: they show that a property can fail.   *)

\* Faulty: the rows of a batch are inserted in the opposite order.
NewReadingsReversed(n, k, r) ==
    {[id |-> n + i, sensor_id |-> r.sensor_id, at |-> day,
      stamp |-> stamp + (k - 1 - i), owner |-> r.sensor.born] : i \in 0..(k - 1)}

\* Faulty: the payload's sensor id is taken as it comes.
SubmittableUnmatched(r) ==
    r.op = "submit_reading" => state[r.sensor_id] # "disabled"

\* Faulty: one range DELETE up to the last selected id.
WithoutRange(rows) ==
    {r \in readings : \A d \in rows : r.id > d.id}

\* Faulty: delete_sensor leaves the readings to the database.
WithoutNone(rows) == readings

\* Faulty: the default key is computed once, when the class is defined.
NewSensorDefaultKey(n, name, key) == [id |-> n, name |-> name, key |-> 1, born |-> key]

\* Faulty: the tag's text "state:..." is copied as its value.
CopiedStateText(id, source) ==
    CASE state[source] = "enabled" -> "state:enabled"
      [] state[source] = "disabled" -> "state:disabled"
      [] state[source] = "none" -> state[id]

\* Faulty: the whole loaded row is written back.
RenamedWholeRow(loaded, name) ==
    {IF s.id = loaded.id THEN [loaded EXCEPT !.name = name] ELSE s : s \in sensors}

-----------------------------------------------------------------------------
\* The primary key SQLite gives the next row of a table.
IsNextId(rows, n) ==
    /\ \A r \in rows : r.id < n
    /\ n = 1 \/ \E r \in rows : r.id = n - 1

HasSensor(id) == \E s \in sensors : s.id = id

\* A sensor stays itself, whatever is written to its row, until it is deleted.
SameSensor(s, t) == s.id = t.id /\ s.born = t.born

Present(s) == \E t \in sensors : SameSensor(s, t)

Init ==
    /\ sensors = {}
    /\ readings = {}
    /\ state = [id \in SensorIds |-> "none"]
    /\ keys = 1
    /\ stamp = 1
    /\ day = 0
    /\ does \in Assignments
    /\ req = [p \in Procs |-> Idle]
    /\ stale = FALSE

Finish(p) == req' = [req EXCEPT ![p] = Idle]

-----------------------------------------------------------------------------
(* The first statement of a handler: session.get(Sensor, id) and the check  *)
(* of the presented key, or the scan for the presented key in               *)
(* require_signed_sensor.  A refusal (404, 401) changes nothing and is not  *)
(* a step.  The caller of a keyed or signed handler presents the key of the *)
(* row it is served.                                                        *)
MayLoad(op, s, sensor_id) ==
    \/ op \in SignedOps
    \/ op \in KeyedOps \cup OpenOps /\ sensor_id = s.id

LoadSensor(p, op, sensor_id) ==
    /\ req[p].pc = "idle"
    /\ op \in does[p] \ AdminOps
    /\ \E s \in sensors :
        /\ MayLoad(op, s, sensor_id)
        /\ req' = [req EXCEPT ![p] =
                     [pc |-> "loaded", op |-> op, sensor |-> s,
                      sensor_id |-> sensor_id, rows |-> {}]]
    /\ UNCHANGED <<sensors, readings, state, keys, stamp, day, stale>>

(* submit_reading: the payload must name the authenticated sensor, whose    *)
(* state tag must not say disabled.  The tag is read here, long before the  *)
(* commit.                                                                  *)
Submittable(r) ==
    /\ r.sensor_id = r.sensor.id
    /\ r.op = "submit_reading" => state[r.sensor_id] # "disabled"

CheckReading(p) ==
    /\ req[p].pc = "loaded"
    /\ req[p].op \in SignedOps
    /\ req' = [req EXCEPT ![p] = IF Submittable(@) THEN [@ EXCEPT !.pc = "checked"]
                                                   ELSE Idle]
    /\ UNCHANGED <<sensors, readings, state, keys, stamp, day, stale>>

NewReadings(n, k, r) ==
    {[id |-> n + i, sensor_id |-> r.sensor_id, at |-> day,
      stamp |-> stamp + i, owner |-> r.sensor.born] : i \in 0..(k - 1)}

BatchSizes(op) == IF op = "submit_batch_readings" THEN 1..MaxBatch ELSE {1}

ReadyToInsert(r) ==
    \/ r.pc = "checked"
    \/ r.pc = "loaded" /\ r.op = "ingest"

ReadingsOf(sensor_id) == {r \in readings : r.sensor_id = sensor_id}

OldReadings(days) == {r \in readings : r.at + days < day}

(* What p is about to commit rests on a sensor that has been deleted since  *)
(* p loaded it, or on a selection that is no longer what the table holds.   *)
Stale(p) ==
    \/ ReadyToInsert(req[p]) /\ ~Present(req[p].sensor)
    \/ /\ req[p].pc = "selected"
       /\ IF req[p].op = "cleanup_old_readings"
            THEN \A days \in 1..MaxDay : req[p].rows # OldReadings(days)
            ELSE req[p].rows # ReadingsOf(req[p].sensor_id)

(* The commit of submit_reading, submit_batch_readings and the receivers:   *)
(* INSERTs only; nothing asks again whether the sensor is still there.      *)
InsertReadings(p) ==
    /\ ReadyToInsert(req[p])
    /\ \E n \in 1..MaxReadingId, k \in BatchSizes(req[p].op) :
        /\ IsNextId(readings, n)
        /\ n + k - 1 <= MaxReadingId
        /\ stamp + k - 1 <= MaxStamp
        /\ readings' = readings \cup NewReadings(n, k, req[p])
        /\ stamp' = stamp + k
    /\ stale' = (stale \/ Stale(p))
    /\ Finish(p)
    /\ UNCHANGED <<sensors, state, keys, day>>

-----------------------------------------------------------------------------
(* clear_sensor_readings and delete_sensor: SELECT the sensor's readings.   *)
SelectReadings(p) ==
    /\ req[p].pc = "loaded"
    /\ req[p].op \in {"clear_sensor_readings", "delete_sensor"}
    /\ req' = [req EXCEPT ![p].pc = "selected",
                          ![p].rows = ReadingsOf(req[p].sensor_id)]
    /\ UNCHANGED <<sensors, readings, state, keys, stamp, day, stale>>

(* cleanup_old_readings: SELECT the readings older than `days` days.        *)
SelectOld(p, days) ==
    /\ req[p].pc = "idle"
    /\ "cleanup_old_readings" \in does[p]
    /\ req' = [req EXCEPT ![p] =
                 [Idle EXCEPT !.pc = "selected", !.op = "cleanup_old_readings",
                              !.rows = OldReadings(days)]]
    /\ UNCHANGED <<sensors, readings, state, keys, stamp, day, stale>>

(* Their commit: DELETE ... WHERE id = ? for each selected row, and for     *)
(* delete_sensor the sensor's own row.  A row already gone is only warned   *)
(* about.                                                                   *)
WithoutRows(rows) ==
    {r \in readings : \A d \in rows : r.id # d.id}

CommitDelete(p) ==
    /\ req[p].pc = "selected"
    /\ readings' = WithoutRows(req[p].rows)
    /\ sensors' = IF req[p].op = "delete_sensor"
                    THEN {s \in sensors : s.id # req[p].sensor_id}
                    ELSE sensors
    /\ stale' = (stale \/ Stale(p))
    /\ Finish(p)
    /\ UNCHANGED <<state, keys, stamp, day>>

-----------------------------------------------------------------------------
(* register_sensor (k = 1) and create_bulk_sensors: one commit.             *)
NewSensor(n, name, key) == [id |-> n, name |-> name, key |-> key, born |-> key]

AddSensors(n, name, k) ==
    /\ IsNextId(sensors, n)
    /\ n + k - 1 <= MaxSensorId
    /\ keys + k - 1 <= MaxKey
    /\ sensors' = sensors \cup {NewSensor(n + i, name, keys + i) : i \in 0..(k - 1)}
    /\ keys' = keys + k

RegisterSensors(p, k) ==
    /\ req[p].pc = "idle"
    /\ "register_sensor" \in does[p]
    /\ \E n \in SensorIds, name \in Names : AddSensors(n, name, k)
    /\ UNCHANGED <<readings, state, stamp, day, req, stale>>

(* copy_sensor: insert the new row, then copy the tags of the source id.    *)
CommitCopy(p) ==
    /\ req[p].pc = "loaded"
    /\ req[p].op = "copy_sensor"
    /\ \E n \in SensorIds, name \in Names :
        /\ AddSensors(n, name, 1)
        /\ req' = [req EXCEPT ![p].pc = "copied",
                              ![p].sensor = NewSensor(n, name, keys)]
    /\ UNCHANGED <<readings, state, stamp, day, stale>>

\* The state tag of `id` after the source's tags have been added to it.
CopiedState(id, source) ==
    IF state[source] = "none" THEN state[id] ELSE state[source]

\* refresh(new_sensor) fails with a 500 when the row is gone again.
CopyTags(p) ==
    LET id == req[p].sensor.id IN
    /\ req[p].pc = "copied"
    /\ state' = IF HasSensor(id)
                  THEN [state EXCEPT ![id] = CopiedState(id, req[p].sensor_id)]
                  ELSE state
    /\ Finish(p)
    /\ UNCHANGED <<sensors, readings, keys, stamp, day, stale>>

-----------------------------------------------------------------------------
(* reset_sensor_key: UPDATE sensor SET api_key WHERE id, a fresh token.  If *)
(* no row has the id any more the commit fails with a 500.                  *)
Rotated(sensor_id) ==
    {IF s.id = sensor_id THEN [s EXCEPT !.key = keys] ELSE s : s \in sensors}

CommitResetKey(p) ==
    /\ req[p].pc = "loaded"
    /\ req[p].op = "reset_sensor_key"
    /\ IF HasSensor(req[p].sensor_id)
         THEN /\ keys <= MaxKey
              /\ sensors' = Rotated(req[p].sensor_id)
              /\ keys' = keys + 1
         ELSE UNCHANGED <<sensors, keys>>
    /\ Finish(p)
    /\ UNCHANGED <<readings, state, stamp, day, stale>>

(* rename_sensor and update_sensor write the columns that differ from what  *)
(* was loaded: none, or the name (location is one more column of its kind). *)
Renamed(loaded, name) ==
    {IF s.id = loaded.id /\ name # loaded.name THEN [s EXCEPT !.name = name] ELSE s
        : s \in sensors}

CommitUpdate(p) ==
    /\ req[p].pc = "loaded"
    /\ req[p].op = "update_sensor"
    /\ \E name \in Names : sensors' = Renamed(req[p].sensor, name)
    /\ Finish(p)
    /\ UNCHANGED <<readings, state, keys, stamp, day, stale>>

(* The handlers that write the state tag, in memory.  Any value other than  *)
(* "disabled" acts as "enabled" does.                                       *)
NewStates(op) ==
    CASE op = "enable_sensor" -> {"enabled"}
      [] op = "disable_sensor" -> {"disabled"}
      [] op = "add_sensor_tag" -> {"enabled", "disabled"}
      [] op = "remove_sensor_tag" -> {"none"}

SetState(p) ==
    /\ req[p].pc = "loaded"
    /\ req[p].op \in StateOps
    /\ \E value \in NewStates(req[p].op) :
         state' = [state EXCEPT ![req[p].sensor_id] = value]
    /\ Finish(p)
    /\ UNCHANGED <<sensors, readings, keys, stamp, day, stale>>

-----------------------------------------------------------------------------
(* The API process dies and starts again: its requests are lost, and the    *)
(* tag registry with them; the database and the receivers go on.            *)
Restart ==
    /\ state' = [id \in SensorIds |-> "none"]
    /\ req' = [p \in Procs |-> IF p \in Threads THEN Idle ELSE req[p]]
    /\ UNCHANGED <<sensors, readings, keys, stamp, day, stale>>

(* The clock.  Only the ages of the readings matter: with none it stands.   *)
Tick ==
    /\ readings # {}
    /\ day < MaxDay
    /\ day' = day + 1
    /\ UNCHANGED <<sensors, readings, state, keys, stamp, req, stale>>

Step(p) ==
    \/ \E op \in KeyedOps \cup SignedOps \cup OpenOps, id \in SensorIds :
         LoadSensor(p, op, id)
    \/ CheckReading(p)
    \/ InsertReadings(p)
    \/ SelectReadings(p)
    \/ \E days \in 1..MaxDay : SelectOld(p, days)
    \/ CommitDelete(p)
    \/ \E k \in 1..MaxBatch : RegisterSensors(p, k)
    \/ CommitCopy(p)
    \/ CopyTags(p)
    \/ CommitResetKey(p)
    \/ CommitUpdate(p)
    \/ SetState(p)

Next ==
    \/ (\E p \in Procs : Step(p)) /\ UNCHANGED does
    \/ Restart /\ UNCHANGED does
    \/ Tick /\ UNCHANGED does

Spec == Init /\ [][Next]_vars
-----------------------------------------------------------------------------
PCs == {"idle", "loaded", "checked", "selected", "copied"}

Request == [pc : PCs, op : HttpOps \cup {"ingest", "none"}, sensor : Sensor \cup {NoSensor},
            sensor_id : 0..MaxSensorId, rows : SUBSET Reading]

(* The tables hold rows of their types, the tag registry one state per id,  *)
(* and every process serves at most one request of a known handler.         *)
TypeOK ==
    /\ sensors \subseteq Sensor
    /\ readings \subseteq Reading
    /\ state \in [SensorIds -> {"none", "enabled", "disabled"}]
    /\ keys \in Nat \ {0}
    /\ stamp \in Nat \ {0}
    /\ day \in Nat
    /\ req \in [Procs -> Request]
    /\ \A p \in Procs : req[p].pc \in {"loaded", "checked", "copied"} =>
         req[p].sensor_id \in SensorIds
    /\ does \in Assignments
    /\ stale \in BOOLEAN

(* Among the readings that are left, a larger id was committed later: what  *)
(* list order_by(id) and the cursor of stream_readings rely on, although    *)
(* ids are used again after deletions.  And no two readings share an id.       *)
IdOrderIsCommitOrder ==
    \A a, b \in readings :
      /\ a.id <= b.id <=> a.stamp <= b.stamp
      /\ a.id = b.id => a = b

(* No two live sensors share an id or a key, so the scan for the presented  *)
(* key in require_signed_sensor finds one sensor, whatever rotations,       *)
(* copies, deletions and reused ids came before.                            *)
LiveSensorsDistinct ==
    \A a, b \in sensors : a.id = b.id \/ a.key = b.key => a = b

(* A key that was issued and is no longer valid never becomes valid again,  *)
(* and a valid key never passes to another id: not by a rename that loaded  *)
(* the row before a rotation, nor by a rotation that hits a reused id.      *)
RetiredKeysStayRetired ==
    [][\A s \in sensors' : s.key < keys =>
         \E old \in sensors : old.id = s.id /\ old.key = s.key]_vars

(* A stored reading was sent for the sensor that now has its sensor_id, not *)
(* for an earlier sensor of the same id nor for the one a payload named,    *)
(* as long as no insert has outlived its sensor and no deletion its         *)
(* selection.                                                               *)
ReadingsBelongToOwner ==
    ~stale => \A r \in readings, s \in sensors : r.sensor_id = s.id => r.owner = s.born

(* Every reading references a sensor that exists (the foreign key of        *)
(* Reading.sensor_id): delete_sensor removes the sensor and all of them.    *)
NoOrphanReadings == \A r \in readings : HasSensor(r.sensor_id)

(* The only requests that leave a reading without its sensor are inserts    *)
(* that outlive their sensor and deletions that outlive their selection.    *)
OrphansComeFromStaleWrites == ~stale => NoOrphanReadings

(* A deletion removes a row its request selected and that is about it: a    *)
(* reading of the named sensor, or for a cleanup one from before today.  Or,*)
(* when another request has deleted that row, the row that has its id now,  *)
(* which was committed later.  It never removes a reading that was there at *)
(* its SELECT and that it did not select.                                   *)
DeletionsAreSelected ==
    [][\A r \in readings \ readings' : \E p \in Procs :
         /\ req[p].pc = "selected" /\ req'[p].pc = "idle"
         /\ \E d \in req[p].rows :
              /\ d.id = r.id
              /\ d = r \/ (d \notin readings /\ d.stamp < r.stamp)
              /\ IF req[p].op = "cleanup_old_readings"
                   THEN d.at < day
                   ELSE d.sensor_id = req[p].sensor_id]_vars

(* "Requires the current key": a sensor's key is replaced only by a         *)
(* rotation that presented the key it replaces.                             *)
RotationReplacesPresentedKey ==
    [][\A old \in sensors, new \in sensors' :
         old.id = new.id /\ old.key # new.key =>
           \E p \in Procs : /\ req[p].op = "reset_sensor_key"
                            /\ req'[p].op # "reset_sensor_key"
                            /\ req[p].sensor.key = old.key]_vars

-----------------------------------------------------------------------------
(* What the tables and the tags promise when each handler is one step.      *)
(* A copy is done when its row is committed: the tags it has yet to add are *)
(* already counted, unless the row is gone again.                           *)
Copying(id) ==
    {p \in Procs : req[p].pc = "copied" /\ req[p].sensor.id = id /\ Present(req[p].sensor)}

AtomicSensor(s) == [id |-> s.id, name |-> s.name, key |-> s.key]

AtomicReading(r) == [id |-> r.id, sensor_id |-> r.sensor_id, at |-> r.at]

AtomicSensors == {AtomicSensor(s) : s \in sensors}

AtomicReadings == {AtomicReading(r) : r \in readings}

AtomicState ==
    [id \in SensorIds |->
       IF Copying(id) = {} THEN state[id]
       ELSE CopiedState(id, req[CHOOSE p \in Copying(id) : TRUE].sensor_id)]

Atomic == INSTANCE SensorStoreAtomic WITH
    sensors <- AtomicSensors, readings <- AtomicReadings, state <- AtomicState,
    issued <- 1..(keys - 1)

CopyingTo(id) == \E q \in Procs : req[q].pc = "copied" /\ req[q].sensor.id = id

CopyingFrom(id) == \E q \in Procs : req[q].pc = "copied" /\ req[q].sensor_id = id

(* p is about to write, delete or copy the tags of an id while a copy from  *)
(* or to that id has committed its row and not its tags; or to copy a       *)
(* sensor, or the tags to one, that has been deleted.                       *)
MeetsCopy(p) ==
    \/ /\ req[p].pc = "loaded" /\ req[p].op \in StateOps
       /\ CopyingTo(req[p].sensor_id) \/ CopyingFrom(req[p].sensor_id)
    \/ req[p].pc = "selected" /\ req[p].op = "delete_sensor" /\ CopyingTo(req[p].sensor_id)
    \/ /\ req[p].pc = "loaded" /\ req[p].op = "copy_sensor"
       /\ CopyingTo(req[p].sensor_id) \/ ~Present(req[p].sensor)
    \/ /\ req[p].pc = "copied"
       /\ CopyingFrom(req[p].sensor.id) \/ ~Present(req[p].sensor)

(* Every step of a handler is one of the atomic operations or leaves the    *)
(* tables and the tags as they are, unless it is a write that rests on what *)
(* is no longer so or that meets a copy halfway.                            *)
ImplementsAtomic ==
    /\ Atomic!Init
    /\ [][\/ \E p \in Procs : req'[p] # req[p] /\ (Stale(p) \/ MeetsCopy(p))
          \/ Atomic!Next]_(Atomic!vars)
=============================================================================
