------------------------- MODULE SensorStoreAtomic -------------------------
(***************************************************************************)
(* What the docstrings of the handlers in app/main.py promise of the tables*)
(* and the state tags: every request takes effect in one step.             *)
(* SensorStore states when its handlers implement this module.             *)
(***************************************************************************)
EXTENDS Naturals

CONSTANTS Names, SensorIds, MaxDay

VARIABLES sensors, readings, state, day, issued

vars == <<sensors, readings, state, day, issued>>

Init ==
    /\ sensors = {}
    /\ readings = {}
    /\ state = [id \in SensorIds |-> "none"]
    /\ day = 0
    /\ issued = {}

Ids(rows) == {r.id : r \in rows}

(* New sensors get ids not in use and keys never issued before.  A copy     *)
(* also gets the source's tags.                                             *)
Add(new) ==
    /\ new # {}
    /\ sensors \subseteq sensors'
    /\ sensors' \ sensors = new
    /\ Ids(new) \cap Ids(sensors) = {}
    /\ {s.key : s \in new} \cap issued = {}
    /\ \A a, b \in new : a.id = b.id \/ a.key = b.key => a = b
    /\ issued' = issued \cup {s.key : s \in new}

RegisterSensors ==
    /\ Add(sensors' \ sensors)
    /\ UNCHANGED <<readings, state, day>>

CopySensor(source) ==
    /\ source \in Ids(sensors)
    /\ Add(sensors' \ sensors)
    /\ \A s \in sensors' \ sensors :
         state' = IF state[source] = "none" THEN state
                  ELSE [state EXCEPT ![s.id] = state[source]]
    /\ UNCHANGED <<readings, day>>

(* Readings are stored today, under unused ids, for a sensor that exists.   *)
StoreReadings(sensor_id) ==
    LET new == readings' \ readings IN
    /\ sensor_id \in Ids(sensors)
    /\ readings \subseteq readings'
    /\ new # {} /\ Ids(new) \cap Ids(readings) = {}
    /\ \A r \in new : r.sensor_id = sensor_id /\ r.at = day
    /\ UNCHANGED <<sensors, state, day, issued>>

ClearReadings(sensor_id) ==
    /\ readings' = {r \in readings : r.sensor_id # sensor_id}
    /\ UNCHANGED <<sensors, state, day, issued>>

CleanupOldReadings(days) ==
    /\ readings' = {r \in readings : ~(r.at + days < day)}
    /\ UNCHANGED <<sensors, state, day, issued>>

DeleteSensor(sensor_id) ==
    /\ sensors' = {s \in sensors : s.id # sensor_id}
    /\ readings' = {r \in readings : r.sensor_id # sensor_id}
    /\ UNCHANGED <<state, day, issued>>

(* A rotation touches one sensor and only its key, a rename only the name.  *)
ResetKey(old) ==
    /\ \E key \in issued' \ issued :
         /\ sensors' = (sensors \ {old}) \cup {[old EXCEPT !.key = key]}
         /\ issued' = issued \cup {key}
    /\ UNCHANGED <<readings, state, day>>

UpdateSensor(old) ==
    /\ \E name \in Names :
         sensors' = (sensors \ {old}) \cup {[old EXCEPT !.name = name]}
    /\ UNCHANGED <<readings, state, day, issued>>

SetState(sensor_id) ==
    /\ \E value \in {"enabled", "disabled", "none"} :
         state' = [state EXCEPT ![sensor_id] = value]
    /\ UNCHANGED <<sensors, readings, day, issued>>

Restart ==
    /\ state' = [id \in SensorIds |-> "none"]
    /\ UNCHANGED <<sensors, readings, day, issued>>

Tick ==
    /\ day' = day + 1
    /\ UNCHANGED <<sensors, readings, state, issued>>

Next ==
    \/ RegisterSensors
    \/ \E id \in SensorIds :
         CopySensor(id) \/ StoreReadings(id) \/ ClearReadings(id) \/ DeleteSensor(id) \/ SetState(id)
    \/ \E days \in 1..MaxDay : CleanupOldReadings(days)
    \/ \E old \in sensors : ResetKey(old) \/ UpdateSensor(old)
    \/ Restart
    \/ Tick

Spec == Init /\ [][Next]_vars
=============================================================================
