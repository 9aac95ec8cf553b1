------------------------- MODULE SensorStoreProofs -------------------------
(* Proofs about SensorStore, for every number of threads, receivers and     *)
(* names, every assignment of handlers to them and every bound.             *)
EXTENDS SensorStore, TLAPS

LEMMA IdleTyped == Idle \in Request
<1>1. {} \subseteq Reading
  OBVIOUS
<1>2. 0 \in 0..MaxSensorId
  BY BoundsAssumption
<1>3. NoSensor \in Sensor \cup {NoSensor}
  OBVIOUS
<1> QED
  BY ONLY <1>1, <1>2, <1>3 DEF Idle, Request, PCs

LEMMA InitTyped == Init => TypeOK
<1> SUFFICES ASSUME Init PROVE TypeOK
  OBVIOUS
<1>1. req \in [Procs -> Request] /\ \A p \in Procs : req[p].pc = "idle"
  BY IdleTyped DEF Init, Idle
<1>2. sensors \subseteq Sensor /\ readings \subseteq Reading
  BY DEF Init
<1>3. state \in [SensorIds -> {"none", "enabled", "disabled"}]
  BY DEF Init
<1>4. keys \in Nat \ {0} /\ stamp \in Nat \ {0} /\ day \in Nat
  BY DEF Init
<1> QED
  BY <1>1, <1>2, <1>3, <1>4 DEF Init, TypeOK

(* Finishing a request keeps the requests typed.                            *)
RequestsTyped ==
    /\ req \in [Procs -> Request]
    /\ \A p \in Procs : req[p].pc \in {"loaded", "checked", "copied"} =>
         req[p].sensor_id \in SensorIds

LEMMA FinishTyped ==
    ASSUME TypeOK, NEW p \in Procs, Finish(p)
    PROVE  RequestsTyped'
BY IdleTyped DEF TypeOK, Finish, RequestsTyped, Idle

(* Rows built by a commit are rows of their table.                          *)
LEMMA NewReadingsTyped ==
    ASSUME TypeOK, NEW p \in Procs, NEW n \in Nat, NEW k \in Nat
    PROVE  NewReadings(n, k, req[p]) \subseteq Reading
<1>1. req[p].sensor_id \in Nat /\ req[p].sensor.born \in Nat
  BY DEF TypeOK, Request, Sensor, NoSensor
<1>2. ASSUME NEW i \in 0..(k - 1)
      PROVE  n + i \in Nat /\ stamp + i \in Nat /\ day \in Nat
  BY DEF TypeOK
<1> QED
  BY <1>1, <1>2 DEF NewReadings, Reading

LEMMA BatchSizesNat ==
    ASSUME NEW op, NEW k \in BatchSizes(op) PROVE k \in Nat \ {0}
BY BoundsAssumption DEF BatchSizes

LEMMA AddSensorsTyped ==
    ASSUME TypeOK, NEW n \in SensorIds, NEW name \in Names, NEW k \in Nat \ {0},
           AddSensors(n, name, k)
    PROVE  sensors' \subseteq Sensor /\ keys' \in Nat \ {0}
<1>1. ASSUME NEW i \in 0..(k - 1)
      PROVE  NewSensor(n + i, name, keys + i) \in Sensor
  BY DEF TypeOK, NewSensor, Sensor, SensorIds
<1> QED
  BY <1>1, BoundsAssumption DEF AddSensors, TypeOK

LEMMA NextTyped == TypeOK /\ [Next]_vars => TypeOK'
<1> SUFFICES ASSUME TypeOK, [Next]_vars PROVE TypeOK'
  OBVIOUS
<1> USE DEF RequestsTyped
<1>0. does' = does /\ does \in Assignments
  BY DEF Next, vars, TypeOK
<1> USE <1>0
<1>1. CASE UNCHANGED vars
  BY <1>1 DEF TypeOK, vars
<1>2. ASSUME NEW p \in Procs, NEW op \in KeyedOps \cup SignedOps \cup OpenOps,
             NEW id \in SensorIds, LoadSensor(p, op, id)
      PROVE  TypeOK'
  <2>1. PICK s \in sensors :
          req' = [req EXCEPT ![p] = [pc |-> "loaded", op |-> op, sensor |-> s,
                                     sensor_id |-> id, rows |-> {}]]
    BY <1>2 DEF LoadSensor
  <2>2. op \in HttpOps \cup {"ingest", "none"}
    BY DEF HttpOps, KeyedOps, SignedOps, OpenOps, AdminOps
  <2>3. [pc |-> "loaded", op |-> op, sensor |-> s, sensor_id |-> id, rows |-> {}] \in Request
    BY <2>2, BoundsAssumption DEF TypeOK, Request, PCs, SensorIds
  <2> QED
    BY <1>2, <2>1, <2>3 DEF TypeOK, LoadSensor
<1>3. ASSUME NEW p \in Procs, CheckReading(p) PROVE TypeOK'
  <2>1. [req[p] EXCEPT !.pc = "checked"] \in Request
    BY DEF TypeOK, Request, PCs
  <2>2. CASE req' = [req EXCEPT ![p] = [req[p] EXCEPT !.pc = "checked"]]
    <3>1. req[p].pc = "loaded" /\ req'[p].sensor_id = req[p].sensor_id
      BY <1>3, <2>2, <2>1 DEF TypeOK, Request, CheckReading
    <3>2. \A q \in Procs \ {p} : req'[q] = req[q]
      BY <2>2 DEF TypeOK
    <3>3. req' \in [Procs -> Request]
      BY <2>2, <2>1 DEF TypeOK
    <3> QED
      BY <1>3, <3>1, <3>2, <3>3 DEF CheckReading, TypeOK
  <2>3. CASE Finish(p)
    BY <1>3, <2>3, FinishTyped DEF CheckReading, TypeOK
  <2> QED
    BY <1>3, <2>2, <2>3 DEF CheckReading, Finish
<1>4. ASSUME NEW p \in Procs, InsertReadings(p) PROVE TypeOK'
  <2>1. PICK n \in 1..MaxReadingId, k \in BatchSizes(req[p].op) :
          /\ readings' = readings \cup NewReadings(n, k, req[p])
          /\ stamp' = stamp + k
    BY <1>4 DEF InsertReadings
  <2>2. n \in Nat /\ k \in Nat \ {0}
    BY BatchSizesNat, BoundsAssumption
  <2>3. readings' \subseteq Reading /\ stamp' \in Nat \ {0}
    BY <2>1, <2>2, NewReadingsTyped DEF TypeOK
  <2> QED
    BY <1>4, <2>3, FinishTyped DEF InsertReadings, TypeOK
<1>5. ASSUME NEW p \in Procs, SelectReadings(p) PROVE TypeOK'
  <2> DEFINE rows == ReadingsOf(req[p].sensor_id)
  <2> DEFINE new == [req[p] EXCEPT !.pc = "selected", !.rows = rows]
  <2>1. rows \subseteq Reading
    BY DEF TypeOK, ReadingsOf, OldReadings
  <2>2. new \in Request /\ new.pc = "selected"
    BY <2>1 DEF TypeOK, Request, PCs
  <2>3. req' = [req EXCEPT ![p] = new]
    <3> HIDE DEF rows
    <3> QED
      BY <1>5 DEF SelectReadings, rows, TypeOK
  <2> HIDE DEF new
  <2>4. req' \in [Procs -> Request] /\ req'[p] = new /\ \A q \in Procs \ {p} : req'[q] = req[q]
    BY <2>2, <2>3 DEF TypeOK
  <2> QED
    BY <1>5, <2>2, <2>4 DEF SelectReadings, TypeOK
<1>6. ASSUME NEW p \in Procs, NEW days \in 1..MaxDay, SelectOld(p, days) PROVE TypeOK'
  <2> DEFINE rows == OldReadings(days)
  <2> DEFINE new == [Idle EXCEPT !.pc = "selected", !.op = "cleanup_old_readings",
                                 !.rows = rows]
  <2>1. rows \subseteq Reading
    BY DEF TypeOK, ReadingsOf, OldReadings
  <2>2. new \in Request /\ new.pc = "selected"
    <3> HIDE DEF rows
    <3> QED
      BY <2>1, IdleTyped DEF Request, PCs, HttpOps, AdminOps
  <2>3. req' = [req EXCEPT ![p] = new]
    BY <1>6 DEF SelectOld
  <2> HIDE DEF new
  <2>4. req' \in [Procs -> Request] /\ req'[p] = new /\ \A q \in Procs \ {p} : req'[q] = req[q]
    BY <2>2, <2>3 DEF TypeOK
  <2> QED
    BY <1>6, <2>2, <2>4 DEF SelectOld, TypeOK
<1>7. ASSUME NEW p \in Procs, CommitDelete(p) PROVE TypeOK'
  BY <1>7, FinishTyped DEF CommitDelete, WithoutRows, TypeOK
<1>8. ASSUME NEW p \in Procs, NEW k \in 1..MaxBatch, RegisterSensors(p, k) PROVE TypeOK'
  <2>1. k \in Nat \ {0}
    BY BoundsAssumption
  <2>2. sensors' \subseteq Sensor /\ keys' \in Nat \ {0}
    BY <1>8, <2>1, AddSensorsTyped DEF RegisterSensors
  <2> QED
    BY <1>8, <2>2 DEF RegisterSensors, TypeOK
<1>9. ASSUME NEW p \in Procs, CommitCopy(p) PROVE TypeOK'
  <2>1. PICK n \in SensorIds, name \in Names :
          /\ AddSensors(n, name, 1)
          /\ req' = [req EXCEPT ![p].pc = "copied", ![p].sensor = NewSensor(n, name, keys)]
    BY <1>9 DEF CommitCopy
  <2> DEFINE new == [req[p] EXCEPT !.pc = "copied", !.sensor = NewSensor(n, name, keys)]
  <2>2. NewSensor(n, name, keys) \in Sensor
    BY DEF NewSensor, Sensor, TypeOK, SensorIds
  <2>3. new \in Request /\ new.sensor_id = req[p].sensor_id
    BY <2>2 DEF TypeOK, Request, PCs
  <2>4. req' = [req EXCEPT ![p] = new]
    BY <2>1 DEF TypeOK
  <2> HIDE DEF new
  <2>5. req' \in [Procs -> Request] /\ req'[p] = new /\ \A q \in Procs \ {p} : req'[q] = req[q]
    BY <2>3, <2>4 DEF TypeOK
  <2>6. sensors' \subseteq Sensor /\ keys' \in Nat \ {0}
    BY <2>1, AddSensorsTyped
  <2> QED
    BY <1>9, <2>3, <2>5, <2>6 DEF CommitCopy, TypeOK
<1>10. ASSUME NEW p \in Procs, CopyTags(p) PROVE TypeOK'
  <2>1. req[p].sensor_id \in SensorIds
    BY <1>10 DEF CopyTags, TypeOK
  <2>2. ASSUME req[p].sensor.id \in SensorIds
        PROVE  CopiedState(req[p].sensor.id, req[p].sensor_id)
                 \in {"none", "enabled", "disabled"}
    BY <2>1, <2>2 DEF CopiedState, TypeOK
  <2> QED
    BY <1>10, <2>2, FinishTyped DEF CopyTags, TypeOK
<1>11. ASSUME NEW p \in Procs, CommitResetKey(p) PROVE TypeOK'
  <2>1. sensors' \subseteq Sensor /\ keys' \in Nat \ {0}
    BY <1>11 DEF CommitResetKey, Rotated, TypeOK, Sensor
  <2> QED
    BY <1>11, <2>1, FinishTyped DEF CommitResetKey, TypeOK
<1>12. ASSUME NEW p \in Procs, CommitUpdate(p) PROVE TypeOK'
  <2>1. sensors' \subseteq Sensor
    BY <1>12 DEF CommitUpdate, Renamed, TypeOK, Sensor
  <2> QED
    BY <1>12, <2>1, FinishTyped DEF CommitUpdate, TypeOK
<1>13. ASSUME NEW p \in Procs, SetState(p) PROVE TypeOK'
  <2>1. PICK value \in NewStates(req[p].op) : state' = [state EXCEPT ![req[p].sensor_id] = value]
    BY <1>13 DEF SetState
  <2>2. value \in {"none", "enabled", "disabled"}
    BY <1>13, <2>1 DEF SetState, StateOps, NewStates
  <2> QED
    BY <1>13, <2>1, <2>2, FinishTyped DEF SetState, TypeOK
<1>14. ASSUME Restart PROVE TypeOK'
  BY <1>14, IdleTyped DEF Restart, TypeOK, Idle
<1>15. ASSUME Tick PROVE TypeOK'
  BY <1>15 DEF Tick, TypeOK
<1> QED
  BY <1>1, <1>2, <1>3, <1>4, <1>5, <1>6, <1>7, <1>8, <1>9, <1>10, <1>11, <1>12,
     <1>13, <1>14, <1>15 DEF Next, Step

(* The tables keep their types whatever interleaving the handlers take.     *)
THEOREM TypeCorrect == Spec => []TypeOK
<1>1. Init => TypeOK
  BY InitTyped
<1>2. TypeOK /\ [Next]_vars => TypeOK'
  BY NextTyped
<1> QED
  BY <1>1, <1>2, PTL DEF Spec

-----------------------------------------------------------------------------
(* Which steps write which table.                                           *)
LEMMA ReadingsChange ==
    ASSUME [Next]_vars
    PROVE  \/ readings' = readings /\ stamp' = stamp
           \/ \E p \in Procs : InsertReadings(p)
           \/ \E p \in Procs : CommitDelete(p)
BY DEF Next, Step, vars, LoadSensor, CheckReading, SelectReadings, SelectOld,
       RegisterSensors, CommitCopy, CopyTags, CommitResetKey, CommitUpdate,
       SetState, Restart, Tick

LEMMA SensorsChange ==
    ASSUME [Next]_vars
    PROVE  \/ sensors' = sensors /\ keys' = keys
           \/ \E n \in SensorIds, name \in Names, k \in Nat \ {0} : AddSensors(n, name, k)
           \/ \E p \in Procs : CommitDelete(p)
           \/ \E p \in Procs : CommitResetKey(p)
           \/ \E p \in Procs : CommitUpdate(p)
<1>1. 1 \in Nat \ {0} /\ \A k \in 1..MaxBatch : k \in Nat \ {0}
  BY BoundsAssumption
<1>2. CASE UNCHANGED <<sensors, keys>>
  BY <1>2
<1>3. ASSUME NEW p \in Procs, NEW k \in 1..MaxBatch, RegisterSensors(p, k)
      PROVE  \E n \in SensorIds, name \in Names, j \in Nat \ {0} : AddSensors(n, name, j)
  BY <1>1, <1>3 DEF RegisterSensors
<1>4. ASSUME NEW p \in Procs, CommitCopy(p)
      PROVE  \E n \in SensorIds, name \in Names, j \in Nat \ {0} : AddSensors(n, name, j)
  BY <1>1, <1>4 DEF CommitCopy
<1>5. ASSUME NEW p \in Procs, Step(p)
      PROVE  \/ UNCHANGED <<sensors, keys>>
             \/ \E k \in 1..MaxBatch : RegisterSensors(p, k)
             \/ CommitCopy(p) \/ CommitDelete(p) \/ CommitResetKey(p) \/ CommitUpdate(p)
  BY <1>5 DEF Step, LoadSensor, CheckReading, InsertReadings, SelectReadings, SelectOld,
     CopyTags, SetState
<1>6. \/ UNCHANGED <<sensors, keys>>
      \/ \E p \in Procs : Step(p)
  BY DEF Next, vars, Restart, Tick
<1> QED
  BY <1>2, <1>3, <1>4, <1>5, <1>6

-----------------------------------------------------------------------------
(* The order of ids is the order of commits.  Inductive with the fact that  *)
(* every stored stamp has been used: a new row gets an id above all others  *)
(* and a stamp above all others.                                            *)
IdOrderInv == IdOrderIsCommitOrder /\ \A r \in readings : r.stamp < stamp

LEMMA InsertKeepsIdOrder ==
    ASSUME TypeOK, IdOrderInv, NEW p \in Procs, InsertReadings(p)
    PROVE  IdOrderInv'
<1>1. PICK n \in 1..MaxReadingId, k \in BatchSizes(req[p].op) :
        /\ IsNextId(readings, n)
        /\ readings' = readings \cup NewReadings(n, k, req[p])
        /\ stamp' = stamp + k
  BY DEF InsertReadings
<1>2. n \in Nat /\ k \in Nat \ {0} /\ stamp \in Nat
  BY BatchSizesNat, BoundsAssumption DEF TypeOK
<1>3. \A r \in readings : r.id \in Nat /\ r.stamp \in Nat
  BY DEF TypeOK, Reading
<1>4. \A r \in readings : r.id < n /\ r.stamp < stamp
  BY <1>1 DEF IsNextId, IdOrderInv
<1>5. \A r \in NewReadings(n, k, req[p]) :
        \E i \in 0..(k - 1) : r.id = n + i /\ r.stamp = stamp + i
  BY DEF NewReadings
<1>6. ASSUME NEW a \in readings', NEW b \in readings'
      PROVE  /\ a.id <= b.id <=> a.stamp <= b.stamp
             /\ a.id = b.id => a = b
  <2>1. CASE a \in readings /\ b \in readings
    BY <2>1 DEF IdOrderInv, IdOrderIsCommitOrder
  <2>2. CASE a \in NewReadings(n, k, req[p]) /\ b \in NewReadings(n, k, req[p])
    <3>1. a.id <= b.id <=> a.stamp <= b.stamp
      BY <1>2, <1>5, <2>2
    <3>2. ASSUME a.id = b.id PROVE a = b
      BY <1>2, <2>2, <3>2 DEF NewReadings
    <3> QED
      BY <3>1, <3>2
  <2>3. CASE \/ a \in readings /\ b \in NewReadings(n, k, req[p])
             \/ b \in readings /\ a \in NewReadings(n, k, req[p])
    BY <1>2, <1>3, <1>4, <1>5, <2>3
  <2> QED
    BY <1>1, <2>1, <2>2, <2>3
<1>7. \A r \in readings' : r.stamp < stamp'
  BY <1>1, <1>2, <1>3, <1>4, <1>5
<1> QED
  BY <1>6, <1>7 DEF IdOrderInv, IdOrderIsCommitOrder

LEMMA NextIdOrder == TypeOK /\ IdOrderInv /\ [Next]_vars => IdOrderInv'
<1> SUFFICES ASSUME TypeOK, IdOrderInv, [Next]_vars PROVE IdOrderInv'
  OBVIOUS
<1>1. CASE readings' = readings /\ stamp' = stamp
  BY <1>1 DEF IdOrderInv, IdOrderIsCommitOrder
<1>2. ASSUME NEW p \in Procs, InsertReadings(p) PROVE IdOrderInv'
  BY <1>2, InsertKeepsIdOrder
<1>3. ASSUME NEW p \in Procs, CommitDelete(p) PROVE IdOrderInv'
  <2>1. readings' \subseteq readings /\ stamp' = stamp
    BY <1>3 DEF CommitDelete, WithoutRows
  <2> QED
    BY <2>1 DEF IdOrderInv, IdOrderIsCommitOrder
<1> QED
  BY <1>1, <1>2, <1>3, ReadingsChange

LEMMA IdOrderInvCorrect == Spec => []IdOrderInv
<1>1. Init => IdOrderInv
  BY DEF Init, IdOrderInv, IdOrderIsCommitOrder
<1> QED
  BY <1>1, NextIdOrder, TypeCorrect, PTL DEF Spec

(* Ids order the surviving readings as they were committed, and no two      *)
(* readings have the same id, although ids are used again.                  *)
THEOREM IdOrderCorrect == Spec => []IdOrderIsCommitOrder
<1>1. IdOrderInv => IdOrderIsCommitOrder
  BY DEF IdOrderInv
<1> QED
  BY <1>1, IdOrderInvCorrect, PTL

-----------------------------------------------------------------------------
(* Live sensors differ in id and in key.  Inductive with the fact that      *)
(* every key in the table has been issued, so that a fresh one is new.      *)
SensorInv == LiveSensorsDistinct /\ \A s \in sensors : s.key < keys

LEMMA AddKeepsSensorInv ==
    ASSUME TypeOK, SensorInv, NEW n \in SensorIds, NEW name \in Names,
           NEW k \in Nat \ {0}, AddSensors(n, name, k)
    PROVE  SensorInv'
<1> DEFINE new == {NewSensor(n + i, name, keys + i) : i \in 0..(k - 1)}
<1>1. n \in Nat /\ keys \in Nat /\ keys' = keys + k /\ sensors' = sensors \cup new
  BY DEF AddSensors, SensorIds, TypeOK
<1>2. \A s \in sensors : s.id \in Nat /\ s.key \in Nat /\ s.id < n /\ s.key < keys
  BY DEF TypeOK, Sensor, AddSensors, IsNextId, SensorInv
<1>3. \A s \in new : \E i \in 0..(k - 1) :
        s = NewSensor(n + i, name, keys + i) /\ s.id = n + i /\ s.key = keys + i
  BY DEF NewSensor
<1> HIDE DEF new
<1>4. \A s \in sensors' : s.key < keys'
  BY <1>1, <1>2, <1>3
<1>5. ASSUME NEW a \in sensors', NEW b \in sensors', a.id = b.id \/ a.key = b.key
      PROVE  a = b
  <2>1. CASE a \in sensors /\ b \in sensors
    BY <1>5, <2>1 DEF SensorInv, LiveSensorsDistinct
  <2>2. CASE a \in new /\ b \in new
    <3>1. PICK i \in 0..(k - 1), j \in 0..(k - 1) :
            /\ a = NewSensor(n + i, name, keys + i) /\ a.id = n + i /\ a.key = keys + i
            /\ b = NewSensor(n + j, name, keys + j) /\ b.id = n + j /\ b.key = keys + j
      BY <1>3, <2>2
    <3>2. i = j
      BY <1>1, <1>5, <3>1
    <3> QED
      BY <3>1, <3>2
  <2>3. CASE (a \in sensors /\ b \in new) \/ (a \in new /\ b \in sensors)
    BY <1>1, <1>2, <1>3, <1>5, <2>3
  <2> QED
    BY <1>1, <2>1, <2>2, <2>3
<1> QED
  BY <1>4, <1>5 DEF SensorInv, LiveSensorsDistinct

LEMMA ResetKeepsSensorInv ==
    ASSUME TypeOK, SensorInv, NEW p \in Procs, CommitResetKey(p)
    PROVE  SensorInv'
<1>1. CASE UNCHANGED <<sensors, keys>>
  BY <1>1 DEF SensorInv, LiveSensorsDistinct
<1>2. CASE sensors' = Rotated(req[p].sensor_id) /\ keys' = keys + 1
  <2>1. \A s \in sensors : s.id \in Nat /\ s.key \in Nat /\ s.key < keys
    BY DEF TypeOK, Sensor, SensorInv
  <2>2. ASSUME NEW a \in sensors'
        PROVE  \E s \in sensors :
                 /\ a = IF s.id = req[p].sensor_id THEN [s EXCEPT !.key = keys] ELSE s
                 /\ a.id = s.id
                 /\ a.key = IF s.id = req[p].sensor_id THEN keys ELSE s.key
    BY <1>2, <2>2 DEF Rotated, TypeOK, Sensor
  <2>3. keys \in Nat
    BY DEF TypeOK
  <2>4. ASSUME NEW a \in sensors', NEW b \in sensors', a.id = b.id \/ a.key = b.key
        PROVE  a = b
    BY <2>1, <2>2, <2>3, <2>4 DEF SensorInv, LiveSensorsDistinct
  <2>5. \A a \in sensors' : a.key < keys'
    BY <1>2, <2>1, <2>2, <2>3
  <2> QED
    BY <2>4, <2>5 DEF SensorInv, LiveSensorsDistinct
<1> QED
  BY <1>1, <1>2 DEF CommitResetKey

LEMMA UpdateKeepsSensorInv ==
    ASSUME TypeOK, SensorInv, NEW p \in Procs, CommitUpdate(p)
    PROVE  SensorInv'
<1>1. PICK name \in Names : sensors' = Renamed(req[p].sensor, name)
  BY DEF CommitUpdate
<1>2. ASSUME NEW a \in sensors'
      PROVE  \E s \in sensors :
               /\ a = IF s.id = req[p].sensor.id /\ name # req[p].sensor.name
                        THEN [s EXCEPT !.name = name] ELSE s
               /\ a.id = s.id /\ a.key = s.key
  BY <1>1, <1>2 DEF Renamed, TypeOK, Sensor
<1> QED
  BY <1>2 DEF SensorInv, LiveSensorsDistinct, CommitUpdate

LEMMA NextSensorInv == TypeOK /\ SensorInv /\ [Next]_vars => SensorInv'
<1> SUFFICES ASSUME TypeOK, SensorInv, [Next]_vars PROVE SensorInv'
  OBVIOUS
<1>1. CASE sensors' = sensors /\ keys' = keys
  BY <1>1 DEF SensorInv, LiveSensorsDistinct
<1>2. ASSUME NEW p \in Procs, CommitDelete(p) PROVE SensorInv'
  <2>1. sensors' \subseteq sensors /\ keys' = keys
    BY <1>2 DEF CommitDelete
  <2> QED
    BY <2>1 DEF SensorInv, LiveSensorsDistinct
<1> QED
  BY <1>1, <1>2, SensorsChange, AddKeepsSensorInv, ResetKeepsSensorInv, UpdateKeepsSensorInv

LEMMA SensorInvCorrect == Spec => []SensorInv
<1>1. Init => SensorInv
  BY DEF Init, SensorInv, LiveSensorsDistinct
<1> QED
  BY <1>1, NextSensorInv, TypeCorrect, PTL DEF Spec

(* At most one live sensor answers to an id or to a key.                    *)
THEOREM LiveSensorsCorrect == Spec => []LiveSensorsDistinct
<1>1. SensorInv => LiveSensorsDistinct
  BY DEF SensorInv
<1> QED
  BY <1>1, SensorInvCorrect, PTL

(* A key that was issued is only ever valid where it was valid before: a    *)
(* rename writes back no column it did not change, and a rotation writes a  *)
(* fresh key whichever row its id has come to name.                         *)
THEOREM RetiredKeysCorrect == Spec => RetiredKeysStayRetired
<1> DEFINE Kept == \A s \in sensors' : s.key < keys =>
                     \E old \in sensors : old.id = s.id /\ old.key = s.key
<1>1. TypeOK /\ [Next]_vars => Kept
  <2> SUFFICES ASSUME TypeOK, [Next]_vars PROVE Kept
    OBVIOUS
  <2>1. CASE sensors' = sensors
    BY <2>1
  <2>2. ASSUME NEW n \in SensorIds, NEW name \in Names, NEW k \in Nat \ {0},
               AddSensors(n, name, k)
        PROVE  Kept
    <3>1. \A i \in 0..(k - 1) : NewSensor(n + i, name, keys + i).key = keys + i
      BY DEF NewSensor
    <3>2. keys \in Nat
      BY DEF TypeOK
    <3>3. sensors' = sensors \cup {NewSensor(n + i, name, keys + i) : i \in 0..(k - 1)}
      BY <2>2 DEF AddSensors
    <3> QED
      BY <3>1, <3>2, <3>3
  <2>3. ASSUME NEW p \in Procs, CommitDelete(p) PROVE Kept
    BY <2>3 DEF CommitDelete
  <2>4. ASSUME NEW p \in Procs, CommitResetKey(p) PROVE Kept
    <3>1. CASE sensors' = Rotated(req[p].sensor_id)
      <4>1. ASSUME NEW a \in sensors'
            PROVE  \E s \in sensors : a.id = s.id /\ (a.key = keys \/ a.key = s.key)
        BY <3>1, <4>1 DEF Rotated, TypeOK, Sensor
      <4>2. keys \in Nat
        BY DEF TypeOK
      <4> QED
        BY <4>1, <4>2
    <3> QED
      BY <2>1, <2>4, <3>1 DEF CommitResetKey
  <2>5. ASSUME NEW p \in Procs, CommitUpdate(p) PROVE Kept
    <3>1. PICK name \in Names : sensors' = Renamed(req[p].sensor, name)
      BY <2>5 DEF CommitUpdate
    <3>2. ASSUME NEW a \in sensors' PROVE \E s \in sensors : a.id = s.id /\ a.key = s.key
      BY <3>1, <3>2 DEF Renamed, TypeOK, Sensor
    <3> QED
      BY <3>2
  <2> QED
    BY <2>1, <2>2, <2>3, <2>4, <2>5, SensorsChange
<1>2. TypeOK /\ [Next]_vars =>
        [\A s \in sensors' : s.key < keys =>
           \E old \in sensors : old.id = s.id /\ old.key = s.key]_vars
  BY <1>1
<1> QED
  BY <1>2, TypeCorrect, PTL DEF Spec, RetiredKeysStayRetired


-----------------------------------------------------------------------------
DeleteOps == {"clear_sensor_readings", "delete_sensor", "cleanup_old_readings"}

(* Where a request can be, and what it is about: the sensor it loaded is    *)
(* the one it names, for a signed one after CheckReading has compared them. *)
CallInv(p) ==
    /\ req[p].pc # "idle" => req[p].op \in does[p]
    /\ req[p].pc = "loaded" => req[p].op \in KeyedOps \cup SignedOps \cup OpenOps
    /\ req[p].pc = "checked" => req[p].op \in SignedOps
    /\ req[p].pc = "selected" => req[p].op \in DeleteOps
    /\ req[p].pc = "copied" => req[p].op = "copy_sensor"
    /\ \/ req[p].pc = "loaded" /\ req[p].op \notin SignedOps
       \/ req[p].pc = "checked"
       \/ req[p].pc = "selected" /\ req[p].op # "cleanup_old_readings"
       => req[p].sensor_id = req[p].sensor.id
    /\ req[p].pc = "selected" /\ req[p].op # "cleanup_old_readings" => req[p].sensor_id \in SensorIds

CallsInv == \A p \in Procs : CallInv(p)

(* The steps after which a request is not idle, and what it is then.        *)
LEMMA RequestsChange ==
    ASSUME TypeOK, [Next]_vars, NEW q \in Procs
    PROVE  \/ req'[q] = req[q]
           \/ req'[q] = Idle
           \/ \E op \in KeyedOps \cup SignedOps \cup OpenOps, id \in SensorIds : LoadSensor(q, op, id)
           \/ CheckReading(q)
           \/ SelectReadings(q)
           \/ \E days \in 1..MaxDay : SelectOld(q, days)
           \/ CommitCopy(q)
<1>1. req \in [Procs -> Request]
  BY DEF TypeOK
<1>2. ASSUME NEW p \in Procs, Step(p), p # q PROVE req'[q] = req[q]
  BY <1>1, <1>2 DEF Step, LoadSensor, CheckReading, InsertReadings, SelectReadings, SelectOld,
     CommitDelete, RegisterSensors, CommitCopy, CopyTags, CommitResetKey, CommitUpdate, SetState, Finish
<1>3. ASSUME Finish(q) PROVE req'[q] = Idle
  BY <1>1, <1>3 DEF Finish
<1> QED
  BY <1>1, <1>2, <1>3 DEF Next, vars, Restart, Tick, Step, InsertReadings, CommitDelete, RegisterSensors,
     CopyTags, CommitResetKey, CommitUpdate, SetState

LEMMA LoadedRequest ==
    ASSUME TypeOK, NEW q \in Procs, NEW op \in KeyedOps \cup SignedOps \cup OpenOps,
           NEW id \in SensorIds, LoadSensor(q, op, id)
    PROVE  \E s \in sensors :
             /\ req'[q].pc = "loaded" /\ req'[q].op = op /\ req'[q].sensor = s /\ req'[q].sensor_id = id
             /\ op \in does[q] /\ MayLoad(op, s, id)
BY DEF TypeOK, LoadSensor

LEMMA CheckedRequest ==
    ASSUME TypeOK, NEW q \in Procs, CheckReading(q), req'[q] # Idle
    PROVE  /\ req[q].pc = "loaded" /\ req[q].op \in SignedOps /\ req[q].sensor_id = req[q].sensor.id
           /\ req'[q].pc = "checked" /\ req'[q].op = req[q].op
           /\ req'[q].sensor = req[q].sensor /\ req'[q].sensor_id = req[q].sensor_id
<1>1. req'[q] = [req[q] EXCEPT !.pc = "checked"] /\ Submittable(req[q])
  BY DEF CheckReading, TypeOK
<1>2. req[q] \in Request
  BY DEF TypeOK
<1> QED
  BY <1>1, <1>2 DEF CheckReading, Submittable, Request

LEMMA SelectedRequest ==
    ASSUME TypeOK, NEW q \in Procs, SelectReadings(q)
    PROVE  /\ req[q].pc = "loaded" /\ req[q].op \in {"clear_sensor_readings", "delete_sensor"}
           /\ req'[q].pc = "selected" /\ req'[q].op = req[q].op
           /\ req'[q].sensor = req[q].sensor /\ req'[q].sensor_id = req[q].sensor_id
           /\ req'[q].rows = ReadingsOf(req[q].sensor_id)
<1> DEFINE rows == ReadingsOf(req[q].sensor_id)
<1>1. req[q] \in Request
  BY DEF TypeOK
<1>2. req' = [req EXCEPT ![q].pc = "selected", ![q].rows = rows]
  BY DEF SelectReadings
<1> HIDE DEF rows
<1>3. req'[q] = [req[q] EXCEPT !.pc = "selected", !.rows = rows]
  BY <1>2 DEF TypeOK
<1>4. /\ req'[q].pc = "selected" /\ req'[q].op = req[q].op /\ req'[q].sensor = req[q].sensor
      /\ req'[q].sensor_id = req[q].sensor_id /\ req'[q].rows = rows
  BY <1>1, <1>3 DEF Request
<1> QED
  BY <1>4 DEF SelectReadings, rows

LEMMA SelectedOldRequest ==
    ASSUME TypeOK, NEW q \in Procs, NEW days \in 1..MaxDay, SelectOld(q, days)
    PROVE  /\ req'[q].pc = "selected" /\ req'[q].op = "cleanup_old_readings"
           /\ "cleanup_old_readings" \in does[q]
           /\ req'[q].rows = OldReadings(days)
<1> DEFINE rows == OldReadings(days)
<1>1. req' = [req EXCEPT ![q] = [Idle EXCEPT !.pc = "selected", !.op = "cleanup_old_readings",
                                            !.rows = rows]]
  BY DEF SelectOld
<1> HIDE DEF rows
<1>2. req'[q].pc = "selected" /\ req'[q].op = "cleanup_old_readings" /\ req'[q].rows = rows
  BY <1>1 DEF TypeOK, Idle
<1> QED
  BY <1>2 DEF SelectOld, rows

LEMMA CopiedRequest ==
    ASSUME TypeOK, NEW q \in Procs, CommitCopy(q)
    PROVE  \E n \in SensorIds, name \in Names :
             /\ AddSensors(n, name, 1)
             /\ req[q].pc = "loaded" /\ req[q].op = "copy_sensor"
             /\ req'[q].pc = "copied" /\ req'[q].op = req[q].op
             /\ req'[q].sensor_id = req[q].sensor_id /\ req'[q].sensor = NewSensor(n, name, keys)
<1>1. req[q] \in Request
  BY DEF TypeOK
<1>2. PICK n \in SensorIds, name \in Names :
        /\ AddSensors(n, name, 1)
        /\ req' = [req EXCEPT ![q].pc = "copied", ![q].sensor = NewSensor(n, name, keys)]
  BY DEF CommitCopy
<1>3. req'[q] = [req[q] EXCEPT !.pc = "copied", !.sensor = NewSensor(n, name, keys)]
  BY <1>2 DEF TypeOK
<1>4. /\ req'[q].pc = "copied" /\ req'[q].op = req[q].op
      /\ req'[q].sensor_id = req[q].sensor_id /\ req'[q].sensor = NewSensor(n, name, keys)
  BY <1>1, <1>3 DEF Request
<1> QED
  BY <1>2, <1>4 DEF CommitCopy

LEMMA NextCalls == TypeOK /\ CallsInv /\ [Next]_vars => CallsInv'
<1> SUFFICES ASSUME TypeOK, CallsInv, [Next]_vars, NEW q \in Procs PROVE CallInv(q)'
  BY DEF CallsInv
<1> USE DEF CallInv
<1>00. does' = does
  BY DEF Next, vars
<1> USE <1>00
<1>0. CallInv(q)
  BY DEF CallsInv
<1>1. CASE req'[q] = req[q]
  BY <1>0, <1>1
<1>2. CASE req'[q] = Idle
  BY <1>2 DEF Idle
<1>3. ASSUME NEW op \in KeyedOps \cup SignedOps \cup OpenOps, NEW id \in SensorIds, LoadSensor(q, op, id)
      PROVE  CallInv(q)'
  <2>1. PICK s \in sensors :
          /\ req'[q].pc = "loaded" /\ req'[q].op = op /\ req'[q].sensor = s /\ req'[q].sensor_id = id
          /\ op \in does[q] /\ MayLoad(op, s, id)
    BY <1>3, LoadedRequest
  <2>2. op \notin SignedOps => id = s.id
    BY <2>1 DEF MayLoad
  <2> QED
    BY <2>1, <2>2
<1>4. CASE CheckReading(q) /\ req'[q] # Idle
  BY <1>0, <1>4, CheckedRequest
<1>5. CASE SelectReadings(q)
  <2>1. req[q].pc = "loaded" => req[q].sensor_id \in SensorIds
    BY DEF TypeOK
  <2> QED
    BY <1>0, <1>5, <2>1, SelectedRequest DEF DeleteOps, SignedOps
<1>6. ASSUME NEW days \in 1..MaxDay, SelectOld(q, days) PROVE CallInv(q)'
  BY <1>6, SelectedOldRequest DEF DeleteOps
<1>7. CASE CommitCopy(q)
  BY <1>0, <1>7, CopiedRequest
<1> QED
  BY <1>1, <1>2, <1>3, <1>4, <1>5, <1>6, <1>7, RequestsChange

LEMMA CallsCorrect == Spec => []CallsInv
<1>1. Init => CallsInv
  BY DEF Init, CallsInv, CallInv, Idle
<1> QED
  BY <1>1, NextCalls, TypeCorrect, PTL DEF Spec


-----------------------------------------------------------------------------
(* Readings that are new have a stamp and an id above all others.           *)
LEMMA ReadingsCome ==
    ASSUME TypeOK, [Next]_vars
    PROVE  /\ stamp' >= stamp
           /\ \A r \in readings' : r \in readings \/ (r.stamp >= stamp /\ \A x \in readings : x.id < r.id)
<1>1. CASE readings' = readings /\ stamp' = stamp
  BY <1>1 DEF TypeOK
<1>2. ASSUME NEW p \in Procs, InsertReadings(p)
      PROVE  /\ stamp' >= stamp
             /\ \A r \in readings' : r \in readings \/ (r.stamp >= stamp /\ \A x \in readings : x.id < r.id)
  <2>1. PICK n \in 1..MaxReadingId, k \in BatchSizes(req[p].op) :
          /\ IsNextId(readings, n)
          /\ readings' = readings \cup NewReadings(n, k, req[p])
          /\ stamp' = stamp + k
    BY <1>2 DEF InsertReadings
  <2>2. n \in Nat /\ k \in Nat \ {0} /\ stamp \in Nat
    BY BatchSizesNat, BoundsAssumption DEF TypeOK
  <2>3. \A r \in NewReadings(n, k, req[p]) : \E i \in 0..(k - 1) : r.id = n + i /\ r.stamp = stamp + i
    BY DEF NewReadings
  <2>4. \A x \in readings : x.id \in Nat /\ x.id < n
    BY <2>1 DEF IsNextId, TypeOK, Reading
  <2> QED
    BY <2>1, <2>2, <2>3, <2>4
<1>3. ASSUME NEW p \in Procs, CommitDelete(p) PROVE readings' \subseteq readings /\ stamp' = stamp
  BY <1>3 DEF CommitDelete, WithoutRows
<1>4. stamp \in Nat
  BY DEF TypeOK
<1> QED
  BY <1>1, <1>2, <1>3, <1>4, ReadingsChange

(* What is known of a selection until its commit.  Its rows are about the   *)
(* request.  A row of the table that has the id of one of them is that row, *)
(* or came later, when that row was gone.                                   *)
RowIsAbout(p, d) ==
    IF req[p].op = "cleanup_old_readings" THEN d.at < day ELSE d.sensor_id = req[p].sensor_id

SelectionInv(p) ==
    req[p].pc = "selected" =>
      \A d \in req[p].rows :
        /\ d.stamp < stamp
        /\ RowIsAbout(p, d)
        /\ \A r \in readings : d.id = r.id => d = r \/ (d \notin readings /\ d.stamp < r.stamp)

(* Whatever others insert and delete, a selection keeps what is known of it.*)
LEMMA SelectionStays ==
    ASSUME TypeOK, [Next]_vars, NEW p \in Procs, SelectionInv(p), req'[p] = req[p]
    PROVE  SelectionInv(p)'
<1> SUFFICES ASSUME req'[p].pc = "selected", NEW d \in req'[p].rows
             PROVE  /\ d.stamp < stamp'
                    /\ RowIsAbout(p, d)'
                    /\ \A r \in readings' : d.id = r.id => d = r \/ (d \notin readings' /\ d.stamp < r.stamp)
  BY DEF SelectionInv
<1>1. /\ d.stamp < stamp /\ RowIsAbout(p, d)
      /\ \A r \in readings : d.id = r.id => d = r \/ (d \notin readings /\ d.stamp < r.stamp)
  BY DEF SelectionInv
<1>2. d \in Reading /\ stamp \in Nat /\ day \in Nat /\ stamp' \in Nat
  BY NextTyped DEF TypeOK, Request
<1>3. day' \in {day, day + 1}
  BY DEF Next, Step, vars, LoadSensor, CheckReading, InsertReadings, SelectReadings, SelectOld,
     CommitDelete, RegisterSensors, CommitCopy, CopyTags, CommitResetKey, CommitUpdate, SetState,
     Restart, Tick
<1>4. RowIsAbout(p, d)'
  BY <1>1, <1>2, <1>3 DEF RowIsAbout, Reading
<1>5. d.stamp \in Nat
  BY <1>2 DEF Reading
<1>6. d \in readings' => d \in readings
  BY <1>1, <1>2, <1>5, ReadingsCome
<1>7. ASSUME NEW r \in readings', d.id = r.id PROVE d = r \/ (d \notin readings' /\ d.stamp < r.stamp)
  <2>1. CASE r \in readings
    BY <1>1, <1>6, <1>7, <2>1
  <2>2. CASE r \notin readings
    <3>1. r.stamp >= stamp /\ \A x \in readings : x.id < r.id
      BY <2>2, ReadingsCome
    <3>2. d \notin readings
      BY <1>2, <1>7, <3>1 DEF Reading
    <3>3. r.stamp \in Nat
      BY <1>7, NextTyped DEF TypeOK, Reading
    <3> QED
      BY <1>1, <1>2, <1>5, <1>6, <3>1, <3>2, <3>3
  <2> QED
    BY <2>1, <2>2
<1> QED
  BY <1>1, <1>2, <1>4, <1>5, <1>7, ReadingsCome

LEMMA NextSelection ==
    ASSUME TypeOK, IdOrderInv, [Next]_vars, NEW q \in Procs, SelectionInv(q)
    PROVE  SelectionInv(q)'
<1>1. CASE req'[q] = req[q]
  BY <1>1, SelectionStays
<1>2. CASE req'[q] = Idle
  BY <1>2 DEF Idle, SelectionInv
<1>3. ASSUME NEW op \in KeyedOps \cup SignedOps \cup OpenOps, NEW id \in SensorIds, LoadSensor(q, op, id)
      PROVE  SelectionInv(q)'
  BY <1>3, LoadedRequest DEF SelectionInv
<1>4. CASE CheckReading(q) /\ req'[q] # Idle
  BY <1>4, CheckedRequest DEF SelectionInv
<1>5. CASE SelectReadings(q)
  <2>1. /\ req'[q].op # "cleanup_old_readings" /\ req'[q].sensor_id = req[q].sensor_id
        /\ req'[q].rows = ReadingsOf(req[q].sensor_id)
    BY <1>5, SelectedRequest
  <2>2. readings' = readings /\ stamp' = stamp
    BY <1>5 DEF SelectReadings
  <2> QED
    BY <2>1, <2>2 DEF SelectionInv, RowIsAbout, ReadingsOf, IdOrderInv, IdOrderIsCommitOrder
<1>6. ASSUME NEW days \in 1..MaxDay, SelectOld(q, days) PROVE SelectionInv(q)'
  <2>1. req'[q].op = "cleanup_old_readings" /\ req'[q].rows = OldReadings(days)
    BY <1>6, SelectedOldRequest
  <2>2. readings' = readings /\ stamp' = stamp /\ day' = day
    BY <1>6 DEF SelectOld
  <2>3. \A d \in OldReadings(days) : d.at < day
    BY BoundsAssumption DEF OldReadings, TypeOK, Reading
  <2> QED
    BY <2>1, <2>2, <2>3 DEF SelectionInv, RowIsAbout, OldReadings, IdOrderInv, IdOrderIsCommitOrder
<1>7. CASE CommitCopy(q)
  BY <1>7, CopiedRequest DEF SelectionInv
<1> QED
  BY <1>1, <1>2, <1>3, <1>4, <1>5, <1>6, <1>7, RequestsChange

SelectionsInv == \A p \in Procs : SelectionInv(p)

LEMMA SelectionsCorrect == Spec => []SelectionsInv
<1>1. Init => SelectionsInv
  BY DEF Init, Idle, SelectionsInv, SelectionInv
<1>2. TypeOK /\ IdOrderInv /\ SelectionsInv /\ [Next]_vars => SelectionsInv'
  BY NextSelection DEF SelectionsInv
<1> QED
  BY <1>1, <1>2, TypeCorrect, IdOrderInvCorrect, PTL DEF Spec

(* However many requests delete at once, a deletion removes a row it has    *)
(* selected and is about, or the later row that has the id of such a row    *)
(* that another request has deleted.                                        *)
THEOREM DeletionsCorrect == Spec => DeletionsAreSelected
<1> DEFINE Asked ==
      \A r \in readings \ readings' : \E p \in Procs :
         /\ req[p].pc = "selected" /\ req'[p].pc = "idle"
         /\ \E d \in req[p].rows :
              /\ d.id = r.id
              /\ d = r \/ (d \notin readings /\ d.stamp < r.stamp)
              /\ IF req[p].op = "cleanup_old_readings"
                   THEN d.at < day
                   ELSE d.sensor_id = req[p].sensor_id
<1>1. TypeOK /\ SelectionsInv /\ [Next]_vars => Asked
  <2> SUFFICES ASSUME TypeOK, SelectionsInv, [Next]_vars, NEW r \in readings \ readings'
               PROVE  \E p \in Procs :
                        /\ req[p].pc = "selected" /\ req'[p].pc = "idle"
                        /\ \E d \in req[p].rows :
                             /\ d.id = r.id
                             /\ d = r \/ (d \notin readings /\ d.stamp < r.stamp)
                             /\ RowIsAbout(p, d)
    BY DEF RowIsAbout
  <2>1. PICK p \in Procs : CommitDelete(p)
    BY ReadingsChange DEF InsertReadings
  <2>2. req[p].pc = "selected" /\ req'[p].pc = "idle"
    BY <2>1 DEF CommitDelete, Finish, Idle, TypeOK
  <2>3. PICK d \in req[p].rows : d.id = r.id
    BY <2>1 DEF CommitDelete, WithoutRows
  <2> QED
    BY <2>2, <2>3 DEF SelectionsInv, SelectionInv
<1>2. TypeOK /\ SelectionsInv /\ [Next]_vars => [Asked]_vars
  BY <1>1
<1> QED
  BY <1>2, TypeCorrect, SelectionsCorrect, PTL DEF Spec, DeletionsAreSelected

-----------------------------------------------------------------------------
(* Which rows of the table of sensors are gone after a step.                *)
DeletesSensor(p) == CommitDelete(p) /\ req[p].op = "delete_sensor"

(* Every row is one that was there, whatever its columns.                   *)
SameRows ==
    /\ \A s \in sensors : \E t \in sensors' : SameSensor(s, t)
    /\ \A t \in sensors' : \E s \in sensors : SameSensor(s, t)

LEMMA RotationKeepsRows ==
    ASSUME TypeOK, NEW p \in Procs, CommitResetKey(p) PROVE SameRows
<1> USE DEF SameRows, SameSensor
<1>1. CASE sensors' = sensors
  BY <1>1
<1>2. CASE sensors' = Rotated(req[p].sensor_id)
  <2>1. ASSUME NEW s \in sensors PROVE \E t \in sensors' : SameSensor(s, t)
    <3> DEFINE t == IF s.id = req[p].sensor_id THEN [s EXCEPT !.key = keys] ELSE s
    <3>1. t \in sensors'
      BY <1>2 DEF Rotated
    <3>2. SameSensor(s, t)
      BY DEF TypeOK, Sensor
    <3> QED
      BY <3>1, <3>2
  <2>2. \A t \in sensors' : \E s \in sensors : SameSensor(s, t)
    BY <1>2 DEF Rotated, TypeOK, Sensor
  <2> QED
    BY <2>1, <2>2
<1> QED
  BY <1>1, <1>2 DEF CommitResetKey

LEMMA RenameKeepsRows ==
    ASSUME TypeOK, NEW p \in Procs, CommitUpdate(p) PROVE SameRows
<1> USE DEF SameRows, SameSensor
<1>1. PICK name \in Names : sensors' = Renamed(req[p].sensor, name)
  BY DEF CommitUpdate
<1>2. ASSUME NEW s \in sensors PROVE \E t \in sensors' : SameSensor(s, t)
  <2> DEFINE t == IF s.id = req[p].sensor.id /\ name # req[p].sensor.name
                    THEN [s EXCEPT !.name = name] ELSE s
  <2>1. t \in sensors'
    BY <1>1 DEF Renamed
  <2>2. SameSensor(s, t)
    BY DEF TypeOK, Sensor
  <2> QED
    BY <2>1, <2>2
<1>3. \A t \in sensors' : \E s \in sensors : SameSensor(s, t)
  BY <1>1 DEF Renamed, TypeOK, Sensor
<1> QED
  BY <1>2, <1>3

LEMMA SensorsStay ==
    ASSUME TypeOK, [Next]_vars, NEW s \in sensors,
           \A p \in Procs : DeletesSensor(p) => req[p].sensor_id # s.id
    PROVE  \E t \in sensors' : SameSensor(s, t)
<1>1. CASE sensors' = sensors
  BY <1>1 DEF SameSensor
<1>2. ASSUME NEW n \in SensorIds, NEW name \in Names, NEW k \in Nat \ {0}, AddSensors(n, name, k)
      PROVE  s \in sensors'
  BY <1>2 DEF AddSensors
<1>3. ASSUME NEW p \in Procs, CommitDelete(p) PROVE s \in sensors'
  BY <1>3 DEF CommitDelete, DeletesSensor
<1> QED
  BY <1>1, <1>2, <1>3, SensorsChange, RotationKeepsRows, RenameKeepsRows DEF SameRows, SameSensor

-----------------------------------------------------------------------------
(* As long as no write was stale, every reading has its sensor: an insert   *)
(* finds the sensor it has loaded, and delete_sensor has selected all that  *)
(* are in the table at its commit.                                          *)
OwnersInv ==
    ~stale => \A r \in readings : \E s \in sensors : s.id = r.sensor_id /\ s.born = r.owner

LEMMA StaleGrows ==
    ASSUME [Next]_vars, ~stale'
    PROVE  ~stale /\ \A p \in Procs : InsertReadings(p) \/ CommitDelete(p) => ~Stale(p)
<1>1. \A p \in Procs : InsertReadings(p) \/ CommitDelete(p) => ~stale /\ ~Stale(p)
  BY DEF InsertReadings, CommitDelete
<1>2. stale' = stale \/ \E p \in Procs : InsertReadings(p) \/ CommitDelete(p)
  BY DEF Next, Step, vars, LoadSensor, CheckReading, SelectReadings, SelectOld, RegisterSensors,
     CommitCopy, CopyTags, CommitResetKey, CommitUpdate, SetState, Restart, Tick
<1> QED
  BY <1>1, <1>2

(* The rows an insert adds are of the sensor that the request has loaded.   *)
LEMMA InsertedRows ==
    ASSUME TypeOK, CallsInv, NEW d \in Procs, InsertReadings(d), NEW r \in readings' \ readings
    PROVE  r.sensor_id = req[d].sensor.id /\ r.owner = req[d].sensor.born
<1>1. PICK n \in 1..MaxReadingId, k \in BatchSizes(req[d].op) :
        readings' = readings \cup NewReadings(n, k, req[d])
  BY DEF InsertReadings
<1>2. r.sensor_id = req[d].sensor_id /\ r.owner = req[d].sensor.born
  BY <1>1 DEF NewReadings
<1>3. CallInv(d) /\ ReadyToInsert(req[d])
  BY DEF CallsInv, InsertReadings
<1>4. req[d].sensor_id = req[d].sensor.id
  BY <1>3 DEF CallInv, ReadyToInsert, SignedOps
<1> QED
  BY <1>2, <1>4

LEMMA NextOwners == TypeOK /\ CallsInv /\ OwnersInv /\ [Next]_vars => OwnersInv'
<1> SUFFICES ASSUME TypeOK, CallsInv, OwnersInv, [Next]_vars, ~stale', NEW r \in readings'
             PROVE  \E t \in sensors' : t.id = r.sensor_id /\ t.born = r.owner
  BY DEF OwnersInv
<1>1. ~stale /\ \A p \in Procs : InsertReadings(p) \/ CommitDelete(p) => ~Stale(p)
  BY StaleGrows
<1>2. CASE r \in readings
  <2>1. PICK s \in sensors : s.id = r.sensor_id /\ s.born = r.owner
    BY <1>1, <1>2 DEF OwnersInv
  <2>2. ASSUME NEW p \in Procs, DeletesSensor(p), req[p].sensor_id = s.id PROVE FALSE
    <3>1. /\ ~Stale(p) /\ req[p].pc = "selected" /\ req[p].op = "delete_sensor"
          /\ readings' = WithoutRows(req[p].rows)
      BY <1>1, <2>2 DEF DeletesSensor, CommitDelete
    <3>2. req[p].rows = ReadingsOf(req[p].sensor_id)
      BY <3>1 DEF Stale
    <3>3. r \in req[p].rows
      BY <1>2, <2>1, <2>2, <3>2 DEF ReadingsOf
    <3> QED
      BY <3>1, <3>3 DEF WithoutRows
  <2>3. PICK t \in sensors' : SameSensor(s, t)
    BY <2>2, SensorsStay
  <2> QED
    BY <2>1, <2>3 DEF SameSensor
<1>3. CASE r \notin readings
  <2>1. PICK p \in Procs : InsertReadings(p)
    BY <1>3, ReadingsChange DEF CommitDelete, WithoutRows
  <2>2. r.sensor_id = req[p].sensor.id /\ r.owner = req[p].sensor.born
    BY <1>3, <2>1, InsertedRows
  <2>3. Present(req[p].sensor) /\ sensors' = sensors
    BY <1>1, <2>1 DEF InsertReadings, Stale
  <2> QED
    BY <2>2, <2>3 DEF Present, SameSensor
<1> QED
  BY <1>2, <1>3

LEMMA OwnersInvCorrect == Spec => []OwnersInv
<1>1. Init => OwnersInv
  BY DEF Init, OwnersInv
<1> QED
  BY <1>1, NextOwners, TypeCorrect, CallsCorrect, PTL DEF Spec

(* A reading loses its sensor only to an insert that outlives the sensor or *)
(* a deletion that outlives its selection, whatever else interleaves.       *)
THEOREM OrphansCorrect == Spec => []OrphansComeFromStaleWrites
<1>1. OwnersInv => OrphansComeFromStaleWrites
  BY DEF OwnersInv, OrphansComeFromStaleWrites, NoOrphanReadings, HasSensor
<1> QED
  BY <1>1, OwnersInvCorrect, PTL

(* Nor does it pass to a later sensor of the same id in any other way.      *)
THEOREM OwnersCorrect == Spec => []ReadingsBelongToOwner
<1>1. OwnersInv /\ SensorInv => ReadingsBelongToOwner
  BY DEF OwnersInv, SensorInv, LiveSensorsDistinct, ReadingsBelongToOwner
<1> QED
  BY <1>1, OwnersInvCorrect, SensorInvCorrect, PTL

-----------------------------------------------------------------------------
(* The requests that have committed the row of a copy and not its tags.  No *)
(* two of them copy to the same row: `born` tells the rows apart.           *)
CopyInv ==
    /\ \A p \in Procs : req[p].pc = "copied" =>
         /\ req[p].sensor.id \in SensorIds
         /\ req[p].sensor.born \in Nat
         /\ req[p].sensor.born < keys
    /\ \A p, q \in Procs :
         req[p].pc = "copied" /\ req[q].pc = "copied" /\ req[p].sensor.born = req[q].sensor.born => p = q

LEMMA KeysGrow == ASSUME TypeOK, [Next]_vars PROVE keys' >= keys
<1>1. ASSUME NEW n \in SensorIds, NEW name \in Names, NEW k \in Nat \ {0}, AddSensors(n, name, k)
      PROVE  keys' = keys + k
  BY <1>1 DEF AddSensors
<1>2. \A p \in Procs : CommitDelete(p) \/ CommitUpdate(p) => keys' = keys
  BY DEF CommitDelete, CommitUpdate
<1>3. \A p \in Procs : CommitResetKey(p) => keys' = keys + 1 \/ keys' = keys
  BY DEF CommitResetKey
<1> QED
  BY <1>1, <1>2, <1>3, SensorsChange DEF TypeOK

(* A request that is halfway through a copy after a step was so before it,  *)
(* or has just committed the row.                                           *)
LEMMA CopiesCome ==
    ASSUME TypeOK, [Next]_vars, NEW q \in Procs, req'[q].pc = "copied", req'[q] # req[q]
    PROVE  CommitCopy(q)
<1>1. req'[q] # Idle
  BY DEF Idle
<1>2. ~(\E op \in KeyedOps \cup SignedOps \cup OpenOps, id \in SensorIds : LoadSensor(q, op, id))
  BY LoadedRequest
<1>3. ~CheckReading(q) /\ ~SelectReadings(q)
  BY <1>1, CheckedRequest, SelectedRequest
<1>4. ~(\E days \in 1..MaxDay : SelectOld(q, days))
  BY SelectedOldRequest
<1> QED
  BY <1>1, <1>2, <1>3, <1>4, RequestsChange

LEMMA NextCopyInv == TypeOK /\ CopyInv /\ [Next]_vars => CopyInv'
<1> SUFFICES ASSUME TypeOK, CopyInv, [Next]_vars PROVE CopyInv'
  OBVIOUS
<1>1. keys' >= keys /\ keys \in Nat /\ keys' \in Nat
  BY KeysGrow, NextTyped DEF TypeOK
<1>2. ASSUME NEW q \in Procs, req'[q].pc = "copied", req'[q] # req[q]
      PROVE  /\ req'[q].sensor.id \in SensorIds /\ req'[q].sensor.born = keys /\ keys' = keys + 1
             /\ \A r \in Procs \ {q} : req'[r] = req[r]
  <2>1. CommitCopy(q)
    BY <1>2, CopiesCome
  <2>2. PICK n \in SensorIds, name \in Names :
          AddSensors(n, name, 1) /\ req'[q].sensor = NewSensor(n, name, keys)
    BY <2>1, CopiedRequest
  <2>3. keys' = keys + 1
    BY <2>2 DEF AddSensors
  <2>4. \A r \in Procs \ {q} : req'[r] = req[r]
    BY <2>1 DEF CommitCopy, TypeOK
  <2> QED
    BY <2>2, <2>3, <2>4 DEF NewSensor
<1>3. ASSUME NEW q \in Procs, req'[q].pc = "copied", req'[q] = req[q]
      PROVE  /\ req'[q].sensor.id \in SensorIds /\ req'[q].sensor.born \in Nat
             /\ req'[q].sensor.born < keys
  BY <1>3 DEF CopyInv
<1>4. ASSUME NEW q \in Procs, req'[q].pc = "copied"
      PROVE  /\ req'[q].sensor.id \in SensorIds /\ req'[q].sensor.born \in Nat
             /\ req'[q].sensor.born < keys'
  BY <1>1, <1>2, <1>3, <1>4
<1>5. ASSUME NEW p \in Procs, NEW q \in Procs, req'[p].pc = "copied", req'[q].pc = "copied",
             req'[p].sensor.born = req'[q].sensor.born, p # q
      PROVE  FALSE
  <2>1. CASE req'[p] = req[p] /\ req'[q] = req[q]
    BY <1>5, <2>1 DEF CopyInv
  <2>2. CASE req'[p] # req[p]
    <3>1. req'[q] = req[q] /\ req'[p].sensor.born = keys
      BY <1>2, <1>5, <2>2
    <3> QED
      BY <1>1, <1>3, <1>5, <3>1
  <2>3. CASE req'[q] # req[q]
    <3>1. req'[p] = req[p] /\ req'[q].sensor.born = keys
      BY <1>2, <1>5, <2>3
    <3> QED
      BY <1>1, <1>3, <1>5, <3>1
  <2> QED
    BY <2>1, <2>2, <2>3
<1> QED
  BY <1>4, <1>5 DEF CopyInv

StoreInv == TypeOK /\ SensorInv /\ IdOrderInv /\ CallsInv /\ CopyInv

LEMMA StoreInvCorrect == Spec => []StoreInv
<1>1. Init => CopyInv
  BY DEF Init, Idle, CopyInv
<1>2. Spec => []CopyInv
  BY <1>1, NextCopyInv, TypeCorrect, PTL DEF Spec
<1>3. TypeOK /\ SensorInv /\ IdOrderInv /\ CallsInv /\ CopyInv => StoreInv
  BY DEF StoreInv
<1> QED
  BY <1>2, <1>3, TypeCorrect, SensorInvCorrect, IdOrderInvCorrect, CallsCorrect, PTL

-----------------------------------------------------------------------------
(* Of the tags, the mapping sees those that copies have yet to add.         *)
LEMMA StateAt ==
    ASSUME NEW id \in SensorIds
    PROVE  AtomicState[id] =
             IF Copying(id) = {} THEN state[id]
             ELSE CopiedState(id, req[CHOOSE p \in Copying(id) : TRUE].sensor_id)
BY DEF AtomicState

\* The next tag of an id whose copies stay: that of the source its copy q names.
LEMMA NextStateAt ==
    ASSUME NEW id \in SensorIds, Copying(id)' = Copying(id), Copying(id) # {},
           NEW q, q = CHOOSE p \in Copying(id) : TRUE
    PROVE  AtomicState'[id] = IF state'[req'[q].sensor_id] = "none" THEN state'[id]
                              ELSE state'[req'[q].sensor_id]
BY DEF AtomicState, CopiedState

LEMMA StateIsFunction == AtomicState = [id \in SensorIds |-> AtomicState[id]]
BY DEF AtomicState

(* Copies go on and stay as they are, and so do their rows.                 *)
CopiesKept ==
    \A q \in Procs :
      /\ req[q].pc = "copied" \/ req'[q].pc = "copied" => req'[q] = req[q]
      /\ req[q].pc = "copied" => (Present(req[q].sensor)' <=> Present(req[q].sensor))

LEMMA CopyingKept ==
    ASSUME CopiesKept, NEW id PROVE Copying(id)' = Copying(id)
<1>1. ASSUME NEW q \in Procs PROVE q \in Copying(id)' <=> q \in Copying(id)
  <2>1. CASE req[q].pc = "copied"
    <3>1. req'[q] = req[q] /\ (Present(req[q].sensor)' <=> Present(req[q].sensor))
      BY <2>1 DEF CopiesKept
    <3> QED
      BY <3>1 DEF Copying
  <2>2. CASE req[q].pc # "copied"
    <3>1. req'[q].pc # "copied"
      BY <2>2 DEF CopiesKept
    <3> QED
      BY <2>2, <3>1 DEF Copying
  <2> QED
    BY <2>1, <2>2
<1>2. Copying(id)' \subseteq Procs /\ Copying(id) \subseteq Procs
  BY DEF Copying
<1> QED
  BY <1>1, <1>2

(* What a step leaves of the tag of one id: the copies to it, its own tag,  *)
(* and the tags that are being copied to it.                                *)
LEMMA StateKeptAt ==
    ASSUME CopiesKept, NEW id \in SensorIds, state'[id] = state[id],
           \A q \in Copying(id) : state'[req[q].sensor_id] = state[req[q].sensor_id]
    PROVE  AtomicState'[id] = AtomicState[id]
<1>1. Copying(id)' = Copying(id)
  BY CopyingKept
<1>2. CASE Copying(id) = {}
  <2>1. AtomicState[id] = state[id]
    BY <1>2, StateAt
  <2>2. AtomicState'[id] = state'[id]
    BY <1>1, <1>2 DEF AtomicState
  <2> QED
    BY <2>1, <2>2
<1>3. CASE Copying(id) # {}
  <2>0. PICK q : q = CHOOSE p \in Copying(id) : TRUE
    OBVIOUS
  <2>1. q \in Copying(id)
    BY <1>3, <2>0
  <2>2. q \in Procs /\ req[q].pc = "copied"
    BY <2>1 DEF Copying
  <2>3. req'[q] = req[q]
    BY <2>2 DEF CopiesKept
  <2>4. AtomicState[id] = CopiedState(id, req[q].sensor_id)
    BY <1>3, <2>0, StateAt
  <2>5. state'[req[q].sensor_id] = state[req[q].sensor_id]
    BY <2>1
  <2> QED
    BY <1>1, <1>3, <2>0, <2>3, <2>4, <2>5, NextStateAt DEF CopiedState
<1> QED
  BY <1>2, <1>3

(* What the steps that write neither tables nor tags leave.                 *)
LEMMA StateKept ==
    ASSUME CopiesKept, state' = state PROVE AtomicState' = AtomicState
<1>1. \A id \in SensorIds : AtomicState'[id] = AtomicState[id]
  BY StateKeptAt
<1>2. AtomicState' = [id \in SensorIds |-> AtomicState'[id]]
  BY DEF AtomicState
<1> QED
  BY <1>1, <1>2, StateIsFunction

(* A step of a request that is not a copy halfway leaves the copies, if it  *)
(* leaves their rows.                                                       *)
LEMMA OtherRequests ==
    ASSUME NEW p \in Procs, req[p].pc # "copied", req'[p].pc # "copied",
           \A q \in Procs \ {p} : req'[q] = req[q],
           \A q \in Procs : req[q].pc = "copied" => (Present(req[q].sensor)' <=> Present(req[q].sensor))
    PROVE  CopiesKept
BY DEF CopiesKept

LEMMA FinishOther ==
    ASSUME TypeOK, NEW p \in Procs, Finish(p)
    PROVE  req'[p].pc # "copied" /\ \A q \in Procs \ {p} : req'[q] = req[q]
BY DEF TypeOK, Finish, Idle

LEMMA PresentKept ==
    ASSUME sensors' = sensors \/ SameRows, NEW s
    PROVE  (\E t \in sensors' : SameSensor(s, t)) <=> (\E t \in sensors : SameSensor(s, t))
BY DEF SameRows, SameSensor

LEMMA CopyRowsKept ==
    ASSUME sensors' = sensors \/ SameRows, NEW q, req'[q] = req[q]
    PROVE  Present(req[q].sensor)' <=> Present(req[q].sensor)
BY PresentKept DEF Present, SameSensor

(* New rows are not the rows of copies that were under way.                 *)
LEMMA AddedRows ==
    ASSUME TypeOK, CopyInv, NEW n \in SensorIds, NEW name \in Names, NEW k \in Nat \ {0},
           AddSensors(n, name, k), NEW q \in Procs, req[q].pc = "copied", req'[q] = req[q]
    PROVE  Present(req[q].sensor)' <=> Present(req[q].sensor)
<1>1. sensors' = sensors \cup {NewSensor(n + i, name, keys + i) : i \in 0..(k - 1)}
  BY DEF AddSensors
<1>2. \A i \in 0..(k - 1) : NewSensor(n + i, name, keys + i).born = keys + i
  BY DEF NewSensor
<1>3. keys \in Nat /\ req[q].sensor.born \in Nat /\ req[q].sensor.born < keys
  BY DEF TypeOK, CopyInv
<1>4. \A i \in 0..(k - 1) : ~SameSensor(req[q].sensor, NewSensor(n + i, name, keys + i))
  BY <1>2, <1>3 DEF SameSensor
<1>5. \A t \in sensors' : SameSensor(req[q].sensor, t) => t \in sensors
  BY <1>1, <1>4
<1>6. Present(req[q].sensor) <=> \E t \in sensors : SameSensor(req[q].sensor, t)
  BY DEF Present
<1>7. Present(req[q].sensor)' <=> \E t \in sensors' : SameSensor(req[q].sensor, t)
  BY DEF Present, SameSensor
<1> QED
  BY <1>1, <1>5, <1>6, <1>7

LEMMA TablesKept ==
    /\ sensors' = sensors => AtomicSensors' = AtomicSensors
    /\ readings' = readings => AtomicReadings' = AtomicReadings
BY DEF AtomicSensors, AtomicReadings

(* One row replaced by another is one replaced in the mapped table.         *)
LEMMA RowReplaced ==
    ASSUME SensorInv, NEW s \in sensors, NEW t, sensors' = (sensors \ {s}) \cup {t}
    PROVE  AtomicSensors' = (AtomicSensors \ {AtomicSensor(s)}) \cup {AtomicSensor(t)}
<1>1. \A x \in sensors : AtomicSensor(x) = AtomicSensor(s) => x = s
  BY DEF AtomicSensor, SensorInv, LiveSensorsDistinct
<1>2. AtomicSensors' = {AtomicSensor(x) : x \in (sensors \ {s}) \cup {t}}
  BY DEF AtomicSensors
<1>3. {AtomicSensor(x) : x \in sensors \ {s}} = AtomicSensors \ {AtomicSensor(s)}
  BY <1>1 DEF AtomicSensors
<1> QED
  BY <1>2, <1>3

LEMMA AddIsAtomic ==
    ASSUME TypeOK, SensorInv, NEW n \in SensorIds, NEW name \in Names, NEW k \in Nat \ {0},
           AddSensors(n, name, k)
    PROVE  /\ Atomic!Add(AtomicSensors' \ AtomicSensors)
           /\ AtomicSensors' \ AtomicSensors =
                {AtomicSensor(NewSensor(n + i, name, keys + i)) : i \in 0..(k - 1)}
<1> DEFINE new == {AtomicSensor(NewSensor(n + i, name, keys + i)) : i \in 0..(k - 1)}
<1>1. n \in Nat /\ keys \in Nat \ {0} /\ keys' = keys + k
  BY DEF AddSensors, SensorIds, TypeOK
<1>2. AtomicSensors' = AtomicSensors \cup new
  BY DEF AddSensors, AtomicSensors
<1>3. \A a \in AtomicSensors : a.id \in Nat /\ a.id < n
  BY DEF AtomicSensors, AtomicSensor, TypeOK, Sensor, AddSensors, IsNextId
<1>4. ASSUME NEW a \in new
      PROVE  \E i \in 0..(k - 1) : /\ a = AtomicSensor(NewSensor(n + i, name, keys + i))
                                   /\ a.id = n + i /\ a.key = keys + i
  BY DEF AtomicSensor, NewSensor
<1>5. ASSUME NEW i \in 0..(k - 1) PROVE \E a \in new : a.key = keys + i
  <2>1. AtomicSensor(NewSensor(n + i, name, keys + i)) \in new
    OBVIOUS
  <2>2. AtomicSensor(NewSensor(n + i, name, keys + i)).key = keys + i
    BY DEF AtomicSensor, NewSensor
  <2> QED
    BY <2>1, <2>2
<1> HIDE DEF new
<1>6. new \cap AtomicSensors = {}
  BY <1>1, <1>3, <1>4
<1>7. AtomicSensors' \ AtomicSensors = new /\ AtomicSensors \subseteq AtomicSensors'
  BY <1>2, <1>6
<1>8. new # {}
  <2>1. 0 \in 0..(k - 1)
    OBVIOUS
  <2> QED
    BY <1>5, <2>1
<1>9. Atomic!Ids(new) \cap Atomic!Ids(AtomicSensors) = {}
  BY <1>1, <1>3, <1>4 DEF Atomic!Ids
<1>10. {a.key : a \in new} = keys..(keys + k - 1)
  <2>1. \A a \in new : a.key \in keys..(keys + k - 1)
    BY <1>1, <1>4
  <2>2. ASSUME NEW x \in keys..(keys + k - 1) PROVE \E a \in new : a.key = x
    <3>1. x - keys \in 0..(k - 1) /\ keys + (x - keys) = x
      BY <1>1
    <3> QED
      BY <1>5, <3>1
  <2> QED
    BY <2>1, <2>2
<1>11. {a.key : a \in new} \cap 1..(keys - 1) = {}
  BY <1>1, <1>10
<1>12. 1..(keys' - 1) = 1..(keys - 1) \cup {a.key : a \in new}
  BY <1>1, <1>10
<1>13. \A a, b \in new : a.id = b.id \/ a.key = b.key => a = b
  <2> SUFFICES ASSUME NEW a \in new, NEW b \in new, a.id = b.id \/ a.key = b.key PROVE a = b
    OBVIOUS
  <2>1. PICK i \in 0..(k - 1) : /\ a = AtomicSensor(NewSensor(n + i, name, keys + i))
                                /\ a.id = n + i /\ a.key = keys + i
    BY <1>4
  <2>2. PICK j \in 0..(k - 1) : /\ b = AtomicSensor(NewSensor(n + j, name, keys + j))
                                /\ b.id = n + j /\ b.key = keys + j
    BY <1>4
  <2>3. i = j
    BY <1>1, <2>1, <2>2
  <2> QED
    BY <2>1, <2>2, <2>3
<1>14. Atomic!Add(new)
  BY <1>7, <1>8, <1>9, <1>11, <1>12, <1>13 DEF Atomic!Add
<1> QED
  BY <1>7, <1>14 DEF new

AtomicKept == AtomicSensors' = AtomicSensors /\ AtomicReadings' = AtomicReadings /\ AtomicState' = AtomicState

LEMMA StutterIsAtomic ==
    ASSUME AtomicKept, UNCHANGED <<day, keys>>
    PROVE  UNCHANGED Atomic!vars
BY DEF AtomicKept, Atomic!vars

-----------------------------------------------------------------------------
(* The steps of the handlers, one by one.                                   *)
LEMMA InsertIsAtomic ==
    ASSUME StoreInv, NEW d \in Procs, InsertReadings(d), ~Stale(d)
    PROVE  Atomic!Next
<1>0. TypeOK /\ CallsInv
  BY DEF StoreInv
<1>1. PICK n \in 1..MaxReadingId, k \in BatchSizes(req[d].op) :
        IsNextId(readings, n) /\ readings' = readings \cup NewReadings(n, k, req[d])
  BY DEF InsertReadings
<1>2. n \in Nat /\ k \in Nat \ {0}
  BY BatchSizesNat, BoundsAssumption
<1> DEFINE new == {AtomicReading(r) : r \in NewReadings(n, k, req[d])}
           id == req[d].sensor_id
<1>3. AtomicReadings' = AtomicReadings \cup new
  BY <1>1 DEF AtomicReadings
<1>4. \A a \in AtomicReadings : a.id \in Nat /\ a.id < n
  BY <1>0, <1>1 DEF AtomicReadings, AtomicReading, TypeOK, Reading, IsNextId
<1>5. \A a \in new : (\E i \in 0..(k - 1) : a.id = n + i) /\ a.sensor_id = id /\ a.at = day
  BY DEF NewReadings, AtomicReading
<1>6. new # {}
  <2>1. 0 \in 0..(k - 1)
    BY <1>2
  <2> QED
    BY <2>1 DEF NewReadings
<1> HIDE DEF new
<1>7. new \cap AtomicReadings = {} /\ Atomic!Ids(new) \cap Atomic!Ids(AtomicReadings) = {}
  BY <1>2, <1>4, <1>5 DEF Atomic!Ids
<1>8. AtomicReadings' \ AtomicReadings = new /\ AtomicReadings \subseteq AtomicReadings'
  BY <1>3, <1>7
<1>9. CallInv(d) /\ ReadyToInsert(req[d]) /\ req[d].pc # "copied"
  BY <1>0 DEF CallsInv, InsertReadings, ReadyToInsert
<1>10. id \in SensorIds /\ id = req[d].sensor.id
  BY <1>0, <1>9 DEF TypeOK, ReadyToInsert, CallInv, SignedOps
<1>11. id \in Atomic!Ids(AtomicSensors)
  <2>1. PICK s \in sensors : s.id = id
    BY <1>9, <1>10 DEF Stale, Present, SameSensor
  <2>2. AtomicSensor(s) \in AtomicSensors /\ AtomicSensor(s).id = id
    BY <2>1 DEF AtomicSensors, AtomicSensor
  <2> QED
    BY <2>2 DEF Atomic!Ids
<1>12. Finish(d) /\ UNCHANGED <<sensors, state, keys, day>>
  BY DEF InsertReadings
<1>13. AtomicState' = AtomicState /\ AtomicSensors' = AtomicSensors
  <2>1. req'[d].pc # "copied" /\ \A q \in Procs \ {d} : req'[q] = req[q]
    BY <1>0, <1>12, FinishOther
  <2>2. CopiesKept
    BY <1>9, <1>12, <2>1, CopyRowsKept, OtherRequests
  <2> QED
    BY <1>12, <2>2, StateKept, TablesKept
<1>14. Atomic!StoreReadings(id)
  BY <1>5, <1>6, <1>7, <1>8, <1>11, <1>12, <1>13 DEF Atomic!StoreReadings
<1> QED
  BY <1>10, <1>14 DEF Atomic!Next

(* What is left of the readings when all with a property are deleted by     *)
(* their ids.                                                               *)
LEMMA DeletedByIds ==
    ASSUME IdOrderInv, NEW rows \in SUBSET readings
    PROVE  WithoutRows(rows) = readings \ rows
BY DEF IdOrderInv, IdOrderIsCommitOrder, WithoutRows

LEMMA DeleteIsAtomic ==
    ASSUME StoreInv, NEW d \in Procs, CommitDelete(d), ~Stale(d), ~MeetsCopy(d)
    PROVE  [Atomic!Next]_(Atomic!vars)
<1>0. TypeOK /\ CallInv(d)
  BY DEF StoreInv, CallsInv
<1>1. /\ req[d].pc = "selected" /\ readings' = WithoutRows(req[d].rows) /\ Finish(d)
      /\ UNCHANGED <<state, keys, day>>
  BY DEF CommitDelete
<1>2. req[d].rows \subseteq readings /\ IdOrderInv
  BY <1>1 DEF StoreInv, Stale, ReadingsOf, OldReadings, CallInv, DeleteOps
<1>3. readings' = readings \ req[d].rows
  BY <1>1, <1>2, DeletedByIds
<1>4. AtomicState' = AtomicState
  <2>1. req'[d].pc # "copied" /\ \A q \in Procs \ {d} : req'[q] = req[q]
    BY <1>0, <1>1, FinishOther
  <2>2. ASSUME NEW q \in Procs, req[q].pc = "copied"
        PROVE  Present(req[q].sensor)' <=> Present(req[q].sensor)
    <3>1. req'[q] = req[q]
      BY <1>1, <2>1, <2>2
    <3>2. CASE sensors' = sensors
      BY <3>1, <3>2, CopyRowsKept
    <3>3. CASE req[d].op = "delete_sensor"
      <4>1. req[q].sensor.id # req[d].sensor_id
        BY <1>1, <2>2, <3>3 DEF MeetsCopy, CopyingTo
      <4>2. sensors' = {s \in sensors : s.id # req[d].sensor_id}
        BY <3>3 DEF CommitDelete
      <4> QED
        BY <3>1, <4>1, <4>2 DEF Present, SameSensor
    <3> QED
      BY <3>2, <3>3 DEF CommitDelete
  <2>3. CopiesKept
    BY <1>1, <2>1, <2>2, OtherRequests
  <2> QED
    BY <1>1, <2>3, StateKept
<1>6. req[d].op \in DeleteOps
  BY <1>0, <1>1 DEF CallInv
<1>7. CASE req[d].op = "cleanup_old_readings"
  <2>1. PICK n \in 1..MaxDay : req[d].rows = OldReadings(n)
    BY <1>1, <1>7 DEF Stale
  <2>2. sensors' = sensors
    BY <1>7 DEF CommitDelete
  <2>3. readings' = {r \in readings : ~(r.at + n < day)}
    BY <1>3, <2>1 DEF OldReadings
  <2>4. AtomicReadings' = {a \in AtomicReadings : ~(a.at + n < day)}
    BY <2>3 DEF AtomicReadings, AtomicReading
  <2>5. Atomic!CleanupOldReadings(n)
    BY <1>1, <1>4, <2>2, <2>4, TablesKept DEF Atomic!CleanupOldReadings
  <2> QED
    BY <2>5 DEF Atomic!Next
<1>8. CASE req[d].op # "cleanup_old_readings"
  <2> DEFINE id == req[d].sensor_id
  <2>1. req[d].rows = ReadingsOf(id)
    BY <1>1, <1>8 DEF Stale
  <2>2. readings' = {r \in readings : r.sensor_id # id}
    BY <1>3, <2>1 DEF ReadingsOf
  <2>3. AtomicReadings' = {a \in AtomicReadings : a.sensor_id # id}
    BY <2>2 DEF AtomicReadings, AtomicReading
  <2>4. id \in SensorIds
    BY <1>0, <1>1, <1>8 DEF CallInv
  <2>5. CASE req[d].op = "delete_sensor"
    <3>1. sensors' = {s \in sensors : s.id # id}
      BY <2>5 DEF CommitDelete
    <3>2. AtomicSensors' = {a \in AtomicSensors : a.id # id}
      BY <3>1 DEF AtomicSensors, AtomicSensor
    <3>3. Atomic!DeleteSensor(id)
      BY <1>1, <1>4, <2>3, <3>2 DEF Atomic!DeleteSensor
    <3> QED
      BY <2>4, <3>3 DEF Atomic!Next
  <2>6. CASE req[d].op = "clear_sensor_readings"
    <3>1. sensors' = sensors
      BY <2>6 DEF CommitDelete
    <3>2. Atomic!ClearReadings(id)
      BY <1>1, <1>4, <2>3, <3>1, TablesKept DEF Atomic!ClearReadings
    <3> QED
      BY <2>4, <3>2 DEF Atomic!Next
  <2> QED
    BY <1>6, <1>8, <2>5, <2>6 DEF DeleteOps
<1> QED
  BY <1>7, <1>8

LEMMA RegisterIsAtomic ==
    ASSUME StoreInv, NEW p \in Procs, NEW k \in 1..MaxBatch, RegisterSensors(p, k)
    PROVE  Atomic!Next
<1>0. TypeOK /\ CopyInv /\ SensorInv
  BY DEF StoreInv
<1>1. PICK n \in SensorIds, name \in Names : AddSensors(n, name, k)
  BY DEF RegisterSensors
<1>2. k \in Nat \ {0}
  BY BoundsAssumption
<1>3. Atomic!Add(AtomicSensors' \ AtomicSensors)
  BY <1>0, <1>1, <1>2, AddIsAtomic
<1>4. UNCHANGED <<readings, state, day, req>>
  BY DEF RegisterSensors
<1>5. CopiesKept
  BY <1>0, <1>1, <1>2, <1>4, AddedRows DEF CopiesKept
<1>6. Atomic!RegisterSensors
  BY <1>3, <1>4, <1>5, StateKept, TablesKept DEF Atomic!RegisterSensors
<1> QED
  BY <1>6 DEF Atomic!Next

LEMMA CopyIsAtomic ==
    ASSUME StoreInv, NEW d \in Procs, CommitCopy(d), ~MeetsCopy(d)
    PROVE  Atomic!Next
<1> DEFINE source == req[d].sensor_id
<1>0. TypeOK /\ CopyInv /\ SensorInv /\ CallInv(d)
  BY DEF StoreInv, CallsInv
<1>1. PICK n \in SensorIds, name \in Names :
        /\ AddSensors(n, name, 1)
        /\ req[d].pc = "loaded" /\ req[d].op = "copy_sensor"
        /\ req'[d].pc = "copied" /\ req'[d].sensor_id = source
        /\ req'[d].sensor = NewSensor(n, name, keys)
  BY <1>0, CopiedRequest
<1>2. UNCHANGED <<readings, state, day>> /\ \A q \in Procs \ {d} : req'[q] = req[q]
  BY <1>0 DEF CommitCopy, TypeOK
<1>3. 1 \in Nat \ {0} /\ n + 0 = n /\ keys + 0 = keys /\ 0..(1 - 1) = {0} /\ n \in Nat
  BY <1>0 DEF SensorIds, TypeOK
<1>4. /\ Atomic!Add(AtomicSensors' \ AtomicSensors)
      /\ AtomicSensors' \ AtomicSensors = {AtomicSensor(NewSensor(n + i, name, keys + i)) : i \in 0..(1 - 1)}
  BY <1>0, <1>1, <1>3, AddIsAtomic
<1>5. AtomicSensors' \ AtomicSensors = {AtomicSensor(NewSensor(n, name, keys))}
  BY <1>3, <1>4
<1>6. \A s \in AtomicSensors' \ AtomicSensors : s.id = n
  BY <1>5 DEF AtomicSensor, NewSensor
<1>7. source \in SensorIds /\ source = req[d].sensor.id
  BY <1>0, <1>1 DEF TypeOK, CallInv, SignedOps
<1>8. Present(req[d].sensor) /\ ~CopyingTo(source)
  BY <1>1 DEF MeetsCopy
<1>9. source \in Atomic!Ids(AtomicSensors)
  <2>1. PICK s \in sensors : s.id = source
    BY <1>7, <1>8 DEF Present, SameSensor
  <2>2. AtomicSensor(s) \in AtomicSensors /\ AtomicSensor(s).id = source
    BY <2>1 DEF AtomicSensors, AtomicSensor
  <2> QED
    BY <2>2 DEF Atomic!Ids
<1>10. ASSUME NEW q \in Procs, q # d PROVE \A id : q \in Copying(id)' <=> q \in Copying(id)
  <2>1. req'[q] = req[q]
    BY <1>2, <1>10
  <2>2. req[q].pc = "copied" => (Present(req[q].sensor)' <=> Present(req[q].sensor))
    BY <1>0, <1>1, <1>3, <2>1, AddedRows
  <2> QED
    BY <2>1, <2>2 DEF Copying
<1>11. Copying(source) = {}
  BY <1>8 DEF CopyingTo, Copying
<1>12. Copying(n) = {}
  <2>1. \A s \in sensors : s.id < n /\ s.id \in Nat
    BY <1>0, <1>1 DEF AddSensors, IsNextId, TypeOK, Sensor
  <2> QED
    BY <1>3, <2>1 DEF Copying, Present, SameSensor
<1>13. Copying(n)' = {d}
  <2>1. NewSensor(n, name, keys) \in sensors'
    <3>1. NewSensor(n + 0, name, keys + 0) \in sensors'
      BY <1>1, <1>3 DEF AddSensors
    <3> QED
      BY <1>3, <3>1
  <2>2. d \in Copying(n)'
    BY <1>1, <2>1 DEF Copying, Present, SameSensor, NewSensor
  <2>3. Copying(n)' \subseteq Procs
    BY DEF Copying
  <2> QED
    BY <1>10, <1>12, <2>2, <2>3
<1>14. ASSUME NEW id \in SensorIds, id # n PROVE Copying(id)' = Copying(id)
  <2>1. d \notin Copying(id) /\ d \notin Copying(id)'
    BY <1>1, <1>14 DEF Copying, NewSensor
  <2>2. Copying(id)' \subseteq Procs /\ Copying(id) \subseteq Procs
    BY DEF Copying
  <2> QED
    BY <1>10, <2>1, <2>2
<1>15. AtomicState[source] = state[source] /\ AtomicState[n] = state[n]
  BY <1>7, <1>11, <1>12, StateAt
<1>16. AtomicState'[n] = CopiedState(n, source)
  <2>1. AtomicState'[n] = CopiedState(n, req[CHOOSE p \in Copying(n) : TRUE].sensor_id)'
    BY <1>13 DEF AtomicState
  <2>2. (CHOOSE p \in Copying(n) : TRUE)' = d
    BY <1>13
  <2>3. AtomicState'[n] = CopiedState(n, req[d].sensor_id)'
    BY <1>13, <2>1, <2>2
  <2> QED
    BY <1>1, <1>2, <2>3 DEF CopiedState
<1>17. ASSUME NEW id \in SensorIds, id # n PROVE AtomicState'[id] = AtomicState[id]
  <2>1. Copying(id)' = Copying(id)
    BY <1>14, <1>17
  <2>2. CASE Copying(id) = {}
    BY <1>2, <2>1, <2>2 DEF AtomicState
  <2>3. CASE Copying(id) # {}
    <3>0. PICK q : q = CHOOSE p \in Copying(id) : TRUE
      OBVIOUS
    <3>1. q \in Copying(id)
      BY <2>3, <3>0
    <3>2. q \in Procs /\ q # d
      BY <1>1, <3>1 DEF Copying
    <3>3. req'[q] = req[q]
      BY <1>2, <3>2
    <3>4. AtomicState[id] = CopiedState(id, req[q].sensor_id)
      BY <2>3, <3>0, StateAt
    <3> QED
      BY <1>2, <2>1, <2>3, <3>0, <3>3, <3>4, NextStateAt DEF CopiedState
  <2> QED
    BY <2>2, <2>3
<1> HIDE DEF source
<1>18. AtomicState' = IF AtomicState[source] = "none" THEN AtomicState
                      ELSE [AtomicState EXCEPT ![n] = AtomicState[source]]
  <2>1. AtomicState' = [id \in SensorIds |-> AtomicState'[id]]
    BY DEF AtomicState
  <2>2. AtomicState'[n] = IF AtomicState[source] = "none" THEN AtomicState[n] ELSE AtomicState[source]
    BY <1>15, <1>16 DEF CopiedState
  <2>3. AtomicState' = [id \in SensorIds |->
                          IF id = n /\ AtomicState[source] # "none" THEN AtomicState[source]
                          ELSE AtomicState[id]]
    BY <1>17, <2>1, <2>2
  <2> QED
    BY <2>3, StateIsFunction
<1>19. Atomic!CopySensor(source)
  BY <1>2, <1>4, <1>6, <1>9, <1>18, TablesKept DEF Atomic!CopySensor
<1> QED
  BY <1>7, <1>19 DEF Atomic!Next

(* The copy's tags have been counted since its row was committed.           *)
LEMMA CopyTagsIsAtomic ==
    ASSUME StoreInv, NEW d \in Procs, CopyTags(d), ~MeetsCopy(d)
    PROVE  UNCHANGED Atomic!vars
<1> DEFINE id == req[d].sensor.id
           source == req[d].sensor_id
<1>0. TypeOK /\ CopyInv /\ SensorInv
  BY DEF StoreInv
<1>1. req[d].pc = "copied" /\ Finish(d) /\ UNCHANGED <<sensors, readings, keys, day>>
  BY DEF CopyTags
<1>2. Present(req[d].sensor) /\ ~CopyingFrom(id)
  BY <1>1 DEF MeetsCopy
<1>3. HasSensor(id) /\ id \in SensorIds
  BY <1>0, <1>1, <1>2 DEF Present, SameSensor, HasSensor, CopyInv
<1>4. state' = [state EXCEPT ![id] = CopiedState(id, source)]
  BY <1>3 DEF CopyTags
<1>5. req'[d].pc # "copied" /\ \A q \in Procs \ {d} : req'[q] = req[q]
  BY <1>0, <1>1, FinishOther
<1>6. Copying(id) = {d}
  <2>1. d \in Copying(id)
    BY <1>1, <1>2 DEF Copying
  <2>2. ASSUME NEW q \in Copying(id) PROVE q = d
    <3>1. q \in Procs /\ req[q].pc = "copied" /\ req[q].sensor.id = id /\ Present(req[q].sensor)
      BY <2>2 DEF Copying
    <3>2. PICK s \in sensors : SameSensor(req[d].sensor, s)
      BY <1>2 DEF Present
    <3>3. PICK t \in sensors : SameSensor(req[q].sensor, t)
      BY <3>1 DEF Present
    <3>4. s = t
      BY <1>0, <3>1, <3>2, <3>3 DEF SameSensor, SensorInv, LiveSensorsDistinct
    <3> QED
      BY <1>0, <1>1, <3>1, <3>2, <3>3, <3>4 DEF SameSensor, CopyInv
  <2> QED
    BY <2>1, <2>2
<1>7. ASSUME NEW q \in Procs, q # d, NEW i PROVE q \in Copying(i)' <=> q \in Copying(i)
  <2>1. req'[q] = req[q]
    BY <1>5, <1>7
  <2>2. Present(req[q].sensor)' <=> Present(req[q].sensor)
    BY <1>1, <2>1, CopyRowsKept
  <2> QED
    BY <2>1, <2>2 DEF Copying
<1>8. \A i : d \notin Copying(i)' /\ Copying(i)' \subseteq Procs /\ Copying(i) \subseteq Procs
  BY <1>5 DEF Copying
<1>9. ASSUME NEW i, i = req[d].sensor.id PROVE Copying(i)' = {}
  BY <1>6, <1>7, <1>8, <1>9
<1>10. ASSUME NEW i \in SensorIds, i # id PROVE Copying(i)' = Copying(i)
  <2>1. d \notin Copying(i)
    BY <1>10 DEF Copying
  <2> QED
    BY <1>7, <1>8, <2>1
<1>11. AtomicState'[id] = AtomicState[id]
  <2>1. ASSUME NEW i \in SensorIds, i = req[d].sensor.id
        PROVE  AtomicState'[i] = state'[i]
    BY <1>9, <2>1 DEF AtomicState
  <2>2. state'[id] = CopiedState(id, source)
    BY <1>0, <1>3, <1>4 DEF TypeOK
  <2>3. (CHOOSE p \in Copying(id) : TRUE) = d
    BY <1>6
  <2>4. AtomicState[id] = CopiedState(id, source)
    BY <1>3, <1>6, <2>3, StateAt
  <2> QED
    BY <1>3, <2>1, <2>2, <2>4
<1>12. ASSUME NEW i \in SensorIds, i # id PROVE AtomicState'[i] = AtomicState[i]
  <2>1. Copying(i)' = Copying(i)
    BY <1>10, <1>12
  <2>2. state'[i] = state[i]
    BY <1>0, <1>4, <1>12 DEF TypeOK
  <2>3. CASE Copying(i) = {}
    BY <2>1, <2>2, <2>3 DEF AtomicState
  <2>4. CASE Copying(i) # {}
    <3>0. PICK q : q = CHOOSE p \in Copying(i) : TRUE
      OBVIOUS
    <3>1. q \in Copying(i)
      BY <2>4, <3>0
    <3>2. q \in Procs /\ q # d /\ req[q].pc = "copied"
      BY <1>12, <3>1 DEF Copying
    <3>3. req'[q] = req[q]
      BY <1>5, <3>2
    <3>4. AtomicState[i] = CopiedState(i, req[q].sensor_id)
      BY <2>4, <3>0, StateAt
    <3>6. req[q].sensor_id # id /\ req[q].sensor_id \in SensorIds
      BY <1>0, <1>2, <3>2 DEF CopyingFrom, TypeOK
    <3>7. state'[req[q].sensor_id] = state[req[q].sensor_id]
      BY <1>0, <1>4, <3>6 DEF TypeOK
    <3> QED
      BY <2>1, <2>2, <2>4, <3>0, <3>3, <3>4, <3>7, NextStateAt DEF CopiedState
  <2> QED
    BY <2>3, <2>4
<1>13. AtomicState' = AtomicState
  <2>1. AtomicState' = [i \in SensorIds |-> AtomicState'[i]]
    BY DEF AtomicState
  <2> QED
    BY <1>11, <1>12, <2>1, StateIsFunction
<1> QED
  BY <1>1, <1>13, TablesKept, StutterIsAtomic DEF AtomicKept

LEMMA ResetKeyIsAtomic ==
    ASSUME StoreInv, NEW p \in Procs, CommitResetKey(p)
    PROVE  [Atomic!Next]_(Atomic!vars)
<1>0. TypeOK /\ SensorInv
  BY DEF StoreInv
<1>1. req[p].pc = "loaded" /\ Finish(p) /\ UNCHANGED <<readings, state, day>>
  BY DEF CommitResetKey
<1>2. req'[p].pc # "copied" /\ \A q \in Procs \ {p} : req'[q] = req[q]
  BY <1>0, <1>1, FinishOther
<1>3. AtomicState' = AtomicState /\ AtomicReadings' = AtomicReadings
  <2>1. SameRows
    BY <1>0, RotationKeepsRows
  <2>2. CopiesKept
    BY <1>1, <1>2, <2>1, CopyRowsKept, OtherRequests
  <2> QED
    BY <1>1, <2>2, StateKept, TablesKept
<1>4. CASE UNCHANGED <<sensors, keys>>
  BY <1>1, <1>3, <1>4, TablesKept, StutterIsAtomic DEF AtomicKept
<1>5. CASE HasSensor(req[p].sensor_id) /\ sensors' = Rotated(req[p].sensor_id) /\ keys' = keys + 1
  <2>1. PICK s \in sensors : s.id = req[p].sensor_id
    BY <1>5 DEF HasSensor
  <2>2. \A x \in sensors : x.id = req[p].sensor_id <=> x = s
    BY <1>0, <2>1 DEF SensorInv, LiveSensorsDistinct
  <2> DEFINE t == [s EXCEPT !.key = keys]
  <2>3. sensors' = (sensors \ {s}) \cup {t}
    BY <1>5, <2>1, <2>2 DEF Rotated
  <2>4. AtomicSensor(t) = [AtomicSensor(s) EXCEPT !.key = keys]
    BY <1>0 DEF AtomicSensor, TypeOK, Sensor
  <2>5. AtomicSensors' = (AtomicSensors \ {AtomicSensor(s)}) \cup {[AtomicSensor(s) EXCEPT !.key = keys]}
    <3> HIDE DEF t
    <3> QED
      BY <1>0, <2>3, <2>4, RowReplaced
  <2>6. keys \in Nat \ {0}
    BY <1>0 DEF TypeOK
  <2>7. 1..(keys' - 1) = 1..(keys - 1) \cup {keys} /\ keys \in 1..(keys' - 1) \ 1..(keys - 1)
    BY <1>5, <2>6
  <2>8. Atomic!ResetKey(AtomicSensor(s))
    BY <1>1, <1>3, <2>5, <2>7 DEF Atomic!ResetKey
  <2>9. AtomicSensor(s) \in AtomicSensors
    BY <2>1 DEF AtomicSensors
  <2> QED
    BY <2>8, <2>9 DEF Atomic!Next
<1> QED
  BY <1>4, <1>5 DEF CommitResetKey

LEMMA UpdateIsAtomic ==
    ASSUME StoreInv, NEW p \in Procs, CommitUpdate(p)
    PROVE  [Atomic!Next]_(Atomic!vars)
<1>0. TypeOK /\ SensorInv
  BY DEF StoreInv
<1>1. req[p].pc = "loaded" /\ Finish(p) /\ UNCHANGED <<readings, state, day, keys>>
  BY DEF CommitUpdate
<1>2. req'[p].pc # "copied" /\ \A q \in Procs \ {p} : req'[q] = req[q]
  BY <1>0, <1>1, FinishOther
<1>3. AtomicState' = AtomicState /\ AtomicReadings' = AtomicReadings
  <2>1. SameRows
    BY <1>0, RenameKeepsRows
  <2>2. CopiesKept
    BY <1>1, <1>2, <2>1, CopyRowsKept, OtherRequests
  <2> QED
    BY <1>1, <2>2, StateKept, TablesKept
<1>4. PICK name \in Names : sensors' = Renamed(req[p].sensor, name)
  BY DEF CommitUpdate
<1>5. CASE ~HasSensor(req[p].sensor.id) \/ name = req[p].sensor.name
  <2>1. sensors' = sensors
    BY <1>4, <1>5 DEF Renamed, HasSensor
  <2> QED
    BY <1>1, <1>3, <2>1, TablesKept, StutterIsAtomic DEF AtomicKept
<1>6. CASE HasSensor(req[p].sensor.id) /\ name # req[p].sensor.name
  <2>1. PICK s \in sensors : s.id = req[p].sensor.id
    BY <1>6 DEF HasSensor
  <2>2. \A x \in sensors : x.id = req[p].sensor.id <=> x = s
    BY <1>0, <2>1 DEF SensorInv, LiveSensorsDistinct
  <2> DEFINE t == [s EXCEPT !.name = name]
  <2>3. sensors' = (sensors \ {s}) \cup {t}
    BY <1>4, <1>6, <2>1, <2>2 DEF Renamed
  <2>4. AtomicSensor(t) = [AtomicSensor(s) EXCEPT !.name = name]
    BY <1>0 DEF AtomicSensor, TypeOK, Sensor
  <2>5. AtomicSensors' = (AtomicSensors \ {AtomicSensor(s)}) \cup {[AtomicSensor(s) EXCEPT !.name = name]}
    <3> HIDE DEF t
    <3> QED
      BY <1>0, <2>3, <2>4, RowReplaced
  <2>6. Atomic!UpdateSensor(AtomicSensor(s))
    BY <1>1, <1>3, <2>5 DEF Atomic!UpdateSensor
  <2>7. AtomicSensor(s) \in AtomicSensors
    BY <2>1 DEF AtomicSensors
  <2> QED
    BY <2>6, <2>7 DEF Atomic!Next
<1> QED
  BY <1>5, <1>6

LEMMA SetStateIsAtomic ==
    ASSUME StoreInv, NEW d \in Procs, SetState(d), ~MeetsCopy(d)
    PROVE  Atomic!Next
<1> DEFINE id == req[d].sensor_id
<1>0. TypeOK
  BY DEF StoreInv
<1>1. PICK value \in NewStates(req[d].op) : state' = [state EXCEPT ![id] = value]
  BY DEF SetState
<1>2. /\ req[d].pc = "loaded" /\ req[d].op \in StateOps /\ Finish(d)
      /\ UNCHANGED <<sensors, readings, keys, day>>
  BY DEF SetState
<1>3. value \in {"enabled", "disabled", "none"}
  BY <1>1, <1>2 DEF StateOps, NewStates
<1>4. id \in SensorIds
  BY <1>0, <1>2 DEF TypeOK
<1>5. ~CopyingTo(id) /\ ~CopyingFrom(id)
  BY <1>2 DEF MeetsCopy
<1>6. CopiesKept
  <2>1. req'[d].pc # "copied" /\ \A q \in Procs \ {d} : req'[q] = req[q]
    BY <1>0, <1>2, FinishOther
  <2> QED
    BY <1>2, <2>1, CopyRowsKept, OtherRequests
<1>7. AtomicState'[id] = value
  <2>1. Copying(id) = {}
    BY <1>5 DEF CopyingTo, Copying
  <2>2. ASSUME NEW i \in SensorIds, i = id PROVE Copying(i)' = {}
    BY <1>6, <2>1, <2>2, CopyingKept
  <2>3. ASSUME NEW i \in SensorIds, i = id PROVE AtomicState'[i] = state'[i]
    BY <2>2, <2>3 DEF AtomicState
  <2> QED
    BY <1>0, <1>1, <1>4, <2>3 DEF TypeOK
<1>8. ASSUME NEW i \in SensorIds, i # id PROVE AtomicState'[i] = AtomicState[i]
  <2>1. \A x \in SensorIds \ {id} : state'[x] = state[x]
    BY <1>0, <1>1 DEF TypeOK
  <2>2. ASSUME NEW q \in Copying(i) PROVE req[q].sensor_id \in SensorIds \ {id}
    BY <1>0, <1>5, <2>2 DEF CopyingFrom, Copying, TypeOK
  <2> QED
    BY <1>6, <1>8, <2>1, <2>2, StateKeptAt
<1>9. AtomicState' = [AtomicState EXCEPT ![id] = value]
  <2>1. AtomicState' = [i \in SensorIds |-> AtomicState'[i]]
    BY DEF AtomicState
  <2>2. AtomicState' = [i \in SensorIds |-> IF i = id THEN value ELSE AtomicState[i]]
    BY <1>7, <1>8, <2>1
  <2> QED
    BY <2>2, StateIsFunction
<1>10. Atomic!SetState(id)
  BY <1>2, <1>3, <1>9, TablesKept DEF Atomic!SetState
<1> QED
  BY <1>4, <1>10 DEF Atomic!Next

LEMMA RestartIsAtomic == ASSUME StoreInv, Restart PROVE Atomic!Next
<1>1. state' = [id \in SensorIds |-> "none"] /\ UNCHANGED <<sensors, readings, keys, day>>
  BY DEF Restart
<1>2. ASSUME NEW p \in Procs PROVE req'[p].pc # "copied"
  <2>1. CASE p \in Threads
    BY <2>1 DEF Restart, Idle
  <2>2. CASE p \notin Threads
    <3>1. req'[p] = req[p] /\ does[p] \subseteq {"ingest"}
      BY <2>2, AssignmentsAssumption DEF Restart, Procs, StoreInv, TypeOK
    <3> QED
      BY <3>1 DEF StoreInv, CallsInv, CallInv
  <2> QED
    BY <2>1, <2>2
<1>3. \A id \in SensorIds : Copying(id)' = {}
  BY <1>2 DEF Copying
<1>4. AtomicState' = [id \in SensorIds |-> "none"]
  BY <1>1, <1>3 DEF AtomicState
<1>5. Atomic!Restart
  BY <1>1, <1>4, TablesKept DEF Atomic!Restart
<1> QED
  BY <1>5 DEF Atomic!Next

(* Steps that only read, or end a request that is refused.                  *)
LEMMA ReadsAreAtomic ==
    ASSUME StoreInv, NEW p \in Procs,
           \/ \E op \in KeyedOps \cup SignedOps \cup OpenOps, id \in SensorIds : LoadSensor(p, op, id)
           \/ CheckReading(p)
           \/ SelectReadings(p)
           \/ \E days \in 1..MaxDay : SelectOld(p, days)
    PROVE  UNCHANGED Atomic!vars
<1>0. TypeOK
  BY DEF StoreInv
<1>1. UNCHANGED <<sensors, readings, state, keys, day>>
  BY DEF LoadSensor, CheckReading, SelectReadings, SelectOld
<1>2. req[p].pc # "copied"
  BY DEF LoadSensor, CheckReading, SelectReadings, SelectOld
<1>3. req'[p].pc # "copied"
  <2>1. CASE CheckReading(p)
    BY <1>0, <2>1, CheckedRequest DEF Idle
  <2>2. CASE SelectReadings(p)
    BY <1>0, <2>2, SelectedRequest
  <2>3. ASSUME NEW days \in 1..MaxDay, SelectOld(p, days) PROVE req'[p].pc # "copied"
    BY <1>0, <2>3, SelectedOldRequest
  <2>4. ASSUME NEW op \in KeyedOps \cup SignedOps \cup OpenOps, NEW id \in SensorIds, LoadSensor(p, op, id)
        PROVE  req'[p].pc # "copied"
    BY <1>0, <2>4, LoadedRequest
  <2> QED
    BY <2>1, <2>2, <2>3, <2>4
<1>4. \A q \in Procs \ {p} : req'[q] = req[q]
  BY <1>0 DEF TypeOK, LoadSensor, CheckReading, SelectReadings, SelectOld
<1>5. AtomicState' = AtomicState
  <2>1. CopiesKept
    BY <1>1, <1>2, <1>3, <1>4, CopyRowsKept, OtherRequests
  <2> QED
    BY <1>1, <2>1, StateKept
<1> QED
  BY <1>1, <1>5, TablesKept, StutterIsAtomic DEF AtomicKept

Conflict == \E p \in Procs : req'[p] # req[p] /\ (Stale(p) \/ MeetsCopy(p))

LEMMA NextIsAtomic ==
    ASSUME StoreInv, [Next]_vars, ~Conflict
    PROVE  [Atomic!Next]_(Atomic!vars)
<1>0. TypeOK
  BY DEF StoreInv
<1>1. CASE UNCHANGED <<sensors, readings, state, keys, day, req>>
  <2>1. CopiesKept
    BY <1>1, CopyRowsKept DEF CopiesKept
  <2> QED
    BY <1>1, <2>1, StateKept, TablesKept, StutterIsAtomic DEF AtomicKept
<1>2. CASE Restart
  BY <1>2, RestartIsAtomic
<1>3. CASE Tick
  <2>1. UNCHANGED <<sensors, readings, state, keys, req>> /\ day' = day + 1
    BY <1>3 DEF Tick
  <2>2. CopiesKept
    BY <2>1, CopyRowsKept DEF CopiesKept
  <2>3. Atomic!Tick
    BY <2>1, <2>2, StateKept, TablesKept DEF Atomic!Tick
  <2> QED
    BY <2>3 DEF Atomic!Next
<1>4. ASSUME NEW p \in Procs, Step(p) PROVE [Atomic!Next]_(Atomic!vars)
  <2>1. ASSUME InsertReadings(p) \/ CommitDelete(p) \/ CommitCopy(p) \/ CopyTags(p) \/ SetState(p)
        PROVE  ~Stale(p) /\ ~MeetsCopy(p)
    <3>1. req[p].pc # "idle" /\ req[p].pc # req'[p].pc
      <4>1. CASE CommitCopy(p)
        BY <1>0, <4>1, CopiedRequest
      <4>2. CASE ~CommitCopy(p)
        <5>1. Finish(p)
          BY <2>1, <4>2 DEF InsertReadings, CommitDelete, CopyTags, SetState
        <5>2. req[p].pc # "idle"
          BY <2>1, <4>2 DEF InsertReadings, ReadyToInsert, CommitDelete, CopyTags, SetState
        <5> QED
          BY <1>0, <5>1, <5>2 DEF Finish, Idle, TypeOK
      <4> QED
        BY <4>1, <4>2
    <3> QED
      BY <3>1 DEF Conflict
  <2> QED
    BY <1>4, <2>1, ReadsAreAtomic, RegisterIsAtomic, ResetKeyIsAtomic, UpdateIsAtomic, InsertIsAtomic,
       DeleteIsAtomic, CopyIsAtomic, CopyTagsIsAtomic, SetStateIsAtomic DEF Step
<1> QED
  BY <1>1, <1>2, <1>3, <1>4 DEF Next, vars

LEMMA InitIsAtomic == ASSUME Init PROVE Atomic!Init
<1>1. \A id \in SensorIds : Copying(id) = {}
  BY DEF Init, Idle, Copying
<1>2. AtomicState = [id \in SensorIds |-> "none"]
  BY <1>1 DEF Init, AtomicState
<1> QED
  BY <1>2 DEF Init, Atomic!Init, AtomicSensors, AtomicReadings

(* For any number of threads and receivers, every handler takes effect in   *)
(* one step, as its docstring puts it, unless it writes on what is no       *)
(* longer so or meets a copy between its row and its tags.                  *)
THEOREM AtomicCorrect == Spec => ImplementsAtomic
<1>1. Init => Atomic!Init
  BY InitIsAtomic
<1>2. StoreInv /\ [Next]_vars => [Conflict \/ Atomic!Next]_(Atomic!vars)
  BY NextIsAtomic
<1>3. StoreInv /\ [Next]_vars =>
        [\/ \E p \in Procs : req'[p] # req[p] /\ (Stale(p) \/ MeetsCopy(p))
         \/ Atomic!Next]_(Atomic!vars)
  BY <1>2 DEF Conflict
<1> QED
  BY <1>1, <1>3, StoreInvCorrect, PTL DEF Spec, ImplementsAtomic
=============================================================================
