------------------------ MODULE ReadingStreamProofs ------------------------
(* Proofs about ReadingStream, for every set of sensors and every bound.    *)
EXTENDS ReadingStream, FiniteSetTheorems, TLAPS

LEMMA InsertTyped ==
    ASSUME TypeOK, NEW s \in Sensors, InsertReading(s)
    PROVE  readings' \subseteq Reading /\ stamp' \in Nat
<1>1. PICK n \in 1..MaxReadingId :
        readings' = readings \cup {[id |-> n, sensor_id |-> s, stamp |-> stamp]}
  BY DEF InsertReading
<1>2. n \in Nat
  BY BoundsAssumption
<1> QED
  BY <1>1, <1>2 DEF TypeOK, Reading, InsertReading

LEMMA NextTyped == TypeOK /\ [Next]_vars => TypeOK'
<1> SUFFICES ASSUME TypeOK, [Next]_vars PROVE TypeOK'
  OBVIOUS
<1> USE DEF TypeOK
<1>1. CASE UNCHANGED vars
  BY <1>1 DEF vars, table, stream
<1>2. ASSUME NEW s \in Sensors, InsertReading(s) PROVE TypeOK'
  BY <1>2, InsertTyped DEF InsertReading, stream
<1>3. ASSUME NEW rows \in SUBSET readings, DeleteReadings(rows) PROVE TypeOK'
  BY <1>3 DEF DeleteReadings, stream
<1>4. ASSUME NEW s \in sensors, NEW rows \in SUBSET readings, DeleteSensor(s, rows) PROVE TypeOK'
  BY <1>4 DEF DeleteSensor, stream
<1>5. ASSUME NEW s \in Sensors, RegisterSensor(s) PROVE TypeOK'
  BY <1>5 DEF RegisterSensor, stream
<1>6. CASE Connect
  <2>1. last_id' \in Nat
    BY <1>6, BoundsAssumption DEF Connect
  <2> QED
    BY <1>6, <2>1 DEF Connect, table
<1>7. CASE Query
  BY <1>7 DEF Query, SelectNew, table
<1>8. CASE Send
  <2>1. last_id' \in Nat /\ new_rows' \subseteq Reading /\ sent' \subseteq Reading
    BY <1>8 DEF Send, Cursor, Reading
  <2> QED
    BY <1>8, <2>1 DEF Send, table
<1>9. CASE Disconnect
  BY <1>9 DEF Disconnect, table
<1> QED
  BY <1>1, <1>2, <1>3, <1>4, <1>5, <1>6, <1>7, <1>8, <1>9 DEF Next

(* The table and the generator keep their types.                            *)
THEOREM TypeCorrect == Spec => []TypeOK
<1>1. Init => TypeOK
  <2>1. 0 \in Nat /\ 1 \in Nat
    OBVIOUS
  <2> QED
    BY <2>1 DEF Init, TypeOK
<1> QED
  BY <1>1, NextTyped, PTL DEF Spec

-----------------------------------------------------------------------------
(* Order.  The rows of the table, the rows the generator holds and the rows *)
(* it has sent are each in commit order, and so are rows of any two of them *)
(* above the cursor.  A row the generator holds may be gone from the table  *)
(* and its id used by a later row, so these do not follow from the table.   *)
Ordered(rows) ==
    \A a, b \in rows :
      /\ a.id < b.id => a.stamp < b.stamp
      /\ a.id = b.id => a = b

OrderInv ==
    /\ \A r \in readings \cup new_rows \cup sent : r.stamp < stamp
    /\ Ordered(readings)
    /\ Ordered(new_rows)
    /\ \A r \in new_rows : r.id > last_id
    /\ \A a \in new_rows, b \in readings : a.id < b.id => a.stamp < b.stamp
    /\ \A a \in sent : a.id <= last_id
    /\ \A a \in sent, b \in new_rows : a.stamp < b.stamp
    /\ \A a \in sent, b \in readings : b.id > last_id => a.stamp < b.stamp

(* Deleting rows of the table leaves the invariant.                         *)
LEMMA DeleteKeepsOrder ==
    ASSUME OrderInv, readings' \subseteq readings, UNCHANGED <<stamp, stream>>
    PROVE  OrderInv'
BY DEF OrderInv, Ordered, stream

LEMMA InsertKeepsOrder ==
    ASSUME TypeOK, OrderInv, NEW s \in Sensors, InsertReading(s)
    PROVE  OrderInv'
<1>1. PICK n \in 1..MaxReadingId :
        /\ IsNextId(readings, n)
        /\ readings' = readings \cup {[id |-> n, sensor_id |-> s, stamp |-> stamp]}
  BY DEF InsertReading
<1> DEFINE new == [id |-> n, sensor_id |-> s, stamp |-> stamp]
<1>2. n \in Nat /\ new.id = n /\ new.stamp = stamp /\ stamp' = stamp + 1 /\ stamp \in Nat
  BY BoundsAssumption DEF InsertReading, TypeOK
<1>3. \A r \in readings : r.id < n
  BY <1>1 DEF IsNextId
<1>4. \A r \in readings \cup new_rows \cup sent : r.id \in Nat /\ r.stamp \in Nat /\ r.stamp < stamp
  BY DEF TypeOK, Reading, OrderInv
<1>5. readings' = readings \cup {new} /\ UNCHANGED <<new_rows, sent, last_id>>
  BY <1>1 DEF InsertReading, stream
<1> HIDE DEF new
<1>6. Ordered(readings')
  BY <1>2, <1>3, <1>4, <1>5 DEF OrderInv, Ordered
<1>7. \A r \in readings' \cup new_rows \cup sent : r.stamp < stamp'
  BY <1>2, <1>4, <1>5
<1>8. \A a \in new_rows, b \in readings' : a.id < b.id => a.stamp < b.stamp
  BY <1>2, <1>4, <1>5 DEF OrderInv
<1>9. \A a \in sent, b \in readings' : b.id > last_id => a.stamp < b.stamp
  BY <1>2, <1>4, <1>5 DEF OrderInv
<1> QED
  BY <1>5, <1>6, <1>7, <1>8, <1>9 DEF OrderInv

LEMMA SendKeepsOrder ==
    ASSUME TypeOK, OrderInv, Send
    PROVE  OrderInv'
<1>1. PICK r \in new_rows :
        /\ First(r)
        /\ new_rows' = new_rows \ {r}
        /\ last_id' = r.id
        /\ sent' = sent \cup {r}
  BY DEF Send, Cursor
<1>2. UNCHANGED <<readings, stamp>>
  BY DEF Send, table
<1>3. \A x \in readings \cup new_rows \cup sent : x.id \in Nat /\ x.stamp \in Nat
  BY DEF TypeOK, Reading
<1>4. last_id \in Nat
  BY DEF TypeOK
<1>5. \A x \in new_rows' : r.id < x.id /\ r.stamp < x.stamp
  BY <1>1, <1>3 DEF First, OrderInv, Ordered
<1>6. \A a \in sent' : a.id <= last_id'
  BY <1>1, <1>3, <1>4 DEF OrderInv
<1>7. \A a \in sent', b \in new_rows' : a.stamp < b.stamp
  BY <1>1, <1>5 DEF OrderInv
<1>8. \A a \in sent', b \in readings : b.id > last_id' => a.stamp < b.stamp
  BY <1>1, <1>3, <1>4 DEF OrderInv
<1> QED
  BY <1>1, <1>2, <1>5, <1>6, <1>7, <1>8 DEF OrderInv, Ordered

LEMMA NextOrder == TypeOK /\ OrderInv /\ [Next]_vars => OrderInv'
<1> SUFFICES ASSUME TypeOK, OrderInv, [Next]_vars PROVE OrderInv'
  OBVIOUS
<1>1. CASE UNCHANGED vars
  BY <1>1, DeleteKeepsOrder DEF vars, table
<1>2. ASSUME NEW s \in Sensors, InsertReading(s) PROVE OrderInv'
  BY <1>2, InsertKeepsOrder
<1>3. ASSUME NEW rows \in SUBSET readings, DeleteReadings(rows) PROVE OrderInv'
  BY <1>3, DeleteKeepsOrder DEF DeleteReadings
<1>4. ASSUME NEW s \in sensors, NEW rows \in SUBSET readings, DeleteSensor(s, rows) PROVE OrderInv'
  BY <1>4, DeleteKeepsOrder DEF DeleteSensor
<1>5. ASSUME NEW s \in Sensors, RegisterSensor(s) PROVE OrderInv'
  BY <1>5, DeleteKeepsOrder DEF RegisterSensor
<1>6. CASE Connect
  BY <1>6 DEF Connect, OrderInv, Ordered, table
<1>7. CASE Query
  BY <1>7 DEF Query, SelectNew, OrderInv, Ordered, table
<1>8. CASE Send
  BY <1>8, SendKeepsOrder
<1>9. CASE Disconnect
  BY <1>9 DEF Disconnect, OrderInv, Ordered, table
<1> QED
  BY <1>1, <1>2, <1>3, <1>4, <1>5, <1>6, <1>7, <1>8, <1>9 DEF Next

LEMMA OrderCorrect == Spec => []OrderInv
<1>1. Init => OrderInv
  BY DEF Init, OrderInv, Ordered
<1> QED
  BY <1>1, NextOrder, TypeCorrect, PTL DEF Spec

(* Only Send adds to what was sent, and it adds a row the generator held.   *)
LEMMA SentChange ==
    ASSUME [Next]_vars
    PROVE  \/ sent' = {} /\ count' = 0
           \/ UNCHANGED <<sent, count>>
           \/ Send
BY DEF Next, vars, stream, InsertReading, DeleteReadings, DeleteSensor,
       RegisterSensor, Connect, Query, Disconnect

(* A connection gets readings in the order of their commits.                *)
THEOREM SentInOrderCorrect == Spec => SentInOrder
<1>1. OrderInv /\ [Next]_vars => \A old \in sent, new \in sent' \ sent : old.stamp < new.stamp
  <2> SUFFICES ASSUME OrderInv, [Next]_vars, NEW old \in sent, NEW new \in sent' \ sent
               PROVE  old.stamp < new.stamp
    OBVIOUS
  <2>1. new \in new_rows
    BY SentChange DEF Send
  <2> QED
    BY <2>1 DEF OrderInv
<1>2. OrderInv /\ [Next]_vars => [\A old \in sent, new \in sent' \ sent : old.stamp < new.stamp]_vars
  BY <1>1
<1> QED
  BY <1>2, OrderCorrect, PTL DEF Spec, SentInOrder

-----------------------------------------------------------------------------
(* A row the generator holds is above the cursor and every row it has sent  *)
(* is not, so each event is a row not sent before.                          *)
OnceInv == SentOnce /\ IsFiniteSet(sent)

(* No reading is sent twice on a connection.                                *)
THEOREM SentOnceCorrect == Spec => []SentOnce
<1>1. Init => OnceInv
  BY FS_EmptySet DEF Init, OnceInv, SentOnce
<1>2. TypeOK /\ OrderInv /\ OnceInv /\ [Next]_vars => OnceInv'
  <2> SUFFICES ASSUME TypeOK, OrderInv, OnceInv, [Next]_vars PROVE OnceInv'
    OBVIOUS
  <2>1. CASE sent' = {} /\ count' = 0
    BY <2>1, FS_EmptySet DEF OnceInv, SentOnce
  <2>2. CASE UNCHANGED <<sent, count>>
    BY <2>2 DEF OnceInv, SentOnce
  <2>3. CASE Send
    <3>1. PICK r \in new_rows : sent' = sent \cup {r} /\ count' = count + 1
      BY <2>3 DEF Send
    <3>2. r.id \in Nat /\ last_id \in Nat /\ \A a \in sent : a.id \in Nat
      BY DEF TypeOK, Reading
    <3>3. r \notin sent
      BY <3>2 DEF OrderInv
    <3>4. IsFiniteSet(sent') /\ Cardinality(sent') = Cardinality(sent) + 1
      BY <3>1, <3>3, FS_AddElement DEF OnceInv
    <3> QED
      BY <3>1, <3>4 DEF OnceInv, SentOnce
  <2> QED
    BY <2>1, <2>2, <2>3, SentChange
<1>3. OnceInv => SentOnce
  BY DEF OnceInv
<1> QED
  BY <1>1, <1>2, <1>3, TypeCorrect, OrderCorrect, PTL DEF Spec

-----------------------------------------------------------------------------
(* While nothing is deleted, the rows the generator holds are rows of the   *)
(* table, the cursor is not beyond the table's last row, and the rows held  *)
(* leave out none that they reach over.                                     *)
PassedInv ==
    open /\ ~disturbed =>
      /\ new_rows \subseteq readings
      /\ last_id = 0 \/ \E r \in readings : last_id <= r.id
      /\ \A r \in readings : r.stamp >= since =>
           /\ r.sensor_id \in sensors
           /\ r.id <= last_id => r \in sent
           /\ \A x \in new_rows : last_id < r.id /\ r.id <= x.id => r \in new_rows

LEMMA InsertKeepsPassed ==
    ASSUME TypeOK, PassedInv, NEW s \in Sensors, InsertReading(s)
    PROVE  PassedInv'
<1> SUFFICES ASSUME open, ~disturbed, s \in sensors PROVE PassedInv'
  BY DEF PassedInv, InsertReading, stream
<1>1. PICK n \in 1..MaxReadingId :
        /\ IsNextId(readings, n)
        /\ readings' = readings \cup {[id |-> n, sensor_id |-> s, stamp |-> stamp]}
  BY DEF InsertReading
<1> DEFINE new == [id |-> n, sensor_id |-> s, stamp |-> stamp]
<1>2. n \in Nat /\ n > 0 /\ new.id = n /\ new.sensor_id = s /\ last_id \in Nat
  BY BoundsAssumption DEF TypeOK
<1>3. \A r \in readings : r.id \in Nat /\ r.id < n
  BY <1>1 DEF IsNextId, TypeOK, Reading
<1>4. readings' = readings \cup {new} /\ UNCHANGED <<new_rows, last_id, sent, since, sensors, open>>
  BY <1>1 DEF InsertReading, stream
<1> HIDE DEF new
<1>5. last_id < n
  BY <1>2, <1>3 DEF PassedInv
<1>6. \A x \in new_rows : x.id < n /\ x.id \in Nat
  BY <1>3 DEF PassedInv
<1> QED
  BY <1>2, <1>3, <1>4, <1>5, <1>6 DEF PassedInv

LEMMA SendKeepsPassed ==
    ASSUME TypeOK, OrderInv, PassedInv, Send
    PROVE  PassedInv'
<1> SUFFICES ASSUME open, ~disturbed PROVE PassedInv'
  BY DEF PassedInv, Send
<1>1. PICK r \in new_rows :
        /\ First(r)
        /\ new_rows' = new_rows \ {r}
        /\ last_id' = r.id
        /\ sent' = sent \cup {r}
  BY DEF Send, Cursor
<1>2. UNCHANGED <<readings, sensors, since, open, disturbed>>
  BY DEF Send, table
<1>3. r \in readings /\ \A x \in readings : x.id \in Nat
  BY DEF PassedInv, TypeOK, Reading
<1>4. last_id \in Nat
  BY DEF TypeOK
<1>5. ASSUME NEW x \in readings, x.stamp >= since, x.id <= r.id
      PROVE  x \in sent'
  <2>1. CASE x.id <= last_id
    BY <1>1, <1>5, <2>1 DEF PassedInv
  <2>2. CASE last_id < x.id
    <3>1. x \in new_rows
      BY <1>5, <2>2 DEF PassedInv
    <3>2. x = r
      BY <1>1, <1>3, <1>5, <3>1 DEF First, OrderInv, Ordered
    <3> QED
      BY <1>1, <3>2
  <2> QED
    BY <1>3, <1>4, <2>1, <2>2
<1>6. ASSUME NEW x \in readings, x.stamp >= since, NEW y \in new_rows', r.id < x.id, x.id <= y.id
      PROVE  x \in new_rows'
  <2>1. last_id < x.id
    BY <1>3, <1>4, <1>6 DEF OrderInv
  <2>2. x \in new_rows
    BY <1>1, <1>6, <2>1 DEF PassedInv
  <2> QED
    BY <1>1, <1>3, <1>6, <2>2
<1> QED
  BY <1>1, <1>2, <1>3, <1>5, <1>6 DEF PassedInv

(* While nothing is deleted, the cursor passes no new reading unsent.       *)
THEOREM PassedWereSentCorrect == Spec => []PassedWereSent
<1>1. Init => PassedInv
  BY DEF Init, PassedInv
<1>2. TypeOK /\ OrderInv /\ PassedInv /\ [Next]_vars => PassedInv'
  <2> SUFFICES ASSUME TypeOK, OrderInv, PassedInv, [Next]_vars PROVE PassedInv'
    OBVIOUS
  <2>1. CASE UNCHANGED vars
    BY <2>1 DEF vars, table, stream, PassedInv
  <2>2. ASSUME NEW s \in Sensors, InsertReading(s) PROVE PassedInv'
    BY <2>2, InsertKeepsPassed
  <2>3. ASSUME NEW rows \in SUBSET readings, DeleteReadings(rows) PROVE PassedInv'
    BY <2>3 DEF DeleteReadings, PassedInv
  <2>4. ASSUME NEW s \in sensors, NEW rows \in SUBSET readings, DeleteSensor(s, rows)
        PROVE  PassedInv'
    BY <2>4 DEF DeleteSensor, PassedInv
  <2>5. ASSUME NEW s \in Sensors, RegisterSensor(s) PROVE PassedInv'
    BY <2>5 DEF RegisterSensor, PassedInv, stream
  <2>6. CASE Connect
    <3>1. \A r \in readings : ~(r.stamp >= stamp)
      BY DEF OrderInv, TypeOK, Reading
    <3>2. PICK n \in 0..MaxReadingId : IsLastId(n) /\ last_id' = n
      BY <2>6 DEF Connect
    <3>3. n = 0 \/ \E r \in readings : n <= r.id
      BY <3>2, BoundsAssumption DEF IsLastId
    <3> QED
      BY <2>6, <3>1, <3>2, <3>3 DEF Connect, PassedInv, table
  <2>7. CASE Query
    BY <2>7 DEF Query, SelectNew, PassedInv, table
  <2>8. CASE Send
    BY <2>8, SendKeepsPassed
  <2>9. CASE Disconnect
    BY <2>9 DEF Disconnect, PassedInv
  <2> QED
    BY <2>1, <2>2, <2>3, <2>4, <2>5, <2>6, <2>7, <2>8, <2>9 DEF Next
<1>3. PassedInv => PassedWereSent
  BY DEF PassedInv, PassedWereSent
<1> QED
  BY <1>1, <1>2, <1>3, TypeCorrect, OrderCorrect, PTL DEF Spec
=============================================================================
