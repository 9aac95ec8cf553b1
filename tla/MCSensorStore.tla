--------------------------- MODULE MCSensorStore ---------------------------
(* Instances of SensorStore: which process exercises which handlers.        *)
EXTENDS SensorStore, TLC

CONSTANTS t1, t2

Nobody == [p \in Procs |-> {}]

Ingest == [p \in Receivers |-> {"ingest"}]

\* One request at a time, of any handler.
OneThread == (t1 :> HttpOps) @@ Nobody

\* Both threads delete, one submits.
Deleting == (t1 :> {"delete_sensor", "cleanup_old_readings", "register_sensor"})
         @@ (t2 :> {"delete_sensor", "clear_sensor_readings", "submit_batch_readings"})
         @@ Nobody

\* Two threads delete while readings arrive at a receiver.
Receiving == (t1 :> {"delete_sensor", "register_sensor"})
          @@ (t2 :> {"clear_sensor_readings"})
          @@ Ingest

\* Both threads copy and delete sensors; their keys, names and tags change.
CopyingSensors == (t1 :> {"copy_sensor", "delete_sensor", "update_sensor", "register_sensor"})
               @@ (t2 :> {"copy_sensor", "delete_sensor", "reset_sensor_key"} \cup StateOps)
               @@ Nobody

StoreAssignments == {OneThread, Deleting, Receiving, CopyingSensors}

\* delete_sensor beside a submission and an ingest.
OrphanAssignments == {(t1 :> {"delete_sensor"})
                   @@ (t2 :> {"register_sensor", "submit_reading"})
                   @@ Ingest}

\* Both threads rotate keys.
RotationAssignments == {(t1 :> {"register_sensor", "reset_sensor_key"})
                     @@ (t2 :> {"reset_sensor_key"})
                     @@ Nobody}

\* Names are interchangeable.
Symmetry == Permutations(Names)
=============================================================================
