-------------------------- MODULE MCReadingUplink --------------------------
(* Devices behind one address share its window.                             *)
EXTENDS ReadingUplink

CONSTANT ip

SharedAddress == [d \in Devices |-> ip]
=============================================================================
