---------------------------- MODULE MCAdapterQueue ----------------------------
(* Instances of AdapterQueue for TLC.                                      *)
EXTENDS AdapterQueue

(* The first queue buffer has two entries.                                 *)
QueueSizes == [q \in 0 .. LastBlock |-> 2 * 2^q]
=============================================================================
