---------------------------- MODULE MCOutputArbiter ----------------------------
(* Instances of OutputArbiter for TLC.                                     *)
EXTENDS OutputArbiter

(* The priorities of the code's defaults.                                  *)
DefaultPriority ==
    [m \in Modes |->
        CASE m = "idn" -> 4 [] m = "usb" -> 3 [] m = "file" -> 1
          [] m = "forcestop" -> 100]

=============================================================================
