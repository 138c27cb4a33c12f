----------------------------- MODULE TaxiConveyor -----------------------------
(***************************************************************************)
(* What the adapter queue promises: a conveyor of taxi buffers.  The       *)
(* server puts a buffer at one end, the driver reads the buffers in the    *)
(* order they were put, each one once, and only a buffer that was read     *)
(* comes back to the server as trash, in the same order.                   *)
(***************************************************************************)
EXTENDS Sequences

CONSTANT Buffers

VARIABLES
    waiting,   \* put by the server, not yet read by the driver
    trash      \* read by the driver, not yet collected by the server

Elements(s) == {s[i] : i \in DOMAIN s}

OnConveyor == Elements(waiting) \cup Elements(trash)

Init == waiting = <<>> /\ trash = <<>>

Put(b) ==
    /\ b \notin OnConveyor
    /\ waiting' = Append(waiting, b)
    /\ UNCHANGED trash

Read ==
    /\ waiting # <<>>
    /\ waiting' = Tail(waiting)
    /\ trash' = Append(trash, Head(waiting))

Collect ==
    /\ trash # <<>>
    /\ trash' = Tail(trash)
    /\ UNCHANGED waiting

Next == (\E b \in Buffers : Put(b)) \/ Read \/ Collect

Spec == Init /\ [][Next]_<<waiting, trash>>
=============================================================================
