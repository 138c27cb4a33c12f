------------------------------ MODULE UsbSource ------------------------------
(***************************************************************************)
(* The USB input: OpenIDN poses as a Helios DAC to a computer.             *)
(*                                                                         *)
(* Four threads.  rx_bulk_thread receives frames, asks for the output and  *)
(* queues them in chunks that the device can take; rx_int_thread handles   *)
(* the commands; tx_int_thread sends their answers out of a buffer for one;*)
(* the output loop writes the chunks to the device and gives the output    *)
(* up after 500 ms without a frame.  The host asks for the status and      *)
(* sends a frame when the answer is that there is room; a rival is any     *)
(* output mode above USB.                                                  *)
(*                                                                         *)
(* An endpoint holds one packet.  Chunks all last equally long, so the     *)
(* queue is their number.                                                  *)
(***************************************************************************)
EXTENDS Integers

CONSTANTS
    MaxParts,   \* bound: chunks of a frame
    Enough      \* chunks that last bufferTargetDurationSeconds

ASSUME PartsAssumption == MaxParts \in Nat \ {0}
ASSUME EnoughAssumption == Enough \in Nat

VARIABLES
    currentMode,   \* of ManagementInterface: none, usb, rival
    queue,         \* how many chunks are queued
    recent,        \* lastReception is less than 500 ms ago
    bulkIn,        \* the bulk endpoint: the parts of the frame in it, 0 for none
    intIn,         \* the interrupt endpoint: the command in it
    txSize,        \* whether txBuffer holds an answer
    txBuffer,
    host,          \* idle, a question it waits for the answer of, ready to send
    bulk, left,    \* rx_bulk_thread: place, chunks it has still to queue
    int, response, \* rx_int_thread: place, the answer to send
    tx, out        \* tx_int_thread, output loop: place

endpoints == <<bulkIn, intIn>>
answer == <<txSize, txBuffer>>
bulkThread == <<bulk, left>>
intThread == <<int, response>>
vars == <<currentMode, queue, recent, endpoints, answer, host, bulkThread, intThread, tx, out>>

(* The first two bytes of the commands, as HeliosDac sends them.           *)
Stop == <<1, 0>>
SetShutter == {<<2, 0>>, <<2, 1>>}
GetStatus == <<3, 0>>
GetInfo == <<4, 0>>   \* firmware version; the name, <<5, 0>>, is answered alike
Requests == {GetStatus, GetInfo}
Commands == {Stop} \cup SetShutter \cup Requests
NoCommand == <<>>

-----------------------------------------------------------------------------
(* rx_bulk_thread and bulkUsbReceived                                      *)

BulkRead ==
    /\ bulk = "idle" /\ bulkIn # 0
    /\ left' = bulkIn
    /\ bulkIn' = 0
    /\ bulk' = "request"
    /\ UNCHANGED <<currentMode, queue, recent, intIn, answer, host, intThread, tx, out>>

(* Fault: a refused request is only reported.                              *)
RequestAnyway ==
    /\ bulk = "request"
    /\ bulk' = IF currentMode = "none" THEN "switch" ELSE "accept"
    /\ UNCHANGED <<currentMode, queue, recent, endpoints, answer, host, left, intThread, tx, out>>

(* requestOutput up to its store                                           *)
Request ==
    /\ bulk = "request"
    /\ bulk' = CASE currentMode = "usb" -> "accept"
                 [] currentMode = "none" -> "switch"
                 [] currentMode = "rival" -> "idle"
    /\ left' = IF currentMode = "rival" THEN 0 ELSE left
    /\ UNCHANGED <<currentMode, queue, recent, endpoints, answer, host, intThread, tx, out>>

Switch ==
    /\ bulk = "switch"
    /\ currentMode' = "usb"
    /\ bulk' = "accept"
    /\ UNCHANGED <<queue, recent, endpoints, answer, host, left, intThread, tx, out>>

(* A frame of the wrong length goes no further.                            *)
Accept(valid) ==
    /\ bulk = "accept"
    /\ bulk' = IF valid THEN "push" ELSE "idle"
    /\ left' = IF valid THEN left ELSE 0
    /\ recent' = (recent \/ valid)
    /\ UNCHANGED <<currentMode, queue, endpoints, answer, host, intThread, tx, out>>

Push ==
    /\ bulk = "push"
    /\ queue' = queue + 1
    /\ left' = left - 1
    /\ bulk' = IF left = 1 THEN "idle" ELSE "push"
    /\ UNCHANGED <<currentMode, recent, endpoints, answer, host, intThread, tx, out>>

-----------------------------------------------------------------------------
(* rx_int_thread and interruptUsbReceived                                  *)

(* Fault: one chunk more is let in.                                        *)
RoomForOneMore == queue <= 2 \/ queue < Enough

Room == queue <= 1 \/ queue < Enough

(* The stop is told by the second byte.                                    *)
IsStop(command) == command[2] = 1

HandleStop ==
    /\ int = "idle" /\ intIn # NoCommand
    /\ IsStop(intIn)
    /\ queue' = 0
    /\ int' = "relinquish"
    /\ intIn' = NoCommand
    /\ UNCHANGED <<currentMode, recent, bulkIn, answer, host, bulkThread, response, tx, out>>

HandleRequest ==
    /\ int = "idle" /\ intIn \in Requests
    /\ response' = CASE intIn = GetInfo -> "info"
                     [] intIn = GetStatus /\ Room -> "ready"
                     [] intIn = GetStatus /\ ~Room -> "busy"
    /\ int' = "respond"
    /\ intIn' = NoCommand
    /\ UNCHANGED <<currentMode, queue, recent, bulkIn, answer, host, bulkThread, tx, out>>

HandleOther ==
    /\ int = "idle" /\ intIn \in Commands \ Requests
    /\ ~IsStop(intIn)
    /\ intIn' = NoCommand
    /\ UNCHANGED <<currentMode, queue, recent, bulkIn, answer, host, bulkThread, intThread, tx, out>>

(* relinquishOutput                                                        *)
IntRelinquish ==
    /\ int = "relinquish"
    /\ int' = IF currentMode = "usb" THEN "store" ELSE "idle"
    /\ UNCHANGED <<currentMode, queue, recent, endpoints, answer, host, bulkThread, response, tx, out>>

IntStore ==
    /\ int = "store"
    /\ currentMode' = "none"
    /\ int' = "idle"
    /\ UNCHANGED <<queue, recent, endpoints, answer, host, bulkThread, response, tx, out>>

(* Fault: after the wait the answer is written over the one before.        *)
RespondOver ==
    /\ int \in {"respond", "retry"}
    /\ IF txSize /\ int = "respond"
       THEN int' = "retry" /\ UNCHANGED <<answer, response>>
       ELSE int' = "idle" /\ txSize' = TRUE /\ txBuffer' = response /\ response' = "none"
    /\ UNCHANGED <<currentMode, queue, recent, endpoints, host, bulkThread, tx, out>>

(* send_interrupt_msg_response waits 1 ms for the buffer, then drops.      *)
Respond ==
    /\ int \in {"respond", "retry"}
    /\ CASE txSize /\ int = "respond" -> int' = "retry" /\ UNCHANGED <<answer, response>>
         [] txSize /\ int = "retry" -> int' = "idle" /\ response' = "none" /\ UNCHANGED answer
         [] ~txSize -> /\ int' = "idle" /\ response' = "none"
                       /\ txSize' = TRUE /\ txBuffer' = response
    /\ UNCHANGED <<currentMode, queue, recent, endpoints, host, bulkThread, tx, out>>

-----------------------------------------------------------------------------
(* tx_int_thread.  It resets txSize after a write and once more at the end *)
(* of its loop.                                                            *)

TxLook ==
    /\ tx = "look" /\ txSize
    /\ tx' = "write"
    /\ UNCHANGED <<currentMode, queue, recent, endpoints, answer, host, bulkThread, intThread, out>>

TxFails ==
    /\ tx = "write"
    /\ tx' = "end"
    /\ UNCHANGED <<currentMode, queue, recent, endpoints, answer, host, bulkThread, intThread, out>>

TxReset ==
    /\ tx \in {"written", "end"}
    /\ txSize' = FALSE
    /\ tx' = IF tx = "written" THEN "end" ELSE "look"
    /\ UNCHANGED <<currentMode, queue, recent, endpoints, txBuffer, host, bulkThread, intThread, out>>

-----------------------------------------------------------------------------
(* outputLoop                                                              *)

Pop ==
    /\ out = "pop" /\ queue > 0
    /\ queue' = queue - 1
    /\ out' = "write"
    /\ UNCHANGED <<currentMode, recent, endpoints, answer, host, bulkThread, intThread, tx>>

(* Fault: the comparison with the timeout is the wrong way round.          *)
IdleWhileRecent ==
    /\ out = "pop" /\ queue = 0 /\ recent
    /\ out' = "relinquish"
    /\ UNCHANGED <<currentMode, queue, recent, endpoints, answer, host, bulkThread, intThread, tx>>

Idle ==
    /\ out = "pop" /\ queue = 0 /\ ~recent
    /\ out' = "relinquish"
    /\ UNCHANGED <<currentMode, queue, recent, endpoints, answer, host, bulkThread, intThread, tx>>

OutRelinquish ==
    /\ out = "relinquish"
    /\ out' = IF currentMode = "usb" THEN "store" ELSE "pop"
    /\ UNCHANGED <<currentMode, queue, recent, endpoints, answer, host, bulkThread, intThread, tx>>

OutStore ==
    /\ out = "store"
    /\ currentMode' = "none"
    /\ out' = "pop"
    /\ UNCHANGED <<queue, recent, endpoints, answer, host, bulkThread, intThread, tx>>

Written ==
    /\ out = "write"
    /\ out' = "pop"
    /\ UNCHANGED <<currentMode, queue, recent, endpoints, answer, host, bulkThread, intThread, tx>>

-----------------------------------------------------------------------------
(* The host, the other output modes, and time                              *)

HostAsks(command) ==
    /\ host = "idle" /\ intIn = NoCommand
    /\ intIn' = command
    /\ host' = CASE command = GetStatus -> "status"
                 [] command = GetInfo -> "info"
                 [] OTHER -> "idle"
    /\ UNCHANGED <<currentMode, queue, recent, bulkIn, answer, bulkThread, intThread, tx, out>>

(* The answer may be one to an earlier question.                           *)
HostReads ==
    /\ host \in {"status", "info"} /\ tx = "write"
    /\ host' = IF host = "status" /\ txBuffer = "ready" THEN "ready" ELSE "idle"
    /\ tx' = "written"
    /\ UNCHANGED <<currentMode, queue, recent, endpoints, answer, bulkThread, intThread, out>>

HostGivesUp ==
    /\ host # "idle"
    /\ host' = "idle"
    /\ UNCHANGED <<currentMode, queue, recent, endpoints, answer, bulkThread, intThread, tx, out>>

HostSends(parts) ==
    /\ host = "ready" /\ bulkIn = 0
    /\ bulkIn' = parts
    /\ host' = "idle"
    /\ UNCHANGED <<currentMode, queue, recent, intIn, answer, bulkThread, intThread, tx, out>>

Rival ==
    /\ currentMode' = IF currentMode = "rival" THEN "none" ELSE "rival"
    /\ UNCHANGED <<queue, recent, endpoints, answer, host, bulkThread, intThread, tx, out>>

HalfSecond ==
    /\ recent
    /\ recent' = FALSE
    /\ UNCHANGED <<currentMode, queue, endpoints, answer, host, bulkThread, intThread, tx, out>>

(* lastReception is not initialised.                                       *)
Init ==
    /\ currentMode \in {"none", "rival"}
    /\ queue = 0 /\ recent \in BOOLEAN
    /\ bulkIn = 0 /\ intIn = NoCommand
    /\ txSize = FALSE /\ txBuffer = "info"
    /\ host = "idle"
    /\ bulk = "idle" /\ left = 0
    /\ int = "idle" /\ response = "none"
    /\ tx = "look" /\ out = "pop"

Bulk == BulkRead \/ Request \/ Switch \/ (\E valid \in BOOLEAN : Accept(valid)) \/ Push
Interrupt == HandleStop \/ HandleRequest \/ HandleOther \/ IntRelinquish \/ IntStore \/ Respond
Tx == TxLook \/ TxFails \/ TxReset
Output == Pop \/ Idle \/ OutRelinquish \/ OutStore \/ Written
Host ==
    \/ \E command \in Commands : HostAsks(command)
    \/ HostReads \/ HostGivesUp
    \/ \E parts \in 1 .. MaxParts : HostSends(parts)

Next == Bulk \/ Interrupt \/ Tx \/ Output \/ Host \/ Rival \/ HalfSecond

(* The threads go on, and time does.  The host and the rival may do as     *)
(* they like.                                                              *)
Spec ==
    /\ Init /\ [][Next]_vars
    /\ WF_vars(Bulk) /\ WF_vars(Interrupt) /\ WF_vars(Output) /\ WF_vars(HalfSecond)

-----------------------------------------------------------------------------
(* Every variable has its type.                                            *)
TypeOK ==
    /\ currentMode \in {"none", "usb", "rival"}
    /\ queue \in Nat /\ recent \in BOOLEAN
    /\ bulkIn \in 0 .. MaxParts /\ intIn \in Commands \cup {NoCommand}
    /\ txSize \in BOOLEAN /\ txBuffer \in {"ready", "busy", "info"}
    /\ host \in {"idle", "status", "info", "ready"}
    /\ bulk \in {"idle", "request", "switch", "accept", "push"}
    /\ left \in 0 .. MaxParts
    /\ bulk # "idle" => left > 0
    /\ int \in {"idle", "relinquish", "store", "respond", "retry"}
    /\ response \in {"ready", "busy", "info", "none"}
    /\ tx \in {"look", "write", "written", "end"}
    /\ out \in {"pop", "write", "relinquish", "store"}

(* The queue has no limit of its own.  It is limited all the same because  *)
(* a host sends a frame only after an answer that there is room.  The      *)
(* answer may be older than the last frames, but not than many: there is   *)
(* one frame in the endpoint and one with the thread, and one answer each  *)
(* with the thread, in the buffer and at the host.                         *)
Threshold == IF Enough <= 2 THEN 1 ELSE Enough - 1
QueueBounded == queue <= Threshold + 5 * MaxParts

(* The answer that is being written to the endpoint does not change,       *)
(* though the buffer is guarded by no lock.                                *)
AnswerIntact == [][tx = "write" => txBuffer' = txBuffer]_vars

(* A host that went silent leaves the output to the others, whatever       *)
(* commands it still sends, and however the two threads that give the      *)
(* output up meet the one that asks for it.                                *)
SilentHostReleases == <>[](bulkIn = 0) => <>[](currentMode # "usb")

(* A mode that took the output over is not disturbed for ever: the chunks  *)
(* queued before are written beside it, but no more follow.                *)
RivalUndisturbed == <>[](currentMode = "rival") => <>[](queue = 0 /\ out # "write")

(* HeliosDac::Stop: "Stops output of DAC" - this does not hold: the device *)
(* reads the stop command and its queue plays on.                          *)
StopObeyed == [][intIn = Stop /\ intIn' # Stop => queue' = 0]_vars
=============================================================================
