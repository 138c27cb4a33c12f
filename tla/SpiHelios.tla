------------------------------ MODULE SpiHelios ------------------------------
(***************************************************************************)
(* The kernel driver of the Helios PRO buffer chip, and the adapter that   *)
(* writes frames to it.                                                    *)
(*                                                                         *)
(* The driver has two buffers.  A writer fills the new one, a kernel       *)
(* thread swaps the two and transfers the other one over SPI once the      *)
(* status line of the chip (the MCU) is high.  newFrameReady tells each    *)
(* side whose turn it is; it is atomic and read without the mutex.  The    *)
(* adapter has no lock of its own, and the threads of all output modes     *)
(* write through it, hence Writers.                                        *)
(*                                                                         *)
(* A thread in wait_event looks at its condition and falls asleep if it    *)
(* does not hold, in one step; it looks again when it is woken.            *)
(***************************************************************************)
EXTENDS Integers

CONSTANTS
    Writers,    \* threads that call writeFrame
    Worker,     \* the kernel thread
    Resetter,   \* a process that writes the reset command
    MaxChunks,  \* bound: chunks of a frame
    None

Procs == Writers \cup {Worker, Resetter}
Slots == {1, 2}
Marks == {"empty", "torn", "broken", "sent"}

ASSUME SpiAssumption ==
    /\ Worker # Resetter /\ {Worker, Resetter} \cap Writers = {}
    /\ None \notin Procs /\ Writers \cap Marks = {}
    /\ MaxChunks \in Nat

VARIABLES
    stop,
    newFrameReady,
    frameBuffer,  \* the slot the worker transfers; the other is newFrameBuffer
    data,         \* what a slot holds: a mark, or the writer of a frame not yet transferred;
                  \* "torn" while a writer copies, "broken" where its copy failed
    lock,         \* the thread that holds the mutex
    status,       \* the status line of the MCU
    asleep,       \* the threads asleep in wait_event
    left,         \* chunks a writer has still to write
    pc,
    removal       \* my_spi_remove: no, begun, waiting, done

device == <<newFrameReady, frameBuffer, data>>
vars == <<stop, device, lock, status, asleep, left, pc, removal>>

newFrameBuffer == 3 - frameBuffer
Goto(t, label) == pc' = [pc EXCEPT ![t] = label]

(* newFrameWaitQueue holds all sleepers but a worker that waits for the    *)
(* status line.                                                            *)
StatusSleepers == IF pc[Worker] = "status" THEN {Worker} ELSE {}
WakeNewFrame == asleep' = asleep \cap StatusSleepers
WakeStatus == asleep' = asleep \ StatusSleepers

(* wait_event: go on, or sleep until woken.                                *)
WaitEvent(t, condition, label) ==
    /\ t \notin asleep
    /\ IF condition
       THEN Goto(t, label) /\ UNCHANGED asleep
       ELSE asleep' = asleep \cup {t} /\ UNCHANGED pc

-----------------------------------------------------------------------------
(* The kernel thread                                                       *)

AwaitFrame ==
    /\ pc[Worker] = "wait"
    /\ WaitEvent(Worker, newFrameReady \/ stop, IF stop THEN "done" ELSE "status")
    /\ UNCHANGED <<stop, device, lock, status, left, removal>>

AwaitStatus ==
    /\ pc[Worker] = "status"
    /\ WaitEvent(Worker, status \/ stop, "check")
    /\ UNCHANGED <<stop, device, lock, status, left, removal>>

(* "Timeout, something has gone very wrong in the mcu"                     *)
StatusTimeout ==
    /\ pc[Worker] = "status" /\ Worker \in asleep
    /\ ~status /\ ~stop
    /\ Goto(Worker, "resetLock")
    /\ asleep' = asleep \ {Worker}
    /\ UNCHANGED <<stop, device, lock, status, left, removal>>

Check ==
    /\ pc[Worker] = "check"
    /\ Goto(Worker, CASE stop -> "done"
                      [] ~stop /\ newFrameReady -> "swap"
                      [] OTHER -> "wait")
    /\ UNCHANGED <<stop, device, lock, status, asleep, left, removal>>

(* Fault: the flag is left to the writers.                                 *)
SwapKeepsReady ==
    /\ pc[Worker] = "swap"
    /\ lock = None
    /\ frameBuffer' = newFrameBuffer
    /\ WakeNewFrame
    /\ Goto(Worker, "send")
    /\ UNCHANGED <<stop, newFrameReady, data, lock, status, left, removal>>

Swap ==
    /\ pc[Worker] = "swap"
    /\ lock = None
    /\ frameBuffer' = newFrameBuffer
    /\ newFrameReady' = FALSE
    /\ WakeNewFrame
    /\ Goto(Worker, "send")
    /\ UNCHANGED <<stop, data, lock, status, left, removal>>

(* spi_write ends.  The MCU lowers the line when it has no more room.      *)
Sent ==
    /\ pc[Worker] = "send"
    /\ data' = [data EXCEPT ![frameBuffer] = "sent"]
    /\ status' \in {status, FALSE}
    /\ Goto(Worker, "wait")
    /\ UNCHANGED <<stop, newFrameReady, frameBuffer, lock, asleep, left, removal>>

-----------------------------------------------------------------------------
(* reset_mcu, called by the worker and by the reset command                *)

ResetBegin(t) ==
    /\ pc[t] = "resetLock"
    /\ lock = None
    /\ lock' = t
    /\ status' = FALSE
    /\ Goto(t, "reset")
    /\ UNCHANGED <<stop, device, asleep, left, removal>>

(* The worker goes on with or without success.  The command wakes all.     *)
Return(t) ==
    /\ Goto(t, IF t = Worker THEN "wait" ELSE "idle")
    /\ IF t = Resetter THEN WakeNewFrame ELSE UNCHANGED asleep
    /\ UNCHANGED <<stop, device, status, left, removal>>

(* The line is high again, or the polling gives up.                        *)
ResetEnd(t) ==
    /\ pc[t] = "reset"
    /\ lock' = None
    /\ Return(t)

(* The reset line cannot be set, or the wait for the mutex is interrupted. *)
ResetFails(t) ==
    /\ pc[t] = "resetLock"
    /\ lock = None \/ t = Resetter
    /\ Return(t)
    /\ UNCHANGED lock

ResetCommand ==
    /\ pc[Resetter] = "idle"
    /\ ~stop
    /\ Goto(Resetter, "discard")
    /\ UNCHANGED <<stop, device, lock, status, asleep, left, removal>>

Discard ==
    /\ pc[Resetter] = "discard"
    /\ lock = None
    /\ newFrameReady' = FALSE
    /\ Goto(Resetter, "resetLock")
    /\ UNCHANGED <<stop, frameBuffer, data, lock, status, asleep, left, removal>>

-----------------------------------------------------------------------------
(* HeliosProAdapter::writeFrame: one write for each chunk                  *)

WriteFrame(w) ==
    /\ pc[w] = "idle"
    /\ \E n \in 1 .. MaxChunks : left' = [left EXCEPT ![w] = n]
    /\ Goto(w, "wait")
    /\ UNCHANGED <<stop, device, lock, status, asleep, removal>>

(* Fault: a writer does not wait for its turn.                             *)
AwaitNothing(w) ==
    /\ pc[w] = "wait"
    /\ WaitEvent(w, TRUE, IF stop THEN "idle" ELSE "copyLock")
    /\ UNCHANGED <<stop, device, lock, status, left, removal>>

AwaitTurn(w) ==
    /\ pc[w] = "wait"
    /\ WaitEvent(w, ~newFrameReady \/ stop, IF stop THEN "idle" ELSE "copyLock")
    /\ UNCHANGED <<stop, device, lock, status, left, removal>>

(* A write that fails ends writeFrame.                                     *)
GiveUp(w) == Goto(w, "idle") /\ left' = [left EXCEPT ![w] = 0]

(* -ERESTARTSYS                                                            *)
Interrupted(w) ==
    /\ pc[w] = "wait" /\ w \in asleep
    /\ asleep' = asleep \ {w}
    /\ GiveUp(w)
    /\ UNCHANGED <<stop, device, lock, status, removal>>

(* -EFAULT before anything is copied: the wait for the mutex is            *)
(* interrupted, or the first byte cannot be read.                          *)
NotCopied(w) ==
    /\ pc[w] = "copyLock"
    /\ GiveUp(w)
    /\ UNCHANGED <<stop, device, lock, status, asleep, removal>>

(* copy_from_user, from its first byte to its last                         *)
CopyBegin(w) ==
    /\ pc[w] = "copyLock"
    /\ lock = None
    /\ lock' = w
    /\ data' = [data EXCEPT ![newFrameBuffer] = "torn"]
    /\ Goto(w, "copy")
    /\ UNCHANGED <<stop, newFrameReady, frameBuffer, status, asleep, left, removal>>

Copied(w) ==
    /\ data' = [data EXCEPT ![newFrameBuffer] = w]
    /\ newFrameReady' = TRUE
    /\ lock' = None
    /\ left' = [left EXCEPT ![w] = @ - 1]
    /\ Goto(w, IF left[w] > 1 THEN "wait" ELSE "idle")
    /\ UNCHANGED <<stop, frameBuffer, status, removal>>

(* Fault: the worker is not woken.                                         *)
CopyEndSilent(w) == pc[w] = "copy" /\ Copied(w) /\ UNCHANGED asleep

CopyEnd(w) == pc[w] = "copy" /\ Copied(w) /\ WakeNewFrame

(* -EFAULT in the middle: the buffer is left half overwritten, the flag as *)
(* it was, and nobody is woken.  The adapter gives the frame up.           *)
CopyFails(w) ==
    /\ pc[w] = "copy"
    /\ data' = [data EXCEPT ![newFrameBuffer] = "broken"]
    /\ lock' = None
    /\ GiveUp(w)
    /\ UNCHANGED <<stop, newFrameReady, frameBuffer, status, asleep, removal>>

-----------------------------------------------------------------------------
(* The status line, and the removal of the driver                          *)

(* bufferstatus_isr wakes the worker, until the interrupt is freed.        *)
StatusRises ==
    /\ ~status
    /\ status' = TRUE
    /\ IF removal \in {"no", "begun"} THEN WakeStatus ELSE UNCHANGED asleep
    /\ UNCHANGED <<stop, device, lock, left, pc, removal>>

RemoveBegin ==
    /\ removal = "no"
    /\ removal' = "begun"
    /\ stop' = TRUE
    /\ UNCHANGED <<device, lock, status, asleep, left, pc>>

(* Fault: kthread_stop is relied upon to wake.                             *)
RemoveWakeWorker ==
    /\ removal = "begun"
    /\ removal' = "waiting"
    /\ asleep' = asleep \ {Worker}
    /\ UNCHANGED <<stop, device, lock, status, left, pc>>

(* Both queues, and kthread_stop the worker, wherever it sleeps.           *)
RemoveWake ==
    /\ removal = "begun"
    /\ removal' = "waiting"
    /\ asleep' = {}
    /\ UNCHANGED <<stop, device, lock, status, left, pc>>

(* kthread_stop returns.                                                   *)
RemoveEnd ==
    /\ removal = "waiting"
    /\ pc[Worker] = "done"
    /\ removal' = "done"
    /\ UNCHANGED <<stop, device, lock, status, asleep, left, pc>>

Init ==
    /\ stop = FALSE
    /\ newFrameReady = FALSE
    /\ frameBuffer = 2
    /\ data = [s \in Slots |-> "empty"]
    /\ lock = None
    /\ status \in BOOLEAN
    /\ asleep = {}
    /\ left = [w \in Writers |-> 0]
    /\ pc = [t \in Procs |-> IF t = Worker THEN "wait" ELSE "idle"]
    /\ removal = "no"

Work == AwaitFrame \/ AwaitStatus \/ StatusTimeout \/ Check \/ Swap \/ Sent
Reset(t) == ResetBegin(t) \/ ResetEnd(t) \/ ResetFails(t)
Write(w) == AwaitTurn(w) \/ NotCopied(w) \/ CopyBegin(w) \/ CopyEnd(w) \/ CopyFails(w)
Remove == RemoveWake \/ RemoveEnd

Next ==
    \/ Work \/ Reset(Worker)
    \/ ResetCommand \/ Discard \/ Reset(Resetter)
    \/ \E w \in Writers : WriteFrame(w) \/ Write(w) \/ Interrupted(w)
    \/ StatusRises \/ RemoveBegin \/ Remove

(* Threads go on.  The MCU need not raise its line by itself, but not all  *)
(* attempts to reset it fail, and of its resets one will bring it back,    *)
(* within the time of the polling.                                         *)
Fairness ==
    /\ WF_vars(Work) /\ WF_vars(Remove)
    /\ WF_vars(Reset(Worker)) /\ WF_vars(Discard \/ Reset(Resetter))
    /\ \A w \in Writers : WF_vars(Write(w))
    /\ SF_vars(ResetBegin(Worker)) /\ SF_vars(pc[Worker] = "reset" /\ StatusRises)

Spec == Init /\ [][Next]_vars /\ Fairness

-----------------------------------------------------------------------------
(* Every variable has its type.                                            *)
TypeOK ==
    /\ stop \in BOOLEAN /\ newFrameReady \in BOOLEAN /\ status \in BOOLEAN
    /\ frameBuffer \in Slots
    /\ data \in [Slots -> Writers \cup Marks]
    /\ lock \in Procs \cup {None}
    /\ asleep \subseteq Procs
    /\ left \in [Writers -> 0 .. MaxChunks]
    /\ pc \in [Procs -> {"idle", "wait", "status", "check", "swap", "send", "done",
                         "discard", "resetLock", "reset", "copyLock", "copy"}]
    /\ removal \in {"no", "begun", "waiting", "done"}

(* The transfer runs without the mutex, while writers copy and the reset   *)
(* command discards: still the MCU never gets a buffer that a writer is    *)
(* copying into, nor one it got before, nor an empty one.  What it gets is *)
(* a whole frame, unless a copy into that buffer failed.                   *)
TransferFresh == pc[Worker] = "send" => data[frameBuffer] \in Writers \cup {"broken"}

(* The write returned its count, so the chunk goes to the MCU: a thread    *)
(* does not write over a chunk of its own that still waits.  (Two threads  *)
(* that found the buffer free at the same time do write over each other.)  *)
OwnChunkKept ==
    \A w \in Writers :
        pc[w] \in {"copyLock", "copy"} =>
            ~(newFrameReady /\ data[newFrameBuffer] = w)

(* A frame that is ready is taken over or discarded, by whatever way the   *)
(* worker, the status line, the reset and other writers go on: no wake-up  *)
(* is lost.                                                                *)
FramesLeave == newFrameReady ~> (~newFrameReady \/ stop)

(* The removal does not hang on the worker, wherever it waits, and no      *)
(* thread is left behind asleep.                                           *)
RemovalEnds == stop ~> (removal = "done" /\ asleep = {})
=============================================================================
