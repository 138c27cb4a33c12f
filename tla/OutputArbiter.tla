----------------------------- MODULE OutputArbiter -----------------------------
(***************************************************************************)
(* Who plays on the laser: ManagementInterface::requestOutput and          *)
(* relinquishOutput arbitrate between the driver threads of the IDN server *)
(* (HWBridge::driverLoop), the other sources (USB, file player, DMX) and   *)
(* the stop/lock command of the management network thread.                 *)
(*                                                                         *)
(* The current mode is one atomic integer, but a request and a relinquish  *)
(* load it, compare, and store it: two steps, with the LED commands and    *)
(* their child processes in between, and every thread may do the same.     *)
(* The driver loop is modelled in full, the queue of its adapter by the    *)
(* chunk that waits in it (module AdapterQueue has the queue itself).      *)
(***************************************************************************)
EXTENDS Integers, FiniteSets

CONSTANTS
    Drivers,      \* driver threads, one per adapter
    Sources,      \* output modes of the other sources, each its own thread
    Management,   \* the management network thread
    Keyboard,     \* the thread of the buttons of the device
    Priority,     \* modePriority of the settings, by output mode
    MaxSlices     \* bound: slices of a frame or wave buffer

Modes == Sources \cup {"idn", "forcestop"}
Operators == {Management, Keyboard}
Threads == Drivers \cup Sources \cup Operators

ASSUME ThreadsAssumption ==
    /\ Drivers \cap Sources = {}
    /\ Operators \cap (Drivers \cup Sources) = {} /\ Management # Keyboard
    /\ Sources \cap {"none", "nothing", "idn", "forcestop"} = {}

(* Stop/lock has a priority of 100, the settings give the other modes.     *)
ASSUME PriorityAssumption ==
    /\ Priority \in [Modes -> Int]
    /\ Priority["forcestop"] > 0
    /\ \A m \in Modes \ {"forcestop"} : Priority[m] < Priority["forcestop"]

ASSUME SlicesAssumption == MaxSlices \in Nat

VARIABLES
    currentMode,  \* the mode that has the output, or "none"
    pending,      \* the store a thread is about to do in request/relinquish
    locked,       \* the last completed lock command was not followed by an unlock
    pc,           \* driver threads: where in the loop
    driverMode,   \* driverMode of the loop
    slices,       \* size of currentBufPtr
    left,         \* slices left in the rotation through the buffer
    hasStopped,
    enabled,      \* adapter enabled (server context, under the mutex)
    feed          \* chunk that waits in the queue of the adapter

driver == <<pc, driverMode, slices, left, hasStopped>>
vars == <<currentMode, pending, locked, driver, enabled, feed>>

NoStore == "nothing"

(* requestOutput after the load: granted if the mode has the output        *)
(* already, refused without a store if it is disabled or not above the     *)
(* current one, else granted with a store.                                 *)
CurrentPriority == IF currentMode = "none" THEN -1 ELSE Priority[currentMode]
Granted(m) == currentMode = m
(* Fault: the priority of the current mode is not looked at.               *)
RefusedIfDisabled(m) == currentMode # m /\ Priority[m] <= 0

Refused(m) == currentMode # m /\ (Priority[m] <= 0 \/ CurrentPriority >= Priority[m])
Switches(m) == ~Granted(m) /\ ~Refused(m)

(* The store that ends a request or a relinquish.                          *)
StoreMode(t) ==
    /\ pending[t] # NoStore
    /\ currentMode' = pending[t]
    /\ pending' = [pending EXCEPT ![t] = NoStore]

-----------------------------------------------------------------------------
(* The other sources and the management thread.                            *)

(* A source asks for the output or gives it up at any time.                *)
SourceLoad(s) ==
    /\ pending[s] = NoStore
    /\ \/ Switches(s) /\ pending' = [pending EXCEPT ![s] = s]
       \/ currentMode = s /\ pending' = [pending EXCEPT ![s] = "none"]
    /\ UNCHANGED <<currentMode, locked, driver, enabled, feed>>

SourceStore(s) ==
    /\ StoreMode(s)
    /\ UNCHANGED <<locked, driver, enabled, feed>>

(* Command 0xF0 "Stop/lock output, can be used as emergency stop"          *)
LockLoad ==
    /\ pending[Management] = NoStore
    /\ IF Switches("forcestop")
       THEN pending' = [pending EXCEPT ![Management] = "forcestop"] /\ UNCHANGED locked
       ELSE locked' = TRUE /\ UNCHANGED pending
    /\ UNCHANGED <<currentMode, driver, enabled, feed>>

(* Command 0xF1 "Unlock output", or the enter button                       *)
(* (emitEnterButtonPressed).  The lock is over when the unlock begins.     *)
UnlockLoad(t) ==
    /\ pending[t] = NoStore
    /\ locked' = FALSE
    /\ pending' = [pending EXCEPT ![t] =
                     IF currentMode = "forcestop" THEN "none" ELSE NoStore]
    /\ UNCHANGED <<currentMode, driver, enabled, feed>>

OperatorStore(t) ==
    /\ StoreMode(t)
    /\ locked' = (locked \/ pending[t] = "forcestop")
    /\ UNCHANGED <<driver, enabled, feed>>

-----------------------------------------------------------------------------
(* The server side of the adapters.                                        *)

Enable(d) ==
    /\ ~enabled[d]
    /\ enabled' = [enabled EXCEPT ![d] = TRUE]
    /\ UNCHANGED <<currentMode, pending, locked, driver, feed>>

Put(d, chunk) ==
    /\ enabled[d]
    /\ feed[d] = "empty"
    /\ feed' = [feed EXCEPT ![d] = chunk]
    /\ UNCHANGED <<currentMode, pending, locked, driver, enabled>>

(* The graceful stop, only with an empty queue.                            *)
Disable(d) ==
    /\ enabled[d]
    /\ feed[d] = "empty"
    /\ enabled' = [enabled EXCEPT ![d] = FALSE]
    /\ UNCHANGED <<currentMode, pending, locked, driver, feed>>

-----------------------------------------------------------------------------
(* HWBridge::driverLoop                                                    *)

(* getNextBuffer returns slices: frame mode has at least one, wave mode    *)
(* commits a slice only when it is full.                                   *)
FetchSlices(d, n) ==
    /\ pc[d] = "fetch"
    /\ feed[d] # "empty"
    /\ n > 0
    /\ driverMode' = [driverMode EXCEPT ![d] = feed[d]]
    /\ feed' = [feed EXCEPT ![d] = "empty"]
    /\ slices' = [slices EXCEPT ![d] = n]
    /\ left' = [left EXCEPT ![d] = n]
    /\ pc' = [pc EXCEPT ![d] = "rotate"]
    /\ UNCHANGED <<currentMode, pending, locked, hasStopped, enabled>>

(* The samples do not fill a slice yet: underrun.                          *)
FetchPartial(d) ==
    /\ pc[d] = "fetch"
    /\ feed[d] = "wave"
    /\ driverMode' = [driverMode EXCEPT ![d] = "wave"]
    /\ feed' = [feed EXCEPT ![d] = "empty"]
    /\ UNCHANGED <<currentMode, pending, locked, pc, slices, left, hasStopped, enabled>>

(* Fault: an inactive driver keeps the output.                             *)
FetchDisabledQuietly(d) ==
    /\ pc[d] = "fetch"
    /\ feed[d] = "empty"
    /\ ~enabled[d]
    /\ driverMode' = [driverMode EXCEPT ![d] = "inactive"]
    /\ UNCHANGED <<currentMode, pending, locked, pc, slices, left, hasStopped,
                   enabled, feed>>

(* The queue is empty and the adapter not enabled: the driver goes         *)
(* inactive and, once, gives up the output.                                *)
FetchDisabled(d) ==
    /\ pc[d] = "fetch"
    /\ feed[d] = "empty"
    /\ ~enabled[d]
    /\ driverMode' = [driverMode EXCEPT ![d] = "inactive"]
    /\ pc' = [pc EXCEPT ![d] = IF hasStopped[d] THEN "fetch" ELSE "relinquish"]
    /\ UNCHANGED <<currentMode, pending, locked, slices, left, hasStopped, enabled, feed>>

(* Nothing new in frame mode: the frame is repeated.  (In the other modes  *)
(* an enabled driver with an empty queue sleeps, and inactive is what it   *)
(* was before the adapter was enabled.)                                    *)
FetchRepeat(d) ==
    /\ pc[d] = "fetch"
    /\ feed[d] = "empty"
    /\ enabled[d]
    /\ driverMode[d] = "frame"
    /\ left' = [left EXCEPT ![d] = slices[d]]
    /\ pc' = [pc EXCEPT ![d] = "rotate"]
    /\ UNCHANGED <<currentMode, pending, locked, driverMode, slices, hasStopped,
                   enabled, feed>>

RelinquishLoad(d) ==
    /\ pc[d] = "relinquish"
    /\ IF currentMode = "idn"
       THEN /\ pending' = [pending EXCEPT ![d] = "none"]
            /\ pc' = [pc EXCEPT ![d] = "relinquishing"]
            /\ UNCHANGED hasStopped
       ELSE /\ pc' = [pc EXCEPT ![d] = "fetch"]
            /\ hasStopped' = [hasStopped EXCEPT ![d] = TRUE]
            /\ UNCHANGED pending
    /\ UNCHANGED <<currentMode, locked, driverMode, slices, left, enabled, feed>>

RelinquishStore(d) ==
    /\ pc[d] = "relinquishing"
    /\ StoreMode(d)
    /\ pc' = [pc EXCEPT ![d] = "fetch"]
    /\ hasStopped' = [hasStopped EXCEPT ![d] = TRUE]
    /\ UNCHANGED <<locked, driverMode, slices, left, enabled, feed>>

(* The rotation is done.                                                   *)
Rotated(d) ==
    /\ pc[d] = "rotate"
    /\ left[d] = 0
    /\ pc' = [pc EXCEPT ![d] = "fetch"]
    /\ UNCHANGED <<currentMode, pending, locked, driverMode, slices, left,
                   hasStopped, enabled, feed>>

(* The next slice is taken out of the buffer before the output is asked    *)
(* for; refused, the slice is dropped, in frame mode as well.              *)
TakeSlice(d) ==
    /\ pc[d] = "rotate"
    /\ left[d] > 0
    /\ slices' = [slices EXCEPT ![d] = @ - 1]
    /\ left' = [left EXCEPT ![d] = @ - 1]
    /\ IF Switches("idn")
       THEN /\ pending' = [pending EXCEPT ![d] = "idn"]
            /\ pc' = [pc EXCEPT ![d] = "requesting"]
       ELSE /\ pc' = [pc EXCEPT ![d] = IF Granted("idn") THEN "write" ELSE "rotate"]
            /\ UNCHANGED pending
    /\ UNCHANGED <<currentMode, locked, driverMode, hasStopped, enabled, feed>>

RequestStore(d) ==
    /\ pc[d] = "requesting"
    /\ StoreMode(d)
    /\ pc' = [pc EXCEPT ![d] = "write"]
    /\ UNCHANGED <<locked, driverMode, slices, left, hasStopped, enabled, feed>>

(* Faults: the claim of the output is forgotten, a slice is put back twice. *)
WriteSliceForgetting(d) ==
    /\ pc[d] = "write"
    /\ slices' = [slices EXCEPT ![d] = IF driverMode[d] = "frame" THEN @ + 1 ELSE @]
    /\ pc' = [pc EXCEPT ![d] = "rotate"]
    /\ UNCHANGED <<currentMode, pending, locked, driverMode, left, hasStopped,
                   enabled, feed>>

(* The slice is written, and in frame mode put back for the next rotation. *)
WriteSlice(d) ==
    /\ pc[d] = "write"
    /\ hasStopped' = [hasStopped EXCEPT ![d] = FALSE]
    /\ slices' = [slices EXCEPT ![d] = IF driverMode[d] = "frame" THEN @ + 1 ELSE @]
    /\ pc' = [pc EXCEPT ![d] = "rotate"]
    /\ UNCHANGED <<currentMode, pending, locked, driverMode, left, enabled, feed>>

-----------------------------------------------------------------------------
Init ==
    /\ currentMode = "none"
    /\ pending = [t \in Threads |-> NoStore]
    /\ locked = FALSE
    /\ pc = [d \in Drivers |-> "fetch"]
    /\ driverMode = [d \in Drivers |-> "inactive"]
    /\ slices = [d \in Drivers |-> 0]
    /\ left = [d \in Drivers |-> 0]
    /\ hasStopped = [d \in Drivers |-> TRUE]
    /\ enabled = [d \in Drivers |-> FALSE]
    /\ feed = [d \in Drivers |-> "empty"]

Driver(d) ==
    \/ \E n \in 1 .. MaxSlices : FetchSlices(d, n)
    \/ FetchPartial(d)
    \/ FetchDisabled(d)
    \/ FetchRepeat(d)
    \/ RelinquishLoad(d) \/ RelinquishStore(d)
    \/ Rotated(d) \/ TakeSlice(d) \/ RequestStore(d) \/ WriteSlice(d)

Next ==
    \/ \E s \in Sources : SourceLoad(s) \/ SourceStore(s)
    \/ LockLoad
    \/ \E t \in Operators : UnlockLoad(t) \/ OperatorStore(t)
    \/ \E d \in Drivers :
          \/ Enable(d) \/ Disable(d)
          \/ \E chunk \in {"frame", "wave"} : Put(d, chunk)
          \/ Driver(d)

(* The driver loops never end; a call that began comes to its end.         *)
Fairness ==
    /\ \A d \in Drivers : WF_vars(Driver(d))
    /\ \A s \in Sources : WF_vars(SourceStore(s))
    /\ \A t \in Operators : WF_vars(OperatorStore(t))

Spec == Init /\ [][Next]_vars /\ Fairness

-----------------------------------------------------------------------------
(* Properties.                                                             *)

DriverPCs == {"fetch", "relinquish", "relinquishing", "rotate", "requesting", "write"}

(* Every variable has its type; a driver rotates only what it has.         *)
TypeOK ==
    /\ currentMode \in Modes \cup {"none"}
    /\ pending \in [Threads -> Modes \cup {"none", NoStore}]
    /\ locked \in BOOLEAN
    /\ pc \in [Drivers -> DriverPCs]
    /\ driverMode \in [Drivers -> {"inactive", "frame", "wave"}]
    /\ slices \in [Drivers -> 0 .. MaxSlices]
    /\ left \in [Drivers -> 0 .. MaxSlices]
    /\ hasStopped \in [Drivers -> BOOLEAN]
    /\ enabled \in [Drivers -> BOOLEAN]
    /\ feed \in [Drivers -> {"empty", "frame", "wave"}]

Quiet == \A t \in Threads : pending[t] = NoStore
Writing(d) == pc[d] = "write"

(* The lock holds once every thread is out of its requests: from then on   *)
(* only an unlock prepares to end it, and no driver that was not already   *)
(* at its writing step gets to write a slice.                              *)
LockSticks ==
    [][(currentMode = "forcestop" /\ Quiet) =>
          /\ currentMode' = "forcestop"
          /\ \A t \in Threads : pending[t]' # NoStore => t \in Operators /\ ~locked'
          /\ \A d \in Drivers : Writing(d)' => Writing(d)]_vars

(* A driver thread that has written a slice and went inactive gives up the *)
(* output: when all adapters stay stopped, the IDN mode does not keep the  *)
(* output from the sources below it, whatever calls were in flight.        *)
IdleReleases ==
    <>[](\A d \in Drivers : ~enabled[d]) => <>[](currentMode # "idn")

(* A driver that has left the inactive mode with the output still claimed  *)
(* for it remembers that it has to give it up.                             *)
ClaimRemembered ==
    currentMode = "idn" =>
        \E d \in Drivers : ~hasStopped[d] \/ pc[d] = "write"

(* ManagementInterface.cpp, command 0xF0: "Stop/lock output, can be used   *)
(* as emergency stop" - once the command is done the output is locked, and *)
(* stays so until the unlock command.                                      *)
EmergencyStop == locked => currentMode = "forcestop"
=============================================================================
