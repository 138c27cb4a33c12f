------------------------------ MODULE HeliosUsb ------------------------------
(***************************************************************************)
(* The Helios USB DACs: the list of devices of the SDK (HeliosDac), its    *)
(* rescan, the two references of HeliosAdapter, and the two drivers that   *)
(* write frames through them.                                              *)
(*                                                                         *)
(* A client that asks for the service map lets the network thread rescan   *)
(* the bus: it closes what does not answer, opens what is new, puts a DAC  *)
(* that came back into its old slot and refreshes the references.  The     *)
(* drivers go on meanwhile: they load their reference, look up the device  *)
(* and use it after they gave back the lock of the list.                   *)
(*                                                                         *)
(* A DAC has a port and a name of its own.  An object of the list stands   *)
(* for one plugging of a DAC: its handle is of no use once the DAC is      *)
(* unplugged.  A DAC on the bus may fail to answer at any time: it is late *)
(* (16 or 32 ms), or answers something else.                               *)
(***************************************************************************)
EXTENDS Integers, Sequences, FiniteSets

CONSTANTS
    Dacs,
    Deep,        \* the DACs behind a hub, whose port numbers are longer
    Players,     \* the drivers that have something to play
    MaxPlugs,    \* bound: how often DACs are plugged in
    ErrorLimit,  \* errorLimitResetValue
    None

Drivers == {1, 2}   \* adapters with the ids 0 and 1; the others use no reference

ASSUME UsbAssumption ==
    /\ Players \subseteq Drivers
    /\ Deep \subseteq Dacs /\ None \notin Dacs
    /\ IsFiniteSet(Dacs)
    /\ MaxPlugs \in Nat /\ Cardinality(Dacs) <= MaxPlugs
    /\ ErrorLimit \in Nat \ {0}

VARIABLES
    plugged,     \* the DACs on the bus
    plugs,       \* how often a DAC was plugged in
    plug,        \* which time it was for each
    deviceList,
    ref,         \* indexFirstDevice, indexSecondDevice; 0 for -1
    drv,         \* each driver: its place, heliosId, and the device it has a pointer to
    net          \* the network thread in the rescan

bus == <<plugged, plugs, plug>>
vars == <<bus, deviceList, ref, drv, net>>

Plugging == [dac : Dacs, plug : 1 .. MaxPlugs]
Of(object) == [dac |-> object.dac, plug |-> object.plug]
Attached(x) == x.dac \in plugged /\ plug[x.dac] = x.plug

Opened(x, isNamed) ==
    [dac |-> x.dac, plug |-> x.plug, closed |-> FALSE, named |-> isNamed,
     recent |-> FALSE, errors |-> ErrorLimit]

Slots == DOMAIN deviceList
SlotOf(x) == {j \in Slots : Of(deviceList[j]) = x}

(* An object that was destroyed still says closed, if it says anything.    *)
IsClosed(x) == \A j \in SlotOf(x) : deviceList[j].closed

-----------------------------------------------------------------------------
(* HeliosAdapter::writeFrame                                               *)

At(k, label) == drv[k].pc = label
Idle == [pc |-> "idle", heliosId |-> 0, dev |-> None]
Return(k) == drv' = [drv EXCEPT ![k] = Idle]
Goto(k, label) == drv' = [drv EXCEPT ![k].pc = label, ![k].dev = None]
Forget(k) == ref' = [ref EXCEPT ![k] = 0]

WriteFrame(k) ==
    /\ At(k, "idle")
    /\ ref[k] # 0
    /\ drv' = [drv EXCEPT ![k] = [pc |-> "status", heliosId |-> ref[k], dev |-> None]]
    /\ UNCHANGED <<bus, deviceList, ref, net>>

(* GetStatus and WriteFrame of HeliosDac: the device is looked up under    *)
(* the lock and used after it.                                             *)
LookUp(k) ==
    /\ drv[k].pc \in {"status", "write"}
    /\ drv' = [drv EXCEPT ![k].pc = IF @ = "status" THEN "asking" ELSE "sending",
                          ![k].dev = Of(deviceList[drv[k].heliosId])]
    /\ UNCHANGED <<bus, deviceList, ref, net>>

(* Nobody looks at the counts of a closed device again.                    *)
Close(o) == [o EXCEPT !.closed = TRUE, !.recent = FALSE, !.errors = 0]

CountError(o) == IF o.errors > 1 THEN [o EXCEPT !.errors = @ - 1] ELSE Close(o)

(* HeliosDacUsbDevice::GetStatus: closed, an error that counts, or an      *)
(* answer: ready, not yet, or a wrong one, which does not count.           *)
Status(k) ==
    LET dev == drv[k].dev IN
    /\ At(k, "asking")
    /\ \/ /\ IsClosed(dev)
          /\ Forget(k)
          /\ Goto(k, "write")
          /\ UNCHANGED deviceList
       \/ /\ ~IsClosed(dev)
          /\ deviceList' = [j \in Slots |-> IF j \in SlotOf(dev) THEN CountError(deviceList[j])
                                                               ELSE deviceList[j]]
          /\ Goto(k, "write")
          /\ UNCHANGED ref
       \/ /\ ~IsClosed(dev) /\ Attached(dev)
          /\ \E label \in {"status", "write"} : Goto(k, label)
          /\ UNCHANGED <<deviceList, ref>>
    /\ UNCHANGED <<bus, net>>

(* HeliosDacUsbDevice::SendFrame up to the transfer                        *)
SendFrame(k) ==
    LET dev == drv[k].dev IN
    /\ At(k, "sending")
    /\ IF IsClosed(dev)
       THEN Forget(k) /\ Return(k) /\ UNCHANGED deviceList
       ELSE /\ deviceList' = [j \in Slots |-> IF j \in SlotOf(dev)
                                             THEN [deviceList[j] EXCEPT !.recent = TRUE]
                                             ELSE deviceList[j]]
            /\ drv' = [drv EXCEPT ![k].pc = "transfer"]
            /\ UNCHANGED ref
    /\ UNCHANGED <<bus, net>>

(* The bulk transfer; its error leaves everything as it is.                *)
DoFrame(k) ==
    /\ At(k, "transfer")
    /\ Return(k)
    /\ IF IsClosed(drv[k].dev) THEN Forget(k) ELSE UNCHANGED ref
    /\ UNCHANGED <<bus, deviceList, net>>

(* 500 ms without a frame                                                  *)
RecentExpires(j) ==
    /\ j \in Slots
    /\ deviceList[j].recent
    /\ deviceList' = [deviceList EXCEPT ![j].recent = FALSE]
    /\ UNCHANGED <<bus, ref, drv, net>>

-----------------------------------------------------------------------------
(* _OpenUsbDevices(true)                                                   *)

(* GetStatus of the scan has no second try.                                *)
Spared(o) == o.closed \/ o.recent

Verify ==
    /\ net.pc = "verify" /\ net.i \in Slots
    /\ net' = [net EXCEPT !.i = @ + 1]
    /\ \/ /\ Spared(deviceList[net.i]) \/ Attached(deviceList[net.i])
          /\ UNCHANGED deviceList
       \/ /\ ~Spared(deviceList[net.i])
          /\ deviceList' = [deviceList EXCEPT ![net.i] = Close(@)]
    /\ UNCHANGED <<bus, ref, drv>>

Enumerate ==
    /\ net.pc = "verify" /\ net.i \notin Slots
    /\ net' = [net EXCEPT !.pc = "open", !.i = 1,
                          !.devs = {[dac |-> d, plug |-> plug[d]] : d \in plugged}]
    /\ UNCHANGED <<bus, deviceList, ref, drv>>

(* Port numbers are only compared when they are equally long.              *)
SamePort(d, e) == (d \in Deep) = (e \in Deep) => d = e
AlreadyOpened(x) ==
    \E j \in Slots : ~deviceList[j].closed /\ SamePort(x.dac, deviceList[j].dac)

(* The interface is claimed by the object of this plugging, even a closed  *)
(* one, until it is destroyed.                                             *)
Openable(x) == Attached(x) /\ SlotOf(x) = {}

Open ==
    /\ net.pc = "open"
    /\ \E x \in net.devs :
          net' = IF AlreadyOpened(x) \/ ~Openable(x)
                 THEN [net EXCEPT !.devs = @ \ {x}]
                 ELSE [net EXCEPT !.devs = @ \ {x}, !.pc = "insert", !.opening = x]
    /\ UNCHANGED <<bus, deviceList, ref, drv>>

Closed == {j \in Slots : deviceList[j].closed}

(* The closed devices in whose turn the new device tells its name.  It is  *)
(* asked for each of them, and each time it may fail.                      *)
Answers(x) == IF Attached(x) THEN SUBSET Closed ELSE {{}}

(* Its name is that of the closed device j; two that were not read are     *)
(* equal.                                                                  *)
SameName(x, answered, j) ==
    /\ deviceList[j].named = (j \in answered)
    /\ deviceList[j].named => deviceList[j].dac = x.dac

(* Fault: the first closed device gives its slot, whatever its name.       *)
KnownByOrder(x, answered) == Closed

(* The first closed device of that name gives its slot, if there is one.   *)
Known(x, answered) == {j \in Closed : SameName(x, answered, j)}

InsertDevice(x, answered) ==
    LET known == Known(x, answered) IN
    \/ /\ known = {}
       /\ deviceList' = Append(deviceList, Opened(x, answered # {}))
    \/ \E j \in known :
          /\ \A k \in known : j <= k
          /\ deviceList' = [deviceList EXCEPT ![j] = Opened(x, \E k \in answered : k <= j)]

Insert ==
    /\ net.pc = "insert"
    /\ \E answered \in Answers(net.opening) : InsertDevice(net.opening, answered)
    /\ net' = [net EXCEPT !.pc = "open", !.opening = None]
    /\ UNCHANGED <<bus, ref, drv>>

-----------------------------------------------------------------------------
(* refreshDacReferences                                                    *)


Cleaned ==
    [k \in Drivers |-> IF ref[k] \in Slots /\ ~deviceList[ref[k]].closed
                       THEN ref[k] ELSE 0]

Clean ==
    /\ net.pc = "open" /\ net.devs = {}
    /\ net' = [net EXCEPT !.pc = "add"]
    /\ ref' = Cleaned
    /\ UNCHANGED <<bus, deviceList, drv>>

(* Fault: the first reference does not look at the second.                 *)
TakerAlone(i) ==
    CASE ref[1] = 0 -> 1
      [] ref[1] # 0 /\ ref[2] = 0 /\ ref[1] # i -> 2
      [] OTHER -> 0

(* The reference that device i is for                                      *)
Taker(i) ==
    CASE ref[1] = 0 /\ ref[2] # i -> 1
      [] ~(ref[1] = 0 /\ ref[2] # i) /\ ref[2] = 0 /\ ref[1] # i -> 2
      [] OTHER -> 0

(* A reference is given to the device, which is then asked for its name.   *)
Add ==
    LET i == net.i IN
    /\ net.pc = "add" /\ i \in Slots
    /\ IF Taker(i) # 0 /\ ~deviceList[i].closed
       THEN /\ ref' = [ref EXCEPT ![Taker(i)] = i]
            /\ net' = [net EXCEPT !.pc = "name"]
       ELSE /\ net' = [net EXCEPT !.i = @ + 1]
            /\ UNCHANGED ref
    /\ UNCHANGED <<bus, deviceList, drv>>

(* GetName by the number in the reference, if no driver has dropped it     *)
(* meanwhile: the device tells its name, or fails.                         *)
AskName ==
    LET i == net.i IN
    /\ net.pc = "name"
    /\ net' = [net EXCEPT !.pc = "add", !.i = @ + 1]
    /\ \/ UNCHANGED deviceList
       \/ /\ i \in {ref[k] : k \in Drivers}
          /\ ~deviceList[i].closed /\ Attached(deviceList[i])
          /\ deviceList' = [deviceList EXCEPT ![i].named = TRUE]
    /\ UNCHANGED <<bus, ref, drv>>

(* The rescan ends; the next one is on its way.                            *)
ScanDone ==
    /\ net.pc = "add" /\ net.i \notin Slots
    /\ net' = [net EXCEPT !.pc = "verify", !.i = 1]
    /\ UNCHANGED <<bus, deviceList, ref, drv>>

-----------------------------------------------------------------------------
Unplug(d) ==
    /\ d \in plugged
    /\ plugged' = plugged \ {d}
    /\ UNCHANGED <<plugs, plug, deviceList, ref, drv, net>>

Plug(d) ==
    /\ d \notin plugged /\ plugs < MaxPlugs
    /\ plugged' = plugged \cup {d}
    /\ plugs' = plugs + 1
    /\ plug' = [plug EXCEPT ![d] = plugs + 1]
    /\ UNCHANGED <<deviceList, ref, drv, net>>

(* OpenDevices and initialize: what is plugged in at the start, in some    *)
(* order; the references ask the first two for their names, and some tell. *)
Init ==
    \E order \in {o \in UNION {[1 .. n -> Dacs] : n \in 0 .. Cardinality(Dacs)} :
                     \A j, k \in DOMAIN o : o[j] = o[k] => j = k} :
        LET Ordinal(d) == {j \in DOMAIN order : order[j] = d} IN
        \E answered \in SUBSET (Drivers \cap DOMAIN order) :
        /\ plugged = {order[j] : j \in DOMAIN order}
        /\ plugs = Len(order)
        /\ plug = [d \in Dacs |-> IF Ordinal(d) = {} THEN 0 ELSE CHOOSE j \in Ordinal(d) : TRUE]
        /\ deviceList = [j \in DOMAIN order |->
              Opened([dac |-> order[j], plug |-> j], j \in answered)]
        /\ ref = [k \in Drivers |-> IF k \in DOMAIN order THEN k ELSE 0]
        /\ drv = [k \in Drivers |-> Idle]
        /\ net = [pc |-> "verify", i |-> 1, devs |-> {}, opening |-> None]

Scan == Verify \/ Enumerate \/ Open \/ Insert \/ Clean \/ Add \/ AskName \/ ScanDone
Drive(k) == LookUp(k) \/ Status(k) \/ SendFrame(k) \/ DoFrame(k)

Next ==
    \/ Scan
    \/ \E j \in 1 .. MaxPlugs : RecentExpires(j)
    \/ \E k \in Players : WriteFrame(k) \/ Drive(k)
    \/ \E d \in Dacs : Plug(d) \/ Unplug(d)

(* Clients keep asking for the service map, and time goes on.  Nobody need *)
(* play anything.                                                          *)
Spec ==
    /\ Init /\ [][Next]_vars
    /\ WF_vars(Scan) /\ \A j \in 1 .. MaxPlugs : WF_vars(RecentExpires(j))
    /\ \A k \in Players : WF_vars(Drive(k))

-----------------------------------------------------------------------------
(* Every variable has its type; no device has more errors than the limit.  *)
TypeOK ==
    /\ plugged \subseteq Dacs
    /\ plugs \in 0 .. MaxPlugs
    /\ plug \in [Dacs -> 0 .. MaxPlugs]
    /\ deviceList \in Seq([dac : Dacs, plug : 1 .. MaxPlugs, closed : BOOLEAN,
                           named : BOOLEAN, recent : BOOLEAN, errors : 0 .. ErrorLimit])
    /\ ref \in [Drivers -> Slots \cup {0}]
    /\ drv \in [Drivers -> [pc : {"idle", "status", "asking", "write", "sending", "transfer"},
                            heliosId : Slots \cup {0}, dev : Plugging \cup {None}]]
    /\ net \in [pc : {"verify", "open", "insert", "add", "name"}, i : Nat,
                devs : SUBSET Plugging, opening : Plugging \cup {None}]

(* The references never stand for one DAC: not by the same slot, nor by    *)
(* two slots that are open for it.  (A driver that loaded its reference    *)
(* before it was given away may still write to the other's DAC.)           *)
RefsApart ==
    LET Device(k) == deviceList[ref[k]] IN
    (\A k \in Drivers : ref[k] # 0 /\ ~Device(k).closed) => Device(1).dac # Device(2).dac

(* ReScanDevices: "Existing device numbers will be preserved." - a DAC     *)
(* whose name is known keeps its number for itself, whoever comes while it *)
(* is away.                                                                *)
NumbersKept ==
    [][\A j \in Slots :
          j \in Slots' /\ (deviceList[j].named => /\ deviceList'[j].named
                                                /\ deviceList'[j].dac = deviceList[j].dac)]_vars

(* A DAC that stays on the bus is closed: it failed to answer.             *)
Loses(j) ==
    /\ ~deviceList[j].closed /\ Attached(deviceList[j])
    /\ deviceList'[j] = Close(deviceList[j])

(* There are no such failures after some time.                             *)
Calm == <>[][~\E j \in Slots : Loses(j)]_vars

(* Once nothing fails any more, the references come to agree with the bus, *)
(* whatever was unplugged and plugged in before, in the middle of a scan   *)
(* or of a frame, and though a driver may drop a reference that was just   *)
(* renewed: but for the DACs that a closed object holds until they are     *)
(* plugged in again.                                                       *)
HeldClosed(d) == \E j \in Slots : /\ deviceList[j].dac = d /\ deviceList[j].closed
                                 /\ Attached(deviceList[j])
Referenced(d) ==
    \E k \in Drivers : ref[k] # 0 /\ deviceList[ref[k]].dac = d
                       /\ Attached(deviceList[ref[k]]) /\ ~deviceList[ref[k]].closed
-----------------------------------------------------------------------------
(* Two things that comments of the code say and that do not hold; TLC      *)
(* refutes each with the constants of HeliosUsb.cfg.                       *)

(* _OpenUsbDevices: "if this is an already known device that was           *)
(* previously closed ... insert it back to its previous device number" -   *)
(* no two slots come to have one name.                                     *)
NamesUnique ==
    \A j, k \in Slots :
        deviceList[j].named /\ deviceList[k].named /\ deviceList[j].dac = deviceList[k].dac
            => j = k

(* An open device in the list is the DAC as it is plugged in now.          *)
IsOpen(d) == \E j \in Slots : /\ deviceList[j].dac = d /\ ~deviceList[j].closed
                             /\ Attached(deviceList[j])

(* GetIsClosed: "Gets whether the DAC is still connected (0) or not (1)."  *)
(* - once nothing fails any more, the rescans that go on leave no DAC      *)
(* closed that stays on the bus.                                           *)
ConnectedReopens == Calm => \A d \in Dacs : []<>(d \notin plugged \/ IsOpen(d))
=============================================================================
