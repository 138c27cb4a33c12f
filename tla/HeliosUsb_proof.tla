--------------------------- MODULE HeliosUsb_proof ---------------------------
(***************************************************************************)
(* Proofs about HeliosUsb: its types, that the two references never stand  *)
(* for one DAC, and that a DAC whose name is known keeps its number.       *)
(*                                                                         *)
(* That the references stand for different DACs takes that a DAC has one   *)
(* open object at most, and that takes what Open found out, and Insert     *)
(* relies on later: no open object has the DAC that is being inserted.     *)
(***************************************************************************)
EXTENDS HeliosUsb, FiniteSetTheorems, SequenceTheorems, TLAPS

Object ==
    [dac : Dacs, plug : 1 .. MaxPlugs, closed : BOOLEAN, named : BOOLEAN,
     recent : BOOLEAN, errors : 0 .. ErrorLimit]

(* The numbers of the pluggings were given out one after the other.        *)
BusOK ==
    /\ plugged \subseteq Dacs
    /\ plugs \in 0 .. MaxPlugs
    /\ plug \in [Dacs -> 0 .. MaxPlugs]
    /\ \A d \in Dacs : plug[d] <= plugs
    /\ \A d \in plugged : plug[d] >= 1

(* An open device may have one more error.                                 *)
ListOK ==
    /\ deviceList \in Seq(Object)
    /\ \A j \in Slots : deviceList[j].plug <= plugs
    /\ \A j \in Slots : ~deviceList[j].closed => deviceList[j].errors >= 1

RefOK == ref \in [Drivers -> Slots \cup {0}]

(* A driver has the number of a slot, and a device once it looked it up.   *)
DrvOK ==
    /\ drv \in [Drivers -> [pc : {"idle", "status", "asking", "write", "sending", "transfer"},
                            heliosId : Slots \cup {0}, dev : Plugging \cup {None}]]
    /\ \A k \in Drivers : drv[k].pc # "idle" => drv[k].heliosId \in Slots
    /\ \A k \in Drivers : drv[k].pc \in {"asking", "sending", "transfer"} => drv[k].dev \in Plugging

(* The DAC that is about to be inserted has no open object in the list.    *)
NetOK ==
    /\ net \in [pc : {"verify", "open", "insert", "add", "name"}, i : Nat,
                devs : SUBSET Plugging, opening : Plugging \cup {None}]
    /\ \A x \in net.devs : x.plug <= plugs
    /\ net.pc = "insert" =>
          /\ net.opening \in Plugging
          /\ net.opening.plug <= plugs
          /\ \A j \in Slots : ~deviceList[j].closed => deviceList[j].dac # net.opening.dac
    /\ net.pc = "name" => net.i \in Slots

OneOpen ==
    \A j, k \in Slots :
        ~deviceList[j].closed /\ ~deviceList[k].closed /\ deviceList[j].dac = deviceList[k].dac
            => j = k

RefsDistinct == ref[1] = ref[2] => ref[1] = 0

IInv == BusOK /\ ListOK /\ RefOK /\ DrvOK /\ NetOK /\ OneOpen /\ RefsDistinct

LEMMA IInvTypes == IInv => TypeOK
  BY DEF IInv, BusOK, ListOK, RefOK, DrvOK, NetOK, TypeOK, Object

LEMMA Apart == IInv => RefsApart
  BY DEF IInv, RefOK, RefsDistinct, OneOpen, RefsApart, Drivers

(* The initial list holds each DAC once.                                   *)
LEMMA InitInv == Init => IInv
<1> SUFFICES ASSUME Init PROVE IInv
  OBVIOUS
<1>c. PICK order \in {o \in UNION {[1 .. n -> Dacs] : n \in 0 .. Cardinality(Dacs)} :
                      \A j, k \in DOMAIN o : o[j] = o[k] => j = k} :
       \E answered \in SUBSET (Drivers \cap DOMAIN order) :
        /\ plugged = {order[j] : j \in DOMAIN order}
        /\ plugs = Len(order)
        /\ plug = [d \in Dacs |-> IF {j \in DOMAIN order : order[j] = d} = {} THEN 0
                                  ELSE CHOOSE j \in {j \in DOMAIN order : order[j] = d} : TRUE]
        /\ deviceList = [j \in DOMAIN order |->
                Opened([dac |-> order[j], plug |-> j], j \in answered)]
        /\ ref = [k \in Drivers |-> IF k \in DOMAIN order THEN k ELSE 0]
        /\ drv = [k \in Drivers |-> Idle]
        /\ net = [pc |-> "verify", i |-> 1, devs |-> {}, opening |-> None]
  BY Zenon DEF Init
<1>a. PICK answered \in SUBSET (Drivers \cap DOMAIN order) :
        /\ plugged = {order[j] : j \in DOMAIN order}
        /\ plugs = Len(order)
        /\ plug = [d \in Dacs |-> IF {j \in DOMAIN order : order[j] = d} = {} THEN 0
                                  ELSE CHOOSE j \in {j \in DOMAIN order : order[j] = d} : TRUE]
        /\ deviceList = [j \in DOMAIN order |->
                Opened([dac |-> order[j], plug |-> j], j \in answered)]
        /\ ref = [k \in Drivers |-> IF k \in DOMAIN order THEN k ELSE 0]
        /\ drv = [k \in Drivers |-> Idle]
        /\ net = [pc |-> "verify", i |-> 1, devs |-> {}, opening |-> None]
  BY <1>c, Zenon
<1>b. PICK n \in 0 .. Cardinality(Dacs) : order \in [1 .. n -> Dacs]
  BY <1>c, Zenon
<1>0. \A j, k \in DOMAIN order : order[j] = order[k] => j = k
  BY <1>c, Zenon
<1>1. /\ MaxPlugs \in Nat /\ ErrorLimit \in Nat \ {0} /\ n \in Nat /\ n <= MaxPlugs
      /\ DOMAIN order = 1 .. n /\ order \in Seq(Dacs) /\ Len(order) = n
  <2>1. MaxPlugs \in Nat /\ ErrorLimit \in Nat \ {0} /\ n \in Nat /\ n <= MaxPlugs
    BY <1>b, UsbAssumption, FS_CardinalityType
  <2> QED
    BY <1>b, <2>1
<1>2. /\ deviceList \in Seq(Object) /\ Slots = 1 .. n
      /\ \A j \in 1 .. n : deviceList[j] = Opened([dac |-> order[j], plug |-> j], j \in answered)
  <2>1. deviceList = [j \in 1 .. n |-> Opened([dac |-> order[j], plug |-> j], j \in answered)]
    BY <1>1, <1>a, Zenon
  <2>2. deviceList \in [1 .. n -> Object]
    BY <1>b, <1>1, <2>1 DEF Object, Opened
  <2>3. deviceList \in Seq(Object)
    BY <1>1, <2>2, SeqDef
  <2> QED
    BY <2>1, <2>2, <2>3 DEF Slots
<1>3. ASSUME NEW j \in 1 .. n
       PROVE  /\ deviceList[j].dac = order[j] /\ deviceList[j].plug = j
              /\ deviceList[j].errors = ErrorLimit
  <2>1. deviceList[j] = Opened([dac |-> order[j], plug |-> j], j \in answered)
    BY <1>2, Zenon
  <2>2. ASSUME NEW b \in BOOLEAN, deviceList[j] = Opened([dac |-> order[j], plug |-> j], b)
        PROVE  /\ deviceList[j].dac = order[j] /\ deviceList[j].plug = j
               /\ deviceList[j].errors = ErrorLimit
    BY <2>2 DEF Opened
  <2>3. CASE j \in answered
    BY <2>1, <2>2, <2>3, Zenon
  <2>4. CASE j \notin answered
    <3>1. (j \in answered) = FALSE
      BY <2>4
    <3>2. deviceList[j] = Opened([dac |-> order[j], plug |-> j], FALSE)
      BY <2>1, <3>1, Zenon
    <3> QED
      BY <2>2, <3>2, Zenon
  <2> QED
    BY <2>3, <2>4
<1>4. plugged = {order[j] : j \in 1 .. n} /\ plugs = n
  BY <1>1, <1>a, Zenon
<1>5. \A j \in 1 .. n : plug[order[j]] = j
  <2> TAKE j \in 1 .. n
  <2>1. {i \in DOMAIN order : order[i] = order[j]} = {j}
    BY <1>0, <1>1
  <2>2. (CHOOSE i \in {j} : TRUE) = j
    OBVIOUS
  <2>3. order[j] \in Dacs
    BY <1>b
  <2>4. plug[order[j]] = IF {i \in DOMAIN order : order[i] = order[j]} = {} THEN 0
                         ELSE CHOOSE i \in {i \in DOMAIN order : order[i] = order[j]} : TRUE
    BY <1>a, <2>3, Zenon
  <2> QED
    BY <2>1, <2>2, <2>4
<1>6. \A d \in Dacs : plug[d] \in 0 .. n /\ (d \in plugged => plug[d] >= 1)
  <2> TAKE d \in Dacs
  <2>1. CASE \E j \in 1 .. n : order[j] = d
    BY <1>1, <1>5, <2>1
  <2>2. CASE ~\E j \in 1 .. n : order[j] = d
    <3>1. {j \in DOMAIN order : order[j] = d} = {} /\ d \notin plugged
      BY <1>1, <1>4, <2>2, Zenon
    <3>2. plug[d] = 0
      BY <1>a, <3>1, Zenon
    <3> QED
      BY <1>1, <3>1, <3>2
  <2> QED
    BY <2>1, <2>2
<1>7. BusOK
  <2>1. plug = [d \in Dacs |-> plug[d]]
    BY <1>a, Zenon
  <2> QED
    BY <1>b, <1>1, <1>4, <1>6, <2>1 DEF BusOK
<1>8. ListOK
  <2>1. \A j \in 1 .. n : deviceList[j].plug = j /\ deviceList[j].errors = ErrorLimit
    BY <1>3
  <2>2. deviceList \in Seq(Object) /\ Slots = 1 .. n /\ plugs = n
    BY <1>2, <1>4
  <2> QED
    BY <1>1, <2>1, <2>2 DEF ListOK
<1>9. ref = [k \in Drivers |-> IF k \in 1 .. n THEN k ELSE 0]
  BY <1>1, <1>a, Zenon
<1>10. RefOK /\ RefsDistinct
  BY <1>1, <1>2, <1>9 DEF RefOK, RefsDistinct, Drivers
<1>11. drv = [k \in Drivers |-> Idle] /\ net = [pc |-> "verify", i |-> 1, devs |-> {}, opening |-> None]
  BY <1>a, Zenon
<1>12. DrvOK /\ NetOK
  BY <1>11 DEF DrvOK, NetOK, Idle
<1>13. OneOpen
  <2>1. \A j \in 1 .. n : deviceList[j].dac = order[j]
    BY <1>3
  <2>2. Slots = 1 .. n
    BY <1>2
  <2> QED
    BY <1>0, <1>1, <2>1, <2>2 DEF OneOpen
<1> QED
  BY <1>7, <1>8, <1>10, <1>12, <1>13 DEF IInv

(* A step that only closes devices or gives them no more than an error     *)
(* keeps what is said of the list.                                         *)
Milder ==
    /\ deviceList' \in Seq(Object) /\ Slots' = Slots
    /\ \A j \in Slots :
          /\ deviceList'[j].dac = deviceList[j].dac
          /\ deviceList'[j].plug = deviceList[j].plug
          /\ deviceList'[j].named = deviceList[j].named
          /\ deviceList[j].closed => deviceList'[j].closed
          /\ ~deviceList'[j].closed => deviceList'[j].errors >= 1
    /\ UNCHANGED bus

LEMMA MilderInv == ASSUME IInv, Milder PROVE BusOK' /\ ListOK' /\ OneOpen'
<1>1. BusOK' /\ ListOK'
  BY DEF IInv, BusOK, ListOK, Milder, bus
<1>2. OneOpen'
  BY DEF IInv, OneOpen, Milder
<1> QED
  BY <1>1, <1>2

LEMMA SameListIsMilder == ASSUME IInv, UNCHANGED <<bus, deviceList>> PROVE Milder
  BY DEF IInv, ListOK, Milder, Slots

(* A driver may drop its reference, and nobody else's.                     *)
LEMMA DriverInv ==
  ASSUME IInv, NEW k \in Drivers, Milder, UNCHANGED net,
         ref' \in {ref, [ref EXCEPT ![k] = 0]},
         DrvOK'
  PROVE  IInv'
<1>1. NetOK'
  BY DEF IInv, NetOK, Milder, bus
<1>2. RefOK' /\ RefsDistinct'
  BY DEF IInv, RefOK, RefsDistinct, Milder, Drivers
<1> QED
  BY <1>1, <1>2, MilderInv DEF IInv

LEMMA Elements ==
  ASSUME ListOK
  PROVE  /\ Slots = 1 .. Len(deviceList) /\ Len(deviceList) \in Nat
         /\ deviceList \in [1 .. Len(deviceList) -> Object]
         /\ \A j \in Slots : deviceList[j] \in Object
  BY DEF ListOK, Slots

(* The references and the drivers know slots by their numbers.             *)
LEMMA SameRefs ==
  ASSUME IInv, Slots \subseteq Slots', UNCHANGED <<ref, drv>>
  PROVE  RefOK' /\ RefsDistinct' /\ DrvOK'
  BY DEF IInv, RefOK, RefsDistinct, DrvOK

-----------------------------------------------------------------------------
LEMMA WriteFrameInv == ASSUME IInv, NEW k \in Drivers, WriteFrame(k) PROVE IInv'
<1>1. Milder /\ UNCHANGED <<net, ref>>
  BY SameListIsMilder DEF WriteFrame, bus
<1>2. DrvOK'
  BY DEF IInv, DrvOK, RefOK, WriteFrame, Slots
<1> QED
  BY <1>1, <1>2, DriverInv

LEMMA LookUpInv == ASSUME IInv, NEW k \in Drivers, LookUp(k) PROVE IInv'
<1>1. Milder /\ UNCHANGED <<net, ref>>
  BY SameListIsMilder DEF LookUp, bus
<1>2. drv[k].heliosId \in Slots
  BY DEF IInv, DrvOK, LookUp
<1>3. Of(deviceList[drv[k].heliosId]) \in Plugging
  <2>1. deviceList[drv[k].heliosId] \in Object
    BY <1>2, Elements DEF IInv
  <2> QED
    BY <2>1 DEF Object, Of, Plugging
<1>4. DrvOK'
  <2>1. PICK x \in Plugging, label \in {"asking", "sending"} :
          drv' = [drv EXCEPT ![k].pc = label, ![k].dev = x]
    <3>1. CASE drv[k].pc = "status"
      BY <1>3, <3>1 DEF LookUp
    <3>2. CASE drv[k].pc # "status"
      BY <1>3, <3>2 DEF LookUp
    <3> QED
      BY <3>1, <3>2
  <2>2. Slots' = Slots
    BY <1>1 DEF Milder
  <2> DEFINE Place == [pc : {"idle", "status", "asking", "write", "sending", "transfer"},
                       heliosId : Slots \cup {0}, dev : Plugging \cup {None}]
  <2>3. drv \in [Drivers -> Place] /\ drv[k] \in Place
    BY DEF IInv, DrvOK
  <2>4. /\ [drv[k] EXCEPT !.pc = label, !.dev = x] \in Place
        /\ [drv[k] EXCEPT !.pc = label, !.dev = x].heliosId = drv[k].heliosId
        /\ [drv[k] EXCEPT !.pc = label, !.dev = x].dev = x
    BY <2>1, <2>3
  <2>5. drv' = [drv EXCEPT ![k] = [drv[k] EXCEPT !.pc = label, !.dev = x]]
    BY <2>1, <2>3
  <2> HIDE DEF Place
  <2>6. drv' \in [Drivers -> Place]
    BY <2>3, <2>4, <2>5
  <2>7. ASSUME NEW j \in Drivers
        PROVE  /\ drv'[j].pc # "idle" => drv'[j].heliosId \in Slots
               /\ drv'[j].pc \in {"asking", "sending", "transfer"} => drv'[j].dev \in Plugging
    BY <1>2, <2>1, <2>3, <2>4, <2>5 DEF IInv, DrvOK
  <2> QED
    BY <2>2, <2>6, <2>7 DEF DrvOK, Place
<1> QED
  BY <1>1, <1>4, DriverInv

LEMMA CloseObject ==
  ASSUME NEW o \in Object
  PROVE  /\ Close(o) \in Object /\ Close(o).closed
         /\ Close(o).dac = o.dac /\ Close(o).plug = o.plug /\ Close(o).named = o.named
<1>1. 0 \in 0 .. ErrorLimit
  BY UsbAssumption
<1> QED
  BY <1>1 DEF Close, Object

LEMMA CountErrorMilder ==
  ASSUME IInv, NEW x, UNCHANGED bus,
         deviceList' = [j \in Slots |-> IF j \in SlotOf(x) THEN CountError(deviceList[j])
                                                         ELSE deviceList[j]]
  PROVE  Milder
<1>1. ErrorLimit \in Nat
  BY UsbAssumption
<1>2. deviceList \in [1 .. Len(deviceList) -> Object]
      /\ Slots = 1 .. Len(deviceList) /\ Len(deviceList) \in Nat
  BY Elements DEF IInv
<1>3. ASSUME NEW o \in Object, ~o.closed => o.errors >= 1
      PROVE  /\ CountError(o) \in Object
             /\ CountError(o).dac = o.dac /\ CountError(o).plug = o.plug
             /\ CountError(o).named = o.named
             /\ o.closed => CountError(o).closed
             /\ ~CountError(o).closed => CountError(o).errors >= 1
  <2>1. CASE o.errors > 1
    <3>1. CountError(o) = [o EXCEPT !.errors = @ - 1]
      BY <2>1 DEF CountError
    <3>2. CountError(o) \in Object
      <4>1. o.errors - 1 \in 0 .. ErrorLimit
        BY <1>1, <1>3, <2>1 DEF Object
      <4> QED
        BY <1>3, <3>1, <4>1 DEF Object
    <3> QED
      BY <1>3, <2>1, <3>1, <3>2 DEF Object
  <2>2. CASE ~(o.errors > 1)
    BY <1>3, <2>2, CloseObject DEF CountError
  <2> QED
    BY <2>1, <2>2
<1>4. deviceList' = [j \in 1 .. Len(deviceList) |->
                      IF j \in SlotOf(x) THEN CountError(deviceList[j]) ELSE deviceList[j]]
  BY <1>2
<1>5. \A j \in 1 .. Len(deviceList) :
         deviceList[j] \in Object /\ (~deviceList[j].closed => deviceList[j].errors >= 1)
  BY <1>2 DEF IInv, ListOK
<1>6. deviceList' \in [1 .. Len(deviceList) -> Object]
  BY <1>3, <1>4, <1>5
<1>7. deviceList' \in Seq(Object)
  BY <1>2, <1>6, SeqDef
<1>8. Slots' = Slots
  BY <1>2, <1>6 DEF Slots
<1> QED
  BY <1>2, <1>3, <1>4, <1>5, <1>7, <1>8 DEF Milder

LEMMA StatusInv == ASSUME IInv, NEW k \in Drivers, Status(k) PROVE IInv' /\ Milder
<1>1. Milder
  <2>1. CASE UNCHANGED deviceList
    BY <2>1, SameListIsMilder DEF Status, bus
  <2>2. CASE deviceList' = [j \in Slots |-> IF j \in SlotOf(drv[k].dev)
                                           THEN CountError(deviceList[j]) ELSE deviceList[j]]
    BY <2>2, CountErrorMilder DEF Status
  <2> QED
    BY <2>1, <2>2 DEF Status
<1>2. ref' \in {ref, [ref EXCEPT ![k] = 0]} /\ UNCHANGED net
  BY DEF Status, Forget
<1>3. \E label \in {"status", "write"} : Goto(k, label)
  BY DEF Status
<1>4. DrvOK'
  BY <1>1, <1>3 DEF IInv, DrvOK, Goto, Status, At, Milder
<1> QED
  BY <1>1, <1>2, <1>4, DriverInv

LEMMA SendFrameInv == ASSUME IInv, NEW k \in Drivers, SendFrame(k) PROVE IInv' /\ Milder
<1>1. Milder
  <2>1. CASE UNCHANGED deviceList
    BY <2>1, SameListIsMilder DEF SendFrame, bus
  <2>2. CASE ~IsClosed(drv[k].dev)
    <3>1. deviceList' = [j \in Slots |-> IF j \in SlotOf(drv[k].dev)
                                        THEN [deviceList[j] EXCEPT !.recent = TRUE]
                                        ELSE deviceList[j]]
      BY <2>2 DEF SendFrame
    <3>2. deviceList \in [1 .. Len(deviceList) -> Object]
          /\ Slots = 1 .. Len(deviceList) /\ Len(deviceList) \in Nat
      BY Elements DEF IInv
    <3>3. deviceList' \in [1 .. Len(deviceList) -> Object]
      BY <3>1, <3>2 DEF Object
    <3>4. deviceList' \in Seq(Object) /\ Slots' = Slots
      BY <3>2, <3>3, SeqDef DEF Slots
    <3> QED
      BY <3>1, <3>2, <3>4 DEF Milder, IInv, ListOK, Object, SendFrame
  <2> QED
    BY <2>1, <2>2 DEF SendFrame
<1>2. ref' \in {ref, [ref EXCEPT ![k] = 0]} /\ UNCHANGED net
  BY DEF SendFrame, Forget
<1>3. DrvOK'
  <2>1. CASE Return(k)
    BY <1>1, <2>1 DEF IInv, DrvOK, Return, Idle, Milder
  <2>2. CASE drv' = [drv EXCEPT ![k].pc = "transfer"]
    <3>1. drv[k].pc = "sending"
      BY DEF SendFrame, At
    <3> QED
      BY <1>1, <2>2, <3>1 DEF IInv, DrvOK, Milder
  <2> QED
    BY <2>1, <2>2 DEF SendFrame
<1> QED
  BY <1>1, <1>2, <1>3, DriverInv

LEMMA DoFrameInv == ASSUME IInv, NEW k \in Drivers, DoFrame(k) PROVE IInv'
<1>1. Milder
  BY SameListIsMilder DEF DoFrame, bus
<1>2. ref' \in {ref, [ref EXCEPT ![k] = 0]} /\ UNCHANGED net
  BY DEF DoFrame, Forget
<1>3. DrvOK'
  BY <1>1 DEF IInv, DrvOK, DoFrame, Return, Idle, Milder
<1> QED
  BY <1>1, <1>2, <1>3, DriverInv

LEMMA RecentExpiresInv == ASSUME IInv, NEW j, RecentExpires(j) PROVE IInv' /\ Milder
<1>1. Milder
  <2>1. deviceList \in [1 .. Len(deviceList) -> Object]
        /\ Slots = 1 .. Len(deviceList) /\ Len(deviceList) \in Nat
    BY Elements DEF IInv
  <2>2. deviceList' = [deviceList EXCEPT ![j].recent = FALSE] /\ j \in Slots
    BY DEF RecentExpires
  <2>3. deviceList' \in [1 .. Len(deviceList) -> Object]
    BY <2>1, <2>2 DEF Object
  <2>4. deviceList' \in Seq(Object) /\ Slots' = Slots
    BY <2>1, <2>3, SeqDef DEF Slots
  <2>5. ASSUME NEW m \in Slots
        PROVE  /\ deviceList'[m].dac = deviceList[m].dac
               /\ deviceList'[m].plug = deviceList[m].plug
               /\ deviceList'[m].named = deviceList[m].named
               /\ deviceList'[m].closed = deviceList[m].closed
               /\ deviceList'[m].errors = deviceList[m].errors
    BY <2>1, <2>2 DEF Object
  <2>6. UNCHANGED bus
    BY DEF RecentExpires
  <2> QED
    BY <2>4, <2>5, <2>6 DEF Milder, IInv, ListOK
<1>2. NetOK'
  BY <1>1 DEF IInv, NetOK, Milder, RecentExpires, bus
<1> QED
  BY <1>1, <1>2, MilderInv, SameRefs DEF IInv, Milder, RecentExpires

-----------------------------------------------------------------------------
LEMMA VerifyInv == ASSUME IInv, Verify PROVE IInv' /\ Milder
<1>1. Milder
  <2>1. CASE UNCHANGED deviceList
    BY <2>1, SameListIsMilder DEF Verify, bus
  <2>2. CASE deviceList' = [deviceList EXCEPT ![net.i] = Close(@)]
    <3>1. deviceList \in [1 .. Len(deviceList) -> Object] /\ net.i \in Slots
          /\ Slots = 1 .. Len(deviceList) /\ Len(deviceList) \in Nat
      BY Elements DEF IInv, Verify
    <3>2. deviceList' = [m \in Slots |-> IF m = net.i THEN Close(deviceList[m]) ELSE deviceList[m]]
      BY <2>2, <3>1
    <3>3. \A m \in Slots : deviceList[m] \in Object
      BY <3>1
    <3>4. deviceList' \in [1 .. Len(deviceList) -> Object]
      BY <3>1, <3>2, <3>3, CloseObject
    <3>5. deviceList' \in Seq(Object) /\ Slots' = Slots
      BY <3>1, <3>4, SeqDef DEF Slots
    <3>6. ASSUME NEW m \in Slots
          PROVE  /\ deviceList'[m].dac = deviceList[m].dac
                 /\ deviceList'[m].plug = deviceList[m].plug
                 /\ deviceList'[m].named = deviceList[m].named
                 /\ deviceList[m].closed => deviceList'[m].closed
                 /\ ~deviceList'[m].closed => deviceList'[m].errors >= 1
      <4>1. CASE m = net.i
        BY <3>2, <3>3, <4>1, CloseObject
      <4>2. CASE m # net.i
        BY <3>2, <4>2 DEF IInv, ListOK
      <4> QED
        BY <4>1, <4>2
    <3> QED
      BY <3>5, <3>6 DEF Milder, Verify
  <2> QED
    BY <2>1, <2>2 DEF Verify
<1>2. NetOK'
  <2>1. net.i + 1 \in Nat
    BY DEF IInv, NetOK
  <2> QED
    BY <1>1, <2>1 DEF IInv, NetOK, Milder, Verify, bus
<1> QED
  BY <1>1, <1>2, MilderInv, SameRefs DEF IInv, Milder, Verify

LEMMA EnumerateInv == ASSUME IInv, Enumerate PROVE IInv'
<1>1. Milder
  BY SameListIsMilder DEF Enumerate, bus
<1>2. \A d \in plugged : [dac |-> d, plug |-> plug[d]] \in Plugging /\ plug[d] <= plugs
  BY UsbAssumption DEF IInv, BusOK, Plugging
<1>3. NetOK'
  <2> DEFINE found == {[dac |-> d, plug |-> plug[d]] : d \in plugged}
  <2>1. found \subseteq Plugging /\ \A x \in found : x.plug <= plugs
    BY <1>2
  <2>2. net' = [net EXCEPT !.pc = "open", !.i = 1, !.devs = found] /\ UNCHANGED plugs
    BY DEF Enumerate, bus
  <2> HIDE DEF found
  <2> QED
    BY <2>1, <2>2 DEF IInv, NetOK
<1> QED
  BY <1>1, <1>3, MilderInv, SameRefs DEF IInv, Milder, Enumerate

LEMMA OpenInv == ASSUME IInv, Open PROVE IInv'
<1>1. Milder
  BY SameListIsMilder DEF Open, bus
<1>2. NetOK'
  <2> PICK x \in net.devs :
        net' = IF AlreadyOpened(x) \/ ~Openable(x)
               THEN [net EXCEPT !.devs = @ \ {x}]
               ELSE [net EXCEPT !.devs = @ \ {x}, !.pc = "insert", !.opening = x]
    BY DEF Open
  <2>1. x \in Plugging /\ x.plug <= plugs
    BY DEF IInv, NetOK
  <2>2. CASE AlreadyOpened(x) \/ ~Openable(x)
    BY <2>2 DEF IInv, NetOK, Open, bus
  <2>3. CASE ~AlreadyOpened(x)
    <3>1. \A j \in Slots : ~deviceList[j].closed => deviceList[j].dac # x.dac
      BY <2>3 DEF AlreadyOpened, SamePort
    <3> QED
      BY <2>1, <2>2, <3>1 DEF IInv, NetOK, Open, bus, Slots
  <2> QED
    BY <2>2, <2>3
<1> QED
  BY <1>1, <1>2, MilderInv, SameRefs DEF IInv, Milder, Open

(* The new object is appended, or takes the slot of a closed one that had  *)
(* no name or that of the same DAC.                                        *)
Inserted(at, o) ==
    /\ o \in Object /\ Of(o) = net.opening /\ ~o.closed /\ o.errors >= 1
    /\ deviceList' \in Seq(Object) /\ Slots \subseteq Slots'
    /\ \A j \in Slots' : IF j = at THEN deviceList'[j] = o
                         ELSE j \in Slots /\ deviceList'[j] = deviceList[j]
    /\ at \in Slots /\ deviceList[at].named => o.named /\ deviceList[at].dac = o.dac

LEMMA OpenedObject ==
  ASSUME NEW x \in Plugging, NEW b \in BOOLEAN
  PROVE  /\ Opened(x, b) \in Object /\ Of(Opened(x, b)) = x /\ Opened(x, b).dac = x.dac
         /\ ~Opened(x, b).closed /\ Opened(x, b).errors >= 1 /\ Opened(x, b).named = b
<1>1. ErrorLimit \in Nat \ {0}
  BY UsbAssumption
<1> QED
  BY <1>1 DEF Opened, Object, Plugging, Of

LEMMA InsertInserts == ASSUME IInv, Insert PROVE \E at, o : Inserted(at, o)
<1>1. /\ Slots = 1 .. Len(deviceList) /\ Len(deviceList) \in Nat
      /\ deviceList \in [1 .. Len(deviceList) -> Object]
      /\ deviceList \in Seq(Object)
  BY Elements DEF IInv, ListOK
<1>2. net.opening \in Plugging
  BY DEF IInv, NetOK, Insert
<1>3. PICK answered : InsertDevice(net.opening, answered)
  BY DEF Insert
<1> DEFINE known == Known(net.opening, answered)
<1>4. CASE deviceList' = Append(deviceList, Opened(net.opening, answered # {}))
  <2> DEFINE at == Len(deviceList) + 1
             o == Opened(net.opening, answered # {})
  <2>1. o \in Object /\ Of(o) = net.opening /\ ~o.closed /\ o.errors >= 1
    <3>1. (answered # {}) \in BOOLEAN
      OBVIOUS
    <3> HIDE DEF o
    <3>2. ASSUME NEW b \in BOOLEAN, o = Opened(net.opening, b)
          PROVE  o \in Object /\ Of(o) = net.opening /\ ~o.closed /\ o.errors >= 1
      BY <1>2, <3>2, OpenedObject
    <3> QED
      BY <3>1, <3>2 DEF o
  <2> HIDE DEF o
  <2>2. /\ deviceList' \in Seq(Object) /\ Len(deviceList') = Len(deviceList) + 1
        /\ \A j \in 1 .. Len(deviceList) : deviceList'[j] = deviceList[j]
        /\ deviceList'[Len(deviceList) + 1] = o
    BY <1>1, <1>4, <2>1, AppendProperties DEF o
  <2>3. Slots' = 1 .. (Len(deviceList) + 1)
    BY <2>2 DEF Slots
  <2>4. ASSUME NEW j \in Slots', j # at PROVE j \in Slots /\ deviceList'[j] = deviceList[j]
    BY <1>1, <2>2, <2>3, <2>4
  <2>5. Slots \subseteq Slots' /\ at \notin Slots
    BY <1>1, <2>3
  <2>6. deviceList'[at] = o
    BY <2>2
  <2> HIDE DEF at
  <2>7. Inserted(at, o)
    BY <2>1, <2>2, <2>4, <2>5, <2>6 DEF Inserted
  <2> QED
    BY <2>7
<1>5. ASSUME NEW at \in known,
             deviceList' = [deviceList EXCEPT ![at] =
                              Opened(net.opening, \E k \in answered : k <= at)]
      PROVE  \E k, o : Inserted(k, o)
  <2> DEFINE o == Opened(net.opening, \E k \in answered : k <= at)
  <2>1. /\ o \in Object /\ Of(o) = net.opening /\ o.dac = net.opening.dac
        /\ ~o.closed /\ o.errors >= 1 /\ (o.named <=> \E k \in answered : k <= at)
    <3>1. (\E k \in answered : k <= at) \in BOOLEAN
      OBVIOUS
    <3> HIDE DEF o
    <3>2. ASSUME NEW b \in BOOLEAN, o = Opened(net.opening, b)
          PROVE  /\ o \in Object /\ Of(o) = net.opening /\ o.dac = net.opening.dac
                 /\ ~o.closed /\ o.errors >= 1 /\ o.named = b
      BY <1>2, <3>2, OpenedObject
    <3> QED
      BY <3>1, <3>2 DEF o
  <2>2. deviceList' = [deviceList EXCEPT ![at] = o]
    BY <1>5
  <2> HIDE DEF o
  <2>3. at \in Slots /\ SameName(net.opening, answered, at)
    BY <1>5 DEF Known, Closed
  <2>4. at \in Int
    BY <1>1, <2>3
  <2>5. deviceList[at].named => o.named /\ deviceList[at].dac = o.dac
    <3>1. ASSUME deviceList[at].named PROVE at \in answered /\ deviceList[at].dac = net.opening.dac
      BY <2>3, <3>1 DEF SameName
    <3>2. at <= at
      BY <2>4
    <3> QED
      BY <2>1, <3>1, <3>2
  <2>6. deviceList' \in [1 .. Len(deviceList) -> Object]
    BY <1>1, <2>1, <2>2
  <2>7. deviceList' \in Seq(Object) /\ Slots' = Slots
    BY <1>1, <2>6, SeqDef DEF Slots
  <2>8. \A j \in Slots' : IF j = at THEN deviceList'[j] = o
                           ELSE j \in Slots /\ deviceList'[j] = deviceList[j]
    BY <1>1, <2>2, <2>3, <2>7
  <2>9. Inserted(at, o)
    BY <2>1, <2>5, <2>7, <2>8 DEF Inserted
  <2> QED
    BY <2>9
<1> QED
  BY <1>3, <1>4, <1>5 DEF InsertDevice

(* No open object has the DAC.                                             *)
LEMMA InsertInv == ASSUME IInv, Insert PROVE IInv'
<1>1. PICK at, o : Inserted(at, o)
  BY InsertInserts
<1>2. /\ net.opening \in Plugging /\ net.opening.plug <= plugs
      /\ \A j \in Slots : ~deviceList[j].closed => deviceList[j].dac # net.opening.dac
  BY DEF IInv, NetOK, Insert
<1>3. o.dac = net.opening.dac /\ o.plug = net.opening.plug
  BY <1>1, <1>2 DEF Inserted, Of, Plugging
<1>4. UNCHANGED bus /\ UNCHANGED <<ref, drv>>
  BY DEF Insert
<1>5. BusOK' /\ ListOK'
  BY <1>1, <1>2, <1>3, <1>4 DEF IInv, BusOK, ListOK, Inserted, bus
<1>6. OneOpen'
  BY <1>1, <1>2, <1>3 DEF IInv, OneOpen, Inserted
<1>7. NetOK'
  BY <1>4 DEF IInv, NetOK, Insert, bus
<1>8. Slots \subseteq Slots'
  BY <1>1 DEF Inserted
<1> QED
  BY <1>4, <1>5, <1>6, <1>7, <1>8, SameRefs DEF IInv

LEMMA CleanInv == ASSUME IInv, Clean PROVE IInv'
<1>1. Milder
  BY SameListIsMilder DEF Clean, bus
<1>2. RefOK' /\ RefsDistinct'
  BY DEF IInv, RefOK, RefsDistinct, Clean, Cleaned, Drivers, Slots
<1>3. DrvOK'
  BY DEF IInv, DrvOK, Clean, Slots
<1>4. NetOK'
  BY DEF IInv, NetOK, Clean, bus
<1> QED
  BY <1>1, <1>2, <1>3, <1>4, MilderInv DEF IInv

LEMMA AddInv == ASSUME IInv, Add PROVE IInv'
<1>1. Milder
  BY SameListIsMilder DEF Add, bus
<1>2. net.i \in Slots /\ net.i \in Nat /\ UNCHANGED drv /\ Slots' = Slots
  BY <1>1 DEF IInv, NetOK, Add, Milder
<1>3. NetOK'
  BY <1>2 DEF IInv, NetOK, Add, bus
<1>4. RefOK' /\ RefsDistinct'
  <2>1. CASE UNCHANGED ref
    BY <1>2, <2>1 DEF IInv, RefOK, RefsDistinct
  <2>2. CASE Taker(net.i) # 0 /\ ref' = [ref EXCEPT ![Taker(net.i)] = net.i]
    <3>1. Taker(net.i) = 1 => ref[1] = 0 /\ ref[2] # net.i
      BY DEF Taker
    <3>2. Taker(net.i) = 2 => ref[2] = 0 /\ ref[1] # net.i
      BY DEF Taker
    <3>3. Taker(net.i) = 1 \/ Taker(net.i) = 2
      BY <2>2 DEF Taker
    <3> QED
      BY <1>2, <2>2, <3>1, <3>2, <3>3 DEF IInv, RefOK, RefsDistinct, Drivers
  <2> QED
    BY <2>1, <2>2 DEF Add
<1>5. DrvOK'
  BY <1>2 DEF IInv, DrvOK
<1> QED
  BY <1>1, <1>3, <1>4, <1>5, MilderInv DEF IInv

LEMMA NamedList ==
  ASSUME IInv, net.i \in Slots, deviceList' = [deviceList EXCEPT ![net.i].named = TRUE]
  PROVE  /\ deviceList' \in Seq(Object) /\ Slots' = Slots
         /\ \A m \in Slots : /\ deviceList'[m].dac = deviceList[m].dac
                             /\ deviceList'[m].plug = deviceList[m].plug
                             /\ deviceList[m].named => deviceList'[m].named
                             /\ deviceList'[m].closed = deviceList[m].closed
                             /\ deviceList'[m].errors = deviceList[m].errors
<1>1. deviceList \in [1 .. Len(deviceList) -> Object]
      /\ Slots = 1 .. Len(deviceList) /\ Len(deviceList) \in Nat
  BY Elements DEF IInv
<1>2. deviceList' \in [1 .. Len(deviceList) -> Object]
  BY <1>1 DEF Object
<1>3. deviceList' \in Seq(Object) /\ Slots' = Slots
  BY <1>1, <1>2, SeqDef DEF Slots
<1>4. ASSUME NEW m \in Slots
      PROVE  /\ deviceList'[m].dac = deviceList[m].dac
             /\ deviceList'[m].plug = deviceList[m].plug
             /\ deviceList[m].named => deviceList'[m].named
             /\ deviceList'[m].closed = deviceList[m].closed
             /\ deviceList'[m].errors = deviceList[m].errors
  BY <1>1 DEF Object
<1> QED
  BY <1>3, <1>4

LEMMA AskNameInv == ASSUME IInv, AskName PROVE IInv'
<1>1. net.i \in Slots /\ net.i \in Nat /\ UNCHANGED <<bus, ref, drv>>
  BY DEF IInv, NetOK, AskName
<1>2. NetOK'
  <2>1. net' = [net EXCEPT !.pc = "add", !.i = net.i + 1] /\ net.i + 1 \in Nat
    BY <1>1 DEF AskName
  <2>2. NetOK
    BY DEF IInv
  <2> QED
    BY <1>1, <2>1, <2>2 DEF NetOK, bus
<1>3. Slots' = Slots /\ BusOK' /\ ListOK' /\ OneOpen'
  <2>1. CASE UNCHANGED deviceList
    <3>1. Milder
      BY <1>1, <2>1, SameListIsMilder
    <3> QED
      BY <3>1, MilderInv DEF Milder
  <2>2. CASE deviceList' = [deviceList EXCEPT ![net.i].named = TRUE]
    <3>1. BusOK' /\ ListOK'
      BY <1>1, <2>2, NamedList DEF IInv, BusOK, ListOK, bus
    <3>2. OneOpen'
      BY <1>1, <2>2, NamedList DEF IInv, OneOpen
    <3>3. Slots' = Slots
      BY <1>1, <2>2, NamedList
    <3> QED
      BY <3>1, <3>2, <3>3
  <2> QED
    BY <2>1, <2>2 DEF AskName
<1>4. RefOK' /\ RefsDistinct' /\ DrvOK'
  BY <1>1, <1>3, SameRefs
<1> QED
  BY <1>2, <1>3, <1>4 DEF IInv

LEMMA ScanDoneInv == ASSUME IInv, ScanDone PROVE IInv'
<1>1. Milder
  BY SameListIsMilder DEF ScanDone, bus
<1>2. NetOK'
  BY DEF IInv, NetOK, ScanDone, bus
<1> QED
  BY <1>1, <1>2, MilderInv, SameRefs DEF IInv, Milder, ScanDone

-----------------------------------------------------------------------------
(* Nothing in the list has the number of a new plugging.                   *)
LEMMA PlugInv == ASSUME IInv, NEW d \in Dacs, Plug(d) PROVE IInv'
<1>1. UNCHANGED <<deviceList, ref, drv, net>> /\ Slots' = Slots
  BY DEF Plug, Slots
<1>2. MaxPlugs \in Nat /\ plugs \in Nat /\ plugs' = plugs + 1
  BY UsbAssumption DEF IInv, BusOK, Plug
<1>3. BusOK'
  BY <1>2 DEF IInv, BusOK, Plug
<1>4. ListOK' /\ NetOK'
  <2>1. \A j \in Slots : deviceList[j].plug \in Nat /\ deviceList[j].plug <= plugs'
    BY <1>2, Elements DEF IInv, ListOK, Object
  <2>2. \A x \in Plugging : x.plug <= plugs => x.plug <= plugs'
    BY <1>2 DEF Plugging
  <2>3. ListOK'
    BY <1>1, <2>1 DEF IInv, ListOK
  <2> QED
    BY <1>1, <2>2, <2>3 DEF IInv, NetOK
<1>5. OneOpen'
  BY <1>1 DEF IInv, OneOpen
<1> QED
  BY <1>1, <1>3, <1>4, <1>5, SameRefs DEF IInv

LEMMA UnplugInv == ASSUME IInv, NEW d \in Dacs, Unplug(d) PROVE IInv'
<1>1. UNCHANGED <<deviceList, ref, drv, net, plugs, plug>> /\ Slots' = Slots
  BY DEF Unplug, Slots
<1>2. BusOK'
  BY DEF IInv, BusOK, Unplug
<1>3. ListOK' /\ NetOK'
  BY <1>1 DEF IInv, ListOK, NetOK
<1>4. OneOpen'
  BY <1>1 DEF IInv, OneOpen
<1> QED
  BY <1>1, <1>2, <1>3, <1>4, SameRefs DEF IInv

LEMMA StutterInv == ASSUME IInv, UNCHANGED vars PROVE IInv'
<1>1. Milder
  BY SameListIsMilder DEF vars
<1>2. NetOK'
  BY DEF IInv, NetOK, vars, bus, Slots
<1> QED
  BY <1>1, <1>2, MilderInv, SameRefs DEF IInv, Milder, vars

-----------------------------------------------------------------------------
LEMMA NextInv == IInv /\ [Next]_vars => IInv'
<1> SUFFICES ASSUME IInv, [Next]_vars PROVE IInv'
  OBVIOUS
<1>1. CASE Scan
  BY <1>1, VerifyInv, EnumerateInv, OpenInv, InsertInv, CleanInv, AddInv, AskNameInv,
     ScanDoneInv DEF Scan
<1>2. CASE \E j \in 1 .. MaxPlugs : RecentExpires(j)
  BY <1>2, RecentExpiresInv
<1>3. CASE \E k \in Players : WriteFrame(k) \/ Drive(k)
  BY <1>3, UsbAssumption, WriteFrameInv, LookUpInv, StatusInv, SendFrameInv, DoFrameInv DEF Drive
<1>4. CASE \E d \in Dacs : Plug(d) \/ Unplug(d)
  BY <1>4, PlugInv, UnplugInv
<1>5. CASE UNCHANGED vars
  BY <1>5, StutterInv
<1> QED
  BY <1>1, <1>2, <1>3, <1>4, <1>5 DEF Next

LEMMA Invariance == Spec => []IInv
  BY InitInv, NextInv, PTL DEF Spec

(* A name that is known stays with its slot.                               *)
Keeps ==
    \A j \in Slots :
        j \in Slots' /\ (deviceList[j].named => /\ deviceList'[j].named
                                              /\ deviceList'[j].dac = deviceList[j].dac)

LEMMA MilderKeeps == Milder => Keeps
  BY DEF Milder, Keeps

LEMMA StepKeeps == ASSUME IInv, [Next]_vars PROVE Keeps
<1>1. CASE UNCHANGED deviceList
  BY <1>1 DEF Keeps, Slots
<1>2. CASE Milder
  BY <1>2, MilderKeeps
<1>3. CASE Insert
  <2>1. PICK at, o : Inserted(at, o)
    BY <1>3, InsertInserts
  <2> QED
    BY <2>1 DEF Inserted, Keeps
<1>4. CASE AskName
  <2>1. net.i \in Slots
    BY <1>4 DEF IInv, NetOK, AskName
  <2> QED
    BY <1>1, <1>4, <2>1, NamedList DEF AskName, Keeps
<1>5. CASE Scan
  <2>1. CASE Verify
    BY <1>2, <2>1, VerifyInv
  <2>2. CASE Enumerate \/ Open \/ Clean \/ Add \/ ScanDone
    BY <1>1, <2>2 DEF Enumerate, Open, Clean, Add, ScanDone
  <2> QED
    BY <1>3, <1>4, <1>5, <2>1, <2>2 DEF Scan
<1>6. CASE \E j \in 1 .. MaxPlugs : RecentExpires(j)
  BY <1>2, <1>6, RecentExpiresInv
<1>7. CASE \E k \in Players : WriteFrame(k) \/ Drive(k)
  <2>1. PICK k \in Drivers : WriteFrame(k) \/ Drive(k)
    BY <1>7, UsbAssumption
  <2>2. CASE WriteFrame(k) \/ LookUp(k) \/ DoFrame(k)
    BY <1>1, <2>2 DEF WriteFrame, LookUp, DoFrame
  <2>3. CASE Status(k) \/ SendFrame(k)
    BY <1>2, <2>3, StatusInv, SendFrameInv
  <2> QED
    BY <2>1, <2>2, <2>3 DEF Drive
<1>8. CASE \E d \in Dacs : Plug(d) \/ Unplug(d)
  BY <1>1, <1>8 DEF Plug, Unplug
<1>9. CASE UNCHANGED vars
  BY <1>1, <1>9 DEF vars
<1> QED
  BY <1>5, <1>6, <1>7, <1>8, <1>9 DEF Next

(* Every step of the scan, of the drivers and of the bus keeps the types:  *)
(* the drivers only look up numbers that are in the list.                  *)
THEOREM SpecTypeOK == Spec => []TypeOK
  BY Invariance, IInvTypes, PTL

(* refreshDacReferences: for any number of DACs, whichever of them fail,   *)
(* and whichever reference a driver drops in between, the two never stand  *)
(* for one DAC, neither by one number nor by two.                          *)
THEOREM SpecRefsApart == Spec => []RefsApart
  BY Invariance, Apart, PTL

(* ReScanDevices: however often DACs come and go, and whichever fail to    *)
(* tell their names, a DAC whose name is known keeps its number.           *)
THEOREM SpecNumbersKept == Spec => NumbersKept
<1>1. IInv /\ [Next]_vars => [Keeps]_vars
  BY StepKeeps
<1>2. [][Keeps]_vars => NumbersKept
  BY PTL DEF NumbersKept, Keeps
<1> QED
  BY <1>1, <1>2, Invariance, PTL DEF Spec
=============================================================================
