--------------------------- MODULE UsbSource_proof ---------------------------
(***************************************************************************)
(* Proofs about UsbSource: its types, the limit of the queue, and that the *)
(* answer in transfer is left alone.                                       *)
(*                                                                         *)
(* The limit is that of what the queue has and what it may still get: the  *)
(* chunks in the endpoint and with the thread, and a frame for every       *)
(* answer that there is room.  No step makes it more, but the one that     *)
(* gives a new answer, and that one looks at the queue.                    *)
(***************************************************************************)
EXTENDS UsbSource, TLAPS

ToCome(answered) == IF answered THEN MaxParts ELSE 0

(* The answer in the buffer has still to reach the host.                   *)
Unread == tx \in {"look", "write"} /\ txSize /\ txBuffer = "ready"

Promised ==
    queue + left + bulkIn + ToCome(host = "ready") + ToCome(Unread) + ToCome(response = "ready")

PromisedBounded == Promised <= Threshold + 5 * MaxParts

(* An answer is written out only while the buffer is occupied.             *)
WritesAnswer == tx = "write" => txSize

(* rx_int_thread has an answer to send while it is about to.                *)
Prepared == int \in {"respond", "retry"} => response # "none"

IInv == TypeOK /\ WritesAnswer /\ Prepared /\ PromisedBounded

LEMMA InitInv == Init => IInv
<1> SUFFICES ASSUME Init PROVE IInv
  OBVIOUS
<1> USE PartsAssumption, EnoughAssumption
<1>1. TypeOK
  <2>1. recent \in BOOLEAN /\ txSize \in BOOLEAN
    BY DEF Init
  <2>2. intIn \in Commands \cup {NoCommand}
    BY DEF Init
  <2> QED
    BY <2>1, <2>2 DEF Init, TypeOK
<1>2. WritesAnswer
  BY DEF Init, WritesAnswer
<1>3. PromisedBounded
  BY DEF Init, PromisedBounded, Promised, ToCome, Unread, Threshold
<1>4. Prepared
  BY DEF Init, Prepared
<1> QED
  BY <1>1, <1>2, <1>3, <1>4 DEF IInv

(* The steps of Bulk preserve the invariant. *)
LEMMA BulkInv == IInv /\ Bulk => IInv'
<1> SUFFICES ASSUME IInv PROVE (Bulk) => IInv'
  OBVIOUS
<1> USE PartsAssumption, EnoughAssumption DEF IInv, endpoints, answer, bulkThread, intThread
<1>1. ASSUME BulkRead PROVE IInv'
  <2>1. TypeOK'
    BY <1>1 DEF TypeOK, BulkRead
  <2>2. WritesAnswer'
    BY <1>1 DEF WritesAnswer, TypeOK, BulkRead
  <2>3. PromisedBounded'
    BY <1>1 DEF PromisedBounded, Promised, ToCome, Unread, Threshold, WritesAnswer, TypeOK, BulkRead
  <2>4. Prepared'
    BY <1>1 DEF Prepared, TypeOK, BulkRead
  <2> QED
    BY <2>1, <2>2, <2>3, <2>4
<1>2. ASSUME Request PROVE IInv'
  <2>1. TypeOK'
    BY <1>2 DEF TypeOK, Request
  <2>2. WritesAnswer'
    BY <1>2 DEF WritesAnswer, TypeOK, Request
  <2>3. PromisedBounded'
    BY <1>2 DEF PromisedBounded, Promised, ToCome, Unread, Threshold, WritesAnswer, TypeOK, Request
  <2>4. Prepared'
    BY <1>2 DEF Prepared, TypeOK, Request
  <2> QED
    BY <2>1, <2>2, <2>3, <2>4
<1>3. ASSUME Switch PROVE IInv'
  <2>1. TypeOK'
    BY <1>3 DEF TypeOK, Switch
  <2>2. WritesAnswer'
    BY <1>3 DEF WritesAnswer, TypeOK, Switch
  <2>3. PromisedBounded'
    BY <1>3 DEF PromisedBounded, Promised, ToCome, Unread, Threshold, WritesAnswer, TypeOK, Switch
  <2>4. Prepared'
    BY <1>3 DEF Prepared, TypeOK, Switch
  <2> QED
    BY <2>1, <2>2, <2>3, <2>4
<1>4. ASSUME NEW valid \in BOOLEAN, Accept(valid) PROVE IInv'
  <2>1. TypeOK'
    BY <1>4 DEF TypeOK, Accept
  <2>2. WritesAnswer'
    BY <1>4 DEF WritesAnswer, TypeOK, Accept
  <2>3. PromisedBounded'
    BY <1>4 DEF PromisedBounded, Promised, ToCome, Unread, Threshold, WritesAnswer, TypeOK, Accept
  <2>4. Prepared'
    BY <1>4 DEF Prepared, TypeOK, Accept
  <2> QED
    BY <2>1, <2>2, <2>3, <2>4
<1>5. ASSUME Push PROVE IInv'
  <2>1. TypeOK'
    BY <1>5 DEF TypeOK, Push
  <2>2. WritesAnswer'
    BY <1>5 DEF WritesAnswer, TypeOK, Push
  <2>3. PromisedBounded'
    BY <1>5 DEF PromisedBounded, Promised, ToCome, Unread, Threshold, WritesAnswer, TypeOK, Push
  <2>4. Prepared'
    BY <1>5 DEF Prepared, TypeOK, Push
  <2> QED
    BY <2>1, <2>2, <2>3, <2>4
<1> QED
  BY <1>1, <1>2, <1>3, <1>4, <1>5 DEF Bulk

(* The steps of Interrupt preserve the invariant. *)
LEMMA InterruptInv == IInv /\ Interrupt => IInv'
<1> SUFFICES ASSUME IInv PROVE (Interrupt) => IInv'
  OBVIOUS
<1> USE PartsAssumption, EnoughAssumption DEF IInv, endpoints, answer, bulkThread, intThread
<1>1. ASSUME HandleStop PROVE IInv'
  <2>1. TypeOK'
    BY <1>1 DEF TypeOK, HandleStop
  <2>2. WritesAnswer'
    BY <1>1 DEF WritesAnswer, TypeOK, HandleStop
  <2>3. PromisedBounded'
    BY <1>1 DEF PromisedBounded, Promised, ToCome, Unread, Threshold, WritesAnswer, TypeOK, HandleStop
  <2>4. Prepared'
    BY <1>1 DEF Prepared, TypeOK, HandleStop
  <2> QED
    BY <2>1, <2>2, <2>3, <2>4
<1>2. ASSUME HandleRequest PROVE IInv'
  <2>a. response' \in {"ready", "busy", "info"} /\ (response' = "ready" => Room)
    <3>1. /\ intIn \in {GetStatus, GetInfo}
          /\ response' = CASE intIn = GetInfo -> "info"
                          [] intIn = GetStatus /\ Room -> "ready"
                          [] intIn = GetStatus /\ ~Room -> "busy"
      BY <1>2 DEF HandleRequest, Requests
    <3>2. GetStatus # GetInfo
      BY DEF GetStatus, GetInfo
    <3>3. CASE intIn = GetInfo
      BY <3>1, <3>2, <3>3, Zenon
    <3>4. CASE intIn = GetStatus /\ Room
      BY <3>1, <3>2, <3>4, Zenon
    <3>5. CASE intIn = GetStatus /\ ~Room
      BY <3>1, <3>2, <3>5, Zenon
    <3> QED
      BY <3>1, <3>3, <3>4, <3>5
  <2>b. /\ int' = "respond" /\ intIn' = NoCommand
        /\ UNCHANGED <<currentMode, queue, recent, bulkIn, txSize, txBuffer, host, bulk, left, tx, out>>
    BY <1>2 DEF HandleRequest
  <2>1. TypeOK'
    BY <2>a, <2>b DEF TypeOK
  <2>2. WritesAnswer'
    BY <2>b DEF WritesAnswer
  <2>3. PromisedBounded'
    <3>1. /\ queue \in Nat /\ left \in 0 .. MaxParts /\ bulkIn \in 0 .. MaxParts
          /\ Threshold \in Nat
      BY DEF TypeOK, Threshold
    <3>2. /\ ToCome(host = "ready") \in 0 .. MaxParts /\ ToCome(Unread) \in 0 .. MaxParts
          /\ ToCome(response = "ready") \in 0 .. MaxParts
      BY DEF ToCome
    <3>3. /\ ToCome(Unread)' = ToCome(Unread) /\ ToCome(host = "ready")' = ToCome(host = "ready")
      BY <2>b DEF ToCome, Unread
    <3>4. CASE response' = "ready"
      <4>1. queue <= Threshold
        BY <3>4, <2>a, <3>1 DEF Room, Threshold
      <4>2. ToCome(response = "ready")' = MaxParts
        BY <3>4 DEF ToCome
      <4> QED
        BY <4>1, <4>2, <2>b, <3>1, <3>2, <3>3 DEF PromisedBounded, Promised
    <3>5. CASE response' # "ready"
      <4>1. ToCome(response = "ready")' = 0
        BY <3>5 DEF ToCome
      <4> QED
        BY <4>1, <2>b, <3>1, <3>2, <3>3 DEF PromisedBounded, Promised
    <3> QED
      BY <3>4, <3>5
  <2>4. Prepared'
    BY <2>a, <2>b DEF Prepared
  <2> QED
    BY <2>1, <2>2, <2>3, <2>4
<1>3. ASSUME HandleOther PROVE IInv'
  <2>1. TypeOK'
    BY <1>3 DEF TypeOK, HandleOther
  <2>2. WritesAnswer'
    BY <1>3 DEF WritesAnswer, TypeOK, HandleOther
  <2>3. PromisedBounded'
    BY <1>3 DEF PromisedBounded, Promised, ToCome, Unread, Threshold, WritesAnswer, TypeOK, HandleOther
  <2>4. Prepared'
    BY <1>3 DEF Prepared, TypeOK, HandleOther
  <2> QED
    BY <2>1, <2>2, <2>3, <2>4
<1>4. ASSUME IntRelinquish PROVE IInv'
  <2>1. TypeOK'
    BY <1>4 DEF TypeOK, IntRelinquish
  <2>2. WritesAnswer'
    BY <1>4 DEF WritesAnswer, TypeOK, IntRelinquish
  <2>3. PromisedBounded'
    BY <1>4 DEF PromisedBounded, Promised, ToCome, Unread, Threshold, WritesAnswer, TypeOK, IntRelinquish
  <2>4. Prepared'
    BY <1>4 DEF Prepared, TypeOK, IntRelinquish
  <2> QED
    BY <2>1, <2>2, <2>3, <2>4
<1>5. ASSUME IntStore PROVE IInv'
  <2>1. TypeOK'
    BY <1>5 DEF TypeOK, IntStore
  <2>2. WritesAnswer'
    BY <1>5 DEF WritesAnswer, TypeOK, IntStore
  <2>3. PromisedBounded'
    BY <1>5 DEF PromisedBounded, Promised, ToCome, Unread, Threshold, WritesAnswer, TypeOK, IntStore
  <2>4. Prepared'
    BY <1>5 DEF Prepared, TypeOK, IntStore
  <2> QED
    BY <2>1, <2>2, <2>3, <2>4
<1>6. ASSUME Respond PROVE IInv'
  <2>a. txSize \in BOOLEAN /\ response # "none" /\ int \in {"respond", "retry"}
    BY <1>6 DEF TypeOK, Prepared, Respond
  <2>b. UNCHANGED <<currentMode, queue, recent, bulkIn, intIn, host, bulk, left, tx, out>>
    BY <1>6 DEF Respond
  <2>c. \/ int' = "retry" /\ UNCHANGED <<txSize, txBuffer, response>>
        \/ int' = "idle" /\ response' = "none" /\ UNCHANGED <<txSize, txBuffer>>
        \/ int' = "idle" /\ response' = "none" /\ ~txSize /\ txSize' = TRUE /\ txBuffer' = response
    <3>1. CASE txSize /\ int = "respond"
      BY <3>1, <1>6 DEF Respond
    <3>2. CASE txSize /\ int = "retry"
      BY <3>2, <1>6 DEF Respond
    <3>3. CASE ~txSize
      BY <3>3, <1>6 DEF Respond
    <3> QED
      BY <2>a, <3>1, <3>2, <3>3
  <2>d. txSize' \in BOOLEAN
    BY <2>a, <2>c
  <2>1. TypeOK'
    BY <2>a, <2>b, <2>c, <2>d DEF TypeOK
  <2>2. WritesAnswer'
    BY <2>b, <2>c DEF WritesAnswer
  <2>3. PromisedBounded'
    BY <2>a, <2>b, <2>c DEF PromisedBounded, Promised, ToCome, Unread, Threshold, TypeOK
  <2>4. Prepared'
    BY <2>a, <2>c DEF Prepared
  <2> QED
    BY <2>1, <2>2, <2>3, <2>4
<1> QED
  BY <1>1, <1>2, <1>3, <1>4, <1>5, <1>6 DEF Interrupt

(* The steps of Tx preserve the invariant. *)
LEMMA TxInv == IInv /\ Tx => IInv'
<1> SUFFICES ASSUME IInv PROVE (Tx) => IInv'
  OBVIOUS
<1> USE PartsAssumption, EnoughAssumption DEF IInv, endpoints, answer, bulkThread, intThread
<1>1. ASSUME TxLook PROVE IInv'
  <2>1. TypeOK'
    BY <1>1 DEF TypeOK, TxLook
  <2>2. WritesAnswer'
    BY <1>1 DEF WritesAnswer, TypeOK, TxLook
  <2>3. PromisedBounded'
    BY <1>1 DEF PromisedBounded, Promised, ToCome, Unread, Threshold, WritesAnswer, TypeOK, TxLook
  <2>4. Prepared'
    BY <1>1 DEF Prepared, TypeOK, TxLook
  <2> QED
    BY <2>1, <2>2, <2>3, <2>4
<1>2. ASSUME TxFails PROVE IInv'
  <2>1. TypeOK'
    BY <1>2 DEF TypeOK, TxFails
  <2>2. WritesAnswer'
    BY <1>2 DEF WritesAnswer, TypeOK, TxFails
  <2>3. PromisedBounded'
    BY <1>2 DEF PromisedBounded, Promised, ToCome, Unread, Threshold, WritesAnswer, TypeOK, TxFails
  <2>4. Prepared'
    BY <1>2 DEF Prepared, TypeOK, TxFails
  <2> QED
    BY <2>1, <2>2, <2>3, <2>4
<1>3. ASSUME TxReset PROVE IInv'
  <2>a. txSize' \in BOOLEAN
    BY <1>3 DEF TxReset
  <2>1. TypeOK'
    BY <1>3, <2>a DEF TypeOK, TxReset
  <2>2. WritesAnswer'
    BY <1>3 DEF WritesAnswer, TypeOK, TxReset
  <2>3. PromisedBounded'
    BY <1>3 DEF PromisedBounded, Promised, ToCome, Unread, Threshold, WritesAnswer, TypeOK, TxReset
  <2>4. Prepared'
    BY <1>3 DEF Prepared, TypeOK, TxReset
  <2> QED
    BY <2>1, <2>2, <2>3, <2>4
<1> QED
  BY <1>1, <1>2, <1>3 DEF Tx

(* The steps of Output preserve the invariant. *)
LEMMA OutputInv == IInv /\ Output => IInv'
<1> SUFFICES ASSUME IInv PROVE (Output) => IInv'
  OBVIOUS
<1> USE PartsAssumption, EnoughAssumption DEF IInv, endpoints, answer, bulkThread, intThread
<1>1. ASSUME Pop PROVE IInv'
  <2>1. TypeOK'
    BY <1>1 DEF TypeOK, Pop
  <2>2. WritesAnswer'
    BY <1>1 DEF WritesAnswer, TypeOK, Pop
  <2>3. PromisedBounded'
    BY <1>1 DEF PromisedBounded, Promised, ToCome, Unread, Threshold, WritesAnswer, TypeOK, Pop
  <2>4. Prepared'
    BY <1>1 DEF Prepared, TypeOK, Pop
  <2> QED
    BY <2>1, <2>2, <2>3, <2>4
<1>2. ASSUME Idle PROVE IInv'
  <2>1. TypeOK'
    BY <1>2 DEF TypeOK, Idle
  <2>2. WritesAnswer'
    BY <1>2 DEF WritesAnswer, TypeOK, Idle
  <2>3. PromisedBounded'
    BY <1>2 DEF PromisedBounded, Promised, ToCome, Unread, Threshold, WritesAnswer, TypeOK, Idle
  <2>4. Prepared'
    BY <1>2 DEF Prepared, TypeOK, Idle
  <2> QED
    BY <2>1, <2>2, <2>3, <2>4
<1>3. ASSUME OutRelinquish PROVE IInv'
  <2>1. TypeOK'
    BY <1>3 DEF TypeOK, OutRelinquish
  <2>2. WritesAnswer'
    BY <1>3 DEF WritesAnswer, TypeOK, OutRelinquish
  <2>3. PromisedBounded'
    BY <1>3 DEF PromisedBounded, Promised, ToCome, Unread, Threshold, WritesAnswer, TypeOK, OutRelinquish
  <2>4. Prepared'
    BY <1>3 DEF Prepared, TypeOK, OutRelinquish
  <2> QED
    BY <2>1, <2>2, <2>3, <2>4
<1>4. ASSUME OutStore PROVE IInv'
  <2>1. TypeOK'
    BY <1>4 DEF TypeOK, OutStore
  <2>2. WritesAnswer'
    BY <1>4 DEF WritesAnswer, TypeOK, OutStore
  <2>3. PromisedBounded'
    BY <1>4 DEF PromisedBounded, Promised, ToCome, Unread, Threshold, WritesAnswer, TypeOK, OutStore
  <2>4. Prepared'
    BY <1>4 DEF Prepared, TypeOK, OutStore
  <2> QED
    BY <2>1, <2>2, <2>3, <2>4
<1>5. ASSUME Written PROVE IInv'
  <2>1. TypeOK'
    BY <1>5 DEF TypeOK, Written
  <2>2. WritesAnswer'
    BY <1>5 DEF WritesAnswer, TypeOK, Written
  <2>3. PromisedBounded'
    BY <1>5 DEF PromisedBounded, Promised, ToCome, Unread, Threshold, WritesAnswer, TypeOK, Written
  <2>4. Prepared'
    BY <1>5 DEF Prepared, TypeOK, Written
  <2> QED
    BY <2>1, <2>2, <2>3, <2>4
<1> QED
  BY <1>1, <1>2, <1>3, <1>4, <1>5 DEF Output

(* The steps of Host preserve the invariant. *)
LEMMA HostInv == IInv /\ Host => IInv'
<1> SUFFICES ASSUME IInv PROVE (Host) => IInv'
  OBVIOUS
<1> USE PartsAssumption, EnoughAssumption DEF IInv, endpoints, answer, bulkThread, intThread
<1>1. ASSUME NEW command \in Commands, HostAsks(command) PROVE IInv'
  <2>1. TypeOK'
    BY <1>1 DEF TypeOK, HostAsks, Commands, GetStatus, GetInfo
  <2>2. WritesAnswer'
    BY <1>1 DEF WritesAnswer, TypeOK, HostAsks
  <2>3. PromisedBounded'
    BY <1>1 DEF PromisedBounded, Promised, ToCome, Unread, Threshold, WritesAnswer, TypeOK, HostAsks
  <2>4. Prepared'
    BY <1>1 DEF Prepared, TypeOK, HostAsks
  <2> QED
    BY <2>1, <2>2, <2>3, <2>4
<1>2. ASSUME HostReads PROVE IInv'
  <2>1. TypeOK'
    BY <1>2 DEF TypeOK, HostReads
  <2>2. WritesAnswer'
    BY <1>2 DEF WritesAnswer, TypeOK, HostReads
  <2>3. PromisedBounded'
    BY <1>2 DEF PromisedBounded, Promised, ToCome, Unread, Threshold, WritesAnswer, TypeOK, HostReads
  <2>4. Prepared'
    BY <1>2 DEF Prepared, TypeOK, HostReads
  <2> QED
    BY <2>1, <2>2, <2>3, <2>4
<1>3. ASSUME HostGivesUp PROVE IInv'
  <2>1. TypeOK'
    BY <1>3 DEF TypeOK, HostGivesUp
  <2>2. WritesAnswer'
    BY <1>3 DEF WritesAnswer, TypeOK, HostGivesUp
  <2>3. PromisedBounded'
    BY <1>3 DEF PromisedBounded, Promised, ToCome, Unread, Threshold, WritesAnswer, TypeOK, HostGivesUp
  <2>4. Prepared'
    BY <1>3 DEF Prepared, TypeOK, HostGivesUp
  <2> QED
    BY <2>1, <2>2, <2>3, <2>4
<1>4. ASSUME NEW parts \in 1 .. MaxParts, HostSends(parts) PROVE IInv'
  <2>1. TypeOK'
    BY <1>4 DEF TypeOK, HostSends
  <2>2. WritesAnswer'
    BY <1>4 DEF WritesAnswer, TypeOK, HostSends
  <2>3. PromisedBounded'
    BY <1>4 DEF PromisedBounded, Promised, ToCome, Unread, Threshold, WritesAnswer, TypeOK, HostSends
  <2>4. Prepared'
    BY <1>4 DEF Prepared, TypeOK, HostSends
  <2> QED
    BY <2>1, <2>2, <2>3, <2>4
<1> QED
  BY <1>1, <1>2, <1>3, <1>4 DEF Host

(* The steps of the other modes and of time preserve the invariant. *)
LEMMA EnvironmentInv == IInv /\ (Rival \/ HalfSecond) => IInv'
<1> SUFFICES ASSUME IInv PROVE (Rival \/ HalfSecond) => IInv'
  OBVIOUS
<1> USE PartsAssumption, EnoughAssumption DEF IInv, endpoints, answer, bulkThread, intThread
<1>1. ASSUME Rival PROVE IInv'
  <2>1. TypeOK'
    BY <1>1 DEF TypeOK, Rival
  <2>2. WritesAnswer'
    BY <1>1 DEF WritesAnswer, TypeOK, Rival
  <2>3. PromisedBounded'
    BY <1>1 DEF PromisedBounded, Promised, ToCome, Unread, Threshold, WritesAnswer, TypeOK, Rival
  <2>4. Prepared'
    BY <1>1 DEF Prepared, TypeOK, Rival
  <2> QED
    BY <2>1, <2>2, <2>3, <2>4
<1>2. ASSUME HalfSecond PROVE IInv'
  <2>a. recent' \in BOOLEAN
    BY <1>2 DEF HalfSecond
  <2>1. TypeOK'
    BY <1>2, <2>a DEF TypeOK, HalfSecond
  <2>2. WritesAnswer'
    BY <1>2 DEF WritesAnswer, TypeOK, HalfSecond
  <2>3. PromisedBounded'
    BY <1>2 DEF PromisedBounded, Promised, ToCome, Unread, Threshold, WritesAnswer, TypeOK, HalfSecond
  <2>4. Prepared'
    BY <1>2 DEF Prepared, TypeOK, HalfSecond
  <2> QED
    BY <2>1, <2>2, <2>3, <2>4
<1> QED
  BY <1>1, <1>2

LEMMA NextInv == IInv /\ [Next]_vars => IInv'
<1> SUFFICES ASSUME IInv, [Next]_vars PROVE IInv'
  OBVIOUS
<1>1. CASE UNCHANGED vars
  <2> USE <1>1 DEF IInv, vars, endpoints, answer, bulkThread, intThread
  <2>1. TypeOK'
    BY DEF TypeOK
  <2>2. WritesAnswer'
    BY DEF WritesAnswer
  <2>3. PromisedBounded'
    BY DEF PromisedBounded, Promised, ToCome, Unread
  <2>4. Prepared'
    BY DEF Prepared
  <2> QED
    BY <2>1, <2>2, <2>3, <2>4
<1>2. CASE Next
  BY <1>2, BulkInv, InterruptInv, TxInv, OutputInv, HostInv, EnvironmentInv DEF Next
<1> QED
  BY <1>1, <1>2

(* Every variable keeps its type.                                          *)
THEOREM SpecTypeOK == Spec => []TypeOK
<1>1. IInv => TypeOK
  BY DEF IInv
<1> QED
  BY <1>1, InitInv, NextInv, PTL DEF Spec

(* The queue has a limit that its code does not set, for frames of any     *)
(* length and any target of the buffered duration: the answers that there  *)
(* is room are handed on one by one, and few of them are underway.         *)
THEOREM SpecQueueBounded == Spec => []QueueBounded
<1>1. IInv => QueueBounded
  <2> SUFFICES ASSUME IInv PROVE QueueBounded
    OBVIOUS
  <2>1. left \in Nat /\ bulkIn \in Nat /\ queue \in Nat
    BY PartsAssumption DEF IInv, TypeOK
  <2>2. \A b \in BOOLEAN : ToCome(b) \in Nat
    BY PartsAssumption DEF ToCome
  <2>3. ToCome(host = "ready") \in Nat /\ ToCome(Unread) \in Nat /\ ToCome(response = "ready") \in Nat
    BY PartsAssumption DEF ToCome
  <2>4. Threshold \in Int
    BY EnoughAssumption DEF Threshold
  <2> QED
    BY <2>1, <2>3, <2>4, PartsAssumption DEF IInv, PromisedBounded, Promised, QueueBounded
<1> QED
  BY <1>1, InitInv, NextInv, PTL DEF Spec

(* send_interrupt_msg_response never changes an answer while tx_int_thread *)
(* writes it, though no lock is between them: the order of txBuffer and    *)
(* txSize in the two threads is enough.                                    *)
THEOREM SpecAnswerIntact == Spec => AnswerIntact
<1>1. IInv /\ [Next]_vars => [tx = "write" => txBuffer' = txBuffer]_vars
  <2> SUFFICES ASSUME IInv, Next, tx = "write" PROVE txBuffer' = txBuffer
    OBVIOUS
  <2> USE DEF answer
  <2>1. CASE Bulk
    BY <2>1 DEF Bulk, BulkRead, Request, Switch, Accept, Push
  <2>2. CASE Interrupt
    BY <2>2 DEF Interrupt, HandleStop, HandleRequest, HandleOther, IntRelinquish, IntStore,
                Respond, IInv, WritesAnswer
  <2>3. CASE Tx
    BY <2>3 DEF Tx, TxLook, TxFails, TxReset
  <2>4. CASE Output
    BY <2>4 DEF Output, Pop, Idle, OutRelinquish, OutStore, Written
  <2>5. CASE Host
    BY <2>5 DEF Host, HostAsks, HostReads, HostGivesUp, HostSends
  <2>6. CASE Rival \/ HalfSecond
    BY <2>6 DEF Rival, HalfSecond
  <2> QED
    BY <2>1, <2>2, <2>3, <2>4, <2>5, <2>6 DEF Next
<1> QED
  BY <1>1, InitInv, NextInv, PTL DEF Spec, AnswerIntact
=============================================================================
