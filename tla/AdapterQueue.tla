----------------------------- MODULE AdapterQueue -----------------------------
(***************************************************************************)
(* The way of a taxi buffer through the output of a laser projector:       *)
(* STDLaproGraphicOutput puts it into the queue of its adapter and takes   *)
(* it back as trash (network thread), DACHWInterface::getNextBuffer peeks, *)
(* decodes and reads it (driver thread), and AdapterBase is the queue:     *)
(* ring buffers, each linked to the next, twice as large one by its last   *)
(* entry.  The server moves head and tail, the driver moves the caret in   *)
(* between; the two threads share no lock for the queue.  Only enabling    *)
(* and disabling takes the mutex (cmdMutex) the driver holds while it has  *)
(* the pointer to a buffer.                                                *)
(*                                                                         *)
(* An action is what a thread does up to its next access to something the  *)
(* other thread writes.  The fences of the code order the stores of a      *)
(* thread, so the memory is taken as sequentially consistent.              *)
(***************************************************************************)
EXTENDS Integers, Sequences, FiniteSets

CONSTANTS
    Buffers,      \* taxi buffers
    Decoders,     \* addresses of decoder objects
    None,         \* null pointer
    Link,         \* an entry with the LSB set: the next queue buffer
    LastBlock,    \* bound: queue buffers are 0 .. LastBlock, malloc fails then
    Size          \* entries of every queue buffer, 16 of the first in the code

Blocks == 0 .. LastBlock

(* allocQueue: every queue buffer has twice the entries of the one before. *)
ASSUME SizeAssumption ==
    /\ LastBlock \in Nat
    /\ Size \in [Blocks -> Nat]
    /\ Size[0] > 1
    /\ \A q \in Blocks \ {0} : Size[q] = 2 * Size[q - 1]

ASSUME EntryAssumption ==
    /\ None \notin Buffers /\ Link \notin Buffers /\ Link # None
    /\ None \notin Decoders
    /\ IsFiniteSet(Buffers)

Indices(q) == 0 .. Size[q] - 1
Cells == UNION {{q} \X Indices(q) : q \in Blocks}

VARIABLES
    spc,        \* network thread: where it is in the output's methods
    incoming,   \* the buffer the network thread is about to put
    opMode,     \* operation mode of the output; "down" after the shutdown
    enabled,    \* enabledFlag of the adapter, written under the mutex
    headQ, caretQ, tailQ,   \* queue buffers of head, caret and tail
    head, caret, tail,      \* indices of every queue buffer
    ring,       \* entries of the queue buffers
    dpc,        \* driver thread: where it is in getNextBuffer
    holding,    \* the taxi buffer the driver thread has a pointer to
    pool,       \* discarded buffers, free for the next datagram
    decoder,    \* the decoder of the inlet
    memo,       \* decoder in the memo area of a buffer
    refCount    \* reference counts of the decoders, 0: deleted

queue   == <<headQ, caretQ, tailQ, head, caret, tail, ring>>
refs    == <<decoder, memo, refCount>>
vars    == <<spc, incoming, opMode, enabled, queue, dpc, holding, pool, refs>>

(* Fault: the index does not wrap around.                                  *)
SuccUnwrapped(q, i) == i + 1

Succ(q, i) == (i + 1) % Size[q]

(* Fault: no room is kept for the link.                                    *)
FullByOne(q) == (head[q] + 1) % Size[q] = tail[q]

Full(q) == (head[q] + 2) % Size[q] = tail[q]

(* Faults: a reference is not counted, a reference is not given back.      *)
RefNotTaken(count, d) == count
RefNotGivenBack(count, d) == count

(* DecoderBase::refInc, refDec: the last reference deletes the decoder.    *)
RefInc(count, d) == IF d = None THEN count ELSE [count EXCEPT ![d] = @ + 1]
RefDec(count, d) == IF d = None THEN count ELSE [count EXCEPT ![d] = @ - 1]

-----------------------------------------------------------------------------
(* Network thread.                                                         *)

(* STDLaproGraphicOutput::open.  A flushing output did not stop the        *)
(* adapter; an idle one enables it, under the mutex.                       *)
Open ==
    /\ spc = "idle"
    /\ opMode \in {"idle", "flushing"}
    /\ opMode = "idle" => dpc = "out"
    /\ opMode' = "active"
    /\ enabled' = TRUE
    /\ UNCHANGED <<spc, incoming, queue, dpc, holding, pool, refs>>

(* IDNLaproGraphInlet::createDecoder: the old decoder loses the reference  *)
(* of the inlet, the new one starts with one reference.                    *)
CreateDecoder(d) ==
    LET dropped == RefDec(refCount, decoder)
    IN  /\ spc = "idle"
        /\ dropped[d] = 0
        /\ decoder' = d
        /\ refCount' = [dropped EXCEPT ![d] = 1]
        /\ UNCHANGED <<spc, incoming, opMode, enabled, queue, dpc, holding, pool, memo>>

(* IDNLaproGraphInlet::invalidateConfig, reset                             *)
DropDecoder ==
    /\ spc = "idle"
    /\ decoder # None
    /\ refCount' = RefDec(refCount, decoder)
    /\ decoder' = None
    /\ UNCHANGED <<spc, incoming, opMode, enabled, queue, dpc, holding, pool, memo>>

(* STDLaproGraphicOutput::process: a received buffer gets its memo area.   *)
Process(b) ==
    /\ spc = "idle"
    /\ opMode = "active"
    /\ decoder # None
    /\ b \in pool
    /\ pool' = pool \ {b}
    /\ memo' = [memo EXCEPT ![b] = decoder]
    /\ refCount' = RefInc(refCount, decoder)
    /\ incoming' = b
    /\ spc' = "put"
    /\ UNCHANGED <<opMode, enabled, queue, dpc, holding, decoder>>

(* AdapterBase::putBuffer.  A full ring gets the next queue buffer as its  *)
(* last entry ...                                                          *)
PutLink ==
    /\ spc = "put"
    /\ enabled
    /\ Full(headQ)
    /\ headQ < LastBlock
    /\ ring' = [ring EXCEPT ![<<headQ, head[headQ]>>] = Link]
    /\ spc' = "link"
    /\ UNCHANGED <<incoming, opMode, enabled, headQ, caretQ, tailQ, head, caret,
                   tail, dpc, holding, pool, refs>>

(* ... whose head moves after the entry is written ...                     *)
MoveHeadToLink ==
    /\ spc = "link"
    /\ head' = [head EXCEPT ![headQ] = Succ(headQ, @)]
    /\ headQ' = headQ + 1
    /\ spc' = "linked"
    /\ UNCHANGED <<incoming, opMode, enabled, caretQ, tailQ, caret, tail, ring,
                   dpc, holding, pool, refs>>

(* ... and the buffer goes to the new one.                                 *)
PutEntry ==
    /\ \/ spc = "put" /\ enabled /\ ~Full(headQ)
       \/ spc = "linked"
    /\ ring' = [ring EXCEPT ![<<headQ, head[headQ]>>] = incoming]
    /\ spc' = "entry"
    /\ UNCHANGED <<incoming, opMode, enabled, headQ, caretQ, tailQ, head, caret,
                   tail, dpc, holding, pool, refs>>

(* The head moves last, it makes the entry visible to the driver.          *)
MoveHead ==
    /\ spc = "entry"
    /\ head' = [head EXCEPT ![headQ] = Succ(headQ, @)]
    /\ incoming' = None
    /\ spc' = "recycle"
    /\ UNCHANGED <<opMode, enabled, headQ, caretQ, tailQ, caret, tail, ring, dpc,
                   holding, pool, refs>>

(* The adapter is disabled or there is no memory for a larger queue: the   *)
(* output discards the buffer itself.                                      *)
PutFails ==
    /\ spc = "put"
    /\ ~enabled \/ Full(headQ)
    /\ refCount' = RefDec(refCount, memo[incoming])
    /\ pool' = pool \cup {incoming}
    /\ incoming' = None
    /\ spc' = "recycle"
    /\ UNCHANGED <<opMode, enabled, queue, dpc, holding, decoder, memo>>

(* STDLaproGraphicOutput::recycle with AdapterBase::getTrash.              *)
TrashEntry == ring[<<tailQ, tail[tailQ]>>]
(* Fault: the tail runs up to the head instead of the caret.               *)
TrashUpToHead == tail[tailQ] # head[tailQ]

TrashLeft == tail[tailQ] # caret[tailQ]

(* What is left in a recycled cell is never read again, so it is cleared.  *)
Recycle ==
    /\ spc = "recycle"
    /\ TrashLeft
    /\ TrashEntry \in Buffers
    /\ refCount' = RefDec(refCount, memo[TrashEntry])
    /\ memo' = [memo EXCEPT ![TrashEntry] = None]
    /\ pool' = pool \cup {TrashEntry}
    /\ tail' = [tail EXCEPT ![tailQ] = Succ(tailQ, @)]
    /\ ring' = [ring EXCEPT ![<<tailQ, tail[tailQ]>>] = None]
    /\ UNCHANGED <<spc, incoming, opMode, enabled, headQ, caretQ, tailQ, head,
                   caret, dpc, holding, decoder>>

(* The tail queue is freed when its link to the next one is trash.         *)
FreeQueue ==
    /\ spc = "recycle"
    /\ TrashLeft
    /\ TrashEntry = Link
    /\ tail' = [tail EXCEPT ![tailQ] = Succ(tailQ, @)]
    /\ tailQ' = tailQ + 1
    /\ UNCHANGED <<spc, incoming, opMode, enabled, headQ, caretQ, head, caret, ring,
                   dpc, holding, pool, refs>>

(* Fault: the recycling ends although trash is left.                       *)
RecycledEarly ==
    /\ spc = "recycle"
    /\ spc' = "idle"
    /\ UNCHANGED <<incoming, opMode, enabled, queue, dpc, holding, pool, refs>>

Recycled ==
    /\ spc = "recycle"
    /\ ~TrashLeft
    /\ spc' = "idle"
    /\ UNCHANGED <<incoming, opMode, enabled, queue, dpc, holding, pool, refs>>

(* STDLaproGraphicOutput::close tries a graceful stop and recycles.        *)
Close ==
    /\ spc = "idle"
    /\ opMode = "active"
    /\ spc' = "stop"
    /\ UNCHANGED <<incoming, opMode, enabled, queue, dpc, holding, pool, refs>>

(* Faults: no retry of the graceful stop, no recycling while active.       *)
HousekeepingWithoutRetry ==
    /\ spc = "idle"
    /\ opMode \in {"active", "flushing"}
    /\ spc' = "recycle"
    /\ UNCHANGED <<incoming, opMode, enabled, queue, dpc, holding, pool, refs>>

HousekeepingOfFlushing ==
    /\ spc = "idle"
    /\ opMode = "flushing"
    /\ spc' = "stop"
    /\ UNCHANGED <<incoming, opMode, enabled, queue, dpc, holding, pool, refs>>

(* STDLaproGraphicOutput::housekeeping of an output that is not idle.      *)
Housekeeping ==
    /\ spc = "idle"
    /\ opMode \in {"active", "flushing"}
    /\ spc' = IF opMode = "flushing" THEN "stop" ELSE "recycle"
    /\ UNCHANGED <<incoming, opMode, enabled, queue, dpc, holding, pool, refs>>

(* gracefulStop: the adapter is busy, the output flushes.                  *)
StopRefused ==
    /\ \/ spc = "stop" /\ caretQ # headQ
       \/ spc = "stopCaret" /\ caret[headQ] # head[headQ]
    /\ opMode' = "flushing"
    /\ spc' = "recycle"
    /\ UNCHANGED <<incoming, enabled, queue, dpc, holding, pool, refs>>

(* Fault: only the queues are compared, not the indices.                   *)
StopQueuesChecked ==
    /\ \/ spc = "stop" /\ caretQ = headQ /\ spc' = "stopCaret"
       \/ spc = "stopCaret" /\ spc' = "disable"
    /\ UNCHANGED <<incoming, opMode, enabled, queue, dpc, holding, pool, refs>>

(* AdapterBase::stop(true) compares first the queues, then the indices.    *)
StopChecked ==
    /\ \/ spc = "stop" /\ caretQ = headQ /\ spc' = "stopCaret"
       \/ spc = "stopCaret" /\ caret[headQ] = head[headQ] /\ spc' = "disable"
    /\ UNCHANGED <<incoming, opMode, enabled, queue, dpc, holding, pool, refs>>

(* DACHWInterface::disable                                                 *)
Disable ==
    /\ spc = "disable"
    /\ dpc = "out"
    /\ enabled' = FALSE
    /\ spc' = "discard"
    /\ UNCHANGED <<incoming, opMode, queue, dpc, holding, pool, refs>>

(* Rest of AdapterBase::stop: the caret is replaced by the head.  No       *)
(* mutex: the driver may be in its critical section again.                 *)
DiscardCaret ==
    /\ spc = "discard"
    /\ caretQ' = headQ
    /\ caret' = [caret EXCEPT ![headQ] = head[headQ]]
    /\ opMode' = IF opMode = "down" THEN "down" ELSE "idle"
    /\ spc' = "recycle"
    /\ UNCHANGED <<incoming, enabled, headQ, tailQ, head, tail, ring, dpc, holding,
                   pool, refs>>

(* housekeeping with the shutdown flag: stop(false) without the checks.    *)
(* It is the last thing the thread does with the output.                   *)
ForcedStop ==
    /\ spc = "idle"
    /\ opMode \in {"active", "flushing"}
    /\ opMode' = "down"
    /\ spc' = "disable"
    /\ UNCHANGED <<incoming, enabled, queue, dpc, holding, pool, refs>>

-----------------------------------------------------------------------------
(* Driver thread: one round of the loop in getNextBuffer.  The mutex is    *)
(* held in all states but "out".                                           *)

Lock ==
    /\ dpc = "out"
    /\ dpc' = "peek"
    /\ UNCHANGED <<spc, incoming, opMode, enabled, queue, holding, pool, refs>>

CaretEmpty == caret[caretQ] = head[caretQ]
CaretEntry == ring[<<caretQ, caret[caretQ]>>]

PeekEmpty ==
    /\ dpc = "peek"
    /\ CaretEmpty
    /\ dpc' = "out"
    /\ UNCHANGED <<spc, incoming, opMode, enabled, queue, holding, pool, refs>>

PeekBuffer ==
    /\ dpc = "peek"
    /\ ~CaretEmpty
    /\ CaretEntry # Link
    /\ holding' = CaretEntry
    /\ dpc' = "decode"
    /\ UNCHANGED <<spc, incoming, opMode, enabled, queue, pool, refs>>

(* The caret of the old queue passes the link ...                          *)
PeekLink ==
    /\ dpc = "peek"
    /\ ~CaretEmpty
    /\ CaretEntry = Link
    /\ caret' = [caret EXCEPT ![caretQ] = Succ(caretQ, @)]
    /\ dpc' = "switch"
    /\ UNCHANGED <<spc, incoming, opMode, enabled, headQ, caretQ, tailQ, head, tail,
                   ring, holding, pool, refs>>

(* ... before the caret queue is replaced.  The server may have freed the  *)
(* old queue in between.                                                   *)
SwitchQueue ==
    /\ dpc = "switch"
    /\ caretQ' = caretQ + 1
    /\ dpc' = "peek"
    /\ UNCHANGED <<spc, incoming, opMode, enabled, headQ, tailQ, head, caret, tail,
                   ring, holding, pool, refs>>

(* The samples are decoded out of the buffer, with the decoder of its memo. *)
Decode ==
    /\ dpc = "decode"
    /\ dpc' = "read"
    /\ UNCHANGED <<spc, incoming, opMode, enabled, queue, holding, pool, refs>>

(* readCaret: from now on the buffer is trash, the server may discard it.  *)
(* After a forced stop there is nothing to read any more.                  *)
ReadCaret ==
    /\ dpc = "read"
    /\ caret' = IF CaretEmpty THEN caret ELSE [caret EXCEPT ![caretQ] = Succ(caretQ, @)]
    /\ dpc' = "memo"
    /\ UNCHANGED <<spc, incoming, opMode, enabled, headQ, caretQ, tailQ, head, tail,
                   ring, holding, pool, refs>>

(* The length of the samples is compared with the count in the memo area   *)
(* of the buffer, which the server may have discarded.                     *)
CompareCount ==
    /\ dpc = "memo"
    /\ holding' = None
    /\ dpc' = "out"
    /\ UNCHANGED <<spc, incoming, opMode, enabled, queue, pool, refs>>

-----------------------------------------------------------------------------
Init ==
    /\ spc = "idle"
    /\ incoming = None
    /\ opMode = "idle"
    /\ enabled = FALSE
    /\ headQ = 0 /\ caretQ = 0 /\ tailQ = 0
    /\ head = [q \in Blocks |-> 0]
    /\ caret = [q \in Blocks |-> 0]
    /\ tail = [q \in Blocks |-> 0]
    /\ ring = [p \in Cells |-> None]
    /\ dpc = "out"
    /\ holding = None
    /\ pool = Buffers
    /\ decoder = None
    /\ memo = [b \in Buffers |-> None]
    /\ refCount = [d \in Decoders |-> 0]

(* What the server runs once it has begun, up to the end of the method.    *)
ServerStep ==
    \/ PutLink \/ MoveHeadToLink \/ PutEntry \/ MoveHead \/ PutFails
    \/ Recycle \/ FreeQueue \/ Recycled
    \/ StopRefused \/ StopChecked \/ Disable \/ DiscardCaret

Driver ==
    \/ Lock \/ PeekEmpty \/ PeekBuffer \/ PeekLink \/ SwitchQueue
    \/ Decode \/ ReadCaret \/ CompareCount

Next ==
    \/ Open \/ Close \/ Housekeeping
    \/ \E d \in Decoders : CreateDecoder(d)
    \/ DropDecoder
    \/ \E b \in Buffers : Process(b)
    \/ ServerStep
    \/ Driver

(* The network loop turns every 20 ms and does its housekeeping; the       *)
(* driver loop never ends.  The driver leaves the mutex for the time of    *)
(* its output or of a sleep, so that the server gets it.                   *)
Fairness ==
    /\ WF_vars(ServerStep)
    /\ SF_vars(Disable)
    /\ SF_vars(Housekeeping)
    /\ WF_vars(Driver)

(* The output in service.                                                  *)
Spec == Init /\ [][Next]_vars /\ Fairness

(* The output with the forced stop at the shutdown.                        *)
ShutdownSpec == Init /\ [][Next \/ ForcedStop]_vars

-----------------------------------------------------------------------------
(* Properties.                                                             *)

ServerPCs == {"idle", "put", "link", "linked", "entry", "recycle", "stop",
              "stopCaret", "disable", "discard"}
DriverPCs == {"out", "peek", "switch", "decode", "read", "memo"}

(* Every variable has its type, every index is within its queue buffer.    *)
TypeOK ==
    /\ spc \in ServerPCs
    /\ incoming \in Buffers \cup {None}
    /\ opMode \in {"idle", "active", "flushing", "down"}
    /\ enabled \in BOOLEAN
    /\ headQ \in Blocks /\ caretQ \in Blocks /\ tailQ \in Blocks
    /\ head \in [Blocks -> Nat] /\ caret \in [Blocks -> Nat] /\ tail \in [Blocks -> Nat]
    /\ \A q \in Blocks : {head[q], caret[q], tail[q]} \subseteq Indices(q)
    /\ ring \in [Cells -> Buffers \cup {Link, None}]
    /\ dpc \in DriverPCs
    /\ holding \in Buffers \cup {None}
    /\ pool \subseteq Buffers
    /\ decoder \in Decoders \cup {None}
    /\ memo \in [Buffers -> Decoders \cup {None}]
    /\ refCount \in [Decoders -> Nat]

(* Cells of queue q from index i up to index j, exclusively.               *)
Stretch(q, i, j) == {<<q, (i + n) % Size[q]>> : n \in 0 .. ((j - i) % Size[q]) - 1}

InUse == UNION {Stretch(q, tail[q], head[q]) : q \in tailQ .. headQ}

(* A buffer is in one place: discarded, on its way into the queue, or in   *)
(* one entry between tail and head.  None is leaked when the queue grows,  *)
(* when a put fails or when the driver changes queues, none is queued      *)
(* twice.                                                                  *)
BuffersConserved ==
    \A b \in Buffers :
        Cardinality({p \in InUse : ring[p] = b})
          + (IF b \in pool THEN 1 ELSE 0) + (IF b = incoming THEN 1 ELSE 0) = 1

(* From the look at the caret until readCaret hands the buffer over, it is *)
(* not discarded and its decoder is not deleted, even if the inlet was     *)
(* reconfigured or invalidated meanwhile.  This says nothing of the access *)
(* after readCaret: see NotReadAfterDiscard.                               *)
SafeUntilRead ==
    dpc \in {"decode", "read"} =>
        /\ holding \in Buffers \ pool
        /\ memo[holding] # None /\ refCount[memo[holding]] > 0

(* DACHWInterface::getNextBuffer: "No more taxi buffer access! The tail    *)
(* follows the caret and the buffer will be discarded." - the driver does  *)
(* not look into a discarded buffer for the sample count of its memo.      *)
NotReadAfterDiscard == dpc = "memo" => holding \notin pool

(* The reference count of a decoder is the number of its users: deleted    *)
(* too late is a leak, too early a stale pointer.                          *)
RefCountExact ==
    \A d \in Decoders :
        refCount[d] = Cardinality({b \in Buffers \ pool : memo[b] = d})
                        + (IF decoder = d THEN 1 ELSE 0)

(* The driver never looks into a queue buffer the server has freed, and    *)
(* every live queue but the last ends in a link to the next one.           *)
QueuesLinked ==
    /\ caretQ <= headQ
    /\ tailQ <= (IF dpc = "switch" THEN caretQ + 1 ELSE caretQ)
    /\ \A q \in tailQ .. headQ - 1 :
          \E p \in Stretch(q, tail[q], head[q]) : Succ(q, p[2]) = head[q] /\ ring[p] = Link

(* A graceful stop leaves nothing behind: an idle output has a disabled    *)
(* adapter, an empty queue and has discarded every buffer.                 *)
StoppedEmpty ==
    (opMode = "idle" /\ spc = "idle") =>
        ~enabled /\ pool = Buffers /\ headQ = tailQ

(* AdapterBase::stop: "Adapter is stopped and not accessing the queue any  *)
(* more!" - once the adapter is disabled the driver works on no buffer.    *)
StoppedNotReading == ~enabled => dpc \notin {"decode", "read"}

(* An output that flushes comes to its end: it is idle or opened again.    *)
FlushEnds == opMode = "flushing" ~> opMode # "flushing"

(* A buffer that was read is discarded in the end, although only the       *)
(* server can do that and the driver does not tell it.                     *)
BuffersComeBack == \A b \in Buffers : b \notin pool ~> b \in pool

(* Cells from indices "from" up to indices "to" of the queues q .. r that  *)
(* hold a buffer, and the order in which indices that start at "from" come *)
(* to them.                                                                *)
Held(q, r, from, to, entry) ==
    {p \in UNION {Stretch(n, from[n], to[n]) : n \in q .. r} : entry[p] # Link}

Distance(from, p) == (p[2] - from[p[1]]) % Size[p[1]]

Earlier(from, p, r) ==
    \/ p[1] < r[1]
    \/ p[1] = r[1] /\ Distance(from, p) < Distance(from, r)

(* What the cells S hold, in that order.                                   *)
Rank(S, from, p) == Cardinality({r \in S : Earlier(from, r, p)})

Listing(S, from, entry) ==
    [n \in 1 .. Cardinality(S) |-> entry[CHOOSE p \in S : Rank(S, from, p) = n - 1]]

Waiting == Held(caretQ, headQ, caret, head, ring)
Trash   == Held(tailQ, caretQ, tail, caret, ring)

Conveyor ==
    INSTANCE TaxiConveyor WITH
        waiting <- Listing(Waiting, caret, ring),
        trash <- Listing(Trash, tail, ring)

(* The queue is a conveyor: in order, nothing lost, nothing read twice,    *)
(* nothing collected that was not read, through all its ring buffers.      *)
(* (That what waits is read follows, with this, from BuffersComeBack.)     *)
ConveyorSpec == Conveyor!Spec
=============================================================================
