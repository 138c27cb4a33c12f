--------------------------- MODULE SpiHelios_proof ---------------------------
(***************************************************************************)
(* Proofs about SpiHelios: its types, that no buffer is transferred while  *)
(* a writer copies into it, nor twice, and that no thread overwrites a     *)
(* chunk of its own.                                                       *)
(*                                                                         *)
(* The transfer takes no lock, so what protects it is a fact about the     *)
(* other buffer: from the moment a frame is found to be ready until the    *)
(* buffers are swapped the new one holds a frame, though it may be another *)
(* one by then, one that somebody is copying with the mutex held, or what  *)
(* a failed copy left of it.                                               *)
(***************************************************************************)
EXTENDS SpiHelios, TLAPS

(* The mutex is with the thread that copies or resets.                     *)
LockHeld == \A t \in Procs : pc[t] \in {"reset", "copy"} <=> lock = t

(* A writer has chunks left as long as it is not done.                     *)
ChunksLeft == \A w \in Writers : pc[w] \in {"wait", "copyLock", "copy"} => left[w] >= 1

(* A frame is in the new buffer, or being copied over it.                  *)
Fresh == (newFrameReady \/ pc[Worker] = "swap") /\ lock \notin Writers
            => data[newFrameBuffer] \in Writers \cup {"broken"}

IInv == TypeOK /\ LockHeld /\ ChunksLeft /\ Fresh /\ TransferFresh /\ OwnChunkKept

LEMMA Roles ==
    /\ Worker \in Procs /\ Resetter \in Procs /\ Writers \subseteq Procs
    /\ Worker \notin Writers /\ Resetter \notin Writers /\ Worker # Resetter
    /\ \A t \in Procs : t # None
    /\ \A w \in Writers : w # "empty" /\ w # "torn" /\ w # "broken" /\ w # "sent"
  BY SpiAssumption DEF Procs, Marks

LEMMA OtherSlot == frameBuffer \in Slots => newFrameBuffer \in Slots /\ newFrameBuffer # frameBuffer
  BY DEF newFrameBuffer, Slots

LEMMA InitInv == Init => IInv
<1> SUFFICES ASSUME Init PROVE IInv
  OBVIOUS
<1> USE SpiAssumption, Roles
<1>1. TypeOK
  <2>1. stop \in BOOLEAN /\ newFrameReady \in BOOLEAN /\ status \in BOOLEAN
    BY DEF Init
  <2>2. left \in [Writers -> 0 .. MaxChunks] /\ frameBuffer \in Slots
    BY DEF Init, Slots
  <2>3. data \in [Slots -> Writers \cup Marks]
    BY DEF Init, Marks
  <2> QED
    BY <2>1, <2>2, <2>3 DEF Init, TypeOK
<1>2. LockHeld
  BY DEF Init, LockHeld
<1>3. ChunksLeft
  BY DEF Init, ChunksLeft
<1>4. Fresh /\ TransferFresh
  BY DEF Init, Fresh, TransferFresh
<1>5. OwnChunkKept
  BY DEF Init, OwnChunkKept
<1> QED
  BY <1>1, <1>2, <1>3, <1>4, <1>5 DEF IInv

(* The steps of the worker keep the invariant.                             *)
LEMMA WorkInv == IInv /\ Work => IInv'
<1> SUFFICES ASSUME IInv PROVE Work => IInv'
  OBVIOUS
<1> USE SpiAssumption, Roles, OtherSlot DEF IInv, device, Slots, Marks
<1>1. ASSUME AwaitFrame PROVE IInv'
  <2> USE <1>1 DEF AwaitFrame, WaitEvent, Goto
  <2>b. stop' \in BOOLEAN /\ newFrameReady' \in BOOLEAN /\ status' \in BOOLEAN
    BY DEF TypeOK
  <2>1. TypeOK'
    BY <2>b DEF TypeOK, ChunksLeft
  <2>2. LockHeld'
    BY DEF LockHeld, TypeOK
  <2>3. ChunksLeft'
    BY DEF ChunksLeft, TypeOK
  <2>4. Fresh'
    BY DEF Fresh, LockHeld, TypeOK, newFrameBuffer
  <2>5. TransferFresh'
    BY DEF TransferFresh, Fresh, TypeOK, newFrameBuffer
  <2>6. OwnChunkKept'
    BY DEF OwnChunkKept, LockHeld, TypeOK, newFrameBuffer
  <2> QED
    BY <2>1, <2>2, <2>3, <2>4, <2>5, <2>6 DEF IInv
<1>2. ASSUME AwaitStatus PROVE IInv'
  <2> USE <1>2 DEF AwaitStatus, WaitEvent, Goto
  <2>b. stop' \in BOOLEAN /\ newFrameReady' \in BOOLEAN /\ status' \in BOOLEAN
    BY DEF TypeOK
  <2>1. TypeOK'
    BY <2>b DEF TypeOK, ChunksLeft
  <2>2. LockHeld'
    BY DEF LockHeld, TypeOK
  <2>3. ChunksLeft'
    BY DEF ChunksLeft, TypeOK
  <2>4. Fresh'
    BY DEF Fresh, LockHeld, TypeOK, newFrameBuffer
  <2>5. TransferFresh'
    BY DEF TransferFresh, Fresh, TypeOK, newFrameBuffer
  <2>6. OwnChunkKept'
    BY DEF OwnChunkKept, LockHeld, TypeOK, newFrameBuffer
  <2> QED
    BY <2>1, <2>2, <2>3, <2>4, <2>5, <2>6 DEF IInv
<1>3. ASSUME StatusTimeout PROVE IInv'
  <2> USE <1>3 DEF StatusTimeout, Goto
  <2>b. stop' \in BOOLEAN /\ newFrameReady' \in BOOLEAN /\ status' \in BOOLEAN
    BY DEF TypeOK
  <2>1. TypeOK'
    BY <2>b DEF TypeOK, ChunksLeft
  <2>2. LockHeld'
    BY DEF LockHeld, TypeOK
  <2>3. ChunksLeft'
    BY DEF ChunksLeft, TypeOK
  <2>4. Fresh'
    BY DEF Fresh, LockHeld, TypeOK, newFrameBuffer
  <2>5. TransferFresh'
    BY DEF TransferFresh, Fresh, TypeOK, newFrameBuffer
  <2>6. OwnChunkKept'
    BY DEF OwnChunkKept, LockHeld, TypeOK, newFrameBuffer
  <2> QED
    BY <2>1, <2>2, <2>3, <2>4, <2>5, <2>6 DEF IInv
<1>4. ASSUME Check PROVE IInv'
  <2> USE <1>4 DEF Check, Goto
  <2>b. stop' \in BOOLEAN /\ newFrameReady' \in BOOLEAN /\ status' \in BOOLEAN
    BY DEF TypeOK
  <2>1. TypeOK'
    BY <2>b DEF TypeOK, ChunksLeft
  <2>2. LockHeld'
    BY DEF LockHeld, TypeOK
  <2>3. ChunksLeft'
    BY DEF ChunksLeft, TypeOK
  <2>4. Fresh'
    BY DEF Fresh, LockHeld, TypeOK, newFrameBuffer
  <2>5. TransferFresh'
    BY DEF TransferFresh, Fresh, TypeOK, newFrameBuffer
  <2>6. OwnChunkKept'
    BY DEF OwnChunkKept, LockHeld, TypeOK, newFrameBuffer
  <2> QED
    BY <2>1, <2>2, <2>3, <2>4, <2>5, <2>6 DEF IInv
<1>5. ASSUME Swap PROVE IInv'
  <2> USE <1>5 DEF Swap, Goto, WakeNewFrame, StatusSleepers
  <2>b. stop' \in BOOLEAN /\ newFrameReady' \in BOOLEAN /\ status' \in BOOLEAN
    BY DEF TypeOK
  <2>1. TypeOK'
    BY <2>b DEF TypeOK, ChunksLeft
  <2>2. LockHeld'
    BY DEF LockHeld, TypeOK
  <2>3. ChunksLeft'
    BY DEF ChunksLeft, TypeOK
  <2>4. Fresh'
    BY DEF Fresh, LockHeld, TypeOK, newFrameBuffer
  <2>5. TransferFresh'
    BY DEF TransferFresh, Fresh, TypeOK, newFrameBuffer
  <2>6. OwnChunkKept'
    BY DEF OwnChunkKept, LockHeld, TypeOK, newFrameBuffer
  <2> QED
    BY <2>1, <2>2, <2>3, <2>4, <2>5, <2>6 DEF IInv
<1>6. ASSUME Sent PROVE IInv'
  <2> USE <1>6 DEF Sent, Goto
  <2>b. stop' \in BOOLEAN /\ newFrameReady' \in BOOLEAN /\ status' \in BOOLEAN
    BY DEF TypeOK
  <2>1. TypeOK'
    BY <2>b DEF TypeOK, ChunksLeft
  <2>2. LockHeld'
    BY DEF LockHeld, TypeOK
  <2>3. ChunksLeft'
    BY DEF ChunksLeft, TypeOK
  <2>4. Fresh'
    BY DEF Fresh, LockHeld, TypeOK, newFrameBuffer
  <2>5. TransferFresh'
    BY DEF TransferFresh, Fresh, TypeOK, newFrameBuffer
  <2>6. OwnChunkKept'
    BY DEF OwnChunkKept, LockHeld, TypeOK, newFrameBuffer
  <2> QED
    BY <2>1, <2>2, <2>3, <2>4, <2>5, <2>6 DEF IInv
<1> QED
  BY <1>1, <1>2, <1>3, <1>4, <1>5, <1>6 DEF Work

(* So do the resets by the worker and by the command,                      *)
LEMMA ResetInv == IInv /\ (Reset(Worker) \/ ResetCommand \/ Discard \/ Reset(Resetter)) => IInv'
<1> SUFFICES ASSUME IInv PROVE (Reset(Worker) \/ ResetCommand \/ Discard \/ Reset(Resetter)) => IInv'
  OBVIOUS
<1> USE SpiAssumption, Roles, OtherSlot DEF IInv, device, Slots, Marks
<1>1. ASSUME NEW t \in {Worker, Resetter}, ResetBegin(t) PROVE IInv'
  <2> USE <1>1 DEF ResetBegin, Goto
  <2>b. stop' \in BOOLEAN /\ newFrameReady' \in BOOLEAN /\ status' \in BOOLEAN
    BY DEF TypeOK
  <2>1. TypeOK'
    BY <2>b DEF TypeOK, ChunksLeft
  <2>2. LockHeld'
    BY DEF LockHeld, TypeOK
  <2>3. ChunksLeft'
    BY DEF ChunksLeft, TypeOK
  <2>4. Fresh'
    BY DEF Fresh, LockHeld, TypeOK, newFrameBuffer
  <2>5. TransferFresh'
    BY DEF TransferFresh, Fresh, TypeOK, newFrameBuffer
  <2>6. OwnChunkKept'
    BY DEF OwnChunkKept, LockHeld, TypeOK, newFrameBuffer
  <2> QED
    BY <2>1, <2>2, <2>3, <2>4, <2>5, <2>6 DEF IInv
<1>2. ASSUME NEW t \in {Worker, Resetter}, ResetEnd(t) PROVE IInv'
  <2> USE <1>2 DEF ResetEnd, Return, Goto, WakeNewFrame, StatusSleepers
  <2>b. stop' \in BOOLEAN /\ newFrameReady' \in BOOLEAN /\ status' \in BOOLEAN
    BY DEF TypeOK
  <2>1. TypeOK'
    BY <2>b DEF TypeOK, ChunksLeft
  <2>2. LockHeld'
    BY DEF LockHeld, TypeOK
  <2>3. ChunksLeft'
    BY DEF ChunksLeft, TypeOK
  <2>4. Fresh'
    BY DEF Fresh, LockHeld, TypeOK, newFrameBuffer
  <2>5. TransferFresh'
    BY DEF TransferFresh, Fresh, TypeOK, newFrameBuffer
  <2>6. OwnChunkKept'
    BY DEF OwnChunkKept, LockHeld, TypeOK, newFrameBuffer
  <2> QED
    BY <2>1, <2>2, <2>3, <2>4, <2>5, <2>6 DEF IInv
<1>3. ASSUME ResetCommand PROVE IInv'
  <2> USE <1>3 DEF ResetCommand, Goto
  <2>b. stop' \in BOOLEAN /\ newFrameReady' \in BOOLEAN /\ status' \in BOOLEAN
    BY DEF TypeOK
  <2>1. TypeOK'
    BY <2>b DEF TypeOK, ChunksLeft
  <2>2. LockHeld'
    BY DEF LockHeld, TypeOK
  <2>3. ChunksLeft'
    BY DEF ChunksLeft, TypeOK
  <2>4. Fresh'
    BY DEF Fresh, LockHeld, TypeOK, newFrameBuffer
  <2>5. TransferFresh'
    BY DEF TransferFresh, Fresh, TypeOK, newFrameBuffer
  <2>6. OwnChunkKept'
    BY DEF OwnChunkKept, LockHeld, TypeOK, newFrameBuffer
  <2> QED
    BY <2>1, <2>2, <2>3, <2>4, <2>5, <2>6 DEF IInv
<1>4. ASSUME Discard PROVE IInv'
  <2> USE <1>4 DEF Discard, Goto
  <2>b. stop' \in BOOLEAN /\ newFrameReady' \in BOOLEAN /\ status' \in BOOLEAN
    BY DEF TypeOK
  <2>1. TypeOK'
    BY <2>b DEF TypeOK, ChunksLeft
  <2>2. LockHeld'
    BY DEF LockHeld, TypeOK
  <2>3. ChunksLeft'
    BY DEF ChunksLeft, TypeOK
  <2>4. Fresh'
    BY DEF Fresh, LockHeld, TypeOK, newFrameBuffer
  <2>5. TransferFresh'
    BY DEF TransferFresh, Fresh, TypeOK, newFrameBuffer
  <2>6. OwnChunkKept'
    BY DEF OwnChunkKept, LockHeld, TypeOK, newFrameBuffer
  <2> QED
    BY <2>1, <2>2, <2>3, <2>4, <2>5, <2>6 DEF IInv
<1>5. ASSUME NEW t \in {Worker, Resetter}, ResetFails(t) PROVE IInv'
  <2> USE <1>5 DEF ResetFails, Return, Goto, WakeNewFrame, StatusSleepers
  <2>b. stop' \in BOOLEAN /\ newFrameReady' \in BOOLEAN /\ status' \in BOOLEAN
    BY DEF TypeOK
  <2>1. TypeOK'
    BY <2>b DEF TypeOK, ChunksLeft
  <2>2. LockHeld'
    BY DEF LockHeld, TypeOK
  <2>3. ChunksLeft'
    BY DEF ChunksLeft, TypeOK
  <2>4. Fresh'
    BY DEF Fresh, LockHeld, TypeOK, newFrameBuffer
  <2>5. TransferFresh'
    BY DEF TransferFresh, Fresh, TypeOK, newFrameBuffer
  <2>6. OwnChunkKept'
    BY DEF OwnChunkKept, LockHeld, TypeOK, newFrameBuffer
  <2> QED
    BY <2>1, <2>2, <2>3, <2>4, <2>5, <2>6 DEF IInv
<1> QED
  BY <1>1, <1>2, <1>3, <1>4, <1>5 DEF Reset

(* the steps of the writers,                                               *)
LEMMA WriteInv == IInv /\ (\E w \in Writers : WriteFrame(w) \/ Write(w) \/ Interrupted(w)) => IInv'
<1> SUFFICES ASSUME IInv PROVE (\E w \in Writers : WriteFrame(w) \/ Write(w) \/ Interrupted(w)) => IInv'
  OBVIOUS
<1> USE SpiAssumption, Roles, OtherSlot DEF IInv, device, Slots, Marks
<1>1. ASSUME NEW w \in Writers, WriteFrame(w) PROVE IInv'
  <2> USE <1>1 DEF WriteFrame, Goto
  <2>b. stop' \in BOOLEAN /\ newFrameReady' \in BOOLEAN /\ status' \in BOOLEAN
    BY DEF TypeOK
  <2>1. TypeOK'
    BY <2>b DEF TypeOK, ChunksLeft
  <2>2. LockHeld'
    BY DEF LockHeld, TypeOK
  <2>3. ChunksLeft'
    BY DEF ChunksLeft, TypeOK
  <2>4. Fresh'
    BY DEF Fresh, LockHeld, TypeOK, newFrameBuffer
  <2>5. TransferFresh'
    BY DEF TransferFresh, Fresh, TypeOK, newFrameBuffer
  <2>6. OwnChunkKept'
    BY DEF OwnChunkKept, LockHeld, TypeOK, newFrameBuffer
  <2> QED
    BY <2>1, <2>2, <2>3, <2>4, <2>5, <2>6 DEF IInv
<1>2. ASSUME NEW w \in Writers, AwaitTurn(w) PROVE IInv'
  <2> USE <1>2 DEF AwaitTurn, WaitEvent, Goto
  <2>b. stop' \in BOOLEAN /\ newFrameReady' \in BOOLEAN /\ status' \in BOOLEAN
    BY DEF TypeOK
  <2>1. TypeOK'
    BY <2>b DEF TypeOK, ChunksLeft
  <2>2. LockHeld'
    BY DEF LockHeld, TypeOK
  <2>3. ChunksLeft'
    BY DEF ChunksLeft, TypeOK
  <2>4. Fresh'
    BY DEF Fresh, LockHeld, TypeOK, newFrameBuffer
  <2>5. TransferFresh'
    BY DEF TransferFresh, Fresh, TypeOK, newFrameBuffer
  <2>6. OwnChunkKept'
    BY DEF OwnChunkKept, LockHeld, TypeOK, newFrameBuffer
  <2> QED
    BY <2>1, <2>2, <2>3, <2>4, <2>5, <2>6 DEF IInv
<1>3. ASSUME NEW w \in Writers, CopyBegin(w) PROVE IInv'
  <2> USE <1>3 DEF CopyBegin, Goto
  <2>b. stop' \in BOOLEAN /\ newFrameReady' \in BOOLEAN /\ status' \in BOOLEAN
    BY DEF TypeOK
  <2>1. TypeOK'
    BY <2>b DEF TypeOK, ChunksLeft
  <2>2. LockHeld'
    BY DEF LockHeld, TypeOK
  <2>3. ChunksLeft'
    BY DEF ChunksLeft, TypeOK
  <2>4. Fresh'
    BY DEF Fresh, LockHeld, TypeOK, newFrameBuffer
  <2>5. TransferFresh'
    BY DEF TransferFresh, Fresh, TypeOK, newFrameBuffer
  <2>6. OwnChunkKept'
    BY DEF OwnChunkKept, LockHeld, TypeOK, newFrameBuffer
  <2> QED
    BY <2>1, <2>2, <2>3, <2>4, <2>5, <2>6 DEF IInv
<1>4. ASSUME NEW w \in Writers, CopyEnd(w) PROVE IInv'
  <2> USE <1>4 DEF CopyEnd, Copied, Goto, WakeNewFrame, StatusSleepers
  <2>b. stop' \in BOOLEAN /\ newFrameReady' \in BOOLEAN /\ status' \in BOOLEAN
    BY DEF TypeOK
  <2>1. TypeOK'
    BY <2>b DEF TypeOK, ChunksLeft
  <2>2. LockHeld'
    BY DEF LockHeld, TypeOK
  <2>3. ChunksLeft'
    BY DEF ChunksLeft, TypeOK
  <2>4. Fresh'
    BY DEF Fresh, LockHeld, TypeOK, newFrameBuffer
  <2>5. TransferFresh'
    BY DEF TransferFresh, Fresh, TypeOK, newFrameBuffer
  <2>6. OwnChunkKept'
    BY DEF OwnChunkKept, LockHeld, TypeOK, newFrameBuffer
  <2> QED
    BY <2>1, <2>2, <2>3, <2>4, <2>5, <2>6 DEF IInv
<1>5. ASSUME NEW w \in Writers, Interrupted(w) PROVE IInv'
  <2> USE <1>5 DEF Interrupted, GiveUp, Goto
  <2>b. stop' \in BOOLEAN /\ newFrameReady' \in BOOLEAN /\ status' \in BOOLEAN
    BY DEF TypeOK
  <2>1. TypeOK'
    BY <2>b DEF TypeOK, ChunksLeft
  <2>2. LockHeld'
    BY DEF LockHeld, TypeOK
  <2>3. ChunksLeft'
    BY DEF ChunksLeft, TypeOK
  <2>4. Fresh'
    BY DEF Fresh, LockHeld, TypeOK, newFrameBuffer
  <2>5. TransferFresh'
    BY DEF TransferFresh, Fresh, TypeOK, newFrameBuffer
  <2>6. OwnChunkKept'
    BY DEF OwnChunkKept, LockHeld, TypeOK, newFrameBuffer
  <2> QED
    BY <2>1, <2>2, <2>3, <2>4, <2>5, <2>6 DEF IInv
<1>6. ASSUME NEW w \in Writers, NotCopied(w) PROVE IInv'
  <2> USE <1>6 DEF NotCopied, GiveUp, Goto
  <2>b. stop' \in BOOLEAN /\ newFrameReady' \in BOOLEAN /\ status' \in BOOLEAN
    BY DEF TypeOK
  <2>1. TypeOK'
    BY <2>b DEF TypeOK, ChunksLeft
  <2>2. LockHeld'
    BY DEF LockHeld, TypeOK
  <2>3. ChunksLeft'
    BY DEF ChunksLeft, TypeOK
  <2>4. Fresh'
    BY DEF Fresh, LockHeld, TypeOK, newFrameBuffer
  <2>5. TransferFresh'
    BY DEF TransferFresh, Fresh, TypeOK, newFrameBuffer
  <2>6. OwnChunkKept'
    BY DEF OwnChunkKept, LockHeld, TypeOK, newFrameBuffer
  <2> QED
    BY <2>1, <2>2, <2>3, <2>4, <2>5, <2>6 DEF IInv
<1>7. ASSUME NEW w \in Writers, CopyFails(w) PROVE IInv'
  <2> USE <1>7 DEF CopyFails, GiveUp, Goto
  <2>b. stop' \in BOOLEAN /\ newFrameReady' \in BOOLEAN /\ status' \in BOOLEAN
    BY DEF TypeOK
  <2>1. TypeOK'
    BY <2>b DEF TypeOK, ChunksLeft
  <2>2. LockHeld'
    BY DEF LockHeld, TypeOK
  <2>3. ChunksLeft'
    BY DEF ChunksLeft, TypeOK
  <2>4. Fresh'
    BY DEF Fresh, LockHeld, TypeOK, newFrameBuffer
  <2>5. TransferFresh'
    BY DEF TransferFresh, Fresh, TypeOK, newFrameBuffer
  <2>6. OwnChunkKept'
    BY DEF OwnChunkKept, LockHeld, TypeOK, newFrameBuffer
  <2> QED
    BY <2>1, <2>2, <2>3, <2>4, <2>5, <2>6 DEF IInv
<1> QED
  BY <1>1, <1>2, <1>3, <1>4, <1>5, <1>6, <1>7 DEF Write

(* the status line and the removal.                                        *)
LEMMA EnvironmentInv == IInv /\ (StatusRises \/ RemoveBegin \/ Remove) => IInv'
<1> SUFFICES ASSUME IInv PROVE (StatusRises \/ RemoveBegin \/ Remove) => IInv'
  OBVIOUS
<1> USE SpiAssumption, Roles, OtherSlot DEF IInv, device, Slots, Marks
<1>1. ASSUME StatusRises PROVE IInv'
  <2> USE <1>1 DEF StatusRises, WakeStatus, StatusSleepers
  <2>b. stop' \in BOOLEAN /\ newFrameReady' \in BOOLEAN /\ status' \in BOOLEAN
    BY DEF TypeOK
  <2>1. TypeOK'
    BY <2>b DEF TypeOK, ChunksLeft
  <2>2. LockHeld'
    BY DEF LockHeld, TypeOK
  <2>3. ChunksLeft'
    BY DEF ChunksLeft, TypeOK
  <2>4. Fresh'
    BY DEF Fresh, LockHeld, TypeOK, newFrameBuffer
  <2>5. TransferFresh'
    BY DEF TransferFresh, Fresh, TypeOK, newFrameBuffer
  <2>6. OwnChunkKept'
    BY DEF OwnChunkKept, LockHeld, TypeOK, newFrameBuffer
  <2> QED
    BY <2>1, <2>2, <2>3, <2>4, <2>5, <2>6 DEF IInv
<1>2. ASSUME RemoveBegin PROVE IInv'
  <2> USE <1>2 DEF RemoveBegin
  <2>b. stop' \in BOOLEAN /\ newFrameReady' \in BOOLEAN /\ status' \in BOOLEAN
    BY DEF TypeOK
  <2>1. TypeOK'
    BY <2>b DEF TypeOK, ChunksLeft
  <2>2. LockHeld'
    BY DEF LockHeld, TypeOK
  <2>3. ChunksLeft'
    BY DEF ChunksLeft, TypeOK
  <2>4. Fresh'
    BY DEF Fresh, LockHeld, TypeOK, newFrameBuffer
  <2>5. TransferFresh'
    BY DEF TransferFresh, Fresh, TypeOK, newFrameBuffer
  <2>6. OwnChunkKept'
    BY DEF OwnChunkKept, LockHeld, TypeOK, newFrameBuffer
  <2> QED
    BY <2>1, <2>2, <2>3, <2>4, <2>5, <2>6 DEF IInv
<1>3. ASSUME RemoveWake PROVE IInv'
  <2> USE <1>3 DEF RemoveWake
  <2>b. stop' \in BOOLEAN /\ newFrameReady' \in BOOLEAN /\ status' \in BOOLEAN
    BY DEF TypeOK
  <2>1. TypeOK'
    BY <2>b DEF TypeOK, ChunksLeft
  <2>2. LockHeld'
    BY DEF LockHeld, TypeOK
  <2>3. ChunksLeft'
    BY DEF ChunksLeft, TypeOK
  <2>4. Fresh'
    BY DEF Fresh, LockHeld, TypeOK, newFrameBuffer
  <2>5. TransferFresh'
    BY DEF TransferFresh, Fresh, TypeOK, newFrameBuffer
  <2>6. OwnChunkKept'
    BY DEF OwnChunkKept, LockHeld, TypeOK, newFrameBuffer
  <2> QED
    BY <2>1, <2>2, <2>3, <2>4, <2>5, <2>6 DEF IInv
<1>4. ASSUME RemoveEnd PROVE IInv'
  <2> USE <1>4 DEF RemoveEnd
  <2>b. stop' \in BOOLEAN /\ newFrameReady' \in BOOLEAN /\ status' \in BOOLEAN
    BY DEF TypeOK
  <2>1. TypeOK'
    BY <2>b DEF TypeOK, ChunksLeft
  <2>2. LockHeld'
    BY DEF LockHeld, TypeOK
  <2>3. ChunksLeft'
    BY DEF ChunksLeft, TypeOK
  <2>4. Fresh'
    BY DEF Fresh, LockHeld, TypeOK, newFrameBuffer
  <2>5. TransferFresh'
    BY DEF TransferFresh, Fresh, TypeOK, newFrameBuffer
  <2>6. OwnChunkKept'
    BY DEF OwnChunkKept, LockHeld, TypeOK, newFrameBuffer
  <2> QED
    BY <2>1, <2>2, <2>3, <2>4, <2>5, <2>6 DEF IInv
<1> QED
  BY <1>1, <1>2, <1>3, <1>4 DEF Remove

LEMMA NextInv == IInv /\ [Next]_vars => IInv'
<1> SUFFICES ASSUME IInv, [Next]_vars PROVE IInv'
  OBVIOUS
<1>1. CASE UNCHANGED vars
  BY <1>1 DEF IInv, vars, device, TypeOK, LockHeld, ChunksLeft, Fresh, TransferFresh, OwnChunkKept, newFrameBuffer
<1>2. CASE Next
  BY <1>2, WorkInv, ResetInv, WriteInv, EnvironmentInv DEF Next
<1> QED
  BY <1>1, <1>2

(* Every variable keeps its type.                                          *)
THEOREM SpecTypeOK == Spec => []TypeOK
<1>1. IInv => TypeOK
  BY DEF IInv
<1> QED
  BY <1>1, InitInv, NextInv, PTL DEF Spec

(* spi_worker sends frameBuffer without the mutex: whatever the writers    *)
(* copy, fail to copy and the reset command discards meanwhile, for any    *)
(* number of writers, nobody copies into what it sends, and it was not     *)
(* sent before.                                                            *)
THEOREM SpecTransferFresh == Spec => []TransferFresh
<1>1. IInv => TransferFresh
  BY DEF IInv
<1> QED
  BY <1>1, InitInv, NextInv, PTL DEF Spec

(* writeFrame splits a frame in chunks and the driver takes one at a time: *)
(* a thread never overwrites its own.                                      *)
THEOREM SpecOwnChunkKept == Spec => []OwnChunkKept
<1>1. IInv => OwnChunkKept
  BY DEF IInv
<1> QED
  BY <1>1, InitInv, NextInv, PTL DEF Spec
=============================================================================
