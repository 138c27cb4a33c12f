-------------------------- MODULE OutputArbiter_proof --------------------------
(***************************************************************************)
(* Proofs about OutputArbiter, for any number of driver threads and        *)
(* sources and any priorities below that of the lock command.              *)
(***************************************************************************)
EXTENDS OutputArbiter, TLAPS

(* A thread stores what its last load decided: drivers store "idn" at      *)
(* their requests and "none" at their relinquishes.                        *)
StoreDecided ==
    /\ \A t \in Threads : pending[t] = "idn" => t \in Drivers /\ pc[t] = "requesting"
    /\ \A d \in Drivers :
          /\ pc[d] = "requesting" => pending[d] = "idn"
          /\ pc[d] = "relinquishing" => pending[d] = "none"

(* A rotation never takes more slices than the buffer has, and writing     *)
(* puts back at most the slice that was taken.                             *)
RotationBounded ==
    \A d \in Drivers :
        /\ left[d] <= slices[d]
        /\ pc[d] \in {"requesting", "write"} => slices[d] < MaxSlices

IInv == TypeOK /\ StoreDecided /\ RotationBounded /\ ClaimRemembered

LEMMA ThreadFacts ==
    /\ Drivers \subseteq Threads /\ Sources \subseteq Threads /\ Operators \subseteq Threads
    /\ Management \in Operators
    /\ Drivers \cap Sources = {} /\ Drivers \cap Operators = {} /\ Sources \cap Operators = {}
    /\ \A s \in Sources : s # "idn" /\ s # "none" /\ s # "forcestop"
    /\ Sources \subseteq Modes /\ "idn" \in Modes /\ "forcestop" \in Modes
BY ThreadsAssumption DEF Threads, Operators, Modes

LEMMA InitInv == Init => IInv
<1> SUFFICES ASSUME Init
             PROVE  IInv
  OBVIOUS
<1> USE ThreadFacts, SlicesAssumption
<1>1. slices \in [Drivers -> 0 .. MaxSlices] /\ left \in [Drivers -> 0 .. MaxSlices]
  BY DEF Init
<1>2. pending \in [Threads -> Modes \cup {"none", NoStore}] /\ pc \in [Drivers -> DriverPCs]
  BY DEF Init, DriverPCs
<1>3. hasStopped \in [Drivers -> BOOLEAN] /\ enabled \in [Drivers -> BOOLEAN]
  BY Zenon DEF Init
<1>4. TypeOK
  BY <1>1, <1>2, <1>3 DEF Init, TypeOK
<1>5. StoreDecided /\ RotationBounded
  BY DEF Init, StoreDecided, RotationBounded, NoStore
<1>6. ClaimRemembered
  BY DEF Init, ClaimRemembered
<1> QED
  BY <1>4, <1>5, <1>6 DEF IInv

(* What a store of thread t does to the arbitration.                       *)
LEMMA StoreEffect ==
    ASSUME TypeOK, NEW t \in Threads, StoreMode(t)
    PROVE  /\ currentMode' = pending[t] /\ pending[t] # NoStore
           /\ currentMode' \in Modes \cup {"none"}
           /\ pending' \in [Threads -> Modes \cup {"none", NoStore}]
           /\ pending'[t] = NoStore
           /\ \A u \in Threads : u # t => pending'[u] = pending[u]
BY DEF TypeOK, StoreMode

LEMMA NextInv == IInv /\ [Next]_vars => IInv'
<1> SUFFICES ASSUME IInv, [Next]_vars
             PROVE  IInv'
  OBVIOUS
<1> USE ThreadFacts, SlicesAssumption DEF IInv
<1>1. ASSUME NEW s \in Sources, SourceLoad(s)
       PROVE  IInv'
  <2>1. TypeOK'
    BY <1>1 DEF SourceLoad, TypeOK, DriverPCs, driver, RotationBounded, Switches, Granted
  <2>2. StoreDecided'
    BY <1>1 DEF SourceLoad, TypeOK, StoreDecided, driver, NoStore, Switches, Granted
  <2>3. RotationBounded'
    BY <1>1 DEF SourceLoad, TypeOK, RotationBounded, driver
  <2>4. ClaimRemembered'
    BY <1>1 DEF SourceLoad, TypeOK, StoreDecided, ClaimRemembered, driver, NoStore, Switches, Granted
  <2> QED
    BY <2>1, <2>2, <2>3, <2>4
<1>2. ASSUME NEW s \in Sources, SourceStore(s)
       PROVE  IInv'
  <2> USE StoreEffect
  <2>0. StoreMode(s)
    BY <1>2 DEF SourceStore
  <2>1. TypeOK'
    BY <1>2, <2>0 DEF SourceStore, TypeOK, DriverPCs, driver, RotationBounded
  <2>2. StoreDecided'
    BY <1>2, <2>0 DEF SourceStore, TypeOK, StoreDecided, driver, NoStore
  <2>3. RotationBounded'
    BY <1>2, <2>0 DEF SourceStore, TypeOK, RotationBounded, driver
  <2>4. ClaimRemembered'
    BY <1>2, <2>0 DEF SourceStore, TypeOK, StoreDecided, ClaimRemembered, driver, NoStore
  <2> QED
    BY <2>1, <2>2, <2>3, <2>4
<1>3. CASE LockLoad
  <2>1. TypeOK'
    BY <1>3 DEF LockLoad, TypeOK, DriverPCs, driver, RotationBounded, Switches, Granted
  <2>2. StoreDecided'
    BY <1>3 DEF LockLoad, TypeOK, StoreDecided, driver, NoStore, Switches, Granted
  <2>3. RotationBounded'
    BY <1>3 DEF LockLoad, TypeOK, RotationBounded, driver
  <2>4. ClaimRemembered'
    BY <1>3 DEF LockLoad, TypeOK, StoreDecided, ClaimRemembered, driver, NoStore, Switches, Granted
  <2> QED
    BY <2>1, <2>2, <2>3, <2>4
<1>4. ASSUME NEW t \in Operators, UnlockLoad(t)
       PROVE  IInv'
  <2>1. TypeOK'
    BY <1>4 DEF UnlockLoad, TypeOK, DriverPCs, driver, RotationBounded
  <2>2. StoreDecided'
    BY <1>4 DEF UnlockLoad, TypeOK, StoreDecided, driver, NoStore
  <2>3. RotationBounded'
    BY <1>4 DEF UnlockLoad, TypeOK, RotationBounded, driver
  <2>4. ClaimRemembered'
    BY <1>4 DEF UnlockLoad, TypeOK, StoreDecided, ClaimRemembered, driver, NoStore
  <2> QED
    BY <2>1, <2>2, <2>3, <2>4
<1>5. ASSUME NEW t \in Operators, OperatorStore(t)
       PROVE  IInv'
  <2> USE StoreEffect
  <2>0. StoreMode(t)
    BY <1>5 DEF OperatorStore
  <2>1. TypeOK'
    BY <1>5, <2>0 DEF OperatorStore, TypeOK, DriverPCs, driver, RotationBounded
  <2>2. StoreDecided'
    BY <1>5, <2>0 DEF OperatorStore, TypeOK, StoreDecided, driver, NoStore
  <2>3. RotationBounded'
    BY <1>5, <2>0 DEF OperatorStore, TypeOK, RotationBounded, driver
  <2>4. ClaimRemembered'
    BY <1>5, <2>0 DEF OperatorStore, TypeOK, StoreDecided, ClaimRemembered, driver, NoStore
  <2> QED
    BY <2>1, <2>2, <2>3, <2>4
<1>6. ASSUME NEW d \in Drivers, Enable(d)
       PROVE  IInv'
  <2>1. TypeOK'
    BY <1>6 DEF Enable, TypeOK, DriverPCs, driver, RotationBounded
  <2>2. StoreDecided'
    BY <1>6 DEF Enable, TypeOK, StoreDecided, driver, NoStore
  <2>3. RotationBounded'
    BY <1>6 DEF Enable, TypeOK, RotationBounded, driver
  <2>4. ClaimRemembered'
    BY <1>6 DEF Enable, TypeOK, StoreDecided, ClaimRemembered, driver, NoStore
  <2> QED
    BY <2>1, <2>2, <2>3, <2>4
<1>7. ASSUME NEW d \in Drivers, Disable(d)
       PROVE  IInv'
  <2>1. TypeOK'
    BY <1>7 DEF Disable, TypeOK, DriverPCs, driver, RotationBounded
  <2>2. StoreDecided'
    BY <1>7 DEF Disable, TypeOK, StoreDecided, driver, NoStore
  <2>3. RotationBounded'
    BY <1>7 DEF Disable, TypeOK, RotationBounded, driver
  <2>4. ClaimRemembered'
    BY <1>7 DEF Disable, TypeOK, StoreDecided, ClaimRemembered, driver, NoStore
  <2> QED
    BY <2>1, <2>2, <2>3, <2>4
<1>8. ASSUME NEW d \in Drivers, NEW chunk \in {"frame", "wave"}, Put(d, chunk)
       PROVE  IInv'
  <2>1. TypeOK'
    BY <1>8 DEF Put, TypeOK, DriverPCs, driver, RotationBounded
  <2>2. StoreDecided'
    BY <1>8 DEF Put, TypeOK, StoreDecided, driver, NoStore
  <2>3. RotationBounded'
    BY <1>8 DEF Put, TypeOK, RotationBounded, driver
  <2>4. ClaimRemembered'
    BY <1>8 DEF Put, TypeOK, StoreDecided, ClaimRemembered, driver, NoStore
  <2> QED
    BY <2>1, <2>2, <2>3, <2>4
<1>9. ASSUME NEW d \in Drivers, NEW n \in 1 .. MaxSlices, FetchSlices(d, n)
       PROVE  IInv'
  <2>1. TypeOK'
    BY <1>9 DEF FetchSlices, TypeOK, DriverPCs, driver, RotationBounded
  <2>2. StoreDecided'
    BY <1>9 DEF FetchSlices, TypeOK, StoreDecided, driver, NoStore
  <2>3. RotationBounded'
    BY <1>9 DEF FetchSlices, TypeOK, RotationBounded, driver
  <2>4. ClaimRemembered'
    BY <1>9 DEF FetchSlices, TypeOK, StoreDecided, ClaimRemembered, driver, NoStore
  <2> QED
    BY <2>1, <2>2, <2>3, <2>4
<1>10. ASSUME NEW d \in Drivers, FetchPartial(d)
       PROVE  IInv'
  <2>1. TypeOK'
    BY <1>10 DEF FetchPartial, TypeOK, DriverPCs, driver, RotationBounded
  <2>2. StoreDecided'
    BY <1>10 DEF FetchPartial, TypeOK, StoreDecided, driver, NoStore
  <2>3. RotationBounded'
    BY <1>10 DEF FetchPartial, TypeOK, RotationBounded, driver
  <2>4. ClaimRemembered'
    BY <1>10 DEF FetchPartial, TypeOK, StoreDecided, ClaimRemembered, driver, NoStore
  <2> QED
    BY <2>1, <2>2, <2>3, <2>4
<1>11. ASSUME NEW d \in Drivers, FetchDisabled(d)
       PROVE  IInv'
  <2>1. TypeOK'
    BY <1>11 DEF FetchDisabled, TypeOK, DriverPCs, driver, RotationBounded
  <2>2. StoreDecided'
    BY <1>11 DEF FetchDisabled, TypeOK, StoreDecided, driver, NoStore
  <2>3. RotationBounded'
    BY <1>11 DEF FetchDisabled, TypeOK, RotationBounded, driver
  <2>4. ClaimRemembered'
    BY <1>11 DEF FetchDisabled, TypeOK, StoreDecided, ClaimRemembered, driver, NoStore
  <2> QED
    BY <2>1, <2>2, <2>3, <2>4
<1>12. ASSUME NEW d \in Drivers, FetchRepeat(d)
       PROVE  IInv'
  <2>1. TypeOK'
    BY <1>12 DEF FetchRepeat, TypeOK, DriverPCs, driver, RotationBounded
  <2>2. StoreDecided'
    BY <1>12 DEF FetchRepeat, TypeOK, StoreDecided, driver, NoStore
  <2>3. RotationBounded'
    BY <1>12 DEF FetchRepeat, TypeOK, RotationBounded, driver
  <2>4. ClaimRemembered'
    BY <1>12 DEF FetchRepeat, TypeOK, StoreDecided, ClaimRemembered, driver, NoStore
  <2> QED
    BY <2>1, <2>2, <2>3, <2>4
<1>13. ASSUME NEW d \in Drivers, RelinquishLoad(d)
       PROVE  IInv'
  <2>1. TypeOK'
    BY <1>13 DEF RelinquishLoad, TypeOK, DriverPCs, driver, RotationBounded
  <2>2. StoreDecided'
    BY <1>13 DEF RelinquishLoad, TypeOK, StoreDecided, driver, NoStore
  <2>3. RotationBounded'
    BY <1>13 DEF RelinquishLoad, TypeOK, RotationBounded, driver
  <2>4. ClaimRemembered'
    BY <1>13 DEF RelinquishLoad, TypeOK, StoreDecided, ClaimRemembered, driver, NoStore
  <2> QED
    BY <2>1, <2>2, <2>3, <2>4
<1>14. ASSUME NEW d \in Drivers, RelinquishStore(d)
       PROVE  IInv'
  <2> USE StoreEffect
  <2>0. StoreMode(d)
    BY <1>14 DEF RelinquishStore
  <2>1. TypeOK'
    BY <1>14, <2>0 DEF RelinquishStore, TypeOK, DriverPCs, driver, RotationBounded
  <2>2. StoreDecided'
    BY <1>14, <2>0 DEF RelinquishStore, TypeOK, StoreDecided, driver, NoStore
  <2>3. RotationBounded'
    BY <1>14, <2>0 DEF RelinquishStore, TypeOK, RotationBounded, driver
  <2>4. ClaimRemembered'
    BY <1>14, <2>0 DEF RelinquishStore, TypeOK, StoreDecided, ClaimRemembered, driver, NoStore
  <2> QED
    BY <2>1, <2>2, <2>3, <2>4
<1>15. ASSUME NEW d \in Drivers, Rotated(d)
       PROVE  IInv'
  <2>1. TypeOK'
    BY <1>15 DEF Rotated, TypeOK, DriverPCs, driver, RotationBounded
  <2>2. StoreDecided'
    BY <1>15 DEF Rotated, TypeOK, StoreDecided, driver, NoStore
  <2>3. RotationBounded'
    BY <1>15 DEF Rotated, TypeOK, RotationBounded, driver
  <2>4. ClaimRemembered'
    BY <1>15 DEF Rotated, TypeOK, StoreDecided, ClaimRemembered, driver, NoStore
  <2> QED
    BY <2>1, <2>2, <2>3, <2>4
<1>16. ASSUME NEW d \in Drivers, TakeSlice(d)
       PROVE  IInv'
  <2>1. TypeOK'
    BY <1>16 DEF TakeSlice, TypeOK, DriverPCs, driver, RotationBounded, Switches, Granted
  <2>2. StoreDecided'
    BY <1>16 DEF TakeSlice, TypeOK, StoreDecided, driver, NoStore, Switches, Granted
  <2>3. RotationBounded'
    BY <1>16 DEF TakeSlice, TypeOK, RotationBounded, driver
  <2>4. ClaimRemembered'
    BY <1>16 DEF TakeSlice, TypeOK, StoreDecided, ClaimRemembered, driver, NoStore, Switches, Granted
  <2> QED
    BY <2>1, <2>2, <2>3, <2>4
<1>17. ASSUME NEW d \in Drivers, RequestStore(d)
       PROVE  IInv'
  <2> USE StoreEffect
  <2>0. StoreMode(d)
    BY <1>17 DEF RequestStore
  <2>1. TypeOK'
    BY <1>17, <2>0 DEF RequestStore, TypeOK, DriverPCs, driver, RotationBounded
  <2>2. StoreDecided'
    BY <1>17, <2>0 DEF RequestStore, TypeOK, StoreDecided, driver, NoStore
  <2>3. RotationBounded'
    BY <1>17, <2>0 DEF RequestStore, TypeOK, RotationBounded, driver
  <2>4. ClaimRemembered'
    BY <1>17, <2>0 DEF RequestStore, TypeOK, StoreDecided, ClaimRemembered, driver, NoStore
  <2> QED
    BY <2>1, <2>2, <2>3, <2>4
<1>18. ASSUME NEW d \in Drivers, WriteSlice(d)
       PROVE  IInv'
  <2>1. TypeOK'
    BY <1>18 DEF WriteSlice, TypeOK, DriverPCs, driver, RotationBounded
  <2>2. StoreDecided'
    BY <1>18 DEF WriteSlice, TypeOK, StoreDecided, driver, NoStore
  <2>3. RotationBounded'
    BY <1>18 DEF WriteSlice, TypeOK, RotationBounded, driver
  <2>4. ClaimRemembered'
    BY <1>18 DEF WriteSlice, TypeOK, StoreDecided, ClaimRemembered, driver, NoStore
  <2> QED
    BY <2>1, <2>2, <2>3, <2>4
<1>19. CASE UNCHANGED vars
  BY <1>19 DEF vars, driver, TypeOK, StoreDecided, RotationBounded, ClaimRemembered
<1> QED
  BY <1>1, <1>2, <1>3, <1>4, <1>5, <1>6, <1>7, <1>8, <1>9, <1>10, <1>11, <1>12, <1>13, <1>14, <1>15, <1>16, <1>17, <1>18, <1>19 DEF Next, Driver

LEMMA SpecInv == Spec => []IInv
BY InitInv, NextInv, PTL DEF Spec

(* Every variable keeps its type, whatever threads interleave.             *)
THEOREM TypeCorrect == Spec => []TypeOK
BY SpecInv, PTL DEF IInv

(* The output is never claimed for the IDN mode without a driver that      *)
(* still has to give it up.                                                *)
THEOREM Claims == Spec => []ClaimRemembered
BY SpecInv, PTL DEF IInv

(* The effect of LockSticks, on a step out of a quiet lock.                *)
StepSticks ==
    /\ currentMode' = "forcestop"
    /\ \A t \in Threads : pending[t]' # NoStore => t \in Operators /\ ~locked'
    /\ \A d \in Drivers : Writing(d)' => Writing(d)

LEMMA LockedPriority ==
    ASSUME currentMode = "forcestop"
    PROVE  \A m \in Modes \ {"forcestop"} : Refused(m)
<1> SUFFICES ASSUME NEW m \in Modes \ {"forcestop"}
             PROVE  Refused(m)
  OBVIOUS
<1>1. Priority[m] \in Int /\ Priority["forcestop"] \in Int /\ Priority[m] < Priority["forcestop"]
  BY PriorityAssumption DEF Modes
<1> QED
  BY <1>1 DEF Refused, CurrentPriority

(* An emergency stop that was stored while no thread was inside a request  *)
(* or a relinquish holds until it is unlocked, and silences the drivers.   *)
THEOREM LockHolds == Spec => LockSticks
<1>1. IInv /\ [Next]_vars =>
         ((currentMode = "forcestop" /\ Quiet) => StepSticks \/ UNCHANGED vars)
  <2> SUFFICES ASSUME IInv, Next, currentMode = "forcestop", Quiet
               PROVE  StepSticks
    OBVIOUS
  <2> USE ThreadFacts DEF IInv
  <2>0. \A m \in Modes \ {"forcestop"} : Refused(m)
    BY LockedPriority
  <2>1. ASSUME NEW s \in Sources, SourceLoad(s)
         PROVE  StepSticks
    BY <2>0, <2>1 DEF SourceLoad, StepSticks, Quiet, Writing, driver, TypeOK, NoStore, Switches, Granted
  <2>2. ASSUME NEW s \in Sources, SourceStore(s)
         PROVE  StepSticks
    BY <2>2 DEF SourceStore, StoreMode, Quiet
  <2>3. CASE LockLoad
    BY <2>0, <2>3 DEF LockLoad, StepSticks, Quiet, Writing, driver, TypeOK, NoStore, Switches, Granted
  <2>4. ASSUME NEW t \in Operators, UnlockLoad(t)
         PROVE  StepSticks
    BY <2>0, <2>4 DEF UnlockLoad, StepSticks, Quiet, Writing, driver, TypeOK, NoStore
  <2>5. ASSUME NEW t \in Operators, OperatorStore(t)
         PROVE  StepSticks
    BY <2>5 DEF OperatorStore, StoreMode, Quiet
  <2>6. ASSUME NEW d \in Drivers, Enable(d)
         PROVE  StepSticks
    BY <2>0, <2>6 DEF Enable, StepSticks, Quiet, Writing, driver, TypeOK, NoStore
  <2>7. ASSUME NEW d \in Drivers, Disable(d)
         PROVE  StepSticks
    BY <2>0, <2>7 DEF Disable, StepSticks, Quiet, Writing, driver, TypeOK, NoStore
  <2>8. ASSUME NEW d \in Drivers, NEW chunk \in {"frame", "wave"}, Put(d, chunk)
         PROVE  StepSticks
    BY <2>0, <2>8 DEF Put, StepSticks, Quiet, Writing, driver, TypeOK, NoStore
  <2>9. ASSUME NEW d \in Drivers, NEW n \in 1 .. MaxSlices, FetchSlices(d, n)
         PROVE  StepSticks
    BY <2>0, <2>9 DEF FetchSlices, StepSticks, Quiet, Writing, driver, TypeOK, NoStore
  <2>10. ASSUME NEW d \in Drivers, FetchPartial(d)
         PROVE  StepSticks
    BY <2>0, <2>10 DEF FetchPartial, StepSticks, Quiet, Writing, driver, TypeOK, NoStore
  <2>11. ASSUME NEW d \in Drivers, FetchDisabled(d)
         PROVE  StepSticks
    BY <2>0, <2>11 DEF FetchDisabled, StepSticks, Quiet, Writing, driver, TypeOK, NoStore
  <2>12. ASSUME NEW d \in Drivers, FetchRepeat(d)
         PROVE  StepSticks
    BY <2>0, <2>12 DEF FetchRepeat, StepSticks, Quiet, Writing, driver, TypeOK, NoStore
  <2>13. ASSUME NEW d \in Drivers, RelinquishLoad(d)
         PROVE  StepSticks
    BY <2>0, <2>13 DEF RelinquishLoad, StepSticks, Quiet, Writing, driver, TypeOK, NoStore
  <2>14. ASSUME NEW d \in Drivers, RelinquishStore(d)
         PROVE  StepSticks
    BY <2>14 DEF RelinquishStore, StoreMode, Quiet
  <2>15. ASSUME NEW d \in Drivers, Rotated(d)
         PROVE  StepSticks
    BY <2>0, <2>15 DEF Rotated, StepSticks, Quiet, Writing, driver, TypeOK, NoStore
  <2>16. ASSUME NEW d \in Drivers, TakeSlice(d)
         PROVE  StepSticks
    BY <2>0, <2>16 DEF TakeSlice, StepSticks, Quiet, Writing, driver, TypeOK, NoStore, Switches, Granted
  <2>17. ASSUME NEW d \in Drivers, RequestStore(d)
         PROVE  StepSticks
    BY <2>17 DEF RequestStore, StoreMode, Quiet
  <2>18. ASSUME NEW d \in Drivers, WriteSlice(d)
         PROVE  StepSticks
    BY <2>0, <2>18 DEF WriteSlice, StepSticks, Quiet, Writing, driver, TypeOK, NoStore
  <2> QED
    BY <2>1, <2>2, <2>3, <2>4, <2>5, <2>6, <2>7, <2>8, <2>9, <2>10, <2>11, <2>12, <2>13, <2>14, <2>15, <2>16, <2>17, <2>18 DEF Next, Driver
<1> QED
  BY <1>1, SpecInv, PTL DEF Spec, LockSticks, StepSticks
=============================================================================
