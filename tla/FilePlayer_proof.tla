--------------------------- MODULE FilePlayer_proof ---------------------------
(***************************************************************************)
(* Proofs about FilePlayer, for any bound on jobs, any buffer limit and    *)
(* any number of repetitions.                                              *)
(***************************************************************************)
EXTENDS FilePlayer, TLAPS

PCs(t) ==
    IF t \in Jobs THEN LoaderPCs ELSE IF t = Output THEN OutputPCs ELSE CallerPCs

AllPCs == CallerPCs \cup OutputPCs \cup LoaderPCs

(* Where a thread is that will clear the queue in the course of a stop,    *)
(* and one whose playFile has taken a job.                                 *)
Stopping == {"cancel", "relinquish", "relinquishStore", "stopClear"}
Playing == {"request", "requestStore", "playClear", "create"}
Starting == {"start", "startStore"}

(* fileJob is the largest number given out.                                *)
JobOrder ==
    /\ cleared <= fileJob
    /\ \A t \in Threads : job[t] <= fileJob
    /\ \A t \in Threads : pc[t] \in Playing => job[t] \in Jobs
    /\ \A j \in Jobs : pc[j] # "none" => j <= fileJob

(* The loader of the current job has room for its push: only it pushes.    *)
PushRoom == \A j \in Jobs : (pc[j] = "push" /\ j = fileJob) => Len(queue) < Enough

(* No two playFile start the same job, nor one that has a loader.          *)
JobsFresh ==
    \A t \in Threads : pc[t] \in Playing =>
        /\ pc[job[t]] = "none"
        /\ \A u \in Threads \ {t} : pc[u] \in Playing => job[u] # job[t]

IInv ==
    /\ TypeOK /\ JobOrder /\ JobsFresh /\ PushRoom
    /\ NoStaleFrames /\ BufferBounded /\ StopEmpties

LEMMA ThreadFacts ==
    /\ Jobs \subseteq Threads /\ Callers \subseteq Threads /\ Output \in Threads
    /\ Output \notin Callers /\ Output \notin Jobs /\ Callers \cap Jobs = {}
    /\ Keyboard \in Callers /\ Network \in Callers
BY FilePlayerAssumption DEF Threads, Callers

LEMMA HomeFacts ==
    /\ \A t \in Jobs : Home(t) = "done"
    /\ Home(Output) = "look"
    /\ \A t \in Callers : Home(t) = "idle"
BY ThreadFacts DEF Home

LEMMA HomePC == \A t \in Threads : Home(t) \in PCs(t) /\ Home(t) \notin Playing
<1>1. \A t \in Jobs : Home(t) \in PCs(t) /\ Home(t) \notin Playing
  BY HomeFacts DEF PCs, LoaderPCs, Playing
<1>2. Home(Output) \in PCs(Output) /\ Home(Output) \notin Playing
  BY HomeFacts, ThreadFacts DEF PCs, OutputPCs, Playing
<1>3. \A t \in Callers : Home(t) \in PCs(t) /\ Home(t) \notin Playing
  BY HomeFacts, ThreadFacts DEF PCs, CallerPCs, Playing
<1> QED
  BY <1>1, <1>2, <1>3 DEF Threads

(* The program counters a thread can have, and the type of them all.       *)
PCOK == pc \in [Threads -> AllPCs] /\ \A t \in Threads : pc[t] \in PCs(t)

DataOK ==
    /\ mode \in Modes
    /\ state \in {"stop", "pause", "play"}
    /\ fileJob \in 0 .. MaxJobs
    /\ queue \in Seq(Jobs)
    /\ currentMode \in {"none", "file", "other"}
    /\ job \in [Threads -> 0 .. MaxJobs]
    /\ playNext \subseteq Callers
    /\ cleared \in 0 .. MaxJobs

LEMMA TypeSplit == TypeOK <=> PCOK /\ DataOK
BY ThreadFacts DEF TypeOK, PCOK, DataOK, PCs, AllPCs, Threads

LEMMA TypeSplitNext == TypeOK' <=> PCOK' /\ DataOK'
BY ThreadFacts DEF TypeOK, PCOK, DataOK, PCs, AllPCs, Threads

LEMMA GotoPC ==
    ASSUME PCOK, NEW t \in Threads, NEW label \in PCs(t), Goto(t, label)
    PROVE  /\ PCOK'
           /\ pc'[t] = label
           /\ \A u \in Threads \ {t} : pc'[u] = pc[u]
<1>1. label \in AllPCs
  BY DEF PCs, AllPCs
<1>2. pc' \in [Threads -> AllPCs] /\ pc'[t] = label /\ \A u \in Threads \ {t} : pc'[u] = pc[u]
  BY <1>1 DEF PCOK, Goto
<1> QED
  BY <1>2 DEF PCOK

(* A step that moves one thread and leaves the playback alone.             *)
LEMMA Move ==
    ASSUME IInv, NEW t \in Threads, NEW label \in PCs(t), Goto(t, label),
           UNCHANGED <<playback, job, cleared>>,
           currentMode' \in {"none", "file", "other"}, playNext' \subseteq Callers,
           label \in Playing => pc[t] \in Playing,
           t \in Jobs => pc[t] # "none",
           (label = "push" /\ t = fileJob) => Len(queue) < Enough,
           pc[t] \in Stopping => label \in Stopping,
           (t \in Jobs /\ pc[t] \in Starting) => label \in Starting \/ state # "stop"
    PROVE  IInv'
<1>1. PCOK' /\ pc'[t] = label /\ \A u \in Threads \ {t} : pc'[u] = pc[u]
  BY GotoPC, TypeSplit DEF IInv
<1>2. TypeOK'
  BY <1>1, TypeSplit, TypeSplitNext DEF IInv, DataOK, playback
<1>3. JobOrder'
  BY <1>1, ThreadFacts DEF IInv, JobOrder, playback
<1>4. PushRoom'
  BY <1>1, ThreadFacts DEF IInv, PushRoom, playback
<1>7. JobsFresh'
  BY <1>1, ThreadFacts DEF IInv, JobOrder, JobsFresh
<1>5. NoStaleFrames' /\ BufferBounded'
  BY DEF IInv, NoStaleFrames, BufferBounded, playback
<1>6. StopEmpties'
  <2> SUFFICES ASSUME state = "stop", queue # <<>>
               PROVE  \/ \E u \in Threads : pc'[u] \in Stopping
                      \/ \E j \in Jobs : pc'[j] \in Starting
    BY DEF StopEmpties, Stopping, Starting, playback
  <2>1. \/ \E u \in Threads : pc[u] \in Stopping
        \/ \E j \in Jobs : pc[j] \in Starting
    BY DEF IInv, StopEmpties, Stopping, Starting
  <2> QED
    BY <1>1, <2>1, ThreadFacts
<1> QED
  BY <1>2, <1>3, <1>4, <1>5, <1>6, <1>7 DEF IInv

(* A step that leaves all but the output mode alone.                       *)
LEMMA RivalStep == ASSUME IInv, Rival PROVE IInv'
BY DEF IInv, Rival, playback, TypeOK, JobOrder, JobsFresh, PushRoom, NoStaleFrames, BufferBounded,
       StopEmpties

LEMMA Initial == Init => IInv
<1> SUFFICES ASSUME Init
             PROVE  IInv
  OBVIOUS
<1> USE FilePlayerAssumption
<1>1. \A t \in Threads : pc[t] = IF t \in Jobs THEN "none" ELSE Home(t)
  BY DEF Init
<1>2. \A t \in Threads : pc[t] \in PCs(t) /\ pc[t] \notin Playing
  BY <1>1, HomePC, ThreadFacts DEF PCs, LoaderPCs, Playing
<1>3. PCOK
  <2>1. pc \in [Threads -> AllPCs]
    BY <1>2 DEF Init, PCs, AllPCs
  <2> QED
    BY <1>2, <2>1 DEF PCOK
<1>4. DataOK
  BY DEF Init, DataOK
<1>5. JobOrder /\ JobsFresh /\ PushRoom
  BY <1>1, <1>2, ThreadFacts DEF Init, JobOrder, JobsFresh, PushRoom
<1>6. NoStaleFrames /\ BufferBounded /\ StopEmpties
  BY DEF Init, NoStaleFrames, BufferBounded, StopEmpties
<1> QED
  BY <1>3, <1>4, <1>5, <1>6, TypeSplit DEF IInv

(* The steps of stop and playFile, of any thread that can be at them.      *)

LEMMA StopStep == ASSUME IInv, NEW t \in Threads, Stop(t) PROVE IInv'
<1>1. "cancel" \in PCs(t) /\ pc[t] \notin {"push", "none"} /\ "cancel" \notin Playing
  BY DEF Stop, PCs, LoaderPCs, OutputPCs, CallerPCs, CallPCs, Playing
<1>2. PCOK' /\ pc'[t] = "cancel" /\ \A u \in Threads \ {t} : pc'[u] = pc[u]
  BY <1>1, GotoPC, TypeSplit DEF IInv, Stop
<1>3. TypeOK'
  BY <1>2, TypeSplit, TypeSplitNext DEF IInv, DataOK, Stop
<1>4. JobOrder' /\ JobsFresh' /\ PushRoom' /\ NoStaleFrames' /\ BufferBounded'
  BY <1>1, <1>2, ThreadFacts DEF IInv, JobOrder, JobsFresh, PushRoom, NoStaleFrames, BufferBounded, Stop
<1>5. StopEmpties'
  BY <1>2 DEF StopEmpties
<1> QED
  BY <1>3, <1>4, <1>5 DEF IInv

LEMMA CancelStep == ASSUME IInv, NEW t \in Threads, CancelJob(t) PROVE IInv'
<1> DEFINE label == IF pc[t] = "cancel" THEN "relinquish" ELSE "request"
<1>1. label \in PCs(t) /\ (pc[t] = "play" => t \notin Jobs)
  BY TypeSplit DEF IInv, CancelJob, PCOK, PCs, LoaderPCs, Loading, OutputPCs, CallerPCs, CallPCs
<1>2. PCOK' /\ pc'[t] = label /\ \A u \in Threads \ {t} : pc'[u] = pc[u]
  BY <1>1, GotoPC, TypeSplit DEF IInv, CancelJob
<1>3. fileJob \in Nat /\ fileJob' = fileJob + 1 /\ fileJob' \in Jobs
  BY FilePlayerAssumption DEF IInv, TypeOK, CancelJob, Jobs
<1>4. job' \in [Threads -> 0 .. MaxJobs] /\ job'[t] = fileJob'
      /\ \A u \in Threads \ {t} : job'[u] = job[u]
  BY <1>3 DEF IInv, TypeOK, CancelJob, Jobs
<1>5. TypeOK'
  BY <1>2, <1>3, <1>4, TypeSplit, TypeSplitNext DEF IInv, DataOK, CancelJob, Jobs
<1>6. JobOrder'
  <2>1. cleared' <= fileJob'
    BY <1>3 DEF IInv, TypeOK, JobOrder, CancelJob
  <2>2. \A u \in Threads : job'[u] <= fileJob'
    BY <1>3, <1>4 DEF IInv, TypeOK, JobOrder
  <2>3. \A u \in Threads : pc'[u] \in Playing => job'[u] \in Jobs
    BY <1>2, <1>3, <1>4 DEF IInv, JobOrder
  <2>4. \A j \in Jobs : pc'[j] # "none" => j <= fileJob'
    BY <1>2, <1>3, ThreadFacts DEF IInv, JobOrder, CancelJob, Jobs
  <2> QED
    BY <2>1, <2>2, <2>3, <2>4 DEF JobOrder
<1>7. PushRoom'
  <2> SUFFICES ASSUME NEW j \in Jobs, pc'[j] = "push", j = fileJob'
               PROVE  FALSE
    BY DEF PushRoom
  <2>1. pc[j] # "none"
    BY <1>2, ThreadFacts DEF CancelJob
  <2> QED
    BY <2>1, <1>3 DEF IInv, JobOrder
<1>10. JobsFresh'
  <2>1. \A j \in Jobs : j = fileJob' => pc[j] = "none" /\ pc'[j] = "none"
    BY <1>2, <1>3, ThreadFacts DEF IInv, JobOrder, CancelJob
  <2>2. \A u \in Threads : job[u] # fileJob'
    BY <1>3 DEF IInv, TypeOK, JobOrder
  <2>3. \A u \in Threads \ {t} : pc[u] \in Playing => job[u] \in Jobs /\ job[u] # t
    BY ThreadFacts DEF IInv, JobOrder, JobsFresh, CancelJob
  <2> QED
    BY <1>2, <1>3, <1>4, <2>1, <2>2, <2>3, ThreadFacts DEF IInv, JobsFresh
<1>8. NoStaleFrames' /\ BufferBounded'
  BY DEF IInv, NoStaleFrames, BufferBounded, CancelJob
<1>9. StopEmpties'
  BY <1>1, <1>2, ThreadFacts DEF IInv, StopEmpties, CancelJob
<1> QED
  BY <1>5, <1>6, <1>7, <1>8, <1>9, <1>10 DEF IInv

LEMMA RelinquishStep ==
    ASSUME IInv, NEW t \in Threads, Relinquish(t) \/ RelinquishStore(t)
    PROVE  IInv'
<1>1. PICK label \in {"relinquishStore", "stopClear"} : Goto(t, label)
  BY DEF Relinquish, RelinquishStore
<1>2. /\ label \in PCs(t) /\ label \in Stopping /\ label # "push" /\ label \notin Playing
      /\ pc[t] \notin Starting /\ pc[t] # "none"
  BY <1>1 DEF Relinquish, RelinquishStore, PCs, LoaderPCs, OutputPCs, CallerPCs, CallPCs,
              Stopping, Playing, Starting
<1>3. /\ UNCHANGED <<playback, job, cleared>>
      /\ currentMode' \in {"none", "file", "other"} /\ playNext' \subseteq Callers
  BY DEF IInv, TypeOK, Relinquish, RelinquishStore
<1> QED
  BY <1>1, <1>2, <1>3, Move

LEMMA RequestLabel ==
    ASSUME NEW t \in Threads, pc[t] \in {"ask", "request", "askStore", "requestStore"},
           pc[t] \in PCs(t)
    PROVE  /\ t \notin Jobs
           /\ {Granted(t), Refused(t)} \subseteq PCs(t)
           /\ {Granted(t), Refused(t)} \cap Playing # {} => pc[t] \in Playing
           /\ "push" \notin {Granted(t), Refused(t)}
<1>1. t \notin Jobs
  BY DEF PCs, LoaderPCs, Loading
<1>2. CASE t = Output
  BY <1>1, <1>2, HomeFacts DEF PCs, OutputPCs, CallPCs, Granted, Refused, Playing
<1>3. CASE t \in Callers
  BY <1>1, <1>3, HomeFacts, ThreadFacts
     DEF PCs, CallerPCs, CallPCs, Granted, Refused, Playing
<1> QED
  BY <1>1, <1>2, <1>3 DEF Threads

LEMMA RequestStep ==
    ASSUME IInv, NEW t \in Threads, Request(t) \/ RequestStore(t)
    PROVE  IInv'
<1>1. pc[t] \in {"ask", "request", "askStore", "requestStore"} /\ pc[t] \in PCs(t)
  BY TypeSplit DEF IInv, PCOK, Request, RequestStore
<1>2. PICK label \in {Granted(t), Refused(t), "askStore", "requestStore"} :
          /\ Goto(t, label)
          /\ \/ label \in {Granted(t), Refused(t)}
             \/ label = "askStore" /\ pc[t] = "ask"
             \/ label = "requestStore" /\ pc[t] = "request"
  <2>1. CASE Request(t)
    <3> DEFINE l == CASE currentMode = "file" -> Granted(t)
                      [] currentMode = "none" ->
                            IF pc[t] = "ask" THEN "askStore" ELSE "requestStore"
                      [] OTHER -> Refused(t)
    <3>1. Goto(t, l) /\ pc[t] \in {"ask", "request"}
      BY <2>1 DEF Request
    <3> QED
      BY <3>1
  <2>2. CASE RequestStore(t)
    BY <2>2 DEF RequestStore
  <2> QED
    BY <2>1, <2>2
<1>3. /\ label \in PCs(t) /\ label # "push" /\ t \notin Jobs
      /\ label \in Playing => pc[t] \in Playing
  BY <1>1, <1>2, RequestLabel DEF PCs, CallerPCs, OutputPCs, CallPCs, Playing
<1>4. /\ UNCHANGED <<playback, job, cleared>> /\ pc[t] \notin Stopping
      /\ currentMode' \in {"none", "file", "other"} /\ playNext' \subseteq Callers
  BY <1>1 DEF IInv, TypeOK, Request, RequestStore, Stopping
<1> QED
  BY <1>2, <1>3, <1>4, Move

(* The queue is emptied by the call of a thread.                           *)
LEMMA Emptied ==
    ASSUME IInv, NEW t \in Threads, EmptyQueue(t), fileJob' = fileJob
    PROVE  /\ queue' = <<>> /\ queue' \in Seq(Jobs)
           /\ cleared' \in 0 .. MaxJobs /\ cleared' <= fileJob'
           /\ NoStaleFrames' /\ BufferBounded' /\ PushRoom' /\ StopEmpties'
<1>1. queue' = <<>> /\ queue' \in Seq(Jobs) /\ Len(queue') = 0
  BY DEF EmptyQueue
<1>2. cleared' \in 0 .. MaxJobs /\ cleared' <= fileJob'
  BY DEF IInv, TypeOK, JobOrder, EmptyQueue
<1>3. NoStaleFrames' /\ BufferBounded' /\ PushRoom'
  BY <1>1, FilePlayerAssumption DEF NoStaleFrames, BufferBounded, PushRoom
<1> QED
  BY <1>1, <1>2, <1>3 DEF StopEmpties

LEMMA StopClearStep == ASSUME IInv, NEW t \in Threads, StopClear(t) PROVE IInv'
<1> DEFINE label == IF t \in playNext THEN "play" ELSE Home(t)
<1>1. label \in PCs(t) /\ label \notin Playing
  <2>1. t \in playNext => t \in Callers
    BY DEF IInv, TypeOK
  <2> QED
    BY <2>1, HomePC, ThreadFacts DEF PCs, CallerPCs, CallPCs, Playing
<1>2. PCOK' /\ pc'[t] = label /\ \A u \in Threads \ {t} : pc'[u] = pc[u]
  BY <1>1, GotoPC, TypeSplit DEF IInv, StopClear
<1>3. /\ queue' \in Seq(Jobs) /\ cleared' \in 0 .. MaxJobs /\ cleared' <= fileJob'
      /\ NoStaleFrames' /\ BufferBounded' /\ PushRoom' /\ StopEmpties'
  BY Emptied DEF StopClear
<1>4. job' \in [Threads -> 0 .. MaxJobs] /\ job'[t] = 0
      /\ \A u \in Threads \ {t} : job'[u] = job[u]
  BY FilePlayerAssumption DEF IInv, TypeOK, StopClear
<1>5. TypeOK'
  BY <1>2, <1>3, <1>4, TypeSplit, TypeSplitNext DEF IInv, DataOK, StopClear
<1>6. JobOrder'
  <2>1. fileJob' = fileJob /\ fileJob \in Nat /\ pc[t] # "none"
    BY DEF IInv, TypeOK, StopClear
  <2>2. \A u \in Threads : job'[u] <= fileJob'
    BY <1>4, <2>1 DEF IInv, JobOrder
  <2>3. \A u \in Threads : pc'[u] \in Playing => job'[u] \in Jobs
    BY <1>1, <1>2, <1>4 DEF IInv, JobOrder
  <2>4. \A j \in Jobs : pc'[j] # "none" => j <= fileJob'
    BY <1>2, <2>1, ThreadFacts DEF IInv, JobOrder
  <2> QED
    BY <1>3, <2>2, <2>3, <2>4 DEF JobOrder
<1>7. JobsFresh'
  <2>1. \A u \in Threads : pc'[u] \in Playing => u # t /\ pc[u] \in Playing
    BY <1>1, <1>2
  <2>2. \A u \in Threads \ {t} : pc[u] \in Playing =>
            job[u] # t /\ job[u] \in Threads /\ pc[job[u]] = "none"
    BY ThreadFacts DEF IInv, JobOrder, JobsFresh, StopClear
  <2> QED
    BY <1>2, <1>4, <2>1, <2>2 DEF IInv, JobsFresh
<1> QED
  BY <1>3, <1>5, <1>6, <1>7 DEF IInv

LEMMA PlayClearStep == ASSUME IInv, NEW t \in Threads, PlayClear(t) PROVE IInv'
<1>1. "create" \in PCs(t) /\ t \notin Jobs
  BY TypeSplit DEF IInv, PlayClear, PCOK, PCs, LoaderPCs, Loading, OutputPCs, CallerPCs, CallPCs
<1>2. PCOK' /\ pc'[t] = "create" /\ \A u \in Threads \ {t} : pc'[u] = pc[u]
  BY <1>1, GotoPC, TypeSplit DEF IInv, PlayClear
<1>3. /\ queue' \in Seq(Jobs) /\ cleared' \in 0 .. MaxJobs /\ cleared' <= fileJob'
      /\ NoStaleFrames' /\ BufferBounded' /\ PushRoom' /\ StopEmpties'
  BY Emptied DEF PlayClear
<1>4. TypeOK'
  BY <1>2, <1>3, TypeSplit, TypeSplitNext DEF IInv, DataOK, PlayClear
<1>5. JobOrder' /\ JobsFresh'
  BY <1>1, <1>2, <1>3, ThreadFacts DEF IInv, JobOrder, JobsFresh, PlayClear, Playing
<1> QED
  BY <1>3, <1>4, <1>5 DEF IInv

LEMMA CreateStep == ASSUME IInv, NEW t \in Threads, Create(t) PROVE IInv'
<1>1. t \notin Jobs /\ job[t] \in Jobs /\ job[t] \in Threads /\ job[t] # t
  BY TypeSplit, ThreadFacts
     DEF IInv, Create, PCOK, JobOrder, Playing, PCs, LoaderPCs, Loading
<1>2. /\ pc' \in [Threads -> AllPCs]
      /\ pc'[t] = Home(t) /\ pc'[job[t]] = "ready"
      /\ \A u \in Threads \ {t, job[t]} : pc'[u] = pc[u]
  BY <1>1, HomePC, TypeSplit DEF IInv, Create, PCOK, PCs, AllPCs, LoaderPCs
<1>3. PCOK'
  BY <1>1, <1>2, HomePC, TypeSplit DEF IInv, PCOK, PCs, LoaderPCs
<1>4. job' \in [Threads -> 0 .. MaxJobs] /\ job'[t] = 0
      /\ \A u \in Threads \ {t} : job'[u] = job[u]
  BY FilePlayerAssumption DEF IInv, TypeOK, Create
<1>5. TypeOK'
  BY <1>3, <1>4, TypeSplit, TypeSplitNext DEF IInv, DataOK, Create, playback
<1>6. JobOrder'
  <2>1. fileJob' = fileJob /\ fileJob \in Nat /\ cleared' = cleared /\ job[t] <= fileJob
    BY DEF IInv, TypeOK, JobOrder, Create, playback
  <2>2. \A u \in Threads : pc'[u] \in Playing => u # t /\ u # job[t]
    BY <1>2, HomePC DEF Playing
  <2> QED
    BY <1>1, <1>2, <1>4, <2>1, <2>2, ThreadFacts DEF IInv, JobOrder
<1>7. PushRoom' /\ NoStaleFrames' /\ BufferBounded'
  BY <1>1, <1>2, ThreadFacts
     DEF IInv, PushRoom, NoStaleFrames, BufferBounded, Create, playback
<1>8. StopEmpties'
  <2> SUFFICES ASSUME state = "stop", queue # <<>>
               PROVE  \/ \E u \in Threads : pc'[u] \in Stopping
                      \/ \E j \in Jobs : pc'[j] \in Starting
    BY DEF StopEmpties, Stopping, Starting, Create, playback
  <2>1. \/ \E u \in Threads : pc[u] \in Stopping
        \/ \E j \in Jobs : pc[j] \in Starting
    BY DEF IInv, StopEmpties, Stopping, Starting
  <2>2. pc[t] = "create" /\ fileJob \in Nat
    BY DEF Create, IInv, TypeOK
  <2>3. pc[job[t]] \notin Stopping \cup Starting
    BY <2>2 DEF IInv, JobsFresh, Playing, Stopping, Starting
  <2> QED
    BY <1>1, <1>2, <2>1, <2>2, <2>3, ThreadFacts DEF Stopping, Starting
<1>9. JobsFresh'
  <2>1. \A u \in Threads : pc'[u] \in Playing => u # t /\ u # job[t] /\ pc[u] \in Playing
    BY <1>2, HomePC DEF Playing
  <2>2. \A u \in Threads \ {t} : pc[u] \in Playing =>
            job[u] # job[t] /\ job[u] # t /\ pc[job[u]] = "none" /\ job[u] \in Threads
    BY <1>1, ThreadFacts DEF IInv, JobOrder, JobsFresh, Create, Playing
  <2> QED
    BY <1>2, <1>4, <2>1, <2>2 DEF IInv, JobsFresh
<1> QED
  BY <1>5, <1>6, <1>7, <1>8, <1>9 DEF IInv

(* The buttons.                                                            *)

LEMMA PressStep ==
    ASSUME IInv, NEW t \in Callers,
           NEW label \in {"toPause", "toPlay", "play", "stop", "ask"},
           Press(t, label), playNext' \subseteq Callers
    PROVE  IInv'
<1>1. /\ t \in Threads /\ t \notin Jobs /\ label \in PCs(t) /\ label \notin Playing
      /\ label # "push" /\ pc[t] \notin Stopping
  BY ThreadFacts DEF PCs, CallerPCs, CallPCs, Playing, Stopping, Press
<1>2. /\ Goto(t, label) /\ UNCHANGED <<playback, job, cleared>>
      /\ currentMode' \in {"none", "file", "other"}
  BY DEF Press, IInv, TypeOK
<1> QED
  BY <1>1, <1>2, Move

LEMMA ButtonStep ==
    ASSUME IInv,
           \/ \E t \in Callers :
                 PlayButton(t) \/ ChooseProgram(t) \/ StopButton(t) \/ StepButton(t)
           \/ PlayCommand
    PROVE  IInv'
<1>1. ASSUME NEW t \in Callers,
             PlayButton(t) \/ ChooseProgram(t) \/ StopButton(t) \/ StepButton(t)
      PROVE  IInv'
  <2>1. PICK label \in {"toPause", "toPlay", "play", "stop", "ask"} : Press(t, label)
    BY <1>1 DEF PlayButton, ChooseProgram, StopButton, StepButton
  <2>2. playNext' \subseteq Callers
    BY <1>1 DEF PlayButton, ChooseProgram, StopButton, StepButton, IInv, TypeOK
  <2> QED
    BY <2>1, <2>2, PressStep
<1>2. PlayCommand => IInv'
  BY PressStep, ThreadFacts DEF PlayCommand, IInv, TypeOK
<1> QED
  BY <1>1, <1>2

(* A store of pause or play: the player is not stopped any more.           *)
LEMMA StateStep ==
    ASSUME IInv, NEW t \in Threads, NEW label \in PCs(t), Goto(t, label),
           state' \in {"pause", "play"},
           UNCHANGED <<mode, fileJob, queue, currentMode, job, playNext, cleared>>,
           label \notin Playing, label # "push", t \in Jobs => pc[t] # "none"
    PROVE  IInv'
<1>1. PCOK' /\ pc'[t] = label /\ \A u \in Threads \ {t} : pc'[u] = pc[u]
  BY GotoPC, TypeSplit DEF IInv
<1>2. TypeOK'
  BY <1>1, TypeSplit, TypeSplitNext DEF IInv, DataOK
<1>3. JobOrder' /\ JobsFresh'
  BY <1>1, ThreadFacts DEF IInv, JobOrder, JobsFresh
<1>4. PushRoom' /\ NoStaleFrames' /\ BufferBounded'
  BY <1>1, ThreadFacts DEF IInv, PushRoom, NoStaleFrames, BufferBounded
<1>5. StopEmpties'
  BY DEF StopEmpties
<1> QED
  BY <1>2, <1>3, <1>4, <1>5 DEF IInv

LEMMA ToggleStep == ASSUME IInv, NEW t \in Callers, Toggle(t) PROVE IInv'
<1>1. t \in Threads /\ t \notin Jobs /\ "idle" \in PCs(t) /\ "idle" \notin Playing
  BY ThreadFacts DEF PCs, CallerPCs, Playing
<1>2. Goto(t, "idle") /\ state' \in {"pause", "play"}
  BY DEF Toggle
<1> QED
  BY <1>1, <1>2, StateStep DEF Toggle

(* The loader.                                                             *)

LEMMA StartStoreStep == ASSUME IInv, NEW j \in Jobs, StartStore(j) PROVE IInv'
<1>1. j \in Threads /\ "read" \in PCs(j) /\ "read" \notin Playing /\ pc[j] # "none"
  BY ThreadFacts DEF PCs, LoaderPCs, Loading, Playing, StartStore
<1> QED
  BY <1>1, StateStep DEF StartStore

LEMMA LoaderMove ==
    ASSUME IInv, NEW j \in Jobs,
           Begin(j) \/ Read(j) \/ Wait(j) \/ Start(j) \/ Loop(j)
    PROVE  IInv'
<1>1. PICK label \in {"read", "stop", "wait", "loop", "push", "startStore", "done"} :
          /\ Goto(j, label)
          /\ (label = "push" /\ j = fileJob) => Len(queue) < Enough
          /\ pc[j] \in Starting => label = "startStore" \/ state # "stop"
  <2>1. CASE Start(j)
    BY <2>1 DEF Start
  <2>2. CASE Begin(j) \/ Read(j) \/ Wait(j) \/ Loop(j)
    BY <2>2 DEF Begin, Read, Wait, Loop, Starting
  <2> QED
    BY <2>1, <2>2
<1>2. j \in Threads /\ label \in PCs(j) /\ label \notin Playing
  BY ThreadFacts DEF PCs, LoaderPCs, Loading, Playing
<1>3. /\ UNCHANGED <<playback, job, cleared>> /\ pc[j] # "none" /\ pc[j] \notin Stopping
      /\ currentMode' \in {"none", "file", "other"} /\ playNext' \subseteq Callers
  BY DEF IInv, TypeOK, Begin, Read, Wait, Start, Loop, Stopping
<1> QED
  BY <1>1, <1>2, <1>3, Move DEF Starting

LEMMA PushStep == ASSUME IInv, NEW j \in Jobs, Push(j) PROVE IInv'
<1>1. CASE j # fileJob
  <2>1. j \in Threads /\ "done" \in PCs(j) /\ "done" \notin Playing
    BY ThreadFacts DEF PCs, LoaderPCs, Playing
  <2>2. /\ Goto(j, "done") /\ UNCHANGED <<playback, job, cleared>> /\ pc[j] = "push"
        /\ currentMode' \in {"none", "file", "other"} /\ playNext' \subseteq Callers
    BY <1>1 DEF Push, IInv, TypeOK, playback
  <2> QED
    BY <2>1, <2>2, Move DEF Stopping, Starting
<1>2. CASE j = fileJob
  <2>1. PICK n \in 1 .. MaxReps : queue' = queue \o [i \in 1 .. n |-> j]
    BY <1>2 DEF Push
  <2>2. "start" \in PCs(j) /\ "start" \notin Playing /\ j \in Threads
    BY ThreadFacts DEF PCs, LoaderPCs, Loading, Playing
  <2>3. PCOK' /\ pc'[j] = "start" /\ \A u \in Threads \ {j} : pc'[u] = pc[u]
    BY <1>2, <2>2, GotoPC, TypeSplit DEF IInv, Push
  <2>4. [i \in 1 .. n |-> j] \in Seq(Jobs) /\ Len([i \in 1 .. n |-> j]) = n
    BY FilePlayerAssumption
  <2>5. queue \in Seq(Jobs) /\ queue' \in Seq(Jobs) /\ Len(queue') = Len(queue) + n
    BY <2>1, <2>4 DEF IInv, TypeOK
  <2>6. TypeOK'
    BY <2>3, <2>5, TypeSplit, TypeSplitNext DEF IInv, DataOK, Push
  <2>7. JobOrder' /\ JobsFresh'
    BY <2>2, <2>3, ThreadFacts DEF IInv, JobOrder, JobsFresh, Push
  <2>8. PushRoom'
    BY <1>2, <2>3, ThreadFacts DEF PushRoom, Push
  <2>9. BufferBounded'
    <3>1. Len(queue) < Enough
      BY <1>2 DEF IInv, PushRoom, Push
    <3> QED
      BY <2>5, <3>1, FilePlayerAssumption DEF BufferBounded
  <2>10. NoStaleFrames'
    <3> SUFFICES ASSUME NEW i \in 1 .. Len(queue')
                 PROVE  queue'[i] >= cleared
      BY DEF NoStaleFrames, Push
    <3>1. CASE i <= Len(queue)
      BY <2>1, <2>4, <2>5, <3>1 DEF IInv, NoStaleFrames
    <3>2. CASE i > Len(queue)
      <4>1. queue'[i] = j
        BY <2>1, <2>4, <2>5, <3>2
      <4> QED
        BY <1>2, <4>1 DEF IInv, JobOrder, TypeOK
    <3> QED
      BY <2>5, <3>1, <3>2
  <2>11. StopEmpties'
    BY <2>3 DEF StopEmpties
  <2> QED
    BY <2>6, <2>7, <2>8, <2>9, <2>10, <2>11 DEF IInv
<1> QED
  BY <1>1, <1>2

(* The output thread.                                                      *)

LEMMA OutputMove ==
    ASSUME IInv, Look \/ Peek \/ Write \/ FileEnd
    PROVE  IInv'
<1>1. PICK label \in {"peek", "look", "ask", "end", "stop", "play"} : Goto(Output, label)
  BY DEF Look, Peek, Write, FileEnd
<1>2. Output \in Threads /\ Output \notin Jobs /\ label \in PCs(Output) /\ label \notin Playing
  BY ThreadFacts DEF PCs, OutputPCs, CallPCs, Playing
<1>3. /\ UNCHANGED <<playback, job, cleared>> /\ pc[Output] \notin Stopping
      /\ currentMode' \in {"none", "file", "other"} /\ playNext' \subseteq Callers
  BY DEF IInv, TypeOK, Look, Peek, Write, FileEnd, Stopping
<1> QED
  BY <1>1, <1>2, <1>3, Move

LEMMA DropStep == ASSUME IInv, Drop PROVE IInv'
<1>1. /\ Output \in Threads /\ Output \notin Jobs
      /\ "look" \in PCs(Output) /\ "look" \notin Playing
  BY ThreadFacts DEF PCs, OutputPCs, Playing
<1>2. PCOK' /\ pc'[Output] = "look" /\ \A u \in Threads \ {Output} : pc'[u] = pc[u]
  BY <1>1, GotoPC, TypeSplit DEF IInv, Drop
<1>3. queue' = <<>> /\ queue' \in Seq(Jobs) /\ Len(queue') = 0
  BY DEF Drop
<1>4. TypeOK'
  BY <1>2, <1>3, TypeSplit, TypeSplitNext DEF IInv, DataOK, Drop
<1>5. JobOrder' /\ JobsFresh'
  BY <1>1, <1>2, ThreadFacts DEF IInv, JobOrder, JobsFresh, Drop
<1>6. PushRoom' /\ NoStaleFrames' /\ BufferBounded' /\ StopEmpties'
  BY <1>3, FilePlayerAssumption DEF PushRoom, NoStaleFrames, BufferBounded, StopEmpties
<1> QED
  BY <1>4, <1>5, <1>6 DEF IInv

LEMMA TailFacts ==
    ASSUME NEW q \in Seq(Jobs), q # <<>>
    PROVE  /\ Tail(q) \in Seq(Jobs)
           /\ Len(Tail(q)) = Len(q) - 1
           /\ \A i \in 1 .. Len(Tail(q)) : Tail(q)[i] = q[i + 1]
<1>1. Len(q) \in Nat /\ Len(q) # 0
  OBVIOUS
<1>2. Tail(q) \in Seq(Jobs) /\ Len(Tail(q)) = Len(q) - 1
  BY <1>1
<1>3. ASSUME NEW i \in 1 .. Len(Tail(q)) PROVE Tail(q)[i] = q[i + 1]
  BY <1>1, <1>2
<1> QED
  BY <1>2, <1>3

LEMMA PopStep == ASSUME IInv, Pop PROVE IInv'
<1>1. Output \in Threads /\ Output \notin Jobs
  BY ThreadFacts
<1>2. CASE queue = <<>>
  <2>1. "look" \in PCs(Output) /\ "look" \notin Playing
    BY <1>1 DEF PCs, OutputPCs, Playing
  <2>2. /\ Goto(Output, "look") /\ UNCHANGED <<playback, job, cleared>> /\ pc[Output] = "pop"
        /\ currentMode' \in {"none", "file", "other"} /\ playNext' \subseteq Callers
    BY <1>2 DEF Pop, IInv, TypeOK, playback
  <2> QED
    BY <1>1, <2>1, <2>2, Move DEF Stopping
<1>3. CASE queue # <<>>
  <2>1. "write" \in PCs(Output) /\ "write" \notin Playing
    BY <1>1 DEF PCs, OutputPCs, Playing
  <2>2. PCOK' /\ pc'[Output] = "write" /\ \A u \in Threads \ {Output} : pc'[u] = pc[u]
    BY <1>1, <1>3, <2>1, GotoPC, TypeSplit DEF IInv, Pop
  <2>3. /\ queue \in Seq(Jobs) /\ queue' = Tail(queue) /\ queue' \in Seq(Jobs)
        /\ Len(queue') = Len(queue) - 1
        /\ \A i \in 1 .. Len(queue') : queue'[i] = queue[i + 1]
    <3>1. queue \in Seq(Jobs) /\ queue # <<>> /\ queue' = Tail(queue)
      BY <1>3 DEF IInv, TypeOK, Pop
    <3> QED
      BY <3>1, TailFacts
  <2>4. TypeOK'
    BY <2>2, <2>3, TypeSplit, TypeSplitNext DEF IInv, DataOK, Pop
  <2>5. JobOrder' /\ JobsFresh'
    BY <1>1, <2>1, <2>2, ThreadFacts DEF IInv, JobOrder, JobsFresh, Pop
  <2>6. PushRoom' /\ BufferBounded'
    BY <1>1, <2>2, <2>3, ThreadFacts, FilePlayerAssumption
       DEF IInv, PushRoom, BufferBounded, Pop
  <2>7. NoStaleFrames'
    BY <2>3 DEF IInv, NoStaleFrames, Pop
  <2>8. StopEmpties'
    <3>1. \A u \in Threads : pc[u] \in Stopping => pc'[u] \in Stopping
      BY <1>1, <2>2 DEF Pop, Stopping
    <3>2. \A j \in Jobs : pc'[j] = pc[j]
      BY <1>1, <2>2, ThreadFacts
    <3> QED
      BY <1>3, <3>1, <3>2 DEF IInv, StopEmpties, Stopping, Pop
  <2> QED
    BY <2>4, <2>5, <2>6, <2>7, <2>8 DEF IInv
<1> QED
  BY <1>2, <1>3

-----------------------------------------------------------------------------
LEMMA StopStepsInv == ASSUME IInv, NEW t \in Threads, StopSteps(t) PROVE IInv'
BY StopStep, CancelStep, RelinquishStep, StopClearStep DEF StopSteps

LEMMA PlayStepsInv == ASSUME IInv, NEW t \in Threads, PlaySteps(t) PROVE IInv'
BY RequestStep, PlayClearStep, CreateStep DEF PlaySteps

LEMMA Inductive == IInv /\ [Next]_vars => IInv'
<1> SUFFICES ASSUME IInv, [Next]_vars
             PROVE  IInv'
  OBVIOUS
<1>1. ASSUME NEW t \in Callers, Caller(t)
      PROVE  IInv'
  BY <1>1, StopStepsInv, PlayStepsInv, ToggleStep, ThreadFacts DEF Caller
<1>2. ASSUME \/ \E t \in Callers :
                    PlayButton(t) \/ ChooseProgram(t) \/ StopButton(t) \/ StepButton(t)
             \/ PlayCommand
      PROVE  IInv'
  BY <1>2, ButtonStep
<1>3. ASSUME NEW j \in Jobs, Loader(j)
      PROVE  IInv'
  BY <1>3, LoaderMove, PushStep, StartStoreStep, StopStepsInv, ThreadFacts DEF Loader
<1>4. ASSUME OutputLoop
      PROVE  IInv'
  BY <1>4, OutputMove, DropStep, PopStep, StopStepsInv, PlayStepsInv, ThreadFacts
     DEF OutputLoop
<1>5. CASE UNCHANGED vars
  BY <1>5 DEF IInv, vars, playback, TypeOK, JobOrder, JobsFresh, PushRoom, NoStaleFrames,
              BufferBounded, StopEmpties
<1> QED
  BY <1>1, <1>2, <1>3, <1>4, <1>5, RivalStep DEF Next

(* The state of the file player always has its type.                       *)
THEOREM TypeCorrect == Spec => []TypeOK
<1>1. IInv => TypeOK
  BY DEF IInv
<1> QED
  BY Initial, Inductive, <1>1, PTL DEF Spec

(* No frame of a cancelled program comes into a queue that was cleared for *)
(* the call that cancelled it.                                             *)
THEOREM Cancelled == Spec => []NoStaleFrames
<1>1. IInv => NoStaleFrames
  BY DEF IInv
<1> QED
  BY Initial, Inductive, <1>1, PTL DEF Spec

(* The queue keeps its limit, however many loaders there are.              *)
THEOREM Bounded == Spec => []BufferBounded
<1>1. IInv => BufferBounded
  BY DEF IInv
<1> QED
  BY Initial, Inductive, <1>1, PTL DEF Spec

(* A stopped player keeps no frames.                                       *)
THEOREM Stopped == Spec => []StopEmpties
<1>1. IInv => StopEmpties
  BY DEF IInv
<1> QED
  BY Initial, Inductive, <1>1, PTL DEF Spec

-----------------------------------------------------------------------------
(* A loader in its loading part is moved by no other thread.               *)
LEMMA OthersStay ==
    ASSUME IInv, NEW j \in Jobs, pc[j] \in Loading,
           NEW t \in Threads, StopSteps(t) \/ PlaySteps(t)
    PROVE  pc'[j] = pc[j]
<1>1. pc[t] \notin Loading
  BY DEF StopSteps, PlaySteps, Stop, CancelJob, Relinquish, RelinquishStore, StopClear,
         Request, RequestStore, PlayClear, Create, Loading
<1>2. t # j /\ j \in Threads /\ pc \in [Threads -> AllPCs]
  BY <1>1, ThreadFacts, TypeSplit DEF IInv, PCOK
<1>3. ASSUME Create(t) PROVE pc'[j] = pc[j]
  <2>1. pc[job[t]] = "none" /\ job[t] # j
    BY <1>3 DEF IInv, JobsFresh, Playing, Create, Loading
  <2> QED
    BY <1>2, <1>3, <2>1 DEF Create
<1>4. ASSUME ~Create(t) PROVE pc'[j] = pc[j]
  <2>1. PICK label : Goto(t, label)
    BY <1>4 DEF StopSteps, PlaySteps, Stop, CancelJob, Relinquish, RelinquishStore,
                StopClear, Request, RequestStore, PlayClear
  <2> QED
    BY <1>2, <2>1 DEF Goto
<1> QED
  BY <1>3, <1>4

LEMMA LoaderQuits ==
    ASSUME IInv, NEW j \in Jobs, pc[j] \in Loading, fileJob # j, Loader(j), pc'[j] # pc[j]
    PROVE  Rank(pc'[j]) < Rank(pc[j]) /\ queue' = queue
<1>1. j \in Threads /\ pc \in [Threads -> AllPCs]
  BY ThreadFacts, TypeSplit DEF IInv, PCOK
<1>2. CASE Read(j)
  BY <1>1, <1>2 DEF Read, Goto, Rank, playback
<1>3. CASE Wait(j)
  BY <1>1, <1>3 DEF Wait, Goto, Rank, playback
<1>4. CASE Push(j)
  BY <1>1, <1>4 DEF Push, Goto, Rank
<1>5. CASE Start(j)
  BY <1>1, <1>5 DEF Start, Goto, Rank, playback
<1>6. CASE StartStore(j)
  BY <1>1, <1>6 DEF StartStore, Goto, Rank
<1>7. CASE Loop(j)
  BY <1>1, <1>7 DEF Loop, Goto, Rank, playback
<1>8. ~Begin(j) /\ ~StopSteps(j)
  BY <1>1, OthersStay DEF Begin, Loading
<1> QED
  BY <1>2, <1>3, <1>4, <1>5, <1>6, <1>7, <1>8 DEF Loader

(* A cancelled loader goes straight to its end and queues nothing.         *)
THEOREM Quits == Spec => CancelledQuits
<1>1. ASSUME IInv, [Next]_vars, NEW j \in Jobs,
             pc[j] \in Loading, fileJob # j, pc'[j] # pc[j]
      PROVE  Rank(pc'[j]) < Rank(pc[j]) /\ queue' = queue
  <2> USE <1>1
  <2>1. j \in Threads /\ j \notin Callers /\ j # Output /\ pc \in [Threads -> AllPCs]
    BY ThreadFacts, TypeSplit DEF IInv, PCOK
  <2>2. ~\E t \in Callers : Caller(t)
    BY <2>1, OthersStay, ThreadFacts DEF Caller, Toggle, Goto
  <2>3. ~\E t \in Callers :
           PlayButton(t) \/ ChooseProgram(t) \/ StopButton(t) \/ StepButton(t)
    BY <2>1, ThreadFacts DEF PlayButton, ChooseProgram, StopButton, StepButton, Press, Goto
  <2>4. ~PlayCommand
    BY <2>1, ThreadFacts DEF PlayCommand, Press, Goto
  <2>5. ~OutputLoop
    BY <2>1, OthersStay, ThreadFacts
       DEF OutputLoop, Look, Peek, Drop, Pop, Write, FileEnd, Goto
  <2>6. ~Rival /\ ~UNCHANGED vars
    BY DEF Rival, vars
  <2>7. PICK k \in Jobs : Loader(k)
    BY <2>2, <2>3, <2>4, <2>5, <2>6 DEF Next
  <2>8. k = j
    <3> SUFFICES ASSUME k # j
                 PROVE  pc'[j] = pc[j]
      OBVIOUS
    <3>1. CASE StopSteps(k)
      BY <3>1, OthersStay, ThreadFacts
    <3>2. CASE ~StopSteps(k)
      <4>1. PICK label : Goto(k, label)
        BY <2>7, <3>2 DEF Loader, Begin, Read, Wait, Push, Start, StartStore, Loop
      <4> QED
        BY <2>1, <4>1, ThreadFacts DEF Goto
    <3> QED
      BY <3>1, <3>2
  <2> QED
    BY <2>7, <2>8, LoaderQuits
<1>2. IInv /\ [Next]_vars =>
        [\A j \in Jobs :
            (pc[j] \in Loading /\ fileJob # j /\ pc'[j] # pc[j]) =>
                /\ Rank(pc'[j]) < Rank(pc[j])
                /\ queue' = queue]_vars
  BY <1>1
<1> QED
  BY Initial, Inductive, <1>2, PTL DEF Spec, CancelledQuits
=============================================================================
