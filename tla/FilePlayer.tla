------------------------------ MODULE FilePlayer ------------------------------
(***************************************************************************)
(* The file player: programs of ILDA files played from disk.               *)
(*                                                                         *)
(* playFile starts a loader thread that reads the program piece by piece   *)
(* and queues its frames; one output thread plays them.  Buttons, network  *)
(* commands, the output thread at the end of a program and a loader that   *)
(* finds no program all call stop and playFile.  A loader is not stopped   *)
(* but cancelled: every stop and playFile increments fileJob, and a loader *)
(* goes on only while fileJob is still the number of its own job.          *)
(*                                                                         *)
(* An action runs from one access of shared memory to the next; threadLock *)
(* is held where the code holds it.  A frame is the number of the job that *)
(* queued it.  The other output modes, all above the file player in the    *)
(* priorities of the code, are one rival.                                  *)
(***************************************************************************)
EXTENDS Integers, Sequences

CONSTANTS
    Keyboard,   \* the thread of the buttons of the device
    Network,    \* the management network thread
    Output,     \* the output thread of the file player
    Modes,      \* values of the mode setting
    MaxJobs,    \* bound: calls of stop and playFile
    Enough,     \* frames that last longer than minimumQueueDurationMs
    MaxReps     \* bound: numRepetitions

Jobs == 1 .. MaxJobs
Callers == {Keyboard, Network}
Threads == Callers \cup {Output} \cup Jobs

ASSUME FilePlayerAssumption ==
    /\ Modes \subseteq {"repeat", "once", "next"}   \* shuffle is next in another order
    /\ MaxJobs \in Nat
    /\ Enough \in Nat /\ Enough >= 2
    /\ MaxReps \in Nat \ {0}
    /\ Output \notin Callers
    /\ (Callers \cup {Output}) \cap Jobs = {}

VARIABLES
    mode,         \* the setting
    state,        \* stop, pause, play
    fileJob,
    queue,        \* the frames, each the job that queued it
    currentMode,  \* of the ManagementInterface: none, file, other
    pc,           \* where each thread is
    job,          \* the number the last increment of fileJob gave a thread
    playNext,     \* threads that call playFile after their stop
    cleared       \* history: the last job whose call has cleared the queue

playback == <<mode, state, fileJob, queue>>
vars == <<playback, currentMode, pc, job, playNext, cleared>>

(* Where a thread goes on after stop or playFile.                          *)
Home(t) ==
    CASE t \in Jobs -> "done"
      [] t = Output -> "look"
      [] OTHER -> "idle"

Goto(t, label) == pc' = [pc EXCEPT ![t] = label]

(* threadLock is free: a loader keeps it from its push to its start.       *)
LockFree == \A j \in Jobs : pc[j] \notin {"start", "startStore"}

EmptyQueue(t) ==
    /\ LockFree
    /\ queue' = <<>>
    /\ cleared' = IF job[t] > cleared THEN job[t] ELSE cleared

-----------------------------------------------------------------------------
(* FilePlayer::stop                                                        *)

Stop(t) ==
    /\ pc[t] = "stop"
    /\ state' = "stop"
    /\ Goto(t, "cancel")
    /\ UNCHANGED <<mode, fileJob, queue, currentMode, job, playNext, cleared>>

(* The increment of fileJob, in stop and in playFile.                      *)
CancelJob(t) ==
    /\ pc[t] \in {"cancel", "play"}
    /\ fileJob < MaxJobs
    /\ fileJob' = fileJob + 1
    /\ job' = [job EXCEPT ![t] = fileJob + 1]
    /\ Goto(t, IF pc[t] = "cancel" THEN "relinquish" ELSE "request")
    /\ UNCHANGED <<mode, state, queue, currentMode, playNext, cleared>>

Relinquish(t) ==
    /\ pc[t] = "relinquish"
    /\ Goto(t, IF currentMode = "file" THEN "relinquishStore" ELSE "stopClear")
    /\ UNCHANGED <<playback, currentMode, job, playNext, cleared>>

RelinquishStore(t) ==
    /\ pc[t] = "relinquishStore"
    /\ currentMode' = "none"
    /\ Goto(t, "stopClear")
    /\ UNCHANGED <<playback, job, playNext, cleared>>

StopClear(t) ==
    /\ pc[t] = "stopClear"
    /\ EmptyQueue(t)
    /\ Goto(t, IF t \in playNext THEN "play" ELSE Home(t))
    /\ playNext' = playNext \ {t}
    /\ job' = [job EXCEPT ![t] = 0]
    /\ UNCHANGED <<mode, state, fileJob, currentMode>>

StopSteps(t) ==
    Stop(t) \/ CancelJob(t) \/ Relinquish(t) \/ RelinquishStore(t) \/ StopClear(t)

-----------------------------------------------------------------------------
(* FilePlayer::playFile; the output loop and the network command "Play     *)
(* file" also ask for the output on their own ("ask").                     *)

Granted(t) ==
    CASE pc[t] \in {"request", "requestStore"} -> "playClear"
      [] t = Output -> "pop"
      [] OTHER -> "play"

Refused(t) ==
    IF pc[t] = "ask" /\ t = Output THEN "refused" ELSE Home(t)

Request(t) ==
    /\ pc[t] \in {"ask", "request"}
    /\ Goto(t, CASE currentMode = "file" -> Granted(t)
                 [] currentMode = "none" ->
                        IF pc[t] = "ask" THEN "askStore" ELSE "requestStore"
                 [] OTHER -> Refused(t))
    /\ UNCHANGED <<playback, currentMode, job, playNext, cleared>>

RequestStore(t) ==
    /\ pc[t] \in {"askStore", "requestStore"}
    /\ currentMode' = "file"
    /\ Goto(t, Granted(t))
    /\ UNCHANGED <<playback, job, playNext, cleared>>

PlayClear(t) ==
    /\ pc[t] = "playClear"
    /\ EmptyQueue(t)
    /\ Goto(t, "create")
    /\ UNCHANGED <<mode, state, fileJob, currentMode, job, playNext>>

(* pthread_create.  playFileThread, the loader before, was joined above:   *)
(* it is detached, so the join is undefined; glibc's returns at once with  *)
(* an error.                                                               *)
Create(t) ==
    /\ pc[t] = "create"
    /\ pc' = [pc EXCEPT ![t] = Home(t), ![job[t]] = "ready"]
    /\ job' = [job EXCEPT ![t] = 0]
    /\ UNCHANGED <<playback, currentMode, playNext, cleared>>

PlaySteps(t) == Request(t) \/ RequestStore(t) \/ PlayClear(t) \/ Create(t)

-----------------------------------------------------------------------------
(* The buttons and commands.                                               *)

Press(t, label) ==
    /\ pc[t] = "idle"
    /\ Goto(t, label)
    /\ UNCHANGED <<playback, currentMode, job, cleared>>

(* playButtonPress, or another program chosen in the menu.                 *)
PlayButton(t) ==
    /\ Press(t, CASE state = "play" -> "toPause"
                  [] state = "pause" -> "toPlay"
                  [] OTHER -> "play")
    /\ UNCHANGED playNext

ChooseProgram(t) == Press(t, "play") /\ UNCHANGED playNext

(* emitEscButtonPressed, of the keyboard or of command 0x08                *)
StopButton(t) == Press(t, "stop") /\ UNCHANGED playNext

(* upButtonPress and downButtonPress                                       *)
StepButton(t) ==
    /\ state # "stop"
    /\ Press(t, "stop")
    /\ playNext' = playNext \cup {t}

PlayCommand == Press(Network, "ask") /\ UNCHANGED playNext

(* The store that ends playButtonPress.                                    *)
Toggle(t) ==
    /\ pc[t] \in {"toPause", "toPlay"}
    /\ state' = IF pc[t] = "toPause" THEN "pause" ELSE "play"
    /\ Goto(t, "idle")
    /\ UNCHANGED <<mode, fileJob, queue, currentMode, job, playNext, cleared>>

-----------------------------------------------------------------------------
(* The loader: FilePlayer::playFileInnerJob                                *)

(* There is the program, or there is none.                                 *)
Begin(j) ==
    /\ pc[j] = "ready"
    /\ \/ Goto(j, "read")
       \/ Goto(j, "stop")
    /\ UNCHANGED <<playback, currentMode, job, playNext, cleared>>

(* The next section is a frame, or the files of the program are at an end. *)
Read(j) ==
    /\ pc[j] = "read"
    /\ \/ Goto(j, "wait")
       \/ Goto(j, "loop")
    /\ UNCHANGED <<playback, currentMode, job, playNext, cleared>>

(* Fault: one frame more than enough.                                      *)
WaitLate(j) ==
    /\ pc[j] = "wait"
    /\ Len(queue) <= Enough \/ j # fileJob
    /\ LockFree
    /\ Goto(j, "push")
    /\ UNCHANGED <<playback, currentMode, job, playNext, cleared>>

(* "Wait in the background until the queue is small enough"                *)
Wait(j) ==
    /\ pc[j] = "wait"
    /\ Len(queue) < Enough \/ j # fileJob
    /\ LockFree
    /\ Goto(j, "push")
    /\ UNCHANGED <<playback, currentMode, job, playNext, cleared>>

(* Fault: the job is not checked under the lock.                           *)
PushUnchecked(j) ==
    /\ pc[j] = "push"
    /\ LockFree
    /\ queue' = Append(queue, j)
    /\ Goto(j, "start")
    /\ UNCHANGED <<mode, state, fileJob, currentMode, job, playNext, cleared>>

(* Under the lock the job is checked again.                                *)
Push(j) ==
    /\ pc[j] = "push"
    /\ LockFree
    /\ IF j = fileJob
       THEN /\ \E n \in 1 .. MaxReps : queue' = queue \o [i \in 1 .. n |-> j]
            /\ Goto(j, "start")
       ELSE Goto(j, "done") /\ UNCHANGED queue
    /\ UNCHANGED <<mode, state, fileJob, currentMode, job, playNext, cleared>>

(* Fault: the loader does not start a stopped player.                      *)
StartPlaying(j) ==
    /\ pc[j] = "start"
    /\ Goto(j, IF state # "play" THEN "read" ELSE "startStore")
    /\ UNCHANGED <<playback, currentMode, job, playNext, cleared>>

(* A paused player stays so, otherwise start().                            *)
Start(j) ==
    /\ pc[j] = "start"
    /\ Goto(j, IF state = "pause" THEN "read" ELSE "startStore")
    /\ UNCHANGED <<playback, currentMode, job, playNext, cleared>>

StartStore(j) ==
    /\ pc[j] = "startStore"
    /\ state' = "play"
    /\ Goto(j, "read")
    /\ UNCHANGED <<mode, fileJob, queue, currentMode, job, playNext, cleared>>

(* Fault: a loop goes on for a cancelled job.                              *)
LoopForever(j) ==
    /\ pc[j] = "loop"
    /\ Goto(j, IF state = "play" /\ mode = "repeat" THEN "read" ELSE "done")
    /\ UNCHANGED <<playback, currentMode, job, playNext, cleared>>

(* "Start over again if looping"                                           *)
Loop(j) ==
    /\ pc[j] = "loop"
    /\ Goto(j, IF state = "play" /\ mode = "repeat" /\ j = fileJob
               THEN "read" ELSE "done")
    /\ UNCHANGED <<playback, currentMode, job, playNext, cleared>>

Loader(j) ==
    \/ Begin(j) \/ Read(j) \/ Wait(j) \/ Push(j) \/ Start(j) \/ StartStore(j) \/ Loop(j)
    \/ StopSteps(j)

-----------------------------------------------------------------------------
(* The output thread: FilePlayer::outputLoop                               *)

Look ==
    /\ pc[Output] = "look"
    /\ state # "stop"
    /\ Goto(Output, "peek")
    /\ UNCHANGED <<playback, currentMode, job, playNext, cleared>>

Peek ==
    /\ pc[Output] = "peek"
    /\ LockFree
    /\ Goto(Output, IF queue = <<>> THEN "look" ELSE "ask")
    /\ UNCHANGED <<playback, currentMode, job, playNext, cleared>>

(* "Requested file player output, but was busy"                            *)
Drop ==
    /\ pc[Output] = "refused"
    /\ LockFree
    /\ queue' = <<>>
    /\ Goto(Output, "look")
    /\ UNCHANGED <<mode, state, fileJob, currentMode, job, playNext, cleared>>

Pop ==
    /\ pc[Output] = "pop"
    /\ LockFree
    /\ IF queue = <<>>
       THEN Goto(Output, "look") /\ UNCHANGED queue
       ELSE Goto(Output, "write") /\ queue' = Tail(queue)
    /\ UNCHANGED <<mode, state, fileJob, currentMode, job, playNext, cleared>>

(* The frame is written; an empty queue counts as the end of the program.  *)
Write ==
    /\ pc[Output] = "write"
    /\ LockFree
    /\ Goto(Output, IF queue = <<>> THEN "end" ELSE "look")
    /\ UNCHANGED <<playback, currentMode, job, playNext, cleared>>

(* doFileEndAction: the next program may be the same, another, or none.    *)
FileEnd ==
    /\ pc[Output] = "end"
    /\ \E label \in CASE mode = "repeat" \/ state = "pause" -> {"look"}
                      [] mode = "once" -> {"stop"}
                      [] OTHER -> {"look", "play", "stop"} :
          Goto(Output, label)
    /\ UNCHANGED <<playback, currentMode, job, playNext, cleared>>

OutputLoop == Look \/ Peek \/ Drop \/ Pop \/ Write \/ FileEnd \/ StopSteps(Output) \/ PlaySteps(Output)

-----------------------------------------------------------------------------
(* The other modes: several threads, each with its loads and stores        *)
(* (OutputArbiter), so that either store may come at any time.             *)

Rival ==
    /\ currentMode' \in {"other", "none"} \ {currentMode}
    /\ UNCHANGED <<playback, pc, job, playNext, cleared>>

Init ==
    /\ mode \in Modes
    /\ state = "stop"
    /\ fileJob = 0
    /\ queue = <<>>
    /\ currentMode = "none"
    /\ pc = [t \in Threads |-> IF t \in Jobs THEN "none" ELSE Home(t)]
    /\ job = [t \in Threads |-> 0]
    /\ playNext = {}
    /\ cleared = 0

Caller(t) == StopSteps(t) \/ PlaySteps(t) \/ Toggle(t)

Next ==
    \/ \E t \in Callers :
          Caller(t) \/ PlayButton(t) \/ ChooseProgram(t) \/ StopButton(t) \/ StepButton(t)
    \/ PlayCommand
    \/ \E j \in Jobs : Loader(j)
    \/ OutputLoop
    \/ Rival

Spec == Init /\ [][Next]_vars

-----------------------------------------------------------------------------
(* Properties.                                                             *)

CallPCs == {"stop", "cancel", "relinquish", "relinquishStore", "stopClear", "play",
            "request", "requestStore", "playClear", "create"}
CallerPCs == CallPCs \cup {"idle", "toPause", "toPlay", "ask", "askStore"}
OutputPCs == CallPCs \cup {"look", "peek", "ask", "askStore", "refused", "pop", "write", "end"}
Loading == {"read", "wait", "push", "start", "startStore", "loop"}
LoaderPCs == {"none", "ready", "stop", "cancel", "relinquish", "relinquishStore",
              "stopClear", "done"} \cup Loading

(* Every variable has its type.                                            *)
TypeOK ==
    /\ mode \in Modes
    /\ state \in {"stop", "pause", "play"}
    /\ fileJob \in 0 .. MaxJobs
    /\ queue \in Seq(Jobs)
    /\ currentMode \in {"none", "file", "other"}
    /\ pc \in [Threads -> CallerPCs \cup OutputPCs \cup LoaderPCs]
    /\ \A t \in Callers : pc[t] \in CallerPCs
    /\ pc[Output] \in OutputPCs
    /\ \A j \in Jobs : pc[j] \in LoaderPCs
    /\ job \in [Threads -> 0 .. MaxJobs]
    /\ playNext \subseteq Callers
    /\ cleared \in 0 .. MaxJobs

(* "It cancels loading if a new file is played instead": once a stop or a  *)
(* playFile has cleared the queue, no frame of the programs it cancelled   *)
(* comes into the queue again, however slow their loaders are.             *)
NoStaleFrames == \A i \in 1 .. Len(queue) : queue[i] >= cleared

(* The loader looks at the queue, lets go of the lock and pushes later;    *)
(* still the queue never holds more than one frame and its repetitions     *)
(* above what is enough, though several loaders may be past their look.    *)
BufferBounded == Len(queue) <= Enough - 1 + MaxReps

(* A stopped player keeps no frames that a later play would flash up: a    *)
(* queue that is not empty in the state stop is about to be cleared, or    *)
(* its loader is about to set the state.                                   *)
StopEmpties ==
    (state = "stop" /\ queue # <<>>) =>
        \/ \E t \in Threads :
               pc[t] \in {"cancel", "relinquish", "relinquishStore", "stopClear"}
        \/ \E j \in Jobs : pc[j] \in {"start", "startStore"}

(* What a loader in the loading part still has to do; the loop back to     *)
(* read is the only way up.                                                *)
Rank(label) ==
    CASE label = "start" -> 6 [] label = "startStore" -> 5 [] label = "read" -> 4
      [] label = "wait" -> 3 [] label = "push" -> 2 [] label = "loop" -> 1
      [] OTHER -> 0

(* A cancelled loader goes straight to its end: whatever the others do, it *)
(* neither queues a frame nor reads the program once more.                 *)
CancelledQuits ==
    [][\A j \in Jobs :
          (pc[j] \in Loading /\ fileJob # j /\ pc'[j] # pc[j]) =>
              /\ Rank(pc'[j]) < Rank(pc[j])
              /\ queue' = queue]_vars
=============================================================================
