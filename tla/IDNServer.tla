------------------------------ MODULE IDNServer ------------------------------
(***************************************************************************)
(* The network thread of the OpenIDN server: IDN-RT connections, their     *)
(* sessions, the channels a session routes to services, the inlet a laser  *)
(* projector service lends to one channel, and the operation mode of the   *)
(* output behind the inlet.                                                *)
(*                                                                         *)
(* The thread (SockIDNServer::mainNetLoop) is sequential: it waits in      *)
(* select(), handles at most one datagram, and does its housekeeping.  An  *)
(* action is one of those handlers, with all the calls it makes.  What     *)
(* runs beside it are the clients, the clock, and the driver threads that  *)
(* empty the queues of the adapters (module AdapterQueue has their steps). *)
(*                                                                         *)
(* A handler is a pipeline of operators, each one a method of the code,    *)
(* that map a record of the routing state (Core) to the next one.          *)
(***************************************************************************)
EXTENDS Integers, FiniteSets

CONSTANTS
    Clients,         \* link addresses: remote address and client group
    Sessions,        \* session objects the server can allocate
    Channels,        \* channel IDs of a session (64 in the code)
    Services,        \* laser projector services, by service ID
    DefaultService,  \* the first service with the default flag, or NoService
    NoService,       \* a null service handle
    NoSession,       \* no connection object, hence no session
    Requests,        \* the routings clients ask for: [service, mode]
    NoRequest,       \* a channel message without the routing flag
    LinkTimeout,     \* LINK_TIMEOUT_US, in ticks
    SessionTimeout   \* SESSION_TIMEOUT_US, in ticks

DefaultID == "default"    \* service ID 0: any default service
UnknownID == "unknown"    \* a service ID no service has

(* Graphic modes have an inlet, the effect modes are handled without one,  *)
(* "other" stands for the modes no laser projector service handles.        *)
GraphicModes == {"continuous", "discrete"}
HandledModes == GraphicModes \cup {"effect"}
ServiceModes == HandledModes \cup {"other", "void"}

ServiceIDs == Services \cup {DefaultID, UnknownID}
Routings   == [service : ServiceIDs, mode : ServiceModes]
NoRouting  == [service |-> UnknownID, mode |-> "void"]

ASSUME ServicesAssumption ==
    /\ NoService \notin Services
    /\ DefaultService \in Services \cup {NoService}
    /\ DefaultID \notin Services /\ UnknownID \notin Services

ASSUME SessionsAssumption ==
    /\ NoSession \notin Sessions
    /\ IsFiniteSet(Channels)

ASSUME RequestsAssumption ==
    /\ Requests \subseteq Routings
    /\ NoRequest \notin Routings

ASSUME TimeoutsAssumption ==
    /\ LinkTimeout \in Nat
    /\ SessionTimeout \in Nat

VARIABLES
    phase,         \* the network thread: "select", "house" or "down"
    alive,         \* clients that are still there (environment)
    conn,          \* connection of a client: its session and input age
    sess,          \* session objects: state, inputTimeValid, input age
    channel,       \* channels of the sessions
    pev,           \* pipelineEvents of the channels
    openCount,     \* openChannelCount of the sessions
    currentInlet,  \* inlet a service has lent
    opMode,        \* operation mode of a service's output
    backlog,       \* the adapter queue holds unread buffers
    ack            \* acknowledgement sent by the handler that just ran

routing == <<channel, pev, openCount, currentInlet, opMode, backlog>>
vars == <<phase, alive, conn, sess, routing, ack>>

Slots == Sessions \X Channels

Inlets  == {"continuous", "discrete"}
Active  == {"wave", "frame"}
OpModes == {"idle", "flushing"} \cup Active

RoutingErrors  == {"SMERR", "BSYERR"}
PipelineEvents == {"ROUTED", "CLOSED"} \cup RoutingErrors

(* CHANNEL_FLAG_OPEN, CHANNEL_MASK_CONNSTATE, serviceID and serviceMode,   *)
(* serviceHnd and conduitHnd of an IDN_CHANNEL.                            *)
Channel ==
    [open    : BOOLEAN,
     cs      : {"none", "connected", "serviceError", "conduitError"},
     routing : Routings,
     service : Services \cup {NoService},
     conduit : Inlets \cup {"none"}]

ClosedChannel ==
    [open |-> FALSE, cs |-> "none", routing |-> NoRouting,
     service |-> NoService, conduit |-> "none"]

Ages(timeout) == 0 .. timeout + 1
Older(age, timeout) == IF age > timeout THEN age ELSE age + 1

Connection == [session : Sessions \cup {NoSession}, age : Ages(LinkTimeout)]
NoConnection == [session |-> NoSession, age |-> 0]

Session ==
    [state : {"none", "attached", "abandoned"},
     inputValid : BOOLEAN, age : Ages(SessionTimeout)]
NewSession == [state |-> "attached", inputValid |-> FALSE, age |-> 0]
NoSessionObject == [state |-> "none", inputValid |-> FALSE, age |-> 0]

(* A channel message: its routing flag and request, its close flag, and    *)
(* whether its content leaves a buffer in the adapter queue (it does not   *)
(* when the inlet discards it or the driver has read it already).          *)
Messages ==
    [channel : Channels, request : Requests \cup {NoRequest},
     close : BOOLEAN, fed : BOOLEAN]

NoAck == [kind |-> "none"]
Acks ==
    {NoAck} \cup
    [kind : {"error"}] \cup
    [kind : {"status"}, session : Sessions, open : BOOLEAN, closing : BOOLEAN] \cup
    [kind : {"events"}, session : Sessions, channel : Channels,
     events : SUBSET PipelineEvents, open : BOOLEAN, closing : BOOLEAN,
     routed : Requests \cup {NoRequest}]

-----------------------------------------------------------------------------
(* The routing state as a record, and the methods that change it.          *)

Core ==
    [channel |-> channel, pev |-> pev, openCount |-> openCount,
     inlet |-> currentInlet, mode |-> opMode, backlog |-> backlog]

Become(st) ==
    /\ channel' = st.channel
    /\ pev' = st.pev
    /\ openCount' = st.openCount
    /\ currentInlet' = st.inlet
    /\ opMode' = st.mode
    /\ backlog' = st.backlog

(* Fault: the output goes idle whether the adapter stopped or not.         *)
StoppedAtOnce(busy) == "idle"

(* STDLaproGraphicOutput::gracefulStop: the adapter stops only once its    *)
(* queue is empty, until then the output is flushing.                      *)
StoppedMode(busy) == IF busy THEN "flushing" ELSE "idle"

(* Services whose inlet the channels of C hold.  A release with another    *)
(* inlet than the lent one is refused (releaseInlet).                      *)
Released(st, C) ==
    {v \in Services : \E p \in C :
        /\ st.channel[p].service = v
        /\ st.channel[p].conduit = st.inlet[v]
        /\ st.inlet[v] # "none"}

(* IDNSession::releaseHandles of every channel of C.  The inlet goes back  *)
(* to its service and the output is closed.  No two channels hold the same *)
(* service (ExclusiveInlet), so the order of the releases is irrelevant.   *)
ReleaseHandles(st, C) ==
    LET freed == Released(st, C)
    IN  [st EXCEPT
          !.channel = [p \in Slots |->
              IF p \in C
              THEN [st.channel[p] EXCEPT !.service = NoService, !.conduit = "none"]
              ELSE st.channel[p]],
          !.inlet = [v \in Services |->
              IF v \in freed THEN "none" ELSE st.inlet[v]],
          !.mode = [v \in Services |->
              IF v \in freed /\ st.mode[v] \in Active
              THEN StoppedMode(st.backlog[v]) ELSE st.mode[v]]]

(* Fault: a channel is closed without releasing its handles.               *)
CloseKeepingHandles(st, C) ==
    [st EXCEPT
      !.channel = [p \in Slots |-> IF p \in C THEN ClosedChannel ELSE st.channel[p]],
      !.pev = [p \in Slots |-> IF p \in C THEN {"CLOSED"} ELSE st.pev[p]],
      !.openCount = [s \in Sessions |->
          st.openCount[s] - Cardinality({k \in Channels : <<s, k>> \in C})]]

(* ODFSession::closeChannel of every channel of C, all of them open.       *)
CloseChannels(st, C) ==
    LET rel == ReleaseHandles(st, C)
    IN  [rel EXCEPT
          !.channel = [p \in Slots |->
              IF p \in C THEN ClosedChannel ELSE rel.channel[p]],
          !.pev = [p \in Slots |->
              IF p \in C THEN {"CLOSED"} ELSE st.pev[p]],
          !.openCount = [s \in Sessions |->
              st.openCount[s] - Cardinality({k \in Channels : <<s, k>> \in C})]]

OpenSlots(st, S) == {p \in Slots : p[1] \in S /\ st.channel[p].open}

(* Fault: the reset of a session leaves its channels alone.                *)
ResetKeepingChannels(st, S) == st

(* IDNSession::reset of the sessions S.                                    *)
Reset(st, S) == CloseChannels(st, OpenSlots(st, S))

(* Fault: an opened channel is not counted.                                *)
OpenUncounted(st, p) == [st EXCEPT !.channel[p].open = TRUE, !.pev[p] = {"ROUTED"}]

(* ODFSession::openChannel                                                 *)
OpenChannel(st, p) ==
    [st EXCEPT !.channel[p].open = TRUE,
               !.openCount[p[1]] = @ + 1,
               !.pev[p] = {"ROUTED"}]

(* ODFSession::requestService with IDNServer::getService, getDefaultService *)
FindService(req) ==
    CASE req.service \in Services -> req.service
      [] req.service = DefaultID /\ req.mode \in HandledModes -> DefaultService
      [] OTHER -> NoService

(* The channel takes the new routing with no handles, and the request has  *)
(* left the given connection state and pipeline event flags.               *)
Unrouted(st, p, req, cs, events) ==
    [st EXCEPT !.channel[p] = [@ EXCEPT !.routing = req, !.cs = cs],
               !.pev[p] = @ \cup events]

(* Fault: neither the service nor its output looks whether it is in use.   *)
InletUnchecked(st, v, mode) == mode \in GraphicModes

(* IDNLaproService::requestInlet succeeds: no inlet is lent, the mode has  *)
(* one, and the output opens (STDLaproGraphicOutput::open).                *)
InletAvailable(st, v, mode) ==
    /\ st.inlet[v] = "none"
    /\ mode \in GraphicModes
    /\ st.mode[v] \notin Active

(* The inlet is lent to the (open) channel, and the output opened.         *)
Connected(st, p, v, req) ==
    [st EXCEPT
       !.channel[p] = [open |-> TRUE, cs |-> "connected", routing |-> req,
                       service |-> v, conduit |-> req.mode],
       !.inlet[v] = req.mode,
       !.mode[v] = IF req.mode = "continuous" THEN "wave" ELSE "frame"]

(* "Connect to the requested service" of IDNSession::processChannelMessage *)
(* with ODFSession::requestService and requestConduit.                     *)
Connect(st, p, req) ==
    LET v == FindService(req)
    IN  CASE req.mode = "void" -> Unrouted(st, p, req, "connected", {})
          [] req.mode # "void" /\ v = NoService ->
                Unrouted(st, p, req, "serviceError", {"SMERR"})
          [] v # NoService /\ req.mode \notin HandledModes \cup {"void"} ->
                Unrouted(st, p, req, "conduitError", {"SMERR"})
          [] v # NoService /\ req.mode \in HandledModes
                           /\ ~InletAvailable(st, v, req.mode) ->
                Unrouted(st, p, req, "conduitError", {"BSYERR"})
          [] OTHER -> Connected(st, p, v, req)

(* The routing flag of a message: reconnect a channel that is not          *)
(* connected, or is connected to something else.                           *)
Route(st, p, req) ==
    LET ch == st.channel[p]
    IN  IF ch.cs = "connected" /\ ch.routing = req
        THEN st
        ELSE IF ch.cs = "connected"
             THEN Connect(ReleaseHandles(st, {p}), p, req)
             ELSE Connect(st, p, req)

(* ODFSession::input, as far as the adapter queue is concerned.            *)
Input(st, p, fed) ==
    LET v == st.channel[p].service
    IN  IF fed /\ v # NoService THEN [st EXCEPT !.backlog[v] = TRUE] ELSE st

(* IDNSession::processChannelMessage                                       *)
ProcessChannelMessage(st, p, msg) ==
    LET routed == msg.request # NoRequest
        opened == IF st.channel[p].open THEN st ELSE OpenChannel(st, p)
        linked == IF routed THEN Route(opened, p, msg.request) ELSE opened
        passed == Input(linked, p, msg.fed)
    IN  IF ~st.channel[p].open /\ ~routed THEN st
        ELSE IF msg.close THEN CloseChannels(passed, {p}) ELSE passed

(* Fault: the closed flag is cleared like the others.                      *)
ClearAllEvents(st, p) == [st EXCEPT !.pev[p] = {}]

(* ODFSession::clearPipelineEvents: the closed flag is sticky.             *)
ClearPipelineEvents(st, p) == [st EXCEPT !.pev[p] = @ \cap {"CLOSED"}]

-----------------------------------------------------------------------------
(* The datagrams of the network loop.                                      *)

Freelist == {s \in Sessions : sess[s].state = "none"}

(* The session of a client's connection; a client without a connection     *)
(* gets a new connection with a new session.                               *)
SessionFor(c) ==
    IF conn[c].session # NoSession THEN {conn[c].session} ELSE Freelist

(* Constructor of a session object: channels closed and no open channel.   *)
CreateSession(st, s) ==
    [st EXCEPT
       !.channel = [p \in Slots |-> IF p[1] = s THEN ClosedChannel ELSE st.channel[p]],
       !.pev = [p \in Slots |-> IF p[1] = s THEN {"CLOSED"} ELSE st.pev[p]],
       !.openCount[s] = 0]

Linked(c, s) ==
    IF conn[c].session # NoSession THEN Core ELSE CreateSession(Core, s)

(* Fault: the connection survives the close of its session.                *)
LinkKept(c, s, cmd) == [session |-> s, age |-> 0]

(* updateInputTime, and the destruction of the connection by a close.      *)
LinkAfter(c, s, cmd) ==
    IF cmd = "CLOSE" THEN NoConnection ELSE [session |-> s, age |-> 0]

(* ODFSession::processChannelMessage notes the input time of any message,  *)
(* cancelGracefully resets and abandons the session.                       *)
SessionAfter(c, s, cmd, message) ==
    LET before == IF conn[c].session # NoSession THEN sess[s] ELSE NewSession
    IN  CASE cmd = "CLOSE" -> [before EXCEPT !.state = "abandoned", !.inputValid = FALSE]
          [] cmd # "CLOSE" /\ message -> [before EXCEPT !.inputValid = TRUE, !.age = 0]
          [] OTHER -> before

AfterClose(st, s, cmd) == IF cmd = "CLOSE" THEN Reset(st, {s}) ELSE st

EventAck(st, s, k, cmd, req) ==
    [kind |-> "events", session |-> s, channel |-> k, events |-> st.pev[<<s, k>>],
     open |-> st.openCount[s] > 0, closing |-> cmd = "CLOSE", routed |-> req]

(* Without the number of a channel there are no events to tell.            *)
StatusAck(st, s, cmd) ==
    [kind |-> "status", session |-> s, open |-> st.openCount[s] > 0,
     closing |-> cmd = "CLOSE"]

(* IDNCMD_RT_CNLMSG and IDNCMD_RT_CNLMSG_CLOSE, with or without _ACKREQ,   *)
(* with a valid channel message as payload.                                *)
ReceiveMessage(c, s, cmd, msg, ackReq) ==
    LET p == <<s, msg.channel>>
        processed == ProcessChannelMessage(Linked(c, s), p, msg)
        acked == IF ackReq THEN ClearPipelineEvents(processed, p) ELSE processed
    IN  /\ phase = "select"
        /\ c \in alive
        /\ s \in SessionFor(c)
        /\ phase' = "house"
        /\ conn' = [conn EXCEPT ![c] = LinkAfter(c, s, cmd)]
        /\ sess' = [sess EXCEPT ![s] = SessionAfter(c, s, cmd, TRUE)]
        /\ Become(AfterClose(acked, s, cmd))
        /\ ack' = IF ackReq
                  THEN EventAck(processed, s, msg.channel, cmd, msg.request)
                  ELSE NoAck
        /\ UNCHANGED alive

(* The same commands without a message: the packet is empty, or its        *)
(* payload was found bad and is cropped (kind "payload"), or the message   *)
(* is refused in processStreamMessage (kind "refused", its channel ID is   *)
(* known and its events are acknowledged).  An empty close of a client     *)
(* without connection is NotConnected.                                     *)
ReceiveBare(c, s, cmd, kind, k, ackReq) ==
    LET events == kind = "refused" /\ ackReq
        linked == Linked(c, s)
        acked == IF events THEN ClearPipelineEvents(linked, <<s, k>>) ELSE linked
    IN  /\ phase = "select"
        /\ c \in alive
        /\ s \in SessionFor(c)
        /\ ~(cmd = "CLOSE" /\ kind = "empty" /\ conn[c].session = NoSession)
        /\ phase' = "house"
        /\ conn' = [conn EXCEPT ![c] = LinkAfter(c, s, cmd)]
        /\ sess' = [sess EXCEPT ![s] = SessionAfter(c, s, cmd, FALSE)]
        /\ Become(AfterClose(acked, s, cmd))
        /\ ack' = IF events THEN EventAck(linked, s, k, cmd, NoRequest)
                  ELSE IF ackReq THEN StatusAck(linked, s, cmd) ELSE NoAck
        /\ UNCHANGED alive

(* An empty close from an unconnected client is answered with an error.    *)
NotConnected(c, ackReq) ==
    /\ phase = "select"
    /\ c \in alive
    /\ conn[c].session = NoSession
    /\ phase' = "house"
    /\ ack' = IF ackReq THEN [kind |-> "error"] ELSE NoAck
    /\ UNCHANGED <<alive, conn, sess, routing>>

(* IDNCMD_RT_ABORT: handleAbort, cancelImmediately, destroyConnection.     *)
Abort(c) ==
    LET s == conn[c].session
    IN  /\ phase = "select"
        /\ c \in alive
        /\ s # NoSession
        /\ phase' = "house"
        /\ conn' = [conn EXCEPT ![c] = NoConnection]
        /\ sess' = [sess EXCEPT ![s].state = "abandoned", ![s].inputValid = FALSE]
        /\ Become(Reset(Core, {s}))
        /\ ack' = NoAck
        /\ UNCHANGED alive

(* select() returns without a datagram; also what remains of a datagram    *)
(* that changes nothing here (ping, scan, an abort without connection).    *)
SelectTimeout ==
    /\ phase = "select"
    /\ phase' = "house"
    /\ UNCHANGED <<alive, conn, sess, routing, ack>>

-----------------------------------------------------------------------------
(* Housekeeping after every select(), and at the shutdown.                 *)

LostClients ==
    {c \in Clients : conn[c].session # NoSession /\ conn[c].age > LinkTimeout}
LostSessions == {conn[c].session : c \in LostClients}
IdleSessions ==
    {s \in Sessions \ LostSessions :
        sess[s].state = "attached" /\ sess[s].inputValid /\ sess[s].age > SessionTimeout}
DeadSessions == {s \in Sessions : sess[s].state = "abandoned"} \cup LostSessions

(* Fault: housekeeping does not retry.                                     *)
RetryNever(st) == st

(* STDLaproGraphicOutput::housekeeping: retry the graceful stop.           *)
RetryStop(st) ==
    [st EXCEPT !.mode = [v \in Services |->
        IF st.mode[v] = "flushing" THEN StoppedMode(st.backlog[v]) ELSE st.mode[v]]]

(* IDNServer::housekeeping: connections, sessions, services.               *)
Housekeeping ==
    /\ phase = "house"
    /\ phase' = "select"
    /\ conn' = [c \in Clients |-> IF c \in LostClients THEN NoConnection ELSE conn[c]]
    /\ sess' = [s \in Sessions |->
                  IF s \in DeadSessions THEN NoSessionObject
                  ELSE IF s \in IdleSessions THEN [sess[s] EXCEPT !.inputValid = FALSE]
                  ELSE sess[s]]
    /\ Become(RetryStop(Reset(Core, LostSessions \cup IdleSessions)))
    /\ ack' = NoAck
    /\ UNCHANGED alive

(* STDLaproGraphicOutput::housekeeping with the shutdown flag: the adapter *)
(* of an output that is not idle is stopped at once, its queue discarded.  *)
ForcedStop(st) ==
    [st EXCEPT !.backlog = [v \in Services |->
        IF st.mode[v] = "idle" THEN st.backlog[v] ELSE FALSE]]

(* The loop ends (stop request, signal, receive error) and the thread does *)
(* the shutdown housekeeping: housekeeping(env, 0).                        *)
Shutdown ==
    /\ phase = "select"
    /\ phase' = "down"
    /\ conn' = [c \in Clients |-> NoConnection]
    /\ sess' = [s \in Sessions |-> NoSessionObject]
    /\ Become(ForcedStop(Reset(Core, Sessions)))
    /\ ack' = NoAck
    /\ UNCHANGED alive

-----------------------------------------------------------------------------
(* Clock, clients and driver threads.                                      *)

(* Time passes while the thread waits; ages stop one past the timeout.     *)
Tick ==
    /\ phase = "select"
    /\ conn' = [c \in Clients |-> IF conn[c].session = NoSession THEN conn[c]
                  ELSE [conn[c] EXCEPT !.age = Older(@, LinkTimeout)]]
    /\ sess' = [s \in Sessions |-> IF sess[s].inputValid
                  THEN [sess[s] EXCEPT !.age = Older(@, SessionTimeout)] ELSE sess[s]]
    /\ UNCHANGED <<phase, alive, routing, ack>>

(* A client disappears without a word.                                     *)
Vanish(c) ==
    /\ c \in alive
    /\ alive' = alive \ {c}
    /\ UNCHANGED <<phase, conn, sess, routing, ack>>

(* The driver thread of the service has read all buffers of its adapter.   *)
Drain(v) ==
    /\ backlog[v]
    /\ backlog' = [backlog EXCEPT ![v] = FALSE]
    /\ UNCHANGED <<phase, alive, conn, sess, channel, pev, openCount,
                   currentInlet, opMode, ack>>

(* After the shutdown the thread is gone.                                  *)
Terminated == phase = "down" /\ UNCHANGED vars

Init ==
    /\ phase = "select"
    /\ alive = Clients
    /\ conn = [c \in Clients |-> NoConnection]
    /\ sess = [s \in Sessions |-> NoSessionObject]
    /\ channel = [p \in Slots |-> ClosedChannel]
    /\ pev = [p \in Slots |-> {"CLOSED"}]
    /\ openCount = [s \in Sessions |-> 0]
    /\ currentInlet = [v \in Services |-> "none"]
    /\ opMode = [v \in Services |-> "idle"]
    /\ backlog = [v \in Services |-> FALSE]
    /\ ack = NoAck

Commands == {"CNLMSG", "CLOSE"}
BareKinds == {"empty", "payload", "refused"}

Datagram(c) ==
    \/ \E s \in Sessions, cmd \in Commands, msg \in Messages, ackReq \in BOOLEAN :
          ReceiveMessage(c, s, cmd, msg, ackReq)
    \/ \E s \in Sessions, cmd \in Commands, kind \in BareKinds,
          k \in Channels, ackReq \in BOOLEAN :
          ReceiveBare(c, s, cmd, kind, k, ackReq)
    \/ \E ackReq \in BOOLEAN : NotConnected(c, ackReq)
    \/ Abort(c)

Next ==
    \/ \E c \in Clients : Datagram(c) \/ Vanish(c)
    \/ SelectTimeout
    \/ Housekeeping
    \/ Shutdown
    \/ Tick
    \/ \E v \in Services : Drain(v)
    \/ Terminated

(* select() has a timeout of 20 ms, so the loop turns even when no client  *)
(* sends, and a flood of datagrams cannot stop the clock.  A driver thread *)
(* keeps reading its adapter.                                              *)
Fairness ==
    /\ WF_vars(SelectTimeout)
    /\ WF_vars(Housekeeping)
    /\ SF_vars(Tick)
    /\ \A v \in Services : WF_vars(Drain(v))

Spec == Init /\ [][Next]_vars /\ Fairness

-----------------------------------------------------------------------------
(* Properties.                                                             *)

(* Every variable has its type.                                            *)
TypeOK ==
    /\ phase \in {"select", "house", "down"}
    /\ alive \subseteq Clients
    /\ conn \in [Clients -> Connection]
    /\ sess \in [Sessions -> Session]
    /\ channel \in [Slots -> Channel]
    /\ pev \in [Slots -> SUBSET PipelineEvents]
    /\ openCount \in [Sessions -> Int]
    /\ currentInlet \in [Services -> Inlets \cup {"none"}]
    /\ opMode \in [Services -> OpModes]
    /\ backlog \in [Services -> BOOLEAN]
    /\ ack \in Acks

Holders(v) == {p \in Slots : channel[p].service = v}

(* At most one channel of all sessions holds a handle of a service.        *)
ExclusiveInlet ==
    \A v \in Services : \A p, q \in Holders(v) : p = q

(* An inlet is lent exactly while some open, connected channel holds it:   *)
(* no inlet leaks when sessions die, and no channel keeps a stale handle.  *)
InletOwned ==
    /\ \A v \in Services : (currentInlet[v] # "none") => Holders(v) # {}
    /\ \A v \in Services : \A p \in Holders(v) :
          /\ channel[p].open
          /\ channel[p].cs = "connected"
          /\ channel[p].conduit = currentInlet[v]
          /\ currentInlet[v] # "none"

(* The operation mode of an output is that of the inlet lent by its        *)
(* service, so that a buffer is never played in the mode of another        *)
(* client's channel; and an output is idle only with its queue empty: a    *)
(* regular close never stops the adapter before everything was read.       *)
OutputFollowsInlet ==
    \A v \in Services :
        /\ opMode[v] = "wave" <=> currentInlet[v] = "continuous"
        /\ opMode[v] = "frame" <=> currentInlet[v] = "discrete"
        /\ opMode[v] = "idle" => ~backlog[v]

(* IDN-RT has a 1:1 correspondence of connection and session: a connection *)
(* has an attached session of its own, a session without a connection is   *)
(* abandoned and has closed all its channels, and while the thread waits   *)
(* for input no abandoned session is left.                                 *)
SessionOwnership ==
    /\ \A c \in Clients : conn[c].session # NoSession =>
          /\ sess[conn[c].session].state = "attached"
          /\ \A d \in Clients : conn[d].session = conn[c].session => d = c
    /\ \A s \in Sessions : sess[s].state = "attached" =>
          \E c \in Clients : conn[c].session = s
    /\ \A s \in Sessions, k \in Channels :
          sess[s].state # "attached" => ~channel[<<s, k>>].open
    /\ phase = "select" => \A s \in Sessions : sess[s].state # "abandoned"

(* A session that holds an open channel noted the time of its last input,  *)
(* so that the session timeout can find it.                                *)
OpenChannelsAreTimed ==
    \A s \in Sessions, k \in Channels : channel[<<s, k>>].open => sess[s].inputValid

(* The counter of open channels, reported in acknowledgements, is exact.   *)
OpenCountExact ==
    \A s \in Sessions : openCount[s] = Cardinality({k \in Channels : channel[<<s, k>>].open})

(* What an acknowledgement tells the client is so: the closed flag and the *)
(* status flag for open channels match the session, and a routing request  *)
(* that was acknowledged without error flags has connected the channel to  *)
(* the requested service and mode, unless the message closed it again.     *)
AckTruthful ==
    /\ (ack.kind \in {"events", "status"} /\ ~ack.closing) =>
          (ack.open <=> \E k \in Channels : channel[<<ack.session, k>>].open)
    /\ (ack.kind = "events" /\ ~ack.closing) =>
          LET ch == channel[<<ack.session, ack.channel>>]
          IN  /\ "CLOSED" \in ack.events <=> ~ch.open
              /\ (ack.routed # NoRequest /\ "CLOSED" \notin ack.events
                    /\ ack.events \cap RoutingErrors = {})
                   => ch.cs = "connected" /\ ch.routing = ack.routed

(* The session that holds the inlet of a service.                          *)
Owner(v) == IF Holders(v) = {} THEN NoSession ELSE (CHOOSE p \in Holders(v) : TRUE)[1]

(* The abstract specification: services leased to sessions.                *)
Lease == INSTANCE ServiceLease WITH owner <- [v \in Services |-> Owner(v)]

(* The server implements the leases: a service passes from one session to  *)
(* another only after it was free, whatever messages, timeouts, aborts and *)
(* shutdowns come in between.                                              *)
LeaseSpec == Lease!Spec

(* A client that holds a service and is gone.                              *)
HeldByDead(v) ==
    \E c \in Clients \ alive : conn[c].session # NoSession /\ Owner(v) = conn[c].session

(* A service held by a client that vanished becomes free: no message tells *)
(* the server, only the timeouts of connection and session do.             *)
DeadClientReleases == \A v \in Services : HeldByDead(v) ~> Owner(v) = NoSession

(* When all clients are gone the server comes back to where it started:    *)
(* no connection, no session, every output idle - a graceful stop that     *)
(* found the adapter busy is retried until it succeeds.                    *)
QuietServerRecovers ==
    alive = {} ~>
        \/ phase = "down"
        \/ /\ conn = [c \in Clients |-> NoConnection]
           /\ sess = [s \in Sessions |-> NoSessionObject]
           /\ opMode = [v \in Services |-> "idle"]
=============================================================================
