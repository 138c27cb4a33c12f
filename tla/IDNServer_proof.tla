--------------------------- MODULE IDNServer_proof ---------------------------
(***************************************************************************)
(* Proofs about IDNServer, for any number of clients, sessions, channels   *)
(* and services.                                                           *)
(***************************************************************************)
EXTENDS IDNServer, TLAPS, FiniteSetTheorems

CoreType ==
    [channel   : [Slots -> Channel],
     pev       : [Slots -> SUBSET PipelineEvents],
     openCount : [Sessions -> Int],
     inlet     : [Services -> Inlets \cup {"none"}],
     mode      : [Services -> OpModes],
     backlog   : [Services -> BOOLEAN]]

(* A service handle belongs to an open, connected channel, and comes with  *)
(* the inlet the service has lent.                                         *)
HandlesValid(st) ==
    \A p \in Slots : st.channel[p].service # NoService =>
        /\ st.channel[p].open
        /\ st.channel[p].cs = "connected"
        /\ st.channel[p].conduit = st.inlet[st.channel[p].service]
        /\ st.inlet[st.channel[p].service] # "none"

(* No service handle is held twice.                                        *)
HandlesUnique(st) ==
    \A p, q \in Slots :
        (st.channel[p].service # NoService /\ st.channel[p].service = st.channel[q].service)
            => p = q

(* A lent inlet is held.                                                   *)
LentHeld(st) ==
    \A v \in Services : st.inlet[v] # "none" =>
        \E p \in Slots : st.channel[p].service = v

(* The output follows the inlet, and is idle only when drained.            *)
ModeFollows(st) ==
    \A v \in Services :
        /\ st.mode[v] = "wave" <=> st.inlet[v] = "continuous"
        /\ st.mode[v] = "frame" <=> st.inlet[v] = "discrete"
        /\ st.mode[v] = "idle" => ~st.backlog[v]

(* A closed channel is not connected, and its closed flag says so.         *)
ClosedClean(st) ==
    \A p \in Slots :
        /\ ~st.channel[p].open =>
              st.channel[p].service = NoService /\ st.channel[p].cs = "none"
        /\ "CLOSED" \in st.pev[p] <=> ~st.channel[p].open

CoreInv(st) ==
    /\ st \in CoreType
    /\ HandlesValid(st)
    /\ HandlesUnique(st)
    /\ LentHeld(st)
    /\ ModeFollows(st)
    /\ ClosedClean(st)

(* A step on slot p leaves the channels of all other slots alone.          *)
OnlySlot(st, new, p) == \A q \in Slots \ {p} : new.channel[q] = st.channel[q]

-----------------------------------------------------------------------------

(* The closed channel is a channel.                                        *)
LEMMA ClosedChannelType == ClosedChannel \in Channel
BY DEF ClosedChannel, Channel, Routings, NoRouting, ServiceIDs, ServiceModes

(* A channel without its handles is a channel.                             *)
LEMMA DropHandles ==
    ASSUME NEW ch \in Channel, NEW drop,
           drop = [ch EXCEPT !.service = NoService, !.conduit = "none"]
    PROVE  /\ drop \in Channel
           /\ drop.service = NoService
           /\ drop.open = ch.open
           /\ drop.cs = ch.cs
BY DEF Channel

(* releaseHandles, for any set of slots, keeps the core invariant.         *)
LEMMA ReleaseHandlesInv ==
    ASSUME NEW st, CoreInv(st), NEW C \in SUBSET Slots
    PROVE  /\ CoreInv(ReleaseHandles(st, C))
           /\ \A q \in Slots \ C : ReleaseHandles(st, C).channel[q] = st.channel[q]
           /\ \A q \in C : /\ ReleaseHandles(st, C).channel[q].service = NoService
                           /\ ReleaseHandles(st, C).channel[q].open = st.channel[q].open
<1> DEFINE new == ReleaseHandles(st, C)
           freed == Released(st, C)
<1>1. /\ new.channel = [p \in Slots |->
              IF p \in C
              THEN [st.channel[p] EXCEPT !.service = NoService, !.conduit = "none"]
              ELSE st.channel[p]]
      /\ new.inlet = [v \in Services |->
              IF v \in freed THEN "none" ELSE st.inlet[v]]
      /\ new.mode = [v \in Services |->
              IF v \in freed /\ st.mode[v] \in Active
              THEN StoppedMode(st.backlog[v]) ELSE st.mode[v]]
      /\ new.pev = st.pev /\ new.openCount = st.openCount /\ new.backlog = st.backlog
  BY DEF ReleaseHandles, CoreInv, CoreType
<1>a. \A p \in Slots :
        st.channel[p] \in Channel /\ (p \notin C => new.channel[p] = st.channel[p])
  BY <1>1 DEF CoreInv, CoreType
<1>b. \A p \in C :
        new.channel[p] = [st.channel[p] EXCEPT !.service = NoService, !.conduit = "none"]
  BY <1>1
<1>c. \A p \in C : /\ new.channel[p].service = NoService
                  /\ new.channel[p].open = st.channel[p].open
                  /\ new.channel[p].cs = st.channel[p].cs
                  /\ new.channel[p] \in Channel
  <2> TAKE p \in C
  <2>1. st.channel[p] \in Channel
    BY <1>a
  <2> QED
    BY <1>b, <2>1, DropHandles
<1> HIDE DEF new
<1>2. new \in CoreType
  <2>1. new.channel \in [Slots -> Channel]
    <3> SUFFICES ASSUME NEW p \in Slots PROVE new.channel[p] \in Channel
      BY <1>1
    <3> QED
      BY <1>a, <1>c
  <2>2. st.inlet \in [Services -> Inlets \cup {"none"}] /\ st.mode \in [Services -> OpModes]
    BY DEF CoreInv, CoreType
  <2>3. new.inlet \in [Services -> Inlets \cup {"none"}]
    <3> SUFFICES ASSUME NEW v \in Services PROVE new.inlet[v] \in Inlets \cup {"none"}
      BY <1>1
    <3>1. st.inlet[v] \in Inlets \cup {"none"}
      BY <2>2
    <3> QED
      BY <1>1, <3>1
  <2>4. new.mode \in [Services -> OpModes]
    BY <1>1, <2>2 DEF OpModes, StoppedMode
  <2> QED
    BY <1>1, <2>1, <2>3, <2>4 DEF new, ReleaseHandles, CoreInv, CoreType
<1>3. \A v \in Services : v \in freed <=> \E p \in C : st.channel[p].service = v
  <2> SUFFICES ASSUME NEW v \in Services, NEW p \in C, st.channel[p].service = v
               PROVE  st.channel[p].conduit = st.inlet[v] /\ st.inlet[v] # "none"
    BY DEF Released
  <2> QED
    BY ServicesAssumption DEF CoreInv, HandlesValid
<1>4. HandlesValid(new)
  <2> SUFFICES ASSUME NEW p \in Slots, new.channel[p].service # NoService
               PROVE  /\ new.channel[p].open
                      /\ new.channel[p].cs = "connected"
                      /\ new.channel[p].conduit = new.inlet[new.channel[p].service]
                      /\ new.inlet[new.channel[p].service] # "none"
    BY DEF HandlesValid
  <2>1. p \notin C /\ new.channel[p] = st.channel[p]
    BY <1>a, <1>c
  <2>2. st.channel[p].service \in Services
    BY <2>1 DEF CoreInv, CoreType, Channel
  <2>3. st.channel[p].service \notin freed
    BY <2>1, <2>2, <1>3, ServicesAssumption DEF CoreInv, HandlesUnique
  <2>4. new.inlet[st.channel[p].service] = st.inlet[st.channel[p].service]
    BY <1>1, <2>2, <2>3
  <2> QED
    BY <2>1, <2>4 DEF CoreInv, HandlesValid
<1>5. HandlesUnique(new)
  BY <1>a, <1>c DEF HandlesUnique, CoreInv
<1>6. LentHeld(new)
  <2> SUFFICES ASSUME NEW v \in Services, new.inlet[v] # "none"
               PROVE  \E p \in Slots : new.channel[p].service = v
    BY DEF LentHeld
  <2>1. v \notin freed /\ st.inlet[v] # "none"
    BY <1>1
  <2>2. PICK p \in Slots : st.channel[p].service = v
    BY <2>1 DEF CoreInv, LentHeld
  <2> QED
    BY <1>a, <1>3, <2>1, <2>2
<1>7. ModeFollows(new)
  <2> SUFFICES ASSUME NEW v \in Services
               PROVE  /\ new.mode[v] = "wave" <=> new.inlet[v] = "continuous"
                      /\ new.mode[v] = "frame" <=> new.inlet[v] = "discrete"
                      /\ new.mode[v] = "idle" => ~new.backlog[v]
    BY DEF ModeFollows
  <2>1. /\ st.mode[v] = "wave" <=> st.inlet[v] = "continuous"
        /\ st.mode[v] = "frame" <=> st.inlet[v] = "discrete"
        /\ st.mode[v] = "idle" => ~st.backlog[v]
        /\ st.inlet[v] \in Inlets \cup {"none"}
    BY DEF CoreInv, CoreType, ModeFollows
  <2>2. CASE v \in freed
    <3>1. st.mode[v] \in Active
      BY <2>1, <2>2 DEF Released, Active, Inlets
    <3> QED
      BY <1>1, <2>1, <2>2, <3>1 DEF StoppedMode
  <2>3. CASE v \notin freed
    BY <1>1, <2>1, <2>3
  <2> QED
    BY <2>2, <2>3
<1>8. ClosedClean(new)
  <2> SUFFICES ASSUME NEW p \in Slots
               PROVE  /\ ~new.channel[p].open =>
                            new.channel[p].service = NoService /\ new.channel[p].cs = "none"
                      /\ "CLOSED" \in new.pev[p] <=> ~new.channel[p].open
    BY DEF ClosedClean
  <2>1. /\ ~st.channel[p].open =>
              st.channel[p].service = NoService /\ st.channel[p].cs = "none"
        /\ "CLOSED" \in st.pev[p] <=> ~st.channel[p].open
    BY DEF CoreInv, ClosedClean
  <2>2. CASE p \in C
    BY <1>1, <1>c, <2>1, <2>2
  <2>3. CASE p \notin C
    BY <1>1, <1>a, <2>1, <2>3
  <2> QED
    BY <2>2, <2>3
<1>9. /\ \A q \in Slots \ C : new.channel[q] = st.channel[q]
      /\ \A q \in C : /\ new.channel[q].service = NoService
                      /\ new.channel[q].open = st.channel[q].open
  BY <1>a, <1>c
<1> QED
  BY <1>2, <1>4, <1>5, <1>6, <1>7, <1>8, <1>9 DEF new, CoreInv

(* closeChannel, for any set of slots, keeps the core invariant and closes *)
(* the channels.                                                           *)
LEMMA CloseChannelsInv ==
    ASSUME NEW st, CoreInv(st), NEW C \in SUBSET Slots
    PROVE  /\ CoreInv(CloseChannels(st, C))
           /\ \A q \in Slots \ C : CloseChannels(st, C).channel[q] = st.channel[q]
           /\ \A q \in C : ~CloseChannels(st, C).channel[q].open
<1> DEFINE rel == ReleaseHandles(st, C)
           new == CloseChannels(st, C)
<1>1. /\ CoreInv(rel)
      /\ \A q \in Slots \ C : rel.channel[q] = st.channel[q]
      /\ \A q \in C : rel.channel[q].service = NoService
      /\ rel.pev = st.pev
  <2>1. rel.pev = st.pev
    BY DEF ReleaseHandles, CoreInv, CoreType
  <2> QED
    BY <2>1, ReleaseHandlesInv
<1>2. rel \in CoreType
  BY <1>1 DEF CoreInv
<1> HIDE DEF rel
<1>3. /\ new.channel = [p \in Slots |-> IF p \in C THEN ClosedChannel ELSE rel.channel[p]]
      /\ new.pev = [p \in Slots |-> IF p \in C THEN {"CLOSED"} ELSE st.pev[p]]
      /\ new.openCount = [s \in Sessions |->
              st.openCount[s] - Cardinality({k \in Channels : <<s, k>> \in C})]
      /\ new.inlet = rel.inlet /\ new.mode = rel.mode /\ new.backlog = rel.backlog
  BY <1>2 DEF CloseChannels, rel, CoreType
<1>4. new \in CoreType
  <2>1. new.channel \in [Slots -> Channel]
    BY <1>2, <1>3, ClosedChannelType DEF CoreType
  <2>2. new.pev \in [Slots -> SUBSET PipelineEvents]
    BY <1>3 DEF CoreInv, CoreType, PipelineEvents
  <2>3. new.openCount \in [Sessions -> Int]
    <3> SUFFICES ASSUME NEW s \in Sessions
                 PROVE  st.openCount[s] - Cardinality({k \in Channels : <<s, k>> \in C}) \in Int
      BY <1>3
    <3> DEFINE K == {k \in Channels : <<s, k>> \in C}
    <3>1. IsFiniteSet(K)
      BY SessionsAssumption, FS_Subset
    <3>2. Cardinality(K) \in Nat
      BY <3>1, FS_CardinalityType
    <3>3. st.openCount[s] \in Int
      BY DEF CoreInv, CoreType
    <3> QED
      BY <3>2, <3>3
  <2> QED
    BY <1>2, <1>3, <2>1, <2>2, <2>3 DEF CloseChannels, rel, CoreType
<1> HIDE DEF new
<1>5. \A p \in Slots \ C : new.channel[p] = rel.channel[p] /\ new.pev[p] = rel.pev[p]
  BY <1>1, <1>3
<1>6. \A p \in C : /\ new.channel[p].service = NoService
                  /\ ~new.channel[p].open
                  /\ new.channel[p].cs = "none"
                  /\ new.pev[p] = {"CLOSED"}
  BY <1>3 DEF ClosedChannel
<1>7. HandlesValid(new)
  <2> SUFFICES ASSUME NEW p \in Slots, new.channel[p].service # NoService
               PROVE  /\ new.channel[p].open
                      /\ new.channel[p].cs = "connected"
                      /\ new.channel[p].conduit = new.inlet[new.channel[p].service]
                      /\ new.inlet[new.channel[p].service] # "none"
    BY DEF HandlesValid
  <2>1. new.channel[p] = rel.channel[p]
    BY <1>5, <1>6
  <2> QED
    BY <1>1, <1>3, <2>1 DEF CoreInv, HandlesValid
<1>11. HandlesUnique(new)
  BY <1>1, <1>5, <1>6 DEF CoreInv, HandlesUnique
<1>8. LentHeld(new)
  <2> SUFFICES ASSUME NEW v \in Services, new.inlet[v] # "none"
               PROVE  \E p \in Slots : new.channel[p].service = v
    BY DEF LentHeld
  <2>1. PICK p \in Slots : rel.channel[p].service = v
    BY <1>1, <1>3 DEF CoreInv, LentHeld
  <2> QED
    BY <1>1, <1>5, <2>1, ServicesAssumption
<1>9. ModeFollows(new)
  BY <1>1, <1>3 DEF CoreInv, ModeFollows
<1>10. ClosedClean(new)
  BY <1>1, <1>5, <1>6 DEF CoreInv, ClosedClean
<1> QED
  BY <1>1, <1>4, <1>5, <1>6, <1>7, <1>8, <1>9, <1>10, <1>11 DEF new, CoreInv

(* A change of a slot that holds no service, before and after.             *)
LEMMA UnheldSlotInv ==
    ASSUME NEW st, CoreInv(st), NEW p \in Slots, NEW new, new \in CoreType,
           new.inlet = st.inlet, new.mode = st.mode, new.backlog = st.backlog,
           \A q \in Slots \ {p} : new.channel[q] = st.channel[q] /\ new.pev[q] = st.pev[q],
           st.channel[p].service = NoService,
           new.channel[p].service = NoService,
           ~new.channel[p].open => new.channel[p].cs = "none",
           "CLOSED" \in new.pev[p] <=> ~new.channel[p].open
    PROVE  CoreInv(new)
<1>1. HandlesValid(new)
  BY DEF CoreInv, HandlesValid
<1>2. HandlesUnique(new)
  BY DEF CoreInv, HandlesUnique
<1>3. LentHeld(new)
  BY ServicesAssumption DEF CoreInv, LentHeld
<1>4. ModeFollows(new)
  BY DEF CoreInv, ModeFollows
<1>5. ClosedClean(new)
  BY DEF CoreInv, ClosedClean
<1> QED
  BY <1>1, <1>2, <1>3, <1>4, <1>5 DEF CoreInv

(* openChannel                                                             *)
LEMMA OpenChannelInv ==
    ASSUME NEW st, CoreInv(st), NEW p \in Slots, ~st.channel[p].open
    PROVE  /\ CoreInv(OpenChannel(st, p))
           /\ OnlySlot(st, OpenChannel(st, p), p)
           /\ OpenChannel(st, p).channel[p].open
           /\ OpenChannel(st, p).channel[p].cs = "none"
           /\ OpenChannel(st, p).channel[p].service = NoService
<1> DEFINE new == OpenChannel(st, p)
<1>1. /\ st \in CoreType
      /\ st.channel[p] \in Channel
      /\ st.channel[p].service = NoService /\ st.channel[p].cs = "none"
  BY DEF CoreInv, CoreType, ClosedClean
<1>2. /\ new.channel = [st.channel EXCEPT ![p] = [@ EXCEPT !.open = TRUE]]
      /\ new.pev = [st.pev EXCEPT ![p] = {"ROUTED"}]
      /\ new.openCount = [st.openCount EXCEPT ![p[1]] = @ + 1]
      /\ new.inlet = st.inlet /\ new.mode = st.mode /\ new.backlog = st.backlog
  BY <1>1 DEF OpenChannel, CoreType
<1>3. /\ new.channel[p] = [st.channel[p] EXCEPT !.open = TRUE]
      /\ new.pev[p] = {"ROUTED"}
  BY <1>1, <1>2 DEF CoreType
<1>o. \A q \in Slots \ {p} : new.channel[q] = st.channel[q] /\ new.pev[q] = st.pev[q]
  BY <1>1, <1>2 DEF CoreType
<1>i. new.inlet = st.inlet /\ new.mode = st.mode /\ new.backlog = st.backlog
  BY <1>2
<1>4. /\ new.channel[p] \in Channel
      /\ new.channel[p].open
      /\ new.channel[p].service = NoService
      /\ new.channel[p].cs = "none"
  BY <1>1, <1>3 DEF Channel
<1>5. new \in CoreType
  <2>1. new.channel \in [Slots -> Channel]
    BY <1>1, <1>2, <1>3, <1>4 DEF CoreType
  <2>2. new.pev \in [Slots -> SUBSET PipelineEvents]
    BY <1>1, <1>2 DEF CoreType, PipelineEvents
  <2>3. new.openCount \in [Sessions -> Int]
    <3>1. p[1] \in Sessions
      BY DEF Slots
    <3>2. st.openCount \in [Sessions -> Int]
      BY <1>1 DEF CoreType
    <3> QED
      BY <1>2, <3>1, <3>2
  <2> QED
    BY <1>1, <1>2, <2>1, <2>2, <2>3 DEF OpenChannel, CoreType
<1> HIDE DEF new
<1>6. CoreInv(new)
  <2>1. "CLOSED" \in new.pev[p] <=> ~new.channel[p].open
    BY <1>3, <1>4
  <2> QED
    BY <1>1, <1>i, <1>o, <1>4, <1>5, <2>1, UnheldSlotInv
<1> QED
  BY <1>o, <1>4, <1>6 DEF new, OnlySlot

(* A request that lends no inlet: the null device, an unknown service or   *)
(* mode, or a busy service.                                                *)
LEMMA UnroutedInv ==
    ASSUME NEW st, CoreInv(st), NEW p \in Slots, NEW req \in Routings,
           NEW cs \in {"connected", "serviceError", "conduitError"},
           NEW events \in SUBSET RoutingErrors,
           st.channel[p].open, st.channel[p].service = NoService
    PROVE  /\ CoreInv(Unrouted(st, p, req, cs, events))
           /\ OnlySlot(st, Unrouted(st, p, req, cs, events), p)
           /\ Unrouted(st, p, req, cs, events).channel[p].open
<1> DEFINE new == Unrouted(st, p, req, cs, events)
           ch == [st.channel[p] EXCEPT !.routing = req, !.cs = cs]
<1>1. /\ st \in CoreType
      /\ st.channel[p] \in Channel
      /\ "CLOSED" \notin st.pev[p]
  BY DEF CoreInv, CoreType, ClosedClean
<1>2. /\ new.channel = [st.channel EXCEPT ![p] = ch]
      /\ new.pev = [st.pev EXCEPT ![p] = @ \cup events]
      /\ new.openCount = st.openCount
      /\ new.inlet = st.inlet /\ new.mode = st.mode /\ new.backlog = st.backlog
  BY <1>1 DEF Unrouted, CoreType
<1>c. ch \in Channel /\ ch.open /\ ch.service = NoService
  <2>1. cs \in {"none", "connected", "serviceError", "conduitError"}
    OBVIOUS
  <2> HIDE DEF ch
  <2>2. ch = [st.channel[p] EXCEPT !.routing = req, !.cs = cs]
    BY DEF ch
  <2>3. ASSUME NEW old \in Channel, ch = [old EXCEPT !.routing = req, !.cs = cs]
        PROVE  ch \in Channel /\ ch.open = old.open /\ ch.service = old.service
    BY <2>1, <2>3 DEF Channel
  <2> QED
    BY <1>1, <2>2, <2>3
<1> HIDE DEF ch
<1>3. /\ new.channel[p] = ch
      /\ new.pev[p] = st.pev[p] \cup events
  BY <1>1, <1>2 DEF CoreType
<1>o. \A q \in Slots \ {p} : new.channel[q] = st.channel[q] /\ new.pev[q] = st.pev[q]
  BY <1>1, <1>2 DEF CoreType
<1>i. new.inlet = st.inlet /\ new.mode = st.mode /\ new.backlog = st.backlog
  BY <1>2
<1>4. /\ new.channel[p] \in Channel
      /\ new.channel[p].open
      /\ new.channel[p].service = NoService
  BY <1>3, <1>c
<1>5. new \in CoreType
  <2>1. new.channel \in [Slots -> Channel]
    BY <1>1, <1>2, <1>3, <1>4 DEF CoreType
  <2>2. new.pev \in [Slots -> SUBSET PipelineEvents]
    BY <1>1, <1>2 DEF CoreType, PipelineEvents
  <2> QED
    BY <1>1, <1>2, <2>1, <2>2 DEF Unrouted, CoreType
<1>7. "CLOSED" \notin new.pev[p]
  BY <1>1, <1>3 DEF RoutingErrors
<1> HIDE DEF new
<1>6. CoreInv(new)
  <2>1. "CLOSED" \in new.pev[p] <=> ~new.channel[p].open
    BY <1>7, <1>4
  <2> QED
    BY <1>1, <1>i, <1>o, <1>4, <1>5, <2>1, UnheldSlotInv
<1> QED
  BY <1>o, <1>4, <1>6 DEF new, OnlySlot

(* A request that succeeds: the channel gets the free inlet.               *)
LEMMA ConnectedInv ==
    ASSUME NEW st, CoreInv(st), NEW p \in Slots, NEW v \in Services, NEW req \in Routings,
           req.mode \in GraphicModes, InletAvailable(st, v, req.mode),
           st.channel[p].open, st.channel[p].service = NoService
    PROVE  /\ CoreInv(Connected(st, p, v, req))
           /\ OnlySlot(st, Connected(st, p, v, req), p)
           /\ Connected(st, p, v, req).channel[p].open
<1> DEFINE new == Connected(st, p, v, req)
           ch == [open |-> TRUE, cs |-> "connected", routing |-> req,
                  service |-> v, conduit |-> req.mode]
           mode == IF req.mode = "continuous" THEN "wave" ELSE "frame"
<1>1. /\ st \in CoreType
      /\ st.inlet[v] = "none"
      /\ "CLOSED" \notin st.pev[p]
  BY DEF CoreInv, ClosedClean, InletAvailable
<1>2. ch \in Channel
  BY DEF Channel, GraphicModes, Inlets
<1>3. /\ ch.open /\ ch.cs = "connected" /\ ch.service = v /\ ch.conduit = req.mode
      /\ mode \in OpModes
      /\ mode = "wave" <=> req.mode = "continuous"
      /\ mode = "frame" <=> req.mode = "discrete"
      /\ mode # "idle" /\ req.mode # "none" /\ req.mode \in Inlets
  BY DEF GraphicModes, Inlets, OpModes, Active
<1>4. /\ new.channel = [st.channel EXCEPT ![p] = ch]
      /\ new.inlet = [st.inlet EXCEPT ![v] = req.mode]
      /\ new.mode = [st.mode EXCEPT ![v] = mode]
      /\ new.pev = st.pev /\ new.openCount = st.openCount /\ new.backlog = st.backlog
  BY <1>1 DEF Connected, CoreType
<1> HIDE DEF ch, mode
<1>5. new \in CoreType
  <2>1. new.channel \in [Slots -> Channel]
    BY <1>1, <1>2, <1>4 DEF CoreType
  <2>2. new.inlet \in [Services -> Inlets \cup {"none"}]
    BY <1>1, <1>3, <1>4 DEF CoreType
  <2>3. new.mode \in [Services -> OpModes]
    BY <1>1, <1>3, <1>4 DEF CoreType
  <2> QED
    BY <1>1, <1>4, <2>1, <2>2, <2>3 DEF Connected, CoreType
<1> HIDE DEF new
<1>6. /\ new.channel[p] = ch
      /\ new.inlet[v] = req.mode /\ new.mode[v] = mode
      /\ \A q \in Slots \ {p} : new.channel[q] = st.channel[q]
      /\ \A w \in Services \ {v} : new.inlet[w] = st.inlet[w] /\ new.mode[w] = st.mode[w]
  BY <1>1, <1>4 DEF CoreType
<1>7. \A q \in Slots : st.channel[q].service # v
  BY <1>1, ServicesAssumption DEF CoreInv, HandlesValid
<1>8. HandlesValid(new)
  <2> SUFFICES ASSUME NEW q \in Slots, new.channel[q].service # NoService
               PROVE  /\ new.channel[q].open
                      /\ new.channel[q].cs = "connected"
                      /\ new.channel[q].conduit = new.inlet[new.channel[q].service]
                      /\ new.inlet[new.channel[q].service] # "none"
    BY DEF HandlesValid
  <2>1. CASE q = p
    BY <1>3, <1>6, <2>1
  <2>2. CASE q # p
    <3>1. new.channel[q] = st.channel[q]
      BY <1>6, <2>2
    <3>2. st.channel[q].service \in Services \ {v}
      BY <1>1, <1>7, <3>1 DEF CoreType, Channel
    <3> QED
      BY <1>6, <3>1, <3>2 DEF CoreInv, HandlesValid
  <2> QED
    BY <2>1, <2>2
<1>9. HandlesUnique(new)
  <2> SUFFICES ASSUME NEW q \in Slots, NEW r \in Slots,
                      new.channel[q].service # NoService,
                      new.channel[q].service = new.channel[r].service
               PROVE  q = r
    BY DEF HandlesUnique
  <2>1. CASE q # p /\ r # p
    BY <1>6, <2>1 DEF CoreInv, HandlesUnique
  <2>2. CASE q = p \/ r = p
    BY <1>3, <1>6, <1>7, <2>2
  <2> QED
    BY <2>1, <2>2
<1>10. LentHeld(new)
  <2> SUFFICES ASSUME NEW w \in Services, new.inlet[w] # "none"
               PROVE  \E q \in Slots : new.channel[q].service = w
    BY DEF LentHeld
  <2>1. CASE w = v
    BY <1>3, <1>6, <2>1
  <2>2. CASE w # v
    <3>1. PICK q \in Slots : st.channel[q].service = w
      BY <1>6, <2>2 DEF CoreInv, LentHeld
    <3>2. q # p
      BY <3>1, ServicesAssumption
    <3> QED
      BY <1>6, <3>1, <3>2
  <2> QED
    BY <2>1, <2>2
<1>11. ModeFollows(new)
  <2> SUFFICES ASSUME NEW w \in Services
               PROVE  /\ new.mode[w] = "wave" <=> new.inlet[w] = "continuous"
                      /\ new.mode[w] = "frame" <=> new.inlet[w] = "discrete"
                      /\ new.mode[w] = "idle" => ~new.backlog[w]
    BY DEF ModeFollows
  <2>1. CASE w = v
    BY <1>3, <1>6, <2>1
  <2>2. CASE w # v
    BY <1>4, <1>6, <2>2 DEF CoreInv, ModeFollows
  <2> QED
    BY <2>1, <2>2
<1>12. ClosedClean(new)
  BY <1>1, <1>3, <1>4, <1>6 DEF CoreInv, ClosedClean
<1>13. CoreInv(new)
  BY <1>5, <1>8, <1>9, <1>10, <1>11, <1>12 DEF CoreInv
<1> QED
  BY <1>3, <1>6, <1>13 DEF new, OnlySlot

(* What findService returns.                                               *)
LEMMA FindServiceType ==
    ASSUME NEW req \in Routings
    PROVE  FindService(req) \in Services \cup {NoService}
BY ServicesAssumption DEF FindService

(* The connection of an open channel without handles.                      *)
LEMMA ConnectInv ==
    ASSUME NEW st, CoreInv(st), NEW p \in Slots, NEW req \in Routings,
           st.channel[p].open, st.channel[p].service = NoService
    PROVE  /\ CoreInv(Connect(st, p, req))
           /\ OnlySlot(st, Connect(st, p, req), p)
           /\ Connect(st, p, req).channel[p].open
<1> DEFINE v == FindService(req)
<1>1. v \in Services \cup {NoService}
  BY FindServiceType
<1>2. CASE req.mode = "void"
  <2>1. Connect(st, p, req) = Unrouted(st, p, req, "connected", {})
    BY <1>2 DEF Connect, HandledModes, GraphicModes
  <2> QED
    BY <2>1, UnroutedInv
<1>3. CASE req.mode # "void" /\ v = NoService
  <2>1. Connect(st, p, req) = Unrouted(st, p, req, "serviceError", {"SMERR"})
    BY <1>3 DEF Connect
  <2> QED
    BY <2>1, UnroutedInv DEF RoutingErrors
<1>4. CASE v # NoService /\ req.mode \notin HandledModes \cup {"void"}
  <2>1. Connect(st, p, req) = Unrouted(st, p, req, "conduitError", {"SMERR"})
    BY <1>4 DEF Connect
  <2> QED
    BY <2>1, UnroutedInv DEF RoutingErrors
<1>5. CASE v # NoService /\ req.mode \in HandledModes /\ ~InletAvailable(st, v, req.mode)
  <2>1. Connect(st, p, req) = Unrouted(st, p, req, "conduitError", {"BSYERR"})
    BY <1>5 DEF Connect, HandledModes, GraphicModes
  <2> QED
    BY <2>1, UnroutedInv DEF RoutingErrors
<1>6. CASE v # NoService /\ req.mode \in HandledModes /\ InletAvailable(st, v, req.mode)
  <2>1. Connect(st, p, req) = Connected(st, p, v, req)
    BY <1>6 DEF Connect, HandledModes, GraphicModes
  <2> QED
    BY <1>1, <1>6, <2>1, ConnectedInv DEF InletAvailable
<1> QED
  BY <1>2, <1>3, <1>4, <1>5, <1>6

(* The routing of an open channel.                                         *)
LEMMA RouteInv ==
    ASSUME NEW st, CoreInv(st), NEW p \in Slots, NEW req \in Routings,
           st.channel[p].open
    PROVE  /\ CoreInv(Route(st, p, req))
           /\ OnlySlot(st, Route(st, p, req), p)
           /\ Route(st, p, req).channel[p].open
<1>1. CASE st.channel[p].cs = "connected" /\ st.channel[p].routing = req
  BY <1>1 DEF Route, OnlySlot
<1>2. CASE st.channel[p].cs = "connected" /\ st.channel[p].routing # req
  <2> DEFINE rel == ReleaseHandles(st, {p})
  <2>1. /\ CoreInv(rel)
        /\ \A q \in Slots \ {p} : rel.channel[q] = st.channel[q]
        /\ rel.channel[p].open /\ rel.channel[p].service = NoService
    BY ReleaseHandlesInv
  <2>2. Route(st, p, req) = Connect(rel, p, req)
    BY <1>2 DEF Route
  <2> HIDE DEF rel
  <2> QED
    BY <2>1, <2>2, ConnectInv DEF OnlySlot
<1>3. CASE st.channel[p].cs # "connected"
  <2>1. st.channel[p].service = NoService
    BY <1>3 DEF CoreInv, HandlesValid
  <2>2. Route(st, p, req) = Connect(st, p, req)
    BY <1>3 DEF Route
  <2> QED
    BY <2>1, <2>2, ConnectInv
<1> QED
  BY <1>1, <1>2, <1>3

(* The content of a message reaches the adapter of an open output only.    *)
LEMMA InputInv ==
    ASSUME NEW st, CoreInv(st), NEW p \in Slots, NEW fed \in BOOLEAN
    PROVE  CoreInv(Input(st, p, fed)) /\ Input(st, p, fed).channel = st.channel
<1> DEFINE v == st.channel[p].service
           new == [st EXCEPT !.backlog[v] = TRUE]
<1>1. CASE ~(fed /\ v # NoService)
  BY <1>1 DEF Input
<1>2. CASE fed /\ v # NoService
  <2>1. Input(st, p, fed) = new
    BY <1>2 DEF Input
  <2>2. st \in CoreType /\ v \in Services
    BY <1>2 DEF CoreInv, CoreType, Channel
  <2>3. /\ new.backlog = [st.backlog EXCEPT ![v] = TRUE]
        /\ new.channel = st.channel /\ new.pev = st.pev
        /\ new.inlet = st.inlet /\ new.mode = st.mode /\ new.openCount = st.openCount
    BY <2>2 DEF CoreType
  <2>4. new \in CoreType
    BY <2>2 DEF CoreType
  <2>5. st.mode[v] # "idle"
    <3>1. st.inlet[v] \in Inlets
      BY <1>2, <2>2 DEF CoreInv, CoreType, HandlesValid
    <3> QED
      BY <2>2, <3>1 DEF CoreInv, ModeFollows, Inlets
  <2> HIDE DEF new
  <2>6. ModeFollows(new)
    BY <2>2, <2>3, <2>5 DEF CoreInv, CoreType, ModeFollows
  <2>7. HandlesValid(new) /\ HandlesUnique(new) /\ LentHeld(new) /\ ClosedClean(new)
    BY <2>3 DEF CoreInv, HandlesValid, HandlesUnique, LentHeld, ClosedClean
  <2> QED
    BY <2>1, <2>3, <2>4, <2>6, <2>7 DEF CoreInv
<1> QED
  BY <1>1, <1>2

(* A channel message touches the channel it names, and no other.           *)
LEMMA ProcessChannelMessageInv ==
    ASSUME NEW st, CoreInv(st), NEW p \in Slots, NEW msg \in Messages
    PROVE  /\ CoreInv(ProcessChannelMessage(st, p, msg))
           /\ OnlySlot(st, ProcessChannelMessage(st, p, msg), p)
<1> DEFINE routed == msg.request # NoRequest
           opened == IF st.channel[p].open THEN st ELSE OpenChannel(st, p)
           linked == IF routed THEN Route(opened, p, msg.request) ELSE opened
           passed == Input(linked, p, msg.fed)
<1>1. CASE ~st.channel[p].open /\ ~routed
  BY <1>1 DEF ProcessChannelMessage, OnlySlot
<1>2. CASE st.channel[p].open \/ routed
  <2>1. CoreInv(opened) /\ OnlySlot(st, opened, p) /\ opened.channel[p].open
    BY OpenChannelInv DEF OnlySlot
  <2>2. routed => msg.request \in Routings
    BY RequestsAssumption DEF Messages
  <2> HIDE DEF opened
  <2>3. CoreInv(linked) /\ OnlySlot(opened, linked, p)
    BY <2>1, <2>2, RouteInv DEF OnlySlot
  <2> HIDE DEF linked
  <2>4. msg.fed \in BOOLEAN
    BY DEF Messages
  <2>5. CoreInv(passed) /\ passed.channel = linked.channel
    BY <2>3, <2>4, InputInv
  <2> HIDE DEF passed
  <2>6. OnlySlot(st, passed, p)
    BY <2>1, <2>3, <2>5 DEF OnlySlot
  <2>7. /\ CoreInv(CloseChannels(passed, {p}))
        /\ OnlySlot(passed, CloseChannels(passed, {p}), p)
    BY <2>5, CloseChannelsInv DEF OnlySlot
  <2>8. ProcessChannelMessage(st, p, msg) =
            IF msg.close THEN CloseChannels(passed, {p}) ELSE passed
    BY <1>2 DEF ProcessChannelMessage, opened, linked, passed
  <2> QED
    BY <2>5, <2>6, <2>7, <2>8 DEF OnlySlot
<1> QED
  BY <1>1, <1>2

(* Clearing pipeline events keeps the closed flag.                         *)
LEMMA ClearPipelineEventsInv ==
    ASSUME NEW st, CoreInv(st), NEW p \in Slots
    PROVE  /\ CoreInv(ClearPipelineEvents(st, p))
           /\ ClearPipelineEvents(st, p).channel = st.channel
<1> DEFINE new == ClearPipelineEvents(st, p)
<1>1. st \in CoreType
  BY DEF CoreInv
<1>2. /\ new.pev = [st.pev EXCEPT ![p] = @ \cap {"CLOSED"}]
      /\ new.channel = st.channel /\ new.backlog = st.backlog
      /\ new.inlet = st.inlet /\ new.mode = st.mode
  BY <1>1 DEF ClearPipelineEvents, CoreType
<1>3. new \in CoreType
  BY <1>1 DEF ClearPipelineEvents, CoreType
<1> HIDE DEF new
<1>4. HandlesValid(new) /\ HandlesUnique(new) /\ LentHeld(new) /\ ModeFollows(new)
  BY <1>2 DEF CoreInv, HandlesValid, HandlesUnique, LentHeld, ModeFollows
<1>5. ClosedClean(new)
  BY <1>1, <1>2 DEF CoreInv, CoreType, ClosedClean
<1> QED
  BY <1>2, <1>3, <1>4, <1>5 DEF new, CoreInv

(* The reset of sessions closes their channels and no other.               *)
LEMMA ResetInv ==
    ASSUME NEW st, CoreInv(st), NEW S \in SUBSET Sessions
    PROVE  /\ CoreInv(Reset(st, S))
           /\ \A q \in Slots : q[1] \in S => ~Reset(st, S).channel[q].open
           /\ \A q \in Slots : q[1] \notin S => Reset(st, S).channel[q] = st.channel[q]
<1> DEFINE C == OpenSlots(st, S)
<1>1. C \in SUBSET Slots /\ Reset(st, S) = CloseChannels(st, C)
  BY DEF OpenSlots, Reset
<1>2. \A q \in Slots : q \in C <=> q[1] \in S /\ st.channel[q].open
  BY DEF OpenSlots
<1> HIDE DEF C
<1> QED
  BY <1>1, <1>2, CloseChannelsInv

(* A new session object has closed channels, as the object that was there  *)
(* before had when it was deleted.                                         *)
LEMMA CreateSessionInv ==
    ASSUME NEW st, CoreInv(st), NEW s \in Sessions,
           \A q \in Slots : q[1] = s => ~st.channel[q].open
    PROVE  /\ CoreInv(CreateSession(st, s))
           /\ \A q \in Slots : CreateSession(st, s).channel[q].open = st.channel[q].open
           /\ \A q \in Slots : q[1] # s =>
                 CreateSession(st, s).channel[q] = st.channel[q]
<1> DEFINE new == CreateSession(st, s)
<1>1. st \in CoreType
  BY DEF CoreInv
<1>2. /\ new.channel = [p \in Slots |-> IF p[1] = s THEN ClosedChannel ELSE st.channel[p]]
      /\ new.pev = [p \in Slots |-> IF p[1] = s THEN {"CLOSED"} ELSE st.pev[p]]
      /\ new.openCount = [st.openCount EXCEPT ![s] = 0]
      /\ new.inlet = st.inlet /\ new.mode = st.mode /\ new.backlog = st.backlog
  BY <1>1 DEF CreateSession, CoreType
<1>3. new \in CoreType
  <2>1. new.channel \in [Slots -> Channel]
    BY <1>1, <1>2, ClosedChannelType DEF CoreType
  <2>2. new.pev \in [Slots -> SUBSET PipelineEvents]
    BY <1>1, <1>2 DEF CoreType, PipelineEvents
  <2>3. new.openCount \in [Sessions -> Int]
    BY <1>1, <1>2 DEF CoreType
  <2> QED
    BY <1>1, <1>2, <2>1, <2>2, <2>3 DEF CreateSession, CoreType
<1> HIDE DEF new
<1>4. \A q \in Slots : q[1] = s =>
        /\ new.channel[q].service = NoService /\ new.channel[q].cs = "none"
        /\ new.channel[q].open = FALSE /\ new.pev[q] = {"CLOSED"}
        /\ st.channel[q].service = NoService /\ st.channel[q].open = FALSE
  <2> SUFFICES ASSUME NEW q \in Slots, q[1] = s
               PROVE  /\ new.channel[q].service = NoService /\ new.channel[q].cs = "none"
                      /\ new.channel[q].open = FALSE /\ new.pev[q] = {"CLOSED"}
                      /\ st.channel[q].service = NoService /\ st.channel[q].open = FALSE
    OBVIOUS
  <2>1. st.channel[q].service = NoService
    BY DEF CoreInv, ClosedClean
  <2>2. st.channel[q].open = FALSE
    BY <1>1 DEF CoreType, Channel
  <2> QED
    BY <1>2, <2>1, <2>2 DEF ClosedChannel
<1>5. \A q \in Slots : q[1] # s => new.channel[q] = st.channel[q] /\ new.pev[q] = st.pev[q]
  BY <1>2
<1>6. \A q \in Slots : new.channel[q].service # NoService =>
        new.channel[q] = st.channel[q]
  BY <1>4, <1>5
<1>7. HandlesValid(new)
  <2> SUFFICES ASSUME NEW p \in Slots, new.channel[p].service # NoService
               PROVE  /\ new.channel[p].open
                      /\ new.channel[p].cs = "connected"
                      /\ new.channel[p].conduit = new.inlet[new.channel[p].service]
                      /\ new.inlet[new.channel[p].service] # "none"
    BY DEF HandlesValid
  <2>1. new.channel[p] = st.channel[p]
    BY <1>6
  <2> QED
    BY <1>2, <2>1 DEF CoreInv, HandlesValid
<1>8. HandlesUnique(new)
  BY <1>6 DEF CoreInv, HandlesUnique
<1>9. LentHeld(new)
  <2> SUFFICES ASSUME NEW v \in Services, new.inlet[v] # "none"
               PROVE  \E p \in Slots : new.channel[p].service = v
    BY DEF LentHeld
  <2>1. PICK p \in Slots : st.channel[p].service = v
    BY <1>2 DEF CoreInv, LentHeld
  <2> QED
    BY <1>4, <1>5, <2>1, ServicesAssumption
<1>10. ModeFollows(new)
  BY <1>2 DEF CoreInv, ModeFollows
<1>11. ClosedClean(new)
  BY <1>4, <1>5 DEF CoreInv, ClosedClean
<1>12. CoreInv(new)
  BY <1>3, <1>7, <1>8, <1>9, <1>10, <1>11 DEF CoreInv
<1> QED
  BY <1>4, <1>5, <1>12 DEF new

(* A change of the outputs alone that keeps mode and inlet together.       *)
LEMMA OutputOnlyInv ==
    ASSUME NEW st, CoreInv(st), NEW new, new \in CoreType,
           new.channel = st.channel, new.pev = st.pev, new.inlet = st.inlet,
           ModeFollows(new)
    PROVE  CoreInv(new)
BY DEF CoreInv, HandlesValid, HandlesUnique, LentHeld, ClosedClean

(* The retry of the graceful stop.                                         *)
LEMMA RetryStopInv ==
    ASSUME NEW st, CoreInv(st)
    PROVE  CoreInv(RetryStop(st)) /\ RetryStop(st).channel = st.channel
<1> DEFINE new == RetryStop(st)
<1>1. st \in CoreType
  BY DEF CoreInv
<1>2. /\ new.mode = [v \in Services |-> IF st.mode[v] = "flushing"
                                      THEN StoppedMode(st.backlog[v]) ELSE st.mode[v]]
      /\ new.channel = st.channel /\ new.pev = st.pev
      /\ new.inlet = st.inlet /\ new.backlog = st.backlog
  BY <1>1 DEF RetryStop, CoreType
<1>3. new.mode \in [Services -> OpModes]
  BY <1>1, <1>2 DEF CoreType, OpModes, StoppedMode
<1>4. new \in CoreType
  BY <1>1, <1>2, <1>3 DEF RetryStop, CoreType
<1> HIDE DEF new
<1>5. ModeFollows(new)
  <2> SUFFICES ASSUME NEW v \in Services
               PROVE  /\ new.mode[v] = "wave" <=> new.inlet[v] = "continuous"
                      /\ new.mode[v] = "frame" <=> new.inlet[v] = "discrete"
                      /\ new.mode[v] = "idle" => ~new.backlog[v]
    BY DEF ModeFollows
  <2> QED
    BY <1>2 DEF CoreInv, ModeFollows, StoppedMode
<1> QED
  BY <1>2, <1>4, <1>5, OutputOnlyInv DEF new

(* The forced stop at the shutdown.                                        *)
LEMMA ForcedStopInv ==
    ASSUME NEW st, CoreInv(st)
    PROVE  CoreInv(ForcedStop(st)) /\ ForcedStop(st).channel = st.channel
<1> DEFINE new == ForcedStop(st)
<1>1. st \in CoreType
  BY DEF CoreInv
<1>2. /\ new.backlog = [v \in Services |-> IF st.mode[v] = "idle"
                                         THEN st.backlog[v] ELSE FALSE]
      /\ new.channel = st.channel /\ new.pev = st.pev
      /\ new.inlet = st.inlet /\ new.mode = st.mode
  BY <1>1 DEF ForcedStop, CoreType
<1>3. new.backlog \in [Services -> BOOLEAN]
  BY <1>1, <1>2 DEF CoreType
<1>4. new \in CoreType
  BY <1>1, <1>2, <1>3 DEF ForcedStop, CoreType
<1> HIDE DEF new
<1>5. ModeFollows(new)
  BY <1>2 DEF CoreInv, ModeFollows
<1> QED
  BY <1>2, <1>4, <1>5, OutputOnlyInv DEF new

-----------------------------------------------------------------------------
(* The state of the server.                                                *)

RestType ==
    /\ phase \in {"select", "house", "down"}
    /\ alive \subseteq Clients
    /\ conn \in [Clients -> Connection]
    /\ sess \in [Sessions -> Session]

(* Connections own attached sessions, one each.                            *)
ConnOwns ==
    \A c \in Clients : conn[c].session # NoSession =>
        /\ sess[conn[c].session].state = "attached"
        /\ \A d \in Clients : conn[d].session = conn[c].session => d = c

AttachedOwned ==
    \A s \in Sessions : sess[s].state = "attached" =>
        \E c \in Clients : conn[c].session = s

(* Open channels belong to attached sessions that noted their input time.  *)
OpenAttached ==
    \A q \in Slots : channel[q].open =>
        sess[q[1]].state = "attached" /\ sess[q[1]].inputValid

SweptBeforeSelect == phase = "select" => \A s \in Sessions : sess[s].state # "abandoned"

SessInv == RestType /\ ConnOwns /\ AttachedOwned /\ OpenAttached /\ SweptBeforeSelect

IInv == CoreInv(Core) /\ SessInv /\ ack \in Acks

(* The primed routing variables are those of the record.                   *)
LEMMA BecomeCore ==
    ASSUME NEW st, st \in CoreType, Become(st)
    PROVE  Core' = st
BY DEF Core, Become, CoreType

(* The session a datagram is for, and its connection.                      *)
LEMMA LinkedInv ==
    ASSUME IInv, NEW c \in Clients, NEW s \in SessionFor(c)
    PROVE  /\ s \in Sessions
           /\ CoreInv(Linked(c, s))
           /\ \A q \in Slots : Linked(c, s).channel[q].open = channel[q].open
           /\ \A q \in Slots : q[1] # s => Linked(c, s).channel[q] = channel[q]
<1>0. Core.channel = channel
  BY DEF Core
<1>1. CASE conn[c].session # NoSession
  <2>1. s \in Sessions
    BY <1>1 DEF IInv, SessInv, RestType, SessionFor, Connection
  <2> QED
    BY <1>0, <1>1, <2>1 DEF Linked, IInv
<1>2. CASE conn[c].session = NoSession
  <2>1. s \in Sessions /\ sess[s].state = "none"
    BY <1>2 DEF SessionFor, Freelist
  <2>2. \A q \in Slots : q[1] = s => ~Core.channel[q].open
    BY <1>0, <2>1 DEF IInv, SessInv, OpenAttached
  <2> QED
    BY <1>0, <1>2, <2>1, <2>2, CreateSessionInv DEF Linked, IInv
<1> QED
  BY <1>1, <1>2

(* Connections and sessions after a datagram.                              *)
LEMMA DatagramSessInv ==
    ASSUME IInv, NEW c \in Clients, NEW s \in SessionFor(c), NEW cmd \in Commands,
           NEW message \in BOOLEAN,
           phase = "select", phase' = "house", alive' = alive,
           conn' = [conn EXCEPT ![c] = LinkAfter(c, s, cmd)],
           sess' = [sess EXCEPT ![s] = SessionAfter(c, s, cmd, message)],
           \A q \in Slots : q[1] # s => channel'[q] = channel[q],
           cmd = "CLOSE" => \A q \in Slots : q[1] = s => ~channel'[q].open,
           ~message => \A q \in Slots : channel'[q].open => channel[q].open
    PROVE  SessInv'
<1>1. s \in Sessions /\ s # NoSession
  BY LinkedInv, SessionsAssumption
<1>2. /\ conn \in [Clients -> Connection] /\ sess \in [Sessions -> Session]
      /\ ConnOwns /\ AttachedOwned /\ OpenAttached
  BY DEF IInv, SessInv, RestType
<1> DEFINE after == SessionAfter(c, s, cmd, message)
           closing == cmd = "CLOSE"
<1>3. /\ after \in Session
      /\ closing => after.state = "abandoned"
      /\ ~closing => after.state = "attached"
      /\ ~closing /\ message => after.inputValid
      /\ ~closing /\ ~message /\ conn[c].session # NoSession =>
            after.inputValid = sess[s].inputValid
  <2> DEFINE before == IF conn[c].session # NoSession THEN sess[s] ELSE NewSession
  <2>1. before \in Session /\ before.state = "attached"
    <3>1. CASE conn[c].session # NoSession
      BY <1>1, <1>2, <3>1 DEF SessionFor, ConnOwns
    <3>2. CASE conn[c].session = NoSession
      BY <3>2, TimeoutsAssumption DEF NewSession, Session, Ages
    <3> QED
      BY <3>1, <3>2
  <2>2. conn[c].session # NoSession => before = sess[s]
    OBVIOUS
  <2>3. after = IF closing
                THEN [before EXCEPT !.state = "abandoned", !.inputValid = FALSE]
                ELSE IF message THEN [before EXCEPT !.inputValid = TRUE, !.age = 0]
                ELSE before
    BY DEF SessionAfter
  <2> HIDE DEF before, after
  <2>4. 0 \in Ages(SessionTimeout)
    BY TimeoutsAssumption DEF Ages
  <2>5. CASE closing
    <3>1. after = [before EXCEPT !.state = "abandoned", !.inputValid = FALSE]
      BY <2>3, <2>5
    <3> QED
      BY <2>1, <2>5, <3>1 DEF Session
  <2>6. CASE ~closing /\ message
    <3>1. after = [before EXCEPT !.inputValid = TRUE, !.age = 0]
      BY <2>3, <2>6
    <3> QED
      BY <2>1, <2>4, <2>6, <3>1 DEF Session
  <2>7. CASE ~closing /\ ~message
    <3>1. after = before
      BY <2>3, <2>7
    <3> QED
      BY <2>1, <2>2, <2>7, <3>1
  <2> QED
    BY <2>5, <2>6, <2>7
<1>4. conn[c].session \in {s, NoSession}
  BY DEF SessionFor
<1>5. \A d \in Clients \ {c} : conn[d].session # s
  <2>1. CASE conn[c].session # NoSession
    BY <1>1, <1>2, <1>4, <2>1 DEF ConnOwns
  <2>2. CASE conn[c].session = NoSession
    <3>1. sess[s].state = "none"
      BY <2>2 DEF SessionFor, Freelist
    <3> QED
      BY <1>1, <1>2, <3>1 DEF ConnOwns
  <2> QED
    BY <2>1, <2>2
<1>6. /\ conn'[c] = LinkAfter(c, s, cmd)
      /\ closing => conn'[c].session = NoSession
      /\ ~closing => conn'[c].session = s
      /\ \A d \in Clients \ {c} : conn'[d] = conn[d]
      /\ sess'[s] = after
      /\ \A t \in Sessions \ {s} : sess'[t] = sess[t]
  BY <1>1, <1>2 DEF LinkAfter, NoConnection
<1> HIDE DEF after
<1>7. RestType'
  <2>1. LinkAfter(c, s, cmd) \in Connection
    BY <1>1, TimeoutsAssumption DEF LinkAfter, NoConnection, Connection, Ages
  <2>2. conn' \in [Clients -> Connection]
    BY <1>2, <2>1
  <2>3. sess' \in [Sessions -> Session]
    BY <1>2, <1>3 DEF after
  <2> QED
    BY <2>2, <2>3 DEF RestType, IInv, SessInv
<1>8. ConnOwns'
  <2> SUFFICES ASSUME NEW d \in Clients, conn'[d].session # NoSession
               PROVE  /\ sess'[conn'[d].session].state = "attached"
                      /\ \A e \in Clients : conn'[e].session = conn'[d].session => e = d
    BY DEF ConnOwns
  <2>1. CASE d = c
    <3>1. ~closing /\ conn'[d].session = s
      BY <1>6, <2>1
    <3> QED
      BY <1>3, <1>5, <1>6, <2>1, <3>1
  <2>2. CASE d # c
    <3>1. conn'[d] = conn[d] /\ conn[d].session # s /\ conn[d].session \in Sessions
      BY <1>2, <1>5, <1>6, <2>2 DEF Connection
    <3>2. sess'[conn[d].session].state = "attached"
      BY <1>2, <1>6, <3>1 DEF ConnOwns
    <3>3. conn'[c].session # conn[d].session
      BY <1>6, <2>2, <3>1
    <3> QED
      BY <1>2, <1>6, <3>1, <3>2, <3>3 DEF ConnOwns
  <2> QED
    BY <2>1, <2>2
<1>9. AttachedOwned'
  <2> SUFFICES ASSUME NEW t \in Sessions, sess'[t].state = "attached"
               PROVE  \E d \in Clients : conn'[d].session = t
    BY DEF AttachedOwned
  <2>1. CASE t = s
    BY <1>3, <1>6, <2>1
  <2>2. CASE t # s
    <3>1. PICK d \in Clients : conn[d].session = t
      BY <1>2, <1>6, <2>2 DEF AttachedOwned
    <3>2. d # c
      BY <1>4, <2>2, <3>1, SessionsAssumption
    <3> QED
      BY <1>6, <3>1, <3>2
  <2> QED
    BY <2>1, <2>2
<1>10. OpenAttached'
  <2> SUFFICES ASSUME NEW q \in Slots, channel'[q].open
               PROVE  sess'[q[1]].state = "attached" /\ sess'[q[1]].inputValid
    BY DEF OpenAttached
  <2>1. q[1] \in Sessions
    BY DEF Slots
  <2>2. CASE q[1] # s
    BY <1>2, <1>6, <2>1, <2>2 DEF OpenAttached
  <2>3. CASE q[1] = s /\ message
    BY <1>3, <1>6, <2>3
  <2>4. CASE q[1] = s /\ ~message
    <3>1. ~closing /\ channel[q].open
      BY <2>4
    <3>2. sess[s].state = "attached" /\ sess[s].inputValid
      BY <1>2, <2>4, <3>1 DEF OpenAttached
    <3>3. conn[c].session # NoSession
      BY <3>2 DEF SessionFor, Freelist
    <3> QED
      BY <1>3, <1>6, <2>4, <3>1, <3>2, <3>3
  <2> QED
    BY <2>2, <2>3, <2>4
<1>11. SweptBeforeSelect'
  BY DEF SweptBeforeSelect
<1> QED
  BY <1>7, <1>8, <1>9, <1>10, <1>11 DEF SessInv

(* The acknowledgement of a processed datagram.                            *)
LEMMA EventAckType ==
    ASSUME NEW st, CoreInv(st), NEW s \in Sessions, NEW k \in Channels, NEW cmd,
           NEW req \in Requests \cup {NoRequest}
    PROVE  EventAck(st, s, k, cmd, req) \in Acks
<1>1. <<s, k>> \in Slots
  BY DEF Slots
<1>2. st.pev[<<s, k>>] \in SUBSET PipelineEvents
  BY <1>1 DEF CoreInv, CoreType
<1> QED
  BY <1>2 DEF EventAck, Acks

(* A channel message with the connection it may create and the close it    *)
(* may end with.                                                           *)
LEMMA ReceiveMessageInv ==
    ASSUME IInv, NEW c \in Clients, NEW s \in Sessions, NEW cmd \in Commands,
           NEW msg \in Messages, NEW ackReq \in BOOLEAN,
           ReceiveMessage(c, s, cmd, msg, ackReq)
    PROVE  IInv'
<1> DEFINE p == <<s, msg.channel>>
           linked == Linked(c, s)
           processed == ProcessChannelMessage(linked, p, msg)
           acked == IF ackReq THEN ClearPipelineEvents(processed, p) ELSE processed
           final == AfterClose(acked, s, cmd)
<1>1. /\ phase = "select" /\ phase' = "house" /\ alive' = alive
      /\ s \in SessionFor(c)
      /\ conn' = [conn EXCEPT ![c] = LinkAfter(c, s, cmd)]
      /\ sess' = [sess EXCEPT ![s] = SessionAfter(c, s, cmd, TRUE)]
      /\ Become(final)
      /\ ack' = IF ackReq THEN EventAck(processed, s, msg.channel, cmd, msg.request)
                ELSE NoAck
  BY DEF ReceiveMessage
<1>2. p \in Slots /\ p[1] = s /\ msg.channel \in Channels
      /\ msg.request \in Requests \cup {NoRequest}
  BY DEF Slots, Messages
<1>3. /\ CoreInv(linked)
      /\ \A q \in Slots : q[1] # s => linked.channel[q] = channel[q]
  BY <1>1, LinkedInv
<1> HIDE DEF linked, p
<1>4. CoreInv(processed) /\ OnlySlot(linked, processed, p)
  BY <1>2, <1>3, ProcessChannelMessageInv
<1> HIDE DEF processed
<1>5. CoreInv(acked) /\ acked.channel = processed.channel
  BY <1>2, <1>4, ClearPipelineEventsInv
<1> HIDE DEF acked
<1>6. \A q \in Slots : q[1] # s => acked.channel[q] = channel[q]
  BY <1>2, <1>3, <1>4, <1>5 DEF OnlySlot
<1>7. /\ CoreInv(final)
      /\ \A q \in Slots : q[1] # s => final.channel[q] = channel[q]
      /\ cmd = "CLOSE" => \A q \in Slots : q[1] = s => ~final.channel[q].open
  <2>1. CASE cmd = "CLOSE"
    <3>1. final = Reset(acked, {s})
      BY <2>1 DEF AfterClose
    <3> QED
      BY <1>5, <1>6, <3>1, ResetInv
  <2>2. CASE cmd # "CLOSE"
    BY <1>5, <1>6, <2>2 DEF AfterClose
  <2> QED
    BY <2>1, <2>2
<1> HIDE DEF final
<1>8. Core' = final
  BY <1>1, <1>7, BecomeCore DEF CoreInv
<1>9. channel' = final.channel
  BY <1>1 DEF Become
<1>10. SessInv'
  BY <1>1, <1>7, <1>9, DatagramSessInv
<1>11. ack' \in Acks
  <2>1. EventAck(processed, s, msg.channel, cmd, msg.request) \in Acks
    BY <1>2, <1>4, EventAckType
  <2> QED
    BY <1>1, <2>1 DEF Acks
<1>12. CoreInv(Core)'
  BY <1>7, <1>8
<1> QED
  BY <1>10, <1>11, <1>12 DEF IInv

(* A packet without a message.                                             *)
LEMMA ReceiveBareInv ==
    ASSUME IInv, NEW c \in Clients, NEW s \in Sessions, NEW cmd \in Commands,
           NEW kind \in BareKinds, NEW k \in Channels, NEW ackReq \in BOOLEAN,
           ReceiveBare(c, s, cmd, kind, k, ackReq)
    PROVE  IInv'
<1> DEFINE events == kind = "refused" /\ ackReq
           linked == Linked(c, s)
           acked == IF events THEN ClearPipelineEvents(linked, <<s, k>>) ELSE linked
           final == AfterClose(acked, s, cmd)
<1>1. /\ phase = "select" /\ phase' = "house" /\ alive' = alive
      /\ s \in SessionFor(c)
      /\ conn' = [conn EXCEPT ![c] = LinkAfter(c, s, cmd)]
      /\ sess' = [sess EXCEPT ![s] = SessionAfter(c, s, cmd, FALSE)]
      /\ Become(final)
      /\ ack' = IF events THEN EventAck(linked, s, k, cmd, NoRequest)
                ELSE IF ackReq THEN StatusAck(linked, s, cmd) ELSE NoAck
  BY DEF ReceiveBare
<1>2. <<s, k>> \in Slots
  BY DEF Slots
<1>3. /\ CoreInv(linked)
      /\ \A q \in Slots : linked.channel[q].open = channel[q].open
      /\ \A q \in Slots : q[1] # s => linked.channel[q] = channel[q]
  BY <1>1, LinkedInv
<1> HIDE DEF linked
<1>4. CoreInv(acked) /\ acked.channel = linked.channel
  BY <1>2, <1>3, ClearPipelineEventsInv
<1> HIDE DEF acked
<1>5. /\ CoreInv(final)
      /\ \A q \in Slots : q[1] # s => final.channel[q] = channel[q]
      /\ cmd = "CLOSE" => \A q \in Slots : q[1] = s => ~final.channel[q].open
      /\ \A q \in Slots : final.channel[q].open => channel[q].open
  <2>1. CASE cmd = "CLOSE"
    <3>1. final = Reset(acked, {s})
      BY <2>1 DEF AfterClose
    <3> QED
      BY <1>3, <1>4, <3>1, ResetInv
  <2>2. CASE cmd # "CLOSE"
    BY <1>3, <1>4, <2>2 DEF AfterClose
  <2> QED
    BY <2>1, <2>2
<1> HIDE DEF final
<1>6. Core' = final
  BY <1>1, <1>5, BecomeCore DEF CoreInv
<1>7. channel' = final.channel
  BY <1>1 DEF Become
<1>8. SessInv'
  BY <1>1, <1>5, <1>7, DatagramSessInv
<1>9. ack' \in Acks
  <2>1. EventAck(linked, s, k, cmd, NoRequest) \in Acks
    BY <1>3, EventAckType
  <2>2. StatusAck(linked, s, cmd) \in Acks
    BY DEF StatusAck, Acks
  <2> QED
    BY <1>1, <2>1, <2>2 DEF Acks
<1>10. CoreInv(Core)'
  BY <1>5, <1>6
<1> QED
  BY <1>8, <1>9, <1>10 DEF IInv

(* A step that changes neither channels, connections nor sessions, nor the *)
(* phase in a way that matters.                                            *)
LEMMA QuietSessInv ==
    ASSUME SessInv, phase' \in {"select", "house", "down"},
           phase' = "select" => phase = "select",
           alive' \subseteq Clients, UNCHANGED <<conn, sess>>,
           \A q \in Slots : channel'[q].open => channel[q].open
    PROVE  SessInv'
<1>1. RestType'
  BY DEF SessInv, RestType
<1>2. ConnOwns' /\ AttachedOwned' /\ SweptBeforeSelect'
  BY DEF SessInv, ConnOwns, AttachedOwned, SweptBeforeSelect
<1>3. OpenAttached'
  BY DEF SessInv, OpenAttached
<1> QED
  BY <1>1, <1>2, <1>3 DEF SessInv

(* A step that leaves the routing state alone.                             *)
LEMMA RoutingUnchanged ==
    ASSUME UNCHANGED routing
    PROVE  Core' = Core /\ channel' = channel
BY DEF routing, Core

LEMMA AbortInv ==
    ASSUME IInv, NEW c \in Clients, Abort(c)
    PROVE  IInv'
<1> DEFINE s == conn[c].session
           final == Reset(Core, {s})
<1>1. /\ phase = "select" /\ phase' = "house" /\ alive' = alive
      /\ s # NoSession
      /\ conn' = [conn EXCEPT ![c] = NoConnection]
      /\ sess' = [sess EXCEPT ![s].state = "abandoned", ![s].inputValid = FALSE]
      /\ Become(final) /\ ack' = NoAck
  BY DEF Abort
<1>2. /\ s \in Sessions
      /\ conn \in [Clients -> Connection] /\ sess \in [Sessions -> Session]
      /\ ConnOwns /\ AttachedOwned /\ OpenAttached
  BY <1>1 DEF IInv, SessInv, RestType, Connection
<1>3. /\ CoreInv(final)
      /\ \A q \in Slots : q[1] = s => ~final.channel[q].open
      /\ \A q \in Slots : q[1] # s => final.channel[q] = channel[q]
  <2>1. Core.channel = channel
    BY DEF Core
  <2> QED
    BY <1>2, <2>1, ResetInv DEF IInv
<1> HIDE DEF final
<1>4. Core' = final /\ channel' = final.channel
  BY <1>1, <1>3, BecomeCore DEF CoreInv, Become
<1>5. /\ sess' \in [Sessions -> Session]
      /\ sess'[s].state = "abandoned"
      /\ \A t \in Sessions \ {s} : sess'[t] = sess[t]
      /\ conn' \in [Clients -> Connection]
      /\ conn'[c].session = NoSession
      /\ \A d \in Clients \ {c} : conn'[d] = conn[d]
  <2>1. NoConnection \in Connection
    BY TimeoutsAssumption DEF NoConnection, Connection, Ages
  <2>2. conn' \in [Clients -> Connection] /\ conn'[c].session = NoSession
    BY <1>1, <1>2, <2>1 DEF NoConnection
  <2> QED
    BY <1>1, <1>2, <2>2 DEF Session
<1>6. RestType'
  BY <1>1, <1>5 DEF RestType, IInv, SessInv
<1>7. ConnOwns'
  <2> SUFFICES ASSUME NEW d \in Clients, conn'[d].session # NoSession
               PROVE  /\ sess'[conn'[d].session].state = "attached"
                      /\ \A e \in Clients : conn'[e].session = conn'[d].session => e = d
    BY DEF ConnOwns
  <2>1. d # c /\ conn'[d] = conn[d] /\ conn[d].session \in Sessions
    BY <1>2, <1>5 DEF Connection
  <2>2. conn[d].session # s
    BY <1>1, <1>2, <2>1 DEF ConnOwns
  <2>3. sess'[conn[d].session].state = "attached"
    BY <1>2, <1>5, <2>1, <2>2 DEF ConnOwns
  <2> QED
    BY <1>2, <1>5, <2>1, <2>3 DEF ConnOwns
<1>8. AttachedOwned'
  BY <1>2, <1>5 DEF AttachedOwned
<1>9. OpenAttached'
  <2> SUFFICES ASSUME NEW q \in Slots, channel'[q].open
               PROVE  sess'[q[1]].state = "attached" /\ sess'[q[1]].inputValid
    BY DEF OpenAttached
  <2>1. q[1] \in Sessions \ {s} /\ channel'[q] = channel[q]
    BY <1>3, <1>4 DEF Slots
  <2> QED
    BY <1>2, <1>5, <2>1 DEF OpenAttached
<1>10. SweptBeforeSelect'
  BY <1>1 DEF SweptBeforeSelect
<1> QED
  BY <1>1, <1>3, <1>4, <1>6, <1>7, <1>8, <1>9, <1>10 DEF IInv, SessInv, Acks

LEMMA HousekeepingInv ==
    ASSUME IInv, Housekeeping
    PROVE  IInv'
<1> DEFINE dead == LostSessions \cup IdleSessions
           reset == Reset(Core, dead)
           final == RetryStop(reset)
<1>1. /\ phase = "house" /\ phase' = "select" /\ alive' = alive
      /\ conn' = [c \in Clients |-> IF c \in LostClients THEN NoConnection ELSE conn[c]]
      /\ sess' = [s \in Sessions |->
                    IF s \in DeadSessions THEN NoSessionObject
                    ELSE IF s \in IdleSessions THEN [sess[s] EXCEPT !.inputValid = FALSE]
                    ELSE sess[s]]
      /\ Become(final) /\ ack' = NoAck
  BY DEF Housekeeping
<1>2. /\ conn \in [Clients -> Connection] /\ sess \in [Sessions -> Session]
      /\ ConnOwns /\ AttachedOwned /\ OpenAttached
  BY DEF IInv, SessInv, RestType
<1>3. /\ LostSessions \subseteq Sessions /\ IdleSessions \subseteq Sessions
      /\ \A s \in LostSessions : sess[s].state = "attached"
      /\ \A s \in IdleSessions : s \notin LostSessions /\ sess[s].state = "attached"
  BY <1>2 DEF LostSessions, LostClients, IdleSessions, Connection, ConnOwns
<1>4. \A s \in Sessions : s \in DeadSessions <=>
          sess[s].state = "abandoned" \/ s \in LostSessions
  BY <1>3 DEF DeadSessions
<1>5. /\ CoreInv(final)
      /\ \A q \in Slots : q[1] \in dead => ~final.channel[q].open
      /\ \A q \in Slots : q[1] \notin dead => final.channel[q] = channel[q]
  <2>1. Core.channel = channel /\ dead \in SUBSET Sessions
    BY <1>3 DEF Core
  <2>2. /\ CoreInv(reset)
        /\ \A q \in Slots : q[1] \in dead => ~reset.channel[q].open
        /\ \A q \in Slots : q[1] \notin dead => reset.channel[q] = channel[q]
    BY <2>1, ResetInv DEF IInv
  <2> HIDE DEF reset
  <2> QED
    BY <2>2, RetryStopInv
<1> HIDE DEF final
<1>6. Core' = final /\ channel' = final.channel
  BY <1>1, <1>5, BecomeCore DEF CoreInv, Become
<1>7. RestType'
  <2>1. NoConnection \in Connection /\ NoSessionObject \in Session
    BY TimeoutsAssumption
    DEF NoConnection, Connection, NoSessionObject, Session, Ages
  <2>2. conn' \in [Clients -> Connection]
    BY <1>1, <1>2, <2>1
  <2>3. sess' \in [Sessions -> Session]
    <3> SUFFICES ASSUME NEW s \in Sessions PROVE sess'[s] \in Session
      BY <1>1
    <3>1. [sess[s] EXCEPT !.inputValid = FALSE] \in Session
      BY <1>2 DEF Session
    <3> QED
      BY <1>1, <1>2, <2>1, <3>1
  <2> QED
    BY <1>1, <2>2, <2>3 DEF RestType, IInv, SessInv
<1>8. \A c \in Clients :
        conn'[c].session # NoSession => c \notin LostClients /\ conn'[c] = conn[c]
  BY <1>1 DEF NoConnection
<1>9. \A s \in Sessions :
        /\ s \in DeadSessions => sess'[s].state = "none"
        /\ s \notin DeadSessions => sess'[s].state = sess[s].state
        /\ s \notin DeadSessions \cup IdleSessions => sess'[s] = sess[s]
  <2> SUFFICES ASSUME NEW s \in Sessions
               PROVE  /\ s \in DeadSessions => sess'[s].state = "none"
                      /\ s \notin DeadSessions => sess'[s].state = sess[s].state
                      /\ s \notin DeadSessions \cup IdleSessions => sess'[s] = sess[s]
    OBVIOUS
  <2>1. sess[s] \in Session
    BY <1>2
  <2> QED
    BY <1>1, <2>1 DEF NoSessionObject, Session
<1>10. \A c \in Clients \ LostClients : conn[c].session # NoSession =>
          conn[c].session \in Sessions \ DeadSessions
  <2> SUFFICES ASSUME NEW c \in Clients \ LostClients, conn[c].session # NoSession
               PROVE  conn[c].session \in Sessions \ DeadSessions
    OBVIOUS
  <2>1. conn[c].session \in Sessions
    BY <1>2 DEF Connection
  <2>2. sess[conn[c].session].state = "attached"
    BY <1>2 DEF ConnOwns
  <2>3. ASSUME conn[c].session \in LostSessions PROVE FALSE
    <3>1. PICK d \in LostClients : conn[d].session = conn[c].session
      BY <2>3 DEF LostSessions
    <3>2. d \in Clients
      BY DEF LostClients
    <3> QED
      BY <1>2, <3>1, <3>2 DEF ConnOwns
  <2> QED
    BY <1>4, <2>1, <2>2, <2>3
<1>11. ConnOwns'
  <2> SUFFICES ASSUME NEW d \in Clients, conn'[d].session # NoSession
               PROVE  /\ sess'[conn'[d].session].state = "attached"
                      /\ \A e \in Clients : conn'[e].session = conn'[d].session => e = d
    BY DEF ConnOwns
  <2>1. conn'[d] = conn[d] /\ conn[d].session \in Sessions \ DeadSessions
    BY <1>8, <1>10
  <2>2. sess'[conn[d].session].state = "attached"
    BY <1>2, <1>9, <2>1 DEF ConnOwns
  <2>3. ASSUME NEW e \in Clients, conn'[e].session = conn'[d].session
        PROVE  e = d
    <3>1. conn'[e] = conn[e]
      BY <1>8, <2>3
    <3> QED
      BY <1>2, <2>1, <2>3, <3>1 DEF ConnOwns
  <2> QED
    BY <2>1, <2>2, <2>3
<1>12. AttachedOwned'
  <2> SUFFICES ASSUME NEW s \in Sessions, sess'[s].state = "attached"
               PROVE  \E c \in Clients : conn'[c].session = s
    BY DEF AttachedOwned
  <2>1. s \notin DeadSessions /\ sess[s].state = "attached"
    BY <1>9
  <2>2. PICK c \in Clients : conn[c].session = s
    BY <1>2, <2>1 DEF AttachedOwned
  <2>3. c \notin LostClients
    BY <1>4, <2>1, <2>2 DEF LostSessions
  <2> QED
    BY <1>1, <2>2, <2>3
<1>13. OpenAttached'
  <2> SUFFICES ASSUME NEW q \in Slots, channel'[q].open
               PROVE  sess'[q[1]].state = "attached" /\ sess'[q[1]].inputValid
    BY DEF OpenAttached
  <2>1. q[1] \in Sessions /\ q[1] \notin dead /\ channel'[q] = channel[q]
    BY <1>5, <1>6 DEF Slots
  <2>2. sess[q[1]].state = "attached" /\ sess[q[1]].inputValid
    BY <1>2, <2>1 DEF OpenAttached
  <2> QED
    BY <1>4, <1>9, <2>1, <2>2
<1>14. SweptBeforeSelect'
  BY <1>4, <1>9 DEF SweptBeforeSelect
<1> QED
  BY <1>1, <1>5, <1>6, <1>7, <1>11, <1>12, <1>13, <1>14 DEF IInv, SessInv, Acks

LEMMA ShutdownInv ==
    ASSUME IInv, Shutdown
    PROVE  IInv'
<1> DEFINE reset == Reset(Core, Sessions)
           final == ForcedStop(reset)
<1>1. /\ phase' = "down" /\ alive' = alive
      /\ conn' = [c \in Clients |-> NoConnection]
      /\ sess' = [s \in Sessions |-> NoSessionObject]
      /\ Become(final) /\ ack' = NoAck
  BY DEF Shutdown
<1>2. CoreInv(final) /\ \A q \in Slots : ~final.channel[q].open
  <2>1. CoreInv(reset) /\ \A q \in Slots : ~reset.channel[q].open
    BY ResetInv DEF IInv, Slots
  <2> HIDE DEF reset
  <2> QED
    BY <2>1, ForcedStopInv
<1> HIDE DEF final
<1>3. Core' = final /\ channel' = final.channel
  BY <1>1, <1>2, BecomeCore DEF CoreInv, Become
<1>4. RestType'
  BY <1>1, TimeoutsAssumption
  DEF RestType, IInv, SessInv, NoConnection, Connection, NoSessionObject, Session, Ages
<1>5. ConnOwns' /\ AttachedOwned' /\ SweptBeforeSelect'
  BY <1>1 DEF ConnOwns, AttachedOwned, SweptBeforeSelect, NoConnection, NoSessionObject
<1>6. OpenAttached'
  BY <1>2, <1>3 DEF OpenAttached
<1> QED
  BY <1>1, <1>2, <1>3, <1>4, <1>5, <1>6 DEF IInv, SessInv, Acks

LEMMA TickInv ==
    ASSUME IInv, Tick
    PROVE  IInv'
<1>1. /\ phase = "select" /\ UNCHANGED <<phase, alive, routing, ack>>
      /\ conn' = [c \in Clients |-> IF conn[c].session = NoSession THEN conn[c]
                    ELSE [conn[c] EXCEPT !.age = Older(@, LinkTimeout)]]
      /\ sess' = [s \in Sessions |-> IF sess[s].inputValid
                    THEN [sess[s] EXCEPT !.age = Older(@, SessionTimeout)] ELSE sess[s]]
  BY DEF Tick
<1>2. /\ conn \in [Clients -> Connection] /\ sess \in [Sessions -> Session]
      /\ ConnOwns /\ AttachedOwned /\ OpenAttached /\ SweptBeforeSelect
  BY DEF IInv, SessInv, RestType
<1>3. \A c \in Clients : conn'[c] \in Connection /\ conn'[c].session = conn[c].session
  <2> SUFFICES ASSUME NEW c \in Clients
               PROVE  conn'[c] \in Connection /\ conn'[c].session = conn[c].session
    OBVIOUS
  <2>1. conn[c] \in Connection
    BY <1>2
  <2>2. conn[c].age \in Ages(LinkTimeout) => Older(conn[c].age, LinkTimeout) \in Ages(LinkTimeout)
    BY TimeoutsAssumption DEF Ages, Older
  <2> QED
    BY <1>1, <2>1, <2>2 DEF Connection
<1>4. \A s \in Sessions : /\ sess'[s] \in Session
                         /\ sess'[s].state = sess[s].state
                         /\ sess'[s].inputValid = sess[s].inputValid
  <2> SUFFICES ASSUME NEW s \in Sessions
               PROVE  /\ sess'[s] \in Session
                      /\ sess'[s].state = sess[s].state
                      /\ sess'[s].inputValid = sess[s].inputValid
    OBVIOUS
  <2>1. sess[s] \in Session
    BY <1>2
  <2>2. sess[s].age \in Ages(SessionTimeout) =>
            Older(sess[s].age, SessionTimeout) \in Ages(SessionTimeout)
    BY TimeoutsAssumption DEF Ages, Older
  <2> QED
    BY <1>1, <2>1, <2>2 DEF Session
<1>5. RestType'
  <2>1. conn' \in [Clients -> Connection]
    BY <1>1, <1>3
  <2>2. sess' \in [Sessions -> Session]
    BY <1>1, <1>4
  <2> QED
    BY <1>1, <2>1, <2>2 DEF RestType, IInv, SessInv
<1>6. ConnOwns'
  <2> SUFFICES ASSUME NEW d \in Clients, conn'[d].session # NoSession
               PROVE  /\ sess'[conn'[d].session].state = "attached"
                      /\ \A e \in Clients : conn'[e].session = conn'[d].session => e = d
    BY DEF ConnOwns
  <2>1. conn[d].session \in Sessions
    BY <1>2, <1>3 DEF Connection
  <2> QED
    BY <1>2, <1>3, <1>4, <2>1 DEF ConnOwns
<1>7. AttachedOwned' /\ SweptBeforeSelect'
  BY <1>1, <1>2, <1>3, <1>4 DEF AttachedOwned, SweptBeforeSelect
<1>8. Core' = Core /\ channel' = channel
  BY <1>1, RoutingUnchanged
<1>9. OpenAttached'
  <2> SUFFICES ASSUME NEW q \in Slots, channel[q].open
               PROVE  sess'[q[1]].state = "attached" /\ sess'[q[1]].inputValid
    BY <1>8 DEF OpenAttached
  <2>1. q[1] \in Sessions
    BY DEF Slots
  <2> QED
    BY <1>2, <1>4, <2>1 DEF OpenAttached
<1> QED
  BY <1>1, <1>5, <1>6, <1>7, <1>8, <1>9 DEF IInv, SessInv

LEMMA DrainInv ==
    ASSUME IInv, NEW v \in Services, Drain(v)
    PROVE  IInv'
<1>1. /\ backlog' = [backlog EXCEPT ![v] = FALSE]
      /\ UNCHANGED <<phase, alive, conn, sess, channel, pev, openCount, currentInlet,
                     opMode, ack>>
  BY DEF Drain
<1>2. Core' \in CoreType
  BY <1>1 DEF IInv, CoreInv, CoreType, Core
<1>3. ModeFollows(Core')
  BY <1>1 DEF IInv, CoreInv, CoreType, ModeFollows, Core
<1>4. Core'.channel = Core.channel /\ Core'.pev = Core.pev /\ Core'.inlet = Core.inlet
  BY <1>1 DEF Core
<1>5. CoreInv(Core')
  BY <1>2, <1>3, <1>4, OutputOnlyInv DEF IInv
<1>6. SessInv'
  BY <1>1, QuietSessInv DEF IInv, SessInv, RestType
<1> QED
  BY <1>1, <1>5, <1>6 DEF IInv

(* The inductive invariant holds initially and is kept by every step.      *)
LEMMA InitInv == Init => IInv
<1> SUFFICES ASSUME Init PROVE IInv
  OBVIOUS
<1>1. ClosedChannel.service = NoService /\ ClosedChannel.cs = "none" /\ ~ClosedChannel.open
  BY DEF ClosedChannel
<1>2. Core \in CoreType
  <2>1. /\ channel \in [Slots -> Channel] /\ pev \in [Slots -> SUBSET PipelineEvents]
    BY ClosedChannelType DEF Init, PipelineEvents
  <2> QED
    BY <2>1 DEF Init, Core, CoreType, OpModes
<1>3. HandlesValid(Core) /\ HandlesUnique(Core) /\ LentHeld(Core)
  BY <1>1 DEF Init, Core, HandlesValid, HandlesUnique, LentHeld
<1>4. ModeFollows(Core) /\ ClosedClean(Core)
  BY <1>1 DEF Init, Core, ModeFollows, ClosedClean
<1>5. RestType
  BY TimeoutsAssumption
  DEF Init, RestType, NoConnection, Connection, NoSessionObject, Session, Ages
<1>6. ConnOwns /\ AttachedOwned /\ OpenAttached /\ SweptBeforeSelect
  BY <1>1 DEF Init, ConnOwns, AttachedOwned, OpenAttached, SweptBeforeSelect,
              NoConnection, NoSessionObject
<1> QED
  BY <1>2, <1>3, <1>4, <1>5, <1>6 DEF Init, IInv, CoreInv, SessInv, Acks

LEMMA NextInv == IInv /\ [Next]_vars => IInv'
<1> SUFFICES ASSUME IInv, [Next]_vars PROVE IInv'
  OBVIOUS
<1> USE DEF Datagram
<1>1. ASSUME NEW c \in Clients, NEW s \in Sessions, NEW cmd \in Commands,
             NEW msg \in Messages, NEW ackReq \in BOOLEAN,
             ReceiveMessage(c, s, cmd, msg, ackReq)
      PROVE  IInv'
  BY <1>1, ReceiveMessageInv
<1>2. ASSUME NEW c \in Clients, NEW s \in Sessions, NEW cmd \in Commands,
             NEW kind \in BareKinds, NEW k \in Channels, NEW ackReq \in BOOLEAN,
             ReceiveBare(c, s, cmd, kind, k, ackReq)
      PROVE  IInv'
  BY <1>2, ReceiveBareInv
<1>3. ASSUME NEW c \in Clients, NEW ackReq \in BOOLEAN, NotConnected(c, ackReq)
      PROVE  IInv'
  <2>1. /\ phase' = "house" /\ alive' = alive /\ UNCHANGED <<conn, sess>>
        /\ UNCHANGED routing
        /\ ack' = IF ackReq THEN [kind |-> "error"] ELSE NoAck
    BY <1>3 DEF NotConnected
  <2>2. Core' = Core /\ channel' = channel
    BY <2>1, RoutingUnchanged
  <2>3. SessInv'
    BY <2>1, <2>2, QuietSessInv DEF IInv, SessInv, RestType
  <2> QED
    BY <2>1, <2>2, <2>3 DEF IInv, Acks
<1>4. ASSUME NEW c \in Clients, Abort(c)
      PROVE  IInv'
  BY <1>4, AbortInv
<1>5. ASSUME NEW c \in Clients, Vanish(c)
      PROVE  IInv'
  <2>1. alive' = alive \ {c} /\ UNCHANGED <<phase, conn, sess, routing, ack>>
    BY <1>5 DEF Vanish
  <2>2. Core' = Core /\ channel' = channel
    BY <2>1, RoutingUnchanged
  <2>3. SessInv'
    BY <2>1, <2>2, QuietSessInv DEF IInv, SessInv, RestType
  <2> QED
    BY <2>1, <2>2, <2>3 DEF IInv
<1>6. CASE SelectTimeout
  <2>1. phase' = "house" /\ UNCHANGED <<alive, conn, sess, routing, ack>>
    BY <1>6 DEF SelectTimeout
  <2>2. Core' = Core /\ channel' = channel
    BY <2>1, RoutingUnchanged
  <2>3. SessInv'
    BY <2>1, <2>2, QuietSessInv DEF IInv, SessInv, RestType
  <2> QED
    BY <2>1, <2>2, <2>3 DEF IInv
<1>7. CASE Housekeeping
  BY <1>7, HousekeepingInv
<1>8. CASE Shutdown
  BY <1>8, ShutdownInv
<1>9. CASE Tick
  BY <1>9, TickInv
<1>10. ASSUME NEW v \in Services, Drain(v)
       PROVE  IInv'
  BY <1>10, DrainInv
<1>11. CASE UNCHANGED vars
  <2>1. UNCHANGED <<phase, alive, conn, sess, routing, ack>>
    BY <1>11 DEF vars
  <2>2. Core' = Core /\ channel' = channel
    BY <2>1, RoutingUnchanged
  <2>3. SessInv'
    BY <2>1, <2>2, QuietSessInv DEF IInv, SessInv, RestType
  <2> QED
    BY <2>1, <2>2, <2>3 DEF IInv
<1> QED
  BY <1>1, <1>2, <1>3, <1>4, <1>5, <1>6, <1>7, <1>8, <1>9, <1>10, <1>11
  DEF Next, Terminated

LEMMA SpecInv == Spec => []IInv
BY InitInv, NextInv, PTL DEF Spec

(* Every variable keeps its type.                                          *)
THEOREM TypeCorrect == Spec => []TypeOK
<1>1. IInv => TypeOK
  BY DEF IInv, CoreInv, CoreType, Core, SessInv, RestType, TypeOK
<1> QED
  BY <1>1, SpecInv, PTL

(* However many clients compete for however many services: a service is    *)
(* never held by two channels.                                             *)
THEOREM Exclusion == Spec => []ExclusiveInlet
<1>1. IInv => ExclusiveInlet
  BY ServicesAssumption DEF IInv, CoreInv, HandlesUnique, Core, ExclusiveInlet, Holders
<1> QED
  BY <1>1, SpecInv, PTL

(* An inlet is lent exactly while a channel holds it: none is leaked by a  *)
(* session that ends, none is held without being lent.                     *)
THEOREM Ownership == Spec => []InletOwned
<1>1. IInv => InletOwned
  BY ServicesAssumption
  DEF IInv, CoreInv, HandlesValid, LentHeld, Core, InletOwned, Holders
<1> QED
  BY <1>1, SpecInv, PTL

(* The operation mode of an output follows the lent inlet, and an output   *)
(* goes idle only with an empty adapter queue.                             *)
THEOREM OutputMode == Spec => []OutputFollowsInlet
<1>1. IInv => OutputFollowsInlet
  BY DEF IInv, CoreInv, ModeFollows, Core, OutputFollowsInlet
<1> QED
  BY <1>1, SpecInv, PTL

(* Connections and sessions correspond one to one, and a session that lost *)
(* its connection has no open channel.                                     *)
THEOREM Sessionship == Spec => []SessionOwnership
<1>1. IInv => SessionOwnership
  <2> SUFFICES ASSUME IInv
               PROVE  SessionOwnership
    OBVIOUS
  <2>1. \A s \in Sessions, k \in Channels :
           sess[s].state # "attached" => ~channel[<<s, k>>].open
    <3> SUFFICES ASSUME NEW s \in Sessions, NEW k \in Channels
                 PROVE  channel[<<s, k>>].open => sess[s].state = "attached"
      OBVIOUS
    <3>1. <<s, k>> \in Slots /\ <<s, k>>[1] = s
      BY DEF Slots
    <3> QED
      BY <3>1 DEF IInv, SessInv, OpenAttached
  <2> QED
    BY <2>1 DEF IInv, SessInv, ConnOwns, AttachedOwned, SweptBeforeSelect, SessionOwnership
<1> QED
  BY <1>1, SpecInv, PTL

(* Every open channel is within reach of the session timeout.              *)
THEOREM TimedChannels == Spec => []OpenChannelsAreTimed
<1>1. IInv => OpenChannelsAreTimed
  <2> SUFFICES ASSUME IInv, NEW s \in Sessions, NEW k \in Channels
               PROVE  channel[<<s, k>>].open => sess[s].inputValid
    BY DEF OpenChannelsAreTimed
  <2>1. <<s, k>> \in Slots /\ <<s, k>>[1] = s
    BY DEF Slots
  <2> QED
    BY <2>1 DEF IInv, SessInv, OpenAttached
<1> QED
  BY <1>1, SpecInv, PTL

-----------------------------------------------------------------------------
(* The counter of open channels.                                           *)

OpenOf(st, s) == {k \in Channels : st.channel[<<s, k>>].open}

CountExact(st) == \A s \in Sessions : st.openCount[s] = Cardinality(OpenOf(st, s))

(* The same channels are open, and the counters were left alone.           *)
SameOpen(st, new) ==
    /\ new.openCount = st.openCount
    /\ \A q \in Slots : new.channel[q].open = st.channel[q].open

LEMMA SameOpenExact ==
    ASSUME NEW st, NEW new, SameOpen(st, new), CountExact(st)
    PROVE  CountExact(new)
<1> SUFFICES ASSUME NEW s \in Sessions
             PROVE  new.openCount[s] = Cardinality(OpenOf(new, s))
  BY DEF CountExact
<1>1. \A k \in Channels : <<s, k>> \in Slots
  BY DEF Slots
<1>2. OpenOf(new, s) = OpenOf(st, s)
  BY <1>1 DEF OpenOf, SameOpen
<1> QED
  BY <1>2 DEF CountExact, SameOpen

(* Slots that were open are closed, and each session counts down by those  *)
(* of its own.                                                             *)
LEMMA CloseChannelsExact ==
    ASSUME NEW st, CoreInv(st), CountExact(st), NEW C \in SUBSET Slots,
           \A q \in C : st.channel[q].open
    PROVE  CountExact(CloseChannels(st, C))
<1> DEFINE new == CloseChannels(st, C)
           closed(s) == {k \in Channels : <<s, k>> \in C}
<1>1. st \in CoreType
  BY DEF CoreInv
<1>2. /\ new.openCount = [s \in Sessions |->
              st.openCount[s] - Cardinality({k \in Channels : <<s, k>> \in C})]
      /\ \A q \in Slots \ C : new.channel[q] = st.channel[q]
      /\ \A q \in C : ~new.channel[q].open
  <2>1. new.openCount = [s \in Sessions |->
              st.openCount[s] - Cardinality({k \in Channels : <<s, k>> \in C})]
    BY <1>1 DEF CloseChannels, ReleaseHandles, CoreType
  <2> QED
    BY <2>1, CloseChannelsInv
<1> HIDE DEF new
<1> SUFFICES ASSUME NEW s \in Sessions
             PROVE  new.openCount[s] = Cardinality(OpenOf(new, s))
  BY DEF CountExact, new
<1>3. \A k \in Channels : <<s, k>> \in Slots
  BY DEF Slots
<1>4. /\ OpenOf(new, s) = OpenOf(st, s) \ closed(s)
      /\ OpenOf(st, s) \cap closed(s) = closed(s)
  BY <1>2, <1>3 DEF OpenOf
<1>5. IsFiniteSet(OpenOf(st, s))
  BY SessionsAssumption, FS_Subset DEF OpenOf
<1>6. Cardinality(OpenOf(new, s)) = Cardinality(OpenOf(st, s)) - Cardinality(closed(s))
  BY <1>4, <1>5, FS_Difference
<1> QED
  BY <1>2, <1>6 DEF CountExact

(* A channel is opened and counted.                                        *)
LEMMA OpenChannelExact ==
    ASSUME NEW st, CoreInv(st), CountExact(st), NEW p \in Slots, ~st.channel[p].open
    PROVE  CountExact(OpenChannel(st, p))
<1> DEFINE new == OpenChannel(st, p)
<1>1. /\ st \in CoreType
      /\ p[1] \in Sessions /\ p[2] \in Channels /\ p = <<p[1], p[2]>>
  BY DEF CoreInv, Slots
<1>2. /\ new.openCount = [st.openCount EXCEPT ![p[1]] = @ + 1]
      /\ \A q \in Slots \ {p} : new.channel[q] = st.channel[q]
      /\ new.channel[p].open
  <2>1. new.openCount = [st.openCount EXCEPT ![p[1]] = @ + 1]
    BY <1>1 DEF OpenChannel, CoreType
  <2> QED
    BY <2>1, OpenChannelInv DEF OnlySlot
<1> HIDE DEF new
<1> SUFFICES ASSUME NEW s \in Sessions
             PROVE  new.openCount[s] = Cardinality(OpenOf(new, s))
  BY DEF CountExact, new
<1>3. \A k \in Channels : <<s, k>> \in Slots
  BY DEF Slots
<1>4. IsFiniteSet(OpenOf(st, s)) /\ st.openCount \in [Sessions -> Int]
  BY <1>1, SessionsAssumption, FS_Subset DEF OpenOf, CoreType
<1>5. CASE s = p[1]
  <2>1. p[2] \notin OpenOf(st, s)
    BY <1>1, <1>5 DEF OpenOf
  <2>2. OpenOf(new, s) = OpenOf(st, s) \cup {p[2]}
    <3>1. \A k \in Channels \ {p[2]} : <<s, k>> \in Slots \ {p}
      BY <1>1, <1>3
    <3> QED
      BY <1>1, <1>2, <1>5, <3>1 DEF OpenOf
  <2>3. Cardinality(OpenOf(new, s)) = Cardinality(OpenOf(st, s)) + 1
    BY <1>4, <2>1, <2>2, FS_AddElement
  <2> QED
    BY <1>2, <1>4, <1>5, <2>3 DEF CountExact
<1>6. CASE s # p[1]
  <2>1. \A k \in Channels : <<s, k>> \in Slots \ {p}
    BY <1>1, <1>3, <1>6
  <2>2. OpenOf(new, s) = OpenOf(st, s)
    BY <1>2, <2>1 DEF OpenOf
  <2> QED
    BY <1>2, <1>4, <1>6, <2>2 DEF CountExact
<1> QED
  BY <1>5, <1>6

(* A new session object has no open channel and counts none.               *)
LEMMA CreateSessionExact ==
    ASSUME NEW st, CoreInv(st), CountExact(st), NEW s \in Sessions,
           \A q \in Slots : q[1] = s => ~st.channel[q].open
    PROVE  CountExact(CreateSession(st, s))
<1> DEFINE new == CreateSession(st, s)
<1>1. st \in CoreType
  BY DEF CoreInv
<1>2. /\ new.openCount = [st.openCount EXCEPT ![s] = 0]
      /\ \A q \in Slots : new.channel[q].open = st.channel[q].open
  <2>1. new.openCount = [st.openCount EXCEPT ![s] = 0]
    BY <1>1 DEF CreateSession, CoreType
  <2> QED
    BY <2>1, CreateSessionInv
<1> HIDE DEF new
<1> SUFFICES ASSUME NEW t \in Sessions
             PROVE  new.openCount[t] = Cardinality(OpenOf(new, t))
  BY DEF CountExact, new
<1>3. \A k \in Channels : <<t, k>> \in Slots /\ <<t, k>>[1] = t
  BY DEF Slots
<1>4. OpenOf(new, t) = OpenOf(st, t)
  BY <1>2, <1>3 DEF OpenOf
<1>5. st.openCount \in [Sessions -> Int]
  BY <1>1 DEF CoreType
<1>6. CASE t = s
  <2>1. OpenOf(st, t) = {}
    BY <1>3, <1>6 DEF OpenOf
  <2> QED
    BY <1>2, <1>4, <1>5, <1>6, <2>1, FS_EmptySet
<1>7. CASE t # s
  BY <1>2, <1>4, <1>5, <1>7 DEF CountExact
<1> QED
  BY <1>6, <1>7

(* The helpers that neither open nor close a channel.                      *)
LEMMA InputSameOpen ==
    ASSUME NEW st, CoreInv(st), NEW p \in Slots, NEW fed \in BOOLEAN
    PROVE  /\ SameOpen(st, Input(st, p, fed))
           /\ Input(st, p, fed).pev = st.pev
<1>1. st \in CoreType
  BY DEF CoreInv
<1>2. Input(st, p, fed).openCount = st.openCount /\ Input(st, p, fed).pev = st.pev
  BY <1>1 DEF Input, CoreType
<1> QED
  BY <1>2, InputInv DEF SameOpen

LEMMA ClearPipelineEventsSameOpen ==
    ASSUME NEW st, CoreInv(st), NEW p \in Slots
    PROVE  SameOpen(st, ClearPipelineEvents(st, p))
<1>1. st \in CoreType
  BY DEF CoreInv
<1>2. ClearPipelineEvents(st, p).openCount = st.openCount
  BY <1>1 DEF ClearPipelineEvents, CoreType
<1> QED
  BY <1>2, ClearPipelineEventsInv DEF SameOpen

LEMMA StopSameOpen ==
    ASSUME NEW st, CoreInv(st)
    PROVE  SameOpen(st, RetryStop(st)) /\ SameOpen(st, ForcedStop(st))
<1>1. st \in CoreType
  BY DEF CoreInv
<1>2. RetryStop(st).openCount = st.openCount /\ ForcedStop(st).openCount = st.openCount
  BY <1>1 DEF RetryStop, ForcedStop, CoreType
<1> QED
  BY <1>2, RetryStopInv, ForcedStopInv DEF SameOpen

LEMMA ReleaseHandlesSameOpen ==
    ASSUME NEW st, CoreInv(st), NEW C \in SUBSET Slots
    PROVE  /\ SameOpen(st, ReleaseHandles(st, C))
           /\ ReleaseHandles(st, C).pev = st.pev
<1>1. st \in CoreType
  BY DEF CoreInv
<1>2. /\ ReleaseHandles(st, C).openCount = st.openCount
      /\ ReleaseHandles(st, C).pev = st.pev
  BY <1>1 DEF ReleaseHandles, CoreType
<1> QED
  BY <1>2, ReleaseHandlesInv DEF SameOpen

(* What a request leaves in the channel it is made for: unless an error is *)
(* flagged, the channel is connected as it was asked to be.                *)
Answered(new, p, req) ==
    new.pev[p] \cap RoutingErrors = {} =>
        new.channel[p].cs = "connected" /\ new.channel[p].routing = req

(* A service that slot p holds now, and did not hold before, was free.     *)
TakesFree(st, new, p) ==
    \A v \in Services :
        (new.channel[p].service = v /\ st.channel[p].service # v) =>
            \A q \in Slots : st.channel[q].service # v

LEMMA UnroutedEffect ==
    ASSUME NEW st, CoreInv(st), NEW p \in Slots, NEW req \in Routings,
           NEW cs \in {"connected", "serviceError", "conduitError"},
           NEW events \in SUBSET RoutingErrors,
           cs = "connected" \/ events # {},
           st.channel[p].open, st.channel[p].service = NoService
    PROVE  /\ SameOpen(st, Unrouted(st, p, req, cs, events))
           /\ Answered(Unrouted(st, p, req, cs, events), p, req)
           /\ TakesFree(st, Unrouted(st, p, req, cs, events), p)
<1> DEFINE new == Unrouted(st, p, req, cs, events)
           ch == [st.channel[p] EXCEPT !.routing = req, !.cs = cs]
<1>1. st \in CoreType
  BY DEF CoreInv
<1>2. /\ new.channel = [st.channel EXCEPT ![p] = ch]
      /\ new.pev = [st.pev EXCEPT ![p] = @ \cup events]
      /\ new.openCount = st.openCount
  BY <1>1 DEF Unrouted, CoreType
<1>3. ch.open = st.channel[p].open /\ ch.service = NoService
      /\ ch.cs = cs /\ ch.routing = req
  <2>1. st.channel[p] \in Channel
    BY <1>1 DEF CoreType
  <2> QED
    BY <2>1 DEF Channel
<1> HIDE DEF ch
<1>4. /\ new.channel[p] = ch
      /\ \A q \in Slots \ {p} : new.channel[q] = st.channel[q]
      /\ events \subseteq new.pev[p]
  BY <1>1, <1>2 DEF CoreType
<1> HIDE DEF new
<1>5. SameOpen(st, new)
  BY <1>2, <1>3, <1>4 DEF SameOpen
<1>6. Answered(new, p, req)
  BY <1>3, <1>4 DEF Answered
<1>7. TakesFree(st, new, p)
  BY <1>3, <1>4, ServicesAssumption DEF TakesFree
<1> QED
  BY <1>5, <1>6, <1>7 DEF new

LEMMA ConnectedEffect ==
    ASSUME NEW st, CoreInv(st), NEW p \in Slots, NEW v \in Services, NEW req \in Routings,
           InletAvailable(st, v, req.mode),
           st.channel[p].open, st.channel[p].service = NoService
    PROVE  /\ SameOpen(st, Connected(st, p, v, req))
           /\ Answered(Connected(st, p, v, req), p, req)
           /\ TakesFree(st, Connected(st, p, v, req), p)
<1> DEFINE new == Connected(st, p, v, req)
           ch == [open |-> TRUE, cs |-> "connected", routing |-> req,
                  service |-> v, conduit |-> req.mode]
<1>1. st \in CoreType /\ st.inlet[v] = "none" /\ st.channel[p].open = TRUE
  <2>1. st \in CoreType /\ st.channel[p] \in Channel
    BY DEF CoreInv, CoreType
  <2> QED
    BY <2>1 DEF InletAvailable, Channel
<1>2. new.channel = [st.channel EXCEPT ![p] = ch] /\ new.openCount = st.openCount
  BY <1>1 DEF Connected, CoreType
<1>3. ch.open = TRUE /\ ch.cs = "connected" /\ ch.routing = req /\ ch.service = v
  OBVIOUS
<1> HIDE DEF ch
<1>4. new.channel[p] = ch /\ \A q \in Slots \ {p} : new.channel[q] = st.channel[q]
  BY <1>1, <1>2 DEF CoreType
<1> HIDE DEF new
<1>5. SameOpen(st, new)
  BY <1>1, <1>2, <1>3, <1>4 DEF SameOpen
<1>6. Answered(new, p, req)
  BY <1>3, <1>4 DEF Answered
<1>7. \A q \in Slots : st.channel[q].service # v
  BY <1>1, ServicesAssumption DEF CoreInv, HandlesValid
<1>8. TakesFree(st, new, p)
  BY <1>3, <1>4, <1>7 DEF TakesFree
<1> QED
  BY <1>5, <1>6, <1>8 DEF new

LEMMA ConnectEffect ==
    ASSUME NEW st, CoreInv(st), NEW p \in Slots, NEW req \in Routings,
           st.channel[p].open, st.channel[p].service = NoService
    PROVE  /\ SameOpen(st, Connect(st, p, req))
           /\ Answered(Connect(st, p, req), p, req)
           /\ TakesFree(st, Connect(st, p, req), p)
<1> DEFINE v == FindService(req)
<1>1. v \in Services \cup {NoService}
  BY FindServiceType
<1>2. CASE req.mode = "void"
  <2>1. Connect(st, p, req) = Unrouted(st, p, req, "connected", {})
    BY <1>2 DEF Connect, HandledModes, GraphicModes
  <2> QED
    BY <2>1, UnroutedEffect
<1>3. CASE req.mode # "void" /\ v = NoService
  <2>1. Connect(st, p, req) = Unrouted(st, p, req, "serviceError", {"SMERR"})
    BY <1>3 DEF Connect
  <2> QED
    BY <2>1, UnroutedEffect DEF RoutingErrors
<1>4. CASE v # NoService /\ req.mode \notin HandledModes \cup {"void"}
  <2>1. Connect(st, p, req) = Unrouted(st, p, req, "conduitError", {"SMERR"})
    BY <1>4 DEF Connect
  <2> QED
    BY <2>1, UnroutedEffect DEF RoutingErrors
<1>5. CASE v # NoService /\ req.mode \in HandledModes /\ ~InletAvailable(st, v, req.mode)
  <2>1. Connect(st, p, req) = Unrouted(st, p, req, "conduitError", {"BSYERR"})
    BY <1>5 DEF Connect, HandledModes, GraphicModes
  <2> QED
    BY <2>1, UnroutedEffect DEF RoutingErrors
<1>6. CASE v # NoService /\ req.mode \in HandledModes /\ InletAvailable(st, v, req.mode)
  <2>1. Connect(st, p, req) = Connected(st, p, v, req)
    BY <1>6 DEF Connect, HandledModes, GraphicModes
  <2> QED
    BY <1>1, <1>6, <2>1, ConnectedEffect
<1> QED
  BY <1>2, <1>3, <1>4, <1>5, <1>6

(* A channel may take over the service it just gave back in another mode.  *)
LEMMA RouteEffect ==
    ASSUME NEW st, CoreInv(st), NEW p \in Slots, NEW req \in Routings,
           st.channel[p].open
    PROVE  /\ SameOpen(st, Route(st, p, req))
           /\ Answered(Route(st, p, req), p, req)
           /\ TakesFree(st, Route(st, p, req), p)
<1>1. CASE st.channel[p].cs = "connected" /\ st.channel[p].routing = req
  BY <1>1 DEF Route, SameOpen, Answered, TakesFree
<1>2. CASE st.channel[p].cs = "connected" /\ st.channel[p].routing # req
  <2> DEFINE rel == ReleaseHandles(st, {p})
             new == Connect(rel, p, req)
  <2>1. /\ CoreInv(rel)
        /\ \A q \in Slots \ {p} : rel.channel[q] = st.channel[q]
        /\ rel.channel[p].open /\ rel.channel[p].service = NoService
        /\ SameOpen(st, rel)
    BY ReleaseHandlesInv, ReleaseHandlesSameOpen
  <2>2. Route(st, p, req) = new
    BY <1>2 DEF Route
  <2> HIDE DEF rel
  <2>3. SameOpen(rel, new) /\ Answered(new, p, req) /\ TakesFree(rel, new, p)
    BY <2>1, ConnectEffect
  <2> HIDE DEF new
  <2>4. SameOpen(st, new)
    BY <2>1, <2>3 DEF SameOpen
  <2>5. TakesFree(st, new, p)
    <3> SUFFICES ASSUME NEW v \in Services, new.channel[p].service = v,
                        st.channel[p].service # v, NEW q \in Slots
                 PROVE  st.channel[q].service # v
      BY DEF TakesFree
    <3>1. rel.channel[p].service # v
      BY <2>1, ServicesAssumption
    <3>2. rel.channel[q].service # v
      BY <2>3, <3>1 DEF TakesFree
    <3> QED
      BY <2>1, <3>2
  <2> QED
    BY <2>2, <2>3, <2>4, <2>5
<1>3. CASE st.channel[p].cs # "connected"
  <2>1. st.channel[p].service = NoService
    BY <1>3 DEF CoreInv, HandlesValid
  <2>2. Route(st, p, req) = Connect(st, p, req)
    BY <1>3 DEF Route
  <2> QED
    BY <2>1, <2>2, ConnectEffect
<1> QED
  BY <1>1, <1>2, <1>3

(* A channel message: the count stays exact, a request that was routed     *)
(* without an error flag is connected, and only a free service is taken.   *)
LEMMA ProcessChannelMessageEffect ==
    ASSUME NEW st, CoreInv(st), CountExact(st), NEW p \in Slots, NEW msg \in Messages
    PROVE  /\ CountExact(ProcessChannelMessage(st, p, msg))
           /\ (msg.request # NoRequest
                 /\ "CLOSED" \notin ProcessChannelMessage(st, p, msg).pev[p]) =>
                    Answered(ProcessChannelMessage(st, p, msg), p, msg.request)
           /\ TakesFree(st, ProcessChannelMessage(st, p, msg), p)
<1> DEFINE routed == msg.request # NoRequest
           opened == IF st.channel[p].open THEN st ELSE OpenChannel(st, p)
           linked == IF routed THEN Route(opened, p, msg.request) ELSE opened
           passed == Input(linked, p, msg.fed)
           closed == CloseChannels(passed, {p})
           new == ProcessChannelMessage(st, p, msg)
<1>1. CASE ~st.channel[p].open /\ ~routed
  <2>1. new = st
    BY <1>1 DEF ProcessChannelMessage
  <2> QED
    BY <1>1, <2>1 DEF TakesFree
<1>2. CASE st.channel[p].open \/ routed
  <2>0. new = IF msg.close THEN closed ELSE passed
    BY <1>2 DEF ProcessChannelMessage, opened, linked, passed
  <2> HIDE DEF new
  <2>1. /\ CoreInv(opened) /\ CountExact(opened) /\ opened.channel[p].open
        /\ \A q \in Slots : opened.channel[q].service = st.channel[q].service
    <3>1. CASE st.channel[p].open
      BY <3>1
    <3>2. CASE ~st.channel[p].open
      <4>1. st.channel[p].service = NoService
        BY <3>2 DEF CoreInv, ClosedClean
      <4> QED
        BY <3>2, <4>1, OpenChannelInv, OpenChannelExact DEF OnlySlot
    <3> QED
      BY <3>1, <3>2
  <2>2. routed => msg.request \in Routings
    BY RequestsAssumption DEF Messages
  <2> HIDE DEF opened
  <2>3. /\ CoreInv(linked) /\ SameOpen(opened, linked)
        /\ routed => Answered(linked, p, msg.request)
        /\ TakesFree(opened, linked, p)
    BY <2>1, <2>2, RouteInv, RouteEffect DEF SameOpen, TakesFree
  <2>4. CountExact(linked) /\ linked.channel[p].open
    BY <2>1, <2>3, SameOpenExact DEF SameOpen
  <2> HIDE DEF linked
  <2>5. msg.fed \in BOOLEAN
    BY DEF Messages
  <2>6. /\ CoreInv(passed) /\ passed.channel = linked.channel
        /\ passed.pev = linked.pev /\ SameOpen(linked, passed)
    BY <2>3, <2>5, InputInv, InputSameOpen
  <2>7. CountExact(passed) /\ passed.channel[p].open
    BY <2>4, <2>6, SameOpenExact
  <2>8. TakesFree(st, passed, p)
    BY <2>1, <2>3, <2>6 DEF TakesFree
  <2>9. routed => Answered(passed, p, msg.request)
    BY <2>3, <2>6 DEF Answered
  <2> HIDE DEF passed
  <2>10. CASE msg.close
    <3>1. {p} \in SUBSET Slots
      OBVIOUS
    <3>2. CoreInv(closed) /\ CountExact(closed) /\ ~closed.channel[p].open
      BY <2>6, <2>7, <3>1, CloseChannelsInv, CloseChannelsExact
    <3> HIDE DEF closed
    <3>3. "CLOSED" \in closed.pev[p] /\ closed.channel[p].service = NoService
      BY <3>2 DEF CoreInv, ClosedClean
    <3>4. TakesFree(st, closed, p)
      BY <3>3, ServicesAssumption DEF TakesFree
    <3>5. new = closed
      BY <2>0, <2>10
    <3> QED
      BY <3>2, <3>3, <3>4, <3>5 DEF new
  <2>11. CASE ~msg.close
    <3>1. new = passed
      BY <2>0, <2>11
    <3> QED
      BY <2>7, <2>8, <2>9, <3>1 DEF new
  <2> QED
    BY <2>10, <2>11
<1> QED
  BY <1>1, <1>2

LEMMA ResetExact ==
    ASSUME NEW st, CoreInv(st), CountExact(st), NEW S \in SUBSET Sessions
    PROVE  CountExact(Reset(st, S))
<1>1. OpenSlots(st, S) \in SUBSET Slots /\ \A q \in OpenSlots(st, S) : st.channel[q].open
  BY DEF OpenSlots
<1> QED
  BY <1>1, CloseChannelsExact DEF Reset

(* The session of a datagram holds the services it held before.            *)
LEMMA LinkedEffect ==
    ASSUME IInv, CountExact(Core), NEW c \in Clients, NEW s \in SessionFor(c)
    PROVE  /\ CountExact(Linked(c, s))
           /\ \A q \in Slots : Linked(c, s).channel[q].service = channel[q].service
<1>0. Core.channel = channel /\ CoreInv(Core)
  BY DEF Core, IInv
<1>1. CASE conn[c].session # NoSession
  BY <1>0, <1>1 DEF Linked
<1>2. CASE conn[c].session = NoSession
  <2>1. s \in Sessions /\ sess[s].state = "none"
    BY <1>2 DEF SessionFor, Freelist
  <2>2. \A q \in Slots : q[1] = s => ~Core.channel[q].open
    BY <1>0, <2>1 DEF IInv, SessInv, OpenAttached
  <2>3. CountExact(CreateSession(Core, s))
    BY <1>0, <2>1, <2>2, CreateSessionExact
  <2>4. /\ CoreInv(CreateSession(Core, s))
        /\ \A q \in Slots : CreateSession(Core, s).channel[q].open = Core.channel[q].open
        /\ \A q \in Slots : q[1] # s =>
              CreateSession(Core, s).channel[q] = Core.channel[q]
    BY <1>0, <2>1, <2>2, CreateSessionInv
  <2>5. \A q \in Slots : q[1] = s =>
            /\ Core.channel[q].service = NoService
            /\ CreateSession(Core, s).channel[q].service = NoService
    BY <1>0, <2>2, <2>4 DEF CoreInv, ClosedClean
  <2>6. Linked(c, s) = CreateSession(Core, s)
    BY <1>2 DEF Linked
  <2> QED
    BY <1>0, <2>3, <2>4, <2>5, <2>6
<1> QED
  BY <1>1, <1>2

LEMMA AfterCloseExact ==
    ASSUME NEW st, CoreInv(st), CountExact(st), NEW s \in Sessions, NEW cmd
    PROVE  CountExact(AfterClose(st, s, cmd))
BY ResetExact DEF AfterClose

(* The status flag for open channels is read off the counter.              *)
LEMMA OpenCountTruth ==
    ASSUME NEW st, CountExact(st), NEW s \in Sessions
    PROVE  st.openCount[s] > 0 <=> \E j \in Channels : st.channel[<<s, j>>].open
<1>1. IsFiniteSet(OpenOf(st, s))
  BY SessionsAssumption, FS_Subset DEF OpenOf
<1>2. Cardinality(OpenOf(st, s)) > 0 <=> OpenOf(st, s) # {}
  <2>1. Cardinality(OpenOf(st, s)) \in Nat
    BY <1>1, FS_CardinalityType
  <2>2. Cardinality(OpenOf(st, s)) = 0 <=> OpenOf(st, s) = {}
    BY <1>1, FS_EmptySet
  <2> QED
    BY <2>1, <2>2
<1>3. st.openCount[s] = Cardinality(OpenOf(st, s))
  BY DEF CountExact
<1> QED
  BY <1>2, <1>3 DEF OpenOf

(* An acknowledgement of a state st, about the channel of slot <<s, k>>,   *)
(* is true of every state with the same channels.                          *)
LEMMA EventAckTruth ==
    ASSUME NEW st, CoreInv(st), CountExact(st), NEW s \in Sessions, NEW k \in Channels,
           NEW cmd, NEW req \in Requests \cup {NoRequest},
           req # NoRequest /\ "CLOSED" \notin st.pev[<<s, k>>] =>
               Answered(st, <<s, k>>, req),
           ack' = EventAck(st, s, k, cmd, req),
           cmd # "CLOSE" => channel' = st.channel
    PROVE  AckTruthful'
<1>1. /\ ack'.kind = "events" /\ ack'.session = s /\ ack'.channel = k
      /\ ack'.events = st.pev[<<s, k>>] /\ ack'.open = (st.openCount[s] > 0)
      /\ ack'.closing = (cmd = "CLOSE") /\ ack'.routed = req
  BY DEF EventAck
<1>2. CASE cmd = "CLOSE"
  BY <1>1, <1>2 DEF AckTruthful
<1>3. CASE cmd # "CLOSE"
  <2>1. channel' = st.channel /\ <<s, k>> \in Slots
    BY <1>3 DEF Slots
  <2>2. "CLOSED" \in st.pev[<<s, k>>] <=> ~st.channel[<<s, k>>].open
    BY <2>1 DEF CoreInv, ClosedClean
  <2>3. st.openCount[s] > 0 <=> \E j \in Channels : st.channel[<<s, j>>].open
    BY OpenCountTruth
  <2>4. (req # NoRequest /\ "CLOSED" \notin st.pev[<<s, k>>]
            /\ st.pev[<<s, k>>] \cap RoutingErrors = {}) =>
          /\ st.channel[<<s, k>>].cs = "connected"
          /\ st.channel[<<s, k>>].routing = req
    BY DEF Answered
  <2> HIDE DEF Answered, CoreInv, CountExact
  <2> QED
    BY <1>1, <2>1, <2>2, <2>3, <2>4 DEF AckTruthful
<1> QED
  BY <1>2, <1>3

LEMMA StatusAckTruth ==
    ASSUME NEW st, CountExact(st), NEW s \in Sessions, NEW cmd,
           ack' = StatusAck(st, s, cmd), cmd # "CLOSE" => channel' = st.channel
    PROVE  AckTruthful'
<1>1. /\ ack'.kind = "status" /\ ack'.session = s /\ ack'.open = (st.openCount[s] > 0)
      /\ ack'.closing = (cmd = "CLOSE")
  BY DEF StatusAck
<1>2. st.openCount[s] > 0 <=> \E j \in Channels : st.channel[<<s, j>>].open
  BY OpenCountTruth
<1> HIDE DEF CountExact
<1> QED
  BY <1>1, <1>2 DEF AckTruthful

(* An acknowledgement of an error, or none, promises nothing.              *)
LEMMA OtherAckTruth ==
    ASSUME ack' \in {NoAck, [kind |-> "error"]}
    PROVE  AckTruthful'
BY DEF AckTruthful, NoAck

CountInv == IInv /\ CountExact(Core) /\ AckTruthful

LEMMA ReceiveMessageCount ==
    ASSUME CountInv, NEW c \in Clients, NEW s \in Sessions, NEW cmd \in Commands,
           NEW msg \in Messages, NEW ackReq \in BOOLEAN,
           ReceiveMessage(c, s, cmd, msg, ackReq)
    PROVE  CountExact(Core)' /\ AckTruthful'
<1> DEFINE p == <<s, msg.channel>>
           linked == Linked(c, s)
           processed == ProcessChannelMessage(linked, p, msg)
           acked == IF ackReq THEN ClearPipelineEvents(processed, p) ELSE processed
           final == AfterClose(acked, s, cmd)
<1>1. /\ s \in SessionFor(c)
      /\ Become(final)
      /\ ack' = IF ackReq THEN EventAck(processed, s, msg.channel, cmd, msg.request)
                ELSE NoAck
  BY DEF ReceiveMessage
<1>2. p \in Slots /\ msg.channel \in Channels /\ msg.request \in Requests \cup {NoRequest}
  BY DEF Slots, Messages
<1>3. CoreInv(linked) /\ CountExact(linked)
  BY <1>1, LinkedInv, LinkedEffect DEF CountInv
<1> HIDE DEF linked
<1>4. /\ CoreInv(processed) /\ CountExact(processed)
      /\ msg.request # NoRequest /\ "CLOSED" \notin processed.pev[p] =>
            Answered(processed, p, msg.request)
  BY <1>2, <1>3, ProcessChannelMessageInv, ProcessChannelMessageEffect
<1> HIDE DEF processed
<1>5. CoreInv(acked) /\ CountExact(acked) /\ acked.channel = processed.channel
  <2>1. CASE ackReq
    BY <1>2, <1>4, <2>1, ClearPipelineEventsInv, ClearPipelineEventsSameOpen, SameOpenExact
  <2>2. CASE ~ackReq
    BY <1>4, <2>2
  <2> QED
    BY <2>1, <2>2
<1> HIDE DEF acked
<1>6. CoreInv(final) /\ CountExact(final)
  <2>1. CoreInv(Reset(acked, {s}))
    BY <1>5, ResetInv
  <2> QED
    BY <1>5, <2>1, AfterCloseExact DEF AfterClose
<1>7. cmd # "CLOSE" => final.channel = processed.channel
  BY <1>5 DEF AfterClose
<1> HIDE DEF final
<1>8. Core' = final /\ channel' = final.channel
  BY <1>1, <1>6, BecomeCore DEF CoreInv, Become
<1>9. AckTruthful'
  <2>1. CASE ackReq
    BY <1>1, <1>2, <1>4, <1>7, <1>8, <2>1, EventAckTruth DEF p
  <2>2. CASE ~ackReq
    BY <1>1, <2>2, OtherAckTruth
  <2> QED
    BY <2>1, <2>2
<1>10. CountExact(Core)'
  BY <1>6, <1>8 
<1> QED
  BY <1>9, <1>10

LEMMA ReceiveBareCount ==
    ASSUME CountInv, NEW c \in Clients, NEW s \in Sessions, NEW cmd \in Commands,
           NEW kind \in BareKinds, NEW k \in Channels, NEW ackReq \in BOOLEAN,
           ReceiveBare(c, s, cmd, kind, k, ackReq)
    PROVE  CountExact(Core)' /\ AckTruthful'
<1> DEFINE events == kind = "refused" /\ ackReq
           linked == Linked(c, s)
           acked == IF events THEN ClearPipelineEvents(linked, <<s, k>>) ELSE linked
           final == AfterClose(acked, s, cmd)
<1>1. /\ s \in SessionFor(c)
      /\ Become(final)
      /\ ack' = IF events THEN EventAck(linked, s, k, cmd, NoRequest)
                ELSE IF ackReq THEN StatusAck(linked, s, cmd) ELSE NoAck
  BY DEF ReceiveBare
<1>2. <<s, k>> \in Slots
  BY DEF Slots
<1>3. CoreInv(linked) /\ CountExact(linked)
  BY <1>1, LinkedInv, LinkedEffect DEF CountInv
<1> HIDE DEF linked
<1>4. CoreInv(acked) /\ CountExact(acked) /\ acked.channel = linked.channel
  <2>1. CASE events
    BY <1>2, <1>3, <2>1, ClearPipelineEventsInv, ClearPipelineEventsSameOpen, SameOpenExact
  <2>2. CASE ~events
    BY <1>3, <2>2
  <2> QED
    BY <2>1, <2>2
<1> HIDE DEF acked
<1>5. CoreInv(final) /\ CountExact(final)
  <2>1. CoreInv(Reset(acked, {s}))
    BY <1>4, ResetInv
  <2> QED
    BY <1>4, <2>1, AfterCloseExact DEF AfterClose
<1>6. cmd # "CLOSE" => final.channel = linked.channel
  BY <1>4 DEF AfterClose
<1> HIDE DEF final
<1>7. Core' = final /\ channel' = final.channel
  BY <1>1, <1>5, BecomeCore DEF CoreInv, Become
<1>8. AckTruthful'
  <2>1. CASE events
    BY <1>1, <1>3, <1>6, <1>7, <2>1, EventAckTruth
  <2>2. CASE ~events /\ ackReq
    BY <1>1, <1>3, <1>6, <1>7, <2>2, StatusAckTruth
  <2>3. CASE ~events /\ ~ackReq
    BY <1>1, <2>3, OtherAckTruth
  <2> QED
    BY <2>1, <2>2, <2>3
<1>9. CountExact(Core)'
  BY <1>5, <1>7
<1> QED
  BY <1>8, <1>9

LEMMA CountInit == Init => CountInv
<1> SUFFICES ASSUME Init PROVE CountInv
  OBVIOUS
<1>1. CountExact(Core)
  <2> SUFFICES ASSUME NEW s \in Sessions
               PROVE  Core.openCount[s] = Cardinality(OpenOf(Core, s))
    BY DEF CountExact
  <2>1. \A k \in Channels : <<s, k>> \in Slots
    BY DEF Slots
  <2>2. OpenOf(Core, s) = {} /\ Core.openCount[s] = 0
    BY <2>1 DEF Init, Core, OpenOf, ClosedChannel
  <2> QED
    BY <2>2, FS_EmptySet
<1>2. AckTruthful
  BY DEF Init, NoAck, AckTruthful
<1> QED
  BY <1>1, <1>2, InitInv DEF CountInv

LEMMA CountNext == CountInv /\ [Next]_vars => CountInv'
<1> SUFFICES ASSUME CountInv, [Next]_vars
             PROVE  CountExact(Core)' /\ AckTruthful'
  BY NextInv DEF CountInv
<1>i. CoreInv(Core) /\ CountExact(Core) /\ IInv
  BY DEF CountInv, IInv
<1>r. ASSUME UNCHANGED routing PROVE CountExact(Core)'
  BY <1>i, <1>r, RoutingUnchanged
<1>a. ASSUME UNCHANGED <<channel, ack>> PROVE AckTruthful'
  BY <1>a DEF CountInv, AckTruthful
<1>1. ASSUME NEW c \in Clients, NEW s \in Sessions, NEW cmd \in Commands,
             NEW msg \in Messages, NEW ackReq \in BOOLEAN,
             ReceiveMessage(c, s, cmd, msg, ackReq)
      PROVE  CountExact(Core)' /\ AckTruthful'
  BY <1>1, ReceiveMessageCount
<1>2. ASSUME NEW c \in Clients, NEW s \in Sessions, NEW cmd \in Commands,
             NEW kind \in BareKinds, NEW k \in Channels, NEW ackReq \in BOOLEAN,
             ReceiveBare(c, s, cmd, kind, k, ackReq)
      PROVE  CountExact(Core)' /\ AckTruthful'
  BY <1>2, ReceiveBareCount
<1>3. ASSUME NEW c \in Clients, NEW ackReq \in BOOLEAN, NotConnected(c, ackReq)
      PROVE  CountExact(Core)' /\ AckTruthful'
  BY <1>3, <1>r, OtherAckTruth DEF NotConnected
<1>4. ASSUME NEW c \in Clients, Abort(c)
      PROVE  CountExact(Core)' /\ AckTruthful'
  <2>1. conn[c].session \in Sessions /\ ack' = NoAck /\ Become(Reset(Core, {conn[c].session}))
    BY <1>4, <1>i DEF Abort, IInv, SessInv, RestType, Connection
  <2>2. CoreInv(Reset(Core, {conn[c].session})) /\ CountExact(Reset(Core, {conn[c].session}))
    BY <1>i, <2>1, ResetInv, ResetExact
  <2>3. Core' = Reset(Core, {conn[c].session})
    BY <2>1, <2>2, BecomeCore DEF CoreInv
  <2> QED
    BY <2>1, <2>2, <2>3, OtherAckTruth
<1>5. CASE Housekeeping
  <2> DEFINE dead == LostSessions \cup IdleSessions
             reset == Reset(Core, dead)
  <2>1. ack' = NoAck /\ Become(RetryStop(reset))
    BY <1>5 DEF Housekeeping
  <2>2. dead \in SUBSET Sessions
    BY <1>i DEF IInv, SessInv, RestType, LostSessions, LostClients, IdleSessions, Connection
  <2>3. CoreInv(reset) /\ CountExact(reset)
    BY <1>i, <2>2, ResetInv, ResetExact
  <2> HIDE DEF reset
  <2>4. CoreInv(RetryStop(reset)) /\ CountExact(RetryStop(reset))
    BY <2>3, RetryStopInv, StopSameOpen, SameOpenExact
  <2>5. Core' = RetryStop(reset)
    BY <2>1, <2>4, BecomeCore DEF CoreInv
  <2> QED
    BY <2>1, <2>4, <2>5, OtherAckTruth
<1>6. CASE Shutdown
  <2> DEFINE reset == Reset(Core, Sessions)
  <2>1. ack' = NoAck /\ Become(ForcedStop(reset))
    BY <1>6 DEF Shutdown
  <2>2. CoreInv(reset) /\ CountExact(reset)
    BY <1>i, ResetInv, ResetExact
  <2> HIDE DEF reset
  <2>3. CoreInv(ForcedStop(reset)) /\ CountExact(ForcedStop(reset))
    BY <2>2, ForcedStopInv, StopSameOpen, SameOpenExact
  <2>4. Core' = ForcedStop(reset)
    BY <2>1, <2>3, BecomeCore DEF CoreInv
  <2> QED
    BY <2>1, <2>3, <2>4, OtherAckTruth
<1>7. ASSUME NEW v \in Services, Drain(v)
      PROVE  CountExact(Core)' /\ AckTruthful'
  <2>1. UNCHANGED <<channel, openCount, ack>>
    BY <1>7 DEF Drain
  <2>2. SameOpen(Core, Core')
    BY <2>1 DEF SameOpen, Core
  <2> QED
    BY <1>a, <1>i, <2>1, <2>2, SameOpenExact
<1>8. CASE (\E c \in Clients : Vanish(c)) \/ SelectTimeout \/ Tick \/ UNCHANGED vars
  <2>1. UNCHANGED <<routing, ack>>
    BY <1>8 DEF Vanish, SelectTimeout, Tick, vars
  <2> QED
    BY <1>a, <1>r, <2>1 DEF routing
<1> QED
  BY <1>1, <1>2, <1>3, <1>4, <1>5, <1>6, <1>7, <1>8 DEF Next, Datagram, Terminated

(* The counter a session keeps of its open channels is their number: no    *)
(* close is counted twice, and none is missed.                             *)
THEOREM OpenCount == Spec => []OpenCountExact
<1>1. CountInv => OpenCountExact
  BY DEF CountInv, CountExact, OpenOf, Core, OpenCountExact
<1> QED
  BY <1>1, CountInit, CountNext, PTL DEF Spec

(* The flags of an acknowledgement, and the routing it confirms, are those *)
(* of the session after the handler ran.                                   *)
THEOREM AckTruth == Spec => []AckTruthful
<1>1. CountInv => AckTruthful
  BY DEF CountInv
<1> QED
  BY <1>1, CountInit, CountNext, PTL DEF Spec

-----------------------------------------------------------------------------
(* The server implements the leases of its services.                       *)

HeldIn(chs, v) == {p \in Slots : chs[p].service = v}

OwnerIn(chs, v) ==
    IF HeldIn(chs, v) = {} THEN NoSession ELSE (CHOOSE p \in HeldIn(chs, v) : TRUE)[1]

UniqueIn(chs) == \A v \in Services : \A p, q \in HeldIn(chs, v) : p = q

Leased == [v \in Services |-> Owner(v)]

LEMMA LeasedIn ==
    /\ Leased = [v \in Services |-> OwnerIn(channel, v)]
    /\ Leased' = [v \in Services |-> OwnerIn(channel', v)]
    /\ \A v \in Services : Leased[v] = OwnerIn(channel, v)
    /\ CoreInv(Core) => UniqueIn(channel)
    /\ CoreInv(Core)' => UniqueIn(channel')
BY ServicesAssumption
DEF Leased, Owner, Holders, OwnerIn, HeldIn, UniqueIn, CoreInv, HandlesUnique, Core

(* The owner of a held service is the session of its only holder.          *)
LEMMA OwnerOf ==
    ASSUME NEW chs, UniqueIn(chs), NEW v \in Services
    PROVE  /\ \A p \in Slots : chs[p].service = v => OwnerIn(chs, v) = p[1]
           /\ (\A p \in Slots : chs[p].service # v) <=> OwnerIn(chs, v) = NoSession
<1>1. \A p, q \in HeldIn(chs, v) : p = q
  BY DEF UniqueIn
<1>2. \A p \in HeldIn(chs, v) : p \in Slots /\ p[1] \in Sessions
  BY DEF HeldIn, Slots
<1>3. ASSUME NEW p \in HeldIn(chs, v) PROVE OwnerIn(chs, v) = p[1]
  <2>1. (CHOOSE q \in HeldIn(chs, v) : TRUE) \in HeldIn(chs, v)
    BY <1>3
  <2>2. (CHOOSE q \in HeldIn(chs, v) : TRUE) = p
    BY <1>1, <2>1
  <2> QED
    BY <2>2 DEF OwnerIn
<1>4. HeldIn(chs, v) = {} => OwnerIn(chs, v) = NoSession
  BY DEF OwnerIn
<1>5. \A p \in Slots : p \in HeldIn(chs, v) <=> chs[p].service = v
  BY DEF HeldIn
<1>6. HeldIn(chs, v) \subseteq Slots
  BY DEF HeldIn
<1> QED
  BY <1>2, <1>3, <1>4, <1>5, <1>6, SessionsAssumption

(* A step in which handles are only given back ends leases.                *)
LEMMA LeaseReleased ==
    ASSUME CoreInv(Core), CoreInv(Core)',
           \A q \in Slots : channel'[q].service \in {channel[q].service, NoService}
    PROVE  Lease!Next
<1> DEFINE S == {v \in Services : OwnerIn(channel, v) # NoSession
                                  /\ OwnerIn(channel', v) = NoSession}
<1>1. \A v \in S : Leased[v] # NoSession
  BY LeasedIn
<1>2. Leased' = [v \in Services |-> IF v \in S THEN NoSession ELSE Leased[v]]
  <2> SUFFICES ASSUME NEW v \in Services
               PROVE  OwnerIn(channel', v) = IF v \in S THEN NoSession ELSE OwnerIn(channel, v)
    BY LeasedIn
  <2>1. CASE OwnerIn(channel', v) = NoSession
    BY <2>1
  <2>2. CASE OwnerIn(channel', v) # NoSession
    <3>1. PICK p \in Slots : channel'[p].service = v
      BY <2>2, LeasedIn, OwnerOf
    <3>2. channel[p].service = v
      BY <3>1, ServicesAssumption
    <3> QED
      BY <2>2, <3>1, <3>2, LeasedIn, OwnerOf
  <2> QED
    BY <2>1, <2>2
<1>3. S \in SUBSET Services
  OBVIOUS
<1> HIDE DEF S
<1> QED
  BY <1>1, <1>2, <1>3 DEF Lease!Next, Lease!Release, Leased

(* A step in which slot p takes a free service, and may give back its own, *)
(* is a new lease of the session of p.                                     *)
LEMMA LeaseAcquired ==
    ASSUME CoreInv(Core), CoreInv(Core)', NEW p \in Slots, NEW v \in Services,
           channel'[p].service = v,
           \A q \in Slots : channel[q].service # v,
           \A q \in Slots \ {p} : channel'[q].service = channel[q].service
    PROVE  Lease!Next
<1> DEFINE s == p[1]
           S == {u \in Services : channel[p].service = u}
<1>1. s \in Sessions
  BY DEF Slots
<1>2. Leased[v] = NoSession
  BY LeasedIn, OwnerOf
<1>3. \A u \in S : Leased[u] = s
  BY LeasedIn, OwnerOf
<1>4. Leased' = [u \in Services |->
                   IF u = v THEN s ELSE IF u \in S THEN NoSession ELSE Leased[u]]
  <2> SUFFICES ASSUME NEW u \in Services
               PROVE  OwnerIn(channel', u) =
                        IF u = v THEN s ELSE IF u \in S THEN NoSession ELSE OwnerIn(channel, u)
    BY LeasedIn
  <2>0. UniqueIn(channel) /\ UniqueIn(channel')
    BY LeasedIn
  <2>1. CASE u = v
    BY <2>0, <2>1, OwnerOf
  <2>2. CASE u # v /\ u \in S
    <3>1. \A q \in Slots : channel'[q].service # u
      <4> SUFFICES ASSUME NEW q \in Slots, channel'[q].service = u PROVE FALSE
        OBVIOUS
      <4>1. q # p /\ channel[q].service = u
        BY <2>2
      <4> QED
        BY <2>0, <2>2, <4>1 DEF UniqueIn, HeldIn
    <3> QED
      BY <2>0, <2>2, <3>1, OwnerOf
  <2>3. CASE u # v /\ u \notin S
    <3>1. \A q \in Slots : channel'[q].service = u <=> channel[q].service = u
      BY <2>3
    <3>2. HeldIn(channel', u) = HeldIn(channel, u)
      BY <3>1 DEF HeldIn
    <3> QED
      BY <2>3, <3>2 DEF OwnerIn
  <2> QED
    BY <2>1, <2>2, <2>3
<1>5. S \in SUBSET Services
  OBVIOUS
<1> HIDE DEF S, s
<1> QED
  BY <1>1, <1>2, <1>3, <1>4, <1>5 DEF Lease!Next, Lease!Acquire, Leased

(* A channel message moves at most the lease of the channel it names.      *)
LEMMA ReceiveMessageLease ==
    ASSUME CountInv, CountInv', NEW c \in Clients, NEW s \in Sessions, NEW cmd \in Commands,
           NEW msg \in Messages, NEW ackReq \in BOOLEAN,
           ReceiveMessage(c, s, cmd, msg, ackReq)
    PROVE  Lease!Next
<1> DEFINE p == <<s, msg.channel>>
           linked == Linked(c, s)
           processed == ProcessChannelMessage(linked, p, msg)
           acked == IF ackReq THEN ClearPipelineEvents(processed, p) ELSE processed
           final == AfterClose(acked, s, cmd)
<1>1. s \in SessionFor(c) /\ Become(final)
  BY DEF ReceiveMessage
<1>2. p \in Slots /\ p[1] = s
  BY DEF Slots, Messages
<1>3. /\ CoreInv(linked) /\ CountExact(linked)
      /\ \A q \in Slots : linked.channel[q].service = channel[q].service
  BY <1>1, LinkedInv, LinkedEffect DEF CountInv
<1> HIDE DEF linked, p
<1>4. /\ CoreInv(processed) /\ OnlySlot(linked, processed, p)
      /\ TakesFree(linked, processed, p)
  BY <1>2, <1>3, ProcessChannelMessageInv, ProcessChannelMessageEffect
<1> HIDE DEF processed
<1>5. CoreInv(acked) /\ acked.channel = processed.channel
  BY <1>2, <1>4, ClearPipelineEventsInv
<1> HIDE DEF acked
<1>6. channel' = final.channel
  BY <1>1 DEF Become
<1>7. CoreInv(Core) /\ CoreInv(Core)'
  BY DEF CountInv, IInv
<1>8. CASE cmd = "CLOSE"
  <2>1. final = Reset(acked, {s})
    BY <1>8 DEF AfterClose
  <2>2. /\ CoreInv(final)
        /\ \A q \in Slots : q[1] = s => ~final.channel[q].open
        /\ \A q \in Slots : q[1] # s => final.channel[q] = acked.channel[q]
    BY <1>5, <2>1, ResetInv
  <2>3. \A q \in Slots : q[1] = s => final.channel[q].service = NoService
    BY <2>2 DEF CoreInv, ClosedClean
  <2>4. \A q \in Slots : channel'[q].service \in {channel[q].service, NoService}
    BY <1>2, <1>3, <1>4, <1>5, <1>6, <2>2, <2>3 DEF OnlySlot
  <2> QED
    BY <1>7, <2>4, LeaseReleased
<1>9. CASE cmd # "CLOSE"
  <2>1. channel' = processed.channel
    BY <1>5, <1>6, <1>9 DEF AfterClose
  <2>2. \A q \in Slots \ {p} : channel'[q].service = channel[q].service
    BY <1>3, <1>4, <2>1 DEF OnlySlot
  <2>3. processed.channel[p].service \in Services \cup {NoService}
    BY <1>2, <1>4 DEF CoreInv, CoreType, Channel
  <2>4. CASE processed.channel[p].service \in {channel[p].service, NoService}
    <3>1. \A q \in Slots : channel'[q].service \in {channel[q].service, NoService}
      BY <2>1, <2>2, <2>4
    <3> QED
      BY <1>7, <3>1, LeaseReleased
  <2>5. CASE processed.channel[p].service \notin {channel[p].service, NoService}
    <3>1. PICK v \in Services : processed.channel[p].service = v /\ channel[p].service # v
      BY <2>3, <2>5
    <3>2. \A q \in Slots : channel[q].service # v
      BY <1>2, <1>3, <1>4, <3>1 DEF TakesFree
    <3> QED
      BY <1>2, <1>7, <2>1, <2>2, <3>1, <3>2, LeaseAcquired
  <2> QED
    BY <2>4, <2>5
<1> QED
  BY <1>8, <1>9

(* A step that closes channels and changes no other: services come free.   *)
LEMMA ClosingLease ==
    ASSUME CountInv, CountInv', \A q \in Slots : channel'[q].service = channel[q].service
                                             \/ ~channel'[q].open
    PROVE  Lease!Next
<1>1. CoreInv(Core) /\ CoreInv(Core)'
  BY DEF CountInv, IInv
<1>2. \A q \in Slots : ~channel'[q].open => channel'[q].service = NoService
  BY <1>1 DEF CoreInv, ClosedClean, Core
<1> QED
  BY <1>1, <1>2, LeaseReleased

LEMMA LeaseInit == Init => Lease!Init
<1> SUFFICES ASSUME Init, NEW v \in Services
             PROVE  Owner(v) = NoSession
  BY DEF Lease!Init
<1>1. Holders(v) = {}
  BY ServicesAssumption DEF Init, Holders, ClosedChannel
<1> QED
  BY <1>1 DEF Owner

LEMMA LeaseNext == CountInv /\ CountInv' /\ [Next]_vars => [Lease!Next]_Leased
<1> SUFFICES ASSUME CountInv, CountInv', [Next]_vars
             PROVE  Lease!Next \/ Leased' = Leased
  OBVIOUS
<1>i. CoreInv(Core) /\ IInv /\ Core.channel = channel
  BY DEF CountInv, IInv, Core
<1>k. ASSUME channel' = channel PROVE Leased' = Leased
  BY <1>k DEF Leased, Owner, Holders
<1>1. ASSUME NEW c \in Clients, NEW s \in Sessions, NEW cmd \in Commands,
             NEW msg \in Messages, NEW ackReq \in BOOLEAN,
             ReceiveMessage(c, s, cmd, msg, ackReq)
      PROVE  Lease!Next
  BY <1>1, ReceiveMessageLease
<1>2. ASSUME NEW c \in Clients, NEW s \in Sessions, NEW cmd \in Commands,
             NEW kind \in BareKinds, NEW k \in Channels, NEW ackReq \in BOOLEAN,
             ReceiveBare(c, s, cmd, kind, k, ackReq)
      PROVE  Lease!Next
  <2> DEFINE linked == Linked(c, s)
             acked == IF kind = "refused" /\ ackReq
                      THEN ClearPipelineEvents(linked, <<s, k>>) ELSE linked
             final == AfterClose(acked, s, cmd)
  <2>1. s \in SessionFor(c) /\ Become(final)
    BY <1>2 DEF ReceiveBare
  <2>2. /\ CoreInv(linked)
        /\ \A q \in Slots : linked.channel[q].service = channel[q].service
    BY <2>1, LinkedInv, LinkedEffect DEF CountInv
  <2> HIDE DEF linked
  <2>3. CoreInv(acked) /\ acked.channel = linked.channel
    <3>1. <<s, k>> \in Slots
      BY DEF Slots
    <3> QED
      BY <2>2, <3>1, ClearPipelineEventsInv
  <2> HIDE DEF acked
  <2>4. \A q \in Slots : final.channel[q].service = channel[q].service
                         \/ ~final.channel[q].open
    BY <2>2, <2>3, ResetInv DEF AfterClose
  <2> QED
    BY <2>1, <2>4, ClosingLease DEF Become
<1>3. ASSUME NEW c \in Clients, Abort(c)
      PROVE  Lease!Next
  <2>1. conn[c].session \in Sessions /\ Become(Reset(Core, {conn[c].session}))
    BY <1>3, <1>i DEF Abort, IInv, SessInv, RestType, Connection
  <2>2. \A q \in Slots : channel'[q] = channel[q] \/ ~channel'[q].open
    BY <1>i, <2>1, ResetInv DEF Become
  <2> QED
    BY <2>2, ClosingLease
<1>4. CASE Housekeeping
  <2> DEFINE dead == LostSessions \cup IdleSessions
             reset == Reset(Core, dead)
  <2>1. Become(RetryStop(reset)) /\ dead \in SUBSET Sessions
    BY <1>4, <1>i DEF Housekeeping, IInv, SessInv, RestType, LostSessions, LostClients,
                      IdleSessions, Connection
  <2>2. CoreInv(reset) /\ \A q \in Slots : reset.channel[q] = channel[q] \/ ~reset.channel[q].open
    BY <1>i, <2>1, ResetInv
  <2> HIDE DEF reset
  <2>3. \A q \in Slots : channel'[q] = channel[q] \/ ~channel'[q].open
    BY <2>1, <2>2, RetryStopInv DEF Become
  <2> QED
    BY <2>3, ClosingLease
<1>5. CASE Shutdown
  <2> DEFINE reset == Reset(Core, Sessions)
  <2>1. Become(ForcedStop(reset))
    BY <1>5 DEF Shutdown
  <2>2. CoreInv(reset) /\ \A q \in Slots : reset.channel[q] = channel[q] \/ ~reset.channel[q].open
    BY <1>i, ResetInv
  <2> HIDE DEF reset
  <2>3. \A q \in Slots : channel'[q] = channel[q] \/ ~channel'[q].open
    BY <2>1, <2>2, ForcedStopInv DEF Become
  <2> QED
    BY <2>3, ClosingLease
<1>6. CASE \/ \E c \in Clients : Vanish(c) \/ \E ackReq \in BOOLEAN : NotConnected(c, ackReq)
           \/ SelectTimeout \/ Tick \/ UNCHANGED vars
           \/ \E v \in Services : Drain(v)
  BY <1>6, <1>k DEF Vanish, NotConnected, SelectTimeout, Tick, Drain, vars, routing
<1> QED
  BY <1>1, <1>2, <1>3, <1>4, <1>5, <1>6 DEF Next, Datagram, Terminated

(* The server implements the leases of ServiceLease: whatever messages,    *)
(* timeouts, aborts and shutdowns there are, a service goes from one       *)
(* session to another only after it was free.                              *)
THEOREM LeaseRefinement == Spec => LeaseSpec
<1>1. Init => Lease!Init
  BY LeaseInit
<1>2. CountInv /\ CountInv' /\ [Next]_vars => [Lease!Next]_([v \in Services |-> Owner(v)])
  BY LeaseNext DEF Leased
<1> QED
  BY <1>1, <1>2, CountInit, CountNext, PTL DEF Spec, LeaseSpec, Lease!Spec
==============================================================================
