---------------------------- MODULE GraphicInlets ----------------------------
(***************************************************************************)
(* The inlets of a laser projector service: what becomes of the channel    *)
(* messages of the client that holds the service.                          *)
(*                                                                         *)
(* The continuous inlet keeps a chronology and passes on the chunks that   *)
(* follow it; the discrete inlet puts frames together that came in         *)
(* fragments.  Both keep the configuration of the stream and the decoder   *)
(* built from it.  There is one of each, and what a release does not reset *)
(* is found by the next client.                                            *)
(*                                                                         *)
(* Clients come one after the other (module IDNServer has those that want  *)
(* the service at the same time).  The network loses, duplicates and       *)
(* reorders what the client sent within the last Window units of its time; *)
(* when it is not heard for Idle units it is timed out.  Each message      *)
(* advances the clock of its client by one.                                *)
(***************************************************************************)
EXTENDS Integers, Sequences

CONSTANTS
    Clients,
    NoClient,
    Modulus,    \* of timestamps: 2^32 in the code
    TooMany,    \* chronology errors that are borne: 10 in the code
    Fragments,  \* fragments that fit into 200000 bytes
    Window,     \* bound: how late the network delivers
    Idle        \* LINK_TIMEOUT_US

ASSUME ClientsAssumption == NoClient \notin Clients
ASSUME ModulusAssumption ==
    /\ Modulus \in Nat /\ Modulus % 2 = 0
    /\ Window \in Nat /\ Idle \in Nat
    /\ 2 * (Window + Idle) < Modulus
ASSUME BoundsAssumption == TooMany \in Nat /\ Fragments \in Nat \ {0, 1}

VARIABLES
    owner,     \* the client that holds the service
    current,   \* currentInlet, or "none"
    config,    \* of each inlet: the kept configuration and its decoder
    chron,     \* chronCheckValid, chronCheckTime, chronCheckErrCnt
    head,      \* reassemblyHead: the fragments in it
    held,      \* taxi buffers the inlets have neither passed nor discarded
    outcome,   \* what this step passed to the output
    stream,    \* the client that sends, and how far it is
    sent,      \* its messages that the network may still deliver
    quiet,     \* its time since it was heard, while it holds the service
    calm       \* from now on all messages arrive, in order

inlets == <<owner, current, config, chron, head, held>>
clients == <<stream, sent, quiet, calm>>
vars == <<inlets, outcome, clients>>

Inlets == {"continuous", "discrete"}
Times == 0 .. Modulus - 1

Versions == {0, 1}   \* the data match bits of configuration and chunks
Configs == [by : Clients, version : Versions]
NoConfig == [by |-> NoClient, version |-> 0]

(* The chunk types.  "odd" stands for the chunks no inlet takes: of an     *)
(* unknown type, of an odd length, with too few samples.                   *)
Kinds == {"void", "wave", "frame", "first", "sequel", "odd"}

(* A channel message; part and last are those of a fragment.  No decoder   *)
(* can be built from a bad configuration.                                  *)
Messages ==
    [by : Clients, kind : Kinds, time : Times, part : 1 .. Fragments + 1, last : BOOLEAN,
     config : {"none", "good", "bad"}, version : Versions]

(* What was passed to the output, and with which decoder.                  *)
Passed(fragments, decoder) == [passed |-> fragments, decoder |-> decoder]
Nothing == Passed(<<>>, NoConfig)

Chron == [valid : BOOLEAN, time : Times, errs : 0 .. TooMany + 1]
(* invalidateChronology                                                    *)
NoChron == [valid |-> FALSE, time |-> 0, errs |-> 0]

(* The client, the mode it asks for, its time, the version of its          *)
(* configuration, and the fragments it has sent of a frame.                *)
Stream ==
    [by : Clients, mode : Inlets, clock : Times, version : Versions, part : 0 .. Fragments]
NewStream(c, mode) == [by |-> c, mode |-> mode, clock |-> 0, version |-> 0, part |-> 0]

Wrap(t) == t % Modulus

(* (int32_t)(a - b)                                                        *)
Diff(a, b) ==
    LET d == Wrap(a - b) IN IF d < Modulus \div 2 THEN d ELSE d - Modulus

-----------------------------------------------------------------------------
(* What the inlets do with a message.                                      *)

(* Fault: only a first configuration is read.                              *)
ReadConfigOnce(kept, m) ==
    CASE kept # NoConfig \/ m.config = "none" -> kept
      [] kept = NoConfig /\ m.config = "good" -> [by |-> m.by, version |-> m.version]
      [] kept = NoConfig /\ m.config = "bad" -> NoConfig

(* IDNConfigInlet::readConfig: other words than the kept ones invalidate   *)
(* the configuration, and a decoder is built from the new ones if it can.  *)
ReadConfig(kept, m) ==
    CASE m.config = "good" -> [by |-> m.by, version |-> m.version]
      [] m.config = "bad" -> NoConfig
      [] m.config = "none" -> kept

(* Fault: the data match bits are not compared.                            *)
DecodableInAnyVersion(m, kept) == kept # NoConfig

(* Whether the decoder can do something with the chunk.                    *)
Decodable(m, kept) ==
    /\ kept # NoConfig
    /\ m.version = kept.version

(* chronCheckErrCnt after a chunk that is timeDiff early; a chunk in time  *)
(* makes up for an error.                                                  *)
Errors(timeDiff) ==
    CASE timeDiff # 0 -> chron.errs + 1
      [] timeDiff = 0 /\ chron.valid /\ chron.errs > 0 -> chron.errs - 1
      [] OTHER -> chron.errs

(* The end of IDNLaproGraConInlet::process: after too many errors the      *)
(* processing starts over with the next configuration.                     *)
ConEnd(kept, newChron) ==
    LET over == newChron.errs > TooMany
    IN  /\ config' = [config EXCEPT !["continuous"] = IF over THEN NoConfig ELSE kept]
        /\ chron' = IF over THEN NoChron ELSE newChron
        /\ UNCHANGED <<head, held>>

(* A chunk for the chronology.  One from the past is dropped.              *)
ConChunk(m, kept) ==
    LET timeDiff == IF chron.valid THEN Diff(m.time, chron.time) ELSE 0
    IN  /\ ConEnd(kept, [valid |-> TRUE, time |-> Wrap(m.time + 1), errs |-> Errors(timeDiff)])
        /\ outcome' = IF timeDiff < 0 THEN Nothing ELSE Passed(<<m>>, kept)

(* IDNLaproGraConInlet::process                                            *)
ConProcess(m) ==
    LET kept == ReadConfig(config["continuous"], m)
    IN  IF m.kind = "wave" /\ Decodable(m, kept)
        THEN ConChunk(m, kept)
        ELSE ConEnd(kept, chron) /\ outcome' = Nothing

(* reassemblySeqNum, while there is a head                                 *)
SeqNum == Wrap(head[Len(head)].time + 1)

(* IDNLaproGraDisInlet::reassemble: the head it leaves, the message it     *)
(* lets through as the fragments it consists of, and how many taxi buffers *)
(* it discards.                                                            *)
Reassembly(newHead, through, freed) ==
    [head |-> newHead, through |-> through, freed |-> freed]

(* A first fragment becomes the head, in place of any other.               *)
First(m) == Reassembly(<<m>>, <<>>, Len(head))

(* Fault: any fragment of a running reassembly is taken for the next one.  *)
SequelUnordered(m) ==
    CASE head = <<>> -> Reassembly(<<>>, <<>>, 1)
      [] head # <<>> /\ Len(head) >= Fragments ->
            Reassembly(<<>>, <<>>, Len(head) + 1)
      [] OTHER -> IF m.last THEN Reassembly(<<>>, Append(head, m), 0)
                  ELSE Reassembly(Append(head, m), <<>>, 0)

Sequel(m) ==
    CASE head = <<>> -> Reassembly(<<>>, <<>>, 1)
      [] head # <<>> /\ (m.time # SeqNum \/ Len(head) >= Fragments) ->
            Reassembly(<<>>, <<>>, Len(head) + 1)
      [] OTHER -> IF m.last THEN Reassembly(<<>>, Append(head, m), 0)
                  ELSE Reassembly(Append(head, m), <<>>, 0)

(* Any other message ends a reassembly, but for a void one that is not     *)
(* ahead of it.                                                            *)
Whole(m) ==
    IF head # <<>> /\ (m.kind # "void" \/ Diff(m.time, SeqNum) > 0)
    THEN Reassembly(<<>>, <<m>>, Len(head))
    ELSE Reassembly(head, <<m>>, 0)

Reassemble(m) ==
    CASE m.kind = "first" -> First(m)
      [] m.kind = "sequel" -> Sequel(m)
      [] OTHER -> Whole(m)

(* IDNLaproGraDisInlet::process; a frame put together has the header, and  *)
(* hence the configuration, of its first fragment.                         *)
DisProcess(m) ==
    LET r == Reassemble(m)
        lead == r.through[1]
        kept == IF r.through = <<>> THEN config["discrete"]
                ELSE ReadConfig(config["discrete"], lead)
        passed == r.through # <<>> /\ lead.kind \in {"frame", "first"} /\ Decodable(lead, kept)
    IN  /\ head' = r.head
        /\ held' = held + 1 - r.freed - Len(r.through)
        /\ config' = [config EXCEPT !["discrete"] = kept]
        /\ outcome' = IF passed THEN Passed(r.through, kept) ELSE Nothing
        /\ UNCHANGED chron

-----------------------------------------------------------------------------
(* The messages of a client, as the network delivers them.                 *)

(* IDNSession connects the channel of a message with a routing request to  *)
(* the service and passes on what comes from the connected client.         *)
Accepted(m) == owner # NoClient \/ m.config # "none"

(* In the end nothing is delivered twice.                                  *)
Delivered(m) == IF calm THEN sent \ {m} ELSE sent

Receive(m) ==
    /\ Accepted(m)
    /\ IF stream.mode = "continuous" THEN ConProcess(m) ELSE DisProcess(m)
    /\ owner' = m.by
    /\ current' = stream.mode
    /\ quiet' = 0
    /\ sent' = Delivered(m)
    /\ UNCHANGED <<stream, calm>>

(* Fault: the reset forgets the fragments without discarding them.         *)
ResetLeaks(inlet) ==
    IF inlet = "continuous"
    THEN /\ config' = [config EXCEPT ![inlet] = NoConfig]
         /\ UNCHANGED <<head, held>>
    ELSE /\ head' = <<>>
         /\ UNCHANGED <<config, held>>

(* IDNLaproService::releaseInlet when the channel is closed, by a message, *)
(* an abort or a timeout, with the reset of the inlet: that of the         *)
(* continuous one does not know of the chronology, that of the discrete    *)
(* one leaves the configuration alone.                                     *)
Reset(inlet) ==
    IF inlet = "continuous"
    THEN /\ config' = [config EXCEPT ![inlet] = NoConfig]
         /\ UNCHANGED <<head, held>>
    ELSE /\ head' = <<>>
         /\ held' = held - Len(head)
         /\ UNCHANGED config

Release ==
    /\ owner # NoClient
    /\ calm => sent = {} /\ quiet = Idle
    /\ Reset(current)
    /\ owner' = NoClient
    /\ current' = "none"
    /\ outcome' = Nothing
    /\ quiet' = 0
    /\ UNCHANGED <<chron, stream, sent, calm>>

-----------------------------------------------------------------------------
(* What clients send, and what the network does.                           *)

(* Another client comes, or this one comes back, with a clock of its own.  *)
(* All ask for one mode: the inlets share nothing.  What was on its way of *)
(* an earlier stream is taken to be lost.                                  *)
Begin(c) ==
    /\ owner = NoClient /\ ~calm
    /\ stream' = NewStream(c, stream.mode)
    /\ sent' = {}
    /\ outcome' = Nothing
    /\ UNCHANGED <<inlets, quiet, calm>>

Message(kind, cfg, version, last) ==
    [by |-> stream.by, kind |-> kind, time |-> stream.clock, part |-> stream.part + 1,
     last |-> last, config |-> cfg, version |-> version]

KindsOf(mode, part) ==
    CASE mode = "continuous" -> {"void", "wave", "odd"}
      [] mode = "discrete" /\ part = 0 -> {"void", "frame", "first", "odd"}
      [] mode = "discrete" /\ part > 0 -> {"void", "sequel"}

(* A configuration comes with a void message, a whole chunk or a first     *)
(* fragment, and the version changes with it.  That of a message without   *)
(* data and configuration has no meaning.                                  *)
Consistent(m) ==
    /\ m.kind \in KindsOf(stream.mode, stream.part)
    /\ m.config # "none" => m.kind \notin {"sequel", "odd"}
    /\ m.config # "good" =>
          m.version = IF m.kind \in {"wave", "frame", "first"} THEN stream.version ELSE 0
    /\ m.last => m.kind = "sequel"
    /\ m.kind = "sequel" /\ m.part = Fragments + 1 => m.last

(* Nothing is wrong with what a client sends in the end.                   *)
Flawless(m) ==
    /\ m.config # "bad" /\ m.kind # "odd"
    /\ m.kind = "void" => m.part = 1
    /\ m.kind = "sequel" /\ m.part = Fragments => m.last

NextPart(m) ==
    CASE m.kind \in {"first", "sequel"} /\ ~m.last -> m.part
      [] m.kind = "sequel" /\ m.last -> 0
      [] OTHER -> m.part - 1

(* In the end a message is sent when the one before has arrived.           *)
Send(m) ==
    /\ Consistent(m)
    /\ calm => Flawless(m) /\ sent = {}
    /\ quiet < Idle
    /\ quiet' = IF owner = NoClient THEN 0 ELSE quiet + 1
    /\ stream' = [stream EXCEPT !.clock = Wrap(@ + 1),
                                !.version = IF m.config = "good" THEN m.version ELSE @,
                                !.part = NextPart(m)]
    /\ sent' = {x \in sent \cup {m} : Wrap(m.time - x.time) <= Window}
    /\ outcome' = Nothing
    /\ UNCHANGED <<inlets, calm>>

(* A message without effect on the service reaches the server.             *)
Ignore(m) ==
    /\ calm /\ ~Accepted(m)
    /\ sent' = Delivered(m)
    /\ outcome' = Nothing
    /\ UNCHANGED <<inlets, stream, quiet, calm>>

(* From now on the network is in order.                                    *)
Calm ==
    /\ ~calm /\ stream.part = 0
    /\ calm' = TRUE
    /\ sent' = {}
    /\ outcome' = Nothing
    /\ UNCHANGED <<inlets, stream, quiet>>

(* The chronology of the continuous inlet is not initialised.              *)
Init ==
    /\ owner = NoClient /\ current = "none"
    /\ config = [i \in Inlets |-> NoConfig]
    /\ stream \in {NewStream(c, mode) : c \in Clients, mode \in Inlets}
    /\ chron \in IF stream.mode = "continuous" THEN Chron ELSE {NoChron}
    /\ head = <<>> /\ held = 0
    /\ outcome = Nothing
    /\ sent = {}
    /\ quiet = 0
    /\ calm = FALSE

SendSome ==
    \E kind \in Kinds, cfg \in {"none", "good", "bad"}, version \in Versions, last \in BOOLEAN :
       Send(Message(kind, cfg, version, last))

Deliver == \E m \in sent : Receive(m) \/ Ignore(m)

Next ==
    \/ SendSome
    \/ Deliver
    \/ Calm
    \/ Release
    \/ \E c \in Clients : Begin(c)

(* A client that streams repeats its configuration with its chunks, the    *)
(* network delivers in the end, and a channel nobody uses is timed out.    *)
SendConfigured ==
    \E kind \in {"wave", "frame"}, version \in Versions :
       Send(Message(kind, "good", version, FALSE))

Fairness ==
    /\ WF_vars(calm /\ SendSome)
    /\ SF_vars(calm /\ SendConfigured)
    /\ WF_vars(calm /\ Deliver)
    /\ WF_vars(calm /\ Release)

Spec == Init /\ [][Next]_vars /\ Fairness

-----------------------------------------------------------------------------
(* Properties.                                                             *)

(* Every variable has its type.                                            *)
TypeOK ==
    /\ owner \in Clients \cup {NoClient}
    /\ current \in Inlets \cup {"none"}
    /\ config \in [Inlets -> Configs \cup {NoConfig}]
    /\ chron \in Chron
    /\ head \in Seq(Messages) /\ Len(head) <= Fragments
    /\ held \in Int
    /\ outcome.passed \in Seq(Messages)
    /\ outcome.decoder \in Configs \cup {NoConfig}
    /\ stream \in Stream
    /\ sent \subseteq Messages
    /\ quiet \in 0 .. Idle
    /\ calm \in BOOLEAN

(* Fragments of one frame of one client, in order from the first.          *)
OneFrame(fragments) ==
    \A k \in 1 .. Len(fragments) :
        /\ fragments[k].by = fragments[1].by
        /\ fragments[k].part = k
        /\ fragments[k].time = Wrap(fragments[1].time + k - 1)
        /\ fragments[k].last => k = Len(fragments)

(* What the discrete inlet shows of fragments is a frame as its client     *)
(* sent it, from the first fragment to the last, whatever was lost, came   *)
(* twice or out of order, and whichever client was there before.           *)
FramesWhole ==
    Len(outcome.passed) > 1 => OneFrame(outcome.passed)
                            /\ outcome.passed[Len(outcome.passed)].last

(* All taxi buffers that were neither passed nor discarded are in the      *)
(* reassembly of the client that holds the discrete inlet.                 *)
BuffersReturned ==
    /\ held = Len(head)
    /\ current # "discrete" => held = 0
    /\ \A k \in 1 .. Len(head) : head[k].by = owner

(* The continuous inlet never plays a chunk with the configuration of      *)
(* another client, and no inlet plays one in another version than its own. *)
(* (The discrete inlet does keep a configuration from client to client.)   *)
OwnConfig ==
    \A k \in 1 .. Len(outcome.passed) :
        /\ outcome.passed[k].kind = "wave" => outcome.decoder.by = outcome.passed[k].by
        /\ outcome.decoder.version = outcome.passed[1].version

(* A client whose messages arrive in order, after whatever happened        *)
(* before, and whatever the chronology was, is shown again and again.      *)
OrderIsShown == []<>(calm => outcome.passed # <<>> /\ owner # NoClient)
=============================================================================
