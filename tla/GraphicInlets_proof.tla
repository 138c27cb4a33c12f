------------------------- MODULE GraphicInlets_proof -------------------------
(***************************************************************************)
(* Proofs about GraphicInlets: its types, that every taxi buffer is        *)
(* returned, that the continuous inlet plays no chunk with the             *)
(* configuration of another client, and that the discrete inlet shows      *)
(* whole frames.                                                           *)
(*                                                                         *)
(* The first three rest on one fact: the inlet in use serves the client    *)
(* that sends, and a release leaves nothing behind that the next client    *)
(* could take for its own: no fragment, and no configuration of the        *)
(* continuous inlet.  The last one is about time: what is in the network,  *)
(* and the reassembly, is younger than half of the range of the            *)
(* timestamps, so that a sequence number means one message only.           *)
(***************************************************************************)
EXTENDS GraphicInlets, TLAPS

(* The service belongs to the client that sends, in the mode it asked for. *)
Served ==
    /\ owner \in {NoClient, stream.by}
    /\ current = IF owner = NoClient THEN "none" ELSE stream.mode
    /\ \A m \in sent : m.by = stream.by

(* The reassembly consists of fragments.                                   *)
Fragmented == \A k \in 1 .. Len(head) : head[k].kind \in {"first", "sequel"}

(* The configuration of the continuous inlet is the owner's.               *)
Configured ==
    config["continuous"] # NoConfig => current = "continuous" /\ config["continuous"].by = owner

IInv == TypeOK /\ Served /\ Fragmented /\ Configured /\ BuffersReturned /\ OwnConfig

USE ClientsAssumption

LEMMA WrapType == \A t \in Int : Wrap(t) \in Times
  BY ModulusAssumption DEF Wrap, Times

LEMMA DiffType == \A a, b \in Times : Diff(a, b) \in Int
  BY WrapType, ModulusAssumption DEF Diff, Times

LEMMA NoChronType == NoChron \in Chron
  BY ModulusAssumption, BoundsAssumption DEF NoChron, Chron, Times

LEMMA NothingIs ==
    Nothing.passed = <<>> /\ Nothing.decoder = NoConfig /\ Nothing.passed \in Seq(Messages)
  BY DEF Nothing, Passed

(* What is read is the message's configuration or the kept one.            *)
LEMMA ReadConfigType ==
  ASSUME NEW kept \in Configs \cup {NoConfig}, NEW m \in Messages
  PROVE  /\ ReadConfig(kept, m) \in Configs \cup {NoConfig}
         /\ ReadConfig(kept, m) \in {kept, NoConfig, [by |-> m.by, version |-> m.version]}
<1>1. CASE m.config = "good"
  BY <1>1 DEF ReadConfig, Messages, Configs
<1>2. CASE m.config = "bad"
  BY <1>2 DEF ReadConfig
<1>3. CASE m.config = "none"
  BY <1>3 DEF ReadConfig
<1> QED
  BY <1>1, <1>2, <1>3 DEF Messages

LEMMA ErrorsType ==
  ASSUME TypeOK, NEW timeDiff \in Int
  PROVE  Errors(timeDiff) \in Nat
  BY BoundsAssumption DEF Errors, TypeOK, Chron

(* reassemble keeps count of the buffers, and what it keeps or lets        *)
(* through is the message or was kept before.                              *)
LEMMA ReassembleResult ==
  ASSUME head \in Seq(Messages), Len(head) <= Fragments, NEW m \in Messages
  PROVE  LET r == Reassemble(m)
             Kept(x) == \E j \in 1 .. Len(head) : x = head[j]
             IsFragment == m.kind \in {"first", "sequel"}
         IN  /\ r.head \in Seq(Messages) /\ Len(r.head) <= Fragments
             /\ r.through \in Seq(Messages)
             /\ r.freed \in Nat
             /\ Len(head) + 1 = r.freed + Len(r.through) + Len(r.head)
             /\ \A k \in 1 .. Len(r.head) : Kept(r.head[k]) \/ (r.head[k] = m /\ IsFragment)
             /\ \/ r.through = <<>>
                \/ r.through = <<m>> /\ ~IsFragment
                \/ \A k \in 1 .. Len(r.through) :
                      Kept(r.through[k]) \/ (r.through[k] = m /\ IsFragment)
<1> USE BoundsAssumption DEF Reassembly
<1>a. /\ <<m>> \in Seq(Messages) /\ Len(<<m>>) = 1 /\ \A k \in 1 .. Len(<<m>>) : <<m>>[k] = m
      /\ <<>> \in Seq(Messages) /\ Len(<<>>) = 0 /\ Len(head) \in Nat
  OBVIOUS
<1>1. CASE m.kind = "first"
  <2>1. Reassemble(m) = First(m)
    BY <1>1 DEF Reassemble
  <2>2. First(m).head = <<m>> /\ First(m).through = <<>> /\ First(m).freed = Len(head)
    BY DEF First
  <2> QED
    BY <1>1, <1>a, <2>1, <2>2
<1>2. CASE m.kind = "sequel"
  <2>1. Reassemble(m) = Sequel(m)
    BY <1>2 DEF Reassemble
  <2>2. CASE head = <<>>
    <3>1. Sequel(m) = Reassembly(<<>>, <<>>, 1)
      BY <2>2 DEF Sequel
    <3> QED
      BY <1>a, <2>1, <2>2, <3>1
  <2>3. CASE head # <<>> /\ (m.time # SeqNum \/ Len(head) >= Fragments)
    BY <1>2, <2>1, <2>3 DEF Sequel
  <2>4. CASE head # <<>> /\ ~(m.time # SeqNum \/ Len(head) >= Fragments)
    <3>1. Append(head, m) \in Seq(Messages) /\ Len(Append(head, m)) = Len(head) + 1
      OBVIOUS
    <3>2. \A k \in 1 .. Len(Append(head, m)) :
             (k \in 1 .. Len(head) /\ Append(head, m)[k] = head[k]) \/ Append(head, m)[k] = m
      OBVIOUS
    <3>3. Sequel(m) = IF m.last THEN Reassembly(<<>>, Append(head, m), 0)
                      ELSE Reassembly(Append(head, m), <<>>, 0)
      BY <2>4 DEF Sequel
    <3> QED
      BY <1>2, <2>1, <2>4, <3>1, <3>2, <3>3
  <2> QED
    BY <2>2, <2>3, <2>4
<1>3. CASE m.kind \notin {"first", "sequel"}
  <2>1. Reassemble(m) = Whole(m)
    BY <1>3 DEF Reassemble
  <2> QED
    BY <1>3, <2>1 DEF Whole
<1> QED
  BY <1>1, <1>2, <1>3

LEMMA InitInv == Init => IInv
<1> SUFFICES ASSUME Init PROVE IInv
  OBVIOUS
<1>1. /\ owner = NoClient /\ current = "none" /\ sent = {} /\ head = <<>> /\ held = 0
      /\ outcome = Nothing /\ quiet = 0 /\ calm = FALSE
      /\ config = [i \in Inlets |-> NoConfig]
  BY DEF Init
<1>a. stream \in Stream
  <2>1. PICK c \in Clients, mode \in Inlets : stream = NewStream(c, mode)
    BY DEF Init
  <2>2. 0 \in Times /\ 0 \in Versions /\ 0 \in 0 .. Fragments
    BY ModulusAssumption, BoundsAssumption DEF Times, Versions
  <2> QED
    BY <2>1, <2>2 DEF NewStream, Stream
<1>2. chron \in Chron
  <2>1. NoChron \in Chron
    BY NoChronType
  <2>2. chron \in Chron \cup {NoChron}
    BY DEF Init
  <2> QED
    BY <2>1, <2>2
<1>3. TypeOK
  <2>1. quiet \in 0 .. Idle
    BY <1>1, ModulusAssumption
  <2>4. calm \in BOOLEAN
    BY <1>1
  <2>2. head \in Seq(Messages) /\ Len(head) <= Fragments /\ held \in Int
    BY <1>1, BoundsAssumption
  <2>3. config \in [Inlets -> Configs \cup {NoConfig}]
    BY <1>1
  <2> QED
    BY <1>1, <1>a, <1>2, <2>1, <2>2, <2>3, <2>4, NothingIs DEF TypeOK
<1>4. Served /\ Fragmented /\ Configured /\ BuffersReturned
  BY <1>1 DEF Served, Fragmented, Configured, BuffersReturned, Inlets
<1>5. OwnConfig
  BY <1>1, NothingIs DEF OwnConfig
<1> QED
  BY <1>3, <1>4, <1>5 DEF IInv

(* The continuous inlet: either the decoder is the client's and of the     *)
(* chunk's version, or nothing is passed on.                               *)
LEMMA ConReceive ==
  ASSUME IInv, NEW m \in sent, Accepted(m), m.by = stream.by, ConProcess(m)
  PROVE  /\ config' \in [Inlets -> Configs \cup {NoConfig}]
         /\ config'["continuous"] # NoConfig => config'["continuous"].by = m.by
         /\ chron' \in Chron
         /\ UNCHANGED <<head, held>>
         /\ outcome'.passed \in Seq(Messages) /\ outcome'.decoder \in Configs \cup {NoConfig}
         /\ OwnConfig'
<1> DEFINE kept == ReadConfig(config["continuous"], m)
<1>1. m \in Messages /\ config["continuous"] \in Configs \cup {NoConfig} /\ chron \in Chron
  BY DEF IInv, TypeOK, Inlets
<1>2. kept \in Configs \cup {NoConfig} /\ (kept # NoConfig => kept.by = m.by)
  <2>1. kept \in {config["continuous"], NoConfig, [by |-> m.by, version |-> m.version]}
    BY <1>1, ReadConfigType
  <2>2. config["continuous"] # NoConfig => config["continuous"].by = m.by
    BY <1>1 DEF IInv, Configured, Served, Configs
  <2> QED
    BY <1>1, <2>1, <2>2, ReadConfigType
<1> HIDE DEF kept
<1>3. ASSUME NEW newChron, newChron.errs \in Nat, newChron.errs <= TooMany => newChron \in Chron, ConEnd(kept, newChron)
      PROVE  /\ config' \in [Inlets -> Configs \cup {NoConfig}]
             /\ config'["continuous"] # NoConfig => config'["continuous"].by = m.by
             /\ chron' \in Chron
             /\ UNCHANGED <<head, held>>
  <2>1. config \in [Inlets -> Configs \cup {NoConfig}] /\ "continuous" \in Inlets
    BY DEF IInv, TypeOK, Inlets
  <2>3. /\ config' \in {[config EXCEPT !["continuous"] = NoConfig],
                        [config EXCEPT !["continuous"] = kept]}
        /\ chron' = NoChron \/ (chron' = newChron /\ ~(newChron.errs > TooMany))
        /\ UNCHANGED <<head, held>>
    BY <1>3 DEF ConEnd
  <2>4. chron' \in Chron
    BY <1>3, <2>3, NoChronType, BoundsAssumption
  <2> QED
    BY <1>2, <2>1, <2>3, <2>4
<1>4. CASE m.kind = "wave" /\ Decodable(m, kept)
  <2> DEFINE timeDiff == IF chron.valid THEN Diff(m.time, chron.time) ELSE 0
             newChron == [valid |-> TRUE, time |-> Wrap(m.time + 1), errs |-> Errors(timeDiff)]
  <2>1. ConChunk(m, kept)
    BY <1>4 DEF ConProcess, kept
  <2>2. ConEnd(kept, newChron)
    BY <2>1 DEF ConChunk
  <2>3. outcome' \in {Nothing, Passed(<<m>>, kept)}
    BY <2>1 DEF ConChunk
  <2>5. newChron.errs \in Nat /\ (newChron.errs <= TooMany => newChron \in Chron)
    <3>1. timeDiff \in Int
      BY <1>1, DiffType DEF Chron, Messages
    <3>2. Errors(timeDiff) \in Nat
      BY <3>1, ErrorsType DEF IInv
    <3>3. Wrap(m.time + 1) \in Times
      BY <1>1, WrapType, ModulusAssumption DEF Messages, Times
    <3> QED
      BY <3>2, <3>3, BoundsAssumption DEF Chron
  <2>6. kept # NoConfig /\ m.version = kept.version
    BY <1>4 DEF Decodable
  <2>7. outcome'.passed \in Seq(Messages) /\ outcome'.decoder \in Configs \cup {NoConfig} /\ OwnConfig'
    <3>1. CASE outcome' = Nothing
      BY <3>1, NothingIs DEF OwnConfig
    <3>2. CASE outcome' = Passed(<<m>>, kept)
      <4>1. outcome'.passed = <<m>> /\ outcome'.decoder = kept
        BY <3>2 DEF Passed
      <4> QED
        BY <1>1, <1>2, <2>6, <4>1 DEF OwnConfig
    <3> QED
      BY <2>3, <3>1, <3>2
  <2> QED
    BY <1>3, <2>2, <2>5, <2>7
<1>5. CASE ~(m.kind = "wave" /\ Decodable(m, kept))
  <2>1. ConEnd(kept, chron) /\ outcome' = Nothing
    BY <1>5 DEF ConProcess, kept
  <2>2. chron.errs \in Nat
    BY <1>1, BoundsAssumption DEF Chron
  <2> QED
    BY <1>1, <1>3, <2>1, <2>2, NothingIs DEF OwnConfig
<1> QED
  BY <1>4, <1>5

(* The discrete inlet: all fragments and buffers are accounted for.        *)
LEMMA DisReceive ==
  ASSUME IInv, NEW m \in sent, Accepted(m), m.by = stream.by,
         current \in {"none", "discrete"}, DisProcess(m)
  PROVE  /\ config' \in [Inlets -> Configs \cup {NoConfig}]
         /\ config'["continuous"] = config["continuous"]
         /\ chron' = chron
         /\ head' \in Seq(Messages) /\ Len(head') <= Fragments
         /\ held' = Len(head')
         /\ \A k \in 1 .. Len(head') : head'[k].by = m.by
         /\ Fragmented'
         /\ outcome'.passed \in Seq(Messages) /\ outcome'.decoder \in Configs \cup {NoConfig}
         /\ OwnConfig'
<1> DEFINE r == Reassemble(m)
           lead == r.through[1]
           kept == IF r.through = <<>> THEN config["discrete"] ELSE ReadConfig(config["discrete"], lead)
           passed == r.through # <<>> /\ lead.kind \in {"frame", "first"} /\ Decodable(lead, kept)
<1>1. m \in Messages /\ head \in Seq(Messages) /\ Len(head) <= Fragments /\ held = Len(head)
  BY DEF IInv, TypeOK, BuffersReturned
<1>2. \A k \in 1 .. Len(head) : head[k].by = m.by /\ head[k].kind \in {"first", "sequel"}
  <2>1. owner # NoClient \/ Len(head) = 0
    BY <1>1 DEF IInv, Served, BuffersReturned
  <2> QED
    BY <1>1, <2>1 DEF IInv, Served, BuffersReturned, Fragmented
<1>3. /\ r.head \in Seq(Messages) /\ Len(r.head) <= Fragments
      /\ r.through \in Seq(Messages)
      /\ r.freed \in Nat
      /\ Len(head) + 1 = r.freed + Len(r.through) + Len(r.head)
      /\ \A k \in 1 .. Len(r.head) :
            (\E j \in 1 .. Len(head) : r.head[k] = head[j])
               \/ (r.head[k] = m /\ m.kind \in {"first", "sequel"})
      /\ \/ r.through = <<>>
         \/ r.through = <<m>> /\ m.kind \notin {"first", "sequel"}
         \/ \A k \in 1 .. Len(r.through) :
               (\E j \in 1 .. Len(head) : r.through[k] = head[j])
                  \/ (r.through[k] = m /\ m.kind \in {"first", "sequel"})
  BY <1>1, ReassembleResult
<1>4. /\ head' = r.head
      /\ held' = held + 1 - r.freed - Len(r.through)
      /\ config' = [config EXCEPT !["discrete"] = kept]
      /\ outcome' = IF passed THEN Passed(r.through, kept) ELSE Nothing
      /\ UNCHANGED chron
  BY DEF DisProcess
<1> HIDE DEF r
<1>5. config \in [Inlets -> Configs \cup {NoConfig}] /\ "discrete" \in Inlets /\ "continuous" \in Inlets
  BY DEF IInv, TypeOK, Inlets
<1>6. kept \in Configs \cup {NoConfig}
  <2>1. CASE r.through = <<>>
    BY <2>1, <1>5
  <2>2. CASE r.through # <<>>
    <3>1. lead \in Messages
      BY <2>2, <1>3
    <3> QED
      BY <2>2, <3>1, <1>5, ReadConfigType
  <2> QED
    BY <2>1, <2>2
<1>7. /\ config' \in [Inlets -> Configs \cup {NoConfig}]
      /\ config'["continuous"] = config["continuous"]
  <2> HIDE DEF kept
  <2> QED
    BY <1>4, <1>5, <1>6
<1>8. head' \in Seq(Messages) /\ Len(head') <= Fragments /\ held' = Len(head')
  <2>1. head' = r.head /\ held' = Len(head) + 1 - r.freed - Len(r.through)
    BY <1>1, <1>4
  <2>2. /\ Len(head) \in Nat /\ Len(r.head) \in Nat /\ Len(r.through) \in Nat /\ r.freed \in Nat
        /\ Len(head) + 1 = r.freed + Len(r.through) + Len(r.head)
    BY <1>1, <1>3
  <2>3. held' = Len(r.head)
    <3> DEFINE a == Len(head)
               b == r.freed
               c == Len(r.through)
               d == Len(r.head)
    <3>1. /\ a \in Nat /\ b \in Nat /\ c \in Nat /\ d \in Nat
          /\ a + 1 = b + c + d /\ held' = a + 1 - b - c
      BY <2>1, <2>2
    <3> HIDE DEF a, b, c, d
    <3>2. held' = d
      BY <3>1
    <3> QED
      BY <3>2 DEF d
  <2> QED
    BY <1>3, <2>1, <2>3
<1>9. \A k \in 1 .. Len(head') : head'[k].by = m.by /\ head'[k].kind \in {"first", "sequel"}
  BY <1>2, <1>3, <1>4
<1>10. /\ outcome'.passed \in Seq(Messages) /\ outcome'.decoder \in Configs \cup {NoConfig}
       /\ OwnConfig'
  <2>1. CASE ~passed
    <3> HIDE DEF passed
    <3>1. outcome' = Nothing
      BY <2>1, <1>4
    <3> QED
      BY <3>1, NothingIs DEF OwnConfig
  <2>2. CASE passed
    <3>1. outcome'.passed = r.through /\ outcome'.decoder = kept
      BY <2>2, <1>4 DEF Passed
    <3>2. lead.version = kept.version /\ lead.kind # "wave" /\ r.through # <<>>
      BY <2>2 DEF Decodable
    <3>3. \A k \in 1 .. Len(r.through) : r.through[k].kind # "wave"
      <4>1. CASE r.through = <<m>>
        BY <3>2, <4>1
      <4>2. CASE r.through # <<m>>
        BY <1>2, <1>3, <3>2, <4>2
      <4> QED
        BY <4>1, <4>2
    <3> HIDE DEF kept
    <3> QED
      BY <1>3, <1>6, <3>1, <3>2, <3>3 DEF OwnConfig
  <2> QED
    BY <2>1, <2>2
<1> QED
  BY <1>4, <1>7, <1>8, <1>9, <1>10 DEF Fragmented

LEMMA ReceiveInv == ASSUME IInv, NEW m \in sent, Receive(m) PROVE IInv'
<1>1. /\ Accepted(m) /\ m.by = stream.by /\ m \in Messages
      /\ owner' = m.by /\ current' = stream.mode /\ quiet' = 0
      /\ sent' \subseteq sent /\ stream' = stream /\ calm' = calm
  BY DEF Receive, Delivered, IInv, Served, TypeOK
<1>2. stream.by \in Clients /\ stream.mode \in Inlets
  BY DEF IInv, TypeOK, Stream
<1>3. /\ config' \in [Inlets -> Configs \cup {NoConfig}]
      /\ config'["continuous"] # NoConfig
            => stream.mode = "continuous" /\ config'["continuous"].by = m.by
      /\ chron' \in Chron
      /\ head' \in Seq(Messages) /\ Len(head') <= Fragments
      /\ held' = Len(head')
      /\ \A k \in 1 .. Len(head') : head'[k].by = m.by
      /\ stream.mode # "discrete" => held' = 0
      /\ Fragmented'
      /\ outcome'.passed \in Seq(Messages) /\ outcome'.decoder \in Configs \cup {NoConfig}
      /\ OwnConfig'
  <2>1. CASE stream.mode = "continuous"
    <3>1. ConProcess(m)
      BY <2>1 DEF Receive
    <3>2. held = 0 /\ held = Len(head)
      BY <2>1 DEF IInv, Served, BuffersReturned
    <3>3. head = <<>> /\ head \in Seq(Messages) /\ Len(head) <= Fragments
      BY <3>2, BoundsAssumption DEF IInv, TypeOK
    <3>4. /\ config' \in [Inlets -> Configs \cup {NoConfig}]
          /\ config'["continuous"] # NoConfig => config'["continuous"].by = m.by
          /\ chron' \in Chron
          /\ UNCHANGED <<head, held>>
          /\ outcome'.passed \in Seq(Messages) /\ outcome'.decoder \in Configs \cup {NoConfig}
          /\ OwnConfig'
      BY <1>1, <3>1, ConReceive
    <3>5. head' = <<>> /\ Len(head') = 0 /\ held' = 0
      BY <3>2, <3>3, <3>4
    <3>6. Fragmented'
      BY <3>5 DEF Fragmented
    <3> QED
      BY <2>1, <3>2, <3>3, <3>4, <3>5, <3>6
  <2>2. CASE stream.mode = "discrete"
    <3>1. DisProcess(m) /\ current \in {"none", "discrete"}
      BY <2>2 DEF Receive, IInv, Served
    <3>2. config["continuous"] = NoConfig
      BY <3>1 DEF IInv, Configured
    <3>3. chron \in Chron
      BY DEF IInv, TypeOK
    <3> QED
      BY <1>1, <2>2, <3>1, <3>2, <3>3, DisReceive
  <2> QED
    BY <1>2, <2>1, <2>2 DEF Inlets
<1>4. TypeOK'
  <2>1. quiet' \in 0 .. Idle /\ calm' \in BOOLEAN /\ stream' \in Stream /\ sent' \subseteq Messages
    BY <1>1, ModulusAssumption DEF IInv, TypeOK
  <2> QED
    BY <1>1, <1>2, <1>3, <2>1 DEF TypeOK
<1>5. Served'
  BY <1>1, <1>2 DEF IInv, Served
<1>6. Configured' /\ BuffersReturned'
  BY <1>1, <1>3 DEF Configured, BuffersReturned
<1> QED
  BY <1>3, <1>4, <1>5, <1>6 DEF IInv

(* A release leaves no fragment and no configuration for the next client.  *)
LEMMA ReleaseInv == ASSUME IInv, Release PROVE IInv'
<1>1. /\ owner \in Clients /\ owner = stream.by /\ current = stream.mode
      /\ current \in Inlets /\ Reset(current)
      /\ owner' = NoClient /\ current' = "none" /\ outcome' = Nothing /\ quiet' = 0
      /\ UNCHANGED <<chron, stream, sent, calm>>
  BY DEF Release, IInv, Served, TypeOK, Stream
<1>2. /\ config \in [Inlets -> Configs \cup {NoConfig}] /\ "continuous" \in Inlets
      /\ head \in Seq(Messages) /\ Len(head) <= Fragments /\ held = Len(head)
      /\ config["continuous"] \in Configs \cup {NoConfig}
  BY DEF IInv, TypeOK, BuffersReturned, Inlets
<1>3. /\ config' \in [Inlets -> Configs \cup {NoConfig}]
      /\ config'["continuous"] = NoConfig
      /\ head' = <<>> /\ held' = 0
  <2>1. CASE current = "continuous"
    <3>1. held = 0
      BY <2>1 DEF IInv, BuffersReturned
    <3>2. head = <<>>
      <4>1. head \in Seq(Messages) /\ Len(head) = 0
        BY <1>2, <3>1
      <4> QED
        BY <4>1
    <3>3. /\ config' = [config EXCEPT !["continuous"] = NoConfig]
          /\ UNCHANGED <<head, held>>
      BY <1>1, <2>1 DEF Reset
    <3> QED
      BY <1>2, <3>1, <3>2, <3>3
  <2>2. CASE current = "discrete"
    <3>1. config["continuous"] = NoConfig
      BY <2>2 DEF IInv, Configured
    <3>2. head' = <<>> /\ held' = held - Len(head) /\ UNCHANGED config
      BY <1>1, <2>2 DEF Reset
    <3> QED
      BY <1>2, <3>1, <3>2
  <2> QED
    BY <1>1, <2>1, <2>2 DEF Inlets
<1>4. TypeOK'
  <2>1. /\ quiet' \in 0 .. Idle /\ calm' \in BOOLEAN /\ stream' \in Stream /\ sent' \subseteq Messages
        /\ chron' \in Chron /\ head' \in Seq(Messages) /\ Len(head') <= Fragments
    BY <1>1, <1>3, ModulusAssumption, BoundsAssumption DEF IInv, TypeOK
  <2> QED
    BY <1>1, <1>3, <2>1, NothingIs DEF TypeOK
<1>5. Served' /\ Fragmented' /\ BuffersReturned' /\ OwnConfig'
  BY <1>1, <1>3, NothingIs DEF IInv, Served, Fragmented, BuffersReturned, OwnConfig
<1>6. Configured'
  BY <1>3 DEF Configured
<1> QED
  BY <1>4, <1>5, <1>6 DEF IInv

(* The next client finds the service free and nothing of the one before.   *)
LEMMA BeginInv == ASSUME IInv, NEW c \in Clients, Begin(c) PROVE IInv'
<1>1. /\ owner = NoClient /\ stream' = NewStream(c, stream.mode) /\ sent' = {} /\ outcome' = Nothing
      /\ UNCHANGED <<owner, current, config, chron, head, held, quiet, calm>>
  BY DEF Begin, inlets
<1>2. stream' \in Stream
  <2>1. 0 \in Times /\ 0 \in Versions /\ 0 \in 0 .. Fragments
    BY ModulusAssumption, BoundsAssumption DEF Times, Versions
  <2> QED
    BY <1>1, <2>1 DEF NewStream, Stream, IInv, TypeOK
<1>3. TypeOK'
  BY <1>1, <1>2, NothingIs DEF IInv, TypeOK
<1>4. Served' /\ Fragmented' /\ Configured' /\ BuffersReturned' /\ OwnConfig'
  BY <1>1, NothingIs DEF IInv, Served, Fragmented, Configured, BuffersReturned, OwnConfig
<1> QED
  BY <1>3, <1>4 DEF IInv

LEMMA SendInv ==
  ASSUME IInv, NEW kind \in Kinds, NEW cfg \in {"none", "good", "bad"}, NEW version \in Versions,
         NEW last \in BOOLEAN, Send(Message(kind, cfg, version, last))
  PROVE  IInv'
<1> DEFINE m == Message(kind, cfg, version, last)
<1>1. stream \in Stream /\ sent \subseteq Messages /\ quiet \in 0 .. Idle
  BY DEF IInv, TypeOK
<1>2. /\ m \in Messages /\ m.by = stream.by /\ m.part = stream.part + 1
      /\ m.kind = kind /\ m.config = cfg /\ m.version = version /\ m.last = last
  BY <1>1, BoundsAssumption DEF Message, Messages, Stream
<1> HIDE DEF m
<1>3. /\ Consistent(m) /\ quiet < Idle
      /\ quiet' = IF owner = NoClient THEN 0 ELSE quiet + 1
      /\ stream' = [stream EXCEPT !.clock = Wrap(@ + 1),
                                  !.version = IF m.config = "good" THEN m.version ELSE @,
                                  !.part = NextPart(m)]
      /\ sent' \subseteq sent \cup {m}
      /\ outcome' = Nothing
      /\ UNCHANGED <<owner, current, config, chron, head, held, calm>>
  BY DEF Send, inlets, m
<1>4. NextPart(m) \in 0 .. Fragments
  <2>1. stream.part \in 0 .. Fragments
    BY <1>1 DEF Stream
  <2>2. m.kind = "first" => stream.part = 0
    BY <1>1, <1>3 DEF Consistent, KindsOf, Stream, Inlets
  <2>3. m.kind = "sequel" /\ ~m.last => m.part # Fragments + 1
    BY <1>3 DEF Consistent
  <2> QED
    BY <1>2, <2>1, <2>2, <2>3, BoundsAssumption DEF NextPart
<1>5. stream' \in Stream /\ stream'.by = stream.by /\ stream'.mode = stream.mode
  <2>1. Wrap(stream.clock + 1) \in Times
    BY <1>1, WrapType, ModulusAssumption DEF Stream, Times
  <2> QED
    BY <1>1, <1>2, <1>3, <1>4, <2>1 DEF Stream
<1>6. TypeOK'
  <2>1. quiet' \in 0 .. Idle
    BY <1>1, <1>3, ModulusAssumption
  <2>2. sent' \subseteq Messages
    BY <1>1, <1>2, <1>3
  <2> QED
    BY <1>3, <1>5, <2>1, <2>2, NothingIs DEF IInv, TypeOK
<1>7. Served' /\ Fragmented' /\ Configured' /\ BuffersReturned' /\ OwnConfig'
  BY <1>2, <1>3, <1>5, NothingIs
     DEF IInv, Served, Fragmented, Configured, BuffersReturned, OwnConfig
<1> QED
  BY <1>6, <1>7 DEF IInv

(* A message that is ignored, and the calm, touch no inlet.                *)
LEMMA NetworkInv == ASSUME IInv, Calm \/ \E m \in sent : Ignore(m) PROVE IInv'
<1>1. /\ sent' \subseteq sent /\ outcome' = Nothing /\ calm' \in BOOLEAN
      /\ UNCHANGED <<owner, current, config, chron, head, held, stream, quiet>>
  <2>1. CASE Calm
    BY <2>1 DEF Calm, inlets
  <2>2. ASSUME NEW m \in sent, Ignore(m)
        PROVE  /\ sent' \subseteq sent /\ outcome' = Nothing /\ calm' = calm
               /\ UNCHANGED <<owner, current, config, chron, head, held, stream, quiet>>
    BY <2>2 DEF Ignore, Delivered, inlets
  <2> QED
    BY <2>1, <2>2 DEF IInv, TypeOK
<1>2. TypeOK'
  BY <1>1, NothingIs DEF IInv, TypeOK
<1>3. Served' /\ Fragmented' /\ Configured' /\ BuffersReturned' /\ OwnConfig'
  BY <1>1, NothingIs DEF IInv, Served, Fragmented, Configured, BuffersReturned, OwnConfig
<1> QED
  BY <1>2, <1>3 DEF IInv

LEMMA NextInv == IInv /\ [Next]_vars => IInv'
<1> SUFFICES ASSUME IInv, [Next]_vars PROVE IInv'
  OBVIOUS
<1>1. CASE UNCHANGED vars
  BY <1>1 DEF IInv, vars, inlets, clients, TypeOK, Served, Fragmented, Configured,
              BuffersReturned, OwnConfig
<1>2. CASE SendSome
  BY <1>2, SendInv DEF SendSome
<1>3. CASE Deliver
  BY <1>3, ReceiveInv, NetworkInv DEF Deliver
<1>4. CASE Calm
  BY <1>4, NetworkInv
<1>5. CASE Release
  BY <1>5, ReleaseInv
<1>6. CASE \E c \in Clients : Begin(c)
  BY <1>6, BeginInv
<1> QED
  BY <1>1, <1>2, <1>3, <1>4, <1>5, <1>6 DEF Next

(* Every variable keeps its type.                                          *)
THEOREM SpecTypeOK == Spec => []TypeOK
<1>1. IInv => TypeOK
  BY DEF IInv
<1> QED
  BY <1>1, InitInv, NextInv, PTL DEF Spec

(* Whatever is lost, doubled or out of order, the discrete inlet discards  *)
(* or passes every taxi buffer once, and reset leaves none for the next    *)
(* client.                                                                 *)
THEOREM SpecBuffersReturned == Spec => []BuffersReturned
<1>1. IInv => BuffersReturned
  BY DEF IInv
<1> QED
  BY <1>1, InitInv, NextInv, PTL DEF Spec

(* The continuous inlet plays no chunk with the configuration of another   *)
(* client or of another version.                                           *)
THEOREM SpecOwnConfig == Spec => []OwnConfig
<1>1. IInv => OwnConfig
  BY DEF IInv
<1> QED
  BY <1>1, InitInv, NextInv, PTL DEF Spec

-----------------------------------------------------------------------------
(* Arithmetic of the timestamps.                                           *)

LEMMA Margin ==
    /\ Modulus \in Nat /\ Modulus \div 2 \in Nat
    /\ Modulus = 2 * (Modulus \div 2)
    /\ Window \in Nat /\ Idle \in Nat
    /\ Window + Idle + 1 <= Modulus \div 2
<1>1. Modulus \in Nat /\ Modulus % 2 = 0 /\ Window \in Nat /\ Idle \in Nat
      /\ 2 * (Window + Idle) < Modulus
  BY ModulusAssumption
<1>2. \A n \in Nat : n % 2 = 0 => n = 2 * (n \div 2) /\ n \div 2 \in Nat
  BY SMT
<1> QED
  BY <1>1, <1>2

LEMMA WrapIs ==
    /\ \A t \in Times : Wrap(t) = t
    /\ \A t \in Times : Wrap(t + 1) = IF t = Modulus - 1 THEN 0 ELSE t + 1
    /\ \A a, b \in Times : Wrap(a - b) = IF a >= b THEN a - b ELSE a - b + Modulus
<1>1. Modulus \in Nat /\ Modulus >= 2
  BY Margin
<1>2. \A t \in Int : 0 <= t /\ t < Modulus => t % Modulus = t
  BY <1>1, SMT
<1>3. \A t \in Int : 0 <= t + Modulus /\ t + Modulus < Modulus => t % Modulus = t + Modulus
  BY <1>1, SMT
<1>4. Modulus % Modulus = 0
  BY <1>1, SMT
<1>5. ASSUME NEW t \in Times
      PROVE  Wrap(t) = t /\ Wrap(t + 1) = IF t = Modulus - 1 THEN 0 ELSE t + 1
  BY <1>1, <1>2, <1>4, <1>5 DEF Wrap, Times
<1>6. ASSUME NEW a \in Times, NEW b \in Times
      PROVE  Wrap(a - b) = IF a >= b THEN a - b ELSE a - b + Modulus
  BY <1>1, <1>2, <1>3, <1>6 DEF Wrap, Times
<1> QED
  BY <1>5, <1>6

LEMMA Remainder ==
  \A M \in Nat, q \in Int, r \in Int : M > 0 /\ 0 <= r /\ r < M => (M * q + r) % M = r
<1> SUFFICES ASSUME NEW M \in Nat, NEW q \in Int, NEW r \in Int, M > 0, 0 <= r, r < M
             PROVE  (M * q + r) % M = r
  OBVIOUS
<1> DEFINE t == M * q + r
           p == t \div M
           x == t % M
<1>1. t \in Int
  OBVIOUS
<1>2. p \in Int /\ x \in Int /\ t = M * p + x /\ 0 <= x /\ x < M
  BY <1>1, SMT
<1> HIDE DEF p, x
<1>3. M * (q - p) = x - r
  BY <1>2, SMT
<1>4. q - p = 0
  <2>1. CASE q - p >= 1
    <3>1. M * (q - p) >= M
      BY <2>1, <1>2, SMT
    <3> QED
      BY <3>1, <1>2, <1>3
  <2>2. CASE q - p <= -1
    <3>1. M * (q - p) <= -M
      BY <2>2, <1>2, SMT
    <3> QED
      BY <3>1, <1>2, <1>3
  <2> QED
    BY <2>1, <2>2, <1>2
<1> QED
  BY <1>2, <1>3, <1>4, SMT DEF x

LEMMA WrapTwice == \A t \in Int : Wrap(Wrap(t) + 1) = Wrap(t + 1)
<1> SUFFICES ASSUME NEW t \in Int PROVE Wrap(Wrap(t) + 1) = Wrap(t + 1)
  OBVIOUS
<1> DEFINE q == t \div Modulus
           r == t % Modulus
<1>1. Modulus \in Nat /\ Modulus >= 2
  BY Margin
<1>2. q \in Int /\ r \in Int /\ t = Modulus * q + r /\ 0 <= r /\ r < Modulus
  BY <1>1, SMT
<1>3. r \in Times /\ Wrap(t) = r
  BY <1>1, <1>2 DEF Times, Wrap
<1> HIDE DEF q, r
<1>4. CASE r = Modulus - 1
  <2>1. t + 1 = Modulus * (q + 1) + 0
    BY <1>1, <1>2, <1>4, SMT
  <2>2. Wrap(t + 1) = 0
    BY <1>1, <1>2, <2>1, Remainder DEF Wrap
  <2> QED
    BY <1>3, <1>4, <2>2, WrapIs
<1>5. CASE r # Modulus - 1
  <2>1. t + 1 = Modulus * q + (r + 1)
    BY <1>1, <1>2, SMT
  <2>2. Wrap(t + 1) = r + 1
    BY <1>1, <1>2, <1>5, <2>1, Remainder DEF Wrap
  <2> QED
    BY <1>3, <1>5, <2>2, WrapIs
<1> QED
  BY <1>4, <1>5

(* How long ago, by the clock of the client, the time t was.               *)
AgeAt(clock, t) == Wrap(clock - t)
Age(t) == AgeAt(stream.clock, t)

(* A message grows one unit older with the next one, which is one old.     *)
LEMMA AgeNext ==
  ASSUME NEW clock \in Times, NEW t \in Times
  PROVE  /\ AgeAt(clock, t) \in Times
         /\ AgeAt(clock, t) < Modulus - 1 => AgeAt(Wrap(clock + 1), t) = AgeAt(clock, t) + 1
         /\ AgeAt(Wrap(clock + 1), clock) = 1
<1>1. Modulus \in Nat /\ Modulus >= 2
  BY Margin
<1> DEFINE s == Wrap(clock + 1)
<1>2. s \in Times /\ s = IF clock = Modulus - 1 THEN 0 ELSE clock + 1
  BY WrapType, WrapIs DEF Times
<1>3. \A a, u \in Times : AgeAt(a, u) = IF a >= u THEN a - u ELSE a - u + Modulus
  BY WrapIs DEF AgeAt
<1>4. AgeAt(clock, t) \in Times
  BY <1>1, <1>3 DEF Times
<1>5. AgeAt(s, clock) = 1
  <2>1. AgeAt(s, clock) = IF s >= clock THEN s - clock ELSE s - clock + Modulus
    BY <1>2, <1>3
  <2> QED
    BY <1>1, <1>2, <2>1 DEF Times
<1>6. AgeAt(clock, t) < Modulus - 1 => AgeAt(s, t) = AgeAt(clock, t) + 1
  <2>1. /\ AgeAt(s, t) = IF s >= t THEN s - t ELSE s - t + Modulus
        /\ AgeAt(clock, t) = IF clock >= t THEN clock - t ELSE clock - t + Modulus
    BY <1>2, <1>3
  <2> QED
    BY <1>1, <1>2, <2>1 DEF Times
<1> QED
  BY <1>4, <1>5, <1>6

(* What has the time after t is one unit younger than t.                   *)
LEMMA AgeFollows ==
  ASSUME NEW clock \in Times, NEW t \in Times
  PROVE  /\ Wrap(t + 1) = clock <=> AgeAt(clock, t) = 1
         /\ \A u \in Times : AgeAt(clock, u) < Modulus - 1 =>
               (u = Wrap(t + 1) <=> AgeAt(clock, t) = AgeAt(clock, u) + 1)
         /\ AgeAt(clock, Wrap(clock + 1)) = Modulus - 1
<1>1. Modulus \in Nat /\ Modulus >= 2
  BY Margin
<1> DEFINE s == Wrap(t + 1)
<1>2. s \in Times /\ s = IF t = Modulus - 1 THEN 0 ELSE t + 1
  BY WrapType, WrapIs DEF Times
<1>3. \A u \in Times : AgeAt(clock, u) = IF clock >= u THEN clock - u ELSE clock - u + Modulus
  BY WrapIs DEF AgeAt
<1>4. AgeAt(clock, Wrap(clock + 1)) = Modulus - 1
  <2>1. Wrap(clock + 1) \in Times
    BY WrapType DEF Times
  <2> QED
    BY <1>1, <1>3, <2>1, WrapIs DEF Times
<1>5. s = clock <=> AgeAt(clock, t) = 1
  BY <1>1, <1>2, <1>3 DEF Times
<1>6. ASSUME NEW u \in Times, AgeAt(clock, u) < Modulus - 1
      PROVE  u = s <=> AgeAt(clock, t) = AgeAt(clock, u) + 1
  BY <1>1, <1>2, <1>3, <1>6 DEF Times
<1> QED
  BY <1>4, <1>5, <1>6

(* The signed difference of two times is that of their ages, as long as    *)
(* the ages are within half of the modulus of each other.                  *)
LEMMA DiffAge ==
  ASSUME NEW clock \in Times, NEW x \in Times, NEW t \in Times,
         AgeAt(clock, t) - 1 - AgeAt(clock, x) < Modulus \div 2,
         AgeAt(clock, t) - 1 - AgeAt(clock, x) >= -(Modulus \div 2)
  PROVE  Diff(x, Wrap(t + 1)) = AgeAt(clock, t) - 1 - AgeAt(clock, x)
<1> DEFINE h == Modulus \div 2
           u == Wrap(t + 1)
           d == AgeAt(clock, t) - 1 - AgeAt(clock, x)
<1>1. Modulus = 2 * h /\ h \in Nat /\ h >= 1
  BY Margin
<1>2. u \in Times /\ u = IF t = Modulus - 1 THEN 0 ELSE t + 1
  BY WrapType, WrapIs DEF Times
<1>3. Diff(x, u) = IF Wrap(x - u) < h THEN Wrap(x - u) ELSE Wrap(x - u) - Modulus
  BY DEF Diff
<1>4. Wrap(x - u) = IF x >= u THEN x - u ELSE x - u + Modulus
  BY <1>2, WrapIs
<1>5. /\ AgeAt(clock, t) = IF clock >= t THEN clock - t ELSE clock - t + Modulus
      /\ AgeAt(clock, x) = IF clock >= x THEN clock - x ELSE clock - x + Modulus
  BY WrapIs DEF AgeAt
<1>6. d < h /\ d >= -h
  OBVIOUS
<1>7. /\ clock \in Int /\ 0 <= clock /\ clock < Modulus
      /\ t \in Int /\ 0 <= t /\ t < Modulus
      /\ x \in Int /\ 0 <= x /\ x < Modulus
      /\ u \in Int
  BY <1>1, <1>2 DEF Times
<1> HIDE DEF h, u
<1>8. Diff(x, u) = d
  BY <1>1, <1>2, <1>3, <1>4, <1>5, <1>6, <1>7, SMT
<1> QED
  BY <1>8 DEF u

-----------------------------------------------------------------------------
(* Frames are put together as they were sent.                              *)

(* What comes next after fragment x, if it comes at all, is the next       *)
(* fragment of its frame: the client is at it, or has sent it.             *)
Followed(x) ==
    /\ Wrap(x.time + 1) = stream.clock => stream.part = x.part
    /\ \A y \in sent :
          y.kind = "sequel" /\ y.time = Wrap(x.time + 1) => y.part = x.part + 1

(* The messages of the network are of the last Window times, fragments     *)
(* among them in the order of their frames.                                *)
SentInOrder ==
    \A x \in sent :
        /\ Age(x.time) \in 1 .. Window + 1
        /\ x.kind = "first" => x.part = 1 /\ ~x.last
        /\ x.kind \in {"first", "sequel"} /\ ~x.last => Followed(x)

(* The reassembly has the first fragments of one frame, and the last one   *)
(* of these is not so old that its sequence number could be met again: a   *)
(* void message that leaves it alone is at most as late as its successor.  *)
HeadInOrder ==
    head # <<>> =>
        /\ OneFrame(head)
        /\ ~head[Len(head)].last
        /\ Age(head[Len(head)].time) \in 1 .. Window + 2 + quiet
        /\ Followed(head[Len(head)])

FrameInv == IInv /\ SentInOrder /\ HeadInOrder /\ FramesWhole

LEMMA HeadEmpty == IInv /\ current # "discrete" => head = <<>>
<1> SUFFICES ASSUME IInv, current # "discrete" PROVE head = <<>>
  OBVIOUS
<1>1. head \in Seq(Messages) /\ Len(head) = 0
  BY DEF IInv, TypeOK, BuffersReturned
<1> QED
  BY <1>1

(* Fragments keep their order when nothing is sent.                        *)
LEMMA OrderKept ==
  ASSUME stream' = stream, sent' \subseteq sent
  PROVE  /\ \A x : Followed(x) => Followed(x)'
         /\ \A t : Age(t)' = Age(t)
         /\ SentInOrder => SentInOrder'
BY DEF Followed, Age, SentInOrder

(* What follows a fragment is sent after it, while it is young enough.     *)
LEMMA FollowedNext ==
  ASSUME NEW m, m.time = stream.clock, m.part = stream.part + 1,
         stream \in Stream, stream'.clock = Wrap(stream.clock + 1), sent' \subseteq sent \cup {m},
         NEW x \in Messages, Followed(x),
         Age(x.time) >= 1, Age(x.time) < Modulus - 1
  PROVE  Followed(x)' /\ Age(x.time)' = Age(x.time) + 1
<1>1. stream.clock \in Times /\ x.time \in Times /\ stream'.clock \in Times
  BY WrapType DEF Stream, Messages, Times
<1>2. Age(x.time)' = Age(x.time) + 1 /\ Age(x.time) \in Times
  BY <1>1, AgeNext DEF Age
<1>3. Age(x.time)' # 1
  BY <1>2, Margin DEF Times
<1>4. Wrap(x.time + 1) # stream'.clock
  BY <1>1, <1>3, AgeFollows DEF Age
<1>5. ASSUME NEW y \in sent', y.kind = "sequel", y.time = Wrap(x.time + 1)
      PROVE  y.part = x.part + 1
  <2>1. CASE y \in sent
    BY <1>5, <2>1 DEF Followed
  <2>2. CASE y = m
    BY <1>5, <2>2 DEF Followed
  <2> QED
    BY <2>1, <2>2
<1> QED
  BY <1>2, <1>4, <1>5 DEF Followed

LEMMA SendFrames ==
  ASSUME FrameInv, NEW kind \in Kinds, NEW cfg \in {"none", "good", "bad"},
         NEW version \in Versions, NEW last \in BOOLEAN,
         NEW m, m = Message(kind, cfg, version, last), Send(m)
  PROVE  SentInOrder' /\ HeadInOrder'
<1>1. /\ stream \in Stream /\ sent \subseteq Messages /\ quiet \in 0 .. Idle
      /\ head \in Seq(Messages)
  BY DEF FrameInv, IInv, TypeOK
<1>2. /\ m \in Messages /\ m.time = stream.clock /\ m.part = stream.part + 1
      /\ stream.part \in 0 .. Fragments
  BY <1>1, BoundsAssumption DEF Message, Messages, Stream
<1>3. /\ Consistent(m) /\ quiet < Idle
      /\ quiet' = IF owner = NoClient THEN 0 ELSE quiet + 1
      /\ stream' = [stream EXCEPT !.clock = Wrap(@ + 1),
                                  !.version = IF m.config = "good" THEN m.version ELSE @,
                                  !.part = NextPart(m)]
      /\ sent' = {x \in sent \cup {m} : Wrap(m.time - x.time) <= Window}
      /\ head' = head
  BY DEF Send, inlets
<1>4. /\ stream'.clock = Wrap(stream.clock + 1) /\ stream'.part = NextPart(m)
      /\ stream.clock \in Times
      /\ sent' \subseteq sent \cup {m}
  BY <1>1, <1>3 DEF Stream
<1>5. Window + 1 < Modulus - 1 /\ Window \in Nat /\ Idle \in Nat /\ Modulus \in Nat
      /\ Window + 1 + Idle < Modulus - 1
  BY <1>1, <1>3, Margin
<1>6. /\ m.kind = "first" => m.part = 1 /\ ~m.last
      /\ m.kind \in {"first", "sequel"} /\ ~m.last => NextPart(m) = m.part
  BY <1>1, <1>2, <1>3 DEF Consistent, KindsOf, NextPart, Stream, Inlets
<1>7. SentInOrder'
  <2> SUFFICES ASSUME NEW x \in sent'
               PROVE  /\ Age(x.time)' \in 1 .. Window + 1
                      /\ x.kind = "first" => x.part = 1 /\ ~x.last
                      /\ x.kind \in {"first", "sequel"} /\ ~x.last => Followed(x)'
    BY DEF SentInOrder
  <2>1. x \in sent \cup {m} /\ x \in Messages /\ x.time \in Times
    BY <1>1, <1>2, <1>3 DEF Messages
  <2>2. Age(x.time) \in Times /\ Age(x.time) <= Window
    BY <1>2, <1>3, <1>4, <2>1, AgeNext DEF Age, AgeAt
  <2>3. Age(x.time)' \in 1 .. Window + 1
    <3>0. AgeAt(stream.clock, x.time) < Modulus - 1
      BY <1>5, <2>2 DEF Age, Times
    <3>1. Age(x.time)' = Age(x.time) + 1
      BY <1>4, <2>1, <3>0, AgeNext DEF Age
    <3> QED
      BY <1>5, <2>2, <3>1 DEF Times
  <2>4. CASE x \in sent
    <3>1. Age(x.time) >= 1 /\ Age(x.time) < Modulus - 1
      BY <1>5, <2>2, <2>4 DEF FrameInv, SentInOrder, Times
    <3>2. /\ x.kind = "first" => x.part = 1 /\ ~x.last
          /\ x.kind \in {"first", "sequel"} /\ ~x.last => Followed(x)
      BY <2>4 DEF FrameInv, SentInOrder
    <3> QED
      BY <1>1, <1>2, <1>4, <2>1, <2>3, <3>1, <3>2, FollowedNext
  <2>5. CASE x = m
    <3>1. ASSUME m.kind \in {"first", "sequel"}, ~m.last PROVE Followed(m)'
      <4>1. stream'.part = m.part
        BY <1>4, <1>6, <3>1
      <4>2. ASSUME NEW y \in sent', y.time = Wrap(m.time + 1) PROVE FALSE
        <5>1. Age(y.time) = Modulus - 1
          BY <1>2, <1>4, <4>2, AgeFollows DEF Age
        <5>2. y \in Messages /\ Age(y.time) <= Window
          BY <1>1, <1>2, <1>3 DEF Age, AgeAt
        <5> QED
          BY <1>5, <5>1, <5>2
      <4> QED
        BY <4>1, <4>2 DEF Followed
    <3> QED
      BY <1>6, <2>3, <2>5, <3>1
  <2> QED
    BY <2>1, <2>4, <2>5
<1>8. HeadInOrder'
  <2> SUFFICES ASSUME head # <<>> PROVE HeadInOrder'
    BY <1>3 DEF HeadInOrder
  <2>0. PICK h : h = head[Len(head)]
    OBVIOUS
  <2>1. h \in Messages /\ h.time \in Times
    <3>1. h \in Messages
      BY <1>1, <2>0
    <3> QED
      BY <3>1 DEF Messages
  <2>2. /\ OneFrame(head) /\ ~h.last /\ Followed(h)
        /\ Age(h.time) \in 1 .. Window + 2 + quiet
    BY <2>0 DEF FrameInv, HeadInOrder
  <2>3. quiet' = quiet + 1
    <3>1. owner # NoClient
      BY HeadEmpty DEF FrameInv, IInv, Served
    <3> QED
      BY <1>3, <3>1
  <2>4. Age(h.time) >= 1 /\ Age(h.time) < Modulus - 1
    BY <1>1, <1>3, <1>5, <2>2
  <2>5. Followed(h)' /\ Age(h.time)' = Age(h.time) + 1
    BY <1>1, <1>2, <1>4, <2>1, <2>2, <2>4, FollowedNext
  <2>6. Age(h.time)' \in 1 .. Window + 2 + quiet'
    BY <1>1, <1>5, <2>2, <2>3, <2>5
  <2> QED
    BY <1>3, <2>0, <2>2, <2>5, <2>6 DEF HeadInOrder
<1> QED
  BY <1>7, <1>8

(* What the discrete inlet does with its head, and what it passes on.      *)
LEMMA DisHead ==
  ASSUME IInv, NEW m \in Messages, DisProcess(m)
  PROVE  \/ head' = <<>> /\ outcome'.passed \in {<<>>, <<m>>}
         \/ head' = <<m>> /\ m.kind = "first" /\ outcome'.passed = <<>>
         \/ /\ head # <<>> /\ m.kind = "sequel" /\ m.time = SeqNum /\ Len(head) < Fragments
            /\ \/ head' = Append(head, m) /\ ~m.last /\ outcome'.passed = <<>>
               \/ head' = <<>> /\ m.last /\ outcome'.passed \in {<<>>, Append(head, m)}
         \/ /\ head' = head /\ outcome'.passed \in {<<>>, <<m>>}
            /\ head # <<>> => m.kind = "void" /\ ~(Diff(m.time, SeqNum) > 0)
<1> DEFINE r == Reassemble(m)
<1>1. head' = r.head /\ outcome'.passed \in {<<>>, r.through}
  BY NothingIs DEF DisProcess, Passed
<1>2. r.through = <<>> => outcome'.passed = <<>>
  BY <1>1
<1>3. CASE m.kind = "first"
  <2>1. r = Reassembly(<<m>>, <<>>, Len(head))
    BY <1>3 DEF Reassemble, First
  <2> QED
    BY <1>1, <1>2, <1>3, <2>1 DEF Reassembly
<1>4. CASE m.kind = "sequel"
  <2>1. r = Sequel(m)
    BY <1>4 DEF Reassemble
  <2>2. CASE head = <<>>
    <3>1. r = Reassembly(<<>>, <<>>, 1)
      BY <2>1, <2>2 DEF Sequel
    <3> QED
      BY <1>1, <1>2, <3>1 DEF Reassembly
  <2>3. CASE head # <<>> /\ (m.time # SeqNum \/ Len(head) >= Fragments)
    <3>1. r = Reassembly(<<>>, <<>>, Len(head) + 1)
      BY <2>1, <2>3 DEF Sequel
    <3> QED
      BY <1>1, <1>2, <3>1 DEF Reassembly
  <2>4. CASE head # <<>> /\ ~(m.time # SeqNum \/ Len(head) >= Fragments)
    <3>1. r = IF m.last THEN Reassembly(<<>>, Append(head, m), 0)
              ELSE Reassembly(Append(head, m), <<>>, 0)
      BY <2>1, <2>4 DEF Sequel
    <3>2. Len(head) < Fragments
      BY <2>4, BoundsAssumption DEF IInv, TypeOK
    <3> QED
      BY <1>1, <1>2, <1>4, <2>4, <3>1, <3>2 DEF Reassembly
  <2> QED
    BY <2>2, <2>3, <2>4
<1>5. CASE m.kind \notin {"first", "sequel"}
  <2>1. r = Whole(m)
    BY <1>5 DEF Reassemble
  <2>2. CASE head # <<>> /\ (m.kind # "void" \/ Diff(m.time, SeqNum) > 0)
    <3>1. r = Reassembly(<<>>, <<m>>, Len(head))
      BY <2>1, <2>2 DEF Whole
    <3> QED
      BY <1>1, <3>1 DEF Reassembly
  <2>3. CASE ~(head # <<>> /\ (m.kind # "void" \/ Diff(m.time, SeqNum) > 0))
    <3>1. r = Reassembly(head, <<m>>, 0)
      BY <2>1, <2>3 DEF Whole
    <3> QED
      BY <1>1, <2>3, <3>1 DEF Reassembly
  <2> QED
    BY <2>2, <2>3
<1> QED
  BY <1>3, <1>4, <1>5

(* The next fragment in the sequence, of the same client.                  *)
LEMMA AppendFrame ==
  ASSUME NEW fragments \in Seq(Messages), fragments # <<>>, OneFrame(fragments),
         ~fragments[Len(fragments)].last,
         NEW m \in Messages, m.by = fragments[1].by, m.part = Len(fragments) + 1,
         m.time = Wrap(fragments[Len(fragments)].time + 1)
  PROVE  OneFrame(Append(fragments, m)) /\ Append(fragments, m)[Len(Append(fragments, m))] = m
<1> DEFINE n == Len(fragments)
           new == Append(fragments, m)
<1>1. n \in Nat /\ n >= 1 /\ Len(new) = n + 1
  OBVIOUS
<1>2. new[n + 1] = m /\ \A k \in 1 .. n : new[k] = fragments[k]
  OBVIOUS
<1>3. fragments[1].time \in Int
  <2>1. fragments[1] \in Messages
    BY <1>1
  <2> QED
    BY <2>1, Margin DEF Messages, Times
<1>4. m.time = Wrap(fragments[1].time + (n + 1) - 1)
  <2>1. fragments[n].time = Wrap(fragments[1].time + n - 1)
    BY <1>1 DEF OneFrame
  <2>2. Wrap(Wrap(fragments[1].time + n - 1) + 1) = Wrap((fragments[1].time + n - 1) + 1)
    <3>1. n - 1 \in Int
      BY <1>1
    <3>2. fragments[1].time + n - 1 \in Int
      BY <1>3, <3>1
    <3> QED
      BY <3>2, WrapTwice
  <2>3. (fragments[1].time + n - 1) + 1 = fragments[1].time + (n + 1) - 1
    BY <1>1, <1>3
  <2> QED
    BY <2>1, <2>2, <2>3
<1> HIDE DEF n, new
<1>5. OneFrame(new)
  <2> SUFFICES ASSUME NEW k \in 1 .. n + 1
               PROVE  /\ new[k].by = new[1].by
                      /\ new[k].part = k
                      /\ new[k].time = Wrap(new[1].time + k - 1)
                      /\ new[k].last => k = n + 1
    BY <1>1 DEF OneFrame
  <2>0. new[1] = fragments[1]
    BY <1>1, <1>2
  <2>1. CASE k = n + 1
    BY <1>1, <1>2, <1>4, <2>0, <2>1 DEF n
  <2>2. CASE k # n + 1
    <3>1. k \in 1 .. n /\ new[k] = fragments[k]
      BY <1>1, <1>2, <2>2
    <3>2. fragments[k].last => k = n /\ n = Len(fragments)
      BY <3>1 DEF OneFrame, n
    <3>3. ~fragments[k].last
      BY <3>2
    <3> QED
      BY <2>0, <3>1, <3>3 DEF OneFrame, n
  <2> QED
    BY <2>1, <2>2
<1> QED
  BY <1>1, <1>2, <1>5 DEF new

(* A void message that leaves the reassembly alone is not ahead of it, and *)
(* so the reassembly is young again as the network counts.                 *)
LEMMA VoidLeavesYoung ==
  ASSUME FrameInv, NEW m \in sent, NEW t \in Times,
         Age(t) \in 1 .. Window + 2 + quiet, ~(Diff(m.time, Wrap(t + 1)) > 0)
  PROVE  Age(t) \in 1 .. Window + 2
<1>1. /\ stream.clock \in Times /\ m.time \in Times /\ quiet \in 0 .. Idle
      /\ Age(m.time) \in 1 .. Window + 1
  BY DEF FrameInv, IInv, TypeOK, Stream, Messages, SentInOrder
<1>2. /\ Window \in Nat /\ Idle \in Nat /\ Modulus \div 2 \in Nat
      /\ Window + Idle + 1 <= Modulus \div 2
  BY Margin
<1>3. /\ Age(t) - 1 - Age(m.time) < Modulus \div 2
      /\ Age(t) - 1 - Age(m.time) >= -(Modulus \div 2)
  BY <1>1, <1>2
<1>4. Diff(m.time, Wrap(t + 1)) = Age(t) - 1 - Age(m.time)
  BY <1>1, <1>3, DiffAge DEF Age
<1> QED
  BY <1>1, <1>2, <1>4

(* A sequel with the next sequence number is the next fragment.            *)
LEMMA ReceiveFrames ==
  ASSUME FrameInv, NEW m \in sent, Receive(m)
  PROVE  SentInOrder' /\ HeadInOrder' /\ FramesWhole'
<1>1. /\ m \in Messages /\ m.by = stream.by /\ head \in Seq(Messages)
      /\ Age(m.time) \in 1 .. Window + 1 /\ m.time \in Times
      /\ m.kind = "first" => m.part = 1 /\ ~m.last
      /\ m.kind \in {"first", "sequel"} /\ ~m.last => Followed(m)
  BY DEF FrameInv, IInv, TypeOK, Served, SentInOrder, Messages
<1>2. stream' = stream /\ sent' \subseteq sent /\ quiet' = 0
  BY DEF Receive, Delivered
<1>3. SentInOrder' /\ (\A x : Followed(x) => Followed(x)') /\ \A t : Age(t)' = Age(t)
  BY <1>2, OrderKept DEF FrameInv
<1>4. Window \in Nat /\ <<m>> \in Seq(Messages) /\ Len(<<m>>) = 1 /\ <<m>>[1] = m
  BY <1>1, Margin
<1>5. CASE stream.mode = "continuous"
  <2>1. head = <<>>
    BY <1>5, HeadEmpty DEF FrameInv, IInv, Served
  <2>2. head' = head /\ outcome'.passed \in {<<>>, <<m>>}
    <3>1. outcome' = Nothing \/ \E kept : outcome' = Passed(<<m>>, kept)
      BY <1>5 DEF Receive, ConProcess, ConChunk
    <3> QED
      BY <1>5, <3>1, NothingIs DEF Receive, ConProcess, ConChunk, ConEnd, Passed
  <2> QED
    BY <1>3, <1>4, <2>1, <2>2 DEF HeadInOrder, FramesWhole
<1>6. CASE stream.mode = "discrete"
  <2>0. DisProcess(m)
    BY <1>6 DEF Receive
  <2>1. CASE head' = <<>> /\ outcome'.passed \in {<<>>, <<m>>}
    BY <1>3, <1>4, <2>1 DEF HeadInOrder, FramesWhole
  <2>2. CASE head' = <<m>> /\ m.kind = "first" /\ outcome'.passed = <<>>
    <3>1. OneFrame(<<m>>)
      <4>1. Wrap(m.time + 1 - 1) = m.time
        <5>1. m.time + 1 - 1 = m.time
          BY <1>1, Margin DEF Times
        <5> QED
          BY <1>1, <5>1, WrapIs
      <4> QED
        BY <1>1, <1>4, <2>2, <4>1 DEF OneFrame
    <3>2. Followed(m)' /\ Age(m.time)' \in 1 .. Window + 2 + quiet'
      BY <1>1, <1>2, <1>3, <1>4, <2>2
    <3>3. HeadInOrder'
      BY <1>1, <1>4, <2>2, <3>1, <3>2 DEF HeadInOrder
    <3> QED
      BY <1>3, <2>2, <3>3 DEF FramesWhole
  <2>3. CASE /\ head # <<>> /\ m.kind = "sequel" /\ m.time = SeqNum /\ Len(head) < Fragments
             /\ \/ head' = Append(head, m) /\ ~m.last /\ outcome'.passed = <<>>
                \/ head' = <<>> /\ m.last /\ outcome'.passed \in {<<>>, Append(head, m)}
    <3>0. PICK h : h = head[Len(head)]
      OBVIOUS
    <3>1. /\ OneFrame(head) /\ ~h.last /\ Followed(h)
          /\ m.time = Wrap(h.time + 1)
      BY <2>3, <3>0 DEF FrameInv, HeadInOrder, SeqNum
    <3>2. m.part = Len(head) + 1 /\ m.by = head[1].by
      <4>1. Len(head) \in 1 .. Len(head) /\ 1 \in 1 .. Len(head)
        BY <1>1, <2>3
      <4>2. h.part = Len(head)
        BY <3>0, <3>1, <4>1 DEF OneFrame
      <4>3. m.part = h.part + 1
        BY <2>3, <3>1 DEF Followed
      <4>4. head[1].by = owner /\ owner = stream.by
        <5>1. owner # NoClient
          BY <2>3, HeadEmpty DEF FrameInv, IInv, Served
        <5> QED
          BY <4>1, <5>1 DEF FrameInv, IInv, Served, BuffersReturned
      <4> QED
        BY <1>1, <4>2, <4>3, <4>4
    <3>3. OneFrame(Append(head, m)) /\ Append(head, m)[Len(Append(head, m))] = m
      BY <1>1, <2>3, <3>0, <3>1, <3>2, AppendFrame
    <3>4. CASE head' = Append(head, m) /\ ~m.last /\ outcome'.passed = <<>>
      <4>1. Followed(m)' /\ Age(m.time)' \in 1 .. Window + 2 + quiet'
        BY <1>1, <1>2, <1>3, <1>4, <2>3, <3>4
      <4>2. HeadInOrder'
        <5>1. PICK f : f = Append(head, m)
          OBVIOUS
        <5>2. head' = f /\ OneFrame(f) /\ f[Len(f)] = m
          BY <3>3, <3>4, <5>1
        <5>3. OneFrame(head)' /\ head'[Len(head')] = m
          BY <5>2 DEF OneFrame
        <5> QED
          BY <3>4, <4>1, <5>3 DEF HeadInOrder
      <4> QED
        BY <1>3, <3>4, <4>2 DEF FramesWhole
    <3>5. CASE head' = <<>> /\ m.last /\ outcome'.passed \in {<<>>, Append(head, m)}
      <4>1. PICK f : f = Append(head, m)
        OBVIOUS
      <4>2. outcome'.passed \in {<<>>, f} /\ OneFrame(f) /\ f[Len(f)] = m
        BY <3>3, <3>5, <4>1
      <4>3. FramesWhole'
        BY <3>5, <4>2 DEF FramesWhole, OneFrame
      <4> QED
        BY <1>3, <3>5, <4>3 DEF HeadInOrder
    <3> QED
      BY <2>3, <3>4, <3>5
  <2>4. CASE /\ head' = head /\ outcome'.passed \in {<<>>, <<m>>}
             /\ head # <<>> => m.kind = "void" /\ ~(Diff(m.time, SeqNum) > 0)
    <3>1. FramesWhole'
      BY <1>4, <2>4 DEF FramesWhole
    <3>2. CASE head = <<>>
      BY <1>3, <2>4, <3>1, <3>2 DEF HeadInOrder
    <3>3. CASE head # <<>>
      <4>0. PICK h : h = head[Len(head)]
        OBVIOUS
      <4>1. h \in Messages
        BY <1>1, <3>3, <4>0
      <4>2. /\ OneFrame(head) /\ ~h.last /\ Followed(h)
            /\ Age(h.time) \in 1 .. Window + 2 + quiet
        BY <3>3, <4>0 DEF FrameInv, HeadInOrder
      <4>3. h.time \in Times /\ ~(Diff(m.time, Wrap(h.time + 1)) > 0)
        BY <2>4, <3>3, <4>0, <4>1 DEF SeqNum, Messages
      <4>4. Age(h.time) \in 1 .. Window + 2
        BY <4>2, <4>3, VoidLeavesYoung
      <4>5. Age(h.time)' \in 1 .. Window + 2 + quiet' /\ Followed(h)'
        BY <1>2, <1>3, <1>4, <4>2, <4>4
      <4>6. HeadInOrder'
        BY <2>4, <4>0, <4>2, <4>5 DEF HeadInOrder
      <4> QED
        BY <1>3, <3>1, <4>6
    <3> QED
      BY <3>2, <3>3
  <2>5. IInv
    BY DEF FrameInv
  <2> QED
    BY <1>1, <2>0, <2>1, <2>2, <2>3, <2>4, <2>5, DisHead
<1> QED
  BY <1>5, <1>6 DEF FrameInv, IInv, TypeOK, Stream, Inlets

LEMMA FrameInit == Init => FrameInv
<1> SUFFICES ASSUME Init PROVE FrameInv
  OBVIOUS
<1>1. sent = {} /\ head = <<>> /\ outcome.passed = <<>>
  BY NothingIs DEF Init
<1>2. SentInOrder /\ HeadInOrder /\ FramesWhole
  BY <1>1 DEF SentInOrder, HeadInOrder, FramesWhole
<1> QED
  BY <1>2, InitInv DEF FrameInv

LEMMA FrameNext == FrameInv /\ [Next]_vars => FrameInv'
<1> SUFFICES ASSUME FrameInv, [Next]_vars
             PROVE  SentInOrder' /\ HeadInOrder' /\ FramesWhole'
  BY NextInv DEF FrameInv
<1>i. IInv'
  BY NextInv DEF FrameInv
<1>n. ASSUME outcome' = Nothing PROVE FramesWhole'
  BY <1>n, NothingIs DEF FramesWhole
<1>k. ASSUME stream' = stream, sent' \subseteq sent, head' = head, quiet' = quiet
      PROVE  SentInOrder' /\ HeadInOrder'
  <2>1. SentInOrder' /\ (\A x : Followed(x) => Followed(x)') /\ \A t : Age(t)' = Age(t)
    BY <1>k, OrderKept DEF FrameInv
  <2> QED
    BY <1>k, <2>1 DEF FrameInv, HeadInOrder
<1>1. CASE UNCHANGED vars
  BY <1>1, <1>k DEF vars, inlets, clients, FrameInv, FramesWhole
<1>2. CASE SendSome
  <2>1. PICK kind \in Kinds, cfg \in {"none", "good", "bad"}, version \in Versions,
             last \in BOOLEAN : Send(Message(kind, cfg, version, last))
    BY <1>2 DEF SendSome
  <2>2. PICK m : m = Message(kind, cfg, version, last)
    OBVIOUS
  <2>3. Send(m)
    BY <2>1, <2>2
  <2> QED
    BY <1>n, <2>2, <2>3, SendFrames DEF Send
<1>3. ASSUME NEW m \in sent, Receive(m)
      PROVE  SentInOrder' /\ HeadInOrder' /\ FramesWhole'
  BY <1>3, ReceiveFrames
<1>4. ASSUME NEW m \in sent, Ignore(m)
      PROVE  SentInOrder' /\ HeadInOrder' /\ FramesWhole'
  BY <1>4, <1>k, <1>n DEF Ignore, Delivered, inlets
<1>5. CASE Calm
  BY <1>5, <1>k, <1>n DEF Calm, inlets
<1>6. CASE Release
  <2>1. /\ current' = "none" /\ outcome' = Nothing /\ stream' = stream /\ sent' = sent
    BY <1>6 DEF Release
  <2>2. head' = <<>>
    <3>1. head' \in Seq(Messages) /\ Len(head') = 0
      BY <1>i, <2>1 DEF IInv, TypeOK, BuffersReturned
    <3> QED
      BY <3>1
  <2>3. SentInOrder'
    BY <2>1, OrderKept DEF FrameInv
  <2> QED
    BY <1>n, <2>1, <2>2, <2>3 DEF HeadInOrder
<1>7. ASSUME NEW c \in Clients, Begin(c)
      PROVE  SentInOrder' /\ HeadInOrder' /\ FramesWhole'
  <2>1. owner = NoClient /\ sent' = {} /\ outcome' = Nothing /\ head' = head
    BY <1>7 DEF Begin, inlets
  <2>2. head = <<>>
    BY <2>1, HeadEmpty DEF FrameInv, IInv, Served
  <2> QED
    BY <1>n, <2>1, <2>2 DEF SentInOrder, HeadInOrder
<1> QED
  BY <1>1, <1>2, <1>3, <1>4, <1>5, <1>6, <1>7 DEF Next, Deliver

(* What the discrete inlet shows of fragments is a whole frame as its      *)
(* client sent it, however the network loses, doubles and reorders within  *)
(* half of the range of the timestamps.                                    *)
THEOREM SpecFramesWhole == Spec => []FramesWhole
<1>1. FrameInv => FramesWhole
  BY DEF FrameInv
<1> QED
  BY <1>1, FrameInit, FrameNext, PTL DEF Spec
=============================================================================
