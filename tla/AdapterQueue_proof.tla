-------------------------- MODULE AdapterQueue_proof --------------------------
(***************************************************************************)
(* Proofs about AdapterQueue, for any number of buffers, decoders and      *)
(* queue buffers: its types, that no taxi buffer is lost or is in two      *)
(* places, that the driver decodes nothing that was discarded, that the    *)
(* reference counts are exact, that no freed queue buffer is looked into,  *)
(* that a graceful stop leaves nothing behind, and that the queue is the   *)
(* conveyor of TaxiConveyor.                                               *)
(*                                                                         *)
(* They rest on the shape of the queue: in every live queue buffer the     *)
(* caret is between tail and head, the cells from tail to head are taken   *)
(* and one more is free for the link, the last taken cell of every queue   *)
(* buffer but the last holds the link, and it holds nothing else.          *)
(*                                                                         *)
(* The conveyor is what lies between caret and head, and between tail and  *)
(* caret, listed by rank: a step of the head, the caret or the tail adds   *)
(* or takes one cell that comes last or first, and the order of the others *)
(* does not change.                                                        *)
(***************************************************************************)
EXTENDS AdapterQueue, TLAPS, FiniteSetTheorems, SequenceTheorems, WellFoundedInduction

(* Index k is one of those from i up to j, around the ring.                *)
Within(k, i, j) == IF i <= j THEN i <= k /\ k < j ELSE i <= k \/ k < j

(* From i, c is passed before j is reached, or at j.                       *)
Between(i, c, j) == IF i <= j THEN i <= c /\ c <= j ELSE i <= c \/ c <= j

(* Cell k of queue buffer q holds an entry that is not yet recycled.       *)
Taken(q, k) == q \in tailQ .. headQ /\ k \in Indices(q) /\ Within(k, tail[q], head[q])

(* Where tail, caret and head are.                                         *)
Shape ==
    /\ caretQ <= headQ
    /\ tailQ <= (IF dpc = "switch" THEN caretQ + 1 ELSE caretQ)
    /\ \A q \in Blocks :
          /\ q > headQ => head[q] = 0
          /\ q > caretQ => caret[q] = 0 /\ tail[q] = 0
          /\ q < caretQ => caret[q] = head[q]
          /\ q >= tailQ => Between(tail[q], caret[q], head[q])
          /\ q \in tailQ .. headQ - 1 => tail[q] # head[q]
    /\ dpc = "switch" => caretQ < headQ
    /\ caretQ < headQ => (dpc = "switch" <=> caret[caretQ] = head[caretQ])

(* A queue buffer has room for its link, and for what is being put.        *)
Room ==
    /\ Succ(headQ, head[headQ]) # tail[headQ]
    /\ spc = "entry" => ~Full(headQ)
    /\ spc = "link" => headQ < LastBlock
    /\ spc = "linked" => headQ > 0 /\ head[headQ] = 0 /\ tail[headQ] = 0

(* What the cells hold.                                                    *)
Contents ==
    /\ \A q \in Blocks : \A k \in Indices(q) : Taken(q, k) =>
          /\ ring[<<q, k>>] # None
          /\ ring[<<q, k>>] = Link <=> q < headQ /\ Succ(q, k) = head[q]
    /\ spc = "entry" => ring[<<headQ, head[headQ]>>] = incoming
    /\ spc = "link" => ring[<<headQ, head[headQ]>>] = Link

(* A queued buffer is neither discarded nor yet to be queued, it is in one *)
(* cell, and every other buffer is queued.                                 *)
Queued ==
    /\ incoming \notin pool
    /\ \A q \in Blocks : \A k \in Indices(q) :
          Taken(q, k) => ring[<<q, k>>] \notin pool /\ ring[<<q, k>>] # incoming

Apart ==
    \A q, r \in Blocks : \A k \in Indices(q), n \in Indices(r) :
       Taken(q, k) /\ Taken(r, n) /\ ring[<<q, k>>] = ring[<<r, n>>] /\ ring[<<q, k>>] # Link
          => q = r /\ k = n

Kept ==
    \A b \in Buffers \ (pool \cup {incoming}) :
       \E q \in Blocks : \E k \in Indices(q) : Taken(q, k) /\ ring[<<q, k>>] = b

Placed == Queued /\ Apart /\ Kept

(* What the driver reads is not yet trash.                                 *)
Reading ==
    dpc \in {"decode", "read"} => ~CaretEmpty /\ CaretEntry # Link /\ holding = CaretEntry

(* Buffers that are not discarded have a decoder.                          *)
Memos == \A b \in Buffers \ pool : memo[b] # None

(* How far the network thread is, and what it has achieved.                *)
Phases ==
    /\ IF spc \in {"put", "link", "linked", "entry"}
       THEN opMode = "active" /\ incoming # None
       ELSE incoming = None
    /\ opMode # "down"
    /\ spc \in {"stop", "stopCaret", "disable", "discard"} => opMode \in {"active", "flushing"}
    /\ spc \in {"stopCaret", "disable", "discard"} \/ opMode = "idle" => caretQ = headQ
    /\ spc \in {"disable", "discard"} \/ opMode = "idle" => caret[headQ] = head[headQ]
    /\ spc = "discard" \/ opMode = "idle" => ~enabled
    /\ opMode = "idle" /\ spc = "idle" => tailQ = headQ /\ tail[headQ] = head[headQ]

IInv == TypeOK /\ Shape /\ Room /\ Contents /\ Placed /\ Reading /\ Memos /\ RefCountExact /\ Phases

USE DEF Blocks, Indices

-----------------------------------------------------------------------------
(* Sizes and indices of the queue buffers.                                 *)

LEMMA CellsAre ==
  ASSUME NEW q \in Blocks, NEW k \in Indices(q)
  PROVE  <<q, k>> \in Cells
  BY DEF Cells

(* Doubling keeps the sizes positive: otherwise there were a first queue   *)
(* buffer that is too small.                                               *)
LEMMA Sizes ==
  \A q \in Blocks : /\ Size[q] \in Nat /\ Size[q] > 1
                    /\ q > 0 => Size[q] > 2
<1> DEFINE Less == OpToRel(<, Nat)
           Small == {q \in Blocks : Size[q] <= 1}
<1>1. \A q \in Blocks : q \notin Small
  <2>1. SUFFICES ASSUME Small # {} PROVE FALSE
    OBVIOUS
  <2>2. IsWellFoundedOn(Less, Nat)
    BY NatLessThanWellFounded, Zenon
  <2>3. Small \subseteq Nat
    BY SizeAssumption
  <2>4. PICK q \in Small : \A r \in Small : ~ (<<r, q>> \in Less)
    <3> HIDE DEF Small, Less
    <3> QED
      BY <2>1, <2>2, <2>3, WFMin
  <2>5. q # 0 /\ q \in Blocks /\ q \in Nat
    BY SizeAssumption
  <2>6. q - 1 \in Small
    BY <2>5, SizeAssumption
  <2>7. <<q - 1, q>> \in Less
    BY <2>5 DEF OpToRel
  <2> QED
    BY <2>4, <2>6, <2>7
<1> HIDE DEF Less
<1>2. \A q \in Blocks : Size[q] \in Nat /\ Size[q] > 1
  BY <1>1, SizeAssumption
<1>3. ASSUME NEW q \in Blocks, q > 0 PROVE Size[q] > 2
  <2>1. q - 1 \in Blocks /\ q \in Blocks \ {0}
    BY <1>3, SizeAssumption
  <2> QED
    BY <2>1, <1>2, SizeAssumption
<1> QED
  BY <1>2, <1>3

LEMMA Remainder ==
  \A n, i \in Nat :
     n > 1 => /\ i < n => i % n = i
              /\ i >= n /\ i < 2 * n => i % n = i - n
<1> SUFFICES ASSUME NEW n \in Nat, NEW i \in Nat, n > 1
             PROVE  /\ i < n => i % n = i
                    /\ i >= n /\ i < 2 * n => i % n = i - n
  OBVIOUS
<1>1. ASSUME i < n PROVE i % n = i
  BY <1>1, SMT
<1>2. ASSUME i >= n, i < 2 * n PROVE i % n = i - n
  <2> DEFINE j == i - n
  <2>1. j \in Nat /\ j < n /\ i = j + n
    BY <1>2
  <2> HIDE DEF j
  <2>2. (j + n) % n = j
    BY <2>1, SMT
  <2> QED
    BY <2>1, <2>2, <1>2
<1> QED
  BY <1>1, <1>2

LEMMA SuccIs ==
  ASSUME NEW q \in Blocks, NEW i \in Indices(q)
  PROVE  /\ Succ(q, i) = IF i + 1 = Size[q] THEN 0 ELSE i + 1
         /\ Succ(q, i) \in Indices(q)
<1>1. /\ i + 1 < Size[q] => (i + 1) % Size[q] = i + 1
      /\ i + 1 >= Size[q] => (i + 1) % Size[q] = i + 1 - Size[q]
  <2>1. Size[q] \in Nat /\ Size[q] > 1 /\ i + 1 \in Nat /\ i + 1 < 2 * Size[q]
    BY Sizes
  <2> QED
    BY <2>1, Remainder, SMT
<1> QED
  BY <1>1, Sizes DEF Succ

LEMMA SuccInjective ==
  ASSUME NEW q \in Blocks, NEW i \in Indices(q), NEW j \in Indices(q), Succ(q, i) = Succ(q, j)
  PROVE  i = j
  BY SuccIs, Sizes

(* A full queue buffer has one free cell left, besides the one that is     *)
(* always free.                                                            *)
LEMMA FullIs ==
  ASSUME NEW q \in Blocks, head[q] \in Indices(q)
  PROVE  Full(q) <=> Succ(q, Succ(q, head[q])) = tail[q]
<1> DEFINE i == head[q]
<1>1. /\ i + 2 < Size[q] => (i + 2) % Size[q] = i + 2
      /\ i + 2 >= Size[q] => (i + 2) % Size[q] = i + 2 - Size[q]
  <2>1. Size[q] \in Nat /\ Size[q] > 1 /\ i + 2 \in Nat /\ i + 2 < 2 * Size[q]
    BY Sizes
  <2> QED
    BY <2>1, Remainder, SMT
<1>2. Succ(q, Succ(q, i)) = (i + 2) % Size[q]
  <2>1. Succ(q, i) = (IF i + 1 = Size[q] THEN 0 ELSE i + 1) /\ Succ(q, i) \in Indices(q)
    BY SuccIs
  <2>2. Succ(q, Succ(q, i)) = IF Succ(q, i) + 1 = Size[q] THEN 0 ELSE Succ(q, i) + 1
    BY <2>1, SuccIs
  <2> QED
    BY <1>1, <2>1, <2>2, Sizes
<1> QED
  BY <1>2 DEF Full

(* The head moves on: one more cell is taken.                              *)
LEMMA HeadAdvances ==
  ASSUME NEW q \in Blocks, NEW t \in Indices(q), NEW c \in Indices(q), NEW h \in Indices(q),
         Between(t, c, h), Succ(q, h) # t
  PROVE  /\ Between(t, c, Succ(q, h)) /\ c # Succ(q, h)
         /\ ~Within(h, t, h)
         /\ \A k \in Indices(q) : Within(k, t, Succ(q, h)) <=> Within(k, t, h) \/ k = h
  BY SuccIs, Sizes DEF Between, Within

(* The tail moves on: one cell less is taken.                              *)
LEMMA TailAdvances ==
  ASSUME NEW q \in Blocks, NEW t \in Indices(q), NEW c \in Indices(q), NEW h \in Indices(q),
         Between(t, c, h), t # c
  PROVE  /\ t # h
         /\ Between(Succ(q, t), c, h)
         /\ Within(t, t, h)
         /\ \A k \in Indices(q) : Within(k, Succ(q, t), h) <=> Within(k, t, h) /\ k # t
  BY SuccIs, Sizes DEF Between, Within

LEMMA CaretAdvances ==
  ASSUME NEW q \in Blocks, NEW t \in Indices(q), NEW c \in Indices(q), NEW h \in Indices(q),
         Between(t, c, h), c # h
  PROVE  Between(t, Succ(q, c), h) /\ Within(c, t, h) /\ t # h
  BY SuccIs, Sizes DEF Between, Within

LEMMA Ends ==
  ASSUME NEW q \in Blocks, NEW t \in Indices(q), NEW h \in Indices(q)
  PROVE  /\ Between(t, t, h) /\ Between(t, h, h)
         /\ \A k \in Indices(q) : ~Within(k, t, t)
         /\ t # h => \E k \in Indices(q) : Within(k, t, h) /\ Succ(q, k) = h
<1>1. Between(t, t, h) /\ Between(t, h, h) /\ \A k \in Indices(q) : ~Within(k, t, t)
  BY Sizes DEF Between, Within
<1>2. ASSUME t # h
      PROVE  \E k \in Indices(q) : Within(k, t, h) /\ Succ(q, k) = h
  <2> DEFINE k == IF h = 0 THEN Size[q] - 1 ELSE h - 1
  <2>1. k \in Indices(q)
    BY Sizes
  <2>2. Succ(q, k) = h
    BY <2>1, SuccIs, Sizes
  <2>3. Within(k, t, h)
    BY <1>2, Sizes DEF Within
  <2> QED
    BY <2>1, <2>2, <2>3
<1> QED
  BY <1>1, <1>2

-----------------------------------------------------------------------------
(* Reference counts.                                                       *)

(* The buffers that count as users of a decoder.                           *)
Users(d) == {b \in Buffers \ pool : memo[b] = d}

LEMMA UsersFinite ==
  ASSUME NEW d
  PROVE  IsFiniteSet(Users(d)) /\ Cardinality(Users(d)) \in Nat
<1>1. Users(d) \subseteq Buffers
  BY DEF Users
<1> QED
  BY <1>1, EntryAssumption, FS_Subset, FS_CardinalityType

LEMMA CountIs ==
  RefCountExact <=>
    \A d \in Decoders : refCount[d] = Cardinality(Users(d)) + (IF decoder = d THEN 1 ELSE 0)
  BY DEF RefCountExact, Users

LEMMA CountIsNext ==
  RefCountExact' <=>
    \A d \in Decoders :
       refCount'[d] = Cardinality(Users(d)') + (IF decoder' = d THEN 1 ELSE 0)
  BY DEF RefCountExact, Users

LEMMA RefIncIs ==
  ASSUME NEW count \in [Decoders -> Nat], NEW x \in Decoders \cup {None}
  PROVE  /\ RefInc(count, x) \in [Decoders -> Nat]
         /\ \A d \in Decoders : RefInc(count, x)[d] = IF x = d THEN count[d] + 1 ELSE count[d]
  BY EntryAssumption DEF RefInc

LEMMA RefDecIs ==
  ASSUME NEW count \in [Decoders -> Nat], NEW x \in Decoders \cup {None}, x # None => count[x] > 0
  PROVE  /\ RefDec(count, x) \in [Decoders -> Nat]
         /\ \A d \in Decoders : RefDec(count, x)[d] = IF x = d THEN count[d] - 1 ELSE count[d]
  BY EntryAssumption DEF RefDec

(* What is used has not been deleted.                                      *)
LEMMA UsedCounts ==
  ASSUME TypeOK, RefCountExact
  PROVE  /\ decoder # None => refCount[decoder] > 0
         /\ \A b \in Buffers \ pool : memo[b] # None => refCount[memo[b]] > 0
<1>1. decoder # None => refCount[decoder] > 0
  BY CountIs, UsersFinite DEF TypeOK
<1>2. ASSUME NEW b \in Buffers \ pool, memo[b] # None
      PROVE  refCount[memo[b]] > 0
  <2>1. b \in Users(memo[b])
    BY DEF Users
  <2>2. Cardinality(Users(memo[b])) \in Nat /\ Cardinality(Users(memo[b])) # 0
    BY <2>1, UsersFinite, FS_EmptySet
  <2>3. memo[b] \in Decoders
    BY <1>2 DEF TypeOK
  <2>4. refCount[memo[b]] = Cardinality(Users(memo[b])) + (IF decoder = memo[b] THEN 1 ELSE 0)
    BY <2>3, CountIs
  <2> QED
    BY <2>2, <2>4
<1> QED
  BY <1>1, <1>2

(* One user less, one user more.                                           *)
LEMMA UserLeaves ==
  ASSUME TypeOK, RefCountExact, NEW b \in Buffers \ pool,
         refCount' = RefDec(refCount, memo[b]), decoder' = decoder,
         \A d \in Decoders : Users(d)' = Users(d) \ {b}
  PROVE  RefCountExact' /\ refCount' \in [Decoders -> Nat]
<1>1. memo[b] \in Decoders \cup {None}
  BY DEF TypeOK
<1>2. memo[b] # None => refCount[memo[b]] > 0
  BY UsedCounts
<1>3. /\ refCount' \in [Decoders -> Nat]
      /\ \A d \in Decoders : refCount'[d] = IF memo[b] = d THEN refCount[d] - 1 ELSE refCount[d]
  <2>1. refCount \in [Decoders -> Nat]
    BY DEF TypeOK
  <2> QED
    BY <1>1, <1>2, <2>1, RefDecIs
<1>4. ASSUME NEW d \in Decoders
      PROVE  refCount'[d] = Cardinality(Users(d)') + (IF decoder' = d THEN 1 ELSE 0)
  <2>1. CASE memo[b] = d
    <3>1. b \in Users(d)
      BY <2>1 DEF Users
    <3>2. Cardinality(Users(d) \ {b}) = Cardinality(Users(d)) - 1
      BY <3>1, UsersFinite, FS_RemoveElement
    <3>3. Cardinality(Users(d)') = Cardinality(Users(d)) - 1
      BY <3>2
    <3>4. refCount[d] = Cardinality(Users(d)) + (IF decoder = d THEN 1 ELSE 0)
      BY CountIs
    <3>5. refCount'[d] = refCount[d] - 1 /\ Cardinality(Users(d)) \in Nat
      BY <2>1, <1>3, UsersFinite
    <3> QED
      BY <3>3, <3>4, <3>5
  <2>2. CASE memo[b] # d
    <3>1. Users(d)' = Users(d)
      BY <2>2 DEF Users
    <3> QED
      BY <2>2, <3>1, <1>3, CountIs, UsersFinite
  <2> QED
    BY <2>1, <2>2
<1> QED
  BY <1>3, <1>4, CountIsNext

-----------------------------------------------------------------------------
(* What follows from the invariant about the ends of the queue.            *)

LEMMA PlacesType ==
  ASSUME TypeOK
  PROVE  /\ headQ \in Blocks /\ caretQ \in Blocks /\ tailQ \in Blocks
         /\ Blocks \subseteq Int
         /\ \A q \in Blocks :
               head[q] \in Indices(q) /\ caret[q] \in Indices(q) /\ tail[q] \in Indices(q)
         /\ \A q \in Blocks : \A k \in Indices(q) : ring[<<q, k>>] \in Buffers \cup {Link, None}
<1>1. \A q \in Blocks : \A k \in Indices(q) : ring[<<q, k>>] \in Buffers \cup {Link, None}
  <2> SUFFICES ASSUME NEW q \in Blocks, NEW k \in Indices(q)
               PROVE  ring[<<q, k>>] \in Buffers \cup {Link, None}
    OBVIOUS
  <2>1. <<q, k>> \in Cells
    BY CellsAre
  <2> QED
    BY <2>1 DEF TypeOK
<1>2. Blocks \subseteq Int
  BY SizeAssumption
<1> QED
  BY <1>1, <1>2 DEF TypeOK

(* A step that moves the caret, or the tail, within its queue buffer.      *)
LEMMA CaretTyped ==
  ASSUME TypeOK, dpc' \in DriverPCs,
         caret' \in [Blocks -> Nat], \A q \in Blocks : caret'[q] \in Indices(q),
         UNCHANGED <<spc, incoming, opMode, enabled, headQ, caretQ, tailQ, head, tail, ring,
                     holding, pool, refs>>
  PROVE  TypeOK'
<1>1. \A q \in Blocks : {head'[q], caret'[q], tail'[q]} \subseteq Indices(q)
  <2> SUFFICES ASSUME NEW q \in Blocks
               PROVE  {head'[q], caret'[q], tail'[q]} \subseteq Indices(q)
    OBVIOUS
  <2>1. head'[q] \in Indices(q) /\ tail'[q] \in Indices(q)
    BY PlacesType
  <2> QED
    BY <2>1
<1> QED
  BY <1>1 DEF TypeOK, refs

LEMMA TailTyped ==
  ASSUME TypeOK, tailQ' \in Blocks,
         tail' \in [Blocks -> Nat], \A q \in Blocks : tail'[q] \in Indices(q),
         ring' \in [Cells -> Buffers \cup {Link, None}], pool' \subseteq Buffers,
         memo' \in [Buffers -> Decoders \cup {None}], refCount' \in [Decoders -> Nat],
         UNCHANGED <<spc, incoming, opMode, enabled, headQ, caretQ, head, caret, dpc,
                     holding, decoder>>
  PROVE  TypeOK'
<1>1. \A q \in Blocks : {head'[q], caret'[q], tail'[q]} \subseteq Indices(q)
  <2> SUFFICES ASSUME NEW q \in Blocks
               PROVE  {head'[q], caret'[q], tail'[q]} \subseteq Indices(q)
    OBVIOUS
  <2>1. head'[q] \in Indices(q) /\ caret'[q] \in Indices(q)
    BY PlacesType
  <2> QED
    BY <2>1
<1> QED
  BY <1>1 DEF TypeOK

(* What waits for the driver is taken, and no link when the driver is in   *)
(* the last queue buffer.                                                  *)
LEMMA CaretTaken ==
  ASSUME TypeOK, Shape, Contents, ~CaretEmpty
  PROVE  /\ Taken(caretQ, caret[caretQ])
         /\ CaretEntry \in Buffers \cup {Link}
         /\ CaretEntry = Link => caretQ < headQ /\ Succ(caretQ, caret[caretQ]) = head[caretQ]
         /\ dpc # "switch"
<1>1. caret[caretQ] # head[caretQ] /\ dpc # "switch" /\ tailQ <= caretQ /\ caretQ <= headQ
  BY DEF CaretEmpty, Shape
<1>2. Between(tail[caretQ], caret[caretQ], head[caretQ])
  BY <1>1, PlacesType DEF Shape
<1>3. Within(caret[caretQ], tail[caretQ], head[caretQ])
  BY <1>1, <1>2, PlacesType, CaretAdvances
<1>4. Taken(caretQ, caret[caretQ])
  BY <1>1, <1>3, PlacesType DEF Taken
<1> QED
  BY <1>1, <1>4, PlacesType DEF CaretEntry, Contents

(* What is left of the trash is taken.                                     *)
LEMMA TrashTaken ==
  ASSUME TypeOK, Shape, Contents, TrashLeft
  PROVE  /\ Taken(tailQ, tail[tailQ])
         /\ TrashEntry \in Buffers \cup {Link}
         /\ TrashEntry = Link => tailQ < headQ /\ Succ(tailQ, tail[tailQ]) = head[tailQ]
         /\ tailQ <= caretQ
         /\ Between(tail[tailQ], caret[tailQ], head[tailQ])
<1>1. tail[tailQ] # caret[tailQ]
  BY DEF TrashLeft
<1>2. tailQ <= caretQ
  BY <1>1, PlacesType DEF Shape
<1>3. Between(tail[tailQ], caret[tailQ], head[tailQ])
  BY PlacesType DEF Shape
<1>4. Within(tail[tailQ], tail[tailQ], head[tailQ])
  BY <1>1, <1>3, PlacesType, TailAdvances
<1>5. Taken(tailQ, tail[tailQ])
  BY <1>2, <1>4, PlacesType DEF Taken, Shape
<1> QED
  BY <1>2, <1>3, <1>5, PlacesType DEF TrashEntry, Contents

(* The cell the head points to is free.                                    *)
LEMMA HeadFree ==
  ASSUME TypeOK, Shape, Room
  PROVE  ~Taken(headQ, head[headQ])
<1>1. tailQ <= headQ
  BY PlacesType DEF Shape
<1>2. Between(tail[headQ], caret[headQ], head[headQ])
  BY <1>1, PlacesType DEF Shape
<1>3. ~Within(head[headQ], tail[headQ], head[headQ])
  BY <1>2, PlacesType, HeadAdvances DEF Room
<1> QED
  BY <1>3 DEF Taken

-----------------------------------------------------------------------------
(* Steps that leave parts of the state alone.                              *)

LEMMA QueueKept ==
  ASSUME TypeOK, Shape, Room, Contents, UNCHANGED queue,
         spc' \in {"entry", "link", "linked"} => spc' = spc /\ incoming' = incoming,
         dpc' = "switch" <=> dpc = "switch"
  PROVE  Shape' /\ Room' /\ Contents' /\ \A q, k : Taken(q, k)' <=> Taken(q, k)
<1>1. \A q, k : Taken(q, k)' <=> Taken(q, k)
  BY DEF Taken, queue
<1>2. Shape'
  BY DEF Shape, queue
<1>3. Room'
  BY DEF Room, Full, queue
<1>4. Contents'
  BY <1>1 DEF Contents, queue
<1> QED
  BY <1>1, <1>2, <1>3, <1>4

LEMMA PlacedKept ==
  ASSUME Placed, UNCHANGED <<ring, pool, incoming>>, \A q, k : Taken(q, k)' <=> Taken(q, k)
  PROVE  Placed'
<1>1. Queued'
  BY DEF Placed, Queued
<1>2. Apart'
  BY DEF Placed, Apart
<1>3. Kept'
  BY DEF Placed, Kept
<1> QED
  BY <1>1, <1>2, <1>3 DEF Placed

LEMMA RefsKept ==
  ASSUME RefCountExact, Memos, UNCHANGED <<pool, refs>>
  PROVE  RefCountExact' /\ Memos'
<1>1. Memos'
  BY DEF Memos, refs
<1>2. \A d \in Decoders : Users(d)' = Users(d)
  BY DEF Users, refs
<1> QED
  BY <1>1, <1>2, CountIs, CountIsNext DEF refs

-----------------------------------------------------------------------------
(* The invariant holds at first, and every action preserves it.            *)

LEMMA Initially == Init => IInv
<1> SUFFICES ASSUME Init PROVE IInv
  OBVIOUS
<1> USE DEF Init
<1>0. 0 \in Blocks /\ \A q \in Blocks : 0 \in Indices(q)
  BY Sizes, SizeAssumption
<1>1. TypeOK
  BY <1>0 DEF TypeOK, ServerPCs, DriverPCs
<1>2. Shape
  BY <1>0 DEF Shape, Between
<1>3. Room
  BY <1>0, SuccIs, Sizes DEF Room
<1>4. \A q, k : ~Taken(q, k)
  BY <1>0 DEF Taken, Within
<1>5. Contents
  BY <1>4 DEF Contents
<1>6. Placed
  BY <1>4, EntryAssumption DEF Placed, Queued, Apart, Kept
<1>7. Reading /\ Memos
  BY DEF Reading, Memos
<1>8. RefCountExact
  <2>1. \A d \in Decoders : Users(d) = {}
    BY DEF Users
  <2>2. \A d \in Decoders : Cardinality(Users(d)) = 0
    BY <2>1, FS_EmptySet
  <2>3. \A d \in Decoders : decoder # d /\ refCount[d] = 0
    BY EntryAssumption
  <2> QED
    BY <2>2, <2>3, CountIs
<1>9. Phases
  BY DEF Phases
<1> QED
  BY <1>1, <1>2, <1>3, <1>5, <1>6, <1>7, <1>8, <1>9 DEF IInv

(* The steps that touch neither the queue nor a reference.                 *)
LEMMA QuietStep ==
  ASSUME IInv,
         \/ Open \/ Close \/ Housekeeping \/ StopRefused \/ StopChecked \/ Disable \/ Recycled
         \/ Lock \/ PeekEmpty \/ PeekBuffer \/ Decode \/ CompareCount
  PROVE  IInv'
<1> USE DEF IInv
<1> DEFINE Server == Open \/ Close \/ Housekeeping \/ StopRefused \/ StopChecked \/ Disable \/ Recycled
           Looks == Lock \/ PeekEmpty \/ PeekBuffer \/ Decode \/ CompareCount
<1>1. UNCHANGED <<queue, pool, incoming>> /\ UNCHANGED refs
  BY DEF Open, Close, Housekeeping, StopRefused, StopChecked, Disable, Recycled, Lock, PeekEmpty,
         PeekBuffer, Decode, CompareCount
<1>2. /\ spc' \in {"entry", "link", "linked"} => spc' = spc
      /\ UNCHANGED <<ring, pool, incoming>>
      /\ dpc' = "switch" <=> dpc = "switch"
  BY DEF Open, Close, Housekeeping, StopRefused, StopChecked, Disable, Recycled, Lock, PeekEmpty,
         PeekBuffer, Decode, CompareCount, queue
<1>3. Shape' /\ Room' /\ Contents' /\ Placed'
  BY <1>1, <1>2, QueueKept, PlacedKept
<1>4. RefCountExact' /\ Memos'
  BY <1>1, RefsKept
<1>5. CASE Server
  <2>0. UNCHANGED <<dpc, holding, queue>>
    BY <1>5 DEF Open, Close, Housekeeping, StopRefused, StopChecked, Disable, Recycled
  <2>1. TypeOK'
    BY <1>5 DEF TypeOK, Open, Close, Housekeeping, StopRefused, StopChecked, Disable, Recycled,
                queue, refs, ServerPCs
  <2>2. Reading'
    BY <2>0 DEF Reading, CaretEmpty, CaretEntry, queue
  <2>3. Phases'
    <3>1. ASSUME Recycled, opMode = "idle"
          PROVE  tailQ = headQ /\ tail[headQ] = head[headQ]
      <4>1. tail[tailQ] = caret[tailQ]
        BY <3>1 DEF Recycled, TrashLeft
      <4>2. caretQ = headQ /\ caret[headQ] = head[headQ]
        BY <3>1 DEF Phases
      <4>3. tailQ <= headQ
        BY <4>2, PlacesType DEF Shape
      <4>4. tailQ < headQ => tail[tailQ] # head[tailQ] /\ caret[tailQ] = head[tailQ]
        BY <4>2, PlacesType DEF Shape
      <4> QED
        BY <4>1, <4>2, <4>3, <4>4, PlacesType
    <3>2. CASE Recycled
      BY <3>1, <3>2 DEF Recycled, Phases, queue
    <3>3. CASE Open \/ Close \/ Housekeeping
      BY <3>3 DEF Open, Close, Housekeeping, Phases, queue
    <3>4. CASE StopRefused \/ StopChecked \/ Disable
      BY <3>4 DEF StopRefused, StopChecked, Disable, Phases, queue
    <3> QED
      BY <1>5, <3>2, <3>3, <3>4
  <2> QED
    BY <1>3, <1>4, <2>1, <2>2, <2>3
<1>6. CASE Looks
  <2>1. UNCHANGED <<spc, incoming, opMode, enabled, queue>>
    BY <1>6 DEF Lock, PeekEmpty, PeekBuffer, Decode, CompareCount
  <2>2. PeekBuffer => CaretEntry \in Buffers
    BY CaretTaken DEF PeekBuffer
  <2>3. TypeOK'
    BY <1>6, <2>2 DEF TypeOK, Lock, PeekEmpty, PeekBuffer, Decode, CompareCount, queue, refs,
                      DriverPCs
  <2>4. Reading'
    BY <1>6 DEF Reading, Lock, PeekEmpty, PeekBuffer, Decode, CompareCount, CaretEmpty,
                CaretEntry, queue
  <2>5. Phases'
    BY <2>1 DEF Phases, queue
  <2> QED
    BY <1>3, <1>4, <2>3, <2>4, <2>5
<1> QED
  BY <1>5, <1>6

(* A step of the inlet: it does not touch the queue.                       *)
LEMMA InletStep ==
  ASSUME IInv, DropDecoder \/ \E d \in Decoders : CreateDecoder(d)
  PROVE  IInv'
<1> USE DEF IInv
<1>1. /\ UNCHANGED <<spc, incoming, opMode, enabled, queue, dpc, holding, pool, memo>>
      /\ spc = "idle"
  BY DEF DropDecoder, CreateDecoder
<1>2. Shape' /\ Room' /\ Contents' /\ Placed'
  BY <1>1, QueueKept, PlacedKept DEF queue
<1>3. Reading' /\ Memos' /\ Phases'
  BY <1>1 DEF Reading, CaretEmpty, CaretEntry, queue, Memos, Phases
<1>4. \A d \in Decoders : Users(d)' = Users(d)
  BY <1>1 DEF Users
<1>5. decoder \in Decoders \cup {None} /\ refCount \in [Decoders -> Nat]
  BY DEF TypeOK
<1>6. /\ RefDec(refCount, decoder) \in [Decoders -> Nat]
      /\ \A d \in Decoders : RefDec(refCount, decoder)[d] = Cardinality(Users(d))
  <2>1. decoder # None => refCount[decoder] > 0
    BY UsedCounts
  <2>2. /\ RefDec(refCount, decoder) \in [Decoders -> Nat]
        /\ \A d \in Decoders :
              RefDec(refCount, decoder)[d] = IF decoder = d THEN refCount[d] - 1 ELSE refCount[d]
    BY <1>5, <2>1, RefDecIs
  <2>3. \A d \in Decoders : refCount[d] = Cardinality(Users(d)) + (IF decoder = d THEN 1 ELSE 0)
    BY CountIs
  <2> QED
    BY <2>2, <2>3, UsersFinite
<1>7. CASE DropDecoder
  <2>1. decoder' = None /\ refCount' = RefDec(refCount, decoder)
    BY <1>7 DEF DropDecoder
  <2>2. \A d \in Decoders :
           refCount'[d] = Cardinality(Users(d)') + (IF decoder' = d THEN 1 ELSE 0)
    BY <1>4, <1>6, <2>1, EntryAssumption, UsersFinite
  <2>3. RefCountExact'
    BY <2>2, CountIsNext
  <2>4. TypeOK'
    BY <1>1, <1>6, <2>1 DEF TypeOK, queue
  <2> QED
    BY <1>2, <1>3, <2>3, <2>4
<1>8. ASSUME NEW d \in Decoders, CreateDecoder(d)
      PROVE  IInv'
  <2> DEFINE dropped == RefDec(refCount, decoder)
  <2>1. /\ decoder' = d /\ dropped[d] = 0
        /\ refCount' = [dropped EXCEPT ![d] = 1]
    BY <1>8 DEF CreateDecoder
  <2>2. ASSUME NEW x \in Decoders
        PROVE  refCount'[x] = Cardinality(Users(x)') + (IF decoder' = x THEN 1 ELSE 0)
    <3>1. refCount'[x] = IF x = d THEN 1 ELSE dropped[x]
      BY <1>6, <2>1
    <3>2. dropped[x] = Cardinality(Users(x)) /\ Cardinality(Users(x)) \in Nat
      BY <1>6, UsersFinite
    <3> QED
      BY <1>4, <2>1, <3>1, <3>2
  <2>3. RefCountExact'
    BY <2>2, CountIsNext
  <2>4. refCount' \in [Decoders -> Nat]
    BY <1>6, <2>1
  <2>5. TypeOK'
    BY <1>1, <2>1, <2>4 DEF TypeOK, queue
  <2> QED
    BY <1>2, <1>3, <2>3, <2>5
<1> QED
  BY <1>7, <1>8

(* A received buffer is about to be put.                                   *)
LEMMA ProcessStep ==
  ASSUME IInv, NEW b \in Buffers, Process(b)
  PROVE  IInv'
<1> USE DEF IInv
<1>1. /\ spc = "idle" /\ spc' = "put" /\ opMode = "active" /\ decoder # None /\ b \in pool
      /\ pool' = pool \ {b} /\ incoming' = b /\ incoming = None
      /\ memo' = [memo EXCEPT ![b] = decoder] /\ refCount' = RefInc(refCount, decoder)
      /\ UNCHANGED <<opMode, enabled, queue, ring, dpc, holding, decoder>>
  BY DEF Process, queue, Phases
<1>2. Shape' /\ Room' /\ Contents' /\ \A q, k : Taken(q, k)' <=> Taken(q, k)
  BY <1>1, QueueKept
<1>3. Placed'
  <2>1. Queued'
    BY <1>1, <1>2 DEF Placed, Queued
  <2>2. Apart'
    BY <1>1, <1>2 DEF Placed, Apart
  <2>3. Kept'
    BY <1>1, <1>2, EntryAssumption DEF Placed, Kept
  <2> QED
    BY <2>1, <2>2, <2>3 DEF Placed
<1>4. Reading' /\ Phases'
  BY <1>1, EntryAssumption DEF Reading, CaretEmpty, CaretEntry, queue, Phases
<1>5. Memos'
  BY <1>1 DEF Memos, TypeOK
<1>6. /\ refCount' \in [Decoders -> Nat]
      /\ \A d \in Decoders : refCount'[d] = IF decoder = d THEN refCount[d] + 1 ELSE refCount[d]
  BY <1>1, RefIncIs DEF TypeOK
<1>7. TypeOK'
  BY <1>1, <1>6 DEF TypeOK, queue, ServerPCs
<1>8. ASSUME NEW d \in Decoders
      PROVE  refCount'[d] = Cardinality(Users(d)') + (IF decoder' = d THEN 1 ELSE 0)
  <2>1. /\ refCount[d] = Cardinality(Users(d)) + (IF decoder = d THEN 1 ELSE 0)
        /\ Cardinality(Users(d)) \in Nat
    BY CountIs, UsersFinite
  <2>2. CASE decoder = d
    <3>1. Users(d)' = Users(d) \cup {b} /\ b \notin Users(d)
      BY <1>1, <2>2 DEF Users, TypeOK
    <3>2. Cardinality(Users(d)') = Cardinality(Users(d)) + 1
      BY <3>1, UsersFinite, FS_AddElement
    <3> QED
      BY <1>1, <1>6, <2>1, <2>2, <3>2
  <2>3. CASE decoder # d
    <3>1. Users(d)' = Users(d)
      BY <1>1, <2>3 DEF Users, TypeOK
    <3> QED
      BY <1>1, <1>6, <2>1, <2>3, <3>1
  <2> QED
    BY <2>2, <2>3
<1>9. RefCountExact'
  BY <1>8, CountIsNext
<1>10. Shape' /\ Room' /\ Contents'
  BY <1>2
<1> QED
  BY <1>3, <1>4, <1>5, <1>7, <1>9, <1>10

(* The put failed, the output discards the buffer.                         *)
LEMMA PutFailsStep ==
  ASSUME IInv, PutFails
  PROVE  IInv'
<1> USE DEF IInv
<1>1. /\ spc = "put" /\ spc' = "recycle" /\ incoming \in Buffers \ pool /\ incoming' = None
      /\ opMode = "active" /\ pool' = pool \cup {incoming}
      /\ refCount' = RefDec(refCount, memo[incoming])
      /\ UNCHANGED <<opMode, enabled, queue, ring, dpc, holding, decoder, memo>>
  BY DEF PutFails, queue, Phases, TypeOK, Placed, Queued
<1>2. Shape' /\ Room' /\ Contents' /\ \A q, k : Taken(q, k)' <=> Taken(q, k)
  BY <1>1, QueueKept
<1>3. Placed'
  <2>1. Queued'
    <3>1. ASSUME NEW q \in Blocks, NEW k \in Indices(q), Taken(q, k)
          PROVE  ring[<<q, k>>] \notin pool' /\ ring[<<q, k>>] # None
      <4>1. ring[<<q, k>>] \notin pool /\ ring[<<q, k>>] # incoming /\ ring[<<q, k>>] # None
        BY <3>1 DEF Placed, Queued, Contents
      <4> QED
        BY <1>1, <4>1
    <3>2. None \notin pool'
      BY <1>1, EntryAssumption DEF TypeOK
    <3>3. ring' = ring
      BY <1>1
    <3> QED
      BY <1>1, <1>2, <3>1, <3>2, <3>3 DEF Queued
  <2>2. Apart'
    BY <1>1, <1>2 DEF Placed, Apart
  <2>3. Kept'
    BY <1>1, <1>2 DEF Placed, Kept
  <2> QED
    BY <2>1, <2>2, <2>3 DEF Placed
<1>4. Reading' /\ Phases' /\ Memos'
  BY <1>1, EntryAssumption DEF Reading, CaretEmpty, CaretEntry, queue, Phases, Memos
<1>5. \A d \in Decoders : Users(d)' = Users(d) \ {incoming}
  BY <1>1 DEF Users
<1>6. RefCountExact' /\ refCount' \in [Decoders -> Nat]
  BY <1>1, <1>5, UserLeaves
<1>7. TypeOK'
  BY <1>1, <1>6 DEF TypeOK, queue, ServerPCs
<1> QED
  BY <1>2, <1>3, <1>4, <1>6, <1>7

(* Something is written into the free cell at the head.                    *)
LEMMA HeadWritten ==
  ASSUME TypeOK, Shape, Room, Contents, Placed, UNCHANGED <<headQ, caretQ, tailQ, head, caret, tail>>,
         UNCHANGED <<pool, incoming, dpc>>,
         NEW x, ring' = [ring EXCEPT ![<<headQ, head[headQ]>>] = x]
  PROVE  /\ Shape' /\ Placed'
         /\ ring'[<<headQ, head[headQ]>>] = x
         /\ \A q, k : Taken(q, k)' <=> Taken(q, k)
         /\ \A q \in Blocks : \A k \in Indices(q) :
               Taken(q, k) => ring'[<<q, k>>] = ring[<<q, k>>]
<1>1. ring \in [Cells -> Buffers \cup {Link, None}] /\ <<headQ, head[headQ]>> \in Cells
  BY PlacesType, CellsAre DEF TypeOK
<1>2. \A q, k : Taken(q, k)' <=> Taken(q, k)
  BY DEF Taken
<1>3. ASSUME NEW q \in Blocks, NEW k \in Indices(q), Taken(q, k)
      PROVE  ring'[<<q, k>>] = ring[<<q, k>>]
  <2>1. <<q, k>> \in Cells
    BY CellsAre
  <2>2. <<q, k>> # <<headQ, head[headQ]>>
    BY <1>3, HeadFree
  <2> QED
    BY <1>1, <2>1, <2>2
<1>4. Shape'
  BY DEF Shape
<1>5. Placed'
  <2>1. Queued'
    BY <1>2, <1>3 DEF Placed, Queued
  <2>2. Apart'
    BY <1>2, <1>3 DEF Placed, Apart
  <2>3. Kept'
    BY <1>2, <1>3 DEF Placed, Kept
  <2> QED
    BY <2>1, <2>2, <2>3 DEF Placed
<1> QED
  BY <1>1, <1>2, <1>3, <1>4, <1>5

LEMMA PutLinkStep ==
  ASSUME IInv, PutLink
  PROVE  IInv'
<1> USE DEF IInv
<1>1. /\ spc = "put" /\ spc' = "link" /\ headQ < LastBlock
      /\ ring' = [ring EXCEPT ![<<headQ, head[headQ]>>] = Link]
      /\ UNCHANGED <<incoming, opMode, enabled, headQ, caretQ, tailQ, head, caret, tail, dpc,
                     holding, pool, refs>>
  BY DEF PutLink
<1>2. /\ Shape' /\ Placed'
      /\ ring'[<<headQ, head[headQ]>>] = Link
      /\ \A q, k : Taken(q, k)' <=> Taken(q, k)
      /\ \A q \in Blocks : \A k \in Indices(q) : Taken(q, k) => ring'[<<q, k>>] = ring[<<q, k>>]
  BY <1>1, HeadWritten
<1>3. Room'
  BY <1>1 DEF Room
<1>4. Contents'
  BY <1>1, <1>2 DEF Contents
<1>5. Reading'
  BY <1>1, <1>2, CaretTaken, PlacesType DEF Reading, CaretEmpty, CaretEntry
<1>6. Phases'
  BY <1>1 DEF Phases
<1>7. TypeOK'
  BY <1>1 DEF TypeOK, refs, ServerPCs
<1>8. RefCountExact' /\ Memos'
  BY <1>1, RefsKept
<1> QED
  BY <1>2, <1>3, <1>4, <1>5, <1>6, <1>7, <1>8

LEMMA PutEntryStep ==
  ASSUME IInv, PutEntry
  PROVE  IInv'
<1> USE DEF IInv
<1>1. /\ spc' = "entry"
      /\ (spc = "put" /\ ~Full(headQ)) \/ spc = "linked"
      /\ ring' = [ring EXCEPT ![<<headQ, head[headQ]>>] = incoming]
      /\ UNCHANGED <<incoming, opMode, enabled, headQ, caretQ, tailQ, head, caret, tail, dpc,
                     holding, pool, refs>>
  BY DEF PutEntry
<1>2. /\ Shape' /\ Placed'
      /\ ring'[<<headQ, head[headQ]>>] = incoming
      /\ \A q, k : Taken(q, k)' <=> Taken(q, k)
      /\ \A q \in Blocks : \A k \in Indices(q) : Taken(q, k) => ring'[<<q, k>>] = ring[<<q, k>>]
  BY <1>1, HeadWritten
<1>3. ~Full(headQ)
  <2>1. CASE spc = "linked"
    <3>1. headQ > 0 /\ head[headQ] = 0 /\ tail[headQ] = 0 /\ headQ \in Blocks
      BY <2>1, PlacesType DEF Room
    <3>2. Size[headQ] > 2 /\ Size[headQ] \in Nat /\ 0 \in Indices(headQ)
      BY <3>1, Sizes
    <3>3. Succ(headQ, 0) = 1 /\ 1 \in Indices(headQ)
      BY <3>1, <3>2, SuccIs
    <3>4. Succ(headQ, 1) # 0
      BY <3>1, <3>2, <3>3, SuccIs
    <3> QED
      BY <3>1, <3>2, <3>3, <3>4, FullIs
  <2> QED
    BY <1>1, <2>1
<1>4. Room'
  <2>1. Full(headQ)' <=> Full(headQ)
    BY <1>1 DEF Full
  <2> QED
    BY <1>1, <1>3, <2>1 DEF Room
<1>5. Contents'
  BY <1>1, <1>2 DEF Contents
<1>6. Reading'
  BY <1>1, <1>2, CaretTaken, PlacesType DEF Reading, CaretEmpty, CaretEntry
<1>7. Phases'
  BY <1>1 DEF Phases
<1>8. TypeOK'
  BY <1>1 DEF TypeOK, refs, ServerPCs
<1>9. RefCountExact' /\ Memos'
  BY <1>1, RefsKept
<1> QED
  BY <1>2, <1>4, <1>5, <1>6, <1>7, <1>8, <1>9

(* An index moves on.                                                      *)
LEMMA IndexMoves ==
  ASSUME NEW f \in [Blocks -> Nat], \A q \in Blocks : f[q] \in Indices(q), NEW r \in Blocks,
         NEW g, g = [f EXCEPT ![r] = Succ(r, @)]
  PROVE  /\ g \in [Blocks -> Nat]
         /\ \A q \in Blocks : g[q] \in Indices(q)
         /\ g[r] = Succ(r, f[r])
         /\ \A q \in Blocks \ {r} : g[q] = f[q]
<1>1. Succ(r, f[r]) \in Indices(r) /\ Succ(r, f[r]) \in Nat
  <2>1. Succ(r, f[r]) \in Indices(r)
    BY SuccIs
  <2> QED
    BY <2>1, Sizes
<1>2. g[r] = Succ(r, f[r]) /\ \A q \in Blocks \ {r} : g[q] = f[q]
  OBVIOUS
<1>3. g \in [Blocks -> Nat]
  BY <1>1
<1> QED
  BY <1>1, <1>2, <1>3

(* The head of the last queue buffer moves on.                             *)
LEMMA HeadMoves ==
  ASSUME TypeOK, Shape, Room, head' = [head EXCEPT ![headQ] = Succ(headQ, @)],
         headQ' \in {headQ, headQ + 1}, headQ' \in Blocks,
         UNCHANGED <<caretQ, tailQ, caret, tail, dpc>>
  PROVE  /\ Shape'
         /\ head'[headQ] = Succ(headQ, head[headQ])
         /\ \A q \in Blocks \ {headQ} : head'[q] = head[q]
         /\ \A q \in Blocks : \A k \in Indices(q) :
               Taken(q, k)' <=> Taken(q, k) \/ (q = headQ /\ k = head[headQ])
<1>1. /\ head'[headQ] = Succ(headQ, head[headQ])
      /\ \A q \in Blocks \ {headQ} : head'[q] = head[q]
  BY PlacesType DEF TypeOK
<1>2. tailQ <= headQ /\ caretQ <= headQ
  BY PlacesType DEF Shape
<1>3. /\ Between(tail[headQ], caret[headQ], Succ(headQ, head[headQ]))
      /\ caret[headQ] # Succ(headQ, head[headQ])
      /\ \A k \in Indices(headQ) :
            Within(k, tail[headQ], Succ(headQ, head[headQ]))
               <=> Within(k, tail[headQ], head[headQ]) \/ k = head[headQ]
  <2>1. Between(tail[headQ], caret[headQ], head[headQ])
    BY <1>2, PlacesType DEF Shape
  <2> QED
    BY <2>1, PlacesType, HeadAdvances DEF Room
<1>4. ASSUME NEW q \in Blocks
      PROVE  /\ q > headQ' => head'[q] = 0
             /\ q > caretQ => caret[q] = 0 /\ tail[q] = 0
             /\ q < caretQ => caret[q] = head'[q]
             /\ q >= tailQ => Between(tail[q], caret[q], head'[q])
             /\ q \in tailQ .. headQ' - 1 => tail[q] # head'[q]
  <2>0. headQ \in Int /\ headQ' \in Int /\ tailQ \in Int /\ caretQ \in Int /\ q \in Int
    BY PlacesType
  <2>1. CASE q = headQ
    <3>1. ~(q > headQ') /\ ~(q < caretQ)
      BY <1>2, <2>0, <2>1
    <3>2. tail[q] # head'[q] /\ Between(tail[q], caret[q], head'[q])
      BY <1>1, <1>3, <2>1 DEF Room
    <3> QED
      BY <3>1, <3>2 DEF Shape
  <2>2. CASE q # headQ
    <3>1. head'[q] = head[q]
      BY <1>1, <2>2
    <3>2. q > headQ' => q > headQ
      BY <2>0
    <3>3. q \in tailQ .. headQ' - 1 => q \in tailQ .. headQ - 1
      <4>1. headQ' = headQ \/ headQ' = headQ + 1
        OBVIOUS
      <4>2. CASE headQ' = headQ
        BY <4>2
      <4>3. CASE headQ' = headQ + 1
        BY <2>0, <2>2, <4>3
      <4> QED
        BY <4>1, <4>2, <4>3
    <3> QED
      BY <3>1, <3>2, <3>3 DEF Shape
  <2> QED
    BY <2>1, <2>2
<1>5. Shape'
  <2>1. caretQ' <= headQ' /\ (dpc' = "switch" => caretQ' < headQ')
    BY <1>2, PlacesType DEF Shape
  <2>2. tailQ' <= (IF dpc' = "switch" THEN caretQ' + 1 ELSE caretQ')
    BY DEF Shape
  <2>3. caretQ' < headQ' => (dpc' = "switch" <=> caret'[caretQ'] = head'[caretQ'])
    <3>1. CASE caretQ = headQ
      BY <1>1, <1>3, <3>1, PlacesType DEF Shape
    <3>2. CASE caretQ # headQ
      BY <1>1, <1>2, <3>2, PlacesType DEF Shape
    <3> QED
      BY <3>1, <3>2
  <2> QED
    BY <1>4, <2>1, <2>2, <2>3 DEF Shape
<1>6. ASSUME NEW q \in Blocks, NEW k \in Indices(q)
      PROVE  Taken(q, k)' <=> Taken(q, k) \/ (q = headQ /\ k = head[headQ])
  <2>1. CASE q = headQ
    BY <1>1, <1>2, <1>3, <2>1, PlacesType DEF Taken
  <2>2. CASE q # headQ /\ q <= headQ
    BY <1>1, <2>2, PlacesType DEF Taken
  <2>3. CASE q > headQ
    <3>1. tail[q] = 0 /\ head'[q] = 0
      BY <1>1, <1>2, <2>3, PlacesType DEF Shape
    <3>2. ~Within(k, tail'[q], head'[q])
      BY <3>1, Sizes DEF Within
    <3> QED
      BY <2>3, <3>2, PlacesType DEF Taken
  <2> QED
    BY <2>1, <2>2, <2>3, PlacesType
<1> QED
  BY <1>1, <1>5, <1>6

(* The waiting entry stays what it is when the head moves.                 *)
LEMMA MoveHeadStep ==
  ASSUME IInv, MoveHead
  PROVE  IInv'
<1> USE DEF IInv
<1>1. /\ spc = "entry" /\ spc' = "recycle" /\ incoming' = None
      /\ head' = [head EXCEPT ![headQ] = Succ(headQ, @)]
      /\ UNCHANGED <<opMode, enabled, headQ, caretQ, tailQ, caret, tail, ring, dpc, holding, pool, refs>>
  BY DEF MoveHead
<1>2. /\ incoming \in Buffers /\ ring[<<headQ, head[headQ]>>] = incoming /\ opMode = "active"
      /\ ~Full(headQ)
  BY <1>1 DEF Phases, Contents, TypeOK, Room
<1>3. /\ Shape'
      /\ head'[headQ] = Succ(headQ, head[headQ])
      /\ \A q \in Blocks \ {headQ} : head'[q] = head[q]
      /\ \A q \in Blocks : \A k \in Indices(q) :
            Taken(q, k)' <=> Taken(q, k) \/ (q = headQ /\ k = head[headQ])
  BY <1>1, HeadMoves, PlacesType
<1>4. Room'
  <2>1. Succ(headQ, Succ(headQ, head[headQ])) # tail[headQ]
    BY <1>2, FullIs, PlacesType
  <2> QED
    BY <1>1, <1>3, <2>1 DEF Room
<1>5. Contents'
  <2>1. ASSUME NEW q \in Blocks, NEW k \in Indices(q), Taken(q, k)'
        PROVE  ring[<<q, k>>] # None /\ (ring[<<q, k>>] = Link <=> q < headQ /\ Succ(q, k) = head'[q])
    <3>1. CASE Taken(q, k)
      BY <1>3, <3>1, PlacesType DEF Contents
    <3>2. CASE q = headQ /\ k = head[headQ]
      BY <1>2, <3>2, EntryAssumption, PlacesType
    <3> QED
      BY <1>3, <2>1, <3>1, <3>2
  <2> QED
    BY <1>1, <2>1 DEF Contents
<1>6. Placed'
  <2>1. incoming \notin pool /\ ~Taken(headQ, head[headQ])
    BY HeadFree DEF Placed, Queued
  <2>2. \A q \in Blocks : \A k \in Indices(q) : Taken(q, k) => ring[<<q, k>>] # None
    BY DEF Contents
  <2>3. Queued'
    <3>1. None \notin pool
      BY EntryAssumption DEF TypeOK
    <3>2. ASSUME NEW q \in Blocks, NEW k \in Indices(q), Taken(q, k)'
          PROVE  ring[<<q, k>>] \notin pool /\ ring[<<q, k>>] # None
      BY <1>2, <1>3, <2>1, <2>2, <3>2, EntryAssumption DEF Placed, Queued
    <3> QED
      BY <1>1, <3>1, <3>2 DEF Queued
  <2>4. Apart'
    BY <1>1, <1>2, <1>3 DEF Placed, Apart, Queued
  <2>5. ASSUME NEW b \in Buffers \ pool
        PROVE  \E q \in Blocks : \E k \in Indices(q) : Taken(q, k)' /\ ring[<<q, k>>] = b
    <3>1. CASE b = incoming
      BY <1>2, <1>3, <3>1, PlacesType
    <3>2. CASE b # incoming
      BY <1>3, <3>2 DEF Placed, Kept
    <3> QED
      BY <3>1, <3>2
  <2>6. Kept'
    BY <1>1, <2>5 DEF Kept
  <2> QED
    BY <2>3, <2>4, <2>6 DEF Placed
<1>7. Reading'
  <2>1. ~CaretEmpty => ~CaretEmpty'
    <3>1. Between(tail[headQ], caret[headQ], head[headQ])
      BY PlacesType DEF Shape
    <3>2. caret[headQ] # Succ(headQ, head[headQ])
      BY <3>1, HeadAdvances, PlacesType DEF Room
    <3> QED
      BY <1>1, <1>3, <3>2, PlacesType DEF CaretEmpty
  <2> QED
    BY <1>1, <2>1 DEF Reading, CaretEntry
<1>8. Phases'
  BY <1>1, <1>2 DEF Phases
<1>9. head' \in [Blocks -> Nat] /\ \A q \in Blocks : head'[q] \in Indices(q)
  <2>1. head \in [Blocks -> Nat]
    BY DEF TypeOK
  <2> QED
    BY <1>1, <2>1, IndexMoves, PlacesType
<1>10. TypeOK'
  BY <1>1, <1>9 DEF TypeOK, refs, ServerPCs
<1>11. RefCountExact' /\ Memos'
  BY <1>1, RefsKept
<1> QED
  BY <1>3, <1>4, <1>5, <1>6, <1>7, <1>8, <1>10, <1>11

LEMMA MoveHeadToLinkStep ==
  ASSUME IInv, MoveHeadToLink
  PROVE  IInv'
<1> USE DEF IInv
<1>1. /\ spc = "link" /\ spc' = "linked"
      /\ head' = [head EXCEPT ![headQ] = Succ(headQ, @)]
      /\ headQ' = headQ + 1
      /\ UNCHANGED <<incoming, opMode, enabled, caretQ, tailQ, caret, tail, ring, dpc, holding,
                     pool, refs>>
  BY DEF MoveHeadToLink
<1>2. /\ headQ' \in Blocks /\ headQ \in Blocks
      /\ ring[<<headQ, head[headQ]>>] = Link /\ opMode = "active"
      /\ incoming \in Buffers /\ caretQ <= headQ
  BY <1>1, PlacesType, SizeAssumption DEF Phases, Contents, Room, TypeOK, Shape
<1>3. /\ Shape'
      /\ head'[headQ] = Succ(headQ, head[headQ])
      /\ \A q \in Blocks \ {headQ} : head'[q] = head[q]
      /\ \A q \in Blocks : \A k \in Indices(q) :
            Taken(q, k)' <=> Taken(q, k) \/ (q = headQ /\ k = head[headQ])
  BY <1>1, <1>2, HeadMoves
<1>4. Room'
  <2>1. head'[headQ'] = 0 /\ tail[headQ'] = 0 /\ 0 \in Indices(headQ')
    BY <1>1, <1>2, <1>3, PlacesType, Sizes DEF Shape
  <2>2. Succ(headQ', 0) # 0
    BY <1>2, <2>1, SuccIs, Sizes
  <2>3. headQ' > 0
    BY <1>1, <1>2, SizeAssumption
  <2> QED
    BY <1>1, <2>1, <2>2, <2>3 DEF Room
<1>5. Contents'
  <2>1. ASSUME NEW q \in Blocks, NEW k \in Indices(q), Taken(q, k)'
        PROVE  /\ ring[<<q, k>>] # None
               /\ ring[<<q, k>>] = Link <=> q < headQ' /\ Succ(q, k) = head'[q]
    <3>1. CASE Taken(q, k) /\ q # headQ
      BY <1>1, <1>3, <3>1, PlacesType DEF Contents, Taken
    <3>2. CASE Taken(q, k) /\ q = headQ
      <4>1. k # head[headQ]
        BY <3>2, HeadFree
      <4>2. Succ(q, k) # head'[q]
        BY <1>3, <3>2, <4>1, SuccInjective, PlacesType
      <4> QED
        BY <3>2, <4>2, PlacesType DEF Contents
    <3>3. CASE q = headQ /\ k = head[headQ]
      BY <1>1, <1>2, <1>3, <3>3, EntryAssumption, PlacesType
    <3> QED
      BY <1>3, <2>1, <3>1, <3>2, <3>3
  <2> QED
    BY <1>1, <2>1 DEF Contents
<1>6. Placed'
  <2>1. Queued'
    <3>1. pool' = pool /\ incoming' = incoming /\ ring' = ring /\ pool \subseteq Buffers
      BY <1>1 DEF TypeOK
    <3>2. ASSUME NEW q \in Blocks, NEW k \in Indices(q), Taken(q, k)'
          PROVE  ring[<<q, k>>] \notin pool /\ ring[<<q, k>>] # incoming
      <4>1. CASE Taken(q, k)
        BY <4>1 DEF Placed, Queued
      <4>2. CASE q = headQ /\ k = head[headQ]
        BY <1>2, <3>1, <4>2, EntryAssumption
      <4> QED
        BY <1>3, <3>2, <4>1, <4>2
    <3>3. incoming \notin pool
      BY DEF Placed, Queued
    <3> QED
      BY <3>1, <3>2, <3>3 DEF Queued
  <2>2. Apart'
    <3>1. \A q \in Blocks : \A k \in Indices(q) :
             Taken(q, k)' /\ ring[<<q, k>>] # Link => Taken(q, k)
      BY <1>2, <1>3
    <3>2. Apart /\ ring' = ring
      BY <1>1 DEF Placed
    <3> QED
      BY <3>1, <3>2 DEF Apart
  <2>3. Kept'
    BY <1>1, <1>3 DEF Placed, Kept
  <2> QED
    BY <2>1, <2>2, <2>3 DEF Placed
<1>7. Reading'
  <2>1. ~CaretEmpty => ~CaretEmpty'
    <3>1. Between(tail[headQ], caret[headQ], head[headQ])
      BY PlacesType DEF Shape
    <3>2. caret[headQ] # Succ(headQ, head[headQ])
      BY <3>1, HeadAdvances, PlacesType DEF Room
    <3> QED
      BY <1>1, <1>3, <3>2, PlacesType DEF CaretEmpty
  <2> QED
    BY <1>1, <2>1 DEF Reading, CaretEntry
<1>8. Phases'
  BY <1>1, <1>2 DEF Phases
<1>9. head' \in [Blocks -> Nat] /\ \A q \in Blocks : head'[q] \in Indices(q)
  <2>1. head \in [Blocks -> Nat]
    BY DEF TypeOK
  <2> QED
    BY <1>1, <2>1, IndexMoves, PlacesType
<1>10. TypeOK'
  BY <1>1, <1>2, <1>9 DEF TypeOK, refs, ServerPCs
<1>11. RefCountExact' /\ Memos'
  BY <1>1, RefsKept
<1> QED
  BY <1>3, <1>4, <1>5, <1>6, <1>7, <1>8, <1>10, <1>11

(* The tail moves past an entry that was taken.                            *)
LEMMA TailMoves ==
  ASSUME TypeOK, Shape, Contents, TrashLeft, tail' = [tail EXCEPT ![tailQ] = Succ(tailQ, @)],
         UNCHANGED <<headQ, head, caret, caretQ, dpc>>,
         \/ tailQ' = tailQ /\ TrashEntry # Link
         \/ tailQ' = tailQ + 1 /\ TrashEntry = Link
  PROVE  /\ Shape' /\ tailQ' <= headQ
         /\ tail'[tailQ] = Succ(tailQ, tail[tailQ])
         /\ \A q \in Blocks \ {tailQ} : tail'[q] = tail[q]
         /\ \A q \in Blocks : \A k \in Indices(q) :
               Taken(q, k)' <=> Taken(q, k) /\ ~(q = tailQ /\ k = tail[tailQ])
<1>0. headQ \in Int /\ caretQ \in Int /\ tailQ \in Int /\ tailQ \in Blocks /\ caretQ \in Blocks
  BY PlacesType
<1>1. /\ tail'[tailQ] = Succ(tailQ, tail[tailQ])
      /\ \A q \in Blocks \ {tailQ} : tail'[q] = tail[q]
  BY PlacesType DEF TypeOK
<1>2. /\ Taken(tailQ, tail[tailQ])
      /\ TrashEntry = Link <=> tailQ < headQ /\ Succ(tailQ, tail[tailQ]) = head[tailQ]
      /\ tailQ <= caretQ /\ caretQ <= headQ
      /\ tail[tailQ] # caret[tailQ]
      /\ Between(tail[tailQ], caret[tailQ], head[tailQ])
  BY TrashTaken, PlacesType DEF Shape, Contents, TrashEntry, TrashLeft
<1>3. /\ Between(Succ(tailQ, tail[tailQ]), caret[tailQ], head[tailQ])
      /\ \A k \in Indices(tailQ) :
            Within(k, Succ(tailQ, tail[tailQ]), head[tailQ])
               <=> Within(k, tail[tailQ], head[tailQ]) /\ k # tail[tailQ]
  BY <1>2, PlacesType, TailAdvances
<1>4. CASE tailQ' = tailQ /\ TrashEntry # Link
  <2>1. Shape'
    <3>1. ASSUME NEW q \in Blocks
          PROVE  /\ q > caretQ => caret[q] = 0 /\ tail'[q] = 0
                 /\ q >= tailQ => Between(tail'[q], caret[q], head[q])
                 /\ q \in tailQ .. headQ - 1 => tail'[q] # head[q]
      <4>1. CASE q = tailQ
        BY <1>0, <1>1, <1>2, <1>3, <1>4, <4>1 DEF Shape
      <4>2. CASE q # tailQ
        BY <1>1, <4>2 DEF Shape
      <4> QED
        BY <4>1, <4>2
    <3> QED
      BY <1>4, <3>1 DEF Shape
  <2>2. ASSUME NEW q \in Blocks, NEW k \in Indices(q)
        PROVE  Taken(q, k)' <=> Taken(q, k) /\ ~(q = tailQ /\ k = tail[tailQ])
    <3>1. CASE q = tailQ
      BY <1>1, <1>3, <1>4, <3>1 DEF Taken
    <3>2. CASE q # tailQ
      BY <1>1, <1>4, <3>2 DEF Taken
    <3> QED
      BY <3>1, <3>2
  <2> QED
    BY <1>0, <1>1, <1>2, <1>4, <2>1, <2>2
<1>5. CASE tailQ' = tailQ + 1 /\ TrashEntry = Link
  <2>0. tailQ < headQ /\ tail'[tailQ] = head[tailQ]
    BY <1>1, <1>2, <1>5
  <2>1. Shape'
    <3>1. tailQ = caretQ => dpc = "switch"
      <4>1. Between(head[tailQ], caret[tailQ], head[tailQ])
        BY <1>1, <1>3, <2>0
      <4>2. caret[tailQ] = head[tailQ]
        BY <1>0, <4>1, PlacesType, Sizes DEF Between
      <4> QED
        BY <2>0, <4>2 DEF Shape
    <3>2. tailQ' <= (IF dpc' = "switch" THEN caretQ' + 1 ELSE caretQ')
      BY <1>0, <1>2, <1>5, <3>1
    <3>3. ASSUME NEW q \in Blocks
          PROVE  /\ q > caretQ => caret[q] = 0 /\ tail'[q] = 0
                 /\ q >= tailQ' => Between(tail'[q], caret[q], head[q])
                 /\ q \in tailQ' .. headQ - 1 => tail'[q] # head[q]
      <4>0. q \in Int
        BY PlacesType
      <4>1. CASE q = tailQ
        BY <1>0, <1>2, <1>5, <4>1
      <4>2. CASE q # tailQ
        BY <1>0, <1>1, <1>5, <4>0, <4>2 DEF Shape
      <4> QED
        BY <4>1, <4>2
    <3> QED
      BY <3>2, <3>3 DEF Shape
  <2>2. ASSUME NEW q \in Blocks, NEW k \in Indices(q)
        PROVE  Taken(q, k)' <=> Taken(q, k) /\ ~(q = tailQ /\ k = tail[tailQ])
    <3>0. q \in Int
      BY PlacesType
    <3>1. CASE q = tailQ
      <4>1. ~Taken(q, k)'
        BY <1>0, <1>5, <3>1 DEF Taken
      <4>2. ~Within(k, head[tailQ], head[tailQ])
        BY <3>1, PlacesType, Ends
      <4>3. Within(k, tail[tailQ], head[tailQ]) => k = tail[tailQ]
        BY <1>1, <1>3, <2>0, <3>1, <4>2
      <4> QED
        BY <3>1, <4>1, <4>3 DEF Taken
    <3>2. CASE q # tailQ
      BY <1>0, <1>1, <1>5, <3>0, <3>2 DEF Taken
    <3> QED
      BY <3>1, <3>2
  <2> QED
    BY <1>0, <1>1, <1>5, <2>0, <2>1, <2>2
<1> QED
  BY <1>4, <1>5

LEMMA RecycleStep ==
  ASSUME IInv, Recycle
  PROVE  IInv'
<1> USE DEF IInv
<1>1. /\ spc = "recycle" /\ TrashLeft /\ TrashEntry \in Buffers
      /\ refCount' = RefDec(refCount, memo[TrashEntry])
      /\ memo' = [memo EXCEPT ![TrashEntry] = None]
      /\ pool' = pool \cup {TrashEntry}
      /\ tail' = [tail EXCEPT ![tailQ] = Succ(tailQ, @)]
      /\ ring' = [ring EXCEPT ![<<tailQ, tail[tailQ]>>] = None]
      /\ UNCHANGED <<spc, incoming, opMode, enabled, headQ, caretQ, tailQ, head, caret, dpc,
                     holding, decoder>>
  BY DEF Recycle
<1>2. Taken(tailQ, tail[tailQ]) /\ TrashEntry # Link /\ TrashEntry \notin pool /\ incoming = None
  BY <1>1, TrashTaken, EntryAssumption, PlacesType
  DEF Placed, Queued, TrashEntry, Phases
<1>3. /\ Shape'
      /\ tail'[tailQ] = Succ(tailQ, tail[tailQ])
      /\ \A q \in Blocks \ {tailQ} : tail'[q] = tail[q]
      /\ \A q \in Blocks : \A k \in Indices(q) :
            Taken(q, k)' <=> Taken(q, k) /\ ~(q = tailQ /\ k = tail[tailQ])
  BY <1>1, <1>2, TailMoves
<1>4. Room'
  <2>1. CASE headQ = tailQ
    <3>1. tail[headQ] # head[headQ]
      BY <2>1, <1>1, PlacesType, TrashTaken, TailAdvances DEF TrashLeft
    <3>2. Succ(headQ, head[headQ]) # Succ(headQ, tail[headQ])
      BY <3>1, PlacesType, SuccInjective
    <3> QED
      BY <1>1, <1>3, <2>1, <3>2 DEF Room
  <2>2. CASE headQ # tailQ
    BY <1>1, <1>3, <2>2, PlacesType DEF Room
  <2> QED
    BY <2>1, <2>2
<1>5. ASSUME NEW q \in Blocks, NEW k \in Indices(q), ~(q = tailQ /\ k = tail[tailQ])
      PROVE  ring'[<<q, k>>] = ring[<<q, k>>]
  <2>1. <<q, k>> \in Cells /\ <<q, k>> # <<tailQ, tail[tailQ]>>
    BY <1>5, CellsAre
  <2> QED
    BY <1>1, <2>1 DEF TypeOK
<1>6. Contents'
  BY <1>1, <1>3, <1>5 DEF Contents
<1>7. Placed'
  <2>1. ASSUME NEW q \in Blocks, NEW k \in Indices(q), Taken(q, k)'
        PROVE  ring[<<q, k>>] # TrashEntry
    BY <1>2, <1>3, <2>1, PlacesType DEF Placed, Apart, TrashEntry
  <2>2. Queued'
    BY <1>1, <1>2, <1>3, <1>5, <2>1, EntryAssumption DEF Placed, Queued
  <2>3. Apart'
    BY <1>3, <1>5 DEF Placed, Apart
  <2>4. ASSUME NEW b \in Buffers \ (pool' \cup {incoming'})
        PROVE  \E q \in Blocks : \E k \in Indices(q) : Taken(q, k)' /\ ring'[<<q, k>>] = b
    <3>1. b # TrashEntry /\ b \in Buffers \ (pool \cup {incoming})
      BY <1>1
    <3>2. PICK q \in Blocks : \E n \in Indices(q) : Taken(q, n) /\ ring[<<q, n>>] = b
      BY <3>1 DEF Placed, Kept
    <3>3. PICK k \in Indices(q) : Taken(q, k) /\ ring[<<q, k>>] = b
      BY <3>2
    <3>4. ~(q = tailQ /\ k = tail[tailQ])
      BY <3>1, <3>3 DEF TrashEntry
    <3> QED
      BY <1>3, <1>5, <3>3, <3>4
  <2>5. Kept'
    BY <2>4 DEF Kept
  <2> QED
    BY <2>2, <2>3, <2>5 DEF Placed
<1>8. Reading'
  <2>1. ASSUME ~CaretEmpty
        PROVE  CaretEntry' = CaretEntry
    <3>1. ~(caretQ = tailQ /\ caret[caretQ] = tail[tailQ])
      BY <1>1 DEF TrashLeft
    <3> QED
      BY <1>1, <1>5, <3>1, PlacesType DEF CaretEntry
  <2> QED
    BY <1>1, <2>1 DEF Reading, CaretEmpty
<1>9. Phases'
  BY <1>1 DEF Phases
<1>10. /\ RefCountExact' /\ refCount' \in [Decoders -> Nat] /\ Memos'
  <2>1. \A d \in Decoders : Users(d)' = Users(d) \ {TrashEntry}
    BY <1>1, EntryAssumption DEF Users, TypeOK
  <2>2. Memos'
    BY <1>1 DEF Memos, TypeOK
  <2> QED
    BY <1>1, <1>2, <2>1, <2>2, UserLeaves
<1>11. tail' \in [Blocks -> Nat] /\ \A q \in Blocks : tail'[q] \in Indices(q)
  <2>1. tail \in [Blocks -> Nat]
    BY DEF TypeOK
  <2> QED
    BY <1>1, <2>1, IndexMoves, PlacesType
<1>12. TypeOK'
  <2>1. /\ ring' \in [Cells -> Buffers \cup {Link, None}] /\ pool' \subseteq Buffers
        /\ memo' \in [Buffers -> Decoders \cup {None}]
    BY <1>1 DEF TypeOK
  <2>2. UNCHANGED <<spc, incoming, opMode, enabled, headQ, caretQ, tailQ, head, caret, dpc,
                    holding, decoder>>
    BY <1>1
  <2>3. tailQ' \in Blocks
    BY <2>2, PlacesType
  <2> QED
    BY <1>10, <1>11, <2>1, <2>2, <2>3, TailTyped
<1> QED
  BY <1>3, <1>4, <1>6, <1>7, <1>8, <1>9, <1>10, <1>12

LEMMA FreeQueueStep ==
  ASSUME IInv, FreeQueue
  PROVE  IInv'
<1> USE DEF IInv
<1>1. /\ spc = "recycle" /\ TrashLeft /\ TrashEntry = Link
      /\ tail' = [tail EXCEPT ![tailQ] = Succ(tailQ, @)]
      /\ tailQ' = tailQ + 1
      /\ UNCHANGED <<spc, incoming, opMode, enabled, headQ, caretQ, head, caret, ring, dpc,
                     holding, pool, refs>>
  BY DEF FreeQueue
<1>2. /\ Taken(tailQ, tail[tailQ]) /\ tailQ < headQ
      /\ headQ \in Int /\ tailQ \in Int
  BY <1>1, TrashTaken, PlacesType
<1>3. /\ Shape' /\ tailQ' <= headQ
      /\ \A q \in Blocks \ {tailQ} : tail'[q] = tail[q]
      /\ \A q \in Blocks : \A k \in Indices(q) :
            Taken(q, k)' <=> Taken(q, k) /\ ~(q = tailQ /\ k = tail[tailQ])
  BY <1>1, TailMoves
<1>4. Room'
  BY <1>1, <1>2, <1>3, PlacesType DEF Room
<1>5. Contents'
  BY <1>1, <1>3 DEF Contents
<1>6. Placed'
  <2>1. Queued'
    BY <1>1, <1>3 DEF Placed, Queued
  <2>2. Apart'
    BY <1>1, <1>3 DEF Placed, Apart
  <2>3. ASSUME NEW b \in Buffers \ (pool \cup {incoming})
        PROVE  \E q \in Blocks : \E k \in Indices(q) : Taken(q, k)' /\ ring[<<q, k>>] = b
    <3>1. PICK q \in Blocks : \E n \in Indices(q) : Taken(q, n) /\ ring[<<q, n>>] = b
      BY DEF Placed, Kept
    <3>2. PICK k \in Indices(q) : Taken(q, k) /\ ring[<<q, k>>] = b
      BY <3>1
    <3>3. ~(q = tailQ /\ k = tail[tailQ])
      BY <1>1, <3>2, EntryAssumption DEF TrashEntry
    <3> QED
      BY <1>3, <3>2, <3>3
  <2>4. Kept'
    BY <1>1, <2>3 DEF Kept
  <2> QED
    BY <2>1, <2>2, <2>4 DEF Placed
<1>7. Reading' /\ Phases'
  BY <1>1, <1>2, <1>3, PlacesType DEF Reading, CaretEmpty, CaretEntry, Phases
<1>8. RefCountExact' /\ Memos'
  BY <1>1, RefsKept
<1>9. tail' \in [Blocks -> Nat] /\ \A q \in Blocks : tail'[q] \in Indices(q)
  <2>1. tail \in [Blocks -> Nat]
    BY DEF TypeOK
  <2> QED
    BY <1>1, <2>1, IndexMoves, PlacesType
<1>10. tailQ' \in Blocks
  BY <1>1, <1>2, PlacesType, SizeAssumption
<1>11. TypeOK'
  <2>1. UNCHANGED <<spc, incoming, opMode, enabled, headQ, caretQ, head, caret, ring, dpc,
                    holding, pool, decoder, memo, refCount>>
    BY <1>1 DEF refs
  <2>2. /\ ring' \in [Cells -> Buffers \cup {Link, None}] /\ pool' \subseteq Buffers
        /\ memo' \in [Buffers -> Decoders \cup {None}] /\ refCount' \in [Decoders -> Nat]
    BY <2>1 DEF TypeOK
  <2> QED
    BY <1>9, <1>10, <2>1, <2>2, TailTyped
<1> QED
  BY <1>3, <1>4, <1>5, <1>6, <1>7, <1>8, <1>11

(* A graceful stop finds the caret where it puts it.                       *)
LEMMA DiscardCaretStep ==
  ASSUME IInv, DiscardCaret
  PROVE  IInv'
<1> USE DEF IInv
<1>1. /\ spc = "discard" /\ spc' = "recycle" /\ caretQ = headQ /\ caret[headQ] = head[headQ]
      /\ ~enabled
      /\ opMode' = "idle"
      /\ UNCHANGED <<incoming, enabled, dpc, holding, pool, refs>>
  BY DEF DiscardCaret, Phases
<1>2. UNCHANGED queue /\ ring' = ring
  <2>1. caret' = caret
    BY <1>1 DEF DiscardCaret, TypeOK
  <2> QED
    BY <1>1, <2>1 DEF DiscardCaret, queue
<1>3. Shape' /\ Room' /\ Contents' /\ \A q, k : Taken(q, k)' <=> Taken(q, k)
  BY <1>1, <1>2, QueueKept
<1>4. Placed'
  BY <1>1, <1>2, <1>3, PlacedKept
<1>5. Reading'
  BY <1>1, <1>2 DEF Reading, CaretEmpty, CaretEntry, queue
<1>6. Phases'
  BY <1>1, <1>2 DEF Phases, queue
<1>7. TypeOK'
  BY <1>1, <1>2 DEF TypeOK, queue, refs, ServerPCs
<1>8. RefCountExact' /\ Memos'
  BY <1>1, RefsKept
<1> QED
  BY <1>3, <1>4, <1>5, <1>6, <1>7, <1>8

(* The driver moves the caret or changes the queue buffer: the entries     *)
(* stay, only the shape of the queue changes.                              *)
LEMMA CaretStep ==
  ASSUME IInv, UNCHANGED <<spc, incoming, opMode, enabled, headQ, tailQ, head, tail, ring, pool, refs>>
  PROVE  Room' /\ Contents' /\ Placed' /\ RefCountExact' /\ Memos'
<1> USE DEF IInv
<1>1. \A q, k : Taken(q, k)' <=> Taken(q, k)
  BY DEF Taken
<1>2. Room'
  BY DEF Room, Full
<1>3. Contents'
  BY <1>1 DEF Contents
<1>4. Placed'
  BY <1>1, PlacedKept
<1> QED
  BY <1>2, <1>3, <1>4, RefsKept

LEMMA PeekLinkStep ==
  ASSUME IInv, PeekLink
  PROVE  IInv'
<1> USE DEF IInv
<1>0. headQ \in Int /\ caretQ \in Int /\ tailQ \in Int /\ caretQ \in Blocks
  BY PlacesType
<1>1. /\ dpc = "peek" /\ dpc' = "switch" /\ ~CaretEmpty /\ CaretEntry = Link
      /\ caret' = [caret EXCEPT ![caretQ] = Succ(caretQ, @)]
      /\ UNCHANGED <<spc, incoming, opMode, enabled, headQ, caretQ, tailQ, head, tail, ring,
                     holding, pool, refs>>
  BY DEF PeekLink
<1>2. caretQ < headQ /\ Succ(caretQ, caret[caretQ]) = head[caretQ]
  BY <1>1, CaretTaken
<1>3. /\ caret' \in [Blocks -> Nat] /\ \A q \in Blocks : caret'[q] \in Indices(q)
      /\ caret'[caretQ] = head[caretQ]
      /\ \A q \in Blocks \ {caretQ} : caret'[q] = caret[q]
  <2>1. caret \in [Blocks -> Nat]
    BY DEF TypeOK
  <2> QED
    BY <1>1, <1>2, <2>1, IndexMoves, PlacesType
<1>4. Shape'
  <2>1. ASSUME NEW q \in Blocks
        PROVE  /\ q > caretQ => caret'[q] = 0 /\ tail[q] = 0
               /\ q < caretQ => caret'[q] = head[q]
               /\ q >= tailQ => Between(tail[q], caret'[q], head[q])
    <3>1. CASE q = caretQ
      BY <1>0, <1>3, <3>1, Ends, PlacesType
    <3>2. CASE q # caretQ
      BY <1>3, <3>2 DEF Shape
    <3> QED
      BY <3>1, <3>2
  <2> QED
    BY <1>0, <1>1, <1>2, <1>3, <2>1 DEF Shape
<1>5. Room' /\ Contents' /\ Placed' /\ RefCountExact' /\ Memos'
  BY <1>1, CaretStep
<1>6. Reading' /\ Phases'
  BY <1>0, <1>1, <1>2 DEF Reading, Phases
<1>7. TypeOK'
  <2>1. dpc' \in DriverPCs
    BY <1>1 DEF DriverPCs
  <2>2. UNCHANGED <<spc, incoming, opMode, enabled, headQ, caretQ, tailQ, head, tail, ring,
                    holding, pool, refs>>
    BY <1>1
  <2> QED
    BY <1>3, <2>1, <2>2, CaretTyped
<1> QED
  BY <1>4, <1>5, <1>6, <1>7

LEMMA SwitchQueueStep ==
  ASSUME IInv, SwitchQueue
  PROVE  IInv'
<1> USE DEF IInv
<1>0. headQ \in Int /\ caretQ \in Int /\ tailQ \in Int /\ caretQ \in Blocks
  BY PlacesType
<1>1. /\ dpc = "switch" /\ dpc' = "peek" /\ caretQ' = caretQ + 1
      /\ UNCHANGED <<spc, incoming, opMode, enabled, headQ, tailQ, head, caret, tail, ring,
                     holding, pool, refs>>
  BY DEF SwitchQueue
<1>2. caretQ < headQ /\ caret[caretQ] = head[caretQ] /\ tailQ <= caretQ + 1
  BY <1>1 DEF Shape
<1>3. caretQ' \in Blocks
  <2>1. headQ \in Blocks /\ LastBlock \in Int
    BY PlacesType, SizeAssumption
  <2> QED
    BY <1>0, <1>1, <1>2, <2>1
<1>4. Shape'
  <2>1. ASSUME NEW q \in Blocks
        PROVE  /\ q > caretQ' => caret[q] = 0 /\ tail[q] = 0
               /\ q < caretQ' => caret[q] = head[q]
    <3>1. q \in Int
      BY PlacesType
    <3> QED
      BY <1>0, <1>1, <1>2, <3>1 DEF Shape
  <2>2. caretQ' < headQ => caret[caretQ'] # head[caretQ']
    <3>1. caret[caretQ'] = 0 /\ tail[caretQ'] = 0
      BY <1>0, <1>1, <1>3 DEF Shape
    <3>2. caretQ' < headQ => tail[caretQ'] # head[caretQ']
      BY <1>0, <1>1, <1>2, <1>3 DEF Shape
    <3> QED
      BY <3>1, <3>2
  <2> QED
    BY <1>0, <1>1, <1>2, <2>1, <2>2 DEF Shape
<1>5. Room' /\ Contents' /\ Placed' /\ RefCountExact' /\ Memos'
  BY <1>1, CaretStep
<1>6. Reading' /\ Phases'
  BY <1>0, <1>1, <1>2 DEF Reading, Phases
<1>7. TypeOK'
  BY <1>1, <1>3 DEF TypeOK, refs, DriverPCs
<1> QED
  BY <1>4, <1>5, <1>6, <1>7

LEMMA ReadCaretStep ==
  ASSUME IInv, ReadCaret
  PROVE  IInv'
<1> USE DEF IInv
<1>0. headQ \in Int /\ caretQ \in Int /\ tailQ \in Int /\ caretQ \in Blocks
  BY PlacesType
<1>1. /\ dpc = "read" /\ dpc' = "memo" /\ ~CaretEmpty /\ CaretEntry # Link
      /\ caret' = [caret EXCEPT ![caretQ] = Succ(caretQ, @)]
      /\ UNCHANGED <<spc, incoming, opMode, enabled, headQ, caretQ, tailQ, head, tail, ring,
                     holding, pool, refs>>
  BY DEF ReadCaret, Reading
<1>2. /\ Taken(caretQ, caret[caretQ]) /\ tailQ <= caretQ /\ caretQ <= headQ
      /\ caretQ < headQ => Succ(caretQ, caret[caretQ]) # head[caretQ]
      /\ caret[caretQ] # head[caretQ]
  BY <1>0, <1>1, CaretTaken, PlacesType DEF Taken, Contents, CaretEntry, Shape, CaretEmpty
<1>3. /\ caret' \in [Blocks -> Nat] /\ \A q \in Blocks : caret'[q] \in Indices(q)
      /\ caret'[caretQ] = Succ(caretQ, caret[caretQ])
      /\ \A q \in Blocks \ {caretQ} : caret'[q] = caret[q]
  <2>1. caret \in [Blocks -> Nat]
    BY DEF TypeOK
  <2> QED
    BY <1>1, <2>1, IndexMoves, PlacesType
<1>4. Shape'
  <2>1. ASSUME NEW q \in Blocks
        PROVE  /\ q > caretQ => caret'[q] = 0 /\ tail[q] = 0
               /\ q < caretQ => caret'[q] = head[q]
               /\ q >= tailQ => Between(tail[q], caret'[q], head[q])
    <3>1. CASE q = caretQ
      <4>1. Between(tail[q], caret[q], head[q])
        BY <1>2, <3>1 DEF Shape
      <4>2. Between(tail[q], Succ(q, caret[q]), head[q])
        BY <1>2, <3>1, <4>1, CaretAdvances, PlacesType
      <4> QED
        BY <1>0, <1>3, <3>1, <4>2
    <3>2. CASE q # caretQ
      BY <1>3, <3>2 DEF Shape
    <3> QED
      BY <3>1, <3>2
  <2> QED
    BY <1>0, <1>1, <1>2, <1>3, <2>1 DEF Shape
<1>5. Room' /\ Contents' /\ Placed' /\ RefCountExact' /\ Memos'
  BY <1>1, CaretStep
<1>6. Reading'
  BY <1>1 DEF Reading
<1>7. Phases'
  BY <1>1, <1>2 DEF Phases
<1>8. TypeOK'
  <2>1. dpc' \in DriverPCs
    BY <1>1 DEF DriverPCs
  <2>2. UNCHANGED <<spc, incoming, opMode, enabled, headQ, caretQ, tailQ, head, tail, ring,
                    holding, pool, refs>>
    BY <1>1
  <2> QED
    BY <1>3, <2>1, <2>2, CaretTyped
<1> QED
  BY <1>4, <1>5, <1>6, <1>7, <1>8

LEMMA Inductive == IInv /\ [Next]_vars => IInv'
<1> SUFFICES ASSUME IInv, [Next]_vars PROVE IInv'
  OBVIOUS
<1>1. CASE ServerStep
  BY <1>1, PutLinkStep, MoveHeadToLinkStep, PutEntryStep, MoveHeadStep, PutFailsStep, RecycleStep,
     FreeQueueStep, DiscardCaretStep, QuietStep DEF ServerStep
<1>2. CASE Driver
  BY <1>2, PeekLinkStep, SwitchQueueStep, ReadCaretStep, QuietStep DEF Driver
<1>3. CASE Open \/ Close \/ Housekeeping
  BY <1>3, QuietStep
<1>4. CASE DropDecoder \/ \E d \in Decoders : CreateDecoder(d)
  BY <1>4, InletStep
<1>5. CASE \E b \in Buffers : Process(b)
  BY <1>5, ProcessStep
<1>6. CASE UNCHANGED vars
  <2>1. UNCHANGED <<queue, refs>>
    BY <1>6 DEF vars
  <2>2. UNCHANGED <<spc, incoming, opMode, enabled, dpc, holding, pool, ring>>
    BY <1>6 DEF vars, queue
  <2>3. Shape' /\ Room' /\ Contents' /\ Placed'
    BY <2>1, <2>2, QueueKept, PlacedKept DEF IInv
  <2>4. RefCountExact' /\ Memos'
    BY <2>1, <2>2, RefsKept DEF IInv
  <2>5. TypeOK' /\ Reading' /\ Phases'
    BY <2>1, <2>2 DEF IInv, TypeOK, Reading, CaretEmpty, CaretEntry, Phases, queue, refs
  <2> QED
    BY <2>3, <2>4, <2>5 DEF IInv
<1> QED
  BY <1>1, <1>2, <1>3, <1>4, <1>5, <1>6 DEF Next

LEMMA Invariant == Spec => []IInv
  BY Initially, Inductive, PTL DEF Spec

-----------------------------------------------------------------------------
(* The invariant in terms of the properties.                               *)

LEMMA DistanceIs ==
  ASSUME NEW q \in Blocks, NEW i \in Indices(q), NEW j \in Indices(q)
  PROVE  (j - i) % Size[q] = IF i <= j THEN j - i ELSE j - i + Size[q]
<1>1. Size[q] \in Nat /\ Size[q] > 1
  BY Sizes
<1>2. CASE i <= j
  <2>1. j - i \in Nat /\ j - i < Size[q]
    BY <1>1, <1>2
  <2> QED
    BY <1>1, <1>2, <2>1, Remainder, SMT
<1>3. CASE i > j
  <2> DEFINE n == Size[q]
             d == i - j
  <2>1. n \in Nat /\ n > 1 /\ d \in Nat /\ d > 0 /\ d < n
    BY <1>1, <1>3
  <2> HIDE DEF n, d
  <2>2. (-d) % n = n - d
    BY <2>1, SMT
  <2>3. j - i = -d
    BY <1>3 DEF d
  <2>4. (j - i) % n = n - d
    BY <2>2, <2>3
  <2> QED
    BY <1>1, <1>3, <2>4 DEF n, d
<1> QED
  BY <1>2, <1>3

LEMMA StretchIs ==
  ASSUME NEW q \in Blocks, NEW i \in Indices(q), NEW j \in Indices(q)
  PROVE  Stretch(q, i, j) = {<<q, k>> : k \in {n \in Indices(q) : Within(n, i, j)}}
<1>1. Size[q] \in Nat /\ Size[q] > 1
  BY Sizes
<1>2. (j - i) % Size[q] = IF i <= j THEN j - i ELSE j - i + Size[q]
  BY DistanceIs
<1>3. ASSUME NEW n \in 0 .. ((j - i) % Size[q]) - 1
      PROVE  /\ n \in Nat /\ i + n \in Nat /\ i + n < 2 * Size[q]
             /\ (i + n) % Size[q] = IF i + n < Size[q] THEN i + n ELSE i + n - Size[q]
  <2>1. n \in Nat /\ i + n \in Nat /\ i + n < 2 * Size[q]
    BY <1>1, <1>2
  <2> QED
    BY <1>1, <2>1, Remainder, SMT
<1>4. ASSUME NEW n \in 0 .. ((j - i) % Size[q]) - 1
      PROVE  (i + n) % Size[q] \in {k \in Indices(q) : Within(k, i, j)}
  BY <1>1, <1>2, <1>3 DEF Within
<1>5. ASSUME NEW k \in Indices(q), Within(k, i, j)
      PROVE  \E n \in 0 .. ((j - i) % Size[q]) - 1 : k = (i + n) % Size[q]
  <2> DEFINE n == IF i <= k THEN k - i ELSE k - i + Size[q]
  <2>1. n \in 0 .. ((j - i) % Size[q]) - 1
    BY <1>1, <1>2, <1>5 DEF Within
  <2>2. k = IF i + n < Size[q] THEN i + n ELSE i + n - Size[q]
    BY <1>1
  <2> HIDE DEF n
  <2>3. (i + n) % Size[q] = IF i + n < Size[q] THEN i + n ELSE i + n - Size[q]
    BY <2>1, <1>3
  <2> QED
    BY <2>1, <2>2, <2>3
<1> HIDE DEF Indices
<1> QED
  BY <1>4, <1>5 DEF Stretch

LEMMA InUseIs ==
  ASSUME TypeOK
  PROVE  \A p : p \in InUse <=> \E q \in Blocks : \E k \in Indices(q) : p = <<q, k>> /\ Taken(q, k)
<1>1. \A q \in tailQ .. headQ : q \in Blocks
  BY PlacesType, SizeAssumption
<1>2. ASSUME NEW p, p \in InUse
      PROVE  \E q \in Blocks : \E k \in Indices(q) : p = <<q, k>> /\ Taken(q, k)
  <2>1. PICK q \in tailQ .. headQ : p \in Stretch(q, tail[q], head[q])
    BY <1>2 DEF InUse
  <2>2. \E k \in Indices(q) : p = <<q, k>> /\ Within(k, tail[q], head[q])
    BY <1>1, <2>1, StretchIs, PlacesType
  <2> QED
    BY <1>1, <2>2 DEF Taken
<1>3. ASSUME NEW q \in Blocks, NEW k \in Indices(q), Taken(q, k)
      PROVE  <<q, k>> \in InUse
  <2>1. q \in tailQ .. headQ /\ Within(k, tail[q], head[q])
    BY <1>3 DEF Taken
  <2>2. <<q, k>> \in Stretch(q, tail[q], head[q])
    BY <2>1, StretchIs, PlacesType
  <2> QED
    BY <2>1, <2>2 DEF InUse
<1> QED
  BY <1>2, <1>3

LEMMA Conserved == IInv => BuffersConserved
<1> SUFFICES ASSUME IInv, NEW b \in Buffers
             PROVE  Cardinality({p \in InUse : ring[p] = b})
                      + (IF b \in pool THEN 1 ELSE 0) + (IF b = incoming THEN 1 ELSE 0) = 1
  BY DEF BuffersConserved
<1> USE DEF IInv
<1> DEFINE Cells_b == {p \in InUse : ring[p] = b}
<1>1. b \in pool => b # incoming
  BY DEF Placed, Queued
<1>2. ASSUME b \in pool \/ b = incoming
      PROVE  Cardinality(Cells_b) = 0
  <2>1. Cells_b = {}
    BY <1>2, InUseIs DEF Placed, Queued
  <2> QED
    BY <2>1, FS_EmptySet
<1>3. ASSUME b \notin pool, b # incoming
      PROVE  Cardinality(Cells_b) = 1
  <2>1. PICK q \in Blocks : \E n \in Indices(q) : Taken(q, n) /\ ring[<<q, n>>] = b
    BY <1>3 DEF Placed, Kept
  <2>2. PICK k \in Indices(q) : Taken(q, k) /\ ring[<<q, k>>] = b
    BY <2>1
  <2>3. ASSUME NEW p \in Cells_b
        PROVE  p = <<q, k>>
    <3>1. PICK r \in Blocks : \E n \in Indices(r) : p = <<r, n>> /\ Taken(r, n)
      BY InUseIs
    <3>2. PICK n \in Indices(r) : p = <<r, n>> /\ Taken(r, n)
      BY <3>1
    <3>3. ring[<<r, n>>] = b /\ b # Link
      BY <3>2, EntryAssumption
    <3> QED
      BY <2>2, <3>2, <3>3 DEF Placed, Apart
  <2>4. <<q, k>> \in Cells_b
    BY <2>2, InUseIs
  <2>5. Cells_b = {<<q, k>>}
    BY <2>3, <2>4
  <2> QED
    BY <2>5, FS_Singleton
<1> QED
  BY <1>1, <1>2, <1>3

LEMMA Linked == IInv => QueuesLinked
<1> SUFFICES ASSUME IInv PROVE QueuesLinked
  OBVIOUS
<1> USE DEF IInv
<1>1. ASSUME NEW q \in tailQ .. headQ - 1
      PROVE  \E p \in Stretch(q, tail[q], head[q]) : Succ(q, p[2]) = head[q] /\ ring[p] = Link
  <2>1. q \in Blocks /\ q \in tailQ .. headQ /\ q < headQ
    BY PlacesType, SizeAssumption
  <2>2. tail[q] # head[q]
    BY <2>1 DEF Shape
  <2>3. PICK k \in Indices(q) : Within(k, tail[q], head[q]) /\ Succ(q, k) = head[q]
    BY <2>1, <2>2, Ends, PlacesType
  <2>4. Taken(q, k)
    BY <2>1, <2>3 DEF Taken
  <2>5. ring[<<q, k>>] = Link
    BY <2>1, <2>3, <2>4 DEF Contents
  <2>6. <<q, k>> \in Stretch(q, tail[q], head[q])
    BY <2>1, <2>3, StretchIs, PlacesType
  <2> QED
    BY <2>3, <2>5, <2>6
<1> QED
  BY <1>1 DEF QueuesLinked, Shape

LEMMA Stopped == IInv => StoppedEmpty
<1> SUFFICES ASSUME IInv, opMode = "idle", spc = "idle"
             PROVE  ~enabled /\ pool = Buffers /\ headQ = tailQ
  BY DEF StoppedEmpty
<1> USE DEF IInv
<1>1. ~enabled /\ headQ = tailQ /\ tail[headQ] = head[headQ] /\ incoming = None
  BY DEF Phases
<1>2. \A q \in Blocks : \A k \in Indices(q) : ~Taken(q, k)
  <2> SUFFICES ASSUME NEW q \in Blocks, NEW k \in Indices(q), Taken(q, k) PROVE FALSE
    OBVIOUS
  <2>1. q = headQ /\ Within(k, head[headQ], head[headQ])
    BY <1>1, PlacesType DEF Taken
  <2> QED
    BY <2>1, Ends, PlacesType
<1>3. \A b \in Buffers : b \in pool
  BY <1>1, <1>2, EntryAssumption DEF Placed, Kept
<1> QED
  BY <1>1, <1>3 DEF TypeOK

LEMMA Decodes == IInv => SafeUntilRead
<1> SUFFICES ASSUME IInv, dpc \in {"decode", "read"}
             PROVE  /\ holding \in Buffers \ pool
                    /\ memo[holding] # None /\ refCount[memo[holding]] > 0
  BY DEF SafeUntilRead
<1> USE DEF IInv
<1>1. ~CaretEmpty /\ CaretEntry # Link /\ holding = CaretEntry
  BY DEF Reading
<1>2. Taken(caretQ, caret[caretQ]) /\ holding \in Buffers
  BY <1>1, CaretTaken
<1>3. holding \notin pool
  BY <1>1, <1>2, PlacesType DEF Placed, Queued, CaretEntry
<1> QED
  BY <1>2, <1>3, UsedCounts DEF Memos

-----------------------------------------------------------------------------
(* Listings: the cells of a set in their order.                            *)

(* The order of the cells in S is a strict total one.                      *)
Ordered(S, from) ==
    /\ \A p \in S : ~Earlier(from, p, p)
    /\ \A p, r \in S : p = r \/ Earlier(from, p, r) \/ Earlier(from, r, p)
    /\ \A p, r, s \in S : Earlier(from, p, r) /\ Earlier(from, r, s) => Earlier(from, p, s)

(* In a finite set every rank is that of a cell, and of one only.          *)
LEMMA Ranks ==
  ASSUME NEW S, NEW from, IsFiniteSet(S), Ordered(S, from)
  PROVE  /\ \A p \in S : Rank(S, from, p) \in 0 .. Cardinality(S) - 1
         /\ \A p, r \in S : Rank(S, from, p) = Rank(S, from, r) => p = r
         /\ \A n \in 1 .. Cardinality(S) : \E p \in S : Rank(S, from, p) = n - 1
<1> DEFINE Below(p) == {r \in S : Earlier(from, r, p)}
           N == Cardinality(S)
<1>1. N \in Nat
  BY FS_CardinalityType
<1>2. \A p \in S : IsFiniteSet(Below(p)) /\ Cardinality(Below(p)) \in Nat
  <2> SUFFICES ASSUME NEW p \in S PROVE IsFiniteSet(Below(p)) /\ Cardinality(Below(p)) \in Nat
    OBVIOUS
  <2>1. Below(p) \in SUBSET S
    OBVIOUS
  <2> QED
    BY <2>1, FS_Subset, FS_CardinalityType
<1>3. ASSUME NEW p \in S
      PROVE  Rank(S, from, p) \in 0 .. N - 1
  <2>1. Below(p) \in SUBSET S /\ p \notin Below(p)
    BY DEF Ordered
  <2>2. Cardinality(Below(p)) <= N /\ Cardinality(Below(p)) # N
    BY <2>1, FS_Subset
  <2> QED
    BY <1>1, <1>2, <2>2 DEF Rank
<1>4. ASSUME NEW p \in S, NEW r \in S, Earlier(from, p, r)
      PROVE  Rank(S, from, p) < Rank(S, from, r)
  <2>1. Below(p) \in SUBSET Below(r)
    BY <1>4 DEF Ordered
  <2>2. p \in Below(r) /\ p \notin Below(p)
    BY <1>4 DEF Ordered
  <2>3. Cardinality(Below(p)) <= Cardinality(Below(r)) /\ Cardinality(Below(p)) # Cardinality(Below(r))
    BY <1>2, <2>1, <2>2, FS_Subset
  <2>4. /\ Rank(S, from, p) = Cardinality(Below(p)) /\ Cardinality(Below(p)) \in Nat
        /\ Rank(S, from, r) = Cardinality(Below(r)) /\ Cardinality(Below(r)) \in Nat
    BY <1>2 DEF Rank
  <2> HIDE DEF Below
  <2> QED
    BY <2>3, <2>4
<1>5. ASSUME NEW p \in S, NEW r \in S, Rank(S, from, p) = Rank(S, from, r)
      PROVE  p = r
  <2>1. Rank(S, from, p) \in Int /\ Rank(S, from, r) \in Int
    BY <1>1, <1>3
  <2>2. p = r \/ Earlier(from, p, r) \/ Earlier(from, r, p)
    BY DEF Ordered
  <2> QED
    BY <1>4, <1>5, <2>1, <2>2
<1>6. \A n \in 1 .. N : \E p \in S : Rank(S, from, p) = n - 1
  <2> DEFINE T == 0 .. N - 1
             f == [p \in S |-> Rank(S, from, p)]
  <2>1. f \in Injection(S, T)
    <3>1. f \in [S -> T]
      BY <1>3
    <3>2. \A p, r \in S : f[p] = f[r] => p = r
      BY <1>5
    <3> QED
      BY <3>1, <3>2 DEF Injection, IsInjective
  <2>2. IsFiniteSet(T) /\ Cardinality(T) = N
    BY <1>1, FS_Interval
  <2>3. f \in Surjection(S, T)
    <3> HIDE DEF f, T
    <3> QED
      BY <2>1, <2>2, FS_Injection
  <2>4. \A t \in T : \E p \in S : f[p] = t
    BY <2>3 DEF Surjection
  <2> QED
    BY <1>1, <2>4
<1> QED
  BY <1>3, <1>5, <1>6

(* The entries of a listing are those of its cells.                        *)
Lists(L, S, from, entry, B) ==
    /\ L \in Seq(B)
    /\ Len(L) = Cardinality(S) /\ Cardinality(S) \in Nat
    /\ \A p \in S : L[Rank(S, from, p) + 1] = entry[p]
    /\ \A n \in 1 .. Cardinality(S) : \E p \in S : Rank(S, from, p) = n - 1 /\ L[n] = entry[p]

LEMMA ListingIs ==
  ASSUME NEW S, NEW from, NEW entry, NEW B, IsFiniteSet(S), Ordered(S, from),
         \A p \in S : entry[p] \in B
  PROVE  Lists(Listing(S, from, entry), S, from, entry, B)
<1> DEFINE N == Cardinality(S)
           Cell(n) == CHOOSE p \in S : Rank(S, from, p) = n - 1
           L == Listing(S, from, entry)
<1>1. N \in Nat
  BY FS_CardinalityType
<1>2. \A n \in 1 .. N : Cell(n) \in S /\ Rank(S, from, Cell(n)) = n - 1
  BY Ranks
<1> HIDE DEF Cell
<1>3. L = [n \in 1 .. N |-> entry[Cell(n)]]
  BY DEF Listing, Cell
<1>4. L \in Seq(B) /\ Len(L) = N
  BY <1>1, <1>2, <1>3
<1>5. ASSUME NEW p \in S
      PROVE  L[Rank(S, from, p) + 1] = entry[p]
  <2> DEFINE n == Rank(S, from, p) + 1
  <2>1. n \in 1 .. N /\ Rank(S, from, p) = n - 1
    BY <1>1, Ranks
  <2>2. Cell(n) = p
    BY <1>2, <2>1, Ranks
  <2> QED
    BY <1>3, <2>1, <2>2
<1>6. \A n \in 1 .. N : \E p \in S : Rank(S, from, p) = n - 1 /\ L[n] = entry[p]
  BY <1>2, <1>3
<1> QED
  BY <1>1, <1>4, <1>5, <1>6 DEF Lists

(* The same cells, in the same order, with the same entries.               *)
LEMMA ListingSame ==
  ASSUME NEW S, NEW T, NEW from, NEW into, NEW entry, NEW other, S = T,
         \A p, r \in S : Earlier(into, p, r) <=> Earlier(from, p, r),
         \A p \in S : other[p] = entry[p], IsFiniteSet(S), Ordered(S, from)
  PROVE  Listing(T, into, other) = Listing(S, from, entry)
<1> DEFINE Cell(n) == CHOOSE p \in S : Rank(S, from, p) = n - 1
           Same(n) == CHOOSE p \in S : Rank(S, into, p) = n - 1
<1>1. \A p \in S : Rank(S, into, p) = Rank(S, from, p)
  <2> SUFFICES ASSUME NEW p \in S PROVE Rank(S, into, p) = Rank(S, from, p)
    OBVIOUS
  <2>1. {r \in S : Earlier(into, r, p)} = {r \in S : Earlier(from, r, p)}
    OBVIOUS
  <2> QED
    BY <2>1 DEF Rank
<1>2. \A n \in 1 .. Cardinality(S) : Same(n) = Cell(n) /\ Cell(n) \in S
  <2> SUFFICES ASSUME NEW n \in 1 .. Cardinality(S) PROVE Same(n) = Cell(n) /\ Cell(n) \in S
    OBVIOUS
  <2>1. PICK p \in S : Rank(S, from, p) = n - 1
    BY Ranks
  <2>2. Cell(n) \in S /\ Rank(S, from, Cell(n)) = n - 1
    BY <2>1
  <2>3. Same(n) \in S /\ Rank(S, into, Same(n)) = n - 1
    BY <1>1, <2>1
  <2>4. Rank(S, from, Same(n)) = Rank(S, from, Cell(n))
    BY <1>1, <2>2, <2>3
  <2> QED
    BY <2>2, <2>3, <2>4, Ranks
<1> HIDE DEF Cell, Same
<1>3. Listing(S, from, entry) = [n \in 1 .. Cardinality(S) |-> entry[Cell(n)]]
  BY DEF Listing, Cell
<1>4. Listing(S, into, other) = [n \in 1 .. Cardinality(S) |-> other[Same(n)]]
  BY DEF Listing, Same
<1>5. \A n \in 1 .. Cardinality(S) : other[Same(n)] = entry[Cell(n)]
  BY <1>2
<1> QED
  BY <1>3, <1>4, <1>5

(* A cell after all others is put at the end of the listing.               *)
ComesLast(S, from, entry, B, x) ==
    /\ IsFiniteSet(S) /\ Ordered(S \cup {x}, from) /\ x \notin S
    /\ \A p \in S : Earlier(from, p, x) /\ entry[p] \in B
    /\ entry[x] \in B

LEMMA ListingPut ==
  ASSUME NEW S, NEW from, NEW entry, NEW B, NEW x, ComesLast(S, from, entry, B, x)
  PROVE  Listing(S \cup {x}, from, entry) = Append(Listing(S, from, entry), entry[x])
<1> DEFINE T == S \cup {x}
           N == Cardinality(S)
           L == Listing(S, from, entry)
           M == Listing(T, from, entry)
<1>0. /\ Ordered(T, from) /\ \A p : p \in T <=> p \in S \/ p = x
      /\ IsFiniteSet(S) /\ x \notin S /\ entry[x] \in B
      /\ \A p \in S : Earlier(from, p, x) /\ entry[p] \in B
  BY DEF ComesLast
<1>1. IsFiniteSet(T) /\ Cardinality(T) = N + 1 /\ N \in Nat
  BY <1>0, FS_AddElement, FS_CardinalityType
<1> HIDE DEF T
<1>2. (\A p \in T : entry[p] \in B) /\ (\A p \in S : entry[p] \in B)
  BY <1>0
<1>3. /\ L \in Seq(B) /\ Len(L) = N
      /\ \A n \in 1 .. N : \E p \in S : Rank(S, from, p) = n - 1 /\ L[n] = entry[p]
  <2>1. Ordered(S, from)
    BY <1>0 DEF Ordered
  <2>2. Lists(Listing(S, from, entry), S, from, entry, B)
    BY <1>0, <1>2, <2>1, ListingIs
  <2> QED
    BY <2>2 DEF Lists
<1>4. /\ M \in Seq(B) /\ Len(M) = N + 1
      /\ \A p \in T : M[Rank(T, from, p) + 1] = entry[p]
  <2>1. Lists(Listing(T, from, entry), T, from, entry, B)
    BY <1>0, <1>1, <1>2, ListingIs
  <2> QED
    BY <1>1, <2>1 DEF Lists
<1>5. ASSUME NEW p \in S
      PROVE  Rank(T, from, p) = Rank(S, from, p)
  <2>1. ~Earlier(from, x, p)
    BY <1>0 DEF Ordered
  <2>2. {r \in T : Earlier(from, r, p)} = {r \in S : Earlier(from, r, p)}
    BY <1>0, <2>1
  <2> QED
    BY <2>2 DEF Rank
<1>6. Rank(T, from, x) = N
  <2>1. {r \in T : Earlier(from, r, x)} = S
    BY <1>0 DEF Ordered
  <2> QED
    BY <2>1 DEF Rank
<1> HIDE DEF N, L, M
<1>7. ASSUME NEW n \in 1 .. N
      PROVE  M[n] = L[n]
  <2>1. PICK p \in S : Rank(S, from, p) = n - 1 /\ L[n] = entry[p]
    BY <1>3
  <2>2. M[(n - 1) + 1] = entry[p]
    BY <1>0, <1>4, <1>5, <2>1
  <2> QED
    BY <1>1, <2>1, <2>2
<1>8. M[N + 1] = entry[x]
  BY <1>0, <1>4, <1>6
<1> DEFINE A == Append(L, entry[x])
<1>9. /\ A \in Seq(B) /\ Len(A) = N + 1
      /\ \A n \in 1 .. N : A[n] = L[n]
      /\ A[N + 1] = entry[x]
  BY <1>0, <1>3, AppendProperties
<1> HIDE DEF A
<1>10. \A n \in 1 .. N + 1 : n \in 1 .. N \/ n = N + 1
  BY <1>1
<1>11. M = A
  BY <1>4, <1>7, <1>8, <1>9, <1>10, SeqEqual
<1> QED
  BY <1>11 DEF A, L, M, T

(* The first cell is taken from the front of the listing.                  *)
ComesFirst(S, T, from, into, entry, other, B, x) ==
    /\ IsFiniteSet(S) /\ Ordered(S, from) /\ Ordered(T, into) /\ x \in S /\ T = S \ {x}
    /\ \A p, r \in T : Earlier(into, p, r) <=> Earlier(from, p, r)
    /\ \A p \in T : Earlier(from, x, p) /\ other[p] = entry[p]
    /\ \A p \in S : entry[p] \in B

LEMMA ListingTaken ==
  ASSUME NEW S, NEW T, NEW from, NEW into, NEW entry, NEW other, NEW B, NEW x,
         ComesFirst(S, T, from, into, entry, other, B, x)
  PROVE  /\ Listing(S, from, entry) # <<>>
         /\ Head(Listing(S, from, entry)) = entry[x]
         /\ Listing(T, into, other) = Tail(Listing(S, from, entry))
<1> USE DEF ComesFirst
<1> DEFINE N == Cardinality(S)
           L == Listing(S, from, entry)
           M == Listing(T, into, other)
<1>1. IsFiniteSet(T) /\ Cardinality(T) = N - 1 /\ N \in Nat
  BY FS_RemoveElement, FS_CardinalityType
<1>2. \A p \in T : other[p] \in B
  OBVIOUS
<1>3. /\ L \in Seq(B) /\ Len(L) = N
      /\ \A p \in S : L[Rank(S, from, p) + 1] = entry[p]
  <2>1. Lists(Listing(S, from, entry), S, from, entry, B)
    BY ListingIs
  <2> QED
    BY <2>1 DEF Lists
<1>4. /\ M \in Seq(B) /\ Len(M) = N - 1 /\ N - 1 \in Nat
      /\ \A n \in 1 .. N - 1 : \E p \in T : Rank(T, into, p) = n - 1 /\ M[n] = other[p]
  <2>1. Lists(Listing(T, into, other), T, into, other, B)
    BY <1>1, <1>2, ListingIs
  <2> QED
    BY <1>1, <2>1 DEF Lists
<1>5. Rank(S, from, x) = 0
  <2>1. {r \in S : Earlier(from, r, x)} = {}
    BY DEF Ordered
  <2> QED
    BY <2>1, FS_EmptySet DEF Rank
<1>6. ASSUME NEW p \in T
      PROVE  Rank(S, from, p) = Rank(T, into, p) + 1
  <2> DEFINE Below == {r \in T : Earlier(into, r, p)}
  <2>1. {r \in S : Earlier(from, r, p)} = Below \cup {x}
    OBVIOUS
  <2>2. Below \in SUBSET T /\ x \notin Below
    OBVIOUS
  <2>3. IsFiniteSet(Below)
    BY <1>1, <2>2, FS_Subset
  <2>4. Cardinality(Below \cup {x}) = Cardinality(Below) + 1
    BY <2>2, <2>3, FS_AddElement
  <2> QED
    BY <2>1, <2>4 DEF Rank
<1> HIDE DEF N, L, M
<1>7. L # <<>> /\ Head(L) = entry[x]
  <2>1. N > 0
    BY <1>1, <1>4
  <2> QED
    BY <1>3, <1>5, <2>1
<1> DEFINE A == Tail(L)
<1>8. A \in Seq(B) /\ Len(A) = N - 1 /\ \A n \in 1 .. N - 1 : A[n] = L[n + 1]
  BY <1>3, <1>7, HeadTailProperties
<1> HIDE DEF A
<1>9. ASSUME NEW n \in 1 .. N - 1
      PROVE  M[n] = A[n]
  <2>1. PICK p \in T : Rank(T, into, p) = n - 1 /\ M[n] = other[p]
    BY <1>4
  <2>2. p \in S /\ Rank(S, from, p) = (n - 1) + 1
    BY <1>6, <2>1
  <2>3. L[((n - 1) + 1) + 1] = entry[p]
    BY <1>3, <2>2
  <2>4. ((n - 1) + 1) + 1 = n + 1
    OBVIOUS
  <2> QED
    BY <1>8, <2>1, <2>3, <2>4
<1>10. M = A
  BY <1>4, <1>8, <1>9, SeqEqual
<1> QED
  BY <1>7, <1>10 DEF A, L, M

-----------------------------------------------------------------------------
(* The cells between two indices, and their order.                         *)

LEMMA CellIs ==
  ASSUME NEW p \in Cells
  PROVE  p[1] \in Blocks /\ p[2] \in Indices(p[1]) /\ p = <<p[1], p[2]>>
<1>1. PICK q \in Blocks : p \in {q} \X Indices(q)
  BY DEF Cells
<1> QED
  BY <1>1

(* Indices of all queue buffers.                                           *)
Places == {f \in [Blocks -> Nat] : \A q \in Blocks : f[q] \in Indices(q)}

LEMMA HeldIs ==
  ASSUME NEW a \in Blocks, NEW z \in Blocks, NEW from \in Places, NEW to \in Places, NEW entry
  PROVE  \A p : p \in Held(a, z, from, to, entry) <=>
            /\ p \in Cells /\ p[1] \in a .. z /\ entry[p] # Link
            /\ Within(p[2], from[p[1]], to[p[1]])
<1>1. \A q \in a .. z : q \in Blocks
  BY SizeAssumption
<1>2. \A q \in Blocks : Stretch(q, from[q], to[q])
                          = {<<q, k>> : k \in {n \in Indices(q) : Within(n, from[q], to[q])}}
  BY StretchIs DEF Places
<1> HIDE DEF Blocks, Indices
<1>3. ASSUME NEW p, p \in Held(a, z, from, to, entry)
      PROVE  /\ p \in Cells /\ p[1] \in a .. z /\ entry[p] # Link
             /\ Within(p[2], from[p[1]], to[p[1]])
  <2>1. PICK q \in a .. z : p \in Stretch(q, from[q], to[q])
    BY <1>3 DEF Held
  <2>2. PICK k \in Indices(q) : p = <<q, k>> /\ Within(k, from[q], to[q])
    BY <1>1, <1>2, <2>1
  <2>3. p \in Cells
    BY <1>1, <2>2, CellsAre
  <2> QED
    BY <1>3, <2>1, <2>2, <2>3 DEF Held
<1>4. ASSUME NEW p \in Cells, p[1] \in a .. z, entry[p] # Link,
             Within(p[2], from[p[1]], to[p[1]])
      PROVE  p \in Held(a, z, from, to, entry)
  <2>1. p[1] \in Blocks /\ p[2] \in Indices(p[1]) /\ p = <<p[1], p[2]>>
    BY CellIs
  <2>2. p \in Stretch(p[1], from[p[1]], to[p[1]])
    BY <1>2, <1>4, <2>1
  <2> QED
    BY <1>4, <2>2 DEF Held
<1> QED
  BY <1>3, <1>4

LEMMA EarlierIs ==
  ASSUME NEW p \in Cells, NEW from \in Places
  PROVE  /\ p[1] \in Int /\ p[2] \in Int
         /\ Distance(from, p) = IF from[p[1]] <= p[2] THEN p[2] - from[p[1]]
                                ELSE p[2] - from[p[1]] + Size[p[1]]
         /\ Distance(from, p) \in Int
<1>1. p[1] \in Blocks /\ p[2] \in Indices(p[1]) /\ from[p[1]] \in Indices(p[1])
  BY CellIs DEF Places
<1>2. Size[p[1]] \in Int /\ p[1] \in Int
  BY <1>1, Sizes, SizeAssumption
<1> QED
  BY <1>1, <1>2, DistanceIs DEF Distance

LEMMA CellsOrdered ==
  ASSUME NEW S, S \subseteq Cells, NEW from \in Places
  PROVE  Ordered(S, from)
<1>1. ASSUME NEW p \in S
      PROVE  ~Earlier(from, p, p)
  BY EarlierIs DEF Earlier
<1>2. ASSUME NEW p \in S, NEW r \in S
      PROVE  p = r \/ Earlier(from, p, r) \/ Earlier(from, r, p)
  <2>1. p \in Cells /\ r \in Cells
    OBVIOUS
  <2>2. CASE p[1] = r[1] /\ Distance(from, p) = Distance(from, r)
    <3>1. /\ p[1] \in Blocks /\ p[2] \in Indices(p[1]) /\ p = <<p[1], p[2]>>
          /\ r[2] \in Indices(p[1]) /\ r = <<p[1], r[2]>>
          /\ from[p[1]] \in Indices(p[1])
      BY <2>1, <2>2, CellIs DEF Places
    <3>2. Size[p[1]] \in Nat
      BY <3>1, Sizes
    <3>3. p[2] = r[2]
      BY <2>1, <2>2, <3>1, <3>2, EarlierIs
    <3> QED
      BY <3>1, <3>3
  <2>3. CASE ~(p[1] = r[1] /\ Distance(from, p) = Distance(from, r))
    <3>1. /\ p[1] \in Int /\ Distance(from, p) \in Int
          /\ r[1] \in Int /\ Distance(from, r) \in Int
      BY <2>1, EarlierIs
    <3> QED
      BY <2>3, <3>1 DEF Earlier
  <2> QED
    BY <2>2, <2>3
<1>3. ASSUME NEW p \in S, NEW r \in S, NEW s \in S, Earlier(from, p, r), Earlier(from, r, s)
      PROVE  Earlier(from, p, s)
  <2>1. /\ p[1] \in Int /\ Distance(from, p) \in Int
        /\ r[1] \in Int /\ Distance(from, r) \in Int
        /\ s[1] \in Int /\ Distance(from, s) \in Int
    BY EarlierIs
  <2> QED
    BY <1>3, <2>1 DEF Earlier
<1> QED
  BY <1>1, <1>2, <1>3 DEF Ordered

(* The order of a queue buffer depends only on where its indices start ... *)
LEMMA EarlierKept ==
  ASSUME NEW p, NEW r, NEW from, NEW into, into[p[1]] = from[p[1]]
  PROVE  Earlier(into, p, r) <=> Earlier(from, p, r)
  BY DEF Earlier, Distance

(* ... and only for the cell they start with if they start one later.      *)
LEMMA EarlierMoved ==
  ASSUME NEW p \in Cells, NEW r \in Cells, NEW from \in Places, NEW into \in Places,
         into[p[1]] = Succ(p[1], from[p[1]]),
         p[2] # from[p[1]], r[1] = p[1] => r[2] # from[r[1]]
  PROVE  Earlier(into, p, r) <=> Earlier(from, p, r)
<1>1. CASE r[1] = p[1]
  <2> DEFINE q == p[1]
             i == from[q]
  <2>1. /\ q \in Blocks /\ p[2] \in Indices(q) /\ r[2] \in Indices(q)
        /\ i \in Indices(q) /\ into[q] = Succ(q, i) /\ p[2] # i /\ r[2] # i
    BY <1>1, CellIs DEF Places
  <2>2. Succ(q, i) = (IF i + 1 = Size[q] THEN 0 ELSE i + 1) /\ Size[q] \in Nat
    BY <2>1, SuccIs, Sizes
  <2>3. /\ Distance(from, p) = IF i <= p[2] THEN p[2] - i ELSE p[2] - i + Size[q]
        /\ Distance(from, r) = IF i <= r[2] THEN r[2] - i ELSE r[2] - i + Size[q]
        /\ Distance(into, p) = IF into[q] <= p[2] THEN p[2] - into[q] ELSE p[2] - into[q] + Size[q]
        /\ Distance(into, r) = IF into[q] <= r[2] THEN r[2] - into[q] ELSE r[2] - into[q] + Size[q]
    BY <1>1, EarlierIs
  <2> HIDE DEF i
  <2>4. Distance(into, p) = Distance(from, p) - 1 /\ Distance(into, r) = Distance(from, r) - 1
    BY <2>1, <2>2, <2>3
  <2>5. Distance(from, p) \in Int /\ Distance(from, r) \in Int /\ q \in Int
    BY EarlierIs
  <2> QED
    BY <1>1, <2>4, <2>5 DEF Earlier
<1>2. CASE r[1] # p[1]
  BY <1>2 DEF Earlier
<1> QED
  BY <1>1, <1>2

(* ... so that an index that moves to the next cell orders all the others   *)
(* as before.                                                              *)
Passes(q, from, into, x) ==
  /\ from \in Places /\ into \in Places /\ q \in Blocks /\ x = <<q, from[q]>>
  /\ into[q] = Succ(q, from[q]) /\ \A s \in Blocks \ {q} : into[s] = from[s]

LEMMA EarlierPast ==
  ASSUME NEW q, NEW from, NEW into, NEW x, Passes(q, from, into, x)
  PROVE  \A p, r \in Cells : p # x /\ r # x => (Earlier(into, p, r) <=> Earlier(from, p, r))
<1> USE DEF Passes
<1> SUFFICES ASSUME NEW p \in Cells, NEW r \in Cells, p # x, r # x
             PROVE  Earlier(into, p, r) <=> Earlier(from, p, r)
  OBVIOUS
<1>1. /\ p[1] \in Blocks /\ p = <<p[1], p[2]>>
      /\ r[1] \in Blocks /\ r = <<r[1], r[2]>>
  BY CellIs
<1>2. CASE p[1] = q
  <2>1. p[2] # from[p[1]] /\ (r[1] = p[1] => r[2] # from[r[1]])
    BY <1>1, <1>2
  <2> QED
    BY <1>2, <2>1, EarlierMoved
<1>3. CASE p[1] # q
  BY <1>1, <1>3, EarlierKept
<1> QED
  BY <1>2, <1>3

(* What is taken comes before the cell where the taken ones end, and where *)
(* the indices start is the first of all.                                  *)
LEMMA EarlierEnds ==
  ASSUME NEW p \in Cells, NEW x \in Cells, NEW from \in Places
  PROVE  /\ p[1] <= x[1] /\ (p[1] = x[1] => Within(p[2], from[x[1]], x[2])) => Earlier(from, p, x)
         /\ x[1] <= p[1] /\ x[2] = from[x[1]] /\ p # x => Earlier(from, x, p)
<1>1. /\ p[1] \in Blocks /\ p[2] \in Indices(p[1]) /\ p = <<p[1], p[2]>>
      /\ x[1] \in Blocks /\ x[2] \in Indices(x[1]) /\ x = <<x[1], x[2]>>
      /\ from[x[1]] \in Indices(x[1]) /\ Size[x[1]] \in Nat
      /\ p[1] \in Int /\ x[1] \in Int
  BY CellIs, Sizes, EarlierIs DEF Places
<1>2. CASE p[1] = x[1]
  <2> DEFINE q == x[1]
             i == from[q]
  <2>1. /\ Distance(from, p) = IF i <= p[2] THEN p[2] - i ELSE p[2] - i + Size[q]
        /\ Distance(from, x) = IF i <= x[2] THEN x[2] - i ELSE x[2] - i + Size[q]
    BY <1>2, EarlierIs
  <2>2. p # x => p[2] # x[2]
    BY <1>1, <1>2
  <2>3. Earlier(from, p, x) <=> Distance(from, p) < Distance(from, x)
    BY <1>1, <1>2 DEF Earlier
  <2>4. Earlier(from, x, p) <=> Distance(from, x) < Distance(from, p)
    BY <1>1, <1>2 DEF Earlier
  <2>5. /\ p[2] \in Indices(q) /\ x[2] \in Indices(q) /\ i \in Indices(q) /\ Size[q] \in Nat
        /\ q \in Int
    BY <1>1, <1>2
  <2> HIDE DEF i
  <2>6. Within(p[2], i, x[2]) => Distance(from, p) < Distance(from, x)
    BY <2>1, <2>5 DEF Within
  <2>7. x[2] = i /\ p[2] # x[2] => Distance(from, x) < Distance(from, p)
    BY <2>1, <2>5
  <2> QED
    BY <1>2, <2>2, <2>3, <2>4, <2>6, <2>7 DEF i
<1>3. CASE p[1] # x[1]
  BY <1>1, <1>3 DEF Earlier
<1> QED
  BY <1>2, <1>3

-----------------------------------------------------------------------------
(* What waits and what is trash.                                           *)

LEMMA PlacesAre == TypeOK => head \in Places /\ caret \in Places /\ tail \in Places
  BY DEF TypeOK, Places

LEMMA WaitingIs ==
  ASSUME TypeOK
  PROVE  \A p : p \in Waiting <=>
            /\ p \in Cells /\ p[1] \in caretQ .. headQ /\ ring[p] # Link
            /\ Within(p[2], caret[p[1]], head[p[1]])
<1>1. caretQ \in Blocks /\ headQ \in Blocks
  BY DEF TypeOK
<1> QED
  BY <1>1, PlacesAre, HeldIs DEF Waiting

LEMMA TrashIs ==
  ASSUME TypeOK
  PROVE  \A p : p \in Trash <=>
            /\ p \in Cells /\ p[1] \in tailQ .. caretQ /\ ring[p] # Link
            /\ Within(p[2], tail[p[1]], caret[p[1]])
<1>1. caretQ \in Blocks /\ tailQ \in Blocks
  BY DEF TypeOK
<1> QED
  BY <1>1, PlacesAre, HeldIs DEF Trash

LEMMA NextAre ==
  ASSUME TypeOK'
  PROVE  /\ head' \in Places /\ caret' \in Places /\ tail' \in Places
         /\ \A p : p \in Waiting' <=>
               /\ p \in Cells /\ p[1] \in caretQ' .. headQ' /\ ring'[p] # Link
               /\ Within(p[2], caret'[p[1]], head'[p[1]])
         /\ \A p : p \in Trash' <=>
               /\ p \in Cells /\ p[1] \in tailQ' .. caretQ' /\ ring'[p] # Link
               /\ Within(p[2], tail'[p[1]], caret'[p[1]])
<1>1. head' \in Places /\ caret' \in Places /\ tail' \in Places
  BY DEF TypeOK, Places
<1>2. caretQ' \in Blocks /\ tailQ' \in Blocks /\ headQ' \in Blocks
  BY DEF TypeOK
<1>3. /\ Waiting' = Held(caretQ', headQ', caret', head', ring')
      /\ Trash' = Held(tailQ', caretQ', tail', caret', ring')
  BY DEF Waiting, Trash
<1> QED
  BY <1>1, <1>2, <1>3, HeldIs

LEMMA Parts ==
  ASSUME NEW q \in Blocks, NEW t \in Indices(q), NEW c \in Indices(q), NEW h \in Indices(q),
         NEW k \in Indices(q), Between(t, c, h)
  PROVE  /\ Within(k, t, c) => Within(k, t, h)
         /\ Within(k, c, h) => Within(k, t, h)
         /\ ~(Within(k, t, c) /\ Within(k, c, h))
  BY Sizes DEF Between, Within

(* What is before or after the caret is taken.                             *)
LEMMA PartsTaken ==
  ASSUME TypeOK, Shape, NEW p \in Cells,
         \/ p[1] \in caretQ .. headQ /\ Within(p[2], caret[p[1]], head[p[1]])
         \/ p[1] \in tailQ .. caretQ /\ Within(p[2], tail[p[1]], caret[p[1]])
  PROVE  Taken(p[1], p[2])
<1>1. p[1] \in Blocks /\ p[2] \in Indices(p[1]) /\ p[1] \in Int
  BY CellIs, EarlierIs, PlacesType
<1>2. caretQ \in Int /\ headQ \in Int /\ tailQ \in Int /\ caretQ <= headQ
  BY PlacesType DEF Shape
<1>3. p[1] \in tailQ .. headQ
  <2>1. CASE p[1] < tailQ
    <3>1. dpc = "switch" /\ p[1] = caretQ
      BY <1>1, <1>2, <2>1 DEF Shape
    <3>2. Within(p[2], head[p[1]], head[p[1]])
      BY <1>1, <1>2, <2>1, <3>1 DEF Shape
    <3> QED
      BY <1>1, <3>2, Ends, PlacesType
  <2>2. CASE p[1] >= tailQ
    BY <1>1, <1>2, <2>2
  <2> QED
    BY <1>1, <1>2, <2>1, <2>2
<1>4. Between(tail[p[1]], caret[p[1]], head[p[1]])
  BY <1>1, <1>2, <1>3 DEF Shape
<1>5. Within(p[2], tail[p[1]], head[p[1]])
  BY <1>1, <1>4, Parts, PlacesType
<1> QED
  BY <1>1, <1>3, <1>5 DEF Taken

LEMMA HeldTaken ==
  ASSUME TypeOK, Shape, Contents, NEW p \in Waiting \cup Trash
  PROVE  p \in Cells /\ Taken(p[1], p[2]) /\ ring[p] \in Buffers
<1>1. /\ p \in Cells /\ ring[p] # Link
      /\ \/ p[1] \in caretQ .. headQ /\ Within(p[2], caret[p[1]], head[p[1]])
         \/ p[1] \in tailQ .. caretQ /\ Within(p[2], tail[p[1]], caret[p[1]])
  BY WaitingIs, TrashIs
<1>2. Taken(p[1], p[2])
  BY <1>1, PartsTaken
<1>3. p[1] \in Blocks /\ p[2] \in Indices(p[1]) /\ p = <<p[1], p[2]>>
  BY <1>1, CellIs
<1>4. ring[p] # None /\ ring[p] \in Buffers \cup {Link, None}
  BY <1>2, <1>3, PlacesType DEF Contents
<1> QED
  BY <1>1, <1>2, <1>4

(* There are no more cells than buffers, and they have their order.        *)
LEMMA HeldListed ==
  ASSUME IInv
  PROVE  /\ IsFiniteSet(Waiting) /\ Ordered(Waiting, caret)
         /\ IsFiniteSet(Trash) /\ Ordered(Trash, tail)
         /\ \A p \in Waiting \cup Trash : ring[p] \in Buffers
<1>1. ASSUME NEW S, S \subseteq Waiting \cup Trash
      PROVE  IsFiniteSet(S)
  <2> DEFINE f == [p \in S |-> ring[p]]
  <2>1. ASSUME NEW p \in S, NEW r \in S, ring[p] = ring[r]
        PROVE  p = r
    <3>1. /\ p \in Cells /\ Taken(p[1], p[2]) /\ ring[p] \in Buffers
          /\ r \in Cells /\ Taken(r[1], r[2])
      BY <1>1, HeldTaken DEF IInv
    <3>2. /\ p[1] \in Blocks /\ p[2] \in Indices(p[1]) /\ p = <<p[1], p[2]>>
          /\ r[1] \in Blocks /\ r[2] \in Indices(r[1]) /\ r = <<r[1], r[2]>>
      BY <3>1, CellIs
    <3>3. ring[<<p[1], p[2]>>] = ring[<<r[1], r[2]>>] /\ ring[<<p[1], p[2]>>] # Link
      BY <2>1, <3>1, <3>2, EntryAssumption
    <3>4. p[1] = r[1] /\ p[2] = r[2]
      BY <3>1, <3>2, <3>3 DEF IInv, Placed, Apart
    <3> QED
      BY <3>2, <3>4
  <2>2. f \in Injection(S, Buffers)
    <3>1. f \in [S -> Buffers]
      BY <1>1, HeldTaken DEF IInv
    <3> QED
      BY <2>1, <3>1 DEF Injection, IsInjective
  <2> QED
    BY <2>2, FS_Injection, EntryAssumption
<1>2. Waiting \subseteq Cells /\ Trash \subseteq Cells
  BY HeldTaken DEF IInv
<1>3. caret \in Places /\ tail \in Places
  BY PlacesAre DEF IInv
<1> QED
  BY <1>1, <1>2, <1>3, CellsOrdered, HeldTaken DEF IInv

-----------------------------------------------------------------------------
(* What every step does to the two listings.                               *)

(* The conveyor as the listings are now.                                   *)
WaitingKept == Listing(Waiting', caret', ring') = Listing(Waiting, caret, ring)
TrashKept == Listing(Trash', tail', ring') = Listing(Trash, tail, ring)

LEMMA WaitingStays ==
  ASSUME IInv, Waiting' = Waiting, \A p \in Waiting : ring'[p] = ring[p],
         \A p, r \in Waiting : Earlier(caret', p, r) <=> Earlier(caret, p, r)
  PROVE  WaitingKept
<1>1. IsFiniteSet(Waiting) /\ Ordered(Waiting, caret)
  BY HeldListed
<1> QED
  BY <1>1, ListingSame DEF WaitingKept

LEMMA TrashStays ==
  ASSUME IInv, Trash' = Trash, \A p \in Trash : ring'[p] = ring[p],
         \A p, r \in Trash : Earlier(tail', p, r) <=> Earlier(tail, p, r)
  PROVE  TrashKept
<1>1. IsFiniteSet(Trash) /\ Ordered(Trash, tail)
  BY HeldListed
<1> QED
  BY <1>1, ListingSame DEF TrashKept

LEMMA QueueRests ==
  ASSUME UNCHANGED queue
  PROVE  WaitingKept /\ TrashKept
<1>1. Waiting' = Waiting /\ Trash' = Trash /\ caret' = caret /\ tail' = tail /\ ring' = ring
  BY DEF queue, Waiting, Trash
<1> QED
  BY <1>1 DEF WaitingKept, TrashKept

(* An entry is written to the free cell before the head moves.             *)
LEMMA WriteRests ==
  ASSUME IInv, IInv', UNCHANGED <<headQ, caretQ, tailQ, head, caret, tail>>,
         \A p \in Cells \ {<<headQ, head[headQ]>>} : ring'[p] = ring[p]
  PROVE  WaitingKept /\ TrashKept
<1> USE DEF IInv
<1> DEFINE x == <<headQ, head[headQ]>>
<1>1. ~Taken(x[1], x[2])
  BY HeadFree
<1>2. ASSUME NEW p \in Cells, \/ p[1] \in caretQ .. headQ /\ Within(p[2], caret[p[1]], head[p[1]])
                              \/ p[1] \in tailQ .. caretQ /\ Within(p[2], tail[p[1]], caret[p[1]])
      PROVE  ring'[p] = ring[p]
  BY <1>1, <1>2, PartsTaken
<1>3. Waiting' = Waiting /\ \A p \in Waiting : ring'[p] = ring[p]
  BY <1>2, WaitingIs, NextAre
<1>4. Trash' = Trash /\ \A p \in Trash : ring'[p] = ring[p]
  BY <1>2, TrashIs, NextAre
<1> QED
  BY <1>3, <1>4, WaitingStays, TrashStays

(* The head moves past a buffer: it waits, as the last one.                *)
LEMMA HeadPuts ==
  ASSUME IInv, IInv', MoveHead
  PROVE  /\ Listing(Waiting', caret', ring') = Append(Listing(Waiting, caret, ring), incoming)
         /\ TrashKept
         /\ incoming \in Buffers
         /\ \A p \in Waiting \cup Trash : ring[p] # incoming
<1> USE DEF IInv
<1> DEFINE h == head[headQ]
           x == <<headQ, h>>
<1>1. /\ head' = [head EXCEPT ![headQ] = Succ(headQ, @)]
      /\ UNCHANGED <<headQ, caretQ, tailQ, caret, tail, ring>>
      /\ ring[x] = incoming /\ incoming \in Buffers
  BY DEF MoveHead, Contents, Phases, TypeOK
<1>2. /\ headQ \in Blocks /\ h \in Indices(headQ) /\ caret[headQ] \in Indices(headQ)
      /\ tail[headQ] \in Indices(headQ) /\ x \in Cells /\ headQ \in Int /\ caretQ \in Int
      /\ caretQ <= headQ /\ tailQ <= headQ
  <2>1. tailQ <= headQ
    BY PlacesType DEF Shape
  <2> QED
    BY <2>1, PlacesType, CellsAre DEF Shape
<1>3. head'[headQ] = Succ(headQ, h) /\ \A q \in Blocks \ {headQ} : head'[q] = head[q]
  BY <1>1, <1>2 DEF TypeOK
<1>4. \A k \in Indices(headQ) :
         Within(k, caret[headQ], Succ(headQ, h)) <=> Within(k, caret[headQ], h) \/ k = h
  <2>1. Between(tail[headQ], caret[headQ], h)
    BY <1>2 DEF Shape
  <2>2. Succ(headQ, h) # caret[headQ]
    BY <1>2, <2>1, HeadAdvances DEF Room
  <2>3. Between(caret[headQ], caret[headQ], h)
    BY <1>2, Ends
  <2> QED
    BY <1>2, <2>2, <2>3, HeadAdvances
<1>5. ~Taken(x[1], x[2])
  BY HeadFree
<1>6. Waiting' = Waiting \cup {x} /\ x \notin Waiting
  <2>1. ASSUME NEW p \in Cells
        PROVE  p \in Waiting' <=> p \in Waiting \/ p = x
    <3>1. p[1] \in Blocks /\ p[2] \in Indices(p[1]) /\ p = <<p[1], p[2]>>
      BY CellIs
    <3>2. p \in Waiting <=> /\ p[1] \in caretQ .. headQ /\ ring[p] # Link
                            /\ Within(p[2], caret[p[1]], head[p[1]])
      BY WaitingIs
    <3>3. p \in Waiting' <=> /\ p[1] \in caretQ .. headQ /\ ring[p] # Link
                             /\ Within(p[2], caret[p[1]], head'[p[1]])
      BY <1>1, NextAre
    <3>4. CASE p[1] = headQ
      BY <1>1, <1>2, <1>3, <1>4, <3>1, <3>2, <3>3, <3>4, EntryAssumption
    <3>5. CASE p[1] # headQ
      BY <1>3, <3>1, <3>2, <3>3, <3>5
    <3> QED
      BY <3>4, <3>5
  <2>2. \A p : (p \in Waiting' => p \in Cells) /\ (p \in Waiting => p \in Cells)
    BY WaitingIs, NextAre
  <2>3. x \notin Waiting
    BY <1>5, HeldTaken
  <2> QED
    BY <1>2, <2>1, <2>2, <2>3
<1>7. Trash' = Trash /\ TrashKept
  <2>1. Trash' = Trash
    BY <1>1 DEF Trash
  <2> QED
    BY <1>1, <2>1, TrashStays
<1>8. \A p \in Waiting : Earlier(caret, p, x)
  <2> SUFFICES ASSUME NEW p \in Waiting PROVE Earlier(caret, p, x)
    OBVIOUS
  <2>1. p \in Cells /\ p[1] \in caretQ .. headQ /\ Within(p[2], caret[p[1]], head[p[1]])
    BY WaitingIs
  <2>2. caret \in Places /\ p[1] \in Int
    BY <2>1, PlacesAre, EarlierIs
  <2>3. x[1] = headQ /\ x[2] = h /\ p[1] <= headQ
    BY <1>2, <2>1, <2>2
  <2> HIDE DEF x
  <2> QED
    BY <1>2, <2>1, <2>2, <2>3, EarlierEnds
<1>9. /\ IsFiniteSet(Waiting) /\ Ordered(Waiting, caret) /\ Ordered(Waiting', caret)
      /\ \A p \in Waiting : ring[p] \in Buffers
  <2>1. Waiting' \subseteq Cells
    BY NextAre
  <2> QED
    BY <1>1, <2>1, HeldListed, CellsOrdered, NextAre
<1>10. Listing(Waiting', caret, ring) = Append(Listing(Waiting, caret, ring), ring[x])
  <2> HIDE DEF x
  <2>1. ring[x] \in Buffers
    BY <1>1
  <2>2. ComesLast(Waiting, caret, ring, Buffers, x)
    BY <1>6, <1>8, <1>9, <2>1 DEF ComesLast
  <2>3. Listing(Waiting \cup {x}, caret, ring) = Append(Listing(Waiting, caret, ring), ring[x])
    BY <2>2, ListingPut
  <2> QED
    BY <1>6, <2>3
<1>11. \A p \in Waiting \cup Trash : ring[p] # incoming
  <2> SUFFICES ASSUME NEW p \in Waiting \cup Trash PROVE ring[p] # incoming
    OBVIOUS
  <2>1. p \in Cells /\ Taken(p[1], p[2])
    BY HeldTaken
  <2>2. p[1] \in Blocks /\ p[2] \in Indices(p[1]) /\ p = <<p[1], p[2]>>
    BY <2>1, CellIs
  <2>3. ring[<<p[1], p[2]>>] # incoming
    BY <2>1, <2>2 DEF Placed, Queued
  <2> QED
    BY <2>2, <2>3
<1> QED
  BY <1>1, <1>7, <1>10, <1>11

(* The head moves past a link: nothing more waits.                         *)
LEMMA LinkRests ==
  ASSUME IInv, IInv', MoveHeadToLink
  PROVE  WaitingKept /\ TrashKept
<1> USE DEF IInv
<1> DEFINE h == head[headQ]
<1>1. /\ head' = [head EXCEPT ![headQ] = Succ(headQ, @)] /\ headQ' = headQ + 1
      /\ UNCHANGED <<caretQ, tailQ, caret, tail, ring>>
      /\ ring[<<headQ, h>>] = Link
  BY DEF MoveHeadToLink, Contents
<1>2. /\ headQ \in Blocks /\ h \in Indices(headQ) /\ caret[headQ] \in Indices(headQ)
      /\ tail[headQ] \in Indices(headQ) /\ headQ \in Int /\ caretQ \in Int
      /\ caretQ <= headQ /\ tailQ <= headQ /\ headQ' \in Blocks
  <2>1. tailQ <= headQ
    BY PlacesType DEF Shape
  <2>2. headQ' \in Blocks
    BY DEF TypeOK
  <2> QED
    BY <2>1, <2>2, PlacesType DEF Shape
<1>3. /\ head'[headQ] = Succ(headQ, h) /\ \A q \in Blocks \ {headQ} : head'[q] = head[q]
      /\ head'[headQ'] = 0 /\ caret[headQ'] = 0
  <2>1. head'[headQ] = Succ(headQ, h) /\ \A q \in Blocks \ {headQ} : head'[q] = head[q]
    BY <1>1, <1>2 DEF TypeOK
  <2>2. headQ' # headQ /\ headQ' > headQ /\ headQ' > caretQ
    BY <1>1, <1>2
  <2>3. head[headQ'] = 0 /\ caret[headQ'] = 0
    BY <1>2, <2>2 DEF Shape
  <2> QED
    BY <1>2, <2>1, <2>2, <2>3
<1>4. \A k \in Indices(headQ) :
         Within(k, caret[headQ], Succ(headQ, h)) <=> Within(k, caret[headQ], h) \/ k = h
  <2>1. Between(tail[headQ], caret[headQ], h)
    BY <1>2 DEF Shape
  <2>2. Succ(headQ, h) # caret[headQ]
    BY <1>2, <2>1, HeadAdvances DEF Room
  <2>3. Between(caret[headQ], caret[headQ], h)
    BY <1>2, Ends
  <2> QED
    BY <1>2, <2>2, <2>3, HeadAdvances
<1>5. Waiting' = Waiting
  <2>1. ASSUME NEW p \in Cells
        PROVE  p \in Waiting' <=> p \in Waiting
    <3>1. p[1] \in Blocks /\ p[2] \in Indices(p[1]) /\ p = <<p[1], p[2]>> /\ p[1] \in Int
      BY CellIs, PlacesType
    <3>2. p \in Waiting <=> /\ p[1] \in caretQ .. headQ /\ ring[p] # Link
                            /\ Within(p[2], caret[p[1]], head[p[1]])
      BY WaitingIs
    <3>3. p \in Waiting' <=> /\ p[1] \in caretQ .. headQ' /\ ring[p] # Link
                             /\ Within(p[2], caret[p[1]], head'[p[1]])
      BY <1>1, NextAre
    <3>4. CASE p[1] = headQ
      <4>1. p[1] \in caretQ .. headQ /\ p[1] \in caretQ .. headQ'
        BY <1>1, <1>2, <3>4
      <4>2. ring[p] # Link => p[2] # h
        BY <1>1, <3>1, <3>4
      <4> QED
        BY <1>3, <1>4, <3>1, <3>2, <3>3, <3>4, <4>1, <4>2
    <3>5. CASE p[1] = headQ'
      <4>1. ~(p[1] \in caretQ .. headQ)
        BY <1>1, <1>2, <3>5
      <4>2. ~Within(p[2], 0, 0)
        BY <3>1, Sizes DEF Within
      <4> QED
        BY <1>3, <3>2, <3>3, <3>5, <4>1, <4>2
    <3>6. CASE p[1] # headQ /\ p[1] # headQ'
      <4>1. p[1] \in caretQ .. headQ <=> p[1] \in caretQ .. headQ'
        BY <1>1, <1>2, <3>1, <3>6
      <4> QED
        BY <1>3, <3>1, <3>2, <3>3, <3>6, <4>1
    <3> QED
      BY <3>4, <3>5, <3>6
  <2>2. \A p : (p \in Waiting' => p \in Cells) /\ (p \in Waiting => p \in Cells)
    BY WaitingIs, NextAre
  <2> QED
    BY <2>1, <2>2
<1>6. Trash' = Trash
  BY <1>1 DEF Trash
<1> QED
  BY <1>1, <1>5, <1>6, WaitingStays, TrashStays

(* The caret moves: the cell it passes goes from what waits to the trash,  *)
(* unless it holds the link.                                               *)
LEMMA CaretPasses ==
  ASSUME IInv, IInv', ~CaretEmpty, caret' = [caret EXCEPT ![caretQ] = Succ(caretQ, @)],
         UNCHANGED <<headQ, caretQ, tailQ, head, tail, ring>>,
         NEW x, x = <<caretQ, caret[caretQ]>>
  PROVE  /\ x \in Cells /\ tailQ <= caretQ /\ caretQ <= headQ
         /\ Waiting' = Waiting \ {x} /\ (ring[x] # Link => x \in Waiting)
         /\ \A p : p \in Trash' <=> p \in Trash \/ (p = x /\ ring[x] # Link)
         /\ \A p, r \in Waiting' : Earlier(caret', p, r) <=> Earlier(caret, p, r)
<1> USE DEF IInv
<1> DEFINE c == caret[caretQ]
           t == tail[caretQ]
           h == head[caretQ]
<1>1. /\ Taken(caretQ, c) /\ caretQ \in Int /\ tailQ \in Int /\ headQ \in Int /\ caretQ \in Blocks
      /\ c \in Indices(caretQ) /\ t \in Indices(caretQ) /\ h \in Indices(caretQ)
      /\ c # h
  BY CaretTaken, PlacesType DEF CaretEmpty
<1>2. tailQ <= caretQ /\ caretQ <= headQ /\ Between(t, c, h)
  BY <1>1 DEF Taken, Shape
<1>3. /\ caret'[caretQ] = Succ(caretQ, c) /\ \A q \in Blocks \ {caretQ} : caret'[q] = caret[q]
  BY <1>1 DEF TypeOK
<1>4. /\ Within(c, c, h)
      /\ \A k \in Indices(caretQ) : Within(k, Succ(caretQ, c), h) <=> Within(k, c, h) /\ k # c
  <2>1. Between(c, h, h)
    BY <1>1, Ends
  <2> QED
    BY <1>1, <2>1, TailAdvances
<1>5. \A k \in Indices(caretQ) : Within(k, t, Succ(caretQ, c)) <=> Within(k, t, c) \/ k = c
  <2>1. Succ(caretQ, c) # t
    BY <1>1, <1>2, SuccIs, Sizes DEF Between
  <2>2. Between(t, t, c)
    BY <1>1, Ends
  <2> QED
    BY <1>1, <2>1, <2>2, HeadAdvances
<1>6. x \in Cells /\ x[1] = caretQ /\ x[2] = c
  BY <1>1, CellsAre
<1> HIDE DEF c, t, h
<1>7. ASSUME NEW p \in Cells
      PROVE  /\ p \in Waiting' <=> p \in Waiting /\ p # x
             /\ p \in Trash' <=> p \in Trash \/ (p = x /\ ring[x] # Link)
  <2>1. p[1] \in Blocks /\ p[2] \in Indices(p[1]) /\ p = <<p[1], p[2]>>
    BY CellIs
  <2>2. /\ p \in Waiting <=> /\ p[1] \in caretQ .. headQ /\ ring[p] # Link
                             /\ Within(p[2], caret[p[1]], head[p[1]])
        /\ p \in Waiting' <=> /\ p[1] \in caretQ .. headQ /\ ring[p] # Link
                              /\ Within(p[2], caret'[p[1]], head[p[1]])
    BY WaitingIs, NextAre
  <2>3. /\ p \in Trash <=> /\ p[1] \in tailQ .. caretQ /\ ring[p] # Link
                           /\ Within(p[2], tail[p[1]], caret[p[1]])
        /\ p \in Trash' <=> /\ p[1] \in tailQ .. caretQ /\ ring[p] # Link
                            /\ Within(p[2], tail[p[1]], caret'[p[1]])
    BY TrashIs, NextAre
  <2>4. CASE p[1] = caretQ
    <3>1. p = x <=> p[2] = c
      BY <2>1, <2>4 DEF c
    <3>2. p[1] \in caretQ .. headQ /\ p[1] \in tailQ .. caretQ
      BY <1>1, <1>2, <2>4
    <3>3. p \in Waiting <=> ring[p] # Link /\ Within(p[2], c, h)
      BY <2>2, <2>4, <3>2 DEF c, h
    <3>4. p \in Waiting' <=> ring[p] # Link /\ Within(p[2], Succ(caretQ, c), h)
      BY <1>3, <2>2, <2>4, <3>2 DEF h
    <3>5. p \in Trash <=> ring[p] # Link /\ Within(p[2], t, c)
      BY <2>3, <2>4, <3>2 DEF t, c
    <3>6. p \in Trash' <=> ring[p] # Link /\ Within(p[2], t, Succ(caretQ, c))
      BY <1>3, <2>3, <2>4, <3>2 DEF t
    <3> QED
      BY <1>4, <1>5, <2>1, <2>4, <3>1, <3>3, <3>4, <3>5, <3>6
  <2>5. CASE p[1] # caretQ
    BY <1>3, <1>6, <2>1, <2>2, <2>3, <2>5
  <2> QED
    BY <2>4, <2>5
<1>8. \A p : /\ p \in Waiting' \/ p \in Waiting => p \in Cells
             /\ p \in Trash' \/ p \in Trash => p \in Cells
  BY WaitingIs, TrashIs, NextAre
<1>9. ring[x] # Link => x \in Waiting
  BY <1>1, <1>2, <1>4, <1>6, WaitingIs DEF c, h
<1>10. ASSUME NEW p \in Waiting', NEW r \in Waiting'
       PROVE  Earlier(caret', p, r) <=> Earlier(caret, p, r)
  <2>1. p \in Cells /\ r \in Cells /\ p # x /\ r # x
    BY <1>7, <1>8
  <2>2. caret \in Places /\ caret' \in Places
    BY PlacesAre, NextAre
  <2>3. Passes(caretQ, caret, caret', x)
    BY <1>1, <1>3, <2>2 DEF Passes, c
  <2> QED
    BY <2>1, <2>3, EarlierPast
<1> QED
  BY <1>2, <1>6, <1>7, <1>8, <1>9, <1>10

LEMMA ReadReads ==
  ASSUME IInv, IInv', ReadCaret
  PROVE  /\ Listing(Waiting, caret, ring) # <<>>
         /\ Listing(Waiting', caret', ring') = Tail(Listing(Waiting, caret, ring))
         /\ Listing(Trash', tail', ring')
              = Append(Listing(Trash, tail, ring), Head(Listing(Waiting, caret, ring)))
<1> USE DEF IInv
<1>1. /\ ~CaretEmpty /\ CaretEntry # Link
      /\ caret' = [caret EXCEPT ![caretQ] = Succ(caretQ, @)]
      /\ UNCHANGED <<headQ, caretQ, tailQ, head, tail, ring>>
  BY DEF ReadCaret, Reading
<1>2. PICK x : x = <<caretQ, caret[caretQ]>>
  OBVIOUS
<1>3. /\ x \in Cells /\ tailQ <= caretQ
      /\ Waiting' = Waiting \ {x} /\ (ring[x] # Link => x \in Waiting)
      /\ \A p : p \in Trash' <=> p \in Trash \/ (p = x /\ ring[x] # Link)
      /\ \A p, r \in Waiting' : Earlier(caret', p, r) <=> Earlier(caret, p, r)
  BY <1>1, <1>2, CaretPasses
<1>4. ring[x] # Link /\ x \in Waiting /\ x[1] = caretQ /\ x[2] = caret[caretQ]
  BY <1>1, <1>2, <1>3 DEF CaretEntry
<1>5. /\ IsFiniteSet(Waiting) /\ Ordered(Waiting, caret) /\ IsFiniteSet(Trash)
      /\ \A p \in Waiting \cup Trash : ring[p] \in Buffers
      /\ Ordered(Waiting', caret') /\ Ordered(Trash', tail)
  <2>1. Waiting' \subseteq Cells /\ Trash' \subseteq Cells
    BY NextAre
  <2> QED
    BY <1>1, <2>1, HeldListed, CellsOrdered, NextAre
<1>6. caretQ \in Int /\ headQ \in Int /\ tailQ \in Int /\ caret \in Places /\ tail \in Places
  BY PlacesType, PlacesAre
<1>7. ComesFirst(Waiting, Waiting', caret, caret', ring, ring', Buffers, x)
  <2>1. ASSUME NEW p \in Waiting'
        PROVE  Earlier(caret, x, p)
    <3>1. p \in Cells /\ p[1] \in caretQ .. headQ /\ p # x /\ p[1] \in Int
      BY <1>3, WaitingIs, EarlierIs, <1>6
    <3> QED
      BY <1>3, <1>4, <1>6, <3>1, EarlierEnds
  <2> QED
    BY <1>1, <1>3, <1>4, <1>5, <2>1 DEF ComesFirst
<1>8. ComesLast(Trash, tail, ring, Buffers, x)
  <2>1. ASSUME NEW p \in Trash
        PROVE  Earlier(tail, p, x) /\ p # x
    <3>1. p \in Cells /\ p[1] \in tailQ .. caretQ /\ Within(p[2], tail[p[1]], caret[p[1]])
      BY TrashIs
    <3>2. p[1] \in Int /\ p[1] <= x[1] /\ (p[1] = x[1] => Within(p[2], tail[x[1]], x[2]))
      BY <1>4, <1>6, <3>1, EarlierIs
    <3>3. Earlier(tail, p, x)
      BY <1>3, <1>6, <3>1, <3>2, EarlierEnds
    <3>4. ~Earlier(tail, x, x)
      <4>1. {x} \subseteq Cells
        BY <1>3
      <4>2. Ordered({x}, tail)
        BY <1>6, <4>1, CellsOrdered
      <4> QED
        BY <4>2 DEF Ordered
    <3> QED
      BY <3>3, <3>4
  <2>2. Trash' = Trash \cup {x}
    BY <1>3, <1>4
  <2>3. Ordered(Trash \cup {x}, tail)
    BY <1>5, <2>2
  <2> QED
    BY <1>4, <1>5, <2>1, <2>3 DEF ComesLast
<1>9. /\ Listing(Waiting, caret, ring) # <<>>
      /\ Head(Listing(Waiting, caret, ring)) = ring[x]
      /\ Listing(Waiting', caret', ring') = Tail(Listing(Waiting, caret, ring))
  BY <1>7, ListingTaken
<1>10. Listing(Trash \cup {x}, tail, ring) = Append(Listing(Trash, tail, ring), ring[x])
  BY <1>8, ListingPut
<1>11. Trash' = Trash \cup {x}
  BY <1>3, <1>4
<1> QED
  BY <1>1, <1>9, <1>10, <1>11

LEMMA PeekLinkRests ==
  ASSUME IInv, IInv', PeekLink
  PROVE  WaitingKept /\ TrashKept
<1>1. /\ ~CaretEmpty /\ CaretEntry = Link
      /\ caret' = [caret EXCEPT ![caretQ] = Succ(caretQ, @)]
      /\ UNCHANGED <<headQ, caretQ, tailQ, head, tail, ring>>
  BY DEF PeekLink
<1>2. PICK x : x = <<caretQ, caret[caretQ]>>
  OBVIOUS
<1>3. /\ Waiting' = Waiting \ {x}
      /\ \A p : p \in Trash' <=> p \in Trash \/ (p = x /\ ring[x] # Link)
      /\ \A p, r \in Waiting' : Earlier(caret', p, r) <=> Earlier(caret, p, r)
  BY <1>1, <1>2, CaretPasses
<1>4. ring[x] = Link
  BY <1>1, <1>2 DEF CaretEntry
<1>5. x \notin Waiting
  BY <1>4, WaitingIs DEF IInv
<1>6. Waiting' = Waiting /\ Trash' = Trash
  BY <1>3, <1>4, <1>5
<1>7. \A p, r \in Waiting : Earlier(caret', p, r) <=> Earlier(caret, p, r)
  BY <1>3, <1>6
<1> QED
  BY <1>1, <1>6, <1>7, WaitingStays, TrashStays

LEMMA SwitchRests ==
  ASSUME IInv, IInv', SwitchQueue
  PROVE  WaitingKept /\ TrashKept
<1> USE DEF IInv
<1>1. /\ dpc = "switch" /\ caretQ' = caretQ + 1
      /\ UNCHANGED <<headQ, tailQ, head, caret, tail, ring>>
  BY DEF SwitchQueue
<1>2. /\ caretQ \in Int /\ headQ \in Int /\ tailQ \in Int /\ caretQ \in Blocks /\ caretQ' \in Blocks
      /\ caretQ < headQ /\ tailQ <= caretQ + 1 /\ caret[caretQ] = head[caretQ]
      /\ caret[caretQ'] = 0 /\ tail[caretQ'] = 0
  <2>1. caretQ \in Int /\ headQ \in Int /\ tailQ \in Int /\ caretQ \in Blocks /\ caretQ' \in Blocks
    BY PlacesType DEF TypeOK
  <2>2. caretQ < headQ /\ tailQ <= caretQ + 1 /\ caret[caretQ] = head[caretQ]
    BY <1>1, <2>1 DEF Shape
  <2> QED
    BY <1>1, <2>1, <2>2 DEF Shape
<1>3. ASSUME NEW p \in Cells
      PROVE  (p \in Waiting' <=> p \in Waiting) /\ (p \in Trash' <=> p \in Trash)
  <2>1. p[1] \in Blocks /\ p[2] \in Indices(p[1]) /\ p[1] \in Int
    BY CellIs, EarlierIs, PlacesType
  <2>2. /\ p \in Waiting <=> /\ p[1] \in caretQ .. headQ /\ ring[p] # Link
                             /\ Within(p[2], caret[p[1]], head[p[1]])
        /\ p \in Waiting' <=> /\ p[1] \in caretQ' .. headQ /\ ring[p] # Link
                              /\ Within(p[2], caret[p[1]], head[p[1]])
    BY <1>1, WaitingIs, NextAre
  <2>3. /\ p \in Trash <=> /\ p[1] \in tailQ .. caretQ /\ ring[p] # Link
                           /\ Within(p[2], tail[p[1]], caret[p[1]])
        /\ p \in Trash' <=> /\ p[1] \in tailQ .. caretQ' /\ ring[p] # Link
                            /\ Within(p[2], tail[p[1]], caret[p[1]])
    BY <1>1, TrashIs, NextAre
  <2>4. p[1] = caretQ => ~Within(p[2], caret[p[1]], head[p[1]])
    <3>1. caret[caretQ] \in Indices(caretQ)
      BY <1>2, PlacesType
    <3> QED
      BY <1>2, <2>1, <3>1, Ends
  <2>5. p[1] = caretQ' => ~Within(p[2], tail[p[1]], caret[p[1]])
    <3>1. caret[caretQ'] \in Indices(caretQ')
      BY <1>2, PlacesType
    <3> QED
      BY <1>2, <2>1, <3>1, Ends
  <2>6. /\ p[1] # caretQ => (p[1] \in caretQ .. headQ <=> p[1] \in caretQ' .. headQ)
        /\ p[1] # caretQ' => (p[1] \in tailQ .. caretQ <=> p[1] \in tailQ .. caretQ')
    BY <1>1, <1>2, <2>1
  <2>7. /\ p[1] = caretQ => ~(p[1] \in caretQ' .. headQ)
        /\ p[1] = caretQ' => ~(p[1] \in tailQ .. caretQ)
    BY <1>1, <1>2, <2>1
  <2> QED
    BY <2>2, <2>3, <2>4, <2>5, <2>6, <2>7
<1>4. \A p : /\ p \in Waiting' \/ p \in Waiting => p \in Cells
             /\ p \in Trash' \/ p \in Trash => p \in Cells
  BY WaitingIs, TrashIs, NextAre
<1>5. Waiting' = Waiting /\ Trash' = Trash
  BY <1>3, <1>4
<1> QED
  BY <1>1, <1>5, WaitingStays, TrashStays

(* The tail moves: the cell it passes is trash no more, the rest stays.    *)
LEMMA TailPasses ==
  ASSUME IInv, IInv', TrashLeft, tail' = [tail EXCEPT ![tailQ] = Succ(tailQ, @)],
         UNCHANGED <<headQ, head, caret, caretQ, dpc>>,
         NEW x, x = <<tailQ, tail[tailQ]>>,
         \A p \in Cells \ {x} : ring'[p] = ring[p],
         \/ tailQ' = tailQ /\ TrashEntry # Link
         \/ tailQ' = tailQ + 1 /\ TrashEntry = Link /\ ring' = ring
  PROVE  /\ x \in Cells /\ tailQ <= caretQ
         /\ Trash' = Trash \ {x} /\ (TrashEntry # Link => x \in Trash)
         /\ \A p, r \in Trash' : Earlier(tail', p, r) <=> Earlier(tail, p, r)
         /\ \A p \in Trash' : ring'[p] = ring[p]
         /\ WaitingKept
<1> USE DEF IInv
<1> DEFINE c == caret[tailQ]
           t == tail[tailQ]
           h == head[tailQ]
<1>1. /\ Taken(tailQ, t) /\ caretQ \in Int /\ tailQ \in Int /\ headQ \in Int /\ tailQ \in Blocks
      /\ c \in Indices(tailQ) /\ t \in Indices(tailQ) /\ h \in Indices(tailQ)
      /\ t # c /\ tailQ <= caretQ /\ caretQ <= headQ /\ Between(t, c, h)
      /\ TrashEntry = Link => tailQ < headQ /\ Succ(tailQ, t) = h
  BY TrashTaken, PlacesType DEF TrashLeft, Shape
<1>2. /\ tail'[tailQ] = Succ(tailQ, t) /\ \A q \in Blocks \ {tailQ} : tail'[q] = tail[q]
  BY <1>1 DEF TypeOK
<1>3. /\ Within(t, t, c)
      /\ \A k \in Indices(tailQ) : Within(k, Succ(tailQ, t), c) <=> Within(k, t, c) /\ k # t
  <2>1. Between(t, c, c)
    BY <1>1, Ends
  <2> QED
    BY <1>1, <2>1, TailAdvances
<1>4. ~Within(t, c, h)
  BY <1>1, <1>3, Parts
<1>5. x \in Cells /\ x[1] = tailQ /\ x[2] = t
  BY <1>1, CellsAre
<1>6. TrashEntry = ring[x]
  BY DEF TrashEntry
<1> HIDE DEF c, t, h
<1>7. ASSUME NEW p \in Cells
      PROVE  p \in Waiting => p # x
  BY <1>4, <1>5, WaitingIs DEF c, h
<1>8. ASSUME NEW p \in Cells
      PROVE  p \in Waiting' <=> p \in Waiting
  <2>1. CASE p = x
    <3>1. ~Within(p[2], caret[p[1]], head[p[1]])
      BY <1>4, <1>5, <2>1 DEF c, h
    <3> QED
      BY <3>1, WaitingIs, NextAre
  <2>2. CASE p # x
    BY <2>2, WaitingIs, NextAre
  <2> QED
    BY <2>1, <2>2
<1>9. WaitingKept
  <2>1. \A p : p \in Waiting' \/ p \in Waiting => p \in Cells
    BY WaitingIs, NextAre
  <2>2. Waiting' = Waiting
    BY <1>8, <2>1
  <2> QED
    BY <1>7, <2>1, <2>2, WaitingStays
<1>10. ASSUME NEW p \in Cells
       PROVE  p \in Trash' <=> p \in Trash /\ p # x
  <2>1. p[1] \in Blocks /\ p[2] \in Indices(p[1]) /\ p = <<p[1], p[2]>> /\ p[1] \in Int
    BY CellIs, EarlierIs, PlacesType
  <2>2. /\ p \in Trash <=> /\ p[1] \in tailQ .. caretQ /\ ring[p] # Link
                           /\ Within(p[2], tail[p[1]], caret[p[1]])
        /\ p \in Trash' <=> /\ p[1] \in tailQ' .. caretQ /\ ring'[p] # Link
                            /\ Within(p[2], tail'[p[1]], caret[p[1]])
    BY TrashIs, NextAre
  <2>3. CASE p[1] = tailQ
    <3>1. p = x <=> p[2] = t
      BY <2>1, <2>3 DEF t
    <3>2. Within(p[2], tail'[p[1]], caret[p[1]]) <=> Within(p[2], tail[p[1]], caret[p[1]]) /\ p # x
      BY <1>2, <1>3, <2>1, <2>3, <3>1 DEF c, t
    <3>3. CASE tailQ' = tailQ /\ TrashEntry # Link
      BY <1>1, <2>2, <3>2, <3>3
    <3>4. CASE tailQ' = tailQ + 1 /\ TrashEntry = Link
      <4>1. ~(p[1] \in tailQ' .. caretQ)
        BY <1>1, <2>3, <3>4
      <4>2. p # x => ~Within(p[2], tail[p[1]], caret[p[1]])
        <5>1. Succ(tailQ, t) = h /\ Between(h, c, h)
          <6>1. Succ(tailQ, t) = h
            BY <1>1, <3>4
          <6> QED
            BY <1>1, <6>1, TailAdvances
        <5>2. c = h
          BY <1>1, <5>1, Sizes DEF Between
        <5>3. ~Within(p[2], h, h)
          BY <1>1, <2>1, <2>3, Ends
        <5> QED
          BY <1>3, <2>1, <2>3, <3>1, <5>1, <5>2, <5>3 DEF c, t
      <4>3. p = x => ring[p] = Link
        BY <1>6, <3>4
      <4> QED
        BY <2>2, <4>1, <4>2, <4>3
    <3> QED
      BY <3>3, <3>4
  <2>4. CASE p[1] # tailQ
    <3>1. p[1] \in tailQ' .. caretQ <=> p[1] \in tailQ .. caretQ
      BY <1>1, <2>1, <2>4
    <3>2. p # x /\ tail'[p[1]] = tail[p[1]] /\ ring'[p] = ring[p]
      BY <1>2, <1>5, <2>1, <2>4
    <3> QED
      BY <2>2, <3>1, <3>2
  <2> QED
    BY <2>3, <2>4
<1>11. \A p : p \in Trash' \/ p \in Trash => p \in Cells
  BY TrashIs, NextAre
<1>12. TrashEntry # Link => x \in Trash
  BY <1>1, <1>3, <1>5, <1>6, TrashIs DEF c, t
<1>13. ASSUME NEW p \in Trash', NEW r \in Trash'
       PROVE  Earlier(tail', p, r) <=> Earlier(tail, p, r)
  <2>1. p \in Cells /\ r \in Cells /\ p # x /\ r # x
    BY <1>10, <1>11
  <2>2. tail \in Places /\ tail' \in Places
    BY PlacesAre, NextAre
  <2>3. Passes(tailQ, tail, tail', x)
    BY <1>1, <1>2, <2>2 DEF Passes, t
  <2> QED
    BY <2>1, <2>3, EarlierPast
<1> QED
  BY <1>1, <1>5, <1>9, <1>10, <1>11, <1>12, <1>13

LEMMA RecycleCollects ==
  ASSUME IInv, IInv', Recycle
  PROVE  /\ Listing(Trash, tail, ring) # <<>>
         /\ Listing(Trash', tail', ring') = Tail(Listing(Trash, tail, ring))
         /\ WaitingKept
<1> USE DEF IInv
<1>1. /\ TrashLeft /\ TrashEntry \in Buffers
      /\ tail' = [tail EXCEPT ![tailQ] = Succ(tailQ, @)]
      /\ ring' = [ring EXCEPT ![<<tailQ, tail[tailQ]>>] = None]
      /\ UNCHANGED <<headQ, caretQ, tailQ, head, caret, dpc>>
  BY DEF Recycle
<1>2. PICK x : x = <<tailQ, tail[tailQ]>>
  OBVIOUS
<1>3. TrashEntry # Link /\ \A p \in Cells \ {x} : ring'[p] = ring[p]
  BY <1>1, <1>2, EntryAssumption DEF TypeOK
<1>4. /\ x \in Cells /\ tailQ <= caretQ
      /\ Trash' = Trash \ {x} /\ x \in Trash
      /\ \A p, r \in Trash' : Earlier(tail', p, r) <=> Earlier(tail, p, r)
      /\ \A p \in Trash' : ring'[p] = ring[p]
      /\ WaitingKept
  BY <1>1, <1>2, <1>3, TailPasses
<1>5. /\ IsFiniteSet(Trash) /\ Ordered(Trash, tail) /\ Ordered(Trash', tail')
      /\ \A p \in Trash : ring[p] \in Buffers
  <2>1. Trash' \subseteq Cells
    BY NextAre
  <2> QED
    BY <2>1, HeldListed, CellsOrdered, NextAre
<1>6. ASSUME NEW p \in Trash'
      PROVE  Earlier(tail, x, p)
  <2>1. p \in Cells /\ p[1] \in tailQ .. caretQ /\ p # x
    BY <1>4, TrashIs
  <2>2. p[1] \in Int /\ tailQ \in Int /\ tail \in Places
    BY <2>1, EarlierIs, PlacesType, PlacesAre
  <2>3. x[1] = tailQ /\ x[2] = tail[x[1]] /\ x[1] <= p[1]
    BY <1>2, <2>1, <2>2
  <2> QED
    BY <1>4, <2>1, <2>2, <2>3, EarlierEnds
<1>7. ComesFirst(Trash, Trash', tail, tail', ring, ring', Buffers, x)
  BY <1>4, <1>5, <1>6 DEF ComesFirst
<1>8. /\ Listing(Trash, tail, ring) # <<>>
      /\ Head(Listing(Trash, tail, ring)) = ring[x]
      /\ Listing(Trash', tail', ring') = Tail(Listing(Trash, tail, ring))
  BY <1>7, ListingTaken
<1> QED
  BY <1>4, <1>8

LEMMA FreeQueueRests ==
  ASSUME IInv, IInv', FreeQueue
  PROVE  WaitingKept /\ TrashKept
<1>1. /\ TrashLeft /\ TrashEntry = Link
      /\ tail' = [tail EXCEPT ![tailQ] = Succ(tailQ, @)]
      /\ tailQ' = tailQ + 1
      /\ UNCHANGED <<headQ, caretQ, head, caret, dpc, ring>>
  BY DEF FreeQueue
<1>2. PICK x : x = <<tailQ, tail[tailQ]>>
  OBVIOUS
<1>3. /\ Trash' = Trash \ {x}
      /\ \A p, r \in Trash' : Earlier(tail', p, r) <=> Earlier(tail, p, r)
      /\ WaitingKept
  BY <1>1, <1>2, TailPasses
<1>4. x \notin Trash
  BY <1>1, <1>2, TrashIs DEF IInv, TrashEntry
<1>5. Trash' = Trash
  BY <1>3, <1>4
<1> QED
  BY <1>1, <1>3, <1>5, TrashStays

-----------------------------------------------------------------------------
(* The queue implements the conveyor.                                      *)

LEMMA ConveyorInit == Init => Conveyor!Init
<1> SUFFICES ASSUME Init PROVE Conveyor!Init
  OBVIOUS
<1>1. IInv
  BY Initially
<1>2. \A p \in Waiting \cup Trash : Taken(p[1], p[2]) /\ p \in Cells
  BY <1>1, HeldTaken DEF IInv
<1>3. \A q, k : ~Taken(q, k)
  <2>1. 0 \in Blocks /\ \A q \in Blocks : 0 \in Indices(q)
    BY Sizes, SizeAssumption
  <2> QED
    BY <2>1 DEF Init, Taken, Within
<1>4. Waiting = {} /\ Trash = {}
  BY <1>2, <1>3
<1>5. Cardinality(Waiting) = 0 /\ Cardinality(Trash) = 0
  BY <1>4, FS_EmptySet
<1>6. Listing(Waiting, caret, ring) = <<>> /\ Listing(Trash, tail, ring) = <<>>
  BY <1>5 DEF Listing
<1> QED
  BY <1>6 DEF Conveyor!Init

LEMMA ConveyorNext ==
  IInv /\ IInv' /\ [Next]_vars
    => [Conveyor!Next]_<<Listing(Waiting, caret, ring), Listing(Trash, tail, ring)>>
<1> DEFINE W == Listing(Waiting, caret, ring)
           X == Listing(Trash, tail, ring)
           Stays == W' = W /\ X' = X
<1> SUFFICES ASSUME IInv, IInv', [Next]_vars
             PROVE  Conveyor!Next \/ Stays
  OBVIOUS
<1>0. WaitingKept /\ TrashKept => Stays
  BY DEF WaitingKept, TrashKept
<1>1. CASE UNCHANGED queue
  BY <1>0, <1>1, QueueRests
<1>2. CASE PutLink \/ PutEntry
  <2>1. /\ UNCHANGED <<headQ, caretQ, tailQ, head, caret, tail>>
        /\ \/ ring' = [ring EXCEPT ![<<headQ, head[headQ]>>] = Link]
           \/ ring' = [ring EXCEPT ![<<headQ, head[headQ]>>] = incoming]
    BY <1>2 DEF PutLink, PutEntry
  <2>2. \A p \in Cells \ {<<headQ, head[headQ]>>} : ring'[p] = ring[p]
    BY <2>1 DEF IInv, TypeOK
  <2> QED
    BY <1>0, <2>1, <2>2, WriteRests
<1>3. CASE MoveHeadToLink
  BY <1>0, <1>3, LinkRests
<1>4. CASE MoveHead
  <2>1. /\ W' = Append(W, incoming) /\ X' = X /\ incoming \in Buffers
        /\ \A p \in Waiting \cup Trash : ring[p] # incoming
    BY <1>4, HeadPuts DEF TrashKept
  <2>2. /\ Lists(W, Waiting, caret, ring, Buffers)
        /\ Lists(X, Trash, tail, ring, Buffers)
    BY HeldListed, ListingIs
  <2>3. /\ DOMAIN W = 1 .. Cardinality(Waiting) /\ DOMAIN X = 1 .. Cardinality(Trash)
        /\ \A n \in DOMAIN W : \E p \in Waiting : W[n] = ring[p]
        /\ \A n \in DOMAIN X : \E p \in Trash : X[n] = ring[p]
    BY <2>2 DEF Lists
  <2>4. (\A n \in DOMAIN W : W[n] # incoming) /\ (\A n \in DOMAIN X : X[n] # incoming)
    BY <2>1, <2>3
  <2>5. incoming \notin Conveyor!OnConveyor
    BY <2>4 DEF Conveyor!OnConveyor, Conveyor!Elements
  <2>6. Conveyor!Put(incoming)
    BY <2>1, <2>5 DEF Conveyor!Put
  <2> QED
    BY <2>1, <2>6 DEF Conveyor!Next
<1>5. CASE Recycle
  BY <1>5, RecycleCollects DEF WaitingKept, Conveyor!Next, Conveyor!Collect
<1>6. CASE FreeQueue
  BY <1>0, <1>6, FreeQueueRests
<1>7. CASE DiscardCaret
  <2>1. caretQ = headQ /\ caret[headQ] = head[headQ] /\ caret \in [Blocks -> Nat]
    BY <1>7 DEF DiscardCaret, IInv, Phases, TypeOK
  <2>2. caret' = caret
    BY <1>7, <2>1 DEF DiscardCaret
  <2>3. UNCHANGED queue
    BY <1>7, <2>1, <2>2 DEF DiscardCaret, queue
  <2> QED
    BY <1>0, <2>3, QueueRests
<1>8. CASE PeekLink
  BY <1>0, <1>8, PeekLinkRests
<1>9. CASE SwitchQueue
  BY <1>0, <1>9, SwitchRests
<1>10. CASE ReadCaret
  BY <1>10, ReadReads DEF Conveyor!Next, Conveyor!Read
<1>11. CASE \/ Open \/ Close \/ Housekeeping \/ StopRefused \/ StopChecked \/ Disable \/ Recycled
            \/ Lock \/ PeekEmpty \/ PeekBuffer \/ Decode \/ CompareCount \/ PutFails \/ DropDecoder
            \/ (\E d \in Decoders : CreateDecoder(d)) \/ (\E b \in Buffers : Process(b))
            \/ UNCHANGED vars
  <2>1. UNCHANGED queue
    BY <1>11 DEF Open, Close, Housekeeping, StopRefused, StopChecked, Disable, Recycled, Lock,
                 PeekEmpty, PeekBuffer, Decode, CompareCount, PutFails, DropDecoder, CreateDecoder,
                 Process, vars
  <2> QED
    BY <1>1, <2>1
<1> QED
  BY <1>2, <1>3, <1>4, <1>5, <1>6, <1>7, <1>8, <1>9, <1>10, <1>11 DEF Next, ServerStep, Driver

-----------------------------------------------------------------------------
(* All variables have their types: above all, every index is within its    *)
(* queue buffer and no reference count falls below zero.                   *)
THEOREM SpecTypeOK == Spec => []TypeOK
<1>1. IInv => TypeOK
  BY DEF IInv
<1> QED
  BY <1>1, Invariant, PTL

(* A taxi buffer is always in exactly one place: discarded, about to be    *)
(* put, or in one cell of the queue.                                       *)
THEOREM SpecBuffersConserved == Spec => []BuffersConserved
  BY Conserved, Invariant, PTL

(* getNextBuffer: until the driver hands it over by readCaret, the buffer  *)
(* it decodes is not discarded and its decoder is not deleted.             *)
THEOREM SpecSafeUntilRead == Spec => []SafeUntilRead
  BY Decodes, Invariant, PTL

(* The reference count of a decoder is the number of its users.            *)
THEOREM SpecRefCountExact == Spec => []RefCountExact
<1>1. IInv => RefCountExact
  BY DEF IInv
<1> QED
  BY <1>1, Invariant, PTL

(* The driver never looks into a freed queue buffer, and live ones are     *)
(* linked.                                                                 *)
THEOREM SpecQueuesLinked == Spec => []QueuesLinked
  BY Linked, Invariant, PTL

(* After a graceful stop the adapter is disabled, its queue is empty and   *)
(* all buffers are discarded.                                              *)
THEOREM SpecStoppedEmpty == Spec => []StoppedEmpty
  BY Stopped, Invariant, PTL

(* The queue implements TaxiConveyor: through all its ring buffers, links  *)
(* and freed queue buffers the server gets the buffers back in the order   *)
(* it put them, after the driver has read them, each one once.             *)
THEOREM ConveyorRefinement == Spec => ConveyorSpec
<1>1. Init => Conveyor!Init
  BY ConveyorInit
<1>2. IInv /\ IInv' /\ [Next]_vars
        => [Conveyor!Next]_<<Listing(Waiting, caret, ring), Listing(Trash, tail, ring)>>
  BY ConveyorNext
<1> QED
  BY <1>1, <1>2, Invariant, PTL DEF Spec, ConveyorSpec, Conveyor!Spec

=============================================================================
