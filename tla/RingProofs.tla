----------------------------- MODULE RingProofs -----------------------------
(***************************************************************************)
(* TLAPS proofs about Ring: its inductive invariant, the absence of a race *)
(* on a slot, and that the ring implements the queue of ByteFifo, for      *)
(* every size N > 1 and every set of bytes.                                *)
(***************************************************************************)
EXTENDS Ring, SequenceTheorems, TLAPS

(***************************************************************************)
(* The initial ring satisfies the inductive invariant of Ring.             *)
(***************************************************************************)
LEMMA InitInv == RingInit => RingIInv
BY NAssumption, NoValueAssumption
   DEF RingInit, RingIInv, RingTypeOK, ProducerOK, ConsumerOK, FilledOK, Size, Space,
       Dist, Wrap, Slots

(***************************************************************************)
(* Every atomic step of push(), pop(), peek() and reset() preserves the    *)
(* inductive invariant.                                                    *)
(***************************************************************************)
LEMMA NextInv == RingIInv /\ [RingNext]_ringVars => RingIInv'
<1> SUFFICES ASSUME RingIInv, [RingNext]_ringVars PROVE RingIInv'
  OBVIOUS
<1> USE NAssumption DEF RingIInv, RingTypeOK, ProducerOK, ConsumerOK, FilledOK,
                        Size, Space, Dist, Wrap, Slots
<1>1. ASSUME NEW b \in Bytes, PushCheck(b) PROVE RingIInv'
  BY <1>1 DEF PushCheck
<1>2. CASE PushWrite
  BY <1>2 DEF PushWrite
<1>3. CASE PushPublish
  BY <1>3 DEF PushPublish
<1>4. CASE PopCheck
  BY <1>4 DEF PopCheck
<1>5. CASE PopRead
  BY <1>5 DEF PopRead
<1>6. CASE PopAdvance
  BY <1>6 DEF PopAdvance
<1>7. CASE PeekCheck
  BY <1>7 DEF PeekCheck
<1>8. CASE PeekRead
  BY <1>8 DEF PeekRead
<1>9. CASE ResetLoad
  BY <1>9 DEF ResetLoad
<1>10. CASE ResetStore
  BY <1>10 DEF ResetStore
<1>11. CASE UNCHANGED ringVars
  BY <1>11 DEF ringVars
<1> QED
  BY <1>1, <1>2, <1>3, <1>4, <1>5, <1>6, <1>7, <1>8, <1>9, <1>10, <1>11
     DEF RingNext, Produce, Consume, Reset

(***************************************************************************)
(* The inductive invariant holds in every reachable state.                 *)
(***************************************************************************)
THEOREM Invariance == RingSpec => []RingIInv
<1>1. RingInit => RingIInv
  BY InitInv
<1>2. RingIInv /\ [RingNext]_ringVars => RingIInv'
  BY NextInv
<1> QED
  BY <1>1, <1>2, PTL DEF RingSpec

(***************************************************************************)
(* Type correctness: the indices of the ring of src/ximodem.cpp stay       *)
(* inside buf, whatever the interleaving.                                  *)
(***************************************************************************)
THEOREM TypeCorrect == RingSpec => []RingTypeOK
<1>1. RingIInv => RingTypeOK
  BY DEF RingIInv
<1> QED
  BY <1>1, Invariance, PTL

(***************************************************************************)
(* The producer never writes the slot the consumer is reading, although    *)
(* push() and pop() share no lock.                                         *)
(***************************************************************************)
THEOREM RaceFreedom == RingSpec => []NoSlotRace
<1>1. RingIInv => NoSlotRace
  BY NAssumption DEF RingIInv, RingTypeOK, ConsumerOK, NoSlotRace, Size, Wrap, Slots
<1> QED
  BY <1>1, Invariance, PTL

-----------------------------------------------------------------------------
(* The ring implements the queue.                                          *)

(***************************************************************************)
(* The queued bytes form a sequence of fewer than N bytes.                 *)
(***************************************************************************)
LEMMA ContentSeq ==
  ASSUME RingIInv
  PROVE  /\ Content \in Seq(Bytes)
         /\ Len(Content) = Size
         /\ Size \in Nat /\ Size < N
         /\ \A i \in 1 .. Size : Content[i] = buf[Wrap(tail + (i - 1))]
<1>1. Size \in Nat /\ Size < N
  BY NAssumption DEF RingIInv, RingTypeOK, Size, Wrap, Slots
<1>2. ASSUME NEW i \in 1 .. Size
      PROVE  /\ Wrap(tail + (i - 1)) \in Slots
             /\ buf[Wrap(tail + (i - 1))] \in Bytes
  BY <1>1, NAssumption DEF RingIInv, RingTypeOK, FilledOK, Size, Dist, Wrap, Slots
<1> QED
  BY <1>1, <1>2 DEF Content

(***************************************************************************)
(* PushPublish is the queue's Put.                                         *)
(***************************************************************************)
LEMMA PublishPuts ==
  ASSUME RingIInv, RingIInv', PushPublish
  PROVE  Fifo!Put(pbyte) /\ pbyte \in Bytes
<1> USE NAssumption
<1>1. Size' = Size + 1 /\ Size < N - 1 /\ buf[head] = pbyte /\ pbyte \in Bytes
  BY DEF PushPublish, RingIInv, RingTypeOK, ProducerOK, Size, Space, Wrap, Slots
<1>2. /\ Len(Content) = Size /\ Content \in Seq(Bytes)
      /\ \A i \in 1 .. Size : Content[i] = buf[Wrap(tail + (i - 1))]
      /\ Size \in Nat
  BY ContentSeq
<1>3. Content' = [i \in 1 .. Size + 1 |-> buf[Wrap(tail + (i - 1))]]
  BY <1>1 DEF Content, PushPublish
<1>4. Wrap(tail + ((Size + 1) - 1)) = head
  BY DEF RingIInv, RingTypeOK, Size, Wrap, Slots
<1>5. Content' = Append(Content, pbyte)
  <2>1. /\ Append(Content, pbyte) \in Seq(Bytes)
        /\ Len(Append(Content, pbyte)) = Size + 1
        /\ \A i \in 1 .. Size : Append(Content, pbyte)[i] = Content[i]
        /\ Append(Content, pbyte)[Size + 1] = pbyte
    BY <1>1, <1>2, AppendProperties
  <2>2. \A i \in 1 .. Size + 1 : Content'[i] = Append(Content, pbyte)[i]
    BY <1>1, <1>2, <1>3, <1>4, <2>1
  <2>3. Content' \in Seq(Bytes) /\ Len(Content') = Size + 1
    <3>1. ASSUME NEW i \in 1 .. Size + 1
          PROVE  buf[Wrap(tail + (i - 1))] \in Bytes
      <4>1. CASE i = Size + 1
        BY <1>1, <1>2, <1>4, <4>1
      <4>2. CASE i \in 1 .. Size
        <5>1. Content[i] \in Bytes
          BY <1>2, <4>2, ElementOfSeq
        <5> QED
          BY <1>2, <4>2, <5>1
      <4> QED
        BY <1>2, <4>1, <4>2
    <3> QED
      BY <1>2, <1>3, <3>1
  <2> QED
    BY <2>1, <2>2, <2>3, SeqEqual
<1> QED
  BY <1>1, <1>2, <1>5 DEF Fifo!Put, PushPublish

(***************************************************************************)
(* PopAdvance is the queue's Get.                                          *)
(***************************************************************************)
LEMMA AdvanceGets ==
  ASSUME RingIInv, RingIInv', PopAdvance
  PROVE  Fifo!Get
<1> USE NAssumption
<1>1. Size' = Size - 1 /\ Size > 0 /\ cbyte = buf[tail]
  BY DEF PopAdvance, RingIInv, RingTypeOK, ConsumerOK, Size, Wrap, Slots
<1>2. /\ Len(Content) = Size /\ Content \in Seq(Bytes)
      /\ \A i \in 1 .. Size : Content[i] = buf[Wrap(tail + (i - 1))]
      /\ Size \in Nat
  BY ContentSeq
<1>3. ASSUME NEW i \in 1 .. Size - 1
      PROVE  Wrap(Wrap(tail + 1) + (i - 1)) = Wrap(tail + ((i + 1) - 1))
  BY <1>2 DEF RingIInv, RingTypeOK, Size, Wrap, Slots
<1>4. Content' = [i \in 1 .. Size - 1 |-> buf[Wrap(Wrap(tail + 1) + (i - 1))]]
  BY <1>1 DEF Content, PopAdvance
<1>5. Content' = [i \in 1 .. Size - 1 |-> Content[i + 1]]
  BY <1>2, <1>3, <1>4
<1>6. Content' = Tail(Content)
  <2>1. /\ Tail(Content) \in Seq(Bytes)
        /\ Len(Tail(Content)) = Size - 1
        /\ \A i \in 1 .. Size - 1 : Tail(Content)[i] = Content[i + 1]
    BY <1>1, <1>2, HeadTailProperties
  <2>2. \A i \in 1 .. Size - 1 : Content'[i] = Tail(Content)[i]
    BY <1>5, <2>1
  <2>3. Content' \in Seq(Bytes) /\ Len(Content') = Size - 1
    BY <1>1, <1>2, <1>5, <2>1, <2>2, ElementOfSeq
  <2> QED
    BY <2>1, <2>2, <2>3, SeqEqual
<1>7. Head(Content) = cbyte
  BY <1>1, <1>2 DEF RingIInv, RingTypeOK, Wrap, Slots
<1> QED
  BY <1>1, <1>2, <1>6, <1>7 DEF Fifo!Get, PopAdvance

(***************************************************************************)
(* ResetStore discards the oldest bytes, or nothing.                       *)
(***************************************************************************)
LEMMA ResetDiscards ==
  ASSUME RingIInv, RingIInv', ResetStore
  PROVE  [Fifo!Next]_Fifo!vars
<1> USE NAssumption
<1> DEFINE k == Dist(chead)
<1>1. k \in 0 .. Size /\ Size' = Size - k
  BY DEF ResetStore, RingIInv, RingTypeOK, ConsumerOK, Size, Dist, Wrap, Slots
<1>2. /\ Len(Content) = Size /\ Content \in Seq(Bytes)
      /\ \A i \in 1 .. Size : Content[i] = buf[Wrap(tail + (i - 1))]
      /\ Size \in Nat
  BY ContentSeq
<1>3. ASSUME NEW i \in 1 .. Size - k
      PROVE  Wrap(chead + (i - 1)) = Wrap(tail + ((i + k) - 1))
  BY <1>1, <1>2 DEF RingIInv, RingTypeOK, ConsumerOK, Size, Dist, Wrap, Slots
<1>4. Content' = [i \in 1 .. Size - k |-> buf[Wrap(chead + (i - 1))]]
  BY <1>1 DEF Content, ResetStore
<1> HIDE DEF k
<1>5. Content' = [i \in 1 .. Size - k |-> Content[i + k]]
  BY <1>1, <1>2, <1>3, <1>4
<1>6. Content' = SubSeq(Content, k + 1, Len(Content))
  BY <1>1, <1>2, <1>5
<1>7. CASE k = 0
  BY <1>1, <1>2, <1>5, <1>7 DEF Fifo!vars, ResetStore
<1>8. CASE k \in 1 .. Len(Content)
  BY <1>6, <1>8 DEF Fifo!Discard, Fifo!Next, ResetStore
<1> QED
  BY <1>1, <1>2, <1>7, <1>8

(***************************************************************************)
(* No other step changes the queue: what push() writes is not part of it   *)
(* until it is published.                                                  *)
(***************************************************************************)
LEMMA OthersStutter ==
  ASSUME RingIInv, RingIInv',
         \/ (\E b \in Bytes : PushCheck(b)) \/ PushWrite
         \/ PopCheck \/ PopRead \/ PeekCheck \/ PeekRead
         \/ ResetLoad \/ UNCHANGED ringVars
  PROVE  UNCHANGED Fifo!vars
<1> USE NAssumption
<1>1. CASE PushWrite
  <2>1. ASSUME NEW i \in 1 .. Size
        PROVE  Wrap(tail + (i - 1)) # head /\ Wrap(tail + (i - 1)) \in Slots
    BY DEF RingIInv, RingTypeOK, Size, Wrap, Slots
  <2>2. Size' = Size /\ tail' = tail /\ given' = given
    BY <1>1 DEF PushWrite, Size, Wrap
  <2>3. ASSUME NEW i \in 1 .. Size
        PROVE  buf'[Wrap(tail + (i - 1))] = buf[Wrap(tail + (i - 1))]
    BY <1>1, <2>1 DEF PushWrite, RingIInv, RingTypeOK
  <2>4. Content' = [i \in 1 .. Size |-> buf'[Wrap(tail + (i - 1))]]
    BY <2>2 DEF Content, Wrap
  <2>5. Content' = Content
    BY <2>3, <2>4 DEF Content
  <2> QED
    BY <2>2, <2>5 DEF Fifo!vars
<1>2. CASE UNCHANGED <<buf, head, tail, given>>
  BY <1>2 DEF Fifo!vars, Content, Size, Wrap
<1> QED
  BY <1>1, <1>2 DEF PushCheck, PopCheck, PopRead, PeekCheck, PeekRead,
                    ResetLoad, ringVars

(***************************************************************************)
(* The lock-free ring implements the abstract byte queue.                  *)
(***************************************************************************)
THEOREM Refinement == RingSpec => ImplementsFifo
<1>1. RingInit => Fifo!Init
  <2> SUFFICES ASSUME RingInit PROVE Fifo!Init
    OBVIOUS
  <2>1. Size = 0
    BY NAssumption DEF RingInit, Size, Wrap
  <2>2. Content = <<>>
    BY <2>1 DEF Content
  <2> QED
    BY <2>2 DEF RingInit, Fifo!Init
<1>2. RingIInv /\ RingIInv' /\ [RingNext]_ringVars => [Fifo!Next]_Fifo!vars
  <2> SUFFICES ASSUME RingIInv, RingIInv', [RingNext]_ringVars PROVE [Fifo!Next]_Fifo!vars
    OBVIOUS
  <2>1. CASE PushPublish
    BY <2>1, PublishPuts DEF Fifo!Next
  <2>2. CASE PopAdvance
    BY <2>2, AdvanceGets DEF Fifo!Next
  <2>3. CASE ResetStore
    BY <2>3, ResetDiscards
  <2>4. CASE \/ (\E b \in Bytes : PushCheck(b)) \/ PushWrite
             \/ PopCheck \/ PopRead \/ PeekCheck \/ PeekRead
             \/ ResetLoad \/ UNCHANGED ringVars
    BY <2>4, OthersStutter
  <2> QED
    BY <2>1, <2>2, <2>3, <2>4 DEF RingNext, Produce, Consume, Reset
<1> QED
  BY <1>1, <1>2, Invariance, PTL DEF RingSpec, ImplementsFifo, Fifo!Spec
=============================================================================
