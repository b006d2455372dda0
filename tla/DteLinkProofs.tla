--------------------------- MODULE DteLinkProofs ----------------------------
(***************************************************************************)
(* TLAPS proofs about DteLink, for all sizes, rates and numbers of threads *)
(* of the embedder: the bytes reach the terminal in order and none is lost *)
(* silently, what the ring is given after the fall of RTS and what comes   *)
(* back after a reset of the card are bounded.                             *)
(***************************************************************************)
EXTENDS DteLink, SequenceTheorems, TLAPS

(***************************************************************************)
(* The sizes of the code, one by one.                                      *)
(***************************************************************************)
LEMMA Sizes ==
    /\ MaxOut \in Nat /\ MaxDrops \in Nat /\ PreconfigHold \in Nat
    /\ TbufCap \in Nat /\ TbufCap > 0 /\ RingCap \in Nat /\ RingCap > 0
    /\ SerBuf \in Nat /\ FlowDiv \in Nat /\ FlowDiv > 0 /\ TxFifo \in Nat
    /\ PreconfigHold <= RingCap
BY SizesAssumption

(***************************************************************************)
(* What Append does to the elements of a sequence.                         *)
(***************************************************************************)
LEMMA AppendByte ==
  ASSUME NEW S, NEW q \in Seq(S), NEW b \in S
  PROVE  /\ Append(q, b) \in Seq(S)
         /\ Len(Append(q, b)) = Len(q) + 1 /\ Len(q) \in Nat
         /\ \A i \in 1 .. Len(q) : Append(q, b)[i] = q[i]
         /\ Append(q, b)[Len(q) + 1] = b
         /\ \A i \in 1 .. Len(q) + 1 : i = Len(q) + 1 \/ i \in 1 .. Len(q)
BY AppendProperties

(***************************************************************************)
(* What taking the head off does to the elements of a sequence.            *)
(***************************************************************************)
LEMMA TailBytes ==
  ASSUME NEW S, NEW q \in Seq(S), q # <<>>
  PROVE  /\ Tail(q) \in Seq(S) /\ Len(q) \in Nat /\ Len(q) > 0
         /\ Len(Tail(q)) = Len(q) - 1
         /\ \A i \in 1 .. Len(q) - 1 : Tail(q)[i] = q[i + 1]
         /\ \A i \in 1 .. Len(q) - 1 :
              i \in 1 .. Len(q) /\ i + 1 \in 1 .. Len(q)
         /\ Head(q) = q[1] /\ q[1] \in S /\ 1 \in 1 .. Len(q)
BY HeadTailProperties

(***************************************************************************)
(* What dropping the first k elements leaves of a sequence.                *)
(***************************************************************************)
LEMMA SuffixBytes ==
  ASSUME NEW S, NEW q \in Seq(S), NEW k \in 1 .. Len(q)
  PROVE  /\ SubSeq(q, k + 1, Len(q)) \in Seq(S)
         /\ Len(SubSeq(q, k + 1, Len(q))) = Len(q) - k /\ Len(q) \in Nat
         /\ \A i \in 1 .. Len(q) - k : SubSeq(q, k + 1, Len(q))[i] = q[k + i]
         /\ \A i \in 1 .. Len(q) - k : k + i \in 1 .. Len(q) /\ k < k + i
         /\ q[k] \in S
BY SubSeqProperties

(***************************************************************************)
(* The elements of a concatenation, part by part.                          *)
(***************************************************************************)
LEMMA ConcatBytes ==
  ASSUME NEW S, NEW p \in Seq(S), NEW q \in Seq(S)
  PROVE  /\ p \o q \in Seq(S) /\ Len(p) \in Nat /\ Len(q) \in Nat
         /\ Len(p \o q) = Len(p) + Len(q)
         /\ \A i \in 1 .. Len(p) : (p \o q)[i] = p[i]
         /\ \A j \in 1 .. Len(q) : (p \o q)[Len(p) + j] = q[j]
BY ConcatProperties

(***************************************************************************)
(* All that is on its way is made of numbers.                              *)
(***************************************************************************)
LEMMA Bytes ==
  ASSUME TypeOK
  PROVE  /\ got \in Nat /\ next \in Nat
         /\ Len(toDTE) \in Nat /\ Len(tbuf) \in Nat
         /\ \A i \in 1 .. Len(toDTE) : toDTE[i] \in Nat
         /\ \A j \in 1 .. Len(tbuf) : tbuf[j] \in Nat
BY Sizes DEF TypeOK

-----------------------------------------------------------------------------
(* xi_dte_write and its byte.                                              *)

(***************************************************************************)
(* xi_dte_write holds a byte.                                              *)
(***************************************************************************)
InUart == fpc \in {"uart", "rtswait", "push", "pushlate"}

(***************************************************************************)
(* A byte that enqueByte sends past TBUF is the next one of the output,    *)
(* and nothing waits in TBUF.                                              *)
(***************************************************************************)
LEMMA Direct ==
  ASSUME IInv, InUart, cur[1] = "direct"
  PROVE  cur[2] = next /\ next \in 1 .. MaxOut /\ tbuf = <<>>
BY Sizes DEF IInv, TypeOK, CurOK, PrintOK, InUart

(***************************************************************************)
(* A byte that serialOutDeque sends is the oldest one in TBUF.             *)
(***************************************************************************)
LEMMA FromTbuf ==
  ASSUME IInv, InUart, cur[1] = "tbuf"
  PROVE  tbuf # <<>> /\ cur[2] = Head(tbuf) /\ cur[2] \in 1 .. MaxOut
<1>1. tbuf # <<>> /\ cur[2] = Head(tbuf) /\ tbuf \in Seq(1 .. MaxOut)
  BY DEF IInv, TypeOK, CurOK, InUart
<1> QED BY <1>1, TailBytes

(***************************************************************************)
(* xi_dte_write puts its byte into the ring.                               *)
(***************************************************************************)
Sent == toDTE' = Append(toDTE, cur[2]) /\ got' = got /\ excused' = excused

(***************************************************************************)
(* xi_dte_write drops its byte, where the code says it may.                *)
(***************************************************************************)
Dropped == toDTE' = toDTE /\ got' = got /\ excused' = TRUE

(***************************************************************************)
(* A byte that leaves xi_dte_write for the ring keeps order and            *)
(* contiguity, wherever it came from.                                      *)
(***************************************************************************)
LEMMA SentOK ==
  ASSUME IInv, InUart, Leave, Len(toDTE) < RingCap, Sent
  PROVE  /\ toDTE' \in Seq(1 .. MaxOut) /\ Len(toDTE') <= RingCap
         /\ OrderOK' /\ ContiguousOK'
<1>0. /\ OrderOK /\ ContiguousOK
      /\ toDTE \in Seq(1 .. MaxOut) /\ tbuf \in Seq(1 .. MaxOut)
      /\ got \in Nat /\ next \in Nat /\ Len(toDTE) \in Nat /\ Len(tbuf) \in Nat
      /\ \A i \in 1 .. Len(toDTE) : toDTE[i] \in Nat
      /\ \A j \in 1 .. Len(tbuf) : tbuf[j] \in Nat
  BY Bytes DEF IInv, TypeOK
<1>1. CASE cur[1] = "direct"
  <2>1. /\ cur[2] = next /\ next \in 1 .. MaxOut /\ tbuf = <<>> /\ tbuf' = <<>>
        /\ next' = next + 1
    BY <1>1, Direct DEF Leave
  <2>2. /\ toDTE' \in Seq(1 .. MaxOut) /\ Len(toDTE') = Len(toDTE) + 1
        /\ \A i \in 1 .. Len(toDTE) : toDTE'[i] = toDTE[i]
        /\ toDTE'[Len(toDTE) + 1] = next
        /\ \A i \in 1 .. Len(toDTE') :
             i = Len(toDTE) + 1 \/ i \in 1 .. Len(toDTE)
    BY <1>0, <2>1, AppendByte DEF Sent
  <2>3. OrderOK'
    BY <1>0, <2>1, <2>2 DEF OrderOK, Sent
  <2>4. ContiguousOK'
    <3> SUFFICES ASSUME ~excused
                 PROVE  /\ \A i \in 1 .. Len(toDTE') : toDTE'[i] = got + i
                        /\ next' = got + Len(toDTE') + 1
      BY <2>1 DEF ContiguousOK, Sent
    <3>1. /\ \A i \in 1 .. Len(toDTE) : toDTE[i] = got + i
          /\ next = got + Len(toDTE) + 1
      BY <1>0, <2>1 DEF ContiguousOK
    <3>2. ASSUME NEW i \in 1 .. Len(toDTE') PROVE toDTE'[i] = got + i
      <4>1. CASE i = Len(toDTE) + 1
        BY <1>0, <2>1, <2>2, <3>1, <4>1
      <4>2. CASE i \in 1 .. Len(toDTE)
        BY <2>2, <3>1, <4>2
      <4> QED BY <2>2, <4>1, <4>2
    <3> QED BY <1>0, <2>1, <2>2, <3>1, <3>2
  <2> QED BY <1>0, <2>2, <2>3, <2>4, Sizes
<1>2. CASE cur[1] = "tbuf"
  <2>1. /\ tbuf # <<>> /\ cur[2] = Head(tbuf) /\ cur[2] \in 1 .. MaxOut
        /\ tbuf' = Tail(tbuf) /\ next' = next
    BY <1>2, FromTbuf DEF Leave
  <2>2. /\ toDTE' \in Seq(1 .. MaxOut) /\ Len(toDTE') = Len(toDTE) + 1
        /\ \A i \in 1 .. Len(toDTE) : toDTE'[i] = toDTE[i]
        /\ toDTE'[Len(toDTE) + 1] = tbuf[1]
        /\ \A i \in 1 .. Len(toDTE') :
             i = Len(toDTE) + 1 \/ i \in 1 .. Len(toDTE)
    <3>1. toDTE' = Append(toDTE, cur[2])
      BY DEF Sent
    <3>2. cur[2] = tbuf[1]
      BY <1>0, <2>1, TailBytes
    <3> QED BY <1>0, <2>1, <3>1, <3>2, AppendByte
  <2>3. /\ Len(tbuf') = Len(tbuf) - 1 /\ 1 \in 1 .. Len(tbuf)
        /\ \A j \in 1 .. Len(tbuf') :
             tbuf'[j] = tbuf[j + 1] /\ j + 1 \in 1 .. Len(tbuf)
    BY <1>0, <2>1, TailBytes
  <2>4. OrderOK'
    BY SMTT(30), <1>0, <2>1, <2>2, <2>3 DEF OrderOK, Sent
  <2>5. ContiguousOK'
    <3> SUFFICES ASSUME ~excused
                 PROVE  /\ \A i \in 1 .. Len(toDTE') : toDTE'[i] = got + i
                        /\ \A j \in 1 .. Len(tbuf') :
                             tbuf'[j] = got + Len(toDTE') + j
                        /\ next' = got + Len(toDTE') + Len(tbuf') + 1
      BY DEF ContiguousOK, Sent
    <3>1. /\ \A i \in 1 .. Len(toDTE) : toDTE[i] = got + i
          /\ \A j \in 1 .. Len(tbuf) : tbuf[j] = got + Len(toDTE) + j
          /\ next = got + Len(toDTE) + Len(tbuf) + 1
      BY <1>0 DEF ContiguousOK
    <3>2. ASSUME NEW i \in 1 .. Len(toDTE') PROVE toDTE'[i] = got + i
      <4>1. CASE i = Len(toDTE) + 1
        <5>1. tbuf[1] = got + Len(toDTE) + 1
          BY <2>3, <3>1
        <5> QED BY <1>0, <2>2, <5>1, <4>1
      <4>2. CASE i \in 1 .. Len(toDTE)
        BY <2>2, <3>1, <4>2
      <4> QED BY <2>2, <4>1, <4>2
    <3>3. \A j \in 1 .. Len(tbuf') : tbuf'[j] = got + Len(toDTE') + j
      BY <1>0, <2>2, <2>3, <3>1
    <3> QED BY <1>0, <2>1, <2>2, <2>3, <3>1, <3>2, <3>3
  <2> QED BY <1>0, <2>2, <2>4, <2>5, Sizes
<1> QED BY <1>1, <1>2 DEF Leave

(***************************************************************************)
(* A byte that is dropped on purpose leaves the others in order.           *)
(***************************************************************************)
LEMMA DroppedOK ==
  ASSUME IInv, InUart, Leave, Dropped
  PROVE  OrderOK' /\ ContiguousOK'
<1>0. /\ OrderOK /\ tbuf \in Seq(1 .. MaxOut)
      /\ got \in Nat /\ next \in Nat /\ Len(toDTE) \in Nat /\ Len(tbuf) \in Nat
      /\ \A i \in 1 .. Len(toDTE) : toDTE[i] \in Nat
      /\ \A j \in 1 .. Len(tbuf) : tbuf[j] \in Nat
  BY Bytes DEF IInv, TypeOK
<1>1. ContiguousOK'
  BY DEF Dropped, ContiguousOK
<1>2. CASE cur[1] = "direct"
  <2>1. tbuf = <<>> /\ tbuf' = <<>> /\ next' = next + 1
    BY <1>2, Direct DEF Leave
  <2> QED BY <1>0, <1>1, <2>1 DEF OrderOK, Dropped
<1>3. CASE cur[1] = "tbuf"
  <2>1. tbuf # <<>> /\ tbuf' = Tail(tbuf) /\ next' = next
    BY <1>3, FromTbuf DEF Leave
  <2>2. /\ Len(tbuf') = Len(tbuf) - 1
        /\ \A j \in 1 .. Len(tbuf') :
             tbuf'[j] = tbuf[j + 1] /\ j + 1 \in 1 .. Len(tbuf)
    BY <1>0, <2>1, TailBytes
  <2> QED BY <1>0, <1>1, <2>1, <2>2 DEF OrderOK, Dropped
<1> QED BY <1>2, <1>3 DEF Leave

(***************************************************************************)
(* When xi_dte_write returns, TBUF and the counter of printed bytes are    *)
(* right for the place the firmware goes on from.                          *)
(***************************************************************************)
LEMMA LeaveOK ==
  ASSUME IInv, InUart, Leave, UNCHANGED <<ret, newBaud>>
  PROVE  /\ CurOK' /\ PrintOK'
         /\ cur' = NoByte /\ fpc' \in {"printed", "deque"}
         /\ next' \in 1 .. MaxOut + 1
         /\ tbuf' \in Seq(1 .. MaxOut) /\ Len(tbuf') <= TbufCap
<1>1. CASE cur[1] = "direct"
  <2>1. /\ cur[2] = next /\ next \in 1 .. MaxOut /\ tbuf = <<>> /\ tbuf' = <<>>
        /\ next' = next + 1 /\ fpc' = "printed" /\ cur' = NoByte
    BY <1>1, Direct DEF Leave
  <2> QED BY <2>1, Sizes DEF CurOK, PrintOK, NoByte
<1>2. CASE cur[1] = "tbuf"
  <2>1. /\ tbuf # <<>> /\ tbuf' = Tail(tbuf) /\ next' = next /\ fpc' = "deque"
        /\ cur' = NoByte
    BY <1>2, FromTbuf DEF Leave
  <2>2. /\ tbuf' \in Seq(1 .. MaxOut) /\ Len(tbuf) \in Nat
        /\ Len(tbuf') = Len(tbuf) - 1
    BY <2>1, TailBytes DEF IInv, TypeOK
  <2>3. PrintOK'
    BY <1>2, <2>1 DEF IInv, PrintOK, NoByte
  <2> QED BY <2>1, <2>2, <2>3, Sizes DEF IInv, TypeOK, CurOK, NoByte
<1> QED BY <1>1, <1>2 DEF Leave

-----------------------------------------------------------------------------
(* The steps that move bytes or count.                                     *)

(***************************************************************************)
(* A step that moves no byte leaves order and contiguity alone.            *)
(***************************************************************************)
LEMMA Unmoved ==
  ASSUME IInv, UNCHANGED <<got, toDTE, tbuf, next, excused>>
  PROVE  OrderOK' /\ ContiguousOK'
BY DEF IInv, OrderOK, ContiguousOK

(***************************************************************************)
(* xi_dte_write at two different rates, where the byte is held or dropped, *)
(* preserves the inductive invariant.                                      *)
(***************************************************************************)
LEMMA WriteMismatchedInv == ASSUME IInv, WriteMismatched PROVE IInv'
<1> USE DEF WriteMismatched, line
<1>0. /\ InUart /\ Leave /\ CurOK' /\ PrintOK'
      /\ cur' = NoByte /\ fpc' \in {"printed", "deque"}
      /\ next' \in 1 .. MaxOut + 1
      /\ tbuf' \in Seq(1 .. MaxOut) /\ Len(tbuf') <= TbufCap
  BY LeaveOK DEF InUart
<1>a. held' \in Nat
  BY DEF IInv, TypeOK
<1>1. CASE /\ Len(toDTE) < PreconfigHold
           /\ toDTE' = Append(toDTE, cur[2]) /\ UNCHANGED excused
  <2>1. Len(toDTE) < RingCap
    BY <1>1, Sizes DEF IInv, TypeOK
  <2>2. /\ toDTE' \in Seq(1 .. MaxOut) /\ Len(toDTE') <= RingCap
        /\ OrderOK' /\ ContiguousOK'
    BY <1>0, <1>1, <2>1, SentOK DEF Sent
  <2> QED BY <1>0, <1>a, <1>1, <2>2 DEF IInv, TypeOK, OvershootOK, FlowOpen
<1>2. CASE excused' = TRUE /\ UNCHANGED toDTE
  <2>1. OrderOK' /\ ContiguousOK'
    BY <1>0, <1>2, DroppedOK DEF Dropped
  <2> QED BY <1>0, <1>a, <1>2, <2>1 DEF IInv, TypeOK, OvershootOK, FlowOpen
<1> QED BY <1>1, <1>2

(***************************************************************************)
(* The push into the ring preserves the inductive invariant: the byte that *)
(* follows the fall of RTS is the only one.                                *)
(***************************************************************************)
LEMMA PushInv == ASSUME IInv, Push PROVE IInv'
<1> USE DEF Push, line
<1>0. /\ InUart /\ Leave /\ CurOK' /\ PrintOK'
      /\ cur' = NoByte /\ fpc' \in {"printed", "deque"}
      /\ next' \in 1 .. MaxOut + 1
      /\ tbuf' \in Seq(1 .. MaxOut) /\ Len(tbuf') <= TbufCap
  BY LeaveOK DEF InUart
<1>1. /\ toDTE' \in Seq(1 .. MaxOut) /\ Len(toDTE') <= RingCap
      /\ OrderOK' /\ ContiguousOK'
  BY <1>0, SentOK DEF Sent
<1>2. overshoot' \in Nat /\ OvershootOK'
  BY <1>0 DEF IInv, TypeOK, OvershootOK, FlowOpen
<1> QED BY <1>0, <1>1, <1>2 DEF IInv, TypeOK

(***************************************************************************)
(* Dropping the byte after 300 ms preserves the inductive invariant.       *)
(***************************************************************************)
LEMMA GiveUpInv == ASSUME IInv, GiveUp PROVE IInv'
<1> USE DEF GiveUp, line
<1>0. /\ InUart /\ Leave /\ CurOK' /\ PrintOK'
      /\ cur' = NoByte /\ fpc' \in {"printed", "deque"}
      /\ next' \in 1 .. MaxOut + 1
      /\ tbuf' \in Seq(1 .. MaxOut) /\ Len(tbuf') <= TbufCap
  BY LeaveOK DEF InUart
<1>1. OrderOK' /\ ContiguousOK'
  BY <1>0, DroppedOK DEF Dropped
<1> QED BY <1>0, <1>1 DEF IInv, TypeOK, OvershootOK, FlowOpen

(***************************************************************************)
(* serialOutDeque handing over a byte preserves the inductive invariant.   *)
(***************************************************************************)
LEMMA DequeByteInv == IInv /\ DequeByte => IInv'
<1> SUFFICES ASSUME IInv, DequeByte PROVE IInv'
  OBVIOUS
<1> USE DEF IInv, DequeByte, Enter, ghosts, line
<1>1. tbuf # <<>> /\ Head(tbuf) \in 1 .. MaxOut
  <2>1. tbuf # <<>>
    BY DEF DrainMore
  <2>2. tbuf \in Seq(1 .. MaxOut)
    BY DEF TypeOK
  <2> HIDE DEF IInv, DequeByte
  <2> QED BY <2>1, <2>2, TailBytes
<1>2. cur' \in {"direct", "tbuf"} \X (1 .. MaxOut)
  BY <1>1
<1>3. TypeOK'
  BY <1>2 DEF TypeOK
<1>4. CurOK' /\ PrintOK' /\ OvershootOK'
  BY <1>1 DEF CurOK, PrintOK, OvershootOK, FlowOpen, NoByte
<1>5. OrderOK' /\ ContiguousOK'
  BY DEF OrderOK, ContiguousOK
<1> QED BY <1>3, <1>4, <1>5

(***************************************************************************)
(* enqueByte past TBUF preserves the inductive invariant.                  *)
(***************************************************************************)
LEMMA EnqueDirectInv == IInv /\ EnqueDirect => IInv'
<1> SUFFICES ASSUME IInv, EnqueDirect PROVE IInv'
  OBVIOUS
<1> USE DEF IInv, EnqueDirect, Enter, ghosts, line
<1>1. next \in 1 .. MaxOut /\ tbuf = <<>>
  BY Sizes DEF TypeOK, PrintOK, MayWriteDirect
<1>2. cur' \in {"direct", "tbuf"} \X (1 .. MaxOut)
  BY <1>1
<1>3. TypeOK'
  BY <1>2 DEF TypeOK
<1>4. CurOK' /\ PrintOK' /\ OvershootOK'
  BY <1>1 DEF CurOK, PrintOK, OvershootOK, FlowOpen, NoByte
<1>5. OrderOK' /\ ContiguousOK'
  BY DEF OrderOK, ContiguousOK
<1> QED BY <1>3, <1>4, <1>5

(***************************************************************************)
(* enqueByte into TBUF preserves the inductive invariant.                  *)
(***************************************************************************)
LEMMA EnqueBufferedInv == IInv /\ EnqueBuffered => IInv'
<1> SUFFICES ASSUME IInv, EnqueBuffered PROVE IInv'
  OBVIOUS
<1> USE Sizes DEF IInv, EnqueBuffered, ghosts, line
<1>0. next \in 1 .. MaxOut /\ tbuf \in Seq(1 .. MaxOut) /\ cur = NoByte
  BY DEF TypeOK, PrintOK, CurOK
<1>a. /\ tbuf' \in Seq(1 .. MaxOut)
      /\ Len(tbuf') = Len(tbuf) + 1 /\ Len(tbuf) \in Nat
      /\ \A i \in 1 .. Len(tbuf) : tbuf'[i] = tbuf[i]
      /\ tbuf'[Len(tbuf) + 1] = next
  BY <1>0, AppendByte
<1>1. TypeOK'
  BY <1>0, <1>a DEF TypeOK
<1>2. CurOK' /\ PrintOK' /\ OvershootOK'
  BY <1>0 DEF CurOK, PrintOK, OvershootOK, FlowOpen, NoByte
<1>b. \A i \in 1 .. Len(tbuf') : i = Len(tbuf) + 1 \/ i \in 1 .. Len(tbuf)
  BY <1>a
<1>3. OrderOK'
  <2>1. next' = next + 1 /\ toDTE' = toDTE /\ got' = got /\ next \in Nat
    BY <1>0
  <2>2. /\ got \in Nat
        /\ \A i \in 1 .. Len(toDTE) : toDTE[i] \in Nat
        /\ \A i \in 1 .. Len(tbuf) : tbuf[i] \in Nat
    BY Bytes
  <2>3. \A j \in 1 .. Len(tbuf') : got < tbuf'[j] /\ tbuf'[j] < next'
    BY <1>a, <1>b, <2>1, <2>2 DEF OrderOK
  <2>4. \A i, j \in 1 .. Len(tbuf') : i < j => tbuf'[i] < tbuf'[j]
    BY <1>a, <1>b, <2>1, <2>2 DEF OrderOK
  <2>5. \A i \in 1 .. Len(toDTE), j \in 1 .. Len(tbuf') : toDTE[i] < tbuf'[j]
    BY <1>a, <1>b, <2>1, <2>2 DEF OrderOK
  <2> QED BY <2>1, <2>2, <2>3, <2>4, <2>5 DEF OrderOK
<1>4. ContiguousOK'
  BY <1>0, <1>a DEF ContiguousOK, TypeOK
<1> QED BY <1>1, <1>2, <1>3, <1>4

(***************************************************************************)
(* ximodem_read of k bytes preserves the inductive invariant, at whatever  *)
(* point of a poll the embedder's thread calls it.                         *)
(***************************************************************************)
LEMMA ReadInv ==
  ASSUME IInv, NEW k \in 1 .. RingCap, Read(k)
  PROVE  IInv'
<1>1. /\ k \in 1 .. Len(toDTE) /\ toDTE \in Seq(1 .. MaxOut)
      /\ got' = toDTE[k] /\ toDTE' = SubSeq(toDTE, k + 1, Len(toDTE))
  BY DEF Read, IInv, TypeOK
<1>2. /\ toDTE' \in Seq(1 .. MaxOut) /\ Len(toDTE') = Len(toDTE) - k
      /\ \A i \in 1 .. Len(toDTE') : /\ toDTE'[i] = toDTE[k + i]
                                     /\ k + i \in 1 .. Len(toDTE) /\ k < k + i
      /\ got' \in 1 .. MaxOut
  BY <1>1, SuffixBytes
<1>3. /\ got \in Nat /\ next \in Nat /\ Len(toDTE) \in Nat /\ Len(tbuf) \in Nat
      /\ \A i \in 1 .. Len(toDTE) : toDTE[i] \in Nat
      /\ \A j \in 1 .. Len(tbuf) : tbuf[j] \in Nat
  BY Bytes DEF IInv
<1>a. k \in Nat /\ Len(toDTE') \in Nat /\ Len(toDTE) = Len(toDTE') + k
  BY <1>1, <1>2, <1>3
<1> USE DEF Read, Firmware, ghosts
<1>4. TypeOK'
  <2>1. Len(toDTE') <= RingCap /\ got' \in 0 .. MaxOut
    <3>1. Len(toDTE) <= RingCap
      BY DEF IInv, TypeOK
    <3> HIDE DEF Read
    <3> QED BY <1>2, <1>a, <3>1, Sizes
  <2> QED BY <1>2, <2>1 DEF IInv, TypeOK
<1>5. CurOK' /\ PrintOK' /\ OvershootOK'
  BY DEF IInv, CurOK, PrintOK, OvershootOK, FlowOpen, NoByte
<1>6. OrderOK'
  <2>1. OrderOK /\ UNCHANGED <<next, tbuf>>
    BY DEF IInv
  <2>2. \A i \in 1 .. Len(toDTE') : got' < toDTE'[i] /\ toDTE'[i] < next
    BY <1>1, <1>2, <2>1 DEF OrderOK
  <2>3. \A i, j \in 1 .. Len(toDTE') : i < j => toDTE'[i] < toDTE'[j]
    <3> SUFFICES ASSUME NEW i \in 1 .. Len(toDTE'),
                        NEW j \in 1 .. Len(toDTE'), i < j
                 PROVE  toDTE'[i] < toDTE'[j]
      OBVIOUS
    <3>1. k + i < k + j
      BY <1>a
    <3> QED BY <1>2, <2>1, <3>1 DEF OrderOK
  <2>4. /\ got' < next
        /\ \A j \in 1 .. Len(tbuf) : got' < tbuf[j] /\ tbuf[j] < next
    BY <1>1, <2>1 DEF OrderOK
  <2>5. \A i \in 1 .. Len(toDTE'), j \in 1 .. Len(tbuf) : toDTE'[i] < tbuf[j]
    BY <1>2, <2>1 DEF OrderOK
  <2>6. \A i, j \in 1 .. Len(tbuf) : i < j => tbuf[i] < tbuf[j]
    BY <2>1 DEF OrderOK
  <2> QED BY <2>1, <2>2, <2>3, <2>4, <2>5, <2>6 DEF OrderOK
<1>7. ContiguousOK'
  <2> SUFFICES ASSUME ~excused
               PROVE  /\ \A i \in 1 .. Len(toDTE') : toDTE'[i] = got' + i
                      /\ \A j \in 1 .. Len(tbuf) :
                           tbuf[j] = got' + Len(toDTE') + j
                      /\ next = got' + Len(toDTE') + Len(tbuf) + 1
    BY DEF ContiguousOK
  <2>1. /\ \A i \in 1 .. Len(toDTE) : toDTE[i] = got + i
        /\ \A j \in 1 .. Len(tbuf) : tbuf[j] = got + Len(toDTE) + j
        /\ next = got + Len(toDTE) + Len(tbuf) + 1
    BY DEF IInv, ContiguousOK
  <2>2. got' = got + k
    BY <1>1, <2>1
  <2>3. ASSUME NEW i \in 1 .. Len(toDTE') PROVE toDTE'[i] = got' + i
    <3>1. toDTE[k + i] = got + (k + i)
      BY <1>2, <2>1
    <3> QED BY <1>1, <1>2, <1>3, <2>2, <3>1
  <2>4. ASSUME NEW j \in 1 .. Len(tbuf)
        PROVE  tbuf[j] = got' + Len(toDTE') + j
    <3>1. tbuf[j] = got + Len(toDTE) + j
      BY <2>1
    <3>2. got + (Len(toDTE') + k) + j = (got + k) + Len(toDTE') + j
      BY ONLY <1>3, <1>a, j \in 1 .. Len(tbuf)
    <3> QED BY ONLY <1>a, <2>2, <3>1, <3>2
  <2>5. next = got' + Len(toDTE') + Len(tbuf) + 1
    <3>1. next = got + Len(toDTE) + Len(tbuf) + 1
      BY <2>1
    <3>2. got + (Len(toDTE') + k) + Len(tbuf) + 1
            = (got + k) + Len(toDTE') + Len(tbuf) + 1
      BY ONLY <1>3, <1>a
    <3> QED BY ONLY <1>a, <2>2, <3>1, <3>2
  <2> QED BY <2>3, <2>4, <2>5
<1> QED BY <1>4, <1>5, <1>6, <1>7 DEF IInv

(***************************************************************************)
(* Reading XON or XOFF preserves the inductive invariant.                  *)
(***************************************************************************)
LEMMA PollReadSerialInv == IInv /\ PollReadSerial => IInv'
<1> SUFFICES ASSUME IInv, PollReadSerial PROVE IInv'
  OBVIOUS
<1> USE DEF IInv, PollReadSerial
<1>1. TypeOK'
  <2>1. toModem \in {<<"XON">>, <<"XOFF">>}
    BY DEF TypeOK
  <2>2. Tail(toModem) = <<>>
    BY <2>1
  <2>3. xon' \in BOOLEAN
    BY DEF TypeOK
  <2> QED BY <2>2, <2>3 DEF TypeOK, ghosts
<1>2. CurOK' /\ PrintOK' /\ OvershootOK'
  BY DEF CurOK, PrintOK, OvershootOK, FlowOpen, NoByte, ghosts
<1>3. OrderOK' /\ ContiguousOK'
  BY DEF OrderOK, ContiguousOK, ghosts
<1> QED BY <1>1, <1>2, <1>3

(***************************************************************************)
(* The reset of the card preserves the inductive invariant.                *)
(***************************************************************************)
LEMMA ClearBaudInv == IInv /\ ClearBaud => IInv'
<1> SUFFICES ASSUME IInv, ClearBaud PROVE IInv'
  OBVIOUS
<1> USE DEF IInv, ClearBaud, Firmware
<1>1. TypeOK'
  <2>1. toDTE' \in Seq(1 .. MaxOut) /\ Len(toDTE') <= RingCap
    BY Sizes
  <2> QED BY <2>1 DEF TypeOK
<1>2. CurOK' /\ PrintOK' /\ OvershootOK'
  BY DEF CurOK, PrintOK, OvershootOK, FlowOpen, NoByte
<1>3. OrderOK'
  BY DEF OrderOK
<1>4. ContiguousOK'
  BY DEF ContiguousOK, TypeOK
<1> QED BY <1>1, <1>2, <1>3, <1>4

(***************************************************************************)
(* The fall of RTS preserves the inductive invariant.                      *)
(***************************************************************************)
LEMMA DropRtsInv == IInv /\ DropRts => IInv'
<1> SUFFICES ASSUME IInv, DropRts PROVE IInv'
  OBVIOUS
<1>1. TypeOK'
  <2>1. TypeOK /\ drops \in 0 .. MaxDrops
    BY DEF IInv, TypeOK
  <2>2. /\ drops' \in 0 .. MaxDrops /\ rts' = FALSE
        /\ overshoot' \in Nat /\ held' \in Nat
    BY <2>1, Sizes DEF DropRts
  <2>3. UNCHANGED <<dteBaud, fwBaud, flow, xon, fpc, ret, newBaud, cur, next,
                    tbuf, toDTE, got, toModem, excused, mark>>
    BY DEF DropRts, Firmware
  <2>4. rts' \in BOOLEAN
    BY <2>2
  <2> QED BY ONLY <2>1, <2>2, <2>3, <2>4 DEF TypeOK
<1>2. CurOK' /\ PrintOK' /\ OvershootOK'
  BY DEF DropRts, Firmware, IInv, CurOK, PrintOK, OvershootOK,
         FlowOpen, NoByte
<1>3. OrderOK' /\ ContiguousOK'
  BY Unmoved DEF DropRts, Firmware
<1> QED BY <1>1, <1>2, <1>3 DEF IInv

(***************************************************************************)
(* The steps of the firmware that only move it to another place of its     *)
(* code, and the rise of RTS, preserve the inductive invariant.            *)
(***************************************************************************)
LEMMA ControlInv ==
  ASSUME IInv,
         \/ WriteMatched \/ RtsReturned \/ RtsCeiling \/ DequeReturn
         \/ EnqueFull \/ EnqueHalted \/ PrintMore \/ PrintDone
         \/ FlushLoop \/ FlushDone \/ FlushSerialLoop \/ FlushSerialDone
         \/ PollPrint \/ PollDrain \/ PollFlush \/ RaiseRts
  PROVE  IInv'
<1>a. TypeOK /\ CurOK /\ PrintOK /\ OvershootOK
  BY DEF IInv
<1> DEFINE Rest == TypeOK' /\ CurOK' /\ PrintOK' /\ OvershootOK'
<1>b. UNCHANGED <<got, toDTE, tbuf, next, excused>>
  BY DEF line, ghosts, Firmware, CallDeque, vars, WriteMatched, RtsReturned,
     RtsCeiling, DequeReturn, EnqueFull,
         EnqueHalted, PrintMore, PrintDone, FlushLoop, FlushDone,
         FlushSerialLoop, FlushSerialDone, PollPrint, PollDrain, PollFlush,
         RaiseRts
<1>c. OrderOK' /\ ContiguousOK'
  BY <1>b, Unmoved
<1> SUFFICES Rest
  BY <1>c DEF IInv
<1> USE DEF CurOK, PrintOK, OvershootOK, FlowOpen, NoByte, line,
            ghosts, Firmware, CallDeque, vars
<1>1. CASE WriteMatched
  <2>1. TypeOK'
    BY <1>a, <1>1 DEF TypeOK, WriteMatched
  <2>2. CurOK' /\ PrintOK' /\ OvershootOK'
    BY <1>a, <1>1 DEF TypeOK, WriteMatched
  <2> QED BY <2>1, <2>2
<1>2. CASE RtsReturned
  <2>1. TypeOK'
    BY <1>a, <1>2 DEF TypeOK, RtsReturned
  <2>2. CurOK' /\ PrintOK' /\ OvershootOK'
    BY <1>a, <1>2 DEF TypeOK, RtsReturned
  <2> QED BY <2>1, <2>2
<1>3. CASE RtsCeiling
  BY <1>a, <1>3 DEF TypeOK, RtsCeiling
<1>4. CASE DequeReturn
  <2>1. TypeOK'
    BY <1>a, <1>4 DEF TypeOK, DequeReturn
  <2>2. CurOK' /\ PrintOK' /\ OvershootOK'
    BY <1>a, <1>4 DEF TypeOK, DequeReturn
  <2> QED BY <2>1, <2>2
<1>5. CASE EnqueFull
  BY <1>a, <1>5 DEF TypeOK, EnqueFull
<1>6. CASE EnqueHalted
  BY <1>a, <1>6 DEF TypeOK, EnqueHalted
<1>7. CASE PrintMore
  BY <1>a, <1>7 DEF TypeOK, PrintMore
<1>8. CASE PrintDone
  BY <1>a, <1>8 DEF TypeOK, PrintDone
<1>9. CASE FlushLoop
  BY <1>a, <1>9 DEF TypeOK, FlushLoop
<1>10. CASE FlushDone
  BY <1>a, <1>10 DEF TypeOK, FlushDone
<1>11. CASE FlushSerialLoop
  BY <1>a, <1>11 DEF TypeOK, FlushSerialLoop
<1>12. CASE FlushSerialDone
  <2>1. TypeOK'
    BY <1>a, <1>12 DEF TypeOK, FlushSerialDone
  <2>2. CurOK' /\ PrintOK' /\ OvershootOK'
    BY <1>a, <1>12 DEF TypeOK, FlushSerialDone
  <2> QED BY <2>1, <2>2
<1>13. CASE PollPrint
  BY <1>a, <1>13 DEF TypeOK, PollPrint
<1>14. CASE PollDrain
  BY <1>a, <1>14 DEF TypeOK, PollDrain
<1>15. CASE PollFlush
  BY <1>a, <1>15 DEF TypeOK, PollFlush
<1>16. CASE RaiseRts
  BY <1>a, <1>16 DEF TypeOK, RaiseRts
<1> QED
  BY <1>1, <1>2, <1>3, <1>4, <1>5, <1>6, <1>7, <1>8, <1>9, <1>10, <1>11,
     <1>12, <1>13, <1>14, <1>15, <1>16

(***************************************************************************)
(* A poll that clears TBUF, changes the rate or the flow control, and an   *)
(* embedder that sends a flow control character or programs its card,      *)
(* preserve the inductive invariant.                                       *)
(***************************************************************************)
LEMMA SettingInv ==
  ASSUME IInv,
         \/ PollClear
         \/ \E r \in Rates \cup {0} : PollChangeBaud(r)
         \/ \E t \in FlowTypes : PollSetFlow(t)
         \/ \E ch \in {"XON", "XOFF"} : Send(ch)
         \/ \E r \in Rates : SetBaud(r)
  PROVE  IInv'
<1>a. TypeOK /\ CurOK /\ PrintOK /\ OvershootOK
  BY DEF IInv
<1> DEFINE Rest == TypeOK' /\ CurOK' /\ PrintOK' /\ OvershootOK'
<1> USE Unmoved
        DEF CurOK, PrintOK, OvershootOK, FlowOpen, NoByte, line,
            ghosts, Firmware
<1>1. CASE PollClear
  <2>1. OrderOK' /\ ContiguousOK'
    BY <1>1 DEF PollClear, IInv, OrderOK, ContiguousOK
  <2>2. Rest
    BY <1>a, <1>1, Sizes DEF PollClear, TypeOK
  <2> QED BY <2>1, <2>2 DEF IInv
<1>2. ASSUME NEW r \in Rates \cup {0}, PollChangeBaud(r) PROVE IInv'
  <2>1. Rest
    BY <1>a, <1>2 DEF PollChangeBaud, TypeOK
  <2> QED BY <1>2, <2>1 DEF PollChangeBaud, IInv
<1>3. ASSUME NEW t \in FlowTypes, PollSetFlow(t) PROVE IInv'
  <2>1. Rest
    BY <1>a, <1>3 DEF PollSetFlow, TypeOK
  <2> QED BY <1>3, <2>1 DEF PollSetFlow, IInv
<1>4. ASSUME NEW ch \in {"XON", "XOFF"}, Send(ch) PROVE IInv'
  <2>1. Rest
    BY <1>a, <1>4 DEF Send, TypeOK
  <2> QED BY <1>4, <2>1 DEF Send, IInv
<1>5. ASSUME NEW r \in Rates, SetBaud(r) PROVE IInv'
  <2>1. Rest
    BY <1>a, <1>5 DEF SetBaud, TypeOK
  <2> QED BY <1>5, <2>1 DEF SetBaud, IInv
<1> QED
  BY <1>1, <1>2, <1>3, <1>4, <1>5

-----------------------------------------------------------------------------
(* What the inductive invariant says of Pipe.                              *)

(***************************************************************************)
(* The byte on its way past TBUF, as a sequence.                           *)
(***************************************************************************)
Through == IF cur[1] = "direct" THEN <<cur[2]>> ELSE <<>>

(***************************************************************************)
(* Where the bytes of the ring and of TBUF are in Pipe.                    *)
(***************************************************************************)
LEMMA PipeParts ==
  ASSUME IInv
  PROVE  /\ Len(Pipe) = 1 + Len(toDTE) + Len(Through) + Len(tbuf)
         /\ Pipe[1] = got
         /\ \A i \in 1 .. Len(toDTE) : Pipe[1 + i] = toDTE[i]
         /\ cur[1] = "direct" => Pipe[2 + Len(toDTE)] = next
         /\ cur[1] # "direct" =>
              \A j \in 1 .. Len(tbuf) : Pipe[1 + Len(toDTE) + j] = tbuf[j]
<1>1. /\ <<got>> \in Seq(Nat) /\ toDTE \in Seq(Nat) /\ tbuf \in Seq(Nat)
      /\ Through \in Seq(Nat)
      /\ cur[1] = "direct" => Through = <<next>> /\ Len(Through) = 1
      /\ cur[1] # "direct" => Through = <<>> /\ Len(Through) = 0
  <2>1. got \in Nat /\ toDTE \in Seq(Nat) /\ tbuf \in Seq(Nat) /\ next \in Nat
    <3>1. \A q \in Seq(1 .. MaxOut) : q \in Seq(Nat)
      BY Sizes
    <3> QED BY <3>1, Bytes DEF IInv, TypeOK
  <2>2. cur[1] = "direct" => cur[2] = next
    BY DEF IInv, CurOK
  <2> QED BY <2>1, <2>2 DEF Through
<1> DEFINE A == <<got>> \o toDTE
           B == A \o Through
<1>2. /\ A \in Seq(Nat) /\ Len(A) = 1 + Len(toDTE) /\ A[1] = got
      /\ \A i \in 1 .. Len(toDTE) : A[1 + i] = toDTE[i]
      /\ Len(toDTE) \in Nat
  <2>1. Len(<<got>>) = 1 /\ <<got>>[1] = got
    OBVIOUS
  <2>2. /\ A \in Seq(Nat) /\ Len(toDTE) \in Nat
        /\ Len(A) = Len(<<got>>) + Len(toDTE)
        /\ \A i \in 1 .. Len(<<got>>) : A[i] = <<got>>[i]
        /\ \A i \in 1 .. Len(toDTE) : A[Len(<<got>>) + i] = toDTE[i]
    BY <1>1, ConcatBytes
  <2> HIDE DEF A
  <2> QED BY <2>1, <2>2
<1>3. /\ B \in Seq(Nat) /\ Len(B) = Len(A) + Len(Through)
      /\ \A i \in 1 .. Len(A) : B[i] = A[i]
      /\ \A j \in 1 .. Len(Through) : B[Len(A) + j] = Through[j]
      /\ Len(Through) \in Nat
  BY <1>1, <1>2, ConcatBytes
<1>4. Pipe = B \o tbuf
  BY DEF Pipe, Through
<1>5. /\ Len(Pipe) = Len(B) + Len(tbuf)
      /\ \A i \in 1 .. Len(B) : Pipe[i] = B[i]
      /\ \A j \in 1 .. Len(tbuf) : Pipe[Len(B) + j] = tbuf[j]
  BY <1>1, <1>3, <1>4, ConcatBytes
<1> HIDE DEF A, B
<1>6. Len(Pipe) = 1 + Len(toDTE) + Len(Through) + Len(tbuf)
  BY <1>2, <1>3, <1>5
<1>7. ASSUME NEW i \in 1 .. Len(A) PROVE Pipe[i] = A[i]
  <2>1. Len(A) \in Nat /\ i \in 1 .. Len(B)
    BY <1>2, <1>3
  <2> QED BY <1>3, <1>5, <2>1
<1>8. Pipe[1] = got /\ \A i \in 1 .. Len(toDTE) : Pipe[1 + i] = toDTE[i]
  <2>1. 1 \in 1 .. Len(A) /\ \A i \in 1 .. Len(toDTE) : 1 + i \in 1 .. Len(A)
    BY <1>2
  <2> QED BY <1>2, <1>7, <2>1
<1>9. ASSUME cur[1] = "direct" PROVE Pipe[2 + Len(toDTE)] = next
  <2>1. B[Len(A) + 1] = next /\ Len(A) + 1 \in 1 .. Len(B)
    <3>1. Len(Through) = 1 /\ Through[1] = next /\ 1 \in 1 .. Len(Through)
      <4>1. Through = <<next>> /\ Len(Through) = 1
        BY <1>1, <1>9
      <4> QED BY <4>1
    <3>2. Len(A) \in Nat /\ Len(B) = Len(A) + 1
      BY <1>2, <1>3, <3>1
    <3> QED BY <1>3, <3>1, <3>2
  <2> QED BY <1>2, <1>5, <2>1
<1>10. ASSUME cur[1] # "direct", NEW j \in 1 .. Len(tbuf)
       PROVE  Pipe[1 + Len(toDTE) + j] = tbuf[j]
  <2>1. Len(B) = 1 + Len(toDTE)
    BY <1>1, <1>2, <1>3, <1>10
  <2> QED BY <1>5, <2>1
<1> QED BY <1>6, <1>8, <1>9, <1>10

(***************************************************************************)
(* The inductive invariant implies that the bytes on their way are in      *)
(* order.                                                                  *)
(***************************************************************************)
LEMMA InvOrder == IInv => ByteOrder
<1> SUFFICES ASSUME IInv, NEW i \in 1 .. Len(Pipe) - 1
             PROVE  Pipe[i] < Pipe[i + 1]
  BY DEF ByteOrder
<1>1. /\ got \in Nat /\ next \in Nat /\ Len(toDTE) \in Nat /\ Len(tbuf) \in Nat
      /\ \A k \in 1 .. Len(toDTE) : toDTE[k] \in Nat
      /\ \A k \in 1 .. Len(tbuf) : tbuf[k] \in Nat
  BY Bytes DEF IInv
<1>2. CASE cur[1] = "direct"
  <2>1. Len(Through) = 1 /\ Len(tbuf) = 0
    BY <1>2 DEF IInv, CurOK, Through
  <2>2. CASE i = 1 + Len(toDTE)
    BY <1>1, <1>2, <2>1, <2>2, PipeParts DEF IInv, OrderOK
  <2>3. CASE i = 1 /\ Len(toDTE) > 0
    BY <1>1, <1>2, <2>1, <2>3, PipeParts DEF IInv, OrderOK
  <2>4. CASE i \in 2 .. Len(toDTE)
    <3> DEFINE h == i - 1
    <3>1. /\ h \in 1 .. Len(toDTE) /\ h + 1 \in 1 .. Len(toDTE)
          /\ 1 + h = i /\ 1 + (h + 1) = i + 1
      BY <1>1, <2>4
    <3> HIDE DEF h
    <3>2. Pipe[1 + h] = toDTE[h] /\ Pipe[1 + (h + 1)] = toDTE[h + 1]
      BY <3>1, PipeParts
    <3> QED BY <1>1, <3>1, <3>2 DEF IInv, OrderOK
  <2> QED BY <1>1, <2>1, <2>2, <2>3, <2>4, PipeParts
<1>3. CASE cur[1] # "direct"
  <2>1. Len(Through) = 0
    BY <1>3 DEF Through
  <2>2. CASE i = 1
    <3>1. CASE Len(toDTE) > 0
      <4>1. 1 \in 1 .. Len(toDTE) /\ Pipe[1 + 1] = toDTE[1] /\ Pipe[1] = got
        BY <1>1, <3>1, PipeParts
      <4> QED BY <2>2, <4>1 DEF IInv, OrderOK
    <3>2. CASE Len(toDTE) = 0
      <4>1. 1 \in 1 .. Len(tbuf) /\ Pipe[1] = got
        BY <1>1, <2>1, <2>2, <3>2, PipeParts
      <4>2. Pipe[1 + Len(toDTE) + 1] = tbuf[1]
        BY <1>3, <4>1, PipeParts
      <4> QED BY <2>2, <3>2, <4>1, <4>2 DEF IInv, OrderOK
    <3> QED BY <1>1, <3>1, <3>2
  <2>3. CASE i \in 2 .. Len(toDTE)
    <3> DEFINE h == i - 1
    <3>1. /\ h \in 1 .. Len(toDTE) /\ h + 1 \in 1 .. Len(toDTE)
          /\ 1 + h = i /\ 1 + (h + 1) = i + 1
      BY <1>1, <2>3
    <3> HIDE DEF h
    <3>2. Pipe[1 + h] = toDTE[h] /\ Pipe[1 + (h + 1)] = toDTE[h + 1]
      BY <3>1, PipeParts
    <3> QED BY <1>1, <3>1, <3>2 DEF IInv, OrderOK
  <2>4. CASE i = 1 + Len(toDTE) /\ i > 1
    <3>1. /\ Pipe[i] = toDTE[i - 1] /\ Pipe[i + 1] = tbuf[1]
          /\ 1 \in 1 .. Len(tbuf)
      BY <1>1, <1>3, <2>1, <2>4, PipeParts
    <3> QED BY <1>1, <2>4, <3>1 DEF IInv, OrderOK
  <2>5. CASE i > 1 + Len(toDTE)
    <3> DEFINE j == i - 1 - Len(toDTE)
    <3>1. j \in 1 .. Len(tbuf) - 1
      BY <1>1, <2>1, <2>5, PipeParts
    <3>a. /\ Pipe[1 + Len(toDTE) + j] = tbuf[j]
          /\ Pipe[1 + Len(toDTE) + (j + 1)] = tbuf[j + 1]
      <4>1. j \in 1 .. Len(tbuf) /\ j + 1 \in 1 .. Len(tbuf)
        BY <1>1, <3>1
      <4> HIDE DEF j
      <4> QED BY <4>1, <1>3, PipeParts
    <3>2. Pipe[i] = tbuf[j] /\ Pipe[i + 1] = tbuf[j + 1]
      <4>1. 1 + Len(toDTE) + j = i /\ 1 + Len(toDTE) + (j + 1) = i + 1
        BY <1>1
      <4> QED BY <3>a, <4>1
    <3> HIDE DEF j
    <3> QED BY <1>1, <3>1, <3>2 DEF IInv, OrderOK
  <2> QED BY <1>1, <2>2, <2>3, <2>4, <2>5
<1> QED BY <1>2, <1>3

(***************************************************************************)
(* The inductive invariant implies that no byte on its way is missing.     *)
(***************************************************************************)
LEMMA InvLossless == IInv => NoSilentLoss
<1> SUFFICES ASSUME IInv, ~excused
             PROVE  /\ \A i \in 1 .. Len(Pipe) - 1 : Pipe[i + 1] = Pipe[i] + 1
                    /\ Pipe[Len(Pipe)] =
                         IF cur[1] = "direct" THEN next ELSE next - 1
  BY DEF NoSilentLoss
<1>1. /\ got \in Nat /\ next \in Nat /\ Len(toDTE) \in Nat /\ Len(tbuf) \in Nat
  BY Bytes DEF IInv
<1>2. /\ \A i \in 1 .. Len(toDTE) : toDTE[i] = got + i
      /\ \A j \in 1 .. Len(tbuf) : tbuf[j] = got + Len(toDTE) + j
      /\ next = got + Len(toDTE) + Len(tbuf) + 1
  BY DEF IInv, ContiguousOK
<1>3. Len(Pipe) = 1 + Len(toDTE) + Len(Through) + Len(tbuf)
  BY PipeParts
<1>4. ASSUME NEW k \in Nat, k + 1 <= Len(Pipe) PROVE Pipe[k + 1] = got + k
  <2>1. CASE k = 0
    BY <1>1, <2>1, PipeParts
  <2>2. CASE k \in 1 .. Len(toDTE)
    <3>1. Pipe[1 + k] = toDTE[k] /\ 1 + k = k + 1
      BY <1>1, <2>2, PipeParts
    <3> QED BY <1>2, <2>2, <3>1
  <2>3. CASE k > Len(toDTE) /\ cur[1] = "direct"
    <3>1. Len(Through) = 1 /\ Len(tbuf) = 0
      BY <2>3 DEF IInv, CurOK, Through
    <3>2. k = Len(toDTE) + 1
      BY <1>1, <1>3, <1>4, <2>3, <3>1
    <3>3. Pipe[2 + Len(toDTE)] = next
      BY <2>3, PipeParts
    <3> QED BY <1>1, <1>2, <3>1, <3>2, <3>3
  <2>4. CASE k > Len(toDTE) /\ cur[1] # "direct"
    <3> DEFINE j == k - Len(toDTE)
    <3>1. Len(Through) = 0
      BY <2>4 DEF Through
    <3>2. /\ j \in 1 .. Len(tbuf)
          /\ 1 + Len(toDTE) + j = k + 1 /\ Len(toDTE) + j = k
      BY <1>1, <1>3, <1>4, <2>4, <3>1
    <3> HIDE DEF j
    <3>3. Pipe[1 + Len(toDTE) + j] = tbuf[j] /\ tbuf[j] = got + Len(toDTE) + j
      BY <1>2, <2>4, <3>2, PipeParts
    <3> QED BY <1>1, <3>2, <3>3
  <2> QED BY <1>1, <2>1, <2>2, <2>3, <2>4
<1>5. ASSUME NEW i \in 1 .. Len(Pipe) - 1 PROVE Pipe[i + 1] = Pipe[i] + 1
  <2> DEFINE k == i - 1
  <2>1. /\ k \in Nat /\ k + 1 = i /\ i \in Nat
        /\ i + 1 <= Len(Pipe) /\ k + 1 <= Len(Pipe)
    BY <1>1, <1>3
  <2> HIDE DEF k
  <2>2. Pipe[i + 1] = got + i /\ Pipe[k + 1] = got + k
    BY <1>4, <2>1
  <2> QED BY <1>1, <2>1, <2>2
<1>6. Pipe[Len(Pipe)] = IF cur[1] = "direct" THEN next ELSE next - 1
  <2> DEFINE k == Len(toDTE) + Len(Through) + Len(tbuf)
  <2>1. /\ cur[1] = "direct" => Len(Through) = 1 /\ Len(tbuf) = 0
        /\ cur[1] # "direct" => Len(Through) = 0
    BY DEF IInv, CurOK, Through
  <2>2. k \in Nat /\ k + 1 = Len(Pipe) /\ k + 1 <= Len(Pipe)
    BY <1>1, <1>3, <2>1
  <2>3. got + k = IF cur[1] = "direct" THEN next ELSE next - 1
    <3>1. next = got + Len(toDTE) + Len(tbuf) + 1
      BY <1>2
    <3>2. CASE cur[1] = "direct"
      <4>1. Len(Through) = 1 /\ Len(tbuf) = 0
        BY <2>1, <3>2
      <4>2. got + (Len(toDTE) + 1 + 0) = got + Len(toDTE) + 0 + 1
        BY <1>1
      <4> QED BY <3>1, <3>2, <4>1, <4>2
    <3>3. CASE cur[1] # "direct"
      <4>1. k = Len(toDTE) + Len(tbuf)
        BY <1>1, <2>1, <3>3
      <4> HIDE DEF k
      <4> QED BY <1>1, <3>1, <3>3, <4>1
    <3> QED BY <3>2, <3>3
  <2> HIDE DEF k
  <2>4. Pipe[k + 1] = got + k
    BY <1>4, <2>2
  <2> QED BY <2>2, <2>3, <2>4
<1> QED BY <1>5, <1>6

-----------------------------------------------------------------------------
(* The theorems.                                                           *)

(***************************************************************************)
(* The initial state satisfies the inductive invariant.                    *)
(***************************************************************************)
LEMMA InitInv == Init => IInv
<1> SUFFICES ASSUME Init PROVE IInv
  OBVIOUS
<1> USE DEF Init
<1>1. TypeOK
  <2>1. /\ next \in 1 .. MaxOut + 1 /\ mark \in 1 .. MaxOut + 1
        /\ drops \in 0 .. MaxDrops /\ got \in 0 .. MaxOut /\ overshoot \in Nat
        /\ held \in Nat
        /\ Len(tbuf) <= TbufCap /\ Len(toDTE) <= RingCap
    BY Sizes
  <2>2. fwBaud \in Rates
    BY RatesAssumption
  <2>3. /\ tbuf \in Seq(1 .. MaxOut) /\ toDTE \in Seq(1 .. MaxOut)
        /\ toModem \in {<<>>, <<"XON">>, <<"XOFF">>}
    OBVIOUS
  <2>4. cur \in {NoByte} \cup {"direct", "tbuf"} \X (1 .. MaxOut)
    OBVIOUS
  <2>5. /\ dteBaud \in Rates \cup {0} /\ newBaud \in Rates \cup {0}
        /\ flow \in FlowTypes /\ {xon, rts, excused} \subseteq BOOLEAN
        /\ fpc = "parked" /\ ret = "parked"
    OBVIOUS
  <2> QED BY <2>1, <2>2, <2>3, <2>4, <2>5 DEF TypeOK
<1>2. CurOK /\ PrintOK /\ OvershootOK
  BY DEF CurOK, PrintOK, OvershootOK, NoByte
<1>3. OrderOK /\ ContiguousOK
  BY DEF OrderOK, ContiguousOK
<1> QED BY <1>1, <1>2, <1>3 DEF IInv

(***************************************************************************)
(* Every step of the firmware, of a poll and of the embedder preserves the *)
(* inductive invariant.                                                    *)
(***************************************************************************)
LEMMA NextInv == IInv /\ [Next]_vars => IInv'
<1> SUFFICES ASSUME IInv, [Next]_vars PROVE IInv'
  OBVIOUS
<1>1. CASE FirmwareStep
  BY <1>1, WriteMismatchedInv, PushInv, GiveUpInv, DequeByteInv,
     EnqueDirectInv, EnqueBufferedInv, ControlInv DEF FirmwareStep
<1>2. CASE Poll
  BY <1>2, PollReadSerialInv, ControlInv, SettingInv DEF Poll
<1>3. CASE Embedder
  BY <1>3, ReadInv, ClearBaudInv, DropRtsInv, ControlInv, SettingInv
     DEF Embedder
<1>4. CASE EnqueHalted
  BY <1>4, ControlInv
<1>5. CASE UNCHANGED vars
  <2>1. OrderOK' /\ ContiguousOK'
    BY <1>5, Unmoved DEF vars
  <2>2. TypeOK' /\ CurOK' /\ PrintOK' /\ OvershootOK'
    BY <1>5 DEF vars, IInv, TypeOK, CurOK, PrintOK, OvershootOK,
                FlowOpen
  <2> QED BY <2>1, <2>2 DEF IInv
<1> QED
  BY <1>1, <1>2, <1>3, <1>4, <1>5 DEF Next

(***************************************************************************)
(* The inductive invariant of the output path holds in every reachable     *)
(* state.                                                                  *)
(***************************************************************************)
THEOREM LinkInvariance == Spec => []IInv
<1>1. Init => IInv
  BY InitInv
<1>2. IInv /\ [Next]_vars => IInv'
  BY NextInv
<1> QED
  BY <1>1, <1>2, PTL DEF Spec

(***************************************************************************)
(* Type correctness of the output path: TBUF and the ring stay within      *)
(* their sizes, at every size.                                             *)
(***************************************************************************)
THEOREM LinkTypeCorrect == Spec => []TypeOK
<1>1. IInv => TypeOK
  BY DEF IInv
<1> QED
  BY <1>1, LinkInvariance, PTL

(***************************************************************************)
(* The terminal reads the bytes in the order the firmware printed them,    *)
(* whatever the sizes, the rates and the interleaving of the two threads.  *)
(***************************************************************************)
THEOREM OrderKept == Spec => []ByteOrder
<1>1. IInv => ByteOrder
  BY InvOrder
<1> QED
  BY <1>1, LinkInvariance, PTL

(***************************************************************************)
(* No byte is lost but at the places where the code drops output on        *)
(* purpose.                                                                *)
(***************************************************************************)
THEOREM NothingLost == Spec => []NoSilentLoss
<1>1. IInv => NoSilentLoss
  BY InvLossless
<1> QED
  BY <1>1, LinkInvariance, PTL

-----------------------------------------------------------------------------
(* What the ring is given while RTS is low.                                *)

(***************************************************************************)
(* What a dark link is given with RTS low is within the hold, and as       *)
(* nobody reads from a dark link, it is still in the ring.                 *)
(***************************************************************************)
HeldOK ==
    /\ held <= PreconfigHold
    /\ ~Matched => held <= Len(toDTE)

(***************************************************************************)
(* A step that reads nothing from the ring and leaves the rates alone.     *)
(***************************************************************************)
LEMMA HeldAlone ==
  ASSUME HeldOK, held' = held, UNCHANGED <<dteBaud, fwBaud, toDTE>>
  PROVE  HeldOK'
BY DEF HeldOK, Matched

(***************************************************************************)
(* What a dark link holds stays within the hold, through every step.       *)
(***************************************************************************)
LEMMA NextHeld == IInv /\ HeldOK /\ [Next]_vars => HeldOK'
<1> SUFFICES ASSUME IInv, HeldOK, [Next]_vars PROVE HeldOK'
  OBVIOUS
<1>0. /\ toDTE \in Seq(1 .. MaxOut) /\ Len(toDTE) \in Nat /\ held \in Nat
      /\ PreconfigHold \in Nat
  BY Bytes, Sizes DEF IInv, TypeOK
<1>1. ASSUME held' = 0 PROVE HeldOK'
  <2>1. Len(toDTE') \in Nat
    <3>1. TypeOK'
      BY NextInv DEF IInv
    <3> QED BY <3>1 DEF TypeOK
  <2> QED BY <1>0, <1>1, <2>1 DEF HeldOK
<1>2. CASE FirmwareStep
  <2>1. CASE WriteMismatched
    <3>1. /\ ~Matched /\ InUart /\ Leave
          /\ UNCHANGED <<dteBaud, fwBaud, ret, newBaud>>
      BY <2>1 DEF WriteMismatched, InUart, line
    <3>2. CASE Len(toDTE) < PreconfigHold
      <4>1. cur[2] \in 1 .. MaxOut
        BY <3>1, Direct, FromTbuf DEF Leave
      <4>2. Len(toDTE') = Len(toDTE) + 1 /\ held' \in {held, held + 1}
        BY <1>0, <2>1, <3>2, <4>1, AppendByte DEF WriteMismatched
      <4> QED BY <1>0, <3>1, <3>2, <4>2 DEF HeldOK, Matched
    <3>3. CASE ~(Len(toDTE) < PreconfigHold)
      BY <2>1, <3>1, <3>3, HeldAlone DEF WriteMismatched
    <3> QED BY <3>2, <3>3
  <2>2. CASE Push
    <3>1. /\ InUart /\ Leave /\ UNCHANGED <<dteBaud, fwBaud, held>>
          /\ toDTE' = Append(toDTE, cur[2])
      BY <2>2 DEF Push, InUart, line
    <3>2. cur[2] \in 1 .. MaxOut
      BY <3>1, Direct, FromTbuf DEF Leave
    <3>3. Len(toDTE') = Len(toDTE) + 1
      BY <1>0, <3>1, <3>2, AppendByte
    <3> QED BY <1>0, <3>1, <3>3 DEF HeldOK, Matched
  <2>3. CASE FlushSerialDone
    <3>1. UNCHANGED <<dteBaud, toDTE>> /\ (held' = 0 \/ UNCHANGED <<fwBaud, held>>)
      BY <2>3 DEF FlushSerialDone
    <3> QED BY <1>1, <3>1, HeldAlone
  <2>4. CASE \/ WriteMatched \/ RtsReturned \/ RtsCeiling \/ GiveUp
             \/ DequeByte \/ DequeReturn
             \/ EnqueDirect \/ EnqueBuffered \/ EnqueFull
             \/ PrintMore \/ PrintDone
             \/ FlushLoop \/ FlushDone \/ FlushSerialLoop
    BY <2>4, HeldAlone DEF WriteMatched, RtsReturned, RtsCeiling, GiveUp,
       DequeByte, DequeReturn, EnqueDirect, EnqueBuffered, EnqueFull,
       PrintMore, PrintDone, FlushLoop, FlushDone, FlushSerialLoop,
       CallDeque, ghosts, line
  <2> QED BY <1>2, <2>1, <2>2, <2>3, <2>4 DEF FirmwareStep
<1>3. CASE Poll
  BY <1>3, HeldAlone DEF Poll, PollPrint, PollDrain, PollFlush, PollClear,
     PollReadSerial, PollChangeBaud, PollSetFlow, CallDeque, ghosts, line
<1>4. CASE Embedder
  <2>1. CASE \E k \in 1 .. RingCap : Read(k)
    BY <1>0, <2>1 DEF Read, Firmware, ghosts, HeldOK, Matched
  <2>2. CASE \E c \in {"XON", "XOFF"} : Send(c)
    BY <2>2, HeldAlone DEF Send, Firmware, ghosts
  <2>3. CASE (\E b \in Rates : SetBaud(b)) \/ ClearBaud \/ RaiseRts \/ DropRts
    BY <1>1, <2>3 DEF SetBaud, ClearBaud, RaiseRts, DropRts
  <2> QED BY <1>4, <2>1, <2>2, <2>3 DEF Embedder
<1>5. CASE EnqueHalted \/ UNCHANGED vars
  BY <1>5, HeldAlone DEF EnqueHalted, vars
<1> QED BY <1>2, <1>3, <1>4, <1>5 DEF Next

(***************************************************************************)
(* After RTS has fallen a live link is given at most one byte more and a   *)
(* dark one no more than is held for it, for every size of the ring and of *)
(* the hold and however many bytes wait.                                   *)
(***************************************************************************)
THEOREM BoundAfterRts == Spec => []RtsOvershoot
<1>1. Init => HeldOK
  BY Sizes DEF Init, HeldOK
<1>2. IInv /\ HeldOK => RtsOvershoot
  BY DEF IInv, OvershootOK, HeldOK, RtsOvershoot
<1> QED
  BY <1>1, <1>2, NextHeld, LinkInvariance, PTL DEF Spec

-----------------------------------------------------------------------------
(* What a reset of the card leaves behind.                                 *)

(***************************************************************************)
(* ResetKeepsTbuf for the two queues one by one, and that a reset marks a  *)
(* byte that is still to be printed.                                       *)
(***************************************************************************)
OldOK ==
    /\ mark <= next
    /\ \A i \in 1 .. Len(toDTE) : i > TbufCap => toDTE[i] >= mark
    /\ \A j \in 1 .. Len(tbuf) : Len(toDTE) + j > TbufCap => tbuf[j] >= mark

(***************************************************************************)
(* A byte that leaves xi_dte_write, for the ring or for nowhere, is no     *)
(* farther from the terminal than it was.                                  *)
(***************************************************************************)
LEMMA LeaveOld ==
  ASSUME IInv, OldOK, InUart, Leave, Sent \/ Dropped, mark' = mark
  PROVE  OldOK'
<1>0. /\ toDTE \in Seq(1 .. MaxOut) /\ tbuf \in Seq(1 .. MaxOut)
      /\ next \in Nat /\ mark \in Nat /\ mark <= next /\ TbufCap \in Nat
      /\ Len(toDTE) \in Nat /\ Len(tbuf) \in Nat
      /\ \A i \in 1 .. Len(toDTE) : toDTE[i] \in Nat
      /\ \A j \in 1 .. Len(tbuf) : tbuf[j] \in Nat
  BY Bytes, Sizes DEF IInv, TypeOK, OldOK
<1>1. CASE cur[1] = "direct"
  <2>1. /\ cur[2] = next /\ next \in 1 .. MaxOut /\ tbuf' = <<>>
        /\ next' = next + 1
    BY <1>1, Direct DEF Leave
  <2>2. CASE Sent
    <3>1. /\ Len(toDTE') = Len(toDTE) + 1
          /\ \A i \in 1 .. Len(toDTE) : toDTE'[i] = toDTE[i]
          /\ toDTE'[Len(toDTE) + 1] = next
          /\ \A i \in 1 .. Len(toDTE') :
               i = Len(toDTE) + 1 \/ i \in 1 .. Len(toDTE)
      BY <1>0, <2>1, <2>2, AppendByte DEF Sent
    <3> QED BY <1>0, <2>1, <3>1 DEF OldOK
  <2>3. CASE Dropped
    BY <1>0, <2>1, <2>3 DEF OldOK, Dropped
  <2> QED BY <2>2, <2>3
<1>2. CASE cur[1] = "tbuf"
  <2>1. /\ tbuf # <<>> /\ cur[2] = Head(tbuf) /\ cur[2] \in 1 .. MaxOut
        /\ tbuf' = Tail(tbuf) /\ next' = next
    BY <1>2, FromTbuf DEF Leave
  <2>2. /\ Len(tbuf') = Len(tbuf) - 1 /\ 1 \in 1 .. Len(tbuf)
        /\ cur[2] = tbuf[1]
        /\ \A j \in 1 .. Len(tbuf') :
             tbuf'[j] = tbuf[j + 1] /\ j + 1 \in 1 .. Len(tbuf)
    BY <1>0, <2>1, TailBytes
  <2>3. CASE Sent
    <3>1. /\ Len(toDTE') = Len(toDTE) + 1
          /\ \A i \in 1 .. Len(toDTE) : toDTE'[i] = toDTE[i]
          /\ toDTE'[Len(toDTE) + 1] = tbuf[1]
          /\ \A i \in 1 .. Len(toDTE') :
               i = Len(toDTE) + 1 \/ i \in 1 .. Len(toDTE)
      BY <1>0, <2>1, <2>2, <2>3, AppendByte DEF Sent
    <3>2. \A j \in 1 .. Len(tbuf') :
             Len(toDTE') + j > TbufCap => tbuf'[j] >= mark
      BY <1>0, <2>2, <3>1 DEF OldOK
    <3> QED BY <1>0, <2>1, <2>2, <3>1, <3>2 DEF OldOK
  <2>4. CASE Dropped
    <3>1. \A j \in 1 .. Len(tbuf') :
             Len(toDTE) + j > TbufCap => tbuf'[j] >= mark
      BY <1>0, <2>2 DEF OldOK
    <3> QED BY <1>0, <2>1, <2>4, <3>1 DEF OldOK, Dropped
  <2> QED BY <2>3, <2>4
<1> QED BY <1>1, <1>2 DEF Leave

(***************************************************************************)
(* enqueByte puts a new byte at the end of TBUF.                           *)
(***************************************************************************)
LEMMA BufferedOld ==
  ASSUME IInv, OldOK, EnqueBuffered
  PROVE  OldOK'
<1>0. /\ tbuf \in Seq(1 .. MaxOut) /\ next \in 1 .. MaxOut
      /\ next \in Nat /\ mark \in Nat /\ mark <= next /\ TbufCap \in Nat
      /\ Len(toDTE) \in Nat /\ Len(tbuf) \in Nat
      /\ \A j \in 1 .. Len(tbuf) : tbuf[j] \in Nat
  BY Bytes, Sizes DEF IInv, TypeOK, OldOK, PrintOK, EnqueBuffered
<1>1. /\ tbuf' = Append(tbuf, next) /\ next' = next + 1
      /\ UNCHANGED <<toDTE, mark>>
  BY DEF EnqueBuffered, ghosts
<1>2. /\ Len(tbuf') = Len(tbuf) + 1
      /\ \A i \in 1 .. Len(tbuf) : tbuf'[i] = tbuf[i]
      /\ tbuf'[Len(tbuf) + 1] = next
      /\ \A i \in 1 .. Len(tbuf') : i = Len(tbuf) + 1 \/ i \in 1 .. Len(tbuf)
  BY <1>0, <1>1, AppendByte
<1> QED BY <1>0, <1>1, <1>2 DEF OldOK

(***************************************************************************)
(* The terminal reads the oldest bytes, so that the others move up.        *)
(***************************************************************************)
LEMMA ReadOld ==
  ASSUME IInv, OldOK, NEW k \in 1 .. RingCap, Read(k)
  PROVE  OldOK'
<1>0. /\ k \in 1 .. Len(toDTE) /\ toDTE \in Seq(1 .. MaxOut) /\ k \in Nat
      /\ mark \in Nat /\ TbufCap \in Nat /\ Len(toDTE) \in Nat
      /\ Len(tbuf) \in Nat
      /\ toDTE' = SubSeq(toDTE, k + 1, Len(toDTE))
      /\ UNCHANGED <<tbuf, next, mark>>
  BY Bytes, Sizes DEF Read, Firmware, ghosts, IInv, TypeOK
<1>1. /\ Len(toDTE') = Len(toDTE) - k
      /\ \A i \in 1 .. Len(toDTE') : /\ toDTE'[i] = toDTE[k + i]
                                     /\ k + i \in 1 .. Len(toDTE)
  BY <1>0, SuffixBytes
<1> QED BY <1>0, <1>1 DEF OldOK

(***************************************************************************)
(* What is in front of a new byte after a reset fits into TBUF, and every  *)
(* step keeps it so.                                                       *)
(***************************************************************************)
LEMMA NextOld == IInv /\ OldOK /\ [Next]_vars => OldOK'
<1> SUFFICES ASSUME IInv, OldOK, [Next]_vars PROVE OldOK'
  OBVIOUS
<1>1. ASSUME UNCHANGED <<toDTE, tbuf, next, mark>> PROVE OldOK'
  BY <1>1 DEF OldOK
<1>2. CASE FirmwareStep
  <2>1. CASE WriteMismatched
    BY <2>1, LeaveOld DEF WriteMismatched, InUart, Sent, Dropped
  <2>2. CASE Push
    BY <2>2, LeaveOld DEF Push, InUart, Sent
  <2>3. CASE GiveUp
    BY <2>3, LeaveOld DEF GiveUp, InUart, Dropped
  <2>4. CASE EnqueBuffered
    BY <2>4, BufferedOld
  <2>5. CASE \/ WriteMatched \/ RtsReturned \/ RtsCeiling
             \/ DequeByte \/ DequeReturn \/ EnqueDirect \/ EnqueFull
             \/ PrintMore \/ PrintDone
             \/ FlushLoop \/ FlushDone \/ FlushSerialLoop \/ FlushSerialDone
    BY <1>1, <2>5 DEF WriteMatched, RtsReturned, RtsCeiling, DequeByte,
       DequeReturn, EnqueDirect, EnqueFull, PrintMore, PrintDone, FlushLoop,
       FlushDone, FlushSerialLoop, FlushSerialDone, CallDeque, ghosts
  <2> QED BY <1>2, <2>1, <2>2, <2>3, <2>4, <2>5 DEF FirmwareStep
<1>3. CASE Poll
  <2>1. CASE PollClear
    <3>1. tbuf' = <<>> /\ UNCHANGED <<toDTE, next, mark>>
      BY <2>1 DEF PollClear
    <3> QED BY <3>1 DEF OldOK
  <2>2. CASE \/ PollPrint \/ PollDrain \/ PollFlush \/ PollReadSerial
             \/ \E b \in Rates \cup {0} : PollChangeBaud(b)
             \/ \E t \in FlowTypes : PollSetFlow(t)
    BY <1>1, <2>2 DEF PollPrint, PollDrain, PollFlush, PollReadSerial,
       PollChangeBaud, PollSetFlow, CallDeque, ghosts
  <2> QED BY <1>3, <2>1, <2>2 DEF Poll
<1>4. CASE Embedder
  <2>1. CASE \E k \in 1 .. RingCap : Read(k)
    BY <2>1, ReadOld
  <2>2. CASE ClearBaud
    <3>1. /\ toDTE' = <<>> /\ mark' = next /\ UNCHANGED <<next, tbuf>>
          /\ next \in Nat /\ Len(tbuf) \in Nat /\ Len(tbuf) <= TbufCap
          /\ TbufCap \in Nat
      BY <2>2, Bytes, Sizes DEF ClearBaud, Firmware, IInv, TypeOK
    <3> QED BY <3>1 DEF OldOK
  <2>3. CASE \/ \E c \in {"XON", "XOFF"} : Send(c)
             \/ \E b \in Rates : SetBaud(b)
             \/ RaiseRts \/ DropRts
    BY <1>1, <2>3 DEF Send, SetBaud, RaiseRts, DropRts, Firmware, ghosts
  <2> QED BY <1>4, <2>1, <2>2, <2>3 DEF Embedder
<1>5. CASE EnqueHalted \/ UNCHANGED vars
  BY <1>1, <1>5 DEF EnqueHalted, vars
<1> QED BY <1>2, <1>3, <1>4, <1>5 DEF Next

(***************************************************************************)
(* After a reset of the card at most as many bytes of the old session as   *)
(* TBUF holds are still on their way to the terminal, in front of all new  *)
(* ones, for every size of TBUF and of the ring.                           *)
(***************************************************************************)
THEOREM ResetBound == Spec => []ResetKeepsTbuf
<1>1. Init => OldOK
  BY DEF Init, OldOK
<1>2. IInv /\ OldOK => ResetKeepsTbuf
  <2> SUFFICES ASSUME IInv, OldOK,
                      NEW i \in TbufCap + 1 .. Len(toDTE \o tbuf)
               PROVE  (toDTE \o tbuf)[i] >= mark
    BY DEF ResetKeepsTbuf
  <2>1. /\ toDTE \in Seq(1 .. MaxOut) /\ tbuf \in Seq(1 .. MaxOut)
        /\ TbufCap \in Nat
    BY Sizes DEF IInv, TypeOK
  <2>2. /\ Len(toDTE) \in Nat /\ Len(tbuf) \in Nat
        /\ Len(toDTE \o tbuf) = Len(toDTE) + Len(tbuf)
        /\ \A n \in 1 .. Len(toDTE) : (toDTE \o tbuf)[n] = toDTE[n]
        /\ \A j \in 1 .. Len(tbuf) : (toDTE \o tbuf)[Len(toDTE) + j] = tbuf[j]
    BY <2>1, ConcatBytes
  <2>3. CASE i \in 1 .. Len(toDTE)
    BY <2>1, <2>2, <2>3 DEF OldOK
  <2>4. CASE i - Len(toDTE) \in 1 .. Len(tbuf)
    <3> DEFINE j == i - Len(toDTE)
    <3>1. i = Len(toDTE) + j /\ j \in 1 .. Len(tbuf)
      BY <2>2, <2>4
    <3>2. (toDTE \o tbuf)[Len(toDTE) + j] = tbuf[j]
      BY <2>2, <3>1
    <3>3. tbuf[j] >= mark
      BY <2>1, <2>2, <3>1 DEF OldOK
    <3> QED BY <3>1, <3>2, <3>3
  <2> QED BY <2>1, <2>2, <2>3, <2>4
<1> QED
  BY <1>1, <1>2, NextOld, LinkInvariance, PTL DEF Spec
=============================================================================
