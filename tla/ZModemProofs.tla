---------------------------- MODULE ZModemProofs ----------------------------
(***************************************************************************)
(* What is proved of ZModem, for any file, any limits and any number of    *)
(* faults, as long as the line does not drop a whole subpacket inside a    *)
(* frame: what the receiver has is a beginning of the file, and both sides *)
(* report the truth.                                                       *)
(*                                                                         *)
(* A subpacket carries no position.  That it is stored in its place is a   *)
(* property of the line: what follows a ZDATA or ZCRCG there, apart from   *)
(* silence and cancellations, is the subpacket for the place at which it   *)
(* ends, and if nothing follows the sender is still at that place          *)
(* (InOrder).  The receiver's place in a frame is a header of the same     *)
(* kind that has already been read (Awaited).                              *)
(*                                                                         *)
(* That ZRINIT means success depends on the order in which the answers     *)
(* are on the line: before the receiver has finished, none comes after a   *)
(* ZRPOS, none is there while the sender sends data, and a receiver that   *)
(* has not opened the file has sent no ZRPOS (SuccessOK).                  *)
(***************************************************************************)
EXTENDS ZModem, SequenceTheorems, WellFoundedInduction, TLAPS

-----------------------------------------------------------------------------
(* What is on the line.                                                    *)

Types ==
    {"ZRQINIT", "ZRINIT", "ZFILE", "ZSKIP", "ZNAK", "ZABORT", "ZFIN", "ZRPOS",
     "ZDATA", "ZEOF", "ZFERR", "ZCRC", "ZACK", "CAN", "OO", "ZCRCG", "ZCRCE",
     "ZCRCW", "TIMEOUT", "INVHDR", "CRCFAILED"}

Items == [type : Types, pos : Nat, data : Seq(Nat), bad : BOOLEAN]

\* What a reader of data passes over, or rather gives up at.
Noise(x) == x.type \in {"CAN", "TIMEOUT"}

\* After these the next is a subpacket.
Opens(x) == x.type \in {"ZDATA", "ZCRCG"}

\* The subpacket holds the units from place p on.
Carries(x, p) ==
    /\ IsData(x) /\ p + Len(x.data) <= Len(File)
    /\ \A k \in 1 .. Len(x.data) : x.data[k] = File[p + k]

EndsAt(x, p) ==
    IF x.type = "ZDATA" THEN x.pos = p
    ELSE Len(x.data) <= p /\ Carries(x, p - Len(x.data))

QuietBetween(L, i, j) == \A k \in i + 1 .. j - 1 : Noise(L[k])

Follows(L) ==
    \A i, j \in 1 .. Len(L) :
        i < j /\ Opens(L[i]) /\ QuietBetween(L, i, j) /\ ~Noise(L[j]) =>
            \A p \in Place : EndsAt(L[i], p) => Carries(L[j], p)

LastOpen(L, transit, cur) ==
    \A i \in 1 .. Len(L) :
        Opens(L[i]) /\ QuietBetween(L, i, Len(L) + 1) =>
            \A p \in Place : EndsAt(L[i], p) => transit /\ cur = p

\* The line L is in order, for a sender in transit at place cur.
InOrder(L, transit, cur) == Follows(L) /\ LastOpen(L, transit, cur)

\* M is what is left of L when something at its front has been read.
Behind(M, L) ==
    \E d \in Nat : /\ Len(M) + d = Len(L)
                   /\ \A j \in 1 .. Len(M) : M[j] = L[j + d]

Alike(x, y) == x.type = y.type /\ x.pos = y.pos /\ (IsData(x) => x.data = y.data)

Has(L, type) == \E i \in 1 .. Len(L) : L[i].type = type

-----------------------------------------------------------------------------
(* Lemmas about the line.                                                  *)

\* A set of numbers that is not empty has a least member.
LEMMA LeastNumber ==
  ASSUME NEW T \in SUBSET Nat, T # {}
  PROVE  \E n \in T : \A k \in T : n <= k
<1> DEFINE R == OpToRel(<, Nat)
<1>1. \A x, y \in Nat : <<y, x>> \in R <=> y < x
  BY DEF OpToRel
<1>2. IsWellFoundedOn(R, Nat)
  BY NatLessThanWellFounded
<1> HIDE DEF R
<1>3. PICK x \in T : \A y \in T : <<y, x>> \notin R
  BY <1>2, WFMin
<1>4. \A y \in T : y \in Nat /\ x \in Nat /\ ~(y < x)
  BY <1>1, <1>3
<1> QED
  BY <1>4

\* So has the operator Min of the community modules, by its definition.
LEMMA LeastIn ==
  ASSUME NEW T \in SUBSET Nat, T # {}
  PROVE  Min(T) \in T /\ \A k \in T : Min(T) <= k
<1>1. \E n \in T : \A k \in T : n <= k
  BY LeastNumber
<1> QED
  BY <1>1 DEF Min

\* The index of the first header, or 0, and of the first that ends a read of data.
FirstHeader(L) ==
    LET I == {k \in 1 .. Len(L) : IsHeader(L[k])} IN IF I # {} THEN Min(I) ELSE 0

FirstData(L) ==
    LET I == {k \in 1 .. Len(L) : IsDataOrCans(L[k])} IN IF I # {} THEN Min(I) ELSE 0

\* It is the index of a header, if it is not 0.
LEMMA FirstHeaderIs ==
  ASSUME NEW L \in Seq(Items)
  PROVE  /\ FirstHeader(L) \in 0 .. Len(L)
         /\ FirstHeader(L) # 0 => IsHeader(L[FirstHeader(L)])
<1> DEFINE I == {k \in 1 .. Len(L) : IsHeader(L[k])}
<1>1. FirstHeader(L) = IF I # {} THEN Min(I) ELSE 0
  BY DEF FirstHeader
<1>2. I \in SUBSET Nat /\ Len(L) \in Nat
  BY LenProperties
<1>3. I # {} => Min(I) \in I
  BY <1>2, LeastIn
<1>4. \A k \in I : k \in 1 .. Len(L) /\ IsHeader(L[k])
  OBVIOUS
<1> HIDE DEF I
<1> QED
  <2>1. CASE I = {}
    BY <1>1, <1>2, <2>1
  <2>2. CASE I # {}
    <3>1. FirstHeader(L) \in I
      BY <1>1, <1>3, <2>2
    <3>2. FirstHeader(L) \in 1 .. Len(L) /\ IsHeader(L[FirstHeader(L)])
      BY <1>4, <3>1, Zenon
    <3>3. FirstHeader(L) \in 0 .. Len(L)
      BY <1>2, <3>2
    <3> QED
      BY <3>2, <3>3
  <2> QED
    BY <2>1, <2>2

\* It is the index of data or of five CANs, if it is not 0.
LEMMA FirstDataIs ==
  ASSUME NEW L \in Seq(Items)
  PROVE  /\ FirstData(L) \in 0 .. Len(L)
         /\ FirstData(L) # 0 => IsDataOrCans(L[FirstData(L)])
<1> DEFINE I == {k \in 1 .. Len(L) : IsDataOrCans(L[k])}
<1>1. FirstData(L) = IF I # {} THEN Min(I) ELSE 0
  BY DEF FirstData
<1>2. I \in SUBSET Nat /\ Len(L) \in Nat
  BY LenProperties
<1>3. I # {} => Min(I) \in I
  BY <1>2, LeastIn
<1>4. \A k \in I : k \in 1 .. Len(L) /\ IsDataOrCans(L[k])
  OBVIOUS
<1> HIDE DEF I
<1> QED
  <2>1. CASE I = {}
    BY <1>1, <1>2, <2>1
  <2>2. CASE I # {}
    <3>1. FirstData(L) \in I
      BY <1>1, <1>3, <2>2
    <3>2. FirstData(L) \in 1 .. Len(L) /\ IsDataOrCans(L[FirstData(L)])
      BY <1>4, <3>1, Zenon
    <3>3. FirstData(L) \in 0 .. Len(L)
      BY <1>2, <3>2
    <3> QED
      BY <3>2, <3>3
  <2> QED
    BY <2>1, <2>2

\* The rest of the line after its first i elements.
LEMMA RestIs ==
  ASSUME NEW L \in Seq(Items), NEW i \in 0 .. Len(L)
  PROVE  LET M == SubSeq(L, i + 1, Len(L))
         IN /\ M \in Seq(Items) /\ Len(M) = Len(L) - i
            /\ \A j \in 1 .. Len(M) : M[j] = L[i + j]
<1> DEFINE M == SubSeq(L, i + 1, Len(L))
<1>1. Len(L) \in Nat
  BY LenProperties
<1>2. \A k \in i + 1 .. Len(L) : L[k] \in Items
  BY <1>1, ElementOfSeq
<1>3. /\ M \in Seq(Items)
      /\ Len(M) = IF i + 1 <= Len(L) THEN Len(L) - (i + 1) + 1 ELSE 0
      /\ \A j \in 1 .. Len(L) - (i + 1) + 1 : M[j] = L[i + 1 + j - 1]
  BY <1>1, <1>2, SubSeqProperties
<1> HIDE DEF M
<1>4. Len(M) = Len(L) - i
  BY <1>1, <1>3
<1>5. \A j \in 1 .. Len(M) : M[j] = L[i + j]
  BY <1>1, <1>3, <1>4
<1> QED
  BY <1>3, <1>4, <1>5 DEF M

\* What a read leaves on the line.
LEMMA AfterIs ==
  ASSUME NEW L \in Seq(Items), NEW i \in 0 .. Len(L)
  PROVE  /\ After(L, i) \in Seq(Items) /\ Behind(After(L, i), L)
         /\ i # 0 => /\ Len(After(L, i)) = Len(L) - i
                     /\ \A j \in 1 .. Len(After(L, i)) : After(L, i)[j] = L[i + j]
<1>1. Len(L) \in Nat
  BY LenProperties
<1>2. CASE i = 0
  <2>1. After(L, i) = <<>>
    BY <1>2 DEF After
  <2>2. Len(<<>>) = 0 /\ <<>> \in Seq(Items)
    BY EmptySeq
  <2>3. Len(<<>>) + Len(L) = Len(L) /\ \A j \in 1 .. Len(<<>>) : <<>>[j] = L[j + Len(L)]
    BY <1>1, <2>2
  <2>4. Behind(<<>>, L)
    BY <1>1, <2>3 DEF Behind
  <2> QED
    BY <1>2, <2>1, <2>2, <2>4
<1>3. CASE i # 0
  <2> DEFINE M == SubSeq(L, i + 1, Len(L))
  <2>1. After(L, i) = M
    BY <1>3 DEF After
  <2>2. /\ M \in Seq(Items) /\ Len(M) = Len(L) - i
        /\ \A j \in 1 .. Len(M) : M[j] = L[i + j]
    BY RestIs
  <2> HIDE DEF M
  <2>3. i \in Nat /\ Len(M) \in Nat /\ Len(M) + i = Len(L)
    BY <1>1, <2>2
  <2>4. \A j \in 1 .. Len(M) : M[j] = L[j + i]
    BY <1>1, <2>2, <2>3
  <2>5. Behind(M, L)
    BY <2>3, <2>4 DEF Behind
  <2> QED
    BY <2>1, <2>2, <2>5
<1> QED
  BY <1>2, <1>3

\* What the two sides write is an element of the line.
LEMMA HeaderItem ==
  ASSUME NEW type \in Types, NEW pos \in Nat PROVE Hdr(type, pos) \in Items
<1>1. <<>> \in Seq(Nat)
  BY EmptySeq
<1> QED
  BY <1>1 DEF Hdr, Items

\* A subpacket of data is an element of the line.
LEMMA SubpacketItem ==
  ASSUME NEW type \in Types, NEW data \in Seq(Nat) PROVE Subpacket(type, data) \in Items
BY DEF Subpacket, Items

(***************************************************************************)
(* A read of a header: what is left is behind, and a header that is none   *)
(* of the failures is on the line, with what is left after it.             *)
(***************************************************************************)
LEMMA HeaderRead ==
  ASSUME NEW L \in Seq(Items)
  PROVE  /\ Received(L) \in Items
         /\ AfterHeader(L) \in Seq(Items) /\ Behind(AfterHeader(L), L)
         /\ Received(L).type \notin {"TIMEOUT", "INVHDR"} =>
              \E i \in 1 .. Len(L) :
                 /\ Received(L) = L[i] /\ IsHeader(L[i])
                 /\ Len(AfterHeader(L)) = Len(L) - i
                 /\ \A j \in 1 .. Len(AfterHeader(L)) : AfterHeader(L)[j] = L[i + j]
<1> DEFINE i == FirstHeader(L)
<1>1. i \in 0 .. Len(L) /\ (i # 0 => IsHeader(L[i]))
  BY FirstHeaderIs
<1>2. Received(L) = IF i = 0 THEN Hdr("TIMEOUT", 0)
                    ELSE IF L[i].bad THEN Hdr("INVHDR", 0) ELSE L[i]
  BY DEF Received, SelectInSeq, FirstHeader
<1>3. AfterHeader(L) = After(L, i)
  BY DEF AfterHeader, SelectInSeq, FirstHeader
<1> HIDE DEF i
<1>4. Len(L) \in Nat
  BY LenProperties
<1>5. /\ After(L, i) \in Seq(Items) /\ Behind(After(L, i), L)
      /\ i # 0 => /\ Len(After(L, i)) = Len(L) - i
                  /\ \A j \in 1 .. Len(After(L, i)) : After(L, i)[j] = L[i + j]
  BY <1>1, AfterIs
<1>6. Hdr("TIMEOUT", 0) \in Items /\ Hdr("INVHDR", 0) \in Items
  BY HeaderItem DEF Types
<1>7. i # 0 => L[i] \in Items
  BY <1>1, <1>4, ElementOfSeq
<1>8. Received(L) \in Items
  BY <1>2, <1>6, <1>7
<1>9. ASSUME Received(L).type \notin {"TIMEOUT", "INVHDR"}
      PROVE  i \in 1 .. Len(L) /\ Received(L) = L[i]
  <2>1. i # 0
    BY <1>2, <1>9 DEF Hdr
  <2>2. ~L[i].bad
    BY <1>2, <1>9, <2>1 DEF Hdr
  <2> QED
    BY <1>1, <1>2, <1>4, <2>1, <2>2
<1> QED
  BY <1>1, <1>3, <1>4, <1>5, <1>8, <1>9

(***************************************************************************)
(* A read of data: what it returns is a failure, a cancellation, or the    *)
(* subpacket that is first on the line.                                    *)
(***************************************************************************)
LEMMA DataRead ==
  ASSUME NEW L \in Seq(Items)
  PROVE  /\ ReceivedData(L) \in Items
         /\ AfterData(L) \in Seq(Items) /\ Behind(AfterData(L), L)
         /\ IsData(ReceivedData(L)) \/ ReceivedData(L).type \in {"CRCFAILED", "TIMEOUT", "CAN"}
         /\ IsData(ReceivedData(L)) =>
              /\ Len(L) >= 1 /\ ReceivedData(L) = L[1]
              /\ Len(AfterData(L)) = Len(L) - 1
              /\ \A j \in 1 .. Len(AfterData(L)) : AfterData(L)[j] = L[1 + j]
<1> DEFINE i == FirstData(L)
<1>1. i \in 0 .. Len(L) /\ (i # 0 => IsDataOrCans(L[i]))
  BY FirstDataIs
<1>2. ReceivedData(L) = IF i = 0 THEN Hdr("TIMEOUT", 0)
                        ELSE IF IsData(L[i]) /\ (L[i].bad \/ i > 1)
                          THEN Hdr("CRCFAILED", 0) ELSE L[i]
  BY DEF ReceivedData, SelectInSeq, FirstData
<1>3. AfterData(L) = After(L, i)
  BY DEF AfterData, SelectInSeq, FirstData
<1> HIDE DEF i
<1>4. Len(L) \in Nat
  BY LenProperties
<1>5. /\ After(L, i) \in Seq(Items) /\ Behind(After(L, i), L)
      /\ i # 0 => /\ Len(After(L, i)) = Len(L) - i
                  /\ \A j \in 1 .. Len(After(L, i)) : After(L, i)[j] = L[i + j]
  BY <1>1, AfterIs
<1>6. Hdr("TIMEOUT", 0) \in Items /\ Hdr("CRCFAILED", 0) \in Items
  BY HeaderItem DEF Types
<1>7. i # 0 => L[i] \in Items
  BY <1>1, <1>4, ElementOfSeq
<1>8. ReceivedData(L) \in Items
  BY <1>2, <1>6, <1>7
<1>9. Hdr("TIMEOUT", 0).type = "TIMEOUT" /\ Hdr("CRCFAILED", 0).type = "CRCFAILED"
  BY DEF Hdr
<1>10. IsData(ReceivedData(L)) \/ ReceivedData(L).type \in {"CRCFAILED", "TIMEOUT", "CAN"}
  BY <1>1, <1>2, <1>9 DEF IsDataOrCans
<1>11. ASSUME IsData(ReceivedData(L)) PROVE i = 1 /\ ReceivedData(L) = L[i]
  <2>1. i # 0 /\ ReceivedData(L) = L[i]
    BY <1>2, <1>9, <1>11 DEF IsData
  <2>2. ~(i > 1)
    BY <1>2, <1>9, <1>11, <2>1 DEF IsData
  <2> QED
    BY <1>1, <1>4, <2>1, <2>2
<1> QED
  BY <1>1, <1>3, <1>4, <1>5, <1>8, <1>10, <1>11

-----------------------------------------------------------------------------
(* The line stays in order.                                                *)

\* Reading takes something away at the front.
LEMMA InOrderBehind ==
  ASSUME NEW L \in Seq(Items), NEW M \in Seq(Items), NEW transit, NEW cur,
         InOrder(L, transit, cur), Behind(M, L)
  PROVE  InOrder(M, transit, cur)
<1>1. Len(L) \in Nat /\ Len(M) \in Nat
  BY LenProperties
<1>2. PICK d \in Nat : /\ Len(M) + d = Len(L)
                       /\ \A j \in 1 .. Len(M) : M[j] = L[j + d]
  BY DEF Behind
<1>3. \A i \in 1 .. Len(M), j \in 1 .. Len(M) + 1 :
         QuietBetween(M, i, j) => QuietBetween(L, i + d, j + d)
  <2> SUFFICES ASSUME NEW i \in 1 .. Len(M), NEW j \in 1 .. Len(M) + 1,
                      QuietBetween(M, i, j), NEW k \in (i + d) + 1 .. (j + d) - 1
               PROVE  Noise(L[k])
    BY DEF QuietBetween
  <2>1. k - d \in i + 1 .. j - 1 /\ k - d \in 1 .. Len(M) /\ (k - d) + d = k
    BY <1>1, <1>2
  <2>2. Noise(M[k - d])
    BY <2>1 DEF QuietBetween
  <2> QED
    BY <1>2, <2>1, <2>2
<1>4. Follows(M)
  <2> SUFFICES ASSUME NEW i \in 1 .. Len(M), NEW j \in 1 .. Len(M), i < j,
                      Opens(M[i]), QuietBetween(M, i, j), ~Noise(M[j]),
                      NEW p \in Place, EndsAt(M[i], p)
               PROVE  Carries(M[j], p)
    BY DEF Follows
  <2>1. i + d \in 1 .. Len(L) /\ j + d \in 1 .. Len(L) /\ i + d < j + d
    BY <1>1, <1>2
  <2>2. M[i] = L[i + d] /\ M[j] = L[j + d]
    BY <1>2
  <2>3. QuietBetween(L, i + d, j + d)
    BY <1>1, <1>3
  <2> QED
    BY <2>1, <2>2, <2>3 DEF InOrder, Follows
<1>5. LastOpen(M, transit, cur)
  <2> SUFFICES ASSUME NEW i \in 1 .. Len(M), Opens(M[i]),
                      QuietBetween(M, i, Len(M) + 1), NEW p \in Place, EndsAt(M[i], p)
               PROVE  transit /\ cur = p
    BY DEF LastOpen
  <2>1. i + d \in 1 .. Len(L)
    BY <1>1, <1>2
  <2>2. M[i] = L[i + d]
    BY <1>2
  <2>3. QuietBetween(L, i + d, Len(L) + 1)
    <3>1. QuietBetween(L, i + d, (Len(M) + 1) + d)
      BY <1>1, <1>3
    <3>2. Len(L) = Len(M) + d
      BY <1>2
    <3>3. (Len(M) + 1) + d = Len(L) + 1
      BY <1>1, <3>2
    <3> QED
      BY <3>1, <3>3
  <2> QED
    BY <2>1, <2>2, <2>3 DEF InOrder, LastOpen
<1> QED
  BY <1>4, <1>5 DEF InOrder

\* Items that are alike are noise, open a frame and carry data alike.
LEMMA AlikeSame ==
  ASSUME NEW x, NEW y, Alike(x, y)
  PROVE  /\ IsData(x) <=> IsData(y)
         /\ Noise(x) <=> Noise(y)
         /\ Opens(x) <=> Opens(y)
         /\ \A p : Carries(x, p) <=> Carries(y, p)
         /\ Opens(x) => \A p : EndsAt(x, p) <=> EndsAt(y, p)
<1>1. /\ IsData(x) <=> IsData(y)
      /\ Noise(x) <=> Noise(y)
      /\ Opens(x) <=> Opens(y)
  BY DEF Alike, IsData, Noise, Opens
<1>2. \A p : Carries(x, p) <=> Carries(y, p)
  BY <1>1 DEF Alike, Carries
<1>3. ASSUME Opens(x), NEW p PROVE EndsAt(x, p) <=> EndsAt(y, p)
  <2>1. CASE x.type = "ZDATA"
    BY <2>1 DEF Alike, EndsAt
  <2>2. CASE x.type = "ZCRCG"
    <3>1. IsData(x) /\ x.data = y.data /\ y.type = "ZCRCG"
      BY <2>2 DEF Alike, IsData
    <3> QED
      BY <1>2, <2>2, <3>1 DEF EndsAt
  <2> QED
    BY <1>3, <2>1, <2>2 DEF Opens
<1> QED
  BY <1>1, <1>2, <1>3

\* Damage to a check changes nothing else.
LEMMA InOrderAlike ==
  ASSUME NEW L \in Seq(Items), NEW M \in Seq(Items), NEW transit, NEW cur,
         InOrder(L, transit, cur), Len(M) = Len(L),
         \A i \in 1 .. Len(L) : Alike(M[i], L[i])
  PROVE  InOrder(M, transit, cur)
<1>1. Len(L) \in Nat
  BY LenProperties
<1>2. \A i \in 1 .. Len(L), j \in 1 .. Len(L) + 1 :
         QuietBetween(M, i, j) => QuietBetween(L, i, j)
  <2> SUFFICES ASSUME NEW i \in 1 .. Len(L), NEW j \in 1 .. Len(L) + 1,
                      QuietBetween(M, i, j), NEW k \in i + 1 .. j - 1
               PROVE  Noise(L[k])
    BY DEF QuietBetween
  <2>1. k \in 1 .. Len(L) /\ Noise(M[k])
    BY <1>1 DEF QuietBetween
  <2> QED
    BY <2>1, AlikeSame
<1>3. Follows(M)
  <2> SUFFICES ASSUME NEW i \in 1 .. Len(L), NEW j \in 1 .. Len(L), i < j,
                      Opens(M[i]), QuietBetween(M, i, j), ~Noise(M[j]),
                      NEW p \in Place, EndsAt(M[i], p)
               PROVE  Carries(M[j], p)
    BY DEF Follows
  <2>1. Opens(L[i]) /\ EndsAt(L[i], p) /\ ~Noise(L[j])
    BY AlikeSame
  <2>2. QuietBetween(L, i, j)
    BY <1>1, <1>2
  <2>3. Carries(L[j], p)
    BY <2>1, <2>2 DEF InOrder, Follows
  <2> QED
    BY <2>3, AlikeSame
<1>4. LastOpen(M, transit, cur)
  <2> SUFFICES ASSUME NEW i \in 1 .. Len(L), Opens(M[i]),
                      QuietBetween(M, i, Len(L) + 1), NEW p \in Place, EndsAt(M[i], p)
               PROVE  transit /\ cur = p
    BY DEF LastOpen
  <2>1. Opens(L[i]) /\ EndsAt(L[i], p)
    BY AlikeSame
  <2>2. QuietBetween(L, i, Len(L) + 1)
    BY <1>1, <1>2
  <2> QED
    BY <2>1, <2>2 DEF InOrder, LastOpen
<1> QED
  BY <1>3, <1>4 DEF InOrder

\* A sender that was not in transit, or still is, may be anywhere.
LEMMA InOrderSender ==
  ASSUME NEW L, NEW transit, NEW cur, NEW transit2, NEW cur2,
         InOrder(L, transit, cur), transit => transit2 /\ cur2 = cur
  PROVE  InOrder(L, transit2, cur2)
BY DEF InOrder, LastOpen

(***************************************************************************)
(* The sender writes x: in transit, it is the subpacket for its place, and *)
(* after an x that opens it is in transit, where x ends.                   *)
(***************************************************************************)
LEMMA InOrderWrite ==
  ASSUME NEW L \in Seq(Items), NEW x \in Items,
         NEW transit, NEW cur, NEW transit2, NEW cur2,
         InOrder(L, transit, cur), ~Noise(x), transit => Carries(x, cur),
         Opens(x) => \A p \in Place : EndsAt(x, p) => transit2 /\ cur2 = p
  PROVE  InOrder(L \o <<x>>, transit2, cur2)
<1> DEFINE M == L \o <<x>>
           n == Len(L)
<1>1. n \in Nat
  BY LenProperties
<1>2. <<x>> \in Seq(Items) /\ Len(<<x>>) = 1 /\ <<x>>[1] = x
  OBVIOUS
<1>3. /\ Len(M) = n + 1
      /\ \A i \in 1 .. n : M[i] = L[i]
      /\ M[n + 1] = x
  <2>1. /\ Len(M) = n + Len(<<x>>)
        /\ \A i \in 1 .. n + Len(<<x>>) :
              M[i] = IF i <= n THEN L[i] ELSE <<x>>[i - n]
    BY <1>2, ConcatProperties
  <2> QED
    BY <1>1, <1>2, <2>1
<1> HIDE DEF M
<1>4. \A i \in 1 .. n, j \in 1 .. n + 1 : QuietBetween(M, i, j) => QuietBetween(L, i, j)
  <2> SUFFICES ASSUME NEW i \in 1 .. n, NEW j \in 1 .. n + 1,
                      QuietBetween(M, i, j), NEW k \in i + 1 .. j - 1
               PROVE  Noise(L[k])
    BY DEF QuietBetween
  <2>1. k \in 1 .. n /\ Noise(M[k])
    BY <1>1 DEF QuietBetween
  <2> QED
    BY <1>3, <2>1
<1>5. Follows(M)
  <2> SUFFICES ASSUME NEW i \in 1 .. n + 1, NEW j \in 1 .. n + 1, i < j,
                      Opens(M[i]), QuietBetween(M, i, j), ~Noise(M[j]),
                      NEW p \in Place, EndsAt(M[i], p)
               PROVE  Carries(M[j], p)
    BY <1>3 DEF Follows
  <2>1. i \in 1 .. n /\ M[i] = L[i]
    BY <1>1, <1>3
  <2>2. QuietBetween(L, i, j)
    BY <1>4, <2>1
  <2>3. CASE j = n + 1
    BY <1>3, <2>1, <2>2, <2>3 DEF InOrder, LastOpen
  <2>4. CASE j # n + 1
    <3>1. j \in 1 .. n /\ M[j] = L[j]
      BY <1>1, <1>3, <2>4
    <3> QED
      BY <2>1, <2>2, <3>1 DEF InOrder, Follows
  <2> QED
    BY <2>3, <2>4
<1>6. LastOpen(M, transit2, cur2)
  <2> SUFFICES ASSUME NEW i \in 1 .. n + 1, Opens(M[i]),
                      QuietBetween(M, i, n + 2), NEW p \in Place, EndsAt(M[i], p)
               PROVE  transit2 /\ cur2 = p
    BY <1>1, <1>3 DEF LastOpen
  <2>1. i = n + 1
    <3> SUFFICES ASSUME i # n + 1 PROVE FALSE
      OBVIOUS
    <3>1. n + 1 \in i + 1 .. (n + 2) - 1
      BY <1>1
    <3> QED
      BY <1>3, <3>1 DEF QuietBetween
  <2> QED
    BY <1>3, <2>1
<1> QED
  BY <1>5, <1>6 DEF InOrder, M

\* Silence or a cancellation comes in between.
LEMMA InOrderInsert ==
  ASSUME NEW L \in Seq(Items), NEW M \in Seq(Items), NEW transit, NEW cur,
         InOrder(L, transit, cur), NEW k \in 0 .. Len(L), Len(M) = Len(L) + 1,
         \A i \in 1 .. k : M[i] = L[i], Noise(M[k + 1]),
         \A i \in k + 2 .. Len(L) + 1 : M[i] = L[i - 1]
  PROVE  InOrder(M, transit, cur)
<1> DEFINE n == Len(L)
           g(i) == IF i <= k THEN i ELSE i - 1
<1>1. n \in Nat
  BY LenProperties
<1>2. \A i \in 1 .. n + 1 : i # k + 1 => g(i) \in 1 .. n /\ M[i] = L[g(i)]
  BY <1>1
<1>3. \A i \in 1 .. n + 1, j \in 1 .. n + 2 :
         i # k + 1 /\ j # k + 1 /\ QuietBetween(M, i, j) => QuietBetween(L, g(i), g(j))
  <2> SUFFICES ASSUME NEW i \in 1 .. n + 1, NEW j \in 1 .. n + 2, i # k + 1, j # k + 1,
                      QuietBetween(M, i, j), NEW l \in g(i) + 1 .. g(j) - 1
               PROVE  Noise(L[l])
    BY DEF QuietBetween
  <2>1. CASE l <= k
    <3>1. l \in i + 1 .. j - 1 /\ l \in 1 .. k
      BY <1>1, <2>1
    <3> QED
      BY <3>1 DEF QuietBetween
  <2>2. CASE l > k
    <3>1. l + 1 \in i + 1 .. j - 1 /\ l + 1 \in k + 2 .. n + 1 /\ (l + 1) - 1 = l
      BY <1>1, <2>2
    <3>2. M[l + 1] = L[l] /\ Noise(M[l + 1])
      BY <3>1 DEF QuietBetween
    <3> QED
      BY <3>2
  <2>3. l \in Int /\ k \in Int
    BY <1>1
  <2> QED
    BY <2>1, <2>2, <2>3
<1>4. \A i, j \in 1 .. n + 1 : i < j /\ i # k + 1 /\ j # k + 1 => g(i) < g(j)
  BY <1>1
<1>5. g(n + 2) = n + 1 /\ n + 2 # k + 1
  BY <1>1
<1> HIDE DEF g
<1>6. Follows(M)
  <2> SUFFICES ASSUME NEW i \in 1 .. n + 1, NEW j \in 1 .. n + 1, i < j,
                      Opens(M[i]), QuietBetween(M, i, j), ~Noise(M[j]),
                      NEW p \in Place, EndsAt(M[i], p)
               PROVE  Carries(M[j], p)
    BY DEF Follows
  <2>1. i # k + 1 /\ j # k + 1
    BY DEF Opens, Noise
  <2>2. QuietBetween(L, g(i), g(j))
    BY <1>1, <1>3, <2>1
  <2>3. g(i) \in 1 .. n /\ M[i] = L[g(i)] /\ g(j) \in 1 .. n /\ M[j] = L[g(j)]
    BY <1>2, <2>1
  <2>4. g(i) < g(j)
    BY <1>4, <2>1
  <2> QED
    BY <2>2, <2>3, <2>4 DEF InOrder, Follows
<1>7. LastOpen(M, transit, cur)
  <2> SUFFICES ASSUME NEW i \in 1 .. n + 1, Opens(M[i]),
                      QuietBetween(M, i, n + 2), NEW p \in Place, EndsAt(M[i], p)
               PROVE  transit /\ cur = p
    BY <1>1 DEF LastOpen
  <2>1. i # k + 1
    BY DEF Opens, Noise
  <2>2. QuietBetween(L, g(i), g(n + 2))
    BY <1>1, <1>3, <1>5, <2>1
  <2>3. g(i) \in 1 .. n /\ M[i] = L[g(i)]
    BY <1>2, <2>1
  <2> QED
    BY <1>5, <2>2, <2>3 DEF InOrder, LastOpen
<1> QED
  BY <1>6, <1>7 DEF InOrder

(***************************************************************************)
(* The line loses something that is no subpacket: where it was no          *)
(* subpacket can have been due.                                            *)
(***************************************************************************)
LEMMA InOrderLoss ==
  ASSUME NEW L \in Seq(Items), NEW M \in Seq(Items), NEW transit, NEW cur,
         InOrder(L, transit, cur), NEW k \in 1 .. Len(L), ~IsData(L[k]),
         Len(M) = Len(L) - 1, \A i \in 1 .. k - 1 : M[i] = L[i],
         \A i \in k .. Len(L) - 1 : M[i] = L[i + 1]
  PROVE  InOrder(M, transit, cur)
<1> DEFINE n == Len(L)
           h(i) == IF i < k THEN i ELSE i + 1
<1>1. n \in Nat
  BY LenProperties
<1>2. \A i \in 1 .. n - 1 : h(i) \in 1 .. n /\ M[i] = L[h(i)]
  BY <1>1
<1>3. \A i \in 1 .. n - 1, j \in 1 .. n :
         QuietBetween(M, i, j) =>
            \A l \in h(i) + 1 .. h(j) - 1 : l # k => Noise(L[l])
  <2> SUFFICES ASSUME NEW i \in 1 .. n - 1, NEW j \in 1 .. n, QuietBetween(M, i, j),
                      NEW l \in h(i) + 1 .. h(j) - 1, l # k
               PROVE  Noise(L[l])
    OBVIOUS
  <2>1. CASE l < k
    <3>1. l \in i + 1 .. j - 1 /\ l \in 1 .. k - 1
      BY <1>1, <2>1
    <3> QED
      BY <3>1 DEF QuietBetween
  <2>2. CASE l > k
    <3>1. l - 1 \in i + 1 .. j - 1 /\ l - 1 \in k .. n - 1 /\ (l - 1) + 1 = l
      BY <1>1, <2>2
    <3>2. M[l - 1] = L[l] /\ Noise(M[l - 1])
      BY <3>1 DEF QuietBetween
    <3> QED
      BY <3>2
  <2>3. l \in Int /\ k \in Int
    BY <1>1
  <2> QED
    BY <2>1, <2>2, <2>3
<1>4. \A i, j \in 1 .. n - 1 : i < j => h(i) < h(j)
  BY <1>1
<1>5. h(n) = n + 1 /\ \A i \in 1 .. n - 1 : h(i) # k
  BY <1>1
<1>6. \A i \in 1 .. n - 1, j \in 1 .. n, p \in Place :
         QuietBetween(M, i, j) /\ Opens(M[i]) /\ EndsAt(M[i], p) =>
            QuietBetween(L, h(i), h(j))
  <2> SUFFICES ASSUME NEW i \in 1 .. n - 1, NEW j \in 1 .. n, NEW p \in Place,
                      QuietBetween(M, i, j), Opens(M[i]), EndsAt(M[i], p),
                      NEW l \in h(i) + 1 .. h(j) - 1, ~Noise(L[l])
               PROVE  FALSE
    BY DEF QuietBetween
  <2>1. l = k
    BY <1>3
  <2>2. h(i) < k /\ k <= h(j) - 1 /\ h(i) \in 1 .. n /\ M[i] = L[h(i)]
    BY <1>1, <1>2, <2>1
  <2>3. \A m \in h(i) + 1 .. k - 1 : m \in h(i) + 1 .. h(j) - 1 /\ m # k
    BY <1>1, <2>2
  <2>4. QuietBetween(L, h(i), k)
    BY <1>3, <2>3 DEF QuietBetween
  <2>5. Carries(L[k], p)
    BY <2>1, <2>2, <2>4 DEF InOrder, Follows
  <2> QED
    BY <2>5 DEF Carries
<1> HIDE DEF h
<1>7. Follows(M)
  <2> SUFFICES ASSUME NEW i \in 1 .. n - 1, NEW j \in 1 .. n - 1, i < j,
                      Opens(M[i]), QuietBetween(M, i, j), ~Noise(M[j]),
                      NEW p \in Place, EndsAt(M[i], p)
               PROVE  Carries(M[j], p)
    BY DEF Follows
  <2>1. QuietBetween(L, h(i), h(j))
    BY <1>1, <1>6
  <2>2. h(i) \in 1 .. n /\ M[i] = L[h(i)] /\ h(j) \in 1 .. n /\ M[j] = L[h(j)]
    BY <1>2
  <2>3. h(i) < h(j)
    BY <1>4
  <2> QED
    BY <2>1, <2>2, <2>3 DEF InOrder, Follows
<1>8. LastOpen(M, transit, cur)
  <2> SUFFICES ASSUME NEW i \in 1 .. n - 1, Opens(M[i]),
                      QuietBetween(M, i, n), NEW p \in Place, EndsAt(M[i], p)
               PROVE  transit /\ cur = p
    BY <1>1 DEF LastOpen
  <2>1. QuietBetween(L, h(i), h(n))
    BY <1>1, <1>6
  <2>2. h(i) \in 1 .. n /\ M[i] = L[h(i)]
    BY <1>2
  <2> QED
    BY <1>5, <2>1, <2>2 DEF InOrder, LastOpen
<1> QED
  BY <1>7, <1>8 DEF InOrder

\* What opens, and ends at p, may be replaced by the header of a frame at p.
LEMMA InOrderFront ==
  ASSUME NEW L \in Seq(Items), NEW M \in Seq(Items), NEW transit, NEW cur,
         InOrder(L, transit, cur), Len(M) = Len(L), Len(L) >= 1,
         \A i \in 2 .. Len(L) : M[i] = L[i],
         NEW p \in Place, Opens(L[1]), EndsAt(L[1], p), M[1].type = "ZDATA", M[1].pos = p
  PROVE  InOrder(M, transit, cur)
<1>1. Len(L) \in Nat
  BY LenProperties
<1>2. \A i \in 1 .. Len(L), j \in 1 .. Len(L) + 1 :
         QuietBetween(M, i, j) => QuietBetween(L, i, j)
  <2> SUFFICES ASSUME NEW i \in 1 .. Len(L), NEW j \in 1 .. Len(L) + 1,
                      QuietBetween(M, i, j), NEW k \in i + 1 .. j - 1
               PROVE  Noise(L[k])
    BY DEF QuietBetween
  <2>1. k \in 2 .. Len(L) /\ Noise(M[k])
    BY <1>1 DEF QuietBetween
  <2> QED
    BY <2>1
<1>3. \A i \in 1 .. Len(L), q \in Place :
         Opens(M[i]) /\ EndsAt(M[i], q) => Opens(L[i]) /\ EndsAt(L[i], q)
  <2> SUFFICES ASSUME NEW i \in 1 .. Len(L), NEW q \in Place, Opens(M[i]), EndsAt(M[i], q)
               PROVE  Opens(L[i]) /\ EndsAt(L[i], q)
    OBVIOUS
  <2>1. CASE i = 1
    <3>1. q = p
      BY <2>1 DEF EndsAt
    <3> QED
      BY <2>1, <3>1
  <2>2. CASE i # 1
    <3>1. M[i] = L[i]
      BY <1>1, <2>2
    <3> QED
      BY <3>1
  <2> QED
    BY <2>1, <2>2
<1>4. Follows(M)
  <2> SUFFICES ASSUME NEW i \in 1 .. Len(L), NEW j \in 1 .. Len(L), i < j,
                      Opens(M[i]), QuietBetween(M, i, j), ~Noise(M[j]),
                      NEW q \in Place, EndsAt(M[i], q)
               PROVE  Carries(M[j], q)
    BY DEF Follows
  <2>1. Opens(L[i]) /\ EndsAt(L[i], q) /\ QuietBetween(L, i, j)
    BY <1>1, <1>2, <1>3
  <2>2. M[j] = L[j]
    BY <1>1
  <2> QED
    BY <2>1, <2>2 DEF InOrder, Follows
<1>5. LastOpen(M, transit, cur)
  <2> SUFFICES ASSUME NEW i \in 1 .. Len(L), Opens(M[i]),
                      QuietBetween(M, i, Len(L) + 1), NEW q \in Place, EndsAt(M[i], q)
               PROVE  transit /\ cur = q
    BY DEF LastOpen
  <2>1. Opens(L[i]) /\ EndsAt(L[i], q)
    BY <1>3
  <2>2. QuietBetween(L, i, Len(L) + 1)
    BY <1>1, <1>2
  <2> QED
    BY <2>1, <2>2 DEF InOrder, LastOpen
<1> QED
  BY <1>4, <1>5 DEF InOrder

(***************************************************************************)
(* A sender that is not in transit writes what opens no frame.             *)
(***************************************************************************)
LEMMA InOrderIdle ==
  ASSUME NEW L \in Seq(Items), NEW what \in Seq(Items),
         NEW cur, NEW transit2, NEW cur2, InOrder(L, FALSE, cur),
         \A i \in 1 .. Len(what) : ~Opens(what[i])
  PROVE  InOrder(L \o what, transit2, cur2)
<1> DEFINE M == L \o what
           n == Len(L)
           m == Len(what)
<1>1. n \in Nat /\ m \in Nat
  BY LenProperties
<1>2. /\ Len(M) = n + m
      /\ \A i \in 1 .. n + m : M[i] = IF i <= n THEN L[i] ELSE what[i - n]
  BY ConcatProperties
<1> HIDE DEF M
<1>3. \A i \in 1 .. n + m : Opens(M[i]) => i \in 1 .. n /\ M[i] = L[i]
  <2> SUFFICES ASSUME NEW i \in 1 .. n + m, Opens(M[i]), i > n PROVE FALSE
    BY <1>1, <1>2
  <2>1. M[i] = what[i - n] /\ i - n \in 1 .. m
    BY <1>1, <1>2
  <2> QED
    BY <2>1
<1>4. \A i \in 1 .. n, j \in 1 .. n + m + 1, l \in 1 .. n + 1 :
         l <= j /\ QuietBetween(M, i, j) => QuietBetween(L, i, l)
  <2> SUFFICES ASSUME NEW i \in 1 .. n, NEW j \in 1 .. n + m + 1, NEW l \in 1 .. n + 1,
                      l <= j, QuietBetween(M, i, j), NEW k \in i + 1 .. l - 1
               PROVE  Noise(L[k])
    BY DEF QuietBetween
  <2>1. k \in i + 1 .. j - 1 /\ k \in 1 .. n + m /\ k <= n
    BY <1>1
  <2>2. Noise(M[k]) /\ M[k] = L[k]
    BY <1>2, <2>1 DEF QuietBetween
  <2> QED
    BY <2>2
<1>5. \A i \in 1 .. n, p \in Place :
         Opens(L[i]) /\ EndsAt(L[i], p) => ~QuietBetween(L, i, n + 1)
  BY DEF InOrder, LastOpen
<1>6. Follows(M)
  <2> SUFFICES ASSUME NEW i \in 1 .. n + m, NEW j \in 1 .. n + m, i < j,
                      Opens(M[i]), QuietBetween(M, i, j), ~Noise(M[j]),
                      NEW p \in Place, EndsAt(M[i], p)
               PROVE  Carries(M[j], p)
    BY <1>2 DEF Follows
  <2>1. i \in 1 .. n /\ M[i] = L[i]
    BY <1>3
  <2>2. j <= n
    <3> SUFFICES ASSUME j > n PROVE FALSE
      BY <1>1
    <3>1. n + 1 <= j /\ n + 1 \in 1 .. n + 1 /\ j \in 1 .. n + m + 1
      BY <1>1
    <3>2. QuietBetween(L, i, n + 1)
      BY <1>4, <2>1, <3>1
    <3> QED
      BY <1>5, <2>1, <3>2
  <2>3. j \in 1 .. n /\ M[j] = L[j]
    BY <1>1, <1>2, <2>2
  <2>4. QuietBetween(L, i, j)
    BY <1>1, <1>4, <2>1, <2>3
  <2> QED
    BY <2>1, <2>3, <2>4 DEF InOrder, Follows
<1>7. LastOpen(M, transit2, cur2)
  <2> SUFFICES ASSUME NEW i \in 1 .. n + m, Opens(M[i]),
                      QuietBetween(M, i, n + m + 1), NEW p \in Place, EndsAt(M[i], p)
               PROVE  FALSE
    BY <1>2 DEF LastOpen
  <2>1. i \in 1 .. n /\ M[i] = L[i]
    BY <1>3
  <2>2. n + 1 <= n + m + 1 /\ n + 1 \in 1 .. n + 1 /\ n + m + 1 \in 1 .. n + m + 1
    BY <1>1
  <2>3. QuietBetween(L, i, n + 1)
    BY <1>4, <2>1, <2>2
  <2> QED
    BY <1>5, <2>1, <2>3
<1> QED
  BY <1>6, <1>7 DEF InOrder, M

-----------------------------------------------------------------------------
(* The invariant.                                                          *)

SenderType ==
    [pc : SenderStates, tries : Nat, pos : Place, cur : Place, first : BOOLEAN,
     unacked : Nat, block : Nat \ {0}, errors : Nat, transit : BOOLEAN,
     success : BOOLEAN]

ReceiverType ==
    [pc : ReceiverStates, from : {"init", "crc", "frame"}, errors : Nat, tries : Nat,
     file : Seq(Nat), exists : BOOLEAN, skipped : BOOLEAN, gaveUp : BOOLEAN,
     complete : BOOLEAN]

Typed ==
    /\ old \in Seq(Nat) /\ room \in Nat /\ bufsize \in Nat
    /\ s \in SenderType /\ r \in ReceiverType
    /\ toR \in Seq(Items) /\ toS \in Seq(Items) /\ gap \in BOOLEAN

\* The line to a receiver inside a frame, with the header of the frame.
Awaited == <<Hdr("ZDATA", Len(r.file))>> \o toR

FramesOK ==
    ~ReceiverDone =>
        /\ InOrder(toR, s.transit, s.cur)
        /\ r.pc = "data" => InOrder(Awaited, s.transit, s.cur)

Beginning(f) == Len(f) <= Len(File) /\ \A k \in 1 .. Len(f) : f[k] = File[k]

HeaderOK(x) ==
    /\ x.type = "ZEOF" => x.pos = Len(File)
    /\ x.type = "ZCRC" => Beginning(x.data)

HeadersOK == \A i \in 1 .. Len(toR) : HeaderOK(toR[i])

FileOK ==
    /\ r.file = old \/ Beginning(r.file)
    /\ r.from = "frame" => Beginning(r.file)

FromOK ==
    /\ r.pc \in {"off", "init"} => r.from = "init"
    /\ r.pc \in {"frame", "data"} => r.from = "frame"
    /\ r.pc = "crc" => r.from = "crc"

BatchOK ==
    /\ r.skipped \/ r.gaveUp \/ r.complete \/ r.from = "crc" => Batch
    /\ Batch /\ r.file # <<>> => r.exists
    /\ r.from = "frame" /\ ~ReceiverDone => r.exists

ReportOK ==
    /\ r.pc = "ok" => r.file = File
    /\ r.complete => r.file = File /\ (r.from = "init" \/ r.pc = "done")

\* What a ZRINIT may mean.
Finished == r.skipped \/ r.gaveUp \/ (Batch /\ r.file = File)

Streaming == s.pc \in {"send", "poll", "ack", "eof"}

\* The sender believes in its success.
Believes == s.success \/ s.pc \in {"skip", "zfin", "closed", "ok", "crashed"}

NoLateInit ==
    \A i, j \in 1 .. Len(toS) :
        ~(i < j /\ toS[i].type = "ZRPOS" /\ toS[j].type = "ZRINIT")

SuccessOK ==
    ~Finished =>
        /\ ~Believes /\ ~Has(toR, "ZFIN") /\ ~Has(toS, "ZSKIP") /\ NoLateInit
        /\ Streaming => ~Has(toS, "ZRINIT")
        /\ r.from # "frame" => ~Streaming /\ ~Has(toS, "ZRPOS")

AckOK(x, f) == x.type = "ZACK" => x.pos <= Len(f) \/ room < Len(File)

AcksOK ==
    /\ \A i \in 1 .. Len(toS) : AckOK(toS[i], r.file)
    /\ ~Batch /\ r.from # "frame" => ~Has(toS, "ZACK")

TransitOK == s.transit => s.pc \in {"send", "poll", "failed"}

ReceiverOK == FileOK /\ FromOK /\ BatchOK /\ ReportOK

Sound == FramesOK /\ HeadersOK /\ ReceiverOK /\ SuccessOK /\ AcksOK /\ TransitOK

IInv == Typed /\ (gap \/ Sound)

-----------------------------------------------------------------------------
(* What is on the line and what is written to it.                          *)

\* The file is a sequence of units that are all different.
LEMMA FileIs ==
  /\ File \in Seq(Nat) /\ Len(File) \in Nat \ {0} /\ <<>> \in Seq(Nat)
  /\ \A i, j \in 1 .. Len(File) : File[i] = File[j] => i = j
<1>1. File \in Seq(Nat \ {0}) /\ File # <<>> /\ IsInjective(File)
  BY FileAssumption
<1>2. File \in Seq(Nat)
  BY <1>1, SeqMonotonic
<1>3. DOMAIN File = 1 .. Len(File)
  BY <1>2, LenProperties
<1> QED
  BY <1>1, <1>2, <1>3, EmptySeq DEF IsInjective

\* An empty line has nothing.
LEMMA HasNone == \A type : ~Has(<<>>, type)
<1>1. Len(<<>>) = 0
  BY EmptySeq
<1> QED
  BY <1>1 DEF Has

\* A line of one element has that.
LEMMA HasOne == ASSUME NEW x, NEW type PROVE Has(<<x>>, type) <=> x.type = type
<1>1. Len(<<x>>) = 1 /\ <<x>>[1] = x /\ 1 \in 1 .. 1 /\ \A i \in 1 .. 1 : i = 1
  OBVIOUS
<1> QED
  BY <1>1, Zenon DEF Has

\* Two parts of a line have what either of them has.
LEMMA HasConcat ==
  ASSUME NEW a \in Seq(Items), NEW b \in Seq(Items), NEW type
  PROVE  Has(a \o b, type) <=> Has(a, type) \/ Has(b, type)
<1>1. Len(a) \in Nat /\ Len(b) \in Nat
  BY LenProperties
<1>2. /\ Len(a \o b) = Len(a) + Len(b)
      /\ \A i \in 1 .. Len(a) + Len(b) :
            (a \o b)[i] = IF i <= Len(a) THEN a[i] ELSE b[i - Len(a)]
  BY ConcatProperties
<1>3. ASSUME NEW i \in 1 .. Len(a) + Len(b), (a \o b)[i].type = type
      PROVE  Has(a, type) \/ Has(b, type)
  <2>1. CASE i <= Len(a)
    <3>1. i \in 1 .. Len(a) /\ a[i].type = type
      BY <1>1, <1>2, <1>3, <2>1
    <3> QED
      BY <3>1 DEF Has
  <2>2. CASE i > Len(a)
    <3>1. i - Len(a) \in 1 .. Len(b) /\ b[i - Len(a)].type = type
      BY <1>1, <1>2, <1>3, <2>2
    <3> QED
      BY <3>1 DEF Has
  <2> QED
    BY <1>1, <2>1, <2>2
<1>4. ASSUME NEW i \in 1 .. Len(a), a[i].type = type PROVE Has(a \o b, type)
  <2>1. i \in 1 .. Len(a \o b) /\ (a \o b)[i].type = type
    BY <1>1, <1>2, <1>4
  <2> QED
    BY <2>1 DEF Has
<1>5. ASSUME NEW i \in 1 .. Len(b), b[i].type = type PROVE Has(a \o b, type)
  <2>1. i + Len(a) \in 1 .. Len(a \o b) /\ (a \o b)[i + Len(a)].type = type
    BY <1>1, <1>2, <1>5
  <2> QED
    BY <2>1 DEF Has
<1> QED
  BY <1>2, <1>3, <1>4, <1>5 DEF Has

\* What is behind has nothing that the line did not have.
LEMMA HasBehind ==
  ASSUME NEW L \in Seq(Items), NEW M \in Seq(Items), Behind(M, L), NEW type, Has(M, type)
  PROVE  Has(L, type)
<1>1. Len(L) \in Nat /\ Len(M) \in Nat
  BY LenProperties
<1>2. PICK d \in Nat : /\ Len(M) + d = Len(L)
                       /\ \A j \in 1 .. Len(M) : M[j] = L[j + d]
  BY DEF Behind
<1>3. PICK j \in 1 .. Len(M) : M[j].type = type
  BY DEF Has
<1>4. j + d \in 1 .. Len(L) /\ L[j + d].type = type
  BY <1>1, <1>2, <1>3
<1> QED
  BY <1>4 DEF Has

\* Something that holds of every element holds of what is behind.
LEMMA EachBehind ==
  ASSUME NEW L \in Seq(Items), NEW M \in Seq(Items), Behind(M, L)
  PROVE  \A j \in 1 .. Len(M) : \E i \in 1 .. Len(L) : M[j] = L[i]
<1>1. Len(L) \in Nat /\ Len(M) \in Nat
  BY LenProperties
<1>2. PICK d \in Nat : /\ Len(M) + d = Len(L)
                       /\ \A j \in 1 .. Len(M) : M[j] = L[j + d]
  BY DEF Behind
<1>3. \A j \in 1 .. Len(M) : j + d \in 1 .. Len(L)
  BY <1>1, <1>2
<1> QED
  BY <1>2, <1>3

\* Every element of two parts of a line is one of either part.
LEMMA EachConcat ==
  ASSUME NEW a \in Seq(Items), NEW b \in Seq(Items)
  PROVE  \A j \in 1 .. Len(a \o b) : \/ \E i \in 1 .. Len(a) : (a \o b)[j] = a[i]
                                     \/ \E i \in 1 .. Len(b) : (a \o b)[j] = b[i]
<1>1. Len(a) \in Nat /\ Len(b) \in Nat
  BY LenProperties
<1>2. /\ Len(a \o b) = Len(a) + Len(b)
      /\ \A i \in 1 .. Len(a) + Len(b) :
            (a \o b)[i] = IF i <= Len(a) THEN a[i] ELSE b[i - Len(a)]
  BY ConcatProperties
<1> SUFFICES ASSUME NEW j \in 1 .. Len(a) + Len(b)
             PROVE  \/ \E i \in 1 .. Len(a) : (a \o b)[j] = a[i]
                    \/ \E i \in 1 .. Len(b) : (a \o b)[j] = b[i]
  BY <1>2
<1>3. CASE j <= Len(a)
  <2>1. j \in 1 .. Len(a) /\ (a \o b)[j] = a[j]
    BY <1>1, <1>2, <1>3
  <2> QED
    BY <2>1
<1>4. CASE j > Len(a)
  <2>1. j - Len(a) \in 1 .. Len(b) /\ (a \o b)[j] = b[j - Len(a)]
    BY <1>1, <1>2, <1>4
  <2> QED
    BY <2>1
<1> QED
  BY <1>1, <1>3, <1>4

\* No ZRINIT comes after a ZRPOS in what is behind, if none did.
LEMMA NoLateInitBehind ==
  ASSUME NEW L \in Seq(Items), NEW M \in Seq(Items), Behind(M, L),
         \A i, j \in 1 .. Len(L) :
            ~(i < j /\ L[i].type = "ZRPOS" /\ L[j].type = "ZRINIT")
  PROVE  \A i, j \in 1 .. Len(M) :
            ~(i < j /\ M[i].type = "ZRPOS" /\ M[j].type = "ZRINIT")
<1>1. Len(L) \in Nat /\ Len(M) \in Nat
  BY LenProperties
<1>2. PICK d \in Nat : /\ Len(M) + d = Len(L)
                       /\ \A j \in 1 .. Len(M) : M[j] = L[j + d]
  BY DEF Behind
<1>3. \A i, j \in 1 .. Len(M) :
         i + d \in 1 .. Len(L) /\ (i < j => i + d < j + d)
  BY <1>1, <1>2
<1> QED
  BY <1>2, <1>3

\* Nor does one when a ZRINIT is written only where no ZRPOS is.
LEMMA NoLateInitConcat ==
  ASSUME NEW a \in Seq(Items), NEW b \in Seq(Items),
         \A i, j \in 1 .. Len(a) :
            ~(i < j /\ a[i].type = "ZRPOS" /\ a[j].type = "ZRINIT"),
         Has(b, "ZRINIT") => ~Has(a, "ZRPOS") /\ ~Has(b, "ZRPOS")
  PROVE  \A i, j \in 1 .. Len(a \o b) :
            ~(i < j /\ (a \o b)[i].type = "ZRPOS" /\ (a \o b)[j].type = "ZRINIT")
<1> DEFINE M == a \o b
<1>1. Len(a) \in Nat /\ Len(b) \in Nat
  BY LenProperties
<1>2. /\ Len(M) = Len(a) + Len(b)
      /\ \A i \in 1 .. Len(a) + Len(b) :
            M[i] = IF i <= Len(a) THEN a[i] ELSE b[i - Len(a)]
  BY ConcatProperties
<1>3. \A type : Has(M, type) <=> Has(a, type) \/ Has(b, type)
  BY HasConcat
<1> HIDE DEF M
<1> SUFFICES ASSUME NEW i \in 1 .. Len(M), NEW j \in 1 .. Len(M), i < j,
                    M[i].type = "ZRPOS", M[j].type = "ZRINIT"
             PROVE  FALSE
  BY DEF M
<1>4. Has(M, "ZRPOS")
  BY DEF Has
<1>5. CASE j <= Len(a)
  <2>1. i \in 1 .. Len(a) /\ j \in 1 .. Len(a) /\ M[i] = a[i] /\ M[j] = a[j]
    BY <1>1, <1>2, <1>5
  <2> QED
    BY <2>1
<1>6. CASE j > Len(a)
  <2>1. j - Len(a) \in 1 .. Len(b) /\ b[j - Len(a)].type = "ZRINIT"
    BY <1>1, <1>2, <1>6
  <2>2. Has(b, "ZRINIT")
    BY <2>1 DEF Has
  <2> QED
    BY <1>3, <1>4, <2>2
<1> QED
  BY <1>1, <1>2, <1>5, <1>6

-----------------------------------------------------------------------------
(* A step of the sender.                                                   *)

\* The sender has read a ZRPOS.
AfterRpos ==
    \E i \in 1 .. Len(toS) :
        /\ toS[i].type = "ZRPOS" /\ Len(toS') = Len(toS) - i
        /\ \A j \in 1 .. Len(toS') : toS'[j] = toS[i + j]

SenderFacts(what) ==
    /\ Believes' \/ Has(what, "ZFIN") => Finished
    /\ Streaming' => Streaming \/ AfterRpos
    /\ \A i \in 1 .. Len(what) : HeaderOK(what[i])
    /\ \A L \in Seq(Items) :
          InOrder(L, s.transit, s.cur) => InOrder(L \o what, s'.transit, s'.cur)
    /\ TransitOK'

\* What a receiver inside a frame waits for is a line too.
LEMMA AwaitedItems ==
  Typed => /\ Awaited \in Seq(Items)
           /\ <<Hdr("ZDATA", Len(r.file))>> \in Seq(Items)
<1> SUFFICES ASSUME Typed
             PROVE  /\ Awaited \in Seq(Items)
                    /\ <<Hdr("ZDATA", Len(r.file))>> \in Seq(Items)
  OBVIOUS
<1>1. r.file \in Seq(Nat) /\ toR \in Seq(Items)
  BY DEF Typed, ReceiverType
<1>2. Len(r.file) \in Nat
  BY <1>1, LenProperties
<1>3. Hdr("ZDATA", Len(r.file)) \in Items
  BY <1>2, HeaderItem DEF Types
<1>4. <<Hdr("ZDATA", Len(r.file))>> \in Seq(Items)
  BY <1>3
<1> QED
  BY <1>1, <1>4, ConcatProperties DEF Awaited

\* A step of the sender with these facts preserves the invariant.
LEMMA SenderStep ==
  ASSUME IInv, NEW what \in Seq(Items), SenderWrites(what), s' \in SenderType,
         toS' \in Seq(Items), Behind(toS', toS), ~gap => SenderFacts(what)
  PROVE  IInv'
<1>1. /\ receiver' = receiver /\ old' = old /\ room' = room /\ bufsize' = bufsize
      /\ r' = r /\ gap' = gap
      /\ toR' = IF ReceiverDone THEN toR ELSE toR \o what
  BY DEF SenderWrites, setting
<1>2. toR \in Seq(Items) /\ toS \in Seq(Items) /\ Typed
  BY DEF IInv, Typed
<1>3. toR \o what \in Seq(Items)
  BY <1>2, ConcatProperties
<1>4. Typed'
  BY <1>1, <1>2, <1>3 DEF Typed
<1>5. ASSUME ~gap PROVE Sound'
  <2>1. Sound /\ SenderFacts(what)
    BY <1>5 DEF IInv
  <2>2. Finished' <=> Finished
    BY <1>1 DEF Finished, Batch
  <2>3. FramesOK'
    <3> SUFFICES ASSUME ~ReceiverDone
                 PROVE  /\ InOrder(toR', s'.transit, s'.cur)
                        /\ r.pc = "data" => InOrder(Awaited', s'.transit, s'.cur)
      BY <1>1 DEF FramesOK, ReceiverDone
    <3>1. toR' = toR \o what
      BY <1>1
    <3>2. InOrder(toR, s.transit, s.cur)
      BY <2>1 DEF Sound, FramesOK
    <3>3. InOrder(toR', s'.transit, s'.cur)
      BY <1>2, <2>1, <3>1, <3>2 DEF SenderFacts
    <3>4. ASSUME r.pc = "data" PROVE InOrder(Awaited', s'.transit, s'.cur)
      <4>1. Awaited \in Seq(Items) /\ <<Hdr("ZDATA", Len(r.file))>> \in Seq(Items)
        BY <1>2, AwaitedItems
      <4>2. InOrder(Awaited, s.transit, s.cur)
        BY <2>1, <3>4 DEF Sound, FramesOK
      <4>3. InOrder(Awaited \o what, s'.transit, s'.cur)
        BY <2>1, <4>1, <4>2 DEF SenderFacts
      <4>4. Awaited' = <<Hdr("ZDATA", Len(r.file))>> \o (toR \o what)
        BY <1>1, <3>1 DEF Awaited
      <4>5. Awaited \o what = <<Hdr("ZDATA", Len(r.file))>> \o (toR \o what)
        BY <1>2, <4>1, ConcatAssociative DEF Awaited
      <4> QED
        BY <4>3, <4>4, <4>5
    <3> QED
      BY <3>3, <3>4
  <2>4. HeadersOK'
    <3>1. \A i \in 1 .. Len(toR) : HeaderOK(toR[i])
      BY <2>1 DEF Sound, HeadersOK
    <3>2. \A i \in 1 .. Len(what) : HeaderOK(what[i])
      BY <2>1 DEF SenderFacts
    <3>3. \A j \in 1 .. Len(toR \o what) : HeaderOK((toR \o what)[j])
      BY <1>2, <3>1, <3>2, EachConcat
    <3>4. \A i \in 1 .. Len(toR') : HeaderOK(toR'[i])
      BY <1>1, <3>1, <3>3
    <3> QED
      BY <3>4 DEF HeadersOK, HeaderOK
  <2>5. ReceiverOK'
    BY <1>1, <2>1 DEF Sound, ReceiverOK, FileOK, FromOK, BatchOK, ReportOK, Batch, ReceiverDone
  <2>6. SuccessOK'
    <3> SUFFICES ASSUME ~Finished
                 PROVE  /\ ~Believes' /\ ~Has(toR', "ZFIN") /\ ~Has(toS', "ZSKIP")
                        /\ NoLateInit'
                        /\ Streaming' => ~Has(toS', "ZRINIT")
                        /\ r.from # "frame" => ~Streaming' /\ ~Has(toS', "ZRPOS")
      BY <1>1, <2>2 DEF SuccessOK, Has
    <3>1. /\ ~Has(toR, "ZFIN") /\ ~Has(toS, "ZSKIP") /\ NoLateInit
          /\ Streaming => ~Has(toS, "ZRINIT")
          /\ r.from # "frame" => ~Streaming /\ ~Has(toS, "ZRPOS")
      BY <2>1 DEF Sound, SuccessOK
    <3>2. ~Believes' /\ ~Has(what, "ZFIN") /\ (Streaming' => Streaming \/ AfterRpos)
      BY <2>1 DEF SenderFacts
    <3>3. ~Has(toR', "ZFIN")
      BY <1>1, <1>2, <3>1, <3>2, HasConcat
    <3>4. \A type : Has(toS', type) => Has(toS, type)
      BY <1>2, HasBehind
    <3>5. NoLateInit'
      BY <1>2, <3>1, NoLateInitBehind DEF NoLateInit
    <3>6. AfterRpos => ~Has(toS', "ZRINIT") /\ Has(toS, "ZRPOS")
      <4> SUFFICES ASSUME AfterRpos
                   PROVE  ~Has(toS', "ZRINIT") /\ Has(toS, "ZRPOS")
        OBVIOUS
      <4>1. PICK i \in 1 .. Len(toS) :
                    /\ toS[i].type = "ZRPOS" /\ Len(toS') = Len(toS) - i
                    /\ \A j \in 1 .. Len(toS') : toS'[j] = toS[i + j]
        BY DEF AfterRpos
      <4>2. Len(toS) \in Nat
        BY <1>2, LenProperties
      <4>3. \A j \in 1 .. Len(toS') : i + j \in 1 .. Len(toS) /\ i < i + j
        BY <4>1, <4>2
      <4>4. \A j \in 1 .. Len(toS') : toS'[j].type # "ZRINIT"
        BY <3>1, <4>1, <4>3 DEF NoLateInit
      <4> QED
        BY <4>1, <4>4 DEF Has
    <3>7. Streaming' => ~Has(toS', "ZRINIT")
      BY <3>1, <3>2, <3>4, <3>6
    <3>8. r.from # "frame" => ~Streaming' /\ ~Has(toS', "ZRPOS")
      BY <3>1, <3>2, <3>4, <3>6
    <3> QED
      BY <3>1, <3>2, <3>3, <3>4, <3>5, <3>7, <3>8
  <2>7. AcksOK'
    <3>1. \A i \in 1 .. Len(toS') : \E j \in 1 .. Len(toS) : toS'[i] = toS[j]
      BY <1>2, EachBehind
    <3>2. \A i \in 1 .. Len(toS) : AckOK(toS[i], r.file)
      BY <2>1 DEF Sound, AcksOK
    <3>3. \A i \in 1 .. Len(toS') : AckOK(toS'[i], r.file)
      BY <3>1, <3>2
    <3>4. ~Batch /\ r.from # "frame" => ~Has(toS', "ZACK")
      BY <1>2, <2>1, HasBehind DEF Sound, AcksOK
    <3> QED
      BY <1>1, <3>3, <3>4 DEF AcksOK, AckOK, Batch, Has
  <2>8. TransitOK'
    BY <2>1 DEF SenderFacts
  <2> QED
    BY <2>3, <2>4, <2>5, <2>6, <2>7, <2>8 DEF Sound
<1> QED
  BY <1>1, <1>4, <1>5 DEF IInv

-----------------------------------------------------------------------------
(* A step of the receiver.                                                 *)

ReceiverFacts(what) ==
    /\ Finished => Finished'
    /\ Has(what, "ZSKIP") => Finished'
    /\ Has(what, "ZRINIT") => Finished' \/ (r.from # "frame" /\ ~Has(what, "ZRPOS"))
    /\ Has(what, "ZRPOS") => Finished' \/ r'.from = "frame"
    /\ r.from = "frame" /\ r'.from # "frame" => Finished'
    /\ Len(r'.file) >= Len(r.file) \/ (~Batch /\ r.from # "frame")
    /\ \A i \in 1 .. Len(what) : AckOK(what[i], r'.file)
    /\ ~Batch /\ r'.from # "frame" => r.from # "frame" /\ ~Has(what, "ZACK")
    /\ ReceiverOK'
    /\ ReceiverDone => ReceiverDone'
    /\ r'.pc = "data" => InOrder(Awaited', s.transit, s.cur)

\* A step of the receiver with these facts preserves the invariant.
LEMMA ReceiverStep ==
  ASSUME IInv, NEW what \in Seq(Items), ReceiverWrites(what), r' \in ReceiverType,
         toR' \in Seq(Items), Behind(toR', toR), ~gap => ReceiverFacts(what)
  PROVE  IInv'
<1>1. /\ receiver' = receiver /\ old' = old /\ room' = room /\ bufsize' = bufsize
      /\ s' = s /\ gap' = gap
      /\ toS' = IF SenderDone THEN toS ELSE toS \o what
  BY DEF ReceiverWrites, setting
<1>2. toR \in Seq(Items) /\ toS \in Seq(Items) /\ Typed
  BY DEF IInv, Typed
<1>3. toS \o what \in Seq(Items)
  BY <1>2, ConcatProperties
<1>4. Typed'
  BY <1>1, <1>2, <1>3 DEF Typed
<1>5. ASSUME ~gap PROVE Sound'
  <2>1. Sound /\ ReceiverFacts(what)
    BY <1>5 DEF IInv
  <2>2. FramesOK'
    <3> SUFFICES ASSUME ~ReceiverDone'
                 PROVE  /\ InOrder(toR', s.transit, s.cur)
                        /\ r'.pc = "data" => InOrder(Awaited', s.transit, s.cur)
      BY <1>1 DEF FramesOK
    <3>1. InOrder(toR, s.transit, s.cur)
      BY <2>1 DEF Sound, FramesOK, ReceiverFacts
    <3>2. InOrder(toR', s.transit, s.cur)
      BY <1>2, <3>1, InOrderBehind
    <3> QED
      BY <2>1, <3>2 DEF ReceiverFacts
  <2>3. HeadersOK'
    <3>1. \A i \in 1 .. Len(toR) : HeaderOK(toR[i])
      BY <2>1 DEF Sound, HeadersOK
    <3>2. \A j \in 1 .. Len(toR') : \E i \in 1 .. Len(toR) : toR'[j] = toR[i]
      BY <1>2, EachBehind
    <3>3. \A j \in 1 .. Len(toR') : HeaderOK(toR'[j])
      BY <3>1, <3>2
    <3> QED
      BY <3>3 DEF HeadersOK, HeaderOK
  <2>4. ReceiverOK' /\ TransitOK'
    BY <1>1, <2>1 DEF Sound, ReceiverFacts, TransitOK
  <2>5. SuccessOK'
    <3> SUFFICES ASSUME ~Finished'
                 PROVE  /\ ~Believes /\ ~Has(toR', "ZFIN") /\ ~Has(toS', "ZSKIP")
                        /\ NoLateInit'
                        /\ Streaming => ~Has(toS', "ZRINIT")
                        /\ r'.from # "frame" => ~Streaming /\ ~Has(toS', "ZRPOS")
      BY <1>1 DEF SuccessOK, Has, Believes, Streaming
    <3>1. /\ ~Believes /\ ~Has(toR, "ZFIN") /\ ~Has(toS, "ZSKIP") /\ NoLateInit
          /\ Streaming => ~Has(toS, "ZRINIT")
          /\ r.from # "frame" => ~Streaming /\ ~Has(toS, "ZRPOS")
      BY <2>1 DEF Sound, SuccessOK, ReceiverFacts
    <3>2. /\ ~Has(what, "ZSKIP")
          /\ Has(what, "ZRINIT") => r.from # "frame" /\ ~Has(what, "ZRPOS")
          /\ Has(what, "ZRPOS") => r'.from = "frame"
          /\ r'.from # "frame" => r.from # "frame"
      BY <2>1 DEF ReceiverFacts
    <3>3. ~Has(toR', "ZFIN")
      BY <1>2, <3>1, HasBehind
    <3>4. \A type : Has(toS', type) => Has(toS, type) \/ Has(what, type)
      BY <1>1, <1>2, HasConcat
    <3>5. NoLateInit'
      <4>1. CASE SenderDone
        BY <1>1, <3>1, <4>1 DEF NoLateInit
      <4>2. CASE ~SenderDone
        <5>1. toS' = toS \o what
          BY <1>1, <4>2
        <5>2. \A i, j \in 1 .. Len(toS \o what) :
                 ~(i < j /\ (toS \o what)[i].type = "ZRPOS" /\ (toS \o what)[j].type = "ZRINIT")
          BY <1>2, <3>1, <3>2, NoLateInitConcat DEF NoLateInit
        <5> QED
          BY <5>1, <5>2 DEF NoLateInit
      <4> QED
        BY <4>1, <4>2
    <3>6. Streaming => ~Has(toS', "ZRINIT")
      BY <3>1, <3>2, <3>4
    <3>7. r'.from # "frame" => ~Streaming /\ ~Has(toS', "ZRPOS")
      BY <3>1, <3>2, <3>4
    <3> QED
      BY <3>1, <3>2, <3>3, <3>4, <3>5, <3>6, <3>7
  <2>6. AcksOK'
    <3>1. \A i \in 1 .. Len(toS) : AckOK(toS[i], r'.file)
      <4>1. CASE Len(r'.file) >= Len(r.file)
        <5>1. Len(r.file) \in Nat /\ Len(r'.file) \in Nat
          BY <1>2, LenProperties DEF Typed, ReceiverType
        <5>2. \A i \in 1 .. Len(toS) : toS[i].pos \in Nat
          <6>1. \A i \in 1 .. Len(toS) : toS[i] \in Items
            BY <1>2, ElementOfSeq
          <6> QED
            BY <6>1 DEF Items
        <5> QED
          BY <2>1, <4>1, <5>1, <5>2 DEF Sound, AcksOK, AckOK
      <4>2. CASE ~Batch /\ r.from # "frame"
        <5>1. ~Has(toS, "ZACK")
          BY <2>1, <4>2 DEF Sound, AcksOK
        <5> QED
          BY <5>1 DEF Has, AckOK
      <4> QED
        BY <2>1, <4>1, <4>2 DEF ReceiverFacts
    <3>2. \A i \in 1 .. Len(what) : AckOK(what[i], r'.file)
      BY <2>1 DEF ReceiverFacts
    <3>3. \A j \in 1 .. Len(toS \o what) : AckOK((toS \o what)[j], r'.file)
      BY <1>2, <3>1, <3>2, EachConcat
    <3>4. \A i \in 1 .. Len(toS') : AckOK(toS'[i], r'.file)
      BY <1>1, <3>1, <3>3
    <3>5. ~Batch /\ r'.from # "frame" => ~Has(toS', "ZACK")
      BY <1>1, <1>2, <2>1, HasConcat DEF Sound, AcksOK, ReceiverFacts
    <3> QED
      BY <1>1, <3>4, <3>5 DEF AcksOK, AckOK, Batch, Has
  <2> QED
    BY <2>2, <2>3, <2>4, <2>5, <2>6 DEF Sound
<1> QED
  BY <1>1, <1>4, <1>5 DEF IInv

-----------------------------------------------------------------------------
(* The steps of the sender before the data.                                *)

\* What each of them writes.
LEMMA HasLiteral ==
  ASSUME NEW x \in Items, NEW y \in Items, NEW type
  PROVE  /\ <<x>> \in Seq(Items) /\ <<x, y>> \in Seq(Items) /\ <<>> \in Seq(Items)
         /\ Len(<<x>>) = 1 /\ <<x>>[1] = x
         /\ Len(<<x, y>>) = 2 /\ <<x, y>>[1] = x /\ <<x, y>>[2] = y
         /\ Has(<<x, y>>, type) <=> x.type = type \/ y.type = type
<1>1. /\ <<x>> \in Seq(Items) /\ <<x, y>> \in Seq(Items) /\ <<>> \in Seq(Items)
      /\ Len(<<x>>) = 1 /\ <<x>>[1] = x
      /\ Len(<<x, y>>) = 2 /\ <<x, y>>[1] = x /\ <<x, y>>[2] = y
  BY EmptySeq
<1>2. 1 \in 1 .. 2 /\ 2 \in 1 .. 2 /\ \A i \in 1 .. 2 : i = 1 \/ i = 2
  OBVIOUS
<1>3. Has(<<x, y>>, type) <=> x.type = type \/ y.type = type
  BY <1>1, <1>2, Zenon DEF Has
<1> QED
  BY <1>1, <1>3

\* What opens no frame and needs no place.
Plain(x) ==
    x \in Items /\ x.type \notin {"ZEOF", "ZDATA", "ZCRCG"}
                /\ (x.type = "ZCRC" => Beginning(x.data))

AllPlain(what) == what \in Seq(Items) /\ \A i \in 1 .. Len(what) : Plain(what[i])

\* Writing nothing is plain.
LEMMA PlainNone == AllPlain(<<>>)
<1>1. <<>> \in Seq(Items) /\ Len(<<>>) = 0
  BY EmptySeq
<1> QED
  BY <1>1 DEF AllPlain

\* One plain element is.
LEMMA PlainOne == ASSUME NEW x, Plain(x) PROVE AllPlain(<<x>>)
<1>1. x \in Items
  BY DEF Plain
<1>2. <<x>> \in Seq(Items) /\ Len(<<x>>) = 1 /\ <<x>>[1] = x
  BY <1>1
<1>3. \A i \in 1 .. 1 : i = 1
  OBVIOUS
<1> QED
  BY <1>2, <1>3, Zenon DEF AllPlain

\* Two plain parts are.
LEMMA PlainConcat == ASSUME NEW a, NEW b, AllPlain(a), AllPlain(b) PROVE AllPlain(a \o b)
<1>1. a \in Seq(Items) /\ b \in Seq(Items)
  BY DEF AllPlain
<1>2. a \o b \in Seq(Items)
  BY <1>1, ConcatProperties
<1>3. \A j \in 1 .. Len(a \o b) : Plain((a \o b)[j])
  BY <1>1, EachConcat DEF AllPlain
<1> QED
  BY <1>2, <1>3 DEF AllPlain

\* Headers are plain, except those of frames and checks.
LEMMA PlainHeaders ==
  ASSUME NEW type \in Types \ {"ZEOF", "ZDATA", "ZCRCG", "ZCRC"}, NEW pos \in Nat
  PROVE  Plain(Hdr(type, pos)) /\ AllPlain(<<Hdr(type, pos)>>)
<1>1. Hdr(type, pos) \in Items
  BY HeaderItem
<1>2. Plain(Hdr(type, pos))
  BY <1>1 DEF Plain, Hdr
<1> QED
  BY <1>2, PlainOne

(***************************************************************************)
(* A sender that is not in transit writes plain things: its step is good   *)
(* if it does not start to believe, and sends data only on a ZRPOS.        *)
(***************************************************************************)
LEMMA PlainStep ==
  ASSUME IInv, NEW what, AllPlain(what), SenderWrites(what), s' \in SenderType,
         toS' \in Seq(Items), Behind(toS', toS),
         ~gap => /\ ~s.transit /\ ~s'.transit
                 /\ Believes' \/ Has(what, "ZFIN") => Finished
                 /\ Streaming' => Streaming \/ AfterRpos
  PROVE  IInv'
<1>1. what \in Seq(Items) /\ \A i \in 1 .. Len(what) : Plain(what[i])
  BY DEF AllPlain
<1>2. \A i \in 1 .. Len(what) : ~Opens(what[i]) /\ HeaderOK(what[i])
  BY <1>1 DEF Plain, Opens, HeaderOK
<1>3. ASSUME ~gap PROVE SenderFacts(what)
  <2>1. s.transit = FALSE
    BY <1>3 DEF IInv, Typed, SenderType
  <2>2. \A L \in Seq(Items) :
           InOrder(L, s.transit, s.cur) => InOrder(L \o what, s'.transit, s'.cur)
    BY <1>1, <1>2, <2>1, InOrderIdle
  <2> QED
    BY <1>2, <1>3, <2>2 DEF SenderFacts, TransitOK
<1> QED
  BY <1>1, <1>3, SenderStep

\* What the invariant says to a sender that has read a header.
LEMMA AnswerRead ==
  ASSUME IInv, toS' = AfterHeader(toS)
  PROVE  /\ Received(toS) \in Items /\ toS' \in Seq(Items) /\ Behind(toS', toS)
         /\ Received(toS).type = "ZRPOS" => AfterRpos
         /\ ~gap /\ Received(toS).type = "ZSKIP" => Finished
         /\ ~gap /\ Received(toS).type = "ZRINIT" /\ Streaming => Finished
         /\ ~gap => AckOK(Received(toS), r.file)
<1> DEFINE h == Received(toS)
<1>1. toS \in Seq(Items) /\ (gap \/ Sound)
  BY DEF IInv, Typed
<1>2. /\ h \in Items
      /\ AfterHeader(toS) \in Seq(Items) /\ Behind(AfterHeader(toS), toS)
      /\ h.type \notin {"TIMEOUT", "INVHDR"} =>
           \E i \in 1 .. Len(toS) :
              /\ h = toS[i] /\ IsHeader(toS[i])
              /\ Len(AfterHeader(toS)) = Len(toS) - i
              /\ \A j \in 1 .. Len(AfterHeader(toS)) : AfterHeader(toS)[j] = toS[i + j]
  BY <1>1, HeaderRead
<1> HIDE DEF h
<1>3. h.type = "ZRPOS" => AfterRpos
  BY <1>2 DEF AfterRpos
<1>4. h.type \in {"ZSKIP", "ZRINIT", "ZACK"} => \E i \in 1 .. Len(toS) : h = toS[i]
  BY <1>2
<1>5. ~gap /\ h.type = "ZSKIP" => Finished
  BY <1>1, <1>4 DEF Sound, SuccessOK, Has
<1>6. ~gap /\ h.type = "ZRINIT" /\ Streaming => Finished
  BY <1>1, <1>4 DEF Sound, SuccessOK, Has
<1>7. ~gap => AckOK(h, r.file)
  <2> SUFFICES ASSUME ~gap, h.type = "ZACK" PROVE AckOK(h, r.file)
    BY DEF AckOK
  <2>1. PICK i \in 1 .. Len(toS) : h = toS[i]
    BY <1>4
  <2> QED
    BY <1>1, <2>1 DEF Sound, AcksOK
<1> QED
  BY <1>2, <1>3, <1>5, <1>6, <1>7 DEF h

\* What the invariant says to the sender.
LEMMA SenderIs ==
  ASSUME IInv
  PROVE  /\ s \in SenderType /\ toS \in Seq(Items) /\ Behind(toS, toS)
         /\ ~gap /\ Believes => Finished
         /\ ~gap /\ s.pc \notin {"send", "poll", "failed"} => ~s.transit
<1>1. s \in SenderType /\ toS \in Seq(Items)
  BY DEF IInv, Typed
<1>2. Len(toS) \in Nat
  BY <1>1, LenProperties
<1>3. Len(toS) + 0 = Len(toS) /\ \A j \in 1 .. Len(toS) : toS[j] = toS[j + 0]
  BY <1>2
<1>4. Behind(toS, toS)
  BY <1>3 DEF Behind
<1> QED
  BY <1>1, <1>4 DEF IInv, Sound, SuccessOK, TransitOK

\* The sender opens with a ZRQINIT.
LEMMA StartStep == ASSUME IInv, Start PROVE IInv'
<1> DEFINE what == <<Hdr("ZRQINIT", 0)>>
<1>1. s.pc = "start" /\ s' = [s EXCEPT !.pc = "rqinit"] /\ SenderWrites(what) /\ toS' = toS
  BY DEF Start
<1>2. AllPlain(what)
  BY PlainHeaders DEF Types
<1>3. ~Has(what, "ZFIN")
  BY HasOne DEF Hdr
<1> HIDE DEF what
<1>4. s' \in SenderType
  BY <1>1, SenderIs DEF SenderType, SenderStates
<1>5. ~gap => /\ ~s.transit /\ ~s'.transit
              /\ Believes' \/ Has(what, "ZFIN") => Finished
              /\ Streaming' => Streaming \/ AfterRpos
  BY <1>1, <1>3, SenderIs DEF SenderType, Believes, Streaming
<1> QED
  BY <1>1, <1>2, <1>4, <1>5, SenderIs, PlainStep

\* The frame that announces the file is plain.
LEMMA ZFileFramePlain == AllPlain(ZFileFrame) /\ ~Has(ZFileFrame, "ZFIN")
<1>1. 0 \in Nat /\ <<0>> \in Seq(Nat)
  OBVIOUS
<1>2. Hdr("ZFILE", 0) \in Items /\ Subpacket("ZCRCW", <<0>>) \in Items
  BY <1>1, HeaderItem, SubpacketItem DEF Types
<1>3. /\ Hdr("ZFILE", 0).type = "ZFILE" /\ Subpacket("ZCRCW", <<0>>).type = "ZCRCW"
  BY DEF Hdr, Subpacket
<1>4. Plain(Hdr("ZFILE", 0)) /\ Plain(Subpacket("ZCRCW", <<0>>))
  BY <1>2, <1>3 DEF Plain
<1> HIDE DEF Hdr, Subpacket
<1>5. /\ ZFileFrame \in Seq(Items) /\ Len(ZFileFrame) = 2
      /\ ZFileFrame[1] = Hdr("ZFILE", 0) /\ ZFileFrame[2] = Subpacket("ZCRCW", <<0>>)
      /\ ~Has(ZFileFrame, "ZFIN")
  BY <1>2, <1>3, HasLiteral DEF ZFileFrame
<1>6. \A i \in 1 .. 2 : i = 1 \/ i = 2
  OBVIOUS
<1> QED
  BY <1>4, <1>5, <1>6 DEF AllPlain

\* A step that begins no data and no belief.
LEMMA WaitingStep ==
  ASSUME IInv, NEW what, AllPlain(what), ~Has(what, "ZFIN"), SenderWrites(what),
         toS' \in Seq(Items), Behind(toS', toS), NEW pc \in {"rqinit", "file", "crc", "failed"},
         NEW tries \in Nat, s' = [s EXCEPT !.pc = pc, !.tries = tries], ~gap => ~s.transit
  PROVE  IInv'
<1>1. s' \in SenderType
  BY SenderIs DEF SenderType, SenderStates
<1>2. s'.success = s.success /\ s'.pc = pc /\ s'.transit = s.transit
  BY SenderIs DEF SenderType
<1>3. ~gap => /\ ~s.transit /\ ~s'.transit
              /\ Believes' \/ Has(what, "ZFIN") => Finished
              /\ Streaming' => Streaming \/ AfterRpos
  BY <1>2, SenderIs DEF Believes, Streaming
<1> QED
  BY <1>1, <1>3, PlainStep

\* The loop over get_zrinit, which believes nothing.
LEMMA RqinitAnswerStep == ASSUME IInv, RqinitAnswer PROVE IInv'
<1> DEFINE h == Received(toS)
           again == s.tries < MaxErrors /\ h.type # "CAN"
<1>1. s.pc = "rqinit" /\ toS' = AfterHeader(toS)
      /\ IF h.type = "ZRINIT" /\ s.tries < MaxErrors
           THEN /\ s' = [s EXCEPT !.pc = "file", !.tries = 0]
                /\ SenderWrites(ZFileFrame)
         ELSE IF h.type # "ZRINIT" /\ again
           THEN /\ s' = [s EXCEPT !.tries = @ + 1]
                /\ SenderWrites(<<Hdr("ZRQINIT", 0)>>)
         ELSE s' = [s EXCEPT !.pc = "failed"] /\ SenderWrites(<<>>)
  BY DEF RqinitAnswer, SenderReads
<1>2. toS' \in Seq(Items) /\ Behind(toS', toS)
  BY <1>1, AnswerRead
<1>3. s \in SenderType /\ (~gap => ~s.transit)
  BY <1>1, SenderIs
<1>4. CASE s' = [s EXCEPT !.pc = "file", !.tries = 0] /\ SenderWrites(ZFileFrame)
  BY <1>2, <1>3, <1>4, ZFileFramePlain, WaitingStep
<1>5. CASE s' = [s EXCEPT !.tries = @ + 1] /\ SenderWrites(<<Hdr("ZRQINIT", 0)>>)
  <2>1. s.tries + 1 \in Nat
    BY <1>3 DEF SenderType
  <2>2. s' = [s EXCEPT !.pc = "rqinit", !.tries = s.tries + 1]
    BY <1>1, <1>3, <1>5 DEF SenderType
  <2>3. AllPlain(<<Hdr("ZRQINIT", 0)>>)
    BY PlainHeaders DEF Types
  <2>4. ~Has(<<Hdr("ZRQINIT", 0)>>, "ZFIN")
    BY HasOne DEF Hdr
  <2> HIDE DEF Hdr
  <2> QED
    BY <1>2, <1>3, <1>5, <2>1, <2>2, <2>3, <2>4, WaitingStep
<1>6. CASE s' = [s EXCEPT !.pc = "failed"] /\ SenderWrites(<<>>)
  <2>1. s' = [s EXCEPT !.pc = "failed", !.tries = s.tries] /\ s.tries \in Nat
    BY <1>3, <1>6 DEF SenderType
  <2> QED
    BY <1>2, <1>3, <1>6, <2>1, PlainNone, HasNone, WaitingStep
<1> QED
  BY <1>1, <1>4, <1>5, <1>6

\* Each answer that the sender waits for has been read.
LEMMA FailStep ==
  ASSUME IInv, s' = [s EXCEPT !.pc = "failed"], NEW what, AllPlain(what),
         ~Has(what, "ZFIN"), SenderWrites(what),
         toS' \in Seq(Items), Behind(toS', toS), ~gap => ~s.transit
  PROVE  IInv'
<1>1. s' = [s EXCEPT !.pc = "failed", !.tries = s.tries] /\ s.tries \in Nat
  BY SenderIs DEF SenderType
<1> QED
  BY <1>1, WaitingStep

\* The file is announced again, or the sender gives up.
LEMMA ResendZFileStep ==
  ASSUME IInv, ResendZFile, toS' \in Seq(Items), Behind(toS', toS), ~gap => ~s.transit
  PROVE  IInv'
<1>1. s \in SenderType /\ s.tries \in Nat
  BY SenderIs DEF SenderType
<1>2. CASE s' = [s EXCEPT !.pc = "file", !.tries = @ + 1] /\ SenderWrites(ZFileFrame)
  <2>1. s' = [s EXCEPT !.pc = "file", !.tries = s.tries + 1] /\ s.tries + 1 \in Nat
    BY <1>1, <1>2 DEF SenderType
  <2> QED
    BY <1>2, <2>1, ZFileFramePlain, WaitingStep
<1>3. CASE s' = [s EXCEPT !.pc = "failed"] /\ SenderWrites(<<>>)
  BY <1>3, PlainNone, HasNone, FailStep
<1> QED
  BY <1>2, <1>3 DEF ResendZFile

\* The sender reports its success, which it may if the receiver has finished.
LEMMA FinishStep ==
  ASSUME IInv, Finish(s), toS' \in Seq(Items), Behind(toS', toS),
         ~gap => ~s.transit /\ Finished
  PROVE  IInv'
<1> DEFINE what == <<Hdr("ZFIN", 0)>>
<1>1. s' = [s EXCEPT !.pc = "zfin", !.tries = 0, !.success = TRUE] /\ SenderWrites(what)
  BY DEF Finish
<1>2. AllPlain(what)
  BY PlainHeaders DEF Types
<1> HIDE DEF what
<1>3. s' \in SenderType /\ s'.transit = s.transit /\ s'.pc = "zfin"
  BY <1>1, SenderIs DEF SenderType, SenderStates
<1>4. ~gap => /\ ~s.transit /\ ~s'.transit
              /\ Believes' \/ Has(what, "ZFIN") => Finished
              /\ Streaming' => Streaming \/ AfterRpos
  BY <1>3 DEF Streaming
<1> QED
  BY <1>1, <1>2, <1>3, <1>4, PlainStep

\* The sender starts to send data only when it has read a ZRPOS.
LEMMA BeginStep ==
  ASSUME IInv, NEW pos \in Nat, Begin(pos), toS' \in Seq(Items), Behind(toS', toS),
         AfterRpos, ~gap => ~s.transit
  PROVE  IInv'
<1>1. SenderWrites(<<>>) /\ Len(File) \in Nat
  BY FileIs DEF Begin
<1>2. CASE pos <= Len(File)
  <2>1. s' = [SendFrom(s, pos) EXCEPT !.errors = 0]
    BY <1>2 DEF Begin
  <2>2. pos \in Place
    BY <1>1, <1>2 DEF Place
  <2>3. /\ s' \in SenderType /\ s'.transit = s.transit /\ s'.pc = "send"
        /\ s'.success = s.success
    BY <2>1, <2>2, SenderIs DEF SenderType, SenderStates, SendFrom
  <2>4. ~gap => /\ ~s.transit /\ ~s'.transit
                /\ Believes' \/ Has(<<>>, "ZFIN") => Finished
                /\ Streaming' => Streaming \/ AfterRpos
    BY <2>3, SenderIs, HasNone DEF Believes
  <2> QED
    BY <1>1, <2>3, <2>4, PlainNone, PlainStep
<1>3. CASE ~(pos <= Len(File))
  BY <1>1, <1>3, PlainNone, HasNone, FailStep DEF Begin
<1> QED
  BY <1>2, <1>3

\* The check of a beginning of the file, which is a beginning of the file.
LEMMA CheckBeginning ==
  ASSUME NEW n \in Nat
  PROVE  Check(File, n) \in Seq(Nat) /\ Beginning(Check(File, n))
<1>1. File \in Seq(Nat) /\ Len(File) \in Nat
  BY FileIs
<1>2. CASE n = 0
  BY <1>1, <1>2 DEF Check, Beginning
<1>3. CASE n # 0
  <2> DEFINE m == IF n < Len(File) THEN n ELSE Len(File)
             f == SubSeq(File, 1, m)
  <2>1. Check(File, n) = f
    BY <1>3 DEF Check
  <2>2. m \in Nat /\ m <= Len(File)
    BY <1>1
  <2> HIDE DEF m
  <2>3. \A k \in 1 .. m : File[k] \in Nat
    BY <1>1, <2>2, ElementOfSeq
  <2>4. /\ f \in Seq(Nat) /\ Len(f) = IF 1 <= m THEN m - 1 + 1 ELSE 0
        /\ \A k \in 1 .. m - 1 + 1 : f[k] = File[1 + k - 1]
    BY <2>2, <2>3, SubSeqProperties
  <2> HIDE DEF f
  <2>5. Len(f) = m /\ \A k \in 1 .. m : f[k] = File[k]
    BY <2>2, <2>4
  <2> QED
    BY <2>1, <2>2, <2>4, <2>5 DEF Beginning
<1> QED
  BY <1>2, <1>3

\* A ZSKIP on the line means that the receiver has finished.
LEMMA FileAnswerStep == ASSUME IInv, FileAnswer PROVE IInv'
<1> DEFINE h == Received(toS)
<1>1. /\ s.pc = "file" /\ toS' = AfterHeader(toS)
      /\ CASE h.type = "CAN" ->
                s' = [s EXCEPT !.pc = "failed"] /\ SenderWrites(<<>>)
           [] h.type = "ZACK" -> UNCHANGED s /\ SenderWrites(<<>>)
           [] h.type = "ZSKIP" -> Finish(s)
           [] h.type = "ZRPOS" -> Begin(h.pos)
           [] h.type = "ZCRC" ->
                /\ s' = [s EXCEPT !.pc = "crc"]
                /\ SenderWrites(<<[Hdr("ZCRC", 0) EXCEPT !.data = Check(File, h.pos)]>>)
           [] OTHER -> ResendZFile
  BY DEF FileAnswer, SenderReads
<1>2. /\ h \in Items /\ toS' \in Seq(Items) /\ Behind(toS', toS)
      /\ h.type = "ZRPOS" => AfterRpos
      /\ ~gap /\ h.type = "ZSKIP" => Finished
  BY <1>1, AnswerRead
<1> HIDE DEF h
<1>3. s \in SenderType /\ (~gap => ~s.transit) /\ h.pos \in Nat
  BY <1>1, <1>2, SenderIs DEF Items
<1>4. CASE h.type = "CAN"
  BY <1>1, <1>2, <1>3, <1>4, PlainNone, HasNone, FailStep
<1>5. CASE h.type = "ZACK"
  <2>1. s' = s /\ SenderWrites(<<>>)
    BY <1>1, <1>5
  <2>2. s' = [s EXCEPT !.pc = "file", !.tries = s.tries] /\ s.tries \in Nat
    BY <1>1, <1>3, <2>1 DEF SenderType
  <2> QED
    BY <1>2, <1>3, <2>1, <2>2, PlainNone, HasNone, WaitingStep
<1>6. CASE h.type = "ZSKIP"
  BY <1>1, <1>2, <1>3, <1>6, FinishStep
<1>7. CASE h.type = "ZRPOS"
  BY <1>1, <1>2, <1>3, <1>7, BeginStep
<1>8. CASE h.type = "ZCRC"
  <2> DEFINE x == [Hdr("ZCRC", 0) EXCEPT !.data = Check(File, h.pos)]
  <2>1. s' = [s EXCEPT !.pc = "crc"] /\ SenderWrites(<<x>>)
    BY <1>1, <1>8
  <2>2. Check(File, h.pos) \in Seq(Nat) /\ Beginning(Check(File, h.pos))
    BY <1>3, CheckBeginning
  <2>3. Hdr("ZCRC", 0) \in Items /\ Hdr("ZCRC", 0).type = "ZCRC"
    BY HeaderItem DEF Types, Hdr
  <2>4. x \in Items /\ x.type = "ZCRC" /\ x.data = Check(File, h.pos)
    BY <2>2, <2>3 DEF Items
  <2> HIDE DEF x
  <2>5. Plain(x)
    BY <2>2, <2>4 DEF Plain
  <2>6. AllPlain(<<x>>) /\ ~Has(<<x>>, "ZFIN")
    BY <2>4, <2>5, PlainOne, HasOne
  <2>7. s' = [s EXCEPT !.pc = "crc", !.tries = s.tries] /\ s.tries \in Nat
    BY <1>3, <2>1 DEF SenderType
  <2> QED
    BY <1>2, <1>3, <2>1, <2>6, <2>7, WaitingStep
<1>9. CASE h.type \notin {"CAN", "ZACK", "ZSKIP", "ZRPOS", "ZCRC"}
  <2>1. ResendZFile
    BY <1>1, <1>9
  <2> QED
    BY <1>2, <1>3, <2>1, ResendZFileStep
<1> QED
  BY <1>4, <1>5, <1>6, <1>7, <1>8, <1>9

\* After a ZCRC only a ZRPOS makes the sender send data.
LEMMA CrcSentStep == ASSUME IInv, CrcSent PROVE IInv'
<1> DEFINE h == Received(toS)
<1>1. /\ s.pc = "crc" /\ toS' = AfterHeader(toS)
      /\ CASE h.type = "ZRPOS" -> Begin(h.pos)
           [] h.type = "CAN" ->
                /\ s' = [s EXCEPT !.pc = "failed"]
                /\ SenderWrites(IF s.tries < MaxErrors THEN ZFileFrame ELSE <<>>)
           [] OTHER -> ResendZFile
  BY DEF CrcSent, SenderReads
<1>2. /\ h \in Items /\ toS' \in Seq(Items) /\ Behind(toS', toS)
      /\ h.type = "ZRPOS" => AfterRpos
  BY <1>1, AnswerRead
<1> HIDE DEF h
<1>3. s \in SenderType /\ (~gap => ~s.transit) /\ h.pos \in Nat
  BY <1>1, <1>2, SenderIs DEF Items
<1>4. CASE h.type = "ZRPOS"
  BY <1>1, <1>2, <1>3, <1>4, BeginStep
<1>5. CASE h.type = "CAN"
  <2> DEFINE what == IF s.tries < MaxErrors THEN ZFileFrame ELSE <<>>
  <2>1. s' = [s EXCEPT !.pc = "failed"] /\ SenderWrites(what)
    BY <1>1, <1>5
  <2>2. AllPlain(what) /\ ~Has(what, "ZFIN")
    BY ZFileFramePlain, PlainNone, HasNone
  <2> HIDE DEF what
  <2> QED
    BY <1>2, <1>3, <2>1, <2>2, FailStep
<1>6. CASE h.type \notin {"CAN", "ZRPOS"}
  <2>1. ResendZFile
    BY <1>1, <1>6
  <2> QED
    BY <1>2, <1>3, <2>1, ResendZFileStep
<1> QED
  BY <1>4, <1>5, <1>6

-----------------------------------------------------------------------------
(* The steps of the sender that send data.                                 *)

\* The header of a frame, unless the sender is in one.
FrameHead == IF s.transit THEN <<>> ELSE <<Hdr("ZDATA", s.cur)>>

\* What is written in transit, for a sender at cur afterwards, or in no frame.
Fits(what, transit, cur) ==
    /\ what \in Seq(Items) /\ (Has(what, "ZFIN") => Finished)
    /\ \A i \in 1 .. Len(what) : HeaderOK(what[i])
    /\ \A L \in Seq(Items) :
          InOrder(L, s.transit, s.cur) => InOrder(L \o what, transit, cur)

\* It puts the sender in transit at its place.
LEMMA FrameHeadFits == ASSUME IInv PROVE Fits(FrameHead, TRUE, s.cur)
<1>1. s.transit \in BOOLEAN /\ s.cur \in Place /\ s.cur \in Nat
  BY SenderIs, FileIs DEF SenderType, Place
<1>2. CASE s.transit
  <2>1. FrameHead = <<>>
    BY <1>2 DEF FrameHead
  <2>2. <<>> \in Seq(Items) /\ Len(<<>>) = 0
    BY EmptySeq
  <2>3. \A L \in Seq(Items) : L \o <<>> = L
    BY ConcatEmptySeq
  <2>4. s.transit = TRUE
    BY <1>1, <1>2
  <2>5. \A i \in 1 .. Len(<<>>) : HeaderOK(<<>>[i])
    BY <2>2
  <2>6. \A L \in Seq(Items) :
           InOrder(L, s.transit, s.cur) => InOrder(L \o <<>>, TRUE, s.cur)
    BY <2>3, <2>4
  <2>7. Fits(<<>>, TRUE, s.cur)
    BY <2>2, <2>5, <2>6, HasNone DEF Fits
  <2> QED
    BY <2>1, <2>7
<1>3. CASE ~s.transit
  <2> DEFINE x == Hdr("ZDATA", s.cur)
  <2>1. FrameHead = <<x>>
    BY <1>3 DEF FrameHead
  <2>2. x \in Items
    BY <1>1, HeaderItem DEF Types
  <2>3. x.type = "ZDATA" /\ x.pos = s.cur
    BY DEF Hdr
  <2> HIDE DEF x
  <2>4. <<x>> \in Seq(Items) /\ Len(<<x>>) = 1 /\ <<x>>[1] = x
    BY <2>2
  <2>5. HeaderOK(x) /\ ~Noise(x) /\ \A p \in Place : EndsAt(x, p) => TRUE /\ s.cur = p
    BY <2>3 DEF HeaderOK, Noise, EndsAt
  <2>6. \A i \in 1 .. Len(<<x>>) : HeaderOK(<<x>>[i])
    BY <2>4, <2>5
  <2>7. ~Has(<<x>>, "ZFIN")
    BY <2>3, HasOne
  <2>8. ASSUME NEW L \in Seq(Items), InOrder(L, s.transit, s.cur)
        PROVE  InOrder(L \o <<x>>, TRUE, s.cur)
    BY <1>3, <2>2, <2>5, <2>8, InOrderWrite
  <2> QED
    BY <2>1, <2>4, <2>6, <2>7, <2>8 DEF Fits
<1> QED
  BY <1>2, <1>3

\* A subpacket is written after it, and then what needs no place.
LEMMA FitsThen ==
  ASSUME NEW what, NEW cur, Fits(what, TRUE, cur), NEW x \in Items, IsData(x),
         Carries(x, cur), NEW transit2, NEW cur2,
         Opens(x) => \A p \in Place : EndsAt(x, p) => transit2 /\ cur2 = p
  PROVE  Fits(what \o <<x>>, transit2, cur2)
<1>1. what \in Seq(Items) /\ <<x>> \in Seq(Items) /\ Len(<<x>>) = 1 /\ <<x>>[1] = x
  BY DEF Fits
<1>2. what \o <<x>> \in Seq(Items)
  BY <1>1, ConcatProperties
<1>3. x.type \in {"ZCRCG", "ZCRCE", "ZCRCW"}
  BY DEF IsData
<1>4. Has(what \o <<x>>, "ZFIN") => Finished
  BY <1>1, <1>3, HasConcat, HasOne DEF Fits
<1>5. HeaderOK(x)
  BY <1>3 DEF HeaderOK
<1>6. \A i \in 1 .. Len(what \o <<x>>) : HeaderOK((what \o <<x>>)[i])
  <2>1. \A i \in 1 .. Len(<<x>>) : <<x>>[i] = x
    BY <1>1
  <2> QED
    BY <1>1, <1>5, <2>1, EachConcat DEF Fits
<1>7. ASSUME NEW L \in Seq(Items), InOrder(L, s.transit, s.cur)
      PROVE  InOrder(L \o (what \o <<x>>), transit2, cur2)
  <2>1. InOrder(L \o what, TRUE, cur)
    BY <1>7 DEF Fits
  <2>2. L \o what \in Seq(Items)
    BY <1>1, ConcatProperties
  <2>3. ~Noise(x)
    BY <1>3 DEF Noise
  <2>4. InOrder((L \o what) \o <<x>>, transit2, cur2)
    BY <2>1, <2>2, <2>3, InOrderWrite
  <2>5. (L \o what) \o <<x>> = L \o (what \o <<x>>)
    BY <1>1, ConcatAssociative
  <2> QED
    BY <2>4, <2>5
<1> QED
  BY <1>2, <1>4, <1>6, <1>7 DEF Fits

\* A header that needs no place is written after the last subpacket.
LEMMA FitsIdle ==
  ASSUME NEW what, NEW cur, Fits(what, FALSE, cur), NEW x \in Items, ~IsData(x),
         x.type # "ZDATA", x.type = "ZFIN" => Finished, HeaderOK(x),
         NEW transit2, NEW cur2
  PROVE  Fits(what \o <<x>>, transit2, cur2)
<1>1. what \in Seq(Items) /\ <<x>> \in Seq(Items) /\ Len(<<x>>) = 1 /\ <<x>>[1] = x
  BY DEF Fits
<1>2. what \o <<x>> \in Seq(Items)
  BY <1>1, ConcatProperties
<1>3. Has(what \o <<x>>, "ZFIN") => Finished
  BY <1>1, HasConcat, HasOne DEF Fits
<1>4. \A i \in 1 .. Len(<<x>>) : <<x>>[i] = x
  BY <1>1
<1>5. \A i \in 1 .. Len(what \o <<x>>) : HeaderOK((what \o <<x>>)[i])
  BY <1>1, <1>4, EachConcat DEF Fits
<1>6. ASSUME NEW L \in Seq(Items), InOrder(L, s.transit, s.cur)
      PROVE  InOrder(L \o (what \o <<x>>), transit2, cur2)
  <2>1. InOrder(L \o what, FALSE, cur)
    BY <1>6 DEF Fits
  <2>2. L \o what \in Seq(Items)
    BY <1>1, ConcatProperties
  <2>3. \A i \in 1 .. Len(<<x>>) : ~Opens(<<x>>[i])
    BY <1>4 DEF Opens, IsData
  <2>4. InOrder((L \o what) \o <<x>>, transit2, cur2)
    BY <1>1, <2>1, <2>2, <2>3, InOrderIdle
  <2>5. (L \o what) \o <<x>> = L \o (what \o <<x>>)
    BY <1>1, ConcatAssociative
  <2> QED
    BY <2>4, <2>5
<1> QED
  BY <1>2, <1>3, <1>5, <1>6 DEF Fits

\* Writing nothing fits a sender that is not in transit.
LEMMA FitsNothing == ASSUME NEW cur PROVE ~s.transit => Fits(<<>>, s.transit, cur)
<1>1. <<>> \in Seq(Items) /\ Len(<<>>) = 0
  BY EmptySeq
<1>2. \A L \in Seq(Items) : L \o <<>> = L
  BY ConcatEmptySeq
<1>3. ASSUME ~s.transit, NEW L \in Seq(Items), InOrder(L, s.transit, s.cur)
      PROVE  InOrder(L, s.transit, cur)
  BY <1>3, InOrderSender
<1> QED
  BY <1>1, <1>2, <1>3, HasNone DEF Fits

\* The units from place a + 1 to place a + n.
LEMMA SliceIs ==
  ASSUME NEW f \in Seq(Nat), NEW a \in Nat, NEW n \in Nat, a + n <= Len(f)
  PROVE  /\ SubSeq(f, a + 1, a + n) \in Seq(Nat)
         /\ Len(SubSeq(f, a + 1, a + n)) = n
         /\ \A k \in 1 .. n : SubSeq(f, a + 1, a + n)[k] = f[a + k]
<1> DEFINE g == SubSeq(f, a + 1, a + n)
<1>1. Len(f) \in Nat
  BY LenProperties
<1>2. \A k \in a + 1 .. a + n : f[k] \in Nat
  <2>1. \A k \in a + 1 .. a + n : k \in 1 .. Len(f)
    BY <1>1
  <2> QED
    BY <2>1, ElementOfSeq
<1>3. a + 1 \in Int /\ a + n \in Int
  OBVIOUS
<1>4. /\ g \in Seq(Nat)
      /\ Len(g) = IF a + 1 <= a + n THEN (a + n) - (a + 1) + 1 ELSE 0
      /\ \A k \in 1 .. (a + n) - (a + 1) + 1 : g[k] = f[(a + 1) + k - 1]
  BY <1>2, <1>3, SubSeqProperties
<1> HIDE DEF g
<1>5. Len(g) = n
  BY <1>4
<1>6. (a + n) - (a + 1) + 1 = n /\ \A k \in 1 .. n : (a + 1) + k - 1 = a + k
  OBVIOUS
<1>7. \A k \in 1 .. n : g[k] = f[a + k]
  BY <1>4, <1>6
<1> QED
  BY <1>4, <1>5, <1>7 DEF g

\* The sender after a subpacket.
LEMMA SentType ==
  ASSUME s \in SenderType, NEW cur \in Place, NEW transit \in BOOLEAN, NEW unacked \in Nat,
         NEW pc \in {"ack", "eof", "poll"},
         s' = [s EXCEPT !.cur = cur, !.first = FALSE, !.transit = transit,
                        !.unacked = unacked, !.pc = pc]
  PROVE  /\ s' \in SenderType /\ s'.transit = transit /\ s'.cur = cur
         /\ s'.success = s.success /\ s'.pc = pc
BY DEF SenderType, SenderStates

\* The subpacket holds the units for the place of the sender.
LEMMA SendBlockStep == ASSUME IInv, SendBlock PROVE IInv'
<1> DEFINE left == Len(File) - s.cur
           n    == IF left < s.block THEN left ELSE s.block
           kind == BlockKind(n)
           end  == s.cur + n
           x    == Subpacket(kind, SubSeq(File, s.cur + 1, end))
           eof  == IF kind = "ZCRCE" THEN <<Hdr("ZEOF", end)>> ELSE <<>>
<1>1. /\ s.pc = "send" /\ toS' = toS
      /\ s' = [s EXCEPT
                     !.cur = end, !.first = FALSE, !.transit = kind = "ZCRCG",
                     !.unacked = IF kind = "ZCRCW" THEN n ELSE @ + n,
                     !.pc = CASE kind = "ZCRCW" -> "ack"
                              [] kind = "ZCRCE" -> "eof"
                              [] kind = "ZCRCG" -> "poll"]
      /\ SenderWrites(FrameHead \o <<x>> \o eof)
  BY DEF SendBlock, FrameHead
<1>2. /\ File \in Seq(Nat) /\ Len(File) \in Nat
      /\ \A i, j \in 1 .. Len(File) : File[i] = File[j] => i = j
  BY FileIs
<1>3. s \in SenderType /\ s.cur \in Nat /\ s.cur <= Len(File) /\ s.block \in Nat \ {0}
      /\ s.unacked \in Nat
  BY <1>2, SenderIs DEF SenderType, Place
<1>4. /\ n \in Nat /\ end \in Nat /\ end <= Len(File)
      /\ n < s.block => end = Len(File)
      /\ n >= s.block => n > 0
  BY <1>2, <1>3
<1>5. /\ kind \in {"ZCRCE", "ZCRCG", "ZCRCW"}
      /\ kind = "ZCRCE" => n < s.block
      /\ kind = "ZCRCG" => ~(n < s.block)
  BY DEF BlockKind
<1> HIDE DEF n, kind
<1>6. /\ SubSeq(File, s.cur + 1, end) \in Seq(Nat)
      /\ Len(SubSeq(File, s.cur + 1, end)) = n
      /\ \A k \in 1 .. n : SubSeq(File, s.cur + 1, end)[k] = File[s.cur + k]
  <2>1. File \in Seq(Nat) /\ s.cur \in Nat /\ n \in Nat /\ s.cur + n <= Len(File)
    BY <1>2, <1>3, <1>4
  <2> QED
    BY <2>1, SliceIs
<1>7. /\ x \in Items /\ x.type = kind /\ x.data \in Seq(Nat)
      /\ Len(x.data) = n /\ \A k \in 1 .. n : x.data[k] = File[s.cur + k]
  <2>1. x.type = kind /\ x.data = SubSeq(File, s.cur + 1, end)
    BY DEF Subpacket
  <2>2. x \in Items
    BY <1>5, <1>6, SubpacketItem DEF Types
  <2> QED
    BY <1>6, <2>1, <2>2
<1>8. IsData(x) /\ Carries(x, s.cur)
  BY <1>4, <1>5, <1>7 DEF IsData, Carries
<1>9. CASE kind \in {"ZCRCW", "ZCRCG"}
  <2> DEFINE what == FrameHead \o <<x>>
  <2>1. SenderWrites(what)
    <3>1. eof = <<>> /\ what \in Seq(Items)
      BY <1>7, <1>9, FrameHeadFits, ConcatProperties DEF Fits
    <3> QED
      BY <1>1, <3>1, ConcatEmptySeq
  <2>2. /\ s' \in SenderType /\ s'.cur = end /\ s'.success = s.success
        /\ \/ s'.transit = TRUE /\ s'.pc = "poll" /\ kind = "ZCRCG"
           \/ s'.transit = FALSE /\ s'.pc = "ack" /\ kind = "ZCRCW"
    <3>1. CASE kind = "ZCRCG"
      <4>1. /\ (kind = "ZCRCG") = TRUE
            /\ (IF kind = "ZCRCW" THEN n ELSE s.unacked + n) = s.unacked + n
            /\ (CASE kind = "ZCRCW" -> "ack" [] kind = "ZCRCE" -> "eof"
                  [] kind = "ZCRCG" -> "poll") = "poll"
        BY <3>1
      <4>2. s' = [s EXCEPT !.cur = end, !.first = FALSE, !.transit = TRUE,
                           !.unacked = s.unacked + n, !.pc = "poll"]
        BY <1>1, <4>1
      <4>3. end \in Place /\ s.unacked + n \in Nat
        BY <1>2, <1>3, <1>4 DEF Place
      <4> QED
        BY <1>3, <3>1, <4>2, <4>3, SentType
    <3>2. CASE kind = "ZCRCW"
      <4>1. /\ (kind = "ZCRCG") = FALSE
            /\ (IF kind = "ZCRCW" THEN n ELSE s.unacked + n) = n
            /\ (CASE kind = "ZCRCW" -> "ack" [] kind = "ZCRCE" -> "eof"
                  [] kind = "ZCRCG" -> "poll") = "ack"
        BY <3>2
      <4>2. s' = [s EXCEPT !.cur = end, !.first = FALSE, !.transit = FALSE,
                           !.unacked = n, !.pc = "ack"]
        BY <1>1, <4>1
      <4>3. end \in Place
        BY <1>2, <1>4 DEF Place
      <4> QED
        BY <1>3, <1>4, <3>2, <4>2, <4>3, SentType
    <3> QED
      BY <1>9, <3>1, <3>2
  <2>3. ASSUME Opens(x), NEW p \in Place, EndsAt(x, p)
        PROVE  s'.transit /\ s'.cur = p
    <3>1. kind = "ZCRCG" /\ n > 0
      BY <1>4, <1>5, <1>7, <1>9, <1>3, <2>3 DEF Opens
    <3>2. n <= p /\ Carries(x, p - n)
      BY <1>7, <2>3, <3>1 DEF EndsAt
    <3>3. p \in Nat /\ p <= Len(File) /\ x.data[n] = File[(p - n) + n]
      BY <1>2, <1>4, <1>7, <3>1, <3>2 DEF Carries, Place
    <3>4. x.data[n] = File[s.cur + n]
      BY <1>4, <1>7, <3>1
    <3>5. (p - n) + n = p /\ p \in 1 .. Len(File) /\ s.cur + n \in 1 .. Len(File)
      BY <1>2, <1>3, <1>4, <3>1, <3>2, <3>3
    <3>6. p = s.cur + n
      BY <1>2, <3>3, <3>4, <3>5
    <3> QED
      BY <2>2, <3>1, <3>6
  <2>4. Fits(what, s'.transit, s'.cur)
    BY <1>7, <1>8, <2>3, FrameHeadFits, FitsThen
  <2> HIDE DEF what
  <2>5. ~gap => SenderFacts(what)
    <3>1. ~gap => (Believes' => Finished)
      BY <2>2, SenderIs DEF Believes
    <3>2. Streaming /\ TransitOK'
      BY <1>1, <2>2 DEF Streaming, TransitOK
    <3> QED
      BY <2>4, <3>1, <3>2 DEF Fits, SenderFacts
  <2> QED
    BY <1>1, <2>1, <2>2, <2>4, <2>5, SenderIs, SenderStep DEF Fits
<1>10. CASE kind = "ZCRCE"
  <2> DEFINE y == Hdr("ZEOF", end)
             what == FrameHead \o <<x>> \o <<y>>
  <2>1. SenderWrites(what)
    BY <1>1, <1>10
  <2>2. s' \in SenderType /\ s'.transit = FALSE /\ s'.cur = end
        /\ s'.success = s.success /\ s'.pc = "eof"
    <3>1. /\ (kind = "ZCRCG") = FALSE
          /\ (IF kind = "ZCRCW" THEN n ELSE s.unacked + n) = s.unacked + n
          /\ (CASE kind = "ZCRCW" -> "ack" [] kind = "ZCRCE" -> "eof"
                [] kind = "ZCRCG" -> "poll") = "eof"
      BY <1>10
    <3>2. s' = [s EXCEPT !.cur = end, !.first = FALSE, !.transit = FALSE,
                         !.unacked = s.unacked + n, !.pc = "eof"]
      BY <1>1, <3>1
    <3>3. end \in Place /\ s.unacked + n \in Nat
      BY <1>2, <1>3, <1>4 DEF Place
    <3> QED
      BY <1>3, <3>2, <3>3, SentType
  <2>3. Fits(FrameHead \o <<x>>, FALSE, s.cur)
    BY <1>7, <1>8, <1>10, FrameHeadFits, FitsThen DEF Opens
  <2>4. y \in Items /\ y.type = "ZEOF" /\ y.pos = Len(File)
    BY <1>4, <1>5, <1>10, HeaderItem DEF Types, Hdr
  <2> HIDE DEF y
  <2>5. Fits(what, s'.transit, s'.cur)
    BY <2>3, <2>4, FitsIdle DEF HeaderOK, IsData
  <2> HIDE DEF what
  <2>6. ~gap => SenderFacts(what)
    BY <1>1, <2>2, <2>5, SenderIs DEF Fits, SenderFacts, Believes, Streaming, TransitOK
  <2> QED
    BY <1>1, <2>1, <2>2, <2>5, <2>6, SenderIs, SenderStep DEF Fits
<1> QED
  BY <1>5, <1>9, <1>10

\* A sender that is not in transit may be anywhere.
LEMMA FitsAnywhere ==
  ASSUME NEW what, NEW cur, NEW cur2, Fits(what, FALSE, cur) PROVE Fits(what, FALSE, cur2)
<1>1. \A L \in Seq(Items) :
         InOrder(L \o what, FALSE, cur) => InOrder(L \o what, FALSE, cur2)
  BY InOrderSender
<1> QED
  BY <1>1 DEF Fits

\* A step of a sender that has sent data, out of its frame.
LEMMA StreamingStep ==
  ASSUME IInv, Streaming, NEW what \in Seq(Items), SenderWrites(what), s' \in SenderType,
         toS' \in Seq(Items), Behind(toS', toS), NEW cur,
         ~gap => /\ Fits(what, FALSE, cur) /\ s'.transit = FALSE
                 /\ Believes' => Finished
  PROVE  IInv'
<1>1. ASSUME ~gap PROVE SenderFacts(what)
  <2>1. Fits(what, FALSE, s'.cur)
    BY <1>1, FitsAnywhere
  <2> QED
    BY <1>1, <2>1 DEF Fits, SenderFacts, TransitOK
<1> QED
  BY <1>1, SenderStep

\* What send_file does with what send_from has returned.
LEMMA ReturnedStep ==
  ASSUME IInv, Streaming, NEW t \in SenderType, NEW h \in Items, NEW what \in Seq(Items),
         Returned(t, h, what), toS' \in Seq(Items), Behind(toS', toS),
         ~gap => /\ Fits(what, FALSE, s.cur) /\ t.transit = FALSE /\ t.success = s.success
                 /\ h.type \in {"ZSKIP", "ZRINIT"} => Finished
  PROVE  IInv'
<1>1. ~gap /\ s.success => Finished
  BY SenderIs DEF Believes
<1>2. CASE h.type \in {"ZFERR", "ZABORT", "CAN"}
  <2>1. s' = [t EXCEPT !.pc = "failed"] /\ SenderWrites(what)
    BY <1>2 DEF Returned, Successful
  <2>2. s' \in SenderType /\ s'.pc = "failed" /\ s'.transit = t.transit
        /\ s'.success = t.success
    BY <2>1 DEF SenderType, SenderStates
  <2> QED
    BY <1>1, <2>1, <2>2, StreamingStep DEF Believes
<1>3. CASE h.type = "ZSKIP"
  <2>1. s' = [t EXCEPT !.pc = "skip"] /\ SenderWrites(what)
    BY <1>3 DEF Returned, Successful
  <2>2. s' \in SenderType /\ s'.transit = t.transit
    BY <2>1 DEF SenderType, SenderStates
  <2> QED
    BY <1>3, <2>1, <2>2, StreamingStep
<1>4. CASE h.type = "ZRINIT"
  <2> DEFINE x == Hdr("ZFIN", 0)
  <2>1. s' = [t EXCEPT !.pc = "zfin", !.tries = 0, !.success = TRUE]
        /\ SenderWrites(what \o <<x>>)
    BY <1>4 DEF Returned, Successful
  <2>2. s' \in SenderType /\ s'.transit = t.transit
    BY <2>1 DEF SenderType, SenderStates
  <2>3. x \in Items /\ x.type = "ZFIN"
    BY HeaderItem DEF Types, Hdr
  <2> HIDE DEF x
  <2>4. HeaderOK(x) /\ ~IsData(x)
    BY <2>3 DEF HeaderOK, IsData
  <2>5. ~gap => Fits(what \o <<x>>, FALSE, s.cur) /\ Finished
    BY <1>4, <2>3, <2>4, FitsIdle
  <2>6. what \o <<x>> \in Seq(Items)
    BY <2>3, ConcatProperties
  <2> QED
    BY <2>1, <2>2, <2>5, <2>6, StreamingStep
<1>5. CASE h.type = "ZACK" /\ h.pos = t.cur
  <2>1. s' = SendFrom(t, t.cur) /\ SenderWrites(what)
    BY <1>5 DEF Returned, Successful
  <2>2. s' \in SenderType /\ s'.pc = "send" /\ s'.transit = t.transit
        /\ s'.success = t.success
    BY <2>1 DEF SenderType, SenderStates, SendFrom
  <2> QED
    BY <1>1, <2>1, <2>2, StreamingStep DEF Believes
<1>6. CASE /\ h.type \notin {"ZFERR", "ZABORT", "CAN", "ZSKIP", "ZRINIT"}
           /\ ~(h.type = "ZACK" /\ h.pos = t.cur)
  <2>1. Retreat(t, h) = s' /\ SenderWrites(what)
    BY <1>6 DEF Returned, Successful
  <2> DEFINE u == [t EXCEPT !.errors = @ + 1, !.block = Halved(@)]
  <2>2. PICK b \in Nat \ {0} : b = Halved(t.block)
    BY DEF SenderType, Halved
  <2>3. u \in SenderType /\ u.transit = t.transit /\ u.success = t.success
    <3>1. u = [t EXCEPT !.errors = t.errors + 1, !.block = b] /\ t.errors + 1 \in Nat
      BY <2>2 DEF SenderType
    <3> HIDE DEF u
    <3> QED
      BY <3>1 DEF SenderType
  <2>4. Asked(t, h) \in Nat /\ Len(File) \in Nat
    BY FileIs DEF Asked, SenderType, Place, Items
  <2>5. s' = IF u.errors > MaxErrors \/ Asked(t, h) > Len(File)
               THEN [u EXCEPT !.pc = "failed"] ELSE SendFrom(u, Asked(t, h))
    BY <2>1 DEF Retreat
  <2> HIDE DEF u
  <2>6. s' \in SenderType /\ s'.pc \in {"failed", "send"} /\ s'.transit = u.transit
        /\ s'.success = u.success
    <3>1. CASE s' = [u EXCEPT !.pc = "failed"]
      BY <2>3, <3>1 DEF SenderType, SenderStates
    <3>2. CASE ~(Asked(t, h) > Len(File)) /\ s' = SendFrom(u, Asked(t, h))
      <4>1. Asked(t, h) \in Place
        BY <2>4, <3>2 DEF Place
      <4> QED
        BY <2>3, <3>2, <4>1 DEF SenderType, SenderStates, SendFrom
    <3> QED
      BY <2>5, <3>1, <3>2
  <2> QED
    BY <1>1, <2>1, <2>3, <2>6, StreamingStep DEF Believes
<1> QED
  BY <1>2, <1>3, <1>4, <1>5, <1>6

\* A sender that waits is not in transit.
LEMMA FitsNoFrame ==
  ASSUME IInv, s.pc \notin {"send", "poll", "failed"}
  PROVE  ~gap => Fits(<<>>, FALSE, s.cur) /\ s.transit = FALSE
<1> SUFFICES ASSUME ~gap PROVE Fits(<<>>, FALSE, s.cur) /\ s.transit = FALSE
  OBVIOUS
<1>1. s.transit = FALSE
  BY SenderIs DEF SenderType
<1>2. Fits(<<>>, s.transit, s.cur)
  BY <1>1, FitsNothing
<1> QED
  BY <1>1, <1>2

\* A ZRINIT instead of the acknowledgement ends the file: it must be true.
LEMMA AckAnswerStep == ASSUME IInv, AckAnswer PROVE IInv'
<1> DEFINE h == Received(toS)
<1>1. /\ s.pc = "ack" /\ toS' = AfterHeader(toS)
      /\ IF h.type # "ZACK" THEN Returned(s, h, <<>>)
         ELSE /\ s' = [s EXCEPT !.pc = IF h.pos = s.cur THEN "poll" ELSE @]
              /\ SenderWrites(<<>>)
  BY DEF AckAnswer, SenderReads
<1>2. Streaming
  BY <1>1 DEF Streaming
<1>3. /\ h \in Items /\ toS' \in Seq(Items) /\ Behind(toS', toS)
      /\ ~gap /\ h.type = "ZSKIP" => Finished
      /\ ~gap /\ h.type = "ZRINIT" => Finished
  BY <1>1, <1>2, AnswerRead
<1> HIDE DEF h
<1>4. s \in SenderType /\ <<>> \in Seq(Items)
  BY SenderIs, EmptySeq
<1>5. ~gap => Fits(<<>>, FALSE, s.cur) /\ s.transit = FALSE
  BY <1>1, FitsNoFrame
<1>6. CASE h.type # "ZACK"
  BY <1>1, <1>2, <1>3, <1>4, <1>5, <1>6, ReturnedStep
<1>7. CASE h.type = "ZACK"
  <2>1. PICK pc \in {"poll", "ack"} : s' = [s EXCEPT !.pc = pc]
    BY <1>1, <1>7
  <2>2. s' \in SenderType /\ s'.pc = pc /\ s'.transit = s.transit /\ s'.success = s.success
    BY <1>4, <2>1 DEF SenderType, SenderStates
  <2>3. ~gap => (Believes' => Finished)
    BY <2>2, SenderIs DEF Believes
  <2> QED
    BY <1>1, <1>2, <1>3, <1>4, <1>5, <1>7, <2>2, <2>3, StreamingStep
<1> QED
  BY <1>6, <1>7

\* So must one after the end of the file, and a ZSKIP.
LEMMA LastAnswerStep == ASSUME IInv, LastAnswer PROVE IInv'
<1> DEFINE h == Received(toS)
<1>1. /\ s.pc \in {"eof", "skip"} /\ toS' = AfterHeader(toS)
      /\ CASE s.pc = "eof" -> Returned(s, h, <<>>)
           [] s.pc = "skip" /\ h.type # "CAN" -> Finish(s)
           [] OTHER -> /\ s' = [s EXCEPT !.pc = "closed", !.success = TRUE]
                       /\ SenderWrites(<<>>)
  BY DEF LastAnswer, SenderReads
<1>2. /\ h \in Items /\ toS' \in Seq(Items) /\ Behind(toS', toS)
      /\ ~gap /\ h.type = "ZSKIP" => Finished
      /\ ~gap /\ h.type = "ZRINIT" /\ Streaming => Finished
  BY <1>1, AnswerRead
<1> HIDE DEF h
<1>3. s \in SenderType /\ <<>> \in Seq(Items)
  BY SenderIs, EmptySeq
<1>4. ~gap => Fits(<<>>, FALSE, s.cur) /\ s.transit = FALSE
  BY <1>1, FitsNoFrame
<1>5. CASE s.pc = "eof"
  <2>1. Streaming /\ Returned(s, h, <<>>)
    BY <1>1, <1>5 DEF Streaming
  <2> QED
    BY <1>2, <1>3, <1>4, <2>1, ReturnedStep
<1>6. CASE s.pc = "skip"
  <2>1. ~gap => Finished
    BY <1>6, SenderIs DEF Believes
  <2>2. CASE h.type # "CAN"
    <3>1. Finish(s)
      BY <1>1, <1>6, <2>2
    <3> QED
      BY <1>2, <1>4, <2>1, <3>1, FinishStep
  <2>3. CASE h.type = "CAN"
    <3>1. s' = [s EXCEPT !.pc = "closed", !.success = TRUE] /\ SenderWrites(<<>>)
      BY <1>1, <1>6, <2>3
    <3>2. s' \in SenderType /\ s'.pc = "closed" /\ s'.transit = s.transit
      BY <1>3, <3>1 DEF SenderType, SenderStates
    <3>3. ~gap => /\ ~s.transit /\ ~s'.transit
                  /\ Believes' \/ Has(<<>>, "ZFIN") => Finished
                  /\ Streaming' => Streaming \/ AfterRpos
      BY <1>4, <2>1, <3>2 DEF Streaming
    <3> QED
      BY <1>2, <3>1, <3>2, <3>3, PlainNone, PlainStep
  <2> QED
    BY <2>2, <2>3
<1> QED
  BY <1>1, <1>5, <1>6

\* A step of the sender that writes nothing.
LEMMA SilentStep ==
  ASSUME IInv, SenderWrites(<<>>), s' \in SenderType, toS' \in Seq(Items),
         Behind(toS', toS), s'.transit = s.transit, s'.cur = s.cur,
         ~gap => (Believes' => Finished) /\ (Streaming' => Streaming) /\ TransitOK'
  PROVE  IInv'
<1>1. <<>> \in Seq(Items) /\ Len(<<>>) = 0
  BY EmptySeq
<1>2. \A L \in Seq(Items) : L \o <<>> = L
  BY ConcatEmptySeq
<1>3. \A L \in Seq(Items) :
         InOrder(L, s.transit, s.cur) => InOrder(L \o <<>>, s'.transit, s'.cur)
  BY <1>2
<1>4. \A i \in 1 .. Len(<<>>) : HeaderOK(<<>>[i])
  BY <1>1
<1>5. ~gap => SenderFacts(<<>>)
  BY <1>3, <1>4, HasNone DEF SenderFacts
<1> QED
  BY <1>1, <1>5, SenderStep

\* A header that interrupts the frame is taken as an answer too.
LEMMA BackChannelStep == ASSUME IInv, BackChannel PROVE IInv'
<1> DEFINE h == Received(toS)
           t == [s EXCEPT !.transit = FALSE]
           x == Subpacket("ZCRCE", <<>>)
           end == FrameHead \o <<x>>
<1>1. /\ s.pc = "poll" /\ toS' = AfterHeader(toS)
      /\ IF h.type = "CAN" THEN Returned(s, h, <<>>)
         ELSE IF h.type = "INVHDR" THEN s' = t /\ SenderWrites(end)
         ELSE Returned(t, h, end)
  BY DEF BackChannel, FrameHead
<1>2. Streaming
  BY <1>1 DEF Streaming
<1>3. /\ h \in Items /\ toS' \in Seq(Items) /\ Behind(toS', toS)
      /\ ~gap /\ h.type = "ZSKIP" => Finished
      /\ ~gap /\ h.type = "ZRINIT" => Finished
  BY <1>1, <1>2, AnswerRead
<1> HIDE DEF h
<1>4. s \in SenderType /\ s.cur \in Nat /\ s.cur <= Len(File) /\ Len(File) \in Nat
  BY FileIs, SenderIs DEF SenderType, Place
<1>5. x \in Items /\ x.type = "ZCRCE" /\ x.data = <<>>
  BY FileIs, SubpacketItem DEF Types, Subpacket
<1> HIDE DEF x
<1>6. IsData(x) /\ Carries(x, s.cur) /\ ~Opens(x)
  <2>1. Len(x.data) = 0
    BY <1>5, EmptySeq
  <2>2. IsData(x)
    BY <1>5 DEF IsData
  <2>3. s.cur + Len(x.data) <= Len(File) /\ \A k \in 1 .. Len(x.data) : x.data[k] = File[s.cur + k]
    BY <1>4, <2>1
  <2> QED
    BY <1>5, <2>2, <2>3 DEF Carries, Opens
<1>7. Fits(end, FALSE, s.cur) /\ end \in Seq(Items)
  BY <1>5, <1>6, FrameHeadFits, FitsThen DEF Fits
<1> HIDE DEF end
<1>8. t \in SenderType /\ t.transit = FALSE /\ t.success = s.success /\ t.pc = "poll"
  BY <1>1, <1>4 DEF SenderType
<1>9. CASE h.type = "CAN"
  <2>1. s' = [s EXCEPT !.pc = "failed"] /\ SenderWrites(<<>>)
    BY <1>1, <1>9 DEF Returned, Successful
  <2>2. s' \in SenderType /\ s'.pc = "failed" /\ s'.transit = s.transit
        /\ s'.cur = s.cur /\ s'.success = s.success
    BY <1>4, <2>1 DEF SenderType, SenderStates
  <2>3. ~gap => (Believes' => Finished) /\ (Streaming' => Streaming) /\ TransitOK'
    BY <2>2, SenderIs DEF Believes, Streaming, TransitOK
  <2> QED
    BY <1>3, <2>1, <2>2, <2>3, SilentStep
<1>10. CASE h.type = "INVHDR"
  <2>1. s' = t /\ SenderWrites(end)
    BY <1>1, <1>10
  <2> HIDE DEF t
  <2>2. ~gap => (Believes' => Finished)
    BY <1>8, <2>1, SenderIs DEF Believes
  <2> QED
    BY <1>2, <1>3, <1>7, <1>8, <2>1, <2>2, StreamingStep
<1>11. CASE h.type \notin {"CAN", "INVHDR"}
  <2>1. Returned(t, h, end)
    BY <1>1, <1>11
  <2> HIDE DEF t
  <2> QED
    BY <1>2, <1>3, <1>7, <1>8, <2>1, ReturnedStep
<1> QED
  BY <1>9, <1>10, <1>11

\* The frame goes on where it was.
LEMMA NothingBackStep == ASSUME IInv, NothingBack PROVE IInv'
<1>1. s \in SenderType /\ s.block \in Nat \ {0} /\ MaxBlock \in Nat \ {0}
  BY SenderIs, LimitsAssumption DEF SenderType
<1>2. PICK b \in Nat \ {0} : b = IF 2 * s.block < MaxBlock THEN 2 * s.block ELSE MaxBlock
  BY <1>1
<1>3. /\ s.pc = "poll" /\ s' = [s EXCEPT !.pc = "send", !.errors = 0, !.block = b]
      /\ toS' = <<>> /\ SenderWrites(<<>>)
  BY <1>2 DEF NothingBack
<1>4. /\ s' \in SenderType /\ s'.pc = "send" /\ s'.transit = s.transit
      /\ s'.cur = s.cur /\ s'.success = s.success
  BY <1>1, <1>3 DEF SenderType, SenderStates
<1>5. toS' \in Seq(Items) /\ Behind(toS', toS)
  <2>1. Len(toS) \in Nat
    BY SenderIs, LenProperties
  <2>2. After(toS, 0) = <<>> /\ 0 \in 0 .. Len(toS)
    BY <2>1 DEF After
  <2>3. <<>> \in Seq(Items) /\ Behind(<<>>, toS)
    BY <2>2, SenderIs, AfterIs
  <2> QED
    BY <1>3, <2>3
<1>6. ~gap => (Believes' => Finished) /\ (Streaming' => Streaming) /\ TransitOK'
  BY <1>3, <1>4, SenderIs DEF Believes, Streaming, TransitOK
<1> QED
  BY <1>3, <1>4, <1>5, <1>6, SilentStep

\* The sender that closes believes what it did before.
LEMMA ZfinAnswerStep == ASSUME IInv, ZfinAnswer PROVE IInv'
<1> DEFINE h == Received(toS)
           next == IF s.tries % 2 = 0 THEN "ZABORT" ELSE "ZFIN"
<1>1. /\ s.pc = "zfin" /\ toS' = AfterHeader(toS)
      /\ \/ s' = [s EXCEPT !.pc = "closed"] /\ SenderWrites(<<OverAndOut>>)
         \/ s' = [s EXCEPT !.tries = @ + 1] /\ SenderWrites(<<Hdr(next, 0)>>)
         \/ s' = [s EXCEPT !.pc = "closed"] /\ SenderWrites(<<>>)
  BY DEF ZfinAnswer, SenderReads
<1>2. toS' \in Seq(Items) /\ Behind(toS', toS)
  BY <1>1, AnswerRead
<1>3. s \in SenderType /\ (~gap => ~s.transit /\ Finished)
  BY <1>1, SenderIs DEF Believes
<1>4. AllPlain(<<OverAndOut>>) /\ AllPlain(<<Hdr(next, 0)>>) /\ AllPlain(<<>>)
  BY PlainHeaders, PlainNone DEF OverAndOut, Types
<1>5. PICK what : AllPlain(what) /\ SenderWrites(what)
  BY <1>1, <1>4
<1>6. s' \in SenderType /\ s'.transit = s.transit /\ s'.pc \in {"zfin", "closed"}
  BY <1>1, <1>3 DEF SenderType, SenderStates
<1>7. ~gap => /\ ~s.transit /\ ~s'.transit
              /\ Believes' \/ Has(what, "ZFIN") => Finished
              /\ Streaming' => Streaming \/ AfterRpos
  BY <1>3, <1>6 DEF Streaming
<1> QED
  BY <1>2, <1>5, <1>6, <1>7, PlainStep

\* What zDownload reports changes nothing of the transfer.
LEMMA ReportStep == ASSUME IInv, Report PROVE IInv'
<1>1. PICK outcome \in {"ok", "failed", "crashed"} :
         s.pc = "closed" /\ s' = [s EXCEPT !.pc = outcome]
           /\ SenderWrites(<<>>) /\ toS' = toS
  BY DEF Report
<1>2. s \in SenderType /\ (~gap => ~s.transit /\ Finished)
  BY <1>1, SenderIs DEF Believes
<1>3. /\ s' \in SenderType /\ s'.pc = outcome /\ s'.transit = s.transit /\ s'.cur = s.cur
  BY <1>1, <1>2 DEF SenderType, SenderStates
<1>4. ~gap => (Believes' => Finished) /\ (Streaming' => Streaming) /\ TransitOK'
  BY <1>2, <1>3 DEF Streaming, TransitOK
<1> QED
  BY <1>1, <1>3, <1>4, SenderIs, SilentStep

-----------------------------------------------------------------------------
(* The steps of the receiver.                                              *)

Sends(what, types) ==
    what \in Seq(Items) /\ \A i \in 1 .. Len(what) : what[i].type \in types

\* What the receiver writes is put together from headers of these types.
LEMMA SendsIs ==
  ASSUME NEW types
  PROVE  /\ Sends(<<>>, types)
         /\ \A type \in Types \cap types : \A pos \in Nat :
               Sends(<<Hdr(type, pos)>>, types) /\ <<Hdr(type, pos)>> \in Seq(Items)
         /\ \A a, b : Sends(a, types) /\ Sends(b, types) => Sends(a \o b, types)
<1>1. Sends(<<>>, types)
  BY EmptySeq DEF Sends
<1>2. ASSUME NEW type \in Types \cap types, NEW pos \in Nat
      PROVE  Sends(<<Hdr(type, pos)>>, types) /\ <<Hdr(type, pos)>> \in Seq(Items)
  <2> DEFINE x == Hdr(type, pos)
  <2>1. x \in Items /\ x.type = type
    BY <1>2, HeaderItem DEF Hdr
  <2> HIDE DEF x
  <2>2. <<x>> \in Seq(Items) /\ Len(<<x>>) = 1 /\ <<x>>[1] = x
    BY <2>1
  <2>3. \A i \in 1 .. Len(<<x>>) : <<x>>[i] = x
    BY <2>2
  <2>4. Sends(<<x>>, types)
    BY <2>1, <2>2, <2>3 DEF Sends
  <2> QED
    BY <2>2, <2>4 DEF x
<1>3. ASSUME NEW a, NEW b, Sends(a, types), Sends(b, types) PROVE Sends(a \o b, types)
  <2>1. a \in Seq(Items) /\ b \in Seq(Items)
    BY <1>3 DEF Sends
  <2>2. a \o b \in Seq(Items)
    BY <2>1, ConcatProperties
  <2>3. \A j \in 1 .. Len(a \o b) : (a \o b)[j].type \in types
    BY <1>3, <2>1, EachConcat DEF Sends
  <2> QED
    BY <2>2, <2>3 DEF Sends
<1> QED
  BY <1>1, <1>2, <1>3

\* It has no header of another type.
LEMMA SendsHas ==
  ASSUME NEW what, NEW types, Sends(what, types), NEW type, type \notin types
  PROVE  ~Has(what, type)
BY DEF Sends, Has

\* What the invariant says to the receiver.
LEMMA ReceiverIs ==
  ASSUME IInv
  PROVE  /\ r \in ReceiverType /\ toR \in Seq(Items) /\ Behind(toR, toR)
         /\ <<>> \in Seq(Items) /\ Behind(<<>>, toR)
         /\ ~gap => ReceiverOK
<1>1. r \in ReceiverType /\ toR \in Seq(Items) /\ (gap \/ ReceiverOK)
  BY DEF IInv, Typed, Sound
<1>2. Len(toR) \in Nat /\ <<>> \in Seq(Items) /\ Len(<<>>) = 0
  BY <1>1, LenProperties, EmptySeq
<1>3. Len(toR) + 0 = Len(toR) /\ \A j \in 1 .. Len(toR) : toR[j] = toR[j + 0]
  BY <1>2
<1>4. Behind(toR, toR)
  BY <1>3 DEF Behind
<1>5. Len(<<>>) + Len(toR) = Len(toR) /\ \A j \in 1 .. Len(<<>>) : <<>>[j] = toR[j + Len(toR)]
  BY <1>2
<1>6. Behind(<<>>, toR)
  BY <1>2, <1>5 DEF Behind
<1> QED
  BY <1>1, <1>2, <1>4, <1>6

\* What the invariant says to a receiver that has read a header.
LEMMA FrameRead ==
  ASSUME IInv
  PROVE  /\ Received(toR) \in Items
         /\ AfterHeader(toR) \in Seq(Items) /\ Behind(AfterHeader(toR), toR)
         /\ ~gap /\ Received(toR).type = "ZFIN" => Finished
         /\ ~gap => HeaderOK(Received(toR))
<1> DEFINE h == Received(toR)
<1>1. toR \in Seq(Items) /\ (gap \/ Sound)
  BY DEF IInv, Typed
<1>2. /\ h \in Items /\ AfterHeader(toR) \in Seq(Items) /\ Behind(AfterHeader(toR), toR)
      /\ h.type \notin {"TIMEOUT", "INVHDR"} => \E i \in 1 .. Len(toR) : h = toR[i]
  BY <1>1, HeaderRead
<1> HIDE DEF h
<1>3. h.type \in {"ZFIN", "ZEOF", "ZCRC"} => \E i \in 1 .. Len(toR) : h = toR[i]
  BY <1>2
<1>4. ~gap /\ h.type = "ZFIN" => Finished
  BY <1>1, <1>3 DEF Sound, SuccessOK, Has
<1>5. ASSUME ~gap PROVE HeaderOK(h)
  <2>1. CASE h.type \in {"ZFIN", "ZEOF", "ZCRC"}
    <3>1. PICK i \in 1 .. Len(toR) : h = toR[i]
      BY <1>3, <2>1
    <3> QED
      BY <1>1, <1>5, <3>1 DEF Sound, HeadersOK
  <2>2. CASE h.type \notin {"ZFIN", "ZEOF", "ZCRC"}
    BY <2>2 DEF HeaderOK
  <2> QED
    BY <2>1, <2>2
<1> QED
  BY <1>2, <1>4, <1>5 DEF h

\* A step that changes neither the file nor what is known of it.
LEMMA KeepStep ==
  ASSUME IInv, NEW what, Sends(what, {"ZNAK", "ZRINIT", "ZFIN"}), ReceiverWrites(what),
         ~gap /\ Has(what, "ZRINIT") => r.from # "frame",
         toR' \in Seq(Items), Behind(toR', toR), r' \in ReceiverType, ~ReceiverDone,
         r'.file = r.file, r'.from = r.from, r'.exists = r.exists,
         r'.skipped = r.skipped, r'.gaveUp = r.gaveUp, r'.complete = r.complete,
         r'.pc \notin {"off", "data", "crc"},
         ~gap => /\ r'.pc = "init" => r.from = "init"
                 /\ r'.pc = "frame" => r.from = "frame",
         ~gap /\ r'.pc = "ok" => r.file = File
  PROVE  IInv'
<1>1. what \in Seq(Items) /\ receiver' = receiver /\ old' = old
  BY DEF Sends, ReceiverWrites, setting
<1>2. ~Has(what, "ZSKIP") /\ ~Has(what, "ZRPOS") /\ ~Has(what, "ZACK")
  BY SendsHas
<1>3. ASSUME ~gap PROVE ReceiverFacts(what)
  <2>1. ReceiverOK /\ r \in ReceiverType
    BY <1>3, ReceiverIs
  <2>2. Finished => Finished'
    BY <1>1 DEF Finished, Batch
  <2>3. \A i \in 1 .. Len(what) : AckOK(what[i], r'.file)
    BY DEF Sends, AckOK
  <2>4. FileOK' /\ BatchOK'
    BY <1>1, <2>1 DEF ReceiverOK, FileOK, BatchOK, Batch, Beginning, ReceiverDone
  <2>5. FromOK' /\ ReportOK'
    BY <1>3, <2>1 DEF ReceiverOK, FromOK, ReportOK, ReceiverDone
  <2>6. Len(r'.file) >= Len(r.file)
    BY <2>1, LenProperties DEF ReceiverType
  <2> QED
    BY <1>2, <1>3, <2>2, <2>3, <2>4, <2>5, <2>6 DEF ReceiverFacts, ReceiverOK
<1> QED
  BY <1>1, <1>3, ReceiverStep

\* A receiver that starts has opened no file: its ZRINIT comes before any ZRPOS.
LEMMA ReceiverStartStep == ASSUME IInv, ReceiverStart PROVE IInv'
<1> DEFINE what == <<Hdr("ZRINIT", 0)>>
<1>1. /\ r.pc = "off" /\ r' = [r EXCEPT !.pc = "init", !.from = "init", !.errors = 0]
      /\ toR' \in {toR, <<>>} /\ ReceiverWrites(what)
  BY DEF ReceiverStart, EnterInit
<1>2. Sends(what, {"ZNAK", "ZRINIT", "ZFIN"})
  BY SendsIs DEF Types
<1>3. Sends(what, {"ZRINIT"}) /\ what \in Seq(Items)
  BY SendsIs DEF Types
<1>4. /\ ~Has(what, "ZSKIP") /\ ~Has(what, "ZRPOS") /\ ~Has(what, "ZACK")
  BY <1>3, SendsHas
<1> HIDE DEF what
<1>5. r \in ReceiverType /\ toR' \in Seq(Items) /\ Behind(toR', toR)
  BY <1>1, ReceiverIs
<1>6. /\ r' \in ReceiverType /\ r'.pc = "init" /\ r'.from = "init"
      /\ r'.file = r.file /\ r'.exists = r.exists /\ r'.skipped = r.skipped
      /\ r'.gaveUp = r.gaveUp /\ r'.complete = r.complete
  BY <1>1, <1>5 DEF ReceiverType, ReceiverStates
<1>7. CASE gap
  BY <1>1, <1>3, <1>5, <1>6, <1>7, ReceiverStep
<1>8. CASE ~gap
  <2>1. r.from = "init"
    BY <1>1, <1>8, ReceiverIs DEF ReceiverOK, FromOK
  <2> QED
    BY <1>1, <1>2, <1>5, <1>6, <2>1, KeepStep DEF ReceiverDone
<1> QED
  BY <1>7, <1>8

-----------------------------------------------------------------------------
(* The steps of the receiver that leave its file alone.                    *)

Quiet == {"ZNAK", "ZRINIT", "ZFIN"}

\* recv_init asks again, or gives up.
LEMMA InitAgainStep ==
  ASSUME IInv, NEW what, Sends(what, Quiet), ~gap => r.from = "init", ~ReceiverDone,
         InitAgain(what), toR' \in Seq(Items), Behind(toR', toR)
  PROVE  IInv'
<1>1. r \in ReceiverType
  BY ReceiverIs
<1>2. CASE r.errors < MaxErrors
  <2> DEFINE all == what \o <<Hdr("ZRINIT", 0)>>
  <2>1. r' = [r EXCEPT !.pc = "init", !.errors = @ + 1] /\ ReceiverWrites(all)
    BY <1>2 DEF InitAgain
  <2>2. Sends(all, {"ZNAK", "ZRINIT", "ZFIN"})
    BY SendsIs DEF Types, Quiet
  <2> HIDE DEF all
  <2>3. r.errors + 1 \in Nat /\ r' = [r EXCEPT !.pc = "init", !.errors = r.errors + 1]
    BY <1>1, <2>1 DEF ReceiverType
  <2>4. /\ r' \in ReceiverType /\ r'.pc = "init"
        /\ r'.file = r.file /\ r'.from = r.from /\ r'.exists = r.exists
        /\ r'.skipped = r.skipped /\ r'.gaveUp = r.gaveUp /\ r'.complete = r.complete
    BY <1>1, <2>3 DEF ReceiverType, ReceiverStates
  <2> QED
    BY <2>1, <2>2, <2>4, KeepStep
<1>3. CASE ~(r.errors < MaxErrors)
  <2>1. PICK pc \in {"oo", "failed"} : r' = [r EXCEPT !.pc = pc]
    BY <1>3 DEF InitAgain
  <2>2. ReceiverWrites(what)
    BY <1>3 DEF InitAgain
  <2>3. /\ r' \in ReceiverType /\ r'.pc = pc
        /\ r'.file = r.file /\ r'.from = r.from /\ r'.exists = r.exists
        /\ r'.skipped = r.skipped /\ r'.gaveUp = r.gaveUp /\ r'.complete = r.complete
    BY <1>1, <2>1 DEF ReceiverType, ReceiverStates
  <2> QED
    BY <2>2, <2>3, KeepStep DEF Quiet
<1> QED
  BY <1>2, <1>3

\* The receiver only goes elsewhere.
LEMMA MoveStep ==
  ASSUME IInv, NEW what, Sends(what, Quiet), ~Has(what, "ZRINIT"), ~ReceiverDone,
         ReceiverWrites(what), toR' \in Seq(Items), Behind(toR', toR),
         NEW pc \in {"name", "oo", "ok", "failed", "done"}, r' = [r EXCEPT !.pc = pc],
         ~gap /\ pc = "ok" => r.file = File
  PROVE  IInv'
<1>1. r \in ReceiverType
  BY ReceiverIs
<1>2. /\ r' \in ReceiverType /\ r'.pc = pc
      /\ r'.file = r.file /\ r'.from = r.from /\ r'.exists = r.exists
      /\ r'.skipped = r.skipped /\ r'.gaveUp = r.gaveUp /\ r'.complete = r.complete
  BY <1>1 DEF ReceiverType, ReceiverStates
<1> QED
  BY <1>2, KeepStep DEF Quiet

\* A cancellation of a receiver that has nothing to settle.
LEMMA CancelledStep ==
  ASSUME IInv, NEW what, Sends(what, Quiet), ~Has(what, "ZRINIT"), ~ReceiverDone,
         ReceiverWrites(what), toR' \in Seq(Items), Behind(toR', toR), r' = Cancelled(r)
  PROVE  IInv'
<1>1. PICK pc \in {"done", "failed"} : r' = [r EXCEPT !.pc = pc]
  BY DEF Cancelled
<1> QED
  BY <1>1, MoveStep

\* What is written before the file is opened.
LEMMA QuietLines ==
  /\ Sends(<<>>, Quiet) /\ ~Has(<<>>, "ZRINIT")
  /\ Sends(<<Hdr("ZNAK", 0)>>, Quiet) /\ ~Has(<<Hdr("ZNAK", 0)>>, "ZRINIT")
  /\ Sends(<<Hdr("ZFIN", 0)>>, Quiet) /\ ~Has(<<Hdr("ZFIN", 0)>>, "ZRINIT")
<1>1. /\ Sends(<<>>, Quiet)
      /\ Sends(<<Hdr("ZNAK", 0)>>, Quiet) /\ Sends(<<Hdr("ZFIN", 0)>>, Quiet)
  BY SendsIs DEF Quiet, Types
<1>2. /\ ~Has(<<>>, "ZRINIT")
      /\ ~Has(<<Hdr("ZNAK", 0)>>, "ZRINIT") /\ ~Has(<<Hdr("ZFIN", 0)>>, "ZRINIT")
  BY HasNone, HasOne DEF Hdr
<1> QED
  BY <1>1, <1>2

\* A ZFIN before the file means that the receiver of a batch has finished.
LEMMA InitAnswerStep == ASSUME IInv, InitAnswer PROVE IInv'
<1> DEFINE h == Received(toR)
<1>1. r.pc = "init" /\ toR' = AfterHeader(toR)
  BY DEF InitAnswer, ReceiverTakes
<1>2. /\ toR' \in Seq(Items) /\ Behind(toR', toR)
      /\ ~gap /\ h.type = "ZFIN" => Finished
  BY <1>1, FrameRead
<1>3. ~ReceiverDone
  BY <1>1 DEF ReceiverDone
<1> HIDE DEF h
<1>4. CASE h.type = "ZFILE"
  <2>1. r' = [r EXCEPT !.pc = "name"] /\ ReceiverWrites(<<>>)
    BY <1>4 DEF InitAnswer, h
  <2> QED
    BY <1>2, <1>3, <2>1, QuietLines, MoveStep
<1>5. CASE h.type = "ZFIN"
  <2>1. /\ r' = [r EXCEPT !.pc = IF Batch THEN "oo" ELSE "ok"]
        /\ ReceiverWrites(<<Hdr("ZFIN", 0)>>)
    BY <1>5 DEF InitAnswer, h
  <2>2. ~gap /\ ~Batch => FALSE
    BY <1>2, <1>5, ReceiverIs DEF ReceiverOK, BatchOK, Finished
  <2>3. CASE Batch
    BY <1>2, <1>3, <2>1, <2>3, QuietLines, MoveStep
  <2>4. CASE ~Batch
    BY <1>2, <1>3, <2>1, <2>2, <2>4, QuietLines, MoveStep
  <2> QED
    BY <2>3, <2>4
<1>6. CASE h.type = "CAN"
  <2>1. r' = Cancelled(r) /\ ReceiverWrites(<<>>)
    BY <1>6 DEF InitAnswer, h
  <2> QED
    BY <1>2, <1>3, <2>1, QuietLines, CancelledStep
<1>7. CASE h.type \notin {"ZFILE", "ZFIN", "CAN"}
  <2>1. InitAgain(<<>>)
    BY <1>7 DEF InitAnswer, h
  <2>2. ~gap => r.from = "init"
    BY <1>1, ReceiverIs DEF ReceiverOK, FromOK
  <2> QED
    BY <1>2, <1>3, <2>1, <2>2, QuietLines, InitAgainStep
<1> QED
  BY <1>4, <1>5, <1>6, <1>7

-----------------------------------------------------------------------------
(* The steps of the receiver that skip the file.                           *)

\* The file that a batch receiver skips counts as finished.
LEMMA SkippedStep ==
  ASSUME IInv, NEW what, Sends(what, {"ZNAK", "ZSKIP", "ZRINIT"}), ReceiverWrites(what),
         toR' \in Seq(Items), Behind(toR', toR), r' \in ReceiverType, ~ReceiverDone,
         ~gap => Batch /\ r.from # "frame",
         r'.file = r.file, r'.exists = r.exists, r'.skipped, r'.gaveUp = r.gaveUp,
         r'.complete = r.complete,
         ~gap => \/ r'.pc = "init" /\ r'.from = "init"
                 \/ r'.pc = "done" /\ r'.from = r.from
  PROVE  IInv'
<1>1. what \in Seq(Items) /\ receiver' = receiver /\ old' = old
  BY DEF Sends, ReceiverWrites, setting
<1>2. ~Has(what, "ZRPOS") /\ ~Has(what, "ZACK")
  BY SendsHas
<1>3. ASSUME ~gap PROVE ReceiverFacts(what)
  <2>1. ReceiverOK /\ r \in ReceiverType /\ Batch /\ Batch'
    BY <1>1, <1>3, ReceiverIs DEF Batch
  <2>2. Finished'
    BY DEF Finished
  <2>3. \A i \in 1 .. Len(what) : AckOK(what[i], r'.file)
    BY DEF Sends, AckOK
  <2>4. FileOK'
    BY <1>1, <1>3, <2>1 DEF ReceiverOK, FileOK, Beginning
  <2>5. BatchOK'
    BY <1>3, <2>1 DEF ReceiverOK, BatchOK, ReceiverDone
  <2>6. FromOK' /\ ReportOK'
    BY <1>3, <2>1 DEF ReceiverOK, FromOK, ReportOK
  <2>7. Len(r'.file) >= Len(r.file)
    BY <2>1, LenProperties DEF ReceiverType
  <2> QED
    BY <1>2, <1>3, <2>1, <2>2, <2>3, <2>4, <2>5, <2>6, <2>7
    DEF ReceiverFacts, ReceiverOK
<1> QED
  BY <1>1, <1>3, ReceiverStep

\* The file is skipped, and the next one is waited for.
LEMMA SkipStep ==
  ASSUME IInv, NEW what, Sends(what, {"ZNAK", "ZSKIP", "ZRINIT"}), Skip(what),
         toR' \in Seq(Items), Behind(toR', toR), ~ReceiverDone,
         ~gap => Batch /\ r.from # "frame"
  PROVE  IInv'
<1> DEFINE end == <<Hdr("ZSKIP", 0), Hdr("ZRINIT", 0)>>
           all == what \o end
<1>1. r' = EnterInit([r EXCEPT !.skipped = TRUE]) /\ ReceiverWrites(all)
  BY DEF Skip
<1>2. Sends(end, {"ZNAK", "ZSKIP", "ZRINIT"})
  <2> DEFINE x == Hdr("ZSKIP", 0)
             y == Hdr("ZRINIT", 0)
  <2>1. x \in Items /\ y \in Items /\ x.type = "ZSKIP" /\ y.type = "ZRINIT"
    BY HeaderItem DEF Types, Hdr
  <2> HIDE DEF x, y
  <2>2. /\ <<x, y>> \in Seq(Items)
        /\ Len(<<x, y>>) = 2 /\ <<x, y>>[1] = x /\ <<x, y>>[2] = y
    BY <2>1, HasLiteral
  <2>3. \A i \in 1 .. 2 : i = 1 \/ i = 2
    OBVIOUS
  <2>4. Sends(<<x, y>>, {"ZNAK", "ZSKIP", "ZRINIT"})
    BY <2>1, <2>2, <2>3 DEF Sends
  <2> QED
    BY <2>4 DEF x, y
<1> HIDE DEF end
<1>3. Sends(all, {"ZNAK", "ZSKIP", "ZRINIT"})
  BY <1>2, SendsIs
<1> HIDE DEF all
<1>4. r' = [r EXCEPT !.skipped = TRUE, !.pc = "init", !.from = "init", !.errors = 0]
  BY <1>1, ReceiverIs DEF EnterInit, ReceiverType
<1>5. /\ r' \in ReceiverType /\ r'.pc = "init" /\ r'.from = "init"
      /\ r'.file = r.file /\ r'.exists = r.exists /\ r'.skipped
      /\ r'.gaveUp = r.gaveUp /\ r'.complete = r.complete
  BY <1>4, ReceiverIs DEF ReceiverType, ReceiverStates
<1> QED
  BY <1>1, <1>3, <1>5, SkippedStep

\* The file is skipped on a cancellation.
LEMMA CancelSkipStep ==
  ASSUME IInv, NEW what, Sends(what, {"ZNAK", "ZSKIP", "ZRINIT"}), CancelSkip(what),
         toR' \in Seq(Items), Behind(toR', toR), ~ReceiverDone,
         ~gap => Batch /\ r.from # "frame"
  PROVE  IInv'
<1> DEFINE all == what \o <<Hdr("ZSKIP", 0)>>
<1>1. r' = Cancelled([r EXCEPT !.skipped = TRUE]) /\ ReceiverWrites(all)
  BY DEF CancelSkip
<1>2. Sends(all, {"ZNAK", "ZSKIP", "ZRINIT"})
  BY SendsIs DEF Types
<1> HIDE DEF all
<1>3. PICK pc \in {"done", "failed"} :
         r' = [r EXCEPT !.skipped = TRUE, !.pc = pc] /\ (Batch => pc = "done")
  BY <1>1, ReceiverIs DEF Cancelled, ReceiverType
<1>4. /\ r' \in ReceiverType /\ r'.pc = pc /\ r'.from = r.from
      /\ r'.file = r.file /\ r'.exists = r.exists /\ r'.skipped
      /\ r'.gaveUp = r.gaveUp /\ r'.complete = r.complete
  BY <1>3, ReceiverIs DEF ReceiverType, ReceiverStates
<1> QED
  BY <1>1, <1>2, <1>3, <1>4, SkippedStep

-----------------------------------------------------------------------------
(* The steps of the receiver that open the file or let go of it.           *)

\* A beginning of the file that is as long as the file is the file.
LEMMA WholeFile ==
  ASSUME NEW f \in Seq(Nat), Beginning(f), Len(f) = Len(File)
  PROVE  f = File
<1>1. File \in Seq(Nat) /\ \A k \in 1 .. Len(f) : f[k] = File[k]
  BY FileIs DEF Beginning
<1> QED
  BY <1>1, SeqEqual

\* What Settled does to the receiver.
LEMMA SettledIs ==
  ASSUME NEW t \in ReceiverType
  PROVE  LET u == Settled(t)
         IN /\ u \in ReceiverType /\ u.pc = t.pc /\ u.from = t.from
            /\ u.errors = t.errors /\ u.tries = t.tries /\ u.file = t.file
            /\ u.skipped = t.skipped /\ u.gaveUp = t.gaveUp
            /\ t.file # <<>> => u.exists
            /\ u.complete /\ Beginning(t.file) => t.file = File
<1>1. PICK e \in BOOLEAN, c \in BOOLEAN :
         /\ Settled(t) = [t EXCEPT !.exists = e, !.complete = c]
         /\ t.file # <<>> => e
         /\ c => Len(t.file) = Len(File)
  BY DEF Settled
<1>2. t.file \in Seq(Nat)
  BY DEF ReceiverType
<1>3. Beginning(t.file) /\ Len(t.file) = Len(File) => t.file = File
  BY <1>2, WholeFile
<1>4. /\ Settled(t) \in ReceiverType
      /\ Settled(t).pc = t.pc /\ Settled(t).from = t.from
      /\ Settled(t).errors = t.errors /\ Settled(t).tries = t.tries
      /\ Settled(t).file = t.file /\ Settled(t).skipped = t.skipped
      /\ Settled(t).gaveUp = t.gaveUp /\ Settled(t).exists = e
      /\ Settled(t).complete = c
  BY <1>1 DEF ReceiverType
<1> QED
  BY <1>1, <1>3, <1>4

\* A cancellation inside a frame: recv_files settles the file first.
LEMMA CancelFrameStep ==
  ASSUME IInv, NEW what, Sends(what, {"ZNAK"}), CancelFrame(r, what),
         toR' \in Seq(Items), Behind(toR', toR), ~ReceiverDone, ~gap => r.from = "frame"
  PROVE  IInv'
<1> DEFINE t == [r EXCEPT !.errors = @ + 1]
           u == Settled(t)
<1>1. /\ r' = Cancelled(IF Batch THEN u ELSE r)
      /\ ReceiverWrites(what) /\ what \in Seq(Items)
      /\ receiver' = receiver /\ old' = old
  BY DEF CancelFrame, Sends, ReceiverWrites, setting
<1>2. r \in ReceiverType
  BY ReceiverIs
<1>3. /\ t \in ReceiverType /\ t.pc = r.pc /\ t.from = r.from /\ t.file = r.file
      /\ t.skipped = r.skipped /\ t.gaveUp = r.gaveUp
  BY <1>2 DEF ReceiverType
<1> HIDE DEF t
<1>4. /\ u \in ReceiverType /\ u.from = r.from /\ u.file = r.file
      /\ u.skipped = r.skipped /\ u.gaveUp = r.gaveUp
      /\ r.file # <<>> => u.exists
      /\ u.complete /\ Beginning(r.file) => r.file = File
  BY <1>3, SettledIs
<1> HIDE DEF u
<1>5. /\ r' \in ReceiverType /\ r'.from = r.from /\ r'.file = r.file
      /\ r'.skipped = r.skipped /\ r'.gaveUp = r.gaveUp
      /\ Batch => /\ r'.pc = "done" /\ (r.file # <<>> => r'.exists)
                  /\ r'.complete /\ Beginning(r.file) => r.file = File
      /\ ~Batch => r'.pc = "failed" /\ r'.complete = r.complete
  <2>1. CASE Batch
    <3>1. r' = [u EXCEPT !.pc = "done"]
      BY <1>1, <2>1 DEF Cancelled
    <3>2. /\ r' \in ReceiverType /\ r'.pc = "done" /\ r'.from = u.from /\ r'.file = u.file
          /\ r'.skipped = u.skipped /\ r'.gaveUp = u.gaveUp
          /\ r'.exists = u.exists /\ r'.complete = u.complete
      BY <1>4, <3>1 DEF ReceiverType, ReceiverStates
    <3> QED
      BY <1>4, <2>1, <3>2
  <2>2. CASE ~Batch
    <3>1. r' = [r EXCEPT !.pc = "failed"]
      BY <1>1, <2>2 DEF Cancelled
    <3> QED
      BY <1>2, <2>2, <3>1 DEF ReceiverType, ReceiverStates
  <2> QED
    BY <2>1, <2>2
<1>6. ASSUME ~gap PROVE ReceiverFacts(what)
  <2>1. ReceiverOK /\ r.from = "frame" /\ Beginning(r.file) /\ Batch' = Batch
    BY <1>1, <1>6, ReceiverIs DEF ReceiverOK, FileOK, Batch
  <2>2. r'.pc \in {"done", "failed"} /\ ReceiverDone'
    BY <1>5 DEF ReceiverDone
  <2>3. ~Has(what, "ZSKIP") /\ ~Has(what, "ZRPOS") /\ ~Has(what, "ZACK") /\ ~Has(what, "ZRINIT")
    BY SendsHas
  <2>4. \A i \in 1 .. Len(what) : AckOK(what[i], r'.file)
    BY DEF Sends, AckOK
  <2>5. Finished => Finished'
    BY <1>5, <2>1 DEF Finished
  <2>6. FileOK' /\ FromOK'
    BY <1>1, <1>5, <2>1, <2>2 DEF ReceiverOK, FileOK, FromOK, Beginning
  <2>7. BatchOK' /\ ReportOK'
    BY <1>5, <2>1, <2>2 DEF ReceiverOK, BatchOK, ReportOK
  <2>8. Len(r'.file) >= Len(r.file)
    BY <1>2, <1>5, LenProperties DEF ReceiverType
  <2> QED
    BY <1>5, <2>1, <2>2, <2>3, <2>4, <2>5, <2>6, <2>7, <2>8
    DEF ReceiverFacts, ReceiverOK
<1> QED
  BY <1>1, <1>5, <1>6, ReceiverStep

\* The file is opened, or continued, and the data are asked for from its end.
LEMMA ReceiveFromStep ==
  ASSUME IInv, NEW file \in Seq(Nat), ReceiveFrom(r, file),
         toR' \in Seq(Items), Behind(toR', toR), ~ReceiverDone,
         ~gap => /\ Beginning(file) /\ ~r.complete /\ r.from # "frame"
                 /\ file = r.file \/ ~Batch
  PROVE  IInv'
<1> DEFINE what == <<Hdr("ZRPOS", Len(file))>>
<1>1. /\ r' = [r EXCEPT !.pc = "frame", !.from = "frame", !.errors = 0,
                        !.tries = 0, !.file = file, !.exists = TRUE]
      /\ ReceiverWrites(what) /\ receiver' = receiver /\ old' = old
  BY DEF ReceiveFrom, ReceiverWrites, setting
<1>2. Sends(what, {"ZRPOS"}) /\ what \in Seq(Items)
  BY SendsIs, LenProperties DEF Types
<1> HIDE DEF what
<1>3. r \in ReceiverType
  BY ReceiverIs
<1>4. /\ r' \in ReceiverType /\ r'.pc = "frame" /\ r'.from = "frame" /\ r'.file = file
      /\ r'.exists /\ r'.skipped = r.skipped /\ r'.gaveUp = r.gaveUp
      /\ r'.complete = r.complete
  BY <1>1, <1>3 DEF ReceiverType, ReceiverStates
<1>5. ASSUME ~gap PROVE ReceiverFacts(what)
  <2>1. /\ ReceiverOK /\ Beginning(file) /\ ~r.complete /\ r.from # "frame"
        /\ file = r.file \/ ~Batch
        /\ Batch' = Batch
    BY <1>1, <1>5, ReceiverIs DEF Batch
  <2>2. ~Has(what, "ZSKIP") /\ ~Has(what, "ZACK") /\ ~Has(what, "ZRINIT")
    BY <1>2, SendsHas
  <2>3. \A i \in 1 .. Len(what) : AckOK(what[i], r'.file)
    BY <1>2 DEF Sends, AckOK
  <2>4. Finished => Finished'
    BY <1>4, <2>1 DEF Finished
  <2>5. FileOK' /\ FromOK'
    BY <1>1, <1>4, <2>1 DEF FileOK, FromOK, Beginning
  <2>6. BatchOK' /\ ReportOK'
    BY <1>4, <2>1 DEF ReceiverOK, BatchOK, ReportOK
  <2>7. Len(r'.file) >= Len(r.file) \/ (~Batch /\ r.from # "frame")
    BY <1>3, <1>4, <2>1, LenProperties DEF ReceiverType
  <2> QED
    BY <1>4, <2>1, <2>2, <2>3, <2>4, <2>5, <2>6, <2>7
    DEF ReceiverFacts, ReceiverOK
<1> QED
  BY <1>1, <1>2, <1>4, <1>5, ReceiverStep

\* What recv_files does about the file that is there already.
LEMMA StartFileStep ==
  ASSUME IInv, r.pc = "name", r.from = "init", NEW rest \in Seq(Items), Behind(rest, toR),
         StartFile(rest)
  PROVE  IInv'
<1>1. /\ r \in ReceiverType /\ (~gap => ReceiverOK)
      /\ <<>> \in Seq(Items) /\ Behind(<<>>, toR)
  BY ReceiverIs
<1>2. ~ReceiverDone
  BY DEF ReceiverDone
<1>3. <<>> \in Seq(Nat) /\ Len(<<>>) = 0 /\ Len(File) \in Nat \ {0} /\ Beginning(<<>>)
  BY FileIs, EmptySeq DEF Beginning
<1>4. ~gap /\ r.complete => Batch /\ r.exists /\ Len(r.file) = Len(File)
  BY <1>1, <1>3, EmptySeq DEF ReceiverOK, BatchOK, ReportOK
<1>5. ~gap /\ Batch /\ ~r.exists => r.file = <<>>
  BY <1>1 DEF ReceiverOK, BatchOK
<1>6. CASE ~Batch \/ ~r.exists
  <2>1. ReceiveFrom(r, <<>>) /\ toR' = rest
    BY <1>6 DEF StartFile
  <2> QED
    BY <1>2, <1>3, <1>4, <1>5, <1>6, <2>1, ReceiveFromStep
<1>7. CASE Batch /\ r.exists /\ Len(r.file) >= Len(File)
  <2>1. Skip(<<>>) /\ toR' = rest
    BY <1>7 DEF StartFile
  <2>2. Sends(<<>>, {"ZNAK", "ZSKIP", "ZRINIT"})
    BY SendsIs
  <2> QED
    BY <1>2, <1>7, <2>1, <2>2, SkipStep
<1>8. CASE Batch /\ r.exists /\ ~(Len(r.file) >= Len(File))
  <2> DEFINE what == <<Hdr("ZCRC", Len(r.file))>>
  <2>1. /\ r' = [r EXCEPT !.pc = "crc", !.from = "crc"] /\ toR' = <<>>
        /\ ReceiverWrites(what) /\ receiver' = receiver /\ old' = old
    BY <1>8 DEF StartFile, ReceiverWrites, setting
  <2>2. Sends(what, {"ZCRC"}) /\ what \in Seq(Items)
    BY <1>1, SendsIs, LenProperties DEF Types, ReceiverType
  <2> HIDE DEF what
  <2>3. /\ r' \in ReceiverType /\ r'.pc = "crc" /\ r'.from = "crc" /\ r'.file = r.file
        /\ r'.exists = r.exists /\ r'.skipped = r.skipped /\ r'.gaveUp = r.gaveUp
        /\ r'.complete = r.complete
    BY <1>1, <2>1 DEF ReceiverType, ReceiverStates
  <2>4. ASSUME ~gap PROVE ReceiverFacts(what)
    <3>1. ReceiverOK /\ Batch' = Batch /\ ~r.complete
      BY <1>1, <1>3, <1>4, <1>8, <2>1, <2>4 DEF Batch
    <3>2. /\ ~Has(what, "ZSKIP") /\ ~Has(what, "ZACK") /\ ~Has(what, "ZRINIT")
          /\ ~Has(what, "ZRPOS")
      BY <2>2, SendsHas
    <3>3. \A i \in 1 .. Len(what) : AckOK(what[i], r'.file)
      BY <2>2 DEF Sends, AckOK
    <3>4. Finished => Finished'
      BY <2>3, <3>1 DEF Finished
    <3>5. FileOK' /\ FromOK'
      BY <2>1, <2>3, <3>1 DEF ReceiverOK, FileOK, FromOK, Beginning
    <3>6. BatchOK' /\ ReportOK'
      BY <1>8, <2>3, <3>1 DEF ReceiverOK, BatchOK, ReportOK
    <3>7. Len(r'.file) >= Len(r.file)
      BY <1>1, <2>3, LenProperties DEF ReceiverType
    <3> QED
      BY <1>2, <1>8, <2>3, <3>1, <3>2, <3>3, <3>4, <3>5, <3>6, <3>7
      DEF ReceiverFacts, ReceiverOK
  <2> QED
    BY <1>1, <2>1, <2>2, <2>3, <2>4, ReceiverStep
<1> QED
  BY <1>6, <1>7, <1>8

\* The data of a ZFILE: they may come again inside a frame.
LEMMA NameAnswerStep == ASSUME IInv, NameAnswer PROVE IInv'
<1> DEFINE h    == ReceivedData(toR)
           good == IsData(h)
           znak == IF good THEN <<>> ELSE <<Hdr("ZNAK", 0)>>
           rest == AfterData(toR)
<1>1. r.pc = "name" /\ r \in ReceiverType /\ toR \in Seq(Items) /\ (~gap => ReceiverOK)
  BY ReceiverIs DEF NameAnswer
<1>2. ~ReceiverDone
  BY <1>1 DEF ReceiverDone
<1>3. rest \in Seq(Items) /\ Behind(rest, toR)
  BY <1>1, DataRead
<1>4. CASE good /\ r.from = "init"
  <2>1. StartFile(rest)
    BY <1>4 DEF NameAnswer
  <2> HIDE DEF h, rest
  <2> QED
    BY <1>1, <1>3, <1>4, <2>1, StartFileStep
<1>5. CASE ~(good /\ r.from = "init")
  <2>1. /\ toR' = rest
        /\ CASE r.from = "crc" -> IF h.type = "CAN" THEN CancelSkip(znak)
                                              ELSE Skip(znak)
             [] r.from = "init" ->
                  IF h.type = "CAN"
                    THEN r' = Cancelled(r) /\ ReceiverWrites(znak)
                    ELSE InitAgain(znak)
             [] r.from = "frame" ->
                  IF h.type = "CAN" THEN CancelFrame(r, znak)
                  ELSE /\ r' = [r EXCEPT !.pc = "frame", !.tries = @ + 1]
                       /\ ReceiverWrites(znak)
    BY <1>5 DEF NameAnswer
  <2>2. /\ Sends(znak, {"ZNAK"}) /\ Sends(znak, Quiet) /\ ~Has(znak, "ZRINIT")
        /\ Sends(znak, {"ZNAK", "ZSKIP", "ZRINIT"})
    BY SendsIs, QuietLines DEF Types
  <2>3. toR' \in Seq(Items) /\ Behind(toR', toR)
    BY <1>3, <2>1
  <2> HIDE DEF h, rest, znak
  <2>4. CASE r.from = "crc"
    <3>1. ~gap => Batch /\ r.from # "frame"
      BY <1>1, <2>4 DEF ReceiverOK, BatchOK
    <3>2. CancelSkip(znak) \/ Skip(znak)
      BY <2>1, <2>4
    <3> QED
      BY <1>2, <2>2, <2>3, <3>1, <3>2, CancelSkipStep, SkipStep
  <2>5. CASE r.from = "init"
    <3>1. (r' = Cancelled(r) /\ ReceiverWrites(znak)) \/ InitAgain(znak)
      BY <2>1, <2>5
    <3> QED
      BY <1>2, <2>2, <2>3, <2>5, <3>1, CancelledStep, InitAgainStep
  <2>6. CASE r.from = "frame"
    <3>1. CASE CancelFrame(r, znak)
      BY <1>2, <2>2, <2>3, <2>6, <3>1, CancelFrameStep
    <3>2. CASE ~CancelFrame(r, znak)
      <4>1. r' = [r EXCEPT !.pc = "frame", !.tries = @ + 1] /\ ReceiverWrites(znak)
        BY <2>1, <2>6, <3>2
      <4>2. /\ r.tries + 1 \in Nat
            /\ r' = [r EXCEPT !.pc = "frame", !.tries = r.tries + 1]
        BY <1>1, <4>1 DEF ReceiverType
      <4>3. /\ r' \in ReceiverType /\ r'.pc = "frame"
            /\ r'.file = r.file /\ r'.from = r.from /\ r'.exists = r.exists
            /\ r'.skipped = r.skipped /\ r'.gaveUp = r.gaveUp
            /\ r'.complete = r.complete
        BY <1>1, <4>2 DEF ReceiverType, ReceiverStates
      <4> QED
        BY <1>2, <2>2, <2>3, <2>6, <4>1, <4>3, KeepStep DEF Quiet
    <3> QED
      BY <3>1, <3>2
  <2> QED
    BY <1>1, <2>4, <2>5, <2>6 DEF ReceiverType
<1> QED
  BY <1>4, <1>5

\* The check of the file that is there is taken of all of it.
LEMMA CheckOwn ==
  ASSUME NEW f \in Seq(Nat)
  PROVE  Check(f, Len(f)) = f
<1>1. Len(f) \in Nat
  BY LenProperties
<1>2. CASE Len(f) = 0
  BY <1>2 DEF Check
<1>3. CASE Len(f) # 0
  <2>1. Check(f, Len(f)) = SubSeq(f, 1, Len(f))
    BY <1>1, <1>3 DEF Check
  <2> QED
    BY <2>1, SubSeqFull
<1> QED
  BY <1>2, <1>3

\* The file that is there is continued only if it is a beginning.
LEMMA CrcAnswerStep == ASSUME IInv, CrcAnswer PROVE IInv'
<1> DEFINE h == Received(toR)
<1>1. r.pc = "crc" /\ toR' = AfterHeader(toR)
  BY DEF CrcAnswer, ReceiverTakes
<1>2. toR' \in Seq(Items) /\ Behind(toR', toR) /\ (~gap => HeaderOK(h))
  BY <1>1, FrameRead
<1>3. r \in ReceiverType /\ ~ReceiverDone /\ r.file \in Seq(Nat)
  BY <1>1, ReceiverIs DEF ReceiverDone, ReceiverType
<1>4. ~gap => Batch /\ r.from = "crc" /\ ~r.complete
  BY <1>1, ReceiverIs DEF ReceiverOK, FromOK, BatchOK, ReportOK
<1>5. Sends(<<>>, {"ZNAK", "ZSKIP", "ZRINIT"})
  BY SendsIs
<1>6. \/ CancelSkip(<<>>) \/ Skip(<<>>)
      \/ r' = [r EXCEPT !.pc = "name"] /\ ReceiverWrites(<<>>)
      \/ /\ h.type = "ZCRC" /\ h.data = Check(r.file, Len(r.file))
         /\ ReceiveFrom(r, r.file)
  BY DEF CrcAnswer
<1> HIDE DEF h
<1>7. CASE CancelSkip(<<>>)
  BY <1>2, <1>3, <1>4, <1>5, <1>7, CancelSkipStep
<1>8. CASE Skip(<<>>)
  BY <1>2, <1>3, <1>4, <1>5, <1>8, SkipStep
<1>9. CASE r' = [r EXCEPT !.pc = "name"] /\ ReceiverWrites(<<>>)
  BY <1>2, <1>3, <1>9, QuietLines, MoveStep
<1>10. CASE /\ h.type = "ZCRC" /\ h.data = Check(r.file, Len(r.file))
            /\ ReceiveFrom(r, r.file)
  <2>1. h.data = r.file
    BY <1>3, <1>10, CheckOwn
  <2>2. ~gap => Beginning(r.file)
    BY <1>2, <1>10, <2>1 DEF HeaderOK
  <2> QED
    BY <1>2, <1>3, <1>4, <1>10, <2>2, ReceiveFromStep
<1> QED
  BY <1>6, <1>7, <1>8, <1>9, <1>10

-----------------------------------------------------------------------------
(* The steps of the receiver inside a frame.                               *)

\* A file that does not get shorter and remains a beginning stays complete.
LEMMA StaysWhole ==
  ASSUME NEW f \in Seq(Nat), NEW g \in Seq(Nat), Beginning(g), Len(g) >= Len(f), f = File
  PROVE  g = File
<1>1. Len(f) \in Nat /\ Len(g) \in Nat /\ Len(g) <= Len(File)
  BY LenProperties DEF Beginning
<1>2. Len(g) = Len(File)
  BY <1>1
<1> QED
  BY <1>2, WholeFile

\* The receiver stays in the frame, with the same file or a longer one.
LEMMA FrameStep ==
  ASSUME IInv, NEW what, Sends(what, {"ZACK", "ZFERR", "ZRPOS"}), ReceiverWrites(what),
         toR' \in Seq(Items), Behind(toR', toR), r' \in ReceiverType, ~ReceiverDone,
         r'.from = r.from, r'.exists = r.exists, r'.skipped = r.skipped,
         r'.gaveUp = r.gaveUp, r'.complete = r.complete,
         r'.pc \in {"frame", "data", "failed"},
         ~gap => /\ r.from = "frame" /\ Beginning(r'.file) /\ Len(r'.file) >= Len(r.file)
                 /\ \A i \in 1 .. Len(what) : AckOK(what[i], r'.file)
                 /\ r'.pc = "data" => InOrder(Awaited', s.transit, s.cur)
  PROVE  IInv'
<1>1. what \in Seq(Items) /\ receiver' = receiver /\ old' = old
  BY DEF Sends, ReceiverWrites, setting
<1>2. ~Has(what, "ZSKIP") /\ ~Has(what, "ZRINIT")
  BY SendsHas
<1>3. r \in ReceiverType /\ r.file \in Seq(Nat) /\ r'.file \in Seq(Nat)
  BY ReceiverIs DEF ReceiverType
<1>4. ASSUME ~gap PROVE ReceiverFacts(what)
  <2>1. ReceiverOK /\ Batch' = Batch /\ ~r.complete
    BY <1>1, <1>4, ReceiverIs DEF Batch, ReceiverOK, ReportOK, ReceiverDone
  <2>2. Finished => Finished'
    <3>1. r.file = File => r'.file = File
      BY <1>3, <1>4, StaysWhole
    <3> QED
      BY <2>1, <3>1 DEF Finished
  <2>3. FileOK' /\ FromOK'
    BY <1>1, <1>4 DEF FileOK, FromOK, Beginning
  <2>4. BatchOK' /\ ReportOK'
    BY <1>4, <2>1 DEF ReceiverOK, BatchOK, ReportOK, ReceiverDone
  <2> QED
    BY <1>2, <1>4, <2>2, <2>3, <2>4 DEF ReceiverFacts, ReceiverOK, ReceiverDone
<1> QED
  BY <1>1, <1>4, ReceiverStep

\* The file is complete when the frame at its end has come.
LEMMA FileDoneStep ==
  ASSUME IInv, FileDone, toR' \in Seq(Items), Behind(toR', toR), ~ReceiverDone,
         ~gap => r.from = "frame" /\ (Finished \/ r.file = File)
  PROVE  IInv'
<1>1. r \in ReceiverType
  BY ReceiverIs
<1>2. CASE Batch
  <2> DEFINE u == Settled(r)
             what == <<Hdr("ZRINIT", 0)>>
  <2>1. r' = EnterInit(u) /\ ReceiverWrites(what) /\ receiver' = receiver /\ old' = old
    BY <1>2 DEF FileDone, ReceiverWrites, setting
  <2>2. Sends(what, {"ZRINIT"}) /\ what \in Seq(Items)
    BY SendsIs DEF Types
  <2>3. /\ u \in ReceiverType /\ u.file = r.file
        /\ u.skipped = r.skipped /\ u.gaveUp = r.gaveUp
        /\ r.file # <<>> => u.exists
        /\ u.complete /\ Beginning(r.file) => r.file = File
    BY <1>1, SettledIs
  <2> HIDE DEF u, what
  <2>4. r' = [u EXCEPT !.pc = "init", !.from = "init", !.errors = 0]
    BY <2>1 DEF EnterInit
  <2>5. /\ r' \in ReceiverType /\ r'.pc = "init" /\ r'.from = "init" /\ r'.file = u.file
        /\ r'.skipped = u.skipped /\ r'.gaveUp = u.gaveUp
        /\ r'.exists = u.exists /\ r'.complete = u.complete
    BY <2>3, <2>4 DEF ReceiverType, ReceiverStates
  <2>6. ASSUME ~gap PROVE ReceiverFacts(what)
    <3>1. ReceiverOK /\ Batch' /\ Beginning(r.file)
      BY <1>2, <2>1, <2>6, ReceiverIs DEF Batch, ReceiverOK, FileOK
    <3>2. Finished'
      BY <1>2, <2>3, <2>5, <2>6, <3>1 DEF Finished
    <3>3. ~Has(what, "ZSKIP") /\ ~Has(what, "ZACK") /\ ~Has(what, "ZRPOS")
      BY <2>2, SendsHas
    <3>4. \A i \in 1 .. Len(what) : AckOK(what[i], r'.file)
      BY <2>2 DEF Sends, AckOK
    <3>5. FileOK' /\ FromOK'
      BY <2>1, <2>3, <2>5, <3>1 DEF ReceiverOK, FileOK, FromOK, Beginning
    <3>6. BatchOK' /\ ReportOK'
      BY <2>3, <2>5, <3>1 DEF BatchOK, ReportOK
    <3>7. Len(r'.file) >= Len(r.file)
      BY <1>1, <2>3, <2>5, LenProperties DEF ReceiverType
    <3> QED
      BY <1>2, <2>5, <3>2, <3>3, <3>4, <3>5, <3>6, <3>7 DEF ReceiverFacts, ReceiverOK
  <2> QED
    BY <2>1, <2>2, <2>5, <2>6, ReceiverStep
<1>3. CASE ~Batch
  <2>1. r' = [r EXCEPT !.pc = "ok"] /\ ReceiverWrites(<<Hdr("ZFIN", 0)>>)
    BY <1>3 DEF FileDone
  <2>2. ~gap => r.file = File
    BY <1>3, ReceiverIs DEF ReceiverOK, BatchOK, Finished
  <2> QED
    BY <2>1, <2>2, QuietLines, MoveStep
<1> QED
  BY <1>2, <1>3

\* The receiver says where it is, or gives up on the file.
LEMMA FrameFailsStep ==
  ASSUME IInv, NEW t \in ReceiverType, NEW what, Sends(what, {"ZACK", "ZFERR"}),
         FrameFails(t, what), toR' \in Seq(Items), Behind(toR', toR), ~ReceiverDone,
         t.from = r.from, t.exists = r.exists, t.skipped = r.skipped,
         t.gaveUp = r.gaveUp, t.complete = r.complete,
         ~gap => /\ r.from = "frame" /\ Beginning(t.file) /\ Len(t.file) >= Len(r.file)
                 /\ \A i \in 1 .. Len(what) : AckOK(what[i], t.file)
  PROVE  IInv'
<1> DEFINE u == OneMoreError(t)
<1>1. what \in Seq(Items) /\ t.file \in Seq(Nat)
  BY DEF Sends, ReceiverType
<1>2. /\ u \in ReceiverType /\ u.from = r.from /\ u.file = t.file
      /\ u.exists = r.exists /\ u.skipped = r.skipped
      /\ u.gaveUp = r.gaveUp /\ u.complete = r.complete
  BY DEF OneMoreError, ReceiverType
<1>3. ASSUME NEW type \in {"ZRPOS", "ZRINIT"}, NEW pos \in Nat
      PROVE  LET all == what \o <<Hdr(type, pos)>>
             IN /\ Sends(all, {"ZACK", "ZFERR", type}) /\ all \in Seq(Items)
                /\ ~gap => \A i \in 1 .. Len(all) : AckOK(all[i], t.file)
  <2> DEFINE end == <<Hdr(type, pos)>>
  <2>1. type \in Types
    BY DEF Types
  <2>2. Sends(end, {type}) /\ end \in Seq(Items)
    BY <2>1, SendsIs
  <2> HIDE DEF end
  <2>3. Sends(what, {"ZACK", "ZFERR", type}) /\ Sends(end, {"ZACK", "ZFERR", type})
    BY <2>2 DEF Sends
  <2>4. Sends(what \o end, {"ZACK", "ZFERR", type})
    BY <2>3, SendsIs
  <2>5. what \o end \in Seq(Items)
    BY <2>4 DEF Sends
  <2>6. \A i \in 1 .. Len(end) : AckOK(end[i], t.file)
    BY <2>2 DEF Sends, AckOK
  <2>7. ~gap => \A i \in 1 .. Len(what \o end) : AckOK((what \o end)[i], t.file)
    BY <1>1, <2>2, <2>6, EachConcat
  <2> QED
    BY <2>4, <2>5, <2>7 DEF end
<1>4. \/ /\ r' = [u EXCEPT !.pc = "frame", !.tries = 0]
         /\ ReceiverWrites(what \o <<Hdr("ZRPOS", Len(u.file))>>)
      \/ /\ Batch /\ r' = EnterInit([Settled(u) EXCEPT !.gaveUp = TRUE])
         /\ ReceiverWrites(what \o <<Hdr("ZRINIT", 0)>>)
      \/ r' = [u EXCEPT !.pc = "failed"] /\ ReceiverWrites(what)
  BY DEF FrameFails
<1> HIDE DEF u
<1>5. CASE /\ r' = [u EXCEPT !.pc = "frame", !.tries = 0]
           /\ ReceiverWrites(what \o <<Hdr("ZRPOS", Len(u.file))>>)
  <2> DEFINE all == what \o <<Hdr("ZRPOS", Len(u.file))>>
  <2>1. Len(u.file) \in Nat
    BY <1>1, <1>2, LenProperties
  <2>2. /\ Sends(all, {"ZACK", "ZFERR", "ZRPOS"})
        /\ ~gap => \A i \in 1 .. Len(all) : AckOK(all[i], t.file)
    BY <1>3, <2>1
  <2>3. ReceiverWrites(all)
    BY <1>5
  <2> HIDE DEF all
  <2>4. /\ r' \in ReceiverType /\ r'.pc = "frame" /\ r'.from = r.from /\ r'.file = t.file
        /\ r'.skipped = r.skipped /\ r'.gaveUp = r.gaveUp
        /\ r'.exists = r.exists /\ r'.complete = r.complete
    BY <1>2, <1>5 DEF ReceiverType, ReceiverStates
  <2> QED
    BY <2>2, <2>3, <2>4, FrameStep
<1>6. CASE /\ Batch /\ r' = EnterInit([Settled(u) EXCEPT !.gaveUp = TRUE])
           /\ ReceiverWrites(what \o <<Hdr("ZRINIT", 0)>>)
  <2> DEFINE all == what \o <<Hdr("ZRINIT", 0)>>
             v == Settled(u)
  <2>1. /\ Sends(all, {"ZACK", "ZFERR", "ZRINIT"}) /\ all \in Seq(Items)
        /\ ~gap => \A i \in 1 .. Len(all) : AckOK(all[i], t.file)
    BY <1>3
  <2>2. /\ ReceiverWrites(all) /\ receiver' = receiver /\ old' = old
        /\ r' = EnterInit([v EXCEPT !.gaveUp = TRUE])
    BY <1>6 DEF ReceiverWrites, setting
  <2> HIDE DEF all
  <2>3. /\ v \in ReceiverType /\ v.file = t.file /\ v.skipped = r.skipped
        /\ t.file # <<>> => v.exists
        /\ v.complete /\ Beginning(t.file) => t.file = File
    BY <1>2, SettledIs
  <2> HIDE DEF v
  <2>4. r' = [v EXCEPT !.gaveUp = TRUE, !.pc = "init", !.from = "init", !.errors = 0]
    BY <2>2, <2>3 DEF EnterInit, ReceiverType
  <2>5. /\ r' \in ReceiverType /\ r'.pc = "init" /\ r'.from = "init" /\ r'.file = t.file
        /\ r'.skipped = r.skipped /\ r'.gaveUp
        /\ r'.exists = v.exists /\ r'.complete = v.complete
    BY <2>3, <2>4 DEF ReceiverType, ReceiverStates
  <2>6. ASSUME ~gap PROVE ReceiverFacts(all)
    <3>1. Batch' /\ Finished'
      BY <1>6, <2>2, <2>5 DEF Batch, Finished
    <3>2. ~Has(all, "ZSKIP") /\ ~Has(all, "ZRPOS")
      BY <2>1, SendsHas
    <3>3. FileOK' /\ FromOK'
      BY <2>2, <2>5, <2>6 DEF FileOK, FromOK, Beginning
    <3>4. BatchOK' /\ ReportOK'
      BY <2>3, <2>5, <2>6, <3>1 DEF BatchOK, ReportOK
    <3> QED
      BY <1>6, <2>1, <2>5, <2>6, <3>1, <3>2, <3>3, <3>4 DEF ReceiverFacts, ReceiverOK
  <2> QED
    BY <2>1, <2>2, <2>5, <2>6, ReceiverStep
<1>7. CASE r' = [u EXCEPT !.pc = "failed"] /\ ReceiverWrites(what)
  <2>1. /\ r' \in ReceiverType /\ r'.pc = "failed" /\ r'.from = r.from /\ r'.file = t.file
        /\ r'.skipped = r.skipped /\ r'.gaveUp = r.gaveUp
        /\ r'.exists = r.exists /\ r'.complete = r.complete
    BY <1>2, <1>7 DEF ReceiverType, ReceiverStates
  <2>2. Sends(what, {"ZACK", "ZFERR", "ZRPOS"})
    BY DEF Sends
  <2> QED
    BY <1>7, <2>1, <2>2, FrameStep
<1> QED
  BY <1>4, <1>5, <1>6, <1>7

\* A frame comes to nothing before anything of it is stored.
LEMMA NothingStoredStep ==
  ASSUME IInv, FrameFails(r, <<>>), toR' \in Seq(Items), Behind(toR', toR), ~ReceiverDone,
         ~gap => r.from = "frame"
  PROVE  IInv'
<1>1. r \in ReceiverType /\ (~gap => ReceiverOK) /\ Sends(<<>>, {"ZACK", "ZFERR"})
  BY ReceiverIs, SendsIs
<1>2. ~gap => Beginning(r.file)
  BY <1>1 DEF ReceiverOK, FileOK
<1>3. Len(r.file) >= Len(r.file)
  BY <1>1, LenProperties DEF ReceiverType
<1>4. \A i \in 1 .. Len(<<>>) : AckOK(<<>>[i], r.file)
  BY EmptySeq
<1> QED
  BY <1>1, <1>2, <1>3, <1>4, FrameFailsStep

\* The attempts of a frame are used up.
LEMMA AttemptsOverStep == ASSUME IInv, AttemptsOver PROVE IInv'
<1>1. r.pc = "frame" /\ FrameFails(r, <<>>) /\ toR' = toR
  BY DEF AttemptsOver
<1>2. toR' \in Seq(Items) /\ Behind(toR', toR) /\ ~ReceiverDone
  BY <1>1, ReceiverIs DEF ReceiverDone
<1>3. ~gap => r.from = "frame"
  BY <1>1, ReceiverIs DEF ReceiverOK, FromOK
<1> QED
  BY <1>1, <1>2, <1>3, NothingStoredStep

(***************************************************************************)
(* The receiver has read what opens, and ends at p: what it waits for now  *)
(* is in order.                                                            *)
(***************************************************************************)
LEMMA FrameBegins ==
  ASSUME NEW L \in Seq(Items), NEW transit, NEW cur, InOrder(L, transit, cur),
         NEW i \in 1 .. Len(L), NEW p \in Place, Opens(L[i]), EndsAt(L[i], p),
         NEW rest \in Seq(Items), Len(rest) = Len(L) - i,
         \A j \in 1 .. Len(rest) : rest[j] = L[i + j]
  PROVE  InOrder(<<Hdr("ZDATA", p)>> \o rest, transit, cur)
<1> DEFINE M == SubSeq(L, (i - 1) + 1, Len(L))
           A == <<Hdr("ZDATA", p)>> \o rest
<1>1. Len(L) \in Nat /\ Len(rest) \in Nat /\ i - 1 \in 0 .. Len(L) /\ p \in Nat
  BY LenProperties, FileIs DEF Place
<1>2. /\ M \in Seq(Items) /\ Len(M) = Len(L) - (i - 1)
      /\ \A j \in 1 .. Len(M) : M[j] = L[(i - 1) + j]
  BY <1>1, RestIs
<1> HIDE DEF M
<1>3. /\ i - 1 \in Nat /\ Len(M) + (i - 1) = Len(L)
      /\ \A j \in 1 .. Len(M) : M[j] = L[j + (i - 1)]
  BY <1>1, <1>2
<1>4. Behind(M, L)
  BY <1>3, Zenon DEF Behind
<1>5. InOrder(M, transit, cur)
  BY <1>2, <1>4, InOrderBehind
<1>6. Hdr("ZDATA", p) \in Items /\ Hdr("ZDATA", p).type = "ZDATA" /\ Hdr("ZDATA", p).pos = p
  BY <1>1, HeaderItem DEF Types, Hdr
<1>7. /\ <<Hdr("ZDATA", p)>> \in Seq(Items) /\ Len(<<Hdr("ZDATA", p)>>) = 1
      /\ <<Hdr("ZDATA", p)>>[1] = Hdr("ZDATA", p)
  BY <1>6
<1>8. /\ A \in Seq(Items) /\ Len(A) = 1 + Len(rest)
      /\ \A j \in 1 .. 1 + Len(rest) :
            A[j] = IF j <= 1 THEN <<Hdr("ZDATA", p)>>[j] ELSE rest[j - 1]
  BY <1>7, ConcatProperties
<1> HIDE DEF A
<1>9. Len(A) = Len(M) /\ Len(M) >= 1
  BY <1>1, <1>2, <1>8
<1>10. A[1].type = "ZDATA" /\ A[1].pos = p
  <2>1. 1 \in 1 .. 1 + Len(rest) /\ 1 <= 1
    BY <1>1
  <2>2. A[1] = Hdr("ZDATA", p)
    BY <1>7, <1>8, <2>1
  <2> QED
    BY <1>6, <2>2
<1>11. M[1] = L[i]
  BY <1>1, <1>2, <1>9
<1>12. \A j \in 2 .. Len(M) : A[j] = M[j]
  <2> SUFFICES ASSUME NEW j \in 2 .. Len(M) PROVE A[j] = M[j]
    OBVIOUS
  <2>1. j \in 1 .. 1 + Len(rest) /\ ~(j <= 1) /\ j - 1 \in 1 .. Len(rest)
        /\ i + (j - 1) = (i - 1) + j
    BY <1>1, <1>2, <1>8, <1>9
  <2>2. A[j] = rest[j - 1]
    BY <1>8, <2>1
  <2>3. rest[j - 1] = L[(i - 1) + j]
    BY <2>1
  <2> QED
    BY <1>2, <2>2, <2>3
<1>13. InOrder(A, transit, cur)
  BY <1>2, <1>5, <1>8, <1>9, <1>10, <1>11, <1>12, InOrderFront
<1> QED
  BY <1>13 DEF A

\* A ZEOF or ZDATA counts only at the place where the file ends.
LEMMA FrameAnswerStep == ASSUME IInv, FrameAnswer PROVE IInv'
<1> DEFINE h == Received(toR)
<1>1. r.pc = "frame" /\ toR' = AfterHeader(toR)
  BY DEF FrameAnswer, ReceiverTakes
<1>2. /\ toR \in Seq(Items) /\ toR' \in Seq(Items) /\ Behind(toR', toR)
      /\ ~gap /\ h.type = "ZFIN" => Finished
      /\ ~gap => HeaderOK(h)
  BY <1>1, FrameRead, ReceiverIs
<1>3. r \in ReceiverType /\ r.file \in Seq(Nat) /\ ~ReceiverDone
  BY <1>1, ReceiverIs DEF ReceiverDone, ReceiverType
<1>4. ~gap => r.from = "frame" /\ Beginning(r.file)
  BY <1>1, ReceiverIs DEF ReceiverOK, FromOK, FileOK
<1>5. \/ (Ends(h) \/ h.type = "ZFIN") /\ FileDone
      \/ FrameFails(r, <<>>)
      \/ CancelFrame(r, <<>>)
      \/ r' = [r EXCEPT !.pc = "name"] /\ ReceiverWrites(<<>>)
      \/ h.type = "ZDATA" /\ Here(h) /\ r' = [r EXCEPT !.pc = "data"] /\ ReceiverWrites(<<>>)
      \/ TryAgain
  BY DEF FrameAnswer
<1>6. h.type = "ZDATA" =>
         \E i \in 1 .. Len(toR) :
            /\ h = toR[i] /\ Len(toR') = Len(toR) - i
            /\ \A j \in 1 .. Len(toR') : toR'[j] = toR[i + j]
  BY <1>1, <1>2, HeaderRead
<1> HIDE DEF h
<1>7. CASE (Ends(h) \/ h.type = "ZFIN") /\ FileDone
  <2>1. ~gap => Finished \/ r.file = File
    <3> SUFFICES ASSUME ~gap, Ends(h) PROVE r.file = File
      BY <1>2, <1>7
    <3>1. Len(r.file) = Len(File)
      BY <1>2 DEF Ends, Here, HeaderOK
    <3> QED
      BY <1>3, <1>4, <3>1, WholeFile
  <2> QED
    BY <1>2, <1>3, <1>4, <1>7, <2>1, FileDoneStep
<1>8. CASE FrameFails(r, <<>>)
  BY <1>2, <1>3, <1>4, <1>8, NothingStoredStep
<1>9. CASE CancelFrame(r, <<>>)
  <2>1. Sends(<<>>, {"ZNAK"})
    BY SendsIs
  <2> QED
    BY <1>2, <1>3, <1>4, <1>9, <2>1, CancelFrameStep
<1>10. CASE r' = [r EXCEPT !.pc = "name"] /\ ReceiverWrites(<<>>)
  BY <1>2, <1>3, <1>10, QuietLines, MoveStep
<1>11. CASE /\ h.type = "ZDATA" /\ Here(h)
            /\ r' = [r EXCEPT !.pc = "data"] /\ ReceiverWrites(<<>>)
  <2>1. /\ r' \in ReceiverType /\ r'.pc = "data" /\ r'.from = r.from /\ r'.file = r.file
        /\ r'.skipped = r.skipped /\ r'.gaveUp = r.gaveUp
        /\ r'.exists = r.exists /\ r'.complete = r.complete
    BY <1>3, <1>11 DEF ReceiverType, ReceiverStates
  <2>2. Sends(<<>>, {"ZACK", "ZFERR", "ZRPOS"})
    BY SendsIs
  <2>3. \A i \in 1 .. Len(<<>>) : AckOK(<<>>[i], r'.file)
    BY EmptySeq
  <2>4. Len(r'.file) >= Len(r.file)
    BY <1>3, <2>1, LenProperties
  <2>5. ASSUME ~gap PROVE Beginning(r'.file) /\ InOrder(Awaited', s.transit, s.cur)
    <3>1. PICK i \in 1 .. Len(toR) :
             /\ h = toR[i] /\ Len(toR') = Len(toR) - i
             /\ \A j \in 1 .. Len(toR') : toR'[j] = toR[i + j]
      BY <1>6, <1>11
    <3>2. InOrder(toR, s.transit, s.cur)
      BY <1>3, <2>5 DEF IInv, Sound, FramesOK
    <3>3. Len(r.file) \in Place
      BY <1>3, <1>4, <2>5, LenProperties DEF Beginning, Place
    <3>4. Opens(toR[i]) /\ EndsAt(toR[i], Len(r.file))
      BY <1>11, <3>1 DEF Opens, EndsAt, Here
    <3>5. InOrder(<<Hdr("ZDATA", Len(r.file))>> \o toR', s.transit, s.cur)
      BY <1>2, <3>1, <3>2, <3>3, <3>4, FrameBegins
    <3>6. Awaited' = <<Hdr("ZDATA", Len(r.file))>> \o toR'
      BY <2>1 DEF Awaited, Hdr
    <3> QED
      BY <1>4, <2>1, <2>5, <3>5, <3>6
  <2> QED
    BY <1>2, <1>3, <1>4, <1>11, <2>1, <2>2, <2>3, <2>4, <2>5, FrameStep
<1>12. CASE TryAgain
  <2>1. /\ r.tries + 1 \in Nat /\ r' = [r EXCEPT !.tries = r.tries + 1]
        /\ ReceiverWrites(<<>>)
    BY <1>3, <1>12 DEF TryAgain, ReceiverType
  <2>2. /\ r' \in ReceiverType /\ r'.pc = r.pc /\ r'.from = r.from /\ r'.file = r.file
        /\ r'.skipped = r.skipped /\ r'.gaveUp = r.gaveUp
        /\ r'.exists = r.exists /\ r'.complete = r.complete
    BY <1>3, <2>1 DEF ReceiverType
  <2> QED
    BY <1>1, <1>2, <1>3, <1>4, <2>1, <2>2, QuietLines, KeepStep DEF Quiet
<1> QED
  BY <1>5, <1>7, <1>8, <1>9, <1>10, <1>11, <1>12

(***************************************************************************)
(* The data that are first on the line of a receiver inside a frame are    *)
(* those for the end of its file.                                          *)
(***************************************************************************)
LEMMA DataInPlace ==
  ASSUME IInv, ~gap, r.pc = "data", Len(toR) >= 1, IsData(toR[1])
  PROVE  Carries(toR[1], Len(r.file))
<1> DEFINE head == <<Hdr("ZDATA", Len(r.file))>>
<1>1. r \in ReceiverType /\ toR \in Seq(Items) /\ ReceiverOK
  BY ReceiverIs
<1>2. Awaited \in Seq(Items) /\ head \in Seq(Items)
  BY AwaitedItems DEF IInv
<1>3. Len(toR) \in Nat /\ Len(r.file) \in Nat
  BY <1>1, LenProperties DEF ReceiverType
<1>4. Len(head) = 1 /\ head[1] = Hdr("ZDATA", Len(r.file))
  OBVIOUS
<1>5. /\ Len(Awaited) = 1 + Len(toR)
      /\ \A j \in 1 .. 1 + Len(toR) : Awaited[j] = IF j <= 1 THEN head[j] ELSE toR[j - 1]
  BY <1>1, <1>2, <1>4, ConcatProperties DEF Awaited
<1> HIDE DEF head
<1>6. 1 \in 1 .. 1 + Len(toR) /\ 2 \in 1 .. 1 + Len(toR) /\ 2 - 1 = 1 /\ ~(2 <= 1)
  BY <1>3
<1>7. Awaited[1] = Hdr("ZDATA", Len(r.file)) /\ Awaited[2] = toR[1]
  BY <1>4, <1>5, <1>6
<1>8. InOrder(Awaited, s.transit, s.cur)
  BY DEF IInv, Sound, FramesOK, ReceiverDone
<1>9. Len(r.file) \in Place
  BY <1>1, <1>3 DEF ReceiverOK, FromOK, FileOK, Beginning, Place
<1>10. Opens(Awaited[1]) /\ EndsAt(Awaited[1], Len(r.file)) /\ ~Noise(Awaited[2])
  BY <1>7 DEF Opens, EndsAt, Noise, IsData, Hdr
<1>11. QuietBetween(Awaited, 1, 2) /\ 1 < 2 /\ 1 \in 1 .. Len(Awaited) /\ 2 \in 1 .. Len(Awaited)
  BY <1>5, <1>6 DEF QuietBetween
<1>12. Carries(Awaited[2], Len(r.file))
  BY <1>8, <1>9, <1>10, <1>11 DEF InOrder, Follows
<1> QED
  BY <1>7, <1>12

\* The subpacket is stored as far as there is room, after its acknowledgement.
LEMMA DataAnswerStep == ASSUME IInv, DataAnswer PROVE IInv'
<1> DEFINE h     == ReceivedData(toR)
           n     == Len(h.data)
           free  == IF room > Len(r.file) THEN room - Len(r.file) ELSE 0
           wrote == IF n < free THEN n ELSE free
           d     == SubSeq(h.data, 1, wrote)
           g     == r.file \o d
           t     == [r EXCEPT !.file = @ \o d]
           zack  == IF h.type = "ZCRCW" THEN <<Hdr("ZACK", Len(r.file) + n)>> ELSE <<>>
<1>1. r.pc = "data" /\ toR' = AfterData(toR)
  BY DEF DataAnswer, ReceiverTakes
<1>2. \/ CancelFrame(r, <<>>)
      \/ FrameFails(r, <<>>)
      \/ IsData(h) /\ wrote < n /\ FrameFails(t, zack \o <<Hdr("ZFERR", Len(t.file))>>)
      \/ IsData(h) /\ wrote = n /\ h.type = "ZCRCG" /\ r' = t /\ ReceiverWrites(zack)
      \/ /\ h.type \notin {"CAN", "CRCFAILED", "TIMEOUT"} /\ ~(IsData(h) /\ wrote < n)
         /\ r' = [t EXCEPT !.pc = "frame", !.tries = 0] /\ ReceiverWrites(zack)
  BY DEF DataAnswer
<1>3. toR \in Seq(Items) /\ r \in ReceiverType /\ ~ReceiverDone
  BY <1>1, ReceiverIs DEF ReceiverDone
<1>4. /\ h \in Items /\ toR' \in Seq(Items) /\ Behind(toR', toR)
      /\ IsData(h) \/ h.type \in {"CRCFAILED", "TIMEOUT", "CAN"}
      /\ IsData(h) => /\ Len(toR) >= 1 /\ h = toR[1] /\ Len(toR') = Len(toR) - 1
                      /\ \A j \in 1 .. Len(toR') : toR'[j] = toR[1 + j]
  BY <1>1, <1>3, DataRead
<1>5. ~gap => r.from = "frame" /\ Beginning(r.file)
  BY <1>1, ReceiverIs DEF ReceiverOK, FromOK, FileOK
<1>6. ~gap /\ IsData(h) => Carries(h, Len(r.file))
  BY <1>1, <1>4, DataInPlace
<1> HIDE DEF h
<1>7. /\ h.data \in Seq(Nat) /\ n \in Nat /\ r.file \in Seq(Nat) /\ Len(r.file) \in Nat
      /\ room \in Nat
  BY <1>3, <1>4, LenProperties DEF Items, ReceiverType, IInv, Typed
<1> HIDE DEF n
<1>8. /\ free \in Nat /\ wrote \in Nat /\ wrote <= n
      /\ wrote < n => room < Len(r.file) + n
  <2>1. CASE room > Len(r.file)
    <3> DEFINE m == Len(r.file)
    <3>1. room \in Nat /\ m \in Nat /\ room > m
      BY <1>7, <2>1
    <3>2. free = room - m
      BY <2>1
    <3> HIDE DEF free, m
    <3>3. free \in Nat /\ room = m + free
      BY <3>1, <3>2
    <3>4. n \in Nat
      BY <1>7
    <3>5. wrote \in Nat /\ wrote <= n /\ (wrote < n => free < n)
      BY <3>3, <3>4
    <3> HIDE DEF wrote
    <3>6. wrote < n => room < m + n
      BY <3>1, <3>3, <3>4, <3>5
    <3> QED
      BY <3>3, <3>5, <3>6 DEF m
  <2>2. CASE ~(room > Len(r.file))
    <3>1. free = 0
      BY <2>2
    <3> HIDE DEF free
    <3>2. wrote = 0
      BY <1>7, <3>1
    <3> QED
      BY <1>7, <2>2, <3>1, <3>2
  <2> QED
    BY <2>1, <2>2
<1> HIDE DEF free, wrote
<1>9. d \in Seq(Nat) /\ Len(d) = wrote /\ \A k \in 1 .. wrote : d[k] = h.data[k]
  <2> DEFINE e == SubSeq(h.data, 0 + 1, 0 + wrote)
  <2>1. 0 + wrote <= Len(h.data) /\ 0 \in Nat
    BY <1>8 DEF n
  <2>2. e \in Seq(Nat) /\ Len(e) = wrote /\ \A k \in 1 .. wrote : e[k] = h.data[0 + k]
    BY <1>7, <1>8, <2>1, SliceIs
  <2>3. e = d /\ \A k \in 1 .. wrote : 0 + k = k
    BY <1>8
  <2> HIDE DEF e, d
  <2> QED
    BY <2>2, <2>3
<1> HIDE DEF d
<1>10. /\ g \in Seq(Nat) /\ Len(g) = Len(r.file) + wrote
       /\ \A k \in 1 .. Len(r.file) + wrote :
             g[k] = IF k <= Len(r.file) THEN r.file[k] ELSE d[k - Len(r.file)]
  BY <1>7, <1>9, ConcatProperties
<1> HIDE DEF g
<1>11. /\ t \in ReceiverType /\ t.file = g /\ t.pc = r.pc /\ t.from = r.from
       /\ t.skipped = r.skipped /\ t.gaveUp = r.gaveUp
       /\ t.exists = r.exists /\ t.complete = r.complete
  <2>1. t = [r EXCEPT !.file = g]
    BY <1>3 DEF g, ReceiverType
  <2> HIDE DEF t
  <2> QED
    BY <1>3, <1>10, <2>1 DEF ReceiverType
<1> HIDE DEF t
<1>12. ASSUME ~gap, IsData(h) PROVE Beginning(g)
  <2>1. /\ Len(r.file) + n <= Len(File)
        /\ \A k \in 1 .. n : h.data[k] = File[Len(r.file) + k]
        /\ \A k \in 1 .. Len(r.file) : r.file[k] = File[k]
    BY <1>5, <1>6, <1>12 DEF Carries, Beginning, n
  <2>2. Len(g) <= Len(File)
    BY <1>7, <1>8, <1>10, <2>1, FileIs
  <2>3. ASSUME NEW k \in 1 .. Len(g) PROVE g[k] = File[k]
    <3>1. k \in 1 .. Len(r.file) + wrote
      BY <1>10, <2>3
    <3>2. CASE k <= Len(r.file)
      BY <1>7, <1>8, <1>10, <2>1, <3>1, <3>2
    <3>3. CASE ~(k <= Len(r.file))
      <4>1. /\ k - Len(r.file) \in 1 .. wrote /\ k - Len(r.file) \in 1 .. n
            /\ Len(r.file) + (k - Len(r.file)) = k
        BY <1>7, <1>8, <3>1, <3>3
      <4>2. g[k] = d[k - Len(r.file)]
        BY <1>10, <3>1, <3>3
      <4>3. d[k - Len(r.file)] = h.data[k - Len(r.file)]
        BY <1>9, <4>1
      <4>4. h.data[k - Len(r.file)] = File[k]
        BY <2>1, <4>1
      <4> QED
        BY <4>2, <4>3, <4>4
    <3> QED
      BY <3>2, <3>3
  <2> QED
    BY <2>2, <2>3 DEF Beginning
<1>13. Len(g) >= Len(r.file)
  BY <1>7, <1>8, <1>10
<1>14. Sends(zack, {"ZACK"}) /\ zack \in Seq(Items)
  <2>1. Len(r.file) + n \in Nat
    BY <1>7
  <2> QED
    BY <2>1, SendsIs DEF Types, Sends
<1>15. ~gap /\ IsData(h) => \A i \in 1 .. Len(zack) : AckOK(zack[i], g)
  <2> SUFFICES ASSUME ~gap, IsData(h), NEW i \in 1 .. Len(zack) PROVE AckOK(zack[i], g)
    OBVIOUS
  <2>1. zack = <<Hdr("ZACK", Len(r.file) + n)>>
    BY EmptySeq
  <2>2. zack[i].pos = Len(r.file) + n
    <3>1. Len(zack) = 1 /\ zack[1] = Hdr("ZACK", Len(r.file) + n)
      BY <2>1
    <3> HIDE DEF zack
    <3>2. i = 1
      BY <3>1
    <3> QED
      BY <3>1, <3>2 DEF Hdr
  <2>3. Len(r.file) + n <= Len(File)
    BY <1>6 DEF Carries, n
  <2>4. Len(r.file) + n <= Len(g) \/ room < Len(File)
    BY <1>7, <1>8, <1>10, <2>3, FileIs
  <2> QED
    BY <2>2, <2>4 DEF AckOK
<1> HIDE DEF zack
<1>16. CASE CancelFrame(r, <<>>)
  <2>1. Sends(<<>>, {"ZNAK"})
    BY SendsIs
  <2> QED
    BY <1>3, <1>4, <1>5, <1>16, <2>1, CancelFrameStep
<1>17. CASE FrameFails(r, <<>>)
  BY <1>3, <1>4, <1>5, <1>17, NothingStoredStep
<1>18. CASE IsData(h) /\ FrameFails(t, zack \o <<Hdr("ZFERR", Len(t.file))>>)
  <2> DEFINE zferr == <<Hdr("ZFERR", Len(t.file))>>
             all   == zack \o zferr
  <2>1. Len(t.file) \in Nat
    BY <1>10, <1>11, LenProperties
  <2>2. Sends(zferr, {"ZFERR"}) /\ zferr \in Seq(Items)
    BY <2>1, SendsIs DEF Types
  <2> HIDE DEF zferr
  <2>3. Sends(zack, {"ZACK", "ZFERR"}) /\ Sends(zferr, {"ZACK", "ZFERR"})
    BY <1>14, <2>2 DEF Sends
  <2>4. Sends(all, {"ZACK", "ZFERR"})
    BY <2>3, SendsIs
  <2>5. \A i \in 1 .. Len(zferr) : AckOK(zferr[i], g)
    BY <2>2 DEF Sends, AckOK
  <2>6. ~gap => \A i \in 1 .. Len(all) : AckOK(all[i], g)
    BY <1>14, <1>15, <1>18, <2>2, <2>5, EachConcat
  <2>7. FrameFails(t, all)
    BY <1>18 DEF zferr
  <2> HIDE DEF all
  <2> QED
    BY <1>3, <1>4, <1>5, <1>11, <1>12, <1>13, <1>18, <2>4, <2>6, <2>7, FrameFailsStep
<1>19. Sends(zack, {"ZACK", "ZFERR", "ZRPOS"})
  BY <1>14 DEF Sends
<1>20. CASE IsData(h) /\ wrote = n /\ h.type = "ZCRCG" /\ r' = t /\ ReceiverWrites(zack)
  <2>1. ASSUME ~gap PROVE InOrder(Awaited', s.transit, s.cur)
    <3>1. InOrder(toR, s.transit, s.cur)
      BY <1>3, <2>1 DEF IInv, Sound, FramesOK
    <3>2. Len(g) \in Place
      BY <1>10, <1>12, <1>20, <2>1, LenProperties DEF Beginning, Place
    <3>3. Opens(toR[1]) /\ EndsAt(toR[1], Len(g))
      <4>1. Len(g) = Len(r.file) + n /\ Len(g) - n = Len(r.file) /\ n <= Len(g)
        BY <1>7, <1>10, <1>20
      <4> QED
        BY <1>4, <1>6, <1>20, <2>1, <4>1 DEF Opens, EndsAt, n
    <3>4. 1 \in 1 .. Len(toR)
      BY <1>3, <1>4, <1>20, LenProperties
    <3>5. InOrder(<<Hdr("ZDATA", Len(g))>> \o toR', s.transit, s.cur)
      BY <1>3, <1>4, <1>20, <3>1, <3>2, <3>3, <3>4, FrameBegins
    <3>6. Awaited' = <<Hdr("ZDATA", Len(g))>> \o toR'
      BY <1>11, <1>20 DEF Awaited, Hdr
    <3> QED
      BY <3>5, <3>6
  <2>2. /\ r' \in ReceiverType /\ r'.pc = "data" /\ r'.from = r.from /\ r'.file = g
        /\ r'.skipped = r.skipped /\ r'.gaveUp = r.gaveUp
        /\ r'.exists = r.exists /\ r'.complete = r.complete
    BY <1>1, <1>11, <1>20
  <2> QED
    BY <1>3, <1>4, <1>5, <1>12, <1>13, <1>15, <1>19, <1>20, <2>1, <2>2, FrameStep
<1>21. CASE /\ h.type \notin {"CAN", "CRCFAILED", "TIMEOUT"}
            /\ r' = [t EXCEPT !.pc = "frame", !.tries = 0] /\ ReceiverWrites(zack)
  <2>1. IsData(h)
    BY <1>4, <1>21
  <2>2. /\ r' \in ReceiverType /\ r'.pc = "frame" /\ r'.from = r.from /\ r'.file = g
        /\ r'.skipped = r.skipped /\ r'.gaveUp = r.gaveUp
        /\ r'.exists = r.exists /\ r'.complete = r.complete
    BY <1>11, <1>21 DEF ReceiverType, ReceiverStates
  <2> QED
    BY <1>3, <1>4, <1>5, <1>12, <1>13, <1>15, <1>19, <1>21, <2>1, <2>2, FrameStep
<1> QED
  BY <1>2, <1>16, <1>17, <1>18, <1>20, <1>21

\* The last wait changes nothing of the file.
LEMMA OverandoutStep == ASSUME IInv, Overandout PROVE IInv'
<1>1. r.pc = "oo" /\ r' = [r EXCEPT !.pc = "done"] /\ toR' = <<>> /\ ReceiverWrites(<<>>)
  BY DEF Overandout
<1>2. ~ReceiverDone
  BY <1>1 DEF ReceiverDone
<1> QED
  BY <1>1, <1>2, ReceiverIs, QuietLines, MoveStep

-----------------------------------------------------------------------------
(* The faults of the line.                                                 *)

\* An element that may be damaged but is else the same.
Same(x, y) == x.type = y.type /\ x.pos = y.pos /\ x.data = y.data

(***************************************************************************)
(* M is what a fault makes of the line L: what is not noise was there, and *)
(* in this order.                                                          *)
(***************************************************************************)
Faulty(M, L) ==
    \E g \in [1 .. Len(M) -> Nat] :
        /\ \A i \in 1 .. Len(M) :
              ~Noise(M[i]) => g[i] \in 1 .. Len(L) /\ Same(M[i], L[g[i]])
        /\ \A i, j \in 1 .. Len(M) :
              i < j /\ ~Noise(M[i]) /\ ~Noise(M[j]) => g[i] < g[j]

\* What holds of the answers and headers of a line survives a fault.
LEMMA FaultyKeeps ==
  ASSUME NEW L \in Seq(Items), NEW M \in Seq(Items), Faulty(M, L)
  PROVE  /\ \A type \in Types \ {"CAN", "TIMEOUT"} : Has(M, type) => Has(L, type)
         /\ \A i \in 1 .. Len(M) :
               ~Noise(M[i]) => \E j \in 1 .. Len(L) : Same(M[i], L[j])
         /\ (\A i, j \in 1 .. Len(L) :
                ~(i < j /\ L[i].type = "ZRPOS" /\ L[j].type = "ZRINIT"))
            => \A i, j \in 1 .. Len(M) :
                  ~(i < j /\ M[i].type = "ZRPOS" /\ M[j].type = "ZRINIT")
<1>1. PICK g \in [1 .. Len(M) -> Nat] :
         /\ \A i \in 1 .. Len(M) :
               ~Noise(M[i]) => g[i] \in 1 .. Len(L) /\ Same(M[i], L[g[i]])
         /\ \A i, j \in 1 .. Len(M) :
               i < j /\ ~Noise(M[i]) /\ ~Noise(M[j]) => g[i] < g[j]
  BY DEF Faulty
<1>2. \A i \in 1 .. Len(M) :
         ~Noise(M[i]) => g[i] \in 1 .. Len(L) /\ M[i].type = L[g[i]].type
  BY <1>1 DEF Same
<1>3. ASSUME NEW type \in Types \ {"CAN", "TIMEOUT"}, Has(M, type) PROVE Has(L, type)
  <2>1. PICK i \in 1 .. Len(M) : M[i].type = type
    BY <1>3 DEF Has
  <2>2. ~Noise(M[i])
    BY <1>3, <2>1 DEF Noise
  <2> QED
    BY <1>2, <2>1, <2>2 DEF Has
<1>4. ASSUME NEW i \in 1 .. Len(M), NEW j \in 1 .. Len(M), i < j,
             M[i].type = "ZRPOS", M[j].type = "ZRINIT"
      PROVE  \E a, b \in 1 .. Len(L) : a < b /\ L[a].type = "ZRPOS" /\ L[b].type = "ZRINIT"
  <2>1. ~Noise(M[i]) /\ ~Noise(M[j])
    BY <1>4 DEF Noise
  <2>2. g[i] \in 1 .. Len(L) /\ g[j] \in 1 .. Len(L) /\ g[i] < g[j]
    BY <1>1, <1>4, <2>1
  <2>3. L[g[i]].type = "ZRPOS" /\ L[g[j]].type = "ZRINIT"
    BY <1>2, <1>4, <2>1
  <2> QED
    BY <2>2, <2>3
<1> QED
  BY <1>1, <1>3, <1>4

\* A line that has none.
LEMMA FaultyNot == ASSUME NEW L \in Seq(Items) PROVE Faulty(L, L)
<1> DEFINE g == [i \in 1 .. Len(L) |-> i]
<1>1. Len(L) \in Nat
  BY LenProperties
<1>2. g \in [1 .. Len(L) -> Nat] /\ \A i \in 1 .. Len(L) : g[i] = i
  BY <1>1
<1> HIDE DEF g
<1>3. \A i \in 1 .. Len(L) : g[i] \in 1 .. Len(L) /\ Same(L[i], L[g[i]])
  BY <1>2 DEF Same
<1> QED
  BY <1>2, <1>3 DEF Faulty

\* A check is damaged.
LEMMA FaultyDamage ==
  ASSUME NEW L \in Seq(Items), NEW k \in 1 .. Len(L)
  PROVE  LET M == Damaged(L, k)
         IN /\ M \in Seq(Items) /\ Len(M) = Len(L) /\ Faulty(M, L)
            /\ \A i \in 1 .. Len(L) : Same(M[i], L[i])
<1> DEFINE M == Damaged(L, k)
           g == [i \in 1 .. Len(M) |-> i]
           x == [L[k] EXCEPT !.bad = TRUE]
<1>1. Len(L) \in Nat /\ L \in [1 .. Len(L) -> Items]
  BY LenProperties
<1>2. L[k] \in Items
  BY <1>1
<1>3. x \in Items /\ Same(x, L[k])
  BY <1>2 DEF Items, Same
<1>4. M = [L EXCEPT ![k] = x]
  BY DEF Damaged
<1> HIDE DEF M, x
<1>5. /\ M \in Seq(Items) /\ Len(M) = Len(L)
      /\ \A i \in 1 .. Len(L) : M[i] = IF i = k THEN x ELSE L[i]
  BY <1>1, <1>3, <1>4
<1>6. \A i \in 1 .. Len(L) : Same(M[i], L[i])
  BY <1>3, <1>5 DEF Same
<1>7. g \in [1 .. Len(M) -> Nat] /\ \A i \in 1 .. Len(M) : g[i] = i
  BY <1>1, <1>5
<1> HIDE DEF g
<1>8. \A i \in 1 .. Len(M) : g[i] \in 1 .. Len(L) /\ Same(M[i], L[g[i]])
  BY <1>5, <1>6, <1>7
<1>9. Faulty(M, L)
  BY <1>7, <1>8 DEF Faulty
<1> QED
  BY <1>5, <1>6, <1>9 DEF M

\* Something is lost.
LEMMA FaultyLoss ==
  ASSUME NEW L \in Seq(Items), NEW k \in 1 .. Len(L)
  PROVE  LET M == RemoveAt(L, k)
         IN /\ M \in Seq(Items) /\ Len(M) = Len(L) - 1 /\ Faulty(M, L)
            /\ \A i \in 1 .. k - 1 : M[i] = L[i]
            /\ \A i \in k .. Len(L) - 1 : M[i] = L[i + 1]
<1> DEFINE M == RemoveAt(L, k)
           a == SubSeq(L, 1, k - 1)
           b == SubSeq(L, k + 1, Len(L))
           g == [i \in 1 .. Len(M) |-> IF i < k THEN i ELSE i + 1]
<1>1. Len(L) \in Nat /\ \A i \in 1 .. Len(L) : L[i] \in Items
  BY LenProperties, ElementOfSeq
<1>2. M = a \o b
  BY DEF RemoveAt
<1>3. a \in Seq(Items) /\ Len(a) = k - 1 /\ \A i \in 1 .. k - 1 : a[i] = L[i]
  <2>1. \A i \in 1 .. k - 1 : L[i] \in Items
    BY <1>1
  <2>2. /\ a \in Seq(Items) /\ Len(a) = IF 1 <= k - 1 THEN (k - 1) - 1 + 1 ELSE 0
        /\ \A i \in 1 .. (k - 1) - 1 + 1 : a[i] = L[1 + i - 1]
    BY <1>1, <2>1, SubSeqProperties
  <2> HIDE DEF a
  <2> QED
    BY <1>1, <2>2
<1>4. b \in Seq(Items) /\ Len(b) = Len(L) - k /\ \A i \in 1 .. Len(b) : b[i] = L[k + i]
  <2>1. k \in 0 .. Len(L)
    BY <1>1
  <2> QED
    BY <2>1, RestIs
<1> HIDE DEF M, a, b
<1>5. /\ M \in Seq(Items) /\ Len(M) = Len(a) + Len(b)
      /\ \A i \in 1 .. Len(a) + Len(b) : M[i] = IF i <= Len(a) THEN a[i] ELSE b[i - Len(a)]
  BY <1>2, <1>3, <1>4, ConcatProperties
<1>6. Len(M) = Len(L) - 1
  BY <1>1, <1>3, <1>4, <1>5
<1>7. ASSUME NEW i \in 1 .. k - 1 PROVE M[i] = L[i]
  <2>1. i \in 1 .. Len(a) + Len(b) /\ i <= Len(a)
    BY <1>1, <1>3, <1>4
  <2> QED
    BY <1>3, <1>5, <2>1
<1>8. ASSUME NEW i \in k .. Len(L) - 1 PROVE M[i] = L[i + 1]
  <2>1. /\ i \in 1 .. Len(a) + Len(b) /\ ~(i <= Len(a))
        /\ i - Len(a) \in 1 .. Len(b) /\ k + (i - Len(a)) = i + 1
    BY <1>1, <1>3, <1>4
  <2>2. M[i] = b[i - Len(a)]
    BY <1>5, <2>1
  <2>3. b[i - Len(a)] = L[i + 1]
    BY <1>4, <2>1
  <2> QED
    BY <2>2, <2>3
<1>9. /\ g \in [1 .. Len(M) -> Nat]
      /\ \A i \in 1 .. Len(M) : g[i] = IF i < k THEN i ELSE i + 1
  BY <1>1, <1>6
<1> HIDE DEF g
<1>10. \A i \in 1 .. Len(M) : g[i] \in 1 .. Len(L) /\ M[i] = L[g[i]]
  BY <1>1, <1>6, <1>7, <1>8, <1>9
<1>11. \A i, j \in 1 .. Len(M) : i < j => g[i] < g[j]
  BY <1>1, <1>6, <1>9
<1>12. Faulty(M, L)
  BY <1>9, <1>10, <1>11 DEF Faulty, Same
<1> QED
  BY <1>5, <1>6, <1>7, <1>8, <1>12 DEF M

\* The line with one element more at its front.
LEMMA HeadIs ==
  ASSUME NEW x \in Items, NEW L \in Seq(Items)
  PROVE  LET A == <<x>> \o L
         IN /\ A \in Seq(Items) /\ Len(A) = Len(L) + 1 /\ A[1] = x
            /\ \A i \in 2 .. Len(L) + 1 : A[i] = L[i - 1]
<1> DEFINE A == <<x>> \o L
<1>1. <<x>> \in Seq(Items) /\ Len(<<x>>) = 1 /\ <<x>>[1] = x /\ Len(L) \in Nat
  BY LenProperties
<1>2. /\ A \in Seq(Items) /\ Len(A) = 1 + Len(L)
      /\ \A i \in 1 .. 1 + Len(L) : A[i] = IF i <= 1 THEN <<x>>[i] ELSE L[i - 1]
  BY <1>1, ConcatProperties
<1> HIDE DEF A
<1>3. 1 \in 1 .. 1 + Len(L) /\ 1 <= 1
  BY <1>1
<1>4. A[1] = x
  BY <1>1, <1>2, <1>3
<1>5. Len(A) = Len(L) + 1 /\ \A i \in 2 .. Len(L) + 1 : i \in 1 .. 1 + Len(L) /\ ~(i <= 1)
  BY <1>1, <1>2
<1>6. \A i \in 2 .. Len(L) + 1 : A[i] = L[i - 1]
  BY <1>2, <1>5
<1> QED
  BY <1>2, <1>4, <1>5, <1>6 DEF A

\* Noise is put at the front of a line.
LEMMA FaultyFront ==
  ASSUME NEW x \in Items, Noise(x), NEW L \in Seq(Items)
  PROVE  Faulty(<<x>> \o L, L)
<1> DEFINE A == <<x>> \o L
           g == [i \in 1 .. Len(A) |-> i - 1]
<1>1. Len(L) \in Nat
  BY LenProperties
<1>2. /\ A \in Seq(Items) /\ Len(A) = Len(L) + 1 /\ A[1] = x
      /\ \A i \in 2 .. Len(L) + 1 : A[i] = L[i - 1]
  BY HeadIs
<1> HIDE DEF A
<1>3. g \in [1 .. Len(A) -> Nat] /\ \A i \in 1 .. Len(A) : g[i] = i - 1
  BY <1>1, <1>2
<1> HIDE DEF g
<1>4. \A i \in 1 .. Len(A) : ~Noise(A[i]) => i \in 2 .. Len(L) + 1
  BY <1>1, <1>2
<1>5. \A i \in 1 .. Len(A) : ~Noise(A[i]) => g[i] \in 1 .. Len(L) /\ A[i] = L[g[i]]
  BY <1>1, <1>2, <1>3, <1>4
<1>6. \A i, j \in 1 .. Len(A) : i < j => g[i] < g[j]
  BY <1>1, <1>2, <1>3
<1>7. Faulty(A, L)
  BY <1>3, <1>5, <1>6 DEF Faulty, Same
<1> QED
  BY <1>7 DEF A

\* Noise is put at its end.
LEMMA FaultyEnd ==
  ASSUME NEW x \in Items, Noise(x), NEW L \in Seq(Items)
  PROVE  Faulty(Append(L, x), L)
<1> DEFINE A == Append(L, x)
           g == [i \in 1 .. Len(A) |-> i]
<1>1. Len(L) \in Nat
  BY LenProperties
<1>2. /\ A \in Seq(Items) /\ Len(A) = Len(L) + 1 /\ A[Len(L) + 1] = x
      /\ \A i \in 1 .. Len(L) : A[i] = L[i]
  BY AppendProperties
<1> HIDE DEF A
<1>3. g \in [1 .. Len(A) -> Nat] /\ \A i \in 1 .. Len(A) : g[i] = i
  BY <1>1, <1>2
<1> HIDE DEF g
<1>4. \A i \in 1 .. Len(A) : ~Noise(A[i]) => i \in 1 .. Len(L)
  BY <1>1, <1>2
<1>5. \A i \in 1 .. Len(A) : ~Noise(A[i]) => g[i] \in 1 .. Len(L) /\ A[i] = L[g[i]]
  BY <1>2, <1>3, <1>4
<1>6. Faulty(A, L)
  BY <1>3, <1>5 DEF Faulty, Same
<1> QED
  BY <1>6 DEF A

(***************************************************************************)
(* A step of the line: nothing but noise comes to it, and it stays in      *)
(* order for the receiver, unless a subpacket is lost.                     *)
(***************************************************************************)
LEMMA LineStep ==
  ASSUME IInv, UNCHANGED <<setting, s, r>>, toR' \in Seq(Items), toS' \in Seq(Items),
         gap' \in BOOLEAN, gap => gap', Faulty(toR', toR), Faulty(toS', toS),
         ~gap' => /\ InOrder(toR, s.transit, s.cur) => InOrder(toR', s.transit, s.cur)
                  /\ InOrder(Awaited, s.transit, s.cur) =>
                        InOrder(Awaited', s.transit, s.cur)
  PROVE  IInv'
<1>1. /\ receiver' = receiver /\ old' = old /\ room' = room /\ bufsize' = bufsize
      /\ s' = s /\ r' = r /\ toR \in Seq(Items) /\ toS \in Seq(Items)
  BY DEF setting, IInv, Typed
<1>2. Typed'
  BY <1>1 DEF IInv, Typed
<1>3. ASSUME ~gap' PROVE Sound'
  <2>1. Sound
    BY <1>3 DEF IInv
  <2>2. FramesOK'
    BY <1>1, <1>3, <2>1 DEF Sound, FramesOK, ReceiverDone
  <2>3. /\ Has(toR', "ZFIN") => Has(toR, "ZFIN")
        /\ \A i \in 1 .. Len(toR') :
              ~Noise(toR'[i]) => \E j \in 1 .. Len(toR) : Same(toR'[i], toR[j])
    BY <1>1, FaultyKeeps DEF Types
  <2>4. /\ \A type \in {"ZSKIP", "ZRINIT", "ZRPOS", "ZACK"} :
              Has(toS', type) => Has(toS, type)
        /\ \A i \in 1 .. Len(toS') :
              ~Noise(toS'[i]) => \E j \in 1 .. Len(toS) : Same(toS'[i], toS[j])
        /\ NoLateInit => NoLateInit'
    <3>1. {"ZSKIP", "ZRINIT", "ZRPOS", "ZACK"} \subseteq Types \ {"CAN", "TIMEOUT"}
      BY DEF Types
    <3>2. \A type \in Types \ {"CAN", "TIMEOUT"} : Has(toS', type) => Has(toS, type)
      BY <1>1, FaultyKeeps
    <3>3. \A i \in 1 .. Len(toS') :
             ~Noise(toS'[i]) => \E j \in 1 .. Len(toS) : Same(toS'[i], toS[j])
      BY <1>1, FaultyKeeps
    <3>4. NoLateInit => NoLateInit'
      BY <1>1, FaultyKeeps DEF NoLateInit
    <3> QED
      BY <3>1, <3>2, <3>3, <3>4
  <2>5. HeadersOK'
    <3> SUFFICES ASSUME NEW i \in 1 .. Len(toR') PROVE HeaderOK(toR'[i])
      BY DEF HeadersOK, HeaderOK
    <3>1. CASE Noise(toR'[i])
      BY <3>1 DEF Noise, HeaderOK
    <3>2. CASE ~Noise(toR'[i])
      <4>1. PICK j \in 1 .. Len(toR) : Same(toR'[i], toR[j])
        BY <2>3, <3>2
      <4>2. HeaderOK(toR[j])
        BY <2>1 DEF Sound, HeadersOK
      <4> QED
        BY <4>1, <4>2 DEF Same, HeaderOK
    <3> QED
      BY <3>1, <3>2
  <2>6. ReceiverOK' /\ TransitOK'
    <3>1. ReceiverOK /\ TransitOK
      BY <2>1 DEF Sound
    <3>2. FileOK' /\ FromOK'
      BY <1>1, <3>1 DEF ReceiverOK, FileOK, FromOK, Beginning
    <3>3. BatchOK' /\ ReportOK' /\ TransitOK'
      BY <1>1, <3>1 DEF ReceiverOK, BatchOK, ReportOK, TransitOK, Batch, ReceiverDone
    <3> QED
      BY <3>2, <3>3 DEF ReceiverOK
  <2>7. SuccessOK'
    <3>1. Finished' = Finished /\ Believes' = Believes /\ Streaming' = Streaming
      BY <1>1 DEF Finished, Believes, Streaming, Batch
    <3> QED
      BY <1>1, <2>1, <2>3, <2>4, <3>1 DEF Sound, SuccessOK, Has
  <2>8. AcksOK'
    <3>1. ASSUME NEW i \in 1 .. Len(toS') PROVE AckOK(toS'[i], r.file)
      <4>1. CASE Noise(toS'[i])
        BY <4>1 DEF Noise, AckOK
      <4>2. CASE ~Noise(toS'[i])
        <5>1. PICK j \in 1 .. Len(toS) : Same(toS'[i], toS[j])
          BY <2>4, <4>2
        <5>2. AckOK(toS[j], r.file)
          BY <2>1 DEF Sound, AcksOK
        <5> QED
          BY <5>1, <5>2 DEF Same, AckOK
      <4> QED
        BY <4>1, <4>2
    <3>2. ~Batch /\ r.from # "frame" => ~Has(toS', "ZACK")
      BY <2>1, <2>4 DEF Sound, AcksOK
    <3> QED
      BY <1>1, <3>1, <3>2 DEF AcksOK, AckOK, Batch, Has
  <2> QED
    BY <2>2, <2>5, <2>6, <2>7, <2>8 DEF Sound
<1> QED
  BY <1>2, <1>3 DEF IInv

\* A fault of the line to the sender.
LEMMA BackLineStep ==
  ASSUME IInv, UNCHANGED <<setting, s, r, gap>>, UNCHANGED toR, toS' \in Seq(Items),
         Faulty(toS', toS)
  PROVE  IInv'
<1>1. toR \in Seq(Items) /\ gap' \in BOOLEAN /\ Faulty(toR', toR) /\ toR' \in Seq(Items)
  BY FaultyNot DEF IInv, Typed
<1>2. toR' = toR /\ Awaited' = Awaited
  BY DEF Awaited, Hdr
<1> QED
  BY <1>1, <1>2, LineStep

\* What the invariant says to the line.
LEMMA LineIs ==
  ASSUME IInv
  PROVE  /\ toR \in Seq(Items) /\ toS \in Seq(Items) /\ gap \in BOOLEAN
         /\ Hdr("ZDATA", Len(r.file)) \in Items
         /\ Awaited \in Seq(Items) /\ Len(Awaited) = Len(toR) + 1
         /\ Awaited[1] = Hdr("ZDATA", Len(r.file))
         /\ \A i \in 2 .. Len(toR) + 1 : Awaited[i] = toR[i - 1]
<1>1. /\ toR \in Seq(Items) /\ toS \in Seq(Items) /\ gap \in BOOLEAN
      /\ Len(r.file) \in Nat
  BY LenProperties DEF IInv, Typed, ReceiverType
<1>2. Hdr("ZDATA", Len(r.file)) \in Items
  BY <1>1, HeaderItem DEF Types
<1> QED
  BY <1>1, <1>2, HeadIs DEF Awaited

\* What the line to a receiver inside a frame becomes.
LEMMA AwaitedThen ==
  ASSUME IInv, UNCHANGED r, toR' \in Seq(Items)
  PROVE  /\ Awaited' \in Seq(Items) /\ Len(Awaited') = Len(toR') + 1
         /\ Awaited'[1] = Hdr("ZDATA", Len(r.file))
         /\ \A i \in 2 .. Len(toR') + 1 : Awaited'[i] = toR'[i - 1]
<1>1. Awaited' = <<Hdr("ZDATA", Len(r.file))>> \o toR'
  BY DEF Awaited, Hdr
<1>2. Hdr("ZDATA", Len(r.file)) \in Items
  BY LineIs
<1> QED
  BY <1>1, <1>2, HeadIs

\* A check is damaged: the element keeps its type, place and data.
LEMMA DamageStep == ASSUME IInv, Damage PROVE IInv'
<1>1. UNCHANGED <<setting, s, r, gap>>
  BY DEF Damage
<1>2. toR \in Seq(Items) /\ toS \in Seq(Items) /\ gap \in BOOLEAN
  BY LineIs
<1>3. ASSUME NEW i \in 1 .. Len(toS), toS' = Damaged(toS, i), UNCHANGED toR PROVE IInv'
  BY <1>1, <1>2, <1>3, FaultyDamage, BackLineStep
<1>4. ASSUME NEW i \in 1 .. Len(toR), toR' = Damaged(toR, i), UNCHANGED toS PROVE IInv'
  <2>1. /\ toR' \in Seq(Items) /\ Len(toR') = Len(toR) /\ Faulty(toR', toR)
        /\ \A j \in 1 .. Len(toR) : Same(toR'[j], toR[j])
    BY <1>2, <1>4, FaultyDamage
  <2>2. \A j \in 1 .. Len(toR) : Alike(toR'[j], toR[j])
    BY <2>1 DEF Same, Alike
  <2>3. InOrder(toR, s.transit, s.cur) => InOrder(toR', s.transit, s.cur)
    BY <1>2, <2>1, <2>2, InOrderAlike
  <2>4. ASSUME NEW j \in 1 .. Len(Awaited) PROVE Alike(Awaited'[j], Awaited[j])
    <3>1. CASE j = 1
      BY <1>1, <2>1, <3>1, LineIs, AwaitedThen DEF Alike
    <3>2. CASE j # 1
      <4>1. j \in 2 .. Len(toR) + 1 /\ j - 1 \in 1 .. Len(toR)
        BY <1>2, <3>2, LineIs, LenProperties
      <4>2. Awaited[j] = toR[j - 1] /\ Awaited'[j] = toR'[j - 1]
        BY <1>1, <2>1, <4>1, LineIs, AwaitedThen
      <4> QED
        BY <2>2, <4>1, <4>2
    <3> QED
      BY <3>1, <3>2
  <2>5. /\ Awaited \in Seq(Items) /\ Awaited' \in Seq(Items)
        /\ Len(Awaited') = Len(Awaited)
    BY <1>1, <2>1, LineIs, AwaitedThen
  <2>6. InOrder(Awaited, s.transit, s.cur) => InOrder(Awaited', s.transit, s.cur)
    BY <2>4, <2>5, InOrderAlike
  <2>7. toS' \in Seq(Items) /\ Faulty(toS', toS)
    BY <1>2, <1>4, FaultyNot
  <2> QED
    BY <1>1, <1>2, <2>1, <2>3, <2>6, <2>7, LineStep
<1> QED
  BY <1>3, <1>4 DEF Damage

\* Something is lost that is no subpacket, or it is a gap.
LEMMA LoseStep == ASSUME IInv, Lose PROVE IInv'
<1>1. UNCHANGED <<setting, s, r>>
  BY DEF Lose
<1>2. /\ toR \in Seq(Items) /\ toS \in Seq(Items) /\ gap \in BOOLEAN
      /\ Len(toR) \in Nat
  BY LineIs, LenProperties
<1>3. ASSUME NEW i \in 1 .. Len(toS), toS' = RemoveAt(toS, i), UNCHANGED <<toR, gap>>
      PROVE  IInv'
  BY <1>1, <1>2, <1>3, FaultyLoss, BackLineStep
<1>4. ASSUME NEW k \in 1 .. Len(toR), toR' = RemoveAt(toR, k), UNCHANGED toS,
             gap' = (gap \/ IsData(toR[k]))
      PROVE  IInv'
  <2>1. /\ toR' \in Seq(Items) /\ Len(toR') = Len(toR) - 1 /\ Faulty(toR', toR)
        /\ \A i \in 1 .. k - 1 : toR'[i] = toR[i]
        /\ \A i \in k .. Len(toR) - 1 : toR'[i] = toR[i + 1]
    BY <1>2, <1>4, FaultyLoss
  <2>2. gap' \in BOOLEAN /\ (gap => gap') /\ (~gap' => ~IsData(toR[k]))
    BY <1>2, <1>4 DEF IsData
  <2>3. ASSUME ~gap', InOrder(toR, s.transit, s.cur) PROVE InOrder(toR', s.transit, s.cur)
    BY <1>2, <1>4, <2>1, <2>2, <2>3, InOrderLoss
  <2>4. ASSUME ~gap', InOrder(Awaited, s.transit, s.cur)
        PROVE  InOrder(Awaited', s.transit, s.cur)
    <3>1. /\ Awaited \in Seq(Items) /\ Len(Awaited) = Len(toR) + 1
          /\ Awaited[1] = Hdr("ZDATA", Len(r.file))
          /\ \A i \in 2 .. Len(toR) + 1 : Awaited[i] = toR[i - 1]
      BY LineIs
    <3>2. /\ Awaited' \in Seq(Items) /\ Len(Awaited') = Len(toR') + 1
          /\ Awaited'[1] = Hdr("ZDATA", Len(r.file))
          /\ \A i \in 2 .. Len(toR') + 1 : Awaited'[i] = toR'[i - 1]
      BY <1>1, <2>1, AwaitedThen
    <3> DEFINE A == Awaited
               B == Awaited'
    <3>3. k + 1 \in 1 .. Len(A) /\ Len(B) = Len(A) - 1 /\ A[k + 1] = toR[k]
      <4>1. k + 1 \in 2 .. Len(toR) + 1 /\ (k + 1) - 1 = k
        BY <1>2, <1>4
      <4>2. A[k + 1] = toR[k]
        BY <3>1, <4>1
      <4>3. Len(B) = Len(A) - 1
        BY <1>2, <2>1, <3>1, <3>2
      <4> QED
        BY <1>2, <3>1, <4>1, <4>2, <4>3
    <3>4. ASSUME NEW i \in 1 .. (k + 1) - 1 PROVE B[i] = A[i]
      <4>1. CASE i = 1
        BY <3>1, <3>2, <4>1
      <4>2. CASE i # 1
        <5>1. i \in 2 .. Len(toR) + 1 /\ i \in 2 .. Len(toR') + 1 /\ i - 1 \in 1 .. k - 1
          BY <1>2, <1>4, <2>1, <4>2
        <5> QED
          BY <2>1, <3>1, <3>2, <5>1
      <4> QED
        BY <4>1, <4>2
    <3>5. ASSUME NEW i \in k + 1 .. Len(A) - 1 PROVE B[i] = A[i + 1]
      <4>1. /\ i \in 2 .. Len(toR') + 1 /\ i + 1 \in 2 .. Len(toR) + 1
            /\ i - 1 \in k .. Len(toR) - 1 /\ (i - 1) + 1 = i /\ (i + 1) - 1 = i
        BY <1>2, <1>4, <2>1, <3>1
      <4>2. B[i] = toR'[i - 1] /\ A[i + 1] = toR[i]
        BY <3>1, <3>2, <4>1
      <4>3. toR'[i - 1] = toR[(i - 1) + 1]
        BY <2>1, <4>1
      <4> QED
        BY <4>1, <4>2, <4>3
    <3>6. A \in Seq(Items) /\ B \in Seq(Items) /\ ~IsData(A[k + 1])
      BY <2>2, <2>4, <3>1, <3>2, <3>3
    <3>7. InOrder(A, s.transit, s.cur)
      BY <2>4
    <3> HIDE DEF A, B
    <3>8. InOrder(B, s.transit, s.cur)
      BY <3>3, <3>4, <3>5, <3>6, <3>7, InOrderLoss
    <3> QED
      BY <3>8 DEF B
  <2>5. toS' \in Seq(Items) /\ Faulty(toS', toS)
    BY <1>2, <1>4, FaultyNot
  <2> QED
    BY <1>1, <1>2, <2>1, <2>2, <2>3, <2>4, <2>5, LineStep
<1> QED
  BY <1>3, <1>4 DEF Lose

\* Noise comes to the line to the receiver.
LEMMA NoiseStep ==
  ASSUME IInv, UNCHANGED <<setting, s, r, gap>>, UNCHANGED toS, toR' \in Seq(Items),
         NEW k \in 0 .. Len(toR), Len(toR') = Len(toR) + 1,
         \A i \in 1 .. k : toR'[i] = toR[i], Noise(toR'[k + 1]),
         \A i \in k + 2 .. Len(toR) + 1 : toR'[i] = toR[i - 1], Faulty(toR', toR)
  PROVE  IInv'
<1>1. /\ toR \in Seq(Items) /\ toS \in Seq(Items) /\ gap \in BOOLEAN
      /\ Len(toR) \in Nat
  BY LineIs, LenProperties
<1>2. InOrder(toR, s.transit, s.cur) => InOrder(toR', s.transit, s.cur)
  BY <1>1, InOrderInsert
<1>3. ASSUME InOrder(Awaited, s.transit, s.cur) PROVE InOrder(Awaited', s.transit, s.cur)
  <2>1. /\ Awaited \in Seq(Items) /\ Len(Awaited) = Len(toR) + 1
        /\ Awaited[1] = Hdr("ZDATA", Len(r.file))
        /\ \A i \in 2 .. Len(toR) + 1 : Awaited[i] = toR[i - 1]
    BY LineIs
  <2>2. /\ Awaited' \in Seq(Items) /\ Len(Awaited') = Len(toR') + 1
        /\ Awaited'[1] = Hdr("ZDATA", Len(r.file))
        /\ \A i \in 2 .. Len(toR') + 1 : Awaited'[i] = toR'[i - 1]
    BY AwaitedThen
  <2> DEFINE A == Awaited
             B == Awaited'
  <2>3. k + 1 \in 0 .. Len(A) /\ Len(B) = Len(A) + 1
    BY <1>1, <2>1, <2>2
  <2>4. ASSUME NEW i \in 1 .. k + 1 PROVE B[i] = A[i]
    <3>1. CASE i = 1
      BY <2>1, <2>2, <3>1
    <3>2. CASE i # 1
      <4>1. i \in 2 .. Len(toR) + 1 /\ i \in 2 .. Len(toR') + 1 /\ i - 1 \in 1 .. k
        BY <1>1, <3>2
      <4> QED
        BY <2>1, <2>2, <4>1
    <3> QED
      BY <3>1, <3>2
  <2>5. Noise(B[(k + 1) + 1])
    <3>1. (k + 1) + 1 \in 2 .. Len(toR') + 1 /\ ((k + 1) + 1) - 1 = k + 1
      BY <1>1
    <3> QED
      BY <2>2, <3>1
  <2>6. ASSUME NEW i \in (k + 1) + 2 .. Len(A) + 1 PROVE B[i] = A[i - 1]
    <3>1. /\ i \in 2 .. Len(toR') + 1 /\ i - 1 \in 2 .. Len(toR) + 1
          /\ i - 1 \in k + 2 .. Len(toR) + 1
      BY <1>1, <2>1
    <3>2. B[i] = toR'[i - 1] /\ A[i - 1] = toR[(i - 1) - 1]
      BY <2>1, <2>2, <3>1
    <3> QED
      BY <3>1, <3>2
  <2>7. A \in Seq(Items) /\ B \in Seq(Items) /\ InOrder(A, s.transit, s.cur)
    BY <1>3, <2>1, <2>2
  <2> HIDE DEF A, B
  <2>8. InOrder(B, s.transit, s.cur)
    BY <2>3, <2>4, <2>5, <2>6, <2>7, InOrderInsert
  <2> QED
    BY <2>8 DEF B
<1>4. toS' \in Seq(Items) /\ Faulty(toS', toS) /\ gap' = gap
  BY <1>1, FaultyNot
<1> QED
  BY <1>1, <1>2, <1>3, <1>4, LineStep

\* Silence comes before what is on the line.
LEMMA DelayStep == ASSUME IInv, Delay PROVE IInv'
<1> DEFINE x == Hdr("TIMEOUT", 0)
<1>1. UNCHANGED <<setting, s, r, gap>>
  BY DEF Delay
<1>2. /\ toR \in Seq(Items) /\ toS \in Seq(Items) /\ Len(toR) \in Nat
      /\ x \in Items /\ Noise(x)
  BY LineIs, LenProperties, HeaderItem DEF Types, Noise, Hdr
<1>3. \/ toS' = <<x>> \o toS /\ UNCHANGED toR
      \/ toR' = <<x>> \o toR /\ UNCHANGED toS
  BY DEF Delay
<1> HIDE DEF x
<1>4. CASE toS' = <<x>> \o toS /\ UNCHANGED toR
  BY <1>1, <1>2, <1>4, HeadIs, FaultyFront, BackLineStep
<1>5. CASE toR' = <<x>> \o toR /\ UNCHANGED toS
  <2>1. /\ toR' \in Seq(Items) /\ Len(toR') = Len(toR) + 1 /\ toR'[1] = x
        /\ \A i \in 2 .. Len(toR) + 1 : toR'[i] = toR[i - 1]
    BY <1>2, <1>5, HeadIs
  <2>2. Faulty(toR', toR)
    BY <1>2, <1>5, FaultyFront
  <2>3. /\ 0 \in 0 .. Len(toR) /\ 0 + 1 = 1 /\ 0 + 2 = 2
        /\ \A i \in 1 .. 0 : toR'[i] = toR[i]
    BY <1>2
  <2>4. Noise(toR'[0 + 1]) /\ \A i \in 0 + 2 .. Len(toR) + 1 : toR'[i] = toR[i - 1]
    BY <1>2, <2>1, <2>3
  <2> QED
    BY <1>1, <1>5, <2>1, <2>2, <2>3, <2>4, NoiseStep
<1> QED
  BY <1>3, <1>4, <1>5

\* Five CANs come after it.
LEMMA CancelStep == ASSUME IInv, Cancel PROVE IInv'
<1>1. UNCHANGED <<setting, s, r, gap>>
  BY DEF Cancel
<1>2. /\ toR \in Seq(Items) /\ toS \in Seq(Items) /\ Len(toR) \in Nat
      /\ Cans \in Items /\ Noise(Cans)
  BY LineIs, LenProperties, HeaderItem DEF Types, Noise, Hdr, Cans
<1>3. \/ toS' = Append(toS, Cans) /\ UNCHANGED toR
      \/ toR' = Append(toR, Cans) /\ UNCHANGED toS
  BY DEF Cancel
<1>4. CASE toS' = Append(toS, Cans) /\ UNCHANGED toR
  BY <1>1, <1>2, <1>4, AppendProperties, FaultyEnd, BackLineStep
<1>5. CASE toR' = Append(toR, Cans) /\ UNCHANGED toS
  <2> DEFINE k == Len(toR)
  <2>1. /\ toR' \in Seq(Items) /\ Len(toR') = k + 1 /\ toR'[k + 1] = Cans
        /\ \A i \in 1 .. k : toR'[i] = toR[i]
    BY <1>2, <1>5, AppendProperties
  <2>2. Faulty(toR', toR)
    BY <1>2, <1>5, FaultyEnd
  <2>3. k \in 0 .. Len(toR) /\ \A i \in k + 2 .. Len(toR) + 1 : toR'[i] = toR[i - 1]
    BY <1>2
  <2>4. Noise(toR'[k + 1])
    BY <1>2, <2>1
  <2> QED
    BY <1>1, <1>5, <2>1, <2>2, <2>3, <2>4, NoiseStep
<1> QED
  BY <1>3, <1>4, <1>5

-----------------------------------------------------------------------------
(* The invariant and what follows from it.                                 *)

\* What the transfer starts with.
LEMMA SettingIs ==
  ASSUME Init
  PROVE  /\ old \in Seq(Nat) /\ room \in Nat /\ bufsize \in Nat
         /\ r.file = old /\ (old # <<>> => r.exists)
<1>1. /\ old \in OldFiles \cup {<<>>} /\ room \in Rooms /\ bufsize \in BufSizes
      /\ r.file = old /\ r.exists = (old # <<>>)
  BY DEF Init
<1>2. old \in Seq(Nat)
  <2>1. CASE old \in OldFiles
    BY <2>1, FileAssumption, SeqMonotonic
  <2>2. CASE old = <<>>
    BY <2>2, EmptySeq
  <2> QED
    BY <1>1, <2>1, <2>2
<1> QED
  BY <1>1, <1>2, LimitsAssumption

\* The invariant holds of a transfer that has not begun.
LEMMA InitIInv == ASSUME Init PROVE IInv
<1>1. /\ s = [pc |-> "start", tries |-> 0, pos |-> 0, cur |-> 0, first |-> TRUE,
              unacked |-> 0, block |-> MaxBlock, errors |-> 0,
              transit |-> FALSE, success |-> FALSE]
      /\ r = [pc |-> "off", from |-> "init", errors |-> 0, tries |-> 0,
              file |-> old, exists |-> old # <<>>, skipped |-> FALSE,
              gaveUp |-> FALSE, complete |-> FALSE]
      /\ toR = <<>> /\ toS = <<>> /\ gap = FALSE
  BY DEF Init
<1>2. /\ old \in Seq(Nat) /\ room \in Nat /\ bufsize \in Nat
      /\ r.file = old /\ (old # <<>> => r.exists)
  BY SettingIs
<1>3. Len(<<>>) = 0 /\ <<>> \in Seq(Items)
  BY EmptySeq
<1>4. 0 \in Place
  BY FileIs DEF Place
<1>5. s \in SenderType
  BY <1>1, <1>4, LimitsAssumption DEF SenderType, SenderStates
<1>6. r \in ReceiverType
  <2>1. PICK e \in BOOLEAN : e = (old # <<>>)
    OBVIOUS
  <2>2. r = [pc |-> "off", from |-> "init", errors |-> 0, tries |-> 0,
             file |-> old, exists |-> e, skipped |-> FALSE,
             gaveUp |-> FALSE, complete |-> FALSE]
    BY <1>1, <2>1
  <2> QED
    BY <1>2, <2>2 DEF ReceiverType, ReceiverStates
<1>7. Typed
  BY <1>1, <1>2, <1>3, <1>5, <1>6 DEF Typed
<1>8. FramesOK
  BY <1>1, <1>3 DEF FramesOK, InOrder, Follows, LastOpen
<1>9. HeadersOK /\ AcksOK /\ TransitOK
  BY <1>1, <1>3, HasNone DEF HeadersOK, AcksOK, TransitOK
<1>10. FileOK /\ FromOK /\ BatchOK /\ ReportOK
  BY <1>1, <1>2 DEF FileOK, FromOK, BatchOK, ReportOK
<1>11. SuccessOK
  BY <1>1, <1>3, HasNone DEF SuccessOK, Believes, Streaming, NoLateInit
<1> QED
  BY <1>7, <1>8, <1>9, <1>10, <1>11 DEF IInv, Sound, ReceiverOK

\* A step of something else.
LEMMA StutterStep == ASSUME IInv, UNCHANGED vars PROVE IInv'
<1>1. /\ UNCHANGED <<setting, s, r, gap>> /\ UNCHANGED toR /\ UNCHANGED toS
  BY DEF vars
<1> QED
  BY <1>1, LineIs, FaultyNot, BackLineStep

\* Every step preserves the invariant.
LEMMA NextIInv == ASSUME IInv, [Next]_vars PROVE IInv'
<1>1. CASE Sender
  BY <1>1, StartStep, RqinitAnswerStep, FileAnswerStep, CrcSentStep, SendBlockStep,
     AckAnswerStep, LastAnswerStep, BackChannelStep, NothingBackStep, ZfinAnswerStep,
     ReportStep DEF Sender
<1>2. CASE Receiver
  BY <1>2, ReceiverStartStep, InitAnswerStep, NameAnswerStep, CrcAnswerStep,
     AttemptsOverStep, FrameAnswerStep, DataAnswerStep, OverandoutStep DEF Receiver
<1>3. CASE Damage
  BY <1>3, DamageStep
<1>4. CASE Lose
  BY <1>4, LoseStep
<1>5. CASE Delay
  BY <1>5, DelayStep
<1>6. CASE Cancel
  BY <1>6, CancelStep
<1>7. CASE UNCHANGED vars
  BY <1>7, StutterStep
<1> QED
  BY <1>1, <1>2, <1>3, <1>4, <1>5, <1>6, <1>7 DEF Next

(***************************************************************************)
(* The inductive invariant: as long as no subpacket has been dropped whole *)
(* the line is in order and the answers on it mean what the sender takes   *)
(* them for.                                                               *)
(***************************************************************************)
THEOREM ZModemInvariance == Spec => []IInv
<1>1. Init => IInv
  BY InitIInv
<1>2. IInv /\ [Next]_vars => IInv'
  BY NextIInv
<1> QED
  BY <1>1, <1>2, PTL DEF Spec

(***************************************************************************)
(* The receiver has the file it found or a beginning of the one that is    *)
(* sent: units are neither missing nor stored twice (recv_file_frame,      *)
(* handle_zrpos), for any number of errors and repeated frames.            *)
(***************************************************************************)
THEOREM ZFilePrefix == Spec => []FilePrefix
<1>1. IInv => FilePrefix
  <2> SUFFICES ASSUME IInv, ~gap, r.file # old PROVE IsPrefix(r.file, File)
    BY DEF FilePrefix
  <2>1. r.file \in Seq(Nat) /\ Beginning(r.file)
    BY DEF IInv, Typed, ReceiverType, Sound, ReceiverOK, FileOK
  <2>2. /\ Len(r.file) \in Nat /\ Len(r.file) <= Len(File)
        /\ \A k \in 1 .. Len(r.file) : r.file[k] = File[k]
    BY <2>1, LenProperties DEF Beginning
  <2>3. DOMAIN r.file = 1 .. Len(r.file) /\ DOMAIN File = 1 .. Len(File)
    BY <2>1, FileIs, LenProperties
  <2> QED
    BY <2>2, <2>3, FileIs DEF IsPrefix
<1> QED
  BY <1>1, ZModemInvariance, PTL

(***************************************************************************)
(* When send_file returns true ("If this is ZRINIT, Success", send_from)   *)
(* the receiver has the file, has skipped it or has given up on it.        *)
(***************************************************************************)
THEOREM SenderTrue == Spec => []SenderTruth
<1>1. IInv => SenderTruth
  BY DEF IInv, Sound, SuccessOK, Believes, Finished, SenderTruth
<1> QED
  BY <1>1, ZModemInvariance, PTL

(***************************************************************************)
(* A file that zUpload or recv_files reports as received is all there.     *)
(***************************************************************************)
THEOREM ReceiverTrue == Spec => []ReceiverTruth
<1>1. IInv => ReceiverTruth
  BY DEF IInv, Sound, ReceiverOK, ReportOK, ReceiverTruth
<1> QED
  BY <1>1, ZModemInvariance, PTL

\* The steps of the receiver leave the sender alone.
LEMMA SenderStays == ASSUME IInv, Receiver PROVE s' = s
<1>1. CASE ReceiverStart \/ AttemptsOver \/ Overandout
  BY <1>1 DEF ReceiverStart, AttemptsOver, Overandout, FrameFails, ReceiverWrites
<1>2. CASE InitAnswer
  BY <1>2 DEF InitAnswer, InitAgain, ReceiverWrites
<1>3. CASE NameAnswer
  <2>1. StartFile(AfterData(toR)) => s' = s
    BY DEF StartFile, ReceiveFrom, Skip, ReceiverWrites
  <2>2. ASSUME NEW what,
               \/ CancelSkip(what) \/ Skip(what) \/ InitAgain(what)
               \/ CancelFrame(r, what) \/ ReceiverWrites(what)
        PROVE  s' = s
    BY <2>2 DEF CancelSkip, Skip, InitAgain, CancelFrame, ReceiverWrites
  <2> DEFINE h    == ReceivedData(toR)
             good == IsData(h)
             znak == IF good THEN <<>> ELSE <<Hdr("ZNAK", 0)>>
  <2>3. \/ StartFile(AfterData(toR))
        \/ CASE r.from = "crc" -> IF h.type = "CAN" THEN CancelSkip(znak)
                                              ELSE Skip(znak)
             [] r.from = "init" ->
                  IF h.type = "CAN"
                    THEN r' = Cancelled(r) /\ ReceiverWrites(znak)
                    ELSE InitAgain(znak)
             [] r.from = "frame" ->
                  IF h.type = "CAN" THEN CancelFrame(r, znak)
                  ELSE /\ r' = [r EXCEPT !.pc = "frame", !.tries = @ + 1]
                       /\ ReceiverWrites(znak)
    BY <1>3 DEF NameAnswer
  <2>4. r.from \in {"init", "crc", "frame"}
    BY ReceiverIs DEF ReceiverType
  <2>5. \/ StartFile(AfterData(toR)) \/ CancelSkip(znak) \/ Skip(znak)
        \/ InitAgain(znak) \/ CancelFrame(r, znak) \/ ReceiverWrites(znak)
    <3> HIDE DEF h, znak
    <3>1. CASE r.from = "crc"
      BY <2>3, <3>1
    <3>2. CASE r.from = "init"
      BY <2>3, <3>2
    <3>3. CASE r.from = "frame"
      BY <2>3, <3>3
    <3> QED
      BY <2>4, <3>1, <3>2, <3>3
  <2> QED
    BY <2>1, <2>2, <2>5
<1>4. CASE CrcAnswer
  BY <1>4 DEF CrcAnswer, CancelSkip, Skip, ReceiveFrom, ReceiverWrites
<1>5. CASE FrameAnswer
  BY <1>5 DEF FrameAnswer, FileDone, FrameFails, CancelFrame, TryAgain, ReceiverWrites
<1>6. CASE DataAnswer
  BY <1>6 DEF DataAnswer, FrameFails, CancelFrame, ReceiverWrites
<1> QED
  BY <1>1, <1>2, <1>3, <1>4, <1>5, <1>6 DEF Receiver

(***************************************************************************)
(* The sender goes on after a ZCRCW only if what it has sent is stored,    *)
(* although recv_data acknowledges before it writes: unless the disk is    *)
(* full.                                                                   *)
(***************************************************************************)
THEOREM ZAckTrue == Spec => AckMeansStored
<1> DEFINE A == s.pc = "ack" /\ s'.pc = "poll" =>
                   s.cur <= Len(r.file) \/ room < Len(File) \/ gap
<1>1. ASSUME IInv, [Next]_vars PROVE A
  <2> SUFFICES ASSUME s.pc = "ack", s'.pc = "poll", ~gap
               PROVE  s.cur <= Len(r.file) \/ room < Len(File)
    OBVIOUS
  <2>1. AckAnswer
    <3>1. s' # s
      OBVIOUS
    <3>2. \/ Start \/ RqinitAnswer \/ FileAnswer \/ CrcSent \/ SendBlock
          \/ AckAnswer \/ LastAnswer \/ BackChannel \/ NothingBack
          \/ ZfinAnswer \/ Report \/ UNCHANGED s
      <4>1. Receiver => UNCHANGED s
        BY <1>1, SenderStays
      <4>2. Damage \/ Lose \/ Delay \/ Cancel => UNCHANGED s
        BY DEF Damage, Lose, Delay, Cancel
      <4> QED
        BY <1>1, <4>1, <4>2 DEF Next, Sender, vars
    <3> QED
      BY <3>1, <3>2 DEF Start, RqinitAnswer, FileAnswer, CrcSent, SendBlock, LastAnswer,
         BackChannel, NothingBack, ZfinAnswer, Report
  <2> DEFINE h == Received(toS)
  <2>2. s \in SenderType /\ toS \in Seq(Items) /\ \A i \in 1 .. Len(toS) : AckOK(toS[i], r.file)
    BY <1>1 DEF IInv, Typed, Sound, AcksOK
  <2>3. h.type = "ZACK" => \E i \in 1 .. Len(toS) : h = toS[i]
    BY <2>2, HeaderRead
  <2>4. h.type # "ZACK" => Returned(s, h, <<>>)
    BY <2>1 DEF AckAnswer
  <2>5. h.type = "ZACK" => s' = [s EXCEPT !.pc = IF h.pos = s.cur THEN "poll" ELSE @]
    BY <2>1 DEF AckAnswer
  <2> HIDE DEF h
  <2>6. h.type = "ZACK" /\ h.pos = s.cur
    <3>1. Returned(s, h, <<>>) /\ h.type # "ZACK" => s'.pc # "poll"
      BY <2>2 DEF Returned, Successful, SendFrom, Retreat, SenderType
    <3> QED
      BY <2>2, <2>4, <2>5, <3>1 DEF SenderType
  <2>7. AckOK(h, r.file)
    BY <2>2, <2>3, <2>6
  <2> QED
    BY <2>6, <2>7 DEF AckOK
<1> QED
  BY <1>1, ZModemInvariance, PTL DEF Spec, AckMeansStored
=============================================================================
