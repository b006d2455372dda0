---------------------------- MODULE SerialProofs ----------------------------
(***************************************************************************)
(* What is proved of the serial port of the terminal: Pacing, the rate at  *)
(* which bytes pass, and Stream, the reads that wait for them.  They share *)
(* no variable; each has its own inductive invariant and specification.    *)
(***************************************************************************)
EXTENDS Pacing, Stream, TLAPS, SequenceTheorems, WellFoundedInduction

-----------------------------------------------------------------------------
(***************************************************************************)
(* Pacing, for all rates, formats and sizes: the bound on the bytes that   *)
(* pass.                                                                   *)
(*                                                                         *)
(* The bound alone is not inductive.  A bucket that is not empty, the      *)
(* credit left and the time not yet paid for belong together: time moves   *)
(* worth from the first to the last, a refill from the last to the second, *)
(* bytes from the second to the first, and the sum never grows (BucketOK). *)
(***************************************************************************)
Rate == PerTick(dteBaud, fwBaud, format)

BucketOK ==
    \A dir \in Directions :
        debt[dir] = 0 \/ debt[dir] + credit[dir] + idle * Rate <= Cap * Unit

PacingIInv == TypeOK /\ BucketOK

(***************************************************************************)
(* Arithmetic: products of naturals, and bytes bought with a credit.       *)
(***************************************************************************)
LEMMA ProductNat == \A a, b \in Nat : a * b \in Nat
OBVIOUS

LEMMA Distributes == \A a, b \in Nat : (a + 1) * b = a * b + b
OBVIOUS

LEMMA BytesBought ==
  ASSUME NEW u \in Nat \ {0}, NEW r \in Nat, NEW n \in Nat, n <= r \div u
  PROVE  n * u <= r
<1>1. PICK q \in Nat : q = r \div u
  OBVIOUS
<1>2. q * u <= r
  BY <1>1
<1>3. n * u <= q * u
  BY <1>1
<1> QED
  BY <1>2, <1>3

(***************************************************************************)
(* A frame has seven to twelve bits, so the worth of a step of time is a   *)
(* natural number.                                                         *)
(***************************************************************************)
LEMMA FrameBits == \A fmt \in Nat : xi_frame_bits(fmt) \in 7 .. 12
BY DEF xi_frame_bits

LEMMA PerTickNat ==
  ASSUME NEW d \in DteBauds \cup {0}, NEW f \in FwBauds, NEW fmt \in Formats
  PROVE  PerTick(d, f, fmt) \in Nat
<1>1. xi_frame_bits(fmt) \in 7 .. 12
  BY RatesAssumption, FrameBits
<1>2. LineRate(d, f) \in DteBauds \cup FwBauds
  BY RatesAssumption DEF LineRate, Lesser, Greater
<1> QED
  BY <1>1, <1>2, RatesAssumption DEF PerTick

LEMMA RateNat == TypeOK => Rate \in Nat /\ Cap * Unit \in Nat /\ idle * Rate \in Nat
<1>1. TypeOK => Rate \in Nat
  BY PerTickNat DEF TypeOK, Rate
<1>2. Cap * Unit \in Nat
  BY SizesAssumption, ProductNat
<1> QED
  BY <1>1, <1>2, ProductNat DEF TypeOK

(***************************************************************************)
(* A refilled credit is within the cap and within what was earned.         *)
(***************************************************************************)
LEMMA RefilledBounds ==
  ASSUME TypeOK, NEW dir \in Directions
  PROVE  /\ Refilled(dir) \in 0 .. Cap * Unit
         /\ Refilled(dir) <= credit[dir] + idle * Rate
<1>1. credit[dir] \in 0 .. Cap * Unit
  BY DEF TypeOK
<1>2. Refilled(dir) = Lesser(credit[dir] + idle * Rate, Cap * Unit)
  BY DEF Refilled, Rate
<1> QED
  BY <1>1, <1>2, RateNat DEF Lesser

(***************************************************************************)
(* The credit of a call that passes n paid bytes.                          *)
(***************************************************************************)
LEMMA MeteredKeeps ==
  ASSUME TypeOK, BucketOK, NEW dir \in Directions, NEW n \in Nat,
         rateLimited => n * Unit <= Refilled(dir),
         Metered(dir, n), UNCHANGED line
  PROVE  /\ credit' \in [Directions -> 0 .. Cap * Unit]
         /\ idle' \in Nat
         /\ debt' \in [Directions -> Nat]
         /\ BucketOK'
<1>1. CASE ~rateLimited
  BY <1>1 DEF Metered, TypeOK, BucketOK, Rate, line
<1>2. CASE rateLimited
  <2>1. /\ credit' = [c \in Directions |->
                        IF c = dir THEN Refilled(c) - n * Unit ELSE Refilled(c)]
        /\ idle' = 0
        /\ debt' = [debt EXCEPT ![dir] = @ + n * Unit]
        /\ n * Unit <= Refilled(dir)
    BY <1>2 DEF Metered
  <2>2. n * Unit \in Nat
    BY SizesAssumption, ProductNat
  <2>3. \A c \in Directions : /\ Refilled(c) \in 0 .. Cap * Unit
                              /\ Refilled(c) <= credit[c] + idle * Rate
    BY RefilledBounds
  <2>4. \A c \in Directions : debt[c] \in Nat /\ credit[c] \in 0 .. Cap * Unit
    BY DEF TypeOK
  <2>5. Rate' = Rate /\ idle' * Rate' = 0
    BY <2>1, RateNat DEF Rate, line
  <2>6. ASSUME NEW c \in Directions
        PROVE  debt'[c] = 0 \/ debt'[c] + credit'[c] + idle' * Rate' <= Cap * Unit
    <3>1. CASE c = dir
      <4>1. debt'[c] = debt[c] + n * Unit /\ credit'[c] = Refilled(c) - n * Unit
        BY <2>1, <3>1 DEF TypeOK
      <4>2. debt'[c] + credit'[c] = debt[c] + Refilled(c)
        BY <2>2, <2>3, <2>4, <4>1
      <4>3. debt[c] + Refilled(c) <= Cap * Unit
        BY <2>3, <2>4, RateNat DEF BucketOK
      <4> QED
        BY <2>2, <2>3, <2>4, <2>5, <4>1, <4>2, <4>3, RateNat
    <3>2. CASE c # dir
      <4>1. debt'[c] = debt[c] /\ credit'[c] = Refilled(c)
        BY <2>1, <3>2 DEF TypeOK
      <4> QED
        BY <2>3, <2>4, <2>5, <4>1, RateNat DEF BucketOK
    <3> QED
      BY <3>1, <3>2
  <2>7. credit' \in [Directions -> 0 .. Cap * Unit]
    BY <2>1, <2>2, <2>3, RateNat
  <2>8. debt' \in [Directions -> Nat]
    BY <2>1, <2>2 DEF TypeOK
  <2> QED
    BY <2>1, <2>6, <2>7, <2>8 DEF BucketOK
<1> QED
  BY <1>1, <1>2

(***************************************************************************)
(* What a call may pass is a natural number of paid bytes.                 *)
(***************************************************************************)
LEMMA BudgetPaid ==
  ASSUME TypeOK, NEW dir \in Directions, NEW want \in Nat, NEW n \in Nat,
         n <= Budget(dir, want)
  PROVE  rateLimited => n * Unit <= Refilled(dir)
<1>1. Refilled(dir) \in Nat
  BY RefilledBounds, RateNat
<1>2. rateLimited => n <= Refilled(dir) \div Unit
  BY <1>1, SizesAssumption DEF Budget, Lesser
<1> QED
  BY <1>1, <1>2, BytesBought, SizesAssumption

LEMMA BudgetNat ==
  ASSUME TypeOK, NEW dir \in Directions, NEW want \in Nat
  PROVE  Budget(dir, want) \in Nat
<1>1. Refilled(dir) \in Nat /\ Refilled(dir) \div Unit \in Nat
  BY RefilledBounds, RateNat, SizesAssumption
<1> QED
  BY <1>1 DEF Budget, Lesser

(***************************************************************************)
(* The first state: nothing owed, nothing earned.                          *)
(***************************************************************************)
LEMMA PacingInitInv == Init => PacingIInv
<1> SUFFICES ASSUME Init PROVE PacingIInv
  OBVIOUS
<1>1. TypeOK
  BY SizesAssumption, ProductNat DEF Init, TypeOK
<1>2. BucketOK
  BY DEF Init, BucketOK
<1> QED
  BY <1>1, <1>2 DEF PacingIInv

(***************************************************************************)
(* Every call and every step of time preserves the invariant.              *)
(***************************************************************************)
LEMMA PacingNextInv == PacingIInv /\ [Next]_vars => PacingIInv'
<1> SUFFICES ASSUME PacingIInv, [Next]_vars PROVE PacingIInv'
  OBVIOUS
<1>0. TypeOK /\ BucketOK
  BY DEF PacingIInv
<1> USE SizesAssumption
<1>1. ASSUME NEW len \in 1 .. Supply, Write(len) PROVE PacingIInv'
  <2>1. CASE Match
    <3> DEFINE n == Lesser(Budget("tx", len), RingCap - ring["tx"])
    <3>1. /\ Metered("tx", n) /\ UNCHANGED line
          /\ ring' = [ring EXCEPT !["tx"] = @ + n]
          /\ supply' = [supply EXCEPT !["tx"] = @ - n]
          /\ len <= supply["tx"]
      BY <1>1, <2>1 DEF Write
    <3>2. "tx" \in Directions /\ Budget("tx", len) \in Nat /\ Budget("tx", len) <= len
      BY <1>0, BudgetNat, RefilledBounds, RateNat DEF Directions, Budget, Lesser
    <3>3. n \in Nat /\ n <= Budget("tx", len) /\ n <= RingCap - ring["tx"]
      BY <1>0, <3>2 DEF Lesser, TypeOK
    <3>4. rateLimited => n * Unit <= Refilled("tx")
      BY <1>0, <3>2, <3>3, BudgetPaid
    <3> HIDE DEF n
    <3>5. /\ credit' \in [Directions -> 0 .. Cap * Unit] /\ idle' \in Nat
          /\ debt' \in [Directions -> Nat] /\ BucketOK'
      BY <1>0, <3>1, <3>2, <3>3, <3>4, MeteredKeeps
    <3>6. ring' \in [Directions -> 0 .. RingCap] /\ supply' \in [Directions -> 0 .. Supply]
      BY <1>0, <3>1, <3>2, <3>3 DEF TypeOK
    <3> QED
      BY <1>0, <3>1, <3>5, <3>6 DEF PacingIInv, TypeOK, line
  <2>2. CASE ~Match
    BY <1>0, <1>1, <2>2 DEF Write, PacingIInv, TypeOK, BucketOK, Rate, line, Directions
  <2> QED
    BY <2>1, <2>2
<1>2. ASSUME NEW len \in 1 .. Supply, Read(len) PROVE PacingIInv'
  <2> DEFINE n == Lesser(Budget("rx", len), ring["rx"])
  <2>1. /\ Metered("rx", n) /\ UNCHANGED line
        /\ ring' = [ring EXCEPT !["rx"] = @ - n] /\ supply' = supply
    BY <1>2 DEF Read
  <2>2. "rx" \in Directions /\ Budget("rx", len) \in Nat
    BY <1>0, BudgetNat DEF Directions
  <2>3. n \in Nat /\ n <= Budget("rx", len) /\ n <= ring["rx"]
    BY <1>0, <2>2 DEF Lesser, TypeOK
  <2>4. rateLimited => n * Unit <= Refilled("rx")
    BY <1>0, <2>2, <2>3, BudgetPaid
  <2> HIDE DEF n
  <2>5. /\ credit' \in [Directions -> 0 .. Cap * Unit] /\ idle' \in Nat
        /\ debt' \in [Directions -> Nat] /\ BucketOK'
    BY <1>0, <2>1, <2>2, <2>3, <2>4, MeteredKeeps
  <2>6. ring' \in [Directions -> 0 .. RingCap]
    BY <1>0, <2>1, <2>2, <2>3 DEF TypeOK
  <2> QED
    BY <1>0, <2>1, <2>5, <2>6 DEF PacingIInv, TypeOK, line
<1>3. CASE Ask
  <2>1. Metered("rx", 0) /\ UNCHANGED line /\ UNCHANGED <<ring, supply>>
    BY <1>3 DEF Ask
  <2>2. "rx" \in Directions /\ 0 * Unit <= Refilled("rx")
    BY <1>0, RefilledBounds, RateNat DEF Directions
  <2>3. /\ credit' \in [Directions -> 0 .. Cap * Unit] /\ idle' \in Nat
        /\ debt' \in [Directions -> Nat] /\ BucketOK'
    BY <1>0, <2>1, <2>2, MeteredKeeps
  <2> QED
    BY <1>0, <2>1, <2>3 DEF PacingIInv, TypeOK, line
<1>4. ASSUME NEW baud \in DteBauds \cup {0}, set_baud(baud) PROVE PacingIInv'
  BY <1>0, <1>4 DEF set_baud, PacingIInv, TypeOK, BucketOK, Directions
<1>5. ASSUME NEW enabled \in BOOLEAN, set_rate_limit(enabled) PROVE PacingIInv'
  BY <1>0, <1>5 DEF set_rate_limit, PacingIInv, TypeOK, BucketOK
<1>6. ASSUME NEW baud \in FwBauds, NEW fmt \in Formats, SetLine(baud, fmt) PROVE PacingIInv'
  BY <1>0, <1>6 DEF SetLine, PacingIInv, TypeOK, BucketOK
<1>7. CASE Prints
  BY <1>0, <1>7 DEF Prints, PacingIInv, TypeOK, BucketOK, Rate, line, Directions
<1>8. CASE Take
  BY <1>0, <1>8 DEF Take, PacingIInv, TypeOK, BucketOK, Rate, line, Directions
<1>9. CASE Tick
  <2>1. /\ idle' = idle + 1
        /\ debt' = [dir \in Directions |-> Greater(0, debt[dir] - Rate)]
        /\ UNCHANGED line /\ UNCHANGED <<credit, ring, supply>>
    BY <1>9 DEF Tick, Rate
  <2>2. Rate' = Rate /\ Rate \in Nat /\ idle \in Nat
    BY <1>0, <2>1, RateNat DEF Rate, line, TypeOK
  <2>3. idle' * Rate' = idle * Rate + Rate
    BY <2>1, <2>2, Distributes
  <2>4. TypeOK'
    BY <1>0, <2>1, <2>2 DEF TypeOK, line, Greater
  <2>5. ASSUME NEW dir \in Directions
        PROVE  debt'[dir] = 0 \/ debt'[dir] + credit'[dir] + idle' * Rate' <= Cap * Unit
    <3>1. /\ debt'[dir] = Greater(0, debt[dir] - Rate) /\ credit'[dir] = credit[dir]
          /\ debt[dir] \in Nat /\ credit[dir] \in Int
      BY <1>0, <2>1 DEF TypeOK
    <3> QED
      BY <1>0, <2>2, <2>3, <3>1, RateNat DEF BucketOK, Greater
  <2> QED
    BY <2>4, <2>5 DEF PacingIInv, BucketOK
<1>10. CASE UNCHANGED vars
  BY <1>0, <1>10 DEF vars, PacingIInv, TypeOK, BucketOK, Rate
<1> QED
  BY <1>1, <1>2, <1>3, <1>4, <1>5, <1>6, <1>7, <1>8, <1>9, <1>10 DEF Next

(***************************************************************************)
(* The invariant holds in every reachable state.                           *)
(***************************************************************************)
THEOREM PacingInvariance == Spec => []PacingIInv
<1>1. Init => PacingIInv
  BY PacingInitInv
<1>2. PacingIInv /\ [Next]_vars => PacingIInv'
  BY PacingNextInv
<1> QED
  BY <1>1, <1>2, PTL DEF Spec

(***************************************************************************)
(* No credit is ever negative or above the cap (ximodem.cpp:192).          *)
(***************************************************************************)
THEOREM PacingTypeCorrect == Spec => []TypeOK
<1>1. PacingIInv => TypeOK
  BY DEF PacingIInv
<1> QED
  BY <1>1, PacingInvariance, PTL

(***************************************************************************)
(* The throughput in each direction is metered to the line rate and Cap    *)
(* (ximodem.h:88), whatever the rates, the frames and the calls.           *)
(***************************************************************************)
THEOREM ThroughputMetered == Spec => []RateKept
<1>1. PacingIInv => RateKept
  BY RateNat, SizesAssumption DEF PacingIInv, TypeOK, BucketOK, RateKept
<1> QED
  BY <1>1, PacingInvariance, PTL

-----------------------------------------------------------------------------
(***************************************************************************)
(* Stream, for any bytes, lengths and time limit, and any width of the     *)
(* clock above the longest wait: a call gives up only after its whole time *)
(* and returns what it promises.                                           *)
(*                                                                         *)
(* TimeOK says how long the call really waits: e, of which clock and start *)
(* are the two ends on a clock that wraps and quiet is what the properties *)
(* see.  FindOK says which part of the target the bytes taken end with: no *)
(* other than the one counted, if the first byte of the target is nowhere  *)
(* else in it (FirstApart).  ParseOK says what has become of each byte.    *)
(***************************************************************************)
FirstApart == \A i \in 2 .. Len(Target) : Target[i] # Target[1]

Terminators == {<<>>} \cup {<<c, c>> : c \in Others}

ReadCalls ==
    [op : {"read"}, length : Lengths \cup {NoLimit}, until : Others \cup {None},
     text : Seq(Bytes)]
FindCalls ==
    [op : {"find"}, terminator : Terminators, index : Nat, termIndex : Nat]
ParseCalls ==
    [op : {"parse"}, decimal : BOOLEAN, seeking : BOOLEAN, negative : BOOLEAN,
     digits : Seq(Bytes), fraction : Seq(Bytes), point : BOOLEAN]

\* e is the time since start.
Waited(e) ==
    /\ clock = (start + e) % Wrap
    /\ quiet = IF e < Timeout THEN e ELSE Timeout
    /\ e < IF step = "look" THEN Timeout ELSE Timeout + MaxWait

TimeOK ==
    /\ clock \in 0 .. Wrap - 1 /\ start \in 0 .. Wrap - 1
    /\ quiet \in 0 .. Timeout
    /\ step \in {"look", "check"}
    /\ end = "no" => \E e \in 0 .. Wrap - 1 : Waited(e)
    /\ FullWait

BytesOK == arrived \in Seq(Bytes) /\ got \in Seq(Bytes)

CallOK ==
    \/ end = "idle" /\ call.op = "none"
    \/ call.op = "read" /\ end \in {"no", "full", "stop", "silence"}
    \/ call.op = "find" /\ end \in {"no", "match", "stop", "silence"}
    \/ call.op = "parse" /\ end \in {"no", "stop", "silence"}

ReadOK == call.op = "read" =>
    /\ call \in ReadCalls
    /\ ReadExact

\* The last k bytes of s are the first k of the target.
EndsWith(s, k) ==
    /\ k <= Len(s)
    /\ \A j \in 1 .. k : s[Len(s) - k + j] = Target[j]

\* index is what a search for the target has after the bytes of s.
Tracks(s, index) ==
    /\ index < Len(Target)
    /\ \A k \in 1 .. Len(Target) - 1 : EndsWith(s, k) <=> k = index

FindOK == call.op = "find" =>
    /\ call \in FindCalls
    /\ FirstApart => /\ FindExact
                     /\ end = "no" => Tracks(got, call.index)

ParseOK == call.op = "parse" =>
    /\ call \in ParseCalls
    /\ ParseExact
    /\ ~call.point => call.fraction = <<>>
    /\ IF call.seeking THEN ~call.point ELSE got # <<>>
    /\ end = "stop" => arrived # <<>>

StreamIInv == TimeOK /\ BytesOK /\ CallOK /\ ReadOK /\ FindOK /\ ParseOK

-----------------------------------------------------------------------------
(* Numbers.                                                                *)

\* The sizes that the steps compute with.
LEMMA StreamSizes ==
  /\ Timeout \in Nat \ {0} /\ MaxWait \in Nat \ {0} /\ Wrap \in Nat \ {0}
  /\ Timeout + MaxWait < Wrap
BY StreamAssumption

\* The bytes with a meaning are apart from the others.
LEMMA BytesApart ==
  /\ "-" \notin Digits /\ "." \notin Digits /\ "NUL" \notin Digits
  /\ {"-", ".", "NUL"} \subseteq Bytes /\ Digits \subseteq Bytes /\ Others \subseteq Bytes
BY StreamAssumption DEF Special, Bytes

\* Once around the clock, and not yet.
LEMMA Around == \A n \in 0 .. Wrap - 1 : n % Wrap = n /\ (n + Wrap) % Wrap = n
BY StreamSizes, Z3

\* Nothing has passed yet.
LEMMA NoneWaited == \A n \in 0 .. Wrap - 1 : (n + 0) % Wrap = n
<1>1. \A n \in 0 .. Wrap - 1 : n + 0 = n
  BY StreamSizes
<1> QED
  BY <1>1, Around

\* The clock as the code compares it gives the time that has passed.
LEMMA Elapsed ==
  ASSUME NEW s \in 0 .. Wrap - 1, NEW e \in 0 .. Wrap - 1
  PROVE  (((s + e) % Wrap) + Wrap - s) % Wrap = e
<1> USE StreamSizes
<1>1. CASE s + e < Wrap
  <2>1. (s + e) % Wrap = s + e
    BY <1>1, Around
  <2>2. (s + e) + Wrap - s = e + Wrap
    OBVIOUS
  <2> QED
    BY <2>1, <2>2, Around
<1>2. CASE ~(s + e < Wrap)
  <2>1. s + e - Wrap \in 0 .. Wrap - 1 /\ (s + e - Wrap) + Wrap = s + e
    BY <1>2
  <2>2. (s + e) % Wrap = s + e - Wrap
    BY <2>1, Around
  <2>3. (s + e - Wrap) + Wrap - s = e
    OBVIOUS
  <2> QED
    BY <2>2, <2>3, Around
<1> QED
  BY <1>1, <1>2

\* Time that passes on the clock passes since start.
LEMMA Passes ==
  ASSUME NEW s \in 0 .. Wrap - 1, NEW e \in Nat, NEW d \in Nat, e + d < Wrap
  PROVE  (((s + e) % Wrap) + d) % Wrap = (s + (e + d)) % Wrap
<1> USE StreamSizes
<1>1. CASE s + e < Wrap
  <2>1. (s + e) % Wrap = s + e
    BY <1>1, Around
  <2>2. (s + e) + d = s + (e + d)
    OBVIOUS
  <2> QED
    BY <2>1, <2>2
<1>2. CASE ~(s + e < Wrap)
  <2>1. s + e - Wrap \in 0 .. Wrap - 1 /\ (s + e - Wrap) + Wrap = s + e
    BY <1>2
  <2>2. (s + e) % Wrap = s + e - Wrap
    BY <2>1, Around
  <2>3. /\ (s + e - Wrap) + d \in 0 .. Wrap - 1
        /\ s + (e + d) = ((s + e - Wrap) + d) + Wrap
    BY <1>2
  <2>4. (s + (e + d)) % Wrap = (s + e - Wrap) + d
    BY <2>3, Around
  <2>5. ((s + e - Wrap) + d) % Wrap = (s + e - Wrap) + d
    BY <2>3, Around
  <2> QED
    BY <2>2, <2>4, <2>5
<1> QED
  BY <1>1, <1>2

\* A set of numbers that is not empty has a least member.
LEMMA LeastNumber ==
  ASSUME NEW T \in SUBSET Nat, T # {}
  PROVE  \E n \in T : \A k \in T : n <= k
<1> DEFINE R == OpToRel(<, Nat)
<1>1. \A x, y \in Nat : <<y, x>> \in R <=> y < x
  BY DEF OpToRel
<1>2. IsWellFoundedOn(R, Nat)
  BY NatLessThanWellFounded
<1> HIDE DEF R
<1>3. PICK x \in T : \A y \in T : <<y, x>> \notin R
  BY <1>2, WFMin
<1>4. \A y \in T : y \in Nat /\ x \in Nat /\ ~(y < x)
  BY <1>1, <1>3
<1> QED
  BY <1>4

\* A set that has 0, and the successor of each of its numbers, has them all.
LEMMA CountUp ==
  ASSUME NEW T, 0 \in T, \A n \in Nat : n \in T => n + 1 \in T
  PROVE  Nat \subseteq T
<1> DEFINE Bad == Nat \ T
<1> SUFFICES ASSUME Bad # {} PROVE FALSE
  OBVIOUS
<1>1. Bad \in SUBSET Nat
  OBVIOUS
<1>2. PICK n \in Bad : \A k \in Bad : n <= k
  <2> HIDE DEF Bad
  <2> QED
    BY <1>1, LeastNumber
<1>3. n # 0 /\ n \in Nat
  OBVIOUS
<1>4. n - 1 \in Nat /\ n - 1 \notin Bad
  BY <1>2, <1>3
<1> QED
  BY <1>3, <1>4

-----------------------------------------------------------------------------
(* The digits of a text.                                                   *)

\* g[n] is the digits among the first n bytes of s.
Collects(s, g, k) ==
    /\ g[0] = <<>>
    /\ \A n \in 1 .. k :
         g[n] = IF s[n] \in Digits THEN Append(g[n - 1], s[n]) ELSE g[n - 1]

\* There is such a function.
LEMMA DigitsExist ==
  ASSUME NEW s \in Seq(Bytes)
  PROVE  \E g \in [0 .. Len(s) -> Seq(Bytes)] : Collects(s, g, Len(s))
<1> DEFINE T == {k \in Nat : k <= Len(s) =>
                   \E g \in [0 .. k -> Seq(Bytes)] : Collects(s, g, k)}
<1>1. 0 \in T
  <2> DEFINE g == [n \in 0 .. 0 |-> <<>>]
  <2>1. g \in [0 .. 0 -> Seq(Bytes)] /\ Collects(s, g, 0)
    BY DEF Collects
  <2> HIDE DEF g
  <2> QED
    BY <2>1
<1>2. ASSUME NEW k \in Nat, k \in T PROVE k + 1 \in T
  <2> SUFFICES ASSUME k + 1 <= Len(s)
               PROVE  \E g \in [0 .. k + 1 -> Seq(Bytes)] : Collects(s, g, k + 1)
    OBVIOUS
  <2>1. PICK h \in [0 .. k -> Seq(Bytes)] : Collects(s, h, k)
    BY <1>2
  <2> DEFINE v == IF s[k + 1] \in Digits THEN Append(h[k], s[k + 1]) ELSE h[k]
             g == [n \in 0 .. k + 1 |-> IF n = k + 1 THEN v ELSE h[n]]
  <2>2. v \in Seq(Bytes)
    <3>1. s[k + 1] \in Bytes
      OBVIOUS
    <3>2. h[k] \in Seq(Bytes)
      OBVIOUS
    <3> QED
      BY <3>1, <3>2
  <2>3. v = IF s[k + 1] \in Digits THEN Append(h[k], s[k + 1]) ELSE h[k]
    OBVIOUS
  <2> HIDE DEF v
  <2>4. g \in [0 .. k + 1 -> Seq(Bytes)] /\ g[k + 1] = v /\ \A n \in 0 .. k : g[n] = h[n]
    BY <2>2
  <2> HIDE DEF g
  <2>5. Collects(s, g, k + 1)
    <3>1. g[0] = <<>>
      BY <2>1, <2>4 DEF Collects
    <3>2. ASSUME NEW n \in 1 .. k + 1
          PROVE  g[n] = IF s[n] \in Digits THEN Append(g[n - 1], s[n]) ELSE g[n - 1]
      <4>1. CASE n = k + 1
        <5>1. g[n - 1] = h[k] /\ g[n] = v
          BY <2>4, <4>1
        <5> QED
          BY <2>3, <4>1, <5>1
      <4>2. CASE n \in 1 .. k
        <5>1. g[n - 1] = h[n - 1] /\ g[n] = h[n]
          BY <2>4, <4>2
        <5> QED
          BY <2>1, <4>2, <5>1 DEF Collects
      <4> QED
        BY <4>1, <4>2
    <3> QED
      BY <3>1, <3>2 DEF Collects
  <2> QED
    BY <2>4, <2>5
<1> HIDE DEF T
<1>3. Len(s) \in T
  BY <1>1, <1>2, CountUp
<1> QED
  BY <1>3 DEF T

\* On texts that begin alike such functions agree as far as that.
LEMMA DigitsAgree ==
  ASSUME NEW s, NEW t, NEW g, NEW h, NEW k \in Nat,
         Collects(s, g, k), Collects(t, h, k), \A n \in 1 .. k : s[n] = t[n]
  PROVE  g[k] = h[k]
<1> DEFINE T == {n \in Nat : n <= k => g[n] = h[n]}
<1>1. 0 \in T
  BY DEF Collects
<1>2. ASSUME NEW n \in Nat, n \in T PROVE n + 1 \in T
  <2> SUFFICES ASSUME n + 1 <= k PROVE g[n + 1] = h[n + 1]
    OBVIOUS
  <2>1. n + 1 \in 1 .. k /\ (n + 1) - 1 = n /\ g[n] = h[n]
    BY <1>2
  <2>2. s[n + 1] = t[n + 1]
    BY <2>1
  <2>3. g[n + 1] = IF s[n + 1] \in Digits THEN Append(g[n], s[n + 1]) ELSE g[n]
    BY <2>1 DEF Collects
  <2>4. h[n + 1] = IF t[n + 1] \in Digits THEN Append(h[n], t[n + 1]) ELSE h[n]
    BY <2>1 DEF Collects
  <2> QED
    BY <2>1, <2>2, <2>3, <2>4
<1> HIDE DEF T
<1>3. k \in T
  BY <1>1, <1>2, CountUp
<1> QED
  BY <1>3 DEF T

\* DigitsOf is the last value of such a function.
LEMMA DigitsCollected ==
  ASSUME NEW s \in Seq(Bytes)
  PROVE  \E g \in [0 .. Len(s) -> Seq(Bytes)] :
            Collects(s, g, Len(s)) /\ DigitsOf(s) = g[Len(s)]
<1> DEFINE Value(f, n) ==
             IF n = 0 THEN <<>>
             ELSE IF s[n] \in Digits THEN Append(f[n - 1], s[n]) ELSE f[n - 1]
           IsIt(f) == f = [n \in 0 .. Len(s) |-> Value(f, n)]
           f == CHOOSE f : IsIt(f)
<1>1. PICK g \in [0 .. Len(s) -> Seq(Bytes)] : Collects(s, g, Len(s))
  BY DigitsExist
<1>2. DigitsOf(s) = f[Len(s)]
  BY DEF DigitsOf
<1>3. ASSUME NEW n \in 0 .. Len(s) PROVE g[n] = Value(g, n)
  <2>1. n = 0 \/ n \in 1 .. Len(s)
    OBVIOUS
  <2> QED
    BY <1>1, <2>1 DEF Collects
<1>4. \A h : (\A n \in 0 .. Len(s) : h[n] = Value(h, n)) => Collects(s, h, Len(s))
  BY DEF Collects
<1> HIDE DEF Value
<1>5. IsIt(g)
  <2>1. g = [n \in 0 .. Len(s) |-> g[n]]
    OBVIOUS
  <2> QED
    BY <1>3, <2>1
<1>6. IsIt(f)
  <2>1. \E x : IsIt(x)
    BY <1>5
  <2> HIDE DEF IsIt
  <2> QED
    BY <2>1
<1> HIDE DEF f
<1>7. \A n \in 0 .. Len(s) : f[n] = Value(f, n)
  BY <1>6
<1>8. Collects(s, f, Len(s))
  BY <1>4, <1>7
<1>9. f[Len(s)] = g[Len(s)]
  <2>1. Len(s) \in Nat
    OBVIOUS
  <2> QED
    BY <1>1, <1>8, <2>1, DigitsAgree
<1> QED
  BY <1>1, <1>2, <1>9

\* One byte more is one digit more, or none.
LEMMA DigitsAppend ==
  ASSUME NEW s \in Seq(Bytes), NEW c \in Bytes
  PROVE  DigitsOf(Append(s, c)) =
            IF c \in Digits THEN Append(DigitsOf(s), c) ELSE DigitsOf(s)
<1> DEFINE t == Append(s, c)
<1>1. t \in Seq(Bytes) /\ Len(t) = Len(s) + 1 /\ t[Len(s) + 1] = c
      /\ \A n \in 1 .. Len(s) : t[n] = s[n]
  OBVIOUS
<1>2. PICK g \in [0 .. Len(s) -> Seq(Bytes)] :
        Collects(s, g, Len(s)) /\ DigitsOf(s) = g[Len(s)]
  BY DigitsCollected
<1> HIDE DEF t
<1>3. PICK h \in [0 .. Len(t) -> Seq(Bytes)] :
        Collects(t, h, Len(t)) /\ DigitsOf(t) = h[Len(t)]
  BY <1>1, DigitsCollected
<1>4. Collects(t, h, Len(s))
  BY <1>1, <1>3 DEF Collects
<1>5. g[Len(s)] = h[Len(s)]
  <2>1. Len(s) \in Nat /\ \A n \in 1 .. Len(s) : s[n] = t[n]
    BY <1>1
  <2> QED
    BY <1>2, <1>4, <2>1, DigitsAgree
<1>6. h[Len(s) + 1] = IF t[Len(s) + 1] \in Digits THEN Append(h[Len(s)], t[Len(s) + 1])
                      ELSE h[Len(s)]
  BY <1>1, <1>3 DEF Collects
<1> QED
  BY <1>1, <1>2, <1>3, <1>5, <1>6 DEF t

\* Nothing has no digits.
LEMMA NoDigits == DigitsOf(<<>>) = <<>>
<1>1. <<>> \in Seq(Bytes) /\ Len(<<>>) = 0
  OBVIOUS
<1> QED
  BY <1>1, DigitsCollected DEF Collects

-----------------------------------------------------------------------------
(* The target among the bytes taken.                                       *)

\* An occurrence byte by byte.
LEMMA OccursAt ==
  ASSUME NEW s \in Seq(Bytes), Target \in Seq(Bytes),
         NEW i \in 0 .. Len(s) - Len(Target)
  PROVE  SubSeq(s, i + 1, i + Len(Target)) = Target
            <=> \A j \in 1 .. Len(Target) : s[i + j] = Target[j]
<1> DEFINE part == SubSeq(s, i + 1, i + Len(Target))
<1>1. /\ part \in Seq(Bytes) /\ Len(part) = Len(Target)
      /\ \A j \in 1 .. Len(Target) : part[j] = s[i + j]
  <2>1. /\ i + 1 \in 1 .. Len(s) + 1 /\ i + Len(Target) \in i .. Len(s)
        /\ (i + Len(Target)) - (i + 1) + 1 = Len(Target)
    OBVIOUS
  <2>2. /\ part \in Seq(Bytes) /\ Len(part) = Len(Target)
    BY <2>1, SubSeqProperties
  <2>3. ASSUME NEW j \in 1 .. Len(Target) PROVE part[j] = s[i + j]
    <3>1. part[j] = s[(i + 1) + j - 1]
      BY <2>1, SubSeqProperties
    <3>2. (i + 1) + j - 1 = i + j
      BY <2>1
    <3> QED
      BY <3>1, <3>2
  <2> QED
    BY <2>2, <2>3
<1> HIDE DEF part
<1>2. part = Target <=> \A j \in 1 .. Len(Target) : part[j] = Target[j]
  BY <1>1, SeqEqual
<1> QED
  BY <1>1, <1>2 DEF part

\* The target is where it was, or ends with the new byte.
LEMMA OccursAppend ==
  ASSUME NEW s \in Seq(Bytes), NEW c \in Bytes, Target \in Seq(Bytes)
  PROVE  Occurs(Target, Append(s, c)) <=>
            Occurs(Target, s) \/ EndsWith(Append(s, c), Len(Target))
<1> DEFINE t == Append(s, c)
<1>1. /\ t \in Seq(Bytes) /\ Len(t) = Len(s) + 1 /\ Len(s) \in Nat /\ Len(Target) \in Nat
      /\ \A n \in 1 .. Len(s) : t[n] = s[n]
  OBVIOUS
<1> HIDE DEF t
<1>2. ASSUME NEW i \in 0 .. Len(s) - Len(Target)
      PROVE  SubSeq(t, i + 1, i + Len(Target)) = Target
                <=> SubSeq(s, i + 1, i + Len(Target)) = Target
  <2>1. i \in 0 .. Len(t) - Len(Target)
    BY <1>1
  <2>2. \A j \in 1 .. Len(Target) : t[i + j] = s[i + j]
    BY <1>1
  <2> QED
    BY <1>1, <2>1, <2>2, OccursAt
<1>3. ASSUME Len(Target) <= Len(t)
      PROVE  SubSeq(t, (Len(t) - Len(Target)) + 1, (Len(t) - Len(Target)) + Len(Target)) = Target
                <=> EndsWith(t, Len(Target))
  <2>1. Len(t) - Len(Target) \in 0 .. Len(t) - Len(Target)
    BY <1>1, <1>3
  <2> QED
    BY <1>1, <1>3, <2>1, OccursAt DEF EndsWith
<1>4. Occurs(Target, s) => Occurs(Target, t)
  <2> SUFFICES ASSUME NEW i \in 0 .. Len(s) - Len(Target),
                      SubSeq(s, i + 1, i + Len(Target)) = Target
               PROVE  Occurs(Target, t)
    BY DEF Occurs
  <2>1. i \in 0 .. Len(t) - Len(Target)
    BY <1>1
  <2>2. SubSeq(t, i + 1, i + Len(Target)) = Target
    BY <1>2
  <2> QED
    BY <2>1, <2>2 DEF Occurs
<1>5. EndsWith(t, Len(Target)) => Occurs(Target, t)
  <2> SUFFICES ASSUME EndsWith(t, Len(Target)) PROVE Occurs(Target, t)
    OBVIOUS
  <2>1. Len(Target) <= Len(t)
    BY DEF EndsWith
  <2>2. Len(t) - Len(Target) \in 0 .. Len(t) - Len(Target)
    BY <1>1, <2>1
  <2> QED
    BY <1>3, <2>1, <2>2 DEF Occurs
<1>6. Occurs(Target, t) => Occurs(Target, s) \/ EndsWith(t, Len(Target))
  <2> SUFFICES ASSUME NEW i \in 0 .. Len(t) - Len(Target),
                      SubSeq(t, i + 1, i + Len(Target)) = Target
               PROVE  Occurs(Target, s) \/ EndsWith(t, Len(Target))
    BY DEF Occurs
  <2>1. CASE i \in 0 .. Len(s) - Len(Target)
    BY <1>2, <2>1 DEF Occurs
  <2>2. CASE i = Len(t) - Len(Target)
    BY <1>1, <1>3, <2>2
  <2> QED
    BY <1>1, <2>1, <2>2
<1> QED
  BY <1>4, <1>5, <1>6 DEF t

\* A beginning of the target ends with the new byte when the one before it ended
\* just before.
LEMMA EndsAppend ==
  ASSUME NEW s \in Seq(Bytes), NEW c \in Bytes, NEW k \in Nat
  PROVE  EndsWith(Append(s, c), k + 1) <=> EndsWith(s, k) /\ c = Target[k + 1]
<1> DEFINE t == Append(s, c)
<1>1. /\ Len(t) = Len(s) + 1 /\ Len(s) \in Nat /\ t[Len(s) + 1] = c
      /\ \A n \in 1 .. Len(s) : t[n] = s[n]
  OBVIOUS
<1> HIDE DEF t
<1>2. ASSUME k <= Len(s), NEW j \in 1 .. k
      PROVE  t[Len(t) - (k + 1) + j] = s[Len(s) - k + j]
  BY <1>1, <1>2
<1>3. k <= Len(s) => t[Len(t) - (k + 1) + (k + 1)] = c
  BY <1>1
<1>4. k + 1 <= Len(t) <=> k <= Len(s)
  BY <1>1
<1>5. 1 .. k + 1 = (1 .. k) \cup {k + 1}
  OBVIOUS
<1> QED
  BY <1>2, <1>3, <1>4, <1>5 DEF EndsWith, t

\* The code's step of the search: after it index is right again, and at the end
\* of the target exactly when the target is there.
LEMMA AdvanceTracks ==
  ASSUME FirstApart, Target \in Seq(Bytes), NEW s \in Seq(Bytes), NEW c \in Bytes,
         NEW i \in Nat, Tracks(s, i)
  PROVE  /\ Advance(Target, i, c) \in Nat
         /\ EndsWith(Append(s, c), Len(Target)) <=> Advance(Target, i, c) = Len(Target)
         /\ Advance(Target, i, c) # Len(Target) => Tracks(Append(s, c), Advance(Target, i, c))
<1> DEFINE L == Len(Target)
           a == Advance(Target, i, c)
           t == Append(s, c)
<1>1. L \in Nat /\ i < L
  BY DEF Tracks
<1>2. \/ c = Target[i + 1] /\ a = i + 1
      \/ c # Target[i + 1] /\ c = Target[1] /\ a = 1
      \/ c # Target[i + 1] /\ c # Target[1] /\ a = 0
  BY DEF Advance
<1>3. ASSUME NEW k \in 1 .. L
      PROVE  EndsWith(t, k) <=> (k = 1 \/ k - 1 = i) /\ c = Target[k]
  <2>1. k - 1 \in Nat /\ (k - 1) + 1 = k
    BY <1>1
  <2>2. EndsWith(t, k) <=> EndsWith(s, k - 1) /\ c = Target[k]
    <3>1. EndsWith(t, (k - 1) + 1) <=> EndsWith(s, k - 1) /\ c = Target[(k - 1) + 1]
      BY <2>1, EndsAppend, Zenon
    <3> QED
      BY <2>1, <3>1
  <2>3. EndsWith(s, k - 1) <=> k = 1 \/ k - 1 = i
    <3>1. CASE k = 1
      <4>1. Len(s) \in Nat
        OBVIOUS
      <4> QED
        BY <3>1, <4>1 DEF EndsWith
    <3>2. CASE k # 1
      <4>1. k - 1 \in 1 .. L - 1
        BY <1>1, <3>2
      <4> QED
        BY <3>2, <4>1 DEF Tracks
    <3> QED
      BY <3>1, <3>2
  <2> QED
    BY <2>2, <2>3
<1>4. \A k \in 2 .. L : Target[k] # Target[1]
  BY DEF FirstApart
<1> HIDE DEF L, a, t
<1>5. ASSUME NEW k \in 1 .. L PROVE EndsWith(t, k) <=> k = a
  <2>1. CASE c = Target[i + 1]
    <3>1. a = i + 1
      BY <1>2, <2>1
    <3>2. CASE k = i + 1
      BY <1>3, <2>1, <3>1, <3>2
    <3>3. CASE k # i + 1
      <4>1. k = 1 => i + 1 \in 2 .. L
        BY <1>1, <3>3
      <4>2. k = 1 => c # Target[1]
        BY <1>4, <2>1, <4>1
      <4> QED
        BY <1>3, <3>1, <3>3, <4>2
    <3> QED
      BY <3>2, <3>3
  <2>2. CASE c # Target[i + 1]
    <3>1. k - 1 = i => c # Target[k]
      <4>1. k - 1 = i => k = i + 1
        OBVIOUS
      <4> QED
        BY <2>2, <4>1
    <3>2. EndsWith(t, k) <=> k = 1 /\ c = Target[1]
      BY <1>3, <3>1
    <3> QED
      BY <1>2, <2>2, <3>2
  <2> QED
    BY <2>1, <2>2
<1>6. a \in Nat /\ a <= L
  BY <1>1, <1>2
<1>7. EndsWith(t, L) <=> a = L
  BY <1>1, <1>5
<1>8. a # L => Tracks(t, a)
  BY <1>1, <1>5, <1>6 DEF Tracks, L
<1> QED
  BY <1>6, <1>7, <1>8 DEF L, a, t

-----------------------------------------------------------------------------
(* The steps.                                                              *)

\* One byte is taken.
LEMMA TakesByte ==
  ASSUME BytesOK, arrived # <<>>, Takes
  PROVE  /\ Head(arrived) \in Bytes
         /\ arrived' \in Seq(Bytes)
         /\ got' = Append(got, Head(arrived))
         /\ got' \in Seq(Bytes) /\ got' # <<>> /\ Len(got') = Len(got) + 1
         /\ got'[Len(got) + 1] = Head(arrived)
         /\ \A i \in 1 .. Len(got) : got'[i] = got[i]
         /\ SubSeq(got', 1, Len(got') - 1) = got
<1> USE DEF BytesOK, Takes
<1>1. Head(arrived) \in Bytes /\ Tail(arrived) \in Seq(Bytes)
  BY HeadTailProperties
<1>2. /\ got' = Append(got, Head(arrived))
      /\ got' \in Seq(Bytes) /\ Len(got') = Len(got) + 1
      /\ got'[Len(got) + 1] = Head(arrived)
      /\ \A i \in 1 .. Len(got) : got'[i] = got[i]
  BY <1>1
<1>3. got' # <<>> /\ Len(got') - 1 = Len(got) /\ Len(got) \in Nat
  BY <1>2
<1>4. SubSeq(got', 1, Len(got)) = got
  <2>1. \A i \in 1 .. Len(got) : got'[i] \in Bytes
    BY <1>2
  <2>2. /\ SubSeq(got', 1, Len(got)) \in Seq(Bytes)
        /\ Len(SubSeq(got', 1, Len(got))) = Len(got)
        /\ \A i \in 1 .. Len(got) : SubSeq(got', 1, Len(got))[i] = got'[1 + i - 1]
    BY <1>3, <2>1, SubSeqProperties
  <2>3. \A i \in 1 .. Len(got) : SubSeq(got', 1, Len(got))[i] = got[i]
    BY <1>2, <2>2
  <2> QED
    BY <2>2, <2>3, SeqEqual
<1> QED
  BY <1>1, <1>2, <1>3, <1>4

\* The terminal's bytes join those that wait, and the first stays the first.
LEMMA ArrivesByte ==
  ASSUME BytesOK, NEW c \in Bytes, Arrives(c)
  PROVE  /\ arrived' \in Seq(Bytes)
         /\ arrived # <<>> => arrived' # <<>> /\ Head(arrived') = Head(arrived)
BY AppendProperties DEF BytesOK, Arrives

\* A call has just begun.
LEMMA StreamBeginInv ==
  ASSUME StreamIInv, Calls
  PROVE  StreamIInv'
<1> USE DEF StreamIInv
<1>1. ASSUME NEW c, NEW e, Begins(c, e)
      PROVE  /\ call' = c /\ end' = e /\ got' = <<>> /\ got' \in Seq(Bytes)
             /\ Len(got') = 0 /\ arrived' \in Seq(Bytes)
             /\ e \in {"no", "full", "match"} => TimeOK'
  <2>1. /\ clock' \in 0 .. Wrap - 1 /\ start' = clock' /\ quiet' = 0 /\ step' = "look"
        /\ call' = c /\ end' = e /\ got' = <<>> /\ arrived' = arrived
    BY <1>1 DEF Begins, TimeOK
  <2>2. clock' = (start' + 0) % Wrap /\ 0 \in 0 .. Wrap - 1 /\ 0 < Timeout
    <3>1. start' \in 0 .. Wrap - 1
      BY <2>1
    <3>2. (start' + 0) % Wrap = start'
      BY <3>1, NoneWaited
    <3>3. 0 \in 0 .. Wrap - 1 /\ 0 < Timeout
      BY StreamSizes
    <3> QED
      BY <2>1, <3>2, <3>3
  <2>3. \E n \in 0 .. Wrap - 1 : Waited(n)'
    BY <2>1, <2>2 DEF Waited
  <2>4. e \in {"no", "full", "match"} => TimeOK'
    BY <2>1, <2>3, StreamSizes DEF TimeOK, FullWait
  <2>5. <<>> \in Seq(Bytes) /\ Len(<<>>) = 0 /\ arrived \in Seq(Bytes)
    BY DEF BytesOK
  <2> QED
    BY <2>1, <2>4, <2>5
<1>2. ASSUME NEW length \in Lengths \cup {NoLimit}, NEW until \in Others \cup {None},
             read(length, until)
      PROVE  StreamIInv'
  <2> DEFINE c == [op |-> "read", length |-> length, until |-> until, text |-> <<>>]
             e == IF length = 0 THEN "full" ELSE "no"
  <2>1. /\ call' = c /\ end' = e /\ got' = <<>> /\ got' \in Seq(Bytes)
        /\ arrived' \in Seq(Bytes) /\ TimeOK'
    BY <1>1, <1>2 DEF read
  <2>2. c \in ReadCalls
    BY DEF ReadCalls
  <2>3. length # NoLimit => length \in Nat
    BY StreamAssumption
  <2>4. ReadOK'
    <3>1. call'.text = <<>> /\ call'.length = length /\ Len(call'.text) = 0
      BY <2>1
    <3>2. end' # "stop" /\ (end' = "full" <=> length = 0)
      BY <2>1
    <3>3. ReadExact'
      BY <2>1, <2>3, <3>1, <3>2 DEF ReadExact
    <3> QED
      BY <2>1, <2>2, <3>3 DEF ReadOK
  <2>5. call'.op = "read"
    BY <2>1
  <2>6. end' \in {"no", "full"}
    BY <2>1
  <2> QED
    BY <2>1, <2>4, <2>5, <2>6 DEF BytesOK, CallOK, FindOK, ParseOK
<1>3. ASSUME NEW terminator \in Terminators, findUntil(terminator)
      PROVE  StreamIInv'
  <2> DEFINE c == [op |-> "find", terminator |-> terminator, index |-> 0, termIndex |-> 0]
             e == IF Target = <<>> THEN "match" ELSE "no"
  <2>1. /\ call' = c /\ end' = e /\ got' = <<>> /\ got' \in Seq(Bytes) /\ Len(got') = 0
        /\ arrived' \in Seq(Bytes) /\ TimeOK'
    BY <1>1, <1>3 DEF findUntil
  <2>2. c \in FindCalls
    BY DEF FindCalls
  <2>3. Target \in Seq(Bytes \ {"NUL"}) /\ Len(Target) \in Nat
    BY StreamAssumption
  <2>4. FindExact'
    <3>1. CASE Target = <<>>
      <4>1. Len(Target) = 0 /\ SubSeq(<<>>, 1, 0) = <<>>
        BY <3>1, SubSeqEmpty
      <4>2. 0 \in 0 .. Len(got') - Len(Target) /\ SubSeq(got', 0 + 1, 0 + Len(Target)) = Target
        BY <2>1, <3>1, <4>1
      <4>3. Occurs(Target, got')
        BY <4>2 DEF Occurs
      <4> QED
        BY <2>1, <3>1, <4>3 DEF FindExact
    <3>2. CASE Target # <<>>
      <4>1. Len(Target) > 0
        BY <2>3, <3>2
      <4>2. ~Occurs(Target, got')
        BY <2>1, <2>3, <4>1 DEF Occurs
      <4> QED
        BY <2>1, <3>2, <4>2 DEF FindExact
    <3> QED
      BY <3>1, <3>2
  <2>5. end' = "no" => Tracks(got', 0)
    <3> SUFFICES ASSUME end' = "no" PROVE Tracks(got', 0)
      OBVIOUS
    <3>1. Len(Target) > 0
      BY <2>1, <2>3
    <3>2. \A k \in 1 .. Len(Target) - 1 : ~EndsWith(got', k) /\ k # 0
      BY <2>1, <2>3 DEF EndsWith
    <3> QED
      BY <3>1, <3>2 DEF Tracks
  <2>6. call'.op = "find" /\ call'.index = 0 /\ end' \in {"no", "match"}
    BY <2>1
  <2>7. FindOK'
    BY <2>1, <2>2, <2>4, <2>5, <2>6 DEF FindOK, FirstApart, Tracks, EndsWith
  <2> QED
    BY <2>1, <2>6, <2>7 DEF BytesOK, CallOK, ReadOK, ParseOK
<1>4. ASSUME NEW decimal \in BOOLEAN, parse(decimal)
      PROVE  StreamIInv'
  <2> DEFINE c == [op |-> "parse", decimal |-> decimal, seeking |-> TRUE, negative |-> FALSE,
                   digits |-> <<>>, fraction |-> <<>>, point |-> FALSE]
  <2>1. /\ call' = c /\ end' = "no" /\ got' = <<>> /\ got' \in Seq(Bytes) /\ Len(got') = 0
        /\ arrived' \in Seq(Bytes) /\ TimeOK'
    BY <1>1, <1>4 DEF parse
  <2>2. c \in ParseCalls
    BY DEF ParseCalls
  <2>3. /\ call'.digits = <<>> /\ call'.fraction = <<>> /\ call'.op = "parse"
        /\ ~call'.point /\ ~call'.negative /\ call'.seeking
    BY <2>1
  <2>4. DigitsOf(got') = call'.digits \o call'.fraction
    <3>1. DigitsOf(got') = <<>>
      BY <2>1, NoDigits
    <3>2. <<>> \o <<>> = <<>>
      OBVIOUS
    <3> QED
      BY <2>3, <3>1, <3>2
  <2>5. ParseExact'
    BY <2>1, <2>3, <2>4 DEF ParseExact
  <2>6. ParseOK'
    BY <2>1, <2>2, <2>3, <2>5 DEF ParseOK
  <2> QED
    BY <2>1, <2>3, <2>6 DEF BytesOK, CallOK, ReadOK, FindOK
<1> QED
  BY <1>2, <1>3, <1>4 DEF Calls, Terminators

-----------------------------------------------------------------------------
\* A wait, and the look at the clock.
LEMMA WaitingInv ==
  ASSUME StreamIInv, Waiting
  PROVE  StreamIInv'
<1> USE DEF StreamIInv
<1>1. ASSUME NEW d \in 0 .. MaxWait, Looks(d) PROVE StreamIInv'
  <2>1. /\ end = "no" /\ step = "look" /\ step' = "check"
        /\ clock' = (clock + d) % Wrap
        /\ quiet' = IF quiet + d < Timeout THEN quiet + d ELSE Timeout
        /\ UNCHANGED <<arrived, start, call, end, got>>
    BY <1>1 DEF Looks
  <2>2. PICK e \in 0 .. Wrap - 1 : Waited(e)
    BY <2>1 DEF TimeOK
  <2>3. e \in Nat /\ d \in Nat /\ e < Timeout /\ e + d < Timeout + MaxWait /\ quiet = e
    BY <2>1, <2>2, StreamSizes DEF Waited
  <2>4. e + d \in 0 .. Wrap - 1 /\ start \in 0 .. Wrap - 1
    BY <2>3, StreamSizes DEF TimeOK
  <2>5. clock' = (start + (e + d)) % Wrap
    <3>1. clock = (start + e) % Wrap
      BY <2>2 DEF Waited
    <3>2. e + d < Wrap
      BY <2>4, StreamSizes
    <3> QED
      BY <2>1, <2>3, <2>4, <3>1, <3>2, Passes
  <2>6. Waited(e + d)'
    BY <2>1, <2>3, <2>5 DEF Waited
  <2>7. clock' \in 0 .. Wrap - 1 /\ quiet' \in 0 .. Timeout
    <3>1. start + (e + d) \in Nat
      BY <2>3, <2>4
    <3>2. \A n \in Nat : n % Wrap \in 0 .. Wrap - 1
      BY StreamSizes
    <3> QED
      BY <2>1, <2>3, <2>5, <3>1, <3>2, StreamSizes
  <2>8. TimeOK'
    BY <2>1, <2>4, <2>6, <2>7 DEF TimeOK, FullWait
  <2> QED
    BY <2>1, <2>8 DEF BytesOK, CallOK, ReadOK, ReadExact, FindOK, FindExact, ParseOK,
                      ParseExact, GoesOn
<1>2. ASSUME CheckTime PROVE StreamIInv'
  <2>1. /\ end = "no" /\ step = "check" /\ step' = "look"
        /\ end' = IF TimeUp THEN "silence" ELSE "no"
        /\ UNCHANGED <<arrived, clock, start, call, got, quiet>>
    BY <1>2 DEF CheckTime
  <2>2. PICK e \in 0 .. Wrap - 1 : Waited(e)
    BY <2>1 DEF TimeOK
  <2>3. TimeUp <=> e >= Timeout
    <3>1. start \in 0 .. Wrap - 1 /\ clock = (start + e) % Wrap
      BY <2>2 DEF TimeOK, Waited
    <3> QED
      BY <3>1, Elapsed DEF TimeUp
  <2>4. e \in Nat
    BY StreamSizes
  <2>5. TimeUp => quiet' = Timeout
    BY <2>1, <2>2, <2>3, <2>4, StreamSizes DEF Waited
  <2>6. ~TimeUp => Waited(e)'
    BY <2>1, <2>2, <2>3, <2>4, StreamSizes DEF Waited
  <2>7. TimeOK'
    BY <2>1, <2>5, <2>6 DEF TimeOK, FullWait
  <2>8. end' \in {"silence", "no"}
    BY <2>1
  <2> QED
    BY <2>1, <2>7, <2>8 DEF BytesOK, CallOK, ReadOK, ReadExact, FindOK, FindExact, ParseOK,
                            ParseExact, GoesOn
<1> QED
  BY <1>1, <1>2 DEF Waiting

\* A byte that is taken starts the wait for the next.
LEMMA TakesTime ==
  ASSUME StreamIInv, Takes, step = "look", end' # "silence"
  PROVE  TimeOK'
<1>1. /\ start' = clock /\ clock' = clock /\ quiet' = 0 /\ step' = "look"
      /\ clock \in 0 .. Wrap - 1
  BY DEF Takes, StreamIInv, TimeOK
<1>2. 0 \in 0 .. Wrap - 1 /\ 0 < Timeout
  BY StreamSizes
<1>3. clock' = (start' + 0) % Wrap
  BY <1>1, NoneWaited
<1>4. Waited(0)'
  BY <1>1, <1>2, <1>3 DEF Waited
<1> QED
  BY <1>1, <1>2, <1>4, StreamSizes DEF TimeOK, FullWait

\* A byte for readBytes.
LEMMA ReadByteInv ==
  ASSUME StreamIInv, ReadByte
  PROVE  StreamIInv'
<1> DEFINE c == Head(arrived)
           text == IF c = call.until THEN call.text ELSE Append(call.text, c)
<1>1. /\ end = "no" /\ call.op = "read" /\ step = "look" /\ arrived # <<>> /\ Takes
      /\ call' = [call EXCEPT !.text = text]
      /\ end' = IF c = call.until THEN "stop"
                ELSE IF Len(text) = call.length THEN "full" ELSE "no"
  BY DEF ReadByte, Waits
<1>2. /\ c \in Bytes /\ arrived' \in Seq(Bytes) /\ got' = Append(got, c)
      /\ got' \in Seq(Bytes)
  BY <1>1, TakesByte DEF StreamIInv
<1> HIDE DEF c
<1>3. end' \in {"stop", "full", "no"}
  BY <1>1
<1>4. TimeOK'
  BY <1>1, <1>3, TakesTime
<1>5. /\ call \in ReadCalls /\ call.text \in Seq(Bytes)
      /\ got = call.text /\ call.length \in Lengths \cup {NoLimit}
      /\ \A i \in 1 .. Len(call.text) : call.text[i] # call.until
      /\ call.length = NoLimit \/ Len(call.text) <= call.length
      /\ Len(call.text) # call.length
  BY <1>1 DEF StreamIInv, ReadOK, ReadExact, ReadCalls
<1>6. /\ text \in Seq(Bytes)
      /\ \A i \in 1 .. Len(text) : text[i] # call.until
      /\ Len(text) = IF c = call.until THEN Len(call.text) ELSE Len(call.text) + 1
  BY <1>2, <1>5
<1>7. Lengths \subseteq Nat /\ NoLimit \notin Nat
  BY StreamAssumption
<1>8. call.length = NoLimit \/ Len(text) <= call.length
  <2>1. CASE call.length # NoLimit
    <3> HIDE DEF text
    <3>1. call.length \in Nat
      BY <1>5, <1>7, <2>1
    <3>2. Len(call.text) \in Nat
      BY <1>5, LenProperties
    <3> QED
      BY <1>5, <1>6, <2>1, <3>1, <3>2
  <2> QED
    BY <2>1
<1>9. end' = "full" <=> Len(text) = call.length
  BY <1>1, <1>5, <1>6
<1>10. got' = IF end' = "stop" THEN Append(text, call.until) ELSE text
  BY <1>1, <1>2, <1>5
<1> HIDE DEF text
<1>11. /\ call' \in ReadCalls /\ call'.op = "read" /\ call'.text = text
       /\ call'.until = call.until /\ call'.length = call.length
  BY <1>1, <1>5, <1>6 DEF ReadCalls
<1>12. ReadOK'
  BY <1>6, <1>8, <1>9, <1>10, <1>11 DEF ReadOK, ReadExact
<1> QED
  BY <1>2, <1>3, <1>4, <1>11, <1>12 DEF StreamIInv, BytesOK, CallOK, FindOK, ParseOK

\* A byte for findUntil.
LEMMA FindByteInv ==
  ASSUME StreamIInv, FindByte
  PROVE  StreamIInv'
<1> DEFINE c == Head(arrived)
           index == Advance(Target, call.index, c)
           term == IF call.terminator = <<>> THEN 0
                   ELSE Advance(call.terminator, call.termIndex, c)
<1>1. /\ end = "no" /\ call.op = "find" /\ step = "look" /\ arrived # <<>> /\ Takes
      /\ IF c = "NUL" THEN end' = "stop" /\ UNCHANGED call
         ELSE IF index = Len(Target) THEN end' = "match" /\ UNCHANGED call
         ELSE /\ end' = IF call.terminator # <<>> /\ term = Len(call.terminator)
                        THEN "stop" ELSE "no"
              /\ call' = [call EXCEPT !.index = index, !.termIndex = term]
  BY DEF FindByte, Waits
<1>2. /\ c \in Bytes /\ arrived' \in Seq(Bytes) /\ got' = Append(got, c)
      /\ got' \in Seq(Bytes) /\ SubSeq(got', 1, Len(got') - 1) = got /\ got' # <<>>
      /\ got \in Seq(Bytes)
  BY <1>1, TakesByte DEF StreamIInv, BytesOK
<1> HIDE DEF c
<1>3. call \in FindCalls /\ call.index \in Nat /\ call.termIndex \in Nat
  BY <1>1 DEF StreamIInv, FindOK, FindCalls
<1>4. index \in Nat /\ term \in Nat
  BY <1>3 DEF Advance
<1>5. end' \in {"stop", "match", "no"}
  BY <1>1
<1>6. TimeOK'
  BY <1>1, <1>5, TakesTime
<1>7. Target \in Seq(Bytes \ {"NUL"}) /\ Target \in Seq(Bytes)
  BY StreamAssumption
<1>8. ASSUME FirstApart
      PROVE  /\ ~Occurs(Target, got) /\ Tracks(got, call.index)
             /\ EndsWith(got', Len(Target)) <=> index = Len(Target)
             /\ index # Len(Target) => Tracks(got', index)
  <2>1. ~Occurs(Target, got) /\ Tracks(got, call.index)
    BY <1>1, <1>8 DEF StreamIInv, FindOK, FindExact
  <2> QED
    BY <1>2, <1>3, <1>7, <1>8, <2>1, AdvanceTracks
<1> HIDE DEF index, term
<1>9. ASSUME FirstApart
      PROVE  Occurs(Target, got') <=> index = Len(Target)
  BY <1>2, <1>7, <1>8, <1>9, OccursAppend
<1>10. ASSUME FirstApart, c = "NUL"
       PROVE  index # Len(Target)
  <2>1. Len(Target) \in Nat \ {0}
    BY <1>3, <1>7, <1>8, <1>10 DEF Tracks
  <2>2. (Len(Target) - 1) + 1 = Len(Target) /\ Len(Target) - 1 \in Nat
    BY <2>1
  <2>3. Target[Len(Target)] # "NUL"
    BY <1>7, <2>1
  <2>4. \A k \in Nat : EndsWith(got', k + 1) => c = Target[k + 1]
    BY <1>2, EndsAppend
  <2> QED
    BY <1>8, <1>10, <2>2, <2>3, <2>4
<1>11. /\ call' \in FindCalls /\ call'.op = "find"
       /\ end' = "no" => call'.index = index
       /\ FirstApart => (end' = "match" <=> index = Len(Target))
  BY <1>1, <1>3, <1>4, <1>10 DEF FindCalls
<1>12. FirstApart => FindExact'
  BY <1>2, <1>8, <1>9, <1>11 DEF FindExact
<1>13. FirstApart /\ end' = "no" => Tracks(got', call'.index)
  BY <1>8, <1>11
<1>14. FindOK'
  BY <1>11, <1>12, <1>13 DEF FindOK
<1> QED
  BY <1>2, <1>5, <1>6, <1>11, <1>14 DEF StreamIInv, BytesOK, CallOK, ReadOK, ParseOK

\* The bytes up to one that was there stay, whatever comes behind.
LEMMA BeginningStays ==
  ASSUME NEW s \in Seq(Bytes), NEW c \in Bytes, NEW i \in 1 .. Len(s)
  PROVE  SubSeq(Append(s, c), 1, i) = SubSeq(s, 1, i)
<1> DEFINE t == Append(s, c)
<1>1. /\ i \in Nat /\ \A n \in 1 .. i : t[n] = s[n] /\ s[n] \in Bytes
      /\ (i - 1) + 1 = i /\ 1 <= i
  OBVIOUS
<1> HIDE DEF t
<1>2. ASSUME NEW u, \A n \in 1 .. i : u[n] \in Bytes
      PROVE  /\ SubSeq(u, 1, i) \in Seq(Bytes) /\ Len(SubSeq(u, 1, i)) = i
             /\ \A n \in 1 .. i : SubSeq(u, 1, i)[n] = u[n]
  <2>1. /\ SubSeq(u, 1, i) \in Seq(Bytes) /\ Len(SubSeq(u, 1, i)) = i
        /\ \A n \in 1 .. i : SubSeq(u, 1, i)[n] = u[1 + n - 1]
    BY <1>1, <1>2, SubSeqProperties
  <2>2. \A n \in 1 .. i : 1 + n - 1 = n
    OBVIOUS
  <2> QED
    BY <2>1, <2>2
<1>3. /\ SubSeq(s, 1, i) \in Seq(Bytes) /\ Len(SubSeq(s, 1, i)) = i
      /\ \A n \in 1 .. i : SubSeq(s, 1, i)[n] = s[n]
  BY <1>1, <1>2
<1>4. /\ SubSeq(t, 1, i) \in Seq(Bytes) /\ Len(SubSeq(t, 1, i)) = i
      /\ \A n \in 1 .. i : SubSeq(t, 1, i)[n] = t[n]
  BY <1>1, <1>2
<1> QED
  BY <1>1, <1>3, <1>4, SeqEqual DEF t

\* A digit joins the digits it belongs to, and nothing else does.
LEMMA DigitsJoin ==
  ASSUME NEW d \in Seq(Bytes), NEW f \in Seq(Bytes), NEW c \in Bytes
  PROVE  /\ d \o <<>> = d /\ d \o <<c>> \in Seq(Bytes) /\ f \o <<c>> \in Seq(Bytes)
         /\ d \o (f \o <<c>>) = Append(d \o f, c)
         /\ f = <<>> => (d \o <<c>>) \o f = Append(d \o f, c)
<1>1. d \o <<>> = d
  OBVIOUS
<1>2. d \o <<c>> \in Seq(Bytes) /\ f \o <<c>> \in Seq(Bytes) /\ d \o <<c>> = Append(d, c)
  OBVIOUS
<1>3. d \o (f \o <<c>>) = Append(d \o f, c)
  OBVIOUS
<1>4. (d \o <<c>>) \o <<>> = d \o <<c>>
  OBVIOUS
<1> QED
  BY <1>1, <1>2, <1>3, <1>4

\* A byte in front of the number.
LEMMA SkipByteInv ==
  ASSUME StreamIInv, SkipByte
  PROVE  StreamIInv'
<1> DEFINE c == Head(arrived)
<1>1. /\ end = "no" /\ call.op = "parse" /\ step = "look" /\ arrived # <<>> /\ Takes
      /\ call.seeking /\ ~Starts(c) /\ call' = call /\ end' = end
  BY DEF SkipByte, Waits
<1>2. /\ c \in Bytes /\ arrived' \in Seq(Bytes) /\ got' = Append(got, c)
      /\ got' \in Seq(Bytes) /\ got \in Seq(Bytes) /\ Len(got') = Len(got) + 1
      /\ got'[Len(got) + 1] = c /\ \A i \in 1 .. Len(got) : got'[i] = got[i]
  BY <1>1, TakesByte DEF StreamIInv, BytesOK
<1> HIDE DEF c
<1>3. TimeOK'
  BY <1>1, TakesTime
<1>4. c \notin Digits /\ c # "-"
  BY <1>1 DEF Starts
<1>5. call \in ParseCalls /\ ParseExact /\ ~call.point /\ call.fraction = <<>>
  BY <1>1 DEF StreamIInv, ParseOK
<1>6. DigitsOf(got') = call'.digits \o call'.fraction
  BY <1>1, <1>2, <1>4, <1>5, DigitsAppend DEF ParseExact
<1>7. call'.negative <=> \E i \in 1 .. Len(got') : got'[i] = "-"
  <2>1. 1 .. Len(got') = (1 .. Len(got)) \cup {Len(got) + 1}
    BY <1>2
  <2> QED
    BY <1>1, <1>2, <1>4, <1>5, <2>1 DEF ParseExact
<1>8. ParseExact'
  BY <1>1, <1>5, <1>6, <1>7 DEF ParseExact
<1>9. ParseOK'
  BY <1>1, <1>5, <1>8 DEF ParseOK
<1> QED
  BY <1>1, <1>2, <1>3, <1>9 DEF StreamIInv, BytesOK, CallOK, ReadOK, FindOK

\* A byte of the number.
LEMMA NumberByteInv ==
  ASSUME StreamIInv, NumberByte
  PROVE  StreamIInv'
<1> DEFINE c == Head(arrived)
           digit == IF c \in Digits THEN <<c>> ELSE <<>>
<1>1. /\ end = "no" /\ call.op = "parse" /\ step = "look" /\ arrived # <<>> /\ Takes
      /\ IF call.seeking THEN Starts(c) ELSE GoesOn(c)
      /\ end' = end
      /\ call' = [call EXCEPT !.seeking = FALSE,
                        !.negative = @ \/ c = "-",
                        !.point = @ \/ c = ".",
                        !.digits = IF call.point THEN @ ELSE @ \o digit,
                        !.fraction = IF call.point THEN @ \o digit ELSE @]
  BY DEF NumberByte, Waits
<1>2. /\ c \in Bytes /\ arrived' \in Seq(Bytes) /\ got' = Append(got, c)
      /\ got' \in Seq(Bytes) /\ got \in Seq(Bytes) /\ Len(got') = Len(got) + 1
      /\ got' # <<>> /\ Len(got) \in Nat
      /\ got'[Len(got) + 1] = c /\ \A i \in 1 .. Len(got) : got'[i] = got[i]
  BY <1>1, TakesByte DEF StreamIInv, BytesOK
<1> HIDE DEF c
<1>3. TimeOK'
  BY <1>1, TakesTime
<1>4. /\ call \in ParseCalls /\ ParseExact
      /\ ~call.point => call.fraction = <<>>
      /\ call.seeking => ~call.point
      /\ call.digits \in Seq(Bytes) /\ call.fraction \in Seq(Bytes)
  BY <1>1 DEF StreamIInv, ParseOK, ParseCalls
<1>5. PICK negative \in BOOLEAN, point \in BOOLEAN :
        /\ negative <=> call.negative \/ c = "-"
        /\ point <=> call.point \/ c = "."
        /\ negative = (call.negative \/ c = "-")
        /\ point = (call.point \/ c = ".")
  OBVIOUS
<1> DEFINE digits == IF call.point THEN call.digits ELSE call.digits \o digit
           fraction == IF call.point THEN call.fraction \o digit ELSE call.fraction
<1>6. call' = [call EXCEPT !.seeking = FALSE, !.negative = negative, !.point = point,
                           !.digits = digits, !.fraction = fraction]
  BY <1>1, <1>5, Zenon
<1>7. /\ digits \in Seq(Bytes) /\ fraction \in Seq(Bytes)
      /\ digits \o fraction = IF c \in Digits THEN Append(call.digits \o call.fraction, c)
                              ELSE call.digits \o call.fraction
      /\ c \notin Digits => digits = call.digits
      /\ call.point => digits = call.digits
      /\ ~call.point => fraction = <<>>
  <2>1. CASE c \in Digits
    <3>1. /\ call.digits \o <<c>> \in Seq(Bytes) /\ call.fraction \o <<c>> \in Seq(Bytes)
          /\ call.digits \o (call.fraction \o <<c>>) = Append(call.digits \o call.fraction, c)
          /\ call.fraction = <<>> =>
               (call.digits \o <<c>>) \o call.fraction = Append(call.digits \o call.fraction, c)
      <4>1. c \in Bytes /\ call.digits \in Seq(Bytes) /\ call.fraction \in Seq(Bytes)
        BY <1>2, <1>4
      <4> QED
        BY <4>1, DigitsJoin, Zenon
    <3>2. digit = <<c>>
      BY <2>1
    <3> HIDE DEF digit
    <3>3. CASE call.point
      <4>1. digits = call.digits /\ fraction = call.fraction \o <<c>>
        BY <3>2, <3>3
      <4> QED
        BY <1>4, <2>1, <3>1, <3>3, <4>1
    <3>4. CASE ~call.point
      <4>1. digits = call.digits \o <<c>> /\ fraction = call.fraction
        BY <3>2, <3>4
      <4> QED
        BY <1>4, <2>1, <3>1, <3>4, <4>1
    <3> QED
      BY <3>3, <3>4
  <2>2. CASE c \notin Digits
    <3>1. digits = call.digits /\ fraction = call.fraction
      BY <1>2, <1>4, <2>2, DigitsJoin
    <3> QED
      BY <1>4, <2>2, <3>1
  <2> QED
    BY <2>1, <2>2
<1> HIDE DEF digits, fraction
<1>8. /\ call' \in ParseCalls /\ call'.op = "parse" /\ ~call'.seeking
      /\ call'.decimal = call.decimal /\ call'.negative = negative /\ call'.point = point
      /\ call'.digits = digits /\ call'.fraction = fraction
  BY <1>4, <1>5, <1>6, <1>7 DEF ParseCalls
<1>9. DigitsOf(got') = IF c \in Digits THEN Append(DigitsOf(got), c) ELSE DigitsOf(got)
  BY <1>2, DigitsAppend
<1>10. DigitsOf(got') = digits \o fraction
  BY <1>4, <1>7, <1>9 DEF ParseExact
<1>11. negative <=> \E i \in 1 .. Len(got') : got'[i] = "-"
  <2>1. 1 .. Len(got') = (1 .. Len(got)) \cup {Len(got) + 1}
    BY <1>2
  <2> QED
    BY <1>2, <1>4, <1>5, <2>1 DEF ParseExact
<1>12. ASSUME point
       PROVE  /\ call.decimal
              /\ \E i \in 1 .. Len(got') : got'[i] = "." /\ DigitsOf(SubSeq(got', 1, i)) = digits
  <2>1. CASE call.point
    <3>1. PICK i \in 1 .. Len(got) : got[i] = "." /\ DigitsOf(SubSeq(got, 1, i)) = call.digits
      BY <1>4, <2>1 DEF ParseExact
    <3>2. SubSeq(got', 1, i) = SubSeq(got, 1, i)
      BY <1>2, BeginningStays
    <3>3. i \in 1 .. Len(got') /\ got'[i] = "."
      BY <1>2, <3>1
    <3>4. call.decimal
      BY <1>4, <2>1 DEF ParseExact
    <3> QED
      BY <1>7, <2>1, <3>1, <3>2, <3>3, <3>4
  <2>2. CASE ~call.point
    <3>1. c = "." /\ c \notin Digits
      BY <1>5, <1>12, <2>2, BytesApart
    <3>2. call.decimal
      BY <1>1, <3>1 DEF Starts, GoesOn
    <3>3. DigitsOf(got') = digits
      <4>1. call.digits \o call.fraction = call.digits
        BY <1>2, <1>4, <2>2, DigitsJoin
      <4> QED
        BY <1>7, <1>10, <3>1, <4>1
    <3>4. SubSeq(got', 1, Len(got')) = got' /\ Len(got') \in 1 .. Len(got')
          /\ got'[Len(got')] = "."
      BY <1>2, <3>1, SubSeqFull
    <3> QED
      BY <3>2, <3>3, <3>4
  <2> QED
    BY <2>1, <2>2
<1>13. ParseExact'
  BY <1>1, <1>8, <1>10, <1>11, <1>12 DEF ParseExact
<1>14. ParseOK'
  BY <1>1, <1>2, <1>5, <1>7, <1>8, <1>13 DEF ParseOK
<1> QED
  BY <1>1, <1>2, <1>3, <1>8, <1>14 DEF StreamIInv, BytesOK, CallOK, ReadOK, FindOK

\* A byte behind the number.
LEMMA NumberEndsInv ==
  ASSUME StreamIInv, NumberEnds
  PROVE  StreamIInv'
<1>1. /\ end = "no" /\ call.op = "parse" /\ arrived # <<>> /\ end' = "stop"
      /\ ~call.seeking /\ ~GoesOn(Head(arrived))
      /\ UNCHANGED <<arrived, sent, clock, start, call, step, got, quiet>>
  BY DEF NumberEnds, Waits
<1>2. TimeOK'
  BY <1>1 DEF StreamIInv, TimeOK, FullWait
<1>3. ~GoesOn(Head(arrived))'
  BY <1>1 DEF GoesOn
<1>4. ParseOK'
  BY <1>1, <1>3 DEF StreamIInv, ParseOK, ParseExact
<1> QED
  BY <1>1, <1>2, <1>4 DEF StreamIInv, BytesOK, CallOK, ReadOK, FindOK

\* A byte that joins those that wait.
LEMMA ArrivesInv ==
  ASSUME StreamIInv, NEW c \in Bytes, Arrives(c)
  PROVE  StreamIInv'
<1>1. UNCHANGED <<clock, start, call, end, step, got, quiet>>
  BY DEF Arrives
<1>2. /\ arrived' \in Seq(Bytes)
      /\ arrived # <<>> => arrived' # <<>> /\ Head(arrived') = Head(arrived)
  BY ArrivesByte DEF StreamIInv
<1>3. TimeOK'
  BY <1>1 DEF StreamIInv, TimeOK, FullWait, Waited
<1>4. BytesOK' /\ CallOK' /\ ReadOK' /\ FindOK'
  BY <1>1, <1>2 DEF StreamIInv, BytesOK, CallOK, ReadOK, ReadExact, FindOK, FindExact
<1>5. ParseOK'
  <2>1. arrived # <<>> => (GoesOn(Head(arrived))' <=> GoesOn(Head(arrived)))
    BY <1>1, <1>2 DEF GoesOn
  <2> QED
    BY <1>1, <1>2, <2>1 DEF StreamIInv, ParseOK, ParseExact
<1> QED
  BY <1>3, <1>4, <1>5 DEF StreamIInv

\* No call has been made.
LEMMA StreamInitInv == StreamInit => StreamIInv
<1> SUFFICES ASSUME StreamInit PROVE StreamIInv
  OBVIOUS
<1>1. call.op = "none" /\ end = "idle" /\ <<>> \in Seq(Bytes)
  BY DEF StreamInit
<1>2. TimeOK
  BY StreamSizes DEF StreamInit, TimeOK, FullWait
<1> QED
  BY <1>1, <1>2 DEF StreamInit, StreamIInv, BytesOK, CallOK, ReadOK, FindOK, ParseOK

\* Every step keeps the invariant.
LEMMA StreamNextInv == StreamIInv /\ [StreamNext]_streamVars => StreamIInv'
<1> SUFFICES ASSUME StreamIInv, [StreamNext]_streamVars PROVE StreamIInv'
  OBVIOUS
<1>1. CASE Calls
  BY <1>1, StreamBeginInv
<1>2. CASE Waiting
  BY <1>2, WaitingInv
<1>3. CASE Taking
  BY <1>3, ReadByteInv, FindByteInv, SkipByteInv, NumberByteInv, NumberEndsInv DEF Taking
<1>4. CASE \E c \in Bytes : Arrives(c)
  BY <1>4, ArrivesInv
<1>5. CASE UNCHANGED streamVars
  <2>1. TimeOK'
    BY <1>5 DEF streamVars, StreamIInv, TimeOK, FullWait, Waited
  <2>2. BytesOK' /\ CallOK' /\ ReadOK' /\ FindOK'
    BY <1>5 DEF streamVars, StreamIInv, BytesOK, CallOK, ReadOK, ReadExact, FindOK, FindExact
  <2>3. ParseOK'
    BY <1>5 DEF streamVars, StreamIInv, ParseOK, ParseExact, GoesOn
  <2> QED
    BY <2>1, <2>2, <2>3 DEF StreamIInv
<1> QED
  BY <1>1, <1>2, <1>3, <1>4, <1>5 DEF StreamNext

\* The inductive invariant of the blocking reads (Stream.cpp).
THEOREM StreamInvariance == StreamSpec => []StreamIInv
BY StreamInitInv, StreamNextInv, PTL DEF StreamSpec

\* A call gives up only after its whole time limit without a byte, at whatever
\* value millis() wraps and wherever the call begins (Stream.cpp:26-46).
THEOREM WaitsWhole == StreamSpec => []FullWait
<1>1. StreamIInv => FullWait
  BY DEF StreamIInv, TimeOK
<1> QED
  BY <1>1, StreamInvariance, PTL

\* Every call returns what it promises, for a target whose first byte is nowhere
\* else in it: after a failed match the code does not look back (Stream.cpp:73).
THEOREM CallsExact == FirstApart => (StreamSpec => []ResultExact)
<1> SUFFICES ASSUME FirstApart PROVE StreamSpec => []ResultExact
  OBVIOUS
<1>1. StreamIInv => ResultExact
  <2> SUFFICES ASSUME StreamIInv PROVE ResultExact
    OBVIOUS
  <2>1. FullWait
    BY DEF StreamIInv, TimeOK
  <2>2. end # "idle" => call.op \in {"read", "find", "parse"}
    BY DEF StreamIInv, CallOK
  <2>3. /\ call.op = "read" => ReadExact
        /\ call.op = "find" => FindExact
        /\ call.op = "parse" => ParseExact
    BY DEF StreamIInv, ReadOK, FindOK, ParseOK
  <2> QED
    BY <2>1, <2>2, <2>3 DEF ResultExact
<1> QED
  BY <1>1, StreamInvariance, PTL
=============================================================================
