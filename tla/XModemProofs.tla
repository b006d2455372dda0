---------------------------- MODULE XModemProofs ----------------------------
(***************************************************************************)
(* What is proved of XModem, for any file of fewer than Mod blocks, any    *)
(* limits, any room and any number of damaged bytes: while no byte is lost *)
(* and none is read as a command or an answer that was not sent as one,    *)
(* what is stored is a beginning of the file, and both sides report the    *)
(* truth, but for a disk that is full.                                     *)
(*                                                                         *)
(* The two sides work in turns, which the invariant says of the line: as   *)
(* long as the receiver has a block to read (FramesOK), it is the one the  *)
(* sender has written last, damaged or not, and nothing is on its way to   *)
(* the sender (AnswersOK).  An ACK on the line is the first byte and means *)
(* that the sender's block is stored; so neither a repeated block nor a    *)
(* late answer is taken for another.  Damage does not forge a number or a  *)
(* check (NumberTrue, DataTrue).  The data may be control bytes, which do  *)
(* no harm as long as the number before them is right; behind a wrong one  *)
(* they are read as commands, and misread says so.                         *)
(*                                                                         *)
(* What the receiver takes, r.got, and what its disk keeps of it, r.file,  *)
(* are told apart: the invariant is about the first, and DiskOK relates    *)
(* the two.                                                                *)
(*                                                                         *)
(* A file of Mod blocks or more is left out because the receiver prompts   *)
(* at block Mod, and an answer then stands for the wrong block; a loss,    *)
(* because numbers and data may then be read as commands.                  *)
(***************************************************************************)
EXTENDS XModem, SequenceTheorems, TLAPS

-----------------------------------------------------------------------------
(* The line.                                                               *)

\* What a block may hold.
Contents == {Null, Header} \cup Data

\* b is byte i of f after damage that did not turn the first into a command.
Damaged(b, f, i) == b = f[i] \/ (b \in Garbles /\ (i = 1 => b \notin Commands))

\* q is f after any such damage.
Garbled(q, f) == Len(q) = Len(f) /\ \A i \in 1 .. Len(f) : Damaged(q[i], f, i)

\* The next byte for the receiver is no command and no CAN: it gives up.
Doomed(q) == q # <<>> /\ q[1] \notin Commands

\* The sender has given up: the next byte may also be a CAN.
Ended(q) == q # <<>> /\ q[1] \notin {SOH, STX, EOT}

\* What the sender has written last.
Written(t) == IF t.pc = "header" THEN HeaderFrame(Header) ELSE BlockOf(t)

Typed ==
    /\ protocol \in Protocols
    /\ s \in [pc : SenderStates, k : Nat \ {0}, crc : BOOLEAN, retries : Nat,
              tries : Nat, test : BOOLEAN]
    /\ r \in [pc : ReceiverStates, no : Nat, crc : BOOLEAN, prompts : Nat,
              retries : Nat, got : Seq(Int), size : Nat, file : Seq(Int), room : Nat]
    /\ toR \in Seq(Int) /\ toS \in Seq(Int)

\* The sender's place in the file.
PlaceOK ==
    /\ s.pc \in {"header", "prompt"} => Y
    /\ s.pc = "block" => s.k <= Len(File)
    /\ s.pc \in {"eot", "ok"} => s.k = Len(File) + 1
    /\ s.pc \in {"start", "header", "prompt"} => s.k = 1

\* The receiver's place in the file: it waits for the header, takes block r.no,
\* or has taken them all.
StoredOK ==
    /\ Len(r.got) <= Len(File) /\ \A i \in 1 .. Len(r.got) : r.got[i] = File[i]
    /\ s.k <= Len(r.got) + 1
    /\ r.pc \in {"off", "prompt"} => r.got = <<>>
    /\ r.pc = "cmd" =>
         \/ Y /\ r.no = 0 /\ r.got = <<>>
         \/ r.no = (Len(r.got) + 1) % Mod /\ (Y => r.size = Len(File) - Len(r.got))
         \/ Y /\ r.no = 0 /\ Len(r.got) = Len(File) /\ s.pc \in {"eot", "ok", "failed"}
    /\ r.pc = "ok" => Len(r.got) = Len(File)

\* What is on its way to the receiver.
FramesOK ==
    ~ReceiverDone =>
        \/ toR = <<>>
        \/ Doomed(toR)
        \/ s.pc = "failed" /\ Ended(toR)
        \/ s.pc \in {"header", "block", "eot"} /\ Garbled(toR, Written(s))
        \/ s.pc = "ok" /\ Y /\ Garbled(toR, HeaderFrame(Null))

\* What is on its way to the sender.  An ACK is the first byte, and for a block
\* it means that the block is stored.
AnswersOK ==
    ~SenderDone =>
        /\ r.pc = "off" => toS = <<>>
        /\ \A i \in 1 .. Len(toS) : toS[i] = ACK =>
             /\ i = 1 /\ s.pc \in {"header", "block", "eot"}
             /\ s.pc = "block" => Len(r.got) = s.k
        /\ ~ReceiverDone =>
             /\ toR = <<>> \/ Doomed(toR) \/ toS = <<>>
             /\ \/ Len(toS) <= 1
                \/ s.pc \in {"header", "eot"} /\ Len(toS) = 2 /\ toS[1] \in {ACK, Noise}

Sound == Typed /\ PlaceOK /\ StoredOK /\ FramesOK /\ AnswersOK

Short == Len(File) < Mod

\* The line did no more than damage, and no byte was taken for a command.
Plain == ~lost /\ ~misread

IInv == Short /\ Plain => Sound

-----------------------------------------------------------------------------
(* Bytes and frames.                                                       *)

\* Sizes that the steps compute with.
LEMMA Sizes ==
  /\ Mod \in Nat /\ 2 <= Mod /\ Mod <= 256
  /\ Len(File) \in Nat /\ Len(File) > 0
<1>1. File \in Seq(Data) /\ File # <<>>
  BY FileAssumption
<1>2. Len(File) \in Nat /\ Len(File) > 0
  BY <1>1, EmptySeq
<1> QED
  BY <1>2, LimitsAssumption

\* A byte of the file is one a block may hold.
LEMMA FileByte == ASSUME NEW i \in 1 .. Len(File) PROVE File[i] \in Contents /\ File[i] \in Int
<1>1. File \in Seq(Data)
  BY FileAssumption
<1>2. File[i] \in Data
  BY <1>1, ElementOfSeq
<1>3. \A b \in Data : b \in Contents /\ b \in Int
  BY DEF Data, Commands, SOH, STX, EOT, CAN, Contents
<1> QED
  BY <1>2, <1>3, Zenon

\* Block numbers.
LEMMA Residue ==
  ASSUME NEW n \in Nat
  PROVE  n % Mod \in 0 .. Mod - 1 /\ (n < Mod => n % Mod = n)
BY Sizes

\* What damage makes of a byte is a control byte or Noise.
LEMMA GarbleBytes == ASSUME NEW g \in Garbles PROVE g \in {EOT, ACK, NACK, CAN, CRC, Noise}
BY FaultsAssumption

\* A damaged number never passes for another one.
LEMMA NumberTrue ==
  ASSUME NEW no \in 0 .. Mod - 1, NEW n, NEW c, n = no \/ n \in Garbles,
         c = Mod - 1 - no \/ c \in Garbles, c = Mod - 1 - n
  PROVE  n = no
<1>1. n \in Int /\ c \in Int /\ no \in Int
  BY Sizes, GarbleBytes DEF EOT, ACK, NACK, CAN, CRC, Noise
<1>2. CASE n \in Garbles /\ c \in Garbles
  <2>1. n + c # Mod - 1
    BY <1>2, FaultsAssumption
  <2> QED
    BY <1>1, <2>1, Sizes
<1>3. CASE c = Mod - 1 - no
  BY <1>1, <1>3, Sizes
<1> QED
  BY <1>2, <1>3

\* Nor does damaged data.
LEMMA DataTrue ==
  ASSUME NEW d \in Contents, NEW crc \in BOOLEAN, NEW crc2 \in BOOLEAN,
         NEW b, NEW k, b = d \/ b \in Garbles, k = Check(crc, d) \/ k \in Garbles,
         k = Check(crc2, b)
  PROVE  b = d
<1>1. d \in Int /\ d >= 0 /\ d <= 999
  BY DEF Contents, Data, Commands, SOH, STX, EOT, CAN, Null, Header
<1>2. ASSUME NEW g \in Garbles PROVE g \in Int /\ g >= 0 /\ g <= 255
  BY <1>2, GarbleBytes DEF EOT, ACK, NACK, CAN, CRC, Noise
<1>3. b \in Int /\ b >= 0 /\ (b \in Garbles => b <= 255)
  BY <1>1, <1>2
<1>4. k >= 1000
  BY <1>3 DEF Check
<1>5. k = Check(crc, d)
  BY <1>2, <1>4
<1>6. k \in {d + 1000, d + 2000} /\ k \in {b + 1000, b + 2000}
  BY <1>5 DEF Check
<1>7. b = d \/ b = d + 1000 \/ d = b + 1000
  BY <1>1, <1>3, <1>6
<1>8. CASE b = d + 1000
  BY <1>1, <1>2, <1>3, <1>8
<1>9. CASE d = b + 1000
  BY <1>1, <1>3, <1>9
<1> QED
  BY <1>7, <1>8, <1>9

\* The five bytes of a frame.
LEMMA FrameBytes ==
  ASSUME NEW start \in {SOH, STX}, NEW no \in 0 .. Mod - 1, NEW crc \in BOOLEAN,
         NEW d \in Contents
  PROVE  /\ Frame(start, no, d, crc) \in Seq(Int) /\ Len(Frame(start, no, d, crc)) = 5
         /\ Frame(start, no, d, crc)[1] = start /\ Frame(start, no, d, crc)[2] = no
         /\ Frame(start, no, d, crc)[3] = Mod - 1 - no
         /\ Frame(start, no, d, crc)[4] = d
         /\ Frame(start, no, d, crc)[5] = Check(crc, d)
<1>1. Check(crc, d) \in Int /\ d \in Int /\ start \in Int /\ Mod - 1 - no \in Int
  BY Sizes DEF Contents, Data, Commands, Check, SOH, STX, EOT, CAN, Null, Header
<1> QED
  BY <1>1 DEF Frame

\* What is left of a sequence.
LEMMA Dropped ==
  ASSUME NEW q \in Seq(Int), NEW n \in Nat
  PROVE  /\ Drop(q, n) \in Seq(Int)
         /\ n >= Len(q) => Drop(q, n) = <<>>
         /\ n < Len(q) => Drop(q, n) # <<>> /\ Drop(q, n)[1] = q[n + 1]
<1>1. Len(q) \in Nat
  OBVIOUS
<1>2. CASE n >= Len(q)
  <2>1. Drop(q, n) = <<>>
    BY <1>1, <1>2, SubSeqEmpty DEF Drop
  <2> QED
    BY <1>1, <1>2, <2>1
<1>3. CASE n < Len(q)
  <2>1. n + 1 \in Int /\ Len(q) \in Int /\ n + 1 <= Len(q)
    BY <1>1, <1>3
  <2>2. \A i \in n + 1 .. Len(q) : q[i] \in Int
    BY <1>1, ElementOfSeq
  <2>3. /\ Drop(q, n) \in Seq(Int)
        /\ Len(Drop(q, n)) = Len(q) - (n + 1) + 1
        /\ \A i \in 1 .. Len(q) - (n + 1) + 1 : Drop(q, n)[i] = q[n + 1 + i - 1]
    BY <2>1, <2>2, SubSeqProperties DEF Drop
  <2>4. 1 \in 1 .. Len(q) - (n + 1) + 1 /\ n + 1 + 1 - 1 = n + 1
    BY <2>1
  <2>5. Drop(q, n)[1] = q[n + 1]
    BY <2>3, <2>4
  <2>6. Drop(q, n) # <<>>
    BY <2>1, <2>3
  <2> QED
    BY <1>1, <1>3, <2>3, <2>5, <2>6
<1> QED
  BY <1>1, <1>2, <1>3

\* What a writer adds does not change the beginning.
LEMMA Appended ==
  ASSUME NEW q \in Seq(Int), NEW b \in Seq(Int)
  PROVE  /\ q \o b \in Seq(Int) /\ Len(q \o b) = Len(q) + Len(b)
         /\ q = <<>> => q \o b = b
         /\ b = <<>> => q \o b = q
         /\ Doomed(q) => Doomed(q \o b)
<1>1. /\ q \o b \in Seq(Int) /\ Len(q \o b) = Len(q) + Len(b)
      /\ \A i \in 1 .. Len(q) : (q \o b)[i] = q[i]
  BY ConcatProperties
<1>2. q = <<>> => q \o b = b
  OBVIOUS
<1>3. b = <<>> => q \o b = q
  OBVIOUS
<1>4. ASSUME Doomed(q) PROVE Doomed(q \o b)
  <2>1. Len(q) > 0 /\ q[1] \notin Commands
    BY <1>4 DEF Doomed
  <2>2. (q \o b)[1] = q[1] /\ Len(q \o b) > 0
    BY <1>1, <2>1
  <2> QED
    BY <1>1, <2>1, <2>2 DEF Doomed
<1> QED
  BY <1>1, <1>2, <1>3, <1>4

\* What a reader takes, and what it leaves.
LEMMA ReadFirst ==
  ASSUME NEW q \in Seq(Int), q # <<>>
  PROVE  /\ Head(q) = q[1] /\ q[1] \in Int /\ Tail(q) \in Seq(Int) /\ Len(Tail(q)) = Len(q) - 1
         /\ \A i \in 1 .. Len(Tail(q)) : Tail(q)[i] = q[i + 1]
BY HeadTailProperties

-----------------------------------------------------------------------------
(* The sender.                                                             *)

SenderFields ==
  [pc : SenderStates, k : Nat \ {0}, crc : BOOLEAN, retries : Nat, tries : Nat,
   test : BOOLEAN]

\* What the sender writes is a sequence of bytes.
LEMMA WrittenBytes ==
  ASSUME NEW t \in SenderFields
  PROVE  BlockOf(t) \in Seq(Int) /\ HeaderFrame(Header) \in Seq(Int)
         /\ HeaderFrame(Null) \in Seq(Int) /\ Written(t) \in Seq(Int)
<1>1. HeaderFrame(Header) \in Seq(Int) /\ HeaderFrame(Null) \in Seq(Int)
  <2>1. 0 \in 0 .. Mod - 1
    BY Sizes
  <2>2. /\ Header \in Contents /\ Null \in Contents /\ TRUE \in BOOLEAN
        /\ SOH \in {SOH, STX}
    BY DEF Contents
  <2> QED
    BY <2>1, <2>2, FrameBytes, Zenon DEF HeaderFrame
<1>2. BlockOf(t) \in Seq(Int)
  <2>1. CASE t.k <= Len(File)
    <3>1. t.k \in Nat /\ t.k \in 1 .. Len(File) /\ t.crc \in BOOLEAN
      BY <2>1, Sizes DEF SenderFields
    <3>2. t.k % Mod \in 0 .. Mod - 1
      BY <3>1, Residue
    <3>3. File[t.k] \in Contents
      BY <3>1, FileByte
    <3>4. ASSUME NEW start \in {SOH, STX}
          PROVE  Frame(start, t.k % Mod, File[t.k], t.crc) \in Seq(Int)
      BY <3>1, <3>2, <3>3, FrameBytes, Zenon
    <3> QED
      BY <2>1, <3>4 DEF BlockOf
  <2>2. CASE ~(t.k <= Len(File))
    BY <2>2 DEF BlockOf, EOT
  <2> QED
    BY <2>1, <2>2
<1> QED
  BY <1>1, <1>2 DEF Written

\* What is on the line is garbled by nothing.
LEMMA NotGarbled == ASSUME NEW q \in Seq(Int) PROVE Garbled(q, q)
BY DEF Garbled, Damaged

\* What the sender learns from byte b.
Learns(b) ==
    /\ b \in Int /\ toS' \in Seq(Int)
    /\ \A i \in 1 .. Len(toS') : toS'[i] # ACK
    /\ b = ACK => /\ s.pc \in {"header", "block", "eot"}
                  /\ s.pc = "block" => Len(r.got) = s.k
    /\ r.pc = "off" => toS' = <<>>
    /\ ~ReceiverDone =>
         /\ toR = <<>> \/ Doomed(toR)
         /\ toS' = <<>> \/ (s.pc \in {"header", "eot"} /\ Len(toS') = 1 /\ b \in {ACK, Noise})

\* A byte is read when the receiver has dealt with all it was sent, or is
\* about to give up.
LEMMA Reads ==
  ASSUME Sound, ~SenderDone, NEW b \in Replies, SenderReads(b)
  PROVE  Learns(b)
<1>1. toS \in Seq(Int) /\ s.pc \in SenderStates
  BY DEF Sound, Typed
<1>2. CASE toS # <<>>
  <2>1. b = toS[1] /\ b \in Int /\ toS' = Tail(toS) /\ toS' \in Seq(Int)
        /\ Len(toS') = Len(toS) - 1 /\ \A i \in 1 .. Len(toS') : toS'[i] = toS[i + 1]
    BY <1>1, <1>2, ReadFirst DEF SenderReads
  <2>2. Len(toS) \in Nat /\ Len(toS) > 0 /\ Len(toS') \in Nat
    BY <1>1, <1>2, <2>1, EmptySeq
  <2>3. /\ \A i \in 1 .. Len(toS) : toS[i] = ACK =>
             /\ i = 1 /\ s.pc \in {"header", "block", "eot"}
             /\ s.pc = "block" => Len(r.got) = s.k
        /\ r.pc # "off"
        /\ ~ReceiverDone =>
             /\ toR = <<>> \/ Doomed(toR)
             /\ \/ Len(toS) <= 1
                \/ s.pc \in {"header", "eot"} /\ Len(toS) = 2 /\ toS[1] \in {ACK, Noise}
    BY <1>2 DEF Sound, AnswersOK
  <2>4. \A i \in 1 .. Len(toS') : toS'[i] # ACK
    BY <2>1, <2>2, <2>3
  <2>5. b = ACK => /\ s.pc \in {"header", "block", "eot"}
                   /\ s.pc = "block" => Len(r.got) = s.k
    <3>1. 1 \in 1 .. Len(toS)
      BY <2>2
    <3> QED
      BY <2>1, <2>3, <3>1
  <2>6. Len(toS) <= 1 => toS' = <<>>
    BY <2>1, <2>2, EmptySeq
  <2>7. ~ReceiverDone =>
         /\ toR = <<>> \/ Doomed(toR)
         /\ toS' = <<>> \/ (s.pc \in {"header", "eot"} /\ Len(toS') = 1 /\ b \in {ACK, Noise})
    <3>1. Len(toS) <= 1 \/ Len(toS) = 2 => Len(toS) <= 1 \/ Len(toS') = 1
      BY <2>1, <2>2
    <3> QED
      BY <2>1, <2>3, <2>6, <3>1
  <2> QED
    BY <2>1, <2>3, <2>4, <2>5, <2>7 DEF Learns
<1>3. CASE toS = <<>>
  <2>1. b = NoByte /\ toS' = <<>> /\ SenderWaits
    BY <1>3 DEF SenderReads
  <2>2. ~ReceiverDone => toR = <<>> \/ Doomed(toR)
    BY <2>1 DEF Sound, FramesOK, SenderWaits, SenderDone
  <2> QED
    BY <2>1, <2>2 DEF Learns, NoByte, ACK
<1> QED
  BY <1>2, <1>3

\* What the sender writes fits what it does next.
Fits(bytes) ==
    \/ bytes = <<>>
    \/ s'.pc = "failed" /\ bytes = <<CAN, CAN>>
    \/ s'.pc \in {"header", "block", "eot"} /\ bytes = Written(s)'
       /\ (ReceiverDone \/ toS' = <<>>)
    \/ s'.pc = "ok" /\ Y /\ bytes = HeaderFrame(Null)

\* A step of the sender that writes what fits its next state keeps the invariant.
LEMMA Writes ==
  ASSUME Sound, ~SenderDone, NEW b, Learns(b), NEW bytes \in Seq(Int), SenderWrites(bytes),
         Fits(bytes), s' \in SenderFields, PlaceOK', s'.k <= Len(r.got) + 1,
         s.pc = "eot" => s'.pc \in {"ok", "failed"},
         s'.pc \in {"ok", "failed"} \/ toS' = <<>> \/ ReceiverDone \/ bytes = <<>>
  PROVE  Sound'
<1> USE DEF Sound
<1>1. /\ r' = r /\ protocol' = protocol /\ ReceiverDone' = ReceiverDone
      /\ toR' = IF ReceiverDone THEN toR ELSE toR \o bytes
  BY DEF SenderWrites, ReceiverDone
<1>2. Typed'
  <2>1. toR' \in Seq(Int)
    BY <1>1, Appended DEF Typed
  <2> QED
    BY <1>1, <2>1 DEF Typed, Learns, SenderFields
<1>3. StoredOK'
  <2>1. s.pc \notin {"ok", "failed"}
    BY DEF SenderDone
  <2> QED
    BY <1>1, <2>1 DEF StoredOK, Y
<1>4. FramesOK'
  <2> SUFFICES ASSUME ~ReceiverDone PROVE FramesOK'
    BY <1>1 DEF FramesOK
  <2>1. toR \in Seq(Int) /\ toR' = toR \o bytes /\ (toR = <<>> \/ Doomed(toR))
    BY <1>1 DEF Typed, Learns
  <2>2. CASE Doomed(toR)
    BY <2>1, <2>2, Appended DEF FramesOK
  <2>3. CASE toR = <<>>
    <3>1. toR' = bytes
      BY <2>1, <2>3, Appended
    <3>2. CASE bytes = <<>>
      BY <3>1, <3>2 DEF FramesOK
    <3>3. CASE s'.pc = "failed" /\ bytes = <<CAN, CAN>>
      BY <3>1, <3>3 DEF FramesOK, Ended, CAN, SOH, STX, EOT
    <3>4. CASE s'.pc \in {"header", "block", "eot"} /\ bytes = Written(s)'
      <4>1. Garbled(toR, Written(s))'
        BY <3>1, <3>4, NotGarbled DEF Garbled
      <4> QED
        BY <3>4, <4>1 DEF FramesOK
    <3>5. CASE s'.pc = "ok" /\ Y /\ bytes = HeaderFrame(Null)
      <4>1. Garbled(toR', HeaderFrame(Null)) /\ Y'
        BY <1>1, <3>1, <3>5, NotGarbled DEF Y
      <4> QED
        BY <3>5, <4>1 DEF FramesOK
    <3> QED
      BY <3>2, <3>3, <3>4, <3>5 DEF Fits
  <2> QED
    BY <2>1, <2>2, <2>3
<1>5. AnswersOK'
  <2> SUFFICES ASSUME s'.pc \notin {"ok", "failed"} PROVE AnswersOK'
    BY DEF AnswersOK, SenderDone
  <2>1. ~ReceiverDone /\ toS' # <<>> => toR' = toR /\ Len(toS') <= 1
    <3> SUFFICES ASSUME ~ReceiverDone, toS' # <<>> PROVE toR' = toR /\ Len(toS') <= 1
      OBVIOUS
    <3>1. bytes = <<>> /\ Len(toS') = 1
      BY DEF Learns
    <3>2. toR \o <<>> = toR
      BY Appended DEF Typed
    <3> QED
      BY <1>1, <3>1, <3>2
  <2>2. \A i \in 1 .. Len(toS') : toS'[i] # ACK
    BY DEF Learns
  <2>3. r'.pc = "off" => toS' = <<>>
    BY <1>1 DEF Learns
  <2>4. toS' = <<>> => Len(toS') <= 1
    OBVIOUS
  <2>5. ~ReceiverDone => toR' = <<>> \/ Doomed(toR') \/ toS' = <<>>
    BY <2>1 DEF Learns
  <2> QED
    BY <1>1, <2>1, <2>2, <2>3, <2>4, <2>5 DEF AnswersOK
<1> QED
  BY <1>2, <1>3, <1>4, <1>5

\* The loop of transmitFrames goes on with a block and writes it.
LEMMA NextWrites ==
  ASSUME NEW t \in SenderFields, t.k <= Len(File) + 1, protocol' = protocol,
         s' = NextBlock(t)
  PROVE  /\ s' \in SenderFields /\ s'.k = t.k /\ s'.pc \in {"block", "eot"}
         /\ PlaceOK' /\ BlockOf(t) \in Seq(Int) /\ BlockOf(t) = Written(s)'
<1>1. BlockOf(t) \in Seq(Int)
  BY WrittenBytes
<1>2. t.k \in Nat /\ t.k > 0 /\ Len(File) \in Nat
  BY Sizes DEF SenderFields
<1>3. /\ s' \in SenderFields /\ s'.k = t.k /\ s'.crc = t.crc
      /\ t.k <= Len(File) => s'.pc = "block"
      /\ ~(t.k <= Len(File)) => s'.pc = "eot"
  BY <1>2 DEF NextBlock, SenderFields, SenderStates
<1>4. PlaceOK'
  BY <1>2, <1>3 DEF PlaceOK
<1>5. Written(s)' = BlockOf(t)
  BY <1>2, <1>3 DEF Written, BlockOf, Y
<1> QED
  BY <1>1, <1>2, <1>3, <1>4, <1>5

\* The header is written again, or the sender gives up.
LEMMA HeaderWrites ==
  ASSUME Sound, NEW t \in SenderFields, t.k = 1, Y, s.pc \in {"header", "prompt"}, NEW b,
         Learns(b), ReceiverDone \/ toS' = <<>>, HeaderAgain(t)
  PROVE  Sound'
<1>1. /\ HeaderFrame(Header) \in Seq(Int) /\ <<CAN, CAN>> \in Seq(Int) /\ ~SenderDone
      /\ 1 <= Len(r.got) + 1
  BY WrittenBytes DEF CAN, SenderDone, Sound, Typed
<1>2. CASE t.tries < StartTries
  <2>1. s' = [t EXCEPT !.pc = "header"] /\ SenderWrites(HeaderFrame(Header))
    BY <1>2 DEF HeaderAgain
  <2>2. s' \in SenderFields /\ s'.pc = "header" /\ s'.k = 1
    BY <2>1 DEF SenderFields, SenderStates
  <2>3. PlaceOK'
    BY <2>1, <2>2 DEF PlaceOK, SenderWrites, Y
  <2>4. HeaderFrame(Header) = Written(s)'
    BY <2>2 DEF Written
  <2>5. Fits(HeaderFrame(Header))
    BY <2>2, <2>4 DEF Fits
  <2> QED
    BY <1>1, <2>1, <2>2, <2>3, <2>5, Writes
<1>3. CASE ~(t.tries < StartTries)
  <2>1. s' = [t EXCEPT !.pc = "failed"] /\ SenderWrites(<<CAN, CAN>>)
    BY <1>3 DEF HeaderAgain
  <2>2. s' \in SenderFields /\ s'.pc = "failed" /\ s'.k = 1
    BY <2>1 DEF SenderFields, SenderStates
  <2>3. PlaceOK' /\ Fits(<<CAN, CAN>>)
    BY <2>1, <2>2 DEF PlaceOK, Fits
  <2> QED
    BY <1>1, <2>1, <2>2, <2>3, Writes
<1> QED
  BY <1>2, <1>3

\* The sender gives up.
LEMMA GivesUp ==
  ASSUME Sound, ~SenderDone, NEW b, Learns(b), s' = [s EXCEPT !.pc = "failed"],
         NEW bytes, bytes = <<>> \/ bytes = <<CAN, CAN>>, SenderWrites(bytes)
  PROVE  Sound'
<1>1. s \in SenderFields /\ s.k <= Len(r.got) + 1
  BY DEF Sound, Typed, StoredOK, SenderFields
<1>2. s' \in SenderFields /\ s'.pc = "failed" /\ s'.k = s.k
  BY <1>1 DEF SenderFields, SenderStates
<1>3. PlaceOK' /\ Fits(bytes)
  BY <1>2 DEF PlaceOK, Fits
<1>4. bytes \in Seq(Int)
  <2>1. <<>> \in Seq(Int) /\ <<CAN, CAN>> \in Seq(Int)
    BY DEF CAN
  <2> QED
    BY <2>1
<1> QED
  BY <1>1, <1>2, <1>3, <1>4, Writes

\* Without an end in sight the sender waits for one answer at a time.
LEMMA OneAnswer ==
  ASSUME NEW b, Learns(b), b \notin {ACK, Noise} \/ s.pc \notin {"header", "eot"}
  PROVE  ReceiverDone \/ toS' = <<>>
BY DEF Learns

\* The wait for the first prompt: the transfer starts at block 1, in YModem with
\* the header.
LEMMA StartInv == ASSUME Sound, Start PROVE Sound'
<1>1. PICK b \in Replies :
        /\ SenderReads(b)
        /\ IF b = CRC /\ Y
             THEN s' = [s EXCEPT !.pc = "header"]
                  /\ SenderWrites(HeaderFrame(Header))
           ELSE IF b \in {CRC, NACK}
             THEN LET t == [s EXCEPT !.crc = b = CRC]
                  IN s' = NextBlock(t) /\ SenderWrites(BlockOf(t))
           ELSE IF s.tries + 1 < StartTries
             THEN s' = [s EXCEPT !.tries = @ + 1] /\ SenderWrites(<<>>)
           ELSE s' = [s EXCEPT !.pc = "failed"] /\ SenderWrites(<<CAN, CAN>>)
  BY DEF Start
<1>2. s \in SenderFields /\ s.pc = "start" /\ s.k = 1 /\ ~SenderDone /\ s.k <= Len(r.got) + 1
  BY DEF Sound, Typed, SenderFields, PlaceOK, StoredOK, Start, SenderDone
<1>3. Learns(b) /\ (ReceiverDone \/ toS' = <<>>)
  BY <1>1, <1>2, Reads, OneAnswer
<1>4. CASE b = CRC /\ Y
  <2>1. s' = [s EXCEPT !.pc = "header"] /\ SenderWrites(HeaderFrame(Header))
    BY <1>1, <1>4
  <2>2. s' \in SenderFields /\ s'.pc = "header" /\ s'.k = 1
    BY <1>2, <2>1 DEF SenderFields, SenderStates
  <2>3. PlaceOK'
    BY <1>4, <2>1, <2>2 DEF PlaceOK, SenderWrites, Y
  <2>4. HeaderFrame(Header) = Written(s)' /\ HeaderFrame(Header) \in Seq(Int)
    BY <2>2, <1>2, WrittenBytes DEF Written
  <2>5. Fits(HeaderFrame(Header))
    BY <1>3, <2>2, <2>4 DEF Fits
  <2> QED
    BY <1>2, <1>3, <2>1, <2>2, <2>3, <2>4, <2>5, Writes
<1>5. CASE ~(b = CRC /\ Y) /\ b \in {CRC, NACK}
  <2> DEFINE t == [s EXCEPT !.crc = b = CRC]
  <2>1. s' = NextBlock(t) /\ SenderWrites(BlockOf(t))
    BY <1>1, <1>5
  <2>2. t \in SenderFields /\ t.k = 1
    BY <1>2 DEF SenderFields
  <2>3. protocol' = protocol /\ 1 <= Len(File) + 1
    BY <2>1, Sizes DEF SenderWrites
  <2> HIDE DEF t
  <2>4. /\ s' \in SenderFields /\ s'.k = t.k /\ s'.pc \in {"block", "eot"}
        /\ PlaceOK' /\ BlockOf(t) \in Seq(Int) /\ BlockOf(t) = Written(s)'
    BY <2>1, <2>2, <2>3, NextWrites
  <2>5. Fits(BlockOf(t))
    BY <1>3, <2>4 DEF Fits
  <2> QED
    BY <1>2, <1>3, <2>1, <2>2, <2>4, <2>5, Writes
<1>6. CASE b \notin {CRC, NACK} /\ s.tries + 1 < StartTries
  <2>1. s' = [s EXCEPT !.tries = @ + 1] /\ SenderWrites(<<>>)
    BY <1>1, <1>6
  <2>2. s' \in SenderFields /\ s'.pc = "start" /\ s'.k = 1
    BY <1>2, <2>1 DEF SenderFields
  <2>3. PlaceOK' /\ Fits(<<>>) /\ <<>> \in Seq(Int)
    BY <1>2, <2>1, <2>2 DEF PlaceOK, Fits, SenderWrites, Y
  <2> QED
    BY <1>2, <1>3, <2>1, <2>2, <2>3, Writes
<1>7. CASE b \notin {CRC, NACK} /\ ~(s.tries + 1 < StartTries)
  <2>1. s' = [s EXCEPT !.pc = "failed"] /\ SenderWrites(<<CAN, CAN>>)
    BY <1>1, <1>7
  <2> QED
    BY <1>2, <1>3, <2>1, GivesUp
<1> QED
  BY <1>4, <1>5, <1>6, <1>7

\* Only an ACK takes the sender from the header to the wait for a prompt.
LEMMA HeaderAnswerInv == ASSUME Sound, HeaderAnswer PROVE Sound'
<1>1. PICK b \in Replies :
        /\ SenderReads(b)
        /\ CASE b = ACK ->
                  s' = [s EXCEPT !.pc = "prompt"] /\ SenderWrites(<<>>)
             [] b = CRC /\ s.test ->
                  HeaderAgain([s EXCEPT !.test = FALSE, !.tries = @ + 1])
             [] b = NACK /\ ~s.test -> HeaderAgain(s)
             [] OTHER -> s' = [s EXCEPT !.pc = "failed"]
                         /\ SenderWrites(<<CAN, CAN>>)
  BY DEF HeaderAnswer
<1>2. /\ s \in SenderFields /\ s.pc = "header" /\ s.k = 1 /\ ~SenderDone /\ Y
      /\ s.k <= Len(r.got) + 1
  BY DEF Sound, Typed, SenderFields, PlaceOK, StoredOK, HeaderAnswer, SenderDone
<1>3. Learns(b)
  BY <1>1, <1>2, Reads
<1>4. CASE b = ACK
  <2>1. s' = [s EXCEPT !.pc = "prompt"] /\ SenderWrites(<<>>)
    BY <1>1, <1>4 DEF ACK, CRC, NACK
  <2>2. s' \in SenderFields /\ s'.pc = "prompt" /\ s'.k = 1
    BY <1>2, <2>1 DEF SenderFields, SenderStates
  <2>3. PlaceOK' /\ Fits(<<>>) /\ <<>> \in Seq(Int)
    BY <1>2, <2>1, <2>2 DEF PlaceOK, Fits, SenderWrites, Y
  <2> QED
    BY <1>2, <1>3, <2>1, <2>2, <2>3, Writes
<1>5. CASE b = CRC /\ s.test
  <2>1. [s EXCEPT !.test = FALSE, !.tries = @ + 1] \in SenderFields
        /\ [s EXCEPT !.test = FALSE, !.tries = @ + 1].k = 1
    <3>1. s.tries + 1 \in Nat
      BY <1>2 DEF SenderFields
    <3> QED
      BY <1>2, <3>1 DEF SenderFields
  <2>2. ReceiverDone \/ toS' = <<>>
    BY <1>3, <1>5, OneAnswer DEF CRC, ACK, Noise
  <2>3. HeaderAgain([s EXCEPT !.test = FALSE, !.tries = @ + 1])
    BY <1>1, <1>5 DEF ACK, CRC, NACK
  <2> QED
    BY <1>2, <1>3, <2>1, <2>2, <2>3, HeaderWrites
<1>6. CASE b = NACK /\ ~s.test
  <2>1. ReceiverDone \/ toS' = <<>>
    BY <1>3, <1>6, OneAnswer DEF NACK, ACK, Noise
  <2>2. HeaderAgain(s)
    BY <1>1, <1>6 DEF ACK, CRC, NACK
  <2> QED
    BY <1>2, <1>3, <2>1, <2>2, HeaderWrites
<1>7. CASE b # ACK /\ ~(b = CRC /\ s.test) /\ ~(b = NACK /\ ~s.test)
  <2>1. s' = [s EXCEPT !.pc = "failed"] /\ SenderWrites(<<CAN, CAN>>)
    BY <1>1, <1>7
  <2> QED
    BY <1>2, <1>3, <2>1, GivesUp
<1> QED
  BY <1>4, <1>5, <1>6, <1>7

\* The prompt after the header starts the blocks; all else repeats the header.
LEMMA HeaderPromptInv == ASSUME Sound, HeaderPrompt PROVE Sound'
<1>1. PICK b \in Replies :
        /\ SenderReads(b)
        /\ IF b = CRC THEN s' = NextBlock(s) /\ SenderWrites(BlockOf(s))
                      ELSE HeaderAgain([s EXCEPT !.tries = @ + 1])
  BY DEF HeaderPrompt
<1>2. /\ s \in SenderFields /\ s.pc = "prompt" /\ s.k = 1 /\ ~SenderDone
      /\ s.k <= Len(r.got) + 1
  BY DEF Sound, Typed, SenderFields, PlaceOK, StoredOK, HeaderPrompt, SenderDone
<1>3. Learns(b) /\ (ReceiverDone \/ toS' = <<>>)
  BY <1>1, <1>2, Reads, OneAnswer
<1>4. CASE b = CRC
  <2>1. s' = NextBlock(s) /\ SenderWrites(BlockOf(s))
    BY <1>1, <1>4
  <2>2. protocol' = protocol /\ s.k <= Len(File) + 1
    BY <1>2, <2>1, Sizes DEF SenderWrites
  <2>3. /\ s' \in SenderFields /\ s'.k = s.k /\ s'.pc \in {"block", "eot"}
        /\ PlaceOK' /\ BlockOf(s) \in Seq(Int) /\ BlockOf(s) = Written(s)'
    BY <1>2, <2>1, <2>2, NextWrites
  <2>4. Fits(BlockOf(s))
    BY <1>3, <2>3 DEF Fits
  <2> QED
    BY <1>2, <1>3, <2>1, <2>3, <2>4, Writes
<1>5. CASE b # CRC
  <2>1. [s EXCEPT !.tries = @ + 1] \in SenderFields /\ [s EXCEPT !.tries = @ + 1].k = 1
    BY <1>2 DEF SenderFields
  <2>2. HeaderAgain([s EXCEPT !.tries = @ + 1])
    BY <1>1, <1>5
  <2>3. Y
    BY <1>2 DEF Sound, PlaceOK
  <2> QED
    BY <1>2, <1>3, <2>1, <2>2, <2>3, HeaderWrites
<1> QED
  BY <1>4, <1>5

\* An ACK takes the sender to the next block, and to the next block only if
\* this one is stored.
LEMMA BlockAnswerInv == ASSUME Sound, BlockAnswer PROVE Sound'
<1>1. PICK b \in Replies :
        /\ SenderReads(b)
        /\ CASE b = ACK -> LET t == [s EXCEPT !.k = @ + 1]
                           IN s' = NextBlock(t) /\ SenderWrites(BlockOf(t))
             [] b = CAN -> s' = [s EXCEPT !.pc = "failed"] /\ SenderWrites(<<>>)
             [] b \notin {ACK, CAN} /\ s.retries < SendRetries ->
                  s' = [s EXCEPT !.retries = @ + 1] /\ SenderWrites(BlockOf(s))
             [] OTHER -> s' = [s EXCEPT !.pc = "failed"]
                         /\ SenderWrites(<<CAN, CAN>>)
  BY DEF BlockAnswer
<1>2. /\ s \in SenderFields /\ s.pc = "block" /\ ~SenderDone /\ s.k <= Len(File)
      /\ s.k <= Len(r.got) + 1 /\ s.k \in Nat \ {0}
  BY DEF Sound, Typed, SenderFields, PlaceOK, StoredOK, BlockAnswer, SenderDone
<1>3. Learns(b) /\ (ReceiverDone \/ toS' = <<>>)
  BY <1>1, <1>2, Reads, OneAnswer
<1>4. CASE b = ACK
  <2> DEFINE t == [s EXCEPT !.k = @ + 1]
  <2>1. s' = NextBlock(t) /\ SenderWrites(BlockOf(t))
    BY <1>1, <1>4 DEF ACK, CAN
  <2>2. t \in SenderFields /\ t.k = s.k + 1
    BY <1>2 DEF SenderFields
  <2>3. protocol' = protocol
    BY <2>1 DEF SenderWrites
  <2>4. Len(r.got) = s.k
    BY <1>2, <1>3, <1>4 DEF Learns
  <2> HIDE DEF t
  <2>5. t.k <= Len(File) + 1 /\ t.k <= Len(r.got) + 1
    BY <1>2, <2>2, <2>4, Sizes
  <2>6. /\ s' \in SenderFields /\ s'.k = t.k /\ s'.pc \in {"block", "eot"}
        /\ PlaceOK' /\ BlockOf(t) \in Seq(Int) /\ BlockOf(t) = Written(s)'
    BY <2>1, <2>2, <2>3, <2>5, NextWrites
  <2>7. Fits(BlockOf(t))
    BY <1>3, <2>6 DEF Fits
  <2> QED
    BY <1>2, <1>3, <2>1, <2>5, <2>6, <2>7, Writes
<1>5. CASE b = CAN
  <2>1. s' = [s EXCEPT !.pc = "failed"] /\ SenderWrites(<<>>)
    BY <1>1, <1>5 DEF ACK, CAN
  <2> QED
    BY <1>2, <1>3, <2>1, GivesUp
<1>6. CASE b \notin {ACK, CAN} /\ s.retries < SendRetries
  <2>1. s' = [s EXCEPT !.retries = @ + 1] /\ SenderWrites(BlockOf(s))
    BY <1>1, <1>6
  <2>2. s' \in SenderFields /\ s'.k = s.k /\ s'.crc = s.crc /\ s'.pc = "block"
    BY <1>2, <2>1 DEF SenderFields
  <2>3. PlaceOK' /\ protocol' = protocol
    BY <1>2, <2>1, <2>2 DEF PlaceOK, SenderWrites
  <2>4. BlockOf(s) = Written(s)' /\ BlockOf(s) \in Seq(Int)
    BY <1>2, <2>2, <2>3, WrittenBytes DEF Written, BlockOf, Y
  <2>5. Fits(BlockOf(s))
    BY <1>3, <2>2, <2>4 DEF Fits
  <2> QED
    BY <1>2, <1>3, <2>1, <2>2, <2>3, <2>4, <2>5, Writes
<1>7. CASE b \notin {ACK, CAN} /\ ~(s.retries < SendRetries)
  <2>1. s' = [s EXCEPT !.pc = "failed"] /\ SenderWrites(<<CAN, CAN>>)
    BY <1>1, <1>7
  <2> QED
    BY <1>2, <1>3, <2>1, GivesUp
<1> QED
  BY <1>4, <1>5, <1>6, <1>7

\* The answer to EOT ends the transfer; in YModem the last header follows.
LEMMA EotAnswerInv == ASSUME Sound, EotAnswer PROVE Sound'
<1>1. PICK b \in Replies :
        /\ SenderReads(b)
        /\ s' = [s EXCEPT !.pc = IF b = ACK THEN "ok" ELSE "failed"]
        /\ SenderWrites(IF b = ACK /\ Y /\ s.crc THEN HeaderFrame(Null) ELSE <<>>)
  BY DEF EotAnswer
<1>2. /\ s \in SenderFields /\ s.pc = "eot" /\ ~SenderDone /\ s.k = Len(File) + 1
      /\ s.k <= Len(r.got) + 1
  BY DEF Sound, Typed, SenderFields, PlaceOK, StoredOK, EotAnswer, SenderDone
<1>3. Learns(b)
  BY <1>1, <1>2, Reads
<1> DEFINE bytes == IF b = ACK /\ Y /\ s.crc THEN HeaderFrame(Null) ELSE <<>>
<1>4. s' \in SenderFields /\ s'.k = s.k /\ s'.pc = IF b = ACK THEN "ok" ELSE "failed"
  BY <1>1, <1>2 DEF SenderFields, SenderStates
<1>5. PlaceOK'
  BY <1>2, <1>4 DEF PlaceOK
<1>6. bytes \in Seq(Int) /\ SenderWrites(bytes)
  BY <1>1, <1>2, WrittenBytes
<1>7. Fits(bytes)
  BY <1>4 DEF Fits
<1> HIDE DEF bytes
<1> QED
  BY <1>2, <1>3, <1>4, <1>5, <1>6, <1>7, Writes

\* Every step of the sender.
LEMMA SenderInv == Sound /\ Sender => Sound'
BY StartInv, HeaderAnswerInv, HeaderPromptInv, BlockAnswerInv, EotAnswerInv DEF Sender

-----------------------------------------------------------------------------
(* The receiver.                                                           *)

ReceiverFields ==
  [pc : ReceiverStates, no : Nat, crc : BOOLEAN, prompts : Nat, retries : Nat,
   got : Seq(Int), size : Nat, file : Seq(Int), room : Nat]

\* Damage does not change what a block that passes both checks says.
SaysTrue(no, d) ==
    /\ Len(toR) = 5
    /\ Number(3) = Mod - 1 - Number(2) => Number(2) = no
    /\ Intact => Byte(4) = d

\* A frame with any of its bytes damaged.
LEMMA GarbledFrame ==
  ASSUME toR \in Seq(Int), r.crc \in BOOLEAN, NEW start \in {SOH, STX},
         NEW no \in 0 .. Mod - 1, NEW d \in Contents, NEW crc \in BOOLEAN,
         Garbled(toR, Frame(start, no, d, crc))
  PROVE  SaysTrue(no, d)
<1> DEFINE f == Frame(start, no, d, crc)
<1>1. /\ f \in Seq(Int) /\ Len(f) = 5 /\ f[2] = no /\ f[3] = Mod - 1 - no /\ f[4] = d
      /\ f[5] = Check(crc, d)
  <2>1. /\ Frame(start, no, d, crc) \in Seq(Int) /\ Len(Frame(start, no, d, crc)) = 5
        /\ Frame(start, no, d, crc)[1] = start /\ Frame(start, no, d, crc)[2] = no
        /\ Frame(start, no, d, crc)[3] = Mod - 1 - no
        /\ Frame(start, no, d, crc)[4] = d
        /\ Frame(start, no, d, crc)[5] = Check(crc, d)
    BY FrameBytes
  <2> QED
    BY <2>1, Zenon
<1> HIDE DEF f
<1>2. Len(toR) = 5 /\ \A i \in 1 .. 5 : toR[i] = f[i] \/ toR[i] \in Garbles
  BY <1>1 DEF Garbled, Damaged, f
<1>3. Number(2) = toR[2] /\ Number(3) = toR[3] /\ Byte(4) = toR[4] /\ Byte(5) = toR[5]
  BY <1>2 DEF Number, Byte
<1>4. /\ toR[2] = no \/ toR[2] \in Garbles
      /\ toR[3] = Mod - 1 - no \/ toR[3] \in Garbles
      /\ toR[4] = d \/ toR[4] \in Garbles
      /\ toR[5] = Check(crc, d) \/ toR[5] \in Garbles
  BY <1>1, <1>2
<1>5. Number(3) = Mod - 1 - Number(2) => Number(2) = no
  BY <1>3, <1>4, NumberTrue
<1>6. Intact => Byte(4) = d
  BY <1>3, <1>4, DataTrue DEF Intact
<1> QED
  BY <1>2, <1>5, <1>6 DEF SaysTrue

\* The blocks that the sender may have on the line.
OnLine(no, d) ==
    \/ s.pc = "header" /\ Y /\ no = 0 /\ d = Header
    \/ s.pc = "block" /\ s.k \in 1 .. Len(File) /\ no = s.k /\ d = File[s.k]
    \/ s.pc = "ok" /\ Y /\ no = 0 /\ d = Null

\* A block that the receiver starts to read is the one the sender has written
\* last, and the sender has heard nothing of it.
LEMMA BlockOnLine ==
  ASSUME Short, Sound, AtBlock
  PROVE  /\ ~ReceiverDone /\ (SenderDone \/ toS = <<>>)
         /\ \E no \in Nat, d \in Int : OnLine(no, d) /\ SaysTrue(no, d)
<1>1. /\ r.pc = "cmd" /\ ~ReceiverDone /\ toR # <<>> /\ toR \in Seq(Int)
      /\ r.crc \in BOOLEAN /\ s \in SenderFields
  BY DEF Sound, AtBlock, ReceiverDone, Typed, SenderFields
<1>2. toR[1] \in {SOH, STX}
  BY <1>1, ReadFirst DEF AtBlock
<1>3. ~Doomed(toR) /\ ~Ended(toR)
  BY <1>2 DEF Doomed, Ended, Commands
<1>4. SenderDone \/ toS = <<>>
  BY <1>1, <1>3 DEF Sound, AnswersOK
<1>5. \/ s.pc \in {"header", "block", "eot"} /\ Garbled(toR, Written(s))
      \/ s.pc = "ok" /\ Y /\ Garbled(toR, HeaderFrame(Null))
  BY <1>1, <1>3 DEF Sound, FramesOK
<1>6. /\ 0 \in 0 .. Mod - 1 /\ 0 \in Nat /\ TRUE \in BOOLEAN /\ SOH \in {SOH, STX}
      /\ Header \in Contents /\ Null \in Contents /\ Header \in Int /\ Null \in Int
  BY Sizes DEF Contents, Header, Null
<1>7. CASE s.pc = "header" /\ Garbled(toR, Written(s))
  <2>1. Garbled(toR, Frame(SOH, 0, Header, TRUE))
    BY <1>7 DEF Written, HeaderFrame
  <2>2. SaysTrue(0, Header)
    BY <1>1, <1>6, <2>1, GarbledFrame, Zenon
  <2>3. OnLine(0, Header)
    BY <1>7 DEF OnLine, Sound, PlaceOK
  <2> QED
    BY <1>1, <1>4, <1>6, <2>2, <2>3
<1>8. CASE s.pc = "block" /\ Garbled(toR, Written(s))
  <2>1. s.k \in Nat /\ s.k \in 1 .. Len(File) /\ s.k < Mod /\ s.crc \in BOOLEAN
    BY <1>1, <1>8, Sizes DEF Sound, PlaceOK, SenderFields, Short
  <2>2. s.k % Mod = s.k /\ s.k \in 0 .. Mod - 1
    BY <2>1, Residue
  <2>3. File[s.k] \in Contents /\ File[s.k] \in Int
    BY <2>1, FileByte
  <2>4. PICK start \in {SOH, STX} : Garbled(toR, Frame(start, s.k, File[s.k], s.crc))
    <3>1. Garbled(toR, BlockOf(s)) /\ s.k <= Len(File)
      BY <1>8, <2>1 DEF Written
    <3> QED
      BY <2>2, <3>1 DEF BlockOf
  <2>5. SaysTrue(s.k, File[s.k])
    BY <1>1, <2>1, <2>2, <2>3, <2>4, GarbledFrame, Zenon
  <2>6. OnLine(s.k, File[s.k])
    BY <1>8, <2>1 DEF OnLine
  <2> QED
    BY <1>1, <1>4, <2>1, <2>3, <2>5, <2>6
<1>9. CASE s.pc = "eot" /\ Garbled(toR, Written(s))
  <2>1. Written(s) = <<EOT>>
    BY <1>1, <1>9, Sizes DEF Sound, PlaceOK, Written, BlockOf
  <2>2. toR[1] = EOT \/ toR[1] \notin Commands
    BY <1>9, <2>1 DEF Garbled, Damaged
  <2> QED
    BY <1>2, <2>2 DEF SOH, STX, EOT, Commands
<1>10. CASE s.pc = "ok" /\ Y /\ Garbled(toR, HeaderFrame(Null))
  <2>1. Garbled(toR, Frame(SOH, 0, Null, TRUE))
    BY <1>10 DEF HeaderFrame
  <2>2. SaysTrue(0, Null)
    BY <1>1, <1>6, <2>1, GarbledFrame, Zenon
  <2>3. OnLine(0, Null)
    BY <1>10 DEF OnLine
  <2> QED
    BY <1>1, <1>4, <1>6, <2>2, <2>3
<1> QED
  BY <1>5, <1>7, <1>8, <1>9, <1>10

\* What the receiver writes, and what it leaves on the line, fits what it has
\* stored.
LEMMA Replied ==
  ASSUME Sound, ~ReceiverDone, SenderDone \/ toS = <<>>, toR' \in Seq(Int),
         toR' = <<>> \/ Doomed(toR'), r' \in ReceiverFields, r'.pc # "off", StoredOK',
         NEW bytes \in Seq(Int), ReceiverWrites(bytes),
         \A i \in 1 .. Len(bytes) : bytes[i] = ACK =>
           \/ SenderDone
           \/ i = 1 /\ s.pc \in {"header", "block", "eot"}
              /\ (s.pc = "block" => Len(r'.got) = s.k),
         \/ SenderDone \/ r'.pc \in {"ok", "failed", "undefined"} \/ Len(bytes) <= 1
         \/ s.pc \in {"header", "eot"} /\ Len(bytes) = 2 /\ bytes[1] = ACK
  PROVE  Sound'
<1> USE DEF Sound
<1>1. /\ s' = s /\ protocol' = protocol /\ SenderDone' = SenderDone
      /\ toS' = IF SenderDone THEN toS ELSE toS \o bytes
  BY DEF ReceiverWrites, SenderDone
<1>2. Typed'
  <2>1. toS' \in Seq(Int)
    BY <1>1, Appended DEF Typed
  <2> QED
    BY <1>1, <2>1 DEF Typed, ReceiverFields
<1>3. PlaceOK'
  BY <1>1 DEF PlaceOK, Y
<1>4. FramesOK'
  BY DEF FramesOK
<1>5. AnswersOK'
  <2> SUFFICES ASSUME ~SenderDone PROVE AnswersOK'
    BY <1>1 DEF AnswersOK
  <2>1. toS' = bytes
    BY <1>1, Appended DEF Typed
  <2>2. r'.pc \in {"ok", "failed", "undefined"} <=> ReceiverDone'
    BY DEF ReceiverDone
  <2> QED
    BY <1>1, <2>1, <2>2 DEF AnswersOK
<1> QED
  BY <1>2, <1>3, <1>4, <1>5

\* r after a refusal: the receiver waits for the block again, or gives up.
LEMMA Refused ==
  ASSUME Sound, ~ReceiverDone, SenderDone \/ toS = <<>>, toR' \in Seq(Int),
         toR' = <<>> \/ Doomed(toR'), r.pc = "cmd", Nack
  PROVE  Sound'
<1>1. /\ r' = [r EXCEPT !.retries = @ + 1,
                        !.pc = IF r.retries + 1 < RcvRetries THEN @ ELSE "failed"]
      /\ ReceiverWrites(<<NACK>>)
  BY DEF Nack
<1>2. r \in ReceiverFields
  BY DEF Sound, Typed, ReceiverFields
<1>3. /\ r' \in ReceiverFields /\ r'.pc \in {"cmd", "failed"} /\ r'.got = r.got
      /\ r'.no = r.no /\ r'.size = r.size
  <2>1. r.retries + 1 \in Nat
    BY <1>2 DEF ReceiverFields
  <2> QED
    BY <1>1, <1>2, <2>1 DEF ReceiverFields, ReceiverStates
<1>4. StoredOK'
  BY <1>1, <1>3 DEF Sound, StoredOK, ReceiverWrites, Y
<1>5. <<NACK>> \in Seq(Int) /\ Len(<<NACK>>) <= 1 /\ \A i \in 1 .. 1 : <<NACK>>[i] # ACK
  BY DEF NACK, ACK
<1> QED
  BY <1>1, <1>3, <1>4, <1>5, Replied

\* The receiver starts on an empty line.
LEMMA ReceiveInv == ASSUME Sound, Receive PROVE Sound'
<1>1. /\ r.pc = "off" /\ r' = [r EXCEPT !.pc = "prompt", !.prompts = 1]
      /\ toR' = <<>> /\ ReceiverWrites(<<CRC>>) /\ ~ReceiverDone /\ r \in ReceiverFields
  BY DEF Receive, ReceiverDone, Sound, Typed, ReceiverFields
<1>2. SenderDone \/ toS = <<>>
  BY <1>1 DEF Sound, AnswersOK
<1>3. r' \in ReceiverFields /\ r'.pc = "prompt" /\ r'.got = r.got
  BY <1>1 DEF ReceiverFields, ReceiverStates
<1>4. StoredOK'
  BY <1>1, <1>3 DEF Sound, StoredOK, ReceiverWrites
<1>5. <<CRC>> \in Seq(Int) /\ Len(<<CRC>>) <= 1 /\ \A i \in 1 .. 1 : <<CRC>>[i] # ACK
  BY DEF CRC, ACK
<1>6. toR' \in Seq(Int)
  BY <1>1
<1> QED
  BY <1>1, <1>2, <1>3, <1>4, <1>5, <1>6, Replied

\* A prompt is repeated only when nothing is on the line.
LEMMA PromptAgainInv == ASSUME Sound, PromptAgain PROVE Sound'
<1>1. /\ r.pc = "prompt" /\ Silence /\ toR' = toR /\ ~ReceiverDone /\ r \in ReceiverFields
      /\ toR \in Seq(Int)
  BY DEF PromptAgain, ReceiverDone, Sound, Typed, ReceiverFields
<1>2. PICK bytes \in {<<>>, <<CRC>>, <<NACK>>} :
        /\ ReceiverWrites(bytes)
        /\ r' \in {[r EXCEPT !.prompts = @ + 1], [r EXCEPT !.pc = "undefined"]}
  BY DEF PromptAgain
<1>3. SenderDone \/ toS = <<>>
  BY <1>1 DEF Silence
<1>4. /\ r' \in ReceiverFields /\ r'.pc \in {"prompt", "undefined"} /\ r'.got = r.got
  <2>1. CASE r' = [r EXCEPT !.prompts = @ + 1]
    <3>1. r.prompts + 1 \in Nat
      BY <1>1 DEF ReceiverFields
    <3> QED
      BY <1>1, <2>1, <3>1 DEF ReceiverFields
  <2>2. CASE r' = [r EXCEPT !.pc = "undefined"]
    BY <1>1, <2>2 DEF ReceiverFields, ReceiverStates
  <2> QED
    BY <1>2, <2>1, <2>2
<1>5. StoredOK'
  BY <1>1, <1>2, <1>4 DEF Sound, StoredOK, ReceiverWrites
<1>6. /\ bytes \in Seq(Int) /\ Len(bytes) <= 1
      /\ \A i \in 1 .. Len(bytes) : bytes[i] # ACK
  <2>1. CASE bytes = <<>>
    BY <2>1
  <2>2. CASE bytes = <<CRC>>
    BY <2>2 DEF CRC, ACK
  <2>3. CASE bytes = <<NACK>>
    BY <2>3 DEF NACK, ACK
  <2> QED
    BY <2>1, <2>2, <2>3
<1>7. toR' \in Seq(Int) /\ toR' = <<>>
  BY <1>1 DEF Silence
<1> QED
  BY <1>1, <1>2, <1>3, <1>4, <1>5, <1>6, <1>7, Replied

\* The first byte ends the prompts; it is not read yet.
LEMMA FirstByteInv == ASSUME Short, Sound, FirstByte PROVE Sound'
<1>1. /\ r.pc = "prompt" /\ r \in ReceiverFields /\ toR' = toR
      /\ r' = [r EXCEPT !.pc = "cmd", !.crc = r.prompts <= Prompts,
                        !.no = IF Y THEN 0 ELSE 1, !.retries = 0]
      /\ s' = s /\ protocol' = protocol
      /\ toS' = IF SenderDone THEN toS ELSE toS \o <<>>
  BY DEF FirstByte, ReceiverWrites, Sound, Typed, ReceiverFields
<1>2. toS' = toS
  BY <1>1, Appended DEF Sound, Typed
<1>3. /\ r' \in ReceiverFields /\ r'.pc = "cmd" /\ r'.got = r.got
      /\ r'.no = IF Y THEN 0 ELSE 1
  <2>1. PICK crc \in BOOLEAN, no \in Nat :
          /\ r' = [r EXCEPT !.pc = "cmd", !.crc = crc, !.no = no, !.retries = 0]
          /\ no = IF Y THEN 0 ELSE 1
    <3>1. (r.prompts <= Prompts) \in BOOLEAN
      OBVIOUS
    <3> QED
      BY <1>1, <3>1
  <2>2. r \in ReceiverFields
    BY <1>1
  <2>3. r' \in ReceiverFields /\ r'.pc = "cmd" /\ r'.got = r.got /\ r'.no = no
    BY <2>1, <2>2 DEF ReceiverFields, ReceiverStates
  <2> QED
    BY <2>1, <2>3
<1> USE DEF Sound
<1>4. Typed'
  BY <1>1, <1>2, <1>3 DEF Typed, ReceiverFields
<1>5. PlaceOK'
  BY <1>1 DEF PlaceOK, Y
<1>6. StoredOK'
  <2>1. r.got = <<>> /\ Len(r.got) = 0
    BY <1>1 DEF StoredOK
  <2>2. 1 % Mod = 1 /\ 1 = (0 + 1) % Mod
    BY Sizes, Residue DEF Short
  <2> QED
    BY <1>1, <1>3, <2>1, <2>2 DEF StoredOK, Y
<1>7. ReceiverDone' = ReceiverDone /\ SenderDone' = SenderDone /\ ~ReceiverDone
  BY <1>1, <1>3 DEF ReceiverDone, SenderDone
<1>8. FramesOK'
  BY <1>1, <1>7 DEF FramesOK, Garbled, Written, HeaderFrame, Frame, BlockOf, Y
<1>9. AnswersOK'
  BY <1>1, <1>2, <1>3, <1>7 DEF AnswersOK
<1> QED
  BY <1>4, <1>5, <1>6, <1>8, <1>9

\* What is left of a block whose number was wrong is no command.
LEMMA WrongNumberInv == ASSUME Short, Sound, WrongNumber, Plain' PROVE Sound'
<1>1. /\ AtBlock /\ toR' = Drop(toR, 3) /\ Nack /\ r.pc = "cmd" /\ toR \in Seq(Int)
      /\ Byte(4) \notin Commands
  BY DEF WrongNumber, ReceiverReads, AtBlock, Sound, Typed, Plain
<1>2. PICK no \in Nat, d \in Int : OnLine(no, d) /\ SaysTrue(no, d)
  BY <1>1, BlockOnLine
<1>3. ~ReceiverDone /\ (SenderDone \/ toS = <<>>)
  BY <1>1, BlockOnLine
<1>4. Len(toR) = 5 /\ 3 \in Nat /\ 3 < 5
  BY <1>2 DEF SaysTrue
<1>5. Drop(toR, 3) \in Seq(Int) /\ Drop(toR, 3) # <<>> /\ Drop(toR, 3)[1] = toR[3 + 1]
  BY <1>1, <1>4, Dropped
<1>6. toR[4] \notin Commands
  BY <1>1, <1>4 DEF Byte
<1>7. Doomed(toR') /\ toR' \in Seq(Int)
  BY <1>1, <1>5, <1>6 DEF Doomed
<1> QED
  BY <1>1, <1>3, <1>7, Refused

\* Nothing is left of a block that was read as a whole.
LEMMA ReadWhole ==
  ASSUME Short, Sound, AtBlock, ReceiverReads(5)
  PROVE  toR' = <<>> /\ toR' \in Seq(Int)
<1>1. PICK no \in Nat, d \in Int : SaysTrue(no, d)
  BY BlockOnLine
<1>2. toR \in Seq(Int) /\ Len(toR) = 5
  BY <1>1 DEF SaysTrue, Sound, Typed
<1>3. 5 \in Nat /\ 5 >= Len(toR)
  BY <1>2
<1>4. Drop(toR, 5) = <<>>
  BY <1>2, <1>3, Dropped
<1>5. toR' = <<>>
  BY <1>4 DEF ReceiverReads
<1> QED
  BY <1>5

\* A block that fails its check is read as a whole and refused.
LEMMA WrongCheckInv == ASSUME Short, Sound, WrongCheck PROVE Sound'
<1>1. AtBlock /\ ReceiverReads(5) /\ Nack /\ r.pc = "cmd"
  BY DEF WrongCheck, AtBlock
<1>2. ~ReceiverDone /\ (SenderDone \/ toS = <<>>)
  BY <1>1, BlockOnLine
<1> QED
  BY <1>1, <1>2, ReadWhole, Refused

\* The answers to a block that was read.
LEMMA Answers ==
  /\ <<>> \in Seq(Int) /\ Len(<<>>) <= 1
  /\ <<ACK>> \in Seq(Int) /\ Len(<<ACK>>) <= 1
  /\ <<ACK, CRC>> \in Seq(Int) /\ Len(<<ACK, CRC>>) = 2 /\ <<ACK, CRC>>[1] = ACK
  /\ \A i \in 1 .. Len(<<ACK>>) : i = 1
  /\ \A i \in 1 .. Len(<<ACK, CRC>>) : <<ACK, CRC>>[i] = ACK => i = 1
BY DEF ACK, CRC

\* The receiver gives up: what it writes is no ACK, unless the sender has given
\* up before.
LEMMA ReceiverFails ==
  ASSUME Sound, r.pc = "cmd", r' = [r EXCEPT !.pc = "failed"], toR' \in Seq(Int),
         NEW bytes \in Seq(Int), ReceiverWrites(bytes),
         SenderDone \/ \A i \in 1 .. Len(bytes) : bytes[i] # ACK
  PROVE  Sound'
<1>1. r \in ReceiverFields /\ toS \in Seq(Int)
  BY DEF Sound, Typed, ReceiverFields
<1>2. r' \in ReceiverFields /\ r'.pc = "failed" /\ r'.got = r.got
  BY <1>1 DEF ReceiverFields, ReceiverStates
<1>3. /\ s' = s /\ protocol' = protocol /\ SenderDone' = SenderDone
      /\ toS' = IF SenderDone THEN toS ELSE toS \o bytes
  BY DEF ReceiverWrites, SenderDone
<1>4. Typed'
  <2>1. toS' \in Seq(Int)
    BY <1>1, <1>3, Appended
  <2> QED
    BY <1>2, <1>3, <2>1 DEF Sound, Typed, ReceiverFields
<1>5. PlaceOK' /\ StoredOK'
  BY <1>2, <1>3 DEF Sound, PlaceOK, StoredOK, Y
<1>6. ReceiverDone'
  BY <1>2 DEF ReceiverDone
<1>7. FramesOK'
  BY <1>6 DEF FramesOK
<1>8. AnswersOK'
  <2> SUFFICES ASSUME ~SenderDone PROVE AnswersOK'
    BY <1>3 DEF AnswersOK
  <2>1. toS' = toS \o bytes
    BY <1>3
  <2>2. \A i \in 1 .. Len(toS) : toS[i] = ACK =>
          /\ i = 1 /\ s.pc \in {"header", "block", "eot"}
          /\ s.pc = "block" => Len(r.got) = s.k
    BY DEF Sound, AnswersOK
  <2>3. ASSUME NEW i \in 1 .. Len(toS'), toS'[i] = ACK PROVE i \in 1 .. Len(toS) /\ toS[i] = ACK
    <3>1. /\ Len(toS) \in Nat /\ Len(bytes) \in Nat /\ Len(toS') = Len(toS) + Len(bytes)
          /\ \A j \in 1 .. Len(toS) : toS'[j] = toS[j]
          /\ \A j \in 1 .. Len(bytes) : toS'[j + Len(toS)] = bytes[j]
      BY <1>1, <2>1, ConcatProperties
    <3>2. i \in 1 .. Len(toS) \/ i - Len(toS) \in 1 .. Len(bytes)
      BY <3>1
    <3>3. CASE i - Len(toS) \in 1 .. Len(bytes)
      <4>1. toS'[(i - Len(toS)) + Len(toS)] = bytes[i - Len(toS)]
        BY <3>1, <3>3
      <4>2. (i - Len(toS)) + Len(toS) = i
        BY <3>1
      <4> QED
        BY <2>3, <3>3, <4>1, <4>2
    <3> QED
      BY <2>3, <3>1, <3>2, <3>3
  <2> QED
    BY <1>2, <1>3, <1>6, <2>2, <2>3 DEF AnswersOK
<1> QED
  BY <1>4, <1>5, <1>7, <1>8 DEF Sound

\* The header tells the size, and the last header that there is no more file.
LEMMA HeaderBlockInv == ASSUME Short, Sound, HeaderBlock PROVE Sound'
<1>1. AtBlock /\ ReceiverReads(5) /\ Intact /\ Expected /\ Y /\ r.no = 0 /\ r.pc = "cmd"
  BY DEF HeaderBlock, GoodBlock, AtBlock
<1>2. PICK no \in Nat, d \in Int : OnLine(no, d) /\ SaysTrue(no, d)
  BY <1>1, BlockOnLine
<1>3. ~ReceiverDone /\ (SenderDone \/ toS = <<>>) /\ toR' = <<>> /\ toR' \in Seq(Int)
  BY <1>1, BlockOnLine, ReadWhole
<1>4. no = 0 /\ Byte(4) = d
  BY <1>1, <1>2 DEF SaysTrue, Expected
<1>5. r \in ReceiverFields /\ s.k <= Len(r.got) + 1 /\ Len(r.got) <= Len(File)
      /\ Len(r.got) \in Nat
  BY DEF Sound, Typed, ReceiverFields, StoredOK
<1>6. (s.pc = "header" /\ d = Header /\ s.k = 1) \/ (s.pc = "ok" /\ d = Null /\ s.k = Len(File) + 1)
  BY <1>2, <1>4 DEF OnLine, Sound, PlaceOK
<1>7. CASE s.pc = "header" /\ d = Header /\ s.k = 1
  <2>1. CASE r' = [r EXCEPT !.pc = "failed"] /\ ReceiverWrites(<<>>)
    <3>1. \A i \in 1 .. Len(<<>>) : <<>>[i] # ACK
      OBVIOUS
    <3> QED
      BY <1>1, <1>3, <2>1, <3>1, Answers, ReceiverFails
  <2>2. CASE /\ r' = [r EXCEPT !.no = 1, !.got = <<>>, !.size = Len(File), !.file = <<>>]
             /\ ReceiverWrites(<<ACK, CRC>>)
    <3>2. Len(File) \in Nat /\ <<>> \in Seq(Int) /\ Len(<<>>) = 0
      BY Sizes
    <3>3. /\ r' \in ReceiverFields /\ r'.pc = "cmd" /\ r'.got = <<>> /\ r'.no = 1
          /\ r'.size = Len(File)
      BY <1>1, <1>5, <2>2, <3>2 DEF ReceiverFields
    <3>4. s' = s /\ protocol' = protocol
      BY <2>2 DEF ReceiverWrites
    <3>5. 1 % Mod = 1 /\ 1 = (0 + 1) % Mod
      BY Sizes, Residue DEF Short
    <3>6. StoredOK'
      BY <1>7, <3>2, <3>3, <3>4, <3>5 DEF StoredOK, Y
    <3> QED
      BY <1>3, <1>7, <2>2, <3>3, <3>6, Answers, Replied
  <2> QED
    BY <1>4, <1>7, <2>1, <2>2 DEF HeaderBlock, Header, Null
<1>8. CASE s.pc = "ok" /\ d = Null /\ s.k = Len(File) + 1
  <2>1. r' = [r EXCEPT !.pc = "ok"] /\ ReceiverWrites(<<ACK>>)
    BY <1>4, <1>8 DEF HeaderBlock, Header, Null
  <2>2. r' \in ReceiverFields /\ r'.pc = "ok" /\ r'.got = r.got
    BY <1>5, <2>1 DEF ReceiverFields, ReceiverStates
  <2>3. s' = s /\ SenderDone
    BY <1>8, <2>1 DEF ReceiverWrites, SenderDone
  <2>4. Len(r.got) = Len(File)
    BY <1>5, <1>8, Sizes
  <2>5. StoredOK'
    BY <2>2, <2>3, <2>4 DEF Sound, StoredOK
  <2> QED
    BY <1>3, <2>1, <2>2, <2>3, <2>5, Answers, Replied
<1> QED
  BY <1>6, <1>7, <1>8

\* The receiver's number is that of the block it waits for.
LEMMA NumberFits ==
  ASSUME Short, Sound, r.pc = "cmd", ~(Y /\ r.no = 0), NEW n \in Nat, n = r.no \/ n + 1 = r.no
  PROVE  /\ n = r.no /\ n # 0 => Len(r.got) = n - 1 /\ (Y => r.size = Len(File) - Len(r.got))
         /\ n + 1 = r.no /\ n # 0 => Len(r.got) = n
<1>1. /\ r.no = (Len(r.got) + 1) % Mod /\ (Y => r.size = Len(File) - Len(r.got))
      /\ Len(r.got) <= Len(File) /\ Len(r.got) \in Nat
  BY DEF Sound, StoredOK, Typed
<1>2. Len(File) \in Nat /\ Len(File) < Mod /\ Mod \in Nat
  BY Sizes DEF Short
<1>3. CASE Len(r.got) + 1 < Mod
  <2>1. (Len(r.got) + 1) % Mod = Len(r.got) + 1
    BY <1>1, <1>3, Residue
  <2> QED
    BY <1>1, <2>1
<1>4. CASE Len(r.got) + 1 = Mod
  <2>1. Mod % Mod = 0
    BY <1>2, Sizes
  <2> QED
    BY <1>1, <1>4, <2>1
<1>5. Len(r.got) + 1 < Mod \/ Len(r.got) + 1 = Mod
  BY <1>1, <1>2
<1> QED
  BY <1>3, <1>4, <1>5

\* A block is stored behind the one before it in the file.
LEMMA DataBlockInv == ASSUME Short, Sound, DataBlock PROVE Sound'
<1>1. /\ AtBlock /\ ReceiverReads(5) /\ Intact /\ Expected /\ ~(Y /\ r.no = 0)
      /\ r.pc = "cmd"
  BY DEF DataBlock, GoodBlock, AtBlock
<1>2. PICK no \in Nat, d \in Int : OnLine(no, d) /\ SaysTrue(no, d)
  BY <1>1, BlockOnLine
<1>3. ~ReceiverDone /\ (SenderDone \/ toS = <<>>) /\ toR' = <<>> /\ toR' \in Seq(Int)
  BY <1>1, BlockOnLine, ReadWhole
<1>4. no = r.no /\ Byte(4) = d
  BY <1>1, <1>2 DEF SaysTrue, Expected
<1>5. s.pc = "block" /\ s.k \in 1 .. Len(File) /\ no = s.k /\ d = File[s.k]
  BY <1>1, <1>2, <1>4 DEF OnLine
<1>6. Len(r.got) = s.k - 1 /\ (Y => r.size = Len(File) - Len(r.got))
  BY <1>1, <1>4, <1>5, NumberFits
<1>7. /\ r \in ReceiverFields /\ \A i \in 1 .. Len(r.got) : r.got[i] = File[i]
      /\ r.got \in Seq(Int) /\ r.size \in Nat /\ r.no \in Nat /\ r.file \in Seq(Int)
  BY DEF Sound, Typed, ReceiverFields, StoredOK
<1>8. Len(File) \in Nat /\ Mod \in Nat /\ Mod > 0 /\ Len(File) < Mod
  BY Sizes DEF Short
<1> DEFINE got == Append(r.got, d)
           size == IF Y THEN r.size - 1 ELSE r.size
           file == Stored(d)
<1>9. /\ r' = [r EXCEPT !.no = (r.no + 1) % Mod, !.got = got, !.file = file, !.size = size]
      /\ ReceiverWrites(<<ACK>>)
  <2>1. ~(Y /\ r.size = 0) /\ r.no # 0
    BY <1>4, <1>5, <1>6, <1>8
  <2> QED
    BY <1>4, <2>1 DEF DataBlock
<1>10. /\ got \in Seq(Int) /\ Len(got) = s.k /\ \A i \in 1 .. Len(r.got) : got[i] = r.got[i]
       /\ got[s.k] = d
  <2>1. Len(r.got) + 1 = s.k
    BY <1>5, <1>6
  <2> QED
    BY <1>7, <2>1, AppendProperties
<1>11. size \in Nat /\ (Y => size = Len(File) - s.k) /\ (r.no + 1) % Mod \in Nat
  <2>1. (r.no + 1) % Mod \in Nat
    BY <1>7, Residue
  <2>2. size \in Nat /\ (Y => size = Len(File) - s.k)
    <3>1. CASE Y
      <4>1. r.size = Len(File) - (s.k - 1) /\ s.k \in Nat /\ s.k <= Len(File)
        BY <1>5, <1>6, <1>8, <3>1
      <4>2. r.size > 0 /\ r.size - 1 = Len(File) - s.k /\ r.size - 1 \in Nat
        BY <1>8, <4>1
      <4> QED
        BY <3>1, <4>2
    <3>2. CASE ~Y
      BY <1>7, <3>2
    <3> QED
      BY <3>1, <3>2
  <2> QED
    BY <2>1, <2>2
<1>17. file \in Seq(Int)
  BY <1>2, <1>7 DEF Stored
<1> HIDE DEF got, size, file
<1>12. /\ r' \in ReceiverFields /\ r'.pc = "cmd" /\ r'.got = got /\ r'.size = size
       /\ r'.no = (s.k + 1) % Mod
  BY <1>1, <1>4, <1>5, <1>7, <1>9, <1>10, <1>11, <1>17 DEF ReceiverFields
<1>13. s' = s /\ protocol' = protocol
  BY <1>9 DEF ReceiverWrites
<1>14. ASSUME NEW i \in 1 .. s.k PROVE got[i] = File[i]
  <2>1. i = s.k \/ i \in 1 .. Len(r.got)
    BY <1>5, <1>6, <1>8
  <2> QED
    BY <1>5, <1>7, <1>10, <2>1
<1>15. StoredOK'
  <2>1. s.k <= Len(File) /\ s.k <= s.k + 1 /\ Len(r'.got) = s.k
    BY <1>5, <1>8, <1>10, <1>12
  <2>2. r'.no = (Len(r'.got) + 1) % Mod /\ (Y => r'.size = Len(File) - Len(r'.got))
    BY <1>11, <1>12, <2>1
  <2>3. \A i \in 1 .. Len(r'.got) : r'.got[i] = File[i]
    BY <1>12, <1>14, <2>1
  <2> QED
    BY <1>12, <1>13, <2>1, <2>2, <2>3 DEF StoredOK, Y
<1>16. \A i \in 1 .. Len(<<ACK>>) : i = 1 /\ s.pc = "block" /\ Len(r'.got) = s.k
  BY <1>5, <1>10, <1>12, Answers
<1> QED
  BY <1>3, <1>5, <1>9, <1>12, <1>15, <1>16, Answers, Replied

\* A block that was acknowledged already is acknowledged again.
LEMMA RepeatedBlockInv == ASSUME Short, Sound, RepeatedBlock PROVE Sound'
<1>1. /\ AtBlock /\ ReceiverReads(5) /\ Intact /\ Repeated /\ r.pc = "cmd" /\ r' = r
      /\ ReceiverWrites(<<ACK>>)
  BY DEF RepeatedBlock, GoodBlock, AtBlock
<1>2. PICK no \in Nat, d \in Int : OnLine(no, d) /\ SaysTrue(no, d)
  BY <1>1, BlockOnLine
<1>3. ~ReceiverDone /\ (SenderDone \/ toS = <<>>) /\ toR' = <<>> /\ toR' \in Seq(Int)
  BY <1>1, BlockOnLine, ReadWhole
<1>4. r \in ReceiverFields /\ r.no \in Nat
  BY DEF Sound, Typed, ReceiverFields
<1>5. no + 1 = r.no /\ ~(Y /\ r.no = 0)
  BY <1>1, <1>2, <1>4 DEF SaysTrue, Repeated
<1>6. SenderDone \/ (s.pc \in {"header", "block"} /\ (s.pc = "block" => Len(r.got) = s.k))
  <2>1. CASE s.pc = "block" /\ s.k \in 1 .. Len(File) /\ no = s.k
    <3>1. Len(r.got) = no
      BY <1>1, <1>5, <2>1, NumberFits
    <3> QED
      BY <2>1, <3>1
  <2> QED
    BY <1>2, <2>1 DEF OnLine, SenderDone
<1>7. StoredOK'
  BY <1>1 DEF Sound, StoredOK, ReceiverWrites, Y
<1> QED
  BY <1>1, <1>3, <1>4, <1>6, <1>7, Answers, Replied

\* EOT comes when the last block has been acknowledged.
LEMMA EndOfFileInv == ASSUME Short, Sound, EndOfFile PROVE Sound'
<1>1. /\ r.pc = "cmd" /\ toR # <<>> /\ toR[1] = EOT /\ toR' = Drop(toR, 1) /\ ~ReceiverDone
      /\ toR \in Seq(Int) /\ r \in ReceiverFields /\ s \in SenderFields
  <2>1. r.pc = "cmd" /\ toR # <<>> /\ Head(toR) = EOT /\ toR' = Drop(toR, 1)
    BY DEF EndOfFile, ReceiverReads
  <2>2. toR \in Seq(Int) /\ r \in ReceiverFields /\ s \in SenderFields
    BY DEF Sound, Typed, ReceiverFields, SenderFields
  <2> QED
    BY <2>1, <2>2, ReadFirst DEF ReceiverDone
<1>2. ~Doomed(toR) /\ ~Ended(toR)
  BY <1>1 DEF Doomed, Ended, Commands
<1>3. SenderDone \/ toS = <<>>
  BY <1>1, <1>2 DEF Sound, AnswersOK
<1>4. \/ s.pc \in {"header", "block", "eot"} /\ Garbled(toR, Written(s))
      \/ s.pc = "ok" /\ Y /\ Garbled(toR, HeaderFrame(Null))
  BY <1>1, <1>2 DEF Sound, FramesOK
<1>5. ASSUME NEW start \in {SOH, STX}, NEW no \in 0 .. Mod - 1, NEW d \in Contents,
             NEW crc \in BOOLEAN
      PROVE  ~Garbled(toR, Frame(start, no, d, crc))
  <2>1. Len(Frame(start, no, d, crc)) = 5 /\ Frame(start, no, d, crc)[1] = start
    BY FrameBytes
  <2> QED
    BY <1>1, <2>1 DEF Garbled, Damaged, Commands, SOH, STX, EOT
<1>6. /\ 0 \in 0 .. Mod - 1 /\ TRUE \in BOOLEAN /\ SOH \in {SOH, STX}
      /\ Header \in Contents /\ Null \in Contents
  BY Sizes DEF Contents
<1>7. ~Garbled(toR, HeaderFrame(Header)) /\ ~Garbled(toR, HeaderFrame(Null))
  BY <1>5, <1>6, Zenon DEF HeaderFrame
<1>8. s.pc # "block"
  <2> SUFFICES ASSUME s.pc = "block" PROVE FALSE
    OBVIOUS
  <2>1. s.k \in Nat /\ s.k \in 1 .. Len(File) /\ s.crc \in BOOLEAN /\ s.k <= Len(File)
    BY <1>1, Sizes DEF Sound, PlaceOK, SenderFields
  <2>2. s.k % Mod \in 0 .. Mod - 1 /\ File[s.k] \in Contents
    BY <2>1, Residue, FileByte
  <2>3. \A start \in {SOH, STX} : ~Garbled(toR, Frame(start, s.k % Mod, File[s.k], s.crc))
    BY <1>5, <2>1, <2>2
  <2>4. Garbled(toR, BlockOf(s))
    BY <1>4 DEF Written
  <2> QED
    BY <2>1, <2>3, <2>4 DEF BlockOf
<1>9. s.pc = "eot" /\ Garbled(toR, Written(s))
  BY <1>4, <1>7, <1>8 DEF Written
<1>10. s.k = Len(File) + 1 /\ Len(r.got) = Len(File) /\ Len(toR) = 1
  <2>1. s.k = Len(File) + 1 /\ s.k <= Len(r.got) + 1 /\ Len(r.got) <= Len(File)
        /\ Len(r.got) \in Nat
    BY <1>9 DEF Sound, PlaceOK, StoredOK, Typed
  <2>2. Written(s) = <<EOT>>
    BY <1>9, <2>1, Sizes DEF Written, BlockOf
  <2>3. Len(toR) = 1
    BY <1>9, <2>2 DEF Garbled
  <2> QED
    BY <2>1, <2>3, Sizes
<1>11. toR' = <<>>
  <2>1. 1 \in Nat /\ 1 >= Len(toR)
    BY <1>10
  <2> QED
    BY <1>1, <2>1, Dropped
<1>12. toR' \in Seq(Int)
  BY <1>11
<1>13. CASE Y
  <2>1. r' = [r EXCEPT !.no = 0, !.retries = 0] /\ ReceiverWrites(<<ACK, CRC>>)
    BY <1>13 DEF EndOfFile
  <2>2. r' \in ReceiverFields /\ r'.pc = "cmd" /\ r'.got = r.got /\ r'.no = 0
    BY <1>1, <2>1 DEF ReceiverFields
  <2>3. s' = s /\ protocol' = protocol
    BY <2>1 DEF ReceiverWrites
  <2>4. StoredOK'
    BY <1>9, <1>10, <1>13, <2>2, <2>3 DEF Sound, StoredOK, Y
  <2> QED
    BY <1>1, <1>3, <1>9, <1>11, <1>12, <2>1, <2>2, <2>4, Answers, Replied
<1>14. CASE ~Y
  <2>1. r' = [r EXCEPT !.pc = "ok"] /\ ReceiverWrites(<<ACK>>)
    BY <1>14 DEF EndOfFile
  <2>2. r' \in ReceiverFields /\ r'.pc = "ok" /\ r'.got = r.got
    BY <1>1, <2>1 DEF ReceiverFields, ReceiverStates
  <2>3. s' = s /\ protocol' = protocol
    BY <2>1 DEF ReceiverWrites
  <2>4. StoredOK'
    BY <1>10, <2>2, <2>3 DEF Sound, StoredOK
  <2> QED
    BY <1>1, <1>3, <1>9, <1>11, <1>12, <2>1, <2>2, <2>4, Answers, Replied
<1> QED
  BY <1>13, <1>14

\* Two CANs come from a sender that has given up, so the ACK is lost on it.
LEMMA CancelledInv == ASSUME Sound, Cancelled PROVE Sound'
<1>1. /\ r.pc = "cmd" /\ toR # <<>> /\ toR[1] = CAN /\ toR' = Drop(toR, 2) /\ ~ReceiverDone
      /\ r' = [r EXCEPT !.pc = "failed"] /\ ReceiverWrites(<<ACK>>)
      /\ toR \in Seq(Int) /\ s \in SenderFields
  <2>1. r.pc = "cmd" /\ toR # <<>> /\ Head(toR) = CAN /\ toR' = Drop(toR, 2)
        /\ r' = [r EXCEPT !.pc = "failed"] /\ ReceiverWrites(<<ACK>>)
    BY DEF Cancelled, ReceiverReads
  <2>2. toR \in Seq(Int) /\ s \in SenderFields
    BY DEF Sound, Typed, SenderFields
  <2> QED
    BY <2>1, <2>2, ReadFirst DEF ReceiverDone
<1>2. toR' \in Seq(Int)
  BY <1>1, Dropped
<1>3. SenderDone
  <2> SUFFICES ASSUME ~SenderDone PROVE FALSE
    OBVIOUS
  <2>1. s.pc \in {"header", "block", "eot"} /\ Garbled(toR, Written(s))
    BY <1>1 DEF Sound, FramesOK, SenderDone, Doomed, Commands
  <2>2. ASSUME NEW f \in Seq(Int), f[1] \in {SOH, STX, EOT}, Len(f) > 0 PROVE ~Garbled(toR, f)
    <3>1. 1 \in 1 .. Len(f)
      BY <2>2
    <3>2. Garbled(toR, f) => toR[1] = f[1] \/ toR[1] \notin Commands
      BY <3>1 DEF Garbled, Damaged
    <3>3. toR[1] # f[1] /\ toR[1] \in Commands
      BY <1>1, <2>2 DEF SOH, STX, EOT, CAN, Commands
    <3> QED
      BY <3>2, <3>3
  <2>3. Written(s) \in Seq(Int)
    BY <1>1, WrittenBytes
  <2>4. Written(s)[1] \in {SOH, STX, EOT} /\ Len(Written(s)) > 0
    BY DEF Written, HeaderFrame, Frame, BlockOf
  <2> QED
    BY <2>1, <2>2, <2>3, <2>4
<1> QED
  BY <1>1, <1>2, <1>3, Answers, ReceiverFails

\* A byte that is no command ends the transfer, and so does silence.
LEMMA NoCommandInv == ASSUME Sound, NoCommand PROVE Sound'
<1>1. /\ r.pc = "cmd" /\ r' = [r EXCEPT !.pc = "failed"] /\ ReceiverWrites(<<CAN, CAN, CAN>>)
      /\ toR \in Seq(Int)
      /\ toR' = toR \/ toR' = Drop(toR, 1) \/ toR' = Drop(toR, 2)
  BY DEF NoCommand, ReceiverReads, Sound, Typed
<1>2. toR' \in Seq(Int)
  BY <1>1, Dropped
<1>3. /\ <<CAN, CAN, CAN>> \in Seq(Int)
      /\ \A i \in 1 .. Len(<<CAN, CAN, CAN>>) : <<CAN, CAN, CAN>>[i] # ACK
  BY DEF CAN, ACK
<1> QED
  BY <1>1, <1>2, <1>3, ReceiverFails

\* Every step of the receiver.
LEMMA ReceiverInv == Short /\ Sound /\ Receiver /\ Plain' => Sound'
BY ReceiveInv, PromptAgainInv, FirstByteInv, WrongNumberInv, WrongCheckInv,
   HeaderBlockInv, DataBlockInv, RepeatedBlockInv, EndOfFileInv, CancelledInv,
   NoCommandInv DEF Receiver

\* Neither side loses anything, or forgets what it misread.
LEMMA SenderPlain == Sender /\ Plain' => Plain
<1>1. Sender => lost' = lost /\ misread' = misread
  BY DEF Sender, Start, HeaderAnswer, HeaderPrompt, BlockAnswer, EotAnswer, HeaderAgain,
         SenderWrites
<1> QED
  BY <1>1, Zenon DEF Plain

LEMMA ReceiverPlain == Receiver /\ Plain' => Plain
<1>1. Receiver => lost' = lost
  BY DEF Receiver, Receive, PromptAgain, FirstByte, WrongNumber, WrongCheck, HeaderBlock,
         DataBlock, RepeatedBlock, EndOfFile, Cancelled, NoCommand, Nack, ReceiverWrites
<1>2. Receiver => misread' = misread \/ \E n \in 1 .. 5 : ReceiverReads(n)
  BY DEF Receiver, Receive, PromptAgain, FirstByte, WrongNumber, WrongCheck, HeaderBlock,
         DataBlock, RepeatedBlock, EndOfFile, Cancelled, NoCommand, GoodBlock
<1>3. ASSUME NEW n \in 1 .. 5, ReceiverReads(n), ~misread' PROVE ~misread
  BY <1>3, Zenon DEF ReceiverReads
<1> QED
  BY <1>1, <1>2, <1>3, Zenon DEF Plain

-----------------------------------------------------------------------------
(* The line, and the theorems.                                             *)

\* More damage changes nothing of what is true of a damaged sequence.
LEMMA DamageKeeps ==
  ASSUME NEW q \in Seq(Int), NEW i \in 1 .. Len(q), NEW g \in Garbles,
         i = 1 => g \notin Commands, NEW p, p = [q EXCEPT ![i] = g]
  PROVE  /\ p \in Seq(Int) /\ p # <<>> /\ q # <<>>
         /\ Doomed(q) => Doomed(p)
         /\ Ended(q) => Ended(p)
         /\ \A f : Garbled(q, f) => Garbled(p, f)
<1>1. g \in Int
  BY GarbleBytes DEF EOT, ACK, NACK, CAN, CRC, Noise
<1>2. /\ p \in Seq(Int) /\ Len(p) = Len(q) /\ Len(q) \in Nat
      /\ \A j \in 1 .. Len(q) : p[j] = IF j = i THEN g ELSE q[j]
  BY <1>1
<1>3. p # <<>> /\ q # <<>> /\ 1 \in 1 .. Len(q)
  BY <1>2, EmptySeq
<1>4. p[1] = q[1] \/ p[1] \notin Commands
  BY <1>2, <1>3
<1>5. (Doomed(q) => Doomed(p)) /\ (Ended(q) => Ended(p))
  BY <1>3, <1>4 DEF Doomed, Ended, Commands
<1>6. ASSUME NEW f, Garbled(q, f) PROVE Garbled(p, f)
  <2>1. Len(p) = Len(f)
    BY <1>2, <1>6 DEF Garbled
  <2>2. ASSUME NEW j \in 1 .. Len(f) PROVE Damaged(p[j], f, j)
    <3>1. j \in 1 .. Len(q) /\ Damaged(q[j], f, j)
      BY <1>6 DEF Garbled
    <3>2. CASE j = i
      BY <1>2, <3>1, <3>2 DEF Damaged
    <3>3. CASE j # i
      BY <1>2, <3>1, <3>3
    <3> QED
      BY <3>2, <3>3
  <2> QED
    BY <2>1, <2>2 DEF Garbled
<1> QED
  BY <1>2, <1>3, <1>5, <1>6

\* An answer that becomes Noise is no ACK.
LEMMA AnswerDamaged ==
  ASSUME NEW q \in Seq(Int), NEW i \in 1 .. Len(q), NEW p, p = [q EXCEPT ![i] = Noise]
  PROVE  /\ p \in Seq(Int) /\ Len(p) = Len(q) /\ p # <<>> /\ q # <<>>
         /\ q[1] \in {ACK, Noise} => p[1] \in {ACK, Noise}
         /\ \A j \in 1 .. Len(p) : p[j] = ACK => q[j] = ACK
<1>1. /\ p \in Seq(Int) /\ Len(p) = Len(q) /\ Len(q) \in Nat
      /\ \A j \in 1 .. Len(q) : p[j] = IF j = i THEN Noise ELSE q[j]
  BY DEF Noise
<1>2. p # <<>> /\ q # <<>> /\ 1 \in 1 .. Len(q)
  BY <1>1, EmptySeq
<1>3. q[1] \in {ACK, Noise} => p[1] \in {ACK, Noise}
  BY <1>1, <1>2
<1>4. \A j \in 1 .. Len(p) : p[j] = ACK => q[j] = ACK
  BY <1>1 DEF Noise, ACK
<1> QED
  BY <1>1, <1>2, <1>3, <1>4

\* The line may damage any byte: what is true of both ways of the line stays so.
LEMMA DamageInv == ASSUME Sound, Damage, Plain' PROVE Sound'
<1>1. s' = s /\ r' = r /\ protocol' = protocol /\ toR \in Seq(Int) /\ toS \in Seq(Int)
  BY DEF Damage, LineOnly, Sound, Typed
<1>2. SenderDone' = SenderDone /\ ReceiverDone' = ReceiverDone /\ Y' = Y
      /\ Written(s)' = Written(s)
  BY <1>1 DEF SenderDone, ReceiverDone, Y, Written, BlockOf
<1>3. PICK g \in Garbles :
        \/ \E i \in 1 .. Len(toR) :
             /\ toR' = [toR EXCEPT ![i] = g] /\ UNCHANGED toS
             /\ misread' = (misread \/ (i = 1 /\ g \in Commands))
        \/ \E i \in 1 .. Len(toS) :
             /\ toS' = [toS EXCEPT ![i] = g] /\ UNCHANGED toR
             /\ misread' = (misread \/ g # Noise)
  BY DEF Damage
<1>4. ~misread'
  BY DEF Plain
<1> DEFINE RKept == /\ toR' \in Seq(Int) /\ (toR' = <<>> <=> toR = <<>>)
                    /\ Doomed(toR) => Doomed(toR')
                    /\ Ended(toR) => Ended(toR')
                    /\ \A f : Garbled(toR, f) => Garbled(toR', f)
           SKept == /\ toS' \in Seq(Int) /\ Len(toS') = Len(toS)
                    /\ toS' = <<>> <=> toS = <<>>
                    /\ toS[1] \in {ACK, Noise} /\ toS # <<>> => toS'[1] \in {ACK, Noise}
                    /\ \A i \in 1 .. Len(toS') : toS'[i] = ACK => toS[i] = ACK
<1>5. RKept
  <2>1. CASE toR' = toR
    BY <1>1, <2>1
  <2>2. ASSUME NEW i \in 1 .. Len(toR), toR' = [toR EXCEPT ![i] = g],
               misread' = (misread \/ (i = 1 /\ g \in Commands))
        PROVE  RKept
    BY <1>1, <1>4, <2>2, DamageKeeps
  <2> QED
    BY <1>3, <2>1, <2>2
<1>6. SKept
  <2>1. CASE toS' = toS
    BY <1>1, <2>1
  <2>2. ASSUME NEW i \in 1 .. Len(toS), toS' = [toS EXCEPT ![i] = g],
               misread' = (misread \/ g # Noise)
        PROVE  SKept
    <3>1. g = Noise
      BY <1>4, <2>2, Zenon
    <3> QED
      BY <1>1, <2>2, <3>1, AnswerDamaged
  <2> QED
    BY <1>3, <2>1, <2>2
<1>7. Typed' /\ PlaceOK' /\ StoredOK'
  BY <1>1, <1>2, <1>5, <1>6 DEF Sound, Typed, PlaceOK, StoredOK
<1>8. FramesOK'
  <2> SUFFICES ASSUME ~ReceiverDone PROVE FramesOK'
    BY <1>2 DEF FramesOK
  <2>1. \/ toR = <<>>
        \/ Doomed(toR)
        \/ s.pc = "failed" /\ Ended(toR)
        \/ s.pc \in {"header", "block", "eot"} /\ Garbled(toR, Written(s))
        \/ s.pc = "ok" /\ Y /\ Garbled(toR, HeaderFrame(Null))
    BY DEF Sound, FramesOK
  <2> QED
    BY <1>1, <1>2, <1>5, <2>1 DEF FramesOK
<1>9. AnswersOK'
  <2> SUFFICES ASSUME ~SenderDone PROVE AnswersOK'
    BY <1>2 DEF AnswersOK
  <2>1. /\ r.pc = "off" => toS = <<>>
        /\ \A i \in 1 .. Len(toS) : toS[i] = ACK =>
             /\ i = 1 /\ s.pc \in {"header", "block", "eot"}
             /\ s.pc = "block" => Len(r.got) = s.k
        /\ ~ReceiverDone =>
             /\ toR = <<>> \/ Doomed(toR) \/ toS = <<>>
             /\ \/ Len(toS) <= 1
                \/ s.pc \in {"header", "eot"} /\ Len(toS) = 2 /\ toS[1] \in {ACK, Noise}
    BY DEF Sound, AnswersOK
  <2>2. Len(toS) = 2 => toS # <<>>
    OBVIOUS
  <2> QED
    BY <1>1, <1>2, <1>5, <1>6, <2>1, <2>2 DEF AnswersOK
<1> QED
  BY <1>7, <1>8, <1>9 DEF Sound

\* Both programs start with an empty line and nothing stored.
LEMMA InitInv == Init => IInv
<1> SUFFICES ASSUME Init PROVE Sound
  BY DEF IInv
<1>1. PICK n \in Nat :
      /\ s = [pc |-> "start", k |-> 1, crc |-> TRUE, retries |-> 0, tries |-> 0, test |-> TRUE]
      /\ r = [pc |-> "off", no |-> 0, crc |-> TRUE, prompts |-> 0, retries |-> 0, got |-> <<>>,
              size |-> 0, file |-> <<>>, room |-> n]
      /\ toR = <<>> /\ toS = <<>> /\ protocol \in Protocols
  BY RoomsAssumption DEF Init
<1>2. <<>> \in Seq(Int) /\ Len(<<>>) = 0
  OBVIOUS
<1>3. Typed
  BY <1>1, <1>2 DEF Typed, SenderStates, ReceiverStates
<1>4. PlaceOK /\ StoredOK
  BY <1>1, <1>2, Sizes DEF PlaceOK, StoredOK
<1>5. FramesOK /\ AnswersOK
  BY <1>1, <1>2 DEF FramesOK, AnswersOK
<1> QED
  BY <1>3, <1>4, <1>5 DEF Sound

\* The invariant holds: any step but the loss of a byte, and the reading of a
\* command or an answer that was not sent as one, keeps it.
THEOREM TransferInvariance == Spec => []IInv
<1>1. IInv /\ UNCHANGED vars => IInv'
  BY DEF vars, IInv, Plain, Sound, Typed, PlaceOK, StoredOK, FramesOK, AnswersOK, SenderDone,
         ReceiverDone, Y, Written, BlockOf
<1>2. IInv /\ Next => IInv'
  <2> SUFFICES ASSUME IInv, Next, Short, Plain' PROVE Sound'
    BY DEF IInv, Short
  <2>1. CASE Sender
    BY <2>1, SenderPlain, SenderInv DEF IInv
  <2>2. CASE Receiver
    BY <2>2, ReceiverPlain, ReceiverInv DEF IInv
  <2>3. CASE Damage
    BY <2>3, DamageInv DEF IInv, Damage, Plain
  <2>4. CASE Lose
    BY <2>4 DEF Lose, Plain
  <2> QED
    BY <2>1, <2>2, <2>3, <2>4 DEF Next, Line
<1> QED
  BY InitInv, <1>1, <1>2, PTL DEF Spec

-----------------------------------------------------------------------------
(* The disk.                                                               *)

\* The disk keeps what the receiver takes until it is full.
DiskOK ==
    /\ Len(r.file) <= Len(r.got) /\ Len(r.file) <= r.room
    /\ \A i \in 1 .. Len(r.file) : r.file[i] = r.got[i]
    /\ Len(r.file) < Len(r.got) => Full

DiskInv == Short /\ Plain => DiskOK

\* A block is taken, a file begun, or neither.
LEMMA Takes ==
  ASSUME Sound, Next
  PROVE  /\ r'.room = r.room
         /\ \/ r'.got = r.got /\ r'.file = r.file
            \/ r'.got = <<>> /\ r'.file = <<>>
            \/ \E d \in Int : r'.got = Append(r.got, d) /\ r'.file = Stored(d)
<1>1. r \in ReceiverFields /\ toR \in Seq(Int)
  BY DEF Sound, Typed, ReceiverFields
<1>2. CASE r' = r
  BY <1>2
<1>3. CASE Receive \/ PromptAgain \/ FirstByte
  BY <1>1, <1>3 DEF Receive, PromptAgain, FirstByte, ReceiverFields
<1>4. CASE Nack
  BY <1>1, <1>4 DEF Nack, ReceiverFields
<1>5. CASE HeaderBlock
  BY <1>1, <1>5 DEF HeaderBlock, ReceiverFields
<1>6. CASE DataBlock
  <2>1. Byte(4) \in Int
    BY <1>1, ElementOfSeq DEF Byte, NoByte
  <2> QED
    BY <1>1, <1>6, <2>1 DEF DataBlock, ReceiverFields
<1>7. CASE EndOfFile \/ Cancelled \/ NoCommand
  BY <1>1, <1>7 DEF EndOfFile, Cancelled, NoCommand, ReceiverFields
<1>8. CASE Sender
  BY <1>2, <1>8 DEF Sender, Start, HeaderAnswer, HeaderPrompt, BlockAnswer, EotAnswer,
              HeaderAgain, SenderWrites
<1>9. CASE Line
  BY <1>2, <1>9 DEF Line, Damage, Lose, LineOnly
<1>10. CASE WrongNumber \/ WrongCheck \/ RepeatedBlock
  BY <1>2, <1>4, <1>10 DEF WrongNumber, WrongCheck, RepeatedBlock
<1> QED
  BY <1>3, <1>5, <1>6, <1>7, <1>8, <1>9, <1>10 DEF Next, Receiver

\* What is taken is kept, as long as there is room.
LEMMA DiskStep == ASSUME Sound, DiskOK, Next PROVE DiskOK'
<1>1. r.got \in Seq(Int) /\ r.file \in Seq(Int) /\ r.room \in Nat /\ r'.room = r.room
  BY Takes DEF Sound, Typed
<1>2. CASE r'.got = r.got /\ r'.file = r.file
  BY <1>1, <1>2 DEF DiskOK, Full
<1>3. CASE r'.got = <<>> /\ r'.file = <<>>
  BY <1>1, <1>3 DEF DiskOK, Full
<1>4. ASSUME NEW d \in Int, r'.got = Append(r.got, d), r'.file = Stored(d) PROVE DiskOK'
  <2>1. /\ Len(r'.got) = Len(r.got) + 1 /\ r'.got[Len(r.got) + 1] = d
        /\ \A i \in 1 .. Len(r.got) : r'.got[i] = r.got[i]
        /\ Len(r.got) \in Nat /\ Len(r.file) \in Nat
    BY <1>1, <1>4, AppendProperties
  <2>2. CASE Len(r.file) < r.room
    <3>1. Len(r.file) = Len(r.got)
      BY <1>1, <2>1, <2>2 DEF DiskOK, Full
    <3>2. r'.file = Append(r.file, d)
      BY <1>4, <2>2 DEF Stored
    <3>3. /\ Len(r'.file) = Len(r.got) + 1 /\ r'.file[Len(r.got) + 1] = d
          /\ \A i \in 1 .. Len(r.got) : r'.file[i] = r.file[i]
      BY <1>1, <3>1, <3>2, AppendProperties
    <3>4. \A i \in 1 .. Len(r.got) : r.file[i] = r.got[i]
      BY <3>1 DEF DiskOK
    <3>5. ASSUME NEW i \in 1 .. Len(r'.file) PROVE r'.file[i] = r'.got[i]
      <4>1. i = Len(r.got) + 1 \/ i \in 1 .. Len(r.got)
        BY <2>1, <3>3
      <4> QED
        BY <2>1, <3>3, <3>4, <4>1
    <3> QED
      BY <1>1, <2>1, <2>2, <3>1, <3>3, <3>5 DEF DiskOK
  <2>3. CASE ~(Len(r.file) < r.room)
    <3>1. r'.file = r.file /\ Len(r.file) = r.room
      BY <1>1, <1>4, <2>1, <2>3 DEF Stored, DiskOK
    <3>2. \A i \in 1 .. Len(r.file) : r.file[i] = r.got[i] /\ i \in 1 .. Len(r.got)
      BY <2>1 DEF DiskOK
    <3> QED
      BY <1>1, <2>1, <3>1, <3>2 DEF DiskOK, Full
  <2> QED
    BY <2>2, <2>3
<1> QED
  BY <1>2, <1>3, <1>4, Takes

\* The disk holds what was taken, up to its room.
LEMMA DiskHolds == Spec => []DiskInv
<1>1. Init => DiskInv
  <2> SUFFICES ASSUME Init PROVE DiskOK
    BY DEF DiskInv
  <2>1. PICK n \in Nat : r.got = <<>> /\ r.file = <<>> /\ r.room = n
    BY RoomsAssumption DEF Init
  <2> QED
    BY <2>1 DEF DiskOK
<1>2. DiskInv /\ UNCHANGED vars => DiskInv'
  BY DEF vars, DiskInv, DiskOK, Full, Plain
<1>3. IInv /\ DiskInv /\ Next => DiskInv'
  <2> SUFFICES ASSUME IInv, DiskInv, Next, Short, Plain' PROVE DiskOK'
    BY DEF DiskInv, Short
  <2>1. Plain
    <3>1. CASE Damage
      BY <3>1, Zenon DEF Damage, Plain
    <3>2. CASE Lose
      BY <3>2, Zenon DEF Lose, Plain
    <3> QED
      BY <3>1, <3>2, SenderPlain, ReceiverPlain DEF Next, Line
  <2> QED
    BY <2>1, DiskStep DEF IInv, DiskInv
<1> QED
  BY <1>1, <1>2, <1>3, TransferInvariance, PTL DEF Spec

\* What follows for what is stored.
LEMMA StoredTrue ==
  ASSUME Short, Plain, IInv, DiskInv
  PROVE  /\ Len(r.file) <= Len(File) /\ \A i \in 1 .. Len(r.file) : r.file[i] = File[i]
         /\ Full \/ Len(r.file) = Len(r.got)
         /\ r.file \in Seq(Int) /\ Len(r.file) \in Nat
<1>1. /\ r.got \in Seq(Int) /\ r.file \in Seq(Int) /\ Len(r.got) <= Len(File)
      /\ \A i \in 1 .. Len(r.got) : r.got[i] = File[i]
  BY DEF IInv, Sound, Typed, StoredOK
<1>2. /\ Len(r.file) <= Len(r.got) /\ \A i \in 1 .. Len(r.file) : r.file[i] = r.got[i]
      /\ Len(r.file) < Len(r.got) => Full
  BY DEF DiskInv, DiskOK
<1>3. Len(r.got) \in Nat /\ Len(r.file) \in Nat /\ Len(File) \in Nat
  BY <1>1, Sizes
<1> QED
  BY <1>1, <1>2, <1>3

\* A sender that goes on to the next block has its block stored, unless the
\* disk is full (transmitFrames, xUDataHandler), however many bytes are damaged.
THEOREM AckTrue == Len(File) < Mod => (Spec => []AckMeansStored)
<1> SUFFICES ASSUME Len(File) < Mod PROVE Spec => []AckMeansStored
  OBVIOUS
<1>1. IInv /\ DiskInv => AckMeansStored
  <2> SUFFICES ASSUME IInv, DiskInv, Plain, ~Full PROVE s.k <= Len(r.file) + 1
    BY DEF AckMeansStored, Plain
  <2>1. s.k <= Len(r.got) + 1
    BY DEF IInv, Short, Sound, StoredOK
  <2> QED
    BY <2>1, StoredTrue DEF Short
<1> QED
  BY <1>1, TransferInvariance, DiskHolds, PTL

\* A receiver that reports success has the whole file, unless its disk is full
\* (receiveFrames, xUDataHandler).
THEOREM SuccessTrue == Len(File) < Mod => (Spec => []ReceiverTruth)
<1> SUFFICES ASSUME Len(File) < Mod PROVE Spec => []ReceiverTruth
  OBVIOUS
<1>1. IInv /\ DiskInv => ReceiverTruth
  <2> SUFFICES ASSUME IInv, DiskInv, r.pc = "ok", Plain, ~Full PROVE r.file = File
    BY DEF ReceiverTruth, Plain
  <2>1. Len(r.got) = Len(File)
    BY DEF IInv, Short, Sound, StoredOK
  <2>2. /\ r.file \in Seq(Int) /\ Len(r.file) = Len(File)
        /\ \A i \in 1 .. Len(r.file) : r.file[i] = File[i]
    BY <2>1, StoredTrue DEF Short
  <2>3. File \in Seq(Data)
    BY FileAssumption
  <2> QED
    BY <2>2, <2>3
<1> QED
  BY <1>1, TransferInvariance, DiskHolds, PTL

\* What is stored is a beginning of the file: no block is missing, repeated or
\* out of order (receiveFrames, xUDataHandler), full disk or not.
THEOREM BeginningStored == Len(File) < Mod => (Spec => [](~lost /\ ~misread => FilePrefix))
<1> SUFFICES ASSUME Len(File) < Mod PROVE Spec => [](~lost /\ ~misread => FilePrefix)
  OBVIOUS
<1>1. IInv /\ DiskInv => (~lost /\ ~misread => FilePrefix)
  <2> SUFFICES ASSUME IInv, DiskInv, Plain PROVE FilePrefix
    BY DEF Plain
  <2>1. /\ r.file \in Seq(Int) /\ Len(r.file) <= Len(File)
        /\ \A i \in 1 .. Len(r.file) : r.file[i] = File[i]
    BY StoredTrue DEF Short
  <2>2. File \in Seq(Data)
    BY FileAssumption
  <2> QED
    BY <2>1, <2>2 DEF FilePrefix, IsPrefix
<1> QED
  BY <1>1, TransferInvariance, DiskHolds, PTL
=============================================================================
