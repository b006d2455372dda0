------------------------------- MODULE XModem -------------------------------
(***************************************************************************)
(* XModem and YModem transfers (proto_xmodem.ino): the sender of xget and  *)
(* yget, the receiver of xput and yput, and the line between them.         *)
(*                                                                         *)
(* The modem is one of the two and a program of the terminal the other;    *)
(* that program is taken to be the same code.  The sender is started       *)
(* first.  A byte of the line is a number; the data of a block are one     *)
(* byte, different for every block, which may be a control byte, and so is *)
(* its check, which no other data have.  The line damages bytes and loses  *)
(* them.  Two damaged bytes do not fit each other, so a block number or a  *)
(* check is not forged; a command or an answer may be.                     *)
(*                                                                         *)
(* Time: a byte that is missing in a block is given up after 3 s, before   *)
(* the other side acts.  A wait for an answer or for a block, of 7 s on    *)
(* both sides, ends when nothing is on its way in either direction.        *)
(***************************************************************************)
EXTENDS Integers, SequencesExt

CONSTANTS
    Protocols,      \* of "XModem" and "YModem"
    File,           \* the data bytes of the blocks of the file
    Mod,            \* block numbers are modulo 256
    StartTries,     \* symbols the sender looks at before it starts: 32
    Prompts,        \* prompts of each kind from the receiver: 16
    SendRetries,    \* repetitions of a block by the sender: 10
    RcvRetries,     \* rcvRetryLimit: 10
    Faults,         \* of "damage" and "lose"
    Garbles,        \* what a damaged byte may become
    MaxFaults,      \* bound: faults of the line
    Rooms           \* blocks for which the receiver's file system has room

ASSUME ProtocolsAssumption == Protocols \subseteq {"XModem", "YModem"}
ASSUME LimitsAssumption ==
    /\ Mod \in 2 .. 256 /\ MaxFaults \in Nat
    /\ {StartTries, Prompts, SendRetries, RcvRetries} \subseteq Nat \ {0}
ASSUME RoomsAssumption == Rooms \subseteq Nat /\ Rooms # {}

\* The control bytes.  Nothing is sent as Noise.
SOH == 1
STX == 2
EOT == 4
ACK == 6
NACK == 21
CAN == 24
CRC == 67
Noise == 255
NoByte == -1

\* The first block of YModem: name and size of the file, or null at the end.
Header == 200
Null == 0

Commands == {SOH, STX, EOT, CAN}

\* The data of a block, and of a file.
Data == Commands \cup 300 .. 999

ASSUME FileAssumption == File \in Seq(Data) /\ File # <<>> /\ IsInjective(File)

\* A damaged byte does not begin a block.
ASSUME FaultsAssumption ==
    /\ Faults \subseteq {"damage", "lose"}
    /\ Noise \in Garbles /\ Garbles \subseteq {EOT, ACK, NACK, CAN, CRC, Noise}
    /\ \A a, b \in Garbles : a + b # Mod - 1

VARIABLES
    protocol,   \* "YModem" is send0block
    s,          \* the sender
    r,          \* the receiver
    toR, toS,   \* the line: bytes on their way to the receiver, to the sender
    faults,     \* faults so far
    lost,       \* ghost: a byte was lost
    misread,    \* ghost: a command or answer is read that was not sent as one
    benign      \* ghost: faults hit data, checks and answers to them only

vars == <<protocol, s, r, toR, toS, faults, lost, misread, benign>>

Y == protocol = "YModem"

Drop(q, n) == SubSeq(q, n + 1, Len(q))

\* Two checks, of a CRC transfer and of one with check sums.
Check(crc, data) == data + IF crc THEN 1000 ELSE 2000

Frame(start, no, data, crc) ==
    <<start, no, Mod - 1 - no, data, Check(crc, data)>>

HeaderFrame(data) == Frame(SOH, 0, data, TRUE)

SenderStates == {"start", "header", "prompt", "block", "eot", "ok", "failed"}
ReceiverStates == {"off", "prompt", "cmd", "ok", "failed", "undefined"}

SenderDone == s.pc \in {"ok", "failed"}
ReceiverDone == r.pc \in {"ok", "failed", "undefined"}

-----------------------------------------------------------------------------
Init ==
    /\ protocol \in Protocols
    /\ s = [pc |-> "start", k |-> 1, crc |-> TRUE, retries |-> 0, tries |-> 0,
            test |-> TRUE]
    /\ \E n \in Rooms :
         r = [pc |-> "off", no |-> 0, crc |-> TRUE, prompts |-> 0, retries |-> 0,
              got |-> <<>>, size |-> 0, file |-> <<>>, room |-> n]
    /\ toR = <<>> /\ toS = <<>>
    /\ faults = 0 /\ lost = FALSE /\ misread = FALSE /\ benign = TRUE

-----------------------------------------------------------------------------
(* The sender: serialRead, what it does with the byte, serialWrite.        *)

SenderWaits == s.pc = "start" \/ toR = <<>> \/ ReceiverDone

SenderReads(b) ==
    \/ toS # <<>> /\ b = Head(toS) /\ toS' = Tail(toS)
    \/ toS = <<>> /\ SenderWaits /\ b = NoByte /\ UNCHANGED toS

\* A side that has ended reads no more.
SenderWrites(bytes) ==
    /\ toR' = IF ReceiverDone THEN toR ELSE toR \o bytes
    /\ UNCHANGED <<protocol, r, faults, lost, misread, benign>>

Replies == {NoByte} \cup Range(toS)

\* The loop of transmitFrames goes on with block t.k, or ends the file.
NextBlock(t) ==
    IF t.k <= Len(File) THEN [t EXCEPT !.pc = "block", !.retries = 0]
                        ELSE [t EXCEPT !.pc = "eot"]

BlockOf(t) ==
    IF t.k <= Len(File)
      THEN Frame(IF Y THEN STX ELSE SOH, t.k % Mod, File[t.k], t.crc)
      ELSE <<EOT>>

\* The wait of transmit for the first prompt.
Start ==
    /\ s.pc = "start"
    /\ \E b \in Replies :
         /\ SenderReads(b)
         /\ IF b = CRC /\ Y
              THEN s' = [s EXCEPT !.pc = "header"]
                   /\ SenderWrites(HeaderFrame(Header))
            ELSE IF b \in {CRC, NACK}
              THEN LET t == [s EXCEPT !.crc = b = CRC]
                   IN s' = NextBlock(t) /\ SenderWrites(BlockOf(t))
            ELSE IF s.tries + 1 < StartTries
              THEN s' = [s EXCEPT !.tries = @ + 1] /\ SenderWrites(<<>>)
            ELSE s' = [s EXCEPT !.pc = "failed"] /\ SenderWrites(<<CAN, CAN>>)

\* The header is sent again while tries are left.
HeaderAgain(t) ==
    IF t.tries < StartTries
      THEN s' = [t EXCEPT !.pc = "header"] /\ SenderWrites(HeaderFrame(Header))
      ELSE s' = [t EXCEPT !.pc = "failed"] /\ SenderWrites(<<CAN, CAN>>)

HeaderAnswer ==
    /\ s.pc = "header"
    /\ \E b \in Replies :
         /\ SenderReads(b)
         /\ CASE b = ACK ->
                   s' = [s EXCEPT !.pc = "prompt"] /\ SenderWrites(<<>>)
              [] b = CRC /\ s.test ->
                   HeaderAgain([s EXCEPT !.test = FALSE, !.tries = @ + 1])
              [] b = NACK /\ ~s.test -> HeaderAgain(s)
              [] OTHER -> s' = [s EXCEPT !.pc = "failed"]
                          /\ SenderWrites(<<CAN, CAN>>)

\* The prompt that follows the acknowledgement of the header.
HeaderPrompt ==
    /\ s.pc = "prompt"
    /\ \E b \in Replies :
         /\ SenderReads(b)
         /\ IF b = CRC THEN s' = NextBlock(s) /\ SenderWrites(BlockOf(s))
                       ELSE HeaderAgain([s EXCEPT !.tries = @ + 1])

\* Mutant: a block is repeated for ever.
BlockAnswerForEver ==
    /\ s.pc = "block"
    /\ \E b \in Replies :
         /\ SenderReads(b)
         /\ CASE b = ACK -> LET t == [s EXCEPT !.k = @ + 1]
                            IN s' = NextBlock(t) /\ SenderWrites(BlockOf(t))
              [] b = CAN -> s' = [s EXCEPT !.pc = "failed"] /\ SenderWrites(<<>>)
              [] OTHER -> s' = s /\ SenderWrites(BlockOf(s))

BlockAnswer ==
    /\ s.pc = "block"
    /\ \E b \in Replies :
         /\ SenderReads(b)
         /\ CASE b = ACK -> LET t == [s EXCEPT !.k = @ + 1]
                            IN s' = NextBlock(t) /\ SenderWrites(BlockOf(t))
              [] b = CAN -> s' = [s EXCEPT !.pc = "failed"] /\ SenderWrites(<<>>)
              [] b \notin {ACK, CAN} /\ s.retries < SendRetries ->
                   s' = [s EXCEPT !.retries = @ + 1] /\ SenderWrites(BlockOf(s))
              [] OTHER -> s' = [s EXCEPT !.pc = "failed"]
                          /\ SenderWrites(<<CAN, CAN>>)

\* The answer to EOT.  YModem ends with a header of no file.
EotAnswer ==
    /\ s.pc = "eot"
    /\ \E b \in Replies :
         /\ SenderReads(b)
         /\ s' = [s EXCEPT !.pc = IF b = ACK THEN "ok" ELSE "failed"]
         /\ SenderWrites(IF b = ACK /\ Y /\ s.crc THEN HeaderFrame(Null)
                                                  ELSE <<>>)

-----------------------------------------------------------------------------
(* The receiver: a command byte and what follows it.                       *)

Byte(i) == IF i <= Len(toR) THEN toR[i] ELSE NoByte

\* Behind a wrong number the rest of the block is read as commands.
ReceiverReads(n) ==
    /\ toR' = Drop(toR, n)
    /\ misread' = (misread \/ (n = 3 /\ Byte(4) \in Commands))

ReceiverWrites(bytes) ==
    /\ toS' = IF SenderDone THEN toS ELSE toS \o bytes
    /\ UNCHANGED <<protocol, s, faults, lost, benign>>

Silence == toR = <<>> /\ (toS = <<>> \/ SenderDone)

\* receive drops what came before and prompts.
Receive ==
    /\ r.pc = "off"
    /\ r' = [r EXCEPT !.pc = "prompt", !.prompts = 1]
    /\ toR' = <<>> /\ UNCHANGED misread
    /\ ReceiverWrites(<<CRC>>)

\* 1.5 s without an answer.  After the last prompt receive ends without a
\* return statement.
PromptAgain ==
    /\ r.pc = "prompt" /\ Silence
    /\ IF r.prompts < 2 * Prompts
         THEN /\ r' = [r EXCEPT !.prompts = @ + 1]
              /\ ReceiverWrites(<<IF r.prompts < Prompts THEN CRC ELSE NACK>>)
         ELSE r' = [r EXCEPT !.pc = "undefined"] /\ ReceiverWrites(<<>>)
    /\ UNCHANGED <<toR, misread>>

\* receiveFrames starts with block 0 in YModem.
FirstByte ==
    /\ r.pc = "prompt" /\ toR # <<>>
    /\ r' = [r EXCEPT !.pc = "cmd", !.crc = r.prompts <= Prompts,
                      !.no = IF Y THEN 0 ELSE 1, !.retries = 0]
    /\ UNCHANGED <<toR, misread>> /\ ReceiverWrites(<<>>)

\* Mutant: any number with its complement is taken for the next one.
ExpectedAny == Len(toR) > 2 /\ toR[3] = Mod - 1 - toR[2]

\* receiveFrameNo.  A missing byte, -1, is stored as the number 255.  The
\* comparison with the last number is of integers: before 0 nothing fits.
Number(i) == IF i <= Len(toR) THEN toR[i] ELSE Mod - 1

Expected == Number(3) = Mod - 1 - Number(2) /\ Number(2) = r.no
Repeated == Number(3) = Mod - 1 - Number(2) /\ Number(2) = r.no - 1

Intact == Byte(4) # NoByte /\ Byte(5) = Check(r.crc, Byte(4))

AtBlock == r.pc = "cmd" /\ toR # <<>> /\ Head(toR) \in {SOH, STX}

Nack ==
    /\ r' = [r EXCEPT !.retries = @ + 1,
                      !.pc = IF r.retries + 1 < RcvRetries THEN @ ELSE "failed"]
    /\ ReceiverWrites(<<NACK>>)

\* The rest of a block whose number is wrong is not read.
WrongNumber ==
    /\ AtBlock /\ ~Expected /\ ~Repeated
    /\ ReceiverReads(3) /\ Nack

\* Mutant: a block that fails its check is acknowledged.
WrongCheckAcked ==
    /\ AtBlock /\ (Expected \/ Repeated) /\ ~Intact
    /\ ReceiverReads(5) /\ UNCHANGED r /\ ReceiverWrites(<<ACK>>)

WrongCheck ==
    /\ AtBlock /\ (Expected \/ Repeated) /\ ~Intact
    /\ ReceiverReads(5) /\ Nack

GoodBlock == AtBlock /\ Intact /\ ReceiverReads(5)

\* In YModem block 0 is a header: a file, for which there may be no room, no
\* file, or not a header at all.
HeaderBlock ==
    /\ GoodBlock /\ Expected /\ Y /\ r.no = 0
    /\ \/ /\ Byte(4) = Header
          /\ r' = [r EXCEPT !.no = 1, !.got = <<>>, !.size = Len(File),
                            !.file = <<>>]
          /\ ReceiverWrites(<<ACK, CRC>>)
       \/ /\ Byte(4) = Null
          /\ r' = [r EXCEPT !.pc = "ok"] /\ ReceiverWrites(<<ACK>>)
       \/ /\ Byte(4) # Null /\ (Byte(4) = Header => r.room = 0)
          /\ r' = [r EXCEPT !.pc = "failed"] /\ ReceiverWrites(<<>>)

\* xUDataHandler ignores what write returns.  Bound: a block is written as a
\* whole or not at all.
Stored(d) == IF Len(r.file) < r.room THEN Append(r.file, d) ELSE r.file

\* YModem stores no more than the size in the header.
DataBlock ==
    /\ GoodBlock /\ Expected /\ ~(Y /\ r.no = 0)
    /\ r' = IF Y /\ r.size = 0
              THEN [r EXCEPT !.no = (@ + 1) % Mod]
              ELSE [r EXCEPT !.no = (@ + 1) % Mod, !.got = Append(@, Byte(4)),
                             !.file = Stored(Byte(4)),
                             !.size = IF Y THEN @ - 1 ELSE @]
    /\ ReceiverWrites(IF r.no = 0 THEN <<ACK, CRC>> ELSE <<ACK>>)

\* Mutant: a repeated block is refused.
RepeatedBlockRefused == GoodBlock /\ Repeated /\ Nack

RepeatedBlock ==
    /\ GoodBlock /\ Repeated
    /\ UNCHANGED r
    /\ ReceiverWrites(<<ACK>>)

EndOfFile ==
    /\ r.pc = "cmd" /\ toR # <<>> /\ Head(toR) = EOT
    /\ ReceiverReads(1)
    /\ IF Y THEN /\ r' = [r EXCEPT !.no = 0, !.retries = 0]
                 /\ ReceiverWrites(<<ACK, CRC>>)
            ELSE r' = [r EXCEPT !.pc = "ok"] /\ ReceiverWrites(<<ACK>>)

\* Mutant: a cancelled transfer is a good one.
CancelledOk ==
    /\ r.pc = "cmd" /\ toR # <<>> /\ Head(toR) = CAN /\ Byte(2) = CAN
    /\ r' = [r EXCEPT !.pc = "ok"]
    /\ ReceiverReads(2) /\ ReceiverWrites(<<ACK>>)

Cancelled ==
    /\ r.pc = "cmd" /\ toR # <<>> /\ Head(toR) = CAN /\ Byte(2) = CAN
    /\ r' = [r EXCEPT !.pc = "failed"]
    /\ ReceiverReads(2) /\ ReceiverWrites(<<ACK>>)

\* Any other command byte, or none for 7 s, ends the transfer.
NoCommand ==
    /\ r.pc = "cmd"
    /\ \/ Silence /\ UNCHANGED <<toR, misread>>
       \/ /\ toR # <<>> /\ Head(toR) \notin {SOH, STX, EOT}
          /\ Head(toR) = CAN => Byte(2) # CAN
          /\ ReceiverReads(IF Head(toR) = CAN THEN 2 ELSE 1)
    /\ r' = [r EXCEPT !.pc = "failed"]
    /\ ReceiverWrites(<<CAN, CAN, CAN>>)

-----------------------------------------------------------------------------
(* The line.                                                               *)

MayFail(kind) ==
    kind \in Faults /\ faults < MaxFaults /\ faults' = faults + 1

LineOnly == UNCHANGED <<protocol, s, r>>

Blocks == s.pc = "block" /\ r.pc = "cmd"

Damage ==
    /\ MayFail("damage")
    /\ \E g \in Garbles :
         \/ \E i \in 1 .. Len(toR) :
              /\ toR' = [toR EXCEPT ![i] = g] /\ UNCHANGED toS
              /\ misread' = (misread \/ (i = 1 /\ g \in Commands))
              /\ benign' = (benign /\ Blocks /\ Len(toR) = 5 /\ i > 3)
         \/ \E i \in 1 .. Len(toS) :
              /\ toS' = [toS EXCEPT ![i] = g] /\ UNCHANGED toR
              /\ misread' = (misread \/ g # Noise)
              /\ benign' = (benign /\ Blocks /\ g \notin {ACK, CAN})
    /\ UNCHANGED lost /\ LineOnly

Lose ==
    /\ MayFail("lose")
    /\ \/ \E i \in 1 .. Len(toR) : toR' = RemoveAt(toR, i) /\ UNCHANGED toS
       \/ \E i \in 1 .. Len(toS) : toS' = RemoveAt(toS, i) /\ UNCHANGED toR
    /\ lost' = TRUE /\ benign' = FALSE /\ UNCHANGED misread /\ LineOnly

-----------------------------------------------------------------------------
Sender == Start \/ HeaderAnswer \/ HeaderPrompt \/ BlockAnswer \/ EotAnswer

Receiver ==
    \/ Receive \/ PromptAgain \/ FirstByte
    \/ WrongNumber \/ WrongCheck \/ HeaderBlock \/ DataBlock \/ RepeatedBlock
    \/ EndOfFile \/ Cancelled \/ NoCommand

Line == Damage \/ Lose

Next == Sender \/ Receiver \/ Line

\* Both programs run.
Spec == Init /\ [][Next]_vars /\ WF_vars(Sender) /\ WF_vars(Receiver)

-----------------------------------------------------------------------------
(* Properties                                                              *)

Symbols == 0 .. 2999

TypeOK ==
    /\ protocol \in Protocols
    /\ s \in [pc : SenderStates, k : 1 .. Len(File) + 1, crc : BOOLEAN,
              retries : 0 .. SendRetries, tries : 0 .. StartTries,
              test : BOOLEAN]
    /\ r \in [pc : ReceiverStates, no : 0 .. Mod - 1, crc : BOOLEAN,
              prompts : 0 .. 2 * Prompts, retries : 0 .. RcvRetries,
              got : Seq(Range(File)), size : 0 .. Len(File),
              file : Seq(Range(File)), room : Rooms]
    /\ Len(r.got) <= Len(File)
    /\ toR \in Seq(Symbols) /\ toS \in Seq(Symbols)
    /\ faults \in 0 .. MaxFaults
    /\ {lost, misread, benign} \subseteq BOOLEAN

(***************************************************************************)
(* What the receiver has written is a beginning of the file: no block is   *)
(* missing, repeated or out of order, whatever the line damaged or lost    *)
(* and whatever was read as a command.                                     *)
(***************************************************************************)
FilePrefix == IsPrefix(r.file, File)

Full == Len(r.file) = r.room

(***************************************************************************)
(* The sender goes on only when the receiver has stored the block, or its  *)
(* disk is full (xUDataHandler does not look, and the block is             *)
(* acknowledged), while no byte is lost and none is read as a command or   *)
(* an answer that was not sent as one.                                     *)
(***************************************************************************)
AckMeansStored == ~lost /\ ~misread => s.k <= Len(r.file) + 1 \/ Full

(***************************************************************************)
(* The receiver's success is true, under the same conditions.              *)
(***************************************************************************)
ReceiverTruth == r.pc = "ok" /\ ~lost /\ ~misread => r.file = File \/ Full

(***************************************************************************)
(* The message of a receiver that succeeds, "Upload completed              *)
(* successfully.": it has the whole file.                                  *)
(***************************************************************************)
SuccessTold == r.pc = "ok" => r.file = File

(***************************************************************************)
(* A transfer comes to its end on both sides, if both were started.        *)
(***************************************************************************)
TransferEnds == <>(SenderDone /\ ReceiverDone)

(***************************************************************************)
(* Damage to the data, the checks and the answers of blocks is repaired,   *)
(* if it stays below the limits of both sides: once they exchange blocks,  *)
(* both succeed.                                                           *)
(***************************************************************************)
DamageRepaired ==
    Blocks ~> \/ ~benign \/ faults > SendRetries \/ faults >= RcvRetries
              \/ s.pc = "ok" /\ r.pc = "ok"
=============================================================================
