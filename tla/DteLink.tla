------------------------------ MODULE DteLink -------------------------------
(***************************************************************************)
(* The path of a byte from the firmware to the terminal (DTE):             *)
(*                                                                         *)
(*   enqueByte -> TBUF -> serialOutDeque -> xi_dte_write -> toDTE -> read  *)
(*                                                                         *)
(* with the flow control of serout.ino in front and the C interface of     *)
(* ximodem.cpp behind.  The firmware runs inside ximodem_poll; the         *)
(* embedding emulator reads bytes, drives RTS, programs the rate of its    *)
(* serial card and sends XON and XOFF, from a thread of its own or, when   *)
(* Threads = 1, only between two polls.                                    *)
(*                                                                         *)
(* One poll performs one operation: it prints bytes, drains TBUF, flushes, *)
(* changes the rate, and so on.  A byte is the number of its place in the  *)
(* firmware's output.  The two rings are FIFO queues (Ring implements      *)
(* them).  Every timed wait may end at any moment: the model has no clock. *)
(***************************************************************************)
EXTENDS Integers, Sequences

CONSTANTS
    Threads,        \* 1: the embedder calls between polls; 2: at any time
    FlowTypes,      \* the flow control settings used
    Rates,          \* bit rates, all positive
    BootRate,       \* the rate of the firmware's UART after setup()
    MaxOut,         \* bound: bytes the firmware prints
    MaxDrops,       \* bound: times the DTE lowers RTS
    TbufCap,        \* SER_WRITE_BUFSIZE - 1: bytes TBUF holds
    RingCap,        \* Ring::N - 1: bytes toDTE holds
    TxFifo,         \* XI_DTE_TX_FIFO
    SerBuf,         \* SER_BUFSIZE
    PreconfigHold,  \* XI_PRECONFIG_HOLD
    FlowDiv         \* INTERNAL_FLOW_CONTROL_DIV

ASSUME ThreadsAssumption == Threads \in {1, 2}
ASSUME FlowAssumption ==
    /\ FlowTypes \subseteq {"RTSCTS", "NORMAL", "DISABLED"}
    /\ FlowTypes # {}
ASSUME RatesAssumption == Rates \subseteq Nat \ {0} /\ BootRate \in Rates
ASSUME SizesAssumption ==
    /\ {MaxOut, MaxDrops, PreconfigHold} \subseteq Nat
    /\ {TbufCap, RingCap, TxFifo, SerBuf, FlowDiv} \subseteq Nat \ {0}
    /\ PreconfigHold <= RingCap

VARIABLES
    dteBaud,    \* rate of the card, 0 while it is not configured
    fwBaud,     \* rate of the firmware's UART
    flow,       \* flowControlType; hwFlowRtsCts is flow = "RTSCTS"
    xon,        \* XON_STATE
    rts,        \* the DTE asserts RTS
    fpc,        \* where the firmware is
    ret,        \* where serialOutDeque returns to
    newBaud,    \* the rate changeBaudRate sets after its flush, 0: a flush
    cur,        \* the byte in xi_dte_write: <<"direct" or "tbuf", byte>>
    next,       \* the next byte the firmware prints
    tbuf,       \* TBUF
    toDTE,      \* the ring the embedder reads
    got,        \* the last byte the embedder has read
    toModem,    \* XON and XOFF characters on their way to the firmware
    drops,      \* times the DTE has lowered RTS
    excused,    \* ghost: a byte was dropped where the code says it may be
    overshoot,  \* ghost: bytes put in the ring of a live link since RTS fell
    held,       \* ghost: those of a dark one, since RTS or a rate changed
    mark        \* ghost: next at the last reset of the receive path

line   == <<dteBaud, fwBaud, flow, xon, rts, drops>>
ghosts == <<excused, overshoot, held, mark>>
vars   == <<dteBaud, fwBaud, flow, xon, rts, fpc, ret, newBaud, cur, next,
            tbuf, toDTE, got, toModem, drops, excused, overshoot, held, mark>>

NoByte == <<"none", 0>>

-----------------------------------------------------------------------------
(* What the code computes from the line.                                   *)

Higher(a, b) == IF a > b THEN a ELSE b
Lower(a, b)  == IF a > b THEN b ELSE a

\* xi_baud_match.  Its 32-bit products hold for rates below 42 Mbit/s.
BaudMatch(d, f) ==
    /\ d # 0 /\ f # 0
    /\ (Higher(d, f) - Lower(d, f)) * 100 <= Higher(d, f) * 3

Matched  == BaudMatch(dteBaud, fwBaud)
FlowOpen == flow = "RTSCTS" => rts

\* xi_dte_write_space, which the firmware sees as HWSerial.availableForWrite.
WriteSpace ==
    IF ~FlowOpen THEN 0
    ELSE Lower(Higher(TxFifo - Len(toDTE), 0), RingCap - Len(toDTE))

DequeSize == 1 + fwBaud \div FlowDiv

IsSerialOut ==
    /\ flow = "RTSCTS" => rts
    /\ flow = "NORMAL" => xon

DrainMore == tbuf # <<>> /\ SerBuf - WriteSpace < DequeSize

\* Mutant: bytes overtake those that wait in TBUF.
MayWriteDirectAnyTime ==
    /\ IsSerialOut
    /\ flow = "NORMAL" => WriteSpace >= SerBuf /\ ~(Matched /\ toModem # <<>>)

\* enqueByte writes past TBUF when it is empty and the flow control allows.
MayWriteDirect ==
    /\ tbuf = <<>>
    /\ IsSerialOut
    /\ flow = "NORMAL" => WriteSpace >= SerBuf /\ ~(Matched /\ toModem # <<>>)

-----------------------------------------------------------------------------
Init ==
    /\ dteBaud = 0 /\ fwBaud = BootRate
    /\ flow \in FlowTypes /\ xon = TRUE /\ rts = TRUE /\ drops = 0
    /\ fpc = "parked" /\ ret = "parked" /\ newBaud = 0
    /\ cur = NoByte /\ next = 1
    /\ tbuf = <<>> /\ toDTE = <<>> /\ got = 0 /\ toModem = <<>>
    /\ excused = FALSE /\ overshoot = 0 /\ held = 0 /\ mark = 1

-----------------------------------------------------------------------------
(* xi_dte_write, entered with one byte from serialDirectWrite.             *)

Enter(src, b) == cur' = <<src, b>> /\ fpc' = "uart"

\* Back to the caller: enqueByte is done, serialOutDeque takes the byte off.
Leave ==
    /\ cur' = NoByte
    /\ \/ /\ cur[1] = "direct"
          /\ next' = next + 1 /\ fpc' = "printed"
          /\ UNCHANGED tbuf
       \/ /\ cur[1] = "tbuf"
          /\ tbuf' = Tail(tbuf) /\ fpc' = "deque"
          /\ UNCHANGED next

\* The rates differ: hold the byte while there is room, else drop it.  This
\* comes before the look at RTS.
WriteMismatched ==
    /\ fpc = "uart" /\ ~Matched
    /\ Leave
    /\ \/ /\ Len(toDTE) < PreconfigHold
          /\ toDTE' = Append(toDTE, cur[2])
          /\ held' = IF FlowOpen THEN held ELSE held + 1
          /\ UNCHANGED excused
       \/ /\ Len(toDTE) >= PreconfigHold
          /\ excused' = TRUE
          /\ UNCHANGED <<toDTE, held>>
    /\ UNCHANGED <<line, ret, newBaud, got, toModem, overshoot, mark>>

\* Mutant: xi_dte_write does not wait for RTS.
WriteMatchedNoWait ==
    /\ fpc = "uart" /\ Matched
    /\ fpc' = "push"
    /\ UNCHANGED <<line, ret, newBaud, cur, next, tbuf, toDTE, got, toModem,
                   ghosts>>

WriteMatched ==
    /\ fpc = "uart" /\ Matched
    /\ fpc' = IF FlowOpen THEN "push" ELSE "rtswait"
    /\ UNCHANGED <<line, ret, newBaud, cur, next, tbuf, toDTE, got, toModem,
                   ghosts>>

RtsReturned ==
    /\ fpc = "rtswait" /\ FlowOpen
    /\ fpc' = "push"
    /\ UNCHANGED <<line, ret, newBaud, cur, next, tbuf, toDTE, got, toModem,
                   ghosts>>

\* The 5 s ceiling on the wait for RTS: the byte goes out all the same.
RtsCeiling ==
    /\ fpc = "rtswait" /\ ~FlowOpen
    /\ fpc' = "pushlate"
    /\ UNCHANGED <<line, ret, newBaud, cur, next, tbuf, toDTE, got, toModem,
                   ghosts>>

\* Mutant: one attempt, and a full ring goes unnoticed.
PushOnce ==
    /\ fpc \in {"push", "pushlate"}
    /\ Leave
    /\ toDTE' = IF Len(toDTE) < RingCap THEN Append(toDTE, cur[2]) ELSE toDTE
    /\ overshoot' = IF fpc = "push" /\ ~FlowOpen THEN overshoot + 1
                                                 ELSE overshoot
    /\ UNCHANGED <<line, ret, newBaud, got, toModem, excused, held, mark>>

Push ==
    /\ fpc \in {"push", "pushlate"} /\ Len(toDTE) < RingCap
    /\ Leave
    /\ toDTE' = Append(toDTE, cur[2])
    /\ overshoot' = IF fpc = "push" /\ ~FlowOpen THEN overshoot + 1
                                                 ELSE overshoot
    /\ UNCHANGED <<line, ret, newBaud, got, toModem, excused, held, mark>>

\* The ring stayed full for 300 ms: the byte is dropped.
GiveUp ==
    /\ fpc \in {"push", "pushlate"} /\ Len(toDTE) = RingCap
    /\ Leave
    /\ excused' = TRUE
    /\ UNCHANGED <<line, ret, newBaud, toDTE, got, toModem, overshoot, held,
                   mark>>

-----------------------------------------------------------------------------
(* The loop of serialOutDeque.                                             *)

DequeByte ==
    /\ fpc = "deque" /\ DrainMore
    /\ Enter("tbuf", Head(tbuf))
    /\ UNCHANGED <<line, ret, newBaud, next, tbuf, toDTE, got, toModem,
                   ghosts>>

DequeReturn ==
    /\ fpc = "deque" /\ ~DrainMore
    /\ fpc' = ret
    /\ UNCHANGED <<line, ret, newBaud, cur, next, tbuf, toDTE, got, toModem,
                   ghosts>>

CallDeque(from) ==
    /\ fpc' = "deque" /\ ret' = from
    /\ UNCHANGED <<line, newBaud, cur, next, tbuf, toDTE, got, toModem,
                   ghosts>>

-----------------------------------------------------------------------------
(* enqueByte.                                                              *)

EnqueDirect ==
    /\ fpc = "enque" /\ MayWriteDirect
    /\ Enter("direct", next)
    /\ UNCHANGED <<line, ret, newBaud, next, tbuf, toDTE, got, toModem,
                   ghosts>>

EnqueBuffered ==
    /\ fpc = "enque" /\ ~MayWriteDirect /\ Len(tbuf) < TbufCap
    /\ tbuf' = Append(tbuf, next)
    /\ next' = next + 1 /\ fpc' = "printed"
    /\ UNCHANGED <<line, ret, newBaud, cur, toDTE, got, toModem, ghosts>>

\* Mutant: enqueByte waits for room without making any.
EnqueFullIdle ==
    /\ fpc = "enque" /\ Len(tbuf) = TbufCap /\ IsSerialOut
    /\ UNCHANGED vars

EnqueFull ==
    /\ fpc = "enque" /\ Len(tbuf) = TbufCap /\ IsSerialOut
    /\ CallDeque("enque")

\* delay(1) and look again: nothing changes.
EnqueHalted ==
    /\ fpc = "enque" /\ Len(tbuf) = TbufCap /\ ~IsSerialOut
    /\ UNCHANGED vars

\* The next byte of the same print, or the end of the poll.
PrintMore ==
    /\ fpc = "printed" /\ next <= MaxOut
    /\ fpc' = "enque"
    /\ UNCHANGED <<line, ret, newBaud, cur, next, tbuf, toDTE, got, toModem,
                   ghosts>>

PrintDone ==
    /\ fpc = "printed"
    /\ fpc' = "parked"
    /\ UNCHANGED <<line, ret, newBaud, cur, next, tbuf, toDTE, got, toModem,
                   ghosts>>

-----------------------------------------------------------------------------
(* The operations a poll performs.                                         *)

PollPrint ==
    /\ fpc = "parked" /\ next <= MaxOut
    /\ fpc' = "enque"
    /\ UNCHANGED <<line, ret, newBaud, cur, next, tbuf, toDTE, got, toModem,
                   ghosts>>

\* Mutant: the test of the flow control line has the wrong polarity.
PollDrainInverted ==
    /\ fpc = "parked" /\ tbuf # <<>> /\ ~IsSerialOut
    /\ CallDeque("parked")

\* The drains of loop(), available() and read(), all behind isSerialOut.
PollDrain ==
    /\ fpc = "parked" /\ tbuf # <<>> /\ IsSerialOut
    /\ CallDeque("parked")

\* ZSerial::flush drains while TBUF has bytes and output is allowed.
PollFlush ==
    /\ fpc = "parked" /\ tbuf # <<>>
    /\ fpc' = "flush"
    /\ UNCHANGED <<line, ret, newBaud, cur, next, tbuf, toDTE, got, toModem,
                   ghosts>>

FlushLoop ==
    /\ fpc = "flush" /\ tbuf # <<>> /\ IsSerialOut
    /\ CallDeque("flush")

FlushDone ==
    /\ fpc = "flush" /\ (tbuf = <<>> \/ ~IsSerialOut)
    /\ fpc' = "parked"
    /\ UNCHANGED <<line, ret, newBaud, cur, next, tbuf, toDTE, got, toModem,
                   ghosts>>

\* changeBaudRate, and flushAlways (newBaud = 0): both drain to the end.
PollChangeBaud(b) ==
    /\ fpc = "parked"
    /\ newBaud' = b /\ fpc' = "flushserial"
    /\ UNCHANGED <<line, ret, cur, next, tbuf, toDTE, got, toModem, ghosts>>

FlushSerialLoop ==
    /\ fpc = "flushserial" /\ tbuf # <<>>
    /\ CallDeque("flushserial")

FlushSerialDone ==
    /\ fpc = "flushserial" /\ tbuf = <<>>
    /\ fpc' = "parked" /\ newBaud' = 0
    /\ \/ newBaud = 0 /\ UNCHANGED <<fwBaud, held>>
       \/ newBaud # 0 /\ fwBaud' = newBaud /\ held' = 0
    /\ UNCHANGED <<dteBaud, flow, xon, rts, drops, ret, cur, next, tbuf,
                   toDTE, got, toModem, excused, overshoot, mark>>

\* clearSerialOutBuffer, when the last call drops in command mode.
PollClear ==
    /\ fpc = "parked" /\ tbuf # <<>>
    /\ tbuf' = <<>> /\ excused' = TRUE
    /\ UNCHANGED <<line, fpc, ret, newBaud, cur, next, toDTE, got, toModem,
                   overshoot, held, mark>>

\* setXON(true) and setFlowControlType: a new mode or ATF.
PollSetFlow(t) ==
    /\ fpc = "parked"
    /\ flow' = t /\ xon' = TRUE
    /\ UNCHANGED <<dteBaud, fwBaud, rts, drops, fpc, ret, newBaud, cur, next,
                   tbuf, toDTE, got, toModem, ghosts>>

\* XON and XOFF are ordinary characters unless flow control is FCT_NORMAL.
PollReadSerial ==
    /\ fpc = "parked" /\ Matched /\ toModem # <<>>
    /\ toModem' = Tail(toModem)
    /\ xon' = IF flow = "NORMAL" THEN Head(toModem) = "XON" ELSE xon
    /\ UNCHANGED <<dteBaud, fwBaud, flow, rts, drops, fpc, ret, newBaud, cur,
                   next, tbuf, toDTE, got, ghosts>>

-----------------------------------------------------------------------------
(* The embedder.                                                           *)

Firmware == <<fwBaud, flow, xon, fpc, ret, newBaud, cur, next, tbuf>>

MayCall == Threads = 2 \/ fpc = "parked"

\* ximodem_read: the pacing decides how many of the queued bytes it returns.
Read(k) ==
    /\ MayCall /\ Matched
    /\ k \in 1 .. Len(toDTE)
    /\ got' = toDTE[k]
    /\ toDTE' = SubSeq(toDTE, k + 1, Len(toDTE))
    /\ UNCHANGED <<Firmware, dteBaud, rts, drops, toModem, ghosts>>

\* ximodem_write of a flow control character; it is lost on a dark link.
Send(c) ==
    /\ MayCall /\ Matched /\ toModem = <<>>
    /\ toModem' = <<c>>
    /\ UNCHANGED <<Firmware, dteBaud, rts, drops, toDTE, got, ghosts>>

SetBaud(b) ==
    /\ MayCall
    /\ dteBaud' = b /\ held' = 0
    /\ UNCHANGED <<Firmware, rts, drops, toDTE, got, toModem, excused,
                   overshoot, mark>>

\* Mutant: the reset of the card leaves the ring as it is.
ClearBaudKeepsRing ==
    /\ fpc = "parked" /\ dteBaud # 0
    /\ dteBaud' = 0 /\ held' = 0 /\ mark' = next
    /\ UNCHANGED <<Firmware, rts, drops, toDTE, got, toModem, excused,
                   overshoot>>

\* ximodem_set_baud(0): the card lost its divisor.  Its caller has parked
\* the thread that polls.
ClearBaud ==
    /\ fpc = "parked" /\ dteBaud # 0
    /\ dteBaud' = 0 /\ held' = 0 /\ toDTE' = <<>>
    /\ excused' = (excused \/ toDTE # <<>>)
    /\ mark' = next
    /\ UNCHANGED <<Firmware, rts, drops, got, toModem, overshoot>>

RaiseRts ==
    /\ MayCall /\ ~rts
    /\ rts' = TRUE /\ overshoot' = 0 /\ held' = 0
    /\ UNCHANGED <<Firmware, dteBaud, drops, toDTE, got, toModem, excused,
                   mark>>

DropRts ==
    /\ MayCall /\ rts /\ drops < MaxDrops
    /\ rts' = FALSE /\ drops' = drops + 1 /\ overshoot' = 0 /\ held' = 0
    /\ UNCHANGED <<Firmware, dteBaud, toDTE, got, toModem, excused, mark>>

-----------------------------------------------------------------------------
\* The operation under way goes on until the firmware is parked again.
FirmwareStep ==
    \/ WriteMismatched \/ WriteMatched \/ RtsReturned \/ RtsCeiling
    \/ Push \/ GiveUp
    \/ DequeByte \/ DequeReturn
    \/ EnqueDirect \/ EnqueBuffered \/ EnqueFull
    \/ PrintMore \/ PrintDone
    \/ FlushLoop \/ FlushDone \/ FlushSerialLoop \/ FlushSerialDone

Poll ==
    \/ PollPrint \/ PollDrain \/ PollFlush \/ PollClear \/ PollReadSerial
    \/ \E b \in Rates \cup {0} : PollChangeBaud(b)
    \/ \E t \in FlowTypes : PollSetFlow(t)

Embedder ==
    \/ \E k \in 1 .. RingCap : Read(k)
    \/ \E c \in {"XON", "XOFF"} : Send(c)
    \/ \E b \in Rates : SetBaud(b)
    \/ ClearBaud \/ RaiseRts \/ DropRts

Next == FirmwareStep \/ EnqueHalted \/ Poll \/ Embedder

Spec == Init /\ [][Next]_vars

-----------------------------------------------------------------------------
(* Properties                                                              *)

TypeOK ==
    /\ dteBaud \in Rates \cup {0} /\ fwBaud \in Rates
    /\ flow \in FlowTypes /\ xon \in BOOLEAN /\ rts \in BOOLEAN
    /\ drops \in 0 .. MaxDrops
    /\ fpc \in {"parked", "enque", "printed", "deque", "flush",
                "flushserial", "uart", "rtswait", "push", "pushlate"}
    /\ ret \in {"parked", "enque", "flush", "flushserial"}
    /\ newBaud \in Rates \cup {0}
    /\ cur \in {NoByte} \cup {"direct", "tbuf"} \X (1 .. MaxOut)
    /\ next \in 1 .. MaxOut + 1
    /\ tbuf \in Seq(1 .. MaxOut) /\ Len(tbuf) <= TbufCap
    /\ toDTE \in Seq(1 .. MaxOut) /\ Len(toDTE) <= RingCap
    /\ got \in 0 .. MaxOut
    /\ toModem \in {<<>>, <<"XON">>, <<"XOFF">>}
    /\ excused \in BOOLEAN /\ overshoot \in Nat /\ held \in Nat
    /\ mark \in 1 .. MaxOut + 1

\* Everything printed and on its way, oldest first.  The byte
\* serialOutDeque has handed to xi_dte_write is still in TBUF.
Pipe == <<got>> \o toDTE \o (IF cur[1] = "direct" THEN <<cur[2]>> ELSE <<>>)
                \o tbuf

(***************************************************************************)
(* The terminal reads the bytes in the order the firmware printed them and *)
(* none twice, although enqueByte sends some bytes past TBUF, others wait  *)
(* in it, and those of a dark link are held in the ring.                   *)
(***************************************************************************)
ByteOrder == \A i \in 1 .. Len(Pipe) - 1 : Pipe[i] < Pipe[i + 1]

(***************************************************************************)
(* No byte is lost silently: unless the code came to one of the places     *)
(* where it drops output on purpose (the hold of a dark link is full, the  *)
(* ring stayed full for 300 ms, the card was reset, the output of a call   *)
(* that ended was cleared), all that was printed was read or is on its     *)
(* way.                                                                    *)
(***************************************************************************)
NoSilentLoss ==
    ~excused =>
        /\ \A i \in 1 .. Len(Pipe) - 1 : Pipe[i + 1] = Pipe[i] + 1
        /\ Pipe[Len(Pipe)] = IF cur[1] = "direct" THEN next ELSE next - 1

(***************************************************************************)
(* When the DTE drops RTS under RTS/CTS flow control, at most one byte,    *)
(* the one that had already passed the check of xi_dte_write, is put into  *)
(* the ring of a live link, unless the 5 s ceiling on that wait is         *)
(* reached.  xi_dte_write does not look at RTS when the rates differ: a    *)
(* dark link may be given as many bytes as are held for one, and no more.  *)
(***************************************************************************)
RtsOvershoot == overshoot <= 1 /\ held <= PreconfigHold

(***************************************************************************)
(* The comment in ximodem_set_baud: after a reset of the card the bytes of *)
(* the torn-down session must not resurface.  Those in TBUF do.            *)
(***************************************************************************)
NothingResurfaces == \A i \in 1 .. Len(toDTE) : toDTE[i] >= mark

(***************************************************************************)
(* What does resurface after a reset of the card is what TBUF held, which  *)
(* the firmware keeps and sends when the card has a rate again: no more    *)
(* bytes than that are in front of the first new one, also when the        *)
(* terminal comes back to a dark link first and the ring holds old bytes   *)
(* and new ones.                                                           *)
(***************************************************************************)
ResetKeepsTbuf ==
    \A i \in TbufCap + 1 .. Len(toDTE \o tbuf) : (toDTE \o tbuf)[i] >= mark

(***************************************************************************)
(* The comment on ximodem_poll: it does not block.  An embedder with one   *)
(* thread calls nothing else before the poll returns, and a poll waits for *)
(* RTS, for XON or for room that only another call can give.               *)
(***************************************************************************)
NonBlocking == fpc # "parked" ~> fpc = "parked"

\* Bytes wait in TBUF, and the terminal has halted or not read the output.
TerminalAwaited == tbuf # <<>> /\ (~IsSerialOut \/ ~DrainMore)

(***************************************************************************)
(* What a poll may wait for without an end of its own is the terminal      *)
(* alone: every other wait ends, and a poll that has waited for RTS up to  *)
(* its ceiling, or given up on a full ring, goes on to its end.            *)
(***************************************************************************)
PollEnds == fpc # "parked" ~> (fpc = "parked" \/ []TerminalAwaited)

(***************************************************************************)
(* What TBUF holds when the firmware stops printing is drained once the    *)
(* terminal lets output on for good, whatever flush returned before; a     *)
(* change of rate that waits for it inside a poll is the exception.        *)
(***************************************************************************)
OutputDrains ==
    <>[]IsSerialOut => ((next > MaxOut) ~> (tbuf = <<>> \/ []TerminalAwaited))

(***************************************************************************)
(* The operation of a poll goes on, every turn of loop() ends with a look  *)
(* at TBUF, and the embedder reads between its polls.  What its other      *)
(* thread does during a poll, if it has one, is left to it.                *)
(***************************************************************************)
Served ==
    /\ WF_vars(FirmwareStep)
    /\ SF_vars(PollDrain)
    /\ SF_vars(fpc = "parked" /\ \E k \in 1 .. RingCap : Read(k))

FairSpec == Spec /\ Served

-----------------------------------------------------------------------------
(* The inductive invariant DteLinkProofs uses.                             *)

(***************************************************************************)
(* The byte in xi_dte_write: one from TBUF is still at the head of TBUF,   *)
(* and one that goes past TBUF finds it empty until it is in the ring.     *)
(***************************************************************************)
CurOK ==
    /\ fpc \in {"uart", "rtswait", "push", "pushlate"} <=> cur # NoByte
    /\ cur[1] = "direct" => cur[2] = next /\ tbuf = <<>>
    /\ cur[1] = "tbuf" => tbuf # <<>> /\ cur[2] = Head(tbuf)

(***************************************************************************)
(* enqueByte has a byte to print, also while it drains TBUF for room.      *)
(***************************************************************************)
PrintOK ==
    /\ fpc = "enque" \/ cur[1] = "direct" => next <= MaxOut
    /\ ret = "enque" /\ (fpc = "deque" \/ cur[1] = "tbuf") => next <= MaxOut

(***************************************************************************)
(* What was read is older than what the ring holds, that is older than     *)
(* what TBUF holds, that is older than what will be printed.               *)
(***************************************************************************)
OrderOK ==
    /\ got < next
    /\ \A i \in 1 .. Len(toDTE) : got < toDTE[i] /\ toDTE[i] < next
    /\ \A j \in 1 .. Len(tbuf) : got < tbuf[j] /\ tbuf[j] < next
    /\ \A i, j \in 1 .. Len(toDTE) : i < j => toDTE[i] < toDTE[j]
    /\ \A i, j \in 1 .. Len(tbuf) : i < j => tbuf[i] < tbuf[j]
    /\ \A i \in 1 .. Len(toDTE), j \in 1 .. Len(tbuf) : toDTE[i] < tbuf[j]

(***************************************************************************)
(* Until a byte is dropped on purpose the ring continues what was read,    *)
(* and TBUF continues the ring.                                            *)
(***************************************************************************)
ContiguousOK ==
    ~excused =>
        /\ \A i \in 1 .. Len(toDTE) : toDTE[i] = got + i
        /\ \A j \in 1 .. Len(tbuf) : tbuf[j] = got + Len(toDTE) + j
        /\ next = got + Len(toDTE) + Len(tbuf) + 1

(***************************************************************************)
(* The one byte that may follow the fall of RTS has not followed yet while *)
(* it is still in xi_dte_write.                                            *)
(***************************************************************************)
OvershootOK == overshoot <= 1 /\ (fpc = "push" /\ ~FlowOpen => overshoot = 0)

IInv == TypeOK /\ CurOK /\ PrintOK /\ OrderOK /\ ContiguousOK /\ OvershootOK
=============================================================================
