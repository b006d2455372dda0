------------------------------- MODULE ZModem -------------------------------
(***************************************************************************)
(* ZModem transfers (proto_zmodem.ino): the sender of zget, which is       *)
(* send_file, and one of two receivers: zUpload of zput, or recv_files,    *)
(* the receiver of a batch, which the firmware itself never calls.         *)
(*                                                                         *)
(* The line carries headers, data subpackets, five CANs and the closing    *)
(* "OO".  It damages them, so that their check fails, loses them, or holds *)
(* them up until the wait for them is over.                                *)
(* Data never look like a header.  The file is a sequence of units of the  *)
(* smallest block, all different.  A check (crc) is what it is taken of.   *)
(*                                                                         *)
(* Time: else a side that waits gives up, after some 11 s, when there is   *)
(* nothing on the line that it or the other side can act on.  The wait for *)
(* a ZCRC, of 120 s, lasts until the sender has ended.                     *)
(***************************************************************************)
EXTENDS Integers, SequencesExt

CONSTANTS
    Receivers,      \* of "zUpload" and "recv_files"
    File,           \* the units of the file
    OldFiles,       \* what the receiver of a batch may have under that name
    Rooms,          \* units the disk of the receiver has room for
    BufSizes,       \* recv_bufsize, 0: any amount
    MaxBlock,       \* max_block_size in units: 8
    MaxErrors,      \* max_errors: 9
    MaxFaults       \* bound: faults of the line and cancellations

ASSUME ReceiversAssumption == Receivers \subseteq {"zUpload", "recv_files"}
ASSUME FileAssumption ==
    /\ File \in Seq(Nat \ {0}) /\ File # <<>> /\ IsInjective(File)
    /\ \A old \in OldFiles : old \in Seq(Nat \ {0})
ASSUME LimitsAssumption ==
    /\ {MaxFaults} \cup Rooms \cup BufSizes \subseteq Nat
    /\ {MaxBlock, MaxErrors} \subseteq Nat \ {0}

VARIABLES
    receiver,   \* which receiver it is
    old,        \* the file of that name before: <<>> or one of OldFiles
    room,       \* units its disk has room for
    bufsize,    \* the buffer size it announces
    s,          \* the sender
    r,          \* the receiver
    toR, toS,   \* the line: to the receiver, to the sender
    faults,     \* faults so far
    cancelled,  \* whether one of them was a cancellation
    gap         \* whether one of them was the loss of a whole subpacket

setting == <<receiver, old, room, bufsize>>
vars == <<setting, s, r, toR, toS, faults, cancelled, gap>>

Batch == receiver = "recv_files"

-----------------------------------------------------------------------------
(* The line.                                                               *)

Hdr(type, pos) == [type |-> type, pos |-> pos, data |-> <<>>, bad |-> FALSE]
Subpacket(type, data) ==
    [type |-> type, pos |-> 0, data |-> data, bad |-> FALSE]

Cans == Hdr("CAN", 0)
OverAndOut == Hdr("OO", 0)

IsData(x)   == x.type \in {"ZCRCG", "ZCRCE", "ZCRCW"}
IsHeader(x) == ~IsData(x) /\ x.type # "OO"
IsDataOrCans(x) == IsData(x) \/ x.type \in {"CAN", "TIMEOUT"}

After(line, i) == IF i = 0 THEN <<>> ELSE SubSeq(line, i + 1, Len(line))

\* recv_header: what comes before the header is skipped.
Received(line) ==
    LET i == SelectInSeq(line, IsHeader)
    IN IF i = 0 THEN Hdr("TIMEOUT", 0)
       ELSE IF line[i].bad THEN Hdr("INVHDR", 0) ELSE line[i]

AfterHeader(line) == After(line, SelectInSeq(line, IsHeader))

\* recv_data: a header is read as data, and then the check fails.
ReceivedData(line) ==
    LET i == SelectInSeq(line, IsDataOrCans)
    IN IF i = 0 THEN Hdr("TIMEOUT", 0)
       ELSE IF IsData(line[i]) /\ (line[i].bad \/ i > 1)
         THEN Hdr("CRCFAILED", 0) ELSE line[i]

AfterData(line) == After(line, SelectInSeq(line, IsDataOrCans))

\* fcrc32, where a length of 0 means all of the file.
Check(file, length) ==
    IF length = 0 THEN file
    ELSE SubSeq(file, 1, IF length < Len(file) THEN length ELSE Len(file))

-----------------------------------------------------------------------------
(* Who waits and for what.                                                 *)

SenderWaits == s.pc \in {"rqinit", "file", "crc", "ack", "eof", "skip", "zfin"}
SenderDone == s.pc \in {"ok", "failed", "crashed"}

ReceiverWaits == r.pc \in {"init", "crc", "frame"}
ReceiverReads == r.pc \in {"name", "data"}
ReceiverDone == r.pc \in {"ok", "failed", "done"}

HasHeader(line) == SelectInSeq(line, IsHeader) # 0

SenderActs ==
    \/ s.pc \in {"start", "send", "poll", "closed"}
    \/ SenderWaits /\ HasHeader(toS)

ReceiverActs ==
    \/ ReceiverWaits /\ HasHeader(toR)
    \/ ReceiverReads /\ SelectInSeq(toR, IsDataOrCans) # 0

SenderMayRead == HasHeader(toS) \/ ~ReceiverActs
ReceiverMayRead ==
    ReceiverActs \/ (~SenderActs /\ (r.pc = "crc" => SenderDone))

\* A side that has ended reads no more.
SenderWrites(what) ==
    /\ toR' = IF ReceiverDone THEN toR ELSE toR \o what
    /\ UNCHANGED <<setting, r, faults, cancelled, gap>>

ReceiverWrites(what) ==
    /\ toS' = IF SenderDone THEN toS ELSE toS \o what
    /\ UNCHANGED <<setting, s, faults, cancelled, gap>>

-----------------------------------------------------------------------------
Init ==
    /\ receiver \in Receivers /\ old \in OldFiles \cup {<<>>}
    /\ room \in Rooms /\ bufsize \in BufSizes
    /\ s = [pc |-> "start", tries |-> 0, pos |-> 0, cur |-> 0, first |-> TRUE,
            unacked |-> 0, block |-> MaxBlock, errors |-> 0,
            transit |-> FALSE, success |-> FALSE]
    /\ r = [pc |-> "off", from |-> "init", errors |-> 0, tries |-> 0,
            file |-> old, exists |-> old # <<>>, skipped |-> FALSE,
            gaveUp |-> FALSE, complete |-> FALSE]
    /\ toR = <<>> /\ toS = <<>>
    /\ faults = 0 /\ cancelled = FALSE /\ gap = FALSE

-----------------------------------------------------------------------------
(* The sender: send_file.                                                  *)

ZFileFrame == <<Hdr("ZFILE", 0), Subpacket("ZCRCW", <<0>>)>>

SenderReads(h) == /\ SenderMayRead
                  /\ h = Received(toS) /\ toS' = AfterHeader(toS)

Start ==
    /\ s.pc = "start"
    /\ s' = [s EXCEPT !.pc = "rqinit"]
    /\ SenderWrites(<<Hdr("ZRQINIT", 0)>>) /\ UNCHANGED toS

\* The loop over get_zrinit: the answer to its last try comes too late.
RqinitAnswer ==
    /\ s.pc = "rqinit"
    /\ LET h == Received(toS)
           again == s.tries < MaxErrors /\ h.type # "CAN"
       IN /\ SenderReads(h)
          /\ IF h.type = "ZRINIT" /\ s.tries < MaxErrors
               THEN /\ s' = [s EXCEPT !.pc = "file", !.tries = 0]
                    /\ SenderWrites(ZFileFrame)
             ELSE IF h.type # "ZRINIT" /\ again
               THEN /\ s' = [s EXCEPT !.tries = @ + 1]
                    /\ SenderWrites(<<Hdr("ZRQINIT", 0)>>)
             ELSE s' = [s EXCEPT !.pc = "failed"] /\ SenderWrites(<<>>)

\* get_zfin, which zDownload calls when send_file has returned true.
Finish(t) ==
    /\ s' = [t EXCEPT !.pc = "zfin", !.tries = 0, !.success = TRUE]
    /\ SenderWrites(<<Hdr("ZFIN", 0)>>)

SendFrom(t, pos) ==
    [t EXCEPT !.pc = "send", !.pos = pos, !.cur = pos, !.first = TRUE,
              !.unacked = 0]

ResendZFile ==
    IF s.tries < MaxErrors
      THEN /\ s' = [s EXCEPT !.pc = "file", !.tries = @ + 1]
           /\ SenderWrites(ZFileFrame)
      ELSE s' = [s EXCEPT !.pc = "failed"] /\ SenderWrites(<<>>)

\* handle_zrpos at the start of the data.
Begin(pos) ==
    /\ s' = IF pos <= Len(File) THEN [SendFrom(s, pos) EXCEPT !.errors = 0]
                                ELSE [s EXCEPT !.pc = "failed"]
    /\ SenderWrites(<<>>)

FileAnswer ==
    /\ s.pc = "file"
    /\ LET h == Received(toS)
       IN /\ SenderReads(h)
          /\ CASE h.type = "CAN" ->
                    s' = [s EXCEPT !.pc = "failed"] /\ SenderWrites(<<>>)
               [] h.type = "ZACK" -> UNCHANGED s /\ SenderWrites(<<>>)
               [] h.type = "ZSKIP" -> Finish(s)
               [] h.type = "ZRPOS" -> Begin(h.pos)
               [] h.type = "ZCRC" ->
                    /\ s' = [s EXCEPT !.pc = "crc"]
                    /\ SenderWrites(<<[Hdr("ZCRC", 0) EXCEPT
                                         !.data = Check(File, h.pos)]>>)
               [] OTHER -> ResendZFile

\* After its answer to a ZCRC the sender knows no other header than ZRPOS.
CrcSent ==
    /\ s.pc = "crc"
    /\ LET h == Received(toS)
       IN /\ SenderReads(h)
          /\ CASE h.type = "ZRPOS" -> Begin(h.pos)
               [] h.type = "CAN" ->
                    /\ s' = [s EXCEPT !.pc = "failed"]
                    /\ SenderWrites(IF s.tries < MaxErrors THEN ZFileFrame
                                                           ELSE <<>>)
               [] OTHER -> ResendZFile

-----------------------------------------------------------------------------
(* The sender: send_from, and what send_file does when it returns.         *)

BlockKind(n) ==
    IF n < s.block THEN "ZCRCE"
    ELSE IF ~s.first /\ (bufsize = 0 \/ s.unacked + n < bufsize) THEN "ZCRCG"
    ELSE "ZCRCW"

SendBlock ==
    /\ s.pc = "send"
    /\ LET left == Len(File) - s.cur
           n    == IF left < s.block THEN left ELSE s.block
           kind == BlockKind(n)
           end  == s.cur + n
       IN /\ s' = [s EXCEPT
                     !.cur = end, !.first = FALSE, !.transit = kind = "ZCRCG",
                     !.unacked = IF kind = "ZCRCW" THEN n ELSE @ + n,
                     !.pc = CASE kind = "ZCRCW" -> "ack"
                              [] kind = "ZCRCE" -> "eof"
                              [] kind = "ZCRCG" -> "poll"]
          /\ SenderWrites(
               (IF s.transit THEN <<>> ELSE <<Hdr("ZDATA", s.cur)>>)
                 \o <<Subpacket(kind, SubSeq(File, s.cur + 1, end))>>
                 \o (IF kind = "ZCRCE" THEN <<Hdr("ZEOF", end)>> ELSE <<>>))
    /\ UNCHANGED toS

\* Mutant: deaf to what the receiver asks for.
AskedDeaf(t, h) == t.pos

\* An error: smaller blocks, and from the position the receiver asks for.
Halved(block) == IF block > 1 THEN block \div 2 ELSE block

Asked(t, h) == IF h.type = "ZRPOS" THEN h.pos ELSE t.pos

Retreat(t, h) ==
    LET u == [t EXCEPT !.errors = @ + 1, !.block = Halved(@)]
    IN IF u.errors > MaxErrors \/ Asked(t, h) > Len(File)
         THEN [u EXCEPT !.pc = "failed"]
         ELSE SendFrom(u, Asked(t, h))

\* Mutant: no answer is taken for the ZRINIT that follows a file.
SuccessfulOrNone(h) == h.type \in {"ZRINIT", "TIMEOUT"}

Successful(h) == h.type = "ZRINIT"

\* send_from has returned h.type, after it has written what.
Returned(t, h, what) ==
    CASE h.type \in {"ZFERR", "ZABORT", "CAN"} ->
           s' = [t EXCEPT !.pc = "failed"] /\ SenderWrites(what)
      [] h.type = "ZSKIP" -> s' = [t EXCEPT !.pc = "skip"] /\ SenderWrites(what)
      [] Successful(h) ->
           /\ s' = [t EXCEPT !.pc = "zfin", !.tries = 0, !.success = TRUE]
           /\ SenderWrites(what \o <<Hdr("ZFIN", 0)>>)
      [] h.type = "ZACK" /\ h.pos = t.cur ->
           s' = SendFrom(t, t.cur) /\ SenderWrites(what)
      [] OTHER -> s' = Retreat(t, h) /\ SenderWrites(what)

\* Mutant: no answer is taken for an acknowledgement.
AckAnswerOrNone ==
    /\ s.pc = "ack"
    /\ LET h == Received(toS)
       IN /\ SenderReads(h)
          /\ IF h.type \notin {"ZACK", "TIMEOUT"} THEN Returned(s, h, <<>>)
             ELSE s' = [s EXCEPT !.pc = "poll"] /\ SenderWrites(<<>>)

AckAnswer ==
    /\ s.pc = "ack"
    /\ LET h == Received(toS)
       IN /\ SenderReads(h)
          /\ IF h.type # "ZACK" THEN Returned(s, h, <<>>)
             ELSE /\ s' = [s EXCEPT !.pc = IF h.pos = s.cur THEN "poll" ELSE @]
                  /\ SenderWrites(<<>>)

\* After a ZSKIP one more header is read, whatever it is.
LastAnswer ==
    /\ s.pc \in {"eof", "skip"}
    /\ LET h == Received(toS)
       IN /\ SenderReads(h)
          /\ CASE s.pc = "eof" -> Returned(s, h, <<>>)
               [] s.pc = "skip" /\ h.type # "CAN" -> Finish(s)
               [] OTHER -> /\ s' = [s EXCEPT !.pc = "closed", !.success = TRUE]
                           /\ SenderWrites(<<>>)

\* A header from the receiver ends the frame and send_from.
BackChannel ==
    /\ s.pc = "poll" /\ HasHeader(toS)
    /\ LET h == Received(toS)
           t == [s EXCEPT !.transit = FALSE]
           end == (IF s.transit THEN <<>> ELSE <<Hdr("ZDATA", s.cur)>>)
                    \o <<Subpacket("ZCRCE", <<>>)>>
       IN /\ toS' = AfterHeader(toS)
          /\ IF h.type = "CAN" THEN Returned(s, h, <<>>)
             ELSE IF h.type = "INVHDR" THEN s' = t /\ SenderWrites(end)
             ELSE Returned(t, h, end)

\* Nothing came, for 1 s if the last block was in error.
NothingBack ==
    /\ s.pc = "poll" /\ ~HasHeader(toS)
    /\ s.errors > 0 => ~ReceiverActs
    /\ s' = [s EXCEPT !.pc = "send", !.errors = 0,
                      !.block = IF 2 * @ < MaxBlock THEN 2 * @ ELSE MaxBlock]
    /\ toS' = <<>> /\ SenderWrites(<<>>)

ZfinAnswer ==
    /\ s.pc = "zfin"
    /\ LET h == Received(toS)
           again == s.tries + 1 < MaxErrors /\ h.type # "CAN"
           next == IF s.tries % 2 = 0 THEN "ZABORT" ELSE "ZFIN"
       IN /\ SenderReads(h)
          /\ CASE h.type = "ZFIN" -> /\ s' = [s EXCEPT !.pc = "closed"]
                                     /\ SenderWrites(<<OverAndOut>>)
               [] h.type # "ZFIN" /\ again ->
                    /\ s' = [s EXCEPT !.tries = @ + 1]
                    /\ SenderWrites(<<Hdr(next, 0)>>)
               [] OTHER -> s' = [s EXCEPT !.pc = "closed"] /\ SenderWrites(<<>>)

\* zDownload looks for a cancellation in memory that it has freed.
Report ==
    /\ s.pc = "closed"
    /\ \E outcome \in {"ok", "failed", "crashed"} : s' = [s EXCEPT !.pc = outcome]
    /\ SenderWrites(<<>>) /\ UNCHANGED toS

-----------------------------------------------------------------------------
(* The receiver: recv_init and the file it opens.                          *)

ReceiverTakes(h, rest) == ReceiverMayRead /\ toR' = rest

\* recv_init, up to its first wait.
EnterInit(t) == [t EXCEPT !.pc = "init", !.from = "init", !.errors = 0]

\* The terminal may have read what came before the receiver was started.
ReceiverStart ==
    /\ r.pc = "off"
    /\ r' = EnterInit(r)
    /\ toR' \in {toR, <<>>}
    /\ ReceiverWrites(<<Hdr("ZRINIT", 0)>>)

InitAgain(what) ==
    IF r.errors < MaxErrors
      THEN /\ r' = [r EXCEPT !.pc = "init", !.errors = @ + 1]
           /\ ReceiverWrites(what \o <<Hdr("ZRINIT", 0)>>)
      ELSE /\ r' = [r EXCEPT !.pc = IF Batch THEN "oo" ELSE "failed"]
           /\ ReceiverWrites(what)

Cancelled(t) == [t EXCEPT !.pc = IF Batch THEN "done" ELSE "failed"]

CancelSkip(what) ==
    /\ r' = Cancelled([r EXCEPT !.skipped = TRUE])
    /\ ReceiverWrites(what \o <<Hdr("ZSKIP", 0)>>)

\* recv_files: an empty file is removed after an error, and a file of the
\* announced length is counted as received.
Settled(t) ==
    LET keep == ~(t.errors > 0 /\ t.file = <<>>)
    IN [t EXCEPT !.exists = keep, !.complete = keep /\ Len(t.file) = Len(File)]

CancelFrame(t, what) ==
    /\ r' = Cancelled(IF Batch THEN Settled([t EXCEPT !.errors = @ + 1]) ELSE t)
    /\ ReceiverWrites(what)

InitAnswer ==
    /\ r.pc = "init"
    /\ LET h == Received(toR)
       IN /\ ReceiverTakes(h, AfterHeader(toR))
          /\ CASE h.type = "ZFILE" -> /\ r' = [r EXCEPT !.pc = "name"]
                                      /\ ReceiverWrites(<<>>)
               [] h.type = "ZFIN" ->
                    /\ r' = [r EXCEPT !.pc = IF Batch THEN "oo" ELSE "ok"]
                    /\ ReceiverWrites(<<Hdr("ZFIN", 0)>>)
               [] h.type = "CAN" -> r' = Cancelled(r) /\ ReceiverWrites(<<>>)
               [] OTHER -> InitAgain(<<>>)

Skip(what) ==
    /\ r' = EnterInit([r EXCEPT !.skipped = TRUE])
    /\ ReceiverWrites(what \o <<Hdr("ZSKIP", 0), Hdr("ZRINIT", 0)>>)

ReceiveFrom(t, file) ==
    /\ r' = [t EXCEPT !.pc = "frame", !.from = "frame", !.errors = 0,
                      !.tries = 0, !.file = file, !.exists = TRUE]
    /\ ReceiverWrites(<<Hdr("ZRPOS", Len(file))>>)

\* The file is opened; recv_files looks at the one that is there first.
StartFile(rest) ==
    CASE ~Batch -> ReceiveFrom(r, <<>>) /\ toR' = rest
      [] Batch /\ ~r.exists -> ReceiveFrom(r, <<>>) /\ toR' = rest
      [] Batch /\ r.exists /\ Len(r.file) >= Len(File) ->
           Skip(<<>>) /\ toR' = rest
      [] OTHER -> /\ r' = [r EXCEPT !.pc = "crc", !.from = "crc"]
                  /\ toR' = <<>>
                  /\ ReceiverWrites(<<Hdr("ZCRC", Len(r.file))>>)

\* The data of a ZFILE, and what the caller of recv_header makes of it.
NameAnswer ==
    /\ r.pc = "name" /\ ReceiverMayRead
    /\ LET h    == ReceivedData(toR)
           good == IsData(h)
           znak == IF good THEN <<>> ELSE <<Hdr("ZNAK", 0)>>
           rest == AfterData(toR)
       IN IF good /\ r.from = "init" THEN StartFile(rest)
          ELSE /\ toR' = rest
               /\ CASE r.from = "crc" -> IF h.type = "CAN" THEN CancelSkip(znak)
                                                          ELSE Skip(znak)
                    [] r.from = "init" ->
                         IF h.type = "CAN"
                           THEN r' = Cancelled(r) /\ ReceiverWrites(znak)
                           ELSE InitAgain(znak)
                    [] r.from = "frame" ->
                         IF h.type = "CAN" THEN CancelFrame(r, znak)
                         ELSE /\ r' = [r EXCEPT !.pc = "frame", !.tries = @ + 1]
                              /\ ReceiverWrites(znak)

\* A length of 0 asks for the check of all of the file: an empty file that
\* is there is never continued.
CrcAnswer ==
    /\ r.pc = "crc"
    /\ LET h == Received(toR)
       IN /\ ReceiverTakes(h, AfterHeader(toR))
          /\ CASE h.type = "CAN" -> CancelSkip(<<>>)
               [] h.type = "ZCRC" /\ h.data = Check(r.file, Len(r.file)) ->
                    ReceiveFrom(r, r.file)
               [] h.type = "ZFILE" -> /\ r' = [r EXCEPT !.pc = "name"]
                                      /\ ReceiverWrites(<<>>)
               [] OTHER -> Skip(<<>>)

-----------------------------------------------------------------------------
(* The receiver: recv_file_data and recv_file_frame.                       *)

\* The frame that holds the end of the file has come.
FileDone ==
    IF Batch
      THEN /\ r' = EnterInit(Settled(r))
           /\ ReceiverWrites(<<Hdr("ZRINIT", 0)>>)
      ELSE r' = [r EXCEPT !.pc = "ok"] /\ ReceiverWrites(<<Hdr("ZFIN", 0)>>)

\* Mutants: errors are not counted; positions are not compared.
OneMoreNever(t) == t
HereAny(h) == TRUE
EndsAnywhere(h) == h.type = "ZEOF"

OneMoreError(t) == [t EXCEPT !.errors = @ + 1]
Here(h) == h.pos = Len(r.file)
Ends(h) == h.type = "ZEOF" /\ Here(h)

\* A frame has come to nothing: the receiver says where it is, or gives up.
FrameFails(t, what) ==
    LET u == OneMoreError(t)
    IN CASE u.errors <= MaxErrors ->
              /\ r' = [u EXCEPT !.pc = "frame", !.tries = 0]
              /\ ReceiverWrites(what \o <<Hdr("ZRPOS", Len(u.file))>>)
         [] u.errors > MaxErrors /\ Batch ->
              /\ r' = EnterInit([Settled(u) EXCEPT !.gaveUp = TRUE])
              /\ ReceiverWrites(what \o <<Hdr("ZRINIT", 0)>>)
         [] OTHER -> r' = [u EXCEPT !.pc = "failed"] /\ ReceiverWrites(what)

\* The attempts of one frame are used up before anything is read.
AttemptsOver ==
    /\ r.pc = "frame" /\ r.tries >= MaxErrors
    /\ FrameFails(r, <<>>) /\ UNCHANGED toR

TryAgain == r' = [r EXCEPT !.tries = @ + 1] /\ ReceiverWrites(<<>>)

FrameAnswer ==
    /\ r.pc = "frame" /\ r.tries < MaxErrors
    /\ LET h == Received(toR)
       IN /\ ReceiverTakes(h, AfterHeader(toR))
          /\ CASE Ends(h) \/ h.type = "ZFIN" -> FileDone
               [] h.type = "TIMEOUT" -> FrameFails(r, <<>>)
               [] h.type = "CAN" -> CancelFrame(r, <<>>)
               [] h.type = "ZFILE" -> /\ r' = [r EXCEPT !.pc = "name"]
                                      /\ ReceiverWrites(<<>>)
               [] h.type = "ZDATA" ->
                    IF Here(h) THEN /\ r' = [r EXCEPT !.pc = "data"]
                                 /\ ReceiverWrites(<<>>)
                            ELSE FrameFails(r, <<>>)
               [] OTHER -> TryAgain

\* A subpacket: acknowledged by recv_data, and then written.
DataAnswer ==
    /\ r.pc = "data"
    /\ LET h    == ReceivedData(toR)
           n    == Len(h.data)
           free == IF room > Len(r.file) THEN room - Len(r.file) ELSE 0
           wrote == IF n < free THEN n ELSE free
           t    == [r EXCEPT !.file = @ \o SubSeq(h.data, 1, wrote)]
           zack == IF h.type = "ZCRCW" THEN <<Hdr("ZACK", Len(r.file) + n)>>
                                       ELSE <<>>
       IN /\ ReceiverTakes(h, AfterData(toR))
          /\ CASE h.type = "CAN" -> CancelFrame(r, <<>>)
               [] h.type \in {"CRCFAILED", "TIMEOUT"} -> FrameFails(r, <<>>)
               [] IsData(h) /\ wrote < n ->
                    FrameFails(t, zack \o <<Hdr("ZFERR", Len(t.file))>>)
               [] IsData(h) /\ wrote = n /\ h.type = "ZCRCG" ->
                    r' = t /\ ReceiverWrites(zack)
               [] OTHER -> /\ r' = [t EXCEPT !.pc = "frame", !.tries = 0]
                           /\ ReceiverWrites(zack)

\* The last wait of recv_files, of 2 s, for the closing "OO".
Overandout ==
    /\ r.pc = "oo"
    /\ r' = [r EXCEPT !.pc = "done"]
    /\ toR' = <<>> /\ ReceiverWrites(<<>>)

-----------------------------------------------------------------------------
(* The line and the people at its ends.                                    *)

HasCheck(x) == x.type \notin {"CAN", "OO", "TIMEOUT"}
Damaged(line, i) == [line EXCEPT ![i].bad = TRUE]

Damage ==
    /\ faults < MaxFaults /\ faults' = faults + 1
    /\ \/ \E i \in 1 .. Len(toR) : /\ HasCheck(toR[i])
                                   /\ toR' = Damaged(toR, i) /\ UNCHANGED toS
       \/ \E i \in 1 .. Len(toS) : /\ HasCheck(toS[i])
                                   /\ toS' = Damaged(toS, i) /\ UNCHANGED toR
    /\ UNCHANGED <<setting, s, r, cancelled, gap>>

Lose ==
    /\ faults < MaxFaults /\ faults' = faults + 1
    /\ \/ \E i \in 1 .. Len(toR) : /\ toR' = RemoveAt(toR, i) /\ UNCHANGED toS
                                   /\ gap' = (gap \/ IsData(toR[i]))
       \/ \E i \in 1 .. Len(toS) : /\ toS' = RemoveAt(toS, i) /\ UNCHANGED toR
                                   /\ UNCHANGED gap
    /\ UNCHANGED <<setting, s, r, cancelled>>

\* What comes next is so late that who waits for it has given up.
Delay ==
    /\ faults < MaxFaults /\ faults' = faults + 1
    /\ \/ SenderWaits /\ toS' = <<Hdr("TIMEOUT", 0)>> \o toS /\ UNCHANGED toR
       \/ /\ ReceiverWaits \/ ReceiverReads
          /\ toR' = <<Hdr("TIMEOUT", 0)>> \o toR /\ UNCHANGED toS
    /\ UNCHANGED <<setting, s, r, cancelled, gap>>

Cancel ==
    /\ faults < MaxFaults /\ faults' = faults + 1 /\ cancelled' = TRUE
    /\ \/ ~ReceiverDone /\ toR' = Append(toR, Cans) /\ UNCHANGED toS
       \/ ~SenderDone /\ toS' = Append(toS, Cans) /\ UNCHANGED toR
    /\ UNCHANGED <<setting, s, r, gap>>

-----------------------------------------------------------------------------
Sender ==
    \/ Start \/ RqinitAnswer \/ FileAnswer \/ CrcSent \/ SendBlock
    \/ AckAnswer \/ LastAnswer \/ BackChannel \/ NothingBack
    \/ ZfinAnswer \/ Report

Receiver ==
    \/ ReceiverStart \/ InitAnswer \/ NameAnswer \/ CrcAnswer
    \/ AttemptsOver \/ FrameAnswer \/ DataAnswer \/ Overandout

Next == Sender \/ Receiver \/ Damage \/ Lose \/ Delay \/ Cancel

\* Neither end waits without a limit of time.
Spec == Init /\ [][Next]_vars /\ WF_vars(Sender) /\ WF_vars(Receiver)

-----------------------------------------------------------------------------
(* Properties                                                              *)

SenderStates == {"start", "rqinit", "file", "crc", "send", "poll", "ack", "eof",
                 "skip", "zfin", "closed", "ok", "failed", "crashed"}
ReceiverStates == {"off", "init", "name", "crc", "frame", "data", "oo", "ok",
                   "failed", "done"}

Place == 0 .. Len(File)

TypeOK ==
    /\ s \in [pc : SenderStates, tries : 0 .. MaxErrors, pos : Place, cur : Place,
              first : BOOLEAN, unacked : Nat, block : 1 .. MaxBlock,
              errors : 0 .. MaxErrors + 1, transit : BOOLEAN, success : BOOLEAN]
    /\ r \in [pc : ReceiverStates, from : {"init", "crc", "frame"},
              errors : 0 .. MaxErrors + 1, tries : 0 .. MaxErrors,
              file : Seq(Nat \ {0}), exists : BOOLEAN, skipped : BOOLEAN,
              gaveUp : BOOLEAN, complete : BOOLEAN]
    /\ Len(r.file) <= IF Len(old) > Len(File) THEN Len(old) ELSE Len(File)
    /\ \A x \in Range(toR) \cup Range(toS) : x.bad \in BOOLEAN /\ x.pos \in Nat
    /\ faults \in 0 .. MaxFaults /\ cancelled \in BOOLEAN /\ gap \in BOOLEAN

(***************************************************************************)
(* What the receiver has is the file it found or a beginning of the file   *)
(* that is sent, whatever is damaged or lost and however often a frame is  *)
(* repeated: the positions of ZDATA and ZRPOS keep units from missing and  *)
(* from coming twice (recv_file_frame, handle_zrpos).  Subpackets carry no *)
(* position: when the line drops just one whole subpacket inside a frame,  *)
(* the next one is stored in its place.  This and the other properties     *)
(* except that; to lose a part of one damages it.                          *)
(***************************************************************************)
FilePrefix == gap \/ r.file = old \/ IsPrefix(r.file, File)

(***************************************************************************)
(* "If this is ZRINIT, Success" (send_from): when send_file returns true,  *)
(* the receiver has the file, unless it has skipped it or given up on it.  *)
(* A ZRINIT that is older than the data must never be read then.           *)
(***************************************************************************)
SenderTruth ==
    s.success /\ ~gap => r.file = File \/ r.skipped \/ r.gaveUp

(***************************************************************************)
(* A receiver that reports the file as received has all of it: zUpload     *)
(* returned true, or recv_files counted it.                                *)
(***************************************************************************)
ReceiverTruth == (r.pc = "ok" \/ r.complete) /\ ~gap => r.file = File

(***************************************************************************)
(* The sender goes on after a ZCRCW only if the data before it are stored. *)
(* recv_data acknowledges first, and the write may fail then: only if the  *)
(* disk is full.                                                           *)
(***************************************************************************)
AckMeansStored ==
    [][s.pc = "ack" /\ s'.pc = "poll" =>
           s.cur <= Len(r.file) \/ room < Len(File) \/ gap]_vars

(***************************************************************************)
(* Both sides come to their end, also after a cancellation or with a full  *)
(* disk: every error counts towards max_errors of one side.                *)
(***************************************************************************)
TransferEnds == <>(SenderDone /\ ReceiverDone)

(***************************************************************************)
(* A fault is repaired: once the sender is about to send and no header of  *)
(* the opening is left on the line, it succeeds.  Before that it may not:  *)
(* each repeated ZRQINIT draws a ZRINIT, each of them a ZFILE, and every   *)
(* ZFILE is one of the attempts of recv_file_frame.                        *)
(***************************************************************************)
InStep ==
    /\ s.pc = "send" /\ r.pc = "frame" /\ toR = <<>> /\ toS = <<>>
    /\ s.errors = 0 /\ r.errors = 0 /\ r.tries = 0

Repaired ==
    InStep /\ Batch /\ room >= Len(File) ~>
        (s.success /\ r.file = File) \/ cancelled \/ gap
=============================================================================
