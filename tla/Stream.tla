------------------------------- MODULE Stream -------------------------------
(***************************************************************************)
(* The blocking reads of Stream (compat/Stream.cpp) on the serial port of  *)
(* the terminal: readBytes, with which ATT takes a number of bytes inside  *)
(* one poll, readBytesUntil, readString, findUntil, parseInt, parseFloat.  *)
(*                                                                         *)
(* All of them wait for each byte in timedRead() or timedPeek(): look, and *)
(* if nothing is there see if the time is up.  Bytes come from another     *)
(* thread, between any two of these steps.  millis() is a counter that     *)
(* wraps: at 32 bits where unsigned long has them (Windows).               *)
(*                                                                         *)
(* A number is its sign, its digits and the digits after the point: what   *)
(* the arithmetic makes of them is left out.                               *)
(***************************************************************************)
EXTENDS Naturals, Sequences

CONSTANTS
    Digits, Others,     \* bytes: digits, and those without a meaning here
    Target,             \* what find() looks for
    Lengths,            \* lengths readBytes() is asked for
    NoLimit,            \* the length of readString(): none
    Timeout,            \* _timeout
    Wrap,               \* values of millis(): 2^32
    MaxWait,            \* bound: time between a look and the look at the clock
    MaxBytes            \* bound: bytes the terminal sends

Special == {"NUL", "-", "."}
None == "none"          \* no byte
Bytes == Digits \cup Others \cup Special

ASSUME StreamAssumption ==
    /\ (Digits \cup Others) \cap (Special \cup {None}) = {}
    /\ Target \in Seq(Bytes \ {"NUL"})
    /\ Lengths \subseteq Nat
    /\ NoLimit \notin Nat
    /\ {Timeout, Wrap, MaxWait, MaxBytes} \subseteq Nat
    /\ 0 < Timeout /\ 0 < MaxWait /\ Timeout + MaxWait < Wrap

VARIABLES
    arrived,    \* bytes that wait at the port
    sent,       \* bytes the terminal has sent, in number
    clock,      \* millis()
    start,      \* _startMillis
    call,       \* the call in progress, or the last one: arguments and locals
    end,        \* why it has returned, "no" while it has not
    step,       \* of timedRead() and timedPeek(): "look" or "check"
    got,        \* bytes the call has taken
    quiet       \* ghost: time since start, up to Timeout

streamVars == <<arrived, sent, clock, start, call, end, step, got, quiet>>

StreamInit ==
    /\ arrived = <<>>
    /\ sent = 0
    /\ clock \in 0 .. Wrap - 1
    /\ start = 0
    /\ call = [op |-> "none"]
    /\ end = "idle"
    /\ step = "look"
    /\ got = <<>>
    /\ quiet = 0

-----------------------------------------------------------------------------
(* A call starts: it waits for its first byte, if it needs one.            *)

Begins(c, e) ==
    /\ end # "no"
    /\ call' = c
    /\ end' = e
    /\ got' = <<>>
    /\ step' = "look"
    /\ start' = clock
    /\ quiet' = 0
    /\ UNCHANGED <<arrived, sent, clock>>

\* readBytes and readBytesUntil have a length, readString and readStringUntil
\* have none.
read(length, until) ==
    Begins([op |-> "read", length |-> length, until |-> until, text |-> <<>>],
           IF length = 0 THEN "full" ELSE "no")

findUntil(terminator) ==
    Begins([op |-> "find", terminator |-> terminator, index |-> 0, termIndex |-> 0],
           IF Target = <<>> THEN "match" ELSE "no")

\* parseInt, and with decimal parseFloat.
parse(decimal) ==
    Begins([op |-> "parse", decimal |-> decimal, seeking |-> TRUE, negative |-> FALSE,
            digits |-> <<>>, fraction |-> <<>>, point |-> FALSE],
           "no")

-----------------------------------------------------------------------------
(* timedRead() and timedPeek().                                            *)

Waits(op) == end = "no" /\ call.op = op /\ step = "look" /\ arrived # <<>>

\* read(): the next wait, if there is one, starts now.
Takes ==
    /\ arrived' = Tail(arrived)
    /\ got' = Append(got, Head(arrived))
    /\ start' = clock
    /\ quiet' = 0
    /\ UNCHANGED <<sent, clock, step>>

\* Nothing is there; d units later the clock is read.
Looks(d) ==
    /\ end = "no"
    /\ step = "look"
    /\ arrived = <<>>
    /\ clock' = (clock + d) % Wrap
    /\ quiet' = IF quiet + d < Timeout THEN quiet + d ELSE Timeout
    /\ step' = "check"
    /\ UNCHANGED <<arrived, sent, start, call, end, got>>

\* Mutant: the deadline is compared, not the time that has passed.
PastDeadline == clock >= (start + Timeout) % Wrap

TimeUp == (clock + Wrap - start) % Wrap >= Timeout

\* Mutant: each look starts the wait again.
CheckTimeAnew ==
    /\ end = "no"
    /\ step = "check"
    /\ step' = "look"
    /\ end' = IF TimeUp THEN "silence" ELSE "no"
    /\ start' = clock
    /\ UNCHANGED <<arrived, sent, clock, call, got, quiet>>

CheckTime ==
    /\ end = "no"
    /\ step = "check"
    /\ step' = "look"
    /\ end' = IF TimeUp THEN "silence" ELSE "no"
    /\ UNCHANGED <<arrived, sent, clock, start, call, got, quiet>>

-----------------------------------------------------------------------------
(* What each call does with a byte.                                        *)

ReadByte ==
    /\ Waits("read")
    /\ Takes
    /\ LET c == Head(arrived)
           text == IF c = call.until THEN call.text ELSE Append(call.text, c)
       IN  /\ call' = [call EXCEPT !.text = text]
           /\ end' = IF c = call.until THEN "stop"
                     ELSE IF Len(text) = call.length THEN "full" ELSE "no"

\* Where a match of pattern p that was at i is after byte c.
Advance(p, i, c) ==
    IF c = p[i + 1] THEN i + 1 ELSE IF c = p[1] THEN 1 ELSE 0

\* A NUL ends the search like silence; the target is looked at first.
FindByte ==
    /\ Waits("find")
    /\ Takes
    /\ LET c == Head(arrived)
           index == Advance(Target, call.index, c)
           term == IF call.terminator = <<>> THEN 0
                   ELSE Advance(call.terminator, call.termIndex, c)
       IN  IF c = "NUL" THEN end' = "stop" /\ UNCHANGED call
           ELSE IF index = Len(Target) THEN end' = "match" /\ UNCHANGED call
           ELSE /\ end' = IF call.terminator # <<>> /\ term = Len(call.terminator)
                          THEN "stop" ELSE "no"
                /\ call' = [call EXCEPT !.index = index, !.termIndex = term]

\* peekNextDigit(): what may start a number.
Starts(c) == c \in Digits \cup {"-"} \/ (call.decimal /\ c = ".")

\* What may go on with it: a sign inside an integer, one point in a fraction.
GoesOn(c) ==
    c \in Digits \/ (IF call.decimal THEN c = "." /\ ~call.point ELSE c = "-")

SkipByte ==
    /\ Waits("parse")
    /\ call.seeking /\ ~Starts(Head(arrived))
    /\ Takes
    /\ UNCHANGED <<call, end>>

NumberByte ==
    /\ Waits("parse")
    /\ IF call.seeking THEN Starts(Head(arrived)) ELSE GoesOn(Head(arrived))
    /\ Takes
    /\ LET c == Head(arrived)
           digit == IF c \in Digits THEN <<c>> ELSE <<>>
       IN  call' = [call EXCEPT !.seeking = FALSE,
                        !.negative = @ \/ c = "-",
                        !.point = @ \/ c = ".",
                        !.digits = IF call.point THEN @ ELSE @ \o digit,
                        !.fraction = IF call.point THEN @ \o digit ELSE @]
    /\ UNCHANGED end

\* The byte after the number stays.
NumberEnds ==
    /\ Waits("parse")
    /\ ~call.seeking /\ ~GoesOn(Head(arrived))
    /\ end' = "stop"
    /\ UNCHANGED <<arrived, sent, clock, start, call, step, got, quiet>>

\* The terminal, on a thread of its own.
Arrives(c) ==
    /\ sent < MaxBytes
    /\ sent' = sent + 1
    /\ arrived' = Append(arrived, c)
    /\ UNCHANGED <<clock, start, call, end, step, got, quiet>>

-----------------------------------------------------------------------------
Calls ==
    \/ \E length \in Lengths \cup {NoLimit}, until \in Others \cup {None} : read(length, until)
    \/ \E terminator \in {<<>>} \cup {<<c, c>> : c \in Others} : findUntil(terminator)
    \/ \E decimal \in BOOLEAN : parse(decimal)

Waiting == \/ \E d \in 0 .. MaxWait : Looks(d)
           \/ CheckTime
Taking == ReadByte \/ FindByte \/ SkipByte \/ NumberByte \/ NumberEnds

StreamNext == Calls \/ Waiting \/ Taking \/ \E c \in Bytes : Arrives(c)

StreamSpec == StreamInit /\ [][StreamNext]_streamVars

-----------------------------------------------------------------------------
Occurs(p, s) == \E i \in 0 .. Len(s) - Len(p) : SubSeq(s, i + 1, i + Len(p)) = p

\* The digits of s in their order.  A function and not SelectSeq, whose test is an
\* operator: the proofs need its value behind one more byte.
DigitsOf(s) ==
    LET f[n \in 0 .. Len(s)] ==
            IF n = 0 THEN <<>>
            ELSE IF s[n] \in Digits THEN Append(f[n - 1], s[n]) ELSE f[n - 1]
    IN  f[Len(s)]

ReadExact ==
    /\ got = IF end = "stop" THEN Append(call.text, call.until) ELSE call.text
    /\ \A i \in 1 .. Len(call.text) : call.text[i] # call.until
    /\ call.length = NoLimit \/ Len(call.text) <= call.length
    /\ end = "full" <=> Len(call.text) = call.length

FindExact ==
    /\ Occurs(Target, got) <=> end = "match"
    /\ got # <<>> => ~Occurs(Target, SubSeq(got, 1, Len(got) - 1))

\* The number is the longest one after the bytes that start none.
ParseExact ==
    /\ DigitsOf(got) = call.digits \o call.fraction
    /\ call.negative <=> \E i \in 1 .. Len(got) : got[i] = "-"
    /\ call.point => /\ call.decimal
                     /\ \E i \in 1 .. Len(got) : got[i] = "." /\
                            DigitsOf(SubSeq(got, 1, i)) = call.digits
    /\ end = "stop" => got # <<>> /\ ~GoesOn(Head(arrived))

\* Silence is a whole Timeout without a byte, whenever millis() wraps.
FullWait == end = "silence" => quiet = Timeout

\* A call returns what it promises: readBytes the bytes up to its length or the
\* terminator, find whether the target came, parseInt the whole number and not
\* the byte after it.  It gives up early only after a whole Timeout without a
\* byte, whenever millis() wraps (Stream.cpp:26-46).  For a target in which a
\* failed match can hide a later one, see FirstApart and the README.
ResultExact ==
    /\ FullWait
    /\ end \notin {"idle", "no"} =>
           CASE call.op = "read" -> ReadExact
             [] call.op = "find" -> FindExact
             [] call.op = "parse" -> ParseExact

\* A call ends, although the terminal sends nothing more: the poll it is made in
\* does not hang (Stream.cpp:33, 44; zcommand.ino:1775).
CallEnds == end = "no" ~> end # "no"
=============================================================================
