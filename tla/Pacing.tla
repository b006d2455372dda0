------------------------------- MODULE Pacing -------------------------------
(***************************************************************************)
(* The metering of the DTE link (ximodem.cpp): no byte passes unless the   *)
(* two bit rates agree, and then no more than the line rate pays for.      *)
(*                                                                         *)
(* Each direction has a credit, in fractions of a byte, that reads and     *)
(* writes use up.  Any call that asks for either credit first adds to both *)
(* what the time since the last such call is worth at the present rate.    *)
(* The calls come from one thread (ximodem.h:31), so each is one step.     *)
(*                                                                         *)
(* A credit is counted in units, Unit of them to a byte; a step of time is *)
(* worth UnitsPerTick(line rate, bits of a frame).  The rings count bytes. *)
(***************************************************************************)
EXTENDS Integers

CONSTANTS
    DteBauds,           \* the rates the X16 card is programmed to
    FwBauds,            \* the rates of the firmware's UART
    Formats,            \* the frame formats the firmware sets
    Word,               \* 2^32: products in xi_baud_match are taken modulo it
    Unit,               \* units of credit in a byte
    UnitsPerTick(_, _), \* the worth of a step of time
    Cap,                \* XI_CREDIT_CAP, in bytes
    RingCap,            \* bytes a ring holds
    Hold,               \* XI_PRECONFIG_HOLD
    Supply,             \* bound: bytes each side has to send
    MaxIdle             \* bound: steps of time between two refills

ASSUME RatesAssumption ==
    /\ DteBauds \subseteq Nat \ {0} /\ FwBauds \subseteq Nat \ {0}
    /\ \A rate \in DteBauds \cup FwBauds, bits \in 7 .. 12 : UnitsPerTick(rate, bits) \in Nat
    /\ Formats \subseteq Nat
ASSUME SizesAssumption ==
    /\ {Unit, Word} \subseteq Nat \ {0}
    /\ {Cap, RingCap, Hold, Supply, MaxIdle} \subseteq Nat
    /\ Hold <= RingCap

VARIABLES
    dteBaud, fwBaud, format, rateLimited,   \* members of the same names
    credit,     \* txCredit and rxCredit, in units
    idle,       \* steps of time since lastCredit
    ring,       \* bytes in toModem ("tx") and in toDTE ("rx")
    supply,     \* bytes each sender has left
    debt        \* ghost: a bucket that bytes fill and time at the line rate empties

vars == <<dteBaud, fwBaud, format, rateLimited, credit, idle, ring, supply, debt>>
line == <<dteBaud, fwBaud, format, rateLimited>>

Directions == {"tx", "rx"}      \* X16 to modem, modem to X16

-----------------------------------------------------------------------------
Lesser(a, b) == IF a < b THEN a ELSE b
Greater(a, b) == IF a < b THEN b ELSE a

\* Rates within 3 per cent; the products are unsigned words.
xi_baud_match(d, f) ==
    /\ d # 0 /\ f # 0
    /\ ((Greater(d, f) - Lesser(d, f)) * 100) % Word <= (Greater(d, f) * 3) % Word

Match == xi_baud_match(dteBaud, fwBaud)

\* Start, data, parity and stop bits of the format word.
xi_frame_bits(fmt) ==
    LET data == 5 + ((fmt \div 4) % 4)
        stop == IF (fmt \div 16) % 4 >= 2 THEN 2 ELSE 1
        par == IF fmt % 4 = 0 THEN 0 ELSE 1
        bits == 1 + data + par + stop
    IN IF bits < 7 THEN 10 ELSE bits

\* The rate that pays: the slower one, or the one that is known.
LineRate(d, f) == IF d # 0 /\ f # 0 THEN Lesser(d, f) ELSE Greater(d, f)

PerTick(d, f, fmt) == IF LineRate(d, f) = 0 THEN 0
                      ELSE UnitsPerTick(LineRate(d, f), xi_frame_bits(fmt))

\* Mutant: only whole bytes are kept of what a refill adds.
RefilledWhole(dir) ==
    Lesser(((credit[dir] + idle * PerTick(dteBaud, fwBaud, format)) \div Unit) * Unit,
           Cap * Unit)

\* Mutant: the credits are not capped.
RefilledUncapped(dir) == credit[dir] + idle * PerTick(dteBaud, fwBaud, format)

\* xi_pace_refill, for one direction: both are refilled together.
Refilled(dir) ==
    Lesser(credit[dir] + idle * PerTick(dteBaud, fwBaud, format), Cap * Unit)

\* xi_tx_budget and xi_rx_budget: whole bytes of the refilled credit.
Budget(dir, want) ==
    IF rateLimited THEN Lesser(want, Refilled(dir) \div Unit) ELSE want

\* The effect of a call that asked for a budget and passed n bytes.
Metered(dir, n) ==
    IF rateLimited
      THEN /\ credit' = [c \in Directions |->
                            IF c = dir THEN Refilled(c) - n * Unit ELSE Refilled(c)]
           /\ idle' = 0
           /\ debt' = [debt EXCEPT ![dir] = @ + n * Unit]
      ELSE UNCHANGED <<credit, idle, debt>>

Init ==
    /\ dteBaud = 0
    /\ fwBaud \in FwBauds
    /\ format \in Formats
    /\ rateLimited = TRUE
    /\ credit = [dir \in Directions |-> 0]
    /\ idle = 0
    /\ ring = [dir \in Directions |-> 0]
    /\ supply = [dir \in Directions |-> Supply]
    /\ debt = [dir \in Directions |-> 0]

-----------------------------------------------------------------------------
(* The embedder.                                                           *)

\* ximodem_write of len bytes.  On a dark link they are taken and dropped.
Write(len) ==
    /\ len <= supply["tx"]
    /\ IF Match
         THEN LET n == Lesser(Budget("tx", len), RingCap - ring["tx"])
              IN /\ Metered("tx", n)
                 /\ ring' = [ring EXCEPT !["tx"] = @ + n]
                 /\ supply' = [supply EXCEPT !["tx"] = @ - n]
         ELSE /\ supply' = [supply EXCEPT !["tx"] = @ - len]
              /\ UNCHANGED <<credit, idle, debt, ring>>
    /\ UNCHANGED line

\* ximodem_read of up to len bytes.
Read(len) ==
    /\ Match
    /\ LET n == Lesser(Budget("rx", len), ring["rx"])
       IN /\ Metered("rx", n)
          /\ ring' = [ring EXCEPT !["rx"] = @ - n]
    /\ UNCHANGED <<line, supply>>

\* ximodem_read_available needs a link, ximodem_write_space does not.
Ask ==
    /\ Metered("rx", 0)
    /\ UNCHANGED <<line, ring, supply>>

\* ximodem_set_baud.  A cleared divisor empties the queue for the DTE.
set_baud(baud) ==
    /\ dteBaud' = baud
    /\ ring' = IF baud = 0 /\ dteBaud # 0 THEN [ring EXCEPT !["rx"] = 0] ELSE ring
    /\ debt' = [dir \in Directions |-> 0]
    /\ UNCHANGED <<fwBaud, format, rateLimited, credit, idle, supply>>

set_rate_limit(enabled) ==
    /\ rateLimited' = enabled
    /\ debt' = [dir \in Directions |-> 0]
    /\ UNCHANGED <<dteBaud, fwBaud, format, credit, idle, ring, supply>>

-----------------------------------------------------------------------------
(* The firmware.                                                           *)

\* xi_dte_set_baud and xi_dte_set_format.
SetLine(baud, fmt) ==
    /\ fwBaud' = baud
    /\ format' = fmt
    /\ debt' = [dir \in Directions |-> 0]
    /\ UNCHANGED <<dteBaud, rateLimited, credit, idle, ring, supply>>

\* A byte through xi_dte_write: queued if there is room, dropped by a dark link
\* with a full hold.  (A link that is up waits for room, see DteLink.)
Prints ==
    /\ supply["rx"] > 0
    /\ Match => ring["rx"] < RingCap
    /\ ring' = IF Match \/ ring["rx"] < Hold THEN [ring EXCEPT !["rx"] = @ + 1] ELSE ring
    /\ supply' = [supply EXCEPT !["rx"] = @ - 1]
    /\ UNCHANGED <<line, credit, idle, debt>>

\* xi_dte_read.
Take ==
    /\ Match
    /\ ring["tx"] > 0
    /\ ring' = [ring EXCEPT !["tx"] = @ - 1]
    /\ UNCHANGED <<line, credit, idle, supply, debt>>

Tick ==
    /\ idle < MaxIdle
    /\ idle' = idle + 1
    /\ debt' = [dir \in Directions |->
                  Greater(0, debt[dir] - PerTick(dteBaud, fwBaud, format))]
    /\ UNCHANGED <<line, credit, ring, supply>>

Next ==
    \/ \E len \in 1 .. Supply : Write(len) \/ Read(len)
    \/ Ask
    \/ \E baud \in DteBauds \cup {0} : set_baud(baud)
    \/ \E enabled \in BOOLEAN : set_rate_limit(enabled)
    \/ \E baud \in FwBauds, fmt \in Formats : SetLine(baud, fmt)
    \/ Prints
    \/ Take
    \/ Tick

Spec == Init /\ [][Next]_vars

\* Both sides go on calling and time goes on.
Polled == /\ WF_vars(\E len \in 1 .. Supply : Write(len))
          /\ WF_vars(\E len \in 1 .. Supply : Read(len))
          /\ WF_vars(Prints) /\ WF_vars(Take) /\ WF_vars(Tick)

FairSpec == Spec /\ Polled

-----------------------------------------------------------------------------
(* Properties.                                                             *)

\* Every variable has its type; a credit is never negative or above the cap.
TypeOK ==
    /\ dteBaud \in DteBauds \cup {0}
    /\ fwBaud \in FwBauds
    /\ format \in Formats
    /\ rateLimited \in BOOLEAN
    /\ credit \in [Directions -> 0 .. Cap * Unit]
    /\ idle \in Nat
    /\ ring \in [Directions -> 0 .. RingCap]
    /\ supply \in [Directions -> 0 .. Supply]
    /\ debt \in [Directions -> Nat]

\* The throughput is metered to the line rate (ximodem.h:88), the cap being the
\* only burst: in any stretch of time in which the settings of the line do not
\* change, no more bytes pass in a direction than the rate pays for and Cap.
RateKept == \A dir \in Directions : debt[dir] <= Cap * Unit

\* A link that is up stays useful however the calls and the time interleave: all
\* bytes get through in both directions, fractions of a byte being kept.
LineServed ==
    (<>[]Match) => <>(supply = [dir \in Directions |-> 0] /\ ring = supply)
=============================================================================
