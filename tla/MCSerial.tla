------------------------------ MODULE MCSerial ------------------------------
(***************************************************************************)
(* The metering of the serial link and the readers of the serial stream    *)
(* for TLC.  Neither reads what the other keeps, so a behaviour is one of  *)
(* the two at work; which one is chosen first.                             *)
(*                                                                         *)
(* A step of time at the slow rate is worth less than a byte in the longer *)
(* frame, at the fast rate more than the cap takes.  103 against 100 is a  *)
(* match, 300 against 100 is none.  The formats 28 and 62 are 8N1, of 10   *)
(* bits, and 8E2, of 12.                                                   *)
(***************************************************************************)
EXTENDS Pacing, Stream

VARIABLE part

serialVars == <<vars, streamVars, part>>

Worth(rate, bits) == (rate * Unit) \div (10 * bits)

\* What find() looks for.
adash == <<"a", "-">>

SerialInit ==
    /\ part \in {"pacing", "stream"}
    /\ Init
    /\ StreamInit
    /\ part # "pacing" => fwBaud = 100 /\ format = 28
    /\ part # "stream" => clock = 0

SerialNext ==
    \/ part = "pacing" /\ Next /\ UNCHANGED <<streamVars, part>>
    \/ part = "stream" /\ StreamNext /\ UNCHANGED <<vars, part>>

AtPace(A) == part = "pacing" /\ A
InCall(A) == part = "stream" /\ A

SerialSpec ==
    /\ SerialInit
    /\ [][SerialNext]_serialVars
    /\ WF_vars(AtPace(\E len \in 1 .. Supply : Write(len)))
    /\ WF_vars(AtPace(\E len \in 1 .. Supply : Read(len)))
    /\ WF_vars(AtPace(Prints)) /\ WF_vars(AtPace(Take)) /\ WF_vars(AtPace(Tick))
    /\ WF_streamVars(InCall(Taking \/ CheckTime))
    /\ SF_streamVars(InCall(\E d \in 1 .. MaxWait : Looks(d)))
=============================================================================
