------------------------------ MODULE ByteFifo ------------------------------
(***************************************************************************)
(* What the two byte queues between the firmware and the embedding         *)
(* emulator promise their users: a bounded first-in first-out queue of     *)
(* bytes whose content can also be discarded from the front.  Ring is the  *)
(* lock-free ring buffer of src/ximodem.cpp that implements it.            *)
(***************************************************************************)
EXTENDS Naturals, Sequences

CONSTANTS
    Bytes,      \* the byte values that are told apart
    NoByte,     \* "nothing delivered yet"
    Capacity    \* bytes the queue holds at most

VARIABLES
    q,          \* the bytes accepted and not yet delivered or discarded
    got         \* the last byte delivered

vars == <<q, got>>

Init ==
    /\ q = <<>>
    /\ got = NoByte

Put(b) ==
    /\ Len(q) < Capacity
    /\ q' = Append(q, b)
    /\ UNCHANGED got

Get ==
    /\ q # <<>>
    /\ got' = Head(q)
    /\ q' = Tail(q)

(***************************************************************************)
(* The k oldest bytes are thrown away: the reset of the receive path may   *)
(* race with the producer, so what was put after the reset began stays.    *)
(***************************************************************************)
Discard(k) ==
    /\ q' = SubSeq(q, k + 1, Len(q))
    /\ UNCHANGED got

Next ==
    \/ \E b \in Bytes : Put(b)
    \/ Get
    \/ \E k \in 1..Len(q) : Discard(k)

Spec == Init /\ [][Next]_vars
=============================================================================
