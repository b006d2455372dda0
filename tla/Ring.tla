-------------------------------- MODULE Ring --------------------------------
(***************************************************************************)
(* The lock-free byte ring of src/ximodem.cpp (struct Ring).  ximodem_s    *)
(* holds two of them: toModem, filled by ximodem_write on the embedder's   *)
(* thread and emptied by the firmware, and toDTE, filled by the firmware   *)
(* and emptied by ximodem_read.  Each has one producer thread and one      *)
(* consumer thread.  The indices are sequentially consistent atomics, the  *)
(* bytes are plain memory, so every atomic access and every access to a    *)
(* byte is a step of its own.  An index is loaded and stored by its owner  *)
(* only, so the owner's load is merged with the step that uses it.         *)
(*                                                                         *)
(* reset() stores the head it loaded into the consumer's index; it is      *)
(* called (from ximodem_set_baud) while no pop is under way, but pushes    *)
(* can happen between its load and its store.                              *)
(***************************************************************************)
EXTENDS Integers, Sequences

CONSTANTS
    N,          \* slots of the ring: 1 << 16 in the code
    Bytes,      \* the byte values that are told apart
    NoValue     \* a slot or a local variable nothing was written to

ASSUME NAssumption == N \in Nat /\ N > 1
ASSUME NoValueAssumption == NoValue \notin Bytes

VARIABLES
    buf,        \* the slots
    head,       \* next slot the producer fills
    tail,       \* next slot the consumer empties
    ppc,        \* where the producer is in push()
    pbyte,      \* the byte push() is adding
    cpc,        \* where the consumer is in pop(), peek() or reset()
    cbyte,      \* the byte pop() has copied but not yet released
    chead,      \* the head reset() has loaded
    given       \* the last byte pop() delivered

ringVars == <<buf, head, tail, ppc, pbyte, cpc, cbyte, chead, given>>

Slots == 0 .. N - 1

\* i & (N - 1), for the values the code applies the mask to.
Wrap(i) == IF i < 0 THEN i + N ELSE IF i >= N THEN i - N ELSE i

Size  == Wrap(head - tail)
Space == N - 1 - Size

RingInit ==
    /\ buf = [s \in Slots |-> NoValue]
    /\ head = 0 /\ tail = 0
    /\ ppc = "idle" /\ pbyte = NoValue
    /\ cpc = "idle" /\ cbyte = NoValue /\ chead = 0
    /\ given = NoValue

-----------------------------------------------------------------------------
(* The producer: one turn of the loop of push().                           *)

\* Mutant: push() does not look at space().
PushCheckNoSpace(b) ==
    /\ ppc = "idle"
    /\ ppc' = "write" /\ pbyte' = b
    /\ UNCHANGED <<buf, head, tail, cpc, cbyte, chead, given>>

PushCheck(b) ==
    /\ ppc = "idle" /\ Space > 0
    /\ ppc' = "write" /\ pbyte' = b
    /\ UNCHANGED <<buf, head, tail, cpc, cbyte, chead, given>>

PushWrite ==
    /\ ppc = "write"
    /\ buf' = [buf EXCEPT ![head] = pbyte]
    /\ ppc' = "publish"
    /\ UNCHANGED <<head, tail, pbyte, cpc, cbyte, chead, given>>

PushPublish ==
    /\ ppc = "publish"
    /\ head' = Wrap(head + 1)
    /\ ppc' = "idle" /\ pbyte' = NoValue
    /\ UNCHANGED <<buf, tail, cpc, cbyte, chead, given>>

-----------------------------------------------------------------------------
(* The consumer: one turn of the loop of pop(), peek(), reset().           *)

PopCheck ==
    /\ cpc = "idle" /\ Size > 0
    /\ cpc' = "read"
    /\ UNCHANGED <<buf, head, tail, ppc, pbyte, cbyte, chead, given>>

PopRead ==
    /\ cpc = "read"
    /\ cbyte' = buf[tail]
    /\ cpc' = "advance"
    /\ UNCHANGED <<buf, head, tail, ppc, pbyte, chead, given>>

PopAdvance ==
    /\ cpc = "advance"
    /\ tail' = Wrap(tail + 1)
    /\ given' = cbyte
    /\ cpc' = "idle" /\ cbyte' = NoValue
    /\ UNCHANGED <<buf, head, ppc, pbyte, chead>>

PeekCheck ==
    /\ cpc = "idle" /\ Size > 0
    /\ cpc' = "peek"
    /\ UNCHANGED <<buf, head, tail, ppc, pbyte, cbyte, chead, given>>

\* What peek() returns is not kept: the caller looks and leaves.
PeekRead ==
    /\ cpc = "peek"
    /\ cpc' = "idle"
    /\ UNCHANGED <<buf, head, tail, ppc, pbyte, cbyte, chead, given>>

ResetLoad ==
    /\ cpc = "idle"
    /\ chead' = head
    /\ cpc' = "reset"
    /\ UNCHANGED <<buf, head, tail, ppc, pbyte, cbyte, given>>

\* Mutant: reset() rewinds the index to the first slot.
ResetStoreRewind ==
    /\ cpc = "reset"
    /\ tail' = 0
    /\ cpc' = "idle"
    /\ UNCHANGED <<buf, head, ppc, pbyte, cbyte, chead, given>>

ResetStore ==
    /\ cpc = "reset"
    /\ tail' = chead
    /\ cpc' = "idle"
    /\ UNCHANGED <<buf, head, ppc, pbyte, cbyte, chead, given>>

Produce == (\E b \in Bytes : PushCheck(b)) \/ PushWrite \/ PushPublish
Consume == PopCheck \/ PopRead \/ PopAdvance \/ PeekCheck \/ PeekRead
Reset   == ResetLoad \/ ResetStore

RingNext == Produce \/ Consume \/ Reset

RingSpec == RingInit /\ [][RingNext]_ringVars

-----------------------------------------------------------------------------
(* Properties                                                              *)

RingTypeOK ==
    /\ buf \in [Slots -> Bytes \cup {NoValue}]
    /\ head \in Slots /\ tail \in Slots /\ chead \in Slots
    /\ ppc \in {"idle", "write", "publish"}
    /\ pbyte \in Bytes \cup {NoValue}
    /\ ppc # "idle" => pbyte \in Bytes
    /\ cpc \in {"idle", "read", "advance", "peek", "reset"}
    /\ cbyte \in Bytes \cup {NoValue}
    /\ given \in Bytes \cup {NoValue}

(***************************************************************************)
(* push() fills buf[h] and pop() or peek() reads buf[t] with no lock       *)
(* between them: the producer never writes the slot a consumer that has    *)
(* passed its size() check reads.                                          *)
(***************************************************************************)
NoSlotRace == ~(ppc = "write" /\ cpc \in {"read", "peek"} /\ head = tail)

(***************************************************************************)
(* The bytes between tail and head are the queue, oldest first.            *)
(***************************************************************************)
Content == [i \in 1 .. Size |-> buf[Wrap(tail + (i - 1))]]

Fifo == INSTANCE ByteFifo
            WITH NoByte <- NoValue, Capacity <- N - 1,
                 q <- Content, got <- given

(***************************************************************************)
(* The ring implements a FIFO queue of N - 1 bytes: whatever the           *)
(* interleaving of the two threads, every byte pop() delivers is the       *)
(* oldest byte pushed and neither delivered nor reset away, and a reset    *)
(* discards the oldest bytes only.                                         *)
(***************************************************************************)
ImplementsFifo == Fifo!Spec

-----------------------------------------------------------------------------
(* The inductive invariant RingProofs uses.                                *)

Dist(s) == Wrap(s - tail)

(***************************************************************************)
(* The space() > 0 that let the producer in stays true until it publishes, *)
(* and the byte it wrote stays in its slot.                                *)
(***************************************************************************)
ProducerOK ==
    /\ ppc \in {"write", "publish"} => Space > 0
    /\ ppc = "publish" => buf[head] = pbyte

(***************************************************************************)
(* The size() > 0 that let the consumer in stays true until it advances,   *)
(* the byte it copied is the oldest one, and the head reset() loaded is    *)
(* not behind the tail or beyond the present head.                         *)
(***************************************************************************)
ConsumerOK ==
    /\ cpc \in {"read", "advance", "peek"} => Size > 0
    /\ cpc = "advance" => cbyte = buf[tail]
    /\ cpc = "reset" => Dist(chead) <= Size

(***************************************************************************)
(* Every slot between tail and head holds a byte.                          *)
(***************************************************************************)
FilledOK == \A s \in Slots : Dist(s) < Size => buf[s] \in Bytes

RingIInv == RingTypeOK /\ ProducerOK /\ ConsumerOK /\ FilledOK
=============================================================================
