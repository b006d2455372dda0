------------------------------ MODULE Instance ------------------------------
(***************************************************************************)
(* The life of an instance: ximodem_create, _poll, _destroy, the modem     *)
(* control lines and the callback that reports them (ximodem.cpp, and the  *)
(* pins of compat/core.cpp).                                               *)
(*                                                                         *)
(* The pins are globals of the firmware: they outlive an instance, while   *)
(* lastOut, what the embedder is believed to know, starts again with each. *)
(* setup() and loop() are the firmware: it writes any pin at any time, and *)
(* may throw.  S registers can give an output the pin of another line.     *)
(*                                                                         *)
(* The embedder keeps to the header: one thread makes all calls but        *)
(* set_signal and get_signal, which touch nothing but an atomic pin, and   *)
(* it drives input lines only.  The callback runs on that thread, inside   *)
(* the poll; it may drive lines, register another callback, or destroy the *)
(* instance.  Memory is not given to a new instance while an old handle to *)
(* it exists.                                                              *)
(***************************************************************************)
EXTENDS Naturals, FiniteSets

CONSTANT MaxInst    \* bound: the instances that are created

ASSUME MaxInstAssumption == MaxInst \in Nat

VARIABLES
    gInst,      \* g_inst
    made,       \* the instances created so far, which are numbered
    objs,       \* the instances' members and whether they are allocated
    pin,        \* g_pin: level of the pin of each line
    pc,         \* what the thread that makes the calls is in
    polled,     \* the instance ximodem_poll was called for
    written,    \* the output lines setup() has written
    told,       \* what the embedder knows of the output lines
    stray       \* accesses to a freed instance

instanceVars == <<gInst, made, objs, pin, pc, polled, written, told, stray>>

None == 0
Ids == 1 .. MaxInst

Outputs == {"DCD", "RI", "DSR", "CTS"}
Inputs == {"DTR", "RTS"}
Signals == Outputs \cup Inputs

Low == 0
High == 1

\* Lines are active low.
pin_to_sig(level) == level = Low
sig_to_pin(asserted) == IF asserted THEN Low ELSE High

get_signal(s) == pin_to_sig(pin[s])

Created == [memory |-> "allocated", inited |-> FALSE, faulted |-> FALSE,
            callback |-> FALSE, lastOut |-> [s \in Outputs |-> FALSE]]

Unborn == [Created EXCEPT !.memory = "none"]

InstanceInit ==
    /\ gInst = None
    /\ made = 0
    /\ objs = [i \in Ids |-> Unborn]
    /\ pin = [s \in Signals |-> High]
    /\ pc = "idle"
    /\ polled = None
    /\ written = {}
    /\ told = [s \in Outputs |-> FALSE]
    /\ stray = {}

-----------------------------------------------------------------------------
(* The pins.                                                               *)

\* digitalWrite, which ends in xi_pin_changed: an output line that changes is
\* remembered, and reported if somebody listens.
Changes(s, level) ==
    /\ gInst # None
    /\ s \in Outputs
    /\ pin_to_sig(level) # objs[gInst].lastOut[s]

\* Mutant: what was not reported is not remembered either.
RememberIfReported(s, level) ==
    IF Changes(s, level) /\ objs[gInst].callback
      THEN [objs EXCEPT ![gInst].lastOut[s] = pin_to_sig(level)]
      ELSE objs

Remember(s, level) ==
    IF Changes(s, level) THEN [objs EXCEPT ![gInst].lastOut[s] = pin_to_sig(level)]
                         ELSE objs

digitalWrite(s, level) ==
    /\ pin' = [pin EXCEPT ![s] = level]
    /\ objs' = Remember(s, level)
    /\ IF Changes(s, level) /\ objs[gInst].callback
         THEN /\ told' = [told EXCEPT ![s] = pin_to_sig(level)]
              /\ pc' = "callback"
         ELSE UNCHANGED <<told, pc>>

-----------------------------------------------------------------------------
(* Creation.  A second instance is refused: the call returns nothing and   *)
(* changes nothing.                                                        *)

Create ==
    /\ pc = "idle"
    /\ gInst = None
    /\ made < MaxInst
    /\ made' = made + 1
    /\ gInst' = made + 1
    /\ objs' = [objs EXCEPT ![made + 1] = Created]
    /\ pin' = [s \in Signals |-> IF s \in Inputs THEN sig_to_pin(TRUE) ELSE pin[s]]
    /\ pc' = "setup"
    /\ written' = {}
    /\ UNCHANGED <<polled, told, stray>>

\* setConfigDefaults writes the four outputs, the loaded configuration and
\* setup() itself write some again.
SetupWrite(s, level) ==
    /\ pc = "setup"
    /\ digitalWrite(s, level)
    /\ written' = written \cup {s}
    /\ UNCHANGED <<gInst, made, polled, stray>>

SetupEnds ==
    /\ pc = "setup"
    /\ written = Outputs
    /\ objs' = [objs EXCEPT ![gInst].inited = TRUE]
    /\ pc' = "idle"
    /\ UNCHANGED <<gInst, made, pin, polled, written, told, stray>>

\* delete: freeing twice is an access to freed memory.
Delete(i) ==
    /\ objs' = [objs EXCEPT ![i].memory = "freed"]
    /\ stray' = IF objs[i].memory = "freed" THEN stray \cup {"delete"} ELSE stray

SetupThrows ==
    /\ pc = "setup"
    /\ Delete(gInst)
    /\ gInst' = None
    /\ pc' = "idle"
    /\ UNCHANGED <<made, pin, polled, written, told>>

-----------------------------------------------------------------------------
(* The poll.  A call that fails its tests returns -1 and changes nothing.  *)

StartPoll(i) ==
    /\ pc = "idle"
    /\ i = gInst
    /\ objs[i].inited
    /\ ~objs[i].faulted
    /\ polled' = i
    /\ pc' = "loop"
    /\ UNCHANGED <<gInst, made, objs, pin, written, told, stray>>

LoopWrite(s, level) ==
    /\ pc = "loop"
    /\ digitalWrite(s, level)
    /\ UNCHANGED <<gInst, made, polled, written, stray>>

LoopReturns ==
    /\ pc = "loop"
    /\ pc' = "idle"
    /\ UNCHANGED <<gInst, made, objs, pin, polled, written, told, stray>>

LoopThrows ==
    /\ pc = "loop"
    /\ objs' = [objs EXCEPT ![polled].faulted = TRUE]
    /\ stray' = IF objs[polled].memory = "freed" THEN stray \cup {"latch"} ELSE stray
    /\ pc' = "idle"
    /\ UNCHANGED <<gInst, made, pin, polled, written, told>>

CallbackReturns ==
    /\ pc = "callback"
    /\ pc' = "loop"
    /\ UNCHANGED <<gInst, made, objs, pin, polled, written, told, stray>>

-----------------------------------------------------------------------------
(* Other calls of the embedder.                                            *)

\* Mutant: any handle is freed.
DestroyAny(i) ==
    /\ pc \in {"idle", "callback"}
    /\ Delete(i)
    /\ gInst' = None
    /\ UNCHANGED <<made, pin, pc, polled, written, told>>

\* A handle of an instance that is gone is recognised and left alone.
Destroy(i) ==
    /\ pc \in {"idle", "callback"}
    /\ i = gInst
    /\ Delete(i)
    /\ gInst' = None
    /\ UNCHANGED <<made, pin, pc, polled, written, told>>

\* ximodem_on_signal, by an embedder that asks for the levels at that time.
OnSignal(i, callback) ==
    /\ pc \in {"idle", "callback"}
    /\ i = gInst
    /\ objs[i].inited
    /\ objs' = [objs EXCEPT ![i].callback = callback]
    /\ told' = [s \in Outputs |-> get_signal(s)]
    /\ UNCHANGED <<gInst, made, pin, pc, polled, written, stray>>

\* On any thread, once there was a handle: the instance is not looked at.
SetSignal(s, asserted) ==
    /\ \E i \in Ids : objs[i].inited
    /\ pin' = [pin EXCEPT ![s] = sig_to_pin(asserted)]
    /\ UNCHANGED <<gInst, made, objs, pc, polled, written, told, stray>>

FirmwareWrites ==
    \/ \E s \in Signals, level \in {Low, High} : LoopWrite(s, level)
    \/ \E s \in Outputs, level \in {Low, High} : SetupWrite(s, level)
    \/ SetupEnds
    \/ SetupThrows
    \/ LoopReturns
    \/ LoopThrows

EmbedderCalls ==
    \/ Create
    \/ \E i \in 1 .. made : StartPoll(i) \/ Destroy(i)
    \/ \E i \in 1 .. made, b \in BOOLEAN : OnSignal(i, b)
    \/ \E s \in Inputs, b \in BOOLEAN : SetSignal(s, b)
    \/ CallbackReturns

InstanceNext == FirmwareWrites \/ EmbedderCalls

InstanceSpec == InstanceInit /\ [][InstanceNext]_instanceVars

-----------------------------------------------------------------------------
(* Properties.                                                             *)

\* Every variable has its type.
InstanceTypeOK ==
    /\ gInst \in 0 .. MaxInst
    /\ made \in 0 .. MaxInst
    /\ objs \in [Ids -> [memory : {"none", "allocated", "freed"},
                         inited : BOOLEAN, faulted : BOOLEAN,
                         callback : BOOLEAN, lastOut : [Outputs -> BOOLEAN]]]
    /\ pin \in [Signals -> {Low, High}]
    /\ pc \in {"idle", "setup", "loop", "callback"}
    /\ polled \in 0 .. MaxInst
    /\ written \subseteq Outputs
    /\ told \in [Outputs -> BOOLEAN]
    /\ stray \subseteq {"delete", "latch"}

\* The callback is told of every change (ximodem.h:116): an embedder that asks
\* for the levels when it registers and listens from then on knows the level of
\* every output, whatever an earlier instance left on the pins.
SignalsTold ==
    gInst # None /\ objs[gInst].callback =>
        \A s \in Outputs : told[s] = get_signal(s)

\* Once faulted the instance is inert (ximodem.cpp:148): until it is destroyed
\* no output line moves and the firmware is not entered.
FaultInert ==
    [][gInst # None /\ objs[gInst].faulted /\ gInst' = gInst
          => /\ \A s \in Outputs : pin'[s] = pin[s]
             /\ pc' # "loop"]_instanceVars

\* The instance g_inst points to is allocated and no other is, and nothing is
\* freed twice: by a destroy of a handle that is gone, by a setup() that threw, or
\* by a callback that destroys the instance whose poll it runs in.  Not excluded is
\* what that poll does then: if loop() throws, it stores the fault latch in the
\* instance it no longer has ("latch", ximodem.cpp:416).
NoDangling ==
    /\ \A i \in Ids : objs[i].memory = "allocated" <=> i = gInst
    /\ "delete" \notin stray
=============================================================================
