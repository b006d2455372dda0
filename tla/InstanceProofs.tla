--------------------------- MODULE InstanceProofs ---------------------------
(***************************************************************************)
(* What is proved of Instance, for any number of instances: the callback   *)
(* tells every change, a faulted instance is inert, no instance is lost or *)
(* freed twice.                                                            *)
(*                                                                         *)
(* SignalsTold compares what the embedder was told with the pins.  Between *)
(* the two is lastOut: the embedder knows lastOut (ToldOK), and lastOut is *)
(* what is on the pins (LastOutOK) - at once for the lines setup() has     *)
(* written, and for all of them when it ends.                              *)
(***************************************************************************)
EXTENDS Instance, TLAPS

\* The instances: which are allocated, and what phase the calls are in.
PhaseOK ==
    /\ NoDangling
    /\ gInst <= made
    /\ \A i \in Ids : i > made => objs[i] = Unborn
    /\ pc = "setup" => gInst # None /\ ~objs[gInst].inited
    /\ pc \in {"loop", "callback"} => polled \in 1 .. made /\ gInst \in {None, polled}

\* The flags of the instance in use.
FlagsOK ==
    gInst # None =>
        /\ pc # "setup" => objs[gInst].inited
        /\ pc = "setup" => ~objs[gInst].callback
        /\ pc # "idle" => ~objs[gInst].faulted

\* What is remembered of an output line is what is on its pin.
LastOutOK ==
    gInst # None =>
        \A s \in Outputs : (pc = "setup" => s \in written)
                               => objs[gInst].lastOut[s] = get_signal(s)

\* Who listens knows what is remembered.
ToldOK ==
    gInst # None /\ objs[gInst].callback =>
        \A s \in Outputs : told[s] = objs[gInst].lastOut[s]

IInv == InstanceTypeOK /\ PhaseOK /\ FlagsOK /\ LastOutOK /\ ToldOK

-----------------------------------------------------------------------------
\* What an instance keeps.
Members == [memory : {"none", "allocated", "freed"}, inited : BOOLEAN,
            faulted : BOOLEAN, callback : BOOLEAN, lastOut : [Outputs -> BOOLEAN]]

(***************************************************************************)
(* A member of an instance is set to a value of its type.                  *)
(***************************************************************************)
LEMMA MemberSet ==
  ASSUME NEW o \in Members
  PROVE  /\ [o EXCEPT !.memory = "freed"] \in Members
         /\ \A b \in BOOLEAN : /\ [o EXCEPT !.inited = b] \in Members
                             /\ [o EXCEPT !.faulted = b] \in Members
                             /\ [o EXCEPT !.callback = b] \in Members
         /\ \A f \in [Outputs -> BOOLEAN] : [o EXCEPT !.lastOut = f] \in Members
<1> DEFINE Lines == [Outputs -> BOOLEAN]
<1>1. o \in [memory : {"none", "allocated", "freed"}, inited : BOOLEAN,
             faulted : BOOLEAN, callback : BOOLEAN, lastOut : Lines]
  BY DEF Members
<1> HIDE DEF Lines
<1>2. [o EXCEPT !.memory = "freed"]
          \in [memory : {"none", "allocated", "freed"}, inited : BOOLEAN,
              faulted : BOOLEAN, callback : BOOLEAN, lastOut : Lines]
  BY <1>1
<1>3. ASSUME NEW b \in BOOLEAN
      PROVE  /\ [o EXCEPT !.inited = b]
                   \in [memory : {"none", "allocated", "freed"}, inited : BOOLEAN,
                       faulted : BOOLEAN, callback : BOOLEAN, lastOut : Lines]
             /\ [o EXCEPT !.faulted = b]
                   \in [memory : {"none", "allocated", "freed"}, inited : BOOLEAN,
                       faulted : BOOLEAN, callback : BOOLEAN, lastOut : Lines]
             /\ [o EXCEPT !.callback = b]
                   \in [memory : {"none", "allocated", "freed"}, inited : BOOLEAN,
                       faulted : BOOLEAN, callback : BOOLEAN, lastOut : Lines]
  BY <1>1
<1>4. ASSUME NEW f \in Lines
      PROVE  [o EXCEPT !.lastOut = f]
                \in [memory : {"none", "allocated", "freed"}, inited : BOOLEAN,
                    faulted : BOOLEAN, callback : BOOLEAN, lastOut : Lines]
  BY <1>1
<1> QED
  BY <1>2, <1>3, <1>4 DEF Members, Lines

(***************************************************************************)
(* An instance is replaced by an instance, and the others stay.            *)
(***************************************************************************)
LEMMA ObjectSet ==
  ASSUME NEW f \in [Ids -> Members], NEW i \in Ids, NEW o \in Members
  PROVE  /\ [f EXCEPT ![i] = o] \in [Ids -> Members]
         /\ [f EXCEPT ![i] = o][i] = o
         /\ \A j \in Ids : j # i => [f EXCEPT ![i] = o][j] = f[j]
OBVIOUS

(***************************************************************************)
(* Nothing is on record before the first create.                           *)
(***************************************************************************)
LEMMA InitInv == InstanceInit => IInv
<1>1. /\ Unborn \in [memory : {"none", "allocated", "freed"}, inited : BOOLEAN,
                    faulted : BOOLEAN, callback : BOOLEAN, lastOut : [Outputs -> BOOLEAN]]
      /\ Unborn.memory = "none"
  BY DEF Unborn, Created
<1>2. InstanceInit => InstanceTypeOK
  BY <1>1, MaxInstAssumption DEF InstanceInit, InstanceTypeOK, None
<1> QED
  BY <1>1, <1>2, MaxInstAssumption
     DEF InstanceInit, IInv, PhaseOK, FlagsOK, LastOutOK, ToldOK, NoDangling, None, Ids

(***************************************************************************)
(* digitalWrite on a live instance keeps lastOut equal to the pin written  *)
(* and leaves the other lines and members alone.                           *)
(***************************************************************************)
LEMMA WriteRemembers ==
  ASSUME InstanceTypeOK, NEW s \in Signals, NEW level \in {Low, High}, digitalWrite(s, level)
  PROVE  /\ pin' \in [Signals -> {Low, High}]
         /\ objs' \in [Ids -> Members]
         /\ told' \in [Outputs -> BOOLEAN]
         /\ pc' \in {pc, "callback"}
         /\ \A i \in Ids : /\ objs'[i].memory = objs[i].memory
                           /\ objs'[i].inited = objs[i].inited
                           /\ objs'[i].faulted = objs[i].faulted
                           /\ objs'[i].callback = objs[i].callback
                           /\ i # gInst => objs'[i] = objs[i]
         /\ \A t \in Signals : t # s => pin'[t] = pin[t]
         /\ gInst # None =>
              /\ s \in Outputs => objs'[gInst].lastOut[s] = pin_to_sig(pin'[s])
              /\ \A t \in Outputs : t # s => objs'[gInst].lastOut[t] = objs[gInst].lastOut[t]
              /\ objs[gInst].callback /\ ToldOK =>
                   \A t \in Outputs : told'[t] = objs'[gInst].lastOut[t]
              /\ pc' # pc => objs[gInst].callback
         /\ gInst = None => objs' = objs /\ told' = told /\ pc' = pc
<1>1. gInst # None => gInst \in Ids
  BY MaxInstAssumption DEF InstanceTypeOK, None, Ids
<1>2. pin_to_sig(level) \in BOOLEAN
  BY DEF pin_to_sig
<1>3. pin' = [pin EXCEPT ![s] = level] /\ objs' = Remember(s, level)
  BY DEF digitalWrite
<1>4. /\ pin' \in [Signals -> {Low, High}]
      /\ pin'[s] = level
      /\ \A t \in Signals : t # s => pin'[t] = pin[t]
  BY <1>3 DEF InstanceTypeOK
<1>5. objs \in [Ids -> Members] /\ told \in [Outputs -> BOOLEAN]
  BY DEF InstanceTypeOK, Members
<1>6. CASE Changes(s, level)
  <2> DEFINE old == objs[gInst]
             lines == [old.lastOut EXCEPT ![s] = pin_to_sig(level)]
             new == [old EXCEPT !.lastOut = lines]
  <2>1. gInst # None /\ gInst \in Ids /\ s \in Outputs
    BY <1>6, <1>1 DEF Changes
  <2>2. old \in Members /\ old.lastOut \in [Outputs -> BOOLEAN]
    BY <1>5, <2>1 DEF Members
  <2>3. /\ lines \in [Outputs -> BOOLEAN]
        /\ lines[s] = pin_to_sig(level)
        /\ \A t \in Outputs : t # s => lines[t] = old.lastOut[t]
    BY <1>2, <2>1, <2>2
  <2>4. objs' = [objs EXCEPT ![gInst] = new]
    BY <1>3, <1>6 DEF Remember
  <2> HIDE DEF lines
  <2>5. new \in Members
    BY <2>2, <2>3, MemberSet
  <2>6. /\ new.memory = old.memory /\ new.inited = old.inited
        /\ new.faulted = old.faulted /\ new.callback = old.callback
        /\ new.lastOut = lines
    BY <2>2 DEF Members
  <2> HIDE DEF new
  <2>7. /\ objs' \in [Ids -> Members]
        /\ objs'[gInst] = new
        /\ \A i \in Ids : i # gInst => objs'[i] = objs[i]
    BY <1>5, <2>1, <2>4, <2>5, ObjectSet
  <2>8. /\ told' \in [Outputs -> BOOLEAN]
        /\ pc' \in {pc, "callback"}
        /\ pc' # pc => old.callback
    BY <1>2, <1>5, <2>1 DEF digitalWrite
  <2>9. old.callback /\ ToldOK => \A t \in Outputs : told'[t] = lines[t]
    <3> SUFFICES ASSUME old.callback, ToldOK PROVE \A t \in Outputs : told'[t] = lines[t]
      OBVIOUS
    <3>1. told' = [told EXCEPT ![s] = pin_to_sig(level)]
      BY <1>6 DEF digitalWrite
    <3>2. \A t \in Outputs : told[t] = old.lastOut[t]
      BY <2>1 DEF ToldOK
    <3> QED
      BY <1>5, <2>1, <2>3, <3>1, <3>2
  <2> QED
    BY <1>4, <2>1, <2>3, <2>6, <2>7, <2>8, <2>9
<1>7. CASE ~Changes(s, level)
  <2>1. objs' = objs /\ told' = told /\ pc' = pc
    BY <1>3, <1>7 DEF Remember, digitalWrite
  <2>2. gInst # None /\ s \in Outputs => objs[gInst].lastOut[s] = pin_to_sig(level)
    BY <1>7 DEF Changes
  <2>3. gInst # None /\ objs[gInst].callback /\ ToldOK =>
            \A t \in Outputs : told[t] = objs[gInst].lastOut[t]
    BY DEF ToldOK
  <2> QED
    BY <1>4, <1>5, <2>1, <2>2, <2>3
<1> QED
  BY <1>6, <1>7

(***************************************************************************)
(* Freeing the instance in use, once, keeps the invariant.                 *)
(***************************************************************************)
LEMMA DeleteInv ==
  ASSUME IInv, gInst \in Ids, Delete(gInst), gInst' = None,
         pc' \in {"idle", "callback"}, pc' = "callback" => pc = "callback",
         UNCHANGED <<made, pin, polled, written, told>>
  PROVE  IInv'
<1> DEFINE new == [objs[gInst] EXCEPT !.memory = "freed"]
<1>1. objs \in [Ids -> Members] /\ gInst # None
  BY DEF IInv, InstanceTypeOK, Members, Ids, None
<1>2. objs[gInst] \in Members
  BY <1>1
<1>3. new \in Members /\ new.memory = "freed"
  BY <1>2, MemberSet DEF Members
<1>4. objs' = [objs EXCEPT ![gInst] = new] /\ stray' \in {stray, stray \cup {"delete"}}
  BY DEF Delete
<1>5. objs[gInst].memory = "allocated" => stray' = stray
  BY DEF Delete
<1> HIDE DEF new
<1>6. /\ objs' \in [Ids -> Members]
      /\ objs'[gInst] = new
      /\ \A i \in Ids : i # gInst => objs'[i] = objs[i]
  BY <1>1, <1>3, <1>4, ObjectSet
<1>7. InstanceTypeOK'
  BY <1>4, <1>6, MaxInstAssumption DEF IInv, InstanceTypeOK, Members, None
<1>8. PhaseOK'
  BY <1>1, <1>3, <1>5, <1>6, MaxInstAssumption
     DEF IInv, InstanceTypeOK, PhaseOK, NoDangling, Ids, None
<1>9. FlagsOK' /\ LastOutOK' /\ ToldOK'
  BY DEF FlagsOK, LastOutOK, ToldOK
<1> QED
  BY <1>7, <1>8, <1>9 DEF IInv

(***************************************************************************)
(* Every step of the firmware and of the embedder preserves the invariant. *)
(***************************************************************************)
LEMMA NextInv == IInv /\ [InstanceNext]_instanceVars => IInv'
<1> SUFFICES ASSUME IInv, [InstanceNext]_instanceVars PROVE IInv'
  OBVIOUS
<1> USE MaxInstAssumption
<1>0. /\ InstanceTypeOK /\ objs \in [Ids -> Members]
      /\ gInst # None => gInst \in Ids
  BY DEF IInv, InstanceTypeOK, None, Ids, Members
<1>1. ASSUME NEW s \in Signals, NEW level \in {Low, High}, LoopWrite(s, level)
      PROVE  IInv'
  <2>1. digitalWrite(s, level) /\ pc = "loop"
    BY <1>1 DEF LoopWrite
  <2>2. UNCHANGED <<gInst, made, polled, written, stray>>
    BY <1>1 DEF LoopWrite
  <2> USE DEF IInv
  <2>3. InstanceTypeOK'
    BY <1>0, <2>1, <2>2, WriteRemembers DEF InstanceTypeOK, Members
  <2>4. PhaseOK'
    BY <1>0, <2>1, <2>2, WriteRemembers DEF PhaseOK, NoDangling, InstanceTypeOK, Ids, None
  <2>5. FlagsOK'
    BY <1>0, <2>1, <2>2, WriteRemembers DEF FlagsOK
  <2>6. LastOutOK'
    <3>1. \A t \in Outputs : t \in Signals
      BY DEF Signals
    <3> QED
      BY <1>0, <2>1, <2>2, <3>1, WriteRemembers DEF LastOutOK, get_signal
  <2>7. ToldOK'
    BY <1>0, <2>1, <2>2, WriteRemembers DEF ToldOK
  <2> QED
    BY <2>3, <2>4, <2>5, <2>6, <2>7
<1>2. ASSUME NEW s \in Outputs, NEW level \in {Low, High}, SetupWrite(s, level)
      PROVE  IInv'
  <2>1. digitalWrite(s, level) /\ pc = "setup" /\ s \in Signals
    BY <1>2 DEF SetupWrite, Signals
  <2>2. UNCHANGED <<gInst, made, polled, stray>> /\ written' = written \cup {s}
    BY <1>2 DEF SetupWrite
  <2> USE DEF IInv
  <2>3. gInst \in Ids /\ ~objs[gInst].callback /\ pc' = "setup"
    BY <1>0, <2>1, WriteRemembers DEF PhaseOK, FlagsOK
  <2>4. InstanceTypeOK'
    BY <1>0, <2>1, <2>2, <2>3, WriteRemembers DEF InstanceTypeOK, Members
  <2>5. PhaseOK'
    BY <1>0, <2>1, <2>2, <2>3, WriteRemembers DEF PhaseOK, NoDangling, InstanceTypeOK, Ids, None
  <2>6. FlagsOK'
    BY <1>0, <2>1, <2>2, <2>3, WriteRemembers DEF FlagsOK
  <2>7. LastOutOK'
    <3>1. \A t \in Outputs : t \in Signals
      BY DEF Signals
    <3> QED
      BY <1>0, <2>1, <2>2, <2>3, <3>1, WriteRemembers DEF LastOutOK, get_signal
  <2>8. ToldOK'
    BY <1>0, <2>1, <2>2, <2>3, WriteRemembers DEF ToldOK
  <2> QED
    BY <2>4, <2>5, <2>6, <2>7, <2>8
<1>3. CASE SetupEnds
  <2>1. gInst \in Ids /\ pc = "setup" /\ written = Outputs
    BY <1>0, <1>3 DEF SetupEnds, IInv, PhaseOK
  <2>2. /\ objs' = [objs EXCEPT ![gInst].inited = TRUE]
        /\ pc' = "idle"
        /\ UNCHANGED <<gInst, made, pin, polled, written, told, stray>>
    BY <1>3 DEF SetupEnds
  <2> DEFINE new == [objs[gInst] EXCEPT !.inited = TRUE]
  <2>3. /\ objs' \in [Ids -> Members]
        /\ objs'[gInst] = new
        /\ \A i \in Ids : i # gInst => objs'[i] = objs[i]
    <3>1. objs[gInst] \in Members
      BY <1>0, <2>1
    <3>2. new \in Members
      BY <3>1, MemberSet
    <3>3. objs' = [objs EXCEPT ![gInst] = new]
      BY <2>2
    <3> QED
      BY <1>0, <2>1, <3>2, <3>3, ObjectSet
  <2>4. /\ new.memory = objs[gInst].memory /\ new.inited
        /\ new.faulted = objs[gInst].faulted /\ new.callback = objs[gInst].callback
        /\ new.lastOut = objs[gInst].lastOut
    BY <1>0, <2>1 DEF Members
  <2> HIDE DEF new
  <2>5. InstanceTypeOK'
    BY <1>0, <2>2, <2>3 DEF InstanceTypeOK, Members
  <2>6. PhaseOK' /\ FlagsOK'
    <3>1. NoDangling'
      BY <1>0, <2>1, <2>2, <2>3, <2>4 DEF IInv, PhaseOK, NoDangling
    <3>2. \A i \in Ids : i > made => objs'[i] = Unborn
      BY <2>1, <2>3 DEF IInv, InstanceTypeOK, PhaseOK, Ids
    <3> QED
      BY <2>2, <2>3, <2>4, <3>1, <3>2 DEF IInv, PhaseOK, FlagsOK
  <2>7. LastOutOK' /\ ToldOK'
    BY <1>0, <2>1, <2>2, <2>3, <2>4 DEF IInv, LastOutOK, ToldOK, get_signal
  <2> QED
    BY <2>5, <2>6, <2>7 DEF IInv
<1>4. CASE SetupThrows
  <2>1. gInst \in Ids /\ pc = "setup"
    BY <1>0, <1>4 DEF SetupThrows, IInv, PhaseOK
  <2>2. gInst' = None /\ pc' = "idle" /\ UNCHANGED <<made, pin, polled, written, told>>
    BY <1>4 DEF SetupThrows
  <2>3. Delete(gInst)
    BY <1>4 DEF SetupThrows
  <2> QED
    BY <1>0, <2>1, <2>2, <2>3, DeleteInv
<1>5. CASE LoopReturns
  BY <1>5
     DEF LoopReturns,
         IInv, InstanceTypeOK, PhaseOK, FlagsOK, LastOutOK, ToldOK, NoDangling, get_signal,
         None, Ids
<1>6. CASE LoopThrows
  <2>1. /\ pc = "loop"
        /\ objs' = [objs EXCEPT ![polled].faulted = TRUE]
        /\ stray' \in {stray, stray \cup {"latch"}}
        /\ pc' = "idle"
        /\ UNCHANGED <<gInst, made, pin, polled, written, told>>
    BY <1>6 DEF LoopThrows
  <2>2. polled \in Ids /\ polled <= made
    BY <1>0, <2>1 DEF IInv, InstanceTypeOK, PhaseOK, Ids
  <2> DEFINE new == [objs[polled] EXCEPT !.faulted = TRUE]
  <2>3. /\ objs' \in [Ids -> Members]
        /\ objs'[polled] = new
        /\ \A i \in Ids : i # polled => objs'[i] = objs[i]
    <3>1. objs[polled] \in Members
      BY <1>0, <2>2
    <3>2. new \in Members
      BY <3>1, MemberSet
    <3>3. objs' = [objs EXCEPT ![polled] = new]
      BY <2>1
    <3> QED
      BY <1>0, <2>2, <3>2, <3>3, ObjectSet
  <2>4. /\ new.memory = objs[polled].memory /\ new.inited = objs[polled].inited
        /\ new.callback = objs[polled].callback
        /\ new.lastOut = objs[polled].lastOut
    BY <1>0, <2>2 DEF Members
  <2> HIDE DEF new
  <2>5. InstanceTypeOK'
    BY <1>0, <2>1, <2>3 DEF InstanceTypeOK, Members
  <2>6. PhaseOK' /\ FlagsOK'
    <3>1. NoDangling'
      BY <1>0, <2>1, <2>2, <2>3, <2>4 DEF IInv, PhaseOK, NoDangling
    <3>2. \A i \in Ids : i > made => objs'[i] = Unborn
      BY <2>2, <2>3 DEF IInv, InstanceTypeOK, PhaseOK, Ids
    <3>3. gInst # None => objs'[gInst].inited
      BY <1>0, <2>1, <2>3, <2>4 DEF IInv, FlagsOK
    <3> QED
      BY <2>1, <2>3, <3>1, <3>2, <3>3 DEF IInv, PhaseOK, FlagsOK
  <2>7. LastOutOK' /\ ToldOK'
    BY <1>0, <2>1, <2>2, <2>3, <2>4 DEF IInv, LastOutOK, ToldOK, get_signal
  <2> QED
    BY <2>5, <2>6, <2>7 DEF IInv
<1>7. CASE Create
  <2>1. /\ pc = "idle" /\ gInst = None /\ made < MaxInst
        /\ made' = made + 1 /\ gInst' = made + 1
        /\ objs' = [objs EXCEPT ![made + 1] = Created]
        /\ pc' = "setup" /\ written' = {}
        /\ UNCHANGED <<polled, told, stray>>
    BY <1>7 DEF Create
  <2>2. /\ Created \in Members
        /\ Created.memory = "allocated" /\ ~Created.inited
        /\ ~Created.faulted /\ ~Created.callback
    BY DEF Created, Members
  <2>3. pin' \in [Signals -> {Low, High}]
    BY <1>0, <1>7 DEF Create, InstanceTypeOK, sig_to_pin
  <2>4. made + 1 \in Ids
    BY <1>0, <2>1 DEF InstanceTypeOK, Ids
  <2>5. InstanceTypeOK'
    <3>1. objs' \in [Ids -> Members]
      BY <1>0, <2>1, <2>2, <2>4, ObjectSet
    <3>2. made' \in 0 .. MaxInst /\ gInst' \in 0 .. MaxInst
      BY <2>1, <2>4 DEF Ids
    <3> QED
      BY <1>0, <2>1, <2>3, <3>1, <3>2 DEF InstanceTypeOK, Members
  <2>6. PhaseOK' /\ FlagsOK'
    BY <1>0, <2>1, <2>2, <2>4 DEF IInv, InstanceTypeOK, PhaseOK, FlagsOK, NoDangling, Ids, None
  <2>7. LastOutOK' /\ ToldOK'
    BY <1>0, <2>1, <2>2, <2>4 DEF InstanceTypeOK, LastOutOK, ToldOK
  <2> QED
    BY <2>5, <2>6, <2>7 DEF IInv
<1>8. ASSUME NEW i \in 1 .. made, StartPoll(i) PROVE IInv'
  BY <1>8
     DEF StartPoll,
         IInv, InstanceTypeOK, PhaseOK, FlagsOK, LastOutOK, ToldOK, NoDangling, get_signal,
         None, Ids
<1>9. ASSUME NEW i \in 1 .. made, Destroy(i) PROVE IInv'
  <2>1. /\ i = gInst /\ pc \in {"idle", "callback"}
        /\ gInst' = None /\ UNCHANGED <<made, pin, pc, polled, written, told>>
    BY <1>9 DEF Destroy
  <2>2. gInst \in Ids
    BY <1>0, <2>1 DEF InstanceTypeOK, Ids
  <2>3. Delete(gInst) /\ pc' \in {"idle", "callback"} /\ (pc' = "callback" => pc = "callback")
    BY <1>9, <2>1 DEF Destroy
  <2> QED
    BY <2>1, <2>2, <2>3, DeleteInv
<1>10. ASSUME NEW i \in 1 .. made, NEW b \in BOOLEAN, OnSignal(i, b) PROVE IInv'
  BY <1>10
     DEF OnSignal, pin_to_sig,
         IInv, InstanceTypeOK, PhaseOK, FlagsOK, LastOutOK, ToldOK, NoDangling, get_signal,
         None, Ids
<1>11. ASSUME NEW s \in Inputs, NEW b \in BOOLEAN, SetSignal(s, b) PROVE IInv'
  BY <1>11
     DEF SetSignal, sig_to_pin, Low, High, Outputs, Inputs, Signals,
         IInv, InstanceTypeOK, PhaseOK, FlagsOK, LastOutOK, ToldOK, NoDangling, get_signal,
         None, Ids
<1>12. CASE CallbackReturns
  BY <1>12
     DEF CallbackReturns,
         IInv, InstanceTypeOK, PhaseOK, FlagsOK, LastOutOK, ToldOK, NoDangling, get_signal,
         None, Ids
<1>13. CASE UNCHANGED instanceVars
  BY <1>13
     DEF instanceVars,
         IInv, InstanceTypeOK, PhaseOK, FlagsOK, LastOutOK, ToldOK, NoDangling, get_signal,
         None, Ids
<1> QED
  BY <1>1, <1>2, <1>3, <1>4, <1>5, <1>6, <1>7, <1>8, <1>9, <1>10, <1>11, <1>12, <1>13
     DEF InstanceNext, FirmwareWrites, EmbedderCalls

(***************************************************************************)
(* The invariant holds in every reachable state.                           *)
(***************************************************************************)
THEOREM InstanceInvariance == InstanceSpec => []IInv
<1>1. InstanceInit => IInv
  BY InitInv
<1>2. IInv /\ [InstanceNext]_instanceVars => IInv'
  BY NextInv
<1> QED
  BY <1>1, <1>2, PTL DEF InstanceSpec

(***************************************************************************)
(* Type correctness.                                                       *)
(***************************************************************************)
THEOREM InstanceTypeCorrect == InstanceSpec => []InstanceTypeOK
<1>1. IInv => InstanceTypeOK
  BY DEF IInv
<1> QED
  BY <1>1, InstanceInvariance, PTL

(***************************************************************************)
(* An embedder that listens knows every output line (ximodem.h:116),       *)
(* through any number of instances over the same pins.                     *)
(***************************************************************************)
THEOREM EveryChangeTold == InstanceSpec => []SignalsTold
<1>1. IInv => SignalsTold
  BY DEF IInv, FlagsOK, LastOutOK, ToldOK, SignalsTold
<1> QED
  BY <1>1, InstanceInvariance, PTL

(***************************************************************************)
(* The current instance is allocated and no other is: none is lost, left   *)
(* behind in g_inst or freed twice.  A callback may destroy the instance   *)
(* whose poll it runs in, which is then no longer the current one; that    *)
(* the rest of that poll leaves it alone is not claimed.                   *)
(***************************************************************************)
THEOREM NoneDangling == InstanceSpec => []NoDangling
<1>1. IInv => NoDangling
  BY DEF IInv, PhaseOK
<1> QED
  BY <1>1, InstanceInvariance, PTL

(***************************************************************************)
(* A faulted instance moves no output line and never enters the firmware   *)
(* again (ximodem.cpp:148).                                                *)
(***************************************************************************)
THEOREM FaultedIsInert == InstanceSpec => FaultInert
<1>1. ASSUME IInv, [InstanceNext]_instanceVars, gInst # None, objs[gInst].faulted, gInst' = gInst
      PROVE  (\A s \in Outputs : pin'[s] = pin[s]) /\ pc' # "loop"
  <2>1. pc = "idle" /\ gInst \in Ids
    BY <1>1, MaxInstAssumption DEF IInv, FlagsOK, InstanceTypeOK, None, Ids
  <2>2. \A s \in Outputs : s \in Signals /\ s \notin Inputs
    BY DEF Outputs, Inputs, Signals
  <2>3. ASSUME NEW s \in Inputs, NEW b \in BOOLEAN, SetSignal(s, b)
        PROVE  (\A t \in Outputs : pin'[t] = pin[t]) /\ pc' # "loop"
    BY <1>1, <2>1, <2>2, <2>3 DEF SetSignal, IInv, InstanceTypeOK
  <2> QED
    BY <1>1, <2>1, <2>3
       DEF InstanceNext, FirmwareWrites, EmbedderCalls, LoopWrite, SetupWrite, SetupEnds, SetupThrows,
           LoopReturns, LoopThrows, Create, StartPoll, Destroy, OnSignal, CallbackReturns, instanceVars
<1>2. IInv /\ [InstanceNext]_instanceVars
        => [gInst # None /\ objs[gInst].faulted /\ gInst' = gInst
              => /\ \A s \in Outputs : pin'[s] = pin[s]
                 /\ pc' # "loop"]_instanceVars
  BY <1>1
<1> QED
  BY <1>2, InstanceInvariance, PTL DEF InstanceSpec, FaultInert
=============================================================================
