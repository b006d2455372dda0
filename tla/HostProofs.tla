----------------------------- MODULE HostProofs -----------------------------
(***************************************************************************)
(* What is proved of the parts of the host: HostNet, the network and the   *)
(* clock, Files, the configuration, and Sockets.  They share no variable;  *)
(* each part has its own inductive invariant and its own specification.    *)
(***************************************************************************)
EXTENDS HostNet, Files, Sockets, TLAPS

-----------------------------------------------------------------------------
(***************************************************************************)
(* HostNet, for any number of looks, any width of the clock and any        *)
(* periods: the types, with the clock inside its width, and that no line   *)
(* of commands starts with a latched answer.                               *)
(*                                                                         *)
(* FreshLine is inductive by itself: every way into "serve" goes through a *)
(* look at the network, and nothing disconnects from there on that does    *)
(* not leave "serve".                                                      *)
(***************************************************************************)
NetIInv == NetTypeOK /\ FreshLine

-----------------------------------------------------------------------------
\* The sizes that the steps compute with.
LEMMA NetSizes ==
  /\ Retries \in Nat \ {0} /\ Width \in Nat \ {0} /\ Short \in Nat /\ Long \in Nat
  /\ MaxStep \in Nat /\ TooLong \in Nat /\ 0 \in 0 .. TooLong
<1>1. /\ Retries \in Nat \ {0} /\ Width \in Nat \ {0} /\ Short \in Nat /\ Long \in Nat
      /\ MaxStep \in Nat
  BY HostNetAssumption
<1>2. TooLong \in Nat
  BY <1>1 DEF TooLong
<1> QED
  BY <1>1, <1>2

\* The clock stays within its width.
LEMMA Wraps == \A n \in Nat : n % Width \in 0 .. Width - 1
BY NetSizes

\* A later time, before it wraps.
LEMMA Later == \A n \in 0 .. Width - 1 : n + Long \in Nat
BY NetSizes

\* The firmware starts with its configuration to load and no answer latched.
LEMMA NetInitInv == NetInit => NetIInv
<1>1. 0 \in 0 .. Retries /\ 0 \in 0 .. Width - 1 /\ 0 \in 0 .. TooLong
  BY NetSizes
<1> QED
  BY <1>1 DEF NetInit, NetIInv, NetTypeOK, FreshLine

(***************************************************************************)
(* forceUpdate() keeps the types.                                          *)
(***************************************************************************)
LEMMA ForceUpdateTyped ==
  ASSUME NetTypeOK, NEW time \in 0 .. Width - 1, ForceUpdate(time)
  PROVE  /\ next' \in 0 .. Width - 1
         /\ started' \in BOOLEAN
         /\ latch' \in BOOLEAN
         /\ timeSet' \in BOOLEAN
         /\ query' \in {"none", "sent", "back"}
         /\ since' \in 0 .. TooLong
<1>1. time + Short \in Nat /\ 0 \in 0 .. TooLong
  BY NetSizes
<1> QED
  BY <1>1, Wraps DEF NetTypeOK, ForceUpdate, Status

\* Where the configuration goes on.
LEMMA ConfigDoneGoes == ConfigDone => pc' \in {"reconnect", "wipe", "more"} /\ from' = "none"
BY DEF ConfigDone

(***************************************************************************)
(* connectWifi() keeps the invariant.                                      *)
(***************************************************************************)
LEMMA ConnectInv == NetIInv /\ ConnectSteps => NetIInv'
<1> SUFFICES ASSUME NetIInv, ConnectSteps PROVE NetIInv'
  OBVIOUS
<1> USE NetSizes DEF NetIInv, NetTypeOK, FreshLine, Connected, Status, clockVars
<1>1. CASE Spin
  <2>1. latch' \in BOOLEAN /\ pc' \in {"spin", "begin"}
    BY <1>1 DEF Spin
  <2>2. UNCHANGED <<up, from, tries, ssi, retry, disabled, started, timeSet, now,
                    next, query, since>>
    BY <1>1 DEF Spin
  <2> QED
    BY <2>1, <2>2
<1>2. CASE BeginWifi
  <2>1. tries' = 0 /\ latch' = FALSE /\ pc' = "check"
    BY <1>2 DEF BeginWifi
  <2>2. UNCHANGED <<up, from, ssi, retry, disabled, started, timeSet, now, next, query, since>>
    BY <1>2 DEF BeginWifi
  <2>3. tries' \in 0 .. Retries
    BY <2>1, NetSizes
  <2> QED
    BY <2>1, <2>2, <2>3
<1>3. CASE Check
  <2>1. tries' \in 0 .. Retries
    BY <1>3 DEF Check
  <2>2. latch' \in BOOLEAN /\ retry' \in BOOLEAN
    BY <1>3 DEF Check
  <2> QED
    BY <1>3, <2>1, <2>2 DEF Check
<1>4. CASE Report
  BY <1>4 DEF Report
<1>5. CASE Answer
  <2>1. pc' \in {"zone", "serve", "more"} /\ from' \in {from, "none"}
    BY <1>5 DEF Answer
  <2>2. retry' \in BOOLEAN /\ ssi' \in BOOLEAN /\ latch' = FALSE
    BY <1>5 DEF Answer
  <2>3. tries' \in 0 .. Retries
    BY <1>5 DEF Answer
  <2> QED
    BY <1>5, <2>1, <2>2, <2>3 DEF Answer
<1> QED
  BY <1>1, <1>2, <1>3, <1>4, <1>5 DEF ConnectSteps

(***************************************************************************)
(* Loading and setting the configuration keeps the invariant.              *)
(***************************************************************************)
LEMMA ConfigInv == NetIInv /\ ConfigSteps => NetIInv'
<1> SUFFICES ASSUME NetIInv, ConfigSteps PROVE NetIInv'
  OBVIOUS
<1> USE NetSizes DEF NetIInv, NetTypeOK, FreshLine, Connected, Status, clockVars
<1>1. CASE Load
  BY <1>1 DEF Load, DisconnectIfUp
<1>2. CASE SetZone
  <2>1. CASE ForceUpdate(now)
    BY <1>2, <2>1, ForceUpdateTyped DEF SetZone
  <2>2. CASE UNCHANGED <<latch, started, timeSet, next, query>> /\ since' \in {since, 0}
    <3>1. disabled' \in BOOLEAN /\ since' \in 0 .. TooLong
      <4>1. disabled' \in BOOLEAN
        BY <1>2 DEF SetZone
      <4> QED
        BY <2>2, <4>1
    <3>2. UNCHANGED <<up, from, tries, ssi, retry, now>> /\ pc' = "update"
      BY <1>2 DEF SetZone
    <3> QED
      BY <2>2, <3>1, <3>2
  <2> QED
    BY <1>2, <2>1, <2>2 DEF SetZone, NoUpdate
<1>3. CASE UpdateIfUp
  <2>1. /\ pc' \in {"reconnect", "wipe", "more", "force"}
        /\ from' \in {from, "none"} /\ latch' \in BOOLEAN
    BY <1>3, ConfigDoneGoes DEF UpdateIfUp
  <2>2. UNCHANGED <<up, tries, ssi, retry, disabled, started, timeSet, now, next,
                    query, since>>
    BY <1>3 DEF UpdateIfUp
  <2> QED
    BY <2>1, <2>2
<1>4. CASE ForceNow
  <2>1. pc' \in {"reconnect", "wipe", "more"} /\ from' = "none"
    BY <1>4, ConfigDoneGoes DEF ForceNow
  <2>2. /\ next' \in 0 .. Width - 1
        /\ started' \in BOOLEAN /\ latch' \in BOOLEAN /\ timeSet' \in BOOLEAN
        /\ query' \in {"none", "sent", "back"} /\ since' \in 0 .. TooLong
    BY <1>4, ForceUpdateTyped DEF ForceNow
  <2> QED
    <3>1. UNCHANGED <<up, tries, ssi, retry, disabled, now>>
      BY <1>4 DEF ForceNow
    <3> QED
      BY <2>1, <2>2, <3>1
<1>5. CASE Wipe
  BY <1>5 DEF Wipe, ClockReset
<1> QED
  BY <1>1, <1>2, <1>3, <1>4, <1>5 DEF ConfigSteps

(***************************************************************************)
(* The commands keep the invariant: where one disconnects it leaves        *)
(* "serve".                                                                *)
(***************************************************************************)
LEMMA CommandsInv == NetIInv /\ Commands => NetIInv'
<1> SUFFICES ASSUME NetIInv, Commands PROVE NetIInv'
  OBVIOUS
<1> USE NetSizes DEF NetIInv, NetTypeOK, FreshLine, Connected, Status, clockVars, Command
<1>1. CASE AtLoad
  BY <1>1 DEF AtLoad
<1>2. CASE AtReset
  BY <1>2 DEF AtReset
<1>3. CASE AtFactory
  BY <1>3 DEF AtFactory, DisconnectIfUp, ClockReset
<1>4. CASE AtConnect
  BY <1>4 DEF AtConnect
<1>5. CASE AtJoin
  BY <1>5 DEF AtJoin
<1>6. CASE AtHostName
  BY <1>6 DEF AtHostName
<1>7. CASE AtAsk
  BY <1>7 DEF AtAsk
<1>8. CASE AtZone
  <2>1. CASE disabled' = FALSE /\ ForceUpdate(now)
    BY <1>8, <2>1, ForceUpdateTyped DEF AtZone
  <2>2. CASE disabled' \in BOOLEAN /\ NoUpdate
    BY <1>8, <2>2 DEF AtZone, NoUpdate
  <2> QED
    BY <1>8, <2>1, <2>2 DEF AtZone
<1> QED
  BY <1>1, <1>2, <1>3, <1>4, <1>5, <1>6, <1>7, <1>8 DEF Commands

(***************************************************************************)
(* The loop keeps the invariant.                                           *)
(***************************************************************************)
LEMMA SliceInv == NetIInv /\ SliceSteps => NetIInv'
<1> SUFFICES ASSUME NetIInv, SliceSteps PROVE NetIInv'
  OBVIOUS
<1> USE NetSizes DEF NetIInv, NetTypeOK, FreshLine, Connected, Status, clockVars
<1>1. CASE Reconnect
  BY <1>1 DEF Reconnect
<1>2. CASE EndLine
  BY <1>2 DEF EndLine
<1>3. ASSUME NEW d \in 0 .. MaxStep, Tick(d) PROVE NetIInv'
  <2>1. now' \in 0 .. Width - 1
    <3>1. now + d \in Nat
      OBVIOUS
    <3> QED
      BY ONLY <1>3, <3>1, Wraps DEF Tick
  <2>2. UNCHANGED <<up, from, tries, ssi, retry, disabled>> /\ pc' = "reconnect"
    BY <1>3 DEF Tick
  <2>3. CASE Received(now')
    <3>1. now' + Long \in Nat
      BY <2>1, Later
    <3> QED
      BY <2>1, <2>2, <2>3, <3>1, Wraps DEF Received
  <2>4. CASE ForceUpdate(now')
    BY <2>1, <2>2, <2>4, ForceUpdateTyped
  <2>5. CASE Elapses(d)
    <3>1. since' \in 0 .. TooLong
      BY <2>5 DEF Elapses
    <3> QED
      BY <2>1, <2>2, <2>5, <3>1 DEF Elapses
  <2> QED
    BY <1>3, <2>3, <2>4, <2>5 DEF Tick
<1> QED
  BY <1>1, <1>2, <1>3 DEF SliceSteps

(***************************************************************************)
(* Every step keeps the invariant.                                         *)
(***************************************************************************)
LEMMA NetNextInv == NetIInv /\ [NetNext]_netVars => NetIInv'
<1> SUFFICES ASSUME NetIInv, [NetNext]_netVars PROVE NetIInv'
  OBVIOUS
<1> USE DEF NetIInv, NetTypeOK, FreshLine, linkVars, clockVars
<1>1. CASE HostChanges
  BY <1>1 DEF HostChanges
<1>2. CASE Answered
  BY <1>2 DEF Answered
<1>3. CASE Lost
  BY <1>3 DEF Lost
<1>4. CASE UNCHANGED netVars
  BY <1>4 DEF netVars
<1> QED
  BY <1>1, <1>2, <1>3, <1>4, ConnectInv, ConfigInv, CommandsInv, SliceInv DEF NetNext

(***************************************************************************)
(* The inductive invariant of the network.                                 *)
(***************************************************************************)
THEOREM NetInvariance == NetSpec => []NetIInv
BY NetInitInv, NetNextInv, PTL DEF NetSpec

(***************************************************************************)
(* A line of commands starts with no latched answer: whatever disconnected *)
(* in the slice before, the look of checkReconnect() has taken the "down"  *)
(* (zimodem.ino:634, WiFi.h:189-193).                                      *)
(***************************************************************************)
THEOREM LineIsFresh == NetSpec => []FreshLine
<1>1. NetIInv => FreshLine
  BY DEF NetIInv
<1> QED
  BY <1>1, NetInvariance, PTL

-----------------------------------------------------------------------------
(***************************************************************************)
(* When the clock asks again.  A clock that has waited is near its next    *)
(* look: before it by one long period at most, or behind it by one.  While *)
(* time passes the sum of what it has waited and what is left until the    *)
(* look does not grow, and a wrap of millis() takes it out of both ranges, *)
(* which is when it asks.                                                  *)
(***************************************************************************)
Waiting == ~disabled /\ started /\ ~timeSet

Before(time, waited) ==
    next >= time /\ next - time <= Long /\ waited + (next - time) <= MaxStep + Long

Behind(time, waited) ==
    next < time /\ time - next <= Long /\ waited <= MaxStep + Long + (time - next)

ClockOK == since > 0 => Waiting /\ (Before(now, since) \/ Behind(now, since))

\* The remainder of a time that has gone on by one slice.
LEMMA WrapsOnce ==
  ASSUME NEW n \in 0 .. Width - 1, NEW d \in 0 .. MaxStep
  PROVE  (n + d) % Width = IF n + d < Width THEN n + d ELSE n + d - Width
<1>1. /\ Width \in Nat \ {0} /\ MaxStep \in Nat /\ Long \in Nat \ {0}
      /\ 2 * Long + MaxStep < Width
  BY HostNetAssumption
<1>2. n + d \in Nat /\ n + d < 2 * Width
  BY <1>1
<1>3. CASE n + d < Width
  BY <1>1, <1>2, <1>3
<1>4. CASE ~(n + d < Width)
  <2> DEFINE k == n + d - Width
  <2>1. k \in 0 .. Width - 1 /\ n + d = k + Width
    BY <1>1, <1>2, <1>4
  <2>2. (k + Width) % Width = k
    BY <1>1, <2>1
  <2> QED
    BY <1>4, <2>1, <2>2
<1> QED
  BY <1>3, <1>4

\* A slice in which the clock does not ask leaves it near its next look.
LEMMA StaysNear ==
  ASSUME NEW n \in 0 .. Width - 1, next \in 0 .. Width - 1, NEW d \in 0 .. MaxStep,
         NEW s \in Nat, s = 0 \/ Before(n, s) \/ Behind(n, s),
         NEW time \in 0 .. Width - 1, time = (n + d) % Width, ~Due(time)
  PROVE  Before(time, s + d) \/ Behind(time, s + d)
<1> /\ Width \in Nat \ {0} /\ MaxStep \in Nat /\ Long \in Nat \ {0}
    /\ 2 * Long + MaxStep < Width
  BY HostNetAssumption
<1>1. \/ next >= time /\ next - time <= Long
      \/ next < time /\ time - next <= Long
  BY DEF Due
<1>2. CASE s = 0
  BY <1>1, <1>2 DEF Before, Behind
<1>3. CASE n + d < Width
  <2>1. time = n + d
    BY <1>3, WrapsOnce
  <2>2. CASE Before(n, s)
    BY <1>1, <2>1, <2>2 DEF Before, Behind
  <2>3. CASE Behind(n, s)
    BY <1>1, <2>1, <2>3 DEF Before, Behind
  <2> QED
    BY <1>2, <2>2, <2>3
<1>4. CASE ~(n + d < Width)
  <2>1. time = n + d - Width
    BY <1>4, WrapsOnce
  <2>2. CASE Before(n, s)
    BY <1>1, <2>1, <2>2 DEF Before
  <2>3. CASE Behind(n, s)
    BY <1>1, <2>1, <2>3 DEF Behind
  <2> QED
    BY <1>2, <2>2, <2>3
<1> QED
  BY <1>3, <1>4

\* A clock near its next look has not waited too long.
LEMMA NearIsSoon ==
  ASSUME NEW time \in 0 .. Width - 1, next \in 0 .. Width - 1, NEW s \in Nat,
         Before(time, s) \/ Behind(time, s)
  PROVE  s <= TooLong
<1> Width \in Nat \ {0} /\ MaxStep \in Nat /\ Long \in Nat
  BY HostNetAssumption
<1>1. CASE Before(time, s)
  BY <1>1 DEF Before, TooLong
<1>2. CASE Behind(time, s)
  BY <1>2 DEF Behind, TooLong
<1> QED
  BY <1>1, <1>2

\* tick() keeps the clock near its next look, or asks.
LEMMA TickClock ==
  ASSUME NetTypeOK, ClockOK, NEW d \in 0 .. MaxStep, Tick(d)
  PROVE  ClockOK'
<1>1. now' = (now + d) % Width /\ disabled' = disabled
  BY DEF Tick
<1>2. CASE Received(now')
  BY <1>2 DEF Received, ClockOK
<1>3. CASE ForceUpdate(now')
  BY <1>3 DEF ForceUpdate, ClockOK
<1>4. CASE Elapses(d) /\ (disabled \/ ~started \/ timeSet)
  BY <1>4 DEF Elapses, ClockOK
<1>5. CASE Elapses(d) /\ Waiting /\ ~Due(now')
  <2>1. now' \in 0 .. Width - 1
    <3>1. now + d \in Nat
      BY NetSizes DEF NetTypeOK
    <3> QED
      BY <1>1, <3>1, Wraps
  <2>2. /\ now \in 0 .. Width - 1 /\ next \in 0 .. Width - 1 /\ since \in Nat
        /\ since = 0 \/ Before(now, since) \/ Behind(now, since)
    BY NetSizes DEF NetTypeOK, ClockOK
  <2>3. Before(now', since + d) \/ Behind(now', since + d)
    BY <1>1, <1>5, <2>1, <2>2, StaysNear
  <2>4. since + d <= TooLong
    <3>1. since + d \in Nat
      BY <2>2, NetSizes
    <3> QED
      BY <2>1, <2>2, <2>3, <3>1, NearIsSoon
  <2>5. since' = since + d /\ UNCHANGED <<next, started, timeSet>>
    BY <1>5, <2>2, <2>4, NetSizes DEF Elapses, Waiting
  <2> QED
    BY <1>1, <1>5, <2>3, <2>5 DEF ClockOK, Waiting, Before, Behind
<1> QED
  BY <1>2, <1>3, <1>4, <1>5 DEF Tick, Waiting

\* Every other step leaves the clock alone or starts its wait anew.
LEMMA ClockNext == NetTypeOK /\ ClockOK /\ [NetNext]_netVars => ClockOK'
<1> SUFFICES ASSUME NetTypeOK, ClockOK, [NetNext]_netVars PROVE ClockOK'
  OBVIOUS
<1>1. ASSUME UNCHANGED <<disabled, started, timeSet, now, next, since>> PROVE ClockOK'
  BY <1>1 DEF ClockOK, Waiting, Before, Behind
<1>2. ASSUME since' = 0 PROVE ClockOK'
  BY <1>2 DEF ClockOK
<1>3. CASE ConnectSteps
  BY <1>1, <1>3
     DEF ConnectSteps, Spin, BeginWifi, Check, Report, Answer, clockVars
<1>4. CASE ConfigSteps
  BY <1>1, <1>2, <1>4
     DEF ConfigSteps, Load, SetZone, UpdateIfUp, ForceNow, Wipe, NoUpdate, ForceUpdate,
         ClockReset, clockVars
<1>5. CASE Commands
  BY <1>1, <1>2, <1>5
     DEF Commands, AtLoad, AtReset, AtFactory, AtConnect, AtJoin, AtHostName, AtAsk,
         AtZone, NoUpdate, ForceUpdate, ClockReset, clockVars
<1>6. CASE Reconnect \/ EndLine
  BY <1>1, <1>6 DEF Reconnect, EndLine, clockVars
<1>7. ASSUME NEW d \in 0 .. MaxStep, Tick(d) PROVE ClockOK'
  BY <1>7, TickClock
<1>8. CASE HostChanges \/ Answered \/ Lost
  BY <1>1, <1>8 DEF HostChanges, Answered, Lost, clockVars
<1>9. CASE UNCHANGED netVars
  BY <1>1, <1>9 DEF netVars
<1> QED
  BY <1>3, <1>4, <1>5, <1>6, <1>7, <1>8, <1>9 DEF NetNext, SliceSteps

(***************************************************************************)
(* A clock that waits for the time sends another request at the latest     *)
(* after two long periods and a slice, whatever is lost and wherever       *)
(* millis() wraps (rt_clock.ino:148-157).                                  *)
(***************************************************************************)
THEOREM ClockAsks == NetSpec => []AsksAgain
<1>1. NetInit => ClockOK
  BY DEF NetInit, ClockOK
<1>2. NetTypeOK /\ ClockOK => AsksAgain
  BY NetSizes DEF NetTypeOK, ClockOK, Before, Behind, AsksAgain
<1>3. NetIInv => NetTypeOK
  BY DEF NetIInv
<1> QED
  BY <1>1, <1>2, <1>3, ClockNext, NetInvariance, PTL DEF NetSpec

-----------------------------------------------------------------------------
(***************************************************************************)
(* Files, for any number of fields, retries, versions of the settings and  *)
(* time zones: no mixture of two versions is ever on the disk, and what a  *)
(* save calls saved is there.                                              *)
(*                                                                         *)
(* NoMixture says that the units are equal, not to what.  While a File is  *)
(* open the disk holds the units flushed so far and they are those of the  *)
(* settings in memory, which no step changes before the save is over       *)
(* (WrittenOK): whether or not the file could be removed before, the open  *)
(* that works leaves nothing of it.  A save that is being verified has the *)
(* same from close() on, and what it has called saved stays on the disk    *)
(* while the settings change and the program comes and goes, until a save  *)
(* or AT&F begins (ClosedOK).                                              *)
(***************************************************************************)
\* The units on the disk are those of the settings in memory.
Current == \A u \in 1 .. Len(disk) : disk[u] = settings

WrittenOK ==
    handle => doing = "print" /\ Len(disk) = flushed /\ Current

ClosedOK ==
    /\ doing = "verify" => saved.what = settings /\ ~saved.said
    /\ doing = "verify" /\ saved.opened => Current
    /\ doing # "verify" /\ ~saved.said => ~saved.opened
    /\ saved.said => doing \in {"run", "format", "off"}
    /\ SavedIsStored

FilesIInv == FilesTypeOK /\ NoMixture /\ WrittenOK /\ ClosedOK

-----------------------------------------------------------------------------
\* Sizes, and the empty text.
LEMMA Sizes == Units \in Nat \ {0} /\ Again \in Nat /\ MaxVersion \in Nat
<1>1. Again \in Nat /\ MaxVersion \in Nat
  BY FilesAssumption
<1>2. Units \in Nat \ {0}
  BY FilesAssumption DEF Units
<1> QED
  BY <1>1, <1>2

LEMMA EmptyText == <<>> \in Seq(Settings) /\ Len(<<>>) = 0
OBVIOUS

\* A save that has not answered.
LEMMA NothingTyped ==
  /\ Default \in Settings
  /\ Nothing \in [said : BOOLEAN, opened : BOOLEAN, what : Settings]
  /\ ~Nothing.said /\ ~Nothing.opened
<1>1. Default \in Settings
  BY Sizes DEF Default, Settings, Off
<1> QED
  BY <1>1 DEF Nothing

\* A whole text of one version.
LEMMA WholeText ==
  ASSUME NEW s \in Settings
  PROVE  Whole(s) \in Seq(Settings)
BY Sizes DEF Whole

\* There is no file of this version of the firmware, and nothing is open.
LEMMA FilesInitInv == FilesInit => FilesIInv
<1> SUFFICES ASSUME FilesInit PROVE FilesIInv
  OBVIOUS
<1>1. oldDisk \in Seq(Settings)
  <2>1. CASE oldDisk = <<>>
    BY <2>1, EmptyText
  <2>2. ASSUME MaxVersion > 0, NEW z \in Zones, oldDisk = Whole([ver |-> 1, zone |-> z])
        PROVE  oldDisk \in Seq(Settings)
    <3>1. [ver |-> 1, zone |-> z] \in Settings
      BY <2>2, FilesAssumption, Sizes DEF Settings, Off
    <3> QED
      BY <2>2, <3>1, WholeText
  <2> QED
    BY <2>1, <2>2 DEF FilesInit
<1>2. disk = <<>> /\ Len(disk) = 0 /\ disk \in Seq(Settings) /\ 0 <= Units
  BY EmptyText, Sizes DEF FilesInit
<1>3. FilesTypeOK
  <2>1. /\ exists \in BOOLEAN /\ handle \in BOOLEAN
        /\ {disk, oldDisk} \subseteq Seq(Settings)
        /\ Len(disk) <= Units
    BY <1>1, <1>2 DEF FilesInit
  <2>2. flushed \in 0 .. printed /\ printed \in 0 .. Units /\ left \in 0 .. Again
    BY Sizes DEF FilesInit
  <2>3. /\ settings \in Settings
        /\ saved \in [said : BOOLEAN, opened : BOOLEAN, what : Settings]
    BY NothingTyped DEF FilesInit
  <2> QED
    BY <2>1, <2>2, <2>3 DEF FilesInit, FilesTypeOK
<1>4. NoMixture /\ WrittenOK
  BY <1>2 DEF NoMixture, WrittenOK, FilesInit
<1>5. ClosedOK
  BY NothingTyped DEF ClosedOK, SavedIsStored, FilesInit
<1> QED
  BY <1>3, <1>4, <1>5 DEF FilesIInv

(***************************************************************************)
(* Units that stdio writes out behind those on the disk make a longer      *)
(* beginning of the same text.                                             *)
(***************************************************************************)
LEMMA PutExtends ==
  ASSUME FilesTypeOK, Len(disk) = flushed, Current,
         NEW n \in flushed .. printed
  PROVE  /\ Put(flushed, n) \in Seq(Settings)
         /\ Len(Put(flushed, n)) = n
         /\ \A u \in 1 .. n : Put(flushed, n)[u] = settings
<1> USE Sizes DEF FilesTypeOK
<1> DEFINE text == [u \in 1 .. n |-> IF u \in flushed + 1 .. n THEN settings ELSE disk[u]]
<1>1. n \in Nat /\ flushed \in Nat
  OBVIOUS
<1>2. (IF Len(disk) < n THEN n ELSE Len(disk)) = n
  BY <1>1
<1>3. Put(flushed, n) = text
  BY <1>2 DEF Put
<1>4. \A u \in 1 .. n : text[u] = settings
  BY <1>1 DEF Current
<1>5. settings \in Settings
  OBVIOUS
<1>6. text \in Seq(Settings) /\ Len(text) = n
  BY <1>1, <1>4, <1>5
<1> QED
  BY <1>3, <1>4, <1>6

(***************************************************************************)
(* A file that is removed or not, and the load of what is there, keep the  *)
(* types.                                                                  *)
(***************************************************************************)
LEMMA OldRemoved ==
  ASSUME FilesTypeOK, RemovesOld
  PROVE  oldDisk' \in Seq(Settings)
BY EmptyText DEF FilesTypeOK, RemovesOld

LEMMA ConfigRemoved ==
  ASSUME FilesTypeOK, NoMixture, RemovesConfig
  PROVE  /\ exists' \in BOOLEAN
         /\ disk' \in Seq(Settings)
         /\ Len(disk') <= Units
         /\ NoMixture'
<1>1. CASE exists' = FALSE /\ disk' = <<>>
  <2>1. Len(disk') = 0 /\ disk' \in Seq(Settings)
    BY <1>1, EmptyText
  <2>2. 0 <= Units
    BY ONLY Sizes
  <2>3. NoMixture'
    BY ONLY <2>1 DEF NoMixture
  <2> QED
    BY <1>1, <2>1, <2>2, <2>3
<1>2. CASE UNCHANGED <<exists, disk>>
  BY <1>2 DEF FilesTypeOK, NoMixture
<1> QED
  BY <1>1, <1>2 DEF RemovesConfig

\* A time zone that is read is one, or none.
LEMMA ZoneTyped ==
  ASSUME FilesTypeOK, NEW cur \in 0 .. Off, Text # <<>>
  PROVE  Zone(cur) \in 0 .. Off
<1>1. Text \in Seq(Settings)
  BY DEF Text, FilesTypeOK
<1>2. Text[1] \in Settings
  BY <1>1
<1>3. Text[1].zone \in 0 .. 999
  BY <1>2 DEF Settings, Off
<1>4. ASSUME NEW z \in 0 .. 999 PROVE Restored(z, cur) \in 0 .. Off
  <2> DEFINE first == IF z < 100 THEN z ELSE z \div 10
  <2>1. CASE z < 10
    BY <2>1 DEF Restored
  <2>2. CASE ~(z < 10) /\ first \in 30 .. 39
    <3>1. Restored(z, cur) = first - 30
      BY <2>2 DEF Restored
    <3> QED
      BY <2>2, <3>1 DEF Off
  <2>3. CASE ~(z < 10) /\ first \notin 30 .. 39
    <3>1. Restored(z, cur) = 0
      BY <2>3 DEF Restored
    <3> QED
      BY <3>1 DEF Off
  <2> QED
    BY <2>1, <2>2, <2>3
<1> QED
  <2>1. CASE exists
    BY <1>3, <1>4, <2>1 DEF Zone
  <2>2. CASE ~exists
    BY <1>3, <2>2 DEF Zone, Off
  <2> QED
    BY <2>1, <2>2

LEMMA LoadedTyped ==
  ASSUME FilesTypeOK, NEW cur \in 0 .. Off
  PROVE  Loaded(cur) \subseteq Settings
<1> SUFFICES ASSUME NEW s \in Loaded(cur) PROVE s \in Settings
  OBVIOUS
<1>1. CASE s = [ver |-> 0, zone |-> cur]
  BY <1>1, Sizes DEF Settings
<1>2. CASE Len(Text) = Units /\ s = [ver |-> Text[1].ver, zone |-> Zone(cur)]
  <2>1. Text \in Seq(Settings) /\ Text # <<>>
    BY <1>2, Sizes, EmptyText DEF Text, FilesTypeOK
  <2>2. Text[1] \in Settings
    BY <2>1
  <2> QED
    BY <1>2, <2>1, <2>2, ZoneTyped DEF Settings
<1>3. CASE Text # <<>> /\ s \in [ver : Fresh, zone : {cur, Zone(cur)}]
  <2>1. Fresh \subseteq 0 .. MaxVersion
    BY Sizes DEF Fresh
  <2>2. {cur, Zone(cur)} \subseteq 0 .. Off
    BY <1>3, ZoneTyped
  <2> QED
    BY <1>3, <2>1, <2>2 DEF Settings
<1> QED
  BY <1>1, <1>2, <1>3 DEF Loaded

LEMMA ResetTyped ==
  ASSUME NEW s \in Settings
  PROVE  Reset(s) \in Settings
BY DEF Reset, Settings, Off

(***************************************************************************)
(* The steps of a save up to the open.                                     *)
(***************************************************************************)
LEMMA SaveInv ==
  ASSUME FilesIInv, NEW n \in 0 .. Again, Save(n), ~handle,
         oldDisk' \in Seq(Settings), exists' \in BOOLEAN, disk' \in Seq(Settings),
         Len(disk') <= Units, NoMixture'
  PROVE  FilesIInv'
<1>1. ~saved'.said /\ ~saved'.opened
  BY NothingTyped DEF Save
<1>2. FilesTypeOK'
  BY Sizes, NothingTyped DEF Save, FilesIInv, FilesTypeOK
<1>3. WrittenOK' /\ ClosedOK'
  BY <1>1 DEF Save, WrittenOK, ClosedOK, SavedIsStored
<1> QED
  BY <1>2, <1>3 DEF FilesIInv

LEMMA BeforePrintInv ==
  FilesIInv /\ (AtSave \/ RemoveOld \/ RemoveConfig \/ Opens) => FilesIInv'
<1> SUFFICES ASSUME FilesIInv, AtSave \/ RemoveOld \/ RemoveConfig \/ Opens
             PROVE  FilesIInv'
  OBVIOUS
<1> USE DEF FilesIInv
<1>1. CASE AtSave
  <2>1. Again \in 0 .. Again /\ ~handle
    BY <1>1, Sizes DEF AtSave, WrittenOK
  <2> QED
    BY <1>1, <2>1, SaveInv DEF AtSave, FilesTypeOK, NoMixture
<1>2. CASE RemoveOld
  <2>1. FilesTypeOK'
    BY <1>2, OldRemoved DEF RemoveOld, FilesTypeOK
  <2>2. NoMixture' /\ WrittenOK' /\ ClosedOK'
    BY <1>2 DEF RemoveOld, NoMixture, WrittenOK, ClosedOK, SavedIsStored
  <2> QED
    BY <2>1, <2>2
<1>3. CASE RemoveConfig
  <2>1. FilesTypeOK' /\ NoMixture'
    BY <1>3, ConfigRemoved DEF RemoveConfig, FilesTypeOK
  <2>2. WrittenOK' /\ ClosedOK'
    BY <1>3 DEF RemoveConfig, WrittenOK, ClosedOK, SavedIsStored
  <2> QED
    BY <2>1, <2>2
<1>4. CASE Opens
  <2>1. /\ UNCHANGED <<oldDisk, left, settings, saved>> /\ doing' = "print"
        /\ printed' = 0 /\ flushed' = 0
    BY <1>4 DEF Opens
  <2>2. ~saved.said
    BY <1>4 DEF Opens, ClosedOK
  <2>3. CASE handle' = TRUE /\ exists' = TRUE /\ disk' = <<>>
    <3>1. Len(disk') = 0 /\ disk' \in Seq(Settings) /\ 0 <= Units
      BY <2>3, EmptyText, Sizes
    <3>2. printed' = 0 /\ flushed' = 0
      BY <1>4 DEF Opens
    <3>3. FilesTypeOK'
      BY <2>1, <2>3, <3>1, <3>2 DEF FilesTypeOK
    <3>4. NoMixture' /\ WrittenOK'
      BY <2>1, <2>3, <3>1, <3>2 DEF NoMixture, WrittenOK, Current
    <3>5. ClosedOK'
      BY <1>4, <2>1, <2>2 DEF Opens, ClosedOK, SavedIsStored
    <3> QED
      BY <3>3, <3>4, <3>5
  <2>4. CASE handle' = FALSE /\ UNCHANGED <<exists, disk>>
    <3>1. FilesTypeOK'
      <4>1. flushed' \in 0 .. printed' /\ printed' \in 0 .. Units
        BY <2>1, Sizes
      <4> QED
        BY <2>1, <2>4, <4>1 DEF FilesTypeOK
    <3>2. NoMixture' /\ WrittenOK'
      BY <2>1, <2>4 DEF NoMixture, WrittenOK
    <3>3. ClosedOK'
      BY <1>4, <2>1, <2>2 DEF Opens, ClosedOK, SavedIsStored
    <3> QED
      BY <3>1, <3>2, <3>3
  <2> QED
    BY <1>4, <2>3, <2>4 DEF Opens, OpenToWrite
<1> QED
  BY <1>1, <1>2, <1>3, <1>4

(***************************************************************************)
(* Printing, writing out and closing.                                      *)
(***************************************************************************)
LEMMA PrintInv == FilesIInv /\ (Prints \/ Flushes \/ Closes) => FilesIInv'
<1> SUFFICES ASSUME FilesIInv, Prints \/ Flushes \/ Closes
             PROVE  FilesIInv'
  OBVIOUS
<1> USE Sizes DEF FilesIInv, FilesTypeOK
<1>1. CASE Prints
  BY <1>1 DEF Prints, NoMixture, WrittenOK, ClosedOK, SavedIsStored, Current
<1>2. CASE Flushes
  <2>1. flushed + 1 \in flushed .. printed
    BY <1>2 DEF Flushes
  <2>2. /\ disk' \in Seq(Settings)
        /\ Len(disk') = flushed + 1
        /\ \A u \in 1 .. flushed + 1 : disk'[u] = settings
    BY <1>2, <2>1, PutExtends DEF Flushes, WrittenOK
  <2>3. doing = "print" /\ ~saved.said
    BY <1>2 DEF Flushes, WrittenOK, ClosedOK
  <2>4. NoMixture' /\ WrittenOK'
    BY <1>2, <2>2, <2>3 DEF Flushes, NoMixture, WrittenOK, Current
  <2>5. ClosedOK'
    BY <1>2, <2>3 DEF Flushes, ClosedOK, SavedIsStored
  <2> QED
    BY <1>2, <2>1, <2>2, <2>4, <2>5 DEF Flushes
<1>3. CASE Closes
  <2>1. /\ handle' = FALSE /\ doing' = "verify"
        /\ saved' = [said |-> FALSE, opened |-> handle, what |-> settings]
        /\ UNCHANGED <<exists, oldDisk, printed, flushed, left, settings>>
    BY <1>3 DEF Closes
  <2>2. saved' \in [said : BOOLEAN, opened : BOOLEAN, what : Settings]
    BY <2>1
  <2>3. ~saved'.said /\ saved'.opened = handle /\ saved'.what = settings
    BY <2>1
  <2>4. CASE ~handle
    <3>1. disk' = disk
      BY <1>3, <2>4 DEF Closes
    <3>2. FilesTypeOK'
      BY <2>1, <2>2, <3>1
    <3> QED
      BY <2>1, <2>3, <2>4, <3>1, <3>2 DEF NoMixture, WrittenOK, ClosedOK, SavedIsStored
  <2>5. CASE handle
    <3>1. PICK n \in flushed .. printed : disk' = Put(flushed, n)
      BY <1>3, <2>5 DEF Closes
    <3>2. /\ disk' \in Seq(Settings)
          /\ Len(disk') = n
          /\ \A u \in 1 .. n : disk'[u] = settings
      BY <2>5, <3>1, PutExtends DEF WrittenOK
    <3>3. n <= Units
      BY <3>1
    <3>4. FilesTypeOK'
      BY <2>1, <2>2, <3>2, <3>3
    <3>5. NoMixture' /\ Current'
      BY <2>1, <3>2 DEF NoMixture, Current
    <3>6. WrittenOK' /\ ClosedOK'
      BY <2>1, <2>3, <3>5 DEF WrittenOK, ClosedOK, SavedIsStored
    <3> QED
      BY <3>4, <3>5, <3>6
  <2> QED
    BY <2>4, <2>5
<1> QED
  BY <1>1, <1>2, <1>3

(***************************************************************************)
(* The answer of a save.                                                   *)
(***************************************************************************)
LEMMA VerifyInv ==
  FilesIInv /\ (VerifyAccepts \/ VerifyRefuses \/ VerifyRetries) => FilesIInv'
<1> SUFFICES ASSUME FilesIInv, VerifyAccepts \/ VerifyRefuses \/ VerifyRetries
             PROVE  FilesIInv'
  OBVIOUS
<1> USE DEF FilesIInv
<1>1. CASE VerifyAccepts
  <2>1. Len(disk) >= Units - 1
    BY <1>1, FilesAssumption DEF VerifyAccepts, Accepts, Commas, Units, FilesTypeOK
  <2>2. /\ saved' = [saved EXCEPT !.said = TRUE] /\ doing = "verify" /\ doing' = "run"
        /\ UNCHANGED <<exists, disk, oldDisk, handle, printed, flushed, left, settings>>
    BY <1>1 DEF VerifyAccepts
  <2>3. /\ saved'.said /\ saved'.opened = saved.opened /\ saved'.what = saved.what
        /\ saved' \in [said : BOOLEAN, opened : BOOLEAN, what : Settings]
    BY <2>2 DEF FilesTypeOK
  <2>4. FilesTypeOK'
    BY <2>2, <2>3 DEF FilesTypeOK
  <2>5. NoMixture' /\ WrittenOK'
    BY <2>2 DEF NoMixture, WrittenOK
  <2>6. saved'.opened => Stored(saved.what)'
    BY <2>1, <2>2, <2>3 DEF ClosedOK, Current, Stored
  <2>7. ClosedOK'
    BY <2>2, <2>3, <2>6 DEF ClosedOK, SavedIsStored
  <2> QED
    BY <2>4, <2>5, <2>7
<1>2. CASE VerifyRefuses
  <2>1. ~saved'.said /\ ~saved'.opened
    BY <1>2, NothingTyped DEF VerifyRefuses
  <2>2. FilesTypeOK'
    BY <1>2, NothingTyped DEF VerifyRefuses, FilesTypeOK
  <2>3. NoMixture' /\ WrittenOK' /\ ClosedOK'
    BY <1>2, <2>1
       DEF VerifyRefuses, NoMixture, WrittenOK, ClosedOK, SavedIsStored
  <2> QED
    BY <2>2, <2>3
<1>3. CASE VerifyRetries
  <2>1. left - 1 \in 0 .. Again /\ ~handle
    BY <1>3, Sizes DEF VerifyRetries, FilesTypeOK, WrittenOK
  <2> QED
    BY <1>3, <2>1, SaveInv DEF VerifyRetries, FilesTypeOK, NoMixture
<1> QED
  BY <1>1, <1>2, <1>3

(***************************************************************************)
(* Other commands, and the end and the start of the program.               *)
(***************************************************************************)
LEMMA CommandInv ==
  FilesIInv /\ (Change \/ Factory \/ FactoryOld \/ Loads \/ FormatLoads \/ Format)
    => FilesIInv'
<1> SUFFICES ASSUME FilesIInv,
                    Change \/ Factory \/ FactoryOld \/ Loads \/ FormatLoads \/ Format
             PROVE  FilesIInv'
  OBVIOUS
<1> USE DEF FilesIInv
<1>1. settings \in Settings /\ settings.zone \in 0 .. Off
  BY DEF FilesTypeOK, Settings
<1>2. CASE Change
  <2>1. Fresh \subseteq 0 .. MaxVersion /\ Zones \subseteq 0 .. Off
    BY Sizes, FilesAssumption DEF Fresh, Off
  <2>2. settings' \in Settings
    BY <1>2, <2>1 DEF Change, Settings
  <2>3. FilesTypeOK'
    BY <1>2, <2>2 DEF Change, FilesTypeOK
  <2> QED
    BY <1>2, <2>3 DEF Change, NoMixture, WrittenOK, ClosedOK, SavedIsStored, Stored
<1>3. CASE Factory
  <2>1. ~saved'.said /\ ~saved'.opened
    BY <1>3, NothingTyped DEF Factory
  <2>2. FilesTypeOK' /\ NoMixture'
    BY <1>3, ConfigRemoved, NothingTyped DEF Factory, FilesTypeOK
  <2>3. WrittenOK' /\ ClosedOK'
    BY <1>3, <2>1 DEF Factory, WrittenOK, ClosedOK, SavedIsStored
  <2> QED
    BY <2>2, <2>3
<1>4. CASE FactoryOld
  <2>1. settings' \in Settings
    BY <1>1, <1>4, ResetTyped DEF FactoryOld
  <2>2. FilesTypeOK'
    BY <1>4, <2>1, OldRemoved DEF FactoryOld, FilesTypeOK
  <2> QED
    BY <1>4, <2>2 DEF FactoryOld, NoMixture, WrittenOK, ClosedOK, SavedIsStored, Stored
<1>5. CASE Loads
  <2>1. settings' \in Settings
    BY <1>1, <1>5, LoadedTyped DEF Loads
  <2>2. FilesTypeOK'
    BY <1>5, <2>1 DEF Loads, FilesTypeOK
  <2> QED
    BY <1>5, <2>2 DEF Loads, NoMixture, WrittenOK, ClosedOK, SavedIsStored, Stored
<1>6. CASE FormatLoads
  <2>1. settings' \in Settings
    BY <1>1, <1>6, LoadedTyped, ResetTyped DEF FormatLoads
  <2>2. FilesTypeOK'
    BY <1>6, <2>1 DEF FormatLoads, FilesTypeOK
  <2> QED
    BY <1>6, <2>2 DEF FormatLoads, NoMixture, WrittenOK, ClosedOK, SavedIsStored, Stored
<1>7. CASE Format
  <2>1. Again \in 0 .. Again /\ ~handle
    BY <1>7, Sizes DEF Format, WrittenOK
  <2> QED
    BY <1>7, <2>1, SaveInv, OldRemoved, ConfigRemoved DEF Format
<1> QED
  BY <1>2, <1>3, <1>4, <1>5, <1>6, <1>7

LEMMA ProgramInv == FilesIInv /\ (Killed \/ Boots) => FilesIInv'
<1> SUFFICES ASSUME FilesIInv, Killed \/ Boots PROVE FilesIInv'
  OBVIOUS
<1> USE DEF FilesIInv
<1>1. CASE Killed
  <2>1. \/ saved.said /\ saved' = saved
        \/ ~saved.said /\ saved' = Nothing /\ ~saved'.said /\ ~saved'.opened
    BY <1>1, NothingTyped DEF Killed
  <2>2. FilesTypeOK'
    BY <1>1, <2>1, NothingTyped DEF Killed, FilesTypeOK
  <2> QED
    BY <1>1, <2>1, <2>2
       DEF Killed, NoMixture, WrittenOK, ClosedOK, SavedIsStored, Stored
<1>2. CASE Boots
  <2>1. Default.zone \in 0 .. Off
    BY DEF Default, Off
  <2>2. settings' \in Settings
    BY <1>2, <2>1, LoadedTyped DEF Boots
  <2>3. FilesTypeOK'
    BY <1>2, <2>2 DEF Boots, FilesTypeOK
  <2> QED
    BY <1>2, <2>3 DEF Boots, NoMixture, WrittenOK, ClosedOK, SavedIsStored, Stored
<1> QED
  BY <1>1, <1>2

(***************************************************************************)
(* Every step keeps the invariant.                                         *)
(***************************************************************************)
LEMMA FilesNextInv == FilesIInv /\ [FilesNext]_fileVars => FilesIInv'
<1> SUFFICES ASSUME FilesIInv, [FilesNext]_fileVars PROVE FilesIInv'
  OBVIOUS
<1>1. CASE UNCHANGED fileVars
  BY <1>1
     DEF fileVars, FilesIInv, FilesTypeOK, NoMixture, WrittenOK, Current, ClosedOK,
         SavedIsStored, Stored
<1> QED
  BY <1>1, BeforePrintInv, PrintInv, VerifyInv, CommandInv, ProgramInv DEF FilesNext

(***************************************************************************)
(* The inductive invariant of the configuration file.                      *)
(***************************************************************************)
THEOREM FilesInvariance == FilesSpec => []FilesIInv
BY FilesInitInv, FilesNextInv, PTL DEF FilesSpec

(***************************************************************************)
(* Wherever a save is cut, by a full disk or by the end of the host        *)
(* program, and whether or not the file could be removed before, the file  *)
(* is one version of the settings or the first part of one (FS.cpp:84-92,  *)
(* zcommand.ino:370-408).                                                  *)
(***************************************************************************)
THEOREM OneVersion == FilesSpec => []NoMixture
<1>1. FilesIInv => NoMixture
  BY DEF FilesIInv
<1> QED
  BY <1>1, FilesInvariance, PTL

(***************************************************************************)
(* Settings that a save has called saved are in the file up to the last    *)
(* comma, and stay there until the next save or AT&F, through every kill   *)
(* and start, unless the save could not open the file; it then says so of  *)
(* a file that it could not remove either (zcommand.ino:370-426).          *)
(***************************************************************************)
THEOREM OkIsStored == FilesSpec => []SavedIsStored
<1>1. FilesIInv => SavedIsStored
  BY DEF FilesIInv, ClosedOK
<1> QED
  BY <1>1, FilesInvariance, PTL

-----------------------------------------------------------------------------
(***************************************************************************)
(* Sockets, for all clients, Socks and descriptors: each descriptor has    *)
(* one owner, and no client is called disconnected early.                  *)
(*                                                                         *)
(* To be inductive the first needs that no two secure clients share a Sock *)
(* and that the call the firmware is in has a descriptor to work on        *)
(* (SecureApart, JobOK); the second needs what a cleared flag means        *)
(* (FlagMeansEnd).                                                         *)
(***************************************************************************)
SecureApart ==
    \A c, d \in Secure : ref[c] = ref[d] /\ ref[c] # NoSock => c = d

JobOK ==
    job.op \in {"write", "tls"} =>
        /\ ref[job.client] # NoSock
        /\ FdOf(job.client) # BadFd
        /\ ~Fronted(job.client)
        /\ job.op = "tls" => ssl[job.client] = BadFd

FlagMeansEnd ==
    \A s \in Socks :
        fd[s] # BadFd /\ ~connected[s] => Over(fd[s]) \/ fd[s] \in failed

OrphansOpen == orphan \subseteq open

SocketsIInv ==
    /\ SocketsTypeOK
    /\ DescriptorsOwned
    /\ SecureApart
    /\ JobOK
    /\ FlagMeansEnd
    /\ OrphansOpen

HostTypeOK ==
    /\ rx \in [Fds -> Nat]
    /\ sent \in [Fds -> Nat]
    /\ room \in [Fds -> Nat]
    /\ peer \in [Fds -> {"none", "up", "fin", "reset"}]

LEMMA ClosedKeepsTypes ==
  ASSUME SocketsTypeOK, NEW fs, Closed(fs)
  PROVE  HostTypeOK'
<1>1. rx' \in [Fds -> Nat] /\ sent' \in [Fds -> Nat]
  BY DEF SocketsTypeOK, Closed
<1>2. room' \in [Fds -> Nat]
  BY SocketsAssumption DEF SocketsTypeOK, Closed
<1>3. peer' \in [Fds -> {"none", "up", "fin", "reset"}]
  BY DEF SocketsTypeOK, Closed
<1> QED
  BY <1>1, <1>2, <1>3 DEF HostTypeOK

\* No ping is under way before and after a step: there is no third owner.
NoPing == Pinging = {} /\ Pinging' = {} /\ PingOwns'

LEMMA NoPingByOp ==
  ASSUME job.op # "ping", job'.op # "ping"
  PROVE  NoPing
BY DEF NoPing, Pinging, PingOwns

LEMMA IdleOp == Idle.op = "none"
BY DEF Idle

LEMMA IdleJobOK == job' = Idle => JobOK'
BY DEF JobOK, Idle

LEMMA SameJob == job' = job => Pinging' = Pinging
BY DEF Pinging

(***************************************************************************)
(* The two ways descriptors are closed.                                    *)
(***************************************************************************)
\* Clients change what they share: what nobody shares any longer is closed, what
\* is shared still is as it was.
LEMMA ShareKeeps ==
  ASSUME SocketsIInv,
         NEW r \in [Clients -> Socks \cup {NoSock}],
         Held(r) \subseteq Live,
         Share(r),
         ssl' \in [Secure -> Fds \cup {BadFd}],
         pend' \in [Secure -> Nat],
         \A c \in Secure : ssl'[c] # BadFd => ssl'[c] = ssl[c] /\ r[c] = ref[c],
         \A c, d \in Secure : r[c] = r[d] /\ r[c] # NoSock => c = d,
         UNCHANGED <<listenfd, job>>,
         job = Idle
  PROVE  SocketsIInv'
<1>0. NoPing
  BY NoPingByOp, IdleOp
<1> DEFINE gone == Dropped(r)
<1>1. /\ ref' = r
      /\ fd' = [s \in Socks |-> IF s \in Held(r) THEN fd[s] ELSE BadFd]
      /\ connected' = [s \in Socks |-> s \in Held(r) /\ connected[s]]
      /\ open' = open \ gone
      /\ failed' = failed \ gone
      /\ orphan' = orphan
      /\ rx' = [f \in Fds |-> IF f \in gone THEN 0 ELSE rx[f]]
      /\ peer' = [f \in Fds |-> IF f \in gone THEN "none" ELSE peer[f]]
      /\ backlog' = backlog
  BY DEF Share, Closed
<1>2. Live' = Held(r)
  BY <1>1 DEF Live, Held
<1>3. \A s \in Held(r) : fd'[s] = fd[s] /\ connected'[s] = connected[s]
  BY <1>1 DEF Held, SocketsIInv, SocketsTypeOK
<1>4. \A s \in Socks : fd'[s] # BadFd => s \in Held(r)
  BY <1>1
<1>5. \A s \in Held(r) : fd[s] \notin gone
  BY DEF SocketsIInv, DescriptorsOwned, SocksOwn, Held, Dropped
<1>6. SocketsTypeOK'
  <2>1. open' \subseteq Fds /\ failed' \subseteq Fds /\ orphan' \subseteq Fds /\ backlog' \in Nat
    BY <1>1 DEF SocketsIInv, SocketsTypeOK
  <2>2. ref' \in [Clients -> Socks \cup {NoSock}] /\ connected' \in [Socks -> BOOLEAN]
    BY <1>1 DEF SocketsIInv, SocketsTypeOK
  <2>3. fd' \in [Socks -> Fds \cup {BadFd}]
    BY <1>1 DEF SocketsIInv, SocketsTypeOK
  <2>4. HostTypeOK'
    BY ClosedKeepsTypes DEF SocketsIInv, SocketsTypeOK, Share
  <2> QED
    BY <2>1, <2>2, <2>3, <2>4 DEF SocketsIInv, SocketsTypeOK, HostTypeOK
<1>7. SocksOwn'
  BY <1>1, <1>2, <1>3, <1>4, <1>5 DEF SocketsIInv, DescriptorsOwned, SocksOwn, Held
<1>8. ListenerOwns'
  <2>1. listenfd \notin gone
    BY DEF SocketsIInv, DescriptorsOwned, ListenerOwns, Dropped
  <2> QED
    BY <1>1, <1>3, <1>4, <2>1 DEF SocketsIInv, DescriptorsOwned, ListenerOwns, Held
<1>9. NothingLeaks'
  <2> SUFFICES ASSUME NEW f \in open' \ orphan', f # listenfd
               PROVE  \E s \in Socks : fd'[s] = f
    BY <1>0 DEF NoPing, NothingLeaks
  <2>1. PICK s \in Socks : fd[s] = f
    BY <1>0, <1>1 DEF NoPing, SocketsIInv, DescriptorsOwned, NothingLeaks
  <2>2. f # BadFd
    BY <1>1, SocketsAssumption DEF SocketsIInv, SocketsTypeOK
  <2>3. s \in Held(r)
    BY <1>1, <2>1, <2>2 DEF Dropped
  <2> QED
    BY <1>3, <2>1, <2>3
<1>10. SslBound'
  <2> SUFFICES ASSUME NEW c \in Secure, ssl'[c] # BadFd
               PROVE  FdOf(c)' = ssl'[c]
    BY DEF SslBound
  <2>1. FdOf(c) = ssl[c] /\ ssl[c] # BadFd /\ c \in Clients
    BY SocketsAssumption DEF SocketsIInv, DescriptorsOwned, SslBound
  <2>2. ref[c] # NoSock /\ fd[ref[c]] = ssl[c]
    BY <2>1 DEF FdOf
  <2>3. ref[c] \in Held(r)
    BY <2>1, <2>2, SocketsAssumption DEF Held, SocketsIInv, SocketsTypeOK
  <2> QED
    BY <1>1, <1>3, <2>1, <2>2, <2>3 DEF FdOf
<1>11. SecureApart'
  BY <1>1 DEF SecureApart
<1>12. JobOK'
  BY DEF JobOK, Idle
<1>13. FlagMeansEnd'
  <2> SUFFICES ASSUME NEW s \in Socks, fd'[s] # BadFd, ~connected'[s]
               PROVE  (Over(fd[s]) \/ fd[s] \in failed)'
    BY DEF FlagMeansEnd
  <2>1. s \in Held(r) /\ fd'[s] = fd[s] /\ connected'[s] = connected[s] /\ fd[s] \notin gone
    BY <1>3, <1>4, <1>5
  <2>2. fd[s] \in Fds
    BY <2>1 DEF SocketsIInv, SocketsTypeOK
  <2>3. Over(fd[s]) \/ fd[s] \in failed
    BY <2>1 DEF SocketsIInv, FlagMeansEnd
  <2>4. rx'[fd[s]] = rx[fd[s]] /\ peer'[fd[s]] = peer[fd[s]]
    BY <1>1, <2>1, <2>2
  <2> QED
    BY <1>1, <2>1, <2>3, <2>4 DEF Over
<1>14. OrphansOpen'
  <2>1. gone \cap orphan = {}
    BY DEF SocketsIInv, DescriptorsOwned, SocksOwn, Dropped
  <2> QED
    BY <1>1, <2>1 DEF SocketsIInv, OrphansOpen
<1> QED
  BY <1>0, <1>6, <1>7, <1>8, <1>9, <1>10, <1>11, <1>12, <1>13, <1>14 DEF NoPing, SocketsIInv, DescriptorsOwned

\* stop() on a client no secure client stands behind.
LEMMA StopKeeps ==
  ASSUME SocketsIInv,
         NEW c \in Clients,
         ref[c] # NoSock,
         ~Fronted(c),
         BaseStop(c),
         ssl' \in [Secure -> Fds \cup {BadFd}],
         pend' \in [Secure -> Nat],
         \A d \in Secure : ssl'[d] # BadFd => d # c /\ ssl'[d] = ssl[d],
         UNCHANGED listenfd,
         job' = Idle,
         job.op # "ping"
  PROVE  SocketsIInv'
<1>0. NoPing
  BY NoPingByOp, IdleOp
<1> DEFINE s0 == ref[c]
           gone == {FdOf(c)} \ {BadFd}
<1>1. s0 \in Socks /\ FdOf(c) = fd[s0] /\ s0 \in Live
  BY DEF SocketsIInv, SocketsTypeOK, FdOf, Live, Held
<1>2. /\ ref' = ref
      /\ fd' = [fd EXCEPT ![s0] = BadFd]
      /\ connected' = [connected EXCEPT ![s0] = FALSE]
      /\ open' = open \ gone
      /\ failed' = failed \ gone
      /\ orphan' = orphan
      /\ rx' = [f \in Fds |-> IF f \in gone THEN 0 ELSE rx[f]]
      /\ peer' = [f \in Fds |-> IF f \in gone THEN "none" ELSE peer[f]]
      /\ backlog' = backlog
  BY DEF BaseStop, Closed
<1>3. \A s \in Socks : fd'[s] # BadFd => s # s0 /\ fd'[s] = fd[s] /\ connected'[s] = connected[s]
  BY <1>1, <1>2 DEF SocketsIInv, SocketsTypeOK
<1>4. \A s \in Socks : fd'[s] # BadFd => fd[s] \notin gone
  BY <1>1, <1>3 DEF SocketsIInv, DescriptorsOwned, SocksOwn
<1>5. SocketsTypeOK'
  <2>1. open' \subseteq Fds /\ failed' \subseteq Fds /\ orphan' \subseteq Fds /\ backlog' \in Nat
    BY <1>2 DEF SocketsIInv, SocketsTypeOK
  <2>2. ref' \in [Clients -> Socks \cup {NoSock}] /\ connected' \in [Socks -> BOOLEAN]
    BY <1>2 DEF SocketsIInv, SocketsTypeOK
  <2>3. fd' \in [Socks -> Fds \cup {BadFd}]
    BY <1>2 DEF SocketsIInv, SocketsTypeOK
  <2>4. HostTypeOK'
    BY ClosedKeepsTypes DEF SocketsIInv, SocketsTypeOK, BaseStop
  <2> QED
    BY <2>1, <2>2, <2>3, <2>4 DEF SocketsIInv, SocketsTypeOK, HostTypeOK
<1>6. SocksOwn'
  BY <1>2, <1>3, <1>4 DEF SocketsIInv, DescriptorsOwned, SocksOwn, Live, Held
<1>7. ListenerOwns'
  BY <1>1, <1>2, <1>3 DEF SocketsIInv, DescriptorsOwned, ListenerOwns
<1>8. NothingLeaks'
  <2> SUFFICES ASSUME NEW f \in open' \ orphan', f # listenfd
               PROVE  \E s \in Socks : fd'[s] = f
    BY <1>0 DEF NoPing, NothingLeaks
  <2>1. PICK s \in Socks : fd[s] = f
    BY <1>0, <1>2 DEF NoPing, SocketsIInv, DescriptorsOwned, NothingLeaks
  <2>2. f # BadFd
    BY <1>2, SocketsAssumption DEF SocketsIInv, SocketsTypeOK
  <2>3. s # s0
    BY <1>1, <1>2, <2>1, <2>2
  <2> QED
    BY <1>2, <2>1, <2>3 DEF SocketsIInv, SocketsTypeOK
<1>9. SslBound'
  <2> SUFFICES ASSUME NEW d \in Secure, ssl'[d] # BadFd
               PROVE  FdOf(d)' = ssl'[d]
    BY DEF SslBound
  <2>1. d # c /\ ssl[d] # BadFd /\ ssl'[d] = ssl[d] /\ FdOf(d) = ssl[d]
    BY DEF SocketsIInv, DescriptorsOwned, SslBound
  <2>2. ref[d] # NoSock /\ fd[ref[d]] = ssl[d] /\ ref[d] \in Socks
    BY <2>1, SocketsAssumption DEF FdOf, SocketsIInv, SocketsTypeOK
  <2>3. ref[d] # s0
    BY <2>1, <2>2 DEF SocketsIInv, SecureApart, Fronted
  <2> QED
    BY <1>2, <2>1, <2>2, <2>3 DEF FdOf, SocketsIInv, SocketsTypeOK
<1>10. SecureApart'
  BY <1>2 DEF SocketsIInv, SecureApart
<1>11. JobOK'
  BY DEF JobOK, Idle
<1>12. FlagMeansEnd'
  <2> SUFFICES ASSUME NEW s \in Socks, fd'[s] # BadFd, ~connected'[s]
               PROVE  (Over(fd[s]) \/ fd[s] \in failed)'
    BY DEF FlagMeansEnd
  <2>1. fd'[s] = fd[s] /\ connected'[s] = connected[s] /\ fd[s] \notin gone
    BY <1>3, <1>4
  <2>2. fd[s] \in Fds
    BY <2>1 DEF SocketsIInv, SocketsTypeOK
  <2>3. Over(fd[s]) \/ fd[s] \in failed
    BY <2>1 DEF SocketsIInv, FlagMeansEnd
  <2>4. rx'[fd[s]] = rx[fd[s]] /\ peer'[fd[s]] = peer[fd[s]]
    BY <1>2, <2>1, <2>2
  <2> QED
    BY <1>2, <2>1, <2>3, <2>4 DEF Over
<1>13. OrphansOpen'
  BY <1>1, <1>2 DEF SocketsIInv, DescriptorsOwned, SocksOwn, OrphansOpen
<1> QED
  BY <1>0, <1>5, <1>6, <1>7, <1>8, <1>9, <1>10, <1>11, <1>12, <1>13 DEF NoPing, SocketsIInv, DescriptorsOwned

\* Steps that leave descriptors and their owners alone.
LEMMA OwnersKept ==
  ASSUME SocketsIInv,
         UNCHANGED <<ref, fd, listenfd, open, orphan>>,
         \A c \in Secure : ssl'[c] # BadFd => ssl'[c] = ssl[c],
         Pinging' = Pinging,
         SocketsTypeOK', JobOK', FlagMeansEnd'
  PROVE  SocketsIInv'
<1>1. SocksOwn'
  BY DEF SocketsIInv, DescriptorsOwned, SocksOwn, Live, Held
<1>2. ListenerOwns' /\ PingOwns' /\ NothingLeaks'
  BY DEF SocketsIInv, DescriptorsOwned, ListenerOwns, PingOwns, NothingLeaks
<1>3. SslBound'
  BY DEF SocketsIInv, DescriptorsOwned, SslBound, FdOf
<1>4. SecureApart' /\ OrphansOpen'
  BY DEF SocketsIInv, SecureApart, OrphansOpen
<1> QED
  BY <1>1, <1>2, <1>3, <1>4 DEF SocketsIInv, DescriptorsOwned

(***************************************************************************)
(* Objects.                                                                *)
(***************************************************************************)
LEMMA MakeKeeps ==
  ASSUME SocketsIInv, NEW c \in Clients, Make(c)
  PROVE  SocketsIInv'
<1>1. PICK s \in Socks \ Live : ref' = [ref EXCEPT ![c] = s]
  BY DEF Make
<1>2. /\ job = Idle /\ ref[c] = NoSock
      /\ UNCHANGED <<fd, connected, ssl, pend, listenfd, job, hostVars>>
  BY DEF Make
<1>0. NoPing
  BY <1>2, NoPingByOp, IdleOp
<1>3. fd[s] = BadFd
  BY <1>1 DEF SocketsIInv, DescriptorsOwned, SocksOwn
<1>4. SocketsTypeOK'
  BY <1>1, <1>2 DEF SocketsIInv, SocketsTypeOK, hostVars
<1>5. Live \subseteq Live'
  BY <1>1, <1>2, SocketsAssumption DEF SocketsIInv, SocketsTypeOK, Live, Held
<1>6. SocksOwn'
  BY <1>2, <1>5 DEF SocketsIInv, DescriptorsOwned, SocksOwn, hostVars
<1>7. ListenerOwns' /\ NothingLeaks'
  BY <1>2, <1>0 DEF NoPing, SocketsIInv, DescriptorsOwned, ListenerOwns, NothingLeaks, hostVars
<1>8. SslBound'
  <2> SUFFICES ASSUME NEW d \in Secure, ssl[d] # BadFd
               PROVE  FdOf(d)' = ssl[d]
    BY <1>2 DEF SslBound
  <2>1. FdOf(d) = ssl[d] /\ d \in Clients
    BY SocketsAssumption DEF SocketsIInv, DescriptorsOwned, SslBound
  <2>2. ref[d] # NoSock
    BY <2>1 DEF FdOf
  <2>3. ref'[d] = ref[d]
    BY <1>1, <1>2, <2>1, <2>2 DEF SocketsIInv, SocketsTypeOK
  <2> QED
    BY <1>2, <2>1, <2>3 DEF FdOf
<1>9. SecureApart'
  BY <1>1, <1>2, SocketsAssumption DEF SocketsIInv, SocketsTypeOK, SecureApart, Live, Held
<1>10. JobOK'
  BY <1>2 DEF JobOK, Idle
<1>11. FlagMeansEnd' /\ OrphansOpen'
  BY <1>2 DEF SocketsIInv, FlagMeansEnd, OrphansOpen, Over, hostVars
<1> QED
  BY <1>0, <1>4, <1>6, <1>7, <1>8, <1>9, <1>10, <1>11 DEF NoPing, SocketsIInv, DescriptorsOwned

LEMMA CopyKeeps ==
  ASSUME SocketsIInv, NEW c \in Clients, NEW d \in Clients, Copy(c, d)
  PROVE  SocketsIInv'
<1> DEFINE r == [ref EXCEPT ![d] = ref[c]]
<1>1. r \in [Clients -> Socks \cup {NoSock}] /\ Held(r) \subseteq Live
  BY DEF SocketsIInv, SocketsTypeOK, Live, Held
<1>2. \A e \in Secure : r[e] = ref[e]
  BY SocketsAssumption DEF Copy, SocketsIInv, SocketsTypeOK
<1>3. Share(r) /\ UNCHANGED <<ssl, pend, listenfd, job>> /\ job = Idle
  BY DEF Copy
<1>4. ssl' \in [Secure -> Fds \cup {BadFd}] /\ pend' \in [Secure -> Nat]
  BY <1>3 DEF SocketsIInv, SocketsTypeOK
<1>5. \A e, g \in Secure : r[e] = r[g] /\ r[e] # NoSock => e = g
  BY <1>2 DEF SocketsIInv, SecureApart
<1>6. \A e \in Secure : ssl'[e] # BadFd => ssl'[e] = ssl[e] /\ r[e] = ref[e]
  BY <1>2, <1>3
<1> HIDE DEF r
<1> QED
  BY <1>1, <1>3, <1>4, <1>5, <1>6, ShareKeeps

LEMMA DeleteKeeps ==
  ASSUME SocketsIInv, NEW c \in Clients, Delete(c)
  PROVE  SocketsIInv'
<1> DEFINE r == [ref EXCEPT ![c] = NoSock]
<1>1. r \in [Clients -> Socks \cup {NoSock}] /\ Held(r) \subseteq Live
  BY SocketsAssumption DEF SocketsIInv, SocketsTypeOK, Live, Held
<1>2. Share(r) /\ NoTls(c) /\ UNCHANGED <<listenfd, job>> /\ job = Idle
  BY DEF Delete
<1>3. ssl' \in [Secure -> Fds \cup {BadFd}] /\ pend' \in [Secure -> Nat]
  BY <1>2 DEF NoTls, SocketsIInv, SocketsTypeOK
<1>4. \A e \in Secure : ssl'[e] # BadFd => ssl'[e] = ssl[e] /\ r[e] = ref[e]
  BY <1>2, SocketsAssumption DEF NoTls, SocketsIInv, SocketsTypeOK
<1>5. \A e, g \in Secure : r[e] = r[g] /\ r[e] # NoSock => e = g
  BY SocketsAssumption DEF SocketsIInv, SocketsTypeOK, SecureApart
<1> HIDE DEF r
<1> QED
  BY <1>1, <1>2, <1>3, <1>4, <1>5, ShareKeeps

(***************************************************************************)
(* connect() and the handshake.                                            *)
(***************************************************************************)
LEMMA ConnectFailsKeeps ==
  ASSUME SocketsIInv, NEW c \in Clients, ConnectFails(c)
  PROVE  SocketsIInv'
<1>1. /\ NoTls(c) /\ job = Idle
      /\ UNCHANGED <<ref, fd, connected, listenfd, job, hostVars>>
  BY DEF ConnectFails, Callable
<1>2. \A d \in Secure : ssl'[d] # BadFd => ssl'[d] = ssl[d]
  BY <1>1 DEF NoTls
<1>3. ssl' \in [Secure -> Fds \cup {BadFd}] /\ pend' \in [Secure -> Nat]
  BY <1>1 DEF NoTls, SocketsIInv, SocketsTypeOK
<1>4. SocketsTypeOK'
  BY <1>1, <1>3 DEF SocketsIInv, SocketsTypeOK, hostVars
<1>5. JobOK' /\ FlagMeansEnd'
  BY <1>1, IdleJobOK DEF SocketsIInv, FlagMeansEnd, Over, hostVars
<1> QED
  BY <1>1, <1>2, <1>4, <1>5, SameJob, OwnersKept DEF hostVars

LEMMA ConnectsKeeps ==
  ASSUME SocketsIInv, NEW c \in Clients, NEW f \in Free, Connects(c, f)
  PROVE  SocketsIInv'
<1> DEFINE s0 == ref[c]
           old == {FdOf(c)} \ {BadFd}
<1>1. /\ job = Idle /\ s0 # NoSock /\ ~Fronted(c)
      /\ NoTls(c)
      /\ open' = open \cup {f}
      /\ peer' = [peer EXCEPT ![f] = "up"]
      /\ orphan' = orphan \cup old
      /\ fd' = [fd EXCEPT ![s0] = f]
      /\ connected' = [connected EXCEPT ![s0] = TRUE]
      /\ job' = IF c \in Secure THEN [op |-> "tls", client |-> c, n |-> MaxTries] ELSE Idle
      /\ UNCHANGED <<ref, listenfd, rx, sent, room, backlog, failed>>
  BY DEF Connects, Callable
<1>0. NoPing
  BY <1>1, NoPingByOp, IdleOp
<1>2. f \in Fds /\ f \notin open /\ f # BadFd
  BY SocketsAssumption DEF Free
<1>3. s0 \in Socks /\ s0 \in Live /\ FdOf(c) = fd[s0]
  BY <1>1 DEF SocketsIInv, SocketsTypeOK, Live, Held, FdOf
<1>4. fd'[s0] = f /\ \A s \in Socks \ {s0} : fd'[s] = fd[s] /\ connected'[s] = connected[s]
  BY <1>1, <1>3 DEF SocketsIInv, SocketsTypeOK
<1>5. old \subseteq open
  BY <1>3 DEF SocketsIInv, DescriptorsOwned, SocksOwn
<1>6. f \notin orphan
  <2>1. CASE f \in orphan
    BY <1>2, <2>1 DEF SocketsIInv, OrphansOpen
  <2> QED
    BY <2>1
<1>7. SocketsTypeOK'
  <2>1. ssl' \in [Secure -> Fds \cup {BadFd}] /\ pend' \in [Secure -> Nat]
    BY <1>1 DEF NoTls, SocketsIInv, SocketsTypeOK
  <2>2. job' \in {Idle} \cup [op : {"tls"}, client : Secure, n : Nat]
    BY <1>1, SocketsAssumption
  <2>3. fd' \in [Socks -> Fds \cup {BadFd}] /\ connected' \in [Socks -> BOOLEAN]
    BY <1>1, <1>2 DEF SocketsIInv, SocketsTypeOK
  <2>4. peer' \in [Fds -> {"none", "up", "fin", "reset"}]
    BY <1>1, <1>2 DEF SocketsIInv, SocketsTypeOK
  <2>5. open' \subseteq Fds /\ orphan' \subseteq Fds
    BY <1>1, <1>2, <1>5 DEF SocketsIInv, SocketsTypeOK
  <2> QED
    BY <1>1, <2>1, <2>2, <2>3, <2>4, <2>5 DEF SocketsIInv, SocketsTypeOK
<1>8. SocksOwn'
  <2>1. Live' = Live
    BY <1>1 DEF Live, Held
  <2>2. \A s \in Socks \ {s0} : fd[s] # BadFd => fd[s] \notin old
    BY <1>3 DEF SocketsIInv, DescriptorsOwned, SocksOwn
  <2> QED
    BY <1>1, <1>2, <1>3, <1>4, <1>5, <1>6, <2>1, <2>2 DEF SocketsIInv, DescriptorsOwned, SocksOwn
<1>9. ListenerOwns'
  BY <1>1, <1>2, <1>3, <1>4 DEF SocketsIInv, DescriptorsOwned, ListenerOwns
<1>10. NothingLeaks'
  <2> SUFFICES ASSUME NEW g \in open' \ orphan', g # listenfd
               PROVE  \E s \in Socks : fd'[s] = g
    BY <1>0, <1>1 DEF NoPing, NothingLeaks
  <2>1. CASE g = f
    BY <1>3, <1>4, <2>1
  <2>2. CASE g # f
    <3>1. g \in open \ orphan /\ g \notin old /\ g # BadFd
      BY <1>1, <2>2, SocketsAssumption DEF SocketsIInv, SocketsTypeOK
    <3>2. PICK s \in Socks : fd[s] = g
      BY <1>0, <3>1 DEF NoPing, SocketsIInv, DescriptorsOwned, NothingLeaks
    <3>3. s # s0
      BY <1>3, <3>1, <3>2
    <3> QED
      BY <1>4, <3>2, <3>3
  <2> QED
    BY <2>1, <2>2
<1>11. SslBound'
  <2> SUFFICES ASSUME NEW d \in Secure, ssl'[d] # BadFd
               PROVE  FdOf(d)' = ssl'[d]
    BY DEF SslBound
  <2>1. d # c /\ ssl'[d] = ssl[d] /\ FdOf(d) = ssl[d]
    BY <1>1 DEF NoTls, SocketsIInv, DescriptorsOwned, SslBound
  <2>2. ref[d] # NoSock /\ fd[ref[d]] = ssl[d] /\ ref[d] \in Socks
    BY <2>1, SocketsAssumption DEF FdOf, SocketsIInv, SocketsTypeOK
  <2>3. ref[d] # s0
    BY <1>1, <2>1, <2>2 DEF SocketsIInv, SecureApart, Fronted
  <2> QED
    BY <1>1, <1>4, <2>1, <2>2, <2>3 DEF FdOf
<1>12. SecureApart'
  BY <1>1 DEF SocketsIInv, SecureApart
<1>13. JobOK'
  <2>1. CASE c \notin Secure
    BY <1>1, <2>1 DEF JobOK, Idle
  <2>2. CASE c \in Secure
    <3>1. job'.client = c /\ ssl'[c] = BadFd
      BY <1>1, <2>2 DEF NoTls
    <3>2. FdOf(c)' = f /\ ~Fronted(c)'
      BY <1>1, <1>4, <2>2 DEF FdOf, Fronted
    <3> QED
      BY <1>1, <1>2, <3>1, <3>2 DEF JobOK, Idle
  <2> QED
    BY <2>1, <2>2
<1>14. FlagMeansEnd'
  <2> SUFFICES ASSUME NEW s \in Socks, fd'[s] # BadFd, ~connected'[s]
               PROVE  (Over(fd[s]) \/ fd[s] \in failed)'
    BY DEF FlagMeansEnd
  <2>1. s # s0
    BY <1>1, <1>3 DEF SocketsIInv, SocketsTypeOK
  <2>2. fd'[s] = fd[s] /\ ~connected[s] /\ fd[s] \in open /\ fd[s] \in Fds
    BY <1>4, <2>1 DEF SocketsIInv, SocketsTypeOK, DescriptorsOwned, SocksOwn
  <2>3. peer'[fd[s]] = peer[fd[s]]
    BY <1>1, <1>2, <2>2 DEF SocketsIInv, SocketsTypeOK
  <2> QED
    BY <1>1, <2>2, <2>3 DEF SocketsIInv, FlagMeansEnd, Over
<1>15. OrphansOpen'
  BY <1>1, <1>5 DEF SocketsIInv, OrphansOpen
<1> QED
  BY <1>0, <1>7, <1>8, <1>9, <1>10, <1>11, <1>12, <1>13, <1>14, <1>15 DEF NoPing, SocketsIInv, DescriptorsOwned

LEMMA HandshakeKeeps ==
  ASSUME SocketsIInv, HandshakeSteps
  PROVE  SocketsIInv'
<1>1. job.op = "tls" /\ job # Idle
  BY DEF HandshakeSteps, HandshakeDone, HandshakeWaits, HandshakeFails, Idle
<1>2. job \in [op : {"tls"}, client : Secure, n : Nat]
  BY <1>1 DEF SocketsIInv, SocketsTypeOK, Idle
<1>3. /\ job.client \in Clients /\ job.client \in Secure
      /\ ref[job.client] # NoSock /\ ~Fronted(job.client)
      /\ FdOf(job.client) # BadFd /\ ssl[job.client] = BadFd
  BY <1>1, <1>2, SocketsAssumption DEF SocketsIInv, JobOK
<1>4. ref[job.client] \in Socks /\ FdOf(job.client) \in Fds
  BY <1>3 DEF SocketsIInv, SocketsTypeOK, FdOf
<1>0. job'.op # "ping"
  BY <1>2, IdleOp DEF HandshakeSteps, HandshakeDone, HandshakeWaits, HandshakeFails
<1>10. NoPing
  BY <1>0, <1>1, NoPingByOp
<1>5. CASE HandshakeDone
  <2>1. /\ ssl' = [ssl EXCEPT ![job.client] = FdOf(job.client)]
        /\ job' = Idle
        /\ UNCHANGED <<ref, fd, connected, pend, listenfd, hostVars>>
    BY <1>5 DEF HandshakeDone
  <2>2. SocketsTypeOK'
    BY <1>4, <2>1 DEF SocketsIInv, SocketsTypeOK, hostVars
  <2>3. SocksOwn' /\ ListenerOwns' /\ PingOwns' /\ NothingLeaks'
    BY <1>10, <2>1 DEF NoPing, SocketsIInv, DescriptorsOwned, SocksOwn, ListenerOwns, NothingLeaks, Live, Held, hostVars
  <2>4. SslBound'
    BY <1>3, <2>1 DEF SocketsIInv, SocketsTypeOK, DescriptorsOwned, SslBound, FdOf
  <2>5. SecureApart' /\ JobOK' /\ FlagMeansEnd' /\ OrphansOpen'
    BY <2>1, IdleJobOK DEF SocketsIInv, SecureApart, FlagMeansEnd, OrphansOpen, Over, hostVars
  <2> QED
    BY <2>2, <2>3, <2>4, <2>5 DEF SocketsIInv, DescriptorsOwned
<1>6. CASE HandshakeWaits
  <2>1. job.n > 0 /\ job' = [job EXCEPT !.n = @ - 1] /\ UNCHANGED <<objectVars, hostVars>>
    BY <1>6 DEF HandshakeWaits
  <2>2. job' \in [op : {"tls"}, client : Secure, n : Nat] /\ job'.client = job.client
    BY <1>2, <2>1
  <2>3. SocketsTypeOK'
    BY <2>1, <2>2 DEF SocketsIInv, SocketsTypeOK, objectVars, hostVars
  <2>4. JobOK'
    BY <1>3, <2>1, <2>2, IdleJobOK DEF JobOK, FdOf, Fronted, objectVars
  <2>5. FlagMeansEnd'
    BY <2>1 DEF SocketsIInv, FlagMeansEnd, Over, objectVars, hostVars
  <2> QED
    BY <1>10, <2>1, <2>3, <2>4, <2>5, OwnersKept DEF NoPing, objectVars, hostVars
<1>7. CASE HandshakeFails
  <2>1. BaseStop(job.client) /\ job' = Idle /\ UNCHANGED <<ssl, pend, listenfd>>
    BY <1>7 DEF HandshakeFails
  <2>2. ssl' \in [Secure -> Fds \cup {BadFd}] /\ pend' \in [Secure -> Nat]
    BY <2>1 DEF SocketsIInv, SocketsTypeOK
  <2> QED
    BY <1>1, <1>3, <2>1, <2>2, StopKeeps
<1> QED
  BY <1>5, <1>6, <1>7 DEF HandshakeSteps

(***************************************************************************)
(* write(), read(), connected(), the listener and the peers.               *)
(***************************************************************************)
LEMMA WriteKeeps ==
  ASSUME SocketsIInv, NEW c \in Clients, NEW n \in 1 .. MaxWrite, Write(c, n)
  PROVE  SocketsIInv'
<1>1. /\ job = Idle /\ ref[c] # NoSock /\ ~Fronted(c) /\ FdOf(c) # BadFd
      /\ job' = [op |-> "write", client |-> c, n |-> n]
      /\ UNCHANGED <<objectVars, hostVars>>
  BY DEF Write, Callable
<1>2. n \in Nat \ {0}
  BY SocketsAssumption
<1>3. SocketsTypeOK'
  BY <1>1, <1>2 DEF SocketsIInv, SocketsTypeOK, objectVars, hostVars
<1>4. JobOK'
  BY <1>1 DEF JobOK, FdOf, Fronted, objectVars
<1>5. FlagMeansEnd'
  BY <1>1 DEF SocketsIInv, FlagMeansEnd, Over, objectVars, hostVars
<1>6. NoPing
  BY <1>1, IdleOp, NoPingByOp
<1> QED
  BY <1>1, <1>3, <1>4, <1>5, <1>6, OwnersKept DEF NoPing, objectVars, hostVars

LEMMA WriteStepKeeps ==
  ASSUME SocketsIInv, WriteSteps
  PROVE  SocketsIInv'
<1>1. job.op = "write" /\ job # Idle
  BY DEF WriteSteps, WriteSends, WriteFails, Idle
<1>2. job \in [op : {"write"}, client : Clients, n : Nat \ {0}]
  BY <1>1 DEF SocketsIInv, SocketsTypeOK, Idle
<1>3. /\ job.client \in Clients /\ ref[job.client] # NoSock /\ ~Fronted(job.client)
      /\ FdOf(job.client) # BadFd
  BY <1>1, <1>2 DEF SocketsIInv, JobOK
<1>4. /\ ref[job.client] \in Socks /\ FdOf(job.client) \in Fds
      /\ FdOf(job.client) = fd[ref[job.client]]
  BY <1>3 DEF SocketsIInv, SocketsTypeOK, FdOf
<1>0. job'.op # "ping"
  BY <1>2, IdleOp DEF WriteSteps, WriteSends, WriteFails
<1>10. NoPing
  BY <1>0, <1>1, NoPingByOp
<1>5. CASE WriteSends
  <2>1. /\ room[FdOf(job.client)] > 0
        /\ room' = [room EXCEPT ![FdOf(job.client)] = @ - 1]
        /\ job' = IF job.n = 1 THEN Idle ELSE [job EXCEPT !.n = @ - 1]
        /\ UNCHANGED <<objectVars, open, rx, sent, peer, backlog, failed, orphan>>
    BY <1>5 DEF WriteSends
  <2>2. job' = Idle \/ (job' \in [op : {"write"}, client : Clients, n : Nat \ {0}]
                        /\ job'.client = job.client)
    BY <1>2, <2>1
  <2>3. room' \in [Fds -> Nat]
    BY <1>4, <2>1 DEF SocketsIInv, SocketsTypeOK
  <2>4. SocketsTypeOK'
    BY <2>1, <2>2, <2>3 DEF SocketsIInv, SocketsTypeOK, objectVars
  <2>5. JobOK'
    BY <1>3, <2>1, <2>2, IdleJobOK DEF JobOK, FdOf, Fronted, objectVars
  <2>6. FlagMeansEnd'
    BY <2>1 DEF SocketsIInv, FlagMeansEnd, Over, objectVars
  <2> QED
    BY <1>10, <2>1, <2>4, <2>5, <2>6, OwnersKept DEF NoPing, objectVars
<1>6. CASE WriteFails
  <2>1. /\ connected' = [connected EXCEPT ![ref[job.client]] = job.client \in Secure /\ @]
        /\ failed' = failed \cup {FdOf(job.client)}
        /\ job' = Idle
        /\ UNCHANGED <<ref, fd, ssl, pend, listenfd, open, rx, sent, room, peer,
                       backlog, orphan>>
    BY <1>6 DEF WriteFails
  <2>2. connected' \in [Socks -> BOOLEAN]
    BY <1>4, <2>1 DEF SocketsIInv, SocketsTypeOK
  <2>3. SocketsTypeOK'
    BY <1>4, <2>1, <2>2 DEF SocketsIInv, SocketsTypeOK
  <2>4. JobOK'
    BY <2>1, IdleJobOK
  <2>5. FlagMeansEnd'
    BY <1>4, <2>1 DEF SocketsIInv, SocketsTypeOK, FlagMeansEnd, Over
  <2> QED
    BY <1>10, <2>1, <2>3, <2>4, <2>5, OwnersKept DEF NoPing
<1> QED
  BY <1>5, <1>6 DEF WriteSteps

LEMMA PlainReadKeeps ==
  ASSUME SocketsIInv, NEW c \in Clients, PlainRead(c)
  PROVE  SocketsIInv'
<1>1. /\ job = Idle /\ ref[c] # NoSock /\ FdOf(c) # BadFd
      /\ UNCHANGED <<ref, fd, ssl, pend, listenfd, job, open, sent, room, peer, backlog,
                     failed, orphan>>
  BY DEF PlainRead, Callable
<1>2. ref[c] \in Socks /\ FdOf(c) = fd[ref[c]] /\ FdOf(c) \in Fds
  BY <1>1 DEF SocketsIInv, SocketsTypeOK, FdOf
<1>3. CASE \E n \in 1 .. rx[FdOf(c)] :
             rx' = [rx EXCEPT ![FdOf(c)] = @ - n] /\ UNCHANGED connected
  <2>1. PICK n \in 1 .. rx[FdOf(c)] :
             rx' = [rx EXCEPT ![FdOf(c)] = @ - n] /\ UNCHANGED connected
    BY <1>3
  <2>2. rx[FdOf(c)] \in Nat
    BY <1>2 DEF SocketsIInv, SocketsTypeOK
  <2>3. rx' \in [Fds -> Nat] /\ \A f \in Fds : rx'[f] <= rx[f]
    BY <1>2, <2>1, <2>2 DEF SocketsIInv, SocketsTypeOK
  <2>4. SocketsTypeOK'
    BY <1>1, <2>1, <2>3 DEF SocketsIInv, SocketsTypeOK
  <2>5. FlagMeansEnd'
    BY <1>1, <2>1, <2>3 DEF SocketsIInv, SocketsTypeOK, FlagMeansEnd, Over
  <2> QED
    BY <1>1, <2>4, <2>5, IdleJobOK, SameJob, OwnersKept
<1>4. CASE /\ Over(FdOf(c))
           /\ connected' = [connected EXCEPT ![ref[c]] = FALSE]
           /\ UNCHANGED rx
  <2>1. SocketsTypeOK'
    BY <1>1, <1>2, <1>4 DEF SocketsIInv, SocketsTypeOK
  <2>2. FlagMeansEnd'
    BY <1>1, <1>2, <1>4 DEF SocketsIInv, SocketsTypeOK, FlagMeansEnd, Over
  <2> QED
    BY <1>1, <2>1, <2>2, IdleJobOK, SameJob, OwnersKept
<1> QED
  BY <1>3, <1>4 DEF PlainRead

LEMMA NoticesEndKeeps ==
  ASSUME SocketsIInv, NEW c \in Clients, NoticesEnd(c)
  PROVE  SocketsIInv'
<1>1. /\ job = Idle /\ ref[c] # NoSock /\ FdOf(c) # BadFd /\ Over(FdOf(c))
      /\ connected' = [connected EXCEPT ![ref[c]] = FALSE]
      /\ UNCHANGED <<ref, fd, ssl, pend, listenfd, job, hostVars>>
  BY DEF NoticesEnd, Callable
<1>2. ref[c] \in Socks /\ FdOf(c) = fd[ref[c]]
  BY <1>1 DEF SocketsIInv, SocketsTypeOK, FdOf
<1>3. SocketsTypeOK'
  BY <1>1, <1>2 DEF SocketsIInv, SocketsTypeOK, hostVars
<1>4. FlagMeansEnd'
  BY <1>1, <1>2 DEF SocketsIInv, SocketsTypeOK, FlagMeansEnd, Over, hostVars
<1> QED
  BY <1>1, <1>3, <1>4, IdleJobOK, SameJob, OwnersKept DEF hostVars

LEMMA SslReadKeeps ==
  ASSUME SocketsIInv, NEW c \in Clients, SslAvailable(c) \/ SslRead(c)
  PROVE  SocketsIInv'
<1> DEFINE f == ssl[c]
<1>1. /\ job = Idle /\ c \in Secure /\ f # BadFd
      /\ UNCHANGED <<ref, fd, connected, ssl, listenfd, job, open, sent, room, peer,
                     backlog, failed, orphan>>
  BY DEF SslAvailable, SslRead, Callable
<1>2. f \in Fds /\ rx[f] \in Nat /\ pend[c] \in Nat
  BY <1>1 DEF SocketsIInv, SocketsTypeOK
<1>3. Decrypted(f) \in 0 .. rx[f]
  BY <1>2, SocketsAssumption DEF Decrypted
<1>4. PICK new \in 0 .. rx[f], rest \in Nat :
        /\ rx' = [rx EXCEPT ![f] = @ - new]
        /\ pend' = [pend EXCEPT ![c] = rest]
  <2>1. CASE SslAvailable(c)
    <3>1. /\ pend' = [pend EXCEPT ![c] = Decrypted(f)]
          /\ rx' = [rx EXCEPT ![f] = @ - Decrypted(f)]
      BY <2>1 DEF SslAvailable
    <3>2. Decrypted(f) \in Nat
      BY <1>2, <1>3
    <3> HIDE DEF f
    <3> QED
      BY <1>3, <3>1, <3>2
  <2>2. CASE SslRead(c)
    <3> DEFINE new == IF pend[c] = 0 THEN Decrypted(f) ELSE 0
    <3>1. new \in 0 .. rx[f]
      BY <1>2, <1>3
    <3>2. PICK n \in 1 .. pend[c] + new : pend' = [pend EXCEPT ![c] = @ + new - n]
      BY <2>2 DEF SslRead
    <3>3. pend[c] + new - n \in Nat
      BY <1>2, <3>1, <3>2
    <3>4. rx' = [rx EXCEPT ![f] = @ - new]
      BY <2>2 DEF SslRead
    <3>5. pend' = [pend EXCEPT ![c] = pend[c] + new - n]
      BY <3>2
    <3> QED
      BY <3>1, <3>3, <3>4, <3>5
  <2> QED
    BY <2>1, <2>2
<1>5. rx' \in [Fds -> Nat] /\ \A g \in Fds : rx'[g] <= rx[g]
  BY <1>2, <1>4 DEF SocketsIInv, SocketsTypeOK
<1>6. SocketsTypeOK'
  BY <1>1, <1>4, <1>5 DEF SocketsIInv, SocketsTypeOK
<1>7. FlagMeansEnd'
  BY <1>1, <1>5 DEF SocketsIInv, SocketsTypeOK, FlagMeansEnd, Over
<1> QED
  BY <1>1, <1>6, <1>7, IdleJobOK, SameJob, OwnersKept

LEMMA StopActionKeeps ==
  ASSUME SocketsIInv, NEW c \in Clients, Stop(c)
  PROVE  SocketsIInv'
<1>1. /\ job = Idle /\ ref[c] # NoSock /\ ~Fronted(c)
      /\ NoTls(c) /\ BaseStop(c) /\ UNCHANGED <<listenfd, job>>
  BY DEF Stop, Callable
<1>2. \A d \in Secure : ssl'[d] # BadFd => d # c /\ ssl'[d] = ssl[d]
  BY <1>1 DEF NoTls
<1>3. ssl' \in [Secure -> Fds \cup {BadFd}] /\ pend' \in [Secure -> Nat]
  BY <1>1 DEF NoTls, SocketsIInv, SocketsTypeOK
<1> QED
  BY <1>1, <1>2, <1>3, IdleOp, StopKeeps

LEMMA ListenKeeps ==
  ASSUME SocketsIInv, Begin \/ Unlisten
  PROVE  SocketsIInv'
<1> DEFINE rest == open \ {listenfd}
<1>1. /\ job = Idle
      /\ UNCHANGED <<ref, fd, connected, ssl, pend, job, rx, sent, room, peer, failed, orphan>>
      /\ backlog' = 0
      /\ \/ listenfd' = BadFd /\ open' = rest
         \/ \E f \in Fds \ rest : listenfd' = f /\ open' = rest \cup {f}
  BY DEF Begin, Unlisten
<1>0. NoPing
  BY <1>1, NoPingByOp, IdleOp
<1>2. BadFd \notin open
  BY SocketsAssumption DEF SocketsIInv, SocketsTypeOK
<1>3. \A s \in Socks : fd[s] # BadFd => fd[s] \in rest \ orphan
  BY DEF SocketsIInv, DescriptorsOwned, SocksOwn, ListenerOwns
<1>4. orphan \subseteq rest
  BY <1>2 DEF SocketsIInv, DescriptorsOwned, ListenerOwns, OrphansOpen
<1>5. SocketsTypeOK'
  BY <1>1 DEF SocketsIInv, SocketsTypeOK
<1>6. SocksOwn'
  BY <1>1, <1>3 DEF SocketsIInv, DescriptorsOwned, SocksOwn, Live, Held
<1>7. ListenerOwns'
  <2> SUFFICES ASSUME listenfd' # BadFd
               PROVE  listenfd' \in open' \ orphan /\ \A s \in Socks : fd[s] # listenfd'
    BY <1>1 DEF ListenerOwns
  <2>1. listenfd' \notin rest /\ listenfd' \in open'
    BY <1>1
  <2> QED
    BY <1>3, <1>4, <2>1
<1>8. NothingLeaks'
  BY <1>0, <1>1, <1>2 DEF NoPing, SocketsIInv, DescriptorsOwned, NothingLeaks
<1>9. SslBound' /\ SecureApart' /\ JobOK'
  BY <1>1, IdleJobOK DEF SocketsIInv, DescriptorsOwned, SslBound, SecureApart, FdOf
<1>10. FlagMeansEnd'
  BY <1>1 DEF SocketsIInv, FlagMeansEnd, Over
<1>11. OrphansOpen'
  BY <1>1, <1>4 DEF OrphansOpen
<1> QED
  BY <1>0, <1>5, <1>6, <1>7, <1>8, <1>9, <1>10, <1>11 DEF NoPing, SocketsIInv, DescriptorsOwned

LEMMA AcceptKeeps ==
  ASSUME SocketsIInv, NEW c \in Clients, Accept(c)
  PROVE  SocketsIInv'
<1>1. PICK s0 \in Socks \ Live, f \in Free :
           /\ ref' = [ref EXCEPT ![c] = s0]
           /\ fd' = [fd EXCEPT ![s0] = f]
           /\ connected' = [connected EXCEPT ![s0] = TRUE]
           /\ open' = open \cup {f}
           /\ peer' = [peer EXCEPT ![f] = "up"]
  BY DEF Accept
<1>2. /\ job = Idle /\ c \notin Secure /\ ref[c] = NoSock
      /\ backlog' = backlog - 1 /\ backlog > 0
      /\ UNCHANGED <<ssl, pend, listenfd, job, rx, sent, room, failed, orphan>>
  BY DEF Accept
<1>0. NoPing
  BY <1>2, NoPingByOp, IdleOp
<1>3. f \in Fds /\ f \notin open /\ f # BadFd /\ f \notin orphan
  BY SocketsAssumption DEF Free, SocketsIInv, OrphansOpen
<1>4. fd[s0] = BadFd
  BY DEF SocketsIInv, DescriptorsOwned, SocksOwn
<1>5. fd'[s0] = f /\ \A s \in Socks \ {s0} : fd'[s] = fd[s] /\ connected'[s] = connected[s]
  BY <1>1 DEF SocketsIInv, SocketsTypeOK
<1>6. SocketsTypeOK'
  <2>1. peer' \in [Fds -> {"none", "up", "fin", "reset"}]
    BY <1>1, <1>3 DEF SocketsIInv, SocketsTypeOK
  <2>2. fd' \in [Socks -> Fds \cup {BadFd}] /\ connected' \in [Socks -> BOOLEAN]
    BY <1>1, <1>3 DEF SocketsIInv, SocketsTypeOK
  <2>3. ref' \in [Clients -> Socks \cup {NoSock}]
    BY <1>1 DEF SocketsIInv, SocketsTypeOK
  <2>4. backlog' \in Nat /\ open' \subseteq Fds
    BY <1>1, <1>2, <1>3 DEF SocketsIInv, SocketsTypeOK
  <2> QED
    BY <1>2, <2>1, <2>2, <2>3, <2>4 DEF SocketsIInv, SocketsTypeOK
<1>7. Live \cup {s0} \subseteq Live'
  BY <1>1, <1>2, SocketsAssumption DEF SocketsIInv, SocketsTypeOK, Live, Held
<1>8. SocksOwn'
  BY <1>1, <1>2, <1>3, <1>5, <1>7 DEF SocketsIInv, DescriptorsOwned, SocksOwn
<1>9. ListenerOwns' /\ NothingLeaks' /\ OrphansOpen'
  BY <1>0, <1>1, <1>2, <1>3, <1>4, <1>5, SocketsAssumption
     DEF NoPing, SocketsIInv, SocketsTypeOK, DescriptorsOwned, ListenerOwns, NothingLeaks, OrphansOpen
<1>10. SslBound'
  <2> SUFFICES ASSUME NEW d \in Secure, ssl[d] # BadFd
               PROVE  FdOf(d)' = ssl[d]
    BY <1>2 DEF SslBound
  <2>1. FdOf(d) = ssl[d] /\ d \in Clients /\ ref'[d] = ref[d]
    BY <1>1, <1>2, SocketsAssumption DEF SocketsIInv, SocketsTypeOK, DescriptorsOwned, SslBound
  <2>2. ref[d] # NoSock /\ fd[ref[d]] = ssl[d] /\ ref[d] \in Socks
    BY <2>1, SocketsAssumption DEF FdOf, SocketsIInv, SocketsTypeOK
  <2>3. ref[d] # s0
    BY <1>4, <2>2
  <2> QED
    BY <1>5, <2>1, <2>2, <2>3 DEF FdOf
<1>11. SecureApart' /\ JobOK'
  BY <1>1, <1>2, IdleJobOK, SocketsAssumption DEF SocketsIInv, SocketsTypeOK, SecureApart
<1>12. FlagMeansEnd'
  <2> SUFFICES ASSUME NEW s \in Socks, fd'[s] # BadFd, ~connected'[s]
               PROVE  (Over(fd[s]) \/ fd[s] \in failed)'
    BY DEF FlagMeansEnd
  <2>1. s # s0
    BY <1>1 DEF SocketsIInv, SocketsTypeOK
  <2>2. fd'[s] = fd[s] /\ ~connected[s] /\ fd[s] \in open /\ fd[s] \in Fds
    BY <1>5, <2>1 DEF SocketsIInv, SocketsTypeOK, DescriptorsOwned, SocksOwn
  <2>3. peer'[fd[s]] = peer[fd[s]]
    BY <1>1, <1>3, <2>2 DEF SocketsIInv, SocketsTypeOK
  <2> QED
    BY <1>2, <2>2, <2>3 DEF SocketsIInv, FlagMeansEnd, Over
<1> QED
  BY <1>0, <1>6, <1>8, <1>9, <1>10, <1>11, <1>12 DEF NoPing, SocketsIInv, DescriptorsOwned

LEMMA PeerKeeps ==
  ASSUME SocketsIInv, PeerSteps
  PROVE  SocketsIInv'
<1>1. UNCHANGED <<objectVars, job, open, failed, orphan>>
  BY DEF PeerSteps, PeerSends, PeerEnds, PeerTakes, PeerCalls
<1>2. JobOK'
  BY <1>1 DEF SocketsIInv, JobOK, FdOf, Fronted, objectVars
<1>3. CASE \E f \in Fds : PeerSends(f)
  <2>1. PICK f \in Fds : PeerSends(f)
    BY <1>3
  <2>2. SocketsTypeOK'
    BY <1>1, <2>1 DEF SocketsIInv, SocketsTypeOK, PeerSends, objectVars
  <2>3. FlagMeansEnd'
    BY <1>1, <2>1 DEF SocketsIInv, SocketsTypeOK, FlagMeansEnd, Over, PeerSends, objectVars
  <2> QED
    BY <1>1, <1>2, <2>2, <2>3, SameJob, OwnersKept DEF objectVars
<1>4. CASE \E f \in Fds : PeerEnds(f)
  <2>1. PICK f \in Fds : PeerEnds(f)
    BY <1>4
  <2>2. SocketsTypeOK'
    BY <1>1, <2>1 DEF SocketsIInv, SocketsTypeOK, PeerEnds, objectVars
  <2>3. FlagMeansEnd'
    BY <1>1, <2>1 DEF SocketsIInv, SocketsTypeOK, FlagMeansEnd, Over, PeerEnds, objectVars
  <2> QED
    BY <1>1, <1>2, <2>2, <2>3, SameJob, OwnersKept DEF objectVars
<1>5. CASE (\E f \in Fds : PeerTakes(f)) \/ PeerCalls
  <2>1. SocketsTypeOK'
    BY <1>1, <1>5 DEF SocketsIInv, SocketsTypeOK, PeerTakes, PeerCalls, objectVars
  <2>2. FlagMeansEnd'
    BY <1>1, <1>5 DEF SocketsIInv, FlagMeansEnd, Over, PeerTakes, PeerCalls, objectVars
  <2> QED
    BY <1>1, <1>2, <2>1, <2>2, SameJob, OwnersKept DEF objectVars
<1> QED
  BY <1>3, <1>4, <1>5 DEF PeerSteps

\* A ping opens one descriptor at a time, and closes it before the next and last.
LEMMA PingKeeps ==
  ASSUME SocketsIInv, PingSteps
  PROVE  SocketsIInv'
<1>1. /\ job.op \in {"none", "ping"}
      /\ UNCHANGED <<objectVars, rx, sent, room, peer, backlog, failed, orphan>>
      /\ \/ job' = Idle /\ open' = open \ Pinging
         \/ \E f \in Free \cup Pinging, n \in 0 .. PingPorts :
               job' = [op |-> "ping", fd |-> f, n |-> n] /\ open' = (open \ Pinging) \cup {f}
  BY IdleOp DEF PingSteps, PingStarts, PingsNext, PingEnds, Probe
<1>2. PICK new \in SUBSET (Free \cup Pinging) :
        open' = (open \ Pinging) \cup new /\ Pinging' = new
  <2>1. CASE job' = Idle /\ open' = open \ Pinging
    <3>1. Pinging' = {}
      BY <2>1, IdleOp DEF Pinging
    <3>2. open' = (open \ Pinging) \cup {}
      BY <2>1
    <3> QED
      BY <3>1, <3>2
  <2>2. CASE \E f \in Free \cup Pinging, n \in 0 .. PingPorts :
               job' = [op |-> "ping", fd |-> f, n |-> n] /\ open' = (open \ Pinging) \cup {f}
    <3>1. PICK f \in Free \cup Pinging, n \in 0 .. PingPorts :
               job' = [op |-> "ping", fd |-> f, n |-> n] /\ open' = (open \ Pinging) \cup {f}
      BY <2>2
    <3>2. Pinging' = {f}
      BY <3>1 DEF Pinging
    <3>3. {f} \in SUBSET (Free \cup Pinging)
      OBVIOUS
    <3> QED
      BY <3>1, <3>2, <3>3
  <2> QED
    BY <1>1, <2>1, <2>2
<1>3. Pinging \subseteq open \ orphan /\ listenfd \notin Pinging /\ \A s \in Socks : fd[s] \notin Pinging
  BY DEF SocketsIInv, DescriptorsOwned, PingOwns
<1>4. new \subseteq Fds /\ BadFd \notin new /\ new \cap (open \ Pinging) = {}
  BY <1>3, SocketsAssumption DEF Free, SocketsIInv, SocketsTypeOK
<1>5. job' \in {Idle} \cup [op : {"ping"}, fd : Fds, n : Nat]
  BY <1>1, <1>3, SocketsAssumption DEF Free, SocketsIInv, SocketsTypeOK
<1>6. SocketsTypeOK'
  BY <1>1, <1>2, <1>4, <1>5 DEF SocketsIInv, SocketsTypeOK, objectVars
<1>7. SocksOwn'
  BY <1>1, <1>2, <1>3 DEF SocketsIInv, DescriptorsOwned, SocksOwn, Live, Held, objectVars
<1>8. ListenerOwns'
  BY <1>1, <1>2, <1>3 DEF SocketsIInv, DescriptorsOwned, ListenerOwns, objectVars
<1>9. PingOwns'
  <2> SUFFICES ASSUME NEW f \in new
               PROVE  f \in open' \ orphan /\ f # listenfd /\ \A s \in Socks : fd[s] # f
    BY <1>1, <1>2 DEF PingOwns, objectVars
  <2>1. f \in Fds /\ f # BadFd /\ f \notin open \ Pinging /\ f \in open'
    BY <1>2, <1>4
  <2>2. f \notin orphan
    BY <1>3, <2>1 DEF SocketsIInv, OrphansOpen
  <2> QED
    BY <1>3, <2>1, <2>2 DEF SocketsIInv, DescriptorsOwned, SocksOwn, ListenerOwns
<1>10. NothingLeaks'
  BY <1>1, <1>2 DEF SocketsIInv, DescriptorsOwned, NothingLeaks, objectVars
<1>11. SslBound' /\ SecureApart'
  BY <1>1 DEF SocketsIInv, DescriptorsOwned, SslBound, SecureApart, FdOf, objectVars
<1>12. JobOK'
  BY <1>5, IdleOp DEF JobOK
<1>13. FlagMeansEnd'
  BY <1>1 DEF SocketsIInv, FlagMeansEnd, Over, objectVars
<1>14. OrphansOpen'
  BY <1>1, <1>2, <1>3 DEF SocketsIInv, OrphansOpen
<1> QED
  BY <1>6, <1>7, <1>8, <1>9, <1>10, <1>11, <1>12, <1>13, <1>14 DEF SocketsIInv, DescriptorsOwned

(***************************************************************************)
(* The invariant.                                                          *)
(***************************************************************************)
LEMMA SocketsInitInv == SocketsInit => SocketsIInv
<1> SUFFICES ASSUME SocketsInit PROVE SocketsIInv
  OBVIOUS
<1>1. SocketsTypeOK
  BY SocketsAssumption DEF SocketsInit, SocketsTypeOK
<1>2. DescriptorsOwned
  BY SocketsAssumption
     DEF SocketsInit, DescriptorsOwned, SocksOwn, ListenerOwns, PingOwns, Pinging, Idle,
         NothingLeaks, SslBound
<1>3. SecureApart /\ JobOK /\ FlagMeansEnd /\ OrphansOpen
  BY SocketsAssumption DEF SocketsInit, SecureApart, JobOK, Idle, FlagMeansEnd, OrphansOpen
<1> QED
  BY <1>1, <1>2, <1>3 DEF SocketsIInv

LEMMA SocketsNextInv == SocketsIInv /\ [SocketsNext]_socketVars => SocketsIInv'
<1> SUFFICES ASSUME SocketsIInv, [SocketsNext]_socketVars PROVE SocketsIInv'
  OBVIOUS
<1>1. CASE ObjectSteps
  BY <1>1, MakeKeeps, CopyKeeps, DeleteKeeps DEF ObjectSteps
<1>2. CASE ClientSteps
  BY <1>2, ConnectFailsKeeps, PlainReadKeeps, SslReadKeeps, NoticesEndKeeps,
     StopActionKeeps, ConnectsKeeps, WriteKeeps DEF ClientSteps
<1>3. CASE ServerSteps
  BY <1>3, ListenKeeps, AcceptKeeps DEF ServerSteps
<1>4. CASE HandshakeSteps
  BY <1>4, HandshakeKeeps
<1>5. CASE WriteSteps
  BY <1>5, WriteStepKeeps
<1>6. CASE PeerSteps
  BY <1>6, PeerKeeps
<1>8. CASE PingSteps
  BY <1>8, PingKeeps
<1>7. CASE UNCHANGED socketVars
  <2>1. UNCHANGED <<ref, fd, connected, ssl, pend, listenfd, job, open, rx, sent,
                    room, peer, backlog, failed, orphan>>
    BY <1>7 DEF socketVars
  <2>2. SocketsTypeOK' /\ JobOK' /\ FlagMeansEnd'
    BY <2>1 DEF SocketsIInv, SocketsTypeOK, JobOK, FdOf, Fronted, FlagMeansEnd, Over
  <2> QED
    BY <2>1, <2>2, SameJob, OwnersKept
<1> QED
  BY <1>1, <1>2, <1>3, <1>4, <1>5, <1>6, <1>7, <1>8 DEF SocketsNext

\* The strengthened invariant of the sockets holds at all times.
THEOREM SocketsInvariance == SocketsSpec => []SocketsIInv
BY SocketsInitInv, SocketsNextInv, PTL DEF SocketsSpec

\* All that the objects and the host keep has its type.
THEOREM SocketsTypeCorrect == SocketsSpec => []SocketsTypeOK
<1>1. SocketsIInv => SocketsTypeOK
  BY DEF SocketsIInv
<1> QED
  BY <1>1, SocketsInvariance, PTL

\* No descriptor is leaked but by a second connect(), closed twice, or used
\* after it was closed, however clients are copied, stopped and deleted
\* (WiFi.cpp:42-52, 91, 136-139; tls.cpp:68-70, 110-114).
THEOREM OneOwner == SocketsSpec => []DescriptorsOwned
<1>1. SocketsIInv => DescriptorsOwned
  BY DEF SocketsIInv
<1> QED
  BY <1>1, SocketsInvariance, PTL

\* connected() does not turn false while bytes wait in the socket, unless a
\* send has failed (WiFi.cpp:121-126, 140-147).
THEOREM NoEarlyEnd == SocketsSpec => []EndAfterBytes
<1>1. SocketsIInv => EndAfterBytes
  <2> SUFFICES ASSUME SocketsIInv, NEW c \in Clients,
                      ref[c] # NoSock, FdOf(c) # BadFd,
                      c \in Secure => ssl[c] # BadFd,
                      rx[FdOf(c)] > 0, FdOf(c) \notin failed
               PROVE  Answers(c)
    BY DEF EndAfterBytes
  <2>1. ref[c] \in Socks /\ FdOf(c) = fd[ref[c]] /\ FdOf(c) \in Fds
    BY DEF FdOf, SocketsIInv, SocketsTypeOK
  <2>2. ~Over(FdOf(c))
    BY <2>1 DEF Over
  <2> QED
    BY <2>1, <2>2 DEF SocketsIInv, FlagMeansEnd, Answers
<1> QED
  BY <1>1, SocketsInvariance, PTL
=============================================================================
