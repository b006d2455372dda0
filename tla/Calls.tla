------------------------------- MODULE Calls --------------------------------
(***************************************************************************)
(* The calls of the modem: the list of connections (wificlientnode.ino),   *)
(* command mode (zcommand.ino), stream mode (zstream.ino) and the lines    *)
(* DCD and RI that tell the terminal about them.                           *)
(*                                                                         *)
(* One poll of the firmware is a command from the terminal, or none, and   *)
(* then one turn of the loop of the current mode.  The firmware has one    *)
(* thread, so a handler is one step; the network, the clock and the        *)
(* terminal act between the steps.                                         *)
(*                                                                         *)
(* m is the state of the firmware and its sockets.  A handler is an        *)
(* operator from one m to the next: the code calls these handlers from     *)
(* each other and from destructors, in an order the model keeps.           *)
(*                                                                         *)
(* A handler that follows a pointer to a connection that has been deleted  *)
(* sets m.stray.  What the program does next is undefined: the model stops.*)
(*                                                                         *)
(* Output to the terminal is allowed throughout, and packets flow freely   *)
(* in command mode: flow control is the subject of DteLink.                *)
(***************************************************************************)
EXTENDS Integers, FiniteSetsExt

CONSTANTS
    MaxId,          \* bound: the calls that are made or received
    AutoAnswer,     \* ringCounter (S0) at the start
    RingsWhenOff,   \* rings announced when S0 is 0: 5
    BusyRings,      \* rings of a caller that comes in stream mode: 5
    AutoStream,     \* autoStreamMode (S41)
    HangupType,     \* S63
    TempBaud,       \* S43 gives a rate for the duration of a call
    Suppress,       \* suppressResponses (ATQ)
    Commands,       \* the commands the terminal uses
    Callers         \* TRUE if a listener is open

ASSUME MaxIdAssumption == MaxId \in Nat \ {0}
ASSUME RingsAssumption ==
    AutoAnswer \in Nat /\ RingsWhenOff \in Nat \ {0} /\ BusyRings \in Nat \ {0}
ASSUME SettingsAssumption ==
    /\ {AutoStream, TempBaud, Suppress, Callers} \subseteq BOOLEAN
    /\ HangupType \in {"NONE", "PPPHARD", "DTR"}

VARIABLES
    m,      \* the firmware, its connections and their sockets
    pc      \* "idle" between two polls, "loop" before the turn of the loop

vars == <<m, pc>>

Ids == 1 .. MaxId
null == 0

-----------------------------------------------------------------------------
(* The list of connections.  A new one goes to its end with the next id,   *)
(* so the order of the list is the order of the ids.                       *)

First(s) == IF s.conns = {} THEN null ELSE Min(s.conns)

After(s, c) == LET rest == {d \in s.conns : d > c}
               IN IF rest = {} THEN null ELSE Min(rest)

Connected(s, c) == c \in s.conns /\ c \in s.up

\* available() of an unanswered call is 0 whatever its socket holds.
Available(s, c) == c \in s.unread /\ c \in s.answered

Say(s) == [s EXCEPT !.out = TRUE]

Respond(s) == IF Suppress THEN s ELSE Say(s)

\* NO CARRIER is for calls that were answered.
SayNoCarrier(s, c) == IF c \in s.answered THEN Respond(s) ELSE s

Pin(s, signal, level) == [s EXCEPT ![signal] = level]

\* Mutant: the destructor forgets one of the two pointers.
RepairCurrentOnly(s) ==
    [s EXCEPT !.current = IF @ \in s.conns THEN @ ELSE First(s)]

\* Pointers of command mode to a deleted connection go to the list's head.
Repair(s) ==
    [s EXCEPT !.current  = IF @ \in s.conns \cup {null} THEN @ ELSE First(s),
              !.nextConn = IF @ \in s.conns \cup {null} THEN @ ELSE First(s)]

\* The connections of gone leave the list; m.marked remembers them.
Unlink(s, gone) ==
    Repair([s EXCEPT !.conns = @ \ gone, !.up = @ \ gone,
                     !.unread = @ \ gone, !.answered = @ \ gone,
                     !.server = @ \ gone, !.exit = @ \ gone,
                     !.was = @ \ gone, !.due = @ \ gone,
                     !.ringDue = @ \ gone,
                     !.rings = [c \in Ids |-> IF c \in gone THEN 0 ELSE @[c]]])

Expired(s) == s.conns \cap s.marked \cap s.due

\* getNumOpenWiFiConnections counts a closed connection with bytes to read,
\* and the first of the list while output to the terminal is on its way.
Open(s) == {c \in s.conns \cap s.answered :
              c \in s.up \/ Available(s, c) \/ (c = First(s) /\ s.out)}

\* A walk deletes the expired connections one after the other.  The
\* destructor starts a walk of its own, which deletes the rest of them, the
\* one after it as well: the outer walk goes on from a deleted connection.
WalkStrays(s) == \E c \in Expired(s) : After(s, c) \in Expired(s)

SweepExpired(s) ==
    Unlink([s EXCEPT !.stray = @ \/ WalkStrays(s)], Expired(s))

\* Mutant: the temporary rate outlives the carrier.
CarrierLostKeepRate(s) == Pin(s, "dcd", FALSE)

\* clearSerialOutBuffer empties TBUF; the UART goes on sending.
CarrierLost(s) ==
    [Pin(s, "dcd", FALSE) EXCEPT
        !.baudState = IF @ = "SWITCHED_TEMP" THEN "SWITCH_NORMAL_NEXT" ELSE @,
        !.blip = @ \/ s.baudState = "SWITCH_TEMP_NEXT"]

CarrierFound(s) ==
    [Pin(s, "dcd", TRUE) EXCEPT
        !.baudState = IF TempBaud /\ @ = "NORMAL" THEN "SWITCH_TEMP_NEXT"
                                                  ELSE @,
        !.blip = @ \/ s.baudState = "SWITCH_NORMAL_NEXT"]

CheckOpenConnections(s) ==
    LET t == SweepExpired(s)
    IN IF Open(t) = {} /\ t.dcd THEN CarrierLost(t)
       ELSE IF Open(t) # {} /\ ~t.dcd THEN CarrierFound(t)
       ELSE t

\* Mutant: the destructor does not look at the carrier.
DeleteQuietly(s, c) == Unlink(s, {c})

Delete(s, c) == CheckOpenConnections(Unlink(s, {c}))

CheckForAutoDisconnections(s) ==
    IF Expired(s) = {} THEN s ELSE CheckOpenConnections(s)

CheckBaudChange(s) ==
    CASE s.baudState = "SWITCH_TEMP_NEXT" ->
             [s EXCEPT !.uart = "temp", !.baudState = "SWITCHED_TEMP"]
      [] s.baudState = "SWITCH_NORMAL_NEXT" ->
             [s EXCEPT !.uart = "normal", !.baudState = "NORMAL"]
      [] OTHER -> s

\* finishConnectionLink: connection s.lastId + 1 goes to the end of the list.
Link(s) ==
    LET c == s.lastId + 1
    IN CheckOpenConnections(
         [s EXCEPT !.lastId = c, !.conns = @ \cup {c}, !.up = @ \cup {c},
                   !.was = @ \cup {c}])

LinkOutgoing(s) == Link([s EXCEPT !.answered = @ \cup {s.lastId + 1}])

\* serverClient is set after the connection is on the list.
LinkIncoming(s, ringDelay) ==
    LET c == s.lastId + 1
        t == Link([s EXCEPT
                     !.answered = IF ringDelay = 0 THEN @ \cup {c} ELSE @,
                     !.rings[c] = ringDelay, !.pending = FALSE])
    IN [t EXCEPT !.server = @ \cup {c}]

Answer(s, c) ==
    [s EXCEPT !.answered = @ \cup {c}, !.rings[c] = 0, !.ringDue = @ \ {c}]

-----------------------------------------------------------------------------
(* Stream mode.                                                            *)

SwitchTo(s, c) ==
    [CheckBaudChange([s EXCEPT !.stream = c, !.mode = "stream"])
        EXCEPT !.lastDTR = s.dtr, !.alarm = "set"]

\* Mutant: the call ends and the mode stays.
SwitchBackStay(s, pppMode) ==
    LET t == Pin(s, "ri", FALSE)
    IN IF pppMode \/ s.stream = null \/ s.stream \notin s.exit THEN t
       ELSE Delete(SayNoCarrier(t, s.stream), s.stream)

SwitchBack(s, pppMode) ==
    LET c == s.stream
        t == Pin(s, "ri", FALSE)
        u == IF pppMode /\ HangupType # "NONE"
               THEN [Respond(t) EXCEPT !.marked = @ \cup {c}]
             ELSE IF pppMode THEN Respond(t)
             ELSE IF c # null /\ c \in s.exit THEN Delete(SayNoCarrier(t, c), c)
             ELSE t
    IN [u EXCEPT !.stream = null, !.mode = "command"]

\* Only a caller whose address and port are not connected yet is accepted:
\* the callers of the model are distinct.
AcceptInStream(s) ==
    IF s.pending THEN LinkIncoming(s, BusyRings) ELSE s

\* Every caller that rings hears busyMsg and has 5 s left.
TurnAwayCallers(s) ==
    [s EXCEPT !.marked = @ \cup {c \in s.conns \ s.answered :
                                   Connected(s, c) /\ c # s.stream}]

\* Mutant: the level of DTR is taken before it is compared.
DoHangupChecksTooLate(s) ==
    IF HangupType # "DTR" THEN s ELSE [s EXCEPT !.lastDTR = s.dtr]

DoHangupChecks(s) ==
    IF HangupType # "DTR" THEN s
    ELSE LET t == IF s.lastDTR /\ ~s.dtr
                    THEN SwitchBack([s EXCEPT !.exit = @ \cup ({s.stream} \ {null})],
                                    FALSE)
                    ELSE s
         IN [t EXCEPT !.lastDTR = s.dtr]

Transfer(s) ==
    IF Available(s, s.stream)
      THEN Say([s EXCEPT !.unread = @ \ {s.stream}])
      ELSE s

SilenceRinger(s) ==
    IF s.alarm = "due" THEN [Pin(s, "ri", FALSE) EXCEPT !.alarm = "off"] ELSE s

StreamTurn(s, escape) ==
    IF s.stream = null \/ ~Connected(s, s.stream) THEN SwitchBack(s, FALSE)
    ELSE IF escape THEN SwitchBack(s, TRUE)
    ELSE Transfer(s)

StreamLoop(s, escape) ==
    LET t == CheckForAutoDisconnections(TurnAwayCallers(AcceptInStream(s)))
    IN IF t.stray \/ t.stream \notin t.conns \cup {null}
         THEN [t EXCEPT !.stray = TRUE]
         ELSE SilenceRinger(CheckBaudChange(
                  StreamTurn(DoHangupChecks(t), escape)))

-----------------------------------------------------------------------------
(* Command mode: the commands.                                             *)

\* doAnswerCommand with no number, also called when a call is auto-answered.
DoAnswer(s) ==
    LET c == s.last
        t == CheckOpenConnections([s EXCEPT !.current = c])
        u == IF c \notin t.answered \/ t.ringCounter = 0
               THEN [Answer(Say(t), c) EXCEPT !.ringCounter = 0]
               ELSE t
    IN IF ~Connected(s, c) THEN [s EXCEPT !.busy = FALSE]
       ELSE IF c \notin t.conns THEN [t EXCEPT !.stray = TRUE]
       ELSE [CheckOpenConnections(SwitchTo(u, c)) EXCEPT !.busy = FALSE]

\* ATD (stream) and ATC with an address: the host refuses, or it connects
\* and is still there, or it is gone when the constructor returns.
Dial(s, stream, outcome) ==
    LET c == s.lastId + 1
        t == LinkOutgoing([s EXCEPT !.exit = IF stream THEN @ \cup {c} ELSE @])
    IN CASE outcome = "refused" ->
              Respond(CheckOpenConnections(Repair([s EXCEPT !.lastId = c])))
         [] outcome = "dropped" -> Respond(Delete(t, c))
         [] outcome = "connected" ->
              LET u == [t EXCEPT !.current = c]
              IN Respond(IF stream THEN SwitchTo(u, c) ELSE u)

\* ATC alone answers the current connection, ATC0 answers all of them.
ConnectCurrent(s) ==
    IF s.current = null THEN Respond(s)
    ELSE IF Connected(s, s.current) THEN Say(Answer(s, s.current))
    ELSE IF s.current \in s.answered THEN Say(s) ELSE s

ConnectList(s) ==
    LET up == {c \in s.conns : Connected(s, c)}
        t == [s EXCEPT !.answered = @ \cup up, !.ringDue = @ \ up,
                       !.rings = [c \in Ids |-> IF c \in up THEN 0 ELSE @[c]]]
    IN Respond(IF Callers \/ t.conns \cap t.answered # {} THEN Say(t) ELSE t)

ConnectSelect(s, c) ==
    Respond(IF c \in s.conns THEN [s EXCEPT !.current = c] ELSE s)

StreamCurrent(s) ==
    Respond(IF Connected(s, s.current) THEN SwitchTo(s, s.current) ELSE s)

StreamSelect(s, c) ==
    Respond(IF Connected(s, c)
              THEN SwitchTo([s EXCEPT !.current = c], c) ELSE s)

GoOnline(s) ==
    Respond(IF Connected(s, s.current)
              THEN DoAnswer([s EXCEPT !.last = s.current]) ELSE s)

DeleteFirst(s) == IF s.conns = {} THEN s ELSE Delete(s, First(s))

\* The head of the list is deleted until there is none.
HangupAll(s) ==
    LET hung[n \in 0 .. MaxId] == IF n = 0 THEN s ELSE DeleteFirst(hung[n - 1])
    IN [hung[MaxId] EXCEPT !.last = 0, !.current = null, !.nextConn = null,
                           !.busy = FALSE]

ForgetCaller(s, c) == [s EXCEPT !.last = IF @ = c THEN 0 ELSE @]

HangupCurrent(s) ==
    IF s.current = null THEN [s EXCEPT !.busy = FALSE]
    ELSE LET t == Delete(ForgetCaller(s, s.current), s.current)
         IN [t EXCEPT !.current = First(t), !.nextConn = First(t),
                      !.busy = FALSE]

\* ATH1 is busy mode, unless connection 1 is on the list.
HangupSelect(s, c) ==
    IF c \in s.conns THEN Delete(ForgetCaller(s, c), c)
    ELSE IF c = 1 THEN [s EXCEPT !.busy = TRUE]
    ELSE s

Execute(s, command) ==
    CASE command = "ATA"  -> {Respond(DoAnswer(s))}
      [] command = "ATO"  -> {GoOnline(s)}
      [] command = "ATD"  -> {StreamCurrent(s)}
      [] command = "ATDn" -> {StreamSelect(s, c) : c \in Ids}
      [] command = "ATC"  -> {ConnectCurrent(s)}
      [] command = "ATC0" -> {ConnectList(s)}
      [] command = "ATCn" -> {ConnectSelect(s, c) : c \in Ids}
      [] command = "ATH"  -> {Respond(HangupAll(s))}
      [] command = "ATH0" -> {Respond(HangupCurrent(s))}
      [] command = "ATHn" -> {Respond(HangupSelect(s, c)) : c \in Ids}
      [] OTHER -> {}

-----------------------------------------------------------------------------
(* Command mode: the loop.                                                 *)

\* checkPlusPlusPlusDisconnect: +++ in command mode ends the current call.
PlusPlusPlus(s) ==
    IF s.current = null THEN s
    ELSE LET t == Delete(SayNoCarrier(s, s.current), s.current)
         IN [t EXCEPT !.current = First(t), !.nextConn = First(t)]

FutureRings(s) == IF s.ringCounter > 0 THEN s.ringCounter - 1 ELSE RingsWhenOff

\* A new caller rings, or with S0 = 1 is answered at once.
AcceptCaller(s) ==
    LET rings == FutureRings(s)
        delay == IF rings > 0 THEN (rings + 1) * 2 ELSE 0
        t == Say(Pin(LinkIncoming(s, delay), "ri", TRUE))
        u == [t EXCEPT !.last = t.lastId]
    IN IF ~s.pending THEN s
       ELSE IF s.busy THEN [s EXCEPT !.pending = FALSE]
       ELSE IF delay = 0 /\ AutoStream THEN DoAnswer(u)
       ELSE u

\* The walk over the callers that ring: s is the state, done is its end.
Ringing(s, c) == Connected(s, c) /\ c \notin s.answered

\* Mutant: callers ring for ever.
RingTurnForever(w, c) ==
    IF w.done \/ ~Ringing(w.s, c) \/ c \notin w.s.ringDue THEN w
    ELSE [w EXCEPT !.s = Say(Pin([@ EXCEPT !.ringDue = @ \ {c}], "ri", TRUE))]

\* One turn of that walk.  The last ring answers or deletes the caller.
RingTurn(w, c) ==
    LET n == w.s.rings[c] - 1
        t == [w.s EXCEPT !.rings[c] = n, !.ringDue = @ \ {c}]
        quiet == Pin(t, "ri", FALSE)
        gone == Delete(quiet, c)
        answered == Answer(Say(quiet), c)
        strays == After(w.s, c) \notin gone.conns \cup {null}
    IN IF w.done \/ ~Ringing(w.s, c) \/ c \notin w.s.ringDue THEN w
       ELSE IF n <= 1 /\ w.s.ringCounter > 0 /\ AutoStream
         THEN [s |-> DoAnswer(answered), done |-> TRUE]
       ELSE IF n <= 1 /\ w.s.ringCounter > 0
         THEN [w EXCEPT !.s = answered]
       ELSE IF n <= 1
         THEN [s |-> [gone EXCEPT !.stray = @ \/ strays],
               done |-> gone.stray \/ strays]
       ELSE [w EXCEPT !.s = IF n % 2 = 0 THEN Say(Pin(t, "ri", TRUE))
                                         ELSE quiet]

AcceptNewConnection(s) ==
    LET t == AcceptCaller(s)
        walk[c \in 0 .. MaxId] == IF c = 0 THEN [s |-> t, done |-> t.stray]
                                  ELSE RingTurn(walk[c - 1], c)
    IN walk[MaxId].s

\* One turn of the loop of sendNextPacket.  w.nextConn is the cursor.
SendTurn(w) ==
    LET c == w.m.nextConn
        said == SayNoCarrier(w.m, c)
        t == IF c \in w.m.was
               THEN CheckOpenConnections([said EXCEPT !.was = @ \ {c}])
               ELSE w.m
        d == t.nextConn
        Step(s) == [s EXCEPT !.nextConn = After(s, @)]
        More(s) == [m |-> s, first |-> w.first,
                    done |-> s.nextConn \in {null, w.first}]
    IN IF w.done THEN w
       ELSE IF c \notin w.m.conns
         THEN [w EXCEPT !.done = TRUE, !.m = [w.m EXCEPT !.stray = TRUE]]
       ELSE IF Available(w.m, c)
         THEN [w EXCEPT !.done = TRUE,
                        !.m = Say([w.m EXCEPT !.unread = @ \ {c}])]
       ELSE IF Connected(w.m, c) THEN More(Step(w.m))
       ELSE IF d = null \/ t.stray
         THEN [w EXCEPT !.done = TRUE, !.m = [t EXCEPT !.stray = TRUE]]
       ELSE IF d \in t.server
         THEN [w EXCEPT !.done = TRUE,
                        !.m = [Delete(t, d) EXCEPT !.nextConn = null]]
       ELSE More(Step(t))

SendNextPacket(s) ==
    LET next  == IF s.nextConn = null THEN null ELSE After(s, s.nextConn)
        start == IF next = null THEN First(s) ELSE next
        first == IF next = null THEN null ELSE s.nextConn
        begin == [m |-> [s EXCEPT !.nextConn = start], first |-> first,
                  done |-> start = null]
        turn[n \in 0 .. MaxId * (MaxId + 1)] ==
            IF n = 0 THEN begin ELSE SendTurn(turn[n - 1])
    IN IF s.nextConn \notin s.conns \cup {null}
         THEN [s EXCEPT !.stray = TRUE]
         ELSE turn[MaxId * (MaxId + 1)].m

\* sendNextPacket waits for room for a packet in TBUF.
CommandLoop(s, escape, send) ==
    LET t == AcceptNewConnection(IF escape THEN PlusPlusPlus(s) ELSE s)
    IN IF t.stray \/ t.mode # "command" THEN CheckBaudChange(t)
       ELSE CheckBaudChange(IF send THEN SendNextPacket(t) ELSE t)

\* The ghost m.blip ends when the rate fits the carrier again.
Settle(s) == [s EXCEPT !.blip = @ /\ (s.uart = "temp") # s.dcd]

-----------------------------------------------------------------------------
Init ==
    /\ m = [conns |-> {}, up |-> {}, unread |-> {}, answered |-> {},
            server |-> {}, exit |-> {}, was |-> {}, marked |-> {}, due |-> {},
            ringDue |-> {}, rings |-> [c \in Ids |-> 0], lastId |-> 0,
            current |-> null, nextConn |-> null, stream |-> null,
            mode |-> "command", last |-> 0, busy |-> FALSE,
            ringCounter |-> AutoAnswer, pending |-> FALSE,
            dcd |-> FALSE, ri |-> FALSE, dtr |-> TRUE, lastDTR |-> FALSE,
            alarm |-> "set", baudState |-> "NORMAL", uart |-> "normal",
            out |-> FALSE, blip |-> FALSE, stray |-> FALSE]
    /\ pc = "idle"

\* A command reaches the modem in command mode.
Command(command) ==
    /\ pc = "idle" /\ m.mode = "command" /\ ~m.stray
    /\ m' \in Execute(m, command)
    /\ pc' = "loop"

\* The dialled host takes the next id; a caller that waits has its own.
DialCommand(stream, outcome) ==
    /\ pc = "idle" /\ m.mode = "command" /\ ~m.stray
    /\ m.lastId + (IF m.pending THEN 1 ELSE 0) < MaxId
    /\ m' = Dial(m, stream, outcome)
    /\ pc' = "loop"

\* No command is complete, or the mode has no commands.
NoCommand == pc = "idle" /\ ~m.stray /\ pc' = "loop" /\ UNCHANGED m

LoopInCommandMode(escape, send) ==
    /\ pc = "loop" /\ m.mode = "command" /\ ~m.stray
    /\ send \/ m.out
    /\ m' = Settle(CommandLoop(m, escape, send))
    /\ pc' = "idle"

LoopInStreamMode(escape) ==
    /\ pc = "loop" /\ m.mode = "stream" /\ ~m.stray
    /\ m' = Settle(StreamLoop(m, escape))
    /\ pc' = "idle"

-----------------------------------------------------------------------------
(* The network, the clock and the terminal.                                *)

World(s) == ~m.stray /\ m' = s /\ UNCHANGED pc

CallerCalls ==
    /\ Callers /\ ~m.pending /\ m.lastId < MaxId
    /\ World([m EXCEPT !.pending = TRUE])

CallerGivesUp == m.pending /\ World([m EXCEPT !.pending = FALSE])

RemoteHangsUp(c) == c \in m.up /\ World([m EXCEPT !.up = @ \ {c}])

RemoteSends(c) ==
    c \in m.up \ m.unread /\ World([m EXCEPT !.unread = @ \cup {c}])

\* 5 s after markForDisconnect.
DisconnectTime(c) ==
    /\ c \in (m.conns \cap m.marked) \ m.due
    /\ World([m EXCEPT !.due = @ \cup {c}])

\* 3 s after the last ring.
RingTime(c) ==
    /\ c \in m.conns \ (m.answered \cup m.ringDue)
    /\ World([m EXCEPT !.ringDue = @ \cup {c}])

AlarmTime == m.alarm = "set" /\ World([m EXCEPT !.alarm = "due"])

OutputSent == m.out /\ World([m EXCEPT !.out = FALSE])

DropDTR == m.dtr /\ World([m EXCEPT !.dtr = FALSE])
RaiseDTR == ~m.dtr /\ World([m EXCEPT !.dtr = TRUE])

-----------------------------------------------------------------------------
Loop ==
    \/ \E escape, send \in BOOLEAN : LoopInCommandMode(escape, send)
    \/ \E escape \in BOOLEAN : LoopInStreamMode(escape)

Terminal ==
    \/ NoCommand
    \/ \E command \in Commands : Command(command)
    \/ \E outcome \in {"refused", "dropped", "connected"} :
         \/ "ATD host" \in Commands /\ DialCommand(TRUE, outcome)
         \/ "ATC host" \in Commands /\ DialCommand(FALSE, outcome)
    \/ HangupType = "DTR" /\ (DropDTR \/ RaiseDTR)

Network ==
    \/ CallerCalls \/ CallerGivesUp
    \/ \E c \in Ids : RemoteHangsUp(c) \/ RemoteSends(c)

Clock == AlarmTime \/ OutputSent \/ \E c \in Ids : DisconnectTime(c) \/ RingTime(c)

Next == Loop \/ Terminal \/ Network \/ Clock

Spec == Init /\ [][Next]_vars

(***************************************************************************)
(* ximodem_poll is called again and again and comes to its end, the        *)
(* terminal takes the output and time passes.                              *)
(***************************************************************************)
Polled ==
    /\ WF_vars(NoCommand)
    /\ []<>(pc = "idle" \/ m.stray)
    /\ WF_vars(AlarmTime) /\ WF_vars(OutputSent)
    /\ \A c \in Ids : WF_vars(DisconnectTime(c)) /\ WF_vars(RingTime(c))

FairSpec == Spec /\ Polled

-----------------------------------------------------------------------------
(* Properties                                                              *)

TypeOK ==
    /\ \A set \in {m.conns, m.up, m.unread, m.answered, m.server, m.exit,
                   m.was, m.marked, m.due, m.ringDue} : set \subseteq Ids
    /\ m.rings \in [Ids -> Nat] /\ m.lastId \in 0 .. MaxId
    /\ {m.current, m.nextConn, m.stream, m.last} \subseteq Ids \cup {null}
    /\ m.mode \in {"command", "stream"} /\ m.ringCounter \in Nat
    /\ {m.busy, m.pending, m.dcd, m.ri, m.dtr, m.lastDTR, m.out, m.blip,
        m.stray} \subseteq BOOLEAN
    /\ m.alarm \in {"off", "set", "due"} /\ m.uart \in {"normal", "temp"}
    /\ m.baudState \in {"NORMAL", "SWITCH_TEMP_NEXT", "SWITCHED_TEMP",
                         "SWITCH_NORMAL_NEXT"}
    /\ pc \in {"idle", "loop"}

(***************************************************************************)
(* Command mode never holds a pointer to a deleted connection, whoever     *)
(* deleted it: a command, +++, a walk over the list or another destructor. *)
(***************************************************************************)
PointersListed ==
    ~m.stray => {m.current, m.nextConn} \subseteq m.conns \cup {null}

(***************************************************************************)
(* Only a call that was marked for disconnection is deleted while it is    *)
(* streamed.                                                               *)
(***************************************************************************)
StreamListed ==
    m.mode = "stream" => m.stream \in m.conns \cup m.marked

(***************************************************************************)
(* Carrier detect is off when the last connection leaves the list, in      *)
(* whatever handler it is deleted.                                         *)
(***************************************************************************)
NoCarrierAlone == m.conns = {} /\ ~m.stray => ~m.dcd

(***************************************************************************)
(* Between two polls the rate of the UART fits the carrier, the temporary  *)
(* rate (S43) with a carrier and the normal one without, unless the        *)
(* carrier changed while a change of rate was pending.                     *)
(***************************************************************************)
BaudFollowsCarrier ==
    TempBaud /\ pc = "idle" /\ ~m.stray => m.blip \/ (m.uart = "temp") = m.dcd

(***************************************************************************)
(* Every caller that rings is answered, gives up or is turned away, unless *)
(* the terminal streams the call unanswered (ATDn).                        *)
(***************************************************************************)
RingingEnds ==
    \A c \in Ids : Ringing(m, c) ~> ~Ringing(m, c) \/ m.stream = c \/ m.stray

(***************************************************************************)
(* S63=2: a fall of DTR that lasts ends the streamed call.                 *)
(***************************************************************************)
DtrHangsUp ==
    m.mode = "stream" /\ m.lastDTR /\ ~m.dtr
        ~> m.mode = "command" \/ m.dtr \/ m.stray

(***************************************************************************)
(* No handler follows a pointer to a connection that was deleted.  The     *)
(* comment in sendNextPacket: after a deletion, leave the walk and start   *)
(* over.                                                                   *)
(***************************************************************************)
WalkListed == ~m.stray
=============================================================================
