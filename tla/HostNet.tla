------------------------------- MODULE HostNet -------------------------------
(***************************************************************************)
(* The network as the firmware sees it: WiFiClass over the adapters of the *)
(* host (compat/WiFi.cpp), connectWifi(), the reconnect check and the loop *)
(* (zimodem.ino), the AT commands that ask for the network (zcommand.ino)  *)
(* and the clock, which asks a time server over WiFiUDP (rt_clock.ino).    *)
(*                                                                         *)
(* On the host the network is up or down whatever the firmware does.  So   *)
(* that connectWifi() can "disconnect" first, disconnect() latches one     *)
(* answer "down", which the next status(), of whoever asks, takes.         *)
(*                                                                         *)
(* A step runs from one look at the host to the next.  Time is counted in  *)
(* units modulo Width, as millis() is modulo 2^32.                         *)
(***************************************************************************)
EXTENDS Naturals

CONSTANTS
    Retries,    \* looks of connectWifi() before it gives up: 20
    Width,      \* values of millis(): 2^32
    Short,      \* ntpPeriodMillis: one minute
    Long,       \* ntpPeriodLongMillis: five hours
    MaxStep     \* bound: time that passes in one slice

ASSUME HostNetAssumption ==
    /\ {Retries, Width, Short, Long, MaxStep} \subseteq Nat \ {0}
    /\ Short <= Long
    /\ 2 * Long + MaxStep < Width

VARIABLES
    up,         \* the host has a network
    latch,      \* g_wifiTransientDown
    pc,         \* where the firmware is
    from,       \* who called connectWifi() or the configuration
    tries,      \* WiFiCounter
    ssi,        \* wifiSSI is not empty
    retry,      \* nextReconnectDelay > 0
    disabled,   \* zclock.disabled
    started,    \* zclock.udpStarted
    timeSet,    \* the clock has the time
    now,        \* millis()
    next,       \* nextNTPMillis
    query,      \* the last request: none or lost, sent, or its answer is here
    since       \* time that the clock has waited for since it last asked

linkVars == <<latch, pc, from, tries, ssi, retry>>
clockVars == <<disabled, started, timeSet, now, next, query, since>>
\* Bound of the count.
TooLong == 2 * Long + MaxStep + 1

netVars == <<up, latch, pc, from, tries, ssi, retry, disabled, started, timeSet,
             now, next, query, since>>

NetInit ==
    /\ up \in BOOLEAN
    /\ latch = FALSE
    /\ pc = "load"
    /\ from = "boot"
    /\ tries = 0
    /\ ssi = FALSE
    /\ retry = FALSE
    /\ disabled = FALSE
    /\ started = FALSE
    /\ timeSet = FALSE
    /\ now = 0
    /\ next = 0
    /\ query = "none"
    /\ since = 0

-----------------------------------------------------------------------------
(* status(): the latch answers once, else the host.                        *)

Status == latch' = FALSE

\* Mutant: a status that is pinned to the host's.
PinnedToHost == up

Connected == up /\ ~latch

\* if (status() == WL_CONNECTED) disconnect();
DisconnectIfUp == latch' = Connected

-----------------------------------------------------------------------------
(* connectWifi().                                                          *)

\* while (status() == WL_CONNECTED) disconnect();
Spin ==
    /\ pc = "spin"
    /\ IF Connected
       THEN latch' = TRUE /\ pc' = "spin"
       ELSE Status /\ pc' = "begin"
    /\ UNCHANGED <<up, from, tries, ssi, retry, clockVars>>

\* begin() clears the latch.
BeginWifi ==
    /\ pc = "begin"
    /\ latch' = FALSE
    /\ tries' = 0
    /\ pc' = "check"
    /\ UNCHANGED <<up, from, ssi, retry, clockVars>>

Check ==
    /\ pc = "check"
    /\ \/ Connected /\ Status /\ retry' = TRUE /\ pc' = "report" /\ UNCHANGED tries
       \/ ~Connected /\ tries < Retries /\ Status /\ tries' = tries + 1 /\ UNCHANGED <<pc, retry>>
       \/ ~Connected /\ tries = Retries /\ latch' = TRUE /\ retry' = FALSE
          /\ pc' = "report" /\ UNCHANGED tries
    /\ UNCHANGED <<up, from, ssi, clockVars>>

\* The look for the debug line: after a disconnect() it takes the latch.
Report ==
    /\ pc = "report"
    /\ Status
    /\ pc' = "answer"
    /\ UNCHANGED <<up, from, tries, ssi, retry, clockVars>>

\* The result, and what each caller does with it.
Answer ==
    /\ pc = "answer"
    /\ Status
    /\ pc' = CASE from \in {"boot", "load", "format"} -> "zone"
               [] from = "reconnect" -> "serve"
               [] OTHER -> "more"
    /\ from' = IF pc' = "zone" THEN from ELSE "none"
    /\ retry' = (retry \/ from \in {"boot", "load", "format", "reconnect"})
    /\ ssi' = (ssi \/ (from = "join" /\ Connected))
    /\ tries' = 0
    /\ UNCHANGED <<up, clockVars>>

-----------------------------------------------------------------------------
(* The clock.                                                              *)

\* forceUpdate() at a time: the next look at the clock, the UDP socket, which may
\* not be had, a request.  One that name lookup or the host fails is Lost.
ForceUpdate(time) ==
    /\ next' = (time + Short) % Width
    /\ started' \in IF started THEN {TRUE} ELSE BOOLEAN
    /\ Status
    /\ query' = IF Connected /\ started' /\ query = "none" THEN "sent" ELSE query
    /\ since' = 0
    /\ UNCHANGED timeSet

\* The clock is set to ask no more, or anew, and does not ask now.
NoUpdate == since' = 0 /\ UNCHANGED <<latch, started, timeSet, next, query>>

ClockReset ==
    /\ timeSet' = FALSE
    /\ next' = now
    /\ since' = 0
    /\ UNCHANGED <<disabled, started, now, query>>

\* Mutant: a request that is overdue is not sent again.
DueInTime(time) == next >= time /\ (next - time > Long \/ next = time)

\* Is it time to ask again?  After the very millisecond, only when it is long past.
Due(time) ==
    \/ next >= time /\ (next - time > Long \/ next = time)
    \/ next < time /\ time - next > Long

Received(time) ==
    /\ query = "back"
    /\ timeSet' = TRUE
    /\ next' = (time + Long) % Width
    /\ query' = "none"
    /\ since' = 0
    /\ UNCHANGED <<latch, started>>

\* The clock that has its socket and not the time waits on; a count beyond
\* TooLong says no more.
Elapses(d) ==
    /\ since' = IF disabled \/ ~started \/ timeSet THEN 0
                ELSE IF since + d > TooLong THEN TooLong ELSE since + d
    /\ UNCHANGED <<latch, started, timeSet, next, query>>

\* The slice takes time and ends with tick().
Tick(d) ==
    /\ pc = "tick"
    /\ now' = (now + d) % Width
    /\ \/ ~disabled /\ started /\ Received(now')
       \/ ~disabled /\ started /\ query # "back" /\ Due(now') /\ ForceUpdate(now')
       \/ (disabled \/ ~started \/ (query # "back" /\ ~Due(now'))) /\ Elapses(d)
    /\ pc' = "reconnect"
    /\ UNCHANGED <<up, from, tries, ssi, retry, disabled>>

-----------------------------------------------------------------------------
(* The configuration.                                                      *)

\* loadConfig(): disconnects; the file may name a network or not.
Load ==
    /\ pc = "load"
    /\ DisconnectIfUp
    /\ ssi' \in BOOLEAN
    /\ pc' = IF ssi' THEN "spin" ELSE "zone"
    /\ UNCHANGED <<up, from, tries, retry, clockVars>>

\* setOptionsFromSavedConfig(): no time zone, the clock off, or a time zone.
SetZone ==
    /\ pc = "zone"
    /\ \/ UNCHANGED <<latch, disabled, started, timeSet, next, query, since>>
       \/ disabled' = TRUE /\ NoUpdate
       \/ disabled' = FALSE /\ ForceUpdate(now)
    /\ pc' = "update"
    /\ UNCHANGED <<up, from, tries, ssi, retry, now>>

\* Then: if (!disabled && status() == WL_CONNECTED) forceUpdate();
ConfigDone ==
    /\ pc' = CASE from = "boot" -> "reconnect" [] from = "format" -> "wipe" [] OTHER -> "more"
    /\ from' = "none"

UpdateIfUp ==
    /\ pc = "update"
    /\ \/ disabled /\ ConfigDone /\ UNCHANGED latch
       \/ ~disabled /\ ~Connected /\ Status /\ ConfigDone
       \/ ~disabled /\ Connected /\ Status /\ pc' = "force" /\ UNCHANGED from
    /\ UNCHANGED <<up, tries, ssi, retry, clockVars>>

ForceNow ==
    /\ pc = "force"
    /\ ForceUpdate(now)
    /\ ConfigDone
    /\ UNCHANGED <<up, tries, ssi, retry, disabled, now>>

\* AT&F86 resets the clock last.
Wipe ==
    /\ pc = "wipe"
    /\ ClockReset
    /\ pc' = "more"
    /\ UNCHANGED <<up, latch, from, tries, ssi, retry>>

-----------------------------------------------------------------------------
(* A slice: checkReconnect(), a line of commands or none, tick().          *)

\* Mutant: the cheap tests come first.
ReconnectLazily ==
    /\ pc = "reconnect"
    /\ \/ retry /\ ssi /\ ~Connected /\ Status /\ pc' = "spin"
       \/ retry /\ ssi /\ Status /\ pc' = "serve"
       \/ ~(retry /\ ssi) /\ pc' = "serve" /\ UNCHANGED latch
    /\ from' = IF pc' = "spin" THEN "reconnect" ELSE "none"
    /\ UNCHANGED <<up, tries, ssi, retry, clockVars>>

\* status() is asked first; the delay may not be over.
Reconnect ==
    /\ pc = "reconnect"
    /\ Status
    /\ \/ ~Connected /\ retry /\ ssi /\ pc' = "spin"
       \/ pc' = "serve"
    /\ from' = IF pc' = "spin" THEN "reconnect" ELSE "none"
    /\ UNCHANGED <<up, tries, ssi, retry, clockVars>>

\* A command starts: the first of a line, or one more.
Command(who, where) ==
    /\ pc \in {"serve", "more"}
    /\ from' = IF where = "more" THEN "none" ELSE who
    /\ pc' = where
    /\ UNCHANGED <<up, tries, retry>>

\* AT&L, AT&F86: loadConfig().
AtLoad ==
    /\ Command("load", "load") \/ Command("format", "load")
    /\ UNCHANGED <<latch, ssi, clockVars>>

\* ATZ: the options of the file.
AtReset ==
    /\ Command("reset", "zone")
    /\ UNCHANGED <<latch, ssi, clockVars>>

\* AT&F: no network name, no time, and the options of what file is left.
AtFactory ==
    /\ Command("reset", "zone")
    /\ DisconnectIfUp
    /\ ssi' = FALSE
    /\ ClockReset

\* ATC without a number: connectWifi() if the network is down.
AtConnect ==
    /\ \/ ~Connected /\ ssi /\ Command("connect", "spin")
       \/ Command("connect", "more")
    /\ Status
    /\ UNCHANGED <<ssi, clockVars>>

\* ATW"ssi,password".
AtJoin ==
    /\ Command("join", "spin")
    /\ UNCHANGED <<latch, ssi, clockVars>>

\* ATS40: a new host name is made known by connecting again.
AtHostName ==
    /\ Command("host", IF Connected THEN "spin" ELSE "more")
    /\ Status
    /\ UNCHANGED <<ssi, clockVars>>

\* ATA, AT&G, ATI and others look at the network and go on or refuse.
AtAsk ==
    /\ Command("ask", "more")
    /\ Status
    /\ UNCHANGED <<ssi, clockVars>>

\* AT&T: the clock off, or a time zone, which asks for the time.
AtZone ==
    /\ Command("zone", "more")
    /\ \/ disabled' = FALSE /\ ForceUpdate(now)
       \/ disabled' \in BOOLEAN /\ NoUpdate
    /\ UNCHANGED <<ssi, now>>

EndLine ==
    /\ pc \in {"serve", "more"}
    /\ pc' = "tick"
    /\ UNCHANGED <<up, latch, from, tries, ssi, retry, clockVars>>

-----------------------------------------------------------------------------
(* The host and the time server.                                           *)

HostChanges ==
    /\ up' = ~up
    /\ UNCHANGED <<linkVars, clockVars>>

Answered ==
    /\ query = "sent"
    /\ query' = "back"
    /\ UNCHANGED <<up, linkVars, disabled, started, timeSet, now, next, since>>

Lost ==
    /\ query = "sent"
    /\ query' = "none"
    /\ UNCHANGED <<up, linkVars, disabled, started, timeSet, now, next, since>>

-----------------------------------------------------------------------------
ConnectSteps == Spin \/ BeginWifi \/ Check \/ Report \/ Answer
ConfigSteps == Load \/ SetZone \/ UpdateIfUp \/ ForceNow \/ Wipe
Commands == AtLoad \/ AtReset \/ AtFactory \/ AtConnect \/ AtJoin \/ AtHostName \/ AtAsk \/ AtZone
SliceSteps == Reconnect \/ EndLine \/ \E d \in 0 .. MaxStep : Tick(d)

NetNext == ConnectSteps \/ ConfigSteps \/ Commands \/ SliceSteps \/ HostChanges \/ Answered \/ Lost

NetSpec == NetInit /\ [][NetNext]_netVars

\* The firmware runs, and a line of commands ends.
NetFairness ==
    /\ WF_netVars(ConnectSteps \/ ConfigSteps \/ SliceSteps)
    /\ SF_netVars(EndLine)

-----------------------------------------------------------------------------
NetTypeOK ==
    /\ up \in BOOLEAN /\ latch \in BOOLEAN /\ ssi \in BOOLEAN /\ retry \in BOOLEAN
    /\ disabled \in BOOLEAN /\ started \in BOOLEAN /\ timeSet \in BOOLEAN
    /\ pc \in {"load", "zone", "update", "force", "wipe", "spin", "begin", "check",
               "report", "answer", "reconnect", "serve", "more", "tick"}
    /\ from \in {"none", "boot", "load", "format", "reset", "reconnect", "connect",
                 "join", "host"}
    /\ tries \in 0 .. Retries
    /\ now \in 0 .. Width - 1
    /\ next \in 0 .. Width - 1
    /\ query \in {"none", "sent", "back"}
    /\ since \in 0 .. TooLong

\* A line of commands starts with no latched answer, whatever disconnected
\* before it: AT&F, AT&L and a connectWifi() that failed leave a "down" that a
\* later command would take for the network's (WiFi.h:189-193).  It is the look
\* of checkReconnect(), before the other tests, that takes it (zimodem.ino:634).
FreshLine == pc = "serve" => ~latch

\* setup() comes to loop(), and loop() to its next slice, also through
\* connectWifi(), which spins until the network is down on a host that keeps it
\* up (zimodem.ino:376-381; WiFi.h:189-193).
LoopGoesOn == pc # "load" ~> pc = "reconnect"

\* A clock that has its socket and not the time asks again, whatever became of the
\* last request, whatever slices miss the millisecond of its next look, and however
\* old that is when the clock is switched on: a slice may take millis() past its
\* wrap, one long period may go by until the next look is past and one more until
\* it is long past (rt_clock.ino:148-157).  That is not the "every minute" of
\* rt_clock.h:164, which holds only as long as slices meet the millisecond.
AsksAgain == since <= 2 * Long + MaxStep

=============================================================================
