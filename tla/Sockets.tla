------------------------------- MODULE Sockets -------------------------------
(***************************************************************************)
(* The sockets of the compatibility layer: WiFiClient, WiFiClientSecure    *)
(* and WiFiServer over the descriptors of the host (compat/WiFi.cpp,       *)
(* compat/WiFi.h, compat/tls.cpp with OpenSSL).                            *)
(*                                                                         *)
(* A WiFiClient is a shared pointer to a Sock, a descriptor and a flag:    *)
(* copies share it, and the last one dropped closes the descriptor.  The   *)
(* firmware copies a client before it is connected (the client member of   *)
(* WiFiClientNode is a copy of *clientPtr) and uses the original only.     *)
(* A secure client also keeps an SSL object that works on the bare         *)
(* descriptor, and bytes that are decrypted and not yet read.              *)
(*                                                                         *)
(* The firmware is one thread: write and the TLS handshake loop in it, and *)
(* only the host and the peers move meanwhile.  A closed descriptor is     *)
(* given out again.  Bytes are counted, not named: their order is TCP's.   *)
(***************************************************************************)
EXTENDS Naturals, FiniteSets

CONSTANTS
    Clients,    \* the WiFiClient objects there can be
    Secure,     \* those that are WiFiClientSecure
    Socks,      \* the Sock records
    Fds,        \* the descriptors the host gives out
    NoSock, BadFd,
    Record,     \* bytes in one TLS record
    MaxSent,    \* bound: bytes a peer sends on one connection
    MaxWrite,   \* bound: bytes in one write
    SndBuf,     \* bytes the host takes before it would block
    Backlog,    \* callers the host holds for a listener: 4
    MaxTries,   \* attempts of a handshake: 2000
    PingPorts   \* ports a ping tries: 3

ASSUME SocketsAssumption ==
    /\ Secure \subseteq Clients
    /\ NoSock \notin Socks
    /\ BadFd \notin Fds
    /\ {Record, MaxSent, MaxWrite, SndBuf, Backlog, MaxTries, PingPorts} \subseteq Nat

VARIABLES
    ref,        \* the Sock each client shares, NoSock while it is no object
    fd,         \* Sock::fd
    connected,  \* Sock::connected
    ssl,        \* descriptor _ssl works on, BadFd while it is null
    pend,       \* SSL_pending: bytes decrypted and not yet read
    listenfd,   \* WiFiServer::_listenfd
    job,        \* the call the firmware is in; a ping has its own descriptor
    open,       \* the host: descriptors that are open
    rx,         \* the host: bytes that have arrived
    sent,       \* the host: bytes the peer has sent
    room,       \* the host: bytes it takes before it would block
    peer,       \* the other end of each descriptor
    backlog,    \* callers that wait at the listener
    failed,     \* descriptors on which a send has failed
    orphan      \* descriptors that a second connect() has left behind

objectVars == <<ref, fd, connected, ssl, pend, listenfd>>
hostVars == <<open, rx, sent, room, peer, backlog, failed, orphan>>
socketVars == <<ref, fd, connected, ssl, pend, listenfd, job, open, rx, sent,
                room, peer, backlog, failed, orphan>>

Idle == [op |-> "none"]

SocketsInit ==
    /\ ref = [c \in Clients |-> NoSock]
    /\ fd = [s \in Socks |-> BadFd]
    /\ connected = [s \in Socks |-> FALSE]
    /\ ssl = [c \in Secure |-> BadFd]
    /\ pend = [c \in Secure |-> 0]
    /\ listenfd = BadFd
    /\ job = Idle
    /\ open = {}
    /\ rx = [f \in Fds |-> 0]
    /\ sent = [f \in Fds |-> 0]
    /\ room = [f \in Fds |-> SndBuf]
    /\ peer = [f \in Fds |-> "none"]
    /\ backlog = 0
    /\ failed = {}
    /\ orphan = {}

-----------------------------------------------------------------------------
(* Descriptors and Socks.                                                  *)

Free == Fds \ open

Held(r) == {s \in Socks : \E c \in Clients : r[c] = s}
Live == Held(ref)

\* The descriptor of a client's Sock.
FdOf(c) == IF ref[c] = NoSock THEN BadFd ELSE fd[ref[c]]

\* A copy of a secure client: the firmware works through the original.
Fronted(c) == c \notin Secure /\ \E d \in Secure : ref[d] # NoSock /\ ref[d] = ref[c]

Callable(c) == job = Idle /\ ref[c] # NoSock /\ ~Fronted(c)

\* The host closes a set of descriptors.
Closed(fs) ==
    /\ open' = open \ fs
    /\ rx' = [f \in Fds |-> IF f \in fs THEN 0 ELSE rx[f]]
    /\ sent' = [f \in Fds |-> IF f \in fs THEN 0 ELSE sent[f]]
    /\ room' = [f \in Fds |-> IF f \in fs THEN SndBuf ELSE room[f]]
    /\ peer' = [f \in Fds |-> IF f \in fs THEN "none" ELSE peer[f]]
    /\ failed' = failed \ fs
    /\ UNCHANGED orphan

\* ~Sock() closes what it holds, once no client of r shares it.
Dropped(r) == {fd[s] : s \in Socks \ Held(r)} \ {BadFd}

Share(r) ==
    /\ ref' = r
    /\ fd' = [s \in Socks |-> IF s \in Held(r) THEN fd[s] ELSE BadFd]
    /\ connected' = [s \in Socks |-> s \in Held(r) /\ connected[s]]
    /\ Closed(Dropped(r))
    /\ UNCHANGED backlog

\* tlsClose(): the SSL object goes, and with it what was decrypted.
NoTls(c) ==
    /\ ssl' = [d \in Secure |-> IF d = c THEN BadFd ELSE ssl[d]]
    /\ pend' = [d \in Secure |-> IF d = c THEN 0 ELSE pend[d]]

\* WiFiClient::stop().
BaseStop(c) ==
    /\ fd' = [fd EXCEPT ![ref[c]] = BadFd]
    /\ connected' = [connected EXCEPT ![ref[c]] = FALSE]
    /\ Closed({FdOf(c)} \ {BadFd})
    /\ UNCHANGED <<ref, backlog>>

-----------------------------------------------------------------------------
(* Objects: made, copied, deleted.                                         *)

Make(c) ==
    /\ job = Idle
    /\ ref[c] = NoSock
    /\ \E s \in Socks \ Live : ref' = [ref EXCEPT ![c] = s]
    /\ UNCHANGED <<fd, connected, ssl, pend, listenfd, job, hostVars>>

\* client = *clientPtr, client = newClient: a plain client takes a copy.
Copy(c, d) ==
    /\ job = Idle
    /\ d \notin Secure
    /\ c # d
    /\ NoSock \notin {ref[c], ref[d]}
    /\ Share([ref EXCEPT ![d] = ref[c]])
    /\ UNCHANGED <<ssl, pend, listenfd, job>>

\* ~WiFiClientSecure() closes the SSL object, then the Sock may go.
Delete(c) ==
    /\ job = Idle
    /\ ref[c] # NoSock
    /\ NoTls(c)
    /\ Share([ref EXCEPT ![c] = NoSock])
    /\ UNCHANGED <<listenfd, job>>

-----------------------------------------------------------------------------
(* connect().  Name lookup, socket, connect and the wait for it end one    *)
(* way or the other; only success touches the Sock, and it does not close  *)
(* the descriptor that was there.                                          *)

ConnectFails(c) ==
    /\ Callable(c)
    /\ NoTls(c)
    /\ UNCHANGED <<ref, fd, connected, listenfd, job, hostVars>>

\* Mutant: a secure client that is connected again keeps its SSL object.
ConnectsOverTls(c, f) ==
    /\ Callable(c)
    /\ open' = open \cup {f}
    /\ peer' = [peer EXCEPT ![f] = "up"]
    /\ orphan' = orphan \cup ({FdOf(c)} \ {BadFd})
    /\ fd' = [fd EXCEPT ![ref[c]] = f]
    /\ connected' = [connected EXCEPT ![ref[c]] = TRUE]
    /\ job' = IF c \in Secure THEN [op |-> "tls", client |-> c, n |-> MaxTries] ELSE Idle
    /\ UNCHANGED <<ref, ssl, pend, listenfd, rx, sent, room, backlog, failed>>

\* A secure client goes on with the handshake.
Connects(c, f) ==
    /\ Callable(c)
    /\ NoTls(c)
    /\ open' = open \cup {f}
    /\ peer' = [peer EXCEPT ![f] = "up"]
    /\ orphan' = orphan \cup ({FdOf(c)} \ {BadFd})
    /\ fd' = [fd EXCEPT ![ref[c]] = f]
    /\ connected' = [connected EXCEPT ![ref[c]] = TRUE]
    /\ job' = IF c \in Secure THEN [op |-> "tls", client |-> c, n |-> MaxTries] ELSE Idle
    /\ UNCHANGED <<ref, listenfd, rx, sent, room, backlog, failed>>

\* tlsHandshake(): done, to be tried again after a wait, or given up.
HandshakeDone ==
    /\ job.op = "tls"
    /\ job.n > 0
    /\ peer[FdOf(job.client)] = "up"
    /\ ssl' = [ssl EXCEPT ![job.client] = FdOf(job.client)]
    /\ job' = Idle
    /\ UNCHANGED <<ref, fd, connected, pend, listenfd, hostVars>>

HandshakeWaits ==
    /\ job.op = "tls"
    /\ job.n > 0
    /\ job' = [job EXCEPT !.n = @ - 1]
    /\ UNCHANGED <<objectVars, hostVars>>

\* An error of SSL_connect, or the last attempt was used up.
HandshakeFails ==
    /\ job.op = "tls"
    /\ BaseStop(job.client)
    /\ job' = Idle
    /\ UNCHANGED <<ssl, pend, listenfd>>

-----------------------------------------------------------------------------
(* write(): a loop until all is sent or a send fails.  Would-block yields  *)
(* to the host and tries again, without a limit.                           *)

Write(c, n) ==
    /\ Callable(c)
    /\ FdOf(c) # BadFd
    /\ c \in Secure => ssl[c] # BadFd
    /\ job' = [op |-> "write", client |-> c, n |-> n]
    /\ UNCHANGED <<objectVars, hostVars>>

WriteSends ==
    /\ job.op = "write"
    /\ peer[FdOf(job.client)] # "reset"
    /\ room[FdOf(job.client)] > 0
    /\ room' = [room EXCEPT ![FdOf(job.client)] = @ - 1]
    /\ job' = IF job.n = 1 THEN Idle ELSE [job EXCEPT !.n = @ - 1]
    /\ UNCHANGED <<objectVars, open, rx, sent, peer, backlog, failed, orphan>>

\* Mutant: an error is tried again like would-block.
WriteRetries ==
    /\ job.op = "write"
    /\ peer[FdOf(job.client)] = "reset"
    /\ UNCHANGED socketVars

\* The plain client notes that the connection is gone; the secure one does not.
WriteFails ==
    /\ job.op = "write"
    /\ peer[FdOf(job.client)] = "reset"
    /\ connected' = [connected EXCEPT ![ref[job.client]] = job.client \in Secure /\ @]
    /\ failed' = failed \cup {FdOf(job.client)}
    /\ job' = Idle
    /\ UNCHANGED <<ref, fd, ssl, pend, listenfd, open, rx, sent, room, peer, backlog, orphan>>

-----------------------------------------------------------------------------
(* read(), available(), peek(), connected(), stop().                       *)

\* No byte is left and none will come.
Over(f) == rx[f] = 0 /\ peer[f] \in {"fin", "reset"}

\* recv() gives bytes, the end, or would block; the end clears the flag.
PlainRead(c) ==
    /\ Callable(c)
    /\ c \notin Secure
    /\ FdOf(c) # BadFd
    /\ \/ /\ \E n \in 1 .. rx[FdOf(c)] : rx' = [rx EXCEPT ![FdOf(c)] = @ - n]
          /\ UNCHANGED connected
       \/ /\ Over(FdOf(c))
          /\ connected' = [connected EXCEPT ![ref[c]] = FALSE]
          /\ UNCHANGED rx
    /\ UNCHANGED <<ref, fd, ssl, pend, listenfd, job, open, sent, room, peer, backlog,
                   failed, orphan>>

\* SSL_peek and SSL_read take a record off the socket once all before is read.
Decrypted(f) == IF rx[f] < Record THEN rx[f] ELSE Record

SslAvailable(c) ==
    /\ Callable(c)
    /\ c \in Secure
    /\ ssl[c] # BadFd
    /\ pend[c] = 0
    /\ rx[ssl[c]] > 0
    /\ pend' = [pend EXCEPT ![c] = Decrypted(ssl[c])]
    /\ rx' = [rx EXCEPT ![ssl[c]] = @ - Decrypted(ssl[c])]
    /\ UNCHANGED <<ref, fd, connected, ssl, listenfd, job, open, sent, room, peer, backlog,
                   failed, orphan>>

SslRead(c) ==
    /\ Callable(c)
    /\ c \in Secure
    /\ ssl[c] # BadFd
    /\ LET f == ssl[c]
           new == IF pend[c] = 0 THEN Decrypted(f) ELSE 0
       IN  /\ \E n \in 1 .. pend[c] + new : pend' = [pend EXCEPT ![c] = @ + new - n]
           /\ rx' = [rx EXCEPT ![f] = @ - new]
    /\ UNCHANGED <<ref, fd, connected, ssl, listenfd, job, open, sent, room, peer, backlog,
                   failed, orphan>>

\* Mutant: the peer's end is taken for the end of the bytes.
NoticesClose(c) ==
    /\ Callable(c)
    /\ FdOf(c) # BadFd
    /\ c \in Secure => ssl[c] # BadFd
    /\ peer[FdOf(c)] \in {"fin", "reset"}
    /\ connected' = [connected EXCEPT ![ref[c]] = FALSE]
    /\ UNCHANGED <<ref, fd, ssl, pend, listenfd, job, hostVars>>

\* connected() peeks at the socket and notes the end.
NoticesEnd(c) ==
    /\ Callable(c)
    /\ FdOf(c) # BadFd
    /\ c \in Secure => ssl[c] # BadFd
    /\ Over(FdOf(c))
    /\ connected' = [connected EXCEPT ![ref[c]] = FALSE]
    /\ UNCHANGED <<ref, fd, ssl, pend, listenfd, job, hostVars>>

\* What connected() answers.
Answers(c) ==
    /\ FdOf(c) # BadFd
    /\ c \in Secure => ssl[c] # BadFd
    /\ ~Over(FdOf(c))
    /\ connected[ref[c]]

Stop(c) ==
    /\ Callable(c)
    /\ NoTls(c)
    /\ BaseStop(c)
    /\ UNCHANGED <<listenfd, job>>

-----------------------------------------------------------------------------
(* WiFiServer.                                                             *)

\* begin() stops the listener; then socket, bind or listen may fail.
Begin ==
    /\ job = Idle
    /\ LET rest == open \ {listenfd}
       IN  \/ listenfd' = BadFd /\ open' = rest
           \/ \E f \in Fds \ rest : listenfd' = f /\ open' = rest \cup {f}
    /\ backlog' = 0
    /\ UNCHANGED <<ref, fd, connected, ssl, pend, job, rx, sent, room, peer, failed, orphan>>

Unlisten ==
    /\ job = Idle
    /\ listenfd' = BadFd
    /\ open' = open \ {listenfd}
    /\ backlog' = 0
    /\ UNCHANGED <<ref, fd, connected, ssl, pend, job, rx, sent, room, peer, failed, orphan>>

\* available() makes a client: of the first caller, or of no descriptor.
Accept(c) ==
    /\ job = Idle
    /\ c \notin Secure
    /\ ref[c] = NoSock
    /\ listenfd # BadFd
    /\ backlog > 0
    /\ \E s \in Socks \ Live, f \in Free :
           /\ ref' = [ref EXCEPT ![c] = s]
           /\ fd' = [fd EXCEPT ![s] = f]
           /\ connected' = [connected EXCEPT ![s] = TRUE]
           /\ open' = open \cup {f}
           /\ peer' = [peer EXCEPT ![f] = "up"]
    /\ backlog' = backlog - 1
    /\ UNCHANGED <<ssl, pend, listenfd, job, rx, sent, room, failed, orphan>>

-----------------------------------------------------------------------------
(* ping(): an ICMP socket, or where the host forbids it a TCP connect to   *)
(* one port after another.  No object is involved.                         *)

Pinging == IF job.op = "ping" THEN {job.fd} ELSE {}

Probe(f, n) ==
    /\ job' = [op |-> "ping", fd |-> f, n |-> n]
    /\ open' = (open \ Pinging) \cup {f}
    /\ UNCHANGED <<objectVars, rx, sent, room, peer, backlog, failed, orphan>>

\* n: the ports that are left to try; one that gets no socket is passed over.
PingStarts(f) ==
    /\ job = Idle
    /\ \E n \in 0 .. PingPorts : Probe(f, n)

\* No answer from this port.
PingsNext(f) ==
    /\ job.op = "ping"
    /\ \E n \in 0 .. PingPorts : n < job.n /\ Probe(f, n)

\* An answer (a refusal counts), an error, or the time is over.
PingEnds ==
    /\ job.op = "ping"
    /\ job' = Idle
    /\ open' = open \ Pinging
    /\ UNCHANGED <<objectVars, rx, sent, room, peer, backlog, failed, orphan>>

-----------------------------------------------------------------------------
(* The peers, who may do anything TCP allows, also to orphans.             *)

PeerSends(f) ==
    /\ peer[f] = "up"
    /\ sent[f] < MaxSent
    /\ sent' = [sent EXCEPT ![f] = @ + 1]
    /\ rx' = [rx EXCEPT ![f] = @ + 1]
    /\ UNCHANGED <<objectVars, job, open, room, peer, backlog, failed, orphan>>

PeerEnds(f) ==
    /\ peer[f] \in {"up", "fin"}
    /\ peer' = [peer EXCEPT ![f] = IF @ = "up" THEN "fin" ELSE "reset"]
    /\ UNCHANGED <<objectVars, job, open, rx, sent, room, backlog, failed, orphan>>

PeerTakes(f) ==
    /\ f \in open
    /\ room[f] < SndBuf
    /\ room' = [room EXCEPT ![f] = @ + 1]
    /\ UNCHANGED <<objectVars, job, open, rx, sent, peer, backlog, failed, orphan>>

PeerCalls ==
    /\ listenfd # BadFd
    /\ backlog < Backlog
    /\ backlog' = backlog + 1
    /\ UNCHANGED <<objectVars, job, open, rx, sent, room, peer, failed, orphan>>

-----------------------------------------------------------------------------
ObjectSteps ==
    \/ \E c \in Clients : Make(c) \/ Delete(c) \/ (\E d \in Clients : Copy(c, d))

ClientSteps ==
    \/ \E c \in Clients :
          \/ ConnectFails(c) \/ PlainRead(c) \/ SslAvailable(c) \/ SslRead(c)
          \/ NoticesEnd(c) \/ Stop(c)
          \/ \E f \in Free : Connects(c, f)
          \/ \E n \in 1 .. MaxWrite : Write(c, n)

ServerSteps == Begin \/ Unlisten \/ \E c \in Clients : Accept(c)

PingSteps == PingEnds \/ \E f \in Free \cup Pinging : PingStarts(f) \/ PingsNext(f)

HandshakeSteps == HandshakeDone \/ HandshakeWaits \/ HandshakeFails
WriteSteps == WriteSends \/ WriteFails

PeerSteps ==
    \/ \E f \in Fds : PeerSends(f) \/ PeerEnds(f) \/ PeerTakes(f)
    \/ PeerCalls

SocketsNext ==
    \/ ObjectSteps \/ ClientSteps \/ ServerSteps
    \/ HandshakeSteps \/ WriteSteps \/ PingSteps \/ PeerSteps

SocketsSpec == SocketsInit /\ [][SocketsNext]_socketVars

\* The firmware's loops go on, and a peer that lets the connection be takes
\* what it is sent.
SocketsFairness ==
    /\ WF_socketVars(WriteSteps)
    /\ WF_socketVars(HandshakeSteps)
    /\ \A f \in Fds : WF_socketVars(PeerTakes(f))

-----------------------------------------------------------------------------
SocketsTypeOK ==
    /\ ref \in [Clients -> Socks \cup {NoSock}]
    /\ fd \in [Socks -> Fds \cup {BadFd}]
    /\ connected \in [Socks -> BOOLEAN]
    /\ ssl \in [Secure -> Fds \cup {BadFd}]
    /\ pend \in [Secure -> Nat]
    /\ listenfd \in Fds \cup {BadFd}
    /\ job \in {Idle} \cup
               [op : {"write"}, client : Clients, n : Nat \ {0}] \cup
               [op : {"tls"}, client : Secure, n : Nat] \cup
               [op : {"ping"}, fd : Fds, n : Nat]
    /\ open \subseteq Fds
    /\ rx \in [Fds -> Nat]
    /\ sent \in [Fds -> Nat]
    /\ room \in [Fds -> Nat]
    /\ peer \in [Fds -> {"none", "up", "fin", "reset"}]
    /\ backlog \in Nat
    /\ failed \subseteq Fds
    /\ orphan \subseteq Fds

\* What a Sock names is open, is its own, and some client shares the Sock.
SocksOwn ==
    /\ \A s \in Socks : fd[s] # BadFd => s \in Live /\ fd[s] \in open \ orphan
    /\ \A s, t \in Socks : fd[s] = fd[t] /\ fd[s] # BadFd => s = t

ListenerOwns ==
    listenfd # BadFd => listenfd \in open \ orphan /\ \A s \in Socks : fd[s] # listenfd

PingOwns ==
    \A f \in Pinging : f \in open \ orphan /\ f # listenfd /\ \A s \in Socks : fd[s] # f

NothingLeaks ==
    \A f \in open \ orphan :
        f = listenfd \/ f \in Pinging \/ \E s \in Socks : fd[s] = f

SslBound == \A c \in Secure : ssl[c] # BadFd => FdOf(c) = ssl[c]

\* Every open descriptor has one owner: the one Sock that holds it, which some
\* client shares, the listener, a ping, or nobody since a second connect() on
\* the same client replaced it.  What a Sock, the listener or an SSL object names is
\* open: nothing is closed twice or used after the host gave the number away,
\* whoever copies, stops or deletes a client (WiFi.cpp:42-52, 91, 136-139;
\* tls.cpp:68-70, 110-114, 173-176).
DescriptorsOwned == SocksOwn /\ ListenerOwns /\ PingOwns /\ NothingLeaks /\ SslBound

\* A client is not called disconnected while bytes of the peer are unread,
\* though the peer has gone: only a failed send ends a call early
\* (WiFi.cpp:121-126, 140-147).  For a secure client the bytes already
\* decrypted are not counted: see the README.
EndAfterBytes ==
    \A c \in Clients :
        /\ ref[c] # NoSock
        /\ FdOf(c) # BadFd
        /\ c \in Secure => ssl[c] # BadFd
        /\ rx[FdOf(c)] > 0
        /\ FdOf(c) \notin failed
        => Answers(c)

\* A write comes to its end, all sent or refused, when the peer takes bytes or
\* goes: nothing else ends it, there is no timeout (WiFi.cpp:100-106).
WriteEnds == job.op = "write" ~> job.op # "write"
=============================================================================
