------------------------------- MODULE MCHost -------------------------------
(***************************************************************************)
(* The network, the files and the sockets of the host for TLC.  None reads *)
(* what another keeps, so a behaviour is one of the three at work and not  *)
(* their product; which one is chosen first.                               *)
(*                                                                         *)
(* The sockets are those of a plain client and one with TLS, over two      *)
(* sockets and two descriptors, so that one is used again while the other  *)
(* client, the server or a ping still has what it had.                     *)
(***************************************************************************)
EXTENDS HostNet, Files, Sockets

VARIABLE part

partVars == <<netVars, fileVars, socketVars, part>>

Init ==
    /\ part \in {"network", "files", "sockets"}
    /\ NetInit
    /\ FilesInit
    /\ SocketsInit
    /\ part # "network" => up
    /\ part # "files" => oldDisk = <<>>

Next ==
    \/ part = "network" /\ NetNext /\ UNCHANGED <<fileVars, socketVars, part>>
    \/ part = "files" /\ FilesNext /\ UNCHANGED <<netVars, socketVars, part>>
    \/ part = "sockets" /\ SocketsNext /\ UNCHANGED <<netVars, fileVars, part>>

\* Where the files are at work, the firmware's loop stands still.
AtWork(A) == part = "network" /\ A
OnLine(A) == part = "sockets" /\ A

Spec ==
    /\ Init
    /\ [][Next]_partVars
    /\ WF_netVars(AtWork(ConnectSteps \/ ConfigSteps \/ SliceSteps))
    /\ SF_netVars(AtWork(EndLine))
    /\ WF_socketVars(OnLine(WriteSteps))
    /\ WF_socketVars(OnLine(HandshakeSteps))
    /\ \A f \in Fds : WF_socketVars(OnLine(PeerTakes(f)))
=============================================================================
