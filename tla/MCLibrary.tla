----------------------------- MODULE MCLibrary ------------------------------
(***************************************************************************)
(* Three parts of ximodem.cpp for TLC: one of its rings, with four slots   *)
(* and so three queued bytes at most, the output path, and the life of an  *)
(* instance.  None reads what another keeps, so a behaviour is one of the  *)
(* three at work and not their product; which one is chosen first.         *)
(***************************************************************************)
EXTENDS Ring, Instance, DteLink

VARIABLE part

libraryVars == <<ringVars, instanceVars, vars, part>>

\* Wrap is the power-of-two mask of the code over the values it is applied to.
ASSUME WrapIsMask == \A i \in -(N - 1) .. 2 * N - 2 : Wrap(i) = i % N

LibraryInit ==
    /\ part \in {"ring", "instance", "output"}
    /\ RingInit
    /\ InstanceInit
    /\ Init
    /\ part # "output" => flow = "NORMAL"

LibraryNext ==
    \/ part = "ring" /\ RingNext /\ UNCHANGED <<instanceVars, vars, part>>
    \/ part = "instance" /\ InstanceNext /\ UNCHANGED <<ringVars, vars, part>>
    \/ part = "output" /\ Next /\ UNCHANGED <<ringVars, instanceVars, part>>

LibrarySpec == LibraryInit /\ [][LibraryNext]_libraryVars
=============================================================================
