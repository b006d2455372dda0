----------------------------- MODULE MCDteLink ------------------------------
(***************************************************************************)
(* TLC instances of DteLink.  The sizes keep the order of the real ones:   *)
(* SerBuf = TxFifo - 1 < PreconfigHold <= RingCap.  Where there are two    *)
(* rates the slow one's DequeSize is at most SerBuf and the fast one's is  *)
(* beyond it, as 300 and 115200 are with 0x7F, 128 and a divisor of 380.   *)
(***************************************************************************)
EXTENDS DteLink

\* xi_baud_match accepts 3% and no more.
ASSUME MatchTolerance ==
    /\ BaudMatch(115200, 115200) /\ BaudMatch(115200, 111744)
    /\ ~BaudMatch(115200, 111743) /\ ~BaudMatch(1200, 1239)
=============================================================================
