------------------------------ MODULE MCZModem ------------------------------
(***************************************************************************)
(* TLC instances of ZModem.                                                *)
(***************************************************************************)
EXTENDS ZModem

FiveUnits == <<1, 2, 3, 4, 5>>

\* The beginning of the file, another file, and a longer one.
OldUnits == {<<1>>, <<9>>, <<1, 2, 3, 4, 5, 6>>}
=============================================================================
