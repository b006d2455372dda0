------------------------------ MODULE MCXModem ------------------------------
(***************************************************************************)
(* TLC instances of XModem.  The limits of the code (32, 16, 10 and 10)    *)
(* are cut to just above the faults of the line, or to just below for the  *)
(* cases that give up.                                                     *)
(***************************************************************************)
EXTENDS XModem

\* The number of block 4 is that of EOT, and the data of block 2 are an EOT.
ShortFile == <<301, EOT, 303, 304, 305>>
=============================================================================
