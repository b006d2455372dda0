------------------------------ MODULE MCCalls -------------------------------
(***************************************************************************)
(* TLC instances of Calls.  RingsWhenOff and BusyRings are cut from 5:     *)
(* with RingsWhenOff = 1 a caller gets 4 ring times (2 rings and the       *)
(* silences between them), which is every case of the walk over the rings. *)
(***************************************************************************)
EXTENDS Calls

AllCommands == {"ATA", "ATO", "ATD", "ATDn", "ATC", "ATC0", "ATCn", "ATH",
                "ATH0", "ATHn", "ATD host", "ATC host"}
=============================================================================
