------------------------------ MODULE MCMetering ------------------------------
(****************************************************************************)
(* The instances of Metering that TLC checks.  The two RMS tasks run the    *)
(* same code, so one of them and the energy task show every interleaving of *)
(* two kinds of task.                                                       *)
(****************************************************************************)
EXTENDS Metering

TwoMeters == {"irms", "power"}
===============================================================================
