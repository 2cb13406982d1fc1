----------------------------- MODULE MCEnergyStore -----------------------------
(****************************************************************************)
(* The instances of EnergyStore that TLC checks: a counter that wraps       *)
(* within the behaviour (W = 3, up to 5 ticks), words of at_power small     *)
(* enough for a store to be torn between two integers, one failure of the   *)
(* supply and any number of presses of the button.                          *)
(****************************************************************************)
EXTENDS EnergyStore

MCW == 3
MCB == 2
MCK == 1
===============================================================================
