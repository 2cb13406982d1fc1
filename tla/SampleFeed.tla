------------------------------ MODULE SampleFeed ------------------------------
(****************************************************************************)
(* What a consumer of measurements is promised, whatever lies in between:   *)
(* the value it shows of a quantity is one that was measured, and it never  *)
(* goes back to an older one.  Values may be skipped.                       *)
(*                                                                          *)
(* Measurements are represented by their version: 0 before the first one,   *)
(* then 1, 2, ...  MaxSample bounds the versions; from there on they are    *)
(* no longer told apart.                                                    *)
(****************************************************************************)
EXTENDS Naturals

CONSTANTS
    Meters,     \* the quantities that are measured
    MaxSample   \* last version that is told apart from its successors

VARIABLES
    latest,     \* version of the last measurement of each quantity
    shown       \* version the consumer has of each quantity

Versions == 0 .. MaxSample

NextVersion(v) == IF v < MaxSample THEN v + 1 ELSE v

Init ==
    /\ latest = [m \in Meters |-> 0]
    /\ shown = [m \in Meters |-> 0]

Measure(m) ==
    /\ latest' = [latest EXCEPT ![m] = NextVersion(@)]
    /\ UNCHANGED shown

Show(m) ==
    /\ \E v \in Versions :
          /\ shown[m] <= v /\ v <= latest[m]
          /\ shown' = [shown EXCEPT ![m] = v]
    /\ UNCHANGED latest

Next == \E m \in Meters : Measure(m) \/ Show(m)

Spec == Init /\ [][Next]_<<latest, shown>>
===============================================================================
