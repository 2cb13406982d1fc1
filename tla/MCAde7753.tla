----------------------------- MODULE MCAde7753 -----------------------------
(* Contents with three different bytes, one that reads as little over 100 V *)
(* and the largest one.                                                     *)
EXTENDS Ade7753

MCSamples == {66051, 400000, Largest24}
===============================================================================
