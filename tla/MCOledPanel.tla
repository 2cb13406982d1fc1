----------------------------- MODULE MCOledPanel -----------------------------
(* The longest value that display_task has room for, and the shortest.      *)
EXTENDS OledPanel

LongAndShort == {[width |-> 7, image |-> "long"], [width |-> 4, image |-> "short"]}
===============================================================================
