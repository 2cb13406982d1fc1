------------------------------ MODULE MCDs3231 ------------------------------
(* Instants that take the fields of the clock through their digits: every   *)
(* month, hours of both halves of the day, 2000 and 2099, the first and the *)
(* last of a month, 0 and 59; the setting of one of them may fail.          *)
EXTENDS Ds3231

Instant(i) ==
    [tm_sec |-> 59 - 4 * (i % 15), tm_min |-> 4 * (i % 15), tm_hour |-> (7 * i) % 24,
     tm_wday |-> i % 7, tm_mday |-> 2 * i + 1, tm_mon |-> i % 12,
     tm_year |-> 2000 + ((11 * i) % 100)]

Instants == {Instant(i) : i \in 0 .. 15}

Cut == {Instant(8)}

Hour24 == {FALSE}
Hour12 == {TRUE}
===============================================================================
