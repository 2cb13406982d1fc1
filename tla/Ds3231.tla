------------------------------- MODULE Ds3231 -------------------------------
(****************************************************************************)
(* The clock of ds3231.c and its reader, data_logging_task of main.c.  The  *)
(* chip is external: it keeps a calendar time, passes from instant to later *)
(* instant, and shows the time in BCD registers, with the hour in 12-hour   *)
(* or 24-hour form as it was left when it was last set.                     *)
(****************************************************************************)
EXTENDS Integers

CONSTANTS
    Times,      \* bound: the instants the chip passes through
    Failing,    \* bound: of them, those whose setting may fail
    Modes       \* whether the chip may be found in 12-hour form

(* A time of struct tm as this driver uses it: tm_mon counts from 0,        *)
(* tm_wday from 0 on Sunday, and tm_year is the full year.                  *)
Calendar == [tm_sec : 0 .. 59, tm_min : 0 .. 59, tm_hour : 0 .. 23, tm_wday : 0 .. 6,
             tm_mday : 1 .. 31, tm_mon : 0 .. 11, tm_year : 2000 .. 2099]

ASSUME TimesAssumption == Times \subseteq Calendar /\ Failing \subseteq Times
ASSUME ModesAssumption == Modes \subseteq BOOLEAN

(* struct tm time_now = {0} *)
Unread == [tm_sec |-> 0, tm_min |-> 0, tm_hour |-> 0, tm_wday |-> 0,
           tm_mday |-> 0, tm_mon |-> 0, tm_year |-> 0]

VARIABLES
    now,             \* the calendar time the chip keeps
    hour12,          \* the chip shows the hour in 12-hour form
    time_now,        \* the local variable of data_logging_task
    wifi_connected   \* set and cleared by event_handler

vars == <<now, hour12, time_now, wifi_connected>>

-------------------------------------------------------------------------------
(* An int passed as uint8_t.                                                *)
Byte(n) == n % 256

(* Mutant: the digits are packed three bits apart.                          *)
dec2bcdShift(n) == LET val == Byte(n) IN Byte((val \div 10) * 8 + (val % 10))

dec2bcd(n) == LET val == Byte(n) IN Byte((val \div 10) * 16 + (val % 10))

(* Mutant: a byte of two digits is taken for a number.                      *)
bcd2decPlain(val) == val

bcd2dec(val) == (val \div 16) * 10 + (val % 16)

Flag(byte, mask) == (byte \div mask) % 2 = 1

(* The bytes ds3231_set_time writes, data[0] first.                         *)
DataOf(time) ==
    <<dec2bcd(time.tm_sec), dec2bcd(time.tm_min), dec2bcd(time.tm_hour),
      dec2bcd(time.tm_wday + 1), dec2bcd(time.tm_mday), dec2bcd(time.tm_mon + 1),
      dec2bcd(time.tm_year - 2000)>>

(* tm_hour of ds3231_get_time, from DS3231_12HOUR_FLAG and DS3231_PM_FLAG.  *)
HourOf(byte) ==
    IF Flag(byte, 64)
       THEN bcd2dec(byte % 32) - 1 + (IF Flag(byte, 32) THEN 12 ELSE 0)
       ELSE bcd2dec(byte)

(* Mutant: tm_mon is left counting from 1.                                  *)
TimeOfMonth(data) ==
    [tm_sec |-> bcd2dec(data[1]), tm_min |-> bcd2dec(data[2]),
     tm_hour |-> HourOf(data[3]), tm_wday |-> bcd2dec(data[4]) - 1,
     tm_mday |-> bcd2dec(data[5]), tm_mon |-> bcd2dec(data[6] % 32),
     tm_year |-> bcd2dec(data[7]) + 2000]

(* What ds3231_get_time makes of the bytes it reads.                        *)
TimeOf(data) ==
    [tm_sec |-> bcd2dec(data[1]), tm_min |-> bcd2dec(data[2]),
     tm_hour |-> HourOf(data[3]), tm_wday |-> bcd2dec(data[4]) - 1,
     tm_mday |-> bcd2dec(data[5]), tm_mon |-> bcd2dec(data[6] % 32) - 1,
     tm_year |-> bcd2dec(data[7]) + 2000]

-------------------------------------------------------------------------------
(* The chip: two digits in a byte.                                          *)
Digits(n) == 16 * (n \div 10) + (n % 10)
Number(byte) == 10 * (byte \div 16) + (byte % 16)

(* 12, 1, .. 11 in the morning and again, with the PM bit, after noon.      *)
HourRegister(hour, form12) ==
    IF form12
       THEN 64 + (IF hour >= 12 THEN 32 ELSE 0) + Digits(((hour + 11) % 12) + 1)
       ELSE Digits(hour)

Registers ==
    <<Digits(now.tm_sec), Digits(now.tm_min), HourRegister(now.tm_hour, hour12),
      Digits(now.tm_wday + 1), Digits(now.tm_mday), Digits(now.tm_mon + 1),
      Digits(now.tm_year - 2000)>>

(* The time a chip keeps after such bytes, in 24-hour form, are written.    *)
Written(data) ==
    [tm_sec |-> Number(data[1]), tm_min |-> Number(data[2]),
     tm_hour |-> Number(data[3]), tm_wday |-> Number(data[4]) - 1,
     tm_mday |-> Number(data[5]), tm_mon |-> Number(data[6]) - 1,
     tm_year |-> Number(data[7]) + 2000]

(* The chip takes each byte as it arrives: n of those of a time.            *)
Taken(time, n) ==
    LET Field(i, new, old) == IF i <= n THEN new ELSE old
    IN [tm_sec  |-> Field(1, time.tm_sec, now.tm_sec),
        tm_min  |-> Field(2, time.tm_min, now.tm_min),
        tm_hour |-> Field(3, time.tm_hour, now.tm_hour),
        tm_wday |-> Field(4, time.tm_wday, now.tm_wday),
        tm_mday |-> Field(5, time.tm_mday, now.tm_mday),
        tm_mon  |-> Field(6, time.tm_mon, now.tm_mon),
        tm_year |-> Field(7, time.tm_year, now.tm_year)]

Later(t, u) ==
    LET Fields(x) == <<x.tm_year, x.tm_mon, x.tm_mday, x.tm_hour, x.tm_min, x.tm_sec>>
    IN \E i \in 1 .. 6 : /\ Fields(t)[i] > Fields(u)[i]
                         /\ \A j \in 1 .. i - 1 : Fields(t)[j] = Fields(u)[j]

-------------------------------------------------------------------------------
Init ==
    /\ now \in Times
    /\ hour12 \in Modes
    /\ time_now = Unread
    /\ wifi_connected = 0

TimePasses ==
    /\ \E t \in Times : Later(t, now) /\ now' = t
    /\ UNCHANGED <<hour12, time_now, wifi_connected>>

LinkChanges ==
    /\ wifi_connected' = 1 - wifi_connected
    /\ UNCHANGED <<now, hour12, time_now>>

(* ds3231_set_time, of a driver that no task of this firmware calls yet.  A *)
(* write that fails may have arrived in part.                               *)
SetTime(time, res) ==
    /\ \E n \in 0 .. 7 :
          /\ res = "ESP_OK" => n = 7
          /\ now' = Taken(Written(DataOf(time)), n)
          /\ hour12' = (hour12 /\ n < 3)
    /\ UNCHANGED <<time_now, wifi_connected>>

(* ds3231_get_time; a transfer that fails leaves the caller's struct alone. *)
GetTime(res) ==
    time_now' = IF res = "ESP_OK" THEN TimeOf(Registers) ELSE time_now

(* One turn of data_logging_task, which prints time_now after any result.   *)
Log(res) ==
    /\ wifi_connected = 0
    /\ GetTime(res)
    /\ UNCHANGED <<now, hour12, wifi_connected>>

Next ==
    \/ TimePasses
    \/ LinkChanges
    \/ \E time \in Times : SetTime(time, "ESP_OK")
    \/ \E time \in Failing : SetTime(time, "ESP_FAIL")
    \/ \E res \in {"ESP_OK", "ESP_FAIL"} : Log(res)

Spec == Init /\ [][Next]_vars

-------------------------------------------------------------------------------
TypeOK ==
    /\ now \in Calendar
    /\ hour12 \in BOOLEAN
    /\ time_now \in Calendar \cup {Unread}
    /\ wifi_connected \in {0, 1}

(* "convert to unix time structure" (ds3231.c:126): a time that the driver  *)
(* hands to the logging task is the calendar time that the chip keeps.      *)
ReadsTheTime == [][time_now' # time_now => time_now' = now]_vars

(* A time that ds3231_set_time reports as set is the time that is kept: no  *)
(* digit is lost on the way from struct tm to the registers, also when a    *)
(* write before it arrived in part.                                         *)
SetsTheTime == [][\A time \in Times : SetTime(time, "ESP_OK") => now' = time]_vars
===============================================================================
