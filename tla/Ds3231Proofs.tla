---------------------------- MODULE Ds3231Proofs ----------------------------
(****************************************************************************)
(* The driver of the clock converts every time of 2000 to 2099 without loss *)
(* in both directions, for any set of instants, while the chip shows the    *)
(* hour in 24-hour form.                                                    *)
(****************************************************************************)
EXTENDS Ds3231, TLAPS

(* Two digits fit a byte; both conversions of the driver agree with those   *)
(* of the chip.                                                             *)
LEMMA TwoDigits ==
    ASSUME NEW n \in 0 .. 99
    PROVE  /\ dec2bcd(n) = Digits(n)
           /\ bcd2dec(Digits(n)) = n
           /\ Number(Digits(n)) = n
           /\ Digits(n) \in 0 .. 255
  <1>1. PICK t \in 0 .. 9, u \in 0 .. 9 : n = 10 * t + u
    <2>1. n \div 10 \in 0 .. 9 /\ n % 10 \in 0 .. 9 /\ n = 10 * (n \div 10) + (n % 10)
      OBVIOUS
    <2> QED  BY <2>1
  <1>2. n \div 10 = t /\ n % 10 = u
    BY <1>1
  <1>3. Digits(n) = 16 * t + u /\ Digits(n) \in 0 .. 255
    BY <1>2 DEF Digits
  <1>4. Digits(n) \div 16 = t /\ Digits(n) % 16 = u
    BY <1>3
  <1>5. dec2bcd(n) = Digits(n)
    <2>1. Byte(n) = n
      BY DEF Byte
    <2>2. Byte(t * 16 + u) = t * 16 + u
      BY DEF Byte
    <2> QED  BY <1>2, <1>3, <2>1, <2>2 DEF dec2bcd
  <1> QED  BY <1>1, <1>3, <1>4, <1>5 DEF bcd2dec, Number

(* An hour below 24 sets no flag, and a month none of the bits masked.      *)
LEMMA PlainFields ==
    /\ \A hour \in 0 .. 23 : HourOf(Digits(hour)) = hour
    /\ \A mon \in 1 .. 12 : Digits(mon) % 32 = Digits(mon)
  <1>1. ASSUME NEW hour \in 0 .. 23  PROVE HourOf(Digits(hour)) = hour
    <2>1. Digits(hour) \in 0 .. 63
      BY DEF Digits
    <2>2. ~ Flag(Digits(hour), 64)
      BY <2>1 DEF Flag
    <2> QED  BY <2>2, TwoDigits DEF HourOf
  <1>2. ASSUME NEW mon \in 1 .. 12  PROVE Digits(mon) % 32 = Digits(mon)
    <2>1. Digits(mon) \in 0 .. 31
      BY DEF Digits
    <2> QED  BY <2>1
  <1> QED  BY <1>1, <1>2

(* What is written and what is read is the time itself.                     *)
LEMMA SetRoundTrip ==
    ASSUME NEW time \in Calendar
    PROVE  Written(DataOf(time)) = time
  <1>1. /\ time.tm_sec \in 0 .. 99 /\ time.tm_min \in 0 .. 99
        /\ time.tm_hour \in 0 .. 99 /\ time.tm_wday + 1 \in 0 .. 99
        /\ time.tm_mday \in 0 .. 99 /\ time.tm_mon + 1 \in 0 .. 99
        /\ time.tm_year - 2000 \in 0 .. 99
    BY DEF Calendar
  <1>2. \A n \in 0 .. 99 : Number(dec2bcd(n)) = n
    BY TwoDigits
  <1> DEFINE data == DataOf(time)
  <1>3. /\ data[1] = dec2bcd(time.tm_sec) /\ data[2] = dec2bcd(time.tm_min)
        /\ data[3] = dec2bcd(time.tm_hour) /\ data[4] = dec2bcd(time.tm_wday + 1)
        /\ data[5] = dec2bcd(time.tm_mday) /\ data[6] = dec2bcd(time.tm_mon + 1)
        /\ data[7] = dec2bcd(time.tm_year - 2000)
    BY DEF DataOf
  <1>4. /\ Number(data[1]) = time.tm_sec /\ Number(data[2]) = time.tm_min
        /\ Number(data[3]) = time.tm_hour /\ Number(data[4]) - 1 = time.tm_wday
        /\ Number(data[5]) = time.tm_mday /\ Number(data[6]) - 1 = time.tm_mon
        /\ Number(data[7]) + 2000 = time.tm_year
    <2> HIDE DEF data
    <2>1. time.tm_wday \in Int /\ time.tm_mon \in Int /\ time.tm_year \in Int
      BY DEF Calendar
    <2> QED  BY <1>1, <1>2, <1>3, <2>1
  <1>5. Written(data) =
          [tm_sec |-> time.tm_sec, tm_min |-> time.tm_min, tm_hour |-> time.tm_hour,
           tm_wday |-> time.tm_wday, tm_mday |-> time.tm_mday,
           tm_mon |-> time.tm_mon, tm_year |-> time.tm_year]
    <2> HIDE DEF data
    <2> QED  BY <1>4 DEF Written
  <1> QED  BY <1>5 DEF Calendar

(* ds3231_get_time gives back the calendar time from the registers of the 24-hour form. *)
LEMMA GetRoundTrip ==
    ASSUME now \in Calendar, hour12 = FALSE
    PROVE  TimeOf(Registers) = now
  <1>1. /\ now.tm_sec \in 0 .. 99 /\ now.tm_min \in 0 .. 99
        /\ now.tm_hour \in 0 .. 23 /\ now.tm_wday + 1 \in 0 .. 99
        /\ now.tm_mday \in 0 .. 99 /\ now.tm_mon + 1 \in 1 .. 12
        /\ now.tm_year - 2000 \in 0 .. 99
    BY DEF Calendar
  <1>2. \A n \in 0 .. 99 : bcd2dec(Digits(n)) = n
    BY TwoDigits
  <1> DEFINE data == Registers
  <1>3. /\ data[1] = Digits(now.tm_sec) /\ data[2] = Digits(now.tm_min)
        /\ data[3] = Digits(now.tm_hour) /\ data[4] = Digits(now.tm_wday + 1)
        /\ data[5] = Digits(now.tm_mday) /\ data[6] = Digits(now.tm_mon + 1)
        /\ data[7] = Digits(now.tm_year - 2000)
    BY DEF Registers, HourRegister
  <1>4. /\ bcd2dec(data[1]) = now.tm_sec /\ bcd2dec(data[2]) = now.tm_min
        /\ HourOf(data[3]) = now.tm_hour /\ bcd2dec(data[4]) - 1 = now.tm_wday
        /\ bcd2dec(data[5]) = now.tm_mday /\ bcd2dec(data[6] % 32) - 1 = now.tm_mon
        /\ bcd2dec(data[7]) + 2000 = now.tm_year
    <2> HIDE DEF data
    <2>1. now.tm_wday \in Int /\ now.tm_mon \in Int /\ now.tm_year \in Int
      BY DEF Calendar
    <2>2. data[6] % 32 = data[6] /\ HourOf(data[3]) = now.tm_hour
      BY <1>1, <1>3, PlainFields
    <2>3. now.tm_mon + 1 \in 0 .. 99
      BY <1>1
    <2>4. bcd2dec(data[6]) = now.tm_mon + 1 /\ bcd2dec(data[4]) = now.tm_wday + 1
      BY <1>1, <1>2, <1>3, <2>3
    <2>5. bcd2dec(data[6] % 32) - 1 = now.tm_mon /\ bcd2dec(data[4]) - 1 = now.tm_wday
      BY <2>1, <2>2, <2>4
    <2>6. /\ bcd2dec(data[1]) = now.tm_sec /\ bcd2dec(data[2]) = now.tm_min
          /\ bcd2dec(data[5]) = now.tm_mday /\ bcd2dec(data[7]) = now.tm_year - 2000
      BY <1>1, <1>2, <1>3
    <2> QED  BY <2>1, <2>2, <2>5, <2>6
  <1>5. TimeOf(data) =
          [tm_sec |-> now.tm_sec, tm_min |-> now.tm_min, tm_hour |-> now.tm_hour,
           tm_wday |-> now.tm_wday, tm_mday |-> now.tm_mday,
           tm_mon |-> now.tm_mon, tm_year |-> now.tm_year]
    <2> HIDE DEF data
    <2> QED  BY <1>4 DEF TimeOf
  <1> QED  BY <1>5 DEF Calendar

(* A setting that arrives in part leaves a time of the calendar, and one    *)
(* that arrives in full the time itself.                                    *)
LEMMA TakenTime ==
    ASSUME NEW time \in Calendar, NEW n \in 0 .. 7
    PROVE  /\ now \in Calendar => Taken(time, n) \in Calendar
           /\ Taken(time, 7) = time
  <1>1. now \in Calendar => Taken(time, n) \in Calendar
    BY DEF Taken, Calendar
  <1>2. Taken(time, 7) =
          [tm_sec |-> time.tm_sec, tm_min |-> time.tm_min, tm_hour |-> time.tm_hour,
           tm_wday |-> time.tm_wday, tm_mday |-> time.tm_mday,
           tm_mon |-> time.tm_mon, tm_year |-> time.tm_year]
    BY DEF Taken
  <1> QED  BY <1>1, <1>2 DEF Calendar

-------------------------------------------------------------------------------
(* The inductive invariant: the form of the hour never becomes 12-hour.     *)
ClockInv == TypeOK /\ hour12 = FALSE

(* The invariant of the readings holds when the chip is left in the 24-hour form. *)
LEMMA ClockInvHolds ==
    ASSUME Modes = {FALSE}
    PROVE  Spec => []ClockInv
  <1>1. Init => ClockInv
    BY TimesAssumption DEF Init, ClockInv, TypeOK
  <1>2. ClockInv /\ [Next]_vars => ClockInv'
    <2> SUFFICES ASSUME ClockInv, [Next]_vars PROVE ClockInv'
      OBVIOUS
    <2> USE DEF ClockInv, TypeOK
    <2>1. CASE TimePasses
      BY <2>1, TimesAssumption DEF TimePasses
    <2>2. CASE LinkChanges
      BY <2>2 DEF LinkChanges
    <2>3. ASSUME NEW time \in Times, NEW res \in {"ESP_OK", "ESP_FAIL"}, SetTime(time, res)
          PROVE  ClockInv'
      <3>1. PICK n \in 0 .. 7 : /\ now' = Taken(Written(DataOf(time)), n)
                                /\ hour12' = (hour12 /\ n < 3)
        BY <2>3 DEF SetTime
      <3>2. time \in Calendar /\ Written(DataOf(time)) = time
        BY TimesAssumption, SetRoundTrip
      <3>3. now' \in Calendar
        BY <3>1, <3>2, TakenTime
      <3>4. hour12' = FALSE
        BY <3>1
      <3> QED  BY <2>3, <3>3, <3>4 DEF SetTime
    <2>4. CASE \E res \in {"ESP_OK", "ESP_FAIL"} : Log(res)
      BY <2>4, GetRoundTrip DEF Log, GetTime
    <2>5. CASE UNCHANGED vars
      BY <2>5 DEF vars
    <2> QED  BY <2>1, <2>2, <2>3, <2>4, <2>5, TimesAssumption DEF Next
  <1> QED  BY <1>1, <1>2, PTL DEF Spec

(* Type correctness for any set of instants.                                *)
THEOREM TypeCorrect ==
    ASSUME Modes = {FALSE}
    PROVE  Spec => []TypeOK
  <1>1. ClockInv => TypeOK
    BY DEF ClockInv
  <1> QED  BY <1>1, ClockInvHolds, PTL

(* What data_logging_task gets is the time the chip keeps, whenever it      *)
(* reads, for every instant of the century.                                 *)
THEOREM ReadingExact ==
    ASSUME Modes = {FALSE}
    PROVE  Spec => ReadsTheTime
  <1>1. ClockInv /\ [Next]_vars => [time_now' # time_now => time_now' = now]_vars
    <2> SUFFICES ASSUME ClockInv, Next PROVE time_now' # time_now => time_now' = now
      BY DEF ClockInv
    <2>1. CASE TimePasses \/ LinkChanges \/ \E time \in Times, res \in {"ESP_OK", "ESP_FAIL"} : SetTime(time, res)
      BY <2>1 DEF TimePasses, LinkChanges, SetTime
    <2>2. CASE \E res \in {"ESP_OK", "ESP_FAIL"} : Log(res)
      BY <2>2, GetRoundTrip DEF Log, GetTime, ClockInv, TypeOK
    <2> QED  BY <2>1, <2>2, TimesAssumption DEF Next
  <1> QED  BY <1>1, ClockInvHolds, PTL DEF Spec, ReadsTheTime

(* A time that ds3231_set_time reports as set is kept in full, whatever of  *)
(* an earlier time a failed write has left in the chip.                     *)
THEOREM SettingExact == Spec => SetsTheTime
  <1>1. [Next]_vars => [\A time \in Times : SetTime(time, "ESP_OK") => now' = time]_vars
    <2> SUFFICES ASSUME NEW time \in Times, SetTime(time, "ESP_OK")  PROVE now' = time
      OBVIOUS
    <2>1. time \in Calendar /\ Written(DataOf(time)) = time
      BY TimesAssumption, SetRoundTrip
    <2>2. now' = Taken(Written(DataOf(time)), 7)
      BY DEF SetTime
    <2> QED  BY <2>1, <2>2, TakenTime
  <1> QED  BY <1>1, PTL DEF Spec, SetsTheTime
===============================================================================
