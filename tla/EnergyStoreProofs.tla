--------------------------- MODULE EnergyStoreProofs ---------------------------
(****************************************************************************)
(* Proofs about EnergyStore, for any width of the tick counter, any largest *)
(* power, any split of at_power into words, any length of the behaviour and *)
(* any number of failures of the supply.                                    *)
(****************************************************************************)
EXTENDS EnergyStore, TLAPS

-------------------------------------------------------------------------------
(* Arithmetic *)
LEMMA ProductMonotone ==
    ASSUME NEW a \in Nat, NEW b \in Nat, a <= b, NEW c \in Nat
    PROVE  a * c <= b * c /\ c * a <= c * b /\ a * c \in Nat /\ c * a \in Nat
OBVIOUS

(* The quotient and the remainder of a natural number, and that the quotient rounds down. *)
LEMMA DivFloor ==
    ASSUME NEW e \in Nat, NEW b \in Nat \ {0}
    PROVE  /\ e \div b \in Nat /\ e % b \in 0 .. b - 1
           /\ (e \div b) * b <= e
OBVIOUS

(* A greater number has a quotient at least as great. *)
LEMMA DivMonotone ==
    ASSUME NEW d \in Nat, NEW e \in Nat, d <= e, NEW b \in Nat \ {0}
    PROVE  d \div b <= e \div b
<1> DEFINE p == d \div b
           q == e \div b
<1>1. p \in Nat /\ q \in Nat /\ p * b <= d /\ e < (q + 1) * b
    OBVIOUS
<1> HIDE DEF p, q
<1>2. p <= q
    <2>1. CASE p >= q + 1
        <3>1. (q + 1) * b <= p * b /\ (q + 1) * b \in Nat /\ p * b \in Nat
            BY <1>1, <2>1, ProductMonotone
        <3> QED
            BY <1>1, <3>1
    <2> QED
        BY <1>1, <2>1
<1> QED
    BY <1>2 DEF p, q

(* One stored integer is a positive number of units. *)
LEMMA UnitType == Unit \in Nat \ {0}
BY ConstantsAssumption DEF Unit

(* The words of a double, and that its high word claims no more than the double does. *)
LEMMA WordsOf ==
    ASSUME NEW e \in Nat
    PROVE  Words(e) \in WordsType /\ Words(e)["hi"] * B <= e
<1>1. /\ e \div B \in Nat /\ e % B \in 0 .. B - 1 /\ (e \div B) * B <= e
      /\ B \in Nat \ {0}
    BY DivFloor, ConstantsAssumption
<1>2. Words(e)["hi"] = e \div B /\ Words(e)["lo"] = e % B
    BY DEF Words, Halves
<1>3. Words(e) \in [Halves -> Nat]
    BY <1>1 DEF Words
<1> QED
    BY <1>1, <1>2, <1>3 DEF WordsType

(* The integer part depends on the high word alone: it is never more than   *)
(* the high word is worth, whatever low word it was read with.              *)
LEMMA IntegerOfHigh ==
    ASSUME NEW w \in WordsType
    PROVE  /\ Integer(w) \in Nat /\ Integer(w) * Unit <= w["hi"] * B
           /\ Integer(w) * K <= w["hi"]
<1> DEFINE n == w["hi"] * B + w["lo"]
           q == n \div Unit
<1>1. w["hi"] \in Nat /\ w["lo"] \in 0 .. B - 1 /\ B \in Nat \ {0} /\ K \in Nat \ {0}
    BY ConstantsAssumption DEF WordsType, Halves
<1>2. n \in Nat
    BY <1>1
<1>3. q \in Nat /\ q * Unit <= n
    <2> HIDE DEF n
    <2> QED
        BY <1>2, UnitType, DivFloor
<1>4. (q * K) * B < (w["hi"] + 1) * B
    <2> HIDE DEF q
    <2> QED
        BY <1>1, <1>3 DEF Unit
<1> HIDE DEF q
<1>5. q * K \in Nat
    BY <1>1, <1>3
<1>6. q * K <= w["hi"]
    <2>1. CASE q * K >= w["hi"] + 1
        <3>1. (w["hi"] + 1) * B <= (q * K) * B
            BY <1>1, <1>5, <2>1, ProductMonotone
        <3> QED
            BY <1>1, <1>4, <1>5, <3>1
    <2> QED
        BY <1>1, <1>5, <2>1
<1>7. (q * K) * B <= w["hi"] * B
    BY <1>1, <1>5, <1>6, ProductMonotone
<1>8. q * Unit = (q * K) * B
    BY <1>1, <1>3 DEF Unit
<1> QED
    BY <1>3, <1>6, <1>7, <1>8 DEF Integer, q

(* The difference of the counters is never more than the ticks that passed, *)
(* whatever the number of wraps between.                                    *)
LEMMA ElapsedStep ==
    ASSUME NEW t \in 0 .. W - 1, NEW mill \in 0 .. W - 1
    PROVE  /\ Elapsed(t, mill) \in Nat
           /\ Elapsed(t, t) = 0
           /\ NextTick(t) \in 0 .. W - 1
           /\ Elapsed(NextTick(t), mill) <= Elapsed(t, mill) + 1
BY ConstantsAssumption DEF Elapsed, NextTick

(* Time that is billed at most at the largest power, once.                  *)
LEMMA Billed ==
    ASSUME NEW e \in Nat, NEW p \in 0 .. MaxPower, NEW d \in Nat,
           NEW a \in Nat, NEW n \in Nat, d <= n - a, e <= MaxPower * a
    PROVE  e + p * d \in Nat /\ e + p * d <= MaxPower * n
<1>1. MaxPower \in Nat /\ p \in Nat /\ p <= MaxPower /\ n - a \in Nat
    BY ConstantsAssumption
<1>2. p * d <= MaxPower * d /\ p * d \in Nat
    BY <1>1, ProductMonotone
<1>3. MaxPower * d <= MaxPower * (n - a) /\ MaxPower * d \in Nat
    BY <1>1, ProductMonotone
<1>4. MaxPower * (n - a) = MaxPower * n - MaxPower * a
    BY <1>1
<1>5. MaxPower * n \in Nat /\ MaxPower * a \in Nat
    BY <1>1
<1> QED
    BY <1>2, <1>3, <1>4, <1>5
-------------------------------------------------------------------------------
(* Types *)
LEMMA BootType ==
    ASSUME TypeOK, Boot, UNCHANGED <<now, reset>>, nvs' \in {nvs, {}},
           failures' \in 0 .. MaxFailures
    PROVE  TypeOK'
<1>1. Words(0) \in WordsType
    BY WordsOf
<1>2. energy' \in Nat /\ millAt' \in 0 .. now /\ tick' \in 0 .. W - 1
      /\ energy_mill' \in 0 .. W - 1
    BY ConstantsAssumption DEF Boot, TypeOK
<1> QED
    BY <1>1, <1>2 DEF Boot, TypeOK

(* The state at the first boot has its type. *)
LEMMA TypeInit == Init => TypeOK
<1> SUFFICES ASSUME Init PROVE TypeOK
    OBVIOUS
<1>1. Words(0) \in WordsType
    BY WordsOf
<1>2. 0 \in 0 .. W - 1 /\ 0 \in 0 .. MaxTime /\ 0 \in 0 .. MaxFailures /\ 0 \in 0 .. 0
    BY ConstantsAssumption
<1>3. saved = [h \in {} |-> 0] /\ DOMAIN saved = {}
    BY DEF Init
<1> QED
    BY <1>1, <1>2, <1>3 DEF Init, TypeOK

(* Every step keeps the type, boot and loss of the supply included. *)
LEMMA TypeStep == TypeOK /\ [Next]_vars => TypeOK'
<1> SUFFICES ASSUME TypeOK, [Next]_vars PROVE TypeOK'
    OBVIOUS
<1> USE DEF TypeOK, clockVars, bootVars, meterVars, storeVars, gpioVars
<1>1. ASSUME NEW erase \in BOOLEAN, NEW ok \in BOOLEAN, InitFlash(erase, ok) PROVE TypeOK'
    <2>1. CASE Boot
        BY <1>1, <2>1, BootType DEF InitFlash
    <2>2. CASE ~ Boot
        BY <1>1, <2>2 DEF InitFlash
    <2> QED
        BY <2>1, <2>2
<1>2. ASSUME NEW open \in BOOLEAN, NEW get \in BOOLEAN, Restore(open, get)
      PROVE  TypeOK'
    <2>1. restored' \in Nat
        BY <1>2 DEF Restore
    <2>2. at_power' \in WordsType
        <3>1. restored' * Unit \in Nat
            BY <2>1, UnitType, ProductMonotone
        <3> QED
            BY <1>2, <3>1, WordsOf DEF Restore
    <2> QED
        BY <1>2, <2>1, <2>2 DEF Restore
<1>3. CASE InitButton
    BY <1>3 DEF InitButton
<1>4. CASE StartTasks
    BY <1>4 DEF StartTasks
<1>5. ASSUME NEW power \in 0 .. MaxPower, Measure(power) PROVE TypeOK'
    <2>1. Elapsed(tick, energy_mill) \in Nat
        BY ElapsedStep
    <2>2. power \in Nat
        BY ConstantsAssumption
    <2>3. power * Elapsed(tick, energy_mill) \in Nat
        BY <2>1, <2>2, ProductMonotone
    <2>4. energy' \in Nat
        BY <1>5, <2>3 DEF Measure
    <2> QED
        BY <1>5, <2>4 DEF Measure
<1>6. CASE SetMill
    <2>1. now \in 0 .. now
        BY ConstantsAssumption
    <2> QED
        BY <1>6, <2>1 DEF SetMill
<1>7. ASSUME NEW h \in Halves, WriteAtPower(h) PROVE TypeOK'
    <2>1. at_power' \in WordsType
        <3>1. Words(energy) \in WordsType
            BY WordsOf
        <3>2. "lo" \in Halves /\ at_power \in WordsType
            BY DEF Halves
        <3> QED
            BY <1>7, <3>1, <3>2 DEF WriteAtPower, WordsType
    <2> QED
        BY <1>7, <2>1 DEF WriteAtPower
<1>8. CASE MeterDelayOver
    BY <1>8 DEF MeterDelayOver
<1>9. ASSUME NEW h \in Halves, ReadAtPower(h) PROVE TypeOK'
    <2>1. /\ DOMAIN saved' \subseteq Halves /\ saved' \in [DOMAIN saved' -> Nat]
          /\ "lo" \in DOMAIN saved' => saved'["lo"] < B
        BY <1>9 DEF ReadAtPower, WordsType
    <2> QED
        BY <1>9, <2>1 DEF ReadAtPower
<1>10. ASSUME NEW ok \in BOOLEAN, StoreEnergy(ok) PROVE TypeOK'
    <2>1. saved \in WordsType
        BY <1>10 DEF StoreEnergy, WordsType, Halves
    <2>2. Integer(saved) \in Nat
        BY <2>1, IntegerOfHigh
    <2> QED
        BY <1>10, <2>2 DEF StoreEnergy
<1>11. CASE StoringDelayOver
    BY <1>11 DEF StoringDelayOver
<1>12. CASE Press
    BY <1>12 DEF Press
<1>13. CASE TakeNotification
    BY <1>13 DEF TakeNotification
<1>14. ASSUME NEW ok \in BOOLEAN, ResetEnergy(ok) PROVE TypeOK'
    BY <1>14 DEF ResetEnergy
<1>15. CASE Restart
    BY <1>15, BootType DEF Restart
<1>16. CASE Tick
    <2>1. NextTick(tick) \in 0 .. W - 1
        BY ElapsedStep
    <2>2. now + 1 \in 0 .. MaxTime /\ millAt \in 0 .. now + 1
        BY <1>16, ConstantsAssumption DEF Tick
    <2> QED
        BY <1>16, <2>1, <2>2 DEF Tick
<1>17. CASE PowerFailure
    <2>1. failures' \in 0 .. MaxFailures
        BY <1>17, ConstantsAssumption DEF PowerFailure
    <2> QED
        BY <1>17, <2>1, BootType DEF PowerFailure
<1>18. CASE UNCHANGED vars
    BY <1>18 DEF vars
<1> QED
    BY <1>1, <1>2, <1>3, <1>4, <1>5, <1>6, <1>7, <1>8, <1>9, <1>10, <1>11, <1>12,
       <1>13, <1>14, <1>15, <1>16, <1>17, <1>18
    DEF Next, AppMain, EnergyTask, StoringTask, GpioTask

(* Every variable keeps its type; the total and what is stored of it stay   *)
(* natural numbers across the wrap of the counter.                          *)
THEOREM TypeCorrect == Spec => []TypeOK
BY TypeInit, TypeStep, PTL DEF Spec
-------------------------------------------------------------------------------
(* Billing.  NeverOverBills is not inductive: it has to be known which      *)
(* ticks are billed already (those up to millAt, and between Measure and    *)
(* SetMill all of them), that the counters do not claim more than the rest, *)
(* and that the copies of the total on their way to NVS are bounded too.    *)
Limit == MaxPower * now

BillInv ==
    /\ Elapsed(tick, energy_mill) <= now - millAt
    /\ energy <= Limit
    /\ meter # "mill" => energy <= MaxPower * millAt
    /\ at_power["hi"] * B <= Limit
    /\ "hi" \in DOMAIN saved => saved["hi"] * B <= Limit
    /\ \A v \in nvs : v * Unit <= Limit

(* Nothing is billed before the first tick. *)
LEMMA BillInit == Init => BillInv
<1> SUFFICES ASSUME Init PROVE BillInv
    OBVIOUS
<1>1. at_power["hi"] * B <= 0
    BY WordsOf DEF Init
<1>2. MaxPower * 0 = 0 /\ 0 \in 0 .. W - 1
    BY ConstantsAssumption
<1>3. Elapsed(0, 0) = 0
    BY <1>2, ElapsedStep
<1>4. DOMAIN saved = {}
    BY DEF Init
<1> QED
    BY <1>1, <1>2, <1>3, <1>4 DEF Init, BillInv, Limit

(* A boot clears the RAM and so bills nothing. *)
LEMMA BootBill ==
    ASSUME TypeOK, BillInv, Boot, UNCHANGED now, nvs' \in {nvs, {}}
    PROVE  BillInv'
<1>1. now \in Nat /\ Limit \in Nat /\ MaxPower * now = Limit /\ UNCHANGED Limit
    BY ConstantsAssumption, ProductMonotone DEF TypeOK, Limit
<1>2. at_power'["hi"] * B <= Limit
    <2>1. Words(0)["hi"] * B <= 0 /\ Words(0) \in WordsType
        BY WordsOf
    <2>2. Words(0)["hi"] * B \in Nat
        BY <2>1, ConstantsAssumption, ProductMonotone DEF WordsType, Halves
    <2> QED
        BY <1>1, <2>1, <2>2 DEF Boot
<1>3. Elapsed(tick', energy_mill') = 0
    BY ElapsedStep, ConstantsAssumption DEF Boot
<1>4. DOMAIN saved' = {}
    BY DEF Boot
<1>5. energy' = 0 /\ millAt' = now /\ now - now = 0
    BY <1>1 DEF Boot
<1> QED
    BY <1>1, <1>2, <1>3, <1>4, <1>5 DEF BillInv

(* A step that changes none of the quantities keeps the bill.               *)
LEMMA BillUntouched ==
    ASSUME BillInv, UNCHANGED <<clockVars, energy, energy_mill, millAt, at_power, saved>>,
           nvs' \subseteq nvs \cup {0}, meter' = "mill" => meter = "mill",
           meter = "mill" => meter' = "mill", TypeOK
    PROVE  BillInv'
<1>1. 0 * Unit <= Limit
    BY ConstantsAssumption, UnitType, ProductMonotone DEF TypeOK, Limit
<1> QED
    BY <1>1 DEF BillInv, Limit, clockVars

(* No step adds more to the total than was delivered since the counter was read. *)
LEMMA BillStep == TypeOK /\ BillInv /\ [Next]_vars => BillInv'
<1> SUFFICES ASSUME TypeOK, BillInv, [Next]_vars PROVE BillInv'
    OBVIOUS
<1> USE DEF clockVars, bootVars, meterVars, storeVars, gpioVars
<1>t. /\ now \in Nat /\ millAt \in Nat /\ millAt <= now /\ energy \in Nat
      /\ tick \in 0 .. W - 1 /\ energy_mill \in 0 .. W - 1
      /\ MaxPower \in Nat /\ Limit \in Nat /\ MaxPower * millAt \in Nat
      /\ at_power \in WordsType /\ Elapsed(tick, energy_mill) \in Nat
    <2>1. /\ now \in Nat /\ millAt \in Nat /\ millAt <= now /\ energy \in Nat
          /\ tick \in 0 .. W - 1 /\ energy_mill \in 0 .. W - 1
          /\ MaxPower \in Nat /\ at_power \in WordsType
        BY ConstantsAssumption DEF TypeOK
    <2>2. Limit \in Nat /\ MaxPower * millAt \in Nat
        BY <2>1 DEF Limit
    <2> QED
        BY <2>1, <2>2, ElapsedStep
<1>0. ASSUME UNCHANGED <<clockVars, energy, energy_mill, millAt, at_power, saved>>,
             nvs' \subseteq nvs \cup {0}, UNCHANGED meter
      PROVE  BillInv'
    BY <1>0, BillUntouched
<1>1. ASSUME NEW erase \in BOOLEAN, NEW ok \in BOOLEAN, InitFlash(erase, ok) PROVE BillInv'
    <2>1. CASE Boot
        BY <1>1, <2>1, BootBill DEF InitFlash
    <2>2. CASE ~ Boot
        BY <1>0, <1>1, <2>2 DEF InitFlash
    <2> QED
        BY <2>1, <2>2
<1>2. ASSUME NEW open \in BOOLEAN, NEW get \in BOOLEAN, Restore(open, get)
      PROVE  BillInv'
    <2>1. restored' \in Nat /\ restored' * Unit <= Limit
        <3>1. restored' = 0 \/ restored' \in nvs
            BY <1>2 DEF Restore
        <3>2. 0 * Unit = 0
            BY UnitType
        <3> QED
            BY <1>t, <3>1, <3>2 DEF BillInv, TypeOK
    <2>2. restored' * Unit \in Nat
        <3> DEFINE r == restored'
        <3>1. r \in Nat
            BY <2>1
        <3> HIDE DEF r
        <3>2. r * Unit \in Nat
            BY <3>1, UnitType
        <3> QED
            BY <3>2 DEF r
    <2>3. at_power'["hi"] * B <= restored' * Unit /\ at_power' \in WordsType
        BY <1>2, <2>2, WordsOf DEF Restore
    <2>4. at_power'["hi"] * B \in Nat
        BY <2>3, ConstantsAssumption, ProductMonotone DEF WordsType, Halves
    <2>5. at_power'["hi"] * B <= Limit
        BY <1>t, <2>1, <2>2, <2>3, <2>4
    <2> QED
        BY <1>2, <2>5 DEF Restore, BillInv, Limit
<1>3. ASSUME InitButton \/ StartTasks PROVE BillInv'
    BY <1>0, <1>3 DEF InitButton, StartTasks
<1>4. ASSUME NEW power \in 0 .. MaxPower, Measure(power) PROVE BillInv'
    <2>1. energy' <= MaxPower * now
        BY <1>4, <1>t, Billed DEF Measure, BillInv
    <2> QED
        BY <1>4, <2>1 DEF Measure, BillInv, Limit
<1>5. CASE SetMill
    <2>1. Elapsed(tick', energy_mill') = 0 /\ now' - millAt' = 0
        BY <1>5, <1>t, ElapsedStep DEF SetMill
    <2> QED
        BY <1>5, <2>1 DEF SetMill, BillInv, Limit
<1>6. ASSUME NEW h \in Halves, WriteAtPower(h) PROVE BillInv'
    <2>1. Words(energy)["hi"] * B <= Limit
        <3>1. Words(energy)["hi"] * B <= energy /\ Words(energy) \in WordsType
            BY <1>t, WordsOf
        <3>2. Words(energy)["hi"] * B \in Nat
            BY <3>1, ConstantsAssumption, ProductMonotone DEF WordsType, Halves
        <3> QED
            BY <1>t, <3>1, <3>2 DEF BillInv
    <2>2. at_power'["hi"] \in {at_power["hi"], Words(energy)["hi"]}
        BY <1>6, <1>t DEF WriteAtPower, WordsType, Halves
    <2>3. at_power'["hi"] * B <= Limit
        BY <2>1, <2>2 DEF BillInv
    <2> QED
        BY <1>6, <2>3 DEF WriteAtPower, BillInv, Limit
<1>7. CASE MeterDelayOver
    BY <1>7, BillUntouched DEF MeterDelayOver
<1>8. ASSUME NEW h \in Halves, ReadAtPower(h) PROVE BillInv'
    <2>1. "hi" \in DOMAIN saved' => saved'["hi"] * B <= Limit
        BY <1>8 DEF ReadAtPower, BillInv
    <2> QED
        BY <1>8, <2>1 DEF ReadAtPower, BillInv, Limit
<1>9. ASSUME NEW ok \in BOOLEAN, StoreEnergy(ok) PROVE BillInv'
    <2>1. saved \in WordsType /\ "hi" \in DOMAIN saved
        BY <1>9 DEF StoreEnergy, TypeOK, WordsType, Halves
    <2>2. Integer(saved) * Unit <= Limit
        <3>1. /\ Integer(saved) \in Nat /\ Integer(saved) * Unit <= saved["hi"] * B
              /\ saved["hi"] * B <= Limit
            BY <2>1, IntegerOfHigh DEF BillInv
        <3>2. saved["hi"] * B \in Nat /\ Integer(saved) * Unit \in Nat
            BY <2>1, <3>1, UnitType, ConstantsAssumption, ProductMonotone
            DEF WordsType, Halves
        <3> QED
            BY <1>t, <3>1, <3>2
    <2>3. \A v \in nvs' : v * Unit <= Limit
        BY <1>9, <2>2 DEF StoreEnergy, BillInv
    <2>4. DOMAIN saved' = {}
        BY <1>9 DEF StoreEnergy
    <2> QED
        BY <1>9, <2>3, <2>4 DEF StoreEnergy, BillInv, Limit
<1>10. CASE StoringDelayOver
    BY <1>0, <1>10 DEF StoringDelayOver
<1>11. ASSUME Press \/ TakeNotification PROVE BillInv'
    BY <1>0, <1>11 DEF Press, TakeNotification
<1>12. ASSUME NEW ok \in BOOLEAN, ResetEnergy(ok) PROVE BillInv'
    BY <1>0, <1>12 DEF ResetEnergy
<1>13. ASSUME Restart \/ PowerFailure PROVE BillInv'
    BY <1>13, BootBill DEF Restart, PowerFailure
<1>14. CASE Tick
    <2>1. Elapsed(tick', energy_mill) <= now' - millAt
        <3>1. Elapsed(tick', energy_mill) <= Elapsed(tick, energy_mill) + 1
            BY <1>14, <1>t, ElapsedStep DEF Tick
        <3>2. Elapsed(tick', energy_mill) \in Nat
            BY <1>14, <1>t, ElapsedStep DEF Tick
        <3> QED
            BY <1>14, <1>t, <3>1, <3>2 DEF Tick, BillInv
    <2>2. Limit <= Limit' /\ Limit' \in Nat
        BY <1>14, <1>t, ProductMonotone DEF Tick, Limit
    <2>3. \A x \in Nat : x <= Limit => x <= Limit'
        BY <1>t, <2>2
    <2>4. at_power["hi"] * B \in Nat
        BY <1>t, ConstantsAssumption, ProductMonotone DEF WordsType, Halves
    <2>5. "hi" \in DOMAIN saved => saved["hi"] * B \in Nat
        BY ConstantsAssumption, ProductMonotone DEF TypeOK
    <2>6. \A v \in nvs : v * Unit \in Nat
        BY UnitType, ProductMonotone DEF TypeOK
    <2> QED
        BY <1>14, <1>t, <2>1, <2>3, <2>4, <2>5, <2>6 DEF Tick, BillInv
<1>15. CASE UNCHANGED vars
    BY <1>0, <1>15 DEF vars
<1> QED
    BY <1>1, <1>2, <1>3, <1>4, <1>5, <1>6, <1>7, <1>8, <1>9, <1>10, <1>11, <1>12,
       <1>13, <1>14, <1>15
    DEF Next, AppMain, EnergyTask, StoringTask, GpioTask

(* Neither the total nor the stored value exceeds the largest power times   *)
(* the time since the first power-on.                                       *)
THEOREM BillingBounded == Spec => []NeverOverBills
<1>1. BillInv => NeverOverBills
    BY DEF BillInv, NeverOverBills, Limit
<1> QED
    BY <1>1, TypeInit, TypeStep, BillInit, BillStep, PTL DEF Spec
-------------------------------------------------------------------------------
(* The button.  From the store of its 0 to the start of the tasks of the    *)
(* next boot, the tasks of the core run only if esp_restart lets them.      *)
ResetInv ==
    /\ notified \/ gpio # "wait" => phase \in {"tasks", "run"}
    /\ reset /\ phase = "run" => gpio = "restart"

(* What a step may do to the 0 that the button has stored: only a store of  *)
(* storing_energy_task, made inside of esp_restart, puts a total back.      *)
ResetKept ==
    reset /\ nvs \subseteq {0} =>
        \/ nvs' \subseteq {0}
        \/ RestartYields /\ gpio = "restart" /\ storing = "set"

(* No step lets a task run between the store of the 0 and the next boot's tasks, except in
   esp_restart. *)
LEMMA ResetStep ==
    ASSUME ResetInv, [Next]_vars
    PROVE  ResetInv'
<1> USE DEF ResetInv, clockVars, bootVars, meterVars, storeVars, gpioVars
<1>1. ASSUME NEW erase \in BOOLEAN, NEW ok \in BOOLEAN, InitFlash(erase, ok) PROVE ResetInv'
    BY <1>1 DEF InitFlash, Boot
<1>2. ASSUME NEW open \in BOOLEAN, NEW get \in BOOLEAN, Restore(open, get)
      PROVE  ResetInv'
    BY <1>2 DEF Restore
<1>3. CASE InitButton
    BY <1>3 DEF InitButton
<1>4. CASE StartTasks
    <2>1. reset' => reset /\ gpio = "restart"
        BY <1>4, Zenon DEF StartTasks
    <2> QED
        BY <1>4, <2>1 DEF StartTasks
<1>5. CASE EnergyTask
    <2>1. UNCHANGED <<reset, phase, notified, gpio>>
        BY <1>5 DEF EnergyTask, Measure, SetMill, WriteAtPower, MeterDelayOver
    <2> QED
        BY <2>1
<1>6. CASE StoringTask
    <2>1. UNCHANGED <<reset, phase, notified, gpio>>
        BY <1>6 DEF StoringTask, ReadAtPower, StoreEnergy, StoringDelayOver
    <2> QED
        BY <2>1
<1>7. CASE TakeNotification
    BY <1>7 DEF TakeNotification
<1>8. ASSUME NEW ok \in BOOLEAN, ResetEnergy(ok) PROVE ResetInv'
    BY <1>8 DEF ResetEnergy
<1>9. CASE Restart \/ PowerFailure
    BY <1>9 DEF Restart, PowerFailure, Boot
<1>10. CASE Press \/ Tick \/ UNCHANGED vars
    BY <1>10 DEF Press, Tick, vars
<1> QED
    BY <1>1, <1>2, <1>3, <1>4, <1>5, <1>6, <1>7, <1>8, <1>9, <1>10
    DEF Next, AppMain, GpioTask

(* Of the steps that write to NVS, only that of storing_energy_task writes a total. *)
LEMMA ResetIsKept ==
    ASSUME ResetInv, [Next]_vars
    PROVE  ResetKept
<1> USE DEF ResetKept
<1>1. ASSUME NEW erase \in BOOLEAN, NEW ok \in BOOLEAN, InitFlash(erase, ok) PROVE ResetKept
    BY <1>1 DEF InitFlash
<1>2. ASSUME NEW ok \in BOOLEAN, StoreEnergy(ok) PROVE ResetKept
    <2>1. storing = "set" /\ phase = "run" /\ (gpio = "wait" \/ (gpio = "restart" /\ RestartYields))
        BY <1>2 DEF StoreEnergy, TasksMayRun
    <2> QED
        BY <2>1 DEF ResetInv
<1>3. ASSUME NEW ok \in BOOLEAN, ResetEnergy(ok) PROVE ResetKept
    BY <1>3 DEF ResetEnergy
<1>4. ASSUME UNCHANGED nvs PROVE ResetKept
    BY <1>4
<1>5. CASE InitButton \/ StartTasks \/ TakeNotification \/ Restart \/ PowerFailure
    BY <1>4, <1>5 DEF InitButton, StartTasks, TakeNotification, Restart, PowerFailure
<1>6. CASE (\E open, get \in BOOLEAN : Restore(open, get)) \/ Press \/ Tick \/ UNCHANGED vars
    BY <1>4, <1>6 DEF Restore, Press, Tick, vars
<1>7. CASE EnergyTask
    BY <1>4, <1>7 DEF EnergyTask, Measure, SetMill, WriteAtPower, MeterDelayOver
<1>8. CASE (\E h \in Halves : ReadAtPower(h)) \/ StoringDelayOver
    BY <1>4, <1>8 DEF ReadAtPower, StoringDelayOver
<1> QED
    BY <1>1, <1>2, <1>3, <1>5, <1>6, <1>7, <1>8 DEF Next, AppMain, StoringTask, GpioTask

(* Whether or not esp_restart lets other tasks run, and whatever fails: the *)
(* 0 that the button has stored stays until the tasks of the next boot run, *)
(* unless storing_energy_task stores the old total inside of esp_restart,   *)
(* which is the one way it comes back.                                      *)
THEOREM ButtonResets == Spec => [][ResetKept]_vars
<1>1. Init => ResetInv
    BY DEF Init, ResetInv
<1>2. ResetInv /\ [Next]_vars => ResetInv'
    BY ResetStep
<1>3. ResetInv /\ [Next]_vars => ResetKept
    BY ResetIsKept
<1> QED
    BY <1>1, <1>2, <1>3, PTL DEF Spec
-------------------------------------------------------------------------------
(* Torn reads.  The integer part is monotone in the high word, so it is     *)
(* enough to follow the high words: that of at_power is the restored one    *)
(* until it is first written, and a total of this boot afterwards.          *)
LEMMA IntegerMonotone ==
    ASSUME NEW v \in WordsType, NEW w \in WordsType, v["hi"] <= w["hi"]
    PROVE  Integer(v) <= Integer(w)
<1> DEFINE n == w["hi"] * B + w["lo"]
           p == Integer(v)
           q == Integer(w)
<1>1. /\ v["hi"] \in Nat /\ w["hi"] \in Nat /\ w["lo"] \in Nat
      /\ B \in Nat \ {0} /\ K \in Nat \ {0} /\ Unit \in Nat \ {0}
    BY ConstantsAssumption, UnitType DEF WordsType, Halves
<1>2. p \in Nat /\ q \in Nat
    BY IntegerOfHigh
<1>3. p * K <= v["hi"]
    BY IntegerOfHigh
<1>4. n < (q + 1) * Unit
    <2>1. n \in Nat
        BY <1>1
    <2> HIDE DEF n
    <2>2. n < ((n \div Unit) + 1) * Unit
        BY <1>1, <2>1
    <2> QED
        BY <2>2 DEF Integer, n
<1>5. w["hi"] * B <= n /\ w["hi"] * B \in Nat /\ n \in Nat
    BY <1>1
<1> HIDE DEF n, p, q
<1>6. p * Unit <= w["hi"] * B
    <2>1. p * K \in Nat /\ p * K <= w["hi"]
        BY <1>1, <1>2, <1>3
    <2>2. (p * K) * B <= w["hi"] * B
        BY <1>1, <2>1, ProductMonotone
    <2>3. p * Unit = (p * K) * B
        BY <1>1, <1>2 DEF Unit
    <2> QED
        BY <2>2, <2>3
<1>7. p <= q
    <2>1. CASE p >= q + 1
        <3>1. (q + 1) * Unit <= p * Unit /\ (q + 1) * Unit \in Nat /\ p * Unit \in Nat
            BY <1>1, <1>2, <2>1, ProductMonotone
        <3> QED
            BY <1>4, <1>5, <1>6, <3>1
    <2> QED
        BY <1>2, <2>1
<1> QED
    BY <1>7 DEF p, q

High(e) == Words(e)["hi"]

(* The high word of an energy is a natural number. *)
LEMMA HighType ==
    ASSUME NEW e \in Nat
    PROVE  High(e) = e \div B /\ High(e) \in Nat
<1>1. High(e) = e \div B
    BY DEF High, Words, Halves
<1> QED
    BY <1>1, DivFloor, ConstantsAssumption

(* A high word is not ahead of the total, or is that of the restored one.   *)
NotAhead(h) == h <= High(energy) \/ h = High(restored * Unit)

AheadInv ==
    /\ phase # "run" => DOMAIN saved = {}
    /\ NotAhead(at_power["hi"])
    /\ "hi" \in DOMAIN saved => NotAhead(saved["hi"])

(* At the first boot neither at_power nor the copy being saved is ahead of the total. *)
LEMMA AheadInit == Init => AheadInv
<1> SUFFICES ASSUME Init PROVE AheadInv
    OBVIOUS
<1>1. at_power["hi"] = High(energy) /\ High(energy) \in Nat
    BY HighType DEF Init, High
<1>2. DOMAIN saved = {}
    BY DEF Init
<1> QED
    BY <1>1, <1>2 DEF AheadInv, NotAhead

(* A step that leaves the total, the words and what was restored alone.     *)
LEMMA AheadUntouched ==
    ASSUME AheadInv, UNCHANGED <<energy, restored, at_power>>,
           UNCHANGED saved \/ DOMAIN saved' = {},
           phase' # "run" => phase # "run" \/ DOMAIN saved' = {}
    PROVE  AheadInv'
BY DEF AheadInv, NotAhead

(* After a boot nothing is being saved. *)
LEMMA AheadBoot == Boot => AheadInv'
<1> SUFFICES ASSUME Boot PROVE AheadInv'
    OBVIOUS
<1>1. at_power'["hi"] = High(energy') /\ High(energy') \in Nat
    BY HighType DEF Boot, High
<1>2. DOMAIN saved' = {}
    BY DEF Boot
<1> QED
    BY <1>1, <1>2 DEF AheadInv, NotAhead

(* No step lets the copy that storing_energy_task holds get ahead of what was measured. *)
LEMMA AheadStep == TypeOK /\ AheadInv /\ [Next]_vars => AheadInv'
<1> SUFFICES ASSUME TypeOK, AheadInv, [Next]_vars PROVE AheadInv'
    OBVIOUS
<1> USE DEF bootVars, meterVars, storeVars
<1>1. ASSUME NEW erase \in BOOLEAN, NEW ok \in BOOLEAN, InitFlash(erase, ok) PROVE AheadInv'
    <2>1. CASE Boot
        BY <2>1, AheadBoot
    <2>2. CASE ~ Boot
        BY <1>1, <2>2, AheadUntouched DEF InitFlash
    <2> QED
        BY <2>1, <2>2
<1>2. ASSUME NEW open \in BOOLEAN, NEW get \in BOOLEAN, Restore(open, get)
      PROVE  AheadInv'
    <2>1. DOMAIN saved' = {}
        BY <1>2 DEF Restore, AheadInv
    <2>2. at_power'["hi"] = High(restored' * Unit)
        BY <1>2 DEF Restore, High
    <2> QED
        BY <2>1, <2>2 DEF AheadInv, NotAhead
<1>3. ASSUME InitButton \/ StartTasks PROVE AheadInv'
    BY <1>3, AheadUntouched DEF InitButton, StartTasks
<1>4. ASSUME NEW power \in 0 .. MaxPower, Measure(power) PROVE AheadInv'
    <2>1. energy' \in Nat /\ energy \in Nat /\ energy <= energy'
        <3>1. Elapsed(tick, energy_mill) \in Nat /\ power \in Nat /\ energy \in Nat
            BY ElapsedStep, ConstantsAssumption DEF TypeOK
        <3>2. power * Elapsed(tick, energy_mill) \in Nat
            BY <3>1, ProductMonotone
        <3> QED
            BY <1>4, <3>1, <3>2 DEF Measure
    <2>2. High(energy) <= High(energy') /\ High(energy) \in Nat /\ High(energy') \in Nat
        BY <2>1, HighType, DivMonotone, ConstantsAssumption
    <2>3. \A h \in Nat : NotAhead(h) => NotAhead(h)'
        BY <1>4, <2>2 DEF Measure, NotAhead
    <2>4. at_power["hi"] \in Nat /\ ("hi" \in DOMAIN saved => saved["hi"] \in Nat)
        BY DEF TypeOK, WordsType, Halves
    <2>5. UNCHANGED <<at_power, saved, phase>>
        BY <1>4 DEF Measure
    <2> QED
        BY <2>3, <2>4, <2>5 DEF AheadInv, NotAhead
<1>5. ASSUME SetMill \/ MeterDelayOver \/ StoringDelayOver PROVE AheadInv'
    BY <1>5, AheadUntouched DEF SetMill, MeterDelayOver, StoringDelayOver
<1>6. ASSUME NEW h \in Halves, WriteAtPower(h) PROVE AheadInv'
    <2>1. at_power'["hi"] \in {at_power["hi"], High(energy)}
        BY <1>6 DEF WriteAtPower, TypeOK, WordsType, Halves, High
    <2>2. High(energy) \in Nat
        BY HighType DEF TypeOK
    <2>3. NotAhead(at_power'["hi"])
        BY <2>1, <2>2 DEF AheadInv, NotAhead
    <2>4. UNCHANGED <<energy, restored, saved, phase>>
        BY <1>6 DEF WriteAtPower
    <2> QED
        BY <2>3, <2>4 DEF AheadInv, NotAhead
<1>7. ASSUME NEW h \in Halves, ReadAtPower(h) PROVE AheadInv'
    <2>1. "hi" \in DOMAIN saved' => NotAhead(saved'["hi"])
        BY <1>7 DEF ReadAtPower, AheadInv
    <2>2. UNCHANGED <<energy, restored, at_power, phase>> /\ phase = "run"
        BY <1>7 DEF ReadAtPower, TasksMayRun
    <2> QED
        BY <2>1, <2>2 DEF AheadInv, NotAhead
<1>8. ASSUME NEW ok \in BOOLEAN, StoreEnergy(ok) PROVE AheadInv'
    <2>1. DOMAIN saved' = {}
        BY <1>8 DEF StoreEnergy
    <2> QED
        BY <1>8, <2>1, AheadUntouched DEF StoreEnergy
<1>9. ASSUME Press \/ TakeNotification \/ Tick PROVE AheadInv'
    BY <1>9, AheadUntouched DEF Press, TakeNotification, Tick
<1>10. ASSUME NEW ok \in BOOLEAN, ResetEnergy(ok) PROVE AheadInv'
    BY <1>10, AheadUntouched DEF ResetEnergy
<1>11. ASSUME Restart \/ PowerFailure PROVE AheadInv'
    BY <1>11, AheadBoot DEF Restart, PowerFailure
<1>12. CASE UNCHANGED vars
    BY <1>12, AheadUntouched DEF vars
<1> QED
    BY <1>1, <1>2, <1>3, <1>4, <1>5, <1>6, <1>7, <1>8, <1>9, <1>10, <1>11, <1>12
    DEF Next, AppMain, EnergyTask, StoringTask, GpioTask

(* A torn read of at_power never gives storing_energy_task an integer that  *)
(* is ahead of the total, except for the one app_main restored.             *)
THEOREM TornNotAhead == Spec => []SavedNotAhead
<1>1. TypeOK /\ AheadInv => SavedNotAhead
    <2> SUFFICES ASSUME TypeOK, AheadInv, storing = "set"
                 PROVE  \/ Integer(saved) <= Integer(Words(energy))
                        \/ Integer(saved) = Integer(Words(restored * Unit))
        BY DEF SavedNotAhead
    <2>1. saved \in WordsType /\ "hi" \in DOMAIN saved
        BY DEF TypeOK, WordsType, Halves
    <2>2. restored * Unit \in Nat
        BY UnitType, ProductMonotone DEF TypeOK
    <2>3. Words(energy) \in WordsType /\ Words(restored * Unit) \in WordsType
        BY <2>2, WordsOf DEF TypeOK
    <2>4. CASE saved["hi"] <= High(energy)
        BY <2>1, <2>3, <2>4, IntegerMonotone DEF High
    <2>5. CASE saved["hi"] = High(restored * Unit)
        <3> DEFINE w == Words(restored * Unit)
        <3>1. w \in WordsType /\ saved["hi"] = w["hi"] /\ saved["hi"] \in Nat
            BY <2>1, <2>3, <2>5 DEF High, WordsType, Halves
        <3> HIDE DEF w
        <3>2. saved["hi"] <= w["hi"] /\ w["hi"] <= saved["hi"]
            BY <3>1
        <3>3. Integer(saved) <= Integer(w) /\ Integer(w) <= Integer(saved)
            BY <2>1, <3>1, <3>2, IntegerMonotone
        <3>4. Integer(saved) \in Nat /\ Integer(w) \in Nat
            BY <2>1, <3>1, IntegerOfHigh
        <3>5. Integer(saved) = Integer(w)
            BY <3>3, <3>4
        <3> QED
            BY <3>5 DEF w
    <2> QED
        BY <2>1, <2>4, <2>5 DEF AheadInv, NotAhead
<1> QED
    BY <1>1, TypeInit, TypeStep, AheadInit, AheadStep, PTL DEF Spec
===============================================================================
