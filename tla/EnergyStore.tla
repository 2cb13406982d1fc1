------------------------------ MODULE EnergyStore ------------------------------
(****************************************************************************)
(* The energy total: get_power_consumption accumulates it in RAM from the   *)
(* tick counter, get_energy_task publishes it in at_power,                  *)
(* storing_energy_task saves its integer part in NVS, app_main restores it  *)
(* at boot, and the button overwrites it with 0 and restarts.  The supply   *)
(* may fail at any time.                                                    *)
(*                                                                          *)
(* Energy is counted in power units x ticks; Unit of them make the 1 of the *)
(* stored int32_t.  at_power is a double on a 32-bit core: it is written    *)
(* and read in two halves, of which the low one is below the integer part   *)
(* (a double keeps every integer below 2^20 in its high word).              *)
(****************************************************************************)
EXTENDS Integers

CONSTANTS
    W,             \* the tick counter wraps at W (2^32)
    MaxPower,      \* largest power the ADE7753 reports, a failed read gives 0
    B,             \* values of the low word of at_power
    K,             \* the integer part of at_power is its high word \div K
    RestartYields, \* esp_restart blocks, so other tasks of the core run in it
    MaxTime,       \* bound: ticks until the end of the behaviour
    MaxFailures    \* bound: failures of the supply

ASSUME ConstantsAssumption ==
    /\ W \in Nat \ {0, 1}
    /\ MaxPower \in Nat
    /\ B \in Nat \ {0}
    /\ K \in Nat \ {0}
    /\ RestartYields \in BOOLEAN
    /\ MaxTime \in Nat
    /\ MaxFailures \in Nat

VARIABLES
    phase,       \* what app_main does next
    opened,      \* nvs_open succeeded in this boot
    nvs,         \* {} or {v}: the value stored under "energy"
    tick,        \* xTaskGetTickCount
    energy,      \* total accumulated by get_power_consumption in this boot
    energy_mill, \* tick count at the last accumulation
    at_power,    \* the two words of the global at_power
    meter,       \* where get_energy_task stands
    unwritten,   \* words of at_power get_energy_task has still to write
    storing,     \* where storing_energy_task stands
    saved,       \* the words of at_power that storing_energy_task has read
    notified,    \* a notification is pending for gpio_task_example
    gpio,        \* where gpio_task_example stands
    now,         \* ticks since the first power-on           (history)
    millAt,      \* now, when energy_mill was set            (history)
    restored,    \* at_power as app_main left it, in units   (history)
    reset,       \* the button stored 0 and no task ran since (history)
    failures     \* failures of the supply so far            (bound)

clockVars == <<tick, now>>
bootVars  == <<phase, opened, restored>>
meterVars == <<energy, energy_mill, meter, unwritten, millAt>>
storeVars == <<storing, saved>>
gpioVars  == <<notified, gpio>>
vars      == <<clockVars, bootVars, meterVars, at_power, storeVars, gpioVars,
               nvs, reset, failures>>

-------------------------------------------------------------------------------
Halves == {"hi", "lo"}

Words(e) == [h \in Halves |-> IF h = "hi" THEN e \div B ELSE e % B]
Unit == K * B

(* Mutant: the saved integer keeps the low word too (Wh instead of kWh).    *)
FinerInteger(w) == w["hi"] * B + w["lo"]

Integer(w) == (w["hi"] * B + w["lo"]) \div Unit         \* (int32_t)at_power

NextTick(t) == IF t + 1 = W THEN 0 ELSE t + 1

(* Mutant: the counters are subtracted as signed values.                    *)
SignedElapsed(t, mill) == t - mill

(* The difference of two readings of the counter, as uint32_t.              *)
Elapsed(t, mill) == IF mill <= t THEN t - mill ELSE t - mill + W

(* Mutant: the gpio task has no priority over the others.                   *)
TasksAlwaysRun == phase = "run"

(* gpio_task_example has the highest priority on core 1.                    *)
TasksMayRun ==
    /\ phase = "run"
    /\ gpio = "wait" \/ (gpio = "restart" /\ RestartYields)

(* What the memory holds when app_main is entered.                          *)
Boot ==
    /\ phase' = "flash" /\ opened' = FALSE /\ restored' = 0
    /\ tick' = 0
    /\ energy' = 0 /\ energy_mill' = 0 /\ millAt' = now
    /\ at_power' = Words(0)
    /\ meter' = "measure" /\ unwritten' = {}
    /\ storing' = "read" /\ saved' = [h \in {} |-> 0]
    /\ notified' = FALSE /\ gpio' = "wait"

Init ==
    /\ phase = "flash" /\ opened = FALSE /\ restored = 0
    /\ nvs = {}
    /\ tick = 0 /\ now = 0
    /\ energy = 0 /\ energy_mill = 0 /\ millAt = 0
    /\ at_power = Words(0)
    /\ meter = "measure" /\ unwritten = {}
    /\ storing = "read" /\ saved = [h \in {} |-> 0]
    /\ notified = FALSE /\ gpio = "wait"
    /\ reset = FALSE
    /\ failures = 0

-------------------------------------------------------------------------------
(* app_main *)

(* nvs_flash_init; a partition without free pages or of another version is  *)
(* erased and initialised again.  ESP_ERROR_CHECK aborts on any other error *)
(* and on one of the erasure or of the second attempt: the socket boots     *)
(* again.                                                                   *)
InitFlash(erase, ok) ==
    /\ phase = "flash"
    /\ nvs' = IF erase THEN {} ELSE nvs
    /\ \/ ok /\ phase' = "restore"
          /\ UNCHANGED <<tick, opened, restored, meterVars, at_power, storeVars, gpioVars>>
       \/ ~ ok /\ Boot
    /\ UNCHANGED <<now, reset, failures>>

(* nvs_open and nvs_get_i32, each of which may fail; at_power stays 0 then. *)
Restore(open, get) ==
    /\ phase = "restore"
    /\ phase' = "button"
    /\ opened' = open
    /\ restored' = IF open /\ get /\ nvs # {} THEN CHOOSE v \in nvs : TRUE ELSE 0
    /\ at_power' = Words(restored' * Unit)
    /\ UNCHANGED <<clockVars, meterVars, storeVars, gpioVars, nvs, reset, failures>>

(* init_button *)
InitButton ==
    /\ phase = "button"
    /\ phase' = "tasks"
    /\ UNCHANGED <<clockVars, opened, restored, meterVars, at_power, storeVars,
                   gpioVars, nvs, reset, failures>>

StartTasks ==
    /\ phase = "tasks"
    /\ phase' = "run"
    /\ reset' = (reset /\ gpio = "restart")
    /\ UNCHANGED <<clockVars, opened, restored, meterVars, at_power, storeVars,
                   gpioVars, nvs, failures>>

-------------------------------------------------------------------------------
(* get_energy_task: get_power_consumption, then the store to at_power.      *)
Measure(power) ==
    /\ TasksMayRun /\ meter = "measure"
    /\ meter' = "mill"
    /\ energy' = energy + power * Elapsed(tick, energy_mill)
    /\ UNCHANGED <<clockVars, bootVars, energy_mill, unwritten, millAt, at_power,
                   storeVars, gpioVars, nvs, reset, failures>>

(* Mutant: energy_mill is left as it is.                                    *)
KeepMill ==
    /\ TasksMayRun /\ meter = "mill"
    /\ meter' = "write" /\ unwritten' = Halves
    /\ millAt' = now
    /\ UNCHANGED <<clockVars, bootVars, energy, energy_mill, at_power, storeVars,
                   gpioVars, nvs, reset, failures>>

(* The counter is read a second time.                                       *)
SetMill ==
    /\ TasksMayRun /\ meter = "mill"
    /\ meter' = "write" /\ unwritten' = Halves
    /\ energy_mill' = tick
    /\ millAt' = now
    /\ UNCHANGED <<clockVars, bootVars, energy, at_power, storeVars, gpioVars,
                   nvs, reset, failures>>

WriteAtPower(h) ==
    /\ TasksMayRun /\ meter = "write" /\ h \in unwritten
    /\ at_power' = [at_power EXCEPT ![h] = Words(energy)[h]]
    /\ unwritten' = unwritten \ {h}
    /\ meter' = IF unwritten' = {} THEN "delay" ELSE "write"
    /\ UNCHANGED <<clockVars, bootVars, energy, energy_mill, millAt, storeVars,
                   gpioVars, nvs, reset, failures>>

MeterDelayOver ==
    /\ TasksMayRun /\ meter = "delay"
    /\ meter' = "measure"
    /\ UNCHANGED <<clockVars, bootVars, energy, energy_mill, unwritten, millAt,
                   at_power, storeVars, gpioVars, nvs, reset, failures>>

-------------------------------------------------------------------------------
(* storing_energy_task *)
ReadAtPower(h) ==
    /\ TasksMayRun /\ storing = "read" /\ h \notin DOMAIN saved
    /\ saved' = [g \in DOMAIN saved \cup {h} |-> IF g = h THEN at_power[h] ELSE saved[g]]
    /\ storing' = IF DOMAIN saved' = Halves THEN "set" ELSE "read"
    /\ UNCHANGED <<clockVars, bootVars, meterVars, at_power, gpioVars, nvs, reset,
                   failures>>

(* nvs_set_i32, which may fail and does so without an open handle.          *)
StoreEnergy(ok) ==
    /\ TasksMayRun /\ storing = "set"
    /\ ok => opened
    /\ nvs' = IF ok THEN {Integer(saved)} ELSE nvs
    /\ storing' = "delay" /\ saved' = [h \in {} |-> 0]
    /\ UNCHANGED <<clockVars, bootVars, meterVars, at_power, gpioVars, reset, failures>>

StoringDelayOver ==
    /\ TasksMayRun /\ storing = "delay"
    /\ storing' = "read"
    /\ UNCHANGED <<clockVars, bootVars, meterVars, at_power, saved, gpioVars, nvs,
                   reset, failures>>

-------------------------------------------------------------------------------
(* The button: gpio_isr_handler and gpio_task_example.                      *)
Press ==
    /\ phase \in {"tasks", "run"}
    /\ notified' = TRUE
    /\ UNCHANGED <<clockVars, bootVars, meterVars, at_power, storeVars, gpio, nvs,
                   reset, failures>>

TakeNotification ==
    /\ gpio = "wait" /\ notified
    /\ notified' = FALSE
    /\ gpio' = "set"
    /\ UNCHANGED <<clockVars, bootVars, meterVars, at_power, storeVars, nvs, reset,
                   failures>>

(* Mutant: a store that fails sends the task back to wait.                  *)
ResetOrWait(ok) ==
    /\ gpio = "set"
    /\ ok => opened
    /\ nvs' = IF ok THEN {0} ELSE nvs
    /\ reset' = (ok \/ reset)
    /\ gpio' = IF ok THEN "restart" ELSE "wait"
    /\ UNCHANGED <<clockVars, bootVars, meterVars, at_power, storeVars, notified,
                   failures>>

(* A store that fails is only printed; the restart comes all the same.      *)
ResetEnergy(ok) ==
    /\ gpio = "set"
    /\ ok => opened
    /\ nvs' = IF ok THEN {0} ELSE nvs
    /\ reset' = (ok \/ reset)
    /\ gpio' = "restart"
    /\ UNCHANGED <<clockVars, bootVars, meterVars, at_power, storeVars, notified,
                   failures>>

Restart ==
    /\ gpio = "restart"
    /\ Boot
    /\ UNCHANGED <<now, nvs, reset, failures>>

-------------------------------------------------------------------------------
(* The environment *)
Tick ==
    /\ now < MaxTime
    /\ now' = now + 1
    /\ tick' = NextTick(tick)
    /\ UNCHANGED <<bootVars, meterVars, at_power, storeVars, gpioVars, nvs, reset,
                   failures>>

PowerFailure ==
    /\ failures < MaxFailures
    /\ failures' = failures + 1
    /\ Boot
    /\ UNCHANGED <<now, nvs, reset>>

AppMain ==
    \/ \E erase, ok \in BOOLEAN : InitFlash(erase, ok)
    \/ \E open, get \in BOOLEAN : Restore(open, get)
    \/ InitButton
    \/ StartTasks

EnergyTask ==
    \/ \E power \in 0 .. MaxPower : Measure(power)
    \/ SetMill
    \/ \E h \in Halves : WriteAtPower(h)
    \/ MeterDelayOver

StoringTask ==
    \/ \E h \in Halves : ReadAtPower(h)
    \/ \E ok \in BOOLEAN : StoreEnergy(ok)
    \/ StoringDelayOver

GpioTask ==
    \/ TakeNotification
    \/ \E ok \in BOOLEAN : ResetEnergy(ok)
    \/ Restart

Next ==
    \/ AppMain
    \/ EnergyTask
    \/ StoringTask
    \/ GpioTask
    \/ Press
    \/ Tick
    \/ PowerFailure

Spec == Init /\ [][Next]_vars

(* gpio_task_example runs before any other task of its core.                *)
LiveSpec == Spec /\ WF_vars(GpioTask)

-------------------------------------------------------------------------------
WordsType == {w \in [Halves -> Nat] : w["lo"] < B}

TypeOK ==
    /\ phase \in {"flash", "restore", "button", "tasks", "run"}
    /\ opened \in BOOLEAN /\ restored \in Nat
    /\ \A v \in nvs : v \in Nat /\ nvs = {v}
    /\ tick \in 0 .. W - 1 /\ now \in 0 .. MaxTime
    /\ energy \in Nat /\ energy_mill \in 0 .. W - 1 /\ millAt \in 0 .. now
    /\ at_power \in WordsType
    /\ meter \in {"measure", "mill", "write", "delay"}
    /\ unwritten \subseteq Halves
    /\ storing \in {"read", "set", "delay"}
    /\ DOMAIN saved \subseteq Halves /\ saved \in [DOMAIN saved -> Nat]
    /\ "lo" \in DOMAIN saved => saved["lo"] < B
    /\ storing = "set" => DOMAIN saved = Halves
    /\ notified \in BOOLEAN
    /\ gpio \in {"wait", "set", "restart"}
    /\ reset \in BOOLEAN
    /\ failures \in 0 .. MaxFailures

(* No tick is billed twice and none at more than the largest power: neither *)
(* the total in RAM nor the stored one exceeds what the socket can have     *)
(* delivered since it was first powered, across the wrap of the counter,    *)
(* restarts, failures of the supply and torn reads of at_power.             *)
NeverOverBills ==
    /\ energy <= MaxPower * now
    /\ \A v \in nvs : v * Unit <= MaxPower * now

(* What storing_energy_task is about to save is not ahead of the total, even *)
(* when it read the two words of at_power while get_energy_task was writing *)
(* them; only the restored value may exceed what this boot has measured.    *)
SavedNotAhead ==
    storing = "set" =>
        \/ Integer(saved) <= Integer(Words(energy))
        \/ Integer(saved) = Integer(Words(restored * Unit))

(* Once the button has stored 0 nothing else is stored before the tasks of  *)
(* the next boot run, and that boot starts from 0, whatever fails meanwhile. *)
ResetSticks ==
    reset => /\ nvs \subseteq {0}
             /\ phase \in {"button", "tasks"} /\ gpio = "wait" => at_power = Words(0)

(* The total goes on from the energy before the power went off: outside the *)
(* store of a new value, at_power is not below what app_main restored.      *)
RestoredEnergyCounts ==
    phase = "run" /\ meter \in {"measure", "delay"} =>
        restored <= Integer(at_power)

(* A press of the button that the handler has seen restarts the socket.     *)
PressRestarts == notified ~> (phase = "flash")
===============================================================================
