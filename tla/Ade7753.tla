------------------------------ MODULE Ade7753 ------------------------------
(****************************************************************************)
(* The ADE7753 driver of ade_new.c: its frames on the SPI bus, the set-up   *)
(* of the chip by ade7753_init, the rounds of ten register reads of         *)
(* get_IRMS and get_VRMS, and the room that main.c and mqtt.c have for the  *)
(* values they print.  A value is counted in hundredths, as "%.2f" shows    *)
(* it.  The chip is external: a frame whose first byte has the write flag   *)
(* sets a register, any other one is answered with a register, most         *)
(* significant byte first.  xsema_handle keeps rounds apart (Metering).     *)
(****************************************************************************)
EXTENDS Integers, Sequences, FiniteSets

CONSTANTS
    Samples,       \* contents of IRMS and VRMS, registers of 24 bits
    MaxFailures    \* bound: SPI transfers that fail

N == 10            \* reads of a round
Largest16 == 65535
Largest24 == 16777215

ASSUME SamplesAssumption == Samples \subseteq 0 .. Largest24
ASSUME FailuresAssumption == MaxFailures \in Nat

Quantities == {"irms", "vrms"}

MODE == 9
GAIN == 15
LINECYC == 28

VARIABLES
    chip,      \* the registers that ade7753_init sets
    setup,     \* frames ade7753_init has still to send
    round,     \* the quantity whose round is under way, or "none"
    reads,     \* reads made in it
    sum,       \* sum_irms and sum_vrms
    result,    \* what the last round returned: {} or {<<quantity, hundredths>>}
    low, high, \* least and greatest content met in the round    (history)
    missed,    \* reads of the round that failed                 (history)
    failures   \* transfers that failed (bound)

roundVars == <<round, reads, low, high, missed>>
vars == <<chip, setup, roundVars, sum, result, failures>>

-------------------------------------------------------------------------------
(* Mutant: the low byte is sent first.                                      *)
write_16bits_swapped(reg, value) == <<reg + 128, value % 256, value \div 256>>

(* tx_data of write_16bits_register and write_8bits_register: register      *)
(* addresses are below ADE7753_WRITE_FLAG.                                  *)
write_16bits_register(reg, value) == <<reg + 128, value \div 256, value % 256>>
write_8bits_register(reg, value) == <<reg + 128, value>>

Number(bytes) == IF Len(bytes) = 1 THEN bytes[1] ELSE (256 * bytes[1]) + bytes[2]

(* The chip on a frame.                                                     *)
Receives(frame) ==
    IF frame[1] >= 128
       THEN [chip EXCEPT ![frame[1] - 128] = Number(Tail(frame))]
       ELSE chip

(* rx_data of a read of a register with 24 bits; the first byte is void.    *)
Answer(content) == <<0, content \div 65536, (content \div 256) % 256, content % 256>>

(* Mutant: the two low bytes change places.                                 *)
read_24bits_swapped(rx_data) == (65536 * rx_data[2]) + (256 * rx_data[4]) + rx_data[3]

(* What read_24bits_register makes of rx_data; the parts share no bit.      *)
read_24bits_register(rx_data) ==
    (65536 * rx_data[2]) + (256 * rx_data[3]) + rx_data[4]

(* num * s / den, cut to an integer, without a product beyond 31 bits.      *)
Scaled(s, num, den) == (num * (s \div den)) + ((num * (s % den)) \div den)

Irms(s) == Scaled(s, 50, 1868467)      \* s * 0.5 / 1868467 / 10 * 10

Vrms(s) == Scaled(s, 781, 312280)      \* s * 0.5 / 1561400 / 10 * 781

(* Mutant: the sum of ten is not divided by ten.                            *)
HundredthsOfSum(quantity, s) == IF quantity = "irms" THEN 10 * Irms(s) ELSE 10 * Vrms(s)

(* What a round returns: a voltage below 100 V counts as none.              *)
Hundredths(quantity, s) ==
    IF quantity = "irms" THEN Irms(s)
    ELSE IF Vrms(s) < 10000 THEN 0 ELSE Vrms(s)

(* Characters of "%.2f".                                                    *)
Width(h) == 4 + Cardinality({p \in {1000, 10000, 100000, 1000000} : p <= h})

(* "%.2f       " and {"irms":%.2f}, each with its terminator.               *)
DisplaySize(h) == Width(h) + 7 + 1
PostSize(h) == 2 + 4 + 2 + Width(h) + 1 + 1

-------------------------------------------------------------------------------
(* The chip as it is after its reset.                                       *)
Init ==
    /\ chip = [reg \in {MODE, GAIN, LINECYC} |->
                  CASE reg = MODE -> 12 [] reg = GAIN -> 0 [] reg = LINECYC -> Largest16]
    /\ setup = <<write_16bits_register(MODE, 140), write_8bits_register(GAIN, 0),
                 write_16bits_register(LINECYC, 120)>>
    /\ round = "none" /\ reads = 0
    /\ sum = [quantity \in Quantities |-> 0]
    /\ result = {}
    /\ low = Largest24 /\ high = 0 /\ missed = 0
    /\ failures = 0

Fails == failures < MaxFailures /\ failures' = failures + 1

(* The next frame of ade7753_init; a failure is only printed.               *)
SetUp ==
    /\ setup # <<>>
    /\ setup' = Tail(setup)
    /\ \/ chip' = Receives(Head(setup)) /\ UNCHANGED failures
       \/ Fails /\ UNCHANGED chip
    /\ UNCHANGED <<roundVars, sum, result>>

(* get_IRMS or get_VRMS is called, once app_main has started the tasks.     *)
StartRound(quantity) ==
    /\ setup = <<>> /\ round = "none"
    /\ round' = quantity /\ reads' = 0
    /\ low' = Largest24 /\ high' = 0 /\ missed' = 0
    /\ result' = {}
    /\ UNCHANGED <<chip, setup, sum, failures>>

ReadRegister(content) ==
    /\ round # "none" /\ reads < N
    /\ reads' = reads + 1
    /\ sum' = [sum EXCEPT ![round] = @ + read_24bits_register(Answer(content))]
    /\ low' = IF content < low THEN content ELSE low
    /\ high' = IF content > high THEN content ELSE high
    /\ UNCHANGED <<chip, setup, round, missed, result, failures>>

(* A read that failed returns 0, which is added like any other content.     *)
MissRegister ==
    /\ round # "none" /\ reads < N
    /\ Fails
    /\ reads' = reads + 1
    /\ missed' = missed + 1
    /\ UNCHANGED <<chip, setup, round, sum, low, high, result>>

(* Mutant: the sum is not reset.                                            *)
KeepSum ==
    /\ round # "none" /\ reads = N
    /\ result' = {<<round, Hundredths(round, sum[round])>>}
    /\ round' = "none"
    /\ UNCHANGED <<chip, setup, reads, low, high, missed, sum, failures>>

FinishRound ==
    /\ round # "none" /\ reads = N
    /\ result' = {<<round, Hundredths(round, sum[round])>>}
    /\ sum' = [sum EXCEPT ![round] = 0]
    /\ round' = "none"
    /\ UNCHANGED <<chip, setup, reads, low, high, missed, failures>>

Next ==
    \/ SetUp
    \/ \E quantity \in Quantities : StartRound(quantity)
    \/ \E content \in Samples : ReadRegister(content)
    \/ MissRegister
    \/ FinishRound

Spec == Init /\ [][Next]_vars

-------------------------------------------------------------------------------
(* A sum of ten registers of 24 bits is far from the 2^32 at which the      *)
(* uint32_t of the driver would wrap.                                       *)
TypeOK ==
    /\ chip \in [{MODE, GAIN, LINECYC} -> 0 .. Largest16]
    /\ Len(setup) <= 3
    /\ round \in Quantities \cup {"none"}
    /\ reads \in 0 .. N
    /\ sum \in [Quantities -> 0 .. N * Largest24]
    /\ result \subseteq (Quantities \X Nat)
    /\ low \in 0 .. Largest24 /\ high \in 0 .. Largest24
    /\ missed \in 0 .. reads
    /\ failures \in 0 .. MaxFailures

(* The mean that a round returns is the mean of this round: nothing is left *)
(* of the rounds before it, the bytes of a register are put together as the *)
(* chip sent them, and a read that failed pulls the mean down by its share  *)
(* and no more.                                                             *)
MeanOfRound ==
    /\ \A quantity \in Quantities \ {round} : sum[quantity] = 0
    /\ round # "none" =>
          /\ (reads - missed) * low <= sum[round]
          /\ sum[round] <= (reads - missed) * high

(* Whatever the chip answers, an RMS value with its spaces fits             *)
(* data_string[15] of display_task, and its message post_data[20] of        *)
(* Send_data_to_cloud.                                                      *)
TextFits == \A r \in result : DisplaySize(r[2]) <= 15 /\ PostSize(r[2]) <= 20

(* If no transfer failed, no round ever runs on a chip that is set up in    *)
(* another way than ade7753_init meant: MODE 0x8C, GAIN_1, LINECYC 0x78.    *)
RunsConfigured ==
    round # "none" /\ failures = 0
        => chip[MODE] = 140 /\ chip[GAIN] = 0 /\ chip[LINECYC] = 120
===============================================================================
