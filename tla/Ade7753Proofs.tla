---------------------------- MODULE Ade7753Proofs ----------------------------
(****************************************************************************)
(* The rounds of reads of the ADE7753 driver return means of what the chip  *)
(* answered, in texts that fit their buffers, for any contents of the       *)
(* registers and any number of transfers that fail.                         *)
(****************************************************************************)
EXTENDS Ade7753, FiniteSetTheorems, TLAPS

(* The size of a register enters the proofs as a number only.               *)
LEMMA SizeOfRegister == Largest24 \in Nat
  BY SMT DEF Largest24

(* The bytes of a register are put together as the chip sent them.          *)
LEMMA ReadsContent ==
    ASSUME NEW content \in Nat
    PROVE  content <= Largest24 => read_24bits_register(Answer(content)) = content
  <1> DEFINE top == content \div 65536
             middle == (content \div 256) % 256
             bottom == content % 256
  <1>1. Answer(content) = <<0, top, middle, bottom>>
    BY DEF Answer
  <1>2. content = 65536 * top + 256 * middle + bottom
    <2>1. content = 256 * (content \div 256) + bottom
      BY SMT
    <2>2. content \div 256 = 256 * ((content \div 256) \div 256) + middle
      BY SMT
    <2>3. (content \div 256) \div 256 = top
      BY SMT
    <2>4. top \in Int /\ middle \in Int /\ bottom \in Int
      BY SMT
    <2> HIDE DEF top, middle, bottom
    <2> QED  BY SMT, <2>1, <2>2, <2>3, <2>4
  <1>3. top \in Int /\ middle \in Int /\ bottom \in Int
    BY SMT
  <1> HIDE DEF top, middle, bottom
  <1> QED  BY SMT, <1>1, <1>2, <1>3 DEF read_24bits_register

(* The bounds of a sum follow those of a content.                           *)
LEMMA TimesMonotone ==
    ASSUME NEW k \in Nat, NEW a \in Nat, NEW b \in Nat, a <= b
    PROVE  k * a <= k * b
  <1>1. PICK d \in Nat : b = a + d
    <2>1. b - a \in Nat /\ b = a + (b - a)
      BY SMT
    <2> QED  BY SMT, <2>1
  <1>2. k * b = k * a + k * d
    BY SMT, <1>1
  <1>3. k * d \in Nat /\ k * a \in Nat
    BY SMT
  <1> QED  BY SMT, <1>2, <1>3

(* The value of a round is a number below 10000.00.                         *)
IsValue(h) == h \in Nat /\ h < 1000000

(* Hundredths makes such a value of any sum of ten registers.               *)
LEMMA HundredthsBounded ==
    ASSUME NEW quantity \in Quantities, NEW s \in Nat, s <= N * Largest24
    PROVE  IsValue(Hundredths(quantity, s))
  <1>1. s <= 167772150
    BY SMT DEF N, Largest24
  <1>2. IsValue(Irms(s))
    <2> DEFINE d == s \div 1868467
               r == s % 1868467
    <2>1. d \in Nat /\ d <= 89 /\ r \in Nat /\ r < 1868467
      BY SMT, <1>1
    <2> HIDE DEF d, r
    <2>2. (50 * r) \div 1868467 \in Nat /\ (50 * r) \div 1868467 <= 50
      BY SMT, <2>1
    <2>3. Irms(s) = 50 * d + ((50 * r) \div 1868467)
      BY SMT DEF Irms, Scaled, d, r
    <2> QED  BY SMT, <2>1, <2>2, <2>3 DEF IsValue
  <1>3. IsValue(Vrms(s))
    <2> DEFINE d == s \div 312280
               r == s % 312280
    <2>1. d \in Nat /\ d <= 537 /\ r \in Nat /\ r < 312280
      BY SMT, <1>1
    <2> HIDE DEF d, r
    <2>2. (781 * r) \div 312280 \in Nat /\ (781 * r) \div 312280 <= 781
      BY SMT, <2>1
    <2>3. Vrms(s) = 781 * d + ((781 * r) \div 312280)
      BY SMT DEF Vrms, Scaled, d, r
    <2> QED  BY SMT, <2>1, <2>2, <2>3 DEF IsValue
  <1> QED  BY SMT, <1>2, <1>3 DEF Hundredths, IsValue

(* Width counts the members of a set of powers of ten.                      *)
LEMMA ThreeElements ==
    ASSUME NEW a, NEW b, NEW c, NEW S \in SUBSET {a, b, c}
    PROVE  Cardinality(S) \in 0 .. 3
  <1>1. IsFiniteSet({a}) /\ Cardinality({a}) = 1
    BY FS_Singleton
  <1>2. IsFiniteSet({a} \cup {b}) /\ Cardinality({a} \cup {b}) \in 1 .. 2
    BY <1>1, FS_AddElement
  <1>3. /\ IsFiniteSet({a} \cup {b} \cup {c})
        /\ Cardinality({a} \cup {b} \cup {c}) \in 1 .. 3
    BY <1>2, FS_AddElement
  <1>4. {a} \cup {b} \cup {c} = {a, b, c}
    OBVIOUS
  <1>5. IsFiniteSet(S) /\ Cardinality(S) <= Cardinality({a, b, c})
    BY <1>3, <1>4, FS_Subset
  <1> QED  BY <1>3, <1>4, <1>5, FS_CardinalityType

(* Such a number has at most seven characters.                              *)
LEMMA WidthBounded ==
    ASSUME NEW h, IsValue(h)
    PROVE  Width(h) \in 4 .. 7
  <1> DEFINE powers == {p \in {1000, 10000, 100000, 1000000} : p <= h}
  <1>1. powers \in SUBSET {1000, 10000, 100000}
    BY SMT DEF IsValue
  <1>2. Cardinality(powers) \in 0 .. 3
    <2> DEFINE a == 1000  b == 10000  c == 100000
    <2>1. powers \in SUBSET {a, b, c}
      BY <1>1
    <2> HIDE DEF powers, a, b, c
    <2> QED  BY <2>1, ThreeElements
  <1>3. Width(h) = 4 + Cardinality(powers)
    BY SMT DEF Width
  <1> HIDE DEF powers
  <1> QED  BY SMT, <1>2, <1>3

-------------------------------------------------------------------------------
(* The sums are those of the round, between the least and the greatest      *)
(* content times the reads that succeeded, and what was returned is the     *)
(* value of a sum that a round can have.                                    *)
RoundInv ==
    /\ round \in Quantities \cup {"none"}
    /\ reads \in 0 .. N
    /\ missed \in 0 .. reads
    /\ low \in 0 .. Largest24 /\ high \in 0 .. Largest24
    /\ sum \in [Quantities -> Nat]
    /\ round # "none" => sum[round] <= reads * Largest24
    /\ MeanOfRound

ResultInv ==
    /\ result \subseteq Quantities \X Nat
    /\ \A r \in result : IsValue(r[2])

(* The invariant holds on every path through the rounds of get_IRMS and     *)
(* get_VRMS, whichever reads fail.                                          *)
THEOREM RoundInductive == Spec => [](RoundInv /\ ResultInv)
  <1> USE SizeOfRegister
  <1>0. N \in Nat /\ "none" \notin Quantities
    BY SMT DEF N, Quantities
  <1>1. Init => RoundInv /\ ResultInv
    <2> SUFFICES ASSUME Init  PROVE RoundInv /\ ResultInv
      OBVIOUS
    <2>1. round = "none" /\ reads = 0 /\ missed = 0 /\ low = Largest24 /\ high = 0
      BY DEF Init
    <2>2. sum = [quantity \in Quantities |-> 0] /\ result = {}
      BY DEF Init
    <2> QED  BY SMT, <1>0, <2>1, <2>2 DEF RoundInv, ResultInv, MeanOfRound
  <1>2. RoundInv /\ ResultInv /\ [Next]_vars => (RoundInv /\ ResultInv)'
    <2> SUFFICES ASSUME RoundInv, ResultInv, [Next]_vars
                 PROVE  RoundInv' /\ ResultInv'
      OBVIOUS
    <2> DEFINE k == reads - missed
    <2>0. /\ k \in Nat /\ low \in Nat /\ high \in Nat /\ reads \in Nat /\ missed \in Nat
          /\ missed <= reads /\ reads <= N
      BY SMT, <1>0 DEF RoundInv
    <2>1. CASE SetUp \/ UNCHANGED vars
      <3>1. UNCHANGED <<roundVars, sum, result>>
        BY SMT, <2>1 DEF SetUp, vars
      <3> QED  BY SMT, <3>1 DEF RoundInv, ResultInv, MeanOfRound, roundVars
    <2>2. ASSUME NEW quantity \in Quantities, StartRound(quantity)
          PROVE  RoundInv' /\ ResultInv'
      <3>1. /\ round = "none" /\ round' = quantity /\ reads' = 0 /\ missed' = 0
            /\ low' = Largest24 /\ high' = 0 /\ sum' = sum /\ result' = {}
        BY SMT, <2>2 DEF StartRound
      <3>2. \A q \in Quantities : sum[q] = 0
        BY SMT, <3>1, <1>0 DEF RoundInv, MeanOfRound
      <3> QED  BY SMT, <1>0, <3>1, <3>2 DEF RoundInv, ResultInv, MeanOfRound
    <2>3. ASSUME NEW content \in Samples, ReadRegister(content)
          PROVE  RoundInv' /\ ResultInv'
      <3>1. content \in Nat /\ content <= Largest24
        BY SMT, SamplesAssumption
      <3>2. read_24bits_register(Answer(content)) = content
        BY <3>1, ReadsContent
      <3>3. /\ round \in Quantities /\ round' = round /\ reads < N /\ reads' = reads + 1
            /\ missed' = missed /\ result' = result
            /\ low' = (IF content < low THEN content ELSE low)
            /\ high' = (IF content > high THEN content ELSE high)
            /\ sum' = [sum EXCEPT ![round] = sum[round] + content]
        BY SMT, <2>3, <3>2 DEF ReadRegister, RoundInv
      <3>4. /\ sum'[round] = sum[round] + content
            /\ sum' \in [Quantities -> Nat] /\ sum[round] \in Nat
            /\ \A q \in Quantities \ {round} : sum'[q] = sum[q]
        BY SMT, <3>1, <3>3 DEF RoundInv
      <3>5. sum'[round] <= reads' * Largest24
        <4>1. sum[round] <= reads * Largest24
          BY SMT, <1>0, <3>3 DEF RoundInv
        <4>2. (reads + 1) * Largest24 = reads * Largest24 + Largest24
          BY SMT, <2>0
        <4>3. reads * Largest24 \in Int
          BY SMT, <2>0
        <4> QED  BY SMT, <3>1, <3>3, <3>4, <4>1, <4>2, <4>3
      <3>6. /\ low' \in Nat /\ low' <= low /\ low' <= content
            /\ high' \in Nat /\ high <= high' /\ content <= high'
        BY SMT, <2>0, <3>1, <3>3
      <3>7. k * low <= sum[round] /\ sum[round] <= k * high
        BY SMT, <1>0, <3>3 DEF RoundInv, MeanOfRound
      <3>8. reads' - missed' = k + 1
        BY SMT, <2>0, <3>3
      <3>9. (k + 1) * low' <= sum'[round] /\ sum'[round] <= (k + 1) * high'
        <4> HIDE DEF k
        <4>1. k * low' <= k * low /\ k * high <= k * high'
          BY <2>0, <3>6, TimesMonotone
        <4>2. (k + 1) * low' = k * low' + low' /\ (k + 1) * high' = k * high' + high'
          BY SMT, <2>0, <3>6
        <4>3. /\ k * low' \in Int /\ k * low \in Int
              /\ k * high \in Int /\ k * high' \in Int
          BY SMT, <2>0, <3>6
        <4> QED  BY SMT, <3>1, <3>4, <3>6, <3>7, <4>1, <4>2, <4>3
      <3>10. MeanOfRound'
        BY SMT, <3>3, <3>4, <3>8, <3>9 DEF RoundInv, MeanOfRound
      <3>11. /\ reads' \in 0 .. N /\ missed' \in 0 .. reads'
             /\ low' \in 0 .. Largest24 /\ high' \in 0 .. Largest24
        BY SMT, <1>0, <2>0, <3>1, <3>3 DEF RoundInv
      <3> QED  BY SMT, <3>3, <3>4, <3>5, <3>10, <3>11 DEF RoundInv, ResultInv
    <2>4. CASE MissRegister
      <3>1. /\ round \in Quantities /\ round' = round /\ reads < N /\ reads' = reads + 1
            /\ missed' = missed + 1 /\ UNCHANGED <<sum, low, high, result>>
        BY SMT, <2>4 DEF MissRegister, RoundInv
      <3>2. reads' - missed' = reads - missed
        BY SMT, <2>0, <3>1
      <3>3. MeanOfRound'
        BY SMT, <3>1, <3>2 DEF RoundInv, MeanOfRound
      <3>4. sum'[round] <= reads' * Largest24
        <4>1. sum[round] \in Nat /\ sum[round] <= reads * Largest24
          BY SMT, <1>0, <3>1 DEF RoundInv
        <4>2. (reads + 1) * Largest24 = reads * Largest24 + Largest24
          BY SMT, <2>0
        <4>3. reads * Largest24 \in Int
          BY SMT, <2>0
        <4> QED  BY SMT, <3>1, <4>1, <4>2, <4>3
      <3>5. reads' \in 0 .. N /\ missed' \in 0 .. reads'
        BY SMT, <1>0, <2>0, <3>1
      <3> QED  BY SMT, <3>1, <3>3, <3>4, <3>5 DEF RoundInv, ResultInv
    <2>5. CASE FinishRound
      <3>1. /\ round \in Quantities /\ round' = "none" /\ reads = N
            /\ UNCHANGED <<reads, missed, low, high>>
            /\ sum' = [sum EXCEPT ![round] = 0]
            /\ result' = {<<round, Hundredths(round, sum[round])>>}
        BY SMT, <2>5 DEF FinishRound, RoundInv
      <3>2. \A q \in Quantities : sum'[q] = 0
        BY SMT, <3>1 DEF RoundInv, MeanOfRound
      <3>3. sum[round] \in Nat /\ sum[round] <= N * Largest24
        BY SMT, <3>1, <1>0 DEF RoundInv
      <3>4. IsValue(Hundredths(round, sum[round]))
        BY <3>1, <3>3, HundredthsBounded
      <3>5. sum' \in [Quantities -> Nat]
        BY SMT, <3>1 DEF RoundInv
      <3>6. ResultInv'
        <4>1. Hundredths(round, sum[round]) \in Nat
          BY <3>4 DEF IsValue
        <4> QED  BY SMT, <3>1, <3>4, <4>1 DEF ResultInv
      <3> QED  BY SMT, <1>0, <3>1, <3>2, <3>5, <3>6 DEF RoundInv, MeanOfRound
    <2> QED  BY <2>1, <2>2, <2>3, <2>4, <2>5 DEF Next
  <1> QED  BY <1>1, <1>2, PTL DEF Spec

(* Every value returned is the mean of its own round: MeanOfRound, for any  *)
(* contents of the registers.                                               *)
THEOREM MeanKept == Spec => []MeanOfRound
  <1>1. RoundInv /\ ResultInv => MeanOfRound
    BY DEF RoundInv
  <1> QED  BY <1>1, RoundInductive, PTL

(* Whatever the registers hold, the texts of the RMS values fit.            *)
THEOREM TextsFit == Spec => []TextFits
  <1>1. RoundInv /\ ResultInv => TextFits
    <2> SUFFICES ASSUME ResultInv, NEW r \in result
                 PROVE  DisplaySize(r[2]) <= 15 /\ PostSize(r[2]) <= 20
      BY DEF TextFits
    <2>1. Width(r[2]) \in 4 .. 7
      BY WidthBounded DEF ResultInv
    <2> QED  BY SMT, <2>1 DEF DisplaySize, PostSize
  <1> QED  BY <1>1, RoundInductive, PTL

-------------------------------------------------------------------------------
(* The frames that ade7753_init has still to send, and what the chip holds  *)
(* after the ones before them, if no transfer failed.                       *)
Frames == <<write_16bits_register(MODE, 140), write_8bits_register(GAIN, 0),
            write_16bits_register(LINECYC, 120)>>

SetupInv ==
    /\ chip \in [{MODE, GAIN, LINECYC} -> Nat]
    /\ \A reg \in {MODE, GAIN, LINECYC} : chip[reg] <= Largest16
    /\ setup \in {Frames, Tail(Frames), Tail(Tail(Frames)), <<>>}
    /\ failures \in 0 .. MaxFailures
    /\ round # "none" => setup = <<>>
    /\ failures = 0 =>
          /\ chip[GAIN] = 0
          /\ setup # Frames => chip[MODE] = 140
          /\ setup = <<>> => chip[LINECYC] = 120

(* The bytes of the three frames that ade7753_init sends, and what is left of them after one and
   two. *)
LEMMA FramesAre ==
    /\ Frames = <<<<137, 0, 140>>, <<143, 0>>, <<156, 0, 120>>>>
    /\ Tail(Frames) = <<<<143, 0>>, <<156, 0, 120>>>>
    /\ Tail(Tail(Frames)) = <<<<156, 0, 120>>>>
  BY SMT DEF Frames, write_16bits_register, write_8bits_register, MODE, GAIN, LINECYC

(* The remainders of the set-up tell their lengths apart.                    *)
LEMMA FramesDiffer ==
    /\ Len(Frames) = 3 /\ Len(Tail(Frames)) = 2 /\ Len(Tail(Tail(Frames))) = 1
    /\ Frames # <<>> /\ Tail(Frames) # <<>> /\ Tail(Tail(Frames)) # <<>>
    /\ Tail(Tail(Tail(Frames))) = <<>> /\ Len(<<>>) = 0
    /\ Frames # Tail(Frames) /\ Frames # Tail(Tail(Frames))
    /\ Tail(Frames) # Tail(Tail(Frames))
    /\ Head(Frames) = <<137, 0, 140>> /\ Head(Tail(Frames)) = <<143, 0>>
    /\ Head(Tail(Tail(Frames))) = <<156, 0, 120>>
  <1>1. /\ Len(Frames) = 3 /\ Len(Tail(Frames)) = 2 /\ Len(Tail(Tail(Frames))) = 1
        /\ Len(<<>>) = 0
    BY SMT, FramesAre
  <1>2. /\ Frames # <<>> /\ Tail(Frames) # <<>> /\ Tail(Tail(Frames)) # <<>>
        /\ Frames # Tail(Frames) /\ Frames # Tail(Tail(Frames))
        /\ Tail(Frames) # Tail(Tail(Frames))
    <2>1. 3 # 0 /\ 2 # 0 /\ 1 # 0 /\ 3 # 2 /\ 3 # 1 /\ 2 # 1
      BY SMT
    <2> QED  BY <1>1, <2>1, Zenon
  <1>3. /\ Head(Frames) = <<137, 0, 140>> /\ Head(Tail(Frames)) = <<143, 0>>
        /\ Head(Tail(Tail(Frames))) = <<156, 0, 120>>
        /\ Tail(Tail(Tail(Frames))) = <<>>
    BY SMT, FramesAre
  <1> QED  BY <1>1, <1>2, <1>3

(* Before the first frame nothing is set up and all three frames are queued. *)
LEMMA SetupInit == Init => SetupInv
  <1> SUFFICES ASSUME Init  PROVE SetupInv
    OBVIOUS
  <1>1. /\ chip[MODE] = 12 /\ chip[GAIN] = 0 /\ chip[LINECYC] = Largest16
        /\ chip \in [{MODE, GAIN, LINECYC} -> Nat]
    BY SMT DEF Init, MODE, GAIN, LINECYC, Largest16
  <1>2. 12 <= Largest16 /\ 0 <= Largest16 /\ Largest16 <= Largest16
    BY SMT DEF Largest16
  <1>3. setup = Frames /\ failures = 0 /\ round = "none"
    BY DEF Init, Frames
  <1>4. Frames # <<>>
    BY SMT, FramesAre
  <1> QED  BY SMT, <1>1, <1>2, <1>3, <1>4, FailuresAssumption DEF SetupInv

(* The chip on each of the frames.                                          *)
LEMMA Received ==
    ASSUME chip \in [{MODE, GAIN, LINECYC} -> Nat]
    PROVE  /\ Receives(<<137, 0, 140>>) = [chip EXCEPT ![MODE] = 140]
           /\ Receives(<<143, 0>>) = [chip EXCEPT ![GAIN] = 0]
           /\ Receives(<<156, 0, 120>>) = [chip EXCEPT ![LINECYC] = 120]
  BY SMT DEF Receives, Number, MODE, GAIN, LINECYC

(* Each frame that arrives sets its own register and each that fails leaves a trace; the rounds
   that follow touch neither. *)
LEMMA SetupStep == SetupInv /\ [Next]_vars => SetupInv'
  <1> SUFFICES ASSUME SetupInv, [Next]_vars  PROVE SetupInv'
    OBVIOUS
  <1>0. failures \in Nat /\ MaxFailures \in Nat /\ failures <= MaxFailures
    BY SMT, FailuresAssumption DEF SetupInv
  <1>1. Fails => failures' \in 0 .. MaxFailures /\ failures' # 0
    BY SMT, <1>0 DEF Fails
  <1>2. CASE SetUp
    <2>1. /\ setup # <<>> /\ setup' = Tail(setup)
          /\ \/ chip' = Receives(Head(setup)) /\ failures' = failures
             \/ Fails /\ chip' = chip
          /\ round = "none" /\ round' = "none"
      BY <1>2 DEF SetUp, SetupInv, roundVars
    <2>2. failures' \in 0 .. MaxFailures /\ (failures' = 0 => chip' # chip \/ failures = 0)
      BY <1>1, <2>1 DEF SetupInv
    <2>3. 140 <= Largest16 /\ 0 <= Largest16 /\ 120 <= Largest16
      BY SMT DEF Largest16
    <2>6. setup' \in {Tail(Frames), Tail(Tail(Frames)), <<>>} /\ setup' # Frames
      BY <2>1, FramesDiffer DEF SetupInv
    <2>7. CASE Fails /\ chip' = chip
      BY <1>1, <2>1, <2>6, <2>7 DEF SetupInv
    <2>8. CASE chip' = Receives(Head(setup)) /\ failures' = failures
      <3>1. /\ setup = Frames => chip' = [chip EXCEPT ![MODE] = 140]
            /\ setup = Tail(Frames) => chip' = [chip EXCEPT ![GAIN] = 0]
            /\ setup = Tail(Tail(Frames)) => chip' = [chip EXCEPT ![LINECYC] = 120]
        <4>1. /\ Receives(<<137, 0, 140>>) = [chip EXCEPT ![MODE] = 140]
              /\ Receives(<<143, 0>>) = [chip EXCEPT ![GAIN] = 0]
              /\ Receives(<<156, 0, 120>>) = [chip EXCEPT ![LINECYC] = 120]
          BY Received DEF SetupInv
        <4>2. /\ setup = Frames => Head(setup) = <<137, 0, 140>>
              /\ setup = Tail(Frames) => Head(setup) = <<143, 0>>
              /\ setup = Tail(Tail(Frames)) => Head(setup) = <<156, 0, 120>>
          BY FramesDiffer
        <4> HIDE DEF MODE, GAIN, LINECYC
        <4> QED  BY <2>8, <4>1, <4>2, Zenon
      <3>2. /\ setup' = <<>> => setup = Tail(Tail(Frames))
            /\ setup = Tail(Frames) \/ setup = Tail(Tail(Frames)) => setup # Frames
        BY <2>1, FramesDiffer DEF SetupInv
      <3>3. setup \in {Frames, Tail(Frames), Tail(Tail(Frames))}
        BY <2>1 DEF SetupInv
      <3>4. MODE # GAIN /\ MODE # LINECYC /\ GAIN # LINECYC
        BY SMT DEF MODE, GAIN, LINECYC
      <3>5. /\ chip' \in [{MODE, GAIN, LINECYC} -> Nat]
            /\ \A reg \in {MODE, GAIN, LINECYC} : chip'[reg] <= Largest16
            /\ failures' = 0 =>
                  /\ chip'[GAIN] = 0 /\ chip'[MODE] = 140
                  /\ setup' = <<>> => chip'[LINECYC] = 120
        BY SMT, <2>3, <2>8, <3>1, <3>2, <3>3, <3>4 DEF SetupInv
      <3> QED  BY <2>1, <2>2, <2>6, <3>5 DEF SetupInv
    <2> QED  BY <2>1, <2>7, <2>8
  <1>3. CASE MissRegister
    <2>1. failures' \in 0 .. MaxFailures /\ failures' # 0
      BY <1>1, <1>3 DEF MissRegister
    <2>2. UNCHANGED <<chip, setup, round>>
      BY <1>3 DEF MissRegister
    <2> QED  BY <2>1, <2>2 DEF SetupInv
  <1>4. ASSUME NEW quantity \in Quantities, StartRound(quantity)  PROVE SetupInv'
    BY <1>4 DEF StartRound, SetupInv
  <1>5. ASSUME NEW content \in Samples, ReadRegister(content)  PROVE SetupInv'
    BY <1>5 DEF ReadRegister, SetupInv
  <1>6. CASE FinishRound
    BY <1>6 DEF FinishRound, SetupInv
  <1>7. CASE UNCHANGED vars
    BY <1>7 DEF vars, roundVars, SetupInv
  <1> QED  BY <1>2, <1>3, <1>4, <1>5, <1>6, <1>7 DEF Next

(* The sums of ten registers stay far below the wrap of an uint32_t, and    *)
(* every register of the chip within its 16 bits.                           *)
THEOREM TypeCorrect == Spec => []TypeOK
  <1>1. RoundInv /\ ResultInv /\ SetupInv => TypeOK
    <2> SUFFICES ASSUME RoundInv, ResultInv, SetupInv  PROVE TypeOK
      OBVIOUS
    <2>1. chip \in [{MODE, GAIN, LINECYC} -> 0 .. Largest16]
      BY SMT DEF SetupInv
    <2>2. Len(setup) <= 3
      <3>1. Len(setup) \in {0, 1, 2, 3}
        BY FramesDiffer DEF SetupInv
      <3> QED  BY SMT, <3>1
    <2>3. sum \in [Quantities -> 0 .. N * Largest24]
      <3>1. N \in Nat /\ N * Largest24 \in Nat /\ reads \in Nat /\ reads <= N
        BY SMT, SizeOfRegister DEF RoundInv, N
      <3>2. reads * Largest24 <= N * Largest24
        <4>1. Largest24 * reads <= Largest24 * N
          BY <3>1, SizeOfRegister, TimesMonotone
        <4> QED  BY SMT, <3>1, <4>1, SizeOfRegister
      <3>3. reads * Largest24 \in Int
        BY SMT, <3>1, SizeOfRegister
      <3>4. \A quantity \in Quantities :
               sum[quantity] \in Nat /\ sum[quantity] <= N * Largest24
        <4> SUFFICES ASSUME NEW quantity \in Quantities
                     PROVE  sum[quantity] \in Nat /\ sum[quantity] <= N * Largest24
          OBVIOUS
        <4>1. CASE quantity # round
          BY SMT, <3>1, <4>1 DEF RoundInv, MeanOfRound
        <4>2. CASE quantity = round
          <5>1. round # "none" /\ sum[round] \in Nat
            BY SMT, <4>2 DEF RoundInv, Quantities
          <5>2. sum[round] <= reads * Largest24
            BY <5>1 DEF RoundInv
          <5> QED  BY SMT, <3>1, <3>2, <3>3, <4>2, <5>1, <5>2
        <4> QED  BY <4>1, <4>2
      <3> QED  BY SMT, <3>1, <3>4 DEF RoundInv
    <2> QED  BY <2>1, <2>2, <2>3 DEF TypeOK, RoundInv, ResultInv, SetupInv
  <1> QED  BY <1>1, RoundInductive, SetupInit, SetupStep, PTL DEF Spec

(* No round is read from a chip that is set up in another way than          *)
(* ade7753_init meant, unless a transfer failed.                            *)
THEOREM Configured == Spec => []RunsConfigured
  <1>1. SetupInv => RunsConfigured
    <2> SUFFICES ASSUME SetupInv, round # "none", failures = 0
                 PROVE  chip[MODE] = 140 /\ chip[GAIN] = 0 /\ chip[LINECYC] = 120
      BY DEF RunsConfigured
    <2>1. setup = <<>> /\ setup # Frames
      BY FramesDiffer DEF SetupInv
    <2> QED  BY <2>1 DEF SetupInv
  <1> QED  BY <1>1, SetupInit, SetupStep, PTL DEF Spec
===============================================================================
