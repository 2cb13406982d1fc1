---------------------------- MODULE MeteringProofs ----------------------------
(****************************************************************************)
(* Proofs about Metering, for any set of sampling tasks, any number of      *)
(* reads, any queue length and any bound on the versions.                   *)
(****************************************************************************)
EXTENDS Metering, TLAPS

USE DEF Consumers

-------------------------------------------------------------------------------
(* What a version becomes is a version, and not an older one.               *)
LEMMA NextVersionType ==
    ASSUME NEW v \in Versions
    PROVE  NextVersion(v) \in Versions /\ v <= NextVersion(v)
BY ConstantsAssumption DEF Versions, NextVersion

(* Sending keeps a queue a queue and within its capacity.                   *)
LEMMA QueueSendType ==
    ASSUME NEW q \in Seq(Data_t), Len(q) <= QUEUE_LEN, NEW item \in Data_t
    PROVE  QueueSend(q, item) \in Seq(Data_t) /\ Len(QueueSend(q, item)) <= QUEUE_LEN
BY ConstantsAssumption DEF QueueSend

(* The initial state has its type. *)
LEMMA TypeInit == Init => TypeOK
<1> SUFFICES ASSUME Init PROVE TypeOK
    OBVIOUS
<1>1. \A m \in Meters : RoundReads(m) \in Nat \ {0}
    BY ConstantsAssumption DEF RoundReads
<1>2. 0 \in Versions
    BY ConstantsAssumption DEF Versions
<1>3. /\ queue \in [Consumers -> Seq(Data_t)]
      /\ \A c \in Consumers : Len(queue[c]) <= QUEUE_LEN
    BY ConstantsAssumption DEF Init
<1>4. /\ hand \in [Consumers -> {<<>>} \cup {<<item>> : item \in Data_t}]
      /\ shown \in [Consumers -> [Meters -> Versions]]
    BY <1>2 DEF Init
<1>5. reads \in [Meters -> Nat] /\ \A m \in Meters : reads[m] < RoundReads(m)
    BY <1>1 DEF Init
<1> QED
    BY <1>2, <1>3, <1>4, <1>5 DEF Init, TypeOK

(* The type invariant is inductive.                                         *)
LEMMA TypeStep == TypeOK /\ [Next]_vars => TypeOK'
<1> SUFFICES ASSUME TypeOK, [Next]_vars PROVE TypeOK'
    OBVIOUS
<1> USE DEF TypeOK
<1>r. \A m \in Meters : RoundReads(m) \in Nat \ {0}
    BY ConstantsAssumption DEF RoundReads
<1>1. ASSUME NEW m \in Meters, TakeSemaphore(m) PROVE TypeOK'
    BY <1>1 DEF TakeSemaphore, consumerVars
<1>2. ASSUME NEW m \in Meters, SpiTransmit(m) PROVE TypeOK'
    BY <1>2 DEF SpiTransmit, consumerVars
<1>3. ASSUME NEW m \in Meters, NEW ok \in BOOLEAN, StatusRead(m, ok) PROVE TypeOK'
    <2>1. m = "power" /\ RoundReads(m) = 2
        BY <1>3 DEF StatusRead, RoundReads
    <2> QED
        BY <1>3, <1>r, <2>1 DEF StatusRead, consumerVars
<1>4. ASSUME NEW m \in Meters, RegisterRead(m) PROVE TypeOK'
    <2>1. /\ reads' \in [Meters -> Nat]
          /\ \A n \in Meters : reads'[n] < RoundReads(n)
        <3>1. CASE reads[m] + 1 = RoundReads(m)
            <4>1. 0 < RoundReads(m)
                BY <1>r
            <4>2. reads' = [reads EXCEPT ![m] = 0]
                BY <1>4, <3>1 DEF RegisterRead
            <4> QED
                BY <4>1, <4>2
        <3>2. CASE reads[m] + 1 # RoundReads(m)
            <4>1. reads[m] + 1 < RoundReads(m)
                BY <1>r, <3>2
            <4>2. reads' = [reads EXCEPT ![m] = @ + 1]
                BY <1>4, <3>2 DEF RegisterRead
            <4> QED
                BY <4>1, <4>2
        <3> QED
            BY <3>1, <3>2
    <2>2. value' \in [Meters -> Versions]
        <3>1. NextVersion(value[m]) \in Versions
            BY NextVersionType
        <3> QED
            BY <1>4, <3>1 DEF RegisterRead
    <2> QED
        BY <1>4, <2>1, <2>2 DEF RegisterRead, consumerVars
<1>5. ASSUME NEW m \in Meters, GiveSemaphore(m) PROVE TypeOK'
    BY <1>5 DEF GiveSemaphore, consumerVars
<1>6. ASSUME NEW m \in Meters, SendData(m) PROVE TypeOK'
    <2>1. [id |-> m, data |-> value[m]] \in Data_t
        BY DEF Data_t
    <2>2. /\ queue' \in [Consumers -> Seq(Data_t)]
          /\ \A c \in Consumers : Len(queue'[c]) <= QUEUE_LEN
        BY <1>6, <2>1, QueueSendType DEF SendData
    <2> QED
        BY <1>6, <2>2 DEF SendData, consumerVars
<1>7. ASSUME NEW m \in Meters, SendDisplay(m) PROVE TypeOK'
    <2>1. [id |-> m, data |-> value[m]] \in Data_t
        BY DEF Data_t
    <2>2. /\ queue' \in [Consumers -> Seq(Data_t)]
          /\ \A c \in Consumers : Len(queue'[c]) <= QUEUE_LEN
        BY <1>7, <2>1, QueueSendType DEF SendDisplay
    <2> QED
        BY <1>7, <2>2 DEF SendDisplay, consumerVars
<1>8. ASSUME NEW m \in Meters, DelayOver(m) PROVE TypeOK'
    BY <1>8 DEF DelayOver, consumerVars
<1>9. ASSUME NEW c \in Consumers, Receive(c) PROVE TypeOK'
    <2>1. Head(queue[c]) \in Data_t /\ Tail(queue[c]) \in Seq(Data_t)
          /\ Len(Tail(queue[c])) <= QUEUE_LEN
        BY <1>9, ConstantsAssumption DEF Receive
    <2> QED
        BY <1>9, <2>1 DEF Receive, meterVars
<1>10. ASSUME NEW c \in Consumers, NEW known \in BOOLEAN, Consume(c, known)
       PROVE TypeOK'
    <2>1. Head(hand[c]) \in Data_t
        BY <1>10 DEF Consume
    <2>2. shown' \in [Consumers -> [Meters -> Versions]]
        BY <1>10, <2>1 DEF Consume, Data_t
    <2> QED
        BY <1>10, <2>2 DEF Consume, meterVars
<1>11. CASE LineCycleEnd
    BY <1>11 DEF LineCycleEnd, consumerVars
<1>12. CASE MqttEvent
    BY <1>12 DEF MqttEvent, meterVars
<1>13. CASE UNCHANGED vars
    BY <1>13 DEF vars, meterVars, consumerVars
<1> QED
    BY <1>1, <1>2, <1>3, <1>4, <1>5, <1>6, <1>7, <1>8, <1>9, <1>10, <1>11, <1>12,
       <1>13
    DEF Next, Sampler, Cloud, Display, SendDataToCloud, DisplayText

(* Every variable keeps its type, queues keep their capacity and read loops *)
(* their bound.                                                             *)
THEOREM TypeCorrect == Spec => []TypeOK
BY TypeInit, TypeStep, PTL DEF Spec
-------------------------------------------------------------------------------
(* Exclusive use of the device.  SpiExclusive says nothing of a task that   *)
(* took the semaphore and is between two reads, so it is strengthened: at   *)
(* most one task is between take and give, the semaphore is 0 while one is, *)
(* and only such a task is inside spi_device_transmit.                      *)
Holds(m) == pc[m] \in {"read", "transfer", "give"}

OneHolder ==
    /\ \A a, b \in Meters : Holds(a) /\ Holds(b) => a = b
    /\ \A a \in Meters : Holds(a) => xsema = 0
    /\ \A a \in spi : pc[a] = "transfer"

(* At the start no task holds the semaphore and it is free. *)
LEMMA HolderInit == Init => OneHolder
BY DEF Init, OneHolder, Holds

(* Only xSemaphoreTake makes a task the holder, and only when none is. *)
LEMMA HolderStep == TypeOK /\ OneHolder /\ [Next]_vars => OneHolder'
<1> SUFFICES ASSUME TypeOK, OneHolder, [Next]_vars PROVE OneHolder'
    OBVIOUS
<1> USE DEF OneHolder, Holds
<1>t. /\ pc \in [Meters -> {"take", "read", "transfer", "give",
                            "send_cloud", "send_display", "delay"}]
      /\ spi \subseteq Meters
    BY DEF TypeOK
<1>1. ASSUME NEW m \in Meters, TakeSemaphore(m) PROVE OneHolder'
    <2>1. \A a \in Meters : ~Holds(a)
        BY <1>1 DEF TakeSemaphore, SemaphoreFree
    <2> QED
        BY <1>1, <1>t, <2>1 DEF TakeSemaphore
<1>2. ASSUME NEW m \in Meters, SpiTransmit(m) PROVE OneHolder'
    BY <1>2, <1>t DEF SpiTransmit
<1>3. ASSUME NEW m \in Meters, NEW ok \in BOOLEAN, StatusRead(m, ok)
      PROVE  OneHolder'
    BY <1>3, <1>t DEF StatusRead
<1>4. ASSUME NEW m \in Meters, RegisterRead(m) PROVE OneHolder'
    <2>1. PICK next \in {"give", "read"} : pc' = [pc EXCEPT ![m] = next]
        BY <1>4 DEF RegisterRead
    <2> QED
        BY <1>4, <1>t, <2>1 DEF RegisterRead
<1>5. ASSUME NEW m \in Meters, GiveSemaphore(m) PROVE OneHolder'
    BY <1>5, <1>t DEF GiveSemaphore
<1>6. ASSUME NEW m \in Meters, SendData(m) PROVE OneHolder'
    BY <1>6, <1>t DEF SendData
<1>7. ASSUME NEW m \in Meters, SendDisplay(m) PROVE OneHolder'
    BY <1>7, <1>t DEF SendDisplay
<1>8. ASSUME NEW m \in Meters, DelayOver(m) PROVE OneHolder'
    BY <1>8, <1>t DEF DelayOver
<1>9. ASSUME UNCHANGED <<xsema, pc, spi>> PROVE OneHolder'
    BY <1>9
<1>10. (\E c \in Consumers : Receive(c)) => UNCHANGED <<xsema, pc, spi>>
    BY DEF Receive, meterVars
<1>11. SendDataToCloud \/ DisplayText => UNCHANGED <<xsema, pc, spi>>
    BY DEF SendDataToCloud, DisplayText, Consume, meterVars
<1>12. LineCycleEnd \/ MqttEvent \/ UNCHANGED vars => UNCHANGED <<xsema, pc, spi>>
    BY DEF LineCycleEnd, MqttEvent, vars, meterVars
<1> QED
    BY <1>1, <1>2, <1>3, <1>4, <1>5, <1>6, <1>7, <1>8, <1>9, <1>10, <1>11, <1>12
    DEF Next, Sampler, Cloud, Display

(* No two tasks use the ADE7753 device at once, and the one that does holds *)
(* xsema_handle.                                                            *)
THEOREM DeviceExclusive == Spec => []SpiExclusive
<1>1. TypeOK /\ OneHolder => SpiExclusive
    BY DEF OneHolder, Holds, SpiExclusive, TypeOK
<1> QED
    BY <1>1, TypeInit, TypeStep, HolderInit, HolderStep, PTL DEF Spec
-------------------------------------------------------------------------------
(* Order.  InOrder is inductive together with TypeOK and the fact that a    *)
(* consumer with an empty pipe shows nothing newer than what was measured.  *)
ShownMeasured == \A c \in Consumers, m \in Meters : shown[c][m] <= value[m]

(* What the queue operations do to an ordered pipe.                         *)
LEMMA OrderedAppend ==
    ASSUME NEW p \in Seq(Data_t), NEW s \in [Meters -> Versions],
           NEW v \in [Meters -> Versions], NEW m \in Meters,
           Ordered(p, s, v), s[m] <= v[m]
    PROVE  Ordered(Append(p, [id |-> m, data |-> v[m]]), s, v)
<1> DEFINE x == [id |-> m, data |-> v[m]]
           q == Append(p, x)
<1>1. x \in Data_t /\ x.id = m /\ x.data = v[m]
    BY DEF Data_t
<1>2. /\ Len(q) = Len(p) + 1 /\ q[Len(p) + 1] = x
      /\ \A i \in 1 .. Len(p) : q[i] = p[i] /\ p[i] \in Data_t
    BY <1>1
<1>3. \A n \in Meters : v[n] \in Nat /\ s[n] \in Nat
    BY ConstantsAssumption DEF Versions
<1> SUFFICES ASSUME NEW i \in 1 .. Len(q)
             PROVE  /\ s[q[i].id] <= q[i].data
                    /\ q[i].data <= v[q[i].id]
                    /\ \A j \in 1 .. i : q[j].id = q[i].id => q[j].data <= q[i].data
    BY DEF Ordered
<1> HIDE DEF x, q
<1>4. CASE i \in 1 .. Len(p)
    BY <1>2, <1>4 DEF Ordered
<1>5. CASE i = Len(p) + 1
    <2>1. q[i].id = m /\ q[i].data = v[m]
        BY <1>1, <1>2, <1>5
    <2>2. ASSUME NEW j \in 1 .. i, q[j].id = m PROVE q[j].data <= v[m]
        <3>1. CASE j \in 1 .. Len(p)
            BY <1>2, <2>2, <3>1 DEF Ordered
        <3>2. CASE j = Len(p) + 1
            BY <1>3, <1>5, <2>1, <3>2
        <3> QED
            BY <1>5, <3>1, <3>2
    <2> QED
        BY <1>3, <2>1, <2>2
<1> QED
    BY <1>2, <1>4, <1>5

(* A new measurement, newer than all others, keeps what is on its way in order. *)
LEMMA OrderedNewer ==
    ASSUME NEW p \in Seq(Data_t), NEW s \in [Meters -> Versions],
           NEW v \in [Meters -> Versions], NEW w \in [Meters -> Versions],
           Ordered(p, s, v), \A m \in Meters : v[m] <= w[m]
    PROVE  Ordered(p, s, w)
<1>1. \A i \in 1 .. Len(p) : p[i].id \in Meters /\ p[i].data \in Nat
    <2>1. \A x \in Data_t : x.id \in Meters /\ x.data \in Nat
        BY ConstantsAssumption DEF Data_t, Versions
    <2>2. \A i \in 1 .. Len(p) : p[i] \in Data_t
        OBVIOUS
    <2> QED
        BY <2>1, <2>2
<1>2. \A n \in Meters : v[n] \in Nat /\ w[n] \in Nat
    BY ConstantsAssumption DEF Versions
<1> QED
    BY <1>1, <1>2 DEF Ordered

(* Receiving an item keeps the rest in order, and the item is not older than what is shown. *)
LEMMA OrderedTail ==
    ASSUME NEW p \in Seq(Data_t), p # <<>>, NEW s \in [Meters -> Versions],
           NEW v \in [Meters -> Versions], Ordered(p, s, v)
    PROVE  /\ Ordered(Tail(p), s, v)
           /\ Ordered(Tail(p), [s EXCEPT ![Head(p).id] = Head(p).data], v)
           /\ s[Head(p).id] <= Head(p).data /\ Head(p).data <= v[Head(p).id]
<1> DEFINE q == Tail(p)
           t == [s EXCEPT ![Head(p).id] = Head(p).data]
<1>1. /\ Head(p) = p[1] /\ p[1] \in Data_t
      /\ \A i \in 1 .. Len(q) : i + 1 \in 1 .. Len(p) /\ q[i] = p[i + 1]
                                /\ p[i + 1] \in Data_t
    OBVIOUS
<1>2. ASSUME NEW i \in 1 .. Len(q)
      PROVE  /\ s[q[i].id] <= q[i].data
             /\ q[i].data <= v[q[i].id]
             /\ q[i].id = p[1].id => p[1].data <= q[i].data
             /\ \A j \in 1 .. i : q[j].id = q[i].id => q[j].data <= q[i].data
    <2>1. i + 1 \in 1 .. Len(p) /\ 1 \in 1 .. i + 1 /\ q[i] = p[i + 1]
        BY <1>1
    <2>2. \A j \in 1 .. i : j + 1 \in 1 .. i + 1 /\ q[j] = p[j + 1]
        BY <1>1
    <2> HIDE DEF q
    <2> QED
        BY <2>1, <2>2 DEF Ordered
<1>3. \A i \in 1 .. Len(q) : q[i].id \in Meters
    BY <1>1 DEF Data_t
<1>4. \A n \in Meters : t[n] = IF n = p[1].id THEN p[1].data ELSE s[n]
    BY <1>1 DEF Data_t
<1>5. s[p[1].id] <= p[1].data /\ p[1].data <= v[p[1].id]
    <2>1. 1 \in 1 .. Len(p)
        OBVIOUS
    <2> QED
        BY <2>1 DEF Ordered
<1> HIDE DEF q, t
<1>6. Ordered(q, s, v) /\ Ordered(q, t, v)
    BY <1>2, <1>3, <1>4 DEF Ordered
<1> QED
    BY <1>1, <1>5, <1>6 DEF q, t
(* What is on its way to a consumer is a sequence of items. *)
LEMMA PipeType ==
    ASSUME TypeOK, NEW c \in Consumers
    PROVE  /\ hand[c] \in Seq(Data_t) /\ queue[c] \in Seq(Data_t)
           /\ Pipe(c) \in Seq(Data_t)
<1>1. /\ queue[c] \in Seq(Data_t)
      /\ hand[c] \in {<<>>} \cup {<<item>> : item \in Data_t}
    BY DEF TypeOK
<1>2. CASE hand[c] = <<>>
    BY <1>1, <1>2 DEF Pipe
<1>3. ASSUME NEW item \in Data_t, hand[c] = <<item>>
      PROVE  hand[c] \in Seq(Data_t) /\ Pipe(c) \in Seq(Data_t)
    BY <1>1, <1>3 DEF Pipe
<1> QED
    BY <1>1, <1>2, <1>3

(* An item sent to a queue comes last of all that is on its way. *)
LEMMA ConcatAppend ==
    ASSUME NEW p \in Seq(Data_t), NEW q \in Seq(Data_t), NEW x \in Data_t
    PROVE  p \o Append(q, x) = Append(p \o q, x)
<1> DEFINE l == p \o Append(q, x)
           r == Append(p \o q, x)
<1>1. l \in Seq(Data_t) /\ r \in Seq(Data_t)
    OBVIOUS
<1>2. Len(l) = Len(r) /\ Len(r) = Len(p) + Len(q) + 1
    OBVIOUS
<1>3. ASSUME NEW i \in 1 .. Len(p) + Len(q) + 1 PROVE l[i] = r[i]
    <2>1. CASE i <= Len(p)
        BY <2>1
    <2>2. CASE i > Len(p) /\ i <= Len(p) + Len(q)
        BY <2>2
    <2>3. CASE i = Len(p) + Len(q) + 1
        BY <2>3
    <2> QED
        BY <2>1, <2>2, <2>3
<1> HIDE DEF l, r
<1>4. l = r
    BY <1>1, <1>2, <1>3
<1> QED
    BY <1>4 DEF l, r

(* Nothing is on its way at the start. *)
LEMMA OrderInit == Init => InOrder /\ ShownMeasured
<1> SUFFICES ASSUME Init PROVE InOrder /\ ShownMeasured
    OBVIOUS
<1>1. \A c \in Consumers : Pipe(c) = <<>>
    BY DEF Init, Pipe
<1> QED
    BY <1>1 DEF Init, InOrder, ShownMeasured, Ordered

(* Both sends, to the queue of the consumer c.                              *)
LEMMA SendKeepsOrder ==
    ASSUME TypeOK, InOrder, ShownMeasured, NEW c \in Consumers, NEW m \in Meters,
           queue' = [queue EXCEPT ![c] = QueueSend(@, [id |-> m, data |-> value[m]])],
           UNCHANGED <<value, hand, shown>>
    PROVE  InOrder' /\ ShownMeasured'
<1> DEFINE item == [id |-> m, data |-> value[m]]
<1>1. item \in Data_t
    BY DEF TypeOK, Data_t
<1>2. ShownMeasured'
    BY DEF ShownMeasured
<1>3. ASSUME NEW d \in Consumers PROVE Ordered(Pipe(d)', shown[d], value)
    <2>1. Ordered(Pipe(d), shown[d], value) /\ Pipe(d) \in Seq(Data_t)
        BY PipeType DEF InOrder
    <2>2. CASE d # c \/ Len(queue[c]) >= QUEUE_LEN
        <3>1. queue'[d] = queue[d]
            BY <2>2, ConstantsAssumption DEF TypeOK, QueueSend
        <3> QED
            BY <2>1, <3>1 DEF Pipe
    <2>3. CASE d = c /\ Len(queue[c]) < QUEUE_LEN
        <3>1. queue'[d] = Append(queue[d], item)
            BY <2>3 DEF TypeOK, QueueSend
        <3>2. queue[d] \in Seq(Data_t) /\ hand[d] \in Seq(Data_t)
            BY PipeType
        <3>3. Pipe(d)' = Append(Pipe(d), item)
            <4> HIDE DEF item
            <4>1. hand[d] \o Append(queue[d], item) = Append(hand[d] \o queue[d], item)
                BY <1>1, <3>2, ConcatAppend
            <4> QED
                BY <3>1, <4>1 DEF Pipe
        <3>4. shown[d][m] <= value[m]
            BY DEF ShownMeasured
        <3>5. shown[d] \in [Meters -> Versions] /\ value \in [Meters -> Versions]
            BY DEF TypeOK
        <3> QED
            BY <2>1, <3>3, <3>4, <3>5, OrderedAppend
    <2>4. queue[c] \in Seq(Data_t)
        BY DEF TypeOK
    <2> QED
        BY <2>2, <2>3, <2>4, ConstantsAssumption
<1> QED
    BY <1>2, <1>3 DEF InOrder

(* Every send, receive, drop and measurement keeps the order of the two paths. *)
LEMMA OrderStep ==
    TypeOK /\ InOrder /\ ShownMeasured /\ [Next]_vars => InOrder' /\ ShownMeasured'
<1> SUFFICES ASSUME TypeOK, InOrder, ShownMeasured, [Next]_vars
             PROVE  InOrder' /\ ShownMeasured'
    OBVIOUS
<1>t. /\ value \in [Meters -> Versions]
      /\ shown \in [Consumers -> [Meters -> Versions]]
      /\ hand \in [Consumers -> {<<>>} \cup {<<item>> : item \in Data_t}]
      /\ queue \in [Consumers -> Seq(Data_t)]
    BY DEF TypeOK
<1>1. ASSUME UNCHANGED <<value, queue, hand, shown>>
      PROVE  InOrder' /\ ShownMeasured'
    BY <1>1 DEF InOrder, ShownMeasured, Pipe
<1>2. ASSUME NEW m \in Meters, RegisterRead(m) PROVE InOrder' /\ ShownMeasured'
    <2>1. /\ value' \in [Meters -> Versions]
          /\ \A n \in Meters : value[n] <= value'[n]
        <3>1. NextVersion(value[m]) \in Versions /\ value[m] <= NextVersion(value[m])
            BY <1>t, NextVersionType
        <3>2. \A v \in Versions : v <= v
            BY ConstantsAssumption DEF Versions
        <3> QED
            BY <1>2, <1>t, <3>1, <3>2 DEF RegisterRead
    <2>2. UNCHANGED <<queue, hand, shown>>
        BY <1>2 DEF RegisterRead, consumerVars
    <2>3. \A c \in Consumers : Ordered(Pipe(c), shown[c], value')
        <3> SUFFICES ASSUME NEW c \in Consumers
                     PROVE  Ordered(Pipe(c), shown[c], value')
            OBVIOUS
        <3>1. /\ Ordered(Pipe(c), shown[c], value) /\ Pipe(c) \in Seq(Data_t)
              /\ shown[c] \in [Meters -> Versions]
            BY <1>t, PipeType DEF InOrder
        <3> QED
            BY <1>t, <2>1, <3>1, OrderedNewer
    <2>4. ShownMeasured'
        <3>1. \A c \in Consumers, n \in Meters :
                 shown[c][n] \in Nat /\ value[n] \in Nat /\ value'[n] \in Nat
            BY <1>t, <2>1, ConstantsAssumption DEF Versions
        <3> QED
            BY <2>1, <2>2, <3>1 DEF ShownMeasured
    <2> QED
        BY <2>2, <2>3, <2>4 DEF InOrder, Pipe
<1>3. ASSUME NEW m \in Meters, SendData(m) \/ SendDisplay(m)
      PROVE  InOrder' /\ ShownMeasured'
    BY <1>3, SendKeepsOrder DEF SendData, SendDisplay, consumerVars
<1>4. ASSUME NEW c \in Consumers, Receive(c) PROVE InOrder' /\ ShownMeasured'
    <2>1. \A d \in Consumers : Pipe(d)' = Pipe(d)
        <3>1. \A d \in Consumers \ {c} : hand'[d] = hand[d] /\ queue'[d] = queue[d]
            BY <1>4, <1>t DEF Receive
        <3>2. /\ hand[c] = <<>> /\ hand'[c] = <<Head(queue[c])>>
              /\ queue[c] # <<>> /\ queue'[c] = Tail(queue[c])
              /\ queue[c] \in Seq(Data_t)
            BY <1>4, <1>t DEF Receive
        <3>3. Pipe(c)' = Pipe(c)
            BY <3>2 DEF Pipe
        <3> QED
            BY <3>1, <3>3 DEF Pipe
    <2> QED
        BY <1>4, <2>1 DEF Receive, meterVars, InOrder, ShownMeasured
<1>5. ASSUME NEW c \in Consumers, NEW known \in BOOLEAN, Consume(c, known)
      PROVE  InOrder' /\ ShownMeasured'
    <2> DEFINE p == Pipe(c)
    <2>1. /\ p \in Seq(Data_t) /\ p # <<>>
          /\ Head(p) = Head(hand[c]) /\ Head(p) \in Data_t
          /\ Pipe(c)' = Tail(p)
        <3>1. PICK item \in Data_t : hand[c] = <<item>>
            BY <1>5, <1>t DEF Consume
        <3>2. hand'[c] = <<>> /\ queue'[c] = queue[c] /\ queue[c] \in Seq(Data_t)
            BY <1>5, <1>t DEF Consume
        <3> QED
            BY <3>1, <3>2 DEF Pipe
    <2>2. \A d \in Consumers \ {c} : Pipe(d)' = Pipe(d) /\ shown'[d] = shown[d]
        BY <1>5, <1>t DEF Consume, Pipe
    <2>3. UNCHANGED value
        BY <1>5 DEF Consume, meterVars
    <2>4. Ordered(p, shown[c], value)
        BY DEF InOrder
    <2>5. shown[c] \in [Meters -> Versions]
        BY <1>t
    <2>6. shown'[c] \in {shown[c], [shown[c] EXCEPT ![Head(p).id] = Head(p).data]}
        BY <1>5, <1>t, <2>1 DEF Consume
    <2> HIDE DEF p
    <2>7. /\ Ordered(Tail(p), shown'[c], value)
          /\ Head(p).data <= value[Head(p).id]
        <3>1. /\ Ordered(Tail(p), shown[c], value)
              /\ Ordered(Tail(p), [shown[c] EXCEPT ![Head(p).id] = Head(p).data], value)
              /\ Head(p).data <= value[Head(p).id]
            BY <1>t, <2>1, <2>4, <2>5, OrderedTail
        <3> QED
            BY <2>6, <3>1
    <2>8. \A m \in Meters : shown'[c][m] <= value[m]
        BY <2>5, <2>6, <2>7 DEF ShownMeasured
    <2> QED
        BY <2>1, <2>2, <2>3, <2>7, <2>8 DEF InOrder, ShownMeasured
<1>6. ASSUME NEW m \in Meters,
             \/ TakeSemaphore(m) \/ SpiTransmit(m) \/ GiveSemaphore(m)
             \/ DelayOver(m) \/ \E ok \in BOOLEAN : StatusRead(m, ok)
      PROVE  UNCHANGED <<value, queue, hand, shown>>
    BY <1>6 DEF TakeSemaphore, SpiTransmit, GiveSemaphore, DelayOver, StatusRead,
                consumerVars
<1>7. LineCycleEnd \/ MqttEvent \/ UNCHANGED vars
         => UNCHANGED <<value, queue, hand, shown>>
    BY DEF LineCycleEnd, MqttEvent, vars, meterVars, consumerVars
<1>8. CASE SendDataToCloud \/ DisplayText
    <2>1. client_g \in BOOLEAN
        BY DEF TypeOK
    <2> QED
        BY <1>5, <1>8, <2>1 DEF SendDataToCloud, DisplayText
<1> QED
    BY <1>1, <1>2, <1>3, <1>4, <1>6, <1>7, <1>8 DEF Next, Sampler, Cloud, Display

(* What a consumer has still to show is in the order of the measurements,   *)
(* for every quantity, however many tasks share its queue and whatever a    *)
(* full queue refused.                                                      *)
THEOREM PipesInOrder == Spec => []InOrder
BY TypeInit, TypeStep, OrderInit, OrderStep, PTL DEF Spec
-------------------------------------------------------------------------------
(* Both consumers implement SampleFeed.  A round that ends is a Measure, an *)
(* item that a consumer deals with a Show; everything else stutters.        *)
FeedStep(c) ==
    \/ UNCHANGED <<value, shown[c]>>
    \/ /\ \E m \in Meters : value' = [value EXCEPT ![m] = NextVersion(@)]
       /\ UNCHANGED shown[c]
    \/ /\ \E m \in Meters : \E v \in Versions :
             /\ shown[c][m] <= v /\ v <= value[m]
             /\ shown'[c] = [shown[c] EXCEPT ![m] = v]
       /\ UNCHANGED value

(* Every step of the firmware is a step of SampleFeed, or a stutter, for either consumer. *)
LEMMA StepsFeed ==
    ASSUME TypeOK, InOrder, [Next]_vars, NEW c \in Consumers
    PROVE  FeedStep(c)
<1>1. ASSUME NEW m \in Meters, Sampler(m) PROVE FeedStep(c)
    <2>1. UNCHANGED shown
        BY <1>1 DEF Sampler, TakeSemaphore, SpiTransmit, StatusRead, RegisterRead,
                    GiveSemaphore, SendData, SendDisplay, DelayOver, consumerVars
    <2>2. UNCHANGED value \/ value' = [value EXCEPT ![m] = NextVersion(@)]
        BY <1>1 DEF Sampler, TakeSemaphore, SpiTransmit, StatusRead, RegisterRead,
                    GiveSemaphore, SendData, SendDisplay, DelayOver
    <2> QED
        BY <2>1, <2>2 DEF FeedStep
<1>2. ASSUME NEW d \in Consumers, NEW known \in BOOLEAN, Consume(d, known)
      PROVE  FeedStep(c)
    <2>1. UNCHANGED value
        BY <1>2 DEF Consume, meterVars
    <2>2. CASE d # c \/ ~known
        <3>1. UNCHANGED shown[c]
            BY <1>2, <2>2 DEF Consume, TypeOK
        <3> QED
            BY <2>1, <3>1 DEF FeedStep
    <2>3. CASE d = c /\ known
        <3> DEFINE item == Head(hand[c])
        <3>1. PICK x \in Data_t : hand[c] = <<x>>
            BY <1>2, <2>3 DEF Consume, TypeOK
        <3>2. item = x /\ Pipe(c) # <<>> /\ Head(Pipe(c)) = x
            <4>1. queue[c] \in Seq(Data_t)
                BY DEF TypeOK
            <4> QED
                BY <3>1, <4>1 DEF Pipe
        <3>3. shown[c] \in [Meters -> Versions] /\ value \in [Meters -> Versions]
            BY DEF TypeOK
        <3>4. Pipe(c) \in Seq(Data_t) /\ Ordered(Pipe(c), shown[c], value)
            BY PipeType DEF InOrder
        <3>5. shown[c][x.id] <= x.data /\ x.data <= value[x.id]
            BY <3>2, <3>3, <3>4, OrderedTail
        <3>6. shown'[c] = [shown[c] EXCEPT ![x.id] = x.data]
            BY <1>2, <2>3, <3>2 DEF Consume, TypeOK
        <3>7. x.id \in Meters /\ x.data \in Versions
            BY DEF Data_t
        <3> QED
            BY <2>1, <3>5, <3>6, <3>7 DEF FeedStep
    <2> QED
        BY <2>2, <2>3
<1>3. (\E d \in Consumers : Receive(d)) \/ LineCycleEnd \/ MqttEvent \/ UNCHANGED vars
         => FeedStep(c)
    BY DEF Receive, LineCycleEnd, MqttEvent, vars, meterVars, consumerVars, FeedStep
<1>4. SendDataToCloud \/ DisplayText => FeedStep(c)
    <2>1. client_g \in BOOLEAN
        BY DEF TypeOK
    <2> QED
        BY <1>2, <2>1 DEF SendDataToCloud, DisplayText
<1> QED
    BY <1>1, <1>3, <1>4 DEF Next, Cloud, Display

(* The OLED shows measured values and never goes back to an older one.      *)
THEOREM DisplayImplementsFeed == Spec => DisplayFeedSpec
<1>1. Init => DisplayFeed!Init
    BY DEF Init, DisplayFeed!Init
<1>2. TypeOK /\ InOrder /\ [Next]_vars
         => [DisplayFeed!Next]_<<value, shown["display"]>>
    <2> SUFFICES ASSUME TypeOK, InOrder, [Next]_vars
                 PROVE  DisplayFeed!Next \/ UNCHANGED <<value, shown["display"]>>
        OBVIOUS
    <2>1. FeedStep("display")
        BY StepsFeed
    <2> QED
        BY <2>1 DEF FeedStep, DisplayFeed!Next, DisplayFeed!Measure, DisplayFeed!Show,
           DisplayFeed!NextVersion, DisplayFeed!Versions, NextVersion, Versions
<1> QED
    BY <1>1, <1>2, TypeInit, TypeStep, OrderInit, OrderStep, PTL
    DEF Spec, DisplayFeedSpec, DisplayFeed!Spec

(* MQTT is handed measured values, never one older than before.             *)
THEOREM CloudImplementsFeed == Spec => CloudFeedSpec
<1>1. Init => CloudFeed!Init
    BY DEF Init, CloudFeed!Init
<1>2. TypeOK /\ InOrder /\ [Next]_vars
         => [CloudFeed!Next]_<<value, shown["cloud"]>>
    <2> SUFFICES ASSUME TypeOK, InOrder, [Next]_vars
                 PROVE  CloudFeed!Next \/ UNCHANGED <<value, shown["cloud"]>>
        OBVIOUS
    <2>1. FeedStep("cloud")
        BY StepsFeed
    <2> QED
        BY <2>1 DEF FeedStep, CloudFeed!Next, CloudFeed!Measure, CloudFeed!Show,
           CloudFeed!NextVersion, CloudFeed!Versions, NextVersion, Versions
<1> QED
    BY <1>1, <1>2, TypeInit, TypeStep, OrderInit, OrderStep, PTL
    DEF Spec, CloudFeedSpec, CloudFeed!Spec
===============================================================================
