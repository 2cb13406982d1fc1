------------------------------- MODULE Metering -------------------------------
(****************************************************************************)
(* The measuring pipeline of main.c: three sampling tasks that share the    *)
(* ADE7753 on one SPI device under the binary semaphore xsema_handle, and   *)
(* two consumers, send_to_cloud_task and display_task, each fed through a   *)
(* FreeRTOS queue of its own (data_queue, displaying_queue).                *)
(*                                                                          *)
(* A measurement is its version: the n-th value that a sampling task stored *)
(* in irms, vrms or at_power.  Registers and conversions are abstracted     *)
(* from; what is kept is who touches the device and the queues, and when.   *)
(****************************************************************************)
EXTENDS Naturals, Sequences

CONSTANTS
    Meters,      \* the sampling tasks, named by the quantity (ID_e) they measure
    READS,       \* register reads per RMS value (10 in get_IRMS, get_VRMS)
    QUEUE_LEN,   \* capacity of data_queue and displaying_queue (10)
    MaxSample    \* bound: versions from MaxSample on are not told apart

ASSUME ConstantsAssumption ==
    /\ Meters \subseteq {"irms", "vrms", "power"}
    /\ READS \in Nat \ {0}
    /\ QUEUE_LEN \in Nat \ {0}
    /\ MaxSample \in Nat \ {0}

Consumers == {"cloud", "display"}        \* send_to_cloud_task, display_task

Versions == 0 .. MaxSample
Data_t   == [id : Meters, data : Versions]

VARIABLES
    xsema,      \* count of xsema_handle, a binary semaphore
    pc,         \* where each sampling task stands
    reads,      \* register reads done in the current round of each task
    spi,        \* tasks inside spi_device_transmit
    cycend,     \* CYCEND in STATUS: set at a line-cycle end, never cleared
    value,      \* version held by the globals irms, vrms, at_power
    queue,      \* data_queue (cloud) and displaying_queue (display)
    hand,       \* data_dequeue of each consumer: <<>> once it is dealt with
    shown,      \* last version of each quantity handed to MQTT / put on the OLED
    client_g    \* TRUE once an MQTT event has set client_g

meterVars    == <<xsema, pc, reads, spi, cycend, value>>
consumerVars == <<hand, shown, client_g>>
vars         == <<meterVars, queue, consumerVars>>

-------------------------------------------------------------------------------
(* Register reads a round takes: READS for the RMS values; for the energy,  *)
(* the last STATUS read and the LAENERGY read.                              *)
RoundReads(m) == IF m = "power" THEN 2 ELSE READS

NextVersion(v) == IF v < MaxSample THEN v + 1 ELSE v

(* Mutant: the loop test on CYCEND is inverted.                             *)
CycendInverted(ok) == ok /\ ~cycend

(* A read that failed on the bus returns 0, in which CYCEND is not set.     *)
CycendSeen(ok) == ok /\ cycend

(* Mutant: the result of xSemaphoreTake is not looked at.                   *)
TakeUnchecked == TRUE

(* xSemaphoreTake(xsema_handle, 0) succeeds.                                *)
SemaphoreFree == xsema = 1

(* Mutant: xQueueSendToFront in the place of xQueueSend.                    *)
SendToFront(q, item) == IF Len(q) < QUEUE_LEN THEN <<item>> \o q ELSE q

(* xQueueSend with no waiting: a full queue refuses the new item.           *)
QueueSend(q, item) == IF Len(q) < QUEUE_LEN THEN Append(q, item) ELSE q

-------------------------------------------------------------------------------
Init ==
    /\ xsema = 1
    /\ pc = [m \in Meters |-> "take"]
    /\ reads = [m \in Meters |-> 0]
    /\ spi = {}
    /\ cycend = FALSE
    /\ value = [m \in Meters |-> 0]
    /\ queue = [c \in Consumers |-> <<>>]
    /\ hand = [c \in Consumers |-> <<>>]
    /\ shown = [c \in Consumers |-> [m \in Meters |-> 0]]
    /\ client_g = FALSE

(* Sampling tasks.  A failed take polls again: it changes nothing.          *)
TakeSemaphore(m) ==
    /\ pc[m] = "take"
    /\ SemaphoreFree
    /\ xsema' = 0
    /\ pc' = [pc EXCEPT ![m] = "read"]
    /\ UNCHANGED <<reads, spi, cycend, value, queue, consumerVars>>

SpiTransmit(m) ==
    /\ pc[m] = "read"
    /\ pc' = [pc EXCEPT ![m] = "transfer"]
    /\ spi' = spi \cup {m}
    /\ UNCHANGED <<xsema, reads, cycend, value, queue, consumerVars>>

(* The energy task reads STATUS until it finds CYCEND set.                  *)
StatusRead(m, ok) ==
    /\ pc[m] = "transfer" /\ m = "power" /\ reads[m] = 0
    /\ pc' = [pc EXCEPT ![m] = "read"]
    /\ spi' = spi \ {m}
    /\ reads' = [reads EXCEPT ![m] = IF CycendSeen(ok) THEN 1 ELSE 0]
    /\ UNCHANGED <<xsema, cycend, value, queue, consumerVars>>

(* Mutant: the loop runs once too often (i <= 10).                          *)
ReadOnceTooOften(m) ==
    /\ pc[m] = "transfer" /\ ~(m = "power" /\ reads[m] = 0)
    /\ spi' = spi \ {m}
    /\ IF reads[m] = RoundReads(m)
          THEN /\ value' = [value EXCEPT ![m] = NextVersion(@)]
               /\ pc' = [pc EXCEPT ![m] = "give"]
               /\ reads' = [reads EXCEPT ![m] = 0]
          ELSE /\ pc' = [pc EXCEPT ![m] = "read"]
               /\ reads' = [reads EXCEPT ![m] = @ + 1]
               /\ UNCHANGED value
    /\ UNCHANGED <<xsema, cycend, queue, consumerVars>>

(* IRMS, VRMS or LAENERGY was read, or the read failed and counts as 0; the *)
(* last read of a round stores the new value in its global.                 *)
RegisterRead(m) ==
    /\ pc[m] = "transfer" /\ ~(m = "power" /\ reads[m] = 0)
    /\ spi' = spi \ {m}
    /\ IF reads[m] + 1 = RoundReads(m)
          THEN /\ value' = [value EXCEPT ![m] = NextVersion(@)]
               /\ pc' = [pc EXCEPT ![m] = "give"]
               /\ reads' = [reads EXCEPT ![m] = 0]
          ELSE /\ pc' = [pc EXCEPT ![m] = "read"]
               /\ reads' = [reads EXCEPT ![m] = @ + 1]
               /\ UNCHANGED value
    /\ UNCHANGED <<xsema, cycend, queue, consumerVars>>

GiveSemaphore(m) ==
    /\ pc[m] = "give"
    /\ xsema' = 1
    /\ pc' = [pc EXCEPT ![m] = "send_cloud"]
    /\ UNCHANGED <<reads, spi, cycend, value, queue, consumerVars>>

(* data_q is filled from the global after the semaphore was given back.     *)
SendData(m) ==
    /\ pc[m] = "send_cloud"
    /\ queue' = [queue EXCEPT !["cloud"] =
                    QueueSend(@, [id |-> m, data |-> value[m]])]
    /\ pc' = [pc EXCEPT ![m] = "send_display"]
    /\ UNCHANGED <<xsema, reads, spi, cycend, value, consumerVars>>

SendDisplay(m) ==
    /\ pc[m] = "send_display"
    /\ queue' = [queue EXCEPT !["display"] =
                    QueueSend(@, [id |-> m, data |-> value[m]])]
    /\ pc' = [pc EXCEPT ![m] = "delay"]
    /\ UNCHANGED <<xsema, reads, spi, cycend, value, consumerVars>>

DelayOver(m) ==
    /\ pc[m] = "delay"
    /\ pc' = [pc EXCEPT ![m] = "take"]
    /\ UNCHANGED <<xsema, reads, spi, cycend, value, queue, consumerVars>>

(* The ADE7753 ends a line cycle: CYCEND goes up and, as only STATUS and    *)
(* never RSTSTATUS is read, stays up.                                       *)
LineCycleEnd ==
    /\ ~cycend
    /\ cycend' = TRUE
    /\ UNCHANGED <<xsema, pc, reads, spi, value, queue, consumerVars>>

(* Consumers.  display_task waits for an item; send_to_cloud_task looks every *)
(* tick and does nothing when the queue is empty.                           *)
Receive(c) ==
    /\ hand[c] = <<>> /\ queue[c] # <<>>
    /\ hand' = [hand EXCEPT ![c] = <<Head(queue[c])>>]
    /\ queue' = [queue EXCEPT ![c] = Tail(@)]
    /\ UNCHANGED <<meterVars, shown, client_g>>

(* Dispatch on the item's id: its topic for MQTT, its row on the OLED.      *)
Consume(c, known) ==
    /\ hand[c] # <<>>
    /\ LET item == Head(hand[c])
       IN  shown' = IF known THEN [shown EXCEPT ![c][item.id] = item.data] ELSE shown
    /\ hand' = [hand EXCEPT ![c] = <<>>]
    /\ UNCHANGED <<meterVars, queue, client_g>>

(* Mutants: two ids share a topic or a row; the test of client_g is         *)
(* inverted; an id has no row.                                              *)
Misfile(c, m) ==
    /\ hand[c] # <<>>
    /\ shown' = [shown EXCEPT ![c][m] = Head(hand[c]).data]
    /\ hand' = [hand EXCEPT ![c] = <<>>]
    /\ UNCHANGED <<meterVars, queue, client_g>>
MisfileToCloud      == client_g /\ Misfile("cloud", "irms")
MisfileOnDisplay    == Misfile("display", "irms")
SendWithoutClient   == Consume("cloud", ~client_g)
DisplayWithoutPower == Consume("display", Head(hand["display"]).id # "power")

(* Without a client the item is dropped.                                    *)
SendDataToCloud == Consume("cloud", client_g)

DisplayText == Consume("display", TRUE)

(* Any MQTT event stores the client handle; nothing ever clears it.         *)
MqttEvent ==
    /\ ~client_g
    /\ client_g' = TRUE
    /\ UNCHANGED <<meterVars, queue, hand, shown>>

-------------------------------------------------------------------------------
Sampler(m) ==
    \/ TakeSemaphore(m)
    \/ SpiTransmit(m)
    \/ \E ok \in BOOLEAN : StatusRead(m, ok)
    \/ RegisterRead(m)
    \/ GiveSemaphore(m)
    \/ SendData(m)
    \/ SendDisplay(m)
    \/ DelayOver(m)

Cloud   == Receive("cloud") \/ SendDataToCloud
Display == Receive("display") \/ DisplayText

Next ==
    \/ \E m \in Meters : Sampler(m)
    \/ Cloud
    \/ Display
    \/ LineCycleEnd
    \/ MqttEvent

Spec == Init /\ [][Next]_vars

-------------------------------------------------------------------------------
(* Fairness.  The tasks are equal in priority and the tick interrupt slices *)
(* time between them, so a task that can go on does.  A poll of the         *)
(* semaphore needs more: it must meet the semaphore free, which the 200     *)
(* ticks every task sleeps after giving it make sure of.  The hardware ends *)
(* a line cycle, and a STATUS read that is repeated for ever succeeds at    *)
(* some time.  Nothing is assumed of send_to_cloud_task: a publish may      *)
(* block for as long as the network likes.                                  *)
SamplerFairness(m) ==
    /\ SF_vars(TakeSemaphore(m))
    /\ SF_vars(StatusRead(m, TRUE))
    /\ WF_vars(Sampler(m))

LiveSpec ==
    /\ Spec
    /\ \A m \in Meters : SamplerFairness(m)
    /\ WF_vars(Display)
    /\ WF_vars(LineCycleEnd)

-------------------------------------------------------------------------------
TypeOK ==
    /\ xsema \in {0, 1}
    /\ pc \in [Meters -> {"take", "read", "transfer", "give",
                          "send_cloud", "send_display", "delay"}]
    /\ reads \in [Meters -> Nat]
    /\ \A m \in Meters : reads[m] < RoundReads(m)
    /\ spi \subseteq Meters
    /\ cycend \in BOOLEAN
    /\ value \in [Meters -> Versions]
    /\ queue \in [Consumers -> Seq(Data_t)]
    /\ \A c \in Consumers : Len(queue[c]) <= QUEUE_LEN
    /\ hand \in [Consumers -> {<<>>} \cup {<<item>> : item \in Data_t}]
    /\ shown \in [Consumers -> [Meters -> Versions]]
    /\ client_g \in BOOLEAN

(* No two tasks are ever inside spi_device_transmit for the one ADE7753     *)
(* device handle, and whoever is inside holds xsema_handle: a register read *)
(* is never answered with another task's register.                          *)
SpiExclusive ==
    /\ \A a, b \in spi : a = b
    /\ spi # {} => xsema = 0

(* What lies between a sampling task and what a consumer shows is in the    *)
(* order in which it was measured, for every quantity: the item in hand is  *)
(* not older than what is shown, nothing queued is older than the item in   *)
(* hand or than what was queued before it, and nothing is newer than the    *)
(* global it was copied from after the semaphore was given back.            *)
Ordered(pipe, seen, measured) ==
    \A i \in 1 .. Len(pipe) :
        /\ seen[pipe[i].id] <= pipe[i].data
        /\ pipe[i].data <= measured[pipe[i].id]
        /\ \A j \in 1 .. i :
              pipe[j].id = pipe[i].id => pipe[j].data <= pipe[i].data

Pipe(c) == hand[c] \o queue[c]

InOrder == \A c \in Consumers : Ordered(Pipe(c), shown[c], value)

(* The OLED and the cloud each get what SampleFeed promises: measured       *)
(* values, never going back, whatever was refused by a full queue and       *)
(* however the tasks interleave.                                            *)
DisplayFeed == INSTANCE SampleFeed WITH latest <- value, shown <- shown["display"]
CloudFeed   == INSTANCE SampleFeed WITH latest <- value, shown <- shown["cloud"]

DisplayFeedSpec == DisplayFeed!Spec
CloudFeedSpec   == CloudFeed!Spec

(* Every quantity goes on being sampled for ever: polling tasks that share  *)
(* the semaphore do not starve each other, the wait for CYCEND with the     *)
(* semaphore held comes to an end, and a cloud task stuck in a publish with *)
(* its queue full stops nobody.                                             *)
KeepsSampling == \A m \in Meters : []<>(pc[m] = "delay") /\ []<>(pc[m] # "delay")

(* An item that displaying_queue accepted reaches its row on the OLED,      *)
(* whether or not the cloud task makes progress.                            *)
QueuedIn(c, m, v) ==
    \E i \in 1 .. Len(queue[c]) : queue[c][i].id = m /\ queue[c][i].data = v

DisplayCatchesUp ==
    \A m \in Meters : \A v \in 1 .. MaxSample :
        QueuedIn("display", m, v) ~> shown["display"][m] >= v

(* If every publish returns, an item that data_queue accepted once there is *)
(* an MQTT client is handed to it.                                          *)
CloudCatchesUp ==
    WF_vars(Cloud) =>
        \A m \in Meters : \A v \in 1 .. MaxSample :
            (client_g /\ QueuedIn("cloud", m, v)) ~> shown["cloud"][m] >= v
===============================================================================
