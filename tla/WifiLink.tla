------------------------------- MODULE WifiLink -------------------------------
(****************************************************************************)
(* The Wi-Fi link of wifi_conection.c: the driver posts events, the event   *)
(* loop calls event_handler on them one by one, later; the handler makes    *)
(* its calls back into the driver while the driver goes on; and             *)
(* smartconfig_example_task waits on an event group for the provisioning to *)
(* end.  The driver and the smartconfig library are external: they are      *)
(* modelled by the events they post and the calls they accept.              *)
(****************************************************************************)
EXTENDS Naturals, Sequences

CONSTANTS
    MaxEvents,  \* bound: the driver posts nothing while so many events wait
    MaxLosses   \* bound: attempts that fail, links that are lost, provisionings
                \* that time out

ASSUME ConstantsAssumption ==
    /\ MaxEvents \in Nat \ {0}
    /\ MaxLosses \in Nat

CONNECTED == "CONNECTED_BIT"
DONE      == "ESPTOUCH_DONE_BIT"

VARIABLES
    link,            \* the station: idle, connecting, associated, ip
    config,          \* its credentials: none, or ones the access point takes or not
    smartconfig,     \* the library: off, listening, got, acked
    events,          \* posted to the event loop and not yet handled
    todo,            \* calls that event_handler has still to make for its event
    received,        \* credentials in the event that is handled
    wifi_connected,
    aborted,         \* ESP_ERROR_CHECK in the handler has called abort()
    bits,            \* s_wifi_event_group
    task,            \* smartconfig_example_task: none, start, call_wait, wait,
                     \* run, deleted
    uxBits,          \* what xEventGroupWaitBits returned, until it is looked at
    provisioned,     \* the handler has set a configuration      (history)
    losses           \* what MaxLosses bounds

driverVars  == <<link, config, smartconfig>>
handlerVars == <<todo, received, wifi_connected, aborted>>
taskVars    == <<bits, task, uxBits>>
vars == <<driverVars, events, handlerVars, taskVars, provisioned, losses>>

-------------------------------------------------------------------------------
(* What event_handler does on a lost link, with an address and with          *)
(* credentials; the other two events always make one call.                  *)
CallTable(lost, address, credentials) ==
    [STA_START |-> <<"create_task">>, STA_DISCONNECTED |-> lost, STA_GOT_IP |-> address,
     GOT_SSID_PSWD |-> credentials, SEND_ACK_DONE |-> <<"set_done">>]

OnLoss        == <<"flag_0", "connect", "clear_bit">>
OnAddress     == <<"flag_1", "set_connected">>
OnCredentials == <<"disconnect", "set_config", "connect">>

(* Mutants: a lost link is not connected again; it leaves the flag as it    *)
(* is; the configuration is set without disconnecting.                      *)
CallsNoRetry(event)  == CallTable(<<"flag_0", "clear_bit">>, OnAddress, OnCredentials)[event]
CallsKeepFlag(event) == CallTable(Tail(OnLoss), OnAddress, OnCredentials)[event]
CallsNoDisconnect(event) ==
    CallTable(OnLoss, OnAddress, Tail(OnCredentials))[event]

(* The calls event_handler makes for an event, in their order.              *)
Calls(event) == CallTable(OnLoss, OnAddress, OnCredentials)[event]

Call(name) == todo # <<>> /\ Head(todo) = name /\ todo' = Tail(todo)

Post(event) == events' = Append(events, event)

(* xEventGroupSetBits: a waiting task gets the bits, which are cleared.     *)
SetBits(bit) ==
    IF task = "wait"
       THEN task' = "run" /\ uxBits' = bits \cup {bit} /\ bits' = {}
       ELSE bits' = bits \cup {bit} /\ UNCHANGED <<task, uxBits>>

(* initialise_wifi has run: esp_wifi_start posts STA_START.                 *)
Init ==
    /\ link = "idle"
    /\ config \in {"none", "good", "bad"}
    /\ smartconfig = "off"
    /\ events = <<"STA_START">>
    /\ todo = <<>> /\ received = "none"
    /\ wifi_connected = 0 /\ aborted = FALSE
    /\ bits = {} /\ task = "none" /\ uxBits = {}
    /\ provisioned = FALSE
    /\ losses = 0

-------------------------------------------------------------------------------
(* event_handler, called by the event loop on the oldest event.  The event  *)
(* of the phone carries credentials, right or wrong.                        *)
Handle ==
    /\ todo = <<>> /\ events # <<>>
    /\ todo' = Calls(Head(events))
    /\ events' = Tail(events)
    /\ IF Head(events) = "GOT_SSID_PSWD"
          THEN received' \in {"good", "bad"}
          ELSE UNCHANGED received
    /\ UNCHANGED <<driverVars, wifi_connected, aborted, taskVars, provisioned, losses>>

CreateTask ==
    /\ Call("create_task")
    /\ task' = "start"
    /\ UNCHANGED <<driverVars, events, received, wifi_connected, aborted, bits, uxBits,
                   provisioned, losses>>

(* Mutant: the addresses are counted.                                       *)
SetFlagCounts(value) ==
    /\ Call(IF value = 1 THEN "flag_1" ELSE "flag_0")
    /\ wifi_connected' = IF value = 1 THEN wifi_connected + 1 ELSE 0
    /\ UNCHANGED <<driverVars, events, received, aborted, taskVars, provisioned, losses>>

SetFlag(value) ==
    /\ Call(IF value = 1 THEN "flag_1" ELSE "flag_0")
    /\ wifi_connected' = value
    /\ UNCHANGED <<driverVars, events, received, aborted, taskVars, provisioned, losses>>

(* esp_wifi_connect; its error, without credentials or when an attempt is   *)
(* under way, is ignored.                                                   *)
Connect ==
    /\ Call("connect")
    /\ link' = IF link = "idle" /\ config # "none" THEN "connecting" ELSE link
    /\ UNCHANGED <<config, smartconfig, events, received, wifi_connected, aborted,
                   taskVars, provisioned, losses>>

ClearConnected ==
    /\ Call("clear_bit")
    /\ bits' = bits \ {CONNECTED}
    /\ UNCHANGED <<driverVars, events, received, wifi_connected, aborted, task, uxBits,
                   provisioned, losses>>

SetEventBit(bit) ==
    /\ Call(IF bit = DONE THEN "set_done" ELSE "set_connected")
    /\ SetBits(bit)
    /\ UNCHANGED <<driverVars, events, received, wifi_connected, aborted, provisioned,
                   losses>>

Disconnect ==
    /\ Call("disconnect")
    /\ link' = "idle"
    /\ IF link # "idle" THEN Post("STA_DISCONNECTED") ELSE UNCHANGED events
    /\ UNCHANGED <<config, smartconfig, received, wifi_connected, aborted, taskVars,
                   provisioned, losses>>

(* esp_wifi_set_config takes the credentials of the event, unless an        *)
(* attempt is under way: then it returns an error, on which ESP_ERROR_CHECK *)
(* aborts.                                                                  *)
SetConfig ==
    /\ Call("set_config")
    /\ IF link = "connecting"
          THEN aborted' = TRUE /\ UNCHANGED <<config, provisioned>>
          ELSE config' = received /\ provisioned' = TRUE /\ UNCHANGED aborted
    /\ received' = "none"
    /\ UNCHANGED <<link, smartconfig, events, wifi_connected, taskVars, losses>>

Handler ==
    \/ Handle
    \/ CreateTask
    \/ \E value \in {0, 1} : SetFlag(value)
    \/ Connect
    \/ ClearConnected
    \/ \E bit \in {CONNECTED, DONE} : SetEventBit(bit)
    \/ Disconnect
    \/ SetConfig

-------------------------------------------------------------------------------
(* smartconfig_example_task *)
StartSmartconfig ==
    /\ task = "start"
    /\ smartconfig' = "listening"
    /\ task' = "call_wait"
    /\ UNCHANGED <<link, config, events, handlerVars, bits, uxBits, provisioned, losses>>

(* xEventGroupWaitBits: bits that are set are returned and cleared at once. *)
WaitBits ==
    /\ task = "call_wait"
    /\ IF bits = {}
          THEN task' = "wait" /\ UNCHANGED <<bits, uxBits>>
          ELSE task' = "run" /\ uxBits' = bits /\ bits' = {}
    /\ UNCHANGED <<driverVars, events, handlerVars, provisioned, losses>>

(* Mutant: the two bits are looked at as alternatives.                      *)
LookAtBitsElse ==
    /\ task = "run"
    /\ IF CONNECTED \notin uxBits
          THEN task' = "deleted" /\ smartconfig' = "off"
          ELSE task' = "call_wait" /\ UNCHANGED smartconfig
    /\ uxBits' = {}
    /\ UNCHANGED <<link, config, events, handlerVars, bits, provisioned, losses>>

LookAtBits ==
    /\ task = "run"
    /\ IF DONE \in uxBits
          THEN task' = "deleted" /\ smartconfig' = "off"
          ELSE task' = "call_wait" /\ UNCHANGED smartconfig
    /\ uxBits' = {}
    /\ UNCHANGED <<link, config, events, handlerVars, bits, provisioned, losses>>

SmartconfigTask == StartSmartconfig \/ WaitBits \/ LookAtBits

-------------------------------------------------------------------------------
(* The driver and the smartconfig library.                                  *)
MayPost == Len(events) < MaxEvents

Associate ==
    /\ link = "connecting" /\ config = "good"
    /\ link' = "associated"
    /\ UNCHANGED <<config, smartconfig, events, handlerVars, taskVars, provisioned,
                   losses>>

GetIp ==
    /\ link = "associated" /\ MayPost
    /\ link' = "ip"
    /\ Post("STA_GOT_IP")
    /\ UNCHANGED <<config, smartconfig, handlerVars, taskVars, provisioned, losses>>

(* The lease of the address may end while the station stays associated.     *)
(* initialise_wifi does not register for that event.                        *)
LoseIp ==
    /\ link = "ip" /\ losses < MaxLosses
    /\ link' = "associated"
    /\ losses' = losses + 1
    /\ UNCHANGED <<config, smartconfig, events, handlerVars, taskVars, provisioned>>

(* An attempt with good credentials may fail, and a link may be lost, but   *)
(* only MaxLosses times.  An attempt with bad ones always fails.            *)
LoseLink ==
    /\ link \in {"connecting", "associated", "ip"} /\ MayPost
    /\ link' = "idle"
    /\ Post("STA_DISCONNECTED")
    /\ IF config = "bad"
          THEN UNCHANGED losses
          ELSE losses < MaxLosses /\ losses' = losses + 1
    /\ UNCHANGED <<config, smartconfig, handlerVars, taskVars, provisioned>>

(* A phone sends credentials.                                               *)
GotCredentials ==
    /\ smartconfig = "listening" /\ MayPost
    /\ smartconfig' = "got"
    /\ Post("GOT_SSID_PSWD")
    /\ UNCHANGED <<link, config, handlerVars, taskVars, provisioned, losses>>

(* The phone was not answered in time: the library starts again, and a      *)
(* phone may send credentials another time, whatever the station does.      *)
SmartconfigTimeout ==
    /\ smartconfig = "got" /\ losses < MaxLosses
    /\ smartconfig' = "listening"
    /\ losses' = losses + 1
    /\ UNCHANGED <<link, config, events, handlerVars, taskVars, provisioned>>

(* The library answers the phone once the station has an address.           *)
SendAck ==
    /\ smartconfig = "got" /\ link = "ip" /\ MayPost
    /\ smartconfig' = "acked"
    /\ Post("SEND_ACK_DONE")
    /\ UNCHANGED <<link, config, handlerVars, taskVars, provisioned, losses>>

Driver ==
    \/ Associate \/ GetIp \/ LoseIp \/ LoseLink
    \/ GotCredentials \/ SmartconfigTimeout \/ SendAck

(* Nothing runs after an abort; the boot that follows is another behaviour. *)
Next == ~aborted /\ (Handler \/ SmartconfigTask \/ Driver)

Spec == Init /\ [][Next]_vars

-------------------------------------------------------------------------------
TypeOK ==
    /\ link \in {"idle", "connecting", "associated", "ip"}
    /\ config \in {"none", "good", "bad"} /\ received \in {"none", "good", "bad"}
    /\ smartconfig \in {"off", "listening", "got", "acked"}
    /\ events \in Seq({"STA_START", "STA_DISCONNECTED", "STA_GOT_IP",
                       "GOT_SSID_PSWD", "SEND_ACK_DONE"})
    /\ Len(events) <= MaxEvents + 1
    /\ todo \in Seq({"create_task", "flag_0", "flag_1", "connect", "clear_bit",
                     "set_connected", "set_done", "disconnect", "set_config"})
    /\ wifi_connected \in {0, 1} /\ aborted \in BOOLEAN
    /\ bits \subseteq {CONNECTED, DONE} /\ uxBits \subseteq {CONNECTED, DONE}
    /\ task \in {"none", "start", "call_wait", "wait", "run", "deleted"}
    /\ provisioned \in BOOLEAN
    /\ losses \in 0 .. MaxLosses

Settled == events = <<>> /\ todo = <<>>

(* Once the handler has caught up with the driver, wifi_connected, by which *)
(* data_logging_task decides whether to log, is set for a station with an   *)
(* address and clear for one without a link.                                *)
FlagSettles ==
    Settled => /\ link = "ip" => wifi_connected = 1
               /\ link \in {"idle", "connecting"} => wifi_connected = 0

(* A provisioned station is never left without an attempt to connect: if    *)
(* no event is waiting that would start one, it is connecting or connected. *)
NeverParked == provisioned /\ Settled => link # "idle"

(* Credentials that arrive again while the station is connecting with the   *)
(* last ones do not abort the firmware: esp_wifi_set_config is never called *)
(* during an attempt, which it refuses and ESP_ERROR_CHECK does not let     *)
(* pass.                                                                    *)
NeverAborts == ~aborted

(* What the access point owes: no attempt goes on for ever, and no station  *)
(* that is associated waits for its address for ever.                       *)
Answered == []<>(link # "connecting") /\ []<>(link # "associated")

(* A provisioned station with good credentials gets a link again after      *)
(* every loss, and the flag says so, unless a phone replaces them.          *)
Reconnects ==
    Answered => ((provisioned /\ config = "good") ~>
                    ((link = "ip" /\ wifi_connected = 1) \/ config = "bad"))

(* Once the library has answered the phone, smartconfig is stopped and its  *)
(* task deleted, whatever the two bits of the event group did meanwhile.    *)
SmartconfigEnds == (smartconfig = "acked") ~> (smartconfig = "off" /\ task = "deleted")
===============================================================================
