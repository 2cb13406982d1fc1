------------------------------- MODULE Uplink -------------------------------
(****************************************************************************)
(* What the socket does with its measurements while the link comes and      *)
(* goes: send_to_cloud_task publishes them with the MQTT client of mqtt.c,  *)
(* data_logging_task of main.c logs them while wifi_connected is 0.  The    *)
(* client library (ESP-MQTT) is external: it connects again by itself, and  *)
(* a connection whose link was lost is dead before the client notices.      *)
(* The broker may be out of reach, for a while or for ever.                 *)
(****************************************************************************)
EXTENDS WifiLink

CONSTANT MaxOutages   \* bound: connections that break, messages lost on the way

ASSUME OutagesAssumption == MaxOutages \in Nat

VARIABLES
    broker,     \* the broker can be reached from a station with an address
    mqtt,       \* the client: off, offline, connected, dead
    client_g,   \* TRUE once mqtt_event_handler has set the handle
    publish,    \* what became of the last item: none, dropped, lost, sent
    logging,    \* data_logging_task: check, or log once it found the flag 0
    outages

cloudVars  == <<broker, mqtt, client_g, publish, outages>>
uplinkVars == <<vars, cloudVars, logging>>

UplinkInit ==
    /\ Init
    /\ broker = TRUE
    /\ mqtt = "off" /\ client_g = FALSE
    /\ publish = "none"
    /\ logging = "check"
    /\ outages = 0

-------------------------------------------------------------------------------
(* mqtt_app_start, called by app_main after initialise_wifi.                *)
MqttStart ==
    /\ mqtt = "off"
    /\ mqtt' = "offline"
    /\ UNCHANGED <<vars, broker, client_g, publish, logging, outages>>

(* mqtt_event_handler: whatever the event, the handle is stored; the first  *)
(* event, before an attempt to connect, says nothing about a connection.    *)
MqttEvent ==
    /\ mqtt # "off"
    /\ client_g' = TRUE
    /\ UNCHANGED <<vars, broker, mqtt, publish, logging, outages>>

MqttConnect ==
    /\ mqtt = "offline" /\ client_g /\ link = "ip" /\ broker
    /\ mqtt' = "connected"
    /\ UNCHANGED <<vars, broker, client_g, publish, logging, outages>>

(* Once a dead connection is noticed the client starts again.               *)
MqttNotices ==
    /\ mqtt = "dead"
    /\ mqtt' = "offline"
    /\ UNCHANGED <<vars, broker, client_g, publish, logging, outages>>

(* The broker goes out of reach, and the connection to it is dead.          *)
BrokerLost ==
    /\ broker /\ outages < MaxOutages
    /\ broker' = FALSE
    /\ mqtt' = IF mqtt = "connected" THEN "dead" ELSE mqtt
    /\ outages' = outages + 1
    /\ UNCHANGED <<vars, client_g, publish, logging>>

BrokerBack ==
    /\ ~broker
    /\ broker' = TRUE
    /\ UNCHANGED <<vars, mqtt, client_g, publish, logging, outages>>

-------------------------------------------------------------------------------
(* Mutant: the test of client_g is inverted.                                *)
SendWithoutClient ==
    /\ mqtt # "off"
    /\ publish' = IF client_g THEN "dropped" ELSE "lost"
    /\ UNCHANGED <<vars, broker, mqtt, client_g, logging, outages>>

(* Send_data_to_cloud: without a handle the item is dropped; with one, it   *)
(* is published with QoS 0, and the result is not looked at.                *)
SendDataToCloud ==
    /\ mqtt # "off"
    /\ \/ /\ publish' = IF ~client_g THEN "dropped"
                        ELSE IF mqtt = "connected" THEN "sent" ELSE "lost"
          /\ UNCHANGED outages
       \/ /\ client_g /\ outages < MaxOutages
          /\ publish' = "lost"
          /\ outages' = outages + 1
    /\ UNCHANGED <<vars, broker, mqtt, client_g, logging>>

(* Mutant: the task logs while the flag is 1.                               *)
CheckFlagInverted ==
    /\ logging = "check" /\ mqtt # "off"
    /\ logging' = IF wifi_connected = 1 THEN "log" ELSE "check"
    /\ UNCHANGED <<vars, cloudVars>>

(* data_logging_task reads wifi_connected, and logs on what it has read.    *)
CheckFlag ==
    /\ logging = "check" /\ mqtt # "off"
    /\ logging' = IF wifi_connected = 0 THEN "log" ELSE "check"
    /\ UNCHANGED <<vars, cloudVars>>

WriteLog ==
    /\ logging = "log"
    /\ logging' = "check"
    /\ UNCHANGED <<vars, cloudVars>>

-------------------------------------------------------------------------------
(* A step of the link; a connection does not survive the loss of it.        *)
Link ==
    /\ Next
    /\ mqtt' = IF mqtt = "connected" /\ link' # "ip" THEN "dead" ELSE mqtt
    /\ UNCHANGED <<broker, client_g, publish, logging, outages>>

Mqtt   == MqttStart \/ MqttEvent \/ MqttConnect \/ MqttNotices
Logger == CheckFlag \/ WriteLog

Broker == BrokerLost \/ BrokerBack

UplinkNext == ~aborted /\ (Link \/ Mqtt \/ Broker \/ SendDataToCloud \/ Logger)

UplinkSpec == UplinkInit /\ [][UplinkNext]_uplinkVars

(* The tasks, the event loop and the client are scheduled, a client that    *)
(* can reach the broker connects, and a dead connection times out.  The     *)
(* access point and the broker owe nothing here: what a property needs of   *)
(* them is its premise.                                                     *)
UplinkLiveSpec ==
    /\ UplinkSpec
    /\ WF_uplinkVars(Link /\ Handler) /\ WF_uplinkVars(Link /\ SmartconfigTask)
    /\ WF_uplinkVars(MqttStart) /\ WF_uplinkVars(MqttEvent)
    /\ WF_uplinkVars(MqttConnect) /\ WF_uplinkVars(MqttNotices)
    /\ WF_uplinkVars(SendDataToCloud) /\ WF_uplinkVars(Logger)

-------------------------------------------------------------------------------
(* TypeOK is that of WifiLink.                                              *)
UplinkTypeOK ==
    /\ TypeOK
    /\ broker \in BOOLEAN
    /\ mqtt \in {"off", "offline", "connected", "dead"}
    /\ client_g \in BOOLEAN
    /\ publish \in {"none", "dropped", "lost", "sent"}
    /\ logging \in {"check", "log"}
    /\ outages \in 0 .. MaxOutages

(* The two states in which the flag is 1 and nothing can be sent: the       *)
(* broker is out of reach, or the address was lost on a standing link.      *)
Stranded ==
    /\ wifi_connected = 1
    /\ link = "associated" \/ (link = "ip" /\ ~broker)

(* The socket is silent for good only where it is stranded: otherwise it    *)
(* goes on bringing measurements to the broker or taking the offline branch *)
(* of data_logging_task (which prints the time; its call of data_logger is  *)
(* commented out), whatever credentials it has and whichever of the link,   *)
(* the address and the broker is lost when.                                 *)
NeverSilent == []<>(logging = "log" \/ publish = "sent" \/ Stranded)

(* A provisioned station with good credentials goes on publishing after     *)
(* every loss, if the access point answers and the broker is in reach again *)
(* and again; a handle that was set too early does no harm for long.        *)
CloudResumes ==
    Answered /\ []<>broker =>
        ((provisioned /\ config = "good") ~> (publish = "sent" \/ config = "bad"))
===============================================================================
