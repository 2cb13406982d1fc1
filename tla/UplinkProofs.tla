----------------------------- MODULE UplinkProofs -----------------------------
(****************************************************************************)
(* The MQTT client, the publishes and the logging task do not disturb the   *)
(* link they depend on: Uplink implements WifiLink, and what was proved of  *)
(* the link holds in the composition.                                       *)
(****************************************************************************)
EXTENDS Uplink, WifiLinkProofs

(* Nothing but a step of WifiLink changes its variables: the flag that      *)
(* data_logging_task reads is written by event_handler alone.               *)
THEOREM ImplementsLink == UplinkSpec => Spec
  <1>1. UplinkInit => Init
    BY DEF UplinkInit
  <1>2. [UplinkNext]_uplinkVars => [Next]_vars
    BY DEF UplinkNext, Link, Mqtt, MqttStart, MqttEvent, MqttConnect, MqttNotices,
           Broker, BrokerLost, BrokerBack, SendDataToCloud, Logger, CheckFlag, WriteLog,
           Next, uplinkVars
  <1> QED  BY <1>1, <1>2, PTL DEF UplinkSpec, Spec

(* The types of the client and the two tasks; a connection stands on a link *)
(* with an address to a broker in reach, and is made with a handle.         *)
CloudInv ==
    /\ broker \in BOOLEAN
    /\ mqtt \in {"off", "offline", "connected", "dead"}
    /\ client_g \in BOOLEAN
    /\ publish \in {"none", "dropped", "lost", "sent"}
    /\ logging \in {"check", "log"}
    /\ outages \in 0 .. MaxOutages
    /\ mqtt = "connected" => link = "ip" /\ broker
    /\ mqtt \in {"connected", "dead"} => client_g

(* Whatever happens to the link and the broker, an item that counts as sent *)
(* had an address to be sent from and a broker to be sent to: the loss of   *)
(* either takes the connection with it.                                     *)
THEOREM CloudInductive == UplinkSpec => []CloudInv
  <1>1. UplinkInit => CloudInv
    <2>1. 0 \in 0 .. MaxOutages
      BY SMT, OutagesAssumption
    <2> QED  BY <2>1 DEF UplinkInit, CloudInv
  <1>2. CloudInv /\ [UplinkNext]_uplinkVars => CloudInv'
    <2> SUFFICES ASSUME CloudInv, [UplinkNext]_uplinkVars  PROVE CloudInv'
      OBVIOUS
    <2>1. ASSUME outages < MaxOutages, outages' = outages + 1
          PROVE  outages' \in 0 .. MaxOutages
      BY SMT, <2>1, OutagesAssumption DEF CloudInv
    <2>2. CASE Link
      BY <2>2 DEF Link, CloudInv
    <2>3. CASE Mqtt
      BY <2>3 DEF Mqtt, MqttStart, MqttEvent, MqttConnect, MqttNotices, CloudInv,
                  vars, driverVars
    <2>4. CASE Broker
      BY <2>1, <2>4 DEF Broker, BrokerLost, BrokerBack, CloudInv, vars, driverVars
    <2>5. CASE SendDataToCloud
      BY <2>1, <2>5 DEF SendDataToCloud, CloudInv, vars, driverVars
    <2>6. CASE Logger
      BY <2>6 DEF Logger, CheckFlag, WriteLog, CloudInv, cloudVars, vars, driverVars
    <2>7. CASE UNCHANGED uplinkVars
      BY <2>7 DEF uplinkVars, CloudInv, cloudVars, vars, driverVars
    <2> QED  BY <2>2, <2>3, <2>4, <2>5, <2>6, <2>7 DEF UplinkNext
  <1> QED  BY <1>1, <1>2, PTL DEF UplinkSpec

(* The variables of the whole path keep their types.                        *)
THEOREM UplinkTypeCorrect == UplinkSpec => []UplinkTypeOK
  <1>1. TypeOK /\ CloudInv => UplinkTypeOK
    BY DEF CloudInv, UplinkTypeOK
  <1> QED  BY <1>1, CloudInductive, ImplementsLink, TypeCorrect, PTL

(* The properties of the link hold whatever the client and the tasks do.    *)
THEOREM UplinkKeepsLink ==
    UplinkSpec => [](FlagSettles /\ NeverParked /\ NeverAborts)
  BY ImplementsLink, FlagCorrect, Retried, NoAbort, PTL
===============================================================================
