---------------------------- MODULE WifiLinkProofs ----------------------------
(****************************************************************************)
(* The flag, the attempts to connect and the configuration of the Wi-Fi     *)
(* link are right for any number of events that wait and of losses.         *)
(****************************************************************************)
EXTENDS WifiLink, SequenceTheorems, TLAPS

Events == {"STA_START", "STA_DISCONNECTED", "STA_GOT_IP", "GOT_SSID_PSWD",
           "SEND_ACK_DONE"}

CallNames == {"create_task", "flag_0", "flag_1", "connect", "clear_bit",
              "set_connected", "set_done", "disconnect", "set_config"}

(* What can be left of the calls of an event.                               *)
Remainders ==
    {<<>>, <<"create_task">>, <<"set_done">>,
     <<"flag_0", "connect", "clear_bit">>, <<"connect", "clear_bit">>, <<"clear_bit">>,
     <<"flag_1", "set_connected">>, <<"set_connected">>,
     <<"disconnect", "set_config", "connect">>, <<"set_config", "connect">>,
     <<"connect">>}

(* The flag as it is before the event s[1] is handled.                      *)
FlagNow == IF todo = <<"flag_0", "connect", "clear_bit">> THEN 0
           ELSE IF todo = <<"flag_1", "set_connected">> THEN 1
           ELSE wifi_connected

FlagEvent(value) == IF value = 1 THEN "STA_GOT_IP" ELSE "STA_DISCONNECTED"

Other(value) == 1 - value

(* The flag is value once the events of s are handled, if it is now before: *)
(* no event that makes it another one comes after the last one that makes   *)
(* it value.                                                                *)
Becomes(s, now, value) ==
    /\ \A j \in 1 .. Len(s) : s[j] = FlagEvent(Other(value)) =>
          \E i \in 1 .. Len(s) : i > j /\ s[i] = FlagEvent(value)
    /\ now # value => \E i \in 1 .. Len(s) : s[i] = FlagEvent(value)

-------------------------------------------------------------------------------
FlagInv ==
    /\ link = "ip" => Becomes(events, FlagNow, 1)
    /\ link \in {"idle", "connecting"} => Becomes(events, FlagNow, 0)

Waits(event) == \E i \in 1 .. Len(events) : events[i] = event

RetryCalls ==
    {<<"flag_0", "connect", "clear_bit">>, <<"connect", "clear_bit">>,
     <<"disconnect", "set_config", "connect">>, <<"set_config", "connect">>,
     <<"connect">>}

(* An idle station that was provisioned has an event or a call before it    *)
(* that connects it, with the credentials it was given.                     *)
RetryInv ==
    /\ provisioned => config # "none"
    /\ provisioned /\ link = "idle" => todo \in RetryCalls \/ Waits("STA_DISCONNECTED")

ConfigCalls == {<<"disconnect", "set_config", "connect">>, <<"set_config", "connect">>}

(* A configuration is set from credentials, and after the disconnect the    *)
(* station is idle until it is: nothing aborts.                             *)
ConfigInv ==
    /\ todo \in ConfigCalls => received # "none"
    /\ todo = <<"set_config", "connect">> => link = "idle"
    /\ aborted = FALSE

(* The call of esp_wifi_disconnect is the only one that posts an event when *)
(* MaxEvents may be waiting.                                                *)
RoomInv ==
    /\ Len(events) <= MaxEvents + 1
    /\ todo = <<"disconnect", "set_config", "connect">> => Len(events) <= MaxEvents

LinkInv == TypeOK /\ todo \in Remainders /\ RoomInv /\ FlagInv /\ RetryInv /\ ConfigInv

-------------------------------------------------------------------------------
(* Which calls are left before and after each of them.                      *)
LEMMA NextCall ==
    ASSUME todo \in Remainders, NEW name, Call(name)
    PROVE  /\ todo # <<>> /\ todo' \in Remainders /\ name = Head(todo)
           /\ name = "create_task" => todo = <<"create_task">> /\ todo' = <<>>
           /\ name = "set_done" => todo = <<"set_done">> /\ todo' = <<>>
           /\ name = "flag_0" => /\ todo = <<"flag_0", "connect", "clear_bit">>
                                 /\ todo' = <<"connect", "clear_bit">>
           /\ name = "connect" => \/ /\ todo = <<"connect", "clear_bit">>
                                     /\ todo' = <<"clear_bit">>
                                  \/ todo = <<"connect">> /\ todo' = <<>>
           /\ name = "clear_bit" => todo = <<"clear_bit">> /\ todo' = <<>>
           /\ name = "flag_1" => /\ todo = <<"flag_1", "set_connected">>
                                 /\ todo' = <<"set_connected">>
           /\ name = "set_connected" => todo = <<"set_connected">> /\ todo' = <<>>
           /\ name = "disconnect" => /\ todo = <<"disconnect", "set_config", "connect">>
                                     /\ todo' = <<"set_config", "connect">>
           /\ name = "set_config" => /\ todo = <<"set_config", "connect">>
                                     /\ todo' = <<"connect">>
  <1>1. todo # <<>> /\ name = Head(todo) /\ todo' = Tail(todo)
    BY DEF Call
  <1>2. CASE todo = <<"create_task">>
    <2>1. name = "create_task" /\ todo' = <<>>
      BY SMT, <1>1, <1>2
    <2> QED  BY <1>1, <1>2, <2>1 DEF Remainders
  <1>3. CASE todo = <<"set_done">>
    <2>1. name = "set_done" /\ todo' = <<>>
      BY SMT, <1>1, <1>3
    <2> QED  BY <1>1, <1>3, <2>1 DEF Remainders
  <1>4. CASE todo = <<"flag_0", "connect", "clear_bit">>
    <2>1. name = "flag_0" /\ todo' = <<"connect", "clear_bit">>
      BY SMT, <1>1, <1>4
    <2> QED  BY <1>1, <1>4, <2>1 DEF Remainders
  <1>5. CASE todo = <<"connect", "clear_bit">>
    <2>1. name = "connect" /\ todo' = <<"clear_bit">>
      BY SMT, <1>1, <1>5
    <2> QED  BY <1>1, <1>5, <2>1 DEF Remainders
  <1>6. CASE todo = <<"clear_bit">>
    <2>1. name = "clear_bit" /\ todo' = <<>>
      BY SMT, <1>1, <1>6
    <2> QED  BY <1>1, <1>6, <2>1 DEF Remainders
  <1>7. CASE todo = <<"flag_1", "set_connected">>
    <2>1. name = "flag_1" /\ todo' = <<"set_connected">>
      BY SMT, <1>1, <1>7
    <2> QED  BY <1>1, <1>7, <2>1 DEF Remainders
  <1>8. CASE todo = <<"set_connected">>
    <2>1. name = "set_connected" /\ todo' = <<>>
      BY SMT, <1>1, <1>8
    <2> QED  BY <1>1, <1>8, <2>1 DEF Remainders
  <1>9. CASE todo = <<"disconnect", "set_config", "connect">>
    <2>1. name = "disconnect" /\ todo' = <<"set_config", "connect">>
      BY SMT, <1>1, <1>9
    <2> QED  BY <1>1, <1>9, <2>1 DEF Remainders
  <1>10. CASE todo = <<"set_config", "connect">>
    <2>1. name = "set_config" /\ todo' = <<"connect">>
      BY SMT, <1>1, <1>10
    <2> QED  BY <1>1, <1>10, <2>1 DEF Remainders
  <1>11. CASE todo = <<"connect">>
    <2>1. name = "connect" /\ todo' = <<>>
      BY SMT, <1>1, <1>11
    <2> QED  BY <1>1, <1>11, <2>1 DEF Remainders
  <1> QED  BY <1>1, <1>2, <1>3, <1>4, <1>5, <1>6, <1>7, <1>8, <1>9, <1>10, <1>11 DEF Remainders

(* What is left of a handler is a sequence of calls. *)
LEMMA RemaindersTyped == Remainders \subseteq Seq(CallNames)
  BY SMT DEF Remainders, CallNames

(* Handling an event does to the flag what Becomes expects of it.           *)
LEMMA BecomesHandled ==
    ASSUME NEW s \in Seq(Events), s # <<>>, NEW value \in {0, 1}, NEW now,
           Becomes(s, now, value)
    PROVE  Becomes(Tail(s),
                   IF Head(s) = FlagEvent(0) THEN 0
                   ELSE IF Head(s) = FlagEvent(1) THEN 1 ELSE now,
                   value)
  <1> DEFINE after == IF Head(s) = FlagEvent(0) THEN 0
                      ELSE IF Head(s) = FlagEvent(1) THEN 1 ELSE now
  <1>1. /\ Len(s) \in Nat \ {0} /\ Len(Tail(s)) = Len(s) - 1
        /\ \A i \in 1 .. Len(Tail(s)) : Tail(s)[i] = s[i + 1]
        /\ Head(s) = s[1]
    BY SMT
  <1>2. FlagEvent(0) # FlagEvent(1) /\ Other(0) = 1 /\ Other(1) = 0
    BY SMT DEF FlagEvent, Other
  <1>3. ASSUME NEW j \in 1 .. Len(Tail(s)), Tail(s)[j] = FlagEvent(Other(value))
        PROVE  \E i \in 1 .. Len(Tail(s)) : i > j /\ Tail(s)[i] = FlagEvent(value)
    <2>1. s[j + 1] = FlagEvent(Other(value)) /\ j + 1 \in 1 .. Len(s)
      BY SMT, <1>1, <1>3
    <2>2. PICK i \in 1 .. Len(s) : i > j + 1 /\ s[i] = FlagEvent(value)
      BY <2>1 DEF Becomes
    <2>3. i - 1 \in 1 .. Len(Tail(s)) /\ i - 1 > j /\ Tail(s)[i - 1] = s[i]
      BY SMT, <1>1, <2>2
    <2> QED  BY <2>2, <2>3
  <1>4. ASSUME after # value
        PROVE  \E i \in 1 .. Len(Tail(s)) : Tail(s)[i] = FlagEvent(value)
    <2>1. PICK i \in 1 .. Len(s) : i > 1 /\ s[i] = FlagEvent(value)
      <3>1. CASE s[1] = FlagEvent(Other(value))
        BY SMT, <1>1, <3>1 DEF Becomes
      <3>2. CASE s[1] # FlagEvent(Other(value))
        <4>1. s[1] # FlagEvent(value) /\ now # value
          BY SMT, <1>1, <1>2, <1>4, <3>2
        <4> QED  BY SMT, <1>1, <4>1 DEF Becomes
      <3> QED  BY <3>1, <3>2
    <2>2. i - 1 \in 1 .. Len(Tail(s)) /\ Tail(s)[i - 1] = s[i]
      BY SMT, <1>1, <2>1
    <2> QED  BY <2>1, <2>2
  <1> QED  BY <1>3, <1>4 DEF Becomes

(* A posted event of the flag decides what the flag becomes; another event  *)
(* has no influence on it.                                                  *)
LEMMA BecomesPosted ==
    ASSUME NEW s \in Seq(Events), NEW value \in {0, 1}, NEW now
    PROVE  Becomes(Append(s, FlagEvent(value)), now, value)
  BY SMT DEF Becomes, FlagEvent, Other, Events

(* An event that does not concern the flag leaves unchanged what the flag will become. *)
LEMMA BecomesKept ==
    ASSUME NEW s \in Seq(Events), NEW value \in {0, 1}, NEW now,
           NEW event \in Events \ {FlagEvent(0), FlagEvent(1)},
           Becomes(s, now, value)
    PROVE  Becomes(Append(s, event), now, value)
  BY SMT DEF Becomes, FlagEvent, Other, Events
-------------------------------------------------------------------------------
(* Steps that leave the link, the handler and the credentials alone.        *)
LEMMA LinkKept ==
    ASSUME LinkInv, TypeOK',
           UNCHANGED <<link, config, events, todo, received, wifi_connected, aborted,
                       provisioned>>
    PROVE  LinkInv'
  BY DEF LinkInv, RoomInv, FlagInv, FlagNow, RetryInv, ConfigInv, ConfigCalls, Waits

(* At boot no event waits, no call is left and the station is idle. *)
LEMMA InitiallyLinked == Init => LinkInv
  <1> SUFFICES ASSUME Init  PROVE LinkInv
    OBVIOUS
  <1>1. /\ events = <<"STA_START">> /\ todo = <<>> /\ link = "idle" /\ wifi_connected = 0
        /\ provisioned = FALSE /\ received = "none" /\ aborted = FALSE
    BY DEF Init
  <1>2. /\ events \in Seq(Events) /\ Len(events) = 1 /\ events[1] = "STA_START"
        /\ todo \in Seq(CallNames) /\ todo \in Remainders
    BY SMT, <1>1 DEF Events, Remainders
  <1>3. TypeOK
    <2>1. Len(events) <= MaxEvents + 1 /\ losses \in 0 .. MaxLosses
      BY SMT, <1>2, ConstantsAssumption DEF Init
    <2>2. bits \subseteq {CONNECTED, DONE} /\ uxBits \subseteq {CONNECTED, DONE}
      BY SMT DEF Init
    <2>3. /\ config \in {"none", "good", "bad"} /\ smartconfig = "off"
          /\ task = "none"
      BY DEF Init
    <2> QED  BY <1>1, <1>2, <2>1, <2>2, <2>3 DEF TypeOK, Events, CallNames
  <1>4. RoomInv
    BY SMT, <1>1, <1>2, ConstantsAssumption DEF RoomInv
  <1>5. FlagInv
    <2>1. FlagNow = 0
      BY SMT, <1>1 DEF FlagNow
    <2> QED  BY SMT, <1>1, <1>2, <2>1 DEF FlagInv, Becomes, FlagEvent, Other
  <1>6. RetryInv /\ ConfigInv
    BY SMT, <1>1, <1>2 DEF RetryInv, ConfigInv, ConfigCalls, Waits
  <1> QED  BY <1>2, <1>3, <1>4, <1>5, <1>6 DEF LinkInv

(* What LinkInv says of the types, for the steps below.                     *)
LEMMA LinkTypes ==
    ASSUME LinkInv
    PROVE  /\ events \in Seq(Events) /\ Len(events) \in Nat
           /\ todo \in Remainders
           /\ link \in {"idle", "connecting", "associated", "ip"}
           /\ config \in {"none", "good", "bad"} /\ received \in {"none", "good", "bad"}
           /\ smartconfig \in {"off", "listening", "got", "acked"}
           /\ task \in {"none", "start", "call_wait", "wait", "run", "deleted"}
           /\ wifi_connected \in {0, 1} /\ provisioned \in BOOLEAN
           /\ aborted = FALSE
           /\ bits \subseteq {CONNECTED, DONE} /\ uxBits \subseteq {CONNECTED, DONE}
           /\ losses \in Nat /\ losses <= MaxLosses
           /\ MaxEvents \in Nat
  BY SMT, ConstantsAssumption DEF LinkInv, TypeOK, Events, ConfigInv
-------------------------------------------------------------------------------
(* TypeOK after a step is proved from these parts.                          *)
LEMMA TypeFromParts ==
    ASSUME events' \in Seq(Events), todo' \in Remainders, RoomInv',
           link' \in {"idle", "connecting", "associated", "ip"},
           config' \in {"none", "good", "bad"}, received' \in {"none", "good", "bad"},
           smartconfig' \in {"off", "listening", "got", "acked"},
           task' \in {"none", "start", "call_wait", "wait", "run", "deleted"},
           wifi_connected' \in {0, 1}, aborted' \in BOOLEAN, provisioned' \in BOOLEAN,
           bits' \subseteq {CONNECTED, DONE}, uxBits' \subseteq {CONNECTED, DONE},
           losses' \in 0 .. MaxLosses
    PROVE  TypeOK'
  <1>1. todo' \in Seq(CallNames)
    BY RemaindersTyped
  <1> QED  BY <1>1 DEF TypeOK, RoomInv, Events, CallNames

(* The events that the driver and the handler post.                         *)
LEMMA Posted ==
    ASSUME events \in Seq(Events), NEW event \in Events, Post(event)
    PROVE  /\ events' \in Seq(Events) /\ Len(events') = Len(events) + 1
           /\ \A i \in 1 .. Len(events) : events'[i] = events[i]
           /\ events'[Len(events')] = event
           /\ Waits(event)'
           /\ \A other : Waits(other) => Waits(other)'
           /\ \A other : Waits(other)' => Waits(other) \/ other = event
  <1>1. /\ events' \in Seq(Events) /\ Len(events') = Len(events) + 1
        /\ \A i \in 1 .. Len(events) : events'[i] = events[i]
        /\ events'[Len(events) + 1] = event /\ Len(events) \in Nat
    BY SMT DEF Post
  <1> QED  BY SMT, <1>1 DEF Waits

(* event_handler takes an event and has its calls to make.                  *)
LEMMA HandleKeeps == LinkInv /\ Handle => LinkInv'
  <1> SUFFICES ASSUME LinkInv, Handle  PROVE LinkInv'
    OBVIOUS
  <1> DEFINE event == Head(events)
  <1>1. /\ todo = <<>> /\ events # <<>> /\ todo' = Calls(event) /\ events' = Tail(events)
        /\ UNCHANGED <<driverVars, wifi_connected, aborted, taskVars, provisioned, losses>>
        /\ IF event = "GOT_SSID_PSWD" THEN received' \in {"good", "bad"}
                                      ELSE UNCHANGED received
    BY DEF Handle
  <1>2. /\ event \in Events /\ events' \in Seq(Events) /\ Len(events') = Len(events) - 1
        /\ \A i \in 1 .. Len(events') : events'[i] = events[i + 1]
        /\ event = events[1] /\ Len(events) \in Nat \ {0}
    BY SMT, <1>1, LinkTypes
  <1>3. /\ event = "STA_START" => todo' = <<"create_task">>
        /\ event = "SEND_ACK_DONE" => todo' = <<"set_done">>
        /\ event = "STA_DISCONNECTED" => todo' = <<"flag_0", "connect", "clear_bit">>
        /\ event = "STA_GOT_IP" => todo' = <<"flag_1", "set_connected">>
        /\ event = "GOT_SSID_PSWD" => todo' = <<"disconnect", "set_config", "connect">>
    BY SMT, <1>1 DEF Calls, CallTable, OnLoss, OnAddress, OnCredentials
  <1>4. todo' \in Remainders
    BY <1>2, <1>3 DEF Events, Remainders
  <1>5. \A other : Waits(other) => other = event \/ Waits(other)'
    <2> SUFFICES ASSUME NEW other, Waits(other), other # event
                 PROVE  Waits(other)'
      OBVIOUS
    <2>1. PICK i \in 1 .. Len(events) : events[i] = other
      BY DEF Waits
    <2>2. i - 1 \in 1 .. Len(events') /\ events'[i - 1] = other
      BY SMT, <1>2, <2>1
    <2> QED  BY <2>2 DEF Waits
  <1>6. received' \in {"none", "good", "bad"}
    BY <1>1, LinkTypes
  <1>8. RoomInv'
    <2>1. Len(events) <= MaxEvents + 1 /\ MaxEvents \in Nat
      BY LinkTypes DEF LinkInv, RoomInv
    <2>2. Len(events') <= MaxEvents /\ Len(events') <= MaxEvents + 1
      BY SMT, <1>2, <2>1
    <2> QED  BY <2>2 DEF RoomInv
  <1>9. TypeOK'
    <2>1. losses' \in 0 .. MaxLosses
      BY <1>1 DEF LinkInv, TypeOK
    <2> QED  BY <1>1, <1>2, <1>4, <1>6, <1>8, <2>1, LinkTypes, TypeFromParts
             DEF driverVars, taskVars
  <1>10. FlagInv'
    <2>1. FlagNow = wifi_connected
      BY SMT, <1>1 DEF FlagNow
    <2>2. FlagNow' = IF event = FlagEvent(0) THEN 0
                     ELSE IF event = FlagEvent(1) THEN 1 ELSE FlagNow
      <3>1. FlagEvent(0) = "STA_DISCONNECTED" /\ FlagEvent(1) = "STA_GOT_IP"
        BY SMT DEF FlagEvent
      <3>2. CASE event = "STA_DISCONNECTED"
        BY <1>3, <3>1, <3>2 DEF FlagNow
      <3>3. CASE event = "STA_GOT_IP"
        <4>1. todo' # <<"flag_0", "connect", "clear_bit">>
          BY SMT, <1>3, <3>3
        <4> QED  BY <1>3, <3>1, <3>3, <4>1 DEF FlagNow
      <3>4. CASE event \notin {"STA_DISCONNECTED", "STA_GOT_IP"}
        <4>1. /\ todo' # <<"flag_0", "connect", "clear_bit">>
              /\ todo' # <<"flag_1", "set_connected">>
          BY SMT, <1>2, <1>3, <3>4 DEF Events
        <4> QED  BY <1>1, <2>1, <3>1, <3>4, <4>1 DEF FlagNow
      <3> QED  BY <3>2, <3>3, <3>4
    <2>3. \A value \in {0, 1} :
             Becomes(events, FlagNow, value) => Becomes(events', FlagNow', value)
      BY <1>1, <2>2, LinkTypes, BecomesHandled
    <2> QED  BY SMT, <1>1, <2>3 DEF FlagInv, LinkInv, driverVars
  <1>11. RetryInv'
    <2>1. todo \notin RetryCalls
      BY SMT, <1>1 DEF RetryCalls
    <2>2. event = "STA_DISCONNECTED" => todo' \in RetryCalls
      BY <1>3 DEF RetryCalls
    <2> QED  BY <1>1, <1>5, <2>1, <2>2 DEF RetryInv, LinkInv, driverVars
  <1>12. ConfigInv'
    <2>1. todo' \in ConfigCalls => event = "GOT_SSID_PSWD"
      BY SMT, <1>2, <1>3 DEF Events, ConfigCalls
    <2>2. todo' # <<"set_config", "connect">>
      BY SMT, <1>2, <1>3 DEF Events
    <2> QED  BY <1>1, <2>1, <2>2 DEF ConfigInv, LinkInv
  <1> QED  BY <1>4, <1>8, <1>9, <1>10, <1>11, <1>12 DEF LinkInv
(* A call that posts nothing and leaves flag, link and credentials alone,   *)
(* and does not start a retry or a configuration.                           *)
LEMMA PlainCall ==
    ASSUME LinkInv, todo' \in Remainders, todo' \notin RetryCalls,
           todo \notin RetryCalls, FlagNow' = FlagNow,
           wifi_connected' \in {0, 1},
           bits' \subseteq {CONNECTED, DONE}, uxBits' \subseteq {CONNECTED, DONE},
           task' \in {"none", "start", "call_wait", "wait", "run", "deleted"},
           UNCHANGED <<driverVars, events, received, aborted, provisioned, losses>>
    PROVE  LinkInv'
  <1>1. todo' \notin ConfigCalls /\ todo' # <<"disconnect", "set_config", "connect">>
        /\ todo' # <<"set_config", "connect">>
    BY DEF ConfigCalls, RetryCalls
  <1>2. RoomInv'
    BY <1>1 DEF LinkInv, RoomInv
  <1>3. TypeOK'
    <2>1. losses' \in 0 .. MaxLosses
      BY DEF LinkInv, TypeOK
    <2> QED  BY <1>2, <2>1, LinkTypes, TypeFromParts DEF driverVars
  <1>4. FlagInv'
    BY DEF LinkInv, FlagInv, driverVars
  <1>5. RetryInv' /\ ConfigInv'
    BY <1>1 DEF LinkInv, RetryInv, ConfigInv, Waits, driverVars
  <1> QED  BY <1>2, <1>3, <1>4, <1>5 DEF LinkInv

(* The flag is set as FlagNow has it already.                               *)
LEMMA SetFlagKeeps == LinkInv /\ (\E value \in {0, 1} : SetFlag(value)) => LinkInv'
  <1> SUFFICES ASSUME LinkInv, NEW value \in {0, 1}, SetFlag(value)
               PROVE  LinkInv'
    OBVIOUS
  <1>1. /\ Call(IF value = 1 THEN "flag_1" ELSE "flag_0") /\ wifi_connected' = value
        /\ UNCHANGED <<driverVars, events, received, aborted, taskVars, provisioned,
                       losses>>
    BY DEF SetFlag
  <1>2. CASE value = 1
    <2>1. todo = <<"flag_1", "set_connected">> /\ todo' = <<"set_connected">>
      BY <1>1, <1>2, NextCall, LinkTypes
    <2>2. /\ todo # <<"flag_0", "connect", "clear_bit">> /\ todo \notin RetryCalls
          /\ todo' # <<"flag_0", "connect", "clear_bit">>
          /\ todo' # <<"flag_1", "set_connected">> /\ todo' \notin RetryCalls
      BY SMT, <2>1 DEF RetryCalls
    <2>3. FlagNow' = FlagNow
      BY <1>1, <1>2, <2>1, <2>2 DEF FlagNow
    <2>4. todo' \in Remainders
      BY <2>1 DEF Remainders
    <2> QED  BY <1>1, <2>2, <2>3, <2>4, LinkTypes, PlainCall DEF taskVars
  <1>3. CASE value = 0
    <2>1. /\ todo = <<"flag_0", "connect", "clear_bit">>
          /\ todo' = <<"connect", "clear_bit">>
      BY SMT, <1>1, <1>3, NextCall, LinkTypes
    <2>2. /\ todo' # <<"flag_0", "connect", "clear_bit">>
          /\ todo' # <<"flag_1", "set_connected">>
          /\ todo' # <<"disconnect", "set_config", "connect">>
          /\ todo' # <<"set_config", "connect">>
      BY SMT, <2>1
    <2>3. FlagNow' = FlagNow
      BY <1>1, <1>3, <2>1, <2>2 DEF FlagNow
    <2>4. todo' \in Remainders /\ todo' \in RetryCalls /\ todo' \notin ConfigCalls
      BY <2>1, <2>2 DEF Remainders, RetryCalls, ConfigCalls
    <2>5. RoomInv'
      BY <1>1, <2>2 DEF LinkInv, RoomInv
    <2>6. TypeOK'
      <3>1. losses' \in 0 .. MaxLosses
        BY <1>1 DEF LinkInv, TypeOK
      <3> QED  BY <1>1, <2>4, <2>5, <3>1, LinkTypes, TypeFromParts
               DEF driverVars, taskVars
    <2>7. FlagInv'
      BY <1>1, <2>3 DEF LinkInv, FlagInv, driverVars
    <2>8. RetryInv' /\ ConfigInv'
      BY <1>1, <2>2, <2>4 DEF LinkInv, RetryInv, ConfigInv, Waits, driverVars
    <2> QED  BY <2>4, <2>5, <2>6, <2>7, <2>8 DEF LinkInv
  <1> QED  BY <1>2, <1>3

(* The calls that concern only the event group and its task.                *)
LEMMA EventGroupKeeps ==
    ASSUME LinkInv,
           \/ CreateTask
           \/ ClearConnected
           \/ \E bit \in {CONNECTED, DONE} : SetEventBit(bit)
    PROVE  LinkInv'
  <1>1. /\ todo \in {<<"create_task">>, <<"clear_bit">>, <<"set_connected">>, <<"set_done">>}
        /\ todo' = <<>>
    BY LinkTypes, NextCall DEF CreateTask, ClearConnected, SetEventBit
  <1>2. /\ todo \notin RetryCalls /\ todo' \notin RetryCalls /\ todo' \in Remainders
    BY SMT, <1>1 DEF RetryCalls, Remainders
  <1>3. UNCHANGED <<driverVars, events, received, wifi_connected, aborted, provisioned,
                    losses>>
    BY DEF CreateTask, ClearConnected, SetEventBit
  <1>4. FlagNow' = FlagNow
    <2>1. /\ todo # <<"flag_0", "connect", "clear_bit">> /\ todo # <<"flag_1", "set_connected">>
          /\ todo' # <<"flag_0", "connect", "clear_bit">> /\ todo' # <<"flag_1", "set_connected">>
      BY SMT, <1>1
    <2> QED  BY <1>3, <2>1 DEF FlagNow
  <1>5. /\ bits' \subseteq {CONNECTED, DONE} /\ uxBits' \subseteq {CONNECTED, DONE}
        /\ task' \in {"none", "start", "call_wait", "wait", "run", "deleted"}
    BY LinkTypes DEF CreateTask, ClearConnected, SetEventBit, SetBits
  <1> QED  BY <1>2, <1>3, <1>4, <1>5, LinkTypes, PlainCall
(* esp_wifi_connect ends the wait of an idle station that has credentials.  *)
LEMMA ConnectKeeps == LinkInv /\ Connect => LinkInv'
  <1> SUFFICES ASSUME LinkInv, Connect  PROVE LinkInv'
    OBVIOUS
  <1>1. /\ link' = (IF link = "idle" /\ config # "none" THEN "connecting" ELSE link)
        /\ UNCHANGED <<config, smartconfig, events, received, wifi_connected, aborted,
                       taskVars, provisioned, losses>>
    BY DEF Connect
  <1>2. \/ todo = <<"connect", "clear_bit">> /\ todo' = <<"clear_bit">>
        \/ todo = <<"connect">> /\ todo' = <<>>
    BY NextCall, LinkTypes DEF Connect
  <1>3. /\ todo' \notin ConfigCalls /\ todo' # <<"disconnect", "set_config", "connect">>
        /\ todo' # <<"set_config", "connect">> /\ todo' \in Remainders
    BY SMT, <1>2 DEF ConfigCalls, Remainders
  <1>4. RoomInv'
    BY <1>1, <1>3 DEF LinkInv, RoomInv
  <1>5. TypeOK'
    <2>1. losses' \in 0 .. MaxLosses
      BY <1>1 DEF LinkInv, TypeOK
    <2>2. link' \in {"idle", "connecting", "associated", "ip"}
      BY <1>1, LinkTypes
    <2> QED  BY <1>1, <1>3, <1>4, <2>1, <2>2, LinkTypes, TypeFromParts DEF taskVars
  <1>6. FlagInv'
    <2>1. /\ todo # <<"flag_0", "connect", "clear_bit">> /\ todo # <<"flag_1", "set_connected">>
          /\ todo' # <<"flag_0", "connect", "clear_bit">> /\ todo' # <<"flag_1", "set_connected">>
      BY SMT, <1>2
    <2>2. FlagNow' = FlagNow
      BY <1>1, <2>1 DEF FlagNow
    <2>3. link' = "ip" => link = "ip"
      BY <1>1
    <2>4. link' \in {"idle", "connecting"} => link \in {"idle", "connecting"}
      BY <1>1
    <2> QED  BY <1>1, <2>2, <2>3, <2>4 DEF LinkInv, FlagInv
  <1>7. RetryInv'
    <2>1. link' = "idle" => link = "idle" /\ config = "none"
      BY <1>1
    <2> QED  BY <1>1, <2>1 DEF LinkInv, RetryInv
  <1>8. ConfigInv'
    BY <1>1, <1>3 DEF LinkInv, ConfigInv, Waits
  <1> QED  BY <1>3, <1>4, <1>5, <1>6, <1>7, <1>8 DEF LinkInv

(* esp_wifi_disconnect leaves an idle station; the event it posts tells so. *)
LEMMA DisconnectKeeps == LinkInv /\ Disconnect => LinkInv'
  <1> SUFFICES ASSUME LinkInv, Disconnect  PROVE LinkInv'
    OBVIOUS
  <1>1. /\ link' = "idle"
        /\ IF link # "idle" THEN Post("STA_DISCONNECTED") ELSE UNCHANGED events
        /\ UNCHANGED <<config, smartconfig, received, wifi_connected, aborted, taskVars,
                       provisioned, losses>>
    BY DEF Disconnect
  <1>2. /\ todo = <<"disconnect", "set_config", "connect">>
        /\ todo' = <<"set_config", "connect">>
    BY NextCall, LinkTypes DEF Disconnect
  <1>3. /\ events' \in Seq(Events) /\ Len(events') <= Len(events) + 1
        /\ \A event : Waits(event)' => Waits(event) \/ event = "STA_DISCONNECTED"
    <2>1. CASE link # "idle"
      <3>1. "STA_DISCONNECTED" \in Events
        BY DEF Events
      <3>2. /\ events' \in Seq(Events) /\ Len(events') = Len(events) + 1
            /\ \A event : Waits(event)' => Waits(event) \/ event = "STA_DISCONNECTED"
        BY <1>1, <2>1, <3>1, LinkTypes, Posted
      <3> QED  BY SMT, <3>2, LinkTypes
    <2>2. CASE link = "idle"
      <3>1. events' = events
        BY <1>1, <2>2
      <3>2. \A event : Waits(event)' => Waits(event)
        BY <3>1 DEF Waits
      <3>3. Len(events) <= Len(events) + 1
        BY SMT, LinkTypes
      <3> QED  BY <3>1, <3>2, <3>3, LinkTypes
    <2> QED  BY <2>1, <2>2
  <1>4. /\ todo' # <<"disconnect", "set_config", "connect">> /\ todo' \in Remainders
        /\ todo' \in RetryCalls /\ todo \in ConfigCalls
    BY SMT, <1>2 DEF ConfigCalls, RetryCalls, Remainders
  <1>5. RoomInv'
    <2>1. Len(events') \in Nat
      BY <1>3, LenProperties
    <2> QED  BY SMT, <1>2, <1>3, <1>4, <2>1, LinkTypes DEF LinkInv, RoomInv
  <1>6. TypeOK'
    <2>1. losses' \in 0 .. MaxLosses
      BY <1>1 DEF LinkInv, TypeOK
    <2> QED  BY <1>1, <1>3, <1>4, <1>5, <2>1, LinkTypes, TypeFromParts DEF taskVars
  <1>7. FlagInv'
    <2>1. /\ todo # <<"flag_0", "connect", "clear_bit">> /\ todo # <<"flag_1", "set_connected">>
          /\ todo' # <<"flag_0", "connect", "clear_bit">> /\ todo' # <<"flag_1", "set_connected">>
      BY SMT, <1>2
    <2>2. FlagNow' = FlagNow
      BY <1>1, <2>1 DEF FlagNow
    <2>3. Becomes(events', FlagNow', 0)
      <3>1. CASE link # "idle"
        <4>1. events' = Append(events, FlagEvent(0))
          BY SMT, <1>1, <3>1 DEF Post, FlagEvent
        <4> QED  BY <4>1, LinkTypes, BecomesPosted
      <3>2. CASE link = "idle"
        BY <1>1, <2>2, <3>2 DEF LinkInv, FlagInv
      <3> QED  BY <3>1, <3>2
    <2> QED  BY <1>1, <2>3 DEF FlagInv
  <1>8. RetryInv'
    BY <1>1, <1>4 DEF LinkInv, RetryInv
  <1>9. ConfigInv'
    BY <1>1, <1>3, <1>4 DEF LinkInv, ConfigInv
  <1> QED  BY <1>4, <1>5, <1>6, <1>7, <1>8, <1>9 DEF LinkInv

(* esp_wifi_set_config takes the credentials of the event.                  *)
LEMMA SetConfigKeeps == LinkInv /\ SetConfig => LinkInv'
  <1> SUFFICES ASSUME LinkInv, SetConfig  PROVE LinkInv'
    OBVIOUS
  <1>0. todo = <<"set_config", "connect">> /\ todo' = <<"connect">>
    BY NextCall, LinkTypes DEF SetConfig
  <1>1. /\ config' = received /\ provisioned' = TRUE /\ received' = "none"
        /\ UNCHANGED <<link, smartconfig, events, wifi_connected, aborted, taskVars, losses>>
    BY <1>0 DEF SetConfig, LinkInv, ConfigInv
  <1>2. todo = <<"set_config", "connect">> /\ todo' = <<"connect">>
    BY <1>0
  <1>3. /\ todo' # <<"disconnect", "set_config", "connect">> /\ todo' \in Remainders
        /\ todo' \in RetryCalls /\ todo \in ConfigCalls /\ todo' \notin ConfigCalls
        /\ todo' # <<"set_config", "connect">>
    BY SMT, <1>2 DEF ConfigCalls, RetryCalls, Remainders
  <1>4. received # "none"
    BY <1>3 DEF LinkInv, ConfigInv
  <1>5. RoomInv'
    BY <1>1, <1>3 DEF LinkInv, RoomInv
  <1>6. TypeOK'
    <2>1. losses' \in 0 .. MaxLosses
      BY <1>1 DEF LinkInv, TypeOK
    <2> QED  BY <1>1, <1>3, <1>5, <2>1, LinkTypes, TypeFromParts DEF taskVars
  <1>7. FlagInv'
    <2>1. /\ todo # <<"flag_0", "connect", "clear_bit">> /\ todo # <<"flag_1", "set_connected">>
          /\ todo' # <<"flag_0", "connect", "clear_bit">> /\ todo' # <<"flag_1", "set_connected">>
      BY SMT, <1>2
    <2>2. FlagNow' = FlagNow
      BY <1>1, <2>1 DEF FlagNow
    <2> QED  BY <1>1, <2>2 DEF LinkInv, FlagInv
  <1>8. RetryInv' /\ ConfigInv'
    BY <1>1, <1>3, <1>4 DEF LinkInv, RetryInv, ConfigInv, Waits
  <1> QED  BY <1>3, <1>5, <1>6, <1>7, <1>8 DEF LinkInv
(* A step of the driver or the library: it leaves the calls and the flag    *)
(* alone, may post one event, and keeps the promises about the others.      *)
LEMMA DriverStep ==
    ASSUME LinkInv,
           UNCHANGED <<config, handlerVars, taskVars, provisioned>>,
           link' \in {"idle", "connecting", "associated", "ip"},
           smartconfig' \in {"off", "listening", "got", "acked"},
           losses' \in 0 .. MaxLosses,
           \/ UNCHANGED events
           \/ \E event \in Events : Post(event) /\ Len(events) < MaxEvents,
           link = "idle" => link' = "idle",
           link # "idle" /\ link' = "idle" => Waits("STA_DISCONNECTED")',
           FlagInv'
    PROVE  LinkInv'
  <1>1. /\ events' \in Seq(Events) /\ Len(events') \in Nat
        /\ Len(events') <= Len(events) \/ Len(events') <= MaxEvents
        /\ \A event : Waits(event) => Waits(event)'
    <2>1. CASE UNCHANGED events
      <3>1. \A event : Waits(event) => Waits(event)'
        BY <2>1 DEF Waits
      <3>2. /\ events' \in Seq(Events) /\ Len(events') \in Nat
            /\ Len(events') <= Len(events)
        BY SMT, <2>1, LinkTypes
      <3> QED  BY <3>1, <3>2
    <2>2. ASSUME NEW event \in Events, Post(event), Len(events) < MaxEvents
          PROVE  /\ events' \in Seq(Events) /\ Len(events') \in Nat
                 /\ Len(events') <= Len(events) \/ Len(events') <= MaxEvents
                 /\ \A other : Waits(other) => Waits(other)'
      <3>1. /\ events' \in Seq(Events) /\ Len(events') = Len(events) + 1
            /\ \A other : Waits(other) => Waits(other)'
        BY <2>2, LinkTypes, Posted
      <3>2. Len(events') \in Nat /\ Len(events') <= MaxEvents
        BY SMT, <2>2, <3>1, LinkTypes
      <3> QED  BY <3>1, <3>2
    <2> QED  BY <2>1, <2>2
  <1>2. RoomInv'
    <2>1. /\ Len(events) <= MaxEvents + 1 /\ MaxEvents \in Nat /\ Len(events) \in Nat
          /\ todo = <<"disconnect", "set_config", "connect">> => Len(events) <= MaxEvents
          /\ todo' = todo
      BY LinkTypes DEF LinkInv, RoomInv, handlerVars
    <2>2. /\ Len(events') <= MaxEvents + 1
          /\ Len(events) <= MaxEvents => Len(events') <= MaxEvents
      BY SMT, <1>1, <2>1
    <2> QED  BY <2>1, <2>2 DEF RoomInv
  <1>3. TypeOK'
    BY <1>1, <1>2, LinkTypes, TypeFromParts DEF handlerVars, taskVars
  <1>4. RetryInv'
    BY <1>1 DEF LinkInv, RetryInv, handlerVars
  <1>5. ConfigInv'
    BY DEF LinkInv, ConfigInv, ConfigCalls, handlerVars
  <1> QED  BY <1>2, <1>3, <1>4, <1>5, LinkTypes DEF LinkInv, handlerVars

(* The driver and the smartconfig library.                                  *)
LEMMA DriverKeeps == LinkInv /\ Driver => LinkInv'
  <1> SUFFICES ASSUME LinkInv, Driver  PROVE LinkInv'
    OBVIOUS
  <1>0. /\ losses \in 0 .. MaxLosses /\ losses \in Nat /\ MaxLosses \in Nat
        /\ {"STA_GOT_IP", "STA_DISCONNECTED", "GOT_SSID_PSWD", "SEND_ACK_DONE"}
              \subseteq Events
    BY ConstantsAssumption DEF LinkInv, TypeOK, Events
  <1>1. UNCHANGED <<config, handlerVars, taskVars, provisioned>>
    BY DEF Driver, Associate, GetIp, LoseIp, LoseLink, GotCredentials,
           SmartconfigTimeout, SendAck
  <1>2. FlagNow' = FlagNow /\ FlagNow \in {0, 1}
    BY <1>1, LinkTypes DEF FlagNow, handlerVars
  <1>4. CASE Associate
    <2>1. link = "connecting" /\ link' = "associated" /\ UNCHANGED <<events, smartconfig, losses>>
      BY <1>4 DEF Associate
    <2>2. FlagInv'
      BY <2>1 DEF FlagInv
    <2> QED  BY <1>0, <1>1, <2>1, <2>2, LinkTypes, DriverStep
  <1>5. CASE LoseIp
    <2>1. /\ link = "ip" /\ link' = "associated" /\ losses < MaxLosses /\ losses' = losses + 1
          /\ UNCHANGED <<events, smartconfig>>
      BY <1>5 DEF LoseIp
    <2>2. losses' \in 0 .. MaxLosses
      BY SMT, <1>0, <2>1
    <2>3. FlagInv'
      BY <2>1 DEF FlagInv
    <2> QED  BY <1>0, <1>1, <2>1, <2>2, <2>3, LinkTypes, DriverStep
  <1>6. CASE GetIp
    <2>1. /\ link = "associated" /\ link' = "ip" /\ Len(events) < MaxEvents
          /\ Post("STA_GOT_IP") /\ UNCHANGED <<smartconfig, losses>>
      BY <1>6 DEF GetIp, MayPost
    <2>2. Becomes(events', FlagNow', 1)
      <3>1. events' = Append(events, FlagEvent(1))
        BY <2>1 DEF Post, FlagEvent
      <3> QED  BY <3>1, LinkTypes, BecomesPosted
    <2>3. FlagInv'
      BY <2>1, <2>2 DEF FlagInv
    <2> QED  BY <1>0, <1>1, <2>1, <2>3, LinkTypes, DriverStep
  <1>7. CASE LoseLink
    <2>1. /\ link # "idle" /\ link' = "idle" /\ Len(events) < MaxEvents
          /\ Post("STA_DISCONNECTED") /\ UNCHANGED smartconfig
          /\ \/ losses' = losses
             \/ losses < MaxLosses /\ losses' = losses + 1
      BY <1>7 DEF LoseLink, MayPost
    <2>2. losses' \in 0 .. MaxLosses
      BY SMT, <1>0, <2>1
    <2>3. Becomes(events', FlagNow', 0)
      <3>1. events' = Append(events, FlagEvent(0))
        BY SMT, <2>1 DEF Post, FlagEvent
      <3> QED  BY <3>1, LinkTypes, BecomesPosted
    <2>4. FlagInv'
      BY <2>1, <2>3 DEF FlagInv
    <2>5. Waits("STA_DISCONNECTED")'
      BY <1>0, <2>1, LinkTypes, Posted
    <2> QED  BY <1>0, <1>1, <2>1, <2>2, <2>4, <2>5, LinkTypes, DriverStep
  <1>8. CASE GotCredentials \/ SendAck
    <2>1. PICK event \in Events \ {FlagEvent(0), FlagEvent(1)} :
             /\ Post(event) /\ Len(events) < MaxEvents /\ UNCHANGED <<link, losses>>
             /\ smartconfig' \in {"got", "acked"}
      <3>1. {"GOT_SSID_PSWD", "SEND_ACK_DONE"} \subseteq Events \ {FlagEvent(0), FlagEvent(1)}
        BY SMT DEF Events, FlagEvent
      <3> QED  BY <1>8, <3>1 DEF GotCredentials, SendAck, MayPost
    <2>2. \A value \in {0, 1} :
             Becomes(events, FlagNow, value) => Becomes(events', FlagNow', value)
      BY <1>2, <2>1, LinkTypes, BecomesKept DEF Post
    <2>3. FlagInv'
      BY <2>1, <2>2 DEF LinkInv, FlagInv
    <2>4. /\ link' \in {"idle", "connecting", "associated", "ip"}
          /\ smartconfig' \in {"off", "listening", "got", "acked"}
          /\ losses' \in 0 .. MaxLosses
      BY <1>0, <2>1, LinkTypes
    <2> QED  BY <1>1, <2>1, <2>3, <2>4, DriverStep
  <1>9. CASE SmartconfigTimeout
    <2>1. /\ smartconfig' = "listening" /\ losses < MaxLosses /\ losses' = losses + 1
          /\ UNCHANGED <<link, events>>
      BY <1>9 DEF SmartconfigTimeout
    <2>2. losses' \in 0 .. MaxLosses
      BY SMT, <1>0, <2>1
    <2>3. FlagInv'
      BY <1>2, <2>1 DEF LinkInv, FlagInv
    <2> QED  BY <1>1, <2>1, <2>2, <2>3, LinkTypes, DriverStep
  <1> QED  BY <1>4, <1>5, <1>6, <1>7, <1>8, <1>9 DEF Driver

-------------------------------------------------------------------------------
(* LinkInv holds on every path through events, calls and losses.            *)
THEOREM LinkInductive == Spec => []LinkInv
  <1>1. LinkInv /\ [Next]_vars => LinkInv'
    <2> SUFFICES ASSUME LinkInv, [Next]_vars  PROVE LinkInv'
      OBVIOUS
    <2>1. CASE Handler
      BY <2>1, HandleKeeps, SetFlagKeeps, EventGroupKeeps, ConnectKeeps, DisconnectKeeps,
         SetConfigKeeps DEF Handler
    <2>2. CASE SmartconfigTask
      <3>1. /\ UNCHANGED <<link, config, events, handlerVars, provisioned, losses>>
            /\ smartconfig' \in {"off", "listening", "got", "acked"}
            /\ task' \in {"none", "start", "call_wait", "wait", "run", "deleted"}
            /\ bits' \subseteq {CONNECTED, DONE} /\ uxBits' \subseteq {CONNECTED, DONE}
        BY <2>2, LinkTypes
           DEF SmartconfigTask, StartSmartconfig, WaitBits, LookAtBits, driverVars
      <3>2. TypeOK'
        BY <3>1 DEF LinkInv, TypeOK, handlerVars
      <3> QED  BY <3>1, <3>2, LinkKept DEF handlerVars
    <2>3. CASE Driver
      BY <2>3, DriverKeeps
    <2>4. CASE UNCHANGED vars
      <3>1. TypeOK'
        BY <2>4 DEF LinkInv, TypeOK, vars, driverVars, handlerVars, taskVars
      <3> QED  BY <2>4, <3>1, LinkKept DEF vars, driverVars, handlerVars
    <2> QED  BY <2>1, <2>2, <2>3, <2>4 DEF Next
  <1> QED  BY <1>1, InitiallyLinked, PTL DEF Spec

(* The variables of the link keep their types: never more than one event    *)
(* waits beyond those the driver may post, for the disconnect of a new      *)
(* configuration.                                                           *)
THEOREM TypeCorrect == Spec => []TypeOK
  <1>1. LinkInv => TypeOK
    BY DEF LinkInv
  <1> QED  BY <1>1, LinkInductive, PTL

(* Once the events are handled wifi_connected agrees with the link, however *)
(* far event_handler was behind the driver.                                 *)
THEOREM FlagCorrect == Spec => []FlagSettles
  <1>1. LinkInv => FlagSettles
    <2> SUFFICES ASSUME LinkInv, Settled, NEW value \in {0, 1},
                        Becomes(events, FlagNow, value)
                 PROVE  wifi_connected = value
      BY DEF FlagSettles, LinkInv, FlagInv
    <2>1. FlagNow = wifi_connected
      BY SMT DEF Settled, FlagNow
    <2>2. 1 .. Len(events) = {}
      BY SMT DEF Settled
    <2> QED  BY <2>1, <2>2 DEF Becomes
  <1> QED  BY <1>1, LinkInductive, PTL

(* A provisioned station is never left without an attempt to connect, since *)
(* every way to an idle station ends in the one retry of event_handler.     *)
THEOREM Retried == Spec => []NeverParked
  <1>1. LinkInv => NeverParked
    <2> SUFFICES ASSUME LinkInv, provisioned, Settled, link = "idle"  PROVE FALSE
      BY DEF NeverParked
    <2>1. todo \notin RetryCalls /\ ~Waits("STA_DISCONNECTED")
      BY SMT DEF Settled, RetryCalls, Waits
    <2> QED  BY <2>1 DEF LinkInv, RetryInv
  <1> QED  BY <1>1, LinkInductive, PTL

(* Credentials that come while the station connects with others are set     *)
(* after the disconnect of the handler, when nothing can start an attempt.  *)
THEOREM NoAbort == Spec => []NeverAborts
  <1>1. LinkInv => NeverAborts
    BY DEF LinkInv, ConfigInv, NeverAborts
  <1> QED  BY <1>1, LinkInductive, PTL
===============================================================================
