--------------------------- MODULE MqttLifecycle ---------------------------
(***************************************************************************)
(* The life cycle of the resident MQTT client (main/mqtt_comm/             *)
(* mqtt_handler.c, the MQTT handlers of main/web/web_server.c).            *)
(*                                                                         *)
(* Four tasks act on one esp_mqtt client: the web server saves settings,   *)
(* stops and tests the connection; mqtt_restart_task applies saved         *)
(* settings; mqtt_supervisor_task stops the client after too many refused  *)
(* logins; and the client's own task delivers the broker's events to       *)
(* mqtt_event_handler().  s_lifecycle_mutex serialises the first three,    *)
(* nothing serialises them with the events.                                *)
(*                                                                         *)
(* Settings are [v, on]: a version, which decides the subscribed topics,   *)
(* and the "enabled" switch.  The esp_mqtt client is modelled from how it  *)
(* is used: it dials by itself while auto-reconnect is on, or once on      *)
(* request; a disconnect request withdraws that and closes the link when   *)
(* the client's task gets to it.                                           *)
(***************************************************************************)
EXTENDS Integers, Sequences

CONSTANTS MaxSaves,      \* bound: settings saved over the web
          MaxDials,      \* bound: connection attempts
          MaxMqttFaults, \* bound: failing calls
          AuthLimit      \* refused logins in a row that suspend the client

ASSUME CallsAssumption == MaxSaves \in Nat /\ MaxDials \in Nat

VARIABLES
  saved,     \* runtime_config's MQTT settings
  web,       \* what the web server's task does next, with the settings
  pending,   \* s_mqtt_restart_pending
  restart,   \* what mqtt_restart_task does next, with the settings it read
  notified,  \* the supervisor's task notification
  delay,     \* the supervisor has taken it and waits its 50 ms
  mutex,     \* s_lifecycle_mutex: who holds it
  started,   \* s_client_started
  applied,   \* the version of the settings that the client has
  auto,      \* its auto-reconnect
  request,   \* esp_mqtt_client_reconnect() was called
  drop,      \* esp_mqtt_client_disconnect() was called
  brokerLink,      \* the connection to the broker
  event,     \* where mqtt_event_handler() is
  conn,      \* s_conn_state
  mqttSuspended, refused,  \* s_suspended, s_consecutive_auth_failures
  topics,    \* s_subscriptions
  subs,      \* what the broker knows of them
  missed,    \* history: those whose SUBSCRIBE failed on this connection
  overtaken, \* history: MQTT was switched off among saved settings, behind
             \* a restart that read others or before a test of the link
  saves, dials, mqttFaults

settings   == <<saved, overtaken>>
atBroker   == <<subs, missed>>
mqttTasks  == <<settings, web, pending, restart, notified, delay, mutex>>
mqttClient == <<started, applied, auto, request, drop>>
mqttLink   == <<brokerLink, event, conn, mqttSuspended, refused, atBroker>>
mqttVars   == <<mqttTasks, mqttClient, mqttLink, topics, saves, dials,
                mqttFaults>>

\* mqtt_register_runtime_subscriptions(): one command topic, or the cloud's
TopicsOf(v) == IF v % 2 = 0 THEN <<"command">>
               ELSE <<"attributes", "push">>

MqttFault == mqttFaults < MaxMqttFaults /\ mqttFaults' = mqttFaults + 1
Idle      == [at |-> "idle", set |-> [v |-> 0, on |-> TRUE]]
At(p, s)  == [at |-> p, set |-> s]

\* mqtt_init() has created the client, and started it if that is enabled
MqttInit ==
  /\ \E on \in BOOLEAN : /\ saved = [v |-> 0, on |-> on]
                         /\ started = on /\ mqttSuspended = ~on
  /\ web = Idle /\ pending = FALSE /\ restart = Idle
  /\ notified = FALSE /\ delay = FALSE /\ mutex = "free"
  /\ applied = 0 /\ auto = TRUE /\ request = FALSE /\ drop = FALSE
  /\ brokerLink = "down" /\ event = "none" /\ conn = "disconnected"
  /\ refused = 0 /\ topics = TopicsOf(0) /\ subs = {}
  /\ missed = {} /\ overtaken = FALSE
  /\ saves = 0 /\ dials = 0 /\ mqttFaults = 0
-----------------------------------------------------------------------------
\* mqtt_build_client_config(), esp_mqtt_set_config()
Configure(v, reconnect) == applied' = v /\ auto' = reconnect

(* mqtt_disconnect(), for the web server and the supervisor.  It loads the
   saved settings and switches auto-reconnect off. *)
StopClient ==
  /\ mutex = "free"
  /\ IF started
     THEN Configure(saved.v, FALSE) /\ request' = FALSE /\ drop' = TRUE
     ELSE UNCHANGED <<applied, auto, request, drop>>
  /\ conn' = "disconnected" /\ mqttSuspended' = TRUE
  /\ UNCHANGED <<started, mutex, mqttFaults>>

\* esp_mqtt_set_config() fails, or esp_mqtt_client_disconnect() after it
StopFails ==
  /\ mutex = "free" /\ started /\ MqttFault
  /\ \/ mqttSuspended' = FALSE /\ UNCHANGED <<applied, auto>>
     \/ mqttSuspended' = TRUE /\ Configure(saved.v, FALSE)
  /\ UNCHANGED <<started, request, drop, mutex, conn>>
-----------------------------------------------------------------------------
(* The web server. *)
WebUnchanged == UNCHANGED <<notified, delay, restart, brokerLink, event,
                            refused, topics, atBroker, dials>>

\* mqtt_config_put_handler(): a change of the report mode first stops the
\* client ("halt"); "enabled" is stored as the request has it
SaveSettings ==
  /\ web = Idle /\ saves < MaxSaves
  /\ saves' = saves + 1
  /\ \E p \in {"halt", "store"}, on \in BOOLEAN :
       web' = At(p, [v |-> saves + 1, on |-> on])
  /\ UNCHANGED <<settings, pending, mutex, mqttClient, conn, mqttSuspended,
                 mqttFaults>>
  /\ WebUnchanged

\* mqtt_disconnect_post_handler()
UserStops ==
  /\ web = Idle /\ saves < MaxSaves
  /\ saves' = saves + 1
  /\ saved' = [saved EXCEPT !.on = FALSE] /\ overtaken' = FALSE
  /\ web' = At("stop", saved')
  /\ UNCHANGED <<pending, mutex, mqttClient, conn, mqttSuspended, mqttFaults>>
  /\ WebUnchanged

WebStop ==
  /\ web.at \in {"halt", "stop"}
  /\ StopClient \/ StopFails
  /\ web' = IF web.at = "halt" THEN At("store", web.set) ELSE Idle
  /\ UNCHANGED <<settings, pending, saves>>
  /\ WebUnchanged

\* runtime_config_set(): an error ends the handler
WebStore ==
  /\ web.at = "store"
  /\ \/ /\ saved' = web.set /\ web' = At("signal", web.set)
        /\ overtaken' = (~web.set.on
                           /\ restart.at \notin {"idle", "begin", "stop"})
        /\ UNCHANGED mqttFaults
     \/ /\ MqttFault /\ web' = Idle
        /\ UNCHANGED settings
  /\ UNCHANGED <<pending, mutex, mqttClient, conn, mqttSuspended, saves>>
  /\ WebUnchanged

\* one restart task at a time: a second one is not started for what the
\* first has not read
WebSignal ==
  /\ web.at = "signal" /\ web' = Idle
  /\ overtaken' = (pending /\ overtaken)
  /\ \/ pending' = TRUE /\ UNCHANGED mqttFaults
        /\ restart' = IF pending THEN restart ELSE At("begin", Idle.set)
     \/ ~pending /\ MqttFault  \* xTaskCreate() fails
        /\ UNCHANGED <<pending, restart>>
  /\ UNCHANGED <<saved, notified, delay, mutex, mqttClient, mqttLink, topics,
                 saves, dials>>

\* a mutant reconnects a suspended client too
TestAnyway ==
  /\ web = Idle
  /\ web' = At("test", Idle.set)
  /\ UNCHANGED <<settings, pending, mutex, mqttClient, conn, mqttSuspended,
                 saves, mqttFaults>>
  /\ WebUnchanged

\* mqtt_test_connection(), mqtt_reconnect(): refused while suspended, which
\* is looked at before s_lifecycle_mutex is taken
TestConnection ==
  /\ web = Idle /\ ~mqttSuspended
  /\ web' = At("test", Idle.set)
  /\ overtaken' = (overtaken \/ (~saved.on /\ restart # Idle))
  /\ UNCHANGED <<saved, pending, mutex, mqttClient, conn, mqttSuspended,
                 saves, mqttFaults>>
  /\ WebUnchanged

Reconnect ==
  /\ web.at = "test" /\ mutex = "free"
  /\ request' = (started /\ brokerLink = "down" /\ event = "none")
  /\ web' = IF request' THEN At("wait", Idle.set) ELSE Idle
  /\ UNCHANGED <<settings, pending, mutex, started, applied, auto, drop, conn,
                 mqttSuspended, saves, mqttFaults>>
  /\ WebUnchanged

\* the test waits for the broker's answer, until its time is up
TestWaits ==
  /\ web.at = "wait" /\ web' = Idle
  /\ UNCHANGED <<settings, pending, mutex, mqttClient, conn, mqttSuspended,
                 saves, mqttFaults>>
  /\ WebUnchanged

WebStep == WebStop \/ WebStore \/ WebSignal \/ Reconnect \/ TestWaits
-----------------------------------------------------------------------------
(* mqtt_restart_task(). *)
RestartUnchanged ==
  UNCHANGED <<settings, web, notified, delay, brokerLink, event, saves,
              dials>>
RestartTo(p) == restart' = At(p, restart.set)

RestartBegins ==
  /\ restart.at = "begin" /\ mutex = "free"
  /\ IF saved.on
     THEN /\ mutex' = "restart"
          /\ restart' = At(IF started THEN "close" ELSE "config", saved)
          /\ mqttSuspended' = FALSE /\ refused' = 0
     ELSE /\ restart' = At("stop", saved)
          /\ UNCHANGED <<mutex, mqttSuspended, refused>>
  /\ UNCHANGED <<pending, mqttClient, conn, topics, atBroker, mqttFaults>>
  /\ RestartUnchanged

\* a mutant returns from an error with the mutex still taken
KeepMutex == RestartTo("end") /\ UNCHANGED mutex
GiveMutex == RestartTo("end") /\ mutex' = "free"

RestartCloses ==
  /\ restart.at = "close"
  /\ \/ /\ drop' = TRUE
        /\ RestartTo("config")
        /\ UNCHANGED <<mutex, mqttFaults>>
     \/ /\ MqttFault /\ GiveMutex
        /\ UNCHANGED drop
  /\ UNCHANGED <<pending, started, applied, auto, request, conn, mqttSuspended,
                 refused, topics, atBroker>>
  /\ RestartUnchanged

\* after 3 s at most, whether the link has closed or not
RestartConfigures ==
  /\ restart.at = "config"
  /\ \/ /\ Configure(restart.set.v, TRUE)
        /\ topics' = <<>>
        /\ RestartTo("topic")
        /\ UNCHANGED <<mutex, conn, mqttFaults>>
     \/ /\ MqttFault /\ GiveMutex
        /\ conn' = IF started THEN conn ELSE "error"
        /\ UNCHANGED <<applied, auto, topics>>
  /\ UNCHANGED <<pending, started, request, drop, mqttSuspended, refused,
                 atBroker>>
  /\ RestartUnchanged

\* mqtt_subscribe(): the table under its mutex, then the broker; what fails
\* is sent again on the next connection only
AddTopic ==
  /\ restart.at = "topic"
  /\ topics' = Append(topics, TopicsOf(restart.set.v)[Len(topics) + 1])
  /\ RestartTo("send")
  /\ UNCHANGED <<pending, mutex, mqttClient, conn, mqttSuspended, refused,
                 atBroker, mqttFaults>>
  /\ RestartUnchanged

SendTopic ==
  /\ restart.at = "send"
  /\ LET x == topics[Len(topics)]
     IN IF conn = "connected" /\ brokerLink = "up"
        THEN \/ subs' = subs \cup {x} /\ UNCHANGED <<missed, mqttFaults>>
             \/ MqttFault /\ missed' = missed \cup {x} /\ UNCHANGED subs
        ELSE UNCHANGED <<atBroker, mqttFaults>>
  /\ RestartTo(IF Len(topics) = Len(TopicsOf(restart.set.v))
               THEN "dial" ELSE "topic")
  /\ UNCHANGED <<pending, mutex, mqttClient, conn, mqttSuspended, refused,
                 topics>>
  /\ RestartUnchanged

\* esp_mqtt_client_reconnect(), or the first esp_mqtt_client_start()
RestartDials ==
  /\ restart.at = "dial"
  /\ GiveMutex
  /\ \/ /\ started
        /\ request' = (brokerLink = "down" /\ event = "none")
        /\ UNCHANGED <<started, conn, mqttFaults>>
     \/ /\ ~started
        /\ \/ started' = TRUE /\ conn' = "disconnected"
              /\ UNCHANGED mqttFaults
           \/ MqttFault /\ conn' = "error" /\ UNCHANGED started
        /\ UNCHANGED request
  /\ UNCHANGED <<pending, applied, auto, drop, mqttSuspended, refused, topics,
                 atBroker>>
  /\ RestartUnchanged

\* the settings are disabled: mqtt_disconnect()
RestartStops ==
  /\ restart.at = "stop"
  /\ StopClient \/ StopFails
  /\ RestartTo("end")
  /\ UNCHANGED <<pending, refused, topics, atBroker>>
  /\ RestartUnchanged

RestartEnds ==
  /\ restart.at = "end"
  /\ pending' = FALSE /\ restart' = Idle
  /\ UNCHANGED <<mutex, mqttClient, conn, mqttSuspended, refused, topics,
                 atBroker, mqttFaults>>
  /\ RestartUnchanged

RestartStep == \/ RestartBegins \/ RestartCloses \/ RestartConfigures
               \/ AddTopic \/ SendTopic \/ RestartDials \/ RestartStops
               \/ RestartEnds
-----------------------------------------------------------------------------
(* mqtt_supervisor_task(). *)
SupervisorWakes ==
  /\ notified /\ ~delay
  /\ notified' = FALSE /\ delay' = TRUE
  /\ UNCHANGED <<settings, web, pending, restart, mutex, mqttClient, mqttLink,
                 topics, saves, dials, mqttFaults>>

SupervisorStops ==
  /\ delay
  /\ StopClient \/ StopFails
  /\ delay' = FALSE
  /\ UNCHANGED <<settings, web, pending, restart, notified, brokerLink, event,
                 refused, topics, atBroker, saves, dials>>

SupervisorStep == SupervisorWakes \/ SupervisorStops
-----------------------------------------------------------------------------
(* The client's own task: the broker, and mqtt_event_handler(). *)
ClientKeeps == UNCHANGED <<settings, web, pending, restart, delay, mutex,
                           started, applied, auto, topics, saves>>
ClientUnchanged == ClientKeeps /\ UNCHANGED mqttFaults

Dial ==
  /\ started /\ brokerLink = "down" /\ event = "none"
  /\ auto \/ request
  /\ dials < MaxDials /\ dials' = dials + 1
  /\ request' = FALSE /\ drop' = FALSE
  /\ \/ brokerLink' = "up" /\ event' = "accepted"
        /\ subs' = {} /\ missed' = {}
     \/ event' = "refused" /\ UNCHANGED <<brokerLink, atBroker>>
  /\ UNCHANGED <<notified, conn, mqttSuspended, refused>>
  /\ ClientUnchanged

\* MQTT_EVENT_CONNECTED: the state first, then the table under its mutex
Accepted ==
  /\ event = "accepted"
  /\ conn' = "connected" /\ refused' = 0
  /\ event' = "resubscribe"
  /\ UNCHANGED <<notified, request, drop, brokerLink, mqttSuspended, atBroker,
                 dials>>
  /\ ClientUnchanged

\* a mutant trusts the session to have kept the subscriptions
NoResubscribe ==
  /\ event = "resubscribe" /\ event' = "none"
  /\ UNCHANGED <<notified, request, drop, brokerLink, conn, mqttSuspended,
                 refused, atBroker, dials>>
  /\ ClientUnchanged

\* esp_mqtt_client_subscribe() may fail, and its result is only logged
Resubscribe ==
  /\ event = "resubscribe" /\ event' = "none"
  /\ LET entered == {topics[i] : i \in DOMAIN topics}
     IN \E failing \in SUBSET entered :
          /\ subs' = subs \cup (entered \ failing)
          /\ missed' = missed \cup failing
          /\ IF failing = {} THEN UNCHANGED mqttFaults ELSE MqttFault
  /\ UNCHANGED <<notified, request, drop, brokerLink, conn, mqttSuspended,
                 refused, dials>>
  /\ ClientKeeps

\* MQTT_EVENT_ERROR with CONNACK 5, and mqtt_suspend_async()
Refused ==
  /\ event = "refused"
  /\ refused' = refused + 1 /\ conn' = "error"
  /\ event' = IF refused' >= AuthLimit THEN "suspend" ELSE "closed"
  /\ UNCHANGED <<notified, request, drop, brokerLink, mqttSuspended, atBroker,
                 dials>>
  /\ ClientUnchanged

SuspendAsync ==
  /\ event = "suspend" /\ event' = "closed"
  /\ mqttSuspended' = TRUE /\ notified' = TRUE
  /\ UNCHANGED <<request, drop, brokerLink, conn, refused, atBroker, dials>>
  /\ ClientUnchanged

\* MQTT_EVENT_DISCONNECTED
Closed ==
  /\ event = "closed" /\ event' = "none"
  /\ conn' = "disconnected"
  /\ UNCHANGED <<notified, request, drop, brokerLink, mqttSuspended, refused,
                 atBroker, dials>>
  /\ ClientUnchanged

\* the broker or the network closes the link, or a disconnect request does
LinkCloses ==
  /\ brokerLink = "up" /\ event = "none"
  /\ brokerLink' = "down" /\ event' = "closed" /\ drop' = FALSE
  /\ UNCHANGED <<notified, request, conn, mqttSuspended, refused, atBroker,
                 dials>>
  /\ ClientUnchanged

MqttNext == \/ SaveSettings \/ UserStops \/ TestConnection \/ WebStep
            \/ RestartStep \/ SupervisorStep
            \/ Dial \/ Accepted \/ Resubscribe \/ Refused \/ SuspendAsync
            \/ Closed \/ LinkCloses

\* FreeRTOS schedules the web server, the restart task and the supervisor
MqttSpec == /\ MqttInit /\ [][MqttNext]_mqttVars
            /\ WF_mqttVars(WebStep) /\ WF_mqttVars(RestartStep)
            /\ WF_mqttVars(SupervisorStep)
-----------------------------------------------------------------------------
(* The shape of the state. *)
Places == {"idle", "halt", "stop", "store", "signal", "test", "wait", "begin",
           "close", "config", "topic", "send", "dial", "end"}

MqttTypeOK ==
  /\ saved.v \in 0..MaxSaves /\ applied \in 0..MaxSaves
  /\ web.at \in Places /\ restart.at \in Places
  /\ mutex \in {"free", "restart"}
  /\ refused \in 0..MaxDials
  /\ conn \in {"disconnected", "connected", "error"}

(* The broker knows every topic of the table on a live link, although the  *)
(* table is rebuilt by the restart task while the client's task may be     *)
(* taking the CONNECTED event: mqtt_subscribe() enters the topic and then  *)
(* looks at the state, the event sets the state and then reads the table.  *)
(* Excepted is a topic whose SUBSCRIBE the client could not send on this   *)
(* connection: nothing sends it again before the next one.                 *)
TopicsAtBroker ==
  /\ brokerLink = "up" /\ event = "none" /\ conn = "connected"
  /\ restart.at # "send"
  => \A i \in DOMAIN topics : topics[i] \in subs \cup missed

(* "MQTT stopped; automatic reconnect is disabled until settings are       *)
(* saved" (the answer of mqtt_disconnect_post_handler()): once MQTT is     *)
(* switched off, the request is through and no restart is on its way, no   *)
(* connection is made, if no call of the client failed.  It holds for      *)
(* every stop by the user.  Excepted is MQTT switched off among saved      *)
(* settings (overtaken) while a restart applies older ones, as that one    *)
(* connects and no second one is started; or, before the new restart stops *)
(* the client, a test of the connection finds it not suspended, waits for  *)
(* the mutex and reconnects.                                               *)
Stopped == /\ ~saved.on /\ ~overtaken
           /\ web = Idle /\ restart = Idle /\ mqttFaults = 0

StopHolds ==
  [][Stopped /\ brokerLink = "down" => brokerLink' = "down"]_mqttVars

(* Nobody waits for s_lifecycle_mutex for ever: a restart that was asked   *)
(* for ends, on its error paths too, and lets the next one be asked for.   *)
RestartFinishes == pending ~> ~pending

=============================================================================
