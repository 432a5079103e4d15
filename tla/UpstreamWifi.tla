------------------------------ MODULE UpstreamWifi ------------------------------
(***************************************************************************)
(* The upstream Wi-Fi: which credentials the device tries, when it gives   *)
(* them up, and when a staged configuration is promoted.                   *)
(*                                                                         *)
(*   the main task      main.c: the loop's decisions, and                  *)
(*                      wifi_gateway_connect_sta on its behalf             *)
(*   the event task     wifi_gateway.c: wifi_event_handler                 *)
(*   the MQTT task      app_mqtt.c: connection state; STAGE_WIFI_CONFIG    *)
(*                      and KICK of main.c                                 *)
(*   the HTTP task      the provisioning form of captive_portal.c          *)
(*                                                                         *)
(* The tasks share the variables of wifi_gateway without a lock, so each   *)
(* access to them, to the driver and to the storage is an action.  The     *)
(* storage is the one WifiSlots specifies; an operation of it may fail     *)
(* and then changes nothing.                                               *)
(***************************************************************************)
EXTENDS Integers, Sequences

CONSTANTS
  Creds, Requests, Versions, None,  \* as in WifiSlots
  Backend,        \* the configurations the backend stages
  FailureLimit,   \* STA_CREDENTIAL_FAILURE_LIMIT
  MaxEvents,      \* bound: events waiting in the default event loop
  MaxGeneration,  \* bound: MQTT connections between two restarts
  MaxRestarts,    \* bound: restarts not asked for by the main task
  MaxErrors       \* bound: driver and storage calls that fail

ASSUME UpstreamWifiAssumption ==
  /\ Versions \subseteq Nat \ {0}
  /\ None \notin Creds /\ None \notin Requests /\ None \notin Versions
  \* Request and version name one configuration: staging it again is idempotent.
  /\ Backend \subseteq [cred : Creds, req : Requests, ver : Versions]
  /\ \A c, d \in Backend : c.req = d.req /\ c.ver = d.ver => c = d
  /\ FailureLimit \in Nat \ {0}
  /\ MaxEvents \in Nat /\ MaxGeneration \in Nat /\ MaxRestarts \in Nat
  /\ MaxErrors \in Nat

VARIABLES
  current, candidate, active,  \* the slots in NVS
  driver,     \* the STA interface: state, configured and connecting credentials
  events,     \* default event loop: STA and IP events not dispatched yet
  status,     \* s_status
  credentialFailures, unreachable,  \* s_sta_credential_failure_count, s_sta_unreachable_count
  reconfigure,   \* s_sta_reconfigure_pending
  staIp,      \* is s_sta_ip an address
  pc, cause,  \* main task: where it is, and what start_candidate_wifi_attempt is for
  loaded,     \* main task: the candidate and MQTT generation it has read
  slot,       \* s_upstream_wifi_slot
  trying,     \* s_candidate_config
  savedGeneration,  \* s_candidate_mqtt_generation
  mqtt,       \* MQTT client: started, s_connected, s_connection_generation, the
              \* credentials of the link its TCP connection was made over, those of
              \* the last connection counted, and the highest version received
  portal,     \* provisioning_mode, and whether a saved form is about to restart
  restarts, errors

\* History, read by no action.
VARIABLES
  refusals,   \* credentials, and how often their link was refused since it last came up
  streak,     \* credential failures since the last event of another kind
  overtaken   \* the status is older than the link: main wrote it after a later event
              \* was handled, or the event was handled after main connected again

slots       == <<current, candidate, active>>
gatewayVars == <<status, credentialFailures, unreachable, reconfigure, staIp>>
mainVars    == <<pc, cause, loaded, slot, trying, savedGeneration>>
history     == <<refusals, streak, overtaken>>
vars == <<slots, driver, events, gatewayVars, mainVars, mqtt, portal, restarts,
          errors, history>>

Slots == INSTANCE WifiSlots

-----------------------------------------------------------------------------
Config == [cred : Creds, req : Requests, ver : Versions]

Statuses == {"STARTING", "PROVISIONING", "CONNECTING", "CONNECTED", "GOT_IP",
             "DISCONNECTED", "RECOVERY_REQUIRED", "UNREACHABLE"}
Event == [kind : {"connected", "got_ip", "credential", "other"}, cred : Creds]

\* A driver or storage call that fails.
Errs == errors < MaxErrors /\ errors' = errors + 1

\* wifi_gateway_start and the state after a restart: prepare_wifi_gateway_config
\* finds credentials and connects with them, or opens the form.
Boot(cred, cand) ==
  /\ driver' = [state |-> IF cred = None THEN "idle" ELSE "connecting",
                config |-> cred, link |-> cred]
  /\ events' = <<>>
  /\ status' = IF cred = None THEN "PROVISIONING" ELSE "STARTING"
  /\ credentialFailures' = 0 /\ unreachable' = 0
  /\ reconfigure' = FALSE /\ staIp' = FALSE
  /\ pc' = IF cred = None THEN "loop" ELSE "connecting"
  /\ cause' = "boot"
  /\ loaded' = [candidate |-> None, generation |-> 0]
  /\ slot' = "CURRENT" /\ trying' = cand /\ savedGeneration' = 0
  /\ mqtt' = [started |-> "no", connected |-> FALSE, generation |-> 0, over |-> None,
              counted |-> None, sent |-> mqtt.sent]
  /\ portal' = [provisioning |-> cred = None, restarting |-> FALSE]
  /\ refusals' = [cred |-> None, count |-> 0] /\ streak' = 0 /\ overtaken' = FALSE

Init ==
  /\ Slots!Init
  /\ driver = [state |-> IF current = None THEN "idle" ELSE "connecting",
               config |-> current, link |-> current]
  /\ events = <<>>
  /\ status = IF current = None THEN "PROVISIONING" ELSE "STARTING"
  /\ credentialFailures = 0 /\ unreachable = 0
  /\ reconfigure = FALSE /\ staIp = FALSE
  /\ pc = IF current = None THEN "loop" ELSE "connecting"
  /\ cause = "boot"
  /\ loaded = [candidate |-> None, generation |-> 0]
  /\ slot = "CURRENT" /\ trying = None /\ savedGeneration = 0
  /\ mqtt = [started |-> "no", connected |-> FALSE, generation |-> 0, over |-> None,
             counted |-> None, sent |-> 0]
  /\ portal = [provisioning |-> current = None, restarting |-> FALSE]
  /\ restarts = 0 /\ errors = 0
  /\ refusals = [cred |-> None, count |-> 0] /\ streak = 0 /\ overtaken = FALSE

-----------------------------------------------------------------------------
(* The Wi-Fi driver, which posts to the event loop. *)

Posted(kind) == Append(events, [kind |-> kind, cred |-> driver.link])

LinkUp ==
  /\ driver.state = "connecting" /\ Len(events) < MaxEvents
  /\ driver' = [driver EXCEPT !.state = "connected"]
  /\ events' = Posted("connected")
  /\ UNCHANGED <<slots, gatewayVars, mainVars, mqtt, portal, restarts, errors, history>>

AddressObtained ==
  /\ driver.state = "connected" /\ Len(events) < MaxEvents
  /\ driver' = [driver EXCEPT !.state = "ip"]
  /\ events' = Posted("got_ip")
  /\ UNCHANGED <<slots, gatewayVars, mainVars, mqtt, portal, restarts, errors, history>>

\* An attempt is refused, or fails for another reason; a link is lost.
LinkDown(kind) ==
  /\ driver.state # "idle" /\ Len(events) < MaxEvents
  /\ kind = "credential" => driver.state = "connecting"
  /\ driver' = [driver EXCEPT !.state = "idle"]
  /\ events' = Posted(kind)
  /\ UNCHANGED <<slots, gatewayVars, mainVars, mqtt, portal, restarts, errors, history>>

\* esp_wifi_connect: an idle interface starts connecting; a busy one goes on.
Connected(d) == IF d.state = "idle" THEN [d EXCEPT !.state = "connecting", !.link = d.config]
                ELSE d

-----------------------------------------------------------------------------
(* wifi_event_handler. *)

Handles(kinds) == events # <<>> /\ Head(events).kind \in kinds /\ events' = Tail(events)

\* MUTANT: a link that comes up does not clear the counters.
HandleConnectedKeepsCounts ==
  /\ Handles({"connected"})
  /\ status' = "CONNECTED"
  /\ refusals' = [cred |-> Head(events).cred, count |-> 0] /\ streak' = 0
  /\ overtaken' = FALSE
  /\ UNCHANGED <<slots, driver, credentialFailures, unreachable, reconfigure, staIp,
                 mainVars, mqtt, portal, restarts, errors>>

HandleConnected ==
  /\ Handles({"connected"})
  /\ credentialFailures' = 0 /\ unreachable' = 0
  /\ status' = "CONNECTED"
  /\ refusals' = [cred |-> Head(events).cred, count |-> 0] /\ streak' = 0
  /\ overtaken' = FALSE
  /\ UNCHANGED <<slots, driver, reconfigure, staIp, mainVars, mqtt, portal, restarts,
                 errors>>

HandleGotIp ==
  /\ Handles({"got_ip"})
  /\ status' = "GOT_IP" /\ staIp' = TRUE
  /\ streak' = 0 /\ overtaken' = FALSE
  /\ UNCHANGED <<slots, driver, credentialFailures, unreachable, reconfigure, mainVars,
                 mqtt, portal, restarts, errors, refusals>>

\* MUTANT: a link that reconnects keeps its status.
ReconnectKeepsStatus ==
  \/ driver' = Connected(driver) /\ UNCHANGED <<status, errors>>
  \/ UNCHANGED driver /\ status' = "DISCONNECTED" /\ Errs

\* esp_wifi_connect from the handler, and the status that follows from its result.
Reconnect ==
  \/ driver' = Connected(driver) /\ status' = "CONNECTING" /\ UNCHANGED errors
  \/ UNCHANGED driver /\ status' = "DISCONNECTED" /\ Errs

\* History of a failure of kind k with credentials c.
NoteFailure(k, c) ==
  /\ refusals' = IF k # "credential" THEN refusals
                 ELSE IF refusals.cred # c THEN [cred |-> c, count |-> 1]
                 ELSE [cred |-> c, count |-> IF refusals.count < FailureLimit
                                             THEN refusals.count + 1 ELSE FailureLimit]
  /\ streak' = IF k # "credential" THEN 0
               ELSE IF streak < FailureLimit THEN streak + 1 ELSE FailureLimit
  /\ overtaken' = (driver.state # "idle")

\* The disconnection the device asked for: connect with the new credentials.
HandleReconfigured ==
  /\ Handles({"credential", "other"}) /\ reconfigure
  /\ reconfigure' = FALSE /\ credentialFailures' = 0 /\ unreachable' = 0
  /\ staIp' = FALSE
  /\ Reconnect
  /\ NoteFailure(Head(events).kind, Head(events).cred)
  /\ UNCHANGED <<slots, mainVars, mqtt, portal, restarts>>

\* MUTANT: the counter runs on.
CountedOn(count) == count + 1

Counted(count) == IF count < FailureLimit THEN count + 1 ELSE count

HandleDisconnected ==
  /\ Handles({"credential", "other"}) /\ ~reconfigure
  /\ IF Head(events).kind = "credential"
     THEN credentialFailures' = Counted(credentialFailures) /\ UNCHANGED unreachable
     ELSE unreachable' = Counted(unreachable) /\ UNCHANGED credentialFailures
  /\ staIp' = FALSE
  /\ IF credentialFailures' >= FailureLimit
     THEN status' = "RECOVERY_REQUIRED" /\ UNCHANGED <<driver, errors>>
     ELSE IF unreachable' >= FailureLimit
     THEN status' = "UNREACHABLE" /\ UNCHANGED <<driver, errors>>
     ELSE Reconnect
  /\ NoteFailure(Head(events).kind, Head(events).cred)
  /\ UNCHANGED <<slots, reconfigure, mainVars, mqtt, portal, restarts>>

EventTask == HandleConnected \/ HandleGotIp \/ HandleReconfigured \/ HandleDisconnected

-----------------------------------------------------------------------------
(* The main loop. *)

\* app_mqtt_start: the client is created, then registered and started.  A client
\* that was created and could not be started is never started.
StartMqtt ==
  IF status = "GOT_IP" /\ mqtt.started = "no"
  THEN \/ mqtt' = [mqtt EXCEPT !.started = "yes"] /\ UNCHANGED errors
       \/ \E s \in {"no", "created"} : mqtt' = [mqtt EXCEPT !.started = s] /\ Errs
  ELSE UNCHANGED <<mqtt, errors>>

\* Assumed of time: the loop sleeps for one to ten seconds between passes, and the
\* event loop has dispatched by then what was posted before.
NextPass ==
  /\ pc = "loop" /\ events = <<>>
  /\ \/ /\ status \in {"RECOVERY_REQUIRED", "UNREACHABLE"}
        /\ IF slot = "CANDIDATE" THEN pc' = "retain" /\ UNCHANGED cause
           ELSE /\ pc' = "load"
                /\ cause' = IF status = "RECOVERY_REQUIRED" THEN "recovery" ELSE "unreachable"
        /\ UNCHANGED <<mqtt, errors>>
     \/ /\ status \notin {"RECOVERY_REQUIRED", "UNREACHABLE"}
        /\ StartMqtt
        /\ pc' = "promote" /\ UNCHANGED cause
  /\ UNCHANGED <<slots, driver, events, gatewayVars, loaded, slot, trying,
                 savedGeneration, portal, restarts, history>>

\* promote_verified_candidate_if_ready reads the status, then the MQTT connection,
\* then asks the storage.
CheckStatus ==
  /\ pc = "promote"
  /\ pc' = IF slot = "CANDIDATE" /\ status = "GOT_IP" THEN "verify" ELSE "loop"
  /\ UNCHANGED <<slots, driver, events, gatewayVars, cause, loaded, slot, trying,
                 savedGeneration, mqtt, portal, restarts, errors, history>>

CheckMqtt ==
  /\ pc = "verify"
  /\ pc' = IF mqtt.connected /\ mqtt.generation > savedGeneration THEN "store" ELSE "loop"
  /\ UNCHANGED <<slots, driver, events, gatewayVars, cause, loaded, slot, trying,
                 savedGeneration, mqtt, portal, restarts, errors, history>>

\* MUTANT: whatever candidate is in the slot is promoted.
StorePromotionOfAny ==
  /\ pc = "store"
  /\ Slots!Promote
  /\ pc' = "loop" /\ slot' = "CURRENT" /\ trying' = None
  /\ UNCHANGED <<driver, events, gatewayVars, cause, loaded, savedGeneration, mqtt,
                 portal, restarts, errors, history>>

StorePromotion ==
  /\ pc = "store" /\ candidate # None /\ Slots!IdOf(candidate) = Slots!IdOf(trying)
  /\ Slots!Promote
  /\ pc' = "loop" /\ slot' = "CURRENT" /\ trying' = None
  /\ UNCHANGED <<driver, events, gatewayVars, cause, loaded, savedGeneration, mqtt,
                 portal, restarts, errors, history>>

\* ESP_ERR_INVALID_STATE: a newer candidate has been staged, try that one.  Every
\* other error waits for the next pass.
PromotionRefused ==
  /\ pc = "store"
  /\ \/ /\ candidate # None /\ Slots!IdOf(candidate) # Slots!IdOf(trying)
        /\ pc' = "load" /\ cause' = "promote" /\ UNCHANGED errors
     \/ candidate = None /\ pc' = "loop" /\ UNCHANGED <<cause, errors>>
     \/ Errs /\ pc' = "loop" /\ UNCHANGED cause
  /\ UNCHANGED <<slots, driver, events, gatewayVars, loaded, slot, trying,
                 savedGeneration, mqtt, portal, restarts, history>>

-----------------------------------------------------------------------------
(* start_candidate_wifi_attempt and wifi_gateway_connect_sta.  An error other *)
(* than "no candidate" ends in enter_retained_wifi_recovery.                  *)

LoadCandidate ==
  /\ pc = "load"
  /\ \/ /\ candidate # None
        /\ loaded' = [loaded EXCEPT !.candidate = candidate]
        /\ pc' = "generation" /\ UNCHANGED errors
     \/ /\ candidate = None
        /\ pc' = IF cause = "recovery" THEN "clear" ELSE "retain"
        /\ UNCHANGED <<loaded, errors>>
     \/ Errs /\ pc' = "retain" /\ UNCHANGED loaded
  /\ UNCHANGED <<slots, driver, events, gatewayVars, cause, slot, trying,
                 savedGeneration, mqtt, portal, restarts, history>>

ReadGeneration ==
  /\ pc = "generation"
  /\ loaded' = [loaded EXCEPT !.generation = mqtt.generation]
  /\ pc' = "configure"
  /\ UNCHANGED <<slots, driver, events, gatewayVars, cause, slot, trying,
                 savedGeneration, mqtt, portal, restarts, errors, history>>

\* configure_sta_credentials.
Configure ==
  /\ pc = "configure"
  /\ \/ /\ driver' = [driver EXCEPT !.config = loaded.candidate.cred]
        /\ pc' = "arm" /\ UNCHANGED errors
     \/ Errs /\ pc' = "retain" /\ UNCHANGED driver
  /\ UNCHANGED <<slots, events, gatewayVars, cause, loaded, slot, trying,
                 savedGeneration, mqtt, portal, restarts, history>>

\* The counters start again, and the next disconnection is expected.
Arm ==
  /\ pc = "arm" /\ pc' = "disconnect"
  /\ credentialFailures' = 0 /\ unreachable' = 0
  /\ staIp' = FALSE /\ reconfigure' = TRUE
  /\ UNCHANGED <<slots, driver, events, status, cause, loaded, slot, trying,
                 savedGeneration, mqtt, portal, restarts, errors, history>>

\* esp_wifi_disconnect: the event handler goes on, or ESP_ERR_WIFI_NOT_CONNECT, or
\* another error.  (Assumed of the driver: an idle interface does not answer ESP_OK,
\* with no event to follow.)
Disconnect ==
  /\ pc = "disconnect"
  /\ \/ /\ driver.state # "idle" /\ Len(events) < MaxEvents
        /\ driver' = [driver EXCEPT !.state = "idle"]
        /\ events' = Posted("other")
        /\ pc' = "connecting" /\ UNCHANGED errors
     \/ /\ driver.state = "idle"
        /\ pc' = "disarm" /\ UNCHANGED <<driver, events, errors>>
     \/ Errs /\ pc' = "disarmOnError" /\ UNCHANGED <<driver, events>>
  /\ UNCHANGED <<slots, gatewayVars, cause, loaded, slot, trying, savedGeneration,
                 mqtt, portal, restarts, history>>

\* MUTANT: the flag is left set.
DisarmForgets ==
  /\ pc \in {"disarm", "disarmOnError"}
  /\ pc' = IF pc = "disarm" THEN "connect" ELSE "retain"
  /\ UNCHANGED <<slots, driver, events, gatewayVars, cause, loaded, slot, trying,
                 savedGeneration, mqtt, portal, restarts, errors, history>>

Disarm ==
  /\ pc \in {"disarm", "disarmOnError"}
  /\ reconfigure' = FALSE
  /\ pc' = IF pc = "disarm" THEN "connect" ELSE "retain"
  /\ UNCHANGED <<slots, driver, events, status, credentialFailures, unreachable, staIp,
                 cause, loaded, slot, trying, savedGeneration, mqtt, portal, restarts,
                 errors, history>>

\* connect_sta.
Connect ==
  /\ pc = "connect"
  /\ \/ driver' = Connected(driver) /\ pc' = "connecting" /\ UNCHANGED errors
     \/ Errs /\ pc' = "retain" /\ UNCHANGED driver
  /\ UNCHANGED <<slots, events, gatewayVars, cause, loaded, slot, trying,
                 savedGeneration, mqtt, portal, restarts, history>>

\* The status is written after the driver was called; then the attempt is noted,
\* unless this is the connection of wifi_gateway_start.
Connecting ==
  /\ pc = "connecting" /\ pc' = "loop"
  /\ status' = "CONNECTING"
  /\ overtaken' = (events = <<>> /\ driver.state # "connecting")
  /\ IF cause = "boot" THEN UNCHANGED <<slot, trying, savedGeneration>>
     ELSE /\ slot' = "CANDIDATE"
          /\ trying' = loaded.candidate
          /\ savedGeneration' = loaded.generation
  /\ loaded' = [candidate |-> None, generation |-> 0]
  /\ UNCHANGED <<slots, driver, events, credentialFailures, unreachable, reconfigure,
                 staIp, cause, mqtt, portal, restarts, errors, refusals, streak>>

\* MUTANT: the form stays closed.
RetainWithoutForm ==
  /\ pc = "retain" /\ pc' = "loop"
  /\ status' = "PROVISIONING"
  /\ overtaken' = (events = <<>> /\ driver.state # "idle")
  /\ loaded' = [candidate |-> None, generation |-> 0]
  /\ UNCHANGED <<slots, driver, events, credentialFailures, unreachable, reconfigure,
                 staIp, cause, slot, trying, savedGeneration, mqtt, portal, restarts,
                 errors, refusals, streak>>

\* enter_retained_wifi_recovery: the form opens and the slots stay.
Retain ==
  /\ pc = "retain" /\ pc' = "loop"
  /\ portal' = [portal EXCEPT !.provisioning = TRUE]
  /\ status' = "PROVISIONING"
  /\ overtaken' = (events = <<>> /\ driver.state # "idle")
  /\ loaded' = [candidate |-> None, generation |-> 0]
  /\ UNCHANGED <<slots, driver, events, credentialFailures, unreachable, reconfigure,
                 staIp, cause, slot, trying, savedGeneration, mqtt, restarts, errors,
                 refusals, streak>>

\* The current slot is cleared, and half a second later the device restarts.
ClearCurrent ==
  /\ pc = "clear" /\ pc' = "restart"
  /\ Slots!Clear
  /\ UNCHANGED <<driver, events, gatewayVars, cause, loaded, slot, trying,
                 savedGeneration, mqtt, portal, restarts, errors, history>>

RestartCleared ==
  /\ pc = "restart"
  /\ Boot(current, candidate)
  /\ UNCHANGED <<slots, restarts, errors>>

ClearFails ==
  /\ pc = "clear" /\ Errs /\ pc' = "loop"
  /\ UNCHANGED <<slots, driver, events, gatewayVars, cause, loaded, slot, trying,
                 savedGeneration, mqtt, portal, restarts, history>>

MainTask == \/ NextPass \/ CheckStatus \/ CheckMqtt \/ StorePromotion \/ PromotionRefused
            \/ LoadCandidate \/ ReadGeneration \/ Configure \/ Arm \/ Disconnect \/ Disarm
            \/ Connect \/ Connecting \/ Retain \/ ClearCurrent \/ ClearFails
            \/ RestartCleared

-----------------------------------------------------------------------------
(* The MQTT task. *)

\* The client makes its TCP connection over the link there is ...
MqttEstablish ==
  /\ mqtt.started = "yes" /\ ~mqtt.connected /\ mqtt.over = None /\ driver.state = "ip"
  /\ mqtt' = [mqtt EXCEPT !.over = driver.link]
  /\ UNCHANGED <<slots, driver, events, gatewayVars, mainVars, portal, restarts, errors,
                 history>>

\* ... and MQTT_EVENT_CONNECTED is handled, assumed before that link is lost.
MqttConnected ==
  /\ ~mqtt.connected /\ mqtt.over # None /\ mqtt.generation < MaxGeneration
  /\ driver.state = "ip" /\ driver.link = mqtt.over
  /\ mqtt' = [mqtt EXCEPT !.connected = TRUE, !.generation = @ + 1,
                          !.counted = mqtt.over]
  /\ UNCHANGED <<slots, driver, events, gatewayVars, mainVars, portal, restarts, errors,
                 history>>

\* MQTT_EVENT_DISCONNECTED, however long after the link was lost.
MqttDisconnected ==
  /\ mqtt.over # None
  /\ mqtt' = [mqtt EXCEPT !.connected = FALSE, !.over = None]
  /\ UNCHANGED <<slots, driver, events, gatewayVars, mainVars, portal, restarts, errors,
                 history>>

\* STAGE_WIFI_CONFIG, when the storage takes it.  Assumed of the backend: it may
\* repeat a configuration, and never goes back to an older one.
StageCommand(c) ==
  /\ mqtt.connected /\ c.ver >= mqtt.sent
  /\ Slots!Stage(c)
  /\ mqtt' = [mqtt EXCEPT !.sent = c.ver]
  /\ UNCHANGED <<driver, events, gatewayVars, mainVars, portal, restarts, errors, history>>

MqttTask == \/ MqttEstablish \/ MqttConnected \/ MqttDisconnected
            \/ \E c \in Backend : StageCommand(c)

-----------------------------------------------------------------------------
(* The HTTP task, and restarts the main task did not ask for. *)

\* provision_post_handler: after the answer is sent the device restarts; if the
\* answer cannot be sent it does not.
SaveForm(c) ==
  /\ portal.provisioning /\ ~portal.restarting
  /\ Slots!Save(c)
  /\ \E answered \in BOOLEAN : portal' = [portal EXCEPT !.restarting = answered]
  /\ UNCHANGED <<driver, events, gatewayVars, mainVars, mqtt, restarts, errors, history>>

\* The restart after a saved form, KICK, power loss.
Restart ==
  /\ restarts < MaxRestarts
  /\ restarts' = restarts + 1
  /\ Boot(current, candidate)
  /\ UNCHANGED <<slots, errors>>

-----------------------------------------------------------------------------
Next ==
  \/ LinkUp \/ AddressObtained \/ (\E kind \in {"credential", "other"} : LinkDown(kind))
  \/ EventTask
  \/ MainTask
  \/ MqttTask
  \/ \E c \in Creds : SaveForm(c)
  \/ Restart

Fairness == WF_vars(EventTask) /\ WF_vars(MainTask)

Spec     == Init /\ [][Next]_vars
FairSpec == Spec /\ Fairness

-----------------------------------------------------------------------------
(* Safety. *)

Points == {"loop", "promote", "verify", "store", "load", "generation", "configure", "arm",
           "disconnect", "disarm", "disarmOnError", "connect", "connecting", "retain", "clear",
           "restart"}

\* Every variable keeps the type of its C declaration, and the counters their limit.
TypeOK ==
  /\ Slots!SlotTypes
  /\ driver \in [state : {"idle", "connecting", "connected", "ip"},
                 config : Creds \cup {None}, link : Creds \cup {None}]
  /\ events \in Seq(Event)
  /\ status \in Statuses
  /\ credentialFailures \in 0..FailureLimit /\ unreachable \in 0..FailureLimit
  /\ reconfigure \in BOOLEAN /\ staIp \in BOOLEAN
  /\ pc \in Points /\ cause \in {"boot", "recovery", "unreachable", "promote"}
  /\ loaded \in [candidate : Config \cup {None}, generation : Nat]
  /\ slot \in {"CURRENT", "CANDIDATE"} /\ trying \in Config \cup {None}
  /\ savedGeneration \in Nat
  /\ mqtt \in [started : {"no", "created", "yes"}, connected : BOOLEAN, generation : Nat,
               over : Creds \cup {None}, counted : Creds \cup {None}, sent : Nat]
  /\ portal \in [provisioning : BOOLEAN, restarting : BOOLEAN]
  /\ restarts \in Nat /\ errors \in Nat
  /\ refusals \in [cred : Creds \cup {None}, count : 0..FailureLimit]
  /\ streak \in 0..FailureLimit /\ overtaken \in BOOLEAN

\* The flag that spares a disconnection the counters is set only while main is in
\* wifi_gateway_connect_sta or the disconnection it asked for waits to be handled:
\* no later failure is ever mistaken for it.
ExpectedDisconnection ==
  reconfigure => \/ pc \in {"disconnect", "disarm", "disarmOnError"}
                 \/ \E i \in DOMAIN events : events[i].kind \in {"credential", "other"}

\* When the event loop and main are at rest, the status is that of the link, unless
\* main and the event task overtook each other: main's assignment after its driver
\* call, or an event of the old link handled after that call.
StatusFollowsLink ==
  (pc = "loop" /\ events = <<>> /\ ~overtaken) =>
    /\ status = "GOT_IP" <=> driver.state = "ip"
    /\ status = "CONNECTED" <=> driver.state = "connected"
    /\ status \in {"CONNECTING", "STARTING"} <=> driver.state = "connecting"
    /\ driver.state = "ip" => staIp

\* The credentials in use are cleared only if the upstream refused them, those very
\* ones, FailureLimit times since a link with them last came up.  (Others than those
\* in use are cleared when the form saves them after main has found no candidate.)
ClearsRefusedOnly == [][
  (pc = "clear" /\ current = driver.config /\ current' = None) =>
    refusals.cred = current /\ refusals.count >= FailureLimit ]_vars

\* A version names one configuration: the backend never stages two under one version.
\* (app_storage refuses the second only while it holds the first.)
OneConfigurationPerVersion == \A c, d \in Backend : c.ver = d.ver => c = d

\* What is promoted is what the driver last made its link with.
Promoted == slot = "CANDIDATE" /\ slot' = "CURRENT" /\ pc = "store" /\ pc' = "loop"
PromotesConnectedOnly == [][ Promoted => current' = driver.link ]_vars

\* wifi_gateway.c: "only after three consecutive failures of the credential kind".
ClearsAfterConsecutive == [][
  (pc = "clear" /\ current # None /\ current' = None) => streak >= FailureLimit ]_vars

\* main.c: "a candidate may be promoted only after a new MQTT_CONNECTED was observed
\* after this switch of slots"; app_mqtt.h: the generation proves that the
\* candidate's link really reconnected.
PromotesAfterReconnect == [][ Promoted => mqtt.counted = current' ]_vars

-----------------------------------------------------------------------------
(* Liveness, under FairSpec. *)

\* Whenever the gateway gives up on its credentials, main sees to it that another
\* attempt is made or the form is open, even if a call fails on the way.  (Lost is
\* only a status that a later event, or main's own assignment after its driver call,
\* overwrites.)
GivenUp == status \in {"RECOVERY_REQUIRED", "UNREACHABLE"}
RecoveryHandled ==
  (GivenUp /\ events = <<>> /\ pc # "connecting") ~> (driver.state # "idle" \/ portal.provisioning)

=============================================================================
