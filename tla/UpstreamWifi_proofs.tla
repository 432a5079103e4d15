-------------------------- MODULE UpstreamWifi_proofs --------------------------
(***************************************************************************)
(* The upstream Wi-Fi, for every set of networks, every failure limit and  *)
(* every bound of the behaviours: types; the flag that spares an expected  *)
(* disconnection the failure counters; the status and the link; what is    *)
(* promoted; what is cleared.                                              *)
(*                                                                         *)
(* The state is split by owner.  Most actions write the variables of one   *)
(* or two owners; a lemma per owner says what its writers keep.            *)
(***************************************************************************)
EXTENDS UpstreamWifi, SequenceTheorems, TLAPS

USE UpstreamWifiAssumption

\* Where main holds a candidate it has read, and where the driver has been given it.
Holding == {"generation", "configure", "arm", "disconnect", "disarm", "disarmOnError", "connect"}
Given   == {"arm", "disconnect", "disarm", "disarmOnError", "connect"}

DriverOK  == /\ driver \in [state : {"idle", "connecting", "connected", "ip"},
                            config : Creds \cup {None}, link : Creds \cup {None}]
             /\ events \in Seq(Event)
             /\ driver.state # "idle" => driver.link \in Creds
GatewayOK == /\ status \in Statuses
             /\ credentialFailures \in 0..FailureLimit /\ unreachable \in 0..FailureLimit
             /\ reconfigure \in BOOLEAN /\ staIp \in BOOLEAN
MainOK    == /\ pc \in Points /\ cause \in {"boot", "recovery", "unreachable", "promote"}
             /\ loaded \in [candidate : Config \cup {None}, generation : Nat]
             /\ slot \in {"CURRENT", "CANDIDATE"} /\ trying \in Config \cup {None}
             /\ savedGeneration \in Nat
             /\ pc \in Holding => loaded.candidate \in Config
MqttOK    == mqtt \in [started : {"no", "created", "yes"}, connected : BOOLEAN,
                       generation : Nat, over : Creds \cup {None},
                       counted : Creds \cup {None}, sent : Nat]
WorldOK   == /\ portal \in [provisioning : BOOLEAN, restarting : BOOLEAN]
             /\ restarts \in Nat /\ errors \in Nat
HistoryOK == /\ refusals \in [cred : Creds \cup {None}, count : 0..FailureLimit]
             /\ streak \in 0..FailureLimit /\ overtaken \in BOOLEAN

\* Whoever can make the driver connect finds credentials in it: a handler has an
\* event of an earlier link, main has configured it.
Configured == driver.state # "idle" \/ events # <<>> \/ pc \in Given => driver.config \in Creds

\* The inductive invariant of the types.
IInv == /\ Slots!SlotTypes /\ DriverOK /\ GatewayOK /\ MainOK /\ MqttOK /\ WorldOK
        /\ HistoryOK /\ Configured

LEMMA TypesOfIInv == IInv => TypeOK
BY DEF IInv, TypeOK, DriverOK, GatewayOK, MainOK, MqttOK, WorldOK, HistoryOK

LEMMA Frames ==
  /\ Slots!SlotTypes /\ UNCHANGED slots => Slots!SlotTypes'
  /\ DriverOK /\ UNCHANGED <<driver, events>> => DriverOK'
  /\ GatewayOK /\ UNCHANGED gatewayVars => GatewayOK'
  /\ MainOK /\ UNCHANGED mainVars => MainOK'
  /\ MqttOK /\ UNCHANGED mqtt => MqttOK'
  /\ WorldOK /\ UNCHANGED <<portal, restarts, errors>> => WorldOK'
  /\ HistoryOK /\ UNCHANGED history => HistoryOK'
  /\ Configured /\ UNCHANGED <<driver, events, pc>> => Configured'
<1>1. Slots!SlotTypes /\ UNCHANGED slots => Slots!SlotTypes'
  BY DEF slots, Slots!SlotTypes
<1>2. DriverOK /\ UNCHANGED <<driver, events>> => DriverOK'
  BY DEF DriverOK
<1>3. GatewayOK /\ UNCHANGED gatewayVars => GatewayOK'
  BY DEF GatewayOK, gatewayVars
<1>4. MainOK /\ UNCHANGED mainVars => MainOK'
  BY DEF MainOK, mainVars
<1>5. MqttOK /\ UNCHANGED mqtt => MqttOK'
  BY DEF MqttOK
<1>6. WorldOK /\ UNCHANGED <<portal, restarts, errors>> => WorldOK'
  BY DEF WorldOK
<1>7. HistoryOK /\ UNCHANGED history => HistoryOK'
  BY DEF HistoryOK, history
<1>8. Configured /\ UNCHANGED <<driver, events, pc>> => Configured'
  BY DEF Configured
<1> QED BY <1>1, <1>2, <1>3, <1>4, <1>5, <1>6, <1>7, <1>8

\* A call that fails is counted and changes nothing else of the world.
LEMMA ErrsOK ==
  ASSUME WorldOK, UNCHANGED <<portal, restarts>>, Errs \/ UNCHANGED errors
  PROVE  WorldOK'
BY DEF WorldOK, Errs

LEMMA PortalErrs ==
  ASSUME WorldOK, Errs \/ UNCHANGED errors
  PROVE  errors' \in Nat
BY DEF WorldOK, Errs

-----------------------------------------------------------------------------
(* The driver and the event loop. *)

\* An event is posted with the credentials of the link it is about.
LEMMA PostedOK ==
  ASSUME DriverOK, driver.state # "idle",
         NEW k \in {"connected", "got_ip", "credential", "other"}
  PROVE  /\ Posted(k) \in Seq(Event) /\ Posted(k) # <<>>
         /\ Len(Posted(k)) = Len(events) + 1 /\ Len(events) \in Nat
         /\ \A i \in 1..Len(events) : Posted(k)[i] = events[i]
         /\ Posted(k)[Len(events) + 1].kind = k
<1> DEFINE e == [kind |-> k, cred |-> driver.link]
<1>1. e \in Event /\ e.kind = k
  BY DEF DriverOK, Event
<1>2. events \in Seq(Event) /\ Posted(k) = Append(events, e)
  BY DEF DriverOK, Posted
<1> HIDE DEF e
<1>3. /\ Posted(k) \in Seq(Event) /\ Len(Posted(k)) = Len(events) + 1
      /\ \A i \in 1..Len(events) : Posted(k)[i] = events[i]
      /\ Posted(k)[Len(events) + 1] = e
  BY <1>1, <1>2, AppendProperties
<1>4. Len(events) \in Nat
  BY <1>2, LenProperties
<1>5. Posted(k) # <<>>
  BY <1>3, <1>4, EmptySeq
<1> QED BY <1>1, <1>3, <1>4, <1>5

LEMMA HandledOK ==
  ASSUME DriverOK, NEW S, Handles(S)
  PROVE  /\ Head(events) \in Event /\ Head(events).kind \in S /\ Head(events).cred \in Creds
         /\ events' \in Seq(Event) /\ events # <<>>
<1>1. events \in Seq(Event) /\ events # <<>> /\ events' = Tail(events)
  BY DEF DriverOK, Handles
<1>2. Head(events) \in Event /\ events' \in Seq(Event)
  BY <1>1, HeadTailProperties
<1> QED BY <1>1, <1>2 DEF Handles, Event

LEMMA DriverSteps ==
  ASSUME IInv, LinkUp \/ AddressObtained \/ (\E kind \in {"credential", "other"} : LinkDown(kind))
  PROVE  IInv'
<1>0. PICK k \in {"connected", "got_ip", "credential", "other"},
           s \in {"idle", "connected", "ip"} :
             /\ driver.state # "idle"
             /\ driver' = [driver EXCEPT !.state = s]
             /\ events' = Posted(k)
             /\ UNCHANGED <<slots, gatewayVars, mainVars, mqtt, portal, restarts, errors, history>>
  BY DEF LinkUp, AddressObtained, LinkDown
<1>1. DriverOK
  BY DEF IInv
<1>2. driver'.config = driver.config /\ driver'.link = driver.link /\ driver'.state = s
  BY <1>0, <1>1 DEF DriverOK
<1>3. DriverOK'
  BY <1>0, <1>1, <1>2, PostedOK DEF DriverOK
<1>4. Configured'
  BY <1>0, <1>2 DEF IInv, Configured
<1> QED BY <1>0, <1>3, <1>4, Frames DEF IInv

\* esp_wifi_connect, called where there are credentials.
LEMMA ConnectedOK ==
  ASSUME DriverOK, driver.config \in Creds, driver' = Connected(driver), events' \in Seq(Event)
  PROVE  DriverOK' /\ driver'.config = driver.config
BY DEF DriverOK, Connected

LEMMA NoteFailureOK ==
  ASSUME HistoryOK, NEW k, NEW c \in Creds, NoteFailure(k, c)
  PROVE  HistoryOK'
<1>1. FailureLimit \in Nat \ {0}
  BY UpstreamWifiAssumption
<1>2. refusals' \in [cred : Creds \cup {None}, count : 0..FailureLimit]
  BY <1>1 DEF HistoryOK, NoteFailure
<1>3. streak' \in 0..FailureLimit
  BY <1>1 DEF HistoryOK, NoteFailure
<1>4. overtaken' \in BOOLEAN
  BY DEF NoteFailure
<1> QED BY <1>2, <1>3, <1>4 DEF HistoryOK

LEMMA ReconnectOK ==
  ASSUME IInv, events # <<>>, events' \in Seq(Event), Reconnect
  PROVE  /\ DriverOK' /\ driver'.config = driver.config /\ driver.config \in Creds
         /\ status' \in Statuses
         /\ UNCHANGED <<portal, restarts>> => WorldOK'
<1>1. DriverOK /\ WorldOK /\ driver.config \in Creds
  BY DEF IInv, Configured
<1>2. CASE driver' = Connected(driver) /\ status' = "CONNECTING" /\ UNCHANGED errors
  BY <1>1, <1>2, ConnectedOK, ErrsOK DEF Statuses
<1>3. CASE UNCHANGED driver /\ status' = "DISCONNECTED" /\ Errs
  <2>1. DriverOK'
    BY <1>1, <1>3 DEF DriverOK
  <2> QED BY <1>1, <1>3, <2>1, ErrsOK DEF Statuses
<1> QED BY <1>2, <1>3 DEF Reconnect

LEMMA HandlerSteps ==
  ASSUME IInv, EventTask
  PROVE  IInv'
<1>0. DriverOK /\ GatewayOK /\ HistoryOK /\ WorldOK
  BY DEF IInv
<1>1. CASE HandleConnected
  <2>1. Head(events).cred \in Creds /\ events' \in Seq(Event) /\ events # <<>>
    BY <1>0, <1>1, HandledOK DEF HandleConnected
  <2>2. DriverOK'
    BY <1>0, <1>1, <2>1 DEF HandleConnected, DriverOK
  <2>3. GatewayOK'
    BY <1>0, <1>1 DEF HandleConnected, GatewayOK, Statuses
  <2>4. HistoryOK'
    <3>1. 0 \in 0..FailureLimit
      BY UpstreamWifiAssumption
    <3>2. refusals' = [cred |-> Head(events).cred, count |-> 0] /\ streak' = 0 /\ overtaken' = FALSE
      BY <1>1 DEF HandleConnected
    <3> QED BY <2>1, <3>1, <3>2 DEF HistoryOK
  <2>5. Configured'
    BY <1>1, <2>1 DEF IInv, HandleConnected, Configured, mainVars
  <2> QED BY <1>1, <2>2, <2>3, <2>4, <2>5, Frames DEF IInv, HandleConnected
<1>2. CASE HandleGotIp
  <2>1. events' \in Seq(Event) /\ events # <<>>
    BY <1>0, <1>2, HandledOK DEF HandleGotIp
  <2>2. DriverOK'
    BY <1>0, <1>2, <2>1 DEF HandleGotIp, DriverOK
  <2>3. GatewayOK'
    BY <1>0, <1>2 DEF HandleGotIp, GatewayOK, Statuses
  <2>4. HistoryOK'
    <3>1. 0 \in 0..FailureLimit
      BY UpstreamWifiAssumption
    <3>2. refusals' = refusals /\ streak' = 0 /\ overtaken' = FALSE
      BY <1>2 DEF HandleGotIp
    <3> QED BY <1>0, <3>1, <3>2 DEF HistoryOK
  <2>5. Configured'
    BY <1>2, <2>1 DEF IInv, HandleGotIp, Configured, mainVars
  <2> QED BY <1>2, <2>2, <2>3, <2>4, <2>5, Frames DEF IInv, HandleGotIp
<1>3. CASE HandleReconfigured
  <2>1. Head(events).cred \in Creds /\ events' \in Seq(Event) /\ events # <<>>
    BY <1>0, <1>3, HandledOK DEF HandleReconfigured
  <2>2. /\ DriverOK' /\ driver'.config = driver.config /\ driver.config \in Creds
        /\ status' \in Statuses /\ WorldOK'
    BY <1>3, <2>1, ReconnectOK DEF HandleReconfigured
  <2>3. GatewayOK'
    <3>1. 0 \in 0..FailureLimit
      BY UpstreamWifiAssumption
    <3>2. reconfigure' = FALSE /\ credentialFailures' = 0 /\ unreachable' = 0 /\ staIp' = FALSE
      BY <1>3 DEF HandleReconfigured
    <3> QED BY <2>2, <3>1, <3>2 DEF GatewayOK
  <2>4. HistoryOK'
    BY <1>0, <1>3, <2>1, NoteFailureOK DEF HandleReconfigured
  <2>5. Configured'
    BY <2>2 DEF Configured
  <2> QED BY <1>3, <2>2, <2>3, <2>4, <2>5, Frames DEF IInv, HandleReconfigured
<1>4. CASE HandleDisconnected
  <2>1. Head(events).cred \in Creds /\ events' \in Seq(Event) /\ events # <<>>
    BY <1>0, <1>4, HandledOK DEF HandleDisconnected
  <2>2. /\ DriverOK' /\ driver'.config \in Creds
        /\ status' \in Statuses /\ WorldOK'
    <3>1. CASE Reconnect
      BY <1>4, <2>1, <3>1, ReconnectOK DEF HandleDisconnected
    <3>2. CASE status' \in {"RECOVERY_REQUIRED", "UNREACHABLE"} /\ UNCHANGED <<driver, errors>>
      <4>1. DriverOK' /\ driver'.config \in Creds
        BY <1>0, <2>1, <3>2 DEF DriverOK, IInv, Configured
      <4> QED BY <1>0, <1>4, <3>2, <4>1, ErrsOK DEF HandleDisconnected, Statuses
    <3> QED BY <1>4, <3>1, <3>2 DEF HandleDisconnected
  <2>3. credentialFailures' \in 0..FailureLimit /\ unreachable' \in 0..FailureLimit
    <3>1. \A n \in 0..FailureLimit : Counted(n) \in 0..FailureLimit
      BY UpstreamWifiAssumption DEF Counted
    <3> QED BY <1>0, <1>4, <3>1 DEF HandleDisconnected, GatewayOK
  <2>4. GatewayOK'
    BY <1>0, <1>4, <2>2, <2>3 DEF HandleDisconnected, GatewayOK
  <2>5. HistoryOK'
    BY <1>0, <1>4, <2>1, NoteFailureOK DEF HandleDisconnected
  <2>6. Configured'
    BY <2>2 DEF Configured
  <2> QED BY <1>4, <2>2, <2>4, <2>5, <2>6, Frames DEF IInv, HandleDisconnected
<1> QED BY <1>1, <1>2, <1>3, <1>4 DEF EventTask

-----------------------------------------------------------------------------
(* The main task. *)

LEMMA ZeroCount == 0 \in 0..FailureLimit
BY UpstreamWifiAssumption

\* A step of main within a pass, which changes the driver, the gateway and the slots
\* in no way.
LEMMA PassSteps ==
  ASSUME IInv,
         NextPass \/ CheckStatus \/ CheckMqtt \/ PromotionRefused \/ LoadCandidate
           \/ ReadGeneration \/ ClearFails
  PROVE  IInv'
<1>1. /\ UNCHANGED <<slots, driver, events, gatewayVars, slot, trying, savedGeneration, portal,
                     restarts, history>>
      /\ Errs \/ UNCHANGED errors
  BY DEF NextPass, StartMqtt, CheckStatus, CheckMqtt, PromotionRefused, LoadCandidate,
         ReadGeneration, ClearFails
<1>2. WorldOK'
  BY <1>1, ErrsOK DEF IInv
<1>3. MqttOK /\ MainOK
  BY DEF IInv
<1>4. MqttOK'
  <2>1. CASE NextPass
    BY <1>3, <2>1 DEF NextPass, StartMqtt, MqttOK
  <2>2. CASE UNCHANGED mqtt
    BY <1>3, <2>2 DEF MqttOK
  <2> QED BY <2>1, <2>2 DEF CheckStatus, CheckMqtt, PromotionRefused, LoadCandidate,
                            ReadGeneration, ClearFails
<1>5. pc' \notin Given \/ pc' = pc
  BY DEF NextPass, CheckStatus, CheckMqtt, PromotionRefused, LoadCandidate,
         ReadGeneration, ClearFails, Given
<1>6. Configured'
  BY <1>1, <1>5 DEF IInv, Configured
<1>7. MainOK'
  <2>1. CASE NextPass \/ CheckStatus \/ CheckMqtt \/ PromotionRefused \/ ClearFails
    <3>1. /\ UNCHANGED <<loaded, slot, trying, savedGeneration>>
          /\ pc' \in Points \ Holding /\ (cause' = cause \/ cause' \in {"recovery", "unreachable", "promote"})
      BY <2>1 DEF NextPass, CheckStatus, CheckMqtt, PromotionRefused, ClearFails, Points, Holding
    <3> QED BY <1>3, <3>1 DEF MainOK
  <2>2. CASE LoadCandidate
    <3>1. /\ UNCHANGED <<cause, slot, trying, savedGeneration>>
          /\ pc' \in {"generation", "clear", "retain"}
          /\ \/ loaded' = [loaded EXCEPT !.candidate = candidate] /\ candidate # None
             \/ loaded' = loaded /\ pc' # "generation"
      BY <2>2 DEF LoadCandidate
    <3>2. candidate \in Config \cup {None}
      BY DEF IInv, Slots!SlotTypes, Slots!Config, Config
    <3>3. loaded' \in [candidate : Config \cup {None}, generation : Nat]
      BY <1>3, <3>1, <3>2 DEF MainOK
    <3>4. pc' = "generation" => loaded'.candidate \in Config
      BY <1>3, <3>1, <3>2 DEF MainOK
    <3> QED BY <1>3, <3>1, <3>3, <3>4 DEF MainOK, Points, Holding
  <2>3. CASE ReadGeneration
    <3>1. mqtt.generation \in Nat
      BY <1>3 DEF MqttOK
    <3>2. loaded' = [loaded EXCEPT !.generation = mqtt.generation] /\ pc' = "configure"
          /\ UNCHANGED <<cause, slot, trying, savedGeneration>> /\ pc = "generation"
      BY <2>3 DEF ReadGeneration
    <3>3. loaded' \in [candidate : Config \cup {None}, generation : Nat]
          /\ loaded'.candidate = loaded.candidate
      BY <1>3, <3>1, <3>2 DEF MainOK
    <3> QED BY <1>3, <3>2, <3>3 DEF MainOK, Points, Holding
  <2> QED BY <2>1, <2>2, <2>3
<1> QED BY <1>1, <1>2, <1>4, <1>6, <1>7, Frames DEF IInv

\* Main moves on, with what it has loaded.
LEMMA MainMoves ==
  ASSUME MainOK, UNCHANGED <<cause, loaded, slot, trying, savedGeneration>>,
         pc' \in Points, pc' \in Holding => pc \in Holding
  PROVE  MainOK'
BY DEF MainOK

LEMMA AttemptSteps ==
  ASSUME IInv, Configure \/ Arm \/ Disconnect \/ Disarm \/ Connect
  PROVE  IInv'
<1>0. DriverOK /\ GatewayOK /\ MainOK /\ WorldOK
  BY DEF IInv
<1>1. MainOK'
  <2>1. /\ UNCHANGED <<cause, loaded, slot, trying, savedGeneration>>
        /\ pc \in Holding
        /\ pc' \in {"arm", "retain", "disconnect", "connecting", "disarm", "disarmOnError", "connect"}
    BY DEF Configure, Arm, Disconnect, Disarm, Connect, Holding
  <2> QED BY <1>0, <2>1, MainMoves DEF Points, Holding
<1>2. UNCHANGED <<slots, mqtt, portal, restarts, history>> /\ (Errs \/ UNCHANGED errors)
  BY DEF Configure, Arm, Disconnect, Disarm, Connect
<1>3. WorldOK'
  BY <1>0, <1>2, ErrsOK
<1>4. GatewayOK'
  <2>1. CASE Arm
    BY <1>0, <2>1, ZeroCount DEF Arm, GatewayOK
  <2>2. CASE Disarm
    BY <1>0, <2>2 DEF Disarm, GatewayOK
  <2>3. CASE UNCHANGED gatewayVars
    BY <1>0, <2>3, Frames
  <2> QED BY <2>1, <2>2, <2>3 DEF Configure, Disconnect, Connect
<1>5. DriverOK' /\ Configured'
  <2>1. CASE Configure
    <3>1. CASE driver' = [driver EXCEPT !.config = loaded.candidate.cred]
      <4>1. loaded.candidate.cred \in Creds
        BY <1>0, <2>1 DEF MainOK, Holding, Configure, Config
      <4>2. events' = events
        BY <2>1 DEF Configure
      <4> DEFINE c == loaded.candidate.cred
      <4> HIDE DEF c
      <4>3. driver' = [driver EXCEPT !.config = c] /\ c \in Creds
        BY <3>1, <4>1 DEF c
      <4>4. DriverOK' /\ driver'.config = c
        BY <1>0, <4>2, <4>3 DEF DriverOK
      <4> QED BY <4>3, <4>4 DEF Configured
    <3>2. CASE UNCHANGED driver /\ pc' = "retain"
      BY <1>0, <2>1, <3>2 DEF Configure, DriverOK, IInv, Configured, Given
    <3> QED BY <2>1, <3>1, <3>2 DEF Configure
  <2>2. CASE Arm \/ Disarm
    <3>1. UNCHANGED <<driver, events>> /\ pc \in Given
      BY <2>2 DEF Arm, Disarm, Given
    <3> QED BY <1>0, <3>1 DEF DriverOK, IInv, Configured
  <2>3. CASE Disconnect
    <3>1. driver.config \in Creds
      BY <2>3 DEF Disconnect, IInv, Configured, Given
    <3>2. CASE /\ driver.state # "idle" /\ driver' = [driver EXCEPT !.state = "idle"]
               /\ events' = Posted("other")
      <4>1. events' \in Seq(Event)
        BY <1>0, <3>2, PostedOK
      <4>2. DriverOK' /\ driver'.config = driver.config
        BY <1>0, <3>2, <4>1 DEF DriverOK
      <4> QED BY <3>1, <4>2 DEF Configured
    <3>3. CASE UNCHANGED <<driver, events>>
      BY <1>0, <3>1, <3>3 DEF DriverOK, Configured
    <3> QED BY <2>3, <3>2, <3>3 DEF Disconnect
  <2>4. CASE Connect
    <3>1. driver.config \in Creds /\ events' = events
      BY <2>4 DEF Connect, IInv, Configured, Given
    <3>2. events' \in Seq(Event)
      BY <1>0, <3>1 DEF DriverOK
    <3>3. CASE driver' = Connected(driver)
      BY <1>0, <3>1, <3>2, <3>3, ConnectedOK DEF Configured
    <3>4. CASE UNCHANGED driver
      BY <1>0, <3>1, <3>4 DEF DriverOK, Configured
    <3> QED BY <2>4, <3>3, <3>4 DEF Connect
  <2> QED BY <2>1, <2>2, <2>3, <2>4
<1> QED BY <1>1, <1>2, <1>3, <1>4, <1>5, Frames DEF IInv

LEMMA EndSteps ==
  ASSUME IInv, Connecting \/ Retain
  PROVE  IInv'
<1>0. GatewayOK /\ MainOK /\ WorldOK /\ HistoryOK
  BY DEF IInv
<1>1. /\ UNCHANGED <<slots, driver, events, mqtt, restarts, errors, refusals, streak,
                     credentialFailures, unreachable, reconfigure, staIp, cause>>
      /\ pc' = "loop" /\ loaded' = [candidate |-> None, generation |-> 0]
      /\ status' \in {"CONNECTING", "PROVISIONING"} /\ overtaken' \in BOOLEAN
      /\ portal' = portal \/ portal' = [portal EXCEPT !.provisioning = TRUE]
  BY DEF Connecting, Retain
<1>2. slot' \in {"CURRENT", "CANDIDATE"} /\ trying' \in Config \cup {None}
      /\ savedGeneration' \in Nat
  BY <1>0 DEF Connecting, Retain, MainOK
<1>3. MainOK'
  BY <1>0, <1>1, <1>2 DEF MainOK, Points, Holding
<1>4. GatewayOK'
  BY <1>0, <1>1 DEF GatewayOK, Statuses
<1>5. WorldOK'
  BY <1>0, <1>1 DEF WorldOK
<1>6. HistoryOK'
  BY <1>0, <1>1 DEF HistoryOK
<1>7. Configured'
  BY <1>1 DEF IInv, Configured, Given
<1> QED BY <1>1, <1>3, <1>4, <1>5, <1>6, <1>7, Frames DEF IInv

LEMMA BootOK ==
  ASSUME MqttOK, WorldOK, Slots!SlotTypes, Boot(current, candidate), UNCHANGED slots,
         restarts' \in Nat, errors' \in Nat
  PROVE  IInv'
<1>1. /\ current \in Creds \cup {None} /\ candidate \in Config \cup {None}
      /\ Slots!SlotTypes'
  BY DEF Slots!SlotTypes, Slots!Config, Config, slots
<1>2. DriverOK' /\ Configured'
  <2>1. /\ driver' = [state |-> IF current = None THEN "idle" ELSE "connecting",
                      config |-> current, link |-> current]
        /\ events' = <<>> /\ pc' \notin Given
    BY DEF Boot, Given
  <2>2. events' \in Seq(Event)
    BY <2>1
  <2> QED BY <1>1, <2>1, <2>2 DEF DriverOK, Configured
<1>3. GatewayOK'
  BY ZeroCount DEF Boot, GatewayOK, Statuses
<1>4. MainOK'
  BY <1>1 DEF Boot, MainOK, Points, Holding
<1>5. MqttOK'
  BY DEF Boot, MqttOK
<1>6. WorldOK'
  BY DEF Boot, WorldOK
<1>7. HistoryOK'
  BY ZeroCount DEF Boot, HistoryOK
<1> QED BY <1>1, <1>2, <1>3, <1>4, <1>5, <1>6, <1>7 DEF IInv

-----------------------------------------------------------------------------
(* The slots, the MQTT task, the form and restarts. *)

LEMMA SlotSteps ==
  ASSUME Slots!SlotTypes
  PROVE  /\ candidate # None /\ Slots!Promote => Slots!SlotTypes'
         /\ Slots!Clear => Slots!SlotTypes'
         /\ \A c \in Creds : Slots!Save(c) => Slots!SlotTypes'
         /\ \A c \in Backend : Slots!Stage(c) => Slots!SlotTypes'
<1>1. /\ current \in Creds \cup {None} /\ candidate \in Config \cup {None}
      /\ active \in Slots!Id \cup {None}
  BY DEF Slots!SlotTypes, Slots!Config, Config
<1>2. \A c \in Config : c.cred \in Creds /\ Slots!IdOf(c) \in Slots!Id
  BY DEF Config, Slots!IdOf, Slots!Id
<1>3. Slots!SlotTypes' <=> /\ current' \in Creds \cup {None}
                           /\ candidate' \in Config \cup {None}
                           /\ active' \in Slots!Id \cup {None}
  BY DEF Slots!SlotTypes, Slots!Config, Config
<1>4. candidate # None /\ Slots!Promote => Slots!SlotTypes'
  BY <1>1, <1>2, <1>3 DEF Slots!Promote
<1>5. Slots!Clear => Slots!SlotTypes'
  BY <1>1, <1>3 DEF Slots!Clear
<1>6. ASSUME NEW c \in Creds, Slots!Save(c) PROVE Slots!SlotTypes'
  BY <1>3, <1>6 DEF Slots!Save
<1>7. ASSUME NEW c \in Backend, Slots!Stage(c) PROVE Slots!SlotTypes'
  <2>1. c \in Config
    BY UpstreamWifiAssumption DEF Config
  <2> QED BY <1>1, <1>3, <1>7, <2>1 DEF Slots!Stage
<1> QED BY <1>4, <1>5, <1>6, <1>7

LEMMA StoreSteps ==
  ASSUME IInv, StorePromotion \/ ClearCurrent
  PROVE  IInv'
<1>0. MainOK /\ Slots!SlotTypes
  BY DEF IInv
<1>1. Slots!SlotTypes'
  BY <1>0, SlotSteps DEF StorePromotion, ClearCurrent
<1>2. /\ UNCHANGED <<driver, events, gatewayVars, cause, loaded, savedGeneration, mqtt, portal,
                     restarts, errors, history>>
      /\ pc' \in {"loop", "restart"}
      /\ slot' = slot \/ slot' = "CURRENT"
      /\ trying' = trying \/ trying' = None
  BY DEF StorePromotion, ClearCurrent
<1>3. MainOK'
  BY <1>0, <1>2 DEF MainOK, Points, Holding
<1>4. Configured'
  BY <1>2 DEF IInv, Configured, Given
<1> QED BY <1>1, <1>2, <1>3, <1>4, Frames DEF IInv

LEMMA RestartSteps ==
  ASSUME IInv, RestartCleared \/ Restart
  PROVE  IInv'
<1>1. /\ Boot(current, candidate) /\ UNCHANGED slots
      /\ restarts' = restarts \/ restarts' = restarts + 1
      /\ errors' = errors
  BY DEF RestartCleared, Restart
<1>2. restarts' \in Nat /\ errors' \in Nat
  BY <1>1 DEF IInv, WorldOK
<1> QED BY <1>1, <1>2, BootOK DEF IInv

LEMMA MqttSteps ==
  ASSUME IInv, MqttTask
  PROVE  IInv'
<1>0. MqttOK /\ DriverOK
  BY DEF IInv
<1>1. CASE MqttEstablish \/ MqttConnected \/ MqttDisconnected
  <2>1. UNCHANGED <<slots, driver, events, gatewayVars, mainVars, portal, restarts, errors, history>>
    BY <1>1 DEF MqttEstablish, MqttConnected, MqttDisconnected
  <2>2. MqttOK'
    <3>1. CASE MqttEstablish
      <4>1. driver.link \in Creds \cup {None} /\ mqtt' = [mqtt EXCEPT !.over = driver.link]
        BY <1>0, <3>1 DEF MqttEstablish, DriverOK
      <4> QED BY <1>0, <4>1 DEF MqttOK
    <3>2. CASE MqttConnected
      <4> DEFINE g == mqtt.generation + 1
                 o == mqtt.over
      <4>1. g \in Nat /\ o \in Creds \cup {None}
        BY <1>0 DEF MqttOK
      <4>2. mqtt' = [mqtt EXCEPT !.connected = TRUE, !.generation = g, !.counted = o]
        BY <3>2 DEF MqttConnected
      <4> HIDE DEF g, o
      <4> QED BY <1>0, <4>1, <4>2 DEF MqttOK
    <3>3. CASE MqttDisconnected
      BY <1>0, <3>3 DEF MqttDisconnected, MqttOK
    <3> QED BY <1>1, <3>1, <3>2, <3>3
  <2>3. pc' = pc
    BY <2>1 DEF mainVars
  <2> QED BY <2>1, <2>2, <2>3, Frames DEF IInv
<1>2. ASSUME NEW c \in Backend, StageCommand(c)
      PROVE  IInv'
  <2>1. UNCHANGED <<driver, events, gatewayVars, mainVars, portal, restarts, errors, history>>
    BY <1>2 DEF StageCommand
  <2>2. Slots!SlotTypes'
    BY <1>2, SlotSteps DEF IInv, StageCommand
  <2>3. MqttOK'
    <3>1. c.ver \in Nat
      BY UpstreamWifiAssumption
    <3>2. mqtt' = [mqtt EXCEPT !.sent = c.ver]
      BY <1>2 DEF StageCommand
    <3> DEFINE v == c.ver
    <3>3. v \in Nat /\ mqtt' = [mqtt EXCEPT !.sent = v]
      BY <3>1, <3>2
    <3> HIDE DEF v
    <3> QED BY <1>0, <3>3 DEF MqttOK
  <2>4. pc' = pc
    BY <2>1 DEF mainVars
  <2> QED BY <2>1, <2>2, <2>3, <2>4, Frames DEF IInv
<1> QED BY <1>1, <1>2 DEF MqttTask

LEMMA FormSteps ==
  ASSUME IInv, NEW c \in Creds, SaveForm(c)
  PROVE  IInv'
<1>1. UNCHANGED <<driver, events, gatewayVars, mainVars, mqtt, restarts, errors, history>>
  BY DEF SaveForm
<1>2. Slots!SlotTypes'
  BY SlotSteps DEF IInv, SaveForm
<1>3. PICK answered \in BOOLEAN : portal' = [portal EXCEPT !.restarting = answered]
  BY DEF SaveForm
<1>4. WorldOK'
  BY <1>1, <1>3 DEF IInv, WorldOK
<1>5. pc' = pc
  BY <1>1 DEF mainVars
<1> QED BY <1>1, <1>2, <1>4, <1>5, Frames DEF IInv

LEMMA InitOK == Init => IInv
<1> SUFFICES ASSUME Init PROVE IInv
  OBVIOUS
<1>1. Slots!SlotTypes /\ current \in Creds \cup {None}
  BY DEF Init, Slots!Init, Slots!SlotTypes
<1>2. DriverOK /\ Configured
  <2>1. /\ driver = [state |-> IF current = None THEN "idle" ELSE "connecting",
                     config |-> current, link |-> current]
        /\ events = <<>> /\ pc \notin Given
    BY DEF Init, Given
  <2> QED BY <1>1, <2>1 DEF DriverOK, Configured
<1>3. GatewayOK
  BY ZeroCount DEF Init, GatewayOK, Statuses
<1>4. MainOK
  BY DEF Init, MainOK, Points, Holding
<1>5. MqttOK
  BY DEF Init, MqttOK
<1>6. WorldOK
  BY DEF Init, WorldOK
<1>7. HistoryOK
  BY ZeroCount DEF Init, HistoryOK
<1> QED BY <1>1, <1>2, <1>3, <1>4, <1>5, <1>6, <1>7 DEF IInv

LEMMA NextOK ==
  ASSUME IInv, [Next]_vars
  PROVE  IInv'
<1>1. CASE MainTask
  BY <1>1, PassSteps, AttemptSteps, EndSteps, StoreSteps, RestartSteps DEF MainTask
<1>2. CASE UNCHANGED vars
  <2>1. UNCHANGED <<slots, driver, events, gatewayVars, mainVars, mqtt, portal, restarts, errors,
                    history>>
    BY <1>2 DEF vars
  <2>2. pc' = pc
    BY <2>1 DEF mainVars
  <2> QED BY <2>1, <2>2, Frames DEF IInv
<1> QED BY <1>1, <1>2, DriverSteps, HandlerSteps, MqttSteps, FormSteps, RestartSteps DEF Next

\* The inductive invariant: types, and that credentials are there whenever a task can
\* make the driver connect.
THEOREM Invariance == Spec => []IInv
<1> QED BY InitOK, NextOK, PTL DEF Spec

\* Every variable of wifi_gateway, main and the MQTT client keeps its type, and the
\* failure counters stay within STA_CREDENTIAL_FAILURE_LIMIT.
THEOREM TypeCorrect == Spec => []TypeOK
<1> QED BY Invariance, TypesOfIInv, PTL

-----------------------------------------------------------------------------
(* The expected disconnection. *)

Down(e) == e.kind \in {"credential", "other"}

\* A failure that waits stays in the queue when another event is posted or handled.
LEMMA DownStays ==
  ASSUME DriverOK, NEW i \in DOMAIN events, Down(events[i]),
         \/ events' = events
         \/ driver.state # "idle" /\ \E k \in {"connected", "got_ip", "credential", "other"} :
                                       events' = Posted(k)
         \/ Handles({"connected"}) \/ Handles({"got_ip"})
  PROVE  \E j \in DOMAIN events' : Down(events'[j])
<1>0. events \in Seq(Event) /\ Len(events) \in Nat /\ i \in 1..Len(events)
  BY LenProperties DEF DriverOK
<1>1. CASE events' = events
  BY <1>1
<1>2. CASE driver.state # "idle" /\ \E k \in {"connected", "got_ip", "credential", "other"} :
                                       events' = Posted(k)
  <2>1. /\ events' \in Seq(Event) /\ Len(events') = Len(events) + 1
        /\ events'[i] = events[i]
    BY <1>0, <1>2, PostedOK
  <2>2. i \in DOMAIN events'
    BY <1>0, <2>1, LenProperties
  <2> QED BY <2>1, <2>2
<1>3. CASE Handles({"connected"}) \/ Handles({"got_ip"})
  <2>1. events # <<>> /\ events' = Tail(events) /\ ~Down(Head(events))
    BY <1>3 DEF Handles, Down
  <2>2. /\ events' \in Seq(Event) /\ Len(events') = Len(events) - 1
        /\ \A j \in 1..(Len(events) - 1) : events'[j] = events[j + 1]
        /\ Head(events) = events[1]
    BY <1>0, <2>1, HeadTailProperties
  <2>3. i # 1
    BY <2>1, <2>2
  <2>4. i - 1 \in DOMAIN events' /\ events'[i - 1] = events[i]
    BY <1>0, <2>2, <2>3, LenProperties
  <2> QED BY <2>4
<1> QED BY <1>1, <1>2, <1>3

Attempting == {"disconnect", "disarm", "disarmOnError"}

\* Only Arm sets the flag; main keeps it until it has disconnected or disarmed.
LEMMA FlagSteps ==
  ASSUME IInv, [Next]_vars
  PROVE  \/ ~reconfigure'
         \/ pc' \in Attempting
         \/ /\ reconfigure /\ pc \notin Attempting
            /\ \/ events' = events
               \/ driver.state # "idle" /\ \E k \in {"connected", "got_ip", "credential", "other"} :
                                             events' = Posted(k)
               \/ Handles({"connected"}) \/ Handles({"got_ip"})
         \/ Disconnect /\ driver.state # "idle" /\ events' = Posted("other")
<1>0. GatewayOK
  BY DEF IInv
<1>1. CASE EventTask
  BY <1>0, <1>1 DEF EventTask, HandleConnected, HandleGotIp, HandleReconfigured,
     HandleDisconnected, mainVars, GatewayOK
<1>2. CASE LinkUp \/ AddressObtained \/ (\E kind \in {"credential", "other"} : LinkDown(kind))
  BY <1>0, <1>2 DEF LinkUp, AddressObtained, LinkDown, gatewayVars, mainVars, GatewayOK
<1>3. CASE MqttTask \/ (\E c \in Creds : SaveForm(c)) \/ UNCHANGED vars
  <2>1. UNCHANGED <<events, gatewayVars, mainVars>>
    BY <1>3 DEF MqttTask, MqttEstablish, MqttConnected, MqttDisconnected, StageCommand,
       SaveForm, vars
  <2> QED BY <1>0, <2>1 DEF gatewayVars, mainVars, GatewayOK
<1>4. CASE Restart \/ RestartCleared
  BY <1>4 DEF Restart, RestartCleared, Boot
<1>5. CASE MainTask
  <2>1. CASE Arm
    BY <2>1 DEF Arm, Attempting
  <2>2. CASE Disconnect
    BY <2>2 DEF Disconnect, Attempting
  <2>3. CASE Disarm
    BY <2>3 DEF Disarm
  <2>4. CASE \/ NextPass \/ CheckStatus \/ CheckMqtt \/ StorePromotion \/ PromotionRefused
             \/ LoadCandidate \/ ReadGeneration \/ Configure \/ Connect \/ Connecting
             \/ Retain \/ ClearCurrent \/ ClearFails
    <3>1. UNCHANGED <<events, reconfigure>> /\ pc \notin Attempting
      BY <2>4 DEF NextPass, CheckStatus, CheckMqtt, StorePromotion, PromotionRefused,
         LoadCandidate, ReadGeneration, Configure, Connect, Connecting, Retain, ClearCurrent,
         ClearFails, gatewayVars, Attempting
    <3> QED BY <1>0, <3>1 DEF GatewayOK
  <2> QED BY <1>4, <1>5, <2>1, <2>2, <2>3, <2>4 DEF MainTask
<1> QED BY <1>1, <1>2, <1>3, <1>4, <1>5 DEF Next

\* s_sta_reconfigure_pending is set only while main is in wifi_gateway_connect_sta or
\* the disconnection it asked for waits for wifi_event_handler: no later failure of
\* the link is spared the counters.
THEOREM FlagIsExpected == Spec => []ExpectedDisconnection
<1>1. Init => ExpectedDisconnection
  BY DEF Init, ExpectedDisconnection
<1>2. ASSUME IInv, IInv', ExpectedDisconnection, [Next]_vars
      PROVE  ExpectedDisconnection'
  <2>1. DriverOK
    BY <1>2 DEF IInv
  <2>2. CASE ~reconfigure' \/ pc' \in Attempting
    BY <2>2 DEF ExpectedDisconnection, Attempting
  <2>3. CASE /\ reconfigure /\ pc \notin Attempting
             /\ \/ events' = events
                \/ driver.state # "idle" /\ \E k \in {"connected", "got_ip", "credential", "other"} :
                                              events' = Posted(k)
                \/ Handles({"connected"}) \/ Handles({"got_ip"})
    <3>1. PICK i \in DOMAIN events : Down(events[i])
      BY <1>2, <2>3 DEF ExpectedDisconnection, Attempting, Down
    <3>2. \E j \in DOMAIN events' : Down(events'[j])
      BY <2>1, <2>3, <3>1, DownStays
    <3> QED BY <3>2 DEF ExpectedDisconnection, Down
  <2>4. CASE Disconnect /\ driver.state # "idle" /\ events' = Posted("other")
    <3>1. /\ events' \in Seq(Event) /\ Len(events') = Len(events) + 1 /\ Len(events) \in Nat
          /\ events'[Len(events) + 1].kind = "other"
      BY <2>1, <2>4, PostedOK
    <3>2. Len(events) + 1 \in DOMAIN events'
      BY <3>1, LenProperties
    <3> QED BY <3>1, <3>2 DEF ExpectedDisconnection
  <2> QED BY <1>2, <2>2, <2>3, <2>4, FlagSteps
<1> QED BY <1>1, <1>2, Invariance, PTL DEF Spec

-----------------------------------------------------------------------------
(* The status and the link. *)

\* The last event that waits tells the state of the driver, which leaves it without
\* an event only when it is told to connect.
LastEvent ==
  events # <<>> =>
    LET k == events[Len(events)].kind
    IN  /\ k = "connected" => driver.state = "connected"
        /\ k = "got_ip" => driver.state = "ip"
        /\ k \in {"credential", "other"} => driver.state \in {"idle", "connecting"}

\* From its first write to the gateway to the status it ends an attempt with, main has
\* a status of its own to write.
Busy == {"disconnect", "disarm", "disarmOnError", "connect", "connecting", "retain"}

Agree ==
  /\ status = "GOT_IP" <=> driver.state = "ip"
  /\ status = "CONNECTED" <=> driver.state = "connected"
  /\ status \in {"CONNECTING", "STARTING"} <=> driver.state = "connecting"
  /\ driver.state = "ip" => staIp

Agreement == events = <<>> /\ ~overtaken /\ pc \notin Busy => Agree

\* What a handler finds in the queue, and what it leaves.
LEMMA QueueMoves ==
  ASSUME DriverOK, NEW S, Handles(S)
  PROVE  /\ Len(events) \in Nat \ {0} /\ Len(events') = Len(events) - 1
         /\ \A j \in 1..(Len(events) - 1) : events'[j] = events[j + 1]
         /\ Head(events) = events[1] /\ events[1].kind \in S
         /\ events' # <<>> => events'[Len(events')] = events[Len(events)]
         /\ events' = <<>> => Len(events) = 1
<1>1. events \in Seq(Event) /\ events # <<>> /\ events' = Tail(events) /\ Head(events).kind \in S
  BY DEF DriverOK, Handles
<1>2. /\ events' \in Seq(Event) /\ Head(events) = events[1] /\ Len(events') = Len(events) - 1
      /\ \A j \in 1..(Len(events) - 1) : events'[j] = events[j + 1]
  BY <1>1, HeadTailProperties
<1>3. Len(events) \in Nat \ {0} /\ Len(events') \in Nat /\ (events' = <<>> <=> Len(events') = 0)
  BY <1>1, <1>2, LenProperties, EmptySeq
<1>4. events' # <<>> => Len(events) - 1 \in 1..(Len(events) - 1)
  BY <1>2, <1>3
<1> QED BY <1>1, <1>2, <1>3, <1>4

\* What becomes of the driver in a step: an event is posted of what it did, or it is
\* told to connect, or it keeps its state.
Posts(k) ==
  /\ driver.state # "idle" /\ events' = Posted(k)
  /\ driver'.config = driver.config /\ driver'.link = driver.link
  /\ k = "connected" => driver.state = "connecting" /\ driver'.state = "connected"
  /\ k = "got_ip" => driver.state = "connected" /\ driver'.state = "ip"
  /\ k \in {"credential", "other"} => driver'.state = "idle"

Continues == driver' = driver \/ driver' = Connected(driver)

Environment == LinkUp \/ AddressObtained \/ (\E kind \in {"credential", "other"} : LinkDown(kind))

LEMMA EnvironmentPosts ==
  ASSUME DriverOK, Environment
  PROVE  /\ \E k \in {"connected", "got_ip", "credential", "other"} : Posts(k)
         /\ UNCHANGED <<slots, gatewayVars, mainVars, mqtt, history>>
BY DEF DriverOK, Environment, LinkUp, AddressObtained, LinkDown, Posts

LEMMA HandlersContinue ==
  ASSUME EventTask
  PROVE  /\ Handles({"connected", "got_ip", "credential", "other"}) /\ Continues
         /\ UNCHANGED <<slots, mainVars, mqtt>>
BY DEF EventTask, HandleConnected, HandleGotIp, HandleReconfigured, HandleDisconnected, Handles,
   Continues, Reconnect

\* The steps of main that neither call the driver nor write to the gateway.
Thinks == \/ NextPass \/ CheckStatus \/ CheckMqtt \/ PromotionRefused \/ LoadCandidate
          \/ ReadGeneration \/ ClearFails \/ StorePromotion \/ ClearCurrent

\* The other tasks, which do neither.
Elsewhere == MqttTask \/ (\E c \in Creds : SaveForm(c)) \/ UNCHANGED vars

Boots == RestartCleared \/ Restart

LEMMA ThinkingKeeps ==
  ASSUME Thinks \/ Elsewhere
  PROVE  UNCHANGED <<driver, events, gatewayVars, history>>
BY DEF Thinks, NextPass, CheckStatus, CheckMqtt, PromotionRefused, LoadCandidate, ReadGeneration,
   ClearFails, StorePromotion, ClearCurrent, Elsewhere, MqttTask, MqttEstablish, MqttConnected,
   MqttDisconnected, StageCommand, SaveForm, vars

LEMMA ElsewhereKeeps ==
  ASSUME Elsewhere
  PROVE  UNCHANGED mainVars
BY DEF Elsewhere, MqttTask, MqttEstablish, MqttConnected, MqttDisconnected, StageCommand,
   SaveForm, vars

LEMMA Steps ==
  ASSUME [Next]_vars
  PROVE  \/ Environment \/ EventTask \/ Thinks \/ Elsewhere \/ Boots
         \/ Configure \/ Arm \/ Disconnect \/ Disarm \/ Connect \/ Connecting \/ Retain
BY DEF Next, MainTask, Environment, Thinks, Elsewhere, Boots

LEMMA BootState ==
  ASSUME Boots
  PROVE  Boot(current, candidate) /\ UNCHANGED slots
BY DEF Boots, RestartCleared, Restart

\* esp_wifi_disconnect finds the driver busy and posts, or does nothing.
LEMMA DisconnectPosts ==
  ASSUME DriverOK, Disconnect
  PROVE  /\ UNCHANGED <<slots, gatewayVars, cause, loaded, slot, trying, savedGeneration,
                        mqtt, history>>
         /\ pc = "disconnect"
         /\ \/ Posts("other") /\ pc' = "connecting"
            \/ UNCHANGED <<driver, events>> /\ driver.state = "idle" /\ pc' = "disarm"
            \/ UNCHANGED <<driver, events>> /\ pc' = "disarmOnError"
BY DEF DriverOK, Disconnect, Posts

LEMMA LastEventKept ==
  ASSUME IInv, LastEvent, [Next]_vars
  PROVE  LastEvent'
<1>0. DriverOK
  BY DEF IInv
<1>1. ASSUME NEW k \in {"connected", "got_ip", "credential", "other"}, Posts(k)
      PROVE  LastEvent'
  <2>1. Len(events') = Len(events) + 1 /\ events'[Len(events) + 1].kind = k
    BY <1>0, <1>1, PostedOK DEF Posts
  <2> QED BY <1>1, <2>1 DEF LastEvent, Posts
<1>2. CASE UNCHANGED events /\ (Continues \/ driver'.state = driver.state)
  BY <1>0, <1>2 DEF LastEvent, Continues, Connected, DriverOK
<1>3. CASE EventTask
  <2>1. Handles({"connected", "got_ip", "credential", "other"}) /\ Continues
    BY <1>3, HandlersContinue
  <2>2. events' # <<>> => events'[Len(events')] = events[Len(events)]
    BY <1>0, <2>1, QueueMoves
  <2>3. events # <<>>
    BY <2>1 DEF Handles
  <2>4. driver'.state = driver.state \/ (driver.state = "idle" /\ driver'.state = "connecting")
    BY <1>0, <2>1 DEF Continues, Connected, DriverOK
  <2> QED BY <2>2, <2>3, <2>4 DEF LastEvent
<1>4. CASE Boots
  BY <1>4, BootState DEF Boot, LastEvent
<1>5. CASE Environment
  BY <1>0, <1>1, <1>5, EnvironmentPosts
<1>6. CASE Disconnect
  BY <1>0, <1>1, <1>2, <1>6, DisconnectPosts
<1>7. CASE Thinks \/ Elsewhere
  BY <1>2, <1>7, ThinkingKeeps
<1>8. CASE Configure \/ Arm \/ Disarm \/ Connect \/ Connecting \/ Retain
  <2>1. UNCHANGED events /\ (Continues \/ driver'.state = driver.state)
    BY <1>0, <1>8 DEF Configure, Arm, Disarm, Connect, Connecting, Retain, Continues, DriverOK
  <2> QED BY <1>2, <2>1
<1> QED BY <1>3, <1>4, <1>5, <1>6, <1>7, <1>8, Steps

\* The handler of the last event that waits writes the status of the state the driver
\* is in, unless main has meanwhile made it connect.
LEMMA HandlersAgree ==
  ASSUME IInv, LastEvent, EventTask, events' = <<>>, ~overtaken'
  PROVE  Agree'
<1>0. DriverOK
  BY DEF IInv
<1>1. Handles({"connected", "got_ip", "credential", "other"})
  BY HandlersContinue
<1>2. Len(events) = 1 /\ Head(events) = events[1] /\ events # <<>>
  BY <1>0, <1>1, QueueMoves DEF Handles
<1>3. /\ Head(events).kind = "connected" => driver.state = "connected"
      /\ Head(events).kind = "got_ip" => driver.state = "ip"
      /\ Head(events).kind \in {"credential", "other"} => driver.state \in {"idle", "connecting"}
  BY <1>2 DEF LastEvent
<1>4. CASE HandleConnected
  <2>1. driver' = driver /\ status' = "CONNECTED" /\ driver.state = "connected"
    BY <1>3, <1>4 DEF HandleConnected, Handles
  <2> QED BY <2>1 DEF Agree
<1>5. CASE HandleGotIp
  <2>1. driver' = driver /\ status' = "GOT_IP" /\ staIp' = TRUE /\ driver.state = "ip"
    BY <1>3, <1>5 DEF HandleGotIp, Handles
  <2> QED BY <2>1 DEF Agree
<1>6. CASE HandleReconfigured \/ HandleDisconnected
  <2>1. driver.state = "idle"
    BY <1>6 DEF HandleReconfigured, HandleDisconnected, NoteFailure
  <2>2. \/ Reconnect
        \/ status' \in {"RECOVERY_REQUIRED", "UNREACHABLE"} /\ driver' = driver
    BY <1>6 DEF HandleReconfigured, HandleDisconnected
  <2>3. \/ status' = "CONNECTING" /\ driver'.state = "connecting"
        \/ status' \in {"RECOVERY_REQUIRED", "UNREACHABLE", "DISCONNECTED"} /\ driver'.state = "idle"
    BY <1>0, <2>1, <2>2 DEF Reconnect, Connected, DriverOK
  <2> QED BY <2>3 DEF Agree
<1> QED BY <1>4, <1>5, <1>6 DEF EventTask

LEMMA AgreementKept ==
  ASSUME IInv, LastEvent, Agreement, [Next]_vars
  PROVE  Agreement'
<1>0. DriverOK
  BY DEF IInv
<1>1. CASE EventTask
  BY <1>1, HandlersAgree DEF Agreement
<1>2. CASE Environment \/ Disconnect
  <2>1. (\E k \in {"connected", "got_ip", "credential", "other"} : Posts(k)) \/ pc' \in Busy
    BY <1>0, <1>2, EnvironmentPosts, DisconnectPosts DEF Busy
  <2>2. events' # <<>> \/ pc' \in Busy
    BY <1>0, <2>1, PostedOK DEF Posts
  <2> QED BY <2>2 DEF Agreement
<1>3. CASE Thinks \/ Elsewhere
  <2>1. UNCHANGED <<driver, events, status, staIp, overtaken>>
    BY <1>3, ThinkingKeeps DEF gatewayVars, history
  <2>2. pc \in Busy => pc' \in Busy
    <3>1. CASE Thinks
      BY <3>1 DEF Thinks, NextPass, CheckStatus, CheckMqtt, PromotionRefused, LoadCandidate,
         ReadGeneration, ClearFails, StorePromotion, ClearCurrent, Busy
    <3> QED BY <1>3, <3>1, ElsewhereKeeps DEF mainVars
  <2> QED BY <2>1, <2>2 DEF Agreement, Agree
<1>4. CASE Configure
  <2>1. /\ UNCHANGED <<events, status, staIp, overtaken>> /\ pc \notin Busy
        /\ driver'.state = driver.state
    BY <1>0, <1>4 DEF Configure, Busy, gatewayVars, history, DriverOK
  <2> QED BY <2>1 DEF Agreement, Agree
<1>5. CASE Arm \/ Disarm \/ Connect
  BY <1>5 DEF Arm, Disarm, Connect, Busy, Agreement
<1>6. CASE Connecting
  BY <1>6 DEF Connecting, Agreement, Agree
<1>7. CASE Retain
  BY <1>7 DEF Retain, Agreement, Agree
<1>8. CASE Boots
  <2>1. Boot(current, candidate)
    BY <1>8, BootState
  <2> QED BY <2>1 DEF Boot, Agreement, Agree, Busy
<1> QED BY <1>1, <1>2, <1>3, <1>4, <1>5, <1>6, <1>7, <1>8, Steps

\* s_status is that of the link whenever the event loop and main are at rest, unless
\* main's write and the event task's overtook each other.
THEOREM StatusIsTheLinks == Spec => []StatusFollowsLink
<1>1. Init => LastEvent /\ Agreement
  BY DEF Init, LastEvent, Agreement, Agree, Busy
<1>2. ASSUME IInv, LastEvent, Agreement, [Next]_vars
      PROVE  LastEvent' /\ Agreement'
  BY <1>2, LastEventKept, AgreementKept
<1>3. Agreement => StatusFollowsLink
  BY DEF Agreement, Agree, Busy, StatusFollowsLink
<1> QED BY <1>1, <1>2, <1>3, Invariance, PTL DEF Spec

-----------------------------------------------------------------------------
(* What is promoted is what the driver's link was made with.                  *)
(*                                                                            *)
(* The storage compares the identity of the candidate it holds with that of   *)
(* the one main tried, whatever has happened in between.  What makes this     *)
(* enough: the backend's versions only grow, so a candidate that was          *)
(* overtaken never comes back into the slot; main gives the driver new        *)
(* credentials only for the first candidate, or when the one it tried was     *)
(* overtaken; and a driver not yet connected with what it was given last is   *)
(* idle, and shown GOT_IP by no status that main reads.                       *)

Idle == driver.state = "idle"

\* The candidate tried is no longer the newest the backend staged.
Outdated == mqtt.sent > trying.ver

\* Main is about to note what it tries.
Tried == pc = "connecting" /\ cause # "boot"

\* What is in the slot is the newest that was staged.
Candidates ==
  /\ candidate # None => candidate \in Backend /\ candidate.ver = mqtt.sent
  /\ loaded.candidate # None => loaded.candidate \in Backend /\ loaded.candidate.ver <= mqtt.sent
  /\ trying # None => trying \in Backend /\ trying.ver <= mqtt.sent
  /\ slot = "CANDIDATE" => trying # None

\* An attempt follows another only when the candidate of the first was overtaken.
Attempt ==
  /\ pc \in Holding \cup {"load"} => cause # "boot"
  /\ pc \in Holding \/ Tried => loaded.candidate # None
  /\ pc \in Given \/ Tried => driver.config = loaded.candidate.cred
  /\ pc \in Holding \cup {"load"} /\ slot = "CANDIDATE" => Outdated
  /\ pc \in {"verify", "store"} => slot = "CANDIDATE"
  /\ pc \in {"load", "clear"} /\ cause = "recovery" => slot = "CURRENT"
  /\ pc = "clear" => cause = "recovery"

Links ==
  /\ slot = "CANDIDATE" => Outdated \/ driver.config = trying.cred
  /\ pc \in {"disarm", "connect", "connecting"} => driver.link = driver.config \/ Idle
  /\ slot = "CANDIDATE" /\ ~Outdated /\ driver.link # driver.config =>
       /\ Idle /\ pc \notin {"verify", "store"}
       /\ events = <<>> => status \notin {"GOT_IP", "CONNECTED"}
       /\ pc = "promote" => events = <<>>

\* Without current credentials nothing is tried.
Unprovisioned ==
  current = None =>
    /\ slot = "CURRENT"
    /\ \/ pc = "restart"
       \/ Idle /\ events = <<>> /\ pc \in {"loop", "promote"} /\ status = "PROVISIONING"

LinkInv == LastEvent /\ Candidates /\ Attempt /\ Links /\ Unprovisioned

LEMMA SentMoves ==
  ASSUME IInv, [Next]_vars
  PROVE  /\ mqtt'.sent \in Nat /\ mqtt.sent \in Nat /\ mqtt'.sent >= mqtt.sent
         /\ \/ mqtt'.sent = mqtt.sent
            \/ \E c \in Backend : StageCommand(c) /\ mqtt'.sent = c.ver
<1>0. MqttOK /\ MqttOK'
  BY NextOK DEF IInv
<1>1. mqtt.sent \in Nat /\ mqtt'.sent \in Nat
  BY <1>0 DEF MqttOK
<1>2. CASE MqttTask
  <2>1. CASE MqttEstablish \/ MqttDisconnected
    <3>1. \/ mqtt' = [mqtt EXCEPT !.connected = FALSE, !.over = None]
          \/ mqtt' = [mqtt EXCEPT !.over = driver.link]
      BY <2>1 DEF MqttEstablish, MqttDisconnected
    <3>2. mqtt'.sent = mqtt.sent
      BY <1>0, <3>1 DEF MqttOK
    <3> QED BY <1>1, <3>2
  <2>2. CASE MqttConnected
    <3> DEFINE g == mqtt.generation + 1
               o == mqtt.over
    <3>1. mqtt' = [mqtt EXCEPT !.connected = TRUE, !.generation = g, !.counted = o]
      BY <2>2 DEF MqttConnected
    <3> HIDE DEF g, o
    <3> QED BY <1>0, <1>1, <3>1 DEF MqttOK
  <2>3. ASSUME NEW c \in Backend, StageCommand(c) PROVE mqtt'.sent = c.ver /\ c.ver >= mqtt.sent
    <3> DEFINE v == c.ver
    <3>1. mqtt' = [mqtt EXCEPT !.sent = v] /\ v >= mqtt.sent
      BY <2>3 DEF StageCommand
    <3> HIDE DEF v
    <3>2. mqtt'.sent = v
      BY <1>0, <3>1 DEF MqttOK
    <3> QED BY <3>1, <3>2 DEF v
  <2> QED BY <1>1, <1>2, <2>1, <2>2, <2>3 DEF MqttTask
<1>3. CASE Boots
  <2>1. Boot(current, candidate)
    BY <1>3, BootState
  <2> QED BY <1>1, <2>1 DEF Boot
<1>4. CASE NextPass
  BY <1>0, <1>1, <1>4 DEF NextPass, StartMqtt, MqttOK
<1>5. CASE UNCHANGED mqtt
  BY <1>1, <1>5
<1>6. \/ MqttTask \/ Boots \/ NextPass \/ UNCHANGED mqtt
  <2>1. CASE Thinks
    BY <2>1 DEF Thinks, NextPass, CheckStatus, CheckMqtt, PromotionRefused, LoadCandidate,
       ReadGeneration, ClearFails, StorePromotion, ClearCurrent
  <2>2. CASE Elsewhere
    BY <2>2 DEF Elsewhere, SaveForm, vars
  <2>3. CASE Environment \/ EventTask
    BY <2>3 DEF Environment, LinkUp, AddressObtained, LinkDown, EventTask, HandleConnected,
       HandleGotIp, HandleReconfigured, HandleDisconnected
  <2>4. CASE Configure \/ Arm \/ Disconnect \/ Disarm \/ Connect \/ Connecting \/ Retain
    BY <2>4 DEF Configure, Arm, Disconnect, Disarm, Connect, Connecting, Retain
  <2> QED BY <2>1, <2>2, <2>3, <2>4, Steps
<1> QED BY <1>2, <1>3, <1>4, <1>5, <1>6

LEMMA BackendTypes ==
  ASSUME NEW c \in Backend
  PROVE  c.ver \in Nat /\ c.cred \in Creds /\ c \in Config
BY UpstreamWifiAssumption DEF Config

\* The slot of the candidate is written by the three operations of the storage.
LEMMA CandidateMoves ==
  ASSUME [Next]_vars
  PROVE  \/ candidate' = candidate /\ \A c \in Backend : ~StageCommand(c)
         \/ candidate' = None /\ \A c \in Backend : ~StageCommand(c)
         \/ \E c \in Backend : StageCommand(c)
<1>1. CASE Environment \/ EventTask
  BY <1>1 DEF Environment, LinkUp, AddressObtained, LinkDown, EventTask, HandleConnected,
     HandleGotIp, HandleReconfigured, HandleDisconnected, slots
<1>2. CASE Thinks
  BY <1>2 DEF Thinks, NextPass, CheckStatus, CheckMqtt, PromotionRefused, LoadCandidate,
     ReadGeneration, ClearFails, StorePromotion, ClearCurrent, slots, Slots!Promote, Slots!Clear
<1>3. CASE Elsewhere
  BY <1>3 DEF Elsewhere, MqttTask, MqttEstablish, MqttConnected, MqttDisconnected,
     SaveForm, Slots!Save, slots, vars
<1>4. CASE Boots
  BY <1>4, BootState DEF slots
<1>5. CASE Configure \/ Arm \/ Disconnect \/ Disarm \/ Connect \/ Connecting \/ Retain
  BY <1>5 DEF Configure, Arm, Disconnect, Disarm, Connect, Connecting, Retain, slots
<1> QED BY <1>1, <1>2, <1>3, <1>4, <1>5, Steps

\* What main has loaded, what it tries, and in which slot it is.
LEMMA MainMemory ==
  ASSUME IInv, [Next]_vars
  PROVE  /\ \/ loaded'.candidate = loaded.candidate
            \/ loaded'.candidate = None
            \/ LoadCandidate /\ loaded'.candidate = candidate
         /\ \/ UNCHANGED <<slot, trying>>
            \/ slot' = "CURRENT" /\ trying' = None
            \/ slot' = "CURRENT" /\ trying' = candidate /\ Boots
            \/ Connecting /\ Tried /\ slot' = "CANDIDATE" /\ trying' = loaded.candidate
<1>0. MainOK
  BY DEF IInv
<1>1. CASE Environment \/ EventTask \/ Elsewhere
  <2>1. UNCHANGED mainVars
    BY <1>0, <1>1, HandlersContinue, ElsewhereKeeps DEF Environment, LinkUp, AddressObtained, LinkDown
  <2> QED BY <2>1 DEF mainVars
<1>2. CASE LoadCandidate
  <2>1. loaded' = loaded \/ loaded' = [loaded EXCEPT !.candidate = candidate]
    BY <1>2 DEF LoadCandidate
  <2>2. loaded'.candidate = loaded.candidate \/ loaded'.candidate = candidate
    BY <1>0, <2>1 DEF MainOK
  <2> QED BY <1>2, <2>2 DEF LoadCandidate
<1>3. CASE ReadGeneration
  <2> DEFINE g == mqtt.generation
  <2>1. loaded' = [loaded EXCEPT !.generation = g]
    BY <1>3 DEF ReadGeneration
  <2> HIDE DEF g
  <2>2. loaded'.candidate = loaded.candidate
    BY <1>0, <2>1 DEF MainOK
  <2> QED BY <1>3, <2>2 DEF ReadGeneration
<1>4. CASE Thinks /\ ~LoadCandidate /\ ~ReadGeneration
  BY <1>4 DEF Thinks, NextPass, CheckStatus, CheckMqtt, PromotionRefused,
     ClearFails, StorePromotion, ClearCurrent
<1>5. CASE Boots
  <2>1. Boot(current, candidate)
    BY <1>5, BootState
  <2> QED BY <1>5, <2>1 DEF Boot
<1>6. CASE Configure \/ Arm \/ Disconnect \/ Disarm \/ Connect
  BY <1>6 DEF Configure, Arm, Disconnect, Disarm, Connect
<1>7. CASE Connecting
  BY <1>7 DEF Connecting, Tried
<1>8. CASE Retain
  BY <1>8 DEF Retain
<1> QED BY <1>1, <1>2, <1>3, <1>4, <1>5, <1>6, <1>7, <1>8, Steps

LEMMA CandidatesKept ==
  ASSUME IInv, Candidates, Attempt, [Next]_vars
  PROVE  Candidates'
<1>0. /\ mqtt'.sent \in Nat /\ mqtt.sent \in Nat /\ mqtt'.sent >= mqtt.sent
      /\ \/ mqtt'.sent = mqtt.sent
         \/ \E c \in Backend : StageCommand(c) /\ mqtt'.sent = c.ver
  BY SentMoves
<1>1. candidate' # None => candidate' \in Backend /\ candidate'.ver = mqtt'.sent
  <2>1. CASE \E c \in Backend : StageCommand(c)
    <3>1. PICK c \in Backend : StageCommand(c)
      BY <2>1
    <3>2. candidate' = c
      BY <3>1 DEF StageCommand, Slots!Stage
    <3>3. mqtt'.sent = c.ver
      <4> DEFINE v == c.ver
      <4>1. mqtt' = [mqtt EXCEPT !.sent = v] /\ MqttOK
        BY <3>1 DEF StageCommand, IInv
      <4> HIDE DEF v
      <4>2. mqtt'.sent = v
        BY <4>1 DEF MqttOK
      <4> QED BY <4>2 DEF v
    <3> QED BY <3>2, <3>3
  <2>2. CASE candidate' = candidate /\ \A c \in Backend : ~StageCommand(c)
    BY <1>0, <2>2 DEF Candidates
  <2> QED BY <2>1, <2>2, CandidateMoves
<1>2. \A c \in Backend : c.ver <= mqtt.sent => c.ver <= mqtt'.sent
  BY <1>0, BackendTypes
<1>3. candidate # None => candidate \in Backend /\ candidate.ver <= mqtt.sent
  BY <1>0 DEF Candidates
<1>4. loaded'.candidate # None =>
        loaded'.candidate \in Backend /\ loaded'.candidate.ver <= mqtt'.sent
  BY <1>2, <1>3, MainMemory DEF Candidates
<1>5. trying' # None => trying' \in Backend /\ trying'.ver <= mqtt'.sent
  BY <1>2, <1>3, MainMemory DEF Candidates
<1>6. slot' = "CANDIDATE" => trying' # None
  BY MainMemory DEF Candidates, Attempt
<1> QED BY <1>1, <1>4, <1>5, <1>6 DEF Candidates

\* Once overtaken, a candidate stays so while main tries it.
LEMMA StaysOutdated ==
  ASSUME IInv, Candidates, [Next]_vars, slot = "CANDIDATE", UNCHANGED trying
  PROVE  Outdated => Outdated'
<1>1. trying.ver \in Nat
  BY BackendTypes DEF Candidates
<1> QED BY <1>1, SentMoves DEF Outdated

\* The driver, the event handler and the other tasks leave what main knows alone.
LEMMA TasksKeepMain ==
  ASSUME Environment \/ EventTask \/ Elsewhere
  PROVE  UNCHANGED <<pc, cause, loaded, slot, trying>>
BY HandlersContinue, ElsewhereKeeps DEF Environment, LinkUp, AddressObtained, LinkDown, mainVars

\* Only Configure, and a restart, give the driver other credentials.
LEMMA ConfigMoves ==
  ASSUME IInv, [Next]_vars
  PROVE  \/ driver'.config = driver.config
         \/ Boots
         \/ Configure /\ pc' = "arm" /\ driver'.config = loaded.candidate.cred
<1>0. DriverOK
  BY DEF IInv
<1>1. ASSUME Continues PROVE driver'.config = driver.config
  BY <1>0, <1>1 DEF Continues, Connected, DriverOK
<1>2. CASE Environment \/ Disconnect
  BY <1>0, <1>2, EnvironmentPosts, DisconnectPosts DEF Posts
<1>3. CASE EventTask
  BY <1>1, <1>3, HandlersContinue
<1>4. CASE Thinks \/ Elsewhere
  BY <1>4, ThinkingKeeps
<1>5. CASE Configure
  <2> DEFINE c == loaded.candidate.cred
  <2>1. \/ driver' = [driver EXCEPT !.config = c] /\ pc' = "arm"
        \/ driver' = driver
    BY <1>5 DEF Configure
  <2> HIDE DEF c
  <2>2. driver' = [driver EXCEPT !.config = c] => driver'.config = c
    BY <1>0 DEF DriverOK
  <2> QED BY <1>5, <2>1, <2>2 DEF c
<1>6. CASE Arm \/ Disarm \/ Connecting \/ Retain
  BY <1>6 DEF Arm, Disarm, Connecting, Retain
<1>7. CASE Connect
  BY <1>1, <1>7 DEF Connect, Continues
<1> QED BY <1>2, <1>3, <1>4, <1>5, <1>6, <1>7, Steps

LEMMA AttemptKept ==
  ASSUME OneConfigurationPerVersion, IInv, Candidates, Attempt, [Next]_vars
  PROVE  Attempt'
<1>1. /\ slot = "CANDIDATE" /\ UNCHANGED trying /\ Outdated => Outdated'
  BY StaysOutdated
<1>2. CASE Environment \/ EventTask \/ Elsewhere
  <2>1. driver'.config = driver.config
    <3>1. ~Boots \/ driver'.config = driver.config
      <4>1. CASE Environment
        BY <4>1, EnvironmentPosts DEF Posts, IInv
      <4>2. CASE EventTask
        BY <4>2, HandlersContinue DEF Continues, Connected, IInv, DriverOK
      <4>3. CASE Elsewhere
        BY <4>3, ThinkingKeeps
      <4> QED BY <1>2, <4>1, <4>2, <4>3
    <3>2. Configure => UNCHANGED driver \/ pc' # pc
      BY DEF Configure
    <3> QED BY <1>2, <3>1, <3>2, ConfigMoves, TasksKeepMain
  <2> QED BY <1>1, <1>2, <2>1, TasksKeepMain DEF Attempt, Tried
<1>3. CASE NextPass
  <2>1. /\ UNCHANGED <<slot>> /\ slot \in {"CURRENT", "CANDIDATE"}
        /\ \/ pc' = "retain"
           \/ pc' = "load" /\ slot # "CANDIDATE" /\ cause' \in {"recovery", "unreachable"}
           \/ pc' = "promote"
    BY <1>3 DEF NextPass, IInv, MainOK
  <2> QED BY <2>1 DEF Attempt, Holding, Given, Tried
<1>4. CASE CheckStatus \/ CheckMqtt
  BY <1>4 DEF CheckStatus, CheckMqtt, Attempt, Holding, Given, Tried
<1>5. CASE StorePromotion
  BY <1>5 DEF StorePromotion, Attempt, Holding, Given, Tried
<1>6. CASE PromotionRefused
  <2>1. pc = "store" /\ UNCHANGED <<loaded, slot, trying, mqtt>> /\ slot = "CANDIDATE"
    BY <1>6 DEF PromotionRefused, Attempt
  <2>2. CASE pc' = "loop"
    BY <2>2 DEF Attempt, Holding, Given, Tried
  <2>3. CASE candidate # None /\ Slots!IdOf(candidate) # Slots!IdOf(trying) /\ pc' = "load"
             /\ cause' = "promote"
    <3>1. /\ candidate \in Backend /\ candidate.ver = mqtt.sent
          /\ trying \in Backend /\ trying.ver <= mqtt.sent
      BY <2>1, <2>3 DEF Candidates
    <3>2. candidate # trying
      BY <2>3
    <3>3. candidate.ver # trying.ver
      BY <3>1, <3>2 DEF OneConfigurationPerVersion
    <3>4. candidate.ver \in Nat /\ trying.ver \in Nat
      BY <3>1, BackendTypes
    <3>5. Outdated
      BY <3>1, <3>3, <3>4 DEF Outdated
    <3>6. Outdated'
      BY <2>1, <3>5 DEF Outdated
    <3> QED BY <2>3, <3>6 DEF Attempt, Holding, Given, Tried
  <2> QED BY <1>6, <2>2, <2>3 DEF PromotionRefused
<1>7. CASE LoadCandidate
  <2>1. /\ pc = "load" /\ UNCHANGED <<cause, slot, trying, mqtt, driver>>
        /\ pc' = "generation" => loaded' = [loaded EXCEPT !.candidate = candidate] /\ candidate # None
        /\ pc' \in {"generation", "clear", "retain"} /\ (pc' = "clear" => cause = "recovery")
    BY <1>7 DEF LoadCandidate
  <2>2. pc' = "generation" => loaded'.candidate # None
    BY <2>1 DEF IInv, MainOK
  <2>3. Outdated => Outdated'
    BY <2>1 DEF Outdated
  <2> QED BY <2>1, <2>2, <2>3 DEF Attempt, Holding, Given, Tried
<1>8. CASE ReadGeneration
  <2>1. /\ pc = "generation" /\ pc' = "configure" /\ UNCHANGED <<cause, slot, trying, mqtt, driver>>
    BY <1>8 DEF ReadGeneration
  <2>2. loaded'.candidate = loaded.candidate
    <3> DEFINE g == mqtt.generation
    <3>1. loaded' = [loaded EXCEPT !.generation = g]
      BY <1>8 DEF ReadGeneration
    <3> HIDE DEF g
    <3> QED BY <3>1 DEF IInv, MainOK
  <2>3. Outdated => Outdated'
    BY <2>1 DEF Outdated
  <2> QED BY <2>1, <2>2, <2>3 DEF Attempt, Holding, Given, Tried
<1>9. CASE ClearFails \/ ClearCurrent
  BY <1>9 DEF ClearFails, ClearCurrent, Attempt, Holding, Given, Tried
<1>10. CASE Configure
  <2>1. /\ pc = "configure" /\ pc' \in {"arm", "retain"} /\ UNCHANGED <<cause, loaded, slot, trying, mqtt>>
        /\ pc' = "retain" \/ driver' = [driver EXCEPT !.config = loaded.candidate.cred]
    BY <1>10 DEF Configure
  <2>2. pc' = "arm" => driver'.config = loaded.candidate.cred
    BY <2>1 DEF IInv, DriverOK
  <2>3. Outdated => Outdated'
    BY <2>1 DEF Outdated
  <2> QED BY <2>1, <2>2, <2>3 DEF Attempt, Holding, Given, Tried
<1>11. CASE Arm \/ Disconnect \/ Disarm \/ Connect
  <2>1. /\ UNCHANGED <<cause, loaded, slot, trying, mqtt>> /\ pc \in Given
        /\ pc' \in Given \cup {"connecting", "retain"}
    BY <1>11 DEF Arm, Disconnect, Disarm, Connect, Given
  <2>2. driver'.config = driver.config
    <3>1. pc # "configure" /\ ~Configure
      BY <2>1 DEF Given, Configure
    <3>2. CASE Connect
      BY <3>2 DEF Connect, Connected, IInv, DriverOK
    <3>3. CASE Disconnect
      BY <3>3, DisconnectPosts DEF Posts, IInv
    <3>4. CASE Arm \/ Disarm
      BY <3>4 DEF Arm, Disarm
    <3> QED BY <1>11, <3>2, <3>3, <3>4
  <2>3. Outdated => Outdated'
    BY <2>1 DEF Outdated
  <2> QED BY <2>1, <2>2, <2>3 DEF Attempt, Holding, Given, Tried
<1>12. CASE Connecting \/ Retain
  BY <1>12 DEF Connecting, Retain, Attempt, Holding, Given, Tried
<1>13. CASE Boots
  <2>1. Boot(current, candidate)
    BY <1>13, BootState
  <2> QED BY <2>1 DEF Boot, Attempt, Holding, Given, Tried
<1> QED BY <1>2, <1>3, <1>4, <1>5, <1>6, <1>7, <1>8, <1>9, <1>10, <1>11, <1>12, <1>13, Steps
           DEF Thinks

\* A driver that has no link yet with the credentials it was given for what main tries.
Waiting == slot = "CANDIDATE" /\ ~Outdated /\ driver.link # driver.config

LEMMA GivenWhatIsTried ==
  ASSUME IInv, Candidates, Attempt, Links, [Next]_vars
  PROVE  slot' = "CANDIDATE" => Outdated' \/ driver'.config = trying'.cred
<1>1. Boots => slot' = "CURRENT"
  BY BootState DEF Boot
<1>2. CASE Connecting /\ Tried /\ trying' = loaded.candidate
  BY <1>2 DEF Connecting, Attempt
<1>3. ASSUME UNCHANGED <<slot, trying>>, slot = "CANDIDATE"
      PROVE  Outdated' \/ driver'.config = trying'.cred
  <2>1. Outdated => Outdated'
    BY <1>3, StaysOutdated
  <2>2. Configure => Outdated
    BY <1>3 DEF Configure, Attempt, Holding
  <2> QED BY <1>1, <1>3, <2>1, <2>2, ConfigMoves DEF Links
<1> QED BY <1>1, <1>2, <1>3, MainMemory

\* esp_wifi_connect leaves a link with the configured credentials, or a busy driver.
LEMMA ContinuesLink ==
  ASSUME DriverOK, Continues, driver.link = driver.config \/ Idle
  PROVE  driver'.link = driver'.config \/ (driver' = driver /\ Idle)
<1>1. CASE driver' = driver
  BY <1>1
<1>2. CASE driver' = Connected(driver) /\ ~Idle
  BY <1>2 DEF Connected, Idle
<1>3. CASE driver' = Connected(driver) /\ Idle
  <2> DEFINE c == driver.config
  <2>1. driver' = [driver EXCEPT !.state = "connecting", !.link = c]
    BY <1>3 DEF Connected, Idle
  <2> HIDE DEF c
  <2>2. driver'.link = c /\ driver'.config = driver.config
    BY <2>1 DEF DriverOK
  <2> QED BY <2>2 DEF c
<1> QED BY <1>1, <1>2, <1>3 DEF Continues

LEMMA LinkOrIdle ==
  ASSUME IInv, Links, [Next]_vars, pc' \in {"disarm", "connect", "connecting"}
  PROVE  driver'.link = driver'.config \/ Idle'
<1>0. DriverOK
  BY DEF IInv
<1>1. CASE Environment
  <2>1. pc' = pc /\ ~Idle /\ driver'.config = driver.config /\ driver'.link = driver.link
    BY <1>0, <1>1, EnvironmentPosts DEF Posts, Idle, mainVars
  <2> QED BY <2>1 DEF Links
<1>2. CASE EventTask
  <2>1. pc' = pc /\ Continues
    BY <1>2, HandlersContinue DEF mainVars
  <2>2. driver'.link = driver'.config \/ (driver' = driver /\ Idle)
    BY <1>0, <2>1, ContinuesLink DEF Links
  <2> QED BY <2>2 DEF Idle
<1>3. CASE Elsewhere
  <2>1. pc' = pc /\ driver' = driver
    BY <1>3, ThinkingKeeps, ElsewhereKeeps DEF mainVars
  <2> QED BY <2>1 DEF Links, Idle
<1>4. CASE Disconnect
  BY <1>0, <1>4, DisconnectPosts DEF Posts, Idle
<1>5. CASE Disarm
  BY <1>5 DEF Disarm, Links, Idle
<1>6. CASE Connect
  <2>1. Continues /\ pc = "connect"
    BY <1>6 DEF Connect, Continues
  <2>2. driver'.link = driver'.config \/ (driver' = driver /\ Idle)
    BY <1>0, <2>1, ContinuesLink DEF Links
  <2> QED BY <2>2 DEF Idle
<1>7. CASE Boots
  <2>1. Boot(current, candidate)
    BY <1>7, BootState
  <2> QED BY <2>1 DEF Boot
<1>8. pc' \in {"disarm", "connect", "connecting"} => ~(Thinks \/ Configure \/ Arm \/ Connecting \/ Retain)
  BY DEF Thinks, NextPass, CheckStatus, CheckMqtt, PromotionRefused, LoadCandidate,
     ReadGeneration, ClearFails, StorePromotion, ClearCurrent, Configure, Arm, Connecting, Retain
<1> QED BY <1>1, <1>2, <1>3, <1>4, <1>5, <1>6, <1>7, <1>8, Steps

\* A handler that leaves the driver idle leaves no status of a link.
LEMMA HandlersOfIdle ==
  ASSUME IInv, LastEvent, EventTask, Idle, events' = <<>>
  PROVE  status' \notin {"GOT_IP", "CONNECTED"}
<1>0. DriverOK
  BY DEF IInv
<1>1. Handles({"connected", "got_ip", "credential", "other"})
  BY HandlersContinue
<1>2. Len(events) = 1 /\ Head(events) = events[1] /\ events # <<>>
  BY <1>0, <1>1, QueueMoves DEF Handles
<1>3. Head(events).kind \notin {"connected", "got_ip"}
  BY <1>2 DEF LastEvent, Idle
<1>4. HandleReconfigured \/ HandleDisconnected
  BY <1>3 DEF EventTask, HandleConnected, HandleGotIp, Handles
<1> QED BY <1>4 DEF HandleReconfigured, HandleDisconnected, Reconnect

LEMMA WaitingKept ==
  ASSUME IInv, LastEvent, Candidates, Attempt, Links, [Next]_vars, Waiting'
  PROVE  /\ Idle' /\ pc' \notin {"verify", "store"}
         /\ events' = <<>> => status' \notin {"GOT_IP", "CONNECTED"}
         /\ pc' = "promote" => events' = <<>>
<1>0. DriverOK
  BY DEF IInv
<1>1. UNCHANGED <<slot, trying>> => slot = "CANDIDATE" /\ ~Outdated
  BY StaysOutdated DEF Waiting
<1>2. CASE Environment
  <2>1. /\ UNCHANGED <<slot, trying>> /\ ~Idle
        /\ driver'.config = driver.config /\ driver'.link = driver.link
    BY <1>0, <1>2, EnvironmentPosts DEF Posts, Idle, mainVars
  <2> QED BY <1>1, <2>1 DEF Waiting, Links
<1>3. CASE EventTask
  <2>1. UNCHANGED <<pc, slot, trying>> /\ Continues /\ events # <<>>
    BY <1>3, HandlersContinue DEF mainVars, Handles
  <2>2. driver.link # driver.config
    BY <1>0, <2>1 DEF Waiting, Continues, Connected, DriverOK
  <2>3. Idle /\ pc \notin {"verify", "store", "promote"}
    BY <1>1, <2>1, <2>2 DEF Links
  <2>4. driver' = driver
    BY <1>0, <2>1, <2>3, ContinuesLink DEF Waiting
  <2> QED BY <1>3, <2>1, <2>3, <2>4, HandlersOfIdle DEF Idle
<1>4. CASE Thinks
  <2>1. UNCHANGED <<driver, events, status>>
    BY <1>4, ThinkingKeeps DEF gatewayVars
  <2>2. UNCHANGED <<slot, trying>>
    BY <1>4, MainMemory DEF Waiting, Thinks, NextPass, CheckStatus, CheckMqtt, PromotionRefused,
       LoadCandidate, ReadGeneration, ClearFails, StorePromotion, ClearCurrent
  <2>3. Waiting
    BY <1>1, <2>1, <2>2 DEF Waiting
  <2>4. /\ Idle /\ pc \notin {"verify", "store"}
        /\ events = <<>> => status \notin {"GOT_IP", "CONNECTED"}
        /\ pc = "promote" => events = <<>>
    BY <2>3 DEF Waiting, Links
  <2>5. /\ pc' \in {"verify", "store"} => pc = "verify" \/ (pc = "promote" /\ status = "GOT_IP")
        /\ pc' = "promote" => events = <<>>
    BY <1>4 DEF Thinks, NextPass, CheckStatus, CheckMqtt, PromotionRefused, LoadCandidate,
       ReadGeneration, ClearFails, StorePromotion, ClearCurrent
  <2> QED BY <2>1, <2>4, <2>5 DEF Idle
<1>5. CASE Elsewhere
  <2>1. UNCHANGED <<driver, events, status, pc, slot, trying>>
    BY <1>5, ThinkingKeeps, ElsewhereKeeps DEF gatewayVars, mainVars
  <2> QED BY <1>1, <2>1 DEF Waiting, Links, Idle
<1>6. CASE Boots
  BY <1>6, BootState DEF Boot, Waiting
<1>7. CASE Configure \/ Arm \/ Disconnect \/ Disarm \/ Connect
  <2>1. UNCHANGED <<slot, trying>> /\ pc \in Holding
    BY <1>7 DEF Configure, Arm, Disconnect, Disarm, Connect, Holding
  <2> QED BY <1>1, <2>1 DEF Attempt
<1>8. CASE Connecting
  <2>1. /\ pc = "connecting" /\ pc' = "loop" /\ status' = "CONNECTING"
        /\ UNCHANGED driver
    BY <1>8 DEF Connecting
  <2> QED BY <2>1 DEF Waiting, Links, Idle
<1>9. CASE Retain
  <2>1. /\ UNCHANGED <<driver, slot, trying, events>> /\ pc' = "loop" /\ status' = "PROVISIONING"
    BY <1>9 DEF Retain
  <2> QED BY <1>1, <2>1 DEF Waiting, Links, Idle
<1> QED BY <1>2, <1>3, <1>4, <1>5, <1>6, <1>7, <1>8, <1>9, Steps

LEMMA LinksKept ==
  ASSUME IInv, LastEvent, Candidates, Attempt, Links, [Next]_vars
  PROVE  Links'
BY GivenWhatIsTried, LinkOrIdle, WaitingKept DEF Links, Waiting

\* Credentials are there from the first form on, until main clears them.
LEMMA UnprovisionedKept ==
  ASSUME IInv, Attempt, Unprovisioned, [Next]_vars
  PROVE  Unprovisioned'
<1>0. /\ DriverOK /\ current \in Creds \cup {None} /\ candidate \in Config \cup {None}
      /\ None \notin Creds
  BY UpstreamWifiAssumption DEF IInv, Slots!SlotTypes, Slots!Config, Config
<1>1. SUFFICES ASSUME current' = None PROVE Unprovisioned'
  BY DEF Unprovisioned
<1>2. CASE ClearCurrent
  <2>1. pc' = "restart" /\ slot' = "CURRENT"
    BY <1>2 DEF ClearCurrent, Attempt
  <2> QED BY <2>1 DEF Unprovisioned
<1>3. CASE Boots
  <2>1. Boot(current, candidate) /\ current = None
    BY <1>1, <1>3, BootState DEF slots
  <2> QED BY <2>1 DEF Boot, Unprovisioned, Idle
<1>4. CASE ~ClearCurrent /\ ~Boots
  <2>1. current' = current
    <3>1. ASSUME NEW c \in Creds, SaveForm(c) PROVE FALSE
      BY <1>0, <1>1, <3>1 DEF SaveForm, Slots!Save
    <3>2. ~StorePromotion
      BY <1>0, <1>1 DEF StorePromotion, Slots!Promote, Config
    <3>3. CASE Environment \/ EventTask
      BY <3>3, HandlersContinue DEF Environment, LinkUp, AddressObtained, LinkDown, slots
    <3>4. CASE Thinks
      BY <1>4, <3>2, <3>4 DEF Thinks, NextPass, CheckStatus, CheckMqtt, PromotionRefused,
         LoadCandidate, ReadGeneration, ClearFails, slots
    <3>5. CASE Elsewhere
      BY <3>1, <3>5 DEF Elsewhere, MqttTask, MqttEstablish, MqttConnected, MqttDisconnected,
         StageCommand, Slots!Stage, slots, vars
    <3>6. CASE Configure \/ Arm \/ Disconnect \/ Disarm \/ Connect \/ Connecting \/ Retain
      BY <3>6 DEF Configure, Arm, Disconnect, Disarm, Connect, Connecting, Retain, slots
    <3> QED BY <1>4, <3>3, <3>4, <3>5, <3>6, Steps
  <2>2. /\ slot = "CURRENT"
        /\ \/ pc = "restart"
           \/ Idle /\ events = <<>> /\ pc \in {"loop", "promote"} /\ status = "PROVISIONING"
    BY <1>1, <2>1 DEF Unprovisioned
  <2>3. CASE pc = "restart"
    <3>1. ~Thinks /\ ~(Configure \/ Arm \/ Disconnect \/ Disarm \/ Connect \/ Connecting \/ Retain)
      BY <2>3 DEF Thinks, NextPass, CheckStatus, CheckMqtt, PromotionRefused, LoadCandidate,
         ReadGeneration, ClearFails, StorePromotion, ClearCurrent, Configure, Arm, Disconnect,
         Disarm, Connect, Connecting, Retain
    <3>2. UNCHANGED <<pc, slot>>
      BY <1>4, <3>1, TasksKeepMain, Steps
    <3> QED BY <2>2, <2>3, <3>2 DEF Unprovisioned
  <2>4. CASE Idle /\ events = <<>> /\ pc \in {"loop", "promote"} /\ status = "PROVISIONING"
    <3>1. ~Environment
      BY <1>0, <2>4, EnvironmentPosts DEF Posts, Idle
    <3>2. ~EventTask
      BY <2>4, HandlersContinue DEF Handles
    <3>3. ~(Configure \/ Arm \/ Disconnect \/ Disarm \/ Connect \/ Connecting \/ Retain)
      BY <2>4 DEF Configure, Arm, Disconnect, Disarm, Connect, Connecting, Retain
    <3>4. UNCHANGED <<driver, events, status>>
      BY <1>4, <3>1, <3>2, <3>3, Steps, ThinkingKeeps DEF gatewayVars
    <3>5. slot' = slot /\ pc' \in {"loop", "promote"}
      <4>1. CASE Elsewhere
        BY <2>4, <4>1, TasksKeepMain
      <4>2. CASE NextPass \/ CheckStatus
        BY <2>2, <2>4, <4>2 DEF NextPass, CheckStatus
      <4>3. Thinks => NextPass \/ CheckStatus
        BY <2>4 DEF Thinks, CheckMqtt, PromotionRefused, LoadCandidate,
           ReadGeneration, ClearFails, StorePromotion, ClearCurrent
      <4> QED BY <1>4, <3>1, <3>2, <3>3, <4>1, <4>2, <4>3, Steps
    <3> QED BY <2>2, <2>4, <3>4, <3>5 DEF Unprovisioned, Idle
  <2> QED BY <2>2, <2>3, <2>4
<1> QED BY <1>2, <1>3, <1>4

LEMMA LinkInvariance ==
  ASSUME OneConfigurationPerVersion
  PROVE  Spec => []LinkInv
<1>1. Init => LinkInv
  BY DEF Init, Slots!Init, LinkInv, LastEvent, Candidates, Attempt, Links, Unprovisioned, Idle,
     Tried, Holding, Given
<1>2. ASSUME IInv, LinkInv, [Next]_vars PROVE LinkInv'
  BY <1>2, LastEventKept, CandidatesKept, AttemptKept, LinksKept, UnprovisionedKept DEF LinkInv
<1> QED BY <1>1, <1>2, Invariance, PTL DEF Spec

\* promote_verified_candidate_if_ready promotes the credentials the driver made its
\* last link with, whatever was staged, saved and lost while main was between its
\* reads, provided the backend gives every configuration a version of its own.
THEOREM PromotesItsLink ==
  ASSUME OneConfigurationPerVersion
  PROVE  Spec => PromotesConnectedOnly
<1>1. ASSUME IInv, LinkInv, [Next]_vars, Promoted
      PROVE  current' = driver.link
  <2>0. Candidates /\ Attempt /\ Links /\ Unprovisioned
    BY <1>1 DEF LinkInv
  <2>1. CASE StorePromotion
    <3>1. /\ candidate # None /\ Slots!IdOf(candidate) = Slots!IdOf(trying)
          /\ current' = candidate.cred /\ pc = "store" /\ slot = "CANDIDATE"
      BY <1>1, <2>1 DEF StorePromotion, Slots!Promote, Promoted
    <3>2. candidate \in Backend /\ candidate.ver = mqtt.sent /\ trying \in Backend
      BY <2>0, <3>1 DEF Candidates
    <3>3. candidate.req = trying.req /\ candidate.ver = trying.ver
      BY <3>1 DEF Slots!IdOf
    <3>4. candidate = trying
      BY <3>2, <3>3 DEF OneConfigurationPerVersion
    <3>5. ~Outdated
      BY <3>2, <3>3, BackendTypes DEF Outdated
    <3> QED BY <2>0, <3>1, <3>4, <3>5 DEF Links
  <2>2. CASE Boots
    <3>1. Boot(current, candidate) /\ current # None
      BY <1>1, <2>0, <2>2, BootState DEF Unprovisioned, Promoted
    <3> QED BY <1>1, <3>1 DEF Boot, Promoted
  <2>3. StorePromotion \/ Boots
    <3>1. pc # pc' /\ slot # slot'
      BY <1>1 DEF Promoted
    <3>2. ~(Environment \/ EventTask \/ Elsewhere)
      BY <3>1, TasksKeepMain
    <3>3. ~(Configure \/ Arm \/ Disconnect \/ Disarm \/ Connect \/ Connecting \/ Retain)
      BY <1>1 DEF Promoted, Configure, Arm, Disconnect, Disarm, Connect, Connecting, Retain
    <3>4. Thinks => StorePromotion
      BY <3>1 DEF Thinks, NextPass, CheckStatus, CheckMqtt, PromotionRefused, LoadCandidate,
         ReadGeneration, ClearFails, ClearCurrent
    <3> QED BY <1>1, <3>2, <3>3, <3>4, Steps
  <2> QED BY <2>1, <2>2, <2>3
<1>2. ASSUME IInv, LinkInv, [Next]_vars
      PROVE  [Promoted => current' = driver.link]_vars
  BY <1>1, <1>2
<1> QED BY <1>2, Invariance, LinkInvariance, PTL DEF Spec, PromotesConnectedOnly

-----------------------------------------------------------------------------
(* Credentials are cleared only when they were refused.                       *)
(*                                                                            *)
(* The counter that main acts on is shared by every link there ever was.      *)
(* While main tries no candidate, nothing makes the driver connect but the    *)
(* handler of the last event that waits, so that every event is of the link   *)
(* there is; and a candidate is promoted only after its own address reset     *)
(* what earlier links had counted.                                            *)

Resting == Idle /\ events = <<>>

\* Main tries no candidate, or is about to end the attempt with a promotion.
Calm == slot = "CURRENT" \/ pc \in {"promote", "verify", "store"}

\* In calm, the events are of the link there is, and a failure is the last of them.
CalmQueue == Calm => \A i \in DOMAIN events :
                        /\ events[i].cred = driver.link
                        /\ Down(events[i]) => i = Len(events) /\ Idle

Quiet ==
  /\ Calm /\ GivenUp /\ pc # "connecting" => Resting
  /\ slot = "CURRENT" /\ pc \in Holding \cup {"load", "clear"} => Resting
  /\ slot = "CURRENT" /\ driver.link # driver.config =>
       /\ Resting
       /\ \/ pc \in Given \cup {"retain"}
          \/ pc \in {"loop", "promote"} /\ status = "PROVISIONING"

\* An address follows the connection it is for, which started the count again.
Addresses ==
  /\ \A i \in DOMAIN events : events[i].kind = "got_ip" /\ i > 1 => events[i - 1].kind = "connected"
  /\ events # <<>> /\ events[1].kind = "got_ip" => credentialFailures = 0
  /\ events = <<>> /\ driver.state = "connected" => credentialFailures = 0

\* The failures counted are refusals of the link there is.
Owned == credentialFailures > 0 =>
           refusals.cred = driver.link /\ refusals.count >= credentialFailures

Counts ==
  /\ slot = "CURRENT" => Owned
  /\ pc \in {"verify", "store"} /\ ~Outdated => Owned
  /\ slot = "CURRENT" /\ pc \in {"disconnect", "disarm", "disarmOnError", "connect"} =>
       credentialFailures = 0
  /\ status = "GOT_IP" => credentialFailures = 0
  /\ status = "RECOVERY_REQUIRED" /\ pc \notin Busy => credentialFailures >= FailureLimit
  /\ pc \in {"load", "clear"} /\ cause = "recovery" => credentialFailures >= FailureLimit

RefusalInv == CalmQueue /\ Quiet /\ Addresses /\ Counts

\* In calm, what a handler finds at the head.
LEMMA CalmHead ==
  ASSUME DriverOK, CalmQueue, Calm, EventTask
  PROVE  /\ events[1].cred = driver.link /\ Head(events) = events[1]
         /\ Down(events[1]) => Idle /\ events' = <<>>
         /\ ~Down(events[1]) => driver' = driver
<1>1. Handles({"connected", "got_ip", "credential", "other"})
  BY HandlersContinue
<1>2. Len(events) \in Nat \ {0} /\ Len(events') = Len(events) - 1 /\ Head(events) = events[1]
  BY <1>1, QueueMoves
<1>3. events \in Seq(Event) /\ events' \in Seq(Event)
  BY <1>1, HandledOK DEF DriverOK
<1>4. 1 \in DOMAIN events
  BY <1>2, <1>3, LenProperties
<1>5. Down(events[1]) => Len(events) = 1 /\ Idle
  BY <1>4 DEF CalmQueue
<1>6. Down(events[1]) => events' = <<>>
  BY <1>2, <1>3, <1>5, EmptySeq
<1>7. ~Down(events[1]) => driver' = driver
  BY <1>2 DEF Down, EventTask, HandleConnected, HandleGotIp, HandleReconfigured,
     HandleDisconnected, Handles
<1> QED BY <1>2, <1>4, <1>5, <1>6, <1>7 DEF CalmQueue

\* In calm, a driver that rests keeps resting while main only thinks.
LEMMA RestingKept ==
  ASSUME DriverOK, Resting, [Next]_vars
  PROVE  \/ UNCHANGED <<driver, events, gatewayVars, history>> /\ (Thinks \/ Elsewhere)
         \/ Boots \/ Connecting \/ Retain
         \/ Connect /\ events' = <<>> /\ ((driver' = driver /\ pc' = "retain") \/ pc' = "connecting")
         \/ Configure /\ Resting' /\ driver'.link = driver.link /\ pc' \in {"arm", "retain"}
         \/ (Arm \/ Disconnect \/ Disarm) /\ UNCHANGED <<driver, events>>
<1>1. ~Environment
  BY EnvironmentPosts DEF Posts, Resting, Idle
<1>2. ~EventTask
  BY HandlersContinue DEF Handles, Resting
<1>3. CASE Disconnect
  BY <1>3, DisconnectPosts DEF Posts, Resting, Idle
<1>4. CASE Configure
  <2> DEFINE c == loaded.candidate.cred
  <2>1. /\ driver' = [driver EXCEPT !.config = c] \/ driver' = driver
        /\ events' = events /\ pc' \in {"arm", "retain"}
    BY <1>4 DEF Configure
  <2> HIDE DEF c
  <2>2. driver'.state = driver.state /\ driver'.link = driver.link
    BY <2>1 DEF DriverOK
  <2> QED BY <1>4, <2>1, <2>2 DEF Resting, Idle
<1>5. CASE Arm \/ Disarm
  BY <1>5 DEF Arm, Disarm
<1>6. CASE Connect
  BY <1>6 DEF Connect, Resting
<1> QED BY <1>1, <1>2, <1>3, <1>4, <1>5, <1>6, Steps, ThinkingKeeps

\* Calm comes with an empty queue, or with what main promotes.
LEMMA CalmMoves ==
  ASSUME IInv, Attempt, [Next]_vars, Calm'
  PROVE  Calm \/ events' = <<>>
<1>1. CASE Environment \/ EventTask \/ Elsewhere
  BY <1>1, TasksKeepMain DEF Calm
<1>2. CASE Thinks
  <2>1. CASE NextPass
    BY <2>1 DEF NextPass
  <2>2. CASE CheckStatus \/ CheckMqtt \/ StorePromotion \/ PromotionRefused
    BY <2>2 DEF CheckStatus, CheckMqtt, StorePromotion, PromotionRefused, Calm
  <2>3. CASE LoadCandidate \/ ReadGeneration \/ ClearFails \/ ClearCurrent
    BY <2>3 DEF LoadCandidate, ReadGeneration, ClearFails, ClearCurrent, Calm
  <2> QED BY <1>2, <2>1, <2>2, <2>3 DEF Thinks
<1>3. CASE Boots
  BY <1>3, BootState DEF Boot
<1>4. CASE Configure \/ Arm \/ Disconnect \/ Disarm \/ Connect \/ Retain
  BY <1>4 DEF Configure, Arm, Disconnect, Disarm, Connect, Retain, Calm
<1>5. CASE Connecting
  BY <1>5 DEF Connecting, Calm
<1> QED BY <1>1, <1>2, <1>3, <1>4, <1>5, Steps

LEMMA CalmQueueKept ==
  ASSUME IInv, Attempt, CalmQueue, Quiet, [Next]_vars
  PROVE  CalmQueue'
<1>0. DriverOK /\ events \in Seq(Event) /\ Len(events) \in Nat
  BY LenProperties DEF IInv, DriverOK
<1>1. SUFFICES ASSUME Calm', events' # <<>> PROVE CalmQueue'
  BY EmptySeq DEF CalmQueue
<1>2. Calm
  BY <1>1, CalmMoves
<1>3. CASE UNCHANGED events /\ driver'.link = driver.link /\ driver'.state = driver.state
  BY <1>2, <1>3 DEF CalmQueue, Idle
<1>4. CASE Environment
  <2>1. PICK k \in {"connected", "got_ip", "credential", "other"} : Posts(k)
    BY <1>0, <1>4, EnvironmentPosts
  <2>2. /\ events' = Posted(k) /\ Posted(k) \in Seq(Event)
        /\ Len(events') = Len(events) + 1
        /\ \A i \in 1..Len(events) : events'[i] = events[i]
        /\ ~Idle /\ driver'.link = driver.link
        /\ k \in {"credential", "other"} => Idle'
    BY <1>0, <2>1, PostedOK DEF Posts, Idle
  <2>3. events'[Len(events) + 1] = [kind |-> k, cred |-> driver.link]
    <3> DEFINE e == [kind |-> k, cred |-> driver.link]
    <3>1. e \in Event /\ events' = Append(events, e)
      BY <1>0, <2>1 DEF Posts, Posted, DriverOK, Event
    <3> HIDE DEF e
    <3>2. events'[Len(events) + 1] = e
      BY <1>0, <3>1, AppendProperties
    <3> QED BY <3>2 DEF e
  <2>4. ASSUME NEW i \in DOMAIN events'
        PROVE  events'[i].cred = driver'.link /\ (Down(events'[i]) => i = Len(events') /\ Idle')
    <3>1. i \in 1..(Len(events) + 1)
      BY <2>2, <2>4, LenProperties
    <3>2. CASE i = Len(events) + 1
      BY <2>2, <2>3, <3>2 DEF Down
    <3>3. CASE i \in 1..Len(events)
      <4>1. i \in DOMAIN events
        BY <1>0, <3>3, LenProperties
      <4> QED BY <1>2, <2>2, <3>3, <4>1 DEF CalmQueue
    <3> QED BY <1>0, <3>1, <3>2, <3>3
  <2> QED BY <2>4 DEF CalmQueue
<1>5. CASE EventTask
  <2>1. Handles({"connected", "got_ip", "credential", "other"})
    BY <1>5, HandlersContinue
  <2>2. driver' = driver
    BY <1>0, <1>1, <1>2, <1>5, CalmHead
  <2>3. /\ events' \in Seq(Event) /\ Len(events') = Len(events) - 1
        /\ \A j \in 1..(Len(events) - 1) : events'[j] = events[j + 1]
    BY <1>0, <2>1, HandledOK, QueueMoves
  <2>4. ASSUME NEW i \in DOMAIN events'
        PROVE  events'[i].cred = driver'.link /\ (Down(events'[i]) => i = Len(events') /\ Idle')
    <3>1. i \in 1..(Len(events) - 1) /\ i + 1 \in DOMAIN events
      BY <1>0, <2>3, <2>4, LenProperties
    <3> QED BY <1>0, <1>2, <2>2, <2>3, <3>1 DEF CalmQueue, Idle
  <2> QED BY <2>4 DEF CalmQueue
<1>6. CASE Thinks \/ Elsewhere
  BY <1>3, <1>6, ThinkingKeeps
<1>7. CASE Boots
  BY <1>1, <1>7, BootState DEF Boot
<1>8. CASE Configure \/ Arm \/ Disconnect \/ Disarm \/ Connect
  <2>1. pc \in Holding /\ slot = "CURRENT"
    BY <1>2, <1>8 DEF Configure, Arm, Disconnect, Disarm, Connect, Holding, Calm
  <2>2. events = <<>> /\ Resting
    BY <2>1 DEF Quiet, Resting
  <2>3. Disconnect => events' = events
    BY <1>0, <2>2, DisconnectPosts DEF Posts, Resting, Idle
  <2>4. events' = <<>>
    BY <1>8, <2>2, <2>3 DEF Configure, Arm, Disarm, Connect
  <2> QED BY <1>1, <2>4
<1>9. CASE Connecting \/ Retain
  BY <1>3, <1>9 DEF Connecting, Retain
<1> QED BY <1>4, <1>5, <1>6, <1>7, <1>8, <1>9, Steps

\* A driver that has another link than the configured one, while main tries no
\* candidate, is left alone.
Stuck == slot = "CURRENT" /\ driver.link # driver.config

LEMMA GivenUpRests ==
  ASSUME IInv, Attempt, CalmQueue, Quiet, [Next]_vars, Calm', GivenUp', pc' # "connecting"
  PROVE  Resting'
<1>0. DriverOK
  BY DEF IInv
<1>1. Calm /\ GivenUp /\ pc # "connecting" => Resting
  BY DEF Quiet
<1>2. CASE Environment
  <2>1. UNCHANGED <<pc, slot, status>> /\ ~Idle
    BY <1>0, <1>2, EnvironmentPosts DEF Posts, Idle, mainVars, gatewayVars
  <2> QED BY <1>1, <2>1 DEF Calm, GivenUp, Resting
<1>3. CASE EventTask
  <2>1. UNCHANGED <<pc, slot>> /\ Calm
    BY <1>3, TasksKeepMain DEF Calm
  <2>2. HandleDisconnected /\ driver' = driver
    BY <1>3 DEF EventTask, HandleConnected, HandleGotIp, HandleReconfigured, HandleDisconnected,
       Reconnect, GivenUp
  <2>3. Down(Head(events))
    BY <2>2 DEF HandleDisconnected, Handles, Down
  <2> QED BY <1>0, <1>3, <2>1, <2>2, <2>3, CalmHead DEF Resting, Idle
<1>4. CASE Thinks
  <2>1. UNCHANGED <<driver, events, status>>
    BY <1>4, ThinkingKeeps DEF gatewayVars
  <2>2. ~NextPass \/ pc' # "promote"
    BY <2>1 DEF NextPass, GivenUp
  <2>3. Calm /\ pc # "connecting"
    <3>1. CASE NextPass
      BY <2>2, <3>1 DEF NextPass, Calm
    <3>2. CASE CheckStatus \/ CheckMqtt \/ StorePromotion \/ PromotionRefused
      BY <3>2 DEF CheckStatus, CheckMqtt, StorePromotion, PromotionRefused, Calm
    <3>3. CASE LoadCandidate \/ ReadGeneration \/ ClearFails \/ ClearCurrent
      BY <3>3 DEF LoadCandidate, ReadGeneration, ClearFails, ClearCurrent, Calm
    <3> QED BY <1>4, <3>1, <3>2, <3>3 DEF Thinks
  <2> QED BY <1>1, <2>1, <2>3 DEF GivenUp, Resting, Idle
<1>5. CASE Elsewhere
  <2>1. UNCHANGED <<driver, events, status, pc, slot>>
    BY <1>5, ThinkingKeeps, TasksKeepMain DEF gatewayVars
  <2> QED BY <1>1, <2>1 DEF Calm, GivenUp, Resting, Idle
<1>6. CASE Boots
  BY <1>6, BootState DEF Boot, GivenUp
<1>7. CASE Configure \/ Arm \/ Disconnect \/ Disarm \/ Connect
  <2>1. pc \in Holding /\ slot = "CURRENT" /\ pc' \notin {"promote", "verify", "store"}
    BY <1>7 DEF Configure, Arm, Disconnect, Disarm, Connect, Holding, Calm
  <2>2. Resting
    BY <2>1 DEF Quiet
  <2>3. CASE Configure
    <3>1. /\ events' = events
          /\ driver' = [driver EXCEPT !.config = loaded.candidate.cred] \/ driver' = driver
      BY <2>3 DEF Configure
    <3> QED BY <1>0, <2>2, <3>1 DEF Resting, Idle, DriverOK
  <2>4. CASE Arm \/ Disarm
    BY <2>2, <2>4 DEF Arm, Disarm, Resting, Idle
  <2>5. CASE Disconnect
    BY <1>0, <2>2, <2>5, DisconnectPosts DEF Posts, Resting, Idle
  <2>6. CASE Connect
    BY <2>2, <2>6 DEF Connect, Resting, Idle
  <2> QED BY <1>7, <2>3, <2>4, <2>5, <2>6
<1>8. CASE Connecting \/ Retain
  BY <1>8 DEF Connecting, Retain, GivenUp
<1> QED BY <1>2, <1>3, <1>4, <1>5, <1>6, <1>7, <1>8, Steps

LEMMA AttemptRests ==
  ASSUME IInv, Attempt, Quiet, [Next]_vars, slot' = "CURRENT", pc' \in Holding \cup {"load", "clear"}
  PROVE  Resting'
<1>0. DriverOK
  BY DEF IInv
<1>1. CASE Environment \/ EventTask \/ Elsewhere
  <2>1. UNCHANGED <<pc, slot>>
    BY <1>1, TasksKeepMain
  <2>2. Resting
    BY <2>1 DEF Quiet
  <2>3. Elsewhere
    BY <1>0, <1>1, <2>2, EnvironmentPosts, HandlersContinue DEF Posts, Handles, Resting, Idle
  <2> QED BY <2>2, <2>3, ThinkingKeeps DEF Resting, Idle
<1>2. CASE Thinks
  <2>1. UNCHANGED <<driver, events>>
    BY <1>2, ThinkingKeeps
  <2>2. Resting
    <3>1. CASE NextPass
      <4>1. /\ pc = "loop" /\ slot = "CURRENT" /\ GivenUp
        BY <3>1 DEF NextPass, GivenUp, Holding
      <4> QED BY <4>1 DEF Quiet, Calm
    <3>2. CASE LoadCandidate \/ ReadGeneration
      BY <3>2 DEF LoadCandidate, ReadGeneration, Quiet, Holding
    <3>3. CASE PromotionRefused
      BY <3>3 DEF PromotionRefused, Attempt, Holding
    <3>4. CASE CheckStatus \/ CheckMqtt \/ StorePromotion \/ ClearFails \/ ClearCurrent
      BY <3>4 DEF CheckStatus, CheckMqtt, StorePromotion, ClearFails, ClearCurrent, Holding
    <3> QED BY <1>2, <3>1, <3>2, <3>3, <3>4 DEF Thinks
  <2> QED BY <2>1, <2>2 DEF Resting, Idle
<1>3. CASE Boots
  BY <1>3, BootState DEF Boot, Holding
<1>4. CASE Configure \/ Arm \/ Disconnect \/ Disarm
  <2>1. pc \in Holding /\ slot = "CURRENT"
    BY <1>4 DEF Configure, Arm, Disconnect, Disarm, Holding
  <2>2. Resting
    BY <2>1 DEF Quiet
  <2>3. CASE Configure
    <3>1. /\ events' = events
          /\ driver' = [driver EXCEPT !.config = loaded.candidate.cred] \/ driver' = driver
      BY <2>3 DEF Configure
    <3> QED BY <1>0, <2>2, <3>1 DEF Resting, Idle, DriverOK
  <2>4. CASE Arm \/ Disarm
    BY <2>2, <2>4 DEF Arm, Disarm, Resting, Idle
  <2>5. CASE Disconnect
    BY <1>0, <2>2, <2>5, DisconnectPosts DEF Posts, Resting, Idle
  <2> QED BY <1>4, <2>3, <2>4, <2>5
<1>5. CASE Connect \/ Connecting \/ Retain
  BY <1>5 DEF Connect, Connecting, Retain, Holding
<1> QED BY <1>1, <1>2, <1>3, <1>4, <1>5, Steps

LEMMA StuckRests ==
  ASSUME IInv, Candidates, Attempt, Links, Quiet, OneConfigurationPerVersion, [Next]_vars, Stuck'
  PROVE  /\ Resting'
         /\ \/ pc' \in Given \cup {"retain"}
            \/ pc' \in {"loop", "promote"} /\ status' = "PROVISIONING"
<1>0. DriverOK
  BY DEF IInv
<1>1. Stuck => /\ Resting
               /\ \/ pc \in Given \cup {"retain"}
                  \/ pc \in {"loop", "promote"} /\ status = "PROVISIONING"
  BY DEF Stuck, Quiet
<1>2. CASE Environment \/ EventTask \/ Elsewhere
  <2>1. UNCHANGED <<pc, slot>>
    BY <1>2, TasksKeepMain
  <2>2. Stuck
    <3>1. CASE Environment
      BY <1>0, <2>1, <3>1, EnvironmentPosts DEF Posts, Stuck
    <3>2. CASE EventTask
      BY <1>0, <2>1, <3>2, HandlersContinue, ContinuesLink DEF Stuck
    <3>3. CASE Elsewhere
      BY <2>1, <3>3, ThinkingKeeps DEF Stuck
    <3> QED BY <1>2, <3>1, <3>2, <3>3
  <2>3. Elsewhere
    BY <1>0, <1>1, <1>2, <2>2, EnvironmentPosts, HandlersContinue DEF Posts, Handles, Resting, Idle
  <2> QED BY <1>1, <2>1, <2>2, <2>3, ThinkingKeeps DEF Resting, Idle, gatewayVars
<1>3. CASE StorePromotion
  <2>1. /\ candidate # None /\ Slots!IdOf(candidate) = Slots!IdOf(trying)
        /\ pc = "store" /\ slot = "CANDIDATE" /\ driver' = driver
    BY <1>3 DEF StorePromotion, Attempt
  <2>2. candidate \in Backend /\ candidate.ver = mqtt.sent /\ candidate.ver = trying.ver
    BY <2>1 DEF Candidates, Slots!IdOf
  <2>3. ~Outdated
    BY <2>2, BackendTypes DEF Outdated
  <2> QED BY <2>1, <2>3 DEF Links, Stuck
<1>4. CASE Thinks /\ ~StorePromotion
  <2>1. UNCHANGED <<driver, events, status>>
    BY <1>4, ThinkingKeeps DEF gatewayVars
  <2>2. slot' = slot
    BY <1>4 DEF Thinks, NextPass, CheckStatus, CheckMqtt, PromotionRefused, LoadCandidate,
       ReadGeneration, ClearFails, ClearCurrent
  <2>3. Stuck
    BY <2>1, <2>2 DEF Stuck
  <2>4. NextPass \/ CheckStatus
    BY <1>1, <1>4, <2>3 DEF Thinks, CheckMqtt, PromotionRefused, LoadCandidate,
       ReadGeneration, ClearFails, ClearCurrent, Given
  <2>5. status = "PROVISIONING" /\ pc' \in {"loop", "promote"}
    <3>1. pc \in {"loop", "promote"}
      BY <2>4 DEF NextPass, CheckStatus
    <3>2. status = "PROVISIONING"
      BY <1>1, <2>3, <3>1 DEF Given
    <3> QED BY <2>4, <3>2 DEF NextPass, CheckStatus
  <2> QED BY <1>1, <2>1, <2>3, <2>5 DEF Resting, Idle
<1>5. CASE Boots
  BY <1>5, BootState DEF Boot, Stuck
<1>6. CASE Configure \/ Arm \/ Disconnect \/ Disarm
  <2>1. pc \in Holding /\ slot = "CURRENT" /\ pc' \in Given \cup {"connecting", "retain"}
    BY <1>6 DEF Configure, Arm, Disconnect, Disarm, Holding, Given, Stuck
  <2>2. Resting
    BY <2>1 DEF Quiet
  <2>3. CASE Configure
    <3>1. /\ events' = events /\ pc' \in {"arm", "retain"}
          /\ driver' = [driver EXCEPT !.config = loaded.candidate.cred] \/ driver' = driver
      BY <2>3 DEF Configure
    <3> QED BY <1>0, <2>2, <3>1 DEF Resting, Idle, DriverOK, Given
  <2>4. CASE Arm \/ Disarm
    BY <2>2, <2>4 DEF Arm, Disarm, Resting, Idle, Given
  <2>5. CASE Disconnect
    BY <1>0, <2>2, <2>5, DisconnectPosts DEF Posts, Resting, Idle, Given
  <2> QED BY <1>6, <2>3, <2>4, <2>5
<1>7. CASE Connect
  <2>1. pc = "connect" /\ slot = "CURRENT" /\ events' = events
    BY <1>7 DEF Connect, Stuck
  <2>2. Resting
    BY <2>1 DEF Quiet, Holding
  <2>3. \/ driver' = driver /\ pc' = "retain"
        \/ driver' = Connected(driver)
    BY <1>7 DEF Connect
  <2>4. driver' # Connected(driver) \/ driver'.link = driver'.config
    <3> DEFINE c == driver.config
    <3>1. Connected(driver) = [driver EXCEPT !.state = "connecting", !.link = c]
      BY <2>2 DEF Connected, Resting, Idle
    <3> HIDE DEF c
    <3>2. Connected(driver).link = c /\ Connected(driver).config = driver.config
      BY <1>0, <3>1 DEF DriverOK
    <3> QED BY <3>2 DEF c
  <2> QED BY <2>1, <2>2, <2>3, <2>4 DEF Stuck, Resting, Idle
<1>8. CASE Connecting
  <2>1. pc = "connecting" /\ UNCHANGED <<driver, slot>>
    BY <1>8 DEF Connecting, Stuck
  <2>2. Stuck
    BY <2>1 DEF Stuck
  <2> QED BY <1>1, <2>1, <2>2 DEF Given
<1>9. CASE Retain
  <2>1. /\ UNCHANGED <<driver, slot, events>> /\ pc = "retain" /\ pc' = "loop"
        /\ status' = "PROVISIONING"
    BY <1>9 DEF Retain
  <2>2. Stuck
    BY <2>1 DEF Stuck
  <2> QED BY <1>1, <2>1, <2>2 DEF Resting, Idle
<1> QED BY <1>2, <1>3, <1>4, <1>5, <1>6, <1>7, <1>8, <1>9, Steps

LEMMA QuietKept ==
  ASSUME IInv, Candidates, Attempt, Links, CalmQueue, Quiet, OneConfigurationPerVersion, [Next]_vars
  PROVE  Quiet'
BY GivenUpRests, AttemptRests, StuckRests DEF Quiet, Stuck

\* What a step does to the count of credential failures.
LEMMA CountMoves ==
  ASSUME IInv, [Next]_vars
  PROVE  \/ UNCHANGED <<credentialFailures, refusals>>
         \/ credentialFailures' = 0
         \/ HandleDisconnected
<1>1. CASE Environment
  BY <1>1, EnvironmentPosts DEF IInv, gatewayVars, history
<1>2. CASE Thinks \/ Elsewhere
  BY <1>2, ThinkingKeeps DEF gatewayVars, history
<1>3. CASE EventTask
  BY <1>3 DEF EventTask, HandleConnected, HandleGotIp, HandleReconfigured
<1>4. CASE Boots
  BY <1>4, BootState DEF Boot
<1>5. CASE Configure \/ Arm \/ Disconnect \/ Disarm \/ Connect \/ Connecting \/ Retain
  BY <1>5 DEF Configure, Arm, Disconnect, Disarm, Connect, Connecting, Retain, gatewayVars, history
<1> QED BY <1>1, <1>2, <1>3, <1>4, <1>5, Steps

LEMMA AddressesPosted ==
  ASSUME IInv, LastEvent, Addresses, UNCHANGED credentialFailures,
         NEW k \in {"connected", "got_ip", "credential", "other"}, Posts(k)
  PROVE  Addresses'
<1>0. DriverOK /\ events \in Seq(Event) /\ Len(events) \in Nat
  BY LenProperties DEF IInv, DriverOK
<1>1. /\ events' \in Seq(Event) /\ events' # <<>> /\ Len(events') = Len(events) + 1
      /\ \A i \in 1..Len(events) : events'[i] = events[i]
      /\ events'[Len(events) + 1].kind = k
  BY <1>0, PostedOK DEF Posts
<1>2. events # <<>> => Len(events) >= 1
  BY <1>0, EmptySeq
<1>3. CASE k = "got_ip" /\ events # <<>>
  <2>1. driver.state = "connected" /\ events[Len(events)] \in Event
    BY <1>0, <1>2, <1>3, ElementOfSeq DEF Posts
  <2>2. events[Len(events)].kind = "connected"
    BY <1>3, <2>1 DEF LastEvent, Event
  <2>3. ASSUME NEW i \in DOMAIN events', events'[i].kind = "got_ip", i > 1
        PROVE  events'[i - 1].kind = "connected"
    <3>1. i \in 1..(Len(events) + 1) /\ i - 1 \in 1..Len(events)
      BY <1>0, <1>1, <2>3, LenProperties
    <3>2. CASE i = Len(events) + 1
      BY <1>0, <1>1, <2>2, <3>1, <3>2
    <3>3. CASE i \in 1..Len(events)
      <4>1. i \in DOMAIN events
        BY <1>0, <3>3, LenProperties
      <4> QED BY <1>1, <2>3, <3>1, <3>3, <4>1 DEF Addresses
    <3> QED BY <1>0, <3>1, <3>2, <3>3
  <2>4. events'[1] = events[1]
    BY <1>0, <1>1, <1>2, <1>3
  <2> QED BY <1>1, <1>3, <2>3, <2>4 DEF Addresses
<1>4. CASE k = "got_ip" /\ events = <<>>
  <2>1. driver.state = "connected" /\ Len(events) = 0
    BY <1>4 DEF Posts
  <2>2. credentialFailures = 0
    BY <1>4, <2>1 DEF Addresses
  <2>3. \A i \in DOMAIN events' : ~(i > 1)
    BY <1>1, <2>1, LenProperties
  <2> QED BY <1>1, <2>2, <2>3 DEF Addresses
<1>5. CASE k # "got_ip"
  <2>1. ASSUME NEW i \in DOMAIN events', events'[i].kind = "got_ip"
        PROVE  i \in 1..Len(events) /\ i \in DOMAIN events /\ events[i].kind = "got_ip"
    <3>1. i \in 1..(Len(events) + 1)
      BY <1>0, <1>1, <2>1, LenProperties
    <3>2. i # Len(events) + 1
      BY <1>1, <1>5, <2>1
    <3>3. i \in 1..Len(events)
      BY <1>0, <3>1, <3>2
    <3> QED BY <1>0, <1>1, <2>1, <3>3, LenProperties
  <2>2. ASSUME NEW i \in DOMAIN events', events'[i].kind = "got_ip", i > 1
        PROVE  events'[i - 1].kind = "connected"
    <3>1. i \in 1..Len(events) /\ i \in DOMAIN events /\ events[i].kind = "got_ip"
      BY <2>1, <2>2
    <3>2. i - 1 \in 1..Len(events)
      BY <1>0, <2>2, <3>1
    <3> QED BY <1>1, <2>2, <3>1, <3>2 DEF Addresses
  <2>3. events'[1].kind = "got_ip" => credentialFailures = 0
    <3>1. 1 \in DOMAIN events'
      BY <1>0, <1>1, LenProperties
    <3>2. events'[1].kind = "got_ip" => events # <<>> /\ events[1].kind = "got_ip"
      BY <1>0, <2>1, <3>1
    <3> QED BY <3>2 DEF Addresses
  <2> QED BY <1>1, <2>2, <2>3 DEF Addresses
<1> QED BY <1>3, <1>4, <1>5

LEMMA AddressesHandled ==
  ASSUME IInv, LastEvent, Addresses, EventTask
  PROVE  Addresses' /\ (Head(events).kind = "got_ip" => credentialFailures = 0)
<1>0. DriverOK /\ events \in Seq(Event)
  BY DEF IInv, DriverOK
<1>1. Handles({"connected", "got_ip", "credential", "other"}) /\ Continues
  BY HandlersContinue
<1>2. /\ Len(events) \in Nat \ {0} /\ Len(events') = Len(events) - 1
      /\ \A j \in 1..(Len(events) - 1) : events'[j] = events[j + 1]
      /\ Head(events) = events[1] /\ events \in Seq(Event) /\ events' \in Seq(Event)
      /\ events # <<>> /\ (events' = <<>> => Len(events) = 1)
  BY <1>0, <1>1, QueueMoves, HandledOK
<1>3. Head(events).kind = "got_ip" => credentialFailures = 0
  BY <1>2 DEF Addresses
<1>4. ASSUME NEW i \in DOMAIN events', events'[i].kind = "got_ip"
      PROVE  events[i].kind = "connected" /\ (i > 1 => events'[i - 1].kind = "connected")
  <2>1. i \in 1..(Len(events) - 1) /\ i + 1 \in DOMAIN events /\ events'[i] = events[i + 1]
        /\ i + 1 > 1 /\ (i + 1) - 1 = i
    BY <1>2, <1>4, LenProperties
  <2>2. events[i].kind = "connected"
    BY <1>4, <2>1 DEF Addresses
  <2>3. i > 1 => events'[i - 1] = events[i]
    BY <1>2, <2>1
  <2> QED BY <2>2, <2>3
<1>5. events' # <<>> /\ events'[1].kind = "got_ip" => credentialFailures' = 0
  <2>1. events' # <<>> => 1 \in DOMAIN events'
    BY <1>2, EmptySeq, LenProperties
  <2>2. events' # <<>> /\ events'[1].kind = "got_ip" => Head(events).kind = "connected"
    BY <1>2, <1>4, <2>1
  <2>3. Head(events).kind = "connected" => credentialFailures' = 0
    BY DEF EventTask, HandleConnected, HandleGotIp, HandleReconfigured, HandleDisconnected, Handles
  <2> QED BY <2>2, <2>3
<1>6. events' = <<>> /\ driver'.state = "connected" => credentialFailures' = 0
  <2>1. SUFFICES ASSUME events' = <<>>, driver'.state = "connected" PROVE credentialFailures' = 0
    OBVIOUS
  <2>2. driver.state = "connected"
    BY <1>0, <1>1, <2>1 DEF Continues, Connected, DriverOK
  <2>3. events[1] \in Event /\ Len(events) = 1
    BY <1>2, <2>1, ElementOfSeq
  <2>4. Head(events).kind = "connected"
    BY <1>2, <2>2, <2>3 DEF LastEvent, Event
  <2> QED BY <2>4 DEF EventTask, HandleConnected, HandleGotIp, HandleReconfigured,
            HandleDisconnected, Handles
<1> QED BY <1>3, <1>4, <1>5, <1>6 DEF Addresses

LEMMA AddressesKept ==
  ASSUME IInv, LastEvent, Addresses, [Next]_vars
  PROVE  Addresses'
<1>0. DriverOK
  BY DEF IInv
<1>1. CASE Environment
  BY <1>0, <1>1, EnvironmentPosts, AddressesPosted DEF gatewayVars
<1>2. CASE EventTask
  BY <1>2, AddressesHandled
<1>3. CASE UNCHANGED <<events, credentialFailures>> /\ (Continues \/ driver'.state = driver.state)
  <2>1. driver'.state = "connected" => driver.state = "connected"
    BY <1>0, <1>3 DEF Continues, Connected, DriverOK
  <2> QED BY <1>3, <2>1 DEF Addresses
<1>4. CASE Thinks \/ Elsewhere
  BY <1>3, <1>4, ThinkingKeeps DEF gatewayVars
<1>5. CASE Boots
  BY <1>5, BootState DEF Boot, Addresses
<1>6. CASE Arm
  BY <1>6 DEF Arm, Addresses
<1>7. CASE Disconnect
  BY <1>0, <1>3, <1>7, DisconnectPosts, AddressesPosted DEF gatewayVars
<1>8. CASE Configure \/ Disarm \/ Connect \/ Connecting \/ Retain
  <2>1. UNCHANGED <<events, credentialFailures>> /\ (Continues \/ driver'.state = driver.state)
    BY <1>0, <1>8 DEF Configure, Disarm, Connect, Connecting, Retain, Continues, DriverOK, gatewayVars
  <2> QED BY <1>3, <2>1
<1> QED BY <1>1, <1>2, <1>4, <1>5, <1>6, <1>7, <1>8, Steps

\* A refusal of the link there is is counted in both counts, up to their limit.
LEMMA OwnedHandled ==
  ASSUME IInv, Owned, HandleDisconnected, Head(events).cred = driver.link,
         driver'.link = driver.link
  PROVE  Owned'
<1>0. /\ credentialFailures \in 0..FailureLimit /\ refusals.count \in 0..FailureLimit
      /\ FailureLimit \in Nat \ {0}
  BY UpstreamWifiAssumption DEF IInv, GatewayOK, HistoryOK
<1>1. CASE Head(events).kind = "credential"
  <2> DEFINE c == Head(events).cred
  <2>1. credentialFailures' = Counted(credentialFailures)
    BY <1>1 DEF HandleDisconnected
  <2>2. refusals' = IF refusals.cred # c THEN [cred |-> c, count |-> 1]
                    ELSE [cred |-> c, count |-> IF refusals.count < FailureLimit
                                                THEN refusals.count + 1 ELSE FailureLimit]
    BY <1>1 DEF HandleDisconnected, NoteFailure
  <2>3. c = driver'.link /\ c = driver.link
    OBVIOUS
  <2> HIDE DEF c
  <2>4. refusals'.cred = c
    BY <2>2
  <2>5. refusals'.count = IF refusals.cred # c THEN 1
                          ELSE IF refusals.count < FailureLimit THEN refusals.count + 1
                          ELSE FailureLimit
    BY <2>2
  <2>6. refusals'.count >= credentialFailures'
    BY <1>0, <2>1, <2>3, <2>5 DEF Counted, Owned
  <2> QED BY <2>3, <2>4, <2>6 DEF Owned
<1>2. CASE Head(events).kind # "credential"
  <2>1. credentialFailures' = credentialFailures /\ refusals' = refusals
    BY <1>2 DEF HandleDisconnected, NoteFailure
  <2> QED BY <2>1 DEF Owned
<1> QED BY <1>1, <1>2

LEMMA OwnedKept ==
  ASSUME IInv, Candidates, Attempt, Links, CalmQueue, Quiet, Counts, [Next]_vars,
         slot' = "CURRENT" \/ (pc' \in {"verify", "store"} /\ ~Outdated')
  PROVE  Owned'
<1>0. DriverOK
  BY DEF IInv
<1>1. pc' \in {"verify", "store"} /\ slot' = "CANDIDATE" /\ UNCHANGED <<slot, trying>> =>
        (Outdated => Outdated')
  BY StaysOutdated
<1>2. CASE Environment
  <2>1. /\ UNCHANGED <<pc, slot, trying, credentialFailures, refusals, mqtt>>
        /\ driver'.link = driver.link
    BY <1>0, <1>2, EnvironmentPosts DEF Posts, mainVars, gatewayVars, history
  <2> QED BY <2>1 DEF Counts, Owned, Outdated
<1>3. CASE EventTask
  <2>1. UNCHANGED <<pc, slot, trying, mqtt>> /\ Continues /\ events # <<>>
    BY <1>3, HandlersContinue DEF mainVars, Handles
  <2>2. Owned /\ Calm
    BY <2>1 DEF Counts, Calm, Outdated
  <2>3. driver.link = driver.config
    <3>1. CASE slot = "CURRENT"
      BY <2>1, <3>1 DEF Quiet, Resting
    <3>2. CASE pc \in {"verify", "store"} /\ ~Outdated
      BY <3>2 DEF Attempt, Links
    <3> QED BY <2>1, <3>1, <3>2 DEF Outdated
  <2>4. driver'.link = driver.link
    <3>1. driver'.link = driver'.config \/ driver' = driver
      BY <1>0, <2>1, <2>3, ContinuesLink
    <3>2. driver'.config = driver.config
      BY <1>0, <2>1 DEF Continues, Connected, DriverOK
    <3> QED BY <2>3, <3>1, <3>2
  <2>5. events[1].cred = driver.link /\ Head(events) = events[1]
    BY <1>0, <1>3, <2>2, CalmHead
  <2>6. CASE HandleDisconnected
    BY <2>2, <2>4, <2>5, <2>6, OwnedHandled
  <2>7. CASE ~HandleDisconnected
    BY <2>2, <2>4, <2>7, CountMoves DEF Owned
  <2> QED BY <2>6, <2>7
<1>4. CASE StorePromotion
  <2>1. /\ pc = "store" /\ candidate # None /\ Slots!IdOf(candidate) = Slots!IdOf(trying)
        /\ slot = "CANDIDATE"
    BY <1>4 DEF StorePromotion, Attempt
  <2>2. candidate \in Backend /\ candidate.ver = mqtt.sent /\ candidate.ver = trying.ver
    BY <2>1 DEF Candidates, Slots!IdOf
  <2>3. Owned
    BY <2>1, <2>2, BackendTypes DEF Outdated, Counts
  <2> QED BY <1>4, <2>3, ThinkingKeeps DEF Owned, gatewayVars, history, Thinks
<1>5. CASE Thinks /\ ~StorePromotion
  <2>1. UNCHANGED <<driver, credentialFailures, status, refusals>>
    BY <1>5, ThinkingKeeps DEF gatewayVars, history
  <2>2. /\ UNCHANGED <<slot, trying>>
        /\ pc' \in {"verify", "store"} => /\ mqtt' = mqtt
                                          /\ \/ pc \in {"verify", "store"}
                                             \/ status = "GOT_IP"
    BY <1>5 DEF Thinks, NextPass, CheckStatus, CheckMqtt, PromotionRefused, LoadCandidate,
       ReadGeneration, ClearFails, ClearCurrent
  <2>3. Owned \/ credentialFailures = 0
    BY <2>2 DEF Counts, Outdated
  <2>4. credentialFailures = 0 => Owned
    BY DEF Owned
  <2> QED BY <2>1, <2>3, <2>4 DEF Owned
<1>6. CASE Elsewhere
  <2>1. UNCHANGED <<pc, slot, trying, driver, credentialFailures, refusals>>
    BY <1>6, TasksKeepMain, ThinkingKeeps DEF gatewayVars, history
  <2>2. pc \in {"verify", "store"} /\ ~Outdated' => ~Outdated
    BY <2>1, StaysOutdated DEF Attempt
  <2> QED BY <2>1, <2>2 DEF Counts, Owned
<1>7. CASE Boots
  BY <1>7, BootState DEF Boot, Owned
<1>8. CASE Configure \/ Arm \/ Disconnect \/ Disarm
  <2>1. slot = "CURRENT"
    BY <1>8 DEF Configure, Arm, Disconnect, Disarm
  <2>2. Resting
    BY <1>8, <2>1 DEF Configure, Arm, Disconnect, Disarm, Holding, Quiet
  <2>3. driver'.link = driver.link
    <3>1. CASE Configure
      <4>1. driver' = [driver EXCEPT !.config = loaded.candidate.cred] \/ driver' = driver
        BY <3>1 DEF Configure
      <4> QED BY <1>0, <4>1 DEF DriverOK
    <3>2. CASE Arm \/ Disconnect \/ Disarm
      BY <1>0, <3>2, DisconnectPosts DEF Arm, Disarm, Posts
    <3> QED BY <1>8, <3>1, <3>2
  <2>4. ~HandleDisconnected
    BY <2>2 DEF HandleDisconnected, Handles, Resting
  <2> QED BY <2>1, <2>3, <2>4, CountMoves DEF Counts, Owned
<1>9. CASE Connect
  <2>1. slot = "CURRENT" /\ pc = "connect" /\ credentialFailures' = credentialFailures
    BY <1>9 DEF Connect, gatewayVars
  <2> QED BY <2>1 DEF Counts, Owned
<1>10. CASE Connecting \/ Retain
  <2>1. slot = "CURRENT" /\ UNCHANGED <<driver, credentialFailures, refusals>>
    BY <1>10 DEF Connecting, Retain
  <2> QED BY <2>1 DEF Counts, Owned
<1> QED BY <1>2, <1>3, <1>4, <1>5, <1>6, <1>7, <1>8, <1>9, <1>10, Steps

LEMMA CountsKept ==
  ASSUME IInv, LastEvent, Candidates, Attempt, Links, CalmQueue, Quiet, Addresses, Counts,
         [Next]_vars
  PROVE  Counts'
<1>0. DriverOK
  BY DEF IInv
<1>1. /\ slot' = "CURRENT" => Owned'
      /\ pc' \in {"verify", "store"} /\ ~Outdated' => Owned'
  BY OwnedKept
<1>2. CASE EventTask
  <2>1. UNCHANGED <<pc, cause, slot>> /\ events # <<>>
    BY <1>2, HandlersContinue DEF mainVars, Handles
  <2>2. ~(slot = "CURRENT" /\ pc \in Holding \cup {"load", "clear"})
    BY <2>1 DEF Quiet, Resting
  <2>3. status' = "GOT_IP" => credentialFailures' = 0
    <3>1. status' = "GOT_IP" => HandleGotIp
      BY <1>2 DEF EventTask, HandleConnected, HandleReconfigured, HandleDisconnected, Reconnect
    <3>2. HandleGotIp => Head(events).kind = "got_ip" /\ credentialFailures' = credentialFailures
      BY DEF HandleGotIp, Handles
    <3> QED BY <1>2, <3>1, <3>2, AddressesHandled
  <2>4. status' = "RECOVERY_REQUIRED" => credentialFailures' >= FailureLimit
    BY <1>2 DEF EventTask, HandleConnected, HandleGotIp, HandleReconfigured, HandleDisconnected,
       Reconnect
  <2>5. ~(pc \in {"load", "clear"} /\ cause = "recovery")
    BY <2>2 DEF Attempt
  <2> QED BY <1>1, <2>1, <2>2, <2>3, <2>4, <2>5 DEF Counts, Holding
<1>3. CASE Environment \/ Elsewhere
  <2>1. UNCHANGED <<pc, cause, slot, status, credentialFailures>>
    BY <1>0, <1>3, EnvironmentPosts, TasksKeepMain, ThinkingKeeps DEF gatewayVars
  <2> QED BY <1>1, <2>1 DEF Counts
<1>4. CASE Thinks
  <2>1. UNCHANGED <<status, credentialFailures>>
    BY <1>4, ThinkingKeeps DEF gatewayVars
  <2>2. /\ pc \notin Busy /\ pc' \notin {"disconnect", "disarm", "disarmOnError", "connect"}
        /\ pc' \in {"load", "clear"} /\ cause' = "recovery" =>
             \/ status = "RECOVERY_REQUIRED"
             \/ pc = "load" /\ cause = "recovery"
    BY <1>4 DEF Thinks, NextPass, CheckStatus, CheckMqtt, PromotionRefused, LoadCandidate,
       ReadGeneration, ClearFails, StorePromotion, ClearCurrent, Busy
  <2> QED BY <1>1, <2>1, <2>2 DEF Counts
<1>5. CASE Boots
  <2>1. Boot(current, candidate)
    BY <1>5, BootState
  <2>2. /\ pc' \in {"loop", "connecting"} /\ status' \in {"PROVISIONING", "STARTING"}
    BY <2>1 DEF Boot
  <2> QED BY <1>1, <2>2 DEF Counts
<1>6. CASE Configure
  <2>1. /\ UNCHANGED <<status, credentialFailures>> /\ pc' \in {"arm", "retain"} /\ pc = "configure"
    BY <1>6 DEF Configure, gatewayVars
  <2> QED BY <1>1, <2>1 DEF Counts, Busy
<1>7. CASE Arm
  <2>1. credentialFailures' = 0 /\ pc' = "disconnect"
    BY <1>7 DEF Arm
  <2> QED BY <1>1, <2>1 DEF Counts, Busy
<1>8. CASE Disconnect \/ Disarm \/ Connect
  <2>1. /\ UNCHANGED <<status, credentialFailures, slot>>
        /\ pc \in {"disconnect", "disarm", "disarmOnError", "connect"} /\ pc' \in Busy
    BY <1>8 DEF Disconnect, Disarm, Connect, gatewayVars, Busy
  <2>2. pc' \notin {"load", "clear"}
    BY <2>1 DEF Busy
  <2> QED BY <1>1, <2>1, <2>2 DEF Counts
<1>9. CASE Connecting \/ Retain
  <2>1. pc' = "loop" /\ status' \in {"CONNECTING", "PROVISIONING"}
    BY <1>9 DEF Connecting, Retain
  <2> QED BY <1>1, <2>1 DEF Counts
<1> QED BY <1>2, <1>3, <1>4, <1>5, <1>6, <1>7, <1>8, <1>9, Steps

\* When main clears the credentials in use, the upstream has refused those very ones
\* FailureLimit times since a link with them last came up: no refusal of another
\* link, and no failure of another kind, was counted against them.
THEOREM ClearsTheRefused ==
  ASSUME OneConfigurationPerVersion
  PROVE  Spec => ClearsRefusedOnly
<1>1. Init => RefusalInv
  BY ZeroCount DEF Init, RefusalInv, CalmQueue, Quiet, Addresses, Counts, GivenUp, Holding, Given,
     Owned, Busy, Resting, Idle
<1>2. ASSUME IInv, LinkInv, RefusalInv, [Next]_vars PROVE RefusalInv'
  BY <1>2, CalmQueueKept, QuietKept, AddressesKept, CountsKept DEF LinkInv, RefusalInv
<1>3. ASSUME IInv, LinkInv, RefusalInv, pc = "clear", current = driver.config
      PROVE  refusals.cred = current /\ refusals.count >= FailureLimit
  <2>1. slot = "CURRENT" /\ cause = "recovery"
    BY <1>3 DEF LinkInv, Attempt
  <2>2. driver.link = driver.config
    BY <1>3, <2>1 DEF RefusalInv, Quiet, Given
  <2>3. credentialFailures >= FailureLimit /\ Owned
    BY <1>3, <2>1 DEF RefusalInv, Counts
  <2>4. credentialFailures \in 0..FailureLimit /\ refusals.count \in 0..FailureLimit
        /\ FailureLimit \in Nat \ {0}
    BY <1>3, UpstreamWifiAssumption DEF IInv, GatewayOK, HistoryOK
  <2> QED BY <1>3, <2>2, <2>3, <2>4 DEF Owned
<1>4. ASSUME IInv, LinkInv, RefusalInv, [Next]_vars
      PROVE  [(pc = "clear" /\ current = driver.config /\ current' = None) =>
                refusals.cred = current /\ refusals.count >= FailureLimit]_vars
  BY <1>3, <1>4
<1> QED BY <1>1, <1>2, <1>4, Invariance, LinkInvariance, PTL DEF Spec, ClearsRefusedOnly

=============================================================================
