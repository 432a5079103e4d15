------------------------------ MODULE ClientAccess ------------------------------
(***************************************************************************)
(* The table of SoftAP clients (components/client_access) and the tasks    *)
(* that work on it:                                                        *)
(*                                                                         *)
(*   the default event loop    connected, disconnected and IP events       *)
(*   the MQTT task             ALLOW and REVOKE_ACCESS                     *)
(*   the lwIP thread           client_access_can_forward_ipv4 per packet   *)
(*   the HTTP task             address recovery through the ARP table      *)
(*   the main task             client_access_start, then the periodic      *)
(*                             expiry sweep and RSSI refresh               *)
(*   client_disconnect         the task that publishes disconnect reports  *)
(*                                                                         *)
(* Every critical section of the code is one action.  What the code does   *)
(* between two critical sections (read the tick counter, ask the driver    *)
(* for its station list, resolve an address, send to a queue) is an action *)
(* of its own, so every interleaving the locks allow is explored.          *)
(*                                                                         *)
(* Time is an unbounded clock.  The code only ever sees its low 32 bits:   *)
(* Tick(t) is the FreeRTOS tick count at time t, and an entry's            *)
(* authorized_at is used through Tick alone, as authorized_at_ticks is.    *)
(***************************************************************************)
EXTENDS Integers, Sequences, FiniteSets

CONSTANTS
  Clients,        \* MAC addresses
  Addrs,          \* IPv4 addresses of the SoftAP's DHCP pool
  Sessions,       \* session numbers the backend uses
  Ttls,           \* lifetimes of an ALLOW, in ticks
  MaxConn,        \* ESP_WIFI_MAX_CONN_NUM: table size and queue capacity
  Stations,       \* ap_max_connection: stations the driver admits
  TickMod,        \* 2^32: the tick counter's period
  Attempts,       \* CLIENT_DISCONNECT_PUBLISH_MAX_ATTEMPTS
  UplinkMayDrop,  \* may the upstream Wi-Fi leave STA_GOT_IP again
  MaxClock,       \* bound: ticks of a behaviour
  MaxEvents,      \* bound: events waiting in the default event loop
  MaxRemovals,    \* bound: stations leaving in a behaviour
  None            \* no client, no address, no report

ASSUME ClientAccessAssumption ==
  /\ IsFiniteSet(Clients)
  /\ Sessions \subseteq Nat \ {0}
  /\ Ttls \subseteq 1..(TickMod - 1)
  /\ MaxConn \in Nat \ {0}
  /\ Stations \in Nat
  /\ TickMod \in Nat \ {0}
  /\ Attempts \in Nat \ {0}
  /\ UplinkMayDrop \in BOOLEAN
  /\ MaxClock \in Nat /\ MaxEvents \in Nat /\ MaxRemovals \in Nat
  /\ None \notin Clients /\ None \notin Addrs

VARIABLES
  associated,   \* driver: the stations associated with the SoftAP
  lease,        \* DHCP server: the address leased to each associated station
  events,       \* default event loop: events not dispatched yet
  clients,      \* s_clients
  handlers,     \* event kinds whose handler is registered
  pending,      \* event task: the report between the memset and xQueueSend
  queue,        \* s_disconnect_queue
  publishing,   \* client_disconnect task: the report it holds, and its attempt
  pc,           \* main task: where it is
  stationList,  \* main task: what the driver last answered
  sweepClock,   \* main task: when expire_check read the tick counter
  mqttStarted,  \* main task: mqtt_started
  uplink,       \* wifi_gateway_get_status() is STA_GOT_IP
  portal,       \* HTTP task: the address recovery it is in
  clock         \* time

\* History, read by no action.
VARIABLES
  removals,     \* reports made so far: each report carries its number
  published,    \* numbers of the reports handed to MQTT
  lost,         \* numbers of the reports dropped or abandoned
  revoked,      \* sessions a REVOKE_ACCESS named
  bootSeen,     \* clients associated or tracked when client_access_start listed them
  overwritten,  \* clients whose address was last written by a task that had
                \* looked it up before it changed
  turnedAway    \* clients whose last connection event found the table full

driverVars == <<associated, lease, events>>
reportVars == <<pending, queue, publishing, removals, published, lost>>
mainVars   == <<pc, stationList, sweepClock, mqttStarted, handlers, bootSeen>>
vars == <<driverVars, clients, reportVars, mainVars, uplink, portal, clock,
          revoked, overwritten, turnedAway>>

-----------------------------------------------------------------------------
(* The entries of the table. *)

Slots  == 1..MaxConn
Kinds  == {"connected", "disconnected", "ip"}
States == {"UNKNOWN", "UNAUTHORIZED", "AUTHORIZED"}

Entry == [mac : Clients \cup {None}, state : States, session : Sessions \cup {0},
          ip : Addrs \cup {None}, authorized_at : Nat, ttl : Ttls \cup {0},
          rssi : BOOLEAN]

\* A slot cleared by memset: not in_use.
FreeEntry == [mac |-> None, state |-> "UNKNOWN", session |-> 0, ip |-> None,
              authorized_at |-> 0, ttl |-> 0, rssi |-> FALSE]

\* What track_connected_client writes for a (re)connected client.
TrackedEntry(m) == [FreeEntry EXCEPT !.mac = m, !.state = "UNAUTHORIZED"]

Event  == [kind : Kinds, mac : Clients, ip : Addrs \cup {None}]
Report == [mac : Clients, state : States, session : Sessions \cup {0}, seq : Nat]

ASSUME NoReportAssumption ==
  /\ None \notin Report
  /\ None \notin [report : Report, attempt : 1..Attempts]

\* find_client_index_locked: the slots that hold client m.
SlotsOf(m) == {i \in Slots : clients[i].mac = m}
FirstOf(S) == CHOOSE i \in S : \A j \in S : i <= j
Tracked    == {clients[i].mac : i \in Slots} \ {None}
EntryOf(m) == clients[FirstOf(SlotsOf(m))]

Tick(t) == t % TickMod

\* MUTANT: the subtraction in 64 bits, without the wrap-around.
ElapsedSigned(now, e) == Tick(now) - Tick(e.authorized_at)

\* elapsed >= ttl_ticks, in the 32-bit subtraction of the code.
Elapsed(now, e)  == (Tick(now) - Tick(e.authorized_at)) % TickMod
TimedOut(now, e) == e.ttl > 0 /\ Elapsed(now, e) >= e.ttl

\* MUTANT: the session is left behind.
DemotedKeepsSession(e) == [e EXCEPT !.state = "UNAUTHORIZED", !.ttl = 0]

Demoted(e) == [e EXCEPT !.state = "UNAUTHORIZED", !.session = 0, !.ttl = 0]

-----------------------------------------------------------------------------
Init ==
  /\ associated = {} /\ lease = [m \in Clients |-> None] /\ events = <<>>
  /\ clients = [i \in Slots |-> FreeEntry]
  /\ handlers = {}
  /\ pending = None /\ queue = <<>> /\ publishing = None
  /\ pc = "register" /\ stationList = <<>> /\ sweepClock = 0
  /\ mqttStarted = FALSE
  /\ uplink \in BOOLEAN
  /\ portal = [step |-> "idle", ip |-> None, mac |-> None]
  /\ clock = 0
  /\ removals = 0 /\ published = {} /\ lost = {} /\ revoked = {}
  /\ bootSeen = {} /\ overwritten = {} /\ turnedAway = {}

-----------------------------------------------------------------------------
(* The Wi-Fi driver and the DHCP server, which post to the event loop. *)

Post(e) == /\ Len(events) < MaxEvents
           /\ events' = Append(events, e)

Associate(m) ==
  /\ m \notin associated /\ Cardinality(associated) < Stations
  /\ associated' = associated \cup {m}
  /\ Post([kind |-> "connected", mac |-> m, ip |-> None])
  /\ UNCHANGED <<lease, clients, reportVars, mainVars, uplink, portal, clock,
                 revoked, overwritten, turnedAway>>

\* A station leaves, or is deauthenticated by DISCONNECT_MAC; its lease ends.
Leave(m) ==
  /\ m \in associated
  /\ removals + Cardinality({i \in DOMAIN events : events[i].kind = "disconnected"})
       < MaxRemovals
  /\ associated' = associated \ {m}
  /\ lease' = [lease EXCEPT ![m] = None]
  /\ Post([kind |-> "disconnected", mac |-> m, ip |-> None])
  /\ UNCHANGED <<clients, reportVars, mainVars, uplink, portal, clock, revoked,
                 overwritten, turnedAway>>

\* A lease is unique among the stations present, and free for reuse after.
AssignAddress(m, a) ==
  /\ m \in associated /\ lease[m] = None
  /\ \A n \in Clients : lease[n] # a
  /\ lease' = [lease EXCEPT ![m] = a]
  /\ Post([kind |-> "ip", mac |-> m, ip |-> a])
  /\ UNCHANGED <<associated, clients, reportVars, mainVars, uplink, portal, clock,
                 revoked, overwritten, turnedAway>>

-----------------------------------------------------------------------------
(* Writers of the table, used by more than one task. *)

\* MUTANT: always a new slot.
TrackConnectedAnew(m) ==
  LET free == {i \in Slots : clients[i].mac = None}
  IN  clients' = IF free = {} THEN clients
                 ELSE [clients EXCEPT ![FirstOf(free)] = TrackedEntry(m)]

\* MUTANT: a reused slot keeps the address of the last association.
TrackConnectedKeepsIp(m) ==
  LET free == {i \in Slots : clients[i].mac = None}
      at   == IF SlotsOf(m) # {} THEN SlotsOf(m) ELSE free
  IN  clients' = IF at = {} THEN clients
                 ELSE [clients EXCEPT ![FirstOf(at)] = [TrackedEntry(m) EXCEPT !.ip = clients[FirstOf(at)].ip]]

\* Where a client can be tracked: its own slot, else the free ones.
PlacesFor(m) == IF SlotsOf(m) # {} THEN SlotsOf(m)
                ELSE {i \in Slots : clients[i].mac = None}

\* track_connected_client: the first place there is; a full table changes nothing.
TrackConnected(m) ==
  clients' = IF PlacesFor(m) = {} THEN clients
             ELSE [clients EXCEPT ![FirstOf(PlacesFor(m))] = TrackedEntry(m)]

\* track_client_ip: only a tracked client gets an address.
TrackIp(m, a) ==
  clients' = IF SlotsOf(m) = {} THEN clients
             ELSE [clients EXCEPT ![FirstOf(SlotsOf(m))].ip = a]

\* History: was the address just written to m's entry already out of date?
NoteAddress(m, a) ==
  overwritten' = IF a # lease[m] THEN overwritten \cup {m} ELSE overwritten \ {m}

-----------------------------------------------------------------------------
(* The event task.  It handles one event at a time, to the end. *)

NextEvent(kind) == /\ pending = None
                   /\ events # <<>> /\ Head(events).kind = kind
                   /\ events' = Tail(events)

HandleConnected ==
  /\ NextEvent("connected") /\ "connected" \in handlers
  /\ LET m == Head(events).mac
     IN  /\ TrackConnected(m)
         /\ turnedAway' = IF PlacesFor(m) = {} THEN turnedAway \cup {m} ELSE turnedAway \ {m}
         /\ overwritten' = overwritten \ {m}
  /\ UNCHANGED <<associated, lease, reportVars, mainVars, uplink, portal, clock,
                 revoked>>

\* MUTANT: the report is copied after the memset.
RemoveClientCopiesLate(m) ==
  LET i == FirstOf(SlotsOf(m))
  IN  /\ pending' = [mac |-> m, state |-> FreeEntry.state, session |-> FreeEntry.session,
                     seq |-> removals + 1]
      /\ clients' = [clients EXCEPT ![i] = FreeEntry]

\* MUTANT: the slot stays in use.
RemoveClientKeepsSlot(m) ==
  LET i == FirstOf(SlotsOf(m))
  IN  /\ pending' = [mac |-> m, state |-> clients[i].state,
                     session |-> clients[i].session, seq |-> removals + 1]
      /\ clients' = [clients EXCEPT ![i] = TrackedEntry(m)]

\* remove_disconnect_client up to portEXIT_CRITICAL: the report is copied, then
\* the slot is cleared.
RemoveClient(m) ==
  LET i == FirstOf(SlotsOf(m))
  IN  /\ pending' = [mac |-> m, state |-> clients[i].state,
                     session |-> clients[i].session, seq |-> removals + 1]
      /\ clients' = [clients EXCEPT ![i] = FreeEntry]

HandleDisconnected ==
  /\ NextEvent("disconnected") /\ "disconnected" \in handlers
  /\ LET m == Head(events).mac
     IN  /\ IF m \in Tracked
            THEN RemoveClient(m) /\ removals' = removals + 1
            ELSE UNCHANGED <<clients, pending, removals>>
         /\ overwritten' = overwritten \ {m} /\ turnedAway' = turnedAway \ {m}
  /\ UNCHANGED <<associated, lease, queue, publishing, published, lost, mainVars,
                 uplink, portal, clock, revoked>>

\* MUTANT: a queue one shorter than the table.
SendReportShortQueue ==
  /\ pending # None /\ pending' = None
  /\ IF Len(queue) + 1 < MaxConn
     THEN queue' = Append(queue, pending) /\ UNCHANGED lost
     ELSE lost' = lost \cup {pending.seq} /\ UNCHANGED queue
  /\ UNCHANGED <<driverVars, clients, publishing, removals, published, mainVars,
                 uplink, portal, clock, revoked, overwritten, turnedAway>>

\* xQueueSend with no wait: a full queue drops the report.
SendReport ==
  /\ pending # None /\ pending' = None
  /\ IF Len(queue) < MaxConn
     THEN queue' = Append(queue, pending) /\ UNCHANGED lost
     ELSE lost' = lost \cup {pending.seq} /\ UNCHANGED queue
  /\ UNCHANGED <<driverVars, clients, publishing, removals, published, mainVars,
                 uplink, portal, clock, revoked, overwritten, turnedAway>>

HandleIp ==
  /\ NextEvent("ip") /\ "ip" \in handlers
  /\ TrackIp(Head(events).mac, Head(events).ip)
  /\ overwritten' = overwritten \ {Head(events).mac}
  /\ UNCHANGED <<associated, lease, reportVars, mainVars, uplink, portal, clock,
                 revoked, turnedAway>>

\* The event loop discards an event nobody registered for.
DiscardEvent ==
  /\ \E k \in Kinds \ handlers : NextEvent(k)
  /\ UNCHANGED <<associated, lease, clients, reportVars, mainVars, uplink, portal,
                 clock, revoked, overwritten, turnedAway>>

-----------------------------------------------------------------------------
(* client_access_start, in the main task. *)

\* The three registrations, in the code's order.
RegisterHandler ==
  /\ pc = "register"
  /\ handlers' = handlers \cup
       (IF "connected" \notin handlers THEN {"connected"}
        ELSE IF "disconnected" \notin handlers THEN {"disconnected"} ELSE {"ip"})
  /\ pc' = IF handlers' = Kinds THEN "list" ELSE "register"
  /\ UNCHANGED <<driverVars, clients, reportVars, stationList, sweepClock,
                 mqttStarted, bootSeen, uplink, portal, clock, revoked, overwritten, turnedAway>>

\* The driver's station list, in any order.
StationLists ==
  {l \in [1..Cardinality(associated) -> [mac : associated, ip : {None}]] :
     \A i, j \in DOMAIN l : l[i].mac = l[j].mac => i = j}

\* MUTANT: the list is read before the handlers are registered.
ListExistingEarly ==
  /\ pc \in {"register", "list"}
  /\ stationList' \in StationLists
  /\ bootSeen' = associated \cup Tracked
  /\ pc' = IF associated = {} THEN "loop" ELSE "leases"
  /\ UNCHANGED <<driverVars, clients, reportVars, sweepClock, mqttStarted, handlers,
                 uplink, portal, clock, revoked, overwritten, turnedAway>>

ListExisting ==
  /\ pc = "list"
  /\ stationList' \in StationLists
  /\ bootSeen' = associated \cup Tracked
  /\ pc' = IF associated = {} THEN "loop" ELSE "leases"
  /\ UNCHANGED <<driverVars, clients, reportVars, sweepClock, mqttStarted, handlers,
                 uplink, portal, clock, revoked, overwritten, turnedAway>>

\* esp_netif_dhcps_get_clients_by_mac, for the stations of the list.
LookUpLeases ==
  /\ pc = "leases"
  /\ stationList' = [i \in DOMAIN stationList |->
                       [mac |-> stationList[i].mac, ip |-> lease[stationList[i].mac]]]
  /\ pc' = "track"
  /\ UNCHANGED <<driverVars, clients, reportVars, sweepClock, mqttStarted, handlers,
                 bootSeen, uplink, portal, clock, revoked, overwritten, turnedAway>>

DoneWithStation ==
  /\ stationList' = Tail(stationList)
  /\ pc' = IF Len(stationList) = 1 THEN "loop" ELSE "track"

TrackExisting ==
  /\ pc = "track"
  /\ LET s == Head(stationList)
     IN  /\ PlacesFor(s.mac) # {}
         /\ TrackConnected(s.mac)
         /\ NoteAddress(s.mac, None) /\ turnedAway' = turnedAway \ {s.mac}
         /\ IF s.ip = None THEN DoneWithStation
            ELSE pc' = "trackIp" /\ UNCHANGED stationList
  /\ UNCHANGED <<driverVars, reportVars, sweepClock, mqttStarted, handlers, bootSeen,
                 uplink, portal, clock, revoked>>

TrackExistingIp ==
  /\ pc = "trackIp"
  /\ LET s == Head(stationList)
     IN  /\ s.mac \in Tracked
         /\ TrackIp(s.mac, s.ip)
         /\ NoteAddress(s.mac, s.ip)
  /\ DoneWithStation
  /\ UNCHANGED <<driverVars, reportVars, sweepClock, mqttStarted, handlers, bootSeen,
                 uplink, portal, clock, revoked, turnedAway>>

\* A listed station finds the table full, or left between the two steps:
\* client_access_start fails, and app_main's ESP_ERROR_CHECK restarts the device.
RestartOnFailedStart ==
  /\ \/ pc = "track" /\ PlacesFor(Head(stationList).mac) = {}
     \/ pc = "trackIp" /\ Head(stationList).mac \notin Tracked
  /\ associated' = {} /\ lease' = [m \in Clients |-> None] /\ events' = <<>>
  /\ clients' = [i \in Slots |-> FreeEntry]
  /\ handlers' = {} /\ pending' = None /\ queue' = <<>> /\ publishing' = None
  /\ pc' = "register" /\ stationList' = <<>> /\ sweepClock' = 0
  /\ removals' = 0 /\ published' = {} /\ lost' = {} /\ bootSeen' = {}
  /\ overwritten' = {} /\ turnedAway' = {}
  /\ uplink' \in BOOLEAN
  /\ UNCHANGED <<mqttStarted, portal, clock, revoked>>

-----------------------------------------------------------------------------
(* The MQTT task: handle_mqtt_command. *)

\* client_access_authorize; an unknown client is refused.  A lifetime is counted in
\* ticks from the start: that pdMS_TO_TICKS turns up to 86400000 ms into ticks
\* without overflow is assumed of FreeRTOS.
Authorized(m, s, t) ==
  clients' = [clients EXCEPT ![FirstOf(SlotsOf(m))] =
                [@ EXCEPT !.state = "AUTHORIZED", !.session = s,
                          !.authorized_at = clock, !.ttl = t]]

Allow(m, s, t) ==
  /\ mqttStarted /\ m \in Tracked
  /\ Authorized(m, s, t)
  /\ UNCHANGED <<driverVars, reportVars, mainVars, uplink, portal, clock, revoked,
                 overwritten, turnedAway>>

\* MUTANT: any session of the client will do.
RevokeMatchesAnySession(e, s) == e.state = "AUTHORIZED"

\* client_access_revoke_authorization: client, state and session must all match.
RevokeMatches(e, s) == e.state = "AUTHORIZED" /\ e.session = s

Revoke(m, s) ==
  /\ mqttStarted
  /\ revoked' = revoked \cup {s}
  /\ clients' = IF m \in Tracked /\ RevokeMatches(EntryOf(m), s)
                THEN [clients EXCEPT ![FirstOf(SlotsOf(m))] = Demoted(@)]
                ELSE clients
  /\ UNCHANGED <<driverVars, reportVars, mainVars, uplink, portal, clock, overwritten, turnedAway>>

-----------------------------------------------------------------------------
(* The lwIP thread: client_access_can_forward_ipv4. *)

Started    == pc \in {"loop", "sweep", "stations", "rssi"}
SlotsAt(a) == {i \in Slots : clients[i].mac # None /\ clients[i].ip = a}

\* The first entry with the packet's address decides.
CanForward(a) ==
  /\ SlotsAt(a) # {}
  /\ LET e == clients[FirstOf(SlotsAt(a))]
     IN  e.state = "AUTHORIZED" /\ ~TimedOut(clock, e)

\* A packet that finds the grant timed out also ends it.
ExpireOnPacket(a) ==
  /\ Started /\ SlotsAt(a) # {}
  /\ LET i == FirstOf(SlotsAt(a))
     IN  /\ clients[i].state = "AUTHORIZED" /\ TimedOut(clock, clients[i])
         /\ clients' = [clients EXCEPT ![i] = Demoted(@)]
  /\ UNCHANGED <<driverVars, reportVars, mainVars, uplink, portal, clock, revoked,
                 overwritten, turnedAway>>

-----------------------------------------------------------------------------
(* The HTTP task: client_access_get_snapshot_by_ipv4 for a client whose IP *)
(* event never came.                                                       *)

PortalMiss(a) ==
  /\ Started /\ portal.step = "idle" /\ SlotsAt(a) = {}
  /\ portal' = [step |-> "resolve", ip |-> a, mac |-> None]
  /\ UNCHANGED <<driverVars, clients, reportVars, mainVars, uplink, clock, revoked,
                 overwritten, turnedAway>>

\* resolve_client_mac_by_ipv4: the ARP table knows who uses the address now.
PortalResolve ==
  /\ portal.step = "resolve"
  /\ \/ \E m \in associated : /\ lease[m] = portal.ip
                              /\ portal' = [portal EXCEPT !.step = "record", !.mac = m]
     \/ portal' = [step |-> "idle", ip |-> None, mac |-> None]
  /\ UNCHANGED <<driverVars, clients, reportVars, mainVars, uplink, clock, revoked,
                 overwritten, turnedAway>>

PortalRecord ==
  /\ portal.step = "record"
  /\ TrackIp(portal.mac, portal.ip)
  /\ IF portal.mac \in Tracked THEN NoteAddress(portal.mac, portal.ip)
                               ELSE UNCHANGED overwritten
  /\ portal' = [step |-> "idle", ip |-> None, mac |-> None]
  /\ UNCHANGED <<driverVars, reportVars, mainVars, uplink, clock, revoked, turnedAway>>

-----------------------------------------------------------------------------
(* The main loop's pass, once the upstream Wi-Fi has an address. *)

\* wifi_status is read at the top of the pass; MQTT is started if it was not,
\* and client_access_expire_check reads the tick counter.  A pass whose app_mqtt_start
\* fails changes nothing here, nor does one that finds the uplink down: that the
\* first succeeds some day is part of the fairness below.
BeginPass ==
  /\ pc = "loop" /\ uplink
  /\ mqttStarted' = TRUE
  /\ sweepClock' = clock
  /\ pc' = "sweep"
  /\ UNCHANGED <<driverVars, clients, reportVars, stationList, handlers, bootSeen,
                 uplink, portal, clock, revoked, overwritten, turnedAway>>

\* MUTANT: the loop stops one slot early.
SweepSkipsLastSlot ==
  /\ pc = "sweep"
  /\ clients' = [i \in Slots |->
       IF i < MaxConn /\ clients[i].state = "AUTHORIZED" /\ TimedOut(sweepClock, clients[i])
       THEN Demoted(clients[i]) ELSE clients[i]]
  /\ pc' = "stations" /\ sweepClock' = 0
  /\ UNCHANGED <<driverVars, reportVars, stationList, mqttStarted, handlers, bootSeen,
                 uplink, portal, clock, revoked, overwritten, turnedAway>>

\* The critical section of client_access_expire_check.
Sweep ==
  /\ pc = "sweep"
  /\ clients' = [i \in Slots |->
       IF clients[i].state = "AUTHORIZED" /\ TimedOut(sweepClock, clients[i])
       THEN Demoted(clients[i]) ELSE clients[i]]
  /\ pc' = "stations" /\ sweepClock' = 0
  /\ UNCHANGED <<driverVars, reportVars, stationList, mqttStarted, handlers, bootSeen,
                 uplink, portal, clock, revoked, overwritten, turnedAway>>

\* client_access_update_rssi_all asks the driver; an error skips the refresh.
ListStations ==
  /\ pc = "stations"
  /\ \/ stationList' \in StationLists /\ pc' = "rssi"
     \/ pc' = "loop" /\ UNCHANGED stationList
  /\ UNCHANGED <<driverVars, clients, reportVars, sweepClock, mqttStarted, handlers,
                 bootSeen, uplink, portal, clock, revoked, overwritten, turnedAway>>

RefreshRssi ==
  /\ pc = "rssi"
  /\ clients' = [i \in Slots |-> [clients[i] EXCEPT !.rssi =
       \E j \in DOMAIN stationList : stationList[j].mac = clients[i].mac]]
  /\ stationList' = <<>> /\ pc' = "loop"
  /\ UNCHANGED <<driverVars, reportVars, sweepClock, mqttStarted, handlers, bootSeen,
                 uplink, portal, clock, revoked, overwritten, turnedAway>>

-----------------------------------------------------------------------------
(* client_disconnect_publish_task. *)

TakeReport ==
  /\ mqttStarted /\ publishing = None /\ queue # <<>>
  /\ publishing' = [report |-> Head(queue), attempt |-> 1]
  /\ queue' = Tail(queue)
  /\ UNCHANGED <<driverVars, clients, pending, removals, published, lost, mainVars,
                 uplink, portal, clock, revoked, overwritten, turnedAway>>

\* MUTANT: the loop does not stop at the attempt that succeeds.
PublishReportAgain ==
  /\ publishing # None
  /\ published' = published \cup {publishing.report.seq}
  /\ publishing' = IF publishing.attempt < Attempts
                   THEN [publishing EXCEPT !.attempt = @ + 1] ELSE None
  /\ UNCHANGED <<driverVars, clients, pending, queue, removals, lost, mainVars,
                 uplink, portal, clock, revoked, overwritten, turnedAway>>

PublishReport ==
  /\ publishing # None
  /\ published' = published \cup {publishing.report.seq}
  /\ publishing' = None
  /\ UNCHANGED <<driverVars, clients, pending, queue, removals, lost, mainVars,
                 uplink, portal, clock, revoked, overwritten, turnedAway>>

\* MUTANT: one attempt too many.
PublishFailsOnceMore ==
  /\ publishing # None
  /\ IF publishing.attempt <= Attempts
     THEN /\ publishing' = [publishing EXCEPT !.attempt = @ + 1]
          /\ UNCHANGED lost
     ELSE publishing' = None /\ lost' = lost \cup {publishing.report.seq}
  /\ UNCHANGED <<driverVars, clients, pending, queue, removals, published, mainVars,
                 uplink, portal, clock, revoked, overwritten, turnedAway>>

\* MUTANT: retries without end.
PublishFailsForever ==
  /\ publishing # None
  /\ publishing' = [publishing EXCEPT !.attempt = IF @ < Attempts THEN @ + 1 ELSE 1]
  /\ UNCHANGED <<driverVars, clients, pending, queue, removals, published, lost,
                 mainVars, uplink, portal, clock, revoked, overwritten, turnedAway>>

PublishFails ==
  /\ publishing # None
  /\ IF publishing.attempt < Attempts
     THEN /\ publishing' = [publishing EXCEPT !.attempt = @ + 1]
          /\ UNCHANGED lost
     ELSE publishing' = None /\ lost' = lost \cup {publishing.report.seq}
  /\ UNCHANGED <<driverVars, clients, pending, queue, removals, published, mainVars,
                 uplink, portal, clock, revoked, overwritten, turnedAway>>

-----------------------------------------------------------------------------
(* Time, and the upstream Wi-Fi. *)

\* Assumed of time: no grant stays AUTHORIZED for a whole period of the counter.
Advance ==
  /\ clock < MaxClock
  /\ \A i \in Slots : clients[i].state = "AUTHORIZED" =>
                        clock + 1 - clients[i].authorized_at < TickMod
  /\ clock' = clock + 1
  /\ UNCHANGED <<driverVars, clients, reportVars, mainVars, uplink, portal, revoked,
                 overwritten, turnedAway>>

UplinkChange ==
  /\ uplink => UplinkMayDrop
  /\ uplink' = ~uplink
  /\ UNCHANGED <<driverVars, clients, reportVars, mainVars, portal, clock, revoked,
                 overwritten, turnedAway>>

-----------------------------------------------------------------------------
EventTask == HandleConnected \/ HandleDisconnected \/ SendReport \/ HandleIp \/ DiscardEvent
MainTask  == \/ RegisterHandler \/ ListExisting \/ LookUpLeases
             \/ TrackExisting \/ TrackExistingIp \/ RestartOnFailedStart
             \/ BeginPass \/ Sweep \/ ListStations \/ RefreshRssi
Publisher == TakeReport \/ PublishReport \/ PublishFails

Next ==
  \/ \E m \in Clients : Associate(m) \/ Leave(m) \/ (\E a \in Addrs : AssignAddress(m, a))
  \/ EventTask
  \/ MainTask
  \/ Publisher
  \/ \E m \in Clients, s \in Sessions : Revoke(m, s) \/ (\E t \in Ttls : Allow(m, s, t))
  \/ \E a \in Addrs : ExpireOnPacket(a) \/ PortalMiss(a)
  \/ PortalResolve \/ PortalRecord
  \/ Advance \/ UplinkChange

\* The scheduler runs every task that can run, the uplink comes up once, and MQTT
\* starts at last.
Fairness == /\ WF_vars(EventTask) /\ WF_vars(MainTask) /\ WF_vars(Publisher)
            /\ WF_vars(UplinkChange /\ ~mqttStarted)

Spec     == Init /\ [][Next]_vars
FairSpec == Spec /\ Fairness

-----------------------------------------------------------------------------
(* Type invariant and safety. *)

\* Every variable keeps the type of its C declaration.
TypeOK ==
  /\ associated \subseteq Clients
  /\ lease \in [Clients -> Addrs \cup {None}]
  /\ events \in Seq(Event)
  /\ clients \in [Slots -> Entry]
  /\ handlers \subseteq Kinds
  /\ pending \in Report \cup {None}
  /\ queue \in Seq(Report)
  /\ publishing \in [report : Report, attempt : 1..Attempts] \cup {None}
  /\ pc \in {"register", "list", "leases", "track", "trackIp", "loop", "sweep",
              "stations", "rssi"}
  /\ stationList \in Seq([mac : Clients, ip : Addrs \cup {None}])
  /\ sweepClock \in Nat /\ clock \in Nat /\ removals \in Nat
  /\ mqttStarted \in BOOLEAN /\ uplink \in BOOLEAN
  /\ portal \in [step : {"idle", "resolve", "record"}, ip : Addrs \cup {None},
                 mac : Clients \cup {None}]
  /\ published \subseteq Nat /\ lost \subseteq Nat
  /\ revoked \subseteq Sessions
  /\ bootSeen \subseteq Clients /\ overwritten \subseteq Clients /\ turnedAway \subseteq Clients

\* No client holds two slots, whichever of the event task and the start-up code
\* tracked it first: find_client_index_locked and the first free slot are one
\* critical section.
NoDuplicateMac ==
  \A i, j \in Slots : clients[i].mac # None /\ clients[i].mac = clients[j].mac => i = j

\* A slot is authorized exactly when it carries a backend session and a time
\* limit, and only a used slot is: no path out of AUTHORIZED leaves a session
\* for a report or a signal to charge, and the "never expires" branch of the
\* expiry checks is never taken.
EntryConsistent(e) ==
  /\ e.state = "AUTHORIZED" <=> e.session # 0
  /\ e.state = "AUTHORIZED" <=> e.ttl # 0
  /\ e.mac = None <=> e.state = "UNKNOWN"
SessionMatchesState == \A i \in Slots : EntryConsistent(clients[i])

\* A packet is never forwarded on a grant whose lifetime has passed, across
\* wrap-arounds of the tick counter and however late the periodic sweep is.
NeverForwardExpired ==
  \A a \in Addrs : CanForward(a) =>
    LET e == clients[FirstOf(SlotsAt(a))] IN clock - e.authorized_at < e.ttl

\* Once client_access_start has read the station list, every associated station
\* is tracked, about to be, has its connection event waiting, or found the table
\* full when it connected: registering the handlers before the list leaves no gap.
NoClientMissed ==
  pc \notin {"register", "list"} =>
    \A m \in associated :
      \/ m \in Tracked
      \/ ~Started /\ \E i \in DOMAIN stationList : stationList[i].mac = m
      \/ \E i \in DOMAIN events : events[i].kind = "connected" /\ events[i].mac = m
      \/ m \in turnedAway

\* Client m is here as far as the events handled so far tell: the next of its
\* arrivals and departures to be handled is a departure; with none, it is associated.
MovesOf(m)  == {i \in DOMAIN events : events[i].mac = m /\ events[i].kind # "ip"}
SeenHere(m) == IF MovesOf(m) = {} THEN m \in associated
               ELSE events[FirstOf(MovesOf(m))].kind = "disconnected"

\* A tracked client is here as far as the handled events tell, so that its
\* departure will clear its slot; the exception is a client left from before
\* client_access_start listed the stations, or listed by it.
PhantomOnlyFromBoot ==
  pc \notin {"register", "list"} => \A m \in Tracked : SeenHere(m) \/ m \in bootSeen

\* When nothing about a station is left to handle, its entry has the address of
\* its present lease, unless a task wrote an address it had looked up before the
\* lease changed (start-up and the ARP recovery look up, then write).
AddressesSettle ==
  \A m \in Tracked \cap associated :
    \/ EntryOf(m).ip = lease[m]
    \/ \E i \in DOMAIN events : events[i].mac = m
    \/ m \in overwritten \/ ~Started

\* The reports between the table and the publisher, oldest first.
InFlight == (IF publishing = None THEN <<>> ELSE <<publishing.report>>) \o queue
              \o (IF pending = None THEN <<>> ELSE <<pending>>)
NumbersInFlight == {InFlight[i].seq : i \in DOMAIN InFlight}

\* Every report is in exactly one place: in flight, published, or lost; reports
\* travel in the order their clients left.
ReportsAccounted ==
  /\ \A i, j \in DOMAIN InFlight : i < j => InFlight[i].seq < InFlight[j].seq
  /\ NumbersInFlight \cup published \cup lost = 1..removals
  /\ published \cap lost = {}
  /\ NumbersInFlight \cap (published \cup lost) = {}

\* Slot i holds a grant whose lifetime has passed.
OverdueAt(i) == clients[i].state = "AUTHORIZED" /\ clock - clients[i].authorized_at >= clients[i].ttl

-----------------------------------------------------------------------------
(* Action properties. *)

\* An authorization ends only because its lifetime has passed, because REVOKE_ACCESS
\* named its session, because a new ALLOW replaces it, because the event task
\* handles the client's departure (or its return, for a client left over from
\* start-up), or because a sweep that read the tick counter before the grant was
\* made wraps around it.
AuthorizationLossAccounted == [][
  \A i \in Slots :
    LET e == clients[i] IN
    (e.state = "AUTHORIZED" /\ <<clients'[i].mac, clients'[i].session>> # <<e.mac, e.session>>)
    => \/ clock - e.authorized_at >= e.ttl
       \/ e.session \in revoked'
       \/ clients'[i].mac = e.mac /\ clients'[i].state = "AUTHORIZED" /\ pending' = pending
       \/ events # <<>> /\ events' = Tail(events) /\ Head(events).mac = e.mac
            /\ (Head(events).kind = "disconnected" \/ e.mac \in bootSeen)
       \/ pc = "sweep" /\ pc' # pc /\ e.authorized_at > sweepClock ]_vars

\* The clients left in the table whose departure nobody will hear of.
Phantoms == {m \in Tracked \cap bootSeen : ~SeenHere(m)}

\* A station is turned away only by clients left over from start-up, and as many
\* of them as the table has slots to spare for the stations the driver admits:
\* without them the table never runs full.
TurnedAwayByPhantoms == [][
  (turnedAway' \ turnedAway # {} /\ pc \notin {"register", "list"})
    => Cardinality(Phantoms) > MaxConn - Stations ]_vars

\* A client that leaves with a session is reported with that session and state,
\* copied in the critical section that clears its slot.
SessionEndReported == [][
  \A i \in Slots :
    (clients[i].state = "AUTHORIZED" /\ clients'[i].mac # clients[i].mac)
    => /\ pending' # None
       /\ pending'.mac = clients[i].mac
       /\ pending'.state = "AUTHORIZED" /\ pending'.session = clients[i].session ]_vars

\* A report is lost only at the limits the code names: the queue holds a report
\* for every slot, or every attempt to publish it failed.
ReportLostOnlyAtLimits == [][
  \A n \in lost' \ lost :
    \/ Len(queue) >= MaxConn /\ pending # None /\ pending.seq = n
    \/ publishing # None /\ publishing.report.seq = n /\ publishing.attempt >= Attempts ]_vars

\* The comment of client_access_expire_check and its declaration: the sweep
\* demotes the authorizations that have expired, and those only.
SweepDemotesExpiredOnly == [][
  (pc = "sweep" /\ pc' # pc) =>
    \A i \in Slots : (clients[i].state = "AUTHORIZED" /\ ~OverdueAt(i)) => clients'[i] = clients[i] ]_vars

-----------------------------------------------------------------------------
(* Liveness, under FairSpec. *)

\* A grant whose lifetime has passed is ended even if its client sends nothing, once
\* the uplink, however often it came and went before, stays up: the main loop's sweep
\* is what ends it, and main.c:901 runs none while the uplink is down.
ExpiredEventuallyDemoted ==
  <>[]uplink => \A i \in Slots : OverdueAt(i) ~> ~OverdueAt(i)

\* Every report made leaves the device's hands: published, dropped or abandoned.
ReportsDrain == \A n \in 1..MaxRemovals : (n \in NumbersInFlight) ~> (n \notin NumbersInFlight)

=============================================================================
