# A TLA+ verification of the Wi-Fi gateway

The program is an ESP32 firmware (ESP-IDF, FreeRTOS) that opens a SoftAP,
shows a captive portal to its clients, lets a backend authorize them over MQTT,
forwards their packets to an upstream Wi-Fi, and lets the same backend replace
the upstream Wi-Fi's credentials. This directory models the parts of it that
decide something: who may pass, what is reported, which credentials are used.

Paths below are relative to the repository; `client_access.c` stands for
`components/client_access/client_access.c`, and so on; `main.c` is `src/main.c`.

## 1. Inventory

### 1.1 Tasks

The components are libraries; the tasks that call into them are what interleaves.

| task | what it runs | where it starts |
|---|---|---|
| main | start-up, then a pass every 1 or 10 seconds | `app_main` |
| default event loop | `wifi_event_handler`, `client_access_event_handler`, one event at a time | ESP-IDF |
| MQTT | `mqtt_event_handler`, and through it `handle_mqtt_command` | `app_mqtt_start` |
| lwIP | the IPv4 hook: `access_filter`, `client_access_can_forward_ipv4` | ESP-IDF |
| HTTP | the portal's pages and its provisioning form | `captive_portal_start` |
| client_disconnect | publishes disconnect reports, with retries | first pass after MQTT started |
| portal_dns | answers or forwards one DNS query at a time | `portal_dns_start` |

### 1.2 Components

**client_access** keeps the table of SoftAP clients: MAC, state (UNAUTHORIZED,
AUTHORIZED), session, address, time and lifetime of the grant, RSSI; one spin lock
guards it. Operations: start (register handlers, list stations already there,
track them), connected / disconnected / IP events, authorize, revoke, forwarding
decision per packet (which ends an expired grant), periodic expiry check, RSSI
refresh, recovery of an address through the ARP table, disconnect queue.
Hard: six tasks, values read before the lock and used under it, a 32-bit tick
counter, a bounded queue with a retrying consumer. Correct when: one slot per
client; a grant has a session and a lifetime, ends for a known reason, and never
forwards a packet after its lifetime; every departure is reported with the session
it ended, once; every associated station is tracked, with its current address.

**app_storage** keeps the upstream configuration in NVS: the current credentials,
one candidate staged by the backend, the identity of the promoted one, a recovery
mark and counter. A mutex makes save, stage, promote and clear exclusive.
Hard: ten keys written one by one; a failing call or a power failure between any
two. Correct when: slots are read as wholes, a configuration that was accepted is
not lost, an older version never replaces a newer one.

**wifi_gateway** drives the STA interface: status, two failure counters, a flag for
the disconnection it asked for itself, the upstream address; and the SoftAP and its
number of clients. Its variables are shared by main and the event task without a
lock. Hard: driver calls whose events overtake the assignments after them; events
of an old link handled after a new attempt began. Correct when: the status is that
of the link, failures are counted against the credentials that failed, an expected
disconnection is not counted and an unexpected one is not hidden.

**main** composes them. Each pass reads the status and then either recovers (tries
the candidate, clears the credentials, or opens the form), or starts MQTT, promotes
a candidate that has proved itself, and sweeps expired grants. Commands (ALLOW,
REVOKE_ACCESS, DISCONNECT_MAC, STAGE_WIFI_CONFIG, KICK, BLOCK_TRAFFIC) run on the
MQTT task. Hard: decisions made of several reads, taken while the other tasks go
on. Correct when: only credentials the upstream refused are cleared, only a
configuration the device really connected with is promoted, and a device whose
gateway gave up is not stranded.

**app_mqtt** keeps the client, the connection flag and its generation (under a spin
lock), and one buffer in which the fragments of a command are assembled. Correct
when: a generation stands for a connection; a command is whole and of one message.

**captive_portal** shows the state of a client (and may recover its address), and in
provisioning mode takes new credentials, saves them and restarts the device.

**access_filter** with **tls_sni_parser** decides on a packet of a client: destination
blocked, client not allowed, and, while there are hostname rules, QUIC, fragments and
the server name of TLS, for which it keeps a table of flows on the lwIP thread. Rules
are added to two tables by the MQTT task under a lock and never removed. Hard: streams
cut, resent and overlapping; a hello in several records; sequence numbers and a clock
that wrap; a table that fills; rules that come while a flow is being judged. Correct
when: a blocked name never reaches its server whole, a permitted connection is not
stopped without cause, a flow lives as long as its timeout says, a full table refuses,
a rule is installed whole or not at all.

**portal_dns** answers one DNS query at a time: the external Portal's name, a refusal,
the gateway's own address, or what the upstream server says. Hard: the client's
standing and the rules are read, then the task waits for the network. Correct when: a
blocked name is not resolved for an authorized client, and only a rule refuses.

**app_command** makes a request of a topic and a payload, which it searches as text.
Correct when: what the backend is told (the result) is what became of its command.

**device_status** serialises a snapshot.

### 1.3 Interaction

```
   driver ──events──▶ event loop ──▶ client_access table ◀── lwIP (packets)
     ▲                    │                ▲   │    ▲
     │               wifi_gateway          │   │    └── HTTP (ARP recovery)
     │                status, flag         │   └──▶ queue ──▶ client_disconnect ──▶ MQTT
     │                    │                │
     └── connect_sta ── main ──────── sweep, RSSI
                          │
                      app_storage ◀── MQTT (STAGE), HTTP (form)

   MQTT fragments ──▶ app_mqtt buffer ──▶ app_command ──▶ handle_mqtt_command
                                                              │ BLOCK_TRAFFIC
   SoftAP packets ──▶ access_filter: flows, tls_sni_parser ◀──┤ rule tables
   DNS queries    ──▶ portal_dns ◀────────────────────────────┘
```

## 2. Modules

| module | models | rests on |
|---|---|---|
| `ClientAccess` | `client_access.c`; from `main.c` the disconnect publisher, the sweep's pass, ALLOW and REVOKE_ACCESS | |
| `ClientAccess_proofs` | theorems about it | `ClientAccess`, TLAPS |
| `ClientGrants_proofs` | theorems about grants and reports | `ClientAccess_proofs` |
| `ClientEvents_proofs` | theorems about who is tracked, addresses, the ends of grants | `ClientGrants_proofs` |
| `WifiSlots` | the abstract specification of `app_storage.h`: two slots and an identity | |
| `AppStorage` | `app_storage.c`, NVS call by NVS call; implements `WifiSlots` | `WifiSlots` (refinement) |
| `AppStorage_proofs`, `AppStorageDurability_proofs` | theorems about it | `AppStorage`, TLAPS |
| `UpstreamWifi` | the STA side of `wifi_gateway.c`, `main.c`'s recovery, candidate and promotion logic, `app_mqtt.c`'s connection state, the portal's form | `WifiSlots` (as the storage) |
| `UpstreamWifi_proofs` | theorems about it | `UpstreamWifi`, TLAPS |
| `BlockRules` | the two rule tables of `access_filter.c`: normalising a hostname, installing a rule, asking for one | |
| `TlsSniParser` | `tls_sni_parser.c` | |
| `AccessFilter` | the hook and the flow table of `access_filter.c` | `BlockRules`, `TlsSniParser` |
| `AccessFilter_proofs` | theorems about it | `AccessFilter`, TLAPS |
| `MqttIngress` | the reassembly of commands in `app_mqtt.c` | |
| `CommandParser` | `app_command.c` | |
| `PortalDns` | the task of `portal_dns.c` | `BlockRules` |
| `TrafficRules` | `handle_mqtt_command` of `main.c`; composes a BLOCK_TRAFFIC's way from its fragments to the DNS | `MqttIngress`, `CommandParser`, `BlockRules`, `PortalDns` |
| `TrafficRules_proofs` | theorems about it | `TrafficRules`, TLAPS |
| `MCClientAccess`, `MCAppStorage`, `MCUpstreamWifi`, `MCAccessFilter`, `MCTrafficRules` | constants for TLC | the module each extends |

`WifiSlots` is what joins the two others: `AppStorage` is checked to implement it,
and `UpstreamWifi` uses its actions `Stage`, `Promote`, `Save` and `Clear` for the
storage calls of its tasks. `ClientAccess` and `UpstreamWifi` share only the
question whether the gateway's status is STA_GOT_IP: the variable `uplink` of the
first, an input there. `AccessFilter` and `TrafficRules` are two views of the same rule
tables, `BlockRules`: one has the packets that read them, the other the commands that
write them and the DNS task. What both ask of `client_access` (may this client
forward?) is answered either way, at any time.

### 2.1 ClientAccess

A critical section is one action; what lies between two is another action. So
`client_access_start` is `RegisterHandler` (three times), `ListExisting`,
`LookUpLeases`, then `TrackExisting` and `TrackExistingIp` for each station; a
departing client is `HandleDisconnected` (copy and clear, under the lock) and then
`SendReport`; a pass of main is `BeginPass` (which reads the tick counter), `Sweep`,
`ListStations`, `RefreshRssi`; the ARP recovery is `PortalMiss`, `PortalResolve`,
`PortalRecord`. The driver and the DHCP server (`Associate`, `Leave`,
`AssignAddress`) are the environment: they post events in the order things happen.

* `clock` is time without wrap-around; all comparisons of the code are made on
  `Tick(t) == t % TickMod`, in the unsigned subtraction of the code (`Elapsed`).
* RSSI is a flag: is there a value. Nothing depends on more of it.
* `RestartOnFailedStart`: a listed station that finds the table full, or leaves between
  the two calls for it, makes `client_access_start` fail, and `ESP_ERROR_CHECK` restarts
  the device; the model does too.
* `removals`, `published`, `lost`, `revoked`, `bootSeen`, `overwritten` and `turnedAway`
  are history: no guard reads them but the bound on `removals`.

### 2.2 WifiSlots and AppStorage

`AppStorage` keeps the NVS keys themselves. An operation takes the mutex, reads and
decides (`StageBegin`, `PromoteBegin`, `SaveBegin`, `ClearBegin`), then makes its
writes and erases one at a time in the code's order (`Write`) and commits
(`Commit`); any call may fail (`CallFails`) and power may fail anywhere
(`Restart`). Results that write nothing (idempotent, stale, conflicting, not found)
are guards: the operation is not entered. The recovery mark and the counter are
written without the mutex, as in the code, the counter in two steps.

What `nvs_commit` promises is a constant, `Transactional`: the header's comments
assume that nothing is visible before it, ESP-IDF's NVS writes each entry when it
is set. Both are checked.

`WifiSlots` has three variables and four actions. `Slots` in `AppStorage` is the
refinement mapping: a slot is what its load function would return.

### 2.3 UpstreamWifi

Every access to a variable shared between tasks, to the driver or to the storage is
an action. `wifi_gateway_connect_sta` on behalf of main is `Configure`, `Arm`,
`Disconnect`, `Disarm`, `Connect`, `Connecting`; the promotion is `CheckStatus`,
`CheckMqtt`, `StorePromotion` or `PromotionRefused`; `start_candidate_wifi_attempt`
adds `LoadCandidate` and `ReadGeneration`; the ways out are `Retain` (the form
opens), `ClearCurrent` and `RestartCleared`. `wifi_event_handler` is one action per
event, because it runs to its end in one task, but its driver call and status are
visible to main only through shared variables and main's steps are small.

* An event carries the credentials of the link it is about; the code does not know
  them, the properties do.
* `driver.config` is what `esp_wifi_set_config` was given, `driver.link` what the
  interface last connected with.
* `Errs` lets a driver or storage call fail, at every call that can.
* Told to disconnect, an idle interface answers ESP_ERR_WIFI_NOT_CONNECT or another
  error (3.3).
* `mqtt.over`, `mqtt.counted` and `mqtt.sent` are about the world outside: over
  which link the TCP connection was made, and what the backend has sent.

### 2.4 BlockRules, TlsSniParser and AccessFilter

The hook runs packet by packet on the lwIP thread; an installation may come between
two reads of shared state, so the hook is cut there: `Receive` (destination and
client), then the number of hostname rules (`Uninspected`, or one of the `Inspect`
actions of `inspect_tls_tcp_segment`), then, for data that goes on where the flow stands
(`InspectData`), the loop of `feed_tls_stream`, turn by turn: `FeedChunk` gives the parser
a chunk and judges the hello if it is whole, `FeedEnd` settles the flow. Rules may be
installed between two turns. The flow table belongs to the thread. `ReceiveExempt` is a packet that
the hook lets through at once: one to the gateway itself, a broadcast, a multicast, one to
the external Portal, or one with a header that lwIP refuses later.

* A stream is a sequence of units: 22 opens a record and is followed by its length, 1
  opens a hello and is followed by its length, then come units of content; a host
  name, ECH and a malformed extension are one unit each. `MaxHello`, `StreamLimit` and
  `ChunkSize` keep the code's order. Segments are windows of the stream, of any
  bounds in `Cuts`, so they are lost, late, repeated and overlapping as they please.
* A connection keeps one ISN, a SYN carries no data, and the last unit of a hello does
  not look like the head of a record.
* Sequence numbers are positions modulo `SeqNumMod`; `Signed` is the cast to
  int32_t, `clock % ClockMod` is `sys_now`. The hook reads the clock once, so time
  passes between packets only.
* The address that a command blocks and the client table's refusal are one
  disjunct of `Receive`; headers that are too short and checksums that do not match are
  kinds of packet that are dropped. Which free slot a flow gets makes no difference.
* A hostname is a sequence of labels, a spelling what lies between its dots.
  `Normal` is `normalize_hostname`: a dot at the end goes, each label must be
  well-formed and becomes lower case. The suffix comparison of the code, byte by byte
  with a dot before it, is `IsSuffix` on labels.
* `opened`, `delivered` and `heard` are history.

### 2.5 MqttIngress, CommandParser, PortalDns and TrafficRules

One action per MQTT event: `DeliverFirst`, `DeliverNext` (`handle_mqtt_data` to its end)
and `LoseRest`. The library, external, hands over one message at a time, its fragments in
order and of any lengths; the connection may be lost in the middle of one, and a message
may come again at any time. A complete command is `handling` until one of the `Execute`
actions, the branches of `handle_mqtt_command`, returns. The rule tables and the DNS task
go on meanwhile.

* A payload is a sequence of fields, each written in one of five forms: the string
  search of the parser finds `"key":"` only without a space, `strtoll` skips spaces,
  and STAGE_WIFI_CONFIG is read by a JSON parser.
* Commands of other components are answered either way (`ExecuteElsewhere`); their
  effects are in `ClientAccess` and `UpstreamWifi`. A publication that fails is only
  logged.
* `PortalDns` reads the client's standing when a query comes in (`DnsReceive`), the
  rules when it builds the answer (`DnsBuild`), and waits upstream (`DnsResolve`).
  `DnsEnd` is the error of `recvfrom` that ends the task for good.
* `Restart` may come at any time and clears RAM.
* `succeeded` and the number of rules kept with a query are history. `succeeded` holds what
  the backend asked for (`Asked`) in the commands that were answered with success, whichever
  form its strings were written in, and apart from that the hostnames among it that the
  parser's search overlooks.

## 3. Runs

| run | module, cfg | properties | shows |
|---|---|---|---|
| `client_expiry` | `ClientExpiry` | `SessionMatchesState`, `NeverForwardExpired`, `AuthorizationLossAccounted`, `ExpiredEventuallyDemoted` | grants, packets, commands and sweeps across a wrap-around of the counter, while the uplink comes and goes |
| `client_tracking` | `ClientTracking` | `TypeOK`, `NoDuplicateMac`, `NoClientMissed`, `PhantomOnlyFromBoot`, `AddressesSettle`, `TurnedAwayByPhantoms` | stations coming and going, through a full table too, while start-up lists them and the portal recovers addresses: who is missed, who stays, who is turned away |
| `client_reports` | `ClientReports` | `ReportsAccounted`, `SessionEndReported`, `ReportLostOnlyAtLimits`, `ReportsDrain` | reports through a full queue and a failing publisher |
| `storage_atomic` | `StorageAtomic` | `TypeOK`, `SlotsWhole`, `ImplementsSlots` | with atomic commits the keys implement `WifiSlots` |
| `storage_write_through` | `StorageWriteThrough` | `AcceptedSurvives`, `NoVersionRollback` | what holds even if every write is durable at once |
| `upstream_link` | `UpstreamLink` | `TypeOK`, `ExpectedDisconnection`, `StatusFollowsLink`, `ClearsRefusedOnly`, `PromotesConnectedOnly`, `RecoveryHandled` | which credentials are tried, counted, cleared, promoted; a gateway that has given up is taken care of |
| `access_filter` | `AccessFilter` | `TypeOK`, `SegmentationInvisible`, `BlockedHelloIncomplete`, `PermittedNotBlocked`, `ExpiryExact`, `RefusedOnlyWhenFull` | what becomes of a client's HTTPS connections, one with its host name hidden, however they are cut, and of the flow table, with rules installed between packets and between the chunks of one |
| `traffic_rules` | `TrafficRules` | `TypeOK`, `RulesAsReported`, `HandledExactly`, `FailsForCause`, `ResolvedOnlyIfPermitted`, `RefusedOnlyIfBlocked` | a BLOCK_TRAFFIC from its fragments to its result, the tables and the DNS |
| `client_sweep_race` | `ClientSweepRace` | `SweepDemotesExpiredOnly` | finding 1 |
| `upstream_consecutive` | `UpstreamConsecutive` | `ClearsAfterConsecutive` | finding 2 |
| `upstream_reconnect` | `UpstreamReconnect` | `PromotesAfterReconnect` | finding 3 |
| `storage_torn` | `StorageTorn` | `PromotionAtomic` | finding 4 |

A run is started with `tlc -workers 2 -config ClientExpiry.cfg MCClientAccess`.
The last four end in a counterexample; the others finish without an error.

### 3.1 Bounds

| constant | values | why that is enough |
|---|---|---|
| `Clients`, `MaxConn`, `Stations` | 1 or 2 slots and clients; in `client_tracking` 3 clients, 2 slots and 1 station at a time | two clients compete for a slot and for an address; one is enough for the life of a grant. The table is as large as the driver's limit, as in the code, or larger; with two clients left from start-up a third finds it full. The theorems of section 5 are for any number. |
| `TickMod`, `MaxClock`, `Ttls` | 3, 3, 2 in `client_expiry`; 3, 4, 2 in `client_sweep_race` | the counter wraps before a grant made at tick 1 expires, and the lifetime is the longest below the period |
| `UplinkMayDrop` | TRUE in `client_expiry`, else FALSE | sweeps are skipped while grants run out; in the other runs nothing depends on the uplink but the start of MQTT |
| `MaxEvents` | 1 to 3 | one event being handled and one or two behind it (a station leaves, comes back and gets an address); a post waits while the queue is full |
| `MaxRemovals` | 1 to 3 | in `client_reports` three reports meet a queue of one and a publisher of three attempts, so the queue overflows |
| `Attempts` | 1 to 3 | 3 is the code's number, in `client_reports` |
| `Versions`, `Requests` (storage) | 3 and 2 | older, equal and newer versions, with the same and with another request |
| `MaxFailures`, `MaxRestarts` | 2 | an operation interrupted while it repairs an interrupted one |
| `RetryLimit` | 1 | stands for 255: the counter reaches its limit |
| `Backend` | two configurations for two networks | a newer configuration replaces one being verified, and each network has one |
| `FailureLimit` | 3 | the code's number |
| `MaxGeneration` | 1, 2, 3 | finding 3 needs three connections; one is enough to stage and to recover |
| `MaxErrors` | 1 (0 in the counterexamples) | a call fails at any point of the behaviour, once; two failures in one behaviour are not explored |
| `Conns`, `FlowCapacity` | 2 connections, 1 slot | two connections compete for the table; the theorems are for any number |
| `Streams`, `Cuts` | a hello of two records and data after it, cut at 5 places; a hello of one record that hides its name (ECH beside a shown name), uncut | cuts inside a record's head, between records and after the hello; a shown name must not stand for the hidden one. A malformed hello differs from a hidden one in nothing but the unit; the theorem is for all three |
| `SeqNumMod`, `ISN` | 16; 13 and 3 | one stream crosses the wrap-around, the other does not; streams are shorter than half of it, as in TCP |
| `ClockMod`, `BootClock`, `MaxClock` | 8, 6, 8 | the clock wraps while flows are in the table |
| `InspectTimeout`, `DecisionTimeout` | 1, 2 | different, as in the code (15 and 120 seconds) |
| `ChunkSize`, `StreamLimit`, `MaxHello` | 2, 7, 4 | a segment takes several turns of the loop, the limit is met by the longer stream |
| `IpCapacity`, `HostCapacity` | 2, with three addresses and hostnames | full, and full in one table only |
| `Messages`, `PayloadSize` | 15 messages of up to four fields | each way of failing, each branch of the handler, and a command with strings in both forms |

Symmetry (clients and addresses; networks and requests) is used in safety runs only.
Deadlock is checked everywhere but in `access_filter`, where the bound of the clock
lets a behaviour end.

### 3.2 Fairness

`FairSpec` of `ClientAccess`: weak fairness of the event task, the main task and the
publisher, since FreeRTOS runs every task that is ready and none of these waits for
ever: the delays of main are finite, the publisher's retries are bounded. Of the
uplink it is assumed that it comes up once. A pass in which `app_mqtt_start` fails changes
nothing in this module, so it is a stutter of `BeginPass`; that the action is fair means that
MQTT starts in some pass. Nothing is assumed of stations, of commands or of packets, so a
client may stay silent. `ExpiredEventuallyDemoted` has a hypothesis of its own, that
the uplink, after coming and going, stays up in the end (`<>[]uplink`).

`FairSpec` of `UpstreamWifi`: weak fairness of the event task and of the main task.
Nothing is assumed of the driver: a link may never come up.

### 3.3 Assumptions

* No grant stays AUTHORIZED for a whole period of the tick counter (2^32 ticks;
  the longest lifetime is a day). `Advance` has the guard. When the uplink is lost
  for that long (finding 5) the code would take an expired grant for a fresh one.
* `pdMS_TO_TICKS` gives the exact number of ticks of a lifetime (`Authorized`). Where
  FreeRTOS multiplies in 32 bits, a lifetime beyond 42949 seconds would wrap at 100 Hz;
  which it is depends on the FreeRTOS of the build, outside this repository.
* `esp_wifi_disconnect` on an idle interface does not answer ESP_OK without posting an
  event: the flag that main has set would wait for an event that never comes.
* Main sleeps for at least a second between passes, and the event loop has handled
  by then what was posted before (`NextPass` waits for an empty `events`).
* The backend does not use a pair of request and version for two configurations,
  and does not go back to a version older than one it has sent. A reused version
  is refused by the storage anyway, but only while the storage remembers it.
* MQTT_EVENT_CONNECTED is handled while the link of the connection is up. That
  MQTT_EVENT_DISCONNECTED may be handled any time later is part of the model.
* An operation of the storage either succeeds or changes nothing, in `UpstreamWifi`
  alone: that is what `AppStorage` establishes under atomic commits.
* No flow is left in the table for a whole period of the millisecond clock (2^32 ms, 49
  days) without a packet to port 443 from any client: `MaxClock - BootClock < ClockMod`.
* The MQTT library delivers the fragments of one message in order and not interleaved
  with another's (it reads them from one TCP stream).
* A server reads the hello at the head of the stream, and the name in it, as the parser
  does: `Hello` gives both.

Eight theorems of section 5 have a hypothesis of this kind, a formula over the constants
that the MC module evaluates (an `ASSUME`), so that it is known to hold of the instance:

* `OneConfigurationPerVersion` (`UpstreamWifi`): a version names one
  configuration (the third assumption above, for the version alone); the storage
  refuses a reused version only while it holds the first.
* `OneFieldPerKey` (`TrafficRules`): a message names no field twice. Of two the parser
  takes the first, whichever the backend meant.
* `StreamsShort` (`AccessFilter`): positions of a stream are less than half the sequence
  numbers apart, so that the cast to int32_t orders them, as TCP requires of a window.
* `ParserGoesOn` (`AccessFilter`): the parser alone, given a part of a stream and then the
  next, ends as if given both at once; nothing is said of flows, packets or the loop.
* `ParserReadsHello` (`AccessFilter`): the parser alone finds the name of `Hello` when it
  has the whole hello and not before, and application data, met later in a stream, does
  not pass for a hello with a name.

## 4. What the runs say

**Clients.** Whichever tasks interleave, no client takes two slots, no unauthorized
slot keeps a session, and a packet never passes on a grant that has run out, because
`can_forward` decides under the lock with a tick counter read there.
`AuthorizationLossAccounted` lists every way in which a grant may end; the last
alternative is finding 1. `NoClientMissed` depends on the order of `client_access_start`
(handlers first, list afterwards) and fails for the other order; its exception is a
station that found the table full when it connected. `PhantomOnlyFromBoot` and
`AddressesSettle` name the exceptions that the code admits: a station that left around
the listing stays in the table until it returns, and start-up and the ARP recovery may
write an address that has meanwhile changed hands: those two races are what
`AddressesSettle` excludes (`overwritten`), so it does not catch them; it is about the
reconnections and the order of events. A silent client's grant is ended
by the sweep, once the uplink stays up (finding 5). The stations left behind are what
`TurnedAwayByPhantoms` is about: the table has a slot for each station that the driver
admits, so a station is turned away only if more leftovers than spare slots hold them.

**Reports.** Each report is at every moment in exactly one place and they keep their
order. It is lost only when the queue has a report for every slot, or when three
attempts have failed.

**Storage.** With atomic commits `AppStorage` implements `WifiSlots` through failing
calls and restarts, and its slots are whole (`SlotsWhole`). Without them slots may be torn,
half an identity may remain, and an interrupted first staging blocks the later ones; yet an accepted configuration
can still be read in one place or the other, because `promote` erases the candidate
only after the current slot and its identity are written; and the version in use
never decreases.

**Upstream.** The flag for the expected disconnection never outlives it. The status
is that of the link except while main's late assignment or an event of the old link
masks it (`overtaken`), and then the next event puts it right; the property
excludes these two races and says nothing of them. The credentials in
use are cleared only after the upstream refused those very credentials three times.
What is promoted is what the driver connected with, even if a newer candidate
arrived during the verification. If the gateway gives up, main tries the candidate,
clears and restarts, or opens the form, whichever call fails on the way.

**Packet filter.** However a stream is cut, resent and overlapped, the parser is where the
whole stream would have brought it, so the judgement does not depend on the
segments (`SegmentationInvisible`). While there are hostname rules no hello with a
blocked, hidden or malformed name reaches its server whole, by TCP, QUIC or fragments (the
run has a blocked and a hidden one);
the exception, named in the property, is a connection that the filter meets in the middle
and has not judged yet. A permitted connection is stopped only after a gap, an idle
spell, an early FIN or for want of a slot, and a slot is wanting only when all are held
by live flows. A SYN never inherits a judgement.

**Commands and rules.** A command is handled exactly when a message arrived whole and
fits the buffer, and it is that message. The tables hold the rules of the commands that
were answered with success, both halves of each, except a hostname that the parser
overlooked (finding 9), and nothing else; a command sent again is answered as
the first time; a failure of a command that is written as the
parser reads it has its cause in what it names or in a full table. The DNS
resolves no name upstream that a rule covered when the query came, refuses none without a
rule, and never the external Portal's. A rule may be installed between the judgement
of a name and the answer, and a connection already judged is not judged again, although
`README.md:203` can be read to promise it; the properties speak of the rules at
the time of the judgement.

### 4.1 Findings

The first four are runs that end in a counterexample; the others are read off the code
that the named definitions translate.


1. *Code.* The sweep reads the tick counter before its critical section
   (`client_access.c:806`). An ALLOW between the two makes the unsigned difference
   huge, and the fresh grant is demoted.
2. *Code.* "Three consecutive credential failures" (`wifi_gateway.c:10`) are counted
   without looking at the failures of the other kind between them.
3. *Code.* The MQTT generation that is to prove a reconnection over the candidate's
   link is read before the old link is given up (`main.c:336`), so that a
   reconnection over the old one counts.
4. *Code and documentation differ.* "A single commit completes the promotion
   atomically" (`app_storage.h:67`) is not what ESP-IDF's NVS does.
5. *Code and documentation differ.* The README promises a sweep every ten seconds
   (`README.md:28`); it runs only in passes that find STA_GOT_IP (`main.c:901`, the guard
   of `BeginPass`). `ExpiredEventuallyDemoted` has an uplink that stays up in
   the end as its hypothesis; without it a silent client's grant stays.
6. *Code and documentation differ.* "TCP/443 is allowed or blocked by its SNI"
   (`README.md:209`). A flow judged ALLOW is forgotten after two idle minutes
   (`access_filter.c:499`, `Expired`); the next data of the connection looks like the
   beginning of a stream (`WithFlow`), is no ClientHello, and the connection is blocked.
7. *Code and documentation differ.* The sample of BLOCK_TRAFFIC (`README.md:194`) has a
   space after each colon; the string search (`app_command.c:107`, `ReadString`) does not
   find such fields; with its `dstIp` written so, the command is refused.
8. *Code.* The reason of a KICK, "optional" (`app_command.c:476`), is read into the buffer of
   a MAC address; one of 18 characters or more fails the KICK (`ArgumentsOk`).
9. *Code.* "When `sni` is configured, that hostname and its subdomains are blocked too"
   (`README.md:207`, of a BLOCK_TRAFFIC that succeeds). A `sni` with a space before its value,
   beside a `dstIp` without one, is not found (`app_command.c:107`) and taken for absent
   (`app_command.c:505`): the address alone is blocked and the result is success.
   `RulesAsReported` names such hostnames (`overlooked`) as its exception; `traffic_rules` has
   a command of this kind, and without the exception the invariant is violated.

## 5. Proofs

Each theorem holds for every value of the constants that satisfies the assumption of
its module: any sets of clients, addresses, networks, requests and versions, any table
size and counter period, any number of failing calls and restarts, any messages and
fragments, connections and streams, capacities, timeouts and clock widths. Where the
table shows a hypothesis before the arrow, the theorem is for the constants that satisfy
it too (3.3). With the three liveness properties set aside, every property of the
passing runs is stated by a theorem.

| theorem | statement |
|---|---|
| `ClientAccess_proofs!Invariance` | `Spec => [](IInv /\ PortalNames)` |
| `ClientAccess_proofs!TypeCorrect` | `Spec => []TypeOK` |
| `ClientAccess_proofs!OneSlotPerClient` | `Spec => []NoDuplicateMac` |
| `ClientAccess_proofs!GrantsCarrySessions` | `Spec => []SessionMatchesState` |
| `ClientGrants_proofs!NoExpiredForward` | `Spec => []NeverForwardExpired` |
| `ClientGrants_proofs!EndsReported` | `Spec => SessionEndReported` |
| `ClientGrants_proofs!LostOnlyAtLimits` | `Spec => ReportLostOnlyAtLimits` |
| `ClientGrants_proofs!ReportsNeverAstray` | `Spec => []ReportsAccounted` |
| `ClientEvents_proofs!NobodyIsMissed` | `Spec => []NoClientMissed` |
| `ClientEvents_proofs!NobodyStays` | `Spec => []PhantomOnlyFromBoot` |
| `ClientEvents_proofs!AddressesDoSettle` | `Spec => []AddressesSettle` |
| `ClientEvents_proofs!OnlyPhantomsTurnAway` | `Spec => TurnedAwayByPhantoms` |
| `ClientEvents_proofs!GrantsEndForAReason` | `Spec => AuthorizationLossAccounted` |
| `UpstreamWifi_proofs!Invariance` | `Spec => []IInv` |
| `UpstreamWifi_proofs!TypeCorrect` | `Spec => []TypeOK` |
| `UpstreamWifi_proofs!FlagIsExpected` | `Spec => []ExpectedDisconnection` |
| `UpstreamWifi_proofs!StatusIsTheLinks` | `Spec => []StatusFollowsLink` |
| `UpstreamWifi_proofs!PromotesItsLink` | `OneConfigurationPerVersion => (Spec => PromotesConnectedOnly)` |
| `UpstreamWifi_proofs!ClearsTheRefused` | `OneConfigurationPerVersion => (Spec => ClearsRefusedOnly)` |
| `AppStorage_proofs!WholeSlots` | `Transactional => (Spec => []SlotsWhole)` |
| `AppStorage_proofs!Refinement` | `Transactional => (Spec => ImplementsSlots)` |
| `AppStorageDurability_proofs!Durable` | `Spec => []DInv` |
| `AppStorageDurability_proofs!AcceptedNeverLost` | `Spec => []AcceptedSurvives` |
| `AppStorageDurability_proofs!VersionsAdvance` | `Spec => NoVersionRollback` |
| `AppStorageDurability_proofs!StorageTypes` | `Spec => []TypeOK` |
| `AccessFilter_proofs!Invariance` | `Spec => []IInv` |
| `AccessFilter_proofs!OneFlow` | `Spec => []OneFlowPerConnection` |
| `AccessFilter_proofs!Expires` | `Spec => ExpiryExact` |
| `AccessFilter_proofs!Refuses` | `Spec => RefusedOnlyWhenFull` |
| `AccessFilter_proofs!TypesHold` | `Spec => []TypeOK` |
| `AccessFilter_proofs!CutsDoNotMatter` | `ParserGoesOn /\ StreamsShort => (Spec => []SegmentationInvisible)` |
| `AccessFilter_proofs!BlockedNeverWhole` | `ParserGoesOn /\ StreamsShort /\ ParserReadsHello => (Spec => BlockedHelloIncomplete)` |
| `AccessFilter_proofs!PermittedGoesThrough` | `ParserGoesOn /\ StreamsShort /\ ParserReadsHello => (Spec => PermittedNotBlocked)` |
| `TrafficRules_proofs!Invariance` | `Spec => []IInv` |
| `TrafficRules_proofs!CommandsWhole` | `Spec => HandledExactly` |
| `TrafficRules_proofs!RulesStay` | `Spec => RulesOnlyGrow` |
| `TrafficRules_proofs!BlockedNotResolved` | `Spec => ResolvedOnlyIfPermitted` |
| `TrafficRules_proofs!PortalNotRefused` | `Spec => RefusedOnlyIfBlocked` |
| `TrafficRules_proofs!TypesHold` | `OneFieldPerKey => (Spec => []TypeOK)` |
| `TrafficRules_proofs!RulesAreReported` | `OneFieldPerKey => (Spec => [](ReportInv /\ RulesAsReported))` |
| `TrafficRules_proofs!FailuresHaveCause` | `OneFieldPerKey => (Spec => FailsForCause)` |

`tlapm ClientAccess_proofs.tla` checks the first four, and so on.

### 5.1 The client table

The inductive invariant is `IInv /\ PortalNames`. `IInv` is `TypeOK`,
`NoDuplicateMac`, `SessionMatchesState` and `ListLeft`. The last says that the
station list is not empty while main tracks the stations of it: start-up takes
`Head` and `Tail` of the list, which have no type if it is empty, so `TypeOK` is
not inductive without it. `PortalNames` says that the HTTP task holds a client when
it is about to record an address.

There is one lemma per group of actions. `Split` separates the table (`TableOK`) from
the other variables (`Rest`), since most actions change one of the two. `SlotUpdate`
covers every writer of a single slot: the new entry is for the same client, for none,
or for a client that has no slot, and it is consistent. That a new client has no slot
is what `FirstOfSlots` and the choice in `TrackConnected` give; it is why the search
and the assignment must be one critical section. Every way out of AUTHORIZED goes
through `Demoted`, `TrackedEntry` or `FreeEntry`, which clear the session and the
lifetime with the state (`EntryTypes`).

`ClientGrants_proofs` adds what grants and reports need. `GrantStep` sorts the steps of all
tasks: only `Allow` makes a grant, only `Advance` ages one, only `HandleDisconnected` takes
a granted client from its slot, and the restart at start-up meets none (`Booting`: until
main starts MQTT nobody is granted anything). So `Aged`, that the age of a grant is below
the counter's period, is inductive, and `ModDifference` shows that the wrapped difference
of ticks which the code compares with the lifetime is that age. It rests on the
assumption in `Advance` that no grant stays authorized for a whole period (the longest
lifetime is a day, the period of the counter at least 49 days; the sweep or the first
packet ends it). For the reports, `Ordered` and `Accounted` say of the publisher, the
queue and the event task what `ReportsAccounted` says of their concatenation, and
`InFlightParts` relates the two. `NoReportAssumption` (None is no report) is the only
further assumption; the runs evaluate it.

`ClientEvents_proofs` is about what the table was told and when. The event queue is the
difference between what the driver knows and what the table was told, and a *chronicle*
spells it out: the stations present and their leases after each waiting event, from the
world that the handled events describe (`P[0]`) to the driver's own. `Posted` extends it
at the end, `Taken` drops its beginning, and `Arrival`, `Departure` and `LeaseKept` read
off it that a station absent at first and present at last has its connection waiting,
and so on. `EInv` has four parts:

* `Chronicled`: the tracked clients are in the first world of the chronicle, or left from
  start-up. This is `PhantomOnlyFromBoot`, whose own statement (about the next event
  to be handled) is not inductive: it says nothing of the event after that.
* `StartBooks`: all handlers are registered before the list is read, so that nothing is
  discarded afterwards, and what is listed was noted.
* `NobodyMissed` and `Settled`: the two other properties as sets. For the address the
  argument is `LeaseKept`: with no event of the station waiting, its lease is the one
  that the table was last told.

`OnlyPhantomsTurnAway` counts. A full table tracks `MaxConn` clients (`FullTable`);
those that are no leftovers are in the first world, which the station just
handled joins, and a world has at most `Stations` members (`MembersOutside`).
`GrantsEndForAReason` adds `SweepBehind`, that the sweep's reading of the tick counter is
not in the future; a sweep that demotes a grant made before the reading has therefore seen
its lifetime pass (`SweepAge`), and the rest is finding 1.

### 5.2 The storage with atomic commits

`HolderOK` says that the decision of the operation that holds the mutex still stands
for what NVS holds: a staging configuration is still the newest, the candidate being
promoted is still the one that was read. Only the recovery mark and counter are
written meanwhile, and no slot depends on them (`SlotFrame`). So every step but
`Commit` maps to a stutter, and `CommitMaps` shows for each kind of operation that the
commit is the abstract action. `SlotsWhole` is part of the invariant because an
operation takes what it reads as whole slots.

### 5.3 The storage without them

Nothing is assumed of `Transactional` here. `DInv` counts the calls of the holder that
have taken effect (`Done`) and states what NVS holds after them: a promotion that has
made at most four calls still has its candidate whole, and from the fourth on the
current slot and its identity are written. `PromoteWriteOK` is the proof that one of
the two always holds; it fails for any order that erases before the fourth write.
`VersionOrder` (a waiting version is not older than the one in use, whatever was
interrupted) is needed for `NoVersionRollback`, and `AcceptedIsCandidate` (a candidate
that can be read while an accepted configuration waits is that configuration) for the
beginning of a promotion.

### 5.4 The flow table

`IInv` is `TableOK` (each slot is free or a flow with a connection and a time not
later than the clock), `Unique` (a connection has one flow) and `LwipInv` (the packet is a
window of its stream, and while it is being fed its slot holds the flow of its
connection). Each inspection first replaces the table by `Unexpired`, and the lemmas
follow the operators that the actions are made of: what `Cleared`, `Created`, `Touched` and
`Settled` leave in a table that is `TableOK` and `Unique`. `Unique` survives `Created`
because it is only reached after `SlotsOf` was found empty (a SYN clears the old flow
first). The heart of `Expires` is that `(clock - last_seen) % ClockMod` is the age itself,
which needs `TableOK` and the assumption on the clock; the rest is that nothing but
`Unexpired` and a flag of the flow's own packet frees a slot. `Refuses` needs in addition
that a free slot is only missing when every slot survived `Unexpired`.

The three deeper theorems each add one invariant to the one before.

* `SInv`, what a flow has read. Each flow has an *anchor*, a position `a` of its stream,
  0 if it saw the SYN: its parser is where the stream from `a` to `a + inspected` brings
  it, and, while it is undecided, it waits for the sequence number of `a + inspected`
  (`Anchored`; `BeingFed` within the loop). A segment starts at a position whose
  sequence number is compared with that one modulo `SeqNumMod`. `SeqDistance`,
  `SeqOrder` and `SamePlace` show that the wrapped comparison orders the positions and
  the wrapped difference is their distance; `SeqOnward` moves the anchor's end forward.
  They rest on `Division` and `Remainder`, stated by quotient and rest, because the
  solver knows little of `%`.
* `DInv`, what the server has received. An undecided flow that began at the first
  position has let through all that it has read and, if it saw the SYN, nothing else; one
  that was allowed, everything. In the loop, a flow that became ALLOW has read the whole
  hello and its name is permitted by the rules that this packet met (`FeedingOK`), so the
  packet that completes a hello either meets that judgement or belongs to the exception
  of `BlockedHelloIncomplete`.
* `HInv`, what the filter has heard. A connection whose segments the filter has been given
  from the SYN on, in order and in time, has a flow that has read exactly what was heard,
  or was judged ALLOW after the whole hello (`HeardBefore`, `HeardNow`). So when a
  packet is dropped, one of the causes in `StopsForCause` is there. `LateIsExpired` ties the
  history's idle spell to the table's expiry, and `RulesForbid` shows that a rule installed
  in the middle can only take a name out of those permitted.

The parser is a fold over the units it is given (`FoldLeft`), which the provers cannot
unfold; that it goes on where it stood is induction over data. This is
why `ParserGoesOn` and `ParserReadsHello` are hypotheses. They are about the parser
alone: everything that the filter adds to it (segments, gaps, overlaps, chunks, budget,
expiry, wrap-around, rules that come between) is in the proofs.

### 5.5 Commands, rules and DNS

`IngressInv` says that the buffer, when it expects anything and the message is not
complete, has the topic and the first `at` cells of the message in delivery; so the command
that comes out is that message, and a buffer left over from a lost one is dropped
by the first fragment of the next. `TablesInv` has the types of the tables; with it,
`RuleStep` shows that every step is `RulesGrow` or a restart. `DnsInv` says what was true
when the task started to wait: the client was authorized and the first `rules` entries
spoke against nothing. It is stable because those entries stay as they were
(`OpenBefore`): this is why the tables may be read without a lock beyond the count.

`RulesAsReported` needs to know which command a result answers. `CommandInv` says that the
command being handled is the message in delivery and has no result yet (a KICK has one
before it ends), and `Understood` that the parser's text searches find, in a message with
one field per key, the field the backend wrote, or none. None is refused for an address;
for a hostname it is either what was meant or what was overlooked (finding 9). `ReportInv` then says of each table what the property says, and
that it has no entry twice (`Distinct`): installing one that is there changes nothing,
and installing a new one needs room in its table and, for the pair, in the other
(`BlockReported`: both or neither). `FailureStep` reads the causes of a failure off the
same cases.

### 5.6 The upstream Wi-Fi

`IInv` has the types by owner of the state (driver and events, gateway, main, MQTT, form,
history) and `Configured`: a task can make the driver connect only where the driver
has credentials, since `wifi_event_handler` does so on an event of an earlier link and
main after `configure_sta_credentials`. Without it the credentials of a posted event have
no type. `FlagSteps` sorts the steps by what they do to `s_sta_reconfigure_pending`: only
`Arm` sets it, main does not leave `wifi_gateway_connect_sta` before it has disconnected
(which posts an event) or cleared the flag, on the error paths too, and `DownStays` shows that
a failure that waits keeps its place in the queue until a handler that clears the flag
takes it.

`LastEvent` says that the last waiting event tells the state of the driver, which
changes without an event only when it is told to connect; when the queue is empty and main
is not between a driver call and its own assignment, the status is therefore the
driver's (`Agreement`), unless `overtaken` says that the two writers crossed.

`PromotesItsLink` has to exclude that the storage promotes, under the identity that main
remembers, a candidate of which the driver has no link. `LinkInv` holds three facts
about it. The backend's versions only grow, so a candidate that was overtaken never
returns to the slot (`Candidates`, `StaysOutdated`). Main gives the driver new credentials
only for the first candidate, or when the one it tried was overtaken (`Attempt`). And a
driver that has no link yet with what it was given last is idle, with no status
that main would take for a connection (`Links`, `Waiting`), even while events of the old link
wait.

`ClearsTheRefused` follows the counter. It is shared by all links, so what it counted may
be another's. While main tries no candidate (`Calm`), all waiting events are of the
link there is and a failure can only be the last of them (`CalmQueue`), because nothing
reconnects but the handler of that failure. With it, the failures counted are
refusals of that link (`Owned`). The count changes hands only at a promotion, and before
one the candidate's own connection has reset it (`Addresses`). Both theorems need
`OneConfigurationPerVersion`: were a version used for two configurations, the identity
would not tell which was tried.

### 5.7 Only model-checked

* Liveness: `ExpiredEventuallyDemoted`, `ReportsDrain`, `RecoveryHandled`. Fairness
  is stated with ENABLED, which is out of the proof system's reach.
* The hypotheses of 3.3, which TLC evaluates for the streams, messages and
  configurations of the runs. `ParserGoesOn` and `ParserReadsHello` are facts about a fold
  and would need induction over data.
* The four properties of the findings, which the code violates.

## 6. What is not modelled

* `access_filter_start` and `portal_dns_start` with the DHCP options: they run once, before
  there is a client, and end in `ESP_ERROR_CHECK`.
* The arithmetic of checksums, and header fields beyond those named.
* `parse_client_hello` byte by byte: lengths and characters that it refuses are one unit
  (`Malformed`), in any place.
* The SoftAP side of `wifi_gateway` (bringing it up, NAPT, its client counter), the
  reports of `device_status`, the signal documents of `main`: they read state and
  decide nothing.
* The HTTP pages and form decoding: input and output. The limits that `app_command`
  enforces (positive session, lifetime of 1 to 86400 seconds, version of 1 to
  2^32 - 1) are in `CommandParser` and are the input sets of the other models.
* Allocation failures at start-up, all of which end in `ESP_ERROR_CHECK`.

## 7. Plan

In order of weight.

1. `ClientAccess`: tracking, grants, reports; its type invariant and first safety
   invariants proved.
2. `WifiSlots`, `AppStorage`: refinement, failing calls, restarts.
3. `UpstreamWifi`: attempts, counters, promotion, recovery.
4. The first theorems: the client table's invariant; `AppStorage` refines `WifiSlots`,
   and what survives when commits are not atomic.
5. `AccessFilter` with its parser and rules.
6. `MqttIngress`, `CommandParser`, `PortalDns`, composed in `TrafficRules`.
7. Theorems about both, about grants and reports, and about the upstream Wi-Fi.
8. Theorems about events and addresses of clients, the ends of grants, status,
   promotion and clearing, reported rules, and what passes the packet filter.
9. Left: an account of the parser that the provers can use (its state after each unit of
   a well-formed hello, as an invariant in place of the fold), which would replace the
   two parser hypotheses for a class of streams.
