--------------------------- MODULE ClientGrants_proofs ---------------------------
(***************************************************************************)
(* What becomes of grants and of reports, for every set of clients and     *)
(* sessions, every table size and every period of the tick counter: no     *)
(* packet passes on a grant that ran out, the end of a session is          *)
(* reported, and every report is in one place until it is out.             *)
(*                                                                         *)
(* Only Allow makes a grant and only Advance ages one (GrantStep), so the  *)
(* age of a grant is below the counter's period, and the wrapped           *)
(* difference of ticks is that age.                                        *)
(***************************************************************************)
EXTENDS ClientAccess_proofs

Granted(e) == e.state = "AUTHORIZED"

\* The table after a step that makes no grant; and one that moves no granted client.
MakesNone == \A i \in Slots : Granted(clients'[i]) =>
               Granted(clients[i]) /\ clients'[i].authorized_at = clients[i].authorized_at
KeepsMacs == \A i \in Slots : Granted(clients[i]) => clients'[i].mac = clients[i].mac

-----------------------------------------------------------------------------
(* The writers of the table. *)

LEMMA TableSame == UNCHANGED clients => MakesNone /\ KeepsMacs
BY DEF MakesNone, KeepsMacs

\* One slot is written with an entry that is no grant.
LEMMA SlotWritten ==
  ASSUME TableOK, NEW j \in Slots, NEW e, clients' = [clients EXCEPT ![j] = e], ~Granted(e)
  PROVE  MakesNone /\ ((Granted(clients[j]) => e.mac = clients[j].mac) => KeepsMacs)
<1>1. \A i \in Slots : clients'[i] = IF i = j THEN e ELSE clients[i]
  BY DEF TableOK
<1> QED BY <1>1 DEF MakesNone, KeepsMacs

LEMMA TrackConnectedGrants ==
  ASSUME TableOK, NEW m \in Clients, TrackConnected(m)
  PROVE  MakesNone /\ KeepsMacs
<1> DEFINE at == PlacesFor(m)
           j  == FirstOf(at)
<1>1. CASE at = {}
  BY <1>1, TableSame DEF TrackConnected
<1>2. CASE at # {}
  <2>1. j \in at /\ at \subseteq Slots
    BY <1>2, FirstOfSlots DEF SlotsOf, PlacesFor
  <2>2. clients' = [clients EXCEPT ![j] = TrackedEntry(m)]
    BY <1>2 DEF TrackConnected
  <2>3. clients[j].mac = m \/ clients[j].mac = None
    BY <2>1 DEF SlotsOf, PlacesFor
  <2>4. Granted(clients[j]) => clients[j].mac # None
    BY <2>1 DEF Granted, TableOK, SessionMatchesState, EntryConsistent
  <2>5. ~Granted(TrackedEntry(m)) /\ TrackedEntry(m).mac = m
    BY DEF Granted, TrackedEntry, FreeEntry
  <2> QED BY <2>1, <2>2, <2>3, <2>4, <2>5, SlotWritten
<1> QED BY <1>1, <1>2

LEMMA TrackIpGrants ==
  ASSUME TableOK, NEW m \in Clients, NEW a, TrackIp(m, a)
  PROVE  MakesNone /\ KeepsMacs
<1> DEFINE j == FirstOf(SlotsOf(m))
<1>1. CASE SlotsOf(m) = {}
  BY <1>1, TableSame DEF TrackIp
<1>2. CASE SlotsOf(m) # {}
  <2>1. j \in Slots
    BY <1>2, FirstOfSlots DEF SlotsOf
  <2>2. \A i \in Slots : clients[i] \in Entry
    BY DEF TableOK
  <2>3. \A i \in Slots : clients'[i] = IF i = j THEN [clients[j] EXCEPT !.ip = a] ELSE clients[i]
    BY <1>2, <2>1 DEF TrackIp, TableOK
  <2>4. /\ [clients[j] EXCEPT !.ip = a].mac = clients[j].mac
        /\ [clients[j] EXCEPT !.ip = a].state = clients[j].state
        /\ [clients[j] EXCEPT !.ip = a].authorized_at = clients[j].authorized_at
    BY <2>1, <2>2 DEF Entry
  <2> QED BY <2>3, <2>4 DEF MakesNone, KeepsMacs, Granted
<1> QED BY <1>1, <1>2

LEMMA DemotedEntry ==
  ASSUME NEW e \in Entry
  PROVE  ~Granted(Demoted(e)) /\ Demoted(e).mac = e.mac
BY DEF Demoted, Granted, Entry

LEMMA DemoteGrants ==
  ASSUME TableOK, NEW j \in Slots, clients' = [clients EXCEPT ![j] = Demoted(@)]
  PROVE  MakesNone /\ KeepsMacs
<1>1. clients[j] \in Entry
  BY DEF TableOK
<1>2. clients' = [clients EXCEPT ![j] = Demoted(clients[j])]
  OBVIOUS
<1> QED BY <1>1, <1>2, DemotedEntry, SlotWritten

LEMMA SweepGrants ==
  ASSUME TableOK, Sweep
  PROVE  MakesNone /\ KeepsMacs
<1>1. \A i \in Slots : clients[i] \in Entry
  BY DEF TableOK
<1>2. \A i \in Slots : clients'[i] = Demoted(clients[i]) \/ clients'[i] = clients[i]
  BY DEF Sweep
<1> QED BY <1>1, <1>2, DemotedEntry DEF MakesNone, KeepsMacs

LEMMA RefreshGrants ==
  ASSUME TableOK, RefreshRssi
  PROVE  MakesNone /\ KeepsMacs
<1> DEFINE seen(i) == \E j \in DOMAIN stationList : stationList[j].mac = clients[i].mac
<1>1. \A i \in Slots : clients[i] \in Entry
  BY DEF TableOK
<1>2. \A i \in Slots : clients'[i] = [clients[i] EXCEPT !.rssi = seen(i)]
  BY DEF RefreshRssi
<1> HIDE DEF seen
<1>3. \A i \in Slots : /\ clients'[i].mac = clients[i].mac
                       /\ clients'[i].state = clients[i].state
                       /\ clients'[i].authorized_at = clients[i].authorized_at
  BY <1>1, <1>2 DEF Entry
<1> QED BY <1>3 DEF MakesNone, KeepsMacs, Granted

-----------------------------------------------------------------------------
(* Every step, by what it does to grants. *)

\* The steps that make, age or remove grants: all others keep them where they are.
Keeps == MakesNone /\ KeepsMacs /\ UNCHANGED clock
Ages  == Advance /\ UNCHANGED clients
Makes == \E m \in Clients, s \in Sessions, t \in Ttls : Allow(m, s, t)

LEMMA EventGrants ==
  ASSUME IInv, EventTask
  PROVE  Keeps \/ HandleDisconnected
<1>0. TableOK /\ Rest
  BY Split
<1>1. CASE HandleConnected
  <2>1. Head(events).mac \in Clients
    BY <1>0, <1>1, HeadEvent DEF HandleConnected
  <2> QED BY <1>0, <1>1, <2>1, TrackConnectedGrants DEF HandleConnected, Keeps
<1>2. CASE HandleIp
  <2>1. Head(events).mac \in Clients
    BY <1>0, <1>2, HeadEvent DEF HandleIp
  <2> QED BY <1>0, <1>2, <2>1, TrackIpGrants DEF HandleIp, Keeps
<1>3. CASE SendReport \/ DiscardEvent
  BY <1>3, TableSame DEF SendReport, DiscardEvent, Keeps
<1> QED BY <1>1, <1>2, <1>3 DEF EventTask

LEMMA MainGrants ==
  ASSUME IInv, MainTask
  PROVE  Keeps \/ RestartOnFailedStart
<1>0. TableOK /\ Rest
  BY Split
<1>1. CASE RegisterHandler \/ ListExisting \/ LookUpLeases \/ BeginPass \/ ListStations
  BY <1>1, TableSame DEF RegisterHandler, ListExisting, LookUpLeases, BeginPass, ListStations, Keeps
<1>2. CASE TrackExisting
  <2>1. Head(stationList).mac \in Clients
    BY <1>0, <1>2, HeadStation DEF TrackExisting
  <2> QED BY <1>0, <1>2, <2>1, TrackConnectedGrants DEF TrackExisting, Keeps
<1>3. CASE TrackExistingIp
  <2>1. Head(stationList).mac \in Clients
    BY <1>0, <1>3, HeadStation DEF TrackExistingIp
  <2> QED BY <1>0, <1>3, <2>1, TrackIpGrants DEF TrackExistingIp, Keeps
<1>4. CASE Sweep
  BY <1>0, <1>4, SweepGrants DEF Sweep, Keeps
<1>5. CASE RefreshRssi
  BY <1>0, <1>5, RefreshGrants DEF RefreshRssi, Keeps
<1> QED BY <1>1, <1>2, <1>3, <1>4, <1>5 DEF MainTask

LEMMA CommandGrants ==
  ASSUME IInv, NEW m \in Clients, NEW s \in Sessions, Revoke(m, s)
  PROVE  Keeps
<1>0. TableOK
  BY Split
<1> DEFINE j == FirstOf(SlotsOf(m))
<1>1. CASE m \in Tracked /\ RevokeMatches(EntryOf(m), s)
  <2>1. j \in Slots
    BY <1>0, <1>1, TrackedSlot
  <2>2. clients' = [clients EXCEPT ![j] = Demoted(@)]
    BY <1>1 DEF Revoke
  <2> QED BY <1>0, <2>1, <2>2, DemoteGrants DEF Revoke, Keeps
<1>2. CASE ~ (m \in Tracked /\ RevokeMatches(EntryOf(m), s))
  BY <1>2, TableSame DEF Revoke, Keeps
<1> QED BY <1>1, <1>2

LEMMA PacketGrants ==
  ASSUME IInv, NEW a \in Addrs, ExpireOnPacket(a)
  PROVE  Keeps
<1>0. TableOK
  BY Split
<1> DEFINE j == FirstOf(SlotsAt(a))
<1>1. j \in Slots
  BY FirstOfSlots DEF ExpireOnPacket, SlotsAt
<1>2. clients' = [clients EXCEPT ![j] = Demoted(@)]
  BY DEF ExpireOnPacket
<1> QED BY <1>0, <1>1, <1>2, DemoteGrants DEF ExpireOnPacket, Keeps

LEMMA PortalGrants ==
  ASSUME IInv, PortalNames, (\E a \in Addrs : PortalMiss(a)) \/ PortalResolve \/ PortalRecord
  PROVE  Keeps
<1>0. TableOK
  BY Split
<1>1. CASE PortalRecord
  <2>1. portal.mac \in Clients
    BY <1>1 DEF PortalRecord, PortalNames
  <2> QED BY <1>0, <1>1, <2>1, TrackIpGrants DEF PortalRecord, Keeps
<1> QED BY <1>1, TableSame DEF PortalMiss, PortalResolve, Keeps

LEMMA GrantStep ==
  ASSUME IInv, PortalNames, [Next]_vars
  PROVE  Keeps \/ Ages \/ Makes \/ HandleDisconnected \/ RestartOnFailedStart
<1>1. ASSUME NEW m \in Clients,
             Associate(m) \/ Leave(m) \/ (\E a \in Addrs : AssignAddress(m, a))
      PROVE  Keeps
  BY <1>1, TableSame DEF Associate, Leave, AssignAddress, Keeps
<1>2. CASE EventTask
  BY <1>2, EventGrants
<1>3. CASE MainTask
  BY <1>3, MainGrants
<1>4. CASE Publisher
  BY <1>4, TableSame DEF Publisher, TakeReport, PublishReport, PublishFails, Keeps
<1>5. ASSUME NEW m \in Clients, NEW s \in Sessions,
             Revoke(m, s) \/ (\E t \in Ttls : Allow(m, s, t))
      PROVE  Keeps \/ Makes
  BY <1>5, CommandGrants DEF Makes
<1>6. ASSUME NEW a \in Addrs, ExpireOnPacket(a)
      PROVE  Keeps
  BY <1>6, PacketGrants
<1>7. CASE (\E a \in Addrs : PortalMiss(a)) \/ PortalResolve \/ PortalRecord
  BY <1>7, PortalGrants
<1>8. CASE Advance
  BY <1>8 DEF Advance, Ages
<1>9. CASE UplinkChange \/ UNCHANGED vars
  BY <1>9, TableSame DEF UplinkChange, vars, Keeps
<1> QED BY <1>1, <1>2, <1>3, <1>4, <1>5, <1>6, <1>7, <1>8, <1>9 DEF Next

-----------------------------------------------------------------------------
(* Grants are as old as their ticks say, and their ends are reported. *)

\* What the event task has to send of slot i.
Reported(i) ==
  /\ pending' # None
  /\ pending'.mac = clients[i].mac
  /\ pending'.state = "AUTHORIZED" /\ pending'.session = clients[i].session

LEMMA RemovalGrants ==
  ASSUME IInv, HandleDisconnected
  PROVE  /\ MakesNone /\ UNCHANGED <<clock, mqttStarted, pc>>
         /\ \A i \in Slots : Granted(clients[i]) => clients'[i].mac = clients[i].mac \/ Reported(i)
<1> DEFINE m == Head(events).mac
           j == FirstOf(SlotsOf(m))
<1>0. TableOK /\ Rest
  BY Split
<1>1. UNCHANGED <<clock, mqttStarted, pc>>
  BY DEF HandleDisconnected, mainVars
<1>2. CASE m \notin Tracked
  <2>1. UNCHANGED clients
    BY <1>2 DEF HandleDisconnected
  <2> QED BY <1>1, <2>1, TableSame DEF KeepsMacs
<1>3. CASE m \in Tracked
  <2>1. m \in Clients
    BY <1>0, HeadEvent DEF HandleDisconnected
  <2>2. j \in Slots /\ clients[j].mac = m
    BY <1>0, <1>3, <2>1, TrackedSlot
  <2>3. /\ clients' = [clients EXCEPT ![j] = FreeEntry]
        /\ pending' = [mac |-> m, state |-> clients[j].state,
                       session |-> clients[j].session, seq |-> removals + 1]
    BY <1>3 DEF HandleDisconnected, RemoveClient
  <2>4. MakesNone
    <3>1. ~Granted(FreeEntry)
      BY DEF Granted, FreeEntry
    <3> QED BY <1>0, <2>2, <2>3, <3>1, SlotWritten
  <2>5. pending' # None
    <3>1. clients[j] \in Entry /\ removals \in Nat
      BY <1>0, <2>2 DEF TableOK, Rest
    <3>2. pending' \in Report
      BY <2>1, <2>3, <3>1 DEF Report, Entry
    <3> QED BY <3>2, NoReportAssumption
  <2>6. ASSUME NEW i \in Slots, Granted(clients[i])
        PROVE  clients'[i].mac = clients[i].mac \/ Reported(i)
    <3>1. CASE i = j
      BY <2>2, <2>3, <2>5, <2>6, <3>1 DEF Reported, Granted
    <3>2. CASE i # j
      <4>1. clients'[i] = clients[i]
        BY <1>0, <2>2, <2>3, <3>2 DEF TableOK
      <4> QED BY <4>1
    <3> QED BY <3>1, <3>2
  <2> QED BY <1>1, <2>4, <2>6
<1> QED BY <1>2, <1>3

LEMMA AllowGrants ==
  ASSUME IInv, NEW m \in Clients, NEW s \in Sessions, NEW t \in Ttls, Allow(m, s, t)
  PROVE  /\ KeepsMacs /\ UNCHANGED <<clock, mqttStarted, pc>> /\ mqttStarted
         /\ \A i \in Slots : clients'[i] = clients[i] \/ clients'[i].authorized_at = clock
<1> DEFINE j == FirstOf(SlotsOf(m))
<1>0. TableOK
  BY Split
<1>1. j \in Slots
  BY <1>0, TrackedSlot DEF Allow
<1>2. clients' = [clients EXCEPT ![j] = [@ EXCEPT !.state = "AUTHORIZED", !.session = s,
                                              !.authorized_at = clock, !.ttl = t]]
  BY DEF Allow, Authorized
<1>3. clients[j] \in Entry /\ clients \in [Slots -> Entry]
  BY <1>0, <1>1 DEF TableOK
<1> DEFINE e == [clients[j] EXCEPT !.state = "AUTHORIZED", !.session = s,
                                   !.authorized_at = clock, !.ttl = t]
<1>4. e.mac = clients[j].mac /\ e.authorized_at = clock
  BY <1>3 DEF Entry
<1>5. \A i \in Slots : clients'[i] = IF i = j THEN e ELSE clients[i]
  BY <1>1, <1>2, <1>3
<1> HIDE DEF e
<1> QED BY <1>4, <1>5 DEF Allow, KeepsMacs, mainVars

\* A grant is younger than the counter's period.
Aged == \A i \in Slots : Granted(clients[i]) =>
          clock - clients[i].authorized_at \in 0..(TickMod - 1)

LEMMA AgedStep ==
  ASSUME IInv, PortalNames, Aged, [Next]_vars
  PROVE  Aged'
<1>0. clock \in Nat /\ TickMod \in Nat \ {0} /\ IInv'
  BY Split, NextOK, StutterOK, ClientAccessAssumption DEF Rest
<1>1. ASSUME MakesNone, UNCHANGED clock
      PROVE  Aged'
  BY <1>1 DEF MakesNone, Aged, Granted
<1>2. CASE Keeps
  BY <1>1, <1>2 DEF Keeps
<1>3. CASE HandleDisconnected
  BY <1>1, <1>3, RemovalGrants
<1>4. CASE Ages
  <2>1. clock' = clock + 1 /\ clients' = clients
    BY <1>4 DEF Ages, Advance
  <2>2. \A i \in Slots : Granted(clients[i]) => clock + 1 - clients[i].authorized_at < TickMod
    BY <1>4 DEF Ages, Advance, Granted
  <2>3. \A i \in Slots : clients[i].authorized_at \in Nat
    BY Split DEF TableOK, Entry
  <2> QED BY <1>0, <2>1, <2>2, <2>3 DEF Aged, Granted
<1>5. CASE Makes
  <2> PICK m \in Clients, s \in Sessions, t \in Ttls : Allow(m, s, t)
    BY <1>5 DEF Makes
  <2>1. /\ UNCHANGED clock
        /\ \A i \in Slots : clients'[i] = clients[i] \/ clients'[i].authorized_at = clock
    BY AllowGrants
  <2>2. clock - clock \in 0..(TickMod - 1)
    BY <1>0
  <2> QED BY <2>1, <2>2 DEF Aged, Granted
<1>6. CASE RestartOnFailedStart
  BY <1>6 DEF RestartOnFailedStart, Aged, Granted, FreeEntry
<1> QED BY <1>2, <1>3, <1>4, <1>5, <1>6, GrantStep

\* Until main starts MQTT nobody can be granted anything.
BootPlaces == {"register", "list", "leases", "track", "trackIp"}
Booting == /\ pc \in BootPlaces => ~mqttStarted
           /\ ~mqttStarted => \A i \in Slots : ~Granted(clients[i])

LEMMA BootPlace ==
  ASSUME IInv, [Next]_vars
  PROVE  /\ pc' \in BootPlaces => pc \in BootPlaces
         /\ mqttStarted' # mqttStarted => mqttStarted' = TRUE /\ pc' = "sweep"
<1>1. CASE RegisterHandler \/ ListExisting \/ LookUpLeases \/ RestartOnFailedStart
  BY <1>1 DEF RegisterHandler, ListExisting, LookUpLeases, RestartOnFailedStart, BootPlaces
<1>2. CASE TrackExisting \/ TrackExistingIp
  BY <1>2 DEF TrackExisting, TrackExistingIp, BootPlaces
<1>3. CASE BeginPass \/ Sweep \/ ListStations \/ RefreshRssi
  BY <1>3 DEF BeginPass, Sweep, ListStations, RefreshRssi, BootPlaces
<1>4. CASE UNCHANGED <<pc, mqttStarted>>
  BY <1>4
<1>5. EventTask \/ Publisher \/ UNCHANGED vars => UNCHANGED <<pc, mqttStarted>>
  BY DEF EventTask, Publisher, HandleConnected, HandleDisconnected, SendReport, HandleIp,
         DiscardEvent, TakeReport, PublishReport, PublishFails, vars, mainVars
<1>6. (\E m \in Clients : Associate(m) \/ Leave(m) \/ (\E a \in Addrs : AssignAddress(m, a)))
        \/ (\E m \in Clients, s \in Sessions : Revoke(m, s) \/ (\E t \in Ttls : Allow(m, s, t)))
        => UNCHANGED <<pc, mqttStarted>>
  BY DEF Associate, Leave, AssignAddress, Revoke, Allow, mainVars
<1>7. (\E a \in Addrs : ExpireOnPacket(a) \/ PortalMiss(a)) \/ PortalResolve \/ PortalRecord
        \/ Advance \/ UplinkChange
        => UNCHANGED <<pc, mqttStarted>>
  BY DEF ExpireOnPacket, PortalMiss, PortalResolve, PortalRecord, Advance, UplinkChange, mainVars
<1> QED BY <1>1, <1>2, <1>3, <1>4, <1>5, <1>6, <1>7 DEF Next, MainTask

LEMMA BootingStep ==
  ASSUME IInv, PortalNames, Booting, [Next]_vars
  PROVE  Booting'
<1>1. pc' \in BootPlaces => ~mqttStarted'
  BY BootPlace DEF Booting, BootPlaces
<1>2. ASSUME ~mqttStarted' PROVE ~mqttStarted
  BY <1>2, BootPlace
<1>3. ASSUME ~mqttStarted', MakesNone
      PROVE  \A i \in Slots : ~Granted(clients'[i])
  BY <1>2, <1>3 DEF Booting, MakesNone
<1>4. ASSUME ~mqttStarted'
      PROVE  \A i \in Slots : ~Granted(clients'[i])
  <2>1. CASE Keeps \/ HandleDisconnected
    BY <1>3, <1>4, <2>1, RemovalGrants DEF Keeps
  <2>2. CASE Ages
    BY <1>2, <1>4, <2>2 DEF Ages, Booting
  <2>3. CASE Makes
    BY <1>2, <1>4, <2>3, AllowGrants DEF Makes
  <2>4. CASE RestartOnFailedStart
    BY <2>4 DEF RestartOnFailedStart, Granted, FreeEntry
  <2> QED BY <2>1, <2>2, <2>3, <2>4, GrantStep
<1> QED BY <1>1, <1>4 DEF Booting, Granted

LEMMA EndReported ==
  ASSUME IInv, PortalNames, Booting, [Next]_vars, NEW i \in Slots, Granted(clients[i])
  PROVE  clients'[i].mac = clients[i].mac \/ Reported(i)
<1>1. CASE Keeps
  BY <1>1 DEF Keeps, KeepsMacs
<1>2. CASE Ages
  BY <1>2 DEF Ages
<1>3. CASE Makes
  BY <1>3, AllowGrants DEF Makes, KeepsMacs
<1>4. CASE HandleDisconnected
  BY <1>4, RemovalGrants
<1>5. CASE RestartOnFailedStart
  BY <1>5 DEF RestartOnFailedStart, Booting, BootPlaces
<1> QED BY <1>1, <1>2, <1>3, <1>4, <1>5, GrantStep

-----------------------------------------------------------------------------
(* The subtraction of the tick counter. *)

\* Quotient and remainder, as elapsed ticks are computed modulo 2^32.
LEMMA DivMod ==
  ASSUME NEW T \in Nat \ {0}, NEW x \in Int
  PROVE  x % T \in 0..(T-1) /\ x = T * (x \div T) + (x % T) /\ x \div T \in Int
OBVIOUS

\* A multiple of T strictly between -T and T is zero.
LEMMA SmallMultiple ==
  ASSUME NEW T \in Nat \ {0}, NEW k \in Int, T * k < T, -T < T * k
  PROVE  k = 0
<1>1. k >= 1 => T * k >= T
  OBVIOUS
<1>2. k <= -1 => T * k <= -T
  OBVIOUS
<1> QED BY <1>1, <1>2

\* A remainder is recovered from any number that leaves it.
LEMMA OneRemainder ==
  ASSUME NEW T \in Nat \ {0}, NEW k \in Int, NEW d \in 0..(T-1)
  PROVE  (T * k + d) % T = d
<1> DEFINE x == T * k + d
<1>0. x \in Int
  OBVIOUS
<1>1. x % T \in 0..(T-1) /\ x = T * (x \div T) + (x % T) /\ x \div T \in Int
  BY <1>0, DivMod
<1> DEFINE r == x % T
           j == k - x \div T
<1>2. T * j = r - d
  BY <1>1
<1>3. j = 0
  <2>1. T * j < T /\ -T < T * j /\ j \in Int
    BY <1>1, <1>2
  <2> HIDE DEF j
  <2> QED BY <2>1, SmallMultiple
<1>4. T * j = 0
  BY <1>3
<1> QED BY <1>1, <1>2, <1>4

\* The difference of two remainders is the difference of the numbers, as long as
\* that is below the modulus.
LEMMA ModDifference ==
  ASSUME NEW T \in Nat \ {0}, NEW x \in Nat, NEW y \in Nat, x - y \in 0..(T-1)
  PROVE  ((x % T) - (y % T)) % T = x - y
<1>1. /\ x % T \in Int /\ x = T * (x \div T) + (x % T) /\ x \div T \in Int
      /\ y % T \in Int /\ y = T * (y \div T) + (y % T) /\ y \div T \in Int
  BY DivMod
<1> DEFINE k == (y \div T) - (x \div T)
<1>2. T * k = T * (y \div T) - T * (x \div T)
  BY <1>1
<1>3. (x % T) - (y % T) = T * k + (x - y)
  BY <1>1, <1>2
<1>4. (T * k + (x - y)) % T = x - y
  <2>1. k \in Int
    BY <1>1
  <2> HIDE DEF k
  <2> QED BY <2>1, OneRemainder
<1> QED BY <1>3, <1>4

LEMMA ElapsedIsAge ==
  ASSUME IInv, Aged, NEW i \in Slots, Granted(clients[i])
  PROVE  Elapsed(clock, clients[i]) = clock - clients[i].authorized_at
<1>1. clock \in Nat /\ clients[i].authorized_at \in Nat /\ TickMod \in Nat \ {0}
  BY Split, ClientAccessAssumption DEF Rest, TableOK, Entry
<1>2. clock - clients[i].authorized_at \in 0..(TickMod - 1)
  BY DEF Aged
<1> QED BY <1>1, <1>2, ModDifference DEF Elapsed, Tick

LEMMA ForwardOnLiveGrant ==
  ASSUME IInv, Aged
  PROVE  NeverForwardExpired
<1> SUFFICES ASSUME NEW a \in Addrs, CanForward(a)
             PROVE  LET e == clients[FirstOf(SlotsAt(a))] IN clock - e.authorized_at < e.ttl
  BY DEF NeverForwardExpired
<1> DEFINE i == FirstOf(SlotsAt(a))
           e == clients[i]
<1>1. i \in Slots
  BY FirstOfSlots DEF CanForward, SlotsAt
<1>2. Granted(e) /\ ~TimedOut(clock, e)
  BY DEF CanForward, Granted
<1>3. EntryConsistent(e) /\ e \in Entry
  BY <1>1, Split DEF TableOK, SessionMatchesState
<1>4. e.ttl \in Nat \ {0}
  <2> HIDE DEF e
  <2>1. e.ttl # 0
    BY <1>2, <1>3 DEF EntryConsistent, Granted
  <2>2. e.ttl \in Ttls \cup {0}
    BY <1>3 DEF Entry
  <2>3. Ttls \subseteq Nat
    BY ClientAccessAssumption
  <2> QED BY <2>1, <2>2, <2>3
<1>5. Elapsed(clock, e) = clock - e.authorized_at
  BY <1>1, <1>2, ElapsedIsAge
<1>6. clock - e.authorized_at \in Int
  BY <1>3, Split DEF Rest, Entry
<1> HIDE DEF e
<1>7. clock - e.authorized_at < e.ttl
  BY <1>2, <1>4, <1>5, <1>6 DEF TimedOut
<1> QED BY <1>7 DEF e

\* client_access_can_forward_ipv4 never lets a packet through on a grant whose
\* lifetime has passed, however often the tick counter has wrapped and however
\* late the periodic sweep is.
THEOREM NoExpiredForward == Spec => []NeverForwardExpired
<1>1. Init => Aged
  BY DEF Init, Aged, Granted, FreeEntry
<1>2. IInv /\ PortalNames /\ Aged /\ [Next]_vars => Aged'
  BY AgedStep
<1>3. IInv /\ Aged => NeverForwardExpired
  BY ForwardOnLiveGrant
<1> QED BY <1>1, <1>2, <1>3, Invariance, PTL DEF Spec

\* A client that leaves its slot with a session, by any step of any task, is
\* reported with that session: remove_disconnect_client is the only way out, and
\* it copies the report in the critical section that clears the slot.
THEOREM EndsReported == Spec => SessionEndReported
<1>1. Init => Booting
  BY DEF Init, Booting, BootPlaces, Granted, FreeEntry
<1>2. IInv /\ PortalNames /\ Booting /\ [Next]_vars => Booting'
  BY BootingStep
<1>3. IInv /\ PortalNames /\ Booting /\ [Next]_vars
      => \A i \in Slots :
           (clients[i].state = "AUTHORIZED" /\ clients'[i].mac # clients[i].mac)
           => /\ pending' # None
              /\ pending'.mac = clients[i].mac
              /\ pending'.state = "AUTHORIZED" /\ pending'.session = clients[i].session
  BY EndReported DEF Granted, Reported
<1> QED BY <1>1, <1>2, <1>3, Invariance, PTL DEF Spec, SessionEndReported

-----------------------------------------------------------------------------
(* The reports. *)

LEMMA ReportStepKinds ==
  ASSUME [Next]_vars
  PROVE  \/ UNCHANGED reportVars \/ HandleDisconnected \/ SendReport
         \/ TakeReport \/ PublishReport \/ PublishFails \/ RestartOnFailedStart
<1>1. (\E m \in Clients : Associate(m) \/ Leave(m) \/ (\E a \in Addrs : AssignAddress(m, a)))
        \/ (\E m \in Clients, s \in Sessions : Revoke(m, s) \/ (\E t \in Ttls : Allow(m, s, t)))
        => UNCHANGED reportVars
  BY DEF Associate, Leave, AssignAddress, Revoke, Allow
<1>2. HandleConnected \/ HandleIp \/ DiscardEvent => UNCHANGED reportVars
  BY DEF HandleConnected, HandleIp, DiscardEvent
<1>3. RegisterHandler \/ ListExisting \/ LookUpLeases \/ BeginPass \/ Sweep \/ ListStations
        \/ RefreshRssi => UNCHANGED reportVars
  BY DEF RegisterHandler, ListExisting, LookUpLeases, BeginPass, Sweep, ListStations, RefreshRssi
<1>4. TrackExisting \/ TrackExistingIp => UNCHANGED reportVars
  BY DEF TrackExisting, TrackExistingIp
<1>5. (\E a \in Addrs : ExpireOnPacket(a) \/ PortalMiss(a)) \/ PortalResolve \/ PortalRecord
        \/ Advance \/ UplinkChange \/ UNCHANGED vars
        => UNCHANGED reportVars
  BY DEF ExpireOnPacket, PortalMiss, PortalResolve, PortalRecord, Advance, UplinkChange, vars
<1> QED BY <1>1, <1>2, <1>3, <1>4, <1>5 DEF Next, EventTask, MainTask, Publisher

\* A disconnect report is lost only when s_disconnect_queue holds one for every
\* slot of the table, or when every attempt to publish it has failed.
THEOREM LostOnlyAtLimits == Spec => ReportLostOnlyAtLimits
<1> DEFINE AtLimit(n) ==
      \/ Len(queue) >= MaxConn /\ pending # None /\ pending.seq = n
      \/ publishing # None /\ publishing.report.seq = n /\ publishing.attempt >= Attempts
<1>1. ASSUME IInv, [Next]_vars, NEW n \in lost' \ lost
      PROVE  AtLimit(n)
  <2>1. Len(queue) \in Nat /\ MaxConn \in Nat
    BY Split, LenProperties, ClientAccessAssumption DEF Rest
  <2>2. CASE SendReport
    BY <1>1, <2>1, <2>2 DEF SendReport
  <2>3. CASE PublishFails
    <3>1. publishing # None /\ publishing.attempt \in Nat /\ Attempts \in Nat
      BY <2>3, <1>1, Split, ClientAccessAssumption DEF PublishFails, Rest
    <3>2. publishing.report.seq = n /\ ~(publishing.attempt < Attempts)
      BY <1>1, <2>3 DEF PublishFails
    <3> QED BY <3>1, <3>2
  <2>4. CASE UNCHANGED reportVars \/ HandleDisconnected \/ TakeReport \/ PublishReport
             \/ RestartOnFailedStart
    BY <1>1, <2>4 DEF reportVars, HandleDisconnected, TakeReport, PublishReport,
       RestartOnFailedStart
  <2> QED BY <1>1, <2>2, <2>3, <2>4, ReportStepKinds
<1>2. IInv /\ [Next]_vars =>
        \A n \in lost' \ lost :
          \/ Len(queue) >= MaxConn /\ pending # None /\ pending.seq = n
          \/ publishing # None /\ publishing.report.seq = n /\ publishing.attempt >= Attempts
  BY <1>1
<1> QED BY <1>2, Invariance, PTL DEF Spec, ReportLostOnlyAtLimits

\* Where a report can be, from the table outwards.
Publishing == IF publishing = None THEN {} ELSE {publishing.report.seq}
Queued     == {queue[i].seq : i \in 1..Len(queue)}
Pending    == IF pending = None THEN {} ELSE {pending.seq}

Ordered == /\ \A i, j \in 1..Len(queue) : i < j => queue[i].seq < queue[j].seq
           /\ \A n \in Publishing, k \in Queued \cup Pending : n < k
           /\ \A n \in Queued, k \in Pending : n < k

Accounted == /\ Publishing \cup Queued \cup Pending \cup published \cup lost = 1..removals
             /\ published \cap lost = {}
             /\ (Publishing \cup Queued \cup Pending) \cap (published \cup lost) = {}

LEMMA ReportTypes ==
  ASSUME IInv
  PROVE  /\ queue \in Seq(Report) /\ Len(queue) \in Nat
         /\ \A i \in 1..Len(queue) : queue[i] \in Report /\ queue[i].seq \in Nat
         /\ pending # None => pending \in Report /\ pending.seq \in Nat
         /\ publishing # None => publishing.report \in Report /\ publishing.report.seq \in Nat
         /\ removals \in Nat
<1>1. Rest
  BY Split
<1>2. queue \in Seq(Report) /\ Len(queue) \in Nat
  BY <1>1, LenProperties DEF Rest
<1>3. \A i \in 1..Len(queue) : queue[i] \in Report
  BY <1>2, ElementOfSeq
<1>4. \A r \in Report : r.seq \in Nat
  BY DEF Report
<1>5. pending # None => pending \in Report
  BY <1>1 DEF Rest
<1>6. publishing # None => publishing.report \in Report
  BY <1>1 DEF Rest
<1> QED BY <1>1, <1>2, <1>3, <1>4, <1>5, <1>6 DEF Rest

LEMMA TakeKeeps ==
  ASSUME IInv, Ordered, Accounted, TakeReport
  PROVE  Ordered' /\ Accounted'
<1>1. /\ queue # <<>> /\ queue' = Tail(queue) /\ publishing = None
      /\ publishing' = [report |-> Head(queue), attempt |-> 1]
      /\ UNCHANGED <<pending, removals, published, lost>>
  BY DEF TakeReport
<1>2. queue \in Seq(Report) /\ Len(queue) \in Nat \ {0}
  BY <1>1, ReportTypes, EmptySeq
<1>3. /\ Len(queue') = Len(queue) - 1
      /\ \A i \in 1..(Len(queue) - 1) : queue'[i] = queue[i + 1]
      /\ Head(queue) = queue[1] /\ Head(queue) \in Report
  BY <1>1, <1>2, HeadTailProperties
<1>4. publishing' # None
  <2>1. publishing' \in [report : Report, attempt : 1..Attempts]
    BY <1>1, <1>3, ClientAccessAssumption
  <2> QED BY <2>1, NoReportAssumption
<1>5. Publishing' = {queue[1].seq} /\ Publishing = {} /\ Pending' = Pending
  BY <1>1, <1>3, <1>4 DEF Publishing, Pending
<1>6. Queued = Queued' \cup {queue[1].seq}
  <2>1. \A i \in 1..Len(queue) : i = 1 \/ (i - 1 \in 1..Len(queue') /\ queue'[i - 1] = queue[i])
    BY <1>2, <1>3
  <2>2. \A i \in 1..Len(queue') : i + 1 \in 1..Len(queue) /\ queue'[i] = queue[i + 1]
    BY <1>2, <1>3
  <2>3. 1 \in 1..Len(queue)
    BY <1>2
  <2> QED BY <2>1, <2>2, <2>3 DEF Queued
<1>7. \A i, j \in 1..Len(queue') : i < j => queue'[i].seq < queue'[j].seq
  BY <1>2, <1>3 DEF Ordered
<1>8. \A k \in Queued' : queue[1].seq < k
  <2>1. \A i \in 1..Len(queue') : queue[1].seq < queue'[i].seq
    BY <1>2, <1>3 DEF Ordered
  <2> QED BY <2>1 DEF Queued
<1>9. Ordered'
  BY <1>5, <1>6, <1>7, <1>8 DEF Ordered
<1> QED BY <1>1, <1>5, <1>6, <1>9 DEF Accounted

\* A report that is published or given up leaves Publishing.
LEMMA PublishKeeps ==
  ASSUME IInv, Ordered, Accounted, PublishReport \/ PublishFails
  PROVE  Ordered' /\ Accounted'
<1>1. UNCHANGED <<queue, pending, removals>> /\ publishing # None
  BY DEF PublishReport, PublishFails
<1>2. Queued' = Queued /\ Pending' = Pending
  BY <1>1 DEF Queued, Pending
<1>3. \/ Publishing' = Publishing /\ UNCHANGED <<published, lost>>
      \/ Publishing' = {} /\ published' = published \cup Publishing /\ lost' = lost
      \/ Publishing' = {} /\ published' = published /\ lost' = lost \cup Publishing
  <2>1. CASE PublishReport
    BY <1>1, <2>1 DEF PublishReport, Publishing
  <2>2. CASE PublishFails
    <3>1. CASE publishing.attempt < Attempts
      <4>1. publishing' = [publishing EXCEPT !.attempt = @ + 1] /\ UNCHANGED <<published, lost>>
        BY <2>2, <3>1 DEF PublishFails
      <4>2. publishing \in [report : Report, attempt : 1..Attempts]
        BY <1>1, Split DEF Rest
      <4>3. publishing'.report = publishing.report
        BY <4>1, <4>2
      <4>4. publishing' # None
        <5>1. publishing' \in [report : Report, attempt : 1..Attempts]
          BY <3>1, <4>1, <4>2, ClientAccessAssumption
        <5> QED BY <5>1, NoReportAssumption
      <4> QED BY <1>1, <4>1, <4>3, <4>4 DEF Publishing
    <3>2. CASE ~(publishing.attempt < Attempts)
      BY <1>1, <2>2, <3>2 DEF PublishFails, Publishing
    <3> QED BY <3>1, <3>2
  <2> QED BY <2>1, <2>2
<1>4. Ordered'
  BY <1>1, <1>2, <1>3 DEF Ordered
<1>5. Publishing \cap (Queued \cup Pending) = {}
  <2>1. \A n \in Publishing : n \in Nat
    BY ReportTypes DEF Publishing
  <2> QED BY <2>1 DEF Ordered
<1>6. Accounted'
  BY <1>1, <1>2, <1>3, <1>5 DEF Accounted
<1> QED BY <1>4, <1>6

LEMMA SendKeeps ==
  ASSUME IInv, Ordered, Accounted, SendReport
  PROVE  Ordered' /\ Accounted'
<1>1. /\ pending # None /\ pending' = None
      /\ UNCHANGED <<publishing, removals, published>>
  BY DEF SendReport
<1>2. Pending = {pending.seq} /\ Pending' = {} /\ Publishing' = Publishing
  BY <1>1 DEF Pending, Publishing
<1>3. CASE Len(queue) < MaxConn
  <2>1. queue' = Append(queue, pending) /\ lost' = lost
    BY <1>3 DEF SendReport
  <2>2. /\ Len(queue') = Len(queue) + 1 /\ Len(queue) \in Nat
        /\ \A i \in 1..Len(queue) : queue'[i] = queue[i]
        /\ queue'[Len(queue) + 1] = pending
    BY <1>1, <2>1, ReportTypes, AppendProperties
  <2>3. Queued' = Queued \cup Pending
    <3>1. \A i \in 1..Len(queue') : i \in 1..Len(queue) \/ i = Len(queue) + 1
      BY <2>2
    <3>2. 1..Len(queue) \subseteq 1..Len(queue') /\ Len(queue) + 1 \in 1..Len(queue')
      BY <2>2
    <3> QED BY <1>2, <2>2, <3>1, <3>2 DEF Queued
  <2>4. \A i, j \in 1..Len(queue') : i < j => queue'[i].seq < queue'[j].seq
    <3> SUFFICES ASSUME NEW i \in 1..Len(queue'), NEW j \in 1..Len(queue'), i < j
                 PROVE  queue'[i].seq < queue'[j].seq
      OBVIOUS
    <3>1. i \in 1..Len(queue) /\ queue'[i] = queue[i] /\ queue[i].seq \in Queued
      BY <2>2 DEF Queued
    <3>2. CASE j \in 1..Len(queue)
      BY <2>2, <3>1, <3>2 DEF Ordered
    <3>3. CASE j = Len(queue) + 1
      BY <1>2, <2>2, <3>1, <3>3 DEF Ordered
    <3> QED BY <2>2, <3>2, <3>3
  <2>5. Ordered'
    BY <1>2, <2>3, <2>4 DEF Ordered
  <2> QED BY <1>1, <1>2, <2>1, <2>3, <2>5 DEF Accounted
<1>4. CASE ~(Len(queue) < MaxConn)
  <2>1. queue' = queue /\ lost' = lost \cup Pending
    BY <1>2, <1>4 DEF SendReport
  <2>2. Queued' = Queued
    BY <2>1 DEF Queued
  <2>3. Pending \cap (Queued \cup Publishing) = {}
    <3>1. \A n \in Pending : n \in Nat
      BY ReportTypes DEF Pending
    <3> QED BY <3>1 DEF Ordered
  <2>4. Ordered'
    BY <1>2, <2>1, <2>2 DEF Ordered
  <2> QED BY <1>1, <1>2, <2>1, <2>2, <2>3, <2>4 DEF Accounted
<1> QED BY <1>3, <1>4

LEMMA RemovalKeeps ==
  ASSUME IInv, Ordered, Accounted, HandleDisconnected
  PROVE  Ordered' /\ Accounted'
<1> DEFINE m == Head(events).mac
<1>1. UNCHANGED <<queue, publishing, published, lost>> /\ pending = None
  BY DEF HandleDisconnected, NextEvent
<1>2. Queued' = Queued /\ Publishing' = Publishing /\ Pending = {}
  BY <1>1 DEF Queued, Publishing, Pending
<1>3. CASE m \notin Tracked
  <2>1. UNCHANGED <<pending, removals>>
    BY <1>3 DEF HandleDisconnected
  <2>2. Pending' = {}
    BY <1>1, <2>1 DEF Pending
  <2> QED BY <1>1, <1>2, <2>1, <2>2 DEF Ordered, Accounted
<1>4. CASE m \in Tracked
  <2> DEFINE r == [mac |-> m, state |-> clients[FirstOf(SlotsOf(m))].state,
                   session |-> clients[FirstOf(SlotsOf(m))].session, seq |-> removals + 1]
  <2>1. pending' = r /\ removals' = removals + 1
    BY <1>4 DEF HandleDisconnected, RemoveClient
  <2>2. pending' # None
    <3>1. m \in Clients
      BY Split, HeadEvent DEF HandleDisconnected
    <3>2. clients[FirstOf(SlotsOf(m))] \in Entry
      BY <1>4, <3>1, Split, TrackedSlot DEF TableOK
    <3>3. r \in Report
      BY <3>1, <3>2, ReportTypes DEF Report, Entry
    <3> QED BY <2>1, <3>3, NoReportAssumption
  <2>3. Pending' = {removals + 1}
    BY <2>1, <2>2 DEF Pending
  <2>4. \A n \in Publishing \cup Queued \cup published \cup lost : n \in Nat /\ n < removals + 1
    <3>1. Publishing \cup Queued \cup published \cup lost \subseteq 1..removals
      BY DEF Accounted
    <3> QED BY <3>1, ReportTypes
  <2>5. Ordered'
    BY <1>1, <1>2, <2>3, <2>4 DEF Ordered
  <2>6. 1..removals' = 1..removals \cup {removals + 1}
    BY <2>1, ReportTypes
  <2>7. removals + 1 \notin published \cup lost
    BY <2>4, ReportTypes
  <2> QED BY <1>1, <1>2, <2>3, <2>5, <2>6, <2>7 DEF Accounted
<1> QED BY <1>3, <1>4

LEMMA ReportsStep ==
  ASSUME IInv, Ordered, Accounted, [Next]_vars
  PROVE  Ordered' /\ Accounted'
<1>1. CASE UNCHANGED reportVars
  <2>1. Queued' = Queued /\ Publishing' = Publishing /\ Pending' = Pending
    BY <1>1 DEF reportVars, Queued, Publishing, Pending
  <2> QED BY <1>1, <2>1 DEF reportVars, Ordered, Accounted
<1>2. CASE RestartOnFailedStart
  <2>1. queue' = <<>> /\ pending' = None /\ publishing' = None /\ removals' = 0
        /\ published' = {} /\ lost' = {}
    BY <1>2 DEF RestartOnFailedStart
  <2>2. Queued' = {} /\ Publishing' = {} /\ Pending' = {} /\ Len(queue') = 0
    BY <2>1 DEF Queued, Publishing, Pending
  <2> QED BY <2>1, <2>2 DEF Ordered, Accounted
<1> QED BY <1>1, <1>2, ReportStepKinds, TakeKeeps, PublishKeeps, SendKeeps, RemovalKeeps

\* The places of three sequences in their concatenation.
LEMMA ThreeParts ==
  ASSUME NEW S, NEW P \in Seq(S), NEW Q \in Seq(S), NEW D \in Seq(S),
         NEW F, F = (P \o Q) \o D
  PROVE  /\ Len(P) \in Nat /\ Len(Q) \in Nat /\ Len(D) \in Nat
         /\ DOMAIN F = 1..(Len(P) + Len(Q) + Len(D))
         /\ \A i \in 1..Len(P) : F[i] = P[i]
         /\ \A i \in 1..Len(Q) : F[i + Len(P)] = Q[i]
         /\ \A i \in 1..Len(D) : F[i + Len(P) + Len(Q)] = D[i]
<1> DEFINE PQ == P \o Q
<1>0. Len(P) \in Nat /\ Len(Q) \in Nat /\ Len(D) \in Nat
  BY LenProperties
<1>1. /\ PQ \in Seq(S) /\ Len(PQ) = Len(P) + Len(Q)
      /\ \A i \in 1..Len(PQ) : PQ[i] = IF i <= Len(P) THEN P[i] ELSE Q[i - Len(P)]
  BY ConcatProperties
<1> HIDE DEF PQ
<1>2. /\ F \in Seq(S) /\ Len(F) = Len(PQ) + Len(D)
      /\ \A i \in 1..(Len(PQ) + Len(D)) :
           F[i] = IF i <= Len(PQ) THEN PQ[i] ELSE D[i - Len(PQ)]
  BY <1>1, ConcatProperties DEF PQ
<1>3. DOMAIN F = 1..(Len(P) + Len(Q) + Len(D))
  BY <1>0, <1>1, <1>2, LenProperties
<1>4. \A i \in 1..Len(P) : F[i] = P[i]
  BY <1>0, <1>1, <1>2
<1>5. ASSUME NEW i \in 1..Len(Q) PROVE F[i + Len(P)] = Q[i]
  <2>1. i + Len(P) \in 1..Len(PQ) /\ ~(i + Len(P) <= Len(P)) /\ i + Len(P) - Len(P) = i
    BY <1>0, <1>1
  <2>2. PQ[i + Len(P)] = Q[i + Len(P) - Len(P)]
    BY <1>1, <2>1
  <2>3. i + Len(P) \in 1..(Len(PQ) + Len(D)) /\ i + Len(P) <= Len(PQ)
    BY <1>0, <1>1, <2>1
  <2> QED BY <1>2, <2>1, <2>2, <2>3
<1>6. ASSUME NEW i \in 1..Len(D) PROVE F[i + Len(P) + Len(Q)] = D[i]
  <2> DEFINE k == i + Len(P) + Len(Q)
  <2>1. k \in 1..(Len(PQ) + Len(D)) /\ ~(k <= Len(PQ)) /\ k - Len(PQ) = i
    BY <1>0, <1>1
  <2> HIDE DEF k
  <2>2. F[k] = D[i]
    BY <1>2, <2>1
  <2> QED BY <2>2 DEF k
<1> QED BY <1>0, <1>3, <1>4, <1>5, <1>6

\* What InFlight lists, oldest first, is what the three places hold.
LEMMA InFlightParts ==
  ASSUME IInv, Ordered
  PROVE  /\ NumbersInFlight = Publishing \cup Queued \cup Pending
         /\ \A i, j \in DOMAIN InFlight : i < j => InFlight[i].seq < InFlight[j].seq
<1> DEFINE P == IF publishing = None THEN <<>> ELSE <<publishing.report>>
           D == IF pending = None THEN <<>> ELSE <<pending>>
           p == Len(P)
           q == Len(queue)
           d == Len(D)
<1>1. P \in Seq(Report) /\ Publishing = {P[i].seq : i \in 1..p}
  <2>1. CASE publishing = None
    BY <2>1, EmptySeq DEF Publishing
  <2>2. CASE publishing # None
    <3>1. P = <<publishing.report>> /\ p = 1 /\ P[1] = publishing.report
      BY <2>2
    <3> HIDE DEF P
    <3> QED BY <2>2, <3>1, ReportTypes DEF Publishing
  <2> QED BY <2>1, <2>2
<1>2. D \in Seq(Report) /\ Pending = {D[i].seq : i \in 1..d}
  <2>1. CASE pending = None
    BY <2>1, EmptySeq DEF Pending
  <2>2. CASE pending # None
    <3>1. D = <<pending>> /\ d = 1 /\ D[1] = pending
      BY <2>2
    <3> HIDE DEF D
    <3> QED BY <2>2, <3>1, ReportTypes DEF Pending
  <2> QED BY <2>1, <2>2
<1>3. Queued = {queue[i].seq : i \in 1..q} /\ queue \in Seq(Report)
  BY ReportTypes DEF Queued
<1>4. p <= 1 /\ d <= 1
  BY EmptySeq
<1> DEFINE F == InFlight
<1>5. F = (P \o queue) \o D
  BY DEF InFlight
<1> HIDE DEF P, D, F
<1>6. /\ p \in Nat /\ q \in Nat /\ d \in Nat
      /\ DOMAIN F = 1..(p + q + d)
      /\ \A i \in 1..p : F[i] = P[i]
      /\ \A i \in 1..q : F[i + p] = queue[i]
      /\ \A i \in 1..d : F[i + p + q] = D[i]
  BY <1>1, <1>2, <1>3, <1>5, ThreeParts
<1> HIDE DEF p, q, d
<1>7. ASSUME NEW i \in 1..(p + q + d)
      PROVE  \/ i \in 1..p
             \/ i - p \in 1..q /\ F[i] = queue[i - p]
             \/ i - p - q \in 1..d /\ F[i] = D[i - p - q]
  <2>1. \/ i \in 1..p
        \/ i - p \in 1..q /\ (i - p) + p = i
        \/ i - p - q \in 1..d /\ (i - p - q) + p + q = i
    BY <1>6
  <2> QED BY <1>6, <2>1
<1>8. ASSUME NEW i \in 1..(p + q + d)
      PROVE  /\ i \in 1..p => F[i].seq \in Publishing
             /\ i - p \in 1..q => F[i].seq \in Queued
             /\ i - p - q \in 1..d => F[i].seq \in Pending
  <2>1. i \in 1..p => F[i].seq \in Publishing
    BY <1>1, <1>6
  <2>2. i - p \in 1..q => F[i] = queue[i - p]
    BY <1>6, <1>7
  <2>3. i - p - q \in 1..d => F[i] = D[i - p - q]
    BY <1>6, <1>7
  <2> QED BY <1>2, <1>3, <2>1, <2>2, <2>3
<1>9. NumbersInFlight = {F[i].seq : i \in 1..(p + q + d)}
  BY <1>6 DEF NumbersInFlight, F
<1>10. NumbersInFlight = Publishing \cup Queued \cup Pending
  <2>1. NumbersInFlight \subseteq Publishing \cup Queued \cup Pending
    BY <1>7, <1>8, <1>9
  <2>2. Publishing \subseteq NumbersInFlight
    <3>1. \A i \in 1..p : i \in 1..(p + q + d) /\ F[i] = P[i]
      BY <1>6
    <3> QED BY <1>1, <1>9, <3>1
  <2>3. Queued \subseteq NumbersInFlight
    <3>1. \A i \in 1..q : i + p \in 1..(p + q + d) /\ F[i + p] = queue[i]
      BY <1>6
    <3> QED BY <1>3, <1>9, <3>1
  <2>4. Pending \subseteq NumbersInFlight
    <3>1. \A i \in 1..d : i + p + q \in 1..(p + q + d) /\ F[i + p + q] = D[i]
      BY <1>6
    <3> QED BY <1>2, <1>9, <3>1
  <2> QED BY <2>1, <2>2, <2>3, <2>4
<1>11. ASSUME NEW i \in 1..(p + q + d), NEW j \in 1..(p + q + d), i < j
       PROVE  F[i].seq < F[j].seq
  <2>1. \/ i \in 1..p /\ (j - p \in 1..q \/ j - p - q \in 1..d)
        \/ i - p \in 1..q /\ j - p \in 1..q
        \/ i - p \in 1..q /\ j - p - q \in 1..d
    BY <1>4, <1>6, <1>11
  <2>2. CASE i - p \in 1..q /\ j - p \in 1..q
    <3>1. F[i] = queue[i - p] /\ F[j] = queue[j - p] /\ i - p < j - p
      BY <1>6, <1>7, <1>11, <2>2
    <3> QED BY <2>2, <3>1 DEF Ordered, q
  <2> QED BY <1>8, <2>1, <2>2 DEF Ordered
<1> QED BY <1>6, <1>10, <1>11 DEF F

\* No disconnect report is duplicated or goes astray between remove_disconnect_client
\* and the publisher, and they travel in the order the clients left.
THEOREM ReportsNeverAstray == Spec => []ReportsAccounted
<1>1. Init => Ordered /\ Accounted
  <2> SUFFICES ASSUME Init PROVE Ordered /\ Accounted
    OBVIOUS
  <2>1. Queued = {} /\ Publishing = {} /\ Pending = {} /\ Len(queue) = 0
    BY DEF Init, Queued, Publishing, Pending
  <2> QED BY <2>1 DEF Init, Ordered, Accounted
<1>2. IInv /\ (Ordered /\ Accounted) /\ [Next]_vars => (Ordered /\ Accounted)'
  BY ReportsStep
<1>3. IInv /\ Ordered /\ Accounted => ReportsAccounted
  BY InFlightParts DEF ReportsAccounted, Accounted
<1> QED BY <1>1, <1>2, <1>3, Invariance, PTL DEF Spec

=============================================================================
