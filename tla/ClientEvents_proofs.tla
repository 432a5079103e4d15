-------------------------- MODULE ClientEvents_proofs --------------------------
(***************************************************************************)
(* The table of clients and the queue of the event loop, for every set of  *)
(* clients and addresses, every table size and every queue length: nobody  *)
(* is missed, nobody stays but from start-up, addresses settle, and a      *)
(* grant ends for a reason.                                                *)
(*                                                                         *)
(* The queue is the difference between what the driver knows and what the  *)
(* event task has handled.  A chronicle spells it out: P[k] and L[k] are   *)
(* the stations present and their leases when k of the waiting events have *)
(* been handled, so P[0] is the world the table has been told of and the   *)
(* last one is the driver's own.                                           *)
(***************************************************************************)
EXTENDS ClientGrants_proofs

\* Event e tells of a change from stations p with leases f to q with leases g.
Move(e, p, q, f, g) ==
  \/ /\ e.kind = "connected" /\ e.mac \notin p /\ q = p \cup {e.mac}
     /\ f[e.mac] = None /\ g = f
  \/ /\ e.kind = "disconnected" /\ e.mac \in p /\ q = p \ {e.mac}
     /\ g = [f EXCEPT ![e.mac] = None]
  \/ /\ e.kind = "ip" /\ e.mac \in p /\ q = p
     /\ g = [f EXCEPT ![e.mac] = e.ip]

Leases == [Clients -> Addrs \cup {None}]

\* Events es lead from P[0], L[0] to the present stations and leases.
Chronicle(P, L, es, present, leases) ==
  /\ es \in Seq(Event)
  /\ P \in [0..Len(es) -> SUBSET Clients] /\ L \in [0..Len(es) -> Leases]
  /\ P[Len(es)] = present /\ L[Len(es)] = leases
  /\ \A k \in 1..Len(es) : Move(es[k], P[k-1], P[k], L[k-1], L[k])
  /\ \A k \in 0..Len(es) : Cardinality(P[k]) <= Stations

-----------------------------------------------------------------------------
(* What a chronicle says. *)

\* Who is there later and was not at first arrived in between.
LEMMA Arrival ==
  ASSUME NEW P, NEW L, NEW es, NEW now, NEW leases, Chronicle(P, L, es, now, leases),
         NEW i \in 0..Len(es), NEW m, m \notin P[0], m \in P[i]
  PROVE  \E k \in 1..i : es[k].kind = "connected" /\ es[k].mac = m
<1> DEFINE S == {k \in 0..i : m \in P[k]}
           k == FirstOf(S)
<1>1. k \in S /\ \A j \in S : k <= j
  <2>1. S \subseteq Nat /\ S # {}
    OBVIOUS
  <2> HIDE DEF S
  <2> QED BY <2>1, LeastOfNat
<1> HIDE DEF k
<1>2. k \in 1..i /\ m \in P[k] /\ m \notin P[k-1]
  BY <1>1
<1>3. k \in 1..Len(es)
  <2>1. Len(es) \in Nat
    BY LenProperties DEF Chronicle
  <2> QED BY <1>2, <2>1
<1>4. Move(es[k], P[k-1], P[k], L[k-1], L[k])
  BY <1>3 DEF Chronicle
<1>5. es[k].kind = "connected" /\ es[k].mac = m
  BY <1>2, <1>4 DEF Move
<1> QED BY <1>2, <1>5

\* Who was there at first and is not later left in between.
LEMMA Departure ==
  ASSUME NEW P, NEW L, NEW es, NEW now, NEW leases, Chronicle(P, L, es, now, leases),
         NEW i \in 0..Len(es), NEW m, m \in P[0], m \notin P[i]
  PROVE  \E k \in 1..i : es[k].kind = "disconnected" /\ es[k].mac = m
<1> DEFINE S == {k \in 0..i : m \notin P[k]}
           k == FirstOf(S)
<1>1. k \in S /\ \A j \in S : k <= j
  <2>1. S \subseteq Nat /\ S # {}
    OBVIOUS
  <2> HIDE DEF S
  <2> QED BY <2>1, LeastOfNat
<1> HIDE DEF k
<1>2. k \in 1..i /\ m \notin P[k] /\ m \in P[k-1]
  BY <1>1
<1>3. k \in 1..Len(es)
  <2>1. Len(es) \in Nat
    BY LenProperties DEF Chronicle
  <2> QED BY <1>2, <2>1
<1>4. Move(es[k], P[k-1], P[k], L[k-1], L[k])
  BY <1>3 DEF Chronicle
<1>5. es[k].kind = "disconnected" /\ es[k].mac = m
  BY <1>2, <1>4 DEF Move
<1> QED BY <1>2, <1>5

\* A client keeps its lease unless an event names it.
LEMMA LeaseKept ==
  ASSUME NEW P, NEW L, NEW es, NEW now, NEW leases, Chronicle(P, L, es, now, leases),
         NEW m \in Clients
  PROVE  L[0][m] = leases[m] \/ \E k \in 1..Len(es) : es[k].mac = m
<1> DEFINE S == {k \in 0..Len(es) : L[k][m] # L[0][m]}
           k == FirstOf(S)
<1>0. Len(es) \in Nat /\ L[Len(es)] = leases
  BY LenProperties DEF Chronicle
<1>1. SUFFICES ASSUME leases[m] # L[0][m]
      PROVE  \E i \in 1..Len(es) : es[i].mac = m
  OBVIOUS
<1>2. k \in S /\ \A j \in S : k <= j
  <2>1. S \subseteq Nat /\ S # {}
    BY <1>0, <1>1
  <2> HIDE DEF S
  <2> QED BY <2>1, LeastOfNat
<1> HIDE DEF k
<1>3. k \in 1..Len(es) /\ L[k][m] # L[0][m] /\ L[k-1][m] = L[0][m]
  BY <1>0, <1>2
<1>4. /\ Move(es[k], P[k-1], P[k], L[k-1], L[k])
      /\ L[k-1] \in Leases /\ L[k] \in Leases
  BY <1>0, <1>3 DEF Chronicle
<1>5. es[k].mac = m
  BY <1>3, <1>4 DEF Move, Leases
<1> QED BY <1>3, <1>5

\* The first station set of a chronicle is what the waiting events tell.
LEMMA SeenIsFirst ==
  ASSUME NEW P, NEW L, Chronicle(P, L, events, associated, lease), NEW m
  PROVE  SeenHere(m) <=> m \in P[0]
<1> DEFINE S == MovesOf(m)
           f == FirstOf(S)
<1>0. /\ Len(events) \in Nat /\ DOMAIN events = 1..Len(events)
      /\ P[Len(events)] = associated
  BY LenProperties DEF Chronicle
<1>1. S \subseteq 1..Len(events)
  BY <1>0 DEF MovesOf
<1>2. ASSUME NEW i \in 0..Len(events), \A k \in 1..i : k \notin S
      PROVE  m \in P[i] <=> m \in P[0]
  <2>1. \A k \in 1..i : k \in 1..Len(events)
    BY <1>0
  <2>2. \A k \in 1..i : ~(events[k].mac = m /\ events[k].kind \in {"connected", "disconnected"})
    BY <1>0, <1>2, <2>1 DEF MovesOf
  <2> QED BY <2>2, Arrival, Departure
<1>3. CASE S = {}
  <2>1. m \in P[Len(events)] <=> m \in P[0]
    BY <1>0, <1>2, <1>3
  <2> QED BY <1>0, <1>3, <2>1 DEF SeenHere
<1>4. CASE S # {}
  <2>1. f \in S /\ \A j \in S : f <= j
    <3>1. S \subseteq Nat
      BY <1>0, <1>1
    <3> HIDE DEF S
    <3> QED BY <1>4, <3>1, LeastOfNat
  <2>2. f \in 1..Len(events) /\ events[f].mac = m /\ events[f].kind # "ip"
    BY <1>1, <2>1 DEF MovesOf
  <2>3. SeenHere(m) <=> events[f].kind = "disconnected"
    BY <1>4 DEF SeenHere
  <2> HIDE DEF f
  <2>4. m \in P[f-1] <=> m \in P[0]
    <3>1. f - 1 \in 0..Len(events)
      BY <1>0, <2>2
    <3>2. \A k \in 1..(f-1) : k \notin S
      <4> HIDE DEF S
      <4> QED BY <2>1, <2>2
    <3> HIDE DEF S
    <3> QED BY <1>2, <3>1, <3>2
  <2>5. Move(events[f], P[f-1], P[f], L[f-1], L[f])
    BY <2>2 DEF Chronicle
  <2> QED BY <2>2, <2>3, <2>4, <2>5 DEF Move
<1> QED BY <1>3, <1>4

-----------------------------------------------------------------------------
(* How a chronicle grows and shrinks. *)

LEMMA NoEvents ==
  ASSUME Stations \in Nat
  PROVE  Chronicle([k \in 0..0 |-> {}], [k \in 0..0 |-> [m \in Clients |-> None]],
                   <<>>, {}, [m \in Clients |-> None])
<1>1. Len(<<>>) = 0 /\ <<>> \in Seq(Event) /\ Cardinality({}) = 0
  BY EmptySeq, FS_EmptySet
<1> QED BY <1>1 DEF Chronicle, Leases

\* The driver or the DHCP server posts an event.
LEMMA Posted ==
  ASSUME NEW P, NEW L, NEW es, NEW now, NEW leases, Chronicle(P, L, es, now, leases),
         NEW e \in Event, NEW now2 \in SUBSET Clients, NEW leases2 \in Leases,
         Move(e, now, now2, leases, leases2), Cardinality(now2) <= Stations
  PROVE  \E Q, M : /\ Chronicle(Q, M, Append(es, e), now2, leases2)
                   /\ Q[0] = P[0]
<1> DEFINE n == Len(es)
           fs == Append(es, e)
           Q == [k \in 0..(n + 1) |-> IF k = n + 1 THEN now2 ELSE P[k]]
           M == [k \in 0..(n + 1) |-> IF k = n + 1 THEN leases2 ELSE L[k]]
<1>1. /\ n \in Nat /\ es \in Seq(Event) /\ P \in [0..n -> SUBSET Clients]
      /\ L \in [0..n -> Leases] /\ P[n] = now /\ L[n] = leases
      /\ \A k \in 1..n : Move(es[k], P[k-1], P[k], L[k-1], L[k])
      /\ \A k \in 0..n : Cardinality(P[k]) <= Stations
  BY LenProperties DEF Chronicle
<1>2. /\ fs \in Seq(Event) /\ Len(fs) = n + 1
      /\ \A k \in 1..n : fs[k] = es[k]
      /\ fs[n + 1] = e
  BY <1>1, AppendProperties
<1>3. /\ Q \in [0..(n+1) -> SUBSET Clients] /\ M \in [0..(n+1) -> Leases]
      /\ Q[n+1] = now2 /\ M[n+1] = leases2
      /\ \A k \in 0..n : Q[k] = P[k] /\ M[k] = L[k]
  BY <1>1
<1> HIDE DEF fs, Q, M, n
<1>4. ASSUME NEW k \in 1..(n + 1)
      PROVE  Move(fs[k], Q[k-1], Q[k], M[k-1], M[k])
  <2>1. CASE k = n + 1
    <3>1. k - 1 = n /\ n \in 0..n
      BY <1>1, <2>1
    <3>2. fs[k] = e /\ Q[k-1] = now /\ Q[k] = now2 /\ M[k-1] = leases /\ M[k] = leases2
      BY <1>1, <1>2, <1>3, <2>1, <3>1
    <3> QED BY <3>2
  <2>2. CASE k # n + 1
    <3>1. k \in 1..n /\ k \in 0..n /\ k - 1 \in 0..n
      BY <1>1, <2>2
    <3> QED BY <1>1, <1>2, <1>3, <3>1
  <2> QED BY <2>1, <2>2
<1>5. ASSUME NEW k \in 0..(n + 1) PROVE Cardinality(Q[k]) <= Stations
  <2>1. k = n + 1 \/ k \in 0..n
    BY <1>1
  <2> QED BY <1>1, <1>3, <2>1
<1>6. Chronicle(Q, M, fs, now2, leases2)
  BY <1>2, <1>3, <1>4, <1>5 DEF Chronicle
<1>7. Q[0] = P[0]
  BY <1>1, <1>3
<1> QED BY <1>6, <1>7 DEF fs

\* The event task takes the first event.
LEMMA Taken ==
  ASSUME NEW P, NEW L, NEW es, NEW now, NEW leases, Chronicle(P, L, es, now, leases),
         es # <<>>
  PROVE  /\ Move(Head(es), P[0], P[1], L[0], L[1]) /\ Cardinality(P[1]) <= Stations
         /\ P[0] \subseteq Clients /\ P[1] \subseteq Clients
         /\ L[0] \in Leases /\ L[1] \in Leases
         /\ \E Q, M : /\ Chronicle(Q, M, Tail(es), now, leases)
                      /\ Q[0] = P[1] /\ M[0] = L[1]
<1> DEFINE n == Len(es)
           fs == Tail(es)
           Q == [k \in 0..(n - 1) |-> P[k + 1]]
           M == [k \in 0..(n - 1) |-> L[k + 1]]
<1>1. /\ n \in Nat \ {0} /\ es \in Seq(Event) /\ P \in [0..n -> SUBSET Clients]
      /\ L \in [0..n -> Leases] /\ P[n] = now /\ L[n] = leases
      /\ \A k \in 1..n : Move(es[k], P[k-1], P[k], L[k-1], L[k])
      /\ \A k \in 0..n : Cardinality(P[k]) <= Stations
  BY LenProperties, EmptySeq DEF Chronicle
<1>2. /\ fs \in Seq(Event) /\ Len(fs) = n - 1 /\ Head(es) = es[1]
      /\ \A k \in 1..(n - 1) : fs[k] = es[k + 1]
  BY <1>1, HeadTailProperties
<1> HIDE DEF fs, n
<1>3. \A k \in 0..(n-1) : k + 1 \in 0..n /\ k + 1 \in 1..n
  BY <1>1
<1>4. /\ Q \in [0..(n-1) -> SUBSET Clients] /\ M \in [0..(n-1) -> Leases]
      /\ \A k \in 0..(n-1) : Q[k] = P[k + 1] /\ M[k] = L[k + 1]
  BY <1>1, <1>3
<1> HIDE DEF Q, M
<1>5. Q[n-1] = now /\ M[n-1] = leases
  <2>1. n - 1 \in 0..(n-1) /\ (n - 1) + 1 = n
    BY <1>1
  <2> QED BY <1>1, <1>4, <2>1
<1>6. ASSUME NEW k \in 1..(n - 1)
      PROVE  Move(fs[k], Q[k-1], Q[k], M[k-1], M[k])
  <2>1. k + 1 \in 1..n /\ k - 1 \in 0..(n-1) /\ k \in 0..(n-1) /\ (k - 1) + 1 = k /\ (k + 1) - 1 = k
    BY <1>1
  <2>2. Move(es[k+1], P[(k+1)-1], P[k+1], L[(k+1)-1], L[k+1])
    BY <1>1, <2>1
  <2>3. Q[k-1] = P[k] /\ Q[k] = P[k+1] /\ M[k-1] = L[k] /\ M[k] = L[k+1] /\ fs[k] = es[k+1]
    BY <1>2, <1>4, <2>1
  <2> QED BY <2>1, <2>2, <2>3
<1>7. \A k \in 0..(n-1) : Cardinality(Q[k]) <= Stations
  BY <1>1, <1>3, <1>4
<1>8. Chronicle(Q, M, fs, now, leases)
  BY <1>2, <1>4, <1>5, <1>6, <1>7 DEF Chronicle
<1>9. Q[0] = P[1] /\ M[0] = L[1]
  <2>1. 0 \in 0..(n-1) /\ 0 + 1 = 1
    BY <1>1
  <2> QED BY <1>4, <2>1
<1>10. /\ Move(es[1], P[0], P[1], L[0], L[1]) /\ Cardinality(P[1]) <= Stations
       /\ P[0] \subseteq Clients /\ P[1] \subseteq Clients
       /\ L[0] \in Leases /\ L[1] \in Leases
  <2>1. 1 \in 1..n /\ 1 \in 0..n /\ 0 \in 0..n /\ 1 - 1 = 0
    BY <1>1
  <2> QED BY <1>1, <2>1
<1> QED BY <1>2, <1>8, <1>9, <1>10 DEF fs

-----------------------------------------------------------------------------
(* What the steps do to the clients and addresses of the table. *)

KeepsAddresses ==
  \A i \in Slots : clients'[i].mac = clients[i].mac /\ clients'[i].ip = clients[i].ip

\* The steps that have nothing to do with events, stations and addresses.
QuietStep ==
  /\ KeepsAddresses
  /\ UNCHANGED <<associated, lease, events, overwritten, turnedAway, bootSeen, handlers>>
  /\ UNCHANGED <<pc, stationList>> \/ (Started /\ Started')

LEMMA SameTracked == KeepsAddresses => Tracked' = Tracked
BY DEF KeepsAddresses, Tracked

\* track_connected_client, when there is a place.
LEMMA TrackConnectedTable ==
  ASSUME TableOK, NEW m \in Clients, TrackConnected(m), PlacesFor(m) # {}
  PROVE  /\ \E j \in Slots : /\ clients'[j] = TrackedEntry(m) /\ clients[j].mac \in {m, None}
                             /\ \A i \in Slots \ {j} : clients'[i] = clients[i] /\ clients[i].mac # m
         /\ Tracked' = Tracked \cup {m}
<1> DEFINE j == FirstOf(PlacesFor(m))
<1>1. j \in PlacesFor(m) /\ j \in Slots
  <2>1. PlacesFor(m) \subseteq Slots
    BY DEF PlacesFor, SlotsOf
  <2> QED BY <2>1, FirstOfSlots
<1>2. clients' = [clients EXCEPT ![j] = TrackedEntry(m)]
  BY DEF TrackConnected
<1> HIDE DEF j
<1>3. clients[j].mac \in {m, None}
  BY <1>1 DEF PlacesFor, SlotsOf
<1>4. ASSUME NEW i \in Slots \ {j} PROVE clients'[i] = clients[i] /\ clients[i].mac # m
  <2>1. clients'[i] = clients[i]
    BY <1>2 DEF TableOK
  <2>2. CASE SlotsOf(m) # {}
    <3>1. clients[j].mac = m /\ m # None
      BY <1>1, <2>2, ClientAccessAssumption DEF PlacesFor, SlotsOf
    <3> QED BY <1>1, <2>1, <3>1 DEF TableOK, NoDuplicateMac
  <2>3. CASE SlotsOf(m) = {}
    BY <2>1, <2>3 DEF SlotsOf
  <2> QED BY <2>2, <2>3
<1>5. clients'[j] = TrackedEntry(m)
  BY <1>1, <1>2 DEF TableOK
<1>6. TrackedEntry(m).mac = m /\ m # None
  BY EntryTypes, ClientAccessAssumption
<1>7. Tracked' = Tracked \cup {m}
  BY <1>1, <1>3, <1>4, <1>5, <1>6 DEF Tracked
<1> QED BY <1>1, <1>3, <1>4, <1>5, <1>7

\* track_client_ip.
LEMMA TrackIpTable ==
  ASSUME TableOK, NEW m \in Clients, NEW a \in Addrs \cup {None}, TrackIp(m, a)
  PROVE  /\ \A i \in Slots : /\ clients'[i].mac = clients[i].mac
                             /\ clients[i].mac = m => clients'[i].ip = a
                             /\ clients[i].mac # m => clients'[i] = clients[i]
         /\ Tracked' = Tracked
<1>1. CASE SlotsOf(m) = {}
  BY <1>1 DEF TrackIp, SlotsOf, Tracked
<1>2. CASE SlotsOf(m) # {}
  <2> DEFINE j == FirstOf(SlotsOf(m))
             e == [clients[j] EXCEPT !.ip = a]
  <2>1. j \in Slots /\ clients[j].mac = m /\ m # None
    BY <1>2, TrackedSlot, ClientAccessAssumption
  <2>2. e.mac = clients[j].mac /\ e.ip = a
    <3>1. clients[j] \in Entry
      BY <2>1 DEF TableOK
    <3> QED BY <3>1 DEF Entry
  <2>3. clients' = [clients EXCEPT ![j] = e]
    BY <1>2 DEF TrackIp
  <2> HIDE DEF e, j
  <2>4. \A i \in Slots : clients'[i] = IF i = j THEN e ELSE clients[i]
    BY <2>1, <2>3 DEF TableOK
  <2>5. \A i \in Slots : clients[i].mac = m => i = j
    BY <2>1 DEF TableOK, NoDuplicateMac
  <2>6. \A i \in Slots : /\ clients'[i].mac = clients[i].mac
                         /\ clients[i].mac = m => clients'[i].ip = a
                         /\ clients[i].mac # m => clients'[i] = clients[i]
    BY <2>1, <2>2, <2>4, <2>5
  <2> QED BY <2>6 DEF Tracked
<1> QED BY <1>1, <1>2

\* remove_disconnect_client.
LEMMA RemovalTable ==
  ASSUME TableOK, Rest, HandleDisconnected
  PROVE  LET m == Head(events).mac
         IN  /\ \A i \in Slots : clients'[i] = IF clients[i].mac = m THEN FreeEntry ELSE clients[i]
             /\ Tracked' = Tracked \ {m}
<1> DEFINE m == Head(events).mac
           j == FirstOf(SlotsOf(m))
<1>1. m \in Clients /\ m # None /\ FreeEntry.mac = None
  BY HeadEvent, EntryTypes, ClientAccessAssumption DEF HandleDisconnected
<1>2. CASE m \in Tracked
  <2>1. j \in Slots /\ clients[j].mac = m
    BY <1>1, <1>2, TrackedSlot
  <2>2. clients' = [clients EXCEPT ![j] = FreeEntry]
    BY <1>2 DEF HandleDisconnected, RemoveClient
  <2> HIDE DEF j, m
  <2>3. \A i \in Slots : clients'[i] = IF i = j THEN FreeEntry ELSE clients[i]
    BY <2>1, <2>2 DEF TableOK
  <2>4. \A i \in Slots : clients[i].mac = m => i = j
    BY <1>1, <2>1 DEF TableOK, NoDuplicateMac
  <2>5. \A i \in Slots : clients'[i] = IF clients[i].mac = m THEN FreeEntry ELSE clients[i]
    BY <2>1, <2>3, <2>4
  <2>6. Tracked' = Tracked \ {m}
    BY <1>1, <2>5 DEF Tracked
  <2> QED BY <2>5, <2>6 DEF m
<1>3. CASE m \notin Tracked
  <2>1. UNCHANGED clients
    BY <1>3 DEF HandleDisconnected
  <2> HIDE DEF m
  <2>2. \A i \in Slots : clients[i].mac # m
    BY <1>1, <1>3 DEF Tracked
  <2> QED BY <1>3, <2>1, <2>2 DEF Tracked, m
<1> QED BY <1>2, <1>3

\* Steps that end or make a grant leave clients and addresses alone.
LEMMA GrantAddresses ==
  ASSUME TableOK, NEW j \in Slots, NEW e, clients' = [clients EXCEPT ![j] = e],
         e.mac = clients[j].mac, e.ip = clients[j].ip
  PROVE  KeepsAddresses
<1>1. \A i \in Slots : clients'[i] = IF i = j THEN e ELSE clients[i]
  BY DEF TableOK
<1> QED BY <1>1 DEF KeepsAddresses

LEMMA DemotedAddress ==
  ASSUME NEW e \in Entry
  PROVE  Demoted(e).mac = e.mac /\ Demoted(e).ip = e.ip
BY DEF Demoted, Entry

LEMMA DemoteAddresses ==
  ASSUME TableOK, NEW j \in Slots, clients' = [clients EXCEPT ![j] = Demoted(@)]
  PROVE  KeepsAddresses
<1>1. clients[j] \in Entry
  BY DEF TableOK
<1>2. clients' = [clients EXCEPT ![j] = Demoted(clients[j])]
  BY DEF TableOK
<1> QED BY <1>1, <1>2, DemotedAddress, GrantAddresses

LEMMA QuietSteps ==
  ASSUME IInv,
         \/ SendReport \/ Publisher \/ Advance \/ UplinkChange \/ PortalResolve
         \/ BeginPass \/ ListStations \/ Sweep \/ RefreshRssi
         \/ \E a \in Addrs : ExpireOnPacket(a) \/ PortalMiss(a)
         \/ \E m \in Clients, s \in Sessions : Revoke(m, s) \/ (\E t \in Ttls : Allow(m, s, t))
         \/ UNCHANGED vars
  PROVE  QuietStep
<1>0. TableOK
  BY Split
<1>1. CASE SendReport \/ Publisher \/ Advance \/ UplinkChange \/ PortalResolve \/ UNCHANGED vars
           \/ \E a \in Addrs : PortalMiss(a)
  <2>1. UNCHANGED <<driverVars, clients, mainVars, overwritten, turnedAway>>
    BY <1>1 DEF SendReport, Publisher, TakeReport, PublishReport, PublishFails, Advance,
       UplinkChange, PortalResolve, PortalMiss, vars, mainVars
  <2> QED BY <2>1 DEF QuietStep, KeepsAddresses, driverVars, mainVars
<1>2. CASE BeginPass \/ ListStations
  BY <1>2 DEF BeginPass, ListStations, QuietStep, KeepsAddresses, driverVars, Started
<1>3. CASE Sweep
  <2>1. \A i \in Slots : clients'[i] = Demoted(clients[i]) \/ clients'[i] = clients[i]
    BY <1>3 DEF Sweep
  <2>2. KeepsAddresses
    BY <1>0, <2>1, DemotedAddress DEF KeepsAddresses, TableOK
  <2> QED BY <1>3, <2>2 DEF Sweep, QuietStep, driverVars, Started
<1>4. CASE RefreshRssi
  <2> DEFINE seen(i) == \E j \in DOMAIN stationList : stationList[j].mac = clients[i].mac
  <2>1. \A i \in Slots : clients'[i] = [clients[i] EXCEPT !.rssi = seen(i)]
    BY <1>4 DEF RefreshRssi
  <2>2. \A i \in Slots : clients[i] \in Entry
    BY <1>0 DEF TableOK
  <2> HIDE DEF seen
  <2>3. KeepsAddresses
    BY <2>1, <2>2 DEF KeepsAddresses, Entry
  <2> QED BY <1>4, <2>3 DEF RefreshRssi, QuietStep, driverVars, Started
<1>5. ASSUME NEW a \in Addrs, ExpireOnPacket(a) PROVE QuietStep
  <2>1. FirstOf(SlotsAt(a)) \in Slots
    BY <1>5, FirstOfSlots DEF ExpireOnPacket, SlotsAt
  <2>2. KeepsAddresses
    BY <1>0, <1>5, <2>1, DemoteAddresses DEF ExpireOnPacket
  <2> QED BY <1>5, <2>2 DEF ExpireOnPacket, QuietStep, driverVars, mainVars
<1>6. ASSUME NEW m \in Clients, NEW s \in Sessions, Revoke(m, s) PROVE QuietStep
  <2>1. KeepsAddresses
    <3>1. CASE m \in Tracked /\ RevokeMatches(EntryOf(m), s)
      <4>1. FirstOf(SlotsOf(m)) \in Slots
        BY <1>0, <3>1, TrackedSlot
      <4>2. clients' = [clients EXCEPT ![FirstOf(SlotsOf(m))] = Demoted(@)]
        BY <1>6, <3>1 DEF Revoke
      <4> QED BY <1>0, <4>1, <4>2, DemoteAddresses
    <3>2. CASE ~ (m \in Tracked /\ RevokeMatches(EntryOf(m), s))
      BY <1>6, <3>2 DEF Revoke, KeepsAddresses
    <3> QED BY <3>1, <3>2
  <2> QED BY <1>6, <2>1 DEF Revoke, QuietStep, driverVars, mainVars
<1>7. ASSUME NEW m \in Clients, NEW s \in Sessions, NEW t \in Ttls, Allow(m, s, t)
      PROVE  QuietStep
  <2> DEFINE j == FirstOf(SlotsOf(m))
             e == [clients[j] EXCEPT !.state = "AUTHORIZED", !.session = s,
                                     !.authorized_at = clock, !.ttl = t]
  <2>1. j \in Slots
    BY <1>0, <1>7, TrackedSlot DEF Allow
  <2>2. e.mac = clients[j].mac /\ e.ip = clients[j].ip
    <3>1. clients[j] \in Entry
      BY <1>0, <2>1 DEF TableOK
    <3> QED BY <3>1 DEF Entry
  <2>3. clients' = [clients EXCEPT ![j] = e]
    BY <1>0, <1>7, <2>1 DEF Allow, Authorized, TableOK
  <2> HIDE DEF e, j
  <2>4. KeepsAddresses
    BY <1>0, <2>1, <2>2, <2>3, GrantAddresses
  <2> QED BY <1>7, <2>4 DEF Allow, QuietStep, driverVars, mainVars
<1> QED BY <1>1, <1>2, <1>3, <1>4, <1>5, <1>6, <1>7

LEMMA StepCases ==
  ASSUME IInv, [Next]_vars
  PROVE  \/ QuietStep
         \/ \E m \in Clients : Associate(m) \/ Leave(m) \/ (\E a \in Addrs : AssignAddress(m, a))
         \/ HandleConnected \/ HandleDisconnected \/ HandleIp \/ DiscardEvent
         \/ RegisterHandler \/ ListExisting \/ LookUpLeases
         \/ TrackExisting \/ TrackExistingIp \/ RestartOnFailedStart
         \/ PortalRecord
BY QuietSteps DEF Next, EventTask, MainTask

-----------------------------------------------------------------------------
(* The queue of events and the station list, as sets. *)

Listed  == {stationList[j].mac : j \in 1..Len(stationList)}
Named   == {events[k].mac : k \in 1..Len(events)}
Arrives == {m \in Clients : \E k \in 1..Len(events) :
              events[k].kind = "connected" /\ events[k].mac = m}

LEMMA EventsKept ==
  ASSUME Rest, UNCHANGED events
  PROVE  Named' = Named /\ Arrives' = Arrives
BY DEF Named, Arrives

LEMMA EventPosted ==
  ASSUME Rest, NEW e, e \in Event, events' = Append(events, e)
  PROVE  /\ Named' = Named \cup {e.mac}
         /\ Arrives' = Arrives \cup (IF e.kind = "connected" THEN {e.mac} ELSE {})
<1> DEFINE n == Len(events)
<1>1. /\ n \in Nat /\ Len(events') = n + 1 /\ events'[n + 1] = e
      /\ \A k \in 1..n : events'[k] = events[k]
  BY AppendProperties, LenProperties DEF Rest
<1>2. 1..Len(events') = 1..n \cup {n + 1}
  BY <1>1
<1>3. e.mac \in Clients
  BY DEF Event
<1> QED BY <1>1, <1>2, <1>3 DEF Named, Arrives

LEMMA EventTaken ==
  ASSUME Rest, events # <<>>, events' = Tail(events)
  PROVE  /\ Named = Named' \cup {Head(events).mac}
         /\ Arrives = Arrives' \cup (IF Head(events).kind = "connected" THEN {Head(events).mac} ELSE {})
<1> DEFINE n == Len(events)
<1>1. /\ n \in Nat \ {0} /\ Len(events') = n - 1 /\ Head(events) = events[1]
      /\ \A k \in 1..(n - 1) : events'[k] = events[k + 1]
  BY HeadTailProperties, LenProperties, EmptySeq DEF Rest
<1>2. Head(events).mac \in Clients
  <2>1. Head(events) \in Event
    BY HeadTail DEF Rest
  <2> QED BY <2>1 DEF Event
<1>3. \A k \in 1..n : k = 1 \/ (k - 1 \in 1..Len(events') /\ events'[k - 1] = events[k])
  BY <1>1
<1>4. \A k \in 1..Len(events') : k + 1 \in 1..n /\ events'[k] = events[k + 1]
  BY <1>1
<1>5. 1 \in 1..n
  BY <1>1
<1>6. Named = Named' \cup {Head(events).mac}
  BY <1>1, <1>3, <1>4, <1>5 DEF Named
<1>7. Arrives = Arrives' \cup (IF Head(events).kind = "connected" THEN {Head(events).mac} ELSE {})
  <2>1. ASSUME NEW m \in Arrives
        PROVE  m \in Arrives' \/ (Head(events).kind = "connected" /\ m = Head(events).mac)
    BY <1>1, <1>3 DEF Arrives
  <2>2. ASSUME NEW m \in Arrives' PROVE m \in Arrives
    BY <1>4 DEF Arrives
  <2>3. Head(events).kind = "connected" => Head(events).mac \in Arrives
    BY <1>1, <1>2, <1>5 DEF Arrives
  <2> QED BY <2>1, <2>2, <2>3
<1> QED BY <1>6, <1>7

\* The driver's answer names every station once: no station is left out.
LEMMA ListComplete ==
  ASSUME Rest, NEW l \in StationLists
  PROVE  {l[j].mac : j \in 1..Len(l)} = associated
<1> DEFINE n == Cardinality(associated)
           f == [i \in 1..n |-> l[i].mac]
<1>1. IsFiniteSet(associated) /\ n \in Nat
  BY FS_Subset, FS_CardinalityType, ClientAccessAssumption DEF Rest
<1>2. /\ l \in [1..n -> [mac : associated, ip : {None}]]
      /\ \A i, j \in 1..n : l[i].mac = l[j].mac => i = j
  BY DEF StationLists
<1>3. Len(l) = n
  <2> HIDE DEF n
  <2>1. n \in Nat
    BY <1>1 DEF n
  <2> QED BY <1>2, <2>1
<1> HIDE DEF n
<1>4. f \in [1..n -> associated] /\ \A i, j \in 1..n : f[i] = f[j] => i = j
  BY <1>2
<1>5. f \in Injection(1..n, associated)
  BY <1>4 DEF Injection, IsInjective
<1>6. Cardinality(1..n) = Cardinality(associated) /\ IsFiniteSet(1..n)
  BY <1>1, FS_Interval DEF n
<1>7. f \in Surjection(1..n, associated)
  <2> HIDE DEF f
  <2> QED BY <1>1, <1>5, <1>6, FS_Injection
<1>8. \A m \in associated : \E i \in 1..n : f[i] = m
  BY <1>7 DEF Surjection
<1> QED BY <1>2, <1>3, <1>8

LEMMA LookUpKeepsList ==
  ASSUME IInv, LookUpLeases
  PROVE  Listed' = Listed
<1> DEFINE S == [mac : Clients, ip : Addrs \cup {None}]
           n == Len(stationList)
<1>1. stationList \in Seq(S) /\ n \in Nat /\ DOMAIN stationList = 1..n
  BY Split, LenProperties DEF Rest
<1>2. /\ DOMAIN stationList' = 1..n
      /\ \A i \in 1..n : stationList'[i].mac = stationList[i].mac
  BY <1>1 DEF LookUpLeases
<1>3. Len(stationList') = n
  <2>1. stationList' \in Seq(S)
    BY StartSteps, Split DEF Rest
  <2> HIDE DEF S, n
  <2> QED BY <1>1, <1>2, <2>1, LenProperties
<1> HIDE DEF n
<1> QED BY <1>2, <1>3 DEF Listed, n

LEMMA DoneList ==
  ASSUME Rest, pc \in {"track", "trackIp"}, DoneWithStation
  PROVE  /\ Listed = Listed' \cup {Head(stationList).mac}
         /\ pc' = "loop" => Listed' = {}
<1> DEFINE n == Len(stationList)
<1>0. stationList' = Tail(stationList) /\ (pc' = "loop" => n = 1)
  BY DEF DoneWithStation
<1>1. /\ n \in Nat \ {0} /\ Len(stationList') = n - 1 /\ Head(stationList) = stationList[1]
      /\ \A k \in 1..(n - 1) : stationList'[k] = stationList[k + 1]
  BY <1>0, HeadTailProperties, LenProperties, EmptySeq DEF Rest, ListLeft
<1>3. \A k \in 1..n : k = 1 \/ (k - 1 \in 1..Len(stationList') /\ stationList'[k - 1] = stationList[k])
  BY <1>1
<1>4. \A k \in 1..Len(stationList') : k + 1 \in 1..n /\ stationList'[k] = stationList[k + 1]
  BY <1>1
<1>5. 1 \in 1..n
  BY <1>1
<1>6. Listed = Listed' \cup {Head(stationList).mac}
  BY <1>1, <1>3, <1>4, <1>5 DEF Listed
<1>7. pc' = "loop" => Listed' = {}
  BY <1>0, <1>1 DEF Listed
<1> QED BY <1>6, <1>7

LEMMA HeadListed ==
  ASSUME Rest, pc \in {"track", "trackIp"}
  PROVE  Head(stationList).mac \in Listed
<1>1. Len(stationList) \in Nat \ {0} /\ Head(stationList) = stationList[1]
  BY HeadTailProperties, LenProperties, EmptySeq DEF Rest, ListLeft
<1> QED BY <1>1 DEF Listed

-----------------------------------------------------------------------------
(* The inductive invariant. *)

\* The waiting events lead from what the table was told to what the driver
\* knows; a client that is tracked was there at first, or is left from start-up.
Chronicled ==
  \E P, L : /\ Chronicle(P, L, events, associated, lease)
            /\ pc \notin {"register", "list"} => Tracked \subseteq P[0] \cup bootSeen

\* Start-up: no event is discarded once the list is read, and only what was seen
\* is listed.
StartBooks ==
  /\ \A m \in Clients : m \notin associated => lease[m] = None
  /\ pc # "register" => handlers = Kinds
  /\ pc \in {"leases", "track", "trackIp"} => Listed \subseteq bootSeen

\* NoClientMissed, over the sets.
NobodyMissed ==
  pc \notin {"register", "list"} =>
    associated \subseteq Tracked \cup Arrives \cup turnedAway \cup (IF Started THEN {} ELSE Listed)

\* AddressesSettle, slot by slot and from the listing on.
Settled ==
  pc \notin {"register", "list"} =>
    \A m \in associated : \A i \in Slots : clients[i].mac = m =>
      \/ clients[i].ip = lease[m]
      \/ m \in overwritten \cup Named \cup (IF Started THEN {} ELSE Listed)

EInv == Chronicled /\ StartBooks /\ NobodyMissed /\ Settled

LEMMA InitBooks == Init => EInv
<1> SUFFICES ASSUME Init PROVE EInv
  OBVIOUS
<1>1. Chronicled
  BY NoEvents, ClientAccessAssumption DEF Init, Chronicled
<1> QED BY <1>1 DEF Init, EInv, StartBooks, NobodyMissed, Settled

-----------------------------------------------------------------------------
(* Every step keeps the chronicle. *)

LEMMA DriverChronicle ==
  ASSUME IInv, Chronicled, StartBooks, NEW m \in Clients,
         Associate(m) \/ Leave(m) \/ (\E a \in Addrs : AssignAddress(m, a))
  PROVE  Chronicled'
<1>0. /\ associated \in SUBSET Clients /\ lease \in Leases /\ IsFiniteSet(associated)
      /\ Stations \in Nat /\ Cardinality(associated) \in Nat
  BY Split, FS_Subset, FS_CardinalityType, ClientAccessAssumption DEF Rest, Leases
<1>1. PICK P, L : /\ Chronicle(P, L, events, associated, lease)
                  /\ pc \notin {"register", "list"} => Tracked \subseteq P[0] \cup bootSeen
  BY DEF Chronicled
<1>2. Cardinality(associated) <= Stations
  <2>1. Len(events) \in 0..Len(events) /\ P[Len(events)] = associated
    BY <1>1, LenProperties DEF Chronicle
  <2> QED BY <1>1, <2>1 DEF Chronicle
<1>3. ASSUME NEW e \in Event, events' = Append(events, e), UNCHANGED <<pc, clients, bootSeen>>,
             associated' \in SUBSET Clients, lease' \in Leases,
             Move(e, associated, associated', lease, lease'), Cardinality(associated') <= Stations
      PROVE  Chronicled'
  <2>1. PICK Q, M : /\ Chronicle(Q, M, Append(events, e), associated', lease')
                    /\ Q[0] = P[0]
    BY <1>1, <1>3, Posted
  <2>2. Tracked' = Tracked
    BY <1>3 DEF Tracked
  <2>3. Chronicle(Q, M, events', associated', lease')
    BY <1>3, <2>1
  <2> QED BY <1>1, <1>3, <2>1, <2>2, <2>3 DEF Chronicled
<1>4. CASE Associate(m)
  <2> DEFINE e == [kind |-> "connected", mac |-> m, ip |-> None]
  <2>1. e \in Event /\ e.kind = "connected" /\ e.mac = m
    BY DEF Event, Kinds
  <2>2. /\ events' = Append(events, e) /\ UNCHANGED <<pc, clients, bootSeen, lease>>
        /\ associated' = associated \cup {m} /\ m \notin associated
        /\ Cardinality(associated) < Stations
    BY <1>4 DEF Associate, Post, mainVars
  <2>3. Cardinality(associated') <= Stations
    <3>1. Cardinality(associated \cup {m}) = Cardinality(associated) + 1
      BY <1>0, <2>2, FS_AddElement
    <3> QED BY <1>0, <2>2, <3>1
  <2>4. lease[m] = None
    BY <2>2 DEF StartBooks
  <2> HIDE DEF e
  <2>5. Move(e, associated, associated', lease, lease')
    BY <2>1, <2>2, <2>4 DEF Move
  <2> QED BY <1>0, <1>3, <2>1, <2>2, <2>3, <2>5
<1>5. CASE Leave(m)
  <2> DEFINE e == [kind |-> "disconnected", mac |-> m, ip |-> None]
  <2>1. e \in Event /\ e.kind = "disconnected" /\ e.mac = m
    BY DEF Event, Kinds
  <2>2. /\ events' = Append(events, e) /\ UNCHANGED <<pc, clients, bootSeen>>
        /\ associated' = associated \ {m} /\ m \in associated
        /\ lease' = [lease EXCEPT ![m] = None]
    BY <1>5 DEF Leave, Post, mainVars
  <2>3. Cardinality(associated') <= Stations
    <3>1. Cardinality(associated \ {m}) = Cardinality(associated) - 1
      BY <1>0, <2>2, FS_RemoveElement
    <3> QED BY <1>0, <1>2, <2>2, <3>1
  <2>4. lease' \in Leases
    BY <1>0, <2>2 DEF Leases
  <2> HIDE DEF e
  <2>5. Move(e, associated, associated', lease, lease')
    BY <2>1, <2>2 DEF Move
  <2> QED BY <1>0, <1>3, <2>1, <2>2, <2>3, <2>4, <2>5
<1>6. ASSUME NEW a \in Addrs, AssignAddress(m, a) PROVE Chronicled'
  <2> DEFINE e == [kind |-> "ip", mac |-> m, ip |-> a]
  <2>1. e \in Event /\ e.kind = "ip" /\ e.mac = m /\ e.ip = a
    BY DEF Event, Kinds
  <2>2. /\ events' = Append(events, e) /\ UNCHANGED <<pc, clients, bootSeen, associated>>
        /\ m \in associated /\ lease' = [lease EXCEPT ![m] = a]
    BY <1>6 DEF AssignAddress, Post, mainVars
  <2>3. lease' \in Leases
    BY <1>0, <2>2 DEF Leases
  <2> HIDE DEF e
  <2>4. Move(e, associated, associated', lease, lease')
    BY <2>1, <2>2 DEF Move
  <2> QED BY <1>0, <1>2, <1>3, <2>1, <2>2, <2>3, <2>4
<1> QED BY <1>4, <1>5, <1>6

\* The event task: the table moves as the first event of the chronicle says.
LEMMA HandlerChronicle ==
  ASSUME IInv, Chronicled, StartBooks,
         HandleConnected \/ HandleDisconnected \/ HandleIp \/ DiscardEvent
  PROVE  Chronicled'
<1> DEFINE m == Head(events).mac
<1>0. TableOK /\ Rest
  BY Split
<1>1. PICK P, L : /\ Chronicle(P, L, events, associated, lease)
                  /\ pc \notin {"register", "list"} => Tracked \subseteq P[0] \cup bootSeen
  BY DEF Chronicled
<1>2. /\ events # <<>> /\ events' = Tail(events) /\ UNCHANGED <<associated, lease, pc, bootSeen>>
      /\ m \in Clients /\ Head(events).ip \in Addrs \cup {None}
  BY <1>0, HeadEvent DEF HandleConnected, HandleDisconnected, HandleIp, DiscardEvent, NextEvent, mainVars
<1>3. PICK Q, M : Chronicle(Q, M, Tail(events), associated, lease) /\ Q[0] = P[1]
  BY <1>1, <1>2, Taken
<1>4. Chronicle(Q, M, events', associated', lease')
  BY <1>2, <1>3
<1>5. Move(Head(events), P[0], P[1], L[0], L[1])
  BY <1>1, <1>2, Taken
<1>6. ASSUME pc \notin {"register", "list"}
      PROVE  Tracked' \subseteq P[1] \cup bootSeen
  <2>1. CASE HandleConnected
    <3>1. Head(events).kind = "connected" /\ TrackConnected(m)
      BY <2>1 DEF HandleConnected, NextEvent
    <3>2. Tracked' \subseteq Tracked \cup {m}
      <4>1. CASE PlacesFor(m) = {}
        BY <3>1, <4>1 DEF TrackConnected, Tracked
      <4>2. CASE PlacesFor(m) # {}
        BY <1>0, <1>2, <3>1, <4>2, TrackConnectedTable
      <4> QED BY <4>1, <4>2
    <3>3. P[1] = P[0] \cup {m}
      BY <1>5, <3>1 DEF Move
    <3> QED BY <1>1, <1>6, <3>2, <3>3
  <2>2. CASE HandleDisconnected
    <3>1. Head(events).kind = "disconnected" /\ Tracked' = Tracked \ {m}
      BY <1>0, <2>2, RemovalTable DEF HandleDisconnected, NextEvent
    <3>2. P[1] = P[0] \ {m}
      BY <1>5, <3>1 DEF Move
    <3> QED BY <1>1, <1>6, <3>1, <3>2
  <2>3. CASE HandleIp
    <3>1. Head(events).kind = "ip" /\ Tracked' = Tracked
      BY <1>0, <1>2, <2>3, TrackIpTable DEF HandleIp, NextEvent
    <3>2. P[1] = P[0]
      BY <1>5, <3>1 DEF Move
    <3> QED BY <1>1, <1>6, <3>1, <3>2
  <2>4. CASE DiscardEvent
    BY <1>6, <2>4 DEF DiscardEvent, StartBooks
  <2> QED BY <2>1, <2>2, <2>3, <2>4
<1> QED BY <1>2, <1>3, <1>4, <1>6 DEF Chronicled

LEMMA StartChronicle ==
  ASSUME IInv, Chronicled, StartBooks,
         \/ RegisterHandler \/ ListExisting \/ LookUpLeases
         \/ TrackExisting \/ TrackExistingIp \/ RestartOnFailedStart
  PROVE  Chronicled'
<1>0. TableOK /\ Rest
  BY Split
<1>1. PICK P, L : /\ Chronicle(P, L, events, associated, lease)
                  /\ pc \notin {"register", "list"} => Tracked \subseteq P[0] \cup bootSeen
  BY DEF Chronicled
<1>2. ASSUME UNCHANGED <<associated, lease, events>>,
             pc' \notin {"register", "list"} => Tracked' \subseteq P[0] \cup bootSeen'
      PROVE  Chronicled'
  BY <1>1, <1>2 DEF Chronicled
<1>3. CASE RegisterHandler
  BY <1>2, <1>3 DEF RegisterHandler, driverVars
<1>4. CASE ListExisting
  <2>1. Tracked' = Tracked
    BY <1>4 DEF ListExisting, Tracked
  <2> QED BY <1>2, <1>4, <2>1 DEF ListExisting, driverVars
<1>5. CASE LookUpLeases
  <2>1. Tracked' = Tracked
    BY <1>5 DEF LookUpLeases, Tracked
  <2> QED BY <1>1, <1>2, <1>5, <2>1 DEF LookUpLeases, driverVars
<1>6. CASE TrackExisting
  <2>1. pc = "track" /\ Head(stationList).mac \in Clients /\ Head(stationList).mac \in bootSeen
    BY <1>0, <1>6, HeadStation, HeadListed DEF TrackExisting, StartBooks
  <2>2. Tracked' = Tracked \cup {Head(stationList).mac}
    BY <1>0, <1>6, <2>1, TrackConnectedTable DEF TrackExisting
  <2>3. UNCHANGED <<associated, lease, events, bootSeen>>
    BY <1>6 DEF TrackExisting, driverVars
  <2> QED BY <1>1, <1>2, <2>1, <2>2, <2>3
<1>7. CASE TrackExistingIp
  <2>1. /\ pc = "trackIp" /\ Head(stationList).mac \in Clients
        /\ Head(stationList).ip \in Addrs \cup {None}
    BY <1>0, <1>7, HeadStation DEF TrackExistingIp
  <2>2. Tracked' = Tracked
    BY <1>0, <1>7, <2>1, TrackIpTable DEF TrackExistingIp
  <2>3. UNCHANGED <<associated, lease, events, bootSeen>>
    BY <1>7 DEF TrackExistingIp, driverVars
  <2> QED BY <1>1, <1>2, <2>1, <2>2, <2>3
<1>8. CASE RestartOnFailedStart
  <2>1. /\ events' = <<>> /\ associated' = {} /\ lease' = [m \in Clients |-> None]
        /\ pc' = "register"
    BY <1>8 DEF RestartOnFailedStart
  <2> QED BY <2>1, NoEvents, ClientAccessAssumption DEF Chronicled
<1> QED BY <1>3, <1>4, <1>5, <1>6, <1>7, <1>8

LEMMA PortalTable ==
  ASSUME IInv, PortalNames, PortalRecord
  PROVE  /\ portal.mac \in Clients /\ Tracked' = Tracked
         /\ \A i \in Slots : /\ clients'[i].mac = clients[i].mac
                             /\ clients[i].mac = portal.mac => clients'[i].ip = portal.ip
                             /\ clients[i].mac # portal.mac => clients'[i] = clients[i]
<1>1. TableOK /\ portal.mac \in Clients /\ portal.ip \in Addrs \cup {None}
  BY Split DEF PortalRecord, PortalNames, Rest
<1> QED BY <1>1, TrackIpTable DEF PortalRecord

LEMMA ChronicledStep ==
  ASSUME IInv, PortalNames, Chronicled, StartBooks, [Next]_vars
  PROVE  Chronicled'
<1>1. ASSUME UNCHANGED <<associated, lease, events, bootSeen>>, Tracked' = Tracked,
             UNCHANGED pc \/ (Started /\ Started')
      PROVE  Chronicled'
  <2>1. pc' \notin {"register", "list"} => pc \notin {"register", "list"}
    BY <1>1 DEF Started
  <2> QED BY <1>1, <2>1 DEF Chronicled
<1>2. CASE QuietStep
  BY <1>1, <1>2, SameTracked DEF QuietStep
<1>3. CASE PortalRecord
  BY <1>1, <1>3, PortalTable DEF PortalRecord, driverVars, mainVars
<1> QED BY <1>2, <1>3, StepCases, DriverChronicle, HandlerChronicle, StartChronicle

-----------------------------------------------------------------------------
(* Every step keeps the other three parts. *)

LEMMA StartBooksStep ==
  ASSUME IInv, PortalNames, StartBooks, [Next]_vars
  PROVE  StartBooks'
<1>0. TableOK /\ Rest /\ lease \in Leases
  BY Split DEF Rest, Leases
<1> DEFINE Places == {"leases", "track", "trackIp"}
<1>1. ASSUME UNCHANGED <<associated, lease, handlers, bootSeen>>,
             (pc' # "register" => pc # "register") /\ (pc' \in Places => pc \in Places /\ Listed' \subseteq Listed)
      PROVE  StartBooks'
  BY <1>1 DEF StartBooks
<1>2. UNCHANGED stationList => Listed' = Listed
  BY DEF Listed
<1>3. CASE QuietStep
  BY <1>1, <1>2, <1>3 DEF QuietStep, Started
<1>4. ASSUME NEW m \in Clients, Associate(m) PROVE StartBooks'
  BY <1>2, <1>4 DEF Associate, StartBooks, mainVars
<1>5. ASSUME NEW m \in Clients, Leave(m) PROVE StartBooks'
  <2>1. /\ associated' = associated \ {m} /\ lease' = [lease EXCEPT ![m] = None]
        /\ UNCHANGED <<pc, handlers, bootSeen, stationList>>
    BY <1>5 DEF Leave, mainVars
  <2> QED BY <1>0, <1>2, <2>1 DEF StartBooks, Leases
<1>6. ASSUME NEW m \in Clients, NEW a \in Addrs, AssignAddress(m, a) PROVE StartBooks'
  <2>1. /\ m \in associated /\ lease' = [lease EXCEPT ![m] = a]
        /\ UNCHANGED <<associated, pc, handlers, bootSeen, stationList>>
    BY <1>6 DEF AssignAddress, mainVars
  <2> QED BY <1>0, <1>2, <2>1 DEF StartBooks, Leases
<1>7. CASE HandleConnected \/ HandleDisconnected \/ HandleIp \/ DiscardEvent \/ PortalRecord
  <2>1. UNCHANGED <<associated, lease, mainVars>>
    BY <1>7 DEF HandleConnected, HandleDisconnected, HandleIp, DiscardEvent, PortalRecord, driverVars
  <2> QED BY <1>1, <1>2, <2>1 DEF mainVars
<1>8. CASE RegisterHandler
  BY <1>8 DEF RegisterHandler, StartBooks, driverVars
<1>9. CASE ListExisting
  <2>1. Listed' = associated
    BY <1>0, <1>9, ListComplete DEF ListExisting, Listed
  <2> QED BY <1>9, <2>1 DEF ListExisting, StartBooks, driverVars
<1>10. CASE LookUpLeases
  BY <1>1, <1>10, LookUpKeepsList DEF LookUpLeases, driverVars
<1>11. CASE TrackExisting
  <2>1. pc = "track" /\ UNCHANGED <<associated, lease, handlers, bootSeen>>
    BY <1>11 DEF TrackExisting, driverVars
  <2>2. CASE Head(stationList).ip = None
    <3>1. DoneWithStation
      BY <1>11, <2>2 DEF TrackExisting
    <3>2. Listed' \subseteq Listed
      BY <1>0, <2>1, <3>1, DoneList
    <3> QED BY <1>1, <2>1, <3>2
  <2>3. CASE Head(stationList).ip # None
    BY <1>1, <1>2, <1>11, <2>1, <2>3 DEF TrackExisting
  <2> QED BY <2>2, <2>3
<1>12. CASE TrackExistingIp
  <2>1. pc = "trackIp" /\ UNCHANGED <<associated, lease, handlers, bootSeen>> /\ DoneWithStation
    BY <1>12 DEF TrackExistingIp, driverVars
  <2>2. Listed' \subseteq Listed
    BY <1>0, <2>1, DoneList
  <2> QED BY <1>1, <2>1, <2>2
<1>13. CASE RestartOnFailedStart
  BY <1>13 DEF RestartOnFailedStart, StartBooks
<1> QED BY <1>3, <1>4, <1>5, <1>6, <1>7, <1>8, <1>9, <1>10, <1>11, <1>12, <1>13, StepCases

\* After a departure has been handled, a station that is back has its connection
\* event waiting.
LEMMA BackAgain ==
  ASSUME IInv, Chronicled, HandleDisconnected, Head(events).mac \in associated
  PROVE  Head(events).mac \in Arrives'
<1> DEFINE m == Head(events).mac
<1>1. PICK P, L : Chronicle(P, L, events, associated, lease)
  BY DEF Chronicled
<1>2. /\ events # <<>> /\ events' = Tail(events) /\ m \in Clients
      /\ Head(events).kind = "disconnected"
  BY Split, HeadEvent DEF HandleDisconnected, NextEvent
<1>3. PICK Q, M : Chronicle(Q, M, Tail(events), associated, lease) /\ Q[0] = P[1]
  BY <1>1, <1>2, Taken
<1>4. P[1] = P[0] \ {m}
  BY <1>1, <1>2, Taken DEF Move
<1>5. /\ Chronicle(Q, M, events', associated, lease)
      /\ Len(events') \in 0..Len(events') /\ Q[Len(events')] = associated
  BY <1>2, <1>3, LenProperties DEF Chronicle
<1>6. m \notin Q[0] /\ m \in Q[Len(events')]
  BY <1>3, <1>4, <1>5
<1>7. \E k \in 1..Len(events') : events'[k].kind = "connected" /\ events'[k].mac = m
  <2> HIDE DEF m
  <2> QED BY <1>5, <1>6, Arrival
<1> QED BY <1>2, <1>7 DEF Arrives

LEMMA MissedStep ==
  ASSUME IInv, PortalNames, Chronicled, StartBooks, NobodyMissed, [Next]_vars
  PROVE  NobodyMissed'
<1>0. TableOK /\ Rest
  BY Split
<1> DEFINE Open == {"register", "list"}
           ListedNow == IF Started THEN {} ELSE Listed
<1>1. NobodyMissed <=> (pc \notin Open => associated \subseteq Tracked \cup Arrives \cup turnedAway \cup ListedNow)
  BY DEF NobodyMissed
<1>2. ASSUME UNCHANGED <<pc, stationList>> PROVE ListedNow' = ListedNow
  BY <1>2 DEF Listed, Started
<1>3. CASE QuietStep
  <2>1. Arrives' = Arrives /\ Tracked' = Tracked
    BY <1>0, <1>3, EventsKept, SameTracked DEF QuietStep
  <2>2. CASE UNCHANGED <<pc, stationList>>
    BY <1>2, <1>3, <2>1, <2>2 DEF QuietStep, NobodyMissed
  <2>3. CASE Started /\ Started'
    BY <1>3, <2>1, <2>3 DEF QuietStep, NobodyMissed, Started
  <2> QED BY <1>3, <2>2, <2>3 DEF QuietStep
<1>4. ASSUME NEW m \in Clients,
             Associate(m) \/ Leave(m) \/ (\E a \in Addrs : AssignAddress(m, a))
      PROVE  NobodyMissed'
  <2>1. UNCHANGED <<clients, mainVars, turnedAway>>
    BY <1>4 DEF Associate, Leave, AssignAddress
  <2>2. Tracked' = Tracked /\ UNCHANGED <<pc, turnedAway>> /\ ListedNow' = ListedNow
    BY <1>2, <2>1 DEF Tracked, mainVars
  <2>3. PICK e \in Event : /\ events' = Append(events, e)
                           /\ \/ associated' \subseteq associated
                              \/ e.kind = "connected" /\ associated' = associated \cup {e.mac}
    <3>1. CASE Associate(m)
      <4> DEFINE e == [kind |-> "connected", mac |-> m, ip |-> None]
      <4>1. e \in Event /\ e.kind = "connected" /\ e.mac = m
        BY DEF Event, Kinds
      <4>2. events' = Append(events, e) /\ associated' = associated \cup {m}
        BY <3>1 DEF Associate, Post
      <4> HIDE DEF e
      <4> QED BY <4>1, <4>2
    <3>2. CASE Leave(m)
      <4>1. [kind |-> "disconnected", mac |-> m, ip |-> None] \in Event
        BY DEF Event, Kinds
      <4> QED BY <3>2, <4>1 DEF Leave, Post
    <3>3. ASSUME NEW a \in Addrs, AssignAddress(m, a)
          PROVE  \E e \in Event : events' = Append(events, e) /\ associated' \subseteq associated
      <4>1. [kind |-> "ip", mac |-> m, ip |-> a] \in Event
        BY DEF Event, Kinds
      <4> QED BY <3>3, <4>1 DEF AssignAddress, Post
    <3> QED BY <1>4, <3>1, <3>2, <3>3
  <2>4. Arrives' = Arrives \cup (IF e.kind = "connected" THEN {e.mac} ELSE {})
    BY <1>0, <2>3, EventPosted
  <2> HIDE DEF ListedNow
  <2>5. pc' \notin Open => associated' \subseteq Tracked' \cup Arrives' \cup turnedAway' \cup ListedNow'
    BY <1>1, <2>2, <2>3, <2>4
  <2> QED BY <2>5 DEF NobodyMissed, ListedNow
<1>5. CASE HandleConnected \/ HandleDisconnected \/ HandleIp
  <2> DEFINE m == Head(events).mac
  <2>1. /\ m \in Clients /\ Head(events).ip \in Addrs \cup {None}
        /\ events # <<>> /\ events' = Tail(events) /\ UNCHANGED <<associated, mainVars>>
    BY <1>0, <1>5, HeadEvent DEF HandleConnected, HandleDisconnected, HandleIp, NextEvent
  <2>2. UNCHANGED <<pc, stationList>>
    BY <2>1 DEF mainVars
  <2>3. Arrives = Arrives' \cup (IF Head(events).kind = "connected" THEN {m} ELSE {})
    BY <1>0, <2>1, EventTaken
  <2>4. ListedNow' = ListedNow
    BY <1>2, <2>2
  <2>5. Tracked \ {m} \subseteq Tracked' /\ turnedAway \ {m} \subseteq turnedAway'
    <3>1. CASE HandleConnected
      <4>1. TrackConnected(m) /\ turnedAway \ {m} \subseteq turnedAway'
        BY <3>1 DEF HandleConnected
      <4>2. CASE PlacesFor(m) = {}
        BY <4>1, <4>2 DEF TrackConnected, Tracked
      <4>3. CASE PlacesFor(m) # {}
        BY <1>0, <2>1, <4>1, <4>3, TrackConnectedTable
      <4> QED BY <4>1, <4>2, <4>3
    <3>2. CASE HandleDisconnected
      BY <1>0, <3>2, RemovalTable DEF HandleDisconnected
    <3>3. CASE HandleIp
      BY <1>0, <2>1, <3>3, TrackIpTable DEF HandleIp
    <3> QED BY <1>5, <3>1, <3>2, <3>3
  <2>6. ASSUME pc \notin Open, m \in associated
        PROVE  m \in Tracked' \cup Arrives' \cup turnedAway' \cup ListedNow
    <3>1. CASE HandleConnected
      <4>1. CASE PlacesFor(m) = {}
        BY <3>1, <4>1 DEF HandleConnected
      <4>2. CASE PlacesFor(m) # {}
        BY <1>0, <2>1, <3>1, <4>2, TrackConnectedTable DEF HandleConnected
      <4> QED BY <4>1, <4>2
    <3>2. CASE HandleDisconnected
      BY <2>6, <3>2, BackAgain
    <3>3. CASE HandleIp
      <4>1. Head(events).kind = "ip" /\ turnedAway' = turnedAway /\ Tracked' = Tracked
        BY <1>0, <2>1, <3>3, TrackIpTable DEF HandleIp, NextEvent
      <4> HIDE DEF ListedNow
      <4> QED BY <1>1, <2>3, <2>6, <4>1
    <3> QED BY <1>5, <3>1, <3>2, <3>3
  <2> HIDE DEF ListedNow, m
  <2>7. pc' \notin Open => associated' \subseteq Tracked' \cup Arrives' \cup turnedAway' \cup ListedNow'
    BY <1>1, <2>1, <2>2, <2>3, <2>4, <2>5, <2>6
  <2> QED BY <2>7 DEF NobodyMissed, ListedNow
<1>6. CASE DiscardEvent \/ RegisterHandler
  BY <1>6 DEF DiscardEvent, RegisterHandler, StartBooks, NobodyMissed, mainVars
<1>7. CASE ListExisting
  <2>1. Listed' = associated
    BY <1>0, <1>7, ListComplete DEF ListExisting, Listed
  <2> QED BY <1>7, <2>1 DEF ListExisting, NobodyMissed, Started, driverVars
<1>8. CASE LookUpLeases
  <2>1. Tracked' = Tracked /\ Arrives' = Arrives /\ Listed' = Listed
    BY <1>0, <1>8, EventsKept, LookUpKeepsList DEF LookUpLeases, Tracked, driverVars
  <2> QED BY <1>8, <2>1 DEF LookUpLeases, NobodyMissed, Started, driverVars
<1>9. CASE TrackExisting
  <2> DEFINE m == Head(stationList).mac
  <2>1. pc = "track" /\ m \in Clients /\ m \in Listed
    BY <1>0, <1>9, HeadStation, HeadListed DEF TrackExisting
  <2>2. Tracked' = Tracked \cup {m}
    BY <1>0, <1>9, <2>1, TrackConnectedTable DEF TrackExisting
  <2>3. /\ Arrives' = Arrives /\ turnedAway' = turnedAway \ {m} /\ associated' = associated
    BY <1>0, <1>9, EventsKept DEF TrackExisting, driverVars
  <2>4. Listed \subseteq Listed' \cup {m} /\ (Started' => Listed' = {})
    <3>1. CASE Head(stationList).ip = None
      <4>1. DoneWithStation /\ pc' \in {"loop", "track"}
        BY <1>9, <3>1 DEF TrackExisting, DoneWithStation
      <4> QED BY <1>0, <2>1, <4>1, DoneList DEF Started
    <3>2. CASE Head(stationList).ip # None
      BY <1>9, <3>2 DEF TrackExisting, Listed, Started
    <3> QED BY <3>1, <3>2
  <2> HIDE DEF m
  <2> QED BY <2>1, <2>2, <2>3, <2>4 DEF NobodyMissed, Started
<1>10. CASE TrackExistingIp
  <2> DEFINE m == Head(stationList).mac
  <2>1. /\ pc = "trackIp" /\ m \in Clients /\ Head(stationList).ip \in Addrs \cup {None}
        /\ m \in Tracked /\ DoneWithStation /\ pc' \in {"loop", "track"}
    BY <1>0, <1>10, HeadStation DEF TrackExistingIp, DoneWithStation
  <2>2. Tracked' = Tracked
    BY <1>0, <1>10, <2>1, TrackIpTable DEF TrackExistingIp
  <2>3. Arrives' = Arrives /\ turnedAway' = turnedAway /\ associated' = associated
    BY <1>0, <1>10, EventsKept DEF TrackExistingIp, driverVars
  <2>4. Listed \subseteq Listed' \cup {m} /\ (Started' => Listed' = {})
    BY <1>0, <2>1, DoneList DEF Started
  <2> HIDE DEF m
  <2> QED BY <2>1, <2>2, <2>3, <2>4 DEF NobodyMissed, Started
<1>11. CASE PortalRecord
  <2>1. Tracked' = Tracked /\ Arrives' = Arrives
    BY <1>0, <1>11, PortalTable, EventsKept DEF PortalRecord, driverVars
  <2>2. UNCHANGED <<associated, pc, stationList, turnedAway>>
    BY <1>11 DEF PortalRecord, driverVars, mainVars
  <2> QED BY <1>2, <2>1, <2>2 DEF NobodyMissed
<1>12. CASE RestartOnFailedStart
  BY <1>12 DEF RestartOnFailedStart, NobodyMissed
<1> QED BY <1>3, <1>4, <1>5, <1>6, <1>7, <1>8, <1>9, <1>10, <1>11, <1>12, StepCases

LEMMA SettledStep ==
  ASSUME IInv, PortalNames, Chronicled, StartBooks, Settled, [Next]_vars
  PROVE  Settled'
<1>0. TableOK /\ Rest
  BY Split
<1> DEFINE Open == {"register", "list"}
           ListedNow == IF Started THEN {} ELSE Listed
           Excused  == overwritten \cup Named \cup ListedNow
\* A step is fine if what it may excuse less, or write, it gets right.
<1>1. ASSUME pc \notin Open, associated' \subseteq associated,
             \A i \in Slots : clients'[i].mac \in associated' =>
                \/ clients'[i].ip = lease'[clients'[i].mac]
                \/ clients'[i].mac \in Excused'
                \/ /\ clients'[i].mac = clients[i].mac /\ clients'[i].ip = clients[i].ip
                   /\ lease'[clients[i].mac] = lease[clients[i].mac]
                   /\ clients[i].mac \in Excused => clients[i].mac \in Excused'
      PROVE  Settled'
  BY <1>1 DEF Settled
<1>2. ASSUME UNCHANGED <<pc, stationList>> PROVE ListedNow' = ListedNow
  BY <1>2 DEF Listed, Started
<1>3. CASE QuietStep
  <2>1. Named' = Named /\ UNCHANGED <<associated, lease, overwritten>>
    BY <1>0, <1>3, EventsKept DEF QuietStep
  <2>2. ListedNow' = ListedNow /\ (pc' \notin Open => pc \notin Open)
    BY <1>2, <1>3 DEF QuietStep, Started
  <2>3. pc \notin Open => Settled'
    <3> HIDE DEF ListedNow
    <3> QED BY <1>1, <1>3, <2>1, <2>2 DEF QuietStep, KeepsAddresses
  <2> QED BY <2>2, <2>3 DEF Settled
<1>4. ASSUME NEW m \in Clients,
             Associate(m) \/ Leave(m) \/ (\E a \in Addrs : AssignAddress(m, a))
      PROVE  Settled'
  <2>1. UNCHANGED <<clients, mainVars, overwritten>>
    BY <1>4 DEF Associate, Leave, AssignAddress
  <2>2. UNCHANGED pc /\ ListedNow' = ListedNow
    BY <1>2, <2>1 DEF mainVars
  <2>3. /\ Named' = Named \cup {m}
        /\ associated' \subseteq associated \cup {m}
        /\ \A n \in Clients \ {m} : lease'[n] = lease[n]
    <3>1. CASE Associate(m)
      <4>1. [kind |-> "connected", mac |-> m, ip |-> None] \in Event
        BY DEF Event, Kinds
      <4> QED BY <1>0, <3>1, <4>1, EventPosted DEF Associate, Post
    <3>2. CASE Leave(m)
      <4>1. [kind |-> "disconnected", mac |-> m, ip |-> None] \in Event
        BY DEF Event, Kinds
      <4> QED BY <1>0, <3>2, <4>1, EventPosted DEF Leave, Post, Rest
    <3>3. ASSUME NEW a \in Addrs, AssignAddress(m, a)
          PROVE  /\ Named' = Named \cup {m}
                 /\ associated' = associated
                 /\ \A n \in Clients \ {m} : lease'[n] = lease[n]
      <4>1. [kind |-> "ip", mac |-> m, ip |-> a] \in Event
        BY DEF Event, Kinds
      <4> QED BY <1>0, <3>3, <4>1, EventPosted DEF AssignAddress, Post, Rest
    <3> QED BY <1>4, <3>1, <3>2, <3>3
  <2>4. associated \subseteq Clients
    BY <1>0 DEF Rest
  <2> HIDE DEF ListedNow
  <2>5. ASSUME pc \notin Open, NEW n \in associated', NEW i \in Slots, clients[i].mac = n
        PROVE  clients[i].ip = lease'[n] \/ n \in Excused'
    <3>1. CASE n = m
      BY <2>3, <3>1
    <3>2. CASE n # m
      <4>1. n \in associated /\ lease'[n] = lease[n]
        BY <2>3, <2>4, <3>2
      <4>2. clients[i].ip = lease[n] \/ n \in Excused
        BY <2>5, <4>1 DEF Settled, ListedNow
      <4> QED BY <2>1, <2>2, <2>3, <4>1, <4>2
    <3> QED BY <3>1, <3>2
  <2> QED BY <2>1, <2>2, <2>5 DEF Settled, ListedNow
<1>5. CASE HandleConnected \/ HandleDisconnected \/ HandleIp
  <2> DEFINE m == Head(events).mac
             a == Head(events).ip
  <2>1. /\ m \in Clients /\ a \in Addrs \cup {None}
        /\ events # <<>> /\ events' = Tail(events) /\ UNCHANGED <<associated, lease, mainVars>>
        /\ overwritten' = overwritten \ {m}
    BY <1>0, <1>5, HeadEvent DEF HandleConnected, HandleDisconnected, HandleIp, NextEvent
  <2>2. UNCHANGED pc /\ ListedNow' = ListedNow
    BY <1>2, <2>1 DEF mainVars
  <2>3. Named = Named' \cup {m}
    BY <1>0, <2>1, EventTaken
  <2>4. PICK P, L : Chronicle(P, L, events, associated, lease)
    BY DEF Chronicled
  <2>5. PICK Q, M : Chronicle(Q, M, events', associated, lease) /\ M[0] = L[1]
    BY <2>1, <2>4, Taken
  <2>6. m \notin Named' => L[1][m] = lease[m]
    <3> HIDE DEF m
    <3>1. M[0][m] = lease[m] \/ \E k \in 1..Len(events') : events'[k].mac = m
      <4>1. m \in Clients
        BY <2>1
      <4>2. Chronicle(Q, M, events', associated, lease)
        BY <2>5
      <4> QED BY ONLY <4>1, <4>2, LeaseKept
    <3> QED BY <2>5, <3>1 DEF Named
  <2>7. /\ Head(events).kind = "connected" => L[1][m] = None
        /\ Head(events).kind = "ip" => L[1][m] = a
    <3>1. Move(Head(events), P[0], P[1], L[0], L[1]) /\ L[0] \in Leases
      BY <2>1, <2>4, Taken
    <3> QED BY <2>1, <3>1 DEF Move, Leases
  <2>8. ASSUME NEW i \in Slots
        PROVE  \/ clients'[i] = clients[i] /\ clients[i].mac # m
               \/ clients'[i].mac = m /\ (clients'[i].ip = lease[m] \/ m \in Named')
               \/ clients'[i].mac = None
    <3>1. CASE HandleConnected
      <4>1. TrackConnected(m) /\ Head(events).kind = "connected"
        BY <3>1 DEF HandleConnected, NextEvent
      <4>2. CASE PlacesFor(m) = {}
        BY <4>1, <4>2 DEF TrackConnected, PlacesFor, SlotsOf
      <4>3. CASE PlacesFor(m) # {}
        <5>1. TrackedEntry(m).mac = m /\ TrackedEntry(m).ip = None
          BY DEF TrackedEntry, FreeEntry
        <5>2. clients'[i] = TrackedEntry(m) \/ (clients'[i] = clients[i] /\ clients[i].mac # m)
          BY <1>0, <2>1, <4>1, <4>3, TrackConnectedTable
        <5> HIDE DEF m
        <5> QED BY <2>6, <2>7, <4>1, <5>1, <5>2
      <4> QED BY <4>2, <4>3
    <3>2. CASE HandleDisconnected
      <4>1. clients'[i] = IF clients[i].mac = m THEN FreeEntry ELSE clients[i]
        BY <1>0, <3>2, RemovalTable DEF HandleDisconnected
      <4> QED BY <4>1, EntryTypes
    <3>3. CASE HandleIp
      <4>1. TrackIp(m, a) /\ Head(events).kind = "ip"
        BY <3>3 DEF HandleIp, NextEvent
      <4> HIDE DEF m, a
      <4>2. /\ clients'[i].mac = clients[i].mac
            /\ clients[i].mac = m => clients'[i].ip = a
            /\ clients[i].mac # m => clients'[i] = clients[i]
        BY <1>0, <2>1, <4>1, TrackIpTable
      <4> QED BY <2>6, <2>7, <4>1, <4>2 DEF m, a
    <3> QED BY <1>5, <3>1, <3>2, <3>3
  <2>9. None \notin associated
    BY <1>0, ClientAccessAssumption DEF Rest
  <2> HIDE DEF m, a, ListedNow
  <2>10. ASSUME pc \notin Open, NEW n \in associated, NEW i \in Slots, clients'[i].mac = n
         PROVE  clients'[i].ip = lease[n] \/ n \in Excused'
    <3>1. CASE n = m
      BY <2>8, <2>9, <2>10, <3>1
    <3>2. CASE n # m
      <4>1. clients'[i] = clients[i] /\ clients[i].mac = n
        BY <2>8, <2>9, <2>10, <3>2
      <4>2. clients[i].ip = lease[n] \/ n \in Excused
        BY <2>10, <4>1 DEF Settled, ListedNow
      <4> QED BY <2>1, <2>2, <2>3, <3>2, <4>1, <4>2
    <3> QED BY <3>1, <3>2
  <2> QED BY <2>1, <2>2, <2>10 DEF Settled, ListedNow
<1>6. CASE DiscardEvent \/ RegisterHandler
  BY <1>6 DEF DiscardEvent, RegisterHandler, StartBooks, Settled, mainVars
<1>7. CASE ListExisting
  <2>1. Listed' = associated
    BY <1>0, <1>7, ListComplete DEF ListExisting, Listed
  <2> QED BY <1>7, <2>1 DEF ListExisting, Settled, Started, driverVars
<1>8. CASE LookUpLeases
  <2>1. Named' = Named /\ Listed' = Listed
    BY <1>0, <1>8, EventsKept, LookUpKeepsList DEF LookUpLeases, driverVars
  <2>2. ListedNow' = ListedNow /\ UNCHANGED <<associated, lease, clients, overwritten>>
    BY <1>8, <2>1 DEF LookUpLeases, Started, driverVars
  <2> QED BY <1>8, <2>1, <2>2 DEF Settled, LookUpLeases
<1>9. CASE TrackExisting \/ TrackExistingIp
  <2> DEFINE m == Head(stationList).mac
             a == IF pc = "track" THEN None ELSE Head(stationList).ip
  <2>1. /\ pc \in {"track", "trackIp"} /\ m \in Clients
        /\ Head(stationList).ip \in Addrs \cup {None}
    BY <1>0, <1>9, HeadStation DEF TrackExisting, TrackExistingIp
  <2>2. Named' = Named /\ UNCHANGED <<associated, lease>> /\ NoteAddress(m, a)
    BY <1>0, <1>9, EventsKept DEF TrackExisting, TrackExistingIp, driverVars
  <2>3. ListedNow \subseteq ListedNow' \cup {m}
    <3>1. CASE DoneWithStation
      <4>1. pc' \in {"loop", "track"}
        BY <3>1 DEF DoneWithStation
      <4> QED BY <1>0, <2>1, <3>1, <4>1, DoneList DEF Started
    <3>2. CASE UNCHANGED stationList /\ pc' = "trackIp"
      BY <2>1, <3>2 DEF Listed, Started
    <3> QED BY <1>9, <3>1, <3>2 DEF TrackExisting, TrackExistingIp
  <2>4. ASSUME NEW i \in Slots
        PROVE  \/ clients'[i] = clients[i] /\ clients[i].mac # m
               \/ clients'[i].mac = m /\ clients'[i].ip = a
    <3>1. CASE TrackExisting
      <4>1. pc = "track" /\ PlacesFor(m) # {} /\ TrackConnected(m)
        BY <3>1 DEF TrackExisting
      <4>2. TrackedEntry(m).mac = m /\ TrackedEntry(m).ip = None
        BY DEF TrackedEntry, FreeEntry
      <4>3. clients'[i] = TrackedEntry(m) \/ (clients'[i] = clients[i] /\ clients[i].mac # m)
        BY <1>0, <2>1, <4>1, TrackConnectedTable
      <4> HIDE DEF m
      <4> QED BY <4>1, <4>2, <4>3
    <3>2. CASE TrackExistingIp
      <4>1. pc = "trackIp" /\ TrackIp(m, Head(stationList).ip) /\ a = Head(stationList).ip
        BY <3>2 DEF TrackExistingIp
      <4> HIDE DEF m
      <4> QED BY <1>0, <2>1, <4>1, TrackIpTable
    <3> QED BY <1>9, <3>1, <3>2
  <2>5. /\ overwritten \ {m} \subseteq overwritten'
        /\ a # lease[m] => m \in overwritten'
    BY <2>2 DEF NoteAddress
  <2> HIDE DEF m, a, ListedNow
  <2>6. ASSUME NEW n \in associated, NEW i \in Slots, clients'[i].mac = n
        PROVE  clients'[i].ip = lease[n] \/ n \in Excused'
    <3>1. CASE n = m
      BY <2>4, <2>5, <2>6, <3>1
    <3>2. CASE n # m
      <4>1. clients'[i] = clients[i] /\ clients[i].mac = n
        BY <2>4, <2>6, <3>2
      <4>2. clients[i].ip = lease[n] \/ n \in Excused
        BY <2>1, <2>6, <4>1 DEF Settled, ListedNow
      <4> QED BY <2>2, <2>3, <2>5, <3>2, <4>1, <4>2
    <3> QED BY <3>1, <3>2
  <2> QED BY <2>2, <2>6 DEF Settled, ListedNow
<1>10. CASE PortalRecord
  <2> DEFINE m == portal.mac
             a == portal.ip
  <2>1. /\ m \in Clients /\ Tracked' = Tracked
        /\ \A i \in Slots : /\ clients'[i].mac = clients[i].mac
                            /\ clients[i].mac = m => clients'[i].ip = a
                            /\ clients[i].mac # m => clients'[i] = clients[i]
    BY <1>10, PortalTable
  <2>2. Named' = Named /\ UNCHANGED <<associated, lease, pc>> /\ ListedNow' = ListedNow
    BY <1>0, <1>2, <1>10, EventsKept DEF PortalRecord, driverVars, mainVars
  <2>3. /\ overwritten \ {m} \subseteq overwritten'
        /\ m \in Tracked /\ a # lease[m] => m \in overwritten'
    BY <1>10 DEF PortalRecord, NoteAddress
  <2>4. \A i \in Slots : clients[i].mac = m => m \in Tracked
    BY <2>1, ClientAccessAssumption DEF Tracked
  <2> HIDE DEF m, a, ListedNow
  <2>5. ASSUME pc \notin Open, NEW n \in associated, NEW i \in Slots, clients'[i].mac = n
        PROVE  clients'[i].ip = lease[n] \/ n \in Excused'
    <3>1. CASE n = m
      BY <2>1, <2>3, <2>4, <2>5, <3>1
    <3>2. CASE n # m
      <4>1. clients'[i] = clients[i] /\ clients[i].mac = n
        BY <2>1, <2>5, <3>2
      <4>2. clients[i].ip = lease[n] \/ n \in Excused
        BY <2>5, <4>1 DEF Settled, ListedNow
      <4> QED BY <2>2, <2>3, <3>2, <4>1, <4>2
    <3> QED BY <3>1, <3>2
  <2> QED BY <2>2, <2>5 DEF Settled, ListedNow
<1>11. CASE RestartOnFailedStart
  BY <1>11 DEF RestartOnFailedStart, Settled
<1> QED BY <1>3, <1>4, <1>5, <1>6, <1>7, <1>8, <1>9, <1>10, <1>11, StepCases

LEMMA EInvStep ==
  ASSUME IInv, PortalNames, EInv, [Next]_vars
  PROVE  EInv'
BY ChronicledStep, StartBooksStep, MissedStep, SettledStep DEF EInv

LEMMA EventsInvariance == Spec => [](IInv /\ PortalNames /\ Booting /\ Aged /\ EInv)
<1>1. Init => Booting /\ Aged /\ EInv
  BY InitBooks DEF Init, Booting, BootPlaces, Aged, Granted, FreeEntry
<1>2. IInv /\ PortalNames /\ (Booting /\ Aged /\ EInv) /\ [Next]_vars => (Booting /\ Aged /\ EInv)'
  BY BootingStep, AgedStep, EInvStep
<1> QED BY <1>1, <1>2, Invariance, PTL DEF Spec

-----------------------------------------------------------------------------
(* Nobody is missed, nobody stays, addresses settle. *)

LEMMA EventSets ==
  ASSUME Rest
  PROVE  /\ \A m \in Arrives : \E i \in DOMAIN events : events[i].kind = "connected" /\ events[i].mac = m
         /\ \A m \in Named : \E i \in DOMAIN events : events[i].mac = m
         /\ \A m \in Listed : \E i \in DOMAIN stationList : stationList[i].mac = m
<1>1. DOMAIN events = 1..Len(events) /\ DOMAIN stationList = 1..Len(stationList)
  BY LenProperties DEF Rest
<1> QED BY <1>1 DEF Arrives, Named, Listed

\* Once the station list is read, every associated station is tracked, about to
\* be, announced by a waiting event, or was turned away by a full table.
THEOREM NobodyIsMissed == Spec => []NoClientMissed
<1>1. IInv /\ EInv => NoClientMissed
  <2> SUFFICES ASSUME IInv, EInv, pc \notin {"register", "list"}, NEW m \in associated
               PROVE  \/ m \in Tracked
                      \/ ~Started /\ \E i \in DOMAIN stationList : stationList[i].mac = m
                      \/ \E i \in DOMAIN events : events[i].kind = "connected" /\ events[i].mac = m
                      \/ m \in turnedAway
    BY DEF NoClientMissed
  <2>1. m \in Tracked \cup Arrives \cup turnedAway \cup (IF Started THEN {} ELSE Listed)
    BY DEF EInv, NobodyMissed
  <2> QED BY <2>1, Split, EventSets
<1> QED BY <1>1, EventsInvariance, PTL

\* A client is tracked and not here, as far as the handled events tell, only if
\* it is left from start-up.
THEOREM NobodyStays == Spec => []PhantomOnlyFromBoot
<1>1. EInv => PhantomOnlyFromBoot
  BY SeenIsFirst DEF EInv, Chronicled, PhantomOnlyFromBoot
<1> QED BY <1>1, EventsInvariance, PTL

\* With nothing about a station left to handle, its entry has the address of its
\* present lease, unless a stale look-up was written last.
THEOREM AddressesDoSettle == Spec => []AddressesSettle
<1>1. IInv /\ EInv => AddressesSettle
  <2> SUFFICES ASSUME IInv, EInv, NEW m \in Tracked \cap associated
               PROVE  \/ EntryOf(m).ip = lease[m]
                      \/ \E i \in DOMAIN events : events[i].mac = m
                      \/ m \in overwritten \/ ~Started
    BY DEF AddressesSettle
  <2>1. TableOK /\ Rest /\ m \in Clients
    BY Split DEF Rest
  <2>2. FirstOf(SlotsOf(m)) \in Slots /\ EntryOf(m).mac = m
    BY <2>1, TrackedSlot DEF EntryOf
  <2>3. CASE Started
    <3>1. EntryOf(m).ip = lease[m] \/ m \in overwritten \cup Named
      BY <2>2, <2>3 DEF EInv, Settled, EntryOf, Started
    <3> QED BY <2>1, <3>1, EventSets
  <2> QED BY <2>3
<1> QED BY <1>1, EventsInvariance, PTL

-----------------------------------------------------------------------------
(* A full table is full of clients left from start-up. *)

\* Only the handler of a connection that finds no place turns a client away.
LEMMA TurnedAwayOnly ==
  ASSUME IInv, [Next]_vars, turnedAway' \ turnedAway # {}
  PROVE  HandleConnected /\ PlacesFor(Head(events).mac) = {}
<1>1. CASE QuietStep
  BY <1>1 DEF QuietStep
<1>2. ASSUME NEW m \in Clients,
             Associate(m) \/ Leave(m) \/ (\E a \in Addrs : AssignAddress(m, a))
      PROVE  UNCHANGED turnedAway
  BY <1>2 DEF Associate, Leave, AssignAddress
<1>3. CASE HandleDisconnected \/ HandleIp \/ DiscardEvent \/ PortalRecord
  BY <1>3 DEF HandleDisconnected, HandleIp, DiscardEvent, PortalRecord
<1>4. CASE RegisterHandler \/ ListExisting \/ LookUpLeases
  BY <1>4 DEF RegisterHandler, ListExisting, LookUpLeases
<1>5. CASE TrackExisting \/ TrackExistingIp \/ RestartOnFailedStart
  BY <1>5 DEF TrackExisting, TrackExistingIp, RestartOnFailedStart
<1>6. CASE HandleConnected
  BY <1>6 DEF HandleConnected
<1> QED BY <1>1, <1>2, <1>3, <1>4, <1>5, <1>6, StepCases

\* No place for a client: the slots hold as many other clients.
LEMMA FullTable ==
  ASSUME TableOK, NEW m \in Clients, PlacesFor(m) = {}
  PROVE  m \notin Tracked /\ IsFiniteSet(Tracked) /\ Cardinality(Tracked) = MaxConn
<1>1. SlotsOf(m) = {} /\ \A i \in Slots : clients[i].mac # None
  BY DEF PlacesFor
<1>2. m \notin Tracked
  BY <1>1, TrackedSlot
<1> DEFINE f == [i \in Slots |-> clients[i].mac]
<1>3. f \in Bijection(Slots, Tracked)
  <2>1. f \in [Slots -> Tracked] /\ \A t \in Tracked : \E i \in Slots : f[i] = t
    BY <1>1 DEF Tracked
  <2>2. \A i, j \in Slots : f[i] = f[j] => i = j
    BY <1>1 DEF TableOK, NoDuplicateMac
  <2> QED BY <2>1, <2>2 DEF Bijection, Injection, Surjection, IsInjective
<1>4. IsFiniteSet(Slots) /\ Cardinality(Slots) = MaxConn
  BY FS_Interval, ClientAccessAssumption DEF Slots
<1>5. ExistsBijection(Slots, Tracked)
  BY <1>3 DEF ExistsBijection
<1> QED BY <1>2, <1>4, <1>5, FS_Bijection

\* Of S, more than n - r members are outside a set that r members bound.
LEMMA MembersOutside ==
  ASSUME NEW S, NEW p, NEW q, NEW x, NEW r \in Nat, IsFiniteSet(S), IsFiniteSet(p), x \notin p,
         q = p \cup {x}, Cardinality(q) <= r
  PROVE  Cardinality(S \ p) > Cardinality(S) - r
<1>1. Cardinality(p) \in Nat /\ Cardinality(q) = Cardinality(p) + 1
  BY FS_CardinalityType, FS_AddElement
<1>2. /\ S \cap p \in SUBSET p
      /\ IsFiniteSet(S \cap p) /\ Cardinality(S \cap p) <= Cardinality(p)
  BY FS_Subset
<1>3. Cardinality(S \cap p) \in Nat /\ Cardinality(S) \in Nat
  BY <1>2, FS_CardinalityType
<1>4. Cardinality(S \ p) = Cardinality(S) - Cardinality(S \cap p)
  BY FS_Difference
<1> QED BY <1>1, <1>2, <1>3, <1>4

\* Clients left from start-up turn stations away, and it takes one more of them
\* than the table has slots to spare for the stations the driver admits.
THEOREM OnlyPhantomsTurnAway == Spec => TurnedAwayByPhantoms
<1>1. ASSUME IInv, EInv, [Next]_vars, turnedAway' \ turnedAway # {},
             pc \notin {"register", "list"}
      PROVE  Cardinality(Phantoms) > MaxConn - Stations
  <2> DEFINE m == Head(events).mac
  <2>0. TableOK /\ Rest
    BY <1>1, Split
  <2>1. HandleConnected /\ PlacesFor(m) = {}
    BY <1>1, TurnedAwayOnly
  <2>2. m \in Clients /\ events # <<>> /\ Head(events).kind = "connected"
    BY <2>0, <2>1, HeadEvent DEF HandleConnected, NextEvent
  <2>3. PICK P, L : /\ Chronicle(P, L, events, associated, lease)
                    /\ Tracked \subseteq P[0] \cup bootSeen
    BY <1>1 DEF EInv, Chronicled
  <2>4. /\ P[1] = P[0] \cup {m} /\ m \notin P[0]
        /\ Cardinality(P[1]) <= Stations /\ P[0] \subseteq Clients
    BY <2>2, <2>3, Taken DEF Move
  <2>5. IsFiniteSet(P[0]) /\ Stations \in Nat /\ MaxConn \in Nat
    BY <2>4, FS_Subset, ClientAccessAssumption
  <2>6. IsFiniteSet(Tracked) /\ Cardinality(Tracked) = MaxConn
    BY <2>0, <2>1, <2>2, FullTable
  <2>7. Cardinality(Tracked \ P[0]) > MaxConn - Stations
    BY <2>4, <2>5, <2>6, MembersOutside
  <2>8. Tracked \ P[0] \subseteq Phantoms
    BY <2>3, SeenIsFirst DEF Phantoms
  <2>9. /\ IsFiniteSet(Phantoms) /\ IsFiniteSet(Tracked \ P[0])
        /\ Cardinality(Tracked \ P[0]) <= Cardinality(Phantoms)
    <3>1. Phantoms \in SUBSET Tracked
      BY DEF Phantoms
    <3>2. IsFiniteSet(Phantoms)
      BY <2>6, <3>1, FS_Subset
    <3> QED BY <2>8, <3>2, FS_Subset
  <2>10. Cardinality(Phantoms) \in Nat /\ Cardinality(Tracked \ P[0]) \in Nat
    BY <2>9, FS_CardinalityType
  <2> QED BY <2>5, <2>7, <2>9, <2>10
<1>2. (IInv /\ EInv) /\ [Next]_vars =>
        [(turnedAway' \ turnedAway # {} /\ pc \notin {"register", "list"})
          => Cardinality(Phantoms) > MaxConn - Stations]_vars
  BY <1>1
<1> QED BY <1>2, EventsInvariance, PTL DEF Spec, TurnedAwayByPhantoms

-----------------------------------------------------------------------------
(* A grant ends for a reason. *)

\* The sweep's reading of the counter is not in the future.
SweepBehind == sweepClock <= clock

LEMMA SweepBehindStep ==
  ASSUME IInv, PortalNames, SweepBehind, [Next]_vars
  PROVE  SweepBehind'
<1>0. sweepClock \in Nat /\ clock \in Nat
  BY Split DEF Rest
<1>1. UNCHANGED sweepClock \/ sweepClock' = clock \/ sweepClock' = 0
  <2>1. CASE MainTask
    BY <2>1 DEF MainTask, RegisterHandler, ListExisting, LookUpLeases, TrackExisting,
         TrackExistingIp, RestartOnFailedStart, BeginPass, Sweep, ListStations, RefreshRssi
  <2>2. EventTask \/ Publisher \/ UNCHANGED vars => UNCHANGED sweepClock
    BY DEF EventTask, Publisher, HandleConnected, HandleDisconnected, SendReport, HandleIp,
           DiscardEvent, TakeReport, PublishReport, PublishFails, vars, mainVars
  <2>3. (\E m \in Clients : Associate(m) \/ Leave(m) \/ (\E a \in Addrs : AssignAddress(m, a)))
          \/ (\E m \in Clients, s \in Sessions : Revoke(m, s) \/ (\E t \in Ttls : Allow(m, s, t)))
          => UNCHANGED sweepClock
    BY DEF Associate, Leave, AssignAddress, Revoke, Allow, mainVars
  <2>4. (\E a \in Addrs : ExpireOnPacket(a) \/ PortalMiss(a)) \/ PortalResolve \/ PortalRecord
          \/ Advance \/ UplinkChange
          => UNCHANGED sweepClock
    <3>1. (\E a \in Addrs : ExpireOnPacket(a) \/ PortalMiss(a)) => UNCHANGED mainVars
      BY DEF ExpireOnPacket, PortalMiss
    <3>2. Advance \/ UplinkChange => UNCHANGED mainVars
      BY DEF Advance, UplinkChange
    <3>3. PortalResolve => UNCHANGED mainVars
      BY DEF PortalResolve
    <3>4. PortalRecord => UNCHANGED mainVars
      BY DEF PortalRecord
    <3> QED BY <3>1, <3>2, <3>3, <3>4 DEF mainVars
  <2> QED BY <2>1, <2>2, <2>3, <2>4 DEF Next
<1>2. clock' \in Nat /\ clock' >= clock
  <2>1. Keeps => clock' = clock
    BY DEF Keeps
  <2>2. Ages => clock' = clock + 1
    BY DEF Ages, Advance
  <2>3. Makes => clock' = clock
    BY AllowGrants DEF Makes
  <2>4. HandleDisconnected \/ RestartOnFailedStart => clock' = clock
    BY DEF HandleDisconnected, RestartOnFailedStart
  <2> QED BY <1>0, <2>1, <2>2, <2>3, <2>4, GrantStep
<1> QED BY <1>0, <1>1, <1>2 DEF SweepBehind

LEMMA TtlNat ==
  ASSUME NEW e \in Entry
  PROVE  e.ttl \in Nat
<1>1. e.ttl \in Ttls \cup {0}
  BY DEF Entry
<1>2. Ttls \subseteq Nat
  BY ClientAccessAssumption
<1>3. CASE e.ttl = 0
  BY <1>3
<1>4. CASE e.ttl # 0
  BY <1>1, <1>2, <1>4
<1> QED BY <1>3, <1>4

\* A sweep that read the counter after the grant was made ends it when it is due.
LEMMA SweepAge ==
  ASSUME IInv, Aged, SweepBehind, NEW i \in Slots, Granted(clients[i]),
         TimedOut(sweepClock, clients[i]), clients[i].authorized_at <= sweepClock
  PROVE  clock - clients[i].authorized_at >= clients[i].ttl
<1> DEFINE a == clients[i].authorized_at
<1>1. clock \in Nat /\ sweepClock \in Nat /\ a \in Nat /\ TickMod \in Nat \ {0}
  BY Split, ClientAccessAssumption DEF Rest, TableOK, Entry
<1>2. clock - a \in 0..(TickMod - 1)
  BY DEF Aged
<1>3. sweepClock - a \in 0..(TickMod - 1)
  BY <1>1, <1>2 DEF SweepBehind
<1>4. Elapsed(sweepClock, clients[i]) = sweepClock - a
  BY <1>1, <1>3, ModDifference DEF Elapsed, Tick
<1>5. clients[i].ttl \in Nat
  <2>1. clients[i] \in Entry
    BY Split DEF TableOK
  <2> QED BY <2>1, TtlNat
<1> HIDE DEF a
<1>6. sweepClock - a >= clients[i].ttl
  BY <1>4 DEF TimedOut
<1> QED BY <1>1, <1>5, <1>6 DEF SweepBehind, a

\* Slot i keeps its client and session, or loses them to a reason.
SameGrant(i) == clients'[i].mac = clients[i].mac /\ clients'[i].session = clients[i].session
HasReason(i) ==
  LET e == clients[i]
  IN  \/ clock - e.authorized_at >= e.ttl
      \/ e.session \in revoked'
      \/ clients'[i].mac = e.mac /\ clients'[i].state = "AUTHORIZED" /\ pending' = pending
      \/ events # <<>> /\ events' = Tail(events) /\ Head(events).mac = e.mac
           /\ (Head(events).kind = "disconnected" \/ e.mac \in bootSeen)
      \/ pc = "sweep" /\ pc' # pc /\ e.authorized_at > sweepClock

LEMMA TrackIpKeepsGrants ==
  ASSUME TableOK, NEW m \in Clients, NEW a, TrackIp(m, a), NEW i \in Slots
  PROVE  SameGrant(i)
<1> DEFINE j == FirstOf(SlotsOf(m))
           e == [clients[j] EXCEPT !.ip = a]
<1>1. CASE SlotsOf(m) = {}
  BY <1>1 DEF TrackIp, SameGrant
<1>2. CASE SlotsOf(m) # {}
  <2>1. j \in Slots
    BY <1>2, TrackedSlot
  <2>2. e.mac = clients[j].mac /\ e.session = clients[j].session
    <3>1. clients[j] \in Entry
      BY <2>1 DEF TableOK
    <3> QED BY <3>1 DEF Entry
  <2>3. clients' = [clients EXCEPT ![j] = e]
    BY <1>2 DEF TrackIp
  <2> HIDE DEF e, j
  <2>4. clients'[i] = IF i = j THEN e ELSE clients[i]
    BY <2>1, <2>3 DEF TableOK
  <2> QED BY <2>2, <2>4 DEF SameGrant
<1> QED BY <1>1, <1>2

\* The steps that leave clients and sessions alone.
LEMMA IdleSteps ==
  ASSUME IInv, PortalNames, NEW i \in Slots,
         \/ \E m \in Clients : Associate(m) \/ Leave(m) \/ (\E a \in Addrs : AssignAddress(m, a))
         \/ SendReport \/ DiscardEvent \/ HandleIp \/ Publisher
         \/ BeginPass \/ ListStations \/ RefreshRssi
         \/ \E a \in Addrs : PortalMiss(a)
         \/ PortalResolve \/ PortalRecord \/ Advance \/ UplinkChange \/ UNCHANGED vars
  PROVE  SameGrant(i)
<1>0. TableOK /\ Rest
  BY Split
<1>1. CASE \E m \in Clients : Associate(m) \/ Leave(m) \/ (\E a \in Addrs : AssignAddress(m, a))
  BY <1>1 DEF Associate, Leave, AssignAddress, SameGrant
<1>2. CASE SendReport \/ DiscardEvent \/ Publisher
  BY <1>2 DEF SendReport, DiscardEvent, Publisher, TakeReport, PublishReport, PublishFails, SameGrant
<1>3. CASE BeginPass \/ ListStations \/ Advance \/ UplinkChange \/ UNCHANGED vars
  BY <1>3 DEF BeginPass, ListStations, Advance, UplinkChange, SameGrant, vars
<1>4. CASE PortalResolve \/ (\E a \in Addrs : PortalMiss(a))
  <2>1. PortalResolve => UNCHANGED clients
    BY DEF PortalResolve
  <2>2. (\E a \in Addrs : PortalMiss(a)) => UNCHANGED clients
    BY DEF PortalMiss
  <2> QED BY <1>4, <2>1, <2>2 DEF SameGrant
<1>5. CASE HandleIp
  <2>1. Head(events).mac \in Clients /\ TrackIp(Head(events).mac, Head(events).ip)
    BY <1>0, <1>5, HeadEvent DEF HandleIp
  <2> QED BY <1>0, <2>1, TrackIpKeepsGrants
<1>6. CASE PortalRecord
  <2>1. portal.mac \in Clients /\ TrackIp(portal.mac, portal.ip)
    BY <1>6, PortalTable DEF PortalRecord
  <2> QED BY <1>0, <2>1, TrackIpKeepsGrants
<1>7. CASE RefreshRssi
  <2> DEFINE seen == \E j \in DOMAIN stationList : stationList[j].mac = clients[i].mac
  <2>1. clients'[i] = [clients[i] EXCEPT !.rssi = seen]
    BY <1>7 DEF RefreshRssi
  <2>2. clients[i] \in Entry
    BY <1>0 DEF TableOK
  <2> HIDE DEF seen
  <2> QED BY <2>1, <2>2 DEF SameGrant, Entry
<1> QED BY <1>1, <1>2, <1>3, <1>4, <1>5, <1>6, <1>7

\* A connection ends a grant only of a client left from start-up: the client was
\* not here as far as the handled events tell.
LEMMA ReturnAccounted ==
  ASSUME IInv, Booting, Chronicled, HandleConnected, NEW i \in Slots, Granted(clients[i])
  PROVE  SameGrant(i) \/ HasReason(i)
<1> DEFINE m == Head(events).mac
<1>0. TableOK /\ Rest
  BY Split
<1>1. /\ m \in Clients /\ events # <<>> /\ events' = Tail(events)
      /\ Head(events).kind = "connected" /\ TrackConnected(m)
  BY <1>0, HeadEvent DEF HandleConnected, NextEvent
<1>2. CASE PlacesFor(m) = {}
  BY <1>1, <1>2 DEF TrackConnected, SameGrant
<1>3. CASE PlacesFor(m) # {}
  <2>1. clients[i].mac # None
    BY <1>0 DEF TableOK, SessionMatchesState, EntryConsistent, Granted
  <2>2. clients'[i] = clients[i] \/ clients[i].mac \in {m, None}
    BY <1>0, <1>1, <1>3, TrackConnectedTable
  <2>3. CASE clients[i].mac = m
    <3>1. m \in Tracked
      BY <2>1, <2>3 DEF Tracked
    <3>2. pc \notin {"register", "list"}
      BY DEF Booting, BootPlaces
    <3>3. PICK P, L : /\ Chronicle(P, L, events, associated, lease)
                      /\ Tracked \subseteq P[0] \cup bootSeen
      BY <3>2 DEF Chronicled
    <3>4. m \notin P[0]
      BY <1>1, <3>3, Taken DEF Move
    <3> QED BY <1>1, <2>3, <3>1, <3>3, <3>4 DEF HasReason
  <2> QED BY <2>1, <2>2, <2>3 DEF SameGrant
<1> QED BY <1>2, <1>3

\* The commands of the backend.
LEMMA CommandAccounted ==
  ASSUME IInv, NEW i \in Slots, Granted(clients[i]),
         \E m \in Clients, s \in Sessions : Revoke(m, s) \/ (\E t \in Ttls : Allow(m, s, t))
  PROVE  SameGrant(i) \/ HasReason(i)
<1>0. TableOK
  BY Split
<1>1. ASSUME NEW m \in Clients, NEW s \in Sessions, Revoke(m, s)
      PROVE  SameGrant(i) \/ HasReason(i)
  <2> DEFINE j == FirstOf(SlotsOf(m))
  <2>1. CASE m \in Tracked /\ RevokeMatches(EntryOf(m), s)
    <3>1. j \in Slots
      BY <1>0, <2>1, TrackedSlot
    <3>2. clients' = [clients EXCEPT ![j] = Demoted(@)] /\ clients[j].session = s /\ s \in revoked'
      BY <1>1, <2>1 DEF Revoke, RevokeMatches, EntryOf
    <3> HIDE DEF j
    <3>3. i # j => clients'[i] = clients[i]
      BY <1>0, <3>1, <3>2 DEF TableOK
    <3> QED BY <3>2, <3>3 DEF SameGrant, HasReason
  <2>2. CASE ~ (m \in Tracked /\ RevokeMatches(EntryOf(m), s))
    BY <1>1, <2>2 DEF Revoke, SameGrant
  <2> QED BY <2>1, <2>2
<1>2. ASSUME NEW m \in Clients, NEW s \in Sessions, NEW t \in Ttls, Allow(m, s, t)
      PROVE  SameGrant(i) \/ HasReason(i)
  <2> DEFINE j == FirstOf(SlotsOf(m))
             e == [clients[j] EXCEPT !.state = "AUTHORIZED", !.session = s,
                                     !.authorized_at = clock, !.ttl = t]
  <2>1. j \in Slots
    BY <1>0, <1>2, TrackedSlot DEF Allow
  <2>2. e.mac = clients[j].mac /\ e.state = "AUTHORIZED"
    <3>1. clients[j] \in Entry
      BY <1>0, <2>1 DEF TableOK
    <3> QED BY <3>1 DEF Entry
  <2>3. clients' = [clients EXCEPT ![j] = e]
    <3>1. clients' = [clients EXCEPT ![j] = [@ EXCEPT !.state = "AUTHORIZED", !.session = s,
                                                       !.authorized_at = clock, !.ttl = t]]
      BY <1>2 DEF Allow, Authorized
    <3> QED BY <1>0, <2>1, <3>1 DEF TableOK
  <2>4. pending' = pending
    BY <1>2 DEF Allow, reportVars
  <2> HIDE DEF e, j
  <2>5. clients'[i] = IF i = j THEN e ELSE clients[i]
    BY <1>0, <2>1, <2>3 DEF TableOK
  <2> QED BY <2>2, <2>4, <2>5 DEF SameGrant, HasReason
<1> QED BY <1>1, <1>2

LEMMA GrantEnds ==
  ASSUME IInv, PortalNames, Booting, Aged, Chronicled, SweepBehind, [Next]_vars,
         NEW i \in Slots, Granted(clients[i])
  PROVE  SameGrant(i) \/ HasReason(i)
<1>0. TableOK /\ Rest
  BY Split
<1>1. CASE RegisterHandler \/ ListExisting \/ LookUpLeases
            \/ TrackExisting \/ TrackExistingIp \/ RestartOnFailedStart
  <2>1. pc \in BootPlaces
    BY <1>1 DEF RegisterHandler, ListExisting, LookUpLeases, TrackExisting, TrackExistingIp,
         RestartOnFailedStart, BootPlaces
  <2> QED BY <2>1 DEF Booting
<1>2. CASE HandleDisconnected
  <2>1. /\ events # <<>> /\ events' = Tail(events) /\ Head(events).kind = "disconnected"
    BY <1>2 DEF HandleDisconnected, NextEvent
  <2>2. clients'[i] = IF clients[i].mac = Head(events).mac THEN FreeEntry ELSE clients[i]
    BY <1>0, <1>2, RemovalTable
  <2> QED BY <2>1, <2>2 DEF SameGrant, HasReason
<1>3. CASE Sweep
  <2>1. pc = "sweep" /\ pc' # pc
    BY <1>3 DEF Sweep
  <2>2. clients'[i] = clients[i] \/ TimedOut(sweepClock, clients[i])
    BY <1>3 DEF Sweep
  <2>3. clients[i].authorized_at \in Nat /\ sweepClock \in Nat
    BY <1>0 DEF Rest, TableOK, Entry
  <2>4. clients[i].authorized_at <= sweepClock \/ clients[i].authorized_at > sweepClock
    BY <2>3
  <2>5. clients'[i] = clients[i] => SameGrant(i)
    BY DEF SameGrant
  <2>6. clients[i].authorized_at > sweepClock => HasReason(i)
    BY <2>1 DEF HasReason
  <2>7. ASSUME TimedOut(sweepClock, clients[i]), clients[i].authorized_at <= sweepClock
        PROVE  HasReason(i)
    BY <2>7, SweepAge DEF HasReason
  <2> QED BY <2>2, <2>4, <2>5, <2>6, <2>7
<1>4. ASSUME NEW a \in Addrs, ExpireOnPacket(a)
      PROVE  SameGrant(i) \/ HasReason(i)
  <2> DEFINE j == FirstOf(SlotsAt(a))
  <2>1. j \in Slots
    BY <1>4, FirstOfSlots DEF ExpireOnPacket, SlotsAt
  <2>2. TimedOut(clock, clients[j]) /\ clients' = [clients EXCEPT ![j] = Demoted(@)]
    BY <1>4 DEF ExpireOnPacket
  <2> HIDE DEF j
  <2>3. i # j => clients'[i] = clients[i]
    BY <1>0, <2>1, <2>2 DEF TableOK
  <2>4. CASE i = j
    <3>1. Elapsed(clock, clients[i]) = clock - clients[i].authorized_at
      BY ElapsedIsAge
    <3> QED BY <2>2, <2>4, <3>1 DEF TimedOut, HasReason
  <2> QED BY <2>3, <2>4 DEF SameGrant
<1> QED BY <1>1, <1>2, <1>3, <1>4, IdleSteps, ReturnAccounted, CommandAccounted
     DEF Next, EventTask, MainTask

\* An authorization ends because its lifetime has passed, because REVOKE_ACCESS
\* named its session, because a new ALLOW replaces it, because its client left
\* (or came back, if left from start-up), or because a sweep had read the tick
\* counter before the grant was made.
THEOREM GrantsEndForAReason == Spec => AuthorizationLossAccounted
<1>1. Init => SweepBehind
  BY DEF Init, SweepBehind
<1>2. (IInv /\ PortalNames /\ Booting /\ Aged /\ EInv) /\ SweepBehind /\ [Next]_vars => SweepBehind'
  BY SweepBehindStep
<1>3. ASSUME IInv, PortalNames, Booting, Aged, EInv, SweepBehind, [Next]_vars,
             NEW i \in Slots, clients[i].state = "AUTHORIZED",
             <<clients'[i].mac, clients'[i].session>> # <<clients[i].mac, clients[i].session>>
      PROVE  HasReason(i)
  BY <1>3, GrantEnds DEF Granted, SameGrant, EInv
<1>4. (IInv /\ PortalNames /\ Booting /\ Aged /\ EInv) /\ SweepBehind /\ [Next]_vars =>
        [\A i \in Slots :
           LET e == clients[i] IN
           (e.state = "AUTHORIZED" /\ <<clients'[i].mac, clients'[i].session>> # <<e.mac, e.session>>)
           => \/ clock - e.authorized_at >= e.ttl
              \/ e.session \in revoked'
              \/ clients'[i].mac = e.mac /\ clients'[i].state = "AUTHORIZED" /\ pending' = pending
              \/ events # <<>> /\ events' = Tail(events) /\ Head(events).mac = e.mac
                   /\ (Head(events).kind = "disconnected" \/ e.mac \in bootSeen)
              \/ pc = "sweep" /\ pc' # pc /\ e.authorized_at > sweepClock]_vars
  BY <1>3 DEF HasReason
<1> QED BY <1>1, <1>2, <1>4, EventsInvariance, PTL DEF Spec, AuthorizationLossAccounted

=============================================================================
