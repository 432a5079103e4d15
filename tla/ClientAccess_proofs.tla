-------------------------- MODULE ClientAccess_proofs --------------------------
(***************************************************************************)
(* Theorems about ClientAccess, for every set of clients, addresses and    *)
(* sessions, every table size and every bound.                             *)
(*                                                                         *)
(* All writers of the table change one slot, or none, or only the grants   *)
(* of several.  SlotUpdate is the one lemma about the former; the types of *)
(* the other variables are carried by Rest.                                *)
(***************************************************************************)
EXTENDS ClientAccess, TLAPS, WellFoundedInduction, FiniteSetTheorems,
        SequenceTheorems

USE ClientAccessAssumption

\* A set of numbers that is not empty has a smallest element, and FirstOf is it.
LEMMA LeastOfNat ==
  ASSUME NEW S, S \subseteq Nat, S # {}
  PROVE  FirstOf(S) \in S /\ \A y \in S : FirstOf(S) <= y
<1>1. PICK x \in S : \A y \in S : ~ (<<y, x>> \in OpToRel(<, Nat))
  BY NatLessThanWellFounded, WFMin, Zenon
<1>2. \A y \in S : y < x => <<y, x>> \in OpToRel(<, Nat)
  <2>1. OpToRel(<, Nat) = {ss \in Nat \X Nat : ss[1] < ss[2]}
    BY Zenon DEF OpToRel
  <2> QED BY <2>1
<1>3. \A y \in S : ~ (y < x)
  BY <1>1, <1>2, Zenon
<1>4. \A y \in S : x <= y
  BY <1>3
<1> QED BY <1>4, Zenon DEF FirstOf

\* The loops of the code stop at the first slot that fits.
LEMMA FirstOfSlots ==
  ASSUME NEW S, S \subseteq Slots, S # {}
  PROVE  FirstOf(S) \in S
<1>1. S \subseteq Nat
  BY DEF Slots
<1> QED BY <1>1, LeastOfNat, Zenon

\* What the head and the tail of a queue or list are.
LEMMA HeadTail ==
  ASSUME NEW S, NEW q \in Seq(S), q # <<>>
  PROVE  /\ Head(q) \in S /\ Tail(q) \in Seq(S)
         /\ Len(q) # 1 => Tail(q) # <<>>
<1>1. Head(q) \in S /\ Tail(q) \in Seq(S) /\ Len(Tail(q)) = Len(q) - 1
  BY HeadTailProperties
<1>2. Len(q) # 1 => Len(Tail(q)) # 0
  BY <1>1
<1>3. Tail(q) = <<>> => Len(Tail(q)) = 0
  BY <1>1, EmptySeq
<1> QED BY <1>1, <1>2, <1>3

\* The table alone: its type, one slot per client, and grants with sessions.
TableOK == clients \in [Slots -> Entry] /\ NoDuplicateMac /\ SessionMatchesState

LEMMA EntryTypes ==
  /\ FreeEntry \in Entry /\ EntryConsistent(FreeEntry) /\ FreeEntry.mac = None
  /\ \A m \in Clients : /\ TrackedEntry(m) \in Entry
                        /\ EntryConsistent(TrackedEntry(m))
                        /\ TrackedEntry(m).mac = m
  /\ \A e \in Entry : /\ Demoted(e) \in Entry
                      /\ Demoted(e).mac = e.mac
                      /\ e.state = "AUTHORIZED" /\ EntryConsistent(e) => EntryConsistent(Demoted(e))
  /\ \A e \in Entry, a \in Addrs \cup {None} :
       LET f == [e EXCEPT !.ip = a]
       IN  f \in Entry /\ f.mac = e.mac /\ (EntryConsistent(e) => EntryConsistent(f))
<1>1. FreeEntry \in Entry /\ EntryConsistent(FreeEntry) /\ FreeEntry.mac = None
  BY DEF FreeEntry, Entry, EntryConsistent, States
<1>2. ASSUME NEW m \in Clients
      PROVE  /\ TrackedEntry(m) \in Entry /\ EntryConsistent(TrackedEntry(m))
             /\ TrackedEntry(m).mac = m
  BY DEF TrackedEntry, FreeEntry, Entry, EntryConsistent, States
<1>3. ASSUME NEW e \in Entry
      PROVE  /\ Demoted(e) \in Entry /\ Demoted(e).mac = e.mac
             /\ e.state = "AUTHORIZED" /\ EntryConsistent(e) => EntryConsistent(Demoted(e))
  BY DEF Demoted, Entry, EntryConsistent, States
<1>4. ASSUME NEW e \in Entry, NEW a \in Addrs \cup {None}
      PROVE  LET f == [e EXCEPT !.ip = a]
             IN  f \in Entry /\ f.mac = e.mac /\ (EntryConsistent(e) => EntryConsistent(f))
  BY DEF Entry, EntryConsistent
<1> QED BY <1>1, <1>2, <1>3, <1>4

\* Every step that rewrites one slot, for the same client, for none, or for a
\* client that had no slot, keeps the table well formed.
LEMMA SlotUpdate ==
  ASSUME TableOK, NEW i \in Slots, NEW e \in Entry, EntryConsistent(e),
         e.mac \in {None, clients[i].mac} \/ e.mac \notin Tracked,
         clients' = [clients EXCEPT ![i] = e]
  PROVE  TableOK'
<1>1. clients' \in [Slots -> Entry]
  BY DEF TableOK
<1>2. NoDuplicateMac'
  BY DEF TableOK, NoDuplicateMac, Tracked
<1>3. SessionMatchesState'
  BY DEF TableOK, SessionMatchesState
<1> QED BY <1>1, <1>2, <1>3 DEF TableOK

\* A tracked client has a slot, and a client with a slot is tracked.
LEMMA TrackedSlot ==
  ASSUME TableOK, NEW m \in Clients
  PROVE  /\ m \in Tracked <=> SlotsOf(m) # {}
         /\ SlotsOf(m) # {} => /\ FirstOf(SlotsOf(m)) \in Slots
                               /\ clients[FirstOf(SlotsOf(m))].mac = m
<1>1. SlotsOf(m) \subseteq Slots
  BY DEF SlotsOf
<1>2. m \in Tracked <=> SlotsOf(m) # {}
  BY DEF Tracked, SlotsOf
<1>3. SlotsOf(m) # {} => FirstOf(SlotsOf(m)) \in SlotsOf(m)
  BY <1>1, FirstOfSlots
<1> QED BY <1>2, <1>3 DEF SlotsOf

\* track_connected_client.
LEMMA TrackConnectedOK ==
  ASSUME TableOK, NEW m \in Clients, TrackConnected(m)
  PROVE  TableOK'
<1> DEFINE at == PlacesFor(m)
<1>1. CASE at = {}
  BY <1>1 DEF TrackConnected, TableOK, NoDuplicateMac, SessionMatchesState
<1>2. CASE at # {}
  <2>1. at \subseteq Slots
    BY DEF SlotsOf, PlacesFor
  <2>2. FirstOf(at) \in at /\ FirstOf(at) \in Slots
    BY <2>1, <1>2, FirstOfSlots
  <2>3. clients[FirstOf(at)].mac = m \/ m \notin Tracked
    BY <2>2, TrackedSlot DEF SlotsOf, PlacesFor
  <2>4. clients' = [clients EXCEPT ![FirstOf(at)] = TrackedEntry(m)]
    BY <1>2 DEF TrackConnected
  <2> DEFINE i == FirstOf(at)
             e == TrackedEntry(m)
  <2>5. e \in Entry /\ EntryConsistent(e) /\ e.mac = m
    BY EntryTypes
  <2>6. i \in Slots /\ (e.mac \in {None, clients[i].mac} \/ e.mac \notin Tracked)
    BY <2>2, <2>3, <2>5
  <2>7. clients' = [clients EXCEPT ![i] = e]
    BY <2>4
  <2> HIDE DEF at, i, e
  <2> QED BY <2>5, <2>6, <2>7, SlotUpdate
<1> QED BY <1>1, <1>2

\* track_client_ip.
LEMMA TrackIpOK ==
  ASSUME TableOK, NEW m \in Clients, NEW a \in Addrs \cup {None}, TrackIp(m, a)
  PROVE  TableOK'
<1>1. CASE SlotsOf(m) = {}
  BY <1>1 DEF TrackIp, TableOK, NoDuplicateMac, SessionMatchesState
<1>2. CASE SlotsOf(m) # {}
  <2> DEFINE i == FirstOf(SlotsOf(m))
             e == [clients[i] EXCEPT !.ip = a]
  <2>1. i \in Slots
    BY <1>2, TrackedSlot
  <2>2. e \in Entry /\ EntryConsistent(e) /\ e.mac = clients[i].mac
    BY <2>1, EntryTypes DEF TableOK, SessionMatchesState
  <2>3. clients' = [clients EXCEPT ![i] = e]
    BY <1>2 DEF TrackIp
  <2> HIDE DEF e, i
  <2> QED BY <2>1, <2>2, <2>3, SlotUpdate
<1> QED BY <1>1, <1>2

\* While client_access_start goes through the station list, there is one left.
ListLeft == pc \in {"leases", "track", "trackIp"} => stationList # <<>>

\* The inductive invariant.
IInv == TypeOK /\ NoDuplicateMac /\ SessionMatchesState /\ ListLeft

LEMMA TableOfIInv == IInv => TableOK
BY DEF IInv, TypeOK, TableOK

\* Types of everything but the table.
Rest ==
  /\ associated \subseteq Clients
  /\ lease \in [Clients -> Addrs \cup {None}]
  /\ events \in Seq(Event)
  /\ handlers \subseteq Kinds
  /\ pending \in Report \cup {None}
  /\ queue \in Seq(Report)
  /\ publishing \in [report : Report, attempt : 1..Attempts] \cup {None}
  /\ pc \in {"register", "list", "leases", "track", "trackIp", "loop", "sweep",
              "stations", "rssi"}
  /\ stationList \in Seq([mac : Clients, ip : Addrs \cup {None}])
  /\ sweepClock \in Nat /\ clock \in Nat /\ removals \in Nat
  /\ mqttStarted \in BOOLEAN /\ uplink \in BOOLEAN
  /\ portal \in [step : {"idle", "resolve", "record"}, ip : Addrs \cup {None},
                 mac : Clients \cup {None}]
  /\ published \subseteq Nat /\ lost \subseteq Nat
  /\ revoked \subseteq Sessions
  /\ bootSeen \subseteq Clients /\ overwritten \subseteq Clients /\ turnedAway \subseteq Clients
  /\ ListLeft

LEMMA Split == (IInv <=> TableOK /\ Rest) /\ (IInv' <=> TableOK' /\ Rest')
BY DEF IInv, TypeOK, TableOK, Rest

\* The same, by owner of the state.
DriverOK == /\ associated \subseteq Clients
            /\ lease \in [Clients -> Addrs \cup {None}]
            /\ events \in Seq(Event)
ReportOK == /\ pending \in Report \cup {None}
            /\ queue \in Seq(Report)
            /\ publishing \in [report : Report, attempt : 1..Attempts] \cup {None}
            /\ removals \in Nat /\ published \subseteq Nat /\ lost \subseteq Nat
MainOK   == /\ pc \in {"register", "list", "leases", "track", "trackIp", "loop", "sweep",
                         "stations", "rssi"}
            /\ stationList \in Seq([mac : Clients, ip : Addrs \cup {None}])
            /\ sweepClock \in Nat /\ mqttStarted \in BOOLEAN
            /\ handlers \subseteq Kinds /\ bootSeen \subseteq Clients
            /\ ListLeft
OtherOK  == /\ uplink \in BOOLEAN /\ clock \in Nat
            /\ portal \in [step : {"idle", "resolve", "record"}, ip : Addrs \cup {None},
                            mac : Clients \cup {None}]
            /\ revoked \subseteq Sessions /\ overwritten \subseteq Clients
            /\ turnedAway \subseteq Clients

LEMMA RestParts == /\ Rest  <=> DriverOK  /\ ReportOK  /\ MainOK  /\ OtherOK
                   /\ Rest' <=> DriverOK' /\ ReportOK' /\ MainOK' /\ OtherOK'
BY DEF Rest, DriverOK, ReportOK, MainOK, OtherOK

LEMMA PartsUnchanged ==
  /\ DriverOK /\ UNCHANGED driverVars => DriverOK'
  /\ ReportOK /\ UNCHANGED reportVars => ReportOK'
  /\ MainOK /\ UNCHANGED mainVars => MainOK'
  /\ OtherOK /\ UNCHANGED <<uplink, portal, clock, revoked, overwritten, turnedAway>> => OtherOK'
<1>1. DriverOK /\ UNCHANGED driverVars => DriverOK'
  BY DEF DriverOK, driverVars
<1>2. ReportOK /\ UNCHANGED reportVars => ReportOK'
  BY DEF ReportOK, reportVars
<1>3. MainOK /\ UNCHANGED mainVars => MainOK'
  BY DEF MainOK, mainVars, ListLeft
<1>4. OtherOK /\ UNCHANGED <<uplink, portal, clock, revoked, overwritten, turnedAway>> => OtherOK'
  BY DEF OtherOK
<1> QED BY <1>1, <1>2, <1>3, <1>4

\* A step that does not touch the table.
LEMMA TableUnchanged == TableOK /\ UNCHANGED clients => TableOK'
BY DEF TableOK, NoDuplicateMac, SessionMatchesState

-----------------------------------------------------------------------------
(* The driver, the DHCP server and the event task. *)

LEMMA DriverSteps ==
  ASSUME IInv, NEW m \in Clients,
         \/ Associate(m) \/ Leave(m) \/ \E a \in Addrs : AssignAddress(m, a)
  PROVE  IInv'
<1>1. CASE Associate(m)
  <2>0. DriverOK /\ ReportOK /\ MainOK /\ OtherOK
    BY Split, RestParts
  <2>a. DriverOK'
    BY <1>1, <2>0 DEF Associate, Post, DriverOK, Event, Kinds
  <2>b. ReportOK' /\ MainOK' /\ OtherOK'
    BY <1>1, <2>0, PartsUnchanged DEF Associate
  <2>1. Rest'
    BY <2>a, <2>b, RestParts
  <2> QED BY <1>1, <2>1, Split, TableUnchanged DEF Associate
<1>2. CASE Leave(m)
  <2>0. DriverOK /\ ReportOK /\ MainOK /\ OtherOK
    BY Split, RestParts
  <2>a. DriverOK'
    BY <1>2, <2>0 DEF Leave, Post, DriverOK, Event, Kinds
  <2>b. ReportOK' /\ MainOK' /\ OtherOK'
    BY <1>2, <2>0, PartsUnchanged DEF Leave
  <2>1. Rest'
    BY <2>a, <2>b, RestParts
  <2> QED BY <1>2, <2>1, Split, TableUnchanged DEF Leave
<1>3. ASSUME NEW a \in Addrs, AssignAddress(m, a) PROVE IInv'
  <2> DEFINE e == [kind |-> "ip", mac |-> m, ip |-> a]
  <2>a. e \in Event /\ lease' \in [Clients -> Addrs \cup {None}]
    BY <1>3, Split DEF AssignAddress, Event, Kinds, Rest
  <2>b. events' = Append(events, e)
    BY <1>3 DEF AssignAddress, Post
  <2>c. events' \in Seq(Event)
    <3> HIDE DEF e
    <3> QED BY <2>a, <2>b, Split DEF Rest
  <2>d. DriverOK /\ ReportOK /\ MainOK /\ OtherOK
    BY Split, RestParts
  <2>f. DriverOK'
    BY <1>3, <2>a, <2>c, <2>d DEF AssignAddress, DriverOK
  <2>g. ReportOK' /\ MainOK' /\ OtherOK'
    BY <1>3, <2>d, PartsUnchanged DEF AssignAddress
  <2>1. Rest'
    BY <2>f, <2>g, RestParts
  <2> QED BY <1>3, <2>1, Split, TableUnchanged DEF AssignAddress
<1> QED BY <1>1, <1>2, <1>3

\* What the event task takes from the head of its queue.
LEMMA HeadEvent ==
  ASSUME Rest, NEW k, NextEvent(k)
  PROVE  /\ Head(events) \in Event /\ Head(events).mac \in Clients
         /\ Head(events).ip \in Addrs \cup {None}
         /\ events' \in Seq(Event)
<1>1. events \in Seq(Event) /\ events # <<>> /\ events' = Tail(events)
  BY DEF Rest, NextEvent
<1>2. Head(events) \in Event /\ Tail(events) \in Seq(Event)
  BY <1>1, HeadTail
<1> QED BY <1>1, <1>2 DEF Event

LEMMA HandlerSteps ==
  ASSUME IInv, HandleConnected \/ HandleIp \/ DiscardEvent
  PROVE  IInv'
<1> DEFINE e == Head(events)
<1>1. CASE HandleConnected
  <2>1. e.mac \in Clients /\ events' \in Seq(Event)
    BY <1>1, Split, HeadEvent DEF HandleConnected
  <2>2. TableOK'
    BY <1>1, <2>1, Split, TrackConnectedOK DEF HandleConnected
  <2>3. Rest'
    BY <1>1, <2>1, Split DEF HandleConnected, Rest, ListLeft, reportVars, mainVars
  <2> QED BY <2>2, <2>3, Split
<1>2. CASE HandleIp
  <2>1. e.mac \in Clients /\ e.ip \in Addrs \cup {None} /\ events' \in Seq(Event)
    BY <1>2, Split, HeadEvent DEF HandleIp
  <2>2. TableOK'
    BY <1>2, <2>1, Split, TrackIpOK DEF HandleIp
  <2>3. Rest'
    <3>1. DriverOK /\ ReportOK /\ MainOK /\ OtherOK
      BY Split, RestParts
    <3>2. DriverOK' /\ ReportOK' /\ MainOK'
      BY <1>2, <2>1, <3>1, PartsUnchanged DEF HandleIp, DriverOK
    <3>3. OtherOK'
      BY <1>2, <3>1 DEF HandleIp, OtherOK
    <3> QED BY <3>2, <3>3, RestParts
  <2> QED BY <2>2, <2>3, Split
<1>3. CASE DiscardEvent
  <2>1. events' \in Seq(Event)
    BY <1>3, Split, HeadEvent DEF DiscardEvent
  <2>2. Rest'
    BY <1>3, <2>1, Split DEF DiscardEvent, Rest, ListLeft, reportVars, mainVars
  <2> QED BY <1>3, <2>2, Split, TableUnchanged DEF DiscardEvent
<1> QED BY <1>1, <1>2, <1>3

LEMMA HandleDisconnectedStep ==
  ASSUME IInv, HandleDisconnected
  PROVE  IInv'
<1> DEFINE m == Head(events).mac
           i == FirstOf(SlotsOf(m))
<1>1. m \in Clients /\ events' \in Seq(Event)
  BY Split, HeadEvent DEF HandleDisconnected
<1>2. CASE m \in Tracked
  <2>1. i \in Slots /\ clients[i] \in Entry
    BY <1>1, <1>2, TrackedSlot, Split DEF TableOK
  <2>2. RemoveClient(m) /\ removals' = removals + 1
    BY <1>2 DEF HandleDisconnected
  <2>3. clients' = [clients EXCEPT ![i] = FreeEntry]
    BY <2>2 DEF RemoveClient
  <2>4. TableOK'
    <3> HIDE DEF i
    <3> QED BY <2>1, <2>3, EntryTypes, SlotUpdate, Split
  <2>5. pending' \in Report /\ removals' \in Nat
    <3>1. removals \in Nat
      BY Split DEF Rest
    <3>2. /\ clients[i].state \in States /\ clients[i].session \in Sessions \cup {0}
          /\ pending' = [mac |-> m, state |-> clients[i].state,
                          session |-> clients[i].session, seq |-> removals + 1]
      BY <2>1, <2>2 DEF RemoveClient, Entry
    <3> HIDE DEF m, i
    <3> QED BY <1>1, <2>2, <3>1, <3>2 DEF Report
  <2>6. Rest'
    <3>1. DriverOK /\ ReportOK /\ MainOK /\ OtherOK
      BY Split, RestParts
    <3>2. ReportOK'
      BY <2>5, <3>1 DEF HandleDisconnected, ReportOK
    <3>3. DriverOK' /\ MainOK'
      BY <1>1, <3>1, PartsUnchanged DEF HandleDisconnected, DriverOK
    <3>4. OtherOK'
      BY <1>1, <3>1 DEF HandleDisconnected, OtherOK
    <3> QED BY <3>2, <3>3, <3>4, RestParts
  <2> QED BY <2>4, <2>6, Split
<1>3. CASE m \notin Tracked
  <2>1. Rest'
    <3>1. DriverOK /\ ReportOK /\ MainOK /\ OtherOK
      BY Split, RestParts
    <3>2. ReportOK' /\ DriverOK' /\ MainOK'
      BY <1>1, <1>3, <3>1, PartsUnchanged DEF HandleDisconnected, DriverOK, ReportOK
    <3>3. OtherOK'
      BY <3>1 DEF HandleDisconnected, OtherOK
    <3> QED BY <3>2, <3>3, RestParts
  <2> QED BY <1>3, <2>1, Split, TableUnchanged DEF HandleDisconnected
<1> QED BY <1>2, <1>3

-----------------------------------------------------------------------------
(* client_access_start. *)

\* The list the driver returns has an entry for every associated station.
LEMMA StationListType ==
  ASSUME Rest, NEW l \in StationLists
  PROVE  /\ l \in Seq([mac : Clients, ip : Addrs \cup {None}])
         /\ associated # {} => l # <<>>
<1>1. IsFiniteSet(associated) /\ Cardinality(associated) \in Nat
  BY FS_Subset, FS_CardinalityType DEF Rest
<1>2. associated # {} => Cardinality(associated) # 0
  BY <1>1, FS_EmptySet
<1> DEFINE n == Cardinality(associated)
           S == [mac : Clients, ip : Addrs \cup {None}]
<1>3. l \in [1..n -> S]
  BY DEF StationLists, Rest
<1>4. l \in Seq(S) /\ Len(l) = n
  <2> HIDE DEF n, S
  <2>1. n \in Nat
    BY <1>1 DEF n
  <2> QED BY <1>3, <2>1
<1> QED BY <1>2, <1>4

LEMMA StartSteps ==
  ASSUME IInv, RegisterHandler \/ ListExisting \/ LookUpLeases
  PROVE  IInv'
<1>1. CASE RegisterHandler
  <2>1. Rest'
    BY <1>1, Split DEF RegisterHandler, Rest, ListLeft, Kinds, reportVars, driverVars
  <2> QED BY <1>1, <2>1, Split, TableUnchanged DEF RegisterHandler
<1>2. CASE ListExisting
  <2>1. stationList' \in Seq([mac : Clients, ip : Addrs \cup {None}])
        /\ (associated # {} => stationList' # <<>>)
    BY <1>2, Split, StationListType DEF ListExisting
  <2>2. bootSeen' \subseteq Clients
    BY <1>2, Split DEF ListExisting, Rest, TableOK, Tracked, Entry
  <2>3. Rest'
    BY <1>2, <2>1, <2>2, Split DEF ListExisting, Rest, ListLeft, reportVars, driverVars
  <2> QED BY <1>2, <2>3, Split, TableUnchanged DEF ListExisting
<1>3. CASE LookUpLeases
  <2> DEFINE S == [mac : Clients, ip : Addrs \cup {None}]
             n == Len(stationList)
  <2>1. stationList \in Seq(S) /\ stationList # <<>> /\ lease \in [Clients -> Addrs \cup {None}]
    BY <1>3, Split DEF LookUpLeases, Rest, ListLeft
  <2>2. n \in Nat /\ DOMAIN stationList = 1..n /\ stationList \in [1..n -> S]
    <3> HIDE DEF S
    <3> QED BY <2>1
  <2>3. stationList' \in [1..n -> S]
    BY <1>3, <2>1, <2>2 DEF LookUpLeases
  <2>4. n # 0
    BY <2>1, EmptySeq
  <2>5. stationList' \in Seq(S) /\ Len(stationList') = n
    <3> HIDE DEF S, n
    <3> QED BY <2>2, <2>3
  <2>6. stationList' # <<>>
    BY <2>4, <2>5
  <2>7. Rest'
    BY <1>3, <2>5, <2>6, Split DEF LookUpLeases, Rest, ListLeft, reportVars, driverVars
  <2> QED BY <1>3, <2>7, Split, TableUnchanged DEF LookUpLeases
<1> QED BY <1>1, <1>2, <1>3

LEMMA DoneType ==
  ASSUME Rest, pc \in {"track", "trackIp"}, DoneWithStation
  PROVE  /\ stationList' \in Seq([mac : Clients, ip : Addrs \cup {None}])
         /\ pc' \in {"loop", "track"}
         /\ ListLeft'
<1> DEFINE S == [mac : Clients, ip : Addrs \cup {None}]
<1>1. stationList \in Seq(S) /\ stationList # <<>>
  BY DEF Rest, ListLeft
<1>2. stationList' = Tail(stationList)
  BY DEF DoneWithStation
<1>3. stationList' \in Seq(S) /\ (Len(stationList) # 1 => stationList' # <<>>)
  <2> HIDE DEF S
  <2> QED BY <1>1, <1>2, HeadTail
<1> QED BY <1>3 DEF DoneWithStation, ListLeft

LEMMA HeadStation ==
  ASSUME Rest, pc \in {"track", "trackIp"}
  PROVE  Head(stationList).mac \in Clients /\ Head(stationList).ip \in Addrs \cup {None}
<1>1. stationList \in Seq([mac : Clients, ip : Addrs \cup {None}]) /\ stationList # <<>>
  BY DEF Rest, ListLeft
<1>2. Head(stationList) \in [mac : Clients, ip : Addrs \cup {None}]
  <2> DEFINE S == [mac : Clients, ip : Addrs \cup {None}]
  <2> HIDE DEF S
  <2>1. Head(stationList) \in S
    BY <1>1, HeadTail DEF S
  <2> QED BY <2>1 DEF S
<1> QED BY <1>2

LEMMA NoteAddressType ==
  ASSUME Rest, NEW m \in Clients, NEW a, NoteAddress(m, a)
  PROVE  overwritten' \subseteq Clients
BY DEF Rest, NoteAddress

LEMMA TrackExistingSteps ==
  ASSUME IInv, TrackExisting \/ TrackExistingIp
  PROVE  IInv'
<1> DEFINE s == Head(stationList)
<1>1. CASE TrackExisting
  <2>1. s.mac \in Clients /\ pc = "track"
    BY <1>1, HeadStation, Split DEF TrackExisting
  <2>2. TableOK'
    BY <1>1, <2>1, Split, TrackConnectedOK DEF TrackExisting
  <2>3. overwritten' \subseteq Clients
    BY <1>1, <2>1, Split, NoteAddressType DEF TrackExisting
  <2>4. /\ stationList' \in Seq([mac : Clients, ip : Addrs \cup {None}])
        /\ pc' \in {"loop", "track", "trackIp"} /\ ListLeft'
    <3>1. CASE s.ip = None
      BY <1>1, <2>1, <3>1, Split, DoneType DEF TrackExisting
    <3>2. CASE s.ip # None
      BY <1>1, <2>1, <3>2, Split DEF TrackExisting, Rest, ListLeft
    <3> QED BY <3>1, <3>2
  <2>5. Rest'
    BY <1>1, <2>3, <2>4, Split DEF TrackExisting, Rest, reportVars, driverVars
  <2> QED BY <2>2, <2>5, Split
<1>2. CASE TrackExistingIp
  <2>1. s.mac \in Clients /\ s.ip \in Addrs \cup {None} /\ pc = "trackIp"
    BY <1>2, HeadStation, Split DEF TrackExistingIp
  <2>2. TableOK'
    BY <1>2, <2>1, Split, TrackIpOK DEF TrackExistingIp
  <2>3. overwritten' \subseteq Clients
    BY <1>2, <2>1, Split, NoteAddressType DEF TrackExistingIp
  <2>4. /\ stationList' \in Seq([mac : Clients, ip : Addrs \cup {None}])
        /\ pc' \in {"loop", "track"} /\ ListLeft'
    BY <1>2, <2>1, Split, DoneType DEF TrackExistingIp
  <2>5. Rest'
    BY <1>2, <2>3, <2>4, Split DEF TrackExistingIp, Rest, reportVars, driverVars
  <2> QED BY <2>2, <2>5, Split
<1> QED BY <1>1, <1>2

\* A table of free slots, at Init and after a restart.
LEMMA EmptyTable ==
  (clients = [i \in Slots |-> FreeEntry] => TableOK)
  /\ (clients' = [i \in Slots |-> FreeEntry] => TableOK')
BY EntryTypes DEF TableOK, NoDuplicateMac, SessionMatchesState

LEMMA RestartStep ==
  ASSUME IInv, RestartOnFailedStart
  PROVE  IInv'
<1>1. Rest'
  BY Split DEF RestartOnFailedStart, Rest, ListLeft
<1> QED BY <1>1, Split, EmptyTable DEF RestartOnFailedStart

-----------------------------------------------------------------------------
(* The MQTT task, the lwIP thread and the HTTP task. *)

\* A step that ends the grant of one slot.
LEMMA DemoteSlot ==
  ASSUME TableOK, NEW i \in Slots, clients[i].state = "AUTHORIZED",
         clients' = [clients EXCEPT ![i] = Demoted(@)]
  PROVE  TableOK'
<1>1. clients[i] \in Entry /\ EntryConsistent(clients[i])
  BY DEF TableOK, SessionMatchesState
<1> DEFINE e == Demoted(clients[i])
<1>2. e \in Entry /\ EntryConsistent(e) /\ e.mac = clients[i].mac
  BY <1>1, EntryTypes
<1>3. clients' = [clients EXCEPT ![i] = e]
  BY DEF TableOK
<1> HIDE DEF e
<1> QED BY <1>2, <1>3, SlotUpdate

LEMMA AllowStep ==
  ASSUME IInv, NEW m \in Clients, NEW s \in Sessions, NEW t \in Ttls, Allow(m, s, t)
  PROVE  IInv'
<1> DEFINE i == FirstOf(SlotsOf(m))
           e == [clients[i] EXCEPT !.state = "AUTHORIZED", !.session = s,
                                   !.authorized_at = clock, !.ttl = t]
<1>1. i \in Slots /\ clients[i].mac = m
  BY TrackedSlot, Split DEF Allow
<1>2. clients[i] \in Entry /\ EntryConsistent(clients[i]) /\ clock \in Nat
  BY <1>1, Split DEF TableOK, SessionMatchesState, Rest
<1>3. e \in Entry /\ EntryConsistent(e) /\ e.mac = clients[i].mac
  <2>1. s # 0 /\ t # 0 /\ m # None
    OBVIOUS
  <2>2. /\ e.mac = m /\ e.state = "AUTHORIZED" /\ e.session = s /\ e.ttl = t
        /\ e \in Entry
    BY <1>1, <1>2 DEF Entry, States
  <2> HIDE DEF e, i
  <2> QED BY <1>1, <2>1, <2>2 DEF EntryConsistent
<1>4. clients' = [clients EXCEPT ![i] = e]
  BY DEF Allow, Authorized
<1>5. TableOK'
  <2> HIDE DEF e, i
  <2> QED BY <1>1, <1>3, <1>4, SlotUpdate, Split
<1>6. Rest'
  BY Split, RestParts, PartsUnchanged DEF Allow
<1> QED BY <1>5, <1>6, Split

LEMMA RevokeStep ==
  ASSUME IInv, NEW m \in Clients, NEW s \in Sessions, Revoke(m, s)
  PROVE  IInv'
<1> DEFINE i == FirstOf(SlotsOf(m))
<1>1. TableOK'
  <2>1. CASE m \in Tracked /\ RevokeMatches(EntryOf(m), s)
    <3>1. i \in Slots
      BY <2>1, TrackedSlot, Split
    <3>2. clients[i].state = "AUTHORIZED"
      BY <2>1 DEF RevokeMatches, EntryOf
    <3>3. clients' = [clients EXCEPT ![i] = Demoted(@)]
      BY <2>1 DEF Revoke
    <3> HIDE DEF i
    <3> QED BY <3>1, <3>2, <3>3, DemoteSlot, Split
  <2>2. CASE ~ (m \in Tracked /\ RevokeMatches(EntryOf(m), s))
    BY <2>2, TableUnchanged, Split DEF Revoke
  <2> QED BY <2>1, <2>2
<1>2. Rest'
  <2>1. DriverOK /\ ReportOK /\ MainOK /\ OtherOK
    BY Split, RestParts
  <2>2. OtherOK'
    BY <2>1 DEF Revoke, OtherOK
  <2> QED BY <2>1, <2>2, RestParts, PartsUnchanged DEF Revoke
<1> QED BY <1>1, <1>2, Split

LEMMA ExpireOnPacketStep ==
  ASSUME IInv, NEW a \in Addrs, ExpireOnPacket(a)
  PROVE  IInv'
<1> DEFINE i == FirstOf(SlotsAt(a))
<1>1. i \in Slots
  <2>1. SlotsAt(a) \subseteq Slots /\ SlotsAt(a) # {}
    BY DEF SlotsAt, ExpireOnPacket
  <2> QED BY <2>1, FirstOfSlots
<1>2. clients[i].state = "AUTHORIZED" /\ clients' = [clients EXCEPT ![i] = Demoted(@)]
  BY DEF ExpireOnPacket
<1>3. TableOK'
  <2> HIDE DEF i
  <2> QED BY <1>1, <1>2, DemoteSlot, Split
<1>4. Rest'
  BY Split DEF ExpireOnPacket, Rest, ListLeft, driverVars, reportVars, mainVars
<1> QED BY <1>3, <1>4, Split

\* The ARP recovery writes for a client the ARP table named.
PortalNames == portal.step = "record" => portal.mac \in Clients

LEMMA PortalSteps ==
  ASSUME IInv, PortalNames,
         \/ \E a \in Addrs : PortalMiss(a)
         \/ PortalResolve \/ PortalRecord
  PROVE  IInv' /\ PortalNames'
<1>1. ASSUME NEW a \in Addrs, PortalMiss(a) PROVE IInv' /\ PortalNames'
  <2>1. Rest' /\ PortalNames'
    BY <1>1, Split DEF PortalMiss, PortalNames, Rest, ListLeft, driverVars, reportVars, mainVars
  <2> QED BY <1>1, <2>1, Split, TableUnchanged DEF PortalMiss
<1>2. CASE PortalResolve
  <2>0. /\ portal' \in [step : {"idle", "resolve", "record"}, ip : Addrs \cup {None},
                        mac : Clients \cup {None}]
        /\ PortalNames'
    <3>1. CASE \E m \in associated : portal' = [portal EXCEPT !.step = "record", !.mac = m]
      BY <3>1, Split DEF Rest, PortalNames
    <3>2. CASE portal' = [step |-> "idle", ip |-> None, mac |-> None]
      BY <3>2 DEF PortalNames
    <3> QED BY <1>2, <3>1, <3>2 DEF PortalResolve
  <2>1. Rest'
    BY <1>2, <2>0, Split DEF PortalResolve, Rest, ListLeft, driverVars, reportVars, mainVars
  <2> QED BY <2>0, <1>2, <2>1, Split, TableUnchanged DEF PortalResolve
<1>3. CASE PortalRecord
  <2>1. portal.mac \in Clients /\ portal.ip \in Addrs \cup {None}
    BY <1>3, Split DEF PortalRecord, PortalNames, Rest
  <2>2. TableOK'
    BY <1>3, <2>1, TrackIpOK, Split DEF PortalRecord
  <2>3. overwritten' \subseteq Clients
    BY <1>3, <2>1, NoteAddressType, Split DEF PortalRecord, Rest
  <2>4. Rest' /\ PortalNames'
    BY <1>3, <2>3, Split DEF PortalRecord, PortalNames, Rest, ListLeft, driverVars, reportVars, mainVars
  <2> QED BY <2>2, <2>4, Split
<1> QED BY <1>1, <1>2, <1>3

-----------------------------------------------------------------------------
(* The main loop, the publisher, time. *)

LEMMA SweepStep ==
  ASSUME IInv, Sweep
  PROVE  IInv'
<1>1. \A i \in Slots : /\ clients'[i] \in Entry /\ EntryConsistent(clients'[i])
                       /\ clients'[i].mac = clients[i].mac
  BY EntryTypes, Split DEF Sweep, TableOK, SessionMatchesState
<1>2. TableOK'
  BY <1>1, Split DEF Sweep, TableOK, NoDuplicateMac, SessionMatchesState
<1>3. Rest'
  BY Split DEF Sweep, Rest, ListLeft, driverVars, reportVars
<1> QED BY <1>2, <1>3, Split

LEMMA RefreshRssiStep ==
  ASSUME IInv, RefreshRssi
  PROVE  IInv'
<1>1. \A e \in Entry, b \in BOOLEAN :
        LET f == [e EXCEPT !.rssi = b]
        IN  f \in Entry /\ f.mac = e.mac /\ (EntryConsistent(e) => EntryConsistent(f))
  BY DEF Entry, EntryConsistent
<1> DEFINE seen(i) == \E j \in DOMAIN stationList : stationList[j].mac = clients[i].mac
<1>2. \A i \in Slots : /\ clients'[i] \in Entry /\ EntryConsistent(clients'[i])
                       /\ clients'[i].mac = clients[i].mac
  <2>1. \A i \in Slots : clients[i] \in Entry /\ EntryConsistent(clients[i])
    BY Split DEF TableOK, SessionMatchesState
  <2>2. ASSUME NEW i \in Slots
        PROVE  \E b \in BOOLEAN : clients'[i] = [clients[i] EXCEPT !.rssi = b]
    <3>1. clients'[i] = [clients[i] EXCEPT !.rssi = seen(i)]
      BY DEF RefreshRssi
    <3>2. seen(i) \in BOOLEAN
      OBVIOUS
    <3> HIDE DEF seen
    <3> QED BY <3>1, <3>2, Zenon
  <2>3. ASSUME NEW i \in Slots
        PROVE  /\ clients'[i] \in Entry /\ EntryConsistent(clients'[i])
               /\ clients'[i].mac = clients[i].mac
    <3> PICK b \in BOOLEAN : clients'[i] = [clients[i] EXCEPT !.rssi = b]
      BY <2>2
    <3> DEFINE e == clients[i]
               f == [e EXCEPT !.rssi = b]
    <3>1. e \in Entry /\ EntryConsistent(e)
      BY <2>1
    <3>2. clients'[i] = f
      OBVIOUS
    <3> HIDE DEF e
    <3>3. f \in Entry /\ f.mac = e.mac /\ EntryConsistent(f)
      BY <1>1, <3>1
    <3> HIDE DEF f
    <3>4. clients'[i].mac = e.mac /\ clients'[i] \in Entry /\ EntryConsistent(clients'[i])
      BY <3>2, <3>3
    <3> QED BY <3>4 DEF e
  <2> QED BY <2>3
<1>3. TableOK'
  <2>1. clients' \in [Slots -> Entry]
    BY <1>2 DEF RefreshRssi
  <2>2. NoDuplicateMac /\ SessionMatchesState
    BY Split DEF TableOK
  <2> QED BY <1>2, <2>1, <2>2 DEF TableOK, NoDuplicateMac, SessionMatchesState
<1>4. Rest'
  <2>1. DriverOK /\ ReportOK /\ MainOK /\ OtherOK
    BY Split, RestParts
  <2>2. MainOK'
    BY <2>1 DEF RefreshRssi, MainOK, ListLeft
  <2> QED BY <2>1, <2>2, RestParts, PartsUnchanged DEF RefreshRssi
<1> QED BY <1>3, <1>4, Split

LEMMA OtherMainSteps ==
  ASSUME IInv, BeginPass \/ ListStations
  PROVE  IInv'
<1>1. CASE BeginPass
  <2>1. Rest'
    BY <1>1, Split DEF BeginPass, Rest, ListLeft, driverVars, reportVars
  <2> QED BY <1>1, <2>1, Split, TableUnchanged DEF BeginPass
<1>2. CASE ListStations
  <2>1. stationList' \in Seq([mac : Clients, ip : Addrs \cup {None}])
    BY <1>2, Split, StationListType DEF ListStations, Rest
  <2>2. Rest'
    BY <1>2, <2>1, Split DEF ListStations, Rest, ListLeft, driverVars, reportVars
  <2> QED BY <1>2, <2>2, Split, TableUnchanged DEF ListStations
<1> QED BY <1>1, <1>2

\* The report task and xQueueSend.
LEMMA ReportSteps ==
  ASSUME IInv, SendReport \/ Publisher
  PROVE  IInv'
<1>1. CASE SendReport
  <2>1. pending \in Report /\ pending.seq \in Nat
    BY <1>1, Split DEF SendReport, Rest, Report
  <2>2. queue' \in Seq(Report) /\ lost' \subseteq Nat
    <3>1. CASE Len(queue) < MaxConn
      <4>1. queue' = Append(queue, pending) /\ lost' = lost
        BY <1>1, <3>1 DEF SendReport
      <4>2. queue \in Seq(Report) /\ lost \subseteq Nat
        BY Split DEF Rest
      <4> QED BY <2>1, <4>1, <4>2
    <3>2. CASE ~ (Len(queue) < MaxConn)
      BY <1>1, <2>1, <3>2, Split DEF SendReport, Rest
    <3> QED BY <3>1, <3>2
  <2>3. Rest'
    <3>1. DriverOK /\ ReportOK /\ MainOK /\ OtherOK
      BY Split, RestParts
    <3>2. ReportOK'
      BY <1>1, <2>2, <3>1 DEF SendReport, ReportOK
    <3> QED BY <1>1, <3>1, <3>2, RestParts, PartsUnchanged DEF SendReport
  <2> QED BY <1>1, <2>3, Split, TableUnchanged DEF SendReport
<1>2. CASE TakeReport
  <2>1. Head(queue) \in Report /\ queue' \in Seq(Report)
    BY <1>2, Split, HeadTail DEF TakeReport, Rest
  <2>2. publishing' \in [report : Report, attempt : 1..Attempts]
    BY <1>2, <2>1 DEF TakeReport
  <2>3. Rest'
    <3>1. DriverOK /\ ReportOK /\ MainOK /\ OtherOK
      BY Split, RestParts
    <3>2. ReportOK'
      BY <1>2, <2>1, <2>2, <3>1 DEF TakeReport, ReportOK
    <3> QED BY <1>2, <3>1, <3>2, RestParts, PartsUnchanged DEF TakeReport
  <2> QED BY <1>2, <2>3, Split, TableUnchanged DEF TakeReport
<1>3. CASE PublishReport
  <2>1. publishing.report.seq \in Nat
    BY <1>3, Split DEF PublishReport, Rest, Report
  <2>2. Rest'
    <3>1. DriverOK /\ ReportOK /\ MainOK /\ OtherOK
      BY Split, RestParts
    <3>2. ReportOK'
      BY <1>3, <2>1, <3>1 DEF PublishReport, ReportOK
    <3> QED BY <1>3, <3>1, <3>2, RestParts, PartsUnchanged DEF PublishReport
  <2> QED BY <1>3, <2>2, Split, TableUnchanged DEF PublishReport
<1>4. CASE PublishFails
  <2>1. publishing \in [report : Report, attempt : 1..Attempts] /\ publishing.report.seq \in Nat
    BY <1>4, Split DEF PublishFails, Rest, Report
  <2>2. publishing' \in [report : Report, attempt : 1..Attempts] \cup {None} /\ lost' \subseteq Nat
    <3>1. CASE publishing.attempt < Attempts
      <4>1. publishing.attempt + 1 \in 1..Attempts
        BY <2>1, <3>1
      <4>2. publishing' = [publishing EXCEPT !.attempt = publishing.attempt + 1] /\ lost' = lost
        BY <1>4, <2>1, <3>1 DEF PublishFails
      <4> QED BY <2>1, <4>1, <4>2, Split DEF Rest
    <3>2. CASE ~ (publishing.attempt < Attempts)
      BY <1>4, <2>1, <3>2, Split DEF PublishFails, Rest
    <3> QED BY <3>1, <3>2
  <2>3. Rest'
    <3>1. DriverOK /\ ReportOK /\ MainOK /\ OtherOK
      BY Split, RestParts
    <3>2. ReportOK'
      BY <1>4, <2>2, <3>1 DEF PublishFails, ReportOK
    <3> QED BY <1>4, <3>1, <3>2, RestParts, PartsUnchanged DEF PublishFails
  <2> QED BY <1>4, <2>3, Split, TableUnchanged DEF PublishFails
<1> QED BY <1>1, <1>2, <1>3, <1>4 DEF Publisher

LEMMA WorldSteps ==
  ASSUME IInv, Advance \/ UplinkChange
  PROVE  IInv'
<1>1. CASE Advance
  <2>1. clock' \in Nat
    BY <1>1, Split DEF Advance, Rest
  <2>2. Rest'
    <3>1. DriverOK /\ ReportOK /\ MainOK /\ OtherOK
      BY Split, RestParts
    <3>2. OtherOK'
      BY <1>1, <2>1, <3>1 DEF Advance, OtherOK
    <3> QED BY <1>1, <3>1, <3>2, RestParts, PartsUnchanged DEF Advance
  <2> QED BY <1>1, <2>2, Split, TableUnchanged DEF Advance
<1>2. CASE UplinkChange
  <2>1. uplink' \in BOOLEAN
    BY <1>2 DEF UplinkChange
  <2>2. Rest'
    BY <1>2, <2>1, Split DEF UplinkChange, Rest, ListLeft, driverVars, reportVars, mainVars
  <2> QED BY <1>2, <2>2, Split, TableUnchanged DEF UplinkChange
<1> QED BY <1>1, <1>2

-----------------------------------------------------------------------------
(* The theorems. *)

LEMMA InitOK == Init => IInv /\ PortalNames
<1> SUFFICES ASSUME Init PROVE IInv /\ PortalNames
  OBVIOUS
<1>a. lease \in [Clients -> Addrs \cup {None}] /\ uplink \in BOOLEAN
  BY DEF Init
<1>b. events \in Seq(Event) /\ queue \in Seq(Report)
      /\ stationList \in Seq([mac : Clients, ip : Addrs \cup {None}])
  BY DEF Init
<1>c. portal \in [step : {"idle", "resolve", "record"}, ip : Addrs \cup {None},
                  mac : Clients \cup {None}] /\ PortalNames
  BY DEF Init, PortalNames
<1>1. Rest /\ PortalNames
  BY <1>a, <1>b, <1>c DEF Init, Rest, ListLeft
<1> QED BY <1>1, Split, EmptyTable DEF Init

LEMMA StutterOK == IInv /\ PortalNames /\ UNCHANGED vars => IInv' /\ PortalNames'
<1> SUFFICES ASSUME IInv, PortalNames, UNCHANGED vars PROVE IInv' /\ PortalNames'
  OBVIOUS
<1>1. Rest' /\ PortalNames'
  BY Split DEF vars, driverVars, reportVars, mainVars, Rest, ListLeft, PortalNames
<1> QED BY <1>1, Split, TableUnchanged DEF vars

\* Only the HTTP task writes portal.
LEMMA PortalFrame ==
  ASSUME PortalNames, UNCHANGED portal
  PROVE  PortalNames'
BY DEF PortalNames

LEMMA NextOK ==
  ASSUME IInv, PortalNames, Next
  PROVE  IInv' /\ PortalNames'
<1>1. ASSUME NEW m \in Clients,
             Associate(m) \/ Leave(m) \/ (\E a \in Addrs : AssignAddress(m, a))
      PROVE  IInv' /\ PortalNames'
  BY <1>1, DriverSteps, PortalFrame DEF Associate, Leave, AssignAddress
<1>2. CASE EventTask
  <2>1. CASE SendReport
    BY <2>1, ReportSteps, PortalFrame DEF SendReport
  <2>2. CASE HandleDisconnected
    BY <2>2, HandleDisconnectedStep, PortalFrame DEF HandleDisconnected
  <2>3. CASE HandleConnected \/ HandleIp \/ DiscardEvent
    BY <2>3, HandlerSteps, PortalFrame DEF HandleConnected, HandleIp, DiscardEvent
  <2> QED BY <1>2, <2>1, <2>2, <2>3 DEF EventTask
<1>3. CASE MainTask
  <2>1. CASE RegisterHandler \/ ListExisting \/ LookUpLeases
    BY <2>1, StartSteps, PortalFrame DEF RegisterHandler, ListExisting, LookUpLeases
  <2>2. CASE TrackExisting \/ TrackExistingIp
    BY <2>2, TrackExistingSteps, PortalFrame DEF TrackExisting, TrackExistingIp
  <2>3. CASE RestartOnFailedStart
    BY <2>3, RestartStep, PortalFrame DEF RestartOnFailedStart
  <2>4. CASE BeginPass \/ ListStations
    BY <2>4, OtherMainSteps, PortalFrame DEF BeginPass, ListStations
  <2>5. CASE Sweep
    BY <2>5, SweepStep, PortalFrame DEF Sweep
  <2>6. CASE RefreshRssi
    BY <2>6, RefreshRssiStep, PortalFrame DEF RefreshRssi
  <2> QED BY <1>3, <2>1, <2>2, <2>3, <2>4, <2>5, <2>6 DEF MainTask
<1>4. CASE Publisher
  BY <1>4, ReportSteps, PortalFrame DEF Publisher, TakeReport, PublishReport, PublishFails
<1>5. ASSUME NEW m \in Clients, NEW s \in Sessions,
             Revoke(m, s) \/ (\E t \in Ttls : Allow(m, s, t))
      PROVE  IInv' /\ PortalNames'
  BY <1>5, RevokeStep, AllowStep, PortalFrame DEF Revoke, Allow
<1>6. ASSUME NEW a \in Addrs, ExpireOnPacket(a)
      PROVE  IInv' /\ PortalNames'
  BY <1>6, ExpireOnPacketStep, PortalFrame DEF ExpireOnPacket
<1>7. CASE (\E a \in Addrs : PortalMiss(a)) \/ PortalResolve \/ PortalRecord
  BY <1>7, PortalSteps
<1>8. CASE Advance \/ UplinkChange
  BY <1>8, WorldSteps, PortalFrame DEF Advance, UplinkChange
<1> QED BY <1>1, <1>2, <1>3, <1>4, <1>5, <1>6, <1>7, <1>8 DEF Next

\* The invariant that is inductive: the named parts below need each other.
THEOREM Invariance == Spec => [](IInv /\ PortalNames)
<1>1. Init => IInv /\ PortalNames
  BY InitOK
<1>2. (IInv /\ PortalNames) /\ [Next]_vars => (IInv /\ PortalNames)'
  BY NextOK, StutterOK
<1> QED BY <1>1, <1>2, PTL DEF Spec

\* Every variable of client_access and of the tasks around it keeps its type.
THEOREM TypeCorrect == Spec => []TypeOK
<1>1. IInv => TypeOK
  BY DEF IInv
<1> QED BY <1>1, Invariance, PTL

\* No client ever holds two slots of s_clients, although the event task and
\* client_access_start both add clients.
THEOREM OneSlotPerClient == Spec => []NoDuplicateMac
<1>1. IInv => NoDuplicateMac
  BY DEF IInv
<1> QED BY <1>1, Invariance, PTL

\* A slot is AUTHORIZED exactly when it carries a session and a lifetime, on every
\* path by which a grant is made or ends.
THEOREM GrantsCarrySessions == Spec => []SessionMatchesState
<1>1. IInv => SessionMatchesState
  BY DEF IInv
<1> QED BY <1>1, Invariance, PTL

=============================================================================
