-------------------------- MODULE TrafficRules_proofs --------------------------
(***************************************************************************)
(* What holds of commands and DNS answers for any messages, rules, queries *)
(* and table sizes: a command is handled exactly when it came whole, the   *)
(* tables of rules only grow, and what a rule covers is not looked up.     *)
(*                                                                         *)
(* IngressInv says what the buffer holds while a message is under way.     *)
(* DnsInv carries the decision of the DNS task through its wait for the    *)
(* upstream server, while the rules grow.                                  *)
(***************************************************************************)
EXTENDS TrafficRules, SequenceTheorems, FiniteSetTheorems, TLAPS

---------------------------------------------------------------------------
(* The buffer *)

\* The buffer after the first n cells of message m.
Partial(m, n) ==
  IF FitsBuffer(m)
  THEN [topic |-> m.topic, payload |-> SubSeq(m.payload, 1, n), expected |-> Len(m.payload)]
  ELSE EmptyBuffer

IngressInv ==
  /\ wire = [msg |-> wire.msg, at |-> wire.at]
  /\ wire.msg = NoMessage => wire = Idle
  /\ wire.msg # NoMessage =>
       /\ wire.msg \in Messages
       /\ wire.at \in 0..Len(wire.msg.payload)
       /\ wire.at < Len(wire.msg.payload) =>
            /\ wire.at > 0 /\ handling = NoMessage
            /\ incoming = Partial(wire.msg, wire.at)
  /\ incoming = EmptyBuffer \/
       \E m \in Messages : \E n \in 0..Len(m.payload) : incoming = Partial(m, n)
  /\ handling # NoMessage =>
       /\ wire.msg \in Messages /\ wire.at = Len(wire.msg.payload)
       /\ FitsBuffer(wire.msg) /\ wire.msg.payload # <<>>
       /\ handling = [topic |-> wire.msg.topic, payload |-> wire.msg.payload]

LEMMA PayloadLength ==
  \A m \in Messages : Len(m.payload) \in Nat /\ (Len(m.payload) = 0 <=> m.payload = <<>>)
<1> TAKE m \in Messages
<1>1. m.payload \in Seq({m.payload[i] : i \in DOMAIN m.payload})
  BY MqttIngressAssumption
<1> QED BY <1>1, LenProperties, EmptySeq

\* Two adjacent parts of a sequence make one.
LEMMA Joined ==
  ASSUME NEW S, NEW s \in Seq(S), NEW i \in Nat, NEW n \in Nat, i + n <= Len(s)
  PROVE  SubSeq(s, 1, i) \o SubSeq(s, i + 1, i + n) = SubSeq(s, 1, i + n)
<1>1. Len(s) \in Nat
  BY LenProperties
<1>2. 1 \in 1..Len(s) + 1 /\ i \in 1 - 1..Len(s) /\ i + n \in i..Len(s)
  BY <1>1
<1> QED BY <1>2, ConcatAdjacentSubSeq

\* What the next fragment of a message makes of a buffer that holds the ones before.
LEMMA Fragment ==
  ASSUME NEW m \in Messages, NEW offset \in Nat, NEW n \in Nat,
         offset + n <= Len(m.payload), m.payload # <<>> => n > 0,
         offset > 0 => incoming = Partial(m, offset),
         HandleData(m, offset, n)
  PROVE  /\ m.payload # <<>> /\ offset + n < Len(m.payload) =>
              incoming' = Partial(m, offset + n) /\ handling' = NoMessage
         /\ offset + n = Len(m.payload) =>
              /\ incoming' = EmptyBuffer
              /\ handling' = IF FitsBuffer(m) /\ m.payload # <<>>
                             THEN [topic |-> m.topic, payload |-> m.payload] ELSE NoMessage
<1> DEFINE S == {m.payload[i] : i \in DOMAIN m.payload}
           p == m.payload
           b == Opened(m, offset)
           filled == [b EXCEPT !.payload = @ \o SubSeq(p, offset + 1, offset + n)]
           fails == \/ Len(p) = 0
                    \/ b.expected = 0 \/ offset # Len(b.payload) \/ offset + n > b.expected
<1>1. p \in Seq(S)
  BY MqttIngressAssumption
<1>2. Len(p) \in Nat /\ (Len(p) = 0 <=> p = <<>>)
  BY PayloadLength
<1>3. b = Partial(m, offset)
  <2>1. CASE offset > 0
    BY <2>1 DEF Opened
  <2>2. CASE offset = 0 /\ FitsBuffer(m)
    <3>1. SubSeq(p, 1, 0) = <<>>
      BY SubSeqEmpty
    <3> QED BY <2>2, <3>1 DEF Opened, Partial, EmptyBuffer
  <2>3. CASE offset = 0 /\ ~FitsBuffer(m)
    BY <2>3 DEF Opened, Partial
  <2> QED BY <2>1, <2>2, <2>3
<1>4. CASE p = <<>>
  <2>1. fails
    BY <1>2, <1>4
  <2>2. incoming' = EmptyBuffer /\ handling' = NoMessage
    BY <2>1 DEF HandleData
  <2> QED BY <1>2, <1>4, <2>2
<1>5. CASE ~FitsBuffer(m)
  <2>1. b = EmptyBuffer
    BY <1>3, <1>5 DEF Partial
  <2>2. fails
    BY <2>1 DEF EmptyBuffer
  <2>3. incoming' = EmptyBuffer /\ handling' = NoMessage
    BY <2>2 DEF HandleData
  <2> QED BY <1>5, <2>3 DEF Partial
<1>6. CASE FitsBuffer(m) /\ p # <<>>
  <2>1. b = [topic |-> m.topic, payload |-> SubSeq(p, 1, offset), expected |-> Len(p)]
    BY <1>3, <1>6 DEF Partial
  <2>2. Len(SubSeq(p, 1, offset)) = offset
    BY <1>1, <1>2, SubSeqProperties
  <2>3. ~fails
    BY <1>2, <1>6, <2>1, <2>2
  <2>4. SubSeq(p, 1, offset) \o SubSeq(p, offset + 1, offset + n) = SubSeq(p, 1, offset + n)
    BY <1>1, Joined
  <2>5. filled = Partial(m, offset + n)
    <3> DEFINE rest == SubSeq(p, offset + 1, offset + n)
    <3>1. filled = [b EXCEPT !.payload = b.payload \o rest]
      OBVIOUS
    <3> HIDE DEF b, filled, rest
    <3>2. filled = [topic |-> m.topic, payload |-> SubSeq(p, 1, offset) \o rest,
                    expected |-> Len(p)]
      BY <2>1, <3>1
    <3> QED BY <1>6, <2>4, <3>2 DEF Partial, rest
  <2>6. /\ filled.topic = m.topic /\ filled.expected = Len(p)
        /\ filled.payload = SubSeq(p, 1, offset + n)
        /\ Len(filled.payload) = offset + n
    <3>1. Len(SubSeq(p, 1, offset + n)) = offset + n
      BY <1>1, <1>2, SubSeqProperties
    <3> QED BY <1>6, <2>5, <3>1 DEF Partial
  <2>7. CASE offset + n < Len(p)
    <3>1. incoming' = filled /\ handling' = NoMessage
      BY <1>2, <2>3, <2>6, <2>7 DEF HandleData
    <3> QED BY <1>2, <2>5, <2>7, <3>1
  <2>8. CASE offset + n = Len(p)
    <3>1. /\ incoming' = EmptyBuffer
          /\ handling' = [topic |-> filled.topic, payload |-> filled.payload]
      BY <1>2, <2>3, <2>6, <2>8 DEF HandleData
    <3>2. SubSeq(p, 1, Len(p)) = p
      BY <1>1, SubSeqFull
    <3>3. handling' = [topic |-> m.topic, payload |-> p]
      BY <2>6, <2>8, <3>1, <3>2
    <3>4. ~(offset + n < Len(p))
      BY <1>2, <2>8
    <3> HIDE DEF b, filled, fails, S
    <3> QED BY <1>6, <3>1, <3>3, <3>4
  <2>9. offset + n < Len(p) \/ offset + n = Len(p)
    BY <1>2
  <2> QED BY <2>7, <2>8, <2>9
<1> QED BY <1>4, <1>5, <1>6

\* The invariant, and what is asked of the handler, after a fragment.
LEMMA Delivered ==
  ASSUME NEW m \in Messages, NEW offset \in Nat, NEW n \in Nat,
         offset + n <= Len(m.payload), m.payload # <<>> => n > 0,
         offset > 0 => incoming = Partial(m, offset),
         handling = NoMessage,
         wire' = [msg |-> m, at |-> offset + n],
         HandleData(m, offset, n)
  PROVE  IngressInv' /\ HandlesWhole
<1>1. Len(m.payload) \in Nat /\ (Len(m.payload) = 0 <=> m.payload = <<>>)
  BY PayloadLength
<1>2. /\ m.payload # <<>> /\ offset + n < Len(m.payload) =>
           incoming' = Partial(m, offset + n) /\ handling' = NoMessage
      /\ offset + n = Len(m.payload) =>
           /\ incoming' = EmptyBuffer
           /\ handling' = IF FitsBuffer(m) /\ m.payload # <<>>
                          THEN [topic |-> m.topic, payload |-> m.payload] ELSE NoMessage
  BY Fragment
<1>3. wire'.msg = m /\ wire'.at = offset + n /\ m # NoMessage
  BY MqttIngressAssumption
<1>4. offset + n \in 0..Len(m.payload)
  BY <1>1
<1>5. IngressInv'
  <2>1. CASE offset + n < Len(m.payload)
    <3>1. m.payload # <<>> /\ offset + n > 0
      BY <1>1, <2>1
    <3>2. incoming' = Partial(m, offset + n) /\ handling' = NoMessage
      BY <1>2, <2>1, <3>1
    <3>3. (Partial(wire.msg, wire.at))' = Partial(m, offset + n)
      BY <1>3 DEF Partial, FitsBuffer, EmptyBuffer
    <3>4. \E k \in 0..Len(m.payload) : incoming' = Partial(m, k)
      BY <1>4, <3>2
    <3> QED BY <1>3, <1>4, <3>1, <3>2, <3>3, <3>4
        DEF IngressInv, Partial, FitsBuffer, EmptyBuffer
  <2>2. CASE ~(offset + n < Len(m.payload))
    <3>1. offset + n = Len(m.payload)
      BY <1>1, <1>4, <2>2
    <3>2. /\ incoming' = EmptyBuffer
          /\ handling' = IF FitsBuffer(m) /\ m.payload # <<>>
                         THEN [topic |-> m.topic, payload |-> m.payload] ELSE NoMessage
      BY <1>2, <3>1
    <3> QED BY <1>3, <1>4, <3>1, <3>2 DEF IngressInv, EmptyBuffer, FitsBuffer
  <2> QED BY <2>1, <2>2
<1>6. HandlesWhole
  <2>1. CASE offset + n = Len(m.payload)
    BY <1>2, <1>3, <2>1 DEF HandlesWhole
  <2>2. CASE offset + n # Len(m.payload)
    <3>1. handling' = NoMessage
      BY <1>1, <1>2, <1>4, <2>2
    <3> QED BY <1>3, <2>2, <3>1 DEF HandlesWhole
  <2> QED BY <2>1, <2>2
<1> QED BY <1>5, <1>6

LEMMA IngressInitially == IngressInit => IngressInv
BY DEF IngressInit, IngressInv, Idle

\* A step that delivers nothing and drops what is under way, if anything.
LEMMA Dropping ==
  ASSUME IngressInv, wire' = Idle, handling' = NoMessage,
         incoming' = incoming \/ incoming' = EmptyBuffer
  PROVE  IngressInv' /\ HandlesWhole
<1>1. incoming' = EmptyBuffer \/
        \E m \in Messages : \E n \in 0..Len(m.payload) : incoming' = Partial(m, n)
  BY DEF IngressInv
<1> QED BY <1>1 DEF Idle, IngressInv, HandlesWhole, EmptyBuffer, Partial, FitsBuffer

LEMMA IngressStep ==
  ASSUME IngressInv, [Next]_vars
  PROVE  IngressInv' /\ (HandlesWhole \/ UNCHANGED ingressVars)
<1>1. CASE DeliverFirst
  <2>1. PICK m \in Messages : \E n \in IF m.payload = <<>> THEN {0} ELSE 1..Len(m.payload) :
                 HandleData(m, 0, n) /\ wire' = [msg |-> m, at |-> n]
    BY <1>1 DEF DeliverFirst
  <2>2. PICK n \in IF m.payload = <<>> THEN {0} ELSE 1..Len(m.payload) :
                 HandleData(m, 0, n) /\ wire' = [msg |-> m, at |-> n]
    BY <2>1
  <2>3. n \in Nat /\ 0 + n <= Len(m.payload) /\ (m.payload # <<>> => n > 0) /\ 0 + n = n
    BY PayloadLength
  <2>4. wire' = [msg |-> m, at |-> 0 + n]
    BY <2>2, <2>3
  <2> QED BY <1>1, <2>2, <2>3, <2>4, Delivered DEF DeliverFirst
<1>2. CASE DeliverNext
  <2> DEFINE m == wire.msg
  <2>1. PICK n \in 1..(Len(m.payload) - wire.at) :
                 HandleData(m, wire.at, n) /\ wire' = [wire EXCEPT !.at = @ + n]
    BY <1>2 DEF DeliverNext
  <2>2. m \in Messages /\ wire.at \in Nat /\ Len(m.payload) \in Nat
        /\ incoming = Partial(m, wire.at)
    BY <1>2, PayloadLength DEF IngressInv, DeliverNext, Midway
  <2>3. n \in Nat /\ n > 0 /\ wire.at + n <= Len(m.payload)
    BY <2>1, <2>2
  <2>4. wire' = [msg |-> m, at |-> wire.at + n]
    BY <2>1 DEF IngressInv
  <2>5. handling = NoMessage
    BY <1>2 DEF DeliverNext
  <2> HIDE DEF m
  <2> QED BY <2>1, <2>2, <2>3, <2>4, <2>5, Delivered
<1>3. CASE LoseRest
  <2>1. handling = NoMessage
    BY <1>3, MqttIngressAssumption DEF IngressInv, LoseRest, Midway
  <2> QED BY <1>3, <2>1, Dropping DEF LoseRest
<1>4. CASE ExecuteUnparsed \/ ExecuteElsewhere \/ ExecuteBlock
  BY <1>4, Dropping DEF ExecuteUnparsed, ExecuteElsewhere, ExecuteBlock, Returned
<1>5. CASE ExecuteKick \/ Dns \/ UNCHANGED vars
  <2>1. UNCHANGED ingressVars
    BY <1>5 DEF ExecuteKick, Dns, vars
  <2> QED BY <2>1 DEF ingressVars, IngressInv, Idle, Partial, FitsBuffer, EmptyBuffer
<1>6. CASE Restart
  BY <1>6, Dropping DEF Restart
<1> QED BY <1>1, <1>2, <1>3, <1>4, <1>5, <1>6 DEF Next, Ingress, Execute

---------------------------------------------------------------------------
(* The tables *)

Table(t) == t \in Seq(Listed(t))

LEMMA GrowsByOne ==
  ASSUME NEW t, Table(t), NEW e, NEW new \in BOOLEAN
  PROVE  /\ Table(Added(t, e, new))
         /\ IsPrefix(t, Added(t, e, new))
         /\ Len(t) <= Len(Added(t, e, new))
         /\ \A n \in 0..Len(t) : SubSeq(Added(t, e, new), 1, n) = SubSeq(t, 1, n)
<1> DEFINE S == Listed(t) \cup {e}
           u == Append(t, e)
<1>1. t \in Seq(S) /\ Len(t) \in Nat
  BY SeqMonotonic, LenProperties DEF Table
<1>2. CASE ~new
  <2>1. \A n \in 0..Len(t) : SubSeq(Added(t, e, new), 1, n) = SubSeq(t, 1, n)
    BY <1>2 DEF Added
  <2> QED BY <1>1, <1>2, <2>1 DEF Added, IsPrefix
<1>3. CASE new
  <2>1. u \in Seq(S) /\ Len(u) = Len(t) + 1 /\ \A i \in 1..Len(t) : u[i] = t[i]
    BY <1>1
  <2>2. \A i \in 1..Len(u) : u[i] \in Listed(u)
    BY <2>1, LenProperties DEF Listed
  <2>3. SubSeq(u, 1, Len(u)) = u
    BY <2>1, SubSeqFull
  <2>4. Table(u)
    BY <1>1, <2>1, <2>2, <2>3, SubSeqProperties DEF Table
  <2>5. \A n \in 0..Len(t) : SubSeq(u, 1, n) = SubSeq(t, 1, n)
    <3> SUFFICES ASSUME NEW n \in 0..Len(t) PROVE SubSeq(u, 1, n) = SubSeq(t, 1, n)
      OBVIOUS
    <3>1. \A i \in 1..n : t[i] \in S /\ u[i] \in S /\ u[i] = t[i]
      BY <1>1, <2>1
    <3>2. /\ SubSeq(t, 1, n) \in Seq(S) /\ SubSeq(u, 1, n) \in Seq(S)
          /\ Len(SubSeq(t, 1, n)) = n /\ Len(SubSeq(u, 1, n)) = n
          /\ \A i \in 1..n : SubSeq(t, 1, n)[i] = t[i] /\ SubSeq(u, 1, n)[i] = u[i]
      BY <1>1, <3>1, SubSeqProperties
    <3> QED BY <1>1, <3>1, <3>2, SeqEqual
  <2>6. Added(t, e, new) = u
    BY <1>3 DEF Added
  <2>7. IsPrefix(t, u)
    BY <1>1, <2>1, <2>5 DEF IsPrefix
  <2> HIDE DEF u
  <2> QED BY <1>1, <2>1, <2>4, <2>5, <2>6, <2>7
<1> QED BY <1>2, <1>3

LEMMA SameTable ==
  ASSUME NEW t, Table(t)
  PROVE  IsPrefix(t, t)
BY LenProperties DEF IsPrefix, Table

TablesInv == Table(blockedIps) /\ Table(blockedHosts)

\* What a command may do to the rules.
Grows ==
  /\ TablesInv'
  /\ IsPrefix(blockedIps, blockedIps') /\ IsPrefix(blockedHosts, blockedHosts')
  /\ Len(blockedHosts) <= Len(blockedHosts')
  /\ \A n \in 0..Len(blockedHosts) :
       SubSeq(blockedHosts', 1, n) = SubSeq(blockedHosts, 1, n)

LEMMA Unchanged ==
  ASSUME TablesInv, UNCHANGED ruleVars
  PROVE  Grows
BY SameTable, LenProperties DEF TablesInv, Grows, ruleVars, Table, Listed

LEMMA Blocks ==
  ASSUME TablesInv, NEW ip, NEW s, BlockTraffic(ip, s)
  PROVE  Grows
<1>1. CASE BlockAnswer(ip, s) # "ok"
  BY <1>1, Unchanged DEF BlockTraffic
<1>2. CASE BlockAnswer(ip, s) = "ok"
  <2>1. NewIp(ip) \in BOOLEAN /\ NewHost(s) \in BOOLEAN
    BY DEF NewIp, NewHost
  <2>2. /\ blockedIps' = Added(blockedIps, ip, NewIp(ip))
        /\ blockedHosts' = Added(blockedHosts, Normal[s], NewHost(s))
    BY <1>2 DEF BlockTraffic
  <2>3. /\ Table(blockedIps') /\ IsPrefix(blockedIps, blockedIps')
    BY <2>1, <2>2, GrowsByOne DEF TablesInv
  <2>4. /\ Table(blockedHosts') /\ IsPrefix(blockedHosts, blockedHosts')
        /\ Len(blockedHosts) <= Len(blockedHosts')
        /\ \A n \in 0..Len(blockedHosts) :
             SubSeq(blockedHosts', 1, n) = SubSeq(blockedHosts, 1, n)
    BY <2>1, <2>2, GrowsByOne DEF TablesInv
  <2>5. TablesInv'
    BY <2>3, <2>4 DEF TablesInv, Table, Listed
  <2> QED BY <2>3, <2>4, <2>5 DEF Grows
<1> QED BY <1>1, <1>2

LEMMA RuleStep ==
  ASSUME TablesInv, [Next]_vars
  PROVE  Grows \/ (Restart /\ TablesInv')
<1>1. CASE ExecuteBlock
  BY <1>1, Blocks DEF ExecuteBlock
<1>2. CASE Ingress \/ ExecuteUnparsed \/ ExecuteElsewhere \/ ExecuteKick \/ UNCHANGED vars
  BY <1>2, Unchanged DEF Ingress, ExecuteUnparsed, ExecuteElsewhere, ExecuteKick, vars
<1>3. CASE Dns
  BY <1>3, Unchanged DEF Dns, DnsReceive, DnsBuild, DnsResolve, DnsEnd
<1>4. CASE Restart
  BY <1>4, EmptySeq DEF Restart, TablesInv, Table
<1> QED BY <1>1, <1>2, <1>3, <1>4 DEF Next, Execute

---------------------------------------------------------------------------
(* The DNS task *)

DnsInv ==
  dns.at \in {"build", "resolve"} =>
    /\ dns = [at |-> dns.at, query |-> dns.query, authorized |-> dns.authorized,
              rules |-> dns.rules]
    /\ dns.rules \in 0..Len(blockedHosts)
    /\ dns.at = "resolve" =>
         dns.authorized /\ Open(SubSeq(blockedHosts, 1, dns.rules), dns.query.name)

\* What is open under a table is open under what it began with.
LEMMA OpenBefore ==
  ASSUME NEW t, Table(t), NEW n \in 0..Len(t), NEW name, Open(t, name)
  PROVE  Open(SubSeq(t, 1, n), name)
<1>1. Len(t) \in Nat /\ \A i \in 1..n : t[i] \in Listed(t)
  BY LenProperties, ElementOfSeq DEF Table
<1>2. /\ SubSeq(t, 1, n) \in Seq(Listed(t))
      /\ Len(SubSeq(t, 1, n)) = n
      /\ \A i \in 1..n : SubSeq(t, 1, n)[i] = t[i]
  BY <1>1, SubSeqProperties
<1>3. Listed(SubSeq(t, 1, n)) \subseteq Listed(t)
  BY <1>1, <1>2, LenProperties DEF Listed
<1>4. CASE t = <<>>
  BY <1>1, <1>2, <1>4, EmptySeq DEF Open
<1>5. CASE Normal[name] # None /\ ~Covers(t, Normal[name])
  BY <1>3, <1>5 DEF Open, Covers
<1> QED BY <1>4, <1>5 DEF Open

\* Whatever the rules do, a query that waits keeps what was decided of it.
LEMMA DnsKept ==
  ASSUME TablesInv, DnsInv, Grows, UNCHANGED dns
  PROVE  DnsInv'
<1> SUFFICES ASSUME dns.at \in {"build", "resolve"} PROVE DnsInv'
  BY DEF DnsInv
<1>1. dns.rules \in 0..Len(blockedHosts)
  BY DEF DnsInv
<1>2. Len(blockedHosts) \in Nat /\ Len(blockedHosts') \in Nat
  BY LenProperties DEF TablesInv, Grows, Table, Listed
<1>3. dns'.rules \in 0..Len(blockedHosts')
  BY <1>1, <1>2 DEF Grows
<1>4. SubSeq(blockedHosts', 1, dns.rules) = SubSeq(blockedHosts, 1, dns.rules)
  BY <1>1 DEF Grows
<1> DEFINE decision == Open(SubSeq(blockedHosts, 1, dns.rules), dns.query.name)
<1>5. decision' <=> decision
  <2> DEFINE t == SubSeq(blockedHosts, 1, dns.rules)
             name == dns.query.name
  <2>1. t' = t /\ name' = name
    BY <1>4
  <2> HIDE DEF t, name
  <2>2. Open(t, name)' <=> Open(t, name)
    BY <2>1 DEF Open, Covers, Listed
  <2> QED BY <2>2 DEF t, name
<1> HIDE DEF decision
<1>6. dns.at = "resolve" => dns'.authorized /\ decision'
  BY <1>5 DEF DnsInv, decision
<1>7. /\ dns' = [at |-> dns'.at, query |-> dns'.query, authorized |-> dns'.authorized,
                 rules |-> dns'.rules]
      /\ dns'.at = dns.at
  BY DEF DnsInv
<1> QED BY <1>3, <1>6, <1>7 DEF DnsInv, decision

LEMMA DnsStep ==
  ASSUME TablesInv, DnsInv, [Next]_vars
  PROVE  DnsInv' /\ LooksUpFree /\ RefusesBlocked
<1> USE DEF Answering
<1>1. Len(blockedHosts) \in Nat
  BY LenProperties DEF TablesInv, Table
<1>2. CASE Ingress \/ Execute \/ UNCHANGED vars
  <2>1. UNCHANGED dns
    BY <1>2 DEF Ingress, Execute, ExecuteUnparsed, ExecuteElsewhere, ExecuteBlock,
                ExecuteKick, vars
  <2>2. Grows
    <3>1. CASE ExecuteBlock
      BY <3>1, Blocks DEF ExecuteBlock
    <3>2. CASE ~ExecuteBlock
      BY <1>2, <3>2, Unchanged DEF Ingress, Execute, ExecuteUnparsed, ExecuteElsewhere,
                                   ExecuteKick, vars
    <3> QED BY <3>1, <3>2
  <2> QED BY <2>1, <2>2, DnsKept DEF LooksUpFree, RefusesBlocked
<1>3. CASE DnsReceive
  <2>1. dns.at = "receive" /\ blockedHosts' = blockedHosts
    BY <1>3 DEF DnsReceive, ruleVars
  <2>2. \/ \E q \in Queries, authorized \in BOOLEAN :
              dns' = [at |-> "build", query |-> q, authorized |-> authorized,
                      rules |-> Len(blockedHosts)]
        \/ dns' = Waiting("none")
    BY <1>3 DEF DnsReceive
  <2> QED BY <1>1, <2>1, <2>2 DEF DnsInv, Waiting, LooksUpFree, RefusesBlocked
<1>4. CASE DnsBuild
  <2> DEFINE q == dns.query
             answer == AnswerOf(q, dns.authorized)
  <2>1. /\ dns.at = "build" /\ blockedHosts' = blockedHosts
        /\ dns' = IF answer = "resolve" THEN [dns EXCEPT !.at = "resolve"] ELSE Waiting(answer)
        /\ dns = [at |-> dns.at, query |-> q, authorized |-> dns.authorized,
                  rules |-> dns.rules]
        /\ dns.rules \in 0..Len(blockedHosts)
    BY <1>4 DEF DnsBuild, ruleVars, DnsInv
  <2>2. answer \notin {"upstream", "failed"}
    BY DEF AnswerOf
  <2>3. CASE answer = "resolve"
    <3>1. dns' = [at |-> "resolve", query |-> q, authorized |-> dns.authorized,
                  rules |-> dns.rules]
      BY <2>1, <2>3
    <3>2. dns.authorized /\ ~HostBlocked(q.name)
      BY <2>3 DEF AnswerOf, IsAddressQuery
    <3>3. Open(blockedHosts, q.name)
      BY <3>2 DEF HostBlocked, Open
    <3>4. Open(SubSeq(blockedHosts, 1, dns.rules), q.name)
      BY <2>1, <3>3, OpenBefore DEF TablesInv
    <3> DEFINE decision == Open(SubSeq(blockedHosts, 1, dns.rules), dns.query.name)
    <3>5. decision'
      <4>1. SubSeq(blockedHosts', 1, dns'.rules) = SubSeq(blockedHosts, 1, dns.rules)
            /\ dns'.query = q
        BY <2>1, <3>1
      <4> QED BY <3>4, <4>1 DEF Open, Covers, Listed
    <3> HIDE DEF decision, q, answer
    <3>6. /\ dns' = [at |-> dns'.at, query |-> dns'.query, authorized |-> dns'.authorized,
                     rules |-> dns'.rules]
          /\ dns'.at = "resolve" /\ dns'.authorized
          /\ dns'.rules \in 0..Len(blockedHosts')
      BY <2>1, <3>1, <3>2
    <3>7. DnsInv'
      BY <3>5, <3>6 DEF DnsInv, decision
    <3> QED BY <3>6, <3>7 DEF LooksUpFree, RefusesBlocked
  <2>4. CASE answer # "resolve"
    <3>1. dns' = [at |-> "receive", answer |-> answer]
      BY <2>1, <2>4 DEF Waiting
    <3>2. answer = "refused" =>
            dns.authorized /\ ~AsksForPortal(q) /\ HostBlocked(q.name)
      BY DEF AnswerOf
    <3>3. answer = "refused" => ~Open(blockedHosts, q.name)
      BY <3>2 DEF HostBlocked, Open
    <3> HIDE DEF answer
    <3> QED BY <2>2, <3>1, <3>2, <3>3 DEF DnsInv, LooksUpFree, RefusesBlocked
  <2> QED BY <2>3, <2>4
<1>5. CASE DnsResolve
  BY <1>5 DEF DnsResolve, DnsInv, Waiting, LooksUpFree, RefusesBlocked
<1>6. CASE DnsEnd
  BY <1>6 DEF DnsEnd, DnsInv, LooksUpFree, RefusesBlocked
<1>7. CASE Restart
  BY <1>7 DEF Restart, DnsInv, Waiting, LooksUpFree, RefusesBlocked
<1> QED BY <1>2, <1>3, <1>4, <1>5, <1>6, <1>7 DEF Next, Dns

\* What the DNS task holds while it waits, answers or is at an end.
DnsPhase ==
  \/ dns.at = "ended"
  \/ dns.at = "receive" /\ dns.answer \in Answers
  \/ /\ dns.at \in {"build", "resolve"}
     /\ dns.query \in Queries /\ dns.authorized \in BOOLEAN

LEMMA DnsPhaseStep ==
  ASSUME DnsInv, DnsPhase, [Next]_vars
  PROVE  DnsPhase'
<1>1. CASE Ingress \/ Execute \/ UNCHANGED vars
  <2>1. UNCHANGED dns
    BY <1>1 DEF Ingress, Execute, ExecuteUnparsed, ExecuteElsewhere, ExecuteBlock,
                ExecuteKick, vars
  <2> QED BY <2>1 DEF DnsPhase
<1>2. CASE DnsReceive
  <2>1. CASE dns' = Waiting("none")
    BY <2>1 DEF DnsPhase, Waiting, Answers
  <2>2. CASE dns' # Waiting("none")
    <3>1. PICK q \in Queries, authorized \in BOOLEAN :
            dns' = [at |-> "build", query |-> q, authorized |-> authorized,
                    rules |-> Len(blockedHosts)]
      BY <1>2, <2>2 DEF DnsReceive
    <3>2. dns'.at = "build" /\ dns'.query = q /\ dns'.authorized = authorized
      BY <3>1
    <3> QED BY <3>2 DEF DnsPhase
  <2> QED BY <2>1, <2>2
<1>3. CASE DnsBuild
  <2> DEFINE answer == AnswerOf(dns.query, dns.authorized)
  <2>1. answer \in Answers \cup {"resolve"}
    BY DEF AnswerOf, Answers
  <2>2. /\ dns' = IF answer = "resolve" THEN [dns EXCEPT !.at = "resolve"] ELSE Waiting(answer)
        /\ dns = [at |-> dns.at, query |-> dns.query, authorized |-> dns.authorized,
                  rules |-> dns.rules]
        /\ dns.query \in Queries /\ dns.authorized \in BOOLEAN
    BY <1>3 DEF DnsBuild, DnsInv, DnsPhase
  <2> HIDE DEF answer
  <2>3. CASE answer = "resolve"
    <3>1. dns' = [at |-> "resolve", query |-> dns.query, authorized |-> dns.authorized,
                  rules |-> dns.rules]
      BY <2>2, <2>3
    <3>2. /\ dns'.at = "resolve" /\ dns'.query = dns.query
          /\ dns'.authorized = dns.authorized
      BY <3>1
    <3> QED BY <2>2, <3>2, Zenon DEF DnsPhase
  <2>4. CASE answer # "resolve"
    BY <2>1, <2>2, <2>4 DEF DnsPhase, Waiting
  <2> QED BY <2>3, <2>4
<1>4. CASE DnsResolve \/ DnsEnd \/ Restart
  BY <1>4 DEF DnsResolve, DnsEnd, Restart, DnsPhase, Waiting, Answers
<1> QED BY <1>1, <1>2, <1>3, <1>4 DEF Next, Dns

---------------------------------------------------------------------------
(* What the parser reads of a command *)

Values(m, key) == Written(m, key, {"text"})

LEMMA TheField ==
  ASSUME OneFieldPerKey, NEW m \in Messages, NEW i \in DOMAIN m.payload, NEW forms
  PROVE  First(m.payload, m.payload[i].key, forms)
           = IF m.payload[i].form \in forms THEN {m.payload[i]} ELSE {}
<1> DEFINE p == m.payload
           at == {j \in DOMAIN p : p[j].key = p[i].key /\ p[j].form \in forms}
<1>1. at = IF p[i].form \in forms THEN {i} ELSE {}
  BY DEF OneFieldPerKey
<1>2. i \in Nat
  <2>1. p \in Seq({p[j] : j \in DOMAIN p})
    BY MqttIngressAssumption
  <2> QED BY <2>1, LenProperties
<1>3. Min({i}) = i
  BY <1>2 DEF Min
<1> HIDE DEF at
<1>4. First(p, p[i].key, forms) = IF at = {} THEN {} ELSE {p[Min(at)]}
  BY DEF First, at
<1> QED BY <1>1, <1>3, <1>4

LEMMA NoField ==
  ASSUME NEW m, NEW key, NEW forms, \A i \in DOMAIN m.payload : m.payload[i].key # key
  PROVE  First(m.payload, key, forms) = {} /\ Values(m, key) = {}
BY DEF First, Values, Written

\* A text that was read is the one the message has under that key.
LEMMA StringRead ==
  ASSUME OneFieldPerKey, NEW m \in Messages, NEW key, NEW size, NEW r,
         r = ReadString(m.payload, key, size)
  PROVE  /\ \/ r = Bad
            \/ r = Missing /\ Values(m, key) = {}
            \/ IsOk(r) /\ Values(m, key) = {r.value}
         /\ r.value \in Texts
         /\ key = "sni" => r.value \in Spellings \cup {Blank}
<1>1. Blank \in Texts
  BY CommandParserAssumption
<1>2. CASE \A i \in DOMAIN m.payload : m.payload[i].key # key
  <2>1. r = Missing
    BY <1>2, NoField DEF ReadString
  <2>2. Values(m, key) = {}
    BY <1>2 DEF Values, Written
  <2>3. r.value = Blank
    BY <2>1 DEF Missing
  <2> QED BY <1>1, <2>1, <2>2, <2>3
<1>3. ASSUME NEW i \in DOMAIN m.payload, m.payload[i].key = key
      PROVE  /\ \/ r = Bad
                \/ r = Missing /\ Values(m, key) = {}
                \/ IsOk(r) /\ Values(m, key) = {r.value}
             /\ r.value \in Texts
             /\ key = "sni" => r.value \in Spellings \cup {Blank}
  <2> DEFINE f == m.payload[i]
             found == First(m.payload, key, {"text", "open"})
  <2>1. found = IF f.form \in {"text", "open"} THEN {f} ELSE {}
    BY <1>3, TheField
  <2>2. Values(m, key) = IF f.form = "text" THEN {f.value} ELSE {}
    BY <1>3 DEF Values, Written, OneFieldPerKey
  <2>3. f.form = "text" => f.value \in Texts
                           /\ (key = "sni" => f.value \in Spellings \cup {Blank})
    BY <1>3, TrafficRulesAssumption
  <2>4. r = IF found = {} THEN Missing
            ELSE IF \E g \in found : g.form = "text" /\ Fits(g.value, size)
            THEN Read((CHOOSE g \in found : TRUE).value) ELSE Bad
    BY DEF ReadString
  <2> HIDE DEF f, found
  <2>5. CASE f.form = "text" /\ Fits(f.value, size)
    <3>1. found = {f}
      BY <2>1, <2>5
    <3>2. r = Read(f.value)
      BY <2>4, <2>5, <3>1
    <3> QED BY <2>2, <2>3, <2>5, <3>2 DEF Read, IsOk
  <2>6. CASE f.form = "text" /\ ~Fits(f.value, size)
    BY <1>1, <2>1, <2>4, <2>6 DEF Bad
  <2>7. CASE f.form = "open"
    BY <1>1, <2>1, <2>4, <2>7 DEF Bad
  <2>8. CASE f.form \notin {"text", "open"}
    BY <1>1, <2>1, <2>2, <2>4, <2>8 DEF Missing
  <2> QED BY <2>5, <2>6, <2>7, <2>8
<1> QED BY <1>2, <1>3

\* A string that the message has is written in one form.
LEMMA OneForm ==
  ASSUME OneFieldPerKey, NEW m \in Messages, NEW key
  PROVE  \/ /\ Written(m, key, {"spaced"}) = {}
            /\ Written(m, key, Strings) = Values(m, key)
         \/ /\ Values(m, key) = {}
            /\ Written(m, key, Strings) = Written(m, key, {"spaced"})
<1>1. CASE \A i \in DOMAIN m.payload : m.payload[i].key # key
  BY <1>1 DEF Written, Values
<1>2. ASSUME NEW i \in DOMAIN m.payload, m.payload[i].key = key
      PROVE  \/ /\ Written(m, key, {"spaced"}) = {}
                /\ Written(m, key, Strings) = Values(m, key)
             \/ /\ Values(m, key) = {}
                /\ Written(m, key, Strings) = Written(m, key, {"spaced"})
  <2> DEFINE f == m.payload[i]
  <2>1. ASSUME NEW forms
        PROVE  Written(m, key, forms) = IF f.form \in forms THEN {f.value} ELSE {}
    BY <1>2 DEF Written, OneFieldPerKey
  <2> HIDE DEF f
  <2>2. /\ Values(m, key) = IF f.form = "text" THEN {f.value} ELSE {}
        /\ Written(m, key, {"spaced"}) = IF f.form = "spaced" THEN {f.value} ELSE {}
        /\ Written(m, key, Strings) = IF f.form \in {"text", "spaced"} THEN {f.value} ELSE {}
    BY <2>1 DEF Values, Strings
  <2> QED BY <2>2
<1> QED BY <1>1, <1>2

\* A field written as the parser reads it is read.
LEMMA FieldRead ==
  ASSUME OneFieldPerKey, NEW m \in Messages, NEW i \in DOMAIN m.payload, NEW size
  PROVE  LET f == m.payload[i]
         IN  /\ f.form = "number" =>
                  /\ ReadString(m.payload, f.key, size) = Missing
                  /\ ReadInt(m.payload, f.key) = Read(f.value)
             /\ f.form = "text" /\ Fits(f.value, size) =>
                  ReadString(m.payload, f.key, size) = Read(f.value)
<1> DEFINE f == m.payload[i]
           texts == First(m.payload, f.key, {"text", "open"})
           any == First(m.payload, f.key, {"text", "spaced", "number", "bare", "open"})
<1>1. /\ texts = IF f.form \in {"text", "open"} THEN {f} ELSE {}
      /\ any = IF f.form \in {"text", "spaced", "number", "bare", "open"} THEN {f} ELSE {}
  BY TheField
<1>2. ReadString(m.payload, f.key, size)
        = IF texts = {} THEN Missing
          ELSE IF \E g \in texts : g.form = "text" /\ Fits(g.value, size)
          THEN Read((CHOOSE g \in texts : TRUE).value) ELSE Bad
  BY DEF ReadString
<1>3. ReadInt(m.payload, f.key)
        = IF any = {} THEN Missing
          ELSE IF \E g \in any : g.form = "number"
          THEN Read((CHOOSE g \in any : TRUE).value) ELSE Bad
  BY DEF ReadInt
<1> HIDE DEF texts, any, f
<1>4. f.form = "number" => ReadString(m.payload, f.key, size) = Missing
  BY <1>1, <1>2
<1>5. f.form = "number" => ReadInt(m.payload, f.key) = Read(f.value)
  BY <1>1, <1>3
<1>6. f.form = "text" /\ Fits(f.value, size) =>
        ReadString(m.payload, f.key, size) = Read(f.value)
  BY <1>1, <1>2
<1> QED BY <1>4, <1>5, <1>6 DEF f

\* Only its own topic makes a message a BLOCK_TRAFFIC or a KICK.
LEMMA TypeIsTopic ==
  ASSUME NEW topic, NEW p, NEW type \in {"block-traffic", "kick"},
         Parse(topic, p).type = type
  PROVE  /\ topic = type
         /\ Parse(topic, p) = Request(ArgumentsOk(type, p), type,
                                      ReadString(p, "requestId", RequestIdSize).value, p)
<1> DEFINE id == ReadString(p, "requestId", RequestIdSize)
<1>1. topic # "stage-wifi-config"
  BY DEF Parse, ParseStage, Request
<1>2. id # Bad
  BY <1>1 DEF Parse, Request
<1>3. topic \in Formal
  BY <1>1, <1>2 DEF Parse, ParseByType, Request
<1>4. Parse(topic, p) = Request(ArgumentsOk(topic, p), topic, id.value, p)
  BY <1>1, <1>2, <1>3 DEF Parse
<1>5. Parse(topic, p).type = topic
  BY <1>4 DEF Request
<1> QED BY <1>4, <1>5

\* What a BLOCK_TRAFFIC names, as the handler and as the backend see it.
LEMMA Understood ==
  ASSUME OneFieldPerKey, NEW m \in Messages, NEW r, r = Parse(m.topic, m.payload),
         r.ok, r.type = "block-traffic"
  PROVE  /\ r.dst_ip \in Texts /\ Asked(m).ips = {Address[r.dst_ip]}
         /\ Hostname(r.sni) = None \/ Hostname(r.sni) \in Spellings
         /\ Asked(m).hosts \ Asked(m).overlooked
              = IF Hostname(r.sni) = None THEN {} ELSE {Normal[Hostname(r.sni)]}
<1> DEFINE p == m.payload
           dst == ReadString(p, "dstIp", DestinationIpSize)
           sni == ReadString(p, "sni", SniSize)
<1>1. Parse(m.topic, p) = Request(ArgumentsOk("block-traffic", p), "block-traffic",
                                  ReadString(p, "requestId", RequestIdSize).value, p)
  BY TypeIsTopic
<1>2. ArgumentsOk("block-traffic", p) /\ r.dst_ip = dst.value /\ r.sni = sni.value
  BY <1>1 DEF Request
<1>3. IsOk(dst) /\ sni # Bad
  BY <1>2 DEF ArgumentsOk
<1>4. dst.value \in Texts /\ Values(m, "dstIp") = {dst.value}
  <2>1. dst # Bad /\ dst # Missing
    BY <1>3 DEF IsOk, Bad, Missing
  <2> QED BY <2>1, StringRead
<1>5. sni.value \in Spellings \cup {Blank} /\ Values(m, "sni") \ {Blank} = {sni.value} \ {Blank}
  <2>1. \/ sni = Missing /\ Values(m, "sni") = {}
        \/ IsOk(sni) /\ Values(m, "sni") = {sni.value}
    BY <1>3, StringRead
  <2>2. sni.value \in Spellings \cup {Blank}
    BY StringRead
  <2> QED BY <2>1, <2>2 DEF Missing
<1> HIDE DEF dst, sni
<1>6. Written(m, "dstIp", Strings) = {dst.value}
  BY <1>4, OneForm
<1>7. Asked(m).ips = {Address[r.dst_ip]}
  BY <1>2, <1>6 DEF Asked
<1>8. Asked(m).hosts \ Asked(m).overlooked = {Normal[t] : t \in {r.sni} \ {Blank}}
  <2>1. /\ Asked(m).hosts = {Normal[t] : t \in Written(m, "sni", Strings) \ {Blank}}
        /\ Asked(m).overlooked = {Normal[t] : t \in Written(m, "sni", {"spaced"}) \ {Blank}}
    BY DEF Asked, Hosts
  <2>2. CASE /\ Written(m, "sni", {"spaced"}) = {}
             /\ Written(m, "sni", Strings) = Values(m, "sni")
    BY <1>2, <1>5, <2>1, <2>2
  <2>3. CASE /\ Values(m, "sni") = {}
             /\ Written(m, "sni", Strings) = Written(m, "sni", {"spaced"})
    BY <1>2, <1>5, <2>1, <2>3
  <2> QED BY <2>2, <2>3, OneForm
<1>9. None \notin Spellings
  BY BlockRulesAssumption
<1> QED BY <1>2, <1>4, <1>5, <1>7, <1>8, <1>9 DEF Hostname

\* A BLOCK_TRAFFIC that is written as the parser reads it is understood.
LEMMA WellFormedIsUnderstood ==
  ASSUME OneFieldPerKey, NEW m \in Messages, WellFormedBlock(m)
  PROVE  Parse(m.topic, m.payload).ok /\ Parse(m.topic, m.payload).type = "block-traffic"
<1> DEFINE p == m.payload
           Size(key) == CASE key = "sni"   -> SniSize
                          [] key = "dstIp" -> DestinationIpSize
                          [] OTHER         -> RequestIdSize
<1>1. \A i \in DOMAIN p : \/ p[i].form = "number" /\ p[i].value >= 0
                          \/ p[i].form = "text" /\ Fits(p[i].value, Size(p[i].key))
  BY DEF WellFormedBlock
<1>2. ASSUME NEW key PROVE ReadString(p, key, Size(key)) # Bad
  <2>1. CASE \A i \in DOMAIN p : p[i].key # key
    <3>1. ReadString(p, key, Size(key)) = Missing
      BY <2>1, NoField DEF ReadString
    <3> QED BY <3>1 DEF Missing, Bad
  <2>2. ASSUME NEW i \in DOMAIN p, p[i].key = key PROVE ReadString(p, key, Size(key)) # Bad
    <3> HIDE DEF Size
    <3>1. ReadString(p, key, Size(key)) \in {Missing, Read(p[i].value)}
      BY <1>1, <2>2, FieldRead
    <3> QED BY <3>1 DEF Missing, Bad, Read
  <2> QED BY <2>1, <2>2
<1>3. /\ ReadString(p, "requestId", RequestIdSize) # Bad
      /\ ReadString(p, "sni", SniSize) # Bad
  <2>1. Size("requestId") = RequestIdSize /\ Size("sni") = SniSize
    OBVIOUS
  <2> HIDE DEF Size
  <2> QED BY <1>2, <2>1
<1>4. IsOk(ReadString(p, "dstIp", DestinationIpSize))
  <2>1. PICK i \in DOMAIN p : p[i].key = "dstIp" /\ p[i].form = "text"
    BY DEF WellFormedBlock
  <2>2. Fits(p[i].value, DestinationIpSize)
    BY <1>1, <2>1
  <2>3. ReadString(p, "dstIp", DestinationIpSize) = Read(p[i].value)
    BY <2>1, <2>2, FieldRead
  <2> QED BY <2>3 DEF Read, IsOk
<1>5. AtLeast(ReadInt(p, "alertId"), 0)
  <2>1. PICK i \in DOMAIN p : p[i].key = "alertId" /\ p[i].form = "number"
    BY DEF WellFormedBlock
  <2>2. p[i].value >= 0
    BY <1>1, <2>1
  <2>3. ReadInt(p, "alertId") = Read(p[i].value)
    BY <2>1, FieldRead
  <2> QED BY <2>2, <2>3 DEF Read, AtLeast
<1>6. m.topic = "block-traffic"
  BY DEF WellFormedBlock
<1>7. ArgumentsOk("block-traffic", p)
  BY <1>3, <1>4, <1>5 DEF ArgumentsOk
<1>8. Parse(m.topic, p) = Request(ArgumentsOk("block-traffic", p), "block-traffic",
                                  ReadString(p, "requestId", RequestIdSize).value, p)
  BY <1>3, <1>6 DEF Parse, Formal
<1> QED BY <1>7, <1>8 DEF Request

---------------------------------------------------------------------------
(* The rules and the results *)

\* No entry of a table comes twice, and none is beyond its end.
Distinct(table, capacity) ==
  /\ IsFiniteSet(Listed(table))
  /\ Len(table) = Cardinality(Listed(table))
  /\ Len(table) <= capacity

CommandInv ==
  /\ kicked \in BOOLEAN
  /\ kicked => handling # NoMessage
  /\ handling # NoMessage =>
       IF kicked THEN wire.msg.topic = "kick" /\ published.type = "kick"
       ELSE published = NoResult

ReportInv ==
  /\ blockedIps \in Seq(Ips) /\ blockedHosts \in Seq(Names)
  /\ succeeded \subseteq [ips : SUBSET Ips, hosts : SUBSET (Names \cup {None}),
                          overlooked : SUBSET (Names \cup {None})]
  /\ Listed(blockedIps) = UNION {a.ips : a \in succeeded}
  /\ Listed(blockedHosts) = UNION {a.hosts \ a.overlooked : a \in succeeded}
  /\ Distinct(blockedIps, IpCapacity) /\ Distinct(blockedHosts, HostCapacity)

LEMMA NormalIsName ==
  ASSUME NEW s \in Spellings, Normal[s] # None
  PROVE  Normal[s] \in Names
<1> DEFINE all == LabelsOf[s]
           labels == IF all[Len(all)] = EmptyLabel THEN SubSeq(all, 1, Len(all) - 1) ELSE all
<1>1. Normal[s] = IF labels = <<>> \/ \E i \in DOMAIN labels : Lower[labels[i]] = None THEN None
                  ELSE [i \in DOMAIN labels |-> Lower[labels[i]]]
  BY DEF Normal
<1>2. labels \in Seq(DOMAIN Lower)
  <2>1. all \in Seq(DOMAIN Lower) /\ all # <<>>
    BY BlockRulesAssumption
  <2>2. Len(all) \in Nat /\ \A i \in 1..Len(all) : all[i] \in DOMAIN Lower
    BY <2>1, LenProperties, ElementOfSeq
  <2>3. SubSeq(all, 1, Len(all) - 1) \in Seq(DOMAIN Lower)
    BY <2>1, <2>2, SubSeqProperties
  <2> QED BY <2>1, <2>3
<1> HIDE DEF labels
<1> DEFINE name == [i \in DOMAIN labels |-> Lower[labels[i]]]
           L == {Lower[l] : l \in DOMAIN Lower} \ {None}
<1>3. Normal[s] = name /\ \A i \in DOMAIN labels : Lower[labels[i]] # None
  BY <1>1
<1>4. DOMAIN labels = 1..Len(labels) /\ Len(labels) \in Nat
  BY <1>2, LenProperties
<1>5. \A i \in 1..Len(labels) : labels[i] \in DOMAIN Lower
  BY <1>2, ElementOfSeq
<1>6. \A i \in 1..Len(labels) : Lower[labels[i]] \in L
  BY <1>3, <1>4, <1>5
<1>7. name \in [1..Len(labels) -> L]
  BY <1>4, <1>6
<1>8. name \in Seq(L)
  BY <1>4, <1>7
<1> QED BY <1>3, <1>8 DEF Names

\* Whatever form a message gives a hostname, it is one of the names or none.
LEMMA HostsAreNames ==
  ASSUME NEW m \in Messages, NEW forms, forms \subseteq Strings
  PROVE  Hosts(m, forms) \subseteq Names \cup {None}
<1>1. Written(m, "sni", forms) \ {Blank} \subseteq Spellings
  BY TrafficRulesAssumption DEF Written, Strings
<1> QED BY <1>1, NormalIsName DEF Hosts

LEMMA AddedEntry ==
  ASSUME NEW S, NEW t \in Seq(S), NEW capacity \in Nat, Distinct(t, capacity),
         NEW e, NEW new \in BOOLEAN,
         new => e \in S /\ e \notin Listed(t) /\ Len(t) < capacity
  PROVE  /\ Added(t, e, new) \in Seq(S)
         /\ Listed(Added(t, e, new)) = IF new THEN Listed(t) \cup {e} ELSE Listed(t)
         /\ Distinct(Added(t, e, new), capacity)
<1>1. CASE ~new
  BY <1>1 DEF Added
<1>2. CASE new
  <2> DEFINE u == Append(t, e)
  <2>1. u \in Seq(S) /\ Len(u) = Len(t) + 1 /\ Len(t) \in Nat
    BY <1>2, LenProperties
  <2>2. u[Len(t) + 1] = e /\ \A i \in 1..Len(t) : u[i] = t[i]
    BY <1>2
  <2>3. DOMAIN t = 1..Len(t) /\ DOMAIN u = 1..Len(t) + 1
    BY <2>1, LenProperties
  <2>4. 1..Len(t) + 1 = (1..Len(t)) \cup {Len(t) + 1}
    BY <2>1
  <2> HIDE DEF u
  <2>5. Listed(u) = Listed(t) \cup {e}
    BY <2>2, <2>3, <2>4 DEF Listed
  <2>6. IsFiniteSet(Listed(u)) /\ Cardinality(Listed(u)) = Cardinality(Listed(t)) + 1
    BY <1>2, <2>5, FS_AddElement DEF Distinct
  <2>7. Distinct(u, capacity)
    BY <1>2, <2>1, <2>6 DEF Distinct
  <2>8. Added(t, e, new) = u
    BY <1>2 DEF Added, u
  <2> QED BY <1>2, <2>1, <2>5, <2>7, <2>8
<1> QED BY <1>1, <1>2

\* The command that is being handled, parsed, is the message that came.
LEMMA HandledMessage ==
  ASSUME IngressInv, NEW c \in Handled
  PROVE  /\ wire.msg \in Messages /\ handling # NoMessage /\ ~kicked
         /\ Parsed(c) = Parse(wire.msg.topic, wire.msg.payload)
<1>1. c = handling /\ handling # NoMessage /\ ~kicked
  BY DEF Handled
<1>2. /\ wire.msg \in Messages
      /\ handling = [topic |-> wire.msg.topic, payload |-> wire.msg.payload]
  BY <1>1 DEF IngressInv
<1>3. c.topic = wire.msg.topic /\ c.payload = wire.msg.payload
  BY <1>1, <1>2
<1> QED BY <1>1, <1>2, <1>3 DEF Parsed

LEMMA CommandStep ==
  ASSUME IngressInv, CommandInv, [Next]_vars
  PROVE  CommandInv'
<1>1. CASE Ingress
  <2>1. handling = NoMessage
    <3>1. CASE LoseRest
      BY <3>1, MqttIngressAssumption DEF IngressInv, LoseRest, Midway
    <3>2. CASE DeliverFirst \/ DeliverNext
      BY <3>2 DEF DeliverFirst, DeliverNext
    <3> QED BY <1>1, <3>1, <3>2 DEF Ingress
  <2>2. ~kicked /\ kicked' = kicked /\ published' = NoResult
    BY <1>1, <2>1 DEF CommandInv, Ingress
  <2> QED BY <2>2 DEF CommandInv, NoResult
<1>2. CASE ExecuteUnparsed \/ ExecuteElsewhere \/ ExecuteBlock
  <2>1. ~kicked /\ kicked' = kicked /\ handling' = NoMessage
    BY <1>2 DEF ExecuteUnparsed, ExecuteElsewhere, ExecuteBlock, Returned, Handled
  <2> QED BY <2>1 DEF CommandInv
<1>3. CASE ExecuteKick
  <2>1. PICK c \in Handled : /\ Parsed(c).type = "kick"
                             /\ PublishResult(Parsed(c), TRUE)
    BY <1>3 DEF ExecuteKick
  <2>2. kicked' = TRUE /\ UNCHANGED ingressVars
    BY <1>3 DEF ExecuteKick
  <2>3. handling' # NoMessage /\ wire' = wire
    BY <2>1, <2>2, HandledMessage DEF ingressVars
  <2>4. wire.msg.topic = "kick"
    BY <2>1, HandledMessage, TypeIsTopic
  <2>5. published'.type = "kick"
    BY <2>1 DEF PublishResult
  <2> QED BY <2>2, <2>3, <2>4, <2>5 DEF CommandInv
<1>4. CASE Dns \/ UNCHANGED vars
  <2>1. UNCHANGED <<ingressVars, commandVars>>
    BY <1>4 DEF Dns, vars
  <2> QED BY <2>1 DEF CommandInv, ingressVars, commandVars, NoResult
<1>5. CASE Restart
  BY <1>5 DEF Restart, CommandInv
<1> QED BY <1>1, <1>2, <1>3, <1>4, <1>5 DEF Next, Execute

LEMMA ReportKept ==
  ASSUME ReportInv, UNCHANGED <<ruleVars, succeeded>>
  PROVE  ReportInv'
BY DEF ReportInv, ruleVars, Listed, Distinct

\* A BLOCK_TRAFFIC adds what it names to both tables, or changes nothing and reports so.
LEMMA BlockReported ==
  ASSUME OneFieldPerKey, IngressInv, ReportInv, ExecuteBlock
  PROVE  ReportInv'
<1>1. PICK c \in Handled :
        /\ Parsed(c).ok /\ Parsed(c).type = "block-traffic"
        /\ BlockTraffic(Address[Parsed(c).dst_ip], Hostname(Parsed(c).sni))
        /\ succeeded' = IF BlockAnswer(Address[Parsed(c).dst_ip], Hostname(Parsed(c).sni)) = "ok"
                        THEN succeeded \cup {Asked(wire.msg)} ELSE succeeded
  BY DEF ExecuteBlock
<1> DEFINE r == Parsed(c)
           ip == Address[r.dst_ip]
           s == Hostname(r.sni)
           A == Asked(wire.msg)
<1>2. wire.msg \in Messages /\ r = Parse(wire.msg.topic, wire.msg.payload)
  BY HandledMessage
<1>3. /\ r.dst_ip \in Texts /\ A.ips = {ip}
      /\ s = None \/ s \in Spellings
      /\ A.hosts \ A.overlooked = IF s = None THEN {} ELSE {Normal[s]}
  BY <1>1, <1>2, Understood
<1>4. ip \in Ips
  BY <1>3, TrafficRulesAssumption
<1>5. A \in [ips : SUBSET Ips, hosts : SUBSET (Names \cup {None}),
            overlooked : SUBSET (Names \cup {None})]
  <2>1. /\ Hosts(wire.msg, Strings) \subseteq Names \cup {None}
        /\ Hosts(wire.msg, {"spaced"}) \subseteq Names \cup {None}
    BY <1>2, HostsAreNames DEF Strings
  <2>2. A = [ips |-> A.ips, hosts |-> Hosts(wire.msg, Strings),
             overlooked |-> Hosts(wire.msg, {"spaced"})]
    BY DEF Asked
  <2> QED BY <1>3, <1>4, <2>1, <2>2
<1>6. /\ BlockTraffic(ip, s)
      /\ succeeded' = IF BlockAnswer(ip, s) = "ok" THEN succeeded \cup {A} ELSE succeeded
  BY <1>1
<1> HIDE DEF r, ip, s, A
<1>7. CASE BlockAnswer(ip, s) # "ok"
  BY <1>6, <1>7, ReportKept DEF BlockTraffic
<1>8. CASE BlockAnswer(ip, s) = "ok"
  <2> DEFINE name == Normal[s]
             newIp == NewIp(ip)
             newHost == NewHost(s)
  <2>1. /\ newIp \in BOOLEAN /\ newHost \in BOOLEAN
        /\ newIp <=> ip \notin Listed(blockedIps)
        /\ newHost <=> s # None /\ name \notin Listed(blockedHosts)
    BY DEF NewIp, NewHost
  <2>2. /\ s # None => name # None
        /\ newIp => ~(Len(blockedIps) >= IpCapacity)
        /\ newHost => ~(Len(blockedHosts) >= HostCapacity)
    BY <1>8 DEF BlockAnswer
  <2>3. /\ blockedIps' = Added(blockedIps, ip, newIp)
        /\ blockedHosts' = Added(blockedHosts, name, newHost)
    BY <1>6, <1>8 DEF BlockTraffic
  <2>4. s # None => name \in Names
    BY <1>3, <2>2, NormalIsName
  <2>5. succeeded' = succeeded \cup {A}
    BY <1>6, <1>8
  <2>6. IpCapacity \in Nat /\ HostCapacity \in Nat
    BY BlockRulesAssumption
  <2> HIDE DEF name, newIp, newHost
  <2>7. Len(blockedIps) \in Nat /\ Len(blockedHosts) \in Nat
    BY LenProperties DEF ReportInv
  <2>8. /\ newIp => Len(blockedIps) < IpCapacity
        /\ newHost => Len(blockedHosts) < HostCapacity
    BY <2>2, <2>6, <2>7
  <2>9. /\ blockedIps' \in Seq(Ips)
        /\ Listed(blockedIps') = IF newIp THEN Listed(blockedIps) \cup {ip} ELSE Listed(blockedIps)
        /\ Distinct(blockedIps', IpCapacity)
    BY <1>4, <2>1, <2>3, <2>6, <2>8, AddedEntry DEF ReportInv
  <2>10. /\ blockedHosts' \in Seq(Names)
         /\ Listed(blockedHosts') = IF newHost THEN Listed(blockedHosts) \cup {name}
                                    ELSE Listed(blockedHosts)
         /\ Distinct(blockedHosts', HostCapacity)
    BY <2>1, <2>3, <2>4, <2>6, <2>8, AddedEntry DEF ReportInv
  <2>11. /\ Listed(blockedIps') = Listed(blockedIps) \cup A.ips
         /\ Listed(blockedHosts') = Listed(blockedHosts) \cup (A.hosts \ A.overlooked)
    BY <1>3, <2>1, <2>9, <2>10 DEF name
  <2>12. /\ UNION {a.ips : a \in succeeded'} = (UNION {a.ips : a \in succeeded}) \cup A.ips
         /\ UNION {a.hosts \ a.overlooked : a \in succeeded'}
             = (UNION {a.hosts \ a.overlooked : a \in succeeded}) \cup (A.hosts \ A.overlooked)
    BY <2>5
  <2>13. /\ Listed(blockedIps)' = UNION {a.ips : a \in succeeded'}
         /\ Listed(blockedHosts)' = UNION {a.hosts \ a.overlooked : a \in succeeded'}
    <3>1. Listed(blockedIps)' = Listed(blockedIps') /\ Listed(blockedHosts)' = Listed(blockedHosts')
      BY DEF Listed
    <3> QED BY <2>11, <2>12, <3>1 DEF ReportInv
  <2>14. Distinct(blockedIps, IpCapacity)' /\ Distinct(blockedHosts, HostCapacity)'
    BY <2>9, <2>10 DEF Distinct, Listed
  <2> QED BY <1>5, <2>5, <2>9, <2>10, <2>13, <2>14 DEF ReportInv
<1> QED BY <1>7, <1>8

LEMMA ReportStep ==
  ASSUME OneFieldPerKey, IngressInv, ReportInv, [Next]_vars
  PROVE  ReportInv'
<1>1. CASE ExecuteBlock
  BY <1>1, BlockReported
<1>2. CASE Ingress \/ ExecuteUnparsed \/ ExecuteElsewhere \/ ExecuteKick \/ UNCHANGED vars
  BY <1>2, ReportKept
  DEF Ingress, ExecuteUnparsed, ExecuteElsewhere, ExecuteKick, vars, commandVars
<1>3. CASE Dns
  BY <1>3, ReportKept DEF Dns, DnsReceive, DnsBuild, DnsResolve, DnsEnd, commandVars
<1>4. CASE Restart
  <2>1. Listed(<<>>) = {}
    BY DEF Listed
  <2>2. Distinct(<<>>, IpCapacity) /\ Distinct(<<>>, HostCapacity)
    <3>1. IsFiniteSet({}) /\ Cardinality({}) = 0 /\ Len(<<>>) = 0
      BY FS_EmptySet
    <3>2. 0 <= IpCapacity /\ 0 <= HostCapacity
      BY BlockRulesAssumption
    <3> QED BY <2>1, <3>1, <3>2 DEF Distinct
  <2>3. blockedIps' = <<>> /\ blockedHosts' = <<>> /\ succeeded' = {}
    BY <1>4 DEF Restart
  <2>4. /\ Listed(blockedIps)' = {} /\ Listed(blockedHosts)' = {}
        /\ Distinct(blockedIps, IpCapacity)' /\ Distinct(blockedHosts, HostCapacity)'
    BY <2>1, <2>2, <2>3 DEF Listed, Distinct
  <2> QED BY <2>3, <2>4, EmptySeq DEF ReportInv
<1> QED BY <1>1, <1>2, <1>3, <1>4 DEF Next, Execute

\* A command that is well-formed and fails is a BLOCK_TRAFFIC that was refused.
LEMMA FailureStep ==
  ASSUME OneFieldPerKey, IngressInv, CommandInv, ReportInv, [Next]_vars
  PROVE  FailureHasCause
<1> DEFINE m == wire.msg
           r == Parse(m.topic, m.payload)
           ip == Address[r.dst_ip]
           s == Hostname(r.sni)
           Cause == \/ Asked(m).ips \cap Refused # {} \/ None \in Asked(m).hosts
                    \/ /\ Len(blockedIps) = IpCapacity
                       /\ ~(Asked(m).ips \subseteq Listed(blockedIps))
                    \/ /\ Len(blockedHosts) = HostCapacity
                       /\ ~(Asked(m).hosts \subseteq Listed(blockedHosts))
<1> SUFFICES ASSUME handling # NoMessage, published' # published, ~published'.success,
                    WellFormedBlock(m)
             PROVE  Cause
  BY DEF FailureHasCause
<1>1. m \in Messages /\ wire.at = Len(m.payload)
  BY DEF IngressInv
<1>2. r.ok /\ r.type = "block-traffic"
  BY <1>1, WellFormedIsUnderstood
<1>3. ~kicked /\ published = NoResult
  BY DEF CommandInv, WellFormedBlock
<1>4. \A c \in Handled : Parsed(c) = r
  BY HandledMessage
<1>5. ExecuteBlock
  <2>1. CASE Ingress
    <3>1. Len(m.payload) \in Nat
      BY <1>1, PayloadLength
    <3> QED BY <1>1, <2>1, <3>1 DEF Ingress, DeliverFirst, DeliverNext, LoseRest, Midway
  <2>2. CASE ExecuteUnparsed
    BY <1>2, <1>4, <2>2 DEF ExecuteUnparsed
  <2>3. CASE ExecuteElsewhere
    BY <1>2, <1>4, <2>3 DEF ExecuteElsewhere, Elsewhere
  <2>4. CASE ExecuteKick
    BY <1>2, <1>4, <2>4 DEF ExecuteKick
  <2>5. CASE Dns \/ UNCHANGED vars
    BY <2>5 DEF Dns, vars, commandVars
  <2>6. CASE Restart
    BY <1>3, <2>6 DEF Restart
  <2> QED BY <2>1, <2>2, <2>3, <2>4, <2>5, <2>6 DEF Next, Execute
<1>6. BlockAnswer(ip, s) # "ok"
  <2>1. PICK c \in Handled :
          PublishResult(Parsed(c), BlockAnswer(Address[Parsed(c).dst_ip],
                                               Hostname(Parsed(c).sni)) = "ok")
    BY <1>5 DEF ExecuteBlock
  <2>2. PublishResult(r, BlockAnswer(ip, s) = "ok")
    BY <1>4, <2>1
  <2>3. published'.success = (BlockAnswer(ip, s) = "ok")
    BY <2>2 DEF PublishResult
  <2> QED BY <2>3
<1>7. Asked(m).ips = {ip} /\ Asked(m).hosts = IF s = None THEN {} ELSE {Normal[s]}
  <2>1. Asked(m).overlooked = {}
    <3>1. Written(m, "sni", {"spaced"}) = {}
      BY DEF Written, WellFormedBlock
    <3> QED BY <3>1 DEF Asked, Hosts
  <2>2. /\ Asked(m).ips = {ip}
        /\ Asked(m).hosts \ Asked(m).overlooked = IF s = None THEN {} ELSE {Normal[s]}
    BY <1>1, <1>2, Understood
  <2> QED BY <2>1, <2>2
<1>8. Len(blockedIps) <= IpCapacity /\ Len(blockedHosts) <= HostCapacity
  BY DEF ReportInv, Distinct
<1>9. /\ Len(blockedIps) \in Nat /\ Len(blockedHosts) \in Nat
      /\ IpCapacity \in Nat /\ HostCapacity \in Nat
  BY LenProperties, BlockRulesAssumption DEF ReportInv
<1> HIDE DEF r, ip, s
<1>10. \/ ip \in Refused \/ (s # None /\ Normal[s] = None)
       \/ ip \notin Listed(blockedIps) /\ Len(blockedIps) >= IpCapacity
       \/ /\ s # None /\ Normal[s] \notin Listed(blockedHosts)
          /\ Len(blockedHosts) >= HostCapacity
  BY <1>6 DEF BlockAnswer, NewIp, NewHost
<1>11. CASE ip \in Refused \/ (s # None /\ Normal[s] = None)
  BY <1>7, <1>11
<1>12. CASE ip \notin Listed(blockedIps) /\ Len(blockedIps) >= IpCapacity
  BY <1>7, <1>8, <1>9, <1>12
<1>13. CASE /\ s # None /\ Normal[s] \notin Listed(blockedHosts)
            /\ Len(blockedHosts) >= HostCapacity
  BY <1>7, <1>8, <1>9, <1>13
<1> QED BY <1>10, <1>11, <1>12, <1>13

LEMMA IngressTypes == ASSUME IngressInv PROVE IngressTypeOK
<1>1. PayloadSize \in Nat \ {0}
  BY MqttIngressAssumption
<1>2. wire = Idle \/ (wire.msg \in Messages /\ wire.at \in 0..Len(wire.msg.payload))
  BY DEF IngressInv
<1>3. handling # NoMessage => Len(handling.payload) \in 1..(PayloadSize - 1)
  <2> SUFFICES ASSUME handling # NoMessage
               PROVE  Len(handling.payload) \in 1..(PayloadSize - 1)
    OBVIOUS
  <2>1. /\ wire.msg \in Messages /\ FitsBuffer(wire.msg) /\ wire.msg.payload # <<>>
        /\ handling = [topic |-> wire.msg.topic, payload |-> wire.msg.payload]
    BY DEF IngressInv
  <2>2. handling.payload = wire.msg.payload
    BY <2>1
  <2>3. Len(wire.msg.payload) \in Nat /\ Len(wire.msg.payload) # 0
    BY <2>1, PayloadLength
  <2> QED BY <1>1, <2>1, <2>2, <2>3 DEF FitsBuffer
<1>4. incoming.expected \in 0..(PayloadSize - 1) /\ Len(incoming.payload) \in 0..incoming.expected
  <2>1. CASE incoming = EmptyBuffer
    <3>1. incoming.expected = 0 /\ Len(incoming.payload) = 0
      BY <2>1 DEF EmptyBuffer
    <3> QED BY <1>1, <3>1
  <2>2. ASSUME NEW m \in Messages, NEW n \in 0..Len(m.payload), incoming = Partial(m, n),
               incoming # EmptyBuffer
        PROVE  /\ incoming.expected \in 0..(PayloadSize - 1)
               /\ Len(incoming.payload) \in 0..incoming.expected
    <3>1. FitsBuffer(m) /\ incoming = [topic |-> m.topic, payload |-> SubSeq(m.payload, 1, n),
                                       expected |-> Len(m.payload)]
      BY <2>2 DEF Partial
    <3>2. incoming.expected = Len(m.payload) /\ incoming.payload = SubSeq(m.payload, 1, n)
      BY <3>1
    <3>3. Len(m.payload) \in Nat /\ m.payload \in Seq({m.payload[i] : i \in DOMAIN m.payload})
      BY PayloadLength, MqttIngressAssumption
    <3>4. Len(SubSeq(m.payload, 1, n)) = n
      BY <3>3, SubSeqProperties
    <3> QED BY <1>1, <3>1, <3>2, <3>3, <3>4 DEF FitsBuffer
  <2> QED BY <2>1, <2>2 DEF IngressInv
<1> QED BY <1>2, <1>3, <1>4 DEF IngressTypeOK

---------------------------------------------------------------------------
(* The theorems *)

IInv == IngressInv /\ TablesInv /\ DnsInv /\ DnsPhase /\ CommandInv

\* The buffer, the tables, the DNS task and the command stay as IInv says, whatever
\* arrives.
THEOREM Invariance == Spec => []IInv
<1>1. Init => IInv
  <2> SUFFICES ASSUME Init PROVE IInv
    OBVIOUS
  <2>1. IngressInv
    BY IngressInitially DEF Init
  <2>2. TablesInv
    BY EmptySeq DEF Init, RulesInit, TablesInv, Table
  <2>3. DnsInv /\ DnsPhase
    BY DEF Init, DnsInit, Waiting, DnsInv, DnsPhase, Answers
  <2>4. CommandInv
    BY DEF Init, IngressInit, CommandInv
  <2> QED BY <2>1, <2>2, <2>3, <2>4 DEF IInv
<1>2. IInv /\ [Next]_vars => IInv'
  <2> SUFFICES ASSUME IInv, [Next]_vars PROVE IInv'
    OBVIOUS
  <2>1. IngressInv' /\ DnsInv' /\ DnsPhase' /\ CommandInv'
    BY IngressStep, DnsStep, DnsPhaseStep, CommandStep DEF IInv
  <2>2. TablesInv'
    BY RuleStep DEF IInv, Grows
  <2> QED BY <2>1, <2>2 DEF IInv
<1> QED BY <1>1, <1>2, PTL DEF Spec

\* The handler gets every message that came whole and fits, exactly as it was sent,
\* and nothing else, for any messages and any way to cut them.
THEOREM CommandsWhole == Spec => HandledExactly
<1>1. IInv /\ [Next]_vars => [HandlesWhole]_ingressVars
  BY IngressStep DEF IInv
<1> QED BY <1>1, Invariance, PTL DEF Spec, HandledExactly

\* While the device is up no rule is lost or replaced.
THEOREM RulesStay == Spec => RulesOnlyGrow
<1>1. IInv /\ [Next]_vars => [RulesGrow \/ Restart]_ruleVars
  BY RuleStep DEF IInv, Grows, RulesGrow
<1> QED BY <1>1, Invariance, PTL DEF Spec, RulesOnlyGrow

\* A name that a rule covered when the query came in is not looked up upstream.
THEOREM BlockedNotResolved == Spec => ResolvedOnlyIfPermitted
<1>1. IInv /\ [Next]_vars => [LooksUpFree]_dns
  BY DnsStep DEF IInv
<1> QED BY <1>1, Invariance, PTL DEF Spec, ResolvedOnlyIfPermitted

\* Only rules refuse, and never the external Portal.
THEOREM PortalNotRefused == Spec => RefusedOnlyIfBlocked
<1>1. IInv /\ [Next]_vars => [RefusesBlocked]_dns
  BY DnsStep DEF IInv
<1> QED BY <1>1, Invariance, PTL DEF Spec, RefusedOnlyIfBlocked

\* The rules in force are what the commands that were reported a success ask for, but
\* for the hostnames with a space before them (app_command.c:505-507), for any tables
\* and any messages that name no field twice.
THEOREM RulesAreReported ==
  ASSUME OneFieldPerKey
  PROVE  Spec => [](ReportInv /\ RulesAsReported)
<1>1. Init => ReportInv
  <2>1. Listed(<<>>) = {} /\ IsFiniteSet({}) /\ Cardinality({}) = 0 /\ Len(<<>>) = 0
    BY FS_EmptySet DEF Listed
  <2>2. 0 <= IpCapacity /\ 0 <= HostCapacity
    BY BlockRulesAssumption
  <2> QED BY <2>1, <2>2, EmptySeq DEF Init, RulesInit, ReportInv, Distinct
<1>2. IInv /\ ReportInv /\ [Next]_vars => ReportInv'
  BY ReportStep DEF IInv
<1>3. ReportInv => RulesAsReported
  BY DEF ReportInv, RulesAsReported, Distinct
<1> QED BY <1>1, <1>2, <1>3, Invariance, PTL DEF Spec

\* Every table, buffer and task is in a state its code can tell.
THEOREM TypesHold ==
  ASSUME OneFieldPerKey
  PROVE  Spec => []TypeOK
<1>1. IInv /\ ReportInv => TypeOK
  <2> SUFFICES ASSUME IInv, ReportInv PROVE TypeOK
    OBVIOUS
  <2>1. RulesTypeOK
    BY DEF RulesTypeOK, ReportInv
  <2>2. IngressTypeOK
    BY IngressTypes DEF IInv
  <2>3. DnsTypeOK
    BY DEF IInv, DnsInv, DnsPhase, DnsTypeOK
  <2>4. kicked => handling # NoMessage /\ published.type = "kick"
    BY DEF IInv, CommandInv
  <2> QED BY <2>1, <2>2, <2>3, <2>4 DEF TypeOK, IInv, CommandInv, ReportInv
<1> QED BY <1>1, Invariance, RulesAreReported, PTL

\* A BLOCK_TRAFFIC in the form the parser reads fails only because of what it names or
\* because a table is full, for any tables and any messages that name no field twice.
THEOREM FailuresHaveCause ==
  ASSUME OneFieldPerKey
  PROVE  Spec => FailsForCause
<1>1. IInv /\ ReportInv /\ [Next]_vars => [FailureHasCause]_vars
  BY FailureStep DEF IInv
<1> QED BY <1>1, Invariance, RulesAreReported, PTL DEF Spec, FailsForCause

=============================================================================
