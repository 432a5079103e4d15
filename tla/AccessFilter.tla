------------------------------ MODULE AccessFilter ------------------------------
(***************************************************************************)
(* components/access_filter: the hook that sees every IPv4 packet of the   *)
(* SoftAP's clients, and the table of TLS flows behind it.                 *)
(*                                                                         *)
(* The lwIP thread runs the hook, one packet at a time; `lwip' is where it *)
(* stands.  Between its reads of shared state the MQTT task may install a  *)
(* rule (BlockTraffic).  The flow table belongs to the lwIP thread alone.  *)
(* Whether a client may forward is the client table's business (module     *)
(* ClientAccess) and may change at any time: here it answers either way.   *)
(*                                                                         *)
(* A connection is a four-tuple.  Its client sends the stream Streams[k]   *)
(* in segments; a segment may be lost before the filter sees it, come late *)
(* or come again, so any window of the stream may arrive at any time.      *)
(***************************************************************************)
EXTENDS BlockRules, TlsSniParser

CONSTANTS
  Conns,            \* connections to port 443 of servers in the Internet
  Server,           \* Server[k]: the destination address of connection k
  Streams,          \* Streams[k]: the units its client sends
  Hello,            \* Hello[k]: the length of the ClientHello at the head of the
                    \* stream and the host name a server reads in it, None when
                    \* it has none or hides it
  Cuts,             \* Cuts[k]: bound: where its segments may begin and end
  ISN,              \* ISN[k]: the sequence number of its SYN
  Spelled,          \* Spelled[u]: the host name of a unit of Hosts
  Commands,         \* the BLOCK_TRAFFIC commands: an address, a hostname or None
  FlowCapacity,     \* ACCESS_FILTER_TLS_FLOW_CAPACITY
  InspectTimeout,   \* ACCESS_FILTER_TLS_INSPECTION_TIMEOUT_MS
  DecisionTimeout,  \* ACCESS_FILTER_TLS_DECISION_TIMEOUT_MS
  StreamLimit,      \* ACCESS_FILTER_TLS_STREAM_LIMIT
  ChunkSize,        \* ACCESS_FILTER_TLS_FEED_CHUNK_SIZE
  ClockMod,         \* sys_now wraps here (2^32 ms)
  SeqNumMod,        \* TCP sequence numbers wrap here (2^32)
  BootClock,        \* bound: the clock at Init
  MaxClock          \* bound: and at the end

ASSUME AccessFilterAssumption ==
  /\ FlowCapacity \in Nat \ {0}
  /\ ISN \in [Conns -> Nat]
  /\ \A k \in Conns : /\ Streams[k] \in Seq({Streams[k][i] : i \in DOMAIN Streams[k]})
                      /\ Cuts[k] \subseteq 0..Len(Streams[k])
  /\ \A k \in Conns : Hello[k].length \in Nat
  /\ None \notin Nat
  /\ StreamLimit \in Nat /\ ChunkSize \in Nat \ {0}
  /\ Commands \subseteq Ips \X (Spellings \cup {None})
  /\ SeqNumMod \in Nat \ {0} /\ ClockMod \in Nat
  /\ InspectTimeout \in Nat \ {0} /\ DecisionTimeout \in Nat \ {0}
  /\ BootClock \in Nat /\ MaxClock \in Nat /\ BootClock <= MaxClock
  /\ MaxClock - BootClock < ClockMod

Slots   == 1..FlowCapacity
Kinds   == {"tls", "quic", "fragment", "other"}

VARIABLES
  flows,       \* s_tls_flows
  lwip,        \* the packet in the hook, and how far it got
  clock,       \* milliseconds since some start; sys_now is clock % ClockMod
  opened,      \* the connections whose last SYN went through, until their RST
  delivered,   \* history: positions of k's hello the server has received
  heard        \* history: how much of k's stream the filter met in order and in
               \* time since its SYN (-1: it has not), when it met it last, and
               \* whether a FIN ended it

filterVars == <<flows, lwip, clock, opened, delivered, heard>>
vars == <<ruleVars, filterVars>>

---------------------------------------------------------------------------
(* Flow records. *)

Free == [state |-> "free"]
Judgements == {"inspecting", "allow", "block"}

\* A flow as create_tls_flow makes it, and its SYN when one was seen (None otherwise).
NewFlow(k, next, syn) ==
  [state |-> "inspecting", conn |-> k, next |-> next, syn |-> syn,
   inspected |-> 0, last_seen |-> clock, parser |-> ParserInit]

Timeout(f) == IF f.state = "inspecting" THEN InspectTimeout ELSE DecisionTimeout

\* MUTANT: times are compared, not subtracted as unsigned numbers.
ExpiredUnwrapped(f) ==
  f.state # "free" /\ clock % ClockMod >= (f.last_seen + Timeout(f)) % ClockMod

\* expire_tls_flows, for one slot.
Expired(f) ==
  f.state # "free" /\ (clock - f.last_seen) % ClockMod >= Timeout(f)

\* MUTANT: nothing is ever expired.
UnexpiredAll == flows

\* The table inspect_tls_tcp_segment works on.
Unexpired == [i \in Slots |-> IF Expired(flows[i]) THEN Free ELSE flows[i]]

SlotsOf(table, k) == {i \in Slots : table[i].state # "free" /\ table[i].conn = k}
FreeSlots(table)  == {i \in Slots : table[i].state = "free"}

\* create_tls_flow takes the first free slot; which one it is makes no difference.
FreeSlot(table) == CHOOSE i \in FreeSlots(table) : TRUE
Created(table, k, next, syn) == [table EXCEPT ![FreeSlot(table)] = NewFlow(k, next, syn)]

\* clear_tls_flow on the flow found, if any.
Cleared(table, k) == [i \in Slots |-> IF i \in SlotsOf(table, k) THEN Free ELSE table[i]]

---------------------------------------------------------------------------
(* Packets.  A segment of the stream is the window lo+1..hi; a FIN ends it.  *)
(* One without data or FIN is an ACK, whose number nothing looks at.         *)

Packet(kind, k, lo, hi, flags) ==
  [kind |-> kind, conn |-> k, lo |-> lo, hi |-> hi, flags |-> flags]

Segments(k) ==
  LET windows == {w \in Cuts[k] \X Cuts[k] : w[1] <= w[2]}
      last(w) == \A n \in Cuts[k] : n <= w[2]
  IN  {Packet("tls", k, w[1], w[2], {}) : w \in {v \in windows : v[1] < v[2]}}
        \cup {Packet("tls", k, w[1], w[2], {"FIN"}) : w \in {v \in windows : last(v)}}
        \cup {Packet("tls", k, 0, 0, {})}

\* What the client of connection k may send: a SYN at any time (the same one again,
\* or that of a new connection when it gave the old one up), a RST, and once a SYN
\* went through anything of its stream.
Packets(k) ==
  {Packet(kind, k, 0, 0, {}) : kind \in Kinds \ {"tls"}}
    \cup {Packet("tls", k, 0, 0, {flag}) : flag \in {"SYN", "RST"}}
    \cup (IF k \in opened THEN Segments(k) ELSE {})

Has(p, flag) == flag \in p.flags

\* Sequence number of position n of the stream of k; 0 is what follows the SYN.
SeqAt(k, n) == (ISN[k] + 1 + n) % SeqNumMod

\* (int32_t)(a - b)
Signed(a, b) == LET d == (a - b) % SeqNumMod IN IF d < SeqNumMod \div 2 THEN d ELSE d - SeqNumMod

Resting(verdict) == [at |-> "idle", verdict |-> verdict]

\* The hook returns: 0 lets the packet through, 1 consumes it.  History counts the
\* part of the hello that passes while there are hostname rules; a client may also
\* send it over QUIC or in IP fragments.
Forward(p) ==
  LET k == p.conn
      opens == p.kind = "tls" /\ Has(p, "SYN")
      hello == CASE p.kind = "other" -> {}
                 [] p.kind = "tls"   -> (p.lo + 1 .. p.hi) \cap 1..Hello[k].length
                 [] OTHER            -> 1..Hello[k].length
  IN  /\ lwip' = Resting("forward")
      /\ opened' = IF opens THEN opened \cup {k} ELSE opened
      /\ delivered' = IF opens THEN [delivered EXCEPT ![k] = {}]
                      ELSE IF blockedHosts # <<>> THEN [delivered EXCEPT ![k] = @ \cup hello]
                      ELSE delivered

Drop == lwip' = Resting("drop") /\ UNCHANGED <<opened, delivered>>

---------------------------------------------------------------------------
(* access_filter_lwip_ip4_input *)

\* A packet that is no client's unicast traffic to the Internet is let through whatever
\* the rules: one to the device itself, a broadcast or multicast, one to the Portal
\* server, and one whose IPv4 header lwIP itself will refuse.
ReceiveExempt ==
  /\ lwip.at = "idle"
  /\ lwip' = Resting("forward")
  /\ UNCHANGED <<ruleVars, flows, clock, opened, delivered, heard>>

\* Any other packet enters.  It is dropped when its destination is blocked (entries never
\* change once published, so the scan reads the table as the count found it) or
\* when client_access_can_forward_ipv4 refuses its client.
Receive ==
  \E k \in Conns : \E p \in Packets(k) :
    /\ lwip.at = "idle"
    /\ \/ lwip' = Resting("drop")
       \/ /\ Server[k] \notin Listed(blockedIps)
          /\ lwip' = [at |-> "rules", packet |-> p, rules |-> Len(blockedHosts)]
    /\ opened' = IF Has(p, "SYN") \/ Has(p, "RST") THEN opened \ {k} ELSE opened
    /\ UNCHANGED <<ruleVars, flows, clock, delivered, heard>>

\* Without hostname rules nothing else is looked at; with them QUIC, fragments
\* and headers or checksums that are wrong are dropped, and only TCP to port 443
\* goes on to inspection.
Uninspected ==
  /\ lwip.at = "rules"
  /\ LET p == lwip.packet
     IN  /\ blockedHosts = <<>> \/ p.kind # "tls"
         /\ IF blockedHosts = <<>> \/ p.kind = "other" THEN Forward(p) ELSE Drop
  /\ UNCHANGED <<ruleVars, flows, clock, heard>>

---------------------------------------------------------------------------
(* inspect_tls_tcp_segment, which reads nothing that others write before it  *)
(* comes to a host name.                                                     *)

Live(f) == f.state # "free" /\ clock - f.last_seen < Timeout(f)
Crowded(k) == \A i \in Slots : Live(flows[i]) /\ flows[i].conn # k
Unheard == [upto |-> -1, at |-> 0, fin |-> FALSE]

\* History: what the filter has met of connection k once it inspects packet p.
Hearing(p) ==
  LET k == p.conn
      h == heard[k]
      whole == h.upto >= Hello[k].length
      late  == clock - h.at >= IF whole THEN DecisionTimeout ELSE InspectTimeout
  IN  heard' = [heard EXCEPT ![k] =
        IF Has(p, "SYN")
        THEN IF Crowded(k) THEN Unheard ELSE [upto |-> 0, at |-> clock, fin |-> FALSE]
        ELSE IF \/ h.upto = -1 \/ h.fin \/ late \/ Has(p, "RST")
                \/ p.lo > h.upto THEN Unheard
        ELSE [upto |-> Max({h.upto, p.hi}), at |-> clock, fin |-> Has(p, "FIN")]]

\* The segment inspected, if one is, and what an inspection leaves alone.
Inspected ==
  IF lwip.at = "rules" /\ blockedHosts # <<>>
  THEN {p \in {lwip.packet} : p.kind = "tls"} ELSE {}
Inspecting(p) == Hearing(p) /\ UNCHANGED <<ruleVars, clock>>

\* A RST only ends the flow.
InspectReset ==
  \E p \in Inspected :
    /\ Inspecting(p)
    /\ Has(p, "RST")
    /\ flows' = Cleared(Unexpired, p.conn)
    /\ Forward(p)

\* A SYN again, before any data.
Resent(table, k) ==
  \E i \in SlotsOf(table, k) :
    /\ table[i].state = "inspecting"
    /\ table[i].syn = ISN[k]
    /\ table[i].next = SeqAt(k, 0)

Touched(table, k) ==
  [i \in Slots |-> IF i \in SlotsOf(table, k) THEN [table[i] EXCEPT !.last_seen = clock]
                   ELSE table[i]]

\* MUTANT: the SYN of a new connection keeps what is known of the old one.
InspectSynStale ==
  \E p \in Inspected :
    LET k == p.conn
        table == Unexpired
    IN  /\ Inspecting(p)
        /\ Has(p, "SYN")
        /\ IF SlotsOf(table, k) # {}
           THEN flows' = Touched(table, k) /\ Forward(p)
           ELSE IF FreeSlots(table) # {}
           THEN flows' = Created(table, k, SeqAt(k, 0), ISN[k]) /\ Forward(p)
           ELSE flows' = table /\ Drop

\* Any other SYN starts the flow of a new connection, in the old one's place.
InspectSyn ==
  \E p \in Inspected :
    LET k == p.conn
        again == Resent(Unexpired, k)
        table == IF again THEN Unexpired ELSE Cleared(Unexpired, k)
    IN  /\ Inspecting(p)
        /\ Has(p, "SYN")
        /\ IF again THEN flows' = Touched(table, k) /\ Forward(p)
           ELSE IF FreeSlots(table) # {}
           THEN flows' = Created(table, k, SeqAt(k, 0), ISN[k]) /\ Forward(p)
           ELSE flows' = table /\ Drop

\* A segment of a connection that has no flow: without data there is nothing to
\* inspect; with data it needs a slot, which may not be there.
Unknown(p) == SlotsOf(Unexpired, p.conn) = {} /\ p.flags \cap {"RST", "SYN"} = {}

InspectEmpty ==
  \E p \in Inspected :
    /\ Inspecting(p)
    /\ Unknown(p) /\ p.lo = p.hi
    /\ flows' = Unexpired
    /\ Forward(p)

InspectRefused ==
  \E p \in Inspected :
    /\ Inspecting(p)
    /\ Unknown(p) /\ p.lo < p.hi
    /\ FreeSlots(Unexpired) = {}
    /\ flows' = Unexpired
    /\ Drop

\* The table with the flow a segment belongs to, created if need be, and its slot.
WithFlow(p) ==
  IF Unknown(p)
  THEN Created(Unexpired, p.conn, SeqAt(p.conn, p.lo), None)
  ELSE Touched(Unexpired, p.conn)

\* What a flow becomes when a packet of it leaves with the flow in state s.
Settled(table, i, p, s) ==
  [table EXCEPT ![i] = IF Has(p, "FIN") THEN Free ELSE [@ EXCEPT !.state = s]]

Verdict(p, s) == IF s = "block" THEN Drop ELSE Forward(p)

\* The segments that have a flow or get one.
Followed ==
  {p \in Inspected : /\ p.flags \cap {"RST", "SYN"} = {}
                     /\ Unknown(p) => p.lo < p.hi /\ FreeSlots(Unexpired) # {}}

\* (int32_t)(payload_sequence - next_sequence), and what follows a FIN while the
\* hello is not whole.
Delta(p, f) == Signed(SeqAt(p.conn, p.lo), f.next)
Unfinished(p, s) == IF s = "inspecting" /\ Has(p, "FIN") THEN "block" ELSE s

\* A judged connection: its packets share its fate.
InspectDecided ==
  \E p \in Followed : \E i \in SlotsOf(WithFlow(p), p.conn) :
    LET f == WithFlow(p)[i]
    IN  /\ Inspecting(p)
        /\ f.state \in {"allow", "block"}
        /\ flows' = Settled(WithFlow(p), i, p, f.state)
        /\ Verdict(p, f.state)

\* No data, a gap before it, or data that was all seen before.
InspectNothingNew ==
  \E p \in Followed : \E i \in SlotsOf(WithFlow(p), p.conn) :
    LET f == WithFlow(p)[i]
        gap == p.lo < p.hi /\ Delta(p, f) > 0
        s == Unfinished(p, IF gap THEN "block" ELSE "inspecting")
    IN  /\ Inspecting(p)
        /\ f.state = "inspecting"
        /\ \/ p.lo = p.hi
           \/ gap
           \/ (f.next - SeqAt(p.conn, p.lo)) % SeqNumMod >= p.hi - p.lo
        /\ flows' = Settled(WithFlow(p), i, p, s)
        /\ Verdict(p, s)

\* MUTANT: of a segment that overlaps what the flow has, all goes to the parser.
InspectDataWhole ==
  \E p \in Followed : \E i \in SlotsOf(WithFlow(p), p.conn) :
    LET f == WithFlow(p)[i]
    IN  /\ Inspecting(p)
        /\ f.state = "inspecting"
        /\ p.lo < p.hi /\ Delta(p, f) <= 0
        /\ (f.next - SeqAt(p.conn, p.lo)) % SeqNumMod < p.hi - p.lo
        /\ flows' = WithFlow(p)
        /\ lwip' = [at |-> "feed", packet |-> p, rules |-> lwip.rules, slot |-> i,
                    from |-> p.lo, pos |-> p.lo]
        /\ UNCHANGED <<opened, delivered>>

\* Data that goes on where the flow stands, possibly overlapping what it has.
InspectData ==
  \E p \in Followed : \E i \in SlotsOf(WithFlow(p), p.conn) :
    LET f == WithFlow(p)[i]
        overlap == (f.next - SeqAt(p.conn, p.lo)) % SeqNumMod
    IN  /\ Inspecting(p)
        /\ f.state = "inspecting"
        /\ p.lo < p.hi /\ Delta(p, f) <= 0
        /\ overlap < p.hi - p.lo
        /\ flows' = WithFlow(p)
        /\ lwip' = [at |-> "feed", packet |-> p, rules |-> lwip.rules, slot |-> i,
                    from |-> p.lo + overlap, pos |-> p.lo + overlap]
        /\ UNCHANGED <<opened, delivered>>

---------------------------------------------------------------------------
(* feed_tls_stream and apply_tls_parse_result *)

Judged(t) ==
  IF t.result = "need_more" THEN "inspecting"
  ELSE IF t.parser.ech \/ t.result # "found" \/ HostBlocked(Spelled[t.host]) THEN "block"
  ELSE "allow"

\* The packet whose data is being fed, if one is.
Feeding == IF lwip.at = "feed" THEN {lwip.packet} ELSE {}

\* The loop goes on while there is data, no judgement and some budget.
Hungry(f, p) == f.state = "inspecting" /\ lwip.pos < p.hi /\ f.inspected < StreamLimit

\* One turn of the loop: the next chunk goes to the parser.  The rules are read when
\* the hello is whole, and once at most.
FeedChunk ==
  \E p \in Feeding :
    LET i == lwip.slot
        f == flows[i]
        n == Min({ChunkSize, p.hi - lwip.pos, StreamLimit - f.inspected})
        t == Feed(f.parser, SubSeq(Streams[f.conn], lwip.pos + 1, lwip.pos + n))
    IN  /\ Hungry(f, p)
        /\ flows' = [flows EXCEPT ![i] = [f EXCEPT !.parser = t.parser, !.inspected = @ + n,
                                                   !.state = Judged(t)]]
        /\ lwip' = [lwip EXCEPT !.pos = @ + n]
        /\ UNCHANGED <<ruleVars, clock, opened, delivered, heard>>

\* The loop is over.  A hello that used up its budget, or that a FIN cut short, is
\* refused.
FeedEnd ==
  \E p \in Feeding :
    LET i == lwip.slot
        f == flows[i]
        s == Unfinished(p, IF f.state = "inspecting" /\ f.inspected >= StreamLimit
                           THEN "block" ELSE f.state)
        next == (f.next + p.hi - lwip.from) % SeqNumMod
    IN  /\ ~Hungry(f, p)
        /\ flows' = Settled([flows EXCEPT ![i] = [@ EXCEPT !.next = next]], i, p, s)
        /\ Verdict(p, s)
        /\ UNCHANGED <<ruleVars, clock, heard>>

---------------------------------------------------------------------------
(* Everybody else. *)

\* The MQTT task executes a command.
InstallRule ==
  \E c \in Commands : BlockTraffic(c[1], c[2]) /\ UNCHANGED filterVars

\* The hook reads the clock once per packet, so time may as well pass before it.
Advance ==
  /\ lwip.at = "idle" /\ clock < MaxClock
  /\ clock' = clock + 1
  /\ UNCHANGED <<ruleVars, flows, lwip, opened, delivered, heard>>

Init ==
  /\ RulesInit
  /\ flows = [i \in Slots |-> Free]
  /\ lwip = Resting("forward")
  /\ clock = BootClock
  /\ opened = {}
  /\ delivered = [k \in Conns |-> {}]
  /\ heard = [k \in Conns |-> Unheard]

Inspect == \/ InspectReset \/ InspectSyn \/ InspectEmpty \/ InspectRefused
           \/ InspectDecided \/ InspectNothingNew \/ InspectData

Next == \/ ReceiveExempt \/ Receive \/ Uninspected \/ Inspect \/ FeedChunk \/ FeedEnd
        \/ InstallRule \/ Advance

Spec == Init /\ [][Next]_vars

---------------------------------------------------------------------------
(* Properties *)

\* A server may see the hello of connection k under rules r.
Permitted(k, r) ==
  Hello[k].host # None /\ Normal[Hello[k].host] # None /\ ~Covers(r, Normal[Hello[k].host])

Inspects == Inspected # {} \/ lwip.at = "feed"
Dropped  == lwip'.at = "idle" /\ lwip'.verdict = "drop"

\* Types, and where the thread is with which data.
TypeOK ==
  /\ RulesTypeOK
  /\ DOMAIN flows = Slots
  /\ \A i \in Slots : \/ flows[i] = Free
                      \/ /\ flows[i].state \in Judgements
                         /\ flows[i].conn \in Conns /\ flows[i].inspected \in 0..StreamLimit
  /\ lwip.at \in {"idle", "rules", "feed"}
  /\ lwip.at = "feed" => lwip.slot \in SlotsOf(flows, lwip.packet.conn)

\* Two flows of one connection would judge its packets in turn: find_tls_flow returns
\* the first, and the second holds a slot until it expires.
OneFlowPerConnection ==
  \A i, j \in Slots :
    flows[i].state # "free" /\ flows[j].state # "free" /\ flows[i].conn = flows[j].conn => i = j

\* The parser alone, given part of a stream, is where it can go on with the next part
\* as if it had both at once.
ParserGoesOn ==
  \A k \in Conns : \A a, b, c \in 0..Len(Streams[k]) :
    a <= b /\ b <= c =>
      LET part  == Feed(ParserInit, SubSeq(Streams[k], a + 1, b))
          both  == Feed(ParserInit, SubSeq(Streams[k], a + 1, c))
          onward == Feed(part.parser, SubSeq(Streams[k], b + 1, c))
      IN  /\ a = b => part.parser = ParserInit /\ part.result = "need_more"
          /\ part.result = "need_more" =>
               /\ onward.parser = both.parser /\ onward.result = both.result
               /\ onward.host = both.host

\* The parser finds the host name a server would read, when it has the whole hello and
\* not before, and no part of a stream that begins later passes for a hello with a name.
ParserReadsHello ==
  \A k \in Conns : \A a, c \in 0..Len(Streams[k]) :
    a <= c =>
      LET t     == Feed(ParserInit, SubSeq(Streams[k], a + 1, c))
          name  == Hello[k].host
          whole == c >= Hello[k].length
          found == t.result = "found" /\ ~t.parser.ech
      IN  /\ found => a = 0 /\ whole /\ name # None /\ name = Spelled[t.host]
          /\ a = 0 /\ t.result = "need_more" => ~whole
          /\ a = 0 /\ name # None => IF whole THEN found ELSE t.result = "need_more"

\* Sequence numbers can be told apart: the int32_t difference of two that lie within
\* half of them is that of the positions.
StreamsShort == \A k \in Conns : Len(Streams[k]) <= SeqNumMod \div 2

\* However a stream is cut into segments, chunks and records, with whatever came
\* twice, the parser of a flow is where it would be had it been given all of it at
\* once.  A flow's first unit is the one after its SYN, or follows from the unit an
\* undecided flow waits for.
SegmentationInvisible ==
  \A i \in Slots :
    LET f == flows[i]
        first == IF f.syn # None THEN 0
                 ELSE (f.next - f.inspected - SeqAt(f.conn, 0)) % SeqNumMod
    IN  (f.state # "free" /\ (f.syn # None \/ (f.state = "inspecting" /\ lwip.at # "feed"))) =>
          f.parser = Feed(ParserInit,
                          SubSeq(Streams[f.conn], first + 1, first + f.inspected)).parser

\* A hello reaches its server whole only if no hostname rule was there when the
\* packet that completes it came in, or if its host name was permitted by the rules
\* then: one that is blocked, hidden or malformed never does.  The exception is the
\* flow of a connection older than the rules (or than the flow's last expiry) that is
\* not judged yet: what went before it is unknown to the filter.
CompletesIfPermitted ==
  \A k \in Conns :
    delivered[k] # 1..Hello[k].length /\ delivered'[k] = 1..Hello[k].length =>
      \/ lwip.rules = 0 \/ Permitted(k, SubSeq(blockedHosts, 1, lwip.rules))
      \/ \E i \in SlotsOf(flows, k) :
           flows[i].syn = None /\ (flows[i].state = "inspecting" \/ lwip.at = "feed")

BlockedHelloIncomplete == [][CompletesIfPermitted]_vars

\* Inspection stops a connection that is permitted only if the filter missed some
\* of it (a gap, an idle spell, a beginning before there were rules), if the client
\* ended it within the hello, or if there is no slot for it.
StopsForCause ==
  Inspects /\ Dropped =>
    LET p == lwip.packet
        k == p.conn
    IN  \/ ~Permitted(k, blockedHosts) \/ Hello[k].length > StreamLimit
        \/ heard'[k].upto = -1
        \/ Has(p, "FIN") /\ heard'[k].upto < Hello[k].length
        \/ Crowded(k)

PermittedNotBlocked == [][StopsForCause]_vars

\* A flow leaves the table by a RST, SYN or FIN of its own or once idle for its
\* timeout, across the wrap of the clock; and one that is idle that long never
\* survives the next inspection.
ExpiresExactly ==
  /\ \A i \in Slots :
       LET f == flows[i]
       IN  f.state # "free" /\ (flows'[i].state = "free" \/ flows'[i].conn # f.conn) =>
             \/ clock - f.last_seen >= Timeout(f)
             \/ f.conn = lwip.packet.conn /\ lwip.packet.flags # {}
  /\ Inspected # {} /\ lwip'.at # "rules" =>
       \A i \in Slots : flows'[i].state # "free" => Live(flows'[i])

ExpiryExact == [][ExpiresExactly]_vars

\* A packet is refused for want of a slot only while every slot is held by the live
\* flow of another connection.
RefusesWhenFull ==
  Inspected # {} /\ Dropped =>
    LET k == lwip.packet.conn
    IN  \/ ~Has(lwip.packet, "SYN") /\ \E i \in SlotsOf(flows, k) : Live(flows[i])
        \/ Crowded(k)

RefusedOnlyWhenFull == [][RefusesWhenFull]_vars

=============================================================================
