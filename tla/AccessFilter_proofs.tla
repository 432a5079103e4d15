-------------------------- MODULE AccessFilter_proofs --------------------------
(***************************************************************************)
(* For any number of connections and of flow slots, any timeouts and any   *)
(* clock that wraps: a connection has one flow, a flow leaves the table    *)
(* exactly when it should, and a packet is refused for want of a slot only *)
(* while other connections hold them all.  And for the streams: what a     *)
(* flow has read, what a server has received, what the filter has heard.   *)
(* Of the parser (a fold, which the provers cannot unfold) these sections  *)
(* take what they need as a hypothesis: ParserGoesOn and ParserReadsHello. *)
(***************************************************************************)
EXTENDS AccessFilter, SequenceTheorems, TLAPS

FlowOK(f) ==
  /\ f = [state |-> f.state, conn |-> f.conn, next |-> f.next, syn |-> f.syn,
          inspected |-> f.inspected, last_seen |-> f.last_seen, parser |-> f.parser]
  /\ f.state \in Judgements
  /\ f.conn \in Conns /\ f.next \in Int /\ f.inspected \in 0..StreamLimit
  /\ f.last_seen \in BootClock..clock

Unique(t) ==
  \A i, j \in Slots : t[i].state # "free" /\ t[j].state # "free" /\ t[i].conn = t[j].conn => i = j

TableOK(t) ==
  /\ t = [i \in Slots |-> t[i]]
  /\ \A i \in Slots : t[i] = Free \/ FlowOK(t[i])
  /\ Unique(t)

\* The packet of a segment is a window of the stream; a SYN or a RST has no data.
WindowOK(p) ==
  /\ p.conn \in Conns
  /\ p.flags \in {{}, {"SYN"}, {"RST"}, {"FIN"}}
  /\ Has(p, "SYN") \/ Has(p, "RST") => p.lo = p.hi
  /\ p.lo \in Nat /\ p.hi \in Nat /\ p.lo <= p.hi /\ p.hi <= Len(Streams[p.conn])

\* The slot its data goes to is the connection's.
FeedOK ==
  /\ lwip = [at |-> "feed", packet |-> lwip.packet, rules |-> lwip.rules, slot |-> lwip.slot,
             from |-> lwip.from, pos |-> lwip.pos]
  /\ lwip.from \in Int /\ lwip.pos \in Int
  /\ lwip.slot \in SlotsOf(flows, lwip.packet.conn)
  /\ lwip.packet.kind = "tls" /\ ~Has(lwip.packet, "RST") /\ ~Has(lwip.packet, "SYN")

LwipInv ==
  /\ lwip.at \in {"idle", "rules", "feed"}
  /\ lwip.at # "idle" => WindowOK(lwip.packet)
  /\ lwip.at = "feed" => FeedOK

IInv == clock \in BootClock..MaxClock /\ TableOK(flows) /\ LwipInv

\* No slot of t outlived its timeout.
Fresh(t) == \A i \in Slots : t[i].state # "free" => Live(t[i])

\* In t a flow of the table is gone only because its time is over or because packet
\* p, of the same connection, ended it.
Keeps(t, p) ==
  \A i \in Slots :
    flows[i].state # "free" /\ (t[i].state = "free" \/ t[i].conn # flows[i].conn) =>
      clock - flows[i].last_seen >= Timeout(flows[i])
        \/ (flows[i].conn = p.conn /\ p.flags # {})

\* A table as an inspection of p leaves it.
Good(t, p) == TableOK(t) /\ Fresh(t) /\ Keeps(t, p)

---------------------------------------------------------------------------
(* The operations on a table *)

\* The clock wraps, but it does not run all the way round in the model's time.
LEMMA Elapsed ==
  ASSUME clock \in BootClock..MaxClock, NEW f, FlowOK(f)
  PROVE  /\ Expired(f) <=> clock - f.last_seen >= Timeout(f)
         /\ Live(f) <=> ~Expired(f)
         /\ Timeout(f) \in Nat \ {0}
<1> DEFINE d == clock - f.last_seen
<1>1. d \in Nat /\ d < ClockMod /\ ClockMod \in Nat \ {0}
  <2>1. /\ BootClock \in Nat /\ MaxClock \in Nat /\ ClockMod \in Nat
        /\ BootClock <= MaxClock /\ MaxClock - BootClock < ClockMod
    BY AccessFilterAssumption
  <2>2. f.last_seen \in BootClock..clock
    BY DEF FlowOK
  <2> QED BY <2>1, <2>2
<1>2. d % ClockMod = d
  <2> HIDE DEF d
  <2> QED BY <1>1
<1>3. Timeout(f) \in Nat \ {0}
  BY AccessFilterAssumption DEF Timeout
<1>4. f.state # "free"
  BY DEF FlowOK, Judgements
<1> QED BY <1>1, <1>2, <1>3, <1>4 DEF Expired, Live

\* A flow that was seen now is live.
LEMMA SeenNow ==
  ASSUME clock \in BootClock..MaxClock, NEW f, f.last_seen = clock, f.state # "free"
  PROVE  Live(f)
<1>1. Timeout(f) \in Nat \ {0} /\ clock \in Int
  BY AccessFilterAssumption DEF Timeout
<1> QED BY <1>1 DEF Live

LEMMA SeqNumber ==
  ASSUME NEW k \in Conns, NEW n \in Int
  PROVE  SeqAt(k, n) \in Int /\ SeqNumMod \in Nat \ {0}
<1>1. ISN[k] \in Int /\ SeqNumMod \in Nat \ {0}
  BY AccessFilterAssumption
<1> QED BY <1>1 DEF SeqAt

LEMMA UnexpiredOK ==
  ASSUME IInv, NEW p
  PROVE  Good(Unexpired, p)
<1> DEFINE t == Unexpired
<1>1. t = [i \in Slots |-> t[i]]
  BY DEF Unexpired
<1>2. \A i \in Slots : t[i] = IF Expired(flows[i]) THEN Free ELSE flows[i]
  BY DEF Unexpired
<1>3. \A i \in Slots : flows[i] = Free \/ FlowOK(flows[i])
  BY DEF IInv, TableOK
<1>4. Free.state = "free"
  BY DEF Free
<1> HIDE DEF t
<1>5. TableOK(t)
  <2>1. \A i \in Slots : t[i] = Free \/ FlowOK(t[i])
    BY <1>2, <1>3
  <2>2. Unique(t)
    BY <1>2, <1>4 DEF TableOK, Unique, IInv
  <2> QED BY <1>1, <2>1, <2>2 DEF TableOK
<1>6. Fresh(t)
  <2> SUFFICES ASSUME NEW i \in Slots, t[i].state # "free" PROVE Live(t[i])
    BY DEF Fresh
  <2>1. ~Expired(flows[i]) /\ t[i] = flows[i] /\ FlowOK(flows[i])
    BY <1>2, <1>3, <1>4
  <2> QED BY <2>1, Elapsed DEF IInv
<1>7. Keeps(t, p)
  <2> SUFFICES ASSUME NEW i \in Slots, flows[i].state # "free", t[i] # flows[i]
               PROVE  clock - flows[i].last_seen >= Timeout(flows[i])
    BY DEF Keeps
  <2>1. Expired(flows[i]) /\ FlowOK(flows[i])
    BY <1>2, <1>3, <1>4
  <2> QED BY <2>1, Elapsed DEF IInv
<1> QED BY <1>5, <1>6, <1>7 DEF t, Good

LEMMA ClearedOK ==
  ASSUME NEW t, NEW p, Good(t, p), p.flags # {}
  PROVE  Good(Cleared(t, p.conn), p) /\ SlotsOf(Cleared(t, p.conn), p.conn) = {}
<1> DEFINE k == p.conn
           u == Cleared(t, k)
<1>1. u = [i \in Slots |-> u[i]]
  BY DEF Cleared
<1>2. \A i \in Slots : u[i] = IF i \in SlotsOf(t, k) THEN Free ELSE t[i]
  BY DEF Cleared
<1>3. Free.state = "free"
  BY DEF Free
<1> HIDE DEF u
<1>4. TableOK(u)
  <2>1. \A i \in Slots : u[i] = Free \/ FlowOK(u[i])
    BY <1>2 DEF Good, TableOK
  <2>2. Unique(u)
    BY <1>2, <1>3 DEF Good, TableOK, Unique
  <2> QED BY <1>1, <2>1, <2>2 DEF TableOK
<1>5. Fresh(u) /\ SlotsOf(u, k) = {}
  BY <1>2, <1>3 DEF Good, Fresh, SlotsOf
<1>6. Keeps(u, p)
  BY <1>2, <1>3 DEF Good, Keeps, SlotsOf
<1> QED BY <1>4, <1>5, <1>6 DEF u, Good

LEMMA SeenAgain ==
  ASSUME clock \in BootClock..MaxClock, NEW f, FlowOK(f),
         NEW g, g = [f EXCEPT !.last_seen = clock]
  PROVE  /\ FlowOK(g) /\ Live(g)
         /\ g.state = f.state /\ g.conn = f.conn /\ g.last_seen = clock
<1>1. f = [state |-> f.state, conn |-> f.conn, next |-> f.next, syn |-> f.syn,
           inspected |-> f.inspected, last_seen |-> f.last_seen, parser |-> f.parser]
  BY DEF FlowOK
<1>2. g = [state |-> f.state, conn |-> f.conn, next |-> f.next, syn |-> f.syn,
           inspected |-> f.inspected, last_seen |-> clock, parser |-> f.parser]
  BY <1>1
<1>3. g.state = f.state /\ g.conn = f.conn /\ g.last_seen = clock
  BY <1>2
<1>4. FlowOK(g)
  BY <1>2, AccessFilterAssumption DEF FlowOK
<1>5. Live(g)
  BY <1>3, <1>4, SeenNow DEF FlowOK, Judgements
<1> QED BY <1>3, <1>4, <1>5

LEMMA TouchedOK ==
  ASSUME clock \in BootClock..MaxClock, NEW t, NEW p, Good(t, p), NEW k
  PROVE  /\ Good(Touched(t, k), p)
         /\ SlotsOf(Touched(t, k), k) = SlotsOf(t, k)
         /\ \A i \in SlotsOf(t, k) : Touched(t, k)[i].last_seen = clock
<1> DEFINE u == Touched(t, k)
<1>1. u = [i \in Slots |-> u[i]]
  BY DEF Touched
<1>2. \A i \in Slots : i \notin SlotsOf(t, k) => u[i] = t[i]
  BY DEF Touched
<1>3. \A i \in SlotsOf(t, k) : /\ FlowOK(u[i]) /\ Live(u[i])
                              /\ u[i].state = t[i].state /\ u[i].conn = t[i].conn
                              /\ u[i].last_seen = clock
  <2> TAKE i \in SlotsOf(t, k)
  <2>1. u[i] = [t[i] EXCEPT !.last_seen = clock]
    BY DEF Touched, SlotsOf
  <2>2. t[i] = Free \/ FlowOK(t[i])
    BY DEF Good, TableOK, SlotsOf
  <2>3. FlowOK(t[i])
    BY <2>2 DEF SlotsOf, Free
  <2> QED BY <2>1, <2>3, SeenAgain
<1> HIDE DEF u
<1>4. \A i \in Slots : u[i].state = t[i].state /\ u[i].conn = t[i].conn
  BY <1>2, <1>3
<1>5. \A i \in SlotsOf(t, k) : FlowOK(u[i]) /\ Live(u[i])
  BY <1>3
<1>6. TableOK(u)
  <2>1. \A i \in Slots : u[i] = Free \/ FlowOK(u[i])
    BY <1>2, <1>5 DEF Good, TableOK
  <2>2. Unique(u)
    BY <1>4 DEF Good, TableOK, Unique
  <2> QED BY <1>1, <2>1, <2>2 DEF TableOK
<1>7. Fresh(u) /\ SlotsOf(u, k) = SlotsOf(t, k)
  BY <1>2, <1>4, <1>5 DEF Good, Fresh, SlotsOf
<1>8. Keeps(u, p)
  BY <1>4 DEF Good, Keeps
<1> QED BY <1>3, <1>6, <1>7, <1>8 DEF u, Good

\* A new flow goes where none was, for a connection that has none.
LEMMA CreatedOK ==
  ASSUME clock \in BootClock..MaxClock, NEW t, NEW p, Good(t, p), FreeSlots(t) # {},
         NEW k \in Conns, SlotsOf(t, k) = {}, NEW next \in Int, NEW syn
  PROVE  LET u == Created(t, k, next, syn)
         IN  /\ Good(u, p)
             /\ \A i \in SlotsOf(u, k) : u[i] = NewFlow(k, next, syn)
<1> DEFINE u == Created(t, k, next, syn)
           at == FreeSlot(t)
           new == NewFlow(k, next, syn)
<1>1. at \in Slots /\ t[at].state = "free"
  BY DEF FreeSlot, FreeSlots
<1>2. t = [i \in Slots |-> t[i]]
  BY DEF Good, TableOK
<1>3. u = [i \in Slots |-> u[i]] /\ u[at] = new /\ \A i \in Slots \ {at} : u[i] = t[i]
  <2> HIDE DEF at, new
  <2>1. u = [t EXCEPT ![at] = new]
    BY DEF at, new, Created
  <2> HIDE DEF u
  <2> QED BY <1>1, <1>2, <2>1
<1>4. new.state = "inspecting" /\ new.conn = k /\ new.last_seen = clock
  BY DEF NewFlow
<1>5. FlowOK(new) /\ Live(new)
  <2>1. FlowOK(new)
    BY AccessFilterAssumption DEF FlowOK, NewFlow, Judgements
  <2>2. Live(new)
    BY <1>4, SeenNow
  <2> QED BY <2>1, <2>2
<1> HIDE DEF at, new, u
<1>6. \A i \in Slots \ {at} : t[i].state # "free" => t[i].conn # k
  BY DEF SlotsOf
<1>7. TableOK(u)
  <2>1. \A i \in Slots : u[i] = Free \/ FlowOK(u[i])
    BY <1>3, <1>5 DEF Good, TableOK
  <2>2. Unique(u)
    BY <1>3, <1>4, <1>6 DEF Good, TableOK, Unique
  <2> QED BY <1>3, <2>1, <2>2 DEF TableOK
<1>8. Fresh(u) /\ SlotsOf(u, k) = {at}
  BY <1>1, <1>3, <1>4, <1>5, <1>6 DEF Good, Fresh, SlotsOf
<1>9. Keeps(u, p)
  BY <1>1, <1>3 DEF Good, Keeps
<1> QED BY <1>3, <1>7, <1>8, <1>9 DEF Good, new, u

\* A flow gets its new state, or its FIN clears it.
LEMMA SettledOK ==
  ASSUME clock \in BootClock..MaxClock, NEW t, NEW p, TableOK(t), Keeps(t, p),
         NEW i \in SlotsOf(t, p.conn), NEW s \in Judgements,
         NEW u, u = Settled(t, i, p, s)
  PROVE  /\ TableOK(u) /\ Keeps(u, p)
         /\ Fresh(t) /\ t[i].last_seen = clock => Fresh(u)
<1> DEFINE f == t[i]
           g == [f EXCEPT !.state = s]
<1>1. i \in Slots /\ f.state # "free" /\ f.conn = p.conn /\ (f = Free \/ FlowOK(f))
  BY DEF SlotsOf, TableOK
<1>2. FlowOK(f)
  BY <1>1 DEF Free
<1>3. FlowOK(g) /\ g.state = s /\ g.conn = f.conn /\ g.last_seen = f.last_seen
  <2>1. f = [state |-> f.state, conn |-> f.conn, next |-> f.next, syn |-> f.syn,
             inspected |-> f.inspected, last_seen |-> f.last_seen, parser |-> f.parser]
    BY <1>2 DEF FlowOK
  <2> HIDE DEF f
  <2>2. g = [state |-> s, conn |-> f.conn, next |-> f.next, syn |-> f.syn,
             inspected |-> f.inspected, last_seen |-> f.last_seen, parser |-> f.parser]
    BY <2>1
  <2> QED BY <1>2, <2>2 DEF FlowOK
<1>4. t = [n \in Slots |-> t[n]]
  BY DEF TableOK
<1>5. /\ u = [n \in Slots |-> u[n]]
      /\ u[i] = IF Has(p, "FIN") THEN Free ELSE g
      /\ \A n \in Slots \ {i} : u[n] = t[n]
  <2>1. u = [t EXCEPT ![i] = IF Has(p, "FIN") THEN Free ELSE g]
    BY DEF Settled
  <2> HIDE DEF g
  <2> QED BY <1>1, <1>4, <2>1
<1>6. Free.state = "free"
  BY DEF Free
<1>7. g.state # "free"
  BY <1>3 DEF Judgements
<1> HIDE DEF f, g
<1>8. TableOK(u)
  <2>1. \A n \in Slots : u[n] = Free \/ FlowOK(u[n])
    BY <1>3, <1>5 DEF TableOK
  <2>2. \A n \in Slots : u[n].state # "free" => t[n].state # "free" /\ u[n].conn = t[n].conn
    BY <1>1, <1>3, <1>5, <1>6 DEF f
  <2>3. Unique(u)
    BY <2>2 DEF TableOK, Unique
  <2> QED BY <1>5, <2>1, <2>3 DEF TableOK
<1>9. Keeps(u, p)
  BY <1>1, <1>3, <1>5, <1>7 DEF Keeps, Has, f
<1>10. Fresh(t) /\ f.last_seen = clock => Fresh(u)
  <2>1. f.last_seen = clock => Live(g)
    BY <1>3, <1>7, SeenNow
  <2> QED BY <1>5, <1>6, <2>1 DEF Fresh
<1> QED BY <1>8, <1>9, <1>10 DEF f

---------------------------------------------------------------------------
(* The inspections of a segment *)

LEMMA InspectedPacket ==
  ASSUME NEW p \in Inspected
  PROVE  p = lwip.packet /\ lwip.at = "rules"
BY DEF Inspected

LEMMA InspectedWindow ==
  ASSUME IInv, NEW p \in Inspected
  PROVE  /\ WindowOK(p) /\ p.conn \in Conns /\ p.lo \in Int /\ p.hi \in Int
         /\ SeqAt(p.conn, p.lo) \in Int /\ SeqAt(p.conn, 0) \in Int
<1>1. WindowOK(p)
  BY InspectedPacket DEF IInv, LwipInv
<1>2. p.conn \in Conns /\ p.lo \in Int /\ p.hi \in Int
  BY <1>1 DEF WindowOK
<1> QED BY <1>1, <1>2, SeqNumber

\* Expiry and clearing only take flows out.
LEMMA OnlyTaken ==
  ASSUME NEW k, NEW i \in Slots
  PROVE  /\ Unexpired[i] = Free \/ Unexpired[i] = flows[i]
         /\ Cleared(Unexpired, k)[i] = Free \/ Cleared(Unexpired, k)[i] = flows[i]
<1>1. Unexpired[i] = Free \/ Unexpired[i] = flows[i]
  BY DEF Unexpired
<1>2. Cleared(Unexpired, k)[i] = Free \/ Cleared(Unexpired, k)[i] = Unexpired[i]
  BY DEF Cleared
<1> QED BY <1>1, <1>2

\* No slot in a table without old flows: others hold them all.
LEMMA CrowdedOut ==
  ASSUME NEW t, Fresh(t), \A i \in Slots : t[i] = Free \/ t[i] = flows[i],
         NEW k, SlotsOf(t, k) = {}, FreeSlots(t) = {}
  PROVE  Crowded(k)
<1>1. \A i \in Slots : t[i].state # "free"
  BY DEF FreeSlots
<1>2. \A i \in Slots : t[i] = flows[i]
  BY <1>1 DEF Free
<1> QED BY <1>1, <1>2 DEF Fresh, SlotsOf, Crowded

LEMMA FollowedOK ==
  ASSUME IInv, NEW p \in Followed
  PROVE  /\ Good(WithFlow(p), p)
         /\ \A i \in SlotsOf(WithFlow(p), p.conn) : WithFlow(p)[i].last_seen = clock
<1>1. clock \in BootClock..MaxClock /\ Good(Unexpired, p)
  BY UnexpiredOK DEF IInv
<1>2. CASE Unknown(p)
  <2>1. FreeSlots(Unexpired) # {} /\ SlotsOf(Unexpired, p.conn) = {}
    BY <1>2 DEF Followed, Unknown
  <2>2. WithFlow(p) = Created(Unexpired, p.conn, SeqAt(p.conn, p.lo), None)
    BY <1>2 DEF WithFlow
  <2>3. NewFlow(p.conn, SeqAt(p.conn, p.lo), None).last_seen = clock
    BY DEF NewFlow
  <2>4. p.conn \in Conns /\ SeqAt(p.conn, p.lo) \in Int
    BY InspectedWindow DEF Followed
  <2> QED BY <1>1, <2>1, <2>2, <2>3, <2>4, CreatedOK
<1>3. CASE ~Unknown(p)
  BY <1>1, <1>3, TouchedOK DEF WithFlow
<1> QED BY <1>2, <1>3

\* A flow made for a segment wants exactly this segment: nothing is judged of it yet,
\* there is no gap before it and it was not seen before.
LEMMA NewFlowWants ==
  ASSUME IInv, NEW p \in Followed, Unknown(p), NEW i \in SlotsOf(WithFlow(p), p.conn)
  PROVE  /\ WithFlow(p)[i].state = "inspecting"
         /\ p.lo < p.hi /\ ~(Delta(p, WithFlow(p)[i]) > 0)
         /\ ~((WithFlow(p)[i].next - SeqAt(p.conn, p.lo)) % SeqNumMod >= p.hi - p.lo)
<1> DEFINE new == NewFlow(p.conn, SeqAt(p.conn, p.lo), None)
           q == SeqAt(p.conn, p.lo)
<1>1. FreeSlots(Unexpired) # {} /\ SlotsOf(Unexpired, p.conn) = {} /\ p.lo < p.hi
  BY DEF Followed, Unknown
<1>2. WithFlow(p) = Created(Unexpired, p.conn, q, None)
  BY DEF WithFlow
<1>3. WithFlow(p)[i] = new
  <2>1. Good(Unexpired, p) /\ clock \in BootClock..MaxClock
    BY UnexpiredOK DEF IInv
  <2>2. p.conn \in Conns /\ q \in Int
    BY InspectedWindow DEF Followed
  <2> QED BY <1>1, <1>2, <2>1, <2>2, CreatedOK
<1>4. new.state = "inspecting" /\ new.next = q
  BY DEF NewFlow
<1>5. p.conn \in Conns /\ p.lo \in Int /\ p.hi \in Int
  BY InspectedWindow DEF Followed
<1>6. q \in Int /\ SeqNumMod \in Nat \ {0}
  BY <1>5, SeqNumber
<1>7. (q - q) % SeqNumMod = 0
  <2> HIDE DEF q
  <2> QED BY <1>6
<1>8. ~(Signed(q, q) > 0) /\ ~((q - q) % SeqNumMod >= p.hi - p.lo)
  <2> HIDE DEF q
  <2> QED BY <1>1, <1>5, <1>6, <1>7 DEF Signed
<1> HIDE DEF new, q
<1> QED BY <1>1, <1>3, <1>4, <1>8 DEF Delta, q

\* After the inspection of a segment the table is good, the slot the data goes to is
\* the connection's, and a refusal had its cause.
LEMMA InspectStep ==
  ASSUME IInv, Inspect
  PROVE  /\ Good(flows', lwip.packet) /\ clock' = clock
         /\ lwip'.at = "feed" => lwip'.packet = lwip.packet /\ FeedOK'
         /\ lwip'.at \in {"idle", "feed"}
         /\ RefusesWhenFull
<1> DEFINE Result ==
      /\ Good(flows', lwip.packet) /\ clock' = clock
      /\ lwip'.at = "feed" => lwip'.packet = lwip.packet /\ FeedOK'
      /\ lwip'.at \in {"idle", "feed"}
      /\ RefusesWhenFull
<1> SUFFICES Result
  OBVIOUS
<1> USE DEF Inspecting
<1>1. clock \in BootClock..MaxClock
  BY DEF IInv
<1>2. Good(Unexpired, lwip.packet) /\ Fresh(Unexpired)
  BY UnexpiredOK DEF Good
<1>3. ASSUME NEW p, Forward(p)
      PROVE  lwip'.at = "idle" /\ lwip'.verdict = "forward" /\ RefusesWhenFull
  BY <1>3 DEF Forward, Resting, RefusesWhenFull, Dropped
<1>4. Drop => lwip'.at = "idle"
  BY DEF Drop, Resting
<1>5. CASE InspectReset
  <2>1. PICK p \in Inspected : /\ Inspecting(p) /\ Has(p, "RST")
                               /\ flows' = Cleared(Unexpired, p.conn) /\ Forward(p)
    BY <1>5 DEF InspectReset
  <2>2. p = lwip.packet /\ p.flags # {}
    BY <2>1, InspectedPacket DEF Has
  <2>3. Good(Cleared(Unexpired, p.conn), p)
    BY <1>2, <2>2, ClearedOK
  <2> QED BY <1>3, <2>1, <2>2, <2>3
<1>6. CASE InspectSyn
  <2>1. PICK p \in Inspected :
          LET again == Resent(Unexpired, p.conn)
              table == IF again THEN Unexpired ELSE Cleared(Unexpired, p.conn)
          IN  /\ Inspecting(p)
              /\ Has(p, "SYN")
              /\ IF again THEN flows' = Touched(table, p.conn) /\ Forward(p)
                 ELSE IF FreeSlots(table) # {}
                 THEN flows' = Created(table, p.conn, SeqAt(p.conn, 0), ISN[p.conn]) /\ Forward(p)
                 ELSE flows' = table /\ Drop
    BY <1>6 DEF InspectSyn
  <2>2. p = lwip.packet /\ p.flags # {}
    BY <2>1, InspectedPacket DEF Has
  <2>3. CASE Resent(Unexpired, p.conn)
    <3>1. flows' = Touched(Unexpired, p.conn) /\ Forward(p)
      BY <2>1, <2>3
    <3>2. Good(Touched(Unexpired, p.conn), p)
      BY <1>1, <1>2, <2>2, TouchedOK
    <3> QED BY <1>3, <2>1, <2>2, <3>1, <3>2
  <2>4. CASE ~Resent(Unexpired, p.conn)
    <3> DEFINE table == Cleared(Unexpired, p.conn)
    <3>1. Good(table, p) /\ SlotsOf(table, p.conn) = {}
      BY <1>2, <2>2, ClearedOK
    <3>2. CASE FreeSlots(table) # {}
      <4>1. flows' = Created(table, p.conn, SeqAt(p.conn, 0), ISN[p.conn]) /\ Forward(p)
        BY <2>1, <2>4, <3>2
      <4>2. Good(Created(table, p.conn, SeqAt(p.conn, 0), ISN[p.conn]), p)
        BY <1>1, <2>1, <3>1, <3>2, InspectedWindow, CreatedOK
      <4> QED BY <1>3, <2>1, <2>2, <4>1, <4>2
    <3>3. CASE FreeSlots(table) = {}
      <4>1. flows' = table /\ Drop
        BY <2>1, <2>4, <3>3
      <4>2. Crowded(p.conn)
        BY <3>1, <3>3, OnlyTaken, CrowdedOut DEF Good
      <4> QED BY <1>4, <2>1, <2>2, <3>1, <4>1, <4>2 DEF RefusesWhenFull
    <3> QED BY <3>2, <3>3
  <2> QED BY <2>3, <2>4
<1>7. CASE InspectEmpty
  BY <1>2, <1>3, <1>7, InspectedPacket DEF InspectEmpty
<1>8. CASE InspectRefused
  <2>1. PICK p \in Inspected : /\ Inspecting(p) /\ Unknown(p)
                               /\ FreeSlots(Unexpired) = {}
                               /\ flows' = Unexpired /\ Drop
    BY <1>8 DEF InspectRefused
  <2>2. Crowded(p.conn)
    BY <1>2, <2>1, OnlyTaken, CrowdedOut DEF Unknown
  <2>3. p = lwip.packet
    BY <2>1, InspectedPacket
  <2> QED BY <1>2, <1>4, <2>1, <2>2, <2>3 DEF RefusesWhenFull
<1>9. ASSUME NEW p \in Followed, ~Unknown(p)
      PROVE  RefusesWhenFull
  <2>1. p = lwip.packet /\ ~Has(p, "SYN")
    BY InspectedPacket DEF Followed, Has
  <2>2. PICK i \in SlotsOf(Unexpired, p.conn) : TRUE
    BY <1>9 DEF Followed, Unknown
  <2>3. Unexpired[i] = flows[i] /\ i \in SlotsOf(flows, p.conn) /\ Live(flows[i])
    BY <1>2, <2>2, OnlyTaken DEF SlotsOf, Fresh, Free
  <2> QED BY <2>1, <2>3 DEF RefusesWhenFull
<1>10. CASE InspectDecided
  <2>0. PICK p \in Followed : \E i \in SlotsOf(WithFlow(p), p.conn) :
          LET f == WithFlow(p)[i]
          IN  /\ Inspecting(p) /\ f.state \in {"allow", "block"}
              /\ flows' = Settled(WithFlow(p), i, p, f.state)
              /\ Verdict(p, f.state)
    BY <1>10 DEF InspectDecided
  <2>1. PICK i \in SlotsOf(WithFlow(p), p.conn) :
          LET f == WithFlow(p)[i]
          IN  /\ Inspecting(p) /\ f.state \in {"allow", "block"}
              /\ flows' = Settled(WithFlow(p), i, p, f.state)
              /\ Verdict(p, f.state)
    BY <2>0
  <2>2. p = lwip.packet /\ p \in Inspected
    BY <2>1, InspectedPacket DEF Followed
  <2>3. Good(WithFlow(p), p) /\ WithFlow(p)[i].last_seen = clock
    BY <2>1, FollowedOK
  <2>4. WithFlow(p)[i].state \in Judgements
    BY <2>1 DEF Judgements
  <2>5. Good(flows', p)
    BY <1>1, <2>1, <2>3, <2>4, SettledOK DEF Good
  <2>6. ~Unknown(p)
    BY <2>1, NewFlowWants
  <2>7. lwip'.at = "idle"
    BY <1>3, <1>4, <2>1 DEF Verdict
  <2> QED BY <1>9, <2>1, <2>2, <2>5, <2>6, <2>7
<1>11. CASE InspectNothingNew
  <2>0. PICK p \in Followed : \E i \in SlotsOf(WithFlow(p), p.conn) :
          LET f == WithFlow(p)[i]
              gap == p.lo < p.hi /\ Delta(p, f) > 0
              s == Unfinished(p, IF gap THEN "block" ELSE "inspecting")
          IN  /\ Inspecting(p) /\ f.state = "inspecting"
              /\ \/ p.lo = p.hi
                 \/ gap
                 \/ (f.next - SeqAt(p.conn, p.lo)) % SeqNumMod >= p.hi - p.lo
              /\ flows' = Settled(WithFlow(p), i, p, s)
              /\ Verdict(p, s)
    BY <1>11 DEF InspectNothingNew
  <2>1. PICK i \in SlotsOf(WithFlow(p), p.conn) :
          LET f == WithFlow(p)[i]
              gap == p.lo < p.hi /\ Delta(p, f) > 0
              s == Unfinished(p, IF gap THEN "block" ELSE "inspecting")
          IN  /\ Inspecting(p) /\ f.state = "inspecting"
              /\ \/ p.lo = p.hi
                 \/ gap
                 \/ (f.next - SeqAt(p.conn, p.lo)) % SeqNumMod >= p.hi - p.lo
              /\ flows' = Settled(WithFlow(p), i, p, s)
              /\ Verdict(p, s)
    BY <2>0
  <2> DEFINE s == Unfinished(p, IF p.lo < p.hi /\ Delta(p, WithFlow(p)[i]) > 0
                                THEN "block" ELSE "inspecting")
  <2>2. p = lwip.packet /\ p \in Inspected
    BY <2>1, InspectedPacket DEF Followed
  <2>3. Good(WithFlow(p), p) /\ WithFlow(p)[i].last_seen = clock
    BY <2>1, FollowedOK
  <2>4. s \in Judgements /\ flows' = Settled(WithFlow(p), i, p, s) /\ Verdict(p, s)
    BY <2>1 DEF Judgements, Unfinished
  <2> HIDE DEF s
  <2>5. Good(flows', p)
    BY <1>1, <2>1, <2>3, <2>4, SettledOK DEF Good
  <2>6. ~Unknown(p)
    <3>1. p.lo \in Int /\ p.hi \in Int
      BY <2>2, InspectedWindow
    <3> QED BY <2>1, <3>1, NewFlowWants
  <2>7. lwip'.at = "idle"
    BY <1>3, <1>4, <2>4 DEF Verdict
  <2> QED BY <1>9, <2>1, <2>2, <2>5, <2>6, <2>7
<1>12. CASE InspectData
  <2>0. PICK p \in Followed : \E i \in SlotsOf(WithFlow(p), p.conn) :
          LET f == WithFlow(p)[i]
              overlap == (f.next - SeqAt(p.conn, p.lo)) % SeqNumMod
          IN  /\ Inspecting(p) /\ flows' = WithFlow(p)
              /\ lwip' = [at |-> "feed", packet |-> p, rules |-> lwip.rules, slot |-> i,
                          from |-> p.lo + overlap, pos |-> p.lo + overlap]
    BY <1>12 DEF InspectData
  <2>1. PICK i \in SlotsOf(WithFlow(p), p.conn) :
          LET f == WithFlow(p)[i]
              overlap == (f.next - SeqAt(p.conn, p.lo)) % SeqNumMod
          IN  /\ Inspecting(p) /\ flows' = WithFlow(p)
              /\ lwip' = [at |-> "feed", packet |-> p, rules |-> lwip.rules, slot |-> i,
                          from |-> p.lo + overlap, pos |-> p.lo + overlap]
    BY <2>0
  <2> DEFINE from == p.lo + ((WithFlow(p)[i].next - SeqAt(p.conn, p.lo)) % SeqNumMod)
  <2>2. p = lwip.packet /\ p \in Inspected
    BY <2>1, InspectedPacket DEF Followed
  <2>3. Good(WithFlow(p), p)
    BY FollowedOK
  <2>4. RefusesWhenFull
    BY <2>1 DEF RefusesWhenFull, Dropped
  <2>5. from \in Int
    <3>1. WithFlow(p)[i].next \in Int
      <4>1. WithFlow(p)[i] = Free \/ FlowOK(WithFlow(p)[i])
        BY <2>3 DEF Good, TableOK, SlotsOf
      <4> QED BY <4>1 DEF SlotsOf, Free, FlowOK
    <3>2. p.lo \in Int /\ SeqAt(p.conn, p.lo) \in Int
      BY <2>2, InspectedWindow
    <3> DEFINE y == WithFlow(p)[i].next
               z == SeqAt(p.conn, p.lo)
    <3>3. y \in Int /\ z \in Int /\ SeqNumMod \in Nat \ {0}
      BY <3>1, <3>2, AccessFilterAssumption
    <3> HIDE DEF y, z
    <3>4. (y - z) % SeqNumMod \in Int
      BY <3>3
    <3> QED BY <3>2, <3>4 DEF y, z
  <2>6. lwip' = [at |-> "feed", packet |-> p, rules |-> lwip.rules, slot |-> i,
                 from |-> from, pos |-> from] /\ flows' = WithFlow(p) /\ clock' = clock
    <3>1. flows' = WithFlow(p) /\ clock' = clock
      BY <2>1
    <3>2. lwip' = [at |-> "feed", packet |-> p, rules |-> lwip.rules, slot |-> i,
                   from |-> from, pos |-> from]
      BY ONLY <2>1
    <3> QED BY <3>1, <3>2
  <2> HIDE DEF from
  <2>7. FeedOK'
    <3>1. p.kind = "tls" /\ ~Has(p, "RST") /\ ~Has(p, "SYN")
      BY DEF Followed, Inspected, Has
    <3> QED BY <2>5, <2>6, <3>1 DEF FeedOK, Has
  <2> QED BY <2>2, <2>3, <2>4, <2>6, <2>7
<1> QED BY <1>5, <1>6, <1>7, <1>8, <1>10, <1>11, <1>12 DEF Inspect

LEMMA LeastOfThree ==
  ASSUME NEW a \in Int, NEW b \in Int, NEW c \in Int
  PROVE  LET n == Min({a, b, c}) IN n \in {a, b, c} /\ n <= a /\ n <= b /\ n <= c
<1>1. \E n \in {a, b, c} : \A m \in {a, b, c} : n <= m
  <2>1. CASE a <= b /\ a <= c
    BY <2>1
  <2>2. CASE b <= a /\ b <= c
    BY <2>2
  <2>3. CASE c <= a /\ c <= b
    BY <2>3
  <2> QED BY <2>1, <2>2, <2>3
<1> QED BY <1>1 DEF Min

\* What is known of a flow changes, and not whose it is.
LEMMA AlteredOK ==
  ASSUME TableOK(flows), NEW i \in Slots, flows[i].state # "free",
         NEW g, FlowOK(g), g.conn = flows[i].conn,
         NEW t, t = [flows EXCEPT ![i] = g], NEW p
  PROVE  /\ TableOK(t) /\ Keeps(t, p)
         /\ t[i] = g /\ \A j \in Slots \ {i} : t[j] = flows[j]
<1>1. flows = [j \in Slots |-> flows[j]]
  BY DEF TableOK
<1>2. t = [j \in Slots |-> t[j]] /\ t[i] = g /\ \A j \in Slots \ {i} : t[j] = flows[j]
  BY <1>1
<1>3. g.state # "free"
  BY DEF FlowOK, Judgements
<1>4. \A j \in Slots : /\ t[j].conn = flows[j].conn
                      /\ t[j].state = "free" <=> flows[j].state = "free"
  BY <1>2, <1>3
<1>5. \A j \in Slots : t[j] = Free \/ FlowOK(t[j])
  BY <1>2 DEF TableOK
<1>6. Unique(t) /\ Keeps(t, p)
  BY <1>4 DEF TableOK, Unique, Keeps
<1> QED BY <1>2, <1>5, <1>6 DEF TableOK

\* Where the data goes.
LEMMA TheSlot ==
  ASSUME IInv, lwip.at = "feed"
  PROVE  /\ lwip.slot \in Slots /\ flows[lwip.slot].state # "free"
         /\ flows[lwip.slot].conn = lwip.packet.conn
         /\ FlowOK(flows[lwip.slot])
<1>1. lwip.slot \in SlotsOf(flows, lwip.packet.conn) /\ TableOK(flows)
  BY DEF IInv, LwipInv, FeedOK
<1>2. lwip.slot \in Slots /\ flows[lwip.slot].state # "free"
        /\ flows[lwip.slot].conn = lwip.packet.conn
  BY <1>1 DEF SlotsOf
<1>3. flows[lwip.slot] = Free \/ FlowOK(flows[lwip.slot])
  BY <1>1, <1>2 DEF TableOK
<1> QED BY <1>2, <1>3 DEF Free

\* The chunk a turn of the loop reads lies within the segment and the budget.
LEMMA ChunkRead ==
  ASSUME IInv, NEW p \in Feeding, Hungry(flows[lwip.slot], p)
  PROVE  LET n == Min({ChunkSize, p.hi - lwip.pos, StreamLimit - flows[lwip.slot].inspected})
         IN  /\ n \in Nat /\ lwip.pos + n <= p.hi
             /\ flows[lwip.slot].inspected + n \in 0..StreamLimit
<1> DEFINE x == p.hi - lwip.pos
           y == StreamLimit - flows[lwip.slot].inspected
           n == Min({ChunkSize, x, y})
<1>1. lwip.at = "feed" /\ p = lwip.packet
  BY DEF Feeding
<1>2. p.hi \in Int /\ lwip.pos \in Int /\ lwip.pos < p.hi
  BY <1>1 DEF IInv, LwipInv, WindowOK, FeedOK, Hungry
<1>3. StreamLimit \in Int /\ ChunkSize \in Nat
  BY AccessFilterAssumption
<1>4. flows[lwip.slot].inspected \in 0..StreamLimit
  BY <1>1, TheSlot DEF FlowOK
<1>5. x \in Nat /\ y \in Nat
  BY <1>2, <1>3, <1>4
<1>6. n \in {ChunkSize, x, y} /\ n <= x /\ n <= y
  <2>1. ChunkSize \in Int /\ x \in Int /\ y \in Int
    BY <1>3, <1>5
  <2> HIDE DEF x, y
  <2>2. LET m == Min({ChunkSize, x, y}) IN m \in {ChunkSize, x, y} /\ m <= x /\ m <= y
    BY <2>1, LeastOfThree
  <2> QED BY <2>2
<1>7. n \in Nat
  BY <1>3, <1>5, <1>6
<1> HIDE DEF n
<1>8. lwip.pos + n <= p.hi /\ flows[lwip.slot].inspected + n \in 0..StreamLimit
  BY <1>2, <1>3, <1>4, <1>6, <1>7
<1> QED BY <1>7, <1>8 DEF n

LEMMA ChunkStep ==
  ASSUME IInv, FeedChunk
  PROVE  /\ TableOK(flows') /\ Keeps(flows', lwip.packet) /\ LwipInv'
         /\ clock' = clock /\ lwip.at = "feed" /\ lwip'.at = "feed"
<1>1. PICK p \in Feeding :
        LET i == lwip.slot
            f == flows[i]
            n == Min({ChunkSize, p.hi - lwip.pos, StreamLimit - f.inspected})
            t == Feed(f.parser, SubSeq(Streams[f.conn], lwip.pos + 1, lwip.pos + n))
        IN  /\ Hungry(f, p)
            /\ flows' = [flows EXCEPT ![i] = [f EXCEPT !.parser = t.parser, !.inspected = @ + n,
                                                       !.state = Judged(t)]]
            /\ lwip' = [lwip EXCEPT !.pos = @ + n]
            /\ clock' = clock
  BY DEF FeedChunk
<1> DEFINE i == lwip.slot
           f == flows[i]
           n == Min({ChunkSize, p.hi - lwip.pos, StreamLimit - f.inspected})
           t == Feed(f.parser, SubSeq(Streams[f.conn], lwip.pos + 1, lwip.pos + n))
           s == Judged(t)
           parser == t.parser
           g == [f EXCEPT !.parser = parser, !.inspected = @ + n, !.state = s]
<1>2. lwip.at = "feed" /\ p = lwip.packet
  BY DEF Feeding
<1>3. n \in Nat /\ f.inspected + n \in 0..StreamLimit
  BY <1>1, ChunkRead
<1>4. /\ flows' = [flows EXCEPT ![i] = g]
      /\ lwip' = [lwip EXCEPT !.pos = @ + n] /\ clock' = clock
  <2>1. flows' = [flows EXCEPT ![i] = g]
    BY ONLY <1>1, Zenon
  <2>2. lwip' = [lwip EXCEPT !.pos = @ + n]
    BY ONLY <1>1
  <2>3. clock' = clock
    BY ONLY <1>1
  <2> QED BY <2>1, <2>2, <2>3
<1>5. s \in Judgements
  BY DEF Judged, Judgements
<1>6. FlowOK(f) /\ i \in Slots /\ f.state # "free" /\ f.conn = p.conn
  BY <1>2, TheSlot
<1> HIDE DEF n, s, parser
<1>7. g = [state |-> s, conn |-> f.conn, next |-> f.next, syn |-> f.syn,
           inspected |-> f.inspected + n, last_seen |-> f.last_seen, parser |-> parser]
  <2>1. f = [state |-> f.state, conn |-> f.conn, next |-> f.next, syn |-> f.syn,
             inspected |-> f.inspected, last_seen |-> f.last_seen, parser |-> f.parser]
    BY <1>6 DEF FlowOK
  <2> DEFINE read == f.inspected + n
  <2>2. g = [f EXCEPT !.parser = parser, !.inspected = read, !.state = s]
    OBVIOUS
  <2> HIDE DEF f, g, read
  <2>3. g = [state |-> s, conn |-> f.conn, next |-> f.next, syn |-> f.syn,
             inspected |-> read, last_seen |-> f.last_seen, parser |-> parser]
    BY <2>1, <2>2
  <2> QED BY <2>3 DEF read
<1>8. FlowOK(g) /\ g.conn = f.conn
  BY <1>3, <1>5, <1>6, <1>7 DEF FlowOK
<1>9. flows = [j \in Slots |-> flows[j]] /\ TableOK(flows)
  BY DEF IInv, TableOK
<1> HIDE DEF g
<1>11. /\ TableOK(flows') /\ Keeps(flows', p)
       /\ flows'[i] = g
  BY <1>4, <1>6, <1>8, <1>9, AlteredOK
<1>12. lwip = [at |-> "feed", packet |-> p, rules |-> lwip.rules, slot |-> i,
               from |-> lwip.from, pos |-> lwip.pos] /\ lwip.from \in Int /\ lwip.pos \in Int
  BY <1>2 DEF IInv, LwipInv, FeedOK
<1>13. lwip' = [at |-> "feed", packet |-> p, rules |-> lwip.rules, slot |-> i,
                from |-> lwip.from, pos |-> lwip.pos + n]
  <2> DEFINE r == lwip.rules
             from == lwip.from
             pos == lwip.pos
  <2> HIDE DEF i, r, from, pos
  <2>1. lwip' = [lwip EXCEPT !.pos = pos + n]
    BY <1>4 DEF pos
  <2>2. lwip = [at |-> "feed", packet |-> p, rules |-> r, slot |-> i, from |-> from, pos |-> pos]
    BY <1>12 DEF i, r, from, pos
  <2> QED BY <2>1, <2>2 DEF r, from, pos
<1>14. i \in SlotsOf(flows', p.conn)
  BY <1>5, <1>6, <1>7, <1>8, <1>11 DEF SlotsOf, Judgements, g
<1>15. LwipInv'
  <2>1. FeedOK'
    <3>1. p.kind = "tls" /\ ~Has(p, "RST") /\ ~Has(p, "SYN")
      BY <1>2 DEF IInv, LwipInv, FeedOK
    <3> QED BY <1>3, <1>12, <1>13, <1>14, <3>1 DEF FeedOK, Has
  <2>2. WindowOK(lwip'.packet)
    BY <1>2, <1>13 DEF IInv, LwipInv
  <2> QED BY <1>13, <2>1, <2>2 DEF LwipInv, WindowOK
<1> QED BY <1>2, <1>4, <1>11, <1>13, <1>15

LEMMA EndStep ==
  ASSUME IInv, FeedEnd
  PROVE  /\ TableOK(flows') /\ Keeps(flows', lwip.packet)
         /\ clock' = clock /\ lwip.at = "feed" /\ lwip'.at = "idle"
<1>1. PICK p \in Feeding : FeedEnd
  BY DEF FeedEnd
<1> DEFINE i == lwip.slot
           f == flows[i]
           s == Unfinished(p, IF f.state = "inspecting" /\ f.inspected >= StreamLimit
                              THEN "block" ELSE f.state)
           next == (f.next + p.hi - lwip.from) % SeqNumMod
           g == [f EXCEPT !.next = next]
           t == [flows EXCEPT ![i] = g]
<1>2. lwip.at = "feed" /\ p = lwip.packet
  BY DEF Feeding
<1>3. /\ flows' = Settled([flows EXCEPT ![i] = [@ EXCEPT !.next = next]], i, p, s)
      /\ Verdict(p, s) /\ clock' = clock
  BY <1>2 DEF FeedEnd, Feeding
<1>4. FlowOK(f) /\ i \in Slots /\ f.state # "free" /\ f.conn = p.conn
  BY <1>2, TheSlot
<1>5. s \in Judgements
  BY <1>4 DEF Unfinished, FlowOK, Judgements
<1>6. next \in Int
  <2>1. f.next \in Int /\ p.hi \in Int /\ lwip.from \in Int
    BY <1>2, <1>4 DEF FlowOK, IInv, LwipInv, WindowOK, FeedOK
  <2> DEFINE w == f.next
             y == p.hi
             z == lwip.from
  <2>2. w \in Int /\ y \in Int /\ z \in Int /\ SeqNumMod \in Nat \ {0}
    BY <2>1, AccessFilterAssumption
  <2> HIDE DEF w, y, z
  <2>3. (w + y - z) % SeqNumMod \in Int
    BY <2>2
  <2> QED BY <2>3 DEF w, y, z
<1> HIDE DEF s, next
<1>7. g = [state |-> f.state, conn |-> f.conn, next |-> next, syn |-> f.syn,
           inspected |-> f.inspected, last_seen |-> f.last_seen, parser |-> f.parser]
  <2>1. f = [state |-> f.state, conn |-> f.conn, next |-> f.next, syn |-> f.syn,
             inspected |-> f.inspected, last_seen |-> f.last_seen, parser |-> f.parser]
    BY <1>4 DEF FlowOK
  <2> HIDE DEF f
  <2> QED BY <2>1
<1>8. FlowOK(g) /\ g.conn = f.conn /\ g.state = f.state
  BY <1>4, <1>6, <1>7 DEF FlowOK
<1>9. flows = [j \in Slots |-> flows[j]] /\ TableOK(flows)
  BY DEF IInv, TableOK
<1>10. flows' = Settled(t, i, p, s)
  BY <1>3, <1>4, <1>9
<1>11. TableOK(t) /\ Keeps(t, p) /\ t[i] = g
  <2> HIDE DEF g
  <2> QED BY <1>4, <1>8, <1>9, AlteredOK
<1> HIDE DEF g, t
<1>12. i \in SlotsOf(t, p.conn)
  BY <1>4, <1>8, <1>11 DEF SlotsOf
<1>13. TableOK(flows') /\ Keeps(flows', p)
  BY <1>5, <1>10, <1>11, <1>12, SettledOK DEF IInv
<1>14. lwip'.at = "idle"
  BY <1>3 DEF Verdict, Drop, Forward, Resting
<1> QED BY <1>2, <1>3, <1>13, <1>14

---------------------------------------------------------------------------
(* The rules *)

\* What normalize_hostname accepts has the form of the rules.
LEMMA NormalIsName ==
  ASSUME NEW s \in Spellings, Normal[s] # None
  PROVE  Normal[s] \in Names
<1> DEFINE all == LabelsOf[s]
           labels == IF all[Len(all)] = EmptyLabel THEN SubSeq(all, 1, Len(all) - 1) ELSE all
<1>1. Normal[s] = IF labels = <<>> \/ \E i \in DOMAIN labels : Lower[labels[i]] = None THEN None
                  ELSE [i \in DOMAIN labels |-> Lower[labels[i]]]
  BY DEF Normal
<1>2. labels \in Seq(DOMAIN Lower)
  <2>1. all \in Seq(DOMAIN Lower) /\ all # <<>>
    BY BlockRulesAssumption
  <2>2. Len(all) \in Nat /\ \A i \in 1..Len(all) : all[i] \in DOMAIN Lower
    BY <2>1, LenProperties, ElementOfSeq
  <2>3. SubSeq(all, 1, Len(all) - 1) \in Seq(DOMAIN Lower)
    BY <2>1, <2>2, SubSeqProperties
  <2> QED BY <2>1, <2>3
<1> HIDE DEF labels
<1> DEFINE name == [i \in DOMAIN labels |-> Lower[labels[i]]]
           L == {Lower[l] : l \in DOMAIN Lower} \ {None}
<1>3. Normal[s] = name /\ \A i \in DOMAIN labels : Lower[labels[i]] # None
  BY <1>1
<1>4. DOMAIN labels = 1..Len(labels) /\ Len(labels) \in Nat
  BY <1>2, LenProperties
<1>5. \A i \in 1..Len(labels) : labels[i] \in DOMAIN Lower
  BY <1>2, ElementOfSeq
<1>6. \A i \in 1..Len(labels) : Lower[labels[i]] \in L
  BY <1>3, <1>4, <1>5
<1>7. name \in [1..Len(labels) -> L]
  BY <1>4, <1>6
<1>8. name \in Seq(L)
  BY <1>4, <1>7
<1> QED BY <1>3, <1>8 DEF Names

LEMMA RulesStep ==
  ASSUME RulesTypeOK, [Next]_vars
  PROVE  RulesTypeOK'
<1>1. CASE InstallRule
  <2>1. PICK c \in Commands : BlockTraffic(c[1], c[2])
    BY <1>1 DEF InstallRule
  <2> DEFINE ip == c[1]
             s == c[2]
  <2>2. ip \in Ips /\ (s \in Spellings \/ s = None)
    BY AccessFilterAssumption
  <2> HIDE DEF ip, s
  <2>3. CASE BlockAnswer(ip, s) = "ok"
    <3>1. /\ blockedIps'   = IF NewIp(ip) THEN Append(blockedIps, ip) ELSE blockedIps
          /\ blockedHosts' = IF NewHost(s) THEN Append(blockedHosts, Normal[s]) ELSE blockedHosts
      BY <2>1, <2>3 DEF BlockTraffic, Added, ip, s
    <3>2. NewHost(s) => Normal[s] \in Names
      <4>1. NewHost(s) => s \in Spellings /\ Normal[s] # None
        BY <2>2, <2>3 DEF NewHost, BlockAnswer
      <4> QED BY <4>1, NormalIsName
    <3>3. blockedIps' \in Seq(Ips)
      BY <2>2, <3>1, AppendProperties DEF RulesTypeOK
    <3>4. blockedHosts' \in Seq(Names)
      BY <3>1, <3>2, AppendProperties DEF RulesTypeOK
    <3> QED BY <3>3, <3>4 DEF RulesTypeOK
  <2>4. CASE BlockAnswer(ip, s) # "ok"
    BY <2>1, <2>4 DEF BlockTraffic, ruleVars, RulesTypeOK, ip, s
  <2> QED BY <2>3, <2>4
<1>2. CASE ~InstallRule
  <2>1. UNCHANGED ruleVars
    <3>1. CASE Receive \/ ReceiveExempt \/ Uninspected \/ FeedChunk \/ FeedEnd \/ Advance
      BY <3>1 DEF Receive, ReceiveExempt, Uninspected, FeedChunk, FeedEnd, Advance
    <3>2. CASE Inspect
      BY <3>2 DEF Inspect, InspectReset, InspectSyn, InspectEmpty, InspectRefused,
                  InspectDecided, InspectNothingNew, InspectData, Inspecting
    <3>3. CASE UNCHANGED vars
      BY <3>3 DEF vars
    <3> QED BY <1>2, <3>1, <3>2, <3>3 DEF Next
  <2> QED BY <2>1 DEF ruleVars, RulesTypeOK
<1> QED BY <1>1, <1>2

---------------------------------------------------------------------------
(* Sequence numbers *)

LEMMA Division ==
  ASSUME NEW m \in Nat \ {0}, NEW u \in Int
  PROVE  u = m * (u \div m) + (u % m) /\ u % m \in 0..m-1 /\ u \div m \in Int
OBVIOUS

LEMMA Remainder ==
  ASSUME NEW m \in Nat \ {0}, NEW r \in 0..m-1, NEW q \in Int
  PROVE  (m * q + r) % m = r
<1> DEFINE u == m * q + r
           d == u \div m
           e == u % m
<1>1. u \in Int
  OBVIOUS
<1>2. m * q + r = m * d + e /\ d \in Int /\ e \in 0..m-1
  BY <1>1, Division
<1> HIDE DEF d, e
<1>3. m * (q - d) = e - r
  BY <1>2
<1>4. q - d > 0 => m * (q - d) >= m
  BY <1>2
<1>5. q - d < 0 => m * (q - d) <= -m
  BY <1>2
<1>6. q = d
  BY <1>2, <1>3, <1>4, <1>5
<1>7. e = r
  BY <1>2, <1>6
<1> QED BY <1>7 DEF e

\* Adding to a sequence number is adding to the position.
LEMMA SeqOnward ==
  ASSUME NEW k \in Conns, NEW n \in Int, NEW d \in Int
  PROVE  (SeqAt(k, n) + d) % SeqNumMod = SeqAt(k, n + d)
<1> DEFINE m == SeqNumMod
           x == ISN[k] + 1 + n
           q == x \div m
           r == x % m
           w == r + d
           s == w \div m
           t == w % m
<1>1. m \in Nat \ {0} /\ x \in Int /\ ISN[k] \in Int
  BY AccessFilterAssumption
<1> HIDE DEF m
<1>2. x = m * q + r /\ r \in Int /\ q \in Int
  <2> HIDE DEF x
  <2> QED BY <1>1, Division
<1>3. w \in Int
  BY <1>2
<1>4. w = m * s + t /\ t \in 0..m-1 /\ s \in Int
  <2> HIDE DEF w
  <2> QED BY <1>1, <1>3, Division
<1>5. SeqAt(k, n) = r /\ SeqAt(k, n + d) = (x + d) % m
  <2>1. ISN[k] + 1 + (n + d) = x + d
    BY <1>1
  <2> QED BY <2>1 DEF SeqAt, m
<1> HIDE DEF x, q, r, s, t
<1>6. x + d = m * (q + s) + t
  BY <1>1, <1>2, <1>4
<1>7. (m * (q + s) + t) % m = t
  BY <1>1, <1>2, <1>4, Remainder
<1> QED BY <1>5, <1>6, <1>7 DEF m, t

\* The distance of two positions, one i before what is compared.
LEMMA SeqDistance ==
  ASSUME NEW k \in Conns, NEW n \in Int, NEW i \in Int, NEW d \in 0..SeqNumMod-1,
         NEW to, to = n + d + i
  PROVE  (SeqAt(k, to) - i - SeqAt(k, n)) % SeqNumMod = d
<1> DEFINE m == SeqNumMod
           x == ISN[k] + 1 + n
           u == x + d + i
           a == u \div m
           b == x \div m
           y == u % m
           z == x % m
<1>1. m \in Nat \ {0} /\ x \in Int /\ u \in Int /\ ISN[k] \in Int
  BY AccessFilterAssumption
<1> HIDE DEF m
<1>2. u = m * a + y /\ y \in Int /\ a \in Int
  <2> HIDE DEF u
  <2> QED BY <1>1, Division
<1>3. x = m * b + z /\ z \in Int /\ b \in Int
  <2> HIDE DEF x
  <2> QED BY <1>1, Division
<1>4. SeqAt(k, n) = z /\ SeqAt(k, to) = y
  <2>1. ISN[k] + 1 + to = u
    BY <1>1
  <2> QED BY <2>1 DEF SeqAt, m
<1> HIDE DEF a, b, x, y, z
<1>5. y - i - z = m * (b - a) + d
  BY <1>1, <1>2, <1>3
<1>6. (m * (b - a) + d) % m = d
  BY <1>1, <1>2, <1>3, Remainder DEF m
<1> QED BY <1>4, <1>5, <1>6 DEF m

\* Two positions of a short stream can be told apart, and put in order.
LEMMA SeqOrder ==
  ASSUME StreamsShort, NEW k \in Conns, Len(Streams[k]) \in Nat,
         NEW n \in 0..Len(Streams[k]), NEW lo \in 0..Len(Streams[k]), lo < Len(Streams[k]),
         Signed(SeqAt(k, lo), SeqAt(k, n)) <= 0
  PROVE  lo <= n /\ (SeqAt(k, n) - SeqAt(k, lo)) % SeqNumMod = n - lo
<1> DEFINE half == SeqNumMod \div 2
<1>1. SeqNumMod \in Nat \ {0} /\ half \in Nat /\ half < SeqNumMod
  BY AccessFilterAssumption
<1>2. Len(Streams[k]) <= half
  BY DEF StreamsShort
<1> HIDE DEF half
<1>3. \A x, y \in 0..Len(Streams[k]) : y <= x =>
        (SeqAt(k, x) - SeqAt(k, y)) % SeqNumMod = x - y
  <2> TAKE x, y \in 0..Len(Streams[k])
  <2> HAVE y <= x
  <2> DEFINE d == x - y
             sx == SeqAt(k, x)
             sy == SeqAt(k, y)
  <2>1. d \in 0..SeqNumMod-1 /\ x = y + d + 0 /\ y \in Int
    BY <1>1, <1>2
  <2>2. (SeqAt(k, x) - 0 - SeqAt(k, y)) % SeqNumMod = d
    <3> HIDE DEF d
    <3> QED BY <2>1, SeqDistance
  <2>3. sx \in Int /\ sy \in Int
    BY SeqNumber
  <2> HIDE DEF sx, sy
  <2>4. sx - 0 - sy = sx - sy
    BY <2>3
  <2> QED BY <2>2, <2>4 DEF sx, sy
<1>4. ASSUME lo > n PROVE FALSE
  <2> DEFINE d == (SeqAt(k, lo) - SeqAt(k, n)) % SeqNumMod
  <2>1. d = lo - n
    BY <1>3, <1>4
  <2> HIDE DEF d
  <2>2. d \in Int /\ d < half /\ d > 0
    BY <1>1, <1>2, <1>4, <2>1
  <2>3. Signed(SeqAt(k, lo), SeqAt(k, n)) = d
    BY <2>2 DEF Signed, d, half
  <2> QED BY <2>2, <2>3
<1> QED BY <1>3, <1>4

---------------------------------------------------------------------------
(* What a flow has read of its stream *)

\* What the parser makes of the stream of k from position a to position n.
ReadOf(k, a, n) == Feed(ParserInit, SubSeq(Streams[k], a + 1, n))

\* Flow f has read its stream from position a on, and nothing twice.
From(f, a) ==
  /\ a + f.inspected <= Len(Streams[f.conn])
  /\ f.syn # None => a = 0
  /\ f.parser = ReadOf(f.conn, a, a + f.inspected).parser
  /\ f.state = "inspecting" => ReadOf(f.conn, a, a + f.inspected).result = "need_more"

\* It waits for what follows, or is judged.
Anchored(f) ==
  \E a \in Nat : From(f, a) /\ (f.state = "inspecting" => f.next = SeqAt(f.conn, a + f.inspected))

AllAnchored(t) == \A i \in Slots : t[i].state # "free" => Anchored(t[i])

\* It is given a segment: the rest follows what it has read.
BeingFed(f) ==
  /\ lwip.pos <= lwip.packet.hi
  /\ f.next = SeqAt(f.conn, lwip.from)
  /\ \E a \in Nat : From(f, a) /\ lwip.pos = a + f.inspected

SInv ==
  \A i \in Slots : flows[i].state # "free" =>
    IF lwip.at = "feed" /\ i = lwip.slot THEN BeingFed(flows[i]) ELSE Anchored(flows[i])

LEMMA StreamLength ==
  ASSUME NEW k \in Conns
  PROVE  Len(Streams[k]) \in Nat
<1>1. Streams[k] \in Seq({Streams[k][i] : i \in DOMAIN Streams[k]})
  BY AccessFilterAssumption
<1> QED BY <1>1, LenProperties

\* Nothing changes by being seen, and a judgement takes nothing back.
LEMMA SameReading ==
  ASSUME NEW f, NEW g, Anchored(f), g.conn = f.conn, g.next = f.next, g.syn = f.syn,
         g.inspected = f.inspected, g.parser = f.parser,
         g.state = "inspecting" => f.state = "inspecting"
  PROVE  Anchored(g)
BY DEF Anchored, From

LEMMA UnexpiredAnchored ==
  ASSUME AllAnchored(flows), NEW k
  PROVE  AllAnchored(Unexpired) /\ AllAnchored(Cleared(Unexpired, k))
<1>1. Free.state = "free"
  BY DEF Free
<1> QED BY <1>1, OnlyTaken DEF AllAnchored

\* Being seen changes nothing else of a flow.
LEMMA TouchedFields ==
  ASSUME NEW t, TableOK(t), NEW k, NEW i \in Slots
  PROVE  LET g == Touched(t, k)[i]
         IN  /\ g.state = t[i].state /\ g.conn = t[i].conn /\ g.next = t[i].next
             /\ g.syn = t[i].syn /\ g.inspected = t[i].inspected /\ g.parser = t[i].parser
<1> DEFINE f == t[i]
           g == Touched(t, k)[i]
<1>1. CASE i \in SlotsOf(t, k)
  <2>1. g = [f EXCEPT !.last_seen = clock]
    BY <1>1 DEF Touched
  <2>2. f.state # "free" /\ (f = Free \/ FlowOK(f))
    BY <1>1 DEF SlotsOf, TableOK
  <2>3. f = [state |-> f.state, conn |-> f.conn, next |-> f.next, syn |-> f.syn,
             inspected |-> f.inspected, last_seen |-> f.last_seen, parser |-> f.parser]
    BY <2>2 DEF Free, FlowOK
  <2> HIDE DEF f, g
  <2>4. g = [state |-> f.state, conn |-> f.conn, next |-> f.next, syn |-> f.syn,
             inspected |-> f.inspected, last_seen |-> clock, parser |-> f.parser]
    BY <2>1, <2>3
  <2> QED BY <2>4 DEF f, g
<1>2. CASE i \notin SlotsOf(t, k)
  BY <1>2 DEF Touched
<1> QED BY <1>1, <1>2

LEMMA CreatedFields ==
  ASSUME NEW t, TableOK(t), FreeSlots(t) # {}, NEW k, NEW next, NEW syn
  PROVE  LET u == Created(t, k, next, syn)
         IN  /\ FreeSlot(t) \in Slots /\ u[FreeSlot(t)] = NewFlow(k, next, syn)
             /\ \A i \in Slots \ {FreeSlot(t)} : u[i] = t[i]
<1> DEFINE u == Created(t, k, next, syn)
           at == FreeSlot(t)
           new == NewFlow(k, next, syn)
<1>1. at \in Slots
  BY DEF FreeSlot, FreeSlots
<1>2. t = [i \in Slots |-> t[i]]
  BY DEF TableOK
<1> HIDE DEF at, new
<1>3. u = [t EXCEPT ![at] = new]
  BY DEF at, new, Created
<1> HIDE DEF u
<1> QED BY <1>1, <1>2, <1>3 DEF u, at, new

LEMMA SettledFields ==
  ASSUME NEW t, TableOK(t), NEW i \in Slots, FlowOK(t[i]), NEW p, NEW s
  PROVE  LET u == Settled(t, i, p, s)
             f == t[i]
             g == u[i]
         IN  /\ IF Has(p, "FIN") THEN g = Free
                ELSE g = [state |-> s, conn |-> f.conn, next |-> f.next, syn |-> f.syn,
                          inspected |-> f.inspected, last_seen |-> f.last_seen,
                          parser |-> f.parser]
             /\ \A j \in Slots \ {i} : u[j] = t[j]
<1> DEFINE u == Settled(t, i, p, s)
           f == t[i]
           g == [f EXCEPT !.state = s]
<1>1. t = [j \in Slots |-> t[j]]
  BY DEF TableOK
<1>2. /\ u[i] = IF Has(p, "FIN") THEN Free ELSE g
      /\ \A j \in Slots \ {i} : u[j] = t[j]
  <2>1. u = [t EXCEPT ![i] = IF Has(p, "FIN") THEN Free ELSE g]
    BY DEF Settled
  <2> HIDE DEF g
  <2> QED BY <1>1, <2>1
<1>3. g = [state |-> s, conn |-> f.conn, next |-> f.next, syn |-> f.syn,
           inspected |-> f.inspected, last_seen |-> f.last_seen, parser |-> f.parser]
  <2>1. f = [state |-> f.state, conn |-> f.conn, next |-> f.next, syn |-> f.syn,
             inspected |-> f.inspected, last_seen |-> f.last_seen, parser |-> f.parser]
    BY DEF FlowOK
  <2> HIDE DEF f
  <2> QED BY <2>1
<1> HIDE DEF g, u
<1> QED BY <1>2, <1>3 DEF u

LEMMA TouchedAnchored ==
  ASSUME NEW t, TableOK(t), AllAnchored(t), NEW k
  PROVE  AllAnchored(Touched(t, k))
<1> DEFINE u == Touched(t, k)
<1> SUFFICES ASSUME NEW i \in Slots, u[i].state # "free"
             PROVE  Anchored(u[i])
  BY DEF AllAnchored
<1>1. t[i].state # "free"
  BY TouchedFields
<1>2. Anchored(t[i])
  BY <1>1 DEF AllAnchored
<1> QED BY <1>2, TouchedFields, SameReading

LEMMA CreatedAnchored ==
  ASSUME ParserGoesOn, NEW t, TableOK(t), AllAnchored(t), FreeSlots(t) # {},
         NEW k \in Conns, NEW n \in 0..Len(Streams[k]), NEW syn, syn # None => n = 0
  PROVE  AllAnchored(Created(t, k, SeqAt(k, n), syn))
<1> DEFINE u == Created(t, k, SeqAt(k, n), syn)
           at == FreeSlot(t)
           new == NewFlow(k, SeqAt(k, n), syn)
<1>1. u[at] = new /\ \A i \in Slots \ {at} : u[i] = t[i]
  BY CreatedFields
<1>2. ReadOf(k, n, n).parser = ParserInit /\ ReadOf(k, n, n).result = "need_more"
  <2>1. Len(Streams[k]) \in Nat
    BY StreamLength
  <2> QED BY <2>1 DEF ParserGoesOn, ReadOf
<1>3. Anchored(new)
  <2>1. /\ new.state = "inspecting" /\ new.conn = k /\ new.next = SeqAt(k, n) /\ new.syn = syn
        /\ new.inspected = 0 /\ new.parser = ParserInit
    BY DEF NewFlow
  <2>2. n \in Nat /\ n + 0 = n /\ n <= Len(Streams[k])
    BY StreamLength
  <2> HIDE DEF new
  <2>3. From(new, n)
    BY <1>2, <2>1, <2>2 DEF From
  <2> QED BY <2>1, <2>2, <2>3 DEF Anchored
<1> HIDE DEF u, at, new
<1>4. AllAnchored(u)
  BY <1>1, <1>3 DEF AllAnchored
<1> QED BY <1>4 DEF u

LEMMA SettledAnchored ==
  ASSUME NEW t, TableOK(t), NEW i \in Slots, NEW p, NEW s,
         \A j \in Slots \ {i} : t[j].state # "free" => Anchored(t[j]),
         FlowOK(t[i]), s = "inspecting" => t[i].state = "inspecting" /\ Anchored(t[i]),
         s # "inspecting" => \E a \in Nat : From(t[i], a)
  PROVE  AllAnchored(Settled(t, i, p, s))
<1> DEFINE u == Settled(t, i, p, s)
           f == t[i]
           g == [state |-> s, conn |-> f.conn, next |-> f.next, syn |-> f.syn,
                 inspected |-> f.inspected, last_seen |-> f.last_seen, parser |-> f.parser]
<1>1. u[i] = (IF Has(p, "FIN") THEN Free ELSE g) /\ \A j \in Slots \ {i} : u[j] = t[j]
  BY SettledFields
<1>2. Anchored(g)
  <2>1. CASE s = "inspecting"
    <3>1. Anchored(f) /\ f.state = "inspecting"
      BY <2>1
    <3> HIDE DEF f
    <3> QED BY <3>1, SameReading
  <2>2. CASE s # "inspecting"
    <3>1. PICK a \in Nat : From(f, a)
      BY <2>2
    <3> HIDE DEF f
    <3>2. From(g, a) /\ g.state # "inspecting"
      BY <2>2, <3>1 DEF From
    <3> HIDE DEF g
    <3> QED BY <3>2 DEF Anchored
  <2> QED BY <2>1, <2>2
<1>3. Free.state = "free"
  BY DEF Free
<1> HIDE DEF u, f, g
<1>4. AllAnchored(u)
  BY <1>1, <1>2, <1>3 DEF AllAnchored
<1> QED BY <1>4 DEF u

LEMMA FollowedAnchored ==
  ASSUME ParserGoesOn, IInv, AllAnchored(flows), NEW p \in Followed
  PROVE  AllAnchored(WithFlow(p))
<1>1. TableOK(Unexpired) /\ AllAnchored(Unexpired)
  BY UnexpiredOK, UnexpiredAnchored DEF Good
<1>2. p.conn \in Conns /\ p.lo \in 0..Len(Streams[p.conn])
  <2>1. WindowOK(p)
    BY InspectedWindow DEF Followed
  <2> QED BY <2>1, StreamLength DEF WindowOK
<1>3. Unknown(p) => FreeSlots(Unexpired) # {}
  BY DEF Followed
<1> QED BY <1>1, <1>2, <1>3, CreatedAnchored, TouchedAnchored DEF WithFlow

\* The flow of a segment, and what is known of it.
LEMMA FollowedFlow ==
  ASSUME ParserGoesOn, IInv, AllAnchored(flows), NEW p \in Followed,
         NEW i \in SlotsOf(WithFlow(p), p.conn)
  PROVE  /\ i \in Slots /\ WithFlow(p)[i].state # "free" /\ WithFlow(p)[i].conn = p.conn
         /\ FlowOK(WithFlow(p)[i]) /\ Anchored(WithFlow(p)[i])
         /\ TableOK(WithFlow(p)) /\ AllAnchored(WithFlow(p))
<1>1. TableOK(WithFlow(p)) /\ AllAnchored(WithFlow(p))
  BY FollowedOK, FollowedAnchored DEF Good
<1>2. i \in Slots /\ WithFlow(p)[i].state # "free" /\ WithFlow(p)[i].conn = p.conn
  BY DEF SlotsOf
<1>3. WithFlow(p)[i] = Free \/ FlowOK(WithFlow(p)[i])
  BY <1>1, <1>2 DEF TableOK
<1> QED BY <1>1, <1>2, <1>3 DEF Free, AllAnchored

LEMMA FollowedSettled ==
  ASSUME ParserGoesOn, IInv, AllAnchored(flows), NEW p \in Followed,
         NEW i \in SlotsOf(WithFlow(p), p.conn),
         NEW s, s = "inspecting" => WithFlow(p)[i].state = "inspecting"
  PROVE  AllAnchored(Settled(WithFlow(p), i, p, s))
<1> DEFINE t == WithFlow(p)
<1>1. /\ i \in Slots /\ FlowOK(t[i]) /\ Anchored(t[i]) /\ TableOK(t) /\ AllAnchored(t)
  BY FollowedFlow
<1>2. s = "inspecting" => t[i].state = "inspecting"
  OBVIOUS
<1> HIDE DEF t
<1>3. \A j \in Slots \ {i} : t[j].state # "free" => Anchored(t[j])
  BY <1>1 DEF AllAnchored
<1>4. \E a \in Nat : From(t[i], a)
  BY <1>1 DEF Anchored
<1>5. AllAnchored(Settled(t, i, p, s))
  BY <1>1, <1>2, <1>3, <1>4, SettledAnchored
<1> QED BY <1>5 DEF t

\* Between packets every flow waits for what follows what it has read.
LEMMA Between ==
  ASSUME SInv, lwip.at # "feed"
  PROVE  AllAnchored(flows)
BY DEF SInv, AllAnchored

\* The loop begins with a segment that reaches beyond what the flow in slot i has read
\* from position a on, and goes on from there.
DataOf(p, i, a) ==
  LET f == WithFlow(p)[i]
      n == a + f.inspected
  IN  /\ From(f, a) /\ f.next = SeqAt(f.conn, n) /\ f.state = "inspecting" /\ f.conn = p.conn
      /\ p.lo <= n /\ n < p.hi
      /\ flows' = WithFlow(p)
      /\ lwip' = [at |-> "feed", packet |-> p, rules |-> lwip.rules, slot |-> i,
                  from |-> n, pos |-> n]

LEMMA DataFollows ==
  ASSUME ParserGoesOn, StreamsShort, IInv, AllAnchored(flows), InspectData
  PROVE  \E p \in Followed : \E i \in SlotsOf(WithFlow(p), p.conn) : \E a \in Nat : DataOf(p, i, a)
<1>1. PICK p \in Followed : \E i \in SlotsOf(WithFlow(p), p.conn) :
        LET f == WithFlow(p)[i]
            overlap == (f.next - SeqAt(p.conn, p.lo)) % SeqNumMod
        IN  /\ f.state = "inspecting"
            /\ p.lo < p.hi /\ Delta(p, f) <= 0
            /\ overlap < p.hi - p.lo
            /\ flows' = WithFlow(p)
            /\ lwip' = [at |-> "feed", packet |-> p, rules |-> lwip.rules, slot |-> i,
                        from |-> p.lo + overlap, pos |-> p.lo + overlap]
  BY DEF InspectData
<1>2. PICK i \in SlotsOf(WithFlow(p), p.conn) :
        LET f == WithFlow(p)[i]
            overlap == (f.next - SeqAt(p.conn, p.lo)) % SeqNumMod
        IN  /\ f.state = "inspecting"
            /\ p.lo < p.hi /\ Delta(p, f) <= 0
            /\ overlap < p.hi - p.lo
            /\ flows' = WithFlow(p)
            /\ lwip' = [at |-> "feed", packet |-> p, rules |-> lwip.rules, slot |-> i,
                        from |-> p.lo + overlap, pos |-> p.lo + overlap]
  BY <1>1
<1> DEFINE k == p.conn
           f == WithFlow(p)[i]
           overlap == (f.next - SeqAt(k, p.lo)) % SeqNumMod
           from == p.lo + overlap
<1>3. /\ f.state = "inspecting" /\ p.lo < p.hi
      /\ Signed(SeqAt(k, p.lo), f.next) <= 0
      /\ overlap < p.hi - p.lo /\ flows' = WithFlow(p)
  BY <1>2 DEF Delta
<1>4. lwip' = [at |-> "feed", packet |-> p, rules |-> lwip.rules, slot |-> i,
               from |-> from, pos |-> from]
  BY <1>2
<1>5. f.conn = k /\ Anchored(f) /\ FlowOK(f) /\ AllAnchored(WithFlow(p))
  BY FollowedFlow
<1>6. /\ k \in Conns /\ Len(Streams[k]) \in Nat
      /\ p.lo \in Nat /\ p.hi \in Nat /\ p.hi <= Len(Streams[k])
  <2>1. WindowOK(p)
    BY InspectedWindow DEF Followed
  <2> QED BY <2>1, StreamLength DEF WindowOK
<1> HIDE DEF f, from
<1>7. PICK a \in Nat : From(f, a) /\ f.next = SeqAt(k, a + f.inspected)
  BY <1>3, <1>5 DEF Anchored
<1> DEFINE n == a + f.inspected
<1>8. n \in 0..Len(Streams[k]) /\ f.next = SeqAt(k, n)
  <2>1. f.inspected \in Nat
    BY <1>5, AccessFilterAssumption DEF FlowOK
  <2> QED BY <1>5, <1>6, <1>7, <2>1 DEF From
<1> HIDE DEF n
<1>9. overlap = n - p.lo /\ p.lo <= n
  <2>1. p.lo \in 0..Len(Streams[k]) /\ p.lo < Len(Streams[k])
    BY <1>3, <1>6
  <2>2. Signed(SeqAt(k, p.lo), SeqAt(k, n)) <= 0
    BY <1>3, <1>8
  <2> HIDE DEF k
  <2> QED BY <1>6, <1>8, <2>1, <2>2, SeqOrder
<1>10. from = n /\ p.lo <= n /\ n < p.hi
  <2> HIDE DEF overlap
  <2> QED BY <1>3, <1>6, <1>8, <1>9 DEF from
<1> HIDE DEF overlap
<1>11. DataOf(p, i, a)
  BY <1>3, <1>4, <1>5, <1>7, <1>10 DEF DataOf, f, n
<1> QED BY <1>11

\* So it is what follows.
LEMMA DataReading ==
  ASSUME ParserGoesOn, StreamsShort, IInv, AllAnchored(flows), InspectData
  PROVE  SInv'
<1>1. PICK p \in Followed : \E i \in SlotsOf(WithFlow(p), p.conn) :
        \E a \in Nat : DataOf(p, i, a)
  BY DataFollows
<1>2. PICK i \in SlotsOf(WithFlow(p), p.conn), a \in Nat : DataOf(p, i, a)
  BY <1>1
<1>3. AllAnchored(WithFlow(p))
  BY FollowedFlow
<1>4. BeingFed(flows[i])'
  <2> DEFINE f == WithFlow(p)[i]
             n == a + f.inspected
  <2>1. From(f, a) /\ f.next = SeqAt(f.conn, n) /\ n < p.hi /\ flows' = WithFlow(p)
        /\ lwip' = [at |-> "feed", packet |-> p, rules |-> lwip.rules, slot |-> i,
                    from |-> n, pos |-> n]
    BY <1>2 DEF DataOf
  <2>2. flows'[i] = f /\ lwip'.pos = n /\ lwip'.from = n /\ lwip'.packet.hi = p.hi
    BY <2>1
  <2>3. n \in Int /\ p.hi \in Int
    <3>1. FlowOK(f) /\ WindowOK(p)
      BY FollowedFlow, InspectedWindow DEF Followed
    <3> QED BY <3>1, AccessFilterAssumption DEF FlowOK, WindowOK
  <2>4. n <= p.hi
    <3> HIDE DEF n
    <3> QED BY <2>1, <2>3
  <2> HIDE DEF f
  <2> QED BY <2>1, <2>2, <2>4 DEF BeingFed
<1>5. \A j \in Slots \ {i} : flows'[j].state # "free" => Anchored(flows'[j])
  BY <1>2, <1>3 DEF DataOf, AllAnchored
<1> QED BY <1>2, <1>4, <1>5 DEF DataOf, SInv

LEMMA InspectReading ==
  ASSUME ParserGoesOn, StreamsShort, IInv, SInv, Inspect
  PROVE  SInv'
<1>1. lwip.at = "rules"
  BY InspectedPacket DEF Inspect, InspectReset, InspectSyn, InspectEmpty,
     InspectRefused, InspectDecided, InspectNothingNew, InspectData, Followed
<1>2. AllAnchored(flows) /\ AllAnchored(Unexpired) /\ TableOK(Unexpired)
  BY <1>1, Between, UnexpiredAnchored, UnexpiredOK DEF Good
<1>3. ASSUME AllAnchored(flows'), lwip'.at # "feed" PROVE SInv'
  BY <1>3 DEF AllAnchored, SInv
<1>4. ASSUME NEW p, Forward(p) PROVE lwip'.at # "feed"
  BY <1>4 DEF Forward, Resting
<1>5. Drop => lwip'.at # "feed"
  BY DEF Drop, Resting
<1>6. CASE InspectReset
  <2>1. PICK p \in Inspected : flows' = Cleared(Unexpired, p.conn) /\ Forward(p)
    BY <1>6 DEF InspectReset
  <2> QED BY <1>2, <1>3, <1>4, <2>1, UnexpiredAnchored
<1>7. CASE InspectSyn
  <2>1. PICK p \in Inspected :
          LET again == Resent(Unexpired, p.conn)
              table == IF again THEN Unexpired ELSE Cleared(Unexpired, p.conn)
          IN  /\ Has(p, "SYN")
              /\ IF again THEN flows' = Touched(table, p.conn) /\ Forward(p)
                 ELSE IF FreeSlots(table) # {}
                 THEN flows' = Created(table, p.conn, SeqAt(p.conn, 0), ISN[p.conn]) /\ Forward(p)
                 ELSE flows' = table /\ Drop
    BY <1>7 DEF InspectSyn
  <2> DEFINE k == p.conn
             cleared == Cleared(Unexpired, k)
  <2>2. TableOK(cleared) /\ AllAnchored(cleared)
    <3>1. p.flags # {} /\ Good(Unexpired, p)
      BY <2>1, UnexpiredOK DEF Has
    <3> QED BY <1>2, <3>1, ClearedOK, UnexpiredAnchored DEF Good
  <2>3. k \in Conns /\ 0 \in 0..Len(Streams[k])
    BY InspectedWindow, StreamLength
  <2>4. CASE Resent(Unexpired, k)
    <3>1. flows' = Touched(Unexpired, k) /\ Forward(p)
      BY <2>1, <2>4
    <3> QED BY <1>2, <1>3, <1>4, <3>1, TouchedAnchored
  <2>5. CASE ~Resent(Unexpired, k) /\ FreeSlots(cleared) # {}
    <3>1. flows' = Created(cleared, k, SeqAt(k, 0), ISN[k]) /\ Forward(p)
      BY <2>1, <2>5
    <3>2. AllAnchored(Created(cleared, k, SeqAt(k, 0), ISN[k]))
      <4> HIDE DEF cleared, k
      <4> QED BY <2>2, <2>3, <2>5, CreatedAnchored
    <3> QED BY <1>3, <1>4, <3>1, <3>2
  <2>6. CASE ~Resent(Unexpired, k) /\ ~(FreeSlots(cleared) # {})
    <3>1. flows' = cleared /\ Drop
      BY <2>1, <2>6
    <3> QED BY <1>3, <1>5, <2>2, <3>1
  <2> QED BY <2>4, <2>5, <2>6
<1>8. CASE InspectEmpty
  BY <1>2, <1>3, <1>4, <1>8 DEF InspectEmpty
<1>9. CASE InspectRefused
  BY <1>2, <1>3, <1>5, <1>9 DEF InspectRefused
<1>10. CASE InspectDecided
  <2>1. PICK p \in Followed : \E i \in SlotsOf(WithFlow(p), p.conn) :
          LET f == WithFlow(p)[i]
          IN  flows' = Settled(WithFlow(p), i, p, f.state) /\ Verdict(p, f.state)
    BY <1>10 DEF InspectDecided
  <2>2. PICK i \in SlotsOf(WithFlow(p), p.conn) :
          LET f == WithFlow(p)[i]
          IN  flows' = Settled(WithFlow(p), i, p, f.state) /\ Verdict(p, f.state)
    BY <2>1
  <2>3. AllAnchored(flows')
    BY <1>2, <2>2, FollowedSettled
  <2> QED BY <1>3, <1>4, <1>5, <2>2, <2>3 DEF Verdict
<1>11. CASE InspectNothingNew
  <2>1. PICK p \in Followed : \E i \in SlotsOf(WithFlow(p), p.conn) :
          LET f == WithFlow(p)[i]
              gap == p.lo < p.hi /\ Delta(p, f) > 0
              s == Unfinished(p, IF gap THEN "block" ELSE "inspecting")
          IN  /\ f.state = "inspecting"
              /\ flows' = Settled(WithFlow(p), i, p, s)
              /\ Verdict(p, s)
    BY <1>11 DEF InspectNothingNew
  <2>2. PICK i \in SlotsOf(WithFlow(p), p.conn) :
          LET f == WithFlow(p)[i]
              gap == p.lo < p.hi /\ Delta(p, f) > 0
              s == Unfinished(p, IF gap THEN "block" ELSE "inspecting")
          IN  /\ f.state = "inspecting"
              /\ flows' = Settled(WithFlow(p), i, p, s)
              /\ Verdict(p, s)
    BY <2>1
  <2> DEFINE s == Unfinished(p, IF p.lo < p.hi /\ Delta(p, WithFlow(p)[i]) > 0
                                THEN "block" ELSE "inspecting")
  <2>3. /\ WithFlow(p)[i].state = "inspecting"
        /\ flows' = Settled(WithFlow(p), i, p, s) /\ Verdict(p, s)
    BY <2>2
  <2> HIDE DEF s
  <2>4. AllAnchored(flows')
    BY <1>2, <2>3, FollowedSettled
  <2> QED BY <1>3, <1>4, <1>5, <2>3, <2>4 DEF Verdict
<1>12. CASE InspectData
  BY <1>2, <1>12, DataReading
<1> QED BY <1>6, <1>7, <1>8, <1>9, <1>10, <1>11, <1>12 DEF Inspect

\* The flow that is fed.
LEMMA FedFlow ==
  ASSUME IInv, SInv, lwip.at = "feed"
  PROVE  /\ BeingFed(flows[lwip.slot])
         /\ \A j \in Slots \ {lwip.slot} : flows[j].state # "free" => Anchored(flows[j])
BY TheSlot DEF SInv

\* A turn of the loop takes the flow, which began at position a, on by n units.
TurnOf(a, n) ==
  LET i == lwip.slot
      f == flows[i]
      t == ReadOf(f.conn, a, lwip.pos + n)
  IN  /\ From(f, a) /\ lwip.pos = a + f.inspected /\ f.state = "inspecting"
      /\ lwip.pos + n <= lwip.packet.hi
      /\ flows'[i] = [state |-> Judged(t), conn |-> f.conn, next |-> f.next, syn |-> f.syn,
                      inspected |-> f.inspected + n, last_seen |-> f.last_seen,
                      parser |-> t.parser]
      /\ \A j \in Slots \ {i} : flows'[j] = flows[j]
      /\ lwip' = [at |-> "feed", packet |-> lwip.packet, rules |-> lwip.rules, slot |-> i,
                  from |-> lwip.from, pos |-> lwip.pos + n]

\* The chunk is what comes next, and the parser goes on with it.
LEMMA ChunkTurns ==
  ASSUME ParserGoesOn, IInv, SInv, FeedChunk
  PROVE  \E a \in Nat, n \in Nat : TurnOf(a, n)
<1>1. PICK p \in Feeding :
        LET i == lwip.slot
            f == flows[i]
            n == Min({ChunkSize, p.hi - lwip.pos, StreamLimit - f.inspected})
            t == Feed(f.parser, SubSeq(Streams[f.conn], lwip.pos + 1, lwip.pos + n))
        IN  /\ Hungry(f, p)
            /\ flows' = [flows EXCEPT ![i] = [f EXCEPT !.parser = t.parser, !.inspected = @ + n,
                                                       !.state = Judged(t)]]
            /\ lwip' = [lwip EXCEPT !.pos = @ + n]
  BY DEF FeedChunk
<1> DEFINE i == lwip.slot
           f == flows[i]
           k == f.conn
           n == Min({ChunkSize, p.hi - lwip.pos, StreamLimit - f.inspected})
           t == Feed(f.parser, SubSeq(Streams[k], lwip.pos + 1, lwip.pos + n))
           g == [f EXCEPT !.parser = t.parser, !.inspected = @ + n, !.state = Judged(t)]
<1>2. lwip.at = "feed" /\ p = lwip.packet
  BY DEF Feeding
<1>3. n \in Nat /\ lwip.pos + n <= p.hi
  BY <1>1, ChunkRead
<1>4. f.state = "inspecting" /\ FlowOK(f) /\ i \in Slots /\ k = p.conn
  BY <1>1, <1>2, TheSlot DEF Hungry
<1>5. flows' = [flows EXCEPT ![i] = g]
  BY <1>1, Zenon
<1>6. lwip' = [at |-> "feed", packet |-> p, rules |-> lwip.rules, slot |-> i,
               from |-> lwip.from, pos |-> lwip.pos + n]
  <2>1. lwip = [at |-> "feed", packet |-> p, rules |-> lwip.rules, slot |-> i,
                from |-> lwip.from, pos |-> lwip.pos]
    BY <1>2 DEF IInv, LwipInv, FeedOK
  <2> DEFINE r == lwip.rules
             from == lwip.from
             pos == lwip.pos
  <2>2. lwip' = [lwip EXCEPT !.pos = @ + n]
    BY <1>1, Zenon
  <2> HIDE DEF n, i, r, from, pos
  <2>3. lwip' = [lwip EXCEPT !.pos = pos + n]
    BY <2>2 DEF pos
  <2>4. lwip = [at |-> "feed", packet |-> p, rules |-> r, slot |-> i, from |-> from, pos |-> pos]
    BY <2>1 DEF i, r, from, pos
  <2> QED BY <2>3, <2>4 DEF r, from, pos
<1>7. PICK a \in Nat : From(f, a) /\ lwip.pos = a + f.inspected
  BY <1>2, FedFlow DEF BeingFed
<1> HIDE DEF n
<1> DEFINE b == a + f.inspected
           c == a + (f.inspected + n)
<1>9. /\ k \in Conns /\ a \in 0..Len(Streams[k]) /\ b \in 0..Len(Streams[k])
      /\ c \in 0..Len(Streams[k]) /\ a <= b /\ b <= c /\ c = lwip.pos + n
      /\ p.hi <= Len(Streams[k])
  <2>1. p.hi \in Nat /\ p.hi <= Len(Streams[k]) /\ k \in Conns
    BY <1>2, <1>4 DEF IInv, LwipInv, WindowOK
  <2>2. f.inspected \in Nat /\ Len(Streams[k]) \in Nat
    BY <1>4, <2>1, StreamLength, AccessFilterAssumption DEF FlowOK
  <2> DEFINE L == Len(Streams[k])
             r == f.inspected
  <2>3. L \in Nat /\ r \in Nat /\ p.hi \in Nat /\ p.hi <= L /\ lwip.pos = a + r
    BY <1>7, <2>1, <2>2
  <2> HIDE DEF L, r
  <2>4. /\ a \in 0..L /\ a + r \in 0..L /\ a + (r + n) \in 0..L
        /\ a <= a + r /\ a + r <= a + (r + n) /\ a + (r + n) = lwip.pos + n
    BY <1>3, <2>3
  <2> QED BY <2>1, <2>4 DEF L, r
<1>10. ReadOf(k, a, b).parser = f.parser /\ ReadOf(k, a, b).result = "need_more"
  BY <1>4, <1>7 DEF From
<1>11. t = Feed(f.parser, SubSeq(Streams[k], b + 1, c))
  BY <1>7, <1>9
<1> HIDE DEF b, c
<1>12. /\ t.parser = ReadOf(k, a, c).parser /\ t.result = ReadOf(k, a, c).result
       /\ t.host = ReadOf(k, a, c).host
  <2> DEFINE part == ReadOf(k, a, b)
             both == ReadOf(k, a, c)
             onward == Feed(part.parser, SubSeq(Streams[k], b + 1, c))
  <2>1. part.result = "need_more" =>
          onward.parser = both.parser /\ onward.result = both.result /\ onward.host = both.host
    <3> HIDE DEF k
    <3> QED BY <1>9 DEF ParserGoesOn, ReadOf
  <2>2. onward = t
    BY <1>10, <1>11
  <2> QED BY <1>10, <2>1, <2>2
<1>13. Judged(t) = Judged(ReadOf(k, a, c))
  BY <1>12 DEF Judged
<1>14. g = [state |-> Judged(t), conn |-> k, next |-> f.next, syn |-> f.syn,
            inspected |-> f.inspected + n, last_seen |-> f.last_seen, parser |-> t.parser]
  <2>1. f = [state |-> f.state, conn |-> f.conn, next |-> f.next, syn |-> f.syn,
             inspected |-> f.inspected, last_seen |-> f.last_seen, parser |-> f.parser]
    BY <1>4 DEF FlowOK
  <2> DEFINE s == Judged(t)
             parser == t.parser
             read == f.inspected + n
  <2>2. g = [f EXCEPT !.parser = parser, !.inspected = read, !.state = s]
    OBVIOUS
  <2> HIDE DEF f, g, s, parser, read
  <2>3. g = [state |-> s, conn |-> f.conn, next |-> f.next, syn |-> f.syn,
             inspected |-> read, last_seen |-> f.last_seen, parser |-> parser]
    BY <2>1, <2>2
  <2> QED BY <2>3 DEF s, parser, read
<1> HIDE DEF g, t
<1>15. flows = [j \in Slots |-> flows[j]]
  BY DEF IInv, TableOK
<1>16. flows'[i] = g /\ \A j \in Slots \ {i} : flows'[j] = flows[j]
  BY <1>4, <1>5, <1>15
<1>17. g = [state |-> Judged(ReadOf(k, a, lwip.pos + n)), conn |-> k, next |-> f.next,
            syn |-> f.syn, inspected |-> f.inspected + n, last_seen |-> f.last_seen,
            parser |-> ReadOf(k, a, lwip.pos + n).parser]
  BY <1>9, <1>12, <1>13, <1>14
<1>18. TurnOf(a, n)
  BY <1>2, <1>3, <1>4, <1>6, <1>7, <1>16, <1>17 DEF TurnOf
<1> QED BY <1>3, <1>18

LEMMA ChunkReading ==
  ASSUME ParserGoesOn, IInv, SInv, FeedChunk
  PROVE  SInv'
<1>1. PICK a \in Nat, n \in Nat : TurnOf(a, n)
  BY ChunkTurns
<1> DEFINE i == lwip.slot
           f == flows[i]
           k == f.conn
           g == flows'[i]
           t == ReadOf(k, a, lwip.pos + n)
<1>2. /\ From(f, a) /\ lwip.pos = a + f.inspected /\ lwip.pos + n <= lwip.packet.hi
      /\ g = [state |-> Judged(t), conn |-> k, next |-> f.next, syn |-> f.syn,
              inspected |-> f.inspected + n, last_seen |-> f.last_seen, parser |-> t.parser]
      /\ \A j \in Slots \ {i} : flows'[j] = flows[j]
      /\ lwip' = [at |-> "feed", packet |-> lwip.packet, rules |-> lwip.rules, slot |-> i,
                  from |-> lwip.from, pos |-> lwip.pos + n]
  BY <1>1 DEF TurnOf
<1>3. lwip.at = "feed" /\ k = lwip.packet.conn /\ FlowOK(f)
  BY TheSlot DEF FeedChunk, Feeding
<1>4. f.next = SeqAt(k, lwip.from) /\ \A j \in Slots \ {i} : flows[j].state # "free" => Anchored(flows[j])
  BY <1>3, FedFlow DEF BeingFed
<1>5. lwip.pos + n <= Len(Streams[k]) /\ a + (f.inspected + n) = lwip.pos + n
  <2> DEFINE L == Len(Streams[k])
             pos == lwip.pos
             hi == lwip.packet.hi
             r == f.inspected
  <2>1. hi \in Nat /\ hi <= L /\ L \in Nat
    BY <1>3, StreamLength DEF IInv, LwipInv, WindowOK
  <2>2. pos \in Int
    BY <1>3 DEF IInv, LwipInv, FeedOK
  <2>3. r \in Int
    BY <1>3, AccessFilterAssumption DEF FlowOK
  <2>4. pos = a + r /\ pos + n <= hi
    BY <1>2
  <2> HIDE DEF L, pos, hi, r
  <2>5. pos + n <= L /\ a + (r + n) = pos + n
    BY <2>1, <2>2, <2>3, <2>4
  <2> QED BY <2>5 DEF L, pos, r
<1>6. f.syn # None => a = 0
  BY <1>2 DEF From
<1>7. t.result # "need_more" => Judged(t) # "inspecting"
  BY DEF Judged
<1>8. /\ g.state = Judged(t) /\ g.conn = k /\ g.next = f.next /\ g.syn = f.syn
      /\ g.inspected = f.inspected + n /\ g.parser = t.parser
      /\ lwip'.at = "feed" /\ lwip'.slot = i /\ lwip'.packet = lwip.packet
      /\ lwip'.from = lwip.from /\ lwip'.pos = lwip.pos + n
  BY <1>2
<1>9. BeingFed(flows[i])'
  <2> DEFINE m == lwip.pos + n
  <2>1. From(g, a)
    <3>1. a + g.inspected = m /\ t = ReadOf(k, a, m) /\ m <= Len(Streams[k])
      BY <1>5, <1>8
    <3> HIDE DEF t, m, g, k, f
    <3> QED BY <1>6, <1>7, <1>8, <3>1 DEF From
  <2>2. lwip'.pos = a + g.inspected
    BY <1>5, <1>8
  <2>3. lwip'.pos <= lwip'.packet.hi
    BY <1>2, <1>8
  <2>4. g.next = SeqAt(g.conn, lwip'.from)
    BY <1>4, <1>8
  <2>5. flows'[lwip'.slot] = g
    BY <1>8
  <2> HIDE DEF f, k, t, g
  <2> QED BY <2>1, <2>2, <2>3, <2>4, <2>5 DEF BeingFed
<1>10. \A j \in Slots \ {i} : flows'[j].state # "free" => Anchored(flows'[j])
  BY <1>2, <1>4
<1> QED BY <1>8, <1>9, <1>10 DEF SInv

\* The loop is over and leaves the flow, which began at position a, in state s.
EndOf(a, s) ==
  LET i == lwip.slot
      f == flows[i]
      p == lwip.packet
  IN  /\ From(f, a) /\ lwip.pos = a + f.inspected
      /\ s = Unfinished(p, IF f.state = "inspecting" /\ f.inspected >= StreamLimit
                           THEN "block" ELSE f.state)
      /\ s = "inspecting" => f.state = "inspecting" /\ lwip.pos = p.hi
      /\ flows'[i] = IF Has(p, "FIN") THEN Free
                     ELSE [state |-> s, conn |-> f.conn, next |-> SeqAt(f.conn, p.hi),
                           syn |-> f.syn, inspected |-> f.inspected,
                           last_seen |-> f.last_seen, parser |-> f.parser]
      /\ \A j \in Slots \ {i} : flows'[j] = flows[j]
      /\ Verdict(p, s)

\* Then it waits for what follows the segment, or is judged.
LEMMA EndLeaves ==
  ASSUME IInv, SInv, FeedEnd
  PROVE  \E a \in Nat : \E s : EndOf(a, s)
<1>1. PICK p \in Feeding : FeedEnd
  BY DEF FeedEnd
<1> DEFINE i == lwip.slot
           f == flows[i]
           k == f.conn
           s == Unfinished(p, IF f.state = "inspecting" /\ f.inspected >= StreamLimit
                              THEN "block" ELSE f.state)
           next == (f.next + p.hi - lwip.from) % SeqNumMod
           g == [f EXCEPT !.next = next]
           t == [flows EXCEPT ![i] = g]
<1>2. lwip.at = "feed" /\ p = lwip.packet
  BY DEF Feeding
<1>3. /\ flows' = Settled([flows EXCEPT ![i] = [@ EXCEPT !.next = next]], i, p, s)
      /\ Verdict(p, s)
  BY <1>2 DEF FeedEnd, Feeding
<1>4. ~Hungry(f, p)
  BY <1>2 DEF FeedEnd, Feeding
<1>5. FlowOK(f) /\ i \in Slots /\ k = p.conn /\ k \in Conns /\ p.hi \in Int
  BY <1>2, TheSlot DEF IInv, LwipInv, WindowOK
<1>6. /\ lwip.pos <= p.hi /\ f.next = SeqAt(k, lwip.from)
      /\ \E a \in Nat : From(f, a) /\ lwip.pos = a + f.inspected
  BY <1>2, FedFlow DEF BeingFed
<1>7. lwip.from \in Int /\ lwip.pos \in Int
  BY <1>2 DEF IInv, LwipInv, FeedOK
<1>8. next = SeqAt(k, p.hi)
  <2> DEFINE d == p.hi - lwip.from
             m == lwip.from
  <2>1. d \in Int /\ m \in Int /\ m + d = p.hi
    BY <1>5, <1>7
  <2>2. (SeqAt(k, m) + d) % SeqNumMod = SeqAt(k, m + d)
    <3> HIDE DEF d, m, k
    <3> QED BY <1>5, <2>1, SeqOnward
  <2>3. f.next + p.hi - lwip.from = SeqAt(k, m) + d
    <3>1. SeqAt(k, m) \in Int
      BY <1>5, <2>1, SeqNumber
    <3> QED BY <1>5, <1>6, <1>7, <3>1
  <2> QED BY <2>1, <2>2, <2>3
<1> HIDE DEF next
<1>9. s = "inspecting" => f.state = "inspecting" /\ lwip.pos = p.hi
  <2>1. s = "inspecting" => f.state = "inspecting" /\ ~(f.inspected >= StreamLimit)
    BY DEF Unfinished
  <2>2. f.inspected \in Int /\ StreamLimit \in Int
    BY <1>5, AccessFilterAssumption DEF FlowOK
  <2>3. s = "inspecting" => ~(lwip.pos < p.hi)
    BY <1>4, <2>1, <2>2 DEF Hungry
  <2>4. lwip.pos <= p.hi
    BY <1>6
  <2> HIDE DEF s, f
  <2> QED BY <1>5, <1>7, <2>1, <2>3, <2>4
<1>10. g = [state |-> f.state, conn |-> k, next |-> next, syn |-> f.syn,
            inspected |-> f.inspected, last_seen |-> f.last_seen, parser |-> f.parser]
  <2>1. f = [state |-> f.state, conn |-> k, next |-> f.next, syn |-> f.syn,
             inspected |-> f.inspected, last_seen |-> f.last_seen, parser |-> f.parser]
    BY <1>5 DEF FlowOK
  <2> HIDE DEF f, k
  <2> QED BY <2>1
<1>11. next \in Int
  <2>1. SeqAt(k, p.hi) \in Int
    BY <1>5, SeqNumber
  <2> QED BY <1>8, <2>1
<1>12. FlowOK(g) /\ g.conn = k /\ g.state = f.state
  BY <1>5, <1>10, <1>11 DEF FlowOK
<1>13. TableOK(flows) /\ flows = [j \in Slots |-> flows[j]] /\ f.state # "free"
  BY <1>2, TheSlot DEF IInv, TableOK
<1>14. flows' = Settled(t, i, p, s)
  BY <1>3, <1>5, <1>13
<1>15. TableOK(t) /\ t[i] = g /\ \A j \in Slots \ {i} : t[j] = flows[j]
  <2> HIDE DEF g
  <2> QED BY <1>5, <1>12, <1>13, AlteredOK
<1>16. PICK a \in Nat : From(f, a) /\ lwip.pos = a + f.inspected
  BY <1>6
<1>17. s = Unfinished(p, IF f.state = "inspecting" /\ f.inspected >= StreamLimit
                          THEN "block" ELSE f.state)
  OBVIOUS
<1> HIDE DEF t, g, s
<1>18. /\ flows'[i] = IF Has(p, "FIN") THEN Free
                      ELSE [state |-> s, conn |-> k, next |-> SeqAt(k, p.hi), syn |-> f.syn,
                            inspected |-> f.inspected, last_seen |-> f.last_seen,
                            parser |-> f.parser]
       /\ \A j \in Slots \ {i} : flows'[j] = flows[j]
  <2>1. /\ g.conn = k /\ g.next = SeqAt(k, p.hi) /\ g.syn = f.syn
        /\ g.inspected = f.inspected /\ g.last_seen = f.last_seen /\ g.parser = f.parser
    BY <1>8, <1>10
  <2>2. /\ IF Has(p, "FIN") THEN flows'[i] = Free
           ELSE flows'[i] = [state |-> s, conn |-> g.conn, next |-> g.next, syn |-> g.syn,
                             inspected |-> g.inspected, last_seen |-> g.last_seen,
                             parser |-> g.parser]
        /\ \A j \in Slots \ {i} : flows'[j] = t[j]
    <3> HIDE DEF i
    <3> QED BY <1>5, <1>12, <1>14, <1>15, SettledFields DEF i
  <2> QED BY <1>15, <2>1, <2>2
<1>19. EndOf(a, s)
  BY <1>2, <1>3, <1>9, <1>16, <1>17, <1>18 DEF EndOf, s
<1> QED BY <1>19

LEMMA EndReading ==
  ASSUME IInv, SInv, FeedEnd
  PROVE  SInv'
<1>1. PICK a \in Nat : \E s : EndOf(a, s)
  BY EndLeaves
<1>0. PICK s : EndOf(a, s)
  BY <1>1
<1> DEFINE i == lwip.slot
           f == flows[i]
           p == lwip.packet
           g == [state |-> s, conn |-> f.conn, next |-> SeqAt(f.conn, p.hi), syn |-> f.syn,
                 inspected |-> f.inspected, last_seen |-> f.last_seen, parser |-> f.parser]
<1>2. /\ From(f, a) /\ lwip.pos = a + f.inspected
      /\ s = "inspecting" => f.state = "inspecting" /\ lwip.pos = p.hi
      /\ flows'[i] = IF Has(p, "FIN") THEN Free ELSE g
      /\ \A j \in Slots \ {i} : flows'[j] = flows[j]
      /\ Verdict(p, s)
  BY <1>0 DEF EndOf
<1>3. \A j \in Slots \ {i} : flows[j].state # "free" => Anchored(flows[j])
  BY FedFlow DEF FeedEnd, Feeding
<1>4. Anchored(g)
  <2>1. From(g, a)
    <3>1. /\ g.state = s /\ g.conn = f.conn /\ g.syn = f.syn
          /\ g.inspected = f.inspected /\ g.parser = f.parser
      OBVIOUS
    <3> HIDE DEF f, g
    <3> QED BY <1>2, <3>1 DEF From
  <2>2. g.state = "inspecting" => g.next = SeqAt(g.conn, a + g.inspected)
    BY <1>2
  <2> HIDE DEF g
  <2> QED BY <2>1, <2>2 DEF Anchored
<1>5. \A j \in Slots : flows'[j].state # "free" => Anchored(flows'[j])
  <2>1. Free.state = "free"
    BY DEF Free
  <2> HIDE DEF g
  <2> QED BY <1>2, <1>3, <1>4, <2>1
<1>6. lwip'.at # "feed"
  BY <1>2 DEF Verdict, Drop, Forward, Resting
<1> QED BY <1>5, <1>6 DEF SInv

LEMMA ReadingStep ==
  ASSUME ParserGoesOn, StreamsShort, IInv, SInv, [Next]_vars
  PROVE  SInv'
<1>1. ASSUME flows' = flows, lwip.at # "feed", lwip'.at # "feed" PROVE SInv'
  BY <1>1 DEF SInv
<1>2. ASSUME flows' = flows, lwip' = lwip PROVE SInv'
  BY <1>2 DEF SInv, BeingFed
<1>3. CASE Receive \/ ReceiveExempt
  BY <1>1, <1>3 DEF Receive, ReceiveExempt, Resting
<1>4. CASE Uninspected
  BY <1>1, <1>4 DEF Uninspected, Forward, Drop, Resting
<1>5. CASE Inspect
  BY <1>5, InspectReading
<1>6. CASE FeedChunk
  BY <1>6, ChunkReading
<1>7. CASE FeedEnd
  BY <1>7, EndReading
<1>8. CASE InstallRule
  BY <1>2, <1>8 DEF InstallRule, filterVars
<1>9. CASE Advance
  BY <1>2, <1>9 DEF Advance
<1>10. CASE UNCHANGED vars
  BY <1>2, <1>10 DEF vars, filterVars
<1> QED BY <1>3, <1>4, <1>5, <1>6, <1>7, <1>8, <1>9, <1>10 DEF Next

\* The position a flow began at can be told from the number it waits for.
LEMMA ReadingInvisible ==
  ASSUME StreamsShort, IInv, SInv
  PROVE  SegmentationInvisible
<1> SUFFICES ASSUME NEW i \in Slots, flows[i].state # "free",
                    \/ flows[i].syn # None
                    \/ flows[i].state = "inspecting" /\ lwip.at # "feed"
             PROVE  LET f == flows[i]
                        first == IF f.syn # None THEN 0
                                 ELSE (f.next - f.inspected - SeqAt(f.conn, 0)) % SeqNumMod
                    IN  f.parser = ReadOf(f.conn, first, first + f.inspected).parser
  BY DEF SegmentationInvisible, ReadOf
<1> DEFINE f == flows[i]
           k == f.conn
<1>1. FlowOK(f)
  <2>1. f = Free \/ FlowOK(f)
    BY DEF IInv, TableOK
  <2> QED BY <2>1 DEF Free
<1>2. k \in Conns /\ f.inspected \in Nat
  BY <1>1, AccessFilterAssumption DEF FlowOK
<1>3. CASE f.syn # None
  <2>1. PICK a \in Nat : From(f, a)
    BY DEF SInv, Anchored, BeingFed
  <2>2. a = 0
    BY <1>3, <2>1 DEF From
  <2> QED BY <1>3, <2>1, <2>2 DEF From
<1>4. CASE f.syn = None
  <2>1. f.state = "inspecting" /\ Anchored(f)
    BY <1>4 DEF SInv
  <2>2. PICK a \in Nat : From(f, a) /\ f.next = SeqAt(k, a + f.inspected)
    BY <2>1 DEF Anchored
  <2> DEFINE n == f.inspected
  <2>3. a \in 0..SeqNumMod-1 /\ n \in Int /\ a + n = 0 + a + n
    <3>1. a + n <= Len(Streams[k]) /\ Len(Streams[k]) \in Nat
      BY <1>2, <2>2, StreamLength DEF From
    <3>2. Len(Streams[k]) <= SeqNumMod \div 2
      BY <1>2 DEF StreamsShort
    <3>3. SeqNumMod \in Nat \ {0} /\ SeqNumMod \div 2 < SeqNumMod
      BY AccessFilterAssumption
    <3> HIDE DEF k, n
    <3> QED BY <1>2, <3>1, <3>2, <3>3 DEF n
  <2>4. (SeqAt(k, a + n) - n - SeqAt(k, 0)) % SeqNumMod = a
    <3> HIDE DEF k, n
    <3> QED BY <1>2, <2>3, SeqDistance
  <2>5. (f.next - f.inspected - SeqAt(k, 0)) % SeqNumMod = a
    BY <2>2, <2>3, <2>4
  <2>6. f.parser = ReadOf(k, a, a + f.inspected).parser
    BY <2>2 DEF From
  <2> QED BY <1>4, <2>5, <2>6
<1> QED BY <1>3, <1>4

---------------------------------------------------------------------------
(* The theorems *)

\* A table stays good while the clock moves on.
LEMMA Later ==
  ASSUME TableOK(flows'), clock \in BootClock..MaxClock,
         clock' = clock \/ (clock < MaxClock /\ clock' = clock + 1)
  PROVE  (TableOK(flows))' /\ clock' \in BootClock..MaxClock
<1>1. BootClock \in Nat /\ MaxClock \in Nat
  BY AccessFilterAssumption
<1>2. clock' \in BootClock..MaxClock /\ clock' >= clock
  BY <1>1
<1>3. \A f : FlowOK(f) => f.last_seen \in BootClock..clock'
  BY <1>1, <1>2 DEF FlowOK
<1>4. \A i \in Slots : flows'[i] = Free \/ FlowOK(flows'[i])
  BY DEF TableOK
<1>5. \A i \in Slots : flows'[i] = Free \/ (FlowOK(flows[i]))'
  BY <1>3, <1>4 DEF FlowOK
<1> QED BY <1>2, <1>5 DEF TableOK, Unique

\* What the client sends are windows of its stream.
LEMMA PacketShape ==
  ASSUME NEW k \in Conns, NEW p \in Packets(k)
  PROVE  p.conn = k /\ WindowOK(p)
<1>1. Cuts[k] \subseteq 0..Len(Streams[k]) /\ Len(Streams[k]) \in Nat
  <2>1. Streams[k] \in Seq({Streams[k][i] : i \in DOMAIN Streams[k]})
    BY AccessFilterAssumption
  <2> QED BY <2>1, LenProperties, AccessFilterAssumption
<1>2. \A w \in Cuts[k] \X Cuts[k] :
        w[1] \in Nat /\ w[2] \in Nat /\ w[1] <= Len(Streams[k]) /\ w[2] <= Len(Streams[k])
  BY <1>1
<1>3. p.conn = k /\ p.lo \in Nat /\ p.hi \in Nat /\ p.lo <= p.hi /\ p.hi <= Len(Streams[k])
  BY <1>1, <1>2 DEF Packets, Segments, Packet
<1>4. /\ p.flags \in {{}, {"SYN"}, {"RST"}, {"FIN"}}
      /\ "SYN" \in p.flags \/ "RST" \in p.flags => p.lo = p.hi
  <2>1. CASE p \in Segments(k)
    BY <2>1 DEF Segments, Packet
  <2>2. CASE p \notin Segments(k)
    BY <2>2 DEF Packets, Packet
  <2> QED BY <2>1, <2>2
<1> QED BY <1>3, <1>4 DEF WindowOK, Has

LEMMA Step ==
  ASSUME IInv, [Next]_vars
  PROVE  IInv' /\ [ExpiresExactly]_vars /\ [RefusesWhenFull]_vars
<1>1. clock \in BootClock..MaxClock /\ TableOK(flows) /\ LwipInv
  BY DEF IInv
<1>2. CASE Receive \/ ReceiveExempt
  <2>1. /\ UNCHANGED <<flows, clock>> /\ lwip.at = "idle"
        /\ \/ lwip' \in {Resting("drop"), Resting("forward")}
           \/ \E k \in Conns : \E p \in Packets(k) :
                lwip' = [at |-> "rules", packet |-> p, rules |-> Len(blockedHosts)]
    BY <1>2 DEF Receive, ReceiveExempt
  <2>2. LwipInv'
    BY <2>1, PacketShape DEF LwipInv, Resting
  <2>3. Inspected = {}
    BY <2>1 DEF Inspected
  <2>4. RefusesWhenFull
    BY <2>3 DEF RefusesWhenFull
  <2>5. ExpiresExactly
    BY <2>1, <2>3 DEF ExpiresExactly
  <2> QED BY <1>1, <2>1, <2>2, <2>4, <2>5, Later DEF IInv
<1>3. CASE Uninspected
  <2>1. UNCHANGED <<flows, clock>> /\ lwip'.at = "idle" /\ Inspected = {}
    BY <1>3 DEF Uninspected, Forward, Drop, Resting, Inspected
  <2>2. LwipInv' /\ RefusesWhenFull /\ ExpiresExactly
    BY <2>1 DEF LwipInv, RefusesWhenFull, ExpiresExactly
  <2> QED BY <1>1, <2>1, <2>2, Later DEF IInv
<1>4. CASE Inspect
  <2>1. /\ Good(flows', lwip.packet) /\ clock' = clock
        /\ lwip'.at = "feed" => lwip'.packet = lwip.packet /\ FeedOK'
        /\ lwip'.at \in {"idle", "feed"}
        /\ RefusesWhenFull
    BY <1>4, InspectStep
  <2>2. lwip.at = "rules"
    BY <1>4, InspectedPacket DEF Inspect, InspectReset, InspectSyn, InspectEmpty,
         InspectRefused, InspectDecided, InspectNothingNew, InspectData, Followed
  <2>3. LwipInv'
    BY <1>1, <2>1, <2>2 DEF LwipInv, WindowOK
  <2>4. ExpiresExactly
    BY <2>1 DEF Good, Keeps, Fresh, ExpiresExactly
  <2> QED BY <1>1, <2>1, <2>3, <2>4, Later DEF IInv, Good
<1>5. CASE FeedChunk \/ FeedEnd
  <2>1. /\ TableOK(flows') /\ Keeps(flows', lwip.packet) /\ LwipInv'
        /\ clock' = clock /\ lwip.at = "feed"
    <3>1. CASE FeedChunk
      BY <3>1, ChunkStep
    <3>2. CASE FeedEnd
      BY <3>2, EndStep DEF LwipInv
    <3> QED BY <1>5, <3>1, <3>2
  <2>2. Inspected = {}
    BY <2>1 DEF Inspected
  <2>3. RefusesWhenFull /\ ExpiresExactly
    BY <2>1, <2>2 DEF RefusesWhenFull, ExpiresExactly, Keeps
  <2> QED BY <1>1, <2>1, <2>3, Later DEF IInv
<1>6. CASE InstallRule
  <2>1. UNCHANGED <<flows, clock, lwip>>
    BY <1>6 DEF InstallRule, filterVars
  <2>2. LwipInv'
    BY <1>1, <2>1 DEF LwipInv, FeedOK, WindowOK, SlotsOf
  <2>3. ExpiresExactly /\ RefusesWhenFull
    BY <2>1 DEF ExpiresExactly, RefusesWhenFull, Dropped, Inspected
  <2> QED BY <1>1, <2>1, <2>2, <2>3, Later DEF IInv
<1>7. CASE Advance
  <2>1. UNCHANGED <<flows, lwip>> /\ lwip.at = "idle" /\ clock < MaxClock /\ clock' = clock + 1
    BY <1>7 DEF Advance
  <2>2. LwipInv' /\ Inspected = {}
    BY <2>1 DEF LwipInv, Inspected
  <2>3. ExpiresExactly /\ RefusesWhenFull
    BY <2>1, <2>2 DEF ExpiresExactly, RefusesWhenFull
  <2> QED BY <1>1, <2>1, <2>2, <2>3, Later DEF IInv
<1>8. CASE UNCHANGED vars
  <2>1. UNCHANGED <<flows, clock, lwip>>
    BY <1>8 DEF vars, filterVars
  <2>2. LwipInv'
    BY <1>1, <2>1 DEF LwipInv, FeedOK, WindowOK, SlotsOf
  <2> QED BY <1>1, <1>8, <2>1, <2>2, Later DEF IInv
<1> QED BY <1>2, <1>3, <1>4, <1>5, <1>6, <1>7, <1>8 DEF Next

\* The table and the thread's place in it are as IInv says, whatever arrives.
THEOREM Invariance == Spec => []IInv
<1>1. Init => IInv
  <2> SUFFICES ASSUME Init PROVE IInv
    OBVIOUS
  <2>1. flows = [i \in Slots |-> Free] /\ lwip.at = "idle" /\ clock \in BootClock..MaxClock
    BY AccessFilterAssumption DEF Init, Resting
  <2>2. \A i \in Slots : flows[i] = Free /\ flows[i].state = "free"
    BY <2>1 DEF Free
  <2>3. flows = [i \in Slots |-> flows[i]]
    BY <2>1
  <2> QED BY <2>1, <2>2, <2>3 DEF IInv, TableOK, Unique, LwipInv
<1>2. IInv /\ [Next]_vars => IInv'
  BY Step
<1> QED BY <1>1, <1>2, PTL DEF Spec

\* Whatever the clients send and the commands name, the tables and the thread's place
\* are what the code takes them for; no flow reads more than its budget.
THEOREM TypesHold == Spec => []TypeOK
<1>1. Init => RulesTypeOK
  BY EmptySeq DEF Init, RulesInit, RulesTypeOK
<1>2. RulesTypeOK /\ [Next]_vars => RulesTypeOK'
  BY RulesStep
<1>3. IInv /\ RulesTypeOK => TypeOK
  <2> SUFFICES ASSUME IInv, RulesTypeOK PROVE TypeOK
    OBVIOUS
  <2>1. DOMAIN flows = Slots
    <3>1. flows = [i \in Slots |-> flows[i]]
      BY DEF IInv, TableOK
    <3> QED BY <3>1
  <2>2. \A i \in Slots : \/ flows[i] = Free
                          \/ /\ flows[i].state \in Judgements
                             /\ flows[i].conn \in Conns
                             /\ flows[i].inspected \in 0..StreamLimit
    BY DEF IInv, TableOK, FlowOK
  <2>3. /\ lwip.at \in {"idle", "rules", "feed"}
        /\ lwip.at = "feed" => lwip.slot \in SlotsOf(flows, lwip.packet.conn)
    BY DEF IInv, LwipInv, FeedOK
  <2> QED BY <2>1, <2>2, <2>3 DEF TypeOK
<1> QED BY <1>1, <1>2, <1>3, Invariance, PTL DEF Spec

\* Of a stream that half the sequence numbers can tell apart, whatever is lost, late or
\* sent again and wherever it is cut, the parser has been given one part, in order and
\* nothing twice -- as long as it goes on with the next chunk where it stands.
THEOREM CutsDoNotMatter ==
  ASSUME ParserGoesOn, StreamsShort
  PROVE  Spec => []SegmentationInvisible
<1>1. Init => SInv
  BY DEF Init, SInv, Free
<1>2. IInv /\ SInv /\ [Next]_vars => SInv'
  BY ReadingStep
<1>3. IInv /\ SInv => SegmentationInvisible
  BY ReadingInvisible
<1> QED BY <1>1, <1>2, <1>3, Invariance, PTL DEF Spec

\* A connection never has two flows, for any capacity of the table.
THEOREM OneFlow == Spec => []OneFlowPerConnection
<1>1. IInv => OneFlowPerConnection
  BY DEF IInv, TableOK, Unique, OneFlowPerConnection
<1> QED BY <1>1, Invariance, PTL

\* A flow leaves when it should and not before, across the wrap of the clock.
THEOREM Expires == Spec => ExpiryExact
<1>1. IInv /\ [Next]_vars => [ExpiresExactly]_vars
  BY Step
<1> QED BY <1>1, Invariance, PTL DEF Spec, ExpiryExact

\* Want of a slot is never the fault of the connection's own flow or of an old one.
THEOREM Refuses == Spec => RefusedOnlyWhenFull
<1>1. IInv /\ [Next]_vars => [RefusesWhenFull]_vars
  BY Step
<1> QED BY <1>1, Invariance, PTL DEF Spec, RefusedOnlyWhenFull

---------------------------------------------------------------------------
(* What a server has received *)

\* The positions of the hello of k, and those a segment brings.
Whole(k) == 1..Hello[k].length
WindowOf(p) == (p.lo + 1 .. p.hi) \cap Whole(p.conn)

\* Of the hello of its connection, d has gone through: all that the flow has read from
\* the first position on, no more when it saw the SYN, and everything once it was found
\* permitted.
DeliveredOK(f, d) ==
  /\ f.state = "inspecting" =>
       /\ f.next = SeqAt(f.conn, f.inspected) => (1..f.inspected) \cap Whole(f.conn) \subseteq d
       /\ f.syn # None => d \subseteq 1..f.inspected
  /\ f.state = "allow" => d = Whole(f.conn)

\* While the flow is given a segment, what went before is through; a flow found
\* permitted has read a whole hello that the rules the packet met permit.
FeedingOK(f, d) ==
  /\ lwip.packet.lo <= lwip.from /\ lwip.from <= lwip.pos
  /\ lwip.pos = f.inspected => (1..lwip.from) \cap Whole(f.conn) \subseteq d
  /\ f.syn # None => d \subseteq 1..lwip.from
  /\ f.state = "allow" => /\ lwip.pos = f.inspected /\ lwip.pos >= Hello[f.conn].length
                          /\ Permitted(f.conn, SubSeq(blockedHosts, 1, lwip.rules))

Received(D) == D = [k \in Conns |-> D[k]] /\ \A k \in Conns : D[k] \subseteq Whole(k)
DeliveredIn(t, D) == \A i \in Slots : t[i].state # "free" => DeliveredOK(t[i], D[t[i].conn])

RulesSeen ==
  /\ lwip.at # "idle" => lwip.rules \in 0..Len(blockedHosts)
  /\ blockedHosts = <<>> => \A i \in Slots : flows[i].state = "free"

DInv ==
  /\ Received(delivered)
  /\ RulesSeen
  /\ \A i \in Slots : flows[i].state # "free" =>
       IF lwip.at = "feed" /\ i = lwip.slot THEN FeedingOK(flows[i], delivered[flows[i].conn])
       ELSE DeliveredOK(flows[i], delivered[flows[i].conn])

LEMMA HelloLength ==
  ASSUME NEW k \in Conns
  PROVE  Hello[k].length \in Nat
BY AccessFilterAssumption

\* Nothing is completed where nothing is received.
LEMMA NothingCompletes ==
  ASSUME Received(delivered), \A k \in Conns : delivered'[k] \subseteq delivered[k]
  PROVE  CompletesIfPermitted
<1> SUFFICES ASSUME NEW k \in Conns, delivered[k] # 1..Hello[k].length,
                    delivered'[k] = 1..Hello[k].length
             PROVE  FALSE
  BY DEF CompletesIfPermitted
<1>1. delivered[k] \subseteq Whole(k) /\ delivered'[k] \subseteq delivered[k]
  BY DEF Received
<1> QED BY <1>1 DEF Whole

\* A packet of port 443 leaves while there are rules.
LEMMA ForwardedHello ==
  ASSUME IInv, Received(delivered), NEW p, Forward(p), WindowOK(p), p.kind = "tls",
         blockedHosts # <<>>
  PROVE  /\ lwip'.at = "idle" /\ Received(delivered')
         /\ \A k \in Conns \ {p.conn} : delivered'[k] = delivered[k]
         /\ delivered'[p.conn] = IF Has(p, "SYN") THEN {} ELSE delivered[p.conn] \cup WindowOf(p)
<1> DEFINE c == p.conn
           d == delivered[c]
           e == IF Has(p, "SYN") THEN {} ELSE d \cup WindowOf(p)
<1>1. c \in Conns
  BY DEF WindowOK
<1>2. lwip'.at = "idle"
  BY DEF Forward, Resting
<1>3. delivered' = [delivered EXCEPT ![c] = e]
  <2>1. CASE Has(p, "SYN")
    BY <2>1 DEF Forward
  <2>2. CASE ~Has(p, "SYN")
    BY <2>2 DEF Forward, WindowOf, Whole
  <2> QED BY <2>1, <2>2
<1>4. delivered = [k \in Conns |-> delivered[k]] /\ d \subseteq Whole(c)
  BY <1>1 DEF Received
<1>5. e \subseteq Whole(c)
  BY <1>4 DEF WindowOf
<1> HIDE DEF e, d, c
<1>6. /\ delivered' = [k \in Conns |-> delivered'[k]] /\ delivered'[c] = e
      /\ \A k \in Conns \ {c} : delivered'[k] = delivered[k]
  BY <1>1, <1>3, <1>4
<1>7. Received(delivered')
  BY <1>5, <1>6 DEF Received
<1> QED BY <1>2, <1>6, <1>7 DEF c, d, e

\* Nothing changes by being seen, and a judgement takes nothing back.
LEMMA SameDelivered ==
  ASSUME NEW f, NEW g, NEW d, DeliveredOK(f, d), g.conn = f.conn, g.next = f.next,
         g.syn = f.syn, g.inspected = f.inspected,
         g.state = "inspecting" => f.state = "inspecting",
         g.state = "allow" => f.state = "allow"
  PROVE  DeliveredOK(g, d)
BY DEF DeliveredOK

LEMMA UnexpiredDelivered ==
  ASSUME NEW D, DeliveredIn(flows, D), NEW k
  PROVE  DeliveredIn(Unexpired, D) /\ DeliveredIn(Cleared(Unexpired, k), D)
<1>1. Free.state = "free"
  BY DEF Free
<1> QED BY <1>1, OnlyTaken DEF DeliveredIn

LEMMA TouchedDelivered ==
  ASSUME NEW t, TableOK(t), NEW D, DeliveredIn(t, D), NEW k
  PROVE  DeliveredIn(Touched(t, k), D)
<1> DEFINE u == Touched(t, k)
<1> SUFFICES ASSUME NEW i \in Slots, u[i].state # "free"
             PROVE  DeliveredOK(u[i], D[u[i].conn])
  BY DEF DeliveredIn
<1>1. /\ u[i].state = t[i].state /\ u[i].conn = t[i].conn /\ u[i].next = t[i].next
      /\ u[i].syn = t[i].syn /\ u[i].inspected = t[i].inspected
  BY TouchedFields
<1> HIDE DEF u
<1>2. DeliveredOK(t[i], D[t[i].conn])
  BY <1>1 DEF DeliveredIn
<1>3. DeliveredOK(u[i], D[t[i].conn])
  BY <1>1, <1>2, SameDelivered
<1> QED BY <1>1, <1>3

\* A new flow has read nothing; if it saw the SYN nothing was received either.
LEMMA CreatedDelivered ==
  ASSUME NEW t, TableOK(t), FreeSlots(t) # {}, NEW k \in Conns, NEW next, NEW syn, NEW D,
         DeliveredIn(t, D), syn # None => D[k] = {}
  PROVE  DeliveredIn(Created(t, k, next, syn), D)
<1> DEFINE u == Created(t, k, next, syn)
           at == FreeSlot(t)
           new == NewFlow(k, next, syn)
<1>1. u[at] = new /\ \A i \in Slots \ {at} : u[i] = t[i]
  BY CreatedFields
<1>2. DeliveredOK(new, D[k]) /\ new.conn = k
  <2>1. /\ new.state = "inspecting" /\ new.conn = k /\ new.syn = syn /\ new.inspected = 0
    BY DEF NewFlow
  <2>2. (1..0) \cap Whole(k) = {}
    OBVIOUS
  <2> HIDE DEF new
  <2> QED BY <2>1, <2>2 DEF DeliveredOK
<1> HIDE DEF u, at, new
<1>3. DeliveredIn(u, D)
  BY <1>1, <1>2 DEF DeliveredIn
<1> QED BY <1>3 DEF u

\* What one connection receives is of no importance to the flows of the others.
LEMMA OthersDelivered ==
  ASSUME NEW t, NEW c, NEW D, NEW E, DeliveredIn(t, D), \A k \in Conns \ {c} : E[k] = D[k],
         TableOK(t), \A i \in SlotsOf(t, c) : DeliveredOK(t[i], E[c])
  PROVE  DeliveredIn(t, E)
<1> SUFFICES ASSUME NEW i \in Slots, t[i].state # "free"
             PROVE  DeliveredOK(t[i], E[t[i].conn])
  BY DEF DeliveredIn
<1>1. CASE t[i].conn = c
  BY <1>1 DEF SlotsOf
<1>2. CASE t[i].conn # c
  <2>1. t[i] = Free \/ FlowOK(t[i])
    BY DEF TableOK
  <2>2. t[i].conn \in Conns
    BY <2>1 DEF Free, FlowOK
  <2>3. DeliveredOK(t[i], D[t[i].conn])
    BY DEF DeliveredIn
  <2> QED BY <1>2, <2>2, <2>3
<1> QED BY <1>1, <1>2

LEMMA SettledDelivered ==
  ASSUME NEW t, TableOK(t), NEW p, NEW i \in SlotsOf(t, p.conn), NEW s, NEW D, NEW E,
         FlowOK(t[i]), t[i].conn = p.conn,
         \A j \in Slots \ {i} : t[j].state # "free" => DeliveredOK(t[j], D[t[j].conn]),
         \A k \in Conns \ {p.conn} : E[k] = D[k],
         \A g : /\ g.state = s /\ g.conn = t[i].conn /\ g.next = t[i].next /\ g.syn = t[i].syn
                /\ g.inspected = t[i].inspected
                => DeliveredOK(g, E[p.conn])
  PROVE  DeliveredIn(Settled(t, i, p, s), E)
<1> DEFINE u == Settled(t, i, p, s)
           f == t[i]
           g == [state |-> s, conn |-> f.conn, next |-> f.next, syn |-> f.syn,
                 inspected |-> f.inspected, last_seen |-> f.last_seen, parser |-> f.parser]
<1>1. i \in Slots /\ f.state # "free"
  BY DEF SlotsOf
<1>2. u[i] = (IF Has(p, "FIN") THEN Free ELSE g) /\ \A j \in Slots \ {i} : u[j] = t[j]
  BY <1>1, SettledFields
<1>3. DeliveredOK(g, E[p.conn]) /\ g.conn = p.conn
  OBVIOUS
<1>4. Free.state = "free"
  BY DEF Free
<1>5. \A j \in Slots \ {i} : t[j].state # "free" => DeliveredOK(t[j], E[t[j].conn])
  <2> TAKE j \in Slots \ {i}
  <2> HAVE t[j].state # "free"
  <2>1. t[j].conn # p.conn
    BY <1>1 DEF TableOK, Unique
  <2>2. t[j] = Free \/ FlowOK(t[j])
    BY DEF TableOK
  <2>3. t[j].conn \in Conns
    BY <2>2, <1>4 DEF FlowOK
  <2> QED BY <2>1, <2>3
<1> HIDE DEF u, f, g
<1>6. DeliveredIn(u, E)
  BY <1>2, <1>3, <1>4, <1>5 DEF DeliveredIn
<1> QED BY <1>6 DEF u

\* Of a short stream, two places have the same number only if they are the same.
LEMMA SamePlace ==
  ASSUME StreamsShort, NEW k \in Conns, NEW n \in Nat, NEW a \in Nat,
         NEW to, to = a + n, to <= Len(Streams[k])
  PROVE  SeqAt(k, to) = SeqAt(k, n) <=> a = 0
<1>1. a \in 0..SeqNumMod-1 /\ 0 \in 0..SeqNumMod-1
  <2>1. Len(Streams[k]) \in Nat
    BY StreamLength
  <2>2. Len(Streams[k]) <= SeqNumMod \div 2
    BY DEF StreamsShort
  <2>3. SeqNumMod \in Nat \ {0} /\ SeqNumMod \div 2 < SeqNumMod
    BY AccessFilterAssumption
  <2> QED BY <2>1, <2>2, <2>3
<1>2. (SeqAt(k, to) - n - SeqAt(k, 0)) % SeqNumMod = a
  <2>1. to = 0 + a + n /\ n \in Int /\ 0 \in Int
    OBVIOUS
  <2> QED BY <1>1, <2>1, SeqDistance
<1>3. (SeqAt(k, n) - n - SeqAt(k, 0)) % SeqNumMod = 0
  <2>1. n = 0 + 0 + n /\ n \in Int /\ 0 \in Int
    OBVIOUS
  <2> QED BY <1>1, <2>1, SeqDistance
<1>4. a = 0 => to = n
  OBVIOUS
<1> QED BY <1>2, <1>3, <1>4

\* A flow waits for the sequence number of what it has read just if it began at the
\* first position.
LEMMA FromTheFirst ==
  ASSUME StreamsShort, NEW f, FlowOK(f), NEW a \in Nat, From(f, a),
         f.next = SeqAt(f.conn, a + f.inspected)
  PROVE  f.next = SeqAt(f.conn, f.inspected) <=> a = 0
<1> DEFINE to == a + f.inspected
<1>1. f.conn \in Conns /\ f.inspected \in Nat
  BY AccessFilterAssumption DEF FlowOK
<1>2. to <= Len(Streams[f.conn]) /\ to = a + f.inspected
  BY DEF From
<1> HIDE DEF to
<1>3. SeqAt(f.conn, to) = SeqAt(f.conn, f.inspected) <=> a = 0
  BY <1>1, <1>2, SamePlace
<1> QED BY <1>2, <1>3

LEMMA FollowedDelivered ==
  ASSUME IInv, NEW p \in Followed, NEW D, DeliveredIn(flows, D)
  PROVE  DeliveredIn(WithFlow(p), D)
<1>1. TableOK(Unexpired) /\ DeliveredIn(Unexpired, D) /\ p.conn \in Conns
  BY UnexpiredOK, UnexpiredDelivered, InspectedWindow DEF Good, Followed
<1>2. Unknown(p) => FreeSlots(Unexpired) # {}
  BY DEF Followed
<1> QED BY <1>1, <1>2, CreatedDelivered, TouchedDelivered DEF WithFlow

\* The flow of a segment that had one.
LEMMA FlowBefore ==
  ASSUME IInv, NEW p \in Followed, ~Unknown(p), NEW i \in SlotsOf(WithFlow(p), p.conn)
  PROVE  LET f == flows[i]
             g == WithFlow(p)[i]
         IN  /\ i \in SlotsOf(flows, p.conn) /\ ~Expired(f)
             /\ g.state = f.state /\ g.conn = f.conn /\ g.next = f.next
             /\ g.syn = f.syn /\ g.inspected = f.inspected /\ g.parser = f.parser
             /\ g.last_seen = clock
<1> DEFINE t == Unexpired
           g == WithFlow(p)[i]
<1>1. TableOK(t) /\ WithFlow(p) = Touched(t, p.conn) /\ i \in Slots
        /\ g.state # "free" /\ g.conn = p.conn
  BY UnexpiredOK DEF Good, WithFlow, SlotsOf
<1>2. /\ g.state = t[i].state /\ g.conn = t[i].conn /\ g.next = t[i].next
      /\ g.syn = t[i].syn /\ g.inspected = t[i].inspected /\ g.parser = t[i].parser
  BY <1>1, TouchedFields
<1>3. t[i] = flows[i] /\ ~Expired(flows[i])
  <2>1. t[i] = IF Expired(flows[i]) THEN Free ELSE flows[i]
    BY <1>1 DEF Unexpired
  <2> QED BY <1>1, <1>2, <2>1 DEF Free
<1>4. i \in SlotsOf(flows, p.conn)
  BY <1>1, <1>2, <1>3 DEF SlotsOf
<1>5. g.last_seen = clock
  BY FollowedOK
<1> QED BY <1>2, <1>3, <1>4, <1>5

\* The thread is idle again.
LEMMA Concluded ==
  ASSUME blockedHosts # <<>>, UNCHANGED blockedHosts, lwip'.at = "idle",
         Received(delivered'), DeliveredIn(flows', delivered')
  PROVE  DInv'
<1>1. RulesSeen'
  BY DEF RulesSeen
<1> QED BY <1>1 DEF DInv, DeliveredIn

\* So it is after a packet that is dropped, and after one that brings nothing new.
LEMMA DropDelivers ==
  ASSUME IInv, DInv, blockedHosts # <<>>, UNCHANGED blockedHosts, Drop,
         DeliveredIn(flows', delivered)
  PROVE  DInv' /\ CompletesIfPermitted
<1>1. delivered' = delivered /\ lwip'.at = "idle" /\ Received(delivered)
  BY DEF Drop, Resting, DInv
<1> QED BY <1>1, Concluded, NothingCompletes

LEMMA InspectDelivery ==
  ASSUME StreamsShort, ParserGoesOn, IInv, SInv, DInv,
         \/ InspectReset \/ InspectSyn \/ InspectEmpty \/ InspectRefused
  PROVE  DInv' /\ CompletesIfPermitted
<1>1. PICK p \in Inspected : Inspecting(p)
  BY DEF InspectReset, InspectSyn, InspectEmpty, InspectRefused
<1>2. /\ p = lwip.packet /\ lwip.at = "rules" /\ p.kind = "tls" /\ WindowOK(p)
      /\ blockedHosts # <<>> /\ UNCHANGED blockedHosts /\ Inspected = {p}
  <2>1. p = lwip.packet /\ lwip.at = "rules" /\ p.kind = "tls" /\ WindowOK(p)
          /\ blockedHosts # <<>>
    BY InspectedPacket, InspectedWindow DEF Inspected
  <2>2. Inspected = {p}
    BY <2>1 DEF Inspected
  <2> QED BY <1>1, <2>1, <2>2 DEF Inspecting, ruleVars
<1> DEFINE k == p.conn
           cleared == Cleared(Unexpired, k)
<1>3. k \in Conns /\ Received(delivered)
  BY <1>2 DEF WindowOK, DInv
<1>4. DeliveredIn(flows, delivered)
  BY <1>2 DEF DInv, DeliveredIn
<1>5. /\ DeliveredIn(Unexpired, delivered) /\ DeliveredIn(cleared, delivered)
      /\ Good(Unexpired, p)
  BY <1>4, UnexpiredDelivered, UnexpiredOK
<1>6. p.flags # {} => TableOK(cleared) /\ SlotsOf(cleared, k) = {}
  BY <1>5, ClearedOK DEF Good
<1>7. p.lo = p.hi => WindowOf(p) = {}
  BY <1>2 DEF WindowOK, WindowOf
<1>8. ASSUME Forward(p), p.lo = p.hi
      PROVE  /\ lwip'.at = "idle" /\ Received(delivered') /\ CompletesIfPermitted
             /\ \A c \in Conns \ {k} : delivered'[c] = delivered[c]
             /\ delivered'[k] = IF Has(p, "SYN") THEN {} ELSE delivered[k]
  <2>1. /\ lwip'.at = "idle" /\ Received(delivered')
        /\ \A c \in Conns \ {k} : delivered'[c] = delivered[c]
        /\ delivered'[k] = IF Has(p, "SYN") THEN {} ELSE delivered[k] \cup WindowOf(p)
    BY <1>2, <1>3, <1>8, ForwardedHello
  <2>2. \A c \in Conns : delivered'[c] \subseteq delivered[c]
    BY <1>7, <1>8, <2>1
  <2> QED BY <1>3, <1>7, <1>8, <2>1, <2>2, NothingCompletes
<1>9. CASE InspectReset
  <2>1. Has(p, "RST") /\ flows' = cleared /\ Forward(p)
    BY <1>2, <1>9 DEF InspectReset
  <2>2. p.lo = p.hi /\ p.flags # {}
    BY <1>2, <2>1 DEF WindowOK, Has
  <2>3. DeliveredIn(flows', delivered')
    BY <1>5, <1>6, <1>8, <2>1, <2>2, OthersDelivered
  <2> QED BY <1>2, <1>8, <2>1, <2>2, <2>3, Concluded
<1>10. CASE InspectSyn
  <2>1. /\ Has(p, "SYN")
        /\ LET again == Resent(Unexpired, k)
               table == IF again THEN Unexpired ELSE Cleared(Unexpired, k)
           IN  IF again THEN flows' = Touched(table, k) /\ Forward(p)
               ELSE IF FreeSlots(table) # {}
               THEN flows' = Created(table, k, SeqAt(k, 0), ISN[k]) /\ Forward(p)
               ELSE flows' = table /\ Drop
    BY <1>2, <1>10 DEF InspectSyn
  <2>2. p.lo = p.hi /\ p.flags # {}
    BY <1>2, <2>1 DEF WindowOK, Has
  <2>3. CASE Resent(Unexpired, k)
    <3>1. flows' = Touched(Unexpired, k) /\ Forward(p)
      BY <2>1, <2>3
    <3>2. PICK i \in SlotsOf(Unexpired, k) : /\ Unexpired[i].state = "inspecting"
                                             /\ Unexpired[i].syn = ISN[k]
                                             /\ Unexpired[i].next = SeqAt(k, 0)
      BY <2>3 DEF Resent
    <3> DEFINE f == Unexpired[i]
    <3>3. FlowOK(f) /\ f.conn = k /\ Anchored(f)
      <4>1. AllAnchored(Unexpired) /\ (f = Free \/ FlowOK(f)) /\ f.state # "free" /\ f.conn = k
        BY <1>2, <1>5, <3>2, Between, UnexpiredAnchored DEF Good, TableOK, SlotsOf
      <4> QED BY <3>2, <4>1 DEF AllAnchored, SlotsOf, Free
    <3>4. f.syn # None
      BY <1>3, <3>2, AccessFilterAssumption
    <3>5. f.inspected = 0
      <4>1. PICK a \in Nat : From(f, a) /\ f.next = SeqAt(k, a + f.inspected)
        BY <3>2, <3>3 DEF Anchored
      <4>2. a = 0 /\ f.inspected \in 0..Len(Streams[k]) /\ Len(Streams[k]) \in Nat
        <5>1. a = 0 /\ a + f.inspected <= Len(Streams[k])
          BY <3>3, <3>4, <4>1 DEF From
        <5>2. f.inspected \in Nat /\ Len(Streams[k]) \in Nat
          BY <1>3, <3>3, StreamLength, AccessFilterAssumption DEF FlowOK
        <5> QED BY <5>1, <5>2
      <4>3. SeqAt(k, f.inspected) = SeqAt(k, 0)
        BY <3>2, <4>1, <4>2
      <4> DEFINE n == f.inspected
      <4>4. n \in Nat /\ n = n + 0 /\ n <= Len(Streams[k])
        BY <4>2
      <4> HIDE DEF f, k, n
      <4>5. \A z \in Nat : n = n + z => (SeqAt(k, n) = SeqAt(k, z) <=> n = 0)
        BY <1>3, <4>4, SamePlace
      <4> QED BY <4>3, <4>4, <4>5 DEF n
    <3>6. \A j \in SlotsOf(Unexpired, k) : DeliveredOK(Unexpired[j], delivered'[k])
      <4>1. \A j \in SlotsOf(Unexpired, k) : j = i
        BY <1>5, <3>2 DEF Good, TableOK, Unique, SlotsOf
      <4>2. delivered'[k] = {}
        BY <1>8, <2>1, <2>2, <3>1
      <4>3. (1..0) \cap Whole(k) = {}
        OBVIOUS
      <4>4. DeliveredOK(f, {})
        <5> HIDE DEF f, k
        <5> QED BY <3>2, <3>3, <3>5, <4>3 DEF DeliveredOK, f
      <4> QED BY <4>1, <4>2, <4>4
    <3>7. DeliveredIn(Unexpired, delivered')
      BY <1>5, <1>8, <2>2, <3>1, <3>6, OthersDelivered DEF Good
    <3>8. DeliveredIn(flows', delivered')
      BY <1>5, <3>1, <3>7, TouchedDelivered DEF Good
    <3> QED BY <1>2, <1>8, <2>2, <3>1, <3>8, Concluded
  <2>4. CASE ~Resent(Unexpired, k) /\ FreeSlots(cleared) # {}
    <3>1. flows' = Created(cleared, k, SeqAt(k, 0), ISN[k]) /\ Forward(p)
      BY <2>1, <2>4
    <3>2. DeliveredIn(cleared, delivered') /\ delivered'[k] = {}
      BY <1>5, <1>6, <1>8, <2>1, <2>2, <3>1, OthersDelivered
    <3>3. DeliveredIn(flows', delivered')
      <4> HIDE DEF cleared, k
      <4> QED BY <1>3, <1>6, <2>2, <2>4, <3>1, <3>2, CreatedDelivered
    <3> QED BY <1>2, <1>8, <2>2, <3>1, <3>3, Concluded
  <2>5. CASE ~Resent(Unexpired, k) /\ ~(FreeSlots(cleared) # {})
    <3>1. flows' = cleared /\ Drop
      BY <2>1, <2>5
    <3> QED BY <1>2, <1>5, <3>1, DropDelivers
  <2> QED BY <2>3, <2>4, <2>5
<1>11. CASE InspectEmpty
  <2>1. Unknown(p) /\ p.lo = p.hi /\ flows' = Unexpired /\ Forward(p)
    BY <1>2, <1>11 DEF InspectEmpty
  <2>2. DeliveredIn(flows', delivered')
    BY <1>5, <1>8, <2>1, OthersDelivered DEF Good, Unknown
  <2> QED BY <1>2, <1>8, <2>1, <2>2, Concluded
<1>12. CASE InspectRefused
  <2>1. flows' = Unexpired /\ Drop
    BY <1>2, <1>12 DEF InspectRefused
  <2> QED BY <1>2, <1>5, <2>1, DropDelivers
<1> QED BY <1>9, <1>10, <1>11, <1>12

\* What the inspection of a segment that has a flow starts from.
LEMMA FollowedFacts ==
  ASSUME ParserGoesOn, IInv, SInv, DInv, NEW p \in Followed,
         NEW i \in SlotsOf(WithFlow(p), p.conn)
  PROVE  LET t == WithFlow(p)
             f == t[i]
         IN  /\ p = lwip.packet /\ lwip.at = "rules" /\ p.kind = "tls" /\ WindowOK(p)
             /\ p.conn \in Conns /\ blockedHosts # <<>> /\ ~Has(p, "SYN")
             /\ Received(delivered) /\ AllAnchored(flows)
             /\ TableOK(t) /\ DeliveredIn(t, delivered) /\ i \in Slots
             /\ FlowOK(f) /\ f.conn = p.conn /\ f.state # "free" /\ Anchored(f)
             /\ DeliveredOK(f, delivered[p.conn])
<1> DEFINE t == WithFlow(p)
<1>1. p \in Inspected /\ ~Has(p, "SYN")
  BY DEF Followed, Has
<1>2. p = lwip.packet /\ lwip.at = "rules" /\ p.kind = "tls" /\ WindowOK(p) /\ blockedHosts # <<>>
  BY <1>1, InspectedPacket, InspectedWindow DEF Inspected
<1>3. p.conn \in Conns /\ Received(delivered) /\ DeliveredIn(flows, delivered)
  BY <1>2 DEF WindowOK, DInv, DeliveredIn
<1>4. AllAnchored(flows)
  BY <1>2, Between
<1>5. DeliveredIn(t, delivered)
  BY <1>3, FollowedDelivered
<1>6. /\ TableOK(t) /\ i \in Slots /\ FlowOK(t[i]) /\ t[i].conn = p.conn /\ t[i].state # "free"
      /\ Anchored(t[i])
  BY <1>4, FollowedFlow
<1>7. DeliveredOK(t[i], delivered[p.conn])
  BY <1>5, <1>6 DEF DeliveredIn
<1> QED BY <1>1, <1>2, <1>3, <1>4, <1>5, <1>6, <1>7

\* What is judged stays judged: all has been received, or nothing more is.
LEMMA DecidedDelivery ==
  ASSUME ParserGoesOn, IInv, SInv, DInv, InspectDecided
  PROVE  DInv' /\ CompletesIfPermitted
<1>1. PICK p \in Followed : \E i \in SlotsOf(WithFlow(p), p.conn) :
        LET f == WithFlow(p)[i]
        IN  /\ Inspecting(p) /\ f.state \in {"allow", "block"}
            /\ flows' = Settled(WithFlow(p), i, p, f.state)
            /\ Verdict(p, f.state)
  BY DEF InspectDecided
<1>2. PICK i \in SlotsOf(WithFlow(p), p.conn) :
        LET f == WithFlow(p)[i]
        IN  /\ Inspecting(p) /\ f.state \in {"allow", "block"}
            /\ flows' = Settled(WithFlow(p), i, p, f.state)
            /\ Verdict(p, f.state)
  BY <1>1
<1> DEFINE t == WithFlow(p)
           f == t[i]
           k == p.conn
           d == delivered[k]
<1>3. /\ f.state \in {"allow", "block"} /\ flows' = Settled(t, i, p, f.state)
      /\ Verdict(p, f.state) /\ UNCHANGED blockedHosts
  BY <1>2 DEF Inspecting, ruleVars
<1>4. /\ WindowOK(p) /\ p.kind = "tls" /\ k \in Conns /\ blockedHosts # <<>> /\ ~Has(p, "SYN")
      /\ Received(delivered) /\ TableOK(t) /\ DeliveredIn(t, delivered) /\ i \in Slots
      /\ FlowOK(f) /\ f.conn = k /\ f.state # "free" /\ DeliveredOK(f, d)
  BY FollowedFacts
<1>5. ASSUME NEW D, \A c \in Conns \ {k} : D[c] = delivered[c], DeliveredOK(f, D[k])
      PROVE  DeliveredIn(flows', D)
  <2>1. \A j \in Slots \ {i} : t[j].state # "free" => DeliveredOK(t[j], delivered[t[j].conn])
    BY <1>4 DEF DeliveredIn
  <2> DEFINE s == f.state
  <2>2. \A g : /\ g.state = s /\ g.conn = f.conn /\ g.next = f.next /\ g.syn = f.syn
               /\ g.inspected = f.inspected
               => DeliveredOK(g, D[k])
    BY <1>5, SameDelivered
  <2>3. i \in SlotsOf(t, p.conn) /\ FlowOK(t[i]) /\ t[i].conn = p.conn /\ TableOK(t)
    BY <1>4
  <2>4. flows' = Settled(t, i, p, s)
    BY <1>3
  <2> HIDE DEF t, s
  <2> QED BY <2>4, <1>5, <2>1, <2>2, <2>3, SettledDelivered
<1>6. CASE f.state = "allow"
  <2>1. d = Whole(k) /\ Forward(p)
    BY <1>3, <1>4, <1>6 DEF DeliveredOK, Verdict
  <2>2. /\ lwip'.at = "idle" /\ Received(delivered')
        /\ \A c \in Conns \ {k} : delivered'[c] = delivered[c]
        /\ delivered'[k] = d \cup WindowOf(p)
    BY <1>4, <2>1, ForwardedHello
  <2>3. delivered'[k] = d
    BY <2>1, <2>2 DEF WindowOf
  <2>4. DeliveredIn(flows', delivered')
    BY <1>4, <1>5, <2>2, <2>3
  <2>5. CompletesIfPermitted
    BY <1>4, <2>2, <2>3, NothingCompletes
  <2> QED BY <1>3, <1>4, <2>2, <2>4, <2>5, Concluded
<1>7. CASE f.state = "block"
  <2>1. Drop
    BY <1>3, <1>7 DEF Verdict
  <2>2. DeliveredIn(flows', delivered)
    BY <1>4, <1>5
  <2> QED BY <1>3, <1>4, <2>1, <2>2, DropDelivers
<1> QED BY <1>3, <1>6, <1>7

\* A segment without data, after a gap or seen before brings nothing that the flow has
\* not read: all of it has been received already, if the flow saw the SYN.
LEMMA NothingNewDelivery ==
  ASSUME ParserGoesOn, StreamsShort, IInv, SInv, DInv, InspectNothingNew
  PROVE  DInv' /\ CompletesIfPermitted
<1>1. PICK p \in Followed : \E i \in SlotsOf(WithFlow(p), p.conn) :
        LET f == WithFlow(p)[i]
            gap == p.lo < p.hi /\ Delta(p, f) > 0
            s == Unfinished(p, IF gap THEN "block" ELSE "inspecting")
        IN  /\ Inspecting(p) /\ f.state = "inspecting"
            /\ \/ p.lo = p.hi
               \/ gap
               \/ (f.next - SeqAt(p.conn, p.lo)) % SeqNumMod >= p.hi - p.lo
            /\ flows' = Settled(WithFlow(p), i, p, s)
            /\ Verdict(p, s)
  BY DEF InspectNothingNew
<1>2. PICK i \in SlotsOf(WithFlow(p), p.conn) :
        LET f == WithFlow(p)[i]
            gap == p.lo < p.hi /\ Delta(p, f) > 0
            s == Unfinished(p, IF gap THEN "block" ELSE "inspecting")
        IN  /\ Inspecting(p) /\ f.state = "inspecting"
            /\ \/ p.lo = p.hi
               \/ gap
               \/ (f.next - SeqAt(p.conn, p.lo)) % SeqNumMod >= p.hi - p.lo
            /\ flows' = Settled(WithFlow(p), i, p, s)
            /\ Verdict(p, s)
  BY <1>1
<1> DEFINE t == WithFlow(p)
           f == t[i]
           k == p.conn
           d == delivered[k]
           gap == p.lo < p.hi /\ Delta(p, f) > 0
           s == Unfinished(p, IF gap THEN "block" ELSE "inspecting")
<1>3. /\ f.state = "inspecting" /\ flows' = Settled(t, i, p, s) /\ Verdict(p, s)
      /\ UNCHANGED blockedHosts /\ s \in {"inspecting", "block"}
      /\ s = "inspecting" => ~gap
      /\ p.lo = p.hi \/ gap \/ (f.next - SeqAt(k, p.lo)) % SeqNumMod >= p.hi - p.lo
  BY <1>2 DEF Inspecting, ruleVars, Unfinished
<1>4. /\ WindowOK(p) /\ p.kind = "tls" /\ k \in Conns /\ blockedHosts # <<>> /\ ~Has(p, "SYN")
      /\ p = lwip.packet /\ lwip.at = "rules"
      /\ Received(delivered) /\ TableOK(t) /\ DeliveredIn(t, delivered) /\ i \in Slots
      /\ FlowOK(f) /\ f.conn = k /\ f.state # "free" /\ Anchored(f) /\ DeliveredOK(f, d)
  BY FollowedFacts
<1> HIDE DEF s
<1>5. ASSUME NEW D, \A c \in Conns \ {k} : D[c] = delivered[c],
             s = "inspecting" => DeliveredOK(f, D[k])
      PROVE  DeliveredIn(flows', D)
  <2>1. \A j \in Slots \ {i} : t[j].state # "free" => DeliveredOK(t[j], delivered[t[j].conn])
    BY <1>4 DEF DeliveredIn
  <2>2. \A g : /\ g.state = s /\ g.conn = f.conn /\ g.next = f.next /\ g.syn = f.syn
               /\ g.inspected = f.inspected
               => DeliveredOK(g, D[k])
    <3> TAKE g
    <3> HAVE /\ g.state = s /\ g.conn = f.conn /\ g.next = f.next /\ g.syn = f.syn
             /\ g.inspected = f.inspected
    <3>1. CASE s = "inspecting"
      <4>1. DeliveredOK(f, D[k])
        BY <1>5, <3>1
      <4> HIDE DEF f
      <4> QED BY <1>3, <3>1, <4>1, SameDelivered
    <3>2. CASE s = "block"
      BY <3>2 DEF DeliveredOK
    <3> QED BY <1>3, <3>1, <3>2
  <2>3. i \in SlotsOf(t, p.conn) /\ FlowOK(t[i]) /\ t[i].conn = p.conn /\ TableOK(t)
    BY <1>4
  <2> HIDE DEF t
  <2> QED BY <1>3, <1>5, <2>1, <2>2, <2>3, SettledDelivered
<1>6. CASE s = "block"
  <2>1. Drop
    BY <1>3, <1>6 DEF Verdict
  <2>2. DeliveredIn(flows', delivered)
    BY <1>4, <1>5, <1>6
  <2> QED BY <1>3, <1>4, <2>1, <2>2, DropDelivers
<1>7. CASE s = "inspecting"
  <2>1. Forward(p)
    BY <1>3, <1>7 DEF Verdict
  <2>2. /\ lwip'.at = "idle" /\ Received(delivered')
        /\ \A c \in Conns \ {k} : delivered'[c] = delivered[c]
        /\ delivered'[k] = d \cup WindowOf(p)
    BY <1>4, <2>1, ForwardedHello
  <2>3. PICK a \in Nat : From(f, a) /\ f.next = SeqAt(k, a + f.inspected)
    BY <1>3, <1>4 DEF Anchored
  <2> DEFINE n == a + f.inspected
  <2>4. f.inspected \in Nat /\ n \in 0..Len(Streams[k]) /\ Len(Streams[k]) \in Nat
    <3>1. f.inspected \in Nat /\ Len(Streams[k]) \in Nat
      BY <1>4, StreamLength, AccessFilterAssumption DEF FlowOK
    <3> QED BY <1>4, <2>3, <3>1 DEF From
  <2>5. p.lo \in Nat /\ p.hi \in Nat /\ p.lo <= p.hi /\ p.hi <= Len(Streams[k])
    BY <1>4 DEF WindowOK
  <2>6. p.lo < p.hi => p.hi <= n
    <3> SUFFICES ASSUME p.lo < p.hi PROVE p.hi <= n
      OBVIOUS
    <3> DEFINE delta == Signed(SeqAt(k, p.lo), f.next)
               overlap == (f.next - SeqAt(k, p.lo)) % SeqNumMod
    <3>1. ~(delta > 0) /\ overlap >= p.hi - p.lo
      BY <1>3, <1>7, <2>5 DEF Delta
    <3>2. SeqAt(k, n) \in Int /\ SeqAt(k, p.lo) \in Int /\ SeqNumMod \in Nat \ {0}
      <4>1. n \in Int /\ p.lo \in Int
        BY <2>4, <2>5
      <4> HIDE DEF n, k
      <4> QED BY <1>4, <4>1, SeqNumber
    <3>3. delta \in Int
      <4> DEFINE x == SeqAt(k, p.lo)
                 y == SeqAt(k, n)
      <4>1. x \in Int /\ y \in Int /\ delta = Signed(x, y)
        BY <2>3, <3>2
      <4> HIDE DEF x, y, delta
      <4> QED BY <3>2, <4>1 DEF Signed
    <3>4. delta <= 0 /\ delta = Signed(SeqAt(k, p.lo), SeqAt(k, n))
            /\ overlap = (SeqAt(k, n) - SeqAt(k, p.lo)) % SeqNumMod
      <4> HIDE DEF k
      <4> QED BY <2>3, <3>1, <3>3
    <3> HIDE DEF delta, overlap, n
    <3>5. p.lo <= n /\ overlap = n - p.lo
      <4>1. p.lo \in 0..Len(Streams[k]) /\ p.lo < Len(Streams[k])
        BY <2>4, <2>5
      <4>2. Signed(SeqAt(k, p.lo), SeqAt(k, n)) <= 0
        BY <3>4
      <4> HIDE DEF k
      <4> QED BY <1>4, <2>4, <3>4, <4>1, <4>2, SeqOrder
    <3> QED BY <2>4, <2>5, <3>1, <3>5
  <2>7. WindowOf(p) \subseteq (1..n) \cap Whole(k)
    <3> HIDE DEF n
    <3> QED BY <2>4, <2>5, <2>6 DEF WindowOf
  <2>8. f.syn # None => a = 0
    BY <2>3 DEF From
  <2>9. a = 0 => WindowOf(p) \subseteq d
    <3> SUFFICES ASSUME a = 0 PROVE WindowOf(p) \subseteq d
      OBVIOUS
    <3>1. n = f.inspected
      BY <2>4
    <3>2. f.next = SeqAt(k, f.inspected)
      BY <2>3, <3>1
    <3>3. (1..f.inspected) \cap Whole(k) \subseteq d
      <4> HIDE DEF f
      <4> QED BY <1>3, <1>4, <3>2 DEF DeliveredOK
    <3> QED BY <2>7, <3>1, <3>3
  <2>10. DeliveredOK(f, delivered'[k])
    <3>1. a = 0 => delivered'[k] = d
      BY <2>2, <2>9
    <3>2. f.next = SeqAt(k, f.inspected) => a = 0
      <4> HIDE DEF f
      <4> QED BY <1>4, <2>3, FromTheFirst
    <3> HIDE DEF f, d, k
    <3> QED BY <1>3, <1>4, <2>8, <3>1, <3>2 DEF DeliveredOK, d
  <2>11. DeliveredIn(flows', delivered')
    BY <1>5, <2>2, <2>10
  <2>12. CompletesIfPermitted
    <3>1. CASE a = 0
      <4>1. delivered'[k] = d
        BY <2>2, <2>9, <3>1
      <4> QED BY <1>4, <2>2, <4>1, NothingCompletes
    <3>2. CASE a # 0
      <4>1. f.syn = None
        BY <2>8, <3>2
      <4>2. CASE Unknown(p)
        <5>1. p.lo < p.hi
                /\ ~((f.next - SeqAt(k, p.lo)) % SeqNumMod >= p.hi - p.lo)
          BY <4>2, NewFlowWants
        <5> QED BY <1>3, <1>7, <2>5, <5>1
      <4>3. CASE ~Unknown(p)
        <5>1. i \in SlotsOf(flows, k) /\ flows[i].syn = None /\ flows[i].state = "inspecting"
          BY <1>3, <4>1, <4>3, FlowBefore
        <5>2. \A c \in Conns \ {k} : delivered'[c] = delivered[c]
          BY <2>2
        <5> QED BY <5>1, <5>2 DEF CompletesIfPermitted
      <4> QED BY <4>2, <4>3
    <3> QED BY <3>1, <3>2
  <2> QED BY <1>3, <1>4, <2>2, <2>11, <2>12, Concluded
<1> QED BY <1>3, <1>6, <1>7

\* The thread is in the loop.
LEMMA GoesOn ==
  ASSUME NEW i \in Slots, lwip'.at = "feed", lwip'.slot = i, Received(delivered'), RulesSeen',
         NEW f, f = flows'[i], NEW d, d = delivered'[f.conn],
         lwip'.packet.lo <= lwip'.from, lwip'.from <= lwip'.pos,
         lwip'.pos = f.inspected => (1..lwip'.from) \cap Whole(f.conn) \subseteq d,
         f.syn # None => d \subseteq 1..lwip'.from,
         f.state = "allow" =>
           /\ lwip'.pos = f.inspected /\ lwip'.pos >= Hello[f.conn].length
           /\ Permitted(f.conn, SubSeq(blockedHosts', 1, lwip'.rules)),
         \A j \in Slots \ {i} :
           flows'[j].state # "free" => DeliveredOK(flows'[j], delivered'[flows'[j].conn])
  PROVE  DInv'
<1>1. /\ lwip'.packet.lo <= lwip'.from /\ lwip'.from <= lwip'.pos
      /\ lwip'.pos = flows'[i].inspected =>
           (1..lwip'.from) \cap Whole(flows'[i].conn) \subseteq delivered'[flows'[i].conn]
      /\ flows'[i].syn # None => delivered'[flows'[i].conn] \subseteq 1..lwip'.from
      /\ flows'[i].state = "allow" =>
           /\ lwip'.pos = flows'[i].inspected /\ lwip'.pos >= Hello[flows'[i].conn].length
           /\ Permitted(flows'[i].conn, SubSeq(blockedHosts', 1, lwip'.rules))
  OBVIOUS
<1> QED BY <1>1 DEF DInv, FeedingOK

\* What goes to the loop follows what has been received.
LEMMA DataDelivery ==
  ASSUME ParserGoesOn, StreamsShort, IInv, SInv, DInv, InspectData
  PROVE  DInv' /\ CompletesIfPermitted
<1>1. PICK p \in Followed : \E i \in SlotsOf(WithFlow(p), p.conn) :
        \E a \in Nat : DataOf(p, i, a)
  <2>1. lwip.at = "rules"
    BY InspectedPacket DEF InspectData, Followed
  <2> QED BY <2>1, Between, DataFollows
<1>2. PICK i \in SlotsOf(WithFlow(p), p.conn), a \in Nat : DataOf(p, i, a)
  BY <1>1
<1> DEFINE t == WithFlow(p)
           f == t[i]
           k == p.conn
           d == delivered[k]
           n == a + f.inspected
<1>3. /\ From(f, a) /\ f.next = SeqAt(f.conn, n) /\ f.state = "inspecting" /\ f.conn = k
      /\ p.lo <= n /\ n < p.hi /\ flows' = t
      /\ lwip' = [at |-> "feed", packet |-> p, rules |-> lwip.rules, slot |-> i,
                  from |-> n, pos |-> n]
  BY <1>2 DEF DataOf
<1>4. UNCHANGED <<blockedHosts, delivered>>
  BY DEF InspectData, Inspecting, ruleVars
<1>5. /\ lwip.at = "rules" /\ blockedHosts # <<>> /\ Received(delivered) /\ TableOK(t)
      /\ DeliveredIn(t, delivered) /\ i \in Slots /\ FlowOK(f) /\ DeliveredOK(f, d)
  BY FollowedFacts
<1>6. f.inspected \in Nat
  BY <1>5, AccessFilterAssumption DEF FlowOK
<1>7. /\ lwip'.packet = p /\ lwip'.from = n /\ lwip'.pos = n /\ lwip'.at = "feed"
      /\ lwip'.slot = i /\ lwip'.rules = lwip.rules
  BY <1>3
<1>8. a = 0 => n = f.inspected
  BY <1>6
<1>9. n = f.inspected => (1..n) \cap Whole(k) \subseteq d
  <2> SUFFICES ASSUME n = f.inspected PROVE (1..n) \cap Whole(k) \subseteq d
    OBVIOUS
  <2>1. f.next = SeqAt(f.conn, f.inspected)
    BY <1>3
  <2> HIDE DEF n, f
  <2> QED BY <1>3, <1>5, <2>1 DEF DeliveredOK
<1>10. f.syn # None => d \subseteq 1..n
  <2>1. f.syn # None => a = 0
    BY <1>3 DEF From
  <2> HIDE DEF n, f
  <2> QED BY <1>3, <1>5, <1>8, <2>1 DEF DeliveredOK
<1>11. RulesSeen'
  BY <1>4, <1>5, <1>7 DEF RulesSeen, DInv
<1>12. \A j \in Slots \ {i} :
         flows'[j].state # "free" => DeliveredOK(flows'[j], delivered'[flows'[j].conn])
  BY <1>3, <1>4, <1>5 DEF DeliveredIn
<1>13. f = flows'[i] /\ d = delivered'[f.conn] /\ Received(delivered')
  BY <1>3, <1>4, <1>5
<1>14. n \in Int
  BY <1>6
<1> HIDE DEF t, f, d, n
<1>15. DInv'
  BY <1>3, <1>5, <1>7, <1>9, <1>10, <1>11, <1>12, <1>13, <1>14, GoesOn
<1> QED BY <1>4, <1>5, <1>15, NothingCompletes

\* The rules a packet met are among those its host name is looked up in.
LEMMA FewerRules ==
  ASSUME RulesTypeOK, NEW r \in 0..Len(blockedHosts), NEW k, Permitted(k, blockedHosts)
  PROVE  Permitted(k, SubSeq(blockedHosts, 1, r))
<1> DEFINE all == blockedHosts
           first == SubSeq(all, 1, r)
<1>1. all \in Seq(Names) /\ Len(all) \in Nat
  BY LenProperties DEF RulesTypeOK
<1>2. Len(first) = r /\ \A i \in 1..r : first[i] = all[i]
  <2>1. r \in Nat /\ r <= Len(all)
    BY <1>1
  <2> HIDE DEF all
  <2> QED BY <1>1, <2>1, SubSeqProperties
<1>3. first \in Seq(Names)
  <2>1. r \in Int /\ \A i \in 1..r : all[i] \in Names
    BY <1>1, ElementOfSeq
  <2> HIDE DEF all
  <2> QED BY <1>1, <2>1, SubSeqProperties
<1>4. DOMAIN first = 1..r /\ DOMAIN all = 1..Len(all)
  BY <1>1, <1>2, <1>3, LenProperties
<1>5. Listed(first) \subseteq Listed(all)
  <2> HIDE DEF first, all
  <2> QED BY <1>1, <1>2, <1>4 DEF Listed, all
<1> QED BY <1>5 DEF Permitted, Covers

\* A judgement is made on the whole hello, by the rules of that moment.
LEMMA ChunkDelivery ==
  ASSUME ParserGoesOn, ParserReadsHello, RulesTypeOK, IInv, SInv, DInv, FeedChunk
  PROVE  DInv' /\ CompletesIfPermitted
<1>1. PICK a \in Nat, n \in Nat : TurnOf(a, n)
  BY ChunkTurns
<1> DEFINE i == lwip.slot
           f == flows[i]
           k == f.conn
           d == delivered[k]
           c == lwip.pos + n
           t == ReadOf(k, a, c)
           g == flows'[i]
<1>2. /\ From(f, a) /\ lwip.pos = a + f.inspected /\ c <= lwip.packet.hi
      /\ g = [state |-> Judged(t), conn |-> k, next |-> f.next, syn |-> f.syn,
              inspected |-> f.inspected + n, last_seen |-> f.last_seen, parser |-> t.parser]
      /\ \A j \in Slots \ {i} : flows'[j] = flows[j]
      /\ lwip' = [at |-> "feed", packet |-> lwip.packet, rules |-> lwip.rules, slot |-> i,
                  from |-> lwip.from, pos |-> c]
  BY <1>1 DEF TurnOf
<1>3. UNCHANGED <<blockedHosts, delivered>> /\ lwip.at = "feed"
  BY DEF FeedChunk, Feeding, ruleVars
<1>4. i \in Slots /\ f.state # "free" /\ FlowOK(f) /\ k = lwip.packet.conn /\ k \in Conns
  BY <1>3, TheSlot DEF FlowOK
<1>5. FeedingOK(f, d) /\ Received(delivered) /\ RulesSeen
  BY <1>3, <1>4 DEF DInv
<1>6. lwip.from \in Int /\ lwip.pos \in Int /\ f.inspected \in Nat
  BY <1>3, <1>4, AccessFilterAssumption DEF IInv, LwipInv, FeedOK, FlowOK
<1>7. /\ lwip'.packet = lwip.packet /\ lwip'.from = lwip.from /\ lwip'.pos = c
      /\ lwip'.at = "feed" /\ lwip'.slot = i /\ lwip'.rules = lwip.rules
      /\ g.conn = k /\ g.inspected = f.inspected + n /\ g.syn = f.syn /\ g.state = Judged(t)
  BY <1>2
<1>8. a \in 0..Len(Streams[k]) /\ c \in 0..Len(Streams[k]) /\ a <= c
  <2> DEFINE pos == lwip.pos
             hi == lwip.packet.hi
             L == Len(Streams[k])
             r == f.inspected
  <2>1. hi \in Nat /\ hi <= L /\ L \in Nat
    BY <1>3, <1>4, StreamLength DEF IInv, LwipInv, WindowOK
  <2>2. pos \in Int /\ r \in Nat /\ pos = a + r /\ pos + n <= hi
    BY <1>2, <1>6
  <2> HIDE DEF pos, hi, L, r
  <2>3. a \in 0..L /\ pos + n \in 0..L /\ a <= pos + n
    BY <2>1, <2>2
  <2> QED BY <2>3 DEF pos, L
<1>9. c = g.inspected <=> lwip.pos = f.inspected
  <2> DEFINE pos == lwip.pos
             r == f.inspected
  <2>1. pos \in Int /\ r \in Int
    BY <1>6
  <2> HIDE DEF pos, r
  <2>2. pos + n = r + n <=> pos = r
    BY <2>1
  <2> QED BY <1>7, <2>2 DEF pos, r
<1>10. lwip.from <= c
  <2> DEFINE pos == lwip.pos
             from == lwip.from
  <2>1. pos \in Int /\ from \in Int /\ from <= pos
    BY <1>5, <1>6 DEF FeedingOK
  <2> HIDE DEF pos, from
  <2>2. from <= pos + n
    BY <2>1
  <2> QED BY <2>2 DEF pos, from
<1>11. blockedHosts # <<>> /\ lwip.rules \in 0..Len(blockedHosts)
  BY <1>3, <1>4, <1>5 DEF RulesSeen
<1>12. Judged(t) = "allow" =>
         c = g.inspected /\ c >= Hello[k].length /\ Permitted(k, SubSeq(blockedHosts, 1, lwip.rules))
  <2> SUFFICES ASSUME Judged(t) = "allow"
               PROVE  /\ c = g.inspected /\ c >= Hello[k].length
                      /\ Permitted(k, SubSeq(blockedHosts, 1, lwip.rules))
    OBVIOUS
  <2>1. t.result = "found" /\ ~t.parser.ech /\ ~HostBlocked(Spelled[t.host])
    BY DEF Judged
  <2>2. a = 0 /\ c >= Hello[k].length /\ Hello[k].host # None /\ Hello[k].host = Spelled[t.host]
    <3> HIDE DEF c, k
    <3> QED BY <1>4, <1>8, <2>1 DEF ParserReadsHello, ReadOf
  <2>3. Permitted(k, blockedHosts)
    BY <1>11, <2>1, <2>2 DEF HostBlocked, Permitted
  <2>4. lwip.pos = f.inspected
    BY <1>2, <1>6, <2>2
  <2> QED BY <1>9, <1>11, <2>2, <2>3, <2>4, FewerRules
<1>13. RulesSeen'
  BY <1>3, <1>7, <1>11 DEF RulesSeen
<1>14. \A j \in Slots \ {i} :
         flows'[j].state # "free" => DeliveredOK(flows'[j], delivered'[flows'[j].conn])
  BY <1>2, <1>3 DEF DInv
<1>15. d = delivered'[g.conn] /\ Received(delivered')
  BY <1>3, <1>5, <1>7
<1>16. /\ lwip.packet.lo <= lwip.from
       /\ c = g.inspected => (1..lwip.from) \cap Whole(k) \subseteq d
       /\ g.syn # None => d \subseteq 1..lwip.from
  BY <1>5, <1>7, <1>9 DEF FeedingOK
<1> HIDE DEF t, c, d, k
<1>17. DInv'
  <2> DEFINE h == g
  <2>1. h = flows'[i] /\ h.conn = k /\ h.state = Judged(t)
    BY <1>7
  <2> HIDE DEF h, i
  <2> QED BY <1>3, <1>4, <1>7, <1>10, <1>12, <1>13, <1>14, <1>15, <1>16, <2>1, GoesOn DEF h
<1> QED BY <1>3, <1>5, <1>17, NothingCompletes

\* The packet leaves: a flow that goes on has read all that was received, and not the
\* whole hello; a permitted one has.
LEMMA EndDelivery ==
  ASSUME ParserReadsHello, StreamsShort, IInv, SInv, DInv, FeedEnd
  PROVE  DInv' /\ CompletesIfPermitted
<1>1. PICK a \in Nat : \E s : EndOf(a, s)
  BY EndLeaves
<1>0. PICK s : EndOf(a, s)
  BY <1>1
<1> DEFINE i == lwip.slot
           f == flows[i]
           p == lwip.packet
           k == p.conn
           d == delivered[k]
           W == Whole(k)
           g == [state |-> s, conn |-> k, next |-> SeqAt(k, p.hi), syn |-> f.syn,
                 inspected |-> f.inspected, last_seen |-> f.last_seen, parser |-> f.parser]
<1>2. lwip.at = "feed" /\ UNCHANGED blockedHosts
  BY DEF FeedEnd, Feeding, ruleVars
<1>3. /\ i \in Slots /\ f.state # "free" /\ FlowOK(f) /\ f.conn = k /\ k \in Conns
      /\ TableOK(flows) /\ WindowOK(p)
  BY <1>2, TheSlot DEF FlowOK, IInv, LwipInv
<1>4. /\ From(f, a) /\ lwip.pos = a + f.inspected
      /\ s = Unfinished(p, IF f.state = "inspecting" /\ f.inspected >= StreamLimit
                           THEN "block" ELSE f.state)
      /\ s = "inspecting" => f.state = "inspecting" /\ lwip.pos = p.hi
      /\ flows'[i] = IF Has(p, "FIN") THEN Free ELSE g
      /\ \A j \in Slots \ {i} : flows'[j] = flows[j]
      /\ Verdict(p, s)
  BY <1>0, <1>3 DEF EndOf
<1>5. FeedingOK(f, d) /\ Received(delivered) /\ blockedHosts # <<>>
  BY <1>2, <1>3 DEF DInv, RulesSeen
<1>6. \A j \in Slots \ {i} : flows[j].state # "free" =>
        DeliveredOK(flows[j], delivered[flows[j].conn]) /\ flows[j].conn # k /\ flows[j].conn \in Conns
  <2> TAKE j \in Slots \ {i}
  <2> HAVE flows[j].state # "free"
  <2>1. flows[j] = Free \/ FlowOK(flows[j])
    BY <1>3 DEF TableOK
  <2>2. flows[j].conn \in Conns
    BY <2>1 DEF Free, FlowOK
  <2>3. flows[j].conn # k
    BY <1>3 DEF TableOK, Unique
  <2> QED BY <1>2, <2>2, <2>3 DEF DInv
<1>7. ASSUME NEW D, \A c \in Conns \ {k} : D[c] = delivered[c], DeliveredOK(g, D[k])
      PROVE  DeliveredIn(flows', D)
  <2> SUFFICES ASSUME NEW j \in Slots, flows'[j].state # "free"
               PROVE  DeliveredOK(flows'[j], D[flows'[j].conn])
    BY DEF DeliveredIn
  <2>1. CASE j = i
    <3>1. flows'[j] = g /\ g.conn = k
      BY <1>4, <2>1 DEF Free
    <3> HIDE DEF g
    <3> QED BY <1>7, <3>1
  <2>2. CASE j # i
    BY <1>4, <1>6, <1>7, <2>2
  <2> QED BY <2>1, <2>2
<1>8. s \in {"inspecting", "allow", "block"}
  BY <1>3, <1>4 DEF Unfinished, FlowOK, Judgements
<1>9. /\ lwip.from \in Int /\ lwip.pos \in Int /\ f.inspected \in Nat
      /\ p.lo \in Nat /\ p.hi \in Nat /\ p.lo <= p.hi /\ p.hi <= Len(Streams[k])
      /\ ~Has(p, "SYN") \/ p.lo = p.hi
  BY <1>2, <1>3, AccessFilterAssumption DEF IInv, LwipInv, FeedOK, FlowOK, WindowOK
<1>10. /\ g.state = s /\ g.conn = k /\ g.next = SeqAt(k, p.hi) /\ g.syn = f.syn
       /\ g.inspected = f.inspected
  OBVIOUS
<1>11. CASE s = "block"
  <2>1. Drop
    BY <1>4, <1>11 DEF Verdict
  <2>2. DeliveredOK(g, d)
    BY <1>11 DEF DeliveredOK
  <2> HIDE DEF g
  <2>3. DeliveredIn(flows', delivered)
    BY <1>7, <2>2
  <2> QED BY <1>2, <1>5, <2>1, <2>3, DropDelivers
<1> HIDE DEF g, d, i
<1>12. CASE s \in {"inspecting", "allow"}
  <2>1. Forward(p)
    BY <1>4, <1>12 DEF Verdict
  <2>2. p.kind = "tls" /\ ~Has(p, "SYN")
    BY <1>2 DEF IInv, LwipInv, FeedOK
  <2>3. /\ lwip'.at = "idle" /\ Received(delivered')
        /\ \A c \in Conns \ {k} : delivered'[c] = delivered[c]
        /\ delivered'[k] = d \cup WindowOf(p)
    BY <1>3, <1>5, <2>1, <2>2, ForwardedHello DEF d
  <2> DEFINE e == d \cup WindowOf(p)
             n == f.inspected
             from == lwip.from
             pos == lwip.pos
             lo == p.lo
             hi == p.hi
  <2>4. /\ lo <= from /\ from <= pos
        /\ pos = n => (1..from) \cap W \subseteq d
        /\ f.syn # None => d \subseteq 1..from
        /\ f.state = "allow" => pos = n /\ pos >= Hello[k].length
                                /\ Permitted(k, SubSeq(blockedHosts, 1, lwip.rules))
    BY <1>3, <1>5 DEF FeedingOK
  <2>5. pos <= hi
    BY <1>2, FedFlow DEF BeingFed
  <2>6. f.syn # None => a = 0
    BY <1>4 DEF From
  <2>7. /\ from \in Int /\ pos \in Int /\ n \in Nat /\ lo \in Nat /\ hi \in Nat /\ a \in Nat
        /\ pos = a + n /\ Hello[k].length \in Nat
    BY <1>3, <1>4, <1>9, HelloLength
  <2>8. W = 1..Hello[k].length /\ WindowOf(p) = (lo + 1 .. hi) \cap W
    BY DEF Whole, WindowOf
  <2>9. d \subseteq W
    BY <1>3, <1>5 DEF Received, d
  <2>10. /\ s = "inspecting" => f.state = "inspecting" /\ pos = hi
         /\ s = "allow" => f.state = "allow"
    BY <1>4 DEF Unfinished
  <2> HIDE DEF e, n, from, pos, lo, hi, W, k, p
  <2>11. s = "inspecting" /\ a = 0 => (1..n) \cap W \subseteq e
    <3> SUFFICES ASSUME s = "inspecting", a = 0, NEW x \in (1..n) \cap W PROVE x \in e
      OBVIOUS
    <3>1. x \in 1..from \/ x \in lo + 1 .. hi
      BY <2>4, <2>7, <2>10
    <3> QED BY <2>4, <2>7, <2>8, <3>1 DEF e
  <2>12. s = "inspecting" /\ f.syn # None => e \subseteq 1..n
    <3> SUFFICES ASSUME s = "inspecting", f.syn # None, NEW x \in e PROVE x \in 1..n
      OBVIOUS
    <3>1. x \in 1..from \/ x \in lo + 1 .. hi
      BY <2>4, <2>8 DEF e
    <3> QED BY <2>4, <2>5, <2>6, <2>7, <2>10, <3>1
  <2>13. s = "allow" => e = W
    <3> SUFFICES ASSUME s = "allow", NEW x \in W PROVE x \in e
      BY <2>8, <2>9 DEF e
    <3>1. x \in 1..Hello[k].length /\ pos = n /\ Hello[k].length <= hi
      BY <2>4, <2>5, <2>7, <2>8, <2>10
    <3>2. x \in 1..from \/ x \in lo + 1 .. hi
      BY <2>4, <2>7, <3>1
    <3> QED BY <2>4, <2>8, <3>1, <3>2 DEF e
  <2>14. DeliveredOK(g, e)
    <3>1. s = "inspecting" /\ SeqAt(k, hi) = SeqAt(k, n) => a = 0
      <4> SUFFICES ASSUME s = "inspecting", SeqAt(k, hi) = SeqAt(k, n) PROVE a = 0
        OBVIOUS
      <4>1. hi = a + n /\ hi <= Len(Streams[k]) /\ k \in Conns
        BY <1>3, <1>9, <2>7, <2>10 DEF hi
      <4>2. n \in Nat /\ a \in Nat
        BY <2>7
      <4> QED BY <4>1, <4>2, SamePlace
    <3> QED BY <1>10, <2>11, <2>12, <2>13, <3>1 DEF DeliveredOK, W, hi, n
  <2>15. DeliveredIn(flows', delivered')
    BY <1>7, <2>3, <2>14 DEF e
  <2>16. CompletesIfPermitted
    <3> SUFFICES ASSUME d # W, e = W
                 PROVE  \/ lwip.rules = 0 \/ Permitted(k, SubSeq(blockedHosts, 1, lwip.rules))
                        \/ \E j \in SlotsOf(flows, k) :
                             flows[j].syn = None /\ (flows[j].state = "inspecting" \/ lwip.at = "feed")
      BY <2>3 DEF CompletesIfPermitted, d, e, W, Whole
    <3>1. CASE s = "allow"
      BY <2>4, <2>10, <3>1
    <3>2. CASE f.syn = None
      BY <1>2, <1>3, <3>2 DEF SlotsOf, i, k
    <3>3. CASE s = "inspecting" /\ f.syn # None
      <4>1. ~(hi >= Hello[k].length)
        <5>1. ReadOf(k, a, a + n).result = "need_more"
          BY <1>3, <1>4, <2>10, <3>3 DEF From, k, n
        <5>2. a = 0 /\ a + n = hi
          BY <2>6, <2>7, <2>10, <3>3
        <5>3. ReadOf(k, 0, hi).result = "need_more"
          BY <5>1, <5>2
        <5>4. k \in Conns /\ 0 \in 0..Len(Streams[k]) /\ hi \in 0..Len(Streams[k]) /\ 0 <= hi
          BY <1>3, <1>9, <2>7, StreamLength DEF hi
        <5> QED BY <5>3, <5>4 DEF ParserReadsHello, ReadOf
      <4>2. Hello[k].length \in W /\ Hello[k].length \notin e
        BY <2>5, <2>7, <2>8, <2>10, <2>12, <3>3, <4>1
      <4> QED BY <4>2
    <3> QED BY <1>12, <3>1, <3>2, <3>3
  <2> QED BY <1>2, <1>5, <2>3, <2>15, <2>16, Concluded
<1> QED BY <1>8, <1>11, <1>12

\* Rules only come, at the end of the table.
LEMMA RulesGrow ==
  ASSUME RulesTypeOK, InstallRule
  PROVE  /\ Len(blockedHosts) <= Len(blockedHosts') /\ Len(blockedHosts) \in Nat
         /\ Len(blockedHosts') \in Nat
         /\ blockedHosts' = <<>> => blockedHosts = <<>>
         /\ \A r \in 0..Len(blockedHosts) : SubSeq(blockedHosts', 1, r) = SubSeq(blockedHosts, 1, r)
<1> DEFINE all == blockedHosts
<1>1. all \in Seq(Names) /\ Len(all) \in Nat
  BY LenProperties DEF RulesTypeOK
<1>2. CASE blockedHosts' = blockedHosts
  BY <1>1, <1>2
<1>3. CASE blockedHosts' # blockedHosts
  <2>1. \E e : blockedHosts' = Append(all, e)
    BY <1>3 DEF InstallRule, BlockTraffic, Added, ruleVars
  <2>2. PICK e : blockedHosts' = Append(all, e)
    BY <2>1
  <2> HIDE DEF all
  <2> DEFINE S == Names \cup {e}
             more == Append(all, e)
  <2>3. all \in Seq(S)
    BY <1>1, LenProperties, ElementOfSeq
  <2>4. more \in Seq(S) /\ Len(more) = Len(all) + 1 /\ \A i \in 1..Len(all) : more[i] = all[i]
    BY <2>3, AppendProperties
  <2>5. \A r \in 0..Len(all) : SubSeq(more, 1, r) = SubSeq(all, 1, r)
    <3> TAKE r \in 0..Len(all)
    <3>1. r \in Int /\ \A i \in 1..r : all[i] \in S /\ more[i] \in S /\ more[i] = all[i]
      BY <1>1, <2>3, <2>4, ElementOfSeq
    <3> HIDE DEF S, more
    <3>2. /\ SubSeq(more, 1, r) \in Seq(S) /\ SubSeq(all, 1, r) \in Seq(S)
          /\ Len(SubSeq(more, 1, r)) = Len(SubSeq(all, 1, r)) /\ Len(SubSeq(all, 1, r)) = r
          /\ \A i \in 1..r : SubSeq(more, 1, r)[i] = more[i] /\ SubSeq(all, 1, r)[i] = all[i]
      BY <1>1, <3>1, SubSeqProperties
    <3> QED BY <3>1, <3>2, SeqEqual
  <2>6. more # <<>>
    BY <1>1, <2>4, EmptySeq
  <2> HIDE DEF more
  <2> QED BY <1>1, <2>2, <2>4, <2>5, <2>6 DEF all, more
<1> QED BY <1>2, <1>3

\* A packet to which no inspection applies leaves.
LEMMA UninspectedDelivery ==
  ASSUME IInv, DInv, Uninspected
  PROVE  DInv' /\ CompletesIfPermitted
<1> DEFINE p == lwip.packet
           k == p.conn
<1>1. /\ lwip.at = "rules" /\ UNCHANGED <<blockedHosts, flows>>
      /\ blockedHosts = <<>> \/ p.kind # "tls"
      /\ IF blockedHosts = <<>> \/ p.kind = "other" THEN Forward(p) ELSE Drop
  BY DEF Uninspected, ruleVars
<1>2. /\ Received(delivered) /\ RulesSeen /\ k \in Conns
      /\ DeliveredIn(flows, delivered)
  BY <1>1 DEF DInv, DeliveredIn, IInv, LwipInv, WindowOK
<1>3. lwip'.at = "idle"
  BY <1>1 DEF Forward, Drop, Resting
<1>4. RulesSeen'
  BY <1>1, <1>2, <1>3 DEF RulesSeen
<1>5. \A c \in Conns : delivered'[c] = delivered[c] \/ delivered'[c] = {}
  <2>1. delivered = [c \in Conns |-> delivered[c]]
    BY <1>2 DEF Received
  <2>2. \/ delivered' = delivered \/ delivered' = [delivered EXCEPT ![k] = {}]
        \/ delivered' = [delivered EXCEPT ![k] = @ \cup {}]
    <3>1. CASE blockedHosts = <<>>
      BY <1>1, <3>1 DEF Forward
    <3>2. CASE blockedHosts # <<>> /\ p.kind = "other"
      BY <1>1, <3>2 DEF Forward
    <3>3. CASE blockedHosts # <<>> /\ p.kind # "other"
      BY <1>1, <3>3 DEF Drop
    <3> QED BY <3>1, <3>2, <3>3
  <2> HIDE DEF k
  <2> QED BY <1>2, <2>1, <2>2
<1>6. delivered' = [c \in Conns |-> delivered'[c]]
  <2>1. delivered = [c \in Conns |-> delivered[c]]
    BY <1>2 DEF Received
  <2>2. CASE Forward(p)
    <3>1. \E e : delivered' = [delivered EXCEPT ![k] = e]
      BY <1>2, <2>1, <2>2 DEF Forward
    <3> HIDE DEF k
    <3> QED BY <1>2, <2>1, <3>1
  <2>3. CASE Drop
    BY <2>1, <2>3 DEF Drop
  <2> QED BY <1>1, <2>2, <2>3
<1>7. Received(delivered')
  BY <1>2, <1>5, <1>6 DEF Received
<1>8. DeliveredIn(flows', delivered')
  <2>1. CASE blockedHosts = <<>>
    BY <1>1, <1>2, <2>1 DEF RulesSeen, DeliveredIn
  <2>2. CASE blockedHosts # <<>>
    <3>1. \A c \in Conns : delivered'[c] = delivered[c]
      <4>1. CASE p.kind = "other"
        <5>1. delivered' = [delivered EXCEPT ![k] = @ \cup {}]
          BY <1>1, <2>2, <4>1 DEF Forward
        <5>2. delivered = [c \in Conns |-> delivered[c]]
          BY <1>2 DEF Received
        <5> HIDE DEF k
        <5> QED BY <1>2, <5>1, <5>2
      <4>2. CASE p.kind # "other"
        BY <1>1, <2>2, <4>2 DEF Drop
      <4> QED BY <4>1, <4>2
    <3> QED BY <1>1, <1>2, <1>6, <3>1 DEF Received
  <2> QED BY <2>1, <2>2
<1>9. DInv'
  BY <1>3, <1>4, <1>7, <1>8 DEF DInv, DeliveredIn
<1>10. CompletesIfPermitted
  BY <1>2, <1>5, NothingCompletes
<1> QED BY <1>9, <1>10

LEMMA DeliveryStep ==
  ASSUME ParserGoesOn, StreamsShort, ParserReadsHello, RulesTypeOK, IInv, SInv, DInv,
         [Next]_vars
  PROVE  DInv' /\ [CompletesIfPermitted]_vars
<1>1. CASE Receive \/ ReceiveExempt
  <2>1. /\ UNCHANGED <<blockedHosts, flows, delivered>> /\ lwip.at = "idle"
        /\ \/ lwip'.at = "idle"
           \/ lwip'.at = "rules" /\ lwip'.rules = Len(blockedHosts)
    BY <1>1 DEF Receive, ReceiveExempt, Resting, ruleVars
  <2>2. Len(blockedHosts) \in Nat
    BY LenProperties DEF RulesTypeOK
  <2>3. RulesSeen'
    BY <2>1, <2>2 DEF RulesSeen, DInv
  <2>4. DInv'
    BY <2>1, <2>3 DEF DInv
  <2> QED BY <2>1, <2>4, NothingCompletes DEF DInv
<1>2. CASE Uninspected
  BY <1>2, UninspectedDelivery
<1>3. CASE Inspect
  BY <1>3, InspectDelivery, DecidedDelivery, NothingNewDelivery, DataDelivery DEF Inspect
<1>4. CASE FeedChunk
  BY <1>4, ChunkDelivery
<1>5. CASE FeedEnd
  BY <1>5, EndDelivery
<1>6. CASE InstallRule
  <2>1. UNCHANGED <<flows, lwip, delivered>>
    BY <1>6 DEF InstallRule, filterVars
  <2>2. /\ Len(blockedHosts) <= Len(blockedHosts') /\ Len(blockedHosts) \in Nat
        /\ Len(blockedHosts') \in Nat
        /\ blockedHosts' = <<>> => blockedHosts = <<>>
        /\ \A r \in 0..Len(blockedHosts) : SubSeq(blockedHosts', 1, r) = SubSeq(blockedHosts, 1, r)
    BY <1>6, RulesGrow
  <2>3. RulesSeen'
    BY <2>1, <2>2 DEF RulesSeen, DInv
  <2>4. lwip.at = "feed" =>
          SubSeq(blockedHosts', 1, lwip.rules) = SubSeq(blockedHosts, 1, lwip.rules)
    BY <2>2 DEF DInv, RulesSeen
  <2>5. \A i \in Slots : lwip.at = "feed" /\ FeedingOK(flows[i], delivered[flows[i].conn]) =>
          (FeedingOK(flows[i], delivered[flows[i].conn]))'
    BY <2>1, <2>4 DEF FeedingOK
  <2>6. DInv'
    BY <2>1, <2>3, <2>5 DEF DInv
  <2> QED BY <2>1, <2>6, NothingCompletes DEF DInv
<1>7. CASE Advance
  <2>1. UNCHANGED <<blockedHosts, flows, lwip, delivered>>
    BY <1>7 DEF Advance, ruleVars
  <2>2. DInv'
    BY <2>1 DEF DInv, RulesSeen, FeedingOK
  <2> QED BY <2>1, <2>2, NothingCompletes DEF DInv
<1>8. CASE UNCHANGED vars
  <2>1. UNCHANGED <<blockedHosts, flows, lwip, delivered>>
    BY <1>8 DEF vars, filterVars, ruleVars
  <2>2. DInv'
    BY <2>1 DEF DInv, RulesSeen, FeedingOK
  <2> QED BY <1>8, <2>2
<1> QED BY <1>1, <1>2, <1>3, <1>4, <1>5, <1>6, <1>7, <1>8 DEF Next

LEMMA ReadingInvariance ==
  ASSUME ParserGoesOn, StreamsShort
  PROVE  Spec => [](RulesTypeOK /\ IInv /\ SInv)
<1>1. Init => RulesTypeOK
  BY EmptySeq DEF Init, RulesInit, RulesTypeOK
<1>2. RulesTypeOK /\ [Next]_vars => RulesTypeOK'
  BY RulesStep
<1>3. Init => SInv
  BY DEF Init, SInv, Free
<1>4. IInv /\ SInv /\ [Next]_vars => SInv'
  BY ReadingStep
<1> QED BY <1>1, <1>2, <1>3, <1>4, Invariance, PTL DEF Spec

\* A server never receives the whole of a hello the rules forbid, from any number of
\* connections, in whatever pieces and order and with whatever is lost or sent twice.
THEOREM BlockedNeverWhole ==
  ASSUME ParserGoesOn, StreamsShort, ParserReadsHello
  PROVE  Spec => BlockedHelloIncomplete
<1>1. Init => DInv
  <2> SUFFICES ASSUME Init PROVE DInv
    OBVIOUS
  <2>1. delivered = [k \in Conns |-> {}] /\ flows = [i \in Slots |-> Free] /\ lwip.at = "idle"
    BY DEF Init, Resting
  <2>2. Received(delivered) /\ \A i \in Slots : flows[i].state = "free"
    BY <2>1 DEF Received, Free
  <2> QED BY <2>1, <2>2 DEF DInv, RulesSeen
<1>2. RulesTypeOK /\ IInv /\ SInv /\ DInv /\ [Next]_vars => DInv' /\ [CompletesIfPermitted]_vars
  BY DeliveryStep
<1> QED BY <1>1, <1>2, ReadingInvariance, PTL DEF Spec, BlockedHelloIncomplete

---------------------------------------------------------------------------
(* What the filter has heard *)

Wanted(k) == Permitted(k, blockedHosts) /\ Hello[k].length <= StreamLimit

LateFor(k, h) ==
  clock - h.at >= IF h.upto >= Hello[k].length THEN DecisionTimeout ELSE InspectTimeout

\* Flow f of connection k is where the filter, which heard h, should have it.
Tracks(f, k, h) ==
  /\ f.syn # None /\ f.last_seen = h.at
  /\ \/ f.state = "inspecting" /\ f.inspected = h.upto
     \/ f.state = "allow" /\ h.upto >= Hello[k].length

\* Some flow is, unless the connection is over.
HeardBefore(t, k, h) == h.fin \/ LateFor(k, h) \/ \E i \in SlotsOf(t, k) : Tracks(t[i], k, h)

\* While it is given a segment.
HeardNow(k) ==
  LET f == flows[lwip.slot]
  IN  /\ f.syn # None /\ f.last_seen = clock /\ heard[k].at = clock
      /\ heard[k].upto = lwip.packet.hi /\ heard[k].fin = Has(lwip.packet, "FIN")
      /\ f.state = "inspecting" \/ (f.state = "allow" /\ lwip.pos >= Hello[k].length)

Heard(H) ==
  /\ H = [k \in Conns |-> H[k]]
  /\ \A k \in Conns : H[k].upto \in Int /\ H[k].at \in Int

HInv ==
  /\ Heard(heard)
  /\ \A k \in Conns : heard[k].upto # -1 /\ Wanted(k) =>
       IF lwip.at = "feed" /\ lwip.packet.conn = k THEN HeardNow(k)
       ELSE HeardBefore(flows, k, heard[k])

\* A flow of a connection heard from its SYN on that is not judged has not read the
\* whole hello, and so its time is over when the connection's is.
LEMMA LateIsExpired ==
  ASSUME ParserReadsHello, IInv, NEW k \in Conns, NEW f, FlowOK(f), f.conn = k, Anchored(f),
         NEW h, Tracks(f, k, h)
  PROVE  /\ LateFor(k, h) <=> Expired(f)
         /\ f.state = "inspecting" => ~(f.inspected >= Hello[k].length)
<1>1. f.state = "inspecting" => ~(f.inspected >= Hello[k].length)
  <2> SUFFICES ASSUME f.state = "inspecting" PROVE ~(f.inspected >= Hello[k].length)
    OBVIOUS
  <2>1. PICK a \in Nat : From(f, a)
    BY DEF Anchored
  <2>2. a = 0 /\ a + f.inspected <= Len(Streams[k])
          /\ ReadOf(k, a, a + f.inspected).result = "need_more"
    BY <2>1 DEF From, Tracks
  <2>3. f.inspected \in Nat /\ Len(Streams[k]) \in Nat
    BY StreamLength, AccessFilterAssumption DEF FlowOK
  <2> DEFINE n == f.inspected
  <2>4. n \in 0..Len(Streams[k]) /\ ReadOf(k, 0, n).result = "need_more" /\ 0 <= n
          /\ 0 \in 0..Len(Streams[k])
    BY <2>2, <2>3
  <2> HIDE DEF n
  <2>5. ~(n >= Hello[k].length)
    BY <2>4 DEF ParserReadsHello, ReadOf
  <2> QED BY <2>5 DEF n
<1>2. Expired(f) <=> clock - f.last_seen >= Timeout(f)
  BY Elapsed DEF IInv
<1>3. f.state \in {"inspecting", "allow", "block"}
  BY DEF FlowOK, Judgements
<1>4. h.upto >= Hello[k].length <=> f.state # "inspecting"
  BY <1>1, <1>3 DEF Tracks
<1> QED BY <1>1, <1>2, <1>4 DEF LateFor, Timeout, Tracks

\* Table t has all flows of other connections than k that are not over.
Spares(t, k) ==
  \A i \in Slots :
    flows[i].state # "free" /\ flows[i].conn # k /\ ~Expired(flows[i]) => t[i] = flows[i]

LEMMA UnexpiredSpares ==
  ASSUME NEW k
  PROVE  Spares(Unexpired, k) /\ Spares(Cleared(Unexpired, k), k)
BY DEF Spares, Unexpired, Cleared, SlotsOf

LEMMA TouchedSpares ==
  ASSUME NEW k, NEW t, Spares(t, k)
  PROVE  Spares(Touched(t, k), k)
BY DEF Spares, Touched, SlotsOf

LEMMA CreatedSpares ==
  ASSUME NEW k, NEW t, TableOK(t), FreeSlots(t) # {}, Spares(t, k), NEW next, NEW syn
  PROVE  Spares(Created(t, k, next, syn), k)
<1> DEFINE u == Created(t, k, next, syn)
           at == FreeSlot(t)
<1>1. at \in Slots /\ t[at].state = "free"
  BY DEF FreeSlot, FreeSlots
<1>2. \A i \in Slots \ {at} : u[i] = t[i]
  BY CreatedFields
<1> HIDE DEF u, at
<1>3. Spares(u, k)
  BY <1>1, <1>2 DEF Spares
<1> QED BY <1>3 DEF u

LEMMA SettledSpares ==
  ASSUME NEW k, NEW t, TableOK(t), Spares(t, k), NEW i \in Slots, FlowOK(t[i]), t[i].conn = k,
         NEW p, NEW s
  PROVE  Spares(Settled(t, i, p, s), k)
<1> DEFINE u == Settled(t, i, p, s)
<1>1. \A j \in Slots \ {i} : u[j] = t[j]
  <2>1. t = [j \in Slots |-> t[j]]
    BY DEF TableOK
  <2> DEFINE g == IF Has(p, "FIN") THEN Free ELSE [t[i] EXCEPT !.state = s]
  <2>2. u = [t EXCEPT ![i] = g]
    BY DEF Settled
  <2> HIDE DEF g, u
  <2> QED BY <2>1, <2>2
<1> HIDE DEF u
<1>2. Spares(u, k)
  BY <1>1 DEF Spares
<1> QED BY <1>2 DEF u

LEMMA FollowedSpares ==
  ASSUME IInv, NEW p \in Followed
  PROVE  Spares(WithFlow(p), p.conn)
<1>1. TableOK(Unexpired) /\ Spares(Unexpired, p.conn)
  BY UnexpiredOK, UnexpiredSpares DEF Good
<1>2. Unknown(p) => FreeSlots(Unexpired) # {}
  BY DEF Followed
<1> QED BY <1>1, <1>2, CreatedSpares, TouchedSpares DEF WithFlow

\* What is heard of one connection says nothing of the others.
LEMMA OthersHeard ==
  ASSUME ParserReadsHello, IInv, AllAnchored(flows), NEW k, NEW t, Spares(t, k),
         NEW c \in Conns, c # k, NEW h, HeardBefore(flows, c, h)
  PROVE  HeardBefore(t, c, h)
<1> SUFFICES ASSUME ~h.fin, ~LateFor(c, h) PROVE \E i \in SlotsOf(t, c) : Tracks(t[i], c, h)
  BY DEF HeardBefore
<1>1. PICK i \in SlotsOf(flows, c) : Tracks(flows[i], c, h)
  BY DEF HeardBefore
<1>2. i \in Slots /\ flows[i].state # "free" /\ flows[i].conn = c
  BY DEF SlotsOf
<1>3. FlowOK(flows[i]) /\ Anchored(flows[i])
  <2>1. flows[i] = Free \/ FlowOK(flows[i])
    BY <1>2 DEF IInv, TableOK
  <2> QED BY <1>2, <2>1 DEF Free, AllAnchored
<1>4. ~Expired(flows[i])
  BY <1>1, <1>2, <1>3, LateIsExpired
<1>5. t[i] = flows[i]
  BY <1>2, <1>4 DEF Spares
<1> QED BY <1>1, <1>2, <1>5 DEF SlotsOf

\* What is heard of a connection with packet p.
LEMMA HearingOf ==
  ASSUME IInv, Heard(heard), NEW p, WindowOK(p), Hearing(p)
  PROVE  LET k == p.conn
             h == heard[k]
         IN  /\ Heard(heard') /\ \A c \in Conns \ {k} : heard'[c] = heard[c]
             /\ \/ heard'[k].upto = -1
                \/ /\ Has(p, "SYN") /\ ~Crowded(k)
                   /\ heard'[k] = [upto |-> 0, at |-> clock, fin |-> FALSE]
                \/ /\ ~Has(p, "SYN") /\ ~Has(p, "RST")
                   /\ h.upto # -1 /\ ~h.fin /\ ~LateFor(k, h) /\ p.lo <= h.upto
                   /\ heard'[k].upto \in {h.upto, p.hi}
                   /\ heard'[k].upto >= h.upto /\ heard'[k].upto >= p.hi
                   /\ heard'[k].at = clock /\ heard'[k].fin = Has(p, "FIN")
<1> DEFINE k == p.conn
           h == heard[k]
           m == Max({h.upto, p.hi})
           later == [upto |-> m, at |-> clock, fin |-> Has(p, "FIN")]
           new == IF Has(p, "SYN")
                  THEN IF Crowded(k) THEN Unheard ELSE [upto |-> 0, at |-> clock, fin |-> FALSE]
                  ELSE IF \/ h.upto = -1 \/ h.fin \/ LateFor(k, h) \/ Has(p, "RST")
                          \/ p.lo > h.upto THEN Unheard
                  ELSE later
<1>1. k \in Conns /\ h.upto \in Int /\ p.lo \in Int /\ p.hi \in Int /\ clock \in Int
  <2>1. k \in Conns /\ p.lo \in Nat /\ p.hi \in Nat
    BY DEF WindowOK
  <2>2. h.upto \in Int
    BY <2>1 DEF Heard
  <2>3. clock \in BootClock..MaxClock /\ BootClock \in Nat /\ MaxClock \in Nat
    BY AccessFilterAssumption DEF IInv
  <2> QED BY <2>1, <2>2, <2>3
<1>2. heard' = [heard EXCEPT ![k] = new]
  BY DEF Hearing, LateFor
<1>3. heard = [c \in Conns |-> heard[c]] /\ \A c \in Conns : heard[c].upto \in Int /\ heard[c].at \in Int
  BY DEF Heard
<1>4. m \in {h.upto, p.hi} /\ m >= h.upto /\ m >= p.hi
  <2> DEFINE x == h.upto
             y == p.hi
  <2>1. x \in Int /\ y \in Int
    BY <1>1
  <2> HIDE DEF x, y
  <2>2. \E n \in {x, y} : \A z \in {x, y} : n >= z
    <3>1. CASE x >= y
      BY <2>1, <3>1
    <3>2. CASE y >= x
      BY <2>1, <3>2
    <3> QED BY <2>1, <3>1, <3>2
  <2>3. Max({x, y}) \in {x, y} /\ \A z \in {x, y} : Max({x, y}) >= z
    BY <2>2 DEF Max
  <2> QED BY <2>3 DEF x, y
<1>5. m \in Int
  BY <1>1, <1>4
<1> HIDE DEF m
<1>6. new.upto \in Int /\ new.at \in Int
  BY <1>1, <1>5 DEF Unheard
<1>7. \/ new.upto = -1
      \/ /\ Has(p, "SYN") /\ ~Crowded(k)
         /\ new = [upto |-> 0, at |-> clock, fin |-> FALSE]
      \/ /\ ~Has(p, "SYN") /\ ~Has(p, "RST")
         /\ h.upto # -1 /\ ~h.fin /\ ~LateFor(k, h) /\ ~(p.lo > h.upto)
         /\ new = later
  BY DEF Unheard
<1>8. later.upto = m /\ later.at = clock /\ later.fin = Has(p, "FIN")
  OBVIOUS
<1> HIDE DEF new, later, k
<1>9. /\ heard' = [c \in Conns |-> heard'[c]] /\ heard'[k] = new
      /\ \A c \in Conns \ {k} : heard'[c] = heard[c]
  BY <1>1, <1>2, <1>3
<1>10. Heard(heard')
  BY <1>3, <1>6, <1>9 DEF Heard
<1>11. p.lo > h.upto \/ p.lo <= h.upto
  BY <1>1
<1> QED BY <1>4, <1>7, <1>8, <1>9, <1>10, <1>11 DEF k

\* The connection of the packet decides.
LEMMA InspectHeard ==
  ASSUME ParserReadsHello, IInv, SInv, HInv, NEW p \in Inspected, Inspecting(p),
         Spares(flows', p.conn), lwip'.at \in {"idle", "feed"}, lwip'.at = "feed" => lwip'.packet = p,
         LET k == p.conn
         IN  heard'[k].upto # -1 /\ Wanted(k) =>
               IF lwip'.at = "feed" THEN HeardNow(k)' ELSE HeardBefore(flows', k, heard'[k])
  PROVE  HInv'
<1> DEFINE k == p.conn
<1>1. /\ lwip.at = "rules" /\ WindowOK(p) /\ k \in Conns /\ Hearing(p)
      /\ UNCHANGED <<blockedHosts, clock>>
  BY InspectedPacket, InspectedWindow DEF Inspecting, ruleVars
<1>2. Heard(heard') /\ \A c \in Conns \ {k} : heard'[c] = heard[c]
  BY <1>1, HearingOf DEF HInv
<1>3. AllAnchored(flows)
  BY <1>1, Between
<1>4. ASSUME NEW c \in Conns, heard'[c].upto # -1, Wanted(c)'
      PROVE  IF lwip'.at = "feed" /\ lwip'.packet.conn = c THEN HeardNow(c)'
             ELSE HeardBefore(flows, c, heard[c])'
  <2>1. Wanted(c)
    BY <1>1, <1>4 DEF Wanted, Permitted
  <2>2. \A t, h : HeardBefore(t, c, h) => HeardBefore(t, c, h)
    OBVIOUS
  <2>3. CASE c = k
    BY <1>1, <1>4, <2>1, <2>3 DEF HeardBefore, LateFor
  <2>4. CASE c # k
    <3>1. heard'[c] = heard[c] /\ HeardBefore(flows, c, heard[c])
      BY <1>1, <1>2, <1>4, <2>1, <2>4 DEF HInv
    <3>2. HeardBefore(flows', c, heard[c])
      BY <1>3, <2>4, <3>1, OthersHeard
    <3>3. lwip'.at = "feed" => lwip'.packet.conn # c
      BY <2>4
    <3> QED BY <1>1, <3>1, <3>2, <3>3 DEF HeardBefore, LateFor
  <2> QED BY <2>3, <2>4
<1> QED BY <1>2, <1>4 DEF HInv


\* What lies behind a flow leaves no gap.
LEMMA SeqBehind ==
  ASSUME StreamsShort, NEW k \in Conns, Len(Streams[k]) \in Nat,
         NEW n \in 0..Len(Streams[k]), NEW lo \in 0..n
  PROVE  ~(Signed(SeqAt(k, lo), SeqAt(k, n)) > 0)
<1> DEFINE m == SeqNumMod
           half == SeqNumMod \div 2
           x == SeqAt(k, lo)
           y == SeqAt(k, n)
           d == (x - y) % SeqNumMod
<1>1. m \in Nat \ {0} /\ half \in Nat /\ m - half >= half
  BY AccessFilterAssumption
<1>2. n - lo <= half /\ n \in Nat /\ lo \in Nat /\ lo <= n
  <2>1. Len(Streams[k]) <= half
    BY DEF StreamsShort
  <2> HIDE DEF half
  <2> QED BY <1>1, <2>1
<1>3. x \in 0..m-1 /\ y \in 0..m-1
  <2>1. ISN[k] + 1 + lo \in Int /\ ISN[k] + 1 + n \in Int
    BY <1>2, AccessFilterAssumption
  <2> QED BY <1>1, <2>1 DEF SeqAt
<1>4. Signed(x, y) = IF d < half THEN d ELSE d - m
  BY DEF Signed
<1> HIDE DEF half
<1>5. CASE lo = n
  <2>1. d = 0
    <3>1. x = y
      BY <1>5
    <3> HIDE DEF x, y
    <3> QED BY <1>1, <1>3, <3>1
  <2> QED BY <1>1, <1>4, <2>1
<1>6. CASE lo < n
  <2> DEFINE c == n - lo
             v == y - x
             q == v \div m
             e == m - c
  <2>1. c \in 0..m-1 /\ n = lo + c + 0 /\ e \in 0..m-1 /\ e >= half
    BY <1>1, <1>2, <1>6
  <2>2. v % m = c
    <3> HIDE DEF c
    <3>1. (y - 0 - x) % m = c
      BY <1>2, <2>1, SeqDistance
    <3> HIDE DEF x, y
    <3> QED BY <1>3, <3>1
  <2>3. v \in Int
    BY <1>3
  <2> HIDE DEF v
  <2>4. v = m * q + c /\ q \in Int
    BY <1>1, <2>2, <2>3, Division
  <2> HIDE DEF q, x, y, c
  <2>5. x - y = m * (-q - 1) + e /\ -q - 1 \in Int
    BY <1>1, <1>3, <2>1, <2>4 DEF v
  <2>6. d = e
    <3> DEFINE z == -q - 1
    <3> HIDE DEF z
    <3> QED BY <1>1, <2>1, <2>5, Remainder DEF z
  <2> HIDE DEF d, e
  <2> QED BY <1>1, <1>4, <2>1, <2>6 DEF x, y
<1> QED BY <1>2, <1>5, <1>6

\* The packet being inspected is stopped for a cause, or is not stopped.
LEMMA Excused ==
  ASSUME NEW p, p = lwip.packet, p.conn \in Conns,
         \/ heard'[p.conn].upto = -1 \/ ~Wanted(p.conn) \/ Crowded(p.conn)
         \/ Has(p, "FIN") /\ heard'[p.conn].upto < Hello[p.conn].length
         \/ lwip'.at # "idle" \/ lwip'.verdict # "drop"
  PROVE  StopsForCause
<1>1. Hello[p.conn].length \in Nat /\ StreamLimit \in Nat
  BY HelloLength, AccessFilterAssumption
<1>2. Hello[p.conn].length <= StreamLimit \/ Hello[p.conn].length > StreamLimit
  BY <1>1
<1> QED BY <1>2 DEF StopsForCause, Wanted, Dropped

\* A segment that goes on where the filter heard of a connection meets its flow.
LEMMA KnownFlow ==
  ASSUME ParserReadsHello, IInv, SInv, HInv, NEW p \in Inspected, Inspecting(p),
         ~Has(p, "SYN"), ~Has(p, "RST"), heard'[p.conn].upto # -1, Wanted(p.conn)
  PROVE  LET k == p.conn
             h == heard[k]
         IN  /\ ~Unknown(p) /\ p.lo <= h.upto
             /\ heard'[k].upto \in {h.upto, p.hi}
             /\ heard'[k].upto >= h.upto /\ heard'[k].upto >= p.hi
             /\ heard'[k].at = clock /\ heard'[k].fin = Has(p, "FIN")
             /\ \E i \in SlotsOf(flows, k) :
                  /\ Tracks(flows[i], k, h) /\ FlowOK(flows[i])
                  /\ flows[i].state = "inspecting" => ~(flows[i].inspected >= Hello[k].length)
<1> DEFINE k == p.conn
           h == heard[k]
<1>1. lwip.at = "rules" /\ WindowOK(p) /\ k \in Conns /\ Hearing(p) /\ TableOK(flows)
  BY InspectedPacket, InspectedWindow DEF Inspecting, IInv
<1>2. /\ h.upto # -1 /\ ~h.fin /\ ~LateFor(k, h) /\ p.lo <= h.upto
      /\ heard'[k].upto \in {h.upto, p.hi}
      /\ heard'[k].upto >= h.upto /\ heard'[k].upto >= p.hi
      /\ heard'[k].at = clock /\ heard'[k].fin = Has(p, "FIN")
  BY <1>1, HearingOf DEF HInv
<1>3. HeardBefore(flows, k, h)
  BY <1>1, <1>2 DEF HInv
<1>4. PICK i \in SlotsOf(flows, k) : Tracks(flows[i], k, h)
  BY <1>2, <1>3 DEF HeardBefore
<1>5. i \in Slots /\ flows[i].state # "free" /\ flows[i].conn = k
  BY <1>4 DEF SlotsOf
<1>6. FlowOK(flows[i]) /\ Anchored(flows[i])
  <2>1. flows[i] = Free \/ FlowOK(flows[i])
    BY <1>1, <1>5 DEF TableOK
  <2>2. AllAnchored(flows)
    BY <1>1, Between
  <2> QED BY <1>5, <2>1, <2>2 DEF Free, AllAnchored
<1>7. /\ ~Expired(flows[i])
      /\ flows[i].state = "inspecting" => ~(flows[i].inspected >= Hello[k].length)
  <2> HIDE DEF h, k
  <2> QED BY <1>1, <1>2, <1>4, <1>5, <1>6, LateIsExpired
<1>8. i \in SlotsOf(Unexpired, k)
  <2>1. Unexpired[i] = flows[i]
    BY <1>5, <1>7 DEF Unexpired
  <2> QED BY <1>5, <2>1 DEF SlotsOf
<1>9. ~Unknown(p)
  BY <1>8 DEF Unknown
<1> QED BY <1>2, <1>4, <1>6, <1>7, <1>9

\* So the flow it is given is where the filter should have it.
LEMMA FoundFlow ==
  ASSUME ParserReadsHello, IInv, SInv, HInv, NEW p \in Followed, Inspecting(p),
         heard'[p.conn].upto # -1, Wanted(p.conn), NEW i \in SlotsOf(WithFlow(p), p.conn)
  PROVE  LET f == WithFlow(p)[i]
             h == heard[p.conn]
         IN  /\ f.syn # None /\ f.last_seen = clock
             /\ \/ /\ f.state = "inspecting" /\ f.inspected = h.upto
                   /\ ~(f.inspected >= Hello[p.conn].length)
                \/ f.state = "allow" /\ h.upto >= Hello[p.conn].length
<1> DEFINE k == p.conn
           h == heard[k]
           f == WithFlow(p)[i]
<1>1. p \in Inspected /\ ~Has(p, "SYN") /\ ~Has(p, "RST")
  BY DEF Followed, Has
<1>2. ~Unknown(p)
  BY <1>1, KnownFlow
<1>3. PICK j \in SlotsOf(flows, k) :
        /\ Tracks(flows[j], k, h)
        /\ flows[j].state = "inspecting" => ~(flows[j].inspected >= Hello[k].length)
  BY <1>1, KnownFlow
<1>4. /\ i \in SlotsOf(flows, k)
      /\ f.state = flows[i].state /\ f.syn = flows[i].syn /\ f.inspected = flows[i].inspected
      /\ f.last_seen = clock
  BY <1>2, FlowBefore
<1>5. j = i
  BY <1>3, <1>4 DEF SlotsOf, IInv, TableOK, Unique
<1> QED BY <1>3, <1>4, <1>5 DEF Tracks


\* A RST ends what is heard; a segment without a flow or slot was not heard of.
LEMMA UnknownPermitted ==
  ASSUME ParserReadsHello, IInv, SInv, HInv, InspectReset \/ InspectEmpty \/ InspectRefused
  PROVE  HInv' /\ StopsForCause
<1>1. PICK p \in Inspected :
        /\ Inspecting(p)
        /\ \/ Has(p, "RST") /\ flows' = Cleared(Unexpired, p.conn)
           \/ Unknown(p) /\ flows' = Unexpired
        /\ Forward(p) \/ Drop
  BY DEF InspectReset, InspectEmpty, InspectRefused
<1>2. p = lwip.packet /\ WindowOK(p) /\ p.conn \in Conns /\ Hearing(p)
  BY <1>1, InspectedPacket, InspectedWindow DEF Inspecting
<1>3. lwip'.at = "idle" /\ Spares(flows', p.conn)
  BY <1>1, UnexpiredSpares DEF Forward, Drop, Resting
<1>4. heard'[p.conn].upto = -1 \/ ~Wanted(p.conn)
  <2>1. CASE Has(p, "RST")
    <3>1. ~Has(p, "SYN")
      BY <1>2, <2>1 DEF WindowOK, Has
    <3> QED BY <1>2, <2>1, <3>1, HearingOf DEF HInv
  <2>2. CASE Unknown(p)
    <3>1. ~Has(p, "SYN") /\ ~Has(p, "RST")
      BY <2>2 DEF Unknown, Has
    <3> QED BY <1>1, <2>2, <3>1, KnownFlow
  <2> QED BY <1>1, <2>1, <2>2
<1>5. StopsForCause
  BY <1>2, <1>4, Excused
<1>6. HInv'
  BY <1>1, <1>3, <1>4, InspectHeard
<1> QED BY <1>5, <1>6

\* A SYN begins what is heard, with a flow that has read nothing.
LEMMA SynPermitted ==
  ASSUME StreamsShort, ParserReadsHello, IInv, SInv, HInv, InspectSyn
  PROVE  HInv' /\ StopsForCause
<1>1. PICK p \in Inspected :
        LET k == p.conn
            again == Resent(Unexpired, k)
            table == IF again THEN Unexpired ELSE Cleared(Unexpired, k)
        IN  /\ Inspecting(p)
            /\ Has(p, "SYN")
            /\ IF again THEN flows' = Touched(table, k) /\ Forward(p)
               ELSE IF FreeSlots(table) # {}
               THEN flows' = Created(table, k, SeqAt(k, 0), ISN[k]) /\ Forward(p)
               ELSE flows' = table /\ Drop
  BY DEF InspectSyn
<1> DEFINE k == p.conn
           cleared == Cleared(Unexpired, k)
           g(i) == flows'[i]
<1>2. p = lwip.packet /\ WindowOK(p) /\ k \in Conns /\ Hearing(p) /\ Inspecting(p) /\ Has(p, "SYN")
        /\ lwip.at = "rules" /\ clock' = clock
  BY <1>1, InspectedPacket, InspectedWindow DEF Inspecting
<1>3. Good(Unexpired, p) /\ Spares(Unexpired, k) /\ Spares(cleared, k)
  BY UnexpiredOK, UnexpiredSpares
<1>4. Good(cleared, p) /\ SlotsOf(cleared, k) = {}
  BY <1>2, <1>3, ClearedOK DEF Has
<1>5. ISN[k] # None
  BY <1>2, AccessFilterAssumption
<1>6. heard'[k].upto # -1 => /\ ~Crowded(k)
                             /\ heard'[k] = [upto |-> 0, at |-> clock, fin |-> FALSE]
  BY <1>2, HearingOf DEF HInv
<1>7. ASSUME NEW i \in Slots, flows'[i].state = "inspecting", flows'[i].conn = k,
             flows'[i].syn = ISN[k], flows'[i].inspected = 0, flows'[i].last_seen = clock,
             heard'[k].upto # -1
      PROVE  HeardBefore(flows', k, heard'[k])
  <2>1. i \in SlotsOf(flows', k)
    BY <1>7 DEF SlotsOf
  <2>2. heard'[k].upto = 0 /\ heard'[k].at = clock
    BY <1>6, <1>7
  <2>3. Tracks(flows'[i], k, heard'[k])
    BY <1>5, <1>7, <2>2 DEF Tracks
  <2> QED BY <2>1, <2>3 DEF HeardBefore
<1>8. CASE Resent(Unexpired, k)
  <2>1. flows' = Touched(Unexpired, k) /\ Forward(p)
    BY <1>1, <1>8
  <2>2. lwip'.at = "idle" /\ lwip'.verdict # "drop"
    BY <2>1 DEF Forward, Resting
  <2>3. PICK i \in SlotsOf(Unexpired, k) : /\ Unexpired[i].state = "inspecting"
                                           /\ Unexpired[i].syn = ISN[k]
                                           /\ Unexpired[i].next = SeqAt(k, 0)
    BY <1>8 DEF Resent
  <2> DEFINE f == Unexpired[i]
  <2>4. FlowOK(f) /\ f.conn = k /\ Anchored(f) /\ i \in Slots /\ f.state # "free"
    <3>1. AllAnchored(Unexpired) /\ (f = Free \/ FlowOK(f)) /\ f.state # "free" /\ f.conn = k
      BY <1>2, <1>3, <2>3, Between, UnexpiredAnchored DEF Good, TableOK, SlotsOf
    <3> QED BY <2>3, <3>1 DEF AllAnchored, SlotsOf, Free
  <2>5. f.inspected = 0
    <3>1. PICK a \in Nat : From(f, a) /\ f.next = SeqAt(k, a + f.inspected)
      BY <2>3, <2>4 DEF Anchored
    <3>2. a = 0 /\ f.inspected \in 0..Len(Streams[k]) /\ Len(Streams[k]) \in Nat
      <4>1. a = 0 /\ a + f.inspected <= Len(Streams[k])
        BY <1>5, <2>3, <2>4, <3>1 DEF From
      <4>2. f.inspected \in Nat /\ Len(Streams[k]) \in Nat
        BY <1>2, <2>4, StreamLength, AccessFilterAssumption DEF FlowOK
      <4> QED BY <4>1, <4>2
    <3>3. SeqAt(k, f.inspected) = SeqAt(k, 0)
      BY <2>3, <3>1, <3>2
    <3> DEFINE n == f.inspected
    <3>4. n \in Nat /\ n = n + 0 /\ n <= Len(Streams[k])
      BY <3>2
    <3> HIDE DEF f, k, n
    <3>5. \A z \in Nat : n = n + z => (SeqAt(k, n) = SeqAt(k, z) <=> n = 0)
      BY <1>2, <3>4, SamePlace
    <3> QED BY <3>3, <3>4, <3>5 DEF n
  <2>6. /\ flows'[i].state = "inspecting" /\ flows'[i].conn = k /\ flows'[i].syn = ISN[k]
        /\ flows'[i].inspected = 0
    BY <1>3, <2>1, <2>3, <2>4, <2>5, TouchedFields DEF Good
  <2>7. flows'[i].last_seen = clock
    <3>1. TableOK(Unexpired) /\ clock \in BootClock..MaxClock /\ i \in SlotsOf(flows', k)
      BY <1>3, <2>4, <2>6 DEF Good, IInv, SlotsOf
    <3>2. f = [state |-> f.state, conn |-> f.conn, next |-> f.next, syn |-> f.syn,
               inspected |-> f.inspected, last_seen |-> f.last_seen, parser |-> f.parser]
      BY <2>4 DEF FlowOK
    <3>3. flows'[i] = [f EXCEPT !.last_seen = clock]
      BY <2>1, <2>3, <2>4 DEF Touched
    <3> HIDE DEF f
    <3> QED BY <3>2, <3>3
  <2>8. Spares(flows', k)
    BY <1>3, <2>1, TouchedSpares
  <2>9. heard'[k].upto # -1 => HeardBefore(flows', k, heard'[k])
    BY <1>7, <2>4, <2>6, <2>7
  <2> QED BY <1>2, <2>2, <2>8, <2>9, InspectHeard, Excused
<1>9. CASE ~Resent(Unexpired, k) /\ FreeSlots(cleared) # {}
  <2>1. flows' = Created(cleared, k, SeqAt(k, 0), ISN[k]) /\ Forward(p)
    BY <1>1, <1>9
  <2>2. lwip'.at = "idle" /\ lwip'.verdict # "drop"
    BY <2>1 DEF Forward, Resting
  <2> DEFINE i == FreeSlot(cleared)
  <2>3. i \in Slots /\ flows'[i] = NewFlow(k, SeqAt(k, 0), ISN[k])
    <3> HIDE DEF cleared, k
    <3> QED BY <1>4, <1>9, <2>1, CreatedFields DEF Good
  <2>4. /\ flows'[i].state = "inspecting" /\ flows'[i].conn = k /\ flows'[i].syn = ISN[k]
        /\ flows'[i].inspected = 0 /\ flows'[i].last_seen = clock
    BY <2>3 DEF NewFlow
  <2>5. Spares(flows', k)
    <3> HIDE DEF cleared, k
    <3> QED BY <1>3, <1>4, <1>9, <2>1, CreatedSpares DEF Good
  <2> HIDE DEF i
  <2>6. heard'[k].upto # -1 => HeardBefore(flows', k, heard'[k])
    BY <1>7, <2>3, <2>4
  <2> QED BY <1>2, <2>2, <2>5, <2>6, InspectHeard, Excused
<1>10. CASE ~Resent(Unexpired, k) /\ ~(FreeSlots(cleared) # {})
  <2>1. flows' = cleared /\ Drop
    BY <1>1, <1>10
  <2>2. lwip'.at = "idle"
    BY <2>1 DEF Drop, Resting
  <2>3. Crowded(k)
    <3>1. \A i \in Slots : cleared[i] = Free \/ cleared[i] = flows[i]
      BY DEF Cleared, Unexpired
    <3> HIDE DEF cleared
    <3> QED BY <1>4, <1>10, <3>1, CrowdedOut DEF Good
  <2> QED BY <1>2, <1>3, <1>6, <2>1, <2>2, <2>3, InspectHeard, Excused
<1> QED BY <1>8, <1>9, <1>10

\* The flow of a connection heard of lets pass what a judgement allows.
LEMMA DecidedPermitted ==
  ASSUME ParserGoesOn, ParserReadsHello, IInv, SInv, HInv, InspectDecided
  PROVE  HInv' /\ StopsForCause
<1>1. PICK p \in Followed : \E i \in SlotsOf(WithFlow(p), p.conn) :
        LET f == WithFlow(p)[i]
        IN  /\ Inspecting(p) /\ f.state \in {"allow", "block"}
            /\ flows' = Settled(WithFlow(p), i, p, f.state)
            /\ Verdict(p, f.state)
  BY DEF InspectDecided
<1>2. PICK i \in SlotsOf(WithFlow(p), p.conn) :
        LET f == WithFlow(p)[i]
        IN  /\ Inspecting(p) /\ f.state \in {"allow", "block"}
            /\ flows' = Settled(WithFlow(p), i, p, f.state)
            /\ Verdict(p, f.state)
  BY <1>1
<1> DEFINE t == WithFlow(p)
           f == t[i]
           k == p.conn
           h == heard[k]
<1>3. /\ Inspecting(p) /\ f.state \in {"allow", "block"}
      /\ flows' = Settled(t, i, p, f.state) /\ Verdict(p, f.state)
  BY <1>2
<1>4. /\ p \in Inspected /\ p = lwip.packet /\ lwip.at = "rules" /\ k \in Conns
      /\ ~Has(p, "SYN") /\ ~Has(p, "RST")
  BY InspectedPacket, InspectedWindow DEF Followed, Has
<1>5. TableOK(t) /\ i \in Slots /\ FlowOK(f) /\ f.conn = k /\ f.state # "free"
  BY <1>4, Between, FollowedFlow
<1>6. lwip'.at = "idle" /\ Spares(flows', k)
  <2>1. lwip'.at = "idle"
    BY <1>3 DEF Verdict, Forward, Drop, Resting
  <2>2. Spares(t, k)
    BY FollowedSpares
  <2>3. TableOK(t) /\ i \in Slots /\ FlowOK(t[i]) /\ t[i].conn = k
    BY <1>5
  <2> HIDE DEF t
  <2> QED BY <1>3, <2>1, <2>2, <2>3, SettledSpares
<1>7. ASSUME heard'[k].upto # -1, Wanted(k)
      PROVE  /\ HeardBefore(flows', k, heard'[k])
             /\ lwip'.verdict # "drop"
  <2>1. /\ heard'[k].upto >= h.upto /\ heard'[k].at = clock /\ heard'[k].fin = Has(p, "FIN")
        /\ heard'[k].upto \in {h.upto, p.hi}
    BY <1>3, <1>4, <1>7, KnownFlow
  <2>2. f.syn # None /\ f.last_seen = clock /\ f.state = "allow" /\ h.upto >= Hello[k].length
    BY <1>3, <1>7, FoundFlow
  <2>3. lwip'.verdict # "drop"
    BY <1>3, <2>2 DEF Verdict, Forward, Resting
  <2>4. heard'[k].upto >= Hello[k].length
    <3>1. h.upto \in Int /\ Hello[k].length \in Int /\ p.hi \in Int
      BY <1>4, HelloLength, InspectedWindow DEF HInv, Heard
    <3> DEFINE x == heard'[k].upto
               y == h.upto
               z == Hello[k].length
    <3>2. x \in Int /\ y \in Int /\ z \in Int /\ x >= y /\ y >= z
      BY <2>1, <2>2, <3>1
    <3> HIDE DEF x, y, z
    <3>3. x >= z
      BY <3>2
    <3> QED BY <3>3 DEF x, z
  <2>5. CASE Has(p, "FIN")
    BY <2>1, <2>3, <2>5 DEF HeardBefore
  <2>6. CASE ~Has(p, "FIN")
    <3>1. flows'[i] = [state |-> "allow", conn |-> f.conn, next |-> f.next, syn |-> f.syn,
                       inspected |-> f.inspected, last_seen |-> f.last_seen, parser |-> f.parser]
      <4>1. TableOK(t) /\ FlowOK(t[i]) /\ i \in Slots
        BY <1>5
      <4> HIDE DEF t
      <4> QED BY <1>3, <2>2, <2>6, <4>1, SettledFields
    <3>2. i \in SlotsOf(flows', k)
      BY <1>5, <3>1 DEF SlotsOf
    <3>3. Tracks(flows'[i], k, heard'[k])
      BY <2>1, <2>2, <2>4, <3>1 DEF Tracks
    <3> QED BY <2>3, <3>2, <3>3 DEF HeardBefore
  <2> QED BY <2>5, <2>6
<1>8. StopsForCause
  BY <1>4, <1>7, Excused
<1>9. HInv'
  BY <1>3, <1>4, <1>6, <1>7, InspectHeard
<1> QED BY <1>8, <1>9


\* So does one that waits, until a FIN cuts its hello short.
LEMMA NothingNewPermitted ==
  ASSUME ParserGoesOn, StreamsShort, ParserReadsHello, IInv, SInv, HInv, InspectNothingNew
  PROVE  HInv' /\ StopsForCause
<1>1. PICK p \in Followed : \E i \in SlotsOf(WithFlow(p), p.conn) :
        LET f == WithFlow(p)[i]
            gap == p.lo < p.hi /\ Delta(p, f) > 0
            s == Unfinished(p, IF gap THEN "block" ELSE "inspecting")
        IN  /\ Inspecting(p) /\ f.state = "inspecting"
            /\ \/ p.lo = p.hi
               \/ gap
               \/ (f.next - SeqAt(p.conn, p.lo)) % SeqNumMod >= p.hi - p.lo
            /\ flows' = Settled(WithFlow(p), i, p, s)
            /\ Verdict(p, s)
  BY DEF InspectNothingNew
<1>2. PICK i \in SlotsOf(WithFlow(p), p.conn) :
        LET f == WithFlow(p)[i]
            gap == p.lo < p.hi /\ Delta(p, f) > 0
            s == Unfinished(p, IF gap THEN "block" ELSE "inspecting")
        IN  /\ Inspecting(p) /\ f.state = "inspecting"
            /\ \/ p.lo = p.hi
               \/ gap
               \/ (f.next - SeqAt(p.conn, p.lo)) % SeqNumMod >= p.hi - p.lo
            /\ flows' = Settled(WithFlow(p), i, p, s)
            /\ Verdict(p, s)
  BY <1>1
<1> DEFINE t == WithFlow(p)
           f == t[i]
           k == p.conn
           h == heard[k]
           gap == p.lo < p.hi /\ Delta(p, f) > 0
           s == Unfinished(p, IF gap THEN "block" ELSE "inspecting")
<1>3. /\ Inspecting(p) /\ f.state = "inspecting" /\ flows' = Settled(t, i, p, s) /\ Verdict(p, s)
      /\ p.lo = p.hi \/ gap \/ (f.next - SeqAt(k, p.lo)) % SeqNumMod >= p.hi - p.lo
  BY <1>2
<1>4. /\ p \in Inspected /\ p = lwip.packet /\ lwip.at = "rules" /\ k \in Conns
      /\ ~Has(p, "SYN") /\ ~Has(p, "RST") /\ WindowOK(p)
  BY InspectedPacket, InspectedWindow DEF Followed, Has
<1>5. TableOK(t) /\ i \in Slots /\ FlowOK(f) /\ f.conn = k /\ f.state # "free" /\ Anchored(f)
  BY <1>4, Between, FollowedFlow
<1>6. lwip'.at = "idle" /\ Spares(flows', k)
  <2>1. lwip'.at = "idle"
    BY <1>3 DEF Verdict, Forward, Drop, Resting
  <2>2. Spares(t, k)
    BY FollowedSpares
  <2>3. TableOK(t) /\ i \in Slots /\ FlowOK(t[i]) /\ t[i].conn = k
    BY <1>5
  <2> HIDE DEF t, s
  <2> QED BY <1>3, <2>1, <2>2, <2>3, SettledSpares
<1>7. ASSUME heard'[k].upto # -1, Wanted(k)
      PROVE  /\ HeardBefore(flows', k, heard'[k])
             /\ \/ Has(p, "FIN") /\ heard'[k].upto < Hello[k].length
                \/ lwip'.verdict # "drop"
  <2>1. /\ p.lo <= h.upto /\ heard'[k].upto \in {h.upto, p.hi}
        /\ heard'[k].upto >= h.upto /\ heard'[k].upto >= p.hi
        /\ heard'[k].at = clock /\ heard'[k].fin = Has(p, "FIN")
    BY <1>3, <1>4, <1>7, KnownFlow
  <2>2. /\ f.syn # None /\ f.last_seen = clock /\ f.inspected = h.upto
        /\ ~(f.inspected >= Hello[k].length)
    BY <1>3, <1>7, FoundFlow
  <2> DEFINE n == f.inspected
             lo == p.lo
             hi == p.hi
             L == Len(Streams[k])
  <2>3. PICK a \in Nat : From(f, a) /\ f.next = SeqAt(k, a + f.inspected)
    BY <1>3, <1>5 DEF Anchored
  <2>4. n \in Nat /\ L \in Nat /\ lo \in Nat /\ hi \in Nat /\ lo <= hi /\ Hello[k].length \in Nat
    BY <1>4, <1>5, StreamLength, HelloLength, AccessFilterAssumption DEF FlowOK, WindowOK
  <2>5. n \in 0..L /\ f.next = SeqAt(k, n)
    <3>1. a = 0 /\ a + n <= L
      BY <1>5, <2>2, <2>3 DEF From
    <3>2. a + n = n
      BY <2>4, <3>1
    <3> HIDE DEF n, L
    <3> QED BY <2>3, <2>4, <3>1, <3>2 DEF n
  <2>6. lo \in 0..n /\ n = h.upto
    <3>1. lo <= n /\ n = h.upto
      BY <2>1, <2>2
    <3> HIDE DEF n, lo, h
    <3> QED BY <2>4, <3>1
  <2>7. ~gap
    <3>1. ~(Signed(SeqAt(k, lo), SeqAt(k, n)) > 0)
      <4> HIDE DEF lo, n, k
      <4> QED BY <1>4, <2>4, <2>5, <2>6, SeqBehind DEF L
    <3>2. Delta(p, f) = Signed(SeqAt(k, lo), SeqAt(k, n))
      BY <2>5 DEF Delta
    <3> QED BY <3>1, <3>2
  <2>8. hi <= n
    <3>1. CASE lo = hi
      <4> HIDE DEF n, lo, hi, h
      <4> QED BY <2>4, <2>6, <3>1
    <3>2. CASE lo # hi
      <4>1. (SeqAt(k, n) - SeqAt(k, lo)) % SeqNumMod >= hi - lo
        BY <1>3, <2>5, <2>7, <3>2
      <4>2. lo < L
        <5>1. hi <= L
          BY <1>4 DEF WindowOK
        <5> HIDE DEF lo, hi, L, n
        <5> QED BY <2>4, <3>2, <5>1
      <4>3. Signed(SeqAt(k, lo), SeqAt(k, n)) <= 0
        <5> DEFINE x == SeqAt(k, lo)
                   y == SeqAt(k, n)
        <5>1. ~(Signed(x, y) > 0)
          <6> HIDE DEF lo, n, k
          <6> QED BY <1>4, <2>4, <2>5, <2>6, SeqBehind DEF L
        <5>2. x \in Int /\ y \in Int /\ SeqNumMod \in Nat \ {0}
          <6>1. lo \in Int /\ n \in Int
            BY <2>4
          <6> HIDE DEF lo, n, k
          <6> QED BY <1>4, <6>1, SeqNumber
        <5> HIDE DEF x, y
        <5>3. Signed(x, y) \in Int
          BY <5>2 DEF Signed
        <5>4. Signed(x, y) <= 0
          BY <5>1, <5>3
        <5> QED BY <5>4 DEF x, y
      <4> HIDE DEF lo, hi, n, k
      <4>4. lo \in 0..Len(Streams[k]) /\ lo < Len(Streams[k]) /\ n \in 0..Len(Streams[k])
              /\ Len(Streams[k]) \in Nat
        BY <2>4, <2>5, <4>2 DEF L
      <4>5. (SeqAt(k, n) - SeqAt(k, lo)) % SeqNumMod = n - lo
        BY <1>4, <4>3, <4>4, SeqOrder
      <4> QED BY <2>4, <4>1, <4>5
    <3> QED BY <3>1, <3>2
  <2>9. heard'[k].upto = n
    <3> DEFINE z == heard'[k].upto
    <3>1. z \in {n, hi} /\ z >= n /\ z >= hi
      BY <2>1, <2>6
    <3> HIDE DEF z, n, hi
    <3>2. z = n
      BY <2>4, <2>8, <3>1
    <3> QED BY <3>2 DEF z
  <2>10. CASE Has(p, "FIN")
    <3>1. n < Hello[k].length
      BY <2>2, <2>4
    <3> QED BY <2>1, <2>9, <2>10, <3>1 DEF HeardBefore
  <2>11. CASE ~Has(p, "FIN")
    <3>1. s = "inspecting"
      BY <2>7, <2>11 DEF Unfinished
    <3>2. flows'[i] = [state |-> "inspecting", conn |-> f.conn, next |-> f.next, syn |-> f.syn,
                       inspected |-> f.inspected, last_seen |-> f.last_seen, parser |-> f.parser]
      <4>1. TableOK(t) /\ FlowOK(t[i]) /\ i \in Slots
        BY <1>5
      <4> HIDE DEF t, s
      <4> QED BY <1>3, <2>11, <3>1, <4>1, SettledFields
    <3>3. i \in SlotsOf(flows', k)
      BY <1>5, <3>2 DEF SlotsOf
    <3>4. Tracks(flows'[i], k, heard'[k])
      BY <2>1, <2>2, <2>9, <3>2 DEF Tracks
    <3>5. lwip'.verdict # "drop"
      <4> HIDE DEF s
      <4> QED BY <1>3, <3>1 DEF Verdict, Forward, Resting
    <3> QED BY <3>3, <3>4, <3>5 DEF HeardBefore
  <2> QED BY <2>10, <2>11
<1>8. StopsForCause
  BY <1>4, <1>7, Excused
<1>9. HInv'
  BY <1>3, <1>4, <1>6, <1>7, InspectHeard
<1> QED BY <1>8, <1>9

\* New data goes to the loop.
LEMMA DataPermitted ==
  ASSUME ParserGoesOn, StreamsShort, ParserReadsHello, IInv, SInv, HInv, InspectData
  PROVE  HInv' /\ StopsForCause
<1>1. PICK p \in Followed : Inspecting(p) /\ flows' = WithFlow(p)
  BY DEF InspectData
<1>2. /\ p \in Inspected /\ p = lwip.packet /\ lwip.at = "rules" /\ p.conn \in Conns
      /\ ~Has(p, "SYN") /\ ~Has(p, "RST") /\ Followed \subseteq {p} /\ WindowOK(p)
  BY InspectedPacket, InspectedWindow DEF Followed, Has, Inspected
<1>3. AllAnchored(flows)
  BY <1>2, Between
<1>4. PICK i \in SlotsOf(WithFlow(p), p.conn) : \E a \in Nat : DataOf(p, i, a)
  BY <1>2, <1>3, DataFollows
<1>5. PICK a \in Nat : DataOf(p, i, a)
  BY <1>4
<1> DEFINE f == WithFlow(p)[i]
           k == p.conn
           h == heard[k]
           n == a + f.inspected
<1>6. /\ From(f, a) /\ f.state = "inspecting" /\ n < p.hi
      /\ lwip' = [at |-> "feed", packet |-> p, rules |-> lwip.rules, slot |-> i,
                  from |-> n, pos |-> n]
  BY <1>5 DEF DataOf
<1>7. lwip'.at = "feed" /\ lwip'.packet = p /\ lwip'.slot = i /\ clock' = clock
  BY <1>1, <1>6 DEF Inspecting
<1>8. Spares(flows', k)
  BY <1>1, FollowedSpares
<1>9. ASSUME heard'[k].upto # -1, Wanted(k)
      PROVE  HeardNow(k)'
  <2>1. /\ heard'[k].upto \in {h.upto, p.hi}
        /\ heard'[k].upto >= h.upto /\ heard'[k].upto >= p.hi
        /\ heard'[k].at = clock /\ heard'[k].fin = Has(p, "FIN")
    BY <1>1, <1>2, <1>9, KnownFlow
  <2>2. f.syn # None /\ f.last_seen = clock /\ f.inspected = h.upto
    BY <1>1, <1>6, <1>9, FoundFlow
  <2>3. FlowOK(f)
    BY <1>2, <1>3, FollowedFlow
  <2>4. a = 0 /\ f.inspected \in Nat /\ p.hi \in Nat
    BY <1>2, <1>6, <2>2, <2>3, AccessFilterAssumption DEF From, FlowOK, WindowOK
  <2>5. heard'[k].upto = p.hi
    <3> DEFINE x == f.inspected
               y == p.hi
               z == heard'[k].upto
    <3>1. x \in Nat /\ y \in Nat /\ a + x < y /\ a = 0 /\ z \in {x, y} /\ z >= y
      BY <1>6, <2>1, <2>2, <2>4
    <3> HIDE DEF x, y, z
    <3>2. z = y
      BY <3>1
    <3> QED BY <3>2 DEF y, z
  <2>6. flows'[lwip'.slot] = f
    BY <1>1, <1>7
  <2> HIDE DEF f
  <2> QED BY <1>6, <1>7, <2>1, <2>2, <2>5, <2>6 DEF HeardNow
<1>10. StopsForCause
  BY <1>2, <1>7, Excused
<1>11. HInv'
  BY <1>1, <1>2, <1>7, <1>8, <1>9, InspectHeard
<1> QED BY <1>10, <1>11


\* The loop is about one connection, and hears nothing new.
LEMMA LoopHeard ==
  ASSUME IInv, HInv, lwip.at = "feed", UNCHANGED <<heard, clock, blockedHosts>>,
         \A j \in Slots \ {lwip.slot} : flows'[j] = flows[j],
         lwip'.at \in {"idle", "feed"}, lwip'.at = "feed" => lwip'.packet = lwip.packet,
         LET k == lwip.packet.conn
         IN  heard[k].upto # -1 /\ Wanted(k) /\ HeardNow(k) =>
               IF lwip'.at = "feed" THEN HeardNow(k)' ELSE HeardBefore(flows', k, heard[k])
  PROVE  HInv'
<1> DEFINE k == lwip.packet.conn
<1>1. flows[lwip.slot].conn = k
  BY TheSlot
<1>2. Heard(heard')
  BY DEF HInv
<1>3. ASSUME NEW c \in Conns, heard'[c].upto # -1, Wanted(c)'
      PROVE  IF lwip'.at = "feed" /\ lwip'.packet.conn = c THEN HeardNow(c)'
             ELSE HeardBefore(flows, c, heard[c])'
  <2>1. Wanted(c) /\ heard[c].upto # -1
    BY <1>3 DEF Wanted, Permitted
  <2>2. CASE c = k
    <3>1. HeardNow(k)
      BY <2>1, <2>2 DEF HInv
    <3> QED BY <2>1, <2>2, <3>1 DEF HeardBefore, LateFor
  <2>3. CASE c # k
    <3>1. HeardBefore(flows, c, heard[c]) /\ ~(lwip'.at = "feed" /\ lwip'.packet.conn = c)
      BY <2>1, <2>3 DEF HInv
    <3>2. HeardBefore(flows', c, heard[c])
      <4>1. ASSUME NEW j \in SlotsOf(flows, c)
            PROVE  j \in SlotsOf(flows', c) /\ flows'[j] = flows[j]
        BY <1>1, <2>3 DEF SlotsOf
      <4> QED BY <3>1, <4>1 DEF HeardBefore
    <3> QED BY <3>1, <3>2 DEF HeardBefore, LateFor
  <2> QED BY <2>2, <2>3
<1> QED BY <1>2, <1>3 DEF HInv

\* A whole hello with a permitted name is allowed, a part of it is not judged.
LEMMA ChunkPermitted ==
  ASSUME ParserGoesOn, ParserReadsHello, IInv, SInv, HInv, FeedChunk
  PROVE  HInv' /\ StopsForCause
<1>1. PICK a \in Nat, n \in Nat : TurnOf(a, n)
  BY ChunkTurns
<1> DEFINE i == lwip.slot
           f == flows[i]
           k == lwip.packet.conn
           c == lwip.pos + n
           t == ReadOf(k, a, c)
           g == flows'[i]
<1>2. UNCHANGED <<blockedHosts, heard, clock>> /\ lwip.at = "feed"
  BY DEF FeedChunk, Feeding, ruleVars
<1>3. i \in Slots /\ f.state # "free" /\ FlowOK(f) /\ f.conn = k /\ k \in Conns
        /\ WindowOK(lwip.packet)
  BY <1>2, TheSlot DEF FlowOK, IInv, LwipInv
<1>4. /\ From(f, a) /\ lwip.pos = a + f.inspected /\ f.state = "inspecting"
      /\ c <= lwip.packet.hi
      /\ g = [state |-> Judged(t), conn |-> k, next |-> f.next, syn |-> f.syn,
              inspected |-> f.inspected + n, last_seen |-> f.last_seen, parser |-> t.parser]
      /\ \A j \in Slots \ {i} : flows'[j] = flows[j]
      /\ lwip' = [at |-> "feed", packet |-> lwip.packet, rules |-> lwip.rules, slot |-> i,
                  from |-> lwip.from, pos |-> c]
  BY <1>1, <1>3 DEF TurnOf
<1>5. /\ g.syn = f.syn /\ g.last_seen = f.last_seen /\ g.state = Judged(t)
      /\ lwip'.at = "feed" /\ lwip'.packet = lwip.packet /\ lwip'.slot = i /\ lwip'.pos = c
  BY <1>4
<1>6. a \in 0..Len(Streams[k]) /\ c \in 0..Len(Streams[k]) /\ a <= c
  <2> DEFINE pos == lwip.pos
             hi == lwip.packet.hi
             L == Len(Streams[k])
             r == f.inspected
  <2>1. hi \in Nat /\ hi <= L /\ L \in Nat
    BY <1>3, StreamLength DEF WindowOK
  <2>2. r \in Nat /\ pos = a + r /\ pos + n <= hi
    BY <1>3, <1>4, AccessFilterAssumption DEF FlowOK
  <2> HIDE DEF pos, hi, L, r
  <2>3. a \in 0..L /\ pos + n \in 0..L /\ a <= pos + n
    BY <2>1, <2>2
  <2> QED BY <2>3 DEF pos, L
<1>7. ASSUME Wanted(k), HeardNow(k)
      PROVE  HeardNow(k)'
  <2>1. /\ f.syn # None /\ f.last_seen = clock /\ heard[k].at = clock
        /\ heard[k].upto = lwip.packet.hi /\ heard[k].fin = Has(lwip.packet, "FIN")
    BY <1>7 DEF HeardNow
  <2>2. a = 0
    BY <1>4, <2>1 DEF From
  <2>3. Hello[k].host # None /\ ~HostBlocked(Hello[k].host)
    BY <1>7 DEF Wanted, Permitted, HostBlocked
  <2>4. Judged(t) = "inspecting" \/ (Judged(t) = "allow" /\ c >= Hello[k].length)
    <3>1. CASE t.result = "need_more"
      BY <3>1 DEF Judged
    <3>2. CASE t.result # "need_more"
      <4>1. /\ t.result = "found" /\ ~t.parser.ech /\ c >= Hello[k].length
            /\ Hello[k].host = Spelled[t.host]
        <5> HIDE DEF c, k
        <5> QED BY <1>3, <1>6, <2>2, <2>3, <3>2 DEF ParserReadsHello, ReadOf
      <4>2. ~HostBlocked(Spelled[t.host])
        BY <2>3, <4>1
      <4> HIDE DEF t
      <4> QED BY <4>1, <4>2 DEF Judged
    <3> QED BY <3>1, <3>2
  <2> HIDE DEF t, c
  <2> QED BY <1>2, <1>5, <2>1, <2>4 DEF HeardNow
<1>8. HInv'
  <2> HIDE DEF c, g
  <2> QED BY <1>2, <1>4, <1>5, <1>7, LoopHeard
<1>9. StopsForCause
  <2> HIDE DEF c, g
  <2> QED BY <1>3, <1>5, Excused
<1> QED BY <1>8, <1>9

\* The loop ends with an allowed flow, or with one that has read less than its hello.
LEMMA EndPermitted ==
  ASSUME ParserReadsHello, IInv, SInv, HInv, FeedEnd
  PROVE  HInv' /\ StopsForCause
<1>1. PICK a \in Nat : \E s : EndOf(a, s)
  BY EndLeaves
<1>2. PICK s : EndOf(a, s)
  BY <1>1
<1> DEFINE i == lwip.slot
           f == flows[i]
           p == lwip.packet
           k == p.conn
           g == [state |-> s, conn |-> k, next |-> SeqAt(k, p.hi), syn |-> f.syn,
                 inspected |-> f.inspected, last_seen |-> f.last_seen, parser |-> f.parser]
<1>3. /\ lwip.at = "feed" /\ UNCHANGED <<blockedHosts, heard, clock>> /\ ~Hungry(f, p)
  BY DEF FeedEnd, Feeding, ruleVars
<1>4. /\ i \in Slots /\ f.state # "free" /\ FlowOK(f) /\ f.conn = k /\ k \in Conns
      /\ WindowOK(p) /\ lwip.pos \in Int /\ lwip.pos <= p.hi
  BY <1>3, TheSlot, FedFlow DEF FlowOK, IInv, LwipInv, FeedOK, BeingFed
<1>5. /\ From(f, a) /\ lwip.pos = a + f.inspected
      /\ s = Unfinished(p, IF f.state = "inspecting" /\ f.inspected >= StreamLimit
                           THEN "block" ELSE f.state)
      /\ flows'[i] = IF Has(p, "FIN") THEN Free ELSE g
      /\ \A j \in Slots \ {i} : flows'[j] = flows[j]
      /\ Verdict(p, s)
  BY <1>2, <1>4 DEF EndOf
<1>6. lwip'.at = "idle"
  BY <1>5 DEF Verdict, Forward, Drop, Resting
<1>7. ASSUME Wanted(k), HeardNow(k)
      PROVE  /\ HeardBefore(flows', k, heard[k])
             /\ \/ Has(p, "FIN") /\ heard'[k].upto < Hello[k].length
                \/ lwip'.verdict # "drop"
  <2>1. /\ f.syn # None /\ f.last_seen = clock /\ heard[k].at = clock
        /\ heard[k].upto = p.hi /\ heard[k].fin = Has(p, "FIN")
        /\ f.state = "inspecting" \/ (f.state = "allow" /\ lwip.pos >= Hello[k].length)
    BY <1>7 DEF HeardNow
  <2> DEFINE n == f.inspected
             hi == p.hi
             pos == lwip.pos
             len == Hello[k].length
  <2>2. n \in Nat /\ hi \in Nat /\ pos \in Int /\ len \in Nat /\ pos <= hi /\ StreamLimit \in Nat
          /\ len <= StreamLimit
    BY <1>4, <1>7, HelloLength, AccessFilterAssumption DEF FlowOK, WindowOK, Wanted
  <2>3. a = 0 /\ pos = n
    <3>1. a = 0 /\ pos = a + n
      BY <1>5, <2>1 DEF From
    <3> HIDE DEF pos, n
    <3> QED BY <2>2, <3>1
  <2>4. f.state = "inspecting" => n < len /\ n = hi
    <3> SUFFICES ASSUME f.state = "inspecting" PROVE n < len /\ n = hi
      OBVIOUS
    <3>1. ~(n >= len)
      <4>1. ReadOf(k, 0, n).result = "need_more"
        <5>1. ReadOf(k, a, a + n).result = "need_more"
          BY <1>4, <1>5 DEF From
        <5>2. a + n = n
          BY <2>2, <2>3
        <5> HIDE DEF n
        <5> QED BY <2>3, <5>1, <5>2
      <4>2. n <= Len(Streams[k]) /\ Len(Streams[k]) \in Nat
        <5>1. hi <= Len(Streams[k]) /\ Len(Streams[k]) \in Nat
          BY <1>4, StreamLength DEF WindowOK
        <5> HIDE DEF n, hi, pos, k
        <5> QED BY <2>2, <2>3, <5>1
      <4>3. n \in 0..Len(Streams[k]) /\ 0 \in 0..Len(Streams[k]) /\ 0 <= n
        <5> HIDE DEF n
        <5> QED BY <2>2, <4>2
      <4> HIDE DEF n, k
      <4> QED BY <1>4, <4>1, <4>3 DEF ParserReadsHello, ReadOf
    <3>2. ~(pos < hi) \/ ~(n < StreamLimit)
      BY <1>3 DEF Hungry
    <3> HIDE DEF n, hi, pos, len
    <3> QED BY <2>2, <2>3, <3>1, <3>2
  <2>5. CASE f.state = "inspecting"
    <3>1. s = IF Has(p, "FIN") THEN "block" ELSE "inspecting"
      <4>1. ~(n >= StreamLimit)
        <5> HIDE DEF n, len
        <5> QED BY <2>2, <2>4, <2>5
      <4> QED BY <1>5, <2>5, <4>1 DEF Unfinished
    <3>2. CASE Has(p, "FIN")
      BY <1>3, <2>1, <2>4, <2>5, <3>2 DEF HeardBefore
    <3>3. CASE ~Has(p, "FIN")
      <4>1. s = "inspecting" /\ flows'[i] = g
        BY <1>5, <3>1, <3>3
      <4>2. lwip'.verdict # "drop"
        BY <1>5, <4>1 DEF Verdict, Forward, Resting
      <4>3. i \in SlotsOf(flows', k) /\ Tracks(flows'[i], k, heard[k])
        BY <1>4, <2>1, <2>4, <2>5, <4>1 DEF SlotsOf, Tracks
      <4> QED BY <4>2, <4>3 DEF HeardBefore
    <3> QED BY <3>2, <3>3
  <2>6. CASE f.state = "allow"
    <3>1. s = "allow"
      BY <1>5, <2>6 DEF Unfinished
    <3>2. lwip'.verdict # "drop"
      BY <1>5, <3>1 DEF Verdict, Forward, Resting
    <3>3. heard[k].upto >= Hello[k].length
      <4>1. hi >= len
        <5>1. pos >= len
          BY <2>1, <2>6
        <5> HIDE DEF hi, pos, len
        <5> QED BY <2>2, <5>1
      <4> QED BY <2>1, <4>1
    <3>4. CASE Has(p, "FIN")
      BY <2>1, <3>2, <3>4 DEF HeardBefore
    <3>5. CASE ~Has(p, "FIN")
      <4>1. flows'[i] = g
        BY <1>5, <3>5
      <4>2. i \in SlotsOf(flows', k) /\ Tracks(flows'[i], k, heard[k])
        BY <1>4, <2>1, <3>1, <3>3, <4>1 DEF SlotsOf, Tracks
      <4> QED BY <3>2, <4>2 DEF HeardBefore
    <3> QED BY <3>4, <3>5
  <2> QED BY <2>1, <2>5, <2>6
<1>8. HInv'
  <2> HIDE DEF g, k
  <2> QED BY <1>3, <1>5, <1>6, <1>7, LoopHeard DEF k
<1>9. StopsForCause
  <2>1. heard'[k].upto # -1 /\ Wanted(k) => HeardNow(k)
    BY <1>3, <1>4 DEF HInv
  <2> HIDE DEF g
  <2> QED BY <1>4, <1>7, <2>1, Excused
<1> QED BY <1>8, <1>9

\* What is permitted under more rules was so under fewer.
LEMMA RulesForbid ==
  ASSUME RulesTypeOK, RulesTypeOK', InstallRule, NEW k, Wanted(k)'
  PROVE  Wanted(k)
<1> DEFINE n == Len(blockedHosts)
<1>1. n \in Nat /\ n <= Len(blockedHosts') /\ Len(blockedHosts') \in Nat
        /\ SubSeq(blockedHosts', 1, n) = SubSeq(blockedHosts, 1, n)
  BY RulesGrow
<1>2. SubSeq(blockedHosts, 1, n) = blockedHosts
  <2>1. blockedHosts \in Seq(Names) /\ n \in Nat
    BY LenProperties DEF RulesTypeOK
  <2>2. n \in Int /\ \A i \in 1..n : blockedHosts[i] \in Names
    BY <2>1, ElementOfSeq
  <2> DEFINE all == blockedHosts
             same == SubSeq(all, 1, n)
  <2>3. /\ same \in Seq(Names) /\ Len(same) = n
        /\ \A i \in 1..n : same[i] = all[i]
    <3> HIDE DEF all, n
    <3>1. all \in Seq(Names) /\ n \in Nat /\ \A i \in 1..n : all[i] \in Names
      BY <2>1, <2>2 DEF all
    <3> QED BY <3>1, SubSeqProperties
  <2>4. all \in Seq(Names) /\ Len(all) = n
    BY <2>1
  <2> HIDE DEF all, same, n
  <2>5. same = all
    BY <2>3, <2>4, SeqEqual
  <2> QED BY <2>5 DEF all, same
<1>3. Listed(blockedHosts) \subseteq Listed(blockedHosts')
  <2> DEFINE more == blockedHosts'
             all == blockedHosts
  <2>1. more \in Seq(Names) /\ all \in Seq(Names)
    BY DEF RulesTypeOK
  <2>2. SubSeq(more, 1, n) = all
    BY <1>1, <1>2
  <2>3. \A i \in 1..n : all[i] = more[i]
    <3>1. \A i \in 1..n : SubSeq(more, 1, n)[i] = more[i]
      <4> HIDE DEF more, n
      <4>1. n \in Int /\ \A i \in 1..n : more[i] \in Names
        BY <1>1, <2>1, ElementOfSeq DEF more
      <4> QED BY <1>1, <2>1, <4>1, SubSeqProperties
    <3> QED BY <2>2, <3>1
  <2>4. DOMAIN all = 1..n /\ DOMAIN more = 1..Len(more)
    BY <2>1, LenProperties
  <2> HIDE DEF more, all, n
  <2> QED BY <1>1, <2>3, <2>4 DEF Listed, more, all
<1> QED BY <1>3 DEF Wanted, Permitted, Covers


\* Time passes, and it is not earlier for anyone.
LEMMA AdvanceHeard ==
  ASSUME IInv, HInv, Advance
  PROVE  HInv'
<1>1. UNCHANGED <<blockedHosts, flows, lwip, heard>> /\ clock' = clock + 1 /\ clock \in Int
        /\ lwip.at = "idle"
  BY AccessFilterAssumption DEF Advance, ruleVars, IInv
<1>2. ASSUME NEW c \in Conns, LateFor(c, heard[c])
      PROVE  LateFor(c, heard[c])'
  <2> DEFINE limit == IF heard[c].upto >= Hello[c].length THEN DecisionTimeout ELSE InspectTimeout
             at == heard[c].at
  <2>1. limit \in Int /\ at \in Int /\ clock - at >= limit
    BY <1>2, AccessFilterAssumption DEF HInv, Heard, LateFor
  <2> HIDE DEF limit, at
  <2>2. clock + 1 - at >= limit
    BY <1>1, <2>1
  <2>3. clock' - at >= limit
    BY <1>1, <2>1, <2>2
  <2>4. clock' - heard'[c].at
          >= IF heard'[c].upto >= Hello[c].length THEN DecisionTimeout ELSE InspectTimeout
    BY <1>1, <2>3 DEF limit, at
  <2> QED BY <2>4 DEF LateFor
<1>3. ASSUME NEW c \in Conns, HeardBefore(flows, c, heard[c])
      PROVE  HeardBefore(flows, c, heard[c])'
  <2>1. SlotsOf(flows, c)' = SlotsOf(flows, c)
    BY <1>1
  <2> QED BY <1>1, <1>2, <1>3, <2>1 DEF HeardBefore, Tracks
<1> QED BY <1>1, <1>3 DEF HInv, Wanted, Permitted

LEMMA HearingStep ==
  ASSUME ParserGoesOn, StreamsShort, ParserReadsHello, RulesTypeOK, IInv, SInv, HInv,
         [Next]_vars
  PROVE  HInv' /\ [StopsForCause]_vars
<1>1. CASE Receive \/ ReceiveExempt
  <2>1. /\ UNCHANGED <<blockedHosts, flows, clock, heard>> /\ lwip.at = "idle"
        /\ lwip'.at \in {"idle", "rules"}
    BY <1>1 DEF Receive, ReceiveExempt, Resting, ruleVars
  <2>2. ~Inspects
    BY <2>1 DEF Inspects, Inspected
  <2>3. HInv'
    BY <2>1 DEF HInv, HeardBefore, LateFor, Wanted, Permitted
  <2> QED BY <2>2, <2>3 DEF StopsForCause
<1>2. CASE Uninspected
  <2>1. /\ UNCHANGED <<blockedHosts, flows, clock, heard>> /\ lwip.at = "rules"
        /\ blockedHosts = <<>> \/ lwip.packet.kind # "tls"
        /\ lwip'.at = "idle"
    BY <1>2 DEF Uninspected, Forward, Drop, Resting, ruleVars
  <2>2. ~Inspects
    BY <2>1 DEF Inspects, Inspected
  <2>3. HInv'
    BY <2>1 DEF HInv, HeardBefore, LateFor, Wanted, Permitted
  <2> QED BY <2>2, <2>3 DEF StopsForCause
<1>3. CASE Inspect
  BY <1>3, UnknownPermitted, SynPermitted, DecidedPermitted, NothingNewPermitted, DataPermitted
     DEF Inspect
<1>4. CASE FeedChunk
  BY <1>4, ChunkPermitted
<1>5. CASE FeedEnd
  BY <1>5, EndPermitted
<1>6. CASE InstallRule
  <2>1. UNCHANGED <<flows, lwip, clock, heard>>
    BY <1>6 DEF InstallRule, filterVars
  <2>2. RulesTypeOK'
    BY RulesStep
  <2>3. \A c \in Conns : Wanted(c)' => Wanted(c)
    BY <1>6, <2>2, RulesForbid
  <2>4. HInv'
    BY <2>1, <2>3 DEF HInv, HeardBefore, HeardNow, LateFor
  <2>5. Inspects => ~Dropped
    BY <2>1 DEF Inspects, Inspected, Dropped
  <2> QED BY <2>4, <2>5 DEF StopsForCause
<1>7. CASE Advance
  <2>1. lwip.at = "idle"
    BY <1>7 DEF Advance
  <2>2. ~Inspects
    BY <2>1 DEF Inspects, Inspected
  <2> QED BY <1>7, <2>2, AdvanceHeard DEF StopsForCause
<1>8. CASE UNCHANGED vars
  <2>1. UNCHANGED <<blockedHosts, flows, lwip, clock, heard>>
    BY <1>8 DEF vars, filterVars, ruleVars
  <2>2. HInv'
    BY <2>1 DEF HInv, HeardBefore, HeardNow, LateFor, Wanted, Permitted
  <2> QED BY <1>8, <2>2
<1> QED BY <1>1, <1>2, <1>3, <1>4, <1>5, <1>6, <1>7, <1>8 DEF Next

\* A connection whose name is permitted, and whose hello fits the budget, is stopped only
\* if the filter missed some of it, the client ended it early or there is no slot for it.
THEOREM PermittedGoesThrough ==
  ASSUME ParserGoesOn, StreamsShort, ParserReadsHello
  PROVE  Spec => PermittedNotBlocked
<1>1. Init => HInv
  <2> SUFFICES ASSUME Init PROVE HInv
    OBVIOUS
  <2>1. heard = [k \in Conns |-> [upto |-> -1, at |-> 0, fin |-> FALSE]]
    BY DEF Init, Unheard
  <2>2. Heard(heard) /\ \A k \in Conns : heard[k].upto = -1
    BY <2>1 DEF Heard
  <2> QED BY <2>2 DEF HInv
<1>2. RulesTypeOK /\ IInv /\ SInv /\ HInv /\ [Next]_vars => HInv' /\ [StopsForCause]_vars
  BY HearingStep
<1> QED BY <1>1, <1>2, ReadingInvariance, PTL DEF Spec, PermittedNotBlocked

=============================================================================
