------------------------------ MODULE MqttIngress ------------------------------
(***************************************************************************)
(* components/app_mqtt: a command arrives in fragments, which are          *)
(* assembled in one static buffer before the command handler is called.    *)
(*                                                                         *)
(* The MQTT library (external) hands over the fragments of one message at  *)
(* a time and in order; the topic comes with the first only.  When the     *)
(* connection is lost the rest of a message never comes.  A message whose  *)
(* handling was not acknowledged is sent again, so any may come at any     *)
(* time and any number of times.                                           *)
(***************************************************************************)
EXTENDS Integers, Sequences

CONSTANTS
  Messages,      \* what the backend may send: [topic, topic_len, payload]
  NoMessage,     \* no message, no topic
  TopicSize,     \* APP_MQTT_COMMAND_TOPIC_SIZE
  PayloadSize    \* APP_MQTT_COMMAND_PAYLOAD_SIZE, in payload cells

ASSUME MqttIngressAssumption ==
  /\ NoMessage \notin Messages
  /\ \A m \in Messages : m.payload \in Seq({m.payload[i] : i \in DOMAIN m.payload})
  /\ TopicSize \in Nat /\ PayloadSize \in Nat \ {0}

VARIABLES
  wire,       \* the message the library is handing over, and how much of it it has
  incoming,   \* s_incoming_topic, _payload and _expected
  handling    \* the command the handler is called with, until it returns

ingressVars == <<wire, incoming, handling>>

Idle   == [msg |-> NoMessage, at |-> 0]
Midway == wire.msg # NoMessage /\ wire.at < Len(wire.msg.payload)

\* The buffer: s_incoming_received is the length of the payload, since fragments are
\* only copied to its end, and what lies beyond is read by nobody.  This is what
\* reset_incoming_command leaves.
EmptyBuffer == [topic |-> NoMessage, payload |-> <<>>, expected |-> 0]

FitsBuffer(m) == 0 < m.topic_len /\ m.topic_len < TopicSize /\ Len(m.payload) < PayloadSize

\* MUTANT: the first fragment does not start the buffer anew.
OpenedAsIs(m, offset) ==
  IF offset = 0 /\ FitsBuffer(m)
  THEN [incoming EXCEPT !.topic = m.topic, !.expected = Len(m.payload)] ELSE incoming

\* What the first fragment of m, which alone carries the topic, does to the buffer.
Opened(m, offset) ==
  IF offset > 0 THEN incoming
  ELSE IF FitsBuffer(m)
  THEN [topic |-> m.topic, payload |-> <<>>, expected |-> Len(m.payload)]
  ELSE EmptyBuffer

\* handle_mqtt_data for n cells of message m after the first offset ones.  The
\* handler runs before the event returns; nobody else reads the buffer meanwhile.
HandleData(m, offset, n) ==
  LET b == Opened(m, offset)
      filled == [b EXCEPT !.payload = @ \o SubSeq(m.payload, offset + 1, offset + n)]
      fails == \/ Len(m.payload) = 0
               \/ b.expected = 0 \/ offset # Len(b.payload) \/ offset + n > b.expected
      done == ~fails /\ Len(filled.payload) = filled.expected
  IN  /\ incoming' = IF fails \/ done THEN EmptyBuffer ELSE filled
      /\ handling' = IF done THEN [topic |-> filled.topic, payload |-> filled.payload]
                     ELSE NoMessage

\* MQTT_EVENT_DATA for the first or only fragment of a message.
DeliverFirst ==
  /\ handling = NoMessage /\ ~Midway
  /\ \E m \in Messages : \E n \in IF m.payload = <<>> THEN {0} ELSE 1..Len(m.payload) :
       HandleData(m, 0, n) /\ wire' = [msg |-> m, at |-> n]

\* MQTT_EVENT_DATA for another fragment.
DeliverNext ==
  /\ handling = NoMessage /\ Midway
  /\ \E n \in 1..(Len(wire.msg.payload) - wire.at) :
       HandleData(wire.msg, wire.at, n) /\ wire' = [wire EXCEPT !.at = @ + n]

\* The connection is lost in the middle of a message; the buffer stays as it is.
LoseRest ==
  /\ Midway
  /\ wire' = Idle
  /\ UNCHANGED <<incoming, handling>>

\* The handler returns, and the library acknowledges the message.
Returned == wire' = Idle /\ handling' = NoMessage /\ UNCHANGED incoming

IngressInit ==
  /\ wire = Idle
  /\ incoming = EmptyBuffer
  /\ handling = NoMessage

IngressTypeOK ==
  /\ wire = Idle \/ (wire.msg \in Messages /\ wire.at \in 0..Len(wire.msg.payload))
  /\ incoming.expected \in 0..(PayloadSize - 1)
  /\ Len(incoming.payload) \in 0..incoming.expected
  /\ handling # NoMessage => Len(handling.payload) \in 1..(PayloadSize - 1)

\* The handler is called for a message exactly when its last fragment comes, none of
\* it having been lost, and the message fits; and with that message, not with a mix
\* of it and what the buffer held before.
HandlesWhole ==
  /\ wire' # wire /\ wire'.msg # NoMessage /\ wire'.at = Len(wire'.msg.payload) =>
       handling' = IF FitsBuffer(wire'.msg) /\ wire'.msg.payload # <<>>
                   THEN [topic |-> wire'.msg.topic, payload |-> wire'.msg.payload]
                   ELSE NoMessage
  /\ handling' # handling /\ handling' # NoMessage => wire'.at = Len(wire'.msg.payload)
HandledExactly == [][HandlesWhole]_ingressVars

=============================================================================
