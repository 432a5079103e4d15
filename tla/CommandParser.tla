----------------------------- MODULE CommandParser -----------------------------
(***************************************************************************)
(* components/app_command: from the topic and the payload of an MQTT       *)
(* message to a request.                                                   *)
(*                                                                         *)
(* A payload is the sequence of its fields.  The form of a field is how it *)
(* is written:                                                             *)
(*   "text"    "key":"value"      "spaced"  "key": "value"                 *)
(*   "number"  "key":1 or "key": 1                                         *)
(*   "bare"    a value that is neither, such as true                       *)
(*   "open"    "key":"value without the closing quote, at the end          *)
(* The topic stands for its last segment.                                  *)
(***************************************************************************)
EXTENDS Integers, Sequences, FiniteSetsExt

CONSTANTS
  Texts,        \* the strings in payloads
  TextLength,   \* and their lengths
  Blank,        \* the empty one
  MaxVersion    \* UINT32_MAX

ASSUME CommandParserAssumption ==
  /\ Blank \in Texts /\ TextLength \in [Texts -> Nat]
  /\ \A t \in Texts : TextLength[t] = 0 <=> t = Blank
  /\ MaxVersion \in Nat

RequestIdSize     == 64     \* APP_COMMAND_REQUEST_ID_SIZE
MacSize           == 18     \* APP_COMMAND_MAC_SIZE
TypeSize          == 32     \* APP_COMMAND_TYPE_SIZE
DestinationIpSize == 46     \* APP_COMMAND_DESTINATION_IP_SIZE
SniSize           == 256    \* APP_COMMAND_SNI_SIZE
DeviceCodeSize    == 64     \* APP_COMMAND_DEVICE_CODE_SIZE
SsidSize          == 33     \* APP_COMMAND_WIFI_SSID_SIZE
PasswordSize      == 64     \* APP_COMMAND_WIFI_PASSWORD_SIZE
TtlMax            == 86400  \* APP_COMMAND_TTL_SECONDS_MAX

Formal == {"allow", "revoke-access", "kick", "disconnect-mac", "block-traffic",
           "stage-wifi-config"}

Missing   == [status |-> "missing", value |-> Blank]
Bad       == [status |-> "bad", value |-> Blank]
Read(v)   == [status |-> "ok", value |-> v]
Fits(t, size) == TextLength[t] < size

\* The first field of p with this key, in one of these forms.
First(p, key, forms) ==
  LET at == {i \in DOMAIN p : p[i].key = key /\ p[i].form \in forms}
  IN  IF at = {} THEN {} ELSE {p[Min(at)]}

\* read_json_string_field: it searches for "key":" and so overlooks a field with a
\* space before its value.
ReadString(p, key, size) ==
  LET found == First(p, key, {"text", "open"})
  IN  IF found = {} THEN Missing
      ELSE IF \E f \in found : f.form = "text" /\ Fits(f.value, size)
      THEN Read((CHOOSE f \in found : TRUE).value) ELSE Bad

\* read_json_int64_field: it searches for "key": and strtoll skips the space.
ReadInt(p, key) ==
  LET found == First(p, key, {"text", "spaced", "number", "bare", "open"})
  IN  IF found = {} THEN Missing
      ELSE IF \E f \in found : f.form = "number"
      THEN Read((CHOOSE f \in found : TRUE).value) ELSE Bad

IsOk(r)            == r.status = "ok"
Within(r, lo, hi)  == r.status = "ok" /\ r.value >= lo /\ r.value <= hi
AtLeast(r, lo)     == r.status = "ok" /\ r.value >= lo

\* What each topic requires of its payload.  The reason of a KICK is read into the
\* buffer of the MAC.
ArgumentsOk(topic, p) ==
  LET mac     == ReadString(p, "mac", MacSize)
      session == ReadInt(p, "sessionId")
      alert   == ReadInt(p, "alertId")
  IN  CASE topic = "allow"          -> /\ IsOk(mac) /\ AtLeast(session, 1)
                                       /\ Within(ReadInt(p, "ttlSeconds"), 1, TtlMax)
        [] topic = "revoke-access"  -> IsOk(mac) /\ AtLeast(session, 1)
        [] topic = "disconnect-mac" -> IsOk(mac) /\ AtLeast(alert, 0)
        [] topic = "kick"           -> ReadString(p, "reason", MacSize) # Bad
        [] topic = "block-traffic"  -> /\ AtLeast(alert, 0)
                                       /\ IsOk(ReadString(p, "dstIp", DestinationIpSize))
                                       /\ ReadString(p, "sni", SniSize) # Bad

\* The request; the fields that only other components read are left out.
Request(ok, type, id, p) ==
  [ok |-> ok, type |-> type, id |-> id,
   dst_ip |-> ReadString(p, "dstIp", DestinationIpSize).value,
   sni    |-> ReadString(p, "sni", SniSize).value]

\* parse_stage_wifi_config_payload: a JSON parser, to which spaces mean nothing.
JsonString(p, key, size) ==
  LET found == First(p, key, {"text", "spaced", "number", "bare"})
  IN  IF \E f \in found : f.form \in {"text", "spaced"} /\ Fits(f.value, size)
      THEN Read((CHOOSE f \in found : TRUE).value) ELSE Bad

ParseStage(p) ==
  LET whole    == \A i \in DOMAIN p : p[i].form # "open"
      given(r) == whole /\ IsOk(r) /\ r.value # Blank
      id       == JsonString(p, "requestId", RequestIdSize)
      password == JsonString(p, "password", PasswordSize)
  IN  Request(/\ given(id)
              /\ given(JsonString(p, "deviceCode", DeviceCodeSize))
              /\ given(JsonString(p, "ssid", SsidSize))
              /\ IsOk(password)
              /\ password.value = Blank \/ TextLength[password.value] >= 8
              /\ Within(ReadInt(p, "configVersion"), 1, MaxVersion),
              "stage-wifi-config", IF given(id) THEN id.value ELSE Blank, <<>>)

\* A topic that is none of the formal ones: the payload names the command.
ParseByType(p, id) ==
  LET type == ReadString(p, "type", TypeSize)
  IN  IF type.value \in {"PING", "GET_STATUS"} THEN Request(TRUE, type.value, id, p)
      ELSE Request(FALSE, "UNKNOWN", id, p)

\* app_command_parse.  The request id is optional; one that does not fit fails the
\* command before its type is known.
Parse(topic, p) ==
  LET id == ReadString(p, "requestId", RequestIdSize)
  IN  IF topic = "stage-wifi-config" THEN ParseStage(p)
      ELSE IF id = Bad THEN Request(FALSE, "UNKNOWN", Blank, p)
      ELSE IF topic \notin Formal THEN ParseByType(p, id.value)
      ELSE Request(ArgumentsOk(topic, p), topic, id.value, p)

=============================================================================
