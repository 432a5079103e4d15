------------------------------ MODULE TrafficRules ------------------------------
(***************************************************************************)
(* From the backend's command to what clients notice of it: the MQTT task  *)
(* assembles a command (MqttIngress), parses it (CommandParser) and        *)
(* executes it (handle_mqtt_command, main.c); a BLOCK_TRAFFIC adds to the  *)
(* rules (BlockRules) that the DNS task reads (PortalDns).  The rules are  *)
(* in RAM: KICK, or a loss of power, clears them.                          *)
(***************************************************************************)
EXTENDS PortalDns, MqttIngress, CommandParser

CONSTANT Address  \* Address[t]: what ip4addr_aton makes of text t; a text that is no
                  \* address stands for zero, which is refused alike

ASSUME TrafficRulesAssumption ==
  /\ Spellings \subseteq Texts
  /\ Address \in [Texts -> Ips]
  /\ \A m \in Messages : \A i \in DOMAIN m.payload :
       m.payload[i].form \in {"text", "spaced"} =>
         /\ m.payload[i].value \in Texts
         /\ m.payload[i].key = "sni" => m.payload[i].value \in Spellings \cup {Blank}

VARIABLES
  kicked,     \* a KICK is waiting its second before esp_restart
  published,  \* the result of the last command
  succeeded   \* history: the BLOCK_TRAFFIC commands, as the backend sent them, whose
              \* result since the start of the device is success

commandVars == <<kicked, published, succeeded>>
vars == <<ruleVars, dns, ingressVars, commandVars>>

NoResult == [type |-> "none", id |-> Blank, success |-> FALSE]

Hostname(t) == IF t = Blank THEN None ELSE t

\* publish_command_result; that it may fail is logged and changes nothing.
PublishResult(r, success) ==
  published' = [type |-> r.type, id |-> r.id, success |-> success]

---------------------------------------------------------------------------
(* handle_mqtt_command *)

Handled == {c \in {handling} : handling # NoMessage /\ ~kicked}
Parsed(c) == Parse(c.topic, c.payload)
Elsewhere == {"allow", "revoke-access", "disconnect-mac", "stage-wifi-config",
              "PING", "GET_STATUS"}

\* A command that cannot be parsed is answered all the same.
ExecuteUnparsed ==
  \E c \in Handled :
    /\ ~Parsed(c).ok
    /\ PublishResult(Parsed(c), FALSE)
    /\ Returned
    /\ UNCHANGED <<ruleVars, dns, kicked, succeeded>>

\* What the other components answer is their modules' business; a PING succeeds.
ExecuteElsewhere ==
  \E c \in Handled :
    /\ Parsed(c).ok /\ Parsed(c).type \in Elsewhere
    /\ \E success \in IF Parsed(c).type = "PING" THEN {TRUE} ELSE BOOLEAN :
         PublishResult(Parsed(c), success)
    /\ Returned
    /\ UNCHANGED <<ruleVars, dns, kicked, succeeded>>

\* A message names a field once.  (Of a field that is named twice the parser takes the
\* first; which one the backend means is nowhere said.)
OneFieldPerKey ==
  \A m \in Messages : \A i, j \in DOMAIN m.payload :
    m.payload[i].key = m.payload[j].key => i = j

\* What the backend asked for with message m, however it writes its strings; and the
\* hostnames of it that the search of read_json_string_field overlooks.
Strings == {"text", "spaced"}
Written(m, key, forms) ==
  {m.payload[i].value : i \in {j \in DOMAIN m.payload :
                                 m.payload[j].key = key /\ m.payload[j].form \in forms}}
Hosts(m, forms) == {Normal[t] : t \in Written(m, "sni", forms) \ {Blank}}
Asked(m) ==
  [ips        |-> {Address[t] : t \in Written(m, "dstIp", Strings)},
   hosts      |-> Hosts(m, Strings),
   overlooked |-> Hosts(m, {"spaced"})]

ExecuteBlock ==
  \E c \in Handled :
    LET r == Parsed(c)
        ok == BlockAnswer(Address[r.dst_ip], Hostname(r.sni)) = "ok"
    IN  /\ r.ok /\ r.type = "block-traffic"
        /\ BlockTraffic(Address[r.dst_ip], Hostname(r.sni))
        /\ PublishResult(r, ok)
        /\ succeeded' = IF ok THEN succeeded \cup {Asked(wire.msg)} ELSE succeeded
        /\ Returned
        /\ UNCHANGED <<dns, kicked>>

\* MUTANT: the handler returns, and the task takes other commands meanwhile.
ExecuteKickReturns ==
  \E c \in Handled :
    /\ Parsed(c).ok /\ Parsed(c).type = "kick"
    /\ PublishResult(Parsed(c), TRUE)
    /\ kicked' = TRUE
    /\ Returned
    /\ UNCHANGED <<ruleVars, dns, succeeded>>

\* The result of a KICK is published first; the handler does not return.
ExecuteKick ==
  \E c \in Handled :
    /\ Parsed(c).ok /\ Parsed(c).type = "kick"
    /\ PublishResult(Parsed(c), TRUE)
    /\ kicked' = TRUE
    /\ UNCHANGED <<ruleVars, dns, ingressVars, succeeded>>

---------------------------------------------------------------------------

Init ==
  /\ RulesInit /\ DnsInit /\ IngressInit
  /\ kicked = FALSE
  /\ published = NoResult
  /\ succeeded = {}

\* A message that comes in puts the last result out of sight.
Ingress ==
  /\ DeliverFirst \/ DeliverNext \/ LoseRest
  /\ published' = NoResult
  /\ UNCHANGED <<ruleVars, dns, kicked, succeeded>>

Execute == ExecuteUnparsed \/ ExecuteElsewhere \/ ExecuteBlock \/ ExecuteKick

Dns ==
  /\ DnsReceive \/ DnsBuild \/ DnsResolve \/ DnsEnd
  /\ UNCHANGED <<ingressVars, commandVars>>

\* The KICK's second is over, or the power was lost: RAM starts from nothing.
Restart ==
  /\ blockedIps' = <<>> /\ blockedHosts' = <<>>
  /\ dns' = Waiting("none")
  /\ wire' = Idle
  /\ incoming' = EmptyBuffer
  /\ handling' = NoMessage
  /\ kicked' = FALSE /\ published' = NoResult /\ succeeded' = {}

Next == Ingress \/ Execute \/ Dns \/ Restart

Spec == Init /\ [][Next]_vars

---------------------------------------------------------------------------
(* Properties *)

\* Types, and the state of the three tasks.
TypeOK ==
  /\ RulesTypeOK /\ DnsTypeOK /\ IngressTypeOK
  /\ kicked \in BOOLEAN
  /\ succeeded \subseteq [ips : SUBSET Ips, hosts : SUBSET (Names \cup {None}),
                          overlooked : SUBSET (Names \cup {None})]
  /\ kicked => handling # NoMessage /\ published.type = "kick"

\* The rules in force are those that the commands with the result success ask for,
\* however often a command came: no rule without such a command, none twice, none
\* beyond the tables.  Every address asked for is in force; of the hostnames, all but
\* those written with a space before them: app_command.c:107 does not find one, 505-507
\* go on as if none were there, and the success is of the address alone.
RulesAsReported ==
  /\ Listed(blockedIps) = UNION {a.ips : a \in succeeded}
  /\ Listed(blockedHosts) = UNION {a.hosts \ a.overlooked : a \in succeeded}
  /\ Len(blockedIps) = Cardinality(Listed(blockedIps)) /\ Len(blockedIps) <= IpCapacity
  /\ Len(blockedHosts) = Cardinality(Listed(blockedHosts)) /\ Len(blockedHosts) <= HostCapacity

\* A BLOCK_TRAFFIC that is written as the parser reads it fails only because what it
\* names may not be blocked, or because a table is full and it needs a new entry in
\* it: a command that came before, and is sent again, succeeds again.
WellFormedBlock(m) ==
  /\ m.topic = "block-traffic"
  /\ \A i \in DOMAIN m.payload :
       LET f == m.payload[i]
       IN  \/ f.form = "number" /\ f.value >= 0
           \/ f.form = "text" /\ Fits(f.value, CASE f.key = "sni"   -> SniSize
                                                [] f.key = "dstIp" -> DestinationIpSize
                                                [] OTHER           -> RequestIdSize)
  /\ {<<"alertId", "number">>, <<"dstIp", "text">>}
       \subseteq {<<m.payload[i].key, m.payload[i].form>> : i \in DOMAIN m.payload}
FailureHasCause ==
  handling # NoMessage /\ published' # published /\ ~published'.success
    /\ WellFormedBlock(wire.msg) =>
  LET a == Asked(wire.msg)
  IN  \/ a.ips \cap Refused # {} \/ None \in a.hosts
      \/ Len(blockedIps) = IpCapacity /\ ~(a.ips \subseteq Listed(blockedIps))
      \/ Len(blockedHosts) = HostCapacity /\ ~(a.hosts \subseteq Listed(blockedHosts))
FailsForCause == [][FailureHasCause]_vars

\* A table of rules only grows while the device is up: what a reader without the lock
\* has seen of it stays as it was.
RulesGrow == IsPrefix(blockedIps, blockedIps') /\ IsPrefix(blockedHosts, blockedHosts')
RulesOnlyGrow == [][RulesGrow \/ Restart]_ruleVars

=============================================================================
