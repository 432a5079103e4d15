------------------------------- MODULE PortalDns -------------------------------
(***************************************************************************)
(* components/captive_portal/portal_dns.c: the task that answers the DNS   *)
(* queries of the SoftAP's clients, one at a time.  Whether the client may *)
(* forward is asked when its query comes in and may change at any time;    *)
(* the block rules are read when the answer is built, and may grow while   *)
(* the task waits for the upstream server.                                 *)
(***************************************************************************)
EXTENDS BlockRules

CONSTANTS
  PortalSpellings,  \* what strcasecmp finds equal to s_external_portal_domain; empty
                    \* when no external Portal is configured
  Queries           \* what clients ask: a name, a type and a class

ASSUME PortalDnsAssumption ==
  /\ PortalSpellings \subseteq Spellings
  /\ Queries \subseteq [name : Spellings, type : {"A", "other"}, class : {"IN", "other"}]

VARIABLE dns  \* where the task is, with which query; or the last answer

Answers == {"none", "empty", "portal", "server", "upstream", "refused", "failed"}

Waiting(answer) == [at |-> "receive", answer |-> answer]

\* recvfrom returns a query, and client_access_can_forward_ipv4 answers.  What
\* parse_dns_question does not take is ignored.  (rules: history.)
DnsReceive ==
  /\ dns.at = "receive"
  /\ \/ \E q \in Queries, authorized \in BOOLEAN :
          dns' = [at |-> "build", query |-> q, authorized |-> authorized,
                  rules |-> Len(blockedHosts)]
     \/ dns' = Waiting("none")
  /\ UNCHANGED ruleVars

IsAddressQuery(q) == q.type = "A" /\ q.class = "IN"
AsksForPortal(q)  == IsAddressQuery(q) /\ q.name \in PortalSpellings

\* MUTANT: only address queries are compared with the rules, and the Portal's name too.
AnswerOfBlockedFirst(q, authorized) ==
  IF authorized /\ IsAddressQuery(q) /\ HostBlocked(q.name) THEN "refused"
  ELSE IF AsksForPortal(q) THEN "server"
  ELSE IF ~IsAddressQuery(q) THEN "empty"
  ELSE IF ~authorized THEN "portal"
  ELSE "resolve"

\* The branches of build_dns_response.
AnswerOf(q, authorized) ==
  IF AsksForPortal(q) THEN "server"
  ELSE IF authorized /\ q.class = "IN" /\ HostBlocked(q.name) THEN "refused"
  ELSE IF ~IsAddressQuery(q) THEN "empty"
  ELSE IF ~authorized THEN "portal"
  ELSE "resolve"

DnsBuild ==
  /\ dns.at = "build"
  /\ dns' = IF AnswerOf(dns.query, dns.authorized) = "resolve"
            THEN [dns EXCEPT !.at = "resolve"]
            ELSE Waiting(AnswerOf(dns.query, dns.authorized))
  /\ UNCHANGED ruleVars

\* resolve_authorized_ipv4: the upstream server answers or it does not.
DnsResolve ==
  /\ dns.at = "resolve"
  /\ \E answer \in {"upstream", "failed"} : dns' = Waiting(answer)
  /\ UNCHANGED ruleVars

\* recvfrom fails: the task ends, and nothing starts it again.
DnsEnd ==
  /\ dns.at = "receive"
  /\ dns' = [at |-> "ended"]
  /\ UNCHANGED ruleVars

DnsInit == dns = Waiting("none")

DnsTypeOK ==
  \/ dns.at = "ended"
  \/ dns.at = "receive" /\ dns.answer \in Answers
  \/ /\ dns.at \in {"build", "resolve"}
     /\ dns.query \in Queries /\ dns.authorized \in BOOLEAN
     /\ dns.rules \in 0..Len(blockedHosts)

Answering(answers) ==
  dns.at \in {"build", "resolve"} /\ dns'.at = "receive" /\ dns'.answer \in answers

\* No rule of this table speaks against looking a name up; one that no rule can be
\* compared with is looked up only while there are none.
Open(table, name) ==
  table = <<>> \/ (Normal[name] # None /\ ~Covers(table, Normal[name]))

\* A name is looked up upstream only for a client that may forward, and only if no
\* rule that was there when the query came in covered it.
LooksUpFree ==
  Answering({"upstream", "failed"}) =>
    dns.authorized /\ Open(SubSeq(blockedHosts, 1, dns.rules), dns.query.name)
ResolvedOnlyIfPermitted == [][LooksUpFree]_dns

\* A query is refused only on account of a rule and only for a client that may
\* forward, and one for the external Portal never: that name keeps resolving
\* whatever the backend blocks.
RefusesBlocked ==
  Answering({"refused"}) =>
    dns.authorized /\ ~AsksForPortal(dns.query) /\ ~Open(blockedHosts, dns.query.name)
RefusedOnlyIfBlocked == [][RefusesBlocked]_dns

=============================================================================
