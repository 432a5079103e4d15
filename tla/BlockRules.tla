------------------------------- MODULE BlockRules -------------------------------
(***************************************************************************)
(* The block rules of components/access_filter: a table of IPv4 addresses  *)
(* and a table of hostnames, which only grow.  The MQTT task adds to both  *)
(* in one critical section of s_rule_lock (BLOCK_TRAFFIC); the lwIP thread *)
(* and the DNS task read them.                                             *)
(*                                                                         *)
(* A table is the sequence of its published entries: its length is         *)
(* s_blocked_destination_count or s_blocked_hostname_count, and what lies  *)
(* beyond the count is read by nobody.                                     *)
(***************************************************************************)
EXTENDS Integers, Sequences, SequencesExt

CONSTANTS
  Ips,            \* IPv4 addresses a command may name
  Refused,        \* those that may not be blocked: the SoftAP's own, the Portal
                  \* server's, zero, multicast and broadcast
  Spellings,      \* hostnames as commands, TLS and DNS spell them
  LabelsOf,       \* LabelsOf[s]: what lies between the dots of a spelling
  Lower,          \* Lower[l]: label l in lower case; None if it is empty, too long, has
                  \* other characters than letters, digits and hyphens, or a hyphen at
                  \* an end (a name of more than 253 characters counts as such a label)
  EmptyLabel,     \* the label after the last dot of an absolute name
  IpCapacity,     \* ACCESS_FILTER_BLOCKED_IPV4_CAPACITY
  HostCapacity,   \* ACCESS_FILTER_BLOCKED_HOSTNAME_CAPACITY
  None            \* no hostname, no name

ASSUME BlockRulesAssumption ==
  /\ Refused \subseteq Ips
  /\ LabelsOf \in [Spellings -> Seq(DOMAIN Lower) \ {<<>>}]
  /\ EmptyLabel \in DOMAIN Lower /\ Lower[EmptyLabel] = None
  /\ IpCapacity \in Nat /\ HostCapacity \in Nat
  /\ None \notin Spellings

VARIABLES
  blockedIps,    \* s_blocked_destination_ipv4, up to its count
  blockedHosts   \* s_blocked_hostnames, up to its count

ruleVars == <<blockedIps, blockedHosts>>

Listed(table) == {table[i] : i \in DOMAIN table}

\* Hostnames in the form of the rules.
Names == Seq({Lower[l] : l \in DOMAIN Lower} \ {None})

\* normalize_hostname: one dot at the end goes, and every label must be well-formed.
Normal == [s \in Spellings |->
  LET all    == LabelsOf[s]
      labels == IF all[Len(all)] = EmptyLabel THEN SubSeq(all, 1, Len(all) - 1) ELSE all
  IN  IF labels = <<>> \/ \E i \in DOMAIN labels : Lower[labels[i]] = None THEN None
      ELSE [i \in DOMAIN labels |-> Lower[labels[i]]]]

\* Name n is one of the rules, or a subdomain of one.
Covers(rules, n) == \E r \in Listed(rules) : IsSuffix(r, n)

RulesInit == blockedIps = <<>> /\ blockedHosts = <<>>

\* MUTANT: only the hostname itself is compared.
HostBlockedExactly(s) ==
  blockedHosts # <<>> /\ (Normal[s] = None \/ Normal[s] \in Listed(blockedHosts))

\* MUTANT: a hostname that cannot be normalised is let through.
HostBlockedIfValid(s) ==
  blockedHosts # <<>> /\ Normal[s] # None /\ Covers(blockedHosts, Normal[s])

\* access_filter_is_hostname_blocked.  Rules are never removed, so its two
\* critical sections read what one would: "no rules" decides at the first.
HostBlocked(s) ==
  blockedHosts # <<>> /\ (Normal[s] = None \/ Covers(blockedHosts, Normal[s]))

NewIp(ip)  == ip \notin Listed(blockedIps)
NewHost(s) == s # None /\ Normal[s] \notin Listed(blockedHosts)

\* MUTANT: a full table refuses what is in it already, too.
BlockAnswerFullFirst(ip, s) ==
  IF ip \in Refused \/ (s # None /\ Normal[s] = None) THEN "invalid"
  ELSE IF \/ Len(blockedIps) >= IpCapacity
          \/ s # None /\ Len(blockedHosts) >= HostCapacity THEN "no_mem"
  ELSE "ok"

\* What access_filter_block_traffic answers for address ip and sni s (None: no
\* sni): both tables are checked before either is written.
BlockAnswer(ip, s) ==
  IF ip \in Refused \/ (s # None /\ Normal[s] = None) THEN "invalid"
  ELSE IF \/ NewIp(ip)  /\ Len(blockedIps)   >= IpCapacity
          \/ NewHost(s) /\ Len(blockedHosts) >= HostCapacity THEN "no_mem"
  ELSE "ok"

Added(table, e, new) == IF new THEN Append(table, e) ELSE table

\* MUTANT: the address goes in whatever becomes of the hostname.
BlockTrafficHalf(ip, s) ==
  /\ blockedIps' = Added(blockedIps, ip, ip \notin Refused /\ NewIp(ip)
                                           /\ Len(blockedIps) < IpCapacity)
  /\ blockedHosts' = Added(blockedHosts, Normal[s], BlockAnswer(ip, s) = "ok" /\ NewHost(s))

\* MUTANT: the hostname goes in as the command spells it.
BlockTrafficSpelled(ip, s) ==
  IF BlockAnswer(ip, s) = "ok"
  THEN /\ blockedIps'   = Added(blockedIps, ip, NewIp(ip))
       /\ blockedHosts' = Added(blockedHosts, LabelsOf[s], NewHost(s))
  ELSE UNCHANGED ruleVars

\* access_filter_block_traffic.
BlockTraffic(ip, s) ==
  IF BlockAnswer(ip, s) = "ok"
  THEN /\ blockedIps'   = Added(blockedIps, ip, NewIp(ip))
       /\ blockedHosts' = Added(blockedHosts, Normal[s], NewHost(s))
  ELSE UNCHANGED ruleVars

RulesTypeOK == blockedIps \in Seq(Ips) /\ blockedHosts \in Seq(Names)

=============================================================================
