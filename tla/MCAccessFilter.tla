---------------------------- MODULE MCAccessFilter ----------------------------
(* The packet filter with two connections.  The first stream has its          *)
(* ClientHello in two records and application data after it.  The second      *)
(* hello hides its host name: the name it shows is beside an ECH.             *)
EXTENDS AccessFilter

CONSTANTS k1, k2, ip1, ip2, ip3, gateway, host, sub, other, upper, odd,
          la, LA, lb, com, hyphen, empty

MCConns   == {k1, k2}
MCServer  == k1 :> ip1 @@ k2 :> ip2
MCISN     == k1 :> 13 @@ k2 :> 3
MCIps     == {ip1, ip2, ip3, gateway}
MCRefused == {gateway}

\* Host units 30 and 31, ECH 40, malformed 41, application data 50.
MCHosts   == {30, 31}
MCSpelled == 30 :> other @@ 31 :> sub
MCStreams == k1 :> <<22, 2, 1, 1, 22, 1, 31, 50>> @@ k2 :> <<22, 4, 1, 2, 31, 40>>
MCCuts    == k1 :> {0, 1, 5, 7, 8} @@ k2 :> {0, 6}
MCHello   == k1 :> [length |-> 7, host |-> sub] @@ k2 :> [length |-> 6, host |-> None]

\* sub is a subdomain of host and upper another spelling of it, absolute; odd is no
\* hostname.
MCLower    == la :> la @@ LA :> la @@ lb :> lb @@ com :> com @@ hyphen :> None @@ empty :> None
MCLabelsOf == host :> <<la, com>> @@ upper :> <<LA, com, empty>> @@ sub :> <<lb, la, com>>
                @@ other :> <<lb, com>> @@ odd :> <<hyphen, com>>

\* The first names another host: under it alone the name both hellos show is permitted.
MCCommands == {<<ip3, other>>, <<ip2, upper>>}

ASSUME MCStreamsAssumption == ParserGoesOn /\ ParserReadsHello /\ StreamsShort

=============================================================================
