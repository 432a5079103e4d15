---------------------------- MODULE MCTrafficRules ----------------------------
(* A backend that blocks two addresses and two hostnames, in messages of up  *)
(* to three fields, with room for two entries in each table.                  *)
EXTENDS TrafficRules, TLC

CONSTANTS ip1, ip2, ip3, zero,
          t1, t2, t3, host, upper, other, portal, odd, req, long, blank,
          la, LA, lb, com, hyphen, empty

MCTexts   == {t1, t2, t3, host, upper, other, portal, odd, req, long, blank, "PING"}
MCLength  == [t \in MCTexts |-> CASE t = blank -> 0 [] t = long -> 64 [] OTHER -> 16]
MCAddress == [t \in MCTexts |-> CASE t = t1 -> ip1 [] t = t2 -> ip2 [] t = t3 -> ip3
                                  [] OTHER -> zero]
MCSpellings == {host, upper, other, portal, odd}
MCLower    == la :> la @@ LA :> la @@ lb :> lb @@ com :> com @@ hyphen :> None @@ empty :> None
\* other is a subdomain of host.
MCLabelsOf == host :> <<la, com>> @@ upper :> <<LA, com, empty>> @@ other :> <<lb, la, com>>
                @@ portal :> <<lb, com>> @@ odd :> <<hyphen, com>>

Text(key, t)   == [key |-> key, form |-> "text", value |-> t]
Spaced(key, t) == [key |-> key, form |-> "spaced", value |-> t]
Number(key, n) == [key |-> key, form |-> "number", value |-> n]
To(topic, p)   == [topic |-> topic, topic_len |-> 30, payload |-> p]

Block(ip, sni) == To("block-traffic", <<Number("alertId", 1), Text("dstIp", ip), Text("sni", sni)>>)

MCMessages ==
  { Block(t1, upper), Block(t2, other), Block(t1, odd), Block(t3, portal), Block(host, blank),
    \* with the fields in the other order and no hostname
    To("block-traffic", <<Text("dstIp", t2), Number("alertId", 0)>>),
    \* spaced as in the example of the README
    To("block-traffic", <<Number("alertId", 1), Spaced("dstIp", t1)>>),
    \* the hostname alone spaced
    To("block-traffic", <<Number("alertId", 1), Text("dstIp", t3), Spaced("sni", upper)>>),
    To("block-traffic", <<Number("alertId", 1), Text("dstIp", t1), Text("requestId", long)>>),
    To("allow", <<Text("mac", t1), Number("sessionId", 1), Number("ttlSeconds", 1)>>),
    To("kick", <<Text("reason", t1)>>),
    To("other", <<Text("type", "PING")>>),
    \* beyond the buffer, by its payload and by its topic
    To("block-traffic", <<Number("alertId", 1), Text("dstIp", t2), Text("sni", other),
                          Number("x", 1)>>),
    [Block(t3, other) EXCEPT !.topic_len = 128],
    To("kick", <<>>) }

ASSUME MCMessagesAssumption == OneFieldPerKey

Query(name, type, class) == [name |-> name, type |-> type, class |-> class]
MCQueries == { Query(upper, "A", "IN"), Query(other, "A", "IN"), Query(odd, "A", "IN"),
               Query(portal, "A", "IN"), Query(host, "other", "IN"), Query(host, "A", "other") }

=============================================================================
