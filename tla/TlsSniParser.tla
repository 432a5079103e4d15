------------------------------ MODULE TlsSniParser ------------------------------
(***************************************************************************)
(* components/tls_sni_parser: the incremental parser that takes a TLS      *)
(* stream chunk by chunk, puts the ClientHello together from handshake     *)
(* records and looks for the server name in it.                            *)
(*                                                                         *)
(* A stream is a sequence of units, each standing for a run of bytes:      *)
(*   - a record header is two units, the content type and the length;      *)
(*   - the handshake header is two units, the message type and the length  *)
(*     of the body;                                                        *)
(*   - the body is one unit per extension: a host name, ECH, a malformed   *)
(*     one, or one the parser skips.                                       *)
(* Either header can be cut anywhere between two chunks, and the hello     *)
(* anywhere between two records.                                           *)
(***************************************************************************)
LOCAL INSTANCE Integers
LOCAL INSTANCE Sequences
LOCAL INSTANCE SequencesExt
LOCAL INSTANCE FiniteSetsExt

CONSTANTS
  Hosts,       \* units that are a server_name extension with a host name
  Ech,         \* the unit of an encrypted_client_hello extension
  Malformed,   \* a unit whose lengths or characters the parser refuses
  MaxHello     \* TLS_CLIENT_HELLO_MAX_SIZE

RecordHeader == 2   \* sizeof record_header
HelloHeader  == 2   \* length of the handshake header
Handshake    == 22  \* TLS_CONTENT_TYPE_HANDSHAKE
ClientHello  == 1   \* TLS_HANDSHAKE_CLIENT_HELLO

\* tls_sni_parser_init: the parser of a new flow.
ParserInit == [header |-> <<>>, remaining |-> 0, hello |-> <<>>, expected |-> 0,
               ech |-> FALSE, finished |-> FALSE]

\* parse_client_hello, on the body of a whole hello: where it gives up (a second
\* host name is refused), whether it met ECH before that, and what it answers.
ParseHello(body) ==
  LET names == {i \in DOMAIN body : body[i] \in Hosts}
      bad   == {i \in DOMAIN body : \/ body[i] = Malformed
                                    \/ i \in names /\ \E j \in names : j < i}
  IN  [ech    |-> \E i \in DOMAIN body : body[i] = Ech /\ \A j \in bad : i < j,
       result |-> IF bad # {} THEN "invalid" ELSE IF names = {} THEN "no_sni" ELSE "found",
       host   |-> IF bad = {} /\ names # {} THEN body[Max(names)] ELSE Ech]

\* What a turn of the loop of tls_sni_parser_feed has: the parser, the part of
\* the chunk not read yet, the answer so far and the host name found.
Turning(p, rest, result) == [parser |-> p, rest |-> rest, result |-> result, host |-> Ech]

Refusal(p) == Turning([p EXCEPT !.finished = TRUE], <<>>, "invalid")

\* The end of a turn: the bytes copied into the hello are judged.
Assembled(p, rest) ==
  LET expected == IF Len(p.hello) = HelloHeader /\ p.expected = 0
                  THEN p.hello[HelloHeader] + HelloHeader ELSE p.expected
      q == [p EXCEPT !.expected = expected]
  IN  IF p.hello # <<>> /\ p.hello[1] # ClientHello THEN Refusal(p)
      ELSE IF p.expected = 0 /\ expected > 0 /\ (expected > MaxHello \/ expected <= HelloHeader)
           THEN Refusal(q)
      ELSE IF expected > 0 /\ Len(q.hello) = expected
           THEN LET found == ParseHello(SubSeq(q.hello, HelloHeader + 1, expected))
                IN  [Turning([q EXCEPT !.finished = TRUE, !.ech = found.ech], <<>>, found.result)
                       EXCEPT !.host = found.host]
      ELSE Turning(IF q.remaining = 0 THEN [q EXCEPT !.header = <<>>] ELSE q, rest, "need_more")

\* One turn of the loop: complete the record header, then copy what the chunk,
\* the record and the hello all have room for.
Turn(t) ==
  LET p      == t.parser
      fill   == Min({RecordHeader - Len(p.header), Len(t.rest)})
      header == p.header \o SubSeq(t.rest, 1, fill)
      rest   == SubSeq(t.rest, fill + 1, Len(t.rest))
      left   == IF p.remaining = 0 THEN header[RecordHeader] ELSE p.remaining
      wanted == (IF p.expected = 0 THEN HelloHeader ELSE p.expected) - Len(p.hello)
      copy   == Min({Len(rest), left, wanted})
  IN  IF Len(header) < RecordHeader
      THEN Turning([p EXCEPT !.header = header], <<>>, "need_more")
      ELSE IF p.remaining = 0 /\ (header[1] # Handshake \/ left = 0)
      THEN Refusal([p EXCEPT !.header = header])
      ELSE Assembled([p EXCEPT !.header    = header,
                               !.remaining = left - copy,
                               !.hello     = @ \o SubSeq(rest, 1, copy)],
                     SubSeq(rest, copy + 1, Len(rest)))

\* tls_sni_parser_feed.  Every turn reads at least one unit, so a chunk takes at
\* most as many turns as it has units.
Feed(parser, chunk) ==
  IF parser.finished THEN Turning(parser, <<>>, "invalid")
  ELSE FoldLeft(LAMBDA t, u : IF t.rest = <<>> THEN t ELSE Turn(t),
                Turning(parser, chunk, "need_more"), chunk)

=============================================================================
