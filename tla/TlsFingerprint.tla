---- MODULE TlsFingerprint ----
(***************************************************************************)
(* nmbench/tlsfp.py: the JA4 of a ClientHello, read off the bytes the      *)
(* relay forwards.  A parse that fails is the empty set, one that succeeds *)
(* the set of its result; nothing raises.  A digest is the text it is      *)
(* taken of: two different ones are taken not to collide.                  *)
(***************************************************************************)
EXTENDS Integers, Sequences, SequencesExt

Byte == 0..255
GREASE == {2570 + 4112 * k : k \in 0..15}

SERVER_NAME == 0
ALPN == 16
SIGNATURE_ALGORITHMS == 13
SUPPORTED_VERSIONS == 43

VERSIONS(version) ==
  CASE version = 772 -> "13"
    [] version = 771 -> "12"
    [] version = 770 -> "11"
    [] version = 769 -> "10"
    [] version = 768 -> "s3"
    [] version = 2 -> "s2"
    [] OTHER -> "00"
----------------------------------------------------------------------------
(* _Reader: numbers of so many bytes, and blocks with their length before  *)
(* them.                                                                   *)

Drop(data, n) == SubSeq(data, n + 1, Len(data))
Number(raw) == FoldLeft(LAMBDA n, byte : 256 * n + byte, 0, raw)
LengthOf(data, width) == Number(SubSeq(data, 1, width))
Holds(data, width) ==
  Len(data) >= width /\ Len(data) - width >= LengthOf(data, width)
Block(data, width) == SubSeq(data, width + 1, width + LengthOf(data, width))
After(data, width) == Drop(data, width + LengthOf(data, width))

\* _u16_list: an odd byte at the end is not read.
U16s(raw) == [i \in 1..(Len(raw) \div 2) |-> Number(<<raw[2 * i - 1], raw[2 * i]>>)]
Plain(values) == SelectSeq(values, LAMBDA v : v \notin GREASE)

\* A whole record, or something there is nothing to wait for.
HelloIsComplete(data) ==
  /\ Len(data) >= 5 /\ data[1] = 22
  /\ Len(data) >= 5 + Number(SubSeq(data, 4, 5))

\* The items of an extension block and of a list of names, if they are whole.
Extensions[block \in Seq(Byte)] ==
  CASE block = <<>> -> {<<>>}
    [] block # <<>> /\ ~(Len(block) >= 2 /\ Holds(Drop(block, 2), 2)) -> {}
    [] OTHER ->
         {<< [kind |-> Number(SubSeq(block, 1, 2)),
              payload |-> Block(Drop(block, 2), 2)] >> \o more :
            more \in Extensions[After(Drop(block, 2), 2)]}
Names[list \in Seq(Byte)] ==
  CASE list = <<>> -> {<<>>}
    [] list # <<>> /\ ~Holds(list, 1) -> {}
    [] OTHER -> {<<Block(list, 1)>> \o more : more \in Names[After(list, 1)]}
----------------------------------------------------------------------------
(* parse_client_hello.                                                     *)

PayloadsOf(items, kind) ==
  LET of == SelectSeq(items, LAMBDA item : item.kind = kind)
  IN  [i \in DOMAIN of |-> of[i].payload]

Offered(payload) == Plain(U16s(Drop(payload, 1)))

\* The highest version of the last list that offers one, or the legacy field.
VersionOf(items, legacy) ==
  LET lists == SelectSeq([i \in DOMAIN PayloadsOf(items, SUPPORTED_VERSIONS) |->
                            Offered(PayloadsOf(items, SUPPORTED_VERSIONS)[i])],
                         LAMBDA list : list # <<>>)
  IN  IF lists = <<>> THEN legacy ELSE Max(ToSet(Last(lists)))
SigalgsOf(items) ==
  LET lists == PayloadsOf(items, SIGNATURE_ALGORITHMS)
  IN  IF lists = <<>> THEN <<>> ELSE Plain(U16s(Drop(Last(lists), 2)))
\* The names of all the lists in order, if each of them is whole.
AlpnOf(items) ==
  FoldLeft(LAMBDA found, payload :
             {names \o more : names \in found,
                more \in IF Len(payload) >= 2 THEN Names[Drop(payload, 2)] ELSE {}},
           {<<>>}, PayloadsOf(items, ALPN))

\* Head: the type, the length, the version and the random.
HEAD == 38
ParseClientHello(data) ==
  LET body     == Block(Drop(data, 3), 2)
      session  == Drop(body, HEAD)
      suites   == After(session, 1)
      methods  == After(suites, 2)
      tail     == After(methods, 1)
      \* No extension block at all is an old client and not a failure.
      blocks   == CASE tail = <<>> -> {<<>>}
                    [] tail # <<>> /\ Holds(tail, 2) -> Extensions[Block(tail, 2)]
                    [] OTHER -> {}
  IN  IF /\ Len(data) >= 5 /\ data[1] = 22 /\ Holds(Drop(data, 3), 2)
         /\ Len(body) >= HEAD /\ body[1] = 1
         /\ Holds(session, 1) /\ Holds(suites, 2) /\ Holds(methods, 1)
      THEN UNION {LET kept == SelectSeq(items, LAMBDA item : item.kind \notin GREASE)
                  IN  {[version |-> VersionOf(kept, Number(SubSeq(body, 5, 6))),
                        ciphers |-> Plain(U16s(Block(suites, 2))),
                        extensions |-> [i \in DOMAIN kept |-> kept[i].kind],
                        sigalgs |-> SigalgsOf(kept), alpn |-> alpn] : alpn \in AlpnOf(kept)} :
                    items \in blocks}
      ELSE {}
----------------------------------------------------------------------------
(* ja4.                                                                    *)

Alphanumeric(byte) == byte \in (48..57) \cup (65..90) \cup (97..122)
HexDigit(n) == IF n < 10 THEN 48 + n ELSE 87 + n

\* The first and the last character of the first name, or a digit of each.
AlpnChars(values) ==
  IF values = <<>> \/ Head(values) = <<>> THEN <<48, 48>>
  ELSE   LET head == Head(Head(values))
             tail == Last(Head(values))
         IN  IF Alphanumeric(head) /\ Alphanumeric(tail) THEN <<head, tail>>
             ELSE <<HexDigit(head \div 16), HexDigit(tail % 16)>>

Sorted(values) == SortSeq(values, LAMBDA a, b : a < b)
Capped(n) == IF n > 99 THEN 99 ELSE n

\* The server's name and the protocols are counted and not hashed; the
\* signature algorithms keep the order they were sent in.
Ja4(data) ==
  {[version |-> VERSIONS(hello.version), sni |-> SERVER_NAME \in ToSet(hello.extensions),
    ciphers |-> Capped(Len(hello.ciphers)), extensions |-> Capped(Len(hello.extensions)),
    alpn |-> AlpnChars(hello.alpn),
    b |-> Sorted(hello.ciphers),
    c |-> <<Sorted(SelectSeq(hello.extensions, LAMBDA e : e \notin {SERVER_NAME, ALPN})),
            hello.sigalgs>>] :
     hello \in ParseClientHello(data)}
====
