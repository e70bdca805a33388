---- MODULE MCRelay ----
(* The relay on two connections, and the hellos it may be shown.           *)
EXTENDS Relay, TlsFingerprint

ConnSymmetry == Permutations(Conns)
----------------------------------------------------------------------------
\* A hello, and the bytes a client spells it in.
Item(kind, values) == [kind |-> kind, values |-> values]
Items ==
  {Item("name", <<>>), Item("protocols", << <<104, 50>> >>),
   Item("protocols", << <<104, 116, 47, 49>>, <<104, 50>> >>),
   Item("signatures", <<1027, 2570, 2052>>), Item("signatures", <<1027, 2052>>),
   Item("signatures", <<2052, 1027>>),
   Item("versions", <<10794, 771, 772>>), Item("versions", <<27242, 770>>), Item("secret", <<>>), Item("grease", <<>>)}
Hellos ==
  [ciphers : {<<4865, 4866>>, <<4866, 2570, 4865>>, <<4865>>, <<>>},
   items : UNION {[1..n -> Items] : n \in 0..3}]

U16(n) == <<n \div 256, n % 256>>
Spelled16(values) == FlattenSeq([i \in DOMAIN values |-> U16(values[i])])
After8(bytes) == <<Len(bytes)>> \o bytes
After16(bytes) == U16(Len(bytes)) \o bytes
KindOf(item) ==
  CASE item.kind = "name" -> SERVER_NAME
    [] item.kind = "protocols" -> ALPN
    [] item.kind = "signatures" -> SIGNATURE_ALGORITHMS
    [] item.kind = "versions" -> SUPPORTED_VERSIONS
    [] item.kind = "secret" -> 23
    [] item.kind = "grease" -> 27242
PayloadOf(item) ==
  CASE item.kind = "protocols" ->
         After16(FlattenSeq([i \in DOMAIN item.values |-> After8(item.values[i])]))
    [] item.kind = "signatures" -> After16(Spelled16(item.values))
    [] item.kind = "versions" -> After8(Spelled16(item.values))
    [] OTHER -> <<>>
Body(hello) ==
  <<1, 0, 0, 0, 3, 3>> \o [i \in 1..32 |-> 7] \o After8(<<9>>)
    \o After16(Spelled16(hello.ciphers)) \o After8(<<0>>)
    \o IF hello.items = <<>> THEN <<>>
       ELSE After16(FlattenSeq([i \in DOMAIN hello.items |->
                      U16(KindOf(hello.items[i])) \o After16(PayloadOf(hello.items[i]))]))
Spelling(hello) == <<22, 3, 1>> \o After16(Body(hello))

\* What of a hello JA4 tells apart.
Mixed == {2570, 10794, 27242}
Chosen(values) == SelectSeq(values, LAMBDA v : v \notin Mixed)
Times(values) == [v \in ToSet(values) |-> Cardinality({i \in DOMAIN values : values[i] = v})]
Distinction(hello) ==
  LET kept     == SelectSeq(hello.items, LAMBDA item : item.kind # "grease")
      of(kind) == SelectSeq(kept, LAMBDA item : item.kind = kind)
  IN  [ciphers |-> Times(Chosen(hello.ciphers)),
       kinds |-> Times([i \in DOMAIN kept |-> kept[i].kind]),
       first |-> IF of("protocols") = <<>> THEN <<>>
                 ELSE <<of("protocols")[1].values[1][1], Last(of("protocols")[1].values[1])>>,
       signatures |-> IF of("signatures") = <<>> THEN <<>>
                      ELSE Chosen(Last(of("signatures")).values),
       version |-> IF of("versions") = <<>> THEN 771
                   ELSE Max(ToSet(Chosen(Last(of("versions")).values)))]
\* Of two kinds that are counted and not hashed, only how many there are.
Told(d) ==
  LET times(kind) == IF kind \in DOMAIN d.kinds THEN d.kinds[kind] ELSE 0
  IN  [d EXCEPT !.kinds = [kind \in {"signatures", "versions", "secret"} |-> times(kind)]]
        @@ [named |-> times("name") > 0,
            counted |-> times("name") + times("protocols")]

\* Two clients have one fingerprint exactly when they differ in nothing but
\* what it leaves out: the random values a client mixes in, the order of its
\* ciphers and extensions, the protocols after the first.  ja4().
ASSUME Ja4TellsApart ==
  LET pairs == {<<Told(Distinction(h)), Ja4(Spelling(h))>> : h \in Hellos}
  IN  /\ \A pair \in pairs :
           /\ Cardinality(pair[2]) = 1
           /\ \A print \in pair[2] : print.version = VERSIONS(pair[1].version)
      /\ Cardinality(pairs) = Cardinality({pair[1] : pair \in pairs})
      /\ Cardinality(pairs) = Cardinality({pair[2] : pair \in pairs})

\* A hello that has not all arrived has no fingerprint, and is waited for; one
\* with a byte that is not what it was costs at most the fingerprint.
\* hello_is_complete(), parse_client_hello().
Sample == {h \in Hellos : Len(h.items) = 2 /\ Len(h.ciphers) > 2}
ASSUME PartsAreNotPrinted ==
  \A h \in Sample :
    LET whole == Spelling(h)
    IN  /\ HelloIsComplete(whole)
        /\ \A n \in 0..(Len(whole) - 1) :
             LET part == SubSeq(whole, 1, n)
             IN  ~HelloIsComplete(part) /\ Ja4(part) = {}
        /\ \A n \in 1..Len(whole), byte \in {0, 1, 255} :
             Cardinality(Ja4([whole EXCEPT ![n] = byte])) <= 1
====
