---- MODULE RelayProofs ----
(***************************************************************************)
(* The relay for any number of connections, exits, fingerprints, attempts  *)
(* and chunks: its types, the host that is never dialled, the bytes that   *)
(* are counted once and posted once, the exits that stay visible, and the  *)
(* fingerprint that stays the first.                                       *)
(***************************************************************************)
EXTENDS Relay, SequenceLemmas

\* A connection not asked for yet has sent nothing, and the host the relay
\* reads in a request is the one it names.
FreshInv ==
  \A c \in Conns :
    /\ At(c, "absent") => conn[c].sent = 0
    /\ conn[c].names # "none" => conn[c].host = <<Written(conn[c].names, "lower")>>

\* The head of a plain request is sent once, on the way to the pump.
Pumped == {"pumping", "up", "down", "counted", "closed"}
HeadInv == \A c \in Conns : <<c, "head">> \in uncounted.up => conn[c].at \in Pumped

\* The counters of the snapshot are not ahead of those they are taken from.
Behind(old, new) ==
  /\ old.up <= new.up /\ old.down <= new.down /\ old.tunnels <= new.tunnels
  /\ old.failures <= new.failures /\ old.blocked <= new.blocked

\* What is posted is a beginning of what is seen now.
PrintsInv ==
  /\ \A i \in DOMAIN rows : IsPrefix(rows[i].ja4, count.ja4)
  /\ FirstPrintIsStable

TypeInv == TypeOK /\ Behind(meter, count)
----------------------------------------------------------------------------
(* The host of a request line.                                             *)

\* A text is cut at a mark that is nowhere in front of it, or nowhere behind.
CutAt(text, i, a, b) == i \in DOMAIN text /\ Preceding(text, i) = a /\ Following(text, i) = b
LEMMA CutAtFirst ==
  ASSUME NEW Words, NEW a \in Seq(Words), NEW b \in Seq(Words), NEW mark, Mark(mark) \in Words,
         ~Has(a, mark)
  PROVE  /\ Has(a \o <<Mark(mark)>> \o b, mark)
         /\ CutAt(a \o <<Mark(mark)>> \o b, First(a \o <<Mark(mark)>> \o b, mark), a, b)
         /\ First(a \o <<Mark(mark)>> \o b, mark) = Len(a) + 1
<1> DEFINE text == a \o <<Mark(mark)>> \o b
           at == Len(a) + 1
<1>1. a \in Seq(Words) /\ b \in Seq(Words) /\ Mark(mark) \in Words
  OBVIOUS
<1>2. /\ text \in Seq(Words) /\ Len(text) = Len(a) + 1 + Len(b)
      /\ text[at] = Mark(mark) /\ at \in DOMAIN text
      /\ \A i \in 1..Len(a) : text[i] = a[i]
      /\ \A i \in 1..Len(b) : text[at + i] = b[i]
  BY <1>1
<1> HIDE DEF text
<1>3. \A i \in 1..Len(a) : a[i] # Mark(mark)
  BY DEF Has
<1>4. First(text, mark) = at
  <2>1. text[at] = Mark(mark) /\ \A j \in 1..(at - 1) : text[j] # Mark(mark)
    BY <1>2, <1>3
  <2>2. ASSUME NEW i \in DOMAIN text, text[i] = Mark(mark),
               \A j \in 1..(i - 1) : text[j] # Mark(mark)
        PROVE  i = at
    <3>1. i \in Nat /\ at \in Nat /\ i >= 1 /\ at >= 1 /\ DOMAIN text = 1..Len(text)
      BY <1>2
    <3>2. ~(i < at)
      BY <2>1, <2>2, <3>1
    <3>3. ~(at < i)
      BY <2>1, <2>2, <3>1
    <3> QED BY <3>1, <3>2, <3>3
  <2> QED BY <1>2, <2>1, <2>2 DEF First
<1>5. Preceding(text, at) = a
  <2>1. Preceding(text, at) = [i \in 1..Len(a) |-> a[i]]
    BY <1>2 DEF Preceding
  <2> QED BY <2>1
<1>6. Following(text, at) = b
  <2>1. Following(text, at) = [i \in 1..Len(b) |-> text[at + i]]
    BY <1>2 DEF Following
  <2>2. [i \in 1..Len(b) |-> text[at + i]] = [i \in 1..Len(b) |-> b[i]]
    BY <1>2
  <2>3. b = [i \in 1..Len(b) |-> b[i]]
    OBVIOUS
  <2> QED BY <2>1, <2>2, <2>3
<1>7. Has(text, mark)
  BY <1>2 DEF Has
<1> QED BY <1>2, <1>4, <1>5, <1>6, <1>7 DEF CutAt, text

LEMMA CutAtFinal ==
  ASSUME NEW Words, NEW a \in Seq(Words), NEW b \in Seq(Words), NEW mark, Mark(mark) \in Words,
         ~Has(b, mark)
  PROVE  /\ Has(a \o <<Mark(mark)>> \o b, mark)
         /\ CutAt(a \o <<Mark(mark)>> \o b, Final(a \o <<Mark(mark)>> \o b, mark), a, b)
         /\ Final(a \o <<Mark(mark)>> \o b, mark) = Len(a) + 1
<1> DEFINE text == a \o <<Mark(mark)>> \o b
           at == Len(a) + 1
<1>1. a \in Seq(Words) /\ b \in Seq(Words) /\ Mark(mark) \in Words
  OBVIOUS
<1>2. /\ text \in Seq(Words) /\ Len(text) = Len(a) + 1 + Len(b)
      /\ text[at] = Mark(mark) /\ at \in DOMAIN text
      /\ \A i \in 1..Len(a) : text[i] = a[i]
      /\ \A i \in 1..Len(b) : text[at + i] = b[i]
  BY <1>1
<1> HIDE DEF text
<1>3. \A i \in 1..Len(b) : b[i] # Mark(mark)
  BY DEF Has
<1>4. Final(text, mark) = at
  <2>1. text[at] = Mark(mark) /\ \A j \in (at + 1)..Len(text) : text[j] # Mark(mark)
    <3>1. ASSUME NEW j \in (at + 1)..Len(text) PROVE text[j] # Mark(mark)
      <4>1. j - at \in 1..Len(b) /\ at + (j - at) = j
        BY <1>2
      <4> QED BY <1>2, <1>3, <4>1
    <3> QED BY <1>2, <3>1
  <2>2. ASSUME NEW i \in DOMAIN text, text[i] = Mark(mark),
               \A j \in (i + 1)..Len(text) : text[j] # Mark(mark)
        PROVE  i = at
    <3>1. i \in Nat /\ at \in Nat /\ i <= Len(text) /\ at <= Len(text) /\ Len(text) \in Nat
      BY <1>2
    <3>2. i < at => at \in (i + 1)..Len(text)
      BY <3>1
    <3>3. at < i => i \in (at + 1)..Len(text)
      BY <3>1
    <3> QED BY <2>1, <2>2, <3>1, <3>2, <3>3
  <2> QED BY <1>2, <2>1, <2>2 DEF Final
<1>5. Preceding(text, at) = a
  <2>1. Preceding(text, at) = [i \in 1..Len(a) |-> a[i]]
    BY <1>2 DEF Preceding
  <2> QED BY <2>1
<1>6. Following(text, at) = b
  <2>1. Following(text, at) = [i \in 1..Len(b) |-> text[at + i]]
    BY <1>2 DEF Following
  <2>2. [i \in 1..Len(b) |-> text[at + i]] = [i \in 1..Len(b) |-> b[i]]
    BY <1>2
  <2>3. b = [i \in 1..Len(b) |-> b[i]]
    OBVIOUS
  <2> QED BY <2>1, <2>2, <2>3
<1>7. Has(text, mark)
  BY <1>2 DEF Has
<1> QED BY <1>2, <1>4, <1>5, <1>6, <1>7 DEF CutAt, text

Marks == {Mark(m) : m \in {":", "port", "[", "]", "user", "pass", "@", "word", "/", "://", "http"}}
WordsFor(name) == Marks \cup {Written(name, "lower"), Written(name, "upper")}

\* The host of an authority is read in it, in lower case, with or without a
\* port and in or out of brackets.
LEMMA HostOfAuthority ==
  ASSUME NEW name \in Hosts, NEW authority \in Authorities(name)
  PROVE  /\ authority \in Seq(WordsFor(name))
         /\ ~Has(authority, "/") /\ ~Has(authority, "@")
         /\ HostOf(authority) = <<Written(name, "lower")>>
<1>1. PICK word \in {Written(name, "lower"), Written(name, "upper")} :
        authority \in {<<word>>, <<word, Mark(":"), Mark("port")>>,
                       <<Mark("["), word, Mark("]"), Mark(":"), Mark("port")>>}
  BY DEF Authorities
<1>2. /\ word \in WordsFor(name) /\ word[1] = name
      /\ \A m \in {":", "port", "[", "]", "user", "pass", "@", "word", "/", "://", "http"} :
           Mark(m) \in WordsFor(name) /\ word # Mark(m)
  BY DEF WordsFor, Marks, Mark, Written, Hosts
<1>3. /\ Mark("[") # Mark(":") /\ Mark("[") # Mark("]") /\ Mark("[") # Mark("/") /\ Mark("[") # Mark("@")
      /\ Mark("]") # Mark(":") /\ Mark("]") # Mark("/") /\ Mark("]") # Mark("@")
      /\ Mark(":") # Mark("/") /\ Mark(":") # Mark("@") /\ Mark("port") # Mark(":")
      /\ Mark("port") # Mark("/") /\ Mark("port") # Mark("@")
  BY DEF Mark, Written
<1>4. Lower(<<word>>) = <<Written(name, "lower")>>
  <2>1. DOMAIN <<word>> = 1..1 /\ <<word>>[1] = word
    OBVIOUS
  <2>2. Lower(<<word>>) = [i \in 1..1 |-> Written(name, "lower")]
    BY <1>2, <2>1 DEF Lower
  <2> QED BY <2>2
<1>5. CASE authority = <<word>>
  <2>1. ~Has(authority, ":") /\ ~Has(authority, "/") /\ ~Has(authority, "@")
    BY <1>2, <1>5 DEF Has
  <2>2. authority[1] # Mark("[") /\ authority \in Seq(WordsFor(name))
    BY <1>2, <1>5
  <2> QED BY <1>4, <1>5, <2>1, <2>2 DEF HostOf, HostAsWritten
<1>6. CASE authority = <<word, Mark(":"), Mark("port")>>
  <2>1. ~Has(authority, "/") /\ ~Has(authority, "@") /\ ~Has(<<Mark("port")>>, ":")
    BY <1>2, <1>3, <1>6 DEF Has
  <2>2. authority[1] # Mark("[") /\ authority \in Seq(WordsFor(name)) /\ authority # <<>>
    BY <1>2, <1>6
  <2>3. authority = <<word>> \o <<Mark(":")>> \o <<Mark("port")>>
    BY <1>6
  <2>4. <<word>> \in Seq(WordsFor(name)) /\ <<Mark("port")>> \in Seq(WordsFor(name))
        /\ Mark(":") \in WordsFor(name)
    BY <1>2
  <2>5. Has(authority, ":") /\ Preceding(authority, Final(authority, ":")) = <<word>>
    <3> DEFINE a == <<word>>
               b == <<Mark("port")>>
    <3>1. a \in Seq(WordsFor(name)) /\ b \in Seq(WordsFor(name)) /\ ~Has(b, ":")
          /\ authority = a \o <<Mark(":")>> \o b
      BY <2>1, <2>3, <2>4
    <3> HIDE DEF a, b
    <3>2. /\ Has(a \o <<Mark(":")>> \o b, ":")
          /\ CutAt(a \o <<Mark(":")>> \o b, Final(a \o <<Mark(":")>> \o b, ":"), a, b)
      BY CutAtFinal, <2>4, <3>1
    <3>3. Has(authority, ":") /\ CutAt(authority, Final(authority, ":"), a, b)
      BY ONLY <3>1, <3>2
    <3> QED BY <3>3 DEF a, CutAt
  <2> QED BY <1>4, <2>1, <2>2, <2>5 DEF HostOf, HostAsWritten
<1>7. CASE authority = <<Mark("["), word, Mark("]"), Mark(":"), Mark("port")>>
  <2>1. ~Has(authority, "/") /\ ~Has(authority, "@") /\ ~Has(<<Mark("["), word>>, "]")
    BY <1>2, <1>3, <1>7 DEF Has
  <2>2. authority[1] = Mark("[") /\ authority \in Seq(WordsFor(name)) /\ authority # <<>>
    BY <1>2, <1>7
  <2>3. authority = <<Mark("["), word>> \o <<Mark("]")>> \o <<Mark(":"), Mark("port")>>
    BY <1>7
  <2>4. <<Mark("["), word>> \in Seq(WordsFor(name)) /\ <<Mark(":"), Mark("port")>> \in Seq(WordsFor(name))
        /\ Mark("]") \in WordsFor(name)
    BY <1>2
  <2>5. First(authority, "]") = 3
    <3> DEFINE a == <<Mark("["), word>>
               b == <<Mark(":"), Mark("port")>>
    <3>1. /\ a \in Seq(WordsFor(name)) /\ b \in Seq(WordsFor(name)) /\ ~Has(a, "]") /\ Len(a) = 2
          /\ authority = a \o <<Mark("]")>> \o b
      BY <2>1, <2>3, <2>4
    <3> HIDE DEF a, b
    <3>2. First(a \o <<Mark("]")>> \o b, "]") = Len(a) + 1
      BY CutAtFirst, <2>4, <3>1
    <3> QED BY <3>1, <3>2
  <2>6. Len(authority) = 5 /\ authority[2] = word
    BY <1>7
  <2>7. SubSeq(authority, 2, 2) = <<word>>
    <3>1. SubSeq(authority, 2, 2) = [i \in 1..1 |-> authority[i + 1]]
      BY <2>2, <2>6
    <3>2. \A i \in 1..1 : authority[i + 1] = <<word>>[i]
      BY <2>6
    <3>3. <<word>> = [i \in 1..1 |-> <<word>>[i]]
      OBVIOUS
    <3> QED BY <3>1, <3>2, <3>3
  <2>8. HostOf(authority) = Lower(SubSeq(authority, 2, First(authority, "]") - 1))
    BY ONLY <2>2 DEF HostOf, HostAsWritten
  <2>9. HostOf(authority) = Lower(<<word>>)
    <3>1. First(authority, "]") - 1 = 2
      BY <2>5
    <3> QED BY ONLY <3>1, <2>7, <2>8
  <2> QED BY <1>4, <2>1, <2>2, <2>9
<1> QED BY <1>1, <1>5, <1>6, <1>7

LEMMA HasInBoth ==
  ASSUME NEW Words, NEW a \in Seq(Words), NEW b \in Seq(Words), NEW mark,
         ~Has(a, mark), ~Has(b, mark)
  PROVE  ~Has(a \o b, mark)
<1> DEFINE text == a \o b
<1>1. /\ Len(text) = Len(a) + Len(b) /\ DOMAIN text = 1..(Len(a) + Len(b))
      /\ \A i \in 1..Len(a) : text[i] = a[i]
      /\ \A i \in 1..Len(b) : text[Len(a) + i] = b[i]
  OBVIOUS
<1>2. DOMAIN a = 1..Len(a) /\ DOMAIN b = 1..Len(b) /\ Len(a) \in Nat /\ Len(b) \in Nat
  OBVIOUS
<1> HIDE DEF text
<1>3. ASSUME NEW i \in DOMAIN text PROVE text[i] # Mark(mark)
  <2>1. CASE i <= Len(a)
    BY <1>1, <1>2, <2>1 DEF Has
  <2>2. CASE i > Len(a)
    <3>1. i - Len(a) \in 1..Len(b) /\ Len(a) + (i - Len(a)) = i
      BY <1>1, <1>2, <2>2
    <3> QED BY <1>1, <1>2, <3>1 DEF Has
  <2> QED BY <1>1, <1>2, <2>1, <2>2
<1>4. ~Has(text, mark)
  BY <1>3 DEF Has
<1> QED BY <1>4 DEF text

\* And so it is in an absolute address, whoever is named in front of it and
\* whatever page is asked for behind it.
LEMMA HostOfTarget ==
  ASSUME NEW path \in {"connect", "plain"}, NEW name \in Hosts, NEW target \in Targets(path, name)
  PROVE  HostAsked(path, target) = <<Written(name, "lower")>>
<1>1. CASE path = "connect"
  BY <1>1, HostOfAuthority DEF Targets, HostAsked
<1>2. CASE path = "plain"
  <2>1. PICK user \in Users, authority \in Authorities(name), location \in Locations :
          target = Absolute(user, authority, location)
    <3>1. target \in {Absolute(user, authority, location) :
                        user \in Users, authority \in Authorities(name), location \in Locations}
      BY <1>2 DEF Targets
    <3> QED BY ONLY <3>1
  <2> DEFINE W == WordsFor(name)
             http == <<Mark("http")>>
             front == user \o authority
             rest == front \o location
  <2>2. /\ authority \in Seq(W) /\ ~Has(authority, "/") /\ ~Has(authority, "@")
        /\ HostOf(authority) = <<Written(name, "lower")>>
    BY HostOfAuthority
  <2>3. \A m \in {":", "port", "[", "]", "user", "pass", "@", "word", "/", "://", "http"} : Mark(m) \in W
    BY DEF WordsFor, Marks
  <2>4. Mark("http") # Mark("://") /\ \A m \in {"user", ":", "pass", "@", "word"} : Mark(m) # Mark("/")
    BY DEF Mark, Written
  <2>5. user \in Seq(W) /\ ~Has(user, "/")
    <3>1. CASE user = <<>>
      BY <3>1 DEF Has
    <3>2. CASE user = <<Mark("user"), Mark(":"), Mark("pass"), Mark("@"), Mark("word"), Mark("@")>>
      BY <2>3, <2>4, <3>2 DEF Has
    <3> QED BY <3>1, <3>2 DEF Users
  <2>6. location \in Seq(W) /\ http \in Seq(W) /\ ~Has(http, "://")
    <3>1. location \in Seq(W)
      <4>1. <<Mark("/"), Mark("@"), Mark(":"), Mark("://"), Mark("/")>> \in Seq(W)
        BY <2>3
      <4>2. <<Mark("/")>> \in Seq(W)
        BY <2>3
      <4>3. <<>> \in Seq(W)
        OBVIOUS
      <4> HIDE DEF W
      <4> QED BY <4>1, <4>2, <4>3 DEF Locations
    <3>2. http \in Seq(W)
      BY <2>3
    <3>3. ~Has(http, "://")
      BY <2>4 DEF Has
    <3> QED BY <3>1, <3>2, <3>3
  <2> HIDE DEF W
  <2>7. front \in Seq(W) /\ ~Has(front, "/") /\ rest \in Seq(W)
    BY <2>2, <2>5, <2>6, HasInBoth
  <2>8. target = http \o <<Mark("://")>> \o rest
    <3>1. <<Mark("http"), Mark("://")>> = http \o <<Mark("://")>>
      OBVIOUS
    <3> DEFINE start == http \o <<Mark("://")>>
    <3>2. start \in Seq(W)
      BY <2>3, <2>6
    <3>3. target = start \o user \o authority \o location
      BY <2>1, <3>1 DEF Absolute
    <3> HIDE DEF start
    <3>4. target = start \o rest
      <4>1. start \o user \o authority = start \o front
        BY <2>2, <2>5, <3>2, ConcatAssociative
      <4>2. (start \o front) \o location = start \o rest
        <5> HIDE DEF front
        <5> QED BY <2>6, <2>7, <3>2, ConcatAssociative
      <4> QED BY <3>3, <4>1, <4>2
    <3> QED BY <3>4 DEF start
  <2> HIDE DEF http
  <2>9. Has(target, "://") /\ Following(target, First(target, "://")) = rest
    <3> HIDE DEF rest
    <3>1. /\ Has(http \o <<Mark("://")>> \o rest, "://")
          /\ CutAt(http \o <<Mark("://")>> \o rest, First(http \o <<Mark("://")>> \o rest, "://"), http, rest)
      BY CutAtFirst, <2>3, <2>6, <2>7
    <3> QED BY ONLY <2>8, <3>1 DEF CutAt
  <2>10. (IF Has(rest, "/") THEN Preceding(rest, First(rest, "/")) ELSE rest) = front
    <3>1. CASE location = <<>>
      <4>1. rest = front
        BY <2>7, <3>1
      <4> QED BY ONLY <2>7, <4>1
    <3>2. CASE location # <<>>
      <4>1. PICK tail \in Seq(W) : location = <<Mark("/")>> \o tail
        <5>1. CASE location = <<Mark("/")>>
          <6>1. <<Mark("/")>> \o <<>> = <<Mark("/")>> /\ <<>> \in Seq(W)
            OBVIOUS
          <6> QED BY <5>1, <6>1
        <5>2. CASE location = <<Mark("/"), Mark("@"), Mark(":"), Mark("://"), Mark("/")>>
          <6>1. location = <<Mark("/")>> \o <<Mark("@"), Mark(":"), Mark("://"), Mark("/")>>
            BY <5>2
          <6>2. <<Mark("@"), Mark(":"), Mark("://"), Mark("/")>> \in Seq(W)
            BY <2>3
          <6> QED BY <6>1, <6>2
        <5> QED BY <3>2, <5>1, <5>2 DEF Locations
      <4> HIDE DEF front
      <4>2. rest = front \o <<Mark("/")>> \o tail
        BY <2>3, <2>7, <4>1
      <4>3. /\ Has(front \o <<Mark("/")>> \o tail, "/")
            /\ CutAt(front \o <<Mark("/")>> \o tail, First(front \o <<Mark("/")>> \o tail, "/"), front, tail)
        BY CutAtFirst, <2>3, <2>7, <4>1
      <4> QED BY ONLY <4>2, <4>3 DEF CutAt
    <3> QED BY <3>1, <3>2
  <2>11. (IF Has(front, "@") THEN Following(front, Final(front, "@")) ELSE front) = authority
    <3>1. CASE user = <<>>
      <4>1. front = authority
        BY <2>2, <3>1
      <4> QED BY ONLY <2>2, <4>1
    <3>2. CASE user = <<Mark("user"), Mark(":"), Mark("pass"), Mark("@"), Mark("word"), Mark("@")>>
      <4> DEFINE who == <<Mark("user"), Mark(":"), Mark("pass"), Mark("@"), Mark("word")>>
      <4>1. who \in Seq(W) /\ user = who \o <<Mark("@")>>
        BY <2>3, <3>2
      <4> HIDE DEF who
      <4>2. front = who \o <<Mark("@")>> \o authority
        BY <4>1
      <4>3. /\ Has(who \o <<Mark("@")>> \o authority, "@")
            /\ CutAt(who \o <<Mark("@")>> \o authority, Final(who \o <<Mark("@")>> \o authority, "@"),
                     who, authority)
        BY CutAtFinal, <2>2, <2>3, <4>1
      <4> QED BY ONLY <4>2, <4>3 DEF CutAt
    <3> QED BY <3>1, <3>2 DEF Users
  <2> HIDE DEF rest, front
  <2>12. AbsoluteUriHost(target) = HostOf(authority)
    BY ONLY <2>9, <2>10, <2>11 DEF AbsoluteUriHost
  <2> QED BY <1>2, <2>2, <2>12 DEF HostAsked
<1> QED BY <1>1, <1>2

\* So the host of a request is the one it names, written in lower case.
LEMMA HostIsNamed ==
  ASSUME NEW ask \in Asks
  PROVE  /\ ask.path \in {"connect", "plain"} /\ ask.names \in Hosts
         /\ ask.host = <<Written(ask.names, "lower")>>
<1>1. PICK path \in {"connect", "plain"}, name \in Hosts :
        \E target \in Targets(path, name) :
          ask = [path |-> path, names |-> name, host |-> HostAsked(path, target)]
  BY DEF Asks
<1>2. PICK target \in Targets(path, name) :
        ask = [path |-> path, names |-> name, host |-> HostAsked(path, target)]
  BY <1>1
<1>3. HostAsked(path, target) = <<Written(name, "lower")>>
  BY HostOfTarget
<1> QED BY <1>2, <1>3
----------------------------------------------------------------------------
(* Types, and counters that only grow.                                     *)

LEMMA CounterFields ==
  ASSUME NEW r \in Counters
  PROVE  /\ r.up \in Nat /\ r.down \in Nat /\ r.tunnels \in Nat /\ r.failures \in Nat /\ r.blocked \in Nat
         /\ r.exits \in Seq(Exits) /\ r.ja4 \in Seq(Prints)
<1> QED BY DEF Counters

\* What the blocks under the lock do to the counters: one of the numbers goes
\* up by one, or a list is replaced (and a tunnel counted with its exit).
LEMMA Raised ==
  ASSUME NEW r \in Counters, NEW s,
         \/ s = [r EXCEPT !.failures = @ + 1] \/ s = [r EXCEPT !.blocked = @ + 1]
         \/ \E dir \in {"up", "down"} : s = Plus(r, dir)
  PROVE  s \in Counters /\ Behind(r, s) /\ s.ja4 = r.ja4
<1>1. CASE s = [r EXCEPT !.failures = @ + 1]
  <2>1. s \in Counters
    BY <1>1 DEF Counters
  <2>2. /\ s.up = r.up /\ s.down = r.down /\ s.tunnels = r.tunnels
        /\ s.failures = r.failures + 1 /\ s.blocked = r.blocked /\ s.ja4 = r.ja4
    BY <1>1 DEF Counters
  <2> QED BY <2>1, <2>2, CounterFields DEF Behind
<1>2. CASE s = [r EXCEPT !.blocked = @ + 1]
  <2>1. s \in Counters
    BY <1>2 DEF Counters
  <2>2. /\ s.up = r.up /\ s.down = r.down /\ s.tunnels = r.tunnels
        /\ s.failures = r.failures /\ s.blocked = r.blocked + 1 /\ s.ja4 = r.ja4
    BY <1>2 DEF Counters
  <2> QED BY <2>1, <2>2, CounterFields DEF Behind
<1>3. ASSUME NEW dir \in {"up", "down"}, s = Plus(r, dir)
      PROVE  s \in Counters /\ Behind(r, s) /\ s.ja4 = r.ja4
  <2>1. s \in Counters
    <3>1. CASE dir = "up"
      BY <1>3, <3>1 DEF Counters, Plus
    <3>2. CASE dir = "down"
      BY <1>3, <3>2 DEF Counters, Plus
    <3> QED BY <3>1, <3>2
  <2>2. /\ s["up"] = IF dir = "up" THEN r["up"] + 1 ELSE r["up"]
        /\ s["down"] = IF dir = "down" THEN r["down"] + 1 ELSE r["down"]
        /\ s["tunnels"] = r["tunnels"] /\ s["failures"] = r["failures"] /\ s["blocked"] = r["blocked"]
        /\ s["ja4"] = r["ja4"]
    BY <1>3 DEF Counters, Plus
  <2> QED BY <2>1, <2>2, CounterFields DEF Behind
<1> QED BY <1>1, <1>2, <1>3

LEMMA Listed ==
  ASSUME NEW r \in Counters, NEW s, NEW es \in Seq(Exits), NEW js \in Seq(Prints),
         s = [r EXCEPT !.tunnels = @ + 1, !.exits = es] \/ s = [r EXCEPT !.ja4 = js]
  PROVE  s \in Counters /\ Behind(r, s) /\ (s.ja4 = r.ja4 \/ s.ja4 = js)
<1>1. CASE s = [r EXCEPT !.tunnels = @ + 1, !.exits = es]
  <2>1. s \in Counters
    <3>1. r.tunnels + 1 \in Nat
      BY CounterFields
    <3> QED BY <1>1, <3>1 DEF Counters
  <2>2. /\ s.up = r.up /\ s.down = r.down /\ s.failures = r.failures /\ s.blocked = r.blocked
        /\ s.tunnels = r.tunnels + 1 /\ s.ja4 = r.ja4
    BY <1>1 DEF Counters
  <2> QED BY <2>1, <2>2, CounterFields DEF Behind
<1>2. CASE s = [r EXCEPT !.ja4 = js]
  <2>1. s \in Counters
    BY <1>2 DEF Counters
  <2>2. /\ s.up = r.up /\ s.down = r.down /\ s.failures = r.failures /\ s.blocked = r.blocked
        /\ s.tunnels = r.tunnels /\ s.ja4 = js
    BY <1>2 DEF Counters
  <2> QED BY <2>1, <2>2, CounterFields DEF Behind
<1> QED BY <1>1, <1>2

LEMMA BehindBoth ==
  ASSUME NEW q \in Counters, NEW r \in Counters, NEW s \in Counters, Behind(q, r), Behind(r, s)
  PROVE  Behind(q, s)
<1>1. /\ q.up \in Nat /\ q.down \in Nat /\ q.tunnels \in Nat /\ q.failures \in Nat /\ q.blocked \in Nat
      /\ r.up \in Nat /\ r.down \in Nat /\ r.tunnels \in Nat /\ r.failures \in Nat /\ r.blocked \in Nat
      /\ s.up \in Nat /\ s.down \in Nat /\ s.tunnels \in Nat /\ s.failures \in Nat /\ s.blocked \in Nat
  BY CounterFields
<1> QED BY <1>1 DEF Behind

LEMMA InitTypes == Init => TypeInv
<1> SUFFICES ASSUME Init PROVE TypeInv
  OBVIOUS
<1>1. count \in Counters /\ meter \in Counters /\ Behind(meter, count)
  BY DEF Init, Counters, Behind
<1>2. conn \in [Conns -> ConnStates]
  BY RelayAssumption DEF Init, Idle, ConnStates, Places
<1>3. /\ rows \in Seq(Counters) /\ named \in Seq(Exits) /\ delivered \in Totals /\ unposted \in Totals
      /\ uncounted \in [up : SUBSET Pieces, down : SUBSET Pieces]
  BY DEF Init, Totals, Both
<1> QED BY <1>1, <1>2, <1>3 DEF Init, TypeInv, TypeOK

\* What the far end takes and nothing counts is in its set of pieces.
LEMMA Taken ==
  ASSUME NEW c \in Conns, NEW dir \in {"up", "down"}, NEW what \in {"head", "chunk"},
         TakesUncounted(c, dir, what), delivered \in Totals,
         uncounted \in [up : SUBSET Pieces, down : SUBSET Pieces]
  PROVE  /\ delivered' \in Totals /\ uncounted' \in [up : SUBSET Pieces, down : SUBSET Pieces]
         /\ delivered'[dir] = delivered[dir] + 1 /\ uncounted'[dir] = uncounted[dir] \cup {<<c, what>>}
         /\ \A other \in {"up", "down"} \ {dir} :
              delivered'[other] = delivered[other] /\ uncounted'[other] = uncounted[other]
<1>1. <<c, what>> \in Pieces
  BY DEF Pieces
<1>2. CASE dir = "up"
  BY <1>1, <1>2 DEF TakesUncounted, Plus, Totals
<1>3. CASE dir = "down"
  BY <1>1, <1>3 DEF TakesUncounted, Plus, Totals
<1> QED BY <1>2, <1>3

\* A handler's step moves its own connection only, and no counter goes back.
LEMMA HandlerTypes ==
  ASSUME TypeInv, NEW c \in Conns, Handler(c)
  PROVE  /\ conn' = [conn EXCEPT ![c] = conn'[c]] /\ conn'[c] \in ConnStates
         /\ count' \in Counters /\ Behind(count, count')
         /\ named' \in Seq(Exits) /\ delivered' \in Totals /\ unposted' \in Totals
         /\ uncounted' \in [up : SUBSET Pieces, down : SUBSET Pieces]
         /\ UNCHANGED observer
<1> DEFINE Goal == /\ conn' = [conn EXCEPT ![c] = conn'[c]] /\ conn'[c] \in ConnStates
                   /\ count' \in Counters /\ Behind(count, count')
                   /\ named' \in Seq(Exits) /\ delivered' \in Totals /\ unposted' \in Totals
                   /\ uncounted' \in [up : SUBSET Pieces, down : SUBSET Pieces]
                   /\ UNCHANGED observer
<1> USE DEF observer
<1>0. /\ count \in Counters /\ conn \in [Conns -> ConnStates] /\ conn[c] \in ConnStates
      /\ named \in Seq(Exits) /\ delivered \in Totals /\ unposted \in Totals
      /\ Idle("closed") \in ConnStates /\ Behind(count, count)
      /\ uncounted \in [up : SUBSET Pieces, down : SUBSET Pieces]
  <2>1. count \in Counters /\ conn \in [Conns -> ConnStates] /\ named \in Seq(Exits)
        /\ delivered \in Totals /\ unposted \in Totals
        /\ uncounted \in [up : SUBSET Pieces, down : SUBSET Pieces]
    BY DEF TypeInv, TypeOK
  <2>2. Idle("closed") \in ConnStates
    BY RelayAssumption DEF Idle, ConnStates, Places
  <2>3. Behind(count, count)
    BY <2>1 DEF Counters, Behind
  <2> QED BY <2>1, <2>2, <2>3
<1>1. ASSUME NEW ask \in Asks, Accept(c, ask) PROVE Goal
  <2>1. conn'[c] = [conn[c] EXCEPT !.at = "request", !.path = ask.path, !.names = ask.names, !.host = ask.host]
    BY <1>0, <1>1 DEF Accept
  <2>2. /\ ask.path \in {"connect", "plain"} /\ ask.names \in Hosts
        /\ ask.host \in {<<Written(name, "lower")>> : name \in Hosts}
    BY HostIsNamed
  <2>3. conn'[c] \in ConnStates
    BY <1>0, <2>1, <2>2 DEF ConnStates, Places
  <2> QED BY <1>0, <1>1, <2>1, <2>3 DEF Accept, history
<1>2. CASE NoHead(c) \/ ClientGone(c) \/ PumpEnds(c)
  BY <1>0, <1>2 DEF NoHead, ClientGone, PumpEnds, Closed, history
<1>3. CASE Refuse(c)
  <2>1. count' \in Counters /\ Behind(count, count')
    BY <1>0, <1>3, Raised DEF Refuse
  <2> QED BY <1>0, <1>3, <2>1 DEF Refuse, Closed, history
<1>4. CASE Dial(c)
  BY <1>0, <1>4 DEF Dial, Goes, ConnStates, Places, history
<1>5. CASE Fails(c)
  <2>1. count' \in Counters /\ Behind(count, count')
    BY <1>0, <1>5, Raised DEF Fails, Failed
  <2> QED BY <1>0, <1>5, <2>1 DEF Fails, Closed, history
<1>6. ASSUME NEW exit \in Exits \cup {NoExit}, Replied(c, exit) PROVE Goal
  <2>1. named' \in Seq(Exits)
    BY <1>0, <1>6 DEF Replied
  <2> QED BY <1>0, <1>6, <2>1 DEF Replied, ConnStates, Places
<1>7. CASE Register(c)
  <2>1. count.exits \in Seq(Exits) /\ conn[c].exit \in Exits \cup {NoExit}
    BY <1>0 DEF Counters, ConnStates
  <2>2. WithExit(count.exits, conn[c].exit) \in Seq(Exits)
    BY <2>1 DEF WithExit
  <2>3. count' = [count EXCEPT !.tunnels = @ + 1, !.exits = WithExit(count.exits, conn[c].exit)]
    BY <1>7 DEF Register
  <2>4. count' \in Counters /\ Behind(count, count')
    BY <1>0, <2>2, <2>3, Listed DEF Counters
  <2> QED BY <1>0, <1>7, <2>4 DEF Register, Goes, ConnStates, Places, history
<1>8. CASE StartPump(c)
  BY <1>0, <1>8 DEF StartPump, At, ConnStates, Places, history
<1>9. ASSUME NEW dir \in {"up", "down"}, Send(c, dir) PROVE Goal
  <2>1. delivered' \in Totals
    BY <1>0, <1>9 DEF Send, Plus, Totals
  <2>2. conn[c].sent + 1 \in 0..Chunks
    BY <1>0, <1>9, RelayAssumption DEF Send, ConnStates
  <2> QED BY <1>0, <1>9, <2>1, <2>2 DEF Send, ConnStates, Places
<1>10. ASSUME NEW dir \in {"up", "down"}, Count(c, dir) PROVE Goal
  <2>1. unposted' \in Totals
    BY <1>0, <1>10 DEF Count, Plus, Totals
  <2>2. count' \in Counters /\ Behind(count, count')
    BY <1>0, <1>10, Raised DEF Count
  <2> QED BY <1>0, <1>10, <2>1, <2>2 DEF Count, Goes, ConnStates, Places
<1>11. ASSUME NEW print \in Prints, RecordHello(c, print) PROVE Goal
  <2>1. WithPrint(count.ja4, print) \in Seq(Prints)
    BY <1>0 DEF Counters, WithPrint
  <2>2. count' = [count EXCEPT !.ja4 = WithPrint(count.ja4, print)]
    BY <1>11 DEF RecordHello
  <2>3. count' \in Counters /\ Behind(count, count')
    BY <1>0, <2>1, <2>2, Listed DEF Counters
  <2> QED BY <1>0, <1>11, <2>3 DEF RecordHello, ConnStates, Places, history
<1>12. CASE NoHello(c)
  <2>1. PICK still \in BOOLEAN : conn' = [conn EXCEPT ![c].at = "pumping", ![c].watching = still]
    BY <1>12 DEF NoHello
  <2>2. conn'[c] = [conn[c] EXCEPT !.at = "pumping", !.watching = still]
    BY <1>0, <2>1
  <2>3. conn'[c] \in ConnStates
    BY <1>0, <2>2 DEF ConnStates, Places
  <2> QED BY <1>0, <1>12, <2>1, <2>2, <2>3 DEF NoHello, history
<1>13. CASE Forward(c)
  <2>1. conn'[c] \in ConnStates
    BY <1>0, <1>13 DEF Forward, Goes, ConnStates, Places
  <2> QED BY <1>0, <1>13, <2>1, Taken DEF Forward, Goes
<1>14. CASE ForwardBreaks(c)
  <2>1. count' \in Counters /\ Behind(count, count')
    BY <1>0, <1>14, Raised DEF ForwardBreaks, Failed
  <2> QED BY <1>0, <1>14, <2>1, Taken DEF ForwardBreaks, Closed
<1>15. ASSUME NEW dir \in {"up", "down"}, SendBreaks(c, dir) PROVE Goal
  BY <1>0, <1>15, Taken DEF SendBreaks, Closed
<1> QED
  BY <1>1, <1>2, <1>3, <1>4, <1>5, <1>6, <1>7, <1>8, <1>9, <1>10, <1>11, <1>12, <1>13, <1>14, <1>15
  DEF Handler

LEMMA NextTypes == TypeInv /\ [Next]_vars => TypeInv'
<1> SUFFICES ASSUME TypeInv, [Next]_vars PROVE TypeInv'
  OBVIOUS
<1>0. count \in Counters /\ meter \in Counters /\ rows \in Seq(Counters) /\ Behind(meter, count)
  BY DEF TypeInv, TypeOK
<1>1. ASSUME NEW c \in Conns, Handler(c) PROVE TypeInv'
  <2>1. conn' \in [Conns -> ConnStates]
    BY HandlerTypes, <1>1 DEF TypeInv, TypeOK
  <2>2. Behind(meter', count')
    BY HandlerTypes, BehindBoth, <1>0, <1>1 DEF observer
  <2> QED BY HandlerTypes, <1>1, <2>1, <2>2 DEF TypeInv, TypeOK, observer
<1>2. CASE Snapshot
  BY <1>0, <1>2 DEF Snapshot, TypeInv, TypeOK, Behind, Counters, history
<1>3. CASE PostRow
  <2>1. SinceMeter \in Counters
    <3>1. /\ count.exits \in Seq(Exits) /\ meter.exits \in Seq(Exits)
          /\ Len(meter.exits) + 1 \in 1..(Len(meter.exits) + 1)
      BY <1>0, CounterFields
    <3>2. SubSeq(count.exits, Len(meter.exits) + 1, Len(count.exits)) \in Seq(Exits)
      BY <3>1, SubSeqProperties
    <3>3. /\ count.up - meter.up \in Nat /\ count.down - meter.down \in Nat
          /\ count.tunnels - meter.tunnels \in Nat /\ count.failures - meter.failures \in Nat
          /\ count.blocked - meter.blocked \in Nat /\ count.ja4 \in Seq(Prints)
      <4>1. /\ count.up \in Nat /\ count.down \in Nat /\ count.tunnels \in Nat
            /\ count.failures \in Nat /\ count.blocked \in Nat /\ count.ja4 \in Seq(Prints)
            /\ meter.up \in Nat /\ meter.down \in Nat /\ meter.tunnels \in Nat
            /\ meter.failures \in Nat /\ meter.blocked \in Nat
        BY <1>0, CounterFields
      <4>2. /\ meter.up <= count.up /\ meter.down <= count.down /\ meter.tunnels <= count.tunnels
            /\ meter.failures <= count.failures /\ meter.blocked <= count.blocked
        BY <1>0 DEF Behind
      <4>3. \A m, n \in Nat : m <= n => n - m \in Nat
        OBVIOUS
      <4> QED BY ONLY <4>1, <4>2, <4>3
    <3> QED BY <3>2, <3>3 DEF SinceMeter, Counters
  <2>2. rows' \in Seq(Counters)
    BY <1>0, <1>3, <2>1 DEF PostRow
  <2> QED BY <1>0, <1>3, <2>2 DEF PostRow, TypeInv, TypeOK, history
<1>4. CASE Stop
  <2>1. unposted' \in Totals
    <3>1. /\ count.up \in Nat /\ meter.up \in Nat /\ meter.up <= count.up
          /\ count.down \in Nat /\ meter.down \in Nat /\ meter.down <= count.down
          /\ unposted \in Totals /\ unposted.up \in Nat /\ unposted.down \in Nat
      BY <1>0, CounterFields DEF Behind, TypeInv, TypeOK, Totals
    <3> QED BY <1>4, <3>1 DEF Stop, Totals
  <2> QED BY <1>4, <2>1 DEF Stop, TypeInv, TypeOK
<1>5. CASE UNCHANGED vars
  BY <1>5 DEF vars, TypeInv, TypeOK
<1> QED BY <1>1, <1>2, <1>3, <1>4, <1>5 DEF Next

\* The counters are naturals, and so is what a row is posted: a snapshot is
\* never ahead of the counters it is subtracted from (relay.py, since).
THEOREM TypeCorrect == Spec => []TypeOK
<1>1. TypeInv => TypeOK
  BY DEF TypeInv
<1> QED BY InitTypes, NextTypes, <1>1, PTL DEF Spec

\* And a snapshot is never ahead of the counters it was taken from.
THEOREM Typed == Spec => []TypeInv
<1> QED BY InitTypes, NextTypes, PTL DEF Spec
----------------------------------------------------------------------------
(* The host that is refused.                                               *)

LEMMA InitVendor == Init => VendorNeverDialled /\ FreshInv
<1> QED BY DEF Init, Idle, VendorNeverDialled, FreshInv, At

LEMMA NextVendor ==
  TypeInv /\ VendorNeverDialled /\ FreshInv /\ [Next]_vars => (VendorNeverDialled /\ FreshInv)'
<1> SUFFICES ASSUME TypeInv, VendorNeverDialled, FreshInv, [Next]_vars
             PROVE  (VendorNeverDialled /\ FreshInv)'
  OBVIOUS
<1>1. ASSUME NEW c \in Conns, Handler(c) PROVE (VendorNeverDialled /\ FreshInv)'
  <2> DEFINE Good(k) == /\ k.names = "vendor" => k.at \in {"request", "closed"} /\ k.sent = 0
                        /\ k.at = "absent" => k.sent = 0
                        /\ k.names # "none" => k.host = <<Written(k.names, "lower")>>
  <2>1. conn \in [Conns -> ConnStates] /\ conn' = [conn EXCEPT ![c] = conn'[c]]
    BY HandlerTypes, <1>1 DEF TypeInv, TypeOK
  <2>2. \A k \in Conns : Good(conn[k])
    BY DEF VendorNeverDialled, FreshInv, At
  <2>3. Good(conn'[c])
    <3>1. conn[c] \in ConnStates /\ Good(conn[c])
      BY <2>1, <2>2
    <3>2. ASSUME NEW ask \in Asks, Accept(c, ask) PROVE Good(conn'[c])
      <4>1. /\ conn'[c].at = "request" /\ conn'[c].sent = conn[c].sent
            /\ conn'[c].names = ask.names /\ conn'[c].host = ask.host /\ conn[c].at = "absent"
        BY <2>1, <3>1, <3>2 DEF Accept, At, ConnStates
      <4>2. ask.host = <<Written(ask.names, "lower")>>
        BY HostIsNamed
      <4> QED BY <3>1, <4>1, <4>2
    <3>3. CASE \/ NoHead(c) \/ Refuse(c) \/ Fails(c) \/ ClientGone(c) \/ PumpEnds(c) \/ ForwardBreaks(c)
               \/ \E dir \in {"up", "down"} : SendBreaks(c, dir)
      <4>1. conn'[c] = Idle("closed")
        BY <2>1, <3>3 DEF NoHead, Refuse, Fails, ClientGone, PumpEnds, ForwardBreaks, SendBreaks, Closed
      <4> QED BY <4>1 DEF Idle
    <3>4. CASE Dial(c)
      <4>1. conn[c].names # "vendor"
        BY <3>1, <3>4 DEF Dial, Blocked, VENDOR_FETCH
      <4> QED BY <2>1, <3>1, <3>4, <4>1 DEF Dial, Goes, At, ConnStates
    <3>5. ASSUME NEW exit \in Exits \cup {NoExit}, Replied(c, exit) PROVE Good(conn'[c])
      BY <2>1, <3>1, <3>5 DEF Replied, At, ConnStates
    <3>6. CASE Register(c)
      BY <2>1, <3>1, <3>6 DEF Register, Goes, At, ConnStates
    <3>7. CASE StartPump(c)
      BY <2>1, <3>1, <3>7 DEF StartPump, At, ConnStates
    <3>8. ASSUME NEW dir \in {"up", "down"}, Send(c, dir) \/ Count(c, dir) PROVE Good(conn'[c])
      BY <2>1, <3>1, <3>8 DEF Send, Count, Goes, At, ConnStates
    <3>9. CASE NoHello(c) \/ \E print \in Prints : RecordHello(c, print)
      BY <2>1, <3>1, <3>9 DEF NoHello, RecordHello, At, ConnStates
    <3>10. CASE Forward(c)
      BY <2>1, <3>1, <3>10 DEF Forward, Goes, At, ConnStates
    <3> QED BY <1>1, <3>2, <3>3, <3>4, <3>5, <3>6, <3>7, <3>8, <3>9, <3>10 DEF Handler
  <2>4. \A k \in Conns : Good(conn'[k])
    BY <2>1, <2>2, <2>3
  <2> QED BY <2>4 DEF VendorNeverDialled, FreshInv, At
<1>2. CASE Snapshot \/ PostRow \/ Stop \/ UNCHANGED vars
  <2>1. conn' = conn
    BY <1>2 DEF Snapshot, PostRow, Stop, vars
  <2> QED BY <2>1 DEF VendorNeverDialled, FreshInv, At
<1> QED BY <1>1, <1>2 DEF Next

\* However many connections ask for it, by whichever path and in whichever
\* spelling, a host on the list is never taken upstream and is sent nothing
\* (relay.py, block_hosts).
THEOREM VendorRefused == Spec => []VendorNeverDialled
<1> QED BY InitVendor, NextVendor, Typed, PTL DEF Spec
----------------------------------------------------------------------------
(* The bytes that are counted.                                             *)

\* One connection more, one less, or none, is between a chunk and its count.
LEMMA InHandMoves ==
  ASSUME NEW dir, NEW c \in Conns,
         \A k \in Conns \ {c} : At(k, dir)' <=> At(k, dir)
  PROVE  /\ InHand(dir) \in Nat
         /\ At(c, dir) /\ ~At(c, dir)' => InHand(dir)' = InHand(dir) - 1
         /\ ~At(c, dir) /\ At(c, dir)' => InHand(dir)' = InHand(dir) + 1
         /\ (At(c, dir) <=> At(c, dir)') => InHand(dir)' = InHand(dir)
<1> DEFINE S == {k \in Conns : At(k, dir)}
           T == {k \in Conns : At(k, dir)'}
<1>1. IsFiniteSet(S) /\ Cardinality(S) \in Nat
  <2>1. IsFiniteSet(S)
    BY RelayAssumption, FS_Subset
  <2> QED BY <2>1, FS_CardinalityType
<1>2. InHand(dir) = Cardinality(S) /\ InHand(dir)' = Cardinality(T)
  BY DEF InHand
<1>3. CASE At(c, dir) /\ ~At(c, dir)'
  <2>1. T = S \ {c} /\ c \in S
    BY <1>3
  <2> QED BY <1>1, <1>2, <1>3, <2>1, FS_RemoveElement
<1>4. CASE ~At(c, dir) /\ At(c, dir)'
  <2>1. T = S \cup {c} /\ c \notin S
    BY <1>4
  <2> QED BY <1>1, <1>2, <1>4, <2>1, FS_AddElement
<1>5. CASE At(c, dir) <=> At(c, dir)'
  <2>1. T = S
    BY <1>5
  <2> QED BY <1>1, <1>2, <1>5, <2>1
<1> QED BY <1>3, <1>4, <1>5

CountedInv == CountedIsDelivered /\ HeadInv

LEMMA UncountedFinite ==
  ASSUME TypeInv, NEW dir \in {"up", "down"}
  PROVE  IsFiniteSet(uncounted[dir]) /\ Cardinality(uncounted[dir]) \in Nat
<1>1. uncounted[dir] \in SUBSET Pieces
  BY DEF TypeInv, TypeOK
<1>2. IsFiniteSet(Pieces)
  <2>1. IsFiniteSet({} \cup {"head"})
    BY FS_EmptySet, FS_AddElement
  <2>2. IsFiniteSet(({} \cup {"head"}) \cup {"chunk"})
    BY ONLY <2>1, FS_AddElement
  <2>3. ({} \cup {"head"}) \cup {"chunk"} = {"head", "chunk"}
    OBVIOUS
  <2> QED BY <2>2, <2>3, FS_Product, RelayAssumption DEF Pieces
<1> QED BY <1>1, <1>2, FS_Subset, FS_CardinalityType

LEMMA InitCounted == Init => CountedInv
<1> SUFFICES ASSUME Init PROVE CountedInv
  OBVIOUS
<1>1. ASSUME NEW dir \in {"up", "down"}
      PROVE  count[dir] + InHand(dir) + Cardinality(uncounted[dir]) = delivered[dir]
  <2>1. {c \in Conns : At(c, dir)} = {}
    BY DEF Init, Idle, At
  <2>2. InHand(dir) = 0
    BY <2>1, FS_EmptySet DEF InHand
  <2>3. uncounted[dir] = {} /\ count[dir] = 0 /\ delivered[dir] = 0
    BY DEF Init, Both
  <2>4. Cardinality(uncounted[dir]) = 0
    BY <2>3, FS_EmptySet
  <2> QED BY <2>2, <2>3, <2>4
<1>2. uncounted.up = {} /\ uncounted.down = {}
  BY DEF Init
<1> QED BY <1>1, <1>2 DEF CountedInv, CountedIsDelivered, HeadInv

\* A handler that has sent something stays on the path it is on, and one that
\* is closed does nothing more.
LEMMA HandlerPlaces ==
  ASSUME TypeInv, NEW c \in Conns, Handler(c), conn[c].at \in Pumped
  PROVE  /\ conn[c].at # "closed" /\ conn'[c].at \in Pumped
         /\ conn'[c].at = "closed" \/ conn'[c].path = conn[c].path
<1> DEFINE Goal == /\ conn[c].at # "closed" /\ conn'[c].at \in Pumped
                   /\ conn'[c].at = "closed" \/ conn'[c].path = conn[c].path
<1>0. conn \in [Conns -> ConnStates] /\ conn[c] \in ConnStates
  BY DEF TypeInv, TypeOK
<1>1. ASSUME \/ \E ask \in Asks : Accept(c, ask)
             \/ \E exit \in Exits \cup {NoExit} : Replied(c, exit)
             \/ NoHead(c) \/ Refuse(c) \/ Dial(c) \/ Register(c) \/ ClientGone(c) \/ StartPump(c)
             \/ Forward(c) \/ ForwardBreaks(c)
      PROVE  FALSE
  BY <1>1 DEF Accept, Replied, NoHead, Refuse, Dial, Register, ClientGone, StartPump, Forward,
              ForwardBreaks, At, Pumped
<1>2. CASE Fails(c) \/ PumpEnds(c) \/ \E dir \in {"up", "down"} : SendBreaks(c, dir)
  <2>1. conn'[c] = Idle("closed") /\ conn[c].at # "closed"
    BY <1>0, <1>2 DEF Fails, PumpEnds, SendBreaks, Closed, At
  <2> QED BY <2>1 DEF Idle, Pumped
<1>3. ASSUME NEW dir \in {"up", "down"}, Send(c, dir) \/ Count(c, dir) PROVE Goal
  BY <1>0, <1>3 DEF Send, Count, Goes, At, ConnStates, Pumped
<1>4. CASE NoHello(c) \/ \E print \in Prints : RecordHello(c, print)
  BY <1>0, <1>4 DEF NoHello, RecordHello, At, ConnStates, Pumped
<1> QED BY <1>1, <1>2, <1>3, <1>4 DEF Handler

\* The steps that touch either side touch one direction of it: a chunk is in
\* hand between its sending and its count, and what is not counted is kept.
LEMMA HandlerCounted ==
  ASSUME TypeInv, CountedInv, NEW c \in Conns, Handler(c), NEW dir \in {"up", "down"}
  PROVE  (count[dir] + InHand(dir) + Cardinality(uncounted[dir]) = delivered[dir])'
<1>1. /\ conn \in [Conns -> ConnStates] /\ conn' = [conn EXCEPT ![c] = conn'[c]]
      /\ count[dir] \in Nat /\ delivered[dir] \in Nat
      /\ count \in Counters /\ delivered \in Totals
      /\ uncounted \in [up : SUBSET Pieces, down : SUBSET Pieces]
  BY HandlerTypes DEF TypeInv, TypeOK, Counters, Totals
<1>2. \A k \in Conns \ {c} : At(k, dir)' <=> At(k, dir)
  BY <1>1 DEF At
<1>3. /\ count[dir] + InHand(dir) + Cardinality(uncounted[dir]) = delivered[dir]
      /\ IsFiniteSet(uncounted[dir]) /\ Cardinality(uncounted[dir]) \in Nat
  BY UncountedFinite DEF CountedInv, CountedIsDelivered
<1>4. CASE Send(c, dir)
  <2>1. ~At(c, dir) /\ At(c, dir)'
    BY <1>1, <1>4 DEF Send, At, ConnStates
  <2>2. count'[dir] = count[dir] /\ delivered'[dir] = delivered[dir] + 1 /\ uncounted' = uncounted
    BY <1>1, <1>4 DEF Send, Plus, Totals
  <2> QED BY <1>1, <1>2, <1>3, <2>1, <2>2, InHandMoves
<1>5. CASE Count(c, dir)
  <2>1. At(c, dir) /\ ~At(c, dir)'
    BY <1>1, <1>5 DEF Count, Goes, At, ConnStates
  <2>2. count'[dir] = count[dir] + 1 /\ delivered'[dir] = delivered[dir] /\ uncounted' = uncounted
    BY <1>1, <1>5 DEF Count, Plus, Counters
  <2> QED BY <1>1, <1>2, <1>3, <2>1, <2>2, InHandMoves
<1>6. ASSUME Forward(c) \/ ForwardBreaks(c) \/ \E d \in {"up", "down"} : SendBreaks(c, d)
      PROVE  (count[dir] + InHand(dir) + Cardinality(uncounted[dir]) = delivered[dir])'
  <2>1. ~At(c, dir) /\ ~At(c, dir)' /\ count'[dir] = count[dir]
    <3>1. CASE Forward(c)
      BY <1>1, <3>1 DEF Forward, Goes, At, ConnStates
    <3>2. CASE ForwardBreaks(c)
      BY <1>1, <3>2 DEF ForwardBreaks, Failed, Closed, Idle, At, ConnStates, Counters
    <3>3. CASE \E d \in {"up", "down"} : SendBreaks(c, d)
      BY <1>1, <3>3 DEF SendBreaks, Closed, Idle, At, ConnStates
    <3> QED BY <1>6, <3>1, <3>2, <3>3
  <2>2. PICK d \in {"up", "down"}, what \in {"head", "chunk"} :
          TakesUncounted(c, d, what) /\ <<c, what>> \notin uncounted[d]
    <3>1. CASE Forward(c) \/ ForwardBreaks(c)
      <4>1. TakesUncounted(c, "up", "head") /\ conn[c].at = "dialled"
        BY <3>1 DEF Forward, ForwardBreaks, At
      <4>2. <<c, "head">> \notin uncounted["up"]
        BY <4>1 DEF CountedInv, HeadInv, Pumped
      <4> QED BY <4>1, <4>2
    <3>2. CASE \E d \in {"up", "down"} : SendBreaks(c, d)
      <4>1. PICK d \in {"up", "down"} : TakesUncounted(c, d, "chunk") /\ conn[c].at = "pumping"
        BY <3>2 DEF SendBreaks, At
      <4>2. <<c, "chunk">> \notin uncounted["up"] /\ <<c, "chunk">> \notin uncounted["down"]
        BY <4>1 DEF CountedInv, CountedIsDelivered, At
      <4> QED BY <4>1, <4>2
    <3> QED BY <1>6, <3>1, <3>2
  <2>3. InHand(dir)' = InHand(dir) /\ InHand(dir) \in Nat
    BY <1>2, <2>1, InHandMoves
  <2>4. CASE d = dir
    <3>1. delivered'[dir] = delivered[dir] + 1 /\ uncounted'[dir] = uncounted[dir] \cup {<<c, what>>}
      BY <1>1, <2>2, <2>4, Taken
    <3>2. Cardinality(uncounted'[dir]) = Cardinality(uncounted[dir]) + 1
      BY <1>3, <2>2, <2>4, <3>1, FS_AddElement
    <3> QED BY <1>1, <1>3, <2>1, <2>3, <3>1, <3>2
  <2>5. CASE d # dir
    <3>1. delivered'[dir] = delivered[dir] /\ uncounted'[dir] = uncounted[dir]
      BY <1>1, <2>2, <2>5, Taken
    <3> QED BY <1>1, <1>3, <2>1, <2>3, <3>1
  <2> QED BY <2>4, <2>5
<1>7. CASE /\ ~Send(c, dir) /\ ~Count(c, dir) /\ ~Forward(c) /\ ~ForwardBreaks(c)
           /\ ~\E d \in {"up", "down"} : SendBreaks(c, d)
  <2> DEFINE Kept == /\ At(c, dir)' <=> At(c, dir)
                     /\ count'[dir] = count[dir] /\ delivered'[dir] = delivered[dir] /\ uncounted' = uncounted
  <2>1. ASSUME NEW ask \in Asks, Accept(c, ask) PROVE Kept
    BY <1>1, <2>1 DEF Accept, At, ConnStates, history
  <2>2. ASSUME NoHead(c) \/ ClientGone(c) \/ PumpEnds(c) PROVE Kept
    BY <1>1, <2>2 DEF NoHead, ClientGone, PumpEnds, Closed, Idle, At, ConnStates, history
  <2>3. ASSUME Refuse(c) PROVE Kept
    BY <1>1, <2>3 DEF Refuse, Closed, Idle, At, ConnStates, Counters, history
  <2>4. ASSUME Fails(c) PROVE Kept
    BY <1>1, <2>4 DEF Fails, Failed, Closed, Idle, At, ConnStates, Counters, history
  <2>5. ASSUME Dial(c) PROVE Kept
    BY <1>1, <2>5 DEF Dial, Goes, At, ConnStates, history
  <2>6. ASSUME NEW exit \in Exits \cup {NoExit}, Replied(c, exit) PROVE Kept
    BY <1>1, <2>6 DEF Replied, At, ConnStates
  <2>7. ASSUME Register(c) PROVE Kept
    <3>1. count'["up"] = count["up"] /\ count'["down"] = count["down"]
      BY <1>1, <2>7 DEF Register, Counters
    <3>2. At(c, dir)' <=> At(c, dir)
      BY <1>1, <2>7 DEF Register, Goes, At, ConnStates
    <3> QED BY <2>7, <3>1, <3>2 DEF Register, history
  <2>8. ASSUME StartPump(c) PROVE Kept
    BY <1>1, <2>8 DEF StartPump, At, ConnStates, history
  <2>9. ASSUME NEW other \in {"up", "down"}, other # dir, Send(c, other) PROVE Kept
    BY <1>1, <2>9 DEF Send, Plus, At, ConnStates, Totals
  <2>10. ASSUME NEW other \in {"up", "down"}, other # dir, Count(c, other) PROVE Kept
    BY <1>1, <2>10 DEF Count, Plus, Goes, At, ConnStates, Counters
  <2>11. ASSUME NEW print \in Prints, RecordHello(c, print) PROVE Kept
    <3>1. count'["up"] = count["up"] /\ count'["down"] = count["down"]
      BY <1>1, <2>11 DEF RecordHello, Counters
    <3>2. At(c, dir)' <=> At(c, dir)
      BY <1>1, <2>11 DEF RecordHello, At, ConnStates
    <3> QED BY <2>11, <3>1, <3>2 DEF RecordHello, history
  <2>12. ASSUME NoHello(c) PROVE Kept
    BY <1>1, <2>12 DEF NoHello, At, ConnStates, history
  <2>13. Kept
    BY <1>7, <2>1, <2>2, <2>3, <2>4, <2>5, <2>6, <2>7, <2>8, <2>9, <2>10, <2>11, <2>12 DEF Handler
  <2> QED BY <1>1, <1>2, <1>3, <2>13, InHandMoves
<1> QED BY <1>4, <1>5, <1>6, <1>7

\* A handler adds one piece to what is not counted, as it leaves or as it
\* comes to its pump, or none.
LEMMA HandlerPieces ==
  ASSUME TypeInv, CountedInv, NEW c \in Conns, Handler(c)
  PROVE  /\ HeadInv'
         /\ \A k \in Conns :
              /\ <<k, "chunk">> \in uncounted'.up \cup uncounted'.down => conn'[k].at = "closed"
              /\ <<k, "chunk">> \notin uncounted'.up \cap uncounted'.down
              /\ <<k, "head">> \in uncounted'.up => conn'[k].at = "closed" \/ conn'[k].path = "plain"
              /\ <<k, "head">> \notin uncounted'.down
<1> DEFINE Good(u, k, h) ==
      /\ <<h, "chunk">> \in u.up \cup u.down => k.at = "closed"
      /\ <<h, "chunk">> \notin u.up \cap u.down
      /\ <<h, "head">> \in u.up => k.at \in Pumped /\ (k.at = "closed" \/ k.path = "plain")
      /\ <<h, "head">> \notin u.down
<1>1. /\ conn \in [Conns -> ConnStates] /\ conn' = [conn EXCEPT ![c] = conn'[c]]
      /\ delivered \in Totals /\ uncounted \in [up : SUBSET Pieces, down : SUBSET Pieces]
  BY HandlerTypes DEF TypeInv, TypeOK
<1>2. \A k \in Conns : Good(uncounted, conn[k], k)
  BY DEF CountedInv, CountedIsDelivered, HeadInv, At
<1>3. Good(uncounted', conn'[c], c) /\ \A k \in Conns \ {c} : Good(uncounted', conn[k], k)
  <2>1. CASE Forward(c) \/ ForwardBreaks(c)
    <3>1. /\ conn[c].at = "dialled" /\ TakesUncounted(c, "up", "head")
          /\ conn'[c].at = "closed" \/ (conn'[c].at = "pumping" /\ conn'[c].path = "plain")
      BY <1>1, <2>1 DEF Forward, ForwardBreaks, Goes, Closed, Idle, At, ConnStates
    <3>2. uncounted'["up"] = uncounted["up"] \cup {<<c, "head">>} /\ uncounted'["down"] = uncounted["down"]
      BY <1>1, <3>1, Taken
    <3>3. <<c, "chunk">> \notin uncounted.up /\ <<c, "chunk">> \notin uncounted.down
      BY <1>2, <3>1
    <3>4. \A h : h # c => <<h, "head">> # <<c, "head">> /\ <<h, "chunk">> # <<c, "head">>
      OBVIOUS
    <3> QED BY <1>2, <3>1, <3>2, <3>3, <3>4 DEF Pumped
  <2>2. CASE \E dir \in {"up", "down"} : SendBreaks(c, dir)
    <3>1. PICK dir \in {"up", "down"} : SendBreaks(c, dir)
      BY <2>2
    <3>2. conn[c].at = "pumping" /\ TakesUncounted(c, dir, "chunk") /\ conn'[c].at = "closed"
      BY <1>1, <3>1 DEF SendBreaks, Closed, Idle, At
    <3>3. /\ uncounted'[dir] = uncounted[dir] \cup {<<c, "chunk">>}
          /\ \A other \in {"up", "down"} \ {dir} : uncounted'[other] = uncounted[other]
      BY <1>1, <3>2, Taken
    <3>4. <<c, "chunk">> \notin uncounted["up"] /\ <<c, "chunk">> \notin uncounted["down"]
      BY <1>2, <3>2
    <3>5. \A h : h # c => <<h, "chunk">> # <<c, "chunk">> /\ <<h, "head">> # <<c, "chunk">>
      OBVIOUS
    <3>6. CASE dir = "up"
      BY <1>2, <3>2, <3>3, <3>4, <3>5, <3>6 DEF Pumped
    <3>7. CASE dir = "down"
      BY <1>2, <3>2, <3>3, <3>4, <3>5, <3>7 DEF Pumped
    <3> QED BY <3>6, <3>7
  <2>3. CASE ~Forward(c) /\ ~ForwardBreaks(c) /\ ~\E dir \in {"up", "down"} : SendBreaks(c, dir)
    <3>1. uncounted' = uncounted
      BY <2>3 DEF Handler, Accept, NoHead, Refuse, Dial, Fails, Replied, Register, ClientGone, StartPump,
                  Send, Count, RecordHello, NoHello, PumpEnds, history
    <3>2. conn[c].at \in Pumped => /\ conn[c].at # "closed" /\ conn'[c].at \in Pumped
                                   /\ conn'[c].at = "closed" \/ conn'[c].path = conn[c].path
      BY HandlerPlaces
    <3>3. Good(uncounted, conn'[c], c)
      BY <1>2, <3>2 DEF Pumped
    <3> QED BY <1>2, <3>1, <3>3
  <2> QED BY <2>1, <2>2, <2>3
<1>4. \A k \in Conns : Good(uncounted', conn'[k], k)
  <2>1. \A k \in Conns \ {c} : conn'[k] = conn[k]
    BY <1>1
  <2> HIDE DEF Good
  <2> QED BY <1>3, <2>1
<1> QED BY <1>4 DEF HeadInv

LEMMA NextCounted == TypeInv /\ CountedInv /\ [Next]_vars => CountedInv'
<1> SUFFICES ASSUME TypeInv, CountedInv, [Next]_vars PROVE CountedInv'
  OBVIOUS
<1>1. ASSUME NEW c \in Conns, Handler(c) PROVE CountedInv'
  <2>1. \A dir \in {"up", "down"} :
          (count[dir] + InHand(dir) + Cardinality(uncounted[dir]) = delivered[dir])'
    BY HandlerCounted, <1>1
  <2> QED BY HandlerPieces, <1>1, <2>1 DEF CountedInv, CountedIsDelivered, At
<1>2. CASE Snapshot \/ PostRow \/ Stop \/ UNCHANGED vars
  <2>1. count' = count /\ conn' = conn /\ delivered' = delivered /\ uncounted' = uncounted
    BY <1>2 DEF Snapshot, PostRow, Stop, vars, history
  <2> QED BY <2>1 DEF CountedInv, CountedIsDelivered, HeadInv, InHand, At
<1> QED BY <1>1, <1>2 DEF Next

\* What the far ends took is what was counted, a chunk in each hand that is
\* about to count it, and a set of pieces that are not counted: no more of a
\* connection than the head of a plain request and the chunk its pump ended
\* in (relay.py, _pump and _forward).
THEOREM CountsAreDeliveries == Spec => []CountedIsDelivered
<1>1. CountedInv => CountedIsDelivered
  BY DEF CountedInv
<1> QED BY InitCounted, NextCounted, Typed, <1>1, PTL DEF Spec
----------------------------------------------------------------------------
(* The fingerprint of a session.                                           *)

LEMMA PrefixOfItself == ASSUME NEW s \in Seq(Prints) PROVE IsPrefix(s, s)
<1> QED BY DEF IsPrefix

\* What a list begins with, it begins with after one print more.
LEMMA PrefixGrows ==
  ASSUME NEW s \in Seq(Prints), NEW t \in Seq(Prints), NEW print \in Prints, IsPrefix(s, t)
  PROVE  IsPrefix(s, WithPrint(t, print))
<1>1. CASE WithPrint(t, print) = t
  BY <1>1
<1>2. CASE WithPrint(t, print) = Append(t, print)
  <2>1. /\ Append(t, print) \in Seq(Prints) /\ Len(Append(t, print)) = Len(t) + 1
        /\ \A i \in 1..Len(t) : Append(t, print)[i] = t[i]
    OBVIOUS
  <2>2. Len(s) <= Len(t) /\ Len(s) \in Nat /\ Len(t) \in Nat
    BY DEF IsPrefix
  <2>3. SubSeq(Append(t, print), 1, Len(s)) = SubSeq(t, 1, Len(s))
    <3> DEFINE a == SubSeq(Append(t, print), 1, Len(s))
               b == SubSeq(t, 1, Len(s))
    <3>1. /\ a \in Seq(Prints) /\ Len(a) = Len(s)
          /\ \A i \in 1..Len(s) : a[i] = Append(t, print)[i]
      BY <2>1, <2>2
    <3>2. /\ b \in Seq(Prints) /\ Len(b) = Len(s)
          /\ \A i \in 1..Len(s) : b[i] = t[i]
      BY <2>2
    <3>3. \A i \in 1..Len(s) : a[i] = b[i]
      BY <2>1, <2>2, <3>1, <3>2
    <3> HIDE DEF a, b
    <3>4. a = b
      BY <3>1, <3>2, <3>3, SeqEqual
    <3> QED BY <3>4 DEF a, b
  <2> QED BY <1>2, <2>1, <2>2, <2>3 DEF IsPrefix
<1> QED BY <1>1, <1>2 DEF WithPrint

\* A handler adds to the list or leaves it.
LEMMA HandlerPrints ==
  ASSUME count \in Counters, NEW c \in Conns, Handler(c)
  PROVE  count'.ja4 = count.ja4 \/ \E print \in Prints : count'.ja4 = WithPrint(count.ja4, print)
<1>1. CASE Refuse(c) \/ Fails(c) \/ ForwardBreaks(c) \/ \E dir \in {"up", "down"} : Count(c, dir)
  BY <1>1, Raised DEF Refuse, Fails, ForwardBreaks, Failed, Count
<1>2. CASE Register(c)
  BY <1>2 DEF Register, Counters
<1>3. ASSUME NEW print \in Prints, RecordHello(c, print)
      PROVE  count'.ja4 = WithPrint(count.ja4, print)
  BY <1>3 DEF RecordHello, Counters
<1>4. CASE \/ NoHead(c) \/ Dial(c) \/ ClientGone(c) \/ StartPump(c) \/ NoHello(c) \/ PumpEnds(c)
           \/ Forward(c) \/ \E ask \in Asks : Accept(c, ask)
           \/ \E exit \in Exits \cup {NoExit} : Replied(c, exit)
           \/ \E dir \in {"up", "down"} : Send(c, dir) \/ SendBreaks(c, dir)
  BY <1>4 DEF NoHead, Dial, ClientGone, StartPump, NoHello, PumpEnds, Forward, Accept, Replied, Send,
              SendBreaks
<1> QED BY <1>1, <1>2, <1>3, <1>4 DEF Handler

LEMMA InitPrints == Init => PrintsInv
<1> QED BY DEF Init, PrintsInv, FirstPrintIsStable

LEMMA NextPrints == TypeInv /\ PrintsInv /\ [Next]_vars => PrintsInv'
<1> SUFFICES ASSUME TypeInv, PrintsInv, [Next]_vars PROVE PrintsInv'
  OBVIOUS
<1>0. rows \in Seq(Counters) /\ count \in Counters
  BY DEF TypeInv, TypeOK
<1>1. ASSUME NEW c \in Conns, Handler(c) PROVE PrintsInv'
  <2>1. rows' = rows
    BY HandlerTypes, <1>1 DEF observer
  <2>2. count'.ja4 = count.ja4 \/ \E print \in Prints : count'.ja4 = WithPrint(count.ja4, print)
    BY HandlerPrints, <1>0, <1>1
  <2>3. ASSUME NEW i \in DOMAIN rows PROVE IsPrefix(rows[i].ja4, count'.ja4)
    <3>1. rows[i] \in Counters /\ IsPrefix(rows[i].ja4, count.ja4)
      BY <1>0 DEF PrintsInv
    <3>2. rows[i].ja4 \in Seq(Prints) /\ count.ja4 \in Seq(Prints)
      BY <1>0, <3>1, CounterFields
    <3> QED BY <2>2, <3>1, <3>2, PrefixGrows
  <2> QED BY <2>1, <2>3 DEF PrintsInv, FirstPrintIsStable
<1>2. CASE PostRow
  <2>1. rows' = Append(rows, SinceMeter) /\ count' = count /\ SinceMeter.ja4 = count.ja4
    BY <1>2 DEF PostRow, SinceMeter
  <2>2. DOMAIN rows' = 1..(Len(rows) + 1) /\ Len(rows) \in Nat /\ DOMAIN rows = 1..Len(rows)
        /\ rows'[Len(rows) + 1] = SinceMeter /\ \A i \in 1..Len(rows) : rows'[i] = rows[i]
    BY <1>0, <2>1
  <2>3. count.ja4 \in Seq(Prints)
    BY <1>0 DEF Counters
  <2>4. \A i \in DOMAIN rows' : IsPrefix(rows'[i].ja4, count'.ja4)
    BY <2>1, <2>2, <2>3, PrefixOfItself DEF PrintsInv
  <2>5. ASSUME NEW i \in DOMAIN rows', NEW j \in DOMAIN rows', i < j
        PROVE  IsPrefix(rows'[i].ja4, rows'[j].ja4)
    <3>1. CASE j = Len(rows) + 1
      BY <2>1, <2>2, <2>4, <3>1
    <3>2. CASE j # Len(rows) + 1
      <4>1. i \in DOMAIN rows /\ j \in DOMAIN rows
        BY <2>2, <2>5, <3>2
      <4> QED BY <2>2, <2>5, <4>1 DEF PrintsInv, FirstPrintIsStable
    <3> QED BY <3>1, <3>2
  <2> QED BY <2>4, <2>5 DEF PrintsInv, FirstPrintIsStable
<1>3. CASE Snapshot \/ Stop \/ UNCHANGED vars
  <2>1. rows' = rows /\ count' = count
    BY <1>3 DEF Snapshot, Stop, vars
  <2> QED BY <2>1 DEF PrintsInv, FirstPrintIsStable
<1> QED BY <1>1, <1>2, <1>3 DEF Next

\* The list a row carries begins with the list of every earlier row: the first
\* of it, which the runner takes, never changes (relay.py, ja4).
THEOREM FirstPrint == Spec => []FirstPrintIsStable
<1>1. PrintsInv => FirstPrintIsStable
  BY DEF PrintsInv
<1> QED BY InitPrints, NextPrints, Typed, <1>1, PTL DEF Spec
----------------------------------------------------------------------------
(* What the rows add up to.                                                *)

\* The running totals of a list, as the recursion of Total defines them.
Running(list, f) ==
  f = [n \in 0..Len(list) |-> IF n = 0 THEN 0 ELSE f[n - 1] + list[n]]
Adds(list) == [i \in 1..Len(list) |-> [v \in Nat |-> v + list[i]]]

LEMMA RunningExists ==
  ASSUME NEW list \in Seq(Nat)
  PROVE  \E f \in [0..Len(list) -> Nat] : Running(list, f)
<1>1. Len(list) \in Nat /\ \A i \in 1..Len(list) : list[i] \in Nat
  BY ElementOfSeq
<1>2. Adds(list) \in [1..Len(list) -> [Nat -> Nat]]
  BY <1>1 DEF Adds
<1>3. PICK f \in [0..Len(list) -> Nat] : Recurs(f, Len(list), 0, Adds(list))
  BY <1>1, <1>2, RecursionExists
<1>4. \A n \in 0..Len(list) : f[n] = IF n = 0 THEN 0 ELSE f[n - 1] + list[n]
  <2> TAKE n \in 0..Len(list)
  <2>1. f[n] = IF n = 0 THEN 0 ELSE Adds(list)[n][f[n - 1]]
    BY <1>3 DEF Recurs
  <2>2. ASSUME n # 0 PROVE Adds(list)[n][f[n - 1]] = f[n - 1] + list[n]
    <3>1. n \in 1..Len(list) /\ n - 1 \in 0..Len(list)
      BY <1>1, <2>2
    <3>2. f[n - 1] \in Nat
      BY <3>1
    <3> QED BY <3>1, <3>2 DEF Adds
  <2> QED BY <2>1, <2>2
<1> QED BY <1>4 DEF Running

\* The totals of a list begin the totals of a longer one, and are numbers.
LEMMA RunningAgrees ==
  ASSUME NEW list \in Seq(Nat), NEW longer \in Seq(Nat), Len(list) <= Len(longer),
         \A i \in 1..Len(list) : list[i] = longer[i],
         NEW f, Running(list, f), NEW g, Running(longer, g)
  PROVE  \A n \in 0..Len(list) : f[n] = g[n]
<1> DEFINE S == {n \in Nat : n <= Len(list) => f[n] = g[n]}
<1>1. 0 \in S
  BY DEF Running
<1>2. ASSUME NEW n \in Nat, n \in S PROVE n + 1 \in S
  <2> SUFFICES ASSUME n + 1 <= Len(list) PROVE f[n + 1] = g[n + 1]
    OBVIOUS
  <2>1. f[n] = g[n] /\ n + 1 \in 1..Len(list) /\ n + 1 \in 1..Len(longer) /\ (n + 1) - 1 = n
    BY <1>2
  <2>2. f[n + 1] = f[n] + list[n + 1] /\ g[n + 1] = g[n] + longer[n + 1]
    BY <2>1 DEF Running
  <2> QED BY <2>1, <2>2
<1>3. Nat \subseteq S
  <2> HIDE DEF S
  <2> QED BY <1>1, <1>2, NatInduct
<1> QED BY <1>3

LEMMA TotalIs ==
  ASSUME NEW list \in Seq(Nat)
  PROVE  \E f \in [0..Len(list) -> Nat] : Running(list, f) /\ Total(list) = f[Len(list)]
<1> DEFINE F == CHOOSE f : Running(list, f)
<1>1. Total(list) = F[Len(list)]
  BY DEF Total, Running
<1>2. PICK f \in [0..Len(list) -> Nat] : Running(list, f)
  BY RunningExists
<1>3. Running(list, F)
  BY <1>2
<1> HIDE DEF F
<1>4. \A n \in 0..Len(list) : F[n] = f[n]
  BY <1>2, <1>3, RunningAgrees
<1>5. Len(list) \in 0..Len(list)
  OBVIOUS
<1> QED BY <1>1, <1>2, <1>4, <1>5

\* A total is a number, and of a list with one more number the more by it.
LEMMA TotalGrows ==
  ASSUME NEW list \in Seq(Nat), NEW longer \in Seq(Nat), Len(longer) = Len(list) + 1,
         \A i \in 1..Len(list) : list[i] = longer[i]
  PROVE  Total(list) \in Nat /\ Total(longer) = Total(list) + longer[Len(longer)]
<1>1. Len(list) \in Nat /\ Len(list) <= Len(longer)
  OBVIOUS
<1>2. PICK f \in [0..Len(list) -> Nat] : Running(list, f) /\ Total(list) = f[Len(list)]
  BY TotalIs
<1>3. PICK g \in [0..Len(longer) -> Nat] : Running(longer, g) /\ Total(longer) = g[Len(longer)]
  BY TotalIs
<1>4. g[Len(longer)] = g[Len(list)] + longer[Len(longer)]
  BY <1>1, <1>3 DEF Running
<1>5. g[Len(list)] = f[Len(list)]
  <2>1. Running(list, f) /\ Running(longer, g)
    BY <1>2, <1>3
  <2>2. \A n \in 0..Len(list) : f[n] = g[n]
    BY <1>1, <2>1, RunningAgrees
  <2> QED BY <1>1, <2>2
<1> QED BY <1>1, <1>2, <1>3, <1>4, <1>5

LEMMA TotalOfNone == Total(<<>>) = 0
<1>1. <<>> \in Seq(Nat) /\ Len(<<>>) = 0
  OBVIOUS
<1>2. PICK f \in [0..0 -> Nat] : Running(<<>>, f) /\ Total(<<>>) = f[0]
  BY <1>1, TotalIs
<1> QED BY <1>1, <1>2 DEF Running

\* A row more adds what it was posted, in either direction and in exits.
LEMMA ColumnGrows ==
  ASSUME rows \in Seq(Counters), NEW r \in Counters, rows' = Append(rows, r)
  PROVE  /\ \A dir \in {"up", "down"} : Posted(dir) \in Nat /\ Posted(dir)' = Posted(dir) + r[dir]
         /\ Sliced \in Nat /\ Sliced' = Sliced + Len(r.exits)
<1>1. /\ Len(rows) \in Nat /\ DOMAIN rows = 1..Len(rows) /\ DOMAIN rows' = 1..(Len(rows) + 1)
      /\ rows'[Len(rows) + 1] = r /\ \A i \in 1..Len(rows) : rows'[i] = rows[i]
  OBVIOUS
<1>2. \A i \in 1..Len(rows) : rows[i] \in Counters
  BY ElementOfSeq
<1>3. \A k \in Counters : k["up"] \in Nat /\ k["down"] \in Nat /\ Len(k.exits) \in Nat
  BY CounterFields
<1>4. ASSUME NEW dir \in {"up", "down"}
      PROVE  Posted(dir) \in Nat /\ Posted(dir)' = Posted(dir) + r[dir]
  <2> DEFINE old == [i \in 1..Len(rows) |-> rows[i][dir]]
             new == [i \in 1..(Len(rows) + 1) |-> rows'[i][dir]]
  <2>1. Posted(dir) = Total(old) /\ Posted(dir)' = Total(new)
    BY <1>1 DEF Posted
  <2>2. \A i \in 1..Len(rows) : rows[i][dir] \in Nat /\ rows'[i][dir] = rows[i][dir]
    BY <1>1, <1>2, <1>3
  <2>3. rows'[Len(rows) + 1][dir] = r[dir] /\ r[dir] \in Nat
    BY <1>1, <1>3
  <2>4. old \in Seq(Nat) /\ Len(old) = Len(rows)
    BY <1>1, <2>2
  <2>5. new \in Seq(Nat) /\ Len(new) = Len(rows) + 1
    BY <1>1, <2>2, <2>3
  <2>6. (\A i \in 1..Len(rows) : old[i] = new[i]) /\ new[Len(rows) + 1] = r[dir]
    BY <1>1, <2>2, <2>3
  <2> HIDE DEF old, new
  <2> QED BY <2>1, <2>4, <2>5, <2>6, TotalGrows
<1>5. Sliced \in Nat /\ Sliced' = Sliced + Len(r.exits)
  <2> DEFINE old == [i \in 1..Len(rows) |-> Len(rows[i].exits)]
             new == [i \in 1..(Len(rows) + 1) |-> Len(rows'[i].exits)]
  <2>1. Sliced = Total(old) /\ Sliced' = Total(new)
    BY <1>1 DEF Sliced
  <2>2. \A i \in 1..Len(rows) : Len(rows[i].exits) \in Nat /\ rows'[i].exits = rows[i].exits
    BY <1>1, <1>2, <1>3
  <2>3. Len(rows'[Len(rows) + 1].exits) = Len(r.exits) /\ Len(r.exits) \in Nat
    BY <1>1, <1>3
  <2>4. old \in Seq(Nat) /\ Len(old) = Len(rows)
    BY <1>1, <2>2
  <2>5. new \in Seq(Nat) /\ Len(new) = Len(rows) + 1
    BY <1>1, <2>2, <2>3
  <2>6. (\A i \in 1..Len(rows) : old[i] = new[i]) /\ new[Len(rows) + 1] = Len(r.exits)
    BY <1>1, <2>2, <2>3
  <2> HIDE DEF old, new
  <2> QED BY <2>1, <2>4, <2>5, <2>6, TotalGrows
<1> QED BY <1>4, <1>5

\* What has been posted or let go is what was counted up to the last snapshot
\* while an attempt is metered, and all that was counted otherwise.
LEMMA PostedIsNat ==
  ASSUME rows \in Seq(Counters), NEW dir \in {"up", "down"}
  PROVE  Posted(dir) \in Nat
<1> DEFINE old == [i \in 1..Len(rows) |-> rows[i][dir]]
<1>1. Len(rows) \in Nat /\ DOMAIN rows = 1..Len(rows) /\ \A i \in 1..Len(rows) : rows[i] \in Counters
  BY ElementOfSeq
<1>2. \A i \in 1..Len(rows) : rows[i][dir] \in Nat
  BY <1>1, CounterFields
<1>3. old \in Seq(Nat) /\ Len(old) = Len(rows)
  BY <1>1, <1>2
<1>4. PICK f \in [0..Len(old) -> Nat] : Total(old) = f[Len(old)]
  <2> HIDE DEF old
  <2> QED BY <1>3, TotalIs
<1>5. Posted(dir) = Total(old)
  BY <1>1 DEF Posted
<1> HIDE DEF old
<1> QED BY <1>1, <1>3, <1>4, <1>5

LEMMA SlicedIsNat ==
  ASSUME rows \in Seq(Counters)
  PROVE  Sliced \in Nat
<1> DEFINE old == [i \in 1..Len(rows) |-> Len(rows[i].exits)]
<1>1. Len(rows) \in Nat /\ DOMAIN rows = 1..Len(rows) /\ \A i \in 1..Len(rows) : rows[i] \in Counters
  BY ElementOfSeq
<1>2. \A i \in 1..Len(rows) : Len(rows[i].exits) \in Nat
  BY <1>1, CounterFields
<1>3. old \in Seq(Nat) /\ Len(old) = Len(rows)
  BY <1>1, <1>2
<1>4. PICK f \in [0..Len(old) -> Nat] : Total(old) = f[Len(old)]
  <2> HIDE DEF old
  <2> QED BY <1>3, TotalIs
<1>5. Sliced = Total(old)
  BY <1>1 DEF Sliced
<1> HIDE DEF old
<1> QED BY <1>1, <1>3, <1>4, <1>5

\* The row that is posted is one.
LEMMA PostedIsCounters ==
  ASSUME TypeInv, PostRow
  PROVE  SinceMeter \in Counters
<1>1. TypeInv'
  BY NextTypes DEF Next
<1>2. /\ rows \in Seq(Counters) /\ rows' \in Seq(Counters) /\ rows' = Append(rows, SinceMeter)
      /\ Len(rows) + 1 \in 1..Len(rows')
  BY <1>1 DEF PostRow, TypeInv, TypeOK
<1>3. rows'[Len(rows) + 1] \in Counters
  BY <1>2, ElementOfSeq
<1> QED BY <1>2, <1>3

LEMMA InitPartition == Init => RowsPartition
<1> SUFFICES ASSUME Init, NEW dir \in {"up", "down"} PROVE Posted(dir) + unposted[dir] = count[dir]
  BY DEF RowsPartition, Init
<1>1. [i \in DOMAIN rows |-> rows[i][dir]] = <<>>
  BY DEF Init
<1>2. Posted(dir) = 0
  BY <1>1, TotalOfNone DEF Posted
<1> QED BY <1>2 DEF Init, Both

LEMMA HandlerPosts ==
  ASSUME TypeInv, RowsPartition, NEW c \in Conns, Handler(c)
  PROVE  RowsPartition'
<1>1. UNCHANGED <<main, meter, rows>>
  BY HandlerTypes DEF observer
<1>2. \A dir \in {"up", "down"} : Posted(dir)' = Posted(dir)
  BY <1>1 DEF Posted
<1>3. count \in Counters /\ unposted \in Totals /\ rows \in Seq(Counters)
  BY DEF TypeInv, TypeOK
<1>4. CASE \E dir \in {"up", "down"} : Count(c, dir)
  <2>1. PICK dir \in {"up", "down"} : Count(c, dir)
    BY <1>4
  <2>2. count' = [count EXCEPT ![dir] = @ + 1]
        /\ unposted' = (IF main = "fetching" THEN unposted ELSE [unposted EXCEPT ![dir] = @ + 1])
    BY <2>1 DEF Count, Plus
  <2>3. ASSUME NEW d \in {"up", "down"}
        PROVE  /\ count'[d] = IF d = dir THEN count[d] + 1 ELSE count[d]
               /\ main # "fetching" => unposted'[d] = IF d = dir THEN unposted[d] + 1 ELSE unposted[d]
               /\ count[d] \in Nat /\ unposted[d] \in Nat /\ Posted(d) \in Nat
    BY <1>3, <2>2, PostedIsNat DEF Counters, Totals
  <2> QED BY <1>1, <1>2, <2>2, <2>3 DEF RowsPartition
<1>5. CASE ~\E dir \in {"up", "down"} : Count(c, dir)
  <2>1. unposted' = unposted
    BY <1>5 DEF Handler, Accept, NoHead, Refuse, Dial, Fails, Replied, Register, ClientGone, StartPump,
                Forward, ForwardBreaks, Send, SendBreaks, RecordHello, NoHello, PumpEnds, history
  <2>2. count'["up"] = count["up"] /\ count'["down"] = count["down"]
    <3>1. CASE \/ Refuse(c) \/ Fails(c) \/ ForwardBreaks(c) \/ Register(c)
               \/ \E print \in Prints : RecordHello(c, print)
      BY <1>3, <3>1 DEF Refuse, Fails, ForwardBreaks, Failed, Register, RecordHello, Counters
    <3>2. CASE ~(\/ Refuse(c) \/ Fails(c) \/ ForwardBreaks(c) \/ Register(c)
                 \/ \E print \in Prints : RecordHello(c, print))
      BY <1>5, <3>2 DEF Handler, Accept, NoHead, Dial, Replied, ClientGone, StartPump, Forward, Send,
                        SendBreaks, NoHello, PumpEnds
    <3> QED BY <3>1, <3>2
  <2> QED BY <1>1, <1>2, <2>1, <2>2 DEF RowsPartition
<1> QED BY <1>4, <1>5

LEMMA NextPartition == TypeInv /\ RowsPartition /\ [Next]_vars => RowsPartition'
<1> SUFFICES ASSUME TypeInv, RowsPartition, [Next]_vars PROVE RowsPartition'
  OBVIOUS
<1>0. /\ count \in Counters /\ meter \in Counters /\ rows \in Seq(Counters) /\ unposted \in Totals
      /\ \A dir \in {"up", "down"} :
           count[dir] \in Nat /\ meter[dir] \in Nat /\ unposted[dir] \in Nat /\ Posted(dir) \in Nat
  BY CounterFields, PostedIsNat DEF TypeInv, TypeOK, Totals
<1>1. ASSUME NEW c \in Conns, Handler(c) PROVE RowsPartition'
  BY HandlerPosts, <1>1
<1>2. CASE Snapshot
  <2>1. \A dir \in {"up", "down"} : Posted(dir)' = Posted(dir)
    BY <1>2 DEF Snapshot, Posted
  <2> QED BY <1>2, <2>1 DEF Snapshot, RowsPartition, history
<1>3. CASE PostRow
  <2>1. SinceMeter \in Counters
    BY <1>3, PostedIsCounters
  <2>2. \A dir \in {"up", "down"} :
          Posted(dir)' = Posted(dir) + SinceMeter[dir] /\ SinceMeter[dir] = count[dir] - meter[dir]
    <3>1. \A dir \in {"up", "down"} : Posted(dir)' = Posted(dir) + SinceMeter[dir]
      BY <1>0, <1>3, <2>1, ColumnGrows DEF PostRow
    <3>2. \A dir \in {"up", "down"} : SinceMeter[dir] = count[dir] - meter[dir]
      BY DEF SinceMeter
    <3> QED BY <3>1, <3>2
  <2>3. main = "fetching" /\ main' = "between" /\ UNCHANGED <<count, meter, unposted>>
    BY <1>3 DEF PostRow, history
  <2> SUFFICES ASSUME NEW dir \in {"up", "down"} PROVE Posted(dir)' + unposted[dir] = count[dir]
    BY <2>3 DEF RowsPartition
  <2>4. Posted(dir) + unposted[dir] = meter[dir] /\ Posted(dir)' = Posted(dir) + (count[dir] - meter[dir])
    BY <2>2, <2>3 DEF RowsPartition
  <2> QED BY <1>0, <2>4
<1>4. CASE Stop
  <2>1. \A dir \in {"up", "down"} : Posted(dir)' = Posted(dir)
    BY <1>4 DEF Stop, Posted
  <2>2. /\ main \in {"between", "fetching"} /\ main' = "stopped" /\ UNCHANGED <<count, meter>>
        /\ \A dir \in {"up", "down"} :
             unposted'[dir] = IF main = "between" THEN unposted[dir]
                              ELSE unposted[dir] + count[dir] - meter[dir]
    BY <1>4 DEF Stop
  <2> QED BY <1>0, <2>1, <2>2 DEF RowsPartition
<1>5. CASE UNCHANGED vars
  <2>1. \A dir \in {"up", "down"} : Posted(dir)' = Posted(dir)
    BY <1>5 DEF vars, Posted
  <2> QED BY <1>5, <2>1 DEF vars, RowsPartition
<1> QED BY <1>1, <1>2, <1>3, <1>4, <1>5 DEF Next

\* Every byte counted is posted to one row or to none, and to the row of the
\* attempt that was being metered when it was counted: what the rows add up
\* to never runs ahead of the counters or behind them (relay.py, since).
THEOREM Partition == Spec => []RowsPartition
<1> QED BY InitPartition, NextPartition, Typed, PTL DEF Spec
----------------------------------------------------------------------------
(* The exits of the session.                                               *)

\* A tunnel on its way has named nothing, one that is up is in the list, and
\* the list only grows at its end, never by what it ends in already.
Early == {"absent", "request", "dialled", "closed"}
ExitsInv ==
  /\ \A c \in Conns : conn[c].at \in Early => conn[c].exit = NoExit
  /\ \A c \in Conns : conn[c].exit # NoExit /\ conn[c].at \notin Early \cup {"replied"} =>
       \E i \in 1..Len(count.exits) : count.exits[i] = conn[c].exit
  /\ \A i \in 1..(Len(count.exits) - 1) : count.exits[i] # count.exits[i + 1]
  /\ Len(meter.exits) <= Len(count.exits)
  /\ Sliced <= Len(count.exits)
  /\ main = "fetching" => Sliced <= Len(meter.exits)

LEMMA ExitsVisible == TypeInv /\ ExitsInv => MovesAreVisible
<1> SUFFICES ASSUME TypeInv, ExitsInv PROVE MovesAreVisible
  OBVIOUS
<1>1. count.exits \in Seq(Exits) /\ DOMAIN count.exits = 1..Len(count.exits)
  BY CounterFields DEF TypeInv, TypeOK
<1>2. ASSUME NEW c \in Conns, conn[c].at \in {"established", "pumping", "up", "down", "counted"},
             conn[c].exit # NoExit
      PROVE  conn[c].exit \in Range(count.exits)
  BY <1>1, <1>2 DEF ExitsInv, Early, Range
<1> QED BY <1>2 DEF ExitsInv, MovesAreVisible

LEMMA InitExits == Init => ExitsInv
<1> SUFFICES ASSUME Init PROVE ExitsInv
  OBVIOUS
<1>1. [i \in DOMAIN rows |-> Len(rows[i].exits)] = <<>>
  BY DEF Init
<1>2. Sliced = 0
  BY <1>1, TotalOfNone DEF Sliced
<1> QED BY <1>2 DEF Init, ExitsInv, Idle, Early

\* What Register makes of the list.
Grown(exits, exit, new) ==
  /\ new \in Seq(Exits) /\ Len(exits) <= Len(new)
  /\ \A i \in 1..Len(exits) : new[i] = exits[i]
  /\ \A i \in 1..(Len(new) - 1) : new[i] # new[i + 1]
  /\ exit # NoExit => \E i \in 1..Len(new) : new[i] = exit

LEMMA ExitsGrow ==
  ASSUME NEW exits \in Seq(Exits), NEW exit \in Exits \cup {NoExit},
         \A i \in 1..(Len(exits) - 1) : exits[i] # exits[i + 1]
  PROVE  Grown(exits, exit, WithExit(exits, exit))
<1> USE DEF Grown
<1>0. Len(exits) \in Nat /\ (exits = <<>> <=> Len(exits) = 0)
  OBVIOUS
<1>1. CASE exit = NoExit
  BY <1>0, <1>1 DEF WithExit
<1>2. CASE exits # <<>> /\ Last(exits) = exit
  <2>1. Len(exits) \in 1..Len(exits) /\ exits[Len(exits)] = exit
    BY <1>0, <1>2 DEF Last
  <2> QED BY <1>0, <1>2, <2>1 DEF WithExit
<1>3. CASE exit # NoExit /\ ~(exits # <<>> /\ Last(exits) = exit)
  <2> DEFINE new == Append(exits, exit)
  <2>1. WithExit(exits, exit) = new /\ exit \in Exits
    BY <1>3 DEF WithExit
  <2>2. /\ new \in Seq(Exits) /\ Len(new) = Len(exits) + 1 /\ new[Len(exits) + 1] = exit
        /\ \A i \in 1..Len(exits) : new[i] = exits[i]
    BY <2>1
  <2> HIDE DEF new
  <2>3. ASSUME NEW i \in 1..(Len(new) - 1) PROVE new[i] # new[i + 1]
    <3>1. CASE i = Len(exits)
      <4>1. exits # <<>> /\ exits[i] # exit
        BY <1>0, <1>3, <2>3, <3>1 DEF Last
      <4> QED BY <2>2, <2>3, <3>1, <4>1
    <3>2. CASE i # Len(exits)
      BY <1>0, <2>2, <2>3, <3>2
    <3> QED BY <3>1, <3>2
  <2> QED BY <1>0, <2>1, <2>2, <2>3
<1> QED BY <1>1, <1>2, <1>3

\* Where a handler stands after its step, and with which exit; the list is
\* touched by Register only.
LEMMA HandlerExits ==
  ASSUME TypeInv, ExitsInv, NEW c \in Conns, Handler(c)
  PROVE  /\ Register(c) \/ count'.exits = count.exits
         /\ conn'[c].at \in Early => conn'[c].exit = NoExit
         /\ conn'[c].at \notin Early \cup {"replied"} =>
              \/ Register(c) /\ conn'[c].exit = conn[c].exit
              \/ conn'[c].exit = NoExit
              \/ conn'[c].exit = conn[c].exit /\ conn[c].at \notin Early \cup {"replied"}
<1> DEFINE Goal ==
      /\ Register(c) \/ count'.exits = count.exits
      /\ conn'[c].at \in Early => conn'[c].exit = NoExit
      /\ conn'[c].at \notin Early \cup {"replied"} =>
           \/ Register(c) /\ conn'[c].exit = conn[c].exit
           \/ conn'[c].exit = NoExit
           \/ conn'[c].exit = conn[c].exit /\ conn[c].at \notin Early \cup {"replied"}
<1>0. /\ conn \in [Conns -> ConnStates] /\ conn[c] \in ConnStates /\ count \in Counters
      /\ conn[c].at \in Early => conn[c].exit = NoExit
  BY DEF TypeInv, TypeOK, ExitsInv
<1>1. ASSUME NEW ask \in Asks, Accept(c, ask) PROVE Goal
  BY <1>0, <1>1 DEF Accept, At, ConnStates, Early
<1>2. CASE \/ NoHead(c) \/ Refuse(c) \/ Fails(c) \/ ClientGone(c) \/ PumpEnds(c) \/ ForwardBreaks(c)
           \/ \E dir \in {"up", "down"} : SendBreaks(c, dir)
  <2>1. conn'[c] = Idle("closed")
    BY <1>0, <1>2 DEF NoHead, Refuse, Fails, ClientGone, PumpEnds, ForwardBreaks, SendBreaks, Closed
  <2>2. count'.exits = count.exits
    BY <1>0, <1>2 DEF NoHead, Refuse, Fails, Failed, ClientGone, PumpEnds, ForwardBreaks, SendBreaks, Counters
  <2> QED BY <2>1, <2>2 DEF Idle, Early
<1>3. CASE Dial(c)
  BY <1>0, <1>3 DEF Dial, Goes, At, ConnStates, Early
<1>4. ASSUME NEW exit \in Exits \cup {NoExit}, Replied(c, exit) PROVE Goal
  BY <1>0, <1>4 DEF Replied, At, ConnStates, Early
<1>5. CASE Register(c)
  BY <1>0, <1>5 DEF Register, Goes, At, ConnStates, Early
<1>6. CASE StartPump(c)
  BY <1>0, <1>6 DEF StartPump, At, ConnStates, Early
<1>7. ASSUME NEW dir \in {"up", "down"}, Send(c, dir) PROVE Goal
  BY <1>0, <1>7 DEF Send, At, ConnStates, Early
<1>8. ASSUME NEW dir \in {"up", "down"}, Count(c, dir) PROVE Goal
  <2>1. count'.exits = count.exits
    BY <1>0, <1>8 DEF Count, Plus, Counters
  <2> QED BY <1>0, <1>8, <2>1 DEF Count, Goes, At, ConnStates, Early
<1>9. ASSUME NEW print \in Prints, RecordHello(c, print) PROVE Goal
  <2>1. count'.exits = count.exits
    BY <1>0, <1>9 DEF RecordHello, Counters
  <2> QED BY <1>0, <1>9, <2>1 DEF RecordHello, At, ConnStates, Early
<1>10. CASE NoHello(c)
  BY <1>0, <1>10 DEF NoHello, At, ConnStates, Early
<1>11. CASE Forward(c)
  BY <1>0, <1>11 DEF Forward, Goes, At, ConnStates, Early
<1> QED BY <1>1, <1>2, <1>3, <1>4, <1>5, <1>6, <1>7, <1>8, <1>9, <1>10, <1>11 DEF Handler

LEMMA SliceLength ==
  ASSUME NEW list \in Seq(Exits), NEW m \in Nat, m <= Len(list)
  PROVE  Len(SubSeq(list, m + 1, Len(list))) = Len(list) - m
<1>1. Len(list) \in Nat /\ m + 1 \in 1..(Len(list) + 1) /\ Len(list) \in m..Len(list)
  OBVIOUS
<1> QED BY <1>1, SubSeqProperties

LEMMA NextExits == TypeInv /\ ExitsInv /\ [Next]_vars => ExitsInv'
<1> SUFFICES ASSUME TypeInv, ExitsInv, [Next]_vars PROVE ExitsInv'
  OBVIOUS
<1>0. /\ count \in Counters /\ meter \in Counters /\ rows \in Seq(Counters)
      /\ count.exits \in Seq(Exits) /\ Len(count.exits) \in Nat
      /\ Len(meter.exits) \in Nat
  BY CounterFields DEF TypeInv, TypeOK
<1>1. ASSUME NEW c \in Conns, Handler(c) PROVE ExitsInv'
  <2>1. /\ UNCHANGED <<main, meter, rows>> /\ Sliced' = Sliced
        /\ conn \in [Conns -> ConnStates] /\ conn[c] \in ConnStates
        /\ \A k \in Conns \ {c} : conn'[k] = conn[k]
    BY <1>1, HandlerTypes DEF observer, Sliced, TypeInv, TypeOK
  <2>2. /\ Len(count.exits) <= Len(count'.exits) /\ count'.exits \in Seq(Exits)
        /\ \A i \in 1..Len(count.exits) : count'.exits[i] = count.exits[i]
        /\ \A i \in 1..(Len(count'.exits) - 1) : count'.exits[i] # count'.exits[i + 1]
        /\ Register(c) /\ conn[c].exit # NoExit =>
             \E i \in 1..Len(count'.exits) : count'.exits[i] = conn[c].exit
    <3>1. CASE Register(c)
      <4>1. count'.exits = WithExit(count.exits, conn[c].exit)
        BY <1>0, <3>1 DEF Register, Counters
      <4>2. conn[c].exit \in Exits \cup {NoExit}
        BY <2>1 DEF ConnStates
      <4>3. \A i \in 1..(Len(count.exits) - 1) : count.exits[i] # count.exits[i + 1]
        BY DEF ExitsInv
      <4>4. Grown(count.exits, conn[c].exit, count'.exits)
        BY <1>0, <4>1, <4>2, <4>3, ExitsGrow
      <4> QED BY <4>4 DEF Grown
    <3>2. CASE ~Register(c)
      BY <1>0, <1>1, <3>2, HandlerExits DEF ExitsInv
    <3> QED BY <3>1, <3>2
  <2>3. \A k \in Conns : conn'[k].at \in Early => conn'[k].exit = NoExit
    BY <1>1, <2>1, HandlerExits DEF ExitsInv
  <2>4. ASSUME NEW k \in Conns, conn'[k].exit # NoExit, conn'[k].at \notin Early \cup {"replied"}
        PROVE  \E i \in 1..Len(count'.exits) : count'.exits[i] = conn'[k].exit
    <3>1. CASE k = c /\ Register(c) /\ conn'[c].exit = conn[c].exit
      BY <2>2, <2>4, <3>1
    <3>2. CASE conn'[k].exit = conn[k].exit /\ conn[k].at \notin Early \cup {"replied"}
      <4>1. PICK i \in 1..Len(count.exits) : count.exits[i] = conn[k].exit
        BY <2>4, <3>2 DEF ExitsInv
      <4>2. i \in 1..Len(count'.exits)
        BY <1>0, <2>2
      <4> QED BY <2>2, <3>2, <4>1, <4>2
    <3>3. k # c => conn'[k] = conn[k]
      BY <2>1
    <3> QED BY <1>1, <2>4, <3>1, <3>2, <3>3, HandlerExits
  <2>5. Len(meter.exits) <= Len(count'.exits) /\ Sliced <= Len(count'.exits)
    <3>1. Sliced \in Nat
      BY <1>0, SlicedIsNat
    <3> QED BY <1>0, <2>2, <3>1 DEF ExitsInv
  <2> QED BY <2>1, <2>2, <2>3, <2>4, <2>5 DEF ExitsInv
<1>2. CASE PostRow
  <2>1. SinceMeter \in Counters
    BY <1>2, PostedIsCounters
  <2>2. Sliced \in Nat /\ Sliced' = Sliced + Len(SinceMeter.exits)
    BY <1>0, <1>2, <2>1, ColumnGrows DEF PostRow
  <2>3. Len(SinceMeter.exits) = Len(count.exits) - Len(meter.exits)
    <3>1. SinceMeter.exits = SubSeq(count.exits, Len(meter.exits) + 1, Len(count.exits))
      BY DEF SinceMeter
    <3>2. Len(meter.exits) <= Len(count.exits)
      BY DEF ExitsInv
    <3> QED BY <1>0, <3>1, <3>2, SliceLength
  <2>4. main = "fetching" /\ main' = "between" /\ UNCHANGED <<count, conn, meter>>
    BY <1>2 DEF PostRow
  <2>5. Sliced' <= Len(count.exits)
    BY <1>0, <2>2, <2>3, <2>4 DEF ExitsInv
  <2> QED BY <2>4, <2>5 DEF ExitsInv
<1>3. CASE Snapshot
  <2>1. Sliced' = Sliced
    BY <1>3 DEF Snapshot, Sliced
  <2> QED BY <1>0, <1>3, <2>1 DEF Snapshot, ExitsInv
<1>4. CASE Stop
  <2>1. Sliced' = Sliced
    BY <1>4 DEF Stop, Sliced
  <2> QED BY <1>4, <2>1 DEF Stop, ExitsInv
<1>5. CASE UNCHANGED vars
  <2>1. Sliced' = Sliced
    BY <1>5 DEF vars, Sliced
  <2> QED BY <1>5, <2>1 DEF vars, ExitsInv
<1> QED BY <1>1, <1>2, <1>3, <1>4, <1>5 DEF Next

\* The exit of every tunnel that came up is in the list, the list shows every
\* change of exit as one, and no exit of it is posted to two rows
\* (relay.py, exits and since).
THEOREM MovesVisible == Spec => []MovesAreVisible
<1> QED BY InitExits, NextExits, ExitsVisible, Typed, PTL DEF Spec
====
