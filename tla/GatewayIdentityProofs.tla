---- MODULE GatewayIdentityProofs ----
(***************************************************************************)
(* The count of header misses, its latch, what a session asks beside its   *)
(* pages and what its row says of its exit, proved of GatewayIdentity for  *)
(* any number of providers, addresses, sessions and batch sizes and any    *)
(* give-up limit.  The exit may move between any two steps.                *)
(***************************************************************************)
EXTENDS GatewayIdentity, SequenceLemmas

\* The batch in hand is a batch of the matrix, from its opening to its row.
BatchInv == pc # "head" => session \in [provider : Providers, arm : Arms, size : BatchSizes, pos : Nat]

\* The process counts, for each provider, the misses its own look-ups ended in.
MissInv ==
  /\ misses \in [Providers -> Nat]
  /\ tries \in [Providers -> Seq(Answers)]
  /\ MissesAreOwn

\* The header is only asked of a provider that has one and is not given up on.
LatchInv == pc = "header" => ~Latched(Provider)

\* The echo comes first, then the download, then the browser's own check, then
\* the pages: where the runner stands says what can have been asked so far.
WarmInv ==
  /\ traffic \in Seq(Kinds)
  /\ ExitIsNotWarmed
  /\ pc \in {"header", "echo"} => traffic = <<>>
  /\ pc \in {"speed", "unzoned"} => \A i \in DOMAIN traffic : traffic[i] = "echo"
  /\ pc \in {"launch", "guard"} => \A i \in DOMAIN traffic : traffic[i] \in {"echo", "download"}

IInv == BatchInv /\ MissInv /\ LatchInv /\ WarmInv
----------------------------------------------------------------------------
(* One answer more in the list of a provider's look-ups.                   *)

\* MissesNow keeps the count equal to the misses at the end of the list: one
\* more after a miss, none after a reply that named the exit.
LEMMA OneAnswerMore ==
  ASSUME NEW s \in Seq(Answers), NEW n \in Nat, NEW answer \in Answers, TrailingMisses(s, n)
  PROVE  TrailingMisses(Append(s, answer), IF answer = "named" THEN 0 ELSE n + 1)
<1> DEFINE t == Append(s, answer)
<1>1. /\ Len(s) \in Nat /\ Len(t) = Len(s) + 1
      /\ \A i \in 1..Len(s) : t[i] = s[i]
      /\ t[Len(s) + 1] = answer
  BY DEF Answers
<1>2. CASE answer = "named"
  BY <1>1, <1>2 DEF TrailingMisses
<1>3. CASE answer # "named"
  <2>1. n + 1 <= Len(t)
    BY <1>1 DEF TrailingMisses
  <2>2. ASSUME NEW i \in (Len(t) - (n + 1) + 1)..Len(t) PROVE t[i] # "named"
    <3>1. n <= Len(s) /\ \A k \in (Len(s) - n + 1)..Len(s) : s[k] # "named"
      BY DEF TrailingMisses
    <3>2. CASE i = Len(s) + 1
      BY <1>1, <1>3, <3>2
    <3>3. CASE i # Len(s) + 1
      <4>1. i \in (Len(s) - n + 1)..Len(s) /\ i \in 1..Len(s)
        BY <1>1, <3>1, <3>3
      <4> QED BY <1>1, <3>1, <4>1
    <3> QED BY <3>2, <3>3
  <2>3. n + 1 < Len(t) => t[Len(t) - (n + 1)] = "named"
    <3>1. SUFFICES ASSUME n + 1 < Len(t) PROVE t[Len(t) - (n + 1)] = "named"
      OBVIOUS
    <3>2. n < Len(s) /\ Len(t) - (n + 1) = Len(s) - n /\ Len(s) - n \in 1..Len(s)
      BY <1>1, <3>1
    <3> QED BY <1>1, <3>2 DEF TrailingMisses
  <2> QED BY <1>3, <2>1, <2>2, <2>3 DEF TrailingMisses
<1> QED BY <1>2, <1>3
----------------------------------------------------------------------------
(* One request more of the session.                                        *)

\* A page may always follow; anything else only when no page and nothing of its
\* kind was asked before it.
LEMMA SendStep ==
  ASSUME traffic \in Seq(Kinds), ExitIsNotWarmed, NEW kind \in Kinds, Send(kind),
         kind = "page" \/ \A i \in DOMAIN traffic : traffic[i] \notin {"page", kind}
  PROVE  /\ traffic' \in Seq(Kinds)
         /\ ExitIsNotWarmed'
         /\ \A i \in DOMAIN traffic' : traffic'[i] = kind \/ \E k \in DOMAIN traffic : traffic'[i] = traffic[k]
<1>1. /\ Len(traffic) \in Nat /\ DOMAIN traffic = 1..Len(traffic)
      /\ traffic' \in Seq(Kinds) /\ DOMAIN traffic' = 1..(Len(traffic) + 1)
      /\ \A i \in 1..Len(traffic) : traffic'[i] = traffic[i]
      /\ traffic'[Len(traffic) + 1] = kind
  BY DEF Send
<1>2. ASSUME NEW i \in DOMAIN traffic', NEW j \in DOMAIN traffic', i < j, traffic'[j] # "page"
      PROVE  traffic'[i] \notin {"page", traffic'[j]}
  <2>1. i \in 1..Len(traffic) /\ traffic'[i] = traffic[i]
    BY <1>1, <1>2
  <2>2. CASE j = Len(traffic) + 1
    BY <1>1, <1>2, <2>1, <2>2
  <2>3. CASE j # Len(traffic) + 1
    <3>1. j \in 1..Len(traffic) /\ traffic'[j] = traffic[j]
      BY <1>1, <2>3
    <3> QED BY <1>1, <1>2, <2>1, <3>1 DEF ExitIsNotWarmed
  <2> QED BY <2>2, <2>3
<1>3. ExitIsNotWarmed'
  BY <1>2 DEF ExitIsNotWarmed
<1>4. ASSUME NEW i \in DOMAIN traffic'
      PROVE  traffic'[i] = kind \/ \E k \in DOMAIN traffic : traffic'[i] = traffic[k]
  BY <1>1
<1> QED BY <1>1, <1>3, <1>4
----------------------------------------------------------------------------
(* The inductive invariant.                                                *)

LEMMA InitIInv == Init => IInv
<1> SUFFICES ASSUME Init PROVE IInv
  OBVIOUS
<1>1. misses \in [Providers -> Nat] /\ tries \in [Providers -> Seq(Answers)]
  BY DEF Init
<1>2. MissesAreOwn
  <2>1. TrailingMisses(<<>>, 0)
    BY DEF TrailingMisses
  <2>2. \A p \in Providers : tries[p] = <<>> /\ misses[p] = 0
    BY DEF Init
  <2> QED BY <2>1, <2>2 DEF MissesAreOwn
<1>3. WarmInv
  BY DEF Init, WarmInv, ExitIsNotWarmed
<1> QED BY <1>1, <1>2, <1>3 DEF Init, IInv, BatchInv, MissInv, LatchInv

\* A step that leaves the counts and the look-ups alone, keeps the batch or moves
\* its position, and does not go to the header.
LEMMA StepInBatch ==
  ASSUME IInv, UNCHANGED <<misses, tries>>, pc' # "header",
         pc' = "head" \/ (pc # "head" /\ (session' = session \/ session' = [session EXCEPT !.pos = @ + 1]))
  PROVE  (BatchInv /\ MissInv /\ LatchInv)'
<1>1. BatchInv'
  BY DEF IInv, BatchInv
<1>2. MissInv'
  BY DEF IInv, MissInv, MissesAreOwn
<1> QED BY <1>1, <1>2 DEF IInv, LatchInv

\* One that asks nothing either, and does not go back to where less was asked.
LEMMA QuietStep ==
  ASSUME IInv, UNCHANGED <<misses, tries, traffic>>,
         pc' \notin {"header", "echo", "speed", "unzoned"},
         pc' \in {"launch", "guard"} => pc \in {"launch", "guard"},
         pc' = "head" \/ (pc # "head" /\ (session' = session \/ session' = [session EXCEPT !.pos = @ + 1]))
  PROVE  IInv'
<1>1. (BatchInv /\ MissInv /\ LatchInv)'
  BY StepInBatch
<1>2. WarmInv'
  BY DEF IInv, WarmInv, ExitIsNotWarmed
<1> QED BY <1>1, <1>2 DEF IInv

\* The other steps: a batch opens, the header is asked, a request is sent.
LEMMA NextIInv == IInv /\ [Next]_vars => IInv'
<1> SUFFICES ASSUME IInv, [Next]_vars PROVE IInv'
  OBVIOUS
<1>1. ASSUME NEW p \in Providers, NEW arm \in Arms, NEW size \in BatchSizes, NEW e \in Addresses,
             OpenBatch(p, arm, size, e)
      PROVE  IInv'
  <2>1. BatchInv'
    BY <1>1 DEF OpenBatch, BatchInv
  <2>2. MissInv'
    BY <1>1 DEF OpenBatch, IInv, MissInv, MissesAreOwn
  <2>3. LatchInv'
    <3>1. session'.provider = p /\ misses' = misses
      BY <1>1 DEF OpenBatch
    <3>2. pc' = "header" => ~Latched(p)
      BY <1>1 DEF OpenBatch
    <3> QED BY <3>1, <3>2 DEF LatchInv, Latched, Provider
  <2>4. WarmInv'
    <3>1. traffic' = <<>> /\ pc' \in {"header", "echo"}
      BY <1>1 DEF OpenBatch
    <3> QED BY <3>1 DEF WarmInv, ExitIsNotWarmed
  <2> QED BY <2>1, <2>2, <2>3, <2>4 DEF IInv
<1>2. ASSUME NEW answer \in Answers, AskHeader(answer) PROVE IInv'
  <2>1. session \in [provider : Providers, arm : Arms, size : BatchSizes, pos : Nat]
    BY <1>2 DEF AskHeader, IInv, BatchInv
  <2>2. BatchInv'
    BY <1>2, <2>1 DEF AskHeader, BatchInv
  <2>3. MissInv'
    <3>1. /\ misses' = [misses EXCEPT ![Provider] = IF answer = "named" THEN 0 ELSE @ + 1]
          /\ tries' = [tries EXCEPT ![Provider] = Append(@, answer)]
      BY <1>2 DEF AskHeader, MissesNow
    <3>2. Provider \in Providers
      BY <2>1 DEF Provider
    <3>3. misses \in [Providers -> Nat] /\ tries \in [Providers -> Seq(Answers)]
      BY DEF IInv, MissInv
    <3>4. misses' \in [Providers -> Nat] /\ tries' \in [Providers -> Seq(Answers)]
      BY <3>1, <3>2, <3>3
    <3>5. ASSUME NEW q \in Providers PROVE TrailingMisses(tries'[q], misses'[q])
      <4>1. TrailingMisses(tries[q], misses[q])
        BY DEF IInv, MissInv, MissesAreOwn
      <4>2. CASE q = Provider
        <5>1. /\ misses'[q] = IF answer = "named" THEN 0 ELSE misses[q] + 1
              /\ tries'[q] = Append(tries[q], answer)
          BY <3>1, <3>2, <3>3, <4>2
        <5>2. tries[q] \in Seq(Answers) /\ misses[q] \in Nat
          BY <3>3
        <5> QED BY <4>1, <5>1, <5>2, OneAnswerMore
      <4>3. CASE q # Provider
        BY <3>1, <3>3, <4>1, <4>3
      <4> QED BY <4>2, <4>3
    <3>6. MissesAreOwn'
      BY <3>5 DEF MissesAreOwn
    <3> QED BY <3>4, <3>6 DEF MissInv
  <2>4. LatchInv' /\ WarmInv'
    <3>1. pc' \in {"echo", "speed"} /\ traffic' = <<>>
      BY <1>2 DEF AskHeader, IInv, WarmInv
    <3> QED BY <3>1 DEF LatchInv, WarmInv, ExitIsNotWarmed
  <2> QED BY <2>2, <2>3, <2>4 DEF IInv
<1>3. ASSUME NEW answered \in BOOLEAN, NEW zone \in BOOLEAN, AskEcho(answered, zone) PROVE IInv'
  <2>1. /\ UNCHANGED <<misses, tries, session>> /\ pc # "head"
        /\ pc' \in {"unzoned", "speed"} /\ Send("echo") /\ traffic = <<>>
    BY <1>3 DEF AskEcho, IInv, WarmInv
  <2>2. (BatchInv /\ MissInv /\ LatchInv)'
    BY <2>1, StepInBatch
  <2>3. WarmInv'
    <3>1. /\ traffic' \in Seq(Kinds) /\ ExitIsNotWarmed'
          /\ \A i \in DOMAIN traffic' : traffic'[i] = "echo" \/ \E k \in DOMAIN traffic : traffic'[i] = traffic[k]
      BY <2>1, SendStep DEF Kinds, IInv, WarmInv
    <3> QED BY <2>1, <3>1 DEF WarmInv
  <2> QED BY <2>2, <2>3 DEF IInv
<1>4. ASSUME NEW answer \in Answers, Middle(answer) \/ End(answer) PROVE IInv'
  <2>1. UNCHANGED <<misses, tries, traffic, session>> /\ pc # "head" /\ pc' \in {"fetch", "close"}
    BY <1>4 DEF Middle, End, Recheck
  <2> QED BY <2>1, QuietStep
<1>5. ASSUME NEW e \in Addresses, Rotate(e) PROVE IInv'
  <2>1. UNCHANGED <<misses, tries, traffic, session, pc>>
    BY <1>5 DEF Rotate
  <2> QED BY <2>1 DEF IInv, BatchInv, MissInv, MissesAreOwn, LatchInv, Latched, Provider, WarmInv, ExitIsNotWarmed
<1>6. CASE Launch \/ SessionDies \/ CloseSession
  <2>1. /\ UNCHANGED <<misses, tries, traffic, session>> /\ pc # "head"
        /\ pc' \in {"middle", "guard", "close", "head"} /\ (pc' = "guard" => pc = "launch")
    BY <1>6 DEF Launch, SessionDies, CloseSession
  <2> QED BY <2>1, QuietStep
<1>7. ASSUME NEW taken \in BOOLEAN, MeasureSpeed(taken) PROVE IInv'
  <2>1. /\ UNCHANGED <<misses, tries, session>> /\ pc # "head" /\ pc' \in {"launch", "head"}
        /\ Send("download") \/ UNCHANGED traffic
        /\ \A i \in DOMAIN traffic : traffic[i] = "echo"
    BY <1>7 DEF MeasureSpeed, IInv, WarmInv
  <2>2. (BatchInv /\ MissInv /\ LatchInv)'
    BY <2>1, StepInBatch
  <2>3. CASE Send("download")
    <3>1. /\ traffic' \in Seq(Kinds) /\ ExitIsNotWarmed'
          /\ \A i \in DOMAIN traffic' :
               traffic'[i] = "download" \/ \E k \in DOMAIN traffic : traffic'[i] = traffic[k]
      BY <2>1, <2>3, SendStep DEF Kinds, IInv, WarmInv
    <3> QED BY <2>1, <2>2, <3>1 DEF IInv, WarmInv
  <2>4. CASE UNCHANGED traffic
    BY <2>1, <2>2, <2>4 DEF IInv, WarmInv, ExitIsNotWarmed
  <2> QED BY <2>1, <2>3, <2>4
<1>8. ASSUME NEW kind \in {"check", "page"}, Send(kind), CheckExit \/ WentDirect \/ Fetch,
             kind = "check" => pc = "guard"
      PROVE  IInv'
  <2>1. /\ UNCHANGED <<misses, tries>> /\ pc # "head" /\ pc' \in {"head", "middle", "end"}
        /\ session' = session \/ session' = [session EXCEPT !.pos = @ + 1]
    BY <1>8 DEF CheckExit, WentDirect, Fetch
  <2>2. (BatchInv /\ MissInv /\ LatchInv)'
    BY <2>1, StepInBatch
  <2>3. kind = "page" \/ \A i \in DOMAIN traffic : traffic[i] \notin {"page", kind}
    BY <1>8 DEF IInv, WarmInv
  <2>4. traffic' \in Seq(Kinds) /\ ExitIsNotWarmed'
    BY <1>8, <2>3, SendStep DEF Kinds, IInv, WarmInv
  <2> QED BY <2>1, <2>2, <2>4 DEF IInv, WarmInv
<1>9. CASE CheckExit \/ WentDirect
  BY <1>8, <1>9 DEF CheckExit, WentDirect
<1>10. CASE Fetch
  BY <1>8, <1>10 DEF Fetch
<1>11. CASE UNCHANGED vars
  BY <1>11 DEF vars, IInv, BatchInv, MissInv, MissesAreOwn, LatchInv, Latched, Provider, WarmInv, ExitIsNotWarmed
<1> QED BY <1>1, <1>2, <1>3, <1>4, <1>5, <1>6, <1>7, <1>9, <1>10, <1>11 DEF Next

\* The invariant holds in every state, for every matrix of providers.
THEOREM Invariance == Spec => []IInv
<1> QED BY InitIInv, NextIInv, PTL DEF Spec
----------------------------------------------------------------------------
(* What follows of it.                                                     *)

\* A provider's count is the length of its own run of misses (gateway.py,
\* _header_misses), whatever the other providers and the re-checks do.
THEOREM OwnMisses == Spec => []MissesAreOwn
<1>1. IInv => MissesAreOwn
  BY DEF IInv, MissInv
<1> QED BY Invariance, <1>1, PTL

\* What a session asks beside its pages it asks before the first of them and
\* once: a re-check reads the exit and sends nothing through it, and the browser's
\* own check is over before the batch begins (gateway.py, recheck_exit; main of
\* benchmark.py).
THEOREM NotWarmed == Spec => []ExitIsNotWarmed
<1>1. IInv => ExitIsNotWarmed
  BY DEF IInv, WarmInv
<1> QED BY Invariance, <1>1, PTL

\* A provider given up on stays so and is charged no handshake, by a look-up or
\* by a re-check (gateway.py, _header_given_up): the header is asked only while
\* the count is below the limit, and no other step counts.
LEMMA LatchStep ==
  ASSUME IInv, Next, NEW p \in Providers, Latched(p)
  PROVE  Latched(p)' /\ (Provider = p /\ pc # "head" => connects' = connects)
<1>1. ASSUME NEW q \in Providers, NEW arm \in Arms, NEW size \in BatchSizes, NEW e \in Addresses,
             OpenBatch(q, arm, size, e)
      PROVE  misses' = misses /\ pc = "head"
  BY <1>1 DEF OpenBatch
<1>2. ASSUME NEW answer \in Answers, AskHeader(answer)
      PROVE  misses'[p] = misses[p] /\ Provider # p
  <2>1. Provider # p
    BY <1>2 DEF AskHeader, IInv, LatchInv
  <2> QED BY <1>2, <2>1 DEF AskHeader, MissesNow, IInv, MissInv
<1>3. ASSUME NEW answer \in Answers, Middle(answer) \/ End(answer)
      PROVE  misses' = misses /\ (Provider = p => connects' = connects)
  BY <1>3 DEF Middle, End, Recheck
<1>4. CASE \/ \E e \in Addresses : Rotate(e)
           \/ \E answered, zone \in BOOLEAN : AskEcho(answered, zone)
           \/ \E taken \in BOOLEAN : MeasureSpeed(taken)
           \/ Launch \/ CheckExit \/ WentDirect \/ SessionDies \/ Fetch \/ CloseSession
  <2>1. misses' = misses /\ connects' = connects
    BY <1>4 DEF Rotate, AskEcho, MeasureSpeed, Launch, CheckExit, WentDirect, SessionDies, Fetch, CloseSession
  <2> QED BY <2>1 DEF Latched
<1> QED BY <1>1, <1>2, <1>3, <1>4 DEF Next, Latched

\* A provider whose header was given up on is never connected to for it again
\* (gateway.py, identify and recheck_exit).
THEOREM LatchSaves == Spec => LatchSavesHandshakes
<1>1. IInv /\ [Next]_vars =>
        [\A p \in Providers : Latched(p) =>
           /\ Latched(p)'
           /\ Provider = p /\ pc # "head" => connects' = connects]_vars
  <2> SUFFICES ASSUME IInv, Next
               PROVE \A p \in Providers : Latched(p) =>
                       /\ Latched(p)'
                       /\ Provider = p /\ pc # "head" => connects' = connects
    OBVIOUS
  <2> QED BY LatchStep
<1> QED BY Invariance, <1>1, PTL DEF Spec, LatchSavesHandshakes
----------------------------------------------------------------------------
(* What the runner has in hand of a session: how many points, at how many  *)
(* handshakes, and that a point that names an exit names the session's.    *)

Points == Seq([when : Labels, ip : Addresses \cup {NoAddress}])
FieldsInv ==
  /\ misses \in [Providers -> 0..GiveUp]
  /\ pc \in {"head", "header", "echo", "speed", "unzoned", "launch", "guard",
             "middle", "fetch", "end", "close"}
  /\ session \in [provider : Providers, arm : Arms, size : BatchSizes \cup {0}, pos : Nat]
  /\ session.pos <= session.size
  /\ row \in [points : 0..3, read : 0..3, stable : {"unknown", "yes", "no"},
              changed_at : Labels \cup {"never"}]
  /\ exit \in Addresses \cup {NoAddress}
  /\ pc # "head" => exit \in Addresses
  /\ opened \in 0..MaxSessions
  /\ tries \in [Providers -> Seq(Answers)]

PointsInv ==
  /\ points \in Points
  /\ truth \in Seq(Addresses)
  /\ Len(truth) = Len(points)
  /\ Len(points) <= 3
  /\ \A i \in 1..Len(points) : points[i].ip \in {truth[i], NoAddress}

\* A reading at the start, one half way and one at the end: where the runner
\* stands says how many there can be.
Half == session.size \div 2
PlaceInv ==
  /\ pc \in {"header", "echo", "speed", "unzoned", "launch", "guard"} => session.pos = 0
  /\ pc \in {"header", "echo"} => Len(points) = 0
  /\ pc \in {"speed", "unzoned", "launch", "guard"} => Len(points) <= 1
  /\ pc \in {"middle", "fetch"} => session.pos < session.size
  /\ pc \in {"middle", "fetch", "end"} => Len(points) <= 2
  /\ pc = "middle" /\ session.pos <= Half => Len(points) <= 1
  /\ pc = "fetch" /\ (session.pos < Half \/ session.pos = 0) => Len(points) <= 1

\* A handshake is paid for a point, but for the look-up that named nothing.
HandshakeInv ==
  /\ connects \in 0..3
  /\ pc = "header" => Checking /\ connects = 0
  /\ pc = "echo" => connects <= 1 /\ (~Checking => connects = 0)
  /\ pc \notin {"head", "header", "echo"} => connects <= Len(points)

ShapeInv == FieldsInv /\ PointsInv /\ PlaceInv /\ HandshakeInv

LEMMA InitShape == Init => ShapeInv
<1> SUFFICES ASSUME Init PROVE ShapeInv
  OBVIOUS
<1>1. (CHOOSE p \in Providers : TRUE) \in Providers
  BY IdentityAssumption
<1>2. FieldsInv
  BY <1>1, IdentityAssumption DEF Init, FieldsInv, Arms, NoRow
<1>3. PointsInv
  BY DEF Init, PointsInv, Points
<1>4. PlaceInv /\ HandshakeInv
  BY DEF Init, PlaceInv, HandshakeInv
<1> QED BY <1>2, <1>3, <1>4 DEF ShapeInv

\* One reading more, of the exit or of nothing.
LEMMA PointStep ==
  ASSUME PointsInv, exit \in Addresses, Len(points) <= 2,
         NEW when \in Labels, NEW address \in {exit, NoAddress}, Point(when, address)
  PROVE  /\ PointsInv'
         /\ Len(points') = IF Checking THEN Len(points) + 1 ELSE Len(points)
<1>1. CASE ~Checking
  BY <1>1 DEF Point, PointsInv
<1>2. CASE Checking
  <2> DEFINE point == [when |-> when, ip |-> address]
  <2>1. points' = Append(points, point) /\ truth' = Append(truth, exit)
    BY <1>2 DEF Point
  <2>2. point \in [when : Labels, ip : Addresses \cup {NoAddress}] /\ point.ip \in {exit, NoAddress}
    OBVIOUS
  <2> HIDE DEF point
  <2>3. /\ points \in Points /\ truth \in Seq(Addresses) /\ Len(truth) = Len(points)
        /\ Len(points) \in Nat
        /\ \A i \in 1..Len(points) : points[i].ip \in {truth[i], NoAddress}
    BY DEF PointsInv, Points
  <2>4. /\ points' \in Points /\ truth' \in Seq(Addresses)
        /\ Len(points') = Len(points) + 1 /\ Len(truth') = Len(truth) + 1
        /\ points'[Len(points) + 1] = point /\ truth'[Len(points) + 1] = exit
        /\ \A i \in 1..Len(points) : points'[i] = points[i] /\ truth'[i] = truth[i]
    BY <2>1, <2>2, <2>3 DEF Points
  <2>5. \A i \in 1..Len(points') : points'[i].ip \in {truth'[i], NoAddress}
    BY <2>2, <2>3, <2>4
  <2> QED BY <1>2, <2>3, <2>4, <2>5 DEF PointsInv
<1> QED BY <1>1, <1>2

LEMMA RecheckStep ==
  ASSUME PointsInv, exit \in Addresses, Len(points) <= 2, Checking, connects \in Nat,
         NEW when \in Labels, NEW answer \in Answers, Recheck(when, answer)
  PROVE  /\ PointsInv'
         /\ Len(points') = Len(points) + 1
         /\ connects' \in {connects, connects + 1}
         /\ UNCHANGED <<misses, tries, traffic>>
<1>1. Heard(answer) \in {exit, NoAddress}
  BY DEF Heard
<1>2. /\ Point(when, Heard(answer)) \/ Point(when, NoAddress)
      /\ connects' \in {connects, connects + 1}
      /\ UNCHANGED <<misses, tries, traffic>>
  BY DEF Recheck
<1>3. NoAddress \in {exit, NoAddress}
  OBVIOUS
<1> QED BY <1>1, <1>2, <1>3, PointStep

\* Two points are read, or there are not two that differ in place.
LEMMA TwoRead ==
  ASSUME NEW n \in Nat, NEW read, read \subseteq 1..n
  PROVE  /\ Cardinality(read) \in 0..n
         /\ Cardinality(read) < 2 <=> ~\E i, j \in read : i < j
<1>1. IsFiniteSet(1..n) /\ Cardinality(1..n) = n
  BY FS_Interval
<1>2. IsFiniteSet(read) /\ Cardinality(read) <= n
  BY <1>1, FS_Subset
<1>3. Cardinality(read) \in Nat
  BY <1>2, FS_CardinalityType
<1>4. ASSUME NEW i \in read, NEW j \in read, i < j PROVE Cardinality(read) >= 2
  <2>1. IsFiniteSet({i}) /\ Cardinality({i}) = 1
    BY FS_Singleton
  <2>2. j \notin {i}
    BY <1>4
  <2>3. Cardinality({i} \cup {j}) = 2
    BY <2>1, <2>2, FS_AddElement
  <2>4. {i} \cup {j} \subseteq read
    OBVIOUS
  <2>5. Cardinality({i} \cup {j}) <= Cardinality(read)
    BY <1>2, <2>4, FS_Subset
  <2> QED BY <2>3, <2>5, <1>3
<1>5. ASSUME ~\E i, j \in read : i < j PROVE Cardinality(read) < 2
  <2>1. CASE read = {}
    BY <2>1, FS_EmptySet
  <2>2. CASE read # {}
    <3>1. PICK x : x \in read
      BY <2>2
    <3>2. \A y \in read : y = x
      BY <1>5, <3>1
    <3>3. read = {x}
      BY <3>1, <3>2
    <3> QED BY <3>3, FS_Singleton
  <2> QED BY <2>1, <2>2
<1>6. Cardinality(read) < 2 => ~\E i, j \in read : i < j
  BY <1>3, <1>4
<1> QED BY <1>2, <1>3, <1>5, <1>6

\* The readings that differ from another, and the first of them.
Differing(seen, read, first) == {i \in read : seen[i].ip # seen[first].ip}
LeastOf(T) == CHOOSE i \in T : \A j \in T : i <= j

LEMMA LeastIs ==
  ASSUME NEW T, T \subseteq Nat, T # {}
  PROVE  LeastOf(T) \in T /\ \A j \in T : LeastOf(T) <= j
<1>1. \E i \in T : \A j \in T : i <= j
  BY Least
<1> QED BY <1>1 DEF LeastOf

SummaryRow(n, read, stable, at) ==
  [points |-> n, read |-> Cardinality(read), stable |-> stable, changed_at |-> at]

\* What summarise_identity makes of the points, case by case.
Cases(s, n, seen, read) ==
  \/ (~\E i, j \in read : i < j) /\ s = SummaryRow(n, read, "unknown", "never")
  \/ \E i, j, f \in read :
       /\ i < j
       /\ \A k \in read : f <= k
       /\ \/ (\A k \in read : seen[k].ip = seen[f].ip) /\ s = SummaryRow(n, read, "yes", "never")
          \/ \E m \in read :
               /\ seen[m].ip # seen[f].ip
               /\ \A k \in read : seen[k].ip # seen[f].ip => m <= k
               /\ s = SummaryRow(n, read, "no", seen[m].when)

LEMMA SummaryCases ==
  ASSUME NEW seen, NEW n \in Nat, Len(seen) = n, NEW read, read \subseteq 1..n,
         NEW s, s = SummaryOf(seen, read)
  PROVE  Cases(s, n, seen, read)
<1> USE DEF Cases
<1> DEFINE f == LeastOf(read)
           differ == Differing(seen, read, f)
           m == LeastOf(differ)
<1>1. s = [points |-> n, read |-> Cardinality(read),
           stable |-> CASE Cardinality(read) < 2 -> "unknown"
                        [] Cardinality(read) >= 2 /\ differ = {} -> "yes"
                        [] OTHER -> "no",
           changed_at |-> IF Cardinality(read) < 2 \/ differ = {} THEN "never" ELSE seen[m].when]
  BY DEF SummaryOf, LeastOf, Differing
<1>2. Cardinality(read) \in 0..n /\ (Cardinality(read) < 2 <=> ~\E i, j \in read : i < j)
  BY TwoRead
<1>3. CASE Cardinality(read) < 2
  BY <1>1, <1>2, <1>3 DEF SummaryRow
<1>4. CASE ~(Cardinality(read) < 2)
  <2>1. PICK i \in read, j \in read : i < j
    BY <1>2, <1>4
  <2>2. f \in read /\ \A k \in read : f <= k
    <3>1. read \subseteq Nat /\ read # {}
      BY <2>1
    <3> QED BY <3>1, LeastIs
  <2> HIDE DEF f
  <2>3. Cardinality(read) >= 2
    BY <1>2, <1>4
  <2>4. CASE differ = {}
    <3>1. \A k \in read : seen[k].ip = seen[f].ip
      BY <2>4 DEF Differing
    <3>2. s = SummaryRow(n, read, "yes", "never")
      <4> HIDE DEF differ
      <4> QED BY <1>1, <1>4, <2>3, <2>4 DEF SummaryRow
    <3> QED BY <2>1, <2>2, <3>1, <3>2
  <2>5. CASE differ # {}
    <3>1. differ \subseteq read
      BY DEF Differing
    <3>2. m \in differ /\ \A k \in differ : m <= k
      <4> HIDE DEF differ
      <4>1. differ \subseteq Nat
        BY <3>1
      <4> QED BY <2>5, <4>1, LeastIs
    <3>3. s = SummaryRow(n, read, "no", seen[m].when)
      <4> HIDE DEF differ, m
      <4> QED BY <1>1, <1>4, <2>3, <2>5 DEF SummaryRow
    <3> HIDE DEF m
    <3>4. m \in read /\ seen[m].ip # seen[f].ip /\ \A k \in read : seen[k].ip # seen[f].ip => m <= k
      BY <3>2 DEF Differing
    <3> HIDE DEF differ
    <3> QED BY <2>1, <2>2, <3>3, <3>4
  <2> QED BY <2>4, <2>5
<1> QED BY <1>3, <1>4

LEMMA SummaryType ==
  ASSUME PointsInv
  PROVE  Summarise(points) \in [points : 0..3, read : 0..3, stable : {"unknown", "yes", "no"},
                                changed_at : Labels \cup {"never"}]
<1>1. Len(points) \in 0..3 /\ DOMAIN points = 1..Len(points)
  BY DEF PointsInv, Points
<1>2. \A i \in 1..Len(points) : points[i].when \in Labels
  <2>1. points \in Seq([when : Labels, ip : Addresses \cup {NoAddress}])
    BY DEF PointsInv, Points
  <2>2. \A i \in 1..Len(points) : points[i] \in [when : Labels, ip : Addresses \cup {NoAddress}]
    BY <2>1, ElementOfSeq
  <2> QED BY <2>2
<1>3. Readings(points) \subseteq 1..Len(points)
  BY <1>1 DEF Readings
<1>4. Cardinality(Readings(points)) \in 0..3
  <2>1. Cardinality(Readings(points)) \in 0..Len(points)
    BY <1>1, <1>3, TwoRead
  <2> QED BY <1>1, <2>1
<1> QED BY <1>1, <1>2, <1>3, <1>4, SummaryCases DEF Summarise, SummaryRow, Cases

LEMMA NextShape == IInv /\ ShapeInv /\ [Next]_vars => ShapeInv'
<1> SUFFICES ASSUME IInv, ShapeInv, [Next]_vars PROVE ShapeInv'
  OBVIOUS
<1> USE DEF ShapeInv
<1>0. FieldsInv /\ PointsInv /\ PlaceInv /\ HandshakeInv
  OBVIOUS
<1>1. ASSUME NEW p \in Providers, NEW arm \in Arms, NEW size \in BatchSizes, NEW e \in Addresses,
             OpenBatch(p, arm, size, e)
      PROVE  ShapeInv'
  <2>1. size \in Nat /\ size > 0
    BY IdentityAssumption
  <2>2. /\ session' = [provider |-> p, arm |-> arm, size |-> size, pos |-> 0] /\ opened' \in 0..MaxSessions
        /\ pc' = (IF arm = "plain" /\ p \in Headed /\ ~Latched(p) THEN "header" ELSE "echo")
        /\ exit' = e /\ points' = <<>> /\ truth' = <<>> /\ connects' = 0
        /\ UNCHANGED <<misses, row, tries>>
    <3>1. opened \in 0..MaxSessions /\ MaxSessions \in Nat
      BY IdentityAssumption DEF FieldsInv
    <3> QED BY <1>1, <3>1 DEF OpenBatch
  <2>3. FieldsInv'
    BY <2>1, <2>2 DEF FieldsInv
  <2>4. PointsInv'
    BY <2>2 DEF PointsInv, Points
  <2>5. PlaceInv' /\ HandshakeInv'
    BY <2>1, <2>2 DEF PlaceInv, HandshakeInv, Checking
  <2> QED BY <2>3, <2>4, <2>5
<1>2. ASSUME NEW e \in Addresses, Rotate(e) PROVE ShapeInv'
  BY <1>0, <1>2 DEF Rotate, FieldsInv, PointsInv, PlaceInv, HandshakeInv, Half, Checking
<1>3. ASSUME NEW answer \in Answers, AskHeader(answer) PROVE ShapeInv'
  <2>1. /\ pc = "header" /\ Checking /\ connects = 0 /\ session.pos = 0
        /\ Len(points) = 0 /\ exit \in Addresses
        /\ session \in [provider : Providers, arm : Arms, size : BatchSizes, pos : Nat]
    BY <1>3 DEF AskHeader, FieldsInv, PlaceInv, HandshakeInv, IInv, BatchInv
  <2>2. /\ UNCHANGED <<session, row, exit, opened>> /\ connects' = 1
        /\ misses' = MissesNow(Provider, answer)
        /\ tries' = [tries EXCEPT ![Provider] = Append(@, answer)]
    BY <1>3, <2>1 DEF AskHeader
  <2>3. misses' \in [Providers -> 0..GiveUp]
    <3>1. Provider \in Providers /\ misses \in [Providers -> 0..GiveUp] /\ ~(misses[Provider] >= GiveUp)
      BY <2>1 DEF FieldsInv, IInv, LatchInv, Latched, Provider
    <3>2. GiveUp \in Nat
      BY IdentityAssumption
    <3> QED BY <2>2, <3>1, <3>2 DEF MissesNow
  <2>4. tries' \in [Providers -> Seq(Answers)]
    <3>1. Provider \in Providers /\ tries \in [Providers -> Seq(Answers)]
      BY <2>1 DEF FieldsInv, Provider
    <3> QED BY <2>2, <3>1
  <2>5. CASE answer = "named"
    <3>1. Point("start", exit) /\ pc' = "speed"
      BY <1>3, <2>5 DEF AskHeader
    <3>2. PointsInv' /\ Len(points') = 1
      BY <2>1, <3>1, PointStep DEF Labels
    <3>3. FieldsInv'
      BY <2>1, <2>2, <2>3, <2>4, <3>1 DEF FieldsInv
    <3>4. PlaceInv' /\ HandshakeInv'
      BY <2>1, <2>2, <3>1, <3>2 DEF PlaceInv, HandshakeInv
    <3> QED BY <3>2, <3>3, <3>4
  <2>6. CASE answer # "named"
    <3>1. pc' = "echo" /\ UNCHANGED <<points, truth>>
      BY <1>3, <2>6 DEF AskHeader
    <3>2. PointsInv'
      BY <3>1 DEF PointsInv
    <3>3. FieldsInv'
      BY <2>1, <2>2, <2>3, <2>4, <3>1 DEF FieldsInv
    <3>4. PlaceInv' /\ HandshakeInv'
      BY <2>1, <2>2, <3>1, <3>2 DEF PlaceInv, HandshakeInv, Checking
    <3> QED BY <3>2, <3>3, <3>4
  <2> QED BY <2>5, <2>6
<1>4. ASSUME NEW answered \in BOOLEAN, NEW zone \in BOOLEAN, AskEcho(answered, zone) PROVE ShapeInv'
  <2> DEFINE address == IF answered THEN exit ELSE NoAddress
  <2>1. /\ pc = "echo" /\ connects \in 0..1 /\ (~Checking => connects = 0) /\ session.pos = 0
        /\ Len(points) = 0 /\ exit \in Addresses
        /\ session \in [provider : Providers, arm : Arms, size : BatchSizes, pos : Nat]
    BY <1>4 DEF AskEcho, FieldsInv, PlaceInv, HandshakeInv, IInv, BatchInv
  <2>2. /\ Point("start", address) /\ pc' \in {"unzoned", "speed"}
        /\ UNCHANGED <<misses, session, row, exit, opened, tries, connects>>
    BY <1>4 DEF AskEcho
  <2>3. PointsInv' /\ Len(points') = IF Checking THEN 1 ELSE 0
    <3>1. address \in {exit, NoAddress}
      OBVIOUS
    <3> HIDE DEF address
    <3> QED BY <2>1, <2>2, <3>1, PointStep DEF Labels
  <2>4. FieldsInv'
    BY <2>1, <2>2 DEF FieldsInv
  <2>5. PlaceInv' /\ HandshakeInv'
    BY <2>1, <2>2, <2>3 DEF PlaceInv, HandshakeInv
  <2> QED BY <2>3, <2>4, <2>5
<1>5. ASSUME NEW answer \in Answers, Middle(answer) PROVE ShapeInv'
  <2>1. /\ pc = "middle" /\ exit \in Addresses /\ session.pos < session.size
        /\ session \in [provider : Providers, arm : Arms, size : BatchSizes, pos : Nat]
        /\ Len(points) \in Nat /\ Len(points) <= 2 /\ connects \in Nat /\ connects <= Len(points)
        /\ session.pos <= Half => Len(points) <= 1
    BY <1>5 DEF Middle, FieldsInv, PlaceInv, HandshakeInv, PointsInv, Points, IInv, BatchInv
  <2>2. pc' = "fetch" /\ UNCHANGED <<session, row, exit, opened>>
    BY <1>5 DEF Middle
  <2>3. \/ /\ UNCHANGED <<misses, points, tries, truth, connects>>
           /\ PointsInv'
        \/ /\ session.pos = Half /\ session.pos # 0
           /\ PointsInv' /\ Len(points') = Len(points) + 1
           /\ connects' \in {connects, connects + 1}
           /\ UNCHANGED <<misses, tries>>
    <3>1. CASE Checking /\ HalfWay
      <4>1. Recheck("middle", answer)
        BY <1>5, <3>1 DEF Middle
      <4> QED BY <2>1, <3>1, <4>1, RecheckStep DEF HalfWay, Half, Labels
    <3>2. CASE ~(Checking /\ HalfWay)
      BY <1>5, <3>2 DEF Middle, PointsInv
    <3> QED BY <3>1, <3>2
  <2>4. FieldsInv'
    BY <2>1, <2>2, <2>3 DEF FieldsInv
  <2>5. session'.pos = session.pos /\ session'.size = session.size /\ Half' = Half /\ Half \in Nat
    <3>1. session.size \in Nat
      BY <2>1, IdentityAssumption
    <3> QED BY <2>2, <3>1 DEF Half
  <2>6. PlaceInv' /\ HandshakeInv'
    <3>1. session.pos \in Nat
      BY <2>1
    <3> HIDE DEF ShapeInv
    <3> QED BY <2>1, <2>2, <2>3, <2>5, <3>1 DEF PlaceInv, HandshakeInv
  <2> QED BY <2>3, <2>4, <2>6
<1>6. ASSUME NEW answer \in Answers, End(answer) PROVE ShapeInv'
  <2>1. /\ pc = "end" /\ exit \in Addresses
        /\ Len(points) \in Nat /\ Len(points) <= 2 /\ connects \in Nat /\ connects <= Len(points)
    BY <1>6 DEF End, FieldsInv, PlaceInv, HandshakeInv, PointsInv, Points
  <2>2. pc' = "close" /\ UNCHANGED <<session, row, exit, opened>>
    BY <1>6 DEF End
  <2>3. /\ PointsInv' /\ Len(points') \in {Len(points), Len(points) + 1}
        /\ connects' <= Len(points') /\ connects' \in Nat
        /\ UNCHANGED <<misses, tries>>
    <3>1. CASE Checking
      <4>1. Recheck("end", answer)
        BY <1>6, <3>1 DEF End
      <4> QED BY <2>1, <3>1, <4>1, RecheckStep DEF Labels
    <3>2. CASE ~Checking
      BY <1>6, <2>1, <3>2 DEF End, PointsInv
    <3> QED BY <3>1, <3>2
  <2>4. FieldsInv'
    BY <2>1, <2>2, <2>3 DEF FieldsInv
  <2>5. PlaceInv' /\ HandshakeInv'
    <3>1. Len(points') <= 3
      BY <2>3 DEF PointsInv
    <3> QED BY <2>1, <2>2, <2>3, <3>1 DEF PlaceInv, HandshakeInv
  <2> QED BY <2>3, <2>4, <2>5
<1>7. CASE Launch \/ CheckExit
  <2>1. session.size \in Nat \ {0} /\ session.pos = 0
    BY <1>7, IdentityAssumption DEF Launch, CheckExit, IInv, BatchInv, PlaceInv
  <2> QED BY <1>0, <1>7, <2>1 DEF Launch, CheckExit, FieldsInv, PointsInv, PlaceInv, HandshakeInv
<1>8. CASE WentDirect \/ \E taken \in BOOLEAN : MeasureSpeed(taken)
  BY <1>0, <1>8 DEF WentDirect, MeasureSpeed, FieldsInv, PointsInv, PlaceInv, HandshakeInv
<1>9. CASE SessionDies
  BY <1>0, <1>9 DEF SessionDies, FieldsInv, PointsInv, PlaceInv, HandshakeInv
<1>10. CASE Fetch
  <2>1. /\ pc = "fetch" /\ session.pos < session.size
        /\ session \in [provider : Providers, arm : Arms, size : BatchSizes, pos : Nat]
        /\ session.size \in Nat
    BY <1>10, IdentityAssumption DEF Fetch, PlaceInv, IInv, BatchInv
  <2>2. /\ session' = [session EXCEPT !.pos = @ + 1]
        /\ pc' = IF session'.pos = session.size THEN "end" ELSE "middle"
        /\ UNCHANGED <<misses, points, row, exit, opened, tries, truth, connects>>
    BY <1>10 DEF Fetch
  <2>3. session'.pos = session.pos + 1 /\ session'.size = session.size /\ Half' = Half /\ Half \in Int
    BY <2>1, <2>2 DEF Half
  <2>4. FieldsInv'
    <3>1. session' \in [provider : Providers, arm : Arms, size : BatchSizes, pos : Nat]
      BY <2>1, <2>2
    <3>2. session'.pos <= session'.size
      BY <2>1, <2>3
    <3> QED BY <2>1, <2>2, <3>1, <3>2 DEF FieldsInv
  <2>5. PointsInv'
    BY <2>2 DEF PointsInv
  <2>6. PlaceInv' /\ HandshakeInv'
    <3>1. session.pos \in Nat /\ Len(points') = Len(points) /\ connects' = connects
      BY <2>1, <2>2
    <3>2. session'.pos <= Half' => session.pos < Half
      BY <2>1, <2>3, <3>1
    <3> QED BY <2>1, <2>2, <2>3, <3>1, <3>2 DEF PlaceInv, HandshakeInv
  <2> QED BY <2>4, <2>5, <2>6
<1>11. CASE CloseSession
  <2>1. /\ row' = Summarise(points) /\ pc' = "head"
        /\ UNCHANGED <<misses, session, points, exit, opened, tries, truth, connects, traffic>>
    BY <1>11 DEF CloseSession
  <2>2. row' \in [points : 0..3, read : 0..3, stable : {"unknown", "yes", "no"},
                  changed_at : Labels \cup {"never"}]
    BY <2>1, SummaryType
  <2> QED BY <2>1, <2>2 DEF FieldsInv, PointsInv, PlaceInv, HandshakeInv
<1>12. CASE UNCHANGED vars
  BY <1>0, <1>12 DEF vars, FieldsInv, PointsInv, PlaceInv, HandshakeInv, Half, Checking
<1> QED BY <1>1, <1>2, <1>3, <1>4, <1>5, <1>6, <1>7, <1>8, <1>9, <1>10, <1>11, <1>12 DEF Next

\* What the runner holds of a session is of the shape of the columns it fills,
\* for every matrix and every limit: three readings at most, at most one
\* handshake for each (gateway.py, and run_batch of nmbench/matrix.py).
THEOREM ShapeKept == Spec => [](IInv /\ ShapeInv)
<1>1. Init => IInv /\ ShapeInv
  BY InitIInv, InitShape
<1>2. IInv /\ ShapeInv /\ [Next]_vars => IInv' /\ ShapeInv'
  BY NextIInv, NextShape
<1> QED BY <1>1, <1>2, PTL DEF Spec

\* Every variable keeps its type: no session costs more than three readings.
THEOREM TypeCorrect == Spec => []TypeOK
<1>1. IInv /\ ShapeInv => TypeOK
  BY DEF IInv, WarmInv, ShapeInv, FieldsInv, PointsInv, Points, HandshakeInv, TypeOK
<1> QED BY ShapeKept, <1>1, PTL

\* The row s says so of the points seen: where an address was read it was the
\* exit's, so the readings differ as the exits do (gateway.py,
\* summarise_identity).
Honest(s, seen, read, real) ==
  /\ s.stable = "no" =>
       \E i, j \in read :
         /\ i < j /\ real[i] # real[j] /\ seen[j].when = s.changed_at
         /\ \A k \in read : k < j => real[k] = real[i]
  /\ s.stable = "yes" => \E i, j \in read : i < j /\ \A k \in read : real[k] = real[i]
  /\ s.stable = "unknown" => ~\E i, j \in read : i < j

LEMMA SummaryHonest ==
  ASSUME NEW seen, NEW n \in Nat, Len(seen) = n, NEW read, read \subseteq 1..n,
         NEW s, s = SummaryOf(seen, read),
         NEW real, \A i \in read : seen[i].ip = real[i]
  PROVE  Honest(s, seen, read, real)
<1>1. Cases(s, n, seen, read)
  BY SummaryCases
<1>2. CASE s = SummaryRow(n, read, "unknown", "never") /\ ~\E i, j \in read : i < j
  BY <1>2 DEF SummaryRow, Honest
<1>3. ASSUME NEW i \in read, NEW j \in read, NEW f \in read, i < j,
             \A k \in read : seen[k].ip = seen[f].ip, s = SummaryRow(n, read, "yes", "never")
      PROVE  Honest(s, seen, read, real)
  <2>1. \A k \in read : real[k] = real[i]
    BY <1>3
  <2>2. s.stable = "yes"
    BY <1>3 DEF SummaryRow
  <2> QED BY <1>3, <2>1, <2>2 DEF Honest
<1>4. ASSUME NEW f \in read, NEW m \in read, \A k \in read : f <= k, seen[m].ip # seen[f].ip,
             \A k \in read : seen[k].ip # seen[f].ip => m <= k,
             s = SummaryRow(n, read, "no", seen[m].when)
      PROVE  Honest(s, seen, read, real)
  <2>1. read \subseteq Nat
    OBVIOUS
  <2>2. f < m /\ real[f] # real[m] /\ \A k \in read : k < m => real[k] = real[f]
    BY <1>4, <2>1
  <2>3. s.stable = "no" /\ seen[m].when = s.changed_at
    BY <1>4 DEF SummaryRow
  <2> QED BY <2>2, <2>3 DEF Honest
<1> QED BY <1>1, <1>2, <1>3, <1>4 DEF Cases

LEMMA VerdictStep ==
  ASSUME ShapeInv, CloseSession
  PROVE  Honest(row', points, Read, truth)
<1>1. /\ Len(points) \in Nat /\ DOMAIN points = 1..Len(points)
      /\ \A i \in 1..Len(points) : points[i].ip \in {truth[i], NoAddress}
  BY DEF ShapeInv, PointsInv, Points
<1>2. Read \subseteq 1..Len(points) /\ \A i \in Read : points[i].ip = truth[i]
  BY <1>1 DEF Read, Readings
<1>3. row' = SummaryOf(points, Read)
  BY DEF CloseSession, Summarise, Read
<1> QED BY <1>1, <1>2, <1>3, SummaryHonest

\* A session said to have moved had moved, at the point named and not before;
\* one said to have held had the same exit at every point read, two at least.
THEOREM VerdictTrue == Spec => VerdictIsTheSessions
<1>1. ShapeInv => [CloseSession => Honest(row', points, Read, truth)]_vars
  BY VerdictStep
<1>2. Spec => [][CloseSession => Honest(row', points, Read, truth)]_vars
  BY ShapeKept, <1>1, PTL
<1> QED BY <1>2 DEF VerdictIsTheSessions, Honest
====
