---- MODULE GatewayIdentity ----
(***************************************************************************)
(* nmbench/gateway.py in the hands of the matrix runner: how the exit of a *)
(* session is named at its start (identify, echo), read again in the       *)
(* middle and at the end of its batch (recheck_exit), and what the session *)
(* row says of it (summarise_identity).  The process keeps one thing       *)
(* across sessions, the count of header misses of each provider; the exit  *)
(* itself is the gateway's, which may move a session whenever it likes.    *)
(*                                                                         *)
(* A CONNECT is answered in one of three ways: "named", a reply whose      *)
(* header carries the exit; "unnamed", a reply without it; "nothing", no   *)
(* reply at all (refused connection, timeout).                             *)
(***************************************************************************)
EXTENDS Integers, Sequences, FiniteSets

CONSTANTS
  Providers,     \* the gateways of the matrix
  Headed,        \* those whose definition has an exit_ip_header
  Addresses,     \* exit addresses
  NoAddress,     \* exit_ip is None
  GiveUp,        \* _HEADER_GIVE_UP
  BatchSizes,    \* lengths a batch can have
  MaxSessions    \* bound: sessions of the run

ASSUME IdentityAssumption ==
  /\ Providers # {}
  /\ Headed \subseteq Providers
  /\ NoAddress \notin Addresses
  /\ GiveUp \in Nat \ {0}
  /\ BatchSizes \subseteq Nat \ {0}
  /\ MaxSessions \in Nat

Answers == {"named", "unnamed", "nothing"}
Arms == {"plain", "align", "direct"}    \* geo off, geo align, no gateway
\* What a session asks of the network: the echo service, the sized download of
\* the speed reading, the page that tells the browser's own address, a target.
Kinds == {"echo", "download", "check", "page"}

VARIABLES
  misses,     \* _header_misses
  pc,         \* where the runner stands in the batch
  session,    \* the batch in hand: [provider, arm, size, pos]
  points,     \* identity_seen
  row,        \* the columns of the last session_closed row
  exit,       \* gateway: the exit this session has now
  opened,     \* sessions so far
  tries,      \* history: what each identify of a provider was answered
  truth,      \* history: the exit at each of the points
  connects,   \* history: CONNECTs spent on its header alone
  traffic     \* history: what this session asked, in the order it was asked

vars == <<misses, pc, session, points, row, exit, opened, tries, truth, connects, traffic>>

NoRow == [points |-> 0, read |-> 0, stable |-> "unknown", changed_at |-> "never"]
Provider == session.provider
Checking == session.arm # "direct"

Init ==
  /\ misses = [p \in Providers |-> 0]
  /\ pc = "head"
  /\ session = [provider |-> CHOOSE p \in Providers : TRUE, arm |-> "direct", size |-> 0, pos |-> 0]
  /\ points = <<>>
  /\ row = NoRow
  /\ exit = NoAddress
  /\ opened = 0
  /\ tries = [p \in Providers |-> <<>>]
  /\ truth = <<>>
  /\ connects = 0
  /\ traffic = <<>>

Latched(p) == misses[p] >= GiveUp
Heard(answer) == IF answer = "named" THEN exit ELSE NoAddress

\* A reading goes to identity_seen under its label, unless nothing is checked.
Point(when, address) ==
  IF Checking THEN /\ points' = Append(points, [when |-> when, ip |-> address])
                   /\ truth' = Append(truth, exit)
  ELSE UNCHANGED <<points, truth>>

OpenBatch(p, arm, size, e) ==
  /\ pc = "head"
  /\ opened < MaxSessions
  /\ opened' = opened + 1
  /\ session' = [provider |-> p, arm |-> arm, size |-> size, pos |-> 0]
  /\ pc' = IF arm = "plain" /\ p \in Headed /\ ~Latched(p) THEN "header" ELSE "echo"
  /\ exit' = e
  /\ points' = <<>>
  /\ truth' = <<>>
  /\ connects' = 0
  /\ traffic' = <<>>
  /\ UNCHANGED <<misses, row, tries>>

\* The gateway moves the session, between any two steps of the runner.
Rotate(e) ==
  /\ pc # "head"
  /\ exit' = e
  /\ UNCHANGED <<misses, pc, session, points, row, opened, tries, truth, connects, traffic>>
----------------------------------------------------------------------------
(* identify: the reply header first, the echo service when it is missing.  *)

MissesShared(p, answer) ==         \* one counter for every provider
  [q \in Providers |-> IF answer = "named" THEN 0 ELSE misses[q] + 1]
MissesNow(p, answer) ==
  [misses EXCEPT ![p] = IF answer = "named" THEN 0 ELSE @ + 1]

AskHeader(answer) ==
  /\ pc = "header"
  /\ misses' = MissesNow(Provider, answer)
  /\ tries' = [tries EXCEPT ![Provider] = Append(@, answer)]
  /\ connects' = connects + 1
  /\ IF answer = "named" THEN Point("start", exit) /\ pc' = "speed"
     ELSE pc' = "echo" /\ UNCHANGED <<points, truth>>
  /\ UNCHANGED <<session, row, exit, opened, traffic>>

\* Send(kind) is one request of the session.
Send(kind) == traffic' = Append(traffic, kind)

\* echo, or identify_direct on the arm without a gateway.  It may fail, and it
\* may name an address and no timezone: an aligned batch is then passed over.
AskEcho(answered, zone) ==
  /\ pc = "echo"
  /\ Point("start", IF answered THEN exit ELSE NoAddress)
  /\ Send("echo")
  /\ pc' = IF session.arm = "align" /\ ~(answered /\ zone) THEN "unzoned" ELSE "speed"
  /\ UNCHANGED <<misses, session, row, exit, opened, tries, connects>>

\* The speed reading comes before the browser, for as long as the budget of the
\* run lasts, and before an aligned batch without a zone is passed over.
MeasureSpeed(taken) ==
  /\ pc \in {"speed", "unzoned"}
  /\ pc' = IF pc = "unzoned" THEN "head" ELSE "launch"
  /\ IF taken THEN Send("download") ELSE UNCHANGED traffic
  /\ UNCHANGED <<misses, session, points, row, exit, opened, tries, truth, connects>>
----------------------------------------------------------------------------
(* recheck_exit: the reply header or nothing.                              *)

RecheckLatching(when, answer) ==   \* a re-check counts its miss as identify does
  /\ IF Provider \in Headed /\ ~Latched(Provider)
     THEN /\ Point(when, Heard(answer))
          /\ misses' = MissesNow(Provider, answer)
          /\ connects' = connects + 1
     ELSE Point(when, NoAddress) /\ UNCHANGED <<misses, connects>>
  /\ UNCHANGED <<tries, traffic>>
RecheckEchoes(when, answer) ==     \* a re-check falls back on the echo service
  /\ Point(when, exit)
  /\ connects' = connects + 1
  /\ traffic' = IF answer = "named" THEN traffic ELSE Append(traffic, "echo")
  /\ UNCHANGED <<misses, tries>>
RecheckUnlatched(when, answer) ==  \* the latch is not read
  /\ IF Provider \in Headed
     THEN Point(when, Heard(answer)) /\ connects' = connects + 1
     ELSE Point(when, NoAddress) /\ UNCHANGED connects
  /\ UNCHANGED <<misses, tries, traffic>>
Recheck(when, answer) ==
  /\ IF Provider \in Headed /\ ~Latched(Provider)
     THEN Point(when, Heard(answer)) /\ connects' = connects + 1
     ELSE Point(when, NoAddress) /\ UNCHANGED connects
  /\ UNCHANGED <<misses, tries, traffic>>

\* The browser opens; an engine that can say where it leaves from is asked.
Launch ==
  /\ pc = "launch"
  /\ pc' = "middle" \/ (Checking /\ pc' = "guard")
  /\ UNCHANGED <<misses, session, points, row, exit, opened, tries, truth, connects, traffic>>

\* exit_ip: a page of its own loaded by the browser.  When it left from the
\* operator's own address the cell is stopped, with no session row.
CheckExit ==
  /\ pc = "guard"
  /\ pc' = "middle"
  /\ Send("check")
  /\ UNCHANGED <<misses, session, points, row, exit, opened, tries, truth, connects>>
WentDirect ==
  /\ pc = "guard"
  /\ pc' = "head"
  /\ Send("check")
  /\ UNCHANGED <<misses, session, points, row, exit, opened, tries, truth, connects>>

\* The session did not start, or died: the points it has are what is judged.
SessionDies ==
  /\ pc \in {"launch", "guard", "middle", "fetch", "end"}
  /\ pc' = "close"
  /\ UNCHANGED <<misses, session, points, row, exit, opened, tries, truth, connects, traffic>>

\* Before the query half way through the batch; never before the first one.
HalfWayOn == session.pos # 0 /\ session.pos >= session.size \div 2    \* >= for ==
HalfWay == session.pos # 0 /\ session.pos = session.size \div 2
Middle(answer) ==
  /\ pc = "middle"
  /\ session.pos < session.size
  /\ pc' = "fetch"
  /\ IF Checking /\ HalfWay THEN Recheck("middle", answer)
     ELSE UNCHANGED <<misses, points, tries, truth, connects, traffic>>
  /\ UNCHANGED <<session, row, exit, opened>>

Fetch ==
  /\ pc = "fetch"
  /\ session' = [session EXCEPT !.pos = @ + 1]
  /\ pc' = IF session'.pos = session.size THEN "end" ELSE "middle"
  /\ Send("page")
  /\ UNCHANGED <<misses, points, row, exit, opened, tries, truth, connects>>

End(answer) ==
  /\ pc = "end"
  /\ pc' = "close"
  /\ IF Checking THEN Recheck("end", answer)
     ELSE UNCHANGED <<misses, points, tries, truth, connects, traffic>>
  /\ UNCHANGED <<session, row, exit, opened>>
----------------------------------------------------------------------------
(* summarise_identity.                                                     *)

\* The points at which an address was read, and what they say.
Readings(seen) == {i \in DOMAIN seen : seen[i].ip # NoAddress}
SummaryOf(seen, read) ==
  LET first  == CHOOSE i \in read : \A j \in read : i <= j
      differ == {i \in read : seen[i].ip # seen[first].ip}
      moved  == CHOOSE i \in differ : \A j \in differ : i <= j
  IN  [points |-> Len(seen), read |-> Cardinality(read),
       stable |-> CASE Cardinality(read) < 2 -> "unknown"
                    [] Cardinality(read) >= 2 /\ differ = {} -> "yes"
                    [] OTHER -> "no",
       changed_at |-> IF Cardinality(read) < 2 \/ differ = {} THEN "never"
                      ELSE seen[moved].when]

SummariseUnread(seen) == SummaryOf(seen, DOMAIN seen)     \* a missing reading differs
Summarise(seen) == SummaryOf(seen, Readings(seen))

CloseSession ==
  /\ pc = "close"
  /\ row' = Summarise(points)
  /\ pc' = "head"
  /\ UNCHANGED <<misses, session, points, exit, opened, tries, truth, connects, traffic>>

Next ==
  \/ \E p \in Providers, arm \in Arms, size \in BatchSizes, e \in Addresses :
       OpenBatch(p, arm, size, e)
  \/ \E e \in Addresses : Rotate(e)
  \/ \E answer \in Answers : AskHeader(answer) \/ Middle(answer) \/ End(answer)
  \/ \E answered, zone \in BOOLEAN : AskEcho(answered, zone)
  \/ \E taken \in BOOLEAN : MeasureSpeed(taken)
  \/ Launch \/ CheckExit \/ WentDirect \/ SessionDies \/ Fetch \/ CloseSession

Spec == Init /\ [][Next]_vars
----------------------------------------------------------------------------
Labels == {"start", "middle", "end"}
TypeOK ==
  /\ misses \in [Providers -> 0..GiveUp]
  /\ pc \in {"head", "header", "echo", "speed", "unzoned", "launch", "guard",
             "middle", "fetch", "end", "close"}
  /\ session \in [provider : Providers, arm : Arms, size : BatchSizes \cup {0}, pos : Nat]
  /\ session.pos <= session.size
  /\ points \in Seq([when : Labels, ip : Addresses \cup {NoAddress}])
  /\ Len(points) <= 3
  /\ row \in [points : 0..3, read : 0..3, stable : {"unknown", "yes", "no"},
              changed_at : Labels \cup {"never"}]
  /\ exit \in Addresses \cup {NoAddress}
  /\ opened \in 0..MaxSessions
  /\ tries \in [Providers -> Seq(Answers)]
  /\ truth \in Seq(Addresses) /\ Len(truth) = Len(points)
  /\ connects \in 0..3
  /\ traffic \in Seq(Kinds)

\* A session is said to have moved only if it did: its exit differed at two of
\* the points, and the one named is the first at which it was seen to differ.
\* It is said to have held only if it was the same wherever it was read, and
\* it was read twice (summarise_identity: "unread is not unchanged").  Stated
\* on the exits the session had, at the moment its row is written.
Read == Readings(points)
VerdictIsTheSessions ==
  [][CloseSession =>
       /\ row'.stable = "no" =>
            \E i, j \in Read :
              /\ i < j /\ truth[i] # truth[j] /\ points[j].when = row'.changed_at
              /\ \A k \in Read : k < j => truth[k] = truth[i]
       /\ row'.stable = "yes" =>
            \E i, j \in Read : i < j /\ \A k \in Read : truth[k] = truth[i]
       /\ row'.stable = "unknown" => ~\E i, j \in Read : i < j]_vars

\* Beside its pages a session asks one thing of each kind at most, and all of
\* it before its first page: what is done to name the exit, to time it and to
\* check that the browser uses it never falls between two fetches of the batch
\* it is measured on, or twice on one exit (recheck_exit; benchmark.py,
\* "before any page was fetched").
ExitIsNotWarmed ==
  \A i, j \in DOMAIN traffic :
    i < j /\ traffic[j] # "page" => traffic[i] \notin {"page", traffic[j]}

\* A provider is given up on for its own misses, of identify and in a row:
\* neither another provider's nor a re-check's are counted, and a header that
\* came back is a new beginning (gateway.py, _header_misses).
TrailingMisses(s, n) ==
  /\ n <= Len(s)
  /\ \A i \in (Len(s) - n + 1)..Len(s) : s[i] # "named"
  /\ n < Len(s) => s[Len(s) - n] = "named"
MissesAreOwn == \A p \in Providers : TrailingMisses(tries[p], misses[p])

\* A provider given up on is charged no handshake any more, of whatever kind,
\* and it is given up on for good.
LatchSavesHandshakes ==
  [][\A p \in Providers : Latched(p) =>
       /\ Latched(p)'
       /\ Provider = p /\ pc # "head" => connects' = connects]_vars

\* "Consecutive CONNECT replies that carried no exit IP" (gateway.py): a
\* provider is given up on because of what it replied.
LatchMeansReplies ==
  \A p \in Providers : Latched(p) =>
    \A i \in (Len(tries[p]) - GiveUp + 1)..Len(tries[p]) : tries[p][i] = "unnamed"
====
