---- MODULE Relay ----
(***************************************************************************)
(* nmbench/relay.py and the loop that meters it: one Relay of one session, *)
(* its handler threads (one per accepted connection) and the runner's main *)
(* thread, which takes a snapshot before each fetch and posts the          *)
(* difference to that attempt's row (scripts/benchmark.py).                *)
(*                                                                         *)
(* Every block of code under `self._lock` is one step; a handler can be    *)
(* overtaken between any two of its steps.  A chunk of the stream counts   *)
(* as one byte, as does the head of a plain request; what the relay says   *)
(* to the gateway to open a tunnel, and to the browser of its own, is no   *)
(* part of the stream.  The relay does not look into a stream once it      *)
(* pumps, so neither does the model: what is sent on a plain connection    *)
(* kept alive after its first request is a chunk like any other.           *)
(***************************************************************************)
EXTENDS Integers, Sequences, FiniteSets, SequencesExt

CONSTANTS
  Conns,      \* the connections the browser opens, one handler each
  Exits,      \* exit addresses the gateway can name
  Prints,     \* JA4 values a ClientHello can have
  NoExit,     \* the reply names no exit
  Attempts,   \* bound: attempts of the session
  Chunks      \* bound: chunks sent over one connection

ASSUME RelayAssumption ==
  /\ IsFiniteSet(Conns)
  /\ NoExit \notin Exits
  /\ Attempts \in Nat
  /\ Chunks \in Nat

VARIABLES
  count,      \* the counters and lists under the lock
  conn,       \* where each handler stands
  serving,    \* the listening socket is open
  main,       \* the runner: "between" attempts, "fetching", "stopped"
  meter,      \* the snapshot of the attempt in hand
  rows,       \* what since() posted to each row
  delivered,  \* history: chunks the far end took, in part at least, per direction
  uncounted,  \* history: of those, the ones that no _count follows
  unposted,   \* history: chunks counted while no attempt was being metered
  named       \* history: exits of the accepted replies, in the order sent

vars == <<count, conn, serving, main, meter, rows, delivered, uncounted, unposted, named>>

Both == [up |-> 0, down |-> 0]
Plus(totals, dir) == [totals EXCEPT ![dir] = @ + 1]

\* A handler that is not running holds nothing.
Idle(place) == [at |-> place, path |-> "none", names |-> "none", host |-> <<>>,
                exit |-> NoExit, watching |-> FALSE, sent |-> 0]

Init ==
  /\ count = [up |-> 0, down |-> 0, tunnels |-> 0, failures |-> 0, blocked |-> 0,
              exits |-> <<>>, ja4 |-> <<>>]
  /\ conn = [c \in Conns |-> Idle("absent")]
  /\ serving = TRUE
  /\ main = "between"
  /\ meter = count
  /\ rows = <<>>
  /\ delivered = Both
  /\ uncounted = [up |-> {}, down |-> {}]
  /\ unposted = Both
  /\ named = <<>>

At(c, place) == conn[c].at = place
Goes(c, place) == conn' = [conn EXCEPT ![c].at = place]
Closed(c) == conn' = [conn EXCEPT ![c] = Idle("closed")]
Failed == count' = [count EXCEPT !.failures = @ + 1]
observer == <<serving, main, meter, rows>>
history == <<delivered, uncounted, unposted, named>>

\* The far end takes what is sent to it, and nothing counts it.
TakesUncounted(c, dir, what) ==
  /\ delivered' = Plus(delivered, dir)
  /\ uncounted' = [uncounted EXCEPT ![dir] = @ \cup {<<c, what>>}]
----------------------------------------------------------------------------
(* The host of a request line.  A line is a text: the words of it, each in *)
(* the case it is written in, and the marks between them.                  *)

Written(word, case) == <<word, case>>
Mark(mark) == Written(mark, "lower")
Lower(text) == [i \in DOMAIN text |-> Written(text[i][1], "lower")]

Has(text, mark) == \E i \in DOMAIN text : text[i] = Mark(mark)
First(text, mark) ==
  CHOOSE i \in DOMAIN text : text[i] = Mark(mark) /\ \A j \in 1..(i - 1) : text[j] # Mark(mark)
Final(text, mark) ==
  CHOOSE i \in DOMAIN text :
    text[i] = Mark(mark) /\ \A j \in (i + 1)..Len(text) : text[j] # Mark(mark)
Preceding(text, i) == SubSeq(text, 1, i - 1)
Following(text, i) == SubSeq(text, i + 1, Len(text))

HostAsWritten(authority) ==
  IF authority # <<>> /\ authority[1] = Mark("[")
  THEN SubSeq(authority, 2, First(authority, "]") - 1)
  ELSE IF Has(authority, ":") THEN Preceding(authority, Final(authority, ":")) ELSE authority
HostOf(authority) == Lower(HostAsWritten(authority))

AbsoluteUriHost(target) ==
  IF ~Has(target, "://") THEN <<>>
  ELSE LET rest      == Following(target, First(target, "://"))
           authority == IF Has(rest, "/") THEN Preceding(rest, First(rest, "/")) ELSE rest
       IN  HostOf(IF Has(authority, "@") THEN Following(authority, Final(authority, "@"))
                  ELSE authority)

HostAsked(path, target) == IF path = "connect" THEN HostOf(target) ELSE AbsoluteUriHost(target)

\* What a browser that knows it has a proxy writes for a host: an authority to
\* tunnel to, or an absolute address with whatever it has in front of the
\* authority and behind it.
Hosts == {"page", "vendor"}
Authorities(name) ==
  UNION {{<<word>>, <<word, Mark(":"), Mark("port")>>,
          <<Mark("["), word, Mark("]"), Mark(":"), Mark("port")>>} :
         word \in {Written(name, "lower"), Written(name, "upper")}}
Users ==
  {<<>>, <<Mark("user"), Mark(":"), Mark("pass"), Mark("@"), Mark("word"), Mark("@")>>}
Locations == {<<>>, <<Mark("/")>>, <<Mark("/"), Mark("@"), Mark(":"), Mark("://"), Mark("/")>>}
Absolute(user, authority, location) ==
  <<Mark("http"), Mark("://")>> \o user \o authority \o location
Targets(path, name) ==
  IF path = "connect" THEN Authorities(name)
  ELSE {Absolute(user, authority, location) :
          user \in Users, authority \in Authorities(name), location \in Locations}

\* A request: the host it is for, and the one the relay reads in it.
Asks ==
  UNION {{[path |-> path, names |-> name, host |-> HostAsked(path, target)] :
            target \in Targets(path, name)} :
         path \in {"connect", "plain"}, name \in Hosts}
----------------------------------------------------------------------------
(* _handle, up to the upstream connection.                                 *)

Accept(c, ask) ==
  /\ serving
  /\ At(c, "absent")
  /\ conn' = [conn EXCEPT ![c].at = "request", ![c].path = ask.path,
                          ![c].names = ask.names, ![c].host = ask.host]
  /\ UNCHANGED <<count, observer, history>>

\* The peer hung up, or never ended its header block.
NoHead(c) ==
  /\ At(c, "request")
  /\ Closed(c)
  /\ UNCHANGED <<count, observer, history>>

\* block_hosts, asked on both paths.
VENDOR_FETCH == {<<Written("vendor", "lower")>>}
Blocked(c) == conn[c].host \in VENDOR_FETCH

Refuse(c) ==
  /\ At(c, "request")
  /\ Blocked(c)
  /\ count' = [count EXCEPT !.blocked = @ + 1]
  /\ Closed(c)
  /\ UNCHANGED <<observer, history>>

Dial(c) ==
  /\ At(c, "request")
  /\ ~Blocked(c)
  /\ Goes(c, "dialled")
  /\ UNCHANGED <<count, observer, history>>

\* What ends a handler as a failure: the gateway unreachable, a CONNECT that
\* broke off or was not answered with 200, or the handler itself raising.
Fails(c) ==
  /\ \/ At(c, "request") /\ ~Blocked(c)
     \/ At(c, "dialled")
     \/ At(c, "pumping")
  /\ Failed
  /\ Closed(c)
  /\ UNCHANGED <<observer, history>>
----------------------------------------------------------------------------
(* _tunnel.                                                                *)

\* The gateway's 200, naming its exit or not.
Replied(c, exit) ==
  /\ At(c, "dialled")
  /\ conn[c].path = "connect"
  /\ conn' = [conn EXCEPT ![c].at = "replied", ![c].exit = exit]
  /\ named' = IF exit = NoExit THEN named ELSE Append(named, exit)
  /\ UNCHANGED <<count, observer, delivered, uncounted, unposted>>

\* The tunnel and its exit, under the lock.
WithExitUnnamed(exits, exit) == Append(exits, exit)     \* an empty header too
WithExitLastOnly(exits, exit) == IF exit = NoExit THEN exits ELSE <<exit>>
WithExit(exits, exit) ==
  IF exit = NoExit \/ (exits # <<>> /\ Last(exits) = exit) THEN exits
  ELSE Append(exits, exit)

Register(c) ==
  /\ At(c, "replied")
  /\ count' = [count EXCEPT !.tunnels = @ + 1, !.exits = WithExit(@, conn[c].exit)]
  /\ Goes(c, "established")
  /\ UNCHANGED <<observer, history>>

\* The client takes its own 200, or is gone by then.
ClientGone(c) ==
  /\ At(c, "established")
  /\ Closed(c)
  /\ UNCHANGED <<count, observer, history>>

StartPump(c) ==
  /\ At(c, "established")
  /\ conn' = [conn EXCEPT ![c].at = "pumping", ![c].watching = TRUE]
  /\ UNCHANGED <<count, observer, history>>
----------------------------------------------------------------------------
(* _forward: the rebuilt head of the request, then the pump, which has no  *)
(* hello to wait for.  Nothing counts the head.                            *)

Forward(c) ==
  /\ At(c, "dialled")
  /\ conn[c].path = "plain"
  /\ Goes(c, "pumping")
  /\ TakesUncounted(c, "up", "head")
  /\ UNCHANGED <<count, observer, unposted, named>>

\* The gateway goes away with part of the head.
ForwardBreaks(c) ==
  /\ At(c, "dialled")
  /\ conn[c].path = "plain"
  /\ Failed
  /\ Closed(c)
  /\ TakesUncounted(c, "up", "head")
  /\ UNCHANGED <<observer, unposted, named>>
----------------------------------------------------------------------------
(* _pump: a chunk is forwarded, then counted, and only then looked at.     *)

SendCounting(c, dir) ==            \* counted whether or not the peer took it
  /\ At(c, "pumping")
  /\ conn[c].sent < Chunks
  /\ conn' = [conn EXCEPT ![c].at = dir, ![c].sent = @ + 1]
  /\ \E taken \in {0, 1} : delivered' = [delivered EXCEPT ![dir] = @ + taken]
  /\ UNCHANGED <<count, observer, uncounted, unposted, named>>
Send(c, dir) ==
  /\ At(c, "pumping")
  /\ conn[c].sent < Chunks
  /\ conn' = [conn EXCEPT ![c].at = dir, ![c].sent = @ + 1]
  /\ delivered' = Plus(delivered, dir)
  /\ UNCHANGED <<count, observer, uncounted, unposted, named>>

\* sendall() raised when the far end had part of the chunk: the end of the
\* pump, quietly, and the part is not counted.
SendBreaks(c, dir) ==
  /\ At(c, "pumping")
  /\ Closed(c)
  /\ TakesUncounted(c, dir, "chunk")
  /\ UNCHANGED <<count, observer, unposted, named>>

Count(c, dir) ==
  /\ At(c, dir)
  /\ count' = Plus(count, dir)
  /\ unposted' = IF main = "fetching" THEN unposted ELSE Plus(unposted, dir)
  /\ Goes(c, IF dir = "up" /\ conn[c].watching THEN "counted" ELSE "pumping")
  /\ UNCHANGED <<observer, delivered, uncounted, named>>

\* The first record is whole: fingerprinted at most once per distinct value.
WithPrintFirst(seen, print) ==     \* the newest in front
  IF print \in Range(seen) THEN seen ELSE <<print>> \o seen
WithPrint(seen, print) ==
  IF print \in Range(seen) THEN seen ELSE Append(seen, print)

RecordHello(c, print) ==
  /\ At(c, "counted")
  /\ count' = [count EXCEPT !.ja4 = WithPrint(@, print)]
  /\ conn' = [conn EXCEPT ![c].at = "pumping", ![c].watching = FALSE]
  /\ UNCHANGED <<observer, history>>

\* Not complete yet, or not a handshake (or one that never ends, or one that
\* does not parse) and no longer waited for.
NoHello(c) ==
  /\ At(c, "counted")
  /\ \E still \in BOOLEAN :
       conn' = [conn EXCEPT ![c].at = "pumping", ![c].watching = still]
  /\ UNCHANGED <<count, observer, history>>

\* Either end closed, was idle too long, or did not take the chunk.
PumpEnds(c) ==
  /\ At(c, "pumping")
  /\ Closed(c)
  /\ UNCHANGED <<count, observer, history>>
----------------------------------------------------------------------------
(* The runner: snapshot(), fetch, since().                                 *)

SnapshotOnce ==                    \* one snapshot for the whole session
  /\ main = "between"
  /\ Len(rows) < Attempts
  /\ main' = "fetching"
  /\ meter' = IF rows = <<>> THEN count ELSE meter
  /\ UNCHANGED <<count, conn, serving, rows, history>>
Snapshot ==
  /\ main = "between"
  /\ Len(rows) < Attempts
  /\ main' = "fetching"
  /\ meter' = count
  /\ UNCHANGED <<count, conn, serving, rows, history>>

SinceMeter ==
  [up |-> count.up - meter.up, down |-> count.down - meter.down,
   tunnels |-> count.tunnels - meter.tunnels,
   failures |-> count.failures - meter.failures,
   blocked |-> count.blocked - meter.blocked,
   exits |-> SubSeq(count.exits, Len(meter.exits) + 1, Len(count.exits)),
   ja4 |-> count.ja4]

PostRow ==
  /\ main = "fetching"
  /\ main' = "between"
  /\ rows' = Append(rows, SinceMeter)
  /\ UNCHANGED <<count, conn, serving, meter, history>>

\* The session is over - after its batch, or because a fetch raised.  The
\* handlers are daemon threads: shutdown() does not wait for them.
Stop ==
  /\ main \in {"between", "fetching"}
  /\ main' = "stopped"
  /\ serving' = FALSE
  /\ unposted' = IF main = "between" THEN unposted
                 ELSE [up |-> unposted.up + count.up - meter.up,
                       down |-> unposted.down + count.down - meter.down]
  /\ UNCHANGED <<count, conn, meter, rows, delivered, uncounted, named>>

Handler(c) ==
  \/ \E ask \in Asks : Accept(c, ask)
  \/ NoHead(c) \/ Refuse(c) \/ Dial(c) \/ Fails(c)
  \/ \E exit \in Exits \cup {NoExit} : Replied(c, exit)
  \/ Register(c) \/ ClientGone(c) \/ StartPump(c) \/ Forward(c) \/ ForwardBreaks(c)
  \/ \E dir \in {"up", "down"} : Send(c, dir) \/ SendBreaks(c, dir) \/ Count(c, dir)
  \/ \E print \in Prints : RecordHello(c, print)
  \/ NoHello(c) \/ PumpEnds(c)

Next == (\E c \in Conns : Handler(c)) \/ Snapshot \/ PostRow \/ Stop

Spec == Init /\ [][Next]_vars
----------------------------------------------------------------------------
Totals == [up : Nat, down : Nat]
Pieces == Conns \X {"head", "chunk"}
Counters == [up : Nat, down : Nat, tunnels : Nat, failures : Nat, blocked : Nat,
             exits : Seq(Exits), ja4 : Seq(Prints)]
Places == {"absent", "request", "dialled", "replied", "established", "pumping",
           "up", "down", "counted", "closed"}
ConnStates == [at : Places, path : {"none", "connect", "plain"},
               names : {"none"} \cup Hosts,
               host : {<<>>} \cup {<<Written(name, "lower")>> : name \in Hosts},
               exit : Exits \cup {NoExit},
               watching : BOOLEAN, sent : 0..Chunks]

TypeOK ==
  /\ count \in Counters
  /\ conn \in [Conns -> ConnStates]
  /\ serving \in BOOLEAN
  /\ main \in {"between", "fetching", "stopped"}
  /\ meter \in Counters
  /\ rows \in Seq(Counters)
  /\ delivered \in Totals
  /\ uncounted \in [up : SUBSET Pieces, down : SUBSET Pieces]
  /\ unposted \in Totals
  /\ named \in Seq(Exits)

\* Nothing is counted twice, or counted without having been taken, however
\* the handlers interleave; and what is sent without being counted is, of one
\* connection, never more than the chunk it has just forwarded, the chunk its
\* pump ended in, and the head of its first request if that was a plain one.
InHand(dir) == Cardinality({c \in Conns : At(c, dir)})
CountedIsDelivered ==
  /\ \A dir \in {"up", "down"} :
       count[dir] + InHand(dir) + Cardinality(uncounted[dir]) = delivered[dir]
  /\ \A c \in Conns :
       /\ <<c, "chunk">> \in uncounted.up \cup uncounted.down => At(c, "closed")
       /\ <<c, "chunk">> \notin uncounted.up \cap uncounted.down
       /\ <<c, "head">> \in uncounted.up => At(c, "closed") \/ conn[c].path = "plain"
       /\ <<c, "head">> \notin uncounted.down

\* The rows and what was counted outside any attempt partition the session's
\* bytes: differencing posts every byte to one row at most, and to the row of
\* the attempt during which it was counted (relay.py, since).
Total(list) ==
  LET upto[n \in 0..Len(list)] == IF n = 0 THEN 0 ELSE upto[n - 1] + list[n]
  IN  upto[Len(list)]
Posted(dir) == Total([i \in DOMAIN rows |-> rows[i][dir]])
RowsPartition ==
  \A dir \in {"up", "down"} :
    IF main = "fetching" THEN Posted(dir) + unposted[dir] = meter[dir]
    ELSE Posted(dir) + unposted[dir] = count[dir]

\* A host on the list is refused on both paths, in whatever case, behind
\* whatever user and in front of whatever port or page it is written: no
\* connection asking for it is ever taken upstream (block_hosts).
VendorNeverDialled ==
  \A c \in Conns : conn[c].names = "vendor" =>
    conn[c].at \in {"request", "closed"} /\ conn[c].sent = 0

Sliced == Total([i \in DOMAIN rows |-> Len(rows[i].exits)])

\* A session that moved is visible in its rows: the list holds the exit of
\* every tunnel that was established, no two neighbours alike, and the slices
\* posted to the rows are together no longer than it: no exit is in two.
MovesAreVisible ==
  /\ \A c \in Conns : conn[c].at \in {"established", "pumping", "up", "down", "counted"}
       /\ conn[c].exit # NoExit => conn[c].exit \in Range(count.exits)
  /\ \A i \in 1..(Len(count.exits) - 1) : count.exits[i] # count.exits[i + 1]
  /\ Sliced <= Len(count.exits)

\* The fingerprint a row takes is the first of the list, and it stays the same
\* on every later row of the session (benchmark.py: "The first is taken rather
\* than the last so the value is stable across a session").
FirstPrintIsStable ==
  \A i, j \in DOMAIN rows : i < j => IsPrefix(rows[i].ja4, rows[j].ja4)

\* "Every distinct exit the gateway named, in the order it named them"
\* (relay.py, exits): once no reply is being handled, the list is the exits
\* in the order of their first replies.
ExitsInOrderNamed ==
  (\A c \in Conns : ~At(c, "replied")) =>
    \A i, j \in DOMAIN count.exits : i < j =>
      \E m, n \in DOMAIN named :
        m < n /\ named[m] = count.exits[i] /\ named[n] = count.exits[j]
====
