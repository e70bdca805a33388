---- MODULE Breaker ----
(***************************************************************************)
(* nmbench/breaker.py as pure operators on the objects' fields: an object  *)
(* of SessionBreaker or of TransportWatch is a record, and each method     *)
(* maps a record to the record it leaves behind.  The state machines that  *)
(* hold such records (SessionBreaker, BenchmarkRun) extend this module.    *)
(*                                                                         *)
(* An attempt is abstracted to its outcome, the pair (verdict, error) the  *)
(* breakers read off a row:                                                *)
(*   "ok"         the target served the query                              *)
(*   "refused"    any other answer of the target (block, captcha, ...)     *)
(*   "error"      verdict error, and the message names no transport layer  *)
(*   "transport"  verdict error, and the message holds a TRANSPORT_MARKERS *)
(*                entry: the attempt never reached the target              *)
(* A stop reason is abstracted to the branch that wrote it.                *)
(***************************************************************************)
EXTENDS Integers, Sequences, FiniteSets

CONSTANTS
  Limit,             \* SessionBreaker: limit, --breaker
  UnreachableLimit,  \* SessionBreaker: unreachable_limit
  Window,            \* TransportWatch: attempts looked at
  SharePct,          \* TransportWatch: share, in percent
  Spread             \* TransportWatch: distinct cells the errors must touch

ASSUME LimitAssumption == Limit \in Nat \ {0}
ASSUME UnreachableLimitAssumption == UnreachableLimit \in Nat \ {0}
ASSUME WatchAssumption ==
  /\ Window \in Nat \ {0}
  /\ SharePct \in 1..100
  /\ Spread \in Nat \ {0}

Outcomes == {"ok", "refused", "error", "transport"}
IsError(o) == o \in {"error", "transport"}

\* A marker of the transport layer in the error string: the attempt carries
\* no answer of the target's application layer.
IsTransportFailure(o) == o = "transport"

Running == "running"    \* reason = None, tripped = False
----------------------------------------------------------------------------
(* SessionBreaker                                                          *)

Classes == {"alive", "dead", "unreachable", "abandoned"}
SessionReasons == {Running, "dead", "unreachable", "abandoned",
                   "engine_unavailable", "went_direct"}

\* The fields of the object.  `tripped` is `reason` being set.
SessionBreakers ==
  [sessions : Nat, consecutive_dead : Nat, consecutive_unreachable : Nat,
   consecutive_abandoned : Nat, alive_sessions : Nat, arrived_sessions : Nat,
   session_ok : Nat, session_attempts : Nat, session_arrived : Nat,
   consecutive : Nat, reason : SessionReasons]

NewSessionBreaker ==
  [sessions |-> 0, consecutive_dead |-> 0, consecutive_unreachable |-> 0,
   consecutive_abandoned |-> 0, alive_sessions |-> 0, arrived_sessions |-> 0,
   session_ok |-> 0, session_attempts |-> 0, session_arrived |-> 0,
   consecutive |-> 0, reason |-> Running]

Tripped(b) == b.reason # Running

\* trip(): the first reason wins.  With a bug, the last one would.
TripLastWins(b, why) == [b EXCEPT !.reason = why]
Trip(b, why) == IF Tripped(b) THEN b ELSE [b EXCEPT !.reason = why]

\* record(): counts the attempt, and counts it as arrived unless it is an
\* error of the transport; it never trips.
RecordErrorNeverArrives(b, o) ==   \* every error is taken for the transport's
  [b EXCEPT !.session_attempts = @ + 1,
            !.session_arrived  = IF IsError(o) THEN @ ELSE @ + 1,
            !.session_ok       = IF o = "ok" THEN @ + 1 ELSE @,
            !.consecutive      = IF o = "ok" THEN 0 ELSE @ + 1]
Record(b, o) ==
  [b EXCEPT !.session_attempts = @ + 1,
            !.session_arrived  = IF IsError(o) /\ IsTransportFailure(o)
                                 THEN @ ELSE @ + 1,
            !.session_ok       = IF o = "ok" THEN @ + 1 ELSE @,
            !.consecutive      = IF o = "ok" THEN 0 ELSE @ + 1]

\* The classification end_session() returns for the session in flight.
ClassOf(b) ==
  CASE b.session_attempts = 0 -> "abandoned"
    [] b.session_attempts > 0 /\ b.session_ok > 0 -> "alive"
    [] b.session_attempts > 0 /\ b.session_ok = 0 /\ b.session_arrived > 0 -> "dead"
    [] OTHER -> "unreachable"

\* The counters after a session of class c.
ClearedKeepsArrived(b) ==          \* one counter of the session is not reset
  [b EXCEPT !.session_attempts = 0, !.session_ok = 0, !.consecutive = 0]
Cleared(b) == [b EXCEPT !.session_attempts = 0, !.session_ok = 0,
                        !.session_arrived = 0, !.consecutive = 0]

CountedKeepsUnreachable(b, c) ==   \* a dead session leaves the other streak alone
  IF c = "abandoned"
  THEN [Cleared(b) EXCEPT !.consecutive_abandoned = @ + 1]
  ELSE [Cleared(b) EXCEPT
         !.sessions = @ + 1,
         !.consecutive_abandoned = 0,
         !.alive_sessions = IF c = "alive" THEN @ + 1 ELSE @,
         !.arrived_sessions = IF c = "unreachable" THEN @ ELSE @ + 1,
         !.consecutive_dead = IF c = "alive" THEN 0 ELSE @ + 1,
         !.consecutive_unreachable = CASE c = "unreachable" -> @ + 1
                                       [] c = "dead" -> @
                                       [] OTHER -> 0]

Counted(b, c) ==
  IF c = "abandoned"
  THEN [Cleared(b) EXCEPT !.consecutive_abandoned = @ + 1]
  ELSE [Cleared(b) EXCEPT
         !.sessions = @ + 1,
         !.consecutive_abandoned = 0,
         !.alive_sessions = IF c = "alive" THEN @ + 1 ELSE @,
         !.arrived_sessions = IF c = "unreachable" THEN @ ELSE @ + 1,
         !.consecutive_dead = IF c = "alive" THEN 0 ELSE @ + 1,
         !.consecutive_unreachable = IF c = "unreachable" THEN @ + 1 ELSE 0]

\* The stop that a session of class c brings about, the counters being b's.
Unserved == {"dead", "unreachable"}
GaveUpLaunching(b, c) == c = "abandoned" /\ b.consecutive_abandoned >= UnreachableLimit
NothingArrives(b, c) == c \in Unserved /\ b.consecutive_unreachable >= UnreachableLimit
NothingServed(b, c) == c \in Unserved /\ b.consecutive_dead >= Limit

StopAfterDeadOnly(b, c) ==         \* the streak of unreached sessions is not looked at
  CASE GaveUpLaunching(b, c) -> "abandoned"
    [] NothingServed(b, c) -> "dead"
    [] OTHER -> Running
StopAfterDeadFirst(b, c) ==        \* the two tests in the other order
  CASE GaveUpLaunching(b, c) -> "abandoned"
    [] NothingServed(b, c) -> "dead"
    [] NothingArrives(b, c) /\ ~NothingServed(b, c) -> "unreachable"
    [] OTHER -> Running
StopAfterStrict(b, c) ==           \* > for >=
  CASE GaveUpLaunching(b, c) -> "abandoned"
    [] NothingArrives(b, c) -> "unreachable"
    [] NothingServed(b, c) /\ ~NothingArrives(b, c) /\ b.consecutive_dead > Limit -> "dead"
    [] OTHER -> Running

StopAfter(b, c) ==
  CASE GaveUpLaunching(b, c) -> "abandoned"
    [] NothingArrives(b, c) -> "unreachable"
    [] NothingServed(b, c) /\ ~NothingArrives(b, c) -> "dead"
    [] OTHER -> Running

EndSession(b) ==
  LET c == ClassOf(b)
      n == Counted(b, c)
      s == StopAfter(n, c)
  IN  IF s = Running THEN n ELSE Trip(n, s)

\* no_verdict: no attempt of this cell ever reached the application layer.
NoVerdictClosedOnly(b) == b.arrived_sessions = 0
NoVerdict(b) == b.arrived_sessions = 0 /\ b.session_arrived = 0
----------------------------------------------------------------------------
(* CircuitBreaker: stops a cell after its limit of failures in a row.      *)

NewCircuitBreaker == [consecutive |-> 0, reason |-> Running]

\* record(): counts on, and calls trip() again, once tripped.
CircuitRecordEveryFailure(b, served, limit) ==   \* a served probe resets nothing
  IF served THEN b
  ELSE [Trip(b, IF b.consecutive + 1 >= limit THEN "failures" ELSE Running)
          EXCEPT !.consecutive = @ + 1]
CircuitRecord(b, served, limit) ==
  IF served THEN [b EXCEPT !.consecutive = 0]
  ELSE [Trip(b, IF b.consecutive + 1 >= limit THEN "failures" ELSE Running)
          EXCEPT !.consecutive = @ + 1]
----------------------------------------------------------------------------
(* TransportWatch                                                          *)

NewWatch == [recent |-> <<>>, tripped |-> FALSE]

\* record(): a deque of maxlen Window; the two conditions are looked at only
\* once it is full, and nothing is recorded after the trip.
PushedUnbounded(recent, e) == Append(recent, e)   \* a deque without a maxlen
Pushed(recent, e) ==
  LET longer == Append(recent, e)
  IN  IF Len(longer) > Window THEN Tail(longer) ELSE longer

ErrorCells(recent) == {recent[i][1] : i \in {j \in DOMAIN recent : IsError(recent[j][2])}}
ErrorCount(recent) == Cardinality({j \in DOMAIN recent : IsError(recent[j][2])})

WatchIgnoresSpread(w, cell, o) ==
  LET recent == Pushed(w.recent, <<cell, o>>)
  IN  IF w.tripped THEN w
      ELSE [recent |-> recent,
            tripped |-> /\ Len(recent) = Window
                        /\ 100 * ErrorCount(recent) >= SharePct * Window]

WatchRecord(w, cell, o) ==
  LET recent == Pushed(w.recent, <<cell, o>>)
  IN  IF w.tripped THEN w
      ELSE [recent |-> recent,
            tripped |-> /\ Len(recent) = Window
                        /\ 100 * ErrorCount(recent) >= SharePct * Window
                        /\ Cardinality(ErrorCells(recent)) >= Spread]
====
