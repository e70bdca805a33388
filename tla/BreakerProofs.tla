---- MODULE BreakerProofs ----
(***************************************************************************)
(* What the methods of nmbench/breaker.py leave in each field of their     *)
(* object, for every value of the limits.  The proofs about one cell       *)
(* (SessionBreakerProofs) and about the run (BenchmarkRunProofs) cite it.  *)
(***************************************************************************)
EXTENDS Breaker, TLAPS

\* record() adds the attempt to the session in flight and touches neither
\* the sessions already judged nor the reason.
LEMMA RecordFields ==
  ASSUME NEW x \in SessionBreakers, NEW o \in Outcomes
  PROVE  LET r == Record(x, o)
         IN  /\ r \in SessionBreakers
             /\ r.sessions = x.sessions
             /\ r.consecutive_dead = x.consecutive_dead
             /\ r.consecutive_unreachable = x.consecutive_unreachable
             /\ r.consecutive_abandoned = x.consecutive_abandoned
             /\ r.arrived_sessions = x.arrived_sessions
             /\ r.reason = x.reason
             /\ r.session_attempts = x.session_attempts + 1
             /\ r.session_arrived = IF o = "transport" THEN x.session_arrived
                                    ELSE x.session_arrived + 1
             /\ r.session_ok = IF o = "ok" THEN x.session_ok + 1 ELSE x.session_ok
<1> DEFINE attempts == x.session_attempts + 1
           arrived  == IF o = "transport" THEN x.session_arrived ELSE x.session_arrived + 1
           ok       == IF o = "ok" THEN x.session_ok + 1 ELSE x.session_ok
           failures == IF o = "ok" THEN 0 ELSE x.consecutive + 1
<1>1. attempts \in Nat /\ arrived \in Nat /\ ok \in Nat /\ failures \in Nat
  BY DEF SessionBreakers
<1>2. Record(x, o) = [x EXCEPT !.session_attempts = attempts, !.session_arrived = arrived,
                               !.session_ok = ok, !.consecutive = failures]
  <2>1. (IsError(o) /\ IsTransportFailure(o)) <=> o = "transport"
    BY DEF IsError, IsTransportFailure
  <2>2. QED
    BY <2>1 DEF Record
<1> HIDE DEF attempts, arrived, ok, failures
<1>3. Record(x, o) \in SessionBreakers
  BY <1>1, <1>2 DEF SessionBreakers
<1>4. /\ Record(x, o).session_attempts = attempts
      /\ Record(x, o).session_arrived = arrived
      /\ Record(x, o).session_ok = ok
  BY <1>2 DEF SessionBreakers
<1>5. QED
  BY <1>2, <1>3, <1>4 DEF SessionBreakers, attempts, arrived, ok

\* trip() changes the reason only, and only if there is none.
LEMMA TripFields ==
  ASSUME NEW x \in SessionBreakers, NEW why \in SessionReasons
  PROVE  /\ Trip(x, why) \in SessionBreakers
         /\ Trip(x, why) = [x EXCEPT !.reason = IF x.reason = Running THEN why ELSE x.reason]
  BY DEF Trip, Tripped, SessionBreakers, SessionReasons

\* A session is classified as one of four things.
LEMMA ClassOfType ==
  ASSUME NEW x \in SessionBreakers
  PROVE  /\ ClassOf(x) \in Classes
         /\ ClassOf(x) = "abandoned" <=> x.session_attempts = 0
         /\ ClassOf(x) = "alive" => x.session_ok > 0
         /\ ClassOf(x) = "dead" => x.session_ok = 0 /\ x.session_arrived > 0
         /\ ClassOf(x) = "unreachable" => x.session_ok = 0 /\ x.session_arrived = 0
  BY DEF ClassOf, Classes, SessionBreakers

\* The six counters end_session() writes stay natural numbers.
LEMMA CountersStored ==
  ASSUME NEW x \in SessionBreakers, NEW s \in Nat, NEW v \in Nat, NEW r \in Nat,
         NEW d \in Nat, NEW u \in Nat
  PROVE  [x EXCEPT !.sessions = s, !.consecutive_abandoned = 0, !.alive_sessions = v,
                   !.arrived_sessions = r, !.consecutive_dead = d,
                   !.consecutive_unreachable = u] \in SessionBreakers
  BY DEF SessionBreakers

\* The counters after a session of class c.
LEMMA CountedFields ==
  ASSUME NEW x \in SessionBreakers, NEW c \in Classes
  PROVE  LET n == Counted(x, c)
         IN  /\ n \in SessionBreakers
             /\ n.session_attempts = 0 /\ n.session_ok = 0 /\ n.session_arrived = 0
             /\ n.reason = x.reason
             /\ c = "abandoned" =>
                  /\ n.sessions = x.sessions
                  /\ n.consecutive_abandoned = x.consecutive_abandoned + 1
                  /\ n.consecutive_dead = x.consecutive_dead
                  /\ n.consecutive_unreachable = x.consecutive_unreachable
                  /\ n.arrived_sessions = x.arrived_sessions
             /\ c # "abandoned" =>
                  /\ n.sessions = x.sessions + 1
                  /\ n.consecutive_abandoned = 0
                  /\ n.consecutive_dead = IF c = "alive" THEN 0 ELSE x.consecutive_dead + 1
                  /\ n.consecutive_unreachable =
                       IF c = "unreachable" THEN x.consecutive_unreachable + 1 ELSE 0
                  /\ n.arrived_sessions =
                       IF c = "unreachable" THEN x.arrived_sessions ELSE x.arrived_sessions + 1
<1> DEFINE z == Cleared(x)
<1>1. /\ z \in SessionBreakers
      /\ z = [x EXCEPT !.session_attempts = 0, !.session_ok = 0,
                       !.session_arrived = 0, !.consecutive = 0]
  BY DEF Cleared, SessionBreakers
<1>2. /\ z.session_attempts = 0 /\ z.session_ok = 0 /\ z.session_arrived = 0
      /\ z.reason = x.reason /\ z.sessions = x.sessions
      /\ z.consecutive_abandoned = x.consecutive_abandoned
      /\ z.consecutive_dead = x.consecutive_dead
      /\ z.consecutive_unreachable = x.consecutive_unreachable
      /\ z.arrived_sessions = x.arrived_sessions
  BY <1>1 DEF SessionBreakers
<1> HIDE DEF z
<1>3. CASE c = "abandoned"
  <2>1. Counted(x, c) = [z EXCEPT !.consecutive_abandoned = z.consecutive_abandoned + 1]
    BY <1>3 DEF Counted, z
  <2> DEFINE more == z.consecutive_abandoned + 1
  <2>2. more \in Nat
    BY <1>1 DEF SessionBreakers
  <2>3. Counted(x, c) = [z EXCEPT !.consecutive_abandoned = more]
    BY <2>1
  <2> HIDE DEF more
  <2>4. Counted(x, c) \in SessionBreakers
    BY <1>1, <2>2, <2>3 DEF SessionBreakers
  <2>5. QED
    BY <1>1, <1>2, <1>3, <2>3, <2>4 DEF SessionBreakers, more
<1>4. CASE c # "abandoned"
  <2> DEFINE sessions == z.sessions + 1
             alive    == IF c = "alive" THEN z.alive_sessions + 1 ELSE z.alive_sessions
             arrived  == IF c = "unreachable" THEN z.arrived_sessions
                         ELSE z.arrived_sessions + 1
             dead     == IF c = "alive" THEN 0 ELSE z.consecutive_dead + 1
             silent   == IF c = "unreachable" THEN z.consecutive_unreachable + 1 ELSE 0
  <2>1. /\ sessions \in Nat /\ alive \in Nat /\ arrived \in Nat
        /\ dead \in Nat /\ silent \in Nat
    BY <1>1 DEF SessionBreakers
  <2>2. Counted(x, c) =
          [z EXCEPT !.sessions = sessions, !.consecutive_abandoned = 0,
                    !.alive_sessions = alive, !.arrived_sessions = arrived,
                    !.consecutive_dead = dead, !.consecutive_unreachable = silent]
    BY <1>4 DEF Counted, z
  <2> HIDE DEF sessions, alive, arrived, dead, silent
  <2>3. Counted(x, c) \in SessionBreakers
    <3>1. z \in SessionBreakers
      BY <1>1
    <3>2. [z EXCEPT !.sessions = sessions, !.consecutive_abandoned = 0,
                    !.alive_sessions = alive, !.arrived_sessions = arrived,
                    !.consecutive_dead = dead, !.consecutive_unreachable = silent]
            \in SessionBreakers
      BY ONLY <3>1, <2>1, CountersStored
    <3>3. QED
      BY ONLY <2>2, <3>2
  <2>4. QED
    BY <1>1, <1>2, <1>4, <2>2, <2>3
    DEF SessionBreakers, sessions, alive, arrived, dead, silent
<1>5. QED
  BY <1>3, <1>4

\* Which stop a session of class c brings about.
LEMMA StopAfterValue ==
  ASSUME NEW n \in SessionBreakers, NEW c \in Classes
  PROVE  /\ StopAfter(n, c) \in {Running, "abandoned", "unreachable", "dead"}
         /\ c = "abandoned" =>
              StopAfter(n, c) = IF n.consecutive_abandoned >= UnreachableLimit
                                THEN "abandoned" ELSE Running
         /\ c = "alive" => StopAfter(n, c) = Running
         /\ c \in Unserved =>
              StopAfter(n, c) =
                IF n.consecutive_unreachable >= UnreachableLimit THEN "unreachable"
                ELSE IF n.consecutive_dead >= Limit THEN "dead" ELSE Running
  BY UnreachableLimitAssumption, LimitAssumption
  DEF StopAfter, GaveUpLaunching, NothingArrives, NothingServed, Unserved,
      Classes, SessionBreakers, Running

\* end_session(): the counters of the class, and its stop unless the cell
\* has a reason already.
LEMMA EndSessionFields ==
  ASSUME NEW x \in SessionBreakers
  PROVE  LET c == ClassOf(x)
             n == Counted(x, c)
             e == EndSession(x)
         IN  /\ e \in SessionBreakers
             /\ e.sessions = n.sessions
             /\ e.consecutive_dead = n.consecutive_dead
             /\ e.consecutive_unreachable = n.consecutive_unreachable
             /\ e.consecutive_abandoned = n.consecutive_abandoned
             /\ e.arrived_sessions = n.arrived_sessions
             /\ e.session_attempts = 0 /\ e.session_ok = 0 /\ e.session_arrived = 0
             /\ e.reason = IF x.reason = Running THEN StopAfter(n, c) ELSE x.reason
<1> DEFINE c == ClassOf(x)
           n == Counted(x, c)
<1>1. c \in Classes
  BY ClassOfType
<1>2. n \in SessionBreakers /\ n.reason = x.reason
      /\ n.session_attempts = 0 /\ n.session_ok = 0 /\ n.session_arrived = 0
  BY <1>1, CountedFields
<1>3. StopAfter(n, c) \in {Running, "abandoned", "unreachable", "dead"}
  BY <1>1, <1>2, StopAfterValue
<1>4. StopAfter(n, c) \in SessionReasons
  BY <1>3 DEF SessionReasons
<1>5. Trip(n, StopAfter(n, c)) =
        [n EXCEPT !.reason = IF n.reason = Running THEN StopAfter(n, c) ELSE n.reason]
      /\ Trip(n, StopAfter(n, c)) \in SessionBreakers
  BY <1>2, <1>4, TripFields
<1>6. EndSession(x) = IF StopAfter(n, c) = Running THEN n ELSE Trip(n, StopAfter(n, c))
  BY DEF EndSession
<1> HIDE DEF c, n
<1>7. QED
  <2>1. CASE StopAfter(n, c) = Running
    BY <2>1, <1>2, <1>6 DEF c, n
  <2>2. CASE StopAfter(n, c) # Running
    BY <2>2, <1>2, <1>5, <1>6 DEF c, n, SessionBreakers
  <2>3. QED
    BY <2>1, <2>2
====
