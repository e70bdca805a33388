---- MODULE SessionBreakerProofs ----
(***************************************************************************)
(* Proofs about SessionBreaker, for every limit, batch size and number of  *)
(* batches: its type, the inductive invariant behind its safety            *)
(* properties, and that its counters implement CellVerdict, the judgement  *)
(* on the list of sessions.  What the methods themselves do is in          *)
(* BreakerProofs.                                                          *)
(***************************************************************************)
EXTENDS SessionBreaker, BreakerProofs

Unreached == {"unreachable"}
Measured == {"alive", "dead", "unreachable"}
----------------------------------------------------------------------------
(* Streaks: the run of sessions of some classes at the end of the list.    *)

\* One more session of the classes makes the run one longer.
LEMMA StreakGrows ==
  ASSUME NEW S, NEW s \in Seq(S), NEW n \in Nat, NEW K, NEW c \in S,
         IsStreak(s, n, K), c \in K
  PROVE  IsStreak(Append(s, c), n + 1, K)
  BY DEF IsStreak

\* A session of another class ends it.
LEMMA StreakBroken ==
  ASSUME NEW S, NEW s \in Seq(S), NEW K, NEW c \in S, c \notin K
  PROVE  IsStreak(Append(s, c), 0, K)
  BY DEF IsStreak

\* The list ends with k of the classes exactly when the run is that long.
LEMMA StreakMeasures ==
  ASSUME NEW S, NEW s \in Seq(S), NEW n \in Nat, NEW k \in Nat, NEW K,
         IsStreak(s, n, K)
  PROVE  CV!EndsWith(s, k, K) <=> k <= n
<1>1. ASSUME k <= n
      PROVE  CV!EndsWith(s, k, K)
  BY <1>1 DEF IsStreak, CV!EndsWith
<1>2. ASSUME k > n, CV!EndsWith(s, k, K)
      PROVE  FALSE
  <2>1. n < Len(s) /\ s[Len(s) - n] \notin K
    BY <1>2 DEF IsStreak, CV!EndsWith
  <2>2. Len(s) - n \in (Len(s) - k + 1)..Len(s)
    BY <1>2, <2>1
  <2>3. QED
    BY <1>2, <2>1, <2>2 DEF CV!EndsWith
<1>3. QED
  BY <1>1, <1>2
----------------------------------------------------------------------------
(* The inductive invariant.                                                *)

\* A session counts no more answers than attempts, and between two sessions
\* there is nothing in its counters.
SessionInv ==
  /\ b.session_ok <= b.session_arrived
  /\ b.session_arrived <= b.session_attempts
  /\ phase # "open" => b.session_attempts = 0

\* Where the cell stands once it has a reason: a session is open only without
\* one, and only an engine that did not start leaves a session to close.
ReasonInv ==
  /\ phase = "open" => b.reason = Running
  /\ phase = "failed" => b.reason = "engine_unavailable"

\* A cell that runs is below each of its limits, and a cell stopped as
\* refused was stopped at the limit.
LimitInv ==
  /\ b.consecutive_dead <= Limit
  /\ b.reason = Running =>
       /\ b.consecutive_dead < Limit
       /\ b.consecutive_unreachable < UnreachableLimit
       /\ b.consecutive_abandoned < UnreachableLimit
  /\ b.reason = "dead" =>
       /\ b.consecutive_dead = Limit
       /\ b.consecutive_unreachable < UnreachableLimit

\* What was sent since a session served something is the closed sessions of
\* the run of dead ones, at most a batch each, and the session in flight.
AskedInv == asked <= b.consecutive_dead * BatchSize + b.session_attempts

ReachedInv == reached <=> b.arrived_sessions > 0 \/ b.session_arrived > 0

IInv ==
  /\ TypeOK
  /\ SessionInv
  /\ ReasonInv
  /\ LimitInv
  /\ AskedInv
  /\ ReachedInv
  /\ CountersAreStreaks

\* Closing a session that sent nothing counts it and, when a run of them is
\* too long and nothing else has stopped the cell, stops it.
LEMMA CloseAbandoned ==
  ASSUME TypeOK, CloseSession, ClassOf(b) = "abandoned"
  PROVE  /\ b' \in SessionBreakers
         /\ b.session_attempts = 0
         /\ b'.session_attempts = 0 /\ b'.session_ok = 0 /\ b'.session_arrived = 0
         /\ b'.sessions = b.sessions
         /\ b'.consecutive_dead = b.consecutive_dead
         /\ b'.consecutive_unreachable = b.consecutive_unreachable
         /\ b'.consecutive_abandoned = b.consecutive_abandoned + 1
         /\ b'.arrived_sessions = b.arrived_sessions
         /\ b'.reason = IF b.reason = Running
                           /\ b.consecutive_abandoned + 1 >= UnreachableLimit
                        THEN "abandoned" ELSE b.reason
         /\ phase' = "between"
         /\ UNCHANGED <<opened, measured, asked, reached>>
<1>1. b \in SessionBreakers /\ "abandoned" \in Classes
  BY DEF TypeOK, Classes
<1>2. b' = EndSession(b)
  BY DEF CloseSession
<1>3. b.session_attempts = 0
  BY <1>1, ClassOfType
<1> DEFINE n == Counted(b, "abandoned")
<1>4. /\ n \in SessionBreakers /\ n.reason = b.reason /\ n.sessions = b.sessions
      /\ n.consecutive_abandoned = b.consecutive_abandoned + 1
      /\ n.consecutive_dead = b.consecutive_dead
      /\ n.consecutive_unreachable = b.consecutive_unreachable
      /\ n.arrived_sessions = b.arrived_sessions
  BY <1>1, CountedFields
<1>5. StopAfter(n, "abandoned") =
        IF n.consecutive_abandoned >= UnreachableLimit THEN "abandoned" ELSE Running
  BY <1>1, <1>4, StopAfterValue
<1> HIDE DEF n
<1>6. /\ b' \in SessionBreakers
      /\ b'.sessions = n.sessions
      /\ b'.consecutive_dead = n.consecutive_dead
      /\ b'.consecutive_unreachable = n.consecutive_unreachable
      /\ b'.consecutive_abandoned = n.consecutive_abandoned
      /\ b'.arrived_sessions = n.arrived_sessions
      /\ b'.session_attempts = 0 /\ b'.session_ok = 0 /\ b'.session_arrived = 0
      /\ b'.reason = IF b.reason = Running THEN StopAfter(n, "abandoned") ELSE b.reason
  BY <1>1, <1>2, EndSessionFields DEF n
<1>7. QED
  BY <1>3, <1>4, <1>5, <1>6 DEF CloseSession

\* Closing a session that asked the target something appends its class to the
\* list, moves the two streaks, and stops the cell when one is long enough.
LEMMA CloseMeasured ==
  ASSUME TypeOK, CloseSession, ClassOf(b) # "abandoned"
  PROVE  LET c == ClassOf(b)
         IN  /\ c \in Measured
             /\ b' \in SessionBreakers
             /\ b.session_attempts # 0
             /\ b'.session_attempts = 0 /\ b'.session_ok = 0 /\ b'.session_arrived = 0
             /\ b'.sessions = b.sessions + 1
             /\ b'.consecutive_abandoned = 0
             /\ b'.consecutive_dead = IF c = "alive" THEN 0 ELSE b.consecutive_dead + 1
             /\ b'.consecutive_unreachable =
                  IF c = "unreachable" THEN b.consecutive_unreachable + 1 ELSE 0
             /\ b'.arrived_sessions =
                  IF c = "unreachable" THEN b.arrived_sessions ELSE b.arrived_sessions + 1
             /\ b.reason = Running =>
                  b'.reason = IF c = "alive" THEN Running
                              ELSE IF b'.consecutive_unreachable >= UnreachableLimit
                              THEN "unreachable"
                              ELSE IF b'.consecutive_dead >= Limit THEN "dead"
                              ELSE Running
             /\ phase' = "between"
             /\ measured' = Append(measured, c)
             /\ asked' = IF c = "alive" THEN 0 ELSE asked
             /\ UNCHANGED <<opened, reached>>
<1> DEFINE c == ClassOf(b)
           n == Counted(b, c)
<1>1. b \in SessionBreakers
  BY DEF TypeOK
<1>2. c \in Classes /\ c # "abandoned" /\ b.session_attempts # 0
  BY <1>1, ClassOfType
<1>3. c \in Measured /\ (c # "alive" => c \in Unserved)
  BY <1>2 DEF Classes, Measured, Unserved
<1>4. b' = EndSession(b)
  BY DEF CloseSession
<1>5. /\ b' \in SessionBreakers
      /\ b'.sessions = n.sessions
      /\ b'.consecutive_dead = n.consecutive_dead
      /\ b'.consecutive_unreachable = n.consecutive_unreachable
      /\ b'.consecutive_abandoned = n.consecutive_abandoned
      /\ b'.arrived_sessions = n.arrived_sessions
      /\ b'.session_attempts = 0 /\ b'.session_ok = 0 /\ b'.session_arrived = 0
      /\ b'.reason = IF b.reason = Running THEN StopAfter(n, c) ELSE b.reason
  BY <1>1, <1>4, EndSessionFields
<1>6. /\ phase' = "between"
      /\ measured' = Append(measured, c)
      /\ asked' = IF c = "alive" THEN 0 ELSE asked
      /\ UNCHANGED <<opened, reached>>
  BY <1>2 DEF CloseSession
<1> HIDE DEF c
<1>7. /\ n \in SessionBreakers
      /\ n.sessions = b.sessions + 1
      /\ n.consecutive_abandoned = 0
      /\ n.consecutive_dead = IF c = "alive" THEN 0 ELSE b.consecutive_dead + 1
      /\ n.consecutive_unreachable =
           IF c = "unreachable" THEN b.consecutive_unreachable + 1 ELSE 0
      /\ n.arrived_sessions =
           IF c = "unreachable" THEN b.arrived_sessions ELSE b.arrived_sessions + 1
  BY <1>1, <1>2, CountedFields
<1> HIDE DEF n
<1>8. StopAfter(n, c) = IF c = "alive" THEN Running
                        ELSE IF n.consecutive_unreachable >= UnreachableLimit
                        THEN "unreachable"
                        ELSE IF n.consecutive_dead >= Limit THEN "dead"
                        ELSE Running
  BY <1>2, <1>3, <1>7, StopAfterValue
<1>9. QED
  BY <1>2, <1>3, <1>5, <1>6, <1>7, <1>8 DEF c
----------------------------------------------------------------------------
(* The invariant holds of the new object and every step keeps it.          *)

\* A new object has counted nothing.
LEMMA InitInvariant == Init => IInv
<1> SUFFICES ASSUME Init
             PROVE  IInv
  OBVIOUS
<1>1. /\ b.session_ok = 0 /\ b.session_arrived = 0 /\ b.session_attempts = 0
      /\ b.consecutive_dead = 0 /\ b.consecutive_unreachable = 0
      /\ b.consecutive_abandoned = 0 /\ b.arrived_sessions = 0 /\ b.sessions = 0
      /\ b.reason = Running
  BY DEF Init, NewSessionBreaker
<1>2. b \in SessionBreakers
  BY DEF Init, NewSessionBreaker, SessionBreakers, SessionReasons
<1>3. TypeOK
  <2>1. reached \in BOOLEAN
    BY Zenon DEF Init
  <2>2. phase = "between" /\ opened = 0 /\ asked = 0 /\ measured = <<>>
    BY DEF Init
  <2>3. QED
    BY <1>1, <1>2, <2>1, <2>2, BatchAssumption DEF TypeOK
<1>4. SessionInv /\ ReasonInv /\ ReachedInv
  BY <1>1 DEF Init, SessionInv, ReasonInv, ReachedInv
<1>5. LimitInv
  BY <1>1, LimitAssumption, UnreachableLimitAssumption DEF LimitInv, Running
<1>6. AskedInv
  BY <1>1, BatchAssumption DEF Init, AskedInv
<1>7. CountersAreStreaks
  BY <1>1 DEF Init, CountersAreStreaks, IsStreak
<1>8. QED
  BY <1>3, <1>4, <1>5, <1>6, <1>7 DEF IInv

\* A query of the batch: only the session in flight changes.
LEMMA AttemptInvariant ==
  ASSUME IInv, NEW o \in Outcomes, Attempt(o)
  PROVE  IInv'
<1>1. TypeOK /\ b \in SessionBreakers /\ b' = Record(b, o)
      /\ phase = "open" /\ phase' = "open" /\ b.session_attempts < BatchSize
      /\ asked' = asked + 1 /\ reached' = (reached \/ o # "transport")
      /\ opened' = opened /\ measured' = measured
  BY DEF IInv, TypeOK, Attempt
<1>2. /\ b' \in SessionBreakers
      /\ b'.sessions = b.sessions
      /\ b'.consecutive_dead = b.consecutive_dead
      /\ b'.consecutive_unreachable = b.consecutive_unreachable
      /\ b'.consecutive_abandoned = b.consecutive_abandoned
      /\ b'.arrived_sessions = b.arrived_sessions
      /\ b'.reason = b.reason
      /\ b'.session_attempts = b.session_attempts + 1
      /\ b'.session_arrived = IF o = "transport" THEN b.session_arrived
                              ELSE b.session_arrived + 1
      /\ b'.session_ok = IF o = "ok" THEN b.session_ok + 1 ELSE b.session_ok
  BY <1>1, RecordFields
<1>3. /\ b.session_attempts \in Nat /\ b.session_arrived \in Nat /\ b.session_ok \in Nat
      /\ b.arrived_sessions \in Nat /\ b.consecutive_dead \in Nat
  BY <1>1 DEF SessionBreakers
<1>4. TypeOK'
  BY <1>1, <1>2, <1>3, BatchAssumption DEF TypeOK
<1>5. SessionInv'
  BY <1>1, <1>2, <1>3 DEF IInv, SessionInv
<1>6. ReasonInv' /\ LimitInv'
  BY <1>1, <1>2 DEF IInv, ReasonInv, LimitInv
<1>7. AskedInv'
  <2>1. b.consecutive_dead * BatchSize \in Nat /\ asked \in Nat
    BY <1>1, <1>3, BatchAssumption DEF TypeOK
  <2>2. QED
    BY <2>1, <1>1, <1>2, <1>3 DEF IInv, AskedInv
<1>8. ReachedInv'
  <2>1. o # "transport" => b'.session_arrived > 0
    BY <1>2, <1>3
  <2>2. o = "transport" => b'.session_arrived = b.session_arrived
    BY <1>2
  <2>3. reached <=> b.arrived_sessions > 0 \/ b.session_arrived > 0
    BY DEF IInv, ReachedInv
  <2>4. reached' <=> reached \/ o # "transport"
    BY <1>1, Zenon
  <2>5. QED
    BY <1>2, <2>1, <2>2, <2>3, <2>4 DEF ReachedInv
<1>9. CountersAreStreaks'
  BY <1>1, <1>2 DEF IInv, CountersAreStreaks
<1>10. QED
  BY <1>4, <1>5, <1>6, <1>7, <1>8, <1>9 DEF IInv

\* A trip from outside: the session sent nothing, and only the reason changes.
LEMMA TripInvariant ==
  ASSUME IInv, NEW why \in {"engine_unavailable", "went_direct"},
         phase = "open", b.session_attempts = 0, b' = Trip(b, why),
         \/ phase' = "between"
         \/ phase' = "failed" /\ why = "engine_unavailable",
         UNCHANGED <<opened, measured, asked, reached>>
  PROVE  IInv'
<1>1. TypeOK /\ b \in SessionBreakers /\ b.reason = Running /\ why \in SessionReasons
  BY DEF IInv, TypeOK, ReasonInv, SessionReasons
<1>2. b' \in SessionBreakers /\ b' = [b EXCEPT !.reason = why]
  BY <1>1, TripFields
<1>3. /\ b'.reason = why
      /\ b'.sessions = b.sessions
      /\ b'.consecutive_dead = b.consecutive_dead
      /\ b'.consecutive_unreachable = b.consecutive_unreachable
      /\ b'.arrived_sessions = b.arrived_sessions
      /\ b'.session_attempts = b.session_attempts
      /\ b'.session_arrived = b.session_arrived
      /\ b'.session_ok = b.session_ok
  BY <1>1, <1>2 DEF SessionBreakers
<1>4. TypeOK'
  BY <1>1, <1>2, <1>3 DEF TypeOK
<1>5. SessionInv' /\ AskedInv' /\ ReachedInv'
  BY <1>3 DEF IInv, SessionInv, AskedInv, ReachedInv
<1>6. ReasonInv' /\ LimitInv'
  BY <1>3 DEF IInv, ReasonInv, LimitInv, Running
<1>7. CountersAreStreaks'
  BY <1>3 DEF IInv, CountersAreStreaks
<1>8. QED
  BY <1>4, <1>5, <1>6, <1>7 DEF IInv

\* end_session() on a session that sent nothing.
LEMMA CloseAbandonedInvariant ==
  ASSUME IInv, CloseSession, ClassOf(b) = "abandoned"
  PROVE  IInv'
<1>1. TypeOK
  BY DEF IInv
<1>2. /\ b' \in SessionBreakers
      /\ b.session_attempts = 0
      /\ b'.session_attempts = 0 /\ b'.session_ok = 0 /\ b'.session_arrived = 0
      /\ b'.sessions = b.sessions
      /\ b'.consecutive_dead = b.consecutive_dead
      /\ b'.consecutive_unreachable = b.consecutive_unreachable
      /\ b'.consecutive_abandoned = b.consecutive_abandoned + 1
      /\ b'.arrived_sessions = b.arrived_sessions
      /\ b'.reason = IF b.reason = Running
                        /\ b.consecutive_abandoned + 1 >= UnreachableLimit
                     THEN "abandoned" ELSE b.reason
      /\ phase' = "between"
      /\ UNCHANGED <<opened, measured, asked, reached>>
  BY <1>1, CloseAbandoned
<1>3. /\ b.session_arrived = 0 /\ b.consecutive_abandoned \in Nat
      /\ b.session_ok \in Nat
  BY <1>1, <1>2 DEF IInv, TypeOK, SessionInv, SessionBreakers
<1>4. TypeOK'
  BY <1>1, <1>2, BatchAssumption DEF TypeOK
<1>5. SessionInv' /\ ReasonInv'
  BY <1>2 DEF SessionInv, ReasonInv
<1>6. LimitInv'
  <2>1. b'.reason = Running =>
          b.reason = Running /\ b'.consecutive_abandoned < UnreachableLimit
    BY <1>2, <1>3, UnreachableLimitAssumption DEF Running
  <2>2. b'.reason = "dead" => b.reason = "dead"
    BY <1>2
  <2>3. QED
    BY <1>2, <2>1, <2>2 DEF IInv, LimitInv
<1>7. AskedInv' /\ CountersAreStreaks'
  BY <1>2 DEF IInv, AskedInv, CountersAreStreaks
<1>8. ReachedInv'
  BY <1>2, <1>3 DEF IInv, ReachedInv
<1>9. QED
  BY <1>4, <1>5, <1>6, <1>7, <1>8 DEF IInv

\* end_session() on a session that asked the target something.
LEMMA CloseMeasuredInvariant ==
  ASSUME IInv, CloseSession, ClassOf(b) # "abandoned"
  PROVE  IInv'
<1> DEFINE c == ClassOf(b)
<1>1. TypeOK /\ b \in SessionBreakers
  BY DEF IInv, TypeOK
<1>2. /\ c \in Measured
      /\ b' \in SessionBreakers
      /\ b.session_attempts # 0
      /\ b'.session_attempts = 0 /\ b'.session_ok = 0 /\ b'.session_arrived = 0
      /\ b'.sessions = b.sessions + 1
      /\ b'.consecutive_abandoned = 0
      /\ b'.consecutive_dead = IF c = "alive" THEN 0 ELSE b.consecutive_dead + 1
      /\ b'.consecutive_unreachable =
           IF c = "unreachable" THEN b.consecutive_unreachable + 1 ELSE 0
      /\ b'.arrived_sessions =
           IF c = "unreachable" THEN b.arrived_sessions ELSE b.arrived_sessions + 1
      /\ b.reason = Running =>
           b'.reason = IF c = "alive" THEN Running
                       ELSE IF b'.consecutive_unreachable >= UnreachableLimit
                       THEN "unreachable"
                       ELSE IF b'.consecutive_dead >= Limit THEN "dead"
                       ELSE Running
      /\ phase' = "between"
      /\ measured' = Append(measured, c)
      /\ asked' = IF c = "alive" THEN 0 ELSE asked
      /\ UNCHANGED <<opened, reached>>
  BY <1>1, CloseMeasured
<1>3. /\ c = "alive" => b.session_ok > 0
      /\ c = "dead" => b.session_arrived > 0
      /\ c = "unreachable" => b.session_arrived = 0
  BY <1>1, ClassOfType
<1> HIDE DEF c
<1>4. /\ b.session_attempts \in Nat /\ b.session_attempts <= BatchSize
      /\ b.session_arrived \in Nat /\ b.session_ok \in Nat
      /\ b.consecutive_dead \in Nat /\ b.consecutive_unreachable \in Nat
      /\ b.arrived_sessions \in Nat /\ b.sessions \in Nat
      /\ asked \in Nat /\ measured \in Seq(Measured)
  BY <1>1 DEF TypeOK, SessionBreakers, Measured
<1>5. b.reason = Running
  BY <1>1, <1>2 DEF IInv, SessionInv, ReasonInv, CloseSession
<1>6. TypeOK'
  <2>1. measured' \in Seq(Measured)
    BY <1>2, <1>4
  <2>2. asked' \in Nat
    BY <1>2, <1>4
  <2>3. QED
    BY <1>1, <1>2, <2>1, <2>2, BatchAssumption DEF TypeOK, Measured
<1>7. SessionInv' /\ ReasonInv'
  BY <1>2 DEF SessionInv, ReasonInv
<1>8. LimitInv'
  <2>1. b.consecutive_dead < Limit
    BY <1>5 DEF IInv, LimitInv
  <2>2. b'.consecutive_dead <= Limit
    BY <1>2, <1>4, <2>1, LimitAssumption
  <2>3. CASE c = "alive"
    BY <1>2, <1>5, <2>2, <2>3, LimitAssumption, UnreachableLimitAssumption
    DEF LimitInv, Running
  <2>4. CASE c # "alive"
    <3>1. b'.consecutive_unreachable \in Nat /\ b'.consecutive_dead \in Nat
      BY <1>2, <1>4
    <3>2. QED
      BY <1>2, <1>5, <2>2, <2>4, <3>1, LimitAssumption, UnreachableLimitAssumption
      DEF LimitInv, Running
  <2>5. QED
    BY <2>3, <2>4
<1>9. AskedInv'
  <2>1. asked <= b.consecutive_dead * BatchSize + b.session_attempts
    BY DEF IInv, AskedInv
  <2>2. CASE c = "alive"
    BY <1>2, <2>2, BatchAssumption DEF AskedInv
  <2>3. CASE c # "alive"
    <3>1. (b.consecutive_dead + 1) * BatchSize = b.consecutive_dead * BatchSize + BatchSize
          /\ b.consecutive_dead * BatchSize \in Nat
      BY <1>4, BatchAssumption
    <3>2. b'.consecutive_dead = b.consecutive_dead + 1 /\ asked' = asked
      BY <1>2, <2>3
    <3>3. QED
      BY <1>2, <1>4, <2>1, <3>1, <3>2, BatchAssumption DEF AskedInv
  <2>4. QED
    BY <2>2, <2>3
<1>10. ReachedInv'
  <2>1. b.session_ok <= b.session_arrived
    BY DEF IInv, SessionInv
  <2>2. c = "unreachable" \/ b.session_arrived > 0
    BY <1>2, <1>3, <1>4, <2>1 DEF Measured
  <2>3. reached <=> b.arrived_sessions > 0 \/ b.session_arrived > 0
    BY DEF IInv, ReachedInv
  <2>4. (b'.arrived_sessions > 0 \/ b'.session_arrived > 0)
          <=> (b.arrived_sessions > 0 \/ b.session_arrived > 0)
    BY <1>2, <1>3, <1>4, <2>2
  <2>5. QED
    BY <1>2, <2>3, <2>4 DEF ReachedInv
<1>11. CountersAreStreaks'
  <2>1. /\ b.sessions = Len(measured)
        /\ IsStreak(measured, b.consecutive_dead, Unserved)
        /\ IsStreak(measured, b.consecutive_unreachable, Unreached)
    BY DEF IInv, CountersAreStreaks, Unserved, Unreached
  <2>2. b'.sessions = Len(measured')
    BY <1>2, <1>4, <2>1
  <2>3. IsStreak(measured', b'.consecutive_dead, Unserved)
    <3>1. CASE c = "alive"
      BY <1>2, <1>4, <3>1, StreakBroken DEF Unserved
    <3>2. CASE c # "alive"
      <4>1. c \in Unserved
        BY <1>2, <3>2 DEF Measured, Unserved
      <4>2. QED
        BY <1>2, <1>4, <2>1, <3>2, <4>1, StreakGrows
    <3>3. QED
      BY <3>1, <3>2
  <2>4. IsStreak(measured', b'.consecutive_unreachable, Unreached)
    <3>1. CASE c = "unreachable"
      BY <1>2, <1>4, <2>1, <3>1, StreakGrows DEF Unreached
    <3>2. CASE c # "unreachable"
      BY <1>2, <1>4, <3>2, StreakBroken DEF Unreached
    <3>3. QED
      BY <3>1, <3>2
  <2>5. QED
    BY <2>2, <2>3, <2>4 DEF CountersAreStreaks, Unserved, Unreached
<1>12. QED
  BY <1>6, <1>7, <1>8, <1>9, <1>10, <1>11 DEF IInv

\* Each of the five actions, and stuttering.
LEMMA StepInvariant == IInv /\ [Next]_vars => IInv'
<1> SUFFICES ASSUME IInv, [Next]_vars
             PROVE  IInv'
  OBVIOUS
<1>1. CASE OpenSession
  <2>1. /\ b' = b /\ measured' = measured /\ asked' = asked /\ reached' = reached
        /\ phase' = "open" /\ b.reason = Running /\ phase = "between"
        /\ opened' = opened + 1 /\ opened < Batches
    BY <1>1 DEF OpenSession, Tripped
  <2>2. TypeOK'
    BY <2>1, BatchAssumption DEF IInv, TypeOK
  <2>3. SessionInv' /\ ReasonInv' /\ LimitInv' /\ AskedInv' /\ ReachedInv'
    BY <2>1 DEF IInv, SessionInv, ReasonInv, LimitInv, AskedInv, ReachedInv, Running
  <2>4. CountersAreStreaks'
    BY <2>1 DEF IInv, CountersAreStreaks
  <2>5. QED
    BY <2>2, <2>3, <2>4 DEF IInv
<1>2. ASSUME NEW o \in Outcomes, Attempt(o)
      PROVE  IInv'
  BY <1>2, AttemptInvariant
<1>3. CASE EngineUnavailable
  BY <1>3, TripInvariant DEF EngineUnavailable
<1>4. CASE WentDirect
  BY <1>4, TripInvariant DEF WentDirect
<1>5. CASE CloseSession
  BY <1>5, CloseAbandonedInvariant, CloseMeasuredInvariant
<1>6. CASE UNCHANGED vars
  <2>1. /\ b' = b /\ phase' = phase /\ opened' = opened /\ measured' = measured
        /\ asked' = asked /\ reached' = reached
    BY <1>6 DEF vars
  <2>2. TypeOK' /\ SessionInv' /\ ReasonInv' /\ LimitInv' /\ AskedInv' /\ ReachedInv'
    BY <2>1 DEF IInv, TypeOK, SessionInv, ReasonInv, LimitInv, AskedInv, ReachedInv
  <2>3. CountersAreStreaks'
    BY <2>1 DEF IInv, CountersAreStreaks
  <2>4. QED
    BY <2>2, <2>3 DEF IInv
<1>7. QED
  BY <1>1, <1>2, <1>3, <1>4, <1>5, <1>6 DEF Next

\* Every state a cell can be in satisfies the invariant (breaker.py,
\* SessionBreaker; the loop of benchmark.py that drives it).
THEOREM Invariance == Spec => []IInv
  BY InitInvariant, StepInvariant, PTL DEF Spec
----------------------------------------------------------------------------
(* The properties.                                                         *)

\* Every field has its type in every state, and a session is never fed more
\* attempts than a batch holds.
THEOREM TypeCorrect == Spec => []TypeOK
<1>1. IInv => TypeOK
  BY DEF IInv
<1>2. QED
  BY <1>1, Invariance, PTL

\* Each counter of end_session() is the run at the end of the list of
\* sessions, for any limits and any interleaving of the classes.
THEOREM StreaksCounted == Spec => []CountersAreStreaks
<1>1. IInv => CountersAreStreaks
  BY DEF IInv
<1>2. QED
  BY <1>1, Invariance, PTL

\* A cell stopped as refused was answered by some session of the run that
\* stopped it, whenever `limit` is at least `unreachable_limit`.
THEOREM DeadMeansAnswered == Spec => []DeadStopWasAnswered
<1>1. ASSUME IInv, b.reason = "dead", Limit >= UnreachableLimit
      PROVE  \E i \in (Len(measured) - Limit + 1)..Len(measured) :
               i \in DOMAIN measured /\ measured[i] = "dead"
  <2>1. b.consecutive_dead = Limit /\ b.consecutive_unreachable < UnreachableLimit
    BY <1>1 DEF IInv, LimitInv
  <2>2. /\ IsStreak(measured, Limit, Unserved)
        /\ IsStreak(measured, b.consecutive_unreachable, Unreached)
    BY <1>1, <2>1 DEF IInv, CountersAreStreaks, Unserved, Unreached
  <2>3. /\ measured \in Seq(Measured)
        /\ b.consecutive_unreachable \in Nat
    BY <1>1 DEF IInv, TypeOK, SessionBreakers, Measured
  <2> DEFINE i == Len(measured) - b.consecutive_unreachable
  <2>4. b.consecutive_unreachable < Limit /\ Limit <= Len(measured)
    BY <1>1, <2>1, <2>2, <2>3, LimitAssumption, UnreachableLimitAssumption DEF IsStreak
  <2>5. i \in (Len(measured) - Limit + 1)..Len(measured) /\ i \in DOMAIN measured
    BY <2>3, <2>4, LimitAssumption
  <2>6. measured[i] \in Unserved /\ measured[i] \notin Unreached
    BY <2>2, <2>3, <2>4, <2>5, LimitAssumption DEF IsStreak
  <2>7. measured[i] = "dead"
    BY <2>6 DEF Unserved, Unreached
  <2>8. QED
    BY <2>5, <2>7
<1>2. IInv => DeadStopWasAnswered
  BY <1>1 DEF DeadStopWasAnswered
<1>3. QED
  BY <1>2, Invariance, PTL

\* No target is asked more than `limit * batch` queries without one of its
\* sessions having served something.
THEOREM PoolSpared == Spec => []PoolIsSpared
<1>1. ASSUME IInv
      PROVE  PoolIsSpared
  <2>1. /\ b.consecutive_dead \in Nat /\ b.session_attempts \in Nat /\ asked \in Nat
        /\ b.session_attempts <= BatchSize
    BY <1>1 DEF IInv, TypeOK, SessionBreakers
  <2>2. asked <= b.consecutive_dead * BatchSize + b.session_attempts
    BY <1>1 DEF IInv, AskedInv
  <2>3. CASE b.session_attempts = 0
    <3>1. b.consecutive_dead <= Limit
      BY <1>1 DEF IInv, LimitInv
    <3>2. b.consecutive_dead * BatchSize <= Limit * BatchSize
      BY <2>1, <3>1, LimitAssumption, BatchAssumption
    <3>3. b.consecutive_dead * BatchSize \in Nat /\ Limit * BatchSize \in Nat
      BY <2>1, LimitAssumption, BatchAssumption
    <3>4. QED
      BY <2>1, <2>2, <2>3, <3>2, <3>3 DEF PoolIsSpared
  <2>4. CASE b.session_attempts # 0
    <3>1. b.consecutive_dead + 1 <= Limit
      <4>1. b.reason = Running
        BY <1>1, <2>4 DEF IInv, TypeOK, SessionInv, ReasonInv
      <4>2. QED
        BY <1>1, <2>1, <4>1, LimitAssumption DEF IInv, LimitInv
    <3>2. (b.consecutive_dead + 1) * BatchSize <= Limit * BatchSize
      BY <2>1, <3>1, LimitAssumption, BatchAssumption
    <3>3. (b.consecutive_dead + 1) * BatchSize = b.consecutive_dead * BatchSize + BatchSize
      BY <2>1, BatchAssumption
    <3>4. b.consecutive_dead * BatchSize \in Nat /\ Limit * BatchSize \in Nat
      BY <2>1, LimitAssumption, BatchAssumption
    <3>5. QED
      BY <2>1, <2>2, <3>2, <3>3, <3>4, BatchAssumption DEF PoolIsSpared
  <2>5. QED
    BY <2>3, <2>4
<1>2. IInv => PoolIsSpared
  BY <1>1
<1>3. QED
  BY <1>2, Invariance, PTL

\* `no_verdict` is true exactly of the cells no attempt of which ever reached
\* the target, the session in flight included.
THEOREM SilenceIsExact == Spec => []NoVerdictIsSilence
<1>1. ASSUME IInv
      PROVE  NoVerdictIsSilence
  <2>1. b.arrived_sessions \in Nat /\ b.session_arrived \in Nat
    BY <1>1 DEF IInv, TypeOK, SessionBreakers
  <2>2. reached <=> b.arrived_sessions > 0 \/ b.session_arrived > 0
    BY <1>1 DEF IInv, ReachedInv
  <2>3. NoVerdict(b) <=> ~(b.arrived_sessions > 0 \/ b.session_arrived > 0)
    BY <2>1 DEF NoVerdict
  <2>4. QED
    BY <2>2, <2>3 DEF NoVerdictIsSilence
<1>2. IInv => NoVerdictIsSilence
  BY <1>1
<1>3. QED
  BY <1>2, Invariance, PTL

\* A stopped cell keeps the reason it was stopped for and is asked nothing
\* more, whatever is closed under it afterwards.
THEOREM ReasonKept == Spec => FirstReasonWins
<1> DEFINE Kept == Tripped(b) => b'.reason = b.reason /\ asked' = asked /\ opened' = opened
<1>1. ASSUME IInv, [Next]_vars, Tripped(b)
      PROVE  b'.reason = b.reason /\ asked' = asked /\ opened' = opened
  <2>1. b.reason # Running /\ phase # "open" /\ TypeOK
    BY <1>1 DEF IInv, ReasonInv, Tripped
  <2>2. CASE CloseSession
    <3>1. b.session_attempts = 0 /\ b \in SessionBreakers
      BY <1>1, <2>1 DEF IInv, SessionInv, TypeOK
    <3>2. ClassOf(b) = "abandoned"
      BY <3>1, ClassOfType
    <3>3. QED
      BY <2>1, <2>2, <3>2, CloseAbandoned
  <2>3. CASE UNCHANGED vars
    BY <2>3 DEF vars
  <2>4. ~OpenSession /\ ~EngineUnavailable /\ ~WentDirect /\ \A o \in Outcomes : ~Attempt(o)
    BY <1>1, <2>1 DEF OpenSession, EngineUnavailable, WentDirect, Attempt
  <2>5. QED
    BY <1>1, <2>2, <2>3, <2>4 DEF Next
<1>2. IInv /\ [Next]_vars => [Kept]_vars
  BY <1>1
<1>3. QED
  BY <1>2, Invariance, PTL DEF Spec, FirstReasonWins
----------------------------------------------------------------------------
(* Refinement: the counters implement the judgement on the list.           *)

\* The stop end_session() decides on from its two streaks is the judgement on
\* the list they are the streaks of.
LEMMA StreaksJudge ==
  ASSUME NEW s \in Seq(Measured), NEW d \in Nat, NEW u \in Nat,
         IsStreak(s, d, Unserved), IsStreak(s, u, Unreached)
  PROVE  CV!Judgement(s) = IF u >= UnreachableLimit THEN "unreachable"
                           ELSE IF d >= Limit THEN "dead" ELSE Running
<1>1. CV!EndsWith(s, UnreachableLimit, Unreached) <=> UnreachableLimit <= u
  BY StreakMeasures, UnreachableLimitAssumption
<1>2. CV!EndsWith(s, Limit, Unserved) <=> Limit <= d
  BY StreakMeasures, LimitAssumption
<1>3. QED
  BY <1>1, <1>2, LimitAssumption, UnreachableLimitAssumption
  DEF CV!Judgement, Unserved, Unreached, Running

\* Closing a session the target was asked through is the abstract Close.
LEMMA CloseRefines ==
  ASSUME IInv, IInv', CloseSession, ClassOf(b) # "abandoned"
  PROVE  CV!Close(ClassOf(b)) /\ ClassOf(b) \in Measured
<1>1. TypeOK /\ TypeOK'
  BY DEF IInv
<1>2. /\ ClassOf(b) \in Measured
      /\ b.session_attempts # 0
      /\ b'.consecutive_abandoned = 0
      /\ b'.consecutive_dead =
           IF ClassOf(b) = "alive" THEN 0 ELSE b.consecutive_dead + 1
      /\ b'.consecutive_unreachable =
           IF ClassOf(b) = "unreachable" THEN b.consecutive_unreachable + 1 ELSE 0
      /\ b.reason = Running =>
           b'.reason = IF ClassOf(b) = "alive" THEN Running
                       ELSE IF b'.consecutive_unreachable >= UnreachableLimit
                       THEN "unreachable"
                       ELSE IF b'.consecutive_dead >= Limit THEN "dead"
                       ELSE Running
      /\ measured' = Append(measured, ClassOf(b))
  BY <1>1, CloseMeasured
<1>3. b.reason = Running
  BY <1>2 DEF IInv, SessionInv, ReasonInv, CloseSession
<1>4. /\ measured' \in Seq(Measured)
      /\ b'.consecutive_dead \in Nat /\ b'.consecutive_unreachable \in Nat
  BY <1>1 DEF TypeOK, SessionBreakers, Measured
<1>5. /\ IsStreak(measured', b'.consecutive_dead, Unserved)
      /\ IsStreak(measured', b'.consecutive_unreachable, Unreached)
  BY DEF IInv, CountersAreStreaks, Unserved, Unreached
<1>6. CV!Judgement(measured') =
        IF b'.consecutive_unreachable >= UnreachableLimit THEN "unreachable"
        ELSE IF b'.consecutive_dead >= Limit THEN "dead" ELSE Running
  BY <1>4, <1>5, StreaksJudge
<1>7. b'.reason = CV!Judgement(measured')
  BY <1>2, <1>3, <1>6, LimitAssumption, UnreachableLimitAssumption
<1>8. QED
  BY <1>2, <1>3, <1>7 DEF CV!Close, Running

\* SessionBreaker implements CellVerdict: a session opened or an attempt sent
\* is no step of the judgement, each close is one, and each trip is one.
THEOREM Refinement == Spec => ImplementsCellVerdict
<1>1. Init => CV!Init
  BY DEF Init, NewSessionBreaker, Running, CV!Init
<1>2. ASSUME IInv, IInv', [Next]_vars
      PROVE  [CV!Next]_(CV!cellVars)
  <2>1. TypeOK /\ b \in SessionBreakers
    BY <1>2 DEF IInv, TypeOK
  <2>2. CASE OpenSession
    BY <2>2 DEF OpenSession, CV!cellVars
  <2>3. ASSUME NEW o \in Outcomes, Attempt(o)
        PROVE  UNCHANGED CV!cellVars
    <3>1. b' = Record(b, o) /\ measured' = measured
      BY <2>3 DEF Attempt
    <3>2. b'.reason = b.reason /\ b'.consecutive_abandoned = b.consecutive_abandoned
      BY <2>1, <3>1, RecordFields
    <3>3. QED
      BY <3>1, <3>2 DEF CV!cellVars
  <2>4. ASSUME NEW why \in {"engine_unavailable", "went_direct"},
               phase = "open", b' = Trip(b, why), measured' = measured
        PROVE  CV!StopOutright(why)
    <3>1. b.reason = Running /\ why \in SessionReasons
      BY <1>2, <2>4 DEF IInv, ReasonInv, SessionReasons
    <3>2. b' = [b EXCEPT !.reason = why]
      BY <2>1, <2>4, <3>1, TripFields
    <3>3. b'.reason = why /\ b'.consecutive_abandoned = b.consecutive_abandoned
      BY <2>1, <3>2 DEF SessionBreakers
    <3>4. QED
      BY <2>4, <3>1, <3>3 DEF CV!StopOutright, Running
  <2>5. CASE EngineUnavailable
    BY <2>4, <2>5 DEF EngineUnavailable, CV!Next
  <2>6. CASE WentDirect
    BY <2>4, <2>6 DEF WentDirect, CV!Next
  <2>7. CASE CloseSession /\ ClassOf(b) = "abandoned"
    <3>1. /\ b'.consecutive_abandoned = b.consecutive_abandoned + 1
          /\ b'.reason = IF b.reason = Running
                            /\ b.consecutive_abandoned + 1 >= UnreachableLimit
                         THEN "abandoned" ELSE b.reason
          /\ measured' = measured
      BY <2>1, <2>7, CloseAbandoned
    <3>2. b.reason \in {Running, "engine_unavailable"}
      BY <1>2, <2>7 DEF IInv, ReasonInv, CloseSession
    <3>3. CV!CloseSilent
      BY <3>1, <3>2 DEF CV!CloseSilent, Running
    <3>4. QED
      BY <3>3 DEF CV!Next
  <2>8. CASE CloseSession /\ ClassOf(b) # "abandoned"
    BY <1>2, <2>8, CloseRefines DEF CV!Next, Measured
  <2>9. CASE UNCHANGED vars
    BY <2>9 DEF vars, CV!cellVars
  <2>10. QED
    BY <1>2, <2>2, <2>3, <2>5, <2>6, <2>7, <2>8, <2>9 DEF Next
<1>3. QED
  BY <1>1, <1>2, Invariance, PTL DEF Spec, ImplementsCellVerdict, CV!Spec
====
