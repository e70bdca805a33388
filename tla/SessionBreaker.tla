---- MODULE SessionBreaker ----
(***************************************************************************)
(* One SessionBreaker over the life of one cell of a matrix run: the       *)
(* object of nmbench/breaker.py, fed the way the loop of                   *)
(* scripts/benchmark.py feeds it.  A session opens only while the breaker  *)
(* has not tripped, records at most BatchSize attempts (fewer when the     *)
(* session dies under it), and is closed by end_session; an engine that    *)
(* does not start trips the breaker and then closes a session that sent    *)
(* nothing; a browser found on the operator's own address trips it and     *)
(* leaves without closing the session.                                     *)
(***************************************************************************)
EXTENDS Breaker

CONSTANTS
  BatchSize,   \* --batch: attempts of one session
  Batches      \* batches the plan holds for this cell

ASSUME BatchAssumption == BatchSize \in Nat \ {0} /\ Batches \in Nat

VARIABLES
  b,          \* the SessionBreaker object
  phase,      \* "between" sessions, "open", "failed" (to be closed at once)
  opened,     \* batches taken from the plan
  measured,   \* history: classes of the sessions that sent something
  asked,      \* history: attempts sent since a session last served one
  reached     \* history: some attempt of this cell reached the target

vars == <<b, phase, opened, measured, asked, reached>>

Init ==
  /\ b = NewSessionBreaker
  /\ phase = "between"
  /\ opened = 0
  /\ measured = <<>>
  /\ asked = 0
  /\ reached = FALSE

\* The batch head: a tripped cell is passed over.
OpenSession ==
  /\ phase = "between"
  /\ ~Tripped(b)
  /\ opened < Batches
  /\ phase' = "open"
  /\ opened' = opened + 1
  /\ UNCHANGED <<b, measured, asked, reached>>

\* One query of the batch: its row goes to record().
AttemptPastBatch(o) ==             \* the batch is not the bound
  /\ phase = "open"
  /\ b' = Record(b, o)
  /\ asked' = asked + 1
  /\ reached' = (reached \/ o # "transport")
  /\ UNCHANGED <<phase, opened, measured>>

Attempt(o) ==
  /\ phase = "open"
  /\ b.session_attempts < BatchSize
  /\ b' = Record(b, o)
  /\ asked' = asked + 1
  /\ reached' = (reached \/ o # "transport")
  /\ UNCHANGED <<phase, opened, measured>>

\* EngineUnavailable, raised by every engine's open: nothing was sent.
EngineUnavailable ==
  /\ phase = "open"
  /\ b.session_attempts = 0
  /\ b' = Trip(b, "engine_unavailable")
  /\ phase' = "failed"
  /\ UNCHANGED <<opened, measured, asked, reached>>

\* The browser left from this machine's own address: `continue`, so the
\* session is never closed.
WentDirect ==
  /\ phase = "open"
  /\ b.session_attempts = 0
  /\ b' = Trip(b, "went_direct")
  /\ phase' = "between"
  /\ UNCHANGED <<opened, measured, asked, reached>>

\* end_session(), after the batch or after what cut it short.
CloseSession ==
  /\ phase \in {"open", "failed"}
  /\ b' = EndSession(b)
  /\ phase' = "between"
  /\ measured' = IF ClassOf(b) = "abandoned" THEN measured
                 ELSE Append(measured, ClassOf(b))
  /\ asked' = IF ClassOf(b) = "alive" THEN 0 ELSE asked
  /\ UNCHANGED <<opened, reached>>

Next ==
  \/ OpenSession
  \/ \E o \in Outcomes : Attempt(o)
  \/ EngineUnavailable
  \/ WentDirect
  \/ CloseSession

Spec == Init /\ [][Next]_vars
----------------------------------------------------------------------------
TypeOK ==
  /\ b \in SessionBreakers
  /\ b.session_attempts <= BatchSize
  /\ phase \in {"between", "open", "failed"}
  /\ opened \in 0..Batches
  /\ measured \in Seq({"alive", "dead", "unreachable"})
  /\ asked \in Nat
  /\ reached \in BOOLEAN

\* n is the length of the longest run of these classes at the end of s.
IsStreak(s, n, classes) ==
  /\ n <= Len(s)
  /\ \A i \in (Len(s) - n + 1)..Len(s) : s[i] \in classes
  /\ n < Len(s) => s[Len(s) - n] \notin classes

\* The counters summarise the sessions: `consecutive_dead` is the run of
\* sessions that served nothing, `consecutive_unreachable` the run through
\* which nothing arrived, whatever happened between and however many
\* sessions that sent nothing were interleaved with them.
CountersAreStreaks ==
  /\ b.sessions = Len(measured)
  /\ IsStreak(measured, b.consecutive_dead, {"dead", "unreachable"})
  /\ IsStreak(measured, b.consecutive_unreachable, {"unreachable"})

\* A cell stopped because nothing was served was answered: some session of
\* the very run of sessions it was stopped on reached the target.  So a
\* gateway that never answered is not reported as a target that refused
\* (breaker.py, end_session: "Three outcomes, and collapsing them ...").
\* It takes a limit of at least unreachable_limit, which the defaults give.
DeadStopWasAnswered ==
  b.reason = "dead" /\ Limit >= UnreachableLimit =>
    \E i \in (Len(measured) - Limit + 1)..Len(measured) :
      i \in DOMAIN measured /\ measured[i] = "dead"

\* A target that refuses everything is asked at most `limit * batch` times
\* before the cell is given up: no more than that is ever sent since the last
\* session that served something (breaker.py, SessionBreaker: "a target that
\* refuses everything is now asked `limit * batch` times").
PoolIsSpared == asked <= Limit * BatchSize

\* no_verdict is exactly "no attempt of this cell ever reached the target",
\* the session in flight included.
NoVerdictIsSilence == NoVerdict(b) <=> ~reached

\* What stopped a cell is the first thing that went wrong with it, and a
\* stopped cell sends nothing more.
FirstReasonWins ==
  [][Tripped(b) => b'.reason = b.reason /\ asked' = asked /\ opened' = opened]_vars

\* The counters implement the judgement on the list of sessions.
CV == INSTANCE CellVerdict
        WITH silent <- b.consecutive_abandoned, stopped <- b.reason
ImplementsCellVerdict == CV!Spec
====
