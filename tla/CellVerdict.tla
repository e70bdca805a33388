---- MODULE CellVerdict ----
(***************************************************************************)
(* What the cell breaker promises, with no counter in it: the cell is      *)
(* judged on the list of the sessions measured so far, and stopped by what *)
(* the END of that list says.  nmbench/breaker.py, the docstrings of       *)
(* SessionBreaker and of end_session.                                      *)
(***************************************************************************)
EXTENDS Integers, Sequences

CONSTANTS Limit, UnreachableLimit

VARIABLES
  measured,   \* classes of the sessions that sent something, oldest first
  silent,     \* sessions in a row, up to now, that sent nothing at all
  stopped     \* why the cell was stopped; "running" while it is not

cellVars == <<measured, silent, stopped>>

\* The last n sessions of s are all of one of these classes.
EndsWith(s, n, classes) ==
  /\ n <= Len(s)
  /\ \A i \in (Len(s) - n + 1)..Len(s) : s[i] \in classes

\* A run of exits through which nothing arrived has no verdict; a run of
\* exits through which nothing was served is refused.
Judgement(s) ==
  CASE EndsWith(s, UnreachableLimit, {"unreachable"}) -> "unreachable"
    [] /\ ~EndsWith(s, UnreachableLimit, {"unreachable"})
       /\ EndsWith(s, Limit, {"dead", "unreachable"}) -> "dead"
    [] OTHER -> "running"

Init == measured = <<>> /\ silent = 0 /\ stopped = "running"

\* A session that asked the target something is over.
Close(class) ==
  /\ stopped = "running"
  /\ measured' = Append(measured, class)
  /\ silent' = 0
  /\ stopped' = Judgement(measured')

\* A session that sent nothing is over.  An engine that cannot start was
\* already named as the reason; otherwise a run of such sessions is one.
CloseSilent ==
  /\ stopped \in {"running", "engine_unavailable"}
  /\ silent' = silent + 1
  /\ stopped' = IF stopped = "running" /\ silent' >= UnreachableLimit
                THEN "abandoned" ELSE stopped
  /\ UNCHANGED measured

\* The caller stops the cell for something no session could show.
StopOutright(why) ==
  /\ stopped = "running"
  /\ stopped' = why
  /\ UNCHANGED <<measured, silent>>

Next ==
  \/ \E class \in {"alive", "dead", "unreachable"} : Close(class)
  \/ CloseSilent
  \/ \E why \in {"engine_unavailable", "went_direct"} : StopOutright(why)

Spec == Init /\ [][Next]_cellVars
====
