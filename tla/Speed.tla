---- MODULE Speed ----
(***************************************************************************)
(* nmbench/speed.py: how many sessions of a run may spend a download, and  *)
(* what one download says.  A size is in chunks of the stream.             *)
(***************************************************************************)
EXTENDS Integers

\* resolve_speed_budget: what --speed-sessions asks for, a word or a number
\* of sessions.  A negative one ends the program.
NoCap == -1
OFF == {"off", "none", "no"}
ALL == {"all", "every", "unlimited"}
LimitOf(asked) ==
  CASE asked.word \in OFF -> 0
    [] asked.word \in ALL -> NoCap
    [] asked.word = "number" -> asked.count

\* Budget: a session claims one download, or is refused.
NewBudget(limit) == [limit |-> limit, spent |-> 0]
MayTake(budget) == budget.limit = NoCap \/ budget.spent < budget.limit
Take(budget) == IF MayTake(budget) THEN [budget EXCEPT !.spent = @ + 1] ELSE budget

\* measure: the chunks that arrived of the size asked for, by a transfer that
\* ended by itself or on an exception.  What an exception cut off has no size
\* and no rate, however much of it had come.
NotMeasured == [bytes |-> -1, short |-> FALSE, error |-> FALSE]
Measured(size, arrived, dies) ==
  IF dies THEN [bytes |-> -1, short |-> FALSE, error |-> TRUE]
  ELSE [bytes |-> arrived, short |-> arrived < size, error |-> FALSE]
Readings(size) ==
  {Measured(size, arrived, dies) : arrived \in 0..size, dies \in BOOLEAN}
====
