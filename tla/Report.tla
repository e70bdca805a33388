---- MODULE Report ----
(***************************************************************************)
(* scripts/analysis/report.py: what the report makes of the rows of its    *)
(* run files.  `rows` is the sequence load() returns.  An attempt is a row *)
(* with a query; of its status the report asks whether it is 200, of its   *)
(* final address whether it is the one asked for, as far as host and path. *)
(***************************************************************************)
EXTENDS Integers, Sequences, FiniteSets

\* The elements of a list that are in T, in their order.
Kept(list, T) ==
  LET kept[n \in 0..Len(list)] ==
        IF n = 0 THEN <<>>
        ELSE IF list[n] \in T THEN Append(kept[n - 1], list[n]) ELSE kept[n - 1]
  IN  kept[Len(list)]

Where(rows, Is(_)) == {i \in DOMAIN rows : Is(rows[i])}
Selected(rows, Is(_)) == Kept(rows, {rows[i] : i \in Where(rows, Is)})

Attempts(rows) == Selected(rows, LAMBDA r : r.kind = "attempt")
SessionsClosed(rows) == Selected(rows, LAMBDA r : r.kind = "session_closed")
CountOf(rows, Is(_)) == Cardinality(Where(rows, Is))
ColumnOf(rows, F(_)) == {F(rows[i]) : i \in DOMAIN rows}

\* tally, and the rate over what was judged: an error has no verdict.
Tally(rows) ==
  LET errors == CountOf(rows, LAMBDA r : r.verdict = "error")
  IN  [n |-> Len(rows), errors |-> errors, judged |-> Len(rows) - errors,
       ok |-> CountOf(rows, LAMBDA r : r.verdict = "ok")]

\* was_served: a 200, on the page that was asked for or nobody knows where.
WasServed(row) == row.status = "200" /\ row.landed # "elsewhere"

\* classify.
Classify(row) ==
  CASE row.verdict = "error" -> "no reply"
    [] row.verdict # "error" /\ row.status = "none" -> "no status"
    [] OTHER -> IF WasServed(row) THEN "served" ELSE "refused"
LiveResponses(rows) == CountOf(rows, WasServed)
----------------------------------------------------------------------------
(* The lines of the tables: how a row is named.                            *)

\* asked_country: the axis, or what went on the wire where it is not told.
AskedCountry(row) == IF row.country # "" THEN row.country ELSE row.wire
CountriesOf(attempts) ==
  ColumnOf(Selected(attempts, LAMBDA r : ~r.direct), AskedCountry) \ {""}
GatewaysOf(attempts) ==
  ColumnOf(Selected(attempts, LAMBDA r : ~r.direct), LAMBDA r : r.provider) \ {""}

\* engine_label: the gateway and the country are named where there are two.
EngineLabel(row, countries, gateways) ==
  [engine |-> row.engine, direct |-> row.direct, headful |-> row.headful,
   align |-> row.geo = "align",
   gateway |-> IF Cardinality(gateways) > 1 /\ ~row.direct THEN row.provider ELSE "",
   country |-> IF Cardinality(countries) > 1 /\ ~row.direct
               THEN AskedCountry(row) ELSE ""]
LabelIn(row, attempts) ==
  EngineLabel(row, CountriesOf(attempts), GatewaysOf(attempts))

\* The label of a pair: the side, the gateway and the country stripped off.
PairLabel(row) == [EngineLabel(row, {}, {}) EXCEPT !.direct = FALSE]

\* group: the rows under one label of one target, as they were written.
GroupOf(attempts, label, target) ==
  Selected(attempts, LAMBDA r : LabelIn(r, attempts) = label /\ r.target = target)
----------------------------------------------------------------------------
(* The session rows.                                                       *)

AnsweredCells(rows) ==
  ColumnOf(Selected(SessionsClosed(rows), LAMBDA r : r.class \in {"alive", "dead"}),
           LAMBDA r : r.cell)
SilentCells(rows) ==
  ColumnOf(SessionsClosed(rows), LAMBDA r : r.cell) \ AnsweredCells(rows)

\* sessions: the exit yield, out of the sessions that sent something.
ExitYield(rows) ==
  LET Of(class) == CountOf(SessionsClosed(rows), LAMBDA r : r.class = class)
  IN  [served |-> Of("alive"), abandoned |-> Of("abandoned"),
       ran |-> Of("alive") + Of("dead") + Of("unreachable")]

\* scope: a session is a cell and a batch.
SessionsSeen(attempts) ==
  Cardinality(ColumnOf(attempts, LAMBDA r : <<r.cell, r.batch>>))
----------------------------------------------------------------------------
(* The tables.                                                             *)

\* A line of a table is known to the session rows by the cell of its first
\* attempt.
CellOfGroup(group) == Head(group).cell
IsStopped(rows, group) ==
  \E i \in DOMAIN rows : rows[i].kind = "cell_stopped" /\ rows[i].cell = CellOfGroup(group)

\* pass_cell: nothing, a rate, or a cell whose target never answered it.
PassCell(rows, group) ==
  LET stats  == Tally(group)
      Prints(what, marked) ==
        [what |-> what, marked |-> marked, ok |-> stats.ok, judged |-> stats.judged]
  IN  CASE group = <<>> -> [what |-> "nothing", marked |-> FALSE, ok |-> 0, judged |-> 0]
        [] group # <<>> /\ CellOfGroup(group) \in SilentCells(rows) ->
             Prints("unmeasured", FALSE)
        [] OTHER ->
             Prints(IF IsStopped(rows, group) /\ LiveResponses(group) = 0
                    THEN "unmeasured" ELSE "rate",
                    IsStopped(rows, group))

\* yield_split: of the attempts through a gateway that have a status, what
\* was live, and what passed of that; for the targets that sometimes refuse
\* without serving the page.
Splittable(attempts, target) ==
  Selected(attempts, LAMBDA r : ~r.direct /\ r.status # "none" /\ r.target = target)
IsUsable(attempts, target) ==
  \E r \in ColumnOf(Splittable(attempts, target), LAMBDA x : x) :
    ~WasServed(r) /\ r.verdict # "ok"
YieldSplit(bucket) ==
  LET live == Selected(bucket, WasServed)
  IN  [of |-> Len(bucket), live |-> Len(live),
       ok |-> CountOf(live, LAMBDA r : r.verdict = "ok"),
       leaked |-> CountOf(live, LAMBDA r : r.verdict \notin {"ok", "error"})]

\* attribution: the two sides of one engine at one target, where both ran.
Sides(attempts, label, target) ==
  LET Side(direct) == Selected(attempts, LAMBDA r : /\ PairLabel(r) = label
                                                    /\ r.target = target
                                                    /\ r.direct = direct)
  IN  [through |-> Side(FALSE), around |-> Side(TRUE)]
====
