---- MODULE ProbeSummary ----
(***************************************************************************)
(* What scripts/probes/probe_and_hold.py prints of its rows when a run is  *)
(* over: summarise() and the tables it calls.  A row is a record of the    *)
(* columns the tables read, a table a function of the sequence of rows;    *)
(* a set of rows is the set of their positions in it.                      *)
(***************************************************************************)
EXTENDS Integers, Sequences, FiniteSets
LOCAL INSTANCE FiniteSetsExt
LOCAL INSTANCE Combinatorics

JUDGED == {"ok", "captcha", "block", "throttle", "empty"}

Where(rows, Is(_)) == {i \in DOMAIN rows : Is(rows[i])}
Attempts(rows) == Where(rows, LAMBDA r : r.phase # "warm")
Probes(rows) == Where(rows, LAMBDA r : r.phase = "probe")
Holds(rows) == Where(rows, LAMBDA r : r.phase = "hold")
Served(rows) == Where(rows, LAMBDA r : r.verdict = "ok")
----------------------------------------------------------------------------
(* The smallest difference two numbers of judged probes can show, by       *)
(* Fisher's exact test: a table as likely as the one seen or less, among   *)
(* those with its margins.  0.05 is a twentieth.                           *)

Ways(a, b, c, d, x) == choose(a + b, x) * choose(c + d, (a + c) - x)
Fisher(a, b, c, d) ==
  LET low  == Max({0, a - d})
      high == Min({a + b, a + c})
      tail == {x \in low..high : Ways(a, b, c, d, x) <= Ways(a, b, c, d, a)}
  IN  MapThenSumSet(LAMBDA x : Ways(a, b, c, d, x), tail)
Separates(a, b, c, d) == 20 * Fisher(a, b, c, d) < choose(a + b + c + d, a + c)

\* Nothing is said of fewer than two; a set with no number says that nothing
\* can be told apart.
SmallestSeparable(n_a, n_b) ==
  LET ks == {k \in 0..n_b : n_a >= 2 /\ n_b >= 2 /\ Separates(0, n_a, k, n_b - k)}
  IN  {k \in ks : \A j \in ks : k <= j}
----------------------------------------------------------------------------
(* The tables.                                                             *)

\* One line for each cell that has an attempt.
Line(rows, key) ==
  LET of(kept) == {i \in kept : rows[i].cell = key}
      judged   == {i \in of(Probes(rows)) : rows[i].verdict \in JUDGED}
  IN  [probes |-> Cardinality(of(Probes(rows))), judged |-> Cardinality(judged),
       served |-> Cardinality(judged \cap Served(rows)),
       held |-> Cardinality(of(Holds(rows))),
       held_ok |-> Cardinality(of(Holds(rows)) \cap Served(rows))]
ByCell(rows) ==
  [key \in {rows[i].cell : i \in Attempts(rows)} |-> Line(rows, key)]

\* The two cells with the fewest judged probes, which bound what can be told.
Weakest(table) ==
  {pair \in (DOMAIN table) \X (DOMAIN table) :
     /\ pair[1] # pair[2] /\ table[pair[1]].judged <= table[pair[2]].judged
     /\ \A key \in DOMAIN table \ {pair[1], pair[2]} :
          table[pair[2]].judged <= table[key].judged}
Note(table) ==
  UNION {SmallestSeparable(table[pair[2]].judged, table[pair[1]].judged) :
           pair \in Weakest(table)}

\* What the warm arms received: of the identities of a rung, how many had
\* pages missing and how many pages each had, and for each page how many of
\* its visits failed.  A page that fails more than a quarter of them is to go.
Rung(rows, level) ==
  LET bucket == {i \in Probes(rows) : rows[i].depth > 0 /\ rows[i].level = level}
  IN  [identities |-> Cardinality(bucket),
       short |-> Cardinality({i \in bucket : rows[i].short}),
       spread |-> [k \in {rows[i].delivered : i \in bucket} |->
                     Cardinality({i \in bucket : rows[i].delivered = k})]]
PerHost(rows, page) ==
  LET seen   == {i \in DOMAIN rows : rows[i].verdict = "warm_visit" /\ rows[i].page = page}
      failed == {i \in seen : rows[i].error # "none"}
  IN  [seen |-> Cardinality(seen), failed |-> Cardinality(failed),
       drop |-> 4 * Cardinality(failed) > Cardinality(seen)]
WarmDelivery(rows) ==
  LET visits == Where(rows, LAMBDA r : r.verdict = "warm_visit")
      warmed == {i \in Probes(rows) : rows[i].depth > 0 /\ visits # {}}
  IN  [rungs |-> [level \in {rows[i].level : i \in warmed} |-> Rung(rows, level)],
       pages |-> [page \in {rows[i].page : i \in visits} |-> PerHost(rows, page)]]

\* How long a good exit lasts: the queries of each position and the served
\* ones of them.
HowLong(rows) ==
  [position \in {rows[i].position : i \in Holds(rows)} |->
     LET bucket == {i \in Holds(rows) : rows[i].position = position}
     IN  [n |-> Cardinality(bucket), ok |-> Cardinality(bucket \cap Served(rows))]]

\* Where the exits were, of the judged probes that resolved to a country.
Country(rows, bucket) ==
  [judged |-> Cardinality(bucket), served |-> Cardinality(bucket \cap Served(rows)),
   arms |-> Cardinality({rows[i].level : i \in bucket})]
ByCountry(rows) ==
  LET known == {i \in Probes(rows) : rows[i].country # "none" /\ rows[i].verdict \in JUDGED}
  IN  [name \in {rows[i].country : i \in known} |->
         Country(rows, {i \in known : rows[i].country = name})]

\* The whole of it.  With no attempt completed there is nothing to read.
Summarise(rows) ==
  IF Attempts(rows) = {} THEN {}
  ELSE {[cells |-> ByCell(rows), note |-> Note(ByCell(rows)),
         warm |-> WarmDelivery(rows), held |-> HowLong(rows),
         countries |-> ByCountry(rows),
         refused |-> [verdict \in {rows[i].verdict : i \in Attempts(rows) \ Served(rows)} |->
                        Cardinality({i \in Attempts(rows) : rows[i].verdict = verdict})],
         lost |-> Cardinality(Where(rows, LAMBDA r : r.error = "transport"))]}
====
