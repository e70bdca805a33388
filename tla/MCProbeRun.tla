---- MODULE MCProbeRun ----
(* The plans the runner is checked on, each a question of its own.         *)
EXTENDS ProbeRun

\* Not the program's arguments: the supervisor's, and what the world does.
World ==
  [supervised |-> FALSE, underpowered_ok |-> FALSE, direct_ok |-> FALSE,
   dry_run |-> FALSE, absent |-> {}, listed |-> 1000,
   default |-> FALLBACK,
   environment |-> [login |-> "l", password |-> "p", host |-> "", port |-> ""],
   exits |-> <<NoExit>>, web |-> {"results", "refusal"}, faults |-> {}]
Base ==
  [Overlay(Defaults, World) EXCEPT
     !.warm = <<"off">>, !.identities = 1, !.series = 1, !.breaker = 2,
     !.redraws = 1, !.headless = TRUE]

Us == [ip |-> "10.0.0.1", country |-> "us"]
De == [ip |-> "10.0.0.2", country |-> "de"]
Fr == [ip |-> "10.0.0.3", country |-> "fr"]

Item(name, value) == << <<name, value>> >>

\* Failures and redraws: two cells interleaved, an exit without a timezone, a
\* request at any moment, launches and closes that fail.
Pair == [Base EXCEPT !.geo = <<"off", "align">>, !.redraws = 2,
                     !.faults = {"zone", "stop", "launch", "close"}]
Long == [Base EXCEPT !.identities = 3, !.redraws = 0, !.faults = {"close"}, !.web = {"results"}]
Again == [Base EXCEPT !.identities = 2, !.faults = {"close"}, !.web = {"results"}]
Interleaved == [Base EXCEPT !.geo = <<"off", "align">>, !.identities = 2,
                            !.exits = <<Us, NoExit, De>>, !.web = {"results"}]
\* Exits that come back, and a service that stops naming their countries.
Located == [Base EXCEPT !.identities = 4, !.redraws = 0, !.breaker = 9, !.web = {},
                        !.exits = <<Us, De, Us, Fr>>, !.faults = {"locate"}]
Probing == {Pair, Long, Again, Interleaved, Located}

\* The warm-up: a rung with an interaction beside the inert one, until the
\* watch has seen enough of it; and one rung given by hand.
Warming ==
  {[Base EXCEPT !.warm = <<"on">>, !.interact = <<"off", "on">>, !.identities = 2,
                !.redraws = 0, !.web = {"results"}],
   [Base EXCEPT !.warm = <<"on">>, !.interact = <<"on">>, !.redraws = 0,
                !.faults = {"visit"}],
   [Base EXCEPT !.warm = <<"N1">>, !.interact = <<"scroll">>, !.identities = 2,
                !.redraws = 0, !.web = {"results"}, !.faults = {"close", "stop"}],
   [Base EXCEPT !.given = {<<"theverge">>}, !.warm = <<"L1">>, !.series = 2,
                !.redraws = 0, !.faults = {"visit"}, !.web = {"results"}],
   [Base EXCEPT !.warm = <<"L1">>, !.faults = {"interrupt"}, !.web = Kinds]}

\* One identity on every engine: what it opens and leaves, what its rows say.
Each(entry, faults) ==
  {[Base EXCEPT !.engines = <<name>>, !.entry = <<entry>>, !.warm = <<"L1">>,
                !.web = Kinds, !.series = 2, !.redraws = 0, !.faults = faults] : name \in EngineNames}
Engined == Each("home", {"launch", "close", "direct", "visit"})
             \cup Each("url", {"launch", "close", "direct", "death", "traffic"})
             \cup {[Base EXCEPT !.preset = "aggressive", !.faults = {"close"}],
                   [Base EXCEPT !.engines = <<"zendriver">>, !.direct = TRUE,
                                !.faults = {"traffic", "visit"}]}

\* What is typed: keys that are lost, a box that cannot be read, a full disk.
Typing ==
  {[Base EXCEPT !.engines = <<name>>, !.series = 2, !.redraws = 0, !.faults = faults] :
     name \in {"patchright", "zendriver"}, faults \in {{"keys", "disk"}, {"unreadable"}}}
  \cup {[Base EXCEPT !.series = 3, !.identities = 2, !.web = {"results", "scaffold"}]}

\* The supervisor: programs that die early, late, or are stopped.
Ladder ==
  [Overlay(LadderDefaults, SupervisorDefaults) EXCEPT
     !.warm = <<"off">>, !.identities = 1, !.series = 1, !.headless = TRUE]
Commanded(asked) ==
  [Overlay(Overlay(BuildCommand(asked), World),
           [flag \in DOMAIN SupervisorDefaults |-> asked[flag]]) EXCEPT !.supervised = TRUE]
Supervised ==
  {[Commanded([Ladder EXCEPT !.redraws = 1]) EXCEPT
      !.faults = {"crash", "stop", "pool", "interrupt"}],
   [Commanded([Ladder EXCEPT !.direct_ok = TRUE, !.dry_run = TRUE]) EXCEPT !.faults = {"pool"}],
   Commanded([Ladder EXCEPT !.identities = 0]),
   Commanded([Ladder EXCEPT !.identities = 0, !.underpowered_ok = TRUE]),
   Commanded([Ladder EXCEPT !.preset = "light", !.engines = <<"zendriver">>])}

\* Plans that are only looked at.
Looked ==
  {[Base EXCEPT !.engines = <<name>>, !.targets = <<target>>, !.warm = warm,
                !.entry = entry, !.geo = geo, !.humanize = hand,
                !.interact = interact, !.headless = ~REGISTRY[name].headful, !.dry = TRUE] :
     name \in EngineNames,
     target \in {"google_serp", "amazon_search", "shopee_search", "ddg_serp"},
     warm \in {<<"off">>, <<"on">>, <<"N1", "l3">>},
     entry \in {<<"home">>, <<"url">>}, geo \in {<<"off">>, <<"off", "align">>},
     hand \in {<<"off">>, <<"engine">>, <<"off", "trueman">>},
     interact \in {<<"off">>, <<"off", "scroll">>, <<"type", "on">>}}

\* And those refused for what no axis of the others varies.
Refused ==
  {[Base EXCEPT !.targets = <<"ddg_serp">>, !.entry = <<"url">>, !.warm = <<"L1">>,
                !.given = {<<"theverge">>}],
   [Base EXCEPT !.warm = <<"L1", "L2">>, !.given = {<<"theverge">>}],
   [Base EXCEPT !.warm = <<"L1">>, !.given = {<<"theverge", "home">>}],
   [Base EXCEPT !.warm = <<"L1">>, !.given = {<<"bare path">>}],
   [Base EXCEPT !.warm = <<"L9">>], [Base EXCEPT !.series = 0],
   [Base EXCEPT !.direct = TRUE, !.param = Item("filter", "low")],
   [Base EXCEPT !.gap = <<20, 8>>], [Base EXCEPT !.dwell = <<8>>],
   [Base EXCEPT !.absent = {"patchright chromium"}], [Base EXCEPT !.environment.login = ""],
   [Base EXCEPT !.listed = 1], [Base EXCEPT !.engines = <<"http">>, !.headless = FALSE], [Base EXCEPT !.engines = <<"seleniumbase">>],
   [Base EXCEPT !.engines = <<"zendriver">>, !.entry = <<"url">>,
                !.preset = "light"]}

\* Gateway settings, held and compared, at a gateway that sells a country and
\* one that sells nothing.
Selections == {<<>>, Item("filter", "low"), Item("filter", "high"), Item("sid", "a"),
               Item("country", "us"), Item("state", "x"), Item("ttl", ""),
               Item("filter", "low") \o Item("ttl", "1m")}
Several ==   \* the last two are one set, in two orders
  {<<Item("filter", "low"), Item("filter", "low")>>, << <<>>, Item("filter", "low")>>,
   <<Item("filter", "low") \o Item("ttl", "1m"), Item("ttl", "1m") \o Item("filter", "low")>>}
Settled ==
  {[Base EXCEPT !.default = default, !.param = param, !.params = params,
                !.direct = direct, !.dry = TRUE] :
     default \in {"nodemaven", "custom"}, param \in Selections, direct \in BOOLEAN,
     params \in {<<>>} \cup {<<x>> : x \in Selections} \cup Several}
\* Two accepted plans whose requests cannot be made.
Doomed ==
  {[Base EXCEPT !.param = Item("country", "us")],
   [Base EXCEPT !.default = "custom", !.geo = <<"off", "align">>,
                !.environment.host = "h", !.environment.port = "1"]}

Plans_ == Settled \cup Doomed \cup Refused \cup Probing \cup Warming \cup Engined \cup Typing \cup Supervised \cup Looked
----------------------------------------------------------------------------
\* What the supervisor says a plan costs is what the cells of its command
\* cost, whatever axis is crossed with the ladder: nothing it forwards goes
\* unpriced.  A value typed twice is priced twice where the program takes it
\* once.  run_ladder.py, build_command and nmbench/ladder.py, estimate_hours.
Crossed ==
  {[Overlay(LadderDefaults, SupervisorDefaults) EXCEPT
      !.engines = engines, !.countries = countries, !.warm = warm, !.entry = entry,
      !.geo = geo, !.humanize = hand, !.params = params, !.headless = TRUE, !.identities = 4] :
     engines \in {<<"patchright">>, <<"patchright", "camoufox">>},
     countries \in {<<"any">>, <<"us", "de">>},
     warm \in {<<"off", "L1", "N1", "L2", "L3">>, <<"n3">>, <<"on", "l1">>, <<"L9">>},
     entry \in {<<"home">>, <<"home", "url">>, <<"home", "home">>},
     geo \in {<<"off">>, <<"off", "align">>}, hand \in {<<"off">>, <<"off", "trueman">>},
     params \in {<< <<>> >>, << <<>>, Item("filter", "low")>>}}
Typed(plan, axis) == Len(plan[axis]) = Cardinality(ToSet(plan[axis]))
ASSUME EstimateIsThePlan ==
  \A asked \in Crossed :
    LET command == Overlay(BuildCommand(asked), World)
    IN  Accepted(command) =>
          /\ Estimate(asked) >= CostOfCells(command)
          /\ Typed(asked, "entry") /\ Len(Levels(command)) = Len(asked.warm) =>
               Estimate(asked) = CostOfCells(command)

\* The tail of Fisher's test is what counting says it is: of all the ways to
\* choose who was served among a + b + c + d, those in which the first a + b
\* hold a share at most as likely as the one seen.
Choices(a, b, c, d) == {s \in SUBSET (1..(a + b + c + d)) : Cardinality(s) = a + c}
SharesOf(a, b, c, d, x) ==
  Cardinality({s \in Choices(a, b, c, d) : Cardinality(s \cap (1..(a + b))) = x})
TailOf(a, b, c, d) ==
  Cardinality({s \in Choices(a, b, c, d) :
     SharesOf(a, b, c, d, Cardinality(s \cap (1..(a + b)))) <= SharesOf(a, b, c, d, a)})
ASSUME FisherCounts ==
  \A a, b, c, d \in 0..2 : a + b > 0 /\ c + d > 0 =>
    Fisher(a, b, c, d) = TailOf(a, b, c, d)

\* What the note says of two cells of like size: no smaller difference than
\* the one it names is told apart, wherever it lies, and every larger one
\* from nothing served is.  Of cells as unlike as six and three it is not so:
\* the note names the whole of three, and five sixths are enough.
ASSUME NoteIsTheSmallest ==
  \A n_b \in 2..6 : \A n_a \in {n_b} \cup ((n_b + 1)..5) :
    LET named == SmallestSeparable(n_a, n_b)
    IN  \A a \in 0..n_a, c \in 0..n_b :
          LET apart == IF c * n_a >= a * n_b THEN c * n_a - a * n_b ELSE a * n_b - c * n_a
          IN  /\ Separates(a, n_a - a, c, n_b - c) =>
                   \E k \in named : apart >= k * n_a
              /\ a = 0 /\ (\E k \in named : c >= k) => Separates(a, n_a - a, c, n_b - c)
ASSUME UnlikeCells ==
  SmallestSeparable(6, 3) = {3} /\ Separates(1, 5, 3, 0)
====
