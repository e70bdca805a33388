---- MODULE MCBenchmarkRun ----
EXTENDS BenchmarkRun
CONSTANTS c1, c2, q1, q2, q3

\* The plan of scripts/benchmark.py on the definitions the repository ships
\* and on one that lists a session it cannot send.
Shipped == INSTANCE Gateways
MCDefinitions ==
  [name \in DOMAIN Shipped!DEFINITIONS \cup {"typo"} |->
     IF name = "typo"
     THEN Shipped!Overlay(Shipped!Decodo, [session_param |-> "session"])
     ELSE Shipped!DEFINITIONS[name]]
Plans == INSTANCE BenchmarkPlan WITH Definitions <- MCDefinitions

Set(login, host) == [login |-> login, password |-> "p", host |-> host, port |-> "1"]
Base ==
  [Plans!Defaults EXCEPT
     !.targets = <<"ipinfo">>, !.preset = "none",
     !.environment = [name \in DOMAIN MCDefinitions |-> Set("l", "h")]]

Pair(name, value) == << <<name, value>> >>
Items == {<<>>, Pair("filter", "low"), Pair("filter", "high"), Pair("filter", "none"),
          Pair("state", "us_texas"), Pair("state", ""), Pair("filter", "low") \o Pair("ttl", "1m")}

\* Settings against gateways: every arm and held setting, known and unknown.
SettingPlans ==
  {[Base EXCEPT !.providers = providers, !.param = param, !.arm = arm,
                !.engines = <<Plans!Engine("camoufox", ""), Plans!Engine("camoufox", "direct")>>] :
     providers \in {<<>>, <<"nodemaven", "decodo">>, <<"custom">>},
     param \in Items, arm \in {<<>>} \cup {<<x>> : x \in Items} \cup {<<x, y>> : x, y \in Items}}

\* Countries against gateways, and everything else main() and preflight() read.
CountryPlans ==
  {[Base EXCEPT !.providers = providers, !.countries = countries, !.default = default,
                !.direct = direct] :
     providers \in {<<>>, <<"custom">>, <<"custom", "oxylabs">>, <<"typo">>,
                    <<"brightdata", "nodemaven", "decodo">>},
     countries \in {<<>>, <<"us">>, <<"any">>, <<"us", "any">>},
     default \in {"nodemaven", "oxylabs"}, direct \in BOOLEAN}
OtherPlans ==
  {[Base EXCEPT !.engines = <<Plans!Engine(engine, mode)>>, !.targets = <<target>>,
                !.preset = preset, !.geo = geo, !.headful = headful, !.batch = batch] :
     engine \in {"http", "chromium", "camoufox", "seleniumbase", "obscura", "opera"},
     mode \in {"", "direct", "dirct"}, target \in {"google_serp", "ddg_serp"},
     preset \in {"none", "light", "aggressive"}, geo \in {"off", "align"},
     headful \in BOOLEAN, batch \in 0..1}
AllPlans == SettingPlans \cup CountryPlans \cup OtherPlans

\* The definitions in data/providers load; the one with a typo does not.
ASSUME DefinitionsLoad ==
  \A name \in DOMAIN MCDefinitions :
    Shipped!Loads(name, MCDefinitions[name]) <=> name # "typo"

\* Two settings of one gateway never become one in its spelling: a username
\* says which was asked for.  proxy.py:40-58, the aliases of data/providers.
ASSUME SpellingsDiffer ==
  \A name \in DOMAIN Shipped!DEFINITIONS :
    LET provider == Shipped!Load(name, Shipped!DEFINITIONS[name])
        Asking(x) == [param \in {x} |-> "v"]
    IN  \A x, y \in provider.known_params :
          Shipped!Username(provider, Asking(x)) = Shipped!Username(provider, Asking(y))
            => x = y

\* What is owed by an accepted plan holds of every accepted plan above.
ASSUME AcceptedPlansAreSound ==
  \A args \in AllPlans :
    Plans!Accepted(args) =>
      /\ Plans!RequestsAreSendable(args)
      /\ Plans!KeysTellRequestsApart(args)
      /\ Plans!FreeArms(args) => Plans!ArmsAreCompared(args)

\* build_cells keeps one cell of each key, and a key of every combination.
ASSUME CellsAreTheCombinations ==
  \A args \in SettingPlans \cup CountryPlans :
    Plans!Accepted(args) =>
      LET built == Plans!BuildCells(args)
          keys  == [i \in DOMAIN built |-> Plans!Key(built[i])]
      IN  /\ IsInjective(keys)
          /\ Range(keys) = {Plans!Key(cell) : cell \in Plans!Combinations(args)}

\* An arm of the session's own parameter is accepted, and is no arm: the run
\* draws that parameter itself.  benchmark.py:820-852 refuses neither it nor
\* the country nor a held name, as probe_and_hold.py:530-544 does.
ASSUME SessionArmsAreOneSlice ==
  LET args == [Base EXCEPT !.arm = <<Pair("sid", "a"), Pair("sid", "b")>>]
  IN  Plans!Accepted(args) /\ ~Plans!ArmsAreCompared(args)

\* The runs below have the cells of two countries of one gateway, by their keys.
MCArguments == [Base EXCEPT !.providers = <<"nodemaven">>, !.countries = <<"us", "de">>]
MCCells == <<c1, c2>>
ASSUME TwoCountriesAreTwoCells ==
  Plans!Accepted(MCArguments) /\ Len(Plans!BuildCells(MCArguments)) = Len(MCCells)

\* An attempt row of a cell, with the columns the report names it by.
RowOf(args, cell) ==
  LET id == Plans!ProviderId(args, cell)
  IN  [engine |-> cell.engine, direct |-> cell.direct, headful |-> cell.headful,
       geo |-> cell.geo, target |-> cell.target, provider |-> id, country |-> cell.country,
       wire |-> IF cell.direct THEN ""
                ELSE Plans!Get(Plans!ParamsFor(Plans!PROVIDERS[id], cell), "country", "")]
RowsOf(args) ==
  LET cells == Plans!BuildCells(args) IN [i \in DOMAIN cells |-> RowOf(args, cells[i])]

\* No two cells share a line of the tables, in a plan of no arms; a table of
\* pairs has two cells in a line, one on each side, where one gateway was
\* asked for one country.  report.py:118-153, 675-735.
ASSUME LinesAreCells ==
  \A args \in AllPlans :
    Plans!Accepted(args) /\ args.arm = <<>> =>
      LET rows == RowsOf(args)
      IN  /\ \A i, j \in DOMAIN rows :
               LabelIn(rows[i], rows) = LabelIn(rows[j], rows)
                 /\ rows[i].target = rows[j].target => i = j
          /\ Len(args.countries) = 1 /\ Len(args.providers) < 2 =>
               \A i \in DOMAIN rows :
                 LET sides == Sides(rows, PairLabel(rows[i]), rows[i].target)
                 IN  Len(sides.through) <= 1 /\ Len(sides.around) <= 1

\* Arms of a setting have no part in a label: of an accepted plan that compares
\* arms, the tables have two cells in a line, under the key of the first.
\* report.py:120, "carrying everything that makes a row a different measurement".
ASSUME ArmsArePooled ==
  \A args \in SettingPlans :
    Plans!Accepted(args) /\ args.arm # <<>> /\ Plans!FreeArms(args) =>
      LET rows == RowsOf(args)
      IN  \E i, j \in DOMAIN rows :
            /\ i < j /\ rows[i].target = rows[j].target
            /\ LabelIn(rows[i], rows) = LabelIn(rows[j], rows)

\* The split of a pass rate loses no page that arrived where it was asked for,
\* and puts an answer on the side classify() names.  report.py:205-241, 498-589.
Answer(verdict, status, landed) ==
  [kind |-> "attempt", verdict |-> verdict, status |-> status, landed |-> landed,
   direct |-> FALSE, target |-> "google_maps"]
Answers ==
  {Answer(verdict, status, landed) :
     verdict \in {"ok", "captcha"}, status \in {"200", "other", "none"},
     landed \in {"asked", "elsewhere", "unrecorded"}}
    \cup {Answer("error", "none", "unrecorded")}
ASSUME SplitMultiplies ==
  \A n \in 1..3 : \A rows \in [1..n -> Answers] :
    LET bucket == Splittable(rows, "google_maps")
        split  == YieldSplit(bucket)
        As(class) == CountOf(rows, LAMBDA r : Classify(r) = class)
    IN  /\ split.live = As("served") /\ split.of = As("served") + As("refused")
        /\ split.live = split.ok + split.leaked
        /\ (\A i \in 1..n : rows[i].verdict = "ok" => WasServed(rows[i]))
              => split.ok = Tally(rows).ok
        /\ split.live < split.of =>
             IsUsable(rows, "google_maps")
               \/ \E i \in 1..n : rows[i].verdict = "ok" /\ ~WasServed(rows[i])

\* One target judges a page "ok" by the address it was sent on to, which is
\* not the one asked for: the split takes that page for a dead exit.
\* targets.py, GoogleMapsSearch.judge; report.py:172, "it fires on 386 of 386
\* Google captchas and on nothing else at all".
ASSUME OneTargetIsServedElsewhere ==
  \A name \in Plans!TargetNames :
    "at:/maps/place/" \in Plans!MarksOf(Plans!TARGETS[name].rules, "ok")
      <=> name = "google_maps"

\* Cutting a cell's queries in two costs a session's start and no traffic.
ASSUME BatchesCostSessions ==
  \A cell \in ToSet(Plans!BuildCells(MCArguments)), target \in Plans!TargetNames :
    LET Of(queries) == [cell |-> [cell EXCEPT !.target = target], queries |-> queries]
        whole == Plans!Estimate(<<Of(<<q1, q2, q3>>)>>)
        cut   == Plans!Estimate(<<Of(<<q1>>), Of(<<q2, q3>>)>>)
    IN  /\ cut.bytes = whole.bytes /\ cut.attempts = whole.attempts
        /\ cut.seconds > whole.seconds

MCTwoQueries == <<q1, q2>>
MCThreeQueries == <<q1, q2, q3>>
MCThreeOutcomes == {"ok", "error", "transport"}
MCTwoOutcomes == {"refused", "error"}
MCFaultsOnce == {"zone", "engine", "direct", "launch", "death", "close", "stop"}
MCFaultsResume == {"launch", "ctrl_c", "killed", "stop", "dispose", "garbled"}
MCOneDownload == [word |-> "number", count |-> 1]
MCNoDownload == [word |-> "off", count |-> 0]
MCStop == {"stop"}
MCClose == {"close"}
MCGarbled == {"garbled"}
MCKilled == {"killed"}
====
