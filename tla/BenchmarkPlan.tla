---- MODULE BenchmarkPlan ----
(***************************************************************************)
(* The plan of scripts/benchmark.py: the cells nmbench/matrix.py builds    *)
(* from a set of arguments, the key each of them writes its rows under,    *)
(* the settings each of them asks its gateway for, and what main() and     *)
(* preflight() refuse before anything is sent.                             *)
(*                                                                         *)
(* The arguments are a record; an axis is the sequence the operator typed, *)
(* a setting an item of Gateways.  Four fields are the world they are read *)
(* in: `absent` is what is not installed, `environment` the credentials    *)
(* set for each provider, `default` the provider of NMBENCH_PROVIDER and   *)
(* `resumed` the providers named by the rows a resumed file holds.         *)
(***************************************************************************)
EXTENDS Engines, Gateways, SequencesExt

CONSTANT Definitions   \* data/providers: a definition as written, by name

\* providers.load, of a definition that loads.
PROVIDERS == [name \in DOMAIN Definitions |-> Load(name, Definitions[name])]

Unset == [login |-> "", password |-> "", host |-> "", port |-> ""]
Engine(name, mode) == [name |-> name, mode |-> mode]

\* parse_args: what is not typed.
Defaults ==
  [engines |-> <<Engine("camoufox", "")>>,
   targets |-> <<"google_serp", "bing_serp", "ddg_serp">>,
   countries |-> <<"us">>, providers |-> <<>>, param |-> <<>>, arm |-> <<>>,
   preset |-> "light", geo |-> "off", humanize |-> "off", direct |-> FALSE,
   headful |-> FALSE, channel |-> "", chrome_binary |-> "", batch |-> 10,
   queries |-> 30,
   absent |-> {}, environment |-> [name \in DOMAIN Definitions |-> Unset],
   default |-> FALLBACK, resumed |-> {}]

ProvidersNamed(args) ==
  IF args.providers = <<>> THEN {args.default} ELSE ToSet(args.providers)
ProvidersInOrder(args) ==
  IF args.providers = <<>> THEN <<args.default>> ELSE args.providers
----------------------------------------------------------------------------
(* The settings: held ones, and arms of them.                              *)

\* The arm of an item typed for --arm, and whether a gateway has a use for it.
\* A name one gateway does not know collapses the arm for it alone.
Arm(items) == Parsed(items)
Applies(provider, arm) == DOMAIN arm \subseteq provider.known_params

Held(args) == Parsed(args.param)
ArmsOf(args) ==
  IF args.arm = <<>> THEN {Nothing} ELSE {Arm(items) : items \in ToSet(args.arm)}
Settings(provider, held, arm) ==
  IF Applies(provider, arm) THEN Overlay(held, arm) ELSE held
----------------------------------------------------------------------------
(* The cells.                                                              *)

ANY == "any"
IsDirect(args, spec) == args.direct \/ spec.mode = "direct"

\* The countries a provider is asked for; one that sells none is asked once.
Asked(args, name) ==
  IF "country" \in PROVIDERS[name].known_params THEN args.countries ELSE <<"">>

CellOf(args, name, spec, target, country, arm) ==
  [engine |-> spec.name, target |-> target, preset |-> args.preset,
   country |-> country, direct |-> IsDirect(args, spec), headful |-> args.headful,
   geo |-> args.geo,
   extra |-> IF IsDirect(args, spec) THEN Held(args)
             ELSE Settings(PROVIDERS[name], Held(args), arm),
   provider |-> IF IsDirect(args, spec) \/ name = args.default THEN "" ELSE name]

\* Cell.key, segment by segment: what two rows share to be of one cell.
Where(cell) ==
  IF cell.direct THEN "direct" ELSE IF cell.country = "" THEN "gateway" ELSE cell.country
Key(cell) ==
  [engine |-> cell.engine, target |-> cell.target, preset |-> cell.preset,
   where |-> Where(cell), extra |-> cell.extra, headful |-> cell.headful,
   geo |-> cell.geo, provider |-> cell.provider]

\* build_cells: every combination, those of one key once.
EachOf(s, Of(_)) == FlattenSeq([i \in DOMAIN s |-> Of(s[i])])
OnePerKey(cells) ==
  FoldLeft(LAMBDA kept, cell :
             IF \E i \in DOMAIN kept : Key(kept[i]) = Key(cell) THEN kept
             ELSE Append(kept, cell),
           <<>>, cells)
BuildCells(args) ==
  LET arms == IF args.arm = <<>> THEN << <<>> >> ELSE args.arm
  IN  OnePerKey(
        EachOf(ProvidersInOrder(args), LAMBDA name :
          EachOf(args.engines, LAMBDA spec :
            EachOf(args.targets, LAMBDA target :
              EachOf(Asked(args, name), LAMBDA country :
                EachOf(arms, LAMBDA items :
                  <<CellOf(args, name, spec, target, country, Arm(items))>>))))))

\* The same combinations, in no order.
Combinations(args) ==
  UNION {{CellOf(args, name, spec, target, country, arm) :
            spec \in ToSet(args.engines), target \in ToSet(args.targets),
            country \in ToSet(Asked(args, name)), arm \in ArmsOf(args)} :
         name \in ProvidersNamed(args)}
----------------------------------------------------------------------------
(* What a cell asks its gateway for.                                       *)

ProviderId(args, cell) ==
  IF cell.direct THEN "" ELSE IF cell.provider = "" THEN args.default ELSE cell.provider

\* wire_country: an unpinned country in the gateway's own spelling.
WireCountry(provider, country) ==
  IF country = ANY THEN provider.country_any ELSE country

\* params_for.
ParamsFor(provider, cell) ==
  LET country == WireCountry(provider, cell.country)
  IN  IF cell.direct THEN Nothing
      ELSE IF country = "" THEN cell.extra
      ELSE Overlay([name \in {"country"} |-> country], cell.extra)

\* The request of a session of the cell.
Request(args, cell, sid) ==
  LET provider == PROVIDERS[ProviderId(args, cell)]
  IN  IF cell.direct THEN Nothing
      ELSE SessionParams(provider, sid, ParamsFor(provider, cell))
----------------------------------------------------------------------------
(* What main() refuses.                                                    *)

BadNames(args) ==
  \/ \E spec \in ToSet(args.engines) :
       spec.name \notin EngineNames \/ spec.mode \notin {"", "direct"}
  \/ ~ToSet(args.targets) \subseteq TargetNames
  \/ \E name \in ProvidersNamed(args) :
       name \notin DOMAIN Definitions \/ ~Loads(name, Definitions[name])
  \/ args.countries = <<>>

BadBrowser(args) ==
  args.chrome_binary # "" /\ (args.channel # "" \/ args.chrome_binary = "no file")

\* Nothing of a gateway is asked for by a run that uses none.
DirectAndGateway(args) ==
  args.direct /\ (args.providers # <<>> \/ Held(args) # Nothing \/ args.arm # <<>>)

BadParams(args) ==
  \E name \in ProvidersNamed(args) : ParseError(PROVIDERS[name], args.param) # "none"

\* An arm is refused for what is wrong with it at any gateway, but for a name
\* that gateway does not know; every gateway not knowing it is a refusal too.
ArmErrors(args, items) ==
  {ParseError(PROVIDERS[name], items) : name \in ProvidersNamed(args)}
BadArm(args, items) ==
  \/ ~ArmErrors(args, items) \subseteq {"none", "unknown"}
  \/ "none" \notin ArmErrors(args, items)
BadArms(args) ==
  \/ \E items \in ToSet(args.arm) : BadArm(args, items)
  \/ \E i, j \in DOMAIN args.arm : i < j /\ Arm(args.arm[i]) = Arm(args.arm[j])
  \/ Len(args.arm) = 1

\* querylist.load: a list is asked for as many as it holds, and for some.
QueriesListed == 1000
BadQueries(args) == args.queries \notin 1..QueriesListed

\* Rows of another gateway would be taken for this one's.
OtherGatewaysRows(args) ==
  ~args.direct /\ ~args.resumed \subseteq ProvidersNamed(args)
----------------------------------------------------------------------------
(* What preflight() refuses.                                               *)

Cannot(args, name) ==
  LET engine == REGISTRY[name]
  IN  \/ engine.needs \cap args.absent # {}
      \/ args.headful /\ ~engine.headful
      \/ args.geo = "align" /\ ~engine.align
      \/ args.preset # "none" /\ ~engine.blocking
      \/ args.chrome_binary # "" /\ ~engine.binary
      \/ args.humanize \notin engine.hands

\* validate_preset, whatever the engine.
Emptied(cell) == cell.preset = "aggressive" /\ TARGETS[cell.target].script

GatewayRefused(args, cells) ==
  \E name \in ProvidersNamed(args) :
    \/ ~HasCredentials(PROVIDERS[name], args.environment[name])
    \/ \E cell \in cells :
         LET wire == WireCountry(PROVIDERS[name], cell.country)
         IN  /\ ~cell.direct /\ cell.country # "" /\ ProviderId(args, cell) = name
             /\ wire # ""
             /\ ~Sendable(PROVIDERS[name], [param \in {"country"} |-> wire])

NoCountryToCompare(args, cells) ==
  /\ Len(args.countries) > 1
  /\ \A name \in ProvidersNamed(args) : "country" \notin PROVIDERS[name].known_params
  /\ \E cell \in cells : ~cell.direct

Preflight(args, cells) ==
  \/ args.humanize = "trueman"
  \/ \E cell \in cells : Cannot(args, cell.engine) \/ Emptied(cell)
  \/ ~args.direct /\ (GatewayRefused(args, cells) \/ NoCountryToCompare(args, cells))

\* What the arguments come to: refused with 2, on an exception with 1, or a
\* plan.  A batch of no queries is an exception of plan().
Refused(args) ==
  \/ BadNames(args) \/ BadBrowser(args) \/ DirectAndGateway(args)
  \/ BadParams(args) \/ BadArms(args) \/ BadQueries(args) \/ OtherGatewaysRows(args)
Verdict(args) ==
  IF Refused(args) THEN 2
  ELSE IF args.batch < 1 THEN 1
  ELSE IF Preflight(args, Combinations(args)) THEN 2 ELSE 0
Accepted(args) == Verdict(args) = 0
----------------------------------------------------------------------------
(* What a plan costs.                                                      *)

MEASURED_BYTES == [target \in {"google_serp", "walmart_search"} |->
                     IF target = "google_serp" THEN 776000 ELSE 2109000]
DEFAULT_BYTES == 275000

\* estimate, of batches given as [cell, queries], in bytes and seconds.
Estimate(batches) ==
  LET attempts == FoldLeft(LAMBDA n, batch : n + Len(batch.queries), 0, batches)
  IN  [attempts |-> attempts, sessions |-> Len(batches),
       bytes |-> FoldLeft(LAMBDA n, batch :
                   n + Len(batch.queries) * Get(MEASURED_BYTES, batch.cell.target,
                                                DEFAULT_BYTES), 0, batches),
       seconds |-> 25 * attempts + 8 * Len(batches)]
----------------------------------------------------------------------------
(* What is owed by a plan that is accepted.                                *)

\* No request of an accepted plan is refused by build_username half way: every
\* name it carries is one its gateway knows, and every value says something.
\* proxy.py:45-54, main() and preflight() of benchmark.py.
RequestsAreSendable(args) ==
  \A cell \in Combinations(args) :
    ~cell.direct =>
      Sendable(PROVIDERS[ProviderId(args, cell)], Request(args, cell, "sid"))

\* Rows of one cell answer one question: cells that share a key, of which one
\* only is run, ask their gateway for the same.  matrix.py, Cell.key.
KeysTellRequestsApart(args) ==
  \A c, d \in Combinations(args) :
    Key(c) = Key(d) => /\ c.direct = d.direct
                       /\ ProviderId(args, c) = ProviderId(args, d)
                       /\ Request(args, c, "sid") = Request(args, d, "sid")

\* The names an arm may set without being overruled or overruling: not an axis
\* of the plan, not what is drawn for each session, not what is held.
FreeArms(args) ==
  \A arm \in ArmsOf(args) :
    DOMAIN arm \cap ({"country"} \cup DOMAIN Held(args)
                      \cup {PROVIDERS[name].session_param : name \in ProvidersNamed(args)}) = {}

\* An arm that is accepted is compared with another: at some gateway of the
\* run, whatever else the cells are, the two ask for different things, though
\* the arm may collapse at other gateways.  benchmark.py:820-860, build_cells.
ArmsAreCompared(args) ==
  \A items \in ToSet(args.arm) :
    \E name \in ProvidersNamed(args), other \in ToSet(args.arm) :
      \A spec \in ToSet(args.engines), target \in ToSet(args.targets),
         country \in ToSet(Asked(args, name)) :
        ~IsDirect(args, spec) =>
          Request(args, CellOf(args, name, spec, target, country, Arm(items)), "sid")
            # Request(args, CellOf(args, name, spec, target, country, Arm(other)), "sid")
====
