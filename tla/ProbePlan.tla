---- MODULE ProbePlan ----
(***************************************************************************)
(* The plan of scripts/probes/probe_and_hold.py: the cells of a set of     *)
(* arguments, the warm-up each of them runs (nmbench/ladder.py for the     *)
(* rungs, nmbench/warm.py for what is done on a page) and what preflight   *)
(* refuses before anything is sent.                                        *)
(*                                                                         *)
(* The arguments are a record.  An axis is the sequence the operator       *)
(* typed, an arm of --params the sequence of its items, empty for "none".  *)
(* `given` holds the one list of --warm-urls, or nothing.  Four fields are *)
(* the world they are read in: `absent` is what is not installed, `listed` *)
(* the length of the query lists, `default` the provider of                *)
(* NMBENCH_PROVIDER and `environment` the credentials set for it.  The     *)
(* front page of a target is the page "home".                              *)
(***************************************************************************)
EXTENDS Engines, Gateways

ToSet(s) == {s[i] : i \in DOMAIN s}

\* The elements of a list at the places in T, in their order.
Picked(list, T) ==
  LET picked[n \in 0..Len(list)] ==
        IF n = 0 THEN <<>>
        ELSE IF n \in T THEN Append(picked[n - 1], list[n]) ELSE picked[n - 1]
  IN  picked[Len(list)]

\* parse_flags: the values in the order typed, each once.
Once(s) == Picked(s, {i \in DOMAIN s : \A j \in DOMAIN s : j < i => s[j] # s[i]})
----------------------------------------------------------------------------
(* parse_args: what is not typed, the axes first.                          *)

AxisDefaults ==
  [engines |-> <<"patchright">>, targets |-> <<"google_serp">>,
   countries |-> <<"any">>, identities |-> 6, series |-> 5, warm |-> <<"on">>,
   given |-> {}, interact |-> <<"off">>, entry |-> <<"home">>, geo |-> <<"off">>,
   humanize |-> <<"off">>]
RunDefaults ==
  [gap |-> <<8, 20>>, dwell |-> <<3, 8>>, breaker |-> 6, redraws |-> 2,
   preset |-> "none", headless |-> FALSE, direct |-> FALSE, param |-> <<>>,
   params |-> << <<>> >>, dry |-> FALSE]
Defaults == Overlay(AxisDefaults, RunDefaults)
----------------------------------------------------------------------------
(* The settings: held ones and the arms of them, at the one gateway of the *)
(* run.                                                                    *)

GatewayOf(args) == Load(args.default, DEFINITIONS[args.default])
Held(args) == Parsed(args.param)

\* An arm's label: its names in the order typed, each with what it ends as.
Label(items) ==
  LET names == Once([i \in DOMAIN items |-> items[i][1]])
  IN  [k \in DOMAIN names |-> <<names[k], Parsed(items)[names[k]]>>]
Arms(args) == [i \in DOMAIN args.params |-> Label(args.params[i])]

\* parse_param_sets: an arm sets nothing that another option owns, and nothing
\* the gateway would not take; what its values mean is not looked at.
BadArm(args, items) ==
  \/ \E i \in DOMAIN items : Len(items[i]) = 1
  \/ Names(items) \cap ({"country", GatewayOf(args).session_param}
                          \cup DOMAIN Held(args)) # {}
  \/ ~Sendable(GatewayOf(args), Parsed(items))
BadParams(args) ==
  \/ ParseError(GatewayOf(args), args.param) # "none"
  \/ args.params = <<>>
  \/ \E i \in DOMAIN args.params : BadArm(args, args.params[i])
  \/ Arms(args) # Once(Arms(args))

\* What a session of a cell asks its gateway for.  The country is passed beside
\* the held settings by name: one of them naming it too is a TypeError.
NamedTwice(args) == ~args.direct /\ "country" \in DOMAIN Held(args)
Request(args, cell) ==
  IF args.direct THEN Nothing
  ELSE SessionParams(GatewayOf(args), "sid",
         Overlay([name \in {"country"} |-> cell.country],
                 Overlay(Held(args), Parsed(cell.params))))
----------------------------------------------------------------------------
(* The rungs.                                                              *)

LADDER == <<"L0", "L1", "L2", "L3", "N1", "N3">>

WARM_LEVELS ==
  [text \in {"off", "on", "l0", "l1", "l2", "l3", "n1", "n3"} \cup ToSet(LADDER) |->
     CASE text \in {"off", "l0"} -> "L0"
       [] text \in {"on", "l1"} -> "L1"
       [] text = "l2" -> "L2"
       [] text = "l3" -> "L3"
       [] text = "n1" -> "N1"
       [] text = "n3" -> "N3"
       [] OTHER -> text]

\* The rungs some target declares, and the cold one.
Declared == {"L0"} \cup UNION {DOMAIN TARGETS[name].ladder : name \in TargetNames}

Levels(args) ==
  LET asked == {WARM_LEVELS[text] : text \in ToSet(args.warm) \cap DOMAIN WARM_LEVELS}
  IN  Picked(LADDER, {i \in DOMAIN LADDER : LADDER[i] \in asked})

\* The pages opened before the probe; the front page is always the last one.
WarmSequence(args, target, level) ==
  CASE level = "L0" -> <<>>
    [] level # "L0" /\ args.given # {} ->
         (CHOOSE urls \in args.given : TRUE) \o <<"home">>
    [] level # "L0" /\ args.given = {} -> target.ladder[level] \o <<"home">>
----------------------------------------------------------------------------
(* What is done on a page.                                                 *)

KINDS == {"type", "settle", "scroll"}
SETS == [interact \in {"off", "type", "scroll", "on"} |->
           CASE interact = "type" -> {"type", "settle"}
             [] interact = "scroll" -> {"scroll", "settle"}
             [] interact = "on" -> KINDS
             [] interact = "off" -> {}]

\* A list of pauses is not an interaction.
Select(actions, kinds) ==
  LET kept == Picked(actions, {i \in DOMAIN actions : actions[i] \in kinds})
  IN  IF ToSet(kept) \subseteq {"settle"} THEN <<>> ELSE kept

ActionsFor(target, page, kinds) ==
  IF page \in DOMAIN target.actions
  THEN Select(target.actions[page], kinds) ELSE <<>>
PagesWithActions(target, kinds) ==
  {page \in DOMAIN target.actions : ActionsFor(target, page, kinds) # <<>>}

\* run: the actions in order, up to the first that finds nothing to type into
\* or raises; a pause does neither.  How many of them land.
Landings(actions) ==
  {k \in 0..Len(actions) : k < Len(actions) => actions[k + 1] # "settle"}

Problems(target) ==
  {page \in DOMAIN target.actions :
     target.actions[page] = <<>> \/ ~ToSet(target.actions[page]) \subseteq KINDS}
----------------------------------------------------------------------------
(* The cells: the product of the axes, the last of them turning fastest.   *)

Along(cells, axis, values) ==
  [i \in 1..(Len(cells) * Len(values)) |->
     [cells[1 + ((i - 1) \div Len(values))]
        EXCEPT ![axis] = values[1 + ((i - 1) % Len(values))]]]

BlankCell == [engine |-> "", target |-> "", country |-> "", params |-> <<>>,
              level |-> "", entry |-> "", geo |-> "", hand |-> "", interact |-> ""]

Countries(args) == IF args.direct THEN <<"direct">> ELSE args.countries

BuildCells(args) ==
  LET engine   == Along(<<BlankCell>>, "engine", args.engines)
      target   == Along(engine, "target", args.targets)
      country  == Along(target, "country", Countries(args))
      params   == Along(country, "params", Arms(args))
      level    == Along(params, "level", Levels(args))
      entry    == Along(level, "entry", Once(args.entry))
      geo      == Along(entry, "geo", Once(args.geo))
      hand     == Along(geo, "hand", Once(args.humanize))
  IN  Along(hand, "interact", Once(args.interact))

\* The same cells, in no order.
CellSet(args) ==
  [engine : ToSet(args.engines), target : ToSet(args.targets),
   country : ToSet(Countries(args)), params : ToSet(Arms(args)),
   level : ToSet(Levels(args)), entry : ToSet(args.entry), geo : ToSet(args.geo),
   hand : ToSet(args.humanize), interact : ToSet(args.interact)]

\* Cell.key: the hand and the interaction are named where there are several.
KeyOf(args, cell) ==
  [cell EXCEPT !.hand = IF Len(Once(args.humanize)) > 1 THEN @ ELSE "",
               !.interact = IF Len(Once(args.interact)) > 1 THEN @ ELSE ""]
Warm(cell) == cell.level # "L0"
KindsOf(cell) == SETS[cell.interact]
PerIdentity(args) == 1 + args.series
----------------------------------------------------------------------------
(* What the arguments are refused for: by the parsers of main, then by     *)
(* preflight.                                                              *)

Known(values, allowed) == values # <<>> /\ ToSet(values) \subseteq allowed

\* parse_range.
BadRange(range) == Len(range) # 2 \/ range[1] > range[2]

BadFlags(args) ==
  \/ ~ToSet(args.engines) \subseteq EngineNames
  \/ ~ToSet(args.targets) \subseteq TargetNames
  \/ args.countries = <<>>
  \/ ~Known(args.warm, {text \in DOMAIN WARM_LEVELS : WARM_LEVELS[text] \in Declared})
  \/ ~Known(args.entry, {"home", "url"})
  \/ ~Known(args.geo, {"off", "align"})
  \/ ~Known(args.humanize, {"off", "engine", "trueman"})
  \/ ~Known(args.interact, DOMAIN SETS)
  \/ BadRange(args.gap) \/ BadRange(args.dwell)
  \/ args.series < 1
  \/ BadParams(args)

\* What only a gateway can honour.
DirectAsksTheGateway(args) ==
  args.direct /\ (\/ "align" \in ToSet(args.geo)
                  \/ Held(args) # Nothing
                  \/ \E arm \in ToSet(Arms(args)) : arm # <<>>)

TooFewQueries(args) == args.identities * PerIdentity(args) > args.listed

EngineRefused(args, cells) ==
  \E name \in {c.engine : c \in cells} :
    LET engine == REGISTRY[name]
    IN  \/ engine.needs \cap args.absent # {}
        \/ ~engine.typing /\ "home" \in {c.entry : c \in cells}
        \/ ~engine.headful /\ ~args.headless
        \/ ~engine.align /\ "align" \in {c.geo : c \in cells}
        \/ ~engine.blocking /\ args.preset # "none"
        \/ ~{c.hand : c \in cells} \subseteq engine.hands

HandWithoutAClick(cells) == \E c \in cells : c.hand = "trueman" /\ c.entry = "url"

CheckEntry(cells) ==
  \E c \in cells :
    c.entry = "home" /\ ~(TARGETS[c.target].home /\ TARGETS[c.target].box)

RungMissing(cells) ==
  \E c \in cells : Warm(c) /\ c.level \notin DOMAIN TARGETS[c.target].ladder

BadUrls(args, cells) ==
  LET given == CHOOSE urls \in args.given : TRUE
      rungs == {c.level : c \in {d \in cells : Warm(d)}}
  IN  \/ Cardinality(rungs) # 1
      \/ given = <<>>
      \/ "bare path" \in ToSet(given)
FrontPageRepeated(args, cells) ==
  \E c \in cells, urls \in args.given : Warm(c) /\ "home" \in ToSet(urls)

\* check_warm: a target without a front page has no such attribute to read.
WarmRefused(args, cells) ==
  IF args.given = {} THEN RungMissing(cells)
  ELSE BadUrls(args, cells) \/ FrontPageRepeated(args, cells)
WarmRaises(args, cells) ==
  /\ args.given # {} /\ ~BadUrls(args, cells)
  /\ \E c \in cells : Warm(c) /\ ~TARGETS[c.target].home

\* check_interact: an arm that would run the inert warm-up under its label.
CheckInteractAnyRung(args, cells) ==   \* the kind is not looked for on the rung
  \E c \in cells :
    /\ c.interact # "off"
    /\ \/ "trueman" \notin REGISTRY[c.engine].hands
       \/ ~Warm(c)
       \/ Problems(TARGETS[c.target]) # {}
       \/ PagesWithActions(TARGETS[c.target], KindsOf(c)) = {}
CheckInteract(args, cells) ==
  \E c \in cells :
    /\ c.interact # "off"
    /\ \/ "trueman" \notin REGISTRY[c.engine].hands
       \/ ~Warm(c)
       \/ Problems(TARGETS[c.target]) # {}
       \/ ToSet(WarmSequence(args, TARGETS[c.target], c.level))
            \cap PagesWithActions(TARGETS[c.target], KindsOf(c)) = {}

\* How the program ends before it sends anything: refused with 2, on an
\* exception with 1, or with 0 and a plan.
Preflight(args) ==
  LET cells == CellSet(args)
  IN  CASE BadFlags(args) -> 2
        [] ~BadFlags(args) /\
           (\/ DirectAsksTheGateway(args) \/ TooFewQueries(args)
            \/ EngineRefused(args, cells) \/ HandWithoutAClick(cells)
            \/ CheckEntry(cells)) -> 2
        [] OTHER ->
           CASE WarmRaises(args, cells) -> 1
             [] ~WarmRaises(args, cells) /\
                (\/ WarmRefused(args, cells) \/ CheckInteract(args, cells)
                 \/ ~args.direct /\ ~HasCredentials(GatewayOf(args), args.environment)) -> 2
             [] OTHER -> 0
Accepted(args) == Preflight(args) = 0
----------------------------------------------------------------------------
\* describe: what is printed of an accepted plan before it is run.  Redraws
\* are in none of its figures.
Described(args) ==
  LET cells  == CellSet(args)
      rungs  == {<<c.target, c.level>> : c \in {d \in cells : Warm(d)}}
      arms   == {c.interact : c \in {d \in cells : KindsOf(d) # {}}}
      exits  == args.identities * Len(BuildCells(args))
      On(rung) == ToSet(WarmSequence(args, TARGETS[rung[1]], rung[2]))
  IN  [exits |-> exits, attempts |-> exits * PerIdentity(args),
       pages |-> [rung \in rungs |-> Cardinality(On(rung))],
       touched |-> [on \in rungs \X arms |->
                      Cardinality(On(on[1]) \cap PagesWithActions(TARGETS[on[1][1]], SETS[on[2]]))]]
====
