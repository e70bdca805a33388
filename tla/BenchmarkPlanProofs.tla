---- MODULE BenchmarkPlanProofs ----
(***************************************************************************)
(* Of every set of arguments scripts/benchmark.py accepts, whatever the    *)
(* gateways' definitions: the requests of its cells can be sent, a cell's  *)
(* key tells its request apart, and an arm is compared with another.       *)
(***************************************************************************)
EXTENDS BenchmarkPlan, TLAPS

\* What a definition's file can be named, and a country typed: neither is
\* empty by accident nor one of the two words of a key.
NamesAreNames == "" \notin DOMAIN Definitions
CountriesAreCountries(args) == ToSet(args.countries) \cap {"direct", "gateway"} = {}

\* A gateway that sells no country is asked for none.
LEMMA NoCountryAsked ==
  ASSUME NEW args, NEW name, NEW country \in ToSet(Asked(args, name))
  PROVE  \/ country = ""
         \/ /\ "country" \in PROVIDERS[name].known_params
            /\ country \in ToSet(args.countries)
<1>1. ToSet(<<"">>) = {""}
  <2>1. DOMAIN <<"">> = {1} /\ <<"">>[1] = ""
    OBVIOUS
  <2> QED BY <2>1 DEF ToSet
<1> QED BY <1>1 DEF Asked

\* Fields of a definition that loads.  providers.py, _build.
LEMMA LoadedFields ==
  ASSUME NEW name, name \in DOMAIN Definitions, Loads(name, Definitions[name])
  PROVE  /\ PROVIDERS[name].session_param # "" =>
              PROVIDERS[name].session_param \in PROVIDERS[name].known_params
         /\ PROVIDERS[name].session_param = Get(Definitions[name], "session_param", "sid")
<1> DEFINE raw == Definitions[name]
<1>1. PROVIDERS[name] = Load(name, raw)
  BY DEF PROVIDERS
<1>2. Load(name, raw).session_param = Get(raw, "session_param", "sid")
  BY DEF Load, Provider
<1>3. Load(name, raw).known_params = Get(raw, "known_params", {})
  BY DEF Load, Provider
<1>4. Get(raw, "session_param", "sid") # "" =>
        Get(raw, "session_param", "sid") \in Get(raw, "known_params", {})
  BY DEF Loads
<1> QED BY <1>1, <1>2, <1>3, <1>4

\* The provider of a cell that is not direct is the one it was built for.
LEMMA ProviderOfACell ==
  ASSUME NamesAreNames, NEW args, NEW name \in ProvidersNamed(args),
         name \in DOMAIN Definitions,
         NEW spec, NEW target, NEW country, NEW arm, ~IsDirect(args, spec)
  PROVE  ProviderId(args, CellOf(args, name, spec, target, country, arm)) = name
<1>1. name # ""
  BY DEF NamesAreNames
<1> QED BY <1>1 DEF ProviderId, CellOf

\* Accepted arguments name gateways whose definitions load.
LEMMA AcceptedNames ==
  ASSUME NEW args, Accepted(args), NEW name \in ProvidersNamed(args)
  PROVE  name \in DOMAIN Definitions /\ Loads(name, Definitions[name])
<1>1. ~Refused(args)
  BY DEF Accepted, Verdict
<1> QED BY <1>1 DEF Refused, BadNames

\* Settings that are read without an error can be sent.  proxy.py, parse_params.
LEMMA ReadSettingsAreSendable ==
  ASSUME NEW provider, NEW items, ParseError(provider, items) = "none"
  PROVE  Sendable(provider, Parsed(items))
<1> DEFINE bad == Unknown(provider, Parsed(items)) \cup Empty(Parsed(items))
<1>1. bad = {}
  BY DEF ParseError
<1> QED BY <1>1 DEF Sendable

\* An arm of accepted arguments has no empty value at a gateway that knows
\* its names.
LEMMA ArmsAreSendable ==
  ASSUME NEW args, Accepted(args), NEW name \in ProvidersNamed(args),
         NEW arm \in ArmsOf(args), Applies(PROVIDERS[name], arm)
  PROVE  Sendable(PROVIDERS[name], arm)
<1>1. CASE args.arm = <<>>
  <2>1. arm = Nothing
    BY <1>1 DEF ArmsOf
  <2> QED BY <2>1 DEF Sendable, Unknown, Empty, Nothing
<1>2. CASE args.arm # <<>>
  <2>1. PICK items \in ToSet(args.arm) : arm = Arm(items)
    BY <1>2 DEF ArmsOf
  <2>2. ~BadArm(args, items)
    BY <2>1 DEF Accepted, Verdict, Refused, BadArms
  <2>3. ParseError(PROVIDERS[name], items) \in {"none", "unknown"}
    BY <2>2 DEF BadArm, ArmErrors
  <2>4. Unknown(PROVIDERS[name], Parsed(items)) = {}
    BY <2>1 DEF Applies, Unknown, Arm
  <2>5. ParseError(PROVIDERS[name], items) # "unknown"
    BY <2>4 DEF ParseError
  <2> QED BY <2>1, <2>3, <2>5, ReadSettingsAreSendable DEF Arm
<1> QED BY <1>1, <1>2

\* What is sendable stays so under what is sendable.
LEMMA OverlayIsSendable ==
  ASSUME NEW provider, NEW below, NEW above,
         Sendable(provider, below), Sendable(provider, above)
  PROVE  Sendable(provider, Overlay(below, above))
BY DEF Sendable, Unknown, Empty, Overlay

\* The settings of a cell can be sent to its gateway.
LEMMA SettingsAreSendable ==
  ASSUME NEW args, Accepted(args), NEW name \in ProvidersNamed(args),
         NEW arm \in ArmsOf(args)
  PROVE  Sendable(PROVIDERS[name], Settings(PROVIDERS[name], Held(args), arm))
<1>1. ParseError(PROVIDERS[name], args.param) = "none"
  BY DEF Accepted, Verdict, Refused, BadParams
<1>2. Sendable(PROVIDERS[name], Held(args))
  BY <1>1, ReadSettingsAreSendable DEF Held
<1> QED BY <1>2, ArmsAreSendable, OverlayIsSendable DEF Settings

\* Every request of an accepted plan can be sent.
THEOREM PlansAreSendable ==
  ASSUME NamesAreNames, NEW args, Accepted(args)
  PROVE  RequestsAreSendable(args)
<1> SUFFICES ASSUME NEW cell \in Combinations(args), ~cell.direct
             PROVE  Sendable(PROVIDERS[ProviderId(args, cell)], Request(args, cell, "sid"))
  BY DEF RequestsAreSendable
<1>a. PICK name \in ProvidersNamed(args) :
        \E spec \in ToSet(args.engines), target \in ToSet(args.targets),
           country \in ToSet(Asked(args, name)), arm \in ArmsOf(args) :
             cell = CellOf(args, name, spec, target, country, arm)
  BY DEF Combinations
<1>1. PICK spec \in ToSet(args.engines), target \in ToSet(args.targets),
           country \in ToSet(Asked(args, name)), arm \in ArmsOf(args) :
             cell = CellOf(args, name, spec, target, country, arm)
  BY <1>a
<1>2. name \in DOMAIN Definitions /\ Loads(name, Definitions[name])
  BY AcceptedNames
<1> DEFINE provider == PROVIDERS[name]
           wire     == WireCountry(provider, country)
<1>3. ~IsDirect(args, spec)
  BY <1>1 DEF CellOf
<1>4. ProviderId(args, cell) = name
  BY <1>1, <1>2, <1>3, ProviderOfACell
<1>5. cell.extra = Settings(provider, Held(args), arm) /\ cell.country = country
  BY <1>1, <1>3 DEF CellOf
<1>6. Sendable(provider, cell.extra)
  BY <1>5, SettingsAreSendable
<1>7. wire # "" => "country" \in provider.known_params
  <2>1. SUFFICES ASSUME "country" \notin provider.known_params
                 PROVE  wire = ""
    OBVIOUS
  <2>2. country = ""
    BY <2>1, NoCountryAsked
  <2> QED BY <2>2 DEF WireCountry, ANY
<1>8. Sendable(provider, ParamsFor(provider, cell))
  <2>1. CASE wire = ""
    BY <2>1, <1>5, <1>6 DEF ParamsFor
  <2>2. CASE wire # ""
    <3>1. Sendable(provider, [param \in {"country"} |-> wire])
      BY <2>2, <1>7 DEF Sendable, Unknown, Empty
    <3>2. ParamsFor(provider, cell) = Overlay([param \in {"country"} |-> wire], cell.extra)
      BY <2>2, <1>5 DEF ParamsFor
    <3> QED BY <3>1, <3>2, <1>6, OverlayIsSendable
  <2> QED BY <2>1, <2>2
<1>9. Sendable(provider, SessionParams(provider, "sid", ParamsFor(provider, cell)))
  <2>1. CASE provider.session_param = ""
    BY <2>1, <1>8 DEF SessionParams
  <2>2. CASE provider.session_param # ""
    <3>1. Sendable(provider, [param \in {provider.session_param} |-> "sid"])
      BY <2>2, <1>2, LoadedFields DEF Sendable, Unknown, Empty
    <3> QED BY <2>2, <3>1, <1>8, OverlayIsSendable DEF SessionParams
  <2> QED BY <2>1, <2>2
<1> QED BY <1>4, <1>9 DEF Request

\* Cells of one key ask one gateway for the same, accepted or not.
THEOREM KeysAreRequests ==
  ASSUME NEW args, CountriesAreCountries(args)
  PROVE  KeysTellRequestsApart(args)
<1> SUFFICES ASSUME NEW c \in Combinations(args), NEW d \in Combinations(args),
                    Key(c) = Key(d)
             PROVE  /\ c.direct = d.direct
                    /\ ProviderId(args, c) = ProviderId(args, d)
                    /\ Request(args, c, "sid") = Request(args, d, "sid")
  BY DEF KeysTellRequestsApart
<1>1. Where(c) = Where(d) /\ c.extra = d.extra /\ c.provider = d.provider
  BY DEF Key
<1>2. ASSUME NEW e \in Combinations(args)
      PROVE  e.direct \in BOOLEAN /\ e.country \notin {"direct", "gateway"}
  <2>a. PICK name \in ProvidersNamed(args) :
          \E spec \in ToSet(args.engines), target \in ToSet(args.targets),
             country \in ToSet(Asked(args, name)), arm \in ArmsOf(args) :
               e = CellOf(args, name, spec, target, country, arm)
    BY DEF Combinations
  <2>1. PICK spec \in ToSet(args.engines), target \in ToSet(args.targets),
             country \in ToSet(Asked(args, name)), arm \in ArmsOf(args) :
               e = CellOf(args, name, spec, target, country, arm)
    BY <2>a
  <2>2. e.direct = IsDirect(args, spec) /\ e.country = country
    BY <2>1 DEF CellOf
  <2>3. country \notin {"direct", "gateway"}
    BY NoCountryAsked DEF CountriesAreCountries
  <2> QED BY <2>2, <2>3 DEF IsDirect
<1>3. c.direct = d.direct /\ (~c.direct => c.country = d.country)
  BY <1>1, <1>2 DEF Where
<1>4. ProviderId(args, c) = ProviderId(args, d)
  BY <1>1, <1>3 DEF ProviderId
<1>5. Request(args, c, "sid") = Request(args, d, "sid")
  BY <1>1, <1>3, <1>4 DEF Request, ParamsFor
<1> QED BY <1>3, <1>4, <1>5

\* Of two arms that differ, one says something the other does not.
LEMMA ArmsDiffer ==
  ASSUME NEW s, NEW t, Arm(s) # Arm(t)
  PROVE  \E x \in DOMAIN Arm(s) \cup DOMAIN Arm(t) :
           (x \in DOMAIN Arm(s) /\ x \in DOMAIN Arm(t)) => Arm(s)[x] # Arm(t)[x]
<1>1. SUFFICES ASSUME \A x \in DOMAIN Arm(s) \cup DOMAIN Arm(t) :
                        /\ x \in DOMAIN Arm(s) /\ x \in DOMAIN Arm(t)
                        /\ Arm(s)[x] = Arm(t)[x]
               PROVE  FALSE
  OBVIOUS
<1>2. DOMAIN Arm(s) = DOMAIN Arm(t)
  BY <1>1
<1>3. /\ Arm(s) = [x \in DOMAIN Arm(s) |-> Arm(s)[x]]
      /\ Arm(t) = [x \in DOMAIN Arm(t) |-> Arm(t)[x]]
  BY DEF Arm, Parsed
<1> QED BY <1>1, <1>2, <1>3

\* What a request says of a name that is neither the country, held, nor the
\* session's: what the arm says of it, where the arm applies.
LEMMA ArmReachesTheRequest ==
  ASSUME NamesAreNames, NEW args, NEW name \in ProvidersNamed(args),
         name \in DOMAIN Definitions,
         NEW spec, NEW target, NEW country, NEW arm, ~IsDirect(args, spec),
         NEW x, x # "country", x \notin DOMAIN Held(args),
         x # PROVIDERS[name].session_param
  PROVE  LET request == Request(args, CellOf(args, name, spec, target, country, arm), "sid")
         IN  /\ x \in DOMAIN request <=>
                  Applies(PROVIDERS[name], arm) /\ x \in DOMAIN arm
             /\ x \in DOMAIN request => request[x] = arm[x]
<1> DEFINE cell     == CellOf(args, name, spec, target, country, arm)
           provider == PROVIDERS[name]
           extra    == Settings(provider, Held(args), arm)
           params   == ParamsFor(provider, cell)
           request  == SessionParams(provider, "sid", params)
<1>1. Request(args, cell, "sid") = request
  <2>1. ~cell.direct
    BY DEF CellOf
  <2> QED BY <2>1, ProviderOfACell DEF Request
<1>2. /\ x \in DOMAIN extra <=> Applies(provider, arm) /\ x \in DOMAIN arm
      /\ x \in DOMAIN extra => extra[x] = arm[x]
  BY DEF Settings, Overlay
<1>3. /\ x \in DOMAIN params <=> x \in DOMAIN extra
      /\ x \in DOMAIN params => params[x] = extra[x]
  <2>1. cell.extra = extra /\ ~cell.direct
    BY DEF CellOf
  <2> QED BY <2>1 DEF ParamsFor, Overlay
<1>4. /\ x \in DOMAIN request <=> x \in DOMAIN params
      /\ x \in DOMAIN request => request[x] = params[x]
  BY DEF SessionParams, Overlay
<1> QED BY <1>1, <1>2, <1>3, <1>4

\* Some gateway of an accepted run reads an arm without an error.
LEMMA ArmIsRead ==
  ASSUME NEW args, Accepted(args), NEW items \in ToSet(args.arm)
  PROVE  \E name \in ProvidersNamed(args) :
           ParseError(PROVIDERS[name], items) = "none"
<1>1. ~BadArm(args, items)
  BY DEF Accepted, Verdict, Refused, BadArms
<1> QED BY <1>1 DEF BadArm, ArmErrors

\* An arm read without an error applies.
LEMMA ReadArmApplies ==
  ASSUME NEW provider, NEW items, ParseError(provider, items) = "none"
  PROVE  Applies(provider, Arm(items))
BY ReadSettingsAreSendable DEF Sendable, Unknown, Applies, Arm

\* An arm of an accepted run that neither overrules anything nor is overruled
\* asks some gateway for something another arm does not.
THEOREM AcceptedArmsAreCompared ==
  ASSUME NamesAreNames, NEW args, Accepted(args), FreeArms(args),
         NEW Typed, args.arm \in Seq(Typed)
  PROVE  ArmsAreCompared(args)
<1> SUFFICES ASSUME NEW items \in ToSet(args.arm)
             PROVE  \E name \in ProvidersNamed(args), other \in ToSet(args.arm) :
                      \A spec \in ToSet(args.engines), target \in ToSet(args.targets),
                         country \in ToSet(Asked(args, name)) :
        ~IsDirect(args, spec) =>
          Request(args, CellOf(args, name, spec, target, country, Arm(items)), "sid")
            # Request(args, CellOf(args, name, spec, target, country, Arm(other)), "sid")
  BY DEF ArmsAreCompared
<1>1. PICK i \in DOMAIN args.arm : items = args.arm[i]
  BY DEF ToSet
<1>2. PICK j \in DOMAIN args.arm : j # i
  <2>1. Len(args.arm) # 1
    BY DEF Accepted, Verdict, Refused, BadArms
  <2> DEFINE n == Len(args.arm)
  <2>2. DOMAIN args.arm = 1..n /\ n \in Nat
    OBVIOUS
  <2>3. i \in 1..n /\ n # 1
    BY <2>1, <2>2
  <2> HIDE DEF n
  <2>4. 1 \in 1..n /\ 2 \in 1..n
    BY <2>2, <2>3
  <2>5. 1 \in DOMAIN args.arm /\ 2 \in DOMAIN args.arm
    BY <2>2, <2>4
  <2>6. CASE i = 1
    BY <2>5, <2>6
  <2>7. CASE i # 1
    BY <2>5, <2>7
  <2> QED BY <2>6, <2>7
<1> DEFINE other == args.arm[j]
<1>3. Arm(items) # Arm(other) /\ other \in ToSet(args.arm)
  <2>1. \A k, l \in DOMAIN args.arm : k < l => Arm(args.arm[k]) # Arm(args.arm[l])
    BY DEF Accepted, Verdict, Refused, BadArms
  <2>2. i \in Int /\ j \in Int
    OBVIOUS
  <2>3. i < j \/ j < i
    BY <1>2, <2>2
  <2> QED BY <1>1, <2>1, <2>3 DEF ToSet
<1>4. ASSUME NEW typed \in ToSet(args.arm), NEW x \in DOMAIN Arm(typed),
             NEW name \in ProvidersNamed(args)
      PROVE  /\ x # "country" /\ x \notin DOMAIN Held(args)
             /\ x # PROVIDERS[name].session_param
  <2>1. Arm(typed) \in ArmsOf(args)
    <3>1. args.arm # <<>>
      BY <1>1
    <3> QED BY <3>1 DEF ArmsOf
  <2> QED BY <2>1 DEF FreeArms
<1>5. ASSUME NEW name \in ProvidersNamed(args), NEW x,
             x \in DOMAIN Arm(items) \cup DOMAIN Arm(other),
             LET a == Applies(PROVIDERS[name], Arm(items)) /\ x \in DOMAIN Arm(items)
                 b == Applies(PROVIDERS[name], Arm(other)) /\ x \in DOMAIN Arm(other)
             IN  a # b \/ (a /\ b /\ Arm(items)[x] # Arm(other)[x]),
             NEW spec, NEW target, NEW country, ~IsDirect(args, spec)
      PROVE  Request(args, CellOf(args, name, spec, target, country, Arm(items)), "sid")
               # Request(args, CellOf(args, name, spec, target, country, Arm(other)), "sid")
  <2>1. /\ x # "country" /\ x \notin DOMAIN Held(args)
        /\ x # PROVIDERS[name].session_param
    BY <1>3, <1>4, <1>5
  <2>2. name \in DOMAIN Definitions
    BY AcceptedNames
  <2> DEFINE Asks(arm) == Request(args, CellOf(args, name, spec, target, country, arm), "sid")
  <2>3. /\ x \in DOMAIN Asks(Arm(items)) <=>
             Applies(PROVIDERS[name], Arm(items)) /\ x \in DOMAIN Arm(items)
        /\ x \in DOMAIN Asks(Arm(items)) => Asks(Arm(items))[x] = Arm(items)[x]
    BY <1>5, <2>1, <2>2, ArmReachesTheRequest
  <2>4. /\ x \in DOMAIN Asks(Arm(other)) <=>
             Applies(PROVIDERS[name], Arm(other)) /\ x \in DOMAIN Arm(other)
        /\ x \in DOMAIN Asks(Arm(other)) => Asks(Arm(other))[x] = Arm(other)[x]
    BY <1>5, <2>1, <2>2, ArmReachesTheRequest
  <2> HIDE DEF Asks
  <2>5. Asks(Arm(items)) # Asks(Arm(other))
    BY <1>5, <2>3, <2>4
  <2> QED BY <2>5 DEF Asks
<1>6. \E name \in ProvidersNamed(args), x \in DOMAIN Arm(items) \cup DOMAIN Arm(other) :
        LET a == Applies(PROVIDERS[name], Arm(items)) /\ x \in DOMAIN Arm(items)
            b == Applies(PROVIDERS[name], Arm(other)) /\ x \in DOMAIN Arm(other)
        IN  a # b \/ (a /\ b /\ Arm(items)[x] # Arm(other)[x])
  <2>1. CASE DOMAIN Arm(items) = {}
    <3>1. PICK name \in ProvidersNamed(args) :
            ParseError(PROVIDERS[name], other) = "none"
      BY <1>3, ArmIsRead
    <3>2. Applies(PROVIDERS[name], Arm(other))
      BY <3>1, ReadArmApplies
    <3>3. PICK x \in DOMAIN Arm(other) : TRUE
      BY <1>3, <2>1, ArmsDiffer
    <3> QED BY <2>1, <3>2, <3>3
  <2>2. CASE DOMAIN Arm(items) # {}
    <3>1. PICK name \in ProvidersNamed(args) :
            ParseError(PROVIDERS[name], items) = "none"
      BY ArmIsRead
    <3>2. Applies(PROVIDERS[name], Arm(items))
      BY <3>1, ReadArmApplies
    <3>3. CASE Applies(PROVIDERS[name], Arm(other))
      <4>1. PICK x \in DOMAIN Arm(items) \cup DOMAIN Arm(other) :
              (x \in DOMAIN Arm(items) /\ x \in DOMAIN Arm(other)) =>
                Arm(items)[x] # Arm(other)[x]
        BY <1>3, ArmsDiffer
      <4> QED BY <3>2, <3>3, <4>1
    <3>4. CASE ~Applies(PROVIDERS[name], Arm(other))
      <4>1. PICK x \in DOMAIN Arm(items) : TRUE
        BY <2>2
      <4> QED BY <3>2, <3>4, <4>1
    <3> QED BY <3>3, <3>4
  <2> QED BY <2>1, <2>2
<1> QED BY <1>3, <1>5, <1>6
====
