---- MODULE Gateways ----
(***************************************************************************)
(* nmbench/providers.py, proxy.py and config.py: a gateway's dialect, what *)
(* a definition of one must satisfy to be loaded, and the settings a       *)
(* request may carry to it.                                                *)
(*                                                                         *)
(* A definition as written is the function from the keys it holds to their *)
(* values.  Settings are a function from names to values; what an operator *)
(* types is a sequence of items, <<name, value>> or, without the equals    *)
(* sign, <<text>>.  A value of the wrong TOML type is left out.            *)
(***************************************************************************)
EXTENDS Integers, Sequences, FiniteSets

Nothing == [name \in {} |-> ""]
Get(f, key, default) == IF key \in DOMAIN f THEN f[key] ELSE default

\* {**below, **above}: the last to say wins.
Overlay(below, above) ==
  [name \in DOMAIN below \cup DOMAIN above |->
     IF name \in DOMAIN above THEN above[name] ELSE below[name]]
----------------------------------------------------------------------------
(* A definition is loaded, or refused for the first thing wrong with it.   *)

TRANSPORTS == {"username"}
STATUSES == {"measured", "documented"}
NETWORKS == {"residential", "isp", "datacenter", "mobile"}
PARAM_KINDS == {"enum", "text"}
VALUE_STATUSES == <<"measured", "accepted", "documented">>

\* The fields a definition may set, with the value of one that is not set.
Provider ==
  [id |-> "", label |-> "", prefix |-> "{login}", separator |-> "-",
   pair_separator |-> "-", known_params |-> {}, aliases |-> Nothing,
   country_any |-> "", session_param |-> "sid", param_transport |-> "username",
   host |-> "", port |-> 0, exit_ip_header |-> "", network |-> "",
   status |-> "documented", source |-> "", source_read |-> "", notes |-> "",
   params |-> Nothing]

\* The values a block lists, the measured ones first.
Listed(body) ==
  Get(body, "measured", <<>>) \o Get(body, "accepted", <<>>)
    \o Get(body, "documented", <<>>)
KindOf(body) == Get(body, "kind", "enum")

\* _build_params: a setting offered to the operator is one that can be sent,
\* that nothing else of the harness sets, and that has something to offer.
GoodTunable(name, body, known, session) ==
  /\ name \in known
  /\ name # "country" /\ (session # "" => name # session)
  /\ KindOf(body) \in PARAM_KINDS
  /\ \A i, j \in DOMAIN Listed(body) : Listed(body)[i] = Listed(body)[j] => i = j
  /\ KindOf(body) = "enum" => Listed(body) # <<>>

\* _build.
Loads(name, raw) ==
  LET known   == Get(raw, "known_params", {})
      session == Get(raw, "session_param", "sid")
      params  == Get(raw, "params", Nothing)
  IN  /\ DOMAIN raw \subseteq DOMAIN Provider
      /\ Get(raw, "id", name) = name
      /\ \A required \in {"label", "source", "source_read"} :
           Get(raw, required, "") # ""
      /\ Get(raw, "status", "documented") \in STATUSES
      /\ Get(raw, "network", "") \in NETWORKS \cup {""}
      /\ Get(raw, "param_transport", "username") \in TRANSPORTS
      /\ Get(raw, "prefix", "{login}") # ""
      /\ \A tunable \in DOMAIN params :
           GoodTunable(tunable, params[tunable], known, session)
      /\ Get(raw, "country_any", "") # "" => "country" \in known
      /\ session # "" => session \in known

\* The object a definition becomes.
Load(name, raw) ==
  [field \in DOMAIN Provider |->
     IF field = "id" THEN name ELSE Get(raw, field, Provider[field])]
----------------------------------------------------------------------------
(* The definitions in data/providers, as far as anything above reads them; *)
(* a prefix is non-empty when it keeps the login.                          *)

Vendor(label) ==
  [label |-> label, source |-> "probes", source_read |-> "2026-09-10",
   status |-> "measured", network |-> "residential"]
Text(values) == [kind |-> "text", accepted |-> values]

NodeMaven ==
  Overlay(Vendor("NodeMaven"),
    [known_params |-> {"country", "region", "city", "isp", "sid", "ttl", "filter",
                       "ipv4", "speed", "type"},
     country_any |-> "any", host |-> "gate.nodemaven.com", port |-> 8080,
     exit_ip_header |-> "X-Proxy-Exit-IP",
     params |->
       [name \in {"filter", "type", "ttl", "region", "city", "isp", "speed", "ipv4"} |->
          CASE name = "filter" -> [kind |-> "enum", measured |-> <<"medium">>,
                                   accepted |-> <<"low", "high">>]
            [] name = "type" -> [kind |-> "enum",
                                 measured |-> <<"mobile", "residential">>]
            [] name = "ttl" -> [kind |-> "text", accepted |-> <<"1m">>,
                                documented |-> <<"60s", "1h", "24h">>]
            [] OTHER -> Text(<<>>)]])
Decodo ==
  Overlay(Vendor("Decodo"),
    [known_params |-> {"country", "state", "city", "zip", "continent", "sid"},
     aliases |-> [sid |-> "session"], host |-> "gate.decodo.com", port |-> 7000,
     params |-> [name \in {"state", "city", "zip", "continent"} |-> Text(<<"one">>)]])
BrightData ==
  Overlay(Vendor("Bright Data (ISP)"),
    [known_params |-> {"country", "sid", "dns", "os"}, network |-> "isp",
     aliases |-> [sid |-> "session"], host |-> "brd.superproxy.io", port |-> 44445,
     params |-> [name \in {"dns", "os"} |-> Text(<<"one">>)]])
Oxylabs ==
  Overlay(Vendor("Oxylabs"),
    [known_params |-> {"country", "st", "city", "sid"},
     aliases |-> [country |-> "cc", sid |-> "sessid"], host |-> "pr.oxylabs.io",
     port |-> 7777, params |-> [name \in {"st", "city"} |-> Text(<<"one">>)]])
Custom ==
  [label |-> "Your own proxy", source |-> "none", source_read |-> "2026-08-19",
   session_param |-> ""]

ProviderNames == {"nodemaven", "decodo", "brightdata", "oxylabs", "custom"}
DEFINITIONS ==
  [name \in ProviderNames |->
     CASE name = "nodemaven" -> NodeMaven
       [] name = "decodo" -> Decodo
       [] name = "brightdata" -> BrightData
       [] name = "oxylabs" -> Oxylabs
       [] name = "custom" -> Custom]
FALLBACK == "nodemaven"
----------------------------------------------------------------------------
(* What a request may carry.                                               *)

Spell(provider, name) == Get(provider.aliases, name, name)

\* build_username refuses a name it does not know, then a value that is empty.
Unknown(provider, settings) == DOMAIN settings \ provider.known_params
Empty(settings) == {name \in DOMAIN settings : settings[name] = ""}
Sendable(provider, settings) ==
  Unknown(provider, settings) = {} /\ Empty(settings) = {}

\* build_username: the pairs of the username, in the gateway's own spelling.
Username(provider, settings) ==
  {<<Spell(provider, name), settings[name]>> : name \in DOMAIN settings}

\* check_value: only of a closed set can a value be known to be wrong.
Legal(provider, name, value) ==
  name \in DOMAIN provider.params =>
    LET body == provider.params[name]
    IN  KindOf(body) = "enum" =>
          \E i \in DOMAIN Listed(body) : Listed(body)[i] = value

\* session_params: the session's own parameter last, so that it wins.
SessionParams(provider, sid, settings) ==
  IF provider.session_param = "" THEN settings
  ELSE Overlay(settings, [name \in {provider.session_param} |-> sid])
----------------------------------------------------------------------------
(* parse_params: the settings typed, and what they are refused for.        *)

Names(items) == {items[i][1] : i \in DOMAIN items}
FirstOf(items, name) ==
  CHOOSE i \in DOMAIN items :
    items[i][1] = name /\ \A j \in DOMAIN items : items[j][1] = name => i <= j
LastOf(items, name) ==
  CHOOSE i \in DOMAIN items :
    items[i][1] = name /\ \A j \in DOMAIN items : items[j][1] = name => j <= i

Parsed(items) == [name \in Names(items) |-> items[LastOf(items, name)][2]]

\* The first item to be wrong names the reason.
ParseError(provider, items) ==
  LET params == Parsed(items)
      bad    == Unknown(provider, params) \cup Empty(params)
  IN  CASE \E i \in DOMAIN items : Len(items[i]) = 1 -> "not a pair"
        [] OTHER ->
             IF \E name \in Unknown(provider, params) : \A other \in bad :
                  FirstOf(items, name) <= FirstOf(items, other)
             THEN "unknown"
             ELSE IF bad # {} THEN "empty"
             ELSE IF \A name \in DOMAIN params : Legal(provider, name, params[name])
                  THEN "none" ELSE "illegal"
----------------------------------------------------------------------------
(* config.py: the credentials of a provider, from the variables set for it *)
(* in the environment: a record, "" for one that is not set.               *)

HasCredentials(provider, set) ==
  /\ set.login # "" /\ set.password # ""
  /\ set.host # "" \/ provider.host # ""
  /\ set.port # "" \/ provider.port # 0
  /\ set.port # "not a number"
====
