---- MODULE Targets ----
(***************************************************************************)
(* nmbench/targets.py: how each target reads a page.  judge() is a list of *)
(* tests tried in order, the first that holds giving the verdict, so a     *)
(* target is the sequence of its rules; a page is the set of the marks the *)
(* rules look for, in its body or in its address, with "body" for a page   *)
(* that has one at all.  A mark that no rule of a target names changes     *)
(* nothing for it.                                                         *)
(***************************************************************************)
EXTENDS Integers, Sequences, FiniteSets

Verdicts == {"ok", "captcha", "consent", "block", "throttle", "empty", "error"}

Rule(marks, verdict) == [marks |-> marks, verdict |-> verdict]

Matching(rules, page) == {i \in DOMAIN rules : rules[i].marks \cap page # {}}

\* The order the rules are written in decides.
Judge(rules, page) ==
  LET hits == Matching(rules, page)
  IN  CASE "body" \notin page -> "empty"
        [] "body" \in page /\ hits = {} -> "block"
        [] OTHER -> rules[CHOOSE i \in hits : \A j \in hits : i <= j].verdict
----------------------------------------------------------------------------
(* The rules.                                                              *)

IpInfoRules == <<Rule({"ip"}, "ok")>>

GoogleRules ==
  <<Rule({"/sorry/", "unusual-traffic"}, "captcha"),
    Rule({"at:consent."}, "consent"),
    Rule({"rso", "search", "h3"}, "ok"),
    Rule({"consent.google.com"}, "consent"),
    Rule({"enablejs", "noscript"}, "empty")>>

DuckDuckGoRules ==
  <<Rule({"anomaly", "unfortunately-bots", "recaptcha"}, "captcha"),
    Rule({"result"}, "ok")>>

BingRules ==
  <<Rule({"captcha_header", "challenge/verify"}, "captcha"),
    Rule({"b_algo"}, "ok")>>

AmazonRules ==
  <<Rule({"validatecaptcha", "opfcaptcha", "enter-the-characters"}, "captcha"),
    Rule({"cs_503", "dogsofamazon"}, "throttle"),
    Rule({"at:/errors/", "something-went-wrong"}, "block"),
    Rule({"s-search-result", "s-main-slot"}, "ok"),
    Rule({"/_sec/verify", "bm-verify"}, "captcha"),
    Rule({"gokuprops", "awswaf"}, "captcha"),
    Rule({"s-no-results", "no-results-for"}, "ok"),
    Rule({"continue-shopping"}, "captcha")>>

WalmartRules ==
  <<Rule({"item-stack"}, "ok"),
    Rule({"product-title"}, "ok"),
    Rule({"0-results-for"}, "ok"),
    Rule({"re-captcha", "blockscript"}, "captcha")>>

MapsRules ==
  <<Rule({"/sorry/", "unusual-traffic"}, "captcha"),
    Rule({"at:consent."}, "consent"),
    Rule({"feed"}, "ok"),
    Rule({"at:/maps/place/"}, "ok"),
    Rule({"consent.google.com"}, "consent"),
    Rule({"enablejs", "noscript"}, "empty")>>

LazadaRules ==
  <<Rule({"at:_____tmd_____", "at:/punish"}, "captcha"),
    Rule({"sufei-punish", "x5secdata"}, "captcha"),
    Rule({"product-item"}, "ok")>>

\* No page of this target is known to be a served one: it has no "ok".
ShopeeRules ==
  <<Rule({"nginx-403"}, "block"),
    Rule({"login-required"}, "block"),
    Rule({"empty-shell"}, "block")>>
----------------------------------------------------------------------------
(* The declarations the runners read: whether there is a front page, a     *)
(* search box to type into, a consent wall the harness knows how to clear; *)
(* whether the results are built by script; the warm-up pages of each      *)
(* rung, and the kinds of the actions declared on a warm-up page, in       *)
(* order.  A page is named for its host.                                   *)

Target(rules, home, box, dismiss, script, ladder, actions) ==
  [rules |-> rules, home |-> home, box |-> box, dismiss |-> dismiss,
   script |-> script, ladder |-> ladder, actions |-> actions]
NoLadder == [rung \in {} |-> <<>>]
NoActions == [page \in {} |-> <<>>]

Read == <<"scroll", "settle", "scroll", "settle">>
Ask == <<"type", "settle">>

GoogleLadder ==
  [rung \in {"L1", "L2", "L3", "N1", "N3"} |->
     CASE rung = "L1" -> <<"imghp">>
       [] rung = "L2" -> <<"translate", "scholar", "imghp">>
       [] rung = "L3" -> <<"theverge", "wikihow", "translate", "scholar",
                           "imghp", "trends">>
       [] rung = "N1" -> <<"theverge">>
       [] rung = "N3" -> <<"theverge", "wikihow", "arstechnica", "wired",
                           "cnn", "cnet">>]

GoogleActions ==
  [page \in {"theverge", "wikihow", "scholar", "imghp", "translate"} |->
     CASE page \in {"theverge", "wikihow"} -> Read
       [] page \in {"scholar", "imghp"} -> Ask
       [] page = "translate" -> Ask \o Ask]

IpInfo == Target(IpInfoRules, FALSE, FALSE, FALSE, FALSE, NoLadder, NoActions)
GoogleSerp ==
  Target(GoogleRules, TRUE, TRUE, TRUE, TRUE, GoogleLadder, GoogleActions)
DuckDuckGoSerp ==
  Target(DuckDuckGoRules, FALSE, FALSE, FALSE, FALSE, NoLadder, NoActions)
BingSerp == Target(BingRules, FALSE, FALSE, FALSE, FALSE, NoLadder, NoActions)
AmazonSearch ==
  Target(AmazonRules, TRUE, TRUE, FALSE, FALSE,
         [rung \in {"L1"} |-> <<"bestsellers">>],
         [page \in {"bestsellers"} |-> Read])
WalmartSearch ==
  Target(WalmartRules, FALSE, FALSE, FALSE, TRUE, NoLadder, NoActions)
GoogleMapsSearch ==
  Target(MapsRules, FALSE, FALSE, TRUE, TRUE, NoLadder, NoActions)
LazadaSearch == Target(LazadaRules, FALSE, FALSE, FALSE, TRUE, NoLadder, NoActions)

\* A front page for the warm-up to end on, and no search box to type into.
ShopeeSearch ==
  Target(ShopeeRules, TRUE, FALSE, FALSE, TRUE,
         [rung \in {"L1"} |-> <<"help.shopee">>], NoActions)

TargetNames == {"ipinfo", "google_serp", "ddg_serp", "bing_serp", "amazon_search",
                "walmart_search", "google_maps", "lazada_search", "shopee_search"}
TARGETS ==
  [name \in TargetNames |->
     CASE name = "ipinfo" -> IpInfo
       [] name = "google_serp" -> GoogleSerp
       [] name = "ddg_serp" -> DuckDuckGoSerp
       [] name = "bing_serp" -> BingSerp
       [] name = "amazon_search" -> AmazonSearch
       [] name = "walmart_search" -> WalmartSearch
       [] name = "google_maps" -> GoogleMapsSearch
       [] name = "lazada_search" -> LazadaSearch
       [] name = "shopee_search" -> ShopeeSearch]
====
