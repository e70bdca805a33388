---- MODULE Engines ----
(***************************************************************************)
(* nmbench/engines: the eleven engines of the registry, as what the        *)
(* runners ask of them.  An engine is a record of its declarations, of     *)
(* what it needs installed, of what open() acquires and gives back, and of *)
(* its session.  A session is a record of how its methods behave where     *)
(* they differ; an attempt (search, fetch) is the set of the results it    *)
(* can have, given what the tab shows when it starts and the world: the    *)
(* pages a target may answer with, and what may go wrong.                  *)
(***************************************************************************)
EXTENDS Targets

\* What the tab of a session shows: nothing yet, a page of the warm-up, the
\* target's front page, its consent wall, the browser's own error page, or an
\* answer.  `box` is what the page's search box holds, as the positions of
\* the queries typed into it; an answer keeps the query it answers.
Tab(shows, box) == [shows |-> shows, box |-> box]
Shows == {"nothing", "warm", "front", "wall", "failure", "answer"}
NoTab == Tab("nothing", <<>>)

\* The errors a failed connection can leave in a row.  The tunnel's failure is
\* told from any other by the name the engine's own message gives it.
Named == {"error", "transport"}
Unnamed == {"error"}
----------------------------------------------------------------------------
(* What open() acquires, in order; what of it is given back only once the  *)
(* browser has closed without raising; whether that close can raise.       *)

Opens(stack, late, raises) == [stack |-> stack, late |-> late, raises |-> raises]

HttpOpen == Opens(<<"client">>, {}, FALSE)
CurlCffiOpen == Opens(<<"client">>, {}, FALSE)
ChromiumOpen == Opens(<<"playwright", "browser">>, {}, TRUE)
\* The profile is made before the launch and removed after the close.
PatchrightOpen == Opens(<<"playwright", "profile", "browser">>, {"profile"}, TRUE)
RebrowserOpen == Opens(<<"playwright", "browser">>, {}, TRUE)
CloakOpen == Opens(<<"browser">>, {}, TRUE)
CamoufoxOpen == Opens(<<"browser">>, {}, TRUE)
ObscuraOpen == Opens(<<"process", "playwright", "browser">>, {}, TRUE)
SeleniumBaseOpen == Opens(<<"browser">>, {}, FALSE)
BotasaurusOpen == Opens(<<"browser">>, {}, FALSE)
ZendriverOpen == Opens(<<"loop", "browser">>, {}, FALSE)

\* What is left of the resources `held` when the session is closed, its
\* close raising or not.
LeftoverUntried(opens, held, raised) ==   \* nothing is in a `finally`
  IF raised \/ "browser" \notin held THEN held ELSE {}
Leftover(opens, held, raised) ==
  IF raised \/ "browser" \notin held THEN held \cap opens.late ELSE {}
----------------------------------------------------------------------------
(* What check() looks for on the machine.                                  *)

ChromiumNeeds(driver) == {driver, driver \o " chromium"}
CloakNeeds == {"cloakbrowser", "cloakbrowser chromium"}
CamoufoxNeeds == {"camoufox"}
ObscuraNeeds == {"obscura", "playwright"}
CurlCffiNeeds == {"curl_cffi", "the impersonated profile"}
SeleniumBaseNeeds == {"seleniumbase", "selenium"}
BotasaurusNeeds == {"botasaurus_driver", "chrome"}
ZendriverNeeds == {"zendriver"}
----------------------------------------------------------------------------
(* The sessions: whether there is a page for the runner, whether fetch     *)
(* opens one of its own and looks for the wall, what goto makes of a page  *)
(* that does not arrive (it raises, or the tab shows the browser's error   *)
(* page), who types, and how an error of the connection names itself.      *)

HttpSession == [pages |-> FALSE, own_page |-> FALSE, clears |-> FALSE,
                misses |-> {"raised"}, types |-> "nothing", says |-> Unnamed]
CurlCffiSession == [HttpSession EXCEPT !.says = Named]
ChromiumSession == [pages |-> TRUE, own_page |-> TRUE, clears |-> TRUE,
                    misses |-> {"raised"}, types |-> "page", says |-> Named]
CamoufoxSession == ChromiumSession
ObscuraSession == ChromiumSession
SeleniumBaseSession == [pages |-> TRUE, own_page |-> FALSE, clears |-> FALSE,
                        misses |-> {"raised"}, types |-> "nothing", says |-> Named]
BotasaurusSession == [pages |-> TRUE, own_page |-> FALSE, clears |-> FALSE,
                      misses |-> {"raised", "shown"}, types |-> "nothing", says |-> Unnamed]
ZendriverSession == [BotasaurusSession EXCEPT !.types = "tab"]
----------------------------------------------------------------------------
(* The declarations.                                                       *)

ChromiumEngine ==
  [session |-> ChromiumSession, opens |-> ChromiumOpen,
   needs |-> ChromiumNeeds("playwright"), blocking |-> TRUE, headful |-> TRUE,
   align |-> FALSE, geoip |-> FALSE, hands |-> {"off", "trueman"},
   typing |-> TRUE, binary |-> TRUE, relay |-> FALSE, exit_ip |-> FALSE]
PatchrightEngine == [ChromiumEngine EXCEPT !.align = TRUE, !.opens = PatchrightOpen,
                                           !.needs = ChromiumNeeds("patchright")]
RebrowserEngine == [ChromiumEngine EXCEPT !.align = TRUE, !.opens = RebrowserOpen,
                                          !.needs = ChromiumNeeds("rebrowser_playwright")]
CloakEngine == [ChromiumEngine EXCEPT !.align = TRUE, !.geoip = TRUE,
                                      !.hands = {"off", "engine", "trueman"}, !.binary = FALSE,
                                      !.opens = CloakOpen, !.needs = CloakNeeds]
CamoufoxEngine == [CloakEngine EXCEPT !.session = CamoufoxSession,
                                      !.opens = CamoufoxOpen, !.needs = CamoufoxNeeds]
ObscuraEngine == [ChromiumEngine EXCEPT !.session = ObscuraSession, !.opens = ObscuraOpen,
                                        !.needs = ObscuraNeeds, !.headful = FALSE,
                                        !.hands = {"off"}, !.typing = FALSE,
                                        !.binary = FALSE, !.exit_ip = TRUE]
HttpEngine == [ChromiumEngine EXCEPT !.session = HttpSession, !.opens = HttpOpen,
                                     !.needs = {}, !.blocking = FALSE,
                                     !.headful = FALSE, !.hands = {"off"},
                                     !.typing = FALSE, !.binary = FALSE]
CurlCffiEngine == [HttpEngine EXCEPT !.session = CurlCffiSession,
                                     !.opens = CurlCffiOpen, !.needs = CurlCffiNeeds]
SeleniumBaseEngine == [HttpEngine EXCEPT !.session = SeleniumBaseSession,
                                         !.opens = SeleniumBaseOpen,
                                         !.needs = SeleniumBaseNeeds,
                                         !.headful = TRUE, !.binary = TRUE, !.relay = TRUE]
BotasaurusEngine == [SeleniumBaseEngine EXCEPT !.session = BotasaurusSession,
                                               !.opens = BotasaurusOpen, !.align = TRUE,
                                               !.needs = BotasaurusNeeds]
ZendriverEngine == [BotasaurusEngine EXCEPT !.session = ZendriverSession,
                                            !.opens = ZendriverOpen, !.typing = TRUE,
                                            !.needs = ZendriverNeeds]

EngineNames == {"http", "chromium", "camoufox", "patchright", "obscura", "cloak",
                "curlcffi", "seleniumbase", "zendriver", "rebrowser", "botasaurus"}
REGISTRY ==
  [name \in EngineNames |->
     CASE name = "http" -> HttpEngine
       [] name = "chromium" -> ChromiumEngine
       [] name = "camoufox" -> CamoufoxEngine
       [] name = "patchright" -> PatchrightEngine
       [] name = "obscura" -> ObscuraEngine
       [] name = "cloak" -> CloakEngine
       [] name = "curlcffi" -> CurlCffiEngine
       [] name = "seleniumbase" -> SeleniumBaseEngine
       [] name = "zendriver" -> ZendriverEngine
       [] name = "rebrowser" -> RebrowserEngine
       [] name = "botasaurus" -> BotasaurusEngine]

\* validate_preset: a preset that blocks script empties a page built by it.
\* It raises before the attempt has a row, from the engines that block.
PresetRaises(engine, preset, target) ==
  engine.blocking /\ preset = "aggressive" /\ target.script
----------------------------------------------------------------------------
(* The web, as far as the rules look at it.                                *)

MarksOf(rules, verdict) ==
  UNION {rules[i].marks : i \in {j \in DOMAIN rules : rules[j].verdict = verdict}}

FrontPage == {"body", "noscript"}
WallPage == {"body", "noscript", "consent.google.com"}
Page(target, kind) ==
  CASE kind = "results" -> {"body"} \cup MarksOf(target.rules, "ok")
    [] kind = "panel" -> {"body", "noscript", "consent.google.com"}
                           \cup MarksOf(target.rules, "ok")
    [] kind = "refusal" -> {"body"} \cup MarksOf(target.rules, "captcha")
    [] kind = "wall" -> WallPage
    [] kind = "scaffold" -> {"body", "enablejs", "noscript"}
    [] kind = "nothing" -> {}
Kinds == {"results", "panel", "refusal", "wall", "scaffold", "nothing"}
HasResults(kind) == kind \in {"results", "panel"}
----------------------------------------------------------------------------
(* An attempt's result: the verdict and the error of its row, whether the  *)
(* judged page held the results of its own query, the tab it leaves, and   *)
(* whether it has a body to give to the archive.                           *)

Judged(target, kind, tab, position) ==
  [verdict |-> Judge(target.rules, Page(target, kind)), error |-> "none",
   own |-> HasResults(kind) /\ tab.box = <<position>>, tab |-> tab,
   body |-> kind # "nothing"]
Failed(error, tab, body) ==
  [verdict |-> "error", error |-> error, own |-> FALSE, tab |-> tab, body |-> body]

\* The page the query was typed into, read as if it were the answer.
Stale(target, tab) ==
  [verdict |-> Judge(target.rules,
                     IF tab.shows = "answer" THEN Page(target, "results")
                     ELSE FrontPage),
   error |-> "none", own |-> FALSE, tab |-> tab, body |-> TRUE]
----------------------------------------------------------------------------
(* The way to the box, and what is typed into it.                          *)

HasBox(tab) == tab.shows \in {"front", "answer"}

\* ensure_entry: to the front page, unless the box is there already.
Entry(tab, world) ==
  IF HasBox(tab) THEN {tab}
  ELSE {Tab("front", <<>>)}
         \cup (IF "wall" \in world.web THEN {Tab("wall", <<>>)} ELSE {})

\* dismiss_consent: the wall goes when the target declares how.
Dismissed(target, tab) ==
  IF tab.shows = "wall" /\ target.dismiss THEN Tab("front", <<>>) ELSE tab

\* A box whose value cannot be read is neither cleared nor verified.
Readable(world) == "unreadable" \notin world.faults

\* clear_box: the last query is selected, for the typing to replace it.
ClearBox(box, world) == IF Readable(world) THEN <<>> ELSE box

\* The keys reach the box, or a page that redraws it loses them.
TypeInto(box, position, world) ==
  {Append(box, position)} \cup (IF "keys" \in world.faults THEN {box} ELSE {})

\* verify_box: a box that does not hold the row's query is not submitted.
VerifyBoxTrusts(box, position, world) == TRUE
VerifyBox(box, position, world) == Readable(world) => box = <<position>>

\* submit_query: what the box can hold when Enter is pressed.
SubmitQuery(tab, position, world) ==
  {box \in TypeInto(ClearBox(tab.box, world), position, world) :
     VerifyBox(box, position, world)}

\* run_search: the entry, the wall, the query and the navigation it causes;
\* whatever raises on the way is an error of the row, kept with the page the
\* tab is on when that can still be read.
RunSearch(engine, target, tab, position, world) ==
  LET ready == {Dismissed(target, entered) : entered \in Entry(tab, world)}
      asked == UNION {SubmitQuery(t, position, world) : t \in {u \in ready : HasBox(u)}}
  IN  {Failed(why, tab, read) : why \in engine.session.says, read \in BOOLEAN}
        \cup {Judged(target, kind, Tab("answer", box), position) :
                kind \in world.web, box \in asked}

\* zendriver's search: the same steps on one tab.  The box is emptied through
\* its setter and always compared, and a navigation is waited for and not
\* insisted on.
ZendriverSearch(engine, target, tab, position, world) ==
  LET ready == {Dismissed(target, entered) : entered \in Entry(tab, world)}
      asked == {u \in ready : HasBox(u) /\ Readable(world)}
  IN  {Failed(why, tab, read) : why \in engine.session.says, read \in BOOLEAN}
        \cup {Judged(target, kind, Tab("answer", <<position>>), position) :
                kind \in IF asked = {} THEN {} ELSE world.web}
        \cup {Stale(target, t) : t \in asked}

Search(engine, target, tab, position, world) ==
  IF engine.session.types = "tab"
  THEN ZendriverSearch(engine, target, tab, position, world)
  ELSE RunSearch(engine, target, tab, position, world)
----------------------------------------------------------------------------
(* fetch: straight to the address of the query.                            *)

\* clear_entry_wall: a wall that is cleared shows what was behind it, one
\* that will not go away is judged as it is.
Behind(engine, target, kind, world) ==
  IF engine.session.clears /\ target.dismiss /\ kind = "wall"
  THEN {kind} \cup (world.web \cap {"results", "refusal", "scaffold"})
  ELSE {kind}

\* The tab after a goto that raised, or that ended on the browser's error page.
LeftBy(missed, tab) == IF missed = "raised" THEN tab ELSE Tab("failure", <<>>)
FailedLeaving(engine, left) == {Failed(why, left, FALSE) : why \in engine.session.says}

\* A driver left on the browser's error page reads it as an error before
\* anything judges it.
Fetch(engine, target, tab, position, world) ==
  {Judged(target, kind, Tab("answer", <<position>>), position) :
     kind \in UNION {Behind(engine, target, first, world) : first \in world.web}}
    \cup UNION {FailedLeaving(engine, LeftBy(missed, tab)) : missed \in engine.session.misses}

\* Whether a page comes with the session, for the runner to open.
HasPages(engine) == engine.session.pages
====
