---- MODULE ProbeRun ----
(***************************************************************************)
(* scripts/probes/probe_and_hold.py at work, and scripts/run_ladder.py     *)
(* above it.  One process takes identities off a deque; each is an exit    *)
(* drawn, a session opened on it, the warm-up pages, a probe and, while    *)
(* the answers are served, the queries that hold the exit.  A probe that   *)
(* never reached the target puts its identity back at the front.  Around   *)
(* it: a web that answers as it likes, a relay whose pumps count bytes     *)
(* between the program's steps, an operator with a stop file and a Ctrl-C, *)
(* and launches, closes and look-ups that fail.                            *)
(*                                                                         *)
(* The arguments say how much of that a behaviour has: args.web is what    *)
(* the target may answer, args.faults what may go wrong.                   *)
(***************************************************************************)
EXTENDS ProbeSummary, LadderPlan, ExitLookup, Breaker, Archive

CONSTANTS
  Plans,          \* the arguments the program may be started with
  InertLimit,     \* InteractWatch: limit
  Retries,        \* run_ladder: --retries
  Traffic         \* bound: movements of the relay's counter in a session

ASSUME InertAssumption == InertLimit \in Nat \ {0}
ASSUME LadderAssumption == Retries \in Nat /\ Traffic \in Nat
\* The numbers of a plan are numbers, its axes, its settings and the pages
\* given lists, its provider one with a definition, and a target answers with
\* pages.  --redraws and --breaker may be any integer.  There is an exit to
\* draw, and an address is in one country.
ASSUME PlanAssumption ==
  \A plan \in Plans :
    /\ plan.identities \in Nat /\ plan.redraws \in Int /\ plan.breaker \in Int
    /\ plan.series \in Int
    /\ \A axis \in {"engines", "targets", "countries", "params", "entry", "geo",
                    "humanize", "interact"} : plan[axis] \in Seq(ToSet(plan[axis]))
    /\ \A urls \in plan.given : urls \in Seq(ToSet(urls))
    /\ \A items \in {plan.param} \cup ToSet(plan.params) : items \in Seq(ToSet(items))
    /\ plan.default \in ProviderNames
    /\ plan.web \subseteq Kinds
    /\ plan.exits \in Seq(ToSet(plan.exits)) /\ plan.exits # <<>>
    /\ \A a, b \in ToSet(plan.exits) \cup {NoExit} : a.ip = b.ip => a.country = b.country

VARIABLES
  args,       \* the arguments
  pc,         \* where the process is
  cells,      \* main: cells, built from the arguments
  work,       \* main: the deque of <<round, cell, redraw>>
  spent,      \* main: redraws_spent
  breakers,   \* main: a CircuitBreaker per cell
  watch,      \* main: TransportWatch
  inert,      \* main: InteractWatch
  archive,    \* main: ArtifactStore
  rows,       \* main: what on_row was given, for the summary
  registry,   \* main: ExitRegistry
  located,    \* gateway: the answers of locate, and its misses in a row
  at,         \* the identity in hand
  identity,   \* main: what was looked up of its exit
  held,       \* what the session has acquired and not given back
  tab,        \* what the session's page shows
  walk,       \* run_identity: where it is
  row,        \* the row given to on_row
  probe,      \* what the row of position 0 said
  judged,     \* run_identity returned
  raised,     \* the exception unwinding the session
  meter,      \* the relay's counter and the snapshot on_row keeps
  stopfile,   \* the operator's request is there
  code,       \* exit code of the process
  ladder,     \* run_ladder: attempts, and whether this one outlived the start
  history,    \* per cell, what became of each draw, oldest first
  late,       \* sessions opened and attempts sent since the request
  left,       \* what ended sessions left behind
  ended       \* run_ladder: how its attempts ended

lookups == <<registry, located>>
seat == <<at, identity>>
mainVars == <<work, spent, breakers, watch, inert, archive, rows, lookups>>
sessionVars == <<seat, held, tab, walk, row, probe, judged, raised, meter>>
supervisorVars == <<args, cells, code, ladder, ended>>
recordVars == <<history, late, left>>
vars == <<mainVars, sessionVars, supervisorVars, recordVars, pc, stopfile>>

NotExited == -1
ExitStopped == 3
Interrupted == 130

Slot(round, cell, redraw) == [round |-> round, cell |-> cell, redraw |-> redraw]
NoSlot == Slot(-1, 1, 0)
NoWalk == [page |-> 1, attempt |-> 1, delivered |-> 0, loaded |-> 0, position |-> 0]
NoRow == [phase |-> "none", verdict |-> "none", error |-> "none", page |-> "none", own |-> FALSE,
          body |-> FALSE, kept |-> FALSE, planned |-> 0, done |-> 0, bytes |-> 0]
NewMeter == [moved |-> 0, at |-> 0, counted |-> 0, between |-> 0]
NewInert == [blank |-> 0, landed |-> FALSE, tripped |-> FALSE]

Cell == cells[at.cell]
Keys == {<<c.engine, c.target>> : c \in ToSet(cells)}
Key == <<Cell.engine, Cell.target>>
Engine == REGISTRY[Cell.engine]
TargetOf == TARGETS[Cell.target]
Planned == WarmSequence(args, TargetOf, Cell.level)
Relayed == Engine.relay /\ ~args.direct
Goes(fault) == fault \in args.faults
Unwinding == raised # "none"
----------------------------------------------------------------------------
(* What became of a draw: the round and the redraw it was, what the row of *)
(* position 0 said, whether run_identity returned, and how it was over.    *)

Fate(end) == [round |-> at.round, redraw |-> at.redraw, probe |-> probe,
              judged |-> judged, end |-> end]
Noted(end) == [history EXCEPT ![at.cell] = Append(@, Fate(end))]

Recorded(served) ==
  [breakers EXCEPT ![at.cell] = CircuitRecord(@, served, args.breaker)]
TrippedFor(why) == [breakers EXCEPT ![at.cell] = Trip(@, why)]

\* Fields of a process that has just started.
Fresh ==
  /\ work = <<>> /\ spent = 0 /\ breakers = <<>>
  /\ watch = NewWatch /\ inert = NewInert /\ archive = <<>> /\ rows = <<>>
  /\ registry = <<>> /\ located = NothingLocated /\ identity = NoIdentity
  /\ at = NoSlot /\ held = {} /\ tab = NoTab /\ walk = NoWalk
  /\ row = NoRow /\ probe = "none" /\ judged = FALSE /\ raised = "none"
  /\ meter = NewMeter
  /\ history = <<>>
\* The next process of the supervisor starts from them.
Renewed ==
  /\ work' = <<>> /\ spent' = 0 /\ breakers' = <<>>
  /\ watch' = NewWatch /\ inert' = NewInert /\ archive' = <<>> /\ rows' = <<>>
  /\ registry' = <<>> /\ located' = NothingLocated /\ identity' = NoIdentity
  /\ at' = NoSlot /\ held' = {} /\ tab' = NoTab /\ walk' = NoWalk
  /\ row' = NoRow /\ probe' = "none" /\ judged' = FALSE /\ raised' = "none"
  /\ meter' = NewMeter
  /\ history' = <<>>

Init ==
  /\ args \in Plans /\ cells = BuildCells(args)
  /\ pc = IF args.supervised THEN "ladder" ELSE "start"
  /\ Fresh
  /\ stopfile = FALSE /\ code = NotExited
  /\ ladder = [attempts |-> 0, aged |-> FALSE] /\ ended = <<>>
  /\ late = [opened |-> 0, sent |-> 0] /\ left = {}
----------------------------------------------------------------------------
(* run_ladder.                                                             *)

\* preflight: enough identities, a plan the program accepts, and, unless it
\* was told to go without asking, a pool that answers with an exit.
LadderPreflight ==
  /\ pc = "ladder"
  /\ \E answers \in {TRUE} \cup (IF Goes("pool") /\ ~args.direct_ok THEN {FALSE} ELSE {}) :
       IF LadderRefuses(args) \/ ~answers
       THEN pc' = "done" /\ code' = 2 /\ UNCHANGED ladder
       ELSE IF args.dry_run
       THEN pc' = "done" /\ code' = 0 /\ UNCHANGED ladder
       ELSE /\ pc' = "start"
            /\ ladder' = [ladder EXCEPT !.attempts = @ + 1]
            /\ UNCHANGED code
  /\ UNCHANGED <<mainVars, sessionVars, recordVars, args, cells, ended, stopfile>>

MayRestartEarly ==   \* any early death is taken for a failed start
  code # 0 /\ ~ladder.aged /\ ladder.attempts <= Retries
MayRestart ==
  /\ code \notin {0, ExitStopped, Interrupted}
  /\ ~ladder.aged /\ ladder.attempts <= Retries

Attempted == ended' = Append(ended, [code |-> code, aged |-> ladder.aged])

\* The attempt is over: the same plan once more, or what is left as it is.
Restart ==
  /\ pc = "over" /\ args.supervised /\ MayRestart
  /\ pc' = "start" /\ Renewed /\ code' = NotExited
  /\ ladder' = [attempts |-> ladder.attempts + 1, aged |-> FALSE]
  /\ Attempted
  /\ UNCHANGED <<args, cells, stopfile, late, left>>

Leave ==
  /\ pc = "over" /\ ~(args.supervised /\ MayRestart)
  /\ pc' = "done"
  /\ Attempted
  /\ UNCHANGED <<mainVars, sessionVars, recordVars, args, cells, code, ladder, stopfile>>
----------------------------------------------------------------------------
(* main, up to the session.                                                *)

Start ==
  /\ pc = "start"
  /\ IF Accepted(args) /\ ~args.dry
     THEN /\ pc' = "head"
          /\ LET n == Len(cells)
             IN  /\ work' = [i \in 1..(args.identities * n) |->
                               Slot((i - 1) \div n, 1 + ((i - 1) % n), 0)]
                 /\ breakers' = [i \in 1..n |-> NewCircuitBreaker]
                 /\ history' = [i \in 1..n |-> <<>>]
          /\ archive' = NoBodies(Keys)
          /\ UNCHANGED code
     ELSE /\ pc' = "over"
          /\ code' = Preflight(args)
          /\ UNCHANGED <<work, breakers, history, archive>>
  /\ UNCHANGED <<sessionVars, args, cells, ladder, ended, spent, watch, inert, rows,
                 lookups, late, left, stopfile>>

\* The deque is empty, or the operator has asked before the next identity.
HeadEnds ==
  /\ pc = "head"
  /\ work = <<>> \/ stopfile
  /\ pc' = "over"
  /\ code' = IF work # <<>> THEN ExitStopped ELSE 0
  /\ UNCHANGED <<mainVars, sessionVars, recordVars, args, cells, ladder, ended, stopfile>>

RestPeeked ==   \* looked at before it is taken
  IF Tripped(breakers[Head(work).cell]) THEN work ELSE Tail(work)
Rest == Tail(work)
HeadTakes ==
  /\ pc = "head" /\ work # <<>> /\ ~stopfile
  /\ work' = Rest
  /\ IF Tripped(breakers[Head(work).cell])
     THEN UNCHANGED <<pc, at>>
     ELSE pc' = "draw" /\ at' = Head(work)
  /\ UNCHANGED <<spent, breakers, watch, inert, archive, rows, lookups, identity, held, tab, walk,
                 row, probe, judged, raised, meter, supervisorVars, recordVars, stopfile>>

\* The exit is drawn and looked up.  An arm that needs the exit's timezone
\* from the runner is not run without one.
\* A setting named twice is an exception outside every session; a request
\* the gateway's dialect has no name for is one inside the look-up, which
\* finds no timezone, and then inside the session's opening.
NeedsZone == Cell.geo = "align" /\ ~Engine.geoip
Unsendable == ~Sendable(GatewayOf(args), Request(args, Cell)) /\ ~args.direct
Exit ==
  IF Unsendable THEN NoExit
  ELSE IF args.direct THEN args.exits[1]
  ELSE args.exits[1 + ((at.round + at.redraw) % Len(args.exits))]
Draw ==
  /\ pc = "draw"
  /\ IF NamedTwice(args)
     THEN pc' = "over" /\ code' = 1 /\ UNCHANGED <<history, lookups, identity>>
     ELSE /\ registry' = Enrolled(registry, Exit.ip)
          /\ located' \in Locate(located, Exit, Goes("locate"))
          /\ identity' = [ip |-> Exit.ip, label |-> LabelOf(registry', Exit.ip),
                          country |-> Kept(located', Exit.ip)]
          /\ \E zone \in {~Unsendable} \cup (IF Goes("zone") THEN {FALSE} ELSE {}) :
               IF NeedsZone /\ ~zone
               THEN pc' = "head" /\ history' = Noted("skipped")
               ELSE pc' = "open" /\ UNCHANGED history
          /\ UNCHANGED code
  /\ UNCHANGED <<work, spent, breakers, watch, inert, archive, rows, at, held, tab, walk, row,
                 probe, judged, raised, meter, args, cells, ladder, ended, late, left,
                 stopfile>>

\* Whatever these two steps call may raise with no session's try around it.
Crash ==
  /\ pc \in {"head", "draw"} /\ Goes("crash")
  /\ pc' = "over" /\ code' = 1
  /\ UNCHANGED <<mainVars, sessionVars, recordVars, args, cells, ladder, ended, stopfile>>
----------------------------------------------------------------------------
(* The session is opened.                                                  *)

Relays == IF Relayed THEN {"relay"} ELSE {}
Stack == Engine.opens.stack
CountsOpened == late' = [late EXCEPT !.opened = IF stopfile THEN @ + 1 ELSE @]

Open ==
  /\ pc = "open" /\ ~Unsendable
  /\ held' = Relays \cup ToSet(Stack)
  /\ pc' = IF Engine.exit_ip /\ ~args.direct THEN "direct" ELSE "page"
  /\ CountsOpened
  /\ UNCHANGED <<mainVars, supervisorVars, seat, tab, walk, row, probe, judged, raised,
                 meter, history, left, stopfile>>

\* A launch that fails with some of it acquired; only before a browser, or on
\* its process, is it known for an engine that cannot run.  A request that
\* cannot be spelled is another such failure.
OpenFails ==
  /\ pc = "open" /\ (Goes("launch") \/ Unsendable)
  /\ \E k \in 0..(Len(Stack) - 1), why \in {"unavailable", "exception"} :
       /\ why = "unavailable" => ~Unsendable /\ ToSet(SubSeq(Stack, 1, k)) \subseteq {"process"}
       /\ held' = Relays \cup ToSet(SubSeq(Stack, 1, k))
       /\ raised' = why
  /\ pc' = "close"
  /\ CountsOpened
  /\ UNCHANGED <<mainVars, supervisorVars, seat, tab, walk, row, probe, judged, meter,
                 history, left, stopfile>>

\* A browser that left from this machine's own address stops its cell.
CheckDirect ==
  /\ pc = "direct"
  /\ \/ pc' = "page" /\ UNCHANGED <<breakers, raised>>
     \/ /\ Goes("direct")
        /\ pc' = "close" /\ raised' = "went_direct"
        /\ breakers' = TrippedFor("went_direct")
  /\ UNCHANGED <<work, spent, watch, inert, archive, rows, lookups, seat, held, tab, walk, row, probe,
                 judged, meter, supervisorVars, recordVars, stopfile>>

\* new_page, which an HTTP client's session does not have.
OpenPage ==
  /\ pc = "page"
  /\ IF HasPages(Engine)
     THEN pc' = "walk" /\ UNCHANGED raised
     ELSE pc' = "close" /\ raised' = "exception"
  /\ meter' = NewMeter
  /\ UNCHANGED <<mainVars, supervisorVars, recordVars, seat, held, tab, walk, row, probe,
                 judged, stopfile>>
----------------------------------------------------------------------------
(* run_identity: the warm-up pages, then the queries.                      *)

\* What on_row reads off the relay when a row is done: everything since the
\* last snapshot.
Since == IF "relay" \in held THEN meter.moved - meter.at ELSE 0
CountsSent == late' = [late EXCEPT !.sent = IF stopfile THEN @ + 1 ELSE @]

WarmTab(page, came) ==
  CASE came # "loaded" -> {LeftBy(came, tab)}
    [] came = "loaded" /\ page = "home" -> Entry(Tab("warm", <<>>), args)
    [] came = "loaded" /\ page # "home" -> {Tab("warm", <<>>)}

\* One visit: loaded or not, an action of the page landing after another.
\* A visit whose goto raised is tried once more.
Visit ==
  /\ pc = "walk" /\ walk.page <= Len(Planned)
  /\ \E came \in {"loaded"} \cup (IF Goes("visit") THEN Engine.session.misses ELSE {}) :
       LET page    == Planned[walk.page]
           failed  == came = "raised"
           actions == IF failed THEN <<>> ELSE ActionsFor(TargetOf, page, KindsOf(Cell))
       IN  /\ tab' \in WarmTab(page, came)
           /\ \E done \in Landings(actions), why \in IF failed THEN Engine.session.says ELSE {"none"} :
                row' = [NoRow EXCEPT !.phase = "warm", !.verdict = "warm_visit",
                                     !.page = page, !.error = why,
                                     !.planned = Len(actions), !.done = done,
                                     !.bytes = Since]
           /\ walk' = IF failed /\ walk.attempt = 1
                      THEN [walk EXCEPT !.attempt = 2]
                      ELSE [walk EXCEPT !.page = @ + 1, !.attempt = 1,
                                        !.delivered = IF failed THEN @ ELSE @ + 1,
                                        !.loaded = IF came = "loaded" THEN @ + 1 ELSE @]
  /\ pc' = "row"
  /\ CountsSent
  /\ UNCHANGED <<mainVars, supervisorVars, seat, held, probe, judged, raised, meter,
                 history, left, stopfile>>

Results ==
  IF Cell.entry = "home"
  THEN Search(Engine, TargetOf, tab, walk.position, args)
  ELSE Fetch(Engine, TargetOf, tab, walk.position, args)

\* A preset that empties the target's page raises before there is a row.
Refuses == PresetRaises(Engine, args.preset, TargetOf)
SendQuery ==
  /\ pc = "walk" /\ walk.page > Len(Planned)
  /\ IF Refuses
     THEN /\ pc' = "close" /\ raised' = "exception"
          /\ UNCHANGED <<tab, row, archive, late>>
     ELSE /\ \E result \in Results, fits \in {TRUE} \cup (IF Goes("disk") THEN {FALSE} ELSE {}) :
               /\ tab' = result.tab
               /\ archive' = IF result.body THEN Saved(archive, result.verdict, Key, fits)
                             ELSE archive
               /\ row' = [NoRow EXCEPT
                           !.phase = IF walk.position = 0 THEN "probe" ELSE "hold",
                           !.verdict = result.verdict, !.error = result.error,
                           !.own = result.own, !.body = result.body,
                           !.kept = result.body /\ fits /\ Wanted(archive, result.verdict, Key),
                           !.bytes = Since]
          /\ pc' = "row" /\ CountsSent
          /\ UNCHANGED raised
  /\ UNCHANGED <<work, spent, breakers, watch, inert, rows, lookups, supervisorVars, seat, held, walk,
                 probe, judged, meter, history, left, stopfile>>

\* A fetch of its own page raises where the page is made or closed, outside
\* what fetch keeps as the error of a row.
FetchRaises ==
  /\ pc = "walk" /\ walk.page > Len(Planned)
  /\ Goes("death") /\ Cell.entry = "url" /\ Engine.session.own_page
  /\ pc' = "close" /\ raised' = "exception"
  /\ CountsSent
  /\ UNCHANGED <<mainVars, supervisorVars, seat, held, tab, walk, row, probe, judged,
                 meter, history, left, stopfile>>

\* on_row: the snapshot, the two watches, the request.
InertRecord(w) ==
  CASE row.phase # "warm" \/ row.planned = 0 -> w
    [] row.phase = "warm" /\ row.planned > 0 /\ row.done > 0 ->
         [w EXCEPT !.landed = TRUE]
    [] row.phase = "warm" /\ row.planned > 0 /\ row.done = 0 ->
         [w EXCEPT !.blank = IF @ < InertLimit THEN @ + 1 ELSE @,
                   !.tripped = @ \/ (~w.landed /\ w.blank + 1 >= InertLimit)]

WatchOutcome == IF row.verdict = "error" THEN row.error ELSE "ok"
LastQuery == walk.position + 1 = PerIdentity(args)
AfterRow ==
  CASE row.phase = "warm" -> "walk"
    [] row.phase # "warm" /\ row.verdict = "ok" /\ ~LastQuery -> "walk"
    [] OTHER -> "judge"

\* The columns of the row that the summary reads: main()'s of the identity,
\* run_identity's of the row.
Column ==
  [cell |-> at.cell, draw |-> Len(history[at.cell]), level |-> Cell.level,
   phase |-> row.phase, verdict |-> row.verdict, error |-> row.error, page |-> row.page,
   position |-> walk.position, ip |-> identity.ip, label |-> identity.label,
   country |-> identity.country, depth |-> Len(Planned),
   delivered |-> IF row.phase = "warm" THEN 0 ELSE walk.delivered,
   short |-> row.phase # "warm" /\ walk.delivered < Len(Planned)]

SnapshotForgotten == [meter EXCEPT !.counted = @ + row.bytes]
Snapshot == [meter EXCEPT !.at = meter.moved, !.counted = @ + row.bytes]

AskedBetweenIdentities == FALSE   \* the request is looked for at the head only
Asked == stopfile

OnRow ==
  /\ pc = "row"
  /\ meter' = Snapshot
  /\ rows' = Append(rows, Column)
  /\ probe' = CASE row.phase # "probe" -> probe
                [] row.phase = "probe" /\ row.verdict = "error" -> row.error
                [] row.phase = "probe" /\ row.verdict = "ok" -> "ok"
                [] OTHER -> "refused"
  /\ watch' = WatchRecord(watch, at.cell, WatchOutcome)
  /\ inert' = IF watch'.tripped THEN inert ELSE InertRecord(inert)
  /\ raised' = CASE watch'.tripped -> "transport_lost"
                 [] ~watch'.tripped /\ inert'.tripped -> "arm_inert"
                 [] ~watch'.tripped /\ ~inert'.tripped /\ Asked -> "stopped"
                 [] OTHER -> raised
  /\ pc' = IF raised' # "none" THEN "close" ELSE AfterRow
  /\ walk' = IF row.phase = "warm" \/ pc' # "walk" THEN walk
             ELSE [walk EXCEPT !.position = @ + 1]
  /\ row' = NoRow
  /\ UNCHANGED <<work, spent, breakers, archive, lookups, seat, held, tab, judged, supervisorVars,
                 recordVars, stopfile>>
----------------------------------------------------------------------------
(* main, after run_identity has returned.                                  *)

Budget == args.identities * Len(cells)
RedrawsOnceMore == at.redraw <= args.redraws /\ spent < Budget
Redraws == at.redraw < args.redraws /\ spent < Budget
Redrawn == Slot(at.round, at.cell, at.redraw + 1)

PutBackLast == Append(work, Redrawn)
PutBackLost == work
PutBack == <<Redrawn>> \o work

JudgeProbe ==
  /\ pc = "judge"
  /\ judged' = TRUE
  /\ IF probe = "transport"
     THEN /\ IF Redraws
             THEN work' = PutBack /\ spent' = spent + 1
             ELSE UNCHANGED <<work, spent>>
          /\ UNCHANGED breakers
     ELSE /\ breakers' = Recorded(probe = "ok")
          /\ UNCHANGED <<work, spent>>
  /\ pc' = "close"
  /\ UNCHANGED <<watch, inert, archive, rows, lookups, seat, held, tab, walk, row, probe, raised, meter,
                 supervisorVars, recordVars, stopfile>>

\* The session closes, and what unwinds is handled.  A close that raises takes
\* the place of whatever was unwinding, the end of the run included.
Handled(why) ==
  CASE why \in {"none", "went_direct"} -> breakers
    [] why = "unavailable" -> TrippedFor("engine_unavailable")
    [] why = "exception" -> Recorded(FALSE)
    [] OTHER -> breakers
EndsRun == {"transport_lost", "arm_inert", "stopped", "interrupt"}

Close ==
  /\ pc = "close"
  /\ \E fails \in {FALSE} \cup
                  (IF Goes("close") /\ Engine.opens.raises /\ "browser" \in held
                   THEN {TRUE} ELSE {}) :
       LET why == IF fails THEN "exception" ELSE raised
       IN  /\ left' = left \cup Leftover(Engine.opens, held \ {"relay"}, fails)
           /\ breakers' = Handled(why)
           /\ history' = Noted(why)
           /\ IF why \in EndsRun
              THEN /\ pc' = "over"
                   /\ code' = CASE why = "stopped" -> ExitStopped
                                [] why = "interrupt" /\ args.supervised -> Interrupted
                                [] OTHER -> 0
              ELSE pc' = "head" /\ UNCHANGED code
  /\ held' = {} /\ tab' = NoTab /\ walk' = NoWalk /\ probe' = "none" /\ identity' = NoIdentity
  /\ judged' = FALSE /\ raised' = "none" /\ meter' = NewMeter
  /\ UNCHANGED <<work, spent, watch, inert, archive, rows, lookups, at, row, args, cells, ladder, ended, late,
                 stopfile>>
----------------------------------------------------------------------------
(* Around the process.                                                     *)

\* The relay's pumps count while a session is open.
Move ==
  /\ Goes("traffic") /\ "relay" \in held
  /\ pc \in {"walk", "row", "judge"} /\ meter.moved < Traffic
  /\ meter' = [meter EXCEPT !.moved = @ + 1,
                            !.between = IF pc = "row" THEN @ + 1 ELSE @]
  /\ UNCHANGED <<mainVars, supervisorVars, recordVars, seat, held, tab, walk, row, probe,
                 judged, raised, pc, stopfile>>

AskToStop ==
  /\ Goes("stop") /\ ~stopfile /\ pc \notin {"over", "done"}
  /\ stopfile' = TRUE
  /\ UNCHANGED <<mainVars, sessionVars, supervisorVars, recordVars, pc>>

\* Ctrl-C while a page loads or sleeps.
Interrupt ==
  /\ Goes("interrupt") /\ pc = "walk"
  /\ pc' = "close" /\ raised' = "interrupt"
  /\ UNCHANGED <<mainVars, supervisorVars, recordVars, seat, held, tab, walk, row, probe,
                 judged, meter, stopfile>>

\* EARLY_DEATH_S go by in an attempt of run_ladder.
Age ==
  /\ args.supervised /\ Goes("crash") /\ ~ladder.aged
  /\ pc \notin {"ladder", "over", "done"}
  /\ ladder' = [ladder EXCEPT !.aged = TRUE]
  /\ UNCHANGED <<mainVars, sessionVars, recordVars, args, cells, code, ended, pc, stopfile>>

\* Nothing is left to do.
Done == pc = "done" /\ UNCHANGED vars
----------------------------------------------------------------------------
Process ==
  \/ LadderPreflight \/ Restart \/ Leave
  \/ Start \/ HeadEnds \/ HeadTakes \/ Draw \/ Crash
  \/ Open \/ OpenFails \/ CheckDirect \/ OpenPage
  \/ Visit \/ SendQuery \/ FetchRaises \/ OnRow \/ JudgeProbe \/ Close
Around == Move \/ AskToStop \/ Interrupt \/ Age

Next == Process \/ Around \/ Done
Spec == Init /\ [][Next]_vars /\ WF_vars(Process)
----------------------------------------------------------------------------
Places == {"ladder", "start", "head", "draw", "open", "direct", "page", "walk", "row",
           "judge", "close", "over", "done"}
Phases == {"warm", "probe", "hold"}
Rounds == 0..(args.identities - 1)

\* Every variable keeps its kind: a breaker for each cell, a deque of the
\* plan's identities, a session's resources only while there is a session.
TypeOK ==
  /\ pc \in Places
  /\ code \in {NotExited, 0, 1, 2, ExitStopped, Interrupted}
  /\ spent \in Nat /\ DOMAIN breakers \in {{}, DOMAIN cells}
  /\ DOMAIN history = DOMAIN breakers
  /\ \A i \in DOMAIN rows : rows[i].cell \in DOMAIN cells /\ rows[i].phase \in Phases
  /\ \A s \in ToSet(work) :
       s.round \in Rounds /\ s.cell \in DOMAIN cells /\ s.redraw \in {0} \cup (1..args.redraws)
  /\ watch.tripped \in BOOLEAN /\ inert.blank \in 0..InertLimit
  /\ held # {} => pc \in {"direct", "page", "walk", "row", "judge", "close"}
  /\ tab.shows \in Shows /\ row.verdict \in Verdicts \cup {"none", "warm_visit"}
  /\ walk.delivered \in Nat /\ meter.moved \in 0..Traffic
  /\ stopfile \in BOOLEAN /\ judged \in BOOLEAN /\ ladder.attempts \in 0..(Retries + 1)

DrawsIn(draws, round) == Picked(draws, {i \in DOMAIN draws : draws[i].round = round})
DrawsOf(c, round) == DrawsIn(history[c], round)
Unreached(d) == d.judged /\ d.probe = "transport"
Finished == pc \in {"over", "done"} /\ code = 0 /\ work = <<>>

\* The summary against what became of the draws: a probe row for each draw
\* that got as far, as many served; an error is not judged, and of what is
\* judged nothing but a consent wall is missing; a query that holds an exit
\* follows a served one of the position before it; and an identity has the
\* pages its own visits brought.
SummaryIsTrue(summary) ==
  /\ \A c \in DOMAIN history :
       LET ended_as(answers) ==
             Cardinality({i \in DOMAIN history[c] : history[c][i].probe \in answers})
           asked == ended_as({"ok", "refused", "error", "transport"})
           walls == Cardinality({i \in Probes(rows) : rows[i].cell = c /\ rows[i].verdict = "consent"})
       IN  /\ asked > 0 <=> c \in DOMAIN summary.cells
           /\ asked > 0 => /\ summary.cells[c].probes = asked
                           /\ summary.cells[c].served = ended_as({"ok"})
                           /\ summary.cells[c].judged = ended_as({"ok", "refused"}) - walls
  /\ \A p \in DOMAIN summary.held :
       summary.held[p].n <= IF p = 1 THEN Cardinality(Probes(rows) \cap Served(rows))
                            ELSE summary.held[p - 1].ok
  /\ \A i \in Probes(rows) :
       rows[i].delivered =
         Cardinality({j \in DOMAIN rows : /\ rows[j].phase = "warm" /\ rows[j].error = "none"
                                         /\ rows[j].cell = rows[i].cell
                                         /\ rows[j].draw = rows[i].draw})

\* The draws of an identity are numbered in order, each but the last one a
\* probe that never reached the target; and a run that emptied its deque has
\* drawn every identity of a cell it did not stop, giving one up unreached
\* only when no redraw was left for it.  The deque and the redraws of main().
InOrder(draws) ==
  \A i \in DOMAIN draws :
    draws[i].redraw = i - 1 /\ (i < Len(draws) => Unreached(draws[i]))
IdentitiesDrawn ==
  \A c \in DOMAIN history, round \in Rounds :
    LET draws == DrawsOf(c, round)
        n == Len(draws)
    IN  /\ InOrder(draws) /\ (n <= 1 \/ n <= args.redraws + 1)
        /\ Finished /\ ~Tripped(breakers[c]) =>
             n > 0 /\ (Unreached(draws[n]) => n > args.redraws \/ spent = Budget)

\* The draws, each by its cell and its place among those of the cell.
Drawn == UNION {{c} \X DOMAIN history[c] : c \in DOMAIN history}

\* No identity is counted twice and none is lost (IdentitiesDrawn); what the
\* run prints at its end agrees with its rows, and but for a redraw each no
\* more exits are drawn and no more attempts sent than it said before it
\* began.  probe_and_hold.py, describe(), the redraws of main(), summarise().
EveryIdentityAccounted ==
  /\ pc = "over" /\ history # <<>> =>
       /\ Cardinality(Drawn) <= Described(args).exits + spent
       /\ Cardinality(Attempts(rows)) <= Described(args).attempts + spent
  /\ pc = "over" => \A summary \in Summarise(rows) : SummaryIsTrue(summary)
  /\ IdentitiesDrawn

\* At most one redraw is waiting, it is of the identity drawn last, and it is
\* the next to be drawn: nothing comes between it and the draw it replaces.
\* The redraws of a run stay within their budget.  main(), work.appendleft.
RedrawIsNext ==
  /\ spent <= Budget
  /\ \A i \in DOMAIN work :
       work[i].redraw > 0 => i = 1 /\ work[i] = Redrawn

\* What a cell's breaker was told since it last heard of a served probe.
FailuresIn(draws) ==
  LET served == {i \in DOMAIN draws : draws[i].judged /\ draws[i].probe = "ok"}
      since  == IF served = {} THEN 0
                ELSE CHOOSE i \in served : \A j \in served : j <= i
  IN  Cardinality({i \in DOMAIN draws : /\ i > since /\ draws[i].judged
                                        /\ draws[i].probe \in {"refused", "error"}})
      + Cardinality({i \in DOMAIN draws : i >= since /\ draws[i].end = "exception"})
FailuresInARow(c) == FailuresIn(history[c])

\* A cell is stopped for failures exactly when as many as the limit came in a
\* row on its own draws, a probe that never reached the target not being one.
\* A lost session counts as well, so a draw that was refused and whose close
\* raised counts twice.  --breaker is any integer: at one or less the first
\* failure stops the cell.  main() and CircuitBreaker.
StopsAreEarned ==
  pc \in {"head", "draw", "over", "done"} =>
    \A c \in DOMAIN history :
      /\ breakers[c].reason = "failures" => FailuresInARow(c) >= args.breaker
      /\ ~Tripped(breakers[c]) =>
           FailuresInARow(c) = 0 \/ FailuresInARow(c) < args.breaker

\* Once the operator has asked, at most one more session is opened and one
\* more attempt sent; once a watch has tripped, a session sends no second
\* attempt, whatever a raising close has made of the stop.  on_row and the
\* head of main()'s loop.
StopIsPrompt ==
  /\ late.opened <= 1 /\ late.sent <= 1
  /\ pc = "walk" /\ (watch.tripped \/ inert.tripped) => walk = NoWalk

\* Only the last attempt of a supervised run can have outlived its first
\* minutes, finished, or been stopped on request: there are never rows of two
\* different hours to be pooled.  run_ladder.py, the loop of main().
OneWindow ==
  \A i \in DOMAIN ended :
    i < ladder.attempts =>
      ~ended[i].aged /\ ended[i].code \notin {0, ExitStopped, Interrupted}

\* A row says what happened.  A served verdict stands for the results of the
\* row's own query, but for a driver that typed it and read its tab before it
\* had left the last page, and but for a box whose value no script can read;
\* results shown are read as served, where the target has a rule for them,
\* whatever else the page shows; the pages counted as delivered have loaded,
\* but for a driver that may end on an error page without raising.  And while
\* the disk holds, the page behind every row that was not served is kept, a
\* served one being left out only of a full sample.  Rows share a label when
\* they share an exit and only then, and the country of an exit is its own, is
\* not forgotten once it is known and is missing from no row while the service
\* answers.  run_search, judge(), the archive's save(), ExitRegistry, locate().
LookUpsAreTrue ==
  \A i, j \in DOMAIN rows :
    /\ rows[i].ip = rows[j].ip <=> rows[i].label = rows[j].label
    /\ rows[i].ip = rows[j].ip /\ i < j /\ rows[i].country # "none" =>
         rows[j].country = rows[i].country
    /\ \A exit \in ToSet(args.exits) :
         rows[i].ip = exit.ip =>
           rows[i].country = exit.country \/ (rows[i].country = "none" /\ Goes("locate"))
TypedOnTheTab == Cell.entry = "home" /\ Engine.session.types = "tab"
RowsAreTrue ==
  pc = "row" =>
    /\ LookUpsAreTrue
    /\ row.verdict = "ok" => row.own \/ TypedOnTheTab \/ ~Readable(args)
    /\ row.own /\ MarksOf(TargetOf.rules, "ok") # {} => row.verdict = "ok"
    /\ row.planned > 0 => row.error = "none"
    /\ "shown" \notin Engine.session.misses => walk.delivered = walk.loaded
    /\ row.body /\ ~row.kept /\ ~Goes("disk") =>
         row.verdict = "ok" /\ archive[Key].written = SampleOk

\* No byte of a session is in two rows, and the only ones in none are those
\* the relay counted between the reading a row was given and the snapshot the
\* next one starts from, or that no row has closed yet.  on_row.
BytesAreOnce ==
  IF pc = "row" THEN meter.counted + row.bytes + meter.between = meter.moved
  ELSE meter.counted + meter.between = meter.at

\* Whatever fails half way, what a session acquired is given back when it is
\* over; patchright's profile is the one thing that can stay, after a launch
\* or a close that raised.  open() of each engine, the ExitStack of main().
NothingLeftOpen ==
  /\ pc \in {"head", "draw", "open", "over", "done"} => held = {}
  /\ left \subseteq {"profile"}
  /\ left # {} => "patchright" \in ToSet(args.engines)

\* What a cell does that another may not: its visits with what is done on
\* each, how the target is entered, whether the zone is the exit's, and whose
\* hand clicks, where something is clicked at all.
Visits(c) ==
  LET pages == WarmSequence(args, TARGETS[c.target], c.level)
  IN  [i \in DOMAIN pages |->
         <<pages[i], ActionsFor(TARGETS[c.target], pages[i], KindsOf(c))>>]
Cursor(c) == IF c.entry = "home" THEN c.hand ELSE "none"

HeldIsFree ==
  Names(args.param) \cap {"country", GatewayOf(args).session_param} = {}

\* A plan that is accepted has no arm that is the control under a label of
\* its own: a rung visits other pages than any other rung, an interaction
\* acts on a page the inert arm only loads, a hand has something to click, an
\* aligned cell can be aligned.  preflight, check_warm, check_interact.
NoArmIsTheControl ==
  pc = "start" /\ Accepted(args) =>
    \A c \in CellSet(args) :
      /\ c.interact # "off" =>
           /\ Visits(c) # Visits([c EXCEPT !.interact = "off"])
           /\ Described(args).touched[<< <<c.target, c.level>>, c.interact >>] > 0
      /\ \A level \in ToSet(Levels(args)) \ {c.level} :
           Visits(c) # Visits([c EXCEPT !.level = level])
      /\ c.hand = "trueman" => Cursor(c) # Cursor([c EXCEPT !.hand = "off"])
      /\ \A d \in CellSet(args) : KeyOf(args, c) = KeyOf(args, d) => c = d
      /\ ~args.direct /\ HeldIsFree =>
           \A setting \in ToSet(Label(args.param) \o c.params) \cup {<<"country", c.country>>} :
             Request(args, c)[setting[1]] = setting[2]
      /\ c.geo = "align" => REGISTRY[c.engine].align /\ ~args.direct
      /\ c.entry = "home" => REGISTRY[c.engine].typing /\ TARGETS[c.target].box

\* Whatever the web and the engines do, a run comes to an end, and so does
\* the supervisor above it.  The work and the redraws are finite and restarts
\* are counted.
LadderEnds == <>(pc = "done")
====
