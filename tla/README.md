# Verification of proxy-benchmark

TLA+ specifications of proxy-benchmark: what its two runners do and leave on
disk, what its plans ask for, what its engines and targets can make of a page,
what its relay counts while its handlers overlap, and what a row may say of the
exit it used.

The program measures how search and shopping sites answer different clients
through rotating residential gateways. Its product is a file of rows, and the
hard bugs are the ones that leave the file plausible: a cell stopped for the
wrong reason, a hole nobody explains, an arm that is the control under another
name, bytes posted to the wrong attempt, an exit said to have held when it was
never read. These modules are about those.

Contents: [components](#the-system-and-its-components),
[modules](#the-modules), [runs](#what-each-run-checks),
[bounds](#bounds-and-why-they-are-enough), [fairness](#fairness),
[proofs](#what-is-proved), [disagreements](#disagreements-found),
[weaknesses](#weaknesses-met-while-modelling),
[not modelled](#what-is-not-modelled), [plan](#plan).

## The system and its components

| component (source) | state it keeps | operations | module |
|---|---|---|---|
| matrix runner (`scripts/benchmark.py`) | the plan, one breaker per cell, one transport watch, the row file, the exception in flight | batch head, identity, launch, fetch, judge, close, endings | `BenchmarkRun` |
| plan of the matrix runner (`nmbench/matrix.py`, `parse_args`, `main`, `preflight`) | none; reads a run file | `build_cells`, `Cell.key`, `params_for`, `plan`, `load_completed`, `estimate`, refusals | `BenchmarkPlan`, `BenchmarkRun` |
| breakers (`nmbench/breaker.py`) | streak counters, counters of the session in flight, a reason | `record`, `end_session`, `no_verdict`, `trip` | `Breaker`, `SessionBreaker` |
| stop request (`nmbench/stop.py`) | the operator's file, `tripped`, `keep` | `check`, `dispose` | `BenchmarkRun` |
| row sink (`nmbench/sink.py`) | one JSONL file per run | `write` | `BenchmarkRun` |
| relay (`nmbench/relay.py`) | counters, exits and JA4 values under one lock; one thread per connection | accept, tunnel, forward, pump, `snapshot`, `since`, `stop` | `Relay` |
| fingerprint parser (`nmbench/tlsfp.py`) | none | `parse_client_hello`, `ja4` | `TlsFingerprint` |
| gateway probes (`nmbench/gateway.py`) | header misses per provider, a location cache and its latch, labels of exits | `identify`, `echo`, `recheck_exit`, `summarise_identity`, `locate`, `ExitRegistry.record` | `GatewayIdentity`, `ExitLookup` |
| throughput (`nmbench/speed.py`) | a budget of downloads | `take`, `measure` | `Speed`, in `BenchmarkRun` |
| probe_and_hold (`scripts/probes/probe_and_hold.py`) | a deque of work, redraws spent, circuit breakers, two watches, the meter | `main`, `run_identity`, `on_row`, `describe`, `summarise` | `ProbeRun`, `ProbePlan`, `ProbeSummary` |
| ladder supervisor (`scripts/run_ladder.py`, `nmbench/ladder.py`) | attempts, when the last began | preflight, `build_command`, restart, `estimate_hours` | `LadderPlan`, `ProbeRun` |
| warm-up (`nmbench/warm.py`) | none | actions of a page, `run` | `ProbePlan`, `ProbeRun` |
| engines (`nmbench/engines/`) | a browser each | `check`, `open`, `search`, `fetch`, close | `Engines` |
| targets (`nmbench/targets.py`) | none | `judge`, declarations | `Targets` |
| gateways' dialects (`nmbench/providers.py`, `proxy.py`, `config.py`, `data/providers`) | none | `load`, `parse_params`, `check_value`, `build_username`, `session_params`, `credentials` | `Gateways` |
| bodies archive (`nmbench/artifacts.py`) | a sample counter per engine and target | `wanted`, `save` | `Archive` |
| report (`scripts/analysis/report.py`) | none; reads run files | labels, pass-rate cells, yields, pairs | `Report` |
| pointer and hand models, statistics, other scripts, probes, tools | none that outlives a call | | not modelled |

How they interact in one session of the matrix runner:

1. the batch head passes over a tripped cell, looks at the stop file, builds
   the session's upstream and asks the gateway which exit it has (`identify`);
2. the relay of the session starts, the engine opens a browser on it, and the
   runner compares the address the browser leaves from with the operator's own;
3. for each query: snapshot of the relay, fetch, difference of the relay, row
   written; then, and only then, the transport watch, the stop file and the
   cell's breaker see the row;
4. the exit is read again half way through and at the end;
5. whatever ended the session, the breaker's `end_session` judges it, a
   `session_closed` row says how, and a `cell_stopped` row follows if that
   stopped the cell.

And in one identity of `probe_and_hold`: a slot is taken off the deque, its exit
drawn, labelled and located; the session opens and is compared with the
operator's address; the warm-up pages are visited with the actions the rung's
kinds select; the probe is typed or fetched; while answers are served, further
queries hold the exit. Each row goes through `on_row`: the meter, the summary's
rows, the transport watch, the interaction watch, the stop file. A probe that
never reached the target puts its identity back at the front; any other feeds
its cell's breaker. `run_ladder` builds one such command, and starts it again
when it dies in its first minutes.

What makes this hard:

- **partial failure**: many ways out of step 3, some raised through context
  managers that can raise in turn, under handlers whose order matters;
- **crash and restart**: the process can be killed after any row, and the next
  run has the file and nothing else;
- **interleaving**: the operator's stop file and Ctrl-C arrive between any two
  steps; the relay's handlers run while the runner takes a difference;
- **streaks**: the breakers reason about sessions *in a row*, with sessions
  that sent nothing interleaved;
- **stale state**: process-wide latches (header misses, `locate`), counters of
  a session that leaked into the next, a rate printed from counters that missed
  a row; a tab that had not left the page a query was typed into;
- **arms**: the axes of a plan are multiplied into cells, and refusals scattered
  over two preflights must leave no arm that does what its control does.

What correctness means, per component:

- breakers: the counters are the streaks they are named after; a cell is
  stopped exactly when the list of its sessions says so, for the right reason;
  at most `limit * batch` queries are spent on a target that serves nothing;
- matrix runner: rows agree with the breakers; no hole is unexplained; a stop is
  prompt and last; cells share their hour; the summary, and the report of the
  file, say what the rows say; the run ends;
- plans: every accepted request can be spelled, rows under one key asked for
  one thing, two arms asked for two;
- resume: exactly the unanswered queries are asked again;
- relay: no byte is counted twice or counted without having been taken, what is
  taken without being counted is known, and what is counted is posted once;
  blocked hosts are never dialled, however they are written; a move of the exit
  shows in the rows;
- exit identity: a verdict is supported by what was read, nothing but the pages
  of a batch is asked once the batch has begun, a provider is given up on for its own misses; a country is the
  exit's own;
- probe_and_hold: no identity is lost or counted twice, a redraw replaces the
  draw it repeats, a breaker counts its own failures, a row says what happened,
  nothing a session acquired outlives it;
- supervisor: a run that lasted, finished or was stopped is not run again.

## The modules

```
CellVerdict <-implements- SessionBreaker -EXTENDS-> Breaker
                                                       ^
BenchmarkRun  -EXTENDS-> Breaker, Speed, Report --------|
MCBenchmarkRun -EXTENDS-> BenchmarkRun                  |
               -INSTANCE-> BenchmarkPlan -> Engines, Gateways
ProbeRun -EXTENDS-> Breaker, LadderPlan, ProbeSummary, ExitLookup, Archive
                              |
                              +-> ProbePlan -> Engines -> Targets
                                            -> Gateways
MCProbeRun -EXTENDS-> ProbeRun
MCRelay -EXTENDS-> Relay, TlsFingerprint
MCGatewayIdentity -EXTENDS-> GatewayIdentity
```

Two modules are the runners' state machines (`BenchmarkRun`, `ProbeRun`), two
are state machines of parts that run beside them (`Relay`, `GatewayIdentity`),
one is a component with its abstract promise (`SessionBreaker` and
`CellVerdict`); the others are the pure parts of the program as operators, each
taken by the state machine that calls it. `XProofs` holds the theorems of `X`;
`SequenceLemmas` has what three of those need about sets of naturals and values
computed along a list.

**Breaker** translates `nmbench/breaker.py` into operators on records: an
object is a record of its fields, a method maps the record to the one it leaves
(`Record`, `EndSession`, `Trip`, `NoVerdict`, `CircuitRecord`, `WatchRecord`). A row is reduced
to what the breakers read off it: `ok`, `refused` (any other answer), `error`
(an error above the transport), `transport` (an error that
`is_transport_failure` recognises). A reason is the branch that wrote it.

**SessionBreaker** is one cell over its sessions: `OpenSession`, `Attempt`,
`EngineUnavailable`, `WentDirect`, `CloseSession`. The histories `measured`,
`asked` and `reached` are what the counters are compared with. **CellVerdict**
is the same promise without a counter in it: the end of the list of sessions
decides. The refinement maps `silent` to `consecutive_abandoned` and `stopped`
to `reason`.

**BenchmarkRun** is `main()` with everything a run changes: `disk` is the
sequence of row files, `plan` what `matrix.plan` made of what was not done,
`pc` where the process stands (`head`, `identify`, `session`, `judge`,
`closing`, `unwinding`, `over`). Steps of the code that are separated by
something that can interrupt them are separate actions: a row is written
(`Fetch`) before the watch, the stop file and the breaker see it (`Judge*`),
since the check in between may raise. Every way out of a session is an action:
no timezone (`SkipIdentity`), no engine (`EngineUnavailable`), the operator's
own address (`WentDirect`, and `WentDirectCloseRaises` when the close then
fails), a session that died (`SessionDies`), the transport stop, the
operator's stop, Ctrl-C, a close that raises while one of those unwinds
(`CloseRaises`), a stop file `check()` cannot answer for (`StopRaisesAtHead`,
`JudgeStopRaises`), and a kill at any point. `StartResumed` is a later run on
the newest file in `data/runs`, or on a file named on the command line; all
in-memory state is new then, as it is in the code. A session
claims one of the run's downloads (`Downloads`, **Speed**) when its batch is
taken, before the timezone is known and before the launch, as the code does.
When a run closed every session its rows are also read by **Report**, the
tables of `report.py`.

**BenchmarkPlan** is what a set of arguments becomes: `BuildCells` with
`Cell.key` (`Key`), the provider and the wire parameters of a cell
(`ProviderId`, `ParamsFor`, `Request`), every refusal of `main()` (`Refused`)
and of `preflight()` in the order they are tried, and `Estimate`. The arguments
are a record whose extra fields are the world they are read in: what is not
installed, which credentials are set, which provider a resumed file names.
**Gateways** is a gateway's dialect: what a definition in `data/providers` must
satisfy to load, the five definitions shipped, and the reading and spelling of
settings.

**Relay** has one handler per connection and treats each region under
`self._lock` as one step. A handler is overtaken between reading the gateway's
reply and registering its exit, between forwarding a chunk and counting it, and
between counting it and reading a ClientHello out of it, as the code allows.
What the far end takes with no `_count` after it is a step too (`TakesUncounted`):
the rebuilt head of a plain request (`Forward`, or `ForwardBreaks` when the send
fails after taking it) and the chunk a pump ends in when its send fails
(`SendBreaks`). The host asked of the list is read as the code reads it, off a
CONNECT's authority or out of an absolute address, with its port, brackets, user,
path and case: a request is a text of words and marks.
The runner's `snapshot()` and `since()` fall anywhere among those.
**TlsFingerprint** is the parser the relay's fingerprints come from, on bytes:
each reader is an operator that yields what it read or nothing.

**GatewayIdentity** is the life of `_header_misses` over sessions and the
readings of each. The gateway may move the session to another exit between any
two steps (`Rotate`); each CONNECT is answered with the exit, without it, or
not at all. `traffic` is a history of everything else the runner has the session
ask of the network, in order: the echo, the sized download of the speed reading
(`MeasureSpeed`, which comes before an aligned batch without a zone is passed
over), the page an engine that has `exit_ip` loads to say where it leaves from
(`CheckExit`, `WentDirect`), and the pages of the batch. `Launch` chooses whether
the engine has it: of the registry only `obscura` does. What a browser or its
framework asks by itself is not in it.

**Targets** is each target's `judge()` as the sequence of its tests: a page is
the set of marks the tests look for, and the first test that holds gives the
verdict. Its declarations (search box, front page, rungs, actions of a page)
are those the runners read. **Engines** has the eleven engines as records of
what they declare, what they need installed, what `open()` acquires and gives
back, and how their session behaves where it differs; `Search` and `Fetch` are
the sets of results an attempt can have, from what the tab shows, through the
box, the typing and its verification, to the verdict of the page that arrives.

**ProbePlan** is the plan of `probe_and_hold.py`: the product of its axes, the
warm-up of a cell (`WarmSequence`, `ActionsFor`), and `Preflight` with
everything it refuses. **LadderPlan** adds the supervisor's own arguments, the
command it makes of them and its estimate.

**ProbeRun** is `main()` and `run_identity()` with `run_ladder.py` above them.
`pc` follows the process: `ladder` (supervisor's preflight), `start`, `head`
(the deque), `draw` (exit, label, country, timezone), `open`, `direct` (the
address comparison), `page`, `walk` (pages and queries), `row` (`on_row`),
`judge`, `close`, `over`, `done`. The row is a place of its own because the
meter is read before it and snapshotted in it, while the relay's pumps count
(`Move`). Everything a session acquires is in `held`; `OpenFails` stops
anywhere in the order of acquisition, and `Close` gives back what the engine's
`finally` blocks give back, raising when the engine's close may. What unwinds a
session is in `raised`, and a close that raises takes its place (`Handled`).
Around the process are the operator's stop file, Ctrl-C, a crash outside every
session, and time going by in an attempt (`Age`). **ExitLookup** is
`ExitRegistry` and `locate` with its cache and latch, **Archive** the bodies
kept, **ProbeSummary** the tables printed at the end, with Fisher's exact test
on integers.

How much of the world a behaviour has is in the arguments it starts with:
`args.web` is what targets may answer, `args.faults` what may go wrong. One
specification is so checked on many small questions in one run.

Abstractions shared by the modules, each a data reduction and never a dropped
branch: an outcome is one of four classes, a page the set of
marks that are looked for in it; a chunk of a stream is one byte; a
pumped stream is opaque, so a second request on a plain kept-alive connection
is a chunk like any other (that is also all the relay sees of it); the exit a
reading names is the exit the session has at that moment; wording, masking,
delays and columns no property mentions are left out. A new run of the model
starts with no stop file, since the button that creates it belongs to the run
in progress.

## What each run checks

| run | question | result |
|---|---|---|
| `cell_breaker` | do the counters, over every sequence of sessions, stop the cell exactly when `CellVerdict` does, for its reason, in time, once? | holds |
| `one_run` | with every failure of a session, a single download and a stop file, do the rows, the breakers, the summary and the report tell the same story, and does the run end? | holds |
| `resumed_run` | cut off anywhere and resumed, is exactly the unanswered asked again? | holds |
| `relay` | two handlers against the meter, every interleaving: are bytes counted and posted at most once and all but the known ones counted, is a blocked host never dialled in any spelling, do moves and fingerprints stay visible? | holds |
| `exit_identity` | do three sessions over three gateways get only verdicts their readings support, at the cost the code promises? | holds |
| `probe_run` | over nine and a half thousand plans and every engine, with redraws, watches, failures, a stop and a supervisor: are identities, stops, rows, bytes and resources what they should be, is no accepted arm the control, does everything end? | holds |
| `rate_of_cut_session` | is the printed rate true after a stop? | violated |
| `watch_stop_swallowed` | is the transport stop the last thing a run does? | violated |
| `stop_file_raises` | is any content of the stop file a stop? | violated |
| `resumed_chain` | is an answer never asked for again over two resumes? | violated |
| `relay_exit_order` | are exits listed in the order the gateway named them? | violated |
| `header_latch` | is the header given up on because of replies? | violated |

The properties, by run:

`cell_breaker` - `CountersAreStreaks`: `consecutive_dead` and
`consecutive_unreachable` are the lengths of the runs at the end of the list of
measured sessions. `DeadStopWasAnswered`: a cell reported as refused was
answered within the run of sessions it was stopped on. `PoolIsSpared`: at most
`limit * batch` attempts since something was last served. `NoVerdictIsSilence`:
`no_verdict` is exactly "nothing ever reached the target", the session in
flight included. `FirstReasonWins`: a stopped cell keeps its reason and sends
nothing. `ImplementsCellVerdict`: the refinement.

`one_run` - `SessionRowsAgree`: the class of a `session_closed` row is the class
of the attempt rows above it. `CellStopIsRecorded`: a cell is tripped if and
only if its stop is in the file, and nothing follows it.
`NothingSilentlyMissing`: a finished run leaves no query without an answer, a
row, or a row explaining its absence. `WatchStopIsEvidence`: a transport stop
is supported by the last rows of the file. `CellsInterleave`, `StopIsPrompt`.
`UnmeasuredMeansUnanswered` (for runs that closed their sessions): the cells
printed without a rate are those whose rows never reached the target, and the
report of the file, which has the session rows and not the breakers to go by,
says so of the same cells. `SessionRowsAgree` also has the throughput: on all
of a session's rows or on none, on the first sessions only, on no more than
asked for. And the liveness property `RunEnds`.

`resumed_run` - `ResumeIsExact`, and `NothingSilentlyMissing` over two files.

`relay` - `CountedIsDelivered`: counted, plus what handlers have yet to count,
plus what nothing counts, is what the far ends took; and of one connection the
last is at most the head of a plain request and the chunk its pump ended in.
`RowsPartition` (posted plus counted outside any attempt equals counted),
`VendorNeverDialled`, `MovesAreVisible`, `FirstPrintIsStable`.

`exit_identity` - `MissesAreOwn`, `VerdictIsTheSessions`, `LatchSavesHandshakes`,
and `ExitIsNotWarmed`: beside its pages a session asks for one echo, one
download and one check of the browser at most, and for all of them before its
first page. It does not say that one request at most goes through the exit
before that: with a speed reading and `obscura` there are three.

`probe_run` - `EveryIdentityAccounted`: the draws of an identity are numbered,
each but the last a probe that never reached the target; a finished run has
drawn every identity of every cell it did not stop; what `summarise` prints
agrees with what became of the draws, and no more is sent than `describe` said,
but for redraws. `RedrawIsNext`: a redraw comes right after the draw it
replaces. `StopsAreEarned`: a cell is stopped for failures exactly when the
limit came in a row on its own draws. `StopIsPrompt`: one more session and one
more attempt at most, and nothing in a session whose watch tripped.
`OneWindow`: the supervisor never runs again what outlived its start, finished
or was stopped. `RowsAreTrue`: a served verdict stands for the results of the
row's own query (with the two exceptions the code makes room for, below), pages
counted as delivered had loaded, the body behind a row that was not served is
kept, labels are exits, and a country is the exit's own. `BytesAreOnce`.
`NothingLeftOpen`. `NoArmIsTheControl`: in every accepted plan, each value of
each axis makes a cell do something the others do not. `LadderEnds`: liveness.

The pure modules are checked by assumptions that TLC evaluates at the start of
a run, on grids of arguments:

| assumption (module) | what it compares |
|---|---|
| `DefinitionsLoad`, `SpellingsDiffer` (`MCBenchmarkRun`) | the shipped definitions load and one with a misspelt session parameter does not; no two settings of a gateway have one spelling |
| `AcceptedPlansAreSound` | over the grids `SettingPlans`, `CountryPlans`, `OtherPlans`: every accepted plan's requests can be spelled, its keys tell requests apart, its free arms are compared |
| `CellsAreTheCombinations` | `BuildCells` against the set of combinations, one cell of each key |
| `LinesAreCells`, `ArmsArePooled` | the report has one cell per line without arms; with arms it pools them (a weakness, below) |
| `SplitMultiplies`, `OneTargetIsServedElsewhere` | the report's yield split against its classes, over every list of up to three rows; and the one target it misreads |
| `BatchesCostSessions`, `TwoCountriesAreTwoCells` | cutting a cell in two costs a start and no traffic; the two cells of the runs are a plan's |
| `SessionArmsAreOneSlice` | an arm of the session's own parameter is accepted and is no arm (a weakness, below) |
| `FisherCounts` (`MCProbeRun`) | Fisher's tail against counting subsets |
| `NoteIsTheSmallest`, `UnlikeCells` | the "smallest difference" note is right for cells of like size, and not for unlike ones |
| `EstimateIsThePlan` | the supervisor's estimate against the cost of the cells of the command it builds |
| `Ja4TellsApart`, `PartsAreNotPrinted` (`MCRelay`) | two clients have one JA4 exactly when they differ in nothing but what it leaves out; a hello that has not all arrived has none, an altered one at most one |

Every property of a passing run is paired, in `PROJECT.json`, with a changed
definition of the code (a test dropped or reordered, a reset left out, a wrong
counter, a step moved) under which TLC finds it violated; the changed
definitions stand in the modules beside the ones they change.

Deadlock is checked in `probe_run`, whose processes end in `done`. It is not in
the others: each of those systems comes to a rest by design (the plan is used
up, the run is over, the relay stopped). That it does not rest too early is what
`RunEnds` and `NothingSilentlyMissing` are for.

## Bounds and why they are enough

- `cell_breaker`: limit 3, unreachable limit 2 (the defaults of
  `SessionBreaker`), batches of at most 2 and 6 sessions. Six sessions hold a
  streak of each kind, a break, and a full second streak; two attempts give
  every class of session. The proofs below remove these bounds.
- `one_run`: two cells, three queries in batches of two, so each cell has a
  full batch and a short one; limit 1, unreachable limit 2, so that cells stop
  inside the plan; a watch over two attempts on two cells; one download for the run, so that one
  session has a reading and the next has none. The stop file can
  appear at any step; the other outcomes are `ok`, `error` and `transport`
  (`refused` differs from `error` only in the watch and in what a resume asks
  again, and `resumed_run` has it).
- `resumed_run`: two runs, two cells, two queries in batches of one, and every
  way of being cut off, a failing disposal and unreadable stop files included.
- `resumed_chain`: three runs, the fewest that show it.
- `relay`: two connections (every race in the relay is between two handlers or
  a handler and the runner), one chunk each, two attempts so that a difference
  is taken against an earlier one, two exits and two fingerprints. Connections
  are interchangeable, hence the symmetry; exits and fingerprints are left out
  of it. No liveness is checked under symmetry.
- `exit_identity`: a latch at 2 instead of 5, two providers with the header and
  one without, batches of 1 (no middle check) and 3 (one), three sessions: two
  to latch, one to live with it. The two addresses are interchangeable
  (`MCGatewayIdentity`), as exits are only compared with each other.

- `probe_run`: `Plans` is a set of about nine and a half thousand plans. Some
  run: `Probing` (two cells interleaved, three identities on one breaker,
  redraws, exits that come back), `Warming` (rungs with and without their
  interactions, failed visits, Ctrl-C in a warm-up), `Engined` (each of the
  eleven engines, typed and fetched, with everything that may fail of it),
  `Typing` (lost keys, a box that cannot be read, a full disk), `Supervised`
  (crashes early and late under a supervisor). The others are only accepted or
  refused, the question of `NoArmIsTheControl`: `Looked` (engines, targets,
  rungs, entries, zones, hands and interactions against each other), `Settled`
  and `Doomed` (settings of the gateway), `Refused` (what no axis varies).
  At most four identities, two cells, two held queries and one or two redraws:
  a redraw of a redraw, a breaker's limit reached by draws that are not
  neighbours, and a budget spent all happen. The limits are small for the same
  reason: a watch over three attempts on two cells, an interaction watch of
  two, a location latch of two, one served page in the sample, one restart, and
  two movements of the relay's counter a session (one before a reading and one
  between it and the snapshot).
- The grids of the assumptions: every arm and held setting of `Items` against
  three sets of gateways; countries against five; engines, modes, presets and
  targets that differ in what is refused; hellos of up to three extensions.

Counters are unbounded in the modules; the bounds are the constants `Batches`,
`MaxRuns`, `Attempts`, `Chunks`, `MaxSessions`, `Retries` and `Traffic`, in the
guards, and the numbers of a plan.

## Fairness

`BenchmarkRun!FairSpec` adds `WF_vars(RunnerStep)`: a started process is
scheduled, and each of its steps returns, because each fetch, launch and lookup
has a hard timeout in the code. Weak fairness is enough, since a step of the
runner stays enabled until it is taken. The operator's actions (start, resume,
stop file, Ctrl-C) and the kill have no fairness: nobody has to do them. The
choice among the runner's steps is not fair either, so `RunEnds` holds for a
run in which every session fails. The run uses a single start; later starts add
states and no new loop.

`ProbeRun!Spec` has `WF_vars(Process)`: the process and its supervisor are
scheduled, and launches, visits, queries and look-ups return within their
timeouts. Traffic, the stop file, Ctrl-C and the passing of time are not fair.
`LadderEnds` therefore holds without anyone's help: redraws are bounded by
their budget, restarts by `--retries`, and a run that nobody stops empties its
deque.

## What is proved

With TLAPS, for every value of the constants that satisfies the named
assumptions. Eight modules hold the proofs; the helpers' lemmas of
`BreakerProofs` (what `Record`, `EndSession`, `Trip` and `NoVerdict` leave in
each field) are shared by the two that feed a cell's breaker, and those of
`SequenceLemmas` by the matrix runner, the gateway probes, the relay and
`probe_and_hold`.

| module | theorem | property |
|---|---|---|
| `SessionBreakerProofs` | `TypeCorrect`, `StreaksCounted`, `DeadMeansAnswered`, `PoolSpared`, `SilenceIsExact`, `ReasonKept`, `Refinement` | all seven properties of `cell_breaker` |
| `BenchmarkRunProofs` | `TypeCorrect` | `TypeOK` |
| | `StopPrompt` | `StopIsPrompt` |
| | `CellStopRecorded` | `CellStopIsRecorded` |
| | `ResumeExact` | `ResumeIsExact` |
| | `NothingMissing` | `NothingSilentlyMissing` |
| | `Interleaved` | `CellsInterleave` |
| | `StopIsEvidence` | `WatchStopIsEvidence` |
| | `SessionRowsTrue` | `SessionRowsAgree` |
| | `UnmeasuredTrue` | `UnmeasuredMeansUnanswered`; `RatesAreTrue` is its half about the summary |
| `BenchmarkPlanProofs` | `PlansAreSendable`, `KeysAreRequests`, `AcceptedArmsAreCompared` | the three parts of `AcceptedPlansAreSound`, for any definitions and arguments |
| `GatewayIdentityProofs` | `TypeCorrect`, `OwnMisses`, `VerdictTrue`, `NotWarmed`, `LatchSaves` | all five properties of `exit_identity` |
| `RelayProofs` | `TypeCorrect`, `CountsAreDeliveries`, `Partition`, `VendorRefused`, `MovesVisible`, `FirstPrint` | all six properties of `relay` |
| `ProbeRunProofs` | `TypeCorrect`, `BytesOnce`, `RedrawNext`, `StopPrompt`, `SingleWindow`, `StopsEarned`, `NothingLeft`, `RowsTrue` | `TypeOK`, `BytesAreOnce`, `RedrawIsNext`, `StopIsPrompt`, `OneWindow`, `StopsAreEarned`, `NothingLeftOpen`, `RowsAreTrue` |
| | `EveryoneAccounted` | `EveryIdentityAccounted`; `DrawnOnce` is its part about the deque |
| | `ArmsDiffer` | `NoArmIsTheControl` |

### Recursion and induction

What the code computes in a loop - the rows owed, the plan cut into batches, the
bytes posted so far, the cells of a product - is written with recursive
functions, and about those nothing can be said before it is known that the
equation has a solution. `SequenceLemmas` gets there without the library's
induction theorems, which take an operator as a parameter and cannot be
instantiated here: the intervals `1..x` of a set of naturals are a set of finite
sets, the library has that strict inclusion of finite sets is well-founded, and
so a set of naturals has a least element (`Least`). From that: a set of naturals
that holds 0 and is closed under successor is all of them (`NatInduct`); an
equation `f[0] = base, f[i] = step[i][f[i-1]]` has a solution
(`RecursionExists`); and two of them agree as far as their steps do
(`RecursionAgrees`). What is defined along a list then grows with the list as
the loop says, which is all that an inductive step asks.

### A cell's breaker

`SessionBreakerProofs` holds for every limit, unreachable limit, batch size and
number of batches, from `LimitAssumption`, `UnreachableLimitAssumption` and
`BatchAssumption` (all are positive naturals, the number of batches a natural).

The argument. None of the properties is inductive alone. `PoolIsSpared` says at
most `Limit * BatchSize` attempts follow the last served session, but a step
that opens a session preserves this only if each session of the current dead
streak sent at most a batch and the streak is shorter than the limit while the
cell runs. The inductive invariant `IInv` says so. Its parts:

- `TypeOK`;
- `SessionInv`: what was served arrived, what arrived was attempted, and no
  attempt is counted outside an open session;
- `ReasonInv`: a session is open only while the cell has no reason, and only an
  engine that did not start leaves one to be closed;
- `LimitInv`: while the cell runs every streak is below its limit, the streak of
  unserved sessions never passes it, and a cell stopped as `dead` is exactly at
  it with the other streak below its own;
- `AskedInv`: attempts since something was served are bounded by the batches of
  the dead streak plus the session in flight;
- `ReachedInv`: `reached` is what `arrived_sessions` and the session in flight
  say;
- `CountersAreStreaks` itself.

`Invariance` proves `Init => IInv` and that each action preserves it, one step
per action. Field lemmas (`RecordFields`, `TripFields`, `CountedFields`, ...)
state once what a method leaves in each field, and lemmas on the end of a
sequence carry a streak over `Append`. The refinement uses `IInv` to show that
the stop the counters bring about is `CellVerdict`'s judgement of the longer
list, and that every other step stutters or stops outright.

`DeadMeansAnswered` needs `Limit >= UnreachableLimit`, which the defaults (3 and
2) give. It is part of the property: with `--breaker 1` a single session that
reached nothing stops the cell as `dead`, because the other streak is not yet
at its limit.

### The matrix runner

`BenchmarkRunProofs` holds for every list of cells and queries, batch size,
limits, window, set of faults and number of restarts, from `RunAssumption`,
`WatchAssumption` and `CellAssumption`: the cells are a sequence without
repetition, as `build_cells` keeps one cell of each key, and none of them is
the empty string: a cell stands for a country of the plan, and to the report an
empty country is one that was not told. `IInv` joins what the breakers know in
memory to what the file says, at every place the runner can be in:

- `PromptInv`: once an attempt was sent after the request, the process is on
  its way out;
- `FileInv`: a run has a file, and its rows are a sequence;
- `BreakerInv`: a session served no more than arrived, and arrived no more than
  was attempted;
- `JudgeInv`: the row being judged is the last of the file;
- `StopsInv`: a cell's stop is in the file only if its breaker has tripped, is
  missing only while its session is to be closed or the run was cut off there,
  and no attempt of the cell comes after it;
- `VerdictInv`: `no_verdict` of a cell is "none of its rows reached the target",
  but for the row being judged and for a session an exception is unwinding;
- `PrintedInv`: what was printed at the end.

`VerdictInv` is where the exception of `PrintedRateIsTrue` (below) shows: the
row on which a stop is raised is never given to the breaker, and the invariant
has to leave the unwinding session out.

`FullInv` adds what the plan, the file and the memory are to each other:

- `FilesInv`, `IdleInv`: every file is a sequence of rows, and there is none
  before the first start;
- `PlanInv`: what is skipped was answered in one earlier file, no batch ahead
  holds any of it, the batches ahead are in the order of their turns, and an
  open session is at a place in its batch;
- `AskedInv`: what was asked belongs to batches before those ahead, but for the
  one in hand. `ResumeIsExact` and `CellsInterleave` follow from these two;
- `MissingInv`: a query that is neither ahead nor answered has a row, or a row
  that says why it has none. At a finish nothing is ahead, which is
  `NothingSilentlyMissing`;
- `WatchInv`: the watch's window is the outcomes of the last attempts of the
  file, of at most `Window` of them, so that a stop's evidence is in the rows
  (`WatchStopIsEvidence`, itself a part);
- `CountersInv`: the counters of the session in flight are those of its rows
  since it was opened, and `ClassInv`: a `session_closed` row names what these
  were when it closed;
- `ReadingInv`: the rows of a session have its reading, all of them or none, the
  sessions with one come first, and there are no more of them, the session in
  hand included, than downloads were taken.

`ClassInv` and `ReadingInv` give `SessionRowsAgree`. None of the parts is
inductive without the others: a step that ends a session writes a class
(`ClassInv`) from counters (`CountersInv`) whose reset depends on the batch in
hand (`PlanInv`).

The report has no breakers to go by: it takes a cell for unmeasured when its
`session_closed` rows name a class, none of which is `alive` or `dead`
(`SilentCells`). That this is what the breakers say rests on `ClosedInv`:

- `SettledInv`: a session that asked something has a `session_closed` row after
  its attempts, is still open, or belongs to a run that was cut off;
- `ClosedOnceInv`: it has one such row, and no batch ahead is a session that
  has one;
- `PresentInv`: the summary of a finished run speaks of every cell that was
  asked something.

The lists the report walks - the rows kept, those of a cell, the cells in the
order they are met - are written with `Kept` and `Selected` in `Report`, over
recursive functions, so that a lemma can say what is in them (`KeptIsList`,
`OfList` and their like). `UnmeasuredTrue` follows.

### The plan

`BenchmarkPlanProofs` follows a setting from the command line to the username.
`PlansAreSendable` and `AcceptedArmsAreCompared` assume that the names of the
definitions are not empty (`NamesAreNames`), `KeysAreRequests` that no country
typed is one of the words `direct` and `gateway` that stand in a key for an
engine without a gateway and for no country (`CountriesAreCountries`); nothing
is assumed of the definitions' contents beyond what loading checks.

### Exit identity

`IInv` of `GatewayIdentityProofs`: `BatchInv` (a session has a provider and a
batch), `MissInv` (a count is the length of the last run of misses of the
provider's own attempts), `LatchInv` (a handshake for the header is only made
while its provider is not given up on), `WarmInv` (`ExitIsNotWarmed`, with what
can have been asked at each place up to the first page: nothing, then an echo,
then a download). `SendStep` is the lemma on one request more: a page may always
follow, anything else only where neither a page nor its own kind went before.

`ShapeInv` is what `TypeOK` and `VerdictIsTheSessions` need besides: the fields
of the row (`FieldsInv`), the readings as a list of those made so far, at places
that only move on (`PointsInv`), how many were made at each place of the session
(`PlaceInv`), and the handshakes spent (`HandshakeInv`). `IdentityAssumption`
asks for at least one gateway to run through.

### The relay

`RelayProofs` assumes a finite set of connections, as `Cardinality` of the
handlers in hand and of the uncounted chunks needs. `TypeInv` strengthens `TypeOK` with "a snapshot is not
ahead of the counters it was taken from", `FreshInv` adds that a connection
nobody asked for has sent nothing and that the host the relay reads in a request
is the one it was written for, `PrintsInv` that the fingerprints of every
row are a beginning of those seen now. The counting argument moves one handler
at a time in or out of the set of those that have forwarded a chunk and not
counted it, and one chunk at a time into the set of those that nothing counts;
`HeadInv` says that a head in that set is of a connection already past `Forward`,
so that it is not there when it is sent. `VendorRefused` rests on what the cuts
of a text leave (`CutAtFirst`, `CutAtFinal`, `HostOfAuthority`, `HostOfTarget`):
every way a request for a host can be written gives that host. `Partition` carries the sum over the rows through one row more, by
the lemmas on recursion. `ExitsInv` is what `MovesAreVisible` rests on: the exit
of every tunnel that is up is in the list, the list grows at its end and never
by what it ends in, and the rows' slices of it are apart.

### probe_and_hold

The assumption, `PlanAssumption`, is of the arguments: the number of identities
is a natural, the series, `--redraws` and `--breaker` are any integers, the
axes, the settings and the pages given are lists, the provider is one that has
a definition, there is an exit to draw, and an address is in one country. The
cells of a plan are computed from the axes by a product over eight of them;
that they are combinations of the axes' values (`CellsInSet`) is proved. The
invariants, each inductive on its own or from those before it:

- `MeterInv`: the counter is zero without a relay, the snapshot never ahead of
  it, and no meter runs from one session to the next;
- `WorkInv`, from `PlanInv`: while an identity is in hand no redraw is in the
  deque, so that the one put back is alone;
- `LateInv`: no session is opened after the request but that of the identity in
  hand, and it sends nothing once one of its rows has seen the request;
- `WalkInv`: a session starts at its first page, and goes no further after a
  trip;
- `EndedInv`: the supervisor has one entry for each attempt before its current
  one, all of them early deaths;
- `SeatInv`: what is in hand and what is in the deque are slots of the plan, and
  every cell has a breaker and a list of draws while the run lasts;
- `HeldInv`: something is held only inside a session, and only `patchright`
  leaves something. It reads the tables of the engines (`EnginesAre`);
- `AnswerInv`: a row with an error names it, a row that holds an exit follows a
  probe, and a probe that was judged said something;
- `CircuitInv`: a breaker counts what its cell's draws say - the judged one of
  the session in hand included, which is in the breaker and not yet among the
  draws - and has tripped only on what that count earns. `FailuresGrow` is the
  count of one draw more: the failures since the last served one are counted as
  sets of places, and the close of a session may add a second to a draw;
- `KindsInv`: the rest of the types;
- `ArchiveInv`, `TrueInv`: while the disk holds, as many pages are written as
  places of the sample were given away; and what `RowsAreTrue` says of the row
  in hand. The verdicts come from the targets' tables: `RulesArePlain` says of
  each target that no mark of a served page is on a page of another kind, and
  that a served page meets no earlier rule;
- `LookInv`: every row is labelled and placed as the registry and the location
  cache say, which only grow;
- `TurnInv`: every identity of a cell that was not stopped is in the deque, in
  hand, or settled - its last draw reached the target or no redraw was left; no
  identity is in two of those, but for the one just put back; and one to be
  drawn for the k-th time has k draws that never reached the target.

`TurnInv` is the argument behind "no identity is lost". Between the step that
judges a probe and the one that closes its session, an identity that is put back
is both in hand and in the deque, and its draw is not yet in the list: the
invariant has an exception for that window (`PutBackNow`), and it is the only
one.

What is printed is counted from the rows, and `EveryIdentityAccounted` compares
it with the draws. That takes `DrawRowsInv`, which relates each row to its draw:

- `PlacedInv`: a row is of a draw that is over or in hand;
- `ColumnsInv`: a probe is at position 0 and a hold after it, and an attempt has
  a verdict;
- `SaidInv`: what a draw says of its probe is what the probe's row says, and a
  draw whose probe was made has the row;
- `ChainInv`: a draw has one row of each position, and one that holds the exit
  follows a served one of the position before, so that no position of the table
  of holds has more queries than the one before it had answers;
- `PagesInv`: the pages a probe's row counts are the visits of its draw that
  brought one. A row that is being made is the one exception (`Bringing`).

With these the summary's lines are cardinalities of sets of rows that are in
bijection with, or injected into, sets of draws. `CostInv` bounds what was
announced: the draws made and the identities still due (`ExitsDue`) are at most
the budget and the redraws spent, and the attempts sent and those still due
(`AttemptsDue`, which counts down within a session by `Owing`) at most as many
for each. At the end nothing is due.

`ArmsDiffer` needs no more of the states than `PlanInv`: it is a theorem on the
arguments that `Preflight` accepts. Visits to the same pages in the same order
are visits of one rung: with pages given there is one warm rung
(`BadUrls`), and otherwise the ladders of a target differ pairwise
(`LaddersDiffer`) and end in the same front page (`FrontPageLast`). The inert
arm selects nothing on any page (`NothingSelected`), and what `describe` counts
of an interaction is the finite set `CheckInteract` found non-empty. A setting
is followed from what was typed, through the label (`LabelIs`: each name once,
with what it ends as) and the arm, which sets nothing another option owns
(`ArmsAreOwn`), to the request (`RequestIsLabelled`); no gateway takes the
country for its session (`SessionIsNoCountry`).

### Only model-checked

- liveness (`RunEnds`, `LadderEnds`), out of the prover's reach here;
- the grids of assumptions of the pure modules;
- the six properties of the runs that end in a counterexample, which do not
  hold.

## Disagreements found

Each is a run that TLC ends with a counterexample, and an entry of `findings`
in `PROJECT.json` with the quoted line.

1. **A stop forgets the row it stopped on** (`rate_of_cut_session`). The stop
   is raised between writing the row and `breaker.record`; if that was the
   cell's only answer the summary prints `-` and "the target never answered".
2. **A close that raises cancels the transport stop** (`watch_stop_swallowed`).
   The exception from the context manager replaces `TransportLost`, the
   catch-all takes it, and the run carries on after its `run_stopped` row.
3. **A stop file can crash the run** (`stop_file_raises`). `check()` handles an
   unreadable file and unparsable JSON, not bytes that are not UTF-8 nor a
   JSON value that is not an object.
4. **A chain of resumes asks again** (`resumed_chain`). Only one file is read.
5. **Exits out of order** (`relay_exit_order`). The reply is read outside the
   lock that orders the list.
6. **An outage is taken for a missing header** (`header_latch`). A refused
   connection counts as a miss, and the latch cannot be undone.

## Weaknesses met while modelling

What the code does and no line of the repository quite denies, or denies only in
passing. None of them has a run of its own; where one matters to a property, the
property says what holds in spite of it.

The report (`scripts/analysis/report.py`):

- a cell is called unanswered from its `session_closed` rows, which a session cut
  off by a kill never writes: a cell that holds served pages can be printed
  "unmeasured". `ReportAgrees` is therefore asked of runs that closed their
  sessions;
- cells that differ in an `--arm` have one label and are pooled (`ArmsArePooled`),
  although the label's docstring has it carry everything that makes a row a
  different measurement; the line's stopped or unmeasured state is that of its
  first row's cell;
- a `google_maps` page can pass at `/maps/place/` without the mark `was_served`
  looks for, and the yield split then takes a passed page for a dead exit
  (`OneTargetIsServedElsewhere`); an error with a status of 200 is no reply to
  `classify` and a live exit to the split.

The summary and the estimates:

- "smallest difference" is not the smallest for cells of unlike size: with six
  and three probes, 3/3 against 0/6 is named and 3/3 against 1/6 also separates
  (`UnlikeCells`);
- "attempts: at most" is exceeded by redraws (`EveryIdentityAccounted` allows for
  them); the table of warm-up deliveries takes the number planned from its first
  row, whatever the other rows' target;
- the supervisor's estimate counts a rung or a value typed twice, which the plan
  does not; its last words, that nothing reached the target, are also printed
  after a stop that discarded its rows.

Sessions of the matrix runner and of `probe_and_hold`:

- a close that raises after the probe was judged, or a session that dies in the
  hold, gives the breaker a second entry for one identity, and a trip brought
  about there writes no `cell_stopped` row;
- a close that raises takes the place of `ArmInert`, `TransportLost`,
  `StoppedByOperator` or Ctrl-C, and the run goes on (`watch_stop_swallowed` is
  this in the matrix runner);
- rows of warm-up pages count as answered to the transport watch;
- `speed.measure` records nothing of a transfer an exception cuts off, though its
  docstring keeps a truncated transfer's rate; the budget is spent before the
  timezone is known and before the launch;
- `locate` keeps an answer without a country for that address, and such an answer
  resets the count of misses;
- the archive's counter is spent before the page is written, so writes that fail
  can use up the sample.

Engines and pages:

- `zendriver`'s search goes on when the tab has not left the page it typed into,
  and judges that page; and everywhere a box whose value cannot be read passes
  both the clearing and the check of what was typed. These are the two exceptions
  of `RowsAreTrue`;
- in `zendriver` and `botasaurus` a visit of a page that does not arrive need not
  raise (`misses` of their sessions has both ways), and one that ends on the
  browser's error page counts as delivered; their error pages carry none of the
  marks of a transport failure, and the status a page was seen with may be that
  of a frame;
- `patchright` makes its profile directory before the launch: a launch that fails,
  or a close that raises, leaves it behind (`NothingLeftOpen` excepts it by name);
- `http` and `curlcffi` with `--entry url --headless` pass the preflight and have no
  page to open, so every identity fails.

Plans that are accepted:

- `--arm sid=a --arm sid=b`, and any arm of the session's own parameter, are
  overruled by the session's (`SessionArmsAreOneSlice`); an arm or a setting of
  `country` silently replaces the country axis in the matrix runner and is a
  `TypeError` at the first draw in `probe_and_hold`;
- `--params` arms that are one set in two orders are two arms, and their values
  are not checked against the definition; a country asked of a gateway that sells
  none fails at every identity;
- an empty `--arm` beside the same setting, or arms over direct engines only, are
  one cell of the matrix runner;
- `--warm-interact on,TYPE` where the rung has that one kind gives two arms that
  do the same, and `--humanize engine` says nothing to a run that only fetches;
- duplicates of engines or countries are not refused by `probe_and_hold`;
  `--preset aggressive` on a target built by script is refused by the matrix runner
  only; warm-up addresses on a target without a front page are an
  `AttributeError`;
- in the matrix runner `--batch 0` is a `ValueError`, and a bad count of downloads
  is refused when the row file already exists; the help has the channel in the
  cell's key, where it is not.

`AcceptedPlansAreSound` and `NoArmIsTheControl` are therefore about settings that
are not overruled (`FreeArms`, `HeldIsFree`), and compare an arm with its control,
not two arms with each other.

The relay does not count everything it says it does. `_forward` sends the rebuilt
head of a plain request upstream (`relay.py:460`) and goes on to pump, and no
`_count` follows, though the module's docstring says "It also counts what
`Content-Length` summing cannot - request headers" (`relay.py:24-27`): a row's
bytes are short of the first head of every plain connection. TLC refuted an
invariant that had no uncounted head in it; `CountedIsDelivered`
therefore has the uncounted as a term of its own and says what may be in it.

Of the relay and of a run's end: a cell that went direct and whose close then
raises writes `cell_stopped` twice; a kept file is filed apart, so `--resume auto`
falls back on an older run; a pump that raises makes one connection both a tunnel
and a failure; bytes that move between two attempts of `probe_and_hold` are in no
row.

## What is not modelled

- Numbers over a random generator or floating-point: the pointer and hand models,
  the engines' own humanised motion, intervals and the statistics of the analysis
  scripts. Of the analysis scripts only `report.py` is modelled, without its
  intervals; the others aggregate files offline.
- Straight-line input and output: host facts, console encoding, the dispatcher and
  its engine table, the maintenance tools, the single-purpose probes
  (`google_429`, `marketplace_recon` and the like), which share the modules
  modelled here and add no state that outlives a call.
- Text that no property tells apart: the masking of addresses and the host columns,
  wording, file names and compression of bodies, quoting, the spelling of a proxy
  URL. A username is the setting it spells; that two settings are not spelled
  alike is checked.
- How a mark is found in a page - an expression over its text, a comparison of
  hosts. `Targets` starts where the mark was found or was not.
- The blocking callbacks' counters, which follow a browser's own order of events,
  and the protocol inside a CONNECT (`open_tunnel`, `identify_direct`): their
  outcomes are the models' inputs.
- Time: the pauses of a session, back-off, timeouts and the idle limits of a pump
  are the order of events they allow.
- Two processes at once: runs started in the same second share a run id and a file
  (a hazard without a property).
- Whoever writes the stop file, which is not in the repository. The models let the
  file appear whole; created empty and filled later it would be read as the
  default answer (a hazard without a property).
- A second request on a plain connection the relay already pumps: the stream is
  opaque to the relay and to the model (a hazard without a property).
- Ctrl-C in `ProbeRun` outside the walk of a session: in a launch, a close or a
  look-up of the exit.
- What a browser or its framework asks of the network by itself, and so what it
  sends through an exit before its first page.
- `GatewayIdentity` and `Relay` run beside the matrix runner and are not composed
  with it: `BenchmarkRun` keeps the outcomes the runner acts on (an exit, none, the
  operator's own address), `ProbeRun` the meter with its two readings.

## Plan

Done: every module above, with the proofs listed. What is left, by what it would
add:

1. That each cell's breaker in `BenchmarkRun` is a behaviour of `SessionBreaker`,
   which would carry the seven theorems of a cell over to the whole run.
2. The rest of what is printed: the smallest difference told apart (`Note`), the
   deliveries and the countries of `ProbeSummary`, which no property compares
   with the draws yet.
3. An abstract `RowFile` - what a reader of a run may rely on - implemented by
   `BenchmarkRun` with its restarts, in place of the separate properties of the
   file.
4. Composition of the relay's handlers with the matrix runner's attempts, and of
   `GatewayIdentity` with its batches.
5. `results_tables.py`'s selection of rows, as `Report` has `report.py`'s.
