---- MODULE BenchmarkRun ----
(***************************************************************************)
(* The matrix runner: main() of scripts/benchmark.py over the plan of      *)
(* nmbench/matrix.py, with the cell breakers, the transport watch, the     *)
(* stop file and the row file it appends to, across restarts with          *)
(* --resume.  One process; what interleaves with it is the operator (stop  *)
(* file, Ctrl-C, kill) and everything that can fail under a session.       *)
(*                                                                         *)
(* Each run writes one new file.  A row is a record whose kind is          *)
(*   attempt, session_closed, cell_stopped, session_failed,                *)
(*   identity_skipped or run_stopped,                                      *)
(* in the order sink.write appended them.                                  *)
(***************************************************************************)
EXTENDS Breaker, Speed, Report, SequencesExt

CONSTANTS
  CellOrder,   \* the cells, in the order of build_cells
  QueryOrder,  \* the query list every cell is asked
  BatchSize,   \* --batch
  MaxRuns,     \* bound: starts of the command, the first one included
  Faults,      \* which of the failures below the instance lets happen
  Sees,        \* outcomes an attempt can have in the instance
  Downloads    \* --speed-sessions

\* build_cells keeps one cell of each key.
ASSUME RunAssumption ==
  /\ CellOrder \in Seq(Range(CellOrder)) /\ IsInjective(CellOrder)
  /\ QueryOrder \in Seq(Range(QueryOrder))
  /\ BatchSize \in Nat \ {0}
  /\ MaxRuns \in Nat \ {0}
  /\ Sees \subseteq Outcomes
  /\ Downloads \in [word : OFF \cup ALL \cup {"number"}, count : Nat]
  /\ Faults \subseteq {"zone", "engine", "direct", "launch", "death", "close",
                       "dispose", "ctrl_c", "killed", "stop", "garbled"}

Cells == Range(CellOrder)
Queries == Range(QueryOrder)

\* A cell stands for a country of the plan, and a country is a word.
ASSUME CellAssumption == "" \notin Cells

VARIABLES
  disk,      \* the files, oldest first: [rows, place]
  done,      \* what load_completed read: pairs not to be asked again
  plan,      \* batches left, the one in hand first
  pos,       \* attempts of the batch in hand already made
  breakers,  \* one SessionBreaker per cell
  watch,     \* the TransportWatch
  speed,     \* speed_budget, and what this session's download said
  pc,        \* where the process stands
  raised,    \* the exception unwinding an open session
  ending,    \* how the run ended
  printed,   \* what summarise() printed as each cell's rate
  stopfile,  \* the stop file: "absent", or what check() makes of it
  late,      \* history: attempts sent after the stop file appeared
  swallowed  \* history: an exception nobody meant went to the catch-all

vars == <<disk, done, speed, plan, pos, breakers, watch, pc, raised, ending, printed,
          stopfile, late, swallowed>>
history == <<late, swallowed>>
----------------------------------------------------------------------------
(* nmbench/matrix.py                                                       *)

Rows == Last(disk).rows
Written(row) == [disk EXCEPT ![Len(disk)].rows = Append(@, row)]

AttemptRows(rows) == {i \in DOMAIN rows : rows[i].kind = "attempt"}

\* load_completed: a row that errored is not done, every other answer is.
CompletedErrorsToo(rows) ==
  {<<rows[i].cell, rows[i].query>> : i \in AttemptRows(rows)}
Completed(rows) ==
  {<<rows[i].cell, rows[i].query>> :
     i \in {j \in AttemptRows(rows) : ~IsError(rows[j].outcome)}}

\* plan: the queries of a cell not yet done, cut into batches, and the
\* batches taken one index at a time across the cells.
Remaining(cell, skip) == Kept(QueryOrder, {q \in Queries : <<cell, q>> \notin skip})
ChunkWhole(cell, index, skip) ==   \* the batch that is not full is lost
  LET rest == Remaining(cell, skip)
      upto == index * BatchSize
  IN  IF upto > Len(rest) THEN <<>> ELSE SubSeq(rest, upto - BatchSize + 1, upto)
Chunk(cell, index, skip) ==
  LET rest == Remaining(cell, skip)
      upto == index * BatchSize
  IN  SubSeq(rest, upto - BatchSize + 1, IF upto < Len(rest) THEN upto ELSE Len(rest))

BatchOf(cell, index, skip) ==
  [cell |-> cell, index |-> index, queries |-> Chunk(cell, index, skip)]
GridCellMajor(skip) ==             \* one cell after the other
  LET width == Len(QueryOrder)
  IN  [k \in 1..(width * Len(CellOrder)) |->
         BatchOf(CellOrder[((k - 1) \div width) + 1], ((k - 1) % width) + 1, skip)]
Grid(skip) ==
  LET width == Len(CellOrder)
  IN  [k \in 1..(width * Len(QueryOrder)) |->
         BatchOf(CellOrder[((k - 1) % width) + 1], ((k - 1) \div width) + 1, skip)]
PlanSkipping(skip) ==
  Kept(Grid(skip), {batch \in Range(Grid(skip)) : batch.queries # <<>>})

NoSpeed == [budget |-> NewBudget(LimitOf(Downloads)), reading |-> NotMeasured]

Batch == Head(plan)
Cell == Batch.cell
----------------------------------------------------------------------------
Init ==
  /\ disk = <<>>
  /\ done = {}
  /\ plan = <<>>
  /\ pos = 0
  /\ breakers = [c \in Cells |-> NewSessionBreaker]
  /\ watch = NewWatch
  /\ speed = NoSpeed
  /\ pc = "idle"
  /\ raised = "nothing"
  /\ ending = "none"
  /\ printed = [c \in Cells |-> "absent"]
  /\ stopfile = "absent"
  /\ late = 0
  /\ swallowed = FALSE

\* resolve_resume: nothing, or one file only - the newest one in data/runs
\* for `auto`, or the one the path names, wherever it was filed.
Resumable ==
  LET newest == {i \in DOMAIN disk : /\ disk[i].place = "runs"
                                     /\ \A j \in DOMAIN disk :
                                          disk[j].place = "runs" => j <= i}
      named  == {i \in DOMAIN disk : disk[i].place \in {"runs", "stopped"}}
  IN  newest \cup named

\* main() up to the loop: every object of the run is new, whatever is resumed.
\* A plan with nothing in it returns before the sink exists.
Start(skip) ==
  /\ pc \in {"idle", "over"}
  /\ Len(disk) < MaxRuns
  /\ PlanSkipping(skip) # <<>>
  /\ done' = skip
  /\ plan' = PlanSkipping(skip)
  /\ disk' = Append(disk, [rows |-> <<>>, place |-> "runs"])
  /\ breakers' = [c \in Cells |-> NewSessionBreaker]
  /\ watch' = NewWatch
  /\ speed' = NoSpeed
  /\ pc' = "head"
  /\ pos' = 0
  /\ raised' = "nothing"
  /\ ending' = "none"
  /\ printed' = [c \in Cells |-> "absent"]
  /\ stopfile' = "absent"      \* the operator's next run, the button not pressed
  /\ late' = 0
  /\ swallowed' = FALSE

\* A later run from scratch is the first one over again.
StartFresh == disk = <<>> /\ Start({})
StartResumed == \E i \in Resumable : Start(Completed(disk[i].rows))

\* summarise(): a cell with rows gets a rate, or "-" when it has no verdict;
\* a run with no rows prints no summary.
Summary ==
  [c \in Cells |->
     IF ~\E i \in AttemptRows(Rows) : Rows[i].cell = c THEN "absent"
     ELSE IF NoVerdict(breakers[c]) THEN "unmeasured" ELSE "rate"]

\* The run is over: summary, and for an operator's stop the disposal of the
\* file - filed apart, deleted, or left where it is when that fails.
Over(how, rows) ==
  /\ pc' = "over"
  /\ ending' = how
  /\ printed' = Summary
  /\ IF how # "operator" THEN disk' = rows
     ELSE \E place \in {IF stopfile = "discard" THEN "gone" ELSE "stopped"}
                       \cup (IF "dispose" \in Faults THEN {"runs"} ELSE {}) :
            disk' = [rows EXCEPT ![Len(rows)].place = place]

StopRow(why) == [kind |-> "run_stopped", why |-> why]
----------------------------------------------------------------------------
(* The batch head.                                                         *)

Finish ==
  /\ pc = "head"
  /\ plan = <<>>
  /\ Over("finished", disk)
  /\ UNCHANGED <<done, speed, plan, pos, breakers, watch, raised, stopfile, history>>

SkipTrippedStays ==                \* the batch of a stopped cell stays in hand
  /\ pc = "head"
  /\ plan # <<>>
  /\ Tripped(breakers[Cell])
  /\ UNCHANGED vars
SkipTripped ==
  /\ pc = "head"
  /\ plan # <<>>
  /\ Tripped(breakers[Cell])
  /\ plan' = Tail(plan)
  /\ UNCHANGED <<disk, done, speed, pos, breakers, watch, pc, raised, ending, printed,
                 stopfile, history>>

\* check() answers for an answer it can read, and for a JSON it cannot parse.
\* It raises on a file that is not UTF-8 ("undecodable": again, each time) and
\* on a JSON that is no object ("not_object": once, the stop being noted).
Answerable == {"keep", "discard"}
Raising == {"undecodable", "not_object"}

StopAtHead ==
  /\ pc = "head"
  /\ plan # <<>>
  /\ ~Tripped(breakers[Cell])
  /\ stopfile \in Answerable
  /\ Over("operator", Written(StopRow("operator")))
  /\ UNCHANGED <<done, speed, plan, pos, breakers, watch, raised, stopfile, history>>

\* Outside a session nobody takes what check() raises: no summary, no disposal.
StopRaisesAtHead ==
  /\ pc = "head"
  /\ plan # <<>>
  /\ ~Tripped(breakers[Cell])
  /\ stopfile \in Raising
  /\ pc' = "over"
  /\ ending' = "crashed"
  /\ UNCHANGED <<disk, done, speed, plan, pos, breakers, watch, raised, printed, stopfile,
                 history>>

\* The stop file is not there; the exit is looked up, and a download spent on
\* it, before anything opens and before it is known whether anything will.
TakeBatch ==
  /\ pc = "head"
  /\ plan # <<>>
  /\ ~Tripped(breakers[Cell])
  /\ stopfile = "absent"
  /\ pc' = "identify"
  /\ pos' = 0
  /\ \E reading \in IF MayTake(speed.budget) THEN Readings(1) ELSE {NotMeasured} :
       speed' = [budget |-> Take(speed.budget), reading |-> reading]
  /\ UNCHANGED <<disk, done, plan, breakers, watch, raised, ending, printed,
                 stopfile, history>>

NextBatch(rows) ==
  /\ pc' = "head"
  /\ plan' = Tail(plan)
  /\ disk' = rows

\* An aligned cell whose exit names no timezone: the batch is passed over and
\* no session is counted.
SkipIdentity ==
  /\ "zone" \in Faults
  /\ pc = "identify"
  /\ NextBatch(Written([kind |-> "identity_skipped", cell |-> Cell]))
  /\ UNCHANGED <<done, speed, pos, breakers, watch, raised, ending, printed, stopfile,
                 history>>
----------------------------------------------------------------------------
(* The session.                                                            *)

Launch ==
  /\ pc = "identify"
  /\ pc' = "session"
  /\ UNCHANGED <<disk, done, speed, plan, pos, breakers, watch, raised, ending, printed,
                 stopfile, history>>

EngineUnavailable ==
  /\ "engine" \in Faults
  /\ pc = "identify"
  /\ breakers' = [breakers EXCEPT ![Cell] = Trip(@, "engine_unavailable")]
  /\ pc' = "closing"
  /\ UNCHANGED <<disk, done, speed, plan, pos, watch, raised, ending, printed, stopfile,
                 history>>

\* The browser is on this machine's own address.
DirectStop == [kind |-> "cell_stopped", cell |-> Cell, why |-> "went_direct"]
WentDirect ==
  /\ "direct" \in Faults
  /\ pc = "identify"
  /\ breakers' = [breakers EXCEPT ![Cell] = Trip(@, "went_direct")]
  /\ NextBatch(Written(DirectStop))
  /\ UNCHANGED <<done, speed, pos, watch, raised, ending, printed, stopfile, history>>

\* The `continue` leaves through the context managers: a close that raises
\* turns it into a session that failed, which is then closed and recorded.
WentDirectCloseRaises ==
  /\ {"direct", "close"} \subseteq Faults
  /\ pc = "identify"
  /\ breakers' = [breakers EXCEPT ![Cell] = Trip(@, "went_direct")]
  /\ disk' = [disk EXCEPT ![Len(disk)].rows =
                @ \o <<DirectStop, [kind |-> "session_failed", cell |-> Cell]>>]
  /\ pc' = "closing"
  /\ UNCHANGED <<done, speed, plan, pos, watch, raised, ending, printed, stopfile, history>>

SessionFailed == Written([kind |-> "session_failed", cell |-> Cell])

\* The catch-all: a launch that failed, or a session that died between two
\* queries, at the last identity check or while closing.
SessionDies ==
  /\ \/ pc = "identify" /\ "launch" \in Faults
     \/ pc = "session" /\ "death" \in Faults
  /\ disk' = SessionFailed
  /\ pc' = "closing"
  /\ UNCHANGED <<done, speed, plan, pos, breakers, watch, raised, ending, printed,
                 stopfile, history>>

\* One query: fetched, and its row written before anything is made of it.
Fetch(o) ==
  /\ pc = "session"
  /\ pos < Len(Batch.queries)
  /\ disk' = Written([kind |-> "attempt", cell |-> Cell, batch |-> Batch.index,
                      query |-> Batch.queries[pos + 1], outcome |-> o,
                      timed |-> speed.reading # NotMeasured])
  /\ pos' = pos + 1
  /\ pc' = "judge"
  /\ late' = IF stopfile = "absent" THEN late ELSE late + 1
  /\ UNCHANGED <<done, speed, plan, breakers, watch, raised, ending, printed, stopfile,
                 swallowed>>

\* What the loop does with the row it has just written: the watch first, the
\* stop file next, and the breaker only if neither raised.
Outcome == Last(Rows).outcome
Watched == WatchRecord(watch, Cell, Outcome)

JudgeTransport ==
  /\ pc = "judge"
  /\ Watched.tripped
  /\ watch' = Watched
  /\ disk' = Written(StopRow("transport"))
  /\ raised' = "transport"
  /\ pc' = "unwinding"
  /\ UNCHANGED <<done, speed, plan, pos, breakers, ending, printed, stopfile, history>>

JudgeStop ==
  /\ pc = "judge"
  /\ ~Watched.tripped
  /\ stopfile \in Answerable
  /\ watch' = Watched
  /\ raised' = "operator"
  /\ pc' = "unwinding"
  /\ UNCHANGED <<disk, done, speed, plan, pos, breakers, ending, printed, stopfile, history>>

\* Inside a session the catch-all takes it, and the breaker is not told.
JudgeStopRaises ==
  /\ pc = "judge"
  /\ ~Watched.tripped
  /\ stopfile \in Raising
  /\ watch' = Watched
  /\ disk' = SessionFailed
  /\ pc' = "closing"
  /\ stopfile' = IF stopfile = "not_object" THEN "keep" ELSE stopfile
  /\ swallowed' = TRUE
  /\ UNCHANGED <<done, speed, plan, pos, breakers, raised, ending, printed, late>>

JudgeRecordUnasked ==              \* the stop file is looked at between batches only
  /\ pc = "judge"
  /\ ~Watched.tripped
  /\ watch' = Watched
  /\ breakers' = [breakers EXCEPT ![Cell] = Record(@, Outcome)]
  /\ pc' = "session"
  /\ UNCHANGED <<disk, done, speed, plan, pos, raised, ending, printed, stopfile, history>>
JudgeRecord ==
  /\ pc = "judge"
  /\ ~Watched.tripped
  /\ stopfile = "absent"
  /\ watch' = Watched
  /\ breakers' = [breakers EXCEPT ![Cell] = Record(@, Outcome)]
  /\ pc' = "session"
  /\ UNCHANGED <<disk, done, speed, plan, pos, raised, ending, printed, stopfile, history>>

BatchDone ==
  /\ pc = "session"
  /\ pos = Len(Batch.queries)
  /\ pc' = "closing"
  /\ UNCHANGED <<disk, done, speed, plan, pos, breakers, watch, raised, ending, printed,
                 stopfile, history>>

\* end_session, its row, and the row of the stop it may have brought about.
CloseSessionSilently ==            \* the stop of the cell is not recorded
  /\ pc = "closing"
  /\ LET ended == EndSession(breakers[Cell])
     IN  /\ breakers' = [breakers EXCEPT ![Cell] = ended]
         /\ NextBatch(Written([kind |-> "session_closed", cell |-> Cell,
                               batch |-> Batch.index, class |-> ClassOf(breakers[Cell])]))
  /\ UNCHANGED <<done, speed, pos, watch, raised, ending, printed, stopfile, history>>
CloseSession ==
  /\ pc = "closing"
  /\ LET ended  == EndSession(breakers[Cell])
         closed == [kind |-> "session_closed", cell |-> Cell,
                    batch |-> Batch.index, class |-> ClassOf(breakers[Cell])]
         stop   == [kind |-> "cell_stopped", cell |-> Cell, why |-> ended.reason]
         rows   == <<closed>> \o (IF Tripped(ended) THEN <<stop>> ELSE <<>>)
     IN  /\ breakers' = [breakers EXCEPT ![Cell] = ended]
         /\ NextBatch([disk EXCEPT ![Len(disk)].rows = @ \o rows])
  /\ UNCHANGED <<done, speed, pos, watch, raised, ending, printed, stopfile, history>>
----------------------------------------------------------------------------
(* Leaving an open session with an exception in flight: the context        *)
(* managers close it.  A close that raises replaces the exception, and the *)
(* catch-all takes what replaced it.                                       *)

Unwound ==
  /\ pc = "unwinding"
  /\ Over(raised, IF raised = "operator" THEN Written(StopRow("operator")) ELSE disk)
  /\ raised' = "nothing"
  /\ UNCHANGED <<done, speed, plan, pos, breakers, watch, stopfile, history>>

CloseRaises ==
  /\ "close" \in Faults
  /\ pc = "unwinding"
  /\ disk' = SessionFailed
  /\ pc' = "closing"
  /\ raised' = "nothing"
  /\ swallowed' = TRUE
  /\ UNCHANGED <<done, speed, plan, pos, breakers, watch, ending, printed, stopfile, late>>

\* Ctrl-C: inside a session it unwinds like the others, outside it ends the
\* run where it stands.
CtrlC ==
  /\ "ctrl_c" \in Faults
  /\ pc \in {"head", "identify", "session", "judge", "closing"}
  /\ IF pc \in {"session", "judge"}
     THEN /\ raised' = "ctrl_c"
          /\ pc' = "unwinding"
          /\ UNCHANGED <<disk, ending, printed>>
     ELSE Over("ctrl_c", disk) /\ UNCHANGED raised
  /\ UNCHANGED <<done, speed, plan, pos, breakers, watch, stopfile, history>>

\* The process is killed, or the machine goes down: what is on disk stays.
Killed ==
  /\ "killed" \in Faults
  /\ pc \notin {"idle", "over"}
  /\ pc' = "over"
  /\ ending' = "killed"
  /\ raised' = "nothing"
  /\ UNCHANGED <<disk, done, speed, plan, pos, breakers, watch, printed, stopfile, history>>

RequestStop(answer) ==
  /\ (IF answer \in Answerable THEN "stop" ELSE "garbled") \in Faults
  /\ pc \notin {"idle", "over"}
  /\ stopfile = "absent"
  /\ stopfile' = answer
  /\ UNCHANGED <<disk, done, speed, plan, pos, breakers, watch, pc, raised, ending,
                 printed, history>>

\* The process's own steps, and what is done to it.
RunnerStep ==
  \/ Finish \/ SkipTripped \/ StopAtHead \/ StopRaisesAtHead \/ TakeBatch
  \/ SkipIdentity \/ Launch \/ EngineUnavailable \/ WentDirect
  \/ WentDirectCloseRaises \/ SessionDies
  \/ \E o \in Sees : Fetch(o)
  \/ JudgeTransport \/ JudgeStop \/ JudgeStopRaises \/ JudgeRecord
  \/ BatchDone \/ CloseSession \/ Unwound \/ CloseRaises

Next ==
  \/ RunnerStep
  \/ StartFresh \/ StartResumed
  \/ CtrlC \/ Killed
  \/ \E answer \in Answerable \cup Raising : RequestStop(answer)

Spec == Init /\ [][Next]_vars

\* A started process is scheduled; nobody has to start it again or stop it.
FairSpec == Spec /\ WF_vars(RunnerStep)
----------------------------------------------------------------------------
(* What the runner owes the reader of its rows.                            *)

Kinds == {"attempt", "session_closed", "cell_stopped", "session_failed",
          "identity_skipped", "run_stopped"}
OfCell(rows, kind, c) == {i \in DOMAIN rows : rows[i].kind = kind /\ rows[i].cell = c}

TypeOK ==
  /\ Len(disk) <= MaxRuns
  /\ \A f \in DOMAIN disk :
       /\ disk[f].place \in {"runs", "stopped", "gone"}
       /\ \A i \in DOMAIN disk[f].rows : disk[f].rows[i].kind \in Kinds
  /\ done \subseteq Cells \X Queries
  /\ \A i \in DOMAIN plan : plan[i].cell \in Cells /\ Len(plan[i].queries) \in 1..BatchSize
  /\ pos \in 0..BatchSize
  /\ \A c \in Cells : breakers[c].reason \in SessionReasons
  /\ Len(watch.recent) <= Window
  /\ pc \in {"idle", "head", "identify", "session", "judge", "unwinding", "closing", "over"}
  /\ raised \in {"nothing", "transport", "operator", "ctrl_c"}
  /\ ending \in {"none", "finished", "transport", "operator", "ctrl_c", "killed", "crashed"}
  /\ printed \in [Cells -> {"absent", "unmeasured", "rate"}]
  /\ stopfile \in {"absent"} \cup Answerable \cup Raising
  /\ late \in Nat
  /\ swallowed \in BOOLEAN

\* The class a session row carries is the class of the attempt rows of that
\* (cell, batch) above it: the breaker's counters and the file agree on what
\* each session was, across sessions and whatever cut them short.  And the throughput an
\* attempt row carries is the session's: on all of its rows or on none, on no
\* more sessions than were asked for, and on none after one that went without.
ClassOfRows(rows, i) ==
  LET of == {rows[j].outcome : j \in {k \in AttemptRows(rows) :
               /\ k < i /\ rows[k].cell = rows[i].cell /\ rows[k].batch = rows[i].batch}}
  IN  CASE of = {} -> "abandoned"
        [] "ok" \in of -> "alive"
        [] of = {"transport"} -> "unreachable"
        [] OTHER -> "dead"
ReadingsAreTheSessions ==
  LET asked   == AttemptRows(Rows)
      timed   == {i \in asked : Rows[i].timed}
      session(i) == <<Rows[i].cell, Rows[i].batch>>
      limit   == LimitOf(Downloads)
  IN  /\ \A i, j \in asked :
           /\ session(i) = session(j) => Rows[i].timed = Rows[j].timed
           /\ j \in timed /\ i < j => i \in timed
      /\ limit = NoCap => timed = asked
      /\ limit # NoCap => Cardinality({session(i) : i \in timed}) <= limit
SessionRowsAgree ==
  /\ disk # <<>> /\ ~swallowed =>
       \A i \in DOMAIN Rows :
         Rows[i].kind = "session_closed" => Rows[i].class = ClassOfRows(Rows, i)
  /\ pc = "over" => ReadingsAreTheSessions

\* A cell that was stopped says so, and nothing is asked of it afterwards; a
\* cell that does not say so was not stopped.  At the batch head, where the
\* runner decides whether the cell goes on.
CellStopIsRecorded ==
  pc = "head" =>
    \A c \in Cells :
      LET stops == OfCell(Rows, "cell_stopped", c)
      IN  /\ stops # {} <=> Tripped(breakers[c])
          /\ \A s \in stops, i \in OfCell(Rows, "attempt", c) : i < s

\* The questions file f holds an answer to, whatever a later run made of it.
Answered(f) == {<<disk[f].rows[i].cell, disk[f].rows[i].query>> :
                  i \in {j \in AttemptRows(disk[f].rows) :
                           disk[f].rows[j].outcome \in {"ok", "refused"}}}
Earlier == 1..(Len(disk) - 1)

\* A run that came to its end leaves no hole: a query with neither an answer
\* in an earlier file nor a row of its own is explained by a row that says
\* its cell was stopped or one of its cell's sessions did not happen.
NothingSilentlyMissing ==
  pc = "over" /\ ending = "finished" =>
    \A c \in Cells, q \in Queries :
      \/ \E f \in Earlier : <<c, q>> \in Answered(f)
      \/ \E i \in OfCell(Rows, "attempt", c) : Rows[i].query = q
      \/ \E kind \in {"cell_stopped", "session_failed", "identity_skipped"} :
           OfCell(Rows, kind, c) # {}

\* What a resumed run leaves out is what was answered, and all of it is left
\* out: an attempt that errored is made again, one that was judged is not.
ResumeIsExact ==
  disk # <<>> =>
    /\ \A i \in AttemptRows(Rows) : <<Rows[i].cell, Rows[i].query>> \notin done
    /\ done \in {{}} \cup {Answered(f) : f \in Earlier}

AttemptsAmong(rows) == Kept(rows, {rows[i] : i \in AttemptRows(rows)})

\* The watch stops the run on evidence that is in the file: the last Window
\* attempts before its row hold the share of errors, over the spread of cells.
WatchStopIsEvidence ==
  disk # <<>> /\ ~swallowed =>
    \A s \in DOMAIN Rows :
      Rows[s] = StopRow("transport") =>
        LET before == AttemptsAmong(SubSeq(Rows, 1, s))
            recent == SubSeq(before, Len(before) - Window + 1, Len(before))
            errors == {i \in DOMAIN recent : IsError(recent[i].outcome)}
        IN  /\ Len(before) >= Window
            /\ 100 * Cardinality(errors) >= SharePct * Window
            /\ Cardinality({recent[i].cell : i \in errors}) >= Spread

\* Cells share their hour: no cell is asked from its next batch while another
\* is still to be asked from the one before.
CellsInterleave ==
  disk # <<>> =>
    \A i, j \in AttemptRows(Rows) : i < j => Rows[i].batch <= Rows[j].batch

\* Once the stop file is there, at most the attempt in hand is still sent.
StopIsPrompt == late <= 1

\* The rows as the report reads them, of a plan of two countries: what was
\* refused is a page of another address.
AsReported(rows) ==
  [i \in DOMAIN rows |->
     IF rows[i].kind # "attempt" THEN rows[i]
     ELSE LET outcome == rows[i].outcome
          IN  [kind |-> "attempt", cell |-> rows[i].cell, batch |-> rows[i].batch,
               verdict |-> CASE IsError(outcome) -> "error"
                             [] outcome = "ok" -> "ok"
                             [] outcome = "refused" -> "captcha",
               status |-> IF IsError(outcome) THEN "none" ELSE "200",
               landed |-> IF outcome = "ok" THEN "asked" ELSE "elsewhere",
               engine |-> "camoufox", target |-> "google_serp", direct |-> FALSE,
               headful |-> FALSE, geo |-> "off", provider |-> "nodemaven",
               country |-> rows[i].cell, wire |-> ""]]

\* A run that closed every session prints no rate for exactly the cells no
\* attempt of which reached the target.  The report of its file, which has
\* the session rows and not the breakers to go by, says so of the same cells,
\* whatever else it leaves unmeasured, and counts as sessions that ran those
\* whose attempts are there.
Unanswered(c) ==
  \A i \in OfCell(Rows, "attempt", c) : IsTransportFailure(Rows[i].outcome)
ReportAgrees ==
  LET rows  == AsReported(Rows)
      asked == Attempts(rows)
  IN  /\ ExitYield(rows).ran = SessionsSeen(asked)
      /\ \A i \in DOMAIN asked :
           LET line == PassCell(rows, GroupOf(asked, LabelIn(asked[i], asked),
                                              asked[i].target))
           IN  /\ printed[asked[i].cell] = "unmeasured" <=>
                    line.what = "unmeasured" /\ ~line.marked
               /\ line.what = "unmeasured" => line.ok = 0
SummaryAgrees ==
  \A c \in Cells : printed[c] # "absent" => (printed[c] = "unmeasured" <=> Unanswered(c))
UnmeasuredMeansUnanswered ==
  pc = "over" /\ ending = "finished" /\ ~swallowed => SummaryAgrees /\ ReportAgrees

\* A run that was started comes to an end, and so does one asked to stop.
RunEnds == (pc = "head") ~> (pc = "over")

\* A run stopped with Ctrl-C, the stop file or by the watch prints what its
\* rows support too (breaker.py, no_verdict: "The session in flight counts").
PrintedRateIsTrue ==
  pc = "over" => \A c \in Cells : printed[c] = "unmeasured" => Unanswered(c)

\* Once the watch has stopped the run, nothing more is asked of a target
\* (benchmark.py, at the re-raise: "It ends the run").
WatchStopIsLast ==
  disk # <<>> =>
    \A s \in DOMAIN Rows : Rows[s] = StopRow("transport") =>
      \A i \in AttemptRows(Rows) : i < s

\* "A file that will not parse is treated as a stop with the default answer
\* about the rows" (stop.py, StopWatch): whatever is in the stop file, the run
\* it ends is ended as a stopped run, with its summary and its file filed.
StopFileIsAStop == pc = "over" => ending # "crashed"

\* No query a file answers is asked again by a later run that resumes.
AnswersAreNotAskedAgain ==
  \A f, g \in DOMAIN disk : f < g =>
    \A i \in AttemptRows(disk[g].rows) :
      <<disk[g].rows[i].cell, disk[g].rows[i].query>> \notin Answered(f)
====
